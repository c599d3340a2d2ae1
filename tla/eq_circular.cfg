SPECIFICATION Spec
CONSTANTS
  Exports <- OnlyA
  RightExports <- OnlyASet
  ReqOracle = "*"
  AllOracles = "*"
  Parallel = 1
  Trees <- CircularTrees
  InvFiles <- NoFiles
  FileNames <- AllFiles
  Contradictory <- None
  Worlds <- TwoWorlds
  Truth <- CircularTruth
  InvariantNames <- InvariantName
  SessionsBreak = FALSE
INVARIANTS
  AcceptedClaimsHold
