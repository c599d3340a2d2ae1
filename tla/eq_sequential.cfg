SPECIFICATION Spec
CONSTANTS
  Exports <- ALast
  RightExports <- ABCSet
  ReqOracle = "*"
  AllOracles = "*"
  Parallel = 1
  Trees <- ThreeTrees
  InvFiles <- FirstFiles
  FileNames <- AllFiles
  Contradictory <- None
  Worlds <- TwoWorlds
  Truth <- OutputFails
  InvariantNames <- InvariantName
  SessionsBreak = TRUE
INVARIANTS
  Soundness
  OrderedTreesAreSound
  ClaimContext
