SPECIFICATION Spec
CONSTANTS
  Exports <- Faulty
  RightExports <- RightSet
  ReqOracle = "*"
  AllOracles = "*"
  Parallel = 2
  Trees <- FaultyTrees
  InvFiles <- FaultyFiles
  FileNames <- AllFiles
  Contradictory <- Second
  Worlds <- TwoWorlds
  Truth <- FaultyTruth
  InvariantNames <- InvariantName
  SessionsBreak = TRUE
INVARIANTS
  EveryFailureReported
PROPERTIES
  
  ImplementsGoal
