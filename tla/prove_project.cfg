SPECIFICATION Spec
CONSTANTS
  ProofKeys <- Keys
  GameHops <- Project
  NoReq = NoReq
  ReqProofs <- OptProofs
  ReqSteps <- OptSteps
  ReqOracles <- OptOracles
  Parallels <- OneOrTwo
INVARIANTS
  OkMeansVerified
  CheckedInOrder
  BarsFollowLoop

  
