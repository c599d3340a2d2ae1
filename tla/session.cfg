SPECIFICATION Spec
CONSTANTS
  MaxTexts = 6
  PipeCap = 1
  BufCap = 3
  Transcripted = TRUE
  Faults <- AllFaults
INVARIANTS
  TranscriptCoversSolver
  VerdictsAnswerTheirQueries
  ModelIsComplete
  NobodyIsStuck
PROPERTIES
  CheckSatReturns
  ReadToEndReturns
  NoOrphanSolver
  ImplementsService
