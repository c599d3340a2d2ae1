SPECIFICATION Spec
CONSTANTS
  TypeIn <- HandleExpression
  Words = {"n", "s", "T", "a", "x", "i", "_", "O", "P", "key", "1"}
  Instances = {"other"}
  MaxExprDepth = 4
  MaxCodeDepth = 5
  MaxTermDepth = 24
  State <- PackageState
  Callee <- MCCallee
  Params <- MCParams
  Oracles <- MCOracles
  Wires <- MCWires
  Texts <- MCTexts
  Conditions <- MCConditions
  LoopBounds <- MCBounds
  LoopVars <- MCLoopVars
  Inputs <- MCInputs
  ReturnTypes <- MCReturnTypes
  MaxStatements = 4
  MaxNesting = 2
INVARIANTS
  PassesKeepMeaning
  WriterNeverPanics
  OneCounterPerSample
  TermIsClosed
  TermMeansCode
  AcceptedCodeIsWellTyped
CHECK_DEADLOCK FALSE
