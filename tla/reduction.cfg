SPECIFICATION Spec
CONSTANTS
  Games <- MCGames
  Imports <- MCImports
  OracleType <- Apart
  Literals <- Eight
  Compounds <- Sum
  Texts <- MCTexts
  StackLimit = 7
INVARIANTS
  MappedPartIsAssumption
  ReductionPartsAgree
  ReductionsAccepted
