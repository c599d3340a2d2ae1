SPECIFICATION Spec
CONSTANTS
  Files <- MCFiles
  KindOf <- MCKindOf
  Directories <- MCDirectories
  Outcomes <- MCOutcomes
INVARIANTS
  FilesStayWhole
  FormattingKeepsTrees
  FormattingKeepsPackages
CHECK_DEADLOCK FALSE
