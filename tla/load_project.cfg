SPECIFICATION Spec
CONSTANTS
  AllFiles <- Universe
INVARIANTS
  OnlyTheLastGameMatters
  EveryPackageLoaded
