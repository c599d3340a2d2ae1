SPECIFICATION Spec
CONSTANTS
  Packages <- PackageSet
  ConstNames <- Lens
  OracleNames <- Oracles
  Literals <- Eight
  Compounds <- Sum
  InstanceItems <- Insts
  LoopItems <- Loops
  BodyItems <- Bodies
  Adversary = "adversary"
  MaxInstances = 3
  MaxWires = 3
  MaxDepth = 3
INVARIANTS
  NoShadowing
  ResolveSucceeds
  CallsReachTheirOracles
  DefineSucceeds
  CalleesFirst
  OnlyCirclesPanic
