CONSTANTS
  NTasks = 4
  CpuCount = 2
  Modulus = 8
  Throwing = {3, 4}
  ExplicitId <- MCExplicitId
  NFilters = 4
  Provided <- MCProvided
  Wirings <- MCWirings
SPECIFICATION ConstructionSpec
INVARIANTS AtMostCpuCount LoadingSound InputsFirst RejectsOnlyUnorderable LinksFound
PROPERTY ConstructionEnds
CHECK_DEADLOCK FALSE
