CONSTANTS
  NTasks = 3
  CpuCount = 2
  Modulus = 8
  Throwing = {2}
  ExplicitId <- MCExplicitId
SPECIFICATION LoadingSpec
INVARIANTS NoSceneMissing
CHECK_DEADLOCK FALSE
