CONSTANTS
  Channels <- MCChannels
  Transitions <- MCTransitions
  Unit = 2
  Scales = {1, 2, 4}
  MinFrame = 3
  MaxValue = 20
  MaxLag = 2
  MaxTime = 9
  N = 4
  Full = 3
  Minute = 8
  MaxBpm = 4
  Forever = 17
  Curves <- MCCurves
  Live <- Input
  Levels = {0, 2}
  ChaserScales = {1, 2}
  ChaserConfigs <- MCChaserConfigs
  ChaserLag = 2
  ChaserTime = 8
  ChaserEvents = 6
  Kinds <- MCKinds
  Byte = 3
  Floats <- MCFloats
  Colours <- MCColours
  Delay = 3
  SwitchTimes <- MCSwitchTimes
  Second = 2
  Windows = 3
  MaxEvents = 2
  SignalLag = 3
  SignalTime = 9
  ShowFiles <- MCShowFiles
  Bytes = 4
  Fed <- MCFed
  Assigned <- MCAssigned
  Registered <- MCRegistered
  UniverseSize = 2
  Nil = Nil
SPECIFICATION FiltersSpec
INVARIANTS ActiveExact ChaserSound SignalsSound LuaSound
PROPERTIES  LastsAsConfigured ShiftsCatchUp DelayHolds OnlyWholeCyclesShow
CHECK_DEADLOCK FALSE
