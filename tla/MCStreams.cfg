CONSTANTS
  Base = 2
  VarintLimit = 3
  Messages <- MCMessages
  Unruly = {3}
  MaxMessages = 3
  MaxRecord = 6
  DeskThreads = {1, 2}
  Room = 2
  ReadSize = 4
  Budgets <- MCBudgets
  Configurations <- MCConfigurations
  Short = 64
  Window = 4
  NoSound = NoSound
  Absent = Absent
SPECIFICATION StreamsSpec
INVARIANTS InputsSound AudioSound
PROPERTIES ImplementsStream InputsAnswered
CHECK_DEADLOCK FALSE
