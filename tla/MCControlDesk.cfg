CONSTANTS
  SetIds = {1, 2}
  ColumnIds = {"a", "b"}
  Definitions <- TwoBanks
  Width = 1
  Devices = 1
  Modes = {"direct", "hsi"}
  FaderPositions = 2
  HueTop = 1
  Top = 1
  MaxAccumulated = 2
  HueBound = 1
  ClientColours <- Colours
  ClientPositions <- EitherPosition
SPECIFICATION PartsSpec
INVARIANTS DeskSound ClientsKnow
PROPERTIES ColumnSound ChangesAnnounced DraftsStayPrivate
CHECK_DEADLOCK FALSE
