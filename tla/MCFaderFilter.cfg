CONSTANTS
  SetIds = {1, 2}
  ColumnIds = {"a"}
  Definitions <- Recoloured
  Width = 1
  Devices = 1
SPECIFICATION FaderSpec
INVARIANT FaderReadsItsMode
CHECK_DEADLOCK FALSE
