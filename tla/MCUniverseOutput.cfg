CONSTANTS
  Ids = {1, 2}
  Devices = {0, 1}
  SequenceSpan = 4
  MaxObjects = 3
  MaxCalls = 3
SPECIFICATION Spec
INVARIANT UniversesSound
PROPERTIES SequenceAdvances KeepsSending
CHECK_DEADLOCK FALSE
