CONSTANTS
  NCues = 4
  Cues <- MCCues
  DefaultCues <- MCDefaultCues
  Scales = {0, 1, 2}
  StateLists <- MCStateLists
  MaxLag = 1
  MaxAge = 3
  MaxCommands = 3
  Mappings <- MCMappings
  CueTexts <- MCCueTexts
  Defaults <- MCDefaults
  Limits <- MCLimits
SPECIFICATION CuesSpec
INVARIANTS ListSound ConfigurationSound
PROPERTIES PausedTimeDoesNotCount EndsUnlessRepeated
CHECK_DEADLOCK FALSE
