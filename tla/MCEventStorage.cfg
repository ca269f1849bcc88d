CONSTANTS
  io = io
  main = main
  nobody = nobody
  gpio = gpio
  audio = audio
  unnamed = unnamed
  fn = fn
  Producers <- MCProducers
  Main = main
  Nobody = nobody
  Names <- MCNames
  NoName = unnamed
  DeskSource = gpio
  SenderFunctions <- MCFunctions
  TypesSent <- MCTypes
  MaxSources = 2
  MaxEvents = 3
SPECIFICATION Spec
INVARIANT ExactlyOnce
PROPERTIES ImplementsDelivery AcceptedIsShown
