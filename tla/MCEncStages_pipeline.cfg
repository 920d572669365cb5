CONSTANTS
  NumPrevFrames = 2
  Configs <- EncoderConfigs
SPECIFICATION Spec
INVARIANTS
  TypeOK
  UnitsCounted
  UnitsIntact
  ReferencesHeld
  NoFatalError
PROPERTIES
  FilterSeesWindow
  ImplementsAccessUnits
  CallsReturn
  FlushEnds
