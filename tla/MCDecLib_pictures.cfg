CONSTANTS
  MaxDecPicBuffering = 3
  NumReorderPics = 1
  ParseFrameDelay = 1
  MaxOutOfOrderPics = 3
  ParallelDecInst = 2
  NumRecon = 2
  MaxHeld = 2
  Streams <- PictureStreams
SPECIFICATION Spec
INVARIANTS
  TypeOK
  RefsIntact
  RefsReady
  FramesIntact
  NoFatalError
  ErrorsReportedOnce
  AllShown
PROPERTIES
  ImplementsOutputOrder
  CallsReturn
