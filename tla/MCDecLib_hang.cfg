CONSTANTS
  MaxDecPicBuffering = 3
  NumReorderPics = 1
  ParseFrameDelay = 1
  MaxOutOfOrderPics = 3
  ParallelDecInst = 2
  NumRecon = 2
  MaxHeld = 2
  Streams <- LossyStreams
SPECIFICATION Spec
PROPERTIES
  CallsReturn
CHECK_DEADLOCK FALSE
