CONSTANTS
  NumPrevFrames = 2
  Configs <- EarlyFlush
SPECIFICATION Spec
PROPERTY
  CallsReturn
