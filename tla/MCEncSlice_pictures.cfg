CONSTANTS
  WidthInCtus = 3
  HeightInCtus = 3
  NumPics = 2
  RefPics <- ChainRefs
  Configs <- EncoderConfigs
  MaxRunning = 2
SPECIFICATION FairSpec
INVARIANTS
  EncodeSourcesReady
  LoopFilterSourcesReady
  AlfSourcesReady
  FiltersDerivedFromAll
  RefLinesReady
PROPERTIES
  AllPicturesEnd
CHECK_DEADLOCK FALSE
