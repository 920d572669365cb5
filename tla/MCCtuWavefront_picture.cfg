CONSTANTS
  WidthInCtus = 3
  HeightInCtus = 2
  NumColPerTask = 2
  NumThreads = 2
  MaxRunning = 2
  MayFail = TRUE
SPECIFICATION FairSpec
INVARIANTS
  MotionSourcesReady
  IntraSourcesReady
  DeblockSourcesReady
  SaoSourcesReady
  AlfSourcesReady
  NoWavefrontDeadlock
PROPERTIES
  AllTasksLeave
CHECK_DEADLOCK FALSE
