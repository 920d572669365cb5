CONSTANTS
  ctu = ctu
  div = div
  None = None
  Threads = {w1, w2}
  NumTasks = 2
  Counter = {ctu, div}
  CounterOf <- SmallGroups
  WaitOrder <- PictureWaits
  Deps <- ChainDeps
  Polls <- SmallPolls
  TwoCalls = {1}
  MayThrow = {1}
  MayExitEarly = FALSE
  ChunkSize = 1
  CounterRange = 8
SPECIFICATION FairSpec
INVARIANTS
  NoLostWakeup
PROPERTIES
  EveryTaskEnds
CHECK_DEADLOCK FALSE
