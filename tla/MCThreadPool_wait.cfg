CONSTANTS
  ctu = ctu
  div = div
  None = None
  Threads = {w1, w2}
  NumTasks = 1
  Counter = {ctu}
  CounterOf <- SingleGroup
  WaitOrder <- PairWaits
  Deps <- SingleDeps
  Polls <- SingleDeps
  TwoCalls = {}
  MayThrow = {1}
  MayExitEarly = FALSE
  ChunkSize = 2
  CounterRange = 8
SPECIFICATION FairSpec
PROPERTIES
  WaitReturns
CHECK_DEADLOCK FALSE
