CONSTANTS
  ctu = ctu
  div = div
  None = None
  Threads = {w1, w2, w3}
  NumTasks = 1
  Counter = {ctu}
  CounterOf <- SingleGroup
  WaitOrder <- PairWaits
  Deps <- SingleDeps
  Polls <- SingleDeps
  TwoCalls = {}
  MayThrow = {}
  MayExitEarly = TRUE
  ChunkSize = 1
  CounterRange = 8
SPECIFICATION FairSpec
PROPERTIES
  ProgramEnds
CHECK_DEADLOCK FALSE
