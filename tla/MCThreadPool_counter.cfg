CONSTANTS
  ctu = ctu
  div = div
  None = None
  Threads = {w1, w2}
  NumTasks = 2
  Counter = {ctu}
  CounterOf <- PairGroups
  WaitOrder <- PairWaits
  Deps <- PairDeps
  Polls <- SmallPolls
  TwoCalls = {}
  MayThrow = {1}
  MayExitEarly = FALSE
  ChunkSize = 2
  CounterRange = 8
SPECIFICATION Spec
INVARIANTS
  ClearedPoolCountsZero
CHECK_DEADLOCK FALSE
