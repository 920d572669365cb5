CONSTANTS
  ctu = ctu
  div = div
  None = None
  Threads = {w1, w2}
  NumTasks = 3
  Counter = {ctu, div}
  CounterOf <- PictureGroups
  WaitOrder <- PictureWaits
  Deps <- PictureDeps
  Polls <- PicturePolls
  TwoCalls = {2}
  MayThrow = {1}
  MayExitEarly = FALSE
  ChunkSize = 2
  CounterRange = 8
SPECIFICATION Spec
SYMMETRY Symmetric
INVARIANTS
  SlotOwnership
  CounterExact
PROPERTIES
  ImplementsTaskGraph
CHECK_DEADLOCK FALSE
