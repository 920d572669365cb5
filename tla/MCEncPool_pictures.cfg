CONSTANTS
  ctu = ctu
  mctf = mctf
  None = None
  Threads = {w1, w2}
  NumTasks = 5
  Counter = {ctu, mctf}
  CounterOf <- PictureCounters
  Deps <- PictureDeps
  Polls <- PicturePolls
  Follows <- PictureFollows
  Program <- PictureProgram
  MayClose = TRUE
  ChunkSize = 3
SPECIFICATION FairSpec
INVARIANTS
  CountersOutlive
PROPERTIES
  ImplementsTaskGraph
  ProgramEnds
CHECK_DEADLOCK FALSE
