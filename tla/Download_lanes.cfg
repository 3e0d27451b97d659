CONSTANTS
  MaxSize = 13
  MaxConnections = 3
  MinParallel = 1
  ChunkSize = 2
  Hole = Hole
SPECIFICATION FairSpec
INVARIANTS
  TypeOK
  DownloadedIsWhole
  ProgressIsExact
  RestartsAlone
PROPERTY
  ParallelEnds
CHECK_DEADLOCK FALSE
