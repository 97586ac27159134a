CONSTANTS
  PipePd = pipePd
  PipeFd = pipe
  PipeSize = 1
  ReadSize = 1
  MaxTyped = 3
  MaxEarly = 2
  MaxTold = 2
  ServerRoom = 2
  ClientRoom = 1
SPECIFICATION FairSpec
INVARIANTS LinesInOrder WatchedWhileBuffered
PROPERTIES DiesForAReason LinesArrive QuitEnds
CHECK_DEADLOCK FALSE
