CONSTANTS
  PipePd = pipePd
  PipeFd = pipe
  PipeSize = 1
  ReadSize = 1
  Clients = {c1}
  Sockets = {s1}
  ListenPd = listenPd
  ListenFd = listen
  Names = {1, 2}
  MaxPieces = 2
  None = None
SPECIFICATION FairSpec
PROPERTY BufferedLinesAreHandled
