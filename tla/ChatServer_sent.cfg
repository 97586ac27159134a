\* Two clients that enter, are told of each other and leave; they send no lines.
CONSTANTS
  PipePd = pipePd
  PipeFd = pipe
  PipeSize = 1
  ReadSize = 1
  Clients = {c1, c2}
  Sockets = {s1, s2}
  ListenPd = listenPd
  ListenFd = listen
  Names = {1, 2}
  MaxPieces = 0
  None = None
SPECIFICATION FairSpec
PROPERTY BufferedIsSent
