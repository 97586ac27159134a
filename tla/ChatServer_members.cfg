CONSTANTS
  PipePd = pipePd
  PipeFd = pipe
  PipeSize = 1
  ReadSize = 1
  Clients = {c1, c2}
  Sockets = {s1, s2}
  ListenPd = listenPd
  ListenFd = listen
  Names = {1, 2}
  MaxPieces = 1
  None = None
SPECIFICATION Spec
INVARIANTS DictionaryExact SocketIsOwn UpdatesFindEntry WatchedWhileBuffered
