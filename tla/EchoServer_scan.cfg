CONSTANTS
  Clients = {1, 2, 3}
  Sockets = {3, 4, 5}
  ListenFd = listen
  kMaxClients = 2
  MaxPieces = 2
  LineEnds = {2}
  LargeText = 2
  None = None
SPECIFICATION FairSpec
INVARIANTS TableExact StopsForAReason EchoInOrder
PROPERTIES EverybodyIsServed
CHECK_DEADLOCK FALSE
