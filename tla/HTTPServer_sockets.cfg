CONSTANTS
  PipeFd = pipe
  PipeBlock = pipeBlock
  NoBlock = noBlock
  PipeSize = 2
  ReadSize = 1
  Connections = {c1, c2}
  Sockets = {s1}
  ListenFd = listen
  Listener = listener
  Workers = 2
  SendBuffer = 1
  None = None
SPECIFICATION Spec
INVARIANTS RetainCountExact SocketIsOwn OneAtATime NoStaleEntry NoLostWakeup
