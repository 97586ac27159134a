CONSTANTS
  PipeFd = pipe
  PipeBlock = pipeBlock
  NoBlock = noBlock
  PipeSize = 1
  ReadSize = 1
  Connections = {c1}
  Sockets = {s1}
  ListenFd = listen
  Listener = listener
  Workers = 1
  SendBuffer = 1
  None = None
  Headers = 1
  StringSize = 2
  FileSize = 2
SPECIFICATION AnswerSpec
INVARIANTS AnswerInOrder ResponseHeld
PROPERTIES SocketsComeBack ServerSpec
