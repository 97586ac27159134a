\* Two producers and two consumers in three threads; no node is handed out twice.
CONSTANTS
  Producers = {main, poll}
  Consumers = {poll, worker}
  Elements = {a, b}
  Nodes = {1, 2, 3}
  Reuse = FALSE
  NULL = NULL
  Junk = Junk
SPECIFICATION Spec
INVARIANT NeverAborts
PROPERTY FifoSpec
