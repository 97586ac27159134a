\* The queue of a dispatch queue: one producer, two worker threads
CONSTANTS
  Producers = {p1}
  Consumers = {c1, c2}
  Elements = {a}
  Nodes = {1, 2, 3}
  Reuse = TRUE
  NULL = NULL
  Junk = Junk
SPECIFICATION Spec
INVARIANTS NeverDequeuedTwice
CHECK_DEADLOCK FALSE
