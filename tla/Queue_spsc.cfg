\* One producer, one consumer, memory recycled for ever
CONSTANTS
  Producers = {p1}
  Consumers = {c1}
  Elements = {a, b}
  Nodes = {1, 2, 3}
  Reuse = TRUE
  NULL = NULL
  Junk = Junk
SPECIFICATION FairSpec
INVARIANTS NoDanglingAccess
PROPERTIES FifoSpec CallsReturn
