\* A serial queue or a pool of three workers; one call to malloc may fail.  Then
\* an exit block may be lost and the dealloc waits for ever: the system may stop.
CONSTANTS
  Clients = {c1, c2}
  Blocks = {b1, b2, b3}
  PoolThreads = 3
  MaxFailures = 1
  Exit = Exit
  None = None
SPECIFICATION FairSpec
INVARIANTS TypeOK NoLostWakeup NoUseAfterFree DrainedBeforeFree SerialOrder
PROPERTIES ExecutorSpec AcceptedRuns DeallocEnds
CHECK_DEADLOCK FALSE
