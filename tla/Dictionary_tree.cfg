CONSTANTS
  Keys = {1,2,3,4,5,6,7}
  Values = {alice, bob}
  Usual = alice
  MaxUnusual = 1
  MaxIterators = 2
  Threads = {poll, other}
  Nil = Nil
SPECIFICATION Spec
INVARIANTS GetAgrees CountsExact IterationIsComplete IteratorEntriesLive
SYMMETRY ThreadSymmetry
