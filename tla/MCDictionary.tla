----------------------------- MODULE MCDictionary -----------------------------
(* Dictionary for TLC: no action tells the threads apart. *)
EXTENDS Dictionary, TLC

ThreadSymmetry == Permutations(Threads)

================================================================================
