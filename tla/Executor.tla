------------------------------- MODULE Executor -------------------------------
(***************************************************************************)
(* What utils/dispatchqueue.h promises.  Blocks are accepted in an order,  *)
(* started in that order and each finishes once; a serial executor runs    *)
(* one at a time, so it also finishes them in that order.  The executor    *)
(* may be closed only when nothing it accepted is left to run.             *)
(* DispatchQueue.tla is the detailed specification of this promise.        *)
(***************************************************************************)
EXTENDS Naturals, Sequences, FiniteSets

CONSTANTS Blocks,      \* the blocks that may be dispatched, each once
          Capacities   \* how many blocks may run at once, by kind of executor

VARIABLES capacity,    \* how many blocks may run at once: 1 if serial
          pending,     \* accepted and not started, oldest first
          running,     \* started and not finished
          finished,    \* in the order they finished
          open         \* has the executor not been freed yet?

vars == <<capacity, pending, running, finished, open>>

Known == {pending[i] : i \in DOMAIN pending} \cup running
           \cup {finished[i] : i \in DOMAIN finished}

Init == /\ capacity \in Capacities
        /\ pending = <<>>
        /\ running = {}
        /\ finished = <<>>
        /\ open = TRUE

Accept(b) == /\ open
             /\ b \notin Known
             /\ pending' = Append(pending, b)
             /\ UNCHANGED <<capacity, running, finished, open>>

Start == /\ pending # <<>>
         /\ Cardinality(running) < capacity
         /\ pending' = Tail(pending)
         /\ running' = running \cup {Head(pending)}
         /\ UNCHANGED <<capacity, finished, open>>

Finish(b) == /\ b \in running
             /\ running' = running \ {b}
             /\ finished' = Append(finished, b)
             /\ UNCHANGED <<capacity, pending, open>>

Close == /\ pending = <<>>
         /\ running = {}
         /\ open' = FALSE
         /\ UNCHANGED <<capacity, pending, running, finished>>

Next == \/ \E b \in Blocks : Accept(b) \/ Finish(b)
        \/ Start
        \/ Close

Spec == Init /\ [][Next]_vars
==============================================================================
