------------------------------ MODULE FifoQueue ------------------------------
(***************************************************************************)
(* What utils/queue.h promises: a FIFO queue that any number of threads    *)
(* may use at once.  A call takes effect atomically somewhere between its  *)
(* invocation and its return (linearizability), with two allowances the    *)
(* code makes: QueueEnqueue gives up silently when malloc fails, and       *)
(* QueueDrain returns NULL when the queue was empty at some moment of the  *)
(* call.  Queue.tla is the detailed specification of this promise.         *)
(***************************************************************************)
EXTENDS Sequences

CONSTANTS Producers,   \* threads that call QueueEnqueue
          Consumers,   \* threads that call QueueDrain; may overlap Producers
          Elements     \* the pointers that are enqueued, never NULL

VARIABLES contents,    \* the elements in the queue, oldest first
          call,        \* what each thread is doing
          sawEmpty     \* was the queue empty at a moment of this drain?

vars == <<contents, call, sawEmpty>>

Threads == Producers \cup Consumers

Idle         == [op |-> "idle"]
Enqueuing(e) == [op |-> "enqueuing", element |-> e]
Enqueued     == [op |-> "enqueued"]
Draining     == [op |-> "draining"]
Drained(e)   == [op |-> "drained", element |-> e]

Init == /\ contents = <<>>
        /\ call = [t \in Threads |-> Idle]
        /\ sawEmpty = [t \in Threads |-> FALSE]

Become(t, c) == call' = [call EXCEPT ![t] = c]

CallEnqueue(t, e) == /\ t \in Producers
                     /\ call[t] = Idle
                     /\ Become(t, Enqueuing(e))
                     /\ UNCHANGED <<contents, sawEmpty>>

\* The call takes effect: the element joins the end of the queue.
DoEnqueue(t) == /\ call[t].op = "enqueuing"
                /\ contents' = Append(contents, call[t].element)
                /\ Become(t, Enqueued)
                /\ UNCHANGED sawEmpty

ReturnEnqueue(t) == /\ call[t] = Enqueued
                    /\ Become(t, Idle)
                    /\ UNCHANGED <<contents, sawEmpty>>

\* malloc failed: the element is dropped and the caller is not told.
DropEnqueue(t) == /\ call[t].op = "enqueuing"
                  /\ Become(t, Idle)
                  /\ UNCHANGED <<contents, sawEmpty>>

CallDrain(t) == /\ t \in Consumers
                /\ call[t] = Idle
                /\ Become(t, Draining)
                /\ sawEmpty' = [sawEmpty EXCEPT ![t] = contents = <<>>]
                /\ UNCHANGED contents

DoDrain(t) ==
  /\ call[t] = Draining
  /\ contents # <<>>
  /\ contents' = Tail(contents)
  /\ Become(t, Drained(Head(contents)))
  /\ sawEmpty' = [u \in Threads |-> /\ u # t
                                    /\ \/ sawEmpty[u]
                                       \/ call[u] = Draining /\ contents' = <<>>]

ReturnDrained(t) == /\ call[t].op = "drained"
                    /\ Become(t, Idle)
                    /\ UNCHANGED <<contents, sawEmpty>>

ReturnEmpty(t) == /\ call[t] = Draining
                  /\ sawEmpty[t]
                  /\ Become(t, Idle)
                  /\ sawEmpty' = [sawEmpty EXCEPT ![t] = FALSE]
                  /\ UNCHANGED contents

Next == \E t \in Threads :
          \/ \E e \in Elements : CallEnqueue(t, e)
          \/ DoEnqueue(t)
          \/ ReturnEnqueue(t)
          \/ DropEnqueue(t)
          \/ CallDrain(t)
          \/ DoDrain(t)
          \/ ReturnDrained(t)
          \/ ReturnEmpty(t)

Spec == Init /\ [][Next]_vars
==============================================================================
