---------------------------- MODULE DispatchQueue ----------------------------
(***************************************************************************)
(* utils/dispatchqueue.c: a pool of worker threads that drain one queue of *)
(* blocks, woken by a semaphore, from DispatchQueueCreate to the end of    *)
(* _DisptachQueueDealloc.  The queue is the one FifoQueue specifies, its   *)
(* operations atomic.                                                      *)
(*                                                                         *)
(* maxThreads is what DispatchQueueCreate makes of the flags: one thread  *)
(* for a serial queue, PoolThreads otherwise.                              *)
(*                                                                         *)
(* Clients are the threads that may hold a reference.  The first to hold   *)
(* one is the creator; a holder may dispatch blocks, retain the queue for  *)
(* another client, and release it.  The release of the last reference      *)
(* runs _DisptachQueueDealloc in the releasing thread.  Blocks do not hold *)
(* references to the queue they run on.                                    *)
(***************************************************************************)
EXTENDS Naturals, Sequences, FiniteSets, Functions

CONSTANTS Clients,            \* threads outside the pool
          Blocks,             \* blocks a client may dispatch, each once
          PoolThreads,        \* threads of a queue that is not serial: 10 in the code
          MaxFailures,        \* bound: how many calls to malloc fail
          Exit, None          \* the exit block; no block

ASSUME DispatchQueueAssumption ==
  /\ IsFiniteSet(Clients) /\ Clients # {}
  /\ PoolThreads \in Nat \ {0}
  /\ MaxFailures \in Nat
  /\ Exit # None
  /\ {Exit, None} \cap Blocks = {}

VARIABLES
  maxThreads,     \* queue->maxThreads: 1 if the queue is serial
  queue,          \* queue->queue: blocks, oldest first
  semaphore,      \* queue->semaphore
  numOfThreads,   \* queue->numOfThreads
  worker,         \* what each worker does
  block,          \* the local variable of each worker
  client,         \* is the client between QueueEnqueue and sem_post?
  holders,        \* the clients that hold a reference
  phase,          \* "creating", "held", or how far the dealloc got
  exits,          \* loop counter of _DisptachQueueDealloc
  failures,       \* how often malloc failed
  accepted,       \* history: the blocks enqueued, in order
  finished        \* history: the blocks that ran, in order

vars == <<maxThreads, queue, semaphore, numOfThreads, worker, block, client, holders, phase,
          exits, failures, accepted, finished>>

Workers == 1..maxThreads

TypeOK ==
  /\ maxThreads \in {1, PoolThreads}
  /\ queue \in Seq(Blocks \cup {Exit})
  /\ semaphore \in Nat
  /\ numOfThreads \in 0..maxThreads
  /\ worker \in [Workers -> {"absent", "waiting", "draining", "running", "exited"}]
  /\ block \in [Workers -> Blocks \cup {Exit, None}]
  /\ client \in [Clients -> {"idle", "posting"}]
  /\ holders \in SUBSET Clients
  /\ phase \in {"creating", "held", "stopping", "posting", "joining", "freed"}
  /\ exits \in 0..maxThreads
  /\ failures \in 0..MaxFailures
  /\ accepted \in Seq(Blocks)
  /\ finished \in Seq(Blocks)

Init ==
  /\ maxThreads \in {1, PoolThreads}
  /\ queue = <<>>
  /\ semaphore = 0
  /\ numOfThreads = 0
  /\ worker = [w \in Workers |-> "absent"]
  /\ block = [w \in Workers |-> None]
  /\ client = [c \in Clients |-> "idle"]
  /\ holders = {}
  /\ phase = "creating"
  /\ exits = 0
  /\ failures = 0
  /\ accepted = <<>>
  /\ finished = <<>>

Move(w, state) == worker' = [worker EXCEPT ![w] = state]
MallocFails    == /\ failures < MaxFailures
                  /\ failures' = failures + 1

history == <<accepted, finished>>

------------------------------------------------------------------------------
(* DispatchQueueCreate. *)

StartThread ==
  /\ phase = "creating" /\ numOfThreads < maxThreads
  /\ Move(numOfThreads + 1, "waiting")
  /\ numOfThreads' = numOfThreads + 1
  /\ UNCHANGED <<maxThreads, queue, semaphore, block, client, holders, phase, exits, failures,
                 history>>

\* pthread_create failed: the threads already started are stopped again.
StartThreadFails ==
  /\ phase = "creating" /\ numOfThreads < maxThreads
  /\ phase' = "stopping"
  /\ UNCHANGED <<maxThreads, queue, semaphore, numOfThreads, worker, block, client, holders, exits,
                 failures, history>>

Created(c) ==
  /\ phase = "creating" /\ numOfThreads = maxThreads
  /\ phase' = "held"
  /\ holders' = {c}
  /\ UNCHANGED <<maxThreads, queue, semaphore, numOfThreads, worker, block, client, exits, failures,
                 history>>

------------------------------------------------------------------------------
(* What the holders of a reference do: Retain, Release and Dispatch. *)

RetainFor(c, other) ==
  /\ c \in holders /\ client[c] = "idle"
  /\ other \notin holders
  /\ holders' = holders \cup {other}
  /\ UNCHANGED <<maxThreads, queue, semaphore, numOfThreads, worker, block, client, phase, exits,
                 failures, history>>

ReleaseBy(c) ==
  /\ c \in holders /\ client[c] = "idle"
  /\ holders' = holders \ {c}
  /\ phase' = IF holders = {c} THEN "stopping" ELSE "held"
  /\ UNCHANGED <<maxThreads, queue, semaphore, numOfThreads, worker, block, client, exits, failures,
                 history>>

\* Mutant of DispatchEnqueue: the newest block goes first.
DispatchPush(c, b) ==
  /\ c \in holders /\ client[c] = "idle"
  /\ b \notin Range(accepted)
  /\ client' = [client EXCEPT ![c] = "posting"]
  /\ queue' = <<b>> \o queue
  /\ accepted' = Append(accepted, b)
  /\ UNCHANGED <<maxThreads, semaphore, numOfThreads, worker, block, holders, phase, exits,
                 failures, finished>>

\* QueueEnqueue(queue->queue, Block_copy(block))
DispatchEnqueue(c, b) ==
  /\ c \in holders /\ client[c] = "idle"
  /\ b \notin Range(accepted)
  /\ client' = [client EXCEPT ![c] = "posting"]
  /\ \/ /\ queue' = Append(queue, b)
        /\ accepted' = Append(accepted, b)
        /\ UNCHANGED failures
     \/ /\ MallocFails
        /\ UNCHANGED <<queue, accepted>>
  /\ UNCHANGED <<maxThreads, semaphore, numOfThreads, worker, block, holders, phase, exits,
                 finished>>

\* Mutant of DispatchPost: sem_post is forgotten.
DispatchNoPost(c) ==
  /\ client[c] = "posting"
  /\ client' = [client EXCEPT ![c] = "idle"]
  /\ UNCHANGED <<maxThreads, queue, semaphore, numOfThreads, worker, block, holders, phase, exits,
                 failures, history>>

DispatchPost(c) ==
  /\ client[c] = "posting"
  /\ client' = [client EXCEPT ![c] = "idle"]
  /\ semaphore' = semaphore + 1
  /\ UNCHANGED <<maxThreads, queue, numOfThreads, worker, block, holders, phase, exits, failures,
                 history>>

------------------------------------------------------------------------------
(* _DispatchQueueDrainAndRelease, over and over in each worker. *)

Wait(w) ==
  /\ worker[w] = "waiting"
  /\ semaphore > 0
  /\ semaphore' = semaphore - 1
  /\ Move(w, "draining")
  /\ UNCHANGED <<maxThreads, queue, numOfThreads, block, client, holders, phase, exits, failures,
                 history>>

Drain(w) ==
  /\ worker[w] = "draining"
  /\ queue # <<>>
  /\ block' = [block EXCEPT ![w] = Head(queue)]
  /\ queue' = Tail(queue)
  /\ Move(w, "running")
  /\ UNCHANGED <<maxThreads, semaphore, numOfThreads, client, holders, phase, exits, failures,
                 history>>

\* QueueDrain returned NULL; there is no block to run.
DrainNothing(w) ==
  /\ worker[w] = "draining"
  /\ queue = <<>>
  /\ Move(w, "waiting")
  /\ UNCHANGED <<maxThreads, queue, semaphore, numOfThreads, block, client, holders, phase, exits,
                 failures, history>>

RunBlock(w) ==
  /\ worker[w] = "running" /\ block[w] \in Blocks
  /\ finished' = Append(finished, block[w])
  /\ block' = [block EXCEPT ![w] = None]
  /\ Move(w, "waiting")
  /\ UNCHANGED <<maxThreads, queue, semaphore, numOfThreads, client, holders, phase, exits,
                 failures, accepted>>

\* Mutant of RunExit: the exit block returns to the worker's loop.
RunExitReturns(w) ==
  /\ worker[w] = "running" /\ block[w] = Exit
  /\ Move(w, "waiting")
  /\ block' = [block EXCEPT ![w] = None]
  /\ UNCHANGED <<maxThreads, queue, semaphore, numOfThreads, client, holders, phase, exits,
                 failures, history>>

\* pthread_exit does not return to the worker's loop.
RunExit(w) ==
  /\ worker[w] = "running" /\ block[w] = Exit
  /\ Move(w, "exited")
  /\ UNCHANGED <<maxThreads, queue, semaphore, numOfThreads, block, client, holders, phase, exits,
                 failures, history>>

------------------------------------------------------------------------------
(* _DisptachQueueDealloc. *)

\* Mutant of DeallocEnqueue: one exit block too many, i <= numOfThreads.
DeallocEnqueueTooMany ==
  /\ phase = "stopping" /\ exits <= numOfThreads
  /\ phase' = "posting"
  /\ queue' = Append(queue, Exit)
  /\ UNCHANGED <<maxThreads, semaphore, numOfThreads, worker, block, client, holders, exits,
                 failures, history>>

\* Mutant of DeallocEnqueue: the exit blocks overtake what is queued.
DeallocEnqueueFirst ==
  /\ phase = "stopping" /\ exits < numOfThreads
  /\ phase' = "posting"
  /\ queue' = <<Exit>> \o queue
  /\ UNCHANGED <<maxThreads, semaphore, numOfThreads, worker, block, client, holders, exits,
                 failures, history>>

DeallocEnqueue ==
  /\ phase = "stopping" /\ exits < numOfThreads
  /\ phase' = "posting"
  /\ \/ /\ queue' = Append(queue, Exit)
        /\ UNCHANGED failures
     \/ /\ MallocFails
        /\ UNCHANGED queue
  /\ UNCHANGED <<maxThreads, semaphore, numOfThreads, worker, block, client, holders, exits,
                 history>>

DeallocPost ==
  /\ phase = "posting"
  /\ semaphore' = semaphore + 1
  /\ exits' = exits + 1
  /\ phase' = "stopping"
  /\ UNCHANGED <<maxThreads, queue, numOfThreads, worker, block, client, holders, failures,
                 history>>

\* Mutant of DeallocAllEnqueued: the second loop goes on where the first one ended.
DeallocJoinsNone ==
  /\ phase = "stopping" /\ exits = numOfThreads
  /\ phase' = "joining"
  /\ UNCHANGED <<maxThreads, queue, semaphore, numOfThreads, worker, block, client, holders, exits,
                 failures, history>>

DeallocAllEnqueued ==
  /\ phase = "stopping" /\ exits = numOfThreads
  /\ exits' = 0
  /\ phase' = "joining"
  /\ UNCHANGED <<maxThreads, queue, semaphore, numOfThreads, worker, block, client, holders,
                 failures, history>>

DeallocJoin ==
  /\ phase = "joining" /\ exits < numOfThreads
  /\ worker[exits + 1] = "exited"
  /\ exits' = exits + 1
  /\ UNCHANGED <<maxThreads, queue, semaphore, numOfThreads, worker, block, client, holders, phase,
                 failures, history>>

DeallocFree ==
  /\ phase = "joining" /\ exits = numOfThreads
  /\ phase' = "freed"
  /\ UNCHANGED <<maxThreads, queue, semaphore, numOfThreads, worker, block, client, holders, exits,
                 failures, history>>

------------------------------------------------------------------------------

Create         == \/ StartThread
                  \/ StartThreadFails
                  \/ \E c \in Clients : Created(c)
Client(c)      == \/ \E other \in Clients : RetainFor(c, other)
                  \/ ReleaseBy(c)
                  \/ \E b \in Blocks : DispatchEnqueue(c, b)
                  \/ DispatchPost(c)
Worker(w)      == Wait(w) \/ Drain(w) \/ DrainNothing(w) \/ RunBlock(w) \/ RunExit(w)
Dealloc        == \/ DeallocEnqueue \/ DeallocPost \/ DeallocAllEnqueued
                  \/ DeallocJoin \/ DeallocFree

\* Nothing is left to do once the queue is freed.
Freed == phase = "freed" /\ UNCHANGED vars

Next == \/ Create
        \/ \E c \in Clients : Client(c)
        \/ \E w \in Workers : Worker(w)
        \/ Dealloc
        \/ Freed

Spec == Init /\ [][Next]_vars

\* The scheduler runs every thread; a client need not dispatch or release.
FairSpec == /\ Spec
            /\ WF_vars(Dealloc)
            /\ \A c \in Clients : WF_vars(DispatchPost(c))
            /\ \A w \in 1..PoolThreads : WF_vars(w \in Workers /\ Worker(w))

------------------------------------------------------------------------------
(* Properties. *)

Posting  == {c \in Clients : client[c] = "posting"}
Draining == {w \in Workers : worker[w] = "draining"}

\* Every block in the queue has a wake-up that somebody is about to post, that is
\* in the semaphore, or that a worker took and has yet to use: the post that follows
\* each enqueue is never lost, even when malloc failed for other blocks.
NoLostWakeup ==
  Len(queue) <= semaphore + Cardinality(Posting) + Cardinality(Draining)
                  + (IF phase = "posting" THEN 1 ELSE 0)

\* "Now we join all the threads to let them finish before we remove any data": once
\* the queue is freed no worker and no dispatching client will touch it.
NoUseAfterFree ==
  phase = "freed" => /\ \A w \in 1..numOfThreads : worker[w] = "exited"
                     /\ Posting = {}

\* Every block Dispatch accepted has run when the queue is freed: exit blocks do not
\* overtake it, and the thread it runs on is waited for.
DrainedBeforeFree ==
  phase = "freed" => Range(accepted) = Range(finished)

\* kDispatchQueueSerial "ensures the correct order of execution".
SerialOrder ==
  maxThreads = 1 => /\ Len(finished) <= Len(accepted)
                    /\ \A i \in DOMAIN finished : finished[i] = accepted[i]

\* The facts that make DrainedBeforeFree and NoUseAfterFree inductive.

\* Before the last release nothing was stopped, and only holders dispatch.
InvPhase ==
  /\ holders # {} => phase = "held"
  /\ phase = "held" => numOfThreads = maxThreads
  /\ Posting \subseteq holders
  /\ phase \in {"posting", "joining", "freed"} => exits <= numOfThreads
  /\ phase = "posting" => exits < numOfThreads

\* A worker exists once it was created, and holds a block while it runs one.
InvWorker ==
  \A w \in Workers :
    /\ worker[w] = "absent" <=> w > numOfThreads
    /\ worker[w] \in {"absent", "waiting", "draining"} => block[w] = None
    /\ worker[w] = "running" => block[w] # None
    /\ worker[w] = "exited" => block[w] = Exit

\* No exit block exists before the last release, none has a block behind it in the
\* queue, and when one was drained only exit blocks are left.
InvExit ==
  /\ phase \in {"creating", "held"} => /\ \A i \in DOMAIN queue : queue[i] # Exit
                                      /\ \A w \in Workers : block[w] # Exit
  /\ \A i, j \in DOMAIN queue : i < j /\ queue[i] = Exit => queue[j] = Exit
  /\ (\E w \in Workers : block[w] = Exit) => \A i \in DOMAIN queue : queue[i] = Exit

\* The threads joined so far have exited.
InvJoin ==
  /\ phase \in {"joining", "freed"} => \A w \in 1..exits : worker[w] = "exited"
  /\ phase = "freed" => exits = numOfThreads

\* A block that was accepted is queued, running, or has run; without a complete pool
\* nothing was accepted.
InvAccepted ==
  /\ Range(accepted) = ((Range(queue) \cup Range(block)) \ {Exit, None}) \cup Range(finished)
  /\ phase = "creating" \/ numOfThreads < maxThreads => accepted = <<>>

\* How many blocks the only worker of a serial queue has started.
Started == Len(finished) + (IF block[1] \in Blocks THEN 1 ELSE 0)

\* A serial queue: what finished, what runs and what is queued, in this order, is
\* what was accepted, and nothing but the exit block is queued beyond that.
InvSerial ==
  maxThreads = 1 =>
    /\ Started <= Len(accepted)
    /\ \A i \in DOMAIN finished : finished[i] = accepted[i]
    /\ block[1] \in Blocks => accepted[Started] = block[1]
    /\ \A i \in DOMAIN queue : queue[i] # Exit => /\ Started + i <= Len(accepted)
                                                /\ accepted[Started + i] = queue[i]
    /\ phase \in {"creating", "held"} => Len(accepted) = Started + Len(queue)

\* A block is queued once or held by one worker, never both.
InvDistinct ==
  /\ \A i, j \in DOMAIN queue : queue[i] # Exit /\ queue[i] = queue[j] => i = j
  /\ \A v, w \in Workers : block[v] \in Blocks /\ block[v] = block[w] => v = w
  /\ \A i \in DOMAIN queue, w \in Workers : queue[i] = block[w] => queue[i] = Exit

\* The inductive invariant.
Inv == InvPhase /\ InvWorker /\ InvExit /\ InvJoin /\ InvAccepted /\ InvSerial /\ InvDistinct

\* DispatchQueue implements Executor.  The blocks that a worker drained are running;
\* exit blocks, which come last in the queue (InvExit), are invisible.
Running       == {block[w] : w \in Workers} \ {Exit, None}
BlocksIn(seq) == [i \in {j \in DOMAIN seq : seq[j] # Exit} |-> seq[i]]

Abstract == INSTANCE Executor WITH
              Capacities <- {1, PoolThreads},
              capacity <- maxThreads,
              pending  <- BlocksIn(queue),
              running  <- Running,
              open     <- phase # "freed"

ExecutorSpec == Abstract!Spec

\* Every accepted block runs, whether or not the queue is released meanwhile.
AcceptedRuns ==
  \A b \in Blocks : b \in Range(accepted) ~> b \in Range(finished)

\* A queue whose last reference is released is freed: every worker gets an exit block,
\* unless malloc failed and the dealloc joins a thread that waits for ever.
DeallocEnds == phase = "stopping" ~> phase = "freed" \/ failures > 0
==============================================================================
