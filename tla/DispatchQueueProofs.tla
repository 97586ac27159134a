-------------------------- MODULE DispatchQueueProofs --------------------------
(***************************************************************************)
(* Proofs about DispatchQueue, for any number of clients, blocks, threads  *)
(* and failures: its invariants, and that it implements Executor.          *)
(***************************************************************************)
EXTENDS DispatchQueue, Integers, SequenceTheorems, FiniteSetTheorems, WellFoundedInduction, TLAPS

------------------------------------------------------------------------------
(* Smallest members, and the members of sequences. *)

\* A set of natural numbers that has a member has a smallest one.
LEMMA LeastMember ==
  ASSUME NEW S, S \subseteq Nat, S # {}
  PROVE  \E m \in S : \A k \in S : m <= k
<1>1. \A x, y \in Nat : x < y => <<x, y>> \in OpToRel(<, Nat)
  BY DEF OpToRel
<1>2. \E R : IsWellFoundedOn(R, Nat) /\ \A x, y \in Nat : x < y => <<x, y>> \in R
  BY <1>1, NatLessThanWellFounded, Zenon
<1>3. PICK R : IsWellFoundedOn(R, Nat) /\ \A x, y \in Nat : x < y => <<x, y>> \in R
  BY <1>2
<1>4. PICK m \in S : \A k \in S : ~ (<<k, m>> \in R)
  BY <1>3, WFMin, ZenonT(30)
<1>5. \A k \in S : ~ (k < m)
  BY <1>3, <1>4, Zenon
<1> QED
  BY <1>5

\* The members of a sequence after an append.
LEMMA RangeAppend ==
  ASSUME NEW S, NEW seq \in Seq(S), NEW e \in S
  PROVE  Range(Append(seq, e)) = Range(seq) \cup {e}
<1>1. /\ Append(seq, e) \in Seq(S)
      /\ Len(Append(seq, e)) = Len(seq) + 1
      /\ \A i \in 1..Len(seq) : Append(seq, e)[i] = seq[i]
      /\ Append(seq, e)[Len(seq) + 1] = e
  BY AppendProperties
<1>2. DOMAIN seq = 1..Len(seq) /\ Len(seq) \in Nat
  BY LenProperties
<1>3. DOMAIN Append(seq, e) = 1..(Len(seq) + 1)
  BY <1>1, LenProperties
<1> QED
  BY <1>1, <1>2, <1>3 DEF Range

\* The members of a sequence are its head and the members of its tail.
LEMMA RangeTail ==
  ASSUME NEW S, NEW seq \in Seq(S), seq # <<>>
  PROVE  Range(seq) = {seq[1]} \cup Range(Tail(seq))
<1>1. /\ Tail(seq) \in Seq(S)
      /\ Len(Tail(seq)) = Len(seq) - 1
      /\ \A i \in 1..Len(Tail(seq)) : Tail(seq)[i] = seq[i + 1]
  BY HeadTailProperties
<1>2. DOMAIN seq = 1..Len(seq) /\ Len(seq) \in Nat \ {0}
  BY LenProperties, EmptySeq
<1>3. DOMAIN Tail(seq) = 1..(Len(seq) - 1)
  BY <1>1, LenProperties
<1>4. \A i \in DOMAIN seq : i = 1 \/ (i - 1 \in DOMAIN Tail(seq) /\ seq[i] = Tail(seq)[i - 1])
  BY <1>1, <1>2, <1>3
<1>5. \A i \in DOMAIN Tail(seq) : i + 1 \in DOMAIN seq /\ seq[i + 1] = Tail(seq)[i]
  BY <1>1, <1>2, <1>3
<1>6. ASSUME NEW x \in Range(seq) PROVE x \in {seq[1]} \cup Range(Tail(seq))
  <2>1. PICK i \in DOMAIN seq : x = seq[i]
    BY <1>6 DEF Range
  <2>2. x = seq[1] \/ (i - 1 \in DOMAIN Tail(seq) /\ x = Tail(seq)[i - 1])
    BY <1>4, <2>1
  <2> QED
    BY <2>2 DEF Range
<1>7. ASSUME NEW x \in {seq[1]} \cup Range(Tail(seq)) PROVE x \in Range(seq)
  <2>1. seq[1] \in Range(seq)
    BY <1>2 DEF Range
  <2>2. \A y \in Range(Tail(seq)) : y \in Range(seq)
    BY <1>5 DEF Range
  <2> QED
    BY <2>1, <2>2
<1> QED
  BY <1>6, <1>7

------------------------------------------------------------------------------
(* The assumption on the constants. *)

USE DispatchQueueAssumption DEF DispatchQueueAssumption, Workers, history

------------------------------------------------------------------------------
(* Type correctness. *)

\* How many threads a queue has is decided when it is created.
LEMMA ThreadsFixed == [Next]_vars => UNCHANGED maxThreads
<1> SUFFICES ASSUME [Next]_vars PROVE UNCHANGED maxThreads
  OBVIOUS
<1>1. CASE Create
  BY <1>1 DEF Create, StartThread, StartThreadFails, Created
<1>2. ASSUME NEW c \in Clients, Client(c) PROVE UNCHANGED maxThreads
  BY <1>2 DEF Client, DispatchEnqueue, DispatchPost, RetainFor, ReleaseBy
<1>3. ASSUME NEW w \in Workers, Worker(w) PROVE UNCHANGED maxThreads
  BY <1>3 DEF Worker, Wait, Drain, DrainNothing, RunBlock, RunExit
<1>4. CASE Dealloc
  BY <1>4 DEF Dealloc, DeallocEnqueue, DeallocPost, DeallocAllEnqueued, DeallocJoin, DeallocFree
<1>5. CASE UNCHANGED vars
  BY <1>5 DEF vars
<1> QED
  BY <1>1, <1>2, <1>3, <1>4, <1>5 DEF Next, Freed

\* The number of failed calls stays within its bound.
LEMMA FailuresBounded ==
  ASSUME TypeOK, MallocFails \/ UNCHANGED failures
  PROVE  failures' \in 0..MaxFailures
<1>1. CASE MallocFails
  BY <1>1 DEF TypeOK, MallocFails
<1>2. CASE UNCHANGED failures
  BY <1>2 DEF TypeOK
<1> QED
  BY <1>1, <1>2

\* Every step of the dispatch queue, in any of its threads, keeps the types.
LEMMA TypeStep == TypeOK /\ InvPhase /\ [Next]_vars => TypeOK'
<1> SUFFICES ASSUME TypeOK, InvPhase, [Next]_vars PROVE TypeOK'
  OBVIOUS
<1> USE DEF TypeOK, Move
<1>1. CASE Create
  BY <1>1 DEF Create, StartThread, StartThreadFails, Created
<1>2. ASSUME NEW c \in Clients, Client(c) PROVE TypeOK'
  <2>1. ASSUME NEW b \in Blocks, DispatchEnqueue(c, b) PROVE TypeOK'
    <3>1. /\ Append(queue, b) \in Seq(Blocks \cup {Exit})
          /\ Append(accepted, b) \in Seq(Blocks)
      BY AppendProperties
    <3>2. failures' \in 0..MaxFailures
      BY <2>1, FailuresBounded DEF DispatchEnqueue
    <3>3. queue' \in Seq(Blocks \cup {Exit}) /\ accepted' \in Seq(Blocks)
      BY <2>1, <3>1 DEF DispatchEnqueue
    <3>4. /\ client' = [client EXCEPT ![c] = "posting"]
          /\ UNCHANGED <<maxThreads, semaphore, numOfThreads, worker, block, holders, phase,
                         exits, finished>>
      BY <2>1 DEF DispatchEnqueue
    <3> QED
      BY <3>2, <3>3, <3>4
  <2>2. CASE DispatchPost(c)
    BY <2>2 DEF DispatchPost
  <2>3. CASE ReleaseBy(c)
    BY <2>3 DEF ReleaseBy
  <2>4. ASSUME NEW other \in Clients, RetainFor(c, other) PROVE TypeOK'
    BY <2>4 DEF RetainFor
  <2> QED
    BY <1>2, <2>1, <2>2, <2>3, <2>4 DEF Client
<1>3. ASSUME NEW w \in Workers, Worker(w) PROVE TypeOK'
  <2>1. CASE Wait(w)
    BY <2>1 DEF Wait
  <2>2. CASE Drain(w)
    <3>1. /\ Head(queue) \in Blocks \cup {Exit}
          /\ Tail(queue) \in Seq(Blocks \cup {Exit})
      BY <2>2, HeadTailProperties DEF Drain
    <3> QED
      BY <2>2, <3>1 DEF Drain
  <2>3. CASE DrainNothing(w)
    BY <2>3 DEF DrainNothing
  <2>4. CASE RunBlock(w)
    BY <2>4, AppendProperties DEF RunBlock
  <2>5. CASE RunExit(w)
    BY <2>5 DEF RunExit
  <2> QED
    BY <1>3, <2>1, <2>2, <2>3, <2>4, <2>5 DEF Worker
<1>4. CASE Dealloc
  <2>1. CASE DeallocEnqueue
    <3>1. Append(queue, Exit) \in Seq(Blocks \cup {Exit})
      BY AppendProperties
    <3>2. failures' \in 0..MaxFailures
      BY <2>1, FailuresBounded DEF DeallocEnqueue
    <3>3. queue' \in Seq(Blocks \cup {Exit})
      BY <2>1, <3>1 DEF DeallocEnqueue
    <3>4. /\ phase' = "posting"
          /\ UNCHANGED <<maxThreads, semaphore, numOfThreads, worker, block, client, holders,
                         exits, history>>
      BY <2>1 DEF DeallocEnqueue
    <3> QED
      BY <3>2, <3>3, <3>4
  <2>2. CASE DeallocPost
    BY <2>2 DEF DeallocPost, InvPhase
  <2>3. CASE DeallocAllEnqueued
    BY <2>3 DEF DeallocAllEnqueued
  <2>4. CASE DeallocJoin
    BY <2>4 DEF DeallocJoin
  <2>5. CASE DeallocFree
    BY <2>5 DEF DeallocFree
  <2> QED
    BY <1>4, <2>1, <2>2, <2>3, <2>4, <2>5 DEF Dealloc
<1>5. CASE UNCHANGED vars
  BY <1>5 DEF vars
<1> QED
  BY <1>1, <1>2, <1>3, <1>4, <1>5 DEF Next, Freed

\* The phases of the dealloc and who may dispatch.
LEMMA PhaseStep == TypeOK /\ InvPhase /\ [Next]_vars => InvPhase'
<1> SUFFICES ASSUME TypeOK, InvPhase, [Next]_vars PROVE InvPhase'
  OBVIOUS
<1> USE DEF TypeOK, InvPhase, Posting
<1>1. CASE Create
  BY <1>1 DEF Create, StartThread, StartThreadFails, Created
<1>2. ASSUME NEW c \in Clients, Client(c) PROVE InvPhase'
  BY <1>2 DEF Client, DispatchEnqueue, DispatchPost, RetainFor, ReleaseBy
<1>3. ASSUME NEW w \in Workers, Worker(w) PROVE InvPhase'
  BY <1>3 DEF Worker, Wait, Drain, DrainNothing, RunBlock, RunExit
<1>4. CASE Dealloc
  BY <1>4 DEF Dealloc, DeallocEnqueue, DeallocPost, DeallocAllEnqueued, DeallocJoin, DeallocFree
<1>5. CASE UNCHANGED vars
  BY <1>5 DEF vars
<1> QED
  BY <1>1, <1>2, <1>3, <1>4, <1>5 DEF Next, Freed

\* The state of the queue, its threads and its clients is always well formed.
THEOREM TypeCorrect == Spec => []TypeOK
<1>1. Init => TypeOK /\ InvPhase
  BY EmptySeq DEF Init, TypeOK, InvPhase, Posting
<1> QED
  BY <1>1, TypeStep, PhaseStep, PTL DEF Spec

------------------------------------------------------------------------------
(* What an enqueue and a drain do to the positions of the queue. *)

\* An enqueue adds one position at the end and leaves the others alone.
LEMMA EnqueueShape ==
  ASSUME TypeOK, NEW e \in Blocks \cup {Exit}, queue' = Append(queue, e)
  PROVE  /\ Len(queue) \in Nat
         /\ DOMAIN queue = 1..Len(queue)
         /\ DOMAIN queue' = 1..(Len(queue) + 1)
         /\ \A i \in DOMAIN queue : queue'[i] = queue[i]
         /\ queue'[Len(queue) + 1] = e
<1>1. queue' \in Seq(Blocks \cup {Exit}) /\ Len(queue') = Len(queue) + 1
  BY AppendProperties DEF TypeOK
<1> QED
  BY <1>1, AppendProperties, LenProperties DEF TypeOK

\* A drain moves every position one forward.
LEMMA DrainShape ==
  ASSUME TypeOK, queue # <<>>, queue' = Tail(queue)
  PROVE  /\ Len(queue) \in Nat \ {0}
         /\ DOMAIN queue = 1..Len(queue)
         /\ DOMAIN queue' = 1..(Len(queue) - 1)
         /\ \A i \in DOMAIN queue' : queue'[i] = queue[i + 1]
         /\ Head(queue) = queue[1]
<1>1. /\ queue' \in Seq(Blocks \cup {Exit})
      /\ Len(queue') = Len(queue) - 1
      /\ \A i \in 1..Len(queue') : queue'[i] = queue[i + 1]
  BY HeadTailProperties DEF TypeOK
<1>2. Len(queue) \in Nat \ {0} /\ DOMAIN queue = 1..Len(queue)
  BY EmptySeq, LenProperties DEF TypeOK
<1>3. DOMAIN queue' = 1..Len(queue')
  BY <1>1, LenProperties
<1> QED
  BY <1>1, <1>2, <1>3 DEF TypeOK

------------------------------------------------------------------------------
(* The conjuncts of the inductive invariant. *)

\* Workers come into being in order and hold a block exactly while they run one.
LEMMA WorkerStep == TypeOK /\ InvWorker /\ [Next]_vars => InvWorker'
<1> SUFFICES ASSUME TypeOK, InvWorker, [Next]_vars PROVE InvWorker'
  OBVIOUS
<1> USE DEF TypeOK, InvWorker, Move
<1>1. CASE Create
  BY <1>1 DEF Create, StartThread, StartThreadFails, Created
<1>2. ASSUME NEW c \in Clients, Client(c) PROVE InvWorker'
  BY <1>2 DEF Client, DispatchEnqueue, DispatchPost, RetainFor, ReleaseBy
<1>3. ASSUME NEW w \in Workers, Worker(w) PROVE InvWorker'
  <2>1. CASE Wait(w)
    BY <2>1 DEF Wait
  <2>2. CASE Drain(w)
    <3>1. Head(queue) \in Blocks \cup {Exit}
      BY <2>2, HeadTailProperties DEF Drain
    <3> QED
      BY <2>2, <3>1 DEF Drain
  <2>3. CASE DrainNothing(w)
    BY <2>3 DEF DrainNothing
  <2>4. CASE RunBlock(w)
    BY <2>4 DEF RunBlock
  <2>5. CASE RunExit(w)
    BY <2>5 DEF RunExit
  <2> QED
    BY <1>3, <2>1, <2>2, <2>3, <2>4, <2>5 DEF Worker
<1>4. CASE Dealloc
  BY <1>4 DEF Dealloc, DeallocEnqueue, DeallocPost, DeallocAllEnqueued, DeallocJoin, DeallocFree
<1>5. CASE UNCHANGED vars
  BY <1>5 DEF vars
<1> QED
  BY <1>1, <1>2, <1>3, <1>4, <1>5 DEF Next, Freed

\* A step that changes neither the queue nor a block and stays before or after the
\* last release keeps InvExit.
LEMMA ExitFrame ==
  ASSUME InvExit, UNCHANGED <<maxThreads, queue, block>>,
         phase' \in {"creating", "held"} => phase \in {"creating", "held"}
  PROVE  InvExit'
  BY DEF InvExit

\* Exit blocks come last and are drained last.
LEMMA ExitStep == TypeOK /\ InvPhase /\ InvWorker /\ InvExit /\ [Next]_vars => InvExit'
<1> SUFFICES ASSUME TypeOK, InvPhase, InvWorker, InvExit, [Next]_vars PROVE InvExit'
  OBVIOUS
<1>1. CASE Create
  BY <1>1, ExitFrame DEF Create, StartThread, StartThreadFails, Created
<1>2. ASSUME NEW c \in Clients, Client(c) PROVE InvExit'
  <2>1. ASSUME NEW b \in Blocks, DispatchEnqueue(c, b) PROVE InvExit'
    <3>1. CASE queue' = Append(queue, b)
      <4>1. phase = "held" /\ UNCHANGED <<maxThreads, phase, block>>
        BY <2>1 DEF DispatchEnqueue, InvPhase
      <4> QED
        BY <3>1, <4>1, EnqueueShape DEF InvExit
    <3>2. CASE UNCHANGED queue
      BY <2>1, <3>2, ExitFrame DEF DispatchEnqueue
    <3> QED
      BY <2>1, <3>1, <3>2 DEF DispatchEnqueue
  <2>2. CASE DispatchPost(c)
    BY <2>2, ExitFrame DEF DispatchPost
  <2>3. CASE ReleaseBy(c)
    BY <2>3, ExitFrame DEF ReleaseBy, InvPhase
  <2>4. ASSUME NEW other \in Clients, RetainFor(c, other) PROVE InvExit'
    BY <2>4, ExitFrame DEF RetainFor
  <2> QED
    BY <1>2, <2>1, <2>2, <2>3, <2>4 DEF Client
<1>3. ASSUME NEW w \in Workers, Worker(w) PROVE InvExit'
  <2>1. CASE Wait(w)
    BY <2>1, ExitFrame DEF Wait
  <2>2. CASE Drain(w)
    <3>1. /\ queue # <<>> /\ queue' = Tail(queue)
          /\ block' = [block EXCEPT ![w] = queue[1]]
          /\ UNCHANGED <<maxThreads, phase>>
      BY <2>2, DrainShape DEF Drain
    <3>2. \A v \in Workers : block'[v] = IF v = w THEN queue[1] ELSE block[v]
      BY <3>1 DEF TypeOK
    <3> QED
      BY <3>1, <3>2, DrainShape DEF InvExit
  <2>3. CASE DrainNothing(w)
    BY <2>3, ExitFrame DEF DrainNothing
  <2>4. CASE RunBlock(w)
    <3>1. \A v \in Workers : block'[v] = Exit => block[v] = Exit
      BY <2>4 DEF RunBlock, TypeOK
    <3> QED
      BY <2>4, <3>1 DEF RunBlock, InvExit
  <2>5. CASE RunExit(w)
    BY <2>5, ExitFrame DEF RunExit
  <2> QED
    BY <1>3, <2>1, <2>2, <2>3, <2>4, <2>5 DEF Worker
<1>4. CASE Dealloc
  <2>1. CASE DeallocEnqueue
    <3>1. phase' = "posting" /\ UNCHANGED <<maxThreads, block>>
      BY <2>1 DEF DeallocEnqueue
    <3>2. CASE queue' = Append(queue, Exit)
      BY <3>1, <3>2, EnqueueShape DEF InvExit
    <3>3. CASE UNCHANGED queue
      BY <3>1, <3>3, ExitFrame
    <3> QED
      BY <2>1, <3>2, <3>3 DEF DeallocEnqueue
  <2>2. CASE DeallocPost
    BY <2>2, ExitFrame DEF DeallocPost
  <2>3. CASE DeallocAllEnqueued
    BY <2>3, ExitFrame DEF DeallocAllEnqueued
  <2>4. CASE DeallocJoin
    BY <2>4, ExitFrame DEF DeallocJoin
  <2>5. CASE DeallocFree
    BY <2>5, ExitFrame DEF DeallocFree
  <2> QED
    BY <1>4, <2>1, <2>2, <2>3, <2>4, <2>5 DEF Dealloc
<1>5. CASE UNCHANGED vars
  BY <1>5, ExitFrame DEF vars
<1> QED
  BY <1>1, <1>2, <1>3, <1>4, <1>5 DEF Next, Freed

\* The dealloc joins a thread only after it has exited, and an exited thread stays so.
LEMMA JoinStep == TypeOK /\ InvPhase /\ InvWorker /\ InvJoin /\ [Next]_vars => InvJoin'
<1> SUFFICES ASSUME TypeOK, InvPhase, InvWorker, InvJoin, [Next]_vars PROVE InvJoin'
  OBVIOUS
<1> USE DEF TypeOK, InvPhase, InvJoin, Move
<1>1. CASE Create
  BY <1>1 DEF Create, StartThread, StartThreadFails, Created
<1>2. ASSUME NEW c \in Clients, Client(c) PROVE InvJoin'
  BY <1>2 DEF Client, DispatchEnqueue, DispatchPost, RetainFor, ReleaseBy
<1>3. ASSUME NEW w \in Workers, Worker(w) PROVE InvJoin'
  <2>1. worker[w] # "exited" /\ \A v \in Workers \ {w} : worker'[v] = worker[v]
    BY <1>3 DEF Worker, Wait, Drain, DrainNothing, RunBlock, RunExit
  <2>2. UNCHANGED <<maxThreads, phase, exits, numOfThreads>>
    BY <1>3 DEF Worker, Wait, Drain, DrainNothing, RunBlock, RunExit
  <2> QED
    BY <2>1, <2>2
<1>4. CASE Dealloc
  BY <1>4 DEF Dealloc, DeallocEnqueue, DeallocPost, DeallocAllEnqueued, DeallocJoin, DeallocFree
<1>5. CASE UNCHANGED vars
  BY <1>5 DEF vars
<1> QED
  BY <1>1, <1>2, <1>3, <1>4, <1>5 DEF Next, Freed

------------------------------------------------------------------------------
(* What was accepted. *)

\* A step that changes neither queue, block nor history keeps InvAccepted, unless it
\* opens the queue.
LEMMA AcceptedFrame ==
  ASSUME InvAccepted, UNCHANGED <<maxThreads, queue, block, history>>,
         phase' = "creating" \/ numOfThreads' < maxThreads
           => phase = "creating" \/ numOfThreads < maxThreads
  PROVE  InvAccepted'
  BY DEF InvAccepted

\* A block that was accepted stays queued until it runs and then has run.
LEMMA AcceptedStep ==
  TypeOK /\ InvPhase /\ InvWorker /\ InvAccepted /\ [Next]_vars => InvAccepted'
<1> SUFFICES ASSUME TypeOK, InvPhase, InvWorker, InvAccepted, [Next]_vars PROVE InvAccepted'
  OBVIOUS
<1>1. CASE Create
  BY <1>1, AcceptedFrame DEF Create, StartThread, StartThreadFails, Created
<1>2. ASSUME NEW c \in Clients, Client(c) PROVE InvAccepted'
  <2>1. ASSUME NEW b \in Blocks, DispatchEnqueue(c, b) PROVE InvAccepted'
    <3>1. CASE queue' = Append(queue, b) /\ accepted' = Append(accepted, b)
      <4>1. /\ Range(queue') = Range(queue) \cup {b}
            /\ Range(accepted') = Range(accepted) \cup {b}
        <5>1. queue \in Seq(Blocks \cup {Exit}) /\ accepted \in Seq(Blocks)
          BY DEF TypeOK
        <5>2. Range(Append(queue, b)) = Range(queue) \cup {b}
          BY <5>1, RangeAppend
        <5>3. Range(Append(accepted, b)) = Range(accepted) \cup {b}
          BY <5>1, RangeAppend
        <5> QED
          BY <3>1, <5>2, <5>3
      <4>2. UNCHANGED <<block, finished>>
        BY <2>1 DEF DispatchEnqueue
      <4>3. phase = "held"
        BY <2>1 DEF DispatchEnqueue, InvPhase
      <4>4. ~(phase' = "creating" \/ numOfThreads' < maxThreads')
        BY <2>1, <4>3 DEF DispatchEnqueue, TypeOK, InvPhase
      <4> QED
        BY <4>1, <4>2, <4>3, <4>4 DEF InvAccepted
    <3>2. CASE UNCHANGED <<queue, accepted>>
      BY <2>1, <3>2, AcceptedFrame DEF DispatchEnqueue
    <3> QED
      BY <2>1, <3>1, <3>2 DEF DispatchEnqueue
  <2>2. CASE DispatchPost(c)
    BY <2>2, AcceptedFrame DEF DispatchPost
  <2>3. CASE ReleaseBy(c)
    BY <2>3, AcceptedFrame DEF ReleaseBy
  <2>4. ASSUME NEW other \in Clients, RetainFor(c, other) PROVE InvAccepted'
    BY <2>4, AcceptedFrame DEF RetainFor
  <2> QED
    BY <1>2, <2>1, <2>2, <2>3, <2>4 DEF Client
<1>3. ASSUME NEW w \in Workers, Worker(w) PROVE InvAccepted'
  <2>1. CASE Wait(w)
    BY <2>1, AcceptedFrame DEF Wait
  <2>2. CASE Drain(w)
    <3>1. Range(queue) = {queue[1]} \cup Range(queue')
      BY <2>2, RangeTail DEF Drain, TypeOK
    <3>2. block' = [block EXCEPT ![w] = queue[1]] /\ block[w] = None
      BY <2>2, DrainShape DEF Drain, InvWorker
    <3>3. Range(block') \cup {None} = Range(block) \cup {queue[1], None}
      BY <3>2 DEF Range, TypeOK
    <3>4. UNCHANGED <<maxThreads, accepted, finished, phase, numOfThreads>>
      BY <2>2 DEF Drain
    <3> QED
      BY <3>1, <3>3, <3>4 DEF InvAccepted
  <2>3. CASE DrainNothing(w)
    BY <2>3, AcceptedFrame DEF DrainNothing
  <2>4. CASE RunBlock(w)
    <3>1. Range(finished') = Range(finished) \cup {block[w]}
      BY <2>4, RangeAppend DEF RunBlock, TypeOK
    <3>2. Range(block) \cup {None} = Range(block') \cup {block[w], None}
      BY <2>4 DEF RunBlock, Range, TypeOK
    <3>3. UNCHANGED <<maxThreads, queue, accepted, phase, numOfThreads>> /\ block[w] \notin {Exit, None}
      BY <2>4 DEF RunBlock
    <3> QED
      BY <3>1, <3>2, <3>3 DEF InvAccepted
  <2>5. CASE RunExit(w)
    BY <2>5, AcceptedFrame DEF RunExit
  <2> QED
    BY <1>3, <2>1, <2>2, <2>3, <2>4, <2>5 DEF Worker
<1>4. CASE Dealloc
  <2>1. CASE DeallocEnqueue
    <3>1. Range(queue') \ {Exit} = Range(queue) \ {Exit}
      <4>1. Range(Append(queue, Exit)) = Range(queue) \cup {Exit}
        BY RangeAppend DEF TypeOK
      <4> QED
        BY <2>1, <4>1 DEF DeallocEnqueue
    <3> QED
      BY <2>1, <3>1 DEF DeallocEnqueue, InvAccepted
  <2>2. CASE DeallocPost
    BY <2>2, AcceptedFrame DEF DeallocPost
  <2>3. CASE DeallocAllEnqueued
    BY <2>3, AcceptedFrame DEF DeallocAllEnqueued
  <2>4. CASE DeallocJoin
    BY <2>4, AcceptedFrame DEF DeallocJoin
  <2>5. CASE DeallocFree
    BY <2>5, AcceptedFrame DEF DeallocFree
  <2> QED
    BY <1>4, <2>1, <2>2, <2>3, <2>4, <2>5 DEF Dealloc
<1>5. CASE UNCHANGED vars
  BY <1>5, AcceptedFrame DEF vars
<1> QED
  BY <1>1, <1>2, <1>3, <1>4, <1>5 DEF Next, Freed

------------------------------------------------------------------------------
(* The order of a serial queue. *)

\* A step that changes neither queue, block nor history keeps InvSerial, unless it
\* opens the queue.
LEMMA SerialFrame ==
  ASSUME InvSerial, UNCHANGED <<maxThreads, queue, block, history>>,
         phase' \in {"creating", "held"} => phase \in {"creating", "held"}
  PROVE  InvSerial'
  BY DEF InvSerial, Started

\* The one worker of a serial queue takes the blocks in the order they were accepted.
LEMMA SerialStep ==
  TypeOK /\ InvPhase /\ InvWorker /\ InvExit /\ InvSerial /\ [Next]_vars => InvSerial'
<1> SUFFICES ASSUME TypeOK, InvPhase, InvWorker, InvExit, InvSerial, [Next]_vars
             PROVE  InvSerial'
  OBVIOUS
<1>0. /\ Len(accepted) \in Nat /\ Len(finished) \in Nat /\ Len(queue) \in Nat
      /\ DOMAIN finished = 1..Len(finished) /\ DOMAIN queue = 1..Len(queue)
      /\ UNCHANGED maxThreads
  BY LenProperties, ThreadsFixed DEF TypeOK
<1>1. CASE Create
  BY <1>1, SerialFrame DEF Create, StartThread, StartThreadFails, Created
<1>2. ASSUME NEW c \in Clients, Client(c) PROVE InvSerial'
  <2>1. ASSUME NEW b \in Blocks, DispatchEnqueue(c, b) PROVE InvSerial'
    <3>1. CASE queue' = Append(queue, b) /\ accepted' = Append(accepted, b)
      <4>1. /\ Len(accepted') = Len(accepted) + 1
            /\ \A i \in 1..Len(accepted) : accepted'[i] = accepted[i]
            /\ accepted'[Len(accepted) + 1] = b
        BY <3>1, AppendProperties DEF TypeOK
      <4>2. /\ DOMAIN queue' = 1..(Len(queue) + 1)
            /\ \A i \in DOMAIN queue : queue'[i] = queue[i]
            /\ queue'[Len(queue) + 1] = b
        BY <3>1, EnqueueShape
      <4>3. Len(queue') = Len(queue) + 1
        BY <3>1, AppendProperties DEF TypeOK
      <4>4. phase = "held" /\ UNCHANGED <<block, finished, phase>>
        BY <2>1 DEF DispatchEnqueue, InvPhase
      <4>5. Started' = Started /\ Started \in Nat /\ (block[1] \in Blocks => Started > 0)
        BY <1>0, <4>4 DEF Started
      <4>6. SUFFICES ASSUME maxThreads = 1 PROVE InvSerial'
        BY <1>0 DEF InvSerial
      <4>7. /\ Started <= Len(accepted)
            /\ \A i \in DOMAIN finished : i \in 1..Len(accepted)
        BY <1>0, <4>5, <4>6 DEF InvSerial, Started
      <4>8. Len(accepted) = Started + Len(queue)
        BY <4>4, <4>6 DEF InvSerial
      <4>9. ASSUME NEW i \in DOMAIN queue', queue'[i] # Exit
            PROVE  Started' + i <= Len(accepted') /\ accepted'[Started' + i] = queue'[i]
        <5>1. CASE i \in DOMAIN queue
          <6>1. Started + i <= Len(accepted) /\ accepted[Started + i] = queue[i]
            BY <4>2, <4>6, <4>9, <5>1 DEF InvSerial
          <6> QED
            BY <1>0, <4>1, <4>2, <4>5, <5>1, <6>1
        <5>2. CASE i = Len(queue) + 1
          BY <1>0, <4>1, <4>2, <4>5, <4>8, <5>2
        <5> QED
          BY <1>0, <4>2, <5>1, <5>2
      <4>10. /\ Started' <= Len(accepted')
             /\ \A i \in DOMAIN finished' : finished'[i] = accepted'[i]
             /\ block'[1] \in Blocks => accepted'[Started'] = block'[1]
        BY <1>0, <4>1, <4>4, <4>5, <4>6, <4>7 DEF InvSerial
      <4>11. Len(accepted') = Started' + Len(queue')
        BY <1>0, <4>1, <4>3, <4>5, <4>8
      <4> QED
        BY <4>9, <4>10, <4>11 DEF InvSerial
    <3>2. CASE UNCHANGED <<queue, accepted>>
      BY <2>1, <3>2, SerialFrame DEF DispatchEnqueue
    <3> QED
      BY <2>1, <3>1, <3>2 DEF DispatchEnqueue
  <2>2. CASE DispatchPost(c)
    BY <2>2, SerialFrame DEF DispatchPost
  <2>3. CASE ReleaseBy(c)
    BY <2>3, SerialFrame DEF ReleaseBy, InvPhase
  <2>4. ASSUME NEW other \in Clients, RetainFor(c, other) PROVE InvSerial'
    BY <2>4, SerialFrame DEF RetainFor
  <2> QED
    BY <1>2, <2>1, <2>2, <2>3, <2>4 DEF Client
<1>3. ASSUME NEW w \in Workers, Worker(w) PROVE InvSerial'
  <2>1. CASE Wait(w)
    BY <2>1, SerialFrame DEF Wait
  <2>2. CASE Drain(w)
    <3>1. SUFFICES ASSUME maxThreads = 1 PROVE InvSerial'
      BY <1>0 DEF InvSerial
    <3>2. w = 1
      BY <3>1
    <3>3. /\ block' = [block EXCEPT ![1] = queue[1]]
          /\ block[1] = None /\ None \notin Blocks
          /\ UNCHANGED <<accepted, finished, phase>>
      BY <2>2, <3>2, DrainShape DEF Drain, InvWorker
    <3>4. block'[1] = queue[1] /\ queue[1] \in Blocks \cup {Exit}
      BY <2>2, <3>1, <3>3, DrainShape DEF Drain, TypeOK
    <3>5. /\ Len(queue) > 0
          /\ Len(queue') = Len(queue) - 1
          /\ DOMAIN queue' = 1..(Len(queue) - 1)
          /\ \A i \in DOMAIN queue' : queue'[i] = queue[i + 1]
      BY <1>0, <2>2, DrainShape, HeadTailProperties DEF Drain, TypeOK
    <3>6. CASE queue[1] = Exit
      <4>1. \A i \in DOMAIN queue : queue[i] = Exit
        BY <1>0, <3>6 DEF InvExit
      <4>2. \A i \in DOMAIN queue' : queue'[i] = Exit
        BY <1>0, <3>5, <4>1
      <4>3. Started' = Started
        BY <3>3, <3>4, <3>6 DEF Started
      <4>4. phase \notin {"creating", "held"}
        BY <1>0, <3>5, <3>6 DEF InvExit
      <4> QED
        BY <3>1, <3>3, <3>4, <3>6, <4>2, <4>3, <4>4 DEF InvSerial
    <3>7. CASE queue[1] \in Blocks
      <4>1. Started' = Started + 1 /\ Started = Len(finished)
        BY <1>0, <3>3, <3>4, <3>7 DEF Started
      <4>2. Started + 1 <= Len(accepted) /\ accepted[Started + 1] = queue[1]
        BY <1>0, <3>1, <3>5, <3>7 DEF InvSerial
      <4>3. \A i \in DOMAIN queue' : i + 1 \in DOMAIN queue /\ Started' + i = Started + (i + 1)
        BY <1>0, <3>5, <4>1
      <4>4. ASSUME NEW i \in DOMAIN queue', queue'[i] # Exit
            PROVE  Started' + i <= Len(accepted') /\ accepted'[Started' + i] = queue'[i]
        <5>1. /\ Started + (i + 1) <= Len(accepted)
              /\ accepted[Started + (i + 1)] = queue[i + 1]
          BY <3>1, <3>5, <4>3, <4>4 DEF InvSerial
        <5> QED
          BY <3>3, <3>5, <4>3, <5>1
      <4>5. /\ Started' <= Len(accepted')
            /\ \A i \in DOMAIN finished' : finished'[i] = accepted'[i]
            /\ accepted'[Started'] = block'[1]
        BY <3>1, <3>3, <3>4, <4>1, <4>2 DEF InvSerial
      <4>6. phase' \in {"creating", "held"} => Len(accepted') = Started' + Len(queue')
        <5>1. SUFFICES ASSUME phase \in {"creating", "held"}
                       PROVE  Len(accepted') = Started' + Len(queue')
          BY <3>3
        <5>2. Len(accepted) = Started + Len(queue)
          BY <3>1, <5>1 DEF InvSerial
        <5> QED
          BY <1>0, <3>3, <3>5, <4>1, <5>2
      <4> QED
        BY <4>4, <4>5, <4>6 DEF InvSerial
    <3> QED
      BY <3>4, <3>6, <3>7
  <2>3. CASE DrainNothing(w)
    BY <2>3, SerialFrame DEF DrainNothing
  <2>4. CASE RunBlock(w)
    <3>1. SUFFICES ASSUME maxThreads = 1 PROVE InvSerial'
      BY <1>0 DEF InvSerial
    <3>2. /\ block[1] \in Blocks /\ block'[1] = None
          /\ finished' = Append(finished, block[1])
          /\ UNCHANGED <<queue, accepted, phase>>
      BY <2>4, <3>1 DEF RunBlock, TypeOK
    <3>3. /\ Len(finished') = Len(finished) + 1
          /\ DOMAIN finished' = 1..(Len(finished) + 1)
          /\ \A i \in DOMAIN finished : finished'[i] = finished[i]
          /\ finished'[Len(finished) + 1] = block[1]
      <4>1. finished' \in Seq(Blocks) /\ Len(finished') = Len(finished) + 1
        BY <3>2, AppendProperties DEF TypeOK
      <4> QED
        BY <1>0, <3>2, <4>1, AppendProperties, LenProperties DEF TypeOK
    <3>4. Started' = Started /\ Started = Len(finished) + 1
      BY <1>0, <3>2, <3>3 DEF Started
    <3> QED
      BY <1>0, <3>1, <3>2, <3>3, <3>4 DEF InvSerial
  <2>5. CASE RunExit(w)
    BY <2>5, SerialFrame DEF RunExit
  <2> QED
    BY <1>3, <2>1, <2>2, <2>3, <2>4, <2>5 DEF Worker
<1>4. CASE Dealloc
  <2>1. CASE DeallocEnqueue
    <3>1. phase' = "posting" /\ UNCHANGED <<block, accepted, finished>>
      BY <2>1 DEF DeallocEnqueue
    <3>2. CASE queue' = Append(queue, Exit)
      <4>1. /\ DOMAIN queue' = 1..(Len(queue) + 1)
            /\ \A i \in DOMAIN queue : queue'[i] = queue[i]
            /\ queue'[Len(queue) + 1] = Exit
        BY <3>2, EnqueueShape
      <4>2. Started' = Started
        BY <3>1 DEF Started
      <4>3. \A i \in DOMAIN queue' : queue'[i] # Exit => i \in DOMAIN queue /\ queue'[i] = queue[i]
        BY <1>0, <4>1
      <4>4. SUFFICES ASSUME maxThreads = 1 PROVE InvSerial'
        BY <1>0 DEF InvSerial
      <4>5. \A i \in DOMAIN queue' : queue'[i] # Exit => /\ Started' + i <= Len(accepted')
                                                     /\ accepted'[Started' + i] = queue'[i]
        BY <3>1, <4>2, <4>3, <4>4 DEF InvSerial
      <4> QED
        BY <3>1, <4>2, <4>4, <4>5 DEF InvSerial
    <3>3. CASE UNCHANGED queue
      BY <1>0, <3>1, <3>3, SerialFrame
    <3> QED
      BY <2>1, <3>2, <3>3 DEF DeallocEnqueue
  <2>2. CASE DeallocPost
    BY <2>2, SerialFrame DEF DeallocPost
  <2>3. CASE DeallocAllEnqueued
    BY <2>3, SerialFrame DEF DeallocAllEnqueued
  <2>4. CASE DeallocJoin
    BY <2>4, SerialFrame DEF DeallocJoin
  <2>5. CASE DeallocFree
    BY <2>5, SerialFrame DEF DeallocFree
  <2> QED
    BY <1>4, <2>1, <2>2, <2>3, <2>4, <2>5 DEF Dealloc
<1>5. CASE UNCHANGED vars
  BY <1>5, SerialFrame DEF vars
<1> QED
  BY <1>1, <1>2, <1>3, <1>4, <1>5 DEF Next, Freed

------------------------------------------------------------------------------
(* A block is in one place. *)

\* A step that changes neither the queue nor a block keeps InvDistinct.
LEMMA DistinctFrame ==
  ASSUME InvDistinct, UNCHANGED <<maxThreads, queue, block>>
  PROVE  InvDistinct'
  BY DEF InvDistinct

\* A block is dispatched once and drained by one worker.
LEMMA DistinctStep ==
  TypeOK /\ InvWorker /\ InvAccepted /\ InvDistinct /\ [Next]_vars => InvDistinct'
<1> SUFFICES ASSUME TypeOK, InvWorker, InvAccepted, InvDistinct, [Next]_vars
             PROVE  InvDistinct'
  OBVIOUS
<1>1. CASE Create
  BY <1>1, DistinctFrame DEF Create, StartThread, StartThreadFails, Created
<1>2. ASSUME NEW c \in Clients, Client(c) PROVE InvDistinct'
  <2>1. ASSUME NEW b \in Blocks, DispatchEnqueue(c, b) PROVE InvDistinct'
    <3>1. CASE queue' = Append(queue, b)
      <4>1. b \notin Range(accepted) /\ UNCHANGED <<maxThreads, block>>
        BY <2>1 DEF DispatchEnqueue
      <4>2. b \notin Range(queue) /\ b \notin Range(block)
        BY <4>1 DEF InvAccepted
      <4>3. \A i \in DOMAIN queue : queue[i] # b
        BY <4>2 DEF Range
      <4>4. \A w \in Workers : block[w] # b
        BY <4>2 DEF Range, TypeOK
      <4> QED
        BY <3>1, <4>1, <4>3, <4>4, EnqueueShape DEF InvDistinct
    <3>2. CASE UNCHANGED queue
      BY <2>1, <3>2, DistinctFrame DEF DispatchEnqueue
    <3> QED
      BY <2>1, <3>1, <3>2 DEF DispatchEnqueue
  <2>2. CASE DispatchPost(c)
    BY <2>2, DistinctFrame DEF DispatchPost
  <2>3. CASE ReleaseBy(c)
    BY <2>3, DistinctFrame DEF ReleaseBy
  <2>4. ASSUME NEW other \in Clients, RetainFor(c, other) PROVE InvDistinct'
    BY <2>4, DistinctFrame DEF RetainFor
  <2> QED
    BY <1>2, <2>1, <2>2, <2>3, <2>4 DEF Client
<1>3. ASSUME NEW w \in Workers, Worker(w) PROVE InvDistinct'
  <2>1. CASE Wait(w)
    BY <2>1, DistinctFrame DEF Wait
  <2>2. CASE Drain(w)
    <3>1. /\ queue # <<>> /\ queue' = Tail(queue)
          /\ block' = [block EXCEPT ![w] = queue[1]]
          /\ UNCHANGED maxThreads
      BY <2>2, DrainShape DEF Drain
    <3>2. \A v \in Workers : block'[v] = IF v = w THEN queue[1] ELSE block[v]
      BY <3>1 DEF TypeOK
    <3>3. /\ 1 \in DOMAIN queue
          /\ \A i \in DOMAIN queue' : /\ i + 1 \in DOMAIN queue /\ i + 1 # 1
                                      /\ queue'[i] = queue[i + 1]
          /\ \A i, j \in DOMAIN queue' : i + 1 = j + 1 => i = j
      BY <3>1, DrainShape
    <3>4. \A i, j \in DOMAIN queue' : queue'[i] # Exit /\ queue'[i] = queue'[j] => i = j
      BY <3>3 DEF InvDistinct
    <3>5. \A u, v \in Workers : block'[u] \in Blocks /\ block'[u] = block'[v] => u = v
      BY <3>2, <3>3 DEF InvDistinct
    <3>6. \A i \in DOMAIN queue', v \in Workers : queue'[i] = block'[v] => queue'[i] = Exit
      BY <3>2, <3>3 DEF InvDistinct
    <3> QED
      BY <3>1, <3>4, <3>5, <3>6 DEF InvDistinct
  <2>3. CASE DrainNothing(w)
    BY <2>3, DistinctFrame DEF DrainNothing
  <2>4. CASE RunBlock(w)
    <3>1. \A v \in Workers : block'[v] = IF v = w THEN None ELSE block[v]
      BY <2>4 DEF RunBlock, TypeOK
    <3>2. \A i \in DOMAIN queue : queue[i] \in Blocks \cup {Exit}
      BY LenProperties, ElementOfSeq DEF TypeOK
    <3> QED
      BY <2>4, <3>1, <3>2 DEF RunBlock, InvDistinct
  <2>5. CASE RunExit(w)
    BY <2>5, DistinctFrame DEF RunExit
  <2> QED
    BY <1>3, <2>1, <2>2, <2>3, <2>4, <2>5 DEF Worker
<1>4. CASE Dealloc
  <2>1. CASE DeallocEnqueue
    <3>1. UNCHANGED <<maxThreads, block>>
      BY <2>1 DEF DeallocEnqueue
    <3>2. CASE queue' = Append(queue, Exit)
      BY <3>1, <3>2, EnqueueShape DEF InvDistinct
    <3>3. CASE UNCHANGED queue
      BY <3>1, <3>3, DistinctFrame
    <3> QED
      BY <2>1, <3>2, <3>3 DEF DeallocEnqueue
  <2>2. CASE DeallocPost \/ DeallocAllEnqueued \/ DeallocJoin \/ DeallocFree
    BY <2>2, DistinctFrame DEF DeallocPost, DeallocAllEnqueued, DeallocJoin, DeallocFree
  <2> QED
    BY <1>4, <2>1, <2>2 DEF Dealloc
<1>5. CASE UNCHANGED vars
  BY <1>5, DistinctFrame DEF vars
<1> QED
  BY <1>1, <1>2, <1>3, <1>4, <1>5 DEF Next, Freed

------------------------------------------------------------------------------
(* The theorems. *)

\* The inductive invariant holds in every reachable state.
THEOREM Invariance == Spec => [](TypeOK /\ Inv)
<1>1. Init => TypeOK /\ Inv
  <2>1. ASSUME Init PROVE TypeOK
    BY <2>1, EmptySeq DEF Init, TypeOK
  <2>2. ASSUME Init PROVE InvPhase /\ InvWorker /\ InvExit /\ InvJoin
    BY <2>2 DEF Init, InvPhase, InvWorker, InvExit, InvJoin, Posting
  <2>3. ASSUME Init PROVE InvAccepted
    <3>1. Range(block) \subseteq {None} /\ Range(queue) = {} /\ Range(accepted) = {}
          /\ Range(finished) = {}
      BY <2>3 DEF Init, Range
    <3> QED
      BY <2>3, <3>1 DEF Init, InvAccepted
  <2>4. ASSUME Init PROVE InvSerial
    BY <2>4, EmptySeq DEF Init, InvSerial, Started
  <2>5. ASSUME Init PROVE InvDistinct
    BY <2>5, EmptySeq DEF Init, InvDistinct
  <2> QED
    BY <2>1, <2>2, <2>3, <2>4, <2>5 DEF Inv
<1>2. TypeOK /\ Inv /\ [Next]_vars => (TypeOK /\ Inv)'
  BY TypeStep, PhaseStep, WorkerStep, ExitStep, JoinStep, AcceptedStep, SerialStep,
     DistinctStep DEF Inv
<1> QED
  BY <1>1, <1>2, PTL DEF Spec

\* The join loop of the dealloc is enough: when the memory is freed, every thread the
\* queue ever started has exited and no client is about to post.
THEOREM FreeIsSafe == Spec => []NoUseAfterFree
<1>1. TypeOK /\ Inv => NoUseAfterFree
  BY DEF Inv, InvPhase, InvJoin, NoUseAfterFree
<1> QED
  BY <1>1, Invariance, PTL

\* Whatever was accepted has run when the memory is freed, whichever calls to malloc
\* and pthread_create failed.
THEOREM FreeIsComplete == Spec => []DrainedBeforeFree
<1>1. TypeOK /\ Inv => DrainedBeforeFree
  <2> SUFFICES ASSUME TypeOK, Inv, phase = "freed" PROVE Range(accepted) = Range(finished)
    BY DEF DrainedBeforeFree
  <2>1. CASE numOfThreads = maxThreads
    <3>1. \A w \in Workers : block[w] = Exit
      BY <2>1 DEF Inv, InvJoin, InvWorker
    <3>2. Range(block) \subseteq {Exit}
      BY <3>1 DEF Range, TypeOK
    <3>3. Range(queue) \subseteq {Exit}
      <4>1. 1 \in Workers
        BY DEF TypeOK
      <4> QED
        BY <3>1, <4>1 DEF Inv, InvExit, Range
    <3> QED
      BY <3>2, <3>3, RangeOfSeq DEF Inv, InvAccepted, TypeOK
  <2>2. CASE numOfThreads < maxThreads
    <3>1. accepted = <<>>
      BY <2>2 DEF Inv, InvAccepted
    <3>2. Range(accepted) = {}
      BY <3>1 DEF Range
    <3> QED
      BY <3>2 DEF Inv, InvAccepted
  <2> QED
    BY <2>1, <2>2 DEF TypeOK
<1> QED
  BY <1>1, Invariance, PTL

\* A serial queue runs blocks in the order they were accepted.
THEOREM SerialQueueKeepsOrder == Spec => []SerialOrder
<1>1. TypeOK /\ Inv => SerialOrder
  BY LenProperties DEF TypeOK, Inv, InvSerial, SerialOrder, Started
<1> QED
  BY <1>1, Invariance, PTL

------------------------------------------------------------------------------
(* Wake-ups. *)

\* There are finitely many workers.
LEMMA FiniteWorkers == TypeOK => IsFiniteSet(Workers)
<1> SUFFICES ASSUME TypeOK PROVE IsFiniteSet(1..maxThreads)
  OBVIOUS
<1>1. 1 \in Int /\ maxThreads \in Int
  BY DEF TypeOK
<1> QED
  BY <1>1, FS_Interval

\* The sets that are counted are finite, their sizes natural numbers.
LEMMA Counted ==
  ASSUME TypeOK
  PROVE  /\ IsFiniteSet(Posting) /\ Cardinality(Posting) \in Nat
         /\ IsFiniteSet(Draining) /\ Cardinality(Draining) \in Nat
<1>1. IsFiniteSet(Workers)
  BY FiniteWorkers
<1>2. Posting \subseteq Clients /\ Draining \subseteq Workers
  BY DEF Posting, Draining
<1> QED
  BY <1>1, <1>2, FS_Subset, FS_CardinalityType

\* A step that changes nothing NoLostWakeup speaks of keeps it.
LEMMA WakeupFrame ==
  ASSUME NoLostWakeup, UNCHANGED <<queue, semaphore>>,
         Posting' = Posting, Draining' = Draining,
         (phase' = "posting") = (phase = "posting")
  PROVE  NoLostWakeup'
  BY DEF NoLostWakeup

\* No step leaves more blocks in the queue than wake-ups on their way to a drain.
LEMMA WakeupStep ==
  TypeOK /\ Inv /\ NoLostWakeup /\ [Next]_vars => NoLostWakeup'
<1> SUFFICES ASSUME TypeOK, Inv, NoLostWakeup, [Next]_vars PROVE NoLostWakeup'
  OBVIOUS
<1>0. /\ Len(queue) \in Nat /\ semaphore \in Nat
      /\ IsFiniteSet(Posting) /\ Cardinality(Posting) \in Nat
      /\ IsFiniteSet(Draining) /\ Cardinality(Draining) \in Nat
      /\ UNCHANGED maxThreads
  BY Counted, LenProperties, ThreadsFixed DEF TypeOK
<1>1. CASE Create
  <2>1. UNCHANGED <<queue, semaphore, client>> /\ phase # "posting" /\ phase' # "posting"
    BY <1>1 DEF Create, StartThread, StartThreadFails, Created
  <2>2. Draining' = Draining
    <3>1. CASE StartThread
      <4>1. worker[numOfThreads + 1] = "absent"
        BY <3>1 DEF StartThread, TypeOK, Inv, InvWorker
      <4> QED
        BY <3>1, <4>1 DEF StartThread, Move, Draining, TypeOK
    <3> QED
      BY <1>1, <3>1 DEF Create, StartThreadFails, Created, Draining
  <2> QED
    BY <2>1, <2>2, WakeupFrame DEF Posting
<1>2. ASSUME NEW c \in Clients, Client(c) PROVE NoLostWakeup'
  <2>1. ASSUME NEW b \in Blocks, DispatchEnqueue(c, b) PROVE NoLostWakeup'
    <3>1. /\ client[c] = "idle" /\ client' = [client EXCEPT ![c] = "posting"]
          /\ UNCHANGED <<semaphore, worker, phase>>
      BY <2>1 DEF DispatchEnqueue
    <3>2. Posting' = Posting \cup {c} /\ c \notin Posting
      BY <3>1 DEF Posting, TypeOK
    <3>3. Cardinality(Posting') = Cardinality(Posting) + 1
      BY <1>0, <3>2, FS_AddElement
    <3>4. Len(queue') \in Nat /\ Len(queue') <= Len(queue) + 1
      BY <1>0, <2>1, AppendProperties DEF DispatchEnqueue, TypeOK
    <3>5. Draining' = Draining
      BY <1>0, <3>1 DEF Draining
    <3> QED
      BY <1>0, <3>1, <3>3, <3>4, <3>5 DEF NoLostWakeup
  <2>2. CASE DispatchPost(c)
    <3>1. /\ client[c] = "posting" /\ client' = [client EXCEPT ![c] = "idle"]
          /\ semaphore' = semaphore + 1
          /\ UNCHANGED <<queue, worker, phase>>
      BY <2>2 DEF DispatchPost
    <3>2. Posting' = Posting \ {c} /\ c \in Posting
      BY <3>1 DEF Posting, TypeOK
    <3>3. Cardinality(Posting') = Cardinality(Posting) - 1
      BY <1>0, <3>2, FS_RemoveElement
    <3>4. Draining' = Draining
      BY <1>0, <3>1 DEF Draining
    <3> QED
      BY <1>0, <3>1, <3>3, <3>4 DEF NoLostWakeup
  <2>3. CASE ReleaseBy(c)
    <3>1. phase = "held" /\ phase' # "posting"
      BY <2>3 DEF ReleaseBy, Inv, InvPhase
    <3> QED
      BY <2>3, <3>1, WakeupFrame DEF ReleaseBy, Posting, Draining
  <2>4. ASSUME NEW other \in Clients, RetainFor(c, other) PROVE NoLostWakeup'
    BY <2>4, WakeupFrame DEF RetainFor, Posting, Draining
  <2> QED
    BY <1>2, <2>1, <2>2, <2>3, <2>4 DEF Client
<1>3. ASSUME NEW w \in Workers, Worker(w) PROVE NoLostWakeup'
  <2>0. UNCHANGED <<client, phase>> /\ Posting' = Posting
    BY <1>3 DEF Worker, Wait, Drain, DrainNothing, RunBlock, RunExit, Posting
  <2>1. CASE Wait(w)
    <3>1. Draining' = Draining \cup {w} /\ w \notin Draining
      BY <2>1 DEF Wait, Move, Draining, TypeOK
    <3>2. Cardinality(Draining') = Cardinality(Draining) + 1
      BY <1>0, <3>1, FS_AddElement
    <3> QED
      BY <1>0, <2>0, <2>1, <3>2 DEF Wait, NoLostWakeup
  <2>2. ASSUME worker[w] = "draining", worker'[w] # "draining",
               worker' = [worker EXCEPT ![w] = worker'[w]]
        PROVE  Cardinality(Draining') = Cardinality(Draining) - 1
    <3>1. Draining' = Draining \ {w} /\ w \in Draining
      BY <1>0, <2>2 DEF Draining, TypeOK
    <3> QED
      BY <1>0, <3>1, FS_RemoveElement
  <2>3. CASE Drain(w)
    <3>1. Len(queue') = Len(queue) - 1
      BY <2>3, HeadTailProperties DEF Drain, TypeOK
    <3>2. Cardinality(Draining') = Cardinality(Draining) - 1
      BY <2>2, <2>3 DEF Drain, Move, TypeOK
    <3> QED
      BY <1>0, <2>0, <2>3, <3>1, <3>2 DEF Drain, NoLostWakeup
  <2>4. CASE DrainNothing(w)
    <3>1. Cardinality(Draining') \in Nat
      <4>1. Draining' \subseteq Workers
        BY <1>0 DEF Draining
      <4>2. IsFiniteSet(Workers)
        BY FiniteWorkers
      <4>3. IsFiniteSet(Draining')
        BY <4>1, <4>2, FS_Subset
      <4> QED
        BY <4>3, FS_CardinalityType
    <3>2. Len(queue') = 0 /\ UNCHANGED <<queue, semaphore>>
      BY <2>4, EmptySeq DEF DrainNothing
    <3> QED
      BY <1>0, <2>0, <3>1, <3>2 DEF NoLostWakeup
  <2>5. CASE RunBlock(w)
    <3>1. Draining' = Draining
      BY <2>5 DEF RunBlock, Move, Draining, TypeOK
    <3> QED
      BY <2>0, <2>5, <3>1, WakeupFrame DEF RunBlock
  <2>6. CASE RunExit(w)
    <3>1. Draining' = Draining
      BY <2>6 DEF RunExit, Move, Draining, TypeOK
    <3> QED
      BY <2>0, <2>6, <3>1, WakeupFrame DEF RunExit
  <2> QED
    BY <1>3, <2>1, <2>3, <2>4, <2>5, <2>6 DEF Worker
<1>4. CASE Dealloc
  <2>0. UNCHANGED <<client, worker>> /\ Posting' = Posting /\ Draining' = Draining
    BY <1>4 DEF Dealloc, DeallocEnqueue, DeallocPost, DeallocAllEnqueued, DeallocJoin,
                DeallocFree, Posting, Draining
  <2>1. CASE DeallocEnqueue
    <3>1. Len(queue') \in Nat /\ Len(queue') <= Len(queue) + 1
      BY <1>0, <2>1, AppendProperties DEF DeallocEnqueue, TypeOK
    <3> QED
      BY <1>0, <2>0, <2>1, <3>1 DEF DeallocEnqueue, NoLostWakeup
  <2>2. CASE DeallocPost
    BY <1>0, <2>0, <2>2 DEF DeallocPost, NoLostWakeup
  <2>3. CASE DeallocAllEnqueued \/ DeallocJoin \/ DeallocFree
    BY <2>0, <2>3, WakeupFrame DEF DeallocAllEnqueued, DeallocJoin, DeallocFree
  <2> QED
    BY <1>4, <2>1, <2>2, <2>3 DEF Dealloc
<1>5. CASE UNCHANGED vars
  BY <1>5, WakeupFrame DEF vars, Posting, Draining
<1> QED
  BY <1>1, <1>2, <1>3, <1>4, <1>5 DEF Next, Freed

\* No wake-up is lost: a block in the queue has a post on its way to a worker.
THEOREM NoWakeupIsLost == Spec => []NoLostWakeup
<1>1. Init => NoLostWakeup
  <2> SUFFICES ASSUME Init PROVE NoLostWakeup
    OBVIOUS
  <2>1. Posting = {} /\ Draining = {}
    BY DEF Init, Posting, Draining
  <2> QED
    BY <2>1, FS_EmptySet, EmptySeq DEF Init, NoLostWakeup
<1> QED
  BY <1>1, WakeupStep, Invariance, PTL DEF Spec

------------------------------------------------------------------------------
(* What the mapping makes of the queue. *)

\* No block is behind an exit block.
ExitsLast(seq) == \A i, j \in DOMAIN seq : i < j /\ seq[i] = Exit => seq[j] = Exit

\* When no block is behind an exit block, the blocks of a queue are its first positions.
LEMMA BlocksInShape ==
  ASSUME NEW seq \in Seq(Blocks \cup {Exit}), ExitsLast(seq)
  PROVE  /\ BlocksIn(seq) \in Seq(Blocks)
         /\ Len(BlocksIn(seq)) \in 0..Len(seq)
         /\ \A i \in 1..Len(BlocksIn(seq)) : BlocksIn(seq)[i] = seq[i] /\ seq[i] # Exit
         /\ \A i \in 1..Len(seq) : i > Len(BlocksIn(seq)) => seq[i] = Exit
<1>0. /\ Len(seq) \in Nat /\ DOMAIN seq = 1..Len(seq)
      /\ \A i \in 1..Len(seq) : seq[i] \in Blocks \cup {Exit}
  BY LenProperties, ElementOfSeq
<1>1. \E n \in 0..Len(seq) : \A i \in 1..Len(seq) : seq[i] = Exit <=> i > n
  <2>1. CASE \A i \in DOMAIN seq : seq[i] # Exit
    <3>1. Len(seq) \in 0..Len(seq) /\ \A i \in 1..Len(seq) : ~ (i > Len(seq))
      BY <1>0
    <3> QED
      BY <1>0, <2>1, <3>1
  <2>2. CASE \E i \in DOMAIN seq : seq[i] = Exit
    <3>1. PICK first \in DOMAIN seq : seq[first] = Exit
                                      /\ \A i \in DOMAIN seq : seq[i] = Exit => first <= i
      <4>1. {i \in DOMAIN seq : seq[i] = Exit} # {}
        BY <2>2
      <4>2. {i \in DOMAIN seq : seq[i] = Exit} \subseteq Nat
        BY <1>0
      <4> QED
        BY <4>1, <4>2, LeastMember
    <3>2. \A i \in DOMAIN seq : first < i => seq[i] = Exit
      BY <3>1 DEF ExitsLast
    <3>3. \A i \in 1..Len(seq) : seq[i] = Exit <=> i > first - 1
      BY <1>0, <3>1, <3>2
    <3>4. first - 1 \in 0..Len(seq)
      BY <1>0
    <3> QED
      BY <3>3, <3>4
  <2> QED
    BY <2>1, <2>2
<1>2. PICK n \in 0..Len(seq) : \A i \in 1..Len(seq) : seq[i] = Exit <=> i > n
  BY <1>1
<1>3. {j \in DOMAIN seq : seq[j] # Exit} = 1..n
  BY <1>0, <1>2
<1>4. BlocksIn(seq) = [i \in 1..n |-> seq[i]]
  BY <1>3 DEF BlocksIn
<1>5. \A i \in 1..n : seq[i] \in Blocks
  BY <1>0, <1>2
<1>6. BlocksIn(seq) \in Seq(Blocks) /\ Len(BlocksIn(seq)) = n
  BY <1>0, <1>4, <1>5, IsASeq
<1> QED
  BY <1>0, <1>2, <1>4, <1>6

\* The blocks of a queue that has no exit block are the queue.
LEMMA BlocksInBlocks ==
  ASSUME NEW seq \in Seq(Blocks \cup {Exit}), \A i \in DOMAIN seq : seq[i] # Exit
  PROVE  BlocksIn(seq) = seq /\ seq \in Seq(Blocks)
<1>1. ExitsLast(seq)
  BY DEF ExitsLast
<1>2. Len(seq) \in Nat /\ DOMAIN seq = 1..Len(seq)
  BY LenProperties
<1>3. BlocksIn(seq) = [i \in 1..Len(seq) |-> seq[i]]
  BY <1>2 DEF BlocksIn
<1>4. BlocksIn(seq) = seq
  BY <1>3, LenProperties
<1> QED
  BY <1>1, <1>4, BlocksInShape

\* An enqueue of an exit block leaves the blocks alone.
LEMMA BlocksInExit ==
  ASSUME NEW seq \in Seq(Blocks \cup {Exit})
  PROVE  BlocksIn(Append(seq, Exit)) = BlocksIn(seq)
<1>1. /\ Append(seq, Exit) \in Seq(Blocks \cup {Exit})
      /\ Len(Append(seq, Exit)) = Len(seq) + 1
      /\ \A i \in 1..Len(seq) : Append(seq, Exit)[i] = seq[i]
      /\ Append(seq, Exit)[Len(seq) + 1] = Exit
  BY AppendProperties
<1>2. /\ DOMAIN seq = 1..Len(seq) /\ Len(seq) \in Nat
      /\ DOMAIN Append(seq, Exit) = 1..(Len(seq) + 1)
  BY <1>1, LenProperties
<1>3. {j \in DOMAIN Append(seq, Exit) : Append(seq, Exit)[j] # Exit}
        = {j \in DOMAIN seq : seq[j] # Exit}
  BY <1>1, <1>2
<1> QED
  BY <1>1, <1>2, <1>3 DEF BlocksIn

\* A drain takes the first block, or an exit block when there is none.
LEMMA BlocksInTail ==
  ASSUME NEW seq \in Seq(Blocks \cup {Exit}), ExitsLast(seq), seq # <<>>
  PROVE  /\ Head(seq) # Exit => /\ BlocksIn(seq) # <<>>
                                /\ BlocksIn(Tail(seq)) = Tail(BlocksIn(seq))
                                /\ Head(BlocksIn(seq)) = Head(seq)
         /\ Head(seq) = Exit => BlocksIn(Tail(seq)) = BlocksIn(seq)
<1> DEFINE n == Len(BlocksIn(seq))
<1> DEFINE m == Len(BlocksIn(Tail(seq)))
<1>1. /\ Len(seq) \in Nat \ {0} /\ DOMAIN seq = 1..Len(seq)
      /\ Tail(seq) \in Seq(Blocks \cup {Exit}) /\ Len(Tail(seq)) = Len(seq) - 1
      /\ DOMAIN Tail(seq) = 1..(Len(seq) - 1)
      /\ \A i \in 1..(Len(seq) - 1) : Tail(seq)[i] = seq[i + 1]
      /\ Head(seq) = seq[1]
  <2>1. /\ Tail(seq) \in Seq(Blocks \cup {Exit}) /\ Len(Tail(seq)) = Len(seq) - 1
        /\ \A i \in 1..Len(Tail(seq)) : Tail(seq)[i] = seq[i + 1]
        /\ Head(seq) = seq[1]
    BY HeadTailProperties
  <2>2. Len(seq) \in Nat \ {0} /\ DOMAIN seq = 1..Len(seq)
    BY EmptySeq, LenProperties
  <2>3. DOMAIN Tail(seq) = 1..Len(Tail(seq))
    BY <2>1, LenProperties
  <2> QED
    BY <2>1, <2>2, <2>3
<1>2. ExitsLast(Tail(seq))
  <2> SUFFICES ASSUME NEW i \in DOMAIN Tail(seq), NEW j \in DOMAIN Tail(seq), i < j,
                      Tail(seq)[i] = Exit
               PROVE  Tail(seq)[j] = Exit
    BY DEF ExitsLast
  <2>1. i + 1 \in DOMAIN seq /\ j + 1 \in DOMAIN seq /\ i + 1 < j + 1 /\ seq[i + 1] = Exit
    BY <1>1
  <2>2. seq[j + 1] = Exit
    BY <2>1 DEF ExitsLast
  <2> QED
    BY <1>1, <2>2
<1>3. /\ BlocksIn(seq) \in Seq(Blocks) /\ n \in 0..Len(seq)
      /\ \A i \in 1..n : BlocksIn(seq)[i] = seq[i] /\ seq[i] # Exit
      /\ \A i \in 1..Len(seq) : i > n => seq[i] = Exit
  BY BlocksInShape
<1>4. /\ BlocksIn(Tail(seq)) \in Seq(Blocks) /\ m \in 0..(Len(seq) - 1)
      /\ \A i \in 1..m : BlocksIn(Tail(seq))[i] = seq[i + 1] /\ seq[i + 1] # Exit
      /\ \A i \in 1..(Len(seq) - 1) : i > m => seq[i + 1] = Exit
  <2>1. /\ BlocksIn(Tail(seq)) \in Seq(Blocks) /\ m \in 0..Len(Tail(seq))
        /\ \A i \in 1..m : BlocksIn(Tail(seq))[i] = Tail(seq)[i] /\ Tail(seq)[i] # Exit
        /\ \A i \in 1..Len(Tail(seq)) : i > m => Tail(seq)[i] = Exit
    BY <1>1, <1>2, BlocksInShape
  <2> HIDE DEF m
  <2> QED
    BY <1>1, <2>1
<1> HIDE DEF n, m
<1>5. CASE Head(seq) # Exit
  <2>1. n >= 1
    BY <1>1, <1>3, <1>5
  <2>2. ~ (m < n - 1)
    <3>1. ASSUME m < n - 1 PROVE FALSE
      <4>1. m + 1 \in 1..(Len(seq) - 1) /\ m + 1 > m /\ (m + 1) + 1 \in 1..n
        BY <1>1, <1>3, <1>4, <3>1
      <4> QED
        BY <1>3, <1>4, <4>1
    <3> QED
      BY <3>1
  <2>3. ~ (m > n - 1)
    <3>1. ASSUME m > n - 1 PROVE FALSE
      <4>1. n \in 1..m /\ n + 1 \in 1..Len(seq) /\ n + 1 > n
        BY <1>1, <1>3, <1>4, <2>1, <3>1
      <4> QED
        BY <1>3, <1>4, <4>1
    <3> QED
      BY <3>1
  <2>4. m = n - 1
    BY <1>1, <1>3, <1>4, <2>2, <2>3
  <2>5. BlocksIn(seq) # <<>>
    BY <2>1, EmptySeq DEF n
  <2>6. /\ Tail(BlocksIn(seq)) \in Seq(Blocks) /\ Len(Tail(BlocksIn(seq))) = n - 1
        /\ \A i \in 1..(n - 1) : Tail(BlocksIn(seq))[i] = BlocksIn(seq)[i + 1]
        /\ Head(BlocksIn(seq)) = BlocksIn(seq)[1]
    BY <1>3, <2>5, HeadTailProperties DEF n
  <2>7. \A i \in 1..(n - 1) : i \in 1..m /\ i + 1 \in 1..n
    BY <1>3, <2>4
  <2>8. \A i \in 1..(n - 1) : BlocksIn(Tail(seq))[i] = Tail(BlocksIn(seq))[i]
    BY <1>3, <1>4, <2>6, <2>7
  <2>9. BlocksIn(Tail(seq)) = Tail(BlocksIn(seq))
    BY <1>4, <2>4, <2>6, <2>8, SeqEqual DEF m
  <2>10. Head(BlocksIn(seq)) = Head(seq)
    BY <1>1, <1>3, <2>1, <2>6
  <2> QED
    BY <1>5, <2>5, <2>9, <2>10
<1>6. CASE Head(seq) = Exit
  <2>1. ~ (1 \in 1..n) /\ n = 0
    BY <1>1, <1>3, <1>6
  <2>2. ~ (1 \in 1..m) /\ m = 0
    <3>1. ASSUME 1 \in 1..m PROVE FALSE
      <4>1. seq[1 + 1] # Exit /\ 1 + 1 \in 1..Len(seq) /\ 1 + 1 > n
        BY <1>1, <1>4, <2>1, <3>1
      <4> QED
        BY <1>3, <4>1
    <3> QED
      BY <1>4, <3>1
  <2>3. BlocksIn(seq) = <<>> /\ BlocksIn(Tail(seq)) = <<>>
    BY <1>3, <1>4, <2>1, <2>2, EmptySeq DEF n, m
  <2> QED
    BY <1>6, <2>3
<1> QED
  BY <1>5, <1>6

------------------------------------------------------------------------------
(* Every step maps to a step of Executor or to a stutter. *)

\* Both specifications count with the Cardinality of FiniteSets.
LEMMA CountsAlike == \A S : Abstract!Cardinality(S) = Cardinality(S)
  BY DEF Cardinality, Abstract!Cardinality

\* A step that changes neither the queue, a block nor what has finished, and does not
\* free the queue, is invisible.
LEMMA Invisible ==
  ASSUME UNCHANGED <<maxThreads, queue, block, finished>>,
         (phase' # "freed") = (phase # "freed")
  PROVE  UNCHANGED Abstract!vars
<1>1. UNCHANGED <<BlocksIn(queue), Running>>
  BY DEF BlocksIn, Running
<1> QED
  BY <1>1 DEF Abstract!vars

\* A dispatch accepts a block that is not known yet, while the executor is open.
LEMMA EnqueueAccepts ==
  ASSUME TypeOK, Inv, NEW c \in Clients, NEW b \in Blocks, DispatchEnqueue(c, b),
         queue' = Append(queue, b)
  PROVE  Abstract!Accept(b)
<1>1. /\ phase = "held" /\ b \notin Range(accepted)
      /\ UNCHANGED <<maxThreads, block, finished, phase>>
  BY DEF DispatchEnqueue, Inv, InvPhase
<1>2. /\ b \notin Range(queue) /\ b \notin Range(block) /\ b \notin Range(finished)
  BY <1>1 DEF Inv, InvAccepted
<1>3. \A i \in DOMAIN queue : queue[i] # Exit
  BY <1>1 DEF Inv, InvExit
<1>4. BlocksIn(queue) = queue
  BY <1>3, BlocksInBlocks DEF TypeOK
<1>5. \A i \in DOMAIN queue' : queue'[i] # Exit
  BY <1>3, EnqueueShape
<1>6. BlocksIn(queue') = queue'
  <2>1. queue' \in Seq(Blocks \cup {Exit})
    BY AppendProperties DEF TypeOK
  <2> QED
    BY <1>5, <2>1, BlocksInBlocks
<1>7. b \notin Abstract!Known
  <2>1. \A i \in DOMAIN queue : queue[i] # b
    BY <1>2 DEF Range
  <2>2. b \notin Running
    BY <1>2 DEF Running, Range, TypeOK
  <2>3. \A i \in DOMAIN finished : finished[i] # b
    BY <1>2 DEF Range
  <2> QED
    BY <1>4, <2>1, <2>2, <2>3 DEF Abstract!Known
<1>8. Running' = Running
  BY <1>1 DEF Running
<1> QED
  BY <1>1, <1>4, <1>6, <1>7, <1>8 DEF Abstract!Accept

\* At most all the other workers run a block when one drains the queue.
LEMMA RoomForOne ==
  ASSUME TypeOK, NEW w \in Workers, block[w] = None
  PROVE  Cardinality(Running) < maxThreads
<1> DEFINE Others == Workers \ {w}
<1>1. IsFiniteSet(Workers) /\ Cardinality(Workers) = maxThreads /\ maxThreads \in Nat
  <2>1. 1 \in Int /\ maxThreads \in Int /\ maxThreads >= 1
    BY DEF TypeOK
  <2> QED
    BY <2>1, FS_Interval
<1>2. IsFiniteSet(Others) /\ Cardinality(Others) = maxThreads - 1
  BY <1>1, FS_RemoveElement
<1>3. /\ IsFiniteSet({block[v] : v \in Others})
      /\ Cardinality({block[v] : v \in Others}) <= Cardinality(Others)
  <2> DEFINE f == [v \in Others |-> block[v]]
  <2>1. f \in Surjection(Others, {block[v] : v \in Others})
    BY DEF Surjection
  <2> QED
    BY <1>2, <2>1, FS_Surjection
<1>4. Running \subseteq {block[v] : v \in Others}
  BY DEF Running
<1>5. Cardinality(Running) <= Cardinality({block[v] : v \in Others})
      /\ Cardinality(Running) \in Nat /\ Cardinality({block[v] : v \in Others}) \in Nat
  BY <1>3, <1>4, FS_Subset, FS_CardinalityType
<1> QED
  BY <1>1, <1>2, <1>3, <1>5

\* The drain of a block starts it; that of an exit block is invisible.
LEMMA DrainStarts ==
  ASSUME TypeOK, Inv, NEW w \in Workers, Drain(w)
  PROVE  Abstract!Start \/ UNCHANGED Abstract!vars
<1>1. /\ queue # <<>> /\ queue' = Tail(queue)
      /\ block' = [block EXCEPT ![w] = Head(queue)] /\ block[w] = None
      /\ UNCHANGED <<maxThreads, finished, phase>>
  BY DEF Drain, Inv, InvWorker
<1>2. Running' = (Running \cup {Head(queue)}) \ {Exit, None}
  BY <1>1 DEF Running, TypeOK
<1>3. queue \in Seq(Blocks \cup {Exit}) /\ ExitsLast(queue)
  BY DEF TypeOK, Inv, InvExit, ExitsLast
<1>4. Head(queue) \in Blocks \cup {Exit}
  BY <1>1, <1>3, HeadTailProperties
<1>5. CASE Head(queue) = Exit
  <2>1. BlocksIn(queue') = BlocksIn(queue)
    BY <1>1, <1>3, <1>5, BlocksInTail
  <2>2. Running' = Running
    BY <1>2, <1>5 DEF Running
  <2> QED
    BY <1>1, <2>1, <2>2 DEF Abstract!vars
<1>6. CASE Head(queue) \in Blocks
  <2>1. /\ BlocksIn(queue) # <<>> /\ BlocksIn(queue') = Tail(BlocksIn(queue))
        /\ Head(BlocksIn(queue)) = Head(queue)
    BY <1>1, <1>3, <1>6, BlocksInTail
  <2>2. Running' = Running \cup {Head(BlocksIn(queue))}
    BY <1>2, <1>6, <2>1 DEF Running
  <2>3. Cardinality(Running) < maxThreads
    BY <1>1, RoomForOne
  <2>4. Abstract!Cardinality(Running) < maxThreads
    BY <2>3, CountsAlike
  <2> QED
    BY <1>1, <2>1, <2>2, <2>4 DEF Abstract!Start
<1> QED
  BY <1>4, <1>5, <1>6

\* A block finishes once: no other worker runs it.
LEMMA RunFinishes ==
  ASSUME TypeOK, Inv, NEW w \in Workers, RunBlock(w)
  PROVE  block[w] \in Blocks /\ Abstract!Finish(block[w])
<1>1. /\ block[w] \in Blocks /\ finished' = Append(finished, block[w])
      /\ block' = [block EXCEPT ![w] = None]
      /\ UNCHANGED <<maxThreads, queue, phase>>
  BY DEF RunBlock
<1>2. \A v \in Workers : block[v] = block[w] => v = w
  BY <1>1 DEF Inv, InvDistinct
<1>3. block[w] \in Running /\ Running' = Running \ {block[w]}
  BY <1>1, <1>2 DEF Running, TypeOK
<1>4. BlocksIn(queue') = BlocksIn(queue)
  BY <1>1
<1> QED
  BY <1>1, <1>3, <1>4 DEF Abstract!Finish

\* Nothing is pending and nothing runs when the dealloc frees the queue.
LEMMA FreeCloses ==
  ASSUME TypeOK, Inv, DeallocFree
  PROVE  Abstract!Close
<1>1. /\ phase = "joining" /\ exits = numOfThreads /\ phase' = "freed"
      /\ UNCHANGED <<maxThreads, queue, block, finished>>
  BY DEF DeallocFree
<1>2. Running = {} /\ \A i \in DOMAIN queue : queue[i] = Exit
  <2>1. CASE numOfThreads = maxThreads
    <3>1. \A w \in Workers : block[w] = Exit
      BY <1>1, <2>1 DEF Inv, InvJoin, InvWorker
    <3>2. 1 \in Workers
      BY DEF TypeOK
    <3> QED
      BY <3>1, <3>2 DEF Inv, InvExit, Running
  <2>2. CASE numOfThreads < maxThreads
    <3>1. accepted = <<>>
      BY <2>2 DEF Inv, InvAccepted
    <3>2. Range(accepted) = {}
      BY <3>1 DEF Range
    <3>3. Range(queue) \subseteq {Exit, None} /\ Range(block) \subseteq {Exit, None}
      BY <3>2 DEF Inv, InvAccepted
    <3>4. \A i \in DOMAIN queue : queue[i] \in Range(queue) /\ queue[i] # None
      BY LenProperties, ElementOfSeq DEF Range, TypeOK
    <3> QED
      BY <3>3, <3>4 DEF Running, Range, TypeOK
  <2> QED
    BY <2>1, <2>2 DEF TypeOK
<1>3. BlocksIn(queue) = <<>>
  BY <1>2 DEF BlocksIn
<1>4. Running' = Running /\ BlocksIn(queue') = BlocksIn(queue)
  BY <1>1 DEF Running
<1> QED
  BY <1>1, <1>2, <1>3, <1>4 DEF Abstract!Close

\* Every step of the dispatch queue is a step of the executor or invisible.
LEMMA StepRefines ==
  TypeOK /\ Inv /\ [Next]_vars => [Abstract!Next]_(Abstract!vars)
<1> SUFFICES ASSUME TypeOK, Inv, [Next]_vars PROVE Abstract!Next \/ UNCHANGED Abstract!vars
  OBVIOUS
<1>1. CASE Create
  BY <1>1, Invisible DEF Create, StartThread, StartThreadFails, Created
<1>2. ASSUME NEW c \in Clients, Client(c) PROVE Abstract!Next \/ UNCHANGED Abstract!vars
  <2>1. ASSUME NEW b \in Blocks, DispatchEnqueue(c, b)
        PROVE  Abstract!Next \/ UNCHANGED Abstract!vars
    <3>1. CASE queue' = Append(queue, b)
      BY <2>1, <3>1, EnqueueAccepts DEF Abstract!Next
    <3>2. CASE UNCHANGED queue
      BY <2>1, <3>2, Invisible DEF DispatchEnqueue
    <3> QED
      BY <2>1, <3>1, <3>2 DEF DispatchEnqueue
  <2>2. CASE DispatchPost(c)
    BY <2>2, Invisible DEF DispatchPost
  <2>3. CASE ReleaseBy(c)
    <3>1. phase = "held" /\ phase' # "freed"
      BY <2>3 DEF ReleaseBy, Inv, InvPhase
    <3> QED
      BY <2>3, <3>1, Invisible DEF ReleaseBy
  <2>4. ASSUME NEW other \in Clients, RetainFor(c, other)
        PROVE  Abstract!Next \/ UNCHANGED Abstract!vars
    BY <2>4, Invisible DEF RetainFor
  <2> QED
    BY <1>2, <2>1, <2>2, <2>3, <2>4 DEF Client
<1>3. ASSUME NEW w \in Workers, Worker(w) PROVE Abstract!Next \/ UNCHANGED Abstract!vars
  <2>1. CASE Wait(w) \/ DrainNothing(w) \/ RunExit(w)
    BY <2>1, Invisible DEF Wait, DrainNothing, RunExit
  <2>2. CASE Drain(w)
    BY <2>2, DrainStarts DEF Abstract!Next
  <2>3. CASE RunBlock(w)
    BY <2>3, RunFinishes DEF Abstract!Next
  <2> QED
    BY <1>3, <2>1, <2>2, <2>3 DEF Worker
<1>4. CASE Dealloc
  <2>1. CASE DeallocEnqueue
    <3>1. CASE queue' = Append(queue, Exit)
      <4>1. BlocksIn(queue') = BlocksIn(queue)
        BY <3>1, BlocksInExit DEF TypeOK
      <4>2. Running' = Running /\ UNCHANGED <<maxThreads, finished, phase # "freed">>
        BY <2>1 DEF DeallocEnqueue, Running
      <4> QED
        BY <4>1, <4>2 DEF Abstract!vars
    <3>2. CASE UNCHANGED queue
      BY <2>1, <3>2, Invisible DEF DeallocEnqueue
    <3> QED
      BY <2>1, <3>1, <3>2 DEF DeallocEnqueue
  <2>2. CASE DeallocPost \/ DeallocAllEnqueued \/ DeallocJoin
    BY <2>2, Invisible DEF DeallocPost, DeallocAllEnqueued, DeallocJoin
  <2>3. CASE DeallocFree
    BY <2>3, FreeCloses DEF Abstract!Next
  <2> QED
    BY <1>4, <2>1, <2>2, <2>3 DEF Dealloc
<1>5. CASE UNCHANGED vars
  BY <1>5, Invisible DEF vars
<1> QED
  BY <1>1, <1>2, <1>3, <1>4, <1>5 DEF Next, Freed

\* A dispatch queue is an executor: it starts the blocks it accepted in the order it
\* accepted them, at most as many at a time as it has threads, runs each once, and is
\* freed when none is left.
THEOREM ImplementsExecutor == Spec => ExecutorSpec
<1>1. Init => Abstract!Init
  <2> SUFFICES ASSUME Init PROVE Abstract!Init
    OBVIOUS
  <2>1. BlocksIn(queue) = <<>> /\ Running = {}
    BY DEF Init, BlocksIn, Running
  <2> QED
    BY <2>1 DEF Init, Abstract!Init
<1> QED
  BY <1>1, StepRefines, Invariance, PTL DEF Spec, ExecutorSpec, Abstract!Spec
==============================================================================
