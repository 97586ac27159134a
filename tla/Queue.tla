-------------------------------- MODULE Queue --------------------------------
(***************************************************************************)
(* utils/queue.c: the lock-free queue of Michael and Scott, without the    *)
(* modification counters of the original and with malloc and free in their *)
(* plain form.  One action per access to shared memory, named after what   *)
(* the line does; the -O0 build performs the loads as they are written.    *)
(*                                                                         *)
(* Memory is a set of Nodes.  malloc hands out a node that was never used  *)
(* or, when Reuse is TRUE, one that was freed; it fails when there is none *)
(* left.  A load from a freed node may return the old value or Junk, the   *)
(* allocator's own bookkeeping.                                            *)
(***************************************************************************)
EXTENDS Naturals, Sequences, FiniteSets

CONSTANTS Producers,   \* threads that call QueueEnqueue
          Consumers,   \* threads that call QueueDrain; may overlap Producers
          Elements,    \* the pointers that are enqueued
          Nodes,       \* the memory malloc hands out: a bound of the model
          Reuse,       \* may malloc return a node that was freed?
          NULL, Junk

Threads == Producers \cup Consumers

ASSUME QueueAssumption ==
  /\ Producers # {} /\ Consumers # {} /\ Elements # {} /\ Nodes # {}
  /\ IsFiniteSet(Nodes)
  /\ Reuse \in BOOLEAN
  /\ NULL # Junk
  /\ {NULL, Junk} \cap (Elements \cup Nodes) = {}

VARIABLES qhead, qtail,  \* queue->head, queue->tail
          mem,           \* the _QueueElement in each node
          heap,          \* "fresh", "live" or "freed", for each node
          pc,            \* the next access of each thread
          loc,           \* the local variables of the call in progress
          sawEmpty,      \* history: was the queue empty during this drain?
          aborted        \* an assert failed or a wild pointer was followed

vars == <<qhead, qtail, mem, heap, pc, loc, sawEmpty, aborted>>

Pointers == Nodes \cup {NULL, Junk}

NoLocals == [element |-> NULL, node |-> NULL, head |-> NULL, tail |-> NULL, next |-> NULL]

EnqueueLabels == {"E_malloc", "E_tail", "E_next", "E_check", "E_link", "E_help", "E_swing"}
DrainLabels   == {"D_head", "D_tail", "D_next", "D_check", "D_help", "D_read", "D_cas",
                  "D_assert", "D_mark", "D_free"}

TypeOK ==
  /\ qhead \in Pointers /\ qtail \in Pointers
  /\ mem \in [Nodes -> [element : Elements \cup {NULL}, next : Pointers, dequeued : BOOLEAN]]
  /\ heap \in [Nodes -> {"fresh", "live", "freed"}]
  /\ pc \in [Threads -> {"idle"} \cup EnqueueLabels \cup DrainLabels]
  /\ loc \in [Threads -> [element : Elements \cup {NULL, Junk}, node : Pointers,
                          head : Pointers, tail : Pointers, next : Pointers]]
  /\ sawEmpty \in [Threads -> BOOLEAN]
  /\ aborted \in BOOLEAN

------------------------------------------------------------------------------
(* Memory. *)

Zeroed == [element |-> NULL, next |-> NULL, dequeued |-> FALSE]

\* The values a load of field f through pointer p may return.  Following a
\* pointer that is no node ends the program: Faults.
Load(p, f) == IF p \notin Nodes THEN {Junk}
              ELSE IF heap[p] = "live" THEN {mem[p][f]} ELSE {mem[p][f], Junk}
Faults(p)  == aborted' = (p \notin Nodes)

\* Nodes malloc may return.  Fresh nodes are interchangeable: one stands for all.
Available ==
  LET fresh == {n \in Nodes : heap[n] = "fresh"}
  IN  (IF fresh = {} THEN {} ELSE {CHOOSE n \in fresh : TRUE})
      \cup {n \in Nodes : Reuse /\ heap[n] = "freed"}

\* The pointers one comes across from queue->head on, and the elements in the nodes behind it.
FromHead[i \in 0..Cardinality(Nodes)] ==
  IF i = 0 THEN qhead
  ELSE IF FromHead[i - 1] \in Nodes THEN mem[FromHead[i - 1]].next ELSE NULL

Contents ==
  LET linked == {i \in 1..Cardinality(Nodes) : FromHead[i] \in Nodes}
  IN  [i \in 1..Cardinality(linked) |-> mem[FromHead[i]].element]

------------------------------------------------------------------------------

\* QueueCreate: a zeroed dummy node is both head and tail.
Init ==
  /\ qhead = (CHOOSE n \in Nodes : TRUE) /\ qtail = qhead
  /\ mem = [n \in Nodes |-> Zeroed]
  /\ heap = [n \in Nodes |-> IF n = qhead THEN "live" ELSE "fresh"]
  /\ pc = [t \in Threads |-> "idle"]
  /\ loc = [t \in Threads |-> NoLocals]
  /\ sawEmpty = [t \in Threads |-> FALSE]
  /\ aborted = FALSE

At(t, label)   == ~aborted /\ pc[t] = label
Goto(t, label) == pc' = [pc EXCEPT ![t] = label]
Set(t, x, v)   == loc' = [loc EXCEPT ![t][x] = v]
Return(t)      == /\ Goto(t, "idle")
                  /\ loc' = [loc EXCEPT ![t] = NoLocals]

shared == <<qhead, qtail, mem, heap>>

------------------------------------------------------------------------------
(* QueueEnqueue. *)

CallEnqueue(t) == /\ At(t, "idle") /\ t \in Producers
                  /\ \E e \in Elements : Set(t, "element", e)
                  /\ Goto(t, "E_malloc")
                  /\ UNCHANGED <<shared, sawEmpty, aborted>>

\* malloc, memset and the two assignments to the new node.
Malloc(t) ==
  /\ At(t, "E_malloc")
  /\ \E n \in Available :
       /\ heap' = [heap EXCEPT ![n] = "live"]
       /\ mem' = [mem EXCEPT ![n] = [Zeroed EXCEPT !.element = loc[t].element]]
       /\ Set(t, "node", n)
  /\ Goto(t, "E_tail")
  /\ UNCHANGED <<qhead, qtail, sawEmpty, aborted>>

MallocFails(t) == /\ At(t, "E_malloc")
                  /\ Available = {}
                  /\ Return(t)
                  /\ UNCHANGED <<shared, sawEmpty, aborted>>

ReadTail(t) == /\ At(t, "E_tail")
               /\ Set(t, "tail", qtail)
               /\ Goto(t, "E_next")
               /\ UNCHANGED <<shared, sawEmpty, aborted>>

ReadTailNext(t) ==
  /\ At(t, "E_next")
  /\ \E v \in Load(loc[t].tail, "next") : Set(t, "next", v)
  /\ Faults(loc[t].tail)
  /\ Goto(t, "E_check")
  /\ UNCHANGED <<shared, sawEmpty>>

CheckTail(t) == /\ At(t, "E_check")
                /\ Goto(t, IF loc[t].tail # qtail THEN "E_tail"
                           ELSE IF loc[t].next = NULL THEN "E_link" ELSE "E_help")
                /\ UNCHANGED <<shared, loc, sawEmpty, aborted>>

\* Mutant of Link: a plain store where the code compares and swaps.
LinkWithoutCas(t) ==
  /\ At(t, "E_link")
  /\ mem' = [mem EXCEPT ![loc[t].tail].next = loc[t].node]
  /\ Goto(t, "E_swing")
  /\ UNCHANGED <<qhead, qtail, heap, loc, sawEmpty, aborted>>

\* CAS(&tail->next, NULL, node): the enqueue takes effect, or starts over.
Link(t) ==
  /\ At(t, "E_link")
  /\ \E v \in Load(loc[t].tail, "next") :
       \/ /\ v = NULL
          /\ mem' = [mem EXCEPT ![loc[t].tail].next = loc[t].node]
          /\ Goto(t, "E_swing")
       \/ /\ v # NULL
          /\ Goto(t, "E_tail")
          /\ UNCHANGED mem
  /\ UNCHANGED <<qhead, qtail, heap, loc, sawEmpty, aborted>>

\* CAS(&queue->tail, tail, new)
CasTail(t, new) == qtail' = IF qtail = loc[t].tail THEN new ELSE qtail

HelpTail(t) == /\ At(t, "E_help")
               /\ CasTail(t, loc[t].next)
               /\ Goto(t, "E_tail")
               /\ UNCHANGED <<qhead, mem, heap, loc, sawEmpty, aborted>>

SwingTail(t) == /\ At(t, "E_swing")
                /\ CasTail(t, loc[t].node)
                /\ Return(t)
                /\ UNCHANGED <<qhead, mem, heap, sawEmpty, aborted>>

------------------------------------------------------------------------------
(* QueueDrain. *)

CallDrain(t) == /\ At(t, "idle") /\ t \in Consumers
                /\ Goto(t, "D_head")
                /\ sawEmpty' = [sawEmpty EXCEPT ![t] = Contents = <<>>]
                /\ UNCHANGED <<shared, loc, aborted>>

ReadHead(t) == /\ At(t, "D_head")
               /\ Set(t, "head", qhead)
               /\ Goto(t, "D_tail")
               /\ UNCHANGED <<shared, sawEmpty, aborted>>

ReadDrainTail(t) == /\ At(t, "D_tail")
                    /\ Set(t, "tail", qtail)
                    /\ Goto(t, "D_next")
                    /\ UNCHANGED <<shared, sawEmpty, aborted>>

ReadHeadNext(t) ==
  /\ At(t, "D_next")
  /\ \E v \in Load(loc[t].head, "next") : Set(t, "next", v)
  /\ Faults(loc[t].head)
  /\ Goto(t, "D_check")
  /\ UNCHANGED <<shared, sawEmpty>>

\* Mutant of CheckHead: head is not re-read.
CheckHeadNoReread(t) ==
  /\ At(t, "D_check")
  /\ ~ (loc[t].head = loc[t].tail /\ loc[t].next = NULL)
  /\ Goto(t, IF loc[t].head = loc[t].tail THEN "D_help" ELSE "D_read")
  /\ UNCHANGED <<shared, loc, sawEmpty, aborted>>

\* Mutant of CheckHead: head is compared with queue->tail.
CheckHeadAgainstTail(t) ==
  /\ At(t, "D_check")
  /\ ~ (qhead = loc[t].head /\ loc[t].head = loc[t].tail /\ loc[t].next = NULL)
  /\ Goto(t, IF qtail # loc[t].head THEN "D_head"
             ELSE IF loc[t].head = loc[t].tail THEN "D_help" ELSE "D_read")
  /\ UNCHANGED <<shared, loc, sawEmpty, aborted>>

\* head is re-read; what follows is decided on the local copies.
CheckHead(t) ==
  /\ At(t, "D_check")
  /\ ~ (qhead = loc[t].head /\ loc[t].head = loc[t].tail /\ loc[t].next = NULL)
  /\ Goto(t, IF qhead # loc[t].head THEN "D_head"
             ELSE IF loc[t].head = loc[t].tail THEN "D_help" ELSE "D_read")
  /\ UNCHANGED <<shared, loc, sawEmpty, aborted>>

ReturnEmpty(t) ==
  /\ At(t, "D_check")
  /\ qhead = loc[t].head /\ loc[t].head = loc[t].tail /\ loc[t].next = NULL
  /\ Return(t)
  /\ sawEmpty' = [sawEmpty EXCEPT ![t] = FALSE]
  /\ UNCHANGED <<shared, aborted>>

HelpDrainTail(t) == /\ At(t, "D_help")
                    /\ CasTail(t, loc[t].next)
                    /\ Goto(t, "D_head")
                    /\ UNCHANGED <<qhead, mem, heap, loc, sawEmpty, aborted>>

\* Mutant of ReadElement: the value is taken from the dummy node.
ReadElementOfHead(t) ==
  /\ At(t, "D_read")
  /\ \E v \in Load(loc[t].head, "element") : Set(t, "element", v)
  /\ Faults(loc[t].head)
  /\ Goto(t, "D_cas")
  /\ UNCHANGED <<shared, sawEmpty>>

ReadElement(t) ==
  /\ At(t, "D_read")
  /\ \E v \in Load(loc[t].next, "element") : Set(t, "element", v)
  /\ Faults(loc[t].next)
  /\ Goto(t, "D_cas")
  /\ UNCHANGED <<shared, sawEmpty>>

\* Mutant of CasHead: a plain store where the code compares and swaps.
StoreHead(t) ==
  /\ At(t, "D_cas")
  /\ qhead' = loc[t].next
  /\ Goto(t, "D_assert")
  /\ UNCHANGED <<qtail, mem, heap, loc, sawEmpty, aborted>>

\* CAS(&queue->head, head, next): the drain takes effect, or starts over.
CasHead(t) ==
  /\ At(t, "D_cas")
  /\ \/ /\ qhead = loc[t].head
        /\ qhead' = loc[t].next
        /\ Goto(t, "D_assert")
        /\ sawEmpty' = [u \in Threads |->
                          /\ u # t
                          /\ \/ sawEmpty[u]
                             \/ /\ pc[u] \in DrainLabels \ {"D_assert", "D_mark", "D_free"}
                                /\ mem[loc[t].next].next = NULL]
     \/ /\ qhead # loc[t].head
        /\ Goto(t, "D_head")
        /\ UNCHANGED <<qhead, sawEmpty>>
  /\ UNCHANGED <<qtail, mem, heap, loc, aborted>>

\* assert(next->dequeued == false).  dequeued lies behind the two words that free() overwrites
\* in a block this small: of a node that was freed its old value is read.
AssertNotDequeued(t) ==
  /\ At(t, "D_assert")
  /\ aborted' = mem[loc[t].next].dequeued
  /\ Goto(t, "D_mark")
  /\ UNCHANGED <<shared, loc, sawEmpty>>

MarkDequeued(t) == /\ At(t, "D_mark")
                   /\ mem' = [mem EXCEPT ![loc[t].next].dequeued = TRUE]
                   /\ Goto(t, "D_free")
                   /\ UNCHANGED <<qhead, qtail, heap, loc, sawEmpty, aborted>>

\* Mutant of FreeHead: the node that became the dummy is freed.
FreeNext(t) == /\ At(t, "D_free")
               /\ heap' = [heap EXCEPT ![loc[t].next] = "freed"]
               /\ Return(t)
               /\ UNCHANGED <<qhead, qtail, mem, sawEmpty, aborted>>

FreeHead(t) == /\ At(t, "D_free")
               /\ heap' = [heap EXCEPT ![loc[t].head] = "freed"]
               /\ Return(t)
               /\ UNCHANGED <<qhead, qtail, mem, sawEmpty, aborted>>

------------------------------------------------------------------------------

Enqueue(t) == \/ CallEnqueue(t) \/ Malloc(t) \/ MallocFails(t) \/ ReadTail(t)
              \/ ReadTailNext(t) \/ CheckTail(t) \/ Link(t) \/ HelpTail(t) \/ SwingTail(t)

Drain(t) == \/ CallDrain(t) \/ ReadHead(t) \/ ReadDrainTail(t) \/ ReadHeadNext(t)
            \/ CheckHead(t) \/ ReturnEmpty(t) \/ HelpDrainTail(t) \/ ReadElement(t)
            \/ CasHead(t) \/ AssertNotDequeued(t) \/ MarkDequeued(t) \/ FreeHead(t)

Next == \E t \in Threads : Enqueue(t) \/ Drain(t)

\* A thread in the middle of a call goes on; nobody has to make a call.
Step(t) == pc[t] # "idle" /\ (Enqueue(t) \/ Drain(t))

Spec     == Init /\ [][Next]_vars
FairSpec == Spec /\ \A t \in Threads : WF_vars(Step(t))

------------------------------------------------------------------------------
(* Properties. *)

\* The node a thread dereferences (or frees) in its next step, NULL if none.
NextAccess(t) ==
  CASE pc[t] \in {"E_next", "E_link"}             -> loc[t].tail
    [] pc[t] \in {"D_next", "D_free"}             -> loc[t].head
    [] pc[t] \in {"D_read", "D_assert", "D_mark"} -> loc[t].next
    [] OTHER                                      -> NULL

\* Every variable has its type.  No thread is about to read, write or free a node that
\* has been freed: with one producer and one consumer the missing counters do no harm.
NoDanglingAccess ==
  /\ TypeOK
  /\ \A t \in Threads : NextAccess(t) # NULL =>
       NextAccess(t) \in Nodes /\ heap[NextAccess(t)] = "live"

\* assert(next->dequeued == false) holds whenever QueueDrain reaches it: no node
\* is handed to two callers.
NeverDequeuedTwice ==
  \A t \in Threads : pc[t] = "D_assert" =>
    loc[t].next \in Nodes /\ ~ mem[loc[t].next].dequeued

\* Nothing the queue does ends the program.
NeverAborts == ~aborted

\* What the abstract queue sees of a thread.
AbstractCall(t) ==
  CASE pc[t] = "idle"                          -> [op |-> "idle"]
    [] pc[t] = "E_swing"                       -> [op |-> "enqueued"]
    [] pc[t] \in EnqueueLabels \ {"E_swing"}   -> [op |-> "enqueuing", element |-> loc[t].element]
    [] pc[t] \in {"D_assert", "D_mark", "D_free"} -> [op |-> "drained", element |-> loc[t].element]
    [] OTHER                                   -> [op |-> "draining"]

Fifo == INSTANCE FifoQueue WITH
          contents <- Contents,
          call     <- [t \in Threads |-> AbstractCall(t)]

\* queue.c implements the FIFO queue its header announces: every element comes
\* out once, in order, and NULL is returned only when the queue was empty.
FifoSpec == Fifo!Spec

\* Every call returns, whatever the other threads do.
CallsReturn == \A t \in Threads : pc[t] # "idle" ~> pc[t] = "idle"

------------------------------------------------------------------------------
(* What makes NeverAborts and the refinement inductive, for any number of  *)
(* threads, when memory is not recycled.                                   *)

\* Every node that was ever linked, in the order of the links, from the first dummy on.
Chains == UNION {[1..n -> Nodes] : n \in 1..Cardinality(Nodes)}

InvChain(s) ==
  /\ \A i, j \in 1..Len(s) : s[i] = s[j] => i = j
  /\ \A i \in 1..Len(s) : mem[s[i]].next = IF i < Len(s) THEN s[i + 1] ELSE NULL

\* queue->head is not behind queue->tail, so that what is freed is behind both.
InvEnds(s, h, l) == h \in 1..Len(s) /\ l \in h..Len(s) /\ qhead = s[h] /\ qtail = s[l]

InvHeap(s, h) ==
  /\ \A i \in 1..Len(s) : heap[s[i]] # "fresh"
  /\ \A i \in h..Len(s) : heap[s[i]] = "live"
  /\ \A i \in h + 1..Len(s) : mem[s[i]].element \in Elements /\ ~mem[s[i]].dequeued

\* A node that is not linked yet is as malloc and memset left it.
Unlinked == {"E_tail", "E_next", "E_check", "E_link", "E_help"}
Prepares(t, s) ==
  /\ pc[t] \in Unlinked \cup {"E_malloc"} => loc[t].element \in Elements
  /\ pc[t] \in Unlinked =>
       /\ loc[t].node \in Nodes /\ heap[loc[t].node] = "live"
       /\ \A i \in 1..Len(s) : loc[t].node # s[i]
       /\ mem[loc[t].node] = [Zeroed EXCEPT !.element = loc[t].element]

\* tail was queue->tail once, and next is what follows it, unless somebody linked meanwhile.
Enqueues(t, s, l) ==
  /\ pc[t] \in Unlinked \ {"E_tail"} => \E k \in 1..l : loc[t].tail = s[k]
  /\ pc[t] \in {"E_check", "E_help"} /\ loc[t].tail = qtail =>
       \/ pc[t] = "E_check" /\ loc[t].next = NULL
       \/ l < Len(s) /\ loc[t].next = s[l + 1]
  /\ pc[t] = "E_swing" => \E k \in 1..Len(s) - 1 : loc[t].tail = s[k] /\ loc[t].node = s[k + 1]

\* head was queue->head once, tail was not behind it when it was read after it, and if head
\* still is queue->head then next is what follows it.  A drain of an empty queue saw that.
Decided == {"D_assert", "D_mark", "D_free"}
DrainsFrom(t, s, h, l, k) ==
  /\ loc[t].head = s[k]
  /\ pc[t] \in {"D_next", "D_check"} => \E m \in k..l : loc[t].tail = s[m]
  /\ pc[t] = "D_check" /\ qhead = loc[t].head =>
       \/ loc[t].next = NULL /\ loc[t].tail = loc[t].head /\ sawEmpty[t]
       \/ k < Len(s) /\ loc[t].next = s[k + 1]
  /\ pc[t] = "D_help" => loc[t].tail = loc[t].head /\ k < Len(s) /\ loc[t].next = s[k + 1]
  /\ pc[t] \in {"D_read", "D_cas"} \cup Decided => k < l /\ loc[t].next = s[k + 1]
  /\ pc[t] = "D_cas" /\ qhead = loc[t].head => loc[t].element = mem[loc[t].next].element
  /\ pc[t] \in Decided => k < h
  /\ pc[t] = "D_assert" => ~mem[loc[t].next].dequeued

Drains(t, s, h, l) ==
  /\ pc[t] \in DrainLabels \ {"D_head"} => \E k \in 1..h : DrainsFrom(t, s, h, l, k)
  /\ pc[t] \in DrainLabels \ Decided /\ h = Len(s) => sawEmpty[t]

\* A node that is not linked yet is one thread's, and so is a node that was drained.
InvOwners ==
  /\ \A t, u \in Threads :
       pc[t] \in Unlinked /\ pc[u] \in Unlinked /\ loc[t].node = loc[u].node => t = u
  /\ \A t, u \in Threads :
       pc[t] \in Decided /\ pc[u] \in Decided /\ loc[t].head = loc[u].head => t = u

ListInv(s, h, l) ==
  /\ InvChain(s) /\ InvEnds(s, h, l) /\ InvHeap(s, h)
  /\ \A t \in Threads : Prepares(t, s) /\ Enqueues(t, s, l) /\ Drains(t, s, h, l)

QueueInv == /\ TypeOK /\ ~aborted /\ InvOwners
            /\ \E s \in Chains : \E h, l \in 1..Len(s) : ListInv(s, h, l)

------------------------------------------------------------------------------
(* What makes NoDanglingAccess inductive, for one producer and one         *)
(* consumer, whether memory is recycled or not.                            *)

\* Who calls what.
InvRoles == \A t \in Threads : /\ pc[t] \in EnqueueLabels => t \in Producers
                               /\ pc[t] \in DrainLabels => t \in Consumers

\* Nobody else links: queue->tail is the last node until one is linked behind it, and is
\* so again before the call that linked it returns, unless the consumer was faster.
SoleProducer(p, s, l) ==
  /\ Prepares(p, s)
  /\ pc[p] # "E_help"
  /\ pc[p] # "E_swing" => l = Len(s)
  /\ pc[p] \in {"E_next", "E_check", "E_link"} => loc[p].tail = s[Len(s)]
  /\ pc[p] = "E_check" => loc[p].next = NULL
  /\ pc[p] = "E_swing" =>
       \/ l = Len(s) /\ loc[p].tail # qtail
       \/ l + 1 = Len(s) /\ loc[p].tail = qtail /\ loc[p].node = s[Len(s)]

\* Nobody else frees: the chain starts with the node that the consumer took for the head,
\* and is about to free when it moved the head on to the second.
SoleConsumer(c, s, h, l) ==
  /\ h = IF pc[c] \in Decided THEN 2 ELSE 1
  /\ pc[c] \in DrainLabels \ {"D_head"} => loc[c].head = s[1]
  /\ pc[c] \in {"D_next", "D_check"} => \E m \in 1..l : loc[c].tail = s[m]
  /\ pc[c] = "D_check" =>
       \/ loc[c].next = NULL /\ loc[c].tail = loc[c].head /\ sawEmpty[c]
       \/ Len(s) > 1 /\ loc[c].next = s[2]
  /\ pc[c] = "D_help" => loc[c].tail = loc[c].head /\ Len(s) > 1 /\ loc[c].next = s[2]
  /\ pc[c] \in {"D_read", "D_cas"} \cup Decided => l > 1 /\ loc[c].next = s[2]
  /\ pc[c] = "D_cas" => loc[c].element = mem[loc[c].next].element
  /\ pc[c] = "D_assert" => ~mem[loc[c].next].dequeued
  /\ pc[c] \in DrainLabels \ Decided /\ h = Len(s) => sawEmpty[c]

PairList(s, h, l) ==
  /\ InvChain(s) /\ InvEnds(s, h, l)
  /\ \A i \in 1..Len(s) : heap[s[i]] = "live"
  /\ \A i \in h + 1..Len(s) : mem[s[i]].element \in Elements /\ ~mem[s[i]].dequeued
  /\ \A p \in Producers : SoleProducer(p, s, l)
  /\ \A c \in Consumers : SoleConsumer(c, s, h, l)

PairInv == /\ TypeOK /\ ~aborted /\ InvRoles
           /\ \E s \in Chains : \E h, l \in 1..Len(s) : PairList(s, h, l)
==============================================================================
