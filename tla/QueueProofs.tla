----------------------------- MODULE QueueProofs -----------------------------
(***************************************************************************)
(* Proofs about Queue, for any number of elements and nodes: it never      *)
(* aborts and is the FIFO queue of FifoQueue, for any number of threads    *)
(* when memory is not recycled, and for one producer and one consumer when *)
(* it is; the two then never touch a node that was freed.                  *)
(***************************************************************************)
EXTENDS Queue, Integers, SequenceTheorems, FiniteSetTheorems, WellFoundedInduction, TLAPS

------------------------------------------------------------------------------
(* Smallest members. *)

\* A set of natural numbers that has a member has a smallest one.
LEMMA LeastMember ==
  ASSUME NEW S, S \subseteq Nat, S # {}
  PROVE  \E m \in S : \A k \in S : m <= k
<1>1. \A x, y \in Nat : x < y => <<x, y>> \in OpToRel(<, Nat)
  BY DEF OpToRel
<1>2. \E R : IsWellFoundedOn(R, Nat) /\ \A x, y \in Nat : x < y => <<x, y>> \in R
  BY <1>1, NatLessThanWellFounded, Zenon
<1>3. PICK R : IsWellFoundedOn(R, Nat) /\ \A x, y \in Nat : x < y => <<x, y>> \in R
  BY <1>2
<1>4. PICK m \in S : \A k \in S : ~ (<<k, m>> \in R)
  BY <1>3, WFMin, ZenonT(30)
<1>5. \A k \in S : ~ (k < m)
  BY <1>3, <1>4, Zenon
<1> QED
  BY <1>5

------------------------------------------------------------------------------
(* The assumption on the constants. *)

USE QueueAssumption DEF QueueAssumption

------------------------------------------------------------------------------
(* What an access does to the locals of its thread. *)

Locals == [element : Elements \cup {NULL, Junk}, node : Pointers,
           head : Pointers, tail : Pointers, next : Pointers]

\* The locals that are kept, but for one.
LEMMA SetElement ==
  ASSUME TypeOK, NEW t \in Threads, NEW v \in Elements \cup {NULL, Junk}, Set(t, "element", v)
  PROVE  /\ loc' \in [Threads -> Locals]
         /\ \A u \in Threads : u # t => loc'[u] = loc[u]
         /\ loc'[t].element = v /\ loc'[t].node = loc[t].node /\ loc'[t].head = loc[t].head
         /\ loc'[t].tail = loc[t].tail /\ loc'[t].next = loc[t].next
  BY DEF TypeOK, Set, Locals

LEMMA SetNode ==
  ASSUME TypeOK, NEW t \in Threads, NEW v \in Pointers, Set(t, "node", v)
  PROVE  /\ loc' \in [Threads -> Locals]
         /\ \A u \in Threads : u # t => loc'[u] = loc[u]
         /\ loc'[t].node = v /\ loc'[t].element = loc[t].element /\ loc'[t].head = loc[t].head
         /\ loc'[t].tail = loc[t].tail /\ loc'[t].next = loc[t].next
  BY DEF TypeOK, Set, Locals

LEMMA SetHead ==
  ASSUME TypeOK, NEW t \in Threads, NEW v \in Pointers, Set(t, "head", v)
  PROVE  /\ loc' \in [Threads -> Locals]
         /\ \A u \in Threads : u # t => loc'[u] = loc[u]
         /\ loc'[t].head = v /\ loc'[t].element = loc[t].element /\ loc'[t].node = loc[t].node
         /\ loc'[t].tail = loc[t].tail /\ loc'[t].next = loc[t].next
  BY DEF TypeOK, Set, Locals

LEMMA SetTail ==
  ASSUME TypeOK, NEW t \in Threads, NEW v \in Pointers, Set(t, "tail", v)
  PROVE  /\ loc' \in [Threads -> Locals]
         /\ \A u \in Threads : u # t => loc'[u] = loc[u]
         /\ loc'[t].tail = v /\ loc'[t].element = loc[t].element /\ loc'[t].node = loc[t].node
         /\ loc'[t].head = loc[t].head /\ loc'[t].next = loc[t].next
  BY DEF TypeOK, Set, Locals

LEMMA SetNext ==
  ASSUME TypeOK, NEW t \in Threads, NEW v \in Pointers, Set(t, "next", v)
  PROVE  /\ loc' \in [Threads -> Locals]
         /\ \A u \in Threads : u # t => loc'[u] = loc[u]
         /\ loc'[t].next = v /\ loc'[t].element = loc[t].element /\ loc'[t].node = loc[t].node
         /\ loc'[t].head = loc[t].head /\ loc'[t].tail = loc[t].tail
  BY SMTT(30) DEF TypeOK, Set, Locals

\* Where a thread goes to, nobody else does.
LEMMA Goes ==
  ASSUME TypeOK, NEW t \in Threads, NEW label \in {"idle"} \cup EnqueueLabels \cup DrainLabels,
         Goto(t, label)
  PROVE  /\ pc' \in [Threads -> {"idle"} \cup EnqueueLabels \cup DrainLabels]
         /\ pc'[t] = label /\ \A u \in Threads : u # t => pc'[u] = pc[u]
  BY DEF TypeOK, Goto

\* A thread that returns forgets its locals.
LEMMA Returns ==
  ASSUME TypeOK, NEW t \in Threads, Return(t)
  PROVE  /\ pc' \in [Threads -> {"idle"} \cup EnqueueLabels \cup DrainLabels]
         /\ pc'[t] = "idle" /\ \A u \in Threads : u # t => pc'[u] = pc[u]
         /\ loc' \in [Threads -> Locals]
         /\ \A u \in Threads : u # t => loc'[u] = loc[u]
  BY DEF TypeOK, Return, Goto, NoLocals, Locals, Pointers

\* What a load may give has the type of what it loads.
LEMMA Loads ==
  ASSUME TypeOK, NEW p \in Pointers
  PROVE  /\ Load(p, "next") \subseteq Pointers
         /\ Load(p, "element") \subseteq Elements \cup {NULL, Junk}
  BY DEF TypeOK, Load, Pointers

------------------------------------------------------------------------------
(* Types. *)

\* Every step of a thread keeps the types.
LEMMA TypeStep ==
  ASSUME TypeOK, NEW t \in Threads, Enqueue(t) \/ Drain(t),
         pc[t] = "E_malloc" => loc[t].element \in Elements,
         pc[t] = "E_link" => loc[t].tail \in Nodes, pc[t] \in Decided => loc[t].next \in Nodes
  PROVE  TypeOK'
<1> USE DEF At
<1> DEFINE Node == [element : Elements \cup {NULL}, next : Pointers, dequeued : BOOLEAN]
<1>t. /\ loc[t] \in Locals /\ loc[t].node \in Pointers /\ loc[t].head \in Pointers
      /\ loc[t].tail \in Pointers /\ loc[t].next \in Pointers
      /\ loc[t].element \in Elements \cup {NULL, Junk}
  BY DEF TypeOK, Locals
<1>l. mem \in [Nodes -> Node]
  BY DEF TypeOK
<1>m. ASSUME NEW p \in Nodes, NEW r \in Node, mem' = [mem EXCEPT ![p] = r]
      PROVE  mem' \in [Nodes -> Node]
  BY <1>l, <1>m
<1>h. ASSUME NEW p \in Pointers, NEW v \in {"live", "freed"}, heap' = [heap EXCEPT ![p] = v]
      PROVE  heap' \in [Nodes -> {"fresh", "live", "freed"}]
  BY <1>h DEF TypeOK
<1>1. CASE CallEnqueue(t)
  BY <1>1, SetElement, Goes DEF CallEnqueue, TypeOK, Locals, shared, EnqueueLabels
<1>2. CASE Malloc(t)
  <2>1. PICK n \in Available :
          /\ heap' = [heap EXCEPT ![n] = "live"]
          /\ mem' = [mem EXCEPT ![n] = [Zeroed EXCEPT !.element = loc[t].element]]
          /\ Set(t, "node", n)
    BY <1>2 DEF Malloc
  <2>2. n \in Nodes
    BY DEF Available
  <2>3. loc[t].element \in Elements \cup {NULL}
    BY <1>2 DEF Malloc
  <2>4. [Zeroed EXCEPT !.element = loc[t].element] \in Node
    BY <2>3 DEF Zeroed, Pointers
  <2>5. mem' \in [Nodes -> Node]
    BY <2>1, <2>2, <2>4, <1>m
  <2>6. heap' \in [Nodes -> {"fresh", "live", "freed"}] /\ n \in Pointers
    BY <2>1, <2>2, <1>h DEF Pointers
  <2> QED
    BY <1>2, <2>1, <2>5, <2>6, SetNode, Goes DEF Malloc, TypeOK, Locals, shared, EnqueueLabels
<1>3. CASE MallocFails(t)
  BY <1>3, Returns DEF MallocFails, TypeOK, Locals, shared
<1>4. CASE ReadTail(t)
  BY <1>4, SetTail, Goes DEF ReadTail, TypeOK, Locals, shared, EnqueueLabels
<1>5. CASE ReadTailNext(t)
  BY <1>5, <1>t, Loads, SetNext, Goes DEF ReadTailNext, Faults, TypeOK, Locals, shared, EnqueueLabels
<1>6. CASE CheckTail(t)
  BY <1>6, Goes DEF CheckTail, TypeOK, Locals, shared, EnqueueLabels
<1>7. CASE Link(t)
  <2>1. mem' \in [Nodes -> Node]
    <3>1. mem' = mem \/ mem' = [mem EXCEPT ![loc[t].tail].next = loc[t].node]
      BY <1>7 DEF Link
    <3>2. loc[t].tail \in Nodes
      BY <1>7 DEF Link
    <3>3. [mem[loc[t].tail] EXCEPT !.next = loc[t].node] \in Node
      BY <1>l, <1>t, <3>2
    <3> QED
      BY <1>l, <3>1, <3>2, <3>3
  <2>2. pc' \in [Threads -> {"idle"} \cup EnqueueLabels \cup DrainLabels]
    BY <1>7, Goes DEF Link, EnqueueLabels
  <2> QED
    BY <1>7, <2>1, <2>2 DEF Link, TypeOK
<1>8. CASE HelpTail(t)
  BY <1>8, <1>t, Goes DEF HelpTail, CasTail, TypeOK, Locals, shared, EnqueueLabels
<1>9. CASE SwingTail(t)
  BY <1>9, <1>t, Returns DEF SwingTail, CasTail, TypeOK, Locals, shared, EnqueueLabels
<1>10. CASE CallDrain(t)
  BY <1>10, Goes DEF CallDrain, TypeOK, Locals, shared, DrainLabels
<1>11. CASE ReadHead(t)
  BY <1>11, SetHead, Goes DEF ReadHead, TypeOK, Locals, shared, DrainLabels
<1>12. CASE ReadDrainTail(t)
  BY <1>12, SetTail, Goes DEF ReadDrainTail, TypeOK, Locals, shared, DrainLabels
<1>13. CASE ReadHeadNext(t)
  BY <1>13, <1>t, Loads, SetNext, Goes DEF ReadHeadNext, Faults, TypeOK, Locals, shared, DrainLabels
<1>14. CASE CheckHead(t)
  BY <1>14, Goes DEF CheckHead, TypeOK, Locals, shared, DrainLabels
<1>15. CASE ReturnEmpty(t)
  BY <1>15, Returns DEF ReturnEmpty, TypeOK, Locals, shared
<1>16. CASE HelpDrainTail(t)
  BY <1>16, <1>t, Goes DEF HelpDrainTail, CasTail, TypeOK, Locals, shared, DrainLabels
<1>17. CASE ReadElement(t)
  BY <1>17, <1>t, Loads, SetElement, Goes DEF ReadElement, Faults, TypeOK, Locals, shared, DrainLabels
<1>18. CASE CasHead(t)
  <2>1. pc' \in [Threads -> {"idle"} \cup EnqueueLabels \cup DrainLabels]
    BY <1>18, Goes DEF CasHead, DrainLabels
  <2>2. CASE UNCHANGED <<qhead, sawEmpty>>
    BY <1>18, <2>1, <2>2 DEF CasHead, TypeOK
  <2>3. CASE qhead' = loc[t].next
    <3>1. sawEmpty' \in [Threads -> BOOLEAN]
      BY <1>18, Zenon DEF CasHead, TypeOK
    <3> QED
      BY <1>18, <1>t, <2>1, <2>3, <3>1 DEF CasHead, TypeOK
  <2> QED
    BY <1>18, <2>2, <2>3 DEF CasHead
<1>19. CASE AssertNotDequeued(t)
  <2>1. loc[t].next \in Nodes
    BY <1>19 DEF AssertNotDequeued, Decided
  <2>2. mem[loc[t].next].dequeued \in BOOLEAN
    BY <2>1, <1>l
  <2> QED
    BY <1>19, <2>2, Goes DEF AssertNotDequeued, TypeOK, shared, DrainLabels
<1>20. CASE MarkDequeued(t)
  <2>1. loc[t].next \in Nodes
    BY <1>20 DEF MarkDequeued, Decided
  <2>2. [mem[loc[t].next] EXCEPT !.dequeued = TRUE] \in Node
    BY <1>l, <2>1
  <2>3. mem' \in [Nodes -> Node]
    BY <1>20, <1>l, <2>1, <2>2 DEF MarkDequeued
  <2> QED
    BY <1>20, <2>3, Goes DEF MarkDequeued, TypeOK, DrainLabels
<1>21. CASE FreeHead(t)
  <2>1. heap' \in [Nodes -> {"fresh", "live", "freed"}]
    BY <1>21, <1>t, <1>h DEF FreeHead
  <2> QED
    BY <1>21, <2>1, Returns DEF FreeHead, TypeOK, Locals
<1> QED
  BY <1>1, <1>2, <1>3, <1>4, <1>5, <1>6, <1>7, <1>8, <1>9, <1>10, <1>11, <1>12, <1>13, <1>14,
     <1>15, <1>16, <1>17, <1>18, <1>19, <1>20, <1>21 DEF Enqueue, Drain

------------------------------------------------------------------------------
(* The chain. *)

\* A chain is a sequence of nodes, and has at least one.
LEMMA ChainShape ==
  ASSUME NEW s \in Chains
  PROVE  /\ s \in Seq(Nodes) /\ Len(s) \in Nat \ {0} /\ DOMAIN s = 1..Len(s)
         /\ \A i \in 1..Len(s) : s[i] \in Nodes
<1>1. PICK n \in 1..Cardinality(Nodes) : s \in [1..n -> Nodes]
  BY DEF Chains
<1>2. Cardinality(Nodes) \in Nat
  BY FS_CardinalityType
<1>3. n \in Nat /\ n >= 1
  BY <1>1, <1>2
<1>4. s \in Seq(Nodes) /\ Len(s) = n
  BY <1>1, <1>3
<1> QED
  BY <1>1, <1>3, <1>4

\* What a thread knows of the chain stays true while others move along it or extend it.
LEMMA OthersKeep ==
  ASSUME NEW s \in Chains, NEW h \in 1..Len(s), NEW l \in h..Len(s), InvEnds(s, h, l),
         NEW s2 \in Chains, NEW h2 \in h..Len(s2), NEW l2 \in l..Len(s2),
         \A i, j \in 1..Len(s2) : s2[i] = s2[j] => i = j, InvEnds(s2, h2, l2)',
         Len(s) <= Len(s2), \A i \in 1..Len(s) : s2[i] = s[i],
         NEW u \in Threads, pc'[u] = pc[u], loc'[u] = loc[u], sawEmpty[u] => sawEmpty'[u],
         Prepares(u, s), Enqueues(u, s, l), Drains(u, s, h, l),
         \A i \in 1..Len(s) : mem'[s[i]].element = mem[s[i]].element,
         pc[u] \in Unlinked => /\ \A i \in 1..Len(s2) : loc[u].node # s2[i]
                               /\ mem'[loc[u].node] = mem[loc[u].node]
                               /\ heap'[loc[u].node] = heap[loc[u].node],
         pc[u] = "D_assert" => mem'[loc[u].next].dequeued = mem[loc[u].next].dequeued,
         pc[u] \in DrainLabels \ Decided /\ h2 = Len(s2) => sawEmpty'[u]
  PROVE  Prepares(u, s2)' /\ Enqueues(u, s2, l2)' /\ Drains(u, s2, h2, l2)'
<1>s. /\ Len(s) \in Nat \ {0} /\ Len(s2) \in Nat \ {0} /\ h \in Nat /\ l \in Nat
      /\ h2 \in Nat /\ l2 \in Nat /\ 1 <= h /\ h <= l /\ l <= Len(s)
      /\ h <= h2 /\ l <= l2 /\ h2 <= Len(s2) /\ l2 <= Len(s2)
  BY ChainShape
<1>q. qhead = s[h] /\ qtail = s[l] /\ qhead' = s2[h2] /\ qtail' = s2[l2] /\ h2 <= l2
  BY <1>s DEF InvEnds
<1>1. Prepares(u, s2)'
  BY DEF Prepares
<1>2. Enqueues(u, s2, l2)'
  <2>1. ASSUME pc'[u] \in Unlinked \ {"E_tail"}
        PROVE  \E k \in 1..l2 : loc'[u].tail = s2[k]
    BY <2>1, <1>s DEF Enqueues
  <2>2. ASSUME pc'[u] \in {"E_check", "E_help"}, loc'[u].tail = qtail'
        PROVE  \/ pc'[u] = "E_check" /\ loc'[u].next = NULL
               \/ l2 < Len(s2) /\ loc'[u].next = s2[l2 + 1]
    <3>1. PICK k \in 1..l : loc[u].tail = s[k]
      BY <2>2 DEF Enqueues, Unlinked
    <3>2. k \in 1..Len(s2) /\ l2 \in 1..Len(s2) /\ s2[k] = s2[l2]
      BY <3>1, <2>2, <1>s, <1>q
    <3>3. k = l2 /\ l2 = l
      BY <3>1, <3>2, <1>s
    <3>4. loc[u].tail = qtail
      BY <3>1, <3>3, <1>q
    <3>5. \/ pc[u] = "E_check" /\ loc[u].next = NULL
          \/ l < Len(s) /\ loc[u].next = s[l + 1]
      BY <2>2, <3>4 DEF Enqueues
    <3> QED
      BY <3>3, <3>5, <1>s
  <2>3. ASSUME pc'[u] = "E_swing"
        PROVE  \E k \in 1..Len(s2) - 1 : loc'[u].tail = s2[k] /\ loc'[u].node = s2[k + 1]
    <3>1. PICK k \in 1..Len(s) - 1 : loc[u].tail = s[k] /\ loc[u].node = s[k + 1]
      BY <2>3 DEF Enqueues
    <3>2. k \in 1..Len(s2) - 1 /\ s2[k] = s[k] /\ s2[k + 1] = s[k + 1]
      BY <3>1, <1>s
    <3> QED
      BY <3>1, <3>2
  <2> QED
    BY <2>1, <2>2, <2>3 DEF Enqueues
<1>3. Drains(u, s2, h2, l2)'
  <2>1. ASSUME pc'[u] \in DrainLabels \ {"D_head"}
        PROVE  \E k \in 1..h2 : DrainsFrom(u, s2, h2, l2, k)'
    <3>1. PICK k \in 1..h : DrainsFrom(u, s, h, l, k)
      BY <2>1 DEF Drains
    <3>2. k \in 1..h2 /\ k \in 1..Len(s2) /\ k \in 1..Len(s) /\ k \in Nat /\ s2[k] = s[k]
      BY <3>1, <1>s
    <3>3. loc'[u].head = s2[k]
      BY <3>1, <3>2 DEF DrainsFrom
    <3>4. ASSUME pc'[u] \in {"D_next", "D_check"} PROVE \E m \in k..l2 : loc'[u].tail = s2[m]
      <4>1. PICK m \in k..l : loc[u].tail = s[m]
        BY <3>4, <3>1 DEF DrainsFrom
      <4>2. m \in k..l2 /\ s2[m] = s[m]
        BY <4>1, <3>2, <1>s, SMTT(30)
      <4> QED
        BY <4>1, <4>2
    <3>5. ASSUME qhead' = loc'[u].head PROVE h2 = k /\ qhead = loc[u].head
      <4>1. h2 \in 1..Len(s2) /\ s2[h2] = s2[k]
        BY <3>3, <3>5, <1>s, <1>q
      <4>2. h2 = k
        BY <4>1, <3>2
      <4>3. h = k
        BY <4>2, <3>1, <1>s
      <4> QED
        BY <4>2, <4>3, <3>1, <1>q DEF DrainsFrom
    <3>6. ASSUME pc'[u] = "D_check", qhead' = loc'[u].head
          PROVE  \/ loc'[u].next = NULL /\ loc'[u].tail = loc'[u].head /\ sawEmpty'[u]
                 \/ k < Len(s2) /\ loc'[u].next = s2[k + 1]
      <4>1. \/ loc[u].next = NULL /\ loc[u].tail = loc[u].head /\ sawEmpty[u]
            \/ k < Len(s) /\ loc[u].next = s[k + 1]
        BY <3>1, <3>5, <3>6 DEF DrainsFrom
      <4> QED
        BY <4>1, <3>2, <1>s
    <3>7. ASSUME pc'[u] = "D_help"
          PROVE  loc'[u].tail = loc'[u].head /\ k < Len(s2) /\ loc'[u].next = s2[k + 1]
      <4>1. loc[u].tail = loc[u].head /\ k < Len(s) /\ loc[u].next = s[k + 1]
        BY <3>1, <3>7 DEF DrainsFrom
      <4> QED
        BY <4>1, <3>2, <1>s
    <3>8. ASSUME pc'[u] \in {"D_read", "D_cas"} \cup Decided
          PROVE  k < l /\ k < l2 /\ loc[u].next = s[k + 1] /\ loc'[u].next = s2[k + 1]
      <4>1. k < l /\ loc[u].next = s[k + 1]
        BY <3>1, <3>8 DEF DrainsFrom
      <4> QED
        BY <4>1, <3>2, <1>s
    <3>9. ASSUME pc'[u] = "D_cas", qhead' = loc'[u].head
          PROVE  loc'[u].element = mem'[loc'[u].next].element
      <4>1. loc[u].element = mem[loc[u].next].element
        BY <3>1, <3>5, <3>9 DEF DrainsFrom
      <4>2. k + 1 \in 1..Len(s) /\ loc[u].next = s[k + 1]
        BY <3>8, <3>9, <3>2, <1>s
      <4> QED
        BY <4>1, <4>2
    <3>10. /\ pc'[u] \in Decided => k < h2
           /\ pc'[u] = "D_assert" => ~mem'[loc'[u].next].dequeued
      BY <3>1, <3>2, <1>s DEF DrainsFrom
    <3> QED
      BY <3>2, <3>3, <3>4, <3>6, <3>7, <3>8, <3>9, <3>10 DEF DrainsFrom
  <2>2. pc'[u] \in DrainLabels \ Decided /\ h2 = Len(s2) => sawEmpty'[u]
    OBVIOUS
  <2> QED
    BY <2>1, <2>2 DEF Drains
<1> QED
  BY <1>1, <1>2, <1>3

------------------------------------------------------------------------------
(* Steps that change nothing but the locals of their thread. *)

\* The owners stay the same when a thread that has a node keeps it.
LEMMA OwnersKeep ==
  ASSUME InvOwners, NEW t \in Threads, \A u \in Threads \ {t} : pc'[u] = pc[u] /\ loc'[u] = loc[u],
         pc'[t] \in Unlinked => pc[t] \in Unlinked /\ loc'[t].node = loc[t].node,
         pc'[t] \in Decided => pc[t] \in Decided /\ loc'[t].head = loc[t].head
  PROVE  InvOwners'
<1>1. ASSUME NEW u \in Threads, pc'[u] \in Unlinked PROVE pc[u] \in Unlinked /\ loc'[u].node = loc[u].node
  BY <1>1
<1>2. ASSUME NEW u \in Threads, pc'[u] \in Decided PROVE pc[u] \in Decided /\ loc'[u].head = loc[u].head
  BY <1>2
<1>3. \A u, v \in Threads :
        pc'[u] \in Unlinked /\ pc'[v] \in Unlinked /\ loc'[u].node = loc'[v].node => u = v
  BY <1>1 DEF InvOwners
<1>4. \A u, v \in Threads :
        pc'[u] \in Decided /\ pc'[v] \in Decided /\ loc'[u].head = loc'[v].head => u = v
  BY <1>2 DEF InvOwners
<1> QED
  BY <1>3, <1>4 DEF InvOwners

\* A step that leaves the memory alone is between its thread and the chain.
LEMMA LocalStep ==
  ASSUME NEW s \in Chains, NEW h \in 1..Len(s), NEW l \in 1..Len(s), ListInv(s, h, l),
         NEW t \in Threads, UNCHANGED shared,
         \A u \in Threads \ {t} : pc'[u] = pc[u] /\ loc'[u] = loc[u] /\ sawEmpty'[u] = sawEmpty[u],
         Prepares(t, s)', Enqueues(t, s, l)', Drains(t, s, h, l)'
  PROVE  ListInv(s, h, l)'
<1>1. InvChain(s)' /\ InvEnds(s, h, l)' /\ InvHeap(s, h)'
  BY DEF ListInv, InvChain, InvEnds, InvHeap, shared
<1>2. ASSUME NEW u \in Threads, u # t
      PROVE  Prepares(u, s)' /\ Enqueues(u, s, l)' /\ Drains(u, s, h, l)'
  <2>1. Prepares(u, s) /\ Enqueues(u, s, l) /\ Drains(u, s, h, l)
    BY DEF ListInv
  <2>2. pc'[u] = pc[u] /\ loc'[u] = loc[u] /\ sawEmpty'[u] = sawEmpty[u]
    BY <1>2
  <2>3. Prepares(u, s)'
    BY <2>1, <2>2 DEF Prepares, shared
  <2>4. Enqueues(u, s, l)'
    BY <2>1, <2>2 DEF Enqueues, shared
  <2>5. Drains(u, s, h, l)'
    BY <2>1, <2>2 DEF Drains, DrainsFrom, shared
  <2> QED
    BY <2>3, <2>4, <2>5
<1> QED
  BY <1>1, <1>2 DEF ListInv

\* A thread that is not in a call knows nothing.
LEMMA KnowsNothing ==
  ASSUME NEW s, NEW h, NEW l, NEW t, pc'[t] = "idle"
  PROVE  Prepares(t, s)' /\ Enqueues(t, s, l)' /\ Drains(t, s, h, l)'
  BY DEF Prepares, Enqueues, Drains, Unlinked, DrainLabels

\* The steps of an enqueue that read.
LEMMA EnqueueReads ==
  ASSUME TypeOK, InvOwners, NEW s \in Chains, NEW h \in 1..Len(s), NEW l \in 1..Len(s),
         ListInv(s, h, l), NEW t \in Threads,
         CallEnqueue(t) \/ MallocFails(t) \/ ReadTail(t) \/ ReadTailNext(t) \/ CheckTail(t)
  PROVE  ListInv(s, h, l)' /\ InvOwners'
<1> USE DEF At
<1>s. /\ Len(s) \in Nat \ {0} /\ h \in Nat /\ l \in Nat /\ 1 <= h /\ h <= l /\ l <= Len(s)
      /\ \A i \in 1..Len(s) : s[i] \in Nodes
  BY ChainShape DEF ListInv, InvEnds
<1>t. Prepares(t, s) /\ Enqueues(t, s, l) /\ Drains(t, s, h, l)
  BY DEF ListInv
<1>1. CASE CallEnqueue(t)
  <2>1. PICK e \in Elements : Set(t, "element", e)
    BY <1>1 DEF CallEnqueue
  <2>2. /\ pc'[t] = "E_malloc" /\ loc'[t].element = e
        /\ \A u \in Threads \ {t} : pc'[u] = pc[u] /\ loc'[u] = loc[u] /\ sawEmpty'[u] = sawEmpty[u]
    BY <1>1, <2>1, SetElement, Goes DEF CallEnqueue, EnqueueLabels
  <2>3. Prepares(t, s)' /\ Enqueues(t, s, l)' /\ Drains(t, s, h, l)'
    BY <2>2 DEF Prepares, Enqueues, Drains, Unlinked, DrainLabels
  <2> QED
    BY <1>1, <2>2, <2>3, LocalStep, OwnersKeep DEF CallEnqueue, Unlinked, Decided
<1>2. CASE MallocFails(t)
  <2>1. /\ pc'[t] = "idle"
        /\ \A u \in Threads \ {t} : pc'[u] = pc[u] /\ loc'[u] = loc[u] /\ sawEmpty'[u] = sawEmpty[u]
    BY <1>2, Returns DEF MallocFails
  <2> QED
    BY <1>2, <2>1, KnowsNothing, LocalStep, OwnersKeep DEF MallocFails, Unlinked, Decided
<1>3. CASE ReadTail(t)
  <2>1. /\ pc[t] = "E_tail" /\ pc'[t] = "E_next" /\ loc'[t].tail = qtail
        /\ loc'[t].element = loc[t].element /\ loc'[t].node = loc[t].node
        /\ \A u \in Threads \ {t} : pc'[u] = pc[u] /\ loc'[u] = loc[u] /\ sawEmpty'[u] = sawEmpty[u]
    BY <1>3, SetTail, Goes DEF ReadTail, EnqueueLabels, TypeOK
  <2>2. l \in 1..l /\ qtail = s[l]
    BY <1>s DEF ListInv, InvEnds
  <2>3. Prepares(t, s)'
    BY <1>3, <1>t, <2>1 DEF Prepares, Unlinked, ReadTail, shared
  <2>4. Enqueues(t, s, l)' /\ Drains(t, s, h, l)'
    BY <2>1, <2>2 DEF Enqueues, Drains, Unlinked, DrainLabels
  <2> QED
    BY <1>3, <2>1, <2>3, <2>4, LocalStep, OwnersKeep DEF ReadTail, Unlinked, Decided
<1>4. CASE ReadTailNext(t)
  <2>1. PICK v \in Load(loc[t].tail, "next") : Set(t, "next", v)
    BY <1>4 DEF ReadTailNext
  <2>2. v \in Pointers
    BY <2>1, Loads DEF TypeOK
  <2>3. /\ pc[t] = "E_next" /\ pc'[t] = "E_check" /\ loc'[t].tail = loc[t].tail /\ loc'[t].next = v
        /\ loc'[t].element = loc[t].element /\ loc'[t].node = loc[t].node
        /\ \A u \in Threads \ {t} : pc'[u] = pc[u] /\ loc'[u] = loc[u] /\ sawEmpty'[u] = sawEmpty[u]
    BY <1>4, <2>1, <2>2, SetNext, Goes DEF ReadTailNext, EnqueueLabels
  <2>4. Prepares(t, s)'
    BY <1>4, <1>t, <2>3 DEF Prepares, Unlinked, ReadTailNext, shared
  <2>5. loc[t].tail = qtail => v = NULL \/ (l < Len(s) /\ v = s[l + 1])
    <3>1. qtail = s[l] /\ l \in 1..Len(s) /\ l \in h..Len(s) /\ s[l] \in Nodes
      BY <1>s DEF ListInv, InvEnds
    <3>2. mem[s[l]].next = (IF l < Len(s) THEN s[l + 1] ELSE NULL) /\ heap[s[l]] = "live"
      BY <3>1 DEF ListInv, InvChain, InvHeap
    <3> QED
      BY <2>1, <3>1, <3>2 DEF Load
  <2>6. \E k \in 1..l : loc[t].tail = s[k]
    BY <1>t, <2>3 DEF Enqueues, Unlinked
  <2>7. Enqueues(t, s, l)' /\ Drains(t, s, h, l)'
    BY <1>4, <2>3, <2>5, <2>6 DEF Enqueues, Drains, Unlinked, DrainLabels, ReadTailNext, shared
  <2> QED
    BY <1>4, <2>3, <2>4, <2>7, LocalStep, OwnersKeep DEF ReadTailNext, Unlinked, Decided
<1>5. CASE CheckTail(t)
  <2>1. /\ pc[t] = "E_check" /\ loc' = loc
        /\ pc'[t] = IF loc[t].tail # qtail THEN "E_tail" ELSE IF loc[t].next = NULL THEN "E_link" ELSE "E_help"
        /\ \A u \in Threads \ {t} : pc'[u] = pc[u] /\ loc'[u] = loc[u] /\ sawEmpty'[u] = sawEmpty[u]
    BY <1>5, Goes DEF CheckTail, EnqueueLabels
  <2>2. Prepares(t, s)'
    BY <1>5, <1>t, <2>1 DEF Prepares, Unlinked, CheckTail, shared
  <2>3. \E k \in 1..l : loc[t].tail = s[k]
    BY <1>t, <2>1 DEF Enqueues, Unlinked
  <2>4. loc[t].tail = qtail => loc[t].next = NULL \/ (l < Len(s) /\ loc[t].next = s[l + 1])
    BY <1>t, <2>1 DEF Enqueues
  <2>5. Enqueues(t, s, l)' /\ Drains(t, s, h, l)'
    BY <1>5, <2>1, <2>3, <2>4 DEF Enqueues, Drains, Unlinked, DrainLabels, CheckTail, shared
  <2> QED
    BY <1>5, <2>1, <2>2, <2>5, LocalStep, OwnersKeep DEF CheckTail, Unlinked, Decided
<1> QED
  BY <1>1, <1>2, <1>3, <1>4, <1>5

------------------------------------------------------------------------------
(* What is in the queue. *)

\* A different element in each place of a chain leaves no room for more than there are nodes.
LEMMA ChainFits ==
  ASSUME NEW s \in Seq(Nodes), \A i, j \in 1..Len(s) : s[i] = s[j] => i = j
  PROVE  Len(s) <= Cardinality(Nodes)
<1> DEFINE T == 1..Len(s)
<1>1. Len(s) \in Nat /\ s \in [T -> Nodes]
  BY LenProperties
<1>2. IsFiniteSet(T) /\ Cardinality(T) = Len(s)
  BY <1>1, FS_Interval
<1>3. s \in Injection(T, Nodes)
  BY <1>1 DEF Injection, IsInjective
<1> QED
  BY <1>2, <1>3, FS_Injection

\* From queue->head on there is what the chain has from there on.
LEMMA FromHeadIs ==
  ASSUME NEW s \in Chains, NEW h \in 1..Len(s), NEW l \in 1..Len(s), InvChain(s), InvEnds(s, h, l)
  PROVE  FromHead = [i \in 0..Cardinality(Nodes) |-> IF h + i <= Len(s) THEN s[h + i] ELSE NULL]
<1> DEFINE C == Cardinality(Nodes)
<1> DEFINE Ahead(f) == [i \in 0..C |-> IF i = 0 THEN qhead
                                       ELSE IF f[i - 1] \in Nodes THEN mem[f[i - 1]].next ELSE NULL]
<1> DEFINE g == [i \in 0..C |-> IF h + i <= Len(s) THEN s[h + i] ELSE NULL]
<1>s. /\ Len(s) \in Nat \ {0} /\ h \in Nat /\ 1 <= h /\ h <= Len(s) /\ C \in Nat
      /\ \A i \in 1..Len(s) : s[i] \in Nodes
  BY ChainShape, FS_CardinalityType
<1>1. g = Ahead(g)
  <2>1. ASSUME NEW i \in 0..C PROVE g[i] = Ahead(g)[i]
    <3>1. CASE i = 0
      BY <3>1, <1>s DEF InvEnds
    <3>2. CASE i # 0
      <4>1. i - 1 \in 0..C /\ i \in Nat
        BY <3>2, <1>s
      <4>2. g[i - 1] = IF h + (i - 1) <= Len(s) THEN s[h + (i - 1)] ELSE NULL
        BY <4>1
      <4>3. CASE h + (i - 1) <= Len(s)
        <5>1. h + (i - 1) \in 1..Len(s) /\ (h + (i - 1)) + 1 = h + i
          BY <4>1, <4>3, <1>s
        <5>2. mem[s[h + (i - 1)]].next = IF h + i <= Len(s) THEN s[h + i] ELSE NULL
          BY <5>1, <1>s DEF InvChain
        <5> QED
          BY <3>2, <4>2, <4>3, <5>1, <5>2, <1>s
      <4>4. CASE ~ (h + (i - 1) <= Len(s))
        BY <3>2, <4>1, <4>2, <4>4, <1>s
      <4> QED
        BY <4>3, <4>4
    <3> QED
      BY <3>1, <3>2
  <2> QED
    BY <2>1
<1>2. ASSUME NEW f, f = Ahead(f) PROVE f = g
  <2> DEFINE Bad == {i \in 0..C : f[i] # g[i]}
  <2>1. SUFFICES ASSUME Bad # {} PROVE FALSE
    <3>1. \A i \in 0..C : f[i] = g[i]
      BY <2>1
    <3>2. f = [i \in 0..C |-> f[i]]
      BY <1>2
    <3> QED
      BY <3>1, <3>2
  <2>2. Bad \subseteq Nat
    BY <1>s
  <2>3. PICK i \in Bad : \A k \in Bad : i <= k
    BY <2>1, <2>2, LeastMember
  <2>4. i # 0
    BY <2>3, <1>1, <1>2, <1>s, ZenonT(30)
  <2>5. i - 1 \in 0..C /\ i - 1 < i
    BY <2>3, <2>4, <1>s
  <2>6. f[i - 1] = g[i - 1]
    BY <2>3, <2>5, <1>s
  <2>7. f[i] = Ahead(f)[i] /\ g[i] = Ahead(g)[i]
    BY <1>1, <1>2
  <2> HIDE DEF g
  <2> QED
    BY <2>3, <2>4, <2>6, <2>7
<1>3. FromHead = CHOOSE f : f = Ahead(f)
  BY Zenon DEF FromHead
<1>4. FromHead = Ahead(FromHead)
  <2> HIDE DEF Ahead, g
  <2> QED
    BY <1>1, <1>3, Zenon
<1> QED
  BY <1>2, <1>4

\* The queue has the elements of the nodes behind the dummy.
LEMMA ContentsAre ==
  ASSUME NEW s \in Chains, NEW h \in 1..Len(s), NEW l \in 1..Len(s), InvChain(s), InvEnds(s, h, l)
  PROVE  Contents = [i \in 1..(Len(s) - h) |-> mem[s[h + i]].element]
<1> DEFINE C == Cardinality(Nodes)
<1> DEFINE n == Len(s) - h
<1> DEFINE linked == {i \in 1..C : FromHead[i] \in Nodes}
<1>s. /\ Len(s) \in Nat \ {0} /\ h \in Nat /\ 1 <= h /\ h <= Len(s) /\ C \in Nat /\ n \in Nat
      /\ s \in Seq(Nodes) /\ \A i \in 1..Len(s) : s[i] \in Nodes
  BY ChainShape, FS_CardinalityType
<1>1. Len(s) <= C
  BY <1>s, ChainFits DEF InvChain
<1>2. \A i \in 0..C : FromHead[i] = IF h + i <= Len(s) THEN s[h + i] ELSE NULL
  <2>1. FromHead = [i \in 0..C |-> IF h + i <= Len(s) THEN s[h + i] ELSE NULL]
    BY FromHeadIs, Zenon
  <2> HIDE DEF C
  <2> QED
    BY <2>1
<1>3. linked = 1..n
  <2>1. ASSUME NEW i \in 1..n PROVE i \in linked
    <3>1. i \in 1..C /\ i \in 0..C /\ h + i <= Len(s) /\ h + i \in 1..Len(s)
      BY <1>s, <1>1
    <3> QED
      BY <3>1, <1>2, <1>s
  <2>2. ASSUME NEW i \in linked PROVE i \in 1..n
    <3>1. i \in 0..C /\ i \in 1..C /\ FromHead[i] # NULL
      BY <1>s
    <3>2. h + i <= Len(s)
      BY <3>1, <1>2
    <3> QED
      BY <3>1, <3>2, <1>s
  <2> QED
    BY <2>1, <2>2
<1>4. Cardinality(linked) = n
  <2> HIDE DEF n, linked
  <2>1. Cardinality(1..n) = IF 1 > n THEN 0 ELSE n - 1 + 1
    BY <1>s, FS_Interval
  <2> QED
    BY <1>3, <1>s, <2>1
<1>5. ASSUME NEW i \in 1..n PROVE FromHead[i] = s[h + i]
  <2>1. i \in 0..C /\ h + i <= Len(s)
    BY <1>1, <1>s
  <2> QED
    BY <1>2, <2>1
<1>6. Contents = [i \in 1..Cardinality(linked) |-> mem[FromHead[i]].element]
  BY DEF Contents
<1> QED
  BY <1>4, <1>5, <1>6

\* It is empty when the dummy is the last node.
LEMMA EmptyWhen ==
  ASSUME NEW s \in Chains, NEW h \in 1..Len(s), NEW l \in 1..Len(s), InvChain(s), InvEnds(s, h, l)
  PROVE  Contents = <<>> <=> h = Len(s)
<1>1. /\ Len(s) \in Nat /\ h \in Nat /\ h <= Len(s)
      /\ Contents = [i \in 1..(Len(s) - h) |-> mem[s[h + i]].element]
  BY ChainShape, ContentsAre
<1>2. ASSUME h = Len(s) PROVE Contents = <<>>
  <2> DEFINE S == {mem[s[h + i]].element : i \in 1..(Len(s) - h)}
  <2>1. Len(s) - h = 0
    BY <1>1, <1>2
  <2>2. Contents \in [1..(Len(s) - h) -> S]
    BY <1>1
  <2>3. Contents \in [1..0 -> S]
    BY <2>1, <2>2
  <2> HIDE DEF S
  <2>4. Contents \in Seq(S) /\ Len(Contents) = 0
    BY <2>3
  <2> QED
    BY <2>4, EmptySeq
<1>3. ASSUME h # Len(s) PROVE Contents # <<>>
  <2>1. 1 \in 1..(Len(s) - h)
    BY <1>1, <1>3
  <2>2. 1 \in DOMAIN Contents
    BY <1>1, <2>1
  <2> QED
    BY <2>2
<1> QED
  BY <1>2, <1>3

------------------------------------------------------------------------------
(* The steps of a drain that read. *)

\* What a drain knows after a read is so.
LEMMA DrainReads ==
  ASSUME TypeOK, InvOwners, NEW s \in Chains, NEW h \in 1..Len(s), NEW l \in 1..Len(s),
         ListInv(s, h, l), NEW t \in Threads,
         \/ CallDrain(t) \/ ReadHead(t) \/ ReadDrainTail(t) \/ ReadHeadNext(t) \/ CheckHead(t)
         \/ ReturnEmpty(t) \/ ReadElement(t) \/ AssertNotDequeued(t)
  PROVE  ListInv(s, h, l)' /\ InvOwners'
<1> USE DEF At
<1>s. /\ Len(s) \in Nat \ {0} /\ h \in Nat /\ l \in Nat /\ 1 <= h /\ h <= l /\ l <= Len(s)
      /\ \A i \in 1..Len(s) : s[i] \in Nodes
  BY ChainShape DEF ListInv, InvEnds
<1>t. Prepares(t, s) /\ Enqueues(t, s, l) /\ Drains(t, s, h, l)
  BY DEF ListInv
<1>q. /\ qhead = s[h] /\ qtail = s[l] /\ \A i, j \in 1..Len(s) : s[i] = s[j] => i = j
      /\ mem[s[h]].next = (IF h < Len(s) THEN s[h + 1] ELSE NULL) /\ heap[s[h]] = "live"
  BY <1>s DEF ListInv, InvEnds, InvChain, InvHeap
<1>n. ASSUME pc'[t] \in DrainLabels PROVE Prepares(t, s)' /\ Enqueues(t, s, l)'
  BY <1>n DEF Prepares, Enqueues, Unlinked, DrainLabels
<1>1. CASE CallDrain(t)
  <2>1. /\ pc'[t] = "D_head" /\ sawEmpty'[t] = (Contents = <<>>)
        /\ \A u \in Threads \ {t} : pc'[u] = pc[u] /\ loc'[u] = loc[u] /\ sawEmpty'[u] = sawEmpty[u]
    BY <1>1, Goes DEF CallDrain, DrainLabels, TypeOK
  <2>2. h = Len(s) => sawEmpty'[t]
    BY <2>1, EmptyWhen DEF ListInv
  <2>3. Drains(t, s, h, l)' /\ pc'[t] \in DrainLabels
    BY <2>1, <2>2 DEF Drains, DrainLabels
  <2> QED
    BY <1>1, <1>n, <2>1, <2>3, LocalStep, OwnersKeep DEF CallDrain, Unlinked, Decided
<1>2. CASE ReadHead(t)
  <2>1. /\ pc[t] = "D_head" /\ pc'[t] = "D_tail" /\ loc'[t].head = qhead /\ sawEmpty' = sawEmpty
        /\ \A u \in Threads \ {t} : pc'[u] = pc[u] /\ loc'[u] = loc[u] /\ sawEmpty'[u] = sawEmpty[u]
    BY <1>2, SetHead, Goes DEF ReadHead, DrainLabels, TypeOK
  <2>2. h = Len(s) => sawEmpty[t]
    BY <1>t, <2>1 DEF Drains, Decided, DrainLabels
  <2>3. DrainsFrom(t, s, h, l, h)' /\ h \in 1..h
    BY <2>1, <1>q, <1>s DEF DrainsFrom, Decided
  <2>4. Drains(t, s, h, l)' /\ pc'[t] \in DrainLabels
    BY <2>1, <2>2, <2>3 DEF Drains, DrainLabels
  <2> QED
    BY <1>2, <1>n, <2>1, <2>4, LocalStep, OwnersKeep DEF ReadHead, Unlinked, Decided
<1>3. CASE ReadDrainTail(t)
  <2>1. /\ pc[t] = "D_tail" /\ pc'[t] = "D_next" /\ loc'[t].head = loc[t].head /\ loc'[t].tail = qtail
        /\ sawEmpty' = sawEmpty
        /\ \A u \in Threads \ {t} : pc'[u] = pc[u] /\ loc'[u] = loc[u] /\ sawEmpty'[u] = sawEmpty[u]
    BY <1>3, SetTail, Goes DEF ReadDrainTail, DrainLabels, TypeOK
  <2>2. h = Len(s) => sawEmpty[t]
    BY <1>t, <2>1 DEF Drains, Decided, DrainLabels
  <2>3. PICK k \in 1..h : DrainsFrom(t, s, h, l, k)
    BY <1>t, <2>1 DEF Drains, DrainLabels
  <2>4. l \in k..l
    BY <1>s
  <2>5. DrainsFrom(t, s, h, l, k)'
    BY <2>1, <2>3, <2>4, <1>q DEF DrainsFrom, Decided
  <2>6. Drains(t, s, h, l)' /\ pc'[t] \in DrainLabels
    BY <2>1, <2>2, <2>5 DEF Drains, DrainLabels
  <2> QED
    BY <1>3, <1>n, <2>1, <2>6, LocalStep, OwnersKeep DEF ReadDrainTail, Unlinked, Decided
<1>4. CASE ReadHeadNext(t)
  <2>1. PICK v \in Load(loc[t].head, "next") : Set(t, "next", v)
    BY <1>4 DEF ReadHeadNext
  <2>2. v \in Pointers
    BY <2>1, Loads DEF TypeOK
  <2>3. /\ pc[t] = "D_next" /\ pc'[t] = "D_check" /\ loc'[t].head = loc[t].head
        /\ loc'[t].tail = loc[t].tail /\ loc'[t].next = v
        /\ UNCHANGED <<sawEmpty, qhead>>
        /\ \A u \in Threads \ {t} : pc'[u] = pc[u] /\ loc'[u] = loc[u] /\ sawEmpty'[u] = sawEmpty[u]
    BY <1>4, <2>1, <2>2, SetNext, Goes DEF ReadHeadNext, DrainLabels, shared
  <2>4. h = Len(s) => sawEmpty[t]
    BY <1>t, <2>3 DEF Drains, Decided, DrainLabels
  <2>5. PICK k \in 1..h : DrainsFrom(t, s, h, l, k)
    BY <1>t, <2>3 DEF Drains, DrainLabels
  <2>6. PICK m \in k..l : loc[t].tail = s[m]
    BY <2>3, <2>5 DEF DrainsFrom
  <2>7. ASSUME qhead = loc[t].head
        PROVE  \/ v = NULL /\ loc[t].tail = loc[t].head /\ sawEmpty[t]
               \/ k < Len(s) /\ v = s[k + 1]
    <3>1. loc[t].head = s[k] /\ k \in 1..Len(s) /\ h \in 1..Len(s)
      BY <2>5, <1>s DEF DrainsFrom
    <3>2. k = h
      BY <3>1, <2>7, <1>q
    <3>3. v = mem[s[h]].next
      BY <2>1, <2>7, <1>q, <1>s DEF Load
    <3>4. CASE h < Len(s)
      BY <3>2, <3>3, <3>4, <1>q
    <3>5. CASE h = Len(s)
      <4>1. m = h
        BY <2>6, <3>2, <3>5, <1>s
      <4> QED
        BY <4>1, <3>1, <3>2, <3>3, <3>5, <2>4, <2>6, <1>q
    <3> QED
      BY <3>4, <3>5, <1>s
  <2>8. DrainsFrom(t, s, h, l, k)'
    BY <2>3, <2>5, <2>6, <2>7 DEF DrainsFrom, Decided
  <2>9. Drains(t, s, h, l)' /\ pc'[t] \in DrainLabels
    BY <2>3, <2>4, <2>8 DEF Drains, DrainLabels
  <2> QED
    BY <1>4, <1>n, <2>3, <2>9, LocalStep, OwnersKeep DEF ReadHeadNext, Unlinked, Decided
<1>5. CASE CheckHead(t)
  <2>1. /\ pc[t] = "D_check" /\ loc' = loc /\ UNCHANGED <<sawEmpty, qhead>>
        /\ pc'[t] = IF qhead # loc[t].head THEN "D_head"
                    ELSE IF loc[t].head = loc[t].tail THEN "D_help" ELSE "D_read"
        /\ ~ (qhead = loc[t].head /\ loc[t].head = loc[t].tail /\ loc[t].next = NULL)
        /\ \A u \in Threads \ {t} : pc'[u] = pc[u] /\ loc'[u] = loc[u] /\ sawEmpty'[u] = sawEmpty[u]
    BY <1>5, Goes DEF CheckHead, DrainLabels, shared
  <2>2. h = Len(s) => sawEmpty[t]
    BY <1>t, <2>1 DEF Drains, Decided, DrainLabels
  <2>3. PICK k \in 1..h : DrainsFrom(t, s, h, l, k)
    BY <1>t, <2>1 DEF Drains, DrainLabels
  <2>4. PICK m \in k..l : loc[t].tail = s[m]
    BY <2>1, <2>3 DEF DrainsFrom
  <2>5. loc[t].head = s[k]
    BY <2>3 DEF DrainsFrom
  <2>6. qhead = loc[t].head => k < Len(s) /\ loc[t].next = s[k + 1]
    BY <2>1, <2>3 DEF DrainsFrom
  <2>7. loc[t].head # loc[t].tail => k < l
    BY <2>4, <2>5, <1>s
  <2>8. pc'[t] # "D_head" => DrainsFrom(t, s, h, l, k)'
    BY <2>1, <2>5, <2>6, <2>7 DEF DrainsFrom, Decided
  <2>9. Drains(t, s, h, l)' /\ pc'[t] \in DrainLabels
    BY <2>1, <2>2, <2>8 DEF Drains, DrainLabels
  <2> QED
    BY <1>5, <1>n, <2>1, <2>9, LocalStep, OwnersKeep DEF CheckHead, Unlinked, Decided
<1>6. CASE ReturnEmpty(t)
  <2>1. /\ pc'[t] = "idle"
        /\ \A u \in Threads \ {t} : pc'[u] = pc[u] /\ loc'[u] = loc[u] /\ sawEmpty'[u] = sawEmpty[u]
    BY <1>6, Returns DEF ReturnEmpty, TypeOK
  <2> QED
    BY <1>6, <2>1, KnowsNothing, LocalStep, OwnersKeep DEF ReturnEmpty, Unlinked, Decided
<1>7. CASE ReadElement(t)
  <2>1. PICK v \in Load(loc[t].next, "element") : Set(t, "element", v)
    BY <1>7 DEF ReadElement
  <2>2. v \in Elements \cup {NULL, Junk}
    BY <2>1, Loads DEF TypeOK
  <2>3. /\ pc[t] = "D_read" /\ pc'[t] = "D_cas" /\ loc'[t].head = loc[t].head
        /\ loc'[t].next = loc[t].next /\ loc'[t].element = v
        /\ UNCHANGED <<sawEmpty, qhead, mem>>
        /\ \A u \in Threads \ {t} : pc'[u] = pc[u] /\ loc'[u] = loc[u] /\ sawEmpty'[u] = sawEmpty[u]
    BY <1>7, <2>1, <2>2, SetElement, Goes DEF ReadElement, DrainLabels, shared
  <2>4. h = Len(s) => sawEmpty[t]
    BY <1>t, <2>3 DEF Drains, Decided, DrainLabels
  <2>5. PICK k \in 1..h : DrainsFrom(t, s, h, l, k)
    BY <1>t, <2>3 DEF Drains, DrainLabels
  <2>6. loc[t].head = s[k] /\ k < l /\ loc[t].next = s[k + 1]
    BY <2>3, <2>5 DEF DrainsFrom
  <2>7. ASSUME qhead = loc[t].head PROVE v = mem[loc[t].next].element
    <3>1. k = h
      <4>1. k \in 1..Len(s) /\ s[k] = s[h]
        BY <2>6, <2>7, <1>q, <1>s
      <4> QED
        BY <4>1, <1>q
    <3>2. k + 1 \in h..Len(s) /\ k + 1 \in 1..Len(s)
      BY <3>1, <2>6, <1>s
    <3>3. heap[s[k + 1]] = "live" /\ s[k + 1] \in Nodes
      BY <3>2, <1>s DEF ListInv, InvHeap
    <3> QED
      BY <2>1, <2>6, <3>3 DEF Load
  <2>8. DrainsFrom(t, s, h, l, k)'
    BY <2>3, <2>6, <2>7 DEF DrainsFrom, Decided
  <2>9. Drains(t, s, h, l)' /\ pc'[t] \in DrainLabels
    BY <2>3, <2>4, <2>8 DEF Drains, DrainLabels
  <2> QED
    BY <1>7, <1>n, <2>3, <2>9, LocalStep, OwnersKeep DEF ReadElement, Unlinked, Decided
<1>8. CASE AssertNotDequeued(t)
  <2>1. /\ pc[t] = "D_assert" /\ pc'[t] = "D_mark" /\ loc' = loc
        /\ \A u \in Threads \ {t} : pc'[u] = pc[u] /\ loc'[u] = loc[u] /\ sawEmpty'[u] = sawEmpty[u]
    BY <1>8, Goes DEF AssertNotDequeued, DrainLabels
  <2>2. PICK k \in 1..h : DrainsFrom(t, s, h, l, k)
    BY <1>t, <2>1 DEF Drains, DrainLabels
  <2>3. DrainsFrom(t, s, h, l, k)'
    BY <2>1, <2>2 DEF DrainsFrom, Decided
  <2>4. Drains(t, s, h, l)' /\ pc'[t] \in DrainLabels
    BY <2>1, <2>3 DEF Drains, DrainLabels, Decided
  <2> QED
    BY <1>8, <1>n, <2>1, <2>4, LocalStep, OwnersKeep DEF AssertNotDequeued, Unlinked, Decided
<1> QED
  BY <1>1, <1>2, <1>3, <1>4, <1>5, <1>6, <1>7, <1>8

------------------------------------------------------------------------------
(* Steps that move queue->tail. *)

\* queue->tail may move along the chain at any time.
LEMMA TailMoves ==
  ASSUME NEW s \in Chains, NEW h \in 1..Len(s), NEW l \in 1..Len(s), ListInv(s, h, l),
         NEW l2 \in l..Len(s), qtail' = s[l2], UNCHANGED <<qhead, mem, heap, sawEmpty>>,
         NEW t \in Threads, \A u \in Threads \ {t} : pc'[u] = pc[u] /\ loc'[u] = loc[u],
         Prepares(t, s)', Enqueues(t, s, l2)', Drains(t, s, h, l2)'
  PROVE  ListInv(s, h, l2)'
<1>s. /\ Len(s) \in Nat \ {0} /\ h \in Nat /\ l \in Nat /\ 1 <= h /\ h <= l /\ l <= Len(s)
      /\ l2 \in Nat /\ l <= l2 /\ l2 <= Len(s) /\ l \in h..Len(s) /\ h \in h..Len(s)
      /\ InvEnds(s, h, l)
  BY ChainShape DEF ListInv, InvEnds
<1>1. InvChain(s)' /\ InvHeap(s, h)'
  BY DEF ListInv, InvChain, InvHeap
<1>2. InvEnds(s, h, l2)'
  BY <1>s DEF InvEnds
<1>3. ASSUME NEW u \in Threads, u # t
      PROVE  Prepares(u, s)' /\ Enqueues(u, s, l2)' /\ Drains(u, s, h, l2)'
  <2>1. Prepares(u, s) /\ Enqueues(u, s, l) /\ Drains(u, s, h, l)
    BY DEF ListInv
  <2>2. pc[u] \in Unlinked => \A i \in 1..Len(s) : loc[u].node # s[i]
    BY <2>1 DEF Prepares
  <2>3. pc[u] \in DrainLabels \ Decided /\ h = Len(s) => sawEmpty'[u]
    BY <2>1 DEF Drains
  <2>4. \A i, j \in 1..Len(s) : s[i] = s[j] => i = j
    BY DEF ListInv, InvChain
  <2>5. pc'[u] = pc[u] /\ loc'[u] = loc[u]
    BY <1>3
  <2> QED
    BY <1>s, <1>2, <2>1, <2>2, <2>3, <2>4, <2>5, OthersKeep
<1> QED
  BY <1>1, <1>2, <1>3 DEF ListInv

\* When the CAS of tail succeeds it moves to the next node.
LEMMA TailSteps ==
  ASSUME TypeOK, InvOwners, NEW s \in Chains, NEW h \in 1..Len(s), NEW l \in 1..Len(s),
         ListInv(s, h, l), NEW t \in Threads, HelpTail(t) \/ SwingTail(t) \/ HelpDrainTail(t)
  PROVE  (\E l2 \in 1..Len(s) : ListInv(s, h, l2)') /\ InvOwners'
<1> USE DEF At
<1>s. /\ Len(s) \in Nat \ {0} /\ h \in Nat /\ l \in Nat /\ 1 <= h /\ h <= l /\ l <= Len(s)
      /\ qtail = s[l] /\ \A i, j \in 1..Len(s) : s[i] = s[j] => i = j
  BY ChainShape DEF ListInv, InvEnds, InvChain
<1>t. Prepares(t, s) /\ Enqueues(t, s, l) /\ Drains(t, s, h, l)
  BY DEF ListInv
<1>1. CASE HelpTail(t)
  <2>1. /\ pc[t] = "E_help" /\ pc'[t] = "E_tail" /\ loc' = loc /\ UNCHANGED <<mem, heap>>
        /\ \A u \in Threads \ {t} : pc'[u] = pc[u] /\ loc'[u] = loc[u]
    BY <1>1, Goes DEF HelpTail, EnqueueLabels
  <2>2. qtail = loc[t].tail => l < Len(s) /\ loc[t].next = s[l + 1]
    BY <1>t, <2>1 DEF Enqueues
  <2>3. PICK l2 \in l..Len(s) : qtail' = s[l2]
    <3>1. CASE qtail = loc[t].tail
      <4>1. l + 1 \in l..Len(s) /\ qtail' = s[l + 1]
        BY <1>1, <1>s, <2>2, <3>1 DEF HelpTail, CasTail
      <4> QED
        BY <4>1
    <3>2. CASE qtail # loc[t].tail
      <4>1. l \in l..Len(s) /\ qtail' = s[l]
        BY <1>1, <1>s, <3>2 DEF HelpTail, CasTail
      <4> QED
        BY <4>1
    <3> QED
      BY <3>1, <3>2
  <2>4. Prepares(t, s)' /\ Enqueues(t, s, l2)' /\ Drains(t, s, h, l2)'
    BY <1>t, <2>1 DEF Prepares, Enqueues, Drains, Unlinked, DrainLabels
  <2>5. ListInv(s, h, l2)'
    BY <1>1, <2>1, <2>3, <2>4, TailMoves DEF HelpTail
  <2> QED
    BY <1>s, <2>1, <2>5, OwnersKeep DEF Unlinked, Decided
<1>2. CASE SwingTail(t)
  <2>1. /\ pc[t] = "E_swing" /\ pc'[t] = "idle"
        /\ \A u \in Threads \ {t} : pc'[u] = pc[u] /\ loc'[u] = loc[u]
    BY <1>2, Returns DEF SwingTail
  <2>2. PICK k \in 1..Len(s) - 1 : loc[t].tail = s[k] /\ loc[t].node = s[k + 1]
    BY <1>t, <2>1 DEF Enqueues
  <2>3. PICK l2 \in l..Len(s) : qtail' = s[l2]
    <3>1. CASE qtail = loc[t].tail
      <4>1. k \in 1..Len(s) /\ s[k] = s[l]
        BY <1>s, <2>2, <3>1
      <4>2. k = l
        BY <4>1, <1>s
      <4>3. l + 1 \in l..Len(s) /\ qtail' = s[l + 1]
        BY <1>2, <1>s, <2>2, <3>1, <4>2 DEF SwingTail, CasTail
      <4> QED
        BY <4>3
    <3>2. CASE qtail # loc[t].tail
      <4>1. l \in l..Len(s) /\ qtail' = s[l]
        BY <1>2, <1>s, <3>2 DEF SwingTail, CasTail
      <4> QED
        BY <4>1
    <3> QED
      BY <3>1, <3>2
  <2>4. ListInv(s, h, l2)'
    BY <1>2, <2>1, <2>3, KnowsNothing, TailMoves DEF SwingTail
  <2> QED
    BY <1>s, <2>1, <2>4, OwnersKeep DEF Unlinked, Decided
<1>3. CASE HelpDrainTail(t)
  <2>1. /\ pc[t] = "D_help" /\ pc'[t] = "D_head" /\ loc' = loc /\ sawEmpty' = sawEmpty
        /\ \A u \in Threads \ {t} : pc'[u] = pc[u] /\ loc'[u] = loc[u]
    BY <1>3, Goes DEF HelpDrainTail, DrainLabels
  <2>2. PICK k \in 1..h : DrainsFrom(t, s, h, l, k)
    BY <1>t, <2>1 DEF Drains, DrainLabels
  <2>3. loc[t].tail = s[k] /\ k < Len(s) /\ loc[t].next = s[k + 1]
    BY <2>1, <2>2 DEF DrainsFrom
  <2>4. PICK l2 \in l..Len(s) : qtail' = s[l2]
    <3>1. CASE qtail = loc[t].tail
      <4>1. k \in 1..Len(s) /\ s[k] = s[l]
        BY <1>s, <2>3, <3>1
      <4>2. k = l
        BY <4>1, <1>s
      <4>3. l + 1 \in l..Len(s) /\ qtail' = s[l + 1]
        BY <1>3, <1>s, <2>3, <3>1, <4>2 DEF HelpDrainTail, CasTail
      <4> QED
        BY <4>3
    <3>2. CASE qtail # loc[t].tail
      <4>1. l \in l..Len(s) /\ qtail' = s[l]
        BY <1>3, <1>s, <3>2 DEF HelpDrainTail, CasTail
      <4> QED
        BY <4>1
    <3> QED
      BY <3>1, <3>2
  <2>5. h = Len(s) => sawEmpty[t]
    BY <1>t, <2>1 DEF Drains, Decided, DrainLabels
  <2>6. Prepares(t, s)' /\ Enqueues(t, s, l2)' /\ Drains(t, s, h, l2)'
    BY <2>1, <2>5 DEF Prepares, Enqueues, Drains, Unlinked, DrainLabels
  <2>7. ListInv(s, h, l2)'
    BY <1>3, <2>1, <2>4, <2>6, TailMoves DEF HelpDrainTail
  <2> QED
    BY <1>s, <2>1, <2>7, OwnersKeep DEF Unlinked, Decided
<1> QED
  BY <1>1, <1>2, <1>3

------------------------------------------------------------------------------
(* Steps that change the memory. *)

\* A node malloc returns has never been linked, and no other thread has it.
LEMMA MallocStep ==
  ASSUME TypeOK, InvOwners, ~Reuse, NEW s \in Chains, NEW h \in 1..Len(s), NEW l \in 1..Len(s),
         ListInv(s, h, l), NEW t \in Threads, Malloc(t)
  PROVE  ListInv(s, h, l)' /\ InvOwners'
<1> USE DEF At
<1>s. /\ Len(s) \in Nat \ {0} /\ h \in Nat /\ l \in Nat /\ 1 <= h /\ h <= l /\ l <= Len(s)
      /\ l \in h..Len(s) /\ h \in h..Len(s) /\ l \in l..Len(s) /\ InvEnds(s, h, l)
      /\ \A i \in 1..Len(s) : s[i] \in Nodes
  BY ChainShape DEF ListInv, InvEnds
<1>1. PICK n \in Available :
        /\ heap' = [heap EXCEPT ![n] = "live"]
        /\ mem' = [mem EXCEPT ![n] = [Zeroed EXCEPT !.element = loc[t].element]]
        /\ Set(t, "node", n)
  BY DEF Malloc
<1>2. n \in Nodes /\ heap[n] = "fresh" /\ n \in Pointers
  <2>1. n \in {m \in Nodes : heap[m] = "fresh"}
    BY <1>1, Zenon DEF Available
  <2> QED
    BY <2>1 DEF Pointers
<1>3. \A x \in Nodes : x # n => mem'[x] = mem[x] /\ heap'[x] = heap[x]
  BY <1>1 DEF TypeOK
<1>4. heap'[n] = "live" /\ mem'[n] = [Zeroed EXCEPT !.element = loc[t].element]
  BY <1>1, <1>2 DEF TypeOK
<1>5. /\ pc[t] = "E_malloc" /\ pc'[t] = "E_tail" /\ loc'[t].node = n
      /\ loc'[t].element = loc[t].element /\ UNCHANGED <<qhead, qtail, sawEmpty>>
      /\ \A u \in Threads \ {t} : pc'[u] = pc[u] /\ loc'[u] = loc[u]
  BY <1>1, <1>2, SetNode, Goes DEF Malloc, EnqueueLabels
<1>6. \A i \in 1..Len(s) : s[i] # n
  BY <1>2 DEF ListInv, InvHeap
<1>7. \A i \in 1..Len(s) : mem'[s[i]] = mem[s[i]] /\ heap'[s[i]] = heap[s[i]]
  BY <1>3, <1>6, <1>s
<1>8. InvChain(s)' /\ InvEnds(s, h, l)' /\ InvHeap(s, h)'
  <2>1. InvChain(s)'
    BY <1>7 DEF ListInv, InvChain
  <2>2. \A i \in h..Len(s) : i \in 1..Len(s)
    BY <1>s
  <2>3. \A i \in h + 1..Len(s) : i \in 1..Len(s)
    BY <1>s
  <2>4. InvHeap(s, h)'
    BY <1>7, <2>2, <2>3 DEF ListInv, InvHeap
  <2> QED
    BY <1>5, <1>s, <2>1, <2>4 DEF InvEnds
<1>9. ASSUME NEW u \in Threads, pc[u] \in Unlinked PROVE loc[u].node \in Nodes /\ loc[u].node # n
  BY <1>2, <1>9 DEF ListInv, Prepares
<1>10. ASSUME NEW u \in Threads, u # t
       PROVE  Prepares(u, s)' /\ Enqueues(u, s, l)' /\ Drains(u, s, h, l)'
  <2>1. Prepares(u, s) /\ Enqueues(u, s, l) /\ Drains(u, s, h, l)
    BY DEF ListInv
  <2>2. pc[u] \in Unlinked => /\ \A i \in 1..Len(s) : loc[u].node # s[i]
                              /\ mem'[loc[u].node] = mem[loc[u].node]
                              /\ heap'[loc[u].node] = heap[loc[u].node]
    BY <1>3, <1>9, <2>1 DEF Prepares
  <2>3. pc[u] \in DrainLabels \ Decided /\ h = Len(s) => sawEmpty'[u]
    BY <1>5, <2>1 DEF Drains
  <2>4. \A i, j \in 1..Len(s) : s[i] = s[j] => i = j
    BY DEF ListInv, InvChain
  <2>5. pc'[u] = pc[u] /\ loc'[u] = loc[u] /\ (sawEmpty[u] => sawEmpty'[u])
    BY <1>5, <1>10
  <2>6. \A i \in 1..Len(s) : mem'[s[i]].element = mem[s[i]].element
    BY <1>7
  <2>7. pc[u] = "D_assert" => mem'[loc[u].next].dequeued = mem[loc[u].next].dequeued
    <3> SUFFICES ASSUME pc[u] = "D_assert" PROVE mem'[loc[u].next].dequeued = mem[loc[u].next].dequeued
      OBVIOUS
    <3>1. PICK k \in 1..h : DrainsFrom(u, s, h, l, k)
      BY <2>1 DEF Drains, DrainLabels
    <3>2. k < l /\ loc[u].next = s[k + 1]
      BY <3>1 DEF DrainsFrom, Decided
    <3>3. k + 1 \in 1..Len(s)
      BY <3>2, <1>s
    <3> QED
      BY <3>2, <3>3, <1>7
  <2> QED
    BY <1>s, <1>8, <2>1, <2>2, <2>3, <2>4, <2>5, <2>6, <2>7, OthersKeep
<1>11. Prepares(t, s)' /\ Enqueues(t, s, l)' /\ Drains(t, s, h, l)'
  <2>1. loc[t].element \in Elements
    BY <1>5 DEF ListInv, Prepares
  <2> QED
    BY <2>1, <1>2, <1>4, <1>5, <1>6 DEF Prepares, Enqueues, Drains, Unlinked, DrainLabels
<1>12. InvOwners'
  <2>1. ASSUME NEW u \in Threads, NEW v \in Threads, pc'[u] \in Unlinked, pc'[v] \in Unlinked,
               loc'[u].node = loc'[v].node
        PROVE  u = v
    <3>1. CASE u # t /\ v # t
      BY <2>1, <3>1, <1>5 DEF InvOwners
    <3>2. CASE u = t /\ v # t
      BY <2>1, <3>2, <1>5, <1>9
    <3>3. CASE u # t /\ v = t
      BY <2>1, <3>3, <1>5, <1>9
    <3> QED
      BY <3>1, <3>2, <3>3
  <2>2. ASSUME NEW u \in Threads, NEW v \in Threads, pc'[u] \in Decided, pc'[v] \in Decided,
               loc'[u].head = loc'[v].head
        PROVE  u = v
    <3>1. u # t /\ v # t
      BY <2>2, <1>5 DEF Decided
    <3> QED
      BY <2>2, <3>1, <1>5 DEF InvOwners
  <2> QED
    BY <2>1, <2>2 DEF InvOwners
<1> QED
  BY <1>8, <1>10, <1>11, <1>12 DEF ListInv

\* What a drain that has its element, or is about to, knows of the node it was in.
LEMMA NextIs ==
  ASSUME NEW s \in Chains, NEW h \in 1..Len(s), NEW l \in 1..Len(s), ListInv(s, h, l),
         NEW t \in Threads, pc[t] \in {"D_cas"} \cup Decided
  PROVE  \E k \in 1..Len(s) : /\ k < l /\ k + 1 \in 1..Len(s) /\ k <= h
                              /\ loc[t].head = s[k] /\ loc[t].next = s[k + 1]
                              /\ pc[t] \in Decided => k < h
                              /\ pc[t] = "D_assert" => ~mem[loc[t].next].dequeued
                              /\ pc[t] = "D_cas" /\ qhead = loc[t].head =>
                                   loc[t].element = mem[loc[t].next].element
<1>s. /\ Len(s) \in Nat \ {0} /\ h \in Nat /\ l \in Nat /\ 1 <= h /\ h <= l /\ l <= Len(s)
  BY ChainShape DEF ListInv, InvEnds
<1>1. Drains(t, s, h, l) /\ pc[t] \in DrainLabels \ {"D_head"}
  BY DEF ListInv, Decided, DrainLabels
<1>2. PICK k \in 1..h : DrainsFrom(t, s, h, l, k)
  BY <1>1 DEF Drains
<1> QED
  BY <1>s, <1>2 DEF DrainsFrom

\* The CAS of tail->next puts the node at the end of the chain.
LEMMA Links ==
  ASSUME TypeOK, InvOwners, NEW s \in Chains, NEW h \in 1..Len(s), NEW l \in 1..Len(s),
         ListInv(s, h, l), NEW t \in Threads, Link(t), pc'[t] = "E_swing",
         NEW s2, s2 = Append(s, loc[t].node)
  PROVE  /\ s2 \in Chains /\ h \in 1..Len(s2) /\ l \in 1..Len(s2) /\ ListInv(s2, h, l)'
         /\ mem' = [mem EXCEPT ![s[Len(s)]].next = loc[t].node] /\ loc[t].node \in Nodes
<1> USE DEF At
<1> DEFINE n == Len(s)
<1>s. /\ n \in Nat \ {0} /\ h \in Nat /\ l \in Nat /\ 1 <= h /\ h <= l /\ l <= n
      /\ InvEnds(s, h, l) /\ l \in h..n /\ n \in 1..n /\ s \in Seq(Nodes)
      /\ \A i \in 1..n : s[i] \in Nodes
      /\ \A i, j \in 1..n : s[i] = s[j] => i = j
  BY ChainShape DEF ListInv, InvEnds, InvChain
<1>t. Prepares(t, s) /\ Enqueues(t, s, l) /\ Drains(t, s, h, l)
  BY DEF ListInv
<1>1. /\ pc[t] = "E_link" /\ loc' = loc /\ UNCHANGED <<qhead, qtail, heap, sawEmpty>>
      /\ \A u \in Threads \ {t} : pc'[u] = pc[u] /\ loc'[u] = loc[u]
  BY Goes DEF Link, EnqueueLabels
<1>2. /\ NULL \in Load(loc[t].tail, "next")
      /\ mem' = [mem EXCEPT ![loc[t].tail].next = loc[t].node]
  <2>1. ~Goto(t, "E_tail")
    BY Goes DEF EnqueueLabels
  <2> QED
    BY <2>1 DEF Link
<1>3. loc[t].tail = s[n]
  <2>1. PICK k \in 1..l : loc[t].tail = s[k]
    BY <1>t, <1>1 DEF Enqueues, Unlinked
  <2>2. k \in 1..n /\ s[k] \in Nodes
    BY <2>1, <1>s
  <2>3. mem[s[k]].next = NULL
    BY <1>2, <2>1, <2>2 DEF Load
  <2>4. ~ (k < n)
    <3>1. k < n => mem[s[k]].next = s[k + 1] /\ k + 1 \in 1..n
      BY <2>2, <1>s DEF ListInv, InvChain
    <3> QED
      BY <2>3, <3>1, <1>s
  <2> QED
    BY <2>1, <2>2, <2>4, <1>s
<1>4. /\ loc[t].node \in Nodes /\ heap[loc[t].node] = "live"
      /\ \A i \in 1..n : loc[t].node # s[i]
      /\ mem[loc[t].node] = [Zeroed EXCEPT !.element = loc[t].element]
      /\ loc[t].element \in Elements
  BY <1>t, <1>1 DEF Prepares, Unlinked
<1>5. /\ s2 \in Seq(Nodes) /\ Len(s2) = n + 1 /\ \A i \in 1..n : s2[i] = s[i]
      /\ s2[n + 1] = loc[t].node
  BY <1>4, <1>s, AppendProperties
<1>6. \A i, j \in 1..Len(s2) : s2[i] = s2[j] => i = j
  <2> SUFFICES ASSUME NEW i \in 1..Len(s2), NEW j \in 1..Len(s2), s2[i] = s2[j] PROVE i = j
    OBVIOUS
  <2>1. \A k \in 1..Len(s2) : k \in 1..n \/ k = n + 1
    BY <1>5, <1>s
  <2> QED
    BY <2>1, <1>4, <1>5, <1>s
<1>7. s2 \in Chains
  <2>1. n + 1 <= Cardinality(Nodes) /\ Cardinality(Nodes) \in Nat
    BY <1>5, <1>6, ChainFits, FS_CardinalityType
  <2>2. n + 1 \in 1..Cardinality(Nodes)
    BY <2>1, <1>s
  <2>3. s2 \in [1..(n + 1) -> Nodes]
    BY <1>5, LenProperties
  <2> QED
    BY <2>2, <2>3 DEF Chains
<1>8. /\ h \in h..Len(s2) /\ l \in l..Len(s2) /\ n <= Len(s2) /\ h \in 1..Len(s2) /\ l \in 1..Len(s2)
      /\ l \in h..Len(s2)
  BY <1>5, <1>s
<1>9. InvEnds(s2, h, l)'
  BY <1>1, <1>5, <1>8, <1>s DEF InvEnds
<1>10. /\ mem'[s[n]] = [mem[s[n]] EXCEPT !.next = loc[t].node]
       /\ \A x \in Nodes : x # s[n] => mem'[x] = mem[x]
  BY <1>2, <1>3, <1>s DEF TypeOK
<1>11. /\ mem'[s[n]].next = loc[t].node /\ mem'[s[n]].element = mem[s[n]].element
       /\ mem'[s[n]].dequeued = mem[s[n]].dequeued
  BY <1>10, <1>s DEF TypeOK
<1>12. \A i \in 1..n : /\ mem'[s[i]].element = mem[s[i]].element
                       /\ mem'[s[i]].dequeued = mem[s[i]].dequeued
                       /\ i # n => mem'[s[i]].next = mem[s[i]].next
  <2> SUFFICES ASSUME NEW i \in 1..n
               PROVE  /\ mem'[s[i]].element = mem[s[i]].element
                      /\ mem'[s[i]].dequeued = mem[s[i]].dequeued
                      /\ i # n => mem'[s[i]].next = mem[s[i]].next
    OBVIOUS
  <2>1. CASE i = n
    BY <2>1, <1>11
  <2>2. CASE i # n
    BY <2>2, <1>10, <1>s
  <2> QED
    BY <2>1, <2>2
<1>13. mem'[loc[t].node] = mem[loc[t].node]
  BY <1>4, <1>10, <1>s
<1>14. InvChain(s2)'
  <2>1. ASSUME NEW i \in 1..Len(s2)
        PROVE  mem'[s2[i]].next = IF i < Len(s2) THEN s2[i + 1] ELSE NULL
    <3>1. CASE i = n + 1
      BY <3>1, <1>5, <1>13, <1>4, <1>s DEF Zeroed
    <3>2. CASE i = n
      BY <3>2, <1>5, <1>11, <1>s
    <3>3. CASE i < n
      <4>1. i \in 1..n /\ i + 1 \in 1..n /\ i # n
        BY <3>3, <1>s
      <4>2. mem[s[i]].next = s[i + 1]
        BY <3>3, <4>1 DEF ListInv, InvChain
      <4> QED
        BY <4>1, <4>2, <3>3, <1>5, <1>12, <1>s
    <3> QED
      BY <3>1, <3>2, <3>3, <1>5, <1>s
  <2> QED
    BY <2>1, <1>6 DEF InvChain
<1>15. InvHeap(s2, h)'
  <2>1. ASSUME NEW i \in 1..Len(s2)
        PROVE  /\ heap'[s2[i]] # "fresh" /\ (i >= h => heap'[s2[i]] = "live")
               /\ i > h => mem'[s2[i]].element \in Elements /\ ~mem'[s2[i]].dequeued
    <3>1. CASE i = n + 1
      BY <3>1, <1>1, <1>4, <1>5, <1>13 DEF Zeroed
    <3>2. CASE i \in 1..n
      <4>1. /\ heap[s[i]] # "fresh" /\ (i >= h => heap[s[i]] = "live")
            /\ i > h => mem[s[i]].element \in Elements /\ ~mem[s[i]].dequeued
        BY <3>2, <1>s DEF ListInv, InvHeap
      <4> QED
        BY <3>2, <4>1, <1>1, <1>5, <1>12
    <3> QED
      BY <3>1, <3>2, <1>5, <1>s
  <2>2. \A i \in h..Len(s2) : i \in 1..Len(s2) /\ i >= h
    BY <1>8, <1>s
  <2>3. \A i \in h + 1..Len(s2) : i \in 1..Len(s2) /\ i > h
    BY <1>8, <1>s
  <2> QED
    BY <2>1, <2>2, <2>3 DEF InvHeap
<1>16. ASSUME NEW u \in Threads, u # t
       PROVE  Prepares(u, s2)' /\ Enqueues(u, s2, l)' /\ Drains(u, s2, h, l)'
  <2>1. Prepares(u, s) /\ Enqueues(u, s, l) /\ Drains(u, s, h, l)
    BY DEF ListInv
  <2>2. ASSUME pc[u] \in Unlinked
        PROVE  /\ \A i \in 1..Len(s2) : loc[u].node # s2[i]
               /\ mem'[loc[u].node] = mem[loc[u].node]
               /\ heap'[loc[u].node] = heap[loc[u].node]
    <3>1. loc[u].node \in Nodes /\ \A i \in 1..n : loc[u].node # s[i]
      BY <2>1, <2>2 DEF Prepares
    <3>2. loc[u].node # loc[t].node
      BY <2>2, <1>16, <1>1 DEF InvOwners, Unlinked
    <3>3. \A i \in 1..Len(s2) : i \in 1..n \/ i = n + 1
      BY <1>5, <1>s
    <3> QED
      BY <3>1, <3>2, <3>3, <1>1, <1>5, <1>10, <1>s
  <2>3. ~ (h = Len(s2))
    BY <1>5, <1>s
  <2>4. pc'[u] = pc[u] /\ loc'[u] = loc[u] /\ (sawEmpty[u] => sawEmpty'[u])
    BY <1>1, <1>16
  <2>5. pc[u] = "D_assert" => mem'[loc[u].next].dequeued = mem[loc[u].next].dequeued
    BY NextIs, <1>12 DEF Decided
  <2>6. /\ h \in 1..Len(s) /\ l \in h..Len(s) /\ InvEnds(s, h, l)
        /\ Len(s) <= Len(s2) /\ \A i \in 1..Len(s) : s2[i] = s[i]
        /\ \A i \in 1..Len(s) : mem'[s[i]].element = mem[s[i]].element
    BY <1>s, <1>5, <1>8, <1>12
  <2> HIDE DEF n
  <2> QED
    BY <1>6, <1>7, <1>8, <1>9, <2>1, <2>2, <2>3, <2>4, <2>5, <2>6, OthersKeep, ZenonT(30)
<1>17. Prepares(t, s2)' /\ Enqueues(t, s2, l)' /\ Drains(t, s2, h, l)'
  <2>1. n \in 1..(Len(s2) - 1) /\ loc'[t].tail = s2[n] /\ loc'[t].node = s2[n + 1]
    BY <1>1, <1>3, <1>5, <1>s
  <2> QED
    BY <2>1 DEF Prepares, Enqueues, Drains, Unlinked, DrainLabels
<1>18. ListInv(s2, h, l)'
  BY <1>9, <1>14, <1>15, <1>16, <1>17 DEF ListInv
<1> QED
  BY <1>2, <1>3, <1>4, <1>7, <1>8, <1>18

\* The CAS links the node, or the enqueue starts over.
LEMMA LinkStep ==
  ASSUME TypeOK, InvOwners, NEW s \in Chains, NEW h \in 1..Len(s), NEW l \in 1..Len(s),
         ListInv(s, h, l), NEW t \in Threads, Link(t)
  PROVE  /\ \E s2 \in Chains : \E h2, l2 \in 1..Len(s2) : ListInv(s2, h2, l2)'
         /\ InvOwners'
<1> USE DEF At
<1>1. pc[t] = "E_link" /\ \A u \in Threads \ {t} : pc'[u] = pc[u] /\ loc'[u] = loc[u]
  BY Goes DEF Link, EnqueueLabels
<1>2. pc'[t] \in {"E_tail", "E_swing"} /\ loc' = loc
  BY Goes DEF Link, EnqueueLabels
<1>3. InvOwners'
  BY <1>1, <1>2, OwnersKeep DEF Unlinked, Decided
<1>4. CASE pc'[t] = "E_swing"
  <2> DEFINE a == Append(s, loc[t].node)
  <2>1. PICK s2 : s2 = a
    OBVIOUS
  <2>2. s2 \in Chains /\ h \in 1..Len(s2) /\ l \in 1..Len(s2) /\ ListInv(s2, h, l)'
    BY <1>4, <2>1, Links
  <2> QED
    BY <1>3, <2>2
<1>5. CASE pc'[t] = "E_tail"
  <2>1. UNCHANGED shared /\ sawEmpty' = sawEmpty
    <3>1. ~Goto(t, "E_swing")
      BY <1>5, Goes DEF EnqueueLabels
    <3> QED
      BY <3>1 DEF Link, shared
  <2>2. Prepares(t, s)' /\ Enqueues(t, s, l)' /\ Drains(t, s, h, l)'
    <3>1. Prepares(t, s)
      BY DEF ListInv
    <3> QED
      BY <1>1, <1>2, <1>5, <2>1, <3>1 DEF Prepares, Enqueues, Drains, Unlinked, DrainLabels, shared
  <2>3. ListInv(s, h, l)'
    BY <1>1, <2>1, <2>2, LocalStep
  <2> QED
    BY <1>3, <2>3
<1> QED
  BY <1>2, <1>4, <1>5

\* A thread that takes the head of the chain.
Takes(t, s, h, l) ==
  /\ h < l /\ h + 1 \in 1..Len(s) /\ loc[t].head = s[h] /\ loc[t].next = s[h + 1]
  /\ qhead' = s[h + 1] /\ pc[t] = "D_cas" /\ pc'[t] = "D_assert"
  /\ loc[t].element = mem[s[h + 1]].element
  /\ h + 1 = Len(s) => mem[s[h + 1]].next = NULL
  /\ mem[s[h + 1]].next = NULL => h + 1 = Len(s)

\* The CAS of queue->head that succeeds takes the head that was read and makes what follows it
\* the dummy.
LEMMA CasTakes ==
  ASSUME TypeOK, NEW s \in Chains, NEW h \in 1..Len(s), NEW l \in 1..Len(s),
         ListInv(s, h, l), NEW t \in Threads, CasHead(t), qhead = loc[t].head
  PROVE  Takes(t, s, h, l)
<1> USE DEF At
<1>s. /\ Len(s) \in Nat \ {0} /\ h \in Nat /\ l \in Nat /\ 1 <= h /\ h <= l /\ l <= Len(s)
      /\ qhead = s[h] /\ \A i, j \in 1..Len(s) : s[i] = s[j] => i = j
      /\ \A i \in 1..Len(s) : s[i] \in Nodes
  BY ChainShape DEF ListInv, InvEnds, InvChain
<1>1. pc[t] = "D_cas"
  BY DEF CasHead
<1>2. PICK k \in 1..Len(s) : /\ k < l /\ k + 1 \in 1..Len(s) /\ k <= h
                             /\ loc[t].head = s[k] /\ loc[t].next = s[k + 1]
                             /\ loc[t].element = mem[loc[t].next].element
  BY <1>1, NextIs
<1>3. k = h
  BY <1>2, <1>s
<1>4. qhead' = loc[t].next /\ pc'[t] = "D_assert"
  BY Goes DEF CasHead, DrainLabels
<1>5. mem[s[h + 1]].next = IF h + 1 < Len(s) THEN s[h + 2] ELSE NULL
  <2>1. (h + 1) + 1 = h + 2
    BY <1>s
  <2> QED
    BY <1>2, <1>3, <2>1 DEF ListInv, InvChain
<1>6. h + 1 < Len(s) => h + 2 \in 1..Len(s) /\ s[h + 2] # NULL
  <2>1. h + 1 < Len(s) => h + 2 \in 1..Len(s)
    BY <1>s
  <2> QED
    BY <2>1, <1>s
<1> QED
  BY <1>1, <1>2, <1>3, <1>4, <1>5, <1>6, <1>s DEF Takes

\* After it the drain has what was first in the queue.
LEMMA CasHeadStep ==
  ASSUME TypeOK, InvOwners, NEW s \in Chains, NEW h \in 1..Len(s), NEW l \in 1..Len(s),
         ListInv(s, h, l), NEW t \in Threads, CasHead(t)
  PROVE  (\E h2 \in 1..Len(s) : ListInv(s, h2, l)') /\ InvOwners'
<1> USE DEF At
<1>s. /\ Len(s) \in Nat \ {0} /\ h \in Nat /\ l \in Nat /\ 1 <= h /\ h <= l /\ l <= Len(s)
      /\ InvEnds(s, h, l) /\ l \in h..Len(s) /\ l \in l..Len(s)
      /\ qhead = s[h] /\ \A i, j \in 1..Len(s) : s[i] = s[j] => i = j
  BY ChainShape DEF ListInv, InvEnds, InvChain
<1>1. /\ pc[t] = "D_cas" /\ loc' = loc /\ UNCHANGED <<qtail, mem, heap>>
      /\ \A u \in Threads \ {t} : pc'[u] = pc[u] /\ loc'[u] = loc[u]
  BY Goes DEF CasHead, DrainLabels
<1>2. CASE qhead = loc[t].head
  <2>1. /\ h < l /\ h + 1 \in 1..Len(s) /\ loc[t].head = s[h] /\ loc[t].next = s[h + 1]
        /\ qhead' = s[h + 1] /\ pc'[t] = "D_assert"
        /\ h + 1 = Len(s) => mem[s[h + 1]].next = NULL
    <3>1. Takes(t, s, h, l)
      BY <1>2, CasTakes
    <3> QED
      BY <3>1 DEF Takes
  <2>2. sawEmpty' = [u \in Threads |->
                       /\ u # t
                       /\ \/ sawEmpty[u]
                          \/ /\ pc[u] \in DrainLabels \ Decided
                             /\ mem[loc[t].next].next = NULL]
    BY <1>2 DEF CasHead, Decided
  <2>3. /\ h + 1 \in h..Len(s) /\ h + 1 \in Nat /\ h + 1 <= l /\ l \in (h + 1)..Len(s)
    BY <1>s, <2>1
  <2>4. InvChain(s)'
    BY <1>1 DEF ListInv, InvChain
  <2>5. InvEnds(s, h + 1, l)'
    BY <1>1, <1>s, <2>1, <2>3 DEF InvEnds
  <2>6. InvHeap(s, h + 1)'
    <3>1. \A i \in h + 1..Len(s) : i \in h..Len(s)
      BY <1>s
    <3>2. \A i \in (h + 1) + 1..Len(s) : i \in h + 1..Len(s)
      BY <1>s
    <3> QED
      BY <1>1, <3>1, <3>2 DEF ListInv, InvHeap
  <2>7. ASSUME NEW u \in Threads, u # t
        PROVE  Prepares(u, s)' /\ Enqueues(u, s, l)' /\ Drains(u, s, h + 1, l)'
    <3>1. Prepares(u, s) /\ Enqueues(u, s, l) /\ Drains(u, s, h, l)
      BY DEF ListInv
    <3>2. pc[u] \in Unlinked => \A i \in 1..Len(s) : loc[u].node # s[i]
      BY <3>1 DEF Prepares
    <3>3. pc[u] \in DrainLabels \ Decided /\ h + 1 = Len(s) => sawEmpty'[u]
      BY <2>1, <2>2, <2>7
    <3>4. pc'[u] = pc[u] /\ loc'[u] = loc[u] /\ (sawEmpty[u] => sawEmpty'[u])
      BY <1>1, <2>2, <2>7
    <3> QED
      BY <1>1, <1>s, <2>1, <2>3, <2>5, <3>1, <3>2, <3>3, <3>4, OthersKeep
  <2>8. Prepares(t, s)' /\ Enqueues(t, s, l)' /\ Drains(t, s, h + 1, l)'
    <3>1. ~mem[s[h + 1]].dequeued
      <4>1. h + 1 \in (h + 1)..Len(s)
        BY <1>s, <2>1
      <4> QED
        BY <4>1 DEF ListInv, InvHeap
    <3>2. h \in 1..(h + 1) /\ h < h + 1
      BY <1>s
    <3>3. DrainsFrom(t, s, h + 1, l, h)'
      BY <1>1, <2>1, <3>1, <3>2 DEF DrainsFrom, Decided
    <3> QED
      BY <2>1, <3>2, <3>3 DEF Prepares, Enqueues, Drains, Unlinked, DrainLabels, Decided
  <2>9. ASSUME NEW u \in Threads, u # t, pc[u] \in Decided PROVE loc[u].head # loc[t].head
    <3>1. PICK k \in 1..Len(s) : k < h /\ loc[u].head = s[k]
      BY <2>9, NextIs
    <3> QED
      BY <3>1, <2>1, <1>s
  <2>10. InvOwners'
    <3>1. ASSUME NEW u \in Threads, NEW v \in Threads, pc'[u] \in Unlinked, pc'[v] \in Unlinked,
                 loc'[u].node = loc'[v].node
          PROVE  u = v
      <4>1. u # t /\ v # t
        BY <2>1, <3>1 DEF Unlinked
      <4> QED
        BY <1>1, <3>1, <4>1 DEF InvOwners
    <3>2. ASSUME NEW u \in Threads, NEW v \in Threads, pc'[u] \in Decided, pc'[v] \in Decided,
                 loc'[u].head = loc'[v].head
          PROVE  u = v
      BY <1>1, <2>9, <3>2 DEF InvOwners
    <3> QED
      BY <3>1, <3>2 DEF InvOwners
  <2>11. ListInv(s, h + 1, l)'
    BY <2>4, <2>5, <2>6, <2>7, <2>8 DEF ListInv
  <2> QED
    BY <2>1, <2>10, <2>11
<1>3. CASE qhead # loc[t].head
  <2>1. pc'[t] = "D_head" /\ UNCHANGED <<qhead, sawEmpty>>
    BY <1>3, Goes DEF CasHead, DrainLabels
  <2>2. h = Len(s) => sawEmpty[t]
    BY <1>1 DEF ListInv, Drains, Decided, DrainLabels
  <2>3. Prepares(t, s)' /\ Enqueues(t, s, l)' /\ Drains(t, s, h, l)'
    BY <2>1, <2>2 DEF Prepares, Enqueues, Drains, Unlinked, DrainLabels
  <2>4. ListInv(s, h, l)'
    BY <1>1, <2>1, <2>3, LocalStep DEF shared
  <2> QED
    BY <1>1, <2>1, <2>4, OwnersKeep DEF Unlinked, Decided
<1> QED
  BY <1>2, <1>3

\* What is marked and freed is behind queue->head.
LEMMA MarkStep ==
  ASSUME TypeOK, InvOwners, NEW s \in Chains, NEW h \in 1..Len(s), NEW l \in 1..Len(s),
         ListInv(s, h, l), NEW t \in Threads, MarkDequeued(t) \/ FreeHead(t)
  PROVE  ListInv(s, h, l)' /\ InvOwners'
<1> USE DEF At
<1>s. /\ Len(s) \in Nat \ {0} /\ h \in Nat /\ l \in Nat /\ 1 <= h /\ h <= l /\ l <= Len(s)
      /\ InvEnds(s, h, l) /\ l \in h..Len(s) /\ l \in l..Len(s) /\ h \in h..Len(s)
      /\ \A i, j \in 1..Len(s) : s[i] = s[j] => i = j
      /\ \A i \in 1..Len(s) : s[i] \in Nodes
  BY ChainShape DEF ListInv, InvEnds, InvChain
<1>1. /\ pc[t] \in Decided /\ UNCHANGED <<qhead, qtail, sawEmpty>>
      /\ \A u \in Threads \ {t} : pc'[u] = pc[u] /\ loc'[u] = loc[u]
      /\ pc'[t] = "idle" \/ (pc'[t] = "D_free" /\ loc' = loc)
  BY Goes, Returns DEF MarkDequeued, FreeHead, DrainLabels, Decided
<1>2. PICK k \in 1..Len(s) : /\ k < l /\ k < h /\ k + 1 \in 1..Len(s)
                             /\ loc[t].head = s[k] /\ loc[t].next = s[k + 1]
  BY <1>1, NextIs
<1>3. \A x \in Nodes : /\ mem'[x].element = mem[x].element /\ mem'[x].next = mem[x].next
                       /\ x # s[k + 1] => mem'[x] = mem[x]
                       /\ x # s[k] => heap'[x] = heap[x]
                       /\ heap'[x] \in {heap[x], "freed"}
  <2>1. CASE MarkDequeued(t)
    <3>1. mem' = [mem EXCEPT ![s[k + 1]].dequeued = TRUE] /\ heap' = heap
      BY <2>1, <1>2 DEF MarkDequeued
    <3>2. s[k + 1] \in Nodes
      BY <1>2, <1>s
    <3>3. /\ mem'[s[k + 1]] = [mem[s[k + 1]] EXCEPT !.dequeued = TRUE]
          /\ \A x \in Nodes : x # s[k + 1] => mem'[x] = mem[x]
      BY <3>1, <3>2 DEF TypeOK
    <3>4. /\ mem'[s[k + 1]].element = mem[s[k + 1]].element
          /\ mem'[s[k + 1]].next = mem[s[k + 1]].next
      BY <3>2, <3>3 DEF TypeOK
    <3> QED
      BY <3>1, <3>3, <3>4
  <2>2. CASE FreeHead(t)
    <3>1. mem' = mem /\ heap' = [heap EXCEPT ![s[k]] = "freed"]
      BY <2>2, <1>2 DEF FreeHead
    <3> QED
      BY <3>1, <1>2, <1>s DEF TypeOK
  <2> QED
    BY <2>1, <2>2
<1>4. InvChain(s)' /\ InvEnds(s, h, l)'
  BY <1>1, <1>3, <1>s DEF ListInv, InvChain, InvEnds
<1>5. InvHeap(s, h)'
  <2>1. \A i \in 1..Len(s) : heap'[s[i]] # "fresh"
    BY <1>3, <1>s DEF ListInv, InvHeap
  <2>2. ASSUME NEW i \in h..Len(s) PROVE heap'[s[i]] = "live"
    <3>1. i \in 1..Len(s) /\ i # k
      BY <1>2, <1>s
    <3> QED
      BY <3>1, <1>2, <1>3, <1>s DEF ListInv, InvHeap
  <2>3. ASSUME NEW i \in h + 1..Len(s) PROVE mem'[s[i]].element \in Elements /\ ~mem'[s[i]].dequeued
    <3>1. i \in 1..Len(s) /\ i # k + 1
      BY <1>2, <1>s
    <3>2. s[i] # s[k + 1]
      BY <3>1, <1>2, <1>s
    <3> QED
      BY <3>1, <3>2, <1>3, <1>s DEF ListInv, InvHeap
  <2> QED
    BY <2>1, <2>2, <2>3 DEF InvHeap
<1>6. ASSUME NEW u \in Threads, u # t
      PROVE  Prepares(u, s)' /\ Enqueues(u, s, l)' /\ Drains(u, s, h, l)'
  <2>1. Prepares(u, s) /\ Enqueues(u, s, l) /\ Drains(u, s, h, l)
    BY DEF ListInv
  <2>2. ASSUME pc[u] \in Unlinked
        PROVE  /\ \A i \in 1..Len(s) : loc[u].node # s[i]
               /\ mem'[loc[u].node] = mem[loc[u].node]
               /\ heap'[loc[u].node] = heap[loc[u].node]
    <3>1. loc[u].node \in Nodes /\ \A i \in 1..Len(s) : loc[u].node # s[i]
      BY <2>1, <2>2 DEF Prepares
    <3> QED
      BY <3>1, <1>2, <1>3
  <2>3. pc[u] \in DrainLabels \ Decided /\ h = Len(s) => sawEmpty'[u]
    BY <1>1, <2>1 DEF Drains
  <2>4. pc'[u] = pc[u] /\ loc'[u] = loc[u] /\ (sawEmpty[u] => sawEmpty'[u])
    BY <1>1, <1>6
  <2>5. ASSUME pc[u] = "D_assert" PROVE mem'[loc[u].next].dequeued = mem[loc[u].next].dequeued
    <3>1. PICK m \in 1..Len(s) : m + 1 \in 1..Len(s) /\ loc[u].head = s[m] /\ loc[u].next = s[m + 1]
      BY <2>5, NextIs DEF Decided
    <3>2. m # k
      BY <3>1, <2>5, <1>1, <1>2, <1>6 DEF InvOwners, Decided
    <3>3. s[m + 1] # s[k + 1]
      BY <3>1, <3>2, <1>2, <1>s
    <3> QED
      BY <3>1, <3>3, <1>3, <1>s
  <2>6. \A i \in 1..Len(s) : mem'[s[i]].element = mem[s[i]].element
    BY <1>3, <1>s
  <2> QED
    BY <1>4, <1>s, <2>1, <2>2, <2>3, <2>4, <2>5, <2>6, OthersKeep
<1>7. Prepares(t, s)' /\ Enqueues(t, s, l)' /\ Drains(t, s, h, l)'
  <2>1. CASE pc'[t] = "idle"
    BY <2>1, KnowsNothing
  <2>2. CASE pc'[t] = "D_free" /\ loc' = loc
    <3>1. k \in 1..h /\ DrainsFrom(t, s, h, l, k)'
      BY <2>2, <1>2, <1>s DEF DrainsFrom, Decided
    <3> QED
      BY <2>2, <3>1 DEF Prepares, Enqueues, Drains, Unlinked, DrainLabels, Decided
  <2> QED
    BY <1>1, <2>1, <2>2
<1>8. InvOwners'
  BY <1>1, OwnersKeep DEF Unlinked, Decided
<1> QED
  BY <1>4, <1>5, <1>6, <1>7, <1>8 DEF ListInv

------------------------------------------------------------------------------
(* The invariant. *)

\* What a thread is about to follow is a node of the chain.
LEMMA Follows ==
  ASSUME NEW s \in Chains, NEW h \in 1..Len(s), NEW l \in 1..Len(s), ListInv(s, h, l),
         NEW t \in Threads
  PROVE  /\ pc[t] \in Unlinked \ {"E_tail"} => loc[t].tail \in Nodes
         /\ pc[t] \in DrainLabels \ {"D_head"} => loc[t].head \in Nodes
         /\ pc[t] \in {"D_read", "D_cas"} \cup Decided => loc[t].next \in Nodes
<1>s. /\ Len(s) \in Nat \ {0} /\ h \in Nat /\ l \in Nat /\ 1 <= h /\ h <= l /\ l <= Len(s)
      /\ \A i \in 1..Len(s) : s[i] \in Nodes
  BY ChainShape DEF ListInv, InvEnds
<1>t. Enqueues(t, s, l) /\ Drains(t, s, h, l)
  BY DEF ListInv
<1>1. ASSUME pc[t] \in Unlinked \ {"E_tail"} PROVE loc[t].tail \in Nodes
  <2>1. PICK k \in 1..l : loc[t].tail = s[k]
    BY <1>1, <1>t DEF Enqueues
  <2> QED
    BY <2>1, <1>s
<1>2. ASSUME pc[t] \in DrainLabels \ {"D_head"}
      PROVE  /\ loc[t].head \in Nodes
             /\ pc[t] \in {"D_read", "D_cas"} \cup Decided => loc[t].next \in Nodes
  <2>1. PICK k \in 1..h : DrainsFrom(t, s, h, l, k)
    BY <1>2, <1>t DEF Drains
  <2>2. loc[t].head = s[k] /\ k \in 1..Len(s)
    BY <2>1, <1>s DEF DrainsFrom
  <2>3. ASSUME pc[t] \in {"D_read", "D_cas"} \cup Decided PROVE loc[t].next \in Nodes
    <3>1. loc[t].next = s[k + 1] /\ k < l
      BY <2>1, <2>3 DEF DrainsFrom
    <3>2. k + 1 \in 1..Len(s)
      BY <3>1, <1>s
    <3> QED
      BY <3>1, <3>2, <1>s
  <2> QED
    BY <2>2, <2>3, <1>s
<1>3. {"D_read", "D_cas"} \cup Decided \subseteq DrainLabels \ {"D_head"}
  BY DEF Decided, DrainLabels
<1> QED
  BY <1>1, <1>2, <1>3

\* No step follows a wild pointer or fails the assertion.
LEMMA NoFault ==
  ASSUME ~aborted, NEW s \in Chains, NEW h \in 1..Len(s), NEW l \in 1..Len(s), ListInv(s, h, l),
         NEW t \in Threads, Enqueue(t) \/ Drain(t)
  PROVE  ~aborted'
<1> USE DEF At
<1>1. CASE ReadTailNext(t)
  BY <1>1, Follows DEF ReadTailNext, Faults, Unlinked
<1>2. CASE ReadHeadNext(t)
  BY <1>2, Follows DEF ReadHeadNext, Faults, DrainLabels
<1>3. CASE ReadElement(t)
  BY <1>3, Follows DEF ReadElement, Faults
<1>4. CASE AssertNotDequeued(t)
  <2>1. pc[t] = "D_assert" /\ aborted' = mem[loc[t].next].dequeued
    BY <1>4 DEF AssertNotDequeued
  <2>2. ~mem[loc[t].next].dequeued
    BY <2>1, NextIs DEF Decided
  <2> QED
    BY <2>1, <2>2
<1>5. CASE \/ CallEnqueue(t) \/ Malloc(t) \/ MallocFails(t) \/ ReadTail(t) \/ CheckTail(t)
           \/ Link(t) \/ HelpTail(t) \/ SwingTail(t) \/ CallDrain(t) \/ ReadHead(t)
           \/ ReadDrainTail(t) \/ CheckHead(t) \/ ReturnEmpty(t) \/ HelpDrainTail(t)
           \/ CasHead(t) \/ MarkDequeued(t) \/ FreeHead(t)
  BY <1>5, Zenon DEF CallEnqueue, Malloc, MallocFails, ReadTail, CheckTail, Link, HelpTail,
     SwingTail, CallDrain, ReadHead, ReadDrainTail, CheckHead, ReturnEmpty, HelpDrainTail,
     CasHead, MarkDequeued, FreeHead
<1> QED
  BY <1>1, <1>2, <1>3, <1>4, <1>5 DEF Enqueue, Drain

\* Every step of a thread keeps the chain and the owners of its nodes.
LEMMA ListStep ==
  ASSUME TypeOK, InvOwners, ~Reuse, NEW s \in Chains, NEW h \in 1..Len(s), NEW l \in 1..Len(s),
         ListInv(s, h, l), NEW t \in Threads, Enqueue(t) \/ Drain(t)
  PROVE  /\ \E s2 \in Chains : \E h2, l2 \in 1..Len(s2) : ListInv(s2, h2, l2)'
         /\ InvOwners'
<1>1. CASE \/ CallEnqueue(t) \/ MallocFails(t) \/ ReadTail(t) \/ ReadTailNext(t) \/ CheckTail(t)
  BY <1>1, EnqueueReads
<1>2. CASE Malloc(t)
  BY <1>2, MallocStep
<1>3. CASE Link(t)
  BY <1>3, LinkStep
<1>4. CASE HelpTail(t) \/ SwingTail(t) \/ HelpDrainTail(t)
  BY <1>4, TailSteps
<1>5. CASE \/ CallDrain(t) \/ ReadHead(t) \/ ReadDrainTail(t) \/ ReadHeadNext(t) \/ CheckHead(t)
           \/ ReturnEmpty(t) \/ ReadElement(t) \/ AssertNotDequeued(t)
  BY <1>5, DrainReads
<1>6. CASE CasHead(t)
  BY <1>6, CasHeadStep
<1>7. CASE MarkDequeued(t) \/ FreeHead(t)
  BY <1>7, MarkStep
<1> QED
  BY <1>1, <1>2, <1>3, <1>4, <1>5, <1>6, <1>7 DEF Enqueue, Drain

\* QueueCreate makes a chain of one node.
LEMMA QueueInit ==
  Init => QueueInv /\ \E s \in Chains : Len(s) = 1 /\ ListInv(s, 1, 1)
<1> SUFFICES ASSUME Init PROVE QueueInv /\ \E s \in Chains : Len(s) = 1 /\ ListInv(s, 1, 1)
  OBVIOUS
<1>1. qhead \in Nodes /\ qtail = qhead
  BY DEF Init
<1>2. TypeOK
  BY <1>1 DEF Init, TypeOK, Pointers, Zeroed, NoLocals
<1>3. ~aborted /\ \A t \in Threads : pc[t] = "idle"
  BY DEF Init
<1>4. InvOwners
  BY <1>3 DEF InvOwners, Unlinked, Decided
<1>5. PICK s : s = [i \in 1..1 |-> qhead]
  OBVIOUS
<1>6. s \in Chains
  <2>1. 1 \in 1..Cardinality(Nodes)
    <3>1. Cardinality(Nodes) \in Nat /\ Cardinality(Nodes) # 0
      BY FS_CardinalityType, FS_EmptySet
    <3> QED
      BY <3>1
  <2>2. s \in [1..1 -> Nodes]
    BY <1>1, <1>5
  <2> QED
    BY <2>1, <2>2 DEF Chains
<1>7. Len(s) = 1 /\ s[1] = qhead
  BY <1>1, <1>5
<1>8. mem[qhead] = Zeroed /\ heap[qhead] = "live"
  BY <1>1 DEF Init
<1>9. InvChain(s) /\ InvEnds(s, 1, 1) /\ InvHeap(s, 1)
  BY <1>1, <1>7, <1>8 DEF InvChain, InvEnds, InvHeap, Zeroed
<1>10. \A t \in Threads : Prepares(t, s) /\ Enqueues(t, s, 1) /\ Drains(t, s, 1, 1)
  BY <1>3 DEF Prepares, Enqueues, Drains, Unlinked, DrainLabels
<1> QED
  BY <1>2, <1>3, <1>4, <1>6, <1>7, <1>9, <1>10 DEF QueueInv, ListInv

\* Every step keeps the invariant.
LEMMA QueueStep ==
  ASSUME QueueInv, ~Reuse, [Next]_vars
  PROVE  QueueInv'
<1>1. CASE UNCHANGED vars
  <2>1. TypeOK' /\ ~aborted' /\ InvOwners'
    BY <1>1 DEF QueueInv, vars, TypeOK, InvOwners
  <2>2. ASSUME NEW s \in Chains, NEW h \in 1..Len(s), NEW l \in 1..Len(s), ListInv(s, h, l)
        PROVE  ListInv(s, h, l)'
    <3>1. InvChain(s)' /\ InvEnds(s, h, l)' /\ InvHeap(s, h)'
      BY <1>1, <2>2 DEF vars, ListInv, InvChain, InvEnds, InvHeap
    <3>2. ASSUME NEW t \in Threads PROVE Prepares(t, s)' /\ Enqueues(t, s, l)' /\ Drains(t, s, h, l)'
      <4>1. Prepares(t, s) /\ Enqueues(t, s, l) /\ Drains(t, s, h, l)
        BY <2>2 DEF ListInv
      <4>2. Prepares(t, s)'
        BY <1>1, <4>1 DEF vars, Prepares
      <4>3. Enqueues(t, s, l)'
        BY <1>1, <4>1 DEF vars, Enqueues
      <4>4. Drains(t, s, h, l)'
        BY <1>1, <4>1 DEF vars, Drains, DrainsFrom
      <4> QED
        BY <4>2, <4>3, <4>4
    <3> QED
      BY <3>1, <3>2 DEF ListInv
  <2> QED
    BY <2>1, <2>2 DEF QueueInv, Chains
<1>2. ASSUME NEW t \in Threads, Enqueue(t) \/ Drain(t) PROVE QueueInv'
  <2>1. PICK s \in Chains : \E h, l \in 1..Len(s) : ListInv(s, h, l)
    BY DEF QueueInv
  <2>2. PICK h \in 1..Len(s), l \in 1..Len(s) : ListInv(s, h, l)
    BY <2>1
  <2>3. TypeOK /\ ~aborted /\ InvOwners
    BY DEF QueueInv
  <2>4. /\ pc[t] = "E_malloc" => loc[t].element \in Elements
        /\ pc[t] = "E_link" => loc[t].tail \in Nodes
        /\ pc[t] \in Decided => loc[t].next \in Nodes
    BY <2>2, Follows DEF ListInv, Prepares, Unlinked
  <2>5. TypeOK'
    BY <1>2, <2>3, <2>4, TypeStep
  <2>6. ~aborted'
    BY <1>2, <2>2, <2>3, NoFault
  <2>7. /\ \E s2 \in Chains : \E h2, l2 \in 1..Len(s2) : ListInv(s2, h2, l2)'
        /\ InvOwners'
    BY <1>2, <2>2, <2>3, ListStep
  <2> QED
    BY <2>5, <2>6, <2>7 DEF QueueInv, Chains
<1> QED
  BY <1>1, <1>2 DEF Next

\* What holds in every state when memory is not recycled.
THEOREM QueueSafe ==
  ASSUME ~Reuse
  PROVE  Spec => []QueueInv
<1>1. QueueInv /\ [Next]_vars => QueueInv'
  BY QueueStep
<1> QED
  BY <1>1, QueueInit, PTL DEF Spec

\* When malloc returns no node that was freed, QueueEnqueue and QueueDrain follow no NULL and
\* nothing the allocator left in a freed node, and no assertion of QueueDrain fails, however
\* many threads there are.
THEOREM NeverAbortsAlways ==
  ASSUME ~Reuse
  PROVE  Spec => []NeverAborts
<1>1. QueueInv => NeverAborts
  BY DEF QueueInv, NeverAborts
<1> QED
  BY <1>1, QueueSafe, PTL

\* assert(next->dequeued == false) is reached for each node by one caller of QueueDrain only.
THEOREM NeverTwice ==
  ASSUME ~Reuse
  PROVE  Spec => []NeverDequeuedTwice
<1>1. ASSUME QueueInv PROVE NeverDequeuedTwice
  <2>1. PICK s \in Chains : \E h, l \in 1..Len(s) : ListInv(s, h, l)
    BY <1>1 DEF QueueInv
  <2>2. PICK h \in 1..Len(s), l \in 1..Len(s) : ListInv(s, h, l)
    BY <2>1
  <2>3. ASSUME NEW t \in Threads, pc[t] = "D_assert"
        PROVE  loc[t].next \in Nodes /\ ~ mem[loc[t].next].dequeued
    BY <2>2, <2>3, Follows, NextIs DEF Decided
  <2> QED
    BY <2>3 DEF NeverDequeuedTwice
<1> QED
  BY <1>1, QueueSafe, PTL

------------------------------------------------------------------------------
(* The queue is the abstract one. *)

\* What Contents is of a chain, as one formula, so that it can be had of the next state too.
ContentsOfChain ==
  \A s \in Chains : \A h, l \in 1..Len(s) : InvChain(s) /\ InvEnds(s, h, l) =>
    /\ Contents = [i \in 1..(Len(s) - h) |-> mem[s[h + i]].element]
    /\ Contents = <<>> <=> h = Len(s)

\* It holds before a step and after it.
LEMMA ContentsBoth == ContentsOfChain /\ ContentsOfChain'
<1>1. ContentsOfChain
  BY ContentsAre, EmptyWhen DEF ContentsOfChain
<1> QED
  BY <1>1, PTL

\* What the abstract queue sees of all threads.
Calls == [t \in Threads |-> AbstractCall(t)]

\* A step of a thread changes what is seen of no other.
LEMMA CallsChange ==
  ASSUME NEW t \in Threads, \A u \in Threads \ {t} : pc'[u] = pc[u] /\ loc'[u] = loc[u]
  PROVE  Calls' = [Calls EXCEPT ![t] = AbstractCall(t)'] /\ Calls[t] = AbstractCall(t)
<1>1. ASSUME NEW u \in Threads, u # t PROVE AbstractCall(u)' = AbstractCall(u)
  BY <1>1 DEF AbstractCall
<1>2. Calls' = [u \in Threads |-> AbstractCall(u)']
  BY DEF Calls
<1> QED
  BY <1>1, <1>2 DEF Calls

\* What is seen of a thread, by where it is.
LEMMA SeenAs ==
  ASSUME NEW t \in Threads
  PROVE  /\ pc[t] = "idle" => AbstractCall(t) = [op |-> "idle"]
         /\ pc[t] = "E_swing" => AbstractCall(t) = [op |-> "enqueued"]
         /\ pc[t] \in Unlinked \cup {"E_malloc"} =>
              AbstractCall(t) = [op |-> "enqueuing", element |-> loc[t].element]
         /\ pc[t] \in Decided => AbstractCall(t) = [op |-> "drained", element |-> loc[t].element]
         /\ pc[t] \in DrainLabels \ Decided => AbstractCall(t) = [op |-> "draining"]
  BY DEF AbstractCall, EnqueueLabels, DrainLabels, Unlinked, Decided

\* The same, before a step and after it.
Seen ==
  \A t \in Threads :
    /\ pc[t] = "idle" => AbstractCall(t) = [op |-> "idle"]
    /\ pc[t] = "E_swing" => AbstractCall(t) = [op |-> "enqueued"]
    /\ pc[t] \in Unlinked \cup {"E_malloc"} =>
         AbstractCall(t) = [op |-> "enqueuing", element |-> loc[t].element]
    /\ pc[t] \in Decided => AbstractCall(t) = [op |-> "drained", element |-> loc[t].element]
    /\ pc[t] \in DrainLabels \ Decided => AbstractCall(t) = [op |-> "draining"]

\* It holds in both.
LEMMA SeenBoth == Seen /\ Seen'
<1>1. Seen
  BY SeenAs DEF Seen
<1> QED
  BY <1>1, PTL

\* A step that leaves the elements where they are changes no contents.
LEMMA ContentsKeep ==
  ASSUME NEW s \in Chains, NEW h \in 1..Len(s), NEW l \in 1..Len(s), InvChain(s),
         InvEnds(s, h, l), InvChain(s)', InvEnds(s, h, l)',
         \A i \in 1..Len(s) : mem'[s[i]].element = mem[s[i]].element
  PROVE  Contents' = Contents
<1>s. Len(s) \in Nat /\ h \in Nat /\ h >= 1
  BY ChainShape
<1>1. /\ Contents = [i \in 1..(Len(s) - h) |-> mem[s[h + i]].element]
      /\ Contents' = [i \in 1..(Len(s) - h) |-> mem'[s[h + i]].element]
  BY ContentsBoth DEF ContentsOfChain
<1>2. \A i \in 1..(Len(s) - h) : h + i \in 1..Len(s)
  BY <1>s
<1> QED
  BY <1>1, <1>2

\* A step that leaves queue->head and the memory alone changes no contents either.
LEMMA ContentsSame == ASSUME UNCHANGED <<qhead, mem>> PROVE Contents' = Contents
  BY DEF Contents, FromHead

\* A step of which the abstract queue sees nothing.
LEMMA Unseen ==
  ASSUME NEW t \in Threads, \A u \in Threads \ {t} : pc'[u] = pc[u] /\ loc'[u] = loc[u],
         \/ /\ pc[t] \in Unlinked \cup {"E_malloc"} /\ pc'[t] \in Unlinked \cup {"E_malloc"}
            /\ loc'[t].element = loc[t].element
         \/ pc[t] \in Decided /\ pc'[t] \in Decided /\ loc'[t].element = loc[t].element
         \/ pc[t] \in DrainLabels \ Decided /\ pc'[t] \in DrainLabels \ Decided,
         Contents' = Contents, UNCHANGED sawEmpty
  PROVE  UNCHANGED Fifo!vars
<1>1. AbstractCall(t)' = AbstractCall(t)
  BY SeenBoth DEF Seen
<1>2. Calls' = Calls
  BY <1>1, CallsChange DEF Calls
<1> QED
  BY <1>2 DEF Fifo!vars, Calls

\* A chain that gets longer by a node has one element more.
LEMMA ContentsGrow ==
  ASSUME NEW s \in Chains, NEW h \in 1..Len(s), NEW l \in 1..Len(s), InvChain(s),
         InvEnds(s, h, l), NEW node \in Nodes, NEW s2 \in Chains, s2 = Append(s, node),
         h \in 1..Len(s2), l \in 1..Len(s2), InvChain(s2)', InvEnds(s2, h, l)',
         \A x \in Nodes : mem'[x].element = mem[x].element
  PROVE  Contents' = Append(Contents, mem[node].element)
<1> DEFINE n == Len(s) - h
<1>s. Len(s) \in Nat /\ h \in Nat /\ h <= Len(s) /\ n \in Nat /\ s \in Seq(Nodes)
      /\ \A i \in 1..Len(s) : s[i] \in Nodes
  BY ChainShape
<1>3. /\ Len(s2) = Len(s) + 1 /\ s2[Len(s) + 1] = node
      /\ \A i \in 1..Len(s) : s2[i] = s[i]
  BY <1>s
<1>4. /\ Contents = [i \in 1..n |-> mem[s[h + i]].element]
      /\ Contents' = [i \in 1..(Len(s2) - h) |-> mem'[s2[h + i]].element]
  BY ContentsBoth DEF ContentsOfChain
<1> DEFINE e == mem[node].element
<1>7. Len(s2) - h = n + 1
  BY <1>3, <1>s
<1>8. \A i \in 1..n : h + i \in 1..Len(s)
  BY <1>s
<1>9. ASSUME NEW i \in 1..(n + 1)
      PROVE  mem'[s2[h + i]].element = IF i <= n THEN mem[s[h + i]].element ELSE e
  <2>1. CASE i \in 1..n
    BY <2>1, <1>3, <1>8, <1>s
  <2>2. CASE i = n + 1
    <3>1. h + i = Len(s) + 1
      BY <2>2, <1>s
    <3> QED
      BY <2>2, <3>1, <1>3, <1>s
  <2> QED
    BY <2>1, <2>2, <1>s
<1> DEFINE V == {mem[s[h + i]].element : i \in 1..n} \cup {e}
<1>10. Contents \in Seq(V) /\ Len(Contents) = n /\ \A i \in 1..n : Contents[i] = mem[s[h + i]].element
  <2>1. Contents \in [1..n -> V] /\ \A i \in 1..n : Contents[i] = mem[s[h + i]].element
    BY <1>4
  <2>2. n \in Nat
    BY <1>s
  <2> HIDE DEF n, V
  <2>3. Contents \in Seq(V) /\ Len(Contents) = n
    BY ONLY <2>1, <2>2, SMTT(30)
  <2> QED
    BY <2>1, <2>3
<1>11. e \in V /\ n \in Nat
  BY <1>s
<1> HIDE DEF n, V, e
<1> DEFINE q == Append(Contents, e)
<1>12. q \in Seq(V) /\ Len(q) = n + 1 /\ q[n + 1] = e /\ \A i \in 1..n : q[i] = Contents[i]
  BY <1>10, <1>11, AppendProperties
<1>13. q = [i \in 1..(n + 1) |-> q[i]]
  BY <1>11, <1>12, LenProperties
<1>14. \A i \in 1..(n + 1) : q[i] = IF i <= n THEN mem[s[h + i]].element ELSE e
  BY <1>10, <1>11, <1>12
<1>15. \A i \in 1..(n + 1) : mem'[s2[h + i]].element = q[i]
  BY <1>9, <1>14
<1>16. Contents' = [i \in 1..(n + 1) |-> mem'[s2[h + i]].element]
  BY <1>4, <1>7
<1> HIDE DEF q
<1>17. Contents' = q
  BY <1>13, <1>15, <1>16
<1> QED
  BY <1>17 DEF q, e

\* The steps of an enqueue, if malloc changes no contents and the link appends to them.
LEMMA EnqueueMaps ==
  ASSUME TypeOK, NEW t \in Threads, Enqueue(t), Malloc(t) => Contents' = Contents,
         Link(t) /\ pc'[t] = "E_swing" => Contents' = Append(Contents, loc[t].element)
  PROVE  Fifo!Next \/ UNCHANGED Fifo!vars
<1> USE DEF At
<1>1. CASE CallEnqueue(t)
  <2>1. PICK e \in Elements : Set(t, "element", e)
    BY <1>1 DEF CallEnqueue
  <2>2. /\ pc[t] = "idle" /\ pc'[t] = "E_malloc" /\ loc'[t].element = e
        /\ \A u \in Threads \ {t} : pc'[u] = pc[u] /\ loc'[u] = loc[u]
    BY <1>1, <2>1, SetElement, Goes DEF CallEnqueue, EnqueueLabels
  <2>3. AbstractCall(t) = Fifo!Idle /\ AbstractCall(t)' = Fifo!Enqueuing(e)
    BY <2>2, SeenBoth DEF Seen, Fifo!Idle, Fifo!Enqueuing
  <2>4. Contents' = Contents /\ UNCHANGED sawEmpty /\ t \in Producers
    BY <1>1, ContentsSame DEF CallEnqueue, shared
  <2>5. Fifo!CallEnqueue(t, e)
    BY <2>2, <2>3, <2>4, CallsChange DEF Fifo!CallEnqueue, Fifo!Become, Calls
  <2> QED
    BY <2>5 DEF Fifo!Next, Fifo!Threads, Threads
<1>2. CASE Malloc(t)
  <2>1. PICK n \in Available :
          /\ mem' = [mem EXCEPT ![n] = [Zeroed EXCEPT !.element = loc[t].element]]
          /\ Set(t, "node", n)
    BY <1>2 DEF Malloc
  <2>2. n \in Pointers
    BY <2>1 DEF Available, Pointers
  <2>3. /\ pc[t] = "E_malloc" /\ pc'[t] = "E_tail" /\ loc'[t].element = loc[t].element
        /\ \A u \in Threads \ {t} : pc'[u] = pc[u] /\ loc'[u] = loc[u]
    BY <1>2, <2>1, <2>2, SetNode, Goes DEF Malloc, EnqueueLabels
  <2> QED
    BY <1>2, <2>3, Unseen DEF Malloc, Unlinked
<1>3. CASE MallocFails(t)
  <2>1. /\ pc[t] = "E_malloc" /\ pc'[t] = "idle"
        /\ \A u \in Threads \ {t} : pc'[u] = pc[u] /\ loc'[u] = loc[u]
    BY <1>3, Returns DEF MallocFails
  <2>2. AbstractCall(t).op = "enqueuing" /\ AbstractCall(t)' = Fifo!Idle
    BY <2>1, SeenBoth DEF Seen, Fifo!Idle
  <2>3. Contents' = Contents /\ UNCHANGED sawEmpty
    BY <1>3, ContentsSame DEF MallocFails, shared
  <2>4. Fifo!DropEnqueue(t)
    BY <2>1, <2>2, <2>3, CallsChange DEF Fifo!DropEnqueue, Fifo!Become, Calls
  <2> QED
    BY <2>4 DEF Fifo!Next, Fifo!Threads, Threads
<1>4. CASE ReadTail(t)
  <2>1. /\ pc[t] = "E_tail" /\ pc'[t] = "E_next" /\ loc'[t].element = loc[t].element
        /\ \A u \in Threads \ {t} : pc'[u] = pc[u] /\ loc'[u] = loc[u]
    BY <1>4, SetTail, Goes DEF ReadTail, EnqueueLabels, TypeOK
  <2> QED
    BY <1>4, <2>1, ContentsSame, Unseen DEF ReadTail, Unlinked, shared
<1>5. CASE ReadTailNext(t)
  <2>1. /\ pc[t] = "E_next" /\ pc'[t] = "E_check" /\ loc'[t].element = loc[t].element
        /\ \A u \in Threads \ {t} : pc'[u] = pc[u] /\ loc'[u] = loc[u]
    <3>1. PICK v \in Load(loc[t].tail, "next") : Set(t, "next", v)
      BY <1>5 DEF ReadTailNext
    <3>2. v \in Pointers
      BY <3>1, Loads DEF TypeOK
    <3> QED
      BY <1>5, <3>1, <3>2, SetNext, Goes DEF ReadTailNext, EnqueueLabels
  <2> QED
    BY <1>5, <2>1, ContentsSame, Unseen DEF ReadTailNext, Unlinked, shared
<1>6. CASE CheckTail(t)
  <2>1. /\ pc[t] = "E_check" /\ pc'[t] \in {"E_tail", "E_link", "E_help"} /\ loc' = loc
        /\ \A u \in Threads \ {t} : pc'[u] = pc[u] /\ loc'[u] = loc[u]
    BY <1>6, Goes DEF CheckTail, EnqueueLabels
  <2> QED
    BY <1>6, <2>1, ContentsSame, Unseen DEF CheckTail, Unlinked, shared
<1>7. CASE Link(t) /\ pc'[t] = "E_swing"
  <2>1. /\ pc[t] = "E_link" /\ loc' = loc /\ UNCHANGED sawEmpty
        /\ \A u \in Threads \ {t} : pc'[u] = pc[u] /\ loc'[u] = loc[u]
    BY <1>7, Goes DEF Link, EnqueueLabels
  <2>2. /\ AbstractCall(t) = [op |-> "enqueuing", element |-> loc[t].element]
        /\ AbstractCall(t)' = Fifo!Enqueued
    BY <1>7, <2>1, SeenBoth DEF Seen, Unlinked, Fifo!Enqueued
  <2>3. Contents' = Append(Contents, loc[t].element)
    BY <1>7
  <2>4. Fifo!DoEnqueue(t)
    BY <2>1, <2>2, <2>3, CallsChange DEF Fifo!DoEnqueue, Fifo!Become, Calls
  <2> QED
    BY <2>4 DEF Fifo!Next, Fifo!Threads, Threads
<1>8. CASE Link(t) /\ pc'[t] # "E_swing"
  <2>1. ~Goto(t, "E_swing")
    BY <1>8, Goes DEF EnqueueLabels
  <2>2. /\ pc[t] = "E_link" /\ pc'[t] = "E_tail" /\ loc' = loc /\ UNCHANGED <<qhead, mem, sawEmpty>>
        /\ \A u \in Threads \ {t} : pc'[u] = pc[u] /\ loc'[u] = loc[u]
    BY <1>8, <2>1, Goes DEF Link, EnqueueLabels
  <2> QED
    BY <2>2, ContentsSame, Unseen DEF Unlinked
<1>9. CASE HelpTail(t)
  <2>1. /\ pc[t] = "E_help" /\ pc'[t] = "E_tail" /\ loc' = loc
        /\ \A u \in Threads \ {t} : pc'[u] = pc[u] /\ loc'[u] = loc[u]
    BY <1>9, Goes DEF HelpTail, EnqueueLabels
  <2> QED
    BY <1>9, <2>1, ContentsSame, Unseen DEF HelpTail, Unlinked
<1>10. CASE SwingTail(t)
  <2>1. /\ pc[t] = "E_swing" /\ pc'[t] = "idle"
        /\ \A u \in Threads \ {t} : pc'[u] = pc[u] /\ loc'[u] = loc[u]
    BY <1>10, Returns DEF SwingTail
  <2>2. AbstractCall(t) = Fifo!Enqueued /\ AbstractCall(t)' = Fifo!Idle
    BY <2>1, SeenBoth DEF Seen, Fifo!Enqueued, Fifo!Idle
  <2>3. Contents' = Contents /\ UNCHANGED sawEmpty
    BY <1>10, ContentsSame DEF SwingTail
  <2>4. Fifo!ReturnEnqueue(t)
    BY <2>1, <2>2, <2>3, CallsChange DEF Fifo!ReturnEnqueue, Fifo!Become, Calls
  <2> QED
    BY <2>4 DEF Fifo!Next, Fifo!Threads, Threads
<1> QED
  BY <1>1, <1>2, <1>3, <1>4, <1>5, <1>6, <1>7, <1>8, <1>9, <1>10 DEF Enqueue

\* When queue->head moves on by a node, the first element is gone.
LEMMA ContentsShrink ==
  ASSUME NEW s \in Chains, NEW h \in 1..Len(s), NEW l \in 1..Len(s), InvChain(s),
         InvEnds(s, h, l), h < l, qhead' = s[h + 1], UNCHANGED <<qtail, mem>>
  PROVE  /\ Contents # <<>> /\ Head(Contents) = mem[s[h + 1]].element /\ Contents' = Tail(Contents)
         /\ mem[s[h + 1]].next = NULL => Contents' = <<>>
         /\ Contents' = <<>> => mem[s[h + 1]].next = NULL
<1> DEFINE n == Len(s) - h
<1>s. /\ Len(s) \in Nat /\ h \in Nat /\ 1 <= h /\ h <= Len(s) /\ l \in Nat /\ l <= Len(s)
      /\ \A i \in 1..Len(s) : s[i] \in Nodes
  BY ChainShape
<1>1. /\ h + 1 \in 1..Len(s) /\ l \in (h + 1)..Len(s)
      /\ h + 1 = Len(s) => mem[s[h + 1]].next = NULL
      /\ mem[s[h + 1]].next = NULL => h + 1 = Len(s)
  <2>1. h + 1 \in 1..Len(s) /\ l \in (h + 1)..Len(s)
    BY <1>s
  <2>2. mem[s[h + 1]].next = IF h + 1 < Len(s) THEN s[(h + 1) + 1] ELSE NULL
    BY <2>1 DEF InvChain
  <2>3. h + 1 < Len(s) => (h + 1) + 1 \in 1..Len(s) /\ s[(h + 1) + 1] # NULL
    BY <1>s
  <2> QED
    BY <2>1, <2>2, <2>3, <1>s
<1>2. InvChain(s)' /\ InvEnds(s, h + 1, l)' /\ UNCHANGED mem
  BY <1>1 DEF InvChain, InvEnds
<1>3. /\ Contents = [i \in 1..n |-> mem[s[h + i]].element]
      /\ Contents' = [i \in 1..(Len(s) - (h + 1)) |-> mem'[s[(h + 1) + i]].element]
      /\ Contents' = <<>> => h + 1 = Len(s)
      /\ h + 1 = Len(s) => Contents' = <<>>
  BY <1>1, <1>2, ContentsBoth DEF ContentsOfChain
<1>4. n \in Nat \ {0} /\ Len(s) - (h + 1) = n - 1
  <2>1. h + 1 <= Len(s)
    BY <1>1
  <2>2. n >= 1
    BY <2>1, <1>s
  <2> QED
    BY <2>2, <1>s
<1> DEFINE V == {mem[s[h + i]].element : i \in 1..n}
<1>5. Contents \in [1..n -> V] /\ \A i \in 1..n : Contents[i] = mem[s[h + i]].element
  BY <1>3
<1> HIDE DEF n, V
<1>6. Contents \in Seq(V) /\ Len(Contents) = n
  BY ONLY <1>4, <1>5
<1>7. Contents # <<>>
  BY <1>4, <1>6
<1> DEFINE q == Tail(Contents)
<1>8. q \in Seq(V) /\ Len(q) = n - 1 /\ Head(Contents) = Contents[1]
      /\ \A i \in 1..(n - 1) : q[i] = Contents[i + 1]
  BY <1>6, <1>7, HeadTailProperties
<1>9. q = [i \in 1..(n - 1) |-> q[i]]
  BY <1>4, <1>8, LenProperties
<1>10. \A i \in 1..(n - 1) : q[i] = mem'[s[(h + 1) + i]].element
  <2> SUFFICES ASSUME NEW i \in 1..(n - 1) PROVE q[i] = mem'[s[(h + 1) + i]].element
    OBVIOUS
  <2>1. i + 1 \in 1..n /\ h + (i + 1) = (h + 1) + i
    BY <1>4, <1>s
  <2> QED
    BY <1>2, <1>5, <1>8, <2>1
<1>11. Contents' = [i \in 1..(n - 1) |-> mem'[s[(h + 1) + i]].element]
  BY <1>3, <1>4
<1> HIDE DEF q
<1>12. Contents' = q
  BY <1>9, <1>10, <1>11
<1>13. Head(Contents) = mem[s[h + 1]].element
  <2>1. 1 \in 1..n
    BY <1>4
  <2> QED
    BY <1>1, <1>5, <1>8, <2>1
<1> QED
  BY <1>1, <1>3, <1>7, <1>12, <1>13 DEF q

\* What the CAS of queue->head does to the contents, for DrainMaps.
TakesFirst(t) ==
  /\ Contents # <<>> /\ Head(Contents) = loc[t].element /\ Contents' = Tail(Contents)
  /\ mem[loc[t].next].next = NULL => Contents' = <<>>
  /\ Contents' = <<>> => mem[loc[t].next].next = NULL

\* The steps of a drain, if the CAS of queue->head takes the first element, the mark changes no
\* contents, and who returns NULL has seen the queue empty.
LEMMA DrainMaps ==
  ASSUME TypeOK, NEW t \in Threads, Drain(t), ReturnEmpty(t) => sawEmpty[t],
         CasHead(t) /\ qhead = loc[t].head => TakesFirst(t),
         MarkDequeued(t) => Contents' = Contents
  PROVE  Fifo!Next \/ UNCHANGED Fifo!vars
<1> USE DEF At
<1>1. CASE CallDrain(t)
  <2>1. /\ pc[t] = "idle" /\ pc'[t] = "D_head"
        /\ \A u \in Threads \ {t} : pc'[u] = pc[u] /\ loc'[u] = loc[u]
    BY <1>1, Goes DEF CallDrain, DrainLabels
  <2>2. AbstractCall(t) = Fifo!Idle /\ AbstractCall(t)' = Fifo!Draining
    BY <2>1, SeenBoth DEF Seen, Fifo!Idle, Fifo!Draining, DrainLabels, Decided
  <2>3. /\ Contents' = Contents /\ t \in Consumers
        /\ sawEmpty' = [sawEmpty EXCEPT ![t] = Contents = <<>>]
    BY <1>1, ContentsSame DEF CallDrain, shared
  <2>4. Fifo!CallDrain(t)
    BY <2>1, <2>2, <2>3, CallsChange DEF Fifo!CallDrain, Fifo!Become, Calls
  <2> QED
    BY <2>4 DEF Fifo!Next, Fifo!Threads, Threads
<1>2. CASE ReadHead(t) \/ ReadDrainTail(t) \/ ReadHeadNext(t) \/ CheckHead(t) \/ HelpDrainTail(t)
           \/ ReadElement(t)
  <2>1. /\ pc[t] \in DrainLabels \ Decided /\ pc'[t] \in DrainLabels \ Decided
        /\ UNCHANGED <<qhead, mem, sawEmpty>> /\ \A u \in Threads \ {t} : pc'[u] = pc[u]
    BY <1>2, Goes DEF ReadHead, ReadDrainTail, ReadHeadNext, CheckHead, HelpDrainTail, ReadElement,
       shared, DrainLabels, Decided
  <2>2. \A u \in Threads \ {t} : loc'[u] = loc[u]
    BY <1>2 DEF ReadHead, ReadDrainTail, ReadHeadNext, CheckHead, HelpDrainTail, ReadElement, Set,
       TypeOK
  <2> QED
    BY <2>1, <2>2, ContentsSame, Unseen
<1>3. CASE ReturnEmpty(t)
  <2>1. /\ pc[t] = "D_check" /\ pc'[t] = "idle" /\ qhead = loc[t].head /\ loc[t].next = NULL
        /\ \A u \in Threads \ {t} : pc'[u] = pc[u] /\ loc'[u] = loc[u]
    BY <1>3, Returns DEF ReturnEmpty
  <2>2. AbstractCall(t) = Fifo!Draining /\ AbstractCall(t)' = Fifo!Idle
    BY <2>1, SeenBoth DEF Seen, Fifo!Idle, Fifo!Draining, DrainLabels, Decided
  <2>3. sawEmpty[t]
    BY <1>3
  <2>4. Contents' = Contents /\ sawEmpty' = [sawEmpty EXCEPT ![t] = FALSE]
    BY <1>3, ContentsSame DEF ReturnEmpty, shared
  <2>5. Fifo!ReturnEmpty(t)
    BY <2>1, <2>2, <2>3, <2>4, CallsChange DEF Fifo!ReturnEmpty, Fifo!Become, Calls
  <2> QED
    BY <2>5 DEF Fifo!Next, Fifo!Threads, Threads
<1>4. CASE CasHead(t) /\ qhead = loc[t].head
  <2>1. /\ pc[t] = "D_cas" /\ pc'[t] = "D_assert" /\ loc' = loc
        /\ \A u \in Threads \ {t} : pc'[u] = pc[u] /\ loc'[u] = loc[u]
    BY <1>4, Goes DEF CasHead, DrainLabels
  <2>2. AbstractCall(t) = Fifo!Draining /\ AbstractCall(t)' = Fifo!Drained(loc[t].element)
    BY <2>1, SeenBoth DEF Seen, Fifo!Drained, Fifo!Draining, DrainLabels, Decided
  <2>3. /\ Contents # <<>> /\ Head(Contents) = loc[t].element /\ Contents' = Tail(Contents)
        /\ mem[loc[t].next].next = NULL => Contents' = <<>>
        /\ Contents' = <<>> => mem[loc[t].next].next = NULL
    BY <1>4 DEF TakesFirst
  <2>4. \A u \in Threads : Calls[u] = Fifo!Draining <=> pc[u] \in DrainLabels \ Decided
    <3> SUFFICES ASSUME NEW u \in Threads
                 PROVE  AbstractCall(u) = [op |-> "draining"] <=> pc[u] \in DrainLabels \ Decided
      BY DEF Calls, Fifo!Draining
    <3> QED
      BY DEF AbstractCall, TypeOK, DrainLabels, EnqueueLabels, Decided
  <2>5. sawEmpty' = [u \in Threads |-> /\ u # t
                                       /\ \/ sawEmpty[u]
                                          \/ Calls[u] = Fifo!Draining /\ Contents' = <<>>]
    <3>1. sawEmpty' = [u \in Threads |->
                         /\ u # t
                         /\ \/ sawEmpty[u]
                            \/ /\ pc[u] \in DrainLabels \ Decided
                               /\ mem[loc[t].next].next = NULL]
      BY <1>4 DEF CasHead, Decided
    <3> QED
      BY <2>3, <2>4, <3>1
  <2>6. Calls' = [Calls EXCEPT ![t] = Fifo!Drained(Head(Contents))] /\ Calls[t] = Fifo!Draining
    BY <2>1, <2>2, <2>3, CallsChange
  <2>7. Fifo!DoDrain(t)
    BY <2>3, <2>5, <2>6 DEF Fifo!DoDrain, Fifo!Become, Fifo!Threads, Threads, Calls
  <2> QED
    BY <2>7 DEF Fifo!Next, Fifo!Threads, Threads
<1>5. CASE CasHead(t) /\ qhead # loc[t].head
  <2>1. /\ pc[t] = "D_cas" /\ pc'[t] = "D_head" /\ loc' = loc /\ UNCHANGED <<qhead, mem, sawEmpty>>
        /\ \A u \in Threads \ {t} : pc'[u] = pc[u] /\ loc'[u] = loc[u]
    BY <1>5, Goes DEF CasHead, DrainLabels
  <2> QED
    BY <2>1, ContentsSame, Unseen DEF DrainLabels, Decided
<1>6. CASE AssertNotDequeued(t)
  <2>1. /\ pc[t] = "D_assert" /\ pc'[t] = "D_mark" /\ loc' = loc /\ UNCHANGED <<qhead, mem, sawEmpty>>
        /\ \A u \in Threads \ {t} : pc'[u] = pc[u] /\ loc'[u] = loc[u]
    BY <1>6, Goes DEF AssertNotDequeued, DrainLabels, shared
  <2> QED
    BY <2>1, ContentsSame, Unseen DEF Decided
<1>7. CASE MarkDequeued(t)
  <2>1. /\ pc[t] = "D_mark" /\ pc'[t] = "D_free" /\ loc' = loc /\ UNCHANGED sawEmpty
        /\ \A u \in Threads \ {t} : pc'[u] = pc[u] /\ loc'[u] = loc[u]
    BY <1>7, Goes DEF MarkDequeued, DrainLabels
  <2> QED
    BY <1>7, <2>1, Unseen DEF Decided
<1>8. CASE FreeHead(t)
  <2>1. /\ pc[t] = "D_free" /\ pc'[t] = "idle"
        /\ \A u \in Threads \ {t} : pc'[u] = pc[u] /\ loc'[u] = loc[u]
    BY <1>8, Returns DEF FreeHead
  <2>2. AbstractCall(t).op = "drained" /\ AbstractCall(t)' = Fifo!Idle
    BY <2>1, SeenBoth DEF Seen, Decided, Fifo!Idle
  <2>3. Contents' = Contents /\ UNCHANGED sawEmpty
    BY <1>8, ContentsSame DEF FreeHead
  <2>4. Fifo!ReturnDrained(t)
    BY <2>1, <2>2, <2>3, CallsChange DEF Fifo!ReturnDrained, Fifo!Become, Calls
  <2> QED
    BY <2>4 DEF Fifo!Next, Fifo!Threads, Threads
<1> QED
  BY <1>1, <1>2, <1>3, <1>4, <1>5, <1>6, <1>7, <1>8 DEF Drain

\* Without recycled memory the steps of an enqueue are those of the abstract queue.
LEMMA EnqueueRefines ==
  ASSUME TypeOK, InvOwners, ~Reuse, NEW s \in Chains, NEW h \in 1..Len(s), NEW l \in 1..Len(s),
         ListInv(s, h, l), NEW t \in Threads, Enqueue(t)
  PROVE  Fifo!Next \/ UNCHANGED Fifo!vars
<1> USE DEF At
<1>s. \A i \in 1..Len(s) : s[i] \in Nodes
  BY ChainShape
<1>1. ASSUME Malloc(t) PROVE Contents' = Contents
  <2>1. PICK n \in Available : mem' = [mem EXCEPT ![n] = [Zeroed EXCEPT !.element = loc[t].element]]
    BY <1>1 DEF Malloc
  <2>2. n \in Nodes /\ heap[n] = "fresh"
    <3>1. n \in {m \in Nodes : heap[m] = "fresh"}
      BY <2>1, Zenon DEF Available
    <3> QED
      BY <3>1
  <2>3. \A i \in 1..Len(s) : mem'[s[i]].element = mem[s[i]].element
    <3>1. \A i \in 1..Len(s) : s[i] # n
      BY <2>2 DEF ListInv, InvHeap
    <3> QED
      BY <2>1, <2>2, <3>1, <1>s DEF TypeOK
  <2>4. ListInv(s, h, l)'
    BY <1>1, MallocStep
  <2> QED
    BY <2>3, <2>4, ContentsKeep DEF ListInv
<1>2. ASSUME Link(t), pc'[t] = "E_swing" PROVE Contents' = Append(Contents, loc[t].element)
  <2>1. PICK s2 : s2 = Append(s, loc[t].node)
    OBVIOUS
  <2>2. /\ s2 \in Chains /\ h \in 1..Len(s2) /\ l \in 1..Len(s2) /\ ListInv(s2, h, l)'
        /\ mem' = [mem EXCEPT ![s[Len(s)]].next = loc[t].node] /\ loc[t].node \in Nodes
    BY <1>2, <2>1, Links
  <2>3. \A x \in Nodes : mem'[x].element = mem[x].element
    BY <2>2 DEF TypeOK
  <2>4. mem[loc[t].node].element = loc[t].element
    <3>1. pc[t] = "E_link"
      BY <1>2 DEF Link
    <3> QED
      BY <3>1 DEF ListInv, Prepares, Unlinked, Zeroed
  <2> QED
    <3>1. InvChain(s) /\ InvEnds(s, h, l) /\ InvChain(s2)' /\ InvEnds(s2, h, l)'
      BY <2>2 DEF ListInv
    <3> QED
      BY <2>1, <2>2, <2>3, <2>4, <3>1, ContentsGrow, ZenonT(60)
<1> QED
  BY <1>1, <1>2, EnqueueMaps

\* And so are those of a drain.
LEMMA DrainRefines ==
  ASSUME TypeOK, InvOwners, ~Reuse, NEW s \in Chains, NEW h \in 1..Len(s), NEW l \in 1..Len(s),
         ListInv(s, h, l), NEW t \in Threads, Drain(t)
  PROVE  Fifo!Next \/ UNCHANGED Fifo!vars
<1> USE DEF At
<1>s. /\ Len(s) \in Nat \ {0} /\ h \in Nat /\ l \in Nat /\ 1 <= h /\ h <= l /\ l <= Len(s)
      /\ \A i \in 1..Len(s) : s[i] \in Nodes
  BY ChainShape DEF ListInv, InvEnds
<1>1. ASSUME ReturnEmpty(t) PROVE sawEmpty[t]
  <2>1. pc[t] = "D_check" /\ qhead = loc[t].head /\ loc[t].next = NULL
    BY <1>1 DEF ReturnEmpty
  <2>2. PICK k \in 1..h : DrainsFrom(t, s, h, l, k)
    BY <2>1 DEF ListInv, Drains, DrainLabels
  <2>3. k < Len(s) => s[k + 1] \in Nodes
    BY <1>s
  <2> QED
    BY <2>1, <2>2, <2>3 DEF DrainsFrom
<1>2. ASSUME CasHead(t), qhead = loc[t].head PROVE TakesFirst(t)
  <2>1. /\ h < l /\ loc[t].next = s[h + 1] /\ qhead' = s[h + 1]
        /\ loc[t].element = mem[s[h + 1]].element
    <3>1. Takes(t, s, h, l)
      BY <1>2, CasTakes
    <3> QED
      BY <3>1 DEF Takes
  <2>2. UNCHANGED <<qtail, mem>> /\ InvChain(s) /\ InvEnds(s, h, l)
    BY <1>2 DEF CasHead, ListInv
  <2> QED
    BY <2>1, <2>2, ContentsShrink DEF TakesFirst
<1>3. ASSUME MarkDequeued(t) PROVE Contents' = Contents
  <2>1. \A i \in 1..Len(s) : mem'[s[i]].element = mem[s[i]].element
    BY <1>3, <1>s DEF MarkDequeued, TypeOK
  <2>2. ListInv(s, h, l)'
    BY <1>3, MarkStep
  <2> QED
    BY <2>1, <2>2, ContentsKeep DEF ListInv
<1> QED
  BY <1>1, <1>2, <1>3, DrainMaps

\* The queue that QueueCreate makes is empty.
LEMMA InitRefines ==
  ASSUME Init
  PROVE  Fifo!Init
<1>1. Contents = <<>>
  <2>1. PICK s \in Chains : Len(s) = 1 /\ ListInv(s, 1, 1)
    BY QueueInit
  <2>2. 1 \in 1..Len(s)
    BY <2>1
  <2> QED
    BY <2>1, <2>2, EmptyWhen DEF ListInv
<1>2. Calls = [t \in Threads |-> Fifo!Idle]
  BY SeenBoth DEF Seen, Calls, Init, Fifo!Idle
<1> QED
  BY <1>1, <1>2 DEF Init, Fifo!Init, Fifo!Threads, Threads, Calls

\* Where nothing happens, the abstract queue sees nothing.
LEMMA StutterRefines ==
  ASSUME UNCHANGED vars
  PROVE  UNCHANGED Fifo!vars
<1>1. Calls' = Calls
  BY DEF vars, Calls, AbstractCall
<1>2. Contents' = Contents /\ UNCHANGED sawEmpty
  BY ContentsSame DEF vars
<1> QED
  BY <1>1, <1>2 DEF Fifo!vars, Calls

\* A step of the queue is one of the abstract queue, or none.
LEMMA QueueRefines ==
  ASSUME QueueInv, ~Reuse, [Next]_vars
  PROVE  Fifo!Next \/ UNCHANGED Fifo!vars
<1>1. CASE UNCHANGED vars
  BY <1>1, StutterRefines
<1>2. ASSUME NEW t \in Threads, Enqueue(t) \/ Drain(t) PROVE Fifo!Next \/ UNCHANGED Fifo!vars
  <2>1. PICK s \in Chains : \E h, l \in 1..Len(s) : ListInv(s, h, l)
    BY DEF QueueInv
  <2>2. PICK h \in 1..Len(s), l \in 1..Len(s) : ListInv(s, h, l)
    BY <2>1
  <2>3. TypeOK /\ InvOwners
    BY DEF QueueInv
  <2> QED
    BY <1>2, <2>2, <2>3, EnqueueRefines, DrainRefines
<1> QED
  BY <1>1, <1>2 DEF Next

\* When malloc returns no node that was freed, queue.c is the FIFO queue that its header
\* announces: each element that is enqueued comes out once and in its turn, and
\* QueueDrain returns NULL only if the queue was empty while it ran.
THEOREM ImplementsFifo ==
  ASSUME ~Reuse
  PROVE  Spec => FifoSpec
<1>1. Init => Fifo!Init
  BY InitRefines
<1>2. QueueInv /\ [Next]_vars => [Fifo!Next]_Fifo!vars
  BY QueueRefines
<1> QED
  BY <1>1, <1>2, QueueSafe, PTL DEF Spec, FifoSpec, Fifo!Spec
------------------------------------------------------------------------------
(* One producer and one consumer, with recycled memory or without. *)

\* Only the producer enqueues and only the consumer drains.
LEMMA Roles ==
  ASSUME InvRoles, NEW t \in Threads, Enqueue(t) \/ Drain(t)
  PROVE  /\ Enqueue(t) => t \in Producers /\ pc[t] \in {"idle"} \cup EnqueueLabels
         /\ Drain(t) => t \in Consumers /\ pc[t] \in {"idle"} \cup DrainLabels
<1>1. Enqueue(t) => t \in Producers /\ pc[t] \in {"idle"} \cup EnqueueLabels
  BY DEF InvRoles, Enqueue, CallEnqueue, Malloc, MallocFails, ReadTail, ReadTailNext, CheckTail, Link,
     HelpTail, SwingTail, At, EnqueueLabels
<1>2. Drain(t) => t \in Consumers /\ pc[t] \in {"idle"} \cup DrainLabels
  BY DEF InvRoles, Drain, CallDrain, ReadHead, ReadDrainTail, ReadHeadNext, CheckHead, ReturnEmpty,
     HelpDrainTail, ReadElement, CasHead, AssertNotDequeued, MarkDequeued, FreeHead, At, DrainLabels
<1> QED
  BY <1>1, <1>2

\* Where the steps of a call lead to.
LEMMA StaysInCall ==
  ASSUME TypeOK, NEW t \in Threads
  PROVE  /\ Enqueue(t) => /\ pc'[t] \in {"idle"} \cup EnqueueLabels
                          /\ \A u \in Threads : u # t => pc'[u] = pc[u] /\ loc'[u] = loc[u]
         /\ Drain(t) => /\ pc'[t] \in {"idle"} \cup DrainLabels
                        /\ \A u \in Threads : u # t => pc'[u] = pc[u] /\ loc'[u] = loc[u]
<1>1. Enqueue(t) => pc'[t] \in {"idle"} \cup EnqueueLabels
  BY Goes, Returns DEF TypeOK, Goto, Return, Enqueue, CallEnqueue, Malloc, MallocFails, ReadTail, ReadTailNext,
     CheckTail, Link, HelpTail, SwingTail, EnqueueLabels
<1>2. Drain(t) => pc'[t] \in {"idle"} \cup DrainLabels
  BY DEF TypeOK, Goto, Return, Drain, CallDrain, ReadHead, ReadDrainTail, ReadHeadNext, CheckHead,
     ReturnEmpty, HelpDrainTail, ReadElement, CasHead, AssertNotDequeued, MarkDequeued, FreeHead,
     DrainLabels
<1>3. Enqueue(t) => \A u \in Threads : u # t => pc'[u] = pc[u] /\ loc'[u] = loc[u]
  BY DEF TypeOK, Goto, Return, Set, Enqueue, CallEnqueue, Malloc, MallocFails, ReadTail, ReadTailNext,
     CheckTail, Link, HelpTail, SwingTail
<1>4. Drain(t) => \A u \in Threads : u # t => pc'[u] = pc[u] /\ loc'[u] = loc[u]
  BY DEF TypeOK, Goto, Return, Set, shared, Drain, CallDrain, ReadHead, ReadDrainTail, ReadHeadNext,
     CheckHead, ReturnEmpty, HelpDrainTail, ReadElement, CasHead, AssertNotDequeued, MarkDequeued,
     FreeHead
<1> QED
  BY <1>1, <1>2, <1>3, <1>4

\* So everybody stays in their role.
LEMMA RolesStay ==
  ASSUME TypeOK, InvRoles, NEW t \in Threads, Enqueue(t) \/ Drain(t)
  PROVE  InvRoles'
<1>1. EnqueueLabels \cap DrainLabels = {} /\ "idle" \notin EnqueueLabels \cup DrainLabels
  BY DEF EnqueueLabels, DrainLabels
<1> QED
  BY <1>1, Roles, StaysInCall DEF InvRoles

\* What the producer knows is not touched while it is elsewhere, or not at all.
LEMMA ProducerStays ==
  ASSUME NEW p \in Threads, NEW s, NEW l, SoleProducer(p, s, l), qtail' = qtail,
         \/ pc'[p] = pc[p] /\ loc'[p] = loc[p]
         \/ pc[p] \notin EnqueueLabels /\ pc'[p] \notin EnqueueLabels,
         pc[p] \in Unlinked => /\ mem'[loc[p].node] = mem[loc[p].node]
                               /\ heap'[loc[p].node] = heap[loc[p].node]
  PROVE  SoleProducer(p, s, l)'
<1>1. CASE pc'[p] = pc[p] /\ loc'[p] = loc[p]
  BY <1>1 DEF SoleProducer, Prepares
<1>2. CASE pc[p] \notin EnqueueLabels /\ pc'[p] \notin EnqueueLabels
  BY <1>2 DEF SoleProducer, Prepares, EnqueueLabels, Unlinked
<1> QED
  BY <1>1, <1>2

\* Neither is what the consumer knows, while the chain grows behind it.
LEMMA ConsumerStays ==
  ASSUME NEW c \in Threads, NEW s \in Chains, NEW h \in 1..Len(s), NEW l \in 1..Len(s),
         SoleConsumer(c, s, h, l),
         NEW s2 \in Chains, NEW l2 \in l..Len(s2), Len(s) <= Len(s2),
         \A i \in 1..Len(s) : s2[i] = s[i],
         \/ pc'[c] = pc[c] /\ loc'[c] = loc[c] /\ sawEmpty'[c] = sawEmpty[c]
         \/ pc[c] \notin DrainLabels /\ pc'[c] \notin DrainLabels,
         Len(s) > 1 => /\ mem'[s[2]].element = mem[s[2]].element
                       /\ mem'[s[2]].dequeued = mem[s[2]].dequeued
  PROVE  SoleConsumer(c, s2, h, l2)'
<1>s. Len(s) \in Nat \ {0} /\ Len(s2) \in Nat \ {0} /\ l \in Nat /\ l2 \in Nat /\ h \in Nat /\ h <= Len(s)
      /\ l <= l2 /\ l <= Len(s)
  BY ChainShape
<1>d. "D_head" \in DrainLabels /\ Decided \subseteq DrainLabels
  BY DEF Decided, DrainLabels
<1>1. CASE pc[c] \notin DrainLabels /\ pc'[c] \notin DrainLabels
  BY <1>1, <1>d DEF SoleConsumer, DrainLabels
<1>2. CASE pc'[c] = pc[c] /\ loc'[c] = loc[c] /\ sawEmpty'[c] = sawEmpty[c]
  <2>1. h = IF pc'[c] \in Decided THEN 2 ELSE 1
    BY <1>2 DEF SoleConsumer
  <2>2. pc'[c] \in DrainLabels \ {"D_head"} => loc'[c].head = s2[1]
    BY <1>2, <1>s DEF SoleConsumer
  <2>3. pc'[c] \in {"D_next", "D_check"} => \E m \in 1..l2 : loc'[c].tail = s2[m]
    <3> SUFFICES ASSUME pc'[c] \in {"D_next", "D_check"} PROVE \E m \in 1..l2 : loc'[c].tail = s2[m]
      OBVIOUS
    <3>1. PICK m \in 1..l : loc[c].tail = s[m]
      BY <1>2 DEF SoleConsumer
    <3>2. m \in 1..l2 /\ s2[m] = s[m]
      BY <1>s
    <3> QED
      BY <1>2, <3>1, <3>2
  <2>4. Len(s) > 1 => Len(s2) > 1 /\ s2[2] = s[2]
    BY <1>s
  <2>5. pc'[c] = "D_check" =>
          \/ loc'[c].next = NULL /\ loc'[c].tail = loc'[c].head /\ sawEmpty'[c]
          \/ Len(s2) > 1 /\ loc'[c].next = s2[2]
    BY <1>2, <2>4 DEF SoleConsumer
  <2>6. pc'[c] = "D_help" => loc'[c].tail = loc'[c].head /\ Len(s2) > 1 /\ loc'[c].next = s2[2]
    BY <1>2, <2>4 DEF SoleConsumer
  <2>7. pc'[c] \in {"D_read", "D_cas"} \cup Decided => l2 > 1 /\ loc'[c].next = s2[2] /\ Len(s) > 1
                                                       /\ loc[c].next = s[2]
    BY <1>2, <2>4, <1>s DEF SoleConsumer
  <2>8. pc'[c] = "D_cas" => loc'[c].element = mem'[loc'[c].next].element
    BY <1>2, <2>7 DEF SoleConsumer
  <2>9. pc'[c] = "D_assert" => ~mem'[loc'[c].next].dequeued
    BY <1>2, <2>7 DEF SoleConsumer, Decided
  <2>10. pc'[c] \in DrainLabels \ Decided /\ h = Len(s2) => sawEmpty'[c]
    <3>1. h = Len(s2) => h = Len(s)
      BY <1>s
    <3>2. pc[c] \in DrainLabels \ Decided /\ h = Len(s) => sawEmpty[c]
      BY DEF SoleConsumer
    <3> QED
      BY <1>2, <3>1, <3>2, Zenon
  <2> QED
    BY <2>1, <2>2, <2>3, <2>5, <2>6, <2>7, <2>8, <2>9, <2>10 DEF SoleConsumer
<1> QED
  BY <1>1, <1>2

\* A step that touches nothing shared.
LEMMA PairLocalStep ==
  ASSUME NEW s \in Chains, NEW h \in 1..Len(s), NEW l \in 1..Len(s), PairList(s, h, l),
         UNCHANGED shared, \A p \in Producers : SoleProducer(p, s, l)',
         \A c \in Consumers : SoleConsumer(c, s, h, l)'
  PROVE  PairList(s, h, l)'
  BY DEF PairList, InvChain, InvEnds, shared

\* The ends of the chain and what lies at them.
LEMMA PairShape ==
  ASSUME NEW s \in Chains, NEW h \in 1..Len(s), NEW l \in 1..Len(s), PairList(s, h, l)
  PROVE  /\ Len(s) \in Nat \ {0} /\ h \in Nat /\ l \in Nat /\ 1 <= h /\ h <= l /\ l <= Len(s)
         /\ s \in Seq(Nodes) /\ \A i \in 1..Len(s) : s[i] \in Nodes /\ heap[s[i]] = "live"
         /\ \A i, j \in 1..Len(s) : s[i] = s[j] => i = j
         /\ \A i \in 1..Len(s) : mem[s[i]].next = IF i < Len(s) THEN s[i + 1] ELSE NULL
         /\ qhead = s[h] /\ qtail = s[l]
  BY ChainShape DEF PairList, InvChain, InvEnds

\* NULL and Junk are no nodes, and a live node is read as it is.
LEMMA Live ==
  ASSUME NEW n \in Nodes, heap[n] = "live"
  PROVE  /\ n # NULL /\ n # Junk
         /\ Load(n, "next") = {mem[n].next} /\ Load(n, "element") = {mem[n].element}
<1>1. n # NULL /\ n # Junk
  BY QueueAssumption DEF QueueAssumption
<1> QED
  BY <1>1, Zenon DEF Load

\* The steps of an enqueue that touch nothing shared.
LEMMA PairEnqueueReads ==
  ASSUME NEW p, NEW c, Producers = {p}, Consumers = {c}, TypeOK,
         NEW s \in Chains, NEW h \in 1..Len(s), NEW l \in 1..Len(s), PairList(s, h, l),
         \/ CallEnqueue(p) \/ MallocFails(p) \/ ReadTail(p) \/ ReadTailNext(p) \/ CheckTail(p)
  PROVE  PairList(s, h, l)'
<1> USE DEF At
<1>s. /\ Len(s) \in Nat \ {0} /\ h \in Nat /\ l \in Nat /\ l <= Len(s) /\ qtail = s[l]
      /\ \A i \in 1..Len(s) : s[i] \in Nodes /\ heap[s[i]] = "live"
      /\ mem[s[Len(s)]].next = NULL /\ Len(s) \in 1..Len(s)
  BY PairShape
<1>p. p \in Threads /\ c \in Threads /\ SoleProducer(p, s, l) /\ SoleConsumer(c, s, h, l)
  BY DEF Threads, PairList
<1>1. SoleProducer(p, s, l)'
  <2>1. CASE CallEnqueue(p)
    <3>1. PICK e \in Elements : Set(p, "element", e)
      BY <2>1 DEF CallEnqueue
    <3>2. pc'[p] = "E_malloc" /\ loc'[p].element = e
      BY <2>1, <3>1, <1>p, SetElement, Goes DEF CallEnqueue, EnqueueLabels
    <3> QED
      BY <2>1, <3>2, <1>p DEF SoleProducer, Prepares, Unlinked, CallEnqueue
  <2>2. CASE MallocFails(p)
    <3>1. pc'[p] = "idle"
      BY <2>2, <1>p, Returns DEF MallocFails
    <3> QED
      BY <2>2, <3>1, <1>p DEF SoleProducer, Prepares, Unlinked, MallocFails
  <2>3. CASE ReadTail(p)
    <3>1. /\ pc'[p] = "E_next" /\ loc'[p].element = loc[p].element /\ loc'[p].node = loc[p].node
          /\ loc'[p].tail = qtail
      BY <2>3, <1>p, SetTail, Goes DEF ReadTail, EnqueueLabels, TypeOK
    <3> QED
      BY <2>3, <3>1, <1>p, <1>s DEF SoleProducer, Prepares, Unlinked, ReadTail, shared
  <2>4. CASE ReadTailNext(p)
    <3>1. loc[p].tail = s[Len(s)] /\ Load(loc[p].tail, "next") = {NULL}
      BY <2>4, <1>p, <1>s, Live DEF SoleProducer, ReadTailNext
    <3>2. Set(p, "next", NULL) /\ NULL \in Pointers
      BY <2>4, <3>1 DEF ReadTailNext, Pointers
    <3>3. /\ pc'[p] = "E_check" /\ loc'[p].element = loc[p].element /\ loc'[p].node = loc[p].node
          /\ loc'[p].tail = loc[p].tail /\ loc'[p].next = NULL
      BY <2>4, <3>2, <1>p, SetNext, Goes DEF ReadTailNext, EnqueueLabels
    <3> QED
      BY <2>4, <3>1, <3>3, <1>p DEF SoleProducer, Prepares, Unlinked, ReadTailNext, shared
  <2>5. CASE CheckTail(p)
    <3>1. pc[p] = "E_check" /\ loc[p].tail = qtail /\ loc[p].next = NULL
      BY <2>5, <1>p, <1>s DEF SoleProducer, CheckTail
    <3>2. pc'[p] = "E_link" /\ loc' = loc
      BY <2>5, <3>1, <1>p, Goes DEF CheckTail, EnqueueLabels
    <3> QED
      BY <2>5, <3>1, <3>2, <1>p DEF SoleProducer, Prepares, Unlinked, CheckTail, shared
  <2> QED
    BY <2>1, <2>2, <2>3, <2>4, <2>5
<1>2. UNCHANGED <<shared, sawEmpty>>
  BY DEF CallEnqueue, MallocFails, ReadTail, ReadTailNext, CheckTail
<1>3. SoleConsumer(c, s, h, l)'
  <2>1. Enqueue(p) /\ pc[p] \notin DrainLabels /\ pc'[p] \notin DrainLabels
    BY <1>p, Goes, Returns DEF Enqueue, CallEnqueue, MallocFails, ReadTail, ReadTailNext, CheckTail,
       EnqueueLabels, DrainLabels
  <2>2. c # p => pc'[c] = pc[c] /\ loc'[c] = loc[c]
    BY <2>1, <1>p, StaysInCall
  <2>3. l \in l..Len(s)
    BY <1>s
  <2> QED
    BY <1>2, <1>p, <2>1, <2>2, <2>3, ConsumerStays DEF shared
<1> QED
  BY <1>1, <1>2, <1>3, PairLocalStep

\* The steps of a drain that touch nothing shared.
LEMMA PairDrainReads ==
  ASSUME NEW p, NEW c, Producers = {p}, Consumers = {c}, TypeOK,
         NEW s \in Chains, NEW h \in 1..Len(s), NEW l \in 1..Len(s), PairList(s, h, l),
         pc[c] \in {"idle"} \cup DrainLabels,
         \/ CallDrain(c) \/ ReadHead(c) \/ ReadDrainTail(c) \/ ReadHeadNext(c) \/ CheckHead(c)
         \/ ReturnEmpty(c) \/ ReadElement(c) \/ AssertNotDequeued(c)
  PROVE  PairList(s, h, l)'
<1> USE DEF At
<1>s. /\ Len(s) \in Nat \ {0} /\ h \in Nat /\ l \in Nat /\ 1 <= h /\ h <= l /\ l <= Len(s)
      /\ qhead = s[h] /\ qtail = s[l]
      /\ \A i \in 1..Len(s) : s[i] \in Nodes /\ heap[s[i]] = "live"
      /\ \A i, j \in 1..Len(s) : s[i] = s[j] => i = j
      /\ \A i \in 1..Len(s) : mem[s[i]].next = IF i < Len(s) THEN s[i + 1] ELSE NULL
  BY PairShape
<1>p. p \in Threads /\ c \in Threads /\ SoleProducer(p, s, l) /\ SoleConsumer(c, s, h, l)
  BY DEF Threads, PairList
<1>d. /\ "idle" \notin DrainLabels /\ Decided = {"D_assert", "D_mark", "D_free"}
      /\ DrainLabels \ Decided = {"D_head", "D_tail", "D_next", "D_check", "D_help", "D_read", "D_cas"}
  BY DEF DrainLabels, Decided
<1>1. SoleConsumer(c, s, h, l)'
  <2>1. CASE CallDrain(c)
    <3>1. pc[c] = "idle" /\ pc'[c] = "D_head" /\ h = 1
      BY <2>1, <1>p, <1>d, Goes DEF CallDrain, DrainLabels, SoleConsumer
    <3>2. h = Len(s) => sawEmpty'[c]
      <4>1. Contents = <<>> <=> h = Len(s)
        BY EmptyWhen DEF PairList
      <4>2. sawEmpty'[c] = (Contents = <<>>)
        BY <2>1, <1>p DEF CallDrain, TypeOK
      <4> QED
        BY <4>1, <4>2
    <3> QED
      BY <3>1, <3>2, <1>d DEF SoleConsumer
  <2>2. CASE ReadHead(c)
    <3>1. /\ pc[c] = "D_head" /\ pc'[c] = "D_tail" /\ h = 1 /\ loc'[c].head = s[1]
          /\ UNCHANGED sawEmpty
      BY <2>2, <1>p, <1>d, <1>s, SetHead, Goes DEF ReadHead, DrainLabels, SoleConsumer, TypeOK
    <3>2. h = Len(s) => sawEmpty'[c]
      BY <3>1, <1>d, <1>p DEF SoleConsumer
    <3> QED
      BY <3>1, <3>2, <1>d DEF SoleConsumer
  <2>3. CASE ReadDrainTail(c)
    <3>1. /\ pc[c] = "D_tail" /\ pc'[c] = "D_next" /\ h = 1 /\ loc'[c].head = s[1]
          /\ loc'[c].tail = s[l] /\ UNCHANGED sawEmpty
      BY <2>3, <1>p, <1>d, <1>s, SetTail, Goes DEF ReadDrainTail, DrainLabels, SoleConsumer, TypeOK
    <3>2. h = Len(s) => sawEmpty'[c]
      BY <3>1, <1>d, <1>p DEF SoleConsumer
    <3>3. \E m \in 1..l : loc'[c].tail = s[m]
      BY <3>1, <1>s
    <3> QED
      BY <3>1, <3>2, <3>3, <1>d DEF SoleConsumer
  <2>4. CASE ReadHeadNext(c)
    <3>1. pc[c] = "D_next" /\ loc[c].head = s[1] /\ h = 1
      BY <2>4, <1>p, <1>d DEF ReadHeadNext, SoleConsumer
    <3>2. mem[s[1]].next = (IF Len(s) > 1 THEN s[2] ELSE NULL) /\ s[1] \in Nodes /\ heap[s[1]] = "live"
      BY <1>s
    <3>3. Set(c, "next", mem[s[1]].next) /\ mem[s[1]].next \in Pointers
      BY <2>4, <3>1, <3>2, Live DEF ReadHeadNext, TypeOK
    <3>4. /\ pc'[c] = "D_check" /\ loc'[c].head = s[1] /\ loc'[c].tail = loc[c].tail
          /\ loc'[c].next = (IF Len(s) > 1 THEN s[2] ELSE NULL)
          /\ UNCHANGED sawEmpty
      BY <2>4, <3>1, <3>2, <3>3, <1>p, SetNext, Goes DEF ReadHeadNext, DrainLabels
    <3>5. PICK m \in 1..l : loc[c].tail = s[m]
      BY <3>1, <1>p DEF SoleConsumer
    <3>6. h = Len(s) => sawEmpty'[c]
      BY <3>1, <3>4, <1>d, <1>p DEF SoleConsumer
    <3>7. CASE Len(s) > 1
      BY <3>1, <3>4, <3>5, <3>6, <3>7, <1>d DEF SoleConsumer
    <3>8. CASE Len(s) = 1
      <4>1. m = 1 /\ loc'[c].tail = loc'[c].head /\ sawEmpty'[c]
        BY <3>1, <3>4, <3>5, <3>6, <3>8, <1>s
      <4> QED
        BY <3>1, <3>4, <3>5, <4>1, <3>8, <1>d DEF SoleConsumer
    <3>9. Len(s) > 1 \/ Len(s) = 1
      <4>1. Len(s) \in Nat \ {0}
        BY ChainShape
      <4>2. \A k \in Nat \ {0} : k > 1 \/ k = 1
        OBVIOUS
      <4> QED
        BY <4>1, <4>2, Zenon
    <3> QED
      BY <3>7, <3>8, <3>9
  <2>5. CASE CheckHead(c)
    <3>1. pc[c] = "D_check" /\ loc[c].head = s[1] /\ h = 1 /\ qhead = loc[c].head
      BY <2>5, <1>p, <1>d, <1>s DEF CheckHead, SoleConsumer
    <3>2. Len(s) > 1 /\ loc[c].next = s[2]
      BY <2>5, <3>1, <1>p DEF CheckHead, SoleConsumer
    <3>3. PICK m \in 1..l : loc[c].tail = s[m]
      BY <3>1, <1>p DEF SoleConsumer
    <3>4. /\ pc'[c] = (IF loc[c].head = loc[c].tail THEN "D_help" ELSE "D_read")
          /\ loc' = loc /\ UNCHANGED sawEmpty
      BY <2>5, <3>1, <1>p, Goes DEF CheckHead, DrainLabels
    <3>5. loc[c].head # loc[c].tail => l > 1
      BY <3>1, <3>3, <1>s
    <3>6. h # Len(s)
      BY <3>1, <3>2
    <3> QED
      BY <3>1, <3>2, <3>4, <3>5, <3>6, <1>d DEF SoleConsumer
  <2>6. CASE ReturnEmpty(c)
    <3>1. pc[c] = "D_check" /\ pc'[c] = "idle" /\ h = 1
      BY <2>6, <1>p, <1>d, Returns DEF ReturnEmpty, SoleConsumer
    <3> QED
      BY <3>1, <1>d DEF SoleConsumer
  <2>7. CASE ReadElement(c)
    <3>1. pc[c] = "D_read" /\ loc[c].head = s[1] /\ h = 1 /\ l > 1 /\ loc[c].next = s[2] /\ 2 \in 1..Len(s)
      BY <2>7, <1>p, <1>d, <1>s DEF ReadElement, SoleConsumer
    <3>2. Set(c, "element", mem[s[2]].element) /\ mem[s[2]].element \in Elements \cup {NULL, Junk}
      BY <2>7, <3>1, <1>s, Live DEF ReadElement, TypeOK
    <3>3. /\ pc'[c] = "D_cas" /\ loc'[c].head = s[1] /\ loc'[c].next = s[2]
          /\ loc'[c].element = mem[s[2]].element /\ UNCHANGED <<sawEmpty, mem>>
      BY <2>7, <3>1, <3>2, <1>p, SetElement, Goes DEF ReadElement, DrainLabels, shared
    <3>4. h # Len(s)
      BY <3>1, <1>s
    <3> QED
      BY <3>1, <3>3, <3>4, <1>d DEF SoleConsumer
  <2>8. CASE AssertNotDequeued(c)
    <3>1. /\ pc[c] = "D_assert" /\ pc'[c] = "D_mark" /\ loc' = loc
      BY <2>8, <1>p, Goes DEF AssertNotDequeued, DrainLabels
    <3> QED
      BY <3>1, <1>p, <1>d DEF SoleConsumer, DrainLabels
  <2> QED
    BY <2>1, <2>2, <2>3, <2>4, <2>5, <2>6, <2>7, <2>8
<1>2. UNCHANGED shared
  BY DEF CallDrain, ReadHead, ReadDrainTail, ReadHeadNext, CheckHead, ReturnEmpty, ReadElement,
     AssertNotDequeued
<1>3. SoleProducer(p, s, l)'
  <2>1. Drain(c) /\ pc[c] \notin EnqueueLabels /\ pc'[c] \notin EnqueueLabels
    <3>1. Drain(c)
      BY DEF Drain
    <3>2. pc'[c] \in {"idle"} \cup DrainLabels
      BY <3>1, <1>p, StaysInCall
    <3> QED
      BY <3>1, <3>2 DEF EnqueueLabels, DrainLabels
  <2>2. c # p => pc'[p] = pc[p] /\ loc'[p] = loc[p]
    BY <2>1, <1>p, StaysInCall
  <2> QED
    BY <1>2, <1>p, <2>1, <2>2, ProducerStays DEF shared
<1> QED
  BY <1>1, <1>2, <1>3, PairLocalStep

\* Malloc takes a node that is not in the chain, be it new or freed.
LEMMA PairMalloc ==
  ASSUME NEW p, NEW c, Producers = {p}, Consumers = {c}, TypeOK,
         NEW s \in Chains, NEW h \in 1..Len(s), NEW l \in 1..Len(s), PairList(s, h, l), Malloc(p)
  PROVE  /\ PairList(s, h, l)'
         /\ loc'[p].element = loc[p].element
         /\ \A i \in 1..Len(s) : mem'[s[i]] = mem[s[i]]
<1> USE DEF At
<1>s. /\ Len(s) \in Nat \ {0} /\ h \in Nat /\ l \in Nat /\ 1 <= h /\ h <= l /\ l <= Len(s)
      /\ \A i \in 1..Len(s) : s[i] \in Nodes /\ heap[s[i]] = "live"
  BY PairShape
<1>p. p \in Threads /\ c \in Threads /\ SoleProducer(p, s, l) /\ SoleConsumer(c, s, h, l)
  BY DEF Threads, PairList
<1>1. PICK n \in Available :
        /\ heap' = [heap EXCEPT ![n] = "live"]
        /\ mem' = [mem EXCEPT ![n] = [Zeroed EXCEPT !.element = loc[p].element]]
        /\ Set(p, "node", n)
  BY DEF Malloc
<1>2. n \in Nodes /\ heap[n] # "live" /\ n \in Pointers
  <2>1. \/ n \in {m \in Nodes : heap[m] = "fresh"}
        \/ n \in {m \in Nodes : Reuse /\ heap[m] = "freed"}
    BY <1>1, Zenon DEF Available
  <2> QED
    BY <2>1 DEF Pointers
<1>3. /\ pc[p] = "E_malloc" /\ pc'[p] = "E_tail" /\ loc'[p].node = n
      /\ loc'[p].element = loc[p].element /\ UNCHANGED <<qhead, qtail, sawEmpty>>
  BY <1>1, <1>2, <1>p, SetNode, Goes DEF Malloc, EnqueueLabels
<1>4. \A m \in Nodes \ {n} : mem'[m] = mem[m] /\ heap'[m] = heap[m]
  BY <1>1, <1>2 DEF TypeOK
<1>5. mem'[n] = [Zeroed EXCEPT !.element = loc[p].element] /\ heap'[n] = "live"
  BY <1>1, <1>2 DEF TypeOK
<1>6. \A i \in 1..Len(s) : s[i] # n /\ mem'[s[i]] = mem[s[i]] /\ heap'[s[i]] = heap[s[i]]
  BY <1>2, <1>4, <1>s
<1>7. SoleProducer(p, s, l)'
  BY <1>2, <1>3, <1>5, <1>6, <1>p DEF SoleProducer, Prepares, Unlinked
<1>8. SoleConsumer(c, s, h, l)'
  <2>1. c # p => pc'[c] = pc[c] /\ loc'[c] = loc[c]
    BY <1>p, StaysInCall DEF Enqueue
  <2>2. pc[p] \notin DrainLabels /\ pc'[p] \notin DrainLabels
    BY <1>3 DEF DrainLabels
  <2>3. l \in l..Len(s) /\ (Len(s) > 1 => 2 \in 1..Len(s))
    BY <1>s
  <2> QED
    BY <1>3, <1>6, <1>p, <2>1, <2>2, <2>3, ConsumerStays
<1>9. PairList(s, h, l)'
  <2>1. InvChain(s)' /\ InvEnds(s, h, l)'
    BY <1>3, <1>6 DEF PairList, InvChain, InvEnds
  <2>2. \A i \in 1..Len(s) : heap'[s[i]] = "live"
    BY <1>6, <1>s
  <2>3. \A i \in h + 1..Len(s) : mem'[s[i]].element \in Elements /\ ~mem'[s[i]].dequeued
    BY <1>6, <1>s DEF PairList
  <2> QED
    BY <1>7, <1>8, <2>1, <2>2, <2>3 DEF PairList
<1> QED
  BY <1>3, <1>6, <1>9

\* Link always succeeds and makes the chain longer by its node.
LEMMA PairLink ==
  ASSUME NEW p, NEW c, Producers = {p}, Consumers = {c}, TypeOK,
         NEW s \in Chains, NEW h \in 1..Len(s), NEW l \in 1..Len(s), PairList(s, h, l), Link(p),
         NEW s2, s2 = Append(s, loc[p].node)
  PROVE  /\ s2 \in Chains /\ h \in 1..Len(s2) /\ l \in 1..Len(s2) /\ PairList(s2, h, l)'
         /\ mem' = [mem EXCEPT ![s[Len(s)]].next = loc[p].node]
         /\ loc[p].node \in Nodes /\ mem[loc[p].node].element = loc[p].element
         /\ pc'[p] = "E_swing"
<1> USE DEF At
<1>s. /\ Len(s) \in Nat \ {0} /\ h \in Nat /\ l \in Nat /\ 1 <= h /\ h <= l /\ l <= Len(s)
      /\ s \in Seq(Nodes) /\ qhead = s[h] /\ qtail = s[l]
      /\ \A i \in 1..Len(s) : s[i] \in Nodes /\ heap[s[i]] = "live"
      /\ \A i, j \in 1..Len(s) : s[i] = s[j] => i = j
      /\ \A i \in 1..Len(s) : mem[s[i]].next = IF i < Len(s) THEN s[i + 1] ELSE NULL
  BY PairShape
<1>p. p \in Threads /\ c \in Threads /\ SoleProducer(p, s, l) /\ SoleConsumer(c, s, h, l)
  BY DEF Threads, PairList
<1> DEFINE n == loc[p].node
<1> DEFINE m == Len(s)
<1>1. /\ pc[p] = "E_link" /\ n \in Nodes /\ heap[n] = "live" /\ \A i \in 1..m : n # s[i]
      /\ mem[n] = [Zeroed EXCEPT !.element = loc[p].element] /\ loc[p].element \in Elements
      /\ loc[p].tail = s[m] /\ l = m
  BY <1>p DEF Link, SoleProducer, Prepares, Unlinked
<1>2. Load(loc[p].tail, "next") = {NULL}
  BY <1>1, <1>s, Live
<1>3. /\ mem' = [mem EXCEPT ![s[m]].next = n] /\ pc'[p] = "E_swing" /\ loc' = loc
      /\ UNCHANGED <<qhead, qtail, heap, sawEmpty>>
  BY <1>1, <1>2, <1>p, Goes DEF Link, EnqueueLabels
<1>4. /\ s2 \in Seq(Nodes) /\ Len(s2) = m + 1 /\ s2[m + 1] = n /\ \A i \in 1..m : s2[i] = s[i]
  BY <1>1, <1>s, AppendProperties
<1>5. \A i, j \in 1..Len(s2) : s2[i] = s2[j] => i = j
  BY <1>1, <1>4, <1>s
<1>6. s2 \in Chains
  <2>1. Len(s2) <= Cardinality(Nodes)
    BY <1>4, <1>5, ChainFits
  <2>2. Len(s2) \in Nat \ {0} /\ s2 \in [1..Len(s2) -> Nodes]
    <3>1. s2 \in [1..Len(s2) -> Nodes]
      BY <1>4, LenProperties
    <3>2. m + 1 \in Nat \ {0}
      BY <1>s
    <3> QED
      BY <3>1, <3>2, <1>4
  <2>3. Cardinality(Nodes) \in Nat
    BY FS_CardinalityType
  <2>4. Len(s2) \in 1..Cardinality(Nodes)
    BY ONLY <2>1, <2>2, <2>3
  <2> QED
    BY <2>2, <2>4 DEF Chains
<1>i. \A i \in 1..Len(s2) : i \in 1..m \/ i = m + 1
  <2>1. m \in Nat /\ Len(s2) = m + 1
    BY <1>4, <1>s
  <2> HIDE DEF m
  <2> QED
    BY ONLY <2>1
<1>7. h \in 1..Len(s2) /\ l \in 1..Len(s2)
  BY <1>4, <1>s
<1>8. /\ \A x \in Nodes : mem'[x].element = mem[x].element /\ mem'[x].dequeued = mem[x].dequeued
      /\ \A x \in Nodes \ {s[m]} : mem'[x] = mem[x]
      /\ mem'[s[m]].next = n
  BY <1>3, <1>1, <1>s DEF TypeOK
<1>9. InvChain(s2)' /\ InvEnds(s2, h, l)'
  <2>1. ASSUME NEW i \in 1..Len(s2)
        PROVE  mem'[s2[i]].next = IF i < Len(s2) THEN s2[i + 1] ELSE NULL
    <3>1. CASE i \in 1..m /\ i # m
      <4>1. i \in 1..m /\ m \in 1..m /\ i # m /\ i + 1 \in 1..m
        BY <3>1, <1>s
      <4>2. s[i] \in Nodes \ {s[m]}
        BY <4>1, <1>s
      <4> QED
        BY <4>1, <4>2, <1>4, <1>8, <1>s, SMTT(30)
    <3>2. CASE i = m
      BY <3>2, <1>4, <1>8, <1>s
    <3>3. CASE i = m + 1
      <4>1. n \in Nodes \ {s[m]}
        BY <1>1, <1>s
      <4> QED
        BY <3>3, <4>1, <1>1, <1>4, <1>8, <1>s DEF Zeroed
    <3> QED
      BY <3>1, <3>2, <3>3, <1>i
  <2>2. InvChain(s2)'
    BY <2>1, <1>5 DEF InvChain
  <2> QED
    BY <2>2, <1>3, <1>4, <1>7, <1>s DEF InvEnds
<1>10. \A i \in 1..Len(s2) : heap'[s2[i]] = "live"
  BY <1>1, <1>3, <1>4, <1>s
<1>11. \A i \in h + 1..Len(s2) : mem'[s2[i]].element \in Elements /\ ~mem'[s2[i]].dequeued
  <2> SUFFICES ASSUME NEW i \in h + 1..Len(s2)
               PROVE  mem'[s2[i]].element \in Elements /\ ~mem'[s2[i]].dequeued
    OBVIOUS
  <2>0. i \in 1..Len(s2) /\ i >= h + 1
    BY <1>7, <1>4, <1>s
  <2>1. CASE i \in 1..m
    <3>1. i \in h + 1..m /\ s2[i] = s[i] /\ s[i] \in Nodes
      BY <2>0, <2>1, <1>4, <1>s
    <3>2. mem[s[i]].element \in Elements /\ ~mem[s[i]].dequeued
      BY <3>1 DEF PairList
    <3> QED
      BY <3>1, <3>2, <1>8
  <2>2. CASE i = m + 1
    BY <2>2, <1>1, <1>4, <1>8 DEF Zeroed
  <2> QED
    BY <2>0, <2>1, <2>2, <1>i
<1>12. SoleProducer(p, s2, l)'
  BY <1>1, <1>3, <1>4, <1>s DEF SoleProducer, Prepares, Unlinked
<1>13. SoleConsumer(c, s2, h, l)'
  <2>1. c # p => pc'[c] = pc[c] /\ loc'[c] = loc[c]
    BY <1>p, StaysInCall DEF Enqueue
  <2>2. pc[p] \notin DrainLabels /\ pc'[p] \notin DrainLabels
    BY <1>1, <1>3 DEF DrainLabels
  <2>3. l \in l..Len(s2) /\ Len(s) <= Len(s2)
    BY <1>4, <1>s
  <2>4. Len(s) > 1 => s[2] \in Nodes
    BY <1>s
  <2>5. Len(s) > 1 => /\ mem'[s[2]].element = mem[s[2]].element
                      /\ mem'[s[2]].dequeued = mem[s[2]].dequeued
    BY <1>8, <2>4
  <2>6. \/ pc'[c] = pc[c] /\ loc'[c] = loc[c] /\ sawEmpty'[c] = sawEmpty[c]
        \/ pc[c] \notin DrainLabels /\ pc'[c] \notin DrainLabels
    BY <2>1, <2>2, <1>3
  <2>7. \A i \in 1..Len(s) : s2[i] = s[i]
    BY <1>4
  <2> HIDE DEF m, n
  <2> QED
    BY <1>6, <1>p, <2>3, <2>5, <2>6, <2>7, ConsumerStays
<1> QED
  BY <1>1, <1>3, <1>6, <1>7, <1>9, <1>10, <1>11, <1>12, <1>13 DEF PairList, Zeroed

\* The tail moves on to the last node, at the hands of the one or of the other.
LEMMA PairTailSteps ==
  ASSUME NEW p, NEW c, Producers = {p}, Consumers = {c}, TypeOK,
         NEW s \in Chains, NEW h \in 1..Len(s), NEW l \in 1..Len(s), PairList(s, h, l),
         SwingTail(p) \/ HelpDrainTail(c)
  PROVE  \E l2 \in 1..Len(s) : PairList(s, h, l2)'
<1> USE DEF At
<1>s. /\ Len(s) \in Nat \ {0} /\ h \in Nat /\ l \in Nat /\ 1 <= h /\ h <= l /\ l <= Len(s)
      /\ qhead = s[h] /\ qtail = s[l] /\ Len(s) \in 1..Len(s) /\ Len(s) \in l..Len(s)
      /\ \A i \in 1..Len(s) : s[i] \in Nodes /\ heap[s[i]] = "live"
      /\ \A i, j \in 1..Len(s) : s[i] = s[j] => i = j
  BY PairShape
<1>p. p \in Threads /\ c \in Threads /\ SoleProducer(p, s, l) /\ SoleConsumer(c, s, h, l)
  BY DEF Threads, PairList
<1>1. UNCHANGED <<qhead, mem, heap, sawEmpty>>
  BY DEF SwingTail, HelpDrainTail
<1>2. ASSUME qtail' = s[Len(s)], SoleProducer(p, s, Len(s))', SoleConsumer(c, s, h, Len(s))'
      PROVE  \E l2 \in 1..Len(s) : PairList(s, h, l2)'
  <2>1. InvChain(s)' /\ InvEnds(s, h, Len(s))'
    BY <1>1, <1>2, <1>s DEF PairList, InvChain, InvEnds
  <2>2. PairList(s, h, Len(s))'
    BY <1>1, <1>2, <2>1 DEF PairList
  <2> QED
    BY <2>2, <1>s
<1>3. CASE SwingTail(p)
  <2>1. pc[p] = "E_swing" /\ pc'[p] = "idle" /\ \A u \in Threads : u # p => pc'[u] = pc[u] /\ loc'[u] = loc[u]
    BY <1>3, <1>p, Returns DEF SwingTail
  <2>2. qtail' = s[Len(s)]
    BY <1>3, <1>p, <1>s, <2>1 DEF SwingTail, CasTail, SoleProducer
  <2>3. SoleProducer(p, s, Len(s))'
    BY <2>1 DEF SoleProducer, Prepares, Unlinked
  <2>4. SoleConsumer(c, s, h, Len(s))'
    <3>1. \/ pc'[c] = pc[c] /\ loc'[c] = loc[c] /\ sawEmpty'[c] = sawEmpty[c]
          \/ pc[c] \notin DrainLabels /\ pc'[c] \notin DrainLabels
      BY <1>1, <1>p, <2>1 DEF DrainLabels
    <3> QED
      BY <1>1, <1>p, <1>s, <3>1, ConsumerStays
  <2> QED
    BY <1>2, <2>2, <2>3, <2>4
<1>4. CASE HelpDrainTail(c)
  <2>1. /\ pc[c] = "D_help" /\ pc'[c] = "D_head" /\ loc' = loc
        /\ \A u \in Threads : u # c => pc'[u] = pc[u]
    BY <1>4, <1>p, Goes DEF HelpDrainTail, DrainLabels
  <2>2. h = 1 /\ loc[c].tail = s[1] /\ Len(s) > 1 /\ loc[c].next = s[2] /\ 1 \in 1..Len(s)
    BY <1>p, <2>1 DEF SoleConsumer, DrainLabels, Decided
  <2>3. qtail' = IF qtail = s[1] THEN s[2] ELSE qtail
    BY <1>4, <2>2 DEF HelpDrainTail, CasTail
  <2>4. pc[p] # "E_swing" => l = Len(s)
    BY <1>p DEF SoleProducer
  <2>5. l = Len(s) \/ l + 1 = Len(s)
    BY <1>p, <2>4 DEF SoleProducer
  <2>6. CASE qtail = s[1]
    <3>1. l = 1 /\ Len(s) = 2 /\ qtail' = s[Len(s)]
      <4>1. l = 1
        BY <1>s, <2>2, <2>6
      <4>2. Len(s) = 2
        BY <2>2, <2>5, <4>1
      <4> QED
        BY <2>3, <2>6, <4>1, <4>2
    <3>2. pc[p] = "E_swing" /\ loc[p].tail = qtail /\ loc[p].node = s[Len(s)]
      BY <1>p, <2>4, <3>1 DEF SoleProducer
    <3>3. p # c /\ pc'[p] = "E_swing"
      BY <2>1, <3>2, <1>p
    <3>4. s[1] # s[2]
      BY <1>s, <3>1
    <3>5. SoleProducer(p, s, Len(s))'
      BY <2>1, <2>6, <3>1, <3>2, <3>3, <3>4 DEF SoleProducer, Prepares, Unlinked
    <3>6. SoleConsumer(c, s, h, Len(s))'
      BY <2>1, <2>2 DEF SoleConsumer, DrainLabels, Decided
    <3> QED
      BY <1>2, <3>1, <3>5, <3>6
  <2>7. CASE qtail # s[1]
    <3>1. qtail' = qtail
      BY <2>3, <2>7
    <3>2. SoleConsumer(c, s, h, l)'
      BY <2>1, <2>2 DEF SoleConsumer, DrainLabels, Decided
    <3>3. \/ pc'[p] = pc[p] /\ loc'[p] = loc[p]
          \/ pc[p] \notin EnqueueLabels /\ pc'[p] \notin EnqueueLabels
      BY <2>1, <1>p DEF EnqueueLabels
    <3>4. SoleProducer(p, s, l)'
      BY <1>1, <1>p, <3>1, <3>3, ProducerStays
    <3>5. PairList(s, h, l)'
      BY <1>1, <3>1, <3>2, <3>4, PairLocalStep DEF shared
    <3> QED
      BY <3>5
  <2> QED
    BY <2>6, <2>7
<1> QED
  BY <1>3, <1>4

\* CasHead always succeeds: the head moves on to the second node of the chain.
LEMMA PairCasHead ==
  ASSUME NEW p, NEW c, Producers = {p}, Consumers = {c}, TypeOK,
         NEW s \in Chains, NEW h \in 1..Len(s), NEW l \in 1..Len(s), PairList(s, h, l), CasHead(c)
  PROVE  /\ h = 1 /\ 2 \in 1..Len(s) /\ l > 1 /\ PairList(s, 2, l)'
         /\ qhead = loc[c].head /\ loc[c].next = s[2] /\ loc[c].element = mem[s[2]].element
<1> USE DEF At
<1>s. /\ Len(s) \in Nat \ {0} /\ h \in Nat /\ l \in Nat /\ 1 <= h /\ h <= l /\ l <= Len(s)
      /\ qhead = s[h] /\ qtail = s[l]
      /\ \A i \in 1..Len(s) : s[i] \in Nodes /\ heap[s[i]] = "live"
  BY PairShape
<1>p. p \in Threads /\ c \in Threads /\ SoleProducer(p, s, l) /\ SoleConsumer(c, s, h, l)
  BY DEF Threads, PairList
<1>1. /\ pc[c] = "D_cas" /\ h = 1 /\ loc[c].head = s[1] /\ l > 1 /\ loc[c].next = s[2]
      /\ loc[c].element = mem[s[2]].element
  BY <1>p DEF CasHead, SoleConsumer, DrainLabels, Decided
<1>2. qhead = loc[c].head /\ 2 \in 1..Len(s) /\ 2 \in h + 1..Len(s) /\ l \in 2..Len(s)
  BY <1>1, <1>s
<1>3. /\ qhead' = s[2] /\ pc'[c] = "D_assert" /\ loc' = loc /\ UNCHANGED <<qtail, mem, heap>>
      /\ \A u \in Threads : u # c => pc'[u] = pc[u]
  BY <1>1, <1>2, <1>p, Goes DEF CasHead, DrainLabels
<1>4. SoleConsumer(c, s, 2, l)'
  <2>1. ~mem[s[2]].dequeued
    BY <1>2 DEF PairList
  <2> QED
    BY <1>1, <1>3, <2>1 DEF SoleConsumer, Decided
<1>5. SoleProducer(p, s, l)'
  <2>1. \/ pc'[p] = pc[p] /\ loc'[p] = loc[p]
        \/ pc[p] \notin EnqueueLabels /\ pc'[p] \notin EnqueueLabels
    BY <1>1, <1>3, <1>p DEF EnqueueLabels
  <2> QED
    BY <1>3, <1>p, <2>1, ProducerStays
<1>6. PairList(s, 2, l)'
  <2>1. InvChain(s)' /\ InvEnds(s, 2, l)'
    BY <1>2, <1>3, <1>s DEF PairList, InvChain, InvEnds
  <2>2. \A i \in 2 + 1..Len(s) : mem[s[i]].element \in Elements /\ ~mem[s[i]].dequeued
    <3>1. \A i \in 2 + 1..Len(s) : i \in h + 1..Len(s)
      BY <1>1, <1>s
    <3> QED
      BY <3>1 DEF PairList
  <2> QED
    BY <1>3, <1>4, <1>5, <2>1, <2>2, <1>s DEF PairList
<1> QED
  BY <1>1, <1>2, <1>6

\* The second node is marked, which touches no element and no link.
LEMMA PairMark ==
  ASSUME NEW p, NEW c, Producers = {p}, Consumers = {c}, TypeOK,
         NEW s \in Chains, NEW h \in 1..Len(s), NEW l \in 1..Len(s), PairList(s, h, l), MarkDequeued(c)
  PROVE  PairList(s, h, l)' /\ \A x \in Nodes : mem'[x].element = mem[x].element
<1> USE DEF At
<1>s. /\ Len(s) \in Nat \ {0} /\ h \in Nat /\ l \in Nat /\ 1 <= h /\ h <= l /\ l <= Len(s)
      /\ qhead = s[h] /\ qtail = s[l]
      /\ \A i \in 1..Len(s) : s[i] \in Nodes /\ heap[s[i]] = "live"
      /\ \A i, j \in 1..Len(s) : s[i] = s[j] => i = j
  BY PairShape
<1>p. p \in Threads /\ c \in Threads /\ SoleProducer(p, s, l) /\ SoleConsumer(c, s, h, l)
  BY DEF Threads, PairList
<1>1. pc[c] = "D_mark" /\ h = 2 /\ loc[c].head = s[1] /\ l > 1 /\ loc[c].next = s[2] /\ 2 \in 1..Len(s)
  BY <1>p, <1>s DEF MarkDequeued, SoleConsumer, DrainLabels, Decided
<1>2. /\ mem' = [mem EXCEPT ![s[2]].dequeued = TRUE] /\ pc'[c] = "D_free" /\ loc' = loc
      /\ UNCHANGED <<qhead, qtail, heap, sawEmpty>> /\ \A u \in Threads : u # c => pc'[u] = pc[u]
  BY <1>1, <1>p, Goes DEF MarkDequeued, DrainLabels
<1>3. /\ \A x \in Nodes : mem'[x].element = mem[x].element /\ mem'[x].next = mem[x].next
      /\ \A x \in Nodes : x # s[2] => mem'[x] = mem[x]
  BY <1>1, <1>2, <1>s DEF TypeOK
<1>4. SoleConsumer(c, s, h, l)'
  BY <1>1, <1>2 DEF SoleConsumer, Decided
<1>5. SoleProducer(p, s, l)'
  <2>1. \/ pc'[p] = pc[p] /\ loc'[p] = loc[p]
        \/ pc[p] \notin EnqueueLabels /\ pc'[p] \notin EnqueueLabels
    BY <1>1, <1>2, <1>p DEF EnqueueLabels
  <2>2. pc[p] \in Unlinked => loc[p].node \in Nodes /\ loc[p].node # s[2]
    BY <1>1, <1>p DEF SoleProducer, Prepares
  <2> QED
    BY <1>2, <1>3, <1>p, <2>1, <2>2, ProducerStays
<1>6. InvChain(s)' /\ InvEnds(s, h, l)'
  BY <1>2, <1>3, <1>s DEF PairList, InvChain, InvEnds
<1>7. \A i \in h + 1..Len(s) : mem'[s[i]].element \in Elements /\ ~mem'[s[i]].dequeued
  <2> SUFFICES ASSUME NEW i \in h + 1..Len(s)
               PROVE  mem'[s[i]].element \in Elements /\ ~mem'[s[i]].dequeued
    OBVIOUS
  <2>1. i \in 1..Len(s) /\ i # 2
    BY <1>1, <1>s
  <2>2. s[i] \in Nodes /\ s[i] # s[2]
    BY <1>1, <1>s, <2>1
  <2>3. mem[s[i]].element \in Elements /\ ~mem[s[i]].dequeued
    BY DEF PairList
  <2> QED
    BY <1>3, <2>2, <2>3
<1> QED
  BY <1>2, <1>3, <1>4, <1>5, <1>6, <1>7, <1>s DEF PairList

\* The old head, which nobody else looks at any more, leaves the chain and is freed.
LEMMA PairFree ==
  ASSUME NEW p, NEW c, Producers = {p}, Consumers = {c}, TypeOK,
         NEW s \in Chains, NEW h \in 1..Len(s), NEW l \in 1..Len(s), PairList(s, h, l), FreeHead(c)
  PROVE  \E s2 \in Chains : \E h2, l2 \in 1..Len(s2) : PairList(s2, h2, l2)'
<1> USE DEF At
<1> DEFINE m == Len(s)
<1> DEFINE s2 == Tail(s)
<1>s. /\ m \in Nat \ {0} /\ h \in Nat /\ l \in Nat /\ 1 <= h /\ h <= l /\ l <= m
      /\ s \in Seq(Nodes) /\ qhead = s[h] /\ qtail = s[l]
      /\ \A i \in 1..m : s[i] \in Nodes /\ heap[s[i]] = "live"
      /\ \A i, j \in 1..m : s[i] = s[j] => i = j
      /\ \A i \in 1..m : mem[s[i]].next = IF i < m THEN s[i + 1] ELSE NULL
  BY PairShape
<1>p. p \in Threads /\ c \in Threads /\ SoleProducer(p, s, l) /\ SoleConsumer(c, s, h, l)
  BY DEF Threads, PairList
<1>1. pc[c] = "D_free" /\ h = 2 /\ loc[c].head = s[1] /\ l > 1
  BY <1>p DEF FreeHead, SoleConsumer, DrainLabels, Decided
<1>2. /\ heap' = [heap EXCEPT ![s[1]] = "freed"] /\ pc'[c] = "idle"
      /\ UNCHANGED <<qhead, qtail, mem, sawEmpty>>
      /\ \A u \in Threads : u # c => pc'[u] = pc[u] /\ loc'[u] = loc[u]
  BY <1>1, <1>p, Returns DEF FreeHead
<1>m. m > 1 /\ m - 1 \in Nat \ {0} /\ l - 1 \in 1..(m - 1) /\ 1 \in 1..(m - 1)
  BY <1>1, <1>s
<1>3. /\ s2 \in Seq(Nodes) /\ Len(s2) = m - 1 /\ \A i \in 1..(m - 1) : s2[i] = s[i + 1]
  <2>1. s # <<>>
    BY <1>m
  <2> QED
    BY <1>s, <2>1, HeadTailProperties
<1>4. s2 \in Chains
  <2>1. s2 \in [1..(m - 1) -> Nodes]
    BY <1>3, LenProperties
  <2>2. m <= Cardinality(Nodes) /\ Cardinality(Nodes) \in Nat
    BY <1>s, ChainFits, FS_CardinalityType
  <2>3. m - 1 \in 1..Cardinality(Nodes)
    BY <1>m, <1>s, <2>2
  <2> QED
    BY <2>1, <2>3 DEF Chains
<1>i. \A i \in 1..(m - 1) : i \in 1..m /\ i + 1 \in 1..m /\ i + 1 # 1 /\ (i < m - 1 <=> i + 1 < m)
  BY <1>s
<1> HIDE DEF s2, m
<1>5. \A i, j \in 1..(m - 1) : s2[i] = s2[j] => i = j
  BY <1>3, <1>i, <1>s
<1>6. \A i \in 1..(m - 1) : mem'[s2[i]].next = IF i < m - 1 THEN s2[i + 1] ELSE NULL
  <2> SUFFICES ASSUME NEW i \in 1..(m - 1)
               PROVE  mem'[s2[i]].next = IF i < m - 1 THEN s2[i + 1] ELSE NULL
    OBVIOUS
  <2>1. mem'[s2[i]].next = IF i + 1 < m THEN s[(i + 1) + 1] ELSE NULL
    <3>1. i + 1 \in 1..m /\ s2[i] = s[i + 1]
      BY <1>3, <1>i
    <3>2. mem[s[i + 1]].next = IF i + 1 < m THEN s[(i + 1) + 1] ELSE NULL
      BY <1>s, <3>1
    <3> QED
      BY <1>2, <3>1, <3>2
  <2>2. i < m - 1 => i + 1 \in 1..(m - 1)
    BY <1>m
  <2> QED
    BY <2>1, <2>2, <1>3, <1>i
<1>7. InvChain(s2)' /\ InvEnds(s2, 1, l - 1)'
  <2>1. InvChain(s2)'
    BY <1>3, <1>5, <1>6 DEF InvChain
  <2>2. l - 1 \in Nat /\ (l - 1) + 1 = l /\ 1 + 1 = h
    BY <1>1, <1>s
  <2>3. s2[1] = s[h] /\ s2[l - 1] = s[l]
    BY <1>3, <1>m, <2>2
  <2> QED
    BY <1>2, <1>3, <1>m, <1>s, <2>1, <2>3 DEF InvEnds
<1>8. \A i \in 1..(m - 1) : s2[i] \in Nodes /\ s2[i] # s[1]
  <2>1. 1 \in 1..m
    BY <1>m, <1>i
  <2> QED
    BY <1>3, <1>i, <1>s, <2>1
<1>9. \A x \in Nodes : x # s[1] => heap'[x] = heap[x]
  BY <1>2 DEF TypeOK
<1>10. \A i \in 1..(m - 1) : heap'[s2[i]] = "live"
  <2> SUFFICES ASSUME NEW i \in 1..(m - 1) PROVE heap'[s2[i]] = "live"
    OBVIOUS
  <2>1. i + 1 \in 1..m /\ s2[i] = s[i + 1]
    BY <1>3, <1>i
  <2>2. heap[s2[i]] = "live"
    BY <1>s, <2>1
  <2> QED
    BY <1>8, <1>9, <2>2
<1>11. \A i \in 1 + 1..(m - 1) : mem'[s2[i]].element \in Elements /\ ~mem'[s2[i]].dequeued
  <2> SUFFICES ASSUME NEW i \in 1 + 1..(m - 1)
               PROVE  mem[s2[i]].element \in Elements /\ ~mem[s2[i]].dequeued
    BY <1>2
  <2>1. i \in 1..(m - 1) /\ i + 1 \in h + 1..m
    BY <1>1, <1>m, <1>s
  <2> QED
    BY <1>3, <2>1 DEF PairList, m
<1>12. SoleConsumer(c, s2, 1, l - 1)'
  BY <1>2 DEF SoleConsumer, DrainLabels, Decided
<1>13. SoleProducer(p, s2, l - 1)'
  <2>1. CASE c = p
    <3>1. l = m /\ l - 1 = m - 1
      BY <1>1, <1>p, <2>1 DEF SoleProducer, m
    <3> QED
      BY <1>2, <1>3, <2>1, <3>1 DEF SoleProducer, Prepares, Unlinked
  <2>2. CASE c # p
    <3>1. pc'[p] = pc[p] /\ loc'[p] = loc[p]
      BY <1>2, <1>p, <2>2
    <3>2. s2[m - 1] = s[m]
      <4>1. m - 1 \in 1..(m - 1) /\ (m - 1) + 1 = m
        BY <1>m, <1>s
      <4>2. s2[m - 1] = s[(m - 1) + 1]
        BY <1>3, <4>1
      <4> QED
        BY <4>1, <4>2
    <3>3. Prepares(p, s2)'
      <4>1. Prepares(p, s)
        BY <1>p DEF SoleProducer
      <4>2. pc[p] \in Unlinked => loc[p].node \in Nodes /\ \A i \in 1..m : loc[p].node # s[i]
        BY <4>1 DEF Prepares, m
      <4>3. pc[p] \in Unlinked => heap'[loc[p].node] = heap[loc[p].node]
        BY <1>9, <1>i, <1>m, <4>2
      <4>4. pc[p] \in Unlinked => \A i \in 1..Len(s2) : loc[p].node # s2[i]
        BY <1>3, <1>i, <4>2
      <4> QED
        BY <1>2, <3>1, <4>1, <4>3, <4>4 DEF Prepares
    <3>4. /\ l = m <=> l - 1 = m - 1
          /\ l + 1 = m <=> (l - 1) + 1 = m - 1
      BY <1>s
    <3>5. /\ pc[p] # "E_help"
          /\ pc[p] # "E_swing" => l = m
          /\ pc[p] \in {"E_next", "E_check", "E_link"} => loc[p].tail = s[m]
          /\ pc[p] = "E_check" => loc[p].next = NULL
          /\ pc[p] = "E_swing" =>
               \/ l = m /\ loc[p].tail # qtail
               \/ l + 1 = m /\ loc[p].tail = qtail /\ loc[p].node = s[m]
      BY <1>p DEF SoleProducer, m
    <3> QED
      BY <1>2, <1>3, <3>1, <3>2, <3>3, <3>4, <3>5 DEF SoleProducer
  <2> QED
    BY <2>1, <2>2
<1>14. PairList(s2, 1, l - 1)'
  BY <1>3, <1>7, <1>10, <1>11, <1>12, <1>13 DEF PairList
<1> QED
  BY <1>3, <1>4, <1>14, <1>m

\* Every step of a thread keeps a chain, and ends no program.
LEMMA PairListStep ==
  ASSUME NEW p, NEW c, Producers = {p}, Consumers = {c}, TypeOK, InvRoles, ~aborted,
         NEW s \in Chains, NEW h \in 1..Len(s), NEW l \in 1..Len(s), PairList(s, h, l),
         NEW t \in Threads, Enqueue(t) \/ Drain(t)
  PROVE  /\ \E s2 \in Chains : \E h2, l2 \in 1..Len(s2) : PairList(s2, h2, l2)'
         /\ ~aborted'
<1> USE DEF At
<1>p. p \in Threads /\ c \in Threads /\ SoleProducer(p, s, l) /\ SoleConsumer(c, s, h, l)
  BY DEF Threads, PairList
<1>r. /\ Enqueue(t) => t = p
      /\ Drain(t) => t = c /\ pc[c] \in {"idle"} \cup DrainLabels
  BY Roles
<1>k. ASSUME NEW h2 \in 1..Len(s), NEW l2 \in 1..Len(s), PairList(s, h2, l2)'
      PROVE  \E s2 \in Chains : \E h3, l3 \in 1..Len(s2) : PairList(s2, h3, l3)'
  BY <1>k
<1>1. ASSUME Enqueue(t)
      PROVE  \E s2 \in Chains : \E h2, l2 \in 1..Len(s2) : PairList(s2, h2, l2)'
  <2>t. t = p
    BY <1>1, <1>r
  <2>1. CASE \/ CallEnqueue(t) \/ MallocFails(t) \/ ReadTail(t) \/ ReadTailNext(t) \/ CheckTail(t)
    <3>1. PairList(s, h, l)'
      BY <2>1, <2>t, PairEnqueueReads
    <3> QED
      BY <3>1, <1>k
  <2>2. CASE Malloc(t)
    <3>1. PairList(s, h, l)'
      BY <2>2, <2>t, PairMalloc
    <3> QED
      BY <3>1, <1>k
  <2>3. CASE Link(t)
    <3>1. PICK s2 : s2 = Append(s, loc[p].node)
      OBVIOUS
    <3>2. s2 \in Chains /\ h \in 1..Len(s2) /\ l \in 1..Len(s2) /\ PairList(s2, h, l)'
      BY <2>3, <2>t, <3>1, PairLink
    <3> QED
      BY <3>2
  <2>4. CASE SwingTail(t)
    <3>1. \E l2 \in 1..Len(s) : PairList(s, h, l2)'
      BY <2>4, <2>t, PairTailSteps
    <3> QED
      BY <3>1, <1>k
  <2>5. ~HelpTail(t)
    BY <2>t, <1>p DEF HelpTail, SoleProducer
  <2> QED
    BY <1>1, <2>1, <2>2, <2>3, <2>4, <2>5 DEF Enqueue
<1>2. ASSUME Drain(t)
      PROVE  \E s2 \in Chains : \E h2, l2 \in 1..Len(s2) : PairList(s2, h2, l2)'
  <2>t. t = c /\ pc[c] \in {"idle"} \cup DrainLabels
    BY <1>2, <1>r
  <2>1. CASE \/ CallDrain(t) \/ ReadHead(t) \/ ReadDrainTail(t) \/ ReadHeadNext(t) \/ CheckHead(t)
             \/ ReturnEmpty(t) \/ ReadElement(t) \/ AssertNotDequeued(t)
    <3>1. PairList(s, h, l)'
      BY <2>1, <2>t, PairDrainReads
    <3> QED
      BY <3>1, <1>k
  <2>2. CASE HelpDrainTail(t)
    <3>1. \E l2 \in 1..Len(s) : PairList(s, h, l2)'
      BY <2>2, <2>t, PairTailSteps
    <3> QED
      BY <3>1, <1>k
  <2>3. CASE CasHead(t)
    <3>1. 2 \in 1..Len(s) /\ PairList(s, 2, l)'
      BY <2>3, <2>t, PairCasHead
    <3> QED
      BY <3>1, <1>k
  <2>4. CASE MarkDequeued(t)
    <3>1. PairList(s, h, l)'
      BY <2>4, <2>t, PairMark
    <3> QED
      BY <3>1, <1>k
  <2>5. CASE FreeHead(t)
    BY <2>5, <2>t, PairFree
  <2> QED
    BY <1>2, <2>1, <2>2, <2>3, <2>4, <2>5 DEF Drain
<1>3. ~aborted'
  <2>1. CASE ReadTailNext(t)
    <3>1. t = p /\ loc[t].tail \in Nodes
      BY <2>1, <1>r, <1>p, PairShape DEF Enqueue, ReadTailNext, SoleProducer
    <3> QED
      BY <2>1, <3>1 DEF ReadTailNext, Faults
  <2>2. CASE ReadHeadNext(t)
    <3>1. t = c /\ loc[t].head \in Nodes
      BY <2>2, <1>r, <1>p, PairShape DEF Drain, ReadHeadNext, SoleConsumer, DrainLabels
    <3> QED
      BY <2>2, <3>1 DEF ReadHeadNext, Faults
  <2>3. CASE ReadElement(t)
    <3>1. t = c /\ loc[t].next = s[2] /\ 2 \in 1..Len(s)
      BY <2>3, <1>r, <1>p, PairShape DEF Drain, ReadElement, SoleConsumer
    <3>2. loc[t].next \in Nodes
      BY <3>1, PairShape
    <3> QED
      BY <2>3, <3>2 DEF ReadElement, Faults
  <2>4. CASE AssertNotDequeued(t)
    <3>1. t = c
      BY <2>4, <1>r DEF Drain
    <3> QED
      BY <2>4, <3>1, <1>p DEF AssertNotDequeued, SoleConsumer
  <2>5. CASE \/ CallEnqueue(t) \/ Malloc(t) \/ MallocFails(t) \/ ReadTail(t) \/ CheckTail(t)
             \/ Link(t) \/ HelpTail(t) \/ SwingTail(t) \/ CallDrain(t) \/ ReadHead(t)
             \/ ReadDrainTail(t) \/ CheckHead(t) \/ ReturnEmpty(t) \/ HelpDrainTail(t)
             \/ CasHead(t) \/ MarkDequeued(t) \/ FreeHead(t)
    BY <2>5, Zenon DEF CallEnqueue, Malloc, MallocFails, ReadTail, CheckTail, Link, HelpTail,
       SwingTail, CallDrain, ReadHead, ReadDrainTail, CheckHead, ReturnEmpty, HelpDrainTail,
       CasHead, MarkDequeued, FreeHead
  <2> QED
    BY <2>1, <2>2, <2>3, <2>4, <2>5 DEF Enqueue, Drain
<1> QED
  BY <1>1, <1>2, <1>3

\* What the two threads follow are nodes of the chain, which are live.
LEMMA PairFollows ==
  ASSUME NEW p, NEW c, Producers = {p}, Consumers = {c}, InvRoles,
         NEW s \in Chains, NEW h \in 1..Len(s), NEW l \in 1..Len(s), PairList(s, h, l),
         NEW t \in Threads
  PROVE  /\ pc[t] = "E_malloc" => loc[t].element \in Elements
         /\ pc[t] \in {"E_next", "E_link"} => loc[t].tail \in Nodes /\ heap[loc[t].tail] = "live"
         /\ pc[t] \in DrainLabels \ {"D_head"} =>
              loc[t].head \in Nodes /\ heap[loc[t].head] = "live"
         /\ pc[t] \in {"D_read", "D_cas"} \cup Decided =>
              loc[t].next \in Nodes /\ heap[loc[t].next] = "live"
         /\ pc[t] = "D_assert" => ~mem[loc[t].next].dequeued
<1>p. p \in Threads /\ c \in Threads /\ SoleProducer(p, s, l) /\ SoleConsumer(c, s, h, l)
  BY DEF Threads, PairList
<1>s. /\ Len(s) \in Nat \ {0} /\ l \in Nat /\ l <= Len(s)
      /\ \A i \in 1..Len(s) : s[i] \in Nodes /\ heap[s[i]] = "live"
  BY PairShape
<1>1. pc[t] \in EnqueueLabels => t = p
  BY DEF InvRoles
<1>2. pc[t] \in DrainLabels => t = c
  BY DEF InvRoles
<1>3. {"E_malloc", "E_next", "E_link"} \subseteq EnqueueLabels
      /\ {"D_read", "D_cas"} \cup Decided \subseteq DrainLabels \ {"D_head"} /\ "D_assert" \in Decided
  BY DEF EnqueueLabels, DrainLabels, Decided
<1>4. pc[t] = "E_malloc" => loc[t].element \in Elements
  BY <1>1, <1>3, <1>p DEF SoleProducer, Prepares
<1>5. pc[t] \in {"E_next", "E_link"} => loc[t].tail \in Nodes /\ heap[loc[t].tail] = "live"
  BY <1>1, <1>3, <1>p, <1>s DEF SoleProducer
<1>6. pc[t] \in DrainLabels \ {"D_head"} => loc[t].head = s[1]
  BY <1>2, <1>p DEF SoleConsumer
<1>7. pc[t] \in {"D_read", "D_cas"} \cup Decided => loc[t].next = s[2] /\ 2 \in 1..Len(s)
  BY <1>2, <1>3, <1>p, <1>s DEF SoleConsumer
<1>8. pc[t] = "D_assert" => ~mem[loc[t].next].dequeued
  BY <1>2, <1>3, <1>p DEF SoleConsumer
<1> QED
  BY <1>4, <1>5, <1>6, <1>7, <1>8, <1>s

\* QueueCreate makes a chain of one node, which nobody has looked at.
LEMMA PairInit ==
  ASSUME NEW p, NEW c, Producers = {p}, Consumers = {c}, Init
  PROVE  PairInv
<1>1. QueueInv /\ \A t \in Threads : pc[t] = "idle"
  BY QueueInit DEF Init
<1>2. PICK s \in Chains : Len(s) = 1 /\ ListInv(s, 1, 1)
  BY QueueInit
<1>p. p \in Threads /\ c \in Threads /\ 1 \in 1..Len(s)
  BY <1>2 DEF Threads
<1>3. SoleProducer(p, s, 1)
  BY <1>1, <1>2, <1>p DEF SoleProducer, Prepares, Unlinked
<1>4. SoleConsumer(c, s, 1, 1)
  BY <1>1, <1>2, <1>p DEF SoleConsumer, DrainLabels, Decided
<1>5. PairList(s, 1, 1)
  BY <1>2, <1>3, <1>4 DEF PairList, ListInv, InvHeap
<1>6. InvRoles
  BY <1>1 DEF InvRoles, EnqueueLabels, DrainLabels
<1> QED
  BY <1>1, <1>5, <1>6, <1>p DEF PairInv, QueueInv

\* Every step keeps the invariant.
LEMMA PairStep ==
  ASSUME NEW p, NEW c, Producers = {p}, Consumers = {c}, PairInv, [Next]_vars
  PROVE  PairInv'
<1>1. PICK s \in Chains : \E h, l \in 1..Len(s) : PairList(s, h, l)
  BY DEF PairInv
<1>2. PICK h \in 1..Len(s), l \in 1..Len(s) : PairList(s, h, l)
  BY <1>1
<1>3. TypeOK /\ ~aborted /\ InvRoles
  BY DEF PairInv
<1>4. CASE UNCHANGED vars
  <2>1. TypeOK' /\ ~aborted' /\ InvRoles'
    BY <1>3, <1>4 DEF vars, TypeOK, InvRoles
  <2>2. \A q \in Producers : SoleProducer(q, s, l)'
    BY <1>2, <1>4 DEF PairList, SoleProducer, Prepares, vars
  <2>3. \A d \in Consumers : SoleConsumer(d, s, h, l)'
    BY <1>2, <1>4 DEF PairList, SoleConsumer, vars
  <2>4. PairList(s, h, l)'
    BY <1>2, <1>4, <2>2, <2>3, PairLocalStep DEF vars, shared
  <2> QED
    BY <2>1, <2>4 DEF PairInv, Chains
<1>5. ASSUME NEW t \in Threads, Enqueue(t) \/ Drain(t) PROVE PairInv'
  <2>1. TypeOK'
    BY <1>2, <1>3, <1>5, PairFollows, TypeStep DEF Decided
  <2>2. InvRoles'
    BY <1>3, <1>5, RolesStay
  <2>3. (\E s2 \in Chains : \E h2, l2 \in 1..Len(s2) : PairList(s2, h2, l2)') /\ ~aborted'
    BY <1>2, <1>3, <1>5, PairListStep
  <2> QED
    BY <2>1, <2>2, <2>3 DEF PairInv, Chains
<1> QED
  BY <1>4, <1>5 DEF Next

\* What holds in every state when one thread enqueues and one drains, even with recycled memory.
THEOREM PairSafe ==
  ASSUME NEW p, NEW c, Producers = {p}, Consumers = {c}
  PROVE  Spec => []PairInv
<1>1. Init => PairInv
  BY PairInit
<1>2. PairInv /\ [Next]_vars => PairInv'
  BY PairStep
<1> QED
  BY <1>1, <1>2, PTL DEF Spec

\* With one producer and one consumer no thread of QueueEnqueue or QueueDrain reads, writes or
\* frees a node that was freed, though malloc hands freed nodes out again.
THEOREM NoDanglingAlways ==
  ASSUME NEW p, NEW c, Producers = {p}, Consumers = {c}
  PROVE  Spec => []NoDanglingAccess
<1>1. ASSUME PairInv PROVE NoDanglingAccess
  <2>1. PICK s \in Chains : \E h, l \in 1..Len(s) : PairList(s, h, l)
    BY <1>1 DEF PairInv
  <2>2. PICK h \in 1..Len(s), l \in 1..Len(s) : PairList(s, h, l)
    BY <2>1
  <2>3. ASSUME NEW t \in Threads, NextAccess(t) # NULL
        PROVE  NextAccess(t) \in Nodes /\ heap[NextAccess(t)] = "live"
    BY <1>1, <2>2, <2>3, PairFollows DEF PairInv, NextAccess, Decided, DrainLabels
  <2> QED
    BY <1>1, <2>3 DEF NoDanglingAccess, PairInv
<1> QED
  BY <1>1, PairSafe, PTL

\* With one producer and one consumer no wild pointer is followed and no assertion fails, recycled
\* memory or not.
THEOREM PairNeverAborts ==
  ASSUME NEW p, NEW c, Producers = {p}, Consumers = {c}
  PROVE  Spec => []NeverAborts
<1>1. PairInv => NeverAborts
  BY DEF PairInv, NeverAborts
<1> QED
  BY <1>1, PairSafe, PTL

\* A step of the producer or the consumer is one of the abstract queue, or none.
LEMMA PairRefines ==
  ASSUME NEW p, NEW c, Producers = {p}, Consumers = {c}, PairInv, [Next]_vars
  PROVE  Fifo!Next \/ UNCHANGED Fifo!vars
<1> USE DEF At
<1>1. PICK s \in Chains : \E h, l \in 1..Len(s) : PairList(s, h, l)
  BY DEF PairInv
<1>2. PICK h \in 1..Len(s), l \in 1..Len(s) : PairList(s, h, l)
  BY <1>1
<1>3. TypeOK /\ InvRoles /\ InvChain(s) /\ InvEnds(s, h, l)
  BY <1>2 DEF PairInv, PairList
<1>4. \A i \in 1..Len(s) : s[i] \in Nodes
  BY ChainShape
<1>5. CASE UNCHANGED vars
  BY <1>5, StutterRefines
<1>6. ASSUME NEW t \in Threads, Enqueue(t) PROVE Fifo!Next \/ UNCHANGED Fifo!vars
  <2>t. t = p
    BY <1>3, <1>6, Roles
  <2>1. ASSUME Malloc(t) PROVE Contents' = Contents
    <3>1. PairList(s, h, l)' /\ \A i \in 1..Len(s) : mem'[s[i]] = mem[s[i]]
      BY <1>2, <1>3, <2>1, <2>t, PairMalloc
    <3>2. InvChain(s)' /\ InvEnds(s, h, l)'
      BY <3>1 DEF PairList
    <3>3. \A i \in 1..Len(s) : mem'[s[i]].element = mem[s[i]].element
      BY <3>1
    <3> QED
      BY <1>3, <3>2, <3>3, ContentsKeep
  <2>2. ASSUME Link(t) PROVE Contents' = Append(Contents, loc[t].element)
    <3>1. PICK s2 : s2 = Append(s, loc[t].node)
      OBVIOUS
    <3>2. /\ s2 \in Chains /\ h \in 1..Len(s2) /\ l \in 1..Len(s2) /\ PairList(s2, h, l)'
          /\ mem' = [mem EXCEPT ![s[Len(s)]].next = loc[t].node]
          /\ loc[t].node \in Nodes /\ mem[loc[t].node].element = loc[t].element
      BY <1>2, <1>3, <2>2, <2>t, <3>1, PairLink
    <3>3. \A x \in Nodes : mem'[x].element = mem[x].element
      BY <1>3, <3>2 DEF TypeOK
    <3>4. InvChain(s2)' /\ InvEnds(s2, h, l)'
      BY <3>2 DEF PairList
    <3> QED
      BY <1>3, <3>1, <3>2, <3>3, <3>4, ContentsGrow, ZenonT(60)
  <2> QED
    BY <1>3, <1>6, <2>1, <2>2, EnqueueMaps
<1>7. ASSUME NEW t \in Threads, Drain(t) PROVE Fifo!Next \/ UNCHANGED Fifo!vars
  <2>t. t = c
    BY <1>3, <1>7, Roles
  <2>c. SoleConsumer(t, s, h, l)
    BY <1>2, <2>t DEF PairList
  <2>1. ASSUME ReturnEmpty(t) PROVE sawEmpty[t]
    <3>1. pc[t] = "D_check" /\ loc[t].next = NULL
      BY <2>1 DEF ReturnEmpty
    <3>2. Len(s) > 1 => s[2] # NULL
      <4>1. Len(s) > 1 => 2 \in 1..Len(s)
        BY ChainShape
      <4> QED
        BY <4>1, <1>4
    <3> QED
      BY <2>c, <3>1, <3>2 DEF SoleConsumer
  <2>2. ASSUME CasHead(t), qhead = loc[t].head PROVE TakesFirst(t)
    <3>1. /\ h = 1 /\ l > 1 /\ loc[t].next = s[2] /\ loc[t].element = mem[s[2]].element
      BY <1>2, <1>3, <2>2, <2>t, PairCasHead
    <3>2. qhead' = s[2] /\ UNCHANGED <<qtail, mem>>
      BY <2>2, <3>1 DEF CasHead
    <3>3. h + 1 = 2 /\ h < l
      BY <3>1, ChainShape
    <3> QED
      BY <1>3, <3>1, <3>2, <3>3, ContentsShrink DEF TakesFirst
  <2>3. ASSUME MarkDequeued(t) PROVE Contents' = Contents
    <3>1. PairList(s, h, l)' /\ \A x \in Nodes : mem'[x].element = mem[x].element
      BY <1>2, <1>3, <2>3, <2>t, PairMark
    <3>2. InvChain(s)' /\ InvEnds(s, h, l)'
      BY <3>1 DEF PairList
    <3>3. \A i \in 1..Len(s) : mem'[s[i]].element = mem[s[i]].element
      BY <1>4, <3>1
    <3> QED
      BY <1>3, <3>2, <3>3, ContentsKeep
  <2> QED
    BY <1>3, <1>7, <2>1, <2>2, <2>3, DrainMaps
<1> QED
  BY <1>5, <1>6, <1>7 DEF Next

\* With one producer and one consumer queue.c is the FIFO queue that its header announces,
\* though malloc hands freed nodes out again.
THEOREM PairImplementsFifo ==
  ASSUME NEW p, NEW c, Producers = {p}, Consumers = {c}
  PROVE  Spec => FifoSpec
<1>1. Init => Fifo!Init
  BY InitRefines
<1>2. PairInv /\ [Next]_vars => [Fifo!Next]_Fifo!vars
  BY PairRefines
<1> QED
  BY <1>1, <1>2, PairSafe, PTL DEF Spec, FifoSpec, Fifo!Spec
==============================================================================
