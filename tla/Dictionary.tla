------------------------------ MODULE Dictionary ------------------------------
(***************************************************************************)
(* chat/utils/dictionary.c: a binary tree of entries below a head entry    *)
(* whose key is "", with the retain counts of the entries, the recursive   *)
(* mutex of the dictionary, and iterators that walk the tree with a stack  *)
(* and hold that mutex.  Every call that takes the mutex and gives it back *)
(* is one step; between the calls of an iteration, and between the calls   *)
(* of ClientSetNickname, others run.                                       *)
(*                                                                         *)
(* A key is a number, < is strcmp, and the head entry is 0.  No caller     *)
(* passes "" (client.c:327 refuses empty nicknames).  An entry is named by *)
(* its key: CountsExact says there is no second one.  The values are not   *)
(* retained by the dictionary and are not looked into.                     *)
(*                                                                         *)
(* Callers keep to what the callers in the repository do: they modify a    *)
(* dictionary only outside their own iterations, but may leave an iterator *)
(* behind without releasing it, and with it the locked mutex.              *)
(***************************************************************************)
EXTENDS Integers, FiniteSets, Stack

CONSTANTS Keys, Values, Threads,
          Usual,         \* a value
          MaxUnusual,    \* bound: keys that have another value than Usual
          MaxIterators,  \* bound: iterators that are not released
          Nil

ASSUME DictionaryAssumption ==
  /\ Keys \subseteq Nat \ {0} /\ IsFiniteSet(Keys)
  /\ Usual \in Values /\ Nil \notin Values \cup Threads \cup Nat
  /\ MaxUnusual \in Nat /\ MaxIterators \in Nat \ {0}

VARIABLES
  heap,       \* the entries: left, right, value, and retainCount, 0 when not allocated
  dictCount,  \* the retain count of the dictionary
  owned,      \* does its creator still hold it?
  holder,     \* the thread that has the mutex
  locked,     \* did it take the mutex with a Lock of its own?
  iterators,  \* how many iterators have not been released
  iter,       \* the one that is in use, and the thread that uses it
  contents,   \* history: what was set and not removed
  visited     \* history: the keys the iterator in use has been at, in order

vars == <<heap, dictCount, owned, holder, locked, iterators, iter, contents, visited>>

HeadEntry == 0
Entries   == Keys \cup {HeadEntry}
Links     == Entries \cup {Nil}

NoIterator == [thread |-> Nil, current |-> Nil, stack |-> StackCreate]

TypeOK ==
  /\ heap \in [left : [Entries -> Links], right : [Entries -> Links],
               value : [Entries -> Values \cup {Nil}], retainCount : [Entries -> Nat]]
  /\ dictCount \in Nat /\ owned \in BOOLEAN /\ locked \in BOOLEAN
  /\ holder \in Threads \cup {Nil}
  /\ iterators \in 0..MaxIterators
  /\ iter.thread \in Threads \cup {Nil} /\ iter.current \in Keys \cup {Nil}
  /\ \A i \in DOMAIN iter.stack.objects : iter.stack.objects[i] \in Keys
  /\ contents \in [Keys -> Values \cup {Nil}]

------------------------------------------------------------------------------
(* Entries and their retain counts: operators from a heap to a heap. *)

Heaps == [left : [Entries -> Links], right : [Entries -> Links],
          value : [Entries -> Values \cup {Nil}], retainCount : [Entries -> Int]]

DictionaryEntryCreate(h, k, v) ==
  [h EXCEPT !.value[k] = v, !.left[k] = Nil, !.right[k] = Nil, !.retainCount[k] = 1]

Retained(h, e) == IF e = Nil THEN h ELSE [h EXCEPT !.retainCount[e] = @ + 1]

\* free(): nothing is left of an entry.
Freed(h, e) ==
  [h EXCEPT !.retainCount[e] = 0, !.value[e] = Nil, !.left[e] = Nil, !.right[e] = Nil]

\* The last release runs DictionaryEntryDealloc, which releases both children.
released[x \in Heaps \X Links] ==
  LET h == x[1]
      e == x[2]
  IN  IF e = Nil THEN h
      ELSE IF h.retainCount[e] # 1 THEN [h EXCEPT !.retainCount[e] = @ - 1]
      ELSE released[<<released[<<Freed(h, e), h.left[e]>>], h.right[e]>>]
Released(h, e) == released[<<h, e>>]

SetLeftEntry(h, e, l)  == Retained([Released(h, h.left[e]) EXCEPT !.left[e] = l], l)
SetRightEntry(h, e, r) == Retained([Released(h, h.right[e]) EXCEPT !.right[e] = r], r)

\* Puts e where old hangs below parent.
Replace(h, parent, old, e) ==
  IF h.left[parent] = old THEN SetLeftEntry(h, parent, e) ELSE SetRightEntry(h, parent, e)

------------------------------------------------------------------------------
(* The search tree.  What is greater than an entry is on its left. *)

Towards(h, e, k) == IF e < k THEN h.left[e] ELSE h.right[e]

\* The entry of k, or the one it would hang from.
Find(h, k) ==
  LET descend[e \in Entries] ==
        IF e = k \/ Towards(h, e, k) = Nil THEN e ELSE descend[Towards(h, e, k)]
  IN descend[HeadEntry]

Parent(h, k) ==
  LET descend[e \in Entries] ==
        IF Towards(h, e, k) \in {k, Nil} THEN e ELSE descend[Towards(h, e, k)]
  IN descend[HeadEntry]

Leftmost(h, e) ==
  LET descend[f \in Entries] == IF h.left[f] = Nil THEN f ELSE descend[h.left[f]]
  IN descend[e]

DictionaryGet(h, k) == IF Find(h, k) = k THEN h.value[k] ELSE Nil

\* Mutant of Inserted: the reference from the creation is kept.
InsertedNotReleased(h, k, v) ==
  LET e == Find(h, k)
      n == DictionaryEntryCreate(h, k, v)
  IN IF e < k THEN SetLeftEntry(n, e, k) ELSE SetRightEntry(n, e, k)

Inserted(h, k, v) ==
  LET e == Find(h, k)
      n == DictionaryEntryCreate(h, k, v)
  IN Released(IF e < k THEN SetLeftEntry(n, e, k) ELSE SetRightEntry(n, e, k), k)

\* Mutant of Hung: over what hangs there.
HungOver(h, l, r) == SetLeftEntry(h, r, l)

\* The left subtree goes below the smallest place of the right one that is left free.
Hung(h, l, r) == SetLeftEntry(h, Leftmost(h, r), l)

\* Two children: the right one moves up and the left one is hung below it.
\* One or none: it takes the place of the entry.
Removed(h, k) ==
  LET p == Parent(h, k)
      l == h.left[k]
      r == h.right[k]
      e == IF l # Nil THEN l ELSE r
  IN IF l # Nil /\ r # Nil
     THEN Released(Released(Hung(Replace(Retained(Retained(h, l), r), p, k, r), l, r), l), r)
     ELSE Released(Replace(Retained(h, e), p, k, e), e)

------------------------------------------------------------------------------
Init ==
  /\ heap = [left |-> [e \in Entries |-> Nil], right |-> [e \in Entries |-> Nil],
             value |-> [e \in Entries |-> Nil],
             retainCount |-> [e \in Entries |-> IF e = HeadEntry THEN 1 ELSE 0]]
  /\ dictCount = 1 /\ owned = TRUE
  /\ holder = Nil /\ locked = FALSE
  /\ iterators = 0 /\ iter = NoIterator
  /\ contents = [k \in Keys |-> Nil] /\ visited = <<>>

\* May t take the mutex?  It is recursive.
MayLock(t) == owned /\ holder \in {Nil, t}

\* A call of t that takes the mutex and gives it back, outside an iteration of t.
Calls(t) ==
  /\ MayLock(t) /\ iter.thread # t
  /\ UNCHANGED <<dictCount, owned, holder, locked, iterators, iter, visited>>

Unusual(c) == {k \in Keys : c[k] \notin {Usual, Nil}}

\* A new entry may not be had: then nothing is linked, and nobody told.
DictionarySet(t, k, v) ==
  /\ Calls(t)
  /\ \/ /\ Find(heap, k) = k
        /\ heap' = [heap EXCEPT !.value[k] = v]
        /\ contents' = [contents EXCEPT ![k] = v]
     \/ /\ Find(heap, k) # k
        /\ heap' = Inserted(heap, k, v)
        /\ contents' = [contents EXCEPT ![k] = v]
     \/ /\ Find(heap, k) # k
        /\ UNCHANGED <<heap, contents>>
  /\ Cardinality(Unusual(contents')) <= MaxUnusual

\* Mutant of DictionaryRemove: without Lock and Unlock.
DictionaryRemoveUnlocked(t, k) ==
  /\ owned /\ iter.thread # t
  /\ heap' = IF Find(heap, k) = k THEN Removed(heap, k) ELSE heap
  /\ contents' = [contents EXCEPT ![k] = Nil]
  /\ UNCHANGED <<dictCount, owned, holder, locked, iterators, iter, visited>>

DictionaryRemove(t, k) ==
  /\ Calls(t)
  /\ heap' = IF Find(heap, k) = k THEN Removed(heap, k) ELSE heap
  /\ contents' = [contents EXCEPT ![k] = Nil]

------------------------------------------------------------------------------
(* The mutex and the lifetime of the dictionary. *)

\* Release n references to the dictionary; the last one frees it and its entries.
ReleaseDictionary(n) ==
  /\ dictCount' = dictCount - n
  /\ heap' = IF dictCount = n THEN Released(heap, HeadEntry) ELSE heap

\* The reference is taken before the mutex.  That of a thread which still waits is not in
\* dictCount: it would matter only if the dictionary were given up under a thread that waits.
Lock(t) ==
  /\ MayLock(t) /\ ~locked /\ iter.thread # t
  /\ holder' = t /\ locked' = TRUE
  /\ dictCount' = dictCount + 1
  /\ UNCHANGED <<heap, owned, iterators, iter, contents, visited>>

Unlock(t) ==
  /\ locked /\ holder = t /\ iter.thread # t
  /\ locked' = FALSE
  /\ holder' = IF iterators = 0 THEN Nil ELSE t
  /\ ReleaseDictionary(1)
  /\ UNCHANGED <<owned, iterators, iter, contents, visited>>

\* The creator gives it up.
Release ==
  /\ owned /\ owned' = FALSE
  /\ ReleaseDictionary(1)
  /\ UNCHANGED <<holder, locked, iterators, iter, contents, visited>>

------------------------------------------------------------------------------
(* Iterators. *)

Pushed(stack, e) == IF e = Nil THEN stack ELSE StackPush(stack, e)

Advanced(i) ==
  IF IsEmptyStack(i.stack) THEN [i EXCEPT !.current = Nil]
  ELSE LET e == Top(i.stack) IN
       [i EXCEPT !.current = e,
                 !.stack = Pushed(Pushed(StackPop(i.stack), heap.left[e]), heap.right[e])]

Visits(i) == IF i.current = Nil THEN <<>> ELSE <<i.current>>

\* Mutant of GetIterator: without Lock, as in webserver/utils/dictionary.c.
GetIteratorUnlocked(t) ==
  LET first == Advanced(Advanced([thread |-> t, current |-> Nil,
                                  stack |-> StackPush(StackCreate, HeadEntry)]))
  IN /\ MayLock(t) /\ iter.thread = Nil /\ iterators < MaxIterators
     /\ dictCount' = dictCount + 2
     /\ iterators' = iterators + 1
     /\ iter' = first /\ visited' = Visits(first)
     /\ UNCHANGED <<heap, owned, holder, locked, contents>>

\* Lock, push the head entry, advance twice.  One reference is the mutex's, one the iterator's.
GetIterator(t) ==
  LET first == Advanced(Advanced([thread |-> t, current |-> Nil,
                                  stack |-> StackPush(StackCreate, HeadEntry)]))
  IN /\ MayLock(t) /\ iter.thread # t /\ iterators < MaxIterators
     /\ holder' = t /\ dictCount' = dictCount + 2
     /\ iterators' = iterators + 1
     /\ iter' = first /\ visited' = Visits(first)
     /\ UNCHANGED <<heap, owned, locked, contents>>

IteratorNext(t) ==
  /\ iter.thread = t /\ iter.current # Nil
  /\ iter' = Advanced(iter)
  /\ visited' = visited \o Visits(iter')
  /\ UNCHANGED <<heap, dictCount, owned, holder, locked, iterators, contents>>

IteratorDealloc(t) ==
  /\ iter.thread = t
  /\ iter' = NoIterator /\ visited' = <<>>
  /\ iterators' = iterators - 1
  /\ holder' = IF iterators = 1 /\ ~locked THEN Nil ELSE t
  /\ ReleaseDictionary(2)
  /\ UNCHANGED <<owned, locked, contents>>

\* ServerSendChannelMessage and /list return without releasing their iterator.
IteratorLeaked(t) ==
  /\ iter.thread = t /\ iter.current = Nil
  /\ iter' = NoIterator /\ visited' = <<>>
  /\ UNCHANGED <<heap, dictCount, owned, holder, locked, iterators, contents>>

\* Nobody has a pointer to it any longer.
Forgotten == ~owned /\ ~locked /\ iter = NoIterator /\ UNCHANGED vars

Next ==
  \/ \E t \in Threads :
       \/ \E k \in Keys : DictionaryRemove(t, k) \/ \E v \in Values : DictionarySet(t, k, v)
       \/ Lock(t) \/ Unlock(t)
       \/ GetIterator(t) \/ IteratorNext(t) \/ IteratorDealloc(t) \/ IteratorLeaked(t)
  \/ Release
  \/ Forgotten

Spec == Init /\ [][Next]_vars

------------------------------------------------------------------------------
(* Properties. *)

Present == {k \in Keys : contents[k] # Nil}

\* "Gets the value associated with key", "Sets the value", "Removes a given key": whatever
\* was set, changed and removed before, in any order, a lookup finds what the last set of
\* the key gave it, and nothing after its removal.
GetAgrees ==
  dictCount > 0 => \A k \in Keys : DictionaryGet(heap, k) = contents[k]

LinksTo(e) == {<<f, "left">> : f \in {g \in Entries : heap.left[g] = e}}
              \cup {<<f, "right">> : f \in {g \in Entries : heap.right[g] = e}}

\* Every variable has its type.  "Count how many objects hold a reference to this retainable":
\* an entry is counted once for each link to it, so that it lives exactly as long as it hangs in
\* the tree; the head lives as long as the dictionary; and that one counts its creator, its Lock
\* and its iterators.
CountsExact ==
  /\ TypeOK
  /\ dictCount = Cardinality({x \in {1} : owned}) + Cardinality({x \in {1} : locked})
                 + 2 * iterators
  /\ \A e \in Entries :
       heap.retainCount[e] = Cardinality(LinksTo(e))
                             + Cardinality({x \in {1} : e = HeadEntry /\ dictCount > 0})

\* An iterator never visits a key twice, and when it is at its end it has been at every key
\* that is in the dictionary then: nobody could change the tree under it, and its stack kept
\* every branch it passed by.
IterationIsComplete ==
  LET seen == {visited[i] : i \in DOMAIN visited} IN
  iter.thread # Nil =>
    /\ seen \subseteq Present /\ Cardinality(seen) = Len(visited)
    /\ iter.current = Nil => seen = Present

IteratorEntries == {iter.stack.objects[i] : i \in DOMAIN iter.stack.objects} \cup {iter.current}

\* The iterator retains neither its current entry nor those on its stack.  Whatever the other
\* threads try to set, remove or release between its calls, every entry it points at is still
\* allocated: only the mutex, and its reference to the dictionary, see to that.
IteratorEntriesLive ==
  iter.thread # Nil => \A e \in IteratorEntries : e # Nil => heap.retainCount[e] > 0

================================================================================
