--------------------------- MODULE DictionaryProofs ---------------------------
(***************************************************************************)
(* Proofs about Dictionary, for any finite set of keys, any values and     *)
(* threads and any number of iterators.                                    *)
(***************************************************************************)
EXTENDS Dictionary, SequenceTheorems, FiniteSetTheorems, FunctionTheorems, WellFoundedInduction, TLAPS

------------------------------------------------------------------------------
(* Smallest members, and induction over a set of numbers. *)

\* A set of natural numbers that has a member has a smallest one.
LEMMA LeastMember ==
  ASSUME NEW S, S \subseteq Nat, S # {}
  PROVE  \E m \in S : \A k \in S : m <= k
<1>1. \A x, y \in Nat : x < y => <<x, y>> \in OpToRel(<, Nat)
  BY DEF OpToRel
<1>2. \E R : IsWellFoundedOn(R, Nat) /\ \A x, y \in Nat : x < y => <<x, y>> \in R
  BY <1>1, NatLessThanWellFounded, Zenon
<1>3. PICK R : IsWellFoundedOn(R, Nat) /\ \A x, y \in Nat : x < y => <<x, y>> \in R
  BY <1>2
<1>4. PICK m \in S : \A k \in S : ~ (<<k, m>> \in R)
  BY <1>3, WFMin, ZenonT(90)
<1>5. \A k \in S : ~ (k < m)
  BY <1>3, <1>4, Zenon
<1> QED
  BY <1>5

\* A set that has 0 and with each number the next one has them all.
LEMMA NumbersUpTo ==
  ASSUME NEW n \in Nat, NEW G, 0 \in G, \A m \in Nat : m < n /\ m \in G => m + 1 \in G
  PROVE  \A m \in 0..n : m \in G
<1> DEFINE Bad == {m \in 0..n : m \notin G}
<1> SUFFICES ASSUME Bad # {} PROVE FALSE
  OBVIOUS
<1>1. Bad \subseteq Nat
  OBVIOUS
<1>2. PICK m \in Bad : \A k \in Bad : m <= k
  <2> HIDE DEF Bad
  <2> QED
    BY <1>1, LeastMember
<1>3. m \in Nat /\ m - 1 \in Nat /\ m - 1 < n /\ m - 1 \notin Bad
  BY <1>2
<1>4. m - 1 \in G
  BY <1>2, <1>3
<1> QED
  BY <1>2, <1>3, <1>4

\* A set that has each member of S if it has all smaller ones has them all.
LEMMA SmallerFirst ==
  ASSUME NEW S, NEW size \in [S -> Nat], NEW G,
         \A e \in S : (\A d \in S : size[d] < size[e] => d \in G) => e \in G
  PROVE  S \subseteq G
<1> SUFFICES ASSUME ~(S \subseteq G) PROVE FALSE
  OBVIOUS
<1> DEFINE Bad == {e \in S : e \notin G}
<1> DEFINE Sizes == {size[e] : e \in Bad}
<1>1. Sizes \subseteq Nat /\ Sizes # {}
  OBVIOUS
<1>2. PICK m \in Sizes : \A k \in Sizes : m <= k
  <2> HIDE DEF Sizes
  <2> QED
    BY <1>1, LeastMember
<1>3. PICK e \in Bad : m = size[e]
  BY <1>2
<1>4. \A d \in S : size[d] < size[e] => d \in G
  <2> SUFFICES ASSUME NEW d \in S, size[d] < size[e], d \notin G PROVE FALSE
    OBVIOUS
  <2>1. size[d] \in Sizes
    OBVIOUS
  <2>2. size[e] <= size[d]
    BY <1>2, <1>3, <2>1
  <2>3. size[e] \in Nat /\ size[d] \in Nat
    BY <1>3
  <2> QED
    BY ONLY <2>2, <2>3, size[d] < size[e]
<1> QED
  BY <1>3, <1>4

------------------------------------------------------------------------------
(* The constants. *)

\* Entries are numbers, the head is the smallest, and Nil is none of them.
LEMMA EntryFacts ==
  /\ Entries \subseteq Nat /\ HeadEntry \in Entries /\ HeadEntry = 0 /\ Keys \subseteq Entries
  /\ Links = Entries \cup {Nil} /\ Nil \notin Entries /\ Nil \notin Keys
  /\ \A k \in Keys : k \in Nat /\ k > 0
  /\ \A e \in Entries : e # HeadEntry => e \in Keys
  /\ IsFiniteSet(Entries)
<1>1. IsFiniteSet(Keys \cup {HeadEntry})
  BY DictionaryAssumption, FS_AddElement
<1>2. HeadEntry = 0 /\ Links = Entries \cup {Nil} /\ Entries = Keys \cup {HeadEntry}
  BY DEF HeadEntry, Links, Entries
<1>3. Keys \subseteq Nat /\ \A k \in Keys : k \in Nat /\ k # 0
  BY DictionaryAssumption
<1>4. Nil \notin Nat
  BY DictionaryAssumption
<1>5. Entries \subseteq Nat /\ HeadEntry \in Entries /\ Keys \subseteq Entries
  BY <1>2, <1>3
<1>6. Nil \notin Entries /\ Nil \notin Keys
  BY <1>4, <1>5
<1>7. \A k \in Keys : k \in Nat /\ k > 0
  BY <1>3
<1>8. \A e \in Entries : e # HeadEntry => e \in Keys
  BY <1>2
<1>9. IsFiniteSet(Entries)
  BY <1>1, <1>2
<1> QED
  BY <1>2, <1>5, <1>6, <1>7, <1>8, <1>9

\* There is a number greater than every entry.
LEMMA EntriesBounded ==
  \E b \in Nat : \A e \in Entries : e < b
<1> DEFINE n == Cardinality(Entries)
<1>1. n \in Nat /\ ExistsBijection(1..n, Entries)
  BY EntryFacts, FS_CardinalityType
<1>2. PICK f : f \in Bijection(1..n, Entries)
  BY <1>1 DEF ExistsBijection
<1>3. f \in [1..n -> Entries] /\ \A e \in Entries : \E i \in 1..n : f[i] = e
  BY <1>2 DEF Bijection, Surjection, Injection
<1>4. \A i \in 1..n : f[i] \in Nat
  BY <1>3, EntryFacts
<1> HIDE DEF n
<1> DEFINE G == {m \in Nat : \E b \in Nat : \A i \in 1..n : i <= m => f[i] < b}
<1>5. 0 \in G
  <2>1. \A i \in 1..n : ~(i <= 0)
    BY <1>1
  <2> QED
    BY <2>1
<1>6. ASSUME NEW m \in Nat, m < n, m \in G PROVE m + 1 \in G
  <2>1. PICK b \in Nat : \A i \in 1..n : i <= m => f[i] < b
    BY <1>6
  <2>2. m + 1 \in 1..n
    BY <1>1, <1>6
  <2>3. f[m + 1] \in Nat
    BY <1>4, <2>2
  <2>4. PICK c \in Nat : b <= c /\ f[m + 1] < c
    <3>1. CASE f[m + 1] < b
      BY <3>1
    <3>2. CASE ~ (f[m + 1] < b)
      <4>1. f[m + 1] + 1 \in Nat /\ b <= f[m + 1] + 1 /\ f[m + 1] < f[m + 1] + 1
        BY <2>3, <3>2
      <4> QED
        BY <4>1
    <3> QED
      BY <3>1, <3>2
  <2>5. \A i \in 1..n : i <= m + 1 => f[i] < c
    <3> SUFFICES ASSUME NEW i \in 1..n, i <= m + 1 PROVE f[i] < c
      OBVIOUS
    <3>1. CASE i = m + 1
      BY <2>4, <3>1
    <3>2. CASE i # m + 1
      <4>1. i <= m
        BY <1>1, <3>2
      <4>2. f[i] \in Nat /\ f[i] < b
        BY <1>4, <2>1, <4>1
      <4> QED
        BY <2>4, <4>2
    <3> QED
      BY <3>1, <3>2
  <2> QED
    BY <2>5
<1>7. n \in G
  <2> HIDE DEF G
  <2>1. \A m \in 0..n : m \in G
    BY <1>1, <1>5, <1>6, NumbersUpTo
  <2> QED
    BY <1>1, <2>1
<1>8. PICK b \in Nat : \A i \in 1..n : f[i] < b
  BY <1>1, <1>7
<1> QED
  BY <1>3, <1>8

------------------------------------------------------------------------------
(* Walking down a heap. *)

\* What the functions of Dictionary that walk down say of each place.
Walks(f, S, stop, next) == f = [e \in S |-> IF stop[e] THEN e ELSE f[next[e]]]

\* There is such a function when the places get smaller.
LEMMA WalkExists ==
  ASSUME NEW S, NEW stop \in [S -> BOOLEAN], NEW next \in [S -> S], NEW size \in [S -> Nat],
         \A e \in S : ~stop[e] => size[next[e]] < size[e],
         NEW b \in Nat, \A e \in S : size[e] < b
  PROVE  \E f : Walks(f, S, stop, next)
<1> DEFINE Low(n) == {e \in S : size[e] < n}
<1> DEFINE Good(n) == \E f \in [Low(n) -> S] :
                        \A e \in Low(n) : f[e] = IF stop[e] THEN e ELSE f[next[e]]
<1> DEFINE G == {n \in Nat : Good(n)}
<1>1. 0 \in G
  <2>1. Low(0) = {}
    OBVIOUS
  <2>2. [e \in {} |-> e] \in [{} -> S]
    OBVIOUS
  <2> QED
    BY <2>1, <2>2
<1>2. ASSUME NEW n \in Nat, n \in G PROVE n + 1 \in G
  <2>1. PICK f \in [Low(n) -> S] : \A e \in Low(n) : f[e] = IF stop[e] THEN e ELSE f[next[e]]
    BY <1>2
  <2> DEFINE g == [e \in Low(n + 1) |-> IF stop[e] THEN e ELSE f[next[e]]]
  <2>2. \A e \in Low(n + 1) : ~stop[e] => next[e] \in Low(n)
    OBVIOUS
  <2>3. Low(n) \subseteq Low(n + 1)
    OBVIOUS
  <2>4. g \in [Low(n + 1) -> S]
    BY <2>2
  <2>5. \A e \in Low(n) : g[e] = f[e]
    BY <2>1, <2>3
  <2>6. \A e \in Low(n + 1) : g[e] = IF stop[e] THEN e ELSE g[next[e]]
    BY <2>2, <2>5
  <2> HIDE DEF g
  <2>7. Good(n + 1)
    BY <2>4, <2>6
  <2>8. n + 1 \in Nat
    OBVIOUS
  <2> HIDE DEF Good
  <2> QED
    BY <2>7, <2>8
<1>3. b \in G
  <2> HIDE DEF G
  <2>1. \A m \in 0..b : m \in G
    BY <1>1, <1>2, NumbersUpTo
  <2> QED
    BY <2>1
<1>4. Low(b) = S
  OBVIOUS
<1> QED
  BY <1>3, <1>4 DEF Walks

\* Where it ends, it ends in any set that it does not leave.
LEMMA WalkEnds ==
  ASSUME NEW S, NEW stop \in [S -> BOOLEAN], NEW next \in [S -> S], NEW size \in [S -> Nat],
         \A e \in S : ~stop[e] => size[next[e]] < size[e],
         NEW f, Walks(f, S, stop, next),
         NEW P, P \subseteq S, \A e \in P : ~stop[e] => next[e] \in P, NEW first \in P
  PROVE  f[first] \in P /\ stop[f[first]]
<1> DEFINE G == {e \in S : e \in P => f[e] \in P /\ stop[f[e]]}
<1>1. ASSUME NEW e \in S, \A d \in S : size[d] < size[e] => d \in G
      PROVE  e \in G
  <2>1. f[e] = IF stop[e] THEN e ELSE f[next[e]]
    BY DEF Walks
  <2>2. CASE stop[e]
    BY <2>1, <2>2
  <2>3. CASE ~stop[e]
    <3>1. next[e] \in G
      BY <1>1, <2>3
    <3> QED
      BY <2>1, <2>3, <3>1
  <2> QED
    BY <2>2, <2>3
<1>2. S \subseteq G
  <2> HIDE DEF G
  <2> QED
    BY <1>1, SmallerFirst
<1> QED
  BY <1>2

------------------------------------------------------------------------------
(* Heaps, and what a release does to one. *)

\* A heap is made of its four parts.
LEMMA HeapParts ==
  ASSUME NEW h \in Heaps
  PROVE  /\ h.left \in [Entries -> Links] /\ h.right \in [Entries -> Links]
         /\ h.value \in [Entries -> Values \cup {Nil}] /\ h.retainCount \in [Entries -> Int]
BY DEF Heaps

\* Two heaps with the same parts are the same.
LEMMA SameHeap ==
  ASSUME NEW h \in Heaps, NEW g \in Heaps, h.left = g.left, h.right = g.right,
         h.value = g.value, h.retainCount = g.retainCount
  PROVE  h = g
<1>1. /\ h = [left |-> h.left, right |-> h.right, value |-> h.value, retainCount |-> h.retainCount]
      /\ g = [left |-> g.left, right |-> g.right, value |-> g.value, retainCount |-> g.retainCount]
  BY DEF Heaps
<1> QED
  BY <1>1

\* The other branches of Released: one reference less, and the entry given back.
Dropped(h, e) == [h EXCEPT !.retainCount[e] = @ - 1]

\* It changes one count.
LEMMA DroppedParts ==
  ASSUME NEW h \in Heaps, NEW e \in Entries
  PROVE  /\ Dropped(h, e) \in Heaps
         /\ Dropped(h, e).left = h.left /\ Dropped(h, e).right = h.right
         /\ Dropped(h, e).value = h.value
         /\ Dropped(h, e).retainCount = [h.retainCount EXCEPT ![e] = @ - 1]
BY DEF Heaps, Dropped

\* An entry that is given back loses its links, its value and its count.
LEMMA FreedParts ==
  ASSUME NEW h \in Heaps, NEW e \in Entries
  PROVE  /\ Freed(h, e) \in Heaps
         /\ Freed(h, e).left = [h.left EXCEPT ![e] = Nil]
         /\ Freed(h, e).right = [h.right EXCEPT ![e] = Nil]
         /\ Freed(h, e).value = [h.value EXCEPT ![e] = Nil]
         /\ Freed(h, e).retainCount = [h.retainCount EXCEPT ![e] = 0]
<1> DEFINE rc == [h.retainCount EXCEPT ![e] = 0]
<1> DEFINE v == [h.value EXCEPT ![e] = Nil]
<1> DEFINE l == [h.left EXCEPT ![e] = Nil]
<1> DEFINE r == [h.right EXCEPT ![e] = Nil]
<1>0. /\ h.left \in [Entries -> Links] /\ h.right \in [Entries -> Links]
      /\ h.value \in [Entries -> Values \cup {Nil}] /\ h.retainCount \in [Entries -> Int]
  BY HeapParts
<1>1. Freed(h, e) = [h EXCEPT !.retainCount = rc, !.value = v, !.left = l, !.right = r]
  BY DEF Heaps, Freed
<1>2. /\ l \in [Entries -> Links] /\ r \in [Entries -> Links]
      /\ v \in [Entries -> Values \cup {Nil}] /\ rc \in [Entries -> Int]
  BY <1>0 DEF Links
<1> HIDE DEF l, r, v, rc
<1>3. Freed(h, e) \in Heaps
  BY <1>1, <1>2 DEF Heaps
<1>4. /\ Freed(h, e).left = l /\ Freed(h, e).right = r
      /\ Freed(h, e).value = v /\ Freed(h, e).retainCount = rc
  BY <1>1 DEF Heaps
<1> QED
  BY <1>3, <1>4 DEF l, r, v, rc

\* How many entries are allocated.
Alive(h) == {e \in Entries : h.retainCount[e] > 0}
Live(h)  == Cardinality(Alive(h))

\* There are finitely many entries that have references.
LEMMA LiveIsNat == \A h : IsFiniteSet(Alive(h)) /\ Live(h) \in Nat
<1> SUFFICES ASSUME NEW h PROVE IsFiniteSet(Alive(h)) /\ Live(h) \in Nat
  OBVIOUS
<1>1. Alive(h) \subseteq Entries
  BY DEF Alive
<1> QED
  BY <1>1, EntryFacts, FS_Subset, FS_CardinalityType DEF Live

\* No release makes it more, and giving an entry back makes it one less.
LEMMA DroppedLive ==
  ASSUME NEW h \in Heaps, NEW e \in Entries
  PROVE  Live(Dropped(h, e)) <= Live(h)
<1>1. Alive(Dropped(h, e)) \subseteq Alive(h)
  <2>1. \A d \in Entries : /\ h.retainCount[d] \in Int /\ h.retainCount[e] \in Int
                          /\ Dropped(h, e).retainCount[d] = IF d = e THEN h.retainCount[e] - 1
                                                            ELSE h.retainCount[d]
    <3>1. /\ h.retainCount \in [Entries -> Int]
          /\ Dropped(h, e).retainCount = [h.retainCount EXCEPT ![e] = @ - 1]
      BY DroppedParts, HeapParts
    <3> QED
      BY <3>1
  <2> QED
    BY <2>1 DEF Alive
<1> QED
  BY <1>1, LiveIsNat, FS_Subset DEF Live

\* Giving an entry back makes it one less.
LEMMA FreedLive ==
  ASSUME NEW h \in Heaps, NEW e \in Entries, h.retainCount[e] = 1
  PROVE  Live(Freed(h, e)) < Live(h)
<1>1. Alive(Freed(h, e)) \subseteq Alive(h) /\ e \in Alive(h) /\ e \notin Alive(Freed(h, e))
  <2>1. \A d \in Entries : /\ h.retainCount[d] \in Int
                          /\ Freed(h, e).retainCount[d] = IF d = e THEN 0 ELSE h.retainCount[d]
    <3>1. /\ h.retainCount \in [Entries -> Int]
          /\ Freed(h, e).retainCount = [h.retainCount EXCEPT ![e] = 0]
      BY FreedParts, HeapParts
    <3> QED
      BY <3>1
  <2> QED
    BY <2>1 DEF Alive
<1>2. /\ Cardinality(Alive(Freed(h, e))) <= Cardinality(Alive(h))
      /\ Cardinality(Alive(h)) = Cardinality(Alive(Freed(h, e))) => Alive(h) = Alive(Freed(h, e))
  BY <1>1, LiveIsNat, FS_Subset, Zenon
<1>3. Alive(h) # Alive(Freed(h, e))
  BY <1>1
<1>4. Live(h) \in Nat /\ Live(Freed(h, e)) \in Nat
  BY LiveIsNat
<1> QED
  BY <1>2, <1>3, <1>4 DEF Live

\* What released says of a heap and an entry, with f for itself.
Releases(f, h, e) ==
  IF e = Nil THEN h
  ELSE IF h.retainCount[e] # 1 THEN Dropped(h, e)
  ELSE f[<<f[<<Freed(h, e), h.left[e]>>], h.right[e]>>]

\* There is such a function, as every call of itself has fewer entries left.
LEMMA ReleasedExists ==
  \E f \in [Heaps \X Links -> Heaps] :
     \A h \in Heaps, e \in Links : /\ f[<<h, e>>] = Releases(f, h, e)
                                   /\ Live(f[<<h, e>>]) <= Live(h)
<1> DEFINE Low(n) == {x \in Heaps \X Links : Live(x[1]) < n}
<1> DEFINE Fits(f, n) == /\ f \in [Low(n) -> Heaps]
                         /\ \A h \in Heaps, e \in Links :
                              Live(h) < n => /\ f[<<h, e>>] = Releases(f, h, e)
                                             /\ Live(f[<<h, e>>]) <= Live(h)
<1> DEFINE G == {n \in Nat : \E f : Fits(f, n)}
<1>0. \A n \in Nat : \A h \in Heaps, e \in Links : <<h, e>> \in Low(n) <=> Live(h) < n
  OBVIOUS
<1>1. 0 \in G
  <2> DEFINE f == [x \in {} |-> x]
  <2>1. \A h : ~(Live(h) < 0)
    BY LiveIsNat
  <2>2. Low(0) = {}
    BY <2>1
  <2>3. f \in [Low(0) -> Heaps]
    BY <2>2
  <2> HIDE DEF f
  <2>4. Fits(f, 0)
    BY <2>1, <2>3
  <2> HIDE DEF Fits
  <2> QED
    BY <2>4
<1>2. ASSUME NEW n \in Nat, n \in G PROVE n + 1 \in G
  <2>1. PICK f : Fits(f, n)
    BY <1>2
  <2> DEFINE g == [x \in Low(n + 1) |-> Releases(f, x[1], x[2])]
  <2>2. ASSUME NEW h \in Heaps, NEW e \in Links, Live(h) < n + 1
        PROVE  /\ Releases(f, h, e) \in Heaps /\ Live(Releases(f, h, e)) <= Live(h)
               /\ (e # Nil /\ h.retainCount[e] = 1) =>
                    /\ Freed(h, e) \in Heaps /\ Live(Freed(h, e)) < n /\ h.left[e] \in Links
                    /\ f[<<Freed(h, e), h.left[e]>>] \in Heaps
                    /\ Live(f[<<Freed(h, e), h.left[e]>>]) < n /\ h.right[e] \in Links
    <3>0. Live(h) \in Nat
      BY LiveIsNat
    <3>1. CASE e = Nil
      BY <3>0, <3>1 DEF Releases
    <3>2. CASE e # Nil /\ h.retainCount[e] # 1
      <4>1. e \in Entries
        BY <3>2, EntryFacts
      <4> QED
        BY <3>2, <4>1, DroppedParts, DroppedLive DEF Releases
    <3>3. CASE e # Nil /\ h.retainCount[e] = 1
      <4>1. e \in Entries
        BY <3>3, EntryFacts
      <4> DEFINE a == Freed(h, e)
                 l == h.left[e]
                 r == h.right[e]
                 b == f[<<a, l>>]
                 c == f[<<b, r>>]
      <4>2. l \in Links /\ r \in Links
        BY <4>1, HeapParts
      <4>3. a \in Heaps /\ Live(a) < Live(h) /\ Live(a) \in Nat
        BY <3>3, <4>1, FreedParts, FreedLive, LiveIsNat
      <4>4. Live(a) < n
        BY <2>2, <3>0, <4>3
      <4>5. <<a, l>> \in Low(n)
        BY <1>0, <4>2, <4>3, <4>4
      <4>6. b \in Heaps /\ Live(b) <= Live(a) /\ Live(b) \in Nat
        BY <2>1, <4>2, <4>3, <4>4, <4>5, LiveIsNat
      <4>7. Live(b) < n
        BY <4>3, <4>4, <4>6
      <4>8. <<b, r>> \in Low(n)
        BY <1>0, <4>2, <4>6, <4>7
      <4>9. c \in Heaps /\ Live(c) <= Live(b) /\ Live(c) \in Nat
        BY <2>1, <4>2, <4>6, <4>7, <4>8, LiveIsNat
      <4>10. Releases(f, h, e) = c
        BY <3>3 DEF Releases
      <4>11. Live(c) <= Live(h)
        BY <3>0, <4>3, <4>6, <4>9
      <4> QED
        BY <4>2, <4>3, <4>4, <4>6, <4>7, <4>9, <4>10, <4>11
    <3> QED
      BY <3>1, <3>2, <3>3
  <2>3. \A h \in Heaps, e \in Links : Live(h) < n + 1 => g[<<h, e>>] = Releases(f, h, e)
    BY <1>0
  <2>4. g \in [Low(n + 1) -> Heaps]
    <3> SUFFICES ASSUME NEW x \in Low(n + 1) PROVE Releases(f, x[1], x[2]) \in Heaps
      OBVIOUS
    <3>1. x[1] \in Heaps /\ x[2] \in Links /\ Live(x[1]) < n + 1
      OBVIOUS
    <3> QED
      BY <2>2, <3>1
  <2> HIDE DEF g
  <2>5. \A h \in Heaps, e \in Links : Live(h) < n => g[<<h, e>>] = f[<<h, e>>]
    <3> SUFFICES ASSUME NEW h \in Heaps, NEW e \in Links, Live(h) < n
                 PROVE  g[<<h, e>>] = f[<<h, e>>]
      OBVIOUS
    <3>1. Live(h) < n + 1
      BY LiveIsNat
    <3> QED
      BY <2>1, <2>3, <3>1
  <2>6. ASSUME NEW h \in Heaps, NEW e \in Links, Live(h) < n + 1
        PROVE  g[<<h, e>>] = Releases(g, h, e) /\ Live(g[<<h, e>>]) <= Live(h)
    <3>1. g[<<h, e>>] = Releases(f, h, e)
      BY <2>3, <2>6
    <3>2. Releases(g, h, e) = Releases(f, h, e)
      <4>1. CASE ~(e # Nil /\ h.retainCount[e] = 1)
        BY <4>1 DEF Releases
      <4>2. CASE e # Nil /\ h.retainCount[e] = 1
        <5> DEFINE a == Freed(h, e)
                   b == f[<<a, h.left[e]>>]
        <5>1. /\ a \in Heaps /\ Live(a) < n /\ h.left[e] \in Links
              /\ b \in Heaps /\ Live(b) < n /\ h.right[e] \in Links
          BY <2>2, <2>6, <4>2
        <5>2. g[<<a, h.left[e]>>] = b
          BY <2>5, <5>1
        <5>3. g[<<b, h.right[e]>>] = f[<<b, h.right[e]>>]
          BY <2>5, <5>1
        <5> HIDE DEF a
        <5> QED
          BY <4>2, <5>2, <5>3 DEF Releases, a
      <4> QED
        BY <4>1, <4>2
    <3> QED
      BY <2>2, <2>6, <3>1, <3>2
  <2>7. Fits(g, n + 1)
    BY <2>4, <2>6
  <2>8. n + 1 \in Nat
    OBVIOUS
  <2> HIDE DEF Fits
  <2> QED
    BY <2>7, <2>8
<1> DEFINE top == Cardinality(Entries) + 1
<1>3. top \in Nat /\ \A h : Live(h) < top
  <2> SUFFICES ASSUME NEW h PROVE top \in Nat /\ Live(h) < top
    OBVIOUS
  <2>1. Alive(h) \subseteq Entries
    BY DEF Alive
  <2>2. Cardinality(Alive(h)) <= Cardinality(Entries)
    BY <2>1, EntryFacts, FS_Subset
  <2>3. Cardinality(Entries) \in Nat /\ Live(h) \in Nat
    BY EntryFacts, FS_CardinalityType, LiveIsNat
  <2> QED
    BY <2>2, <2>3 DEF Live
<1> HIDE DEF top
<1>4. top \in G
  <2> HIDE DEF G
  <2>1. \A m \in 0..top : m \in G
    BY <1>1, <1>2, <1>3, NumbersUpTo
  <2> QED
    BY <1>3, <2>1
<1>5. PICK f : Fits(f, top)
  BY <1>4
<1>6. Low(top) = Heaps \X Links
  BY <1>3
<1> QED
  BY <1>3, <1>5, <1>6

\* So what the model says of a release holds.
LEMMA ReleasedIs ==
  \A h \in Heaps, e \in Links :
     /\ Released(h, e) \in Heaps
     /\ Released(h, e) = IF e = Nil THEN h
                         ELSE IF h.retainCount[e] # 1 THEN Dropped(h, e)
                         ELSE Released(Released(Freed(h, e), h.left[e]), h.right[e])
<1> DEFINE Is(f) == f = [x \in Heaps \X Links |-> Releases(f, x[1], x[2])]
<1>1. PICK f \in [Heaps \X Links -> Heaps] :
             \A h \in Heaps, e \in Links : /\ f[<<h, e>>] = Releases(f, h, e)
                                           /\ Live(f[<<h, e>>]) <= Live(h)
  BY ReleasedExists
<1>2. Is(f)
  <2>1. \A x \in Heaps \X Links : f[x] = Releases(f, x[1], x[2])
    BY <1>1
  <2> QED
    BY <2>1
<1>3. ASSUME NEW g, Is(g) PROVE g = f
  <2>1. \A h \in Heaps, e \in Links : g[<<h, e>>] = Releases(g, h, e)
    BY <1>3
  <2> DEFINE S == Heaps \X Links
             size == [x \in S |-> Live(x[1])]
             G == {x \in S : g[x] = f[x]}
  <2>2. size \in [S -> Nat] /\ \A h \in Heaps, e \in Links : size[<<h, e>>] = Live(h)
    BY LiveIsNat
  <2>3. ASSUME NEW x \in S, \A y \in S : size[y] < size[x] => y \in G
        PROVE  x \in G
    <3>1. PICK h \in Heaps, e \in Links : x = <<h, e>>
      OBVIOUS
    <3>2. CASE ~(e # Nil /\ h.retainCount[e] = 1)
      <4>1. Releases(g, h, e) = Releases(f, h, e)
        BY <3>2 DEF Releases
      <4> QED
        BY <1>1, <2>1, <3>1, <4>1
    <3>3. CASE e # Nil /\ h.retainCount[e] = 1
      <4> DEFINE a == Freed(h, e)
                 b == f[<<a, h.left[e]>>]
      <4>1. e \in Entries /\ h.left[e] \in Links /\ h.right[e] \in Links
        BY <3>3, EntryFacts, HeapParts
      <4>2. a \in Heaps /\ Live(a) < Live(h) /\ Live(a) \in Nat /\ Live(h) \in Nat
        BY <3>3, <4>1, FreedParts, FreedLive, LiveIsNat
      <4>3. b \in Heaps /\ Live(b) <= Live(a) /\ Live(b) \in Nat
        BY <1>1, <4>1, <4>2, LiveIsNat
      <4>4. g[<<a, h.left[e]>>] = b
        BY <2>2, <2>3, <3>1, <4>1, <4>2
      <4>5. Live(b) < Live(h)
        BY <4>2, <4>3
      <4>6. g[<<b, h.right[e]>>] = f[<<b, h.right[e]>>]
        BY <2>2, <2>3, <3>1, <4>1, <4>3, <4>5
      <4>7. g[x] = g[<<g[<<a, h.left[e]>>], h.right[e]>>] /\ f[x] = f[<<b, h.right[e]>>]
        BY <1>1, <2>1, <3>1, <3>3 DEF Releases
      <4> QED
        BY <4>4, <4>6, <4>7
    <3> QED
      BY <3>2, <3>3
  <2>4. S \subseteq G
    <3> HIDE DEF G, S, size
    <3> QED
      BY <2>2, <2>3, SmallerFirst
  <2>5. g = [x \in S |-> g[x]] /\ f = [x \in S |-> f[x]]
    BY <1>3
  <2> QED
    BY <2>4, <2>5
<1>4. released = CHOOSE g : Is(g)
  BY DEF released, Releases, Dropped
<1>5. released = f
  <2> HIDE DEF Is
  <2> QED
    BY <1>2, <1>3, <1>4
<1> QED
  BY <1>1, <1>5 DEF Released, Releases

------------------------------------------------------------------------------
(* The search tree.  lo, hi and up say what the links do not: which numbers *)
(* belong below an entry, and where it hangs. *)

\* Nothing is left of the entries outside A, and those in A have one reference.
Allocated(h, A) ==
  /\ h \in Heaps /\ A \subseteq Entries /\ HeadEntry \in A
  /\ \A e \in Entries \ A : h.left[e] = Nil /\ h.right[e] = Nil /\ h.value[e] = Nil
  /\ \A e \in Entries : h.retainCount[e] = IF e \in A THEN 1 ELSE 0

Ranges(A, lo, hi) ==
  /\ lo \in [Entries -> Int] /\ hi \in [Entries -> Int]
  /\ \A e \in Entries : lo[HeadEntry] < e /\ e < hi[HeadEntry]
  /\ \A e \in A : /\ lo[e] < e /\ e < hi[e]
                  /\ lo[HeadEntry] <= lo[e] /\ hi[e] <= hi[HeadEntry]

\* What hangs on the left belongs above the entry, what hangs on the right below it.
Branches(h, A, lo, hi, up) ==
  /\ up \in [Entries -> Entries]
  /\ \A e \in A : h.left[e] # Nil =>
       /\ h.left[e] \in A \ {HeadEntry} /\ up[h.left[e]] = e
       /\ lo[h.left[e]] = e /\ hi[h.left[e]] = hi[e]
  /\ \A e \in A : h.right[e] # Nil =>
       /\ h.right[e] \in A \ {HeadEntry} /\ up[h.right[e]] = e
       /\ lo[h.right[e]] = lo[e] /\ hi[h.right[e]] = e
  /\ \A c \in A \ {HeadEntry} : up[c] \in A /\ (h.left[up[c]] = c \/ h.right[up[c]] = c)

Tree(h, A, lo, hi, up) ==
  Allocated(h, A) /\ Ranges(A, lo, hi) /\ Branches(h, A, lo, hi, up)

\* May k be below e?
In(k, e, lo, hi) == lo[e] < k /\ k < hi[e]

\* One step down keeps the number in range and makes the range smaller.
LEMMA StepDown ==
  ASSUME NEW h, NEW A, NEW lo, NEW hi, NEW up, Tree(h, A, lo, hi, up),
         NEW e \in A, NEW k \in Int, Towards(h, e, k) # Nil
  PROVE  /\ Towards(h, e, k) \in A \ {HeadEntry} /\ up[Towards(h, e, k)] = e
         /\ hi[Towards(h, e, k)] - lo[Towards(h, e, k)] < hi[e] - lo[e]
         /\ In(k, e, lo, hi) /\ k # e => In(k, Towards(h, e, k), lo, hi)
<1>0. e \in Int /\ lo[e] \in Int /\ hi[e] \in Int /\ lo[e] < e /\ e < hi[e]
  BY EntryFacts DEF Tree, Ranges, Allocated
<1>1. CASE e < k
  <2>1. Towards(h, e, k) = h.left[e]
    BY <1>1 DEF Towards
  <2>2. /\ h.left[e] \in A \ {HeadEntry} /\ up[h.left[e]] = e
        /\ lo[h.left[e]] = e /\ hi[h.left[e]] = hi[e]
    BY <2>1 DEF Tree, Branches
  <2> QED
    BY <1>0, <1>1, <2>1, <2>2 DEF In
<1>2. CASE ~(e < k)
  <2>1. Towards(h, e, k) = h.right[e]
    BY <1>2 DEF Towards
  <2>2. /\ h.right[e] \in A \ {HeadEntry} /\ up[h.right[e]] = e
        /\ lo[h.right[e]] = lo[e] /\ hi[h.right[e]] = e
    BY <2>1 DEF Tree, Branches
  <2> QED
    BY <1>0, <1>2, <2>1, <2>2 DEF In
<1> QED
  BY <1>1, <1>2

\* One step up makes the range greater, and leads back for all that was in range.
LEMMA StepUp ==
  ASSUME NEW h, NEW A, NEW lo, NEW hi, NEW up, Tree(h, A, lo, hi, up),
         NEW c \in A \ {HeadEntry}
  PROVE  /\ up[c] \in A /\ up[c] # c /\ hi[c] - lo[c] < hi[up[c]] - lo[up[c]]
         /\ \A k \in Int : In(k, c, lo, hi) =>
              k # up[c] /\ Towards(h, up[c], k) = c /\ In(k, up[c], lo, hi)
<1> DEFINE p == up[c]
<1>1. p \in A /\ c \in A /\ (h.left[p] = c \/ h.right[p] = c) /\ c # Nil
  BY EntryFacts DEF Tree, Branches, Allocated
<1>2. /\ p \in Int /\ c \in Int /\ lo[p] \in Int /\ hi[p] \in Int /\ lo[p] < p /\ p < hi[p]
      /\ lo[c] \in Int /\ hi[c] \in Int /\ lo[c] < c /\ c < hi[c]
  <2>1. p \in Entries /\ c \in Entries
    BY <1>1 DEF Tree, Allocated
  <2> HIDE DEF p
  <2> QED
    BY <1>1, <2>1, EntryFacts DEF Tree, Ranges
<1>3. CASE h.left[p] = c
  <2>1. lo[c] = p /\ hi[c] = hi[p]
    BY <1>1, <1>3 DEF Tree, Branches
  <2>2. \A k \in Int : p < k => Towards(h, p, k) = c
    BY <1>3 DEF Towards
  <2> QED
    BY <1>1, <1>2, <2>1, <2>2 DEF In
<1>4. CASE h.right[p] = c
  <2>1. lo[c] = lo[p] /\ hi[c] = p
    BY <1>1, <1>4 DEF Tree, Branches
  <2>2. \A k \in Int : ~(p < k) => Towards(h, p, k) = c
    BY <1>4 DEF Towards
  <2> QED
    BY <1>1, <1>2, <2>1, <2>2 DEF In
<1> QED
  BY <1>1, <1>3, <1>4

\* What a function of Dictionary that walks towards k says.
WalksTo(f, h, stop, k) == f = [e \in Entries |-> IF stop[e] THEN e ELSE f[Towards(h, e, k)]]

\* The functions of Dictionary that walk towards a key exist, and end.
LEMMA Descent ==
  ASSUME NEW h, NEW A, NEW lo, NEW hi, NEW up, Tree(h, A, lo, hi, up), NEW k \in Int,
         NEW stop \in [Entries -> BOOLEAN],
         \A e \in Entries : Towards(h, e, k) = Nil => stop[e]
  PROVE  /\ \E f : WalksTo(f, h, stop, k)
         /\ \A f : WalksTo(f, h, stop, k) =>
              \A P \in SUBSET A : \A first \in P :
                (\A e \in P : ~stop[e] => Towards(h, e, k) \in P)
                => f[first] \in P /\ stop[f[first]]
<1> DEFINE next == [e \in Entries |-> IF stop[e] THEN e ELSE Towards(h, e, k)]
<1> DEFINE size == [e \in Entries |-> IF e \in A THEN hi[e] - lo[e] ELSE 0]
<1> DEFINE b == hi[HeadEntry] - lo[HeadEntry] + 1
<1>0. \A e \in Entries \ A : Towards(h, e, k) = Nil
  BY DEF Tree, Allocated, Towards
<1>1. ASSUME NEW e \in Entries, ~stop[e]
      PROVE  e \in A /\ Towards(h, e, k) \in A /\ hi[Towards(h, e, k)] - lo[Towards(h, e, k)] < hi[e] - lo[e]
  <2>1. Towards(h, e, k) # Nil /\ e \in A
    BY <1>0, <1>1
  <2> QED
    BY <2>1, StepDown
<1>2. A \subseteq Entries
  BY DEF Tree, Allocated
<1>3. \A e \in A : /\ lo[e] \in Int /\ hi[e] \in Int /\ e \in Int /\ lo[e] < e /\ e < hi[e]
                   /\ lo[HeadEntry] \in Int /\ hi[HeadEntry] \in Int
                   /\ lo[HeadEntry] <= lo[e] /\ hi[e] <= hi[HeadEntry]
  BY EntryFacts DEF Tree, Allocated, Ranges
<1>4. b \in Nat /\ b > 0 /\ \A e \in A : hi[e] - lo[e] \in Nat /\ hi[e] - lo[e] < b
  <2>1. HeadEntry \in A
    BY DEF Tree, Allocated
  <2> QED
    BY <1>3, <2>1
<1> HIDE DEF b
<1>5. size \in [Entries -> Nat] /\ \A e \in Entries : size[e] < b
  BY <1>4
<1>6. next \in [Entries -> Entries]
  BY <1>1, <1>2
<1>7. \A e \in Entries : ~stop[e] => size[next[e]] < size[e]
  BY <1>1, <1>2
<1>8. \A f : WalksTo(f, h, stop, k)
             <=> Walks(f, Entries, stop, next)
  BY DEF Walks, WalksTo
<1>9. \E f : Walks(f, Entries, stop, next)
  <2> HIDE DEF size, next
  <2> QED
    BY <1>4, <1>5, <1>6, <1>7, WalkExists
<1>10. ASSUME NEW f, Walks(f, Entries, stop, next), NEW P \in SUBSET A, NEW first \in P,
              \A e \in P : ~stop[e] => Towards(h, e, k) \in P
       PROVE  f[first] \in P /\ stop[f[first]]
  <2>1. \A e \in P : ~stop[e] => next[e] \in P
    BY <1>2, <1>10
  <2>2. P \subseteq Entries
    BY <1>2
  <2> HIDE DEF size, next
  <2> QED
    BY <1>5, <1>6, <1>7, <1>10, <2>1, <2>2, WalkEnds
<1> HIDE DEF next
<1> QED
  BY <1>8, <1>9, <1>10

\* Where Find stops.
StopsAt(stop, h, x) == stop = [e \in Entries |-> e = x \/ Towards(h, e, x) = Nil]

\* The walk towards x comes by every entry that has x in its range, x itself with them.
LEMMA WalkComesBy ==
  ASSUME NEW h, NEW A, NEW lo, NEW hi, NEW up, Tree(h, A, lo, hi, up), NEW x \in Int,
         NEW stop, StopsAt(stop, h, x), NEW f, WalksTo(f, h, stop, x),
         NEW c \in A, In(x, c, lo, hi)
  PROVE  f[c] = f[HeadEntry]
<1> DEFINE size == [e \in A |-> (hi[HeadEntry] - lo[HeadEntry]) - (hi[e] - lo[e])]
<1> DEFINE G == {e \in A : In(x, e, lo, hi) => f[e] = f[HeadEntry]}
<1>1. size \in [A -> Nat]
  BY EntryFacts DEF Tree, Allocated, Ranges
<1>2. ASSUME NEW e \in A, \A d \in A : size[d] < size[e] => d \in G PROVE e \in G
  <2>1. CASE e = HeadEntry \/ ~In(x, e, lo, hi)
    BY <2>1
  <2>2. CASE e # HeadEntry /\ In(x, e, lo, hi)
    <3> DEFINE p == up[e]
    <3>1. /\ p \in A /\ hi[e] - lo[e] < hi[p] - lo[p]
          /\ x # p /\ Towards(h, p, x) = e /\ In(x, p, lo, hi)
      BY <2>2, StepUp
    <3>2. size[p] < size[e]
      BY <3>1 DEF Tree, Allocated, Ranges
    <3>3. f[p] = f[HeadEntry]
      BY <1>2, <3>1, <3>2
    <3> HIDE DEF p
    <3>4. ~stop[p] /\ p \in Entries
      <4>1. A \subseteq Entries /\ Nil \notin A
        BY EntryFacts DEF Tree, Allocated
      <4>2. Towards(h, p, x) # Nil /\ p # x
        BY <3>1, <4>1
      <4> QED
        BY <3>1, <4>1, <4>2 DEF StopsAt
    <3>5. f[p] = f[e]
      BY <3>1, <3>4 DEF WalksTo
    <3> QED
      BY <3>3, <3>5
  <2> QED
    BY <2>1, <2>2
<1>3. A \subseteq G
  <2> HIDE DEF size, G
  <2> QED
    BY <1>1, <1>2, SmallerFirst
<1> QED
  BY <1>3

\* An entry below which x belongs has something hanging there if x is in the tree.
LEMMA Covered ==
  ASSUME NEW h, NEW A, NEW lo, NEW hi, NEW up, Tree(h, A, lo, hi, up),
         NEW e \in A, NEW x \in A, In(x, e, lo, hi), x # e
  PROVE  Towards(h, e, x) # Nil
<1> DEFINE stop == [d \in Entries |-> d = x \/ Towards(h, d, x) = Nil]
<1>1. A \subseteq Entries /\ x \in Int /\ In(x, x, lo, hi)
  BY EntryFacts DEF Tree, Allocated, Ranges, In
<1>2. /\ stop \in [Entries -> BOOLEAN]
      /\ \A d \in Entries : stop[d] <=> d = x \/ Towards(h, d, x) = Nil
      /\ StopsAt(stop, h, x)
  BY DEF StopsAt
<1> HIDE DEF stop
<1>3. PICK f : WalksTo(f, h, stop, x)
  BY <1>1, <1>2, Descent
<1>4. f[x] = f[HeadEntry] /\ f[e] = f[HeadEntry]
  BY <1>1, <1>2, <1>3, WalkComesBy
<1>5. \A d \in A : stop[d] => f[d] = d
  BY <1>1, <1>3 DEF WalksTo
<1> QED
  BY <1>1, <1>2, <1>4, <1>5

\* Find finds the entry of a key that is in the tree, and the place of one that is not.
LEMMA FindIs ==
  ASSUME NEW h, NEW A, NEW lo, NEW hi, NEW up, Tree(h, A, lo, hi, up), NEW k \in Keys
  PROVE  /\ Find(h, k) = k <=> k \in A
         /\ k \notin A => /\ Find(h, k) \in A /\ In(k, Find(h, k), lo, hi)
                          /\ Towards(h, Find(h, k), k) = Nil
<1> DEFINE stop == [d \in Entries |-> d = k \/ Towards(h, d, k) = Nil]
<1> DEFINE Is(f) == f = [e \in Entries |->
                           IF e = k \/ Towards(h, e, k) = Nil THEN e ELSE f[Towards(h, e, k)]]
<1>1. A \subseteq Entries /\ k \in Int /\ k \in Entries /\ HeadEntry \in A
  BY EntryFacts DEF Tree, Allocated
<1>2. /\ stop \in [Entries -> BOOLEAN]
      /\ \A d \in Entries : stop[d] <=> d = k \/ Towards(h, d, k) = Nil
      /\ StopsAt(stop, h, k)
  BY DEF StopsAt
<1>3. \A f : Is(f) <=> WalksTo(f, h, stop, k)
  BY DEF WalksTo
<1> HIDE DEF stop
<1>4. \E f : WalksTo(f, h, stop, k)
  BY <1>1, <1>2, Descent
<1> DEFINE f == CHOOSE g : Is(g)
<1>5. Is(f)
  <2> HIDE DEF Is
  <2> QED
    BY <1>3, <1>4
<1>6. Find(h, k) = f[HeadEntry]
  BY DEF Find
<1> HIDE DEF f
<1>7. WalksTo(f, h, stop, k)
  BY <1>3, <1>5
<1> DEFINE P == {e \in A : In(k, e, lo, hi)}
<1>8. HeadEntry \in P
  BY <1>1 DEF Tree, Ranges, In
<1>9. \A e \in P : ~stop[e] => Towards(h, e, k) \in P
  BY <1>1, <1>2, StepDown
<1>10. f[HeadEntry] \in P /\ stop[f[HeadEntry]]
  <2>1. P \in SUBSET A
    OBVIOUS
  <2> HIDE DEF P
  <2> QED
    BY <1>1, <1>2, <1>7, <1>8, <1>9, <2>1, Descent
<1>11. ASSUME k \in A PROVE f[HeadEntry] = k
  <2>1. In(k, k, lo, hi)
    BY <1>11 DEF Tree, Ranges, In
  <2>2. f[k] = f[HeadEntry]
    BY <1>1, <1>2, <1>7, <1>11, <2>1, WalkComesBy
  <2> QED
    BY <1>1, <1>2, <1>7, <2>2 DEF WalksTo
<1> QED
  BY <1>1, <1>2, <1>6, <1>10, <1>11

\* Parent finds where an entry hangs.
LEMMA ParentIs ==
  ASSUME NEW h, NEW A, NEW lo, NEW hi, NEW up, Tree(h, A, lo, hi, up), NEW k \in A \ {HeadEntry}
  PROVE  Parent(h, k) = up[k]
<1> DEFINE stop == [d \in Entries |-> Towards(h, d, k) = k \/ Towards(h, d, k) = Nil]
<1> DEFINE Is(f) == f = [e \in Entries |->
                           IF Towards(h, e, k) \in {k, Nil} THEN e ELSE f[Towards(h, e, k)]]
<1>1. A \subseteq Entries /\ k \in Int /\ k \in Entries /\ HeadEntry \in A
  BY EntryFacts DEF Tree, Allocated
<1>2. /\ stop \in [Entries -> BOOLEAN]
      /\ \A d \in Entries : stop[d] <=> Towards(h, d, k) \in {k, Nil}
  OBVIOUS
<1>3. \A f : Is(f) <=> WalksTo(f, h, stop, k)
  BY DEF WalksTo
<1> HIDE DEF stop
<1>4. \E f : WalksTo(f, h, stop, k)
  BY <1>1, <1>2, Descent
<1> DEFINE f == CHOOSE g : Is(g)
<1>5. Is(f)
  <2> HIDE DEF Is
  <2> QED
    BY <1>3, <1>4
<1>6. Parent(h, k) = f[HeadEntry]
  BY DEF Parent
<1> HIDE DEF f
<1>7. WalksTo(f, h, stop, k)
  BY <1>3, <1>5
<1> DEFINE P == {e \in A : In(k, e, lo, hi) /\ e # k}
<1>8. HeadEntry \in P
  BY <1>1 DEF Tree, Ranges, In
<1>9. \A e \in P : ~stop[e] => Towards(h, e, k) \in P
  BY <1>1, <1>2, StepDown
<1>10. f[HeadEntry] \in P /\ stop[f[HeadEntry]]
  <2>1. P \in SUBSET A
    OBVIOUS
  <2> HIDE DEF P
  <2> QED
    BY <1>1, <1>2, <1>7, <1>8, <1>9, <2>1, Descent
<1>11. Towards(h, f[HeadEntry], k) # Nil
  BY <1>10, Covered
<1>12. Towards(h, f[HeadEntry], k) = k /\ f[HeadEntry] \in A
  BY <1>1, <1>2, <1>10, <1>11
<1>13. up[Towards(h, f[HeadEntry], k)] = f[HeadEntry]
  BY <1>1, <1>11, <1>12, StepDown
<1> QED
  BY <1>6, <1>12, <1>13

\* Every walk to the left that begins in P stays in it, and comes to an end.
Sinks(h, size, b, P) ==
  /\ h.left \in [Entries -> Links] /\ size \in [Entries -> Nat] /\ b \in Nat /\ P \subseteq Entries
  /\ \A e \in Entries : size[e] < b
  /\ \A e \in Entries : h.left[e] # Nil => size[h.left[e]] < size[e]
  /\ \A e \in P : h.left[e] # Nil => h.left[e] \in P

\* Leftmost ends at an entry with nothing on its left, in any set that it does not leave.
LEMMA LeftmostIs ==
  ASSUME NEW h, NEW size, NEW b, NEW P, Sinks(h, size, b, P), NEW first \in P
  PROVE  Leftmost(h, first) \in P /\ h.left[Leftmost(h, first)] = Nil
<1>0. /\ h.left \in [Entries -> Links] /\ size \in [Entries -> Nat] /\ b \in Nat /\ P \subseteq Entries
      /\ \A e \in Entries : size[e] < b
      /\ \A e \in Entries : h.left[e] # Nil => size[h.left[e]] < size[e]
      /\ \A e \in P : h.left[e] # Nil => h.left[e] \in P
  BY DEF Sinks
<1> DEFINE stop == [d \in Entries |-> h.left[d] = Nil]
<1> DEFINE next == [d \in Entries |-> IF h.left[d] = Nil THEN d ELSE h.left[d]]
<1> DEFINE Is(f) == f = [e \in Entries |-> IF h.left[e] = Nil THEN e ELSE f[h.left[e]]]
<1>1. stop \in [Entries -> BOOLEAN] /\ next \in [Entries -> Entries]
  BY <1>0, EntryFacts
<1>2. \A d \in Entries : /\ stop[d] <=> h.left[d] = Nil
                         /\ h.left[d] # Nil => next[d] = h.left[d]
  OBVIOUS
<1>3. \A f : Is(f) <=> Walks(f, Entries, stop, next)
  BY DEF Walks
<1> HIDE DEF stop, next
<1>4. \E f : Walks(f, Entries, stop, next)
  BY <1>0, <1>1, <1>2, WalkExists
<1> DEFINE f == CHOOSE g : Is(g)
<1>5. Is(f)
  <2> HIDE DEF Is
  <2> QED
    BY <1>3, <1>4
<1>6. Leftmost(h, first) = f[first]
  BY DEF Leftmost
<1> HIDE DEF f, Is
<1>7. f[first] \in P /\ stop[f[first]]
  BY <1>0, <1>1, <1>2, <1>3, <1>5, WalkEnds
<1> QED
  BY <1>0, <1>2, <1>6, <1>7

------------------------------------------------------------------------------
(* What the operations make of a heap, part by part. *)

\* A retain changes one count.
LEMMA RetainedParts ==
  ASSUME NEW h \in Heaps, NEW e \in Links
  PROVE  /\ Retained(h, e) \in Heaps
         /\ Retained(h, e).left = h.left /\ Retained(h, e).right = h.right
         /\ Retained(h, e).value = h.value
         /\ \A x \in Entries : Retained(h, e).retainCount[x] =
                                 IF x = e THEN h.retainCount[x] + 1 ELSE h.retainCount[x]
<1>1. CASE e = Nil
  BY <1>1, EntryFacts DEF Retained
<1>2. CASE e # Nil
  <2>1. e \in Entries
    BY <1>2, EntryFacts
  <2>2. /\ Retained(h, e) \in Heaps
        /\ Retained(h, e).left = h.left /\ Retained(h, e).right = h.right
        /\ Retained(h, e).value = h.value
        /\ Retained(h, e).retainCount = [h.retainCount EXCEPT ![e] = @ + 1]
    BY <1>2, <2>1 DEF Retained, Heaps
  <2>3. h.retainCount \in [Entries -> Int]
    BY HeapParts
  <2> QED
    BY <2>1, <2>2, <2>3
<1> QED
  BY <1>1, <1>2

\* A release of an entry that has other references, or of none.
LEMMA ReleasedKept ==
  ASSUME NEW h \in Heaps, NEW e \in Links, e # Nil => h.retainCount[e] # 1
  PROVE  /\ Released(h, e) \in Heaps
         /\ Released(h, e).left = h.left /\ Released(h, e).right = h.right
         /\ Released(h, e).value = h.value
         /\ \A x \in Entries : Released(h, e).retainCount[x] =
                                 IF x = e THEN h.retainCount[x] - 1 ELSE h.retainCount[x]
<1>1. CASE e = Nil
  BY <1>1, EntryFacts, ReleasedIs
<1>2. CASE e # Nil
  <2>1. e \in Entries
    BY <1>2, EntryFacts
  <2>2. Released(h, e) = Dropped(h, e)
    BY <1>2, ReleasedIs
  <2>3. h.retainCount \in [Entries -> Int]
    BY HeapParts
  <2>4. /\ Dropped(h, e) \in Heaps
        /\ Dropped(h, e).left = h.left /\ Dropped(h, e).right = h.right
        /\ Dropped(h, e).value = h.value
        /\ Dropped(h, e).retainCount = [h.retainCount EXCEPT ![e] = @ - 1]
    BY <2>1, DroppedParts
  <2> QED
    BY <2>1, <2>2, <2>3, <2>4
<1> QED
  BY <1>1, <1>2

\* s is g with l on the left of e, and one reference more to it.
LeftSet(s, g, e, l) ==
  /\ s \in Heaps /\ s.left = [g.left EXCEPT ![e] = l] /\ s.right = g.right /\ s.value = g.value
  /\ \A x \in Entries : s.retainCount[x] =
                          IF x = l THEN g.retainCount[x] + 1 ELSE g.retainCount[x]

\* SetLeftEntry makes that of what the release of the old one leaves.
LEMMA SetLeftParts ==
  ASSUME NEW h \in Heaps, NEW e \in Entries, NEW l \in Links
  PROVE  LeftSet(SetLeftEntry(h, e, l), Released(h, h.left[e]), e, l)
<1> DEFINE g == Released(h, h.left[e])
<1> DEFINE s == [g EXCEPT !.left[e] = l]
<1>0. g \in Heaps
  BY HeapParts, ReleasedIs
<1>1. SetLeftEntry(h, e, l) = Retained(s, l)
  BY DEF SetLeftEntry
<1> HIDE DEF g
<1>2. /\ s \in Heaps /\ s.left = [g.left EXCEPT ![e] = l]
      /\ s.right = g.right /\ s.value = g.value /\ s.retainCount = g.retainCount
  BY <1>0 DEF Heaps
<1> HIDE DEF s
<1>3. LeftSet(SetLeftEntry(h, e, l), g, e, l)
  BY <1>1, <1>2, RetainedParts DEF LeftSet
<1> QED
  BY <1>3 DEF g

\* s is g with r on the right of e, and one reference more to it.
RightSet(s, g, e, r) ==
  /\ s \in Heaps /\ s.right = [g.right EXCEPT ![e] = r] /\ s.left = g.left /\ s.value = g.value
  /\ \A x \in Entries : s.retainCount[x] =
                          IF x = r THEN g.retainCount[x] + 1 ELSE g.retainCount[x]

\* So does SetRightEntry, on the right.
LEMMA SetRightParts ==
  ASSUME NEW h \in Heaps, NEW e \in Entries, NEW r \in Links
  PROVE  RightSet(SetRightEntry(h, e, r), Released(h, h.right[e]), e, r)
<1> DEFINE g == Released(h, h.right[e])
<1> DEFINE s == [g EXCEPT !.right[e] = r]
<1>0. g \in Heaps
  BY HeapParts, ReleasedIs
<1>1. SetRightEntry(h, e, r) = Retained(s, r)
  BY DEF SetRightEntry
<1> HIDE DEF g
<1>2. /\ s \in Heaps /\ s.right = [g.right EXCEPT ![e] = r]
      /\ s.left = g.left /\ s.value = g.value /\ s.retainCount = g.retainCount
  BY <1>0 DEF Heaps
<1> HIDE DEF s
<1>3. RightSet(SetRightEntry(h, e, r), g, e, r)
  BY <1>1, <1>2, RetainedParts DEF RightSet
<1> QED
  BY <1>3 DEF g

\* A new entry has no children and one reference.
LEMMA CreatedParts ==
  ASSUME NEW h \in Heaps, NEW k \in Entries, NEW v \in Values
  PROVE  /\ DictionaryEntryCreate(h, k, v) \in Heaps
         /\ DictionaryEntryCreate(h, k, v).left = [h.left EXCEPT ![k] = Nil]
         /\ DictionaryEntryCreate(h, k, v).right = [h.right EXCEPT ![k] = Nil]
         /\ DictionaryEntryCreate(h, k, v).value = [h.value EXCEPT ![k] = v]
         /\ DictionaryEntryCreate(h, k, v).retainCount = [h.retainCount EXCEPT ![k] = 1]
<1> DEFINE rc == [h.retainCount EXCEPT ![k] = 1]
<1> DEFINE w == [h.value EXCEPT ![k] = v]
<1> DEFINE l == [h.left EXCEPT ![k] = Nil]
<1> DEFINE r == [h.right EXCEPT ![k] = Nil]
<1>0. /\ h.left \in [Entries -> Links] /\ h.right \in [Entries -> Links]
      /\ h.value \in [Entries -> Values \cup {Nil}] /\ h.retainCount \in [Entries -> Int]
  BY HeapParts
<1>1. DictionaryEntryCreate(h, k, v)
        = [h EXCEPT !.value = w, !.left = l, !.right = r, !.retainCount = rc]
  BY DEF Heaps, DictionaryEntryCreate
<1>2. /\ l \in [Entries -> Links] /\ r \in [Entries -> Links]
      /\ w \in [Entries -> Values \cup {Nil}] /\ rc \in [Entries -> Int]
  BY <1>0 DEF Links
<1> HIDE DEF l, r, w, rc
<1>3. DictionaryEntryCreate(h, k, v) \in Heaps
  BY <1>1, <1>2 DEF Heaps
<1>4. /\ DictionaryEntryCreate(h, k, v).left = l /\ DictionaryEntryCreate(h, k, v).right = r
      /\ DictionaryEntryCreate(h, k, v).value = w
      /\ DictionaryEntryCreate(h, k, v).retainCount = rc
  BY <1>1 DEF Heaps
<1> QED
  BY <1>3, <1>4 DEF l, r, w, rc

\* A new entry has the one reference of the link to it.
LEMMA InsertedParts ==
  ASSUME NEW h, NEW A, NEW lo, NEW hi, NEW up, Tree(h, A, lo, hi, up),
         NEW k \in Keys, k \notin A, NEW v \in Values, NEW e, e = Find(h, k)
  PROVE  /\ Inserted(h, k, v) \in Heaps
         /\ Inserted(h, k, v).left = IF e < k THEN [h.left EXCEPT ![e] = k] ELSE h.left
         /\ Inserted(h, k, v).right = IF e < k THEN h.right ELSE [h.right EXCEPT ![e] = k]
         /\ Inserted(h, k, v).value = [h.value EXCEPT ![k] = v]
         /\ \A x \in Entries : Inserted(h, k, v).retainCount[x] =
                                 IF x = k THEN 1 ELSE h.retainCount[x]
<1>1. /\ h \in Heaps /\ k \in Entries /\ k \in Links /\ k # Nil /\ e \in Entries /\ e # k
      /\ h.left[k] = Nil /\ h.right[k] = Nil /\ Towards(h, e, k) = Nil
  BY EntryFacts, FindIs DEF Tree, Allocated
<1>2. /\ h.left \in [Entries -> Links] /\ h.right \in [Entries -> Links]
      /\ h.retainCount \in [Entries -> Int]
  BY <1>1, HeapParts
<1> DEFINE n == DictionaryEntryCreate(h, k, v)
<1>3. /\ n \in Heaps /\ n.left = h.left /\ n.right = h.right
      /\ n.value = [h.value EXCEPT ![k] = v] /\ n.retainCount = [h.retainCount EXCEPT ![k] = 1]
  BY <1>1, <1>2, CreatedParts
<1> DEFINE s == IF e < k THEN SetLeftEntry(n, e, k) ELSE SetRightEntry(n, e, k)
<1>4. Inserted(h, k, v) = Released(s, k)
  BY DEF Inserted
<1> HIDE DEF n
<1>5. Released(n, Nil) = n
  BY <1>3, ReleasedIs DEF Links
<1>6. /\ s \in Heaps
      /\ s.left = IF e < k THEN [h.left EXCEPT ![e] = k] ELSE h.left
      /\ s.right = IF e < k THEN h.right ELSE [h.right EXCEPT ![e] = k]
      /\ s.value = [h.value EXCEPT ![k] = v]
      /\ \A x \in Entries : s.retainCount[x] =
                              IF x = k THEN n.retainCount[x] + 1 ELSE n.retainCount[x]
  <2>1. CASE e < k
    <3>1. n.left[e] = Nil
      BY <1>1, <1>3, <2>1 DEF Towards
    <3>2. s = SetLeftEntry(n, e, k)
      BY <2>1
    <3>3. Released(n, n.left[e]) = n
      BY <1>5, <3>1
    <3>4. LeftSet(SetLeftEntry(n, e, k), Released(n, n.left[e]), e, k)
      BY <1>1, <1>3, SetLeftParts
    <3>5. LeftSet(s, n, e, k)
      BY <3>2, <3>3, <3>4
    <3> HIDE DEF s
    <3> QED
      BY <1>3, <2>1, <3>5 DEF LeftSet
  <2>2. CASE ~(e < k)
    <3>1. n.right[e] = Nil
      BY <1>1, <1>3, <2>2 DEF Towards
    <3>2. s = SetRightEntry(n, e, k)
      BY <2>2
    <3>3. Released(n, n.right[e]) = n
      BY <1>5, <3>1
    <3>4. RightSet(SetRightEntry(n, e, k), Released(n, n.right[e]), e, k)
      BY <1>1, <1>3, SetRightParts
    <3>5. RightSet(s, n, e, k)
      BY <3>2, <3>3, <3>4
    <3> HIDE DEF s
    <3> QED
      BY <1>3, <2>2, <3>5 DEF RightSet
  <2> QED
    BY <2>1, <2>2
<1> HIDE DEF s
<1>7. \A x \in Entries : s.retainCount[x] = IF x = k THEN 2 ELSE h.retainCount[x]
  BY <1>1, <1>2, <1>3, <1>6
<1> QED
  BY <1>1, <1>4, <1>6, <1>7, ReleasedKept

\* The release of an entry, in h1, whose children another reference was taken to: it is given
\* back, and no other entry.
LEMMA ReleasedBetween ==
  ASSUME NEW h \in Heaps, NEW g \in Heaps, NEW k \in Entries,
         g.left = h.left, g.right = h.right, g.value = h.value,
         h.left[k] # k, h.right[k] # k, h.left[k] # Nil => h.left[k] # h.right[k],
         g.retainCount[k] = 1,
         h.left[k] # Nil => h.retainCount[h.left[k]] = 1,
         h.right[k] # Nil => h.retainCount[h.right[k]] = 1,
         \A x \in Entries : g.retainCount[x] =
           IF x \in {h.left[k], h.right[k]} THEN 2 ELSE h.retainCount[x]
  PROVE  Released(g, k) = Freed(h, k)
<1> DEFINE l == h.left[k]
           r == h.right[k]
           a == Freed(g, k)
           b == Released(a, l)
           c == Released(b, r)
<1>0. /\ h.left \in [Entries -> Links] /\ h.right \in [Entries -> Links]
      /\ h.value \in [Entries -> Values \cup {Nil}]
      /\ h.retainCount \in [Entries -> Int] /\ g.retainCount \in [Entries -> Int]
  BY HeapParts
<1>1. l \in Links /\ r \in Links /\ l # k /\ r # k /\ (l # Nil => l # r)
  BY <1>0
<1>2. \A e \in Links : e # Nil => e \in Entries
  BY EntryFacts
<1>3. Released(g, k) = c
  <2>1. k \in Links /\ k # Nil
    BY EntryFacts
  <2> QED
    BY <2>1, ReleasedIs
<1>4. /\ a \in Heaps /\ a.left = [h.left EXCEPT ![k] = Nil] /\ a.right = [h.right EXCEPT ![k] = Nil]
      /\ a.value = [h.value EXCEPT ![k] = Nil]
      /\ \A x \in Entries : a.retainCount[x] = IF x = k THEN 0 ELSE g.retainCount[x]
  <2>1. /\ a \in Heaps /\ a.left = [g.left EXCEPT ![k] = Nil] /\ a.right = [g.right EXCEPT ![k] = Nil]
        /\ a.value = [g.value EXCEPT ![k] = Nil] /\ a.retainCount = [g.retainCount EXCEPT ![k] = 0]
    BY FreedParts, Zenon
  <2> HIDE DEF a
  <2> QED
    BY <1>0, <2>1
<1> HIDE DEF a, l, r
<1>5. /\ b \in Heaps /\ b.left = a.left /\ b.right = a.right /\ b.value = a.value
      /\ \A x \in Entries : b.retainCount[x] = IF x = l THEN a.retainCount[x] - 1 ELSE a.retainCount[x]
  <2>1. l # Nil => a.retainCount[l] = 2
    BY <1>1, <1>2, <1>4 DEF l
  <2> QED
    BY <1>1, <1>4, <2>1, ReleasedKept
<1> HIDE DEF b
<1>6. /\ c \in Heaps /\ c.left = a.left /\ c.right = a.right /\ c.value = a.value
      /\ \A x \in Entries : c.retainCount[x] = IF x = r THEN b.retainCount[x] - 1 ELSE b.retainCount[x]
  <2>1. r # Nil => b.retainCount[r] = 2
    BY <1>1, <1>2, <1>4, <1>5 DEF r
  <2> QED
    BY <1>1, <1>5, <2>1, ReleasedKept
<1> HIDE DEF c
<1>7. /\ Freed(h, k) \in Heaps /\ Freed(h, k).left = a.left /\ Freed(h, k).right = a.right
      /\ Freed(h, k).value = a.value
      /\ Freed(h, k).retainCount = [h.retainCount EXCEPT ![k] = 0]
  BY <1>4, FreedParts
<1>8. \A x \in Entries : c.retainCount[x] = Freed(h, k).retainCount[x]
  <2> TAKE x \in Entries
  <2>1. a.retainCount[x] = IF x = k THEN 0 ELSE g.retainCount[x]
    BY <1>4
  <2>2. g.retainCount[x] = IF x = l \/ x = r THEN 2 ELSE h.retainCount[x]
    BY DEF l, r
  <2>3. (x = l \/ x = r) => h.retainCount[x] = 1
    BY EntryFacts DEF l, r
  <2>4. Freed(h, k).retainCount[x] = IF x = k THEN 0 ELSE h.retainCount[x]
    BY <1>0, <1>7
  <2>5. b.retainCount[x] = IF x = l THEN a.retainCount[x] - 1 ELSE a.retainCount[x]
    BY <1>5
  <2>6. c.retainCount[x] = IF x = r THEN b.retainCount[x] - 1 ELSE b.retainCount[x]
    BY <1>6
  <2>7. l = r => l = Nil
    BY <1>1
  <2>8. x # Nil
    BY EntryFacts
  <2> QED
    BY <1>1, <2>1, <2>2, <2>3, <2>4, <2>5, <2>6, <2>7, <2>8
<1>9. c.retainCount = Freed(h, k).retainCount
  <2>1. c.retainCount \in [Entries -> Int] /\ Freed(h, k).retainCount \in [Entries -> Int]
    BY <1>6, <1>7, HeapParts
  <2> QED
    BY <1>8, <2>1
<1> QED
  BY <1>3, <1>6, <1>7, <1>9, SameHeap

\* k is gone from h, and t hangs below p instead of it.
Moved(h, s, k, p, t) ==
  /\ s \in Heaps
  /\ \A x \in Entries :
       /\ s.left[x] = IF x = k THEN Nil ELSE IF x = p /\ h.left[p] = k THEN t ELSE h.left[x]
       /\ s.right[x] = IF x = k THEN Nil ELSE IF x = p /\ h.left[p] # k THEN t ELSE h.right[x]
       /\ s.value[x] = IF x = k THEN Nil ELSE h.value[x]

\* Both children of k have one reference more than the links to them.
Holding(h, g, k) ==
  /\ g \in Heaps /\ g.left = h.left /\ g.right = h.right /\ g.value = h.value
  /\ \A x \in Entries : g.retainCount[x] =
       IF x \in {h.left[k], h.right[k]} THEN 2 ELSE h.retainCount[x]

\* What the tree says of an entry, its children and the entry it hangs from.
LEMMA Around ==
  ASSUME NEW h, NEW A, NEW lo, NEW hi, NEW up, Tree(h, A, lo, hi, up),
         NEW k \in A \ {HeadEntry}
  PROVE  /\ h \in Heaps /\ k \in Entries /\ k # Nil /\ h.retainCount[k] = 1
         /\ up[k] \in A /\ up[k] \in Entries /\ up[k] # k
         /\ h.left[k] \in Links /\ h.right[k] \in Links
         /\ h.left[k] # k /\ h.right[k] # k
         /\ h.left[k] # Nil => h.left[k] \in A /\ h.left[k] # h.right[k]
                               /\ h.retainCount[h.left[k]] = 1
         /\ h.right[k] # Nil => h.right[k] \in A /\ h.retainCount[h.right[k]] = 1
         /\ h.left[up[k]] = k \/ h.right[up[k]] = k
<1>1. /\ h \in Heaps /\ A \subseteq Entries /\ Nil \notin A
      /\ \A e \in A : h.retainCount[e] = 1
  BY EntryFacts DEF Tree, Allocated
<1>2. /\ k \in A /\ k \in Entries /\ k # Nil /\ up[k] \in A
      /\ (h.left[up[k]] = k \/ h.right[up[k]] = k)
  BY <1>1 DEF Tree, Branches
<1>3. h.left[k] \in Links /\ h.right[k] \in Links
  BY <1>1, <1>2, HeapParts
<1>4. up[k] # k
  BY StepUp
<1>5. \A e \in A : e \in Int /\ lo[e] \in Int /\ hi[e] \in Int /\ lo[e] < e /\ e < hi[e]
  BY <1>1, EntryFacts DEF Tree, Ranges
<1>6. h.left[k] # Nil => h.left[k] \in A /\ lo[h.left[k]] = k
  BY <1>2 DEF Tree, Branches
<1>7. h.right[k] # Nil => h.right[k] \in A /\ hi[h.right[k]] = k
  BY <1>2 DEF Tree, Branches
<1>8. h.left[k] # Nil => k < h.left[k] /\ h.left[k] \in Int
  BY <1>5, <1>6
<1>9. h.right[k] # Nil => h.right[k] < k /\ h.right[k] \in Int
  BY <1>5, <1>7
<1>10. k \in Int
  BY <1>2, <1>5
<1>11. h.left[k] # k /\ h.right[k] # k /\ (h.left[k] # Nil => h.left[k] # h.right[k])
  BY <1>2, <1>8, <1>9, <1>10
<1> QED
  BY <1>1, <1>2, <1>3, <1>4, <1>6, <1>7, <1>11

\* Another entry takes the place of k, which is given back by that.
LEMMA ReplacedParts ==
  ASSUME NEW h, NEW A, NEW lo, NEW hi, NEW up, Tree(h, A, lo, hi, up),
         NEW k \in A \ {HeadEntry}, NEW p, p = up[k], NEW t \in Links, t # k,
         NEW g, Holding(h, g, k)
  PROVE  /\ Moved(h, Replace(g, p, k, t), k, p, t)
         /\ \A x \in Entries : Replace(g, p, k, t).retainCount[x] =
              IF x = k THEN 0 ELSE IF x = t THEN h.retainCount[x] + 1 ELSE h.retainCount[x]
<1> DEFINE F == Freed(h, k)
           s == Replace(g, p, k, t)
<1>1. /\ h \in Heaps /\ k \in Entries /\ k # Nil /\ h.retainCount[k] = 1
      /\ p \in Entries /\ p # k /\ g \in Heaps
      /\ h.left[k] # k /\ h.right[k] # k
      /\ (h.left[p] = k \/ h.right[p] = k)
  BY Around DEF Holding
<1>2. Released(g, k) = F
  <2>1. g.retainCount[k] = 1
    BY <1>1 DEF Holding
  <2>2. /\ h.left[k] # Nil => h.left[k] # h.right[k] /\ h.retainCount[h.left[k]] = 1
        /\ h.right[k] # Nil => h.retainCount[h.right[k]] = 1
    BY Around
  <2> QED
    BY <1>1, <2>1, <2>2, ReleasedBetween DEF Holding
<1>3. /\ F \in Heaps /\ F.left = [h.left EXCEPT ![k] = Nil] /\ F.right = [h.right EXCEPT ![k] = Nil]
      /\ F.value = [h.value EXCEPT ![k] = Nil] /\ F.retainCount = [h.retainCount EXCEPT ![k] = 0]
  BY <1>1, FreedParts, Zenon
<1> HIDE DEF F
<1>4. /\ h.left \in [Entries -> Links] /\ h.right \in [Entries -> Links]
      /\ h.value \in [Entries -> Values \cup {Nil}] /\ h.retainCount \in [Entries -> Int]
  BY <1>1, HeapParts
<1>5. CASE h.left[p] = k
  <2>1. s = SetLeftEntry(g, p, t) /\ g.left[p] = k
    BY <1>5 DEF Replace, Holding
  <2>2. LeftSet(SetLeftEntry(g, p, t), Released(g, g.left[p]), p, t)
    BY <1>1, SetLeftParts
  <2>3. LeftSet(s, F, p, t)
    BY <1>2, <2>1, <2>2
  <2> HIDE DEF s
  <2>4. /\ s \in Heaps /\ s.left = [F.left EXCEPT ![p] = t] /\ s.right = F.right /\ s.value = F.value
        /\ \A x \in Entries : s.retainCount[x] =
                                IF x = t THEN F.retainCount[x] + 1 ELSE F.retainCount[x]
    BY <2>3 DEF LeftSet
  <2>5. \A x \in Entries :
          /\ s.left[x] = IF x = k THEN Nil ELSE IF x = p THEN t ELSE h.left[x]
          /\ s.right[x] = IF x = k THEN Nil ELSE h.right[x]
          /\ s.value[x] = IF x = k THEN Nil ELSE h.value[x]
          /\ s.retainCount[x] = IF x = k THEN 0 ELSE IF x = t THEN h.retainCount[x] + 1
                                ELSE h.retainCount[x]
    BY <1>1, <1>3, <1>4, <2>4
  <2> QED
    BY <1>5, <2>4, <2>5 DEF Moved, s
<1>6. CASE h.left[p] # k
  <2>1. s = SetRightEntry(g, p, t) /\ g.right[p] = k
    BY <1>1, <1>6 DEF Replace, Holding
  <2>2. RightSet(SetRightEntry(g, p, t), Released(g, g.right[p]), p, t)
    BY <1>1, SetRightParts
  <2>3. RightSet(s, F, p, t)
    BY <1>2, <2>1, <2>2
  <2> HIDE DEF s
  <2>4. /\ s \in Heaps /\ s.right = [F.right EXCEPT ![p] = t] /\ s.left = F.left /\ s.value = F.value
        /\ \A x \in Entries : s.retainCount[x] =
                                IF x = t THEN F.retainCount[x] + 1 ELSE F.retainCount[x]
    BY <2>3 DEF RightSet
  <2>5. \A x \in Entries :
          /\ s.right[x] = IF x = k THEN Nil ELSE IF x = p THEN t ELSE h.right[x]
          /\ s.left[x] = IF x = k THEN Nil ELSE h.left[x]
          /\ s.value[x] = IF x = k THEN Nil ELSE h.value[x]
          /\ s.retainCount[x] = IF x = k THEN 0 ELSE IF x = t THEN h.retainCount[x] + 1
                                ELSE h.retainCount[x]
    BY <1>1, <1>3, <1>4, <2>4
  <2> QED
    BY <1>6, <2>4, <2>5 DEF Moved, s
<1> QED
  BY <1>5, <1>6

\* The references a release of another entry takes and gives back are counted right.
Counted(h, s, k) ==
  \A x \in Entries : s.retainCount[x] = IF x = k THEN 0 ELSE h.retainCount[x]

\* The removal of an entry with one child or none.
LEMMA RemovedOne ==
  ASSUME NEW h, NEW A, NEW lo, NEW hi, NEW up, Tree(h, A, lo, hi, up),
         NEW k \in A \ {HeadEntry}, h.left[k] = Nil \/ h.right[k] = Nil,
         NEW t, t = IF h.left[k] # Nil THEN h.left[k] ELSE h.right[k]
  PROVE  Moved(h, Removed(h, k), k, up[k], t) /\ Counted(h, Removed(h, k), k)
<1> DEFINE p == up[k]
           g == Retained(h, t)
           s == Replace(g, p, k, t)
<1>1. /\ h \in Heaps /\ k \in Entries /\ p \in Entries /\ t \in Links /\ t # k
      /\ t # Nil => h.retainCount[t] = 1
  BY Around
<1>2. Holding(h, g, k)
  <2>1. \A x \in Entries : x \in {h.left[k], h.right[k]} <=> x = t
    BY EntryFacts
  <2>2. \A x \in Entries : x = t => h.retainCount[x] = 1
    BY <1>1, EntryFacts
  <2>3. /\ g \in Heaps /\ g.left = h.left /\ g.right = h.right /\ g.value = h.value
        /\ \A x \in Entries : g.retainCount[x] =
                                IF x = t THEN h.retainCount[x] + 1 ELSE h.retainCount[x]
    BY <1>1, RetainedParts, Zenon
  <2> HIDE DEF g
  <2>4. \A x \in Entries : g.retainCount[x] =
                             IF x \in {h.left[k], h.right[k]} THEN 2 ELSE h.retainCount[x]
    BY <2>1, <2>2, <2>3
  <2> QED
    BY <2>3, <2>4 DEF Holding
<1>3. Removed(h, k) = Released(s, t)
  BY ParentIs DEF Removed
<1> HIDE DEF g, p
<1>4. /\ Moved(h, s, k, p, t)
      /\ \A x \in Entries : s.retainCount[x] =
           IF x = k THEN 0 ELSE IF x = t THEN h.retainCount[x] + 1 ELSE h.retainCount[x]
  BY <1>1, <1>2, ReplacedParts DEF p
<1> HIDE DEF s
<1>5. t # Nil => t \in Entries /\ s.retainCount[t] = 2
  BY <1>1, <1>4, EntryFacts
<1>6. s \in Heaps
  BY <1>4 DEF Moved
<1> DEFINE n == Released(s, t)
<1>7. /\ n \in Heaps /\ n.left = s.left /\ n.right = s.right /\ n.value = s.value
      /\ \A x \in Entries : n.retainCount[x] =
                              IF x = t THEN s.retainCount[x] - 1 ELSE s.retainCount[x]
  BY <1>1, <1>5, <1>6, ReleasedKept
<1> HIDE DEF n
<1>8. Moved(h, n, k, p, t)
  BY <1>4, <1>7 DEF Moved
<1>9. Counted(h, n, k)
  <2>1. h.retainCount \in [Entries -> Int]
    BY <1>1, HeapParts
  <2> QED
    BY <1>1, <1>4, <1>7, <2>1 DEF Counted
<1> QED
  BY <1>3, <1>8, <1>9 DEF n, p

\* Below what took the place of k there is an entry with nothing on its left, the greatest there.
LEMMA HangsBelow ==
  ASSUME NEW h, NEW A, NEW lo, NEW hi, NEW up, Tree(h, A, lo, hi, up),
         NEW k \in A \ {HeadEntry}, h.right[k] # Nil,
         NEW s, Moved(h, s, k, up[k], h.right[k]), NEW q, q = Leftmost(s, h.right[k])
  PROVE  /\ q \in A /\ q # k /\ q # up[k] /\ hi[q] = k /\ h.left[q] = Nil /\ s.left[q] = Nil
<1> DEFINE p == up[k]
           r == h.right[k]
           size == [e \in Entries |-> IF e \in A THEN hi[e] - lo[e] ELSE 0]
           b == hi[HeadEntry] - lo[HeadEntry] + 1
           P == {e \in A : hi[e] = k}
<1>1. /\ A \subseteq Entries /\ HeadEntry \in A /\ Nil \notin A /\ k \in A /\ p \in A
      /\ \A e \in Entries \ A : h.left[e] = Nil
  <2>1. p \in A
    BY Around
  <2> HIDE DEF p
  <2> QED
    BY <2>1, EntryFacts DEF Tree, Allocated
<1>2. \A e \in A : /\ lo[e] \in Int /\ hi[e] \in Int /\ e \in Int /\ lo[e] < e /\ e < hi[e]
                   /\ lo[HeadEntry] <= lo[e] /\ hi[e] <= hi[HeadEntry]
  BY <1>1, EntryFacts DEF Tree, Ranges
<1>3. r \in A /\ lo[r] = lo[k] /\ hi[r] = k
  BY DEF Tree, Branches
<1>4. /\ s \in Heaps
      /\ \A x \in Entries : s.left[x] = IF x = k THEN Nil ELSE IF x = p /\ h.left[p] = k THEN r
                                        ELSE h.left[x]
  BY DEF Moved
<1>5. b \in Nat /\ size \in [Entries -> Nat] /\ \A e \in Entries : size[e] < b
  <2>1. \A e \in A : hi[e] - lo[e] \in Nat /\ hi[e] - lo[e] < b
    BY <1>1, <1>2
  <2>2. b \in Nat /\ b > 0
    BY <1>1, <2>1
  <2> HIDE DEF b
  <2> QED
    BY <2>1, <2>2
<1>6. hi[k] - lo[k] < hi[p] - lo[p] /\ hi[k] <= hi[p] /\ k \in Int /\ hi[k] > k
  <2>1. hi[k] - lo[k] < hi[p] - lo[p]
    BY StepUp
  <2>2. CASE h.left[p] = k
    <3>1. hi[k] = hi[p]
      BY <1>1, <2>2 DEF Tree, Branches
    <3> QED
      BY <1>1, <1>2, <2>1, <3>1
  <2>3. CASE h.right[p] = k
    <3>1. hi[k] = p
      BY <1>1, <2>3 DEF Tree, Branches
    <3> QED
      BY <1>1, <1>2, <2>1, <3>1
  <2> QED
    BY <2>2, <2>3, Around
<1>7. ASSUME NEW e \in A, h.left[e] # Nil
      PROVE  h.left[e] \in A /\ hi[h.left[e]] = hi[e] /\ hi[h.left[e]] - lo[h.left[e]] < hi[e] - lo[e]
  <2>1. h.left[e] \in A /\ hi[h.left[e]] = hi[e] /\ lo[h.left[e]] = e
    BY <1>7 DEF Tree, Branches
  <2> QED
    BY <1>2, <2>1
<1> HIDE DEF p, r, b
<1>8. ASSUME NEW e \in Entries, s.left[e] # Nil PROVE size[s.left[e]] < size[e]
  <2>1. e \in A /\ e # k
    BY <1>1, <1>3, <1>4, <1>8
  <2>2. CASE e = p /\ h.left[p] = k
    BY <1>1, <1>2, <1>3, <1>4, <1>6, <2>1, <2>2
  <2>3. CASE ~(e = p /\ h.left[p] = k)
    <3>1. s.left[e] = h.left[e]
      BY <1>4, <2>1, <2>3
    <3> QED
      BY <1>1, <1>7, <1>8, <2>1, <3>1
  <2> QED
    BY <2>2, <2>3
<1>9. ASSUME NEW e \in P, s.left[e] # Nil PROVE s.left[e] \in P
  <2>1. e \in A /\ hi[e] = k /\ e # k /\ e # p
    BY <1>1, <1>2, <1>6
  <2>2. s.left[e] = h.left[e]
    BY <1>1, <1>4, <2>1
  <2> QED
    BY <1>7, <1>9, <2>1, <2>2
<1>10. r \in P /\ P \in SUBSET Entries
  BY <1>1, <1>3
<1>11. s.left \in [Entries -> Links]
  BY <1>4, HeapParts
<1>12. q \in P /\ s.left[q] = Nil
  <2> HIDE DEF P, size
  <2>1. q = Leftmost(s, r)
    BY DEF r
  <2>2. Sinks(s, size, b, P)
    BY <1>5, <1>8, <1>9, <1>10, <1>11 DEF Sinks
  <2> QED
    BY <1>10, <2>1, <2>2, LeftmostIs
<1>13. q \in A /\ hi[q] = k /\ q # k /\ q # p
  BY <1>1, <1>2, <1>6, <1>12
<1>14. h.left[q] = Nil
  BY <1>1, <1>4, <1>12, <1>13
<1> QED
  BY <1>12, <1>13, <1>14 DEF p

\* The removal of an entry with two children.
LEMMA RemovedTwo ==
  ASSUME NEW h, NEW A, NEW lo, NEW hi, NEW up, Tree(h, A, lo, hi, up),
         NEW k \in A \ {HeadEntry}, h.left[k] # Nil, h.right[k] # Nil
  PROVE  \E s, q : /\ Moved(h, s, k, up[k], h.right[k]) /\ Counted(h, Removed(h, k), k)
                   /\ q \in A /\ q # k /\ q # up[k] /\ hi[q] = k
                   /\ h.left[q] = Nil /\ s.left[q] = Nil
                   /\ Removed(h, k) \in Heaps /\ Removed(h, k).left = [s.left EXCEPT ![q] = h.left[k]]
                   /\ Removed(h, k).right = s.right /\ Removed(h, k).value = s.value
<1> DEFINE p == up[k]
           l == h.left[k]
           r == h.right[k]
           f == Retained(h, l)
           g == Retained(f, r)
           s == Replace(g, p, k, r)
           q == Leftmost(s, r)
           n == SetLeftEntry(s, q, l)
           m == Released(n, l)
<1>1. /\ h \in Heaps /\ k \in Entries /\ p \in Entries /\ l \in Links /\ r \in Links
      /\ l \in Entries /\ r \in Entries /\ l # k /\ r # k /\ l # r /\ l # Nil /\ r # Nil
      /\ h.retainCount[l] = 1 /\ h.retainCount[r] = 1
  BY Around, EntryFacts
<1>2. Removed(h, k) = Released(m, r)
  BY <1>1, ParentIs DEF Removed, Hung
<1>3. Holding(h, g, k)
  <2>1. /\ f \in Heaps /\ f.left = h.left /\ f.right = h.right /\ f.value = h.value
        /\ \A x \in Entries : f.retainCount[x] =
                                IF x = l THEN h.retainCount[x] + 1 ELSE h.retainCount[x]
    BY <1>1, RetainedParts, Zenon
  <2> HIDE DEF f
  <2>2. /\ g \in Heaps /\ g.left = f.left /\ g.right = f.right /\ g.value = f.value
        /\ \A x \in Entries : g.retainCount[x] =
                                IF x = r THEN f.retainCount[x] + 1 ELSE f.retainCount[x]
    BY <1>1, <2>1, RetainedParts, Zenon
  <2> HIDE DEF g, l, r
  <2>3. \A x \in Entries : g.retainCount[x] = IF x \in {l, r} THEN 2 ELSE h.retainCount[x]
    BY <1>1, <2>1, <2>2
  <2> QED
    BY <2>1, <2>2, <2>3 DEF Holding, l, r
<1> HIDE DEF g
<1>4. /\ Moved(h, s, k, p, r)
      /\ \A x \in Entries : s.retainCount[x] =
           IF x = k THEN 0 ELSE IF x = r THEN h.retainCount[x] + 1 ELSE h.retainCount[x]
  BY <1>1, <1>3, ReplacedParts
<1> HIDE DEF s
<1>5. /\ q \in A /\ q # k /\ q # p /\ hi[q] = k /\ h.left[q] = Nil /\ s.left[q] = Nil
  BY <1>1, <1>4, HangsBelow
<1> HIDE DEF q
<1>6. s \in Heaps /\ q \in Entries /\ h.retainCount \in [Entries -> Int]
  BY <1>1, <1>4, <1>5, HeapParts DEF Moved, Tree, Allocated
<1>7. LeftSet(n, s, q, l)
  <2>1. LeftSet(n, Released(s, s.left[q]), q, l)
    BY <1>1, <1>6, SetLeftParts
  <2>2. Released(s, s.left[q]) = s
    BY <1>5, <1>6, ReleasedIs DEF Links
  <2> QED
    BY <2>1, <2>2
<1> HIDE DEF n, l, r, p
<1>8. /\ n \in Heaps /\ n.left = [s.left EXCEPT ![q] = l] /\ n.right = s.right /\ n.value = s.value
      /\ \A x \in Entries : n.retainCount[x] =
                              IF x = l THEN s.retainCount[x] + 1 ELSE s.retainCount[x]
  BY <1>7 DEF LeftSet
<1>9. n.retainCount[l] = 2 /\ n.retainCount[r] = 2
  BY <1>1, <1>4, <1>8
<1>10. /\ m \in Heaps /\ m.left = n.left /\ m.right = n.right /\ m.value = n.value
       /\ \A x \in Entries : m.retainCount[x] =
                               IF x = l THEN n.retainCount[x] - 1 ELSE n.retainCount[x]
  BY <1>1, <1>8, <1>9, ReleasedKept
<1> HIDE DEF m
<1>11. m.retainCount[r] = 2
  BY <1>1, <1>9, <1>10
<1> DEFINE o == Released(m, r)
<1>12. /\ o \in Heaps /\ o.left = m.left /\ o.right = m.right /\ o.value = m.value
       /\ \A x \in Entries : o.retainCount[x] =
                               IF x = r THEN m.retainCount[x] - 1 ELSE m.retainCount[x]
  BY <1>1, <1>10, <1>11, ReleasedKept
<1> HIDE DEF o
<1>13. Counted(h, o, k)
  BY <1>1, <1>4, <1>6, <1>8, <1>10, <1>12 DEF Counted
<1>14. o \in Heaps /\ o.left = [s.left EXCEPT ![q] = l] /\ o.right = s.right /\ o.value = s.value
  BY <1>8, <1>10, <1>12
<1>15. o = Removed(h, k)
  BY <1>2 DEF o
<1> QED
  BY <1>4, <1>5, <1>13, <1>14, <1>15 DEF l, r, p

------------------------------------------------------------------------------
(* The operations keep the tree a tree. *)

\* A key that is inserted is in the tree with all that were.
LEMMA InsertedTree ==
  ASSUME NEW h, NEW A, NEW lo, NEW hi, NEW up, Tree(h, A, lo, hi, up),
         NEW k \in Keys, k \notin A, NEW v \in Values
  PROVE  \E L, H, U : Tree(Inserted(h, k, v), A \cup {k}, L, H, U)
<1> DEFINE e == Find(h, k)
           n == Inserted(h, k, v)
           L == [lo EXCEPT ![k] = IF e < k THEN e ELSE lo[e]]
           H == [hi EXCEPT ![k] = IF e < k THEN hi[e] ELSE e]
           U == [up EXCEPT ![k] = e]
           B == A \cup {k}
<1>1. /\ h \in Heaps /\ A \subseteq Entries /\ HeadEntry \in A /\ Nil \notin B /\ k \in Entries
      /\ k # HeadEntry /\ e \in A /\ e # k /\ In(k, e, lo, hi) /\ Towards(h, e, k) = Nil
  BY EntryFacts, FindIs DEF Tree, Allocated
<1>2. /\ n \in Heaps
      /\ n.left = IF e < k THEN [h.left EXCEPT ![e] = k] ELSE h.left
      /\ n.right = IF e < k THEN h.right ELSE [h.right EXCEPT ![e] = k]
      /\ n.value = [h.value EXCEPT ![k] = v]
      /\ \A x \in Entries : n.retainCount[x] = IF x = k THEN 1 ELSE h.retainCount[x]
  BY InsertedParts
<1> HIDE DEF n, e
<1>3. /\ h.left \in [Entries -> Links] /\ h.right \in [Entries -> Links]
      /\ h.value \in [Entries -> Values \cup {Nil}]
  BY <1>1, HeapParts
<1>4. /\ lo \in [Entries -> Int] /\ hi \in [Entries -> Int] /\ up \in [Entries -> Entries]
      /\ e \in Int /\ k \in Int /\ e \in Entries
      /\ \A x \in Entries : x \in Int /\ lo[HeadEntry] < x /\ x < hi[HeadEntry]
      /\ \A x \in A : /\ lo[x] < x /\ x < hi[x]
                      /\ lo[HeadEntry] <= lo[x] /\ hi[x] <= hi[HeadEntry]
  BY <1>1, EntryFacts DEF Tree, Ranges, Branches
<1>5. /\ L \in [Entries -> Int] /\ H \in [Entries -> Int] /\ U \in [Entries -> Entries]
      /\ \A x \in A : L[x] = lo[x] /\ H[x] = hi[x] /\ U[x] = up[x]
      /\ L[k] = (IF e < k THEN e ELSE lo[e]) /\ H[k] = (IF e < k THEN hi[e] ELSE e) /\ U[k] = e
  BY <1>1, <1>4
<1> HIDE DEF L, H, U
<1>6. Allocated(n, B)
  <2>1. \A x \in Entries \ B : n.left[x] = Nil /\ n.right[x] = Nil /\ n.value[x] = Nil
    <3>1. \A x \in Entries \ A : h.left[x] = Nil /\ h.right[x] = Nil /\ h.value[x] = Nil
      BY DEF Tree, Allocated
    <3> QED
      BY <1>1, <1>2, <1>3, <3>1
  <2>2. \A x \in Entries : n.retainCount[x] = IF x \in B THEN 1 ELSE 0
    BY <1>1, <1>2 DEF Tree, Allocated
  <2> QED
    BY <1>1, <1>2, <2>1, <2>2 DEF Allocated
<1>7. Ranges(B, L, H)
  <2>1. L[k] < k /\ k < H[k] /\ lo[HeadEntry] <= L[k] /\ H[k] <= hi[HeadEntry]
    BY <1>1, <1>4, <1>5 DEF In
  <2> QED
    BY <1>1, <1>4, <1>5, <2>1 DEF Ranges
<1>8. Branches(n, B, L, H, U)
  <2>1. ASSUME NEW x \in B, n.left[x] # Nil
        PROVE  /\ n.left[x] \in B \ {HeadEntry} /\ U[n.left[x]] = x
               /\ L[n.left[x]] = x /\ H[n.left[x]] = H[x]
    <3>1. CASE x = e /\ e < k
      BY <1>1, <1>2, <1>3, <1>4, <1>5, <3>1
    <3>2. CASE ~(x = e /\ e < k)
      <4>1. n.left[x] = h.left[x]
        BY <1>1, <1>2, <1>3, <1>4, <3>2
      <4>2. x \in A
        BY <1>1, <2>1, <4>1 DEF Tree, Allocated
      <4>3. /\ h.left[x] \in A \ {HeadEntry} /\ up[h.left[x]] = x
            /\ lo[h.left[x]] = x /\ hi[h.left[x]] = hi[x]
        BY <2>1, <4>1, <4>2 DEF Tree, Branches
      <4> QED
        BY <1>5, <4>1, <4>2, <4>3
    <3> QED
      BY <3>1, <3>2
  <2>2. ASSUME NEW x \in B, n.right[x] # Nil
        PROVE  /\ n.right[x] \in B \ {HeadEntry} /\ U[n.right[x]] = x
               /\ L[n.right[x]] = L[x] /\ H[n.right[x]] = x
    <3>1. CASE x = e /\ ~(e < k)
      BY <1>1, <1>2, <1>3, <1>4, <1>5, <3>1
    <3>2. CASE ~(x = e /\ ~(e < k))
      <4>1. n.right[x] = h.right[x]
        BY <1>1, <1>2, <1>3, <1>4, <3>2
      <4>2. x \in A
        BY <1>1, <2>2, <4>1 DEF Tree, Allocated
      <4>3. /\ h.right[x] \in A \ {HeadEntry} /\ up[h.right[x]] = x
            /\ lo[h.right[x]] = lo[x] /\ hi[h.right[x]] = x
        BY <2>2, <4>1, <4>2 DEF Tree, Branches
      <4> QED
        BY <1>5, <4>1, <4>2, <4>3
    <3> QED
      BY <3>1, <3>2
  <2>3. ASSUME NEW c \in B \ {HeadEntry}
        PROVE  U[c] \in B /\ (n.left[U[c]] = c \/ n.right[U[c]] = c)
    <3>1. CASE c = k
      BY <1>1, <1>2, <1>3, <1>4, <1>5, <3>1
    <3>2. CASE c # k
      <4>1. c \in A /\ up[c] \in A /\ (h.left[up[c]] = c \/ h.right[up[c]] = c) /\ c # Nil
        BY <1>1, <3>2 DEF Tree, Branches
      <4> DEFINE d == up[c]
      <4>3. d \in Entries /\ U[c] = d /\ d \in B
        BY <1>1, <1>5, <4>1
      <4>4. /\ h.left[d] = c => n.left[d] = c
            /\ h.right[d] = c => n.right[d] = c
        <5> HIDE DEF d
        <5>1. d # e => n.left[d] = h.left[d] /\ n.right[d] = h.right[d]
          BY <1>2, <1>3, <1>4, <4>3
        <5>2. e < k => n.right[d] = h.right[d] /\ h.left[e] = Nil
          BY <1>1, <1>2 DEF Towards
        <5>3. ~(e < k) => n.left[d] = h.left[d] /\ h.right[e] = Nil
          BY <1>1, <1>2 DEF Towards
        <5> QED
          BY <4>1, <5>1, <5>2, <5>3
      <4> QED
        BY <4>1, <4>3, <4>4
    <3> QED
      BY <3>1, <3>2
  <2> QED
    BY <1>5, <2>1, <2>2, <2>3 DEF Branches
<1>9. Tree(n, B, L, H, U)
  BY <1>6, <1>7, <1>8 DEF Tree
<1> QED
  BY <1>9 DEF n

\* What the removal of k with the parent p made of the links: t is in its place, and its left
\* child is on the left of q when it had two.
Unlinked(h, n, k, p, t, q) ==
  /\ n \in Heaps
  /\ \A x \in Entries :
       /\ n.left[x] = IF x = k THEN Nil ELSE IF x = p /\ h.left[p] = k THEN t
                      ELSE IF x = q THEN h.left[k] ELSE h.left[x]
       /\ n.right[x] = IF x = k THEN Nil ELSE IF x = p /\ h.left[p] # k THEN t ELSE h.right[x]
       /\ n.value[x] = IF x = k THEN Nil ELSE h.value[x]

\* Which t and q that are.
Successors(h, A, hi, k, p, t, q) ==
  \/ /\ h.left[k] = Nil \/ h.right[k] = Nil
     /\ t = (IF h.left[k] # Nil THEN h.left[k] ELSE h.right[k]) /\ q = Nil
  \/ /\ h.left[k] # Nil /\ h.right[k] # Nil /\ t = h.right[k]
     /\ q \in A \ {k, p} /\ hi[q] = k /\ h.left[q] = Nil

\* A removal does just that.
LEMMA RemovedParts ==
  ASSUME NEW h, NEW A, NEW lo, NEW hi, NEW up, Tree(h, A, lo, hi, up),
         NEW k \in A \ {HeadEntry}
  PROVE  /\ Counted(h, Removed(h, k), k)
         /\ \E t, q : /\ Successors(h, A, hi, k, up[k], t, q)
                      /\ Unlinked(h, Removed(h, k), k, up[k], t, q)
<1> DEFINE n == Removed(h, k)
           p == up[k]
<1>0. A \subseteq Entries /\ Nil \notin Entries
  BY EntryFacts DEF Tree, Allocated
<1>1. CASE h.left[k] = Nil \/ h.right[k] = Nil
  <2> DEFINE t == IF h.left[k] # Nil THEN h.left[k] ELSE h.right[k]
  <2>1. Moved(h, n, k, p, t) /\ Counted(h, n, k)
    BY <1>1, RemovedOne
  <2>2. Successors(h, A, hi, k, p, t, Nil)
    BY <1>1 DEF Successors
  <2> HIDE DEF n, p, t
  <2>3. Unlinked(h, n, k, p, t, Nil)
    BY <1>0, <2>1 DEF Moved, Unlinked
  <2> QED
    BY <2>1, <2>2, <2>3 DEF n, p
<1>2. CASE h.left[k] # Nil /\ h.right[k] # Nil
  <2>1. PICK s, q : /\ Moved(h, s, k, p, h.right[k]) /\ Counted(h, n, k)
                    /\ q \in A /\ q # k /\ q # p /\ hi[q] = k
                    /\ h.left[q] = Nil /\ s.left[q] = Nil
                    /\ n \in Heaps /\ n.left = [s.left EXCEPT ![q] = h.left[k]]
                    /\ n.right = s.right /\ n.value = s.value
    BY <1>2, RemovedTwo
  <2> HIDE DEF n, p
  <2>2. Successors(h, A, hi, k, p, h.right[k], q)
    BY <1>2, <2>1 DEF Successors
  <2>3. s.left \in [Entries -> Links]
    BY <2>1, HeapParts DEF Moved
  <2>4. Unlinked(h, n, k, p, h.right[k], q)
    BY <1>0, <2>1, <2>3 DEF Moved, Unlinked
  <2> QED
    BY <2>1, <2>2, <2>4 DEF n, p
<1> QED
  BY <1>1, <1>2

\* A key that is removed leaves a tree of the other ones.
LEMMA RemovedTree ==
  ASSUME NEW h, NEW A, NEW lo, NEW hi, NEW up, Tree(h, A, lo, hi, up),
         NEW k \in A \ {HeadEntry}
  PROVE  \E L, H, U : Tree(Removed(h, k), A \ {k}, L, H, U)
<1> DEFINE n == Removed(h, k)
           p == up[k]
           l == h.left[k]
           r == h.right[k]
           B == A \ {k}
<1>1. PICK t, q : /\ Successors(h, A, hi, k, p, t, q) /\ Unlinked(h, n, k, p, t, q)
                  /\ Counted(h, n, k)
  BY RemovedParts
<1> DEFINE low == IF q = Nil THEN lo[k] ELSE q
           L == [x \in Entries |-> IF lo[x] = k THEN low ELSE lo[x]]
           H == [x \in Entries |-> IF hi[x] = k THEN hi[k] ELSE hi[x]]
           U == [x \in Entries |-> IF x = t THEN p ELSE IF x = l /\ q # Nil THEN q ELSE up[x]]
<1>2. /\ h \in Heaps /\ A \subseteq Entries /\ HeadEntry \in B /\ Nil \notin Entries
      /\ k \in Entries /\ k \in A /\ p \in B /\ p \in Entries
      /\ l \in Links /\ r \in Links /\ (h.left[p] = k \/ h.right[p] = k)
  <2>1. /\ k \in Entries /\ p \in A /\ p \in Entries /\ p # k
        /\ l \in Links /\ r \in Links /\ (h.left[p] = k \/ h.right[p] = k)
    BY Around
  <2> HIDE DEF p, l, r
  <2> QED
    BY <2>1, EntryFacts DEF Tree, Allocated
<1>3. /\ l # Nil => /\ l \in B \ {HeadEntry} /\ up[l] = k /\ lo[l] = k /\ hi[l] = hi[k] /\ l # r
      /\ r # Nil => /\ r \in B \ {HeadEntry} /\ up[r] = k /\ lo[r] = lo[k] /\ hi[r] = k
  BY Around DEF Tree, Branches
<1>4. /\ h.left[p] = k => lo[k] = p /\ hi[k] = hi[p]
      /\ h.right[p] = k => lo[k] = lo[p] /\ hi[k] = p
  BY <1>2 DEF Tree, Branches
<1>5. /\ lo \in [Entries -> Int] /\ hi \in [Entries -> Int] /\ up \in [Entries -> Entries]
      /\ \A x \in Entries : x \in Int /\ lo[HeadEntry] < x /\ x < hi[HeadEntry]
      /\ \A x \in A : /\ lo[x] < x /\ x < hi[x]
                      /\ lo[HeadEntry] <= lo[x] /\ hi[x] <= hi[HeadEntry]
  BY <1>2, EntryFacts DEF Tree, Ranges, Branches
<1> HIDE DEF n, p, l, r
<1>6. \/ (l = Nil \/ r = Nil) /\ t = (IF l # Nil THEN l ELSE r) /\ q = Nil
      \/ /\ l # Nil /\ r # Nil /\ t = r /\ q \in B /\ q # p /\ hi[q] = k /\ h.left[q] = Nil
         /\ q # Nil
  BY <1>1, <1>2 DEF Successors, l, r
<1>7. /\ n \in Heaps
      /\ \A x \in Entries :
           /\ n.left[x] = IF x = k THEN Nil ELSE IF x = p /\ h.left[p] = k THEN t
                          ELSE IF x = q THEN l ELSE h.left[x]
           /\ n.right[x] = IF x = k THEN Nil ELSE IF x = p /\ h.left[p] # k THEN t ELSE h.right[x]
           /\ n.value[x] = IF x = k THEN Nil ELSE h.value[x]
  BY <1>1 DEF Unlinked, l
<1>8. t \in Links /\ (t # Nil => t \in B \ {HeadEntry} /\ up[t] = k) /\ t # k
  BY <1>2, <1>3, <1>6
<1>9. low \in Int /\ low < k /\ lo[HeadEntry] <= low
  <2>1. CASE q = Nil
    BY <1>2, <1>5, <2>1
  <2>2. CASE q # Nil
    BY <1>2, <1>5, <1>6, <2>2
  <2> QED
    BY <2>1, <2>2
<1>10. /\ L \in [Entries -> Int] /\ H \in [Entries -> Int] /\ U \in [Entries -> Entries]
  <2>1. U \in [Entries -> Entries]
    BY <1>2, <1>5, <1>6
  <2> HIDE DEF low
  <2> QED
    BY <1>2, <1>5, <1>9, <2>1
<1>11. \A x \in Entries : /\ L[x] = IF lo[x] = k THEN low ELSE lo[x]
                          /\ H[x] = IF hi[x] = k THEN hi[k] ELSE hi[x]
                          /\ U[x] = IF x = t THEN p ELSE IF x = l /\ q # Nil THEN q ELSE up[x]
  OBVIOUS
<1> HIDE DEF L, H, U
<1>12. Allocated(n, B)
  <2>1. \A x \in Entries \ B : n.left[x] = Nil /\ n.right[x] = Nil /\ n.value[x] = Nil
    <3>1. \A x \in Entries \ A : h.left[x] = Nil /\ h.right[x] = Nil /\ h.value[x] = Nil
      BY DEF Tree, Allocated
    <3>2. \A x \in Entries \ A : x # k /\ x # p /\ x # q
      BY <1>2, <1>6
    <3> QED
      BY <1>2, <1>7, <3>1, <3>2
  <2>2. \A x \in Entries : n.retainCount[x] = IF x \in B THEN 1 ELSE 0
    BY <1>1, <1>2 DEF Tree, Allocated, Counted
  <2> QED
    BY <1>2, <1>7, <2>1, <2>2 DEF Allocated
<1>13. Ranges(B, L, H)
  <2> HIDE DEF low
  <2>1. ASSUME NEW x \in B
        PROVE  /\ L[x] < x /\ x < H[x]
               /\ lo[HeadEntry] <= L[x] /\ H[x] <= hi[HeadEntry]
    BY <1>2, <1>5, <1>9, <1>11
  <2>2. L[HeadEntry] = lo[HeadEntry] /\ H[HeadEntry] = hi[HeadEntry]
    BY <1>2, <1>5, <1>11
  <2> QED
    BY <1>5, <1>10, <2>1, <2>2 DEF Ranges
<1>14. Branches(n, B, L, H, U)
  <2>1. ASSUME NEW x \in B, n.left[x] # Nil
        PROVE  /\ n.left[x] \in B \ {HeadEntry} /\ U[n.left[x]] = x
               /\ L[n.left[x]] = x /\ H[n.left[x]] = H[x]
    <3>0. x \in Entries /\ x # k /\ x \in A
      BY <1>2
    <3>1. CASE x = p /\ h.left[p] = k
      <4>1. n.left[x] = t /\ t # Nil /\ t \in Entries
        BY <1>2, <1>7, <1>8, <2>1, <3>0, <3>1
      <4>2. U[t] = p
        BY <1>11, <4>1
      <4>3. L[t] = p
        BY <1>2, <1>3, <1>4, <1>5, <1>6, <1>11, <3>1, <4>1
      <4>4. H[t] = hi[k] /\ H[p] = hi[k]
        BY <1>2, <1>3, <1>4, <1>5, <1>6, <1>11, <3>1, <4>1
      <4> QED
        BY <1>8, <3>1, <4>1, <4>2, <4>3, <4>4
    <3>2. CASE x = q
      <4>1. n.left[x] = l /\ l # t /\ l \in Entries /\ l \in B \ {HeadEntry} /\ q # Nil
        BY <1>2, <1>3, <1>6, <1>7, <3>0, <3>2
      <4>2. U[l] = q /\ L[l] = q /\ H[l] = hi[k] /\ H[q] = hi[k]
        BY <1>2, <1>3, <1>5, <1>6, <1>11, <3>0, <3>2, <4>1
      <4> QED
        BY <3>2, <4>1, <4>2
    <3>3. CASE ~(x = p /\ h.left[p] = k) /\ x # q
      <4>1. n.left[x] = h.left[x]
        BY <1>7, <3>0, <3>3
      <4> DEFINE c == h.left[x]
      <4>2. c \in A \ {HeadEntry} /\ up[c] = x /\ lo[c] = x /\ hi[c] = hi[x]
        BY <2>1, <3>0, <4>1 DEF Tree, Branches
      <4> HIDE DEF c
      <4>3. c # k
        BY <3>3, <4>2 DEF c, p
      <4>4. c # t /\ c # l /\ c \in Entries
        BY <1>2, <1>3, <1>8, <3>0, <4>2
      <4>5. U[c] = x /\ L[c] = x /\ H[c] = H[x]
        BY <1>11, <3>0, <4>2, <4>4
      <4> QED
        BY <4>1, <4>2, <4>3, <4>5 DEF c
    <3> QED
      BY <3>1, <3>2, <3>3
  <2>2. ASSUME NEW x \in B, n.right[x] # Nil
        PROVE  /\ n.right[x] \in B \ {HeadEntry} /\ U[n.right[x]] = x
               /\ L[n.right[x]] = L[x] /\ H[n.right[x]] = x
    <3>0. x \in Entries /\ x # k /\ x \in A
      BY <1>2
    <3>1. CASE x = p /\ h.left[p] # k
      <4>1. n.right[x] = t /\ t # Nil /\ t \in Entries
        BY <1>2, <1>7, <1>8, <2>2, <3>0, <3>1
      <4>2. U[t] = p
        BY <1>11, <4>1
      <4>3. h.right[p] = k /\ lo[k] = lo[p] /\ hi[k] = p
        BY <1>2, <1>4, <3>1
      <4>4. L[t] = lo[k] /\ L[p] = lo[k]
        BY <1>2, <1>3, <1>5, <1>6, <1>11, <4>1, <4>3
      <4>5. H[t] = p
        BY <1>2, <1>3, <1>5, <1>6, <1>11, <4>1, <4>3
      <4> QED
        BY <1>8, <3>1, <4>1, <4>2, <4>4, <4>5
    <3>2. CASE ~(x = p /\ h.left[p] # k)
      <4>1. n.right[x] = h.right[x]
        BY <1>7, <3>0, <3>2
      <4> DEFINE c == h.right[x]
      <4>2. c \in A \ {HeadEntry} /\ up[c] = x /\ lo[c] = lo[x] /\ hi[c] = x
        BY <2>2, <3>0, <4>1 DEF Tree, Branches
      <4>3. c # k
        <5>1. SUFFICES ASSUME c = k PROVE FALSE
          OBVIOUS
        <5>2. x = p /\ h.right[p] = k
          BY <4>2, <5>1 DEF p
        <5>3. h.left[p] = k
          BY <3>2, <5>2
        <5>4. lo[k] = p /\ hi[k] = p
          BY <1>4, <5>2, <5>3
        <5>5. lo[k] < k /\ k < hi[k] /\ k \in Int /\ p \in Int
          BY <1>2, <1>5
        <5> QED
          BY ONLY <5>4, <5>5
      <4> HIDE DEF c
      <4>4. c # t /\ c # l /\ c \in Entries
        BY <1>2, <1>3, <1>8, <3>0, <4>2
      <4>5. U[c] = x /\ L[c] = L[x] /\ H[c] = x
        BY <1>11, <3>0, <4>2, <4>4
      <4> QED
        BY <4>1, <4>2, <4>3, <4>5 DEF c
    <3> QED
      BY <3>1, <3>2
  <2>3. ASSUME NEW c \in B \ {HeadEntry}
        PROVE  U[c] \in B /\ (n.left[U[c]] = c \/ n.right[U[c]] = c)
    <3>0. c \in Entries /\ c # k /\ c \in A \ {HeadEntry} /\ c # Nil
      BY <1>2
    <3>1. CASE c = t
      <4>1. U[c] = p
        BY <1>11, <3>0, <3>1
      <4> QED
        BY <1>2, <1>7, <3>1, <4>1
    <3>2. CASE c # t /\ c = l /\ q # Nil
      <4>1. U[c] = q
        BY <1>11, <3>0, <3>2
      <4> QED
        BY <1>2, <1>6, <1>7, <3>2, <4>1
    <3>3. CASE c # t /\ ~(c = l /\ q # Nil)
      <4> DEFINE d == up[c]
      <4>1. d \in A /\ (h.left[d] = c \/ h.right[d] = c)
        BY <3>0 DEF Tree, Branches
      <4>2. U[c] = d
        BY <1>11, <3>0, <3>3
      <4> HIDE DEF d
      <4>3. d # k
        <5>1. SUFFICES ASSUME d = k PROVE FALSE
          OBVIOUS
        <5>2. c = l \/ c = r
          BY <4>1, <5>1 DEF l, r
        <5> QED
          BY <1>6, <3>0, <3>3, <5>2
      <4>4. d \in Entries /\ d \in B
        BY <1>2, <4>1, <4>3
      <4>5. CASE h.left[d] = c
        <5>1. ~(d = p /\ h.left[p] = k) /\ d # q
          BY <1>2, <1>6, <3>0, <4>4, <4>5
        <5> QED
          BY <1>7, <4>2, <4>3, <4>4, <4>5, <5>1
      <4>6. CASE h.right[d] = c
        <5>1. ~(d = p /\ h.left[p] # k)
          BY <1>2, <3>0, <4>6
        <5> QED
          BY <1>7, <4>2, <4>3, <4>4, <4>6, <5>1
      <4> QED
        BY <4>1, <4>5, <4>6
    <3> QED
      BY <3>1, <3>2, <3>3
  <2> QED
    BY <1>10, <2>1, <2>2, <2>3 DEF Branches
<1>15. Tree(n, B, L, H, U)
  BY <1>12, <1>13, <1>14 DEF Tree
<1> QED
  BY <1>15 DEF n

------------------------------------------------------------------------------
(* What is below an entry. *)

Below(A, lo, hi, c) == IF c = Nil THEN {} ELSE {x \in A : In(x, c, lo, hi)}

\* It is the entry and what is below its children, apart from each other.
LEMMA BelowIs ==
  ASSUME NEW h, NEW A, NEW lo, NEW hi, NEW up, Tree(h, A, lo, hi, up), NEW e \in A
  PROVE  /\ Below(A, lo, hi, e)
              = {e} \cup (Below(A, lo, hi, h.left[e]) \cup Below(A, lo, hi, h.right[e]))
         /\ e \notin Below(A, lo, hi, h.left[e]) /\ e \notin Below(A, lo, hi, h.right[e])
         /\ Below(A, lo, hi, h.left[e]) \cap Below(A, lo, hi, h.right[e]) = {}
         /\ h.left[e] \in A \cup {Nil} /\ h.right[e] \in A \cup {Nil}
<1>1. /\ Nil \notin A /\ A \subseteq Entries
      /\ \A x \in A : /\ x \in Int /\ lo[x] \in Int /\ hi[x] \in Int /\ lo[x] < x /\ x < hi[x]
  BY EntryFacts DEF Tree, Allocated, Ranges
<1>2. /\ h.left[e] # Nil => h.left[e] \in A /\ lo[h.left[e]] = e /\ hi[h.left[e]] = hi[e]
      /\ h.right[e] # Nil => h.right[e] \in A /\ lo[h.right[e]] = lo[e] /\ hi[h.right[e]] = e
  BY DEF Tree, Branches
<1>3. \A x \in Below(A, lo, hi, h.left[e]) : x \in A /\ e < x /\ x < hi[e] /\ lo[e] < x
  BY <1>1, <1>2 DEF Below, In
<1>4. \A x \in Below(A, lo, hi, h.right[e]) : x \in A /\ x < e /\ lo[e] < x /\ x < hi[e]
  BY <1>1, <1>2 DEF Below, In
<1>5. ASSUME NEW x \in A, In(x, e, lo, hi), x # e
      PROVE  x \in Below(A, lo, hi, h.left[e]) \/ x \in Below(A, lo, hi, h.right[e])
  <2>1. Towards(h, e, x) # Nil
    BY <1>5, Covered
  <2>2. In(x, Towards(h, e, x), lo, hi)
    BY <1>1, <1>5, <2>1, StepDown
  <2> QED
    BY <2>1, <2>2 DEF Towards, Below
<1>6. \A x : x \in Below(A, lo, hi, e) <=> x \in A /\ In(x, e, lo, hi)
  BY <1>1 DEF Below
<1>7. In(e, e, lo, hi) /\ \A x : In(x, e, lo, hi) <=> lo[e] < x /\ x < hi[e]
  BY <1>1 DEF In
<1>8. Below(A, lo, hi, e)
        = {e} \cup (Below(A, lo, hi, h.left[e]) \cup Below(A, lo, hi, h.right[e]))
  BY <1>3, <1>4, <1>5, <1>6, <1>7
<1>9. \A x \in A : ~(x < e /\ e < x) /\ ~(x < x)
  BY <1>1
<1> QED
  BY <1>2, <1>3, <1>4, <1>8, <1>9

\* All that is in the tree is below the head.
LEMMA BelowHead ==
  ASSUME NEW h, NEW A, NEW lo, NEW hi, NEW up, Tree(h, A, lo, hi, up)
  PROVE  Below(A, lo, hi, HeadEntry) = A
BY EntryFacts DEF Tree, Allocated, Ranges, Below, In

\* h without the entries in D.
Without(h, s, D) ==
  /\ s \in Heaps
  /\ \A x \in Entries : /\ s.left[x] = IF x \in D THEN Nil ELSE h.left[x]
                        /\ s.right[x] = IF x \in D THEN Nil ELSE h.right[x]
                        /\ s.value[x] = IF x \in D THEN Nil ELSE h.value[x]
                        /\ s.retainCount[x] = IF x \in D THEN 0 ELSE h.retainCount[x]

\* The last release of an entry gives back all that is below it, and nothing else.
LEMMA Cascade ==
  ASSUME NEW h, NEW A, NEW lo, NEW hi, NEW up, Tree(h, A, lo, hi, up), NEW e \in A,
         NEW D, NEW s, Without(h, s, D), D \cap Below(A, lo, hi, e) = {}
  PROVE  Without(h, Released(s, e), D \cup Below(A, lo, hi, e))
<1> DEFINE Frees(c) == \A C, g : Without(h, g, C) /\ C \cap Below(A, lo, hi, c) = {}
                                 => Without(h, Released(g, c), C \cup Below(A, lo, hi, c))
           size == [c \in A |-> hi[c] - lo[c]]
           G == {c \in A : Frees(c)}
<1>1. size \in [A -> Nat]
  BY EntryFacts DEF Tree, Allocated, Ranges
<1>2. h \in Heaps /\ A \subseteq Entries /\ Nil \notin Entries /\ Links = Entries \cup {Nil}
  BY EntryFacts DEF Tree, Allocated
<1>3. ASSUME NEW d \in A, \A c \in A : size[c] < size[d] => c \in G PROVE d \in G
  <2> SUFFICES ASSUME NEW C, NEW g, Without(h, g, C), C \cap Below(A, lo, hi, d) = {}
               PROVE  Without(h, Released(g, d), C \cup Below(A, lo, hi, d))
    OBVIOUS
  <2> DEFINE l == h.left[d]
             r == h.right[d]
             bl == Below(A, lo, hi, l)
             br == Below(A, lo, hi, r)
             a == Freed(g, d)
             b == Released(a, l)
  <2>1. /\ Below(A, lo, hi, d) = {d} \cup (bl \cup br) /\ d \notin bl /\ d \notin br
        /\ bl \cap br = {} /\ l \in A \cup {Nil} /\ r \in A \cup {Nil}
    BY BelowIs
  <2>2. /\ l # Nil => size[l] < size[d]
        /\ r # Nil => size[r] < size[d]
    <3>1. A \subseteq Entries /\ \A x \in A : x \in Int /\ lo[x] \in Int /\ hi[x] \in Int
                                              /\ lo[x] < x /\ x < hi[x]
      BY EntryFacts DEF Tree, Allocated, Ranges
    <3>2. /\ l # Nil => l \in A /\ lo[l] = d /\ hi[l] = hi[d]
          /\ r # Nil => r \in A /\ lo[r] = lo[d] /\ hi[r] = d
      BY DEF Tree, Branches
    <3> HIDE DEF l, r
    <3> QED
      BY <3>1, <3>2
  <2>3. d \notin C /\ C \cap bl = {} /\ C \cap br = {}
    BY <2>1
  <2>4. g \in Heaps /\ d \in Entries /\ g.left[d] = l /\ g.right[d] = r /\ g.retainCount[d] = 1
    BY <1>2, <2>3 DEF Without, Tree, Allocated
  <2>5. Released(g, d) = Released(b, r)
    BY <1>2, <2>4, ReleasedIs
  <2>6. Without(h, a, C \cup {d})
    <3>1. /\ a \in Heaps /\ a.left = [g.left EXCEPT ![d] = Nil] /\ a.right = [g.right EXCEPT ![d] = Nil]
          /\ a.value = [g.value EXCEPT ![d] = Nil] /\ a.retainCount = [g.retainCount EXCEPT ![d] = 0]
      BY <2>4, FreedParts, Zenon
    <3>2. /\ g.left \in [Entries -> Links] /\ g.right \in [Entries -> Links]
          /\ g.value \in [Entries -> Values \cup {Nil}] /\ g.retainCount \in [Entries -> Int]
      BY <2>4, HeapParts
    <3> HIDE DEF a
    <3> QED
      BY <3>1, <3>2 DEF Without
  <2> HIDE DEF a, bl, br, Frees
  <2>7. Without(h, b, (C \cup {d}) \cup bl)
    <3>1. CASE l = Nil
      <4>1. b = a
        BY <2>6, <3>1, <1>2, ReleasedIs DEF Without
      <4>2. bl = {}
        BY <3>1 DEF Below, bl
      <4>3. (C \cup {d}) \cup bl = C \cup {d}
        BY <4>2
      <4> QED
        BY <2>6, <4>1, <4>3
    <3>2. CASE l # Nil
      <4>1. Frees(l)
        BY <1>3, <2>1, <2>2, <3>2
      <4>2. (C \cup {d}) \cap bl = {}
        BY <2>1, <2>3
      <4> QED
        BY <2>6, <4>1, <4>2 DEF Frees, bl
    <3> QED
      BY <3>1, <3>2
  <2> HIDE DEF b
  <2>8. Without(h, Released(b, r), ((C \cup {d}) \cup bl) \cup br)
    <3>1. CASE r = Nil
      <4>1. Released(b, r) = b
        BY <2>7, <3>1, <1>2, ReleasedIs DEF Without
      <4>2. br = {}
        BY <3>1 DEF Below, br
      <4>3. ((C \cup {d}) \cup bl) \cup br = (C \cup {d}) \cup bl
        BY <4>2
      <4> QED
        BY <2>7, <4>1, <4>3
    <3>2. CASE r # Nil
      <4>1. Frees(r)
        BY <1>3, <2>1, <2>2, <3>2
      <4>2. ((C \cup {d}) \cup bl) \cap br = {}
        BY <2>1, <2>3
      <4> QED
        BY <2>7, <4>1, <4>2 DEF Frees, br
    <3> QED
      BY <3>1, <3>2
  <2>9. ((C \cup {d}) \cup bl) \cup br = C \cup Below(A, lo, hi, d)
    BY <2>1
  <2> QED
    BY <2>5, <2>8, <2>9
<1>4. A \subseteq G
  <2> HIDE DEF size, G
  <2> QED
    BY <1>1, <1>3, SmallerFirst
<1> QED
  BY <1>4

\* Nothing is allocated.
AllFreed(h) ==
  \A e \in Entries : /\ h.left[e] = Nil /\ h.right[e] = Nil /\ h.value[e] = Nil
                     /\ h.retainCount[e] = 0

\* The last release of the head gives every entry back.
LEMMA ReleasedHead ==
  ASSUME NEW h, NEW A, NEW lo, NEW hi, NEW up, Tree(h, A, lo, hi, up)
  PROVE  Released(h, HeadEntry) \in Heaps /\ AllFreed(Released(h, HeadEntry))
<1>1. Without(h, h, {})
  BY DEF Tree, Allocated, Without
<1>2. HeadEntry \in A
  BY DEF Tree, Allocated
<1>3. Without(h, Released(h, HeadEntry), A)
  <2>1. Without(h, Released(h, HeadEntry), {} \cup Below(A, lo, hi, HeadEntry))
    BY <1>1, <1>2, Cascade
  <2> QED
    BY <2>1, BelowHead
<1> QED
  BY <1>3 DEF Without, AllFreed, Tree, Allocated

------------------------------------------------------------------------------
(* Iterating. *)

\* Everything in the tree has been seen, is below what is on the stack, or is in rest; and in
\* one of these places only.
Covers(A, lo, hi, objects, seen, rest) ==
  /\ objects \in Seq(A) /\ seen \subseteq A
  /\ \A i, j \in DOMAIN objects :
       i # j => Below(A, lo, hi, objects[i]) \cap Below(A, lo, hi, objects[j]) = {}
  /\ \A i \in DOMAIN objects : Below(A, lo, hi, objects[i]) \cap (seen \cup rest) = {}
  /\ seen \cap rest = {}
  /\ \A x \in A : \/ x \in seen \cup rest
                  \/ \E i \in DOMAIN objects : x \in Below(A, lo, hi, objects[i])

\* The sequences of Stack.
LEMMA Pushing ==
  ASSUME NEW A, NEW s \in Seq(A), NEW c \in A
  PROVE  /\ Append(s, c) \in Seq(A) /\ Len(Append(s, c)) = Len(s) + 1
         /\ DOMAIN Append(s, c) = DOMAIN s \cup {Len(s) + 1} /\ Len(s) + 1 \notin DOMAIN s
         /\ Append(s, c)[Len(s) + 1] = c
         /\ \A i \in DOMAIN s : Append(s, c)[i] = s[i]
<1>1. /\ Append(s, c) \in Seq(A) /\ Len(Append(s, c)) = Len(s) + 1 /\ Len(s) \in Nat
      /\ DOMAIN s = 1..Len(s) /\ DOMAIN Append(s, c) = 1..(Len(s) + 1)
      /\ Append(s, c)[Len(s) + 1] = c
      /\ \A i \in 1..Len(s) : Append(s, c)[i] = s[i]
  OBVIOUS
<1> QED
  BY <1>1

\* What a sequence is without its last member.
LEMMA Popping ==
  ASSUME NEW A, NEW s \in Seq(A), s # <<>>
  PROVE  /\ SubSeq(s, 1, Len(s) - 1) \in Seq(A)
         /\ Len(SubSeq(s, 1, Len(s) - 1)) = Len(s) - 1 /\ Len(s) \in Nat
         /\ Len(s) \in DOMAIN s
         /\ DOMAIN SubSeq(s, 1, Len(s) - 1) = DOMAIN s \ {Len(s)}
         /\ \A i \in DOMAIN s \ {Len(s)} : SubSeq(s, 1, Len(s) - 1)[i] = s[i]
<1>1. Len(s) \in Nat /\ Len(s) > 0 /\ DOMAIN s = 1..Len(s)
  OBVIOUS
<1> DEFINE n == Len(s) - 1
<1>2. n \in Nat /\ n <= Len(s) /\ 1..n \subseteq 1..Len(s)
  BY <1>1
<1>3. SubSeq(s, 1, n) = [i \in 1..n |-> s[i]]
  BY <1>1, <1>2
<1>4. SubSeq(s, 1, n) \in Seq(A) /\ Len(SubSeq(s, 1, n)) = n
  BY <1>1, <1>2
<1>5. 1..n = (1..Len(s)) \ {Len(s)}
  BY <1>1
<1> QED
  BY <1>1, <1>3, <1>4, <1>5

\* What goes on the stack was in rest.
LEMMA PushCovers ==
  ASSUME NEW A, NEW lo, NEW hi, NEW objects, NEW seen, NEW rest, NEW c \in A, Nil \notin A,
         Covers(A, lo, hi, objects, seen, Below(A, lo, hi, c) \cup rest),
         Below(A, lo, hi, c) \cap rest = {}
  PROVE  Covers(A, lo, hi, Append(objects, c), seen, rest)
<1> DEFINE B(x) == Below(A, lo, hi, x)
           n == Len(objects) + 1
           o == Append(objects, c)
<1>1. /\ objects \in Seq(A) /\ seen \subseteq A
      /\ \A i, j \in DOMAIN objects : i # j => B(objects[i]) \cap B(objects[j]) = {}
      /\ \A i \in DOMAIN objects : B(objects[i]) \cap (seen \cup (B(c) \cup rest)) = {}
      /\ seen \cap (B(c) \cup rest) = {}
      /\ \A x \in A : \/ x \in seen \cup (B(c) \cup rest)
                      \/ \E i \in DOMAIN objects : x \in B(objects[i])
  BY DEF Covers
<1>2. /\ o \in Seq(A) /\ DOMAIN o = DOMAIN objects \cup {n} /\ n \notin DOMAIN objects
      /\ o[n] = c /\ \A i \in DOMAIN objects : o[i] = objects[i]
  BY <1>1, Pushing
<1> HIDE DEF o, n, B
<1>3. ASSUME NEW i \in DOMAIN o, NEW j \in DOMAIN o, i # j PROVE B(o[i]) \cap B(o[j]) = {}
  <2>1. CASE i = n
    BY <1>1, <1>2, <1>3, <2>1
  <2>2. CASE j = n
    BY <1>1, <1>2, <1>3, <2>2
  <2>3. CASE i # n /\ j # n
    BY <1>1, <1>2, <1>3, <2>3
  <2> QED
    BY <2>1, <2>2, <2>3
<1>4. ASSUME NEW i \in DOMAIN o PROVE B(o[i]) \cap (seen \cup rest) = {}
  <2>1. CASE i = n
    BY <1>1, <1>2, <2>1 DEF B
  <2>2. CASE i # n
    <3>1. i \in DOMAIN objects /\ o[i] = objects[i]
      BY <1>2, <2>2
    <3> QED
      BY <1>1, <3>1
  <2> QED
    BY <2>1, <2>2
<1>5. ASSUME NEW x \in A, x \notin seen \cup rest PROVE \E i \in DOMAIN o : x \in B(o[i])
  <2>1. CASE x \in B(c)
    BY <1>2, <2>1
  <2>2. CASE x \notin B(c)
    <3>1. PICK i \in DOMAIN objects : x \in B(objects[i])
      BY <1>1, <1>5, <2>2
    <3> QED
      BY <1>2, <3>1
  <2> QED
    BY <2>1, <2>2
<1>6. seen \cap rest = {} /\ seen \subseteq A /\ o \in Seq(A)
  BY <1>1, <1>2
<1> QED
  BY <1>3, <1>4, <1>5, <1>6 DEF Covers, o, B

\* What is taken from it has been seen, and what is below that is put in rest.
LEMMA PopCovers ==
  ASSUME NEW h, NEW A, NEW lo, NEW hi, NEW up, Tree(h, A, lo, hi, up),
         NEW objects, NEW seen, Covers(A, lo, hi, objects, seen, {}), objects # <<>>,
         NEW e, e = objects[Len(objects)]
  PROVE  /\ e \in A /\ e \notin seen
         /\ Covers(A, lo, hi, SubSeq(objects, 1, Len(objects) - 1), seen \cup {e},
                   Below(A, lo, hi, h.left[e]) \cup Below(A, lo, hi, h.right[e]))
<1> DEFINE B(x) == Below(A, lo, hi, x)
           n == Len(objects)
           o == SubSeq(objects, 1, n - 1)
           rest == B(h.left[e]) \cup B(h.right[e])
<1>1. /\ objects \in Seq(A) /\ seen \subseteq A
      /\ \A i, j \in DOMAIN objects : i # j => B(objects[i]) \cap B(objects[j]) = {}
      /\ \A i \in DOMAIN objects : B(objects[i]) \cap seen = {}
      /\ \A x \in A : x \in seen \/ \E i \in DOMAIN objects : x \in B(objects[i])
  BY DEF Covers
<1>2. /\ o \in Seq(A) /\ n \in DOMAIN objects /\ DOMAIN o = DOMAIN objects \ {n}
      /\ \A i \in DOMAIN o : o[i] = objects[i]
  BY <1>1, Popping
<1>3. e \in A /\ e = objects[n]
  BY <1>1, <1>2
<1>4. B(e) = {e} \cup rest /\ e \notin rest
  BY <1>3, BelowIs
<1> HIDE DEF o, n, B, rest
<1>5. B(e) \cap seen = {}
  BY <1>1, <1>2, <1>3
<1>6. \A i \in DOMAIN o : B(o[i]) \cap B(e) = {}
  BY <1>1, <1>2, <1>3
<1>7. \A i, j \in DOMAIN o : i # j => B(o[i]) \cap B(o[j]) = {}
  BY <1>1, <1>2
<1>8. \A i \in DOMAIN o : B(o[i]) \cap ((seen \cup {e}) \cup rest) = {}
  <2> TAKE i \in DOMAIN o
  <2>1. B(o[i]) \cap seen = {}
    BY <1>1, <1>2
  <2>2. B(o[i]) \cap B(e) = {}
    BY <1>6
  <2> QED
    BY <1>4, <2>1, <2>2
<1>9. ASSUME NEW x \in A, x \notin (seen \cup {e}) \cup rest
      PROVE  \E i \in DOMAIN o : x \in B(o[i])
  <2>1. x \notin seen /\ x \notin B(e)
    BY <1>4, <1>9
  <2>2. PICK i \in DOMAIN objects : x \in B(objects[i])
    BY <1>1, <2>1
  <2>3. i # n
    BY <1>3, <2>1, <2>2
  <2> QED
    BY <1>2, <2>2, <2>3
<1>10. e \notin seen /\ (seen \cup {e}) \cap rest = {} /\ seen \cup {e} \subseteq A
  BY <1>1, <1>3, <1>4, <1>5
<1>11. Covers(A, lo, hi, o, seen \cup {e}, rest)
  BY <1>2, <1>7, <1>8, <1>9, <1>10 DEF Covers, B
<1> QED
  BY <1>3, <1>10, <1>11 DEF o, n, rest, B

\* The stacks of iterators.
Stacks == [objects : Seq(Entries), slots : Nat \ {0}]

\* A push puts an entry on top.
LEMMA StackPushes ==
  ASSUME NEW s \in Stacks, NEW e \in Links
  PROVE  /\ Pushed(s, e) \in Stacks
         /\ Pushed(s, e).objects = IF e = Nil THEN s.objects ELSE Append(s.objects, e)
<1>1. CASE e = Nil
  BY <1>1 DEF Pushed
<1>2. CASE e # Nil
  <2>1. e \in Entries /\ s.objects \in Seq(Entries) /\ s.slots \in Nat \ {0}
    BY <1>2, EntryFacts DEF Stacks
  <2> DEFINE o == Append(s.objects, e)
             m == IF Full(s) THEN 2 * s.slots ELSE s.slots
  <2>2. Pushed(s, e) = [objects |-> o, slots |-> m]
    BY <1>2 DEF Pushed, StackPush
  <2>3. o \in Seq(Entries) /\ m \in Nat \ {0}
    BY <2>1
  <2> HIDE DEF o, m
  <2>4. Pushed(s, e) \in Stacks /\ Pushed(s, e).objects = o
    BY <2>2, <2>3 DEF Stacks
  <2> QED
    BY <1>2, <2>4 DEF o
<1> QED
  BY <1>1, <1>2

\* A pop takes it away.
LEMMA StackPops ==
  ASSUME NEW s \in Stacks, ~IsEmptyStack(s)
  PROVE  /\ StackPop(s) \in Stacks
         /\ StackPop(s).objects = SubSeq(s.objects, 1, Len(s.objects) - 1)
         /\ Top(s) \in Entries
<1>1. s.objects \in Seq(Entries) /\ s.slots \in Nat \ {0} /\ s.objects # <<>>
  BY DEF Stacks, IsEmptyStack
<1> DEFINE o == SubSeq(s.objects, 1, Len(s.objects) - 1)
<1>2. o \in Seq(Entries) /\ Len(s.objects) \in DOMAIN s.objects
  BY <1>1, Popping
<1>3. StackPop(s) = [s EXCEPT !.objects = o]
  BY DEF StackPop
<1>4. Top(s) \in Entries
  BY <1>1, <1>2 DEF Top
<1> HIDE DEF o
<1>5. StackPop(s) \in Stacks /\ StackPop(s).objects = o
  BY <1>2, <1>3 DEF Stacks
<1> QED
  BY <1>4, <1>5 DEF o

Iters == [thread : Threads \cup {Nil}, current : Links, stack : Stacks]

\* One step of an iterator: it takes an entry it has not seen, unless it is at its end.
LEMMA AdvancedCovers ==
  ASSUME NEW A, NEW lo, NEW hi, NEW up, Tree(heap, A, lo, hi, up),
         NEW i \in Iters, NEW seen, Covers(A, lo, hi, i.stack.objects, seen, {})
  PROVE  /\ Advanced(i) \in Iters /\ Advanced(i).thread = i.thread
         /\ i.stack.objects = <<>> => Advanced(i).current = Nil /\ Advanced(i).stack = i.stack
         /\ i.stack.objects # <<>> =>
              /\ Advanced(i).current \in A \ seen
              /\ Covers(A, lo, hi, Advanced(i).stack.objects, seen \cup {Advanced(i).current}, {})
<1>0. i.stack \in Stacks
  BY DEF Iters
<1>1. CASE i.stack.objects = <<>>
  <2>1. Advanced(i) = [i EXCEPT !.current = Nil]
    BY <1>1 DEF Advanced, IsEmptyStack
  <2>2. Advanced(i) \in Iters /\ Advanced(i).thread = i.thread /\ Advanced(i).current = Nil
        /\ Advanced(i).stack = i.stack
    BY <2>1 DEF Iters, Links
  <2> QED
    BY <1>1, <2>2
<1>2. CASE i.stack.objects # <<>>
  <2> DEFINE s == i.stack
             e == Top(s)
             a == StackPop(s)
             l == heap.left[e]
             r == heap.right[e]
             b == Pushed(a, l)
             c == Pushed(b, r)
             bl == Below(A, lo, hi, l)
             br == Below(A, lo, hi, r)
  <2>1. Advanced(i) = [i EXCEPT !.current = e, !.stack = c]
    BY <1>2 DEF Advanced, IsEmptyStack
  <2>2. /\ a \in Stacks /\ a.objects = SubSeq(s.objects, 1, Len(s.objects) - 1)
        /\ e \in Entries /\ e = s.objects[Len(s.objects)]
    BY <1>0, <1>2, StackPops DEF IsEmptyStack, Top
  <2>3. /\ e \in A /\ e \notin seen
        /\ Covers(A, lo, hi, a.objects, seen \cup {e}, bl \cup br)
    <3> DEFINE o == s.objects
    <3>1. /\ Covers(A, lo, hi, o, seen, {}) /\ o # <<>> /\ e = o[Len(o)]
          /\ a.objects = SubSeq(o, 1, Len(o) - 1)
      BY <1>2, <2>2
    <3> HIDE DEF o, e, a
    <3>2. /\ e \in A /\ e \notin seen
          /\ Covers(A, lo, hi, SubSeq(o, 1, Len(o) - 1), seen \cup {e}, bl \cup br)
      BY <3>1, PopCovers
    <3> QED
      BY <3>1, <3>2
  <2>4. /\ bl \cap br = {} /\ l \in A \cup {Nil} /\ r \in A \cup {Nil}
    BY <2>3, BelowIs
  <2>5. A \subseteq Entries /\ Nil \notin A /\ Links = Entries \cup {Nil}
    BY EntryFacts DEF Tree, Allocated
  <2> HIDE DEF e, a, l, r
  <2>6. /\ b \in Stacks /\ b.objects = IF l = Nil THEN a.objects ELSE Append(a.objects, l)
    BY <2>2, <2>4, <2>5, StackPushes
  <2>7. Covers(A, lo, hi, b.objects, seen \cup {e}, br)
    <3>1. CASE l = Nil
      <4>1. bl = {}
        BY <3>1 DEF Below
      <4>2. bl \cup br = br
        BY <4>1
      <4> QED
        BY <2>3, <2>6, <3>1, <4>2
    <3>2. CASE l # Nil
      BY <2>3, <2>4, <2>5, <2>6, <3>2, PushCovers
    <3> QED
      BY <3>1, <3>2
  <2> HIDE DEF b
  <2>8. /\ c \in Stacks /\ c.objects = IF r = Nil THEN b.objects ELSE Append(b.objects, r)
    BY <2>4, <2>5, <2>6, StackPushes
  <2>9. Covers(A, lo, hi, c.objects, seen \cup {e}, {})
    <3>1. CASE r = Nil
      <4>1. br = {}
        BY <3>1 DEF Below
      <4> QED
        BY <2>7, <2>8, <3>1, <4>1
    <3>2. CASE r # Nil
      <4>1. br \cup {} = br
        OBVIOUS
      <4>2. Covers(A, lo, hi, b.objects, seen \cup {e}, br \cup {})
        BY <2>7, <4>1
      <4> QED
        BY <2>4, <2>5, <2>8, <3>2, <4>2, PushCovers
    <3> QED
      BY <3>1, <3>2
  <2> HIDE DEF c
  <2>10. /\ Advanced(i) \in Iters /\ Advanced(i).thread = i.thread /\ Advanced(i).current = e
         /\ Advanced(i).stack = c
    BY <2>1, <2>2, <2>5, <2>8 DEF Iters
  <2> QED
    BY <1>2, <2>3, <2>8, <2>9, <2>10
<1> QED
  BY <1>1, <1>2

\* What an iterator visited, each key once.
SeenIn(v)   == {v[i] : i \in DOMAIN v}
Distinct(v) == v \in Seq(Keys) /\ IsFiniteSet(SeenIn(v)) /\ Cardinality(SeenIn(v)) = Len(v)

\* A key that was not visited makes it one more.
LEMMA OneMoreSeen ==
  ASSUME NEW v, Distinct(v), NEW e \in Keys, e \notin SeenIn(v)
  PROVE  Distinct(v \o <<e>>) /\ SeenIn(v \o <<e>>) = SeenIn(v) \cup {e}
<1>1. v \in Seq(Keys) /\ v \o <<e>> = Append(v, e)
  BY DEF Distinct
<1>2. /\ Append(v, e) \in Seq(Keys) /\ Len(Append(v, e)) = Len(v) + 1
      /\ DOMAIN Append(v, e) = DOMAIN v \cup {Len(v) + 1}
      /\ Append(v, e)[Len(v) + 1] = e /\ Len(v) + 1 \notin DOMAIN v
      /\ \A i \in DOMAIN v : Append(v, e)[i] = v[i]
  BY <1>1, Pushing
<1> DEFINE w == Append(v, e)
<1> HIDE DEF w
<1>3. SeenIn(w) = SeenIn(v) \cup {e}
  BY <1>2 DEF SeenIn, w
<1>4. IsFiniteSet(SeenIn(v) \cup {e}) /\ Cardinality(SeenIn(v) \cup {e}) = Cardinality(SeenIn(v)) + 1
  BY FS_AddElement DEF Distinct
<1> QED
  BY <1>1, <1>2, <1>3, <1>4 DEF Distinct, w

\* Between its calls: what has been visited, and the head, has been seen, the current entry too.
Iterates(A, lo, hi, i, v) ==
  /\ Distinct(v) /\ i.current \in SeenIn(v) \cup {HeadEntry, Nil}
  /\ Covers(A, lo, hi, i.stack.objects, SeenIn(v) \cup {HeadEntry}, {})
  /\ i.current = Nil => i.stack.objects = <<>>

\* No iterator has the head entry on its stack once it has been seen.
LEMMA OnlyKeys ==
  ASSUME NEW h, NEW A, NEW lo, NEW hi, NEW up, Tree(h, A, lo, hi, up),
         NEW objects, NEW seen, HeadEntry \in seen, Covers(A, lo, hi, objects, seen, {})
  PROVE  objects \in Seq(Keys)
<1>1. objects \in Seq(A) /\ A \subseteq Entries
  BY DEF Covers, Tree, Allocated
<1>2. ASSUME NEW i \in DOMAIN objects PROVE objects[i] \in Keys
  <2>1. objects[i] \in A
    BY <1>1
  <2>2. objects[i] \in Below(A, lo, hi, objects[i])
    BY <2>1, BelowIs
  <2>3. objects[i] # HeadEntry
    BY <2>2 DEF Covers
  <2> QED
    BY <1>1, <2>1, <2>3, EntryFacts
<1>3. Len(objects) \in Nat /\ DOMAIN objects = 1..Len(objects) /\ objects = [i \in 1..Len(objects) |-> objects[i]]
  BY <1>1
<1>4. objects \in [1..Len(objects) -> Keys]
  BY <1>2, <1>3
<1> QED
  BY <1>3, <1>4

\* An iterator goes on to a key it has not visited, unless it is at its end.
LEMMA IteratesOn ==
  ASSUME NEW A, NEW lo, NEW hi, NEW up, Tree(heap, A, lo, hi, up),
         NEW i \in Iters, NEW v, Iterates(A, lo, hi, i, v)
  PROVE  /\ Advanced(i) \in Iters /\ Advanced(i).thread = i.thread
         /\ Iterates(A, lo, hi, Advanced(i), v \o Visits(Advanced(i)))
         /\ Advanced(i).current \in Keys \cup {Nil} /\ Advanced(i).stack.objects \in Seq(Keys)
<1> DEFINE n == Advanced(i)
           seen == SeenIn(v) \cup {HeadEntry}
<1>1. Distinct(v) /\ Covers(A, lo, hi, i.stack.objects, seen, {})
  BY DEF Iterates
<1>2. /\ n \in Iters /\ n.thread = i.thread
      /\ i.stack.objects = <<>> => n.current = Nil /\ n.stack = i.stack
      /\ i.stack.objects # <<>> =>
           /\ n.current \in A \ seen
           /\ Covers(A, lo, hi, n.stack.objects, seen \cup {n.current}, {})
  BY <1>1, AdvancedCovers
<1> HIDE DEF n
<1>3. v \in Seq(Keys) /\ A \subseteq Entries /\ Nil \notin Keys
  BY <1>1, EntryFacts DEF Distinct, Tree, Allocated
<1>4. CASE i.stack.objects = <<>>
  <2>1. n.current = Nil /\ n.stack = i.stack
    BY <1>2, <1>4
  <2>2. v \o Visits(n) = v
    BY <1>3, <2>1 DEF Visits
  <2>3. Iterates(A, lo, hi, n, v \o Visits(n))
    BY <1>1, <1>4, <2>1, <2>2 DEF Iterates
  <2>4. n.stack.objects \in Seq(Keys)
    <3>1. n.stack.objects = <<>> /\ <<>> \in Seq(Keys)
      BY <1>4, <2>1
    <3> QED
      BY <3>1
  <2> QED
    BY <1>2, <2>1, <2>3, <2>4 DEF n
<1>5. CASE i.stack.objects # <<>>
  <2>1. n.current \in A \ seen /\ Covers(A, lo, hi, n.stack.objects, seen \cup {n.current}, {})
    BY <1>2, <1>5
  <2>2. n.current \in Keys /\ n.current \notin SeenIn(v) /\ n.current # Nil
    BY <1>3, <2>1, EntryFacts
  <2>3. v \o Visits(n) = v \o <<n.current>>
    BY <2>2 DEF Visits
  <2>4. Distinct(v \o Visits(n)) /\ SeenIn(v \o Visits(n)) = SeenIn(v) \cup {n.current}
    BY <1>1, <2>2, <2>3, OneMoreSeen
  <2>5. seen \cup {n.current} = SeenIn(v \o Visits(n)) \cup {HeadEntry}
    BY <2>4
  <2>6. Iterates(A, lo, hi, n, v \o Visits(n))
    BY <2>1, <2>2, <2>4, <2>5 DEF Iterates
  <2>7. n.stack.objects \in Seq(Keys)
    BY <2>1, OnlyKeys
  <2> QED
    BY <1>2, <2>2, <2>6, <2>7 DEF n
<1> QED
  BY <1>4, <1>5

\* A new iterator has the head entry on its stack.
LEMMA FirstIterator ==
  ASSUME NEW t \in Threads
  PROVE  LET i == [thread |-> t, current |-> Nil, stack |-> StackPush(StackCreate, HeadEntry)]
         IN  i \in Iters /\ i.thread = t /\ i.stack.objects = <<HeadEntry>>
<1> DEFINE s == StackPush(StackCreate, HeadEntry)
<1>1. s.objects = <<HeadEntry>> /\ s.slots = 2 /\ s \in Stacks
  <2>1. s = [objects |-> <<HeadEntry>>, slots |-> 2]
    BY DEF StackPush, StackCreate, Full
  <2>2. <<HeadEntry>> \in Seq(Entries)
    BY EntryFacts
  <2> QED
    BY <2>1, <2>2 DEF Stacks
<1> HIDE DEF s
<1> QED
  BY <1>1 DEF Iters, Links, s

\* The head entry is taken first, and nobody told.
LEMMA IteratesFirst ==
  ASSUME NEW A, NEW lo, NEW hi, NEW up, Tree(heap, A, lo, hi, up),
         NEW i \in Iters, i.stack.objects = <<HeadEntry>>
  PROVE  LET n == Advanced(Advanced(i))
         IN  /\ n \in Iters /\ n.thread = i.thread
             /\ Iterates(A, lo, hi, n, Visits(n))
             /\ n.current \in Keys \cup {Nil} /\ n.stack.objects \in Seq(Keys)
<1> DEFINE m == Advanced(i)
           n == Advanced(m)
           o == i.stack.objects
<1>1. /\ A \subseteq Entries /\ HeadEntry \in A /\ Nil \notin A
      /\ Below(A, lo, hi, HeadEntry) = A
  BY EntryFacts, BelowHead DEF Tree, Allocated
<1>2. o # <<>> /\ Top(i.stack) = HeadEntry
  <2>1. <<HeadEntry>> # <<>> /\ <<HeadEntry>>[Len(<<HeadEntry>>)] = HeadEntry
    OBVIOUS
  <2> QED
    BY <2>1 DEF Top
<1>3. Covers(A, lo, hi, o, {}, {})
  <2>1. Covers(A, lo, hi, <<>>, {}, A)
    BY DEF Covers
  <2>2. Covers(A, lo, hi, <<>>, {}, Below(A, lo, hi, HeadEntry) \cup {})
    BY <1>1, <2>1
  <2>3. Covers(A, lo, hi, Append(<<>>, HeadEntry), {}, {})
    BY <1>1, <2>2, PushCovers
  <2>4. Append(<<>>, HeadEntry) = <<HeadEntry>>
    OBVIOUS
  <2> QED
    BY <2>3, <2>4
<1>4. m.current = HeadEntry
  <2>1. m = [i EXCEPT !.current = Top(i.stack),
                      !.stack = Pushed(Pushed(StackPop(i.stack), heap.left[Top(i.stack)]),
                                       heap.right[Top(i.stack)])]
    BY <1>2 DEF Advanced, IsEmptyStack
  <2> QED
    BY <1>2, <2>1 DEF Iters
<1> HIDE DEF m, o
<1>5. /\ m \in Iters /\ m.thread = i.thread
      /\ Covers(A, lo, hi, m.stack.objects, {m.current}, {})
  <2>1. Covers(A, lo, hi, i.stack.objects, {}, {}) /\ i.stack.objects # <<>>
    BY <1>2, <1>3 DEF o
  <2>2. /\ m \in Iters /\ m.thread = i.thread
        /\ Covers(A, lo, hi, m.stack.objects, {} \cup {m.current}, {})
    <3> DEFINE seen == {}
    <3>1. Covers(A, lo, hi, i.stack.objects, seen, {}) /\ i.stack.objects # <<>>
      BY <2>1
    <3> HIDE DEF seen
    <3>2. /\ Advanced(i) \in Iters /\ Advanced(i).thread = i.thread
          /\ i.stack.objects = <<>> => Advanced(i).current = Nil /\ Advanced(i).stack = i.stack
          /\ i.stack.objects # <<>> =>
               /\ Advanced(i).current \in A \ seen
               /\ Covers(A, lo, hi, Advanced(i).stack.objects, seen \cup {Advanced(i).current}, {})
      BY <3>1, AdvancedCovers
    <3> QED
      BY <3>1, <3>2 DEF m, seen
  <2>3. {} \cup {m.current} = {m.current}
    OBVIOUS
  <2> QED
    BY <2>2, <2>3
<1>6. Iterates(A, lo, hi, m, <<>>)
  <2>1. SeenIn(<<>>) = {} /\ Distinct(<<>>)
    BY FS_EmptySet DEF SeenIn, Distinct
  <2>2. SeenIn(<<>>) \cup {HeadEntry} = {m.current}
    BY <1>4, <2>1
  <2>3. m.current # Nil
    BY <1>1, <1>4
  <2> QED
    BY <1>5, <2>1, <2>2, <2>3 DEF Iterates
<1>7. /\ n \in Iters /\ n.thread = m.thread
      /\ Iterates(A, lo, hi, n, <<>> \o Visits(n))
      /\ n.current \in Keys \cup {Nil} /\ n.stack.objects \in Seq(Keys)
  <2> DEFINE v == <<>>
  <2> HIDE DEF v
  <2>1. Iterates(A, lo, hi, m, v)
    BY <1>6 DEF v
  <2>2. /\ n \in Iters /\ n.thread = m.thread
        /\ Iterates(A, lo, hi, n, v \o Visits(n))
        /\ n.current \in Keys \cup {Nil} /\ n.stack.objects \in Seq(Keys)
    BY ONLY Tree(heap, A, lo, hi, up), <1>5, <2>1, IteratesOn
  <2> QED
    BY <2>2 DEF v
<1>8. <<>> \o Visits(n) = Visits(n)
  <2>1. Visits(n) \in Seq(Keys)
    BY <1>7 DEF Visits
  <2> QED
    BY <2>1
<1> QED
  BY <1>5, <1>7, <1>8 DEF m

------------------------------------------------------------------------------
(* The inductive invariant. *)

\* The entries of the keys that were set and not removed are the tree, each with its value,
\* and the iterator in use has been or will come by every one of them.
TreeOf(c) == {k \in Keys : c[k] # Nil} \cup {HeadEntry}

Shape(h, c, i, v) ==
  /\ \A k \in Keys : h.value[k] = c[k]
  /\ \E lo, hi, up : /\ Tree(h, TreeOf(c), lo, hi, up)
                     /\ i.thread # Nil => Iterates(TreeOf(c), lo, hi, i, v)

TypesInv ==
  /\ heap \in Heaps /\ dictCount \in Nat /\ owned \in BOOLEAN /\ locked \in BOOLEAN
  /\ holder \in Threads \cup {Nil} /\ iterators \in 0..MaxIterators
  /\ iter \in Iters /\ iter.current \in Keys \cup {Nil} /\ iter.stack.objects \in Seq(Keys)
  /\ contents \in [Keys -> Values \cup {Nil}]

\* The dictionary counts its creator, its Lock and, twice, its iterators, and the one that
\* is in use has the mutex.
MutexInv ==
  /\ dictCount = (IF owned THEN 1 ELSE 0) + (IF locked THEN 1 ELSE 0) + 2 * iterators
  /\ iter.thread # Nil => holder = iter.thread /\ iterators > 0

HeapInv == IF dictCount > 0 THEN Shape(heap, contents, iter, visited) ELSE AllFreed(heap)

IInv == TypesInv /\ MutexInv /\ HeapInv

\* When nobody iterates.
LEMMA NoIteratorFacts ==
  /\ NoIterator \in Iters /\ NoIterator.thread = Nil /\ NoIterator.current = Nil
  /\ NoIterator.stack.objects \in Seq(Keys)
<1>1. StackCreate = [objects |-> <<>>, slots |-> 2]
  BY DEF StackCreate
<1>2. <<>> \in Seq(Entries) /\ <<>> \in Seq(Keys) /\ Len(<<>>) = 0
  OBVIOUS
<1>3. StackCreate \in Stacks /\ StackCreate.objects \in Seq(Keys)
  BY <1>1, <1>2 DEF Stacks
<1> QED
  BY <1>3 DEF NoIterator, Iters, Links

\* An empty dictionary is a tree that is the head entry alone.
LEMMA InitInv == Init => IInv
<1> SUFFICES ASSUME Init PROVE IInv
  OBVIOUS
<1> DEFINE A == TreeOf(contents)
           rc == [e \in Entries |-> IF e = HeadEntry THEN 1 ELSE 0]
           none == [e \in Entries |-> Nil]
<1>1. /\ heap = [left |-> none, right |-> none, value |-> none, retainCount |-> rc]
      /\ contents = [k \in Keys |-> Nil] /\ iter = NoIterator
      /\ dictCount = 1 /\ owned = TRUE /\ locked = FALSE /\ holder = Nil /\ iterators = 0
  BY DEF Init
<1>2. heap \in Heaps
  <2>1. rc \in [Entries -> Int] /\ none \in [Entries -> Links] /\ none \in [Entries -> Values \cup {Nil}]
    BY DEF Links
  <2> QED
    BY <1>1, <2>1 DEF Heaps
<1>3. TypesInv
  <2>1. contents \in [Keys -> Values \cup {Nil}]
    BY <1>1
  <2>2. /\ iter \in Iters /\ iter.current \in Keys \cup {Nil}
        /\ iter.stack.objects \in Seq(Keys)
    BY <1>1, NoIteratorFacts
  <2>3. /\ dictCount \in Nat /\ owned \in BOOLEAN /\ locked \in BOOLEAN
        /\ holder \in Threads \cup {Nil} /\ iterators \in 0..MaxIterators
    <3>1. MaxIterators \in Nat /\ 0 \in 0..MaxIterators
      BY DictionaryAssumption
    <3>2. dictCount = 1 /\ owned = TRUE /\ locked = FALSE /\ holder = Nil /\ iterators = 0
      BY <1>1
    <3>3. dictCount \in Nat /\ iterators \in 0..MaxIterators
      BY <3>1, <3>2
    <3> QED
      BY <3>2, <3>3
  <2> QED
    BY <1>2, <2>1, <2>2, <2>3 DEF TypesInv
<1>4. MutexInv
  BY <1>1, NoIteratorFacts DEF MutexInv
<1>5. A = {HeadEntry} /\ HeadEntry \in Entries
  BY <1>1, EntryFacts DEF TreeOf
<1>6. /\ heap.left = none /\ heap.right = none /\ heap.value = none /\ heap.retainCount = rc
  BY <1>1
<1>7. \A e \in Entries : /\ heap.left[e] = Nil /\ heap.right[e] = Nil /\ heap.value[e] = Nil
                         /\ heap.retainCount[e] = IF e = HeadEntry THEN 1 ELSE 0
  BY <1>6
<1> HIDE DEF A
<1>8. Allocated(heap, A)
  BY <1>2, <1>5, <1>7 DEF Allocated
<1>9. PICK b \in Nat : \A e \in Entries : e < b
  BY EntriesBounded
<1> DEFINE lo == [e \in Entries |-> -1]
           hi == [e \in Entries |-> b]
           up == [e \in Entries |-> HeadEntry]
<1>10. Ranges(A, lo, hi)
  <2>1. /\ lo \in [Entries -> Int] /\ hi \in [Entries -> Int]
        /\ \A e \in Entries : lo[e] = -1 /\ hi[e] = b
    OBVIOUS
  <2>2. \A e \in Entries : e \in Nat /\ -1 < e /\ e < b
    BY <1>9, EntryFacts
  <2> HIDE DEF lo, hi
  <2> QED
    BY <1>5, <2>1, <2>2 DEF Ranges
<1>11. Branches(heap, A, lo, hi, up)
  BY <1>5, <1>7 DEF Branches
<1>12. HeapInv
  <2>1. Tree(heap, A, lo, hi, up)
    BY <1>8, <1>10, <1>11 DEF Tree
  <2> HIDE DEF lo, hi, up
  <2>2. \A k \in Keys : heap.value[k] = contents[k]
    BY <1>1, <1>7, EntryFacts
  <2>3. iter.thread = Nil
    BY <1>1, NoIteratorFacts
  <2>4. Shape(heap, contents, iter, visited)
    BY <2>1, <2>2, <2>3 DEF Shape, A
  <2> QED
    BY <1>1, <2>4 DEF HeapInv
<1> QED
  BY <1>3, <1>4, <1>12 DEF IInv

\* A call that is outside every iteration.
LEMMA CallsOutside ==
  ASSUME IInv, NEW t \in Threads, MayLock(t), iter.thread # t
  PROVE  iter.thread = Nil /\ owned /\ dictCount > 0
<1>1. iter.thread # Nil => holder = iter.thread
  BY DEF IInv, MutexInv
<1>2. owned /\ holder \in {Nil, t}
  BY DEF MayLock
<1>3. t # Nil
  BY DictionaryAssumption
<1>4. iterators \in Nat /\ MaxIterators \in Nat
  BY DictionaryAssumption DEF IInv, TypesInv
<1>5. dictCount > 0
  BY <1>2, <1>4 DEF IInv, MutexInv
<1> QED
  BY <1>1, <1>2, <1>3, <1>5

\* The value of an entry is not a part of the tree.
Valued(h, k, v) == [h EXCEPT !.value[k] = v]

\* The tree is the same for every value of an entry.
LEMMA ValuedTree ==
  ASSUME NEW h, NEW A, NEW lo, NEW hi, NEW up, Tree(h, A, lo, hi, up),
         NEW k \in A, NEW v \in Values
  PROVE  /\ Tree(Valued(h, k, v), A, lo, hi, up)
         /\ \A x \in Entries : Valued(h, k, v).value[x] = IF x = k THEN v ELSE h.value[x]
<1> DEFINE n == Valued(h, k, v)
<1>1. /\ h \in Heaps /\ k \in Entries
  BY DEF Tree, Allocated
<1>2. /\ h.left \in [Entries -> Links] /\ h.right \in [Entries -> Links]
      /\ h.value \in [Entries -> Values \cup {Nil}] /\ h.retainCount \in [Entries -> Int]
  BY <1>1, HeapParts
<1> DEFINE w == [h.value EXCEPT ![k] = v]
<1>3. n = [h EXCEPT !.value = w] /\ w \in [Entries -> Values \cup {Nil}]
  BY <1>1, <1>2 DEF Heaps, Valued
<1>4. \A e \in Entries : w[e] = IF e = k THEN v ELSE h.value[e]
  BY <1>2
<1> HIDE DEF w, n
<1>5. /\ n \in Heaps /\ n.left = h.left /\ n.right = h.right
      /\ n.value = w /\ n.retainCount = h.retainCount
  BY <1>1, <1>3 DEF Heaps
<1>6. Allocated(n, A)
  BY <1>4, <1>5 DEF Tree, Allocated
<1>7. Branches(n, A, lo, hi, up)
  BY <1>5 DEF Tree, Branches
<1> QED
  BY <1>4, <1>5, <1>6, <1>7 DEF Tree, n

\* DictionarySet keeps the invariant: it changes a value, inserts a key or does nothing.
LEMMA SetInv ==
  ASSUME IInv, NEW t \in Threads, NEW k \in Keys, NEW v \in Values, DictionarySet(t, k, v)
  PROVE  IInv'
<1> DEFINE A == TreeOf(contents)
<1>1. /\ iter.thread = Nil /\ dictCount > 0
      /\ UNCHANGED <<dictCount, owned, holder, locked, iterators, iter, visited>>
  BY CallsOutside DEF DictionarySet, Calls
<1>2. /\ heap \in Heaps /\ contents \in [Keys -> Values \cup {Nil}]
      /\ \A x \in Keys : heap.value[x] = contents[x]
  BY <1>1 DEF IInv, TypesInv, HeapInv, Shape
<1>3. PICK lo, hi, up : Tree(heap, A, lo, hi, up)
  BY <1>1 DEF IInv, HeapInv, Shape
<1>4. Find(heap, k) = k <=> k \in A
  BY <1>3, FindIs
<1>5. k \in Entries /\ k # HeadEntry /\ v # Nil /\ Keys \subseteq Entries
  BY EntryFacts, DictionaryAssumption
<1>6. heap.value \in [Entries -> Values \cup {Nil}]
  BY <1>2, HeapParts
<1>7. contents' \in [Keys -> Values \cup {Nil}] /\ heap' \in Heaps /\ Shape(heap', contents', iter, visited)
  <2>1. CASE contents' = contents /\ heap' = heap
    BY <1>1, <1>2, <1>3, <2>1 DEF Shape
  <2>2. ASSUME contents' = [contents EXCEPT ![k] = v], NEW L, NEW H, NEW U,
               Tree(heap', A \cup {k}, L, H, U),
               \A x \in Keys : heap'.value[x] = IF x = k THEN v ELSE heap.value[x]
        PROVE  contents' \in [Keys -> Values \cup {Nil}] /\ heap' \in Heaps
               /\ Shape(heap', contents', iter, visited)
    <3>1. /\ contents' \in [Keys -> Values \cup {Nil}]
          /\ \A x \in Keys : contents'[x] = IF x = k THEN v ELSE contents[x]
      BY <1>2, <2>2
    <3>2. TreeOf(contents') = A \cup {k}
      BY <1>5, <3>1 DEF TreeOf
    <3>3. \A x \in Keys : heap'.value[x] = contents'[x]
      BY <1>2, <2>2, <3>1
    <3>4. heap' \in Heaps
      BY <2>2 DEF Tree, Allocated
    <3>5. Tree(heap', TreeOf(contents'), L, H, U)
      BY <2>2, <3>2
    <3> QED
      BY <1>1, <3>1, <3>3, <3>4, <3>5 DEF Shape
  <2>3. CASE Find(heap, k) = k /\ heap' = [heap EXCEPT !.value[k] = v]
             /\ contents' = [contents EXCEPT ![k] = v]
    <3>1. k \in A /\ A \cup {k} = A
      BY <1>4, <2>3
    <3>2. /\ Tree(heap', A \cup {k}, lo, hi, up)
          /\ \A x \in Keys : heap'.value[x] = IF x = k THEN v ELSE heap.value[x]
      <4> HIDE DEF A
      <4> DEFINE n == Valued(heap, k, v)
      <4>1. heap' = n
        BY <2>3 DEF Valued
      <4>2. /\ Tree(n, A, lo, hi, up)
            /\ \A x \in Entries : n.value[x] = IF x = k THEN v ELSE heap.value[x]
        BY <1>3, <3>1, ValuedTree
      <4> HIDE DEF n
      <4> QED
        BY <1>5, <3>1, <4>1, <4>2
    <3> QED
      BY <2>2, <2>3, <3>2
  <2>4. CASE Find(heap, k) # k /\ heap' = Inserted(heap, k, v)
             /\ contents' = [contents EXCEPT ![k] = v]
    <3>1. k \notin A
      BY <1>4, <2>4
    <3> HIDE DEF A
    <3>2. \A x \in Keys : heap'.value[x] = IF x = k THEN v ELSE heap.value[x]
      <4> DEFINE e == Find(heap, k)
                 n == Inserted(heap, k, v)
      <4>1. heap' = n
        BY <2>4
      <4>2. /\ n \in Heaps
            /\ n.left = IF e < k THEN [heap.left EXCEPT ![e] = k] ELSE heap.left
            /\ n.right = IF e < k THEN heap.right ELSE [heap.right EXCEPT ![e] = k]
            /\ n.value = [heap.value EXCEPT ![k] = v]
            /\ \A x \in Entries : n.retainCount[x] = IF x = k THEN 1 ELSE heap.retainCount[x]
        BY <1>3, <3>1, InsertedParts
      <4> HIDE DEF n
      <4> QED
        BY <1>5, <1>6, <4>1, <4>2
    <3>3. PICK L, H, U : Tree(heap', A \cup {k}, L, H, U)
      BY <1>3, <2>4, <3>1, InsertedTree
    <3> QED
      BY <2>2, <2>4, <3>2, <3>3
  <2> QED
    BY <2>1, <2>3, <2>4 DEF DictionarySet
<1>8. TypesInv'
  BY <1>1, <1>7 DEF IInv, TypesInv
<1>9. MutexInv'
  BY <1>1 DEF IInv, MutexInv
<1>10. HeapInv'
  BY <1>1, <1>7 DEF HeapInv
<1> QED
  BY <1>8, <1>9, <1>10 DEF IInv

\* DictionaryRemove keeps the invariant.
LEMMA RemoveInv ==
  ASSUME IInv, NEW t \in Threads, NEW k \in Keys, DictionaryRemove(t, k)
  PROVE  IInv'
<1> DEFINE A == TreeOf(contents)
<1>1. /\ iter.thread = Nil /\ dictCount > 0
      /\ UNCHANGED <<dictCount, owned, holder, locked, iterators, iter, visited>>
      /\ contents' = [contents EXCEPT ![k] = Nil]
      /\ heap' = IF Find(heap, k) = k THEN Removed(heap, k) ELSE heap
  BY CallsOutside DEF DictionaryRemove, Calls
<1>2. /\ heap \in Heaps /\ contents \in [Keys -> Values \cup {Nil}]
      /\ \A x \in Keys : heap.value[x] = contents[x]
  BY <1>1 DEF IInv, TypesInv, HeapInv, Shape
<1>3. PICK lo, hi, up : Tree(heap, A, lo, hi, up)
  BY <1>1 DEF IInv, HeapInv, Shape
<1>4. Find(heap, k) = k <=> k \in A
  BY <1>3, FindIs
<1>5. k \in Entries /\ k # HeadEntry /\ Keys \subseteq Entries
  BY EntryFacts
<1>6. /\ contents' \in [Keys -> Values \cup {Nil}]
      /\ \A x \in Keys : contents'[x] = IF x = k THEN Nil ELSE contents[x]
  BY <1>1, <1>2
<1>7. TreeOf(contents') = A \ {k}
  BY <1>5, <1>6 DEF TreeOf
<1>8. \E L, H, U : Tree(heap', A \ {k}, L, H, U)
  <2>1. CASE k \in A
    BY <1>1, <1>3, <1>4, <1>5, <2>1, RemovedTree
  <2>2. CASE k \notin A
    <3>1. A \ {k} = A
      BY <2>2
    <3> QED
      BY <1>1, <1>3, <1>4, <2>2, <3>1
  <2> QED
    BY <2>1, <2>2
<1>9. \A x \in Keys : heap'.value[x] = contents'[x]
  <2>1. CASE k \in A
    <3>1. PICK s, q : Unlinked(heap, heap', k, up[k], s, q)
      <4>1. heap' = Removed(heap, k) /\ k \in A \ {HeadEntry}
        BY <1>1, <1>4, <1>5, <2>1
      <4> HIDE DEF A
      <4> QED
        BY <1>3, <4>1, RemovedParts
    <3> QED
      BY <1>2, <1>5, <1>6, <3>1 DEF Unlinked
  <2>2. CASE k \notin A
    <3>1. contents[k] = Nil
      BY <2>2 DEF TreeOf
    <3> QED
      BY <1>1, <1>2, <1>4, <1>6, <2>2, <3>1
  <2> QED
    BY <2>1, <2>2
<1> HIDE DEF A
<1>10. heap' \in Heaps
  BY <1>8 DEF Tree, Allocated
<1>11. Shape(heap', contents', iter, visited)
  BY <1>1, <1>7, <1>8, <1>9 DEF Shape
<1>12. TypesInv'
  BY <1>1, <1>6, <1>10 DEF IInv, TypesInv
<1>13. MutexInv'
  BY <1>1 DEF IInv, MutexInv
<1>14. HeapInv'
  BY <1>1, <1>11 DEF HeapInv
<1> QED
  BY <1>12, <1>13, <1>14 DEF IInv

\* The last reference to the dictionary frees every entry; another one nothing.
LEMMA ReleaseDictionaryInv ==
  ASSUME TypesInv, HeapInv, NEW n \in Nat \ {0}, n <= dictCount, ReleaseDictionary(n),
         contents' = contents,
         (iter' = iter /\ visited' = visited) \/ iter'.thread = Nil
  PROVE  dictCount' \in Nat /\ heap' \in Heaps /\ HeapInv'
<1>1. /\ dictCount \in Nat /\ heap \in Heaps /\ dictCount > 0
      /\ Shape(heap, contents, iter, visited)
  BY DEF TypesInv, HeapInv
<1>2. PICK lo, hi, up : Tree(heap, TreeOf(contents), lo, hi, up)
  BY <1>1 DEF Shape
<1>3. dictCount' = dictCount - n /\ dictCount' \in Nat
  BY <1>1 DEF ReleaseDictionary
<1>4. CASE dictCount = n
  <2>1. heap' = Released(heap, HeadEntry) /\ dictCount' = 0
    BY <1>3, <1>4 DEF ReleaseDictionary
  <2>2. heap' \in Heaps /\ AllFreed(heap')
    BY <1>2, <2>1, ReleasedHead
  <2> QED
    BY <1>3, <2>1, <2>2 DEF HeapInv
<1>5. CASE dictCount # n
  <2>1. heap' = heap /\ dictCount' > 0
    BY <1>1, <1>3, <1>5 DEF ReleaseDictionary
  <2>2. Shape(heap', contents', iter', visited')
    BY <1>1, <2>1 DEF Shape
  <2> QED
    BY <1>1, <1>3, <2>1, <2>2 DEF HeapInv
<1> QED
  BY <1>4, <1>5

\* The calls about the mutex and the last release keep it.
LEMMA MutexCallsInv ==
  ASSUME IInv, Release \/ \E t \in Threads : Lock(t) \/ Unlock(t)
  PROVE  IInv'
<1>1. /\ TypesInv /\ MutexInv /\ HeapInv /\ iterators \in Nat
  BY DEF IInv, TypesInv
<1>2. ASSUME NEW t \in Threads, Lock(t) PROVE IInv'
  <2>1. dictCount > 0 /\ iter.thread = Nil
    BY <1>2, CallsOutside DEF Lock
  <2>2. TypesInv'
    BY <1>1, <1>2 DEF Lock, TypesInv
  <2>3. MutexInv'
    BY <1>1, <1>2, <2>1 DEF Lock, MutexInv, TypesInv
  <2>4. HeapInv'
    BY <1>1, <1>2, <2>1 DEF Lock, HeapInv, TypesInv
  <2> QED
    BY <2>2, <2>3, <2>4 DEF IInv
<1>3. ASSUME NEW t \in Threads, Unlock(t) PROVE IInv'
  <2>1. dictCount > 0 /\ locked
    BY <1>1, <1>3 DEF Unlock, MutexInv, TypesInv
  <2>2. dictCount' \in Nat /\ heap' \in Heaps /\ HeapInv'
    <3>1. 1 \in Nat \ {0} /\ 1 <= dictCount
      BY <1>1, <2>1 DEF TypesInv
    <3>2. ReleaseDictionary(1) /\ contents' = contents /\ iter' = iter /\ visited' = visited
      BY <1>3 DEF Unlock
    <3> QED
      BY <1>1, <3>1, <3>2, ReleaseDictionaryInv
  <2>3. TypesInv'
    BY <1>1, <1>3, <2>2 DEF Unlock, TypesInv
  <2>4. MutexInv'
    BY <1>1, <1>3, <2>1 DEF Unlock, MutexInv, TypesInv, ReleaseDictionary
  <2> QED
    BY <2>2, <2>3, <2>4 DEF IInv
<1>4. CASE Release
  <2>1. dictCount > 0 /\ owned
    BY <1>1, <1>4 DEF Release, MutexInv, TypesInv
  <2>2. dictCount' \in Nat /\ heap' \in Heaps /\ HeapInv'
    <3>1. 1 \in Nat \ {0} /\ 1 <= dictCount
      BY <1>1, <2>1 DEF TypesInv
    <3>2. ReleaseDictionary(1) /\ contents' = contents /\ iter' = iter /\ visited' = visited
      BY <1>4 DEF Release
    <3> QED
      BY <1>1, <3>1, <3>2, ReleaseDictionaryInv
  <2>3. TypesInv'
    BY <1>1, <1>4, <2>2 DEF Release, TypesInv
  <2>4. MutexInv'
    BY <1>1, <1>4, <2>1 DEF Release, MutexInv, TypesInv, ReleaseDictionary
  <2> QED
    BY <2>2, <2>3, <2>4 DEF IInv
<1> QED
  BY <1>2, <1>3, <1>4

\* A new iterator is at its first key, and has the mutex.
LEMMA GetIteratorInv ==
  ASSUME IInv, NEW t \in Threads, GetIterator(t)
  PROVE  IInv'
<1> DEFINE i == [thread |-> t, current |-> Nil, stack |-> StackPush(StackCreate, HeadEntry)]
           n == Advanced(Advanced(i))
<1>1. /\ dictCount > 0 /\ iter.thread = Nil /\ owned
      /\ iterators < MaxIterators /\ iterators \in Nat /\ t # Nil /\ dictCount \in Nat
      /\ MaxIterators \in Nat
  BY CallsOutside, DictionaryAssumption DEF GetIterator, IInv, TypesInv
<1>2. /\ holder' = t /\ dictCount' = dictCount + 2 /\ iterators' = iterators + 1
      /\ iter' = n /\ visited' = Visits(n)
      /\ UNCHANGED <<heap, owned, locked, contents>>
  BY DEF GetIterator
<1>3. /\ \A k \in Keys : heap.value[k] = contents[k]
      /\ \E lo, hi, up : Tree(heap, TreeOf(contents), lo, hi, up)
  BY <1>1 DEF IInv, HeapInv, Shape
<1>4. PICK lo, hi, up : Tree(heap, TreeOf(contents), lo, hi, up)
  BY <1>3
<1>5. i \in Iters /\ i.thread = t /\ i.stack.objects = <<HeadEntry>>
  BY FirstIterator
<1> HIDE DEF i
<1>6. /\ n \in Iters /\ n.thread = t
      /\ Iterates(TreeOf(contents), lo, hi, n, Visits(n))
      /\ n.current \in Keys \cup {Nil} /\ n.stack.objects \in Seq(Keys)
  BY <1>4, <1>5, IteratesFirst
<1> HIDE DEF n
<1>7. TypesInv'
  BY <1>1, <1>2, <1>6 DEF IInv, TypesInv
<1>8. MutexInv'
  <2>1. /\ dictCount = (IF owned THEN 1 ELSE 0) + (IF locked THEN 1 ELSE 0) + 2 * iterators
        /\ dictCount' = dictCount + 2 /\ iterators' = iterators + 1 /\ iterators \in Nat
        /\ owned' = owned /\ locked' = locked
    BY <1>1, <1>2 DEF IInv, MutexInv
  <2>2. /\ dictCount' = (IF owned' THEN 1 ELSE 0) + (IF locked' THEN 1 ELSE 0) + 2 * iterators'
        /\ iterators' > 0
    BY <2>1
  <2>3. holder' = iter'.thread
    BY <1>2, <1>6
  <2> QED
    BY <2>2, <2>3 DEF MutexInv
<1>9. HeapInv'
  <2>1. Shape(heap, contents, n, Visits(n))
    BY <1>3, <1>4, <1>6 DEF Shape
  <2>2. dictCount' > 0
    BY <1>1, <1>2
  <2> QED
    BY <1>2, <2>1, <2>2 DEF HeapInv
<1> QED
  BY <1>7, <1>8, <1>9 DEF IInv

\* The calls of the iterator in use.
LEMMA IteratorInv ==
  ASSUME IInv, NEW t \in Threads, IteratorNext(t) \/ IteratorDealloc(t) \/ IteratorLeaked(t)
  PROVE  IInv'
<1>1. /\ TypesInv /\ MutexInv /\ HeapInv /\ iterators \in Nat /\ t # Nil /\ iter.thread = t
      /\ iter.thread # Nil /\ dictCount \in Nat
  BY DictionaryAssumption DEF IInv, TypesInv, IteratorNext, IteratorDealloc, IteratorLeaked
<1>2. /\ holder = t /\ iterators > 0 /\ dictCount >= 2
      /\ dictCount = (IF owned THEN 1 ELSE 0) + (IF locked THEN 1 ELSE 0) + 2 * iterators
  BY <1>1 DEF MutexInv, TypesInv
<1>3. Shape(heap, contents, iter, visited)
  BY <1>1, <1>2 DEF HeapInv
<1>4. CASE IteratorNext(t)
  <2> DEFINE n == Advanced(iter)
             v == visited \o Visits(n)
  <2>1. /\ iter' = n /\ visited' = v
        /\ UNCHANGED <<heap, dictCount, owned, holder, locked, iterators, contents>>
    BY <1>4 DEF IteratorNext
  <2>2. PICK lo, hi, up : /\ Tree(heap, TreeOf(contents), lo, hi, up)
                          /\ Iterates(TreeOf(contents), lo, hi, iter, visited)
    BY <1>1, <1>3 DEF Shape
  <2>3. /\ n \in Iters /\ n.thread = iter.thread
        /\ Iterates(TreeOf(contents), lo, hi, n, v)
        /\ n.current \in Keys \cup {Nil} /\ n.stack.objects \in Seq(Keys)
    BY <1>1, <2>2, IteratesOn DEF TypesInv
  <2> HIDE DEF n, v
  <2>4. TypesInv'
    BY <1>1, <2>1, <2>3 DEF TypesInv
  <2>5. MutexInv'
    BY <1>1, <2>1, <2>3 DEF MutexInv
  <2>6. Shape(heap, contents, n, v)
    BY <1>3, <2>2, <2>3 DEF Shape
  <2>7. HeapInv'
    BY <1>2, <2>1, <2>6 DEF HeapInv
  <2> QED
    BY <2>4, <2>5, <2>7 DEF IInv
<1>5. CASE IteratorDealloc(t)
  <2>1. /\ iter' = NoIterator /\ iterators' = iterators - 1 /\ ReleaseDictionary(2)
        /\ holder' \in {Nil, t} /\ UNCHANGED <<owned, locked, contents>>
    BY <1>5 DEF IteratorDealloc
  <2>2. dictCount' \in Nat /\ heap' \in Heaps /\ HeapInv'
    <3>1. 2 \in Nat \ {0} /\ 2 <= dictCount
      BY <1>1, <1>2
    <3>2. iter'.thread = Nil
      BY <2>1, NoIteratorFacts
    <3> QED
      BY <1>1, <2>1, <3>1, <3>2, ReleaseDictionaryInv
  <2>3. iterators' \in 0..MaxIterators
    <3>1. MaxIterators \in Nat /\ iterators \in 0..MaxIterators
      BY <1>1, DictionaryAssumption DEF TypesInv
    <3> QED
      BY <1>1, <1>2, <2>1, <3>1
  <2>4. TypesInv'
    BY <1>1, <2>1, <2>2, <2>3, NoIteratorFacts DEF TypesInv
  <2>5. MutexInv'
    <3>1. dictCount' = (IF owned' THEN 1 ELSE 0) + (IF locked' THEN 1 ELSE 0) + 2 * iterators'
      BY <1>1, <1>2, <2>1 DEF ReleaseDictionary
    <3> QED
      BY <2>1, <3>1, NoIteratorFacts DEF MutexInv
  <2> QED
    BY <2>2, <2>4, <2>5 DEF IInv
<1>6. CASE IteratorLeaked(t)
  <2>1. /\ iter' = NoIterator
        /\ UNCHANGED <<heap, dictCount, owned, holder, locked, iterators, contents>>
    BY <1>6 DEF IteratorLeaked
  <2>2. TypesInv'
    BY <1>1, <2>1, NoIteratorFacts DEF TypesInv
  <2>3. MutexInv'
    BY <1>1, <2>1, NoIteratorFacts DEF MutexInv
  <2>4. Shape(heap, contents, NoIterator, visited')
    BY <1>3, NoIteratorFacts DEF Shape
  <2>5. HeapInv'
    BY <1>2, <2>1, <2>4 DEF HeapInv
  <2> QED
    BY <2>2, <2>3, <2>5 DEF IInv
<1> QED
  BY <1>1, <1>4, <1>5, <1>6

\* Every step keeps the invariant.
LEMMA NextInv == IInv /\ [Next]_vars => IInv'
<1> SUFFICES ASSUME IInv, [Next]_vars PROVE IInv'
  OBVIOUS
<1>1. CASE \E t \in Threads, k \in Keys : DictionaryRemove(t, k)
  BY <1>1, RemoveInv
<1>2. CASE \E t \in Threads, k \in Keys, v \in Values : DictionarySet(t, k, v)
  BY <1>2, SetInv
<1>3. CASE \E t \in Threads : Lock(t) \/ Unlock(t)
  BY <1>3, MutexCallsInv
<1>4. CASE \E t \in Threads : GetIterator(t)
  BY <1>4, GetIteratorInv
<1>5. CASE \E t \in Threads : IteratorNext(t) \/ IteratorDealloc(t) \/ IteratorLeaked(t)
  BY <1>5, IteratorInv
<1>6. CASE Release
  BY <1>6, MutexCallsInv
<1>7. CASE UNCHANGED vars
  BY <1>7 DEF vars, IInv, TypesInv, MutexInv, HeapInv
<1> QED
  BY <1>1, <1>2, <1>3, <1>4, <1>5, <1>6, <1>7 DEF Next, Forgotten

------------------------------------------------------------------------------
(* The theorems. *)

\* The invariant of Dictionary holds.
THEOREM InductiveInvariant == Spec => []IInv
BY InitInv, NextInv, PTL DEF Spec

\* GetAgrees: a lookup finds what the last set of the key gave it.
LEMMA GetAgreesHolds == IInv => GetAgrees
<1> SUFFICES ASSUME IInv, dictCount > 0, NEW k \in Keys
             PROVE  DictionaryGet(heap, k) = contents[k]
  BY DEF GetAgrees
<1> DEFINE A == TreeOf(contents)
<1>1. PICK lo, hi, up : Tree(heap, A, lo, hi, up)
  BY DEF IInv, HeapInv, Shape
<1>2. heap.value[k] = contents[k]
  BY DEF IInv, HeapInv, Shape
<1>3. Find(heap, k) = k <=> k \in A
  BY <1>1, FindIs
<1>4. k \in A <=> contents[k] # Nil
  BY EntryFacts DEF TreeOf
<1> QED
  BY <1>2, <1>3, <1>4 DEF DictionaryGet

\* How many elements the set of a condition has.
LEMMA CountOf ==
  ASSUME NEW P \in BOOLEAN
  PROVE  Cardinality({x \in {1} : P}) = IF P THEN 1 ELSE 0
<1>1. CASE P
  <2>1. {x \in {1} : P} = {1}
    BY <1>1
  <2>2. Cardinality({1}) = 1
    BY FS_Singleton
  <2> QED
    BY <1>1, <2>1, <2>2
<1>2. CASE ~P
  <2>1. {x \in {1} : P} = {}
    BY <1>2
  <2>2. Cardinality({}) = 0
    BY FS_EmptySet
  <2> QED
    BY <1>2, <2>1, <2>2
<1> QED
  BY <1>1, <1>2

\* In a tree there is one link to every entry but the head, and none to what is not in it.
LEMMA LinksInTree ==
  ASSUME NEW A, NEW lo, NEW hi, NEW up, Tree(heap, A, lo, hi, up), NEW e \in Entries
  PROVE  Cardinality(LinksTo(e)) = IF e \in A \ {HeadEntry} THEN 1 ELSE 0
<1> DEFINE l == {g \in Entries : heap.left[g] = e}
           r == {g \in Entries : heap.right[g] = e}
<1>0. A \subseteq Entries /\ e # Nil
  BY EntryFacts DEF Tree, Allocated
<1>1. ASSUME NEW g \in l PROVE e \in A \ {HeadEntry} /\ g = up[e] /\ lo[e] = g
  BY <1>0 DEF Tree, Allocated, Branches
<1>2. ASSUME NEW g \in r PROVE e \in A \ {HeadEntry} /\ g = up[e] /\ hi[e] = g
  BY <1>0 DEF Tree, Allocated, Branches
<1>3. LinksTo(e) = {<<f, "left">> : f \in l} \cup {<<f, "right">> : f \in r}
  BY DEF LinksTo
<1>4. CASE e \in A \ {HeadEntry}
  <2>1. up[e] \in l \cup r
    BY <1>0, <1>4 DEF Tree, Branches
  <2>2. ~(up[e] \in l /\ up[e] \in r)
    <3>1. lo[e] < e /\ e < hi[e] /\ e \in Int /\ lo[e] \in Int /\ hi[e] \in Int
      BY <1>0, <1>4, EntryFacts DEF Tree, Ranges
    <3>2. lo[e] # hi[e]
      BY <3>1
    <3> QED
      BY <1>1, <1>2, <3>2
  <2>3. \/ l = {up[e]} /\ r = {}
        \/ l = {} /\ r = {up[e]}
    <3> HIDE DEF l, r
    <3> QED
      BY <1>1, <1>2, <2>1, <2>2
  <2> HIDE DEF l, r
  <2>4. LinksTo(e) = {<<up[e], "left">>} \/ LinksTo(e) = {<<up[e], "right">>}
    BY <1>3, <2>3
  <2>5. \A x : Cardinality({x}) = 1
    BY FS_Singleton
  <2> QED
    BY <1>4, <2>4, <2>5
<1>5. CASE e \notin A \ {HeadEntry}
  <2>1. l = {} /\ r = {}
    <3> HIDE DEF l, r
    <3> QED
      BY <1>1, <1>2, <1>5
  <2> HIDE DEF l, r
  <2>2. LinksTo(e) = {}
    BY <1>3, <2>1
  <2> QED
    BY <1>5, <2>2, FS_EmptySet
<1> QED
  BY <1>4, <1>5

\* CountsExact: an entry has as many references as there are links to it.
LEMMA CountsExactHolds == IInv => CountsExact
<1> SUFFICES ASSUME IInv PROVE CountsExact
  OBVIOUS
<1>1. /\ heap \in Heaps /\ dictCount \in Nat /\ owned \in BOOLEAN /\ locked \in BOOLEAN
      /\ iter \in Iters /\ iter.stack.objects \in Seq(Keys)
      /\ dictCount = (IF owned THEN 1 ELSE 0) + (IF locked THEN 1 ELSE 0) + 2 * iterators
  BY DEF IInv, TypesInv, MutexInv
<1> DEFINE head(e) == e = HeadEntry /\ dictCount > 0
<1>2. ASSUME NEW e \in Entries
      PROVE  /\ heap.retainCount[e] \in Nat
             /\ heap.retainCount[e] = Cardinality(LinksTo(e)) + (IF head(e) THEN 1 ELSE 0)
  <2>1. CASE dictCount > 0
    <3> DEFINE A == TreeOf(contents)
    <3>1. PICK lo, hi, up : Tree(heap, A, lo, hi, up)
      BY <2>1 DEF IInv, HeapInv, Shape
    <3> HIDE DEF A
    <3>2. Cardinality(LinksTo(e)) = IF e \in A \ {HeadEntry} THEN 1 ELSE 0
      BY <3>1, LinksInTree
    <3>3. heap.retainCount[e] = (IF e \in A THEN 1 ELSE 0) /\ HeadEntry \in A
      BY <3>1 DEF Tree, Allocated
    <3> QED
      BY <2>1, <3>2, <3>3
  <2>2. CASE ~(dictCount > 0)
    <3>1. AllFreed(heap) /\ e # Nil
      BY <2>2, EntryFacts DEF IInv, HeapInv
    <3>2. {g \in Entries : heap.left[g] = e} = {} /\ {g \in Entries : heap.right[g] = e} = {}
      BY <3>1 DEF AllFreed
    <3>3. LinksTo(e) = {}
      BY <3>2 DEF LinksTo
    <3>4. Cardinality(LinksTo(e)) = 0
      BY <3>3, FS_EmptySet
    <3> QED
      BY <2>2, <3>1, <3>4 DEF AllFreed
  <2> QED
    BY <2>1, <2>2
<1>3. TypeOK
  <2>1. heap \in [left : [Entries -> Links], right : [Entries -> Links],
                  value : [Entries -> Values \cup {Nil}], retainCount : [Entries -> Nat]]
    <3>1. /\ heap = [left |-> heap.left, right |-> heap.right, value |-> heap.value,
                     retainCount |-> heap.retainCount]
          /\ heap.left \in [Entries -> Links] /\ heap.right \in [Entries -> Links]
          /\ heap.value \in [Entries -> Values \cup {Nil}] /\ heap.retainCount \in [Entries -> Int]
      BY <1>1 DEF Heaps
    <3>2. heap.retainCount \in [Entries -> Nat]
      BY <1>2, <3>1
    <3> QED
      BY <3>1, <3>2
  <2>2. \A i \in DOMAIN iter.stack.objects : iter.stack.objects[i] \in Keys
    BY <1>1
  <2>3. iter.thread \in Threads \cup {Nil}
    BY <1>1 DEF Iters
  <2> QED
    BY <2>1, <2>2, <2>3 DEF TypeOK, IInv, TypesInv
<1>4. dictCount = Cardinality({x \in {1} : owned}) + Cardinality({x \in {1} : locked})
                  + 2 * iterators
  BY <1>1, CountOf
<1>5. \A e \in Entries :
        heap.retainCount[e] = Cardinality(LinksTo(e))
                              + Cardinality({x \in {1} : e = HeadEntry /\ dictCount > 0})
  <2> TAKE e \in Entries
  <2>1. head(e) \in BOOLEAN
    OBVIOUS
  <2> HIDE DEF head
  <2>2. Cardinality({x \in {1} : head(e)}) = IF head(e) THEN 1 ELSE 0
    BY <2>1, CountOf
  <2>3. heap.retainCount[e] = Cardinality(LinksTo(e)) + Cardinality({x \in {1} : head(e)})
    BY <1>2, <2>2
  <2> QED
    BY <2>3 DEF head
<1> QED
  BY <1>3, <1>4, <1>5 DEF CountsExact

\* IterationIsComplete: what is not on its stack has been visited, and so has everything at
\* the end.
LEMMA IterationIsCompleteHolds == IInv => IterationIsComplete
<1> DEFINE seen == {visited[i] : i \in DOMAIN visited}
<1> SUFFICES ASSUME IInv, iter.thread # Nil
             PROVE  /\ seen \subseteq Present /\ Cardinality(seen) = Len(visited)
                    /\ iter.current = Nil => seen = Present
  BY DEF IterationIsComplete
<1>1. dictCount > 0
  <2>1. /\ iterators > 0 /\ iterators \in Nat
        /\ dictCount = (IF owned THEN 1 ELSE 0) + (IF locked THEN 1 ELSE 0) + 2 * iterators
    BY DictionaryAssumption DEF IInv, MutexInv, TypesInv
  <2> QED
    BY <2>1
<1> DEFINE A == TreeOf(contents)
<1>2. PICK lo, hi, up : Tree(heap, A, lo, hi, up) /\ Iterates(A, lo, hi, iter, visited)
  BY <1>1 DEF IInv, HeapInv, Shape
<1>3. A = Present \cup {HeadEntry} /\ HeadEntry \notin Keys /\ Present \subseteq Keys
  BY EntryFacts DEF TreeOf, Present
<1>4. seen = SeenIn(visited)
  BY DEF SeenIn
<1> HIDE DEF A, seen
<1>5. visited \in Seq(Keys) /\ Cardinality(seen) = Len(visited)
  BY <1>2, <1>4 DEF Iterates, Distinct
<1>6. seen \subseteq Keys
  BY <1>5 DEF seen
<1>7. seen \subseteq Present
  BY <1>2, <1>3, <1>4, <1>6 DEF Iterates, Covers
<1>8. ASSUME iter.current = Nil PROVE seen = Present
  <2>1. iter.stack.objects = <<>>
    BY <1>2, <1>8 DEF Iterates
  <2>2. \A x \in A : x \in seen \cup {HeadEntry}
    <3> DEFINE o == iter.stack.objects
    <3>1. /\ DOMAIN o = {}
          /\ \A x \in A : \/ x \in (SeenIn(visited) \cup {HeadEntry}) \cup {}
                          \/ \E i \in DOMAIN o : x \in Below(A, lo, hi, o[i])
      <4>1. DOMAIN <<>> = {}
        OBVIOUS
      <4> QED
        BY <1>2, <2>1, <4>1 DEF Iterates, Covers
    <3> HIDE DEF o
    <3> QED
      BY <1>4, <3>1
  <2> QED
    BY <1>3, <1>7, <2>2
<1> QED
  BY <1>5, <1>7, <1>8 DEF seen

\* IteratorEntriesLive: the current entry and what is on the stack is in the tree.
LEMMA IteratorEntriesLiveHolds == IInv => IteratorEntriesLive
<1> SUFFICES ASSUME IInv, iter.thread # Nil, NEW e \in IteratorEntries, e # Nil
             PROVE  heap.retainCount[e] > 0
  BY DEF IteratorEntriesLive
<1>1. dictCount > 0
  <2>1. /\ iterators > 0 /\ iterators \in Nat
        /\ dictCount = (IF owned THEN 1 ELSE 0) + (IF locked THEN 1 ELSE 0) + 2 * iterators
    BY DictionaryAssumption DEF IInv, MutexInv, TypesInv
  <2> QED
    BY <2>1
<1> DEFINE A == TreeOf(contents)
           o == iter.stack.objects
<1>2. PICK lo, hi, up : Tree(heap, A, lo, hi, up) /\ Iterates(A, lo, hi, iter, visited)
  BY <1>1 DEF IInv, HeapInv, Shape
<1> HIDE DEF A, o
<1>3. \A x \in A : heap.retainCount[x] = 1
  BY <1>2 DEF Tree, Allocated
<1>4. o \in Seq(A) /\ SeenIn(visited) \cup {HeadEntry} \subseteq A
  BY <1>2 DEF Iterates, Covers, o
<1>5. e \in {o[i] : i \in DOMAIN o} \cup {iter.current}
  BY DEF IteratorEntries, o
<1>6. \A i \in DOMAIN o : o[i] \in A
  BY <1>4
<1>7. iter.current \in A \cup {Nil}
  BY <1>2, <1>4 DEF Iterates
<1> QED
  BY <1>3, <1>5, <1>6, <1>7

\* GetAgrees: whatever was set, changed and removed, by whichever threads and in any order, a
\* lookup finds what the last set of the key gave it, and nothing after its removal.
THEOREM LookupsAgree == Spec => []GetAgrees
BY InductiveInvariant, GetAgreesHolds, PTL

\* CountsExact: every entry is counted once for each link to it, and the dictionary for its
\* creator, its Lock and its iterators, so that nothing is freed early and nothing stays.
THEOREM CountsAreExact == Spec => []CountsExact
BY InductiveInvariant, CountsExactHolds, PTL

\* IterationIsComplete: an iteration comes by every key that is in the dictionary, once.
THEOREM IterationsAreComplete == Spec => []IterationIsComplete
BY InductiveInvariant, IterationIsCompleteHolds, PTL

\* IteratorEntriesLive: the entries an iterator points at stay allocated under it, although it
\* retains none of them.
THEOREM IteratorsPointAtEntries == Spec => []IteratorEntriesLive
BY InductiveInvariant, IteratorEntriesLiveHolds, PTL

================================================================================
