--------------------------- MODULE EchoServerProofs ---------------------------
(***************************************************************************)
(* Proofs about EchoServer, for any number of clients, descriptors, spots  *)
(* and pieces of text.                                                     *)
(***************************************************************************)
EXTENDS EchoServer, Integers, SequenceTheorems, FiniteSetTheorems, WellFoundedInduction, TLAPS

------------------------------------------------------------------------------
(* Smallest members, and the parts of sequences. *)

\* A set of natural numbers that has a member has a smallest one.
LEMMA LeastMember ==
  ASSUME NEW S, S \subseteq Nat, S # {}
  PROVE  \E m \in S : \A k \in S : m <= k
<1>1. \A x, y \in Nat : x < y => <<x, y>> \in OpToRel(<, Nat)
  BY DEF OpToRel
<1>2. \E R : IsWellFoundedOn(R, Nat) /\ \A x, y \in Nat : x < y => <<x, y>> \in R
  BY <1>1, NatLessThanWellFounded, Zenon
<1>3. PICK R : IsWellFoundedOn(R, Nat) /\ \A x, y \in Nat : x < y => <<x, y>> \in R
  BY <1>2
<1>4. PICK m \in S : \A k \in S : ~ (<<k, m>> \in R)
  BY <1>3, WFMin, ZenonT(90)
<1>5. \A k \in S : ~ (k < m)
  BY <1>3, <1>4, Zenon
<1> QED
  BY <1>5

\* A part of a sequence, between two of its positions.
LEMMA SubSeqShape ==
  ASSUME NEW S, NEW seq \in Seq(S), NEW m \in Nat \ {0}, NEW n \in Nat, n <= Len(seq),
         m <= n + 1
  PROVE  /\ SubSeq(seq, m, n) \in Seq(S)
         /\ Len(SubSeq(seq, m, n)) = n - m + 1
         /\ \A i \in 1..(n - m + 1) : SubSeq(seq, m, n)[i] = seq[m + i - 1]
<1>1. \A i \in m..n : seq[i] \in S
  BY LenProperties, ElementOfSeq
<1> QED
  BY <1>1, SubSeqProperties

\* The first positions of a sequence.
LEMMA FirstPart ==
  ASSUME NEW S, NEW seq \in Seq(S), NEW n \in Nat, n <= Len(seq)
  PROVE  /\ SubSeq(seq, 1, n) \in Seq(S) /\ Len(SubSeq(seq, 1, n)) = n
         /\ \A i \in 1..n : SubSeq(seq, 1, n)[i] = seq[i]
<1>1. n - 1 + 1 = n /\ \A i \in 1..n : 1 + i - 1 = i
  OBVIOUS
<1> QED
  BY <1>1, SubSeqShape

\* What is behind them.
LEMMA Rest ==
  ASSUME NEW S, NEW seq \in Seq(S), NEW n \in Nat, n <= Len(seq)
  PROVE  /\ SubSeq(seq, n + 1, Len(seq)) \in Seq(S)
         /\ Len(SubSeq(seq, n + 1, Len(seq))) = Len(seq) - n
         /\ \A i \in 1..(Len(seq) - n) : SubSeq(seq, n + 1, Len(seq))[i] = seq[n + i]
<1> DEFINE m == n + 1
<1> DEFINE l == Len(seq)
<1>1. l \in Nat /\ l = Len(seq) /\ m \in Nat \ {0} /\ m <= l + 1
  BY LenProperties
<1>2. l - m + 1 = l - n /\ \A i \in 1..(l - n) : m + i - 1 = n + i
  BY <1>1
<1> HIDE DEF m, l
<1>3. /\ SubSeq(seq, m, l) \in Seq(S)
      /\ Len(SubSeq(seq, m, l)) = l - m + 1
      /\ \A i \in 1..(l - m + 1) : SubSeq(seq, m, l)[i] = seq[m + i - 1]
  BY <1>1, SubSeqShape
<1>4. /\ SubSeq(seq, m, l) \in Seq(S)
      /\ Len(SubSeq(seq, m, l)) = l - n
      /\ \A i \in 1..(l - n) : SubSeq(seq, m, l)[i] = seq[n + i]
  BY <1>2, <1>3
<1> QED
  BY <1>4 DEF m, l

\* A sequence is what its first positions and the others make together.
LEMMA SplitSeq ==
  ASSUME NEW S, NEW seq \in Seq(S), NEW n \in Nat, n <= Len(seq)
  PROVE  seq = SubSeq(seq, 1, n) \o SubSeq(seq, n + 1, Len(seq))
<1> DEFINE s1 == SubSeq(seq, 1, n)
<1> DEFINE s2 == SubSeq(seq, n + 1, Len(seq))
<1>1. Len(seq) \in Nat
  BY LenProperties
<1>2. s1 \in Seq(S) /\ Len(s1) = n /\ \A i \in 1..n : s1[i] = seq[i]
  BY FirstPart
<1>3. s2 \in Seq(S) /\ Len(s2) = Len(seq) - n /\ \A i \in 1..(Len(seq) - n) : s2[i] = seq[n + i]
  BY Rest
<1> HIDE DEF s1, s2
<1>4. /\ s1 \o s2 \in Seq(S) /\ Len(s1 \o s2) = Len(seq)
      /\ \A i \in 1..Len(seq) : (s1 \o s2)[i] = IF i <= n THEN s1[i] ELSE s2[i - n]
  <2>1. Len(s1) + Len(s2) = Len(seq)
    BY <1>1, <1>2, <1>3
  <2> QED
    BY <1>2, <1>3, <2>1, ConcatProperties
<1>5. \A i \in 1..Len(seq) : (s1 \o s2)[i] = seq[i]
  <2> SUFFICES ASSUME NEW i \in 1..Len(seq) PROVE (s1 \o s2)[i] = seq[i]
    OBVIOUS
  <2>1. CASE i <= n
    BY <1>1, <1>2, <1>4, <2>1
  <2>2. CASE ~ (i <= n)
    <3>1. i - n \in 1..(Len(seq) - n) /\ n + (i - n) = i
      BY <1>1, <2>2
    <3> QED
      BY <1>3, <1>4, <2>2, <3>1
  <2> QED
    BY <2>1, <2>2
<1>6. s1 \o s2 = seq
  BY <1>1, <1>4, <1>5, SeqEqual
<1> QED
  BY <1>6 DEF s1, s2

------------------------------------------------------------------------------
(* What the operators of the model choose. *)

\* The smallest member is a member.
LEMMA MinIsMember ==
  ASSUME NEW S, S \subseteq Nat, S # {}
  PROVE  Min(S) \in S /\ \A k \in S : Min(S) <= k
  BY LeastMember DEF Min

------------------------------------------------------------------------------
(* Pieces in the order of a text. *)

\* What is picked from s without a change of the order is in the order that s is in.
LEMMA PickedInOrder ==
  ASSUME NEW s, NEW t, InOrder(s, t), DOMAIN s \subseteq Int,
         NEW r, DOMAIN r \subseteq Int, NEW at,
         \A i \in DOMAIN r : at[i] \in DOMAIN s /\ r[i] = s[at[i]],
         \A i, j \in DOMAIN r : i < j => at[i] < at[j]
  PROVE  InOrder(r, t)
<1> SUFFICES ASSUME NEW i \in DOMAIN r, NEW j \in DOMAIN r, i <= j
             PROVE  \E a, b \in DOMAIN t :
                      a <= b /\ (a = b => i = j) /\ r[i] = t[a] /\ r[j] = t[b]
  BY DEF InOrder
<1>1. at[i] \in DOMAIN s /\ at[j] \in DOMAIN s /\ at[i] <= at[j] /\ (at[i] = at[j] => i = j)
  <2>1. i = j \/ i < j
    OBVIOUS
  <2> QED
    BY <2>1
<1>2. PICK a \in DOMAIN t, b \in DOMAIN t :
        /\ a <= b /\ (a = b => at[i] = at[j])
        /\ s[at[i]] = t[a] /\ s[at[j]] = t[b]
  BY <1>1 DEF InOrder
<1> QED
  BY <1>1, <1>2

\* A text is in its own order.
LEMMA WholeInOrder ==
  ASSUME NEW s
  PROVE  InOrder(s, s)
  BY DEF InOrder

\* What is in the order of a text where no piece is twice has no piece twice.
LEMMA OrderedOnce ==
  ASSUME NEW S, NEW s \in Seq(S), NEW t, IsInjective(t), InOrder(s, t)
  PROVE  IsInjective(s) /\ \A i \in DOMAIN s : \E a \in DOMAIN t : s[i] = t[a]
<1>1. DOMAIN s \subseteq Int
  BY LenProperties
<1>2. \A i, j \in DOMAIN s : i <= j /\ s[i] = s[j] => i = j
  <2> SUFFICES ASSUME NEW i \in DOMAIN s, NEW j \in DOMAIN s, i <= j, s[i] = s[j] PROVE i = j
    OBVIOUS
  <2>1. PICK a \in DOMAIN t, b \in DOMAIN t : (a = b => i = j) /\ s[i] = t[a] /\ s[j] = t[b]
    BY DEF InOrder
  <2> QED
    BY <2>1 DEF IsInjective
<1>3. IsInjective(s)
  <2> SUFFICES ASSUME NEW i \in DOMAIN s, NEW j \in DOMAIN s, s[i] = s[j] PROVE i = j
    BY DEF IsInjective
  <2>1. i <= j \/ j <= i
    BY <1>1
  <2> QED
    BY <1>2, <2>1
<1>4. \A i \in DOMAIN s : \E a \in DOMAIN t : s[i] = t[a]
  <2> SUFFICES ASSUME NEW i \in DOMAIN s PROVE \E a \in DOMAIN t : s[i] = t[a]
    OBVIOUS
  <2>1. i <= i
    BY <1>1
  <2> QED
    BY <2>1 DEF InOrder
<1> QED
  BY <1>3, <1>4

\* The order stays when a part in the middle is lost, and in that part.
LEMMA PartsInOrder ==
  ASSUME NEW S, NEW p \in Seq(S), NEW d \in Seq(S), NEW q \in Seq(S), NEW t,
         InOrder(p \o d \o q, t)
  PROVE  InOrder(p \o q, t) /\ InOrder(d, t)
<1> DEFINE s == p \o d \o q
<1>1. /\ Len(p) \in Nat /\ Len(d) \in Nat /\ Len(q) \in Nat
      /\ DOMAIN d = 1..Len(d)
  BY LenProperties
<1>2. /\ p \o d \in Seq(S) /\ Len(p \o d) = Len(p) + Len(d)
      /\ \A i \in 1..(Len(p) + Len(d)) : (p \o d)[i] = IF i <= Len(p) THEN p[i] ELSE d[i - Len(p)]
  BY ConcatProperties
<1>3. /\ s \in Seq(S) /\ Len(s) = Len(p) + Len(d) + Len(q)
      /\ DOMAIN s = 1..(Len(p) + Len(d) + Len(q))
      /\ \A i \in DOMAIN s : s[i] = IF i <= Len(p) + Len(d) THEN (p \o d)[i]
                                    ELSE q[i - (Len(p) + Len(d))]
  <2>1. /\ s \in Seq(S) /\ Len(s) = Len(p \o d) + Len(q)
        /\ \A i \in 1..(Len(p \o d) + Len(q)) :
             s[i] = IF i <= Len(p \o d) THEN (p \o d)[i] ELSE q[i - Len(p \o d)]
    BY <1>2, ConcatProperties
  <2> QED
    BY <1>2, <2>1, LenProperties
<1>4. /\ DOMAIN (p \o q) = 1..(Len(p) + Len(q))
      /\ \A i \in DOMAIN (p \o q) : (p \o q)[i] = IF i <= Len(p) THEN p[i] ELSE q[i - Len(p)]
  BY ConcatProperties, LenProperties
<1> HIDE DEF s
<1>5. InOrder(p \o q, t)
  <2> DEFINE at == [i \in DOMAIN (p \o q) |-> IF i <= Len(p) THEN i ELSE i + Len(d)]
  <2>1. ASSUME NEW i \in DOMAIN (p \o q)
        PROVE  at[i] \in DOMAIN s /\ (p \o q)[i] = s[at[i]]
    <3>1. CASE i <= Len(p)
      <4>1. at[i] = i /\ i \in 1..(Len(p) + Len(d)) /\ i \in DOMAIN s
        BY <1>1, <1>3, <1>4, <3>1
      <4>2. s[i] = p[i] /\ (p \o q)[i] = p[i]
        BY <1>2, <1>3, <1>4, <3>1, <4>1
      <4> QED
        BY <4>1, <4>2
    <3>2. CASE ~ (i <= Len(p))
      <4>1. /\ at[i] = i + Len(d) /\ i + Len(d) \in DOMAIN s
            /\ ~ (i + Len(d) <= Len(p) + Len(d))
            /\ i + Len(d) - (Len(p) + Len(d)) = i - Len(p)
        BY <1>1, <1>3, <1>4, <3>2
      <4>2. s[i + Len(d)] = q[i - Len(p)] /\ (p \o q)[i] = q[i - Len(p)]
        BY <1>3, <1>4, <3>2, <4>1
      <4> QED
        BY <4>1, <4>2
    <3> QED
      BY <3>1, <3>2
  <2>2. \A i, j \in DOMAIN (p \o q) : i < j => at[i] < at[j]
    BY <1>1, <1>4
  <2>3. DOMAIN s \subseteq Int /\ DOMAIN (p \o q) \subseteq Int /\ InOrder(s, t)
    BY <1>1, <1>3, <1>4 DEF s
  <2> HIDE DEF at
  <2> QED
    BY <2>1, <2>2, <2>3, PickedInOrder
<1>6. InOrder(d, t)
  <2> DEFINE at == [i \in DOMAIN d |-> Len(p) + i]
  <2>1. ASSUME NEW i \in DOMAIN d
        PROVE  at[i] \in DOMAIN s /\ d[i] = s[at[i]]
    <3>1. /\ at[i] = Len(p) + i /\ Len(p) + i \in DOMAIN s
          /\ Len(p) + i <= Len(p) + Len(d) /\ ~ (Len(p) + i <= Len(p))
          /\ Len(p) + i \in 1..(Len(p) + Len(d)) /\ Len(p) + i - Len(p) = i
      BY <1>1, <1>3
    <3>2. s[Len(p) + i] = d[i]
      BY <1>2, <1>3, <3>1
    <3> QED
      BY <3>1, <3>2
  <2>2. \A i, j \in DOMAIN d : i < j => at[i] < at[j]
    BY <1>1
  <2>3. DOMAIN s \subseteq Int /\ DOMAIN d \subseteq Int /\ InOrder(s, t)
    BY <1>1, <1>3 DEF s
  <2> HIDE DEF at
  <2> QED
    BY <2>1, <2>2, <2>3, PickedInOrder
<1> QED
  BY <1>5, <1>6

\* The order stays when a piece comes behind both, and a new piece is there once.
LEMMA AppendInOrder ==
  ASSUME NEW S, NEW s \in Seq(S), NEW t \in Seq(S), NEW x \in S, InOrder(s, t)
  PROVE  /\ InOrder(Append(s, x), Append(t, x))
         /\ IsInjective(t) /\ x \notin Range(t) => IsInjective(Append(t, x))
<1>1. /\ Len(s) \in Nat /\ DOMAIN s = 1..Len(s)
      /\ Len(t) \in Nat /\ DOMAIN t = 1..Len(t)
  BY LenProperties
<1>2. /\ DOMAIN Append(s, x) = 1..(Len(s) + 1) /\ Append(s, x)[Len(s) + 1] = x
      /\ \A i \in DOMAIN s : Append(s, x)[i] = s[i]
      /\ DOMAIN Append(t, x) = 1..(Len(t) + 1) /\ Append(t, x)[Len(t) + 1] = x
      /\ \A i \in DOMAIN t : Append(t, x)[i] = t[i]
  BY <1>1, AppendProperties, LenProperties
<1>3. InOrder(Append(s, x), Append(t, x))
  <2> DEFINE u == Append(s, x)
  <2> DEFINE v == Append(t, x)
  <2>1. /\ DOMAIN u = 1..(Len(s) + 1) /\ u[Len(s) + 1] = x /\ \A i \in DOMAIN s : u[i] = s[i]
        /\ DOMAIN v = 1..(Len(t) + 1) /\ v[Len(t) + 1] = x /\ \A i \in DOMAIN t : v[i] = t[i]
    BY <1>2
  <2> HIDE DEF u, v
  <2>2. ASSUME NEW i \in DOMAIN u, NEW j \in DOMAIN u, i <= j
        PROVE  \E a, b \in DOMAIN v : a <= b /\ (a = b => i = j) /\ u[i] = v[a] /\ u[j] = v[b]
    <3>1. CASE i = Len(s) + 1
      <4>1. j = i /\ Len(t) + 1 \in DOMAIN v /\ Len(t) + 1 <= Len(t) + 1
        BY <1>1, <2>1, <2>2, <3>1
      <4> QED
        BY <2>1, <3>1, <4>1
    <3>2. CASE i \in DOMAIN s /\ j = Len(s) + 1
      <4>1. i <= i
        BY <1>1, <3>2
      <4>2. PICK a \in DOMAIN t : s[i] = t[a]
        BY <3>2, <4>1 DEF InOrder
      <4>3. /\ a \in DOMAIN v /\ Len(t) + 1 \in DOMAIN v
            /\ a <= Len(t) + 1 /\ a # Len(t) + 1
        BY <1>1, <2>1, <4>2
      <4>4. u[i] = v[a] /\ u[j] = v[Len(t) + 1]
        BY <2>1, <3>2, <4>2
      <4> QED
        BY <4>3, <4>4
    <3>3. CASE i \in DOMAIN s /\ j \in DOMAIN s
      <4>1. PICK a \in DOMAIN t, b \in DOMAIN t :
              a <= b /\ (a = b => i = j) /\ s[i] = t[a] /\ s[j] = t[b]
        BY <2>2, <3>3 DEF InOrder
      <4>2. a \in DOMAIN v /\ b \in DOMAIN v
        BY <1>1, <2>1
      <4>3. u[i] = v[a] /\ u[j] = v[b]
        BY <2>1, <3>3, <4>1
      <4> QED
        BY <4>1, <4>2, <4>3
    <3>4. i \in 1..(Len(s) + 1) /\ j \in 1..(Len(s) + 1)
      BY <2>1
    <3> QED
      BY <1>1, <2>2, <3>1, <3>2, <3>3, <3>4
  <2>3. InOrder(u, v)
    BY <2>2 DEF InOrder
  <2> QED
    BY <2>3 DEF u, v
<1>4. ASSUME IsInjective(t), x \notin Range(t)
      PROVE  IsInjective(Append(t, x))
  <2> SUFFICES ASSUME NEW i \in DOMAIN Append(t, x), NEW j \in DOMAIN Append(t, x),
                      Append(t, x)[i] = Append(t, x)[j]
               PROVE  i = j
    BY DEF IsInjective
  <2>1. \A a \in DOMAIN t : t[a] # x
    BY <1>4 DEF Range
  <2>2. (i \in DOMAIN t \/ i = Len(t) + 1) /\ (j \in DOMAIN t \/ j = Len(t) + 1)
    BY <1>1, <1>2
  <2> QED
    BY <1>2, <1>4, <2>1, <2>2 DEF IsInjective
<1> QED
  BY <1>3, <1>4

\* So it is in the front part.
LEMMA FrontInOrder ==
  ASSUME NEW S, NEW p \in Seq(S), NEW d \in Seq(S), NEW t, InOrder(p \o d, t)
  PROVE  InOrder(p, t)
<1>1. <<>> \in Seq(S)
  BY EmptySeq
<1>2. p \o d \in Seq(S)
  BY ConcatProperties
<1>3. p \o d \o <<>> = p \o d /\ p \o <<>> = p
  BY <1>2, ConcatEmptySeq
<1>4. InOrder(p \o d \o <<>>, t)
  BY <1>3
<1>5. InOrder(p \o <<>>, t)
  BY <1>1, <1>4, PartsInOrder
<1> QED
  BY <1>3, <1>5

\* What was sent back, what is in the buffer and what arrived, one behind the other; what a call
\* of processClient handles of it; what it leaves; whether nothing of a text is missing.
Flow(e, b, a)    == e \o b \o a
Handled(b, a, n) == b \o SubSeq(a, 1, n)
Behind(a, n)     == SubSeq(a, n + 1, Len(a))
Joined(s, t)     == s \o t
Complete(s, t)   == s = t

\* A piece behind the last of the parts is behind the whole.
LEMMA AppendJoined ==
  ASSUME NEW S, NEW s \in Seq(S), NEW t \in Seq(S), NEW x \in S
  PROVE  Complete(Joined(s, Append(t, x)), Append(Joined(s, t), x))
<1>1. <<x>> \in Seq(S)
  <2>1. <<>> \in Seq(S)
    BY EmptySeq
  <2>2. Append(<<>>, x) \in Seq(S) /\ Append(<<>>, x) = <<>> \o <<x>>
    BY <2>1, AppendProperties, AppendIsConcat
  <2> QED
    BY <2>2
<1>2. Append(t, x) = t \o <<x>> /\ Append(s \o t, x) = (s \o t) \o <<x>>
  BY ConcatProperties, AppendIsConcat
<1>3. (s \o t) \o <<x>> = s \o (t \o <<x>>)
  BY <1>1, ConcatAssociative
<1> QED
  BY <1>2, <1>3 DEF Complete, Joined

\* What is handled comes behind what was sent and before what is left.
LEMMA HandledInOrder ==
  ASSUME NEW S, NEW e, NEW b, NEW a, NEW n, NEW text,
         e \in Seq(S), b \in Seq(S), a \in Seq(S), n \in 0..Len(a)
  PROVE  /\ Handled(b, a, n) \in Seq(S) /\ Behind(a, n) \in Seq(S)
         /\ Complete(Flow(e, b, a), Flow(e, Handled(b, a, n), Behind(a, n)))
         /\ InOrder(Flow(e, b, a), text) => InOrder(Handled(b, a, n), text)
<1> DEFINE h == SubSeq(a, 1, n)
<1> DEFINE t == b \o h
<1> DEFINE r == SubSeq(a, n + 1, Len(a))
<1>1. n \in Nat /\ n <= Len(a)
  BY LenProperties
<1>2. h \in Seq(S) /\ r \in Seq(S) /\ a = h \o r
  <2>1. h \in Seq(S)
    BY <1>1, FirstPart
  <2>2. r \in Seq(S)
    BY <1>1, Rest
  <2>3. a = h \o r
    BY <1>1, SplitSeq
  <2> QED
    BY <2>1, <2>2, <2>3
<1> HIDE DEF h, r
<1>3. t \in Seq(S)
  BY <1>2, ConcatProperties
<1>4. e \o b \o a = e \o t \o r
  <2> DEFINE x == e \o b
  <2> DEFINE w == e \o t
  <2>1. x \in Seq(S)
    BY ConcatProperties
  <2>2. x \o h = w
    BY ONLY <1>2, e \in Seq(S), b \in Seq(S), ConcatAssociative, SMTT(30) DEF x, w, t
  <2> HIDE DEF x, w
  <2>3. x \o (h \o r) = x \o h \o r
    BY ONLY <1>2, <2>1, ConcatAssociative, SMTT(30)
  <2>4. x \o a = w \o r
    BY ONLY <1>2, <2>2, <2>3
  <2> QED
    BY ONLY <2>4 DEF x, w
<1> HIDE DEF t
<1>5. InOrder(e \o t \o r, text) => InOrder(t, text)
  BY <1>2, <1>3, PartsInOrder
<1>6. InOrder(e \o b \o a, text) => InOrder(t, text)
  BY ONLY <1>4, <1>5
<1>7. Complete(Flow(e, b, a), Flow(e, t, r)) /\ (InOrder(Flow(e, b, a), text) => InOrder(t, text))
  BY ONLY <1>4, <1>6 DEF Flow, Complete
<1>8. t = Handled(b, a, n) /\ r = Behind(a, n)
  BY DEF t, h, r, Handled, Behind
<1> QED
  BY ONLY <1>2, <1>3, <1>7, <1>8

\* When the first k pieces of t are sent and those behind the m-th are lost, the order stays,
\* and when these are none nothing is missing.
LEMMA SentInOrder ==
  ASSUME NEW S, NEW e, NEW t, NEW r, NEW k, NEW m, NEW text,
         e \in Seq(S), t \in Seq(S), r \in Seq(S), k \in 0..Len(t), m \in 0..Len(t), k <= m,
         InOrder(Flow(e, t, r), text)
  PROVE  LET new == Flow(e \o SubSeq(t, 1, k), SubSeq(t, k + 1, m), r)
         IN  /\ InOrder(new, text)
             /\ m = Len(t) => Complete(Flow(e, t, r), new)
<1> DEFINE s1 == SubSeq(t, 1, k)
<1> DEFINE s2 == SubSeq(t, k + 1, m)
<1> DEFINE d == SubSeq(t, m + 1, Len(t))
<1>1. /\ k \in Nat /\ m \in Nat /\ k <= Len(t) /\ m <= Len(t) /\ Len(t) \in Nat
      /\ k + 1 \in Nat \ {0} /\ k + 1 <= m + 1
      /\ 1 \in 1..(Len(t) + 1) /\ k \in (1 - 1)..Len(t) /\ m \in k..Len(t)
  BY LenProperties
<1>2. s1 \in Seq(S) /\ s2 \in Seq(S) /\ d \in Seq(S)
  <2>1. s1 \in Seq(S)
    BY <1>1, FirstPart
  <2>2. s2 \in Seq(S)
    BY <1>1, SubSeqShape
  <2>3. d \in Seq(S)
    BY <1>1, Rest
  <2> QED
    BY <2>1, <2>2, <2>3
<1>3. s1 \o s2 = SubSeq(t, 1, m)
  BY <1>1, ConcatAdjacentSubSeq
<1>4. t = SubSeq(t, 1, m) \o d
  BY <1>1, SplitSeq
<1>5. m = Len(t) => d = <<>>
  BY <1>1, SubSeqEmpty
<1> HIDE DEF s1, s2, d
<1> DEFINE x == e \o s1
<1> DEFINE y == s1 \o s2
<1> DEFINE f == x \o s2
<1>6. y \in Seq(S)
  BY <1>2, ConcatProperties
<1>7. x \in Seq(S)
  BY <1>2, ConcatProperties
<1>8. f = e \o y
  BY ONLY <1>2, e \in Seq(S), ConcatAssociative, SMTT(30) DEF x, y, f
<1>9. t = y \o d
  BY <1>3, <1>4
<1>10. f \in Seq(S)
  BY <1>2, <1>7, ConcatProperties
<1> HIDE DEF x, y, f
<1>11. e \o (y \o d) = e \o y \o d
  <2>1. d \in Seq(S)
    BY <1>2
  <2> QED
    BY ONLY <1>6, <2>1, e \in Seq(S), ConcatAssociative, SMTT(30)
<1>12. e \o t = f \o d
  BY ONLY <1>8, <1>9, <1>11
<1>13. InOrder(f \o d \o r, text)
  BY ONLY <1>12, InOrder(Flow(e, t, r), text) DEF Flow
<1>14. InOrder(f \o r, text)
  BY <1>2, <1>10, <1>13, PartsInOrder
<1>15. m = Len(t) => e \o t = f
  <2>1. f \o <<>> = f
    BY <1>10, ConcatEmptySeq
  <2> QED
    BY ONLY <1>5, <1>12, <2>1
<1>16. m = Len(t) => Complete(Flow(e, t, r), f \o r)
  BY ONLY <1>15 DEF Flow, Complete
<1>17. f \o r = Flow(e \o SubSeq(t, 1, k), SubSeq(t, k + 1, m), r)
  BY DEF Flow, f, x, s1, s2
<1> QED
  BY ONLY <1>14, <1>16, <1>17

USE EchoServerAssumption DEF EchoServerAssumption, Slots

\* acceptNewClient takes who waited, a descriptor and a spot that are free.
LEMMA AdmitsWho ==
  ASSUME TypeOK
  PROVE  /\ Waiting # {} => Min(Waiting) \in Clients /\ wire[Min(Waiting)] = "backlog"
         /\ Unused # {} => Min(Unused) \in Sockets /\ owner[Min(Unused)] = None
         /\ Free(table) # {} => Min(Free(table)) \in Slots /\ table[Min(Free(table))] = None
<1>1. Waiting \subseteq Nat /\ Unused \subseteq Nat /\ Free(table) \subseteq Nat
  <2>1. Waiting \subseteq Clients /\ Unused \subseteq Sockets
    BY DEF Waiting, Unused
  <2>2. Free(table) \subseteq Nat
    BY DEF Free
  <2> QED
    BY <2>1, <2>2
<1>2. /\ Waiting # {} => Min(Waiting) \in Waiting
      /\ Unused # {} => Min(Unused) \in Unused
      /\ Free(table) # {} => Min(Free(table)) \in Free(table)
  BY <1>1, MinIsMember
<1> QED
  BY <1>2 DEF Waiting, Unused, Free

\* The scan takes the first of the entries that are left.
LEMMA ScanTakesFirst ==
  ASSUME TypeOK, NEW fds, Handles(fds)
  PROVE  /\ First \in DOMAIN entries /\ entries[First].fd \in fds
         /\ DOMAIN entries' = DOMAIN entries \ {First}
         /\ \A i \in DOMAIN entries' : entries'[i] = entries[i]
<1>1. DOMAIN entries \subseteq Nat /\ DOMAIN entries # {}
  BY DEF TypeOK, Handles
<1>2. First \in DOMAIN entries
  BY <1>1, MinIsMember DEF First
<1> QED
  BY <1>2 DEF Handles, Entry, Restrict

\* The text that is handled: what was left and the first pieces that arrived.
LEMMA TextType ==
  ASSUME TypeOK, NEW c \in Clients, NEW n \in 0..Len(arrived[c])
  PROVE  /\ buffer[c] \o SubSeq(arrived[c], 1, n) \in Texts
         /\ SubSeq(arrived[c], n + 1, Len(arrived[c])) \in Texts
<1>1. buffer[c] \in Seq(Pieces) /\ arrived[c] \in Seq(Pieces) /\ n \in Nat /\ n <= Len(arrived[c])
  BY LenProperties DEF TypeOK, Texts
<1>2. SubSeq(arrived[c], 1, n) \in Seq(Pieces)
  BY <1>1, FirstPart
<1>3. SubSeq(arrived[c], n + 1, Len(arrived[c])) \in Seq(Pieces)
  BY <1>1, Rest
<1> QED
  BY <1>1, <1>2, <1>3, ConcatProperties DEF Texts

\* What is left in the buffer after a send is a part of the text.
LEMMA AfterSendShape ==
  ASSUME NEW text \in Texts, NEW k \in 1..Len(text)
  PROVE  \E m \in k..Len(text) : /\ AfterSend(text, k) = SubSeq(text, k + 1, m)
                                 /\ m < Len(text) <=> 2 * k < Len(text)
<1>1. Len(text) \in Nat /\ k \in Nat
  BY LenProperties DEF Texts
<1> DEFINE m == Min({2 * k, Len(text)})
<1>2. {2 * k, Len(text)} \subseteq Nat
  BY <1>1
<1>3. m \in {2 * k, Len(text)} /\ m <= 2 * k /\ m <= Len(text)
  BY <1>2, MinIsMember
<1>4. m \in k..Len(text) /\ (m < Len(text) <=> 2 * k < Len(text))
  BY <1>1, <1>3
<1> QED
  BY <1>4 DEF AfterSend

------------------------------------------------------------------------------
(* The iteration for a client. *)

\* The client stays: only its text changes.
Stays(c) ==
  /\ \E text \in Texts : buffer' = [buffer EXCEPT ![c] = text]
  /\ \E rest \in Texts : arrived' = [arrived EXCEPT ![c] = rest]
  /\ \E text \in Texts : echoed' = [echoed EXCEPT ![c] = text]
  /\ cut' \in [Clients -> BOOLEAN] /\ \A d \in Clients \ {c} : cut'[d] = cut[d]
  /\ UNCHANGED <<table, freed, owner, wire, inherited, sent>>
  /\ running' = running \/ (running' = FALSE /\ Doomed(c)')

\* More exactly: from what was left and the first n pieces that arrived the first k are sent,
\* and the ones behind the m-th are lost.
Serves(c, n) ==
  LET text == buffer[c] \o SubSeq(arrived[c], 1, n)
  IN  /\ \E k \in 0..Len(text), m \in 0..Len(text) :
           /\ k <= m
           /\ echoed' = [echoed EXCEPT ![c] = echoed[c] \o SubSeq(text, 1, k)]
           /\ buffer' = [buffer EXCEPT ![c] = SubSeq(text, k + 1, m)]
           /\ cut' = [cut EXCEPT ![c] = cut[c] \/ m < Len(text)]
      /\ arrived' = [arrived EXCEPT ![c] = SubSeq(arrived[c], n + 1, Len(arrived[c]))]
      /\ UNCHANGED <<table, freed, owner, wire, inherited, sent>>
      /\ running' = running \/ (running' = FALSE /\ Doomed(c)')

Text(c, n) == Handled(buffer[c], arrived[c], n)

\* When nothing is sent and nothing lost the text goes to the buffer.
LEMMA KeepsServes ==
  ASSUME TypeOK, NEW c \in Clients, NEW n \in 0..Len(arrived[c]),
         Keeps(c, Text(c, n)), Takes(c, n), UNCHANGED <<echoed, cut>>,
         running' = running \/ (running' = FALSE /\ Doomed(c)')
  PROVE  Serves(c, n)
<1> DEFINE text == Text(c, n)
<1>1. text \in Seq(Pieces) /\ echoed[c] \in Seq(Pieces) /\ Len(text) \in Nat
  BY TextType, LenProperties DEF Text, Handled, TypeOK, Texts
<1>2. SubSeq(text, 1, 0) = <<>> /\ SubSeq(text, 1, Len(text)) = text
  BY <1>1, SubSeqEmpty, SubSeqFull
<1>3. echoed[c] \o SubSeq(text, 1, 0) = echoed[c]
  BY <1>1, <1>2, ConcatEmptySeq
<1>4. /\ echoed' = [echoed EXCEPT ![c] = echoed[c] \o SubSeq(text, 1, 0)]
      /\ buffer' = [buffer EXCEPT ![c] = SubSeq(text, 0 + 1, Len(text))]
  <2>1. echoed' = [echoed EXCEPT ![c] = echoed[c]]
    BY DEF TypeOK
  <2>2. buffer' = [buffer EXCEPT ![c] = text] /\ 0 + 1 = 1
    BY DEF Keeps
  <2> HIDE DEF text
  <2> QED
    BY <1>2, <1>3, <2>1, <2>2
<1>5. cut' = [cut EXCEPT ![c] = cut[c] \/ Len(text) < Len(text)]
  <2>1. ~ (Len(text) < Len(text)) /\ cut \in [Clients -> BOOLEAN]
    BY <1>1 DEF TypeOK
  <2> HIDE DEF text
  <2>2. (cut[c] \/ Len(text) < Len(text)) = cut[c]
    BY <2>1
  <2> QED
    BY <2>1, <2>2
<1>6. /\ arrived' = [arrived EXCEPT ![c] = SubSeq(arrived[c], n + 1, Len(arrived[c]))]
      /\ UNCHANGED <<table, freed, owner, wire, inherited, sent>>
  BY DEF Keeps, Takes
<1>7. \E k \in 0..Len(text), m \in 0..Len(text) :
         /\ k <= m
         /\ echoed' = [echoed EXCEPT ![c] = echoed[c] \o SubSeq(text, 1, k)]
         /\ buffer' = [buffer EXCEPT ![c] = SubSeq(text, k + 1, m)]
         /\ cut' = [cut EXCEPT ![c] = cut[c] \/ m < Len(text)]
  <2>1. 0 \in 0..Len(text) /\ Len(text) \in 0..Len(text) /\ 0 <= Len(text)
    BY <1>1
  <2> HIDE DEF text
  <2> QED
    BY <1>4, <1>5, <2>1
<1> QED
  BY <1>6, <1>7 DEF Serves, Text, Handled

\* When a part is sent, what is left of the rest goes to the buffer.
LEMMA SendsServes ==
  ASSUME TypeOK, NEW c \in Clients, NEW n \in 0..Len(arrived[c]),
         NEW l \in 1..Len(Text(c, n)),
         Sends(c, Text(c, n), l), Takes(c, n), UNCHANGED running
  PROVE  Serves(c, n)
<1> DEFINE text == Text(c, n)
<1>1. text \in Texts /\ Len(text) \in Nat
  BY TextType, LenProperties DEF Text, Handled, Texts
<1>2. /\ arrived' = [arrived EXCEPT ![c] = SubSeq(arrived[c], n + 1, Len(arrived[c]))]
      /\ UNCHANGED <<table, freed, owner, wire, inherited, sent>>
  BY DEF Sends, Keeps, Takes
<1>3. /\ echoed' = [echoed EXCEPT ![c] = echoed[c] \o SubSeq(text, 1, l)]
      /\ buffer' = [buffer EXCEPT ![c] = AfterSend(text, l)]
      /\ cut' = [cut EXCEPT ![c] = cut[c] \/ 2 * l < Len(text)]
  BY DEF Sends, Keeps
<1> HIDE DEF text
<1>4. l \in 1..Len(text)
  BY DEF text
<1>5. PICK m \in l..Len(text) : /\ AfterSend(text, l) = SubSeq(text, l + 1, m)
                                /\ m < Len(text) <=> 2 * l < Len(text)
  BY <1>1, <1>4, AfterSendShape
<1>6. l \in 0..Len(text) /\ m \in 0..Len(text) /\ l <= m
  BY <1>1, <1>4
<1>7. \E k \in 0..Len(text), j \in 0..Len(text) :
         /\ k <= j
         /\ echoed' = [echoed EXCEPT ![c] = echoed[c] \o SubSeq(text, 1, k)]
         /\ buffer' = [buffer EXCEPT ![c] = SubSeq(text, k + 1, j)]
         /\ cut' = [cut EXCEPT ![c] = cut[c] \/ j < Len(text)]
  <2>1. (cut[c] \/ m < Len(text)) = (cut[c] \/ 2 * l < Len(text))
    BY <1>5
  <2> QED
    BY <1>3, <1>5, <1>6, <2>1
<1> QED
  BY <1>2, <1>7 DEF Serves, Text, Handled, text

\* A client that is served stays.
LEMMA ServesStays ==
  ASSUME TypeOK, NEW c \in Clients, NEW n \in 0..Len(arrived[c]), Serves(c, n)
  PROVE  Stays(c)
<1> DEFINE text == Text(c, n)
<1>1. text \in Seq(Pieces) /\ SubSeq(arrived[c], n + 1, Len(arrived[c])) \in Texts
      /\ echoed[c] \in Seq(Pieces) /\ Len(text) \in Nat
  BY TextType, LenProperties DEF Text, Handled, Texts, TypeOK
<1>2. PICK k \in 0..Len(text), m \in 0..Len(text) :
        /\ k <= m
        /\ echoed' = [echoed EXCEPT ![c] = echoed[c] \o SubSeq(text, 1, k)]
        /\ buffer' = [buffer EXCEPT ![c] = SubSeq(text, k + 1, m)]
        /\ cut' = [cut EXCEPT ![c] = cut[c] \/ m < Len(text)]
  BY DEF Serves, Text, Handled
<1>3. /\ arrived' = [arrived EXCEPT ![c] = SubSeq(arrived[c], n + 1, Len(arrived[c]))]
      /\ UNCHANGED <<table, freed, owner, wire, inherited, sent>>
      /\ running' = running \/ (running' = FALSE /\ Doomed(c)')
  BY DEF Serves
<1> HIDE DEF text
<1>4. /\ k \in Nat /\ m \in Nat /\ k <= Len(text) /\ m <= Len(text)
      /\ k + 1 \in Nat \ {0} /\ k + 1 <= m + 1
  BY <1>1, <1>2
<1>5. SubSeq(text, 1, k) \in Seq(Pieces) /\ SubSeq(text, k + 1, m) \in Seq(Pieces)
  <2>1. SubSeq(text, k + 1, m) \in Seq(Pieces)
    BY <1>1, <1>4, SubSeqShape
  <2>2. SubSeq(text, 1, k) \in Seq(Pieces)
    BY <1>1, <1>4, FirstPart
  <2> QED
    BY <2>1, <2>2
<1>6. echoed[c] \o SubSeq(text, 1, k) \in Seq(Pieces)
  BY <1>1, <1>5, ConcatProperties
<1>7. cut' \in [Clients -> BOOLEAN] /\ \A d \in Clients \ {c} : cut'[d] = cut[d]
  BY <1>2 DEF TypeOK
<1> QED
  BY <1>1, <1>2, <1>3, <1>5, <1>6, <1>7 DEF Stays, Texts

\* The entry belongs to the client that is still in its spot; that client is closed with
\* the text it has, or served, and the server only stops when its peer is gone.
LEMMA HandlesText ==
  ASSUME TypeOK, TableExact, InvScan, HandlesClient
  PROVE  /\ First \in Slots \cap DOMAIN entries
         /\ table[First] \in Clients
         /\ DOMAIN entries' = DOMAIN entries \ {First}
         /\ \A i \in DOMAIN entries' : entries'[i] = entries[i]
         /\ UNCHANGED socket /\ moved' \in BOOLEAN
         /\ \E n \in 0..Len(arrived[table[First]]) :
              \/ CloseClient(table[First], Text(table[First], n))
              \/ Serves(table[First], n)
<1>1. /\ First \in DOMAIN entries /\ entries[First].fd \in Sockets
      /\ DOMAIN entries' = DOMAIN entries \ {First}
      /\ \A i \in DOMAIN entries' : entries'[i] = entries[i]
  BY ScanTakesFirst DEF HandlesClient
<1>2. First # 0 /\ First \in Slots
  BY <1>1 DEF InvScan, TypeOK
<1>3. table[First] \in Clients /\ Entry.fd = socket[table[First]] /\ Entry.fd \in Sockets
  BY <1>1, <1>2 DEF InvScan, TypeOK, Entry
<1>4. \A i \in Found : table[i] = table[First]
  <2> SUFFICES ASSUME NEW i \in Found PROVE table[i] = table[First]
    OBVIOUS
  <2>1. i \in Slots /\ table[i] \in Clients /\ socket[table[i]] = Entry.fd
    BY DEF Found, TypeOK
  <2>2. InTable(table[i]) /\ InTable(table[First])
    BY <1>2, <2>1 DEF InTable, Range, TypeOK
  <2>3. owner[Entry.fd] = table[i] /\ owner[Entry.fd] = table[First]
    BY <1>3, <2>1, <2>2 DEF TableExact
  <2> QED
    BY <2>3
<1>5. PICK c \in Clients : c = table[First]
  BY <1>3
<1> DEFINE Outcome == \E n \in 0..Len(arrived[c]) : CloseClient(c, Text(c, n)) \/ Serves(c, n)
<1>0. buffer[c] \in Seq(Pieces) /\ 0 \in 0..Len(arrived[c]) /\ Text(c, 0) = buffer[c]
  <2>1. buffer[c] \in Seq(Pieces) /\ 0 \in 0..Len(arrived[c])
    BY LenProperties DEF TypeOK, Texts
  <2>2. SubSeq(arrived[c], 1, 0) = <<>>
    BY SubSeqEmpty
  <2> QED
    BY <2>1, <2>2, ConcatEmptySeq DEF Text, Handled
<1>11. ASSUME Wild(c), Dies(c, buffer[c], 0)
       PROVE  Outcome
  <2>1. UNCHANGED wire /\ buffer' = [buffer EXCEPT ![c] = buffer[c]]
    BY <1>11 DEF Dies, Keeps
  <2>2. Doomed(c)'
    BY <1>11, <2>1 DEF Doomed, Wild, TypeOK
  <2>3. Serves(c, 0)
    BY <1>0, <1>11, <2>2, KeepsServes DEF Dies
  <2> QED
    BY <1>0, <2>3
<1>6. ASSUME "hup" \in Entry.revents, NEW n \in 0..Len(arrived[c]), HangsUpAfter(c, n)
      PROVE  Outcome
  <2>1. wire[c] = "reset"
    BY <1>1, <1>2, <1>5, <1>6 DEF InvScan, Entry
  <2>2. CASE Dies(c, Text(c, n), n)
    <3>1. Doomed(c)'
      BY <2>1, <2>2 DEF Dies, Keeps, Doomed
    <3> QED
      BY <2>2, <3>1, KeepsServes DEF Dies
  <2>3. CASE CloseClient(c, Text(c, n))
    BY <2>3
  <2> QED
    BY <1>6, <1>11, <2>2, <2>3 DEF HangsUpAfter, Text, Handled
<1>7. ASSUME CloseClient(c, buffer[c])
      PROVE  Outcome
  BY <1>0, <1>7
<1>8. ASSUME NEW n \in 1..Len(arrived[c]), Processes(c, n)
      PROVE  Outcome
  <2>1. n \in 0..Len(arrived[c])
    OBVIOUS
  <2> USE <2>1
  <2>2. ASSUME NEW l \in 1..Len(Text(c, n)), Sends(c, Text(c, n), l), Takes(c, n), UNCHANGED running
        PROVE  Serves(c, n)
    BY <2>2, SendsServes
  <2>3. ASSUME Keeps(c, Text(c, n)), Takes(c, n), UNCHANGED <<running, echoed, cut>>
        PROVE  Serves(c, n)
    BY <2>3, KeepsServes
  <2>4. ASSUME wire[c] = "reset", Dies(c, Text(c, n), n)
        PROVE  Serves(c, n)
    <3>1. Doomed(c)'
      BY <2>4 DEF Dies, Keeps, Doomed
    <3> QED
      BY <2>4, <3>1, KeepsServes DEF Dies
  <2>5. CASE Wild(c)
    BY <1>8, <1>11, <2>5 DEF Processes
  <2>6. CASE ~Wild(c)
    <3>1. \/ \E l \in 1..Len(Text(c, n)) :
                Sends(c, Text(c, n), l) /\ Takes(c, n) /\ UNCHANGED running
          \/ Keeps(c, Text(c, n)) /\ Takes(c, n) /\ UNCHANGED <<running, echoed, cut>>
          \/ CloseClient(c, Text(c, n))
          \/ wire[c] = "reset" /\ Dies(c, Text(c, n), n)
      BY <1>8, <2>6 DEF Processes, Text, Handled
    <3> QED
      BY <2>2, <2>3, <2>4, <3>1
  <2> QED
    BY <2>5, <2>6
<1> HIDE DEF Outcome
<1>9. Outcome
  <2>1. PICK i \in Found : \E n \in 0..Len(arrived[table[i]]) :
          IF "hup" \in Entry.revents THEN HangsUpAfter(table[i], n)
          ELSE IF arrived[table[i]] = <<>> THEN CloseClient(table[i], buffer[table[i]])
          ELSE n > 0 /\ Processes(table[i], n)
    BY DEF HandlesClient
  <2>2. table[i] = c
    BY <1>4, <1>5
  <2>3. PICK n \in 0..Len(arrived[c]) :
          IF "hup" \in Entry.revents THEN HangsUpAfter(c, n)
          ELSE IF arrived[c] = <<>> THEN CloseClient(c, buffer[c])
          ELSE n > 0 /\ Processes(c, n)
    BY <2>1, <2>2
  <2>4. n > 0 => n \in 1..Len(arrived[c])
    OBVIOUS
  <2> QED
    BY <2>3, <2>4, <1>6, <1>7, <1>8
<1>10. \E n \in 0..Len(arrived[table[First]]) :
          CloseClient(table[First], Text(table[First], n)) \/ Serves(table[First], n)
  BY <1>5, <1>9 DEF Outcome
<1>12. moved' \in BOOLEAN
  BY DEF HandlesClient, TypeOK
<1> QED
  BY <1>1, <1>2, <1>3, <1>10, <1>12 DEF HandlesClient

\* What that does to the table.
LEMMA HandlesOne ==
  ASSUME TypeOK, TableExact, InvScan, HandlesClient
  PROVE  /\ First \in Slots \cap DOMAIN entries
         /\ table[First] \in Clients
         /\ DOMAIN entries' = DOMAIN entries \ {First}
         /\ \A i \in DOMAIN entries' : entries'[i] = entries[i]
         /\ UNCHANGED socket /\ moved' \in BOOLEAN
         /\ \/ \E text \in Texts : CloseClient(table[First], text)
            \/ Stays(table[First])
<1>1. PICK c \in Clients : c = table[First]
  BY HandlesText
<1>2. PICK n \in 0..Len(arrived[c]) : CloseClient(c, Text(c, n)) \/ Serves(c, n)
  BY <1>1, HandlesText
<1>3. Text(c, n) \in Texts
  BY TextType DEF Text, Handled
<1>4. Serves(c, n) => Stays(c)
  BY ServesStays
<1> QED
  BY <1>1, <1>2, <1>3, <1>4, HandlesText

------------------------------------------------------------------------------
(* The table and the scan. *)

\* The free spots can be counted.
LEMMA FreeIsFinite ==
  \A t : IsFiniteSet(Free(t)) /\ Cardinality(Free(t)) \in Nat
<1> SUFFICES ASSUME NEW t PROVE IsFiniteSet(Free(t)) /\ Cardinality(Free(t)) \in Nat
  OBVIOUS
<1>1. IsFiniteSet(1..kMaxClients)
  BY FS_Interval
<1>2. Free(t) \subseteq 1..kMaxClients
  BY DEF Free
<1> QED
  BY <1>1, <1>2, FS_Subset, FS_CardinalityType

\* With a spot for every struct that may be used again, a full table leaves none.
LEMMA FullLeavesNone ==
  ASSUME NEW t, NEW f \in Seq(Texts), Len(f) <= Cardinality(Free(t)), Free(t) = {}
  PROVE  f = <<>>
<1>1. Cardinality(Free(t)) = 0
  BY FS_EmptySet
<1> QED
  BY <1>1, EmptySeq

\* The scan starts with an entry for everybody who is reported.
LEMMA PollsStep == TableInv /\ Polls => TableInv'
<1> SUFFICES ASSUME TableInv, Polls PROVE TableInv'
  OBVIOUS
<1> USE DEF TableInv
<1>1. /\ DOMAIN entries' = {i \in DOMAIN PollArray : PollArray[i].revents # {}}
      /\ \A i \in DOMAIN entries' : entries'[i] = PollArray[i]
  BY DEF Polls, Restrict
<1>2. /\ DOMAIN PollArray = {0} \cup Taken /\ Taken \subseteq Slots /\ 0 \notin Taken
      /\ PollArray[0] = ListenEntry
      /\ \A i \in Taken : PollArray[i] = ClientEntry(table[i])
  BY DEF PollArray, Taken
<1>3. 0 \in DOMAIN entries' => entries'[0] = ListenEntry /\ Waiting # {}
  <2> SUFFICES ASSUME 0 \in DOMAIN entries' PROVE entries'[0] = ListenEntry /\ Waiting # {}
    OBVIOUS
  <2>1. entries'[0] = ListenEntry /\ ListenEntry.revents # {}
    BY <1>1, <1>2
  <2> QED
    BY <2>1 DEF ListenEntry
<1>4. \A i \in DOMAIN entries' \ {0} :
        /\ i \in Slots /\ table[i] \in Clients /\ InTable(table[i])
        /\ entries'[i] = ClientEntry(table[i])
  <2> SUFFICES ASSUME NEW i \in DOMAIN entries' \ {0}
               PROVE  /\ i \in Slots /\ table[i] \in Clients /\ InTable(table[i])
                      /\ entries'[i] = ClientEntry(table[i])
    OBVIOUS
  <2>1. i \in Taken /\ entries'[i] = PollArray[i]
    BY <1>1, <1>2
  <2>2. i \in Slots /\ table[i] \in Clients
    BY <2>1 DEF Taken, Free, TableExact, TypeOK
  <2> QED
    BY <1>2, <2>1, <2>2 DEF InTable, Range, TableExact, TypeOK
<1>5. UNCHANGED <<running, table, socket, buffer, freed, moved, inherited, cut, owner, wire,
                  arrived, sent, echoed>>
  BY DEF Polls, clientVars, netVars
<1>6. \A i \in DOMAIN entries' :
         entries'[i] \in [fd : Sockets \cup {ListenFd}, revents : SUBSET {"in", "hup"}]
  <2> DEFINE Records == [fd : Sockets \cup {ListenFd}, revents : SUBSET {"in", "hup"}]
  <2>1. ListenEntry \in Records
    BY DEF ListenEntry
  <2>2. \A c \in Clients : InTable(c) => ClientEntry(c) \in Records
    BY DEF ClientEntry, Revents, InvClient
  <2> HIDE DEF Records
  <2>3. \A i \in DOMAIN entries' : entries'[i] \in Records
    BY <1>3, <1>4, <2>1, <2>2
  <2> QED
    BY <2>3 DEF Records
<1>7. TypeOK'
  BY <1>1, <1>2, <1>5, <1>6 DEF TypeOK, TableExact
<1>8. TableExact' /\ InvClient' /\ InvFreed'
  <2>1. TableExact'
    BY <1>5, <1>7 DEF TableExact, InTable, Free
  <2>2. InvClient' /\ InvFreed'
    BY <1>5 DEF InvClient, InvFreed, InTable, Free
  <2> QED
    BY <2>1, <2>2
<1>9. InvScan'
  <2> SUFFICES ASSUME NEW i \in DOMAIN entries'
               PROVE  IF i = 0 THEN entries'[i].fd = ListenFd /\ Waiting # {}
                      ELSE /\ table[i] # None /\ entries'[i].fd = socket[table[i]]
                           /\ "hup" \in entries'[i].revents => wire[table[i]] = "reset"
    BY <1>5 DEF InvScan, Waiting
  <2>1. CASE i = 0
    BY <1>3, <2>1 DEF ListenEntry
  <2>2. CASE i # 0
    BY <1>4, <2>2 DEF ClientEntry, Revents
  <2> QED
    BY <2>1, <2>2
<1> QED
  BY <1>8, <1>9

\* Only the entry of the listening socket has that descriptor.
LEMMA ListenEntryIsFirst ==
  ASSUME TableInv, NEW i \in DOMAIN entries, entries[i].fd = ListenFd
  PROVE  i = 0
<1> SUFFICES ASSUME i # 0 PROVE FALSE
  OBVIOUS
<1>1. table[i] \in Clients /\ InTable(table[i]) /\ socket[table[i]] = ListenFd
  BY DEF TableInv, TableExact, InvScan, TypeOK, InTable, Range
<1>2. ListenFd \in Sockets
  BY <1>1 DEF TableInv, InvClient
<1> QED
  BY <1>2

\* Who is accepted gets a spot and a descriptor that nobody has.
LEMMA AdmitsStep == TableInv /\ Admits => TableInv'
<1> SUFFICES ASSUME TableInv, Admits PROVE TableInv'
  OBVIOUS
<1> USE DEF TableInv
<1> DEFINE c == Min(Waiting)
<1> DEFINE s == Min(Unused)
<1> DEFINE spot == Min(Free(table))
<1>0. TypeOK
  BY DEF TableExact
<1>1. 0 \in DOMAIN entries /\ First = 0 /\ Waiting # {}
  <2>1. First \in DOMAIN entries /\ entries[First].fd = ListenFd
    BY <1>0, ScanTakesFirst DEF Admits
  <2>2. First = 0
    BY <2>1, ListenEntryIsFirst
  <2> QED
    BY <2>1, <2>2 DEF InvScan
<1>2. /\ c \in Clients /\ wire[c] = "backlog" /\ ~InTable(c)
      /\ s \in Sockets /\ owner[s] = None
      /\ spot \in Slots /\ table[spot] = None
  BY <1>0, <1>1, AdmitsWho DEF Admits, InvClient
<1>3. /\ DOMAIN entries' = DOMAIN entries \ {0}
      /\ \A i \in DOMAIN entries' : entries'[i] = entries[i]
  BY <1>0, <1>1, ScanTakesFirst DEF Admits
<1>4. /\ wire' = [wire EXCEPT ![c] = "open"]
      /\ owner' = [owner EXCEPT ![s] = c]
      /\ socket' = [socket EXCEPT ![c] = s]
      /\ table' = [table EXCEPT ![spot] = c]
      /\ \E text \in Allocated : /\ buffer' = [buffer EXCEPT ![c] = text]
                                /\ inherited' = [inherited EXCEPT ![c] = text]
      /\ freed' = Remaining
      /\ UNCHANGED <<running, moved, cut, arrived, sent, echoed>>
  BY DEF Admits
<1>5. /\ Allocated \subseteq Texts /\ Remaining \in Seq(Texts)
      /\ Len(Remaining) = IF freed = <<>> THEN 0 ELSE Len(freed) - 1
  <2>1. CASE freed = <<>>
    <3>1. <<>> \in Texts /\ <<Junk>> \in Texts
      BY EmptySeq DEF Texts, Pieces
    <3> QED
      BY <2>1, <3>1, EmptySeq DEF Allocated, Remaining
  <2>2. CASE freed # <<>>
    <3>1. freed \in Seq(Texts) /\ Len(freed) \in Nat \ {0} /\ Len(freed) - 1 \in Nat
      BY <1>0, <2>2, EmptySeq DEF TypeOK
    <3>2. Last(freed) \in Texts
      BY <3>1, ElementOfSeq DEF Last
    <3>3. Front(freed) \in Seq(Texts) /\ Len(Front(freed)) = Len(freed) - 1
      <4> DEFINE n == Len(freed) - 1
      <4>1. n \in Nat /\ n <= Len(freed)
        BY <3>1
      <4> HIDE DEF n
      <4>2. SubSeq(freed, 1, n) \in Seq(Texts) /\ Len(SubSeq(freed, 1, n)) = n
        BY <3>1, <4>1, FirstPart
      <4> QED
        BY <4>2 DEF Front, n
    <3> QED
      BY <2>2, <3>2, <3>3 DEF Allocated, Remaining
  <2> QED
    BY <2>1, <2>2
<1>6. InvFreed'
  <2>1. Free(table') = Free(table) \ {spot} /\ spot \in Free(table)
    BY <1>0, <1>2, <1>4 DEF Free, TypeOK
  <2>2. Cardinality(Free(table')) = Cardinality(Free(table)) - 1
    BY <2>1, FreeIsFinite, FS_RemoveElement
  <2>3. Cardinality(Free(table)) \in Nat /\ Cardinality(Free(table')) \in Nat /\ Len(freed) \in Nat
    BY <1>0, FreeIsFinite, LenProperties DEF TypeOK
  <2> QED
    BY <1>4, <1>5, <2>2, <2>3 DEF InvFreed
<1> HIDE DEF c, s, spot
<1>7. TypeOK'
  BY <1>0, <1>2, <1>3, <1>4, <1>5, SMTT(30) DEF TypeOK
<1>8. \A d \in Clients : InTable(d)' <=> InTable(d) \/ d = c
  BY <1>0, <1>2, <1>4 DEF InTable, Range, TypeOK
<1>12. \A d \in Clients : wire'[d] = "outside" <=> wire[d] = "outside"
  BY <1>0, <1>2, <1>4 DEF TypeOK
<1>9. TableExact'
  <2>1. \A i, j \in Slots : table'[i] = table'[j] => i = j \/ table'[i] = None
    <3>1. \A i \in Slots : table[i] # c
      BY <1>0, <1>2 DEF InTable, Range, TypeOK
    <3> QED
      BY <1>0, <1>2, <1>4, <3>1 DEF TableExact, TypeOK
  <2>2. \A d \in Clients, t \in Sockets :
          (InTable(d)' \/ wire'[d] = "outside") /\ socket'[d] = t <=> owner'[t] = d
    <3>1. \A t \in Sockets : owner[t] # c
      BY <1>0, <1>2 DEF TableExact
    <3> QED
      BY <1>0, <1>2, <1>4, <1>8, <1>12, <3>1 DEF TableExact, TypeOK
  <2>3. Free(table') = {} => freed' = <<>>
    BY <1>6, <1>7, FullLeavesNone DEF InvFreed, TypeOK
  <2> QED
    BY <1>7, <2>1, <2>2, <2>3 DEF TableExact, InTable
<1>10. InvClient'
  <2> SUFFICES ASSUME NEW d \in Clients
               PROVE  /\ InTable(d)' <=> wire'[d] \in {"open", "closed", "reset"}
                      /\ InTable(d)' => socket'[d] \in Sockets
                      /\ ~InTable(d)' => /\ sent'[d] = <<>> /\ arrived'[d] = <<>>
                                         /\ buffer'[d] = <<>> /\ echoed'[d] = <<>>
                                         /\ inherited'[d] = <<>> /\ ~cut'[d]
    BY DEF InvClient
  <2>1. CASE d = c
    BY <1>0, <1>2, <1>4, <1>8, <2>1 DEF TypeOK
  <2>2. CASE d # c
    <3>1. /\ wire'[d] = wire[d] /\ socket'[d] = socket[d] /\ buffer'[d] = buffer[d]
          /\ inherited'[d] = inherited[d]
      BY <1>0, <1>4, <2>2 DEF TypeOK
    <3> QED
      BY <1>4, <1>8, <2>2, <3>1 DEF InvClient
  <2> QED
    BY <2>1, <2>2
<1>11. InvScan'
  <2> SUFFICES ASSUME NEW i \in DOMAIN entries'
               PROVE  IF i = 0 THEN entries'[i].fd = ListenFd /\ Waiting' # {}
                      ELSE /\ table'[i] # None /\ entries'[i].fd = socket'[table'[i]]
                           /\ "hup" \in entries'[i].revents => wire'[table'[i]] = "reset"
    BY DEF InvScan
  <2>1. i # 0 /\ i \in DOMAIN entries /\ entries'[i] = entries[i] /\ i \in Slots
    BY <1>0, <1>3 DEF TypeOK
  <2>2. table[i] # None /\ table[i] \in Clients /\ InTable(table[i])
    BY <1>0, <2>1 DEF InvScan, TypeOK, InTable, Range
  <2>3. i # spot /\ table'[i] = table[i] /\ table[i] # c
    BY <1>0, <1>2, <1>4, <2>1, <2>2 DEF TypeOK
  <2>4. socket'[table[i]] = socket[table[i]] /\ wire'[table[i]] = wire[table[i]]
    BY <1>0, <1>2, <1>4, <2>2, <2>3 DEF TypeOK
  <2> QED
    BY <2>1, <2>2, <2>3, <2>4 DEF InvScan
<1> QED
  BY <1>6, <1>9, <1>10, <1>11

\* The server may stop when it cannot accept; the table stays as it is.
LEMMA StopStep == TableInv /\ (DiesWhenFull \/ AcceptFails) => TableInv'
<1> SUFFICES ASSUME TableInv, DiesWhenFull \/ AcceptFails PROVE TableInv'
  OBVIOUS
<1> USE DEF TableInv
<1>0. TypeOK
  BY DEF TableExact
<1>1. /\ First \in DOMAIN entries /\ entries[First].fd = ListenFd
      /\ DOMAIN entries' = DOMAIN entries \ {First}
      /\ \A i \in DOMAIN entries' : entries'[i] = entries[i]
  BY <1>0, ScanTakesFirst DEF DiesWhenFull, AcceptFails
<1>2. First = 0
  BY <1>1, ListenEntryIsFirst
<1>3. /\ UNCHANGED <<table, socket, buffer, freed, moved, inherited, cut, owner, arrived, sent, echoed>>
      /\ running' = FALSE
      /\ \/ UNCHANGED wire
         \/ wire' = [wire EXCEPT ![Min(Waiting)] = "gone"]
  BY DEF DiesWhenFull, AcceptFails, clientVars, netVars
<1>4. Min(Waiting) \in Clients /\ wire[Min(Waiting)] = "backlog"
  BY <1>0, <1>1, <1>2, AdmitsWho DEF InvScan
<1>5. \A d \in Clients : wire'[d] = wire[d] \/ (wire[d] = "backlog" /\ wire'[d] = "gone")
  BY <1>0, <1>3, <1>4 DEF TypeOK
<1>6. TypeOK'
  BY <1>0, <1>1, <1>3, <1>4 DEF TypeOK
<1>7. TableExact' /\ InvClient' /\ InvFreed'
  BY <1>3, <1>5, <1>6 DEF TableExact, InvClient, InvFreed, InTable, Free
<1>8. InvScan'
  <2> SUFFICES ASSUME NEW i \in DOMAIN entries'
               PROVE  /\ i # 0 /\ table[i] # None /\ entries'[i].fd = socket[table[i]]
                      /\ "hup" \in entries'[i].revents => wire'[table[i]] = "reset"
    BY <1>3 DEF InvScan
  <2>1. i # 0 /\ i \in DOMAIN entries /\ entries'[i] = entries[i] /\ i \in Slots
    BY <1>0, <1>1, <1>2 DEF TypeOK
  <2>2. table[i] # None /\ table[i] \in Clients
    BY <1>0, <2>1 DEF InvScan, TypeOK
  <2> QED
    BY <1>5, <2>1, <2>2 DEF InvScan
<1> QED
  BY <1>7, <1>8

\* Who is left outside has a descriptor that nobody had, and nothing else.
LEMMA OutsideStep == TableInv /\ LeavesOutside => TableInv'
<1> SUFFICES ASSUME TableInv, LeavesOutside PROVE TableInv'
  OBVIOUS
<1> USE DEF TableInv
<1> DEFINE c == Min(Waiting)
<1> DEFINE s == Min(Unused)
<1>0. TypeOK
  BY DEF TableExact
<1>1. /\ First \in DOMAIN entries /\ entries[First].fd = ListenFd
      /\ DOMAIN entries' = DOMAIN entries \ {First}
      /\ \A i \in DOMAIN entries' : entries'[i] = entries[i]
  BY <1>0, ScanTakesFirst DEF LeavesOutside
<1>2. First = 0
  BY <1>1, ListenEntryIsFirst
<1>3. /\ wire' = [wire EXCEPT ![c] = "outside"]
      /\ owner' = [owner EXCEPT ![s] = c]
      /\ socket' = [socket EXCEPT ![c] = s]
      /\ UNCHANGED <<running, table, buffer, freed, moved, inherited, cut, arrived, sent, echoed>>
  BY DEF LeavesOutside
<1>4. /\ c \in Clients /\ wire[c] = "backlog" /\ ~InTable(c)
      /\ s \in Sockets /\ owner[s] = None
  BY <1>0, <1>1, <1>2, AdmitsWho DEF InvScan, InvClient, LeavesOutside
<1> HIDE DEF c, s
<1>5. \A d \in Clients : /\ wire'[d] = IF d = c THEN "outside" ELSE wire[d]
                        /\ socket'[d] = IF d = c THEN s ELSE socket[d]
  BY <1>0, <1>3, <1>4 DEF TypeOK
<1>6. TypeOK'
  BY <1>0, <1>1, <1>3, <1>4 DEF TypeOK
<1>7. \A d \in Clients : InTable(d)' <=> InTable(d)
  BY <1>3 DEF InTable
<1>8. TableExact'
  <2>1. \A d \in Clients, t \in Sockets :
          (InTable(d)' \/ wire'[d] = "outside") /\ socket'[d] = t <=> owner'[t] = d
    <3>1. \A t \in Sockets : owner[t] # c
      BY <1>0, <1>4 DEF TableExact
    <3>2. \A t \in Sockets : owner'[t] = IF t = s THEN c ELSE owner[t]
      BY <1>0, <1>3, <1>4 DEF TypeOK
    <3> QED
      BY <1>0, <1>4, <1>5, <1>7, <3>1, <3>2 DEF TableExact, TypeOK
  <2> QED
    BY <1>3, <1>6, <2>1 DEF TableExact, InTable, Free
<1>9. InvClient' /\ InvFreed'
  BY <1>3, <1>4, <1>5, <1>7 DEF InvClient, InvFreed, Free, InTable
<1>10. InvScan'
  <2> SUFFICES ASSUME NEW i \in DOMAIN entries'
               PROVE  /\ i # 0 /\ table[i] # None /\ entries'[i].fd = socket'[table[i]]
                      /\ "hup" \in entries'[i].revents => wire'[table[i]] = "reset"
    BY <1>3 DEF InvScan
  <2>1. i # 0 /\ i \in DOMAIN entries /\ entries'[i] = entries[i] /\ i \in Slots
    BY <1>0, <1>1, <1>2 DEF TypeOK
  <2>2. table[i] # None /\ table[i] \in Clients /\ InTable(table[i])
    BY <1>0, <2>1 DEF InvScan, TypeOK, InTable, Range
  <2>3. table[i] # c
    BY <1>4, <2>2
  <2> QED
    BY <1>5, <2>1, <2>2, <2>3 DEF InvScan
<1> QED
  BY <1>8, <1>9, <1>10

\* A client that is closed leaves its spot, its descriptor and the scan.
LEMMA CloseStep ==
  ASSUME TableInv, NEW spot \in Slots \cap DOMAIN entries, NEW c \in Clients, c = table[spot],
         NEW text \in Texts, CloseClient(c, text),
         DOMAIN entries' = DOMAIN entries \ {spot},
         \A i \in DOMAIN entries' : entries'[i] = entries[i],
         UNCHANGED socket, moved' \in BOOLEAN
  PROVE  TableInv'
<1> USE DEF TableInv
<1>0. TypeOK
  BY DEF TableExact
<1>1. InTable(c) /\ socket[c] \in Sockets /\ wire[c] \in {"open", "closed", "reset"}
  BY <1>0 DEF InTable, Range, TypeOK, InvClient
<1>2. \A i \in Slots : table[i] = c => i = spot
  BY DEF TableExact
<1>3. /\ owner' = [owner EXCEPT ![socket[c]] = None]
      /\ wire' = [wire EXCEPT ![c] = "gone"]
      /\ table' = [i \in Slots |-> IF table[i] = c THEN None ELSE table[i]]
      /\ freed' = Append(freed, text)
      /\ buffer'    = [buffer EXCEPT ![c] = <<>>]
      /\ arrived'   = [arrived EXCEPT ![c] = <<>>]
      /\ sent'      = [sent EXCEPT ![c] = <<>>]
      /\ echoed'    = [echoed EXCEPT ![c] = <<>>]
      /\ inherited' = [inherited EXCEPT ![c] = <<>>]
      /\ cut'       = [cut EXCEPT ![c] = FALSE]
      /\ UNCHANGED <<running, socket>>
  BY DEF CloseClient, Forgotten
<1>4. \A i \in Slots : table'[i] = IF i = spot THEN None ELSE table[i]
  BY <1>2, <1>3
<1>5. freed' \in Seq(Texts) /\ Len(freed') = Len(freed) + 1 /\ Len(freed) \in Nat
  BY <1>0, <1>3, AppendProperties, LenProperties DEF TypeOK
<1>6. TypeOK'
  <2>1. <<>> \in Texts
    BY EmptySeq DEF Texts
  <2> QED
    BY <1>0, <1>1, <1>3, <1>5, <2>1 DEF TypeOK
<1>7. InvFreed'
  <2>1. Free(table') = Free(table) \cup {spot} /\ spot \notin Free(table)
    BY <1>4 DEF Free
  <2>2. Cardinality(Free(table')) = Cardinality(Free(table)) + 1
    BY <2>1, FreeIsFinite, FS_AddElement
  <2> QED
    BY <1>5, <2>2, FreeIsFinite DEF InvFreed
<1>8. \A d \in Clients : InTable(d)' <=> InTable(d) /\ d # c
  <2> SUFFICES ASSUME NEW d \in Clients PROVE InTable(d)' <=> InTable(d) /\ d # c
    OBVIOUS
  <2>1. InTable(d)' <=> \E i \in Slots : table'[i] = d
    BY <1>3 DEF InTable, Range
  <2>2. InTable(d) <=> \E i \in Slots : table[i] = d
    BY <1>0 DEF InTable, Range, TypeOK
  <2>3. d # None
    OBVIOUS
  <2> QED
    BY <1>2, <1>4, <2>1, <2>2, <2>3
<1>9. TableExact'
  <2>1. \A i, j \in Slots : table'[i] = table'[j] => i = j \/ table'[i] = None
    BY <1>4 DEF TableExact
  <2>2. \A d \in Clients, t \in Sockets :
          (InTable(d)' \/ wire'[d] = "outside") /\ socket'[d] = t <=> owner'[t] = d
    <3> SUFFICES ASSUME NEW d \in Clients, NEW t \in Sockets
                 PROVE  (InTable(d)' \/ wire'[d] = "outside") /\ socket'[d] = t <=> owner'[t] = d
      OBVIOUS
    <3>1. owner'[t] = IF t = socket[c] THEN None ELSE owner[t]
      BY <1>0, <1>1, <1>3 DEF TypeOK
    <3>0. \A e \in Clients, s \in Sockets :
            (InTable(e) \/ wire[e] = "outside") /\ socket[e] = s <=> owner[s] = e
      BY DEF TableExact
    <3>2. owner[socket[c]] = c
      BY <1>1, <3>0
    <3>3. InTable(d)' <=> InTable(d) /\ d # c
      BY <1>8
    <3>4. /\ (InTable(d) \/ wire[d] = "outside") /\ socket[d] = t <=> owner[t] = d
          /\ owner[t] = c => t = socket[c]
      BY <3>0
    <3>5. wire'[d] = "outside" <=> wire[d] = "outside" /\ d # c
      BY <1>0, <1>1, <1>3 DEF TypeOK
    <3> QED
      BY <1>3, <3>1, <3>2, <3>3, <3>4, <3>5
  <2>3. Free(table') = {} => freed' = <<>>
    BY <1>6, <1>7, FullLeavesNone DEF InvFreed, TypeOK
  <2> QED
    BY <1>6, <2>1, <2>2, <2>3 DEF TableExact, InTable
<1>10. InvClient'
  <2> SUFFICES ASSUME NEW d \in Clients
               PROVE  /\ InTable(d)' <=> wire'[d] \in {"open", "closed", "reset"}
                      /\ InTable(d)' => socket'[d] \in Sockets
                      /\ ~InTable(d)' => /\ sent'[d] = <<>> /\ arrived'[d] = <<>>
                                         /\ buffer'[d] = <<>> /\ echoed'[d] = <<>>
                                         /\ inherited'[d] = <<>> /\ ~cut'[d]
    BY DEF InvClient
  <2>1. CASE d = c
    BY <1>0, <1>3, <1>8, <2>1 DEF TypeOK
  <2>2. CASE d # c
    <3>1. /\ wire'[d] = wire[d] /\ buffer'[d] = buffer[d] /\ arrived'[d] = arrived[d]
          /\ sent'[d] = sent[d] /\ echoed'[d] = echoed[d] /\ inherited'[d] = inherited[d]
          /\ cut'[d] = cut[d]
      BY <1>0, <1>3, <2>2 DEF TypeOK
    <3> QED
      BY <1>3, <1>8, <2>2, <3>1 DEF InvClient
  <2> QED
    BY <2>1, <2>2
<1>11. InvScan'
  <2> SUFFICES ASSUME NEW i \in DOMAIN entries'
               PROVE  IF i = 0 THEN entries'[i].fd = ListenFd /\ Waiting' # {}
                      ELSE /\ table'[i] # None /\ entries'[i].fd = socket'[table'[i]]
                           /\ "hup" \in entries'[i].revents => wire'[table'[i]] = "reset"
    BY DEF InvScan
  <2>1. i # spot /\ i \in DOMAIN entries /\ entries'[i] = entries[i] /\ i \in {0} \cup Slots
    BY <1>0 DEF TypeOK
  <2>2. CASE i = 0
    <3>1. Waiting' = Waiting
      BY <1>0, <1>1, <1>3 DEF Waiting, TypeOK
    <3> QED
      BY <2>1, <2>2, <3>1 DEF InvScan
  <2>3. CASE i # 0
    <3>1. table[i] # None /\ table[i] \in Clients /\ table'[i] = table[i] /\ table[i] # c
      BY <1>0, <1>2, <1>4, <2>1, <2>3 DEF InvScan, TypeOK
    <3>2. wire'[table[i]] = wire[table[i]]
      BY <1>0, <1>3, <3>1 DEF TypeOK
    <3> QED
      BY <1>3, <2>1, <2>3, <3>1, <3>2 DEF InvScan
  <2> QED
    BY <2>2, <2>3
<1> QED
  BY <1>7, <1>9, <1>10, <1>11

\* A client that stays keeps everything but its text.
LEMMA StaysStep ==
  ASSUME TableInv, NEW spot \in Slots \cap DOMAIN entries, NEW c \in Clients, c = table[spot],
         Stays(c), DOMAIN entries' = DOMAIN entries \ {spot},
         \A i \in DOMAIN entries' : entries'[i] = entries[i],
         UNCHANGED socket, moved' \in BOOLEAN
  PROVE  TableInv'
<1> USE DEF TableInv
<1>0. TypeOK
  BY DEF TableExact
<1>1. InTable(c)
  BY <1>0 DEF InTable, Range, TypeOK
<1>2. UNCHANGED <<table, freed, owner, wire, inherited, sent, socket>>
  BY DEF Stays
<1>3. TypeOK'
  <2>1. buffer' \in [Clients -> Texts] /\ arrived' \in [Clients -> Texts]
        /\ echoed' \in [Clients -> Texts]
    BY <1>0 DEF TypeOK, Stays
  <2>2. cut' \in [Clients -> BOOLEAN] /\ running' \in BOOLEAN
    BY <1>0 DEF TypeOK, Stays
  <2>3. /\ DOMAIN entries' \subseteq {0} \cup Slots
        /\ \A i \in DOMAIN entries' :
             entries'[i] \in [fd : Sockets \cup {ListenFd}, revents : SUBSET {"in", "hup"}]
    BY <1>0 DEF TypeOK
  <2> QED
    BY <1>0, <1>2, <2>1, <2>2, <2>3 DEF TypeOK
<1>4. TableExact' /\ InvFreed'
  BY <1>2, <1>3 DEF TableExact, InvFreed, InTable, Free
<1>5. \A d \in Clients \ {c} : /\ arrived'[d] = arrived[d] /\ buffer'[d] = buffer[d]
                              /\ echoed'[d] = echoed[d] /\ cut'[d] = cut[d]
  BY <1>0 DEF Stays, TypeOK
<1>6. InvClient'
  BY <1>1, <1>2, <1>5 DEF InvClient, InTable
<1>7. InvScan'
  BY <1>2 DEF InvScan, Waiting
<1> QED
  BY <1>4, <1>6, <1>7

\* A peer only changes the state of its own connection.
LEMMA PeerStep ==
  ASSUME TableInv, NEW c \in Clients, Peer(c)
  PROVE  TableInv'
<1> USE DEF TableInv
<1>0. TypeOK
  BY DEF TableExact
<1>1. UNCHANGED <<running, table, entries, socket, buffer, freed, moved, inherited, cut, owner,
                  echoed>>
  BY DEF Peer, Connects, SendsPiece, HangsUp, Resets, serverVars, clientVars
<1>2. /\ wire' \in [Clients -> {"away", "backlog", "open", "closed", "reset", "outside", "gone"}]
      /\ \A d \in Clients :
           /\ wire[d] = "reset" => wire'[d] = "reset"
           /\ wire[d] = "backlog" => wire'[d] = "backlog"
           /\ wire'[d] = "outside" <=> wire[d] = "outside"
           /\ (wire'[d] \in {"open", "closed", "reset"})
                <=> (wire[d] \in {"open", "closed", "reset"})
  BY <1>0 DEF Peer, Connects, SendsPiece, HangsUp, Resets, TypeOK
<1>3. /\ sent' \in [Clients -> Texts] /\ arrived' \in [Clients -> Texts]
      /\ \A d \in Clients : wire[d] \notin {"open", "closed", "reset"} =>
                             sent'[d] = sent[d] /\ arrived'[d] = arrived[d]
  <2>1. CASE Connects(c) \/ HangsUp(c)
    BY <1>0, <2>1 DEF Connects, HangsUp, TypeOK
  <2>2. CASE SendsPiece(c)
    <3> DEFINE piece == [from |-> c, n |-> Len(sent[c]) + 1]
    <3>1. sent[c] \in Seq(Pieces) /\ arrived[c] \in Seq(Pieces)
      BY <1>0 DEF TypeOK, Texts
    <3>2. piece \in Pieces
      BY <2>2, <3>1, LenProperties DEF SendsPiece, Pieces
    <3> HIDE DEF piece
    <3>3. Append(sent[c], piece) \in Texts /\ Append(arrived[c], piece) \in Texts
      BY <3>1, <3>2, AppendProperties DEF Texts
    <3>4. /\ wire[c] = "open"
          /\ sent' = [sent EXCEPT ![c] = Append(sent[c], piece)]
          /\ arrived' = [arrived EXCEPT ![c] = Append(arrived[c], piece)]
      BY <1>0, <2>2 DEF SendsPiece, piece, TypeOK
    <3> QED
      BY <1>0, <3>3, <3>4 DEF TypeOK
  <2>3. CASE Resets(c)
    <3>1. <<>> \in Texts
      BY EmptySeq DEF Texts
    <3> QED
      BY <1>0, <2>3, <3>1 DEF Resets, TypeOK
  <2> QED
    BY <2>1, <2>2, <2>3 DEF Peer
<1>4. TypeOK'
  BY <1>0, <1>1, <1>2, <1>3 DEF TypeOK
<1>5. TableExact' /\ InvFreed'
  BY <1>1, <1>2, <1>4 DEF TableExact, InvFreed, InTable, Free
<1>6. InvClient'
  <2> SUFFICES ASSUME NEW d \in Clients
               PROVE  /\ InTable(d)' <=> wire'[d] \in {"open", "closed", "reset"}
                      /\ InTable(d)' => socket'[d] \in Sockets
                      /\ ~InTable(d)' => /\ sent'[d] = <<>> /\ arrived'[d] = <<>>
                                         /\ buffer'[d] = <<>> /\ echoed'[d] = <<>>
                                         /\ inherited'[d] = <<>> /\ ~cut'[d]
    BY DEF InvClient
  <2>1. InTable(d)' <=> InTable(d)
    BY <1>1 DEF InTable
  <2>2. wire'[d] \in {"open", "closed", "reset"} <=> wire[d] \in {"open", "closed", "reset"}
    BY <1>2
  <2>3. wire[d] \notin {"open", "closed", "reset"} => sent'[d] = sent[d] /\ arrived'[d] = arrived[d]
    BY <1>3
  <2> QED
    BY <1>1, <2>1, <2>2, <2>3 DEF InvClient
<1>7. InvScan'
  <2> SUFFICES ASSUME NEW i \in DOMAIN entries
               PROVE  IF i = 0 THEN entries[i].fd = ListenFd /\ Waiting' # {}
                      ELSE /\ table[i] # None /\ entries[i].fd = socket[table[i]]
                           /\ "hup" \in entries[i].revents => wire'[table[i]] = "reset"
    BY <1>1 DEF InvScan
  <2>1. CASE i = 0
    <3>1. PICK d \in Clients : wire[d] = "backlog"
      BY <2>1 DEF InvScan, Waiting
    <3>2. wire'[d] = "backlog"
      BY <1>2, <3>1
    <3> QED
      BY <2>1, <3>2 DEF InvScan, Waiting
  <2>2. CASE i # 0
    <3>1. table[i] # None /\ table[i] \in Clients
      BY <1>0, <2>2 DEF InvScan, TypeOK
    <3>2. wire[table[i]] = "reset" => wire'[table[i]] = "reset"
      BY <1>2, <3>1
    <3> QED
      BY <2>2, <3>1, <3>2 DEF InvScan
  <2> QED
    BY <2>1, <2>2
<1> QED
  BY <1>5, <1>6, <1>7

\* Every step of the server and of a peer keeps the table exact.
LEMMA TableStep == TableInv /\ [Next]_vars => TableInv'
<1> SUFFICES ASSUME TableInv, [Next]_vars PROVE TableInv'
  OBVIOUS
<1>1. CASE HandlesClient
  <2>1. TypeOK /\ TableExact /\ InvScan
    BY DEF TableInv, TableExact
  <2> DEFINE c == table[First]
  <2>2. /\ First \in Slots \cap DOMAIN entries /\ c \in Clients
        /\ DOMAIN entries' = DOMAIN entries \ {First}
        /\ \A i \in DOMAIN entries' : entries'[i] = entries[i]
        /\ UNCHANGED socket /\ moved' \in BOOLEAN
        /\ (\E text \in Texts : CloseClient(c, text)) \/ Stays(c)
    BY <1>1, <2>1, HandlesOne
  <2> HIDE DEF First
  <2>3. ASSUME NEW text \in Texts, CloseClient(c, text) PROVE TableInv'
    BY <2>2, <2>3, CloseStep
  <2>4. CASE Stays(c)
    BY <2>2, <2>4, StaysStep
  <2> QED
    BY <2>2, <2>3, <2>4
<1>2. CASE UNCHANGED vars
  <2>1. UNCHANGED <<running, table, entries, socket, buffer, freed, moved, inherited, cut, owner,
                    wire, arrived, sent, echoed>>
    BY <1>2 DEF vars, serverVars, clientVars, netVars
  <2> QED
    BY <2>1 DEF TableInv, TableExact, TypeOK, InvClient, InvScan, InvFreed, InTable, Free, Waiting
<1> QED
  BY <1>1, <1>2, PollsStep, AdmitsStep, OutsideStep, StopStep, PeerStep DEF Next, Server

\* The first state has an empty table.
LEMMA TableInit == Init => TableInv
<1> SUFFICES ASSUME Init PROVE TableInv
  OBVIOUS
<1>1. <<>> \in Texts /\ <<>> \in Seq(Texts) /\ DOMAIN entries = {}
  <2>1. <<>> \in Seq(Texts) /\ Len(<<>>) = 0
    BY EmptySeq
  <2>2. <<>> \in Texts
    BY EmptySeq DEF Texts
  <2>3. entries = <<>>
    BY DEF Init
  <2> QED
    BY <2>1, <2>2, <2>3
<1>2. TypeOK
  BY <1>1 DEF Init, TypeOK
<1>3. \A c \in Clients : ~InTable(c)
  BY DEF Init, InTable, Range
<1>4. TableExact /\ InvClient /\ InvScan
  BY <1>1, <1>2, <1>3 DEF Init, TableExact, InvClient, InvScan
<1>5. InvFreed
  BY FreeIsFinite, EmptySeq DEF Init, InvFreed
<1> QED
  BY <1>4, <1>5 DEF TableInv

\* The table of the echo server, the descriptors and the structs agree in every reachable
\* state: no client is in it twice or after it was closed, and none is missing.
THEOREM TableIsExact == Spec => []TableExact
<1>1. TableInv => TableExact
  BY DEF TableInv
<1> QED
  BY <1>1, TableInit, TableStep, PTL DEF Spec

\* The server stops only when somebody cannot be accepted or a peer is gone.
THEOREM StopsOnlyForAReason == Spec => []StopsForAReason
<1>1. Init => StopsForAReason
  BY DEF Init, StopsForAReason
<1>2. TableInv /\ StopsForAReason /\ [Next]_vars => StopsForAReason'
  <2> SUFFICES ASSUME TableInv, StopsForAReason, [Next]_vars, ~running' PROVE StopsForAReason'
    BY DEF StopsForAReason
  <2>0. TypeOK /\ TableExact /\ InvScan
    BY DEF TableInv, TableExact
  <2>1. CASE UNCHANGED vars
    <3>1. UNCHANGED <<running, table, wire, buffer>>
      BY <2>1 DEF vars, serverVars, clientVars, netVars
    <3> QED
      BY <3>1 DEF StopsForAReason, Waiting, Free, InTable, Doomed, Wild
  <2>2. CASE running
    <3>1. CASE DiesWhenFull
      BY <3>1 DEF DiesWhenFull, StopsForAReason, Free
    <3>2. CASE AcceptFails
      <4>1. First \in DOMAIN entries /\ entries[First].fd = ListenFd
        BY <2>0, <3>2, ScanTakesFirst DEF AcceptFails
      <4>2. First = 0
        BY <4>1, ListenEntryIsFirst
      <4>3. Waiting # {} /\ UNCHANGED wire
        BY <2>0, <3>2, <4>1, <4>2 DEF InvScan, AcceptFails, netVars
      <4> QED
        BY <4>3 DEF StopsForAReason, Waiting
    <3>3. CASE HandlesClient
      <4>1. PICK c \in Clients : /\ First \in Slots /\ c = table[First]
                                 /\ (\E text \in Texts : CloseClient(c, text)) \/ Stays(c)
        BY <2>0, <3>3, HandlesOne
      <4>2. Stays(c)
        BY <2>2, <4>1 DEF CloseClient
      <4>3. UNCHANGED <<wire, table>> /\ Doomed(c)' /\ InTable(c)
        BY <2>0, <2>2, <4>1, <4>2, ZenonT(30) DEF Stays, InTable, Range, TypeOK
      <4>4. c \in Clients /\ InTable(c)' /\ Doomed(c)'
        BY <4>1, <4>3 DEF InTable
      <4> QED
        BY <4>4 DEF StopsForAReason
    <3>4. CASE Polls
      BY <2>2, <3>4 DEF Polls
    <3>5. CASE Admits
      BY <2>2, <3>5 DEF Admits
    <3>7. CASE LeavesOutside
      BY <2>2, <3>7 DEF LeavesOutside
    <3>6. ASSUME NEW c \in Clients, Peer(c) PROVE FALSE
      BY <2>2, <3>6 DEF Peer, Connects, SendsPiece, HangsUp, Resets, serverVars
    <3> QED
      BY <2>1, <3>1, <3>2, <3>3, <3>4, <3>5, <3>6, <3>7 DEF Next, Server
  <2> QED
    BY <2>1, <2>2 DEF Next
<1> QED
  BY <1>1, <1>2, TableInit, TableStep, PTL DEF Spec

------------------------------------------------------------------------------
(* The text of the clients. *)

\* The text of a client and what became of it.
LEMMA TextTypes ==
  ASSUME TypeOK, NEW c \in Clients
  PROVE  /\ inherited[c] \in Seq(Pieces) /\ sent[c] \in Seq(Pieces)
         /\ echoed[c] \in Seq(Pieces) /\ buffer[c] \in Seq(Pieces) /\ arrived[c] \in Seq(Pieces)
         /\ inherited[c] \o sent[c] \in Seq(Pieces)
         /\ echoed[c] \o buffer[c] \in Seq(Pieces)
         /\ echoed[c] \o buffer[c] \o arrived[c] \in Seq(Pieces)
<1>1. /\ inherited[c] \in Seq(Pieces) /\ sent[c] \in Seq(Pieces)
      /\ echoed[c] \in Seq(Pieces) /\ buffer[c] \in Seq(Pieces) /\ arrived[c] \in Seq(Pieces)
  BY DEF TypeOK, Texts
<1>2. inherited[c] \o sent[c] \in Seq(Pieces) /\ echoed[c] \o buffer[c] \in Seq(Pieces)
  BY <1>1, ConcatProperties
<1>3. echoed[c] \o buffer[c] \o arrived[c] \in Seq(Pieces)
  BY <1>1, <1>2, ConcatProperties
<1> QED
  BY <1>1, <1>2, <1>3

\* What the buffers hold are pieces.
LEMMA PiecesFrom ==
  ASSUME TypeOK
  PROVE  /\ \A i \in DOMAIN freed : /\ freed[i] \in Seq(Pieces)
                                    /\ \A k \in DOMAIN freed[i] : freed[i][k] \in Pieces
         /\ \A c \in Clients : \A k \in DOMAIN inherited[c] : inherited[c][k] \in Pieces
<1>1. \A s \in Seq(Pieces) : \A k \in DOMAIN s : s[k] \in Pieces
  BY LenProperties, ElementOfSeq
<1>2. \A i \in DOMAIN freed : freed[i] \in Seq(Pieces)
  <2> SUFFICES ASSUME NEW i \in DOMAIN freed PROVE freed[i] \in Seq(Pieces)
    OBVIOUS
  <2>1. freed \in Seq(Texts) /\ i \in 1..Len(freed)
    BY LenProperties DEF TypeOK
  <2> QED
    BY <2>1, ElementOfSeq DEF Texts
<1>3. \A c \in Clients : inherited[c] \in Seq(Pieces)
  BY TextTypes
<1> QED
  BY <1>1, <1>2, <1>3

\* A connection that is gone or reset does not come back.
NobodyReturns ==
  \A d \in Clients : /\ wire[d] = "gone" => wire'[d] = "gone"
                     /\ wire[d] = "reset" => wire'[d] = "reset"

\* A piece that is from somebody who is gone after the step.
GoneNext(p) == p = Junk \/ wire'[p.from] = "gone"

LEMMA GoneStays ==
  ASSUME \A d \in Clients : wire[d] = "gone" => wire'[d] = "gone", NEW p \in Pieces, Gone(p)
  PROVE  GoneNext(p)
<1>1. p = Junk \/ p.from \in Clients
  BY DEF Pieces
<1> QED
  BY <1>1 DEF Gone, GoneNext

\* While no struct is freed or used again, they hold what they held.
LEMMA GoneFrame ==
  ASSUME TextInv, UNCHANGED freed, UNCHANGED inherited, NobodyReturns
  PROVE  InvGone'
<1>0. TypeOK
  BY DEF TextInv, TableInv, TableExact
<1>1. ASSUME NEW i \in DOMAIN freed
      PROVE  IsInjective(freed[i]) /\ \A k \in DOMAIN freed[i] : GoneNext(freed[i][k])
  <2>1. \A k \in DOMAIN freed[i] : freed[i][k] \in Pieces
    BY <1>0, PiecesFrom
  <2>2. IsInjective(freed[i]) /\ \A k \in DOMAIN freed[i] : Gone(freed[i][k])
    BY DEF TextInv, InvGone
  <2> QED
    BY <2>1, <2>2, GoneStays DEF NobodyReturns
<1>2. ASSUME NEW c \in Clients, NEW k \in DOMAIN inherited[c]
      PROVE  GoneNext(inherited[c][k])
  <2>1. inherited[c][k] \in Pieces
    BY <1>0, PiecesFrom
  <2>2. Gone(inherited[c][k])
    BY DEF TextInv, InvGone
  <2> QED
    BY <2>1, <2>2, GoneStays DEF NobodyReturns
<1> QED
  BY <1>1, <1>2 DEF InvGone, Gone, GoneNext

\* When only the scan and connections go on, texts stay as they are.
LEMMA TextFrame ==
  ASSUME TextInv, UNCHANGED <<freed, inherited, sent, echoed, buffer, arrived, cut>>,
         NobodyReturns
  PROVE  InvText' /\ InvGone'
<1>1. ASSUME NEW d \in Clients PROVE TextInOrder(d)'
  <2>1. TextInOrder(d) /\ (wire'[d] # "reset" => wire[d] # "reset")
    BY DEF TextInv, InvText, NobodyReturns
  <2> QED
    BY <2>1 DEF TextInOrder
<1>2. InvGone'
  BY GoneFrame
<1> QED
  BY <1>1, <1>2 DEF InvText

\* A client is accepted with what the one that had its struct left.
LEMMA TextAdmits ==
  ASSUME TextInv, Admits
  PROVE  InvText' /\ InvGone'
<1>0. TypeOK /\ TableInv
  BY DEF TextInv, TableInv, TableExact
<1> DEFINE c == Min(Waiting)
<1>1. c \in Clients /\ wire[c] = "backlog" /\ ~InTable(c)
  <2>1. First \in DOMAIN entries /\ entries[First].fd = ListenFd
    BY <1>0, ScanTakesFirst DEF Admits
  <2>2. First = 0
    BY <1>0, <2>1, ListenEntryIsFirst
  <2>3. Waiting # {}
    BY <1>0, <2>1, <2>2 DEF TableInv, InvScan
  <2> QED
    BY <1>0, <2>3, AdmitsWho DEF TableInv, InvClient
<1>2. PICK given \in Allocated :
        /\ wire' = [wire EXCEPT ![c] = "open"]
        /\ buffer' = [buffer EXCEPT ![c] = given]
        /\ inherited' = [inherited EXCEPT ![c] = given]
        /\ freed' = Remaining
        /\ UNCHANGED <<cut, arrived, sent, echoed>>
  BY DEF Admits
<1> HIDE DEF c
<1>3. /\ sent[c] = <<>> /\ arrived[c] = <<>> /\ echoed[c] = <<>> /\ ~cut[c]
  BY <1>0, <1>1 DEF TableInv, InvClient
<1>4. /\ given \in Seq(Pieces) /\ IsInjective(given)
      /\ \A k \in DOMAIN given : given[k] \in Pieces /\ Gone(given[k])
  <2>1. CASE freed = <<>>
    <3>1. given = <<>> \/ given = <<Junk>>
      BY <2>1 DEF Allocated
    <3>2. CASE given = <<>>
      BY <3>2, EmptySeq DEF IsInjective
    <3>3. CASE given = <<Junk>>
      <4>1. given \in Seq(Pieces) /\ DOMAIN given = {1} /\ given[1] = Junk /\ Junk \in Pieces
        BY <3>3 DEF Pieces
      <4> QED
        BY <4>1 DEF IsInjective, Gone
    <3> QED
      BY <3>1, <3>2, <3>3
  <2>2. CASE freed # <<>>
    <3>1. Len(freed) \in DOMAIN freed
      BY <1>0, <2>2, EmptySeq, LenProperties DEF TypeOK
    <3>2. given = freed[Len(freed)]
      BY <2>2 DEF Allocated, Last
    <3> QED
      BY <1>0, <3>1, <3>2, PiecesFrom DEF TextInv, InvGone
  <2> QED
    BY <2>1, <2>2
<1>5. ASSUME NEW d \in Clients PROVE TextInOrder(d)'
  <2>1. CASE d = c
    <3>1. given \o <<>> = given /\ <<>> \o given \o <<>> = given
      BY <1>4, ConcatEmptySeq
    <3>2. /\ inherited'[d] \o sent'[d] = given
          /\ echoed'[d] \o buffer'[d] \o arrived'[d] = given
      BY <1>0, <1>1, <1>2, <1>3, <2>1, <3>1 DEF TypeOK
    <3>3. \A k \in DOMAIN sent'[d] : sent'[d][k] = [from |-> d, n |-> k]
      BY <1>2, <1>3, <2>1
    <3> QED
      BY <1>4, <3>2, <3>3, WholeInOrder DEF TextInOrder
  <2>2. CASE d # c
    <3>1. wire'[d] = wire[d] /\ buffer'[d] = buffer[d] /\ inherited'[d] = inherited[d]
      BY <1>0, <1>2, <2>2 DEF TypeOK
    <3>2. TextInOrder(d)
      BY DEF TextInv, InvText
    <3> QED
      BY <1>2, <3>1, <3>2 DEF TextInOrder
  <2> QED
    BY <2>1, <2>2
<1>6. \A d \in Clients : wire[d] = "gone" => wire'[d] = "gone"
  BY <1>0, <1>1, <1>2 DEF TypeOK
<1>7. \A i \in DOMAIN freed' : i \in DOMAIN freed /\ freed'[i] = freed[i]
  <2>1. CASE freed = <<>>
    BY <1>2, <2>1 DEF Remaining
  <2>2. CASE freed # <<>>
    <3> DEFINE n == Len(freed) - 1
    <3>1. freed \in Seq(Texts) /\ n \in Nat /\ n <= Len(freed) /\ DOMAIN freed = 1..Len(freed)
          /\ Len(freed) \in Nat
      BY <1>0, <2>2, EmptySeq, LenProperties DEF TypeOK
    <3>2. freed' = SubSeq(freed, 1, n)
      BY <1>2, <2>2 DEF Remaining, Front
    <3> HIDE DEF n
    <3>3. DOMAIN freed' = 1..n /\ \A i \in 1..n : freed'[i] = freed[i]
      BY <3>1, <3>2, FirstPart, LenProperties
    <3> QED
      BY <3>1, <3>3
  <2> QED
    BY <2>1, <2>2
<1>8. InvGone'
  <2>1. ASSUME NEW i \in DOMAIN freed'
        PROVE  IsInjective(freed'[i]) /\ \A k \in DOMAIN freed'[i] : GoneNext(freed'[i][k])
    <3>1. i \in DOMAIN freed /\ freed'[i] = freed[i]
      BY <1>7
    <3>2. IsInjective(freed[i]) /\ \A k \in DOMAIN freed[i] : freed[i][k] \in Pieces /\ Gone(freed[i][k])
      BY <1>0, <3>1, PiecesFrom DEF TextInv, InvGone
    <3> QED
      BY <1>6, <3>1, <3>2, GoneStays
  <2>2. ASSUME NEW d \in Clients, NEW k \in DOMAIN inherited'[d]
        PROVE  GoneNext(inherited'[d][k])
    <3>1. CASE d = c
      <4>1. inherited'[d] = given
        BY <1>0, <1>1, <1>2, <3>1 DEF TypeOK
      <4> QED
        BY <1>4, <1>6, <2>2, <4>1, GoneStays
    <3>2. CASE d # c
      <4>1. inherited'[d] = inherited[d]
        BY <1>0, <1>2, <3>2 DEF TypeOK
      <4> QED
        BY <1>0, <1>6, <2>2, <4>1, PiecesFrom, GoneStays DEF TextInv, InvGone
    <3> QED
      BY <3>1, <3>2
  <2> QED
    BY <2>1, <2>2 DEF InvGone, Gone, GoneNext
<1> QED
  BY <1>5, <1>8 DEF InvText

\* What a client that is closed leaves behind is from clients that are gone, and no piece twice.
LEMMA TextCloses ==
  ASSUME TextInv, NEW c \in Clients, NEW n \in 0..Len(arrived[c]), CloseClient(c, Text(c, n))
  PROVE  InvText' /\ InvGone'
<1>0. TypeOK
  BY DEF TextInv, TableInv, TableExact
<1>1. /\ wire' = [wire EXCEPT ![c] = "gone"]
      /\ freed' = Append(freed, Text(c, n))
      /\ buffer'    = [buffer EXCEPT ![c] = <<>>]
      /\ arrived'   = [arrived EXCEPT ![c] = <<>>]
      /\ sent'      = [sent EXCEPT ![c] = <<>>]
      /\ echoed'    = [echoed EXCEPT ![c] = <<>>]
      /\ inherited' = [inherited EXCEPT ![c] = <<>>]
      /\ cut'       = [cut EXCEPT ![c] = FALSE]
  BY DEF CloseClient, Forgotten
<1>2. wire'[c] = "gone" /\ \A d \in Clients : wire[d] = "gone" => wire'[d] = "gone"
  BY <1>0, <1>1 DEF TypeOK
<1>3. ASSUME NEW d \in Clients PROVE TextInOrder(d)'
  <2>1. CASE d = c
    <3>1. <<>> \o <<>> = <<>> /\ DOMAIN <<>> = {}
      <4>1. <<>> \in Seq(Pieces) /\ Len(<<>>) = 0
        BY EmptySeq
      <4> QED
        BY <4>1, ConcatEmptySeq, LenProperties
    <3>2. /\ inherited'[d] \o sent'[d] = <<>> /\ sent'[d] = <<>>
          /\ echoed'[d] \o buffer'[d] \o arrived'[d] = <<>>
      BY <1>0, <1>1, <2>1, <3>1 DEF TypeOK
    <3>3. IsInjective(<<>>) /\ InOrder(<<>>, <<>>)
      BY <3>1 DEF IsInjective, InOrder
    <3> QED
      BY <3>1, <3>2, <3>3 DEF TextInOrder
  <2>2. CASE d # c
    <3>1. /\ wire'[d] = wire[d] /\ buffer'[d] = buffer[d] /\ inherited'[d] = inherited[d]
          /\ arrived'[d] = arrived[d] /\ sent'[d] = sent[d] /\ echoed'[d] = echoed[d]
          /\ cut'[d] = cut[d]
      BY <1>0, <1>1, <2>2 DEF TypeOK
    <3>2. TextInOrder(d)
      BY DEF TextInv, InvText
    <3> QED
      BY <3>1, <3>2 DEF TextInOrder
  <2> QED
    BY <2>1, <2>2
<1> DEFINE text == inherited[c] \o sent[c]
<1> DEFINE left == Text(c, n)
<1>4. left \in Seq(Pieces) /\ IsInjective(left) /\ \A k \in DOMAIN left : \E l \in DOMAIN text : left[k] = text[l]
  <2>1. IsInjective(text) /\ InOrder(Flow(echoed[c], buffer[c], arrived[c]), text)
    BY DEF TextInv, InvText, TextInOrder, Flow
  <2>2. echoed[c] \in Seq(Pieces) /\ buffer[c] \in Seq(Pieces) /\ arrived[c] \in Seq(Pieces)
    BY <1>0, TextTypes
  <2> HIDE DEF text
  <2>3. left \in Seq(Pieces) /\ InOrder(left, text)
    BY <2>1, <2>2, HandledInOrder DEF Text
  <2> HIDE DEF left
  <2> QED
    BY <2>1, <2>3, OrderedOnce
<1>5. \A l \in DOMAIN text : GoneNext(text[l])
  <2> SUFFICES ASSUME NEW l \in DOMAIN text
               PROVE  GoneNext(text[l])
    OBVIOUS
  <2>1. inherited[c] \in Seq(Pieces) /\ sent[c] \in Seq(Pieces)
    BY <1>0, TextTypes
  <2>2. /\ Len(inherited[c]) \in Nat /\ DOMAIN inherited[c] = 1..Len(inherited[c])
        /\ Len(sent[c]) \in Nat /\ DOMAIN sent[c] = 1..Len(sent[c])
        /\ DOMAIN text = 1..(Len(inherited[c]) + Len(sent[c]))
        /\ text[l] = IF l <= Len(inherited[c]) THEN inherited[c][l] ELSE sent[c][l - Len(inherited[c])]
    BY <2>1, ConcatProperties, LenProperties
  <2> HIDE DEF text
  <2>3. CASE l <= Len(inherited[c])
    <3>1. l \in DOMAIN inherited[c] /\ text[l] = inherited[c][l]
      BY <2>2, <2>3
    <3>2. text[l] \in Pieces
      BY <1>0, <3>1, PiecesFrom
    <3>3. Gone(text[l])
      BY <3>1 DEF TextInv, InvGone
    <3> QED
      BY <1>2, <3>2, <3>3, GoneStays
  <2>4. CASE ~ (l <= Len(inherited[c]))
    <3>1. l - Len(inherited[c]) \in DOMAIN sent[c] /\ text[l] = sent[c][l - Len(inherited[c])]
      <4>1. l \in 1..(Len(inherited[c]) + Len(sent[c]))
        BY <2>2
      <4>2. \A a, b \in Nat : l \in 1..(a + b) /\ ~ (l <= a) => l - a \in 1..b
        OBVIOUS
      <4>3. l - Len(inherited[c]) \in 1..Len(sent[c])
        BY <2>2, <2>4, <4>1, <4>2
      <4> QED
        BY <2>2, <2>4, <4>3
    <3>2. TextInOrder(c)
      BY DEF TextInv, InvText
    <3>3. text[l] = [from |-> c, n |-> l - Len(inherited[c])]
      BY <3>1, <3>2 DEF TextInOrder
    <3> QED
      BY <1>2, <3>3 DEF GoneNext
  <2> QED
    BY <2>3, <2>4
<1>6. InvGone'
  <2> HIDE DEF text
  <2>1. ASSUME NEW i \in DOMAIN freed'
        PROVE  IsInjective(freed'[i]) /\ \A k \in DOMAIN freed'[i] : GoneNext(freed'[i][k])
    <3>1. freed \in Seq(Texts) /\ left \in Texts /\ freed' = Append(freed, left)
      BY <1>0, <1>1, <1>4 DEF TypeOK, Texts
    <3> HIDE DEF left
    <3>2. \/ i \in DOMAIN freed /\ freed'[i] = freed[i]
          \/ freed'[i] = left
      <4>1. /\ Len(freed) \in Nat /\ DOMAIN freed = 1..Len(freed) /\ DOMAIN freed' = 1..(Len(freed) + 1)
            /\ \A k \in 1..Len(freed) : freed'[k] = freed[k]
            /\ freed'[Len(freed) + 1] = left
        BY <3>1, AppendProperties, LenProperties
      <4>2. i \in 1..Len(freed) \/ i = Len(freed) + 1
        BY <2>1, <4>1
      <4> QED
        BY <4>1, <4>2
    <3>3. CASE i \in DOMAIN freed /\ freed'[i] = freed[i]
      <4>1. \A k \in DOMAIN freed[i] : freed[i][k] \in Pieces
        BY <1>0, <3>3, PiecesFrom
      <4>2. IsInjective(freed[i]) /\ \A k \in DOMAIN freed[i] : Gone(freed[i][k])
        BY <3>3 DEF TextInv, InvGone
      <4> QED
        BY <1>2, <3>3, <4>1, <4>2, GoneStays
    <3>4. CASE freed'[i] = left
      BY <1>4, <1>5, <3>4
    <3> QED
      BY <3>2, <3>3, <3>4
  <2>2. ASSUME NEW d \in Clients, NEW k \in DOMAIN inherited'[d]
        PROVE  GoneNext(inherited'[d][k])
    <3>1. d # c /\ inherited'[d] = inherited[d]
      <4>1. d = c => inherited'[d] = <<>>
        BY <1>0, <1>1 DEF TypeOK
      <4>2. DOMAIN <<>> = {}
        OBVIOUS
      <4>3. d # c
        BY <2>2, <4>1, <4>2
      <4> QED
        BY <1>0, <1>1, <4>3 DEF TypeOK
    <3> QED
      BY <1>0, <1>2, <2>2, <3>1, PiecesFrom, GoneStays DEF TextInv, InvGone
  <2> QED
    BY <2>1, <2>2 DEF InvGone, Gone, GoneNext
<1> QED
  BY <1>3, <1>6 DEF InvText

\* What is sent, left and lost are parts of what was there, in its order.
LEMMA TextServes ==
  ASSUME TextInv, NEW c \in Clients, NEW n \in 0..Len(arrived[c]), Serves(c, n)
  PROVE  InvText' /\ InvGone'
<1>0. TypeOK
  BY DEF TextInv, TableInv, TableExact
<1>1. UNCHANGED <<freed, wire, inherited, sent>>
  BY DEF Serves
<1> DEFINE t == Text(c, n)
<1>2. PICK k \in 0..Len(t), m \in 0..Len(t) :
        /\ k <= m
        /\ echoed' = [echoed EXCEPT ![c] = echoed[c] \o SubSeq(t, 1, k)]
        /\ buffer' = [buffer EXCEPT ![c] = SubSeq(t, k + 1, m)]
        /\ cut' = [cut EXCEPT ![c] = cut[c] \/ m < Len(t)]
  BY DEF Serves, Text, Handled
<1> DEFINE r == Behind(arrived[c], n)
<1>3. arrived' = [arrived EXCEPT ![c] = r]
  BY DEF Serves, Behind
<1>4. echoed[c] \in Seq(Pieces) /\ buffer[c] \in Seq(Pieces) /\ arrived[c] \in Seq(Pieces)
  BY <1>0, TextTypes
<1>5. /\ t \in Seq(Pieces) /\ r \in Seq(Pieces)
      /\ Complete(Flow(echoed[c], buffer[c], arrived[c]), Flow(echoed[c], t, r))
  BY <1>4, HandledInOrder DEF Text
<1> HIDE DEF t, r
<1>6. /\ echoed'[c] = echoed[c] \o SubSeq(t, 1, k) /\ buffer'[c] = SubSeq(t, k + 1, m)
      /\ arrived'[c] = r
      /\ cut'[c] <=> (cut[c] \/ m < Len(t))
  BY <1>0, <1>2, <1>3 DEF TypeOK
<1>7. TextInOrder(c)'
  <2>1. TextInOrder(c)
    BY DEF TextInv, InvText
  <2> DEFINE text == inherited[c] \o sent[c]
  <2>2. /\ IsInjective(text) /\ InOrder(Flow(echoed[c], buffer[c], arrived[c]), text)
        /\ wire[c] # "reset" /\ ~cut[c] => Complete(Flow(echoed[c], buffer[c], arrived[c]), text)
        /\ \A l \in DOMAIN sent[c] : sent[c][l] = [from |-> c, n |-> l]
    BY <2>1 DEF TextInOrder, Flow, Complete
  <2>3. inherited'[c] \o sent'[c] = text
    BY <1>1
  <2> HIDE DEF text
  <2> DEFINE old == Flow(echoed[c], t, r)
  <2>4. InOrder(old, text) /\ (wire[c] # "reset" /\ ~cut[c] => Complete(old, text))
    BY ONLY <1>5, <2>2 DEF Complete
  <2> DEFINE new == Flow(echoed[c] \o SubSeq(t, 1, k), SubSeq(t, k + 1, m), r)
  <2>5. InOrder(new, text) /\ (m = Len(t) => Complete(old, new))
    BY <1>2, <1>4, <1>5, <2>4, SentInOrder
  <2>6. Flow(echoed'[c], buffer'[c], arrived'[c]) = new
    BY <1>6
  <2> HIDE DEF old, new
  <2>7. m < Len(t) \/ m = Len(t)
    <3>1. m \in Nat /\ Len(t) \in Nat /\ m <= Len(t)
      BY <1>2, <1>5, LenProperties
    <3> QED
      BY <3>1
  <2>8. wire'[c] # "reset" /\ ~cut'[c] => new = text
    BY ONLY <1>1, <1>6, <2>4, <2>5, <2>7 DEF Complete
  <2>9. IsInjective(text) /\ \A l \in DOMAIN sent'[c] : sent'[c][l] = [from |-> c, n |-> l]
    BY <1>1, <2>2
  <2>10. echoed'[c] \o buffer'[c] \o arrived'[c] = new
    BY ONLY <2>6 DEF Flow
  <2> QED
    BY ONLY <2>3, <2>5, <2>8, <2>9, <2>10 DEF TextInOrder
<1>8. ASSUME NEW e \in Clients, e # c PROVE TextInOrder(e)'
  <2>1. /\ echoed'[e] = echoed[e] /\ buffer'[e] = buffer[e] /\ cut'[e] = cut[e]
        /\ arrived'[e] = arrived[e]
    BY <1>0, <1>2, <1>3, <1>8 DEF TypeOK
  <2>2. TextInOrder(e)
    BY DEF TextInv, InvText
  <2> QED
    BY <1>1, <2>1, <2>2 DEF TextInOrder
<1>9. InvGone'
  BY <1>1 DEF TextInv, InvGone, Gone
<1> QED
  BY <1>7, <1>8, <1>9 DEF InvText

\* A peer sends a piece that nobody sent before, or its text is lost with its connection.
LEMMA TextPeer ==
  ASSUME TextInv, NEW c \in Clients, Peer(c)
  PROVE  InvText' /\ InvGone'
<1>0. TypeOK
  BY DEF TextInv, TableInv, TableExact
<1>1. UNCHANGED <<buffer, freed, inherited, cut, echoed>>
  BY DEF Peer, Connects, SendsPiece, HangsUp, Resets, clientVars
<1>2. NobodyReturns
  BY <1>0 DEF Peer, Connects, SendsPiece, HangsUp, Resets, TypeOK, NobodyReturns
<1>3. CASE Connects(c) \/ HangsUp(c)
  <2>1. UNCHANGED <<freed, inherited, sent, echoed, buffer, arrived, cut>>
    BY <1>1, <1>3 DEF Connects, HangsUp
  <2> QED
    BY <1>2, <2>1, TextFrame
<1>4. InvGone'
  BY <1>1, <1>2, GoneFrame
<1>5. CASE SendsPiece(c) \/ Resets(c)
  <2>1. ASSUME NEW d \in Clients, d # c PROVE TextInOrder(d)'
    <3>1. sent'[d] = sent[d] /\ arrived'[d] = arrived[d]
      BY <1>0, <1>5, <2>1 DEF SendsPiece, Resets, TypeOK
    <3>2. TextInOrder(d)
      BY DEF TextInv, InvText
    <3>3. wire'[d] # "reset" => wire[d] # "reset"
      BY <1>2 DEF NobodyReturns
    <3> QED
      BY <1>1, <3>1, <3>2, <3>3 DEF TextInOrder
  <2>2. TextInOrder(c)
    BY DEF TextInv, InvText
  <2> DEFINE text == inherited[c] \o sent[c]
  <2> DEFINE flow == echoed[c] \o buffer[c] \o arrived[c]
  <2>3. /\ text \in Seq(Pieces) /\ flow \in Seq(Pieces) /\ echoed[c] \o buffer[c] \in Seq(Pieces)
        /\ inherited[c] \in Seq(Pieces) /\ sent[c] \in Seq(Pieces) /\ arrived[c] \in Seq(Pieces)
    BY <1>0, TextTypes
  <2>4. /\ IsInjective(text) /\ InOrder(flow, text)
        /\ wire[c] # "reset" /\ ~cut[c] => flow = text
        /\ \A k \in DOMAIN sent[c] : sent[c][k] = [from |-> c, n |-> k]
    BY <2>2 DEF TextInOrder
  <2>5. CASE SendsPiece(c)
    <3> DEFINE piece == [from |-> c, n |-> Len(sent[c]) + 1]
    <3>1. /\ wire[c] = "open" /\ wire' = wire
          /\ sent' = [sent EXCEPT ![c] = Append(sent[c], piece)]
          /\ arrived' = [arrived EXCEPT ![c] = Append(arrived[c], piece)]
      BY <1>0, <2>5 DEF SendsPiece, TypeOK
    <3>2. /\ sent'[c] = Append(sent[c], piece)
          /\ arrived'[c] = Append(arrived[c], piece)
      BY <1>0, <3>1 DEF TypeOK
    <3>3. piece \in Pieces
      BY <2>3, <2>5, LenProperties DEF SendsPiece, Pieces
    <3>4. piece \notin Range(text)
      <4> SUFFICES ASSUME NEW l \in DOMAIN text, text[l] = piece PROVE FALSE
        BY DEF Range
      <4>1. /\ Len(inherited[c]) \in Nat /\ DOMAIN inherited[c] = 1..Len(inherited[c])
            /\ Len(sent[c]) \in Nat /\ DOMAIN sent[c] = 1..Len(sent[c])
            /\ DOMAIN text = 1..(Len(inherited[c]) + Len(sent[c]))
            /\ text[l] = IF l <= Len(inherited[c]) THEN inherited[c][l]
                         ELSE sent[c][l - Len(inherited[c])]
        BY <2>3, ConcatProperties, LenProperties
      <4> HIDE DEF text
      <4>2. CASE l <= Len(inherited[c])
        <5>1. l \in DOMAIN inherited[c] /\ piece = inherited[c][l]
          BY <4>1, <4>2
        <5>2. Gone(piece)
          BY <5>1 DEF TextInv, InvGone
        <5>3. piece # Junk /\ piece.from = c
          BY DEF Junk
        <5> QED
          BY <3>1, <5>2, <5>3 DEF Gone
      <4>3. CASE ~ (l <= Len(inherited[c]))
        <5>1. \A a, b \in Nat : l \in 1..(a + b) /\ ~ (l <= a) => l - a \in 1..b /\ l - a # b + 1
          OBVIOUS
        <5>2. l \in 1..(Len(inherited[c]) + Len(sent[c]))
          BY <4>1
        <5>3. l - Len(inherited[c]) \in 1..Len(sent[c]) /\ l - Len(inherited[c]) # Len(sent[c]) + 1
          BY <4>1, <4>3, <5>1, <5>2
        <5>4. l - Len(inherited[c]) \in DOMAIN sent[c] /\ piece = sent[c][l - Len(inherited[c])]
          BY <4>1, <4>3, <5>3
        <5>5. piece = [from |-> c, n |-> l - Len(inherited[c])]
          BY <2>4, <5>4
        <5>6. piece.n = Len(sent[c]) + 1
          OBVIOUS
        <5> HIDE DEF piece
        <5>7. piece.n = l - Len(inherited[c])
          BY <5>5
        <5> QED
          BY <5>3, <5>6, <5>7
      <4> QED
        BY <4>2, <4>3
    <3>5. \A k \in DOMAIN sent'[c] : sent'[c][k] = [from |-> c, n |-> k]
      <4> SUFFICES ASSUME NEW k \in DOMAIN sent'[c] PROVE sent'[c][k] = [from |-> c, n |-> k]
        OBVIOUS
      <4>1. /\ Len(sent[c]) \in Nat /\ DOMAIN sent[c] = 1..Len(sent[c])
            /\ DOMAIN sent'[c] = 1..(Len(sent[c]) + 1)
            /\ sent'[c][Len(sent[c]) + 1] = piece
            /\ \A l \in 1..Len(sent[c]) : sent'[c][l] = sent[c][l]
        BY <2>3, <3>2, <3>3, AppendProperties, LenProperties
      <4>2. k \in 1..Len(sent[c]) \/ k = Len(sent[c]) + 1
        BY <4>1
      <4> QED
        BY <2>4, <4>1, <4>2
    <3> HIDE DEF piece
    <3>6. /\ inherited'[c] \o sent'[c] = Append(text, piece)
          /\ echoed'[c] \o buffer'[c] \o arrived'[c] = Append(flow, piece)
      <4>1. Complete(Joined(inherited[c], Append(sent[c], piece)), Append(Joined(inherited[c], sent[c]), piece))
        BY <2>3, <3>3, AppendJoined
      <4> DEFINE before == echoed[c] \o buffer[c]
      <4>2. before \in Seq(Pieces)
        BY <2>3
      <4> HIDE DEF before
      <4>3. Complete(Joined(before, Append(arrived[c], piece)), Append(Joined(before, arrived[c]), piece))
        BY <2>3, <3>3, <4>2, AppendJoined
      <4>4. inherited'[c] \o sent'[c] = Append(text, piece)
        BY <1>1, <3>2, <4>1 DEF Joined, Complete
      <4>5. echoed'[c] \o buffer'[c] \o arrived'[c] = Append(flow, piece)
        BY <1>1, <3>2, <4>3 DEF Joined, Complete, before
      <4> QED
        BY <4>4, <4>5
    <3>7. wire'[c] # "reset" /\ ~cut'[c] => flow = text
      BY <1>1, <2>4, <3>1
    <3> HIDE DEF text, flow
    <3>8. InOrder(Append(flow, piece), Append(text, piece)) /\ IsInjective(Append(text, piece))
      BY <2>3, <2>4, <3>3, <3>4, AppendInOrder
    <3>9. TextInOrder(c)'
      BY <3>5, <3>6, <3>7, <3>8 DEF TextInOrder
    <3> QED
      BY <1>4, <2>1, <3>9 DEF InvText
  <2>6. CASE Resets(c)
    <3>1. /\ wire'[c] = "reset" /\ sent' = sent
          /\ arrived'[c] = arrived[c] \/ arrived'[c] = <<>>
      BY <1>0, <2>6 DEF Resets, TypeOK
    <3>2. InOrder(echoed[c] \o buffer[c] \o <<>>, text)
      <4> DEFINE before == echoed[c] \o buffer[c]
      <4>1. before \in Seq(Pieces) /\ InOrder(before \o arrived[c], text)
        BY <2>3, <2>4
      <4> HIDE DEF before, text
      <4>2. InOrder(before, text)
        BY <2>3, <4>1, FrontInOrder
      <4>3. before \o <<>> = before
        BY <4>1, ConcatEmptySeq
      <4> QED
        BY <4>2, <4>3 DEF before
    <3>3. InOrder(echoed'[c] \o buffer'[c] \o arrived'[c], text)
      BY <1>1, <2>4, <3>1, <3>2
    <3>4. inherited'[c] \o sent'[c] = text
      BY <1>1, <3>1
    <3> HIDE DEF text
    <3>5. TextInOrder(c)'
      BY <2>4, <3>1, <3>3, <3>4 DEF TextInOrder
    <3> QED
      BY <1>4, <2>1, <3>5 DEF InvText
  <2> QED
    BY <1>5, <2>5, <2>6
<1> QED
  BY <1>3, <1>5 DEF Peer

\* Every step keeps the texts in order.
LEMMA TextStep == TextInv /\ [Next]_vars => TextInv'
<1> SUFFICES ASSUME TextInv, [Next]_vars PROVE InvText' /\ InvGone'
  BY TableStep DEF TextInv
<1>0. TypeOK /\ TableExact /\ InvScan /\ TableInv
  BY DEF TextInv, TableInv, TableExact
<1>1. CASE HandlesClient
  <2>1. PICK c \in Clients : c = table[First]
    BY <1>0, <1>1, HandlesText
  <2>2. PICK n \in 0..Len(arrived[c]) : CloseClient(c, Text(c, n)) \/ Serves(c, n)
    BY <1>0, <1>1, <2>1, HandlesText
  <2> QED
    BY <2>2, TextCloses, TextServes
<1>2. CASE LeavesOutside \/ DiesWhenFull \/ AcceptFails
  <2>1. First \in DOMAIN entries /\ entries[First].fd = ListenFd
    BY <1>0, <1>2, ScanTakesFirst DEF LeavesOutside, DiesWhenFull, AcceptFails
  <2>2. First = 0
    BY <1>0, <2>1, ListenEntryIsFirst
  <2>3. Min(Waiting) \in Clients /\ wire[Min(Waiting)] = "backlog"
    BY <1>0, <2>1, <2>2, AdmitsWho DEF InvScan
  <2>4. UNCHANGED <<freed, inherited, sent, echoed, buffer, arrived, cut>>
    BY <1>2 DEF LeavesOutside, DiesWhenFull, AcceptFails, clientVars, netVars
  <2>5. NobodyReturns
    BY <1>0, <1>2, <2>3 DEF LeavesOutside, DiesWhenFull, AcceptFails, netVars, TypeOK, NobodyReturns
  <2> QED
    BY <2>4, <2>5, TextFrame
<1>3. CASE Polls \/ UNCHANGED vars
  <2>1. UNCHANGED <<freed, inherited, sent, echoed, buffer, arrived, cut>>
    BY <1>3 DEF Polls, vars, clientVars, netVars
  <2>2. NobodyReturns
    BY <1>3 DEF Polls, vars, netVars, NobodyReturns
  <2> QED
    BY <2>1, <2>2, TextFrame
<1> QED
  BY <1>1, <1>2, <1>3, TextAdmits, TextPeer DEF Next, Server

\* In the first state there is no text.
LEMMA TextInit == Init => TextInv
<1> SUFFICES ASSUME Init PROVE TextInv
  OBVIOUS
<1>1. <<>> \o <<>> = <<>> /\ DOMAIN <<>> = {}
  <2>1. <<>> \in Seq(Pieces) /\ Len(<<>>) = 0
    BY EmptySeq
  <2> QED
    BY <2>1, ConcatEmptySeq, LenProperties
<1>2. IsInjective(<<>>) /\ InOrder(<<>>, <<>>)
  BY <1>1 DEF IsInjective, InOrder
<1>3. ASSUME NEW c \in Clients PROVE TextInOrder(c)
  <2>1. /\ inherited[c] \o sent[c] = <<>> /\ sent[c] = <<>>
        /\ echoed[c] \o buffer[c] \o arrived[c] = <<>>
    BY <1>1 DEF Init
  <2> QED
    BY <1>1, <1>2, <2>1 DEF TextInOrder
<1>4. InvGone
  BY <1>1 DEF Init, InvGone
<1> QED
  BY <1>3, <1>4, TableInit DEF TextInv, InvText

\* What is sent back to a client is what it sent, behind what the client before it left in the
\* struct, in order and no piece twice, and nothing of it is missing as long as no send() took
\* so little that the rest was overwritten.
THEOREM EchoesInOrder == Spec => []EchoInOrder
<1>1. TextInv => EchoInOrder
  <2> SUFFICES ASSUME TextInv, NEW c \in Clients
               PROVE  LET text     == inherited[c] \o sent[c]
                          Place(i) == CHOOSE k \in DOMAIN text : text[k] = echoed[c][i]
                      IN  /\ Range(echoed[c]) \subseteq Range(text)
                          /\ \A i, j \in DOMAIN echoed[c] : i < j => Place(i) < Place(j)
                          /\ InTable(c) /\ wire[c] # "reset" /\ ~cut[c] =>
                               echoed[c] \o buffer[c] \o arrived[c] = text
    BY DEF EchoInOrder
  <2> DEFINE text == inherited[c] \o sent[c]
  <2>1. TextInOrder(c) /\ TypeOK
    BY DEF TextInv, InvText, TableInv, TableExact
  <2>2. /\ echoed[c] \in Seq(Pieces) /\ text \in Seq(Pieces) /\ buffer[c] \in Seq(Pieces)
        /\ echoed[c] \o buffer[c] \in Seq(Pieces) /\ arrived[c] \in Seq(Pieces)
    BY <2>1, TextTypes
  <2>3. /\ IsInjective(text) /\ InOrder(echoed[c] \o buffer[c] \o arrived[c], text)
        /\ wire[c] # "reset" /\ ~cut[c] => echoed[c] \o buffer[c] \o arrived[c] = text
    BY <2>1 DEF TextInOrder
  <2> HIDE DEF text
  <2>4. InOrder(echoed[c], text)
    <3> DEFINE before == echoed[c] \o buffer[c]
    <3>1. before \in Seq(Pieces) /\ InOrder(before \o arrived[c], text)
      BY <2>2, <2>3
    <3> HIDE DEF before
    <3>2. InOrder(before, text)
      BY <2>2, <3>1, FrontInOrder
    <3>3. InOrder(echoed[c] \o buffer[c], text)
      BY <3>2 DEF before
    <3> QED
      BY <2>2, <3>3, FrontInOrder
  <2>7. Range(echoed[c]) \subseteq Range(text)
    <3>1. \A i \in DOMAIN echoed[c] : \E a \in DOMAIN text : echoed[c][i] = text[a]
      BY <2>2, <2>3, <2>4, OrderedOnce
    <3> QED
      BY <3>1 DEF Range
  <2> DEFINE Place(i) == CHOOSE k \in DOMAIN text : text[k] = echoed[c][i]
  <2>8. ASSUME NEW i \in DOMAIN echoed[c], NEW j \in DOMAIN echoed[c], i < j
        PROVE  Place(i) < Place(j)
    <3>1. i \in Nat /\ j \in Nat /\ DOMAIN text \subseteq Nat
      BY <2>2, LenProperties
    <3>2. i <= j /\ i # j
      BY <2>8, <3>1
    <3>3. PICK a \in DOMAIN text, b \in DOMAIN text :
            /\ a <= b /\ (a = b => i = j)
            /\ echoed[c][i] = text[a] /\ echoed[c][j] = text[b]
      BY <2>4, <3>2 DEF InOrder
    <3>4. Place(i) \in DOMAIN text /\ text[Place(i)] = echoed[c][i]
      BY <3>3
    <3>5. Place(j) \in DOMAIN text /\ text[Place(j)] = echoed[c][j]
      BY <3>3
    <3> HIDE DEF Place
    <3>6. Place(i) = a /\ Place(j) = b
      BY <2>3, <3>3, <3>4, <3>5 DEF IsInjective
    <3>7. a < b
      BY <3>1, <3>2, <3>3
    <3> QED
      BY <3>6, <3>7
  <2> QED
    BY <2>3, <2>7, <2>8 DEF text
<1> QED
  BY <1>1, TextInit, TextStep, PTL DEF Spec
===============================================================================
