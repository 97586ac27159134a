--------------------------- MODULE HTTPServerProofs ---------------------------
(***************************************************************************)
(* Proofs about HTTPServer, for any number of connections, descriptors and *)
(* workers and any size of the pipe and of the send buffers, and, from     *)
(* "Texts" on, about HTTPAnswer, for any number of headers and any size of *)
(* the strings and files.                                                  *)
(***************************************************************************)
EXTENDS HTTPServerNotions, Integers, SequenceTheorems, FiniteSetTheorems, FunctionTheorems,
        WellFoundedInduction, TLAPS

------------------------------
(* Smallest members. *)

\* A set of natural numbers that has a member has a smallest one.
LEMMA LeastMember ==
  ASSUME NEW S, S \subseteq Nat, S # {}
  PROVE  \E m \in S : \A k \in S : m <= k
<1>1. \A x, y \in Nat : x < y => <<x, y>> \in OpToRel(<, Nat)
  BY DEF OpToRel
<1>2. \E R : IsWellFoundedOn(R, Nat) /\ \A x, y \in Nat : x < y => <<x, y>> \in R
  BY <1>1, NatLessThanWellFounded, Zenon
<1>3. PICK R : IsWellFoundedOn(R, Nat) /\ \A x, y \in Nat : x < y => <<x, y>> \in R
  BY <1>2
<1>4. PICK m \in S : \A k \in S : ~ (<<k, m>> \in R)
  BY <1>3, WFMin, ZenonT(30)
<1>5. \A k \in S : ~ (k < m)
  BY <1>3, <1>4, Zenon
<1> QED BY <1>5

------------------------------
(* Sequences one after the other. *)

\* That is what FlattenSeq makes of them.
LEMMA FlattenIs ==
  ASSUME NEW T, NEW N \in Nat, N > 0, NEW h \in [1..N -> Seq(T)]
  PROVE  \E f \in [1..N -> Seq(T)] : Flattens(f, h, N)
<1> DEFINE Next1(n, f) == [i \in 1..n |-> IF i = 1 THEN h[i] ELSE f[i - 1] \o h[i]]
<1> DEFINE Good(n) == \E f \in [1..n -> Seq(T)] : f = Next1(n, f)
<1> DEFINE Bad == {n \in 1..N : ~ Good(n)}
<1>1. Bad = {}
  <2> SUFFICES ASSUME Bad # {} PROVE FALSE
    OBVIOUS
  <2> HIDE DEF Good
  <2>0. Bad \subseteq Nat /\ \A k \in 1..N : k \notin Bad => Good(k)
    OBVIOUS
  <2> HIDE DEF Bad
  <2>1. PICK n \in Bad : \A k \in Bad : n <= k
    BY <2>0, LeastMember
  <2>b. n \in 1..N /\ ~ Good(n)
    BY DEF Bad
  <2> USE DEF Good
  <2>2. CASE n = 1
    <3>1. [i \in 1..n |-> h[i]] \in [1..n -> Seq(T)]
      BY <2>b
    <3>2. [i \in 1..n |-> h[i]] = Next1(n, [i \in 1..n |-> h[i]])
      BY <2>2
    <3> QED BY <2>b, <3>1, <3>2
  <2>3. CASE n # 1
    <3>1. n - 1 \in 1..N /\ n \in 1..N /\ ~ (n <= n - 1)
      BY <2>b, <2>3
    <3>a. Good(n - 1)
      BY <2>0, <2>1, <3>1
    <3>2. PICK f \in [1..(n - 1) -> Seq(T)] : f = Next1(n - 1, f)
      BY <3>a
    <3> DEFINE g == [i \in 1..n |-> IF i < n THEN f[i] ELSE f[n - 1] \o h[n]]
    <3>3. f[n - 1] \o h[n] \in Seq(T)
      <4>1. f[n - 1] \in Seq(T) /\ h[n] \in Seq(T)
        BY <3>1
      <4> QED BY <4>1, ConcatProperties
    <3>4. \A i \in 1..n : g[i] \in Seq(T)
      BY <3>1, <3>3
    <3>5. \A i \in 1..n : g[i] = IF i = 1 THEN h[i] ELSE g[i - 1] \o h[i]
      <4> SUFFICES ASSUME NEW i \in 1..n PROVE g[i] = IF i = 1 THEN h[i] ELSE g[i - 1] \o h[i]
        OBVIOUS
      <4>1. CASE i < n
        <5>1. i \in 1..(n - 1) /\ g[i] = f[i]
          BY <3>1, <4>1
        <5>2. f[i] = IF i = 1 THEN h[i] ELSE f[i - 1] \o h[i]
          BY <3>2, <5>1
        <5>3. i # 1 => i - 1 \in 1..n /\ i - 1 < n
          BY <3>1, <4>1
        <5> QED BY <5>1, <5>2, <5>3
      <4>2. CASE ~ (i < n)
        <5>1. i = n /\ i # 1 /\ n - 1 \in 1..n /\ n \in 1..n /\ n - 1 < n /\ ~ (n < n)
          BY <2>3, <3>1, <4>2
        <5>2. g[n] = f[n - 1] \o h[n] /\ g[n - 1] = f[n - 1]
          BY <5>1
        <5> HIDE DEF g
        <5> QED BY <5>1, <5>2
      <4> QED BY <4>1, <4>2
    <3>6. g \in [1..n -> Seq(T)]
      BY <3>4
    <3>7. g = Next1(n, g)
      BY <3>5
    <3> QED BY <2>b, <3>6, <3>7
  <2> QED BY <2>2, <2>3
<1>2. PICK f \in [1..N -> Seq(T)] : f = Next1(N, f)
  <2>1. N \in 1..N
    OBVIOUS
  <2>2. Good(N)
    BY <1>1, <2>1
  <2> QED BY <2>2
<1>3. ASSUME NEW n \in 1..N, NEW g, g = Next1(n, g) PROVE g[n] = f[n]
  <2> DEFINE Differs == {i \in 1..n : g[i] # f[i]}
  <2>0. Differs \subseteq Nat /\ n \in 1..n /\ \A i \in 1..n : i \in 1..N
    OBVIOUS
  <2>1. ASSUME Differs # {} PROVE FALSE
    <3>1. PICK i \in Differs : \A k \in Differs : i <= k
      BY <2>0, <2>1, LeastMember
    <3>2. i \in 1..n /\ i \in 1..N /\ g[i] # f[i]
      BY <2>0
    <3>3. /\ g[i] = IF i = 1 THEN h[i] ELSE g[i - 1] \o h[i]
          /\ f[i] = IF i = 1 THEN h[i] ELSE f[i - 1] \o h[i]
      BY <1>2, <1>3, <3>2
    <3>4. i # 1 /\ i - 1 \in 1..n /\ ~ (i <= i - 1)
      BY <3>2, <3>3
    <3>5. g[i - 1] = f[i - 1]
      BY <3>1, <3>4
    <3> QED BY <3>2, <3>3, <3>4, <3>5
  <2> QED BY <2>0, <2>1
<1>4. ASSUME NEW n \in 1..N PROVE FlattenSeq([i \in 1..n |-> h[i]]) = f[n]
  <2> DEFINE R == [i \in 1..n |-> h[i]]
  <2> DEFINE Next2(g) == [i \in 1..n |-> IF i = 1 THEN R[i] ELSE g[i - 1] \o R[i]]
  <2>0. \A i \in 1..n : i \in 1..N /\ (i # 1 => i - 1 \in 1..n)
    OBVIOUS
  <2>1. ASSUME NEW g PROVE Next2(g) = Next1(n, g)
    OBVIOUS
  <2>2. R \in Seq(Seq(T)) /\ Len(R) = n /\ n # 0
    <3>1. R \in [1..n -> Seq(T)]
      BY <2>0
    <3> QED BY <3>1, SeqDef, LenProperties
  <2>3. FlattenSeq(R) = (CHOOSE g : g = Next2(g))[n]
    <3> HIDE DEF R
    <3> QED BY <2>2, Zenon DEF FlattenSeq
  <2>4. [i \in 1..n |-> f[i]] = Next1(n, [i \in 1..n |-> f[i]])
    <3>1. \A i \in 1..n : f[i] = IF i = 1 THEN h[i] ELSE f[i - 1] \o h[i]
      BY <1>2, <2>0
    <3> QED BY <2>0, <3>1
  <2> HIDE DEF Next1, Next2
  <2>5. (CHOOSE g : g = Next2(g)) = Next2(CHOOSE g : g = Next2(g))
    BY <2>1, <2>4
  <2> QED BY <1>3, <2>1, <2>3, <2>5
<1>5. \A i \in 1..N : f[i] = IF i = 1 THEN h[i] ELSE f[i - 1] \o h[i]
  BY <1>2
<1> QED BY <1>4, <1>5 DEF Flattens

------------------------------
(* Sets with a few more members. *)

\* A set that three more make as much bigger has none of them, and they are different.
LEMMA ThreeMore ==
  ASSUME NEW S, IsFiniteSet(S), NEW a, NEW b, NEW c,
         Cardinality({a, b, c} \cup S) = Cardinality(S) + 3
  PROVE  /\ a \notin S /\ b \notin S /\ c \notin S
         /\ a # b /\ a # c /\ b # c
<1>1. /\ IsFiniteSet(S \cup {a}) /\ Cardinality(S) \in Nat
      /\ Cardinality(S \cup {a}) = IF a \in S THEN Cardinality(S) ELSE Cardinality(S) + 1
  BY FS_AddElement, FS_CardinalityType
<1>2. /\ IsFiniteSet((S \cup {a}) \cup {b})
      /\ Cardinality((S \cup {a}) \cup {b}) =
           IF b \in S \cup {a} THEN Cardinality(S \cup {a}) ELSE Cardinality(S \cup {a}) + 1
  BY <1>1, FS_AddElement
<1>3. Cardinality(((S \cup {a}) \cup {b}) \cup {c}) =
        IF c \in (S \cup {a}) \cup {b} THEN Cardinality((S \cup {a}) \cup {b})
        ELSE Cardinality((S \cup {a}) \cup {b}) + 1
  BY <1>2, FS_AddElement
<1>4. ((S \cup {a}) \cup {b}) \cup {c} = {a, b, c} \cup S
  OBVIOUS
<1>5. a \notin S /\ b \notin S \cup {a} /\ c \notin (S \cup {a}) \cup {b}
  BY <1>1, <1>2, <1>3, <1>4
<1> QED BY <1>5

\* The same with four.
LEMMA FourMore ==
  ASSUME NEW S, IsFiniteSet(S), NEW a, NEW b, NEW c, NEW d,
         Cardinality({a, b, c, d} \cup S) = Cardinality(S) + 4
  PROVE  /\ a \notin S /\ b \notin S /\ c \notin S /\ d \notin S
         /\ a # b /\ a # c /\ a # d /\ b # c /\ b # d /\ c # d
<1>1. /\ IsFiniteSet(S \cup {d}) /\ Cardinality(S) \in Nat
      /\ Cardinality(S \cup {d}) = IF d \in S THEN Cardinality(S) ELSE Cardinality(S) + 1
  BY FS_AddElement, FS_CardinalityType
<1>2. /\ IsFiniteSet((S \cup {d}) \cup {a})
      /\ Cardinality((S \cup {d}) \cup {a}) =
           IF a \in S \cup {d} THEN Cardinality(S \cup {d}) ELSE Cardinality(S \cup {d}) + 1
  BY <1>1, FS_AddElement
<1>3. /\ IsFiniteSet(((S \cup {d}) \cup {a}) \cup {b})
      /\ Cardinality(((S \cup {d}) \cup {a}) \cup {b}) =
           IF b \in (S \cup {d}) \cup {a} THEN Cardinality((S \cup {d}) \cup {a})
           ELSE Cardinality((S \cup {d}) \cup {a}) + 1
  BY <1>2, FS_AddElement
<1>4. Cardinality((((S \cup {d}) \cup {a}) \cup {b}) \cup {c}) =
        IF c \in ((S \cup {d}) \cup {a}) \cup {b} THEN Cardinality(((S \cup {d}) \cup {a}) \cup {b})
        ELSE Cardinality(((S \cup {d}) \cup {a}) \cup {b}) + 1
  BY <1>3, FS_AddElement
<1>5. (((S \cup {d}) \cup {a}) \cup {b}) \cup {c} = {a, b, c, d} \cup S
  OBVIOUS
<1>6. Cardinality((((S \cup {d}) \cup {a}) \cup {b}) \cup {c}) = Cardinality(S) + 4
  BY <1>5
<1>7. /\ d \notin S /\ a \notin S \cup {d} /\ b \notin (S \cup {d}) \cup {a}
      /\ c \notin ((S \cup {d}) \cup {a}) \cup {b}
  BY <1>1, <1>2, <1>3, <1>4, <1>6
<1> QED BY <1>7

------------------------------
(* Bags. *)

\* A bag with one more.
LEMMA BagAdd ==
  ASSUME NEW B, IsABag(B), NEW j
  PROVE  /\ IsABag(B (+) SetToBag({j}))
         /\ BagToSet(B (+) SetToBag({j})) = BagToSet(B) \cup {j}
         /\ \A k \in BagToSet(B) : k # j => (B (+) SetToBag({j}))[k] = B[k]
         /\ (B (+) SetToBag({j}))[j] = IF j \in BagToSet(B) THEN B[j] + 1 ELSE 1
<1> DEFINE A == B (+) SetToBag({j})
<1>1. DOMAIN A = DOMAIN B \cup {j}
  BY DEF (+), SetToBag
<1>2. \A k \in DOMAIN B : B[k] \in Nat /\ B[k] > 0
  BY DEF IsABag
<1>3. \A k \in DOMAIN A : A[k] = IF k = j THEN IF j \in DOMAIN B THEN B[j] + 1 ELSE 1 ELSE B[k]
  BY <1>2 DEF (+), SetToBag
<1>4. \A k \in DOMAIN A : A[k] \in {n \in Nat : n > 0}
  BY <1>1, <1>2, <1>3
<1>5. A = [k \in DOMAIN A |-> A[k]]
  BY DEF (+)
<1>6. IsABag(A)
  BY <1>4, <1>5 DEF IsABag
<1> QED BY <1>1, <1>3, <1>6 DEF BagToSet

\* A bag with one less.
LEMMA BagDrop ==
  ASSUME NEW B, IsABag(B), NEW j, j \in BagToSet(B)
  PROVE  /\ IsABag(B (-) SetToBag({j}))
         /\ BagToSet(B (-) SetToBag({j})) = IF B[j] = 1 THEN BagToSet(B) \ {j} ELSE BagToSet(B)
         /\ \A k \in BagToSet(B) : k # j => (B (-) SetToBag({j}))[k] = B[k]
         /\ B[j] # 1 => (B (-) SetToBag({j}))[j] = B[j] - 1
<1> DEFINE A == B (-) SetToBag({j})
<1>1. \A k \in DOMAIN B : B[k] \in Nat /\ B[k] > 0
  BY DEF IsABag
<1>2. /\ DOMAIN A = {k \in DOMAIN B : (IF k = j THEN B[k] - 1 ELSE B[k]) > 0}
      /\ \A k \in DOMAIN A : A[k] = IF k = j THEN B[k] - 1 ELSE B[k]
      /\ A = [k \in DOMAIN A |-> A[k]]
  BY DEF (-), SetToBag
<1> HIDE DEF A
<1>3. DOMAIN A = IF B[j] = 1 THEN DOMAIN B \ {j} ELSE DOMAIN B
  BY <1>1, <1>2 DEF BagToSet
<1>4. \A k \in DOMAIN A : A[k] \in {n \in Nat : n > 0}
  BY <1>1, <1>2
<1>5. IsABag(A)
  BY <1>2, <1>4 DEF IsABag
<1>6. /\ \A k \in DOMAIN B : k # j => A[k] = B[k]
      /\ B[j] # 1 => A[j] = B[j] - 1
  BY <1>1, <1>2, <1>3 DEF BagToSet
<1> QED BY <1>3, <1>5, <1>6 DEF BagToSet, A

\* What is in the set of copies.
LEMMA InCopiesAmong ==
  ASSUME NEW B, NEW S
  PROVE  \A t : t \in CopiesAmong(B, S) <=>
                  \E j \in Chosen(B, S) : \E n \in 1..B[j] : t = <<j, n>>
  BY DEF CopiesAmong

\* It is finite.
LEMMA CopiesAmongFinite ==
  ASSUME NEW B, IsABag(B), IsFiniteSet(BagToSet(B)), NEW S
  PROVE  IsFiniteSet(CopiesAmong(B, S)) /\ Cardinality(CopiesAmong(B, S)) \in Nat
<1>1. IsFiniteSet(Chosen(B, S))
  BY FS_Subset DEF Chosen
<1> DEFINE F == [j \in Chosen(B, S) |-> {j} \X (1..B[j])]
<1> DEFINE R == {{j} \X (1..B[j]) : j \in Chosen(B, S)}
<1>2. F \in Surjection(Chosen(B, S), R)
  BY DEF Surjection
<1>3. IsFiniteSet(R)
  BY <1>1, <1>2, FS_Surjection
<1>4. \A j \in Chosen(B, S) : IsFiniteSet({j} \X (1..B[j]))
  <2> SUFFICES ASSUME NEW j \in Chosen(B, S) PROVE IsFiniteSet({j} \X (1..B[j]))
    OBVIOUS
  <2>1. B[j] \in Int /\ 1 \in Int
    BY DEF IsABag, Chosen, BagToSet
  <2>2. IsFiniteSet(1..B[j]) /\ IsFiniteSet({j})
    BY ONLY <2>1, FS_Interval, FS_Singleton
  <2> QED BY <2>2, FS_Product
<1>5. \A T \in R : IsFiniteSet(T)
  BY <1>4
<1>6. IsFiniteSet(UNION R)
  BY <1>3, <1>5, FS_UNION
<1> QED BY <1>6, FS_CardinalityType DEF CopiesAmong

\* One more job.
LEMMA CopiesAmongAdd ==
  ASSUME NEW B, IsABag(B), IsFiniteSet(BagToSet(B)), NEW S, NEW j
  PROVE  Cardinality(CopiesAmong(B (+) SetToBag({j}), S)) =
           Cardinality(CopiesAmong(B, S)) + (IF j \in S THEN 1 ELSE 0)
<1> DEFINE A == B (+) SetToBag({j})
<1> DEFINE n == IF j \in BagToSet(B) THEN B[j] + 1 ELSE 1
<1>1. /\ BagToSet(A) = BagToSet(B) \cup {j}
      /\ \A k \in BagToSet(B) : k # j => A[k] = B[k]
      /\ A[j] = n
  BY BagAdd
<1>2. \A k \in BagToSet(B) : B[k] \in Nat /\ B[k] > 0
  BY DEF IsABag, BagToSet
<1>3. CASE j \notin S
  <2>1. Chosen(A, S) = Chosen(B, S) /\ \A k \in Chosen(B, S) : A[k] = B[k]
    BY <1>1, <1>3 DEF Chosen
  <2>2. CopiesAmong(A, S) = CopiesAmong(B, S)
    BY <2>1 DEF CopiesAmong
  <2> QED BY <1>3, <2>2, CopiesAmongFinite
<1>4. CASE j \in S
  <2>1. Chosen(A, S) = Chosen(B, S) \cup {j}
    BY <1>1, <1>4 DEF Chosen
  <2>2. j \in Chosen(B, S) <=> j \in BagToSet(B)
    BY <1>4 DEF Chosen
  <2>3. \A k \in Chosen(B, S) : k \in BagToSet(B)
    BY DEF Chosen
  <2>4. ASSUME NEW t PROVE t \in CopiesAmong(A, S) <=> t \in CopiesAmong(B, S) \cup {<<j, n>>}
    <3> HIDE DEF A
    <3>1. ASSUME t \in CopiesAmong(A, S) PROVE t \in CopiesAmong(B, S) \cup {<<j, n>>}
      <4>0. PICK k \in Chosen(A, S) : \E m \in 1..A[k] : t = <<k, m>>
        BY <3>1, InCopiesAmong
      <4>1. PICK m \in 1..A[k] : t = <<k, m>>
        BY <4>0
      <4>2. CASE k # j
        BY <4>1, <4>2, <2>1, <2>3, <1>1, InCopiesAmong
      <4>3. CASE k = j /\ j \in BagToSet(B)
        <5>1. m \in 1..B[j] \/ m = n
          BY <4>1, <4>3, <1>1, <1>2
        <5> QED BY <5>1, <4>1, <4>3, <2>2, InCopiesAmong
      <4>4. CASE k = j /\ j \notin BagToSet(B)
        BY <4>1, <4>4, <1>1
      <4> QED BY <4>2, <4>3, <4>4
    <3>2. ASSUME t \in CopiesAmong(B, S) PROVE t \in CopiesAmong(A, S)
      <4>0. PICK k \in Chosen(B, S) : \E m \in 1..B[k] : t = <<k, m>>
        BY <3>2, InCopiesAmong
      <4>1. PICK m \in 1..B[k] : t = <<k, m>>
        BY <4>0
      <4>2. k \in Chosen(A, S) /\ m \in 1..A[k]
        BY <4>1, <2>1, <2>3, <1>1, <1>2
      <4> QED BY <4>1, <4>2, InCopiesAmong
    <3>3. <<j, n>> \in CopiesAmong(A, S)
      <4>1. n \in 1..A[j] /\ j \in Chosen(A, S)
        BY <2>1, <1>1, <1>2
      <4> QED BY <4>1, InCopiesAmong
    <3> QED BY <3>1, <3>2, <3>3
  <2>5. <<j, n>> \notin CopiesAmong(B, S)
    <3> SUFFICES ASSUME <<j, n>> \in CopiesAmong(B, S) PROVE FALSE
      OBVIOUS
    <3>0. PICK k \in Chosen(B, S) : \E m \in 1..B[k] : <<j, n>> = <<k, m>>
      BY InCopiesAmong
    <3>1. PICK m \in 1..B[k] : <<j, n>> = <<k, m>>
      BY <3>0
    <3>2. k = j /\ m = n /\ j \in BagToSet(B)
      BY <3>1, <2>3
    <3> QED BY <3>1, <3>2, <1>2
  <2>6. CopiesAmong(A, S) = CopiesAmong(B, S) \cup {<<j, n>>}
    BY <2>4
  <2> QED
    BY ONLY <1>4, <2>5, <2>6, CopiesAmongFinite, FS_AddElement, IsABag(B), IsFiniteSet(BagToSet(B))
<1> QED BY <1>3, <1>4

\* One job less.
LEMMA CopiesAmongDrop ==
  ASSUME NEW B, IsABag(B), IsFiniteSet(BagToSet(B)), NEW S, NEW j, j \in BagToSet(B)
  PROVE  Cardinality(CopiesAmong(B, S)) =
           Cardinality(CopiesAmong(B (-) SetToBag({j}), S)) + (IF j \in S THEN 1 ELSE 0)
<1> DEFINE A == B (-) SetToBag({j})
<1>1. /\ BagToSet(A) = IF B[j] = 1 THEN BagToSet(B) \ {j} ELSE BagToSet(B)
      /\ \A k \in BagToSet(B) : k # j => A[k] = B[k]
      /\ B[j] # 1 => A[j] = B[j] - 1
      /\ IsABag(A)
  BY BagDrop
<1>2. \A k \in BagToSet(B) : B[k] \in Nat /\ B[k] > 0
  BY DEF IsABag, BagToSet
<1>3. IsFiniteSet(BagToSet(A))
  BY <1>1, FS_RemoveElement
<1> HIDE DEF A
<1>4. BagToSet(A (+) SetToBag({j})) = BagToSet(B)
  <2>1. BagToSet(A (+) SetToBag({j})) = BagToSet(A) \cup {j}
    BY ONLY <1>1, BagAdd
  <2> QED BY <2>1, <1>1
<1>5. \A k \in BagToSet(B) : (A (+) SetToBag({j}))[k] = B[k]
  <2>1. /\ \A k \in BagToSet(A) : k # j => (A (+) SetToBag({j}))[k] = A[k]
        /\ (A (+) SetToBag({j}))[j] = IF j \in BagToSet(A) THEN A[j] + 1 ELSE 1
    BY ONLY <1>1, BagAdd
  <2> QED BY <2>1, <1>1, <1>2
<1>6. CopiesAmong(A (+) SetToBag({j}), S) = CopiesAmong(B, S)
  <2>1. Chosen(A (+) SetToBag({j}), S) = Chosen(B, S)
    BY <1>4 DEF Chosen
  <2>2. \A k \in Chosen(B, S) : (A (+) SetToBag({j}))[k] = B[k]
    BY <1>5 DEF Chosen
  <2> QED BY <2>1, <2>2 DEF CopiesAmong
<1>7. Cardinality(CopiesAmong(A (+) SetToBag({j}), S)) =
        Cardinality(CopiesAmong(A, S)) + (IF j \in S THEN 1 ELSE 0)
  BY ONLY <1>1, <1>3, CopiesAmongAdd
<1> QED BY <1>6, <1>7 DEF A

------------------------------
(* The constants. *)

\* The descriptors and blocks that are not those of connections.
LEMMA Constants ==
  /\ PipeFd \notin Sockets /\ ListenFd \notin Sockets /\ None \notin Sockets
  /\ PipeFd # ListenFd /\ PipeFd # None /\ ListenFd # None
  /\ PipeBlock \notin Connections /\ Listener \notin Connections /\ NoBlock \notin Connections
  /\ None \notin Connections
  /\ PipeBlock # NoBlock /\ Listener # NoBlock /\ PipeBlock # Listener
  /\ None \notin Descriptors
<1>1. /\ PipeFd \notin Sockets /\ ListenFd \notin Sockets /\ None \notin Sockets
      /\ PipeFd # ListenFd /\ PipeFd # None /\ ListenFd # None
  BY HTTPServerAssumption, ThreeMore
<1>2. /\ PipeBlock \notin Connections /\ Listener \notin Connections /\ NoBlock \notin Connections
      /\ None \notin Connections
      /\ PipeBlock # NoBlock /\ Listener # NoBlock /\ PipeBlock # Listener
  <2>1. Cardinality({PipeBlock, Listener, NoBlock, None} \cup Connections)
          = Cardinality(Connections) + 4
    BY HTTPServerAssumption
  <2>2. IsFiniteSet(Connections)
    BY HTTPServerAssumption
  <2> QED BY ONLY <2>1, <2>2, FourMore, Zenon
<1> QED BY <1>1, <1>2 DEF Descriptors

------------------------------
(* Updates. *)

\* What is registered and what is removed.
LEMMA UpdateFacts ==
  /\ \A fd, block, events, repeat :
       /\ Register(fd, block, events, repeat).fd = fd
       /\ Register(fd, block, events, repeat).block = block
       /\ Register(fd, block, events, repeat).repeat = repeat
       /\ Register(fd, block, events, repeat).events = events
       /\ Register(fd, block, events, repeat).revents = "none"
  /\ \A fd : Unregister(fd).block = NoBlock /\ Unregister(fd).fd = fd
  /\ \A fd, fd2 : Unregister(fd) = Unregister(fd2) => fd = fd2
<1>1. \A fd : Unregister(fd).block = NoBlock /\ Unregister(fd).fd = fd
  BY DEF Register, Unregister
<1>2. \A fd, fd2 : Unregister(fd) = Unregister(fd2) => fd = fd2
  BY <1>1
<1> QED BY <1>1, <1>2 DEF Register

\* They are updates.
LEMMA UpdateTypes ==
  /\ \A fd \in Descriptors : Unregister(fd) \in Updates
  /\ \A fd \in Descriptors, c \in Connections : \A ev \in {"in", "out"} :
       Register(fd, c, ev, FALSE) \in Updates
  /\ Register(PipeFd, PipeBlock, "in", TRUE) \in Updates
  /\ Register(ListenFd, Listener, "in", TRUE) \in Updates
  BY DEF Register, Unregister, Updates, Descriptors

------------------------------
(* Counting the references to a connection. *)

\* What is in the set of copies.
LEMMA InCopies ==
  ASSUME NEW B, NEW c
  PROVE  \A t : t \in CopiesOf(B, c) <=>
                  \E j \in BlocksOf(B, c) : \E n \in 1..B[j] : t = <<j, n>>
  BY DEF CopiesOf

\* They are the copies of the jobs that are blocks of c.
LEMMA BlocksAreChosen ==
  ASSUME NEW B, NEW c, NEW S, \A k \in BagToSet(B) : k \in S <=> IsBlockOf(k, c)
  PROVE  CopiesOf(B, c) = CopiesAmong(B, S)
<1>1. BlocksOf(B, c) = Chosen(B, S)
  BY DEF BlocksOf, Chosen, IsBlockOf
<1> QED BY <1>1 DEF CopiesOf, CopiesAmong

\* There are finitely many.
LEMMA CopiesFinite ==
  ASSUME NEW B, IsABag(B), IsFiniteSet(BagToSet(B)), NEW c
  PROVE  IsFiniteSet(CopiesOf(B, c)) /\ Cardinality(CopiesOf(B, c)) \in Nat
<1> DEFINE S == {k \in BagToSet(B) : IsBlockOf(k, c)}
<1>1. CopiesOf(B, c) = CopiesAmong(B, S)
  BY BlocksAreChosen
<1> HIDE DEF S
<1> QED BY <1>1, CopiesAmongFinite

\* One more job.
LEMMA CopiesAdd ==
  ASSUME NEW B, IsABag(B), IsFiniteSet(BagToSet(B)), NEW c, NEW j
  PROVE  Cardinality(CopiesOf(B (+) SetToBag({j}), c)) =
           Cardinality(CopiesOf(B, c)) + (IF IsBlockOf(j, c) THEN 1 ELSE 0)
<1> DEFINE S == {k \in BagToSet(B) \cup {j} : IsBlockOf(k, c)}
<1>1. BagToSet(B (+) SetToBag({j})) = BagToSet(B) \cup {j}
  BY BagAdd
<1>2. CopiesOf(B, c) = CopiesAmong(B, S)
  BY BlocksAreChosen
<1>3. CopiesOf(B (+) SetToBag({j}), c) = CopiesAmong(B (+) SetToBag({j}), S)
  BY <1>1, BlocksAreChosen
<1>4. j \in S <=> IsBlockOf(j, c)
  OBVIOUS
<1> HIDE DEF S
<1>5. Cardinality(CopiesAmong(B (+) SetToBag({j}), S)) =
        Cardinality(CopiesAmong(B, S)) + (IF j \in S THEN 1 ELSE 0)
  BY CopiesAmongAdd
<1> QED BY <1>2, <1>3, <1>4, <1>5

\* One job less.
LEMMA CopiesDrop ==
  ASSUME NEW B, IsABag(B), IsFiniteSet(BagToSet(B)), NEW c, NEW j, j \in BagToSet(B)
  PROVE  Cardinality(CopiesOf(B, c)) =
           Cardinality(CopiesOf(B (-) SetToBag({j}), c)) + (IF IsBlockOf(j, c) THEN 1 ELSE 0)
<1> DEFINE S == {k \in BagToSet(B) : IsBlockOf(k, c)}
<1>1. \A k \in BagToSet(B (-) SetToBag({j})) : k \in BagToSet(B)
  BY BagDrop
<1>2. CopiesOf(B, c) = CopiesAmong(B, S)
  BY BlocksAreChosen
<1>3. CopiesOf(B (-) SetToBag({j}), c) = CopiesAmong(B (-) SetToBag({j}), S)
  BY <1>1, BlocksAreChosen
<1>4. j \in S <=> IsBlockOf(j, c)
  OBVIOUS
<1> HIDE DEF S
<1>5. Cardinality(CopiesAmong(B, S)) =
        Cardinality(CopiesAmong(B (-) SetToBag({j}), S)) + (IF j \in S THEN 1 ELSE 0)
  BY CopiesAmongDrop
<1> QED BY <1>2, <1>3, <1>4, <1>5

\* The indices of the elements that capture c: there are finitely many.
LEMMA CaptureFinite ==
  ASSUME NEW S, NEW seq \in Seq(S), NEW c
  PROVE  /\ IsFiniteSet(Capturing(seq, c)) /\ Cardinality(Capturing(seq, c)) \in Nat
         /\ Capturing(seq, c) \subseteq 1..Len(seq)
<1>1. DOMAIN seq = 1..Len(seq) /\ Len(seq) \in Int /\ 1 \in Int
  BY LenProperties
<1>2. IsFiniteSet(1..Len(seq))
  BY <1>1, FS_Interval
<1>3. Capturing(seq, c) \subseteq 1..Len(seq)
  BY <1>1 DEF Capturing
<1> QED BY <1>2, <1>3, FS_Subset, FS_CardinalityType

\* One more at the end.
LEMMA CaptureAppend ==
  ASSUME NEW S, NEW seq \in Seq(S), NEW e \in S, NEW c
  PROVE  /\ Capturing(Append(seq, e), c) =
              Capturing(seq, c) \cup (IF e.block = c THEN {Len(seq) + 1} ELSE {})
         /\ Cardinality(Capturing(Append(seq, e), c)) =
              Cardinality(Capturing(seq, c)) + (IF e.block = c THEN 1 ELSE 0)
<1>1. /\ DOMAIN Append(seq, e) = 1..(Len(seq) + 1)
      /\ \A i \in 1..Len(seq) : Append(seq, e)[i] = seq[i]
      /\ Append(seq, e)[Len(seq) + 1] = e
      /\ DOMAIN seq = 1..Len(seq) /\ Len(seq) \in Nat
  BY AppendProperties, LenProperties
<1>2. Capturing(Append(seq, e), c) =
        Capturing(seq, c) \cup (IF e.block = c THEN {Len(seq) + 1} ELSE {})
  <2>1. \A i : i \in 1..(Len(seq) + 1) <=> i \in 1..Len(seq) \/ i = Len(seq) + 1
    BY <1>1
  <2> QED BY <1>1, <2>1 DEF Capturing
<1>3. IsFiniteSet(Capturing(seq, c)) /\ Cardinality(Capturing(seq, c)) \in Nat
  BY CaptureFinite
<1>4. Len(seq) + 1 \notin Capturing(seq, c)
  BY <1>1, CaptureFinite
<1>5. Cardinality(Capturing(seq, c) \cup {Len(seq) + 1}) = Cardinality(Capturing(seq, c)) + 1
  BY ONLY <1>3, <1>4, FS_AddElement
<1>6. CASE e.block = c
  BY <1>2, <1>5, <1>6
<1>7. CASE e.block # c
  <2>1. Capturing(Append(seq, e), c) = Capturing(seq, c)
    BY <1>2, <1>7
  <2> QED BY <1>2, <1>3, <1>7, <2>1
<1> QED BY <1>6, <1>7

\* One less at the end.
LEMMA CaptureTail ==
  ASSUME NEW S, NEW seq \in Seq(S), seq # <<>>, NEW c
  PROVE  /\ \A i : i \in Capturing(Tail(seq), c) <=> i \in Nat \ {0} /\ i + 1 \in Capturing(seq, c)
         /\ Cardinality(Capturing(seq, c)) =
              Cardinality(Capturing(Tail(seq), c)) + (IF Head(seq).block = c THEN 1 ELSE 0)
<1>1. /\ DOMAIN Tail(seq) = 1..Len(Tail(seq)) /\ Len(Tail(seq)) = Len(seq) - 1
      /\ \A i \in 1..Len(Tail(seq)) : Tail(seq)[i] = seq[i + 1]
      /\ DOMAIN seq = 1..Len(seq) /\ Len(seq) \in Nat \ {0}
      /\ Head(seq) = seq[1] /\ Tail(seq) \in Seq(S)
  BY HeadTailProperties, LenProperties, EmptySeq
<1>2. \A i : i \in DOMAIN Tail(seq) <=> i \in Nat \ {0} /\ i + 1 \in DOMAIN seq
  BY <1>1
<1>3. \A i : i \in Capturing(Tail(seq), c) <=> i \in Nat \ {0} /\ i + 1 \in Capturing(seq, c)
  BY <1>1, <1>2 DEF Capturing
<1> DEFINE A == Capturing(seq, c) \ {1}
<1> DEFINE T == Capturing(Tail(seq), c)
<1> DEFINE f == [i \in T |-> i + 1]
<1>4. f \in Bijection(T, A)
  <2>1. \A i \in T : i \in Nat \ {0} /\ i + 1 \in A
    BY <1>3
  <2>2. \A k \in A : \E i \in T : f[i] = k
    <3> SUFFICES ASSUME NEW k \in A PROVE \E i \in T : f[i] = k
      OBVIOUS
    <3>1. k \in Nat \ {0, 1}
      BY <1>1 DEF Capturing
    <3>2. k - 1 \in T /\ k - 1 + 1 = k
      BY <1>3, <3>1
    <3> QED BY <3>2
  <2>3. \A i, k \in T : f[i] = f[k] => i = k
    BY <2>1
  <2> QED BY <2>1, <2>2, <2>3 DEF Bijection, Injection, Surjection, IsInjective
<1>5. IsFiniteSet(T) /\ IsFiniteSet(Capturing(seq, c))
  BY <1>1, CaptureFinite
<1>6. Cardinality(T) = Cardinality(A) /\ Cardinality(T) \in Nat
  BY ONLY <1>4, <1>5, FS_Bijection, FS_CardinalityType DEF ExistsBijection
<1>7. Cardinality(A) = IF 1 \in Capturing(seq, c) THEN Cardinality(Capturing(seq, c)) - 1
                       ELSE Cardinality(Capturing(seq, c))
  BY <1>5, FS_RemoveElement
<1>8. 1 \in Capturing(seq, c) <=> Head(seq).block = c
  BY <1>1 DEF Capturing
<1>9. Cardinality(Capturing(seq, c)) \in Nat
  BY <1>5, FS_CardinalityType
<1> QED BY <1>3, <1>6, <1>7, <1>8, <1>9

\* One replaced by another.
LEMMA CaptureReplace ==
  ASSUME NEW S, NEW seq \in Seq(S), NEW i \in 1..Len(seq), NEW c, NEW new,
         DOMAIN new = 1..Len(seq),
         \A k \in 1..Len(seq) : k # i => new[k] = seq[k]
  PROVE  Cardinality(Capturing(new, c)) + (IF seq[i].block = c THEN 1 ELSE 0) =
           Cardinality(Capturing(seq, c)) + (IF new[i].block = c THEN 1 ELSE 0)
<1> DEFINE A == Capturing(seq, c)
<1> DEFINE R == Capturing(seq, c) \ {i}
<1>1. /\ DOMAIN seq = 1..Len(seq) /\ DOMAIN new = 1..Len(seq)
      /\ \A k \in 1..Len(seq) : k # i => new[k] = seq[k]
  BY LenProperties
<1>2. Capturing(new, c) = R \cup (IF new[i].block = c THEN {i} ELSE {})
  BY <1>1 DEF Capturing
<1>3. i \in A <=> seq[i].block = c
  BY <1>1 DEF Capturing
<1>4. IsFiniteSet(A) /\ Cardinality(A) \in Nat
  BY CaptureFinite
<1> HIDE DEF A
<1>5. /\ IsFiniteSet(R) /\ Cardinality(R) \in Nat
      /\ Cardinality(R) = IF i \in A THEN Cardinality(A) - 1 ELSE Cardinality(A)
  BY ONLY <1>4, FS_RemoveElement, FS_CardinalityType DEF A
<1>6. Cardinality(R \cup {i}) = Cardinality(R) + 1
  BY ONLY <1>5, FS_AddElement
<1>7. Cardinality(Capturing(new, c)) = Cardinality(R) + (IF new[i].block = c THEN 1 ELSE 0)
  <2>1. CASE new[i].block = c
    BY <1>2, <1>6, <2>1
  <2>2. CASE new[i].block # c
    <3>1. Capturing(new, c) = R
      BY <1>2, <2>2
    <3> QED BY <1>5, <2>2, <3>1
  <2> QED BY <2>1, <2>2
<1> HIDE DEF R
<1> QED BY <1>3, <1>4, <1>5, <1>7 DEF A

\* One removed, and the last in its place.
LEMMA CaptureRemove ==
  ASSUME NEW S, NEW seq \in Seq(S), NEW f \in 1..Len(seq), NEW c, NEW new,
         DOMAIN new = 1..(Len(seq) - 1),
         \A i \in 1..(Len(seq) - 1) : new[i] = IF i = f THEN seq[Len(seq)] ELSE seq[i]
  PROVE  Cardinality(Capturing(seq, c)) =
           Cardinality(Capturing(new, c)) + (IF seq[f].block = c THEN 1 ELSE 0)
<1> DEFINE A == Capturing(seq, c)
<1> DEFINE R == Capturing(seq, c) \ {f}
<1> DEFINE N == Capturing(new, c)
<1> DEFINE g == [i \in N |-> IF i = f THEN Len(seq) ELSE i]
<1>1. DOMAIN seq = 1..Len(seq) /\ Len(seq) \in Nat
  BY LenProperties
<1>0. \A l \in Nat : \A x \in 1..l : /\ x # l => x \in 1..(l - 1)
                                   /\ x \in 1..(l - 1) => x # l
                                   /\ l \in 1..l
  OBVIOUS
<1>2. g \in Bijection(N, R)
  <2>1. \A i \in N : i \in 1..(Len(seq) - 1) /\ new[i].block = c
    BY DEF Capturing
  <2>2. \A i \in N : g[i] \in R
    <3> SUFFICES ASSUME NEW i \in N PROVE g[i] \in R
      OBVIOUS
    <3>1. i \in 1..(Len(seq) - 1) /\ new[i].block = c
      BY <2>1
    <3>2. CASE i = f
      <4>1. seq[Len(seq)].block = c /\ Len(seq) # f /\ Len(seq) \in 1..Len(seq)
        BY <1>0, <1>1, <3>1, <3>2
      <4> QED BY <1>1, <3>2, <4>1 DEF Capturing
    <3>3. CASE i # f
      <4>1. seq[i].block = c /\ i \in 1..Len(seq)
        BY <1>1, <3>1, <3>3
      <4> QED BY <1>1, <3>3, <4>1 DEF Capturing
    <3> QED BY <3>2, <3>3
  <2>3. \A i, k \in N : g[i] = g[k] => i = k
    BY <1>1, <2>1
  <2>4. \A k \in R : \E i \in N : g[i] = k
    <3> SUFFICES ASSUME NEW k \in R PROVE \E i \in N : g[i] = k
      OBVIOUS
    <3>1. k \in 1..Len(seq) /\ k # f /\ seq[k].block = c
      BY <1>1 DEF Capturing
    <3>2. CASE k = Len(seq)
      <4>0. f \in 1..(Len(seq) - 1)
        <5>1. f # Len(seq) /\ f \in 1..Len(seq) /\ Len(seq) \in Nat
          BY <1>1, <3>1, <3>2
        <5> QED BY ONLY <5>1, <1>0
      <4>1. f \in N
        <5>1. new[f] = seq[Len(seq)]
          BY <4>0
        <5> QED BY <4>0, <5>1, <3>1, <3>2 DEF Capturing
      <4> QED BY <4>1, <3>2
    <3>3. CASE k # Len(seq)
      <4>1. k \in N
        BY <1>1, <3>1, <3>3 DEF Capturing
      <4> QED BY <4>1, <3>1
    <3> QED BY <3>2, <3>3
  <2> QED BY <2>2, <2>3, <2>4 DEF Bijection, Injection, Surjection, IsInjective
<1>3. IsFiniteSet(A) /\ Cardinality(A) \in Nat
  BY CaptureFinite
<1>4. f \in A <=> seq[f].block = c
  BY <1>1 DEF Capturing
<1> HIDE DEF A
<1>5. /\ IsFiniteSet(R) /\ Cardinality(R) \in Nat
      /\ Cardinality(R) = IF f \in A THEN Cardinality(A) - 1 ELSE Cardinality(A)
  BY ONLY <1>3, FS_RemoveElement, FS_CardinalityType DEF A
<1>6. Cardinality(N) = Cardinality(R)
  <2>1. ExistsBijection(N, R)
    BY <1>2 DEF ExistsBijection
  <2>2. ExistsBijection(R, N)
    BY ONLY <2>1, Fun_ExistsBijSymmetric
  <2> QED BY ONLY <2>2, <1>5, FS_Bijection
<1> QED BY <1>3, <1>4, <1>5, <1>6 DEF A

------------------------------
(* What the invariant says of a state. *)

\* A finite set with one member at most, and the other way round.
LEMMA AtMostOne ==
  ASSUME NEW S, IsFiniteSet(S)
  PROVE  /\ Cardinality(S) \in Nat
         /\ Cardinality(S) = 0 <=> S = {}
         /\ Cardinality(S) <= 1 <=> \A x, y \in S : x = y
<1>1. Cardinality(S) \in Nat /\ (Cardinality(S) = 0 <=> S = {})
  BY FS_EmptySet, FS_CardinalityType
<1>2. Cardinality(S) = 1 <=> \E x : S = {x}
  BY FS_Singleton
<1>3. (\A x, y \in S : x = y) <=> S = {} \/ \E x : S = {x}
  <2>1. ASSUME \A x, y \in S : x = y, S # {} PROVE \E x : S = {x}
    <3>1. PICK x \in S : TRUE
      BY <2>1
    <3>2. S = {x}
      BY <2>1, <3>1
    <3> QED BY <3>2
  <2> QED BY <2>1
<1> QED BY <1>1, <1>2, <1>3

\* The parts of the invariant, and the references to a connection as they are counted.
LEMMA References ==
  ASSUME ServerInv, NEW c \in Connections
  PROVE  /\ TypeOK /\ IsABag(jobs) /\ IsFiniteSet(BagToSet(jobs))
         /\ IsFiniteSet(Capturing(updates, c)) /\ Cardinality(Capturing(updates, c)) \in Nat
         /\ IsFiniteSet(Capturing(polls, c)) /\ Cardinality(Capturing(polls, c)) \in Nat
         /\ Copies(Blocks(c)) = CopiesOf(jobs, c)
         /\ IsFiniteSet(CopiesOf(jobs, c)) /\ Cardinality(CopiesOf(jobs, c)) \in Nat
         /\ retainCount[c] \in Nat
         /\ retainCount[c] = Cardinality(Capturing(updates, c)) + Cardinality(Capturing(polls, c))
                           + Cardinality(CopiesOf(jobs, c)) + (IF accepting = c THEN 1 ELSE 0)
<1>1. TypeOK /\ IsABag(jobs) /\ IsFiniteSet(BagToSet(jobs))
  BY DEF ServerInv, RetainCountExact, TypeOK, InvLifetime
<1>2. Blocks(c) = BlocksOf(jobs, c)
  BY DEF Blocks, BlocksOf
<1>3. Copies(Blocks(c)) = CopiesOf(jobs, c)
  BY <1>2 DEF Copies, CopiesOf
<1>4. retainCount[c] = Cardinality(Capturing(updates, c)) + Cardinality(Capturing(polls, c))
                         + Cardinality(Copies(Blocks(c))) + (IF accepting = c THEN 1 ELSE 0)
  BY DEF ServerInv, RetainCountExact
<1>5. updates \in Seq(Updates) /\ polls \in Seq(Updates) /\ retainCount[c] \in Nat
  BY <1>1 DEF TypeOK
<1> QED BY <1>1, <1>3, <1>4, <1>5, CaptureFinite, CopiesFinite

\* Whoever holds the only reference is the only one that holds one.
LEMMA OneReference ==
  ASSUME ServerInv, NEW c \in Connections, retainCount[c] <= 1
  PROVE  /\ \A k, m \in Capturing(updates, c) : k = m
         /\ \A i, m \in Capturing(polls, c) : i = m
         /\ \A j, k \in Blocks(c) : j = k /\ jobs[j] = 1
         /\ Capturing(updates, c) # {} =>
              Capturing(polls, c) = {} /\ Blocks(c) = {} /\ accepting # c
         /\ Capturing(polls, c) # {} => Blocks(c) = {} /\ accepting # c
         /\ Blocks(c) # {} => accepting # c
         /\ retainCount[c] = 0 => /\ Capturing(updates, c) = {} /\ Capturing(polls, c) = {}
                                  /\ Blocks(c) = {} /\ accepting # c
<1> DEFINE u == Cardinality(Capturing(updates, c))
<1> DEFINE p == Cardinality(Capturing(polls, c))
<1> DEFINE b == Cardinality(CopiesOf(jobs, c))
<1>1. /\ u \in Nat /\ p \in Nat /\ b \in Nat /\ retainCount[c] \in Nat
      /\ retainCount[c] = u + p + b + (IF accepting = c THEN 1 ELSE 0)
  BY References
<1>2. /\ u = 0 <=> Capturing(updates, c) = {}
      /\ u <= 1 <=> \A k, m \in Capturing(updates, c) : k = m
      /\ p = 0 <=> Capturing(polls, c) = {}
      /\ p <= 1 <=> \A k, m \in Capturing(polls, c) : k = m
      /\ b = 0 <=> CopiesOf(jobs, c) = {}
      /\ b <= 1 <=> \A k, m \in CopiesOf(jobs, c) : k = m
  BY References, AtMostOne
<1>3. \A j \in Blocks(c) : jobs[j] \in Nat \ {0} /\ \A n \in 1..jobs[j] : <<j, n>> \in CopiesOf(jobs, c)
  <2>1. IsABag(jobs)
    BY References
  <2> QED BY <2>1, InCopies DEF Blocks, BlocksOf, IsABag, BagToSet
<1>4. CopiesOf(jobs, c) = {} => Blocks(c) = {}
  <2> SUFFICES ASSUME NEW j \in Blocks(c), CopiesOf(jobs, c) = {} PROVE FALSE
    OBVIOUS
  <2>1. jobs[j] \in Nat \ {0} /\ 1 \in 1..jobs[j]
    BY <1>3
  <2> QED BY <2>1, <1>3
<1>5. ASSUME \A k, m \in CopiesOf(jobs, c) : k = m, NEW j \in Blocks(c), NEW k \in Blocks(c)
      PROVE  j = k /\ jobs[j] = 1
  <2>1. jobs[j] \in Nat \ {0} /\ jobs[k] \in Nat \ {0} /\ 1 \in 1..jobs[j] /\ 1 \in 1..jobs[k]
        /\ jobs[j] \in 1..jobs[j]
    BY <1>3
  <2>2. /\ <<j, 1>> \in CopiesOf(jobs, c) /\ <<k, 1>> \in CopiesOf(jobs, c)
        /\ <<j, jobs[j]>> \in CopiesOf(jobs, c)
    BY <2>1, <1>3
  <2>3. <<j, 1>> = <<k, 1>> /\ <<j, 1>> = <<j, jobs[j]>>
    BY <2>2, <1>5
  <2> QED BY <2>3
<1> HIDE DEF u, p, b
<1>6. u <= 1 /\ p <= 1 /\ b <= 1 /\ (u # 0 => p = 0 /\ b = 0 /\ accepting # c)
      /\ (p # 0 => b = 0 /\ accepting # c) /\ (b # 0 => accepting # c)
      /\ (retainCount[c] = 0 => u = 0 /\ p = 0 /\ b = 0 /\ accepting # c)
  BY <1>1
<1>7. Blocks(c) # {} => b # 0
  BY <1>2, <1>4
<1> QED BY <1>2, <1>4, <1>5, <1>6, <1>7

\* A connection with a reference was accepted.
LEMMA Accepted ==
  ASSUME ServerInv, NEW c \in Connections,
         Capturing(updates, c) # {} \/ Capturing(polls, c) # {} \/ Blocks(c) # {} \/ accepting = c
  PROVE  retainCount[c] \in Nat \ {0} /\ wire[c] \notin {"away", "backlog"}
<1>1. retainCount[c] \in Nat
  BY References
<1>2. retainCount[c] # 0
  BY <1>1, OneReference
<1> QED BY <1>1, <1>2 DEF ServerInv, InvLifetime

\* A block at work on a connection is alone with it, and it has its descriptor.
LEMMA SoleWorker ==
  ASSUME ServerInv, NEW c \in Connections, NEW j \in AtWork(c)
  PROVE  /\ AtWork(c) = {j} /\ jobs[j] = 1
         /\ Capturing(updates, c) = {} /\ Armed(c) = {} /\ ~Creating(c) /\ ~Fired(c)
         /\ socket[c] \in Sockets /\ owner[socket[c]] = c
         /\ j \in Blocks(c) /\ j \in BagToSet(jobs) /\ j.conn = c /\ j.kind # "dealloc"
<1>1. Alone(c)
  BY DEF ServerInv, InvAlone
<1>2. socket[c] # None
  BY DEF ServerInv, InvDescriptor, HasDescriptor
<1>3. socket[c] \in Sockets /\ owner[socket[c]] = c
  BY <1>2, ZenonT(30) DEF ServerInv, RetainCountExact, TypeOK, SocketIsOwn
<1> QED BY <1>1, <1>3 DEF Alone, AtWork, Blocks

\* Nobody else has the descriptor of a connection.
LEMMA OwnDescriptor ==
  ASSUME ServerInv, NEW c \in Connections, NEW d \in Connections, socket[c] = socket[d],
         socket[c] # None
  PROVE  c = d
  BY DEF ServerInv, SocketIsOwn

\* The descriptor of a connection that waits for nothing can be taken out of the poll.
LEMMA Removable ==
  ASSUME ServerInv, NEW c \in Connections, socket[c] # None,
         Capturing(updates, c) = {}, Armed(c) = {}
  PROVE  /\ \A k \in DOMAIN updates :
              updates[k].block \in Connections => updates[k].fd # socket[c]
         /\ \A i \in DOMAIN polls :
              polls[i].block \in Connections /\ polls[i].fd = socket[c] => Removed(i)
<1>1. ASSUME NEW k \in DOMAIN updates, updates[k].block \in Connections,
             updates[k].fd = socket[c]
      PROVE  FALSE
  <2> DEFINE d == updates[k].block
  <2>1. k \in Capturing(updates, d)
    BY DEF Capturing
  <2>2. updates[k].fd = socket[d]
    BY <1>1, <2>1 DEF ServerInv, InvDescriptor, HasDescriptor
  <2>3. c = d
    BY <1>1, <2>2, OwnDescriptor
  <2> QED BY <2>1, <2>3
<1>2. ASSUME NEW i \in DOMAIN polls, polls[i].block \in Connections,
             polls[i].fd = socket[c], ~Removed(i)
      PROVE  FALSE
  <2> DEFINE d == polls[i].block
  <2>1. i \in Armed(d)
    BY <1>2 DEF Capturing, Armed
  <2>2. polls[i].fd = socket[d]
    BY <1>2, <2>1 DEF ServerInv, InvDescriptor, HasDescriptor
  <2>3. c = d
    BY <1>2, <2>2, OwnDescriptor
  <2> QED BY <2>1, <2>3
<1> QED BY <1>1, <1>2

------------------------------
(* What a step changes. *)

\* That keeps what the invariant says of d.
LEMMA UndisturbedKeeps ==
  ASSUME NEW d, Alone(d), HasDescriptor(d), Undisturbed(d)
  PROVE  Alone(d)' /\ HasDescriptor(d)'
<1>1. Capturing(updates, d)' = Capturing(updates', d)
  BY DEF Capturing
<1>2. /\ Capturing(updates, d)' # {} => Capturing(updates, d) # {}
      /\ Armed(d)' # {} => Armed(d) # {}
      /\ AtWork(d)' # {} => AtWork(d) # {}
      /\ Creating(d)' => Creating(d)
      /\ Fired(d)' => Fired(d)
  BY <1>1 DEF Undisturbed
<1>3. Alone(d)'
  BY <1>1, <1>2 DEF Undisturbed, Alone
<1>4. HasDescriptor(d)'
  BY <1>1, <1>2 DEF Undisturbed, HasDescriptor
<1> QED BY <1>3, <1>4

\* One more update.
LEMMA Appended ==
  ASSUME TypeOK, NEW u \in Updates, updates' = Append(updates, u)
  PROVE  /\ updates' \in Seq(Updates)
         /\ DOMAIN updates = 1..Len(updates) /\ Len(updates) \in Nat
         /\ DOMAIN updates' = 1..(Len(updates) + 1)
         /\ \A k \in DOMAIN updates : k \in DOMAIN updates' /\ updates'[k] = updates[k]
         /\ updates'[Len(updates) + 1] = u
         /\ \A k \in DOMAIN updates' : k \in DOMAIN updates \/ k = Len(updates) + 1
<1>1. updates \in Seq(Updates)
  BY DEF TypeOK
<1>2. /\ updates' \in Seq(Updates) /\ Len(updates') = Len(updates) + 1
      /\ \A i \in 1..Len(updates) : updates'[i] = updates[i]
      /\ updates'[Len(updates) + 1] = u
  BY <1>1, AppendProperties
<1>3. /\ DOMAIN updates = 1..Len(updates) /\ Len(updates) \in Nat
      /\ DOMAIN updates' = 1..Len(updates')
  BY <1>1, <1>2, LenProperties
<1>4. \A l \in Nat : \A k \in 1..(l + 1) : k \in 1..l \/ k = l + 1
  OBVIOUS
<1>5. \A l \in Nat : \A k \in 1..l : k \in 1..(l + 1)
  OBVIOUS
<1> QED BY <1>2, <1>3, <1>4, <1>5

\* An entry is about to be removed if it was, or if the new update removes it.
LEMMA AppendedRemoved ==
  ASSUME TypeOK, NEW u \in Updates, updates' = Append(updates, u), NEW i,
         polls'[i].fd = polls[i].fd
  PROVE  Removed(i)' <=> Removed(i) \/ u = Unregister(polls[i].fd)
<1>1. Len(updates) + 1 \in DOMAIN updates'
  BY Appended
<1>2. ASSUME NEW k \in DOMAIN updates', updates'[k] = Unregister(polls[i].fd)
      PROVE  Removed(i) \/ u = Unregister(polls[i].fd)
  BY <1>2, Appended DEF Removed
<1>3. Removed(i) \/ u = Unregister(polls[i].fd)
        => \E k \in DOMAIN updates' : updates'[k] = Unregister(polls[i].fd)
  BY <1>1, Appended DEF Removed
<1>4. Removed(i)' <=> \E k \in DOMAIN updates' : updates'[k] = Unregister(polls[i].fd)
  BY DEF Removed
<1> QED BY <1>2, <1>3, <1>4

\* It captures nothing and disarms nothing.
LEMMA AppendRemoval ==
  ASSUME ServerInv, NEW fd \in Descriptors, Unneeded(fd),
         updates' = Append(updates, Unregister(fd)), UNCHANGED polls
  PROVE  /\ \A c \in Connections :
              /\ Capturing(updates', c) = Capturing(updates, c)
              /\ Cardinality(Capturing(updates', c)) = Cardinality(Capturing(updates, c))
              /\ Armed(c)' = Armed(c)
         /\ \A c \in Connections : \A k \in Capturing(updates, c) : updates'[k].fd = updates[k].fd
         /\ \A i \in DOMAIN polls :
              polls[i].block \in Connections => (Removed(i)' <=> Removed(i))
         /\ InvQueueOrder' /\ InvEntries'
<1> DEFINE u == Unregister(fd)
<1>0. TypeOK
  BY DEF ServerInv, RetainCountExact
<1>1. u \in Updates /\ u.block = NoBlock /\ u.fd = fd
  BY UpdateTypes, UpdateFacts
<1>2. \A i \in DOMAIN polls : polls[i].block \in Connections => (Removed(i)' <=> Removed(i))
  <2> SUFFICES ASSUME NEW i \in DOMAIN polls, polls[i].block \in Connections
               PROVE  Removed(i)' <=> Removed(i)
    OBVIOUS
  <2>1. Removed(i)' <=> Removed(i) \/ u = Unregister(polls[i].fd)
    BY <1>0, <1>1, AppendedRemoved
  <2>2. u = Unregister(polls[i].fd) => polls[i].fd = fd
    BY UpdateFacts
  <2> QED BY <2>1, <2>2 DEF Unneeded
<1> HIDE DEF u
<1>3. ASSUME NEW c \in Connections
      PROVE  /\ Capturing(updates', c) = Capturing(updates, c)
             /\ Cardinality(Capturing(updates', c)) = Cardinality(Capturing(updates, c))
  <2>1. u.block # c
    BY <1>1, Constants
  <2>2. updates \in Seq(Updates)
    BY <1>0 DEF TypeOK
  <2>3. /\ Capturing(Append(updates, u), c) =
             Capturing(updates, c) \cup (IF u.block = c THEN {Len(updates) + 1} ELSE {})
        /\ Cardinality(Capturing(Append(updates, u), c)) =
             Cardinality(Capturing(updates, c)) + (IF u.block = c THEN 1 ELSE 0)
    BY ONLY <2>2, <1>1, CaptureAppend
  <2>4. Cardinality(Capturing(updates, c)) \in Nat
    BY References
  <2> QED BY <2>1, <2>3, <2>4 DEF u
<1>4. ASSUME NEW c \in Connections PROVE Armed(c)' = Armed(c)
  BY <1>2 DEF Armed, Capturing
<1>5. /\ DOMAIN updates = 1..Len(updates) /\ Len(updates) \in Nat
      /\ \A k \in DOMAIN updates : updates'[k] = updates[k]
      /\ updates'[Len(updates) + 1] = u
      /\ \A k \in DOMAIN updates' : k \in DOMAIN updates \/ k = Len(updates) + 1
  BY <1>0, <1>1, Appended DEF u
<1>6. InvQueueOrder'
  <2> SUFFICES ASSUME NEW k \in DOMAIN updates', NEW m \in DOMAIN updates', k < m,
                      updates'[k].block \in Connections
               PROVE  updates'[m] # Unregister(updates'[k].fd)
    BY DEF InvQueueOrder
  <2>1. k \in DOMAIN updates
    <3>1. k # Len(updates) + 1
      BY <1>1, <1>5, Constants
    <3> QED BY <3>1, <1>5
  <2>2. CASE m \in DOMAIN updates
    BY <2>1, <2>2, <1>5 DEF ServerInv, InvQueueOrder
  <2>3. CASE m = Len(updates) + 1
    <3>1. updates[k].fd # fd
      BY <2>1, <1>5 DEF Unneeded
    <3> QED BY <2>1, <2>3, <3>1, <1>5, UpdateFacts DEF u
  <2> QED BY <2>2, <2>3, <1>5
<1>7. InvEntries'
  BY <1>1, <1>5 DEF ServerInv, InvEntries
<1> QED BY <1>2, <1>3, <1>4, <1>5, <1>6, <1>7 DEF Capturing

\* What is registered is captured, and disarms nothing.
LEMMA AppendRegistration ==
  ASSUME ServerInv, NEW u \in Updates, u.block # NoBlock, u.block \in Connections <=> ~u.repeat,
         updates' = Append(updates, u), UNCHANGED polls
  PROVE  /\ \A c \in Connections :
              /\ Capturing(updates', c) =
                   Capturing(updates, c) \cup (IF u.block = c THEN {Len(updates) + 1} ELSE {})
              /\ Cardinality(Capturing(updates', c)) =
                   Cardinality(Capturing(updates, c)) + (IF u.block = c THEN 1 ELSE 0)
              /\ Armed(c)' = Armed(c)
         /\ \A c \in Connections : \A k \in Capturing(updates, c) : updates'[k].fd = updates[k].fd
         /\ updates'[Len(updates) + 1] = u
         /\ \A i \in DOMAIN polls : Removed(i)' <=> Removed(i)
         /\ InvQueueOrder' /\ InvEntries'
<1>0. TypeOK
  BY DEF ServerInv, RetainCountExact
<1>1. \A fd : u # Unregister(fd)
  BY UpdateFacts
<1>2. \A i \in DOMAIN polls : Removed(i)' <=> Removed(i)
  BY <1>0, <1>1, AppendedRemoved
<1>3. ASSUME NEW c \in Connections
      PROVE  /\ Capturing(updates', c) =
                  Capturing(updates, c) \cup (IF u.block = c THEN {Len(updates) + 1} ELSE {})
             /\ Cardinality(Capturing(updates', c)) =
                  Cardinality(Capturing(updates, c)) + (IF u.block = c THEN 1 ELSE 0)
  <2>1. updates \in Seq(Updates)
    BY <1>0 DEF TypeOK
  <2> QED BY <2>1, CaptureAppend
<1>4. ASSUME NEW c \in Connections PROVE Armed(c)' = Armed(c)
  BY <1>2 DEF Armed, Capturing
<1>5. /\ DOMAIN updates = 1..Len(updates) /\ Len(updates) \in Nat
      /\ \A k \in DOMAIN updates : updates'[k] = updates[k]
      /\ updates'[Len(updates) + 1] = u
      /\ \A k \in DOMAIN updates' : k \in DOMAIN updates \/ k = Len(updates) + 1
  BY <1>0, Appended
<1>6. InvQueueOrder'
  <2> SUFFICES ASSUME NEW k \in DOMAIN updates', NEW m \in DOMAIN updates', k < m,
                      updates'[k].block \in Connections
               PROVE  updates'[m] # Unregister(updates'[k].fd)
    BY DEF InvQueueOrder
  <2>1. CASE m \in DOMAIN updates
    <3>1. k \in DOMAIN updates
      BY <2>1, <1>5
    <3> QED BY <2>1, <3>1, <1>5 DEF ServerInv, InvQueueOrder
  <2>2. CASE m = Len(updates) + 1
    BY <2>2, <1>1, <1>5
  <2> QED BY <2>1, <2>2, <1>5
<1>7. InvEntries'
  BY <1>5 DEF ServerInv, InvEntries
<1> QED BY <1>2, <1>3, <1>4, <1>5, <1>6, <1>7 DEF Capturing

\* What a new job is.
LEMMA NewJob ==
  ASSUME NEW c \in Connections, NEW kind \in JobKinds, NEW step \in JobSteps
  PROVE  /\ Job(c, kind, step) \in Jobs
         /\ Job(c, kind, step).conn = c
         /\ Job(c, kind, step).kind = kind
         /\ Job(c, kind, step).step = step
  BY DEF Job, Jobs, JobKinds, JobSteps

\* What a job is after a step.
LEMMA NextJob ==
  ASSUME NEW j \in Jobs, NEW step \in JobSteps
  PROVE  /\ [j EXCEPT !.step = step] \in Jobs
         /\ [j EXCEPT !.step = step].conn = j.conn
         /\ [j EXCEPT !.step = step].kind = j.kind
         /\ [j EXCEPT !.step = step].step = step
         /\ j.step # step => [j EXCEPT !.step = step] # j
         /\ j.conn \in Connections /\ j.kind \in JobKinds /\ j.step \in JobSteps
  BY DEF Jobs, JobSteps, JobKinds

\* One job more: who is at work.
LEMMA WorkAdd ==
  ASSUME NEW B, IsABag(B), NEW j, NEW c
  PROVE  Added(B (+) SetToBag({j}), B, j, c)
<1> DEFINE A == B (+) SetToBag({j})
<1>1. /\ BagToSet(A) = BagToSet(B) \cup {j}
      /\ \A k \in BagToSet(B) : k # j => A[k] = B[k]
  BY BagAdd
<1> HIDE DEF A
<1>2. \A k \in WorkOf(B, c) : k # j => A[k] = B[k]
  BY <1>1 DEF WorkOf
<1>3. WorkOf(A, c) = WorkOf(B, c) \cup (IF j.conn = c /\ IsAtWork(j) THEN {j} ELSE {})
  BY <1>1 DEF WorkOf
<1>4. Added(A, B, j, c)
  BY <1>2, <1>3 DEF Added
<1> QED BY <1>4 DEF A

\* One job less: who is at work.
LEMMA WorkDrop ==
  ASSUME NEW B, IsABag(B), NEW j, j \in BagToSet(B), NEW c
  PROVE  Dropped(B (-) SetToBag({j}), B, j, c)
<1> DEFINE A == B (-) SetToBag({j})
<1>1. /\ BagToSet(A) = IF B[j] = 1 THEN BagToSet(B) \ {j} ELSE BagToSet(B)
      /\ \A k \in BagToSet(B) : k # j => A[k] = B[k]
  BY BagDrop
<1> HIDE DEF A
<1>2. \A k \in WorkOf(B, c) : k # j => A[k] = B[k]
  BY <1>1 DEF WorkOf
<1>3. WorkOf(A, c) = IF B[j] = 1 THEN WorkOf(B, c) \ {j} ELSE WorkOf(B, c)
  BY <1>1 DEF WorkOf
<1>4. Dropped(A, B, j, c)
  BY <1>2, <1>3 DEF Dropped
<1> QED BY <1>4 DEF A

\* A job goes on: its references, its connection's workers, and how often they are there.
LEMMA WorkAdvance ==
  ASSUME NEW B, IsABag(B), IsFiniteSet(BagToSet(B)), NEW j, j \in BagToSet(B), NEW new, new # j,
         NEW c
  PROVE  Advanced((B (-) SetToBag({j})) (+) SetToBag({new}), B, j, new, c)
<1> DEFINE D == B (-) SetToBag({j})
<1> DEFINE A == D (+) SetToBag({new})
<1>1. /\ IsABag(D) /\ IsFiniteSet(BagToSet(D))
      /\ BagToSet(D) = IF B[j] = 1 THEN BagToSet(B) \ {j} ELSE BagToSet(B)
      /\ \A k \in BagToSet(B) : k # j => D[k] = B[k]
  BY BagDrop, FS_RemoveElement
<1>2. Cardinality(CopiesOf(B, c)) =
        Cardinality(CopiesOf(D, c)) + (IF IsBlockOf(j, c) THEN 1 ELSE 0)
  BY CopiesDrop
<1>3. Dropped(D, B, j, c)
  BY WorkDrop
<1> HIDE DEF D
<1>4. Cardinality(CopiesOf(A, c)) =
        Cardinality(CopiesOf(D, c)) + (IF IsBlockOf(new, c) THEN 1 ELSE 0)
  BY <1>1, CopiesAdd
<1>5. Added(A, D, new, c)
  BY <1>1, WorkAdd
<1>6. Cardinality(CopiesOf(D, c)) \in Nat
  BY <1>1, CopiesFinite
<1>7. /\ \A k \in BagToSet(D) : k # new => A[k] = D[k]
      /\ A[new] = IF new \in BagToSet(D) THEN D[new] + 1 ELSE 1
  BY <1>1, BagAdd
<1> HIDE DEF A
<1>8. Cardinality(CopiesOf(A, c)) + (IF IsBlockOf(j, c) THEN 1 ELSE 0) =
        Cardinality(CopiesOf(B, c)) + (IF IsBlockOf(new, c) THEN 1 ELSE 0)
  BY <1>2, <1>4, <1>6
<1>9. WorkOf(A, c) = (IF B[j] = 1 THEN WorkOf(B, c) \ {j} ELSE WorkOf(B, c))
                       \cup (IF new.conn = c /\ IsAtWork(new) THEN {new} ELSE {})
  BY <1>3, <1>5 DEF Added, Dropped
<1>10. \A k \in BagToSet(B) : k # j /\ k # new => A[k] = B[k]
  BY <1>1, <1>7
<1>11. A[new] = IF new \in BagToSet(B) THEN B[new] + 1 ELSE 1
  BY <1>1, <1>7
<1>12. Advanced(A, B, j, new, c)
  BY <1>8, <1>9, <1>10, <1>11 DEF Advanced
<1> QED BY <1>12 DEF A, D

------------------------------
(* Types. *)

\* A byte more in the pipe, or a few taken from it.
LEMMA PipeTypes ==
  ASSUME TypeOK
  PROVE  /\ Written(pipe) \in 0..PipeSize /\ Written(pipe) > 0
         /\ (IF pipe > ReadSize THEN pipe - ReadSize ELSE 0) \in 0..PipeSize
<1>1. pipe \in 0..PipeSize /\ PipeSize \in Nat \ {0} /\ ReadSize \in Nat \ {0}
  BY WebPollAssumption DEF TypeOK
<1> QED BY ONLY <1>1 DEF Written

\* Where the loop goes on.
LEMMA PendingIsMet ==
  ASSUME TypeOK, Pending # {}
  PROVE  /\ Min(Pending) \in DOMAIN polls /\ Min(Pending) \in Nat \ {0} /\ Min(Pending) >= cursor
         /\ polls[Min(Pending)].revents # "none"
<1>1. polls \in Seq(Updates) /\ cursor \in Nat \ {0}
  BY DEF TypeOK
<1>2. DOMAIN polls = 1..Len(polls) /\ Len(polls) \in Nat
  BY <1>1, LenProperties
<1>3. Pending \subseteq Nat
  BY <1>1, <1>2 DEF Pending
<1>4. Min(Pending) \in Pending
  BY <1>3, LeastMember DEF Min
<1>5. \A x \in Pending : x \in cursor..Len(polls) /\ polls[x].revents # "none"
  BY DEF Pending
<1> QED BY <1>1, <1>2, <1>4, <1>5

\* An entry is an update.
LEMMA EntryTypes ==
  ASSUME TypeOK
  PROVE  /\ \A i \in DOMAIN polls : polls[i] \in Updates
         /\ \A k \in DOMAIN updates : updates[k] \in Updates
         /\ polls \in Seq(Updates) /\ DOMAIN polls = 1..Len(polls) /\ Len(polls) \in Nat
         /\ updates \in Seq(Updates) /\ DOMAIN updates = 1..Len(updates) /\ Len(updates) \in Nat
<1>1. polls \in Seq(Updates) /\ updates \in Seq(Updates)
  BY DEF TypeOK
<1> QED BY <1>1, LenProperties, ElementOfSeq

\* Entries with other revents.
LEMMA EntriesReported ==
  ASSUME TypeOK, NEW r, \A i \in DOMAIN polls : r[i] \in {"none", "ready", "hup"},
         polls' = [i \in DOMAIN polls |-> [polls[i] EXCEPT !.revents = r[i]]]
  PROVE  /\ polls' \in Seq(Updates) /\ DOMAIN polls' = DOMAIN polls
         /\ \A i \in DOMAIN polls : /\ polls'[i].fd = polls[i].fd
                                    /\ polls'[i].block = polls[i].block
                                    /\ polls'[i].repeat = polls[i].repeat
                                    /\ polls'[i].events = polls[i].events
<1>1. /\ DOMAIN polls = 1..Len(polls) /\ Len(polls) \in Nat
      /\ \A i \in DOMAIN polls : polls[i] \in Updates
  BY EntryTypes
<1>2. ASSUME NEW i \in DOMAIN polls
      PROVE  /\ polls'[i] \in Updates
             /\ polls'[i].fd = polls[i].fd /\ polls'[i].block = polls[i].block
             /\ polls'[i].repeat = polls[i].repeat /\ polls'[i].events = polls[i].events
  <2>1. polls[i] \in Updates /\ r[i] \in {"none", "ready", "hup"}
    BY <1>1
  <2>2. polls'[i] = [polls[i] EXCEPT !.revents = r[i]]
    OBVIOUS
  <2> QED BY <2>1, <2>2 DEF Updates
<1>3. polls' \in [1..Len(polls) -> Updates]
  BY <1>1, <1>2
<1>4. polls' \in Seq(Updates)
  BY <1>1, <1>3, SeqDef
<1> QED BY <1>1, <1>2, <1>4

\* What the kernel can report.
LEMMA ReventsTypes ==
  \A p : Revents(p) \in {"none", "ready", "hup"}
  BY DEF Revents

\* The queue after an update was taken, with what its block's release adds.
LEMMA Extra ==
  ASSUME ServerInv, NEW c
  PROVE  \/ ~Disposed(c) /\ DisposeUpdates(c) = <<>>
         \/ /\ Disposed(c) /\ c \in Connections /\ retainCount[c] = 1
            /\ socket[c] \in Sockets /\ owner[socket[c]] = c
            /\ DisposeUpdates(c) = <<Unregister(socket[c])>>
            /\ Unregister(socket[c]) \in Updates
<1>1. CASE ~Disposed(c)
  BY <1>1 DEF DisposeUpdates
<1>2. CASE Disposed(c)
  <2>1. c \in Connections /\ retainCount[c] = 1 /\ socket[c] # None
    BY <1>2 DEF Disposed, Freed
  <2>2. socket[c] \in Sockets /\ owner[socket[c]] = c
    BY <2>1 DEF ServerInv, RetainCountExact, TypeOK, SocketIsOwn
  <2>3. Unregister(socket[c]) \in Updates
    BY <2>2, UpdateTypes DEF Descriptors
  <2> QED BY <1>2, <2>1, <2>2, <2>3 DEF DisposeUpdates
<1> QED BY <1>1, <1>2

\* An element at the end.
LEMMA ConcatOne ==
  ASSUME NEW S, NEW seq \in Seq(S), NEW e \in S
  PROVE  seq \o <<>> = seq /\ seq \o <<e>> = Append(seq, e)
<1>1. seq \o <<>> = seq
  BY ConcatEmptySeq
<1>2. <<e>> \in Seq(S) /\ Len(<<e>>) = 1 /\ <<e>>[1] = e
  OBVIOUS
<1>3. /\ seq \o <<e>> \in Seq(S) /\ Len(seq \o <<e>>) = Len(seq) + 1
      /\ \A i \in 1..Len(seq) + 1 : (seq \o <<e>>)[i] = IF i <= Len(seq) THEN seq[i]
                                                        ELSE <<e>>[i - Len(seq)]
  BY <1>2, ConcatProperties
<1>4. /\ Append(seq, e) \in Seq(S) /\ Len(Append(seq, e)) = Len(seq) + 1
      /\ \A i \in 1..Len(seq) : Append(seq, e)[i] = seq[i]
      /\ Append(seq, e)[Len(seq) + 1] = e
  BY AppendProperties
<1>5. Len(seq) \in Nat
  BY LenProperties
<1>6. \A l \in Nat : \A i \in 1..(l + 1) : (i <= l /\ i \in 1..l) \/ (i = l + 1 /\ ~(i <= l) /\ i - l = 1)
  OBVIOUS
<1>7. \A i \in 1..(Len(seq) + 1) : (seq \o <<e>>)[i] = Append(seq, e)[i]
  <2> SUFFICES ASSUME NEW i \in 1..(Len(seq) + 1) PROVE (seq \o <<e>>)[i] = Append(seq, e)[i]
    OBVIOUS
  <2>1. (seq \o <<e>>)[i] = IF i <= Len(seq) THEN seq[i] ELSE <<e>>[i - Len(seq)]
    BY <1>3
  <2>2. (i <= Len(seq) /\ i \in 1..Len(seq))
          \/ (i = Len(seq) + 1 /\ ~(i <= Len(seq)) /\ i - Len(seq) = 1)
    BY <1>5, <1>6
  <2> QED BY <2>1, <2>2, <1>2, <1>4
<1>8. seq \o <<e>> = Append(seq, e)
  BY ONLY <1>3, <1>4, <1>7, SeqEqual
<1> QED BY <1>1, <1>8

\* close() keeps them.
LEMMA CloseTypes ==
  ASSUME TypeOK, NEW c, Close(c)
  PROVE  /\ socket' \in [Connections -> Sockets \cup {None}]
         /\ owner' \in [Sockets -> Connections \cup {None}]
         /\ wire' \in [Connections -> {"away", "backlog", "quiet", "some", "request", "waiting",
                                       "closed", "reset", "gone"}]
         /\ room' \in [Connections -> 0..SendBuffer]
<1>1. SendBuffer \in 0..SendBuffer
  BY HTTPServerAssumption
<1>2. socket' \in [Connections -> Sockets \cup {None}]
  BY DEF TypeOK, Close
<1>3. owner' \in [Sockets -> Connections \cup {None}]
  BY DEF TypeOK, Close
<1>4. wire' \in [Connections -> {"away", "backlog", "quiet", "some", "request", "waiting",
                                 "closed", "reset", "gone"}]
  BY DEF TypeOK, Close
<1>5. room' \in [Connections -> 0..SendBuffer]
  BY <1>1 DEF TypeOK, Close
<1> QED BY <1>2, <1>3, <1>4, <1>5

\* The queue and the entries keep their types when an update is applied.
LEMMA ApplyTypes ==
  ASSUME ServerInv, PollApplies
  PROVE  /\ polls' \in Seq(Updates) /\ updates' \in Seq(Updates)
         /\ retainCount' \in [Connections -> Nat] /\ pipe' \in 0..PipeSize
         /\ socket' \in [Connections -> Sockets \cup {None}]
         /\ owner' \in [Sockets -> Connections \cup {None}]
         /\ wire' \in [Connections -> {"away", "backlog", "quiet", "some", "request", "waiting",
                                       "closed", "reset", "gone"}]
         /\ room' \in [Connections -> 0..SendBuffer]
<1>0. TypeOK
  BY DEF ServerInv, RetainCountExact
<1>1. updates # <<>> /\ updates \in Seq(Updates) /\ polls \in Seq(Updates)
  BY <1>0 DEF TypeOK, PollApplies, ApplyRegister, ApplyUnregister, Draining
<1>2. Tail(updates) \in Seq(Updates) /\ Head(updates) \in Updates
  BY <1>1, HeadTailProperties
<1>3. updates' \in Seq(Updates)
  <2>1. updates' = Tail(updates) \o DisposeUpdates(Displaced)
    BY DEF PollApplies, ApplyRegister, ApplyUnregister
  <2>2. CASE DisposeUpdates(Displaced) = <<>>
    BY <2>1, <2>2, <1>2, ConcatEmptySeq
  <2>3. CASE DisposeUpdates(Displaced) # <<>>
    <3>1. PICK u \in Updates : DisposeUpdates(Displaced) = <<u>>
      BY <2>3, Extra
    <3>2. Append(Tail(updates), u) \in Seq(Updates)
      BY <1>2, AppendProperties
    <3> QED BY <2>1, <3>1, <3>2, <1>2, ConcatOne
  <2> QED BY <2>2, <2>3
<1>4. IndexOf(Head(updates).fd) # {} =>
        (CHOOSE i \in IndexOf(Head(updates).fd) : TRUE) \in DOMAIN polls
  BY DEF IndexOf
<1>5. polls' \in Seq(Updates)
  <2>1. CASE ApplyRegister(DisposeUpdates(Displaced))
    <3>1. CASE IndexOf(Head(updates).fd) = {}
      BY <2>1, <3>1, <1>1, <1>2, AppendProperties DEF ApplyRegister
    <3>2. CASE IndexOf(Head(updates).fd) # {}
      <4>1. PICK i \in 1..Len(polls) : polls' = [polls EXCEPT ![i] = Head(updates)]
        BY <2>1, <3>2, <1>1, <1>4, LenProperties DEF ApplyRegister
      <4> QED BY <4>1, <1>1, <1>2, ExceptSeq
    <3> QED BY <3>1, <3>2
  <2>2. CASE ApplyUnregister(DisposeUpdates(Displaced))
    <3>1. CASE IndexOf(Head(updates).fd) = {}
      BY <2>2, <3>1, <1>1 DEF ApplyUnregister
    <3>2. CASE IndexOf(Head(updates).fd) # {}
      <4> DEFINE found == IndexOf(Head(updates).fd)
      <4> DEFINE last == Len(polls)
      <4>1. polls' = [i \in 1..(last - 1) |-> IF i \in found THEN polls[last] ELSE polls[i]]
        BY <2>2, <3>2 DEF ApplyUnregister
      <4>2. last \in Nat \ {0} /\ DOMAIN polls = 1..last
        BY <1>1, <3>2, LenProperties DEF IndexOf
      <4>3. \A i \in 1..last : polls[i] \in Updates
        BY <1>1, ElementOfSeq
      <4>4. last - 1 \in Nat /\ \A i \in 1..(last - 1) : i \in 1..last
        BY <4>2
      <4>5. last \in 1..last
        BY <4>2
      <4> HIDE DEF found, last
      <4>6. polls' \in [1..(last - 1) -> Updates]
        BY <4>1, <4>3, <4>4, <4>5
      <4> QED BY <4>4, <4>6, SeqDef
    <3> QED BY <3>1, <3>2
  <2> QED BY <2>1, <2>2 DEF PollApplies
<1>6. Displaced \in Connections => retainCount[Displaced] \in Nat \ {0}
  <2> SUFFICES ASSUME Displaced \in Connections PROVE retainCount[Displaced] \in Nat \ {0}
    OBVIOUS
  <2>1. PICK i \in DOMAIN polls : polls[i].block = Displaced
    BY <1>4, Constants DEF Displaced
  <2>2. i \in Capturing(polls, Displaced)
    BY <2>1 DEF Capturing
  <2> QED BY <2>2, Accepted
<1>7. retainCount' \in [Connections -> Nat]
  <2>1. retainCount' = IF Displaced \in Connections THEN Count(Displaced, -1) ELSE retainCount
    BY DEF PollApplies, ReleaseInPoll
  <2>2. retainCount \in [Connections -> Nat]
    BY <1>0 DEF TypeOK
  <2>3. \A n \in Nat \ {0} : n + (-1) \in Nat
    OBVIOUS
  <2> QED BY <2>1, <2>2, <2>3, <1>6 DEF Count
<1>8. pipe' \in 0..PipeSize
  BY <1>0, PipeTypes DEF PollApplies, ReleaseInPoll, TypeOK
<1>9. /\ socket' \in [Connections -> Sockets \cup {None}]
      /\ owner' \in [Sockets -> Connections \cup {None}]
      /\ wire' \in [Connections -> {"away", "backlog", "quiet", "some", "request", "waiting",
                                    "closed", "reset", "gone"}]
      /\ room' \in [Connections -> 0..SendBuffer]
  <2>1. CASE Disposed(Displaced)
    <3>1. Close(Displaced)
      BY <2>1 DEF PollApplies, ReleaseInPoll
    <3> QED BY <1>0, <3>1, CloseTypes
  <2>2. CASE ~Disposed(Displaced)
    BY <1>0, <2>2 DEF PollApplies, ReleaseInPoll, TypeOK
  <2> QED BY <2>1, <2>2
<1> QED BY <1>3, <1>5, <1>7, <1>8, <1>9

\* Bags of jobs stay such.
LEMMA BagTypes ==
  ASSUME NEW B, IsABag(B), BagToSet(B) \subseteq Jobs
  PROVE  /\ \A new \in Jobs : /\ IsABag(B (+) SetToBag({new}))
                              /\ BagToSet(B (+) SetToBag({new})) \subseteq Jobs
         /\ \A j \in BagToSet(B) : /\ IsABag(B (-) SetToBag({j}))
                                   /\ BagToSet(B (-) SetToBag({j})) \subseteq Jobs
<1>1. ASSUME NEW new \in Jobs
      PROVE  /\ IsABag(B (+) SetToBag({new}))
             /\ BagToSet(B (+) SetToBag({new})) \subseteq Jobs
  <2>1. /\ IsABag(B (+) SetToBag({new}))
        /\ BagToSet(B (+) SetToBag({new})) = BagToSet(B) \cup {new}
    BY BagAdd
  <2> QED BY <2>1
<1>2. ASSUME NEW j \in BagToSet(B)
      PROVE  IsABag(B (-) SetToBag({j})) /\ BagToSet(B (-) SetToBag({j})) \subseteq Jobs
  BY BagDrop
<1> QED BY <1>1, <1>2

\* The connection of a job, and the references of its block.
LEMMA JobTypes ==
  ASSUME ServerInv, NEW j \in BagToSet(jobs)
  PROVE  /\ j \in Jobs /\ j.conn \in Connections /\ j.kind \in JobKinds /\ j.step \in JobSteps
         /\ j.step \in {"start", "hup", "sending", "notify", "finish"} => j.kind # "dealloc"
         /\ j.kind # "dealloc" => j \in Blocks(j.conn) /\ retainCount[j.conn] \in Nat \ {0}
         /\ IsAtWork(j) => j \in AtWork(j.conn)
<1>1. j \in Jobs
  BY DEF ServerInv, RetainCountExact, TypeOK
<1>2. j.conn \in Connections /\ j.kind \in JobKinds /\ j.step \in JobSteps
  BY <1>1 DEF Jobs, JobKinds, JobSteps
<1>3. j.step \in {"start", "hup", "sending", "notify", "finish"} => j.kind # "dealloc"
  BY DEF ServerInv, InvLifetime
<1>4. j.kind # "dealloc" => j \in Blocks(j.conn)
  BY DEF Blocks
<1> QED BY <1>1, <1>2, <1>3, <1>4, Accepted DEF AtWork, IsAtWork

\* What Await registers is an update.
LEMMA AwaitTypes ==
  ASSUME ServerInv, NEW c \in Connections, socket[c] # None, NEW ev \in {"in", "out"},
         Await(c, ev)
  PROVE  /\ Register(socket[c], c, ev, FALSE) \in Updates
         /\ updates' = Append(updates, Register(socket[c], c, ev, FALSE))
         /\ updates' \in Seq(Updates)
         /\ retainCount' \in [Connections -> Nat]
         /\ retainCount'[c] = retainCount[c] + 1
         /\ \A d \in Connections : d # c => retainCount'[d] = retainCount[d]
<1>0. TypeOK
  BY DEF ServerInv, RetainCountExact
<1>1. socket[c] \in Descriptors
  BY <1>0 DEF TypeOK, Descriptors
<1>2. Register(socket[c], c, ev, FALSE) \in Updates
  BY <1>1, UpdateTypes
<1>3. updates' = Append(updates, Register(socket[c], c, ev, FALSE))
  BY DEF Await
<1>4. updates' \in Seq(Updates)
  BY <1>0, <1>2, <1>3, Appended
<1>5. retainCount \in [Connections -> Nat] /\ retainCount' = [retainCount EXCEPT ![c] = @ + 1]
  BY <1>0 DEF TypeOK, Await, Count
<1>6. /\ retainCount' \in [Connections -> Nat]
      /\ retainCount'[c] = retainCount[c] + 1
      /\ \A d \in Connections : d # c => retainCount'[d] = retainCount[d]
  BY <1>5
<1> QED BY <1>2, <1>3, <1>4, <1>6

\* Counting keeps the type, down from a number that is not zero.
LEMMA CountTypes ==
  ASSUME TypeOK, NEW c \in Connections
  PROVE  /\ Count(c, 1) \in [Connections -> Nat]
         /\ Count(c, 1)[c] = retainCount[c] + 1
         /\ retainCount[c] # 0 => Count(c, -1) \in [Connections -> Nat]
         /\ Count(c, -1)[c] = retainCount[c] - 1
         /\ \A d \in Connections : d # c => /\ Count(c, 1)[d] = retainCount[d]
                                            /\ Count(c, -1)[d] = retainCount[d]
<1>1. retainCount \in [Connections -> Nat]
  BY DEF TypeOK
<1>2. \A n \in Nat : n + (-1) = n - 1 /\ (n # 0 => n + (-1) \in Nat) /\ n + 1 \in Nat
  OBVIOUS
<1> QED BY <1>1, <1>2 DEF Count

\* What a connection sent is taken from it.
LEMMA InputTypes ==
  ASSUME TypeOK, NEW c, TakeInput(c)
  PROVE  wire' \in [Connections -> {"away", "backlog", "quiet", "some", "request", "waiting",
                                    "closed", "reset", "gone"}]
  BY DEF TypeOK, TakeInput

\* Every step of the main thread and of a peer keeps the types.
LEMMA MainAndPeerTypes ==
  ASSUME ServerInv, Main \/ \E c \in Connections : Peer(c)
  PROVE  TypeOK'
<1>0. TypeOK
  BY DEF ServerInv, RetainCountExact
<1>1. CASE MainRegisters
  <2>1. updates' \in Seq(Updates)
    BY <1>0, <1>1, UpdateTypes, Appended DEF MainRegisters
  <2> QED BY <1>0, <1>1, <2>1 DEF MainRegisters, TypeOK, connVarsButMain, netVars
<1>2. CASE MainNotifies
  <2>1. pipe' \in 0..PipeSize
    BY <1>0, <1>2, PipeTypes DEF MainNotifies, Notify
  <2> QED BY <1>0, <1>2, <2>1 DEF MainNotifies, TypeOK, connVarsButMain, netVars
<1>3. ASSUME NEW c \in Connections, Peer(c) PROVE TypeOK'
  <2>1. wire' \in [Connections -> {"away", "backlog", "quiet", "some", "request", "waiting",
                                   "closed", "reset", "gone"}]
    BY <1>0, <1>3 DEF Peer, Connect, SendsPart, SendsRequest, HangsUp, Receives, TypeOK
  <2>2. room' \in [Connections -> 0..SendBuffer]
    <3>1. CASE Receives(c)
      <4>1. PICK n \in (room[c] + 1)..SendBuffer : room' = [room EXCEPT ![c] = n]
        BY <3>1 DEF Receives
      <4>2. room \in [Connections -> 0..SendBuffer] /\ SendBuffer \in Nat
        BY <1>0, HTTPServerAssumption DEF TypeOK
      <4>3. n \in 0..SendBuffer
        BY <4>2
      <4> QED BY <4>1, <4>2, <4>3
    <3>2. CASE ~Receives(c)
      BY <1>0, <1>3, <3>2 DEF Peer, Connect, SendsPart, SendsRequest, HangsUp, TypeOK
    <3> QED BY <3>1, <3>2
  <2>3. UNCHANGED <<pollVars, connVars, owner>>
    BY <1>3 DEF Peer, Connect, SendsPart, SendsRequest, HangsUp, Receives, peerFrame
  <2> QED BY <1>0, <2>1, <2>2, <2>3 DEF TypeOK, pollVars, connVars, connVarsButMain
<1> QED BY <1>1, <1>2, <1>3 DEF Main

\* Every step of the poll thread keeps the types.
LEMMA PollThreadTypes ==
  ASSUME ServerInv, PollThread
  PROVE  TypeOK'
<1>0. TypeOK
  BY DEF ServerInv, RetainCountExact
<1>1. CASE PollApplies
  <2>1. UNCHANGED <<thread, cursor, socksToHandle, accepting, jobs, main>>
    BY <1>1 DEF PollApplies, ApplyRegister, ApplyUnregister
  <2> QED BY <1>0, <1>1, <2>1, ApplyTypes DEF TypeOK
<1>2. CASE PollLoops
  <2>1. UNCHANGED <<connVars, netVars>>
    BY <1>2 DEF PollLoops
  <2>2. CASE RegisterPipe
    <3>1. updates' \in Seq(Updates)
      BY <1>0, <2>2, UpdateTypes, Appended DEF RegisterPipe
    <3>2. pipe' \in 0..PipeSize
      BY <1>0, <2>2, PipeTypes DEF RegisterPipe, Notify
    <3> QED
      BY <1>0, <2>1, <2>2, <3>1, <3>2 DEF RegisterPipe, TypeOK, connVars, connVarsButMain, netVars
  <2>3. CASE ReadPipe
    <3>1. pipe' \in 0..PipeSize
      BY <1>0, <2>3, PipeTypes DEF ReadPipe
    <3> QED BY <1>0, <2>1, <2>3, <3>1 DEF ReadPipe, TypeOK, connVars, connVarsButMain, netVars
  <2>4. CASE ApplyDone
    BY <1>0, <2>1, <2>4 DEF ApplyDone, TypeOK, connVars, connVarsButMain, netVars
  <2>5. CASE Fire
    <3>1. cursor' \in Nat \ {0} /\ cursor' \in DOMAIN polls
      BY <1>0, <2>5, PendingIsMet DEF Fire
    <3>2. socksToHandle' \in Nat
      <4>1. socksToHandle \in Nat /\ socksToHandle > 0 /\ socksToHandle' = socksToHandle - 1
        BY <1>0, <2>5 DEF Fire, TypeOK
      <4> QED BY <4>1
    <3>3. updates' \in Seq(Updates)
      <4>1. polls[cursor'] \in Updates
        BY <1>0, <3>1, EntryTypes
      <4>2. Unregister(polls[cursor'].fd) \in Updates
        BY <4>1, UpdateTypes DEF Updates
      <4>3. updates' = updates \/ updates' = Append(updates, Unregister(polls[cursor'].fd))
        BY <2>5 DEF Fire
      <4> QED BY <1>0, <4>2, <4>3, Appended DEF TypeOK
    <3>4. pipe' \in 0..PipeSize
      BY <1>0, <2>5, PipeTypes DEF Fire, Notify, TypeOK
    <3> QED
      BY <1>0, <2>1, <2>5, <3>1, <3>2, <3>3, <3>4 DEF Fire, TypeOK, connVars, connVarsButMain, netVars
  <2>6. CASE ScanDone
    <3> DEFINE r == [i \in DOMAIN polls |-> "none"]
    <3>1. /\ \A i \in DOMAIN polls : r[i] \in {"none", "ready", "hup"}
          /\ polls' = [i \in DOMAIN polls |-> [polls[i] EXCEPT !.revents = r[i]]]
      BY <2>6 DEF ScanDone
    <3>2. polls' \in Seq(Updates)
      BY <1>0, <3>1, EntriesReported
    <3> QED BY <1>0, <2>1, <2>6, <3>2 DEF ScanDone, TypeOK, connVars, connVarsButMain, netVars
  <2>7. CASE PollReturns([i \in DOMAIN polls |-> Revents(polls[i])])
    <3> DEFINE r == [i \in DOMAIN polls |-> Revents(polls[i])]
    <3>1. /\ \A i \in DOMAIN polls : r[i] \in {"none", "ready", "hup"}
          /\ polls' = [i \in DOMAIN polls |-> [polls[i] EXCEPT !.revents = r[i]]]
          /\ socksToHandle' = Cardinality({i \in DOMAIN polls : r[i] # "none"})
      BY <2>7, ReventsTypes DEF PollReturns
    <3>2. polls' \in Seq(Updates)
      BY <1>0, <3>1, EntriesReported
    <3>3. socksToHandle' \in Nat
      <4>1. DOMAIN polls = 1..Len(polls) /\ 1 \in Int /\ Len(polls) \in Int
        BY <1>0, EntryTypes
      <4>2. IsFiniteSet(DOMAIN polls)
        BY <4>1, FS_Interval
      <4>3. IsFiniteSet({i \in DOMAIN polls : r[i] # "none"})
        BY <4>2, FS_Subset
      <4> QED BY <4>3, <3>1, FS_CardinalityType
    <3>4. thread' = "read again" /\ UNCHANGED <<updates, pipe, cursor>>
      BY <2>7 DEF PollReturns
    <3> QED BY <1>0, <2>1, <3>2, <3>3, <3>4 DEF TypeOK, connVars, connVarsButMain, netVars
  <2> QED BY <1>2, <2>2, <2>3, <2>4, <2>5, <2>6, <2>7 DEF PollLoops
<1>3. CASE PollDispatches
  <2> DEFINE c == Current.block
  <2>1. c \in Connections
    BY <1>3 DEF PollDispatches
  <2>2. PICK new \in Jobs : jobs' = jobs (+) SetToBag({new})
    <3> DEFINE new == Job(c, IF Current.events = "in" THEN "read" ELSE "send",
                          IF Current.revents = "hup" THEN "hup" ELSE "start")
    <3>1. new \in Jobs
      BY <2>1, NewJob DEF JobKinds, JobSteps
    <3> QED BY <3>1, <1>3 DEF PollDispatches, Dispatch
  <2>3. IsABag(jobs') /\ BagToSet(jobs') \subseteq Jobs
    BY <1>0, <2>2, BagTypes DEF TypeOK
  <2>4. retainCount' \in [Connections -> Nat]
    BY <1>0, <1>3, <2>1, CountTypes DEF PollDispatches
  <2>5. cursor' \in Nat \ {0}
    BY <1>0, <1>3 DEF PollDispatches, Called, TypeOK
  <2> QED BY <1>0, <1>3, <2>3, <2>4, <2>5 DEF PollDispatches, Called, TypeOK, netVars
<1>4. CASE PollCallsPipeBlock
  BY <1>0, <1>4 DEF PollCallsPipeBlock, Called, TypeOK, connVars, connVarsButMain, netVars
<1>5. CASE PollAccepts
  <2>1. PICK c \in Connections, s \in Sockets :
          /\ wire' = [wire EXCEPT ![c] = "quiet"]
          /\ owner' = [owner EXCEPT ![s] = c]
          /\ socket' = [socket EXCEPT ![c] = s]
          /\ retainCount' = Count(c, 1)
          /\ accepting' = c
    BY <1>5 DEF PollAccepts
  <2>2. retainCount' \in [Connections -> Nat]
    BY <1>0, <2>1, CountTypes
  <2>3. /\ socket' \in [Connections -> Sockets \cup {None}]
        /\ owner' \in [Sockets -> Connections \cup {None}]
        /\ accepting' \in Connections \cup {None}
    BY <1>0, <2>1 DEF TypeOK
  <2>4. wire' \in [Connections -> {"away", "backlog", "quiet", "some", "request", "waiting",
                                   "closed", "reset", "gone"}]
    BY <1>0, <2>1 DEF TypeOK
  <2> QED BY <1>0, <1>5, <2>2, <2>3, <2>4 DEF PollAccepts, TypeOK
<1>6. CASE PollAcceptsNothing
  BY <1>0, <1>6 DEF PollAcceptsNothing, Called, TypeOK, connVars, connVarsButMain, netVars
<1>7. CASE PollReads
  <2>1. accepting \in Connections /\ socket[accepting] # None
    <3>1. accepting \in Connections
      BY <1>0, <1>7 DEF PollReads, ServerInv, InvLifetime, TypeOK
    <3>2. Creating(accepting)
      BY <1>7 DEF PollReads, Creating
    <3> QED BY <3>1, <3>2 DEF ServerInv, InvDescriptor, HasDescriptor
  <2>2. TakeInput(accepting) /\ ReadInPoll(accepting)
    BY <1>7 DEF PollReads, ReadInPoll
  <2>3. wire' \in [Connections -> {"away", "backlog", "quiet", "some", "request", "waiting",
                                   "closed", "reset", "gone"}]
    BY <1>0, <2>2, InputTypes
  <2>4. /\ updates' \in Seq(Updates) /\ pipe' \in 0..PipeSize
        /\ IsABag(jobs') /\ BagToSet(jobs') \subseteq Jobs
        /\ retainCount' \in [Connections -> Nat]
    <3>1. CASE wire[accepting] = "request"
      <4> DEFINE new == Job(accepting, "process", "start")
      <4>1. new \in Jobs
        BY <2>1, NewJob DEF JobKinds, JobSteps
      <4>2. /\ jobs' = jobs (+) SetToBag({new}) /\ retainCount' = Count(accepting, 1)
            /\ UNCHANGED <<updates, pipe>>
        BY <2>2, <3>1 DEF ReadInPoll, Dispatch
      <4>3. IsABag(jobs') /\ BagToSet(jobs') \subseteq Jobs
        BY <1>0, <4>1, <4>2, BagTypes DEF TypeOK
      <4> QED BY <1>0, <2>1, <4>2, <4>3, CountTypes DEF TypeOK
    <3>2. CASE wire[accepting] \in {"quiet", "some", "waiting"}
      <4>1. Await(accepting, "in") /\ Notify /\ UNCHANGED jobs
        BY <2>2, <3>2 DEF ReadInPoll
      <4>2. updates' \in Seq(Updates) /\ retainCount' \in [Connections -> Nat]
        BY <2>1, <4>1, AwaitTypes
      <4> QED BY <1>0, <4>1, <4>2, PipeTypes DEF TypeOK, Notify
    <3>3. CASE wire[accepting] \notin {"request", "quiet", "some", "waiting"}
      BY <1>0, <2>2, <3>3 DEF ReadInPoll, TypeOK
    <3> QED BY <3>1, <3>2, <3>3
  <2> QED BY <1>0, <1>7, <2>3, <2>4 DEF PollReads, TypeOK
<1>8. CASE PollReleases
  <2>1. accepting \in Connections /\ retainCount[accepting] # 0
    <3>1. accepting \in Connections
      BY <1>0, <1>8 DEF PollReleases, ServerInv, InvLifetime, TypeOK
    <3> QED BY <3>1, Accepted
  <2>2. updates' \in Seq(Updates)
    <3>1. updates' = updates \o DisposeUpdates(accepting)
      BY <1>8 DEF PollReleases
    <3>2. CASE DisposeUpdates(accepting) = <<>>
      BY <1>0, <3>1, <3>2, ConcatEmptySeq, ZenonT(30) DEF TypeOK
    <3>3. CASE DisposeUpdates(accepting) # <<>>
      <4>1. PICK u \in Updates : DisposeUpdates(accepting) = <<u>>
        BY <3>3, Extra
      <4>2. updates' = Append(updates, u)
        BY <1>0, <3>1, <4>1, ConcatOne DEF TypeOK
      <4> QED BY <1>0, <4>2, Appended
    <3> QED BY <3>2, <3>3
  <2>3. retainCount' \in [Connections -> Nat]
    BY <1>0, <1>8, <2>1, CountTypes DEF PollReleases, ReleaseInPoll
  <2>4. pipe' \in 0..PipeSize
    BY <1>0, <1>8, PipeTypes DEF PollReleases, ReleaseInPoll, TypeOK
  <2>5. /\ socket' \in [Connections -> Sockets \cup {None}]
        /\ owner' \in [Sockets -> Connections \cup {None}]
        /\ wire' \in [Connections -> {"away", "backlog", "quiet", "some", "request", "waiting",
                                      "closed", "reset", "gone"}]
        /\ room' \in [Connections -> 0..SendBuffer]
    <3>1. CASE Disposed(accepting)
      <4>1. Close(accepting)
        BY <1>8, <3>1 DEF PollReleases, ReleaseInPoll
      <4> QED BY <1>0, <4>1, CloseTypes
    <3>2. CASE ~Disposed(accepting)
      BY <1>0, <1>8, <3>2 DEF PollReleases, ReleaseInPoll, TypeOK
    <3> QED BY <3>1, <3>2
  <2>6. cursor' \in Nat \ {0} /\ accepting' = None /\ thread' = "scan"
        /\ UNCHANGED <<polls, socksToHandle, jobs, main>>
    BY <1>0, <1>8 DEF PollReleases, Called, TypeOK
  <2> QED BY <1>0, <2>2, <2>3, <2>4, <2>5, <2>6 DEF TypeOK
<1> QED BY <1>1, <1>2, <1>3, <1>4, <1>5, <1>6, <1>7, <1>8 DEF PollThread

\* The jobs after a step of one are jobs.
LEMMA RunTypes ==
  ASSUME ServerInv, NEW j \in BagToSet(jobs)
  PROVE  /\ \A step \in JobSteps : IsABag(To(j, step)) /\ BagToSet(To(j, step)) \subseteq Jobs
         /\ \A new \in Jobs : IsABag(Advance(j, new)) /\ BagToSet(Advance(j, new)) \subseteq Jobs
<1>1. IsABag(jobs) /\ BagToSet(jobs) \subseteq Jobs
  BY DEF ServerInv, RetainCountExact, TypeOK
<1>2. IsABag(jobs (-) SetToBag({j})) /\ BagToSet(jobs (-) SetToBag({j})) \subseteq Jobs
  BY <1>1, BagTypes
<1>3. \A new \in Jobs : IsABag(Advance(j, new)) /\ BagToSet(Advance(j, new)) \subseteq Jobs
  BY <1>2, BagTypes DEF Advance
<1>4. \A step \in JobSteps : [j EXCEPT !.step = step] \in Jobs
  BY <1>1, NextJob
<1> QED BY <1>3, <1>4 DEF To

\* Every step of a job keeps the types.
LEMMA JobStepTypes ==
  ASSUME ServerInv, NEW j \in BagToSet(jobs), Run(j)
  PROVE  TypeOK'
<1>0. TypeOK
  BY DEF ServerInv, RetainCountExact
<1>1. /\ j \in Jobs /\ j.conn \in Connections /\ j.kind \in JobKinds /\ j.step \in JobSteps
      /\ j.step \in {"start", "hup", "sending", "notify", "finish"} => j.kind # "dealloc"
      /\ j.kind # "dealloc" => j \in Blocks(j.conn) /\ retainCount[j.conn] \in Nat \ {0}
      /\ IsAtWork(j) => j \in AtWork(j.conn)
  BY JobTypes
<1>2. /\ \A step \in JobSteps : IsABag(To(j, step)) /\ BagToSet(To(j, step)) \subseteq Jobs
      /\ \A new \in Jobs : IsABag(Advance(j, new)) /\ BagToSet(Advance(j, new)) \subseteq Jobs
  BY RunTypes
<1>3. CASE JobHup(j)
  <2>1. IsABag(jobs') /\ BagToSet(jobs') \subseteq Jobs
    BY <1>2, <1>3 DEF JobHup, JobSteps
  <2> QED BY <1>0, <1>3, <2>1 DEF JobHup, jobFrame, TypeOK
<1>4. CASE JobReads(j)
  <2>1. socket[j.conn] # None
    BY <1>1, <1>4, SoleWorker, Constants DEF JobReads, IsAtWork
  <2>2. wire' \in [Connections -> {"away", "backlog", "quiet", "some", "request", "waiting",
                                   "closed", "reset", "gone"}]
    BY <1>0, <1>4, InputTypes DEF JobReads
  <2>3. /\ updates' \in Seq(Updates)
        /\ IsABag(jobs') /\ BagToSet(jobs') \subseteq Jobs
        /\ retainCount' \in [Connections -> Nat]
    <3>1. CASE wire[j.conn] = "request"
      <4> DEFINE new == Job(j.conn, "process", "start")
      <4>1. new \in Jobs
        BY <1>1, NewJob DEF JobKinds, JobSteps
      <4>2. /\ jobs' = To(j, "finish") (+) SetToBag({new})
            /\ retainCount' = Count(j.conn, 1) /\ UNCHANGED updates
        BY <1>4, <3>1 DEF JobReads
      <4>3. IsABag(To(j, "finish")) /\ BagToSet(To(j, "finish")) \subseteq Jobs
        BY <1>2 DEF JobSteps
      <4>4. IsABag(jobs') /\ BagToSet(jobs') \subseteq Jobs
        BY <4>1, <4>2, <4>3, BagTypes
      <4> QED BY <1>0, <1>1, <4>2, <4>4, CountTypes DEF TypeOK
    <3>2. CASE wire[j.conn] \in {"quiet", "some", "waiting"}
      <4>1. Await(j.conn, "in") /\ jobs' = To(j, "notify")
        BY <1>4, <3>2 DEF JobReads
      <4>2. updates' \in Seq(Updates) /\ retainCount' \in [Connections -> Nat]
        BY <1>1, <2>1, <4>1, AwaitTypes
      <4> QED BY <1>2, <4>1, <4>2 DEF JobSteps
    <3>3. CASE wire[j.conn] \notin {"request", "quiet", "some", "waiting"}
      <4>1. jobs' = To(j, "finish") /\ UNCHANGED <<updates, retainCount>>
        BY <1>4, <3>3 DEF JobReads
      <4> QED BY <1>0, <1>2, <4>1 DEF JobSteps, TypeOK
    <3> QED BY <3>1, <3>2, <3>3
  <2> QED BY <1>0, <1>4, <2>2, <2>3 DEF JobReads, jobFrame, TypeOK
<1>5. CASE JobAnswers(j)
  <2>1. IsABag(jobs') /\ BagToSet(jobs') \subseteq Jobs
    BY <1>2, <1>5 DEF JobAnswers, JobSteps
  <2> QED BY <1>0, <1>5, <2>1 DEF JobAnswers, jobFrame, TypeOK
<1>9. CASE JobSends(j)
  <2>1. socket[j.conn] \in Sockets
    BY <1>1, <1>9, SoleWorker DEF JobSends, IsAtWork
  <2>2. /\ updates' \in Seq(Updates) /\ retainCount' \in [Connections -> Nat]
        /\ IsABag(jobs') /\ BagToSet(jobs') \subseteq Jobs
    <3>1. CASE AnswerSent(j)
      <4>1. Unregister(socket[j.conn]) \in Updates
        BY <2>1, UpdateTypes DEF Descriptors
      <4>2. updates' \in Seq(Updates)
        BY <1>0, <3>1, <4>1, Appended DEF AnswerSent
      <4> QED BY <1>0, <1>2, <3>1, <4>2 DEF AnswerSent, JobSteps, TypeOK
    <3>2. CASE AnswerShort(j)
      <4>1. Await(j.conn, "out") /\ jobs' = To(j, "notify")
        BY <3>2 DEF AnswerShort
      <4>2. updates' \in Seq(Updates) /\ retainCount' \in [Connections -> Nat]
        BY <1>1, <2>1, <4>1, AwaitTypes, Constants
      <4> QED BY <1>2, <4>1, <4>2 DEF JobSteps
    <3>3. CASE AnswerGoesOn
      BY <1>0, <3>3 DEF AnswerGoesOn, TypeOK
    <3> QED BY <1>9, <3>1, <3>2, <3>3 DEF JobSends
  <2>3. room' \in [Connections -> 0..SendBuffer]
    <3>1. PICK n \in 0..room[j.conn] : room' = [room EXCEPT ![j.conn] = n]
      BY <1>9 DEF JobSends
    <3>2. room[j.conn] \in 0..SendBuffer /\ room \in [Connections -> 0..SendBuffer]
      BY <1>0, <1>1 DEF TypeOK
    <3>3. \A m \in 0..SendBuffer : \A k \in 0..m : k \in 0..SendBuffer
      BY HTTPServerAssumption
    <3>4. n \in 0..SendBuffer
      BY <3>2, <3>3
    <3> QED BY <3>1, <3>2, <3>4
  <2>4. UNCHANGED <<jobFrame, pipe, socket, owner, wire>>
    BY <1>9 DEF JobSends, AnswerSent, AnswerShort, AnswerGoesOn
  <2> QED BY <1>0, <2>2, <2>3, <2>4 DEF jobFrame, TypeOK
<1>6. CASE JobNotifies(j)
  <2>1. IsABag(jobs') /\ BagToSet(jobs') \subseteq Jobs
    BY <1>2, <1>6 DEF JobNotifies, JobSteps
  <2>2. pipe' \in 0..PipeSize
    BY <1>0, <1>6, PipeTypes DEF JobNotifies, Notify
  <2> QED BY <1>0, <1>6, <2>1, <2>2 DEF JobNotifies, jobFrame, TypeOK
<1>7. CASE JobCloses(j)
  <2>1. IsABag(jobs') /\ BagToSet(jobs') \subseteq Jobs
    BY <1>0, <1>2, <1>7, BagTypes DEF JobCloses, JobSteps, TypeOK
  <2>2. Close(j.conn) /\ UNCHANGED <<jobFrame, updates, pipe, retainCount>>
    BY <1>7 DEF JobCloses
  <2> QED BY <1>0, <2>1, <2>2, CloseTypes DEF jobFrame, TypeOK
<1>8. CASE JobFinishes(j)
  <2>1. retainCount' \in [Connections -> Nat]
    BY <1>0, <1>1, <1>8, CountTypes DEF JobFinishes
  <2>2. updates' \in Seq(Updates) /\ IsABag(jobs') /\ BagToSet(jobs') \subseteq Jobs
    <3>1. CASE Disposed(j.conn)
      <4>1. Unregister(socket[j.conn]) \in Updates
        BY <3>1, Extra
      <4>2. updates' = Append(updates, Unregister(socket[j.conn]))
            /\ jobs' = Advance(j, Job(j.conn, "dealloc", "closing"))
        BY <1>8, <3>1 DEF JobFinishes
      <4>3. Job(j.conn, "dealloc", "closing") \in Jobs
        BY <1>1, NewJob DEF JobKinds, JobSteps
      <4> QED BY <1>0, <1>2, <4>1, <4>2, <4>3, Appended
    <3>2. CASE ~Disposed(j.conn)
      <4>1. jobs' = jobs (-) SetToBag({j}) /\ UNCHANGED updates
        BY <1>8, <3>2 DEF JobFinishes
      <4>2. IsABag(jobs') /\ BagToSet(jobs') \subseteq Jobs
        BY <1>0, <4>1, BagTypes DEF TypeOK
      <4> QED BY <1>0, <4>1, <4>2 DEF TypeOK
    <3> QED BY <3>1, <3>2
  <2> QED BY <1>0, <1>8, <2>1, <2>2 DEF JobFinishes, jobFrame, TypeOK
<1> QED BY <1>3, <1>4, <1>5, <1>6, <1>7, <1>8, <1>9 DEF Run

------------------------------
(* Descriptors and their owners. *)

\* close() leaves every other descriptor to its owner.
LEMMA CloseKeepsOwners ==
  ASSUME ServerInv, NEW c \in Connections, Close(c)
  PROVE  SocketIsOwn'
<1>1. /\ socket \in [Connections -> Sockets \cup {None}]
      /\ owner \in [Sockets -> Connections \cup {None}]
  BY DEF ServerInv, RetainCountExact, TypeOK
<1>2. /\ \A d \in Connections : socket[d] # None => owner[socket[d]] = d
      /\ \A s \in Sockets : owner[s] # None => socket[owner[s]] = s
  BY DEF ServerInv, SocketIsOwn
<1>3. /\ owner' = [owner EXCEPT ![socket[c]] = None]
      /\ socket' = [socket EXCEPT ![c] = None]
  BY DEF Close
<1>4. ASSUME NEW d \in Connections, socket'[d] # None PROVE owner'[socket'[d]] = d
  <2>1. d # c /\ socket'[d] = socket[d] /\ socket[d] \in Sockets /\ socket[d] # None
    BY <1>1, <1>3, <1>4
  <2>2. socket[d] # socket[c]
    BY <1>2, <2>1
  <2> QED BY <1>1, <1>2, <1>3, <2>1, <2>2
<1>5. ASSUME NEW s \in Sockets, owner'[s] # None PROVE socket'[owner'[s]] = s
  <2>1. s # socket[c] /\ owner'[s] = owner[s] /\ owner[s] \in Connections /\ owner[s] # None
    BY <1>1, <1>3, <1>5
  <2>2. owner[s] # c
    BY <1>2, <2>1
  <2> QED BY <1>1, <1>2, <1>3, <2>1, <2>2
<1> QED BY <1>4, <1>5 DEF SocketIsOwn

\* The other steps either accept a connection or leave sockets alone.
LEMMA OwnersStep ==
  ASSUME ServerInv, Next
  PROVE  SocketIsOwn'
<1>0. SocketIsOwn
  BY DEF ServerInv
<1>1. ASSUME UNCHANGED <<owner, socket>> PROVE SocketIsOwn'
  BY <1>0, <1>1 DEF SocketIsOwn
<1>2. CASE Main
  BY <1>1, <1>2 DEF Main, MainRegisters, MainNotifies, connVarsButMain, netVars
<1>3. CASE PollApplies
  BY <1>1, <1>3, CloseKeepsOwners DEF PollApplies, ReleaseInPoll, Disposed, Freed
<1>4. CASE PollLoops \/ PollCallsPipeBlock \/ PollAcceptsNothing
  BY <1>1, <1>4 DEF PollLoops, PollCallsPipeBlock, PollAcceptsNothing, connVars, connVarsButMain,
                    netVars
<1>5. CASE PollDispatches \/ PollReads
  BY <1>1, <1>5 DEF PollDispatches, PollReads, netVars
<1>6. CASE PollAccepts
  <2>1. PICK c \in Connections, s \in Sockets :
          /\ wire[c] = "backlog" /\ owner[s] = None
          /\ owner' = [owner EXCEPT ![s] = c]
          /\ socket' = [socket EXCEPT ![c] = s]
    BY <1>6 DEF PollAccepts
  <2>2. socket[c] = None
    BY <2>1 DEF ServerInv, InvLifetime
  <2>3. /\ socket \in [Connections -> Sockets \cup {None}]
        /\ owner \in [Sockets -> Connections \cup {None}]
    BY DEF ServerInv, RetainCountExact, TypeOK
  <2>4. /\ \A d \in Connections : socket[d] # None => owner[socket[d]] = d
        /\ \A t \in Sockets : owner[t] # None => socket[owner[t]] = t
    BY DEF ServerInv, SocketIsOwn
  <2>5. ASSUME NEW d \in Connections, socket'[d] # None PROVE owner'[socket'[d]] = d
    <3>1. CASE d = c
      BY <2>1, <2>3, <3>1
    <3>2. CASE d # c
      <4>1. socket'[d] = socket[d] /\ socket[d] \in Sockets /\ owner[socket[d]] = d
        BY <2>1, <2>3, <2>4, <2>5, <3>2
      <4>2. socket[d] # s
        BY <2>1, <4>1, Constants
      <4> QED BY <2>1, <2>3, <4>1, <4>2
    <3> QED BY <3>1, <3>2
  <2>6. ASSUME NEW t \in Sockets, owner'[t] # None PROVE socket'[owner'[t]] = t
    <3>1. CASE t = s
      BY <2>1, <2>3, <3>1
    <3>2. CASE t # s
      <4>1. owner'[t] = owner[t] /\ owner[t] \in Connections /\ socket[owner[t]] = t
        BY <2>1, <2>3, <2>4, <2>6, <3>2
      <4>2. owner[t] # c
        BY <2>2, <4>1, Constants
      <4> QED BY <2>1, <2>3, <4>1, <4>2
    <3> QED BY <3>1, <3>2
  <2> QED BY <2>5, <2>6 DEF SocketIsOwn
<1>7. CASE PollReleases
  BY <1>1, <1>7, CloseKeepsOwners DEF PollReleases, ReleaseInPoll, Disposed, Freed
<1>8. ASSUME NEW j \in BagToSet(jobs), Run(j) PROVE SocketIsOwn'
  <2>1. j.conn \in Connections
    BY JobTypes
  <2>2. CASE JobCloses(j)
    BY <2>1, <2>2, CloseKeepsOwners DEF JobCloses
  <2>3. CASE ~JobCloses(j)
    BY <1>1, <1>8, <2>3 DEF Run, JobHup, JobReads, JobAnswers, JobSends, AnswerSent, AnswerShort,
                            AnswerGoesOn, JobNotifies, JobFinishes
  <2> QED BY <2>2, <2>3
<1>9. ASSUME NEW c \in Connections, Peer(c) PROVE SocketIsOwn'
  BY <1>1, <1>9 DEF Peer, Connect, SendsPart, SendsRequest, HangsUp, Receives, peerFrame, connVars,
                    connVarsButMain
<1> QED BY <1>2, <1>3, <1>4, <1>5, <1>6, <1>7, <1>8, <1>9 DEF Next, PollThread

------------------------------
(* Wakeups. *)

\* Whoever is about to write to the pipe still is when another job goes on.
LEMMA AnnouncementStays ==
  ASSUME ServerInv, NEW j \in BagToSet(jobs), j.step \notin {"notify", "closing"}
  PROVE  \A k \in BagToSet(jobs) :
           k.step \in {"notify", "closing"} =>
             /\ \A step \in JobSteps : k \in BagToSet(To(j, step))
             /\ \A new : k \in BagToSet(Advance(j, new))
             /\ k \in BagToSet(jobs (-) SetToBag({j}))
<1> SUFFICES ASSUME NEW k \in BagToSet(jobs), k.step \in {"notify", "closing"}
             PROVE  /\ \A step \in JobSteps : k \in BagToSet(To(j, step))
                    /\ \A new : k \in BagToSet(Advance(j, new))
                    /\ k \in BagToSet(jobs (-) SetToBag({j}))
  OBVIOUS
<1>1. IsABag(jobs) /\ k # j
  BY DEF ServerInv, RetainCountExact, TypeOK
<1>2. k \in BagToSet(jobs (-) SetToBag({j})) /\ IsABag(jobs (-) SetToBag({j}))
  BY <1>1, BagDrop
<1>3. \A new : k \in BagToSet(Advance(j, new))
  <2> SUFFICES ASSUME NEW new PROVE k \in BagToSet(Advance(j, new))
    OBVIOUS
  <2>1. BagToSet((jobs (-) SetToBag({j})) (+) SetToBag({new})) =
          BagToSet(jobs (-) SetToBag({j})) \cup {new}
    BY <1>2, BagAdd
  <2> QED BY <2>1, <1>2 DEF Advance
<1> QED BY <1>2, <1>3 DEF To

\* An update is announced as soon as it can be seen.
LEMMA WakeupStep ==
  ASSUME ServerInv, Next
  PROVE  InvWakeup'
<1>0. TypeOK /\ InvWakeup /\ IsABag(jobs)
  BY DEF ServerInv, RetainCountExact, TypeOK
<1>1. ASSUME pipe' = Written(pipe) PROVE InvWakeup'
  BY <1>0, <1>1, PipeTypes DEF InvWakeup, Announced
<1>2. ASSUME UNCHANGED <<updates, pipe, main, jobs>>,
             thread \notin {"drain", "drain again"} \/ thread' \in {"drain", "drain again"}
      PROVE  InvWakeup'
  BY <1>0, <1>2 DEF InvWakeup, Announced
<1>3. CASE Main
  <2>1. CASE MainRegisters
    BY <2>1 DEF MainRegisters, InvWakeup, Announced
  <2>2. CASE MainNotifies
    BY <2>2, <1>1 DEF MainNotifies, Notify
  <2> QED BY <1>3, <2>1, <2>2 DEF Main
<1>4. CASE PollApplies
  BY <1>4 DEF PollApplies, ApplyRegister, ApplyUnregister, Draining, InvWakeup
<1>5. CASE PollLoops
  <2>1. UNCHANGED <<main, jobs>>
    BY <1>5 DEF PollLoops, connVars, connVarsButMain
  <2>2. CASE RegisterPipe
    BY <2>2, <1>1 DEF RegisterPipe, Notify
  <2>3. CASE ReadPipe
    BY <2>3 DEF ReadPipe, InvWakeup
  <2>4. CASE ApplyDone
    BY <2>4 DEF ApplyDone, InvWakeup
  <2>5. CASE Fire
    BY <2>1, <2>5, <1>1, <1>2 DEF Fire, Notify
  <2>6. CASE ScanDone
    BY <2>1, <2>6, <1>2 DEF ScanDone
  <2>7. CASE PollReturns([i \in DOMAIN polls |-> Revents(polls[i])])
    BY <2>1, <2>7, <1>2 DEF PollReturns
  <2> QED BY <1>5, <2>2, <2>3, <2>4, <2>5, <2>6, <2>7 DEF PollLoops
<1>6. CASE PollDispatches
  <2>1. PICK new : jobs' = jobs (+) SetToBag({new})
    BY <1>6 DEF PollDispatches, Dispatch
  <2>2. \A k \in BagToSet(jobs) : k \in BagToSet(jobs')
    BY <1>0, <2>1, BagAdd
  <2>3. thread = "call" /\ UNCHANGED <<updates, pipe, main>>
    BY <1>6 DEF PollDispatches
  <2> QED BY <1>0, <2>2, <2>3 DEF InvWakeup, Announced
<1>7. CASE PollCallsPipeBlock \/ PollAcceptsNothing
  BY <1>2, <1>7 DEF PollCallsPipeBlock, PollAcceptsNothing, connVars, connVarsButMain
<1>8. CASE PollAccepts
  BY <1>2, <1>8 DEF PollAccepts
<1>9. CASE PollReads
  <2>1. thread = "create" /\ ReadInPoll(accepting) /\ UNCHANGED main
    BY <1>9 DEF PollReads
  <2>2. CASE wire[accepting] = "request"
    <3>1. PICK new : jobs' = jobs (+) SetToBag({new})
      BY <2>1, <2>2 DEF ReadInPoll, Dispatch
    <3>2. \A k \in BagToSet(jobs) : k \in BagToSet(jobs')
      BY <1>0, <3>1, BagAdd
    <3>3. UNCHANGED <<updates, pipe>>
      BY <2>1, <2>2 DEF ReadInPoll
    <3> QED BY <1>0, <2>1, <3>2, <3>3 DEF InvWakeup, Announced
  <2>3. CASE wire[accepting] \in {"quiet", "some", "waiting"}
    BY <1>1, <2>1, <2>3 DEF ReadInPoll, Notify
  <2>4. CASE wire[accepting] \notin {"request", "quiet", "some", "waiting"}
    <3>1. UNCHANGED <<jobs, updates, pipe>>
      BY <2>1, <2>4 DEF ReadInPoll
    <3> QED BY <1>2, <2>1, <3>1
  <2> QED BY <2>2, <2>3, <2>4
<1>10. CASE PollReleases
  <2>1. CASE Disposed(accepting)
    BY <1>1, <1>10, <2>1 DEF PollReleases, ReleaseInPoll
  <2>2. CASE ~Disposed(accepting)
    <3>1. updates' = updates \o <<>> /\ UNCHANGED <<pipe, jobs, main>> /\ thread = "release"
      BY <1>10, <2>2 DEF PollReleases, ReleaseInPoll, DisposeUpdates
    <3>2. updates' = updates
      BY <1>0, <3>1, ConcatEmptySeq DEF TypeOK
    <3> QED BY <1>2, <3>1, <3>2
  <2> QED BY <2>1, <2>2
<1>11. ASSUME NEW j \in BagToSet(jobs), Run(j) PROVE InvWakeup'
  <2>1. UNCHANGED <<thread, main>>
    BY <1>11 DEF Run, JobHup, JobReads, JobAnswers, JobSends, AnswerSent, AnswerShort,
                 AnswerGoesOn, JobNotifies, JobCloses, JobFinishes, jobFrame
  <2>2. CASE JobNotifies(j)
    BY <1>1, <2>2 DEF JobNotifies, Notify
  <2>3. ASSUME UNCHANGED <<updates, pipe>>, NEW A,
               jobs' = A \/ \E new : jobs' = A (+) SetToBag({new}), IsABag(A),
               \A k \in BagToSet(jobs) : k.step \in {"notify", "closing"} => k \in BagToSet(A)
        PROVE  InvWakeup'
    <3>1. \A k \in BagToSet(A) : k \in BagToSet(jobs')
      <4>1. ASSUME NEW new PROVE BagToSet(A (+) SetToBag({new})) = BagToSet(A) \cup {new}
        BY <2>3, BagAdd
      <4> QED BY <2>3, <4>1
    <3> QED BY <1>0, <2>1, <2>3, <3>1 DEF InvWakeup, Announced
  <2>4. ASSUME NEW step \in {"notify", "closing"}, jobs' = To(j, step) PROVE InvWakeup'
    <3> DEFINE new == [j EXCEPT !.step = step]
    <3>1. new \in BagToSet(jobs') /\ new.step = step
      <4>1. IsABag(jobs (-) SetToBag({j}))
        BY <1>0, BagDrop
      <4>2. BagToSet(jobs') = BagToSet(jobs (-) SetToBag({j})) \cup {new}
        BY <2>4, <4>1, BagAdd DEF To, Advance
      <4>3. new.step = step
        BY JobTypes, NextJob DEF JobSteps
      <4> QED BY <4>2, <4>3
    <3> QED BY <3>1 DEF InvWakeup, Announced
  <2>5. IsABag(To(j, "finish")) /\ IsABag(jobs (-) SetToBag({j}))
    BY <1>0, RunTypes, BagDrop DEF JobSteps
  <2>6. CASE JobHup(j)
    <3>1. j.step \notin {"notify", "closing"} /\ jobs' = To(j, "finish")
          /\ UNCHANGED <<updates, pipe>>
      BY <2>6 DEF JobHup
    <3> QED BY <2>3, <2>5, <3>1, AnnouncementStays DEF JobSteps
  <2>11. CASE JobAnswers(j)
    <3>1. /\ j.step \notin {"notify", "closing"} /\ jobs' = To(j, "sending")
          /\ UNCHANGED <<updates, pipe>>
      BY <2>11 DEF JobAnswers
    <3>2. IsABag(To(j, "sending"))
      BY RunTypes DEF JobSteps
    <3> QED BY <2>3, <3>1, <3>2, AnnouncementStays DEF JobSteps
  <2>7. CASE JobReads(j)
    <3>1. j.step \notin {"notify", "closing"} /\ UNCHANGED pipe
      BY <2>7 DEF JobReads
    <3>2. CASE wire[j.conn] \in {"quiet", "some", "waiting"}
      <4>1. jobs' = To(j, "notify")
        BY <2>7, <3>2 DEF JobReads
      <4> QED BY <2>4, <4>1
    <3>3. CASE wire[j.conn] \notin {"quiet", "some", "waiting"}
      <4>1. /\ UNCHANGED updates
            /\ jobs' = To(j, "finish") \/ \E new : jobs' = To(j, "finish") (+) SetToBag({new})
        BY <2>7, <3>3 DEF JobReads
      <4> QED BY <2>3, <2>5, <3>1, <4>1, AnnouncementStays DEF JobSteps
    <3> QED BY <3>2, <3>3
  <2>8. CASE JobSends(j)
    <3>1. CASE AnswerGoesOn
      BY <1>0, <2>1, <3>1 DEF AnswerGoesOn, InvWakeup, Announced
    <3> QED BY <2>4, <2>8, <3>1 DEF JobSends, AnswerSent, AnswerShort
  <2>9. CASE JobCloses(j)
    <3>1. /\ j.step \notin {"notify", "closing"} /\ UNCHANGED <<updates, pipe>>
          /\ jobs' = jobs (-) SetToBag({j}) \/ jobs' = To(j, "finish")
      BY <2>9 DEF JobCloses
    <3> QED BY <2>3, <2>5, <3>1, AnnouncementStays DEF JobSteps
  <2>10. CASE JobFinishes(j)
    <3>1. CASE Disposed(j.conn)
      <4> DEFINE new == Job(j.conn, "dealloc", "closing")
      <4>1. jobs' = (jobs (-) SetToBag({j})) (+) SetToBag({new})
        BY <2>10, <3>1 DEF JobFinishes, Advance
      <4>2. new \in BagToSet(jobs')
        <5>1. BagToSet((jobs (-) SetToBag({j})) (+) SetToBag({new})) =
                BagToSet(jobs (-) SetToBag({j})) \cup {new}
          BY <2>5, BagAdd
        <5> QED BY <4>1, <5>1
      <4>3. new.step = "closing"
        BY DEF Job
      <4> QED BY <4>2, <4>3 DEF InvWakeup, Announced
    <3>2. CASE ~Disposed(j.conn)
      <4>1. /\ j.step \notin {"notify", "closing"} /\ UNCHANGED <<updates, pipe>>
            /\ jobs' = jobs (-) SetToBag({j})
        BY <2>10, <3>2 DEF JobFinishes
      <4> QED BY <2>3, <2>5, <4>1, AnnouncementStays
    <3> QED BY <3>1, <3>2
  <2> QED BY <1>11, <2>2, <2>6, <2>7, <2>8, <2>9, <2>10, <2>11 DEF Run
<1>12. ASSUME NEW c \in Connections, Peer(c) PROVE InvWakeup'
  BY <1>2, <1>12 DEF Peer, Connect, SendsPart, SendsRequest, HangsUp, Receives, peerFrame, pollVars,
                     connVars, connVarsButMain
<1> QED BY <1>3, <1>4, <1>5, <1>6, <1>7, <1>8, <1>9, <1>10, <1>11, <1>12 DEF Next, PollThread

------------------------------
(* Lifetimes. *)

\* What nobody holds is not touched again, if a step touches only what was accepted.
LEMMA LifetimeFrame ==
  ASSUME ServerInv,
         \A c \in Connections :
           /\ \/ retainCount'[c] = retainCount[c] \/ retainCount[c] # 0
              \/ wire[c] = "backlog" /\ wire'[c] = "quiet"
           /\ wire'[c] \in {"away", "backlog"} =>
                wire[c] \in {"away", "backlog"} /\ socket'[c] \in {socket[c], None},
         \A j \in BagToSet(jobs') :
           \/ j \in BagToSet(jobs)
           \/ j.kind # "dealloc"
           \/ /\ j.step \in {"closing", "close"} /\ j.conn \in Connections
              /\ retainCount'[j.conn] = 0 /\ wire[j.conn] \notin {"away", "backlog"},
         IsFiniteSet(BagToSet(jobs')),
         accepting' # None <=> thread' \in {"create", "release"},
         thread' = "call" => cursor' \in DOMAIN polls',
         thread' \notin {"scan", "call", "create", "release"} => cursor' = 1
  PROVE  InvLifetime'
<1>1. ASSUME NEW c \in Connections, wire'[c] \in {"away", "backlog"}
      PROVE  retainCount'[c] = 0 /\ socket'[c] = None
  <2>1. retainCount[c] = 0 /\ socket[c] = None
    BY <1>1 DEF ServerInv, InvLifetime
  <2> QED BY <1>1, <2>1
<1>2. ASSUME NEW j \in BagToSet(jobs'), j.kind = "dealloc"
      PROVE  /\ j.step \in {"closing", "close"} /\ retainCount'[j.conn] = 0
             /\ wire'[j.conn] \notin {"away", "backlog"}
  <2>1. j.conn \in Connections
    BY <1>2, JobTypes
  <2>2. j.step \in {"closing", "close"} /\ wire[j.conn] \notin {"away", "backlog"}
    BY <1>2 DEF ServerInv, InvLifetime
  <2>3. j \in BagToSet(jobs) => retainCount[j.conn] = 0
    BY <1>2 DEF ServerInv, InvLifetime
  <2>4. retainCount'[j.conn] = 0
    BY <1>2, <2>1, <2>2, <2>3
  <2> QED BY <2>1, <2>2, <2>4
<1> QED BY <1>1, <1>2 DEF InvLifetime

\* Taking input and close() leave connections that were not accepted alone.
LEMMA WiresMove ==
  ASSUME ServerInv, NEW c \in Connections
  PROVE  /\ TakeInput(c) => \A d \in Connections : wire'[d] \in {"away", "backlog"} =>
                                                     wire[d] \in {"away", "backlog"}
         /\ Close(c) => \A d \in Connections :
              wire'[d] \in {"away", "backlog"} =>
                wire[d] \in {"away", "backlog"} /\ socket'[d] \in {socket[d], None}
<1>1. /\ wire \in [Connections -> {"away", "backlog", "quiet", "some", "request", "waiting",
                                   "closed", "reset", "gone"}]
      /\ socket \in [Connections -> Sockets \cup {None}]
  BY DEF ServerInv, RetainCountExact, TypeOK
<1>2. ASSUME TakeInput(c), NEW d \in Connections, wire'[d] \in {"away", "backlog"}
      PROVE  wire[d] \in {"away", "backlog"}
  <2>1. wire'[d] = wire[d] \/ wire'[d] \in {"waiting", "quiet"}
    BY <1>1, <1>2 DEF TakeInput
  <2> QED BY <1>2, <2>1
<1>3. ASSUME Close(c), NEW d \in Connections, wire'[d] \in {"away", "backlog"}
      PROVE  wire[d] \in {"away", "backlog"} /\ socket'[d] \in {socket[d], None}
  BY <1>1, <1>3 DEF Close
<1> QED BY <1>2, <1>3

\* The poll thread lets go of what it held.
LEMMA ReleaseMoves ==
  ASSUME ServerInv, NEW c, ReleaseInPoll(c), c \in Connections => retainCount[c] # 0
  PROVE  \A d \in Connections :
           /\ retainCount'[d] = retainCount[d] \/ retainCount[d] # 0
           /\ wire'[d] \in {"away", "backlog"} =>
                wire[d] \in {"away", "backlog"} /\ socket'[d] \in {socket[d], None}
<1>0. TypeOK
  BY DEF ServerInv, RetainCountExact
<1>1. ASSUME NEW d \in Connections PROVE retainCount'[d] = retainCount[d] \/ retainCount[d] # 0
  <2>1. CASE c \in Connections
    <3>1. d # c => Count(c, -1)[d] = retainCount[d]
      BY <1>0, <2>1, CountTypes
    <3> QED BY <2>1, <3>1 DEF ReleaseInPoll
  <2>2. CASE c \notin Connections
    BY <2>2 DEF ReleaseInPoll
  <2> QED BY <2>1, <2>2
<1>2. ASSUME NEW d \in Connections, wire'[d] \in {"away", "backlog"}
      PROVE  wire[d] \in {"away", "backlog"} /\ socket'[d] \in {socket[d], None}
  <2>1. CASE Disposed(c)
    <3>1. c \in Connections /\ Close(c)
      BY <2>1 DEF Disposed, Freed, ReleaseInPoll
    <3> QED BY <1>2, <3>1, WiresMove
  <2>2. CASE ~Disposed(c)
    BY <1>2, <2>2 DEF ReleaseInPoll
  <2> QED BY <2>1, <2>2
<1> QED BY <1>1, <1>2

\* Whoever is displaced from the poll had a reference.
LEMMA DisplacedIsHeld ==
  ASSUME ServerInv, Displaced \in Connections
  PROVE  retainCount[Displaced] \in Nat \ {0}
<1>1. PICK i \in DOMAIN polls : polls[i].block = Displaced
  <2>1. IndexOf(Head(updates).fd) # {} =>
          (CHOOSE i \in IndexOf(Head(updates).fd) : TRUE) \in DOMAIN polls
    BY DEF IndexOf
  <2> QED BY <2>1, Constants DEF Displaced
<1>2. i \in Capturing(polls, Displaced)
  BY <1>1 DEF Capturing
<1> QED BY <1>2, Accepted

\* The jobs there are after one was dispatched.
LEMMA DispatchJobs ==
  ASSUME ServerInv, NEW new
  PROVE  /\ IsABag(Dispatch(new)) /\ IsFiniteSet(BagToSet(Dispatch(new)))
         /\ BagToSet(Dispatch(new)) = BagToSet(jobs) \cup {new}
<1>1. IsABag(jobs) /\ IsFiniteSet(BagToSet(jobs))
  BY DEF ServerInv, RetainCountExact, TypeOK, InvLifetime
<1>2. /\ IsABag(jobs (+) SetToBag({new}))
      /\ BagToSet(jobs (+) SetToBag({new})) = BagToSet(jobs) \cup {new}
  BY <1>1, BagAdd
<1> QED BY <1>1, <1>2, FS_AddElement DEF Dispatch

\* And after one went on, or ended.
LEMMA AdvanceJobs ==
  ASSUME ServerInv, NEW j \in BagToSet(jobs)
  PROVE  /\ IsABag(jobs (-) SetToBag({j})) /\ IsFiniteSet(BagToSet(jobs (-) SetToBag({j})))
         /\ BagToSet(jobs (-) SetToBag({j})) \subseteq BagToSet(jobs)
         /\ \A new : /\ IsABag(Advance(j, new)) /\ IsFiniteSet(BagToSet(Advance(j, new)))
                     /\ BagToSet(Advance(j, new)) \subseteq BagToSet(jobs) \cup {new}
<1> DEFINE D == jobs (-) SetToBag({j})
<1>1. IsABag(jobs) /\ IsFiniteSet(BagToSet(jobs))
  BY DEF ServerInv, RetainCountExact, TypeOK, InvLifetime
<1>2. IsABag(D) /\ BagToSet(D) \subseteq BagToSet(jobs)
  BY <1>1, BagDrop
<1>3. IsFiniteSet(BagToSet(D))
  BY <1>1, <1>2, FS_Subset
<1>4. ASSUME NEW new
      PROVE  /\ IsABag(Advance(j, new)) /\ IsFiniteSet(BagToSet(Advance(j, new)))
             /\ BagToSet(Advance(j, new)) \subseteq BagToSet(jobs) \cup {new}
  <2>1. /\ IsABag(D (+) SetToBag({new}))
        /\ BagToSet(D (+) SetToBag({new})) = BagToSet(D) \cup {new}
    BY <1>2, BagAdd
  <2>2. IsFiniteSet(BagToSet(D) \cup {new})
    BY <1>3, FS_AddElement
  <2> QED BY <2>1, <2>2, <1>2 DEF Advance
<1> QED BY <1>2, <1>3, <1>4

\* A connection comes into being once, and a job that frees it works on nobody's.
LEMMA LifetimeStep ==
  ASSUME ServerInv, Next
  PROVE  InvLifetime'
<1>0. TypeOK /\ InvLifetime
  BY DEF ServerInv, RetainCountExact
<1>1. IsFiniteSet(BagToSet(jobs))
  BY DEF ServerInv, InvLifetime
<1>2. ASSUME UNCHANGED jobs,
             UNCHANGED <<polls, thread, cursor, accepting>>
               \/ /\ accepting' # None <=> thread' \in {"create", "release"}
                  /\ thread' = "call" => cursor' \in DOMAIN polls'
                  /\ thread' \notin {"scan", "call", "create", "release"} => cursor' = 1,
             \A c \in Connections :
               /\ \/ retainCount'[c] = retainCount[c] \/ retainCount[c] # 0
                  \/ wire[c] = "backlog" /\ wire'[c] = "quiet"
               /\ wire'[c] \in {"away", "backlog"} =>
                    wire[c] \in {"away", "backlog"} /\ socket'[c] \in {socket[c], None}
      PROVE  InvLifetime'
  <2>1. /\ accepting' # None <=> thread' \in {"create", "release"}
        /\ thread' = "call" => cursor' \in DOMAIN polls'
        /\ thread' \notin {"scan", "call", "create", "release"} => cursor' = 1
    BY <1>0, <1>2 DEF InvLifetime
  <2> QED BY <1>1, <1>2, <2>1, LifetimeFrame
<1>3. CASE Main
  BY <1>2, <1>3 DEF Main, MainRegisters, MainNotifies, connVarsButMain, netVars
<1>4. CASE PollApplies
  <2>1. /\ thread \in {"drain", "drain again"}
        /\ UNCHANGED <<thread, cursor, accepting, jobs>> /\ ReleaseInPoll(Displaced)
    BY <1>4 DEF PollApplies, ApplyRegister, ApplyUnregister, Draining
  <2>2. \A d \in Connections :
          /\ retainCount'[d] = retainCount[d] \/ retainCount[d] # 0
          /\ wire'[d] \in {"away", "backlog"} =>
               wire[d] \in {"away", "backlog"} /\ socket'[d] \in {socket[d], None}
    BY <2>1, ReleaseMoves, DisplacedIsHeld
  <2>3. /\ accepting' # None <=> thread' \in {"create", "release"}
        /\ thread' = "call" => cursor' \in DOMAIN polls'
        /\ thread' \notin {"scan", "call", "create", "release"} => cursor' = 1
    BY <1>0, <2>1 DEF InvLifetime
  <2> QED BY <1>2, <2>1, <2>2, <2>3
<1>5. CASE PollLoops
  <2>1. UNCHANGED <<connVars, netVars>>
    BY <1>5 DEF PollLoops
  <2>2. /\ accepting' # None <=> thread' \in {"create", "release"}
        /\ thread' = "call" => cursor' \in DOMAIN polls'
        /\ thread' \notin {"scan", "call", "create", "release"} => cursor' = 1
    <3>1. accepting' = accepting
      BY <2>1 DEF connVars, connVarsButMain
    <3>2. CASE RegisterPipe \/ ReadPipe \/ ApplyDone
      BY <1>0, <3>1, <3>2 DEF RegisterPipe, ReadPipe, ApplyDone, InvLifetime
    <3>3. CASE Fire
      <4>1. Pending # {} /\ cursor' = Min(Pending) /\ polls' = polls /\ thread' = "call"
            /\ thread = "scan"
        BY <3>3 DEF Fire
      <4>2. Min(Pending) \in DOMAIN polls
        BY <1>0, <4>1, PendingIsMet
      <4> QED BY <1>0, <3>1, <4>1, <4>2 DEF InvLifetime
    <3>4. CASE ScanDone
      BY <1>0, <3>1, <3>4 DEF ScanDone, InvLifetime
    <3>5. CASE PollReturns([i \in DOMAIN polls |-> Revents(polls[i])])
      BY <1>0, <3>1, <3>5 DEF PollReturns, InvLifetime
    <3> QED BY <1>5, <3>2, <3>3, <3>4, <3>5 DEF PollLoops
  <2> QED BY <1>2, <2>1, <2>2 DEF connVars, connVarsButMain, netVars
<1>6. CASE PollDispatches
  <2> DEFINE c == Current.block
  <2> DEFINE new == Job(c, IF Current.events = "in" THEN "read" ELSE "send",
                        IF Current.revents = "hup" THEN "hup" ELSE "start")
  <2>1. /\ c \in Connections /\ thread = "call" /\ thread' = "scan"
        /\ jobs' = Dispatch(new) /\ retainCount' = Count(c, 1)
        /\ UNCHANGED <<accepting, socket, wire>>
    BY <1>6 DEF PollDispatches, Called, netVars
  <2>2. new.kind # "dealloc"
    BY DEF Job
  <2>3. BagToSet(jobs') = BagToSet(jobs) \cup {new} /\ IsFiniteSet(BagToSet(jobs'))
    BY <2>1, DispatchJobs
  <2>4. retainCount[c] # 0
    <3>1. cursor \in DOMAIN polls
      BY <1>0, <2>1 DEF InvLifetime
    <3>2. cursor \in Capturing(polls, c)
      BY <3>1 DEF Capturing, Current
    <3> QED BY <2>1, <3>2, Accepted
  <2>5. \A d \in Connections : retainCount'[d] = retainCount[d] \/ retainCount[d] # 0
    BY <1>0, <2>1, <2>4, CountTypes
  <2>6. accepting' # None <=> thread' \in {"create", "release"}
    BY <1>0, <2>1 DEF InvLifetime
  <2> HIDE DEF new, c
  <2> QED BY <2>1, <2>2, <2>3, <2>5, <2>6, LifetimeFrame
<1>7. CASE PollCallsPipeBlock \/ PollAcceptsNothing
  <2>1. UNCHANGED <<connVars, netVars>> /\ thread = "call" /\ thread' = "scan"
    BY <1>7 DEF PollCallsPipeBlock, PollAcceptsNothing, Called
  <2>2. accepting' # None <=> thread' \in {"create", "release"}
    BY <1>0, <2>1 DEF InvLifetime, connVars, connVarsButMain
  <2> QED BY <1>2, <2>1, <2>2 DEF connVars, connVarsButMain, netVars
<1>8. CASE PollAccepts
  <2>1. PICK c \in Connections, s \in Sockets :
          /\ wire[c] = "backlog"
          /\ wire' = [wire EXCEPT ![c] = "quiet"]
          /\ socket' = [socket EXCEPT ![c] = s]
          /\ retainCount' = Count(c, 1)
          /\ accepting' = c
    BY <1>8 DEF PollAccepts
  <2>2. UNCHANGED jobs /\ thread' = "create"
    BY <1>8 DEF PollAccepts
  <2>3. wire'[c] = "quiet"
    BY <1>0, <2>1 DEF TypeOK
  <2>4. \A d \in Connections : d # c => /\ retainCount'[d] = retainCount[d]
                                        /\ wire'[d] = wire[d] /\ socket'[d] = socket[d]
    BY <1>0, <2>1, CountTypes DEF TypeOK
  <2>5. accepting' # None
    BY <2>1, Constants
  <2> QED BY <1>2, <2>1, <2>2, <2>3, <2>4, <2>5
<1>9. CASE PollReads
  <2>1. /\ thread = "create" /\ thread' = "release" /\ UNCHANGED <<accepting, socket>>
        /\ TakeInput(accepting) /\ ReadInPoll(accepting)
    BY <1>9 DEF PollReads, ReadInPoll
  <2>2. accepting \in Connections /\ retainCount[accepting] # 0
    <3>1. accepting \in Connections
      BY <1>0, <2>1 DEF InvLifetime, TypeOK
    <3> QED BY <3>1, Accepted
  <2>3. \A d \in Connections : wire'[d] \in {"away", "backlog"} => wire[d] \in {"away", "backlog"}
    BY <2>1, <2>2, WiresMove
  <2>4. \A d \in Connections : retainCount'[d] = retainCount[d] \/ retainCount[d] # 0
    <3>1. retainCount' = retainCount \/ retainCount' = Count(accepting, 1)
      BY <2>1 DEF ReadInPoll, Await
    <3> QED BY <1>0, <2>2, <3>1, CountTypes
  <2>5. jobs' = jobs \/ jobs' = Dispatch(Job(accepting, "process", "start"))
    BY <2>1 DEF ReadInPoll
  <2>6. /\ IsFiniteSet(BagToSet(jobs'))
        /\ \A j \in BagToSet(jobs') : j \in BagToSet(jobs) \/ j.kind # "dealloc"
    <3>1. Job(accepting, "process", "start").kind # "dealloc"
      BY DEF Job
    <3> QED BY <1>1, <2>5, <3>1, DispatchJobs
  <2>7. accepting' # None
    BY <2>1, <2>2, Constants
  <2> QED BY <2>1, <2>3, <2>4, <2>6, <2>7, LifetimeFrame
<1>10. CASE PollReleases
  <2>1. /\ thread = "release" /\ thread' = "scan" /\ accepting' = None /\ UNCHANGED jobs
        /\ ReleaseInPoll(accepting)
    BY <1>10 DEF PollReleases, Called
  <2>2. accepting \in Connections /\ retainCount[accepting] # 0
    <3>1. accepting \in Connections
      BY <1>0, <2>1 DEF InvLifetime, TypeOK
    <3> QED BY <3>1, Accepted
  <2>3. \A d \in Connections :
          /\ retainCount'[d] = retainCount[d] \/ retainCount[d] # 0
          /\ wire'[d] \in {"away", "backlog"} =>
               wire[d] \in {"away", "backlog"} /\ socket'[d] \in {socket[d], None}
    BY <2>1, <2>2, ReleaseMoves
  <2> QED BY <1>2, <2>1, <2>3
<1>11. ASSUME NEW j \in BagToSet(jobs), Run(j) PROVE InvLifetime'
  <2>1. UNCHANGED <<polls, thread, cursor, accepting>>
    BY <1>11 DEF Run, JobHup, JobReads, JobAnswers, JobSends, AnswerSent, AnswerShort,
                 AnswerGoesOn, JobNotifies, JobCloses, JobFinishes, jobFrame
  <2>2. /\ accepting' # None <=> thread' \in {"create", "release"}
        /\ thread' = "call" => cursor' \in DOMAIN polls'
        /\ thread' \notin {"scan", "call", "create", "release"} => cursor' = 1
    BY <1>0, <2>1 DEF InvLifetime
  <2>3. /\ j \in Jobs /\ j.conn \in Connections /\ j.step \in JobSteps
        /\ j.step \in {"start", "hup", "sending", "notify", "finish"} => j.kind # "dealloc"
        /\ j.kind # "dealloc" => retainCount[j.conn] \in Nat \ {0}
        /\ wire[j.conn] \notin {"away", "backlog"}
    <3>1. wire[j.conn] \notin {"away", "backlog"}
      <4>1. CASE j.kind = "dealloc"
        BY <4>1 DEF ServerInv, InvLifetime
      <4>2. CASE j.kind # "dealloc"
        BY <4>2, JobTypes, Accepted
      <4> QED BY <4>1, <4>2
    <3> QED BY <3>1, JobTypes
  <2>4. \A d \in Connections : retainCount'[d] = retainCount[d] \/ retainCount[d] # 0
    <3>1. \/ retainCount' = retainCount
          \/ /\ j.step \in {"start", "sending", "finish"}
             /\ retainCount' = Count(j.conn, 1) \/ retainCount' = Count(j.conn, -1)
      BY <1>11 DEF Run, JobHup, JobReads, JobAnswers, JobSends, AnswerSent, AnswerShort,
                   AnswerGoesOn, Await, JobNotifies, JobCloses, JobFinishes
    <3> QED BY <1>0, <2>3, <3>1, CountTypes
  <2>5. \A d \in Connections :
          wire'[d] \in {"away", "backlog"} =>
            wire[d] \in {"away", "backlog"} /\ socket'[d] \in {socket[d], None}
    <3>1. \/ UNCHANGED <<wire, socket>>
          \/ TakeInput(j.conn) /\ UNCHANGED socket
          \/ Close(j.conn)
      BY <1>11 DEF Run, JobHup, JobReads, JobAnswers, JobSends, AnswerSent, AnswerShort,
                   AnswerGoesOn, JobNotifies, JobCloses, JobFinishes
    <3> QED BY <2>3, <3>1, WiresMove
  <2>6. ASSUME NEW new, BagToSet(jobs') \subseteq BagToSet(jobs) \cup {new},
               IsFiniteSet(BagToSet(jobs')),
               \/ new.kind # "dealloc"
               \/ /\ new.step \in {"closing", "close"} /\ new.conn \in Connections
                  /\ retainCount'[new.conn] = 0 /\ wire[new.conn] \notin {"away", "backlog"}
        PROVE  InvLifetime'
    <3>1. \A k \in BagToSet(jobs') :
            \/ k \in BagToSet(jobs)
            \/ k.kind # "dealloc"
            \/ /\ k.step \in {"closing", "close"} /\ k.conn \in Connections
               /\ retainCount'[k.conn] = 0 /\ wire[k.conn] \notin {"away", "backlog"}
      BY <2>6
    <3> QED BY <2>2, <2>4, <2>5, <2>6, <3>1, LifetimeFrame
  <2>7. ASSUME NEW step \in JobSteps, jobs' = To(j, step), j.kind # "dealloc" PROVE InvLifetime'
    <3> DEFINE new == [j EXCEPT !.step = step]
    <3>1. new.kind # "dealloc"
      BY <2>3, <2>7, NextJob
    <3>2. jobs' = Advance(j, new)
      BY <2>7 DEF To
    <3> HIDE DEF new
    <3>3. /\ IsABag(Advance(j, new)) /\ IsFiniteSet(BagToSet(Advance(j, new)))
          /\ BagToSet(Advance(j, new)) \subseteq BagToSet(jobs) \cup {new}
      BY AdvanceJobs
    <3> QED BY <2>6, <3>1, <3>2, <3>3
  <2>8. CASE jobs' = jobs (-) SetToBag({j})
    <3>1. BagToSet(jobs') \subseteq BagToSet(jobs) \cup {j} /\ IsFiniteSet(BagToSet(jobs'))
      BY <2>8, AdvanceJobs
    <3>2. \A k \in BagToSet(jobs') : k \in BagToSet(jobs)
      BY <2>8, AdvanceJobs
    <3> QED BY <2>2, <2>4, <2>5, <3>1, <3>2, LifetimeFrame
  <2>9. CASE JobHup(j)
    <3>1. j.kind # "dealloc" /\ jobs' = To(j, "finish")
      BY <2>3, <2>9 DEF JobHup
    <3> QED BY <2>7, <3>1 DEF JobSteps
  <2>10. CASE JobReads(j)
    <3>1. j.kind # "dealloc"
      BY <2>10 DEF JobReads
    <3>2. CASE wire[j.conn] = "request"
      <4> DEFINE new == Job(j.conn, "process", "start")
      <4>1. jobs' = To(j, "finish") (+) SetToBag({new})
        BY <2>10, <3>2 DEF JobReads
      <4>2. /\ IsABag(To(j, "finish")) /\ IsFiniteSet(BagToSet(To(j, "finish")))
            /\ BagToSet(To(j, "finish")) \subseteq BagToSet(jobs) \cup {[j EXCEPT !.step = "finish"]}
        BY AdvanceJobs DEF To
      <4>3. BagToSet(jobs') = BagToSet(To(j, "finish")) \cup {new}
        BY <4>1, <4>2, BagAdd
      <4>4. new.kind # "dealloc" /\ [j EXCEPT !.step = "finish"].kind # "dealloc"
        BY <2>3, <3>1, NextJob DEF Job, JobSteps
      <4>5. \A k \in BagToSet(jobs') : k \in BagToSet(jobs) \/ k.kind # "dealloc"
        BY <4>2, <4>3, <4>4
      <4>6. IsFiniteSet(BagToSet(jobs'))
        BY <4>2, <4>3, FS_AddElement
      <4> QED BY <2>2, <2>4, <2>5, <4>5, <4>6, LifetimeFrame
    <3>3. CASE wire[j.conn] # "request"
      <4>1. jobs' = To(j, "notify") \/ jobs' = To(j, "finish")
        BY <2>10, <3>3 DEF JobReads
      <4> QED BY <2>7, <3>1, <4>1 DEF JobSteps
    <3> QED BY <3>2, <3>3
  <2>11. CASE JobSends(j)
    <3>1. j.kind # "dealloc"
      BY <2>3, <2>11 DEF JobSends
    <3>2. CASE AnswerGoesOn
      <4>1. jobs' = jobs /\ IsFiniteSet(BagToSet(jobs))
        BY <1>0, <3>2 DEF AnswerGoesOn, InvLifetime
      <4> QED BY <2>6, <3>1, <4>1
    <3>3. CASE ~AnswerGoesOn
      <4>1. jobs' = To(j, "notify") \/ jobs' = To(j, "closing")
        BY <2>11, <3>3 DEF JobSends, AnswerSent, AnswerShort
      <4> QED BY <2>7, <3>1, <4>1 DEF JobSteps
    <3> QED BY <3>2, <3>3
  <2>15. CASE JobAnswers(j)
    <3>1. j.kind # "dealloc" /\ jobs' = To(j, "sending")
      BY <2>3, <2>15 DEF JobAnswers
    <3> QED BY <2>7, <3>1 DEF JobSteps
  <2>12. CASE JobNotifies(j)
    <3>1. CASE j.kind # "dealloc"
      <4>1. jobs' = To(j, "finish") \/ jobs' = To(j, "close")
        BY <2>12 DEF JobNotifies
      <4> QED BY <2>7, <3>1, <4>1 DEF JobSteps
    <3>2. CASE j.kind = "dealloc"
      <4> DEFINE new == [j EXCEPT !.step = "close"]
      <4>1. jobs' = Advance(j, new) /\ UNCHANGED retainCount
        BY <2>3, <2>12, <3>2 DEF JobNotifies, To
      <4>2. new.step = "close" /\ new.conn = j.conn
        BY <2>3, NextJob DEF JobSteps
      <4>3. retainCount[j.conn] = 0
        BY <3>2 DEF ServerInv, InvLifetime
      <4>4. BagToSet(jobs') \subseteq BagToSet(jobs) \cup {new} /\ IsFiniteSet(BagToSet(jobs'))
        BY <4>1, AdvanceJobs
      <4> QED BY <2>3, <2>6, <4>1, <4>2, <4>3, <4>4
    <3> QED BY <3>1, <3>2
  <2>13. CASE JobCloses(j)
    BY <2>7, <2>8, <2>13 DEF JobCloses, JobSteps
  <2>14. CASE JobFinishes(j)
    <3>1. CASE Disposed(j.conn)
      <4> DEFINE new == Job(j.conn, "dealloc", "closing")
      <4>1. jobs' = Advance(j, new) /\ retainCount' = Count(j.conn, -1)
        BY <2>14, <3>1 DEF JobFinishes
      <4>2. new.step = "closing" /\ new.conn = j.conn
        BY DEF Job
      <4>3. retainCount'[j.conn] = 0
        <5>1. retainCount[j.conn] = 1
          BY <3>1, Extra
        <5>2. Count(j.conn, -1)[j.conn] = retainCount[j.conn] - 1
          BY <1>0, <2>3, CountTypes
        <5> QED BY <4>1, <5>1, <5>2
      <4>4. BagToSet(jobs') \subseteq BagToSet(jobs) \cup {new} /\ IsFiniteSet(BagToSet(jobs'))
        BY <4>1, AdvanceJobs
      <4> QED BY <2>3, <2>6, <4>2, <4>3, <4>4
    <3>2. CASE ~Disposed(j.conn)
      BY <2>8, <2>14, <3>2 DEF JobFinishes
    <3> QED BY <3>1, <3>2
  <2> QED BY <1>11, <2>9, <2>10, <2>11, <2>12, <2>13, <2>14, <2>15 DEF Run
<1>12. ASSUME NEW c \in Connections, Peer(c) PROVE InvLifetime'
  <2>1. UNCHANGED <<pollVars, connVars, owner>>
    BY <1>12 DEF Peer, Connect, SendsPart, SendsRequest, HangsUp, Receives, peerFrame
  <2>2. \A d \in Connections : wire'[d] \in {"away", "backlog"} => wire[d] \in {"away", "backlog"}
    BY <1>0, <1>12 DEF Peer, Connect, SendsPart, SendsRequest, HangsUp, Receives, TypeOK
  <2> QED BY <1>2, <2>1, <2>2 DEF pollVars, connVars, connVarsButMain
<1> QED BY <1>3, <1>4, <1>5, <1>6, <1>7, <1>8, <1>9, <1>10, <1>11, <1>12 DEF Next, PollThread

------------------------------
(* Who holds and who works on a connection. *)

\* That is what the invariant says.
LEMMA HeldNow ==
  ASSUME ServerInv
  PROVE  \A c \in Connections : WellHeld(c)
  BY References DEF WellHeld, Exact, ServerInv, InvAlone, InvDescriptor

\* And the other way round.
LEMMA HeldIsExact ==
  ASSUME TypeOK, \A c \in Connections : WellHeld(c)
  PROVE  RetainCountExact /\ InvAlone /\ InvDescriptor
<1>1. \A c \in Connections : Copies(Blocks(c)) = CopiesOf(jobs, c)
  BY DEF Copies, Blocks, CopiesOf, BlocksOf
<1> QED BY <1>1 DEF WellHeld, Exact, RetainCountExact, InvAlone, InvDescriptor

\* No entry is disarmed while the thread stays where it was.
LEMMA ArmedFrame ==
  ASSUME ServerInv, DOMAIN polls' = DOMAIN polls,
         \A i \in DOMAIN polls : polls'[i].block = polls[i].block,
         \A i \in DOMAIN polls : polls[i].block \in Connections => (Removed(i)' => Removed(i)),
         FirstUnfired' >= FirstUnfired, FirstUnfired \in Nat, FirstUnfired' \in Nat,
         thread' \in {"poll", "read again", "drain again", "scan", "call", "create", "release"} =>
           thread \in {"poll", "read again", "drain again", "scan", "call", "create", "release"}
  PROVE  InvArmed'
<1> SUFFICES ASSUME thread' \in {"poll", "read again", "drain again", "scan", "call", "create",
                                 "release"},
                    NEW i \in DOMAIN polls', i >= FirstUnfired', polls'[i].block \in Connections
             PROVE  ~Removed(i)'
  BY DEF InvArmed
<1>1. polls[i].block \in Connections /\ i \in Nat
  <2>1. DOMAIN polls = 1..Len(polls) /\ Len(polls) \in Nat
    BY EntryTypes DEF ServerInv, RetainCountExact
  <2>2. i \in DOMAIN polls
    OBVIOUS
  <2>3. i \in Nat
    BY ONLY <2>1, <2>2
  <2> QED BY <2>2, <2>3
<1>2. i >= FirstUnfired
  BY ONLY <1>1, i >= FirstUnfired', FirstUnfired' >= FirstUnfired, FirstUnfired \in Nat,
          FirstUnfired' \in Nat
<1>3. ~Removed(i)
  BY <1>1, <1>2 DEF ServerInv, InvArmed
<1> QED BY <1>1, <1>3

\* It is a number.
LEMMA FirstUnfiredTypes ==
  ASSUME TypeOK
  PROVE  /\ FirstUnfired \in Nat \ {0} /\ FirstUnfired >= cursor
         /\ thread \in {"call", "create", "release"} => FirstUnfired = cursor + 1
         /\ thread \notin {"call", "create", "release"} => FirstUnfired = cursor
<1>1. cursor \in Nat \ {0}
  BY DEF TypeOK
<1>2. \A n \in Nat \ {0} : n >= n /\ n + 1 \in Nat \ {0} /\ n + 1 >= n
  OBVIOUS
<1> QED BY <1>1, <1>2 DEF FirstUnfired

\* A step that moves no block changes nothing for any connection.
LEMMA QuietStep ==
  ASSUME ServerInv, UNCHANGED <<updates, jobs, accepting, retainCount, socket>>,
         DOMAIN polls' = DOMAIN polls,
         \A i \in DOMAIN polls : /\ polls'[i].fd = polls[i].fd
                                 /\ polls'[i].block = polls[i].block
                                 /\ polls'[i].repeat = polls[i].repeat,
         thread' = "create" => thread = "create",
         thread' = "call" => \/ thread = "call" /\ cursor' = cursor
                            \/ polls'[cursor'].block \notin Connections
  PROVE  /\ \A c \in Connections : WellHeld(c)'
         /\ InvQueueOrder' /\ InvEntries'
         /\ \A i \in DOMAIN polls : Removed(i)' <=> Removed(i)
<1>1. \A i \in DOMAIN polls : Removed(i)' <=> Removed(i)
  BY DEF Removed
<1>2. \A c : Capturing(updates', c) = Capturing(updates, c) /\ Capturing(polls', c) = Capturing(polls, c)
  BY DEF Capturing
<1>3. InvQueueOrder' /\ InvEntries'
  BY DEF ServerInv, InvQueueOrder, InvEntries
<1>4. ASSUME NEW c \in Connections PROVE WellHeld(c)'
  <2>1. WellHeld(c)
    BY HeldNow
  <2>2. Exact(c)'
    <3>1. Exact(c)' <=> retainCount'[c] =
             Cardinality(Capturing(updates', c)) + Cardinality(Capturing(polls', c))
           + Cardinality(CopiesOf(jobs', c)) + (IF accepting' = c THEN 1 ELSE 0)
      BY DEF Exact
    <3> QED BY <2>1, <3>1, <1>2 DEF WellHeld, Exact
  <2>3. Undisturbed(c)
    <3>1. \A i \in Armed(c)' : i \in Armed(c) /\ polls'[i].fd = polls[i].fd
      BY <1>1, <1>2 DEF Armed, Capturing
    <3>2. AtWork(c)' = AtWork(c)
      BY DEF AtWork, Blocks
    <3>3. Fired(c)' => Fired(c)
      <4>1. thread = "call" => cursor \in DOMAIN polls
        BY DEF ServerInv, InvLifetime
      <4> QED BY <4>1 DEF Fired, Current
    <3> QED BY <1>2, <3>1, <3>2, <3>3 DEF Undisturbed, Creating
  <2> QED BY <2>1, <2>2, <2>3, UndisturbedKeeps DEF WellHeld
<1> QED BY <1>1, <1>3, <1>4

\* The steps that move no block.
LEMMA HeldByQuietSteps ==
  ASSUME ServerInv, TypeOK',
         \/ MainNotifies
         \/ ReadPipe /\ UNCHANGED <<connVars, netVars>>
         \/ ApplyDone /\ UNCHANGED <<connVars, netVars>>
         \/ ScanDone /\ UNCHANGED <<connVars, netVars>>
         \/ /\ PollReturns([i \in DOMAIN polls |-> Revents(polls[i])])
            /\ UNCHANGED <<connVars, netVars>>
         \/ PollCallsPipeBlock
         \/ PollAcceptsNothing
         \/ \E c \in Connections : Peer(c)
         \/ UNCHANGED vars
  PROVE  Held'
<1>0. TypeOK
  BY DEF ServerInv, RetainCountExact
<1>1. /\ FirstUnfired \in Nat /\ FirstUnfired' \in Nat /\ cursor \in Nat
      /\ thread \in {"call", "create", "release"} => FirstUnfired = cursor + 1
      /\ thread \notin {"call", "create", "release"} => FirstUnfired = cursor
      /\ thread' \in {"call", "create", "release"} => FirstUnfired' = cursor' + 1
      /\ thread' \notin {"call", "create", "release"} => FirstUnfired' = cursor'
  <2>1. cursor \in Nat /\ cursor' \in Nat
    BY <1>0 DEF TypeOK
  <2>2. \A n \in Nat : n + 1 \in Nat
    OBVIOUS
  <2> QED BY <2>1, <2>2 DEF FirstUnfired
<1>2. ASSUME UNCHANGED <<updates, jobs, accepting, retainCount, socket, cursor>>,
             DOMAIN polls' = DOMAIN polls,
             \A i \in DOMAIN polls : /\ polls'[i].fd = polls[i].fd
                                     /\ polls'[i].block = polls[i].block
                                     /\ polls'[i].repeat = polls[i].repeat,
             \/ thread' = thread
             \/ thread = "poll" /\ thread' = "read again"
             \/ thread = "read again" /\ thread' = "drain again"
             \/ thread = "read" /\ thread' = "drain"
      PROVE  Held'
  <2>1. /\ \A c \in Connections : WellHeld(c)'
        /\ InvQueueOrder' /\ InvEntries'
        /\ \A i \in DOMAIN polls : Removed(i)' <=> Removed(i)
    BY <1>2, QuietStep
  <2>2. FirstUnfired' >= FirstUnfired
    <3>1. FirstUnfired' = FirstUnfired
      BY <1>1, <1>2
    <3>2. \A n \in Nat : n >= n
      OBVIOUS
    <3> QED BY <1>1, <3>1, <3>2
  <2>3. InvArmed'
    BY <1>1, <1>2, <2>1, <2>2, ArmedFrame
  <2> QED BY <2>1, <2>3 DEF Held
<1>3. ASSUME MainNotifies \/ UNCHANGED vars \/ \E c \in Connections : Peer(c) PROVE Held'
  <2>1. UNCHANGED <<polls, updates, jobs, accepting, retainCount, socket, cursor, thread>>
    BY <1>3 DEF MainNotifies, connVarsButMain, netVars, vars, pollVars, connVars, Peer, Connect,
                SendsPart, SendsRequest, HangsUp, Receives, peerFrame
  <2> QED BY <2>1, <1>2
<1>4. ASSUME UNCHANGED <<connVars, netVars>>,
             ReadPipe \/ PollReturns([i \in DOMAIN polls |-> Revents(polls[i])])
      PROVE  Held'
  <2>1. UNCHANGED <<jobs, accepting, retainCount, socket>>
    BY <1>4 DEF connVars, connVarsButMain
  <2>2. CASE ReadPipe
    BY <1>2, <2>1, <2>2 DEF ReadPipe
  <2>3. CASE PollReturns([i \in DOMAIN polls |-> Revents(polls[i])])
    <3> DEFINE r == [i \in DOMAIN polls |-> Revents(polls[i])]
    <3>1. /\ \A i \in DOMAIN polls : r[i] \in {"none", "ready", "hup"}
          /\ polls' = [i \in DOMAIN polls |-> [polls[i] EXCEPT !.revents = r[i]]]
          /\ thread = "poll" /\ thread' = "read again" /\ UNCHANGED <<updates, cursor>>
      BY <2>3, ReventsTypes DEF PollReturns
    <3>2. /\ DOMAIN polls' = DOMAIN polls
          /\ \A i \in DOMAIN polls : /\ polls'[i].fd = polls[i].fd
                                     /\ polls'[i].block = polls[i].block
                                     /\ polls'[i].repeat = polls[i].repeat
      BY <1>0, <3>1, EntriesReported
    <3> QED BY <1>2, <2>1, <3>1, <3>2
  <2> QED BY <1>4, <2>2, <2>3
<1>5. ASSUME UNCHANGED <<connVars, netVars>>, ScanDone PROVE Held'
  <2> DEFINE r == [i \in DOMAIN polls |-> "none"]
  <2>1. /\ \A i \in DOMAIN polls : r[i] \in {"none", "ready", "hup"}
        /\ polls' = [i \in DOMAIN polls |-> [polls[i] EXCEPT !.revents = r[i]]]
        /\ thread' = "read" /\ UNCHANGED <<updates, jobs, accepting, retainCount, socket>>
    BY <1>5 DEF ScanDone, connVars, connVarsButMain
  <2>2. /\ DOMAIN polls' = DOMAIN polls
        /\ \A i \in DOMAIN polls : /\ polls'[i].fd = polls[i].fd
                                   /\ polls'[i].block = polls[i].block
                                   /\ polls'[i].repeat = polls[i].repeat
    BY <1>0, <2>1, EntriesReported
  <2>3. (\A c \in Connections : WellHeld(c)') /\ InvQueueOrder' /\ InvEntries'
    BY <2>1, <2>2, QuietStep
  <2> QED BY <2>1, <2>3 DEF Held, InvArmed
<1>6. ASSUME UNCHANGED <<connVars, netVars>>, ApplyDone PROVE Held'
  <2>1. /\ UNCHANGED <<polls, updates, cursor, jobs, accepting, retainCount, socket>>
        /\ updates = <<>> /\ thread' \in {"poll", "scan"}
    BY <1>6 DEF ApplyDone, connVars, connVarsButMain
  <2>2. (\A c \in Connections : WellHeld(c)') /\ InvQueueOrder' /\ InvEntries'
    BY <2>1, QuietStep
  <2>3. \A i : ~Removed(i)'
    BY <2>1 DEF Removed
  <2> QED BY <2>2, <2>3 DEF Held, InvArmed
<1>7. ASSUME PollCallsPipeBlock \/ PollAcceptsNothing PROVE Held'
  <2>1. /\ UNCHANGED <<polls, updates, jobs, accepting, retainCount, socket>>
        /\ thread = "call" /\ thread' = "scan" /\ cursor' = cursor + 1
    BY <1>7 DEF PollCallsPipeBlock, PollAcceptsNothing, Called, connVars, connVarsButMain
  <2>2. /\ \A c \in Connections : WellHeld(c)'
        /\ InvQueueOrder' /\ InvEntries'
        /\ \A i \in DOMAIN polls : Removed(i)' <=> Removed(i)
    BY <2>1, QuietStep
  <2>3. FirstUnfired' >= FirstUnfired
    BY <1>1, <2>1
  <2>4. InvArmed'
    BY <1>1, <2>1, <2>2, <2>3, ArmedFrame
  <2> QED BY <2>2, <2>4 DEF Held
<1> QED BY <1>3, <1>4, <1>5, <1>6, <1>7

\* The places where a connection is worked on: only a job does.
LEMMA OnlyWorker ==
  ASSUME NEW c, NEW w, Capturing(updates', c) = {}, Armed(c)' = {}, AtWork(c)' \subseteq {w},
         jobs'[w] = 1, ~Creating(c)', ~Fired(c)', socket'[c] # None
  PROVE  Alone(c)' /\ HasDescriptor(c)'
<1>1. Capturing(updates, c)' = {}
  BY DEF Capturing
<1> QED BY <1>1 DEF Alone, HasDescriptor

\* Or it waits to be registered.
LEMMA OnlyUpdate ==
  ASSUME NEW c, NEW n, Capturing(updates', c) \subseteq {n}, updates'[n].fd = socket'[c],
         Armed(c)' = {}, AtWork(c)' = {}, ~Creating(c)', ~Fired(c)'
  PROVE  Alone(c)' /\ HasDescriptor(c)'
<1>1. Capturing(updates, c)' \subseteq {n}
  BY DEF Capturing
<1> QED BY <1>1 DEF Alone, HasDescriptor

\* Or it waits in the poll.
LEMMA OnlyEntry ==
  ASSUME NEW c, NEW n, Armed(c)' \subseteq {n}, polls'[n].fd = socket'[c],
         Capturing(updates', c) = {}, AtWork(c)' = {}, ~Creating(c)', ~Fired(c)'
  PROVE  Alone(c)' /\ HasDescriptor(c)'
<1>1. Capturing(updates, c)' = {}
  BY DEF Capturing
<1> QED BY <1>1 DEF Alone, HasDescriptor

\* Or the poll thread is at it, or nobody.
LEMMA OnlyCall ==
  ASSUME NEW c, Capturing(updates', c) = {}, Armed(c)' = {}, AtWork(c)' = {},
         Creating(c)' \/ Fired(c)' => socket'[c] # None
  PROVE  Alone(c)' /\ HasDescriptor(c)'
<1>1. Capturing(updates, c)' = {}
  BY DEF Capturing
<1> QED BY <1>1 DEF Alone, HasDescriptor

\* The references of a connection, counted after the step.
LEMMA ExactNext ==
  ASSUME NEW c
  PROVE  Exact(c)' <=>
           retainCount'[c] = Cardinality(Capturing(updates', c)) + Cardinality(Capturing(polls', c))
                           + Cardinality(CopiesOf(jobs', c)) + (IF accepting' = c THEN 1 ELSE 0)
  BY DEF Exact

\* The jobs of a connection when one was dispatched.
LEMMA WorkDispatched ==
  ASSUME ServerInv, NEW new, jobs' = Dispatch(new), NEW d
  PROVE  /\ Cardinality(CopiesOf(jobs', d)) =
              Cardinality(CopiesOf(jobs, d)) + (IF IsBlockOf(new, d) THEN 1 ELSE 0)
         /\ AtWork(d)' = AtWork(d) \cup (IF new.conn = d /\ IsAtWork(new) THEN {new} ELSE {})
         /\ \A k \in AtWork(d) : k # new => jobs'[k] = jobs[k]
         /\ new \notin BagToSet(jobs) => jobs'[new] = 1
<1>1. IsABag(jobs) /\ IsFiniteSet(BagToSet(jobs))
  BY DEF ServerInv, RetainCountExact, TypeOK, InvLifetime
<1>2. AtWork(d) = WorkOf(jobs, d) /\ AtWork(d)' = WorkOf(jobs', d)
  BY DEF AtWork, Blocks, WorkOf, IsAtWork
<1>3. Cardinality(CopiesOf(jobs', d)) =
        Cardinality(CopiesOf(jobs, d)) + (IF IsBlockOf(new, d) THEN 1 ELSE 0)
  BY <1>1, CopiesAdd DEF Dispatch
<1>4. /\ WorkOf(jobs', d) = WorkOf(jobs, d) \cup (IF new.conn = d /\ IsAtWork(new) THEN {new} ELSE {})
      /\ \A k \in WorkOf(jobs, d) : k # new => jobs'[k] = jobs[k]
  <2>1. Added(jobs', jobs, new, d)
    BY <1>1, WorkAdd DEF Dispatch
  <2> QED BY <2>1 DEF Added
<1>5. new \notin BagToSet(jobs) => jobs'[new] = 1
  BY <1>1, BagAdd DEF Dispatch
<1> QED BY <1>2, <1>3, <1>4, <1>5

\* And when one went on.
LEMMA WorkAdvanced ==
  ASSUME ServerInv, NEW j \in BagToSet(jobs), NEW new, new # j, jobs' = Advance(j, new), NEW d
  PROVE  /\ Cardinality(CopiesOf(jobs', d)) + (IF IsBlockOf(j, d) THEN 1 ELSE 0) =
              Cardinality(CopiesOf(jobs, d)) + (IF IsBlockOf(new, d) THEN 1 ELSE 0)
         /\ AtWork(d)' = (IF jobs[j] = 1 THEN AtWork(d) \ {j} ELSE AtWork(d))
                           \cup (IF new.conn = d /\ IsAtWork(new) THEN {new} ELSE {})
         /\ \A k \in AtWork(d) : k # j /\ k # new => jobs'[k] = jobs[k]
         /\ new \notin BagToSet(jobs) => jobs'[new] = 1
<1>1. IsABag(jobs) /\ IsFiniteSet(BagToSet(jobs))
  BY DEF ServerInv, RetainCountExact, TypeOK, InvLifetime
<1>2. AtWork(d) = WorkOf(jobs, d) /\ AtWork(d)' = WorkOf(jobs', d)
  BY DEF AtWork, Blocks, WorkOf, IsAtWork
<1> DEFINE A == (jobs (-) SetToBag({j})) (+) SetToBag({new})
<1>3. /\ Cardinality(CopiesOf(A, d)) + (IF IsBlockOf(j, d) THEN 1 ELSE 0) =
           Cardinality(CopiesOf(jobs, d)) + (IF IsBlockOf(new, d) THEN 1 ELSE 0)
      /\ WorkOf(A, d) = (IF jobs[j] = 1 THEN WorkOf(jobs, d) \ {j} ELSE WorkOf(jobs, d))
                          \cup (IF new.conn = d /\ IsAtWork(new) THEN {new} ELSE {})
  <2>1. Advanced(A, jobs, j, new, d)
    BY <1>1, WorkAdvance
  <2> HIDE DEF A
  <2> QED BY <2>1 DEF Advanced
<1>4. /\ \A k \in BagToSet(jobs) : k # j /\ k # new => A[k] = jobs[k]
      /\ A[new] = IF new \in BagToSet(jobs) THEN jobs[new] + 1 ELSE 1
  <2>1. Advanced(A, jobs, j, new, d)
    BY <1>1, WorkAdvance
  <2> HIDE DEF A
  <2> QED BY <2>1 DEF Advanced
<1>5. jobs' = A
  BY DEF Advance
<1> HIDE DEF A
<1>6. \A k \in AtWork(d) : k # j /\ k # new => jobs'[k] = jobs[k]
  BY <1>4, <1>5 DEF AtWork, Blocks
<1> QED BY <1>2, <1>3, <1>4, <1>5, <1>6

\* And when one ended.
LEMMA WorkDropped ==
  ASSUME ServerInv, NEW j \in BagToSet(jobs), jobs' = jobs (-) SetToBag({j}), NEW d
  PROVE  /\ Cardinality(CopiesOf(jobs, d)) =
              Cardinality(CopiesOf(jobs', d)) + (IF IsBlockOf(j, d) THEN 1 ELSE 0)
         /\ AtWork(d)' = IF jobs[j] = 1 THEN AtWork(d) \ {j} ELSE AtWork(d)
         /\ \A k \in AtWork(d) : k # j => jobs'[k] = jobs[k]
         /\ Cardinality(CopiesOf(jobs', d)) \in Nat
<1>1. IsABag(jobs) /\ IsFiniteSet(BagToSet(jobs))
  BY DEF ServerInv, RetainCountExact, TypeOK, InvLifetime
<1>2. AtWork(d) = WorkOf(jobs, d) /\ AtWork(d)' = WorkOf(jobs', d)
  BY DEF AtWork, Blocks, WorkOf, IsAtWork
<1>3. Cardinality(CopiesOf(jobs, d)) =
        Cardinality(CopiesOf(jobs', d)) + (IF IsBlockOf(j, d) THEN 1 ELSE 0)
  BY <1>1, CopiesDrop
<1>4. /\ WorkOf(jobs', d) = IF jobs[j] = 1 THEN WorkOf(jobs, d) \ {j} ELSE WorkOf(jobs, d)
      /\ \A k \in WorkOf(jobs, d) : k # j => jobs'[k] = jobs[k]
  <2>1. Dropped(jobs', jobs, j, d)
    BY <1>1, WorkDrop
  <2> QED BY <2>1 DEF Dropped
<1>5. Cardinality(CopiesOf(jobs', d)) \in Nat
  BY <1>1, AdvanceJobs, CopiesFinite
<1> QED BY <1>2, <1>3, <1>4, <1>5

\* Registering a descriptor that is no connection's.
LEMMA HeldByRegistration ==
  ASSUME ServerInv, TypeOK', NEW u \in Updates, u.block \notin Connections, u.block # NoBlock,
         u.repeat = TRUE, updates' = Append(updates, u),
         UNCHANGED <<polls, cursor, connVarsButMain, netVars>>,
         thread' = thread \/ thread' = "read"
  PROVE  Held'
<1>0. TypeOK
  BY DEF ServerInv, RetainCountExact
<1>1. /\ \A c \in Connections :
           /\ Capturing(updates', c) =
                Capturing(updates, c) \cup (IF u.block = c THEN {Len(updates) + 1} ELSE {})
           /\ Cardinality(Capturing(updates', c)) =
                Cardinality(Capturing(updates, c)) + (IF u.block = c THEN 1 ELSE 0)
           /\ Armed(c)' = Armed(c)
      /\ \A c \in Connections : \A k \in Capturing(updates, c) : updates'[k].fd = updates[k].fd
      /\ \A i \in DOMAIN polls : Removed(i)' <=> Removed(i)
      /\ InvQueueOrder' /\ InvEntries'
  BY AppendRegistration
<1>2. ASSUME NEW c \in Connections PROVE WellHeld(c)'
  <2>1. WellHeld(c) /\ u.block # c
    BY HeldNow
  <2>2. /\ Capturing(updates', c) = Capturing(updates, c)
        /\ Cardinality(Capturing(updates', c)) = Cardinality(Capturing(updates, c))
    <3>1. Capturing(updates', c) =
            Capturing(updates, c) \cup (IF u.block = c THEN {Len(updates) + 1} ELSE {})
      BY <1>1
    <3>2. Capturing(updates', c) = Capturing(updates, c)
      BY <2>1, <3>1
    <3> QED BY <3>2
  <2>3. AtWork(c)' = AtWork(c) /\ UNCHANGED <<retainCount, jobs, accepting, socket>>
    BY DEF AtWork, Blocks, connVarsButMain
  <2>4. Exact(c)'
    BY <2>1, <2>2, <2>3, ExactNext DEF WellHeld, Exact
  <2>5. Undisturbed(c)
    BY <1>1, <2>2, <2>3 DEF Undisturbed, Creating, Fired, Current
  <2> QED BY <2>1, <2>4, <2>5, UndisturbedKeeps DEF WellHeld
<1>3. InvArmed'
  <2>1. CASE thread' = "read"
    BY <2>1 DEF InvArmed
  <2>2. CASE thread' = thread
    <3>1. FirstUnfired' = FirstUnfired /\ FirstUnfired \in Nat /\ FirstUnfired >= FirstUnfired
      BY <1>0, <2>2, FirstUnfiredTypes DEF FirstUnfired
    <3> QED BY <1>1, <2>2, <3>1, ArmedFrame
  <2> QED BY <2>1, <2>2
<1> QED BY <1>1, <1>2, <1>3 DEF Held

\* Nothing is to be registered for a descriptor whose connection waits for nothing.
LEMMA NotQueued ==
  ASSUME ServerInv, NEW c \in Connections, socket[c] # None, Capturing(updates, c) = {}
  PROVE  \A k \in DOMAIN updates : updates[k].block \in Connections => updates[k].fd # socket[c]
<1> SUFFICES ASSUME NEW k \in DOMAIN updates, updates[k].block \in Connections,
                    updates[k].fd = socket[c]
             PROVE  FALSE
  OBVIOUS
<1> DEFINE d == updates[k].block
<1>1. k \in Capturing(updates, d)
  BY DEF Capturing
<1>2. updates[k].fd = socket[d]
  BY <1>1 DEF ServerInv, InvDescriptor, HasDescriptor
<1>3. c = d
  BY <1>2, OwnDescriptor
<1> QED BY <1>1, <1>3

\* An entry fires: whoever waited there waits no longer.
LEMMA HeldByFire ==
  ASSUME ServerInv, TypeOK', Fire, UNCHANGED <<connVars, netVars>>
  PROVE  Held'
<1>0. TypeOK
  BY DEF ServerInv, RetainCountExact
<1> DEFINE i0 == Min(Pending)
<1> DEFINE p0 == polls[i0]
<1>1. /\ thread = "scan" /\ thread' = "call" /\ cursor' = i0 /\ UNCHANGED polls
      /\ UNCHANGED <<retainCount, jobs, accepting, socket>>
      /\ p0.repeat => updates' = updates
      /\ ~p0.repeat => updates' = Append(updates, Unregister(p0.fd))
      /\ Pending # {}
  BY DEF Fire, connVars, connVarsButMain
<1>2. i0 \in DOMAIN polls /\ i0 \in Nat \ {0} /\ i0 >= cursor /\ p0 \in Updates
  BY <1>0, <1>1, PendingIsMet, EntryTypes
<1>3. p0.block \in Connections <=> ~p0.repeat
  BY <1>2 DEF ServerInv, InvEntries
<1> HIDE DEF i0
<1>4. cursor \in Nat /\ cursor' \in Nat /\ FirstUnfired = cursor /\ FirstUnfired' = i0 + 1
  BY <1>0, <1>1, <1>2 DEF TypeOK, FirstUnfired
<1>5. FirstUnfired' >= FirstUnfired /\ FirstUnfired \in Nat /\ FirstUnfired' \in Nat
  BY <1>2, <1>4
<1>6. CASE p0.repeat
  <2>1. polls'[cursor'].block \notin Connections /\ updates' = updates
    BY <1>1, <1>3, <1>6
  <2>2. /\ \A c \in Connections : WellHeld(c)'
        /\ InvQueueOrder' /\ InvEntries'
        /\ \A i \in DOMAIN polls : Removed(i)' <=> Removed(i)
    BY <1>1, <2>1, QuietStep
  <2>3. InvArmed'
    BY <1>1, <1>5, <2>2, ArmedFrame
  <2> QED BY <2>2, <2>3 DEF Held
<1>7. CASE ~p0.repeat
  <2> DEFINE c0 == p0.block
  <2> DEFINE u == Unregister(p0.fd)
  <2>1. c0 \in Connections /\ updates' = Append(updates, u) /\ u \in Updates
        /\ u.block = NoBlock /\ u.fd = p0.fd
    <3>1. p0.fd \in Descriptors
      BY <1>2 DEF Updates
    <3> QED BY <1>1, <1>3, <1>7, <3>1, UpdateTypes, UpdateFacts
  <2>2. ~Removed(i0)
    BY <1>1, <1>2, <1>4, <2>1 DEF ServerInv, InvArmed
  <2>3. i0 \in Armed(c0)
    BY <1>2, <2>2 DEF Armed, Capturing
  <2>4. /\ Armed(c0) = {i0} /\ Capturing(updates, c0) = {} /\ AtWork(c0) = {} /\ ~Creating(c0)
        /\ p0.fd = socket[c0] /\ socket[c0] # None
    <3>1. Alone(c0) /\ HasDescriptor(c0)
      BY <2>1 DEF ServerInv, InvAlone, InvDescriptor
    <3>2. p0.fd # None
      BY <1>2, Constants DEF Updates
    <3> QED BY <2>3, <3>1, <3>2 DEF Alone, HasDescriptor
  <2> HIDE DEF u
  <2>5. \A i \in DOMAIN polls : Removed(i)' <=> Removed(i) \/ i = i0
    <3>1. ASSUME NEW i \in DOMAIN polls PROVE Removed(i)' <=> Removed(i) \/ i = i0
      <4>1. Removed(i)' <=> Removed(i) \/ u = Unregister(polls[i].fd)
        BY <1>0, <1>1, <2>1, AppendedRemoved
      <4>2. u = Unregister(polls[i].fd) <=> polls[i].fd = p0.fd
        BY UpdateFacts DEF u
      <4>3. polls[i].fd = p0.fd <=> i = i0
        BY <1>2 DEF ServerInv, InvEntries
      <4> QED BY <4>1, <4>2, <4>3
    <3> QED BY <3>1
  <2>6. /\ DOMAIN updates = 1..Len(updates) /\ Len(updates) \in Nat
        /\ \A k \in DOMAIN updates : k \in DOMAIN updates' /\ updates'[k] = updates[k]
        /\ updates'[Len(updates) + 1] = u
        /\ \A k \in DOMAIN updates' : k \in DOMAIN updates \/ k = Len(updates) + 1
    BY <1>0, <2>1, Appended
  <2>7. ASSUME NEW c \in Connections
        PROVE  /\ Capturing(updates', c) = Capturing(updates, c)
               /\ Cardinality(Capturing(updates', c)) = Cardinality(Capturing(updates, c))
    <3>1. Capturing(updates', c) = Capturing(updates, c)
      <4>1. u.block # c
        BY <2>1, Constants
      <4> QED BY <2>6, <4>1 DEF Capturing
    <3> QED BY <3>1
  <2>8. ASSUME NEW c \in Connections PROVE WellHeld(c)'
    <3>1. WellHeld(c)
      BY HeldNow
    <3>2. AtWork(c)' = AtWork(c)
      BY <1>1 DEF AtWork, Blocks
    <3>3. Exact(c)'
      BY <1>1, <2>7, <3>1, ExactNext DEF WellHeld, Exact
    <3>4. ~Creating(c)'
      BY <1>1 DEF Creating
    <3>5. Armed(c)' = Armed(c) \ {i0}
      BY <1>1, <2>5 DEF Armed, Capturing
    <3>6. CASE c = c0
      <4>1. Alone(c)' /\ HasDescriptor(c)'
        BY <1>1, <2>4, <2>7, <3>2, <3>4, <3>5, <3>6, OnlyCall
      <4> QED BY <3>3, <4>1 DEF WellHeld
    <3>7. CASE c # c0
      <4>1. ~Fired(c)'
        BY <1>1, <3>7 DEF Fired, Current
      <4>2. Undisturbed(c)
        BY <1>1, <2>6, <2>7, <3>2, <3>4, <3>5, <4>1 DEF Undisturbed, Capturing
      <4> QED BY <3>1, <3>3, <4>2, UndisturbedKeeps DEF WellHeld
    <3> QED BY <3>6, <3>7
  <2>9. InvQueueOrder'
    <3> SUFFICES ASSUME NEW k \in DOMAIN updates', NEW m \in DOMAIN updates', k < m,
                        updates'[k].block \in Connections
                 PROVE  updates'[m] # Unregister(updates'[k].fd)
      BY DEF InvQueueOrder
    <3>1. k \in DOMAIN updates
      <4>1. k # Len(updates) + 1
        BY <2>1, <2>6, Constants
      <4> QED BY <4>1, <2>6
    <3>2. CASE m \in DOMAIN updates
      BY <3>1, <3>2, <2>6 DEF ServerInv, InvQueueOrder
    <3>3. CASE m = Len(updates) + 1
      <4>1. updates[k].fd # p0.fd
        BY <2>1, <2>4, <2>6, <3>1, NotQueued
      <4> QED BY <2>1, <2>6, <3>1, <3>3, <4>1, UpdateFacts DEF u
    <3> QED BY <3>2, <3>3, <2>6
  <2>10. InvEntries'
    BY <1>1, <2>1, <2>6 DEF ServerInv, InvEntries
  <2>11. InvArmed'
    <3> SUFFICES ASSUME NEW i \in DOMAIN polls, i >= i0 + 1, polls[i].block \in Connections
                 PROVE  ~Removed(i)'
      BY <1>1, <1>4 DEF InvArmed
    <3>1. i \in Nat
      BY <1>0, EntryTypes
    <3>2. i >= cursor /\ i # i0
      BY <1>2, <1>4, <3>1
    <3>3. ~Removed(i)
      BY <1>1, <1>4, <3>2 DEF ServerInv, InvArmed
    <3> QED BY <2>5, <3>2, <3>3
  <2> QED BY <2>8, <2>9, <2>10, <2>11 DEF Held
<1> QED BY <1>6, <1>7

\* The block of an entry that fired is dispatched.
LEMMA HeldByDispatch ==
  ASSUME ServerInv, TypeOK', PollDispatches
  PROVE  Held'
<1>0. TypeOK
  BY DEF ServerInv, RetainCountExact
<1> DEFINE c0 == Current.block
<1> DEFINE new == Job(c0, IF Current.events = "in" THEN "read" ELSE "send",
                      IF Current.revents = "hup" THEN "hup" ELSE "start")
<1>1. /\ thread = "call" /\ thread' = "scan" /\ cursor' = cursor + 1 /\ c0 \in Connections
      /\ jobs' = Dispatch(new) /\ retainCount' = Count(c0, 1)
      /\ UNCHANGED <<polls, updates, accepting, socket>>
  BY DEF PollDispatches, Called
<1>2. new.conn = c0 /\ IsAtWork(new) /\ new.kind # "dealloc"
  BY DEF Job, IsAtWork
<1>3. Fired(c0)
  BY <1>1 DEF Fired
<1> HIDE DEF c0, new
<1>4. /\ Capturing(updates, c0) = {} /\ Armed(c0) = {} /\ AtWork(c0) = {} /\ ~Creating(c0)
      /\ socket[c0] # None
  <2>1. Alone(c0) /\ HasDescriptor(c0)
    BY <1>1, HeldNow DEF WellHeld
  <2>2. ~Creating(c0)
    BY <1>1 DEF Creating
  <2> QED BY <1>3, <2>1, <2>2 DEF Alone, HasDescriptor
<1>5. new \notin BagToSet(jobs)
  BY <1>2, <1>4 DEF AtWork, Blocks, IsAtWork
<1>6. \A i : Removed(i)' <=> Removed(i)
  BY <1>1 DEF Removed
<1>7. ASSUME NEW c \in Connections PROVE WellHeld(c)'
  <2>1. WellHeld(c)
    BY HeldNow
  <2>2. /\ Cardinality(CopiesOf(jobs', c)) =
             Cardinality(CopiesOf(jobs, c)) + (IF IsBlockOf(new, c) THEN 1 ELSE 0)
        /\ AtWork(c)' = AtWork(c) \cup (IF new.conn = c /\ IsAtWork(new) THEN {new} ELSE {})
        /\ \A k \in AtWork(c) : k # new => jobs'[k] = jobs[k]
        /\ jobs'[new] = 1
    BY <1>1, <1>5, WorkDispatched
  <2>3. Exact(c)'
    <3>1. retainCount'[c] = retainCount[c] + (IF c = c0 THEN 1 ELSE 0)
      BY <1>0, <1>1, CountTypes, References
    <3>2. IsBlockOf(new, c) <=> c = c0
      BY <1>2 DEF IsBlockOf
    <3>3. /\ Cardinality(Capturing(updates, c)) \in Nat /\ Cardinality(Capturing(polls, c)) \in Nat
          /\ Cardinality(CopiesOf(jobs, c)) \in Nat
          /\ retainCount[c] = Cardinality(Capturing(updates, c)) + Cardinality(Capturing(polls, c))
                            + Cardinality(CopiesOf(jobs, c)) + (IF accepting = c THEN 1 ELSE 0)
      BY References
    <3> QED BY <1>1, <2>2, <3>1, <3>2, <3>3, ExactNext
  <2>4. ~Creating(c)' /\ ~Fired(c)' /\ Capturing(updates', c) = Capturing(updates, c)
        /\ Armed(c)' = Armed(c)
    BY <1>1, <1>6 DEF Creating, Fired, Armed, Capturing
  <2>5. CASE c = c0
    <3>1. Alone(c)' /\ HasDescriptor(c)'
      BY <1>1, <1>4, <2>2, <2>4, <2>5, OnlyWorker
    <3> QED BY <2>3, <3>1 DEF WellHeld
  <2>6. CASE c # c0
    <3>1. AtWork(c)' = AtWork(c) /\ new \notin AtWork(c)
      BY <1>2, <1>5, <2>2, <2>6 DEF AtWork, Blocks
    <3>2. Undisturbed(c)
      BY <1>1, <2>2, <2>4, <3>1 DEF Undisturbed
    <3> QED BY <2>1, <2>3, <3>2, UndisturbedKeeps DEF WellHeld
  <2> QED BY <2>5, <2>6
<1>8. InvQueueOrder' /\ InvEntries'
  BY <1>1 DEF ServerInv, InvQueueOrder, InvEntries
<1>9. InvArmed'
  <2>1. /\ FirstUnfired = cursor + 1 /\ FirstUnfired' = cursor + 1 /\ cursor \in Nat
    BY <1>0, <1>1 DEF TypeOK, FirstUnfired
  <2>2. FirstUnfired' >= FirstUnfired /\ FirstUnfired \in Nat /\ FirstUnfired' \in Nat
    BY <2>1
  <2> QED BY <1>1, <1>6, <2>2, ArmedFrame
<1> QED BY <1>7, <1>8, <1>9 DEF Held

\* A connection is accepted: nothing was known of it.
LEMMA HeldByAccept ==
  ASSUME ServerInv, TypeOK', PollAccepts
  PROVE  Held'
<1>0. TypeOK
  BY DEF ServerInv, RetainCountExact
<1>1. PICK c0 \in Connections, s \in Sockets :
        /\ wire[c0] = "backlog"
        /\ socket' = [socket EXCEPT ![c0] = s]
        /\ retainCount' = Count(c0, 1)
        /\ accepting' = c0
  BY DEF PollAccepts
<1>2. /\ thread = "call" /\ thread' = "create" /\ UNCHANGED <<polls, updates, cursor, jobs>>
  BY DEF PollAccepts
<1>3. /\ accepting = None /\ accepting # c0 /\ retainCount[c0] = 0 /\ s # None
      /\ \A c \in Connections : accepting # c
  BY <1>1, <1>2, Constants DEF ServerInv, InvLifetime
<1>4. /\ Capturing(updates, c0) = {} /\ Capturing(polls, c0) = {} /\ Blocks(c0) = {}
  BY <1>3, OneReference
<1>5. /\ socket'[c0] = s /\ \A c \in Connections : c # c0 => socket'[c] = socket[c]
  BY <1>0, <1>1 DEF TypeOK
<1>6. \A i : Removed(i)' <=> Removed(i)
  BY <1>2 DEF Removed
<1>7. ASSUME NEW c \in Connections PROVE WellHeld(c)'
  <2>1. WellHeld(c)
    BY HeldNow
  <2>2. Exact(c)'
    <3>1. retainCount'[c] = retainCount[c] + (IF c = c0 THEN 1 ELSE 0)
      BY <1>0, <1>1, CountTypes, References
    <3>2. /\ Cardinality(Capturing(updates, c)) \in Nat /\ Cardinality(Capturing(polls, c)) \in Nat
          /\ Cardinality(CopiesOf(jobs, c)) \in Nat
          /\ retainCount[c] = Cardinality(Capturing(updates, c)) + Cardinality(Capturing(polls, c))
                            + Cardinality(CopiesOf(jobs, c)) + (IF accepting = c THEN 1 ELSE 0)
      BY References
    <3> QED BY <1>1, <1>2, <1>3, <3>1, <3>2, ExactNext
  <2>3. /\ ~Fired(c)' /\ Capturing(updates', c) = Capturing(updates, c)
        /\ Armed(c)' = Armed(c) /\ AtWork(c)' = AtWork(c)
    BY <1>2, <1>6 DEF Fired, Armed, Capturing, AtWork, Blocks
  <2>4. CASE c = c0
    <3>1. Armed(c) = {} /\ AtWork(c) = {}
      BY <1>4, <2>4 DEF Armed, AtWork
    <3>2. Alone(c)' /\ HasDescriptor(c)'
      BY <1>3, <1>4, <1>5, <2>3, <2>4, <3>1, OnlyCall
    <3> QED BY <2>2, <3>2 DEF WellHeld
  <2>5. CASE c # c0
    <3>1. ~Creating(c)'
      BY <1>1, <2>5 DEF Creating
    <3>2. Undisturbed(c)
      BY <1>2, <1>5, <2>3, <2>5, <3>1 DEF Undisturbed
    <3> QED BY <2>1, <2>2, <3>2, UndisturbedKeeps DEF WellHeld
  <2> QED BY <2>4, <2>5
<1>8. InvQueueOrder' /\ InvEntries'
  BY <1>2 DEF ServerInv, InvQueueOrder, InvEntries
<1>9. InvArmed'
  <2>1. /\ FirstUnfired = cursor + 1 /\ FirstUnfired' = cursor + 1 /\ cursor \in Nat
    BY <1>0, <1>2 DEF TypeOK, FirstUnfired
  <2>2. FirstUnfired' >= FirstUnfired /\ FirstUnfired \in Nat /\ FirstUnfired' \in Nat
    BY <2>1
  <2> QED BY <1>2, <1>6, <2>2, ArmedFrame
<1> QED BY <1>7, <1>8, <1>9 DEF Held

\* The poll thread lets go of a connection it accepted.
LEMMA HeldByRelease ==
  ASSUME ServerInv, TypeOK', PollReleases
  PROVE  Held'
<1>0. TypeOK
  BY DEF ServerInv, RetainCountExact
<1> DEFINE c0 == accepting
<1>1. /\ thread = "release" /\ thread' = "scan" /\ cursor' = cursor + 1 /\ accepting' = None
      /\ UNCHANGED <<polls, jobs>> /\ c0 \in Connections
      /\ updates' = updates \o DisposeUpdates(c0)
      /\ retainCount' = Count(c0, -1)
      /\ Disposed(c0) => Close(c0)
      /\ ~Disposed(c0) => UNCHANGED socket
  <2>1. c0 \in Connections
    BY <1>0 DEF PollReleases, ServerInv, InvLifetime, TypeOK
  <2> QED BY <2>1 DEF PollReleases, Called, ReleaseInPoll
<1>2. /\ \A c \in Connections :
           /\ Capturing(updates', c) = Capturing(updates, c)
           /\ Cardinality(Capturing(updates', c)) = Cardinality(Capturing(updates, c))
           /\ Armed(c)' = Armed(c)
           /\ \A k \in Capturing(updates, c) : updates'[k].fd = updates[k].fd
      /\ \A i \in DOMAIN polls : polls[i].block \in Connections => (Removed(i)' <=> Removed(i))
      /\ InvQueueOrder' /\ InvEntries'
  <2>1. CASE ~Disposed(c0)
    <3>1. updates' = updates
      BY <1>0, <1>1, <2>1, Extra, ConcatEmptySeq DEF TypeOK
    <3> QED BY <1>1, <3>1 DEF Armed, Removed, Capturing, InvQueueOrder, InvEntries, ServerInv
  <2>2. CASE Disposed(c0)
    <3>1. /\ DisposeUpdates(c0) = <<Unregister(socket[c0])>> /\ retainCount[c0] = 1
          /\ Unregister(socket[c0]) \in Updates /\ socket[c0] \in Sockets
      BY <2>2, Extra
    <3>2. updates' = Append(updates, Unregister(socket[c0]))
      <4>1. updates \in Seq(Updates)
        BY <1>0 DEF TypeOK
      <4>2. updates \o <<Unregister(socket[c0])>> = Append(updates, Unregister(socket[c0]))
        BY <3>1, <4>1, ConcatOne
      <4> QED BY <1>1, <3>1, <4>2
    <3>3. Capturing(updates, c0) = {} /\ Armed(c0) = {} /\ socket[c0] # None
      BY <1>1, <3>1, OneReference, Constants DEF Armed
    <3>4. Unneeded(socket[c0])
      BY <1>1, <3>3, Removable DEF Unneeded
    <3>5. socket[c0] \in Descriptors
      BY <3>1 DEF Descriptors
    <3>6. /\ \A c \in Connections :
               /\ Capturing(updates', c) = Capturing(updates, c)
               /\ Cardinality(Capturing(updates', c)) = Cardinality(Capturing(updates, c))
               /\ Armed(c)' = Armed(c)
          /\ \A c \in Connections : \A k \in Capturing(updates, c) : updates'[k].fd = updates[k].fd
          /\ \A i \in DOMAIN polls : polls[i].block \in Connections => (Removed(i)' <=> Removed(i))
          /\ InvQueueOrder' /\ InvEntries'
      BY <1>1, <3>2, <3>4, <3>5, AppendRemoval
    <3> QED BY <3>6
  <2> QED BY <2>1, <2>2
<1>3. ASSUME NEW c \in Connections PROVE WellHeld(c)'
  <2>1. WellHeld(c)
    BY HeldNow
  <2>2. Exact(c)'
    <3>1. retainCount'[c] = retainCount[c] - (IF c = c0 THEN 1 ELSE 0)
      <4>1. retainCount[c] \in Nat
        BY References
      <4>2. c0 \in Connections /\ retainCount' = Count(c0, -1)
        BY <1>1
      <4>3. Count(c0, -1)[c0] = retainCount[c0] - 1
        BY <1>0, <4>2, CountTypes
      <4>4. c # c0 => Count(c0, -1)[c] = retainCount[c]
        BY <1>0, <4>2, CountTypes
      <4> HIDE DEF c0
      <4> QED BY <4>1, <4>2, <4>3, <4>4
    <3>2. /\ Cardinality(Capturing(updates, c)) \in Nat /\ Cardinality(Capturing(polls, c)) \in Nat
          /\ Cardinality(CopiesOf(jobs, c)) \in Nat
          /\ retainCount[c] = Cardinality(Capturing(updates, c)) + Cardinality(Capturing(polls, c))
                            + Cardinality(CopiesOf(jobs, c)) + (IF accepting = c THEN 1 ELSE 0)
      BY References
    <3>3. accepting' # c
      BY <1>1, Constants
    <3> QED BY <1>1, <1>2, <3>1, <3>2, <3>3, ExactNext
  <2>3. ~Creating(c)' /\ ~Fired(c)' /\ AtWork(c)' = AtWork(c)
    BY <1>1 DEF Creating, Fired, AtWork, Blocks
  <2>4. CASE c = c0 /\ Disposed(c0)
    <3>1. /\ Capturing(updates, c) = {} /\ Armed(c) = {} /\ AtWork(c) = {}
      <4>1. retainCount[c] = 1 /\ accepting = c
        BY <2>4, Extra
      <4> QED BY <4>1, OneReference DEF Armed, AtWork
    <3>2. Alone(c)' /\ HasDescriptor(c)'
      BY <1>2, <2>3, <3>1, OnlyCall
    <3> QED BY <2>2, <3>2 DEF WellHeld
  <2>5. CASE ~(c = c0 /\ Disposed(c0))
    <3>1. socket'[c] = socket[c]
      BY <1>0, <1>1, <2>5 DEF Close, TypeOK
    <3>2. Undisturbed(c)
      BY <1>1, <1>2, <2>3, <3>1 DEF Undisturbed
    <3> QED BY <2>1, <2>2, <3>2, UndisturbedKeeps DEF WellHeld
  <2> QED BY <2>4, <2>5
<1>4. InvArmed'
  <2>1. /\ FirstUnfired = cursor + 1 /\ FirstUnfired' = cursor + 1 /\ cursor \in Nat
    BY <1>0, <1>1 DEF TypeOK, FirstUnfired
  <2>2. FirstUnfired' >= FirstUnfired /\ FirstUnfired \in Nat /\ FirstUnfired' \in Nat
    BY <2>1
  <2> QED BY <1>1, <1>2, <2>2, ArmedFrame
<1> QED BY <1>2, <1>3, <1>4 DEF Held

\* A connection is registered again: the update is the only place it is worked on from.
LEMMA AwaitEffect ==
  ASSUME ServerInv, NEW c \in Connections, NEW ev \in {"in", "out"}, Await(c, ev),
         socket[c] # None, Capturing(updates, c) = {}, UNCHANGED polls
  PROVE  /\ Capturing(updates', c) = {Len(updates) + 1}
         /\ updates'[Len(updates) + 1].fd = socket[c]
         /\ \A d \in Connections :
              /\ d # c => Capturing(updates', d) = Capturing(updates, d)
              /\ Cardinality(Capturing(updates', d)) =
                   Cardinality(Capturing(updates, d)) + (IF d = c THEN 1 ELSE 0)
              /\ Armed(d)' = Armed(d)
              /\ \A k \in Capturing(updates, d) : updates'[k].fd = updates[k].fd
              /\ retainCount'[d] = retainCount[d] + (IF d = c THEN 1 ELSE 0)
         /\ \A i \in DOMAIN polls : Removed(i)' <=> Removed(i)
         /\ InvQueueOrder' /\ InvEntries'
<1> DEFINE u == Register(socket[c], c, ev, FALSE)
<1>1. /\ u \in Updates /\ updates' = Append(updates, u)
      /\ retainCount'[c] = retainCount[c] + 1
      /\ \A d \in Connections : d # c => retainCount'[d] = retainCount[d]
  BY AwaitTypes
<1>2. u.block = c /\ u.repeat = FALSE /\ u.fd = socket[c] /\ u.block # NoBlock
  BY Constants DEF Register
<1> HIDE DEF u
<1>3. /\ \A d \in Connections :
           /\ Capturing(updates', d) =
                Capturing(updates, d) \cup (IF u.block = d THEN {Len(updates) + 1} ELSE {})
           /\ Cardinality(Capturing(updates', d)) =
                Cardinality(Capturing(updates, d)) + (IF u.block = d THEN 1 ELSE 0)
           /\ Armed(d)' = Armed(d)
      /\ \A d \in Connections : \A k \in Capturing(updates, d) : updates'[k].fd = updates[k].fd
      /\ updates'[Len(updates) + 1] = u
      /\ \A i \in DOMAIN polls : Removed(i)' <=> Removed(i)
      /\ InvQueueOrder' /\ InvEntries'
  BY <1>1, <1>2, AppendRegistration
<1>4. Capturing(updates', c) = {Len(updates) + 1} /\ updates'[Len(updates) + 1].fd = socket[c]
  BY <1>2, <1>3
<1>5. ASSUME NEW d \in Connections
      PROVE  /\ d # c => Capturing(updates', d) = Capturing(updates, d)
             /\ Cardinality(Capturing(updates', d)) =
                  Cardinality(Capturing(updates, d)) + (IF d = c THEN 1 ELSE 0)
             /\ retainCount'[d] = retainCount[d] + (IF d = c THEN 1 ELSE 0)
  <2>1. retainCount[d] \in Nat /\ Cardinality(Capturing(updates, d)) \in Nat
    BY References
  <2>2. /\ Capturing(updates', d) =
             Capturing(updates, d) \cup (IF u.block = d THEN {Len(updates) + 1} ELSE {})
        /\ Cardinality(Capturing(updates', d)) =
             Cardinality(Capturing(updates, d)) + (IF u.block = d THEN 1 ELSE 0)
    BY <1>3
  <2>3. CASE d = c
    BY <1>1, <1>2, <2>1, <2>2, <2>3
  <2>4. CASE d # c
    <3>1. retainCount'[d] = retainCount[d]
      BY <1>1, <2>4
    <3>2. /\ Capturing(updates', d) = Capturing(updates, d)
          /\ Cardinality(Capturing(updates', d)) = Cardinality(Capturing(updates, d)) + 0
      BY <1>2, <2>2, <2>4
    <3> QED BY <2>1, <2>4, <3>1, <3>2
  <2> QED BY <2>3, <2>4
<1> QED BY <1>3, <1>4, <1>5

\* The poll thread hands a connection it accepted to a job or to an update.
LEMMA HeldByRead ==
  ASSUME ServerInv, TypeOK', PollReads
  PROVE  Held'
<1>0. TypeOK
  BY DEF ServerInv, RetainCountExact
<1> DEFINE c0 == accepting
<1>1. /\ thread = "create" /\ thread' = "release"
      /\ UNCHANGED <<polls, cursor, socket, accepting>>
      /\ c0 \in Connections /\ ReadInPoll(c0)
  BY <1>0 DEF PollReads, ServerInv, InvLifetime, TypeOK
<1>2. /\ Capturing(updates, c0) = {} /\ Armed(c0) = {} /\ AtWork(c0) = {} /\ socket[c0] # None
  BY <1>1 DEF ServerInv, InvAlone, Alone, InvDescriptor, HasDescriptor, Creating
<1>3. \A c \in Connections : ~Creating(c)' /\ ~Fired(c)'
  BY <1>1 DEF Creating, Fired
<1>4. ASSUME \A i \in DOMAIN polls : polls[i].block \in Connections => (Removed(i)' => Removed(i))
      PROVE  InvArmed'
  <2>1. /\ FirstUnfired = cursor + 1 /\ FirstUnfired' = cursor + 1 /\ cursor \in Nat
    BY <1>0, <1>1 DEF TypeOK, FirstUnfired
  <2>2. FirstUnfired' >= FirstUnfired /\ FirstUnfired \in Nat /\ FirstUnfired' \in Nat
    BY <2>1
  <2> QED BY <1>1, <1>4, <2>2, ArmedFrame
<1>5. CASE wire[c0] = "request"
  <2> DEFINE new == Job(c0, "process", "start")
  <2>1. jobs' = Dispatch(new) /\ retainCount' = Count(c0, 1) /\ UNCHANGED updates
    BY <1>1, <1>5 DEF ReadInPoll
  <2>2. new.conn = c0 /\ IsAtWork(new) /\ new.kind # "dealloc"
    BY DEF Job, IsAtWork
  <2> HIDE DEF new
  <2>3. new \notin BagToSet(jobs)
    BY <1>2, <2>2 DEF AtWork, Blocks, IsAtWork
  <2>4. \A i : Removed(i)' <=> Removed(i)
    BY <1>1, <2>1 DEF Removed
  <2>5. ASSUME NEW c \in Connections PROVE WellHeld(c)'
    <3>1. WellHeld(c)
      BY HeldNow
    <3>2. /\ Cardinality(CopiesOf(jobs', c)) =
               Cardinality(CopiesOf(jobs, c)) + (IF IsBlockOf(new, c) THEN 1 ELSE 0)
          /\ AtWork(c)' = AtWork(c) \cup (IF new.conn = c /\ IsAtWork(new) THEN {new} ELSE {})
          /\ \A k \in AtWork(c) : k # new => jobs'[k] = jobs[k]
          /\ jobs'[new] = 1
      BY <2>1, <2>3, WorkDispatched
    <3>3. Exact(c)'
      <4>1. retainCount'[c] = retainCount[c] + (IF c = c0 THEN 1 ELSE 0)
        BY <1>0, <1>1, <2>1, CountTypes, References
      <4>2. IsBlockOf(new, c) <=> c = c0
        BY <2>2 DEF IsBlockOf
      <4>3. /\ Cardinality(Capturing(updates, c)) \in Nat /\ Cardinality(Capturing(polls, c)) \in Nat
            /\ Cardinality(CopiesOf(jobs, c)) \in Nat
            /\ retainCount[c] = Cardinality(Capturing(updates, c)) + Cardinality(Capturing(polls, c))
                              + Cardinality(CopiesOf(jobs, c)) + (IF accepting = c THEN 1 ELSE 0)
        BY References
      <4> QED BY <1>1, <2>1, <3>2, <4>1, <4>2, <4>3, ExactNext
    <3>4. Capturing(updates', c) = Capturing(updates, c) /\ Armed(c)' = Armed(c)
      BY <1>1, <2>1, <2>4 DEF Armed, Capturing
    <3>5. CASE c = c0
      <4>1. Alone(c)' /\ HasDescriptor(c)'
        BY <1>1, <1>2, <1>3, <3>2, <3>4, <3>5, OnlyWorker
      <4> QED BY <3>3, <4>1 DEF WellHeld
    <3>6. CASE c # c0
      <4>1. AtWork(c)' = AtWork(c) /\ new \notin AtWork(c)
        BY <2>2, <2>3, <3>2, <3>6 DEF AtWork, Blocks
      <4>2. Undisturbed(c)
        BY <1>1, <1>3, <2>1, <3>2, <3>4, <4>1 DEF Undisturbed
      <4> QED BY <3>1, <3>3, <4>2, UndisturbedKeeps DEF WellHeld
    <3> QED BY <3>5, <3>6
  <2>6. InvQueueOrder' /\ InvEntries'
    BY <1>1, <2>1 DEF ServerInv, InvQueueOrder, InvEntries
  <2> QED BY <1>4, <2>4, <2>5, <2>6 DEF Held
<1>6. CASE wire[c0] \in {"quiet", "some", "waiting"}
  <2>1. Await(c0, "in") /\ UNCHANGED jobs
    BY <1>1, <1>6 DEF ReadInPoll
  <2>2. /\ Capturing(updates', c0) = {Len(updates) + 1}
        /\ updates'[Len(updates) + 1].fd = socket[c0]
        /\ \A d \in Connections :
             /\ d # c0 => Capturing(updates', d) = Capturing(updates, d)
             /\ Cardinality(Capturing(updates', d)) =
                  Cardinality(Capturing(updates, d)) + (IF d = c0 THEN 1 ELSE 0)
             /\ Armed(d)' = Armed(d)
             /\ \A k \in Capturing(updates, d) : updates'[k].fd = updates[k].fd
             /\ retainCount'[d] = retainCount[d] + (IF d = c0 THEN 1 ELSE 0)
        /\ \A i \in DOMAIN polls : Removed(i)' <=> Removed(i)
        /\ InvQueueOrder' /\ InvEntries'
    BY <1>1, <1>2, <2>1, AwaitEffect
  <2>3. ASSUME NEW c \in Connections PROVE WellHeld(c)'
    <3>1. WellHeld(c)
      BY HeldNow
    <3>2. Exact(c)'
      <4>1. /\ Cardinality(Capturing(updates, c)) \in Nat /\ Cardinality(Capturing(polls, c)) \in Nat
            /\ Cardinality(CopiesOf(jobs, c)) \in Nat
            /\ retainCount[c] = Cardinality(Capturing(updates, c)) + Cardinality(Capturing(polls, c))
                              + Cardinality(CopiesOf(jobs, c)) + (IF accepting = c THEN 1 ELSE 0)
        BY References
      <4> QED BY <1>1, <2>1, <2>2, <4>1, ExactNext
    <3>3. AtWork(c)' = AtWork(c)
      BY <2>1 DEF AtWork, Blocks
    <3>4. CASE c = c0
      <4>1. Alone(c)' /\ HasDescriptor(c)'
        BY <1>1, <1>2, <1>3, <2>2, <3>3, <3>4, OnlyUpdate
      <4> QED BY <3>2, <4>1 DEF WellHeld
    <3>5. CASE c # c0
      <4>1. Undisturbed(c)
        BY <1>1, <1>3, <2>1, <2>2, <3>3, <3>5 DEF Undisturbed
      <4> QED BY <3>1, <3>2, <4>1, UndisturbedKeeps DEF WellHeld
    <3> QED BY <3>4, <3>5
  <2> QED BY <1>4, <2>2, <2>3 DEF Held
<1>7. CASE wire[c0] \notin {"request", "quiet", "some", "waiting"}
  <2>1. UNCHANGED <<updates, jobs, retainCount>>
    BY <1>1, <1>7 DEF ReadInPoll
  <2>2. /\ \A c \in Connections : WellHeld(c)'
        /\ InvQueueOrder' /\ InvEntries'
        /\ \A i \in DOMAIN polls : Removed(i)' <=> Removed(i)
    BY <1>1, <2>1, QuietStep
  <2> QED BY <1>4, <2>2 DEF Held
<1> QED BY <1>5, <1>6, <1>7

\* A job goes on to where it does not work on its connection any longer.
LEMMA WorkEnds ==
  ASSUME ServerInv, NEW j \in BagToSet(jobs), j.kind # "dealloc",
         NEW step \in {"notify", "finish"}, j.step # step, jobs' = To(j, step)
  PROVE  \A d \in Connections :
           /\ Cardinality(CopiesOf(jobs', d)) = Cardinality(CopiesOf(jobs, d))
           /\ \A k \in AtWork(d)' : k \in AtWork(d) /\ jobs'[k] = jobs[k]
           /\ IsAtWork(j) /\ d = j.conn => AtWork(d)' = {}
<1> DEFINE new == [j EXCEPT !.step = step]
<1>1. j \in Jobs /\ j.conn \in Connections /\ (IsAtWork(j) => j \in AtWork(j.conn))
  BY JobTypes
<1>2. /\ jobs' = Advance(j, new) /\ new # j /\ new.conn = j.conn /\ new.kind = j.kind
      /\ new.step = step /\ ~IsAtWork(new)
  BY <1>1, NextJob DEF To, JobSteps, IsAtWork
<1> HIDE DEF new
<1>3. IsAtWork(j) => jobs[j] = 1 /\ AtWork(j.conn) = {j}
  BY <1>1, SoleWorker
<1> SUFFICES ASSUME NEW d \in Connections
             PROVE  /\ Cardinality(CopiesOf(jobs', d)) = Cardinality(CopiesOf(jobs, d))
                    /\ \A k \in AtWork(d)' : k \in AtWork(d) /\ jobs'[k] = jobs[k]
                    /\ IsAtWork(j) /\ d = j.conn => AtWork(d)' = {}
  OBVIOUS
<1>4. /\ Cardinality(CopiesOf(jobs', d)) + (IF IsBlockOf(j, d) THEN 1 ELSE 0) =
           Cardinality(CopiesOf(jobs, d)) + (IF IsBlockOf(new, d) THEN 1 ELSE 0)
      /\ AtWork(d)' = (IF jobs[j] = 1 THEN AtWork(d) \ {j} ELSE AtWork(d))
                        \cup (IF new.conn = d /\ IsAtWork(new) THEN {new} ELSE {})
      /\ \A k \in AtWork(d) : k # j /\ k # new => jobs'[k] = jobs[k]
  BY <1>2, WorkAdvanced
<1>5. \A k \in AtWork(d) : k # new /\ (k = j => IsAtWork(j))
  BY <1>2 DEF AtWork, Blocks, IsAtWork
<1>6. AtWork(d)' = AtWork(d) \ {j}
  BY <1>2, <1>3, <1>4, <1>5
<1>7. IsBlockOf(j, d) <=> IsBlockOf(new, d)
  BY <1>2 DEF IsBlockOf
<1>8. Cardinality(CopiesOf(jobs', d)) \in Nat /\ Cardinality(CopiesOf(jobs, d)) \in Nat
  <2>1. IsABag(jobs') /\ IsFiniteSet(BagToSet(jobs'))
    <3>1. IsABag(Advance(j, new)) /\ IsFiniteSet(BagToSet(Advance(j, new)))
      BY AdvanceJobs
    <3> QED BY <1>2, <3>1
  <2> QED BY <2>1, CopiesFinite, References
<1>9. Cardinality(CopiesOf(jobs', d)) = Cardinality(CopiesOf(jobs, d))
  BY <1>4, <1>7, <1>8
<1> QED BY <1>3, <1>4, <1>5, <1>6, <1>9

\* A job that works on its connection goes on doing so.
LEMMA WorkGoesOn ==
  ASSUME ServerInv, NEW j \in BagToSet(jobs), IsAtWork(j),
         NEW step \in {"sending", "closing", "close"}, j.step # step, jobs' = To(j, step)
  PROVE  \E new :
           /\ jobs'[new] = 1
           /\ \A d \in Connections :
                /\ Cardinality(CopiesOf(jobs', d)) = Cardinality(CopiesOf(jobs, d))
                /\ AtWork(d)' = IF d = j.conn THEN {new} ELSE AtWork(d)
                /\ d # j.conn => \A k \in AtWork(d) : jobs'[k] = jobs[k]
<1> DEFINE new == [j EXCEPT !.step = step]
<1>1. j \in Jobs /\ j.conn \in Connections /\ j \in AtWork(j.conn) /\ j.kind # "dealloc"
  BY JobTypes DEF IsAtWork
<1>2. /\ jobs' = Advance(j, new) /\ new # j /\ new.conn = j.conn /\ new.kind = j.kind
      /\ new.step = step /\ IsAtWork(new)
  BY <1>1, NextJob DEF To, JobSteps, IsAtWork
<1> HIDE DEF new
<1>3. jobs[j] = 1 /\ AtWork(j.conn) = {j}
  BY <1>1, SoleWorker
<1>4. new \notin BagToSet(jobs)
  BY <1>1, <1>2, <1>3 DEF AtWork, Blocks, IsAtWork
<1>5. jobs'[new] = 1
  BY <1>2, <1>4, WorkAdvanced
<1>6. ASSUME NEW d \in Connections
      PROVE  /\ Cardinality(CopiesOf(jobs', d)) = Cardinality(CopiesOf(jobs, d))
             /\ AtWork(d)' = IF d = j.conn THEN {new} ELSE AtWork(d)
             /\ d # j.conn => \A k \in AtWork(d) : jobs'[k] = jobs[k]
  <2>1. /\ Cardinality(CopiesOf(jobs', d)) + (IF IsBlockOf(j, d) THEN 1 ELSE 0) =
             Cardinality(CopiesOf(jobs, d)) + (IF IsBlockOf(new, d) THEN 1 ELSE 0)
        /\ AtWork(d)' = (IF jobs[j] = 1 THEN AtWork(d) \ {j} ELSE AtWork(d))
                          \cup (IF new.conn = d /\ IsAtWork(new) THEN {new} ELSE {})
        /\ \A k \in AtWork(d) : k # j /\ k # new => jobs'[k] = jobs[k]
    BY <1>2, WorkAdvanced
  <2>2. IsBlockOf(j, d) <=> IsBlockOf(new, d)
    BY <1>2 DEF IsBlockOf
  <2>3. Cardinality(CopiesOf(jobs', d)) \in Nat /\ Cardinality(CopiesOf(jobs, d)) \in Nat
    <3>1. IsABag(jobs') /\ IsFiniteSet(BagToSet(jobs'))
      BY <1>2, AdvanceJobs
    <3> QED BY <3>1, CopiesFinite, References
  <2>4. Cardinality(CopiesOf(jobs', d)) = Cardinality(CopiesOf(jobs, d))
    BY <2>1, <2>2, <2>3
  <2>5. \A k \in AtWork(d) : k.conn = d /\ k \in BagToSet(jobs)
    BY DEF AtWork, Blocks
  <2>6. AtWork(d)' = IF d = j.conn THEN {new} ELSE AtWork(d)
    BY <1>2, <1>3, <2>1, <2>5
  <2> QED BY <1>2, <1>4, <2>1, <2>4, <2>5, <2>6
<1> QED BY <1>5, <1>6

\* What stays as it is when a job runs.
LEMMA JobFrame ==
  ASSUME ServerInv, jobFrame' = jobFrame
  PROVE  /\ UNCHANGED <<polls, thread, cursor, accepting>>
         /\ \A c \in Connections : /\ Creating(c)' <=> Creating(c)
                                   /\ Fired(c)' <=> Fired(c)
                                   /\ Capturing(polls', c) = Capturing(polls, c)
         /\ (\A i \in DOMAIN polls : polls[i].block \in Connections => (Removed(i)' => Removed(i)))
              => InvArmed'
         /\ UNCHANGED updates =>
              /\ InvQueueOrder' /\ InvEntries' /\ InvArmed'
              /\ \A c \in Connections : Armed(c)' = Armed(c)
<1>0. TypeOK
  BY DEF ServerInv, RetainCountExact
<1>1. UNCHANGED <<polls, thread, cursor, accepting>>
  BY DEF jobFrame
<1>2. \A c \in Connections : /\ Creating(c)' <=> Creating(c)
                             /\ Fired(c)' <=> Fired(c)
                             /\ Capturing(polls', c) = Capturing(polls, c)
  BY <1>1 DEF Creating, Fired, Current, Capturing
<1>3. FirstUnfired' = FirstUnfired /\ FirstUnfired \in Nat /\ FirstUnfired >= FirstUnfired
  BY <1>0, <1>1, FirstUnfiredTypes DEF FirstUnfired
<1>4. ASSUME \A i \in DOMAIN polls : polls[i].block \in Connections => (Removed(i)' => Removed(i))
      PROVE  InvArmed'
  BY <1>1, <1>3, <1>4, ArmedFrame
<1>5. ASSUME UNCHANGED updates
      PROVE  /\ InvQueueOrder' /\ InvEntries' /\ InvArmed'
             /\ \A c \in Connections : Armed(c)' = Armed(c)
  <2>1. \A i : Removed(i)' <=> Removed(i)
    BY <1>1, <1>5 DEF Removed
  <2>2. \A c \in Connections : Armed(c)' = Armed(c)
    BY <1>1, <2>1 DEF Armed, Capturing
  <2> QED BY <1>1, <1>4, <1>5, <2>1, <2>2 DEF ServerInv, InvQueueOrder, InvEntries
<1> QED BY <1>1, <1>2, <1>4, <1>5

\* A job stops working on its connection and leaves everything else alone.
LEMMA HeldByEnding ==
  ASSUME ServerInv, NEW j \in BagToSet(jobs), j.kind # "dealloc",
         NEW step \in {"notify", "finish"}, j.step # step, jobs' = To(j, step),
         UNCHANGED <<jobFrame, updates, retainCount, socket>>
  PROVE  Held'
<1>1. \A d \in Connections :
        /\ Cardinality(CopiesOf(jobs', d)) = Cardinality(CopiesOf(jobs, d))
        /\ \A k \in AtWork(d)' : k \in AtWork(d) /\ jobs'[k] = jobs[k]
  BY WorkEnds
<1>2. /\ UNCHANGED <<polls, accepting>>
      /\ \A c \in Connections : /\ Creating(c)' <=> Creating(c)
                                /\ Fired(c)' <=> Fired(c)
                                /\ Armed(c)' = Armed(c)
      /\ InvQueueOrder' /\ InvEntries' /\ InvArmed'
  BY JobFrame
<1>3. ASSUME NEW c \in Connections PROVE WellHeld(c)'
  <2>1. WellHeld(c)
    BY HeldNow
  <2>2. Exact(c)'
    BY <1>1, <1>2, <2>1, ExactNext DEF WellHeld, Exact
  <2>3. Undisturbed(c)
    BY <1>1, <1>2 DEF Undisturbed
  <2> QED BY <2>1, <2>2, <2>3, UndisturbedKeeps DEF WellHeld
<1> QED BY <1>2, <1>3 DEF Held

\* A job registers its connection again.
LEMMA HeldByAwait ==
  ASSUME ServerInv, NEW j \in BagToSet(jobs), IsAtWork(j), j.step # "notify",
         NEW ev \in {"in", "out"}, Await(j.conn, ev), jobs' = To(j, "notify"),
         UNCHANGED <<jobFrame, socket>>
  PROVE  Held'
<1> DEFINE c0 == j.conn
<1>1. c0 \in Connections /\ j \in AtWork(c0) /\ j.kind # "dealloc"
  BY JobTypes DEF IsAtWork
<1>2. /\ Capturing(updates, c0) = {} /\ Armed(c0) = {} /\ ~Creating(c0) /\ ~Fired(c0)
      /\ socket[c0] # None
  BY <1>1, SoleWorker, Constants
<1>3. \A d \in Connections :
        /\ Cardinality(CopiesOf(jobs', d)) = Cardinality(CopiesOf(jobs, d))
        /\ \A k \in AtWork(d)' : k \in AtWork(d) /\ jobs'[k] = jobs[k]
        /\ IsAtWork(j) /\ d = j.conn => AtWork(d)' = {}
  BY <1>1, WorkEnds
<1>4. UNCHANGED <<polls, accepting>>
      /\ \A c \in Connections : (Creating(c)' <=> Creating(c)) /\ (Fired(c)' <=> Fired(c))
  BY JobFrame
<1>5. /\ Capturing(updates', c0) = {Len(updates) + 1}
      /\ updates'[Len(updates) + 1].fd = socket[c0]
      /\ \A d \in Connections :
           /\ d # c0 => Capturing(updates', d) = Capturing(updates, d)
           /\ Cardinality(Capturing(updates', d)) =
                Cardinality(Capturing(updates, d)) + (IF d = c0 THEN 1 ELSE 0)
           /\ Armed(d)' = Armed(d)
           /\ \A k \in Capturing(updates, d) : updates'[k].fd = updates[k].fd
           /\ retainCount'[d] = retainCount[d] + (IF d = c0 THEN 1 ELSE 0)
      /\ \A i \in DOMAIN polls : Removed(i)' <=> Removed(i)
      /\ InvQueueOrder' /\ InvEntries'
  BY <1>1, <1>2, <1>4, AwaitEffect
<1>6. InvArmed'
  BY <1>5, JobFrame
<1>7. ASSUME NEW c \in Connections PROVE WellHeld(c)'
  <2>1. WellHeld(c)
    BY HeldNow
  <2>2. Exact(c)'
    <3>1. /\ Cardinality(Capturing(updates, c)) \in Nat /\ Cardinality(Capturing(polls, c)) \in Nat
          /\ Cardinality(CopiesOf(jobs, c)) \in Nat
          /\ retainCount[c] = Cardinality(Capturing(updates, c)) + Cardinality(Capturing(polls, c))
                            + Cardinality(CopiesOf(jobs, c)) + (IF accepting = c THEN 1 ELSE 0)
      BY References
    <3>2. /\ Cardinality(Capturing(updates', c)) =
               Cardinality(Capturing(updates, c)) + (IF c = c0 THEN 1 ELSE 0)
          /\ retainCount'[c] = retainCount[c] + (IF c = c0 THEN 1 ELSE 0)
          /\ Cardinality(CopiesOf(jobs', c)) = Cardinality(CopiesOf(jobs, c))
          /\ polls' = polls /\ accepting' = accepting
      BY <1>3, <1>4, <1>5
    <3>3. retainCount'[c] = Cardinality(Capturing(updates', c)) + Cardinality(Capturing(polls', c))
                          + Cardinality(CopiesOf(jobs', c)) + (IF accepting' = c THEN 1 ELSE 0)
      <4> HIDE DEF c0
      <4>1. CASE c = c0
        BY ONLY <3>1, <3>2, <4>1
      <4>2. CASE c # c0
        BY ONLY <3>1, <3>2, <4>2
      <4> QED BY <4>1, <4>2
    <3> QED BY <3>3, ExactNext
  <2>3. CASE c = c0
    <3>1. Alone(c)' /\ HasDescriptor(c)'
      BY <1>1, <1>2, <1>3, <1>4, <1>5, <2>3, OnlyUpdate
    <3> QED BY <2>2, <3>1 DEF WellHeld
  <2>4. CASE c # c0
    <3>1. Undisturbed(c)
      BY <1>3, <1>4, <1>5, <2>4 DEF Undisturbed
    <3> QED BY <2>1, <2>2, <3>1, UndisturbedKeeps DEF WellHeld
  <2> QED BY <2>3, <2>4
<1> QED BY <1>5, <1>6, <1>7 DEF Held

\* A request was read: the block that answers it takes over.
LEMMA HeldByRequest ==
  ASSUME ServerInv, TypeOK', NEW j \in BagToSet(jobs), JobReads(j), wire[j.conn] = "request"
  PROVE  Held'
<1> DEFINE c0 == j.conn
<1> DEFINE done == [j EXCEPT !.step = "finish"]
<1> DEFINE new == Job(c0, "process", "start")
<1> DEFINE A == Advance(j, done)
<1>0. TypeOK
  BY DEF ServerInv, RetainCountExact
<1>1. /\ j.step = "start" /\ j.kind = "read"
      /\ jobs' = To(j, "finish") (+) SetToBag({new}) /\ retainCount' = Count(c0, 1)
      /\ UNCHANGED <<updates, jobFrame, socket>>
  BY DEF JobReads
<1>2. jobs' = A (+) SetToBag({new})
  BY <1>1 DEF To
<1>3. j \in Jobs /\ c0 \in Connections /\ j \in AtWork(c0) /\ IsAtWork(j)
  BY <1>1, JobTypes DEF IsAtWork
<1>4. /\ done # j /\ done.conn = c0 /\ done.kind = "read" /\ done.step = "finish" /\ ~IsAtWork(done)
  BY <1>1, <1>3, NextJob DEF JobSteps, IsAtWork
<1>5. new.conn = c0 /\ IsAtWork(new) /\ new.kind # "dealloc"
  BY DEF Job, IsAtWork
<1>6. /\ AtWork(c0) = {j} /\ jobs[j] = 1 /\ Capturing(updates, c0) = {} /\ Armed(c0) = {}
      /\ ~Creating(c0) /\ ~Fired(c0) /\ socket[c0] # None
  BY <1>3, SoleWorker, Constants
<1>7. IsABag(A) /\ IsFiniteSet(BagToSet(A))
  BY AdvanceJobs
<1>8. IsABag(jobs) /\ IsFiniteSet(BagToSet(jobs))
  BY DEF ServerInv, RetainCountExact, TypeOK, InvLifetime
<1> HIDE DEF new, done
<1>9. ASSUME NEW c \in Connections
      PROVE  /\ Cardinality(CopiesOf(A, c)) = Cardinality(CopiesOf(jobs, c))
             /\ WorkOf(A, c) = AtWork(c) \ {j}
             /\ \A k \in AtWork(c) : k # j => A[k] = jobs[k]
  <2> DEFINE B == (jobs (-) SetToBag({j})) (+) SetToBag({done})
  <2>1. /\ Cardinality(CopiesOf(B, c)) + (IF IsBlockOf(j, c) THEN 1 ELSE 0) =
             Cardinality(CopiesOf(jobs, c)) + (IF IsBlockOf(done, c) THEN 1 ELSE 0)
        /\ WorkOf(B, c) = (IF jobs[j] = 1 THEN WorkOf(jobs, c) \ {j} ELSE WorkOf(jobs, c))
                            \cup (IF done.conn = c /\ IsAtWork(done) THEN {done} ELSE {})
    <3>1. Advanced(B, jobs, j, done, c)
      BY <1>4, <1>8, WorkAdvance
    <3> HIDE DEF B
    <3> QED BY <3>1 DEF Advanced
  <2>2. \A k \in BagToSet(jobs) : k # j /\ k # done => B[k] = jobs[k]
    <3>1. Advanced(B, jobs, j, done, c)
      BY <1>4, <1>8, WorkAdvance
    <3> HIDE DEF B
    <3> QED BY <3>1 DEF Advanced
  <2>3. A = B
    BY DEF Advance
  <2> HIDE DEF A, B
  <2>4. AtWork(c) = WorkOf(jobs, c)
    BY DEF AtWork, Blocks, WorkOf, IsAtWork
  <2>5. \A k \in AtWork(c) : k \in BagToSet(jobs) /\ k # done
    BY <1>4 DEF AtWork, Blocks, IsAtWork
  <2>6. IsBlockOf(j, c) <=> IsBlockOf(done, c)
    BY <1>1, <1>4 DEF IsBlockOf
  <2>7. Cardinality(CopiesOf(A, c)) \in Nat /\ Cardinality(CopiesOf(jobs, c)) \in Nat
    BY <1>7, <1>8, CopiesFinite
  <2>8. Cardinality(CopiesOf(A, c)) = Cardinality(CopiesOf(jobs, c))
    BY <2>1, <2>3, <2>6, <2>7
  <2>9. WorkOf(A, c) = AtWork(c) \ {j}
    BY <1>4, <1>6, <2>1, <2>3, <2>4
  <2> QED BY <2>2, <2>3, <2>5, <2>8, <2>9
<1> HIDE DEF A
<1>10. ASSUME NEW c \in Connections
       PROVE  /\ Cardinality(CopiesOf(jobs', c)) =
                   Cardinality(CopiesOf(jobs, c)) + (IF c = c0 THEN 1 ELSE 0)
              /\ AtWork(c)' = IF c = c0 THEN {new} ELSE AtWork(c)
              /\ c # c0 => \A k \in AtWork(c) : jobs'[k] = jobs[k]
              /\ jobs'[new] = 1
  <2>1. Cardinality(CopiesOf(jobs', c)) =
          Cardinality(CopiesOf(A, c)) + (IF IsBlockOf(new, c) THEN 1 ELSE 0)
    BY <1>2, <1>7, CopiesAdd
  <2>2. IsBlockOf(new, c) <=> c = c0
    BY <1>5 DEF IsBlockOf
  <2>3. /\ WorkOf(jobs', c) =
             WorkOf(A, c) \cup (IF new.conn = c /\ IsAtWork(new) THEN {new} ELSE {})
        /\ \A k \in WorkOf(A, c) : k # new => jobs'[k] = A[k]
    <3>1. Added(jobs', A, new, c)
      BY <1>2, <1>7, WorkAdd
    <3> QED BY <3>1 DEF Added
  <2>4. AtWork(c)' = WorkOf(jobs', c)
    BY DEF AtWork, Blocks, WorkOf, IsAtWork
  <2>5. \A k \in AtWork(c) : k.conn = c
    BY DEF AtWork, Blocks
  <2>6. AtWork(c)' = IF c = c0 THEN {new} ELSE AtWork(c)
    BY <1>5, <1>6, <1>9, <2>3, <2>4, <2>5
  <2>7. new \notin BagToSet(A)
    <3>1. new \notin WorkOf(A, c0)
      <4>1. WorkOf(A, c0) = AtWork(c0) \ {j}
        BY <1>3, <1>9
      <4> QED BY <1>6, <4>1
    <3> QED BY <1>5, <3>1 DEF WorkOf
  <2>8. jobs'[new] = 1
    BY <1>2, <1>7, <2>7, BagAdd
  <2>9. c # c0 => \A k \in AtWork(c) : jobs'[k] = jobs[k]
    <3> SUFFICES ASSUME c # c0, NEW k \in AtWork(c) PROVE jobs'[k] = jobs[k]
      OBVIOUS
    <3>1. k # j /\ k # new
      BY <1>5, <2>5
    <3> QED BY <1>9, <2>3, <3>1
  <2> QED BY <1>9, <2>1, <2>2, <2>6, <2>8, <2>9
<1>11. /\ UNCHANGED <<polls, accepting>>
       /\ \A c \in Connections : /\ Creating(c)' <=> Creating(c)
                                 /\ Fired(c)' <=> Fired(c)
                                 /\ Armed(c)' = Armed(c)
       /\ InvQueueOrder' /\ InvEntries' /\ InvArmed'
  BY <1>1, JobFrame
<1>12. ASSUME NEW c \in Connections PROVE WellHeld(c)'
  <2>1. WellHeld(c)
    BY HeldNow
  <2>2. Exact(c)'
    <3>1. retainCount'[c] = retainCount[c] + (IF c = c0 THEN 1 ELSE 0)
      BY <1>0, <1>1, <1>3, CountTypes, References
    <3>2. /\ Cardinality(Capturing(updates, c)) \in Nat /\ Cardinality(Capturing(polls, c)) \in Nat
          /\ Cardinality(CopiesOf(jobs, c)) \in Nat
          /\ retainCount[c] = Cardinality(Capturing(updates, c)) + Cardinality(Capturing(polls, c))
                            + Cardinality(CopiesOf(jobs, c)) + (IF accepting = c THEN 1 ELSE 0)
      BY References
    <3>3. /\ Cardinality(CopiesOf(jobs', c)) =
               Cardinality(CopiesOf(jobs, c)) + (IF c = c0 THEN 1 ELSE 0)
          /\ updates' = updates /\ polls' = polls /\ accepting' = accepting
      BY <1>1, <1>10, <1>11
    <3>4. retainCount'[c] = Cardinality(Capturing(updates', c)) + Cardinality(Capturing(polls', c))
                          + Cardinality(CopiesOf(jobs', c)) + (IF accepting' = c THEN 1 ELSE 0)
      <4> HIDE DEF c0
      <4>1. CASE c = c0
        BY ONLY <3>1, <3>2, <3>3, <4>1
      <4>2. CASE c # c0
        BY ONLY <3>1, <3>2, <3>3, <4>2
      <4> QED BY <4>1, <4>2
    <3> QED BY <3>4, ExactNext
  <2>3. CASE c = c0
    <3>1. Alone(c)' /\ HasDescriptor(c)'
      BY <1>1, <1>6, <1>10, <1>11, <2>3, OnlyWorker
    <3> QED BY <2>2, <3>1 DEF WellHeld
  <2>4. CASE c # c0
    <3>1. Undisturbed(c)
      BY <1>1, <1>10, <1>11, <2>4 DEF Undisturbed
    <3> QED BY <2>1, <2>2, <3>1, UndisturbedKeeps DEF WellHeld
  <2> QED BY <2>3, <2>4
<1> QED BY <1>11, <1>12 DEF Held

\* An answer was sent: the descriptor is on its way out of the poll, where it is not watched.
LEMMA HeldBySent ==
  ASSUME ServerInv, TypeOK', NEW j \in BagToSet(jobs), IsAtWork(j), j.step # "closing", AnswerSent(j)
  PROVE  Held'
<1> DEFINE c0 == j.conn
<1>1. /\ updates' = Append(updates, Unregister(socket[c0])) /\ jobs' = To(j, "closing")
      /\ UNCHANGED <<jobFrame, retainCount, socket>>
  BY DEF AnswerSent
<1>2. c0 \in Connections /\ j \in AtWork(c0)
  BY JobTypes DEF IsAtWork
<1>3. /\ Capturing(updates, c0) = {} /\ Armed(c0) = {} /\ ~Creating(c0) /\ ~Fired(c0)
      /\ socket[c0] # None /\ socket[c0] \in Descriptors
  BY <1>2, SoleWorker, Constants DEF Descriptors
<1>4. PICK new : /\ jobs'[new] = 1
                 /\ \A d \in Connections :
                      /\ Cardinality(CopiesOf(jobs', d)) = Cardinality(CopiesOf(jobs, d))
                      /\ AtWork(d)' = IF d = j.conn THEN {new} ELSE AtWork(d)
                      /\ d # j.conn => \A k \in AtWork(d) : jobs'[k] = jobs[k]
  BY <1>1, WorkGoesOn
<1>5. UNCHANGED <<polls, accepting>>
      /\ \A c \in Connections : (Creating(c)' <=> Creating(c)) /\ (Fired(c)' <=> Fired(c))
  BY <1>1, JobFrame
<1>6. Unneeded(socket[c0])
  BY <1>2, <1>3, Removable DEF Unneeded
<1>7. /\ \A c \in Connections :
           /\ Capturing(updates', c) = Capturing(updates, c)
           /\ Cardinality(Capturing(updates', c)) = Cardinality(Capturing(updates, c))
           /\ Armed(c)' = Armed(c)
      /\ \A c \in Connections : \A k \in Capturing(updates, c) : updates'[k].fd = updates[k].fd
      /\ \A i \in DOMAIN polls : polls[i].block \in Connections => (Removed(i)' <=> Removed(i))
      /\ InvQueueOrder' /\ InvEntries'
  BY <1>1, <1>3, <1>5, <1>6, AppendRemoval
<1>8. InvArmed'
  BY <1>1, <1>7, JobFrame
<1>9. ASSUME NEW c \in Connections PROVE WellHeld(c)'
  <2>1. WellHeld(c)
    BY HeldNow
  <2>2. Exact(c)'
    BY <1>1, <1>4, <1>5, <1>7, <2>1, ExactNext DEF WellHeld, Exact
  <2>3. CASE c = c0
    <3>1. Alone(c)' /\ HasDescriptor(c)'
      BY <1>1, <1>3, <1>4, <1>5, <1>7, <2>3, OnlyWorker
    <3> QED BY <2>2, <3>1 DEF WellHeld
  <2>4. CASE c # c0
    <3>1. Undisturbed(c)
      BY <1>1, <1>4, <1>5, <1>7, <2>4 DEF Undisturbed
    <3> QED BY <2>1, <2>2, <3>1, UndisturbedKeeps DEF WellHeld
  <2> QED BY <2>3, <2>4
<1> QED BY <1>7, <1>8, <1>9 DEF Held

\* A job goes on to another step of its work on the connection.
LEMMA HeldByWorking ==
  ASSUME ServerInv, TypeOK', NEW j \in BagToSet(jobs), IsAtWork(j),
         NEW step \in {"sending", "closing", "close"}, j.step # step, jobs' = To(j, step),
         UNCHANGED <<jobFrame, updates, retainCount, socket>>
  PROVE  Held'
<1>1. j.conn \in Connections /\ j \in AtWork(j.conn)
  BY JobTypes
<1>2. /\ UNCHANGED <<polls, accepting>>
      /\ \A c \in Connections : /\ Creating(c)' <=> Creating(c)
                                /\ Fired(c)' <=> Fired(c)
                                /\ Armed(c)' = Armed(c)
      /\ InvQueueOrder' /\ InvEntries' /\ InvArmed'
  BY JobFrame
<1>3. /\ Capturing(updates, j.conn) = {} /\ Armed(j.conn) = {} /\ ~Creating(j.conn)
      /\ ~Fired(j.conn) /\ socket[j.conn] # None
  BY <1>1, SoleWorker, Constants
<1>4. PICK new : /\ jobs'[new] = 1
                 /\ \A d \in Connections :
                      /\ Cardinality(CopiesOf(jobs', d)) = Cardinality(CopiesOf(jobs, d))
                      /\ AtWork(d)' = IF d = j.conn THEN {new} ELSE AtWork(d)
                      /\ d # j.conn => \A k \in AtWork(d) : jobs'[k] = jobs[k]
  BY WorkGoesOn
<1>5. ASSUME NEW c \in Connections PROVE WellHeld(c)'
  <2>1. WellHeld(c)
    BY HeldNow
  <2>2. Exact(c)'
    BY <1>2, <1>4, <2>1, ExactNext DEF WellHeld, Exact
  <2>3. CASE c = j.conn
    <3>1. Alone(c)' /\ HasDescriptor(c)'
      BY <1>2, <1>3, <1>4, <2>3, OnlyWorker
    <3> QED BY <2>2, <3>1 DEF WellHeld
  <2>4. CASE c # j.conn
    <3>1. Undisturbed(c)
      BY <1>2, <1>4, <2>4 DEF Undisturbed
    <3> QED BY <2>1, <2>2, <3>1, UndisturbedKeeps DEF WellHeld
  <2> QED BY <2>3, <2>4
<1> QED BY <1>2, <1>5 DEF Held

\* A job writes to the pipe.
LEMMA HeldByNotify ==
  ASSUME ServerInv, TypeOK', NEW j \in BagToSet(jobs), JobNotifies(j)
  PROVE  Held'
<1>1. /\ UNCHANGED <<jobFrame, updates, retainCount, socket>>
      /\ j.step \in {"notify", "closing"}
      /\ jobs' = To(j, IF j.step = "notify" THEN "finish" ELSE "close")
  BY DEF JobNotifies
<1>2. /\ UNCHANGED <<polls, accepting>>
      /\ \A c \in Connections : /\ Creating(c)' <=> Creating(c)
                                /\ Fired(c)' <=> Fired(c)
                                /\ Armed(c)' = Armed(c)
      /\ InvQueueOrder' /\ InvEntries' /\ InvArmed'
  BY <1>1, JobFrame
<1>3. CASE j.step = "notify"
  <2>1. j.kind # "dealloc"
    BY <1>3, JobTypes
  <2> QED BY <1>1, <1>3, <2>1, HeldByEnding
<1>4. CASE j.step = "closing" /\ j.kind # "dealloc"
  <2>1. IsAtWork(j)
    BY <1>4 DEF IsAtWork
  <2> QED BY <1>1, <1>4, <2>1, HeldByWorking
<1>5. CASE j.step = "closing" /\ j.kind = "dealloc"
  <2> DEFINE new == [j EXCEPT !.step = "close"]
  <2>1. j \in Jobs
    BY JobTypes
  <2>2. /\ jobs' = Advance(j, new) /\ new # j /\ new.kind = "dealloc"
    BY <1>1, <1>5, <2>1, NextJob DEF To, JobSteps
  <2> HIDE DEF new
  <2>3. ASSUME NEW c \in Connections PROVE WellHeld(c)'
    <3>1. WellHeld(c)
      BY HeldNow
    <3>2. /\ Cardinality(CopiesOf(jobs', c)) + (IF IsBlockOf(j, c) THEN 1 ELSE 0) =
               Cardinality(CopiesOf(jobs, c)) + (IF IsBlockOf(new, c) THEN 1 ELSE 0)
          /\ AtWork(c)' = (IF jobs[j] = 1 THEN AtWork(c) \ {j} ELSE AtWork(c))
                            \cup (IF new.conn = c /\ IsAtWork(new) THEN {new} ELSE {})
          /\ \A k \in AtWork(c) : k # j /\ k # new => jobs'[k] = jobs[k]
      BY <2>2, WorkAdvanced
    <3>3. ~IsBlockOf(j, c) /\ ~IsBlockOf(new, c) /\ ~IsAtWork(new)
      BY <1>5, <2>2 DEF IsBlockOf, IsAtWork
    <3>4. \A k \in AtWork(c) : k # j /\ k # new
      BY <1>5, <2>2 DEF AtWork, Blocks
    <3>5. Cardinality(CopiesOf(jobs', c)) = Cardinality(CopiesOf(jobs, c))
      <4>1. IsABag(jobs') /\ IsFiniteSet(BagToSet(jobs'))
        BY <2>2, AdvanceJobs
      <4>2. Cardinality(CopiesOf(jobs', c)) \in Nat /\ Cardinality(CopiesOf(jobs, c)) \in Nat
        BY <4>1, CopiesFinite, References
      <4> QED BY <3>2, <3>3, <4>2
    <3>6. Exact(c)'
      BY <1>1, <1>2, <3>1, <3>5, ExactNext DEF WellHeld, Exact
    <3>7. Undisturbed(c)
      BY <1>1, <1>2, <3>2, <3>3, <3>4 DEF Undisturbed
    <3> QED BY <3>1, <3>6, <3>7, UndisturbedKeeps DEF WellHeld
  <2> QED BY <1>2, <2>3 DEF Held
<1> QED BY <1>1, <1>3, <1>4, <1>5

\* close(): whoever closes is the last to work on the connection.
LEMMA HeldByClose ==
  ASSUME ServerInv, TypeOK', NEW j \in BagToSet(jobs), JobCloses(j)
  PROVE  Held'
<1> DEFINE c0 == j.conn
<1>0. TypeOK
  BY DEF ServerInv, RetainCountExact
<1>1. /\ UNCHANGED <<jobFrame, updates, retainCount>> /\ j.step = "close"
      /\ jobs' = IF j.kind = "dealloc" THEN jobs (-) SetToBag({j}) ELSE To(j, "finish")
      /\ Close(c0) /\ c0 \in Connections
  BY JobTypes DEF JobCloses
<1>2. /\ UNCHANGED <<polls, accepting>>
      /\ \A c \in Connections : /\ Creating(c)' <=> Creating(c)
                                /\ Fired(c)' <=> Fired(c)
                                /\ Armed(c)' = Armed(c)
      /\ InvQueueOrder' /\ InvEntries' /\ InvArmed'
  BY <1>1, JobFrame
<1>3. \A c \in Connections : c # c0 => socket'[c] = socket[c]
  BY <1>0, <1>1 DEF Close, TypeOK
<1>4. /\ \A d \in Connections :
           /\ Cardinality(CopiesOf(jobs', d)) = Cardinality(CopiesOf(jobs, d))
           /\ \A k \in AtWork(d)' : k \in AtWork(d) /\ jobs'[k] = jobs[k]
      /\ AtWork(c0)' = {} /\ Capturing(updates, c0) = {} /\ Armed(c0) = {} /\ ~Creating(c0)
      /\ ~Fired(c0)
  <2>1. CASE j.kind # "dealloc"
    <3>1. IsAtWork(j) /\ j \in AtWork(c0)
      BY <1>1, <2>1, JobTypes DEF IsAtWork
    <3>2. /\ Capturing(updates, c0) = {} /\ Armed(c0) = {} /\ ~Creating(c0) /\ ~Fired(c0)
      BY <1>1, <3>1, SoleWorker
    <3>3. jobs' = To(j, "finish")
      BY <1>1, <2>1
    <3>4. \A d \in Connections :
            /\ Cardinality(CopiesOf(jobs', d)) = Cardinality(CopiesOf(jobs, d))
            /\ \A k \in AtWork(d)' : k \in AtWork(d) /\ jobs'[k] = jobs[k]
            /\ IsAtWork(j) /\ d = j.conn => AtWork(d)' = {}
      BY <1>1, <2>1, <3>3, WorkEnds
    <3> QED BY <1>1, <3>1, <3>2, <3>4
  <2>2. CASE j.kind = "dealloc"
    <3>1. retainCount[c0] = 0 /\ jobs' = jobs (-) SetToBag({j})
      BY <1>1, <2>2 DEF ServerInv, InvLifetime
    <3>2. /\ Capturing(updates, c0) = {} /\ Capturing(polls, c0) = {} /\ Blocks(c0) = {}
          /\ accepting # c0
      BY <1>1, <3>1, OneReference
    <3>3. ~Fired(c0)
      <4> SUFFICES ASSUME Fired(c0) PROVE FALSE
        OBVIOUS
      <4>1. cursor \in DOMAIN polls /\ polls[cursor].block = c0
        BY DEF Fired, Current, ServerInv, InvLifetime
      <4> QED BY <3>2, <4>1 DEF Capturing
    <3>4. ASSUME NEW d \in Connections
          PROVE  /\ Cardinality(CopiesOf(jobs', d)) = Cardinality(CopiesOf(jobs, d))
                 /\ AtWork(d)' = AtWork(d) /\ \A k \in AtWork(d) : jobs'[k] = jobs[k]
      <4>1. /\ Cardinality(CopiesOf(jobs, d)) =
                 Cardinality(CopiesOf(jobs', d)) + (IF IsBlockOf(j, d) THEN 1 ELSE 0)
            /\ AtWork(d)' = IF jobs[j] = 1 THEN AtWork(d) \ {j} ELSE AtWork(d)
            /\ \A k \in AtWork(d) : k # j => jobs'[k] = jobs[k]
            /\ Cardinality(CopiesOf(jobs', d)) \in Nat
        BY <3>1, WorkDropped
      <4>2. ~IsBlockOf(j, d) /\ j \notin AtWork(d)
        BY <2>2 DEF IsBlockOf, AtWork, Blocks
      <4> QED BY <4>1, <4>2
    <3>5. AtWork(c0) = {} /\ Armed(c0) = {} /\ ~Creating(c0)
      BY <3>2 DEF AtWork, Armed, Creating
    <3> QED BY <1>1, <3>2, <3>3, <3>4, <3>5
  <2> QED BY <2>1, <2>2
<1>5. ASSUME NEW c \in Connections PROVE WellHeld(c)'
  <2>1. WellHeld(c)
    BY HeldNow
  <2>2. Exact(c)'
    BY <1>1, <1>2, <1>4, <2>1, ExactNext DEF WellHeld, Exact
  <2>3. CASE c = c0
    <3>1. Alone(c)' /\ HasDescriptor(c)'
      BY <1>1, <1>2, <1>4, <2>3, OnlyCall
    <3> QED BY <2>2, <3>1 DEF WellHeld
  <2>4. CASE c # c0
    <3>1. Undisturbed(c)
      BY <1>1, <1>2, <1>3, <1>4, <2>4 DEF Undisturbed
    <3> QED BY <2>1, <2>2, <3>1, UndisturbedKeeps DEF WellHeld
  <2> QED BY <2>3, <2>4
<1> QED BY <1>2, <1>5 DEF Held

\* A block ran; if it held the last reference, its thread frees the connection.
LEMMA HeldByFinish ==
  ASSUME ServerInv, TypeOK', NEW j \in BagToSet(jobs), JobFinishes(j)
  PROVE  Held'
<1> DEFINE c0 == j.conn
<1>0. TypeOK
  BY DEF ServerInv, RetainCountExact
<1>1. /\ j.step = "finish" /\ retainCount' = Count(c0, -1) /\ UNCHANGED <<jobFrame, socket>>
  BY DEF JobFinishes
<1>2. c0 \in Connections /\ j.kind # "dealloc" /\ j \in Blocks(c0) /\ ~IsAtWork(j)
  BY <1>1, JobTypes DEF IsAtWork
<1>3. UNCHANGED <<polls, accepting>>
      /\ \A c \in Connections : (Creating(c)' <=> Creating(c)) /\ (Fired(c)' <=> Fired(c))
  BY <1>1, JobFrame
<1>4. /\ \A c \in Connections :
           /\ Capturing(updates', c) = Capturing(updates, c)
           /\ Cardinality(Capturing(updates', c)) = Cardinality(Capturing(updates, c))
           /\ Armed(c)' = Armed(c)
           /\ \A k \in Capturing(updates, c) : updates'[k].fd = updates[k].fd
      /\ InvQueueOrder' /\ InvEntries' /\ InvArmed'
  <2>1. CASE ~Disposed(c0)
    <3>1. updates' = updates
      BY <2>1 DEF JobFinishes
    <3> QED BY <1>1, <3>1, JobFrame
  <2>2. CASE Disposed(c0)
    <3>1. /\ updates' = Append(updates, Unregister(socket[c0]))
          /\ retainCount[c0] = 1 /\ socket[c0] \in Sockets
      BY <2>2, Extra DEF JobFinishes
    <3>2. Capturing(updates, c0) = {} /\ Armed(c0) = {} /\ socket[c0] # None
      BY <1>2, <3>1, OneReference, Constants DEF Armed
    <3>3. Unneeded(socket[c0])
      BY <1>2, <3>2, Removable DEF Unneeded
    <3>4. socket[c0] \in Descriptors
      BY <3>1 DEF Descriptors
    <3>5. /\ \A c \in Connections :
               /\ Capturing(updates', c) = Capturing(updates, c)
               /\ Cardinality(Capturing(updates', c)) = Cardinality(Capturing(updates, c))
               /\ Armed(c)' = Armed(c)
          /\ \A c \in Connections : \A k \in Capturing(updates, c) : updates'[k].fd = updates[k].fd
          /\ \A i \in DOMAIN polls : polls[i].block \in Connections => (Removed(i)' <=> Removed(i))
          /\ InvQueueOrder' /\ InvEntries'
      BY <1>3, <3>1, <3>3, <3>4, AppendRemoval
    <3>6. InvArmed'
      BY <1>1, <3>5, JobFrame
    <3> QED BY <3>5, <3>6
  <2> QED BY <2>1, <2>2
<1>5. ASSUME NEW d \in Connections
      PROVE  /\ Cardinality(CopiesOf(jobs', d)) + (IF d = c0 THEN 1 ELSE 0) =
                  Cardinality(CopiesOf(jobs, d))
             /\ Cardinality(CopiesOf(jobs', d)) \in Nat
             /\ AtWork(d)' = AtWork(d) /\ \A k \in AtWork(d) : jobs'[k] = jobs[k]
  <2>1. IsBlockOf(j, d) <=> d = c0
    BY <1>2 DEF IsBlockOf
  <2>2. j \notin AtWork(d)
    BY <1>2 DEF AtWork, Blocks, IsAtWork
  <2>3. CASE ~Disposed(c0)
    <3>1. jobs' = jobs (-) SetToBag({j})
      BY <2>3 DEF JobFinishes
    <3>2. /\ Cardinality(CopiesOf(jobs, d)) =
               Cardinality(CopiesOf(jobs', d)) + (IF IsBlockOf(j, d) THEN 1 ELSE 0)
          /\ AtWork(d)' = IF jobs[j] = 1 THEN AtWork(d) \ {j} ELSE AtWork(d)
          /\ \A k \in AtWork(d) : k # j => jobs'[k] = jobs[k]
          /\ Cardinality(CopiesOf(jobs', d)) \in Nat
      BY <3>1, WorkDropped
    <3> QED BY <2>1, <2>2, <3>2
  <2>4. CASE Disposed(c0)
    <3> DEFINE new == Job(c0, "dealloc", "closing")
    <3>1. jobs' = Advance(j, new)
      BY <2>4 DEF JobFinishes
    <3>2. new.kind = "dealloc" /\ new # j
      BY <1>2 DEF Job
    <3> HIDE DEF new
    <3>3. /\ Cardinality(CopiesOf(jobs', d)) + (IF IsBlockOf(j, d) THEN 1 ELSE 0) =
               Cardinality(CopiesOf(jobs, d)) + (IF IsBlockOf(new, d) THEN 1 ELSE 0)
          /\ AtWork(d)' = (IF jobs[j] = 1 THEN AtWork(d) \ {j} ELSE AtWork(d))
                            \cup (IF new.conn = d /\ IsAtWork(new) THEN {new} ELSE {})
          /\ \A k \in AtWork(d) : k # j /\ k # new => jobs'[k] = jobs[k]
      BY <3>1, <3>2, WorkAdvanced
    <3>4. ~IsBlockOf(new, d) /\ ~IsAtWork(new) /\ new \notin AtWork(d)
      BY <3>2 DEF IsBlockOf, IsAtWork, AtWork, Blocks
    <3>5. Cardinality(CopiesOf(jobs', d)) \in Nat /\ Cardinality(CopiesOf(jobs, d)) \in Nat
      <4>1. IsABag(jobs') /\ IsFiniteSet(BagToSet(jobs'))
        BY <3>1, AdvanceJobs
      <4> QED BY <4>1, CopiesFinite, References
    <3>6. AtWork(d)' = AtWork(d) /\ \A k \in AtWork(d) : k # j
      BY <2>2, <3>3, <3>4
    <3>7. Cardinality(CopiesOf(jobs', d)) + (IF d = c0 THEN 1 ELSE 0) = Cardinality(CopiesOf(jobs, d))
      BY <2>1, <3>3, <3>4, <3>5
    <3> QED BY <3>3, <3>4, <3>5, <3>6, <3>7
  <2> QED BY <2>3, <2>4
<1>6. ASSUME NEW c \in Connections PROVE WellHeld(c)'
  <2>1. WellHeld(c)
    BY HeldNow
  <2>2. Exact(c)'
    <3>1. retainCount'[c] = retainCount[c] - (IF c = c0 THEN 1 ELSE 0)
      BY <1>0, <1>1, <1>2, CountTypes, References
    <3>2. /\ Cardinality(Capturing(updates, c)) \in Nat /\ Cardinality(Capturing(polls, c)) \in Nat
          /\ retainCount[c] = Cardinality(Capturing(updates, c)) + Cardinality(Capturing(polls, c))
                            + Cardinality(CopiesOf(jobs, c)) + (IF accepting = c THEN 1 ELSE 0)
      BY References
    <3> QED BY <1>3, <1>4, <1>5, <3>1, <3>2, ExactNext
  <2>3. Undisturbed(c)
    BY <1>1, <1>3, <1>4, <1>5 DEF Undisturbed
  <2> QED BY <2>1, <2>2, <2>3, UndisturbedKeeps DEF WellHeld
<1> QED BY <1>4, <1>6 DEF Held

\* Every step of a job.
LEMMA HeldByJob ==
  ASSUME ServerInv, TypeOK', NEW j \in BagToSet(jobs), Run(j)
  PROVE  Held'
<1>1. CASE JobHup(j)
  <2>1. /\ j.step = "hup" /\ jobs' = To(j, "finish")
        /\ UNCHANGED <<jobFrame, updates, retainCount, socket>>
    BY <1>1 DEF JobHup
  <2>2. j.kind # "dealloc"
    BY <2>1, JobTypes
  <2> QED BY <2>1, <2>2, HeldByEnding
<1>2. CASE JobReads(j)
  <2>1. j.kind = "read" /\ j.step = "start" /\ IsAtWork(j) /\ UNCHANGED <<jobFrame, socket>>
    BY <1>2 DEF JobReads, IsAtWork
  <2>2. CASE wire[j.conn] = "request"
    BY <1>2, <2>2, HeldByRequest
  <2>3. CASE wire[j.conn] \in {"quiet", "some", "waiting"}
    <3>1. Await(j.conn, "in") /\ jobs' = To(j, "notify")
      BY <1>2, <2>3 DEF JobReads
    <3> QED BY <2>1, <3>1, HeldByAwait
  <2>4. CASE wire[j.conn] \notin {"request", "quiet", "some", "waiting"}
    <3>1. jobs' = To(j, "finish") /\ UNCHANGED <<updates, retainCount>>
      BY <1>2, <2>4 DEF JobReads
    <3> QED BY <2>1, <3>1, HeldByEnding
  <2> QED BY <2>2, <2>3, <2>4
<1>3. CASE JobAnswers(j)
  <2>1. /\ j.step = "start" /\ jobs' = To(j, "sending") /\ IsAtWork(j)
        /\ UNCHANGED <<jobFrame, updates, retainCount, socket>>
    BY <1>3 DEF JobAnswers, IsAtWork
  <2> QED BY <2>1, HeldByWorking
<1>4. CASE JobSends(j)
  <2>1. j.step = "sending" /\ IsAtWork(j)
    BY <1>4, JobTypes DEF JobSends, IsAtWork
  <2>2. CASE AnswerSent(j)
    BY <2>1, <2>2, HeldBySent
  <2>3. CASE AnswerShort(j)
    <3>1. Await(j.conn, "out") /\ jobs' = To(j, "notify") /\ UNCHANGED <<jobFrame, socket>>
      BY <2>3 DEF AnswerShort
    <3> QED BY <2>1, <3>1, HeldByAwait
  <2>4. CASE AnswerGoesOn
    <3>1. UNCHANGED <<jobFrame, updates, jobs, retainCount, socket>>
      BY <2>4 DEF AnswerGoesOn
    <3>2. InvQueueOrder' /\ InvEntries' /\ InvArmed' /\ UNCHANGED <<polls, thread, cursor, accepting>>
      BY <3>1, JobFrame
    <3>3. \A c \in Connections : WellHeld(c)'
      BY <3>1, <3>2, QuietStep
    <3> QED BY <3>2, <3>3 DEF Held
  <2> QED BY <1>4, <2>2, <2>3, <2>4 DEF JobSends
<1> QED BY <1>1, <1>2, <1>3, <1>4, HeldByNotify, HeldByClose, HeldByFinish DEF Run

------------------------------
(* An update is applied. *)

\* The entry an update is about, if there is one, and the block that loses it.
LEMMA DisplacedEntry ==
  ASSUME ServerInv
  PROVE  \/ IndexOf(Head(updates).fd) = {} /\ Displaced = NoBlock
         \/ \E f \in DOMAIN polls :
              /\ IndexOf(Head(updates).fd) = {f} /\ polls[f].fd = Head(updates).fd
              /\ (CHOOSE i \in IndexOf(Head(updates).fd) : TRUE) = f
              /\ Displaced = polls[f].block
<1>1. CASE IndexOf(Head(updates).fd) = {}
  BY <1>1 DEF Displaced
<1>2. CASE IndexOf(Head(updates).fd) # {}
  <2>1. PICK f : f \in IndexOf(Head(updates).fd)
    BY <1>2
  <2>2. f \in DOMAIN polls /\ polls[f].fd = Head(updates).fd
    BY <2>1 DEF IndexOf
  <2>3. IndexOf(Head(updates).fd) = {f}
    BY <2>1, <2>2 DEF IndexOf, ServerInv, InvEntries
  <2>4. (CHOOSE i \in IndexOf(Head(updates).fd) : TRUE) = f
    BY <2>3
  <2>5. Displaced = polls[f].block
    BY <1>2, <2>4 DEF Displaced
  <2> QED BY <2>2, <2>3, <2>4, <2>5
<1> QED BY <1>1, <1>2

\* The updates that are left, and what the release of the displaced block adds.
LEMMA AppliedUpdates ==
  ASSUME ServerInv, PollApplies
  PROVE  /\ 1 \in DOMAIN updates /\ Head(updates) = updates[1] /\ updates[1] \in Updates
         /\ \A k \in DOMAIN updates' :
              \/ /\ k \in Nat /\ k + 1 \in DOMAIN updates /\ k + 1 # 1
                 /\ updates'[k] = updates[k + 1]
              \/ /\ Disposed(Displaced) /\ k = Len(updates)
                 /\ updates'[k] = Unregister(socket[Displaced])
         /\ \A m \in DOMAIN updates :
              m # 1 => m - 1 \in DOMAIN updates' /\ updates'[m - 1] = updates[m]
         /\ \A d \in Connections :
              /\ Cardinality(Capturing(updates', d)) \in Nat
              /\ Cardinality(Capturing(updates, d)) =
                   Cardinality(Capturing(updates', d)) + (IF Head(updates).block = d THEN 1 ELSE 0)
         /\ DOMAIN updates \subseteq Nat /\ Len(updates) \in Nat
<1> DEFINE T == Tail(updates)
<1>0. TypeOK
  BY DEF ServerInv, RetainCountExact
<1>1. updates \in Seq(Updates) /\ updates # <<>> /\ updates' = T \o DisposeUpdates(Displaced)
  BY <1>0 DEF TypeOK, PollApplies, ApplyRegister, ApplyUnregister, Draining
<1>2. /\ DOMAIN T = 1..Len(T) /\ Len(T) = Len(updates) - 1 /\ T \in Seq(Updates)
      /\ \A i \in 1..Len(T) : T[i] = updates[i + 1]
      /\ DOMAIN updates = 1..Len(updates) /\ Len(updates) \in Nat \ {0}
      /\ Head(updates) = updates[1]
  BY <1>1, HeadTailProperties, LenProperties, EmptySeq
<1>3. \A d : Cardinality(Capturing(updates, d)) =
               Cardinality(Capturing(T, d)) + (IF Head(updates).block = d THEN 1 ELSE 0)
  BY <1>1, CaptureTail
<1>4. \A d : Cardinality(Capturing(T, d)) \in Nat
  BY <1>2, CaptureFinite
<1>5. 1 \in DOMAIN updates /\ updates[1] \in Updates
  BY <1>0, <1>2, EntryTypes
<1>6. \A m \in DOMAIN updates : m # 1 => m - 1 \in DOMAIN T /\ T[m - 1] = updates[m]
  <2> SUFFICES ASSUME NEW m \in DOMAIN updates, m # 1
               PROVE  m - 1 \in DOMAIN T /\ T[m - 1] = updates[m]
    OBVIOUS
  <2>1. m \in Nat /\ m - 1 \in 1..Len(T) /\ (m - 1) + 1 = m
    BY <1>2
  <2> QED BY <1>2, <2>1
<1>7. \A k \in DOMAIN T : /\ k \in Nat /\ k + 1 \in DOMAIN updates /\ k + 1 # 1
                          /\ T[k] = updates[k + 1]
  BY <1>2
<1> HIDE DEF T
<1>8. CASE ~Disposed(Displaced)
  <2>1. updates' = T
    BY <1>1, <1>2, <1>8, Extra, ConcatEmptySeq
  <2> QED BY <1>2, <1>3, <1>4, <1>5, <1>6, <1>7, <2>1
<1>9. CASE Disposed(Displaced)
  <2> DEFINE u == Unregister(socket[Displaced])
  <2>1. u \in Updates /\ DisposeUpdates(Displaced) = <<u>>
    BY <1>9, Extra
  <2>2. u.block = NoBlock
    BY UpdateFacts
  <2> HIDE DEF u
  <2>3. T \o <<u>> = Append(T, u)
    BY <1>2, <2>1, ConcatOne
  <2>4. updates' = Append(T, u)
    BY <1>1, <2>1, <2>3
  <2>5. /\ Len(updates') = Len(T) + 1 /\ DOMAIN updates' = 1..(Len(T) + 1)
        /\ \A i \in 1..Len(T) : updates'[i] = T[i]
        /\ updates'[Len(T) + 1] = u
    BY <1>2, <2>1, <2>4, AppendProperties, LenProperties
  <2>6. ASSUME NEW k \in DOMAIN updates'
        PROVE  \/ /\ k \in Nat /\ k + 1 \in DOMAIN updates /\ k + 1 # 1
                  /\ updates'[k] = updates[k + 1]
               \/ k = Len(updates) /\ updates'[k] = u
    <3>1. \A l \in Nat : \A x \in 1..(l + 1) : x \in 1..l \/ x = l + 1
      OBVIOUS
    <3>2. Len(T) \in Nat /\ Len(T) + 1 = Len(updates)
      BY <1>2
    <3>3. k \in 1..Len(T) \/ k = Len(updates)
      BY <2>5, <3>1, <3>2
    <3> QED BY <1>2, <1>7, <2>5, <3>2, <3>3
  <2>7. \A m \in DOMAIN updates : m # 1 => m - 1 \in DOMAIN updates' /\ updates'[m - 1] = updates[m]
    <3>1. \A l \in Nat : \A x \in 1..l : x \in 1..(l + 1)
      OBVIOUS
    <3>2. Len(T) \in Nat
      BY <1>2
    <3> QED BY <1>2, <1>6, <2>5, <3>1, <3>2
  <2>8. ASSUME NEW d \in Connections
        PROVE  Cardinality(Capturing(updates', d)) = Cardinality(Capturing(T, d))
    <3>1. Cardinality(Capturing(Append(T, u), d)) =
            Cardinality(Capturing(T, d)) + (IF u.block = d THEN 1 ELSE 0)
      BY <1>2, <2>1, CaptureAppend
    <3>2. u.block # d
      BY <2>2, Constants
    <3> QED BY <1>4, <2>4, <3>1, <3>2
  <2> QED BY <1>2, <1>3, <1>4, <1>5, <1>9, <2>6, <2>7, <2>8 DEF u
<1> QED BY <1>8, <1>9

\* The entries that are left, and the new one.
LEMMA AppliedEntries ==
  ASSUME ServerInv, PollApplies
  PROVE  \E n, s : MovedTo(n, s)
<1> DEFINE h == Head(updates)
<1> DEFINE l == Len(polls)
<1>0. TypeOK
  BY DEF ServerInv, RetainCountExact
<1>1. /\ polls \in Seq(Updates) /\ DOMAIN polls = 1..l /\ l \in Nat
      /\ \A i \in DOMAIN polls : polls[i] \in Updates
  BY <1>0, EntryTypes
<1>2. h \in Updates
  BY AppliedUpdates
<1>3. polls' \in Seq(Updates)
  BY ApplyTypes
<1>4. \A d : Cardinality(Capturing(polls', d)) \in Nat /\ Cardinality(Capturing(polls, d)) \in Nat
  BY <1>1, <1>3, CaptureFinite
<1>5. \A i \in DOMAIN polls' : i \in Nat /\ i >= 1
  <2>1. DOMAIN polls' = 1..Len(polls')
    BY <1>3, LenProperties
  <2> QED BY <2>1
<1>6. \A d \in Connections : d # NoBlock
  BY Constants
<1>7. CASE ApplyRegister(DisposeUpdates(Displaced))
  <2>1. h.block # NoBlock
    BY <1>7 DEF ApplyRegister
  <2>2. CASE IndexOf(h.fd) = {}
    <3> DEFINE s == [i \in DOMAIN polls |-> i]
    <3>1. polls' = Append(polls, h) /\ Displaced = NoBlock
      BY <1>7, <2>2, DisplacedEntry DEF ApplyRegister
    <3>2. /\ DOMAIN polls' = 1..(l + 1) /\ polls'[l + 1] = h
          /\ \A i \in 1..l : polls'[i] = polls[i]
      BY <1>1, <1>2, <3>1, AppendProperties, LenProperties
    <3>3. \A i \in 1..(l + 1) : i \in 1..l \/ i = l + 1
      BY <1>1
    <3>4. \A i \in 1..l : i # l + 1
      BY <1>1
    <3>5. ASSUME NEW d \in Connections
          PROVE  Cardinality(Capturing(polls', d)) + (IF Displaced = d THEN 1 ELSE 0) =
                   Cardinality(Capturing(polls, d)) + (IF h.block = d THEN 1 ELSE 0)
      <4>1. Cardinality(Capturing(Append(polls, h), d)) =
              Cardinality(Capturing(polls, d)) + (IF h.block = d THEN 1 ELSE 0)
        BY <1>1, <1>2, CaptureAppend
      <4> QED BY <1>4, <1>6, <3>1, <4>1
    <3>6. \A i \in DOMAIN polls' :
            \/ i = l + 1 /\ h.block # NoBlock /\ polls'[i] = h
            \/ /\ i # l + 1 /\ s[i] \in DOMAIN polls /\ s[i] \notin IndexOf(h.fd)
               /\ polls'[i] = polls[s[i]]
      BY <1>1, <2>1, <2>2, <3>2, <3>3, <3>4
    <3>7. \A i, m \in DOMAIN polls' : i # l + 1 /\ m # l + 1 /\ s[i] = s[m] => i = m
      BY <1>1, <3>2, <3>3
    <3>8. MovedTo(l + 1, s)
      BY <1>4, <1>5, <3>5, <3>6, <3>7 DEF MovedTo
    <3> QED BY <3>8
  <2>3. CASE IndexOf(h.fd) # {}
    <3>1. PICK f \in DOMAIN polls : /\ IndexOf(h.fd) = {f} /\ polls[f].fd = h.fd
                                    /\ (CHOOSE i \in IndexOf(h.fd) : TRUE) = f
                                    /\ Displaced = polls[f].block
      BY <2>3, DisplacedEntry
    <3> DEFINE s == [i \in DOMAIN polls |-> i]
    <3>2. polls' = [polls EXCEPT ![f] = h]
      BY <1>7, <2>3, <3>1 DEF ApplyRegister
    <3>3. DOMAIN polls' = DOMAIN polls /\ \A i \in DOMAIN polls : polls'[i] = IF i = f THEN h ELSE polls[i]
      BY <3>2
    <3>4. ASSUME NEW d \in Connections
          PROVE  Cardinality(Capturing(polls', d)) + (IF Displaced = d THEN 1 ELSE 0) =
                   Cardinality(Capturing(polls, d)) + (IF h.block = d THEN 1 ELSE 0)
      <4>1. f \in 1..Len(polls)
        BY <1>1
      <4>2. DOMAIN polls' = 1..Len(polls)
            /\ \A k \in 1..Len(polls) : polls'[k] = IF k = f THEN h ELSE polls[k]
        BY <1>1, <3>3
      <4>3. Cardinality(Capturing(polls', d)) + (IF polls[f].block = d THEN 1 ELSE 0) =
              Cardinality(Capturing(polls, d)) + (IF polls'[f].block = d THEN 1 ELSE 0)
        <5>1. \A k \in 1..Len(polls) : k # f => polls'[k] = polls[k]
          BY <4>2
        <5> QED BY ONLY <1>1, <4>1, <4>2, <5>1, CaptureReplace
      <4> QED BY <3>1, <4>1, <4>2, <4>3
    <3>5. \A i \in DOMAIN polls' :
            \/ i = f /\ h.block # NoBlock /\ polls'[i] = h
            \/ /\ i # f /\ s[i] \in DOMAIN polls /\ s[i] \notin IndexOf(h.fd)
               /\ polls'[i] = polls[s[i]]
      BY <2>1, <3>1, <3>3
    <3>6. \A i, m \in DOMAIN polls' : i # f /\ m # f /\ s[i] = s[m] => i = m
      BY <3>3
    <3>7. MovedTo(f, s)
      BY <1>4, <1>5, <3>4, <3>5, <3>6 DEF MovedTo
    <3> QED BY <3>7
  <2> QED BY <2>2, <2>3
<1>8. CASE ApplyUnregister(DisposeUpdates(Displaced))
  <2>1. h.block = NoBlock
    BY <1>8 DEF ApplyUnregister
  <2>2. CASE IndexOf(h.fd) = {}
    <3> DEFINE s == [i \in DOMAIN polls |-> i]
    <3>1. polls' = polls /\ Displaced = NoBlock
      BY <1>8, <2>2, DisplacedEntry DEF ApplyUnregister
    <3>2. \A d \in Connections :
            Cardinality(Capturing(polls', d)) + (IF Displaced = d THEN 1 ELSE 0) =
              Cardinality(Capturing(polls, d)) + (IF h.block = d THEN 1 ELSE 0)
      BY <1>6, <2>1, <3>1
    <3>3. \A i \in DOMAIN polls' : i # 0
      BY <1>5
    <3>4. MovedTo(0, s)
      BY <1>4, <1>5, <2>2, <3>1, <3>2, <3>3 DEF MovedTo
    <3> QED BY <3>4
  <2>3. CASE IndexOf(h.fd) # {}
    <3>1. PICK f \in DOMAIN polls : /\ IndexOf(h.fd) = {f} /\ polls[f].fd = h.fd
                                    /\ (CHOOSE i \in IndexOf(h.fd) : TRUE) = f
                                    /\ Displaced = polls[f].block
      BY <2>3, DisplacedEntry
    <3> DEFINE s == [i \in 1..(l - 1) |-> IF i = f THEN l ELSE i]
    <3>2. polls' = [i \in 1..(l - 1) |-> IF i \in IndexOf(h.fd) THEN polls[l] ELSE polls[i]]
      BY <1>8, <2>3 DEF ApplyUnregister
    <3>3. /\ DOMAIN polls' = 1..(l - 1)
          /\ \A i \in 1..(l - 1) : polls'[i] = IF i = f THEN polls[l] ELSE polls[i]
      BY <3>1, <3>2
    <3>4. /\ l \in 1..l /\ f \in 1..l
          /\ \A i \in 1..(l - 1) : i \in 1..l /\ i # l /\ i # 0
      <4> HIDE DEF l, s
      <4>1. l \in Nat /\ f \in 1..l
        BY <1>1
      <4> QED BY ONLY <4>1
    <3>5. ASSUME NEW d \in Connections
          PROVE  Cardinality(Capturing(polls', d)) + (IF Displaced = d THEN 1 ELSE 0) =
                   Cardinality(Capturing(polls, d)) + (IF h.block = d THEN 1 ELSE 0)
      <4>1. Cardinality(Capturing(polls, d)) =
              Cardinality(Capturing(polls', d)) + (IF polls[f].block = d THEN 1 ELSE 0)
        <5>1. f \in 1..Len(polls) /\ DOMAIN polls' = 1..(Len(polls) - 1)
              /\ \A i \in 1..(Len(polls) - 1) : polls'[i] = IF i = f THEN polls[Len(polls)] ELSE polls[i]
          BY <3>3, <3>4
        <5> QED BY ONLY <1>1, <5>1, CaptureRemove
      <4> QED BY <1>4, <1>6, <2>1, <3>1, <4>1
    <3> HIDE DEF l
    <3>6. \A i \in DOMAIN polls' :
            /\ i # 0 /\ s[i] \in DOMAIN polls /\ s[i] \notin IndexOf(h.fd)
            /\ polls'[i] = polls[s[i]]
      BY <1>1, <3>1, <3>3, <3>4
    <3>7. \A i, m \in DOMAIN polls' : s[i] = s[m] => i = m
      BY <3>3, <3>4
    <3>8. MovedTo(0, s)
      BY <1>4, <1>5, <3>5, <3>6, <3>7 DEF MovedTo
    <3> QED BY <3>8
  <2> QED BY <2>2, <2>3
<1> QED BY <1>7, <1>8 DEF PollApplies

\* What applying an update leaves alone, and what it does to the displaced connection.
LEMMA ApplyEffect ==
  ASSUME ServerInv, PollApplies, NEW c \in Connections
  PROVE  /\ UNCHANGED <<thread, cursor, accepting, jobs>>
         /\ thread \in {"drain", "drain again"} /\ cursor = 1 /\ accepting # c
         /\ ~Creating(c) /\ ~Fired(c) /\ ~Creating(c)' /\ ~Fired(c)'
         /\ AtWork(c)' = AtWork(c)
         /\ retainCount'[c] = IF Displaced = c THEN retainCount[c] - 1 ELSE retainCount[c]
         /\ Disposed(Displaced) => Displaced \in Connections
         /\ ~(Disposed(Displaced) /\ Displaced = c) => socket'[c] = socket[c]
<1>0. TypeOK
  BY DEF ServerInv, RetainCountExact
<1>1. UNCHANGED <<thread, cursor, accepting, jobs>> /\ thread \in {"drain", "drain again"}
  BY DEF PollApplies, ApplyRegister, ApplyUnregister, Draining
<1>2. cursor = 1 /\ accepting = None
  BY <1>1 DEF ServerInv, InvLifetime
<1>3. accepting # c
  BY <1>2, Constants
<1>4. ~Creating(c) /\ ~Fired(c) /\ ~Creating(c)' /\ ~Fired(c)'
  BY <1>1 DEF Creating, Fired
<1>5. AtWork(c)' = AtWork(c)
  BY <1>1 DEF AtWork, Blocks
<1>6. retainCount'[c] = IF Displaced = c THEN retainCount[c] - 1 ELSE retainCount[c]
  <2>1. CASE Displaced \in Connections
    <3>1. retainCount' = Count(Displaced, -1)
      BY <2>1 DEF PollApplies, ReleaseInPoll
    <3> QED BY <1>0, <2>1, <3>1, CountTypes
  <2>2. CASE Displaced \notin Connections
    BY <2>2 DEF PollApplies, ReleaseInPoll
  <2> QED BY <2>1, <2>2
<1>7. Disposed(Displaced) => Displaced \in Connections
  BY DEF Disposed, Freed
<1>8. ~(Disposed(Displaced) /\ Displaced = c) => socket'[c] = socket[c]
  <2>1. socket \in [Connections -> Sockets \cup {None}]
    BY <1>0 DEF TypeOK
  <2> QED BY <2>1 DEF PollApplies, ReleaseInPoll, Close
<1> QED BY <1>1, <1>2, <1>3, <1>4, <1>5, <1>6, <1>7, <1>8

\* A connection that goes with its entry was referred to from nowhere else.
LEMMA DisposedAlone ==
  ASSUME ServerInv, PollApplies, Disposed(Displaced)
  PROVE  /\ Displaced \in Connections /\ socket[Displaced] # None
         /\ Capturing(updates, Displaced) = {} /\ AtWork(Displaced) = {}
         /\ Capturing(polls, Displaced) \subseteq IndexOf(Head(updates).fd)
         /\ Head(updates).block # Displaced
<1> DEFINE b == Displaced
<1>1. b \in Connections /\ socket[b] # None /\ retainCount[b] = 1
  BY DEF Disposed, Freed
<1>2. b # NoBlock
  BY <1>1, Constants
<1>3. PICK f \in DOMAIN polls : IndexOf(Head(updates).fd) = {f} /\ b = polls[f].block
  BY <1>2, DisplacedEntry
<1>4. f \in Capturing(polls, b)
  BY <1>3 DEF Capturing
<1> HIDE DEF b
<1>5. retainCount[b] <= 1
  BY <1>1
<1>6. /\ \A i, m \in Capturing(polls, b) : i = m
      /\ Capturing(updates, b) = {} /\ Blocks(b) = {}
  BY <1>1, <1>4, <1>5, OneReference
<1>7. AtWork(b) = {} /\ Capturing(polls, b) \subseteq {f}
  BY <1>4, <1>6 DEF AtWork
<1>8. Head(updates).block # b
  BY <1>6, AppliedUpdates DEF Capturing
<1> QED BY <1>1, <1>3, <1>6, <1>7, <1>8 DEF b

\* An entry that moved is about to be removed when it was before.
LEMMA ApplyKeepsRemovals ==
  ASSUME ServerInv, PollApplies, NEW n, NEW s, MovedTo(n, s), NEW i \in DOMAIN polls', i # n
  PROVE  /\ Removed(s[i]) => Removed(i)'
         /\ polls'[i].block \in Connections /\ ~Removed(s[i]) => ~Removed(i)'
<1>1. /\ s[i] \in DOMAIN polls /\ s[i] \notin IndexOf(Head(updates).fd)
      /\ polls'[i] = polls[s[i]]
  BY DEF MovedTo
<1>2. polls[s[i]].fd # Head(updates).fd
  BY <1>1 DEF IndexOf
<1>3. ASSUME Removed(s[i]) PROVE Removed(i)'
  <2>1. PICK m \in DOMAIN updates : updates[m] = Unregister(polls[s[i]].fd)
    BY <1>3 DEF Removed
  <2>2. m # 1
    BY <1>2, <2>1, AppliedUpdates, UpdateFacts
  <2>3. m - 1 \in DOMAIN updates' /\ updates'[m - 1] = Unregister(polls'[i].fd)
    BY <1>1, <2>1, <2>2, AppliedUpdates
  <2> QED BY <2>3 DEF Removed
<1>4. ASSUME polls[s[i]].block \in Connections, ~Removed(s[i]), Removed(i)'
      PROVE  FALSE
  <2> DEFINE d == polls[s[i]].block
  <2>1. PICK k \in DOMAIN updates' : updates'[k] = Unregister(polls[s[i]].fd)
    BY <1>1, <1>4 DEF Removed
  <2>2. ~(k + 1 \in DOMAIN updates /\ updates'[k] = updates[k + 1])
    BY <1>4, <2>1 DEF Removed
  <2>3. Disposed(Displaced) /\ updates'[k] = Unregister(socket[Displaced])
    BY <2>2, AppliedUpdates
  <2>4. polls[s[i]].fd = socket[Displaced]
    <3>1. Unregister(polls[s[i]].fd) = Unregister(socket[Displaced])
      BY <2>1, <2>3
    <3> QED BY ONLY <3>1, UpdateFacts
  <2>5. s[i] \in Armed(d) /\ s[i] \in Capturing(polls, d)
    BY <1>1, <1>4 DEF Armed, Capturing
  <2>6. polls[s[i]].fd = socket[d]
    BY <1>4, <2>5 DEF ServerInv, InvDescriptor, HasDescriptor
  <2>7. d = Displaced
    <3>1. Displaced \in Connections /\ socket[Displaced] # None
      BY <2>3, DisposedAlone
    <3>2. d \in Connections /\ socket[d] = socket[Displaced] /\ socket[d] # None
      BY <1>4, <2>4, <2>6, <3>1
    <3> QED BY <3>1, <3>2, OwnDescriptor
  <2> QED BY <1>1, <2>3, <2>5, <2>7, DisposedAlone
<1> QED BY <1>1, <1>3, <1>4

\* The entry that is new is not.
LEMMA AppliedIsArmed ==
  ASSUME ServerInv, PollApplies, NEW n, NEW s, MovedTo(n, s), n \in DOMAIN polls',
         Head(updates).block \in Connections
  PROVE  ~Removed(n)'
<1> DEFINE h == Head(updates)
<1> DEFINE c == h.block
<1>1. polls'[n] = h
  BY DEF MovedTo
<1>2. 1 \in DOMAIN updates /\ h = updates[1]
  BY AppliedUpdates
<1>3. h.fd = socket[c]
  <2>1. 1 \in Capturing(updates, c)
    BY <1>2 DEF Capturing
  <2> QED BY <1>2, <2>1 DEF ServerInv, InvDescriptor, HasDescriptor
<1> SUFFICES ASSUME NEW k \in DOMAIN updates', updates'[k] = Unregister(h.fd)
             PROVE  FALSE
  BY <1>1 DEF Removed
<1>4. CASE k \in Nat /\ k + 1 \in DOMAIN updates /\ k + 1 # 1 /\ updates'[k] = updates[k + 1]
  <2>1. 1 < k + 1
    BY <1>4
  <2>2. updates[k + 1] # Unregister(updates[1].fd)
    BY <1>2, <1>4, <2>1 DEF ServerInv, InvQueueOrder
  <2> QED BY <1>2, <1>4, <2>2
<1>5. CASE Disposed(Displaced) /\ updates'[k] = Unregister(socket[Displaced])
  <2>1. socket[c] = socket[Displaced]
    BY <1>3, <1>5, UpdateFacts
  <2>2. Displaced \in Connections /\ socket[Displaced] # None /\ c # Displaced
    BY <1>5, DisposedAlone
  <2> QED BY <2>1, <2>2, OwnDescriptor
<1> QED BY <1>4, <1>5, AppliedUpdates

\* Every connection is well held afterwards.
LEMMA ApplyKeepsHeld ==
  ASSUME ServerInv, PollApplies, NEW n, NEW s, MovedTo(n, s), NEW c \in Connections
  PROVE  WellHeld(c)'
<1> DEFINE h == Head(updates)
<1>0. TypeOK
  BY DEF ServerInv, RetainCountExact
<1>1. Exact(c) /\ Alone(c) /\ HasDescriptor(c)
  BY HeldNow DEF WellHeld
<1>2. 1 \in DOMAIN updates /\ h = updates[1] /\ DOMAIN updates \subseteq Nat
  BY AppliedUpdates
<1>3. /\ UNCHANGED <<thread, cursor, accepting, jobs>>
      /\ accepting # c /\ ~Creating(c) /\ ~Fired(c) /\ ~Creating(c)' /\ ~Fired(c)'
      /\ AtWork(c)' = AtWork(c)
      /\ retainCount'[c] = IF Displaced = c THEN retainCount[c] - 1 ELSE retainCount[c]
      /\ ~(Disposed(Displaced) /\ Displaced = c) => socket'[c] = socket[c]
  BY ApplyEffect
<1>4. Exact(c)'
  <2> DEFINE u  == Cardinality(Capturing(updates, c))
  <2> DEFINE u2 == Cardinality(Capturing(updates', c))
  <2> DEFINE p  == Cardinality(Capturing(polls, c))
  <2> DEFINE p2 == Cardinality(Capturing(polls', c))
  <2> DEFINE b  == Cardinality(CopiesOf(jobs, c))
  <2> DEFINE dh == IF h.block = c THEN 1 ELSE 0
  <2> DEFINE dd == IF Displaced = c THEN 1 ELSE 0
  <2>1. u2 \in Nat /\ u = u2 + dh
    BY AppliedUpdates
  <2>2. p2 \in Nat /\ p2 + dd = p + dh
    BY DEF MovedTo
  <2>3. b \in Nat /\ p \in Nat /\ retainCount[c] \in Nat
    BY References
  <2>4. retainCount[c] = u + p + b
    BY <1>1, <1>3, <2>1, <2>2, <2>3 DEF Exact
  <2>5. retainCount'[c] = retainCount[c] - dd
    BY <1>3, <2>3
  <2>6. dh \in {0, 1} /\ dd \in {0, 1}
    OBVIOUS
  <2>7. Exact(c)' <=> retainCount'[c] = u2 + p2 + b
    <3>1. Exact(c)' <=> retainCount'[c] = u2 + p2 + b + (IF accepting = c THEN 1 ELSE 0)
      BY <1>3, ExactNext
    <3> HIDE DEF u2, p2, b
    <3> QED BY <1>3, <2>1, <2>2, <2>3, <3>1
  <2> HIDE DEF u, u2, p, p2, b, dh, dd
  <2> QED BY <2>1, <2>2, <2>3, <2>4, <2>5, <2>6, <2>7
<1>5. /\ \A k \in Capturing(updates', c) :
           /\ k \in Nat /\ k + 1 \in Capturing(updates, c) /\ k + 1 # 1
           /\ updates'[k] = updates[k + 1]
      /\ Capturing(updates, c)' = Capturing(updates', c)
  <2>1. NoBlock # c
    BY Constants
  <2>2. \A k \in DOMAIN updates' :
          \/ /\ k \in Nat /\ k + 1 \in DOMAIN updates /\ k + 1 # 1
             /\ updates'[k] = updates[k + 1]
          \/ updates'[k].block = NoBlock
    BY AppliedUpdates, UpdateFacts
  <2> QED BY <2>1, <2>2 DEF Capturing
<1>6. ASSUME NEW i \in Armed(c)'
      PROVE  \/ i = n /\ h.block = c /\ polls'[i] = h
             \/ i # n /\ s[i] \in Armed(c) /\ polls'[i] = polls[s[i]]
                /\ s[i] \notin IndexOf(h.fd)
  <2>1. i \in DOMAIN polls' /\ polls'[i].block = c /\ ~Removed(i)'
    BY DEF Armed, Capturing
  <2>2. CASE i = n
    <3>1. polls'[i] = h
      BY <2>1, <2>2 DEF MovedTo
    <3> QED BY <2>1, <2>2, <3>1
  <2>3. CASE i # n
    <3>1. s[i] \in DOMAIN polls /\ polls'[i] = polls[s[i]] /\ s[i] \notin IndexOf(h.fd)
      BY <2>1, <2>3 DEF MovedTo
    <3>2. ~Removed(s[i])
      BY <2>1, <2>3, ApplyKeepsRemovals
    <3> QED BY <2>1, <2>3, <3>1, <3>2 DEF Armed, Capturing
  <2> QED BY <2>2, <2>3
<1>7. \A i, m \in Armed(c)' : i # n /\ m # n /\ s[i] = s[m] => i = m
  BY DEF MovedTo, Armed, Capturing
<1>8. CASE Disposed(Displaced) /\ Displaced = c
  <2>1. /\ Capturing(updates, c) = {} /\ AtWork(c) = {}
        /\ Capturing(polls, c) \subseteq IndexOf(h.fd) /\ h.block # c
    BY <1>8, DisposedAlone
  <2>2. Capturing(updates', c) = {}
    BY <1>5, <2>1
  <2>3. Armed(c)' = {}
    BY <1>6, <2>1 DEF Armed
  <2>4. Alone(c)' /\ HasDescriptor(c)'
    BY <1>3, <2>1, <2>2, <2>3, OnlyCall
  <2> QED BY <1>4, <2>4 DEF WellHeld
<1>9. CASE ~(Disposed(Displaced) /\ Displaced = c) /\ h.block = c
  <2>1. 1 \in Capturing(updates, c)
    BY <1>2, <1>9 DEF Capturing
  <2>2. /\ \A k \in Capturing(updates, c) : k = 1
        /\ Armed(c) = {} /\ AtWork(c) = {}
    BY <1>1, <2>1 DEF Alone
  <2>3. h.fd = socket[c]
    BY <1>1, <1>2, <2>1 DEF HasDescriptor
  <2>4. Capturing(updates', c) = {}
    BY <1>5, <2>2
  <2>5. Armed(c)' \subseteq {n}
    BY <1>6, <2>2
  <2>6. Alone(c)' /\ HasDescriptor(c)'
    <3>1. CASE Armed(c)' = {}
      BY <1>3, <2>2, <2>4, <3>1, OnlyCall
    <3>2. CASE Armed(c)' # {}
      <4>1. polls'[n] = h
        BY <1>6, <2>2, <3>2
      <4>2. polls'[n].fd = socket'[c]
        BY <1>3, <1>9, <2>3, <4>1
      <4> QED BY <1>3, <2>2, <2>4, <2>5, <4>2, OnlyEntry
    <3> QED BY <3>1, <3>2
  <2> QED BY <1>4, <2>6 DEF WellHeld
<1>10. CASE ~(Disposed(Displaced) /\ Displaced = c) /\ h.block # c
  <2>1. socket'[c] = socket[c]
    BY <1>3, <1>10
  <2>2. \A i \in Armed(c)' : i # n /\ s[i] \in Armed(c) /\ polls'[i] = polls[s[i]]
    BY <1>6, <1>10
  <2>3. \A k, m \in Capturing(updates', c) : k = m
    <3> SUFFICES ASSUME NEW k \in Capturing(updates', c), NEW m \in Capturing(updates', c)
                 PROVE  k = m
      OBVIOUS
    <3>1. k \in Nat /\ m \in Nat /\ k + 1 = m + 1
      BY <1>1, <1>5 DEF Alone
    <3> QED BY <3>1
  <2>4. \A i, m \in Armed(c)' : i = m
    BY <1>1, <1>7, <2>2 DEF Alone
  <2>5. \A j, k \in AtWork(c)' : j = k /\ jobs'[j] = 1
    BY <1>1, <1>3 DEF Alone
  <2>6. /\ Capturing(updates', c) # {} => Capturing(updates, c) # {}
        /\ Armed(c)' # {} => Armed(c) # {}
    BY <1>5, <2>2
  <2>7. Alone(c)'
    BY <1>1, <1>3, <1>5, <2>3, <2>4, <2>5, <2>6 DEF Alone
  <2>8. HasDescriptor(c)'
    <3>1. \A k \in Capturing(updates', c) : updates'[k].fd = socket'[c]
      BY <1>1, <1>5, <2>1 DEF HasDescriptor
    <3>2. \A i \in Armed(c)' : polls'[i].fd = socket'[c]
      BY <1>1, <2>1, <2>2 DEF HasDescriptor
    <3>3. AtWork(c)' # {} => socket'[c] # None
      BY <1>1, <1>3, <2>1 DEF HasDescriptor
    <3> QED BY <1>3, <1>5, <3>1, <3>2, <3>3 DEF HasDescriptor
  <2> QED BY <1>4, <2>7, <2>8 DEF WellHeld
<1> QED BY <1>8, <1>9, <1>10

\* An update is applied.
LEMMA HeldByApply ==
  ASSUME ServerInv, PollApplies
  PROVE  Held'
<1> DEFINE h == Head(updates)
<1>1. PICK n, s : MovedTo(n, s)
  BY AppliedEntries
<1>2. 1 \in DOMAIN updates /\ h = updates[1] /\ DOMAIN updates \subseteq Nat
  BY AppliedUpdates
<1>3. \A c \in Connections : WellHeld(c)'
  BY <1>1, ApplyKeepsHeld
<1>4. /\ NoBlock \notin Connections
      /\ \A k \in DOMAIN updates' :
           \/ /\ k \in Nat /\ k + 1 \in DOMAIN updates /\ k + 1 # 1
              /\ updates'[k] = updates[k + 1]
           \/ /\ Disposed(Displaced) /\ updates'[k] = Unregister(socket[Displaced])
              /\ updates'[k].block = NoBlock
  BY AppliedUpdates, UpdateFacts, Constants
<1>5. InvQueueOrder'
  <2> SUFFICES ASSUME NEW k \in DOMAIN updates', NEW m \in DOMAIN updates', k < m,
                      updates'[k].block \in Connections,
                      updates'[m] = Unregister(updates'[k].fd)
               PROVE  FALSE
    BY DEF InvQueueOrder
  <2>1. k \in Nat /\ k + 1 \in DOMAIN updates /\ updates'[k] = updates[k + 1]
    BY <1>4
  <2>2. CASE m \in Nat /\ m + 1 \in DOMAIN updates /\ updates'[m] = updates[m + 1]
    <3>1. k + 1 < m + 1
      BY <2>1, <2>2
    <3> QED BY <2>1, <2>2, <3>1 DEF ServerInv, InvQueueOrder
  <2>3. CASE Disposed(Displaced) /\ updates'[m] = Unregister(socket[Displaced])
    <3>1. updates[k + 1].fd = socket[Displaced]
      BY <2>1, <2>3, UpdateFacts
    <3>2. Displaced \in Connections /\ socket[Displaced] # None /\ Capturing(updates, Displaced) = {}
      BY <2>3, DisposedAlone
    <3> QED BY <2>1, <3>1, <3>2, NotQueued
  <2> QED BY <1>4, <2>2, <2>3
<1>6. InvEntries'
  <2>1. ASSUME NEW i \in DOMAIN polls', NEW m \in DOMAIN polls', polls'[i].fd = polls'[m].fd
        PROVE  i = m
    <3>1. \A j \in DOMAIN polls' : \/ j = n /\ polls'[j] = h
                                   \/ /\ j # n /\ s[j] \in DOMAIN polls /\ polls'[j] = polls[s[j]]
                                      /\ polls[s[j]].fd # h.fd
      BY <1>1 DEF MovedTo, IndexOf
    <3>2. i = n <=> m = n
      BY <2>1, <3>1
    <3>3. CASE i # n /\ m # n
      <4>1. s[i] \in DOMAIN polls /\ s[m] \in DOMAIN polls /\ polls[s[i]].fd = polls[s[m]].fd
        BY <2>1, <3>1, <3>3
      <4>2. s[i] = s[m]
        BY <4>1 DEF ServerInv, InvEntries
      <4> QED BY <1>1, <3>3, <4>2 DEF MovedTo
    <3> QED BY <3>2, <3>3
  <2>2. ASSUME NEW i \in DOMAIN polls'
        PROVE  polls'[i].block \in Connections <=> ~polls'[i].repeat
    <3>1. CASE h.block # NoBlock /\ polls'[i] = h
      BY <1>2, <3>1 DEF ServerInv, InvEntries
    <3>2. CASE s[i] \in DOMAIN polls /\ polls'[i] = polls[s[i]]
      BY <3>2 DEF ServerInv, InvEntries
    <3> QED BY <1>1, <3>1, <3>2 DEF MovedTo
  <2>3. ASSUME NEW k \in DOMAIN updates', updates'[k].block # NoBlock
        PROVE  updates'[k].block \in Connections <=> ~updates'[k].repeat
    BY <1>4, <2>3 DEF ServerInv, InvEntries
  <2> QED BY <2>1, <2>2, <2>3 DEF InvEntries
<1>7. InvArmed'
  <2> SUFFICES ASSUME thread' = "drain again", NEW i \in DOMAIN polls',
                      polls'[i].block \in Connections
               PROVE  ~Removed(i)'
    <3>1. Connections = {} => InvArmed'
      BY DEF InvArmed
    <3>2. \A c \in Connections : UNCHANGED thread /\ thread \in {"drain", "drain again"}
      BY ApplyEffect
    <3> QED BY <3>1, <3>2 DEF InvArmed
  <2>1. thread = "drain again" /\ cursor = 1
    BY ApplyEffect
  <2>2. CASE i = n
    <3>1. h.block \in Connections
      BY <1>1, <2>2 DEF MovedTo
    <3> QED BY <1>1, <2>2, <3>1, AppliedIsArmed
  <2>3. CASE i # n
    <3>1. s[i] \in DOMAIN polls /\ polls'[i] = polls[s[i]]
      BY <1>1, <2>3 DEF MovedTo
    <3>2. s[i] >= FirstUnfired
      <4>1. s[i] \in 1..Len(polls) /\ Len(polls) \in Nat
        BY <3>1, EntryTypes DEF ServerInv, RetainCountExact
      <4>2. FirstUnfired = 1
        BY <2>1 DEF FirstUnfired
      <4> QED BY ONLY <4>1, <4>2
    <3>3. ~Removed(s[i])
      BY <2>1, <3>1, <3>2 DEF ServerInv, InvArmed
    <3>4. ServerInv /\ PollApplies /\ MovedTo(n, s) /\ i \in DOMAIN polls' /\ i # n
      BY <1>1, <2>3
    <3>5. polls'[i].block \in Connections /\ ~Removed(s[i]) => ~Removed(i)'
      BY ONLY <3>4, ApplyKeepsRemovals
    <3> QED BY <3>3, <3>5
  <2> QED BY <2>2, <2>3
<1> QED BY <1>3, <1>5, <1>6, <1>7 DEF Held

------------------------------
(* The invariant. *)

\* Every step keeps what is said of the connections, the updates and the entries.
LEMMA HeldStep ==
  ASSUME ServerInv, TypeOK', [Next]_vars
  PROVE  Held'
<1>1. CASE Main
  <2>1. CASE MainNotifies
    BY <2>1, HeldByQuietSteps
  <2>2. CASE MainRegisters
    <3> DEFINE u == Register(ListenFd, Listener, "in", TRUE)
    <3>1. u \in Updates /\ u.block = Listener /\ u.repeat = TRUE
      BY UpdateTypes DEF Register
    <3>2. updates' = Append(updates, u)
          /\ UNCHANGED <<polls, cursor, connVarsButMain, netVars>> /\ thread' = thread
      BY <2>2 DEF MainRegisters
    <3> HIDE DEF u
    <3> QED BY <3>1, <3>2, Constants, HeldByRegistration
  <2> QED BY <1>1, <2>1, <2>2 DEF Main
<1>2. CASE PollApplies
  BY <1>2, HeldByApply
<1>3. CASE PollLoops
  <2>1. UNCHANGED <<connVars, netVars>>
    BY <1>3 DEF PollLoops
  <2>2. CASE RegisterPipe
    <3> DEFINE u == Register(PipeFd, PipeBlock, "in", TRUE)
    <3>1. u \in Updates /\ u.block = PipeBlock /\ u.repeat = TRUE
      BY UpdateTypes DEF Register
    <3>2. updates' = Append(updates, u)
          /\ UNCHANGED <<polls, cursor, connVarsButMain, netVars>> /\ thread' = "read"
      BY <2>1, <2>2 DEF RegisterPipe, connVars
    <3> HIDE DEF u
    <3> QED BY <3>1, <3>2, Constants, HeldByRegistration
  <2>3. CASE ReadPipe
    BY <2>1, <2>3, HeldByQuietSteps
  <2>4. CASE ApplyDone
    BY <2>1, <2>4, HeldByQuietSteps
  <2>5. CASE Fire
    BY <2>1, <2>5, HeldByFire
  <2>6. CASE ScanDone
    BY <2>1, <2>6, HeldByQuietSteps
  <2>7. CASE PollReturns([i \in DOMAIN polls |-> Revents(polls[i])])
    BY <2>1, <2>7, HeldByQuietSteps
  <2> QED BY <1>3, <2>2, <2>3, <2>4, <2>5, <2>6, <2>7 DEF PollLoops
<1>4. CASE PollDispatches
  BY <1>4, HeldByDispatch
<1>5. CASE PollCallsPipeBlock
  BY <1>5, HeldByQuietSteps
<1>6. CASE PollAccepts
  BY <1>6, HeldByAccept
<1>7. CASE PollAcceptsNothing
  BY <1>7, HeldByQuietSteps
<1>8. CASE PollReads
  BY <1>8, HeldByRead
<1>9. CASE PollReleases
  BY <1>9, HeldByRelease
<1>10. CASE \E j \in BagToSet(jobs) : Run(j)
  BY <1>10, HeldByJob
<1>11. CASE \E c \in Connections : Peer(c)
  BY <1>11, HeldByQuietSteps
<1>12. CASE UNCHANGED vars
  BY <1>12, HeldByQuietSteps
<1> QED
  BY <1>1, <1>2, <1>3, <1>4, <1>5, <1>6, <1>7, <1>8, <1>9, <1>10, <1>11, <1>12
     DEF Next, PollThread

\* The types.
LEMMA TypesStep ==
  ASSUME ServerInv, [Next]_vars
  PROVE  TypeOK'
<1>1. CASE UNCHANGED vars
  <2>1. TypeOK
    BY DEF ServerInv, RetainCountExact
  <2> QED BY <1>1, <2>1 DEF vars, pollVars, connVars, connVarsButMain, netVars, TypeOK
<1> QED BY <1>1, MainAndPeerTypes, PollThreadTypes, JobStepTypes DEF Next

\* At the start there are no entries, updates or jobs, and nobody has a descriptor.
LEMMA ServerInit ==
  ASSUME Init
  PROVE  ServerInv
<1>1. /\ polls = <<>> /\ updates = <<>> /\ DOMAIN polls = {} /\ DOMAIN updates = {}
      /\ polls \in Seq(Updates) /\ updates \in Seq(Updates)
  BY DEF Init, PollInit
<1>2. IsABag(jobs) /\ BagToSet(jobs) = {} /\ jobs = [e \in {} |-> 1]
  <2>1. jobs = [e \in {} |-> 1]
    BY DEF Init, EmptyBag, SetToBag
  <2> QED BY <2>1 DEF IsABag, BagToSet
<1>3. TypeOK
  BY <1>1, <1>2, WebPollAssumption, HTTPServerAssumption DEF TypeOK, Init, PollInit
<1>4. \A c : /\ Capturing(updates, c) = {} /\ Capturing(polls, c) = {} /\ Armed(c) = {}
             /\ Blocks(c) = {} /\ AtWork(c) = {} /\ CopiesOf(jobs, c) = {}
  BY <1>1, <1>2 DEF Capturing, Armed, Blocks, AtWork, CopiesOf, BlocksOf
<1>5. \A c \in Connections : WellHeld(c)
  <2> SUFFICES ASSUME NEW c \in Connections PROVE WellHeld(c)
    OBVIOUS
  <2>1. Cardinality({}) = 0
    BY FS_EmptySet
  <2>2. /\ retainCount[c] = 0 /\ accepting # c
        /\ ~Creating(c) /\ ~Fired(c)
    BY Constants DEF Init, PollInit, Creating, Fired
  <2>3. Exact(c)
    BY <1>4, <2>1, <2>2 DEF Exact
  <2>4. Alone(c) /\ HasDescriptor(c)
    BY <1>4, <2>2 DEF Alone, HasDescriptor
  <2> QED BY <2>3, <2>4 DEF WellHeld
<1>6. RetainCountExact /\ InvAlone /\ InvDescriptor
  BY <1>3, <1>5, HeldIsExact
<1>7. SocketIsOwn
  BY DEF Init, SocketIsOwn
<1>8. InvQueueOrder /\ InvEntries /\ InvWakeup
  BY <1>1 DEF InvQueueOrder, InvEntries, InvWakeup
<1>9. InvArmed
  BY <1>1 DEF InvArmed
<1>10. InvLifetime
  <2>1. IsFiniteSet(BagToSet(jobs))
    BY <1>2, FS_EmptySet
  <2> QED BY <1>2, <2>1 DEF InvLifetime, Init, PollInit
<1> QED BY <1>6, <1>7, <1>8, <1>9, <1>10 DEF ServerInv

\* Every step keeps the invariant.
LEMMA ServerStep ==
  ASSUME ServerInv, [Next]_vars
  PROVE  ServerInv'
<1>1. TypeOK'
  BY TypesStep
<1>2. Held'
  BY <1>1, HeldStep
<1>3. RetainCountExact' /\ InvAlone' /\ InvDescriptor'
  <2>1. \A c \in Connections : Exact(c)' /\ Alone(c)' /\ HasDescriptor(c)'
    BY <1>2 DEF Held, WellHeld
  <2>2. \A c \in Connections : Copies(Blocks(c))' = CopiesOf(jobs, c)'
    BY DEF Copies, Blocks, CopiesOf, BlocksOf
  <2>3. RetainCountExact'
    BY <1>1, <2>1, <2>2 DEF Exact, RetainCountExact
  <2> QED BY <2>1, <2>3 DEF InvAlone, InvDescriptor
<1>4. InvQueueOrder' /\ InvEntries' /\ InvArmed'
  BY <1>2 DEF Held
<1>5. SocketIsOwn' /\ InvLifetime' /\ InvWakeup'
  <2>1. CASE Next
    BY <2>1, OwnersStep, LifetimeStep, WakeupStep
  <2>2. CASE UNCHANGED vars
    <3>1. SocketIsOwn'
      BY <2>2 DEF vars, connVars, connVarsButMain, netVars, ServerInv, SocketIsOwn
    <3>2. InvLifetime'
      BY <2>2 DEF vars, pollVars, connVars, connVarsButMain, netVars, ServerInv, InvLifetime
    <3>3. InvWakeup'
      BY <2>2 DEF vars, pollVars, connVars, connVarsButMain, ServerInv, InvWakeup, Announced
    <3> QED BY <3>1, <3>2, <3>3
  <2> QED BY <2>1, <2>2
<1> QED BY <1>3, <1>4, <1>5 DEF ServerInv

\* The parts of the invariant that are properties of the runs.
LEMMA Consequences ==
  ASSUME ServerInv
  PROVE  OneAtATime /\ NoStaleEntry /\ NoLostWakeup
<1>0. TypeOK
  BY DEF ServerInv, RetainCountExact
<1>1. OneAtATime
  <2> SUFFICES ASSUME NEW c \in Connections
               PROVE  Cardinality(Capturing(updates, c)) + Cardinality(Armed(c))
                        + Cardinality(Copies(AtWork(c))) + (IF Creating(c) THEN 1 ELSE 0) <= 1
    BY DEF OneAtATime
  <2> DEFINE u == Cardinality(Capturing(updates, c))
  <2> DEFINE a == Cardinality(Armed(c))
  <2> DEFINE w == Cardinality(Copies(AtWork(c)))
  <2>1. Alone(c)
    BY DEF ServerInv, InvAlone
  <2>2. /\ u \in Nat /\ (u = 0 <=> Capturing(updates, c) = {})
        /\ (u <= 1 <=> \A k, m \in Capturing(updates, c) : k = m)
    BY References, AtMostOne
  <2>3. /\ a \in Nat /\ (a = 0 <=> Armed(c) = {})
        /\ (a <= 1 <=> \A i, m \in Armed(c) : i = m)
    <3>1. IsFiniteSet(Armed(c))
      <4>1. Armed(c) \subseteq Capturing(polls, c) /\ IsFiniteSet(Capturing(polls, c))
        BY References DEF Armed
      <4> QED BY <4>1, FS_Subset
    <3> QED BY <3>1, AtMostOne
  <2>4. w \in Nat /\ w <= 1 /\ (w # 0 => AtWork(c) # {})
    <3>1. CASE AtWork(c) = {}
      <4>1. Copies(AtWork(c)) = {}
        BY <3>1 DEF Copies
      <4> QED BY <4>1, FS_EmptySet
    <3>2. CASE AtWork(c) # {}
      <4>1. PICK j \in AtWork(c) : TRUE
        BY <3>2
      <4>2. AtWork(c) = {j} /\ jobs[j] = 1
        BY <4>1, SoleWorker
      <4>3. 1..1 = {1}
        OBVIOUS
      <4>4. Copies(AtWork(c)) = {<<j, 1>>}
        BY <4>2, <4>3 DEF Copies
      <4>5. Cardinality(Copies(AtWork(c))) = 1
        BY <4>4, FS_Singleton
      <4> QED BY <3>2, <4>5
    <3> QED BY <3>1, <3>2
  <2>5. /\ u # 0 => a = 0 /\ w = 0 /\ ~Creating(c)
        /\ a # 0 => w = 0 /\ ~Creating(c)
        /\ w # 0 => ~Creating(c)
        /\ u <= 1 /\ a <= 1
    BY <2>1, <2>2, <2>3, <2>4 DEF Alone
  <2> HIDE DEF u, a, w
  <2>6. u + a + w + (IF Creating(c) THEN 1 ELSE 0) <= 1
    BY <2>2, <2>3, <2>4, <2>5
  <2> QED BY <2>6 DEF u, a, w
<1>2. NoStaleEntry
  <2> SUFFICES ASSUME NEW i \in DOMAIN polls, polls[i].block \in Connections,
                      \/ thread = "poll"
                      \/ thread = "scan" /\ i >= cursor /\ polls[i].revents # "none"
               PROVE  owner[polls[i].fd] = polls[i].block
    BY Zenon DEF NoStaleEntry
  <2> DEFINE c == polls[i].block
  <2>1. i >= FirstUnfired
    <3>1. DOMAIN polls = 1..Len(polls)
      BY <1>0, EntryTypes
    <3>2. thread = "poll" => cursor = 1
      BY DEF ServerInv, InvLifetime
    <3> QED BY <3>1, <3>2 DEF FirstUnfired
  <2>2. i \in Armed(c)
    BY <2>1 DEF ServerInv, InvArmed, Armed, Capturing
  <2>3. polls[i].fd = socket[c]
    BY <2>2 DEF ServerInv, InvDescriptor, HasDescriptor
  <2>4. polls[i].fd # None
    BY <1>0, EntryTypes, Constants DEF Updates
  <2> QED BY <2>3, <2>4 DEF ServerInv, SocketIsOwn
<1>3. NoLostWakeup
  BY DEF ServerInv, InvWakeup, NoLostWakeup
<1> QED BY <1>1, <1>2, <1>3

\* The invariant holds of every state the server can get into.
THEOREM ServerInvariant == Spec => []ServerInv
<1>1. Init => ServerInv
  BY ServerInit
<1>2. ServerInv /\ [Next]_vars => ServerInv'
  BY ServerStep
<1> QED BY <1>1, <1>2, PTL DEF Spec

\* retainCount is the number of references to a connection, whichever updates, entries and
\* blocks hold them: no connection is freed in use, none is kept when nobody uses it.
THEOREM ReferencesAreCounted == Spec => []RetainCountExact
<1>1. ServerInv => RetainCountExact
  BY DEF ServerInv
<1> QED BY <1>1, ServerInvariant, PTL

\* A descriptor is open exactly as long as one connection believes that it has it.
THEOREM SocketsAreOwn == Spec => []SocketIsOwn
<1>1. ServerInv => SocketIsOwn
  BY DEF ServerInv
<1> QED BY <1>1, ServerInvariant, PTL

\* Whoever works on a connection works on it alone.
THEOREM WorksAlone == Spec => []OneAtATime
<1>1. ServerInv => OneAtATime
  BY Consequences
<1> QED BY <1>1, ServerInvariant, PTL

\* What poll() is asked about, and what is looked at after it, is never the descriptor of
\* somebody else.
THEOREM EntriesAreFresh == Spec => []NoStaleEntry
<1>1. ServerInv => NoStaleEntry
  BY Consequences
<1> QED BY <1>1, ServerInvariant, PTL

\* The thread does not sleep in poll() over an update that nobody tells it of.
THEOREM WakeupsArrive == Spec => []NoLostWakeup
<1>1. ServerInv => NoLostWakeup
  BY Consequences
<1> QED BY <1>1, ServerInvariant, PTL

------------------------------
(* Texts. *)

\* The bytes of a part.
LEMMA BytesAre ==
  ASSUME NEW p \in Parts, NEW n \in Nat
  PROVE  /\ Bytes(p, n) \in Seq(Alphabet) /\ Len(Bytes(p, n)) = n
         /\ DOMAIN Bytes(p, n) = 1..n /\ \A i \in 1..n : Bytes(p, n)[i] = <<p, i>>
<1>1. Bytes(p, n) = [i \in 1..n |-> <<p, i>>]
  BY DEF Bytes
<1>2. \A i \in 1..n : <<p, i>> \in Alphabet
  BY DEF Alphabet
<1>3. Bytes(p, n) \in [1..n -> Alphabet]
  BY <1>1, <1>2
<1>4. Bytes(p, n) \in Seq(Alphabet)
  BY <1>3, SeqDef
<1> QED BY <1>1, <1>4, LenProperties

\* Some bytes of a part, and those that follow.
LEMMA BytesGoOn ==
  ASSUME NEW p \in Parts, NEW n \in Nat, NEW s \in Nat
  PROVE  /\ [i \in 1..s |-> <<p, n + i>>] \in Seq(Alphabet)
         /\ Bytes(p, n) \o [i \in 1..s |-> <<p, n + i>>] = Bytes(p, n + s)
<1> DEFINE t == [i \in 1..s |-> <<p, n + i>>]
<1>1. t \in Seq(Alphabet) /\ Len(t) = s
  <2>1. \A i \in 1..s : <<p, n + i>> \in Alphabet
    BY DEF Alphabet
  <2>2. t \in [1..s -> Alphabet]
    BY <2>1
  <2> QED BY <2>2, SeqDef, LenProperties
<1>2. /\ Bytes(p, n) \in Seq(Alphabet) /\ Len(Bytes(p, n)) = n
      /\ \A i \in 1..n : Bytes(p, n)[i] = <<p, i>>
  BY BytesAre
<1>3. /\ Bytes(p, n + s) \in Seq(Alphabet) /\ Len(Bytes(p, n + s)) = n + s
      /\ \A i \in 1..(n + s) : Bytes(p, n + s)[i] = <<p, i>>
  BY BytesAre
<1>4. \A i \in 1..s : t[i] = <<p, n + i>>
  OBVIOUS
<1> HIDE DEF t
<1>5. /\ Bytes(p, n) \o t \in Seq(Alphabet) /\ Len(Bytes(p, n) \o t) = n + s
      /\ \A i \in 1..(n + s) : (Bytes(p, n) \o t)[i] =
                                 IF i <= n THEN Bytes(p, n)[i] ELSE t[i - n]
  <2>1. /\ Bytes(p, n) \o t \in Seq(Alphabet)
        /\ Len(Bytes(p, n) \o t) = Len(Bytes(p, n)) + Len(t)
        /\ \A i \in 1..(Len(Bytes(p, n)) + Len(t)) :
             (Bytes(p, n) \o t)[i] =
               IF i <= Len(Bytes(p, n)) THEN Bytes(p, n)[i] ELSE t[i - Len(Bytes(p, n))]
    BY <1>1, <1>2, ConcatProperties
  <2> QED BY <1>1, <1>2, <2>1
<1>6. \A i \in 1..(n + s) : (Bytes(p, n) \o t)[i] = <<p, i>>
  <2> SUFFICES ASSUME NEW i \in 1..(n + s) PROVE (Bytes(p, n) \o t)[i] = <<p, i>>
    OBVIOUS
  <2>1. CASE i <= n
    BY <1>2, <1>5, <2>1
  <2>2. CASE ~ (i <= n)
    <3>1. i - n \in 1..s /\ n + (i - n) = i
      BY <2>2
    <3> QED BY <1>4, <1>5, <2>2, <3>1
  <2> QED BY <2>1, <2>2
<1>7. Bytes(p, n) \o t = Bytes(p, n + s)
  BY <1>3, <1>5, <1>6, SeqEqual
<1> QED BY <1>1, <1>7 DEF t

\* How one sequence starts another.
LEMMA StartsFacts ==
  /\ \A s \in Seq(Alphabet) : Starts(s, s)
  /\ \A s, t, u \in Seq(Alphabet) : Starts(s, t) /\ Starts(t, u) => Starts(s, u)
  /\ \A b, s, t \in Seq(Alphabet) : Starts(s, t) => Starts(b \o s, b \o t)
  /\ \A s, t \in Seq(Alphabet) : Starts(s, s \o t)
<1>1. ASSUME NEW s \in Seq(Alphabet), NEW t \in Seq(Alphabet) PROVE Starts(s, s \o t)
  BY DEF Starts
<1>2. ASSUME NEW s \in Seq(Alphabet) PROVE Starts(s, s)
  <2>1. s = s \o <<>> /\ <<>> \in Seq(Alphabet)
    BY ConcatEmptySeq, EmptySeq
  <2> QED BY <2>1 DEF Starts
<1>3. ASSUME NEW s \in Seq(Alphabet), NEW t \in Seq(Alphabet), NEW u \in Seq(Alphabet),
             Starts(s, t), Starts(t, u)
      PROVE  Starts(s, u)
  <2>1. PICK v \in Seq(Alphabet) : t = s \o v
    BY <1>3 DEF Starts
  <2>2. PICK w \in Seq(Alphabet) : u = t \o w
    BY <1>3 DEF Starts
  <2>3. u = s \o (v \o w) /\ v \o w \in Seq(Alphabet)
    BY <2>1, <2>2, ConcatAssociative, ConcatProperties
  <2> QED BY <2>3 DEF Starts
<1>4. ASSUME NEW b \in Seq(Alphabet), NEW s \in Seq(Alphabet), NEW t \in Seq(Alphabet), Starts(s, t)
      PROVE  Starts(b \o s, b \o t)
  <2>1. PICK v \in Seq(Alphabet) : t = s \o v
    BY <1>4 DEF Starts
  <2>2. b \o t = (b \o s) \o v
    BY <2>1, ConcatAssociative
  <2> QED BY <2>2 DEF Starts
<1> QED BY <1>1, <1>2, <1>3, <1>4

\* Then it is a prefix of it.
LEMMA StartsIsPrefix ==
  ASSUME NEW s \in Seq(Alphabet), NEW t \in Seq(Alphabet), Starts(s, t)
  PROVE  IsPrefix(s, t)
<1>1. PICK u \in Seq(Alphabet) : t = s \o u
  BY DEF Starts
<1>2. Len(s) <= Len(t) /\ Len(s) \in Nat
  BY <1>1, ConcatProperties, LenProperties
<1>3. SubSeq(t, 1, Len(s)) = s
  BY <1>1, ConcatSimplifications, SubSeqOfConcat1, SubSeqFull, LenProperties
<1>4. SubSeq(s, 1, Len(s)) = s
  BY SubSeqFull
<1> QED BY <1>2, <1>3, <1>4 DEF IsPrefix

------------------------------
(* The headers one after the other. *)

\* The text of a header.
LEMMA HeaderTextIs ==
  ASSUME NEW n \in Nat
  PROVE  HeaderText(n) \in Seq(Alphabet)
<1>1. \A name \in {"key", "delimiter", "value", "line end"} : HeaderPart(name, n) \in Parts
  BY DEF HeaderPart, Parts
<1>2. \A name \in {"key", "delimiter", "value", "line end"} :
        Bytes(HeaderPart(name, n), StringSize) \in Seq(Alphabet)
  BY <1>1, BytesAre, HTTPResponseAssumption
<1> QED BY <1>2, ConcatProperties DEF HeaderText

\* The first headers, and one more.
LEMMA FirstHeadersAre ==
  ASSUME NEW n \in Nat
  PROVE  /\ FirstHeaders(n) \in Seq(Alphabet)
         /\ n = 0 => FirstHeaders(n) = <<>>
         /\ FirstHeaders(n + 1) = FirstHeaders(n) \o HeaderText(n + 1)
<1> DEFINE N == n + 1
<1> DEFINE h == [m \in 1..N |-> HeaderText(m)]
<1>1. h \in [1..N -> Seq(Alphabet)]
  BY HeaderTextIs
<1>2. N \in Nat /\ N > 0 /\ \A k \in 1..N : k \in Nat
  OBVIOUS
<1>5. h[n + 1] = HeaderText(n + 1) /\ h[1] = HeaderText(1)
  OBVIOUS
<1>a. \A k \in 1..N : [i \in 1..k |-> h[i]] = [i \in 1..k |-> HeaderText(i)]
  OBVIOUS
<1> HIDE DEF h, N
<1>b. PICK f \in [1..N -> Seq(Alphabet)] : Flattens(f, h, N)
  BY ONLY <1>1, <1>2, FlattenIs
<1>3. /\ \A i \in 1..N : f[i] = IF i = 1 THEN h[i] ELSE f[i - 1] \o h[i]
      /\ \A k \in 1..N : FlattenSeq([i \in 1..k |-> h[i]]) = f[k]
  BY <1>b DEF Flattens
<1>4. \A k \in 1..N : FirstHeaders(k) = f[k]
  BY <1>3, <1>a DEF FirstHeaders
<1> USE DEF N
<1>6. CASE n = 0
  <2>1. FirstHeaders(n) = <<>>
    <3>1. [m \in 1..n |-> HeaderText(m)] = <<>>
      BY <1>6
    <3>2. Len(<<>>) = 0
      BY EmptySeq
    <3> QED BY <3>1, <3>2 DEF FirstHeaders, FlattenSeq
  <2>2. FirstHeaders(n + 1) = HeaderText(n + 1)
    BY <1>3, <1>4, <1>5, <1>6
  <2>3. HeaderText(n + 1) \in Seq(Alphabet)
    BY HeaderTextIs
  <2>4. <<>> \in Seq(Alphabet) /\ <<>> \o HeaderText(n + 1) = HeaderText(n + 1)
    BY <2>3, EmptySeq, ConcatEmptySeq
  <2> QED BY <2>1, <2>2, <2>4
<1>7. CASE n # 0
  <2>1. n \in 1..(n + 1) /\ n + 1 \in 1..(n + 1) /\ n + 1 # 1 /\ (n + 1) - 1 = n
    BY <1>7
  <2>2. FirstHeaders(n + 1) = FirstHeaders(n) \o HeaderText(n + 1)
    BY <1>3, <1>4, <1>5, <2>1
  <2> QED BY <1>3, <1>4, <1>7, <2>1, <2>2
<1> QED BY <1>6, <1>7

\* Fewer headers are the beginning of more.
LEMMA FirstHeadersStart ==
  ASSUME NEW n \in Nat, NEW k \in 0..n
  PROVE  Starts(FirstHeaders(k), FirstHeaders(n))
<1> DEFINE Bad == {d \in 0..n : k + d <= n /\ ~ Starts(FirstHeaders(k), FirstHeaders(k + d))}
<1>1. ASSUME Bad # {} PROVE FALSE
  <2>0. Bad \subseteq Nat /\ \A d \in 0..n : k + d <= n /\ d \notin Bad =>
                                          Starts(FirstHeaders(k), FirstHeaders(k + d))
    OBVIOUS
  <2>1. PICK d \in Bad : \A e \in Bad : d <= e
    BY <1>1, <2>0, LeastMember
  <2>2. d \in 0..n /\ k + d <= n /\ ~ Starts(FirstHeaders(k), FirstHeaders(k + d))
    OBVIOUS
  <2> HIDE DEF Bad
  <2>3. FirstHeaders(k) \in Seq(Alphabet) /\ FirstHeaders(k + d) \in Seq(Alphabet)
    BY <2>2, FirstHeadersAre
  <2>4. d # 0
    <3>1. k + 0 = k
      OBVIOUS
    <3> QED BY <2>2, <2>3, <3>1, StartsFacts
  <2> DEFINE m == k + (d - 1)
  <2>5. d - 1 \in 0..n /\ ~ (d <= d - 1) /\ m \in Nat /\ m + 1 = k + d /\ m <= n
        /\ m = k + (d - 1) /\ m + 1 \in Nat
    BY <2>2, <2>4
  <2> HIDE DEF m
  <2>6. Starts(FirstHeaders(k), FirstHeaders(m))
    BY <2>0, <2>1, <2>5
  <2>7. /\ FirstHeaders(m + 1) = FirstHeaders(m) \o HeaderText(m + 1)
        /\ FirstHeaders(m) \in Seq(Alphabet) /\ HeaderText(m + 1) \in Seq(Alphabet)
    BY <2>5, FirstHeadersAre, HeaderTextIs
  <2>8. Starts(FirstHeaders(m), FirstHeaders(m + 1))
    BY <2>7, StartsFacts
  <2>9. FirstHeaders(m + 1) = FirstHeaders(k + d)
    BY <2>5
  <2> QED BY <2>2, <2>3, <2>6, <2>7, <2>8, <2>9, StartsFacts
<1>2. n - k \in 0..n /\ k + (n - k) = n /\ n <= n
  OBVIOUS
<1> QED BY <1>1, <1>2

------------------------------
(* Responses. *)

\* The constants are numbers.
LEMMA SizesAre ==
  /\ Headers \in Nat /\ Headers > 0 /\ StringSize \in Nat /\ StringSize > 0
  /\ \A body \in Bodies : BodySize(body) \in Nat
<1>1. FileSize \in Nat /\ StringSize \in Nat
  BY HTTPResponseAssumption
<1> QED BY <1>1, HTTPResponseAssumption DEF BodySize

\* That is what a response is.
LEMMA ResponseFields ==
  ASSUME NEW r \in Responses
  PROVE  /\ r \in ResponseRecords /\ Numbers(r) /\ Stands(r)
         /\ r.status = "headers end" <=> r.iter = Headers + 1
<1>1. r \in ResponseRecords
  BY DEF Responses
<1>2. /\ r.retainCount > 0 /\ r.sentBytes < StringSize
      /\ r.fileOffset <= BodySize(r.body)
  BY DEF Responses
<1>3. r.extra \in {"none", r.sendStatus} /\ (r.status = "headers end" <=> r.iter = Headers + 1)
  BY DEF Responses
<1>4. r.body \in Bodies /\ r.retainCount \in Nat /\ r.sentBytes \in Nat /\ r.fileOffset \in Nat
  BY <1>1 DEF ResponseRecords
<1>5. /\ r.sendStatus \in {"not started", "status line", "headers", "body", "complete"}
      /\ r.extra \in {"none", "status line", "headers", "body"}
  BY <1>1 DEF ResponseRecords
<1>6. r.status \in {"key", "delimiter", "value", "line end", "headers end"}
  BY <1>1 DEF ResponseRecords
<1>7. r.iter \in Nat /\ r.iter >= 1 /\ r.iter <= Headers + 1
  <2>1. r.iter \in 1..(Headers + 1)
    BY <1>1 DEF ResponseRecords
  <2> QED BY <2>1, SizesAre
<1>8. BodySize(r.body) \in Nat
  BY <1>4, SizesAre
<1>9. Numbers(r)
  BY <1>2, <1>4, <1>7, <1>8 DEF Numbers
<1>10. Stands(r)
  BY <1>3, <1>4, <1>5, <1>6 DEF Stands
<1> QED BY <1>1, <1>3, <1>9, <1>10

\* Beginning a stage, unless it has begun.
LEMMA Beginning ==
  ASSUME NEW r \in Responses, r.sendStatus # "complete"
  PROVE  /\ Underway(Begun(r)) /\ Begun(r).body = r.body /\ Begun(r).retainCount = r.retainCount
         /\ r.extra # "none" => Begun(r) = r
         /\ r.extra = "none" =>
              /\ Begun(r).sendStatus = IF r.sendStatus = "not started" THEN "status line"
                                       ELSE r.sendStatus
              /\ Begun(r).sentBytes = 0 /\ Begun(r).fileOffset = 0
              /\ Begun(r).status = "key" /\ Begun(r).iter = 1
<1>f. r \in ResponseRecords /\ Numbers(r) /\ Stands(r)
  BY ResponseFields
<1> DEFINE stage == IF r.sendStatus = "not started" THEN "status line" ELSE r.sendStatus
<1>1. CASE r.extra # "none"
  <2>1. r.extra = r.sendStatus /\ stage = r.sendStatus /\ r.extra # "not started"
    BY <1>1, <1>f DEF Stands
  <2>2. Begun(r) = [r EXCEPT !.sendStatus = stage]
    BY <1>1 DEF Begun
  <2>3. Begun(r) = r
    BY <2>1, <2>2, <1>f DEF ResponseRecords
  <2> QED BY <1>1, <1>f, <2>1, <2>3 DEF Underway, Stands
<1>2. CASE r.extra = "none"
  <2>1. stage \in {"status line", "headers", "body"}
    BY <1>f DEF Stands
  <2>2. Begun(r) = [r EXCEPT !.sendStatus = stage, !.extra = stage, !.sentBytes = 0,
                             !.status = "key", !.iter = 1, !.fileOffset = 0]
    BY <1>2 DEF Begun
  <2> HIDE DEF stage
  <2>3. /\ Begun(r).body = r.body /\ Begun(r).retainCount = r.retainCount
        /\ Begun(r).sendStatus = stage /\ Begun(r).extra = stage
        /\ Begun(r).sentBytes = 0 /\ Begun(r).fileOffset = 0
        /\ Begun(r).status = "key" /\ Begun(r).iter = 1
    BY <2>1, <2>2, <1>f DEF ResponseRecords
  <2>4. Begun(r) \in ResponseRecords
    <3>1. 1 \in 1..(Headers + 1)
      BY SizesAre
    <3>2. [r EXCEPT !.sendStatus = stage, !.extra = stage, !.sentBytes = 0] \in ResponseRecords
      BY <2>1, <1>f DEF ResponseRecords
    <3>3. ASSUME NEW q \in ResponseRecords
          PROVE  [q EXCEPT !.status = "key", !.iter = 1, !.fileOffset = 0] \in ResponseRecords
      BY <3>1 DEF ResponseRecords
    <3> QED BY <2>2, <3>2, <3>3
  <2>5. Begun(r) \in Responses
    <3>1. /\ Begun(r).retainCount > 0 /\ 0 < StringSize /\ 1 # Headers + 1
          /\ 0 <= BodySize(Begun(r).body)
      BY <2>3, <1>f, SizesAre DEF Numbers
    <3> QED BY <2>3, <2>4, <3>1 DEF Responses
  <2> QED BY <1>2, <2>1, <2>3, <2>5 DEF Underway, stage
<1> QED BY <1>1, <1>2

\* The current part of a response, and how much of it is left.
LEMMA CurrentParts ==
  ASSUME NEW q, Underway(q)
  PROVE  /\ CurrentPart(q) \in Parts /\ Before(q) \in Seq(Alphabet)
         /\ Remaining(q) \in Nat /\ Offset(q) \in Nat /\ PartSize(q) \in Nat
         /\ Offset(q) + Remaining(q) = PartSize(q)
         /\ ~SendsFile(q) => Remaining(q) > 0
         /\ Whole(q) \in Seq(Alphabet)
<1>1. q \in Responses /\ q.sendStatus \in {"status line", "headers", "body"}
  BY DEF Underway
<1>f. q \in ResponseRecords /\ Numbers(q) /\ Stands(q)
  BY <1>1, ResponseFields
<1>g. q.iter \in Nat /\ q.iter - 1 \in Nat /\ Headers \in Nat
  BY <1>f, SizesAre DEF Numbers
<1>2. CurrentPart(q) \in Parts
  <2>1. q.status \in {"key", "delimiter", "value", "line end", "headers end"}
    BY <1>f DEF Stands
  <2> QED BY <1>1, <1>g, <2>1 DEF CurrentPart, Part, HeaderPart, Parts
<1>3. /\ Remaining(q) \in Nat /\ Offset(q) \in Nat /\ PartSize(q) \in Nat
      /\ Offset(q) + Remaining(q) = PartSize(q)
      /\ ~SendsFile(q) => Remaining(q) > 0
  BY <1>f, SizesAre DEF Remaining, Offset, PartSize, Numbers
<1>4. Before(q) \in Seq(Alphabet)
  <2>1. /\ StatusLine \in Seq(Alphabet) /\ HeadersEnd \in Seq(Alphabet)
        /\ \A name \in {"key", "delimiter", "value", "line end"} :
             Bytes(HeaderPart(name, q.iter), StringSize) \in Seq(Alphabet)
    <3>1. /\ Part("status line") \in Parts /\ Part("headers end") \in Parts
          /\ \A name \in {"key", "delimiter", "value", "line end"} : HeaderPart(name, q.iter) \in Parts
      BY <1>g DEF Part, HeaderPart, Parts
    <3> QED BY <3>1, BytesAre, HTTPResponseAssumption DEF StatusLine, HeadersEnd
  <2>2. FirstHeaders(q.iter - 1) \in Seq(Alphabet) /\ FirstHeaders(Headers) \in Seq(Alphabet)
    BY <1>g, FirstHeadersAre
  <2> DEFINE headers == StatusLine \o FirstHeaders(q.iter - 1)
  <2>3. headers \in Seq(Alphabet)
    BY <2>1, <2>2, ConcatProperties
  <2> HIDE DEF headers
  <2>4. /\ headers \o Bytes(HeaderPart("key", q.iter), StringSize) \in Seq(Alphabet)
        /\ headers \o Bytes(HeaderPart("key", q.iter), StringSize)
             \o Bytes(HeaderPart("delimiter", q.iter), StringSize) \in Seq(Alphabet)
        /\ headers \o Bytes(HeaderPart("key", q.iter), StringSize)
             \o Bytes(HeaderPart("delimiter", q.iter), StringSize)
             \o Bytes(HeaderPart("value", q.iter), StringSize) \in Seq(Alphabet)
    BY <2>1, <2>3, ConcatProperties
  <2>5. StatusLine \o FirstHeaders(Headers) \o HeadersEnd \in Seq(Alphabet)
    BY <2>1, <2>2, ConcatProperties
  <2>6. <<>> \in Seq(Alphabet)
    BY EmptySeq
  <2> QED BY <1>1, <2>3, <2>4, <2>5, <2>6 DEF Before, headers
<1>5. Whole(q) \in Seq(Alphabet)
  BY <1>2, <1>3, <1>4, BytesAre, ConcatProperties DEF Whole
<1> QED BY <1>2, <1>3, <1>4, <1>5

\* The bytes that are taken of a part go on where what was sent ends.
LEMMA TakenGoesOn ==
  ASSUME NEW q, Underway(q), NEW s \in 0..Remaining(q)
  PROVE  /\ SentBy(q) \in Seq(Alphabet) /\ Taken(q, s) \in Seq(Alphabet)
         /\ SentBy(q) \o Taken(q, s) = Before(q) \o Bytes(CurrentPart(q), Offset(q) + s)
         /\ Starts(SentBy(q) \o Taken(q, s), Whole(q))
         /\ s = Remaining(q) => SentBy(q) \o Taken(q, s) = Whole(q)
<1> DEFINE p == CurrentPart(q)
<1> DEFINE n == Offset(q)
<1>1. /\ p \in Parts /\ Before(q) \in Seq(Alphabet) /\ n \in Nat /\ Remaining(q) \in Nat
      /\ n + Remaining(q) = PartSize(q)
  BY CurrentParts
<1>2. s \in Nat /\ n + s \in Nat /\ Remaining(q) - s \in Nat
      /\ (n + s) + (Remaining(q) - s) = PartSize(q)
  BY <1>1
<1>3. SentBy(q) = Before(q) \o Bytes(p, n) /\ Taken(q, s) = [i \in 1..s |-> <<p, n + i>>]
      /\ Whole(q) = Before(q) \o Bytes(p, PartSize(q))
  BY DEF SentBy, Taken, Whole
<1> HIDE DEF p, n
<1>4. Bytes(p, n) \in Seq(Alphabet) /\ Bytes(p, n + s) \in Seq(Alphabet)
  BY <1>1, <1>2, BytesAre
<1>5. Taken(q, s) \in Seq(Alphabet) /\ Bytes(p, n) \o Taken(q, s) = Bytes(p, n + s)
  <2>1. /\ [i \in 1..s |-> <<p, n + i>>] \in Seq(Alphabet)
        /\ Bytes(p, n) \o [i \in 1..s |-> <<p, n + i>>] = Bytes(p, n + s)
    BY <1>1, <1>2, BytesGoOn
  <2> QED BY <2>1, <1>3
<1>6. SentBy(q) \in Seq(Alphabet)
  BY <1>1, <1>3, <1>4, ConcatProperties
<1>7. SentBy(q) \o Taken(q, s) = Before(q) \o Bytes(p, n + s)
  <2>1. (Before(q) \o Bytes(p, n)) \o Taken(q, s) = Before(q) \o (Bytes(p, n) \o Taken(q, s))
    <3>1. Before(q) \in Seq(Alphabet) /\ Bytes(p, n) \in Seq(Alphabet) /\ Taken(q, s) \in Seq(Alphabet)
      BY <1>1, <1>4, <1>5
    <3> QED BY ONLY <3>1, ConcatAssociative
  <2> QED BY <1>3, <1>5, <2>1
<1>8. Starts(Bytes(p, n + s), Bytes(p, PartSize(q)))
  <2> DEFINE m == n + s
  <2> DEFINE d == Remaining(q) - s
  <2>1. m \in Nat /\ d \in Nat /\ m + d = PartSize(q)
    BY <1>2
  <2> HIDE DEF d, m
  <2>2. /\ [i \in 1..d |-> <<p, m + i>>] \in Seq(Alphabet)
        /\ Bytes(p, m) \o [i \in 1..d |-> <<p, m + i>>] = Bytes(p, m + d)
    BY <1>1, <2>1, BytesGoOn
  <2>3. Starts(Bytes(p, m), Bytes(p, PartSize(q)))
    BY <2>1, <2>2 DEF Starts
  <2> QED BY <2>3 DEF m
<1>9. Bytes(p, PartSize(q)) \in Seq(Alphabet)
  BY <1>1, BytesAre, CurrentParts
<1>10. Starts(SentBy(q) \o Taken(q, s), Whole(q))
  <2>1. Starts(Before(q) \o Bytes(p, n + s), Before(q) \o Bytes(p, PartSize(q)))
    BY ONLY <1>1, <1>4, <1>8, <1>9, StartsFacts
  <2> QED BY <1>3, <1>7, <2>1
<1>11. s = Remaining(q) => n + s = PartSize(q)
  BY <1>1
<1> QED BY <1>3, <1>5, <1>6, <1>7, <1>10, <1>11 DEF p, n

\* The whole text of an answer, in the two ways that the server reaches its ends.
LEMMA TextIs ==
  ASSUME NEW body \in Bodies
  PROVE  /\ Text[body] \in Seq(Alphabet)
         /\ StatusLine \in Seq(Alphabet) /\ HeadersEnd \in Seq(Alphabet)
         /\ StatusLine \o FirstHeaders(Headers) \o HeadersEnd \in Seq(Alphabet)
         /\ Bytes(Part("body"), BodySize(body)) \in Seq(Alphabet)
         /\ Text[body] = StatusLine \o FirstHeaders(Headers) \o HeadersEnd
                           \o Bytes(Part("body"), BodySize(body))
         /\ Starts(StatusLine, Text[body])
         /\ Starts(StatusLine \o FirstHeaders(Headers), Text[body])
         /\ Starts(StatusLine \o FirstHeaders(Headers) \o HeadersEnd, Text[body])
<1> DEFINE A == StatusLine \o FirstHeaders(Headers)
<1> DEFINE B == Bytes(Part("body"), BodySize(body))
<1>1. StatusLine \in Seq(Alphabet) /\ HeadersEnd \in Seq(Alphabet) /\ B \in Seq(Alphabet)
  <2>1. Part("status line") \in Parts /\ Part("headers end") \in Parts /\ Part("body") \in Parts
    BY DEF Part, HeaderPart, Parts
  <2>2. BodySize(body) \in Nat /\ StringSize \in Nat
    BY SizesAre
  <2> QED BY <2>1, <2>2, BytesAre DEF StatusLine, HeadersEnd
<1>2. FirstHeaders(Headers) \in Seq(Alphabet)
  BY FirstHeadersAre, SizesAre
<1>3. A \in Seq(Alphabet)
  BY <1>1, <1>2, ConcatProperties
<1>4. Text[body] = (A \o HeadersEnd) \o B
  BY DEF Text
<1>5. Starts(StatusLine, A)
  BY <1>1, <1>2, StartsFacts
<1> HIDE DEF A, B
<1>6. A \o HeadersEnd \in Seq(Alphabet)
  BY <1>1, <1>3, ConcatProperties
<1>7. Text[body] \in Seq(Alphabet)
  BY <1>1, <1>4, <1>6, ConcatProperties
<1>8. Starts(A, A \o HeadersEnd) /\ Starts(A \o HeadersEnd, Text[body])
  <2>1. Starts(A, A \o HeadersEnd)
    BY ONLY <1>1, <1>3, StartsFacts
  <2>2. Starts(A \o HeadersEnd, (A \o HeadersEnd) \o B)
    BY ONLY <1>1, <1>6, StartsFacts
  <2> QED BY <1>4, <2>1, <2>2
<1>9. Starts(A, Text[body])
  BY <1>3, <1>6, <1>7, <1>8, StartsFacts
<1>10. Starts(StatusLine, Text[body])
  BY <1>1, <1>3, <1>5, <1>7, <1>9, StartsFacts
<1> QED BY <1>1, <1>4, <1>6, <1>7, <1>8, <1>9, <1>10 DEF A, B

\* Appending is associative.
LEMMA Associative ==
  \A s, t, u \in Seq(Alphabet) : (s \o t) \o u = s \o (t \o u)
BY ConcatAssociative

\* What starts the beginning of a sequence starts the sequence.
LEMMA StartsTransitive ==
  ASSUME NEW s \in Seq(Alphabet), NEW t \in Seq(Alphabet), NEW u \in Seq(Alphabet),
         Starts(s, t), Starts(t, u)
  PROVE  Starts(s, u)
BY StartsFacts

\* A header in the text of an answer.
LEMMA HeaderInText ==
  ASSUME NEW i \in Nat, i >= 1, i <= Headers, NEW body \in Bodies
  PROVE  LET headers    == StatusLine \o FirstHeaders(i - 1)
             part(name) == Bytes(HeaderPart(name, i), StringSize)
         IN  /\ headers \in Seq(Alphabet)
             /\ \A name \in {"key", "delimiter", "value", "line end"} : part(name) \in Seq(Alphabet)
             /\ headers \o part("key") \o part("delimiter") \o part("value") \o part("line end")
                  = StatusLine \o FirstHeaders(i)
             /\ Starts(headers \o part("key") \o part("delimiter") \o part("value")
                         \o part("line end"), Text[body])
<1> DEFINE headers    == StatusLine \o FirstHeaders(i - 1)
<1> DEFINE part(name) == Bytes(HeaderPart(name, i), StringSize)
<1> DEFINE F == FirstHeaders(i - 1)
<1> DEFINE K == part("key")
<1> DEFINE D == part("delimiter")
<1> DEFINE V == part("value")
<1> DEFINE L == part("line end")
<1>1. StatusLine \in Seq(Alphabet)
  BY TextIs
<1>2. \A name \in {"key", "delimiter", "value", "line end"} : part(name) \in Seq(Alphabet)
  <2>1. \A name \in {"key", "delimiter", "value", "line end"} : HeaderPart(name, i) \in Parts
    BY DEF HeaderPart, Parts
  <2> QED BY <2>1, BytesAre, SizesAre
<1>3. F \in Seq(Alphabet) /\ FirstHeaders(i) = F \o HeaderText(i)
  <2> DEFINE m == i - 1
  <2>1. m \in Nat /\ m + 1 = i
    OBVIOUS
  <2> HIDE DEF m
  <2>2. FirstHeaders(m) \in Seq(Alphabet) /\ FirstHeaders(m + 1) = FirstHeaders(m) \o HeaderText(m + 1)
    BY <2>1, FirstHeadersAre
  <2>3. FirstHeaders(m) \in Seq(Alphabet) /\ FirstHeaders(i) = FirstHeaders(m) \o HeaderText(i)
    BY <2>1, <2>2
  <2> QED BY <2>3 DEF m
<1>4. HeaderText(i) = K \o D \o V \o L
  BY DEF HeaderText
<1>5. K \in Seq(Alphabet) /\ D \in Seq(Alphabet) /\ V \in Seq(Alphabet) /\ L \in Seq(Alphabet)
  BY <1>2
<1>6. headers \in Seq(Alphabet) /\ headers = StatusLine \o F
  BY <1>1, <1>3, ConcatProperties
<1>7. Starts(StatusLine \o FirstHeaders(i), Text[body])
  <2>1. i \in 0..Headers /\ Headers \in Nat /\ i \in Nat
    BY SizesAre
  <2>2. Starts(FirstHeaders(i), FirstHeaders(Headers))
    BY <2>1, FirstHeadersStart
  <2>3. FirstHeaders(i) \in Seq(Alphabet) /\ FirstHeaders(Headers) \in Seq(Alphabet)
    BY <2>1, FirstHeadersAre
  <2>4. Starts(StatusLine \o FirstHeaders(i), StatusLine \o FirstHeaders(Headers))
    BY ONLY <1>1, <2>2, <2>3, StartsFacts
  <2>5. /\ StatusLine \o FirstHeaders(i) \in Seq(Alphabet)
        /\ StatusLine \o FirstHeaders(Headers) \in Seq(Alphabet)
    BY <1>1, <2>3, ConcatProperties
  <2>6. Text[body] \in Seq(Alphabet) /\ Starts(StatusLine \o FirstHeaders(Headers), Text[body])
    BY TextIs
  <2> QED BY ONLY <2>4, <2>5, <2>6, StartsFacts
<1> HIDE DEF F, K, D, V, L, headers
<1>8. headers \o K \o D \o V \o L = headers \o (K \o D \o V \o L)
  <2>1. /\ headers \o K \in Seq(Alphabet) /\ headers \o K \o D \in Seq(Alphabet)
        /\ D \o V \in Seq(Alphabet) /\ K \o D \in Seq(Alphabet) /\ K \o D \o V \in Seq(Alphabet)
    BY <1>5, <1>6, ConcatProperties
  <2>2. (headers \o K) \o D = headers \o (K \o D)
    BY ONLY <1>5, <1>6, Associative
  <2> DEFINE KD  == K \o D
  <2> DEFINE KDV == K \o D \o V
  <2>s. KD \in Seq(Alphabet) /\ KDV \in Seq(Alphabet) /\ headers \in Seq(Alphabet)
    BY <1>6, <2>1
  <2>d. KDV = KD \o V /\ KD = K \o D
    OBVIOUS
  <2> HIDE DEF KD, KDV
  <2>3. (headers \o KD) \o V = headers \o (KD \o V)
    <3>1. headers \in Seq(Alphabet) /\ KD \in Seq(Alphabet) /\ V \in Seq(Alphabet)
      BY <1>5, <2>s
    <3> QED BY ONLY <3>1, Associative
  <2>4. (headers \o KDV) \o L = headers \o (KDV \o L)
    <3>1. headers \in Seq(Alphabet) /\ KDV \in Seq(Alphabet) /\ L \in Seq(Alphabet)
      BY <1>5, <2>s
    <3> QED BY ONLY <3>1, Associative
  <2> QED BY <2>2, <2>3, <2>4, <2>d
<1>9. headers \o (K \o D \o V \o L) = StatusLine \o FirstHeaders(i)
  <2>1. K \o D \o V \o L \in Seq(Alphabet)
    BY <1>5, ConcatProperties
  <2>2. (StatusLine \o F) \o (K \o D \o V \o L) = StatusLine \o (F \o (K \o D \o V \o L))
    BY ONLY <1>1, <1>3, <2>1, Associative
  <2> QED BY <1>3, <1>4, <1>6, <2>2
<1> QED BY <1>2, <1>6, <1>7, <1>8, <1>9 DEF K, D, V, L, headers

\* When all of a part was sent, the answer still starts that way, and it is the whole answer
\* when the part is the body.
LEMMA WholeStarts ==
  ASSUME NEW q, Underway(q)
  PROVE  /\ Starts(Whole(q), Text[q.body])
         /\ q.sendStatus = "body" => Whole(q) = Text[q.body]
<1>1. q \in Responses /\ q.sendStatus \in {"status line", "headers", "body"}
  BY DEF Underway
<1>f. Numbers(q) /\ Stands(q)
  BY <1>1, ResponseFields
<1>g. q.status = "headers end" <=> q.iter = Headers + 1
  BY <1>1, ResponseFields
<1>h. q.iter \in Nat /\ q.iter >= 1 /\ q.iter <= Headers + 1
  BY <1>f DEF Numbers
<1>2. q.body \in Bodies /\ Text[q.body] \in Seq(Alphabet)
  BY <1>f, TextIs DEF Stands
<1>3. CASE q.sendStatus = "status line"
  <2>1. Whole(q) = <<>> \o StatusLine
    BY <1>3 DEF Whole, Before, CurrentPart, PartSize, SendsFile, StatusLine
  <2>2. StatusLine \in Seq(Alphabet) /\ Starts(StatusLine, Text[q.body])
    BY <1>2, TextIs
  <2>3. <<>> \o StatusLine = StatusLine
    BY <2>2, ConcatEmptySeq
  <2> QED BY <1>3, <2>1, <2>2, <2>3
<1>4. CASE q.sendStatus = "body"
  <2>1. PartSize(q) = BodySize(q.body)
    BY <1>4 DEF PartSize, SendsFile, BodySize
  <2>2. /\ Before(q) = StatusLine \o FirstHeaders(Headers) \o HeadersEnd
        /\ CurrentPart(q) = Part("body")
    BY <1>4 DEF Before, CurrentPart
  <2>3. Whole(q) = Text[q.body]
    BY <1>2, <2>1, <2>2, TextIs DEF Whole
  <2> QED BY <1>2, <2>3, StartsFacts
<1>5. CASE q.sendStatus = "headers" /\ q.iter = Headers + 1
  <2>1. q.iter - 1 = Headers /\ q.status = "headers end" /\ q.iter > Headers
    <3>1. q.iter = Headers + 1 /\ Headers \in Nat
      BY <1>5, SizesAre
    <3>2. q.iter - 1 = Headers /\ q.iter > Headers
      BY <3>1
    <3> QED BY <1>5, <1>g, <3>2
  <2>2. /\ Before(q) = StatusLine \o FirstHeaders(Headers)
        /\ CurrentPart(q) = Part("headers end") /\ PartSize(q) = StringSize
    BY <1>5, <2>1 DEF Before, CurrentPart, PartSize, SendsFile
  <2>3. Whole(q) = StatusLine \o FirstHeaders(Headers) \o HeadersEnd
    BY <2>2 DEF Whole, HeadersEnd
  <2> QED BY <1>2, <1>5, <2>3, TextIs
<1>6. CASE q.sendStatus = "headers" /\ q.iter # Headers + 1
  <2> DEFINE headers    == StatusLine \o FirstHeaders(q.iter - 1)
  <2> DEFINE part(name) == Bytes(HeaderPart(name, q.iter), StringSize)
  <2>1. q.iter \in Nat /\ q.iter >= 1 /\ q.iter <= Headers /\ ~ (q.iter > Headers)
    <3>1. q.iter # Headers + 1 /\ Headers \in Nat
      BY <1>6, SizesAre
    <3> QED BY <1>h, <3>1
  <2>2. /\ headers \in Seq(Alphabet)
        /\ \A name \in {"key", "delimiter", "value", "line end"} : part(name) \in Seq(Alphabet)
        /\ Starts(headers \o part("key") \o part("delimiter") \o part("value") \o part("line end"),
                  Text[q.body])
    BY <1>2, <2>1, HeaderInText
  <2>3. q.status \in {"key", "delimiter", "value", "line end"}
    BY <1>6, <1>f, <1>g DEF Stands
  <2>4. CurrentPart(q) = HeaderPart(q.status, q.iter) /\ PartSize(q) = StringSize
    BY <1>6, <2>1 DEF CurrentPart, PartSize, SendsFile
  <2>5. Whole(q) = CASE q.status = "key"       -> headers \o part("key")
                     [] q.status = "delimiter" -> headers \o part("key") \o part("delimiter")
                     [] q.status = "value"     -> headers \o part("key") \o part("delimiter")
                                                    \o part("value")
                     [] q.status = "line end"  -> headers \o part("key") \o part("delimiter")
                                                    \o part("value") \o part("line end")
    BY <1>6, <2>3, <2>4 DEF Whole, Before
  <2> DEFINE K == part("key")
  <2> DEFINE D == part("delimiter")
  <2> DEFINE V == part("value")
  <2> DEFINE L == part("line end")
  <2>6. K \in Seq(Alphabet) /\ D \in Seq(Alphabet) /\ V \in Seq(Alphabet) /\ L \in Seq(Alphabet)
    BY <2>2
  <2>7. /\ headers \in Seq(Alphabet) /\ Starts(headers \o K \o D \o V \o L, Text[q.body])
        /\ Whole(q) \in {headers \o K, headers \o K \o D, headers \o K \o D \o V,
                         headers \o K \o D \o V \o L}
    BY <2>2, <2>3, <2>5
  <2> HIDE DEF headers, K, D, V, L
  <2>8. /\ headers \o K \in Seq(Alphabet) /\ headers \o K \o D \in Seq(Alphabet)
        /\ headers \o K \o D \o V \in Seq(Alphabet) /\ headers \o K \o D \o V \o L \in Seq(Alphabet)
    BY <2>6, <2>7, ConcatProperties
  <2>9. /\ Starts(headers \o K, headers \o K \o D)
        /\ Starts(headers \o K \o D, headers \o K \o D \o V)
        /\ Starts(headers \o K \o D \o V, headers \o K \o D \o V \o L)
    BY <2>6, <2>8, StartsFacts
  <2>10. Starts(headers \o K \o D \o V, Text[q.body])
    BY ONLY <1>2, <2>7, <2>8, <2>9, StartsTransitive
  <2>11. Starts(headers \o K \o D, Text[q.body])
    BY ONLY <1>2, <2>8, <2>9, <2>10, StartsTransitive
  <2>12. Starts(headers \o K, Text[q.body])
    BY ONLY <1>2, <2>8, <2>9, <2>11, StartsTransitive
  <2> QED BY <1>6, <2>7, <2>10, <2>11, <2>12
<1> QED BY <1>1, <1>3, <1>4, <1>5, <1>6

------------------------------
(* One call of send() or sendfile(). *)

\* Nothing of a part is nothing.
LEMMA NothingOf ==
  ASSUME NEW p \in Parts, NEW s \in Seq(Alphabet)
  PROVE  s \o Bytes(p, 0) = s
<1>1. Bytes(p, 0) \in Seq(Alphabet) /\ Len(Bytes(p, 0)) = 0
  BY BytesAre
<1>2. Bytes(p, 0) = <<>>
  BY <1>1, EmptySeq
<1> QED BY <1>2, ConcatEmptySeq

\* After a stage comes the next one.
LEMMA NextStageContinues ==
  ASSUME NEW q, Underway(q), q.sendStatus = "headers" => q.iter = Headers + 1
  PROVE  Continues(q, [NextStage(q) EXCEPT !.sentBytes = 0], Whole(q))
<1> DEFINE next == CASE q.sendStatus = "status line" -> "headers"
                     [] q.sendStatus = "headers"     -> "body"
                     [] q.sendStatus = "body"        -> "complete"
<1> DEFINE n == [NextStage(q) EXCEPT !.sentBytes = 0]
<1>1. q \in Responses /\ q.sendStatus \in {"status line", "headers", "body"}
  BY DEF Underway
<1>f. q \in ResponseRecords /\ Numbers(q) /\ Stands(q)
  BY <1>1, ResponseFields
<1>g. q.status = "headers end" <=> q.iter = Headers + 1
  BY <1>1, ResponseFields
<1>h. q.body \in Bodies
  BY <1>f DEF Stands
<1>2. next \in {"headers", "body", "complete"}
  BY <1>1
<1>3. NextStage(q) = [q EXCEPT !.extra = "none", !.sendStatus = next]
  BY <1>f DEF NextStage, ResponseRecords
<1> HIDE DEF next
<1>4. n = [q EXCEPT !.extra = "none", !.sendStatus = next, !.sentBytes = 0]
  BY <1>3
<1> HIDE DEF n
<1>5. /\ n.body = q.body /\ n.retainCount = q.retainCount /\ n.sendStatus = next
      /\ n.extra = "none" /\ n.sentBytes = 0 /\ n.fileOffset = q.fileOffset
      /\ n.status = q.status /\ n.iter = q.iter
  BY <1>f, <1>4 DEF ResponseRecords
<1>6. n \in ResponseRecords
  BY <1>f, <1>2, <1>4 DEF ResponseRecords
<1>7. n \in Responses
  <2>1. n.retainCount > 0 /\ n.sentBytes < StringSize /\ n.fileOffset <= BodySize(n.body)
    BY <1>f, <1>5, SizesAre DEF Numbers
  <2>2. n.status = "headers end" <=> n.iter = Headers + 1
    BY <1>5, <1>g
  <2>3. n.extra \in {"none", n.sendStatus}
    BY <1>5
  <2> QED BY <1>6, <2>1, <2>2, <2>3 DEF Responses
<1>8. CASE q.sendStatus = "body"
  <2>1. next = "complete"
    BY <1>8 DEF next
  <2>2. Whole(q) = Text[q.body]
    BY <1>8, WholeStarts
  <2> QED BY <1>5, <1>7, <2>1, <2>2 DEF Continues, n
<1>9. CASE q.sendStatus = "status line"
  <2>1. next = "headers"
    BY <1>9 DEF next
  <2>2. /\ Begun(n).sendStatus = "headers" /\ Begun(n).sentBytes = 0
        /\ Begun(n).status = "key" /\ Begun(n).iter = 1
    <3>1. n.sendStatus = "headers" /\ n.extra = "none"
      BY <1>5, <2>1
    <3> QED BY <1>7, <3>1, Beginning
  <2>3. ~ (1 > Headers) /\ 1 - 1 = 0 /\ 0 \in Nat
    BY SizesAre
  <2>4. /\ Before(Begun(n)) = StatusLine \o FirstHeaders(0)
        /\ CurrentPart(Begun(n)) = HeaderPart("key", 1) /\ Offset(Begun(n)) = 0
    BY <2>2, <2>3 DEF Before, CurrentPart, Offset, SendsFile
  <2>5. HeaderPart("key", 1) \in Parts /\ StatusLine \in Seq(Alphabet)
    BY <1>h, TextIs DEF HeaderPart, Parts
  <2>6. FirstHeaders(0) = <<>>
    BY <2>3, FirstHeadersAre
  <2>7. StatusLine \o <<>> = StatusLine /\ <<>> \o StatusLine = StatusLine
    BY <2>5, ConcatEmptySeq
  <2>8. SentBy(Begun(n)) = StatusLine
    <3>1. StatusLine \o Bytes(HeaderPart("key", 1), 0) = StatusLine
      BY <2>5, NothingOf
    <3> QED BY <2>4, <2>6, <2>7, <3>1 DEF SentBy
  <2>9. Whole(q) = <<>> \o StatusLine
    BY <1>9 DEF Whole, Before, CurrentPart, PartSize, SendsFile, StatusLine
  <2> QED BY <1>5, <1>7, <2>1, <2>7, <2>8, <2>9 DEF Continues, n
<1>10. CASE q.sendStatus = "headers"
  <2>1. next = "body" /\ q.iter = Headers + 1 /\ q.status = "headers end"
    BY <1>10, <1>g DEF next
  <2>2. Begun(n).sendStatus = "body" /\ Begun(n).sentBytes = 0 /\ Begun(n).fileOffset = 0
    <3>1. n.sendStatus = "body" /\ n.extra = "none"
      BY <1>5, <2>1
    <3> QED BY <1>7, <3>1, Beginning
  <2>3. /\ Before(Begun(n)) = StatusLine \o FirstHeaders(Headers) \o HeadersEnd
        /\ CurrentPart(Begun(n)) = Part("body") /\ Offset(Begun(n)) = 0
    BY <2>2 DEF Before, CurrentPart, Offset
  <2>4. Part("body") \in Parts /\ StatusLine \o FirstHeaders(Headers) \o HeadersEnd \in Seq(Alphabet)
    BY <1>h, TextIs DEF Part, HeaderPart, Parts
  <2>5. SentBy(Begun(n)) = StatusLine \o FirstHeaders(Headers) \o HeadersEnd
    <3>1. StatusLine \o FirstHeaders(Headers) \o HeadersEnd \o Bytes(Part("body"), 0)
            = StatusLine \o FirstHeaders(Headers) \o HeadersEnd
      BY <2>4, NothingOf
    <3> QED BY <2>3, <3>1 DEF SentBy
  <2>6. Whole(q) = StatusLine \o FirstHeaders(Headers) \o HeadersEnd
    <3>1. q.iter > Headers /\ q.iter - 1 = Headers
      <4>1. Headers \in Nat /\ q.iter = Headers + 1
        BY <1>10, SizesAre
      <4> QED BY ONLY <4>1
    <3> QED BY <1>10, <2>1, <3>1 DEF Whole, Before, CurrentPart, PartSize, SendsFile, HeadersEnd
  <2> QED BY <1>5, <1>7, <2>1, <2>5, <2>6 DEF Continues, n
<1> QED BY <1>1, <1>8, <1>9, <1>10

\* After a string of a header comes the next string, of this header or of the one after it.
LEMMA NextHeaderPartContinues ==
  ASSUME NEW q, Underway(q), q.sendStatus = "headers", q.iter # Headers + 1
  PROVE  Continues(q, [NextHeaderPart(q) EXCEPT !.sentBytes = 0], Whole(q))
<1> DEFINE n == [NextHeaderPart(q) EXCEPT !.sentBytes = 0]
<1> DEFINE headers    == StatusLine \o FirstHeaders(q.iter - 1)
<1> DEFINE part(name) == Bytes(HeaderPart(name, q.iter), StringSize)
<1>1. q \in Responses /\ q.extra = "headers"
  BY DEF Underway
<1>f. q \in ResponseRecords /\ Numbers(q) /\ Stands(q)
  BY <1>1, ResponseFields
<1>g. q.status # "headers end"
  BY <1>1, ResponseFields
<1>h. q.body \in Bodies /\ q.status \in {"key", "delimiter", "value", "line end"}
  BY <1>f, <1>g DEF Stands
<1>i. q.iter \in Nat /\ q.iter >= 1 /\ q.iter <= Headers /\ Headers \in Nat
  <2>1. q.iter \in Nat /\ q.iter >= 1 /\ q.iter <= Headers + 1 /\ Headers \in Nat
    BY <1>f, SizesAre DEF Numbers
  <2> QED BY <2>1
<1>2. /\ headers \in Seq(Alphabet)
      /\ \A name \in {"key", "delimiter", "value", "line end"} : part(name) \in Seq(Alphabet)
      /\ headers \o part("key") \o part("delimiter") \o part("value") \o part("line end")
           = StatusLine \o FirstHeaders(q.iter)
  BY <1>h, <1>i, HeaderInText
<1>3. /\ headers \o part("key") \in Seq(Alphabet)
      /\ headers \o part("key") \o part("delimiter") \in Seq(Alphabet)
      /\ headers \o part("key") \o part("delimiter") \o part("value") \in Seq(Alphabet)
      /\ StatusLine \o FirstHeaders(q.iter) \in Seq(Alphabet)
  <2>1. /\ headers \in Seq(Alphabet) /\ part("key") \in Seq(Alphabet)
        /\ part("delimiter") \in Seq(Alphabet) /\ part("value") \in Seq(Alphabet)
    BY <1>2
  <2>2. StatusLine \in Seq(Alphabet) /\ FirstHeaders(q.iter) \in Seq(Alphabet)
    BY <1>h, <1>i, TextIs, FirstHeadersAre
  <2> HIDE DEF headers, part
  <2> QED BY <2>1, <2>2, ConcatProperties
<1>4. Whole(q) = CASE q.status = "key"       -> headers \o part("key")
                   [] q.status = "delimiter" -> headers \o part("key") \o part("delimiter")
                   [] q.status = "value"     -> headers \o part("key") \o part("delimiter")
                                                  \o part("value")
                   [] q.status = "line end"  -> StatusLine \o FirstHeaders(q.iter)
  <2>1. CurrentPart(q) = HeaderPart(q.status, q.iter) /\ PartSize(q) = StringSize
    <3>1. ~ (q.iter > Headers)
      BY <1>i
    <3> QED BY <3>1 DEF CurrentPart, PartSize, SendsFile
  <2>2. Whole(q) = CASE q.status = "key"       -> headers \o part("key")
                     [] q.status = "delimiter" -> headers \o part("key") \o part("delimiter")
                     [] q.status = "value"     -> headers \o part("key") \o part("delimiter")
                                                    \o part("value")
                     [] q.status = "line end"  -> headers \o part("key") \o part("delimiter")
                                                    \o part("value") \o part("line end")
    BY <1>h, <2>1 DEF Whole, Before
  <2> HIDE DEF headers, part
  <2> QED BY <1>2, <2>2
<1>5. CASE q.status = "line end"
  <2> DEFINE status == IF q.iter < Headers THEN "key" ELSE "headers end"
  <2>1. n = [q EXCEPT !.iter = q.iter + 1, !.status = status, !.sentBytes = 0]
    BY <1>5, <1>f DEF NextHeaderPart, ResponseRecords
  <2>2. status \in {"key", "headers end"} /\ (status = "headers end" => q.iter + 1 = Headers + 1)
        /\ (q.iter + 1 = Headers + 1 => status = "headers end")
    BY <1>i
  <2>3. q.iter + 1 \in 1..(Headers + 1) /\ q.iter + 1 \in Nat
    BY <1>i
  <2> HIDE DEF n, status
  <2>4. /\ n.body = q.body /\ n.retainCount = q.retainCount /\ n.sendStatus = q.sendStatus
        /\ n.extra = q.extra /\ n.sentBytes = 0 /\ n.fileOffset = q.fileOffset
        /\ n.status = status /\ n.iter = q.iter + 1
    BY <1>f, <2>1 DEF ResponseRecords
  <2>5. n \in ResponseRecords
    BY <1>f, <2>1, <2>2, <2>3 DEF ResponseRecords
  <2>6. n \in Responses
    <3>1. n.retainCount > 0 /\ n.sentBytes < StringSize /\ n.fileOffset <= BodySize(n.body)
      BY <1>f, <2>4, SizesAre DEF Numbers
    <3>2. n.status = "headers end" <=> n.iter = Headers + 1
      BY <2>2, <2>4
    <3>3. n.extra \in {"none", n.sendStatus}
      BY <1>1, <2>4
    <3> QED BY <2>5, <3>1, <3>2, <3>3 DEF Responses
  <2>7. Begun(n) = n
    BY <1>1, <2>4, <2>6, Beginning
  <2>8. /\ n.iter - 1 = q.iter /\ n.status \notin {"delimiter", "value", "line end"}
        /\ n.sendStatus = "headers"
    <3>1. n.iter - 1 = q.iter
      <4>1. n.iter = q.iter + 1 /\ q.iter \in Nat
        BY <1>i, <2>4
      <4> QED BY ONLY <4>1
    <3> QED BY <2>2, <2>4, <3>1
  <2>9. Before(n) = StatusLine \o FirstHeaders(q.iter)
    BY <2>8 DEF Before
  <2>10. Offset(n) = 0
    BY <2>4, <2>8 DEF Offset, SendsFile
  <2>11. CurrentPart(n) \in Parts
    <3>1. Underway(n)
      BY <1>1, <2>4, <2>6 DEF Underway
    <3> QED BY <3>1, CurrentParts
  <2>12. SentBy(n) = StatusLine \o FirstHeaders(q.iter)
    BY <1>3, <2>9, <2>10, <2>11, NothingOf DEF SentBy
  <2> QED BY <1>4, <1>5, <2>4, <2>6, <2>7, <2>8, <2>12 DEF Continues, n
<1>6. CASE q.status # "line end"
  <2> DEFINE status == CASE q.status = "key"       -> "delimiter"
                         [] q.status = "delimiter" -> "value"
                         [] q.status = "value"     -> "line end"
  <2>1. n = [q EXCEPT !.status = status, !.sentBytes = 0]
    BY <1>6, <1>f DEF NextHeaderPart, ResponseRecords
  <2>2. status \in {"delimiter", "value", "line end"}
    BY <1>6, <1>h
  <2>m. /\ q.status = "key" => status = "delimiter"
        /\ q.status = "delimiter" => status = "value"
        /\ q.status = "value" => status = "line end"
    OBVIOUS
  <2> HIDE DEF n, status
  <2>4. /\ n.body = q.body /\ n.retainCount = q.retainCount /\ n.sendStatus = q.sendStatus
        /\ n.extra = q.extra /\ n.sentBytes = 0 /\ n.fileOffset = q.fileOffset
        /\ n.status = status /\ n.iter = q.iter
    BY <1>f, <2>1 DEF ResponseRecords
  <2>5. n \in ResponseRecords
    BY <1>f, <2>1, <2>2 DEF ResponseRecords
  <2>6. n \in Responses
    <3>1. n.retainCount > 0 /\ n.sentBytes < StringSize /\ n.fileOffset <= BodySize(n.body)
      BY <1>f, <2>4, SizesAre DEF Numbers
    <3>2. n.status # "headers end" /\ n.iter # Headers + 1
      BY <2>2, <2>4
    <3>3. n.extra \in {"none", n.sendStatus}
      BY <1>1, <2>4
    <3> QED BY <2>5, <3>1, <3>2, <3>3 DEF Responses
  <2>7. Begun(n) = n /\ n.sendStatus = "headers"
    BY <1>1, <2>4, <2>6, Beginning
  <2>9. Before(n) = CASE n.status = "delimiter" -> headers \o part("key")
                      [] n.status = "value"     -> headers \o part("key") \o part("delimiter")
                      [] n.status = "line end"  -> headers \o part("key") \o part("delimiter")
                                                     \o part("value")
    BY <2>2, <2>4, <2>7 DEF Before
  <2>10. Offset(n) = 0
    BY <2>4, <2>7 DEF Offset, SendsFile
  <2>11. CurrentPart(n) \in Parts
    <3>1. Underway(n)
      BY <1>1, <2>4, <2>6 DEF Underway
    <3> QED BY <3>1, CurrentParts
  <2> HIDE DEF headers, part
  <2>12. Before(n) = Whole(q) /\ Before(n) \in Seq(Alphabet)
    BY <1>3, <1>4, <1>6, <1>h, <2>4, <2>9, <2>m
  <2>13. SentBy(n) = Whole(q)
    BY <2>10, <2>11, <2>12, NothingOf DEF SentBy
  <2> QED BY <2>4, <2>6, <2>7, <2>13 DEF Continues, n
<1> QED BY <1>5, <1>6

\* After a part comes the next one.
LEMMA PassedContinues ==
  ASSUME NEW q, Underway(q)
  PROVE  Continues(q, [Passed(q) EXCEPT !.sentBytes = 0], Whole(q))
<1>1. q \in Responses
  BY DEF Underway
<1>2. q.iter \in Nat /\ q.iter <= Headers + 1 /\ Headers \in Nat
  <2>1. Numbers(q)
    BY <1>1, ResponseFields
  <2> QED BY <2>1, SizesAre DEF Numbers
<1>3. q.iter <= Headers <=> q.iter # Headers + 1
  BY <1>2
<1>4. CASE q.sendStatus = "headers" /\ q.iter # Headers + 1
  <2>1. Passed(q) = NextHeaderPart(q)
    BY <1>3, <1>4 DEF Passed
  <2> QED BY <1>4, <2>1, NextHeaderPartContinues
<1>5. CASE ~ (q.sendStatus = "headers" /\ q.iter # Headers + 1)
  <2>1. Passed(q) = NextStage(q)
    BY <1>3, <1>5 DEF Passed
  <2> QED BY <1>5, <2>1, NextStageContinues
<1> QED BY <1>4, <1>5

\* A string of which s bytes were taken.
LEMMA StringContinues ==
  ASSUME NEW q, Underway(q), ~SendsFile(q), NEW s \in 0..Remaining(q)
  PROVE  Continues(q, StringSent(q, s), SentBy(q) \o Taken(q, s))
<1>1. CASE s = Remaining(q)
  <2>1. Remaining(q) \in Nat
    BY CurrentParts
  <2>2. ~ (s < Remaining(q))
    BY <1>1, <2>1
  <2>3. StringSent(q, s) = [Passed(q) EXCEPT !.sentBytes = 0]
    BY <2>2 DEF StringSent
  <2> QED BY <1>1, <2>3, PassedContinues, TakenGoesOn
<1>2. CASE s # Remaining(q)
  <2> DEFINE b == q.sentBytes + s
  <2> DEFINE n == StringSent(q, s)
  <2>1. /\ q \in Responses /\ q.sendStatus \in {"status line", "headers", "body"}
        /\ q.extra = q.sendStatus
    BY DEF Underway
  <2>f. q \in ResponseRecords /\ Numbers(q) /\ Stands(q)
    BY <2>1, ResponseFields
  <2>2. Remaining(q) \in Nat /\ s \in Nat /\ s < Remaining(q)
    <3>1. Remaining(q) \in Nat
      BY CurrentParts
    <3> QED BY <1>2, <3>1
  <2>3. b \in Nat /\ b < StringSize
    <3>1. Remaining(q) = StringSize - q.sentBytes
      BY DEF Remaining
    <3>2. q.sentBytes \in Nat /\ StringSize \in Nat
      BY <2>f, SizesAre DEF Numbers
    <3> QED BY <2>2, <3>1, <3>2
  <2>4. n = [q EXCEPT !.sentBytes = b]
    BY <2>2, <2>f DEF StringSent, ResponseRecords
  <2> HIDE DEF n, b
  <2>5. /\ n.body = q.body /\ n.retainCount = q.retainCount /\ n.sendStatus = q.sendStatus
        /\ n.extra = q.extra /\ n.sentBytes = b /\ n.fileOffset = q.fileOffset
        /\ n.status = q.status /\ n.iter = q.iter
    BY <2>f, <2>4 DEF ResponseRecords
  <2>6. n \in ResponseRecords
    BY <2>3, <2>4, <2>f DEF ResponseRecords
  <2>7. n \in Responses
    <3>1. n.retainCount > 0 /\ n.sentBytes < StringSize /\ n.fileOffset <= BodySize(n.body)
      BY <2>f, <2>3, <2>5 DEF Numbers
    <3>2. q.status = "headers end" <=> q.iter = Headers + 1
      BY <2>1, ResponseFields
    <3>3. n.status = "headers end" <=> n.iter = Headers + 1
      BY <2>5, <3>2
    <3>4. n.extra \in {"none", n.sendStatus}
      BY <2>1, <2>5
    <3> QED BY <2>6, <3>1, <3>3, <3>4 DEF Responses
  <2>8. Begun(n) = n
    <3>1. n.sendStatus # "complete" /\ n.extra # "none"
      BY <2>1, <2>5
    <3> QED BY <2>7, <3>1, Beginning
  <2>9. /\ CurrentPart(n) = CurrentPart(q) /\ Before(n) = Before(q)
        /\ ~SendsFile(n)
    BY <2>5 DEF CurrentPart, Before, SendsFile
  <2>10. Offset(n) = Offset(q) + s
    BY <2>5, <2>9 DEF Offset, b
  <2>11. SentBy(n) = SentBy(q) \o Taken(q, s)
    <3>1. SentBy(q) \o Taken(q, s) = Before(q) \o Bytes(CurrentPart(q), Offset(q) + s)
      BY TakenGoesOn
    <3> QED BY <2>9, <2>10, <3>1 DEF SentBy
  <2> QED BY <2>1, <2>5, <2>7, <2>8, <2>11 DEF Continues, n
<1> QED BY <1>1, <1>2

\* A file of which s bytes were taken.
LEMMA FileContinues ==
  ASSUME NEW q, Underway(q), SendsFile(q), NEW s \in 0..Remaining(q)
  PROVE  Continues(q, FileSent(q, s), SentBy(q) \o Taken(q, s))
<1> DEFINE n == FileSent(q, s)
<1>1. /\ q \in Responses /\ q.sendStatus = "body" /\ q.extra = "body"
  BY DEF Underway, SendsFile
<1>f. q \in ResponseRecords /\ Numbers(q) /\ Stands(q)
  BY <1>1, ResponseFields
<1>g. q.status = "headers end" <=> q.iter = Headers + 1
  BY <1>1, ResponseFields
<1>2. CASE Remaining(q) = 0
  <2>1. n = [q EXCEPT !.extra = "none", !.sendStatus = "complete"]
    BY <1>1, <1>2, <1>f DEF FileSent, Passed, NextStage, ResponseRecords
  <2> HIDE DEF n
  <2>5. /\ n.body = q.body /\ n.retainCount = q.retainCount /\ n.sendStatus = "complete"
        /\ n.extra = "none" /\ n.sentBytes = q.sentBytes /\ n.fileOffset = q.fileOffset
        /\ n.status = q.status /\ n.iter = q.iter
    BY <1>f, <2>1 DEF ResponseRecords
  <2>6. n \in ResponseRecords
    BY <1>f, <2>1 DEF ResponseRecords
  <2>7. n \in Responses
    <3>1. n.retainCount > 0 /\ n.sentBytes < StringSize /\ n.fileOffset <= BodySize(n.body)
      BY <1>f, <2>5 DEF Numbers
    <3>3. n.status = "headers end" <=> n.iter = Headers + 1
      BY <2>5, <1>g
    <3>4. n.extra \in {"none", n.sendStatus}
      BY <2>5
    <3> QED BY <2>6, <3>1, <3>3, <3>4 DEF Responses
  <2>8. s = Remaining(q)
    BY <1>2
  <2> QED BY <1>1, <2>5, <2>7, <2>8, TakenGoesOn, WholeStarts DEF Continues, n
<1>3. CASE Remaining(q) # 0
  <2> DEFINE b == q.fileOffset + s
  <2>1. b \in Nat /\ b <= BodySize(q.body)
    <3>1. Remaining(q) = BodySize(q.body) - q.fileOffset
      BY DEF Remaining
    <3>2. q.fileOffset \in Nat /\ BodySize(q.body) \in Nat /\ q.fileOffset <= BodySize(q.body)
      BY <1>f DEF Numbers
    <3> QED BY <3>1, <3>2
  <2>4. n = [q EXCEPT !.fileOffset = b]
    BY <1>3, <1>f DEF FileSent, ResponseRecords
  <2> HIDE DEF n, b
  <2>5. /\ n.body = q.body /\ n.retainCount = q.retainCount /\ n.sendStatus = q.sendStatus
        /\ n.extra = q.extra /\ n.sentBytes = q.sentBytes /\ n.fileOffset = b
        /\ n.status = q.status /\ n.iter = q.iter
    BY <1>f, <2>4 DEF ResponseRecords
  <2>6. n \in ResponseRecords
    BY <2>1, <2>4, <1>f DEF ResponseRecords
  <2>7. n \in Responses
    <3>1. n.retainCount > 0 /\ n.sentBytes < StringSize /\ n.fileOffset <= BodySize(n.body)
      BY <1>f, <2>1, <2>5 DEF Numbers
    <3>3. n.status = "headers end" <=> n.iter = Headers + 1
      BY <2>5, <1>g
    <3>4. n.extra \in {"none", n.sendStatus}
      BY <1>1, <2>5
    <3> QED BY <2>6, <3>1, <3>3, <3>4 DEF Responses
  <2>8. Begun(n) = n /\ n.sendStatus = "body"
    <3>1. n.sendStatus = "body" /\ n.extra # "none" /\ n.sendStatus # "complete"
      BY <1>1, <2>5
    <3> QED BY <2>7, <3>1, Beginning
  <2>9. /\ CurrentPart(n) = CurrentPart(q) /\ Before(n) = Before(q)
        /\ SendsFile(n)
    BY <2>5 DEF CurrentPart, Before, SendsFile
  <2>10. Offset(n) = Offset(q) + s
    BY <2>5, <2>9 DEF Offset, b
  <2>11. SentBy(n) = SentBy(q) \o Taken(q, s)
    <3>1. SentBy(q) \o Taken(q, s) = Before(q) \o Bytes(CurrentPart(q), Offset(q) + s)
      BY TakenGoesOn
    <3> QED BY <2>9, <2>10, <3>1 DEF SentBy
  <2> QED BY <2>5, <2>7, <2>8, <2>11 DEF Continues, n
<1> QED BY <1>2, <1>3

\* When sendfile() fails the response counts as complete; with nothing to send it is.
LEMMA FailedContinues ==
  ASSUME NEW q, Underway(q), SendsFile(q)
  PROVE  /\ Passed(q) \in Responses /\ Passed(q).body = q.body
         /\ Passed(q).retainCount = q.retainCount /\ Passed(q).sendStatus = "complete"
         /\ SentBy(q) \in Seq(Alphabet) /\ Starts(SentBy(q), Text[q.body])
         /\ q.body = "unopened file" => SentBy(q) = Text[q.body]
<1> DEFINE n == Passed(q)
<1>1. /\ q \in Responses /\ q.sendStatus = "body" /\ q.extra = "body"
  BY DEF Underway, SendsFile
<1>f. q \in ResponseRecords /\ Numbers(q) /\ Stands(q)
  BY <1>1, ResponseFields
<1>g. q.status = "headers end" <=> q.iter = Headers + 1
  BY <1>1, ResponseFields
<1>2. n = [q EXCEPT !.extra = "none", !.sendStatus = "complete"]
  BY <1>1, <1>f DEF Passed, NextStage, ResponseRecords
<1> HIDE DEF n
<1>3. /\ n.body = q.body /\ n.retainCount = q.retainCount /\ n.sendStatus = "complete"
      /\ n.extra = "none" /\ n.sentBytes = q.sentBytes /\ n.fileOffset = q.fileOffset
      /\ n.status = q.status /\ n.iter = q.iter
  BY <1>f, <1>2 DEF ResponseRecords
<1>4. n \in ResponseRecords
  BY <1>f, <1>2 DEF ResponseRecords
<1>5. n \in Responses
  <2>1. n.retainCount > 0 /\ n.sentBytes < StringSize /\ n.fileOffset <= BodySize(n.body)
    BY <1>f, <1>3 DEF Numbers
  <2>2. n.status = "headers end" <=> n.iter = Headers + 1
    BY <1>3, <1>g
  <2>3. n.extra \in {"none", n.sendStatus}
    BY <1>3
  <2> QED BY <1>4, <2>1, <2>2, <2>3 DEF Responses
<1>6. SentBy(q) \in Seq(Alphabet) /\ Taken(q, 0) = <<>> /\ Starts(SentBy(q) \o Taken(q, 0), Whole(q))
      /\ (Remaining(q) = 0 => SentBy(q) \o Taken(q, 0) = Whole(q))
  <2>1. 0 \in 0..Remaining(q)
    <3>1. Remaining(q) \in Nat
      BY CurrentParts
    <3> QED BY <3>1
  <2>2. Taken(q, 0) = <<>>
    BY DEF Taken
  <2> QED BY <2>1, <2>2, TakenGoesOn
<1>7. SentBy(q) \o Taken(q, 0) = SentBy(q)
  BY <1>6, ConcatEmptySeq
<1>8. Starts(SentBy(q), Text[q.body])
  BY <1>1, <1>6, <1>7, WholeStarts
<1>9. ASSUME q.body = "unopened file" PROVE SentBy(q) = Text[q.body]
  <2>1. BodySize(q.body) = 0
    BY <1>9 DEF BodySize
  <2>2. Remaining(q) = 0
    <3>1. q.fileOffset \in Nat /\ q.fileOffset <= BodySize(q.body)
      BY <1>f DEF Numbers
    <3>2. Remaining(q) = BodySize(q.body) - q.fileOffset
      BY DEF Remaining
    <3> QED BY <2>1, <3>1, <3>2
  <2> QED BY <1>1, <1>6, <1>7, <2>2, WholeStarts
<1> QED BY <1>3, <1>5, <1>6, <1>8, <1>9 DEF n

\* What was sent of an answer is the beginning of it.
LEMMA SentStarts ==
  ASSUME NEW r \in Responses, r.sendStatus # "complete"
  PROVE  SentBy(Begun(r)) \in Seq(Alphabet) /\ Starts(SentBy(Begun(r)), Text[r.body])
<1> DEFINE q == Begun(r)
<1>1. Underway(q) /\ q.body = r.body
  BY Beginning
<1> HIDE DEF q
<1>2. 0 \in 0..Remaining(q)
  <2>1. Remaining(q) \in Nat
    BY <1>1, CurrentParts
  <2> QED BY <2>1
<1>3. SentBy(q) \in Seq(Alphabet) /\ Starts(SentBy(q) \o Taken(q, 0), Whole(q))
  BY <1>1, <1>2, TakenGoesOn
<1>4. SentBy(q) \o Taken(q, 0) = SentBy(q)
  <2>1. Taken(q, 0) = <<>>
    BY DEF Taken
  <2> QED BY <1>3, <2>1, ConcatEmptySeq
<1>5. /\ Whole(q) \in Seq(Alphabet) /\ Starts(Whole(q), Text[q.body])
      /\ Text[q.body] \in Seq(Alphabet)
  <2>1. q.body \in Bodies
    <3>1. Stands(r)
      BY ResponseFields
    <3> QED BY <1>1, <3>1 DEF Stands
  <2> QED BY <1>1, <2>1, CurrentParts, WholeStarts, TextIs
<1>6. Starts(SentBy(q), Text[q.body])
  BY <1>3, <1>4, <1>5, StartsTransitive
<1> QED BY <1>1, <1>3, <1>6 DEF q

\* A reference more or less to a response, unless it was the last.
LEMMA ReferencedIs ==
  ASSUME NEW r \in Responses, NEW k \in Int, r.retainCount + k > 0
  PROVE  /\ Referenced(r, k) \in Responses /\ Referenced(r, k).retainCount = r.retainCount + k
         /\ Referenced(r, k).body = r.body /\ Referenced(r, k).sendStatus = r.sendStatus
         /\ r.sendStatus # "complete" => SentBy(Begun(Referenced(r, k))) = SentBy(Begun(r))
<1> DEFINE m == r.retainCount + k
<1> DEFINE n == Referenced(r, k)
<1>f. r \in ResponseRecords /\ Numbers(r) /\ Stands(r)
  BY ResponseFields
<1>g. r.status = "headers end" <=> r.iter = Headers + 1
  BY ResponseFields
<1>1. m \in Nat /\ m > 0 /\ m # 0
  <2>1. r.retainCount \in Nat
    BY <1>f DEF Numbers
  <2> QED BY <2>1
<1>2. n = [r EXCEPT !.retainCount = m]
  BY <1>1, <1>f DEF Referenced, ResponseRecords
<1> HIDE DEF n, m
<1>3. /\ n.body = r.body /\ n.retainCount = m /\ n.sendStatus = r.sendStatus
      /\ n.extra = r.extra /\ n.sentBytes = r.sentBytes /\ n.fileOffset = r.fileOffset
      /\ n.status = r.status /\ n.iter = r.iter
  BY <1>f, <1>2 DEF ResponseRecords
<1>4. n \in ResponseRecords
  BY <1>1, <1>2, <1>f DEF ResponseRecords
<1>5. n \in Responses
  <2>1. n.retainCount > 0 /\ n.sentBytes < StringSize /\ n.fileOffset <= BodySize(n.body)
    BY <1>1, <1>f, <1>3 DEF Numbers
  <2>2. n.status = "headers end" <=> n.iter = Headers + 1
    BY <1>3, <1>g
  <2>3. n.extra \in {"none", n.sendStatus}
    <3>1. r.extra \in {"none", r.sendStatus}
      BY <1>f DEF Stands
    <3> QED BY <1>3, <3>1
  <2> QED BY <1>4, <2>1, <2>2, <2>3 DEF Responses
<1>6. ASSUME r.sendStatus # "complete"
      PROVE  SentBy(Begun(n)) = SentBy(Begun(r))
  <2>1. /\ r.extra # "none" => Begun(n) = n /\ Begun(r) = r
        /\ r.extra = "none" =>
             /\ Begun(n).sendStatus = Begun(r).sendStatus /\ Begun(n).body = Begun(r).body
             /\ Begun(n).sentBytes = 0 /\ Begun(n).fileOffset = 0
             /\ Begun(n).status = "key" /\ Begun(n).iter = 1
             /\ Begun(r).sentBytes = 0 /\ Begun(r).fileOffset = 0
             /\ Begun(r).status = "key" /\ Begun(r).iter = 1
    BY <1>3, <1>5, <1>6, Beginning
  <2>2. /\ Begun(n).sendStatus = Begun(r).sendStatus /\ Begun(n).body = Begun(r).body
        /\ Begun(n).sentBytes = Begun(r).sentBytes /\ Begun(n).fileOffset = Begun(r).fileOffset
        /\ Begun(n).status = Begun(r).status /\ Begun(n).iter = Begun(r).iter
    BY <1>3, <2>1
  <2> QED BY <2>2 DEF SentBy, Before, CurrentPart, Offset, SendsFile
<1> QED BY <1>3, <1>5, <1>6 DEF n, m

------------------------------
(* Counting the references to a response. *)

\* Those that resume an answer are those of a purpose.
LEMMA ResumingIs ==
  ASSUME NEW seq \in Seq(Updates), NEW c
  PROVE  /\ Purposes(seq) \in Seq(AnyPurpose) /\ Len(Purposes(seq)) = Len(seq)
         /\ Capturing(Purposes(seq), <<c, "out">>) = Resuming(seq, c)
         /\ IsFiniteSet(Resuming(seq, c)) /\ Cardinality(Resuming(seq, c)) \in Nat
<1>1. DOMAIN seq = 1..Len(seq) /\ Len(seq) \in Nat /\ \A i \in 1..Len(seq) : seq[i] \in Updates
  BY LenProperties
<1>2. Purposes(seq) \in [1..Len(seq) -> AnyPurpose]
  BY <1>1 DEF Purposes, AnyPurpose
<1>3. Purposes(seq) \in Seq(AnyPurpose) /\ Len(Purposes(seq)) = Len(seq)
  BY <1>1, <1>2, SeqDef, LenProperties
<1>4. \A i \in DOMAIN seq : Purposes(seq)[i].block = <<c, "out">> <=>
                              seq[i].block = c /\ seq[i].events = "out"
  BY DEF Purposes, Purpose
<1>5. DOMAIN Purposes(seq) = DOMAIN seq
  BY DEF Purposes
<1>6. Capturing(Purposes(seq), <<c, "out">>) = Resuming(seq, c)
  BY <1>4, <1>5 DEF Capturing, Resuming
<1> QED BY <1>3, <1>6, CaptureFinite

\* One more at the end.
LEMMA ResumingAppend ==
  ASSUME NEW seq \in Seq(Updates), NEW e \in Updates, NEW c
  PROVE  Cardinality(Resuming(Append(seq, e), c)) =
           Cardinality(Resuming(seq, c)) + (IF Resumes(e, c) THEN 1 ELSE 0)
<1>1. Append(seq, e) \in Seq(Updates) /\ Purpose(e) \in AnyPurpose
  BY AppendProperties DEF AnyPurpose
<1>2. Purposes(Append(seq, e)) = Append(Purposes(seq), Purpose(e))
  <2>1. /\ DOMAIN Append(seq, e) = 1..(Len(seq) + 1) /\ Append(seq, e)[Len(seq) + 1] = e
        /\ \A i \in 1..Len(seq) : Append(seq, e)[i] = seq[i]
        /\ DOMAIN seq = 1..Len(seq) /\ Len(seq) \in Nat
    BY AppendProperties, LenProperties
  <2>2. /\ Purposes(seq) \in Seq(AnyPurpose) /\ Len(Purposes(seq)) = Len(seq)
        /\ Purposes(Append(seq, e)) \in Seq(AnyPurpose)
        /\ Len(Purposes(Append(seq, e))) = Len(Append(seq, e))
    BY <1>1, ResumingIs
  <2>3. /\ Append(Purposes(seq), Purpose(e)) \in Seq(AnyPurpose)
        /\ Len(Append(Purposes(seq), Purpose(e))) = Len(seq) + 1
        /\ Append(Purposes(seq), Purpose(e))[Len(seq) + 1] = Purpose(e)
        /\ \A i \in 1..Len(seq) : Append(Purposes(seq), Purpose(e))[i] = Purposes(seq)[i]
    BY <1>1, <2>2, AppendProperties
  <2>4. Len(Append(seq, e)) = Len(seq) + 1
    BY AppendProperties
  <2>5. \A i \in 1..Len(seq) : Purposes(Append(seq, e))[i] = Purposes(seq)[i]
    BY <2>1 DEF Purposes
  <2>6. Purposes(Append(seq, e))[Len(seq) + 1] = Purpose(e)
    BY <2>1 DEF Purposes
  <2>7. \A i \in 1..(Len(seq) + 1) : i \in 1..Len(seq) \/ i = Len(seq) + 1
    BY <2>1
  <2>8. \A i \in 1..(Len(seq) + 1) : Purposes(Append(seq, e))[i] = Append(Purposes(seq), Purpose(e))[i]
    BY <2>3, <2>5, <2>6, <2>7
  <2> QED BY <2>2, <2>3, <2>4, <2>8, SeqEqual
<1>3. Cardinality(Capturing(Append(Purposes(seq), Purpose(e)), <<c, "out">>)) =
        Cardinality(Capturing(Purposes(seq), <<c, "out">>))
          + (IF Purpose(e).block = <<c, "out">> THEN 1 ELSE 0)
  <2> DEFINE P == Purposes(seq)
  <2> DEFINE p == Purpose(e)
  <2> DEFINE key == <<c, "out">>
  <2>1. P \in Seq(AnyPurpose) /\ p \in AnyPurpose
    BY <1>1, ResumingIs
  <2> HIDE DEF P, p, key
  <2>2. Cardinality(Capturing(Append(P, p), key)) =
          Cardinality(Capturing(P, key)) + (IF p.block = key THEN 1 ELSE 0)
    BY ONLY <2>1, CaptureAppend
  <2> QED BY <2>2 DEF P, p, key
<1>4. Purpose(e).block = <<c, "out">> <=> Resumes(e, c)
  BY DEF Purpose, Resumes
<1>5. /\ Capturing(Purposes(Append(seq, e)), <<c, "out">>) = Resuming(Append(seq, e), c)
      /\ Capturing(Purposes(seq), <<c, "out">>) = Resuming(seq, c)
  BY <1>1, ResumingIs
<1> QED BY <1>2, <1>3, <1>4, <1>5

\* One less at the beginning.
LEMMA ResumingTail ==
  ASSUME NEW seq \in Seq(Updates), seq # <<>>, NEW c
  PROVE  /\ Tail(seq) \in Seq(Updates)
         /\ Cardinality(Resuming(seq, c)) =
              Cardinality(Resuming(Tail(seq), c)) + (IF Resumes(Head(seq), c) THEN 1 ELSE 0)
<1>1. /\ DOMAIN Tail(seq) = 1..Len(Tail(seq)) /\ Len(Tail(seq)) = Len(seq) - 1
      /\ \A i \in 1..Len(Tail(seq)) : Tail(seq)[i] = seq[i + 1]
      /\ DOMAIN seq = 1..Len(seq) /\ Len(seq) \in Nat /\ Len(seq) # 0
      /\ Head(seq) = seq[1] /\ Tail(seq) \in Seq(Updates)
  BY HeadTailProperties, LenProperties, EmptySeq
<1> DEFINE P == Purposes(seq)
<1>2. P \in Seq(AnyPurpose) /\ Len(P) = Len(seq) /\ \A i \in 1..Len(seq) : P[i] = Purpose(seq[i])
  <2>1. \A i \in 1..Len(seq) : P[i] = Purpose(seq[i])
    BY <1>1 DEF Purposes
  <2> QED BY <2>1, ResumingIs
<1>3. /\ Purposes(Tail(seq)) \in Seq(AnyPurpose) /\ Len(Purposes(Tail(seq))) = Len(seq) - 1
      /\ \A i \in 1..(Len(seq) - 1) : Purposes(Tail(seq))[i] = Purpose(seq[i + 1])
  <2>1. \A i \in 1..(Len(seq) - 1) : Purposes(Tail(seq))[i] = Purpose(seq[i + 1])
    BY <1>1 DEF Purposes
  <2> QED BY <1>1, <2>1, ResumingIs
<1> HIDE DEF P
<1>4. P # <<>>
  BY <1>1, <1>2, EmptySeq
<1>5. /\ Tail(P) \in Seq(AnyPurpose) /\ Len(Tail(P)) = Len(seq) - 1 /\ Head(P) = P[1]
      /\ \A i \in 1..(Len(seq) - 1) : Tail(P)[i] = P[i + 1]
  BY <1>2, <1>4, HeadTailProperties
<1>6. \A i \in 1..(Len(seq) - 1) : i + 1 \in 1..Len(seq)
  BY <1>1
<1>7. Tail(P) = Purposes(Tail(seq))
  <2>1. \A i \in 1..(Len(seq) - 1) : Tail(P)[i] = Purposes(Tail(seq))[i]
    BY <1>2, <1>3, <1>5, <1>6
  <2> QED BY <1>3, <1>5, <2>1, SeqEqual
<1>8. Cardinality(Capturing(P, <<c, "out">>)) =
        Cardinality(Capturing(Tail(P), <<c, "out">>)) + (IF Head(P).block = <<c, "out">> THEN 1 ELSE 0)
  BY <1>2, <1>4, CaptureTail
<1>9. Head(P).block = <<c, "out">> <=> Resumes(Head(seq), c)
  <2>1. Head(P) = Purpose(Head(seq))
    <3>1. 1 \in 1..Len(seq)
      BY <1>1
    <3> QED BY <1>1, <1>2, <1>5, <3>1
  <2> QED BY <2>1 DEF Purpose, Resumes
<1>10. /\ Capturing(P, <<c, "out">>) = Resuming(seq, c)
       /\ Capturing(Purposes(Tail(seq)), <<c, "out">>) = Resuming(Tail(seq), c)
  BY <1>1, ResumingIs DEF P
<1> QED BY <1>1, <1>7, <1>8, <1>9, <1>10

\* One replaced by another.
LEMMA ResumingReplace ==
  ASSUME NEW seq \in Seq(Updates), NEW f \in 1..Len(seq), NEW e \in Updates, NEW c
  PROVE  Cardinality(Resuming([seq EXCEPT ![f] = e], c)) + (IF Resumes(seq[f], c) THEN 1 ELSE 0) =
           Cardinality(Resuming(seq, c)) + (IF Resumes(e, c) THEN 1 ELSE 0)
<1> DEFINE new == [seq EXCEPT ![f] = e]
<1>1. DOMAIN seq = 1..Len(seq) /\ Len(seq) \in Nat /\ seq \in [1..Len(seq) -> Updates]
  BY LenProperties
<1>2. /\ DOMAIN new = 1..Len(seq) /\ new[f] = e
      /\ \A k \in 1..Len(seq) : k # f => new[k] = seq[k]
  BY <1>1
<1>3. new \in Seq(Updates)
  <2>1. new \in [1..Len(seq) -> Updates]
    BY <1>1
  <2> QED BY <1>1, <2>1, SeqDef
<1> HIDE DEF new
<1> DEFINE P == Purposes(seq)
<1> DEFINE Q == Purposes(new)
<1>4. /\ P \in Seq(AnyPurpose) /\ Len(P) = Len(seq) /\ DOMAIN Q = 1..Len(seq)
      /\ \A k \in 1..Len(seq) : k # f => Q[k] = P[k]
      /\ P[f].block = <<seq[f].block, seq[f].events>> /\ Q[f].block = <<e.block, e.events>>
  <2>1. P \in Seq(AnyPurpose) /\ Len(P) = Len(seq)
    BY ResumingIs
  <2>2. DOMAIN Q = 1..Len(seq) /\ \A k \in 1..Len(seq) : k # f => Q[k] = P[k]
    BY <1>1, <1>2 DEF Purposes
  <2>3. P[f].block = <<seq[f].block, seq[f].events>> /\ Q[f].block = <<e.block, e.events>>
    BY <1>1, <1>2 DEF Purposes, Purpose
  <2> QED BY <2>1, <2>2, <2>3
<1>5. Capturing(P, <<c, "out">>) = Resuming(seq, c) /\ Capturing(Q, <<c, "out">>) = Resuming(new, c)
  BY <1>3, ResumingIs
<1> HIDE DEF P, Q
<1>6. Cardinality(Capturing(Q, <<c, "out">>)) + (IF P[f].block = <<c, "out">> THEN 1 ELSE 0) =
        Cardinality(Capturing(P, <<c, "out">>)) + (IF Q[f].block = <<c, "out">> THEN 1 ELSE 0)
  <2> DEFINE key == <<c, "out">>
  <2>1. /\ P \in Seq(AnyPurpose) /\ f \in 1..Len(P) /\ DOMAIN Q = 1..Len(P)
        /\ \A k \in 1..Len(P) : k # f => Q[k] = P[k]
    BY <1>4
  <2> HIDE DEF key
  <2>2. Cardinality(Capturing(Q, key)) + (IF P[f].block = key THEN 1 ELSE 0) =
          Cardinality(Capturing(P, key)) + (IF Q[f].block = key THEN 1 ELSE 0)
    BY ONLY <2>1, CaptureReplace
  <2> QED BY <2>2 DEF key
<1>7. /\ P[f].block = <<c, "out">> <=> Resumes(seq[f], c)
      /\ Q[f].block = <<c, "out">> <=> Resumes(e, c)
  BY <1>4 DEF Resumes
<1> QED BY <1>5, <1>6, <1>7 DEF new

\* One removed, and the last in its place.
LEMMA ResumingRemove ==
  ASSUME NEW seq \in Seq(Updates), NEW f \in 1..Len(seq), NEW c, NEW new \in Seq(Updates),
         DOMAIN new = 1..(Len(seq) - 1),
         \A i \in 1..(Len(seq) - 1) : new[i] = IF i = f THEN seq[Len(seq)] ELSE seq[i]
  PROVE  Cardinality(Resuming(seq, c)) =
           Cardinality(Resuming(new, c)) + (IF Resumes(seq[f], c) THEN 1 ELSE 0)
<1> DEFINE P == Purposes(seq)
<1> DEFINE Q == Purposes(new)
<1>1. DOMAIN seq = 1..Len(seq) /\ Len(seq) \in Nat
  BY LenProperties
<1>2. Capturing(P, <<c, "out">>) = Resuming(seq, c) /\ Capturing(Q, <<c, "out">>) = Resuming(new, c)
  BY ResumingIs
<1>3. /\ \A i \in 1..Len(seq) : P[i] = Purpose(seq[i])
      /\ \A i \in 1..(Len(seq) - 1) : Q[i] = Purpose(new[i])
  BY <1>1 DEF Purposes
<1>4. P \in Seq(AnyPurpose) /\ Len(P) = Len(seq) /\ DOMAIN Q = 1..(Len(P) - 1)
  <2>1. P \in Seq(AnyPurpose) /\ Len(P) = Len(seq)
    BY ResumingIs
  <2>2. DOMAIN Q = DOMAIN new
    BY DEF Purposes
  <2> QED BY <2>1, <2>2
<1> HIDE DEF P, Q
<1>5. \A i \in 1..(Len(P) - 1) : Q[i] = IF i = f THEN P[Len(P)] ELSE P[i]
  <2>1. \A i \in 1..(Len(seq) - 1) : i \in 1..Len(seq) /\ Len(seq) \in 1..Len(seq)
    BY <1>1
  <2> QED BY <1>3, <1>4, <2>1
<1>6. Cardinality(Capturing(P, <<c, "out">>)) =
        Cardinality(Capturing(Q, <<c, "out">>)) + (IF P[f].block = <<c, "out">> THEN 1 ELSE 0)
  <2> DEFINE key == <<c, "out">>
  <2>1. /\ P \in Seq(AnyPurpose) /\ f \in 1..Len(P) /\ DOMAIN Q = 1..(Len(P) - 1)
        /\ \A i \in 1..(Len(P) - 1) : Q[i] = IF i = f THEN P[Len(P)] ELSE P[i]
    BY <1>4, <1>5
  <2> HIDE DEF key
  <2>2. Cardinality(Capturing(P, key)) =
          Cardinality(Capturing(Q, key)) + (IF P[f].block = key THEN 1 ELSE 0)
    BY ONLY <2>1, CaptureRemove, SMTT(60)
  <2> QED BY <2>2 DEF key
<1>7. P[f].block = <<c, "out">> <=> Resumes(seq[f], c)
  <2>1. P[f] = Purpose(seq[f])
    BY <1>3
  <2> QED BY <2>1 DEF Purpose, Resumes
<1> QED BY <1>2, <1>6, <1>7

------------------------------
(* How many hold a response. *)

\* They are the copies of the jobs that use the response.
LEMMA UsersAreChosen ==
  ASSUME NEW B, BagToSet(B) \subseteq Jobs, NEW c
  PROVE  UNION {{j} \X (1..B[j]) : j \in {k \in BagToSet(B) : Uses(k, c)}} = CopiesAmong(B, UserSet(c))
<1>1. {k \in BagToSet(B) : Uses(k, c)} = Chosen(B, UserSet(c))
  BY DEF Chosen, UserSet
<1> QED BY <1>1 DEF CopiesAmong

\* There are finitely many holders, and none means none of each kind.
LEMMA HoldersAre ==
  ASSUME NEW us, NEW ps, NEW B, GoodQueues(us, ps, B), NEW c
  PROVE  /\ Holders(us, ps, B, c) \in Nat
         /\ Holders(us, ps, B, c) = 0 <=>
              Resuming(us, c) = {} /\ Resuming(ps, c) = {} /\ \A j \in BagToSet(B) : ~Uses(j, c)
<1> DEFINE U == CopiesAmong(B, UserSet(c))
<1>1. /\ IsFiniteSet(Resuming(us, c)) /\ Cardinality(Resuming(us, c)) \in Nat
      /\ IsFiniteSet(Resuming(ps, c)) /\ Cardinality(Resuming(ps, c)) \in Nat
  BY ResumingIs DEF GoodQueues
<1>2. IsFiniteSet(U) /\ Cardinality(U) \in Nat
  BY CopiesAmongFinite DEF GoodQueues
<1>3. U = {} <=> \A j \in BagToSet(B) : ~Uses(j, c)
  <2>1. ASSUME U = {} PROVE \A j \in BagToSet(B) : ~Uses(j, c)
    <3> SUFFICES ASSUME NEW j \in BagToSet(B), Uses(j, c) PROVE FALSE
      OBVIOUS
    <3>1. j \in Chosen(B, UserSet(c))
      BY DEF Chosen, UserSet, GoodQueues
    <3>2. 1 \in 1..B[j]
      BY DEF GoodQueues, IsABag, BagToSet
    <3>3. <<j, 1>> \in U
      BY <3>1, <3>2, InCopiesAmong
    <3> QED BY <2>1, <3>3
  <2>2. ASSUME \A j \in BagToSet(B) : ~Uses(j, c) PROVE U = {}
    <3>1. Chosen(B, UserSet(c)) = {}
      BY <2>2 DEF Chosen, UserSet
    <3> QED BY <3>1 DEF CopiesAmong
  <2> QED BY <2>1, <2>2
<1> HIDE DEF U
<1>4. /\ Cardinality(Resuming(us, c)) = 0 <=> Resuming(us, c) = {}
      /\ Cardinality(Resuming(ps, c)) = 0 <=> Resuming(ps, c) = {}
      /\ Cardinality(U) = 0 <=> U = {}
  BY <1>1, <1>2, AtMostOne
<1>5. Holders(us, ps, B, c) = Cardinality(Resuming(us, c)) + Cardinality(Resuming(ps, c)) + Cardinality(U)
  BY DEF Holders, U
<1>6. /\ Holders(us, ps, B, c) \in Nat
      /\ Holders(us, ps, B, c) = 0 <=> /\ Cardinality(Resuming(us, c)) = 0
                                       /\ Cardinality(Resuming(ps, c)) = 0 /\ Cardinality(U) = 0
  BY ONLY <1>1, <1>2, <1>5
<1> QED BY <1>3, <1>4, <1>6

\* Nothing of a connection answers when nobody holds a response or waits for one.
LEMMA UnansweredIs ==
  ASSUME NEW us, NEW ps, NEW B, GoodQueues(us, ps, B), NEW c
  PROVE  (/\ \A k \in Capturing(us, c) : us[k].events # "out"
          /\ \A i \in Capturing(ps, c) : ps[i].events # "out"
          /\ \A j \in {k \in BagToSet(B) : k.conn = c /\ k.kind # "dealloc"} : j.kind = "read")
           <=> Holders(us, ps, B, c) = 0 /\ ~Asking(B, c)
<1>1. /\ Resuming(us, c) = {} <=> \A k \in Capturing(us, c) : us[k].events # "out"
      /\ Resuming(ps, c) = {} <=> \A k \in Capturing(ps, c) : ps[k].events # "out"
  BY DEF Resuming, Capturing
<1>2. \A j \in BagToSet(B) : j.kind \in {"read", "process", "send", "dealloc"}
  BY DEF GoodQueues, Jobs
<1>3. (\A j \in {k \in BagToSet(B) : k.conn = c /\ k.kind # "dealloc"} : j.kind = "read")
        <=> (\A j \in BagToSet(B) : ~Uses(j, c)) /\ ~Asking(B, c)
  BY <1>2 DEF Uses, Asking
<1> QED BY <1>1, <1>3, HoldersAre

\* ServerInv describes them.
LEMMA QueuesAreGood ==
  ASSUME ServerInv
  PROVE  GoodQueues(updates, polls, jobs)
BY DEF ServerInv, RetainCountExact, TypeOK, InvLifetime, GoodQueues

------------------------------
(* What AnswerInv says of one connection. *)

\* None of the responses is the one that does not exist.
LEMMA ResponsesExist ==
  /\ NoResponse.retainCount = 0
  /\ \A r \in Responses : r # NoResponse /\ r.retainCount \in Nat /\ r.retainCount > 0
<1>1. NoResponse.retainCount = 0
  BY DEF NoResponse
<1>2. \A r \in Responses : r.retainCount \in Nat /\ r.retainCount > 0
  BY DEF Responses, ResponseRecords
<1> QED BY <1>1, <1>2

\* What it says of all of them, it says of each.
LEMMA EachIsServed ==
  ASSUME AnswerInv, NEW c \in Connections
  PROVE  Served(c)
<1>1. GoodQueues(updates, polls, jobs)
  BY QueuesAreGood DEF AnswerInv
<1>2. response[c].retainCount = Holders(updates, polls, jobs, c)
  <2>1. BagToSet(jobs) \subseteq Jobs
    BY <1>1 DEF GoodQueues
  <2>2. Copies({j \in BagToSet(jobs) : Uses(j, c)}) = CopiesAmong(jobs, UserSet(c))
    BY <2>1, UsersAreChosen DEF Copies
  <2> QED BY <2>2 DEF AnswerInv, ResponseHeld, Holders
<1>3. wire[c] \in EarlyWires => Holders(updates, polls, jobs, c) = 0 /\ ~Asking(jobs, c)
  <2> SUFFICES ASSUME wire[c] \in EarlyWires
               PROVE  Holders(updates, polls, jobs, c) = 0 /\ ~Asking(jobs, c)
    OBVIOUS
  <2>1. Unanswered(c)
    BY DEF EarlyWires, AnswerInv, InvFresh
  <2> QED BY <1>1, <2>1, UnansweredIs DEF Unanswered, Blocks
<1>4. Asking(jobs, c) => response[c] = NoResponse
  BY DEF Asking, AnswerInv, InvFresh
<1>5. Ending(jobs, c) <=> \E j \in Blocks(c) : j.step \in {"closing", "close"}
  BY DEF Ending, Blocks
<1>6. response[c] # NoResponse => ClosesOnce(c)
  BY <1>5 DEF ClosesOnce, AnswerInv, InvClosing
<1>7. response[c] # NoResponse => Got(c)
  BY DEF Got, AnswerInv, InvSent
<1> QED BY <1>2, <1>3, <1>4, <1>6, <1>7 DEF Served, AnswerInv, InvResponses, InvClosing

\* And what it says of each in the next state, it says of all.
LEMMA AllAreServed ==
  ASSUME ServerInv', InvKinds', DOMAIN response' = Connections, DOMAIN sent' = Connections,
         response' = [c \in DOMAIN response' |-> response'[c]],
         GoodQueues(updates', polls', jobs'), \A c \in Connections : Served(c)'
  PROVE  AnswerInv'
<1>1. ResponseHeld'
  <2> SUFFICES ASSUME NEW c \in Connections
               PROVE  (response[c].retainCount = Cardinality(Resuming(updates, c))
                         + Cardinality(Resuming(polls, c))
                         + Cardinality(Copies({j \in BagToSet(jobs) : Uses(j, c)})))'
    BY DEF ResponseHeld
  <2>1. BagToSet(jobs') \subseteq Jobs
    BY DEF GoodQueues
  <2>2. Copies({j \in BagToSet(jobs) : Uses(j, c)})' = CopiesAmong(jobs', UserSet(c))
    BY <2>1, UsersAreChosen DEF Copies
  <2> QED BY <2>2 DEF Served, Holders
<1>2. InvResponses'
  BY DEF Served, InvResponses
<1>3. InvFresh'
  <2>1. ASSUME NEW c \in Connections, wire'[c] \in EarlyWires PROVE Unanswered(c)'
    <3>1. Holders(updates', polls', jobs', c) = 0 /\ ~Asking(jobs', c)
      BY <2>1 DEF Served
    <3> QED BY <3>1, UnansweredIs DEF Unanswered, Blocks
  <2>2. ASSUME NEW j \in BagToSet(jobs'), j.kind = "process", j.step = "start"
        PROVE  response'[j.conn] = NoResponse
    <3>1. Asking(jobs', j.conn) /\ j.conn \in Connections
      BY <2>2 DEF Asking, GoodQueues, Jobs
    <3> QED BY <3>1 DEF Served
  <2> QED BY <2>1, <2>2 DEF InvFresh, EarlyWires
<1>4. InvClosing'
  <2>1. \A c \in Connections : Ending(jobs', c) <=> (\E j \in Blocks(c) : j.step \in {"closing", "close"})'
    BY DEF Ending, Blocks
  <2> QED BY <2>1 DEF Served, ClosesOnce, InvClosing
<1>5. InvSent'
  BY DEF Served, Got, InvSent
<1> QED BY <1>1, <1>2, <1>3, <1>4, <1>5 DEF AnswerInv

------------------------------
(* Steps that take a response no further. *)

\* A response is held by somebody, and only then there is one.
LEMMA ResponseIs ==
  ASSUME NEW c, Served(c), GoodQueues(updates, polls, jobs)
  PROVE  /\ Holders(updates, polls, jobs, c) \in Nat
         /\ Holders(updates, polls, jobs, c) # 0 <=> response[c] # NoResponse
         /\ response[c] # NoResponse => response[c] \in Responses
<1>1. Holders(updates, polls, jobs, c) \in Nat
  BY HoldersAre
<1>2. response[c].retainCount = Holders(updates, polls, jobs, c) /\ response[c] \in Responses \cup {NoResponse}
  BY DEF Served
<1> QED BY <1>1, <1>2, ResponsesExist

\* Such a step keeps what is known of the connection.
LEMMA SteadyKeeps ==
  ASSUME NEW c, NEW n, Served(c), GoodQueues(updates, polls, jobs),
         GoodQueues(updates', polls', jobs'), Steady(c, n), Passes(c, n)
  PROVE  Served(c)'
<1> DEFINE r == response[c]
<1> DEFINE q == response'[c]
<1> DEFINE h == Holders(updates, polls, jobs, c)
<1> DEFINE k == Holders(updates', polls', jobs', c)
<1>1. /\ h \in Nat /\ (h # 0 <=> r # NoResponse) /\ (r # NoResponse => r \in Responses)
      /\ r.retainCount = h /\ k \in Nat /\ k = h + n
  BY ResponseIs, HoldersAre DEF Steady, Counted, Served
<1>2. /\ r = NoResponse => sent[c] = <<>>
      /\ wire[c] \in EarlyWires => h = 0 /\ ~Asking(jobs, c)
      /\ Asking(jobs, c) => r = NoResponse
      /\ r # NoResponse => ClosesOnce(c) /\ Got(c)
  BY DEF Served
<1>3. WiresGoOn(c) /\ JobsGoOn(c)
  BY DEF Steady
<1>4. n # 0 => n \in {-1, 1} /\ h # 0
  BY DEF Passes
<1>5. h = 0 => n = 0 /\ k = 0 /\ q = NoResponse /\ sent'[c] = <<>>
  BY <1>1, <1>2 DEF Passes
<1>6. wire'[c] \in EarlyWires => k = 0 /\ ~Asking(jobs', c)
  BY <1>2, <1>3, <1>5 DEF WiresGoOn, JobsGoOn
<1>7. Asking(jobs', c) => q = NoResponse
  BY <1>1, <1>2, <1>3, <1>5 DEF JobsGoOn
<1>8. CASE q = NoResponse
  <2>1. sent'[c] = <<>> /\ k = 0
    <3>1. CASE h = 0
      BY <1>5, <3>1
    <3>2. CASE h # 0
      <4>1. r \in Responses /\ r # NoResponse
        BY <1>1, <3>2
      <4>2. n \in {-1, 1} /\ q = Referenced(r, n) /\ sent'[c] = <<>>
        BY <1>8, <4>1 DEF Passes
      <4>3. n \in Int /\ (n = -1 \/ n = 1)
        BY <4>2
      <4>4. ~(r.retainCount + n > 0)
        BY <1>8, <4>1, <4>2, <4>3, ReferencedIs, ResponsesExist
      <4> QED BY <1>1, <4>2, <4>3, <4>4
    <3> QED BY <3>1, <3>2
  <2> QED BY <1>3, <1>6, <1>7, <1>8, <2>1, ResponsesExist DEF Served, WiresGoOn
<1>9. CASE q # NoResponse
  <2>1. h # 0 /\ r # NoResponse /\ r \in Responses
    BY <1>1, <1>5, <1>9
  <2>2. /\ q \in Responses /\ q.retainCount = k /\ q.body = r.body /\ q.sendStatus = r.sendStatus
        /\ r.sendStatus # "complete" => SentBy(Begun(q)) = SentBy(Begun(r))
        /\ sent'[c] = sent[c]
    <3>1. CASE n = 0
      BY <1>1, <2>1, <3>1 DEF Passes
    <3>2. CASE n # 0
      <4>1. n \in {-1, 1} /\ q = Referenced(r, n) /\ sent'[c] = sent[c]
        BY <1>9, <3>2 DEF Passes
      <4>2. n \in Int
        BY <4>1
      <4>3. r.retainCount + n # 0
        <5>1. r.retainCount + n = 0 => Referenced(r, n) = NoResponse
          BY DEF Referenced
        <5> QED BY <1>9, <4>1, <5>1
      <4>4. r.retainCount + n > 0 /\ r.retainCount + n = k
        BY <1>1, <4>2, <4>3
      <4> HIDE DEF r, q
      <4> QED BY <2>1, <4>1, <4>2, <4>4, ReferencedIs
    <3> QED BY <3>1, <3>2
  <2>3. ClosesOnce(c)'
    <3>1. wire[c] # "backlog"
      BY <1>2, <2>1 DEF EarlyWires
    <3> QED BY <1>2, <1>3, <2>1, <2>2, <3>1 DEF ClosesOnce, JobsGoOn, WiresGoOn
  <2>4. Got(c)'
    BY <1>2, <1>3, <2>1, <2>2 DEF Got, WiresGoOn
  <2> QED BY <1>3, <1>6, <1>7, <1>9, <2>2, <2>3, <2>4 DEF Served, WiresGoOn
<1> QED BY <1>8, <1>9

\* Wires go on that way whatever happens.
LEMMA WiresAlways ==
  ASSUME ServerInv, Next \/ UNCHANGED vars, NEW c \in Connections, wire[c] = "gone" => socket[c] = None
  PROVE  WiresGoOn(c)
<1>0. /\ wire \in [Connections -> {"away", "backlog", "quiet", "some", "request", "waiting",
                                   "closed", "reset", "gone"}]
      /\ socket \in [Connections -> Sockets \cup {None}]
  BY DEF ServerInv, RetainCountExact, TypeOK
<1>1. ASSUME UNCHANGED <<wire, socket>> PROVE WiresGoOn(c)
  BY <1>1 DEF WiresGoOn
<1>2. ASSUME NEW d \in Connections, Close(d) PROVE WiresGoOn(c)
  <2>1. /\ wire'[c] = IF c = d THEN "gone" ELSE wire[c]
        /\ socket'[c] = IF c = d THEN None ELSE socket[c]
    BY <1>0, <1>2 DEF Close
  <2> QED BY <2>1 DEF WiresGoOn, EarlyWires
<1>3. ASSUME NEW d \in Connections, TakeInput(d), UNCHANGED socket PROVE WiresGoOn(c)
  <2>1. wire'[c] = IF c # d \/ ~Readable(d) THEN wire[c]
                   ELSE IF wire[c] \in {"request", "waiting"} THEN "waiting" ELSE "quiet"
    BY <1>0, <1>3 DEF TakeInput
  <2> QED BY <1>3, <2>1 DEF WiresGoOn, EarlyWires, Readable
<1>4. CASE Main \/ UNCHANGED vars
  BY <1>1, <1>4 DEF Main, MainRegisters, MainNotifies, vars, connVars, connVarsButMain, netVars
<1>5. CASE PollApplies
  BY <1>1, <1>2, <1>5 DEF PollApplies, ReleaseInPoll, Disposed, Freed
<1>6. CASE PollLoops \/ PollCallsPipeBlock \/ PollAcceptsNothing \/ PollDispatches
  BY <1>1, <1>6 DEF PollLoops, PollCallsPipeBlock, PollAcceptsNothing, PollDispatches, connVars,
                    connVarsButMain, netVars
<1>7. CASE PollReads
  <2>1. accepting \in Connections
    BY <1>7 DEF PollReads, ServerInv, InvLifetime, RetainCountExact, TypeOK
  <2> QED BY <1>3, <1>7, <2>1 DEF PollReads, ReadInPoll
<1>8. CASE PollAccepts
  <2>1. PICK d \in Connections, s \in Sockets :
          /\ wire[d] = "backlog"
          /\ wire' = [wire EXCEPT ![d] = "quiet"]
          /\ socket' = [socket EXCEPT ![d] = s]
    BY <1>8 DEF PollAccepts
  <2>2. /\ wire'[c] = IF c = d THEN "quiet" ELSE wire[c]
        /\ socket'[c] = IF c = d THEN s ELSE socket[c]
    BY <1>0, <2>1
  <2> QED BY <2>1, <2>2 DEF WiresGoOn, EarlyWires
<1>9. CASE PollReleases
  BY <1>1, <1>2, <1>9 DEF PollReleases, ReleaseInPoll, Disposed, Freed
<1>10. ASSUME NEW j \in BagToSet(jobs), Run(j) PROVE WiresGoOn(c)
  <2>1. j.conn \in Connections
    BY JobTypes
  <2>2. CASE JobCloses(j)
    BY <1>2, <2>1, <2>2 DEF JobCloses
  <2>3. CASE JobReads(j)
    BY <1>3, <2>1, <2>3 DEF JobReads
  <2>4. CASE ~JobCloses(j) /\ ~JobReads(j)
    BY <1>1, <1>10, <2>4 DEF Run, JobHup, JobAnswers, JobSends, AnswerSent, AnswerShort,
                             AnswerGoesOn, JobNotifies, JobFinishes
  <2> QED BY <2>2, <2>3, <2>4
<1>11. ASSUME NEW d \in Connections, Peer(d) PROVE WiresGoOn(c)
  <2>1. UNCHANGED socket
    BY <1>11 DEF Peer, Connect, SendsPart, SendsRequest, HangsUp, Receives, peerFrame, connVars,
                 connVarsButMain
  <2>2. \/ wire'[c] = wire[c]
        \/ wire[c] \in EarlyWires \cup {"waiting"} /\ wire'[c] \in {"closed", "reset"}
        \/ wire[c] \in EarlyWires /\ wire'[c] \in EarlyWires
    <3>1. CASE Receives(d)
      BY <3>1 DEF Receives
    <3>2. CASE Connect(d) \/ SendsPart(d) \/ SendsRequest(d)
      BY <1>0, <3>2 DEF Connect, SendsPart, SendsRequest, EarlyWires
    <3>3. CASE HangsUp(d)
      BY <1>0, <3>3 DEF HangsUp, EarlyWires
    <3> QED BY <1>11, <3>1, <3>2, <3>3 DEF Peer
  <2> QED BY <2>1, <2>2 DEF WiresGoOn, EarlyWires
<1> QED BY <1>4, <1>5, <1>6, <1>7, <1>8, <1>9, <1>10, <1>11 DEF Next, PollThread

\* The other jobs are still there.
LEMMA OtherJobs ==
  ASSUME ServerInv, NEW j \in BagToSet(jobs)
  PROVE  /\ \A k \in BagToSet(jobs) : k # j => k \in BagToSet(jobs (-) SetToBag({j}))
         /\ \A new : /\ new \in BagToSet(Advance(j, new))
                     /\ \A k \in BagToSet(jobs) : k # j => k \in BagToSet(Advance(j, new))
<1> DEFINE D == jobs (-) SetToBag({j})
<1>1. IsABag(jobs)
  BY DEF ServerInv, RetainCountExact, TypeOK
<1>2. IsABag(D) /\ \A k \in BagToSet(jobs) : k # j => k \in BagToSet(D)
  BY <1>1, BagDrop
<1> HIDE DEF D
<1>3. ASSUME NEW new
      PROVE  BagToSet(D (+) SetToBag({new})) = BagToSet(D) \cup {new}
  BY <1>2, BagAdd
<1> QED BY <1>2, <1>3 DEF Advance, D

\* A job goes on.
LEMMA JobMoves ==
  ASSUME ServerInv, NEW j \in BagToSet(jobs), NEW new, NEW c, jobs' = Advance(j, new),
         ~Asks(new, c), Ends(new, c) => Ends(j, c), Ends(j, c) => Ends(new, c) \/ socket'[c] = None
  PROVE  JobsGoOn(c)
<1>1. /\ BagToSet(jobs') \subseteq BagToSet(jobs) \cup {new} /\ new \in BagToSet(jobs')
      /\ \A k \in BagToSet(jobs) : k # j => k \in BagToSet(jobs')
  BY AdvanceJobs, OtherJobs
<1>2. \A B : /\ Asking(B, c) <=> \E k \in BagToSet(B) : Asks(k, c)
             /\ Ending(B, c) <=> \E k \in BagToSet(B) : Ends(k, c)
  BY DEF Asking, Ending, Asks, Ends
<1> QED BY <1>1, <1>2 DEF JobsGoOn

\* The jobs go on that way, but for the one whose answer was sent.
LEMMA JobsOfRun ==
  ASSUME ServerInv, TypeOK', NEW j \in BagToSet(jobs), NEW c \in Connections,
         \/ JobHup(j) \/ JobReads(j) \/ JobAnswers(j) \/ JobNotifies(j) \/ JobCloses(j)
         \/ JobFinishes(j)
         \/ j.step = "sending" /\ (AnswerShort(j) \/ AnswerGoesOn)
  PROVE  JobsGoOn(c)
<1>0. /\ j \in Jobs /\ j.conn \in Connections
      /\ \A step \in JobSteps : LET new == [j EXCEPT !.step = step]
                                IN  new.conn = j.conn /\ new.kind = j.kind /\ new.step = step
  BY JobTypes, NextJob
<1>1. ASSUME NEW step \in {"notify", "finish", "sending"}, jobs' = To(j, step),
             j.step \notin {"closing", "close"}
      PROVE  JobsGoOn(c)
  <2> DEFINE new == [j EXCEPT !.step = step]
  <2>1. new.step = step
    BY <1>0 DEF JobSteps
  <2>2. jobs' = Advance(j, new)
    BY <1>1 DEF To
  <2> HIDE DEF new
  <2>3. ~Asks(new, c) /\ ~Ends(new, c) /\ ~Ends(j, c)
    BY <1>1, <2>1 DEF Asks, Ends
  <2> QED BY <2>2, <2>3, JobMoves
<1>2. CASE JobHup(j) \/ JobAnswers(j) \/ (AnswerShort(j) /\ j.step = "sending")
  BY <1>1, <1>2 DEF JobHup, JobAnswers, AnswerShort
<1>3. CASE AnswerGoesOn
  BY <1>3 DEF AnswerGoesOn, JobsGoOn
<1>4. CASE JobReads(j) /\ wire[j.conn] # "request"
  <2>1. jobs' \in {To(j, "notify"), To(j, "finish")} /\ j.step = "start"
    BY <1>4 DEF JobReads
  <2> QED BY <1>1, <2>1
<1>5. CASE JobReads(j) /\ wire[j.conn] = "request"
  <2> DEFINE new == [j EXCEPT !.step = "finish"]
  <2> DEFINE ask == Job(j.conn, "process", "start")
  <2>1. jobs' = Advance(j, new) (+) SetToBag({ask}) /\ j.step = "start" /\ TakeInput(j.conn)
    BY <1>5 DEF JobReads, To
  <2>2. new.step = "finish" /\ ask.conn = j.conn /\ ask.step = "start"
    BY <1>0, NewJob DEF JobSteps, JobKinds
  <2>3. wire'[j.conn] = "waiting"
    BY <1>0, <1>5, <2>1 DEF TakeInput, Readable, ServerInv, RetainCountExact, TypeOK
  <2> HIDE DEF new, ask
  <2>4. /\ IsABag(Advance(j, new)) /\ BagToSet(Advance(j, new)) \subseteq BagToSet(jobs) \cup {new}
        /\ \A k \in BagToSet(jobs) : k # j => k \in BagToSet(Advance(j, new))
    BY AdvanceJobs, OtherJobs
  <2>5. BagToSet(jobs') = BagToSet(Advance(j, new)) \cup {ask}
    BY <2>1, <2>4, BagAdd
  <2>6. \A B : /\ Asking(B, c) <=> \E k \in BagToSet(B) : Asks(k, c)
               /\ Ending(B, c) <=> \E k \in BagToSet(B) : Ends(k, c)
    BY DEF Asking, Ending, Asks, Ends
  <2>7. /\ ~Asks(new, c) /\ ~Ends(new, c) /\ ~Ends(j, c) /\ ~Ends(ask, c)
        /\ Asks(ask, c) => c = j.conn
    BY <2>1, <2>2 DEF Asks, Ends
  <2>8. wire[j.conn] \in EarlyWires /\ wire'[j.conn] \notin EarlyWires
    BY <1>5, <2>3 DEF EarlyWires
  <2> QED BY <2>4, <2>5, <2>6, <2>7, <2>8 DEF JobsGoOn
<1>6. CASE JobNotifies(j)
  <2> DEFINE step == IF j.step = "notify" THEN "finish" ELSE "close"
  <2> DEFINE new == [j EXCEPT !.step = step]
  <2>1. jobs' = Advance(j, new) /\ j.step \in {"notify", "closing"}
    BY <1>6 DEF JobNotifies, To
  <2>2. new.step = step /\ new.conn = j.conn /\ new.kind = j.kind
    BY <1>0 DEF JobSteps
  <2> HIDE DEF new
  <2>3. ~Asks(new, c) /\ (Ends(new, c) <=> Ends(j, c))
    BY <2>1, <2>2 DEF Asks, Ends
  <2> QED BY <2>1, <2>3, JobMoves
<1>7. ASSUME jobs' = jobs (-) SetToBag({j}), Ends(j, c) => socket'[c] = None PROVE JobsGoOn(c)
  <2>1. /\ BagToSet(jobs') \subseteq BagToSet(jobs)
        /\ \A k \in BagToSet(jobs) : k # j => k \in BagToSet(jobs')
    BY <1>7, AdvanceJobs, OtherJobs
  <2>2. \A B : /\ Asking(B, c) <=> \E k \in BagToSet(B) : Asks(k, c)
               /\ Ending(B, c) <=> \E k \in BagToSet(B) : Ends(k, c)
    BY DEF Asking, Ending, Asks, Ends
  <2> QED BY <1>7, <2>1, <2>2 DEF JobsGoOn
<1>8. CASE JobCloses(j)
  <2>1. c = j.conn => socket'[c] = None
    BY <1>0, <1>8 DEF JobCloses, Close, ServerInv, RetainCountExact, TypeOK
  <2>2. CASE j.kind = "dealloc"
    <3>1. jobs' = jobs (-) SetToBag({j})
      BY <1>8, <2>2 DEF JobCloses
    <3> QED BY <1>7, <2>1, <3>1 DEF Ends
  <2>3. CASE j.kind # "dealloc"
    <3> DEFINE new == [j EXCEPT !.step = "finish"]
    <3>1. jobs' = Advance(j, new)
      BY <1>8, <2>3 DEF JobCloses, To
    <3>2. new.step = "finish"
      BY <1>0 DEF JobSteps
    <3> HIDE DEF new
    <3>3. ~Asks(new, c) /\ ~Ends(new, c)
      BY <3>2 DEF Asks, Ends
    <3> QED BY <2>1, <3>1, <3>3, JobMoves DEF Ends
  <2> QED BY <2>2, <2>3
<1>9. CASE JobFinishes(j)
  <2>1. ~Ends(j, c)
    BY <1>9 DEF JobFinishes, Ends
  <2>2. CASE ~Disposed(j.conn)
    BY <1>7, <1>9, <2>1, <2>2 DEF JobFinishes
  <2>3. CASE Disposed(j.conn)
    <3> DEFINE new == Job(j.conn, "dealloc", "closing")
    <3>1. jobs' = Advance(j, new)
      BY <1>9, <2>3 DEF JobFinishes
    <3>2. new.kind = "dealloc"
      BY <1>0, NewJob DEF JobSteps, JobKinds
    <3> HIDE DEF new
    <3>3. ~Asks(new, c) /\ ~Ends(new, c)
      BY <3>2 DEF Asks, Ends
    <3> QED BY <2>1, <3>1, <3>3, JobMoves
  <2> QED BY <2>2, <2>3
<1> QED BY <1>2, <1>3, <1>4, <1>5, <1>6, <1>8, <1>9

\* The other steps dispatch blocks that are at their beginning.
LEMMA JobsOfOthers ==
  ASSUME ServerInv, NEW c \in Connections,
         Main \/ PollThread \/ (\E d \in Connections : Peer(d)) \/ UNCHANGED vars
  PROVE  JobsGoOn(c)
<1>1. ASSUME UNCHANGED jobs PROVE JobsGoOn(c)
  BY <1>1 DEF JobsGoOn
<1>2. ASSUME NEW new, jobs' = Dispatch(new), new.step \in {"start", "hup"},
             Asks(new, c) => wire[c] \in EarlyWires /\ wire'[c] \notin EarlyWires
      PROVE  JobsGoOn(c)
  <2>1. BagToSet(jobs') = BagToSet(jobs) \cup {new}
    BY <1>2, DispatchJobs
  <2>2. \A B : /\ Asking(B, c) <=> \E k \in BagToSet(B) : Asks(k, c)
               /\ Ending(B, c) <=> \E k \in BagToSet(B) : Ends(k, c)
    BY DEF Asking, Ending, Asks, Ends
  <2>3. ~Ends(new, c)
    BY <1>2 DEF Ends
  <2> QED BY <1>2, <2>1, <2>2, <2>3 DEF JobsGoOn
<1>3. CASE Main \/ (\E d \in Connections : Peer(d)) \/ UNCHANGED vars
  BY <1>1, <1>3 DEF Main, MainRegisters, MainNotifies, Peer, Connect, SendsPart, SendsRequest,
                    HangsUp, Receives, peerFrame, vars, connVars, connVarsButMain
<1>4. CASE PollApplies \/ PollLoops \/ PollCallsPipeBlock \/ PollAccepts \/ PollAcceptsNothing
           \/ PollReleases
  BY <1>1, <1>4 DEF PollApplies, PollLoops, PollCallsPipeBlock, PollAccepts, PollAcceptsNothing,
                    PollReleases, connVars, connVarsButMain
<1>5. CASE PollDispatches
  <2> DEFINE kind == IF Current.events = "in" THEN "read" ELSE "send"
  <2> DEFINE step == IF Current.revents = "hup" THEN "hup" ELSE "start"
  <2>1. jobs' = Dispatch(Job(Current.block, kind, step))
    BY <1>5 DEF PollDispatches
  <2>2. /\ Job(Current.block, kind, step).step \in {"start", "hup"}
        /\ Job(Current.block, kind, step).kind # "process"
    BY DEF Job
  <2> QED BY <1>2, <2>1, <2>2 DEF Asks
<1>6. CASE PollReads
  <2>1. accepting \in Connections /\ wire \in [Connections -> {"away", "backlog", "quiet", "some",
                                                 "request", "waiting", "closed", "reset", "gone"}]
    BY <1>6 DEF PollReads, ServerInv, InvLifetime, RetainCountExact, TypeOK
  <2>2. CASE wire[accepting] = "request"
    <3> DEFINE new == Job(accepting, "process", "start")
    <3>1. jobs' = Dispatch(new) /\ TakeInput(accepting)
      BY <1>6, <2>2 DEF PollReads, ReadInPoll
    <3>2. wire'[accepting] = "waiting"
      BY <2>1, <2>2, <3>1 DEF TakeInput, Readable
    <3>3. new.step = "start" /\ new.conn = accepting
      BY DEF Job
    <3> HIDE DEF new
    <3> QED BY <1>2, <2>2, <3>1, <3>2, <3>3 DEF Asks, EarlyWires
  <2>3. CASE wire[accepting] # "request"
    BY <1>1, <1>6, <2>3 DEF PollReads, ReadInPoll
  <2> QED BY <2>2, <2>3
<1> QED BY <1>3, <1>4, <1>5, <1>6 DEF PollThread

------------------------------
(* How many more hold a response after each step. *)

\* The jobs that use it after one was dispatched, went on or ended.
LEMMA UsersMove ==
  ASSUME ServerInv, NEW c
  PROVE  /\ Users(jobs, c) \in Nat
         /\ \A new \in Jobs : Users(Dispatch(new), c) = Users(jobs, c) + One(Uses(new, c))
         /\ \A j \in BagToSet(jobs) :
              /\ Users(jobs (-) SetToBag({j}), c) \in Nat
              /\ Users(jobs, c) = Users(jobs (-) SetToBag({j}), c) + One(Uses(j, c))
              /\ \A new \in Jobs : /\ Users(Advance(j, new), c) \in Nat
                                   /\ Users(Advance(j, new), c) + One(Uses(j, c)) =
                                        Users(jobs, c) + One(Uses(new, c))
<1> DEFINE S == UserSet(c)
<1>1. IsABag(jobs) /\ IsFiniteSet(BagToSet(jobs)) /\ BagToSet(jobs) \subseteq Jobs
  BY QueuesAreGood DEF GoodQueues
<1>2. \A k \in Jobs : k \in S <=> Uses(k, c)
  BY DEF UserSet
<1> HIDE DEF S
<1>3. ASSUME NEW B, IsABag(B), IsFiniteSet(BagToSet(B)), NEW new \in Jobs
      PROVE  Cardinality(CopiesAmong(B (+) SetToBag({new}), S)) =
               Cardinality(CopiesAmong(B, S)) + One(Uses(new, c))
  <2>1. Cardinality(CopiesAmong(B (+) SetToBag({new}), S)) =
          Cardinality(CopiesAmong(B, S)) + (IF new \in S THEN 1 ELSE 0)
    BY ONLY <1>3, CopiesAmongAdd
  <2> QED BY <1>2, <2>1 DEF One
<1>4. Cardinality(CopiesAmong(jobs, S)) \in Nat
  BY <1>1, CopiesAmongFinite
<1>5. ASSUME NEW new \in Jobs
      PROVE  Cardinality(CopiesAmong(Dispatch(new), S)) = Cardinality(CopiesAmong(jobs, S)) + One(Uses(new, c))
  BY <1>1, <1>3 DEF Dispatch
<1>6. ASSUME NEW j \in BagToSet(jobs)
      PROVE  /\ Cardinality(CopiesAmong(jobs (-) SetToBag({j}), S)) \in Nat
             /\ Cardinality(CopiesAmong(jobs, S)) =
                  Cardinality(CopiesAmong(jobs (-) SetToBag({j}), S)) + One(Uses(j, c))
             /\ \A new \in Jobs :
                  /\ Cardinality(CopiesAmong(Advance(j, new), S)) \in Nat
                  /\ Cardinality(CopiesAmong(Advance(j, new), S)) + One(Uses(j, c)) =
                       Cardinality(CopiesAmong(jobs, S)) + One(Uses(new, c))
  <2> DEFINE D == jobs (-) SetToBag({j})
  <2>1. IsABag(D) /\ IsFiniteSet(BagToSet(D))
    BY AdvanceJobs
  <2>2. Cardinality(CopiesAmong(jobs, S)) = Cardinality(CopiesAmong(D, S)) + One(Uses(j, c))
    <3>1. Cardinality(CopiesAmong(jobs, S)) =
            Cardinality(CopiesAmong(D, S)) + (IF j \in S THEN 1 ELSE 0)
      BY ONLY <1>1, <1>6, CopiesAmongDrop
    <3> QED BY <1>1, <1>2, <1>6, <3>1 DEF One
  <2> HIDE DEF D
  <2>3. Cardinality(CopiesAmong(D, S)) \in Nat
    BY <2>1, CopiesAmongFinite
  <2>4. ASSUME NEW new \in Jobs
        PROVE  Cardinality(CopiesAmong(D (+) SetToBag({new}), S)) =
                 Cardinality(CopiesAmong(D, S)) + One(Uses(new, c))
    BY <1>3, <2>1
  <2>5. One(Uses(j, c)) \in {0, 1} /\ \A new : One(Uses(new, c)) \in {0, 1}
    BY DEF One
  <2> QED BY <2>2, <2>3, <2>4, <2>5 DEF Advance, D
<1> QED BY <1>4, <1>5, <1>6 DEF Users, S

\* Counts of the same kind add up.
LEMMA HoldersAdd ==
  ASSUME ServerInv, NEW c, NEW a \in Int, NEW b \in Int, NEW d \in Int, NEW n, n = a + b + d,
         Cardinality(Resuming(updates', c)) = Cardinality(Resuming(updates, c)) + a,
         Cardinality(Resuming(polls', c)) = Cardinality(Resuming(polls, c)) + b,
         Users(jobs', c) = Users(jobs, c) + d
  PROVE  Counted(c, n)
<1>1. /\ Cardinality(Resuming(updates, c)) \in Nat /\ Cardinality(Resuming(polls, c)) \in Nat
      /\ Users(jobs, c) \in Nat
  <2>1. updates \in Seq(Updates) /\ polls \in Seq(Updates)
    BY QueuesAreGood DEF GoodQueues
  <2> QED BY <2>1, UsersMove, ResumingIs
<1>2. /\ Holders(updates, polls, jobs, c) = Cardinality(Resuming(updates, c))
           + Cardinality(Resuming(polls, c)) + Users(jobs, c)
      /\ Holders(updates', polls', jobs', c) = Cardinality(Resuming(updates', c))
           + Cardinality(Resuming(polls', c)) + Users(jobs', c)
  BY DEF Holders, Users
<1> QED BY <1>1, <1>2 DEF Counted

\* An update that resumes nothing, or none, at the end of the queue.
LEMMA QueueGoesOn ==
  ASSUME ServerInv, NEW c \in Connections
  PROVE  /\ UNCHANGED updates => Cardinality(Resuming(updates', c)) = Cardinality(Resuming(updates, c)) + 0
         /\ \A u \in Updates : updates' = Append(updates, u) =>
              Cardinality(Resuming(updates', c)) = Cardinality(Resuming(updates, c)) + One(Resumes(u, c))
         /\ \A fd : ~Resumes(Unregister(fd), c)
         /\ \A fd, d, rep : ~Resumes(Register(fd, d, "in", rep), c)
         /\ UNCHANGED polls => Cardinality(Resuming(polls', c)) = Cardinality(Resuming(polls, c)) + 0
         /\ UNCHANGED jobs => Users(jobs', c) = Users(jobs, c) + 0
<1>1. updates \in Seq(Updates) /\ polls \in Seq(Updates)
  BY QueuesAreGood DEF GoodQueues
<1>2. Cardinality(Resuming(updates, c)) \in Nat /\ Cardinality(Resuming(polls, c)) \in Nat
  BY <1>1, ResumingIs
<1>3. \A u \in Updates : Cardinality(Resuming(Append(updates, u), c)) =
                           Cardinality(Resuming(updates, c)) + One(Resumes(u, c))
  BY <1>1, ResumingAppend DEF One
<1>4. \A fd : ~Resumes(Unregister(fd), c)
  BY Constants, UpdateFacts DEF Resumes
<1>5. \A fd, d, rep : ~Resumes(Register(fd, d, "in", rep), c)
  BY UpdateFacts DEF Resumes
<1>6. Users(jobs, c) \in Nat
  BY UsersMove
<1>7. ASSUME UNCHANGED updates
      PROVE  Cardinality(Resuming(updates', c)) = Cardinality(Resuming(updates, c)) + 0
  BY <1>2, <1>7
<1>8. ASSUME UNCHANGED polls
      PROVE  Cardinality(Resuming(polls', c)) = Cardinality(Resuming(polls, c)) + 0
  BY <1>2, <1>8
<1>9. ASSUME UNCHANGED jobs PROVE Users(jobs', c) = Users(jobs, c) + 0
  BY <1>6, <1>9
<1>10. ASSUME NEW u \in Updates, updates' = Append(updates, u)
       PROVE  Cardinality(Resuming(updates', c)) = Cardinality(Resuming(updates, c)) + One(Resumes(u, c))
  BY <1>3, <1>10
<1> QED BY <1>4, <1>5, <1>7, <1>8, <1>9, <1>10

\* Nothing is queued that resumes an answer, and nobody starts to use one.
LEMMA NobodyMore ==
  ASSUME ServerInv, NEW c \in Connections, UNCHANGED polls,
         \/ UNCHANGED updates
         \/ \E u \in Updates : updates' = Append(updates, u) /\ ~Resumes(u, c),
         Users(jobs', c) = Users(jobs, c) + 0
  PROVE  Counted(c, 0)
<1>1. Cardinality(Resuming(updates', c)) = Cardinality(Resuming(updates, c)) + 0
  <2>1. CASE UNCHANGED updates
    BY <2>1, QueueGoesOn
  <2>2. ASSUME NEW u \in Updates, updates' = Append(updates, u), ~Resumes(u, c)
        PROVE  Cardinality(Resuming(updates', c)) = Cardinality(Resuming(updates, c)) + 0
    BY <2>2, QueueGoesOn DEF One
  <2> QED BY <2>1, <2>2
<1>2. Cardinality(Resuming(polls', c)) = Cardinality(Resuming(polls, c)) + 0
  BY QueueGoesOn
<1>3. 0 \in Int /\ 0 = 0 + 0 + 0
  OBVIOUS
<1> QED BY <1>1, <1>2, <1>3, HoldersAdd

\* Who holds a response is not changed by what the main thread, the poll thread and the
\* peers do besides applying updates and dispatching blocks.
LEMMA QuietlyCounted ==
  ASSUME ServerInv, NEW c \in Connections,
         \/ Main \/ PollLoops \/ PollCallsPipeBlock \/ PollAccepts \/ PollAcceptsNothing
         \/ PollReads \/ PollReleases \/ (\E d \in Connections : Peer(d)) \/ UNCHANGED vars
  PROVE  Counted(c, 0)
<1>0. TypeOK
  BY DEF ServerInv, RetainCountExact
<1>1. UNCHANGED jobs => Users(jobs', c) = Users(jobs, c) + 0
  BY QueueGoesOn
<1>2. ASSUME UNCHANGED <<updates, polls, jobs>> PROVE Counted(c, 0)
  BY <1>1, <1>2, NobodyMore
<1>3. ASSUME UNCHANGED <<polls, jobs>>, NEW fd \in Descriptors, updates' = Append(updates, Unregister(fd))
      PROVE  Counted(c, 0)
  BY <1>1, <1>3, NobodyMore, QueueGoesOn, UpdateTypes
<1>4. ASSUME UNCHANGED <<polls, jobs>>, NEW fd, NEW d, NEW rep,
             Register(fd, d, "in", rep) \in Updates,
             updates' = Append(updates, Register(fd, d, "in", rep))
      PROVE  Counted(c, 0)
  BY <1>1, <1>4, NobodyMore, QueueGoesOn
<1>5. CASE Main
  <2>1. CASE MainRegisters
    <3>1. Register(ListenFd, Listener, "in", TRUE) \in Updates
      BY UpdateTypes
    <3> QED BY <1>4, <2>1, <3>1 DEF MainRegisters, connVarsButMain
  <2>2. CASE MainNotifies
    BY <1>2, <2>2 DEF MainNotifies, connVarsButMain
  <2> QED BY <1>5, <2>1, <2>2 DEF Main
<1>6. CASE PollCallsPipeBlock \/ PollAccepts \/ PollAcceptsNothing \/ UNCHANGED vars
           \/ (\E d \in Connections : Peer(d))
  BY <1>2, <1>6 DEF PollCallsPipeBlock, PollAccepts, PollAcceptsNothing, Called, vars, pollVars,
                    connVars, connVarsButMain, Peer, Connect, SendsPart, SendsRequest, HangsUp,
                    Receives, peerFrame
<1>7. ASSUME UNCHANGED <<updates, jobs>>, NEW r, \A i \in DOMAIN polls : r[i] \in {"none", "ready", "hup"},
             polls' = [i \in DOMAIN polls |-> [polls[i] EXCEPT !.revents = r[i]]]
      PROVE  Counted(c, 0)
  <2>1. DOMAIN polls' = DOMAIN polls /\ \A i \in DOMAIN polls : /\ polls'[i].block = polls[i].block
                                                                /\ polls'[i].events = polls[i].events
    BY <1>0, <1>7, EntriesReported
  <2>2. Resuming(polls', c) = Resuming(polls, c)
    BY <2>1 DEF Resuming
  <2>3. Holders(updates', polls', jobs', c) = Holders(updates, polls, jobs, c)
    BY <1>7, <2>2 DEF Holders
  <2>4. Holders(updates, polls, jobs, c) \in Nat
    BY QueuesAreGood, HoldersAre
  <2> QED BY <2>3, <2>4 DEF Counted
<1>8. CASE PollLoops
  <2>1. UNCHANGED jobs
    BY <1>8 DEF PollLoops, connVars, connVarsButMain
  <2>2. CASE RegisterPipe
    <3>1. Register(PipeFd, PipeBlock, "in", TRUE) \in Updates
      BY UpdateTypes
    <3> QED BY <1>4, <2>1, <2>2, <3>1 DEF RegisterPipe
  <2>3. CASE ReadPipe \/ ApplyDone
    BY <1>2, <2>1, <2>3 DEF ReadPipe, ApplyDone
  <2>4. CASE Fire
    <3>1. cursor' \in DOMAIN polls
      BY <1>0, <2>4, PendingIsMet DEF Fire
    <3>2. polls[cursor'].fd \in Descriptors
      BY <1>0, <3>1, EntryTypes DEF Updates
    <3> QED BY <1>2, <1>3, <2>1, <2>4, <3>2 DEF Fire
  <2>5. CASE ScanDone
    <3> DEFINE r == [i \in DOMAIN polls |-> "none"]
    <3>1. /\ \A i \in DOMAIN polls : r[i] \in {"none", "ready", "hup"}
          /\ polls' = [i \in DOMAIN polls |-> [polls[i] EXCEPT !.revents = r[i]]]
          /\ UNCHANGED updates
      BY <2>5 DEF ScanDone
    <3> QED BY <1>7, <2>1, <3>1
  <2>6. CASE PollReturns([i \in DOMAIN polls |-> Revents(polls[i])])
    <3> DEFINE r == [i \in DOMAIN polls |-> Revents(polls[i])]
    <3>1. /\ \A i \in DOMAIN polls : r[i] \in {"none", "ready", "hup"}
          /\ polls' = [i \in DOMAIN polls |-> [polls[i] EXCEPT !.revents = r[i]]]
          /\ UNCHANGED updates
      BY <2>6, ReventsTypes DEF PollReturns
    <3> QED BY <1>7, <2>1, <3>1
  <2> QED BY <1>8, <2>2, <2>3, <2>4, <2>5, <2>6 DEF PollLoops
<1>9. CASE PollReads
  <2>0. ReadInPoll(accepting) /\ UNCHANGED polls
    BY <1>9 DEF PollReads
  <2>1. accepting \in Connections /\ socket[accepting] # None
    <3>1. accepting \in Connections
      BY <1>0, <1>9 DEF PollReads, ServerInv, InvLifetime, TypeOK
    <3>2. Creating(accepting)
      BY <1>9 DEF PollReads, Creating
    <3> QED BY <3>1, <3>2 DEF ServerInv, InvDescriptor, HasDescriptor
  <2>2. CASE wire[accepting] = "request"
    <3> DEFINE new == Job(accepting, "process", "start")
    <3>1. jobs' = Dispatch(new) /\ UNCHANGED updates
      BY <2>0, <2>2 DEF ReadInPoll
    <3>2. new \in Jobs /\ new.kind = "process" /\ new.step = "start"
      BY <2>1, NewJob DEF JobKinds, JobSteps
    <3> HIDE DEF new
    <3>3. Users(jobs', c) = Users(jobs, c) + 0
      BY <3>1, <3>2, UsersMove DEF One, Uses
    <3> QED BY <2>0, <3>1, <3>3, NobodyMore
  <2>3. CASE wire[accepting] \in {"quiet", "some", "waiting"}
    <3>1. Await(accepting, "in") /\ UNCHANGED jobs
      BY <2>0, <2>3 DEF ReadInPoll
    <3>2. /\ Register(socket[accepting], accepting, "in", FALSE) \in Updates
          /\ updates' = Append(updates, Register(socket[accepting], accepting, "in", FALSE))
      BY <2>1, <3>1, AwaitTypes
    <3> QED BY <1>4, <2>0, <3>1, <3>2
  <2>4. CASE wire[accepting] \notin {"request", "quiet", "some", "waiting"}
    BY <1>2, <2>0, <2>4 DEF ReadInPoll
  <2> QED BY <2>2, <2>3, <2>4
<1>10. CASE PollReleases
  <2>1. updates' = updates \o DisposeUpdates(accepting) /\ UNCHANGED <<polls, jobs>>
    BY <1>10 DEF PollReleases, Called
  <2>2. CASE ~Disposed(accepting)
    <3>1. updates' = updates
      BY <1>0, <2>1, <2>2, Extra, ConcatEmptySeq, ZenonT(30) DEF TypeOK
    <3> QED BY <1>2, <2>1, <3>1
  <2>3. CASE Disposed(accepting)
    <3>1. /\ socket[accepting] \in Sockets /\ DisposeUpdates(accepting) = <<Unregister(socket[accepting])>>
          /\ Unregister(socket[accepting]) \in Updates
      BY <2>3, Extra
    <3>2. updates' = Append(updates, Unregister(socket[accepting]))
      BY <1>0, <2>1, <3>1, ConcatOne DEF TypeOK
    <3> QED BY <1>3, <2>1, <3>1, <3>2 DEF Descriptors
  <2> QED BY <2>2, <2>3
<1> QED BY <1>5, <1>6, <1>8, <1>9, <1>10

\* A block that is dispatched uses what its entry captured, besides the entry.
LEMMA DispatchCounted ==
  ASSUME ServerInv, InvKinds, PollDispatches, NEW c \in Connections
  PROVE  /\ Counted(c, One(Current.events = "out" /\ Current.block = c))
         /\ Current.events = "out" /\ Current.block = c => Holders(updates, polls, jobs, c) # 0
<1>0. TypeOK
  BY DEF ServerInv, RetainCountExact
<1>1. /\ cursor \in DOMAIN polls /\ Current \in Updates /\ Current.block \in Connections
      /\ Current.events \in {"in", "out"}
  <2>1. thread = "call" /\ Current.block \in Connections
    BY DEF PollDispatches
  <2>2. cursor \in DOMAIN polls
    BY <2>1 DEF ServerInv, InvLifetime
  <2>3. Current \in Updates
    BY <1>0, <2>2, EntryTypes DEF Current
  <2>4. Current.events # "none"
    BY <2>1, <2>2 DEF InvKinds, Current
  <2> QED BY <2>1, <2>2, <2>3, <2>4 DEF Updates
<1> DEFINE kind == IF Current.events = "in" THEN "read" ELSE "send"
<1> DEFINE step == IF Current.revents = "hup" THEN "hup" ELSE "start"
<1> DEFINE new == Job(Current.block, kind, step)
<1>2. jobs' = Dispatch(new) /\ UNCHANGED <<polls, updates>>
  BY DEF PollDispatches, Called
<1>3. new \in Jobs /\ new.conn = Current.block /\ new.kind = kind
  BY <1>1, NewJob DEF JobKinds, JobSteps
<1>4. Uses(new, c) <=> Current.events = "out" /\ Current.block = c
  BY <1>1, <1>3 DEF Uses
<1> HIDE DEF new
<1>5. Users(jobs', c) = Users(jobs, c) + One(Current.events = "out" /\ Current.block = c)
  <2>1. Users(Dispatch(new), c) = Users(jobs, c) + One(Uses(new, c))
    BY <1>3, UsersMove
  <2> QED BY <1>2, <1>4, <2>1 DEF One
<1>6. /\ Cardinality(Resuming(updates', c)) = Cardinality(Resuming(updates, c)) + 0
      /\ Cardinality(Resuming(polls', c)) = Cardinality(Resuming(polls, c)) + 0
  BY <1>2, QueueGoesOn
<1>7. Counted(c, One(Current.events = "out" /\ Current.block = c))
  <2> DEFINE n == One(Current.events = "out" /\ Current.block = c)
  <2>1. n \in Int /\ 0 \in Int /\ n = 0 + 0 + n
    BY DEF One
  <2> HIDE DEF n
  <2>2. Users(jobs', c) = Users(jobs, c) + n
    BY <1>5 DEF n
  <2>3. Counted(c, n)
    BY <1>6, <2>1, <2>2, HoldersAdd
  <2> QED BY <2>3 DEF n
<1>8. ASSUME Current.events = "out", Current.block = c PROVE Holders(updates, polls, jobs, c) # 0
  <2>1. cursor \in Resuming(polls, c)
    BY <1>1, <1>8 DEF Resuming, Current
  <2> QED BY <2>1, QueuesAreGood, HoldersAre
<1> QED BY <1>7, <1>8

\* An entry that is replaced or removed takes its block with it.
LEMMA ApplyCounted ==
  ASSUME ServerInv, PollApplies, NEW c \in Connections
  PROVE  /\ Counted(c, 0 - One(DisplacesSend /\ Displaced = c))
         /\ DisplacesSend /\ Displaced = c => Holders(updates, polls, jobs, c) # 0
<1> DEFINE h == Head(updates)
<1> DEFINE x == One(DisplacesSend /\ Displaced = c)
<1> DEFINE y == One(Resumes(h, c))
<1>0. TypeOK
  BY DEF ServerInv, RetainCountExact
<1>1. /\ polls \in Seq(Updates) /\ DOMAIN polls = 1..Len(polls) /\ Len(polls) \in Nat
      /\ updates \in Seq(Updates)
  BY <1>0, EntryTypes
<1>2. Draining /\ updates # <<>> /\ updates' = Tail(updates) \o DisposeUpdates(Displaced) /\ UNCHANGED jobs
  BY DEF PollApplies, ApplyRegister, ApplyUnregister, Draining
<1>3. h \in Updates
  BY AppliedUpdates
<1>4. polls' \in Seq(Updates)
  BY ApplyTypes
<1>5. /\ x \in {0, 1} /\ y \in {0, 1}
      /\ Cardinality(Resuming(polls, c)) \in Nat /\ Cardinality(Resuming(polls', c)) \in Nat
      /\ Cardinality(Resuming(updates, c)) \in Nat
  BY <1>1, <1>4, ResumingIs DEF One
<1>6. h.block = NoBlock => y = 0
  BY Constants DEF Resumes, One
<1>7. /\ Tail(updates) \in Seq(Updates)
      /\ Cardinality(Resuming(updates, c)) = Cardinality(Resuming(Tail(updates), c)) + y
  BY <1>1, <1>2, ResumingTail DEF One
<1>8. Cardinality(Resuming(updates', c)) = Cardinality(Resuming(Tail(updates), c))
  <2>1. CASE ~Disposed(Displaced)
    <3>1. updates' = Tail(updates)
      BY <1>2, <1>7, <2>1, Extra, ConcatEmptySeq, ZenonT(30)
    <3> QED BY <3>1
  <2>2. CASE Disposed(Displaced)
    <3> DEFINE u == Unregister(socket[Displaced])
    <3>1. u \in Updates /\ DisposeUpdates(Displaced) = <<u>>
      BY <2>2, Extra
    <3>2. ~Resumes(u, c)
      BY QueueGoesOn
    <3> HIDE DEF u
    <3>3. updates' = Append(Tail(updates), u)
      BY <1>2, <1>7, <3>1, ConcatOne
    <3>4. Cardinality(Resuming(Append(Tail(updates), u), c)) =
            Cardinality(Resuming(Tail(updates), c)) + (IF Resumes(u, c) THEN 1 ELSE 0)
      BY <1>7, <3>1, ResumingAppend
    <3>5. Cardinality(Resuming(Tail(updates), c)) \in Nat
      BY <1>7, ResumingIs
    <3> QED BY <3>2, <3>3, <3>4, <3>5
  <2> QED BY <2>1, <2>2
<1>9. Cardinality(Resuming(polls', c)) + x = Cardinality(Resuming(polls, c)) + y
  <2>1. CASE IndexOf(h.fd) = {}
    <3>1. x = 0
      BY <2>1 DEF DisplacesSend, One
    <3>2. CASE h.block # NoBlock
      <4>1. polls' = Append(polls, h)
        BY <2>1, <3>2 DEF PollApplies, ApplyRegister, ApplyUnregister
      <4>2. Cardinality(Resuming(Append(polls, h), c)) = Cardinality(Resuming(polls, c)) + y
        BY <1>1, <1>3, ResumingAppend DEF One
      <4> QED BY <1>5, <3>1, <4>1, <4>2
    <3>3. CASE h.block = NoBlock
      <4>1. polls' = polls
        BY <2>1, <3>3 DEF PollApplies, ApplyRegister, ApplyUnregister
      <4> QED BY <1>5, <1>6, <3>1, <3>3, <4>1
    <3> QED BY <3>2, <3>3
  <2>2. CASE IndexOf(h.fd) # {}
    <3>1. PICK f \in DOMAIN polls : /\ IndexOf(h.fd) = {f} /\ polls[f].fd = h.fd
                                    /\ (CHOOSE i \in IndexOf(h.fd) : TRUE) = f
                                    /\ Displaced = polls[f].block
      BY <2>2, DisplacedEntry
    <3>2. x = One(Resumes(polls[f], c))
      <4>1. DisplacesSend <=> polls[f].events = "out"
        BY <1>2, <3>1 DEF DisplacesSend
      <4> QED BY <3>1, <4>1 DEF Resumes, One
    <3>3. f \in 1..Len(polls)
      BY <1>1
    <3>4. CASE h.block # NoBlock
      <4>1. polls' = [polls EXCEPT ![f] = h]
        BY <2>2, <3>1, <3>4 DEF PollApplies, ApplyRegister, ApplyUnregister
      <4>2. Cardinality(Resuming([polls EXCEPT ![f] = h], c)) + One(Resumes(polls[f], c)) =
              Cardinality(Resuming(polls, c)) + y
        BY <1>1, <1>3, <3>3, ResumingReplace DEF One
      <4> QED BY <3>2, <4>1, <4>2
    <3>5. CASE h.block = NoBlock
      <4>1. polls' = [i \in 1..(Len(polls) - 1) |->
                        IF i \in IndexOf(h.fd) THEN polls[Len(polls)] ELSE polls[i]]
        BY <2>2, <3>5 DEF PollApplies, ApplyRegister, ApplyUnregister
      <4>2. /\ DOMAIN polls' = 1..(Len(polls) - 1)
            /\ \A i \in 1..(Len(polls) - 1) : polls'[i] = IF i = f THEN polls[Len(polls)] ELSE polls[i]
        BY <3>1, <4>1
      <4>3. Cardinality(Resuming(polls, c)) =
              Cardinality(Resuming(polls', c)) + (IF Resumes(polls[f], c) THEN 1 ELSE 0)
        <5> DEFINE new == polls'
        <5> DEFINE seq == polls
        <5>1. /\ seq \in Seq(Updates) /\ f \in 1..Len(seq) /\ new \in Seq(Updates)
              /\ DOMAIN new = 1..(Len(seq) - 1)
              /\ \A i \in 1..(Len(seq) - 1) : new[i] = IF i = f THEN seq[Len(seq)] ELSE seq[i]
          BY ONLY <1>1, <1>4, <3>3, <4>2
        <5> HIDE DEF new, seq
        <5>2. Cardinality(Resuming(seq, c)) =
                Cardinality(Resuming(new, c)) + (IF Resumes(seq[f], c) THEN 1 ELSE 0)
          BY ONLY <5>1, ResumingRemove
        <5> QED BY <5>2 DEF new, seq
      <4> QED BY <1>5, <1>6, <3>2, <3>5, <4>3 DEF One
    <3> QED BY <3>4, <3>5
  <2> QED BY <2>1, <2>2
<1>10. Users(jobs', c) = Users(jobs, c) + 0
  BY <1>2, QueueGoesOn
<1>11. Counted(c, 0 - x)
  <2> HIDE DEF x, y, h
  <2>1. /\ 0 - y \in Int /\ y - x \in Int /\ 0 \in Int /\ 0 - x = (0 - y) + (y - x) + 0
        /\ Cardinality(Resuming(updates', c)) = Cardinality(Resuming(updates, c)) + (0 - y)
        /\ Cardinality(Resuming(polls', c)) = Cardinality(Resuming(polls, c)) + (y - x)
    <3>1. Cardinality(Resuming(Tail(updates), c)) \in Nat
      BY <1>7, ResumingIs
    <3> QED BY ONLY <1>5, <1>7, <1>8, <1>9, <3>1
  <2>2. \A a, b \in Int : /\ Cardinality(Resuming(updates', c)) = Cardinality(Resuming(updates, c)) + a
                          /\ Cardinality(Resuming(polls', c)) = Cardinality(Resuming(polls, c)) + b
                          /\ 0 - x = a + b + 0
                          => Counted(c, 0 - x)
    <3>1. 0 \in Int
      OBVIOUS
    <3> QED BY ONLY <1>10, <3>1, HoldersAdd, ServerInv
  <2> QED BY <2>1, <2>2
<1>12. ASSUME DisplacesSend, Displaced = c PROVE Holders(updates, polls, jobs, c) # 0
  <2>1. PICK f \in DOMAIN polls : /\ IndexOf(h.fd) = {f} /\ Displaced = polls[f].block
    BY <1>12, DisplacedEntry, Constants
  <2>2. f \in Resuming(polls, c)
    BY <1>12, <2>1 DEF DisplacesSend, Resuming
  <2> QED BY <2>2, QueuesAreGood, HoldersAre
<1> QED BY <1>11, <1>12

\* A job that goes on uses what it did.
LEMMA StillUses ==
  ASSUME ServerInv, NEW j \in BagToSet(jobs), NEW step \in JobSteps, jobs' = To(j, step),
         j.kind = "process" => j.step # "start" /\ step # "start", NEW c
  PROVE  Users(jobs', c) = Users(jobs, c) + 0
<1> DEFINE new == [j EXCEPT !.step = step]
<1>1. new \in Jobs /\ new.conn = j.conn /\ new.kind = j.kind /\ new.step = step
  BY JobTypes, NextJob
<1>2. jobs' = Advance(j, new)
  BY DEF To
<1> HIDE DEF new
<1>3. Uses(new, c) <=> Uses(j, c)
  BY <1>1 DEF Uses
<1>4. /\ Users(jobs', c) + One(Uses(j, c)) = Users(jobs, c) + One(Uses(new, c))
      /\ Users(jobs', c) \in Nat /\ Users(jobs, c) \in Nat
  BY <1>1, <1>2, UsersMove
<1>5. One(Uses(new, c)) = One(Uses(j, c)) /\ One(Uses(j, c)) \in Nat
  BY <1>3 DEF One
<1> QED BY <1>4, <1>5

\* Most of what a job does lets as many hold a response as before.
LEMMA RunQuietlyCounted ==
  ASSUME ServerInv, NEW j \in BagToSet(jobs), NEW c \in Connections,
         \/ JobHup(j) \/ JobReads(j) \/ JobNotifies(j) \/ JobCloses(j)
         \/ JobAnswers(j) /\ j.kind = "send"
         \/ j.step = "sending" /\ AnswerGoesOn
         \/ j.step = "sending" /\ AnswerSent(j)
  PROVE  Counted(c, 0)
<1>0. TypeOK
  BY DEF ServerInv, RetainCountExact
<1>1. /\ j \in Jobs /\ j.conn \in Connections /\ j.kind \in JobKinds /\ j.step \in JobSteps
      /\ j.kind = "dealloc" => j.step \in {"closing", "close"}
      /\ IsAtWork(j) => socket[j.conn] \in Sockets
  <2>1. IsAtWork(j) => j \in AtWork(j.conn)
    BY JobTypes
  <2>2. j.kind = "dealloc" => j.step \in {"closing", "close"}
    BY DEF ServerInv, InvLifetime
  <2> QED BY <2>1, <2>2, JobTypes, SoleWorker
<1>2. ASSUME UNCHANGED <<updates, polls>>, NEW step \in JobSteps, jobs' = To(j, step),
             j.kind = "process" => j.step # "start" /\ step # "start"
      PROVE  Counted(c, 0)
  <2>1. Users(jobs', c) = Users(jobs, c) + 0
    BY <1>2, StillUses
  <2> QED BY <1>2, <2>1, NobodyMore
<1>3. CASE JobHup(j)
  <2>1. /\ UNCHANGED <<updates, polls>> /\ jobs' = To(j, "finish") /\ "finish" \in JobSteps
        /\ j.step = "hup"
    BY <1>3 DEF JobHup, jobFrame, JobSteps
  <2> QED BY <1>2, <2>1
<1>4. CASE JobReads(j)
  <2>0. /\ j.kind = "read" /\ j.step = "start" /\ UNCHANGED polls
        /\ "finish" \in JobSteps /\ "notify" \in JobSteps
    BY <1>4 DEF JobReads, jobFrame, JobSteps
  <2>1. CASE wire[j.conn] = "request"
    <3> DEFINE new == [j EXCEPT !.step = "finish"]
    <3> DEFINE ask == Job(j.conn, "process", "start")
    <3>1. jobs' = Advance(j, new) (+) SetToBag({ask}) /\ UNCHANGED updates
      BY <1>4, <2>1 DEF JobReads, To
    <3>2. new \in Jobs /\ new.conn = j.conn /\ new.kind = j.kind
      BY <1>1, <2>0, NextJob
    <3>3. ask \in Jobs /\ ask.kind = "process" /\ ask.step = "start"
      BY <1>1, NewJob DEF JobKinds, JobSteps
    <3> HIDE DEF new, ask
    <3>4. ~Uses(ask, c) /\ ~Uses(new, c) /\ ~Uses(j, c)
      BY <2>0, <3>2, <3>3 DEF Uses
    <3>5. Users(Advance(j, new), c) = Users(jobs, c) + 0
      <4>1. /\ Users(Advance(j, new), c) + One(Uses(j, c)) = Users(jobs, c) + One(Uses(new, c))
            /\ Users(Advance(j, new), c) \in Nat /\ Users(jobs, c) \in Nat
        BY <3>2, UsersMove
      <4>2. One(Uses(j, c)) = 0 /\ One(Uses(new, c)) = 0
        BY <3>4 DEF One
      <4> QED BY <4>1, <4>2
    <3>6. Users(jobs', c) = Users(Advance(j, new), c)
      <4>1. /\ IsABag(Advance(j, new)) /\ IsFiniteSet(BagToSet(Advance(j, new)))
            /\ ask \notin UserSet(c)
        BY <3>4, AdvanceJobs DEF UserSet
      <4>2. Cardinality(CopiesAmong(Advance(j, new) (+) SetToBag({ask}), UserSet(c))) =
              Cardinality(CopiesAmong(Advance(j, new), UserSet(c))) + (IF ask \in UserSet(c) THEN 1 ELSE 0)
        BY <4>1, CopiesAmongAdd
      <4>3. Cardinality(CopiesAmong(Advance(j, new), UserSet(c))) \in Nat
        BY <4>1, CopiesAmongFinite
      <4> QED BY <3>1, <4>1, <4>2, <4>3 DEF Users
    <3> QED BY <2>0, <3>1, <3>5, <3>6, NobodyMore
  <2>2. CASE wire[j.conn] \in {"quiet", "some", "waiting"}
    <3>1. Await(j.conn, "in") /\ jobs' = To(j, "notify")
      BY <1>4, <2>2 DEF JobReads
    <3>2. socket[j.conn] # None
      BY <1>1, <2>0, Constants DEF IsAtWork
    <3>3. /\ Register(socket[j.conn], j.conn, "in", FALSE) \in Updates
          /\ updates' = Append(updates, Register(socket[j.conn], j.conn, "in", FALSE))
      BY <1>1, <3>1, <3>2, AwaitTypes
    <3>4. Users(jobs', c) = Users(jobs, c) + 0
      BY <2>0, <3>1, StillUses
    <3>5. ~Resumes(Register(socket[j.conn], j.conn, "in", FALSE), c)
      BY QueueGoesOn
    <3> QED BY <2>0, <3>3, <3>4, <3>5, NobodyMore
  <2>3. CASE wire[j.conn] \notin {"request", "quiet", "some", "waiting"}
    BY <1>2, <1>4, <2>0, <2>3 DEF JobReads
  <2> QED BY <2>1, <2>2, <2>3
<1>5. CASE JobNotifies(j)
  <2> DEFINE step == IF j.step = "notify" THEN "finish" ELSE "close"
  <2>1. /\ UNCHANGED <<updates, polls>> /\ jobs' = To(j, step) /\ step \in JobSteps
        /\ j.step \in {"notify", "closing"} /\ step # "start"
    BY <1>5 DEF JobNotifies, jobFrame, JobSteps
  <2> HIDE DEF step
  <2> QED BY <1>2, <2>1
<1>6. CASE JobCloses(j)
  <2>0. UNCHANGED <<updates, polls>> /\ j.step = "close" /\ "finish" \in JobSteps
    BY <1>6 DEF JobCloses, jobFrame, JobSteps
  <2>1. CASE j.kind = "dealloc"
    <3>1. jobs' = jobs (-) SetToBag({j})
      BY <1>6, <2>1 DEF JobCloses
    <3>2. /\ Users(jobs, c) = Users(jobs', c) + One(Uses(j, c)) /\ Users(jobs', c) \in Nat
      BY <3>1, UsersMove
    <3>3. One(Uses(j, c)) = 0
      BY <2>1 DEF One, Uses
    <3>4. Users(jobs', c) = Users(jobs, c) + 0
      BY <3>2, <3>3
    <3> QED BY <2>0, <3>4, NobodyMore
  <2>2. CASE j.kind # "dealloc"
    BY <1>2, <1>6, <2>0, <2>2 DEF JobCloses
  <2> QED BY <2>1, <2>2
<1>7. CASE JobAnswers(j) /\ j.kind = "send"
  <2>1. UNCHANGED <<updates, polls>> /\ jobs' = To(j, "sending") /\ "sending" \in JobSteps
    BY <1>7 DEF JobAnswers, jobFrame, JobSteps
  <2> QED BY <1>2, <1>7, <2>1
<1>8. CASE AnswerGoesOn
  <2>1. Users(jobs', c) = Users(jobs, c) + 0 /\ UNCHANGED <<updates, polls>>
    BY <1>8, QueueGoesOn DEF AnswerGoesOn, jobFrame
  <2> QED BY <2>1, NobodyMore
<1>9. CASE j.step = "sending" /\ AnswerSent(j)
  <2>1. /\ updates' = Append(updates, Unregister(socket[j.conn])) /\ UNCHANGED polls
        /\ jobs' = To(j, "closing") /\ "closing" \in JobSteps
    BY <1>9 DEF AnswerSent, jobFrame, JobSteps
  <2>2. Users(jobs', c) = Users(jobs, c) + 0
    BY <1>9, <2>1, StillUses
  <2>3. socket[j.conn] \in Sockets
    BY <1>1, <1>9 DEF IsAtWork
  <2>4. Unregister(socket[j.conn]) \in Updates /\ ~Resumes(Unregister(socket[j.conn]), c)
    BY <2>3, UpdateTypes, QueueGoesOn DEF Descriptors
  <2> QED BY <2>1, <2>2, <2>4, NobodyMore
<1> QED BY <1>3, <1>4, <1>5, <1>6, <1>7, <1>8, <1>9

\* Who uses a response holds it.
LEMMA UserHolds ==
  ASSUME ServerInv, NEW j \in BagToSet(jobs), NEW c, Uses(j, c)
  PROVE  Holders(updates, polls, jobs, c) # 0
BY QueuesAreGood, HoldersAre

\* HTTPProcessRequest creates a response and holds it.
LEMMA ProcessCounted ==
  ASSUME ServerInv, NEW j \in BagToSet(jobs), JobAnswers(j), j.kind = "process", NEW c \in Connections
  PROVE  Counted(c, One(j.conn = c))
<1> DEFINE new == [j EXCEPT !.step = "sending"]
<1> DEFINE n == One(j.conn = c)
<1>1. jobs' = Advance(j, new) /\ UNCHANGED <<updates, polls>> /\ j.step = "start"
  BY DEF JobAnswers, To, jobFrame
<1>2. new \in Jobs /\ new.conn = j.conn /\ new.kind = j.kind /\ new.step = "sending"
  <2>1. "sending" \in JobSteps
    BY DEF JobSteps
  <2> QED BY <2>1, JobTypes, NextJob
<1> HIDE DEF new
<1>3. One(Uses(j, c)) = 0 /\ One(Uses(new, c)) = n /\ n \in {0, 1}
  BY <1>1, <1>2 DEF Uses, One
<1> HIDE DEF n
<1>4. Users(jobs', c) = Users(jobs, c) + n
  <2>1. /\ Users(jobs', c) + One(Uses(j, c)) = Users(jobs, c) + One(Uses(new, c))
        /\ Users(jobs', c) \in Nat /\ Users(jobs, c) \in Nat
    BY <1>1, <1>2, UsersMove
  <2> QED BY <1>3, <2>1
<1>5. /\ Cardinality(Resuming(updates', c)) = Cardinality(Resuming(updates, c)) + 0
      /\ Cardinality(Resuming(polls', c)) = Cardinality(Resuming(polls, c)) + 0
  BY <1>1, QueueGoesOn
<1>6. n \in Int /\ 0 \in Int /\ n = 0 + 0 + n
  BY <1>3
<1>7. Counted(c, n)
  BY <1>4, <1>5, <1>6, HoldersAdd
<1> QED BY <1>7 DEF n

\* The block that is registered for the rest holds it.
LEMMA ShortCounted ==
  ASSUME ServerInv, NEW j \in BagToSet(jobs), j.step = "sending", AnswerShort(j), NEW c \in Connections
  PROVE  Counted(c, One(j.conn = c))
<1> DEFINE u == Register(socket[j.conn], j.conn, "out", FALSE)
<1> DEFINE n == One(j.conn = c)
<1>1. /\ Await(j.conn, "out") /\ jobs' = To(j, "notify") /\ UNCHANGED polls
      /\ "notify" \in JobSteps
  BY DEF AnswerShort, jobFrame, JobSteps
<1>2. u \in Updates /\ updates' = Append(updates, u)
  <2>1. j \in AtWork(j.conn) /\ j.conn \in Connections
    BY JobTypes DEF IsAtWork
  <2>2. socket[j.conn] # None
    BY <2>1, SoleWorker, Constants
  <2> QED BY <1>1, <2>1, <2>2, AwaitTypes
<1>3. One(Resumes(u, c)) = n /\ n \in {0, 1}
  <2>1. u.block = j.conn /\ u.events = "out"
    BY DEF Register
  <2> HIDE DEF u
  <2> QED BY <2>1 DEF Resumes, One
<1> HIDE DEF u, n
<1>4. Users(jobs', c) = Users(jobs, c) + 0
  BY <1>1, StillUses
<1>5. /\ Cardinality(Resuming(updates', c)) = Cardinality(Resuming(updates, c)) + n
      /\ Cardinality(Resuming(polls', c)) = Cardinality(Resuming(polls, c)) + 0
  BY <1>1, <1>2, <1>3, QueueGoesOn
<1>6. n \in Int /\ 0 \in Int /\ n = n + 0 + 0
  BY <1>3
<1>7. Counted(c, n)
  BY <1>4, <1>5, <1>6, HoldersAdd
<1> QED BY <1>7 DEF n

\* A job that ends lets go of what it used.
LEMMA FinishCounted ==
  ASSUME ServerInv, NEW j \in BagToSet(jobs), JobFinishes(j), NEW c \in Connections
  PROVE  /\ Counted(c, 0 - One(j.kind \in {"process", "send"} /\ j.conn = c))
         /\ j.kind \in {"process", "send"} /\ j.conn = c => Uses(j, c)
<1> DEFINE n == One(j.kind \in {"process", "send"} /\ j.conn = c)
<1>0. TypeOK
  BY DEF ServerInv, RetainCountExact
<1>1. j.step = "finish" /\ UNCHANGED polls /\ j \in Jobs /\ j.conn \in Connections
  BY JobTypes DEF JobFinishes, jobFrame
<1>2. Uses(j, c) <=> j.kind \in {"process", "send"} /\ j.conn = c
  BY <1>1 DEF Uses
<1>3. One(Uses(j, c)) = n /\ n \in {0, 1}
  BY <1>2 DEF One
<1> HIDE DEF n
<1>4. Users(jobs', c) = Users(jobs, c) + (0 - n)
  <2>1. CASE Disposed(j.conn)
    <3> DEFINE new == Job(j.conn, "dealloc", "closing")
    <3>1. jobs' = Advance(j, new)
      BY <2>1 DEF JobFinishes
    <3>2. new \in Jobs /\ new.kind = "dealloc"
      BY <1>1, NewJob DEF JobKinds, JobSteps
    <3> HIDE DEF new
    <3>3. One(Uses(new, c)) = 0
      BY <3>2 DEF Uses, One
    <3>4. /\ Users(jobs', c) + One(Uses(j, c)) = Users(jobs, c) + One(Uses(new, c))
          /\ Users(jobs', c) \in Nat /\ Users(jobs, c) \in Nat
      BY <3>1, <3>2, UsersMove
    <3> QED BY <1>3, <3>3, <3>4
  <2>2. CASE ~Disposed(j.conn)
    <3>1. jobs' = jobs (-) SetToBag({j})
      BY <2>2 DEF JobFinishes
    <3>2. /\ Users(jobs, c) = Users(jobs', c) + One(Uses(j, c))
          /\ Users(jobs', c) \in Nat /\ Users(jobs, c) \in Nat
      BY <3>1, UsersMove
    <3> QED BY <1>3, <3>2
  <2> QED BY <2>1, <2>2
<1>5. Cardinality(Resuming(updates', c)) = Cardinality(Resuming(updates, c)) + 0
  <2>1. CASE Disposed(j.conn)
    <3>1. updates' = Append(updates, Unregister(socket[j.conn])) /\ socket[j.conn] # None
      BY <2>1 DEF JobFinishes, Disposed
    <3>2. Unregister(socket[j.conn]) \in Updates /\ ~Resumes(Unregister(socket[j.conn]), c)
      BY <2>1, Extra, QueueGoesOn
    <3> QED BY <3>1, <3>2, QueueGoesOn DEF One
  <2>2. CASE ~Disposed(j.conn)
    BY <2>2, QueueGoesOn DEF JobFinishes
  <2> QED BY <2>1, <2>2
<1>6. Cardinality(Resuming(polls', c)) = Cardinality(Resuming(polls, c)) + 0
  BY <1>1, QueueGoesOn
<1>7. 0 - n \in Int /\ 0 \in Int /\ 0 - n = 0 + 0 + (0 - n)
  BY <1>3
<1>8. Counted(c, 0 - n)
  BY <1>4, <1>5, <1>6, <1>7, HoldersAdd
<1> QED BY <1>2, <1>8 DEF n

------------------------------
(* Who sends. *)

\* Whoever sends holds a response that is not complete, and nobody is about to close.
LEMMA SendingIs ==
  ASSUME AnswerInv, NEW j \in BagToSet(jobs), j.step = "sending"
  PROVE  Sends(j)
<1> DEFINE c == j.conn
<1>1. ServerInv /\ InvKinds
  BY DEF AnswerInv
<1>2. c \in Connections /\ j \in AtWork(c) /\ j.kind \in {"process", "send"}
  <2>1. j.kind # "read"
    BY <1>1 DEF InvKinds
  <2> QED BY <1>1, <2>1, JobTypes DEF IsAtWork, JobKinds
<1>3. Uses(j, c)
  BY <1>2 DEF Uses
<1>4. AtWork(c) = {j} /\ socket[c] \in Sockets
  BY <1>1, <1>2, SoleWorker
<1>5. socket[c] # None
  BY <1>4, Constants
<1>6. ~Ending(jobs, c)
  BY <1>4 DEF Ending, AtWork, Blocks
<1>7. Served(c) /\ GoodQueues(updates, polls, jobs)
  BY <1>1, <1>2, EachIsServed, QueuesAreGood
<1>8. Holders(updates, polls, jobs, c) # 0
  BY <1>1, <1>3, UserHolds
<1>9. response[c] # NoResponse /\ response[c] \in Responses
  BY <1>7, <1>8, ResponseIs
<1>10. response[c].sendStatus # "complete" /\ Got(c)
  BY <1>5, <1>6, <1>7, <1>9 DEF Served, ClosesOnce
<1> QED BY <1>2, <1>3, <1>5, <1>6, <1>7, <1>8, <1>9, <1>10 DEF Served, Got, Sends

------------------------------
(* The steps are those of HTTPServer. *)

\* The lesser of two numbers.
LEMMA LesserOf ==
  ASSUME NEW a \in Nat, NEW b \in Nat
  PROVE  Min({a, b}) \in Nat /\ Min({a, b}) <= a /\ Min({a, b}) <= b
<1>1. \E x \in {a, b} : \A y \in {a, b} : x <= y
  <2>1. CASE a <= b
    BY <2>1
  <2>2. CASE b <= a
    BY <2>2
  <2> QED BY <2>1, <2>2
<1> DEFINE P(x) == x \in {a, b} /\ \A y \in {a, b} : x <= y
<1>2. P(CHOOSE x : P(x))
  BY <1>1
<1>3. Min({a, b}) = CHOOSE x \in {a, b} : \A y \in {a, b} : x <= y
  BY DEF Min
<1>4. Min({a, b}) \in {a, b} /\ \A y \in {a, b} : Min({a, b}) <= y
  BY <1>1, <1>3
<1> QED BY <1>4

\* What the kernel takes is at most what it has room for, and what is left.
LEMMA TakenIsLeft ==
  ASSUME AnswerInv, NEW j \in BagToSet(jobs), JobSendsPart(j)
  PROVE  LET c == j.conn
             r == Begun(response[c])
         IN  \E s \in 0..Remaining(r) :
               /\ room' = [room EXCEPT ![c] = @ - s] /\ s \in 0..room[c]
               /\ sent' = [sent EXCEPT ![c] = @ \o Taken(r, s)]
               /\ IF SendsFile(r) THEN Returns(j, FileSent(r, s), Remaining(r) > 0)
                  ELSE Returns(j, StringSent(r, s), s < Remaining(r))
<1> DEFINE c == j.conn
<1> DEFINE r == Begun(response[c])
<1> DEFINE s == Min({room[c], Remaining(r)})
<1>1. c \in Connections /\ response[c] \in Responses /\ response[c].sendStatus # "complete"
  BY SendingIs DEF JobSendsPart, Sends
<1>2. Remaining(r) \in Nat
  BY <1>1, Beginning, CurrentParts
<1>3. room[c] \in Nat
  <2>1. room[c] \in 0..SendBuffer
    BY <1>1 DEF AnswerInv, ServerInv, RetainCountExact, TypeOK
  <2> QED BY <2>1
<1>4. s \in 0..Remaining(r) /\ s \in 0..room[c]
  <2> HIDE DEF r, c
  <2>1. s \in Nat /\ s <= room[c] /\ s <= Remaining(r)
    BY <1>2, <1>3, LesserOf
  <2> HIDE DEF s
  <2> QED BY ONLY <2>1, <1>2, <1>3
<1>5. /\ room' = [room EXCEPT ![c] = @ - s]
      /\ sent' = [sent EXCEPT ![c] = @ \o Taken(r, s)]
      /\ IF SendsFile(r) THEN Returns(j, FileSent(r, s), Remaining(r) > 0)
         ELSE Returns(j, StringSent(r, s), s < Remaining(r))
  BY DEF JobSendsPart
<1> HIDE DEF s
<1> QED BY <1>4, <1>5

\* A job of the web server with answers is one of the web server.
LEMMA AnswerRuns ==
  ASSUME AnswerInv, NEW j \in BagToSet(jobs), AnswerRun(j)
  PROVE  Run(j)
<1>1. ASSUME NEW r, NEW short, Returns(j, r, short)
      PROVE  AnswerSent(j) \/ AnswerShort(j) \/ AnswerGoesOn
  BY <1>1 DEF Returns
<1>2. CASE JobSendsPart(j)
  <2> DEFINE c == j.conn
  <2>1. PICK s \in 0..Remaining(Begun(response[c])) :
          room' = [room EXCEPT ![c] = @ - s] /\ s \in 0..room[c]
    BY <1>2, TakenIsLeft
  <2>2. room[c] \in Nat /\ s \in Nat /\ s <= room[c]
    <3>1. c \in Connections
      BY <1>2, SendingIs DEF JobSendsPart, Sends
    <3>2. room[c] \in 0..SendBuffer
      BY <3>1 DEF AnswerInv, ServerInv, RetainCountExact, TypeOK
    <3> QED BY <2>1, <3>2
  <2>3. room[c] - s \in 0..room[c]
    BY ONLY <2>2
  <2>4. \E n \in 0..room[c] : room' = [room EXCEPT ![c] = n]
    BY <2>1, <2>3
  <2>5. AnswerSent(j) \/ AnswerShort(j) \/ AnswerGoesOn
    BY <1>1, <1>2, TakenIsLeft
  <2> QED BY <1>2, <2>4, <2>5 DEF JobSendsPart, JobSends, Run
<1>3. CASE JobFailsToSend(j)
  <2> DEFINE c == j.conn
  <2>1. room' = room /\ j.step = "sending"
    BY <1>3 DEF JobFailsToSend
  <2>2. c \in Connections
    BY <2>1, SendingIs DEF Sends
  <2>3. room \in [Connections -> 0..SendBuffer]
    BY DEF AnswerInv, ServerInv, RetainCountExact, TypeOK
  <2>4. room[c] \in 0..room[c]
    BY <2>2, <2>3
  <2>5. room' = [room EXCEPT ![c] = room[c]]
    BY <2>1, <2>2, <2>3
  <2>6. AnswerSent(j) \/ AnswerShort(j) \/ AnswerGoesOn
    BY <1>1, <1>3 DEF JobFailsToSend
  <2> QED BY <2>1, <2>4, <2>5, <2>6 DEF JobSends, Run
<1> QED BY <1>2, <1>3 DEF AnswerRun, JobProcesses, JobResumes, JobFinishesResponse, Run

\* Every step of the web server with answers is one of the web server.
LEMMA AnswerSteps ==
  ASSUME AnswerInv, [AnswerNext]_<<vars, answerVars>>
  PROVE  [Next]_vars
<1>1. AnswerPollThread => PollThread
  BY DEF AnswerPollThread, PollAppliesToResponse, PollDispatchesResponse, PollThread
<1> QED BY <1>1, AnswerRuns DEF AnswerNext, Next

------------------------------
(* What is known of each connection, after each step. *)

\* What is known before and after every step.
LEMMA StepFacts ==
  ASSUME AnswerInv, [Next]_vars
  PROVE  /\ ServerInv /\ InvKinds /\ ServerInv' /\ TypeOK'
         /\ GoodQueues(updates, polls, jobs) /\ GoodQueues(updates', polls', jobs')
         /\ \A c \in Connections : Served(c) /\ WiresGoOn(c)
         /\ DOMAIN response = Connections /\ DOMAIN sent = Connections
<1>1. ServerInv /\ InvKinds
  BY DEF AnswerInv
<1>2. ServerInv'
  BY <1>1, ServerStep
<1>3. TypeOK' /\ GoodQueues(updates', polls', jobs')
  BY <1>2 DEF ServerInv, RetainCountExact, TypeOK, InvLifetime, GoodQueues
<1>4. \A c \in Connections : Served(c)
  BY EachIsServed
<1>5. ASSUME NEW c \in Connections PROVE WiresGoOn(c)
  <2>1. wire[c] = "gone" => socket[c] = None
    BY <1>4 DEF Served
  <2> QED BY <1>1, <2>1, WiresAlways
<1> QED BY <1>1, <1>2, <1>3, <1>4, <1>5, QueuesAreGood DEF AnswerInv, InvResponses

\* What was one response, or none, for each connection is so after each step.
LEMMA AnswerShape ==
  ASSUME AnswerInv, [AnswerNext]_<<vars, answerVars>>
  PROVE  Shaped
<1>1. /\ DOMAIN response = Connections /\ DOMAIN sent = Connections
      /\ response = [c \in DOMAIN response |-> response[c]]
  BY DEF AnswerInv, InvResponses
<1>2. ASSUME UNCHANGED answerVars PROVE Shaped
  BY <1>1, <1>2 DEF answerVars, Shaped
<1>3. ASSUME NEW c, NEW r, response' = [response EXCEPT ![c] = r],
             UNCHANGED sent \/ \E s : sent' = [sent EXCEPT ![c] = s]
      PROVE  Shaped
  BY <1>1, <1>3 DEF Shaped
<1>4. ASSUME NEW c, NEW n, RetainResponse(c, n) PROVE Shaped
  BY <1>3, <1>4 DEF RetainResponse
<1>5. CASE AnswerPollThread
  BY <1>2, <1>4, <1>5 DEF AnswerPollThread, PollAppliesToResponse, PollDispatchesResponse
<1>6. ASSUME NEW j \in BagToSet(jobs), AnswerRun(j) PROVE Shaped
  <2>1. CASE JobProcesses(j)
    BY <1>3, <2>1 DEF JobProcesses
  <2>2. CASE JobSendsPart(j)
    BY <1>3, <2>2 DEF JobSendsPart, Returns
  <2>3. CASE JobFailsToSend(j)
    BY <1>3, <2>3 DEF JobFailsToSend, Returns
  <2>4. CASE JobFinishesResponse(j)
    BY <1>2, <1>4, <2>4 DEF JobFinishesResponse
  <2> QED BY <1>2, <1>6, <2>1, <2>2, <2>3, <2>4 DEF AnswerRun, JobResumes
<1> QED BY <1>2, <1>5, <1>6 DEF AnswerNext, answerVars

\* A step that has nothing to do with the responses.
LEMMA QuietServed ==
  ASSUME AnswerInv, [Next]_vars, UNCHANGED answerVars, NEW c \in Connections, Counted(c, 0),
         JobsGoOn(c)
  PROVE  Served(c)'
<1>1. Passes(c, 0)
  BY DEF Passes, answerVars
<1> QED BY <1>1, StepFacts, SteadyKeeps DEF Steady

\* One that retains or releases a response.
LEMMA RetainedServed ==
  ASSUME AnswerInv, [Next]_vars, NEW d, NEW n \in {-1, 1}, RetainResponse(d, n),
         NEW c \in Connections, JobsGoOn(c), c = d => Holders(updates, polls, jobs, c) # 0,
         Counted(c, IF c = d THEN n ELSE 0)
  PROVE  Served(c)'
<1>1. DOMAIN response = Connections /\ DOMAIN sent = Connections
  BY StepFacts
<1>2. response' = [response EXCEPT ![d] = Referenced(response[d], n)]
  BY DEF RetainResponse
<1>3. sent' = IF response'[d] = NoResponse THEN [sent EXCEPT ![d] = <<>>] ELSE sent
  BY DEF RetainResponse
<1>4. CASE c = d
  <2>1. /\ response'[c] = Referenced(response[c], n)
        /\ sent'[c] = IF response'[c] = NoResponse THEN <<>> ELSE sent[c]
    BY <1>1, <1>2, <1>3, <1>4
  <2>2. Passes(c, n) /\ Counted(c, n)
    BY <1>4, <2>1 DEF Passes
  <2> QED BY <2>2, StepFacts, SteadyKeeps DEF Steady
<1>5. CASE c # d
  <2>1. response'[c] = response[c] /\ sent'[c] = sent[c]
    BY <1>1, <1>2, <1>3, <1>5
  <2>2. Passes(c, 0) /\ Counted(c, 0)
    BY <1>5, <2>1 DEF Passes
  <2> QED BY <2>2, StepFacts, SteadyKeeps DEF Steady
<1> QED BY <1>4, <1>5

\* Whatever the main thread, the poll thread and the peers do.
LEMMA ServedByOthers ==
  ASSUME AnswerInv, [Next]_vars, NEW c \in Connections,
         \/ (Main \/ (\E d \in Connections : Peer(d)) \/ UNCHANGED vars) /\ UNCHANGED answerVars
         \/ AnswerPollThread
  PROVE  Served(c)'
<1>0. ServerInv /\ InvKinds /\ TypeOK'
  BY StepFacts
<1>1. JobsGoOn(c)
  <2>1. AnswerPollThread => PollThread
    BY DEF AnswerPollThread, PollAppliesToResponse, PollDispatchesResponse, PollThread
  <2> QED BY <1>0, <2>1, JobsOfOthers
<1>2. CASE PollAppliesToResponse
  <2> DEFINE d == Displaced
  <2>1. PollApplies
    BY <1>2 DEF PollAppliesToResponse
  <2>2. /\ Counted(c, 0 - One(DisplacesSend /\ d = c))
        /\ DisplacesSend /\ d = c => Holders(updates, polls, jobs, c) # 0
    BY <1>0, <2>1, ApplyCounted
  <2>3. CASE DisplacesSend
    <3>1. RetainResponse(d, -1)
      BY <1>2, <2>3 DEF PollAppliesToResponse
    <3>2. Counted(c, IF c = d THEN -1 ELSE 0)
      BY <2>2, <2>3 DEF One, Counted
    <3> HIDE DEF d
    <3> QED BY <1>1, <2>2, <2>3, <3>1, <3>2, RetainedServed
  <2>4. CASE ~DisplacesSend
    <3>1. UNCHANGED answerVars
      BY <1>2, <2>4 DEF PollAppliesToResponse
    <3>2. Counted(c, 0)
      BY <2>2, <2>4 DEF One, Counted
    <3> QED BY <1>1, <3>1, <3>2, QuietServed
  <2> QED BY <2>3, <2>4
<1>3. CASE PollDispatchesResponse
  <2> DEFINE d == Current.block
  <2>1. PollDispatches /\ d \in Connections
    BY <1>3 DEF PollDispatchesResponse, PollDispatches
  <2>2. /\ Counted(c, One(Current.events = "out" /\ d = c))
        /\ Current.events = "out" /\ d = c => Holders(updates, polls, jobs, c) # 0
    BY <1>0, <2>1, DispatchCounted
  <2>3. CASE Current.events = "out"
    <3>1. RetainResponse(d, 1)
      BY <1>3, <2>3 DEF PollDispatchesResponse
    <3>2. Counted(c, IF c = d THEN 1 ELSE 0)
      BY <2>2, <2>3 DEF One, Counted
    <3> HIDE DEF d
    <3> QED BY <1>1, <2>1, <2>2, <2>3, <3>1, <3>2, RetainedServed
  <2>4. CASE Current.events # "out"
    <3>1. UNCHANGED answerVars
      BY <1>3, <2>4 DEF PollDispatchesResponse
    <3>2. Counted(c, 0)
      BY <2>2, <2>4 DEF One, Counted
    <3> QED BY <1>1, <3>1, <3>2, QuietServed
  <2> QED BY <2>3, <2>4
<1>4. CASE ~PollAppliesToResponse /\ ~PollDispatchesResponse
  <2>1. UNCHANGED answerVars /\ Counted(c, 0)
    BY <1>0, <1>4, QuietlyCounted DEF AnswerPollThread
  <2> QED BY <1>1, <2>1, QuietServed
<1> QED BY <1>2, <1>3, <1>4

\* HTTPProcessRequest begins an answer, and nobody has begun one before.
LEMMA ProcessServes ==
  ASSUME AnswerInv, [Next]_vars, NEW j \in BagToSet(jobs), JobProcesses(j), NEW c \in Connections
  PROVE  Served(c)'
<1>0. ServerInv /\ TypeOK' /\ GoodQueues(updates, polls, jobs) /\ Served(c) /\ WiresGoOn(c)
      /\ DOMAIN response = Connections
  BY StepFacts
<1>1. JobAnswers(j) /\ j.kind = "process" /\ j.step = "start" /\ UNCHANGED <<sent, wire>>
  BY DEF JobProcesses, JobAnswers
<1>2. PICK body \in Bodies : response' = [response EXCEPT ![j.conn] = HTTPResponseCreate(body)]
  BY DEF JobProcesses
<1>3. JobsGoOn(c)
  BY <1>0, <1>1, JobsOfRun
<1>4. Counted(c, One(j.conn = c))
  BY <1>0, <1>1, ProcessCounted
<1>5. CASE j.conn # c
  <2>1. Passes(c, 0)
    BY <1>0, <1>1, <1>2, <1>5 DEF Passes
  <2>2. Counted(c, 0)
    BY <1>4, <1>5 DEF One
  <2> QED BY <1>3, <2>1, <2>2, StepFacts, SteadyKeeps DEF Steady
<1>6. CASE j.conn = c
  <2> DEFINE r == HTTPResponseCreate(body)
  <2>1. Asking(jobs, c)
    BY <1>1, <1>6 DEF Asking
  <2>2. response[c] = NoResponse /\ sent[c] = <<>> /\ wire[c] \notin EarlyWires
    BY <1>0, <2>1 DEF Served
  <2>3. Holders(updates, polls, jobs, c) = 0
    BY <1>0, <2>2, ResponseIs
  <2>4. Holders(updates', polls', jobs', c) = 1
    BY <1>4, <1>6, <2>3 DEF Counted, One
  <2>5. r.retainCount = 1 /\ r.sendStatus = "not started" /\ r.extra = "none"
    BY DEF HTTPResponseCreate
  <2>6. r \in Responses
    <3>1. 1 \in 1..(Headers + 1) /\ 1 # Headers + 1 /\ 0 < StringSize /\ 0 <= BodySize(body)
      BY SizesAre
    <3>2. r \in ResponseRecords
      BY <3>1 DEF HTTPResponseCreate, ResponseRecords
    <3>3. r.body = body /\ r.status = "key" /\ r.iter = 1 /\ r.sentBytes = 0 /\ r.fileOffset = 0
      BY DEF HTTPResponseCreate
    <3> HIDE DEF r
    <3>4. 0 <= BodySize(r.body)
      BY <3>1, <3>3, Zenon
    <3>5. r.retainCount > 0
      <4>1. r.retainCount = 1
        BY <2>5
      <4> QED BY <4>1
    <3> QED BY <2>5, <3>1, <3>2, <3>3, <3>4, <3>5 DEF Responses
  <2> HIDE DEF r
  <2>7. SentBy(Begun(r)) = <<>>
    <3> DEFINE q == Begun(r)
    <3>1. Underway(q) /\ q.sendStatus = "status line" /\ q.sentBytes = 0
      BY <2>5, <2>6, Beginning
    <3> HIDE DEF q
    <3>2. Before(q) = <<>> /\ Offset(q) = 0 /\ CurrentPart(q) \in Parts
      BY <3>1, CurrentParts DEF Before, Offset, SendsFile
    <3>3. <<>> \o Bytes(CurrentPart(q), 0) = <<>>
      BY <3>2, NothingOf, EmptySeq
    <3> QED BY <3>2, <3>3 DEF SentBy, q
  <2>8. jobs[j] = 1 /\ AtWork(c) = {j}
    <3>1. j \in AtWork(c)
      BY <1>0, <1>1, <1>6, JobTypes DEF IsAtWork
    <3> QED BY <1>0, <3>1, SoleWorker
  <2>9. ~Asking(jobs', c)
    <3> DEFINE new == [j EXCEPT !.step = "sending"]
    <3>1. jobs' = (jobs (-) SetToBag({j})) (+) SetToBag({new})
      BY <1>1 DEF JobAnswers, To, Advance
    <3>2. new.step = "sending"
      BY <1>0, JobTypes, NextJob DEF JobSteps
    <3> HIDE DEF new
    <3>3. IsABag(jobs)
      BY <1>0 DEF GoodQueues
    <3>4. /\ IsABag(jobs (-) SetToBag({j}))
          /\ BagToSet(jobs (-) SetToBag({j})) = BagToSet(jobs) \ {j}
      <4>1. jobs[j] = 1 /\ j \in BagToSet(jobs)
        BY <2>8
      <4>2. /\ IsABag(jobs (-) SetToBag({j}))
            /\ BagToSet(jobs (-) SetToBag({j})) =
                 IF jobs[j] = 1 THEN BagToSet(jobs) \ {j} ELSE BagToSet(jobs)
        BY <3>3, BagDrop, Zenon
      <4> QED BY <4>1, <4>2, Zenon
    <3>5. BagToSet(jobs') = (BagToSet(jobs) \ {j}) \cup {new}
      BY <3>1, <3>4, BagAdd
    <3>6. \A k \in BagToSet(jobs) : k.conn = c /\ k.kind = "process" /\ k.step = "start" => k = j
      BY <2>8 DEF AtWork, Blocks
    <3> QED BY <3>2, <3>5, <3>6 DEF Asking
  <2>10. ~Ending(jobs', c)
    BY <1>1, <1>3, <2>8 DEF JobsGoOn, Ending, AtWork, Blocks
  <2>11. response'[c] = r /\ sent'[c] = <<>> /\ wire'[c] = wire[c] /\ response'[c] # NoResponse
    BY <1>0, <1>1, <1>2, <1>6, <2>2, <2>6, ResponsesExist DEF r
  <2>12. ClosesOnce(c)' /\ Got(c)'
    BY <2>5, <2>7, <2>10, <2>11 DEF ClosesOnce, Got
  <2> QED BY <1>0, <2>2, <2>4, <2>5, <2>6, <2>9, <2>11, <2>12 DEF Served, WiresGoOn
<1> QED BY <1>5, <1>6

\* What becomes of the jobs when an answer was sent.
LEMMA JobsOfSent ==
  ASSUME ServerInv, NEW j \in BagToSet(jobs), j.step = "sending", AnswerSent(j), NEW c \in Connections
  PROVE  /\ j.conn # c => JobsGoOn(c)
         /\ j.conn = c => Ending(jobs', c)
         /\ Asking(jobs', c) => Asking(jobs, c)
<1> DEFINE new == [j EXCEPT !.step = "closing"]
<1>1. jobs' = Advance(j, new)
  BY DEF AnswerSent, To
<1>2. new.conn = j.conn /\ new.kind = j.kind /\ new.step = "closing" /\ j.kind # "dealloc"
  BY JobTypes, NextJob DEF JobSteps
<1> HIDE DEF new
<1>3. BagToSet(jobs') \subseteq BagToSet(jobs) \cup {new} /\ new \in BagToSet(jobs')
  BY <1>1, AdvanceJobs, OtherJobs
<1>4. j.conn # c => ~Asks(new, c) /\ ~Ends(new, c) /\ ~Ends(j, c)
  BY <1>2 DEF Asks, Ends
<1>5. j.conn # c => JobsGoOn(c)
  BY <1>1, <1>4, JobMoves
<1> QED BY <1>2, <1>3, <1>5 DEF Ending, Asking

\* A connection whose answer goes on, comes up short or is complete.
LEMMA ReturnsServes ==
  ASSUME AnswerInv, [Next]_vars, NEW j \in BagToSet(jobs), j.step = "sending",
         NEW q, NEW short \in BOOLEAN, Returns(j, q, short),
         Sound(q, response[j.conn], sent'[j.conn], short, wire[j.conn] = "reset")
  PROVE  Served(j.conn)'
<1> DEFINE c == j.conn
<1> DEFINE k == IF short THEN 1 ELSE 0
<1> DEFINE r == response[c]
<1> DEFINE p == response'[c]
<1>1. /\ c \in Connections /\ Uses(j, c) /\ j.kind \in {"process", "send"} /\ r \in Responses
      /\ ~Ending(jobs, c) /\ ~Asking(jobs, c)
      /\ wire[c] \notin EarlyWires \cup {"gone"} /\ socket[c] # None
  BY SendingIs DEF Sends
<1>2. /\ ServerInv /\ TypeOK' /\ Served(c) /\ DOMAIN response = Connections
      /\ GoodQueues(updates, polls, jobs)
  BY <1>1, StepFacts
<1>3. /\ UNCHANGED <<socket, wire>>
      /\ IF short THEN AnswerShort(j) ELSE IF q.sendStatus = "complete" THEN AnswerSent(j)
                                           ELSE AnswerGoesOn
  BY DEF Returns, AnswerShort, AnswerSent, AnswerGoesOn
<1>4. /\ q \in Responses /\ q.body = r.body /\ q.retainCount = r.retainCount
      /\ q.sendStatus # "complete" => SentBy(Begun(q)) = sent'[c]
      /\ q.sendStatus = "complete" => /\ ~short /\ IsPrefix(sent'[c], Text[q.body])
                                      /\ sent'[c] = Text[q.body] \/ wire[c] = "reset"
  BY DEF Sound
<1>5. r.retainCount \in Nat /\ r.retainCount > 0 /\ r.retainCount = Holders(updates, polls, jobs, c)
  BY <1>1, <1>2, ResponsesExist DEF Served
<1>6. k \in Int /\ q.retainCount + k > 0 /\ q.retainCount + k = r.retainCount + k
  BY <1>4, <1>5
<1>7. p = Referenced(q, k)
  BY <1>1, <1>2 DEF Returns
<1>8. Counted(c, k)
  <2>1. CASE short
    <3>1. Counted(c, One(j.conn = c))
      BY <1>1, <1>2, <1>3, <2>1, ShortCounted
    <3> QED BY <2>1, <3>1 DEF One
  <2>2. CASE ~short
    BY <1>1, <1>2, <1>3, <2>2, RunQuietlyCounted
  <2> QED BY <2>1, <2>2
<1>9. Ending(jobs', c) <=> q.sendStatus = "complete"
  <2>1. CASE q.sendStatus = "complete"
    BY <1>1, <1>2, <1>3, <1>4, <2>1, JobsOfSent
  <2>2. CASE q.sendStatus # "complete"
    <3>1. JobsGoOn(c)
      BY <1>1, <1>2, <1>3, <2>2, JobsOfRun
    <3> QED BY <1>1, <2>2, <3>1 DEF JobsGoOn
  <2> QED BY <2>1, <2>2
<1>10. ~Asking(jobs', c)
  <2>1. CASE q.sendStatus = "complete"
    BY <1>1, <1>2, <1>3, <1>4, <2>1, JobsOfSent
  <2>2. CASE q.sendStatus # "complete"
    <3>1. JobsGoOn(c)
      BY <1>1, <1>2, <1>3, <2>2, JobsOfRun
    <3> QED BY <1>1, <3>1 DEF JobsGoOn
  <2> QED BY <2>1, <2>2
<1> HIDE DEF k, r, p
<1>11. /\ p \in Responses /\ p.retainCount = q.retainCount + k /\ p.body = q.body
       /\ p.sendStatus = q.sendStatus /\ p # NoResponse
       /\ q.sendStatus # "complete" => SentBy(Begun(p)) = SentBy(Begun(q))
  BY <1>4, <1>6, <1>7, ReferencedIs, ResponsesExist
<1>12. p.retainCount = Holders(updates', polls', jobs', c)
  BY <1>5, <1>6, <1>8, <1>11 DEF Counted
<1>13. ClosesOnce(c)'
  BY <1>9, <1>11 DEF ClosesOnce, p
<1>14. Got(c)'
  <2>1. wire'[c] = wire[c]
    BY <1>3
  <2>2. CASE q.sendStatus = "complete"
    BY <1>4, <1>11, <2>1, <2>2 DEF Got, p
  <2>3. CASE q.sendStatus # "complete"
    BY <1>4, <1>11, <2>3 DEF Got, p
  <2> QED BY <2>2, <2>3
<1>15. wire'[c] = wire[c]
  BY <1>3
<1> QED BY <1>1, <1>10, <1>11, <1>12, <1>13, <1>14, <1>15 DEF Served, p

\* And the other connections.
LEMMA ReturnsSpares ==
  ASSUME AnswerInv, [Next]_vars, NEW j \in BagToSet(jobs), j.step = "sending",
         NEW q, NEW short \in BOOLEAN, Returns(j, q, short), NEW c \in Connections, c # j.conn,
         sent'[c] = sent[c]
  PROVE  Served(c)'
<1>1. ServerInv /\ TypeOK' /\ DOMAIN response = Connections
  BY StepFacts
<1>2. IF short THEN AnswerShort(j) ELSE IF q.sendStatus = "complete" THEN AnswerSent(j)
                                        ELSE AnswerGoesOn
  BY DEF Returns
<1>3. Counted(c, 0)
  <2>1. CASE short
    <3>1. Counted(c, One(j.conn = c))
      BY <1>1, <1>2, <2>1, ShortCounted
    <3> QED BY <3>1 DEF One
  <2>2. CASE ~short
    BY <1>1, <1>2, <2>2, RunQuietlyCounted
  <2> QED BY <2>1, <2>2
<1>4. JobsGoOn(c)
  BY <1>1, <1>2, JobsOfRun, JobsOfSent
<1>5. Passes(c, 0)
  <2>1. response'[c] = response[c]
    BY <1>1 DEF Returns
  <2> QED BY <2>1 DEF Passes
<1> QED BY <1>3, <1>4, <1>5, StepFacts, SteadyKeeps DEF Steady

\* The kernel takes some of the answer.
LEMMA PartServes ==
  ASSUME AnswerInv, [Next]_vars, NEW j \in BagToSet(jobs), JobSendsPart(j), NEW c \in Connections
  PROVE  Served(c)'
<1> DEFINE d == j.conn
<1> DEFINE r == response[d]
<1> DEFINE q == Begun(r)
<1>1. /\ d \in Connections /\ r \in Responses /\ r.sendStatus # "complete" /\ sent[d] = SentBy(q)
      /\ j.step = "sending" /\ DOMAIN sent = Connections
  BY SendingIs, StepFacts DEF JobSendsPart, Sends
<1>2. PICK s \in 0..Remaining(q) :
        /\ sent' = [sent EXCEPT ![d] = @ \o Taken(q, s)]
        /\ IF SendsFile(q) THEN Returns(j, FileSent(q, s), Remaining(q) > 0)
           ELSE Returns(j, StringSent(q, s), s < Remaining(q))
  BY TakenIsLeft
<1> DEFINE n == IF SendsFile(q) THEN FileSent(q, s) ELSE StringSent(q, s)
<1> DEFINE short == IF SendsFile(q) THEN Remaining(q) > 0 ELSE s < Remaining(q)
<1> DEFINE t == SentBy(q) \o Taken(q, s)
<1>3. Returns(j, n, short) /\ short \in BOOLEAN
  <2>1. CASE SendsFile(q)
    BY <1>2, <2>1
  <2>2. CASE ~SendsFile(q)
    BY <1>2, <2>2
  <2> QED BY <2>1, <2>2
<1>4. Underway(q) /\ q.body = r.body /\ q.retainCount = r.retainCount
  BY <1>1, Beginning
<1>5. Continues(q, n, t)
  BY <1>4, StringContinues, FileContinues
<1>6. sent'[d] = t
  BY <1>1, <1>2
<1>7. n.sendStatus = "complete" => ~short
  <2>1. q.sendStatus # "complete" /\ q \in ResponseRecords
    BY <1>4, ResponseFields DEF Underway
  <2>2. CASE SendsFile(q)
    <3>1. Remaining(q) > 0 => Remaining(q) # 0
      BY <1>4, CurrentParts
    <3>2. Remaining(q) # 0 => FileSent(q, s).sendStatus = q.sendStatus
      BY <2>1 DEF FileSent, ResponseRecords
    <3> QED BY <2>1, <2>2, <3>1, <3>2
  <2>3. CASE ~SendsFile(q)
    <3>1. s < Remaining(q) => StringSent(q, s).sendStatus = q.sendStatus
      BY <2>1 DEF StringSent, ResponseRecords
    <3> QED BY <2>1, <2>3, <3>1
  <2> QED BY <2>2, <2>3
<1>8. Text[n.body] \in Seq(Alphabet) /\ n.body = r.body
  BY <1>1, <1>4, <1>5, ResponseFields, TextIs DEF Continues, Stands
<1>9. Sound(n, r, t, short, wire[d] = "reset")
  <2>1. n.sendStatus = "complete" => t = Text[n.body] /\ IsPrefix(t, Text[n.body])
    <3> HIDE DEF n, t, q
    <3>1. n.sendStatus = "complete" => t = Text[n.body]
      BY <1>4, <1>5, <1>8 DEF Continues
    <3>2. IsPrefix(Text[n.body], Text[n.body])
      BY <1>8, StartsFacts, StartsIsPrefix
    <3> QED BY <3>1, <3>2
  <2> QED BY <1>4, <1>5, <1>7, <2>1 DEF Continues, Sound
<1> HIDE DEF n, t, short
<1>10. CASE c = d
  <2>1. Sound(n, response[j.conn], sent'[j.conn], short, wire[j.conn] = "reset")
    BY <1>6, <1>9
  <2>2. Served(j.conn)'
    BY <1>1, <1>3, <2>1, ReturnsServes
  <2> QED BY <1>10, <2>2
<1>11. CASE c # d
  <2>1. sent'[c] = sent[c]
    BY <1>1, <1>2, <1>11
  <2> QED BY <1>1, <1>3, <1>11, <2>1, ReturnsSpares
<1> QED BY <1>10, <1>11

\* The kernel takes none of it any more.
LEMMA FailureServes ==
  ASSUME AnswerInv, [Next]_vars, NEW j \in BagToSet(jobs), JobFailsToSend(j), NEW c \in Connections
  PROVE  Served(c)'
<1> DEFINE d == j.conn
<1> DEFINE r == response[d]
<1> DEFINE q == Begun(r)
<1>1. /\ d \in Connections /\ r \in Responses /\ r.sendStatus # "complete" /\ sent[d] = SentBy(q)
      /\ j.step = "sending" /\ UNCHANGED sent
  BY SendingIs DEF JobFailsToSend, Sends
<1>2. /\ IF SendsFile(q) THEN Returns(j, Passed(q), FALSE) ELSE Returns(j, q, TRUE)
      /\ wire[d] = "reset" \/ (q.sendStatus = "body" /\ q.body = "unopened file")
  BY DEF JobFailsToSend
<1> DEFINE n == IF SendsFile(q) THEN Passed(q) ELSE q
<1> DEFINE short == ~SendsFile(q)
<1>3. Returns(j, n, short) /\ short \in BOOLEAN
  BY <1>2
<1>4. Underway(q) /\ q.body = r.body /\ q.retainCount = r.retainCount
      /\ (q.extra # "none" => Begun(q) = q)
  <2>1. Underway(q) /\ q.body = r.body /\ q.retainCount = r.retainCount
    BY <1>1, Beginning
  <2>2. q \in Responses /\ q.sendStatus # "complete"
    BY <2>1 DEF Underway
  <2> QED BY <2>1, <2>2, Beginning
<1>5. Sound(n, r, sent[d], short, wire[d] = "reset")
  <2>1. CASE SendsFile(q)
    <3>1. /\ Passed(q) \in Responses /\ Passed(q).body = q.body
          /\ Passed(q).retainCount = q.retainCount /\ Passed(q).sendStatus = "complete"
          /\ SentBy(q) \in Seq(Alphabet) /\ Starts(SentBy(q), Text[q.body])
          /\ q.body = "unopened file" => SentBy(q) = Text[q.body]
      BY <1>4, <2>1, FailedContinues
    <3>2. Text[q.body] \in Seq(Alphabet)
      BY <1>1, <1>4, ResponseFields, TextIs DEF Stands
    <3>3. IsPrefix(SentBy(q), Text[q.body])
      BY <3>1, <3>2, StartsIsPrefix
    <3> QED BY <1>1, <1>2, <1>4, <2>1, <3>1, <3>3 DEF Sound
  <2>2. CASE ~SendsFile(q)
    <3>1. q \in Responses /\ q.sendStatus # "complete" /\ Begun(q) = q
      BY <1>4 DEF Underway
    <3> QED BY <1>1, <1>4, <2>2, <3>1 DEF Sound
  <2> QED BY <2>1, <2>2
<1> HIDE DEF n, short
<1>6. CASE c = d
  <2>1. Sound(n, response[j.conn], sent'[j.conn], short, wire[j.conn] = "reset")
    BY <1>1, <1>5
  <2>2. Served(j.conn)'
    BY <1>1, <1>3, <2>1, ReturnsServes
  <2> QED BY <1>6, <2>2
<1>7. CASE c # d
  <2>1. sent'[c] = sent[c]
    BY <1>1
  <2> QED BY <1>1, <1>3, <1>7, <2>1, ReturnsSpares
<1> QED BY <1>6, <1>7

------------------------------
(* What is registered, and who answers. *)

\* An update at the end of the queue.
LEMMA WaitsAppend ==
  ASSUME ServerInv, InvKinds, NEW u \in Updates, updates' = Append(updates, u), Waits(u)
  PROVE  \A k \in DOMAIN updates' : Waits(updates'[k])
<1>1. updates \in Seq(Updates) /\ \A k \in DOMAIN updates : Waits(updates[k])
  BY QueuesAreGood DEF GoodQueues, InvKinds, Waits
<1>2. /\ DOMAIN updates = 1..Len(updates) /\ Len(updates) \in Nat
      /\ DOMAIN updates' = 1..(Len(updates) + 1) /\ updates'[Len(updates) + 1] = u
      /\ \A k \in 1..Len(updates) : updates'[k] = updates[k]
  BY <1>1, AppendProperties, LenProperties
<1>3. \A k \in 1..(Len(updates) + 1) : k \in 1..Len(updates) \/ k = Len(updates) + 1
  BY <1>2
<1> QED BY <1>1, <1>2, <1>3

\* Nobody waits with an update that removes, or one of the two that are not a connection's.
LEMMA WaitsFor ==
  /\ \A fd : Waits(Unregister(fd))
  /\ \A fd, d, rep : Waits(Register(fd, d, "in", rep)) /\ Waits(Register(fd, d, "out", rep))
<1>1. NoBlock \notin Connections
  BY Constants
<1> QED BY <1>1, UpdateFacts DEF Waits

\* The updates of a step that does not apply one.
LEMMA UpdatesWait ==
  ASSUME ServerInv, InvKinds, Next \/ UNCHANGED vars, ~PollApplies
  PROVE  \A k \in DOMAIN updates' : Waits(updates'[k])
<1>0. TypeOK /\ updates \in Seq(Updates)
  BY QueuesAreGood DEF ServerInv, RetainCountExact, GoodQueues
<1>1. ASSUME UNCHANGED updates PROVE \A k \in DOMAIN updates' : Waits(updates'[k])
  BY <1>1 DEF InvKinds, Waits
<1>2. ASSUME NEW fd \in Descriptors, updates' = Append(updates, Unregister(fd))
      PROVE  \A k \in DOMAIN updates' : Waits(updates'[k])
  BY <1>2, WaitsAppend, WaitsFor, UpdateTypes
<1>3. ASSUME NEW c \in Connections, NEW ev \in {"in", "out"}, socket[c] # None, Await(c, ev)
      PROVE  \A k \in DOMAIN updates' : Waits(updates'[k])
  BY <1>3, AwaitTypes, WaitsAppend, WaitsFor
<1>4. CASE UNCHANGED vars
  BY <1>1, <1>4 DEF vars, pollVars
<1>5. CASE Main
  <2>1. CASE MainRegisters
    BY <2>1, UpdateTypes, WaitsAppend, WaitsFor DEF MainRegisters
  <2>2. CASE MainNotifies
    BY <1>1, <2>2 DEF MainNotifies
  <2> QED BY <1>5, <2>1, <2>2 DEF Main
<1>6. CASE PollLoops
  <2>1. CASE RegisterPipe
    BY <2>1, UpdateTypes, WaitsAppend, WaitsFor DEF RegisterPipe
  <2>2. CASE ReadPipe \/ ApplyDone \/ ScanDone \/ PollReturns([i \in DOMAIN polls |-> Revents(polls[i])])
    BY <1>1, <2>2 DEF ReadPipe, ApplyDone, ScanDone, PollReturns
  <2>3. CASE Fire
    <3>1. cursor' \in DOMAIN polls
      BY <1>0, <2>3, PendingIsMet DEF Fire
    <3>2. polls[cursor'].fd \in Descriptors
      BY <1>0, <3>1, EntryTypes DEF Updates
    <3> QED BY <1>1, <1>2, <2>3, <3>2 DEF Fire
  <2> QED BY <1>6, <2>1, <2>2, <2>3 DEF PollLoops
<1>7. CASE PollDispatches \/ PollCallsPipeBlock \/ PollAccepts \/ PollAcceptsNothing
  BY <1>1, <1>7 DEF PollDispatches, PollCallsPipeBlock, PollAccepts, PollAcceptsNothing
<1>8. CASE PollReads
  <2>1. accepting \in Connections /\ socket[accepting] # None
    <3>1. accepting \in Connections
      BY <1>0, <1>8 DEF PollReads, ServerInv, InvLifetime, TypeOK
    <3>2. Creating(accepting)
      BY <1>8 DEF PollReads, Creating
    <3> QED BY <3>1, <3>2 DEF ServerInv, InvDescriptor, HasDescriptor
  <2> QED BY <1>1, <1>3, <1>8, <2>1 DEF PollReads, ReadInPoll
<1>9. CASE PollReleases
  <2>1. updates' = updates \o DisposeUpdates(accepting)
    BY <1>9 DEF PollReleases
  <2>2. CASE ~Disposed(accepting)
    <3>1. updates' = updates
      BY <1>0, <2>1, <2>2, Extra, ConcatEmptySeq, ZenonT(30)
    <3> QED BY <1>1, <3>1
  <2>3. CASE Disposed(accepting)
    <3>1. /\ socket[accepting] \in Sockets /\ DisposeUpdates(accepting) = <<Unregister(socket[accepting])>>
          /\ Unregister(socket[accepting]) \in Updates
      BY <2>3, Extra
    <3>2. updates' = Append(updates, Unregister(socket[accepting]))
      BY <1>0, <2>1, <3>1, ConcatOne
    <3> QED BY <1>2, <3>1, <3>2 DEF Descriptors
  <2> QED BY <2>2, <2>3
<1>10. ASSUME NEW j \in BagToSet(jobs), Run(j)
       PROVE  \A k \in DOMAIN updates' : Waits(updates'[k])
  <2>1. j.conn \in Connections /\ (IsAtWork(j) /\ j.kind # "dealloc" => socket[j.conn] \in Sockets)
    <3>1. j.conn \in Connections /\ (IsAtWork(j) => j \in AtWork(j.conn))
      BY JobTypes
    <3> QED BY <3>1, SoleWorker
  <2>2. CASE JobHup(j) \/ JobAnswers(j) \/ JobNotifies(j) \/ JobCloses(j)
    BY <1>1, <2>2 DEF JobHup, JobAnswers, JobNotifies, JobCloses
  <2>3. CASE JobReads(j)
    <3>1. socket[j.conn] # None
      <4>1. IsAtWork(j) /\ j.kind # "dealloc"
        BY <2>3 DEF JobReads, IsAtWork
      <4> QED BY <2>1, <4>1, Constants
    <3> QED BY <1>1, <1>3, <2>1, <2>3, <3>1 DEF JobReads
  <2>4. CASE JobSends(j)
    <3>1. socket[j.conn] \in Sockets
      <4>1. j.kind # "dealloc" /\ IsAtWork(j)
        BY <2>4, JobTypes DEF JobSends, IsAtWork
      <4> QED BY <2>1, <4>1
    <3>2. socket[j.conn] # None /\ socket[j.conn] \in Descriptors
      BY <3>1, Constants DEF Descriptors
    <3> QED
      BY <1>1, <1>2, <1>3, <2>1, <2>4, <3>2 DEF JobSends, AnswerSent, AnswerShort, AnswerGoesOn
  <2>5. CASE JobFinishes(j)
    <3>1. CASE Disposed(j.conn)
      <4>1. Unregister(socket[j.conn]) \in Updates
        BY <3>1, Extra
      <4> QED BY <2>5, <3>1, <4>1, WaitsAppend, WaitsFor DEF JobFinishes
    <3>2. CASE ~Disposed(j.conn)
      BY <1>1, <2>5, <3>2 DEF JobFinishes
    <3> QED BY <3>1, <3>2
  <2> QED BY <1>10, <2>2, <2>3, <2>4, <2>5 DEF Run
<1>11. ASSUME NEW c \in Connections, Peer(c) PROVE \A k \in DOMAIN updates' : Waits(updates'[k])
  BY <1>1, <1>11 DEF Peer, Connect, SendsPart, SendsRequest, HangsUp, Receives, peerFrame, pollVars
<1> QED BY <1>4, <1>5, <1>6, <1>7, <1>8, <1>9, <1>10, <1>11 DEF Next, PollThread

\* Which a step keeps.
LEMMA JobsAnswer ==
  ASSUME ServerInv, InvKinds, Next \/ UNCHANGED vars
  PROVE  \A j \in BagToSet(jobs') : Answers(j)
<1>1. \A j \in BagToSet(jobs) : Answers(j)
  BY DEF InvKinds, Answers
<1>2. ASSUME BagToSet(jobs') \subseteq BagToSet(jobs) PROVE \A j \in BagToSet(jobs') : Answers(j)
  BY <1>1, <1>2
<1>3. ASSUME NEW new, jobs' = Dispatch(new), Answers(new) PROVE \A j \in BagToSet(jobs') : Answers(j)
  BY <1>1, <1>3, DispatchJobs
<1>4. CASE UNCHANGED vars \/ Main \/ (\E c \in Connections : Peer(c)) \/ PollApplies \/ PollLoops
           \/ PollCallsPipeBlock \/ PollAccepts \/ PollAcceptsNothing \/ PollReleases
  BY <1>2, <1>4 DEF vars, connVars, connVarsButMain, Main, MainRegisters, MainNotifies, Peer,
                    Connect, SendsPart, SendsRequest, HangsUp, Receives, peerFrame, PollApplies,
                    PollLoops, PollCallsPipeBlock, PollAccepts, PollAcceptsNothing, PollReleases
<1>5. CASE PollDispatches
  <2> DEFINE kind == IF Current.events = "in" THEN "read" ELSE "send"
  <2> DEFINE step == IF Current.revents = "hup" THEN "hup" ELSE "start"
  <2>1. jobs' = Dispatch(Job(Current.block, kind, step))
    BY <1>5 DEF PollDispatches
  <2>2. Answers(Job(Current.block, kind, step))
    BY DEF Answers, Job
  <2> QED BY <1>3, <2>1, <2>2
<1>6. CASE PollReads
  <2>1. UNCHANGED jobs \/ jobs' = Dispatch(Job(accepting, "process", "start"))
    BY <1>6 DEF PollReads, ReadInPoll
  <2>2. Answers(Job(accepting, "process", "start"))
    BY DEF Answers, Job
  <2> QED BY <1>2, <1>3, <2>1, <2>2
<1>7. ASSUME NEW j \in BagToSet(jobs), Run(j) PROVE \A k \in BagToSet(jobs') : Answers(k)
  <2>1. /\ j \in Jobs
        /\ \A step \in JobSteps : LET new == [j EXCEPT !.step = step]
                                  IN  new.kind = j.kind /\ new.step = step
    BY JobTypes, NextJob
  <2>2. ASSUME NEW step \in JobSteps, jobs' = To(j, step),
               step \notin {"sending", "closing", "close"} \/ j.kind # "read"
        PROVE  \A k \in BagToSet(jobs') : Answers(k)
    <3> DEFINE new == [j EXCEPT !.step = step]
    <3>1. jobs' = Advance(j, new)
      BY <2>2 DEF To
    <3>2. Answers(new)
      BY <2>1, <2>2 DEF Answers
    <3> HIDE DEF new
    <3>3. BagToSet(jobs') \subseteq BagToSet(jobs) \cup {new}
      BY <3>1, AdvanceJobs
    <3> QED BY <1>1, <3>2, <3>3
  <2>3. CASE JobHup(j) \/ JobAnswers(j) \/ JobSends(j)
    <3>1. {"finish", "sending", "notify", "closing"} \subseteq JobSteps
      BY DEF JobSteps
    <3>2. JobSends(j) => j.kind # "read"
      BY <1>1 DEF JobSends, Answers
    <3> QED
      BY <1>2, <2>2, <2>3, <3>1, <3>2 DEF JobHup, JobAnswers, JobSends, AnswerSent, AnswerShort, AnswerGoesOn
  <2>4. CASE JobReads(j)
    <3> DEFINE ask == Job(j.conn, "process", "start")
    <3>1. {"finish", "notify"} \subseteq JobSteps
      BY DEF JobSteps
    <3>2. CASE wire[j.conn] # "request"
      BY <2>2, <2>4, <3>1, <3>2 DEF JobReads
    <3>3. CASE wire[j.conn] = "request"
      <4> DEFINE new == [j EXCEPT !.step = "finish"]
      <4>1. jobs' = Advance(j, new) (+) SetToBag({ask})
        BY <2>4, <3>3 DEF JobReads, To
      <4>2. Answers(ask) /\ Answers(new)
        BY <2>1, <3>1 DEF Answers, Job
      <4> HIDE DEF ask, new
      <4>3. IsABag(Advance(j, new)) /\ BagToSet(Advance(j, new)) \subseteq BagToSet(jobs) \cup {new}
        BY AdvanceJobs
      <4>4. BagToSet(jobs') = BagToSet(Advance(j, new)) \cup {ask}
        BY <4>1, <4>3, BagAdd
      <4> QED BY <1>1, <4>2, <4>3, <4>4
    <3> QED BY <3>2, <3>3
  <2>5. CASE JobNotifies(j)
    <3>1. {"finish", "close"} \subseteq JobSteps
      BY DEF JobSteps
    <3>2. j.step = "closing" => j.kind # "read"
      BY <1>1 DEF Answers
    <3> QED BY <2>2, <2>5, <3>1, <3>2 DEF JobNotifies
  <2>6. CASE JobCloses(j)
    <3>1. CASE j.kind = "dealloc"
      BY <1>2, <2>6, <3>1, AdvanceJobs DEF JobCloses
    <3>2. CASE j.kind # "dealloc"
      BY <2>2, <2>6, <3>2 DEF JobCloses, JobSteps
    <3> QED BY <3>1, <3>2
  <2>7. CASE JobFinishes(j)
    <3>1. CASE Disposed(j.conn)
      <4> DEFINE new == Job(j.conn, "dealloc", "closing")
      <4>1. jobs' = Advance(j, new)
        BY <2>7, <3>1 DEF JobFinishes
      <4>2. Answers(new)
        BY DEF Answers, Job
      <4> HIDE DEF new
      <4>3. BagToSet(jobs') \subseteq BagToSet(jobs) \cup {new}
        BY <4>1, AdvanceJobs
      <4> QED BY <1>1, <4>2, <4>3
    <3>2. CASE ~Disposed(j.conn)
      BY <1>2, <2>7, <3>2, AdvanceJobs DEF JobFinishes
    <3> QED BY <3>1, <3>2
  <2> QED BY <1>7, <2>3, <2>4, <2>5, <2>6, <2>7 DEF Run
<1> QED BY <1>4, <1>5, <1>6, <1>7 DEF Next, PollThread

\* The invariant of the kinds is kept by every step.
LEMMA KindsStep ==
  ASSUME ServerInv, InvKinds, Next \/ UNCHANGED vars
  PROVE  InvKinds'
<1>1. \A k \in DOMAIN updates' : Waits(updates'[k])
  <2>1. CASE PollApplies
    <3>1. \A k \in DOMAIN updates' :
            \/ k + 1 \in DOMAIN updates /\ updates'[k] = updates[k + 1]
            \/ updates'[k] = Unregister(socket[Displaced])
      BY <2>1, AppliedUpdates
    <3> QED BY <3>1, WaitsFor DEF InvKinds, Waits
  <2> QED BY <2>1, UpdatesWait
<1>2. \A i \in DOMAIN polls' : Waits(polls'[i])
  <2>1. CASE PollApplies
    <3>1. PICK n, s : MovedTo(n, s)
      BY <2>1, AppliedEntries
    <3>2. Waits(Head(updates)) /\ \A i \in DOMAIN polls : Waits(polls[i])
      BY <2>1, AppliedUpdates DEF InvKinds, Waits
    <3> QED BY <3>1, <3>2 DEF MovedTo
  <2>2. ASSUME UNCHANGED polls PROVE \A i \in DOMAIN polls' : Waits(polls'[i])
    BY <2>2 DEF InvKinds, Waits
  <2>3. ASSUME NEW r, \A i \in DOMAIN polls : r[i] \in {"none", "ready", "hup"},
               polls' = [i \in DOMAIN polls |-> [polls[i] EXCEPT !.revents = r[i]]]
        PROVE  \A i \in DOMAIN polls' : Waits(polls'[i])
    <3>1. TypeOK
      BY DEF ServerInv, RetainCountExact
    <3>2. DOMAIN polls' = DOMAIN polls /\ \A i \in DOMAIN polls : /\ polls'[i].block = polls[i].block
                                                                  /\ polls'[i].events = polls[i].events
      BY <2>3, <3>1, EntriesReported
    <3> QED BY <3>2 DEF InvKinds, Waits
  <2>4. CASE PollLoops
    <3>1. CASE RegisterPipe \/ ReadPipe \/ ApplyDone \/ Fire
      BY <2>2, <3>1 DEF RegisterPipe, ReadPipe, ApplyDone, Fire
    <3>2. CASE ScanDone
      <4> DEFINE r == [i \in DOMAIN polls |-> "none"]
      <4>1. /\ \A i \in DOMAIN polls : r[i] \in {"none", "ready", "hup"}
            /\ polls' = [i \in DOMAIN polls |-> [polls[i] EXCEPT !.revents = r[i]]]
        BY <3>2 DEF ScanDone
      <4> QED BY <2>3, <4>1
    <3>3. CASE PollReturns([i \in DOMAIN polls |-> Revents(polls[i])])
      <4> DEFINE r == [i \in DOMAIN polls |-> Revents(polls[i])]
      <4>1. /\ \A i \in DOMAIN polls : r[i] \in {"none", "ready", "hup"}
            /\ polls' = [i \in DOMAIN polls |-> [polls[i] EXCEPT !.revents = r[i]]]
        BY <3>3, ReventsTypes DEF PollReturns
      <4> QED BY <2>3, <4>1
    <3> QED BY <2>4, <3>1, <3>2, <3>3 DEF PollLoops
  <2>5. CASE Main \/ (\E c \in Connections : Peer(c)) \/ UNCHANGED vars
    BY <2>2, <2>5 DEF Main, MainRegisters, MainNotifies, Peer, Connect, SendsPart, SendsRequest,
                      HangsUp, Receives, peerFrame, vars, pollVars
  <2>6. CASE PollDispatches \/ PollCallsPipeBlock \/ PollAccepts \/ PollAcceptsNothing \/ PollReads
             \/ PollReleases
    BY <2>2, <2>6 DEF PollDispatches, PollCallsPipeBlock, PollAccepts, PollAcceptsNothing, PollReads,
                      PollReleases, Called
  <2>7. CASE \E j \in BagToSet(jobs) : Run(j)
    BY <2>2, <2>7 DEF Run, JobHup, JobReads, JobAnswers, JobSends, AnswerSent, AnswerShort, AnswerGoesOn,
                      JobNotifies, JobCloses, JobFinishes, jobFrame
  <2> QED BY <2>1, <2>4, <2>5, <2>6, <2>7 DEF Next, PollThread
<1>3. \A j \in BagToSet(jobs') : Answers(j)
  BY JobsAnswer
<1> QED BY <1>1, <1>2, <1>3 DEF Waits, Answers, InvKinds

------------------------------
(* The invariant of the answers. *)

\* At the start nobody holds a response.
LEMMA AnswersInit ==
  ASSUME AnswerInit
  PROVE  AnswerInv
<1>1. ServerInv /\ Init
  BY ServerInit DEF AnswerInit
<1>2. /\ updates = <<>> /\ polls = <<>> /\ jobs = EmptyBag
      /\ DOMAIN updates = {} /\ DOMAIN polls = {} /\ BagToSet(jobs) = {}
      /\ wire = [c \in Connections |-> "away"] /\ socket = [c \in Connections |-> None]
  BY <1>1 DEF Init, PollInit, EmptyBag, BagToSet, SetToBag
<1>3. response = [c \in Connections |-> NoResponse] /\ sent = [c \in Connections |-> <<>>]
  BY DEF AnswerInit
<1>4. InvResponses /\ InvKinds /\ InvClosing /\ InvSent
  BY <1>2, <1>3 DEF InvResponses, InvKinds, InvClosing, InvSent
<1>5. InvFresh
  BY <1>2, <1>3 DEF InvFresh, Unanswered, Capturing, Blocks
<1>6. ResponseHeld
  <2> SUFFICES ASSUME NEW c \in Connections
               PROVE  response[c].retainCount = Cardinality(Resuming(updates, c)) + Cardinality(Resuming(polls, c))
                            + Cardinality(Copies({j \in BagToSet(jobs) : Uses(j, c)}))
    BY DEF ResponseHeld
  <2>1. /\ Resuming(updates, c) = {} /\ Resuming(polls, c) = {}
        /\ Copies({j \in BagToSet(jobs) : Uses(j, c)}) = {}
    BY <1>2 DEF Resuming, Copies
  <2>2. response[c].retainCount = 0
    BY <1>3 DEF NoResponse
  <2>3. Cardinality({}) = 0
    BY FS_EmptySet
  <2> QED BY <2>1, <2>2, <2>3
<1> QED BY <1>1, <1>4, <1>5, <1>6 DEF AnswerInv

\* Whatever a job does.
LEMMA ServedByRun ==
  ASSUME AnswerInv, [Next]_vars, NEW j \in BagToSet(jobs), AnswerRun(j), NEW c \in Connections
  PROVE  Served(c)'
<1>0. ServerInv /\ TypeOK'
  BY StepFacts
<1>1. CASE JobProcesses(j)
  BY <1>1, ProcessServes
<1>2. CASE JobSendsPart(j)
  BY <1>2, PartServes
<1>3. CASE JobFailsToSend(j)
  BY <1>3, FailureServes
<1>4. CASE \/ JobResumes(j)
           \/ (JobHup(j) \/ JobReads(j) \/ JobNotifies(j) \/ JobCloses(j)) /\ UNCHANGED answerVars
  <2>1. /\ UNCHANGED answerVars
        /\ \/ JobHup(j) \/ JobReads(j) \/ JobNotifies(j) \/ JobCloses(j)
           \/ JobAnswers(j) /\ j.kind = "send"
    BY <1>4 DEF JobResumes
  <2>2. Counted(c, 0) /\ JobsGoOn(c)
    BY <1>0, <2>1, RunQuietlyCounted, JobsOfRun
  <2> QED BY <2>1, <2>2, QuietServed
<1>5. CASE JobFinishesResponse(j)
  <2>0. JobFinishes(j)
    BY <1>5 DEF JobFinishesResponse
  <2>1. JobsGoOn(c)
    BY <1>0, <2>0, JobsOfRun
  <2>2. /\ Counted(c, 0 - One(j.kind \in {"process", "send"} /\ j.conn = c))
        /\ j.kind \in {"process", "send"} /\ j.conn = c => Holders(updates, polls, jobs, c) # 0
    BY <1>0, <2>0, FinishCounted, UserHolds
  <2>3. CASE j.kind \in {"process", "send"}
    <3> DEFINE d == j.conn
    <3>1. RetainResponse(d, -1)
      BY <1>5, <2>3 DEF JobFinishesResponse
    <3>2. Counted(c, IF c = d THEN -1 ELSE 0)
      BY <2>2, <2>3 DEF One, Counted
    <3>3. c = d => Holders(updates, polls, jobs, c) # 0
      BY <2>2, <2>3
    <3> HIDE DEF d
    <3> QED BY <2>1, <3>1, <3>2, <3>3, RetainedServed
  <2>4. CASE j.kind \notin {"process", "send"}
    <3>1. UNCHANGED answerVars
      BY <1>5, <2>4 DEF JobFinishesResponse
    <3>2. Counted(c, 0)
      BY <2>2, <2>4 DEF One, Counted
    <3> QED BY <2>1, <3>1, <3>2, QuietServed
  <2> QED BY <2>3, <2>4
<1> QED BY <1>1, <1>2, <1>3, <1>4, <1>5 DEF AnswerRun

\* Every step keeps the invariant.
LEMMA AnswersStep ==
  ASSUME AnswerInv, [AnswerNext]_<<vars, answerVars>>
  PROVE  AnswerInv'
<1>1. [Next]_vars
  BY AnswerSteps
<1>2. ServerInv' /\ GoodQueues(updates', polls', jobs') /\ ServerInv /\ InvKinds
  BY <1>1, StepFacts
<1>3. InvKinds'
  BY <1>1, <1>2, KindsStep
<1>4. ASSUME NEW c \in Connections PROVE Served(c)'
  BY <1>1, ServedByOthers, ServedByRun DEF AnswerNext
<1> QED BY <1>2, <1>3, <1>4, AnswerShape, AllAreServed DEF Shaped

\* The order of the answers, from the invariant.
LEMMA AnswersOrdered ==
  ASSUME AnswerInv
  PROVE  AnswerInOrder
<1> SUFFICES ASSUME NEW c \in Connections, response[c] # NoResponse
             PROVE  /\ IsPrefix(sent[c], Text[response[c].body])
                    /\ (\E j \in Blocks(c) : j.step \in {"closing", "close"}) =>
                         sent[c] = Text[response[c].body] \/ wire[c] = "reset"
  BY DEF AnswerInOrder
<1> DEFINE r == response[c]
<1>1. Served(c) /\ r \in Responses /\ ServerInv
  BY EachIsServed DEF Served, AnswerInv
<1>2. ClosesOnce(c) /\ Got(c)
  BY <1>1 DEF Served
<1>3. IsPrefix(sent[c], Text[r.body])
  <2>1. CASE r.sendStatus = "complete"
    BY <1>2, <2>1 DEF Got
  <2>2. CASE r.sendStatus # "complete"
    <3>1. SentBy(Begun(r)) \in Seq(Alphabet) /\ Starts(SentBy(Begun(r)), Text[r.body])
      BY <1>1, <2>2, SentStarts
    <3>2. Text[r.body] \in Seq(Alphabet)
      BY <1>1, ResponseFields, TextIs DEF Stands
    <3> QED BY <1>2, <2>2, <3>1, <3>2, StartsIsPrefix DEF Got
  <2> QED BY <2>1, <2>2
<1>4. ASSUME NEW j \in Blocks(c), j.step \in {"closing", "close"}
      PROVE  sent[c] = Text[r.body] \/ wire[c] = "reset"
  <2>1. r.sendStatus = "complete"
    BY <1>2, <1>4 DEF ClosesOnce, Ending, Blocks
  <2>2. j \in AtWork(c)
    BY <1>4 DEF AtWork
  <2>3. socket[c] # None
    BY <1>1, <2>2, SoleWorker, Constants
  <2>4. wire[c] # "gone"
    BY <1>1, <2>3 DEF Served
  <2> QED BY <1>2, <2>1, <2>4 DEF Got
<1> QED BY <1>3, <1>4

\* The invariant holds of every state the server can get into.
THEOREM AnswersInvariant == AnswerSpec => []AnswerInv
<1>1. AnswerInit => AnswerInv
  BY AnswersInit
<1>2. AnswerInv /\ [AnswerNext]_<<vars, answerVars>> => AnswerInv'
  BY AnswersStep
<1> QED BY <1>1, <1>2, PTL DEF AnswerSpec

\* The response object lives exactly as long as somebody is going to use it.
THEOREM ResponsesAreHeld == AnswerSpec => []ResponseHeld
<1>1. AnswerInv => ResponseHeld
  BY DEF AnswerInv
<1> QED BY <1>1, AnswersInvariant, PTL

\* However often an answer is cut and resumed, the kernel gets its bytes in order and each
\* once, and all of them before the server closes the connection.
THEOREM AnswersAreInOrder == AnswerSpec => []AnswerInOrder
<1>1. AnswerInv => AnswerInOrder
  BY AnswersOrdered
<1> QED BY <1>1, AnswersInvariant, PTL

\* The web server with its answers spelled out is the web server of HTTPServer.
THEOREM AnswersImplementServer == AnswerSpec => ServerSpec
<1>1. AnswerInit => Init
  BY DEF AnswerInit
<1>2. AnswerInv /\ [AnswerNext]_<<vars, answerVars>> => [Next]_vars
  BY AnswerSteps
<1> QED BY <1>1, <1>2, AnswersInvariant, PTL DEF AnswerSpec, ServerSpec, Spec

==============================================================================
