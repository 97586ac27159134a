--------------------------- MODULE ChatServerProofs ---------------------------
(***************************************************************************)
(* Proofs about ChatServer: DictionaryExact, SocketIsOwn, UpdatesFindEntry *)
(* and WatchedWhileBuffered hold for every number of clients, descriptors, *)
(* names and lines and every size of the pipe.                             *)
(***************************************************************************)
EXTENDS ChatServer, ChatPollProofs

------------------------------------------------------------------------------
(* Everybody in the dictionary, and the names that are free. *)

\* SetToSeq lists a finite set.
LEMMA Listed ==
  ASSUME NEW S, IsFiniteSet(S)
  PROVE  SetToSeq(S) \in Seq(S) /\ Range(SetToSeq(S)) = S
<1> DEFINE n == Cardinality(S)
<1> DEFINE q == SetToSeq(S)
<1>1. n \in Nat /\ ExistsBijection(1..n, S)
  BY FS_CardinalityType
<1>2. PICK f : f \in Bijection(1..n, S)
  BY <1>1 DEF ExistsBijection
<1>3. f \in [1..n -> S] /\ IsInjective(f)
  BY <1>2 DEF Bijection, Injection
<1>4. q \in [1..n -> S] /\ IsInjective(q)
  BY <1>3 DEF SetToSeq
<1>5. IsFiniteSet(1..n) /\ Cardinality(1..n) = n
  BY <1>1, FS_Interval
<1>6. q \in Injection(1..n, S)
  BY <1>4 DEF Injection
<1>7. q \in Surjection(1..n, S)
  BY <1>5, <1>6, FS_Injection
<1>8. q \in Seq(S)
  BY <1>1, <1>4, SeqDef
<1>9. Range(q) = S
  BY <1>4, <1>7 DEF Range, Surjection
<1> QED
  BY <1>8, <1>9

\* Members are the clients that have a name, each of them in the sequence.
LEMMA MembersListed ==
  ASSUME NEW dict \in [Names -> Clients \cup {None}]
  PROVE  /\ Members(dict) \in Seq(Clients)
         /\ \A c : c \in Range(Members(dict)) <=> c \in Clients /\ \E n \in Names : dict[n] = c
<1> DEFINE S == Range(dict) \ {None}
<1>1. S \subseteq Clients
  BY DEF Range
<1>2. IsFiniteSet(S)
  BY <1>1, FS_Subset, ChatServerAssumption
<1>3. Members(dict) \in Seq(S) /\ Range(Members(dict)) = S
  BY <1>2, Listed DEF Members
<1>4. Members(dict) \in Seq(Clients)
  BY <1>1, <1>3, SeqMonotonic
<1>5. \A c : c \in S <=> c \in Clients /\ \E n \in Names : dict[n] = c
  BY ChatServerAssumption DEF Range
<1> QED
  BY <1>3, <1>4, <1>5

\* A client without a name finds one that is free.
LEMMA NameIsFree ==
  ASSUME NEW dict \in [Names -> Clients \cup {None}], NEW c \in Clients,
         \A n, m \in Names : dict[n] \in Clients /\ dict[n] = dict[m] => n = m,
         \A n \in Names : dict[n] # c
  PROVE  LeastFree(dict) \in Names /\ dict[LeastFree(dict)] = None
<1> DEFINE free == {n \in Names : dict[n] = None}
<1>1. free # {}
  <2> SUFFICES ASSUME free = {} PROVE FALSE
    OBVIOUS
  <2> DEFINE others == Clients \ {c}
  <2>1. dict \in Injection(Names, others)
    <3>1. dict \in [Names -> others]
      OBVIOUS
    <3>2. IsInjective(dict)
      BY <3>1 DEF IsInjective
    <3> QED
      BY <3>1, <3>2 DEF Injection
  <2>2. IsFiniteSet(others) /\ Cardinality(others) = Cardinality(Clients) - 1
    BY FS_RemoveElement, ChatServerAssumption
  <2>3. Cardinality(Names) <= Cardinality(others)
    BY <2>1, <2>2, FS_Injection
  <2>4. Cardinality(Names) \in Nat /\ Cardinality(Clients) \in Nat
    BY FS_CardinalityType, ChatServerAssumption
  <2>5. Cardinality(Names) >= Cardinality(Clients)
    BY ChatServerAssumption
  <2> QED
    BY ONLY <2>2, <2>3, <2>4, <2>5
<1>2. free \subseteq Nat
  BY ChatServerAssumption
<1>3. PICK m \in free : \A k \in free : m <= k
  BY <1>1, <1>2, LeastMember
<1>4. Min(free) \in free
  BY <1>3 DEF Min
<1>5. LeastFree(dict) = Min(free)
  BY DEF LeastFree
<1> QED
  BY <1>4, <1>5

------------------------------------------------------------------------------
(* The queue of updates. *)

Reports == {"in", "out", "hup"}
Ops     == {"register", "add", "remove event", "remove"}

\* The entries and the updates of ChatPollProofs.
LEMMA Shapes ==
  /\ Entries = EntriesOf(Descriptors, Handles, Reports)
  /\ Updates = UpdatesOf(Ops, Descriptors, Handles \cup {"none"})
  BY DEF Entries, EntriesOf, Updates, UpdatesOf, Reports, Ops

\* q is s followed by t.
Joined(s, t, q) ==
  /\ DOMAIN s \subseteq DOMAIN q /\ \A i \in DOMAIN s : q[i] = s[i]
  /\ \A m \in DOMAIN q : m \notin DOMAIN s => \E k \in DOMAIN t : q[m] = t[k]
  /\ \A i \in DOMAIN s, m \in DOMAIN q : m \notin DOMAIN s => i <= m

\* q is s followed by u, at place l.
Added(s, u, q, l) ==
  /\ DOMAIN s \subseteq DOMAIN q /\ \A i \in DOMAIN s : q[i] = s[i]
  /\ l \notin DOMAIN s /\ l \in DOMAIN q /\ q[l] = u
  /\ \A m \in DOMAIN q : m \in DOMAIN s \/ m = l
  /\ l <= l /\ \A i \in DOMAIN s : i <= l

\* That is what \o does.
LEMMA ConcatJoins ==
  ASSUME NEW U, NEW s \in Seq(U), NEW t \in Seq(U)
  PROVE  s \o t \in Seq(U) /\ Joined(s, t, s \o t)
<1> DEFINE l == Len(s)
<1> DEFINE q == s \o t
<1>1. /\ l \in Nat /\ Len(t) \in Nat /\ q \in Seq(U) /\ Len(q) = l + Len(t)
      /\ DOMAIN s = 1..l /\ DOMAIN t = 1..Len(t) /\ DOMAIN q = 1..(l + Len(t))
      /\ \A i \in 1..(l + Len(t)) : q[i] = IF i <= l THEN s[i] ELSE t[i - l]
  BY LenProperties, ConcatProperties
<1> HIDE DEF l, q
<1>2. DOMAIN s \subseteq DOMAIN q /\ \A i \in DOMAIN s : q[i] = s[i]
  BY <1>1
<1>3. ASSUME NEW m \in DOMAIN q, m \notin DOMAIN s
      PROVE  /\ \E k \in DOMAIN t : q[m] = t[k]
             /\ \A i \in DOMAIN s : i <= m
  <2>1. m - l \in 1..Len(t) /\ ~ (m <= l) /\ m \in Nat
    BY <1>1, <1>3
  <2>2. q[m] = t[m - l]
    BY <1>1, <2>1
  <2>3. \A i \in DOMAIN s : i <= m
    BY <1>1, <2>1
  <2> QED
    BY <1>1, <2>1, <2>2, <2>3
<1>4. Joined(s, t, q)
  BY <1>2, <1>3 DEF Joined
<1> QED
  BY <1>1, <1>4 DEF q

\* And when it adds one element.
LEMMA ConcatAdds ==
  ASSUME NEW U, NEW s \in Seq(U), NEW u \in U
  PROVE  s \o <<u>> \in Seq(U) /\ Added(s, u, s \o <<u>>, Len(s) + 1)
<1> DEFINE q == Append(s, u)
<1>1. s \o <<u>> = q
  BY AppendIsConcat
<1>2. /\ q \in Seq(U) /\ Len(q) = Len(s) + 1 /\ \A i \in 1..Len(s) : q[i] = s[i]
      /\ q[Len(s) + 1] = u
  BY AppendProperties
<1>3. Len(s) \in Nat /\ DOMAIN s = 1..Len(s) /\ DOMAIN q = 1..(Len(s) + 1)
  BY <1>2, LenProperties
<1> HIDE DEF q
<1>4. Added(s, u, q, Len(s) + 1)
  BY <1>2, <1>3 DEF Added
<1> QED
  BY <1>1, <1>2, <1>4

\* Changes of events, for descriptors that stay.
LEMMA ChangesArranged ==
  ASSUME NEW ps, NEW us, NEW t, NEW q, NEW K, NEW G, Joined(us, t, q), Arranged(ps, us, K, G),
         \A k \in DOMAIN t : /\ t[k].op \in {"add", "remove event"} /\ t[k].events = {"out"}
                             /\ t[k].pd \in Clients /\ t[k].pd \in K /\ t[k].pd \notin G
  PROVE  Arranged(ps, q, K, G)
<1>1. \A k \in DOMAIN us : k \in DOMAIN q /\ q[k] = us[k]
  BY DEF Joined
<1>2. \A k \in DOMAIN q : k \notin DOMAIN us =>
        /\ q[k].op \in {"add", "remove event"} /\ q[k].events = {"out"}
        /\ q[k].pd \in Clients /\ q[k].pd \in K /\ q[k].pd \notin G
  BY ZenonT(30) DEF Joined
<1>3. \A pd \in K : Joining(ps, q, pd)
  <2>1. \A pd \in K : Joining(ps, us, pd)
    BY DEF Arranged
  <2> QED
    BY <1>1, <2>1, ZenonT(30) DEF Joining
<1>4. \A pd \in G : Removing(q, pd)
  <2>1. \A pd \in G : Removing(us, pd)
    BY DEF Arranged
  <2> QED
    BY <1>1, <2>1, ZenonT(30) DEF Removing
<1>5. \A k \in DOMAIN q : q[k].pd \in K
  BY <1>1, <1>2 DEF Arranged
<1>6. \A k \in DOMAIN q : Suits(ps, q[k], G)
  <2>1. \A k \in DOMAIN us : Suits(ps, us[k], G)
    BY DEF Arranged
  <2>2. \A k \in DOMAIN q : k \notin DOMAIN us => Suits(ps, q[k], G)
    BY <1>2 DEF Suits
  <2> QED
    BY <1>1, <2>1, <2>2
<1>7. ASSUME NEW k \in DOMAIN q, q[k].op = "register" PROVE Opens(q, k)
  <2>1. k \in DOMAIN us /\ us[k].op = "register"
    BY <1>1, <1>2, <1>7
  <2>2. Opens(us, k)
    BY <2>1 DEF Arranged
  <2>3. \A m \in DOMAIN q : m \notin DOMAIN us => k <= m
    BY <2>1 DEF Joined
  <2> QED
    BY <1>1, <2>1, <2>2, <2>3 DEF Opens
<1>8. ASSUME NEW k \in DOMAIN q, q[k].op = "remove" PROVE Closes(q, k)
  <2>1. k \in DOMAIN us /\ us[k].op = "remove"
    BY <1>1, <1>2, <1>8
  <2>2. Closes(us, k) /\ Suits(ps, us[k], G)
    BY <2>1 DEF Arranged
  <2>3. us[k].pd \in G
    BY <2>1, <2>2 DEF Suits
  <2> QED
    BY <1>1, <1>2, <2>1, <2>2, <2>3 DEF Closes
<1>9. /\ \A i, m \in DOMAIN ps : ps[i].pd = ps[m].pd => i = m
      /\ \A i \in DOMAIN ps : ps[i].pd \in K
  BY DEF Arranged
<1> QED
  BY <1>3, <1>4, <1>5, <1>6, <1>7, <1>8, <1>9 DEF Arranged

\* The registration of somebody who had none.
LEMMA RegisterArranged ==
  ASSUME NEW ps, NEW us, NEW u, NEW q, NEW l, NEW K, NEW G,
         Added(us, u, q, l), Arranged(ps, us, K, G),
         u.op = "register", u.fd \in Handles, "out" \notin u.events, u.pd \notin K
  PROVE  Arranged(ps, q, K \cup {u.pd}, G)
<1>1. \A k \in DOMAIN us : k \in DOMAIN q /\ q[k] = us[k]
  BY DEF Added
<1>2. l \in DOMAIN q /\ q[l] = u /\ l <= l /\ \A k \in DOMAIN q : k \in DOMAIN us \/ k = l
  BY DEF Added
<1>3. /\ \A i, m \in DOMAIN ps : ps[i].pd = ps[m].pd => i = m
      /\ \A i \in DOMAIN ps : ps[i].pd \in K
      /\ \A k \in DOMAIN us : us[k].pd \in K
  BY DEF Arranged
<1>4. \A pd \in K \cup {u.pd} : Joining(ps, q, pd)
  <2>1. \A pd \in K : Joining(ps, us, pd)
    BY DEF Arranged
  <2> QED
    BY <1>1, <1>2, <2>1 DEF Joining
<1>5. \A pd \in G : Removing(q, pd)
  <2>1. \A pd \in G : Removing(us, pd)
    BY DEF Arranged
  <2> QED
    BY <1>1, <2>1 DEF Removing
<1>6. \A k \in DOMAIN q : Suits(ps, q[k], G)
  <2>1. \A k \in DOMAIN us : Suits(ps, us[k], G)
    BY DEF Arranged
  <2>2. Suits(ps, u, G)
    BY <1>3 DEF Suits
  <2> QED
    BY <1>1, <1>2, <2>1, <2>2
<1>7. ASSUME NEW k \in DOMAIN q, q[k].op = "register" PROVE Opens(q, k)
  <2>1. CASE k \in DOMAIN us
    <3>1. Opens(us, k)
      BY <1>1, <1>7, <2>1 DEF Arranged
    <3> QED
      BY <1>1, <1>2, <1>3, <2>1, <3>1 DEF Opens
  <2>2. CASE k = l
    BY <1>1, <1>2, <1>3, <2>2 DEF Opens
  <2> QED
    BY <1>2, <2>1, <2>2
<1>8. ASSUME NEW k \in DOMAIN q, q[k].op = "remove" PROVE Closes(q, k)
  <2>1. k \in DOMAIN us
    BY <1>2, <1>8
  <2>2. Closes(us, k)
    BY <1>1, <1>8, <2>1 DEF Arranged
  <2> QED
    BY <1>1, <1>2, <1>3, <2>1, <2>2 DEF Closes
<1> QED
  BY <1>1, <1>2, <1>3, <1>4, <1>5, <1>6, <1>7, <1>8 DEF Arranged

\* The removal of somebody who had asked for none.
LEMMA RemoveArranged ==
  ASSUME NEW ps, NEW us, NEW u, NEW q, NEW l, NEW K, NEW G,
         Added(us, u, q, l), Arranged(ps, us, K, G),
         u.op = "remove", u.pd \in K, u.pd \notin G
  PROVE  Arranged(ps, q, K, G \cup {u.pd})
<1>1. \A k \in DOMAIN us : k \in DOMAIN q /\ q[k] = us[k] /\ k <= l
  BY DEF Added
<1>2. l \in DOMAIN q /\ q[l] = u /\ l <= l /\ \A k \in DOMAIN q : k \in DOMAIN us \/ k = l
  BY DEF Added
<1>3. /\ \A i, m \in DOMAIN ps : ps[i].pd = ps[m].pd => i = m
      /\ \A i \in DOMAIN ps : ps[i].pd \in K
      /\ \A k \in DOMAIN us : us[k].pd \in K
  BY DEF Arranged
<1>4. \A pd \in K : Joining(ps, q, pd)
  <2>1. \A pd \in K : Joining(ps, us, pd)
    BY DEF Arranged
  <2> QED
    BY <1>1, <2>1 DEF Joining
<1>5. \A pd \in G \cup {u.pd} : Removing(q, pd)
  <2>1. \A pd \in G : Removing(us, pd)
    BY DEF Arranged
  <2> QED
    BY <1>1, <1>2, <2>1 DEF Removing
<1>6. \A k \in DOMAIN us : Suits(ps, us[k], G)
  BY DEF Arranged
<1>7. \A k \in DOMAIN q : Suits(ps, q[k], G \cup {u.pd})
  <2>1. \A k \in DOMAIN us : Suits(ps, us[k], G \cup {u.pd})
    BY <1>6 DEF Suits
  <2>2. Suits(ps, u, G \cup {u.pd})
    BY DEF Suits
  <2> QED
    BY <1>1, <1>2, <2>1, <2>2
<1>8. ASSUME NEW k \in DOMAIN q, q[k].op = "register" PROVE Opens(q, k)
  <2>1. k \in DOMAIN us
    BY <1>2, <1>8
  <2>2. Opens(us, k)
    BY <1>1, <1>8, <2>1 DEF Arranged
  <2> QED
    BY <1>1, <1>2, <2>1, <2>2 DEF Opens
<1>9. ASSUME NEW k \in DOMAIN q, q[k].op = "remove" PROVE Closes(q, k)
  <2>1. CASE k \in DOMAIN us
    <3>1. Closes(us, k) /\ us[k].op = "remove"
      BY <1>1, <1>9, <2>1 DEF Arranged
    <3>2. us[k].pd # u.pd
      BY <1>6, <2>1, <3>1 DEF Suits
    <3> QED
      BY <1>1, <1>2, <2>1, <3>1, <3>2 DEF Closes
  <2>2. CASE k = l
    BY <1>1, <1>2, <2>2 DEF Closes
  <2> QED
    BY <1>2, <2>1, <2>2
<1> QED
  BY <1>1, <1>2, <1>3, <1>4, <1>5, <1>7, <1>8, <1>9 DEF Arranged

\* t is us without the update h at its front.
Taken(us, h, t) ==
  /\ 1 \in DOMAIN us /\ us[1] = h
  /\ \A k \in DOMAIN t : k + 1 \in DOMAIN us /\ t[k] = us[k + 1] /\ ~ (k + 1 <= 1)
  /\ \A m \in DOMAIN us : m = 1 \/ \E k \in DOMAIN t : m = k + 1
  /\ \A k, m \in DOMAIN t : k <= m <=> k + 1 <= m + 1

\* Head and Tail do that.
LEMMA HeadIsTaken ==
  ASSUME NEW U, NEW us \in Seq(U), us # <<>>
  PROVE  Taken(us, Head(us), Tail(us)) /\ Tail(us) \in Seq(U) /\ Head(us) \in U
<1>1. /\ Tail(us) \in Seq(U) /\ Len(Tail(us)) = Len(us) - 1 /\ Head(us) \in U
      /\ \A i \in 1..Len(Tail(us)) : Tail(us)[i] = us[i + 1]
  BY HeadTailProperties
<1>2. /\ Len(us) \in Nat \ {0} /\ DOMAIN us = 1..Len(us)
      /\ DOMAIN Tail(us) = 1..(Len(us) - 1)
  BY <1>1, LenProperties, EmptySeq
<1>3. Head(us) = us[1]
  OBVIOUS
<1> DEFINE l == Len(us)
<1> DEFINE t == Tail(us)
<1> HIDE DEF l, t
<1>4. l \in Nat \ {0} /\ DOMAIN us = 1..l /\ DOMAIN t = 1..(l - 1)
  BY <1>2 DEF l, t
<1>5. 1 \in DOMAIN us
  BY <1>4
<1>6. \A k \in DOMAIN t : k + 1 \in DOMAIN us /\ ~ (k + 1 <= 1)
  BY <1>4
<1>7. \A m \in DOMAIN us : m = 1 \/ \E k \in DOMAIN t : m = k + 1
  <2> SUFFICES ASSUME NEW m \in 1..l, m # 1 PROVE \E k \in 1..(l - 1) : m = k + 1
    BY <1>4
  <2>1. m - 1 \in 1..(l - 1) /\ m = (m - 1) + 1
    BY <1>4
  <2> QED
    BY <2>1
<1>8. \A k, m \in DOMAIN t : k <= m <=> k + 1 <= m + 1
  BY <1>4
<1>9. \A k \in DOMAIN t : t[k] = us[k + 1]
  BY <1>1, <1>2 DEF t
<1>10. Taken(us, Head(us), t)
  BY <1>3, <1>5, <1>6, <1>7, <1>8, <1>9 DEF Taken
<1> QED
  BY <1>1, <1>10 DEF t

\* What is left of the queue is in order as before.
LEMMA TakenOrder ==
  ASSUME NEW ps, NEW us, NEW h, NEW t, NEW K, NEW G, Taken(us, h, t), Arranged(ps, us, K, G)
  PROVE  /\ h.pd \in K /\ Suits(ps, h, G)
         /\ \A k \in DOMAIN t : t[k].pd \in K /\ Suits(ps, t[k], G)
         /\ \A k \in DOMAIN t : t[k].op = "register" => Opens(t, k) /\ t[k].pd # h.pd
         /\ \A k \in DOMAIN t : t[k].op = "remove" => Closes(t, k)
         /\ h.op = "remove" => \A k \in DOMAIN t : t[k].pd # h.pd
<1>1. /\ 1 \in DOMAIN us /\ us[1] = h
      /\ \A k \in DOMAIN t : k + 1 \in DOMAIN us /\ t[k] = us[k + 1] /\ ~ (k + 1 <= 1)
      /\ \A k, m \in DOMAIN t : k <= m <=> k + 1 <= m + 1
  BY DEF Taken
<1>2. h.pd \in K /\ \A k \in DOMAIN t : t[k].pd \in K
  BY <1>1 DEF Arranged
<1>3. \A k \in DOMAIN us : Suits(ps, us[k], G)
  BY DEF Arranged
<1>4. \A k \in DOMAIN us : us[k].op = "register" => Opens(us, k)
  BY DEF Arranged
<1>5. \A k \in DOMAIN us : us[k].op = "remove" => Closes(us, k)
  BY DEF Arranged
<1>6. ASSUME NEW k \in DOMAIN t, t[k].op = "register" PROVE Opens(t, k) /\ t[k].pd # h.pd
  <2>1. Opens(us, k + 1)
    BY <1>1, <1>4, <1>6
  <2> QED
    BY <1>1, <2>1 DEF Opens
<1>7. ASSUME NEW k \in DOMAIN t, t[k].op = "remove" PROVE Closes(t, k)
  <2>1. Closes(us, k + 1)
    BY <1>1, <1>5, <1>7
  <2> QED
    BY <1>1, <2>1 DEF Closes
<1>8. ASSUME h.op = "remove", NEW k \in DOMAIN t PROVE t[k].pd # h.pd
  <2>1. Closes(us, 1)
    BY <1>1, <1>5, <1>8
  <2> QED
    BY <1>1, <2>1 DEF Closes
<1> QED
  BY <1>1, <1>2, <1>3, <1>6, <1>7, <1>8

\* Nobody's registration or removal is lost but that of h.
LEMMA TakenKeeps ==
  ASSUME NEW us, NEW h, NEW t, Taken(us, h, t), NEW k \in DOMAIN us
  PROVE  us[k] = h \/ \E m \in DOMAIN t : t[m] = us[k]
<1>1. /\ us[1] = h
      /\ \A m \in DOMAIN t : t[m] = us[m + 1]
      /\ k = 1 \/ \E m \in DOMAIN t : k = m + 1
  BY DEF Taken
<1> QED
  BY <1>1

\* The removals that are still to come.
LEMMA RemovingLater ==
  ASSUME NEW us, NEW h, NEW t, NEW pd, Taken(us, h, t), Removing(us, pd),
         ~ (h.op = "remove" /\ h.pd = pd)
  PROVE  Removing(t, pd)
<1>1. PICK k \in DOMAIN us : us[k].op = "remove" /\ us[k].pd = pd
  BY DEF Removing
<1>2. \E m \in DOMAIN t : t[m] = us[k]
  BY <1>1, TakenKeeps
<1> QED
  BY <1>1, <1>2 DEF Removing

\* A registration is applied.
LEMMA RegisterApplied ==
  ASSUME NEW E, NEW ps \in Seq(E), NEW us, NEW h, NEW t, NEW new, NEW K, NEW G,
         Taken(us, h, t), Arranged(ps, us, K, G), h.op = "register", AddsEntry(ps, new, h)
  PROVE  Arranged(new, t, K, G)
<1>1. /\ \A i, m \in DOMAIN ps : ps[i].pd = ps[m].pd => i = m
      /\ \A i \in DOMAIN ps : ps[i].pd \in K
      /\ \A pd \in K : Joining(ps, us, pd)
      /\ \A pd \in G : Removing(us, pd)
  BY DEF Arranged
<1>2. /\ h.pd \in K /\ Suits(ps, h, G)
      /\ \A k \in DOMAIN t : t[k].pd \in K /\ Suits(ps, t[k], G)
      /\ \A k \in DOMAIN t : t[k].op = "register" => Opens(t, k) /\ t[k].pd # h.pd
      /\ \A k \in DOMAIN t : t[k].op = "remove" => Closes(t, k)
  BY TakenOrder
<1>3. \A i \in DOMAIN ps : ps[i].pd # h.pd
  BY <1>2 DEF Suits
<1>4. PICK l : l \in DOMAIN new /\ new[l].pd = h.pd /\ \A i \in DOMAIN new : i \in DOMAIN ps \/ i = l
  <2> DEFINE l == Len(ps) + 1
  <2>1. new[l].pd = h.pd /\ \A i \in DOMAIN new : i \in DOMAIN ps \/ i = l
    BY DEF AddsEntry
  <2>2. l \in DOMAIN new
    <3>1. Len(ps) \in Nat
      BY LenProperties
    <3> QED
      BY <3>1 DEF AddsEntry
  <2> QED
    BY <2>1, <2>2
<1>5. \A i \in DOMAIN ps : i \in DOMAIN new /\ new[i] = ps[i]
  BY DEF AddsEntry
<1>6. \A i, m \in DOMAIN new : new[i].pd = new[m].pd => i = m
  BY <1>1, <1>3, <1>4, <1>5
<1>7. \A i \in DOMAIN new : new[i].pd \in K
  BY <1>1, <1>2, <1>4, <1>5
<1>8. ASSUME NEW pd \in K PROVE Joining(new, t, pd)
  <2>1. CASE \E i \in DOMAIN ps : ps[i].pd = pd
    BY <1>5, <2>1 DEF Joining
  <2>2. CASE \E k \in DOMAIN us : us[k].op = "register" /\ us[k].pd = pd
    <3>1. PICK k \in DOMAIN us : us[k].op = "register" /\ us[k].pd = pd
      BY <2>2
    <3>2. us[k] = h \/ \E m \in DOMAIN t : t[m] = us[k]
      BY TakenKeeps
    <3> QED
      BY <1>4, <3>1, <3>2 DEF Joining
  <2> QED
    BY <1>1, <2>1, <2>2 DEF Joining
<1>9. \A pd \in G : Removing(t, pd)
  BY <1>1, RemovingLater
<1>10. \A k \in DOMAIN t : Suits(new, t[k], G)
  <2>1. ASSUME NEW k \in DOMAIN t, t[k].op = "register", NEW i \in DOMAIN new
        PROVE  new[i].pd # t[k].pd
    BY <1>2, <1>4, <1>5, <2>1 DEF Suits
  <2> QED
    BY <1>2, <2>1 DEF Suits
<1> QED
  BY <1>2, <1>6, <1>7, <1>8, <1>9, <1>10 DEF Arranged

\* Events are changed.
LEMMA ChangeApplied ==
  ASSUME NEW ps, NEW us, NEW h, NEW t, NEW new, NEW K, NEW G, Taken(us, h, t),
         Arranged(ps, us, K, G), h.op # "register", h.op # "remove", Alike(ps, new)
  PROVE  Arranged(new, t, K, G)
<1>1. /\ \A i, m \in DOMAIN ps : ps[i].pd = ps[m].pd => i = m
      /\ \A i \in DOMAIN ps : ps[i].pd \in K
      /\ \A pd \in K : Joining(ps, us, pd)
      /\ \A pd \in G : Removing(us, pd)
  BY DEF Arranged
<1>2. /\ \A k \in DOMAIN t : t[k].pd \in K /\ Suits(ps, t[k], G)
      /\ \A k \in DOMAIN t : t[k].op = "register" => Opens(t, k)
      /\ \A k \in DOMAIN t : t[k].op = "remove" => Closes(t, k)
  BY TakenOrder
<1>3. DOMAIN new = DOMAIN ps /\ \A i \in DOMAIN ps : new[i].pd = ps[i].pd
  BY DEF Alike
<1>4. ASSUME NEW pd \in K PROVE Joining(new, t, pd)
  <2>1. CASE \E i \in DOMAIN ps : ps[i].pd = pd
    BY <1>3, <2>1 DEF Joining
  <2>2. CASE \E k \in DOMAIN us : us[k].op = "register" /\ us[k].pd = pd
    <3>1. PICK k \in DOMAIN us : us[k].op = "register" /\ us[k].pd = pd
      BY <2>2
    <3>2. us[k] = h \/ \E m \in DOMAIN t : t[m] = us[k]
      BY TakenKeeps
    <3>3. \E m \in DOMAIN t : t[m] = us[k]
      BY <3>1, <3>2
    <3> QED
      BY <3>1, <3>3 DEF Joining
  <2> QED
    BY <1>1, <2>1, <2>2 DEF Joining
<1>5. \A pd \in G : Removing(t, pd)
  BY <1>1, RemovingLater
<1>6. \A k \in DOMAIN t : Suits(new, t[k], G)
  BY <1>2, <1>3 DEF Suits
<1> QED
  BY <1>1, <1>2, <1>3, <1>4, <1>5, <1>6 DEF Arranged

\* An entry is removed.
LEMMA RemoveApplied ==
  ASSUME NEW ps, NEW us, NEW h, NEW t, NEW new, NEW K, NEW G, Taken(us, h, t),
         Arranged(ps, us, K, G), h.op = "remove", Dropped(ps, new, h.pd)
  PROVE  Arranged(new, t, K \ {h.pd}, G \ {h.pd})
<1>1. /\ \A i \in DOMAIN ps : ps[i].pd \in K
      /\ \A pd \in K : Joining(ps, us, pd)
      /\ \A pd \in G : Removing(us, pd)
  BY DEF Arranged
<1>2. /\ \A k \in DOMAIN t : t[k].pd \in K /\ Suits(ps, t[k], G) /\ t[k].pd # h.pd
      /\ \A k \in DOMAIN t : t[k].op = "register" => Opens(t, k)
      /\ \A k \in DOMAIN t : t[k].op = "remove" => Closes(t, k)
  BY TakenOrder
<1>3. /\ \A i \in DOMAIN new : new[i].pd # h.pd /\ \E m \in DOMAIN ps : new[i] = ps[m]
      /\ \A m \in DOMAIN ps : ps[m].pd # h.pd => \E i \in DOMAIN new : new[i] = ps[m]
      /\ \A i, m \in DOMAIN new : new[i].pd = new[m].pd => i = m
  BY DEF Dropped
<1>4. ASSUME NEW pd \in K \ {h.pd} PROVE Joining(new, t, pd)
  <2>1. CASE \E i \in DOMAIN ps : ps[i].pd = pd
    BY <1>3, <2>1 DEF Joining
  <2>2. CASE \E k \in DOMAIN us : us[k].op = "register" /\ us[k].pd = pd
    <3>1. PICK k \in DOMAIN us : us[k].op = "register" /\ us[k].pd = pd
      BY <2>2
    <3>2. \E m \in DOMAIN t : t[m] = us[k]
      BY <3>1, TakenKeeps
    <3> QED
      BY <3>1, <3>2 DEF Joining
  <2> QED
    BY <1>1, <2>1, <2>2 DEF Joining
<1>5. \A pd \in G \ {h.pd} : Removing(t, pd)
  BY <1>1, RemovingLater
<1>6. ASSUME NEW k \in DOMAIN t PROVE Suits(new, t[k], G \ {h.pd})
  <2>1. Suits(ps, t[k], G) /\ t[k].pd # h.pd
    BY <1>2
  <2>2. (\A i \in DOMAIN ps : ps[i].pd # t[k].pd) => \A i \in DOMAIN new : new[i].pd # t[k].pd
    BY <1>3
  <2> QED
    BY <2>1, <2>2 DEF Suits
<1>7. \A i \in DOMAIN new : new[i].pd \in K \ {h.pd}
  BY <1>1, <1>3
<1> QED
  BY <1>2, <1>3, <1>4, <1>5, <1>6, <1>7 DEF Arranged

\* Who leaves has an entry when the removal is at the front, and so has whoever is to have
\* events changed.
LEMMA HeadFindsEntry ==
  ASSUME NEW ps, NEW us, NEW h, NEW t, NEW K, NEW G, Taken(us, h, t), Arranged(ps, us, K, G),
         h.op # "register"
  PROVE  \E i \in DOMAIN ps : ps[i].pd = h.pd
<1>1. h.pd \in K /\ \A k \in DOMAIN t : t[k].op = "register" => t[k].pd # h.pd
  BY TakenOrder
<1>2. Joining(ps, us, h.pd)
  BY <1>1 DEF Arranged
<1>3. ASSUME NEW k \in DOMAIN us, us[k].op = "register", us[k].pd = h.pd PROVE FALSE
  <2>1. \E m \in DOMAIN t : t[m] = us[k]
    BY <1>3, TakenKeeps
  <2> QED
    BY <1>1, <1>3, <2>1
<1> QED
  BY <1>2, <1>3 DEF Joining

------------------------------------------------------------------------------
(* ClientWriteLine to some of the clients. *)

Adds(seq) == [i \in DOMAIN seq |-> AddOut(seq[i])]

\* An update for each of them.
LEMMA AddsShape ==
  ASSUME NEW seq \in Seq(Clients)
  PROVE  /\ Adds(seq) \in Seq(Updates) /\ DOMAIN Adds(seq) = DOMAIN seq
         /\ \A k \in DOMAIN seq : /\ Adds(seq)[k].op = "add" /\ Adds(seq)[k].pd = seq[k]
                                  /\ Adds(seq)[k].events = {"out"}
<1>1. Len(seq) \in Nat /\ DOMAIN seq = 1..Len(seq) /\ \A k \in 1..Len(seq) : seq[k] \in Clients
  BY LenProperties, ElementOfSeq
<1>2. ASSUME NEW c \in Clients
      PROVE  /\ AddOut(c) \in Updates
             /\ AddOut(c).op = "add" /\ AddOut(c).pd = c /\ AddOut(c).events = {"out"}
  BY DEF AddOut, Update, Updates, Descriptors
<1>3. Adds(seq) \in [1..Len(seq) -> Updates]
  BY <1>1, <1>2 DEF Adds
<1>4. Adds(seq) \in Seq(Updates)
  BY <1>1, <1>3, SeqDef
<1> QED
  BY <1>1, <1>2, <1>4 DEF Adds

\* They will be watched for POLLOUT.
LEMMA AddsWatch ==
  ASSUME NEW us \in Seq(Updates), NEW seq \in Seq(Clients), NEW ps, NEW pd
  PROVE  Watches(ps, us \o Adds(seq), pd) <=> pd \in Range(seq) \/ Watches(ps, us, pd)
<1> DEFINE t == Adds(seq)
<1>1. /\ t \in Seq(Updates) /\ DOMAIN t = DOMAIN seq
      /\ \A k \in DOMAIN seq : t[k].op = "add" /\ t[k].pd = seq[k]
  BY AddsShape
<1> HIDE DEF t
<1>2. Changes(t, pd) = {k \in DOMAIN seq : seq[k] = pd}
  BY <1>1 DEF Changes
<1>3. Changes(t, pd) # {} <=> pd \in Range(seq)
  BY <1>2 DEF Range
<1>4. Changes(t, pd) # {} => LastAdds(t, pd)
  <2> SUFFICES ASSUME Changes(t, pd) # {} PROVE LastAdds(t, pd)
    OBVIOUS
  <2>1. Max(Changes(t, pd)) \in Changes(t, pd)
    BY <1>1, ChangesBounded, MaxIsMember
  <2>2. Max(Changes(t, pd)) \in DOMAIN seq
    BY <1>2, <2>1
  <2> QED
    BY <1>1, <2>2 DEF LastAdds
<1>5. Watches(ps, us \o t, pd) <=> IF Changes(t, pd) # {} THEN LastAdds(t, pd) ELSE Watches(ps, us, pd)
  BY <1>1, ConcatWatches
<1> QED
  BY <1>3, <1>4, <1>5 DEF t

\* What a handler makes of the queue: those who asked for an entry and those who leave become
\* K2 and G2, and T are the clients that were told something.
Grown(us, new, K, G, K2, G2, T) ==
  /\ new \in Seq(Updates)
  /\ \A ps : Arranged(ps, us, K, G) => Arranged(ps, new, K2, G2)
  /\ \A ps, pd : Watches(ps, new, pd) <=> pd \in T \/ Watches(ps, us, pd)

\* One thing after the other.
LEMMA GrowTwice ==
  ASSUME NEW a, NEW b, NEW c, NEW K, NEW G, NEW K2, NEW G2, NEW K3, NEW G3, NEW T, NEW T2,
         Grown(a, b, K, G, K2, G2, T), Grown(b, c, K2, G2, K3, G3, T2)
  PROVE  Grown(a, c, K, G, K3, G3, T \cup T2)
<1>1. \A ps, pd : Watches(ps, c, pd) <=> pd \in T \cup T2 \/ Watches(ps, a, pd)
  <2> SUFFICES ASSUME NEW ps, NEW pd
               PROVE  Watches(ps, c, pd) <=> pd \in T \cup T2 \/ Watches(ps, a, pd)
    OBVIOUS
  <2>1. Watches(ps, c, pd) <=> pd \in T2 \/ Watches(ps, b, pd)
    BY DEF Grown
  <2>2. Watches(ps, b, pd) <=> pd \in T \/ Watches(ps, a, pd)
    BY DEF Grown
  <2> QED
    BY <2>1, <2>2
<1> QED
  BY <1>1 DEF Grown

\* Those who are told are members.
LEMMA GrowAdds ==
  ASSUME NEW us \in Seq(Updates), NEW seq \in Seq(Clients), NEW K, NEW G,
         \A c \in Range(seq) : c \in K /\ c \notin G
  PROVE  Grown(us, us \o Adds(seq), K, G, K, G, Range(seq))
<1> DEFINE t == Adds(seq)
<1> DEFINE q == us \o t
<1>1. /\ t \in Seq(Updates) /\ DOMAIN t = DOMAIN seq
      /\ \A k \in DOMAIN seq : t[k].op = "add" /\ t[k].pd = seq[k] /\ t[k].events = {"out"}
  BY AddsShape
<1>2. \A k \in DOMAIN seq : seq[k] \in Range(seq) /\ seq[k] \in Clients
  BY LenProperties, ElementOfSeq DEF Range
<1>3. \A ps, pd : Watches(ps, q, pd) <=> pd \in Range(seq) \/ Watches(ps, us, pd)
  BY AddsWatch
<1>4. q \in Seq(Updates) /\ Joined(us, t, q)
  BY <1>1, ConcatJoins
<1> HIDE DEF t, q
<1>5. \A k \in DOMAIN t : /\ t[k].op \in {"add", "remove event"} /\ t[k].events = {"out"}
                          /\ t[k].pd \in Clients /\ t[k].pd \in K /\ t[k].pd \notin G
  BY <1>1, <1>2
<1>6. ASSUME NEW ps, Arranged(ps, us, K, G) PROVE Arranged(ps, q, K, G)
  BY <1>4, <1>5, <1>6, ChangesArranged
<1>7. Grown(us, q, K, G, K, G, Range(seq))
  BY <1>3, <1>4, <1>6 DEF Grown
<1> QED
  BY <1>7 DEF q, t

\* One that is new is registered.
LEMMA GrowRegister ==
  ASSUME NEW us \in Seq(Updates), NEW u \in Updates, NEW K, NEW G,
         u.op = "register", u.fd \in Handles, "out" \notin u.events, u.pd \notin K
  PROVE  Grown(us, us \o <<u>>, K, G, K \cup {u.pd}, G, {})
<1> DEFINE q == us \o <<u>>
<1>1. q \in Seq(Updates) /\ Added(us, u, q, Len(us) + 1)
  BY ConcatAdds
<1>2. ~ \E pd : Touches(u, pd)
  BY DEF Touches
<1>3. \A ps, pd : Watches(ps, q, pd) <=> IF Touches(u, pd) THEN u.op = "add" ELSE Watches(ps, us, pd)
  BY AppendWatches
<1> HIDE DEF q
<1>4. ASSUME NEW ps, Arranged(ps, us, K, G) PROVE Arranged(ps, q, K \cup {u.pd}, G)
  BY <1>1, <1>4, RegisterArranged
<1>5. Grown(us, q, K, G, K \cup {u.pd}, G, {})
  BY <1>1, <1>2, <1>3, <1>4 DEF Grown
<1> QED
  BY <1>5 DEF q

\* One that leaves is to be removed.
LEMMA GrowRemove ==
  ASSUME NEW us \in Seq(Updates), NEW u \in Updates, NEW K, NEW G,
         u.op = "remove", u.pd \in K, u.pd \notin G
  PROVE  Grown(us, us \o <<u>>, K, G, K, G \cup {u.pd}, {})
<1> DEFINE q == us \o <<u>>
<1>1. q \in Seq(Updates) /\ Added(us, u, q, Len(us) + 1)
  BY ConcatAdds
<1>2. ~ \E pd : Touches(u, pd)
  BY DEF Touches
<1>3. \A ps, pd : Watches(ps, q, pd) <=> IF Touches(u, pd) THEN u.op = "add" ELSE Watches(ps, us, pd)
  BY AppendWatches
<1> HIDE DEF q
<1>4. ASSUME NEW ps, Arranged(ps, us, K, G) PROVE Arranged(ps, q, K, G \cup {u.pd})
  BY <1>1, <1>4, RemoveArranged
<1>5. Grown(us, q, K, G, K, G \cup {u.pd}, {})
  BY <1>1, <1>2, <1>3, <1>4 DEF Grown
<1> QED
  BY <1>5 DEF q

\* The pipe after any number of updates.
LEMMA EnqueueHolds ==
  ASSUME NEW s \in Seq(Updates), updates \in Seq(Updates), pipe \in 0..PipeSize, Enqueue(s)
  PROVE  updates' = updates \o s /\ pipe' \in 0..PipeSize
<1>1. updates' = updates \o s /\ pipe' = Written(pipe, Len(s))
  BY DEF Enqueue
<1>2. Len(s) \in Nat
  BY LenProperties
<1> QED
  BY <1>1, <1>2, PipeHolds

\* Members are told something.
LEMMA TellMembers ==
  ASSUME updates \in Seq(Updates), pipe \in 0..PipeSize, NEW seq \in Seq(Clients), NEW K, NEW G,
         \A c \in Range(seq) : c \in K /\ c \notin G, Tell(seq, <<>>, <<>>)
  PROVE  Grown(updates, updates', K, G, K, G, Range(seq)) /\ pipe' \in 0..PipeSize
<1> DEFINE t == Adds(seq)
<1>1. t \in Seq(Updates)
  BY AddsShape
<1>2. Enqueue(<<>> \o t \o <<>>)
  BY DEF Tell, Adds
<1>3. <<>> \o t \o <<>> = t
  BY <1>1, ConcatEmptySeq
<1> HIDE DEF t
<1>4. Enqueue(t)
  BY <1>2, <1>3
<1>5. updates' = updates \o t /\ pipe' \in 0..PipeSize
  BY <1>1, <1>4, EnqueueHolds
<1>6. Grown(updates, updates \o t, K, G, K, G, Range(seq))
  BY GrowAdds DEF t
<1> QED
  BY <1>5, <1>6

\* So are they and the client that comes.
LEMMA TellArrival ==
  ASSUME updates \in Seq(Updates), pipe \in 0..PipeSize, NEW seq \in Seq(Clients), NEW K, NEW G,
         NEW u \in Updates, u.op = "register", u.fd \in Handles, "out" \notin u.events, u.pd \notin K,
         \A c \in Range(seq) : c \in K \cup {u.pd} /\ c \notin G, Tell(seq, <<u>>, <<>>)
  PROVE  Grown(updates, updates', K, G, K \cup {u.pd}, G, Range(seq)) /\ pipe' \in 0..PipeSize
<1> DEFINE t == Adds(seq)
<1> DEFINE r == <<u>>
<1>1. t \in Seq(Updates) /\ r \in Seq(Updates)
  BY AddsShape
<1>2. Enqueue(r \o t \o <<>>)
  BY DEF Tell, Adds
<1>3. Grown(updates, updates \o r, K, G, K \cup {u.pd}, G, {}) /\ updates \o r \in Seq(Updates)
  BY GrowRegister, <1>1, ConcatProperties
<1>4. Grown(updates \o r, (updates \o r) \o t, K \cup {u.pd}, G, K \cup {u.pd}, G, Range(seq))
  BY <1>3, GrowAdds
<1> HIDE DEF t, r
<1>5. r \o t \in Seq(Updates) /\ r \o t \o <<>> = r \o t
  BY <1>1, ConcatProperties, ConcatEmptySeq
<1>6. Enqueue(r \o t)
  BY <1>2, <1>5
<1>7. updates' = updates \o (r \o t) /\ pipe' \in 0..PipeSize
  BY <1>5, <1>6, EnqueueHolds
<1>8. (updates \o r) \o t = updates \o (r \o t)
  BY <1>1, ConcatAssociative
<1>9. Grown(updates, (updates \o r) \o t, K, G, K \cup {u.pd}, G, {} \cup Range(seq))
  BY <1>3, <1>4, GrowTwice
<1>10. {} \cup Range(seq) = Range(seq)
  OBVIOUS
<1> QED
  BY <1>7, <1>8, <1>9, <1>10

\* And those who stay when one leaves.
LEMMA TellDeparture ==
  ASSUME updates \in Seq(Updates), pipe \in 0..PipeSize, NEW seq \in Seq(Clients), NEW K, NEW G,
         NEW u \in Updates, u.op = "remove", u.pd \in K, u.pd \notin G,
         \A c \in Range(seq) : c \in K /\ c \notin G, Tell(seq, <<>>, <<u>>)
  PROVE  Grown(updates, updates', K, G, K, G \cup {u.pd}, Range(seq)) /\ pipe' \in 0..PipeSize
<1> DEFINE t == Adds(seq)
<1> DEFINE r == <<u>>
<1>1. t \in Seq(Updates) /\ r \in Seq(Updates)
  BY AddsShape
<1>2. Enqueue(<<>> \o t \o r)
  BY DEF Tell, Adds
<1>3. Grown(updates, updates \o t, K, G, K, G, Range(seq)) /\ updates \o t \in Seq(Updates)
  BY GrowAdds, <1>1, ConcatProperties
<1>4. Grown(updates \o t, (updates \o t) \o r, K, G, K, G \cup {u.pd}, {})
  BY <1>3, GrowRemove
<1> HIDE DEF t, r
<1>5. t \o r \in Seq(Updates) /\ <<>> \o t = t
  BY <1>1, ConcatProperties, ConcatEmptySeq
<1>6. Enqueue(t \o r)
  BY <1>2, <1>5
<1>7. updates' = updates \o (t \o r) /\ pipe' \in 0..PipeSize
  BY <1>5, <1>6, EnqueueHolds
<1>8. (updates \o t) \o r = updates \o (t \o r)
  BY <1>1, ConcatAssociative, SMTT(30)
<1>9. Grown(updates, (updates \o t) \o r, K, G, K, G \cup {u.pd}, Range(seq) \cup {})
  BY <1>3, <1>4, GrowTwice
<1>10. Range(seq) \cup {} = Range(seq)
  OBVIOUS
<1> QED
  BY <1>7, <1>8, <1>9, <1>10

------------------------------------------------------------------------------
(* The invariant in two halves: what the poll thread keeps and what is said of *)
(* the clients and the connections.                                        *)

PollTypes ==
  /\ polls \in Seq(Entries) /\ updates \in Seq(Updates)
  /\ cursor \in Nat \ {0} /\ socksToHandle \in Nat
  /\ pipe \in 0..PipeSize
  /\ thread \in {"start", "read", "drain", "poll", "read again", "drain again", "scan", "send"}
  /\ main \in {"register", "notify", "sleep"}

ClientTypes ==
  /\ life \in [Clients -> {"unborn", "member", "left", "freed"}]
  /\ socket \in [Clients -> Sockets \cup {None}]
  /\ nickname \in [Clients -> Names \cup {None}]
  /\ outBuffer \in [Clients -> BOOLEAN] /\ inBuffer \in [Clients -> 0..MaxPieces]
  /\ clients \in [Names -> Clients \cup {None}]
  /\ owner \in [Sockets -> Clients \cup {None}]
  /\ wire \in [Clients -> {"away", "backlog", "open", "closed", "reset", "gone"}]
  /\ arrived \in [Clients -> 0..MaxPieces] /\ sent \in [Clients -> 0..MaxPieces]
  /\ writable \in [Clients -> BOOLEAN]

PollSide   == PollTypes /\ InvPolled /\ InvLoop /\ InvWatched
ClientSide == ClientTypes /\ InvLife /\ InvNames /\ SocketIsOwn

\* An update is one of a descriptor.
LEMMA UpdateDescriptors ==
  ASSUME NEW us \in Seq(Updates)
  PROVE  \A k \in DOMAIN us : us[k].pd \in Descriptors
<1>1. \A k \in DOMAIN us : us[k] \in Updates
  BY LenProperties, ElementOfSeq
<1> QED
  BY <1>1 DEF Updates

\* The halves make the whole.
LEMMA Halves == ServerInv <=> PollSide /\ ClientSide
<1>1. updates \in Seq(Updates) => \A i \in DOMAIN updates : updates[i].pd \in Descriptors
  BY UpdateDescriptors
<1>2. InvTypes <=> PollTypes /\ ClientTypes
  BY <1>1 DEF InvTypes, TypeOK, PollTypes, ClientTypes
<1> QED
  BY <1>2 DEF ServerInv, PollSide, ClientSide

\* And after a step.
LEMMA HalvesNext == ServerInv' <=> PollSide' /\ ClientSide'
<1>1. updates' \in Seq(Updates) => \A i \in DOMAIN updates' : updates'[i].pd \in Descriptors
  BY UpdateDescriptors
<1>2. InvTypes' <=> PollTypes' /\ ClientTypes'
  BY <1>1 DEF InvTypes, TypeOK, PollTypes, ClientTypes
<1> QED
  BY <1>2 DEF ServerInv, PollSide, ClientSide

\* The poll does nothing to the clients.
LEMMA ClientFrame ==
  ASSUME ClientSide, UNCHANGED <<clientVars, netVars>>
  PROVE  ClientSide'
  BY DEF ClientSide, ClientTypes, InvLife, InvNames, SocketIsOwn, Member, clientVars, netVars

\* The peers do nothing to the poll.
LEMMA PollFrame ==
  ASSUME PollSide, UNCHANGED <<pollVars, life, outBuffer, main>>
  PROVE  PollSide'
<1>1. UNCHANGED <<polls, updates, pipe, thread, cursor, socksToHandle>>
  BY DEF pollVars
<1>2. PollTypes'
  BY <1>1 DEF PollSide, PollTypes
<1>3. InvPolled'
  <2>1. Polled' = Polled /\ Leaving' = Leaving
    BY <1>1 DEF Polled, Leaving, Member
  <2> QED
    BY <1>1, <2>1 DEF PollSide, InvPolled
<1>4. InvLoop'
  BY <1>1 DEF PollSide, InvLoop, Leaving
<1>5. InvWatched'
  BY <1>1, KeepsWatching DEF PollSide, InvWatched, Member
<1> QED
  BY <1>2, <1>3, <1>4, <1>5 DEF PollSide

------------------------------------------------------------------------------
(* What the handlers do to the clients. *)

\* The members are those in the dictionary.
LEMMA MembersKnown ==
  ASSUME ClientTypes, InvNames
  PROVE  /\ Members(clients) \in Seq(Clients)
         /\ \A c : c \in Range(Members(clients)) <=> c \in Clients /\ Member(c)
<1>1. clients \in [Names -> Clients \cup {None}]
  BY DEF ClientTypes
<1>2. /\ Members(clients) \in Seq(Clients)
      /\ \A c : c \in Range(Members(clients)) <=> c \in Clients /\ \E n \in Names : clients[n] = c
  BY <1>1, MembersListed
<1> QED
  BY <1>2 DEF InvNames

\* And after a step.
LEMMA MembersKnownNext ==
  ASSUME ClientTypes', InvNames'
  PROVE  /\ Members(clients') \in Seq(Clients)
         /\ \A c : c \in Range(Members(clients')) <=> c \in Clients /\ Member(c)'
<1>1. clients' \in [Names -> Clients \cup {None}]
  BY DEF ClientTypes
<1>2. /\ Members(clients') \in Seq(Clients)
      /\ \A c : c \in Range(Members(clients')) <=> c \in Clients /\ \E n \in Names : clients'[n] = c
  BY <1>1, MembersListed
<1> QED
  BY <1>2 DEF InvNames

\* Nobody has the number None.
LEMMA NoneIsNobody ==
  /\ None \notin Clients /\ None \notin Sockets
  /\ PipePd \notin Clients /\ ListenPd \notin Clients /\ PipePd # ListenPd
  BY ChatServerAssumption

\* Being told something.
LEMMA ToldBuffers ==
  ASSUME NEW seq \in Seq(Clients), NEW before, NEW after, ClientTypes, Tell(seq, before, after)
  PROVE  /\ outBuffer' \in [Clients -> BOOLEAN]
         /\ \A c \in Clients : outBuffer'[c] <=> outBuffer[c] \/ c \in Range(seq)
  BY DEF Tell, ClientTypes

\* A client is disconnected.
LEMMA DisconnectClients ==
  ASSUME ClientSide, NEW c \in Clients, Member(c), Disconnect(c), UNCHANGED inBuffer
  PROVE  ClientSide'
<1>1. /\ life' = [life EXCEPT ![c] = "left"]
      /\ clients' = [clients EXCEPT ![nickname[c]] = None]
      /\ UNCHANGED <<socket, nickname, inBuffer>>
  BY DEF Disconnect, Forget
<1>2. ClientTypes /\ InvLife /\ InvNames /\ SocketIsOwn
  BY DEF ClientSide
<1>3. nickname[c] \in Names
  BY <1>2 DEF InvNames
<1>4. clients' \in [Names -> Clients \cup {None}]
  BY <1>1, <1>2 DEF ClientTypes
<1>5. Members(clients') \in Seq(Clients)
  BY <1>4, MembersListed
<1>6. outBuffer' \in [Clients -> BOOLEAN]
  BY <1>2, <1>5, ToldBuffers DEF Disconnect
<1>7. CASE socket[c] = None
  <2>1. UNCHANGED netVars
    BY <1>7 DEF Disconnect, Close
  <2>2. ClientTypes'
    BY <1>1, <1>2, <1>4, <1>6, <2>1 DEF ClientTypes, netVars
  <2>3. InvLife'
    BY <1>1, <1>2, <2>1 DEF InvLife, ClientTypes, netVars, Member
  <2>4. InvNames'
    BY <1>1, <1>2, <1>3, NoneIsNobody DEF InvNames, ClientTypes, Member
  <2>5. SocketIsOwn'
    BY <1>1, <1>2, <1>7, <2>1, NoneIsNobody DEF SocketIsOwn, ClientTypes, netVars, Member
  <2> QED
    BY <2>2, <2>3, <2>4, <2>5 DEF ClientSide
<1>8. CASE socket[c] # None
  <2>1. /\ owner' = [owner EXCEPT ![socket[c]] = None]
        /\ wire' = [wire EXCEPT ![c] = "gone"]
        /\ arrived' = [arrived EXCEPT ![c] = 0]
        /\ writable' = [writable EXCEPT ![c] = TRUE]
        /\ UNCHANGED sent
    BY <1>8 DEF Disconnect, Close
  <2>2. socket[c] \in Sockets
    BY <1>2, <1>8 DEF ClientTypes
  <2>3. MaxPieces \in Nat
    BY ChatServerAssumption
  <2>4. ClientTypes'
    BY <1>1, <1>2, <1>4, <1>6, <2>1, <2>2, <2>3 DEF ClientTypes
  <2>5. InvLife'
    <3>1. \A d \in Clients : life'[d] = "unborn" <=> wire'[d] \in {"away", "backlog"}
      BY <1>1, <1>2, <2>1 DEF InvLife, ClientTypes, Member
    <3>2. \A d \in Clients : life'[d] = "unborn" => socket'[d] = None
      BY <1>1, <1>2 DEF InvLife, ClientTypes
    <3>3. \A d \in Clients : arrived'[d] + inBuffer'[d] <= sent'[d]
      <4>1. \A d \in Clients : arrived[d] \in Nat /\ inBuffer[d] \in Nat /\ sent[d] \in Nat
        BY <1>2, <2>3 DEF ClientTypes
      <4>2. \A d \in Clients : arrived'[d] = IF d = c THEN 0 ELSE arrived[d]
        BY <1>2, <2>1 DEF ClientTypes
      <4>3. \A d \in Clients : arrived[d] + inBuffer[d] <= sent[d]
        BY <1>2 DEF InvLife
      <4>4. inBuffer' = inBuffer /\ sent' = sent
        BY <1>1, <2>1
      <4> QED
        BY ONLY <4>1, <4>2, <4>3, <4>4
    <3> QED
      BY <3>1, <3>2, <3>3 DEF InvLife
  <2>6. InvNames'
    BY <1>1, <1>2, <1>3, NoneIsNobody DEF InvNames, ClientTypes, Member
  <2>7. SocketIsOwn'
    BY <1>1, <1>2, <2>1, <2>2, NoneIsNobody DEF SocketIsOwn, ClientTypes, Member
  <2> QED
    BY <2>4, <2>5, <2>6, <2>7 DEF ClientSide
<1> QED
  BY <1>7, <1>8

\* A client is accepted.
LEMMA AcceptClients ==
  ASSUME ClientSide, NEW c \in Clients, Accepts(c) \/ AcceptFails(c),
         life' = [life EXCEPT ![c] = "member"],
         nickname' = [nickname EXCEPT ![c] = LeastFree(clients)],
         clients' = [clients EXCEPT ![LeastFree(clients)] = c],
         outBuffer' \in [Clients -> BOOLEAN],
         UNCHANGED <<inBuffer, arrived, sent, writable>>
  PROVE  ClientSide' /\ life[c] = "unborn"
<1> DEFINE n == LeastFree(clients)
<1>1. ClientTypes /\ InvLife /\ InvNames /\ SocketIsOwn
  BY DEF ClientSide
<1>2. life[c] = "unborn" /\ socket[c] = None
  BY <1>1 DEF InvLife, Accepts, AcceptFails
<1>3. n \in Names /\ clients[n] = None
  <2>1. clients \in [Names -> Clients \cup {None}]
    BY <1>1 DEF ClientTypes
  <2>2. \A m, k \in Names : clients[m] \in Clients /\ clients[m] = clients[k] => m = k
    BY <1>1 DEF InvNames
  <2>3. \A m \in Names : clients[m] # c
    BY <1>1, <1>2 DEF InvNames, Member
  <2> QED
    BY <2>1, <2>2, <2>3, NameIsFree
<1> HIDE DEF n
<1>4. /\ nickname' = [nickname EXCEPT ![c] = n]
      /\ clients' = [clients EXCEPT ![n] = c]
  BY DEF n
<1>5. /\ owner' \in [Sockets -> Clients \cup {None}] /\ socket' \in [Clients -> Sockets \cup {None}]
      /\ \E w \in {"open", "gone"} : wire' = [wire EXCEPT ![c] = w]
      /\ \A d \in Clients : d # c => socket'[d] = socket[d]
  BY <1>1 DEF Accepts, AcceptFails, ClientTypes
<1>6. ClientTypes'
  <2>1. wire' \in [Clients -> {"away", "backlog", "open", "closed", "reset", "gone"}]
    BY <1>1, <1>5 DEF ClientTypes
  <2>2. clients' \in [Names -> Clients \cup {None}] /\ nickname' \in [Clients -> Names \cup {None}]
    BY <1>1, <1>3, <1>4 DEF ClientTypes
  <2>3. life' \in [Clients -> {"unborn", "member", "left", "freed"}]
    BY <1>1 DEF ClientTypes
  <2> QED
    BY <1>1, <1>5, <2>1, <2>2, <2>3 DEF ClientTypes
<1>7. InvLife'
  <2>1. \A d \in Clients : life'[d] = "unborn" <=> wire'[d] \in {"away", "backlog"}
    BY <1>1, <1>5 DEF InvLife, ClientTypes
  <2>2. \A d \in Clients : life'[d] = "unborn" => socket'[d] = None
    BY <1>1, <1>5 DEF InvLife, ClientTypes
  <2>3. \A d \in Clients : arrived'[d] + inBuffer'[d] <= sent'[d]
    BY <1>1 DEF InvLife
  <2> QED
    BY <2>1, <2>2, <2>3 DEF InvLife
<1>8. InvNames'
  BY <1>1, <1>2, <1>3, <1>4, NoneIsNobody DEF InvNames, ClientTypes, Member
<1>9. SocketIsOwn'
  <2>1. CASE Accepts(c)
    <3>1. PICK s \in Sockets : /\ owner[s] = None
                               /\ owner' = [owner EXCEPT ![s] = c]
                               /\ socket' = [socket EXCEPT ![c] = s]
      BY <2>1 DEF Accepts
    <3> QED
      BY <1>1, <1>2, <3>1, NoneIsNobody DEF SocketIsOwn, ClientTypes, Member
  <2>2. CASE AcceptFails(c)
    BY <1>1, <1>2, <2>2, NoneIsNobody DEF SocketIsOwn, ClientTypes, Member, AcceptFails
  <2> QED
    BY <2>1, <2>2
<1> QED
  BY <1>2, <1>6, <1>7, <1>8, <1>9 DEF ClientSide

\* What a line does to the names: nothing, or the client gets another one.
LEMMA LineNames ==
  ASSUME ClientTypes, InvNames, NEW c \in Clients, Member(c), HandleLine(c), UNCHANGED life
  PROVE  /\ clients' \in [Names -> Clients \cup {None}] /\ nickname' \in [Clients -> Names \cup {None}]
         /\ InvNames'
         /\ \E seq \in Seq(Clients) : /\ \A d \in Range(seq) : Member(d)
                                      /\ Tell(seq, <<>>, <<>>)
<1>1. CASE UNCHANGED <<nickname, clients>>
  <2>1. /\ clients' \in [Names -> Clients \cup {None}] /\ nickname' \in [Clients -> Names \cup {None}]
        /\ InvNames'
    BY <1>1 DEF ClientTypes, InvNames, Member
  <2>2. <<c>> \in Seq(Clients) /\ \A d \in Range(<<c>>) : Member(d)
    BY DEF Range
  <2>7. CASE Ignore
    <3>1. <<>> \in Seq(Clients) /\ \A d \in Range(<<>>) : Member(d)
      BY DEF Range
    <3> QED
      BY <2>1, <2>7, <3>1 DEF Ignore
  <2>3. CASE Say(c)
    BY <2>1, <2>3, MembersKnown DEF Say
  <2>4. CASE Reply(c)
    BY <2>1, <2>2, <2>4 DEF Reply
  <2>5. CASE Msg(c)
    <3>1. PICK to \in Range(clients) \ {None} : Tell(<<c, to>>, <<>>, <<>>)
      BY <2>5 DEF Msg
    <3>2. to \in Clients /\ Member(to)
      BY DEF Range, ClientTypes, InvNames
    <3>3. <<c, to>> \in Seq(Clients) /\ \A d \in Range(<<c, to>>) : Member(d)
      BY <3>2 DEF Range
    <3> QED
      BY <2>1, <3>1, <3>3
  <2>6. CASE Nick(c)
    <3>1. PICK n \in Names : IF clients[n] \notin {None, c} THEN Reply(c)
                             ELSE Tell(Members(clients'), <<>>, <<>>)
      BY <2>6 DEF Nick
    <3>2. CASE Reply(c)
      BY <2>1, <2>2, <3>2 DEF Reply
    <3>3. CASE Tell(Members(clients'), <<>>, <<>>)
      <4>1. Tell(Members(clients), <<>>, <<>>)
        BY <1>1, <3>3
      <4> QED
        BY <2>1, <4>1, MembersKnown
    <3> QED
      BY <3>1, <3>2, <3>3
  <2> QED
    BY <2>3, <2>4, <2>5, <2>6, <2>7 DEF HandleLine
<1>2. CASE ~ UNCHANGED <<nickname, clients>>
  <2>1. PICK n \in Names : /\ clients[n] \in {None, c}
                           /\ nickname' = [nickname EXCEPT ![c] = n]
                           /\ clients' = [Forget(clients, nickname[c]) EXCEPT ![n] = c]
                           /\ Tell(Members(clients'), <<>>, <<>>)
    BY <1>2 DEF HandleLine, Ignore, Say, Reply, Msg, Nick
  <2>2. nickname[c] \in Names
    BY DEF InvNames
  <2>3. \A m \in Names : clients'[m] = IF m = n THEN c ELSE IF m = nickname[c] THEN None ELSE clients[m]
    BY <2>1 DEF Forget, ClientTypes
  <2>4. clients' \in [Names -> Clients \cup {None}]
    BY <2>1 DEF Forget, ClientTypes
  <2>5. /\ nickname' \in [Clients -> Names \cup {None}]
        /\ \A d \in Clients : nickname'[d] = IF d = c THEN n ELSE nickname[d]
    BY <2>1 DEF ClientTypes
  <2>6. \A d \in Clients : Member(d)' <=> Member(d)
    BY DEF Member
  <2>7. InvNames'
    BY <2>1, <2>2, <2>3, <2>5, <2>6, NoneIsNobody DEF InvNames
  <2>8. /\ Members(clients') \in Seq(Clients)
        /\ \A d : d \in Range(Members(clients')) <=> d \in Clients /\ \E m \in Names : clients'[m] = d
    BY <2>4, MembersListed
  <2>9. \A d \in Range(Members(clients')) : Member(d)
    BY <2>6, <2>7, <2>8 DEF InvNames
  <2> QED
    BY <2>1, <2>4, <2>5, <2>7, <2>8, <2>9
<1> QED
  BY <1>1, <1>2

\* A line is read and handled.
LEMMA LineClients ==
  ASSUME ClientSide, NEW c \in Clients, Member(c), HandleLine(c), arrived[c] > 0,
         NEW n \in 1..arrived[c], arrived' = [arrived EXCEPT ![c] = @ - n],
         NEW b \in 0..(inBuffer[c] + n), inBuffer' = [inBuffer EXCEPT ![c] = b],
         UNCHANGED <<life, socket, owner, wire, sent, writable>>
  PROVE  /\ ClientSide'
         /\ \E seq \in Seq(Clients) : /\ \A d \in Range(seq) : Member(d)
                                      /\ Tell(seq, <<>>, <<>>)
<1>1. ClientTypes /\ InvLife /\ InvNames /\ SocketIsOwn
  BY DEF ClientSide
<1>2. /\ clients' \in [Names -> Clients \cup {None}] /\ nickname' \in [Clients -> Names \cup {None}]
      /\ InvNames'
      /\ \E seq \in Seq(Clients) : /\ \A d \in Range(seq) : Member(d)
                                   /\ Tell(seq, <<>>, <<>>)
  BY <1>1, LineNames
<1>3. outBuffer' \in [Clients -> BOOLEAN]
  BY <1>1, <1>2, ToldBuffers
<1>4. MaxPieces \in Nat
  BY ChatServerAssumption
<1>5. \A d \in Clients : arrived[d] \in 0..MaxPieces /\ inBuffer[d] \in 0..MaxPieces /\ sent[d] \in 0..MaxPieces
  BY <1>1 DEF ClientTypes
<1>6. \A d \in Clients : /\ arrived'[d] = IF d = c THEN arrived[d] - n ELSE arrived[d]
                         /\ inBuffer'[d] = IF d = c THEN b ELSE inBuffer[d]
                         /\ sent'[d] = sent[d]
  BY <1>1 DEF ClientTypes
<1>7. \A d \in Clients : arrived[d] + inBuffer[d] <= sent[d]
  BY <1>1 DEF InvLife
<1>8. n \in 1..arrived[c] /\ b \in 0..(inBuffer[c] + n)
  OBVIOUS
<1>9. \A d \in Clients : arrived'[d] + inBuffer'[d] <= sent'[d]
  <2> SUFFICES ASSUME NEW d \in Clients PROVE arrived'[d] + inBuffer'[d] <= sent'[d]
    OBVIOUS
  <2>1. arrived[d] \in Nat /\ inBuffer[d] \in Nat /\ sent[d] \in Nat /\ n \in Nat
    BY <1>4, <1>5, <1>8
  <2>2. arrived[d] + inBuffer[d] <= sent[d]
    BY <1>7
  <2>3. CASE d = c
    <3>1. /\ arrived'[d] = arrived[d] - n /\ sent'[d] = sent[d]
          /\ inBuffer'[d] \in 0..(inBuffer[d] + n)
      BY <1>6, <1>8, <2>3
    <3> QED
      BY ONLY <2>1, <2>2, <3>1
  <2>4. CASE d # c
    BY <1>6, <2>2, <2>4
  <2> QED
    BY <2>3, <2>4
<1>10. arrived' \in [Clients -> 0..MaxPieces] /\ inBuffer' \in [Clients -> 0..MaxPieces]
  <2>1. arrived[c] - n \in 0..MaxPieces /\ b \in 0..MaxPieces
    <3>1. arrived[c] \in 0..MaxPieces /\ inBuffer[c] \in 0..MaxPieces /\ sent[c] \in 0..MaxPieces
      BY <1>5
    <3>2. arrived[c] + inBuffer[c] <= sent[c]
      BY <1>7
    <3> QED
      BY ONLY <1>4, <1>8, <3>1, <3>2
  <2> QED
    BY <1>1, <2>1 DEF ClientTypes
<1>11. ClientTypes'
  BY <1>1, <1>2, <1>3, <1>10 DEF ClientTypes
<1>12. InvLife'
  BY <1>1, <1>9 DEF InvLife
<1>13. SocketIsOwn'
  BY <1>1 DEF SocketIsOwn, Member
<1> QED
  BY <1>2, <1>11, <1>12, <1>13 DEF ClientSide

\* What was written to a client has left its buffer.
LEMMA WroteClients ==
  ASSUME ClientSide, NEW c \in Clients, outBuffer' = [outBuffer EXCEPT ![c] = FALSE],
         writable' \in [Clients -> BOOLEAN],
         UNCHANGED <<life, socket, nickname, inBuffer, clients, owner, wire, arrived, sent>>
  PROVE  ClientSide'
<1>1. ClientTypes /\ InvLife /\ InvNames /\ SocketIsOwn
  BY DEF ClientSide
<1>2. ClientTypes'
  BY <1>1 DEF ClientTypes
<1>3. InvLife'
  BY <1>1 DEF InvLife
<1>4. InvNames' /\ SocketIsOwn'
  BY <1>1 DEF InvNames, SocketIsOwn, Member
<1> QED
  BY <1>2, <1>3, <1>4 DEF ClientSide

\* A client that left is freed.
LEMMA FreedClients ==
  ASSUME ClientSide, NEW c \in Clients, life[c] = "left",
         life' = [d \in Clients |-> IF d = c THEN "freed" ELSE life[d]],
         UNCHANGED <<socket, nickname, outBuffer, inBuffer, clients, netVars>>
  PROVE  ClientSide'
<1>1. ClientTypes /\ InvLife /\ InvNames /\ SocketIsOwn
  BY DEF ClientSide
<1>2. UNCHANGED <<owner, wire, arrived, sent, writable>>
  BY DEF netVars
<1>3. \A d \in Clients : (Member(d)' <=> Member(d)) /\ (life'[d] = "unborn" <=> life[d] = "unborn")
  BY DEF Member
<1>4. ClientTypes'
  BY <1>1, <1>2 DEF ClientTypes
<1>5. InvLife'
  BY <1>1, <1>2, <1>3 DEF InvLife
<1>6. InvNames'
  BY <1>1, <1>3 DEF InvNames
<1>7. SocketIsOwn'
  BY <1>1, <1>2, <1>3 DEF SocketIsOwn
<1> QED
  BY <1>4, <1>5, <1>6, <1>7 DEF ClientSide

\* What a peer does.
LEMMA PeerClients ==
  ASSUME ClientSide, NEW c \in Clients, Peer(c)
  PROVE  ClientSide' /\ UNCHANGED <<pollVars, life, outBuffer, main>>
<1>1. ClientTypes /\ InvLife /\ InvNames /\ SocketIsOwn
  BY DEF ClientSide
<1>2. UNCHANGED <<pollVars, life, socket, nickname, outBuffer, inBuffer, clients, main, owner>>
  BY DEF Peer, Connect, SendsPiece, HangsUp, Receives, peerFrame, clientVars
<1>3. MaxPieces \in Nat
  BY ChatServerAssumption
<1>4. InvNames' /\ SocketIsOwn'
  BY <1>1, <1>2 DEF InvNames, SocketIsOwn, Member
<1>5. CASE Connect(c)
  <2>1. /\ wire[c] = "away" /\ wire' = [wire EXCEPT ![c] = "backlog"]
        /\ UNCHANGED <<arrived, sent, writable>>
    BY <1>5 DEF Connect
  <2>2. ClientTypes'
    BY <1>1, <1>2, <2>1 DEF ClientTypes
  <2>3. InvLife'
    BY <1>1, <1>2, <2>1 DEF InvLife, ClientTypes
  <2> QED
    BY <1>2, <1>4, <2>2, <2>3 DEF ClientSide
<1>6. CASE SendsPiece(c)
  <2>1. /\ sent[c] < MaxPieces
        /\ arrived' = [arrived EXCEPT ![c] = @ + 1] /\ sent' = [sent EXCEPT ![c] = @ + 1]
        /\ UNCHANGED <<wire, writable>>
    BY <1>6 DEF SendsPiece
  <2>2. \A d \in Clients : arrived[d] \in 0..MaxPieces /\ inBuffer[d] \in 0..MaxPieces /\ sent[d] \in 0..MaxPieces
    BY <1>1 DEF ClientTypes
  <2>3. \A d \in Clients : arrived[d] + inBuffer[d] <= sent[d]
    BY <1>1 DEF InvLife
  <2>4. arrived[c] + 1 \in 0..MaxPieces /\ sent[c] + 1 \in 0..MaxPieces
    <3>1. arrived[c] \in 0..MaxPieces /\ inBuffer[c] \in 0..MaxPieces /\ sent[c] \in 0..MaxPieces
      BY <2>2
    <3>2. arrived[c] + inBuffer[c] <= sent[c] /\ sent[c] < MaxPieces
      BY <2>1, <2>3
    <3> QED
      BY ONLY <1>3, <3>1, <3>2
  <2>5. ClientTypes'
    BY <1>1, <1>2, <2>1, <2>4 DEF ClientTypes
  <2>6. \A d \in Clients : arrived'[d] + inBuffer'[d] <= sent'[d]
    <3> SUFFICES ASSUME NEW d \in Clients PROVE arrived'[d] + inBuffer'[d] <= sent'[d]
      OBVIOUS
    <3>1. arrived[d] \in Nat /\ inBuffer[d] \in Nat /\ sent[d] \in Nat
      BY <1>3, <2>2
    <3>2. /\ arrived'[d] = IF d = c THEN arrived[d] + 1 ELSE arrived[d]
          /\ sent'[d] = IF d = c THEN sent[d] + 1 ELSE sent[d]
          /\ inBuffer'[d] = inBuffer[d]
      BY <1>1, <1>2, <2>1 DEF ClientTypes
    <3>3. arrived[d] + inBuffer[d] <= sent[d]
      BY <2>3
    <3> QED
      BY ONLY <3>1, <3>2, <3>3
  <2>7. InvLife'
    BY <1>1, <1>2, <2>1, <2>6 DEF InvLife
  <2> QED
    BY <1>2, <1>4, <2>5, <2>7 DEF ClientSide
<1>7. CASE HangsUp(c)
  <2>1. /\ wire[c] = "open"
        /\ \E w \in {"closed", "reset"} : wire' = [wire EXCEPT ![c] = w]
        /\ arrived' = arrived \/ arrived' = [arrived EXCEPT ![c] = 0]
        /\ UNCHANGED <<sent, writable>>
    BY <1>7 DEF HangsUp
  <2>2. ClientTypes'
    BY <1>1, <1>2, <1>3, <2>1 DEF ClientTypes
  <2>3. \A d \in Clients : arrived[d] \in Nat /\ inBuffer[d] \in Nat /\ sent[d] \in Nat
    BY <1>1, <1>3 DEF ClientTypes
  <2>4. \A d \in Clients : arrived'[d] = arrived[d] \/ arrived'[d] = 0
    BY <1>1, <2>1 DEF ClientTypes
  <2>5. \A d \in Clients : arrived[d] + inBuffer[d] <= sent[d]
    BY <1>1 DEF InvLife
  <2>6. \A d \in Clients : arrived'[d] + inBuffer[d] <= sent[d]
    BY ONLY <2>3, <2>4, <2>5
  <2>7. InvLife'
    BY <1>1, <1>2, <2>1, <2>6 DEF InvLife, ClientTypes
  <2> QED
    BY <1>2, <1>4, <2>2, <2>7 DEF ClientSide
<1>8. CASE Receives(c)
  <2>1. writable' = [writable EXCEPT ![c] = TRUE] /\ UNCHANGED <<wire, arrived, sent>>
    BY <1>8 DEF Receives
  <2>2. ClientTypes'
    BY <1>1, <1>2, <2>1 DEF ClientTypes
  <2>3. InvLife'
    BY <1>1, <1>2, <2>1 DEF InvLife
  <2> QED
    BY <1>2, <1>4, <2>2, <2>3 DEF ClientSide
<1> QED
  BY <1>5, <1>6, <1>7, <1>8 DEF Peer

------------------------------------------------------------------------------
(* What the handlers do to the poll. *)

\* The loop calls the block of pd, which is not about to be removed, and does not come back to it.
LEMMA LoopMoves ==
  ASSUME PollSide, NEW pd, Calls(pd)
  PROVE  /\ thread = "scan" /\ polls' = polls
         /\ Next_i \in DOMAIN polls /\ polls[Next_i].pd = pd
         /\ cursor' = Next_i + 1 /\ cursor' \in Nat \ {0} /\ socksToHandle' \in Nat
         /\ pd \in Polled /\ pd \notin Leaving /\ (pd \in Clients => Member(pd))
         /\ "out" \in Reported => pd \in Clients /\ outBuffer[pd]
         /\ \A i \in DOMAIN polls : i >= cursor' => i >= cursor /\ polls[i].pd # pd
<1>1. PollTypes /\ InvPolled /\ InvLoop
  BY DEF PollSide
<1>2. polls \in Seq(Entries) /\ cursor \in Nat \ {0} /\ socksToHandle \in Nat
  BY <1>1 DEF PollTypes
<1>3. /\ Next_i \in DOMAIN polls /\ polls[Next_i].pd = pd
      /\ cursor' \in Nat \ {0} /\ socksToHandle' \in Nat
  BY <1>2, CallsEntry
<1>4. thread = "scan" /\ polls' = polls /\ cursor' = Next_i + 1
  BY DEF Calls
<1>5. DOMAIN polls = 1..Len(polls) /\ Len(polls) \in Nat
  BY <1>2, LenProperties
<1>6. Next_i >= cursor
  BY <1>2, NextIsAhead DEF Calls
<1>7. \A i, m \in DOMAIN polls : polls[i].pd = polls[m].pd => i = m
  BY <1>1 DEF InvPolled, Arranged
<1>8. pd \in Polled
  BY <1>1, <1>3 DEF InvPolled, Arranged
<1>9. pd \notin Leaving
  BY <1>1, <1>3, <1>4, <1>6 DEF InvLoop
<1>10. pd \in Clients => Member(pd)
  BY <1>8, <1>9, NoneIsNobody DEF Polled
<1>11. "out" \in Reported => pd \in Clients /\ outBuffer[pd]
  BY <1>1, <1>3, <1>4, <1>6 DEF InvLoop, Reported
<1>12. ASSUME NEW i \in DOMAIN polls, i >= cursor' PROVE i >= cursor /\ polls[i].pd # pd
  <2>1. i \in Nat /\ Next_i \in Nat /\ i >= Next_i + 1
    BY <1>3, <1>4, <1>5, <1>12
  <2>2. i >= cursor /\ i # Next_i
    BY ONLY <1>2, <1>6, <2>1
  <2> QED
    BY <1>3, <1>7, <2>2
<1> QED
  BY <1>3, <1>4, <1>8, <1>9, <1>10, <1>11, <1>12

\* A handler tells T something; pd is the only one who may have left, and whoever is new is in T.
LEMMA HandlerKeeps ==
  ASSUME PollSide, NEW pd, Calls(pd), NEW T,
         Grown(updates, updates', Polled, Leaving, Polled', Leaving', T),
         pipe' \in 0..PipeSize, Leaving' \subseteq Leaving \cup {pd},
         \A c \in Clients : outBuffer'[c] <=> outBuffer[c] \/ c \in T,
         \A c \in Clients : Member(c)' => Member(c) \/ c \in T,
         UNCHANGED <<thread, main>>
  PROVE  PollSide'
<1>1. PollTypes /\ InvPolled /\ InvLoop /\ InvWatched
  BY DEF PollSide
<1>2. /\ thread = "scan" /\ polls' = polls
      /\ cursor' \in Nat \ {0} /\ socksToHandle' \in Nat
      /\ \A i \in DOMAIN polls : i >= cursor' => i >= cursor /\ polls[i].pd # pd
  BY LoopMoves
<1>3. updates' \in Seq(Updates) /\ Arranged(polls, updates', Polled', Leaving')
  BY <1>1 DEF InvPolled, Grown
<1>4. PollTypes'
  BY <1>1, <1>2, <1>3 DEF PollTypes
<1>5. InvPolled'
  BY <1>2, <1>3 DEF InvPolled
<1>6. InvLoop'
  <2>1. \A i \in DOMAIN polls : i >= cursor' => polls[i].pd \notin Leaving'
    BY <1>1, <1>2 DEF InvLoop
  <2>2. \A i \in DOMAIN polls : i >= cursor' /\ "out" \in polls[i].revents =>
          polls[i].pd \in Clients /\ outBuffer'[polls[i].pd]
    BY <1>1, <1>2 DEF InvLoop
  <2>3. thread' = "scan"
    BY <1>2
  <2> QED
    BY <1>2, <2>1, <2>2, <2>3 DEF InvLoop
<1>7. InvWatched'
  <2> SUFFICES ASSUME NEW c \in Clients, Member(c)' PROVE outBuffer'[c] <=> WillWatch(c)'
    BY DEF InvWatched
  <2>1. WillWatch(c)' <=> c \in T \/ WillWatch(c)
    <3>1. Watches(polls, updates', c) <=> c \in T \/ Watches(polls, updates, c)
      BY DEF Grown
    <3> QED
      BY <1>2, <3>1, WatchNow, WatchNext
  <2>2. outBuffer'[c] <=> outBuffer[c] \/ c \in T
    OBVIOUS
  <2>3. CASE c \in T
    BY <2>1, <2>2, <2>3
  <2>4. CASE c \notin T
    <3>1. Member(c)
      BY <2>4
    <3>2. outBuffer[c] <=> WillWatch(c)
      BY <1>1, <3>1 DEF InvWatched
    <3> QED
      BY <2>1, <2>2, <2>4, <3>2
  <2> QED
    BY <2>3, <2>4
<1> QED
  BY <1>4, <1>5, <1>6, <1>7 DEF PollSide

\* Somebody hangs up or is hung up on.
LEMMA DisconnectStep ==
  ASSUME ServerInv, NEW c \in Clients, Calls(c), Disconnect(c), UNCHANGED <<thread, inBuffer, main>>
  PROVE  ServerInv'
<1>1. PollSide /\ ClientSide
  BY Halves
<1>2. Member(c) /\ c \in Polled /\ c \notin Leaving /\ thread = "scan"
  BY <1>1, LoopMoves
<1>3. ClientSide'
  BY <1>1, <1>2, DisconnectClients
<1>4. life' = [life EXCEPT ![c] = "left"] /\ ClientTypes
  BY <1>1 DEF Disconnect, ClientSide
<1>5. \A d \in Clients : Member(d)' <=> Member(d) /\ d # c
  BY <1>4 DEF Member, ClientTypes
<1>6. Leaving' = Leaving \cup {c}
  BY <1>4 DEF Leaving, ClientTypes
<1>7. Polled' = Polled
  <2>1. {d \in Clients : Member(d)}' \cup Leaving' = {d \in Clients : Member(d)} \cup Leaving
    BY <1>2, <1>5, <1>6
  <2> QED
    BY <2>1 DEF Polled
<1> DEFINE seq == Members(clients')
<1> DEFINE u == RemoveEntry(c)
<1>8. seq \in Seq(Clients) /\ \A d : d \in Range(seq) <=> d \in Clients /\ Member(d)'
  BY <1>3, MembersKnownNext DEF ClientSide
<1>9. u \in Updates /\ u.op = "remove" /\ u.pd = c
  BY DEF RemoveEntry, Update, Updates, Descriptors
<1>10. Tell(seq, <<>>, <<u>>)
  BY DEF Disconnect
<1> HIDE DEF seq, u
<1>11. \A d \in Range(seq) : d \in Polled /\ d \notin Leaving
  BY <1>5, <1>8 DEF Polled, Leaving, Member
<1>12. updates \in Seq(Updates) /\ pipe \in 0..PipeSize
  BY <1>1 DEF PollSide, PollTypes
<1>13. Grown(updates, updates', Polled, Leaving, Polled, Leaving \cup {u.pd}, Range(seq)) /\ pipe' \in 0..PipeSize
  BY <1>2, <1>8, <1>9, <1>10, <1>11, <1>12, TellDeparture
<1>14. Grown(updates, updates', Polled, Leaving, Polled', Leaving', Range(seq))
  BY <1>6, <1>7, <1>9, <1>13
<1>15. \A d \in Clients : outBuffer'[d] <=> outBuffer[d] \/ d \in Range(seq)
  BY <1>4, <1>8, <1>10, ToldBuffers
<1>16. PollSide'
  <2>1. \A d \in Clients : Member(d)' => Member(d) \/ d \in Range(seq)
    BY <1>5
  <2>2. Leaving' \subseteq Leaving \cup {c}
    BY <1>6
  <2> QED
    BY <1>1, <1>13, <1>14, <1>15, <2>1, <2>2, HandlerKeeps
<1> QED
  BY <1>3, <1>16, HalvesNext

\* Somebody comes.
LEMMA AcceptStep ==
  ASSUME ServerInv, PollAccepts
  PROVE  ServerInv'
<1>1. PollSide /\ ClientSide /\ ClientTypes
  BY Halves DEF ClientSide
<1>2. Calls(ListenPd) /\ UNCHANGED <<thread, inBuffer, main, arrived, sent, writable>>
  BY DEF PollAccepts
<1>3. PICK c \in Clients :
        /\ Accepts(c) \/ AcceptFails(c)
        /\ life' = [life EXCEPT ![c] = "member"]
        /\ nickname' = [nickname EXCEPT ![c] = LeastFree(clients)]
        /\ clients' = [clients EXCEPT ![LeastFree(clients)] = c]
        /\ Tell(Members(clients'), <<Register(c, socket'[c], {"in"})>>, <<>>)
  BY DEF PollAccepts
<1> DEFINE seq == Members(clients')
<1> DEFINE u == Register(c, socket'[c], {"in"})
<1>4. outBuffer' \in [Clients -> BOOLEAN]
  BY <1>1, <1>3 DEF Tell
<1>5. ClientSide' /\ life[c] = "unborn"
  BY <1>1, <1>2, <1>3, <1>4, AcceptClients
<1>6. \A d \in Clients : Member(d)' <=> Member(d) \/ d = c
  BY <1>1, <1>3 DEF Member, ClientTypes
<1>7. Leaving' = Leaving
  BY <1>1, <1>3, <1>5 DEF Leaving, ClientTypes
<1>8. Polled' = Polled \cup {c} /\ c \notin Polled /\ c \notin Leaving
  <2>1. {d \in Clients : Member(d)}' = {d \in Clients : Member(d)} \cup {c}
    BY <1>6
  <2>2. c \notin Polled /\ c \notin Leaving
    BY <1>5, NoneIsNobody DEF Polled, Leaving, Member
  <2>3. UNCHANGED <<main, thread>>
    BY <1>2
  <2> QED
    BY <1>7, <2>1, <2>2, <2>3 DEF Polled
<1>9. seq \in Seq(Clients) /\ \A d : d \in Range(seq) <=> d \in Clients /\ Member(d)'
  BY <1>5, MembersKnownNext DEF ClientSide
<1>10. u \in Updates /\ u.op = "register" /\ u.pd = c /\ u.fd \in Handles /\ "out" \notin u.events
  <2>1. socket'[c] \in Sockets \cup {None}
    BY <1>5 DEF ClientSide, ClientTypes
  <2> QED
    BY <2>1 DEF Register, Update, Updates, Descriptors, Handles
<1>11. Tell(seq, <<u>>, <<>>)
  BY <1>3
<1> HIDE DEF seq, u
<1>12. \A d \in Range(seq) : d \in Polled \cup {u.pd} /\ d \notin Leaving
  BY <1>6, <1>8, <1>9, <1>10 DEF Polled, Leaving, Member
<1>13. updates \in Seq(Updates) /\ pipe \in 0..PipeSize
  BY <1>1 DEF PollSide, PollTypes
<1>14. Grown(updates, updates', Polled, Leaving, Polled \cup {u.pd}, Leaving, Range(seq)) /\ pipe' \in 0..PipeSize
  BY <1>8, <1>9, <1>10, <1>11, <1>12, <1>13, TellArrival
<1>15. Grown(updates, updates', Polled, Leaving, Polled', Leaving', Range(seq))
  BY <1>7, <1>8, <1>10, <1>14
<1>16. \A d \in Clients : outBuffer'[d] <=> outBuffer[d] \/ d \in Range(seq)
  BY <1>1, <1>9, <1>11, ToldBuffers
<1>17. PollSide'
  <2>1. \A d \in Clients : Member(d)' => Member(d) \/ d \in Range(seq)
    BY <1>9
  <2>2. Leaving' \subseteq Leaving \cup {ListenPd} /\ UNCHANGED <<thread, main>>
    BY <1>2, <1>7
  <2> QED
    BY <1>1, <1>2, <1>14, <1>15, <1>16, <2>1, <2>2, HandlerKeeps
<1> QED
  BY <1>5, <1>17, HalvesNext

\* Nothing happens to who is polled and who leaves.
LEMMA SamePolled ==
  ASSUME UNCHANGED <<life, main>>, thread' = "start" <=> thread = "start"
  PROVE  Polled' = Polled /\ Leaving' = Leaving /\ \A c : Member(c)' <=> Member(c)
  BY DEF Polled, Leaving, Member

\* A client is read from, and a line of its handled.
LEMMA LineStep ==
  ASSUME ServerInv, NEW c \in Clients, Calls(c), HandleLine(c), arrived[c] > 0,
         NEW n \in 1..arrived[c], arrived' = [arrived EXCEPT ![c] = @ - n],
         NEW b \in 0..(inBuffer[c] + n), inBuffer' = [inBuffer EXCEPT ![c] = b],
         UNCHANGED <<life, socket, owner, wire, sent, writable, thread, main>>
  PROVE  ServerInv'
<1>1. PollSide /\ ClientSide
  BY Halves
<1>2. Member(c)
  BY <1>1, LoopMoves
<1>3. ClientSide' /\ \E seq \in Seq(Clients) : /\ \A d \in Range(seq) : Member(d)
                                               /\ Tell(seq, <<>>, <<>>)
  BY <1>1, <1>2, LineClients
<1>4. PICK seq \in Seq(Clients) : /\ \A d \in Range(seq) : Member(d)
                                  /\ Tell(seq, <<>>, <<>>)
  BY <1>3
<1>5. Polled' = Polled /\ Leaving' = Leaving /\ \A d : Member(d)' <=> Member(d)
  BY SamePolled
<1>6. \A d \in Range(seq) : d \in Clients
  BY LenProperties, ElementOfSeq DEF Range
<1>7. \A d \in Range(seq) : d \in Polled /\ d \notin Leaving
  BY <1>4, <1>6 DEF Polled, Leaving, Member
<1>8. updates \in Seq(Updates) /\ pipe \in 0..PipeSize /\ ClientTypes
  BY <1>1 DEF PollSide, PollTypes, ClientSide
<1>9. Grown(updates, updates', Polled, Leaving, Polled, Leaving, Range(seq)) /\ pipe' \in 0..PipeSize
  BY <1>4, <1>7, <1>8, TellMembers
<1>10. \A d \in Clients : outBuffer'[d] <=> outBuffer[d] \/ d \in Range(seq)
  BY <1>4, <1>8, ToldBuffers
<1>11. Grown(updates, updates', Polled, Leaving, Polled', Leaving', Range(seq))
  BY <1>5, <1>9
<1>12. PollSide'
  <2>1. Leaving' \subseteq Leaving \cup {c} /\ \A d \in Clients : Member(d)' => Member(d) \/ d \in Range(seq)
    BY <1>5
  <2> QED
    BY <1>1, <1>9, <1>10, <1>11, <2>1, HandlerKeeps
<1> QED
  BY <1>3, <1>12, HalvesNext

\* A client with something to read.
LEMMA PollInStep ==
  ASSUME ServerInv, PollIn
  PROVE  ServerInv'
<1>1. PICK c \in Clients : Calls(c) /\ DoRead(c) /\ UNCHANGED <<thread, main>>
  BY DEF PollIn
<1>2. CASE arrived[c] > 0
  <2>0. PICK n \in 1..arrived[c] :
          \E k \in 0..n : /\ arrived' = [arrived EXCEPT ![c] = @ - n]
                          /\ IF inBuffer[c] + k = 0 THEN Ignore /\ UNCHANGED inBuffer
                             ELSE HandleLine(c) /\ inBuffer' = [inBuffer EXCEPT ![c] = @ + k - 1]
    BY <1>1, <1>2 DEF DoRead
  <2>1. PICK k \in 0..n :
          /\ arrived' = [arrived EXCEPT ![c] = @ - n]
          /\ IF inBuffer[c] + k = 0 THEN Ignore /\ UNCHANGED inBuffer
             ELSE HandleLine(c) /\ inBuffer' = [inBuffer EXCEPT ![c] = @ + k - 1]
    BY <2>0
  <2>2. UNCHANGED <<life, socket, owner, wire, sent, writable>>
    BY <1>1, <1>2 DEF DoRead
  <2>3. /\ inBuffer \in [Clients -> 0..MaxPieces] /\ MaxPieces \in Nat
        /\ arrived \in [Clients -> 0..MaxPieces]
    BY Halves, ChatServerAssumption DEF ClientSide, ClientTypes
  <2>4. inBuffer[c] \in Nat /\ n \in Nat /\ k \in 0..n
    <3>1. inBuffer[c] \in 0..MaxPieces /\ arrived[c] \in 0..MaxPieces /\ n \in 1..arrived[c] /\ k \in 0..n
      BY <2>3
    <3> QED
      BY ONLY <2>3, <3>1
  <2>5. CASE inBuffer[c] + k = 0
    <3>1. inBuffer' = [inBuffer EXCEPT ![c] = inBuffer[c]] /\ HandleLine(c)
      BY <2>1, <2>3, <2>5 DEF HandleLine
    <3>2. inBuffer[c] \in 0..(inBuffer[c] + n)
      BY ONLY <2>4
    <3> QED
      BY <1>1, <1>2, <2>1, <2>2, <3>1, <3>2, LineStep
  <2>6. CASE inBuffer[c] + k # 0
    <3>1. inBuffer' = [inBuffer EXCEPT ![c] = inBuffer[c] + k - 1] /\ HandleLine(c)
      BY <2>1, <2>6
    <3>2. inBuffer[c] + k - 1 \in 0..(inBuffer[c] + n)
      BY ONLY <2>4, <2>6
    <3> QED
      BY <1>1, <1>2, <2>1, <2>2, <3>1, <3>2, LineStep
  <2> QED
    BY <2>5, <2>6
<1>3. CASE ~ (arrived[c] > 0)
  <2>1. Disconnect(c) /\ UNCHANGED inBuffer
    BY <1>1, <1>3 DEF DoRead
  <2> QED
    BY <1>1, <2>1, DisconnectStep
<1> QED
  BY <1>2, <1>3

\* A connection that was reset.
LEMMA PollHupStep ==
  ASSUME ServerInv, PollHup
  PROVE  ServerInv'
<1>1. PICK c \in Clients : Calls(c) /\ Disconnect(c) /\ UNCHANGED <<thread, inBuffer, main>>
  BY DEF PollHup
<1> QED
  BY <1>1, DisconnectStep

\* The block of the pipe.
LEMMA PipeBlockStep ==
  ASSUME ServerInv, PollCallsPipeBlock
  PROVE  ServerInv'
<1>1. PollSide /\ ClientSide
  BY Halves
<1>2. Calls(PipePd) /\ UNCHANGED <<updates, pipe, thread, clientVars, main, netVars>>
  BY DEF PollCallsPipeBlock
<1>3. UNCHANGED <<life, outBuffer>>
  BY <1>2 DEF clientVars
<1>4. Polled' = Polled /\ Leaving' = Leaving /\ \A d : Member(d)' <=> Member(d)
  BY <1>2, <1>3, SamePolled
<1>5. updates \in Seq(Updates) /\ pipe \in 0..PipeSize
  BY <1>1 DEF PollSide, PollTypes
<1>6. Grown(updates, updates', Polled, Leaving, Polled', Leaving', {})
  BY <1>2, <1>4, <1>5 DEF Grown
<1>7. PollSide'
  <2>1. /\ pipe' \in 0..PipeSize /\ Leaving' \subseteq Leaving \cup {PipePd}
        /\ \A d \in Clients : Member(d)' => Member(d) \/ d \in {}
        /\ \A d \in Clients : outBuffer'[d] <=> outBuffer[d] \/ d \in {}
    BY <1>2, <1>3, <1>4, <1>5
  <2> QED
    BY <1>1, <1>2, <1>6, <2>1, HandlerKeeps
<1>8. ClientSide'
  BY <1>1, <1>2, ClientFrame
<1> QED
  BY <1>7, <1>8, HalvesNext

\* Everything was written to a client the loop does not come back to.
LEMMA WroteKeeps ==
  ASSUME PollSide, ClientTypes, NEW c \in Clients, Member(c), Wrote(c),
         UNCHANGED <<polls, life, main>>, thread # "start", thread' = "scan",
         cursor' \in Nat \ {0}, socksToHandle' \in Nat,
         \A i \in DOMAIN polls : i >= cursor' => polls[i].pd \notin Leaving /\ polls[i].pd # c,
         \A i \in DOMAIN polls : i >= cursor' /\ "out" \in polls[i].revents =>
           polls[i].pd \in Clients /\ outBuffer[polls[i].pd]
  PROVE  PollSide'
<1> DEFINE u == RemoveOut(c)
<1> DEFINE t == <<u>>
<1>1. PollTypes /\ InvPolled /\ InvLoop /\ InvWatched
  BY DEF PollSide
<1>2. /\ u \in Updates /\ u.op = "remove event" /\ u.pd = c /\ u.events = {"out"}
      /\ Enqueue(<<u>>) /\ outBuffer' = [outBuffer EXCEPT ![c] = FALSE]
  BY DEF RemoveOut, Update, Updates, Descriptors, Wrote
<1>3. Polled' = Polled /\ Leaving' = Leaving /\ \A d : Member(d)' <=> Member(d)
  BY SamePolled
<1>4. c \in Polled /\ c \notin Leaving
  BY DEF Polled, Leaving, Member
<1> HIDE DEF u
<1>5. t \in Seq(Updates) /\ DOMAIN t = {1} /\ t[1] = u
  <2>1. u \in Updates
    BY <1>2
  <2> QED
    BY <2>1
<1>6. updates \in Seq(Updates) /\ pipe \in 0..PipeSize
  BY <1>1 DEF PollTypes
<1>7. /\ updates' \in Seq(Updates) /\ updates' = updates \o t /\ pipe' \in 0..PipeSize
      /\ \A pd : WillWatch(pd)' <=> IF Touches(u, pd) THEN u.op = "add" ELSE WillWatch(pd)
  BY <1>2, <1>6, EnqueueKeeps
<1>8. Joined(updates, t, updates \o t)
  BY <1>5, <1>6, ConcatJoins
<1> HIDE DEF t
<1>9. PollTypes'
  BY <1>1, <1>7 DEF PollTypes
<1>10. InvPolled'
  <2>1. \A k \in DOMAIN t : /\ t[k].op \in {"add", "remove event"} /\ t[k].events = {"out"}
                            /\ t[k].pd \in Clients /\ t[k].pd \in Polled /\ t[k].pd \notin Leaving
    BY <1>2, <1>4, <1>5
  <2>2. Arranged(polls, updates, Polled, Leaving)
    BY <1>1 DEF InvPolled
  <2>3. Arranged(polls, updates \o t, Polled, Leaving)
    BY <1>8, <2>1, <2>2, ChangesArranged
  <2> QED
    BY <1>3, <1>7, <2>3 DEF InvPolled
<1>11. InvLoop'
  <2>1. \A d \in Clients : d # c => outBuffer'[d] = outBuffer[d]
    BY <1>2 DEF ClientTypes
  <2> QED
    BY <1>3, <2>1 DEF InvLoop
<1>12. InvWatched'
  <2>1. \A pd : Touches(u, pd) <=> pd = c
    BY <1>2 DEF Touches
  <2>2. \A d \in Clients : outBuffer'[d] <=> outBuffer[d] /\ d # c
    BY <1>2 DEF ClientTypes
  <2>3. \A d \in Clients : WillWatch(d)' <=> d # c /\ WillWatch(d)
    BY <1>2, <1>7, <2>1
  <2> QED
    BY <1>1, <1>3, <2>2, <2>3 DEF InvWatched
<1> QED
  BY <1>9, <1>10, <1>11, <1>12 DEF PollSide

\* A client that can be written to.
LEMMA PollOutStep ==
  ASSUME ServerInv, PollOut
  PROVE  ServerInv'
<1>1. PICK c \in Clients :
        /\ Calls(c) /\ Reported = {"out"}
        /\ UNCHANGED <<inBuffer, main>>
        /\ IF ~outBuffer[c] \/ wire[c] = "reset" THEN Disconnect(c) /\ UNCHANGED thread
           ELSE /\ UNCHANGED <<life, socket, nickname, clients, owner, wire, arrived, sent>>
                /\ \E full \in BOOLEAN :
                     /\ writable' = [writable EXCEPT ![c] = ~full]
                     /\ \/ /\ Wrote(c)
                           /\ UNCHANGED thread
                        \/ /\ full /\ thread' = "send"
                           /\ UNCHANGED <<outBuffer, updates, pipe>>
  BY DEF PollOut
<1>2. CASE ~outBuffer[c] \/ wire[c] = "reset"
  <2>1. Disconnect(c) /\ UNCHANGED <<thread, inBuffer, main>>
    BY <1>1, <1>2
  <2> QED
    BY <1>1, <2>1, DisconnectStep
<1>3. CASE ~ (~outBuffer[c] \/ wire[c] = "reset")
  <2>1. /\ UNCHANGED <<life, socket, nickname, clients, owner, wire, arrived, sent, inBuffer, main>>
        /\ \E full \in BOOLEAN : writable' = [writable EXCEPT ![c] = ~full]
        /\ \/ Wrote(c) /\ UNCHANGED thread
           \/ thread' = "send" /\ UNCHANGED <<outBuffer, updates, pipe>>
    BY <1>1, <1>3
  <2>2. PollSide /\ ClientSide /\ ClientTypes /\ PollTypes /\ InvPolled /\ InvLoop /\ InvWatched
    BY Halves DEF ClientSide, PollSide
  <2>3. writable' \in [Clients -> BOOLEAN]
    BY <2>1, <2>2 DEF ClientTypes
  <2>4. /\ thread = "scan" /\ polls' = polls
        /\ Next_i \in DOMAIN polls /\ polls[Next_i].pd = c
        /\ cursor' = Next_i + 1 /\ cursor' \in Nat \ {0} /\ socksToHandle' \in Nat
        /\ c \notin Leaving /\ Member(c)
        /\ \A i \in DOMAIN polls : i >= cursor' => i >= cursor /\ polls[i].pd # c
    BY <1>1, <2>2, LoopMoves
  <2>5. \A i \in DOMAIN polls : i >= cursor' => polls[i].pd \notin Leaving
    BY <2>2, <2>4 DEF InvLoop
  <2>6. \A i \in DOMAIN polls : i >= cursor' /\ "out" \in polls[i].revents =>
          polls[i].pd \in Clients /\ outBuffer[polls[i].pd]
    BY <2>2, <2>4 DEF InvLoop
  <2>7. CASE Wrote(c) /\ UNCHANGED thread
    <3>1. PollSide'
      <4>1. \A i \in DOMAIN polls : i >= cursor' => polls[i].pd \notin Leaving /\ polls[i].pd # c
        BY <2>4, <2>5
      <4>2. /\ Wrote(c) /\ UNCHANGED <<polls, life, main>>
            /\ thread # "start" /\ thread' = "scan"
        BY <2>1, <2>4, <2>7
      <4> QED
        BY <2>2, <2>4, <2>6, <4>1, <4>2, WroteKeeps
    <3>2. ClientSide'
      BY <2>1, <2>2, <2>3, <2>7, WroteClients DEF Wrote
    <3> QED
      BY <3>1, <3>2, HalvesNext
  <2>8. CASE thread' = "send" /\ UNCHANGED <<outBuffer, updates, pipe>>
    <3>1. Polled' = Polled /\ Leaving' = Leaving /\ \A d : Member(d)' <=> Member(d)
      BY <2>1, <2>4, <2>8, SamePolled
    <3>2. PollTypes'
      BY <2>1, <2>2, <2>4, <2>8 DEF PollTypes
    <3>3. InvPolled'
      BY <2>2, <2>4, <2>8, <3>1 DEF InvPolled
    <3>4. InvLoop'
      <4>1. DOMAIN polls = 1..Len(polls) /\ Len(polls) \in Nat
        BY <2>2, LenProperties DEF PollTypes
      <4>2. cursor' - 1 = Next_i
        BY <2>4, <4>1
      <4>3. \A i \in DOMAIN polls : i >= Next_i => i >= cursor' \/ i = Next_i
        BY <2>4, <4>1
      <4>4. \A i \in DOMAIN polls : i >= Next_i => polls[i].pd \notin Leaving
        BY <2>4, <2>5, <4>3
      <4> QED
        BY <2>4, <2>6, <2>8, <3>1, <4>2, <4>4 DEF InvLoop
    <3>5. InvWatched'
      BY <2>2, <2>4, <2>8, <3>1, KeepsWatching DEF InvWatched
    <3>6. ClientSide'
      <4>1. ClientTypes'
        BY <2>1, <2>2, <2>3, <2>8 DEF ClientTypes
      <4> QED
        BY <2>1, <2>2, <3>1, <4>1 DEF ClientSide, InvLife, InvNames, SocketIsOwn
    <3> QED
      BY <3>2, <3>3, <3>4, <3>5, <3>6, HalvesNext DEF PollSide
  <2> QED
    BY <2>1, <2>7, <2>8
<1> QED
  BY <1>2, <1>3

\* The client that did not take everything at once has taken it, or is gone.
LEMMA SendReturnsStep ==
  ASSUME ServerInv, SendReturns
  PROVE  ServerInv'
<1> DEFINE c == polls[cursor - 1].pd
<1>1. /\ thread = "send" /\ thread' = "scan"
      /\ UNCHANGED <<polls, cursor, socksToHandle, main>>
      /\ \/ UNCHANGED <<updates, pipe, clientVars, netVars>>
         \/ /\ Wrote(c)
            /\ UNCHANGED <<life, socket, nickname, inBuffer, clients, netVars>>
  BY DEF SendReturns
<1>2. PollSide /\ ClientSide /\ ClientTypes /\ PollTypes /\ InvPolled /\ InvLoop /\ InvWatched
  BY Halves DEF ClientSide, PollSide
<1>3. /\ DOMAIN polls = 1..Len(polls) /\ Len(polls) \in Nat
      /\ cursor \in Nat \ {0} /\ socksToHandle \in Nat
  BY <1>2, LenProperties DEF PollTypes
<1>4. /\ cursor - 1 \in DOMAIN polls /\ c \in Clients
      /\ \A i \in DOMAIN polls : i >= cursor - 1 => polls[i].pd \notin Leaving
  BY <1>1, <1>2 DEF InvLoop
<1>5. Member(c)
  <2>1. c \in Polled
    BY <1>2, <1>4 DEF InvPolled, Arranged
  <2>2. c \notin Leaving
    BY <1>3, <1>4
  <2> QED
    BY <1>4, <2>1, <2>2, NoneIsNobody DEF Polled
<1>6. \A i \in DOMAIN polls : i >= cursor => polls[i].pd \notin Leaving /\ polls[i].pd # c
  <2>1. \A i, m \in DOMAIN polls : polls[i].pd = polls[m].pd => i = m
    BY <1>2 DEF InvPolled, Arranged
  <2>2. \A i \in DOMAIN polls : i >= cursor => i >= cursor - 1 /\ i # cursor - 1
    BY <1>3
  <2> QED
    BY <1>4, <2>1, <2>2
<1>7. \A i \in DOMAIN polls : i >= cursor /\ "out" \in polls[i].revents =>
        polls[i].pd \in Clients /\ outBuffer[polls[i].pd]
  BY <1>1, <1>2 DEF InvLoop
<1> HIDE DEF c
<1>8. CASE UNCHANGED <<updates, pipe, clientVars, netVars>>
  <2>1. UNCHANGED <<life, outBuffer>>
    BY <1>8 DEF clientVars
  <2>2. Polled' = Polled /\ Leaving' = Leaving /\ \A d : Member(d)' <=> Member(d)
    BY <1>1, <2>1, SamePolled
  <2>3. PollTypes'
    BY <1>1, <1>2, <1>8 DEF PollTypes
  <2>4. InvPolled'
    BY <1>1, <1>2, <1>8, <2>2 DEF InvPolled
  <2>5. InvLoop'
    BY <1>1, <1>6, <1>7, <2>1, <2>2 DEF InvLoop
  <2>6. InvWatched'
    BY <1>1, <1>2, <1>8, <2>1, <2>2, KeepsWatching DEF InvWatched
  <2>7. ClientSide'
    BY <1>2, <1>8, ClientFrame
  <2> QED
    BY <2>3, <2>4, <2>5, <2>6, <2>7, HalvesNext DEF PollSide
<1>9. CASE Wrote(c) /\ UNCHANGED <<life, socket, nickname, inBuffer, clients, netVars>>
  <2>1. UNCHANGED <<owner, wire, arrived, sent, writable>> /\ outBuffer' = [outBuffer EXCEPT ![c] = FALSE]
    BY <1>9 DEF netVars, Wrote
  <2>2. PollSide'
    <3>1. /\ thread # "start" /\ cursor' \in Nat \ {0} /\ socksToHandle' \in Nat
          /\ UNCHANGED <<polls, life, main>> /\ cursor' = cursor
      BY <1>1, <1>3, <1>9
    <3> QED
      BY <1>1, <1>2, <1>4, <1>5, <1>6, <1>7, <1>9, <3>1, WroteKeeps
  <2>3. ClientSide'
    BY <1>2, <1>4, <1>9, <2>1, WroteClients DEF ClientTypes
  <2> QED
    BY <2>2, <2>3, HalvesNext
<1> QED
  BY <1>1, <1>8, <1>9

------------------------------------------------------------------------------
(* The main thread and what the poll thread does between the handlers. *)

\* The listener is registered.
LEMMA MainRegistersStep ==
  ASSUME ServerInv, MainRegisters
  PROVE  ServerInv'
<1> DEFINE u == Register(ListenPd, ListenFd, {"in"})
<1>1. PollSide /\ ClientSide /\ PollTypes /\ InvPolled /\ InvLoop /\ InvWatched
  BY Halves DEF PollSide
<1>2. /\ main = "register" /\ main' = "notify"
      /\ updates' = Append(updates, u)
      /\ UNCHANGED <<polls, pipe, thread, cursor, socksToHandle, clientVars, netVars>>
  BY DEF MainRegisters
<1>3. UNCHANGED <<life, outBuffer>>
  BY <1>2 DEF clientVars
<1>4. u \in Updates /\ u.op = "register" /\ u.pd = ListenPd /\ u.fd \in Handles /\ "out" \notin u.events
  BY DEF Register, Update, Updates, Descriptors, Handles
<1> HIDE DEF u
<1>5. updates \in Seq(Updates)
  BY <1>1 DEF PollTypes
<1>6. updates' = updates \o <<u>>
  BY <1>2, <1>4, <1>5, AppendIsConcat
<1>7. ListenPd \notin Polled
  BY <1>2, NoneIsNobody DEF Polled, Leaving
<1>8. Polled' = Polled \cup {ListenPd} /\ Leaving' = Leaving /\ \A d : Member(d)' <=> Member(d)
  BY <1>2, <1>3 DEF Polled, Leaving, Member
<1>9. Grown(updates, updates', Polled, Leaving, Polled', Leaving', {})
  <2>1. Grown(updates, updates \o <<u>>, Polled, Leaving, Polled \cup {u.pd}, Leaving, {})
    BY <1>4, <1>5, <1>7, GrowRegister
  <2> QED
    BY <1>4, <1>6, <1>8, <2>1
<1>10. PollTypes'
  BY <1>1, <1>2, <1>9 DEF PollTypes, Grown
<1>11. InvPolled'
  BY <1>1, <1>2, <1>9 DEF InvPolled, Grown
<1>12. InvLoop'
  <2>1. ASSUME \A k \in DOMAIN updates : updates[k].pd = ListenPd
        PROVE  \A k \in DOMAIN updates' : updates'[k].pd = ListenPd
    <3>1. Added(updates, u, updates', Len(updates) + 1)
      BY <1>4, <1>5, <1>6, ConcatAdds
    <3> QED
      BY <1>4, <2>1, <3>1 DEF Added
  <2> QED
    BY <1>1, <1>2, <1>3, <1>8, <2>1 DEF InvLoop
<1>13. InvWatched'
  <2>1. \A ps, pd : Watches(ps, updates', pd) <=> Watches(ps, updates, pd)
    BY <1>9 DEF Grown
  <2>2. \A pd : WillWatch(pd)' <=> WillWatch(pd)
    BY <1>2, <2>1, WatchNow, WatchNext
  <2> QED
    BY <1>1, <1>3, <1>8, <2>2 DEF InvWatched
<1>14. ClientSide'
  BY <1>1, <1>2, ClientFrame
<1> QED
  BY <1>10, <1>11, <1>12, <1>13, <1>14, HalvesNext DEF PollSide

\* And the poll thread is told.
LEMMA MainNotifiesStep ==
  ASSUME ServerInv, MainNotifies
  PROVE  ServerInv'
<1>1. PollSide /\ ClientSide /\ PollTypes /\ InvPolled /\ InvLoop /\ InvWatched
  BY Halves DEF PollSide
<1>2. /\ main = "notify" /\ main' = "sleep" /\ pipe' = Written(pipe, 1)
      /\ UNCHANGED <<polls, updates, thread, cursor, socksToHandle, clientVars, netVars>>
  BY DEF MainNotifies
<1>3. UNCHANGED <<life, outBuffer>>
  BY <1>2 DEF clientVars
<1>4. Polled' = Polled /\ Leaving' = Leaving /\ \A d : Member(d)' <=> Member(d)
  BY <1>2, <1>3 DEF Polled, Leaving, Member
<1>5. pipe' \in 0..PipeSize
  BY <1>1, <1>2, PipeHolds DEF PollTypes
<1>6. PollTypes'
  BY <1>1, <1>2, <1>5 DEF PollTypes
<1>7. InvPolled'
  BY <1>1, <1>2, <1>4 DEF InvPolled
<1>8. InvLoop'
  BY <1>1, <1>2, <1>3, <1>4 DEF InvLoop
<1>9. InvWatched'
  BY <1>1, <1>2, <1>3, <1>4, KeepsWatching DEF InvWatched
<1>10. ClientSide'
  BY <1>1, <1>2, ClientFrame
<1> QED
  BY <1>6, <1>7, <1>8, <1>9, <1>10, HalvesNext DEF PollSide

\* The poll thread registers its pipe.
LEMMA RegisterPipeStep ==
  ASSUME PollSide, RegisterPipe, UNCHANGED <<life, outBuffer, main>>
  PROVE  PollSide'
<1> DEFINE u == Register(PipePd, PipeFd, {"in"})
<1>1. PollTypes /\ InvPolled /\ InvLoop /\ InvWatched
  BY DEF PollSide
<1>2. /\ thread = "start" /\ thread' = "read" /\ Enqueue(<<u>>)
      /\ UNCHANGED <<polls, cursor, socksToHandle>>
  BY DEF RegisterPipe
<1>3. u \in Updates /\ u.op = "register" /\ u.pd = PipePd /\ u.fd \in Handles /\ "out" \notin u.events
  BY DEF Register, Update, Updates, Descriptors, Handles
<1> HIDE DEF u
<1>4. updates \in Seq(Updates) /\ pipe \in 0..PipeSize
  BY <1>1 DEF PollTypes
<1>5. updates' = updates \o <<u>> /\ pipe' \in 0..PipeSize
  BY <1>2, <1>3, <1>4, EnqueueKeeps
<1>6. PipePd \notin Polled
  BY <1>2, NoneIsNobody DEF Polled, Leaving
<1>7. Polled' = Polled \cup {PipePd} /\ Leaving' = Leaving /\ \A d : Member(d)' <=> Member(d)
  BY <1>2 DEF Polled, Leaving, Member
<1>8. Grown(updates, updates', Polled, Leaving, Polled', Leaving', {})
  <2>1. Grown(updates, updates \o <<u>>, Polled, Leaving, Polled \cup {u.pd}, Leaving, {})
    BY <1>3, <1>4, <1>6, GrowRegister
  <2> QED
    BY <1>3, <1>5, <1>7, <2>1
<1>9. PollTypes'
  BY <1>1, <1>2, <1>5, <1>8 DEF PollTypes, Grown
<1>10. InvPolled'
  BY <1>1, <1>2, <1>8 DEF InvPolled, Grown
<1>11. InvLoop'
  BY <1>1, <1>2 DEF InvLoop
<1>12. InvWatched'
  <2>1. \A ps, pd : Watches(ps, updates', pd) <=> Watches(ps, updates, pd)
    BY <1>8 DEF Grown
  <2>2. \A pd : WillWatch(pd)' <=> WillWatch(pd)
    BY <1>2, <2>1, WatchNow, WatchNext
  <2> QED
    BY <1>1, <1>7, <2>2 DEF InvWatched
<1> QED
  BY <1>9, <1>10, <1>11, <1>12 DEF PollSide

\* The pipe is read.
LEMMA ReadPipeStep ==
  ASSUME PollSide, ReadPipe, UNCHANGED <<life, outBuffer, main>>
  PROVE  PollSide'
<1>1. PollTypes /\ InvPolled /\ InvLoop /\ InvWatched
  BY DEF PollSide
<1>2. /\ \/ thread = "read" /\ thread' = "drain"
         \/ thread = "read again" /\ thread' = "drain again"
      /\ UNCHANGED <<polls, updates, cursor, socksToHandle>>
  BY DEF ReadPipe
<1>3. pipe' \in 0..PipeSize
  BY <1>1, ReadPipeKeeps DEF PollTypes
<1>4. Polled' = Polled /\ Leaving' = Leaving /\ \A d : Member(d)' <=> Member(d)
  BY <1>2, SamePolled
<1>5. PollTypes'
  BY <1>1, <1>2, <1>3 DEF PollTypes
<1>6. InvPolled'
  BY <1>1, <1>2, <1>4 DEF InvPolled
<1>7. InvLoop'
  BY <1>1, <1>2 DEF InvLoop
<1>8. InvWatched'
  BY <1>1, <1>2, <1>4, KeepsWatching DEF InvWatched
<1> QED
  BY <1>5, <1>6, <1>7, <1>8 DEF PollSide

\* What is known when an update is applied.
LEMMA UpdateAtHand ==
  ASSUME PollSide, updates # <<>>
  PROVE  /\ polls \in Seq(Entries) /\ updates \in Seq(Updates)
         /\ Unique(polls) /\ Arranged(polls, updates, Polled, Leaving)
         /\ Taken(updates, Head(updates), Tail(updates)) /\ Tail(updates) \in Seq(Updates)
         /\ Suits(polls, Head(updates), Leaving)
<1>1. polls \in Seq(Entries) /\ updates \in Seq(Updates) /\ Arranged(polls, updates, Polled, Leaving)
  BY DEF PollSide, PollTypes, InvPolled
<1>2. Taken(updates, Head(updates), Tail(updates)) /\ Tail(updates) \in Seq(Updates)
  BY <1>1, HeadIsTaken
<1>3. Suits(polls, Head(updates), Leaving)
  BY <1>1, <1>2, TakenOrder
<1>4. Unique(polls)
  BY <1>1 DEF Arranged, Unique
<1> QED
  BY <1>1, <1>2, <1>3, <1>4

\* An update is taken from the queue and applied: the entries are what the update makes of
\* them, and members are watched as before.
LEMMA AppliedKeeps ==
  ASSUME PollSide, thread \in {"drain", "drain again"}, updates # <<>>, updates' = Tail(updates),
         UNCHANGED <<pipe, thread, cursor, socksToHandle, outBuffer, main>>,
         polls' \in Seq(Entries), Arranged(polls', updates', Polled', Leaving'),
         \A c \in Clients : Member(c)' <=> Member(c),
         \A c \in Clients : Member(c) => (WillWatch(c)' <=> WillWatch(c)),
         thread = "drain again" =>
           \A i \in DOMAIN polls' : "out" \in polls'[i].revents =>
             \E m \in DOMAIN polls : polls[m] = polls'[i]
  PROVE  PollSide'
<1>1. PollTypes /\ InvPolled /\ InvLoop /\ InvWatched
  BY DEF PollSide
<1>2. /\ updates' \in Seq(Updates)
      /\ \A k \in DOMAIN updates' : k + 1 \in DOMAIN updates /\ updates'[k] = updates[k + 1]
  BY UpdateAtHand DEF Taken
<1>3. PollTypes'
  BY <1>1, <1>2 DEF PollTypes
<1>4. InvPolled'
  BY DEF InvPolled
<1>5. InvLoop'
  <2>1. cursor = 1
    BY <1>1 DEF InvLoop
  <2>2. ASSUME thread = "drain again" PROVE \A k \in DOMAIN updates' : updates'[k].pd = ListenPd
    <3>1. \A k \in DOMAIN updates : updates[k].pd = ListenPd
      BY <1>1, <2>2 DEF InvLoop
    <3> QED
      BY <1>2, <3>1
  <2>3. ASSUME thread = "drain again", NEW i \in DOMAIN polls', "out" \in polls'[i].revents
        PROVE  polls'[i].pd \in Clients /\ outBuffer[polls'[i].pd]
    <3>1. PICK m \in DOMAIN polls : polls[m] = polls'[i]
      BY <2>3
    <3>2. m >= cursor
      <4>1. m \in 1..Len(polls) /\ Len(polls) \in Nat
        BY <1>1, LenProperties DEF PollTypes
      <4> QED
        BY ONLY <2>1, <4>1
    <3>3. \A k \in DOMAIN polls : k >= cursor /\ "out" \in polls[k].revents =>
            polls[k].pd \in Clients /\ outBuffer[polls[k].pd]
      BY <1>1, <2>3 DEF InvLoop
    <3> QED
      BY <2>3, <3>1, <3>2, <3>3
  <2> QED
    BY <2>1, <2>2, <2>3 DEF InvLoop
<1>6. InvWatched'
  BY <1>1 DEF InvWatched
<1> QED
  BY <1>3, <1>4, <1>5, <1>6 DEF PollSide

\* Somebody is registered.
LEMMA ApplyRegisterStep ==
  ASSUME PollSide, ApplyRegister, UNCHANGED <<life, outBuffer, main>>
  PROVE  PollSide'
<1> DEFINE h == Head(updates)
<1>1. /\ thread \in {"drain", "drain again"} /\ updates # <<>> /\ h.op = "register"
      /\ updates' = Tail(updates) /\ UNCHANGED <<pipe, thread, cursor, socksToHandle>>
  BY DEF ApplyRegister, Applying
<1>2. /\ polls \in Seq(Entries) /\ updates \in Seq(Updates)
      /\ Arranged(polls, updates, Polled, Leaving)
      /\ Taken(updates, h, Tail(updates)) /\ Suits(polls, h, Leaving)
  BY <1>1, UpdateAtHand
<1>3. h.fd \in Handles /\ "out" \notin h.events
  BY <1>1, <1>2 DEF Suits
<1>4. /\ polls' \in Seq(Entries)
      /\ AddsEntry(polls, polls', h)
      /\ \A pd : WillWatch(pd)' <=> WillWatch(pd)
  <2>1. polls \in Seq(EntriesOf(Descriptors, Handles, Reports))
    BY <1>2, Shapes
  <2>2. h \in UpdatesOf(Ops, Descriptors, Handles)
    <3>1. h \in Updates
      BY <1>1, <1>2, HeadTailProperties
    <3> QED
      BY <1>3, <3>1 DEF Updates, UpdatesOf, Ops
  <2>3. /\ polls' \in Seq(EntriesOf(Descriptors, Handles, Reports))
        /\ AddsEntry(polls, polls', Head(updates))
        /\ \A pd : WillWatch(pd)' <=> WillWatch(pd)
    BY <1>2, <1>3, <2>1, <2>2, RegisterKeeps
  <2> QED
    BY <2>3, Shapes
<1>5. polls'[Len(polls) + 1].revents = {}
  <2> DEFINE e == [pd |-> h.pd, fd |-> h.fd, events |-> h.events, revents |-> {}]
  <2>1. polls' = Append(polls, e) /\ e.revents = {}
    BY DEF ApplyRegister
  <2> HIDE DEF e
  <2>2. polls'[Len(polls) + 1] = e
    BY <1>2, <2>1
  <2> QED
    BY <2>1, <2>2
<1> HIDE DEF h
<1>6. Arranged(polls', updates', Polled, Leaving)
  BY <1>1, <1>2, <1>4, RegisterApplied
<1>7. Polled' = Polled /\ Leaving' = Leaving /\ \A d : Member(d)' <=> Member(d)
  BY <1>1, SamePolled
<1>8. \A i \in DOMAIN polls' : "out" \in polls'[i].revents =>
        \E m \in DOMAIN polls : polls[m] = polls'[i]
  BY <1>4, <1>5 DEF AddsEntry
<1> QED
  BY <1>1, <1>4, <1>6, <1>7, <1>8, AppliedKeeps

\* POLLOUT is set or taken back.
LEMMA ApplyChangeStep ==
  ASSUME PollSide, ApplyAdd \/ ApplyRemoveEvent, UNCHANGED <<life, outBuffer, main>>
  PROVE  PollSide'
<1> DEFINE h == Head(updates)
<1>1. /\ thread \in {"drain", "drain again"} /\ updates # <<>> /\ h.op \in {"add", "remove event"}
      /\ updates' = Tail(updates) /\ UNCHANGED <<pipe, thread, cursor, socksToHandle>>
  BY DEF ApplyAdd, ApplyRemoveEvent, Applying
<1>2. /\ polls \in Seq(Entries) /\ updates \in Seq(Updates) /\ Unique(polls)
      /\ Arranged(polls, updates, Polled, Leaving)
      /\ Taken(updates, h, Tail(updates)) /\ Suits(polls, h, Leaving)
  BY <1>1, UpdateAtHand
<1>3. h.events = {"out"} /\ h.pd \in Clients
  BY <1>1, <1>2 DEF Suits
<1>4. /\ polls' \in Seq(Entries)
      /\ Alike(polls, polls') /\ \A pd : WillWatch(pd)' <=> WillWatch(pd)
  <2>1. CASE ApplyAdd
    BY <1>2, <1>3, <2>1, Shapes, AddKeeps
  <2>2. CASE ApplyRemoveEvent
    BY <1>2, <1>3, <2>2, Shapes, RemoveEventKeeps
  <2> QED
    BY <2>1, <2>2
<1>5. h.op # "register" /\ h.op # "remove"
  BY <1>1
<1>6. 1 \in DOMAIN updates /\ updates[1] = h
  BY <1>2 DEF Taken
<1> HIDE DEF h
<1>7. Arranged(polls', updates', Polled, Leaving)
  BY <1>1, <1>2, <1>4, <1>5, ChangeApplied
<1>8. thread # "drain again"
  BY <1>3, <1>6, NoneIsNobody DEF PollSide, InvLoop
<1>9. Polled' = Polled /\ Leaving' = Leaving /\ \A d : Member(d)' <=> Member(d)
  BY <1>1, SamePolled
<1> QED
  BY <1>1, <1>4, <1>7, <1>8, <1>9, AppliedKeeps

\* An entry is removed, and with it the last reference to the client.
LEMMA ApplyRemoveStep ==
  ASSUME ServerInv, ApplyRemoveReleases
  PROVE  ServerInv'
<1> DEFINE h == Head(updates)
<1>1. /\ thread \in {"drain", "drain again"} /\ updates # <<>> /\ h.op = "remove"
      /\ updates' = Tail(updates) /\ UNCHANGED <<pipe, thread, cursor, socksToHandle>>
      /\ life' = [c \in Clients |-> IF c = h.pd THEN "freed" ELSE life[c]]
      /\ UNCHANGED <<socket, nickname, outBuffer, inBuffer, clients, main, netVars>>
      /\ ApplyRemove
  BY DEF ApplyRemoveReleases, ApplyRemove, Applying
<1>2. PollSide /\ ClientSide
  BY Halves
<1>3. /\ polls \in Seq(Entries) /\ updates \in Seq(Updates) /\ Unique(polls)
      /\ Arranged(polls, updates, Polled, Leaving)
      /\ Taken(updates, h, Tail(updates)) /\ Suits(polls, h, Leaving)
  BY <1>1, <1>2, UpdateAtHand
<1>4. h.pd \in Leaving
  BY <1>1, <1>3 DEF Suits
<1>5. h.pd \in Clients /\ life[h.pd] = "left"
  BY <1>4 DEF Leaving
<1>6. /\ polls' \in Seq(Entries)
      /\ Dropped(polls, polls', h.pd)
      /\ \A pd : pd # h.pd => (WillWatch(pd)' <=> WillWatch(pd))
  BY <1>1, <1>3, Shapes, RemoveKeeps
<1>7. 1 \in DOMAIN updates /\ updates[1] = h
  BY <1>3 DEF Taken
<1> HIDE DEF h
<1>8. Arranged(polls', updates', Polled \ {h.pd}, Leaving \ {h.pd})
  BY <1>1, <1>3, <1>6, RemoveApplied
<1>9. thread # "drain again"
  BY <1>2, <1>5, <1>7, NoneIsNobody DEF PollSide, InvLoop
<1>10. \A d \in Clients : Member(d)' <=> Member(d)
  BY <1>1, <1>5 DEF Member
<1>11. Leaving' = Leaving \ {h.pd}
  BY <1>1 DEF Leaving
<1>12. Polled' = Polled \ {h.pd}
  <2>1. ~ Member(h.pd) /\ h.pd # PipePd /\ h.pd # ListenPd
    BY <1>5, NoneIsNobody DEF Member
  <2>2. {c \in Clients : Member(c)}' \cup Leaving' = ({c \in Clients : Member(c)} \cup Leaving) \ {h.pd}
    BY <1>10, <1>11, <2>1
  <2> QED
    BY <1>1, <2>1, <2>2 DEF Polled
<1>13. \A c \in Clients : Member(c) => (WillWatch(c)' <=> WillWatch(c))
  BY <1>5, <1>6 DEF Member
<1>14. polls' \in Seq(Entries) /\ Arranged(polls', updates', Polled', Leaving')
  BY <1>6, <1>8, <1>11, <1>12
<1>15. PollSide'
  BY <1>1, <1>2, <1>9, <1>10, <1>13, <1>14, AppliedKeeps
<1>16. ClientSide'
  BY <1>1, <1>2, <1>5, FreedClients
<1> QED
  BY <1>15, <1>16, HalvesNext

\* The queue is empty: nobody is left who is to be removed.
LEMMA NobodyLeaves ==
  ASSUME PollSide, updates = <<>>
  PROVE  Leaving = {} /\ DOMAIN updates = {}
<1>1. \A pd \in Leaving : Removing(updates, pd)
  BY DEF PollSide, InvPolled, Arranged
<1>2. DOMAIN updates = {}
  OBVIOUS
<1> QED
  BY <1>1, <1>2 DEF Removing

\* All updates are applied; those that are queued from now on are the listener's.
LEMMA ApplyDoneStep ==
  ASSUME PollSide, ApplyDone, UNCHANGED <<life, outBuffer, main>>
  PROVE  PollSide'
<1>1. PollTypes /\ InvPolled /\ InvLoop /\ InvWatched
  BY DEF PollSide
<1>2. /\ \/ thread = "drain" /\ thread' = "poll"
         \/ thread = "drain again" /\ thread' = "scan"
      /\ updates = <<>> /\ UNCHANGED <<polls, updates, pipe, cursor, socksToHandle>>
  BY DEF ApplyDone
<1>3. Leaving = {} /\ DOMAIN updates = {}
  BY <1>2, NobodyLeaves
<1>4. Polled' = Polled /\ Leaving' = Leaving /\ \A d : Member(d)' <=> Member(d)
  BY <1>2, SamePolled
<1>5. PollTypes'
  BY <1>1, <1>2 DEF PollTypes
<1>6. InvPolled'
  BY <1>1, <1>2, <1>4 DEF InvPolled
<1>7. InvLoop'
  BY <1>1, <1>2, <1>3, <1>4 DEF InvLoop
<1>8. InvWatched'
  BY <1>1, <1>2, <1>4, KeepsWatching DEF InvWatched
<1> QED
  BY <1>5, <1>6, <1>7, <1>8 DEF PollSide

\* The same registrations at the same places are as much in order.
LEMMA StaysArranged ==
  ASSUME NEW ps, NEW new, NEW us, NEW K, NEW G, Arranged(ps, us, K, G), Alike(ps, new)
  PROVE  Arranged(new, us, K, G)
<1>1. DOMAIN new = DOMAIN ps /\ \A i \in DOMAIN ps : new[i].pd = ps[i].pd
  BY DEF Alike
<1>2. \A pd \in K : Joining(new, us, pd)
  <2>1. \A pd \in K : Joining(ps, us, pd)
    BY DEF Arranged
  <2> QED
    BY <1>1, <2>1 DEF Joining
<1>3. \A k \in DOMAIN us : Suits(new, us[k], G)
  <2>1. \A k \in DOMAIN us : Suits(ps, us[k], G)
    BY DEF Arranged
  <2> QED
    BY <1>1, <2>1 DEF Suits
<1> QED
  BY <1>1, <1>2, <1>3 DEF Arranged

\* What the kernel reports of an entry is what it was asked, or POLLHUP.
LEMMA ReventsAsked ==
  ASSUME NEW p \in Entries
  PROVE  /\ Revents(p) \in SUBSET Reports
         /\ "out" \in Revents(p) => p.pd # PipePd /\ p.pd # ListenPd /\ "out" \in p.events
<1>1. p.events \in SUBSET {"in", "out"}
  BY DEF Entries
<1> QED
  BY <1>1 DEF Revents, Reports

\* poll() returns: what can be written to is a member with something in its buffer.
LEMMA PollReturnsStep ==
  ASSUME PollSide, UNCHANGED <<life, outBuffer, main>>,
         PollReturns([i \in DOMAIN polls |-> Revents(polls[i])])
  PROVE  PollSide'
<1> DEFINE reports == [i \in DOMAIN polls |-> Revents(polls[i])]
<1>1. PollTypes /\ InvPolled /\ InvLoop /\ InvWatched /\ polls \in Seq(Entries)
  BY DEF PollSide, PollTypes
<1>2. /\ thread = "poll" /\ thread' = "read again"
      /\ polls' = [i \in DOMAIN polls |-> [polls[i] EXCEPT !.revents = reports[i]]]
      /\ UNCHANGED <<updates, pipe, cursor>>
  BY DEF PollReturns
<1>3. \A i \in DOMAIN polls : polls[i] \in Entries /\ reports[i] = Revents(polls[i])
  BY <1>1, LenProperties, ElementOfSeq
<1>4. \A i \in DOMAIN polls : reports[i] \in SUBSET Reports
  BY <1>3, ReventsAsked
<1>5. PollReturns(reports)
  OBVIOUS
<1> HIDE DEF reports
<1>6. /\ polls' \in Seq(Entries) /\ Alike(polls, polls') /\ socksToHandle' \in Nat
      /\ \A pd : WillWatch(pd)' <=> WillWatch(pd)
  <2>1. polls \in Seq(EntriesOf(Descriptors, Handles, Reports))
    BY <1>1, Shapes
  <2>2. /\ polls' \in Seq(EntriesOf(Descriptors, Handles, Reports))
        /\ Alike(polls, polls') /\ socksToHandle' \in Nat
        /\ \A pd : WillWatch(pd)' <=> WillWatch(pd)
    BY <1>4, <1>5, <2>1, PollReturnsKeeps
  <2> QED
    BY <2>2, Shapes
<1>7. \A i \in DOMAIN polls : polls'[i].revents = reports[i] /\ polls'[i].pd = polls[i].pd
  <2>1. \A i \in DOMAIN polls : polls'[i] = [polls[i] EXCEPT !.revents = reports[i]]
    BY <1>2
  <2> QED
    BY <1>3, <2>1 DEF Entries
<1>8. Polled' = Polled /\ Leaving' = Leaving /\ \A d : Member(d)' <=> Member(d)
  BY <1>2, SamePolled
<1>9. PollTypes'
  BY <1>1, <1>2, <1>6 DEF PollTypes
<1>10. InvPolled'
  <2>1. Arranged(polls, updates, Polled, Leaving)
    BY <1>1 DEF InvPolled
  <2>2. Arranged(polls', updates, Polled, Leaving)
    BY <1>6, <2>1, StaysArranged
  <2> QED
    BY <1>2, <1>8, <2>2 DEF InvPolled
<1>11. ASSUME NEW i \in DOMAIN polls', "out" \in polls'[i].revents
       PROVE  polls'[i].pd \in Clients /\ outBuffer[polls'[i].pd]
  <2> DEFINE c == polls[i].pd
  <2>1. i \in DOMAIN polls /\ polls'[i].pd = c
    BY <1>6 DEF Alike
  <2>2. "out" \in Revents(polls[i])
    BY <1>3, <1>7, <1>11, <2>1
  <2>3. c # PipePd /\ c # ListenPd /\ "out" \in polls[i].events
    BY <1>3, <2>1, <2>2, ReventsAsked
  <2>4. c \in Clients
    BY <1>3, <2>1, <2>3 DEF Entries, Descriptors
  <2>5. \A k \in DOMAIN updates : updates[k].pd = ListenPd
    BY <1>1, <1>2 DEF InvLoop
  <2>6. Member(c)
    <3>1. c \notin Leaving
      <4>1. ASSUME c \in Leaving PROVE Removing(updates, c)
        BY <1>1, <4>1 DEF InvPolled, Arranged
      <4> QED
        BY <2>3, <2>5, <4>1 DEF Removing
    <3>2. c \in Polled
      BY <1>1, <2>1 DEF InvPolled, Arranged
    <3> QED
      BY <2>3, <3>1, <3>2 DEF Polled
  <2>7. WillWatch(c)
    <3>1. Changes(updates, c) = {}
      BY <2>3, <2>5 DEF Changes
    <3>2. HasOut(polls, c)
      BY <2>1, <2>3 DEF HasOut
    <3>3. Watches(polls, updates, c)
      BY <3>1, <3>2 DEF Watches
    <3> QED
      BY <3>3, WatchNow
  <2>8. outBuffer[c]
    BY <1>1, <2>4, <2>6, <2>7 DEF InvWatched
  <2> QED
    BY <2>1, <2>4, <2>8
<1>12. InvLoop'
  <2>1. cursor' = 1 /\ \A k \in DOMAIN updates' : updates'[k].pd = ListenPd
    BY <1>1, <1>2 DEF InvLoop
  <2> QED
    BY <1>2, <1>11, <2>1 DEF InvLoop
<1>13. InvWatched'
  BY <1>1, <1>6, <1>8 DEF InvWatched
<1> QED
  BY <1>9, <1>10, <1>12, <1>13 DEF PollSide

\* The loop is at its end.
LEMMA ScanDoneStep ==
  ASSUME PollSide, ScanDone, UNCHANGED <<life, outBuffer, main>>
  PROVE  PollSide'
<1>1. PollTypes /\ InvPolled /\ InvWatched
  BY DEF PollSide
<1>2. /\ thread = "scan" /\ thread' = "read" /\ cursor' = 1 /\ socksToHandle' = 0
      /\ UNCHANGED <<updates, pipe>>
  BY DEF ScanDone
<1>3. /\ polls' \in Seq(Entries) /\ Alike(polls, polls')
      /\ \A pd : WillWatch(pd)' <=> WillWatch(pd)
  <2>1. polls \in Seq(EntriesOf(Descriptors, Handles, Reports))
    BY <1>1, Shapes DEF PollTypes
  <2>2. /\ polls' \in Seq(EntriesOf(Descriptors, Handles, Reports)) /\ Alike(polls, polls')
        /\ \A pd : WillWatch(pd)' <=> WillWatch(pd)
    BY <2>1, ScanDoneKeeps
  <2> QED
    BY <2>2, Shapes
<1>4. Polled' = Polled /\ Leaving' = Leaving /\ \A d : Member(d)' <=> Member(d)
  BY <1>2, SamePolled
<1>5. PollTypes'
  BY <1>1, <1>2, <1>3 DEF PollTypes
<1>6. InvPolled'
  <2>1. Arranged(polls, updates, Polled, Leaving)
    BY <1>1 DEF InvPolled
  <2>2. Arranged(polls', updates, Polled, Leaving)
    BY <1>3, <2>1, StaysArranged
  <2> QED
    BY <1>2, <1>4, <2>2 DEF InvPolled
<1>7. InvLoop'
  BY <1>2 DEF InvLoop
<1>8. InvWatched'
  BY <1>1, <1>3, <1>4 DEF InvWatched
<1> QED
  BY <1>5, <1>6, <1>7, <1>8 DEF PollSide

\* The poll thread outside the handlers.
LEMMA PollLoopsStep ==
  ASSUME ServerInv, PollLoops
  PROVE  ServerInv'
<1>1. PollSide /\ ClientSide
  BY Halves
<1>2. UNCHANGED <<clientVars, main, netVars>>
  BY DEF PollLoops
<1>3. UNCHANGED <<life, outBuffer, main>>
  BY <1>2 DEF clientVars
<1>4. CASE RegisterPipe
  BY <1>1, <1>2, <1>3, <1>4, RegisterPipeStep, ClientFrame, HalvesNext
<1>5. CASE ReadPipe
  BY <1>1, <1>2, <1>3, <1>5, ReadPipeStep, ClientFrame, HalvesNext
<1>6. CASE ApplyRegister
  BY <1>1, <1>2, <1>3, <1>6, ApplyRegisterStep, ClientFrame, HalvesNext
<1>7. CASE ApplyAdd \/ ApplyRemoveEvent
  BY <1>1, <1>2, <1>3, <1>7, ApplyChangeStep, ClientFrame, HalvesNext
<1>8. CASE ApplyDone
  BY <1>1, <1>2, <1>3, <1>8, ApplyDoneStep, ClientFrame, HalvesNext
<1>9. CASE PollReturns([i \in DOMAIN polls |-> Revents(polls[i])])
  BY <1>1, <1>2, <1>3, <1>9, PollReturnsStep, ClientFrame, HalvesNext
<1>10. CASE ScanDone
  BY <1>1, <1>2, <1>3, <1>10, ScanDoneStep, ClientFrame, HalvesNext
<1> QED
  BY <1>4, <1>5, <1>6, <1>7, <1>8, <1>9, <1>10 DEF PollLoops

\* What a peer does to both halves: only to one.
LEMMA PeerStep ==
  ASSUME ServerInv, NEW c \in Clients, Peer(c)
  PROVE  ServerInv'
<1>1. PollSide /\ ClientSide
  BY Halves
<1>2. ClientSide' /\ UNCHANGED <<pollVars, life, outBuffer, main>>
  BY <1>1, PeerClients
<1>3. PollSide'
  BY <1>1, <1>2, PollFrame
<1> QED
  BY <1>2, <1>3, HalvesNext

------------------------------------------------------------------------------
(* The invariant. *)

\* It holds at the start.
LEMMA ServerStarts == Init => ServerInv
<1> SUFFICES ASSUME Init PROVE ServerInv
  OBVIOUS
<1>1. PipeSize \in Nat /\ MaxPieces \in Nat
  BY ChatPollAssumption, ChatServerAssumption
<1>2. /\ polls = <<>> /\ updates = <<>> /\ pipe = 0 /\ thread = "start" /\ cursor = 1
      /\ socksToHandle = 0 /\ main = "register"
  BY DEF Init, PollInit
<1>3. polls \in Seq(Entries) /\ updates \in Seq(Updates) /\ DOMAIN polls = {} /\ DOMAIN updates = {}
  BY <1>2
<1>4. Polled = {} /\ Leaving = {} /\ \A c \in Clients : ~ Member(c)
  BY <1>2 DEF Init, Polled, Leaving, Member
<1>5. PollTypes
  BY <1>1, <1>2, <1>3 DEF PollTypes
<1>6. InvPolled
  BY <1>3, <1>4 DEF InvPolled, Arranged
<1>7. InvLoop /\ InvWatched
  BY <1>2, <1>4 DEF InvLoop, InvWatched
<1>8. ClientTypes
  BY <1>1 DEF Init, ClientTypes
<1>9. InvLife /\ InvNames /\ SocketIsOwn
  BY <1>4, NoneIsNobody DEF Init, InvLife, InvNames, SocketIsOwn
<1> QED
  BY <1>5, <1>6, <1>7, <1>8, <1>9, Halves DEF PollSide, ClientSide

\* And every step keeps it.
LEMMA ServerKeeps == ServerInv /\ [Next]_vars => ServerInv'
<1> SUFFICES ASSUME ServerInv, [Next]_vars PROVE ServerInv'
  OBVIOUS
<1>1. CASE Main
  BY <1>1, MainRegistersStep, MainNotifiesStep DEF Main
<1>2. CASE PollThread
  BY <1>2, PollLoopsStep, ApplyRemoveStep, PipeBlockStep, AcceptStep, PollHupStep, PollInStep,
     PollOutStep, SendReturnsStep DEF PollThread
<1>3. CASE \E c \in Clients : Peer(c)
  BY <1>3, PeerStep
<1>4. CASE UNCHANGED vars
  <2>1. PollSide /\ ClientSide
    BY Halves
  <2>2. UNCHANGED <<pollVars, clientVars, main, netVars>> /\ UNCHANGED <<life, outBuffer>>
    BY <1>4 DEF vars, clientVars
  <2>3. PollSide'
    BY <2>1, <2>2, PollFrame
  <2>4. ClientSide'
    BY <2>1, <2>2, ClientFrame
  <2> QED
    BY <2>3, <2>4, HalvesNext
<1> QED
  BY <1>1, <1>2, <1>3, <1>4 DEF Next

\* The entries, the updates, the names and the connections fit together at every moment.
THEOREM ChatInvariant == Spec => []ServerInv
<1> QED
  BY ServerStarts, ServerKeeps, PTL DEF Spec

\* server->clients has every member under the name the member has, and nobody who left.
THEOREM DictionaryIsExact == Spec => []DictionaryExact
<1>1. ServerInv => DictionaryExact
  BY DEF ServerInv, InvTypes, InvNames, DictionaryExact
<1> QED
  BY <1>1, ChatInvariant, PTL

\* Nobody closes or uses the descriptor of another.
THEOREM SocketsAreOwn == Spec => []SocketIsOwn
<1>1. ServerInv => SocketIsOwn
  BY DEF ServerInv
<1> QED
  BY <1>1, ChatInvariant, PTL

\* PollIndexForDescriptor finds the entry of every update whose turn it is.
THEOREM UpdatesFindTheirEntry == Spec => []UpdatesFindEntry
<1>1. ServerInv => UpdatesFindEntry
  <2> SUFFICES ASSUME ServerInv, updates # <<>>, Head(updates).op # "register"
               PROVE  IndexOf(Head(updates).pd) # {}
    BY DEF UpdatesFindEntry
  <2>1. PollSide
    BY Halves
  <2>2. Arranged(polls, updates, Polled, Leaving) /\ Taken(updates, Head(updates), Tail(updates))
    BY <2>1, UpdateAtHand
  <2>3. \E i \in DOMAIN polls : polls[i].pd = Head(updates).pd
    BY <2>2, HeadFindsEntry
  <2> QED
    BY <2>3 DEF IndexOf
<1> QED
  BY <1>1, ChatInvariant, PTL

\* A member is watched for POLLOUT exactly when it is to be told something once the updates
\* are applied, and what poll() reports of it is still so when ClientDoWrite is called.
THEOREM BuffersAreWatched == Spec => []WatchedWhileBuffered
<1>1. ServerInv => WatchedWhileBuffered
  <2> SUFFICES ASSUME ServerInv PROVE WatchedWhileBuffered
    OBVIOUS
  <2>1. \A c \in Clients : Member(c) => (outBuffer[c] <=> WillWatch(c))
    BY DEF ServerInv, InvWatched
  <2>2. ASSUME thread = "scan", Pending # {}, Reported = {"out"} PROVE outBuffer[polls[Next_i].pd]
    <3>1. polls \in Seq(Entries) /\ cursor \in Nat \ {0}
      BY Halves DEF PollSide, PollTypes
    <3>2. Next_i \in DOMAIN polls /\ Next_i >= cursor
      BY <2>2, <3>1, NextIsAhead
    <3> QED
      BY <2>2, <3>2 DEF ServerInv, InvLoop, Reported
  <2> QED
    BY <2>1, <2>2 DEF WatchedWhileBuffered
<1> QED
  BY <1>1, ChatInvariant, PTL
==============================================================================
