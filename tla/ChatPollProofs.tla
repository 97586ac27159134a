---------------------------- MODULE ChatPollProofs ----------------------------
(***************************************************************************)
(* Proofs about ChatPoll that both ends of the chat need: what the updates *)
(* do to the entries, and whether POLLOUT will be watched.                 *)
(***************************************************************************)
EXTENDS ChatPoll, Integers, SequenceTheorems, FiniteSetTheorems, WellFoundedInduction, TLAPS

------------------------------------------------------------------------------
(* Smallest and greatest members. *)

\* A set of natural numbers that has a member has a smallest one.
LEMMA LeastMember ==
  ASSUME NEW S, S \subseteq Nat, S # {}
  PROVE  \E m \in S : \A k \in S : m <= k
<1>1. \A x, y \in Nat : x < y => <<x, y>> \in OpToRel(<, Nat)
  BY DEF OpToRel
<1>2. \E R : IsWellFoundedOn(R, Nat) /\ \A x, y \in Nat : x < y => <<x, y>> \in R
  BY <1>1, NatLessThanWellFounded, Zenon
<1>3. PICK R : IsWellFoundedOn(R, Nat) /\ \A x, y \in Nat : x < y => <<x, y>> \in R
  BY <1>2
<1>4. PICK m \in S : \A k \in S : ~ (<<k, m>> \in R)
  BY <1>3, WFMin, ZenonT(30)
<1>5. \A k \in S : ~ (k < m)
  BY <1>3, <1>4, Zenon
<1> QED
  BY <1>5

\* A set of numbers up to n that has a member has a greatest one.
LEMMA GreatestMember ==
  ASSUME NEW n \in Nat, NEW S, S \subseteq 1..n, S # {}
  PROVE  \E m \in S : \A k \in S : k <= m
<1> DEFINE T == {n - k : k \in S}
<1>1. T \subseteq Nat /\ T # {}
  <2>1. \A k \in S : n - k \in Nat
    OBVIOUS
  <2> QED
    BY <2>1
<1>2. PICK t \in T : \A u \in T : t <= u
  BY <1>1, LeastMember
<1>3. PICK m \in S : t = n - m
  OBVIOUS
<1>4. ASSUME NEW k \in S PROVE k <= m
  <2>1. n - k \in T
    OBVIOUS
  <2>2. n - m <= n - k
    BY <1>2, <1>3, <2>1
  <2> HIDE DEF T
  <2>3. k \in 1..n /\ m \in 1..n
    OBVIOUS
  <2> QED
    BY ONLY <2>2, <2>3, n \in Nat
<1> QED
  BY <1>4

\* A sequence is its head and its tail.
LEMMA HeadAndTail ==
  ASSUME NEW S, NEW b \in Seq(S), b # <<>>
  PROVE  b = <<Head(b)>> \o Tail(b)
<1>1. Len(b) \in Nat \ {0} /\ b = SubSeq(b, 1, Len(b))
  BY EmptySeq, SubSeqFull
<1>2. SubSeq(b, 1, Len(b)) = <<b[1]>> \o SubSeq(b, 2, Len(b))
  BY <1>1, SubSeqRecursiveFirst
<1> QED
  BY <1>1, <1>2, TailIsSubSeq

------------------------------------------------------------------------------
(* The update that decides. *)

\* The greatest member is a member.
LEMMA MaxIsMember ==
  ASSUME NEW n \in Nat, NEW S, S \subseteq 1..n, S # {}
  PROVE  Max(S) \in S /\ \A k \in S : k <= Max(S)
<1>1. PICK m \in S : \A k \in S : k <= m
  BY GreatestMember
<1>2. m \in S /\ \A k \in S : m >= k
  BY <1>1
<1>3. Max(S) \in S /\ \A k \in S : Max(S) >= k
  BY <1>2 DEF Max
<1> QED
  BY <1>3

\* Which member it is.
LEMMA MaxIs ==
  ASSUME NEW n \in Nat, NEW S, S \subseteq 1..n, NEW m \in S, \A k \in S : k <= m
  PROVE  Max(S) = m
<1>1. Max(S) \in S /\ \A k \in S : k <= Max(S)
  BY MaxIsMember
<1>2. Max(S) \in 1..n /\ m \in 1..n /\ m <= Max(S) /\ Max(S) <= m
  BY <1>1
<1> QED
  BY ONLY <1>2

\* Whether POLLOUT is in the entry of pd among ps, whether seq changes it, and to what.
HasOut(ps, pd)  == \E i \in DOMAIN ps : ps[i].pd = pd /\ "out" \in ps[i].events
LastAdds(s, pd) == s[Max(Changes(s, pd))].op = "add"
Watches(ps, s, pd) == IF Changes(s, pd) # {} THEN LastAdds(s, pd) ELSE HasOut(ps, pd)

\* WillWatch asks that of the entries and updates there are.
LEMMA WatchNow == \A pd : WillWatch(pd) <=> Watches(polls, updates, pd)
  BY DEF WillWatch, Watches, LastAdds, HasOut, IndexOf

\* And after a step of those there are then.
LEMMA WatchNext == \A pd : WillWatch(pd)' <=> Watches(polls', updates', pd)
  BY DEF WillWatch, Watches, LastAdds, HasOut, IndexOf, Changes

\* The changes are among the updates.
LEMMA ChangesBounded ==
  ASSUME NEW U, NEW s \in Seq(U), NEW pd
  PROVE  Changes(s, pd) \subseteq 1..Len(s) /\ Len(s) \in Nat
  BY LenProperties DEF Changes

\* The last change of two sequences is in the second if there is one.
LEMMA ConcatWatches ==
  ASSUME NEW U, NEW s \in Seq(U), NEW t \in Seq(U), NEW ps, NEW pd
  PROVE  Watches(ps, s \o t, pd) <=>
           IF Changes(t, pd) # {} THEN LastAdds(t, pd) ELSE Watches(ps, s, pd)
<1> DEFINE l == Len(s)
<1> DEFINE q == s \o t
<1>1. /\ l \in Nat /\ Len(t) \in Nat /\ q \in Seq(U) /\ Len(q) = l + Len(t)
      /\ DOMAIN s = 1..l /\ DOMAIN t = 1..Len(t) /\ DOMAIN q = 1..(l + Len(t))
      /\ \A i \in 1..(l + Len(t)) : q[i] = IF i <= l THEN s[i] ELSE t[i - l]
  BY LenProperties, ConcatProperties
<1> HIDE DEF l, q
<1>2. \A i \in 1..l : i \in DOMAIN q /\ q[i] = s[i]
  BY <1>1
<1>3. \A i \in 1..Len(t) : l + i \in DOMAIN q /\ q[l + i] = t[i]
  <2> SUFFICES ASSUME NEW i \in 1..Len(t) PROVE l + i \in DOMAIN q /\ q[l + i] = t[i]
    OBVIOUS
  <2>1. l + i \in 1..(l + Len(t)) /\ ~ (l + i <= l) /\ (l + i) - l = i
    BY <1>1
  <2> QED
    BY <1>1, <2>1
<1>4. \A i \in DOMAIN q : i \in 1..l \/ \E k \in 1..Len(t) : i = l + k
  <2> SUFFICES ASSUME NEW i \in DOMAIN q, i \notin 1..l PROVE \E k \in 1..Len(t) : i = l + k
    OBVIOUS
  <2>1. i - l \in 1..Len(t) /\ i = l + (i - l)
    BY <1>1
  <2> QED
    BY <2>1
<1>5. CASE Changes(t, pd) # {}
  <2> DEFINE m == Max(Changes(t, pd))
  <2>1. m \in Changes(t, pd) /\ \A k \in Changes(t, pd) : k <= m
    BY <1>5, ChangesBounded, MaxIsMember
  <2> HIDE DEF m
  <2>2. m \in 1..Len(t) /\ l + m \in Changes(q, pd)
    BY <1>1, <1>3, <2>1 DEF Changes
  <2>3. \A k \in Changes(q, pd) : k <= l + m
    <3> SUFFICES ASSUME NEW k \in Changes(q, pd) PROVE k <= l + m
      OBVIOUS
    <3>1. CASE k \in 1..l
      BY <1>1, <2>2, <3>1
    <3>2. CASE \E i \in 1..Len(t) : k = l + i
      <4>1. PICK i \in 1..Len(t) : k = l + i
        BY <3>2
      <4>2. i \in Changes(t, pd)
        BY <1>1, <1>3, <4>1 DEF Changes
      <4>3. i <= m
        BY <2>1, <4>2
      <4> QED
        BY <1>1, <2>2, <4>1, <4>3
    <3> QED
      BY <1>4, <3>1, <3>2 DEF Changes
  <2>4. Max(Changes(q, pd)) = l + m
    <3>1. Changes(q, pd) \subseteq 1..Len(q) /\ Len(q) \in Nat
      BY <1>1, ChangesBounded
    <3> QED
      BY <2>2, <2>3, <3>1, MaxIs
  <2>5. q[l + m] = t[m]
    BY <1>3, <2>2
  <2> QED
    BY <1>5, <2>2, <2>4, <2>5 DEF Watches, LastAdds, m, q
<1>6. CASE Changes(t, pd) = {}
  <2>1. Changes(q, pd) = Changes(s, pd)
    <3>1. ASSUME NEW i \in Changes(q, pd) PROVE i \in Changes(s, pd)
      <4>1. i \in DOMAIN q /\ q[i].pd = pd /\ q[i].op \in {"add", "remove event"}
        BY <3>1 DEF Changes
      <4>2. CASE i \in 1..l
        BY <1>1, <1>2, <4>1, <4>2 DEF Changes
      <4>3. CASE \E k \in 1..Len(t) : i = l + k
        <5>1. PICK k \in 1..Len(t) : i = l + k
          BY <4>3
        <5>2. k \in DOMAIN t /\ t[k] = q[i]
          BY <1>1, <1>3, <5>1
        <5>3. k \in Changes(t, pd)
          BY <4>1, <5>2 DEF Changes
        <5> QED
          BY <1>6, <5>3
      <4> QED
        BY <1>4, <4>1, <4>2, <4>3
    <3>2. ASSUME NEW i \in Changes(s, pd) PROVE i \in Changes(q, pd)
      <4>1. i \in 1..l /\ s[i].pd = pd /\ s[i].op \in {"add", "remove event"}
        BY <1>1, <3>2 DEF Changes
      <4> QED
        BY <1>2, <4>1 DEF Changes
    <3> QED
      BY <3>1, <3>2
  <2>2. CASE Changes(s, pd) = {}
    BY <1>6, <2>1, <2>2 DEF Watches, q
  <2>3. CASE Changes(s, pd) # {}
    <3>1. Max(Changes(s, pd)) \in 1..l
      BY <2>3, ChangesBounded, MaxIsMember DEF l
    <3> QED
      BY <1>2, <1>6, <2>1, <2>3, <3>1 DEF Watches, LastAdds, q
  <2> QED
    BY <2>2, <2>3
<1> QED
  BY <1>5, <1>6

\* What an update says of pd.
Touches(u, pd) == u.pd = pd /\ u.op \in {"add", "remove event"}

\* A single update decides when it says anything.
LEMMA SingleChange ==
  ASSUME NEW u, NEW pd
  PROVE  /\ Changes(<<u>>, pd) = IF Touches(u, pd) THEN {1} ELSE {}
         /\ Touches(u, pd) => (LastAdds(<<u>>, pd) <=> u.op = "add")
<1>1. DOMAIN <<u>> = {1} /\ <<u>>[1] = u
  OBVIOUS
<1>2. Changes(<<u>>, pd) = IF Touches(u, pd) THEN {1} ELSE {}
  BY <1>1 DEF Changes, Touches
<1>3. Max({1}) = 1
  BY MaxIs, 1 \in Nat, {1} \subseteq 1..1
<1> QED
  BY <1>1, <1>2, <1>3 DEF LastAdds

\* An update at the end of the queue.
LEMMA AppendWatches ==
  ASSUME NEW U, NEW s \in Seq(U), NEW u \in U, NEW ps, NEW pd
  PROVE  Watches(ps, s \o <<u>>, pd) <=>
           IF Touches(u, pd) THEN u.op = "add" ELSE Watches(ps, s, pd)
<1>1. <<u>> \in Seq(U)
  OBVIOUS
<1>2. Watches(ps, s \o <<u>>, pd) <=>
        IF Changes(<<u>>, pd) # {} THEN LastAdds(<<u>>, pd) ELSE Watches(ps, s, pd)
  BY <1>1, ConcatWatches
<1> QED
  BY <1>2, SingleChange

\* The update at the front is applied: nothing changes in the end when it does to the entries
\* what it says.
LEMMA TailWatches ==
  ASSUME NEW U, NEW s \in Seq(U), s # <<>>, NEW ps, NEW new, NEW pd,
         HasOut(new, pd) <=> IF Touches(Head(s), pd) THEN Head(s).op = "add" ELSE HasOut(ps, pd)
  PROVE  Watches(new, Tail(s), pd) <=> Watches(ps, s, pd)
<1> DEFINE h == Head(s)
<1> DEFINE t == Tail(s)
<1>1. h \in U /\ t \in Seq(U) /\ <<h>> \in Seq(U)
  BY HeadTailProperties
<1>2. s = <<h>> \o t
  BY HeadAndTail
<1> HIDE DEF h, t
<1>3. Watches(ps, <<h>> \o t, pd) <=>
        IF Changes(t, pd) # {} THEN LastAdds(t, pd) ELSE Watches(ps, <<h>>, pd)
  BY <1>1, ConcatWatches
<1>4. Watches(ps, <<h>>, pd) <=> IF Touches(h, pd) THEN h.op = "add" ELSE HasOut(ps, pd)
  BY SingleChange DEF Watches
<1>5. HasOut(new, pd) <=> IF Touches(h, pd) THEN h.op = "add" ELSE HasOut(ps, pd)
  BY DEF h
<1>6. Watches(new, t, pd) <=> IF Changes(t, pd) # {} THEN LastAdds(t, pd) ELSE HasOut(new, pd)
  BY DEF Watches
<1>7. Watches(new, t, pd) <=> Watches(ps, s, pd)
  BY <1>2, <1>3, <1>4, <1>5, <1>6
<1> QED
  BY <1>7 DEF t

------------------------------------------------------------------------------
(* The actions of the poll thread, for whoever registers with it: P are the *)
(* descriptors, F the file descriptors, R what poll() can report and O the *)
(* operations that are queued.                                             *)

EntriesOf(P, F, R) == [pd : P, fd : F, events : SUBSET {"in", "out"}, revents : SUBSET R]
UpdatesOf(O, P, F) == [op : O, pd : P, fd : F, events : SUBSET {"in", "out"}]

\* The same registrations at the same places.
Alike(ps, new) == DOMAIN new = DOMAIN ps /\ \A i \in DOMAIN ps : new[i].pd = ps[i].pd

\* At most one registration of a descriptor.
Unique(ps) == \A i, m \in DOMAIN ps : ps[i].pd = ps[m].pd => i = m

\* What becomes of POLLOUT when u is applied to ps.
Applied(ps, new, u) ==
  \A pd : HasOut(new, pd) <=> IF Touches(u, pd) THEN u.op = "add" ELSE HasOut(ps, pd)

\* A reader of the queue sees the same in the end.
LEMMA AppliedWatches ==
  ASSUME NEW U, updates \in Seq(U), updates # <<>>, updates' = Tail(updates),
         Applied(polls, polls', Head(updates))
  PROVE  \A pd : WillWatch(pd)' <=> WillWatch(pd)
<1> SUFFICES ASSUME NEW pd PROVE WillWatch(pd)' <=> WillWatch(pd)
  OBVIOUS
<1>1. HasOut(polls', pd) <=>
        IF Touches(Head(updates), pd) THEN Head(updates).op = "add" ELSE HasOut(polls, pd)
  BY DEF Applied
<1>2. Watches(polls', Tail(updates), pd) <=> Watches(polls, updates, pd)
  BY <1>1, TailWatches
<1>3. Watches(polls', updates', pd) <=> Watches(polls, updates, pd)
  BY <1>2
<1> QED
  BY <1>3, WatchNow, WatchNext

\* The events of one entry are written.
SetsEvents(ps, new, f, ev) == new = [ps EXCEPT ![f].events = ev]
EventsAre(ps, new, f, ev) ==
  \A i \in DOMAIN ps : new[i].events = IF i = f THEN ev ELSE ps[i].events

\* That leaves a sequence of entries.
LEMMA EventsWritten ==
  ASSUME NEW P, NEW F, NEW R, NEW ps \in Seq(EntriesOf(P, F, R)), NEW f \in DOMAIN ps,
         NEW ev \in SUBSET {"in", "out"}, NEW new, SetsEvents(ps, new, f, ev)
  PROVE  new \in Seq(EntriesOf(P, F, R)) /\ Alike(ps, new) /\ EventsAre(ps, new, f, ev)
<1>1. /\ Len(ps) \in Nat /\ DOMAIN ps = 1..Len(ps)
      /\ \A i \in DOMAIN ps : ps[i] \in EntriesOf(P, F, R)
  BY LenProperties, ElementOfSeq
<1>2. /\ DOMAIN new = DOMAIN ps
      /\ \A i \in DOMAIN ps : new[i] = IF i = f THEN [ps[f] EXCEPT !.events = ev] ELSE ps[i]
  BY <1>1 DEF SetsEvents
<1>3. /\ [ps[f] EXCEPT !.events = ev] \in EntriesOf(P, F, R)
      /\ [ps[f] EXCEPT !.events = ev].pd = ps[f].pd
      /\ [ps[f] EXCEPT !.events = ev].events = ev
  BY <1>1 DEF EntriesOf
<1>4. new \in [1..Len(ps) -> EntriesOf(P, F, R)]
  <2>1. new = [i \in DOMAIN new |-> new[i]]
    BY DEF SetsEvents
  <2> QED
    BY <1>1, <1>2, <1>3, <2>1
<1>5. new \in Seq(EntriesOf(P, F, R))
  BY <1>1, <1>4, SeqDef
<1> QED
  BY <1>2, <1>3, <1>5 DEF Alike, EventsAre

\* PollDoAddEvent sets what it is told to.
LEMMA AddKeeps ==
  ASSUME NEW P, NEW F, NEW R, NEW U, polls \in Seq(EntriesOf(P, F, R)),
         updates \in Seq(U), Head(updates).events = {"out"}, ApplyAdd
  PROVE  /\ polls' \in Seq(EntriesOf(P, F, R)) /\ Alike(polls, polls')
         /\ \A pd : WillWatch(pd)' <=> WillWatch(pd)
<1> DEFINE h == Head(updates)
<1> DEFINE f == Found
<1>1. /\ updates # <<>> /\ updates' = Tail(updates) /\ h.op = "add" /\ h.events = {"out"}
      /\ IndexOf(h.pd) # {}
  BY DEF ApplyAdd, Applying
<1>2. f \in DOMAIN polls /\ polls[f].pd = h.pd
  <2>1. f \in IndexOf(h.pd)
    BY <1>1 DEF Found
  <2> QED
    BY <2>1 DEF IndexOf
<1>3. polls' = [polls EXCEPT ![f].events = polls[f].events \cup {"out"}]
  BY <1>1 DEF ApplyAdd
<1> DEFINE ev == polls[f].events \cup {"out"}
<1>4. SetsEvents(polls, polls', f, ev) /\ ev \in SUBSET {"in", "out"}
  <2>1. polls[f] \in EntriesOf(P, F, R)
    BY <1>2, ElementOfSeq, LenProperties
  <2>2. polls[f].events \in SUBSET {"in", "out"}
    BY <2>1 DEF EntriesOf
  <2> QED
    BY <1>3, <2>2 DEF SetsEvents
<1>5. "out" \in ev
  OBVIOUS
<1> HIDE DEF h, f, ev
<1>6. /\ polls' \in Seq(EntriesOf(P, F, R)) /\ Alike(polls, polls')
      /\ EventsAre(polls, polls', f, ev)
  BY <1>2, <1>4, EventsWritten
<1>7. Applied(polls, polls', h)
  BY <1>1, <1>2, <1>5, <1>6 DEF Applied, HasOut, Touches, Alike, EventsAre
<1>8. \A pd : WillWatch(pd)' <=> WillWatch(pd)
  BY <1>1, <1>7, AppliedWatches DEF h
<1> QED
  BY <1>6, <1>8

\* PollDoRemoveEvent takes back what it is told to.
LEMMA RemoveEventKeeps ==
  ASSUME NEW P, NEW F, NEW R, NEW U, polls \in Seq(EntriesOf(P, F, R)), Unique(polls),
         updates \in Seq(U), Head(updates).events = {"out"}, ApplyRemoveEvent
  PROVE  /\ polls' \in Seq(EntriesOf(P, F, R)) /\ Alike(polls, polls')
         /\ \A pd : WillWatch(pd)' <=> WillWatch(pd)
<1> DEFINE h == Head(updates)
<1> DEFINE f == Found
<1>1. /\ updates # <<>> /\ updates' = Tail(updates) /\ h.op = "remove event"
      /\ h.events = {"out"} /\ IndexOf(h.pd) # {}
  BY DEF ApplyRemoveEvent, Applying
<1>2. f \in DOMAIN polls /\ polls[f].pd = h.pd
  <2>1. f \in IndexOf(h.pd)
    BY <1>1 DEF Found
  <2> QED
    BY <2>1 DEF IndexOf
<1>3. polls' = [polls EXCEPT ![f].events = polls[f].events \ {"out"}]
  BY <1>1 DEF ApplyRemoveEvent
<1> DEFINE ev == polls[f].events \ {"out"}
<1>4. SetsEvents(polls, polls', f, ev) /\ ev \in SUBSET {"in", "out"}
  <2>1. polls[f] \in EntriesOf(P, F, R)
    BY <1>2, ElementOfSeq, LenProperties
  <2>2. polls[f].events \in SUBSET {"in", "out"}
    BY <2>1 DEF EntriesOf
  <2> QED
    BY <1>3, <2>2 DEF SetsEvents
<1>5. "out" \notin ev
  OBVIOUS
<1> HIDE DEF h, f, ev
<1>6. /\ polls' \in Seq(EntriesOf(P, F, R)) /\ Alike(polls, polls')
      /\ EventsAre(polls, polls', f, ev)
  BY <1>2, <1>4, EventsWritten
<1>7. \A i \in DOMAIN polls : polls[i].pd = h.pd => i = f
  BY <1>2 DEF Unique
<1>8. Applied(polls, polls', h)
  BY <1>1, <1>2, <1>5, <1>6, <1>7 DEF Applied, HasOut, Touches, Alike, EventsAre
<1>9. \A pd : WillWatch(pd)' <=> WillWatch(pd)
  BY <1>1, <1>8, AppliedWatches DEF h
<1> QED
  BY <1>6, <1>9

\* PollDoRegisterDescriptor puts one more entry behind the others.
AddsEntry(ps, new, u) ==
  /\ DOMAIN new = 1..(Len(ps) + 1)
  /\ \A i \in DOMAIN ps : i \in DOMAIN new /\ new[i] = ps[i]
  /\ \A i \in DOMAIN new : i \notin DOMAIN ps => i = Len(ps) + 1
  /\ new[Len(ps) + 1].pd = u.pd /\ new[Len(ps) + 1].events = u.events

\* What was not to be watched for POLLOUT is not.
LEMMA RegisterKeeps ==
  ASSUME NEW P, NEW F, NEW R, NEW O, NEW U, polls \in Seq(EntriesOf(P, F, R)), updates \in Seq(U),
         Head(updates) \in UpdatesOf(O, P, F), "out" \notin Head(updates).events, ApplyRegister
  PROVE  /\ polls' \in Seq(EntriesOf(P, F, R)) /\ AddsEntry(polls, polls', Head(updates))
         /\ \A pd : WillWatch(pd)' <=> WillWatch(pd)
<1> DEFINE h == Head(updates)
<1> DEFINE e == [pd |-> h.pd, fd |-> h.fd, events |-> h.events, revents |-> {}]
<1>1. /\ updates # <<>> /\ updates' = Tail(updates) /\ h.op = "register"
      /\ polls' = Append(polls, e)
  BY DEF ApplyRegister, Applying
<1>2. h \in UpdatesOf(O, P, F)
  OBVIOUS
<1>3. e \in EntriesOf(P, F, R) /\ e.pd = h.pd /\ e.events = h.events /\ "out" \notin e.events
  BY <1>2 DEF UpdatesOf, EntriesOf
<1> HIDE DEF h, e
<1>4. /\ polls' \in Seq(EntriesOf(P, F, R)) /\ Len(polls') = Len(polls) + 1
      /\ \A i \in 1..Len(polls) : polls'[i] = polls[i]
      /\ polls'[Len(polls) + 1] = e
  BY <1>1, <1>3, AppendProperties
<1>5. /\ Len(polls) \in Nat /\ DOMAIN polls = 1..Len(polls)
      /\ DOMAIN polls' = 1..(Len(polls) + 1)
  BY <1>4, LenProperties
<1>6. AddsEntry(polls, polls', h)
  BY <1>3, <1>4, <1>5 DEF AddsEntry
<1>7. Applied(polls, polls', h)
  <2>1. \A pd : ~ Touches(h, pd)
    BY <1>1 DEF Touches
  <2>2. \A pd : HasOut(polls', pd) <=> HasOut(polls, pd)
    BY <1>3, <1>4, <1>5 DEF HasOut
  <2> QED
    BY <2>1, <2>2 DEF Applied
<1>8. \A pd : WillWatch(pd)' <=> WillWatch(pd)
  BY <1>1, <1>7, AppliedWatches DEF h
<1> QED
  BY <1>4, <1>6, <1>8 DEF h

\* new has the entries of ps but that of pd, in any order.
Dropped(ps, new, pd) ==
  /\ \A i \in DOMAIN new : new[i].pd # pd /\ \E m \in DOMAIN ps : new[i] = ps[m]
  /\ \A m \in DOMAIN ps : ps[m].pd # pd => \E i \in DOMAIN new : new[i] = ps[m]
  /\ \A i, m \in DOMAIN new : new[i].pd = new[m].pd => i = m

\* The last entry fills the gap at f.
LEMMA GapFilled ==
  ASSUME NEW E, NEW ps \in Seq(E), Unique(ps), NEW f \in DOMAIN ps, NEW new,
         new = [i \in 1..(Len(ps) - 1) |-> IF i = f THEN ps[Len(ps)] ELSE ps[i]]
  PROVE  new \in Seq(E) /\ Dropped(ps, new, ps[f].pd)
<1> DEFINE l == Len(ps)
<1>1. l \in Nat /\ DOMAIN ps = 1..l /\ \A i \in 1..l : ps[i] \in E
  BY LenProperties, ElementOfSeq
<1>2. /\ DOMAIN new = 1..(l - 1)
      /\ \A i \in 1..(l - 1) : new[i] = IF i = f THEN ps[l] ELSE ps[i]
  OBVIOUS
<1>3. new = [i \in DOMAIN new |-> new[i]]
  OBVIOUS
<1> HIDE DEF l
<1>4. f \in 1..l /\ l \in 1..l
  BY <1>1
<1>5. new \in Seq(E)
  <2>1. l - 1 \in Nat
    BY <1>1, <1>4
  <2>2. new \in [1..(l - 1) -> E]
    BY <1>1, <1>2, <1>3, <1>4
  <2> QED
    BY <2>1, <2>2, SeqDef
<1>6. \A i, m \in 1..l : ps[i].pd = ps[m].pd => i = m
  BY <1>1 DEF Unique
\* Where the entry at i comes from.
<1> DEFINE from(i) == IF i = f THEN l ELSE i
<1>7. \A i \in 1..(l - 1) : from(i) \in 1..l /\ from(i) # f /\ new[i] = ps[from(i)]
  BY <1>1, <1>2, <1>4
<1>8. \A i, m \in 1..(l - 1) : from(i) = from(m) => i = m
  BY <1>1
<1>9. \A m \in 1..l : m # f => \E i \in 1..(l - 1) : from(i) = m
  <2> SUFFICES ASSUME NEW m \in 1..l, m # f PROVE \E i \in 1..(l - 1) : from(i) = m
    OBVIOUS
  <2>1. CASE m = l
    <3>1. f \in 1..(l - 1) /\ from(f) = m
      BY <1>1, <1>4, <2>1
    <3> QED
      BY <3>1
  <2>2. CASE m # l
    <3>1. m \in 1..(l - 1) /\ from(m) = m
      BY <1>1, <2>2
    <3> QED
      BY <3>1
  <2> QED
    BY <2>1, <2>2
<1> HIDE DEF from
<1>10. \A i \in DOMAIN new : new[i].pd # ps[f].pd /\ \E m \in DOMAIN ps : new[i] = ps[m]
  BY <1>1, <1>2, <1>4, <1>6, <1>7
<1>11. \A m \in DOMAIN ps : ps[m].pd # ps[f].pd => \E i \in DOMAIN new : new[i] = ps[m]
  BY <1>1, <1>2, <1>7, <1>9
<1>12. ASSUME NEW i \in DOMAIN new, NEW m \in DOMAIN new, new[i].pd = new[m].pd PROVE i = m
  <2>1. i \in 1..(l - 1) /\ m \in 1..(l - 1)
    BY <1>2
  <2>2. /\ from(i) \in 1..l /\ new[i] = ps[from(i)]
        /\ from(m) \in 1..l /\ new[m] = ps[from(m)]
    BY <1>7, <2>1
  <2>3. from(i) = from(m)
    BY <1>6, <1>12, <2>2
  <2> QED
    BY <1>8, <2>1, <2>3
<1> QED
  BY <1>5, <1>10, <1>11, <1>12 DEF Dropped

\* PollDoRemove takes one entry away and leaves the others as they are.
LEMMA RemoveKeeps ==
  ASSUME NEW P, NEW F, NEW R, NEW U, polls \in Seq(EntriesOf(P, F, R)), Unique(polls),
         updates \in Seq(U), ApplyRemove
  PROVE  /\ polls' \in Seq(EntriesOf(P, F, R)) /\ Dropped(polls, polls', Head(updates).pd)
         /\ \A pd : pd # Head(updates).pd => (WillWatch(pd)' <=> WillWatch(pd))
<1> DEFINE h == Head(updates)
<1> DEFINE f == Found
<1>1. /\ updates # <<>> /\ updates' = Tail(updates) /\ h.op = "remove" /\ IndexOf(h.pd) # {}
  BY DEF ApplyRemove, Applying
<1>2. f \in DOMAIN polls /\ polls[f].pd = h.pd
  <2>1. f \in IndexOf(h.pd)
    BY <1>1 DEF Found
  <2> QED
    BY <2>1 DEF IndexOf
<1>3. polls' = [i \in 1..(Len(polls) - 1) |-> IF i = f THEN polls[Len(polls)] ELSE polls[i]]
  BY DEF ApplyRemove
<1> HIDE DEF h, f
<1>4. polls' \in Seq(EntriesOf(P, F, R)) /\ Dropped(polls, polls', h.pd)
  <2>1. polls' \in Seq(EntriesOf(P, F, R)) /\ Dropped(polls, polls', polls[f].pd)
    BY <1>2, <1>3, GapFilled
  <2> QED
    BY <1>2, <2>1
<1>5. ASSUME NEW pd, pd # h.pd PROVE WillWatch(pd)' <=> WillWatch(pd)
  <2>1. HasOut(polls', pd) <=> HasOut(polls, pd)
    BY <1>4, <1>5 DEF HasOut, Dropped
  <2>2. ~ Touches(h, pd)
    BY <1>5 DEF Touches
  <2>3. HasOut(polls', pd) <=>
          IF Touches(Head(updates), pd) THEN Head(updates).op = "add" ELSE HasOut(polls, pd)
    BY <2>1, <2>2 DEF h
  <2>4. Watches(polls', Tail(updates), pd) <=> Watches(polls, updates, pd)
    BY <1>1, <2>3, TailWatches
  <2>5. Watches(polls', updates', pd) <=> Watches(polls, updates, pd)
    BY <1>1, <2>4
  <2> QED
    BY <2>5, WatchNow, WatchNext
<1> QED
  BY <1>4, <1>5 DEF h

\* Writing revents leaves the registrations and what they watch.
SetsRevents(ps, new, R) ==
  /\ new = [i \in DOMAIN ps |-> new[i]]
  /\ \A i \in DOMAIN ps : \E r \in SUBSET R : new[i] = [ps[i] EXCEPT !.revents = r]

\* They are entries as before.
LEMMA ReventsWritten ==
  ASSUME NEW P, NEW F, NEW R, NEW ps \in Seq(EntriesOf(P, F, R)), NEW new, SetsRevents(ps, new, R)
  PROVE  /\ new \in Seq(EntriesOf(P, F, R)) /\ Alike(ps, new)
         /\ \A pd : HasOut(new, pd) <=> HasOut(ps, pd)
<1>1. /\ Len(ps) \in Nat /\ DOMAIN ps = 1..Len(ps)
      /\ \A i \in DOMAIN ps : ps[i] \in EntriesOf(P, F, R)
  BY LenProperties, ElementOfSeq
<1>2. new = [i \in DOMAIN ps |-> new[i]] /\ DOMAIN new = DOMAIN ps
  BY DEF SetsRevents
<1>3. ASSUME NEW i \in DOMAIN ps
      PROVE  /\ new[i] \in EntriesOf(P, F, R)
             /\ new[i].pd = ps[i].pd /\ new[i].events = ps[i].events
  <2>1. PICK r \in SUBSET R : new[i] = [ps[i] EXCEPT !.revents = r]
    BY DEF SetsRevents
  <2>2. ps[i] \in EntriesOf(P, F, R)
    BY <1>1
  <2> QED
    BY <2>1, <2>2 DEF EntriesOf
<1>4. new \in [1..Len(ps) -> EntriesOf(P, F, R)]
  BY <1>1, <1>2, <1>3
<1>5. new \in Seq(EntriesOf(P, F, R))
  BY <1>1, <1>4, SeqDef
<1> QED
  BY <1>2, <1>3, <1>5 DEF Alike, HasOut

\* poll() reports about the entries and changes nothing else about them.
LEMMA PollReturnsKeeps ==
  ASSUME NEW P, NEW F, NEW R, NEW reports, polls \in Seq(EntriesOf(P, F, R)),
         \A i \in DOMAIN polls : reports[i] \in SUBSET R, PollReturns(reports)
  PROVE  /\ polls' \in Seq(EntriesOf(P, F, R)) /\ Alike(polls, polls') /\ socksToHandle' \in Nat
         /\ \A pd : WillWatch(pd)' <=> WillWatch(pd)
<1>1. SetsRevents(polls, polls', R)
  BY DEF SetsRevents, PollReturns
<1>2. /\ polls' \in Seq(EntriesOf(P, F, R)) /\ Alike(polls, polls')
      /\ \A pd : HasOut(polls', pd) <=> HasOut(polls, pd)
  BY <1>1, ReventsWritten
<1>3. \A pd : Watches(polls', updates', pd) <=> Watches(polls, updates, pd)
  BY <1>2 DEF Watches, PollReturns
<1>4. socksToHandle' \in Nat
  <2>1. DOMAIN polls = 1..Len(polls) /\ Len(polls) \in Nat
    BY LenProperties
  <2>2. IsFiniteSet(DOMAIN polls)
    BY <2>1, FS_Interval
  <2>3. IsFiniteSet({i \in DOMAIN polls : reports[i] # {}})
    BY <2>2, FS_Subset
  <2> QED
    BY <2>3, FS_CardinalityType DEF PollReturns
<1> QED
  BY <1>2, <1>3, <1>4, WatchNow, WatchNext

\* The end of the loop changes nothing about the entries either.
LEMMA ScanDoneKeeps ==
  ASSUME NEW P, NEW F, NEW R, polls \in Seq(EntriesOf(P, F, R)), ScanDone
  PROVE  /\ polls' \in Seq(EntriesOf(P, F, R)) /\ Alike(polls, polls')
         /\ \A pd : WillWatch(pd)' <=> WillWatch(pd)
<1>1. SetsRevents(polls, polls', R)
  BY DEF SetsRevents, ScanDone
<1>2. /\ polls' \in Seq(EntriesOf(P, F, R)) /\ Alike(polls, polls')
      /\ \A pd : HasOut(polls', pd) <=> HasOut(polls, pd)
  BY <1>1, ReventsWritten
<1>3. \A pd : Watches(polls', updates', pd) <=> Watches(polls, updates, pd)
  BY <1>2 DEF Watches, ScanDone
<1> QED
  BY <1>2, <1>3, WatchNow, WatchNext

\* Nothing is queued and nothing applied.
LEMMA KeepsWatching ==
  ASSUME UNCHANGED <<polls, updates>>
  PROVE  \A pd : WillWatch(pd)' <=> WillWatch(pd)
<1>1. \A pd : Watches(polls', updates', pd) <=> Watches(polls, updates, pd)
  OBVIOUS
<1> QED
  BY <1>1, WatchNow, WatchNext

\* The pipe takes as many bytes as fit.
LEMMA PipeHolds ==
  ASSUME NEW bytes \in 0..PipeSize, NEW times \in Nat
  PROVE  Written(bytes, times) \in 0..PipeSize
<1> DEFINE S == {PipeSize, bytes + times}
<1>1. PipeSize \in Nat
  BY ChatPollAssumption
<1>2. S \subseteq Nat /\ S # {}
  BY <1>1
<1>3. PICK m \in S : \A k \in S : m <= k
  BY <1>2, LeastMember
<1>4. Min(S) \in S /\ \A k \in S : Min(S) <= k
  BY <1>3 DEF Min
<1>5. Written(bytes, times) = Min(S)
  BY DEF Written
<1> QED
  BY <1>1, <1>4, <1>5

\* PollEnqueueUpdate puts the update behind the others.
LEMMA EnqueueKeeps ==
  ASSUME NEW U, NEW u \in U, updates \in Seq(U), pipe \in 0..PipeSize,
         Enqueue(<<u>>), UNCHANGED polls
  PROVE  /\ updates' \in Seq(U) /\ updates' = updates \o <<u>> /\ pipe' \in 0..PipeSize
         /\ \A pd : WillWatch(pd)' <=> IF Touches(u, pd) THEN u.op = "add" ELSE WillWatch(pd)
<1>1. updates' = updates \o <<u>> /\ pipe' = Written(pipe, 1)
  BY DEF Enqueue
<1>2. updates' \in Seq(U)
  BY <1>1, ConcatProperties
<1>3. pipe' \in 0..PipeSize
  BY <1>1, PipeHolds
<1>4. \A pd : Watches(polls, updates \o <<u>>, pd) <=>
                IF Touches(u, pd) THEN u.op = "add" ELSE Watches(polls, updates, pd)
  BY AppendWatches
<1>5. \A pd : Watches(polls', updates', pd) <=>
                IF Touches(u, pd) THEN u.op = "add" ELSE Watches(polls, updates, pd)
  BY <1>1, <1>4
<1> QED
  BY <1>1, <1>2, <1>3, <1>5, WatchNow, WatchNext

\* ReadPipe takes bytes out.
LEMMA ReadPipeKeeps ==
  ASSUME pipe \in 0..PipeSize, ReadPipe
  PROVE  pipe' \in 0..PipeSize
<1>1. PipeSize \in Nat /\ ReadSize \in Nat
  BY ChatPollAssumption
<1>2. pipe' = IF pipe > ReadSize THEN pipe - ReadSize ELSE 0
  BY DEF ReadPipe
<1>3. CASE pipe > ReadSize
  BY <1>1, <1>2, <1>3
<1>4. CASE ~ (pipe > ReadSize)
  BY <1>1, <1>2, <1>4
<1> QED
  BY <1>3, <1>4

\* The entry the loop comes to is one it has not looked at.
LEMMA NextIsAhead ==
  ASSUME NEW E, polls \in Seq(E), cursor \in Nat \ {0}, Pending # {}
  PROVE  Next_i \in DOMAIN polls /\ Next_i >= cursor
<1>1. DOMAIN polls = 1..Len(polls) /\ Len(polls) \in Nat
  BY LenProperties
<1>2. Pending \subseteq Nat /\ Pending \subseteq DOMAIN polls /\ \A i \in Pending : i >= cursor
  BY <1>1 DEF Pending
<1>3. PICK m \in Pending : \A k \in Pending : m <= k
  BY <1>2, LeastMember
<1>4. Next_i \in Pending
  BY <1>3 DEF Next_i, Min
<1> QED
  BY <1>2, <1>4

\* The loop calls the block of an entry.
LEMMA CallsEntry ==
  ASSUME NEW E, polls \in Seq(E), cursor \in Nat \ {0}, socksToHandle \in Nat,
         NEW pd, Calls(pd)
  PROVE  /\ Next_i \in DOMAIN polls /\ polls[Next_i].pd = pd
         /\ cursor' \in Nat \ {0} /\ socksToHandle' \in Nat
<1>1. DOMAIN polls = 1..Len(polls) /\ Len(polls) \in Nat
  BY LenProperties
<1>2. Next_i \in DOMAIN polls
  BY NextIsAhead DEF Calls
<1> QED
  BY <1>1, <1>2 DEF Calls
==============================================================================
