--------------------------- MODULE ChatClientProofs ---------------------------
(***************************************************************************)
(* Proofs about ChatClient: LinesInOrder, WatchedWhileBuffered and         *)
(* DiesForAReason hold for every number of lines and every size of the     *)
(* pipe and of the kernel's buffers.                                       *)
(***************************************************************************)
EXTENDS ChatClient, ChatPollProofs

------------------------------------------------------------------------------
(* From one sequence to the next. *)

\* A part of a sequence, between two of its positions.
LEMMA SubSeqShape ==
  ASSUME NEW S, NEW seq \in Seq(S), NEW m \in Nat \ {0}, NEW n \in Nat, n <= Len(seq),
         m <= n + 1
  PROVE  /\ SubSeq(seq, m, n) \in Seq(S)
         /\ Len(SubSeq(seq, m, n)) = n - m + 1
         /\ \A i \in 1..(n - m + 1) : SubSeq(seq, m, n)[i] = seq[m + i - 1]
<1>1. \A i \in m..n : seq[i] \in S
  BY LenProperties, ElementOfSeq
<1> QED
  BY <1>1, SubSeqProperties

\* The first positions of a sequence.
LEMMA FirstPart ==
  ASSUME NEW S, NEW seq \in Seq(S), NEW n \in Nat, n <= Len(seq)
  PROVE  /\ SubSeq(seq, 1, n) \in Seq(S) /\ Len(SubSeq(seq, 1, n)) = n
         /\ \A i \in 1..n : SubSeq(seq, 1, n)[i] = seq[i]
<1>1. n - 1 + 1 = n /\ \A i \in 1..n : 1 + i - 1 = i
  OBVIOUS
<1> QED
  BY <1>1, SubSeqShape

\* What is behind them.
LEMMA Rest ==
  ASSUME NEW S, NEW seq \in Seq(S), NEW n \in Nat, n <= Len(seq)
  PROVE  /\ SubSeq(seq, n + 1, Len(seq)) \in Seq(S)
         /\ Len(SubSeq(seq, n + 1, Len(seq))) = Len(seq) - n
         /\ \A i \in 1..(Len(seq) - n) : SubSeq(seq, n + 1, Len(seq))[i] = seq[n + i]
<1> DEFINE m == n + 1
<1> DEFINE l == Len(seq)
<1>1. l \in Nat /\ l = Len(seq) /\ m \in Nat \ {0} /\ m <= l + 1
  BY LenProperties
<1>2. l - m + 1 = l - n /\ \A i \in 1..(l - n) : m + i - 1 = n + i
  BY <1>1
<1> HIDE DEF m, l
<1>3. /\ SubSeq(seq, m, l) \in Seq(S)
      /\ Len(SubSeq(seq, m, l)) = l - m + 1
      /\ \A i \in 1..(l - m + 1) : SubSeq(seq, m, l)[i] = seq[m + i - 1]
  BY <1>1, SubSeqShape
<1>4. /\ SubSeq(seq, m, l) \in Seq(S)
      /\ Len(SubSeq(seq, m, l)) = l - n
      /\ \A i \in 1..(l - n) : SubSeq(seq, m, l)[i] = seq[n + i]
  BY <1>2, <1>3
<1> QED
  BY <1>4 DEF m, l

\* A sequence is what its first positions and the others make together.
LEMMA SplitSeq ==
  ASSUME NEW S, NEW seq \in Seq(S), NEW n \in Nat, n <= Len(seq)
  PROVE  seq = SubSeq(seq, 1, n) \o SubSeq(seq, n + 1, Len(seq))
<1> DEFINE s1 == SubSeq(seq, 1, n)
<1> DEFINE s2 == SubSeq(seq, n + 1, Len(seq))
<1>1. Len(seq) \in Nat
  BY LenProperties
<1>2. s1 \in Seq(S) /\ Len(s1) = n /\ \A i \in 1..n : s1[i] = seq[i]
  BY FirstPart
<1>3. s2 \in Seq(S) /\ Len(s2) = Len(seq) - n /\ \A i \in 1..(Len(seq) - n) : s2[i] = seq[n + i]
  BY Rest
<1> HIDE DEF s1, s2
<1>4. /\ s1 \o s2 \in Seq(S) /\ Len(s1 \o s2) = Len(seq)
      /\ \A i \in 1..Len(seq) : (s1 \o s2)[i] = IF i <= n THEN s1[i] ELSE s2[i - n]
  <2>1. Len(s1) + Len(s2) = Len(seq)
    BY <1>1, <1>2, <1>3
  <2> QED
    BY <1>2, <1>3, <2>1, ConcatProperties
<1>5. \A i \in 1..Len(seq) : (s1 \o s2)[i] = seq[i]
  <2> SUFFICES ASSUME NEW i \in 1..Len(seq) PROVE (s1 \o s2)[i] = seq[i]
    OBVIOUS
  <2>1. CASE i <= n
    BY <1>1, <1>2, <1>4, <2>1
  <2>2. CASE ~ (i <= n)
    <3>1. i - n \in 1..(Len(seq) - n) /\ n + (i - n) = i
      BY <1>1, <2>2
    <3> QED
      BY <1>3, <1>4, <2>2, <3>1
  <2> QED
    BY <2>1, <2>2
<1>6. s1 \o s2 = seq
  BY <1>1, <1>4, <1>5, SeqEqual
<1> QED
  BY <1>6 DEF s1, s2

\* Concatenation of three sequences, without brackets.
LEMMA Regroup ==
  ASSUME NEW S, NEW a \in Seq(S), NEW b \in Seq(S), NEW c \in Seq(S)
  PROVE  (a \o b) \o c = a \o (b \o c)
  BY ConcatAssociative

\* c may be counted to what is before it or to what comes next.
IsBetween(a, b, c, d) == (a \o (b \o c)) \o d = (a \o b) \o (c \o d)

\* It may, whatever the four sequences are.
LEMMA Between ==
  ASSUME NEW S, NEW a \in Seq(S), NEW b \in Seq(S), NEW c \in Seq(S), NEW d \in Seq(S)
  PROVE  IsBetween(a, b, c, d)
<1>1. a \o b \in Seq(S)
  BY ConcatProperties
<1>2. ((a \o b) \o c) \o d = (a \o b) \o (c \o d)
  BY <1>1, ConcatAssociative, SMTT(30)
<1>3. (a \o b) \o c = a \o (b \o c)
  BY Regroup, SMTT(30)
<1> QED
  BY <1>2, <1>3 DEF IsBetween

\* What is taken from the front of c and put behind b stays between them.
IsPassedOn(a, b, c, n) == (a \o (b \o SubSeq(c, 1, n))) \o SubSeq(c, n + 1, Len(c)) = (a \o b) \o c

\* It does, whatever the three sequences are.
LEMMA PassOn ==
  ASSUME NEW S, NEW a \in Seq(S), NEW b \in Seq(S), NEW c \in Seq(S),
         NEW n \in Nat, n <= Len(c)
  PROVE  IsPassedOn(a, b, c, n)
<1> DEFINE c1 == SubSeq(c, 1, n)
<1> DEFINE c2 == SubSeq(c, n + 1, Len(c))
<1>1. c1 \in Seq(S) /\ c2 \in Seq(S)
  BY FirstPart, Rest
<1>2. c = c1 \o c2
  BY SplitSeq
<1> HIDE DEF c1, c2
<1>3. IsBetween(a, b, c1, c2)
  BY <1>1, Between
<1> QED
  BY <1>2, <1>3 DEF c1, c2, IsBetween, IsPassedOn

\* What is appended to b is appended to a and b.
IsAppended(a, b, e) == a \o Append(b, e) = Append(a \o b, e)

\* It is, whatever they are.
LEMMA AppendToConcat ==
  ASSUME NEW S, NEW a \in Seq(S), NEW b \in Seq(S), NEW e \in S
  PROVE  IsAppended(a, b, e)
<1>1. a \o b \in Seq(S) /\ <<e>> \in Seq(S)
  BY ConcatProperties
<1>2. Append(b, e) = b \o <<e>> /\ Append(a \o b, e) = (a \o b) \o <<e>>
  BY <1>1, AppendIsConcat
<1> QED
  BY <1>1, <1>2, ConcatAssociative DEF IsAppended

\* The head of b may as well be the last of a.
LEMMA HandOver ==
  ASSUME NEW S, NEW a \in Seq(S), NEW b \in Seq(S), b # <<>>
  PROVE  Append(a, Head(b)) \o Tail(b) = a \o b
<1>1. Head(b) \in S /\ Tail(b) \in Seq(S) /\ <<Head(b)>> \in Seq(S)
  BY HeadTailProperties
<1>2. b = <<Head(b)>> \o Tail(b)
  BY HeadAndTail
<1>3. Append(a, Head(b)) = a \o <<Head(b)>>
  BY <1>1, AppendIsConcat
<1> QED
  BY <1>1, <1>2, <1>3, ConcatAssociative

------------------------------------------------------------------------------
(* The types, in parts. *)

Reports == {"in", "out", "hup", "error"}
Ops     == {"register", "add", "remove event"}

\* The entries and the updates of ChatPollProofs.
LEMMA Shapes == Entries = EntriesOf(Descriptors, Handles, Reports) /\ Updates = UpdatesOf(Ops, Descriptors, Handles)
  BY DEF Entries, EntriesOf, Updates, UpdatesOf, Reports, Ops

\* The variables of the poll.
PollTypes ==
  /\ polls \in Seq(Entries) /\ updates \in Seq(Updates)
  /\ cursor \in Nat \ {0} /\ socksToHandle \in Nat
  /\ pipe \in 0..PipeSize
  /\ thread \in {"start", "read", "drain", "poll", "read again", "drain again", "scan",
                 "send", "dead"}

\* Those of the client, the GUI and the connection.
ClientTypes ==
  /\ main \in {"connect", "register", "assign", "sleep", "ended"}
  /\ assigned \in 0..3
  /\ socket \in {"connection", "stdin"} /\ keepRunning \in BOOLEAN
  /\ gui \in {"runs", "gone"} /\ wire \in {"none", "open", "closed", "reset"}

\* Those that hold or count lines.
LineTypes ==
  /\ fromGui \in Lines /\ outBuffer \in Lines /\ toServer \in Lines /\ received \in Lines
  /\ toClient \in Lines /\ inBuffer \in Lines /\ shown \in Lines
  /\ Len(toServer) <= ServerRoom /\ Len(toClient) <= ClientRoom
  /\ typed \in 0..MaxTyped /\ told \in Nat /\ owed \in Nat /\ serverSends \in BOOLEAN

\* The lengths of sequences of lines.
LEMMA LineLength == \A s \in Lines : Len(s) \in Nat
  BY LenProperties DEF Lines

\* The numbers that bound the others.
LEMMA BoundsAreNumbers ==
  MaxTyped \in Nat /\ MaxTold \in Nat /\ ServerRoom \in Nat /\ ClientRoom \in Nat
  BY ChatClientAssumption

\* Neither part is more than the whole.
LEMMA PartsAreLess == \A a, b, c \in Nat : a + b <= c => a <= c /\ b <= c
  OBVIOUS

\* The type invariant gives the parts.
LEMMA PartsOfTypes == InvTypes => PollTypes /\ ClientTypes /\ LineTypes
<1> SUFFICES ASSUME InvTypes PROVE PollTypes /\ ClientTypes /\ LineTypes
  OBVIOUS
<1>1. PollTypes /\ ClientTypes
  BY DEF InvTypes, TypeOK, PollTypes, ClientTypes
<1>2. {fromGui, outBuffer, toServer, received, toClient, inBuffer, shown} \subseteq Lines
  BY DEF InvTypes
<1>3. /\ Len(toServer) <= ServerRoom /\ Len(toClient) <= ClientRoom
      /\ typed \in 0..MaxTyped /\ told \in 0..MaxTold /\ owed \in 0..MaxTold
      /\ serverSends \in BOOLEAN
  BY DEF InvTypes, TypeOK
<1>4. told \in Nat /\ owed \in Nat
  BY <1>3, BoundsAreNumbers
<1>5. LineTypes
  BY <1>2, <1>3, <1>4 DEF LineTypes
<1> QED
  BY <1>1, <1>5

\* An entry is one of a descriptor.
LEMMA EntryDescriptors ==
  ASSUME NEW ps \in Seq(Entries)
  PROVE  \A i \in DOMAIN ps : ps[i].pd \in Descriptors
<1>1. \A i \in DOMAIN ps : ps[i] \in Entries
  BY LenProperties, ElementOfSeq
<1> QED
  BY <1>1 DEF Entries

\* The parts and the bounds of the numbers of lines give it back.
LEMMA TypesOfParts == PollTypes /\ ClientTypes /\ LineTypes /\ InvLines => InvTypes
<1> SUFFICES ASSUME PollTypes, ClientTypes, LineTypes, InvLines PROVE InvTypes
  OBVIOUS
<1>1. \A i \in DOMAIN polls : polls[i].pd \in {PipePd, "socket", "gui in", "gui out"}
  BY EntryDescriptors DEF PollTypes, Descriptors
<1>2. /\ Len(fromGui) \in Nat /\ Len(outBuffer) \in Nat /\ Len(toServer) \in Nat
      /\ Len(received) \in Nat /\ Len(toClient) \in Nat /\ Len(inBuffer) \in Nat
      /\ Len(shown) \in Nat /\ typed \in 0..MaxTyped /\ told \in Nat /\ owed \in Nat
  BY LineLength DEF LineTypes
<1>3. /\ Len(received) + Len(toServer) + Len(outBuffer) + Len(fromGui) <= typed
      /\ Len(shown) + Len(inBuffer) + Len(toClient) <= told
      /\ told + owed <= MaxTold
  BY DEF InvLines
<1>4. Len(outBuffer) <= MaxTyped /\ Len(fromGui) <= MaxTyped
  BY ONLY <1>2, <1>3, BoundsAreNumbers
<1>5. Len(inBuffer) <= MaxTold /\ told \in 0..MaxTold /\ owed \in 0..MaxTold
  <2>1. told <= MaxTold /\ owed <= MaxTold
    <3>1. told \in Nat /\ owed \in Nat /\ told + owed <= MaxTold /\ MaxTold \in Nat
      BY <1>2, <1>3, BoundsAreNumbers
    <3> QED
      BY ONLY <3>1, PartsAreLess
  <2>2. Len(inBuffer) <= told
    BY ONLY <1>2, <1>3
  <2> QED
    BY ONLY <1>2, <2>1, <2>2, BoundsAreNumbers
<1>6. TypeOK
  BY <1>1, <1>4, <1>5 DEF TypeOK, PollTypes, ClientTypes, LineTypes
<1> QED
  BY <1>6 DEF InvTypes, PollTypes, LineTypes

\* The same after a step.
LEMMA TypesOfPartsNext == PollTypes' /\ ClientTypes' /\ LineTypes' /\ InvLines' => InvTypes'
<1> SUFFICES ASSUME PollTypes', ClientTypes', LineTypes', InvLines' PROVE InvTypes'
  OBVIOUS
<1>1. \A i \in DOMAIN polls' : polls'[i].pd \in {PipePd, "socket", "gui in", "gui out"}
  BY EntryDescriptors DEF PollTypes, Descriptors
<1>2. /\ Len(fromGui') \in Nat /\ Len(outBuffer') \in Nat /\ Len(toServer') \in Nat
      /\ Len(received') \in Nat /\ Len(toClient') \in Nat /\ Len(inBuffer') \in Nat
      /\ Len(shown') \in Nat /\ typed' \in 0..MaxTyped /\ told' \in Nat /\ owed' \in Nat
  BY LineLength DEF LineTypes
<1>3. /\ Len(received') + Len(toServer') + Len(outBuffer') + Len(fromGui') <= typed'
      /\ Len(shown') + Len(inBuffer') + Len(toClient') <= told'
      /\ told' + owed' <= MaxTold
  BY DEF InvLines
<1>4. Len(outBuffer') <= MaxTyped /\ Len(fromGui') <= MaxTyped
  BY ONLY <1>2, <1>3, BoundsAreNumbers, SMTT(30)
<1>5. Len(inBuffer') <= MaxTold /\ told' \in 0..MaxTold /\ owed' \in 0..MaxTold
  <2>1. told' <= MaxTold /\ owed' <= MaxTold
    <3>1. told' \in Nat /\ owed' \in Nat /\ told' + owed' <= MaxTold /\ MaxTold \in Nat
      BY <1>2, <1>3, BoundsAreNumbers
    <3> QED
      BY ONLY <3>1, PartsAreLess
  <2>2. Len(inBuffer') <= told'
    BY ONLY <1>2, <1>3
  <2> QED
    BY ONLY <1>2, <2>1, <2>2, BoundsAreNumbers
<1>6. TypeOK'
  BY <1>1, <1>4, <1>5 DEF TypeOK, PollTypes, ClientTypes, LineTypes
<1> QED
  BY <1>6 DEF InvTypes, PollTypes, LineTypes

------------------------------------------------------------------------------
(* The numbers of the lines. *)

\* They are as many as there are.
LEMMA NumbersShape ==
  ASSUME NEW n \in Nat
  PROVE  /\ Numbers(n) \in Lines /\ Len(Numbers(n)) = n
         /\ \A i \in 1..n : Numbers(n)[i] = i
<1>1. Numbers(n) \in [1..n -> Nat]
  BY DEF Numbers
<1>2. Numbers(n) \in Lines
  BY <1>1, SeqDef DEF Lines
<1>3. DOMAIN Numbers(n) = 1..n
  BY DEF Numbers
<1>4. Len(Numbers(n)) = n
  BY <1>2, <1>3, LenProperties DEF Lines
<1> QED
  BY <1>2, <1>4 DEF Numbers

\* The next line has the next number.
LEMMA NextNumber ==
  ASSUME NEW n \in Nat
  PROVE  Append(Numbers(n), n + 1) = Numbers(n + 1)
<1>1. /\ Numbers(n) \in Seq(Nat) /\ Len(Numbers(n)) = n /\ \A i \in 1..n : Numbers(n)[i] = i
      /\ Numbers(n + 1) \in Seq(Nat) /\ Len(Numbers(n + 1)) = n + 1
      /\ \A i \in 1..(n + 1) : Numbers(n + 1)[i] = i
  BY NumbersShape DEF Lines
<1> DEFINE s == Append(Numbers(n), n + 1)
<1>2. /\ s \in Seq(Nat) /\ Len(s) = n + 1
      /\ \A i \in 1..n : s[i] = i
      /\ s[n + 1] = n + 1
  BY <1>1, AppendProperties
<1> HIDE DEF s
<1>3. \A i \in 1..(n + 1) : s[i] = Numbers(n + 1)[i]
  BY <1>1, <1>2
<1>4. s = Numbers(n + 1)
  BY <1>1, <1>2, <1>3, SeqEqual
<1> QED
  BY <1>4 DEF s

\* The first of them are numbered from 1 as well.
LEMMA FirstNumbers ==
  ASSUME NEW s \in Lines, NEW t \in Lines, NEW n \in Nat, s \o t = Numbers(n)
  PROVE  s = Numbers(Len(s)) /\ n = Len(s) + Len(t)
<1>1. /\ Len(s) \in Nat /\ Len(t) \in Nat
      /\ Len(s \o t) = Len(s) + Len(t)
      /\ \A i \in 1..(Len(s) + Len(t)) : (s \o t)[i] = IF i <= Len(s) THEN s[i] ELSE t[i - Len(s)]
  BY ConcatProperties, LenProperties DEF Lines
<1>2. Len(Numbers(n)) = n /\ \A i \in 1..n : Numbers(n)[i] = i
  BY NumbersShape
<1>3. n = Len(s) + Len(t)
  BY <1>1, <1>2
<1> DEFINE l == Len(s)
<1>4. Numbers(l) \in Lines /\ Len(Numbers(l)) = l /\ \A i \in 1..l : Numbers(l)[i] = i
  BY <1>1, NumbersShape
<1>5. \A i \in 1..l : s[i] = Numbers(l)[i]
  BY <1>1, <1>2, <1>3, <1>4
<1>6. s = Numbers(l)
  BY <1>4, <1>5, SeqEqual DEF Lines
<1> QED
  BY <1>3, <1>6

------------------------------------------------------------------------------
(* Who is registered.  D are the descriptors PollRegister was called for. *)

Known == {pd \in Descriptors : Registered(pd)}

\* An update of the queue.
Fits(ps, u, D) ==
  IF u.op = "register"
  THEN u.pd \in D /\ "out" \notin u.events /\ \A i \in DOMAIN ps : ps[i].pd # u.pd
  ELSE u.events = {"out"}

\* No second one registers the same descriptor.
RegisterOnce(us) ==
  \A k, m \in DOMAIN us :
    us[k].op = "register" /\ us[m].op = "register" /\ us[m].pd = us[k].pd => m = k

\* InvRegistered, of any entries and updates.
Registrable(ps, us, D) ==
  /\ \A i \in DOMAIN ps : ps[i].pd \in D
  /\ Unique(ps)
  /\ \A k \in DOMAIN us : Fits(ps, us[k], D)
  /\ RegisterOnce(us)

\* An update is one of a descriptor.
LEMMA UpdateDescriptors ==
  ASSUME NEW us \in Seq(Updates)
  PROVE  \A k \in DOMAIN us : us[k] \in Updates /\ us[k].pd \in Descriptors
<1>1. \A k \in DOMAIN us : us[k] \in Updates
  BY LenProperties, ElementOfSeq
<1> QED
  BY <1>1 DEF Updates

\* It is InvRegistered.
LEMMA RegistrableNow ==
  ASSUME PollTypes
  PROVE  InvRegistered <=> Registrable(polls, updates, Known)
<1>1. /\ \A i \in DOMAIN polls : polls[i].pd \in Descriptors
      /\ \A k \in DOMAIN updates : updates[k].pd \in Descriptors
  BY EntryDescriptors, UpdateDescriptors DEF PollTypes
<1> QED
  BY <1>1 DEF InvRegistered, Registrable, Fits, RegisterOnce, Unique, Known, IndexOf

\* And after a step.
LEMMA RegistrableNext ==
  ASSUME PollTypes'
  PROVE  InvRegistered' <=> Registrable(polls', updates', Known')
<1>1. /\ \A i \in DOMAIN polls' : polls'[i].pd \in Descriptors
      /\ \A k \in DOMAIN updates' : updates'[k].pd \in Descriptors
  BY EntryDescriptors, UpdateDescriptors DEF PollTypes
<1> QED
  BY <1>1 DEF InvRegistered, Registrable, Fits, RegisterOnce, Unique, Known, IndexOf

\* More calls, and other events of the same entries.
LEMMA AlikeRegistrable ==
  ASSUME NEW ps, NEW us, NEW D, NEW new, NEW D2, Registrable(ps, us, D), Alike(ps, new),
         D \subseteq D2
  PROVE  Registrable(new, us, D2)
  BY DEF Registrable, Alike, Unique, Fits

\* Fewer updates.
LEMMA TailRegistrable ==
  ASSUME NEW ps, NEW us \in Seq(Updates), us # <<>>, NEW D, Registrable(ps, us, D)
  PROVE  Registrable(ps, Tail(us), D)
<1>1. /\ Len(us) \in Nat /\ DOMAIN us = 1..Len(us)
      /\ Tail(us) \in Seq(Updates) /\ Len(Tail(us)) = Len(us) - 1
      /\ \A i \in 1..Len(Tail(us)) : Tail(us)[i] = us[i + 1]
  BY HeadTailProperties, LenProperties, EmptySeq
<1>2. DOMAIN Tail(us) = 1..(Len(us) - 1)
  BY <1>1, LenProperties
<1>3. \A i \in DOMAIN Tail(us) : i \in Nat /\ i + 1 \in DOMAIN us /\ Tail(us)[i] = us[i + 1]
  BY <1>1, <1>2
<1>4. \A k \in DOMAIN Tail(us) : Fits(ps, Tail(us)[k], D)
  BY <1>3 DEF Registrable
<1>5. RegisterOnce(Tail(us))
  <2> SUFFICES ASSUME NEW k \in DOMAIN Tail(us), NEW m \in DOMAIN Tail(us),
                      Tail(us)[k].op = "register", Tail(us)[m].op = "register",
                      Tail(us)[m].pd = Tail(us)[k].pd
               PROVE  m = k
    BY DEF RegisterOnce
  <2>1. m + 1 = k + 1
    BY <1>3 DEF Registrable, RegisterOnce
  <2> QED
    BY <1>3, <2>1
<1> QED
  BY <1>4, <1>5 DEF Registrable

\* One more update.
LEMMA AppendShape ==
  ASSUME NEW us \in Seq(Updates), NEW u \in Updates
  PROVE  /\ DOMAIN (us \o <<u>>) = DOMAIN us \cup {Len(us) + 1} /\ Len(us) + 1 \notin DOMAIN us
         /\ \A k \in DOMAIN us : (us \o <<u>>)[k] = us[k]
         /\ (us \o <<u>>)[Len(us) + 1] = u
<1>1. us \o <<u>> = Append(us, u)
  BY AppendIsConcat
<1>2. /\ Append(us, u) \in Seq(Updates) /\ Len(Append(us, u)) = Len(us) + 1
      /\ \A i \in 1..Len(us) : Append(us, u)[i] = us[i]
      /\ Append(us, u)[Len(us) + 1] = u
  BY AppendProperties
<1>3. /\ Len(us) \in Nat /\ DOMAIN us = 1..Len(us)
      /\ DOMAIN Append(us, u) = 1..(Len(us) + 1)
  BY <1>2, LenProperties
<1> QED
  BY <1>1, <1>2, <1>3

\* A change of events.
LEMMA ChangeRegistrable ==
  ASSUME NEW ps, NEW us \in Seq(Updates), NEW u \in Updates, NEW D, Registrable(ps, us, D),
         u.op # "register", u.events = {"out"}
  PROVE  Registrable(ps, us \o <<u>>, D)
<1> DEFINE q == us \o <<u>>
<1>1. /\ DOMAIN q = DOMAIN us \cup {Len(us) + 1}
      /\ \A k \in DOMAIN us : q[k] = us[k]
      /\ q[Len(us) + 1] = u
  BY AppendShape
<1> HIDE DEF q
<1>2. \A k \in DOMAIN q : Fits(ps, q[k], D)
  BY <1>1 DEF Registrable, Fits
<1>3. RegisterOnce(q)
  BY <1>1 DEF Registrable, RegisterOnce
<1> QED
  BY <1>2, <1>3 DEF Registrable, q

\* The registration of a descriptor that was not registered.
LEMMA NewRegistrable ==
  ASSUME NEW ps, NEW us \in Seq(Updates), NEW u \in Updates, NEW D, NEW D2,
         Registrable(ps, us, D), D \subseteq D2,
         u.op = "register", u.pd \in D2 \ D, "out" \notin u.events
  PROVE  Registrable(ps, us \o <<u>>, D2)
<1> DEFINE q == us \o <<u>>
<1>1. /\ DOMAIN q = DOMAIN us \cup {Len(us) + 1} /\ Len(us) + 1 \notin DOMAIN us
      /\ \A k \in DOMAIN us : q[k] = us[k]
      /\ q[Len(us) + 1] = u
  BY AppendShape
<1> HIDE DEF q
<1>2. \A k \in DOMAIN q : Fits(ps, q[k], D2)
  BY <1>1 DEF Registrable, Fits
<1>3. \A k \in DOMAIN us : us[k].op = "register" => us[k].pd # u.pd
  BY DEF Registrable, Fits
<1>4. RegisterOnce(q)
  BY <1>1, <1>3 DEF Registrable, RegisterOnce
<1> QED
  BY <1>2, <1>4 DEF Registrable, q

\* It becomes an entry.
LEMMA EntryRegistrable ==
  ASSUME NEW ps \in Seq(Entries), NEW us \in Seq(Updates), us # <<>>, NEW D,
         Registrable(ps, us, D), Head(us).op = "register", NEW new, AddsEntry(ps, new, Head(us))
  PROVE  Registrable(new, Tail(us), D)
<1>1. /\ Len(us) \in Nat \ {0} /\ DOMAIN us = 1..Len(us) /\ Head(us) = us[1]
      /\ Tail(us) \in Seq(Updates) /\ Len(Tail(us)) = Len(us) - 1
      /\ \A i \in 1..Len(Tail(us)) : Tail(us)[i] = us[i + 1]
  BY HeadTailProperties, LenProperties, EmptySeq
<1>2. DOMAIN Tail(us) = 1..(Len(us) - 1) /\ 1 \in DOMAIN us
  BY <1>1, LenProperties
<1>3. \A i \in DOMAIN Tail(us) : i + 1 \in DOMAIN us /\ i + 1 # 1 /\ Tail(us)[i] = us[i + 1]
  BY <1>1, <1>2
<1> DEFINE l == Len(ps) + 1
<1>4. /\ \A i \in DOMAIN new : i \in DOMAIN ps \/ i = l
      /\ \A i \in DOMAIN ps : new[i] = ps[i]
      /\ new[l].pd = us[1].pd
  BY <1>1 DEF AddsEntry
<1> HIDE DEF l
<1>5. us[1].pd \in D /\ \A i \in DOMAIN ps : ps[i].pd # us[1].pd
  BY <1>1, <1>2 DEF Registrable, Fits
<1>6. \A i \in DOMAIN new : new[i].pd \in D
  BY <1>4, <1>5 DEF Registrable
<1>7. Unique(new)
  BY <1>4, <1>5 DEF Unique, Registrable
<1>8. \A k \in DOMAIN Tail(us) : Fits(new, Tail(us)[k], D)
  <2> SUFFICES ASSUME NEW k \in DOMAIN Tail(us) PROVE Fits(new, Tail(us)[k], D)
    OBVIOUS
  <2>1. Fits(ps, us[k + 1], D)
    BY <1>3 DEF Registrable
  <2>2. us[k + 1].op = "register" => us[k + 1].pd # us[1].pd
    BY <1>1, <1>2, <1>3 DEF Registrable, RegisterOnce
  <2> QED
    BY <1>3, <1>4, <2>1, <2>2 DEF Fits
<1>9. RegisterOnce(Tail(us))
  BY TailRegistrable DEF Registrable
<1> QED
  BY <1>6, <1>7, <1>8, <1>9 DEF Registrable

------------------------------------------------------------------------------
(* From buffer to buffer.  What is typed is received by the server, in the   *)
(* buffer or still with the GUI; what is told is shown, in the buffer or    *)
(* still on its way.                                                       *)

Typed(se, ts, ob, fg, n) == ((se \o ts) \o ob) \o fg = Numbers(n)
Told(sh, ib, tc, n)      == (sh \o ib) \o tc = Numbers(n)

\* What is received are the first lines, and all are somewhere.
LEMMA TypedParts ==
  ASSUME NEW se \in Lines, NEW ts \in Lines, NEW ob \in Lines, NEW fg \in Lines, NEW n \in Nat,
         Typed(se, ts, ob, fg, n)
  PROVE  se = Numbers(Len(se))
<1>1. se \o ts \in Lines /\ (se \o ts) \o ob \in Lines
  BY ConcatProperties DEF Lines
<1>2. (se \o ts) \o ob = Numbers(Len((se \o ts) \o ob))
  BY <1>1, FirstNumbers DEF Typed
<1>3. se \o ts = Numbers(Len(se \o ts))
  BY <1>1, <1>2, FirstNumbers, LineLength
<1> QED
  BY <1>1, <1>3, FirstNumbers, LineLength

\* ClientGUIRead takes lines from the pipe into the buffer.
LEMMA TypedRead ==
  ASSUME NEW se \in Lines, NEW ts \in Lines, NEW ob \in Lines, NEW fg \in Lines, NEW n,
         Typed(se, ts, ob, fg, n), NEW k \in Nat, k <= Len(fg)
  PROVE  Typed(se, ts, ob \o SubSeq(fg, 1, k), SubSeq(fg, k + 1, Len(fg)), n)
<1> DEFINE a == se \o ts
<1>1. a \in Seq(Nat)
  BY ConcatProperties DEF Lines
<1> HIDE DEF a
<1>2. IsPassedOn(a, ob, fg, k)
  BY <1>1, PassOn DEF Lines
<1> QED
  BY <1>2 DEF Typed, IsPassedOn, a

\* send() passes one to the server.
LEMMA TypedSend ==
  ASSUME NEW se \in Lines, NEW ts \in Lines, NEW ob \in Lines, NEW fg \in Lines, NEW n,
         Typed(se, ts, ob, fg, n), ob # <<>>
  PROVE  Typed(se, Append(ts, Head(ob)), Tail(ob), fg, n)
<1> DEFINE a == se \o ts
<1>1. a \in Seq(Nat) /\ Head(ob) \in Nat
  BY ConcatProperties, HeadTailProperties DEF Lines
<1>2. IsAppended(se, ts, Head(ob))
  BY <1>1, AppendToConcat DEF Lines
<1> HIDE DEF a
<1>3. Append(a, Head(ob)) \o Tail(ob) = a \o ob
  BY <1>1, HandOver DEF Lines
<1> QED
  BY <1>2, <1>3 DEF Typed, IsAppended, a

\* The server takes some.
LEMMA TypedServe ==
  ASSUME NEW se \in Lines, NEW ts \in Lines, NEW ob, NEW fg, NEW n,
         Typed(se, ts, ob, fg, n), NEW k \in Nat, k <= Len(ts)
  PROVE  Typed(se \o SubSeq(ts, 1, k), SubSeq(ts, k + 1, Len(ts)), ob, fg, n)
<1> DEFINE t1 == SubSeq(ts, 1, k)
<1> DEFINE t2 == SubSeq(ts, k + 1, Len(ts))
<1>1. t1 \in Seq(Nat) /\ t2 \in Seq(Nat)
  BY FirstPart, Rest DEF Lines
<1>2. ts = t1 \o t2
  BY SplitSeq DEF Lines
<1> HIDE DEF t1, t2
<1>3. (se \o t1) \o t2 = se \o (t1 \o t2)
  <2>1. se \in Seq(Nat)
    BY DEF Lines
  <2> QED
    BY ONLY <1>1, <2>1, Regroup
<1>4. (se \o t1) \o t2 = se \o ts
  BY <1>2, <1>3
<1> QED
  BY <1>4 DEF Typed, t1, t2

\* The GUI types one.
LEMMA TypedType ==
  ASSUME NEW se \in Lines, NEW ts \in Lines, NEW ob \in Lines, NEW fg \in Lines, NEW n \in Nat,
         Typed(se, ts, ob, fg, n)
  PROVE  Typed(se, ts, ob, Append(fg, n + 1), n + 1)
<1> DEFINE a == (se \o ts) \o ob
<1>1. a \in Seq(Nat)
  BY ConcatProperties DEF Lines
<1> HIDE DEF a
<1>2. IsAppended(a, fg, n + 1)
  BY <1>1, AppendToConcat DEF Lines
<1>3. Append(a \o fg, n + 1) = Numbers(n + 1)
  BY NextNumber DEF Typed, a
<1> QED
  BY <1>2, <1>3 DEF Typed, IsAppended, a

\* What was shown and what is in the buffer are the first lines.
LEMMA ToldParts ==
  ASSUME NEW sh \in Lines, NEW ib \in Lines, NEW tc \in Lines, NEW n \in Nat, Told(sh, ib, tc, n)
  PROVE  sh \o ib = Numbers(Len(sh) + Len(ib))
<1>1. sh \o ib \in Lines /\ Len(sh \o ib) = Len(sh) + Len(ib)
  BY ConcatProperties DEF Lines
<1> QED
  BY <1>1, FirstNumbers DEF Told

\* ClientReceive takes lines from the connection into the buffer.
LEMMA ToldReceive ==
  ASSUME NEW sh \in Lines, NEW ib \in Lines, NEW tc \in Lines, NEW n, Told(sh, ib, tc, n),
         NEW k \in Nat, k <= Len(tc)
  PROVE  Told(sh, ib \o SubSeq(tc, 1, k), SubSeq(tc, k + 1, Len(tc)), n)
<1>1. IsPassedOn(sh, ib, tc, k)
  BY PassOn DEF Lines
<1> QED
  BY <1>1 DEF Told, IsPassedOn

\* ClientGUIWrite shows what is in the buffer.
LEMMA ToldWrite ==
  ASSUME NEW sh \in Lines, NEW ib \in Lines, NEW tc, NEW n, Told(sh, ib, tc, n)
  PROVE  Told(sh \o ib, <<>>, tc, n)
<1>1. sh \o ib \in Seq(Nat)
  BY ConcatProperties DEF Lines
<1>2. (sh \o ib) \o <<>> = sh \o ib
  BY <1>1, ConcatEmptySeq
<1> QED
  BY <1>2 DEF Told

\* The server sends one.
LEMMA ToldSend ==
  ASSUME NEW sh \in Lines, NEW ib \in Lines, NEW tc \in Lines, NEW n \in Nat, Told(sh, ib, tc, n)
  PROVE  Told(sh, ib, Append(tc, n + 1), n + 1)
<1> DEFINE a == sh \o ib
<1>1. a \in Seq(Nat)
  BY ConcatProperties DEF Lines
<1> HIDE DEF a
<1>2. IsAppended(a, tc, n + 1)
  BY <1>1, AppendToConcat DEF Lines
<1>3. Append(a \o tc, n + 1) = Numbers(n + 1)
  BY NextNumber DEF Told, a
<1> QED
  BY <1>2, <1>3 DEF Told, IsAppended, a

\* A reset takes what is still on its way.
LEMMA ToldDropped ==
  ASSUME NEW sh \in Lines, NEW ib \in Lines, NEW tc \in Lines, NEW n \in Nat, Told(sh, ib, tc, n)
  PROVE  Told(sh, ib, <<>>, Len(sh) + Len(ib))
<1>1. sh \o ib \in Seq(Nat)
  BY ConcatProperties DEF Lines
<1>2. (sh \o ib) \o <<>> = sh \o ib
  BY <1>1, ConcatEmptySeq
<1> QED
  BY <1>2, ToldParts DEF Told

\* How many lines these are.
Count(sh, ib, tc) == Len(sh) + Len(ib) + Len(tc)

\* The two directions of InvLines.
TypedLines ==
  /\ received = Numbers(Len(received))
  /\ wire \in {"none", "open"} => Typed(received, toServer, outBuffer, fromGui, typed)
  /\ Len(received) + Len(toServer) + Len(outBuffer) + Len(fromGui) <= typed

ToldLines ==
  /\ Told(shown, inBuffer, toClient, Count(shown, inBuffer, toClient))
  /\ wire # "reset" => Count(shown, inBuffer, toClient) = told
  /\ Count(shown, inBuffer, toClient) <= told

\* InvLines is about both and about what the server still owes.
LEMMA DirectionsNow == InvLines <=> TypedLines /\ ToldLines /\ told + owed <= MaxTold
  BY DEF InvLines, TypedLines, ToldLines, Typed, Told, Count

\* The same after a step.
LEMMA DirectionsNext == InvLines' <=> TypedLines' /\ ToldLines' /\ told' + owed' <= MaxTold
  BY DEF InvLines, TypedLines, ToldLines, Typed, Told, Count

------------------------------------------------------------------------------
(* What a step leaves alone. *)

\* The invariant is what its parts are after a step.
LEMMA Together ==
  ASSUME PollTypes', ClientTypes', LineTypes', InvMain', InvRegistered', InvLines', InvWatched'
  PROVE  ClientInv'
  BY TypesOfPartsNext DEF ClientInv

\* What the invariant says.
LEMMA Parts ==
  ASSUME ClientInv
  PROVE  /\ PollTypes /\ ClientTypes /\ LineTypes
         /\ InvMain /\ InvRegistered /\ InvLines /\ InvWatched
  BY PartsOfTypes DEF ClientInv

\* No line moves.
LEMMA LinesStay ==
  ASSUME LineTypes, InvLines, wire' = wire \/ (wire = "none" /\ wire' = "open"),
         UNCHANGED <<fromGui, outBuffer, toServer, received, toClient, inBuffer, shown, typed, told,
                     owed, serverSends>>
  PROVE  LineTypes' /\ InvLines'
<1>1. LineTypes'
  BY DEF LineTypes
<1>2. TypedLines' /\ ToldLines'
  BY DirectionsNow DEF TypedLines, ToldLines, Count
<1>3. told' + owed' <= MaxTold
  BY DirectionsNow
<1> QED
  BY <1>1, <1>2, <1>3, DirectionsNext

\* No buffer and nothing that is watched changes.
LEMMA WatchStays ==
  ASSUME InvWatched, UNCHANGED <<outBuffer, inBuffer>>, \A pd : WillWatch(pd)' <=> WillWatch(pd),
         thread' = "send" => outBuffer # <<>>, thread # "dead"
  PROVE  InvWatched'
  BY DEF InvWatched, WatchedWhileBuffered

\* Nobody is unregistered.
LEMMA KnownGrows ==
  ASSUME ClientTypes, thread' = "start" => thread = "start", assigned' \in {assigned, assigned + 1},
         main = "assign" => (main' = "assign" /\ assigned' = assigned) \/ assigned' = assigned + 1
  PROVE  Known \subseteq Known'
<1>1. assigned \in Nat
  BY DEF ClientTypes
<1>2. ASSUME NEW pd, Registered(pd) PROVE Registered(pd)'
  <2>1. CASE pd = PipePd
    BY <1>2, <2>1 DEF Registered
  <2>2. CASE pd # PipePd
    <3>1. PICK i \in 1..3 : /\ Registrations[i] = pd
                            /\ i <= assigned \/ (i = assigned + 1 /\ main = "assign")
      BY <1>2, <2>2 DEF Registered
    <3>2. i <= assigned' \/ (i = assigned' + 1 /\ main' = "assign")
      <4>1. CASE assigned' = assigned
        BY <1>1, <3>1, <4>1
      <4>2. CASE assigned' = assigned + 1
        BY <1>1, <3>1, <4>2
      <4> QED
        BY <4>1, <4>2
    <3> QED
      BY <2>2, <3>1, <3>2 DEF Registered
  <2> QED
    BY <2>1, <2>2
<1> QED
  BY <1>2 DEF Known

\* The poll is left alone.
LEMMA PollStays ==
  ASSUME PollTypes, InvRegistered, UNCHANGED pollVars, Known \subseteq Known'
  PROVE  /\ PollTypes' /\ InvRegistered'
         /\ \A pd : WillWatch(pd)' <=> WillWatch(pd)
<1>1. PollTypes' /\ UNCHANGED <<polls, updates>>
  BY DEF PollTypes, pollVars
<1>2. Registrable(polls, updates, Known)
  BY RegistrableNow
<1>3. Alike(polls, polls')
  BY <1>1 DEF Alike
<1>4. Registrable(polls', updates', Known')
  BY <1>1, <1>2, <1>3, AlikeRegistrable
<1>5. \A pd : WillWatch(pd)' <=> WillWatch(pd)
  BY <1>1, KeepsWatching
<1> QED
  BY <1>1, <1>4, <1>5, RegistrableNext

\* The loop goes on, and nothing is queued.
LEMMA QueueStays ==
  ASSUME PollTypes, ClientTypes, InvRegistered, UNCHANGED <<polls, updates, pipe, main, assigned>>,
         cursor' \in Nat \ {0}, socksToHandle' \in Nat, thread' \in {"scan", "send", "dead"}
  PROVE  /\ PollTypes' /\ InvRegistered'
         /\ \A pd : WillWatch(pd)' <=> WillWatch(pd)
<1>1. PollTypes'
  BY DEF PollTypes
<1>2. Registrable(polls, updates, Known)
  BY RegistrableNow
<1>3. Known \subseteq Known'
  BY KnownGrows
<1>4. Alike(polls, polls')
  BY DEF Alike
<1>5. Registrable(polls', updates', Known')
  BY <1>2, <1>3, <1>4, AlikeRegistrable
<1>6. \A pd : WillWatch(pd)' <=> WillWatch(pd)
  BY KeepsWatching
<1> QED
  BY <1>1, <1>5, <1>6, RegistrableNext

\* A change of events is queued.
LEMMA QueueTakes ==
  ASSUME PollTypes, ClientTypes, InvRegistered, NEW u \in Updates, u.op # "register",
         u.events = {"out"}, Enqueue(<<u>>), UNCHANGED <<polls, main, assigned>>,
         cursor' \in Nat \ {0}, socksToHandle' \in Nat, thread' \in {"scan", "send", "dead"}
  PROVE  /\ PollTypes' /\ InvRegistered'
         /\ \A pd : WillWatch(pd)' <=> IF Touches(u, pd) THEN u.op = "add" ELSE WillWatch(pd)
<1>1. /\ updates' \in Seq(Updates) /\ updates' = updates \o <<u>> /\ pipe' \in 0..PipeSize
      /\ \A pd : WillWatch(pd)' <=> IF Touches(u, pd) THEN u.op = "add" ELSE WillWatch(pd)
  BY EnqueueKeeps DEF PollTypes
<1>2. PollTypes'
  BY <1>1 DEF PollTypes
<1>3. Registrable(polls, updates, Known)
  BY RegistrableNow
<1>4. Known \subseteq Known'
  BY KnownGrows
<1>5. Registrable(polls, updates \o <<u>>, Known)
  BY <1>3, ChangeRegistrable DEF PollTypes
<1>6. Alike(polls, polls')
  BY DEF Alike
<1>7. Registrable(polls', updates', Known')
  BY <1>1, <1>4, <1>5, <1>6, AlikeRegistrable
<1> QED
  BY <1>1, <1>2, <1>7, RegistrableNext

\* The updates the blocks queue.
LEMMA Changed ==
  \A pd \in Descriptors :
    /\ AddOut(pd) \in Updates /\ AddOut(pd).op = "add" /\ AddOut(pd).events = {"out"}
    /\ RemoveOut(pd) \in Updates /\ RemoveOut(pd).op = "remove event"
    /\ RemoveOut(pd).events = {"out"}
    /\ \A d : (Touches(AddOut(pd), d) <=> d = pd) /\ (Touches(RemoveOut(pd), d) <=> d = pd)
  BY DEF AddOut, RemoveOut, Update, Updates, Handles, Touches

------------------------------------------------------------------------------
(* The main thread. *)

\* ClientConnect.
LEMMA ConnectsKeeps ==
  ASSUME ClientInv, Running, Connects
  PROVE  ClientInv'
<1>1. /\ PollTypes /\ ClientTypes /\ LineTypes
      /\ InvMain /\ InvRegistered /\ InvLines /\ InvWatched
  BY Parts
<1>2. main = "connect" /\ assigned = 0 /\ wire = "none" /\ assigned' = assigned
  BY <1>1 DEF Connects, InvMain
<1>3. ClientTypes' /\ InvMain'
  BY <1>1, <1>2 DEF ClientTypes, Connects, InvMain
<1>4. UNCHANGED pollVars /\ thread' = thread
  BY DEF Connects, pollVars
<1>5. Known \subseteq Known'
  BY <1>1, <1>2, <1>4, KnownGrows
<1>6. PollTypes' /\ InvRegistered' /\ \A pd : WillWatch(pd)' <=> WillWatch(pd)
  BY <1>1, <1>4, <1>5, PollStays
<1>7. LineTypes' /\ InvLines'
  <2>1. wire' = wire \/ wire' = "open"
    BY DEF Connects
  <2>2. UNCHANGED <<fromGui, outBuffer, toServer, received, toClient, inBuffer, shown, typed, told,
                    owed, serverSends>>
    BY DEF Connects
  <2> QED
    BY <1>1, <1>2, <2>1, <2>2, LinesStay
<1>8. InvWatched'
  <2>1. UNCHANGED <<outBuffer, inBuffer>>
    BY DEF Connects
  <2> QED
    BY <1>1, <1>4, <1>6, <2>1, WatchStays DEF InvWatched, WatchedWhileBuffered, Running
<1> QED
  BY <1>3, <1>6, <1>7, <1>8, Together

\* PollRegister returned.
LEMMA AssignsKeeps ==
  ASSUME ClientInv, Running, Assigns
  PROVE  ClientInv'
<1>1. /\ PollTypes /\ ClientTypes /\ LineTypes
      /\ InvMain /\ InvRegistered /\ InvLines /\ InvWatched
  BY Parts
<1>2. /\ main = "assign" /\ assigned \in 0..2 /\ assigned' = assigned + 1
      /\ main' = IF assigned' = 3 THEN "sleep" ELSE "register"
      /\ UNCHANGED <<pollVars, socket, keepRunning, outBuffer, inBuffer, guiVars, serverVars>>
  BY <1>1 DEF Assigns, InvMain, ClientTypes
<1>3. ClientTypes' /\ InvMain'
  BY <1>1, <1>2 DEF ClientTypes, InvMain, guiVars, serverVars
<1>4. UNCHANGED pollVars /\ thread' = thread
  BY <1>2 DEF pollVars
<1>5. Known \subseteq Known'
  BY <1>1, <1>2, <1>4, KnownGrows
<1>6. PollTypes' /\ InvRegistered' /\ \A pd : WillWatch(pd)' <=> WillWatch(pd)
  BY <1>1, <1>4, <1>5, PollStays
<1>7. LineTypes' /\ InvLines'
  BY <1>1, <1>2, LinesStay DEF guiVars, serverVars
<1>8. InvWatched'
  BY <1>1, <1>2, <1>4, <1>6, WatchStays DEF InvWatched, WatchedWhileBuffered, Running
<1> QED
  BY <1>3, <1>6, <1>7, <1>8, Together

\* ClientMain ends.
LEMMA QuitsKeeps ==
  ASSUME ClientInv, Running, Quits
  PROVE  ClientInv'
<1>1. /\ PollTypes /\ ClientTypes /\ LineTypes
      /\ InvMain /\ InvRegistered /\ InvLines /\ InvWatched
  BY Parts
<1>2. /\ main = "sleep" /\ main' = "ended" /\ gui' = "gone"
      /\ UNCHANGED <<pollVars, assigned, socket, keepRunning, outBuffer, inBuffer, fromGui, typed,
                     shown, serverVars>>
  BY DEF Quits
<1>3. ClientTypes' /\ InvMain'
  BY <1>1, <1>2 DEF ClientTypes, InvMain, serverVars
<1>4. UNCHANGED pollVars /\ thread' = thread
  BY <1>2 DEF pollVars
<1>5. Known \subseteq Known'
  BY <1>1, <1>2, <1>4, KnownGrows
<1>6. PollTypes' /\ InvRegistered' /\ \A pd : WillWatch(pd)' <=> WillWatch(pd)
  BY <1>1, <1>4, <1>5, PollStays
<1>7. LineTypes' /\ InvLines'
  BY <1>1, <1>2, LinesStay DEF serverVars
<1>8. InvWatched'
  BY <1>1, <1>2, <1>4, <1>6, WatchStays DEF InvWatched, WatchedWhileBuffered, Running
<1> QED
  BY <1>3, <1>6, <1>7, <1>8, Together

\* The three registrations.
LEMMA ThreeRegistrations ==
  Registrations[1] = "socket" /\ Registrations[2] = "gui in" /\ Registrations[3] = "gui out"
  BY DEF Registrations

\* Any two are of different descriptors.
LEMMA NoneTwice ==
  ASSUME NEW i \in 1..3
  PROVE  /\ Registrations[i] \in Descriptors \ {PipePd}
         /\ \A m \in 1..3 : Registrations[m] = Registrations[i] => m = i
<1>1. i \in {1, 2, 3} /\ \A m \in 1..3 : m \in {1, 2, 3}
  OBVIOUS
<1> QED
  BY <1>1, ThreeRegistrations, ChatClientAssumption DEF Descriptors

\* The pipe from the GUI comes second.
LEMMA GuiInIsSecond == \A i \in 1..3 : Registrations[i] = "gui in" => i = 2
<1>1. 2 \in 1..3
  OBVIOUS
<1> QED
  BY <1>1, NoneTwice, ThreeRegistrations

\* PollRegister registers what was not registered.
LEMMA RegistersKeeps ==
  ASSUME ClientInv, Running, Registers
  PROVE  ClientInv'
<1>1. /\ PollTypes /\ ClientTypes /\ LineTypes
      /\ InvMain /\ InvRegistered /\ InvLines /\ InvWatched
  BY Parts
<1> DEFINE u == Register(Registering, Registering, Interest)
<1>2. /\ main = "register" /\ main' = "assign" /\ assigned \in 0..2 /\ Enqueue(<<u>>)
      /\ UNCHANGED <<polls, thread, cursor, socksToHandle, assigned, socket, keepRunning,
                     outBuffer, inBuffer, guiVars, serverVars>>
  BY <1>1 DEF Registers, InvMain, ClientTypes
<1>3. ClientTypes' /\ InvMain'
  BY <1>1, <1>2 DEF ClientTypes, InvMain, guiVars, serverVars
<1>4. Known \subseteq Known'
  BY <1>1, <1>2, KnownGrows
<1>5. /\ Registering \in Descriptors \ {PipePd} /\ Registering = Registrations[assigned + 1]
      /\ Interest \in SUBSET {"in"} /\ assigned + 1 \in 1..3
  <2>1. assigned + 1 \in 1..3
    BY <1>2
  <2> QED
    BY <2>1, NoneTwice DEF Registering, Interest
<1>6. /\ u \in Updates /\ u.op = "register" /\ u.pd = Registering /\ "out" \notin u.events
      /\ \A pd : ~ Touches(u, pd)
  BY <1>5 DEF Register, Update, Updates, Handles, Touches
<1>7. Registering \in Known' \ Known
  <2>1. \A i \in 1..3 : Registrations[i] = Registering => i = assigned + 1
    BY <1>5, NoneTwice
  <2>2. ~ Registered(Registering)
    BY <1>2, <1>5, <2>1 DEF Registered
  <2>3. \A pd \in Descriptors \ {PipePd} : pd = Registrations[assigned + 1] => Registered(pd)'
    BY <1>2, <1>5 DEF Registered
  <2> QED
    BY <1>5, <2>2, <2>3 DEF Known
<1> HIDE DEF u
<1>8. /\ updates' \in Seq(Updates) /\ updates' = updates \o <<u>> /\ pipe' \in 0..PipeSize
      /\ \A pd : WillWatch(pd)' <=> WillWatch(pd)
  <2>1. /\ updates' \in Seq(Updates) /\ updates' = updates \o <<u>> /\ pipe' \in 0..PipeSize
        /\ \A pd : WillWatch(pd)' <=> IF Touches(u, pd) THEN u.op = "add" ELSE WillWatch(pd)
    BY <1>1, <1>2, <1>6, EnqueueKeeps DEF PollTypes
  <2> QED
    BY <1>6, <2>1
<1>9. PollTypes'
  BY <1>1, <1>2, <1>8 DEF PollTypes
<1>10. InvRegistered'
  <2>1. Registrable(polls, updates, Known)
    BY <1>1, RegistrableNow
  <2>2. Registrable(polls, updates \o <<u>>, Known')
    BY <1>1, <1>4, <1>6, <1>7, <2>1, NewRegistrable DEF PollTypes
  <2>3. Registrable(polls', updates', Known')
    BY <1>2, <1>8, <2>2
  <2> QED
    BY <1>9, <2>3, RegistrableNext
<1>11. LineTypes' /\ InvLines'
  BY <1>1, <1>2, LinesStay DEF guiVars, serverVars
<1>12. InvWatched'
  BY <1>1, <1>2, <1>8, WatchStays DEF InvWatched, WatchedWhileBuffered, Running
<1> QED
  BY <1>3, <1>9, <1>10, <1>11, <1>12, Together

------------------------------------------------------------------------------
(* The poll thread. *)

\* Nothing but the poll changes, and what will be watched is the same.
LEMMA OnlyThePoll ==
  ASSUME ClientInv, Running, PollTypes', InvRegistered', \A pd : WillWatch(pd)' <=> WillWatch(pd),
         UNCHANGED <<clientVars, guiVars, serverVars>>, thread # "send",
         thread' \notin {"send", "dead"}
  PROVE  ClientInv'
<1>1. ClientTypes /\ LineTypes /\ InvMain /\ InvLines /\ InvWatched
  BY Parts
<1>2. /\ UNCHANGED <<main, assigned, socket, keepRunning, outBuffer, inBuffer>>
      /\ UNCHANGED <<gui, fromGui, typed, shown>>
      /\ UNCHANGED <<wire, toServer, toClient, told, owed, serverSends, received>>
  BY DEF clientVars, guiVars, serverVars
<1>3. ClientTypes' /\ InvMain'
  BY <1>1, <1>2 DEF ClientTypes, InvMain
<1>4. LineTypes' /\ InvLines'
  BY <1>1, <1>2, LinesStay
<1>5. InvWatched'
  BY <1>1, <1>2, WatchStays DEF Running
<1> QED
  BY <1>3, <1>4, <1>5, Together

\* The thread registers the pipe.
LEMMA RegisterPipeKeeps ==
  ASSUME ClientInv, Running, RegisterPipe, UNCHANGED <<clientVars, guiVars, serverVars>>
  PROVE  ClientInv'
<1>1. PollTypes /\ ClientTypes /\ InvRegistered
  BY Parts
<1> DEFINE u == Register(PipePd, PipeFd, {"in"})
<1>2. /\ thread = "start" /\ thread' = "read" /\ Enqueue(<<u>>)
      /\ UNCHANGED <<polls, cursor, socksToHandle>> /\ UNCHANGED <<main, assigned>>
  BY DEF RegisterPipe, clientVars
<1>3. /\ u \in Updates /\ u.op = "register" /\ u.pd = PipePd /\ "out" \notin u.events
      /\ \A pd : ~ Touches(u, pd)
  BY DEF Register, Update, Updates, Handles, Descriptors, Touches
<1>4. PipePd \in Known' \ Known /\ Known \subseteq Known'
  <2>1. Known \subseteq Known'
    BY <1>1, <1>2, KnownGrows
  <2> QED
    BY <1>2, <2>1 DEF Known, Registered, Descriptors
<1> HIDE DEF u
<1>5. /\ updates' \in Seq(Updates) /\ updates' = updates \o <<u>> /\ pipe' \in 0..PipeSize
      /\ \A pd : WillWatch(pd)' <=> WillWatch(pd)
  <2>1. /\ updates' \in Seq(Updates) /\ updates' = updates \o <<u>> /\ pipe' \in 0..PipeSize
        /\ \A pd : WillWatch(pd)' <=> IF Touches(u, pd) THEN u.op = "add" ELSE WillWatch(pd)
    BY <1>1, <1>2, <1>3, EnqueueKeeps DEF PollTypes
  <2> QED
    BY <1>3, <2>1
<1>6. PollTypes'
  BY <1>1, <1>2, <1>5 DEF PollTypes
<1>7. InvRegistered'
  <2>1. Registrable(polls, updates, Known)
    BY <1>1, RegistrableNow
  <2>2. Registrable(polls, updates \o <<u>>, Known')
    BY <1>1, <1>3, <1>4, <2>1, NewRegistrable DEF PollTypes
  <2>3. Registrable(polls', updates', Known')
    BY <1>2, <1>5, <2>2
  <2> QED
    BY <1>6, <2>3, RegistrableNext
<1> QED
  BY <1>2, <1>5, <1>6, <1>7, OnlyThePoll

\* The first update of the queue.
LEMMA FirstUpdate ==
  ASSUME PollTypes, InvRegistered, updates # <<>>
  PROVE  /\ Head(updates) \in Updates /\ Tail(updates) \in Seq(Updates)
         /\ Registrable(polls, updates, Known) /\ Registrable(polls, Tail(updates), Known)
         /\ Fits(polls, Head(updates), Known) /\ Unique(polls)
<1>1. updates \in Seq(Updates)
  BY DEF PollTypes
<1>2. Head(updates) \in Updates /\ Tail(updates) \in Seq(Updates)
  BY <1>1, HeadTailProperties
<1>3. 1 \in DOMAIN updates /\ Head(updates) = updates[1]
  BY <1>1, LenProperties, EmptySeq
<1>4. Registrable(polls, updates, Known)
  BY RegistrableNow
<1>5. Registrable(polls, Tail(updates), Known)
  BY <1>1, <1>4, TailRegistrable
<1> QED
  BY <1>2, <1>3, <1>4, <1>5 DEF Registrable

\* The thread applies a registration.
LEMMA ApplyRegisterKeeps ==
  ASSUME ClientInv, Running, ApplyRegister, UNCHANGED <<clientVars, guiVars, serverVars>>
  PROVE  ClientInv'
<1>1. PollTypes /\ ClientTypes /\ InvRegistered
  BY Parts
<1>2. /\ thread \in {"drain", "drain again"} /\ updates # <<>> /\ Head(updates).op = "register"
      /\ updates' = Tail(updates) /\ UNCHANGED <<pipe, thread, cursor, socksToHandle>>
      /\ UNCHANGED <<main, assigned>>
  BY DEF ApplyRegister, Applying, clientVars
<1>3. /\ Head(updates) \in Updates /\ Tail(updates) \in Seq(Updates)
      /\ Fits(polls, Head(updates), Known) /\ Registrable(polls, updates, Known)
  BY <1>1, <1>2, FirstUpdate
<1>4. "out" \notin Head(updates).events
  BY <1>2, <1>3 DEF Fits
<1>5. /\ polls' \in Seq(Entries) /\ AddsEntry(polls, polls', Head(updates))
      /\ \A pd : WillWatch(pd)' <=> WillWatch(pd)
  BY <1>1, <1>3, <1>4, Shapes, RegisterKeeps DEF PollTypes
<1>6. PollTypes'
  BY <1>1, <1>2, <1>3, <1>5 DEF PollTypes
<1>7. InvRegistered'
  <2>1. Registrable(polls', Tail(updates), Known)
    BY <1>1, <1>2, <1>3, <1>5, EntryRegistrable DEF PollTypes
  <2>2. Known \subseteq Known'
    BY <1>1, <1>2, KnownGrows
  <2>3. Alike(polls', polls')
    BY DEF Alike
  <2>4. Registrable(polls', updates', Known')
    BY <1>2, <2>1, <2>2, <2>3, AlikeRegistrable
  <2> QED
    BY <1>6, <2>4, RegistrableNext
<1> QED
  BY <1>2, <1>5, <1>6, <1>7, OnlyThePoll

\* The thread applies a change of events.
LEMMA ApplyChangeKeeps ==
  ASSUME ClientInv, Running, ApplyAdd \/ ApplyRemoveEvent,
         UNCHANGED <<clientVars, guiVars, serverVars>>
  PROVE  ClientInv'
<1>1. PollTypes /\ ClientTypes /\ InvRegistered
  BY Parts
<1>2. /\ thread \in {"drain", "drain again"} /\ updates # <<>>
      /\ Head(updates).op \in {"add", "remove event"}
      /\ updates' = Tail(updates) /\ UNCHANGED <<pipe, thread, cursor, socksToHandle>>
      /\ UNCHANGED <<main, assigned>>
  BY DEF ApplyAdd, ApplyRemoveEvent, Applying, clientVars
<1>3. /\ Tail(updates) \in Seq(Updates) /\ Fits(polls, Head(updates), Known)
      /\ Registrable(polls, Tail(updates), Known) /\ Unique(polls)
  BY <1>1, <1>2, FirstUpdate
<1>4. Head(updates).events = {"out"}
  BY <1>2, <1>3 DEF Fits
<1>5. /\ polls' \in Seq(Entries) /\ Alike(polls, polls')
      /\ \A pd : WillWatch(pd)' <=> WillWatch(pd)
  <2>1. CASE ApplyAdd
    BY <1>1, <1>4, <2>1, Shapes, AddKeeps DEF PollTypes
  <2>2. CASE ApplyRemoveEvent
    BY <1>1, <1>3, <1>4, <2>2, Shapes, RemoveEventKeeps DEF PollTypes
  <2> QED
    BY <2>1, <2>2
<1>6. PollTypes'
  BY <1>1, <1>2, <1>3, <1>5 DEF PollTypes
<1>7. InvRegistered'
  <2>1. Known \subseteq Known'
    BY <1>1, <1>2, KnownGrows
  <2>2. Registrable(polls', updates', Known')
    BY <1>2, <1>3, <1>5, <2>1, AlikeRegistrable
  <2> QED
    BY <1>6, <2>2, RegistrableNext
<1> QED
  BY <1>2, <1>5, <1>6, <1>7, OnlyThePoll

\* The thread reads the pipe, finds the queue empty, polls or ends the loop.
LEMMA PollGoesOnKeeps ==
  ASSUME ClientInv, Running, PollTypes', Alike(polls, polls'), UNCHANGED updates,
         \A pd : WillWatch(pd)' <=> WillWatch(pd), thread # "send",
         thread' \notin {"start", "send", "dead"}, UNCHANGED <<clientVars, guiVars, serverVars>>
  PROVE  ClientInv'
<1>1. PollTypes /\ ClientTypes /\ InvRegistered
  BY Parts
<1>2. UNCHANGED <<main, assigned>>
  BY DEF clientVars
<1>3. Known \subseteq Known'
  BY <1>1, <1>2, KnownGrows
<1>4. Registrable(polls, updates, Known)
  BY <1>1, RegistrableNow
<1>5. Registrable(polls', updates', Known')
  BY <1>3, <1>4, AlikeRegistrable
<1>6. InvRegistered'
  BY <1>5, RegistrableNext
<1> QED
  BY <1>6, OnlyThePoll

\* What the kernel reports.
LEMMA WhatIsReported ==
  ASSUME NEW p \in Entries, NEW atStdin \in SUBSET Reports
  PROVE  Revents(p, atStdin) \in SUBSET Reports
<1>1. p.pd \in Descriptors /\ p.events \in SUBSET {"in", "out"}
  BY DEF Entries
<1>2. CASE p.pd = PipePd
  BY <1>2, ChatClientAssumption DEF Revents, Reports
<1>3. CASE p.pd = "socket"
  BY <1>1, <1>3, ChatClientAssumption DEF Revents, Reports
<1>4. CASE p.pd = "gui in"
  BY <1>1, <1>4, ChatClientAssumption DEF Revents, Reports
<1>5. CASE p.pd = "gui out"
  BY <1>1, <1>5, ChatClientAssumption DEF Revents, Reports
<1> QED
  BY <1>1, <1>2, <1>3, <1>4, <1>5 DEF Descriptors

\* The loop of the poll.
LEMMA PollLoopsKeeps ==
  ASSUME ClientInv, Running, PollLoops
  PROVE  ClientInv'
<1>1. PollTypes
  BY Parts
<1>2. UNCHANGED <<clientVars, guiVars, serverVars>>
  BY DEF PollLoops
<1>3. CASE RegisterPipe
  BY <1>2, <1>3, RegisterPipeKeeps
<1>4. CASE ApplyRegister
  BY <1>2, <1>4, ApplyRegisterKeeps
<1>5. CASE ApplyAdd \/ ApplyRemoveEvent
  BY <1>2, <1>5, ApplyChangeKeeps
<1>6. CASE ReadPipe
  <2>1. /\ thread \in {"read", "read again"} /\ thread' \in {"drain", "drain again"}
        /\ UNCHANGED <<polls, updates, cursor, socksToHandle>>
    BY <1>6 DEF ReadPipe
  <2>2. pipe' \in 0..PipeSize
    BY <1>1, <1>6, ReadPipeKeeps DEF PollTypes
  <2>3. PollTypes'
    BY <1>1, <2>1, <2>2 DEF PollTypes
  <2>4. Alike(polls, polls')
    BY <2>1 DEF Alike
  <2>5. \A pd : WillWatch(pd)' <=> WillWatch(pd)
    BY <2>1, KeepsWatching
  <2> QED
    BY <1>2, <2>1, <2>3, <2>4, <2>5, PollGoesOnKeeps
<1>7. CASE ApplyDone
  <2>1. /\ thread \in {"drain", "drain again"} /\ thread' \in {"poll", "scan"}
        /\ UNCHANGED <<polls, updates, pipe, cursor, socksToHandle>>
    BY <1>7 DEF ApplyDone
  <2>2. PollTypes'
    BY <1>1, <2>1 DEF PollTypes
  <2>3. Alike(polls, polls')
    BY <2>1 DEF Alike
  <2>4. \A pd : WillWatch(pd)' <=> WillWatch(pd)
    BY <2>1, KeepsWatching
  <2> QED
    BY <1>2, <2>1, <2>2, <2>3, <2>4, PollGoesOnKeeps
<1>8. ASSUME NEW atStdin \in SUBSET Reports,
             PollReturns([i \in DOMAIN polls |-> Revents(polls[i], atStdin)])
      PROVE  ClientInv'
  <2> DEFINE reports == [i \in DOMAIN polls |-> Revents(polls[i], atStdin)]
  <2>1. thread = "poll" /\ thread' = "read again" /\ UNCHANGED <<updates, pipe, cursor>>
    BY <1>8 DEF PollReturns
  <2>2. \A i \in DOMAIN polls : reports[i] \in SUBSET Reports
    <3>1. \A i \in DOMAIN polls : polls[i] \in Entries
      BY <1>1, LenProperties, ElementOfSeq DEF PollTypes
    <3> QED
      BY <3>1, WhatIsReported
  <2> HIDE DEF reports
  <2>3. PollReturns(reports)
    BY <1>8 DEF reports
  <2>4. /\ polls' \in Seq(Entries) /\ Alike(polls, polls') /\ socksToHandle' \in Nat
        /\ \A pd : WillWatch(pd)' <=> WillWatch(pd)
    BY <1>1, <2>2, <2>3, Shapes, PollReturnsKeeps DEF PollTypes
  <2>5. PollTypes'
    BY <1>1, <2>1, <2>4 DEF PollTypes
  <2> QED
    BY <1>2, <2>1, <2>4, <2>5, PollGoesOnKeeps
<1>9. CASE ScanDone
  <2>1. /\ thread = "scan" /\ thread' = "read" /\ cursor' = 1 /\ socksToHandle' = 0
        /\ UNCHANGED <<updates, pipe>>
    BY <1>9 DEF ScanDone
  <2>2. /\ polls' \in Seq(Entries) /\ Alike(polls, polls')
        /\ \A pd : WillWatch(pd)' <=> WillWatch(pd)
    BY <1>1, <1>9, Shapes, ScanDoneKeeps DEF PollTypes
  <2>3. PollTypes'
    BY <1>1, <2>1, <2>2 DEF PollTypes
  <2> QED
    BY <1>2, <2>1, <2>2, <2>3, PollGoesOnKeeps
<1>10. {{}, {"in"}, {"hup"}} \subseteq SUBSET Reports /\ {{}} \subseteq SUBSET Reports
  BY DEF Reports
<1> QED
  BY <1>3, <1>4, <1>5, <1>6, <1>7, <1>8, <1>9, <1>10 DEF PollLoops

------------------------------------------------------------------------------
(* The blocks. *)

\* The loop goes on.
LEMMA LoopGoesOn ==
  ASSUME ClientInv, NEW pd, Calls(pd)
  PROVE  /\ Next_i \in DOMAIN polls /\ polls[Next_i].pd = pd /\ UNCHANGED polls
         /\ cursor' \in Nat \ {0} /\ socksToHandle' \in Nat /\ thread = "scan"
<1>1. polls \in Seq(Entries) /\ cursor \in Nat \ {0} /\ socksToHandle \in Nat
  BY Parts DEF PollTypes
<1>2. /\ Next_i \in DOMAIN polls /\ polls[Next_i].pd = pd
      /\ cursor' \in Nat \ {0} /\ socksToHandle' \in Nat
  BY <1>1, CallsEntry
<1> QED
  BY <1>2 DEF Calls

\* A block that does nothing to the lines or the poll: keepRunning may be cleared, and the
\* program may end.
LEMMA IdleBlockKeeps ==
  ASSUME ClientInv, Running, NEW pd, Calls(pd), thread' \in {"scan", "dead"},
         keepRunning' \in BOOLEAN,
         UNCHANGED <<updates, pipe, main, assigned, socket, outBuffer, inBuffer, guiVars, serverVars>>
  PROVE  ClientInv'
<1>1. /\ PollTypes /\ ClientTypes /\ LineTypes
      /\ InvMain /\ InvRegistered /\ InvLines /\ InvWatched
  BY Parts
<1>2. UNCHANGED polls /\ cursor' \in Nat \ {0} /\ socksToHandle' \in Nat /\ thread = "scan"
  BY LoopGoesOn
<1>3. PollTypes' /\ InvRegistered' /\ \A d : WillWatch(d)' <=> WillWatch(d)
  BY <1>1, <1>2, QueueStays
<1>4. ClientTypes' /\ InvMain'
  BY <1>1 DEF ClientTypes, InvMain, guiVars, serverVars
<1>5. LineTypes' /\ InvLines'
  BY <1>1, LinesStay DEF guiVars, serverVars
<1>6. InvWatched'
  BY <1>1, <1>2, <1>3, WatchStays DEF Running
<1> QED
  BY <1>3, <1>4, <1>5, <1>6, Together

\* StopsRunning is such a block.
LEMMA StopsRunningKeeps ==
  ASSUME ClientInv, Running, NEW pd, Calls(pd), StopsRunning
  PROVE  ClientInv'
<1>1. thread = "scan"
  BY LoopGoesOn
<1> QED
  BY <1>1, IdleBlockKeeps DEF StopsRunning

\* And so is the end of the program.
LEMMA DiesKeeps ==
  ASSUME ClientInv, Running, NEW pd, Calls(pd), Dies
  PROVE  ClientInv'
<1>1. keepRunning' \in BOOLEAN /\ UNCHANGED <<main, assigned, socket, outBuffer, inBuffer>>
  BY Parts DEF Dies, ClientTypes, clientVars
<1> QED
  BY <1>1, IdleBlockKeeps DEF Dies

\* The blocks without any effect, and those that see a hangup.
LEMMA SmallBlocksKeep ==
  ASSUME ClientInv, Running, PollCallsPipeBlock \/ PollHup \/ PollError
  PROVE  ClientInv'
<1>1. keepRunning \in BOOLEAN
  BY Parts DEF ClientTypes
<1>2. CASE PollCallsPipeBlock
  <2>1. Calls(PipePd) /\ UNCHANGED <<updates, pipe, thread, clientVars, guiVars, serverVars>>
    BY <1>2 DEF PollCallsPipeBlock
  <2>2. thread = "scan"
    BY <2>1, LoopGoesOn
  <2> QED
    BY <1>1, <2>1, <2>2, IdleBlockKeeps DEF clientVars
<1>3. CASE PollHup
  BY <1>3, StopsRunningKeeps DEF PollHup
<1>4. CASE PollError
  <2>1. Calls("gui out") /\ UNCHANGED <<updates, pipe, thread, clientVars, guiVars, serverVars>>
    BY <1>4 DEF PollError
  <2>2. thread = "scan"
    BY <2>1, LoopGoesOn
  <2> QED
    BY <1>1, <2>1, <2>2, IdleBlockKeeps DEF clientVars
<1> QED
  BY <1>2, <1>3, <1>4

\* Lines are moved from the front of c to the end of b.
Moved(b, c, nb, nc, n) ==
  /\ nb \in Lines /\ nc \in Lines /\ nb # <<>> /\ nb # b
  /\ Len(nb) = Len(b) + n /\ Len(nc) = Len(c) - n

\* So much is in the two buffers then.
LEMMA MovedLines ==
  ASSUME NEW b \in Lines, NEW c \in Lines, NEW n \in 1..Len(c)
  PROVE  Moved(b, c, b \o SubSeq(c, 1, n), SubSeq(c, n + 1, Len(c)), n)
<1> DEFINE c1 == SubSeq(c, 1, n)
<1>1. c1 \in Seq(Nat) /\ Len(c1) = n
  BY FirstPart, LenProperties DEF Lines
<1>2. SubSeq(c, n + 1, Len(c)) \in Seq(Nat) /\ Len(SubSeq(c, n + 1, Len(c))) = Len(c) - n
  BY Rest, LenProperties DEF Lines
<1> HIDE DEF c1
<1>3. b \o c1 \in Seq(Nat) /\ Len(b \o c1) = Len(b) + n
  BY <1>1, ConcatProperties DEF Lines
<1>4. b \o c1 # <<>> /\ b \o c1 # b
  <2>1. Len(b) \in Nat /\ Len(c) \in Nat /\ Len(<<>>) = 0
    BY LineLength
  <2> QED
    BY <1>3, <2>1
<1> QED
  BY <1>2, <1>3, <1>4 DEF Moved, Lines, c1

\* A block that queues that POLLOUT be watched or not.
LEMMA QueueingBlock ==
  ASSUME ClientInv, NEW pd, Calls(pd), NEW u \in Updates, u.op # "register", u.events = {"out"},
         Enqueue(<<u>>), UNCHANGED <<thread, main, assigned>>
  PROVE  /\ PollTypes' /\ InvRegistered'
         /\ \A d : WillWatch(d)' <=> IF Touches(u, d) THEN u.op = "add" ELSE WillWatch(d)
<1>1. PollTypes /\ ClientTypes /\ InvRegistered
  BY Parts
<1>2. UNCHANGED polls /\ cursor' \in Nat \ {0} /\ socksToHandle' \in Nat /\ thread' = "scan"
  BY LoopGoesOn
<1> QED
  BY <1>1, <1>2, QueueTakes

\* One that announces does, or ends the program.
LEMMA AnnouncingBlock ==
  ASSUME ClientInv, NEW pd, Calls(pd), NEW to \in Descriptors, Announces(to),
         UNCHANGED <<main, assigned>>
  PROVE  /\ PollTypes' /\ InvRegistered' /\ thread' \in {"scan", "dead"}
         /\ thread' = "scan" => \A d : WillWatch(d)' <=> (d = to \/ WillWatch(d))
<1>1. PollTypes /\ ClientTypes /\ InvRegistered
  BY Parts
<1>2. UNCHANGED polls /\ cursor' \in Nat \ {0} /\ socksToHandle' \in Nat /\ thread = "scan"
  BY LoopGoesOn
<1>3. CASE IsAssigned(to)
  <2>1. Enqueue(<<AddOut(to)>>) /\ thread' = thread
    BY <1>3 DEF Announces
  <2>2. /\ AddOut(to) \in Updates /\ AddOut(to).op = "add" /\ AddOut(to).events = {"out"}
        /\ \A d : Touches(AddOut(to), d) <=> d = to
    BY Changed
  <2>3. /\ PollTypes' /\ InvRegistered'
        /\ \A d : WillWatch(d)' <=> IF Touches(AddOut(to), d) THEN AddOut(to).op = "add"
                                    ELSE WillWatch(d)
    BY <2>1, <2>2, QueueingBlock
  <2> QED
    BY <1>2, <2>1, <2>2, <2>3
<1>4. CASE ~ IsAssigned(to)
  <2>1. thread' = "dead" /\ UNCHANGED <<updates, pipe>>
    BY <1>4 DEF Announces
  <2> QED
    BY <1>1, <1>2, <2>1, QueueStays
<1> QED
  BY <1>3, <1>4

\* ClientReceive passes lines on.
LEMMA ReceivesLines ==
  ASSUME ClientInv, Running, Calls("socket"), NEW n \in 1..Len(toClient),
         toClient' = SubSeq(toClient, n + 1, Len(toClient)),
         inBuffer' = inBuffer \o SubSeq(toClient, 1, n), Announces("gui out"),
         UNCHANGED <<main, assigned, socket, keepRunning, outBuffer, guiVars, wire, toServer, told,
                     owed, serverSends, received>>
  PROVE  ClientInv' /\ inBuffer' # inBuffer
<1>1. /\ PollTypes /\ ClientTypes /\ LineTypes
      /\ InvMain /\ InvRegistered /\ InvLines /\ InvWatched
  BY Parts
<1>2. UNCHANGED <<gui, fromGui, typed, shown>>
  BY DEF guiVars
<1>3. thread = "scan"
  BY LoopGoesOn
<1>4. /\ PollTypes' /\ InvRegistered' /\ thread' \in {"scan", "dead"}
      /\ thread' = "scan" => \A d : WillWatch(d)' <=> (d = "gui out" \/ WillWatch(d))
  BY AnnouncingBlock DEF Descriptors
<1>5. ClientTypes' /\ InvMain'
  BY <1>1, <1>2 DEF ClientTypes, InvMain
<1>6. shown \in Lines /\ inBuffer \in Lines /\ toClient \in Lines /\ told \in Nat
  BY <1>1 DEF LineTypes
<1>7. Moved(inBuffer, toClient, inBuffer', toClient', n)
  BY <1>6, MovedLines
<1>8. n \in Nat /\ n <= Len(toClient) /\ n >= 1 /\ Len(toClient) \in Nat
  <2>1. Len(toClient) \in Nat /\ n \in 1..Len(toClient)
    BY <1>6, LineLength
  <2> QED
    BY ONLY <2>1
<1>9. Count(shown', inBuffer', toClient') = Count(shown, inBuffer, toClient)
  <2>1. /\ Len(shown) \in Nat /\ Len(inBuffer) \in Nat /\ Len(shown') = Len(shown)
        /\ Len(inBuffer') = Len(inBuffer) + n /\ Len(toClient') = Len(toClient) - n
    BY <1>2, <1>6, <1>7, LineLength DEF Moved
  <2> QED
    BY ONLY <1>8, <2>1 DEF Count
<1>10. LineTypes'
  <2>1. Len(toClient') <= ClientRoom
    <3>1. Len(toClient) <= ClientRoom /\ Len(toClient') = Len(toClient) - n
      BY <1>1, <1>7 DEF Moved, LineTypes
    <3> QED
      BY ONLY <1>8, <3>1, BoundsAreNumbers
  <2>2. toClient' \in Lines /\ inBuffer' \in Lines
    BY <1>7 DEF Moved
  <2> QED
    BY <1>1, <1>2, <2>1, <2>2 DEF LineTypes
<1>11. InvLines'
  <2>1. TypedLines'
    BY <1>1, <1>2, DirectionsNow DEF TypedLines
  <2>2. Told(shown', inBuffer', toClient', Count(shown', inBuffer', toClient'))
    <3>1. Told(shown, inBuffer, toClient, Count(shown, inBuffer, toClient))
      BY <1>1, DirectionsNow DEF ToldLines
    <3>2. Told(shown, inBuffer', toClient', Count(shown, inBuffer, toClient))
      BY <1>6, <1>8, <3>1, ToldReceive
    <3> QED
      BY <1>2, <1>9, <3>2
  <2>3. ToldLines'
    BY <1>1, <1>9, <2>2, DirectionsNow DEF ToldLines
  <2>4. told' + owed' <= MaxTold
    BY <1>1, DirectionsNow
  <2> QED
    BY <2>1, <2>3, <2>4, DirectionsNext
<1>12. InvWatched'
  <2>1. inBuffer' # <<>>
    BY <1>7 DEF Moved
  <2> QED
    BY <1>1, <1>3, <1>4, <2>1 DEF InvWatched, WatchedWhileBuffered
<1>13. inBuffer' # inBuffer
  BY <1>7 DEF Moved
<1> QED
  BY <1>4, <1>5, <1>10, <1>11, <1>12, <1>13, Together

\* ClientReceive.
LEMMA ReceivesKeeps ==
  ASSUME ClientInv, Running, Receives
  PROVE  ClientInv'
<1>1. Calls("socket")
  BY DEF Receives
<1>2. CASE socket = "stdin" \/ (wire = "reset" /\ toClient = <<>>)
  BY <1>1, <1>2, DiesKeeps DEF Receives
<1>3. CASE socket # "stdin" /\ wire # "reset" /\ toClient = <<>>
  BY <1>1, <1>3, StopsRunningKeeps DEF Receives
<1>4. CASE socket # "stdin" /\ toClient # <<>>
  <2>1. PICK n \in 1..Len(toClient) :
            /\ toClient' = SubSeq(toClient, n + 1, Len(toClient))
            /\ inBuffer' = inBuffer \o SubSeq(toClient, 1, n)
            /\ Announces("gui out")
            /\ UNCHANGED <<main, assigned, socket, keepRunning, outBuffer, guiVars, wire,
                           toServer, told, owed, serverSends, received>>
    BY <1>4 DEF Receives
  <2> QED
    BY <1>1, <1>4, <2>1, ReceivesLines
<1> QED
  BY <1>2, <1>3, <1>4

\* ClientGUIRead.
LEMMA GuiReadsKeeps ==
  ASSUME ClientInv, Running, GuiReads
  PROVE  ClientInv'
<1>1. /\ PollTypes /\ ClientTypes /\ LineTypes
      /\ InvMain /\ InvRegistered /\ InvLines /\ InvWatched
  BY Parts
<1>2. PICK n \in 1..Len(fromGui) :
        /\ fromGui' = SubSeq(fromGui, n + 1, Len(fromGui))
        /\ outBuffer' = outBuffer \o SubSeq(fromGui, 1, n)
  BY DEF GuiReads
<1>3. /\ Calls("gui in") /\ Announces("socket")
      /\ UNCHANGED <<main, assigned, socket, keepRunning, inBuffer, gui, typed, shown>>
      /\ UNCHANGED <<wire, toServer, toClient, told, owed, serverSends, received>>
  BY DEF GuiReads, serverVars
<1>4. /\ PollTypes' /\ InvRegistered' /\ thread' \in {"scan", "dead"}
      /\ thread' = "scan" => \A d : WillWatch(d)' <=> (d = "socket" \/ WillWatch(d))
  BY <1>3, AnnouncingBlock DEF Descriptors
<1>5. ClientTypes' /\ InvMain'
  BY <1>1, <1>3 DEF ClientTypes, InvMain
<1>6. /\ received \in Lines /\ toServer \in Lines /\ outBuffer \in Lines /\ fromGui \in Lines
      /\ typed \in Nat
  BY <1>1, BoundsAreNumbers DEF LineTypes
<1>7. Moved(outBuffer, fromGui, outBuffer', fromGui', n)
  BY <1>2, <1>6, MovedLines
<1>8. n \in Nat /\ n <= Len(fromGui) /\ n >= 1 /\ Len(fromGui) \in Nat
  BY <1>6, LineLength
<1>9. Typed(received, toServer, outBuffer, fromGui, typed)
        => Typed(received, toServer, outBuffer', fromGui', typed)
  BY <1>2, <1>6, <1>8, TypedRead
<1>10. LineTypes'
  <2>1. fromGui' \in Lines /\ outBuffer' \in Lines
    BY <1>7 DEF Moved
  <2> QED
    BY <1>1, <1>3, <2>1 DEF LineTypes
<1>11. InvLines'
  <2>1. Len(received') + Len(toServer') + Len(outBuffer') + Len(fromGui') <= typed'
    <3>1. Len(received) + Len(toServer) + Len(outBuffer) + Len(fromGui) <= typed
      BY <1>1 DEF InvLines
    <3>2. /\ Len(received) \in Nat /\ Len(toServer) \in Nat /\ Len(outBuffer) \in Nat
          /\ Len(outBuffer') = Len(outBuffer) + n /\ Len(fromGui') = Len(fromGui) - n
      BY <1>6, <1>7, LineLength DEF Moved
    <3>3. Len(received') = Len(received) /\ Len(toServer') = Len(toServer) /\ typed' = typed
      BY <1>3
    <3> QED
      BY ONLY <1>6, <1>8, <3>1, <3>2, <3>3
  <2>2. TypedLines'
    BY <1>1, <1>3, <1>9, <2>1, DirectionsNow DEF TypedLines
  <2>3. ToldLines'
    BY <1>1, <1>3, DirectionsNow DEF ToldLines, Count
  <2>4. told' + owed' <= MaxTold
    BY <1>1, <1>3, DirectionsNow
  <2> QED
    BY <2>2, <2>3, <2>4, DirectionsNext
<1>12. InvWatched'
  <2>1. outBuffer' # <<>> /\ thread = "scan"
    BY <1>3, <1>7, LoopGoesOn DEF Moved
  <2> QED
    BY <1>1, <1>3, <1>4, <2>1 DEF InvWatched, WatchedWhileBuffered
<1> QED
  BY <1>4, <1>5, <1>10, <1>11, <1>12, Together

\* A line goes from the front of b to the end of a.
HandedOver(a, b, na, nb) ==
  /\ na \in Lines /\ nb \in Lines
  /\ Len(na) = Len(a) + 1 /\ Len(nb) + 1 = Len(b)

\* So much is in the two then.
LEMMA HandedOverLines ==
  ASSUME NEW a \in Lines, NEW b \in Lines, b # <<>>
  PROVE  HandedOver(a, b, Append(a, Head(b)), Tail(b))
<1>1. Head(b) \in Nat /\ Tail(b) \in Seq(Nat) /\ Len(Tail(b)) = Len(b) - 1
  BY HeadTailProperties DEF Lines
<1>2. Append(a, Head(b)) \in Seq(Nat) /\ Len(Append(a, Head(b))) = Len(a) + 1
  BY <1>1, AppendProperties DEF Lines
<1>3. Len(b) \in Nat
  BY LineLength
<1> QED
  BY <1>1, <1>2, <1>3 DEF HandedOver, Lines

\* When a sequence is empty.
LEMMA EmptyLines == \A s \in Lines : (s = <<>> <=> Len(s) = 0) /\ Len(s) \in Nat
  BY EmptySeq, LenProperties DEF Lines

\* A reset takes nothing that was read.
LEMMA ResetLines ==
  ASSUME LineTypes, ToldLines, Reset \/ UNCHANGED <<wire, toClient>>,
         UNCHANGED <<inBuffer, shown, told>>
  PROVE  toClient' \in Lines /\ Len(toClient') <= ClientRoom /\ ToldLines'
<1>1. /\ shown \in Lines /\ inBuffer \in Lines /\ toClient \in Lines
      /\ Len(toClient) <= ClientRoom /\ told \in Nat
  BY DEF LineTypes
<1>2. CASE toClient' = toClient
  BY <1>1, <1>2 DEF ToldLines, Count, Reset
<1>3. CASE toClient' # toClient
  <2>1. wire' = "reset" /\ toClient' = <<>>
    BY <1>3 DEF Reset
  <2>2. <<>> \in Lines /\ Len(<<>>) = 0
    BY DEF Lines
  <2>3. Len(shown) \in Nat /\ Len(inBuffer) \in Nat /\ Len(toClient) \in Nat
    BY <1>1, LineLength
  <2>4. Count(shown, inBuffer, toClient) \in Nat
    BY ONLY <2>3 DEF Count
  <2>5. Told(shown, inBuffer, <<>>, Len(shown) + Len(inBuffer))
    BY <1>1, <2>4, ToldDropped DEF ToldLines
  <2>6. Count(shown, inBuffer, <<>>) = Len(shown) + Len(inBuffer)
    BY <2>2, <2>3 DEF Count
  <2>7. Count(shown, inBuffer, <<>>) <= told
    <3>1. Len(shown) + Len(inBuffer) + Len(toClient) <= told
      BY DEF ToldLines, Count
    <3> QED
      BY ONLY <1>1, <2>3, <2>6, <3>1
  <2>8. 0 <= ClientRoom
    BY BoundsAreNumbers
  <2>9. ToldLines'
    BY <2>1, <2>5, <2>6, <2>7 DEF ToldLines
  <2> QED
    BY <2>1, <2>2, <2>8, <2>9
<1> QED
  BY <1>2, <1>3

\* send() puts a line into the kernel.
LEMMA LineGoesKeeps ==
  ASSUME ClientInv, Running, LineGoes, outBuffer # <<>>, UNCHANGED polls,
         cursor' \in Nat \ {0}, socksToHandle' \in Nat
  PROVE  ClientInv'
<1>1. /\ PollTypes /\ ClientTypes /\ LineTypes
      /\ InvMain /\ InvRegistered /\ InvLines /\ InvWatched
  BY Parts
<1>2. wire' = wire \/ (wire = "closed" /\ wire' = "reset")
  BY DEF LineGoes, Reset
<1>3. /\ Len(toServer) < ServerRoom /\ outBuffer' = Tail(outBuffer)
      /\ IF wire = "closed" THEN Reset /\ UNCHANGED toServer
         ELSE toServer' = Append(toServer, Head(outBuffer)) /\ UNCHANGED <<wire, toClient>>
      /\ IF Len(outBuffer) > 1 THEN thread' = "send" /\ UNCHANGED <<updates, pipe>>
         ELSE thread' = "scan" /\ Enqueue(<<RemoveOut("socket")>>)
      /\ UNCHANGED <<main, assigned, socket, keepRunning, inBuffer>>
      /\ UNCHANGED <<gui, fromGui, typed, shown>>
      /\ UNCHANGED <<told, owed, serverSends, received>>
  BY DEF LineGoes, guiVars
<1>4. ClientTypes' /\ InvMain'
  BY <1>1, <1>2, <1>3 DEF ClientTypes, InvMain
<1>5. /\ received \in Lines /\ toServer \in Lines /\ outBuffer \in Lines /\ fromGui \in Lines
      /\ typed \in Nat
  BY <1>1, BoundsAreNumbers DEF LineTypes
<1>6. HandedOver(toServer, outBuffer, Append(toServer, Head(outBuffer)), Tail(outBuffer))
  BY <1>5, HandedOverLines
<1>7. /\ outBuffer' \in Lines /\ toServer' \in Lines /\ Len(outBuffer') + 1 = Len(outBuffer)
      /\ Len(toServer') = Len(toServer) \/ Len(toServer') = Len(toServer) + 1
  BY <1>3, <1>5, <1>6 DEF HandedOver
<1>8. /\ Len(received) \in Nat /\ Len(toServer) \in Nat /\ Len(outBuffer) \in Nat
      /\ Len(fromGui) \in Nat /\ Len(outBuffer') \in Nat
  BY <1>5, <1>7, LineLength
<1>13. toClient' \in Lines /\ Len(toClient') <= ClientRoom /\ ToldLines'
  <2>1. LineTypes /\ ToldLines
    BY <1>1, DirectionsNow
  <2>2. Reset \/ UNCHANGED <<wire, toClient>>
    BY <1>3
  <2>3. UNCHANGED <<inBuffer, shown, told>>
    BY <1>3
  <2> QED
    BY <2>1, <2>2, <2>3, ResetLines
<1>9. LineTypes'
  <2>1. Len(toServer) < ServerRoom
    BY <1>3
  <2>2. Len(toServer') <= ServerRoom
    BY ONLY <1>7, <1>8, <2>1, BoundsAreNumbers
  <2> QED
    BY <1>1, <1>3, <1>7, <1>13, <2>2 DEF LineTypes
<1>10. InvLines'
  <2>1. Len(received') + Len(toServer') + Len(outBuffer') + Len(fromGui') <= typed'
    <3>1. Len(received) + Len(toServer) + Len(outBuffer) + Len(fromGui) <= typed
      BY <1>1 DEF InvLines
    <3>2. Len(received') = Len(received) /\ Len(fromGui') = Len(fromGui) /\ typed' = typed
      BY <1>3
    <3>3. typed \in Nat
      BY <1>5
    <3> QED
      BY ONLY <1>7, <1>8, <3>1, <3>2, <3>3
  <2>2. wire' \in {"none", "open"} => Typed(received', toServer', outBuffer', fromGui', typed')
    <3> SUFFICES ASSUME wire' \in {"none", "open"}
                 PROVE  Typed(received', toServer', outBuffer', fromGui', typed')
      OBVIOUS
    <3>1. wire \in {"none", "open"} /\ toServer' = Append(toServer, Head(outBuffer))
      BY <1>3 DEF Reset
    <3>2. Typed(received, toServer, outBuffer, fromGui, typed)
      BY <1>1, <3>1, DirectionsNow DEF TypedLines
    <3>3. Typed(received, Append(toServer, Head(outBuffer)), Tail(outBuffer), fromGui, typed)
      BY <1>5, <3>2, TypedSend
    <3> QED
      BY <1>3, <3>1, <3>3
  <2>3. TypedLines'
    BY <1>1, <1>3, <2>1, <2>2, DirectionsNow DEF TypedLines
  <2>4. ToldLines'
    BY <1>13
  <2>5. told' + owed' <= MaxTold
    BY <1>1, <1>3, DirectionsNow
  <2> QED
    BY <2>3, <2>4, <2>5, DirectionsNext
<1>11. CASE Len(outBuffer) > 1
  <2>1. thread' = "send" /\ UNCHANGED <<updates, pipe>>
    BY <1>3, <1>11
  <2>2. PollTypes' /\ InvRegistered' /\ \A d : WillWatch(d)' <=> WillWatch(d)
    BY <1>1, <1>3, <2>1, QueueStays
  <2>3. outBuffer' # <<>>
    <3>1. Len(outBuffer') # 0
      BY ONLY <1>7, <1>8, <1>11
    <3> QED
      BY <1>7, <3>1, EmptyLines
  <2>4. InvWatched'
    BY <1>1, <1>3, <2>1, <2>2, <2>3 DEF InvWatched, WatchedWhileBuffered, Running
  <2> QED
    BY <1>4, <1>9, <1>10, <2>2, <2>4, Together
<1>12. CASE ~ (Len(outBuffer) > 1)
  <2>1. thread' = "scan" /\ Enqueue(<<RemoveOut("socket")>>)
    BY <1>3, <1>12
  <2>2. /\ RemoveOut("socket") \in Updates /\ RemoveOut("socket").op = "remove event"
        /\ RemoveOut("socket").events = {"out"}
        /\ \A d : Touches(RemoveOut("socket"), d) <=> d = "socket"
    BY Changed DEF Descriptors
  <2>3. /\ PollTypes' /\ InvRegistered'
        /\ \A d : WillWatch(d)' <=> (d # "socket" /\ WillWatch(d))
    <3>1. /\ PollTypes' /\ InvRegistered'
          /\ \A d : WillWatch(d)' <=> IF Touches(RemoveOut("socket"), d)
                                      THEN RemoveOut("socket").op = "add" ELSE WillWatch(d)
      BY <1>1, <1>3, <2>1, <2>2, QueueTakes
    <3> QED
      BY <2>2, <3>1
  <2>4. outBuffer' = <<>>
    <3>1. Len(outBuffer') = 0
      BY ONLY <1>7, <1>8, <1>12
    <3> QED
      BY <1>7, <3>1, EmptyLines
  <2>5. InvWatched'
    BY <1>1, <1>3, <2>1, <2>3, <2>4 DEF InvWatched, WatchedWhileBuffered, Running
  <2> QED
    BY <1>4, <1>9, <1>10, <2>3, <2>5, Together
<1> QED
  BY <1>11, <1>12

\* ClientSend is called.
LEMMA SendsKeeps ==
  ASSUME ClientInv, Running, Sends
  PROVE  ClientInv'
<1>1. Calls("socket")
  BY DEF Sends
<1>2. CASE socket = "stdin" \/ wire = "reset"
  BY <1>1, <1>2, DiesKeeps DEF Sends
<1>3. CASE ~ (socket = "stdin" \/ wire = "reset") /\ outBuffer = <<>>
  BY <1>1, <1>3, StopsRunningKeeps DEF Sends
<1>4. CASE ~ (socket = "stdin" \/ wire = "reset") /\ outBuffer # <<>>
  <2>1. UNCHANGED polls /\ cursor' \in Nat \ {0} /\ socksToHandle' \in Nat
    BY <1>1, LoopGoesOn
  <2> QED
    BY <1>4, <2>1, LineGoesKeeps DEF Sends
<1> QED
  BY <1>2, <1>3, <1>4

\* send() goes on.
LEMMA SendGoesOnKeeps ==
  ASSUME ClientInv, Running, SendGoesOn
  PROVE  ClientInv'
<1>1. /\ PollTypes /\ ClientTypes /\ LineTypes
      /\ InvMain /\ InvRegistered /\ InvLines /\ InvWatched
  BY Parts
<1>2. thread = "send" /\ UNCHANGED <<polls, cursor, socksToHandle>> /\ outBuffer # <<>>
  BY <1>1 DEF SendGoesOn, InvWatched
<1>3. cursor' \in Nat \ {0} /\ socksToHandle' \in Nat
  BY <1>1, <1>2 DEF PollTypes
<1>4. CASE wire = "reset"
  <2>1. /\ thread' = "scan" /\ UNCHANGED <<updates, pipe>>
        /\ UNCHANGED <<main, assigned, socket, keepRunning, outBuffer, inBuffer>>
        /\ UNCHANGED <<gui, fromGui, typed, shown>>
        /\ UNCHANGED <<wire, toServer, toClient, told, owed, serverSends, received>>
    BY <1>4 DEF SendGoesOn, clientVars, guiVars, serverVars
  <2>2. PollTypes' /\ InvRegistered' /\ \A d : WillWatch(d)' <=> WillWatch(d)
    BY <1>1, <1>2, <1>3, <2>1, QueueStays
  <2>3. ClientTypes' /\ InvMain'
    BY <1>1, <2>1 DEF ClientTypes, InvMain
  <2>4. LineTypes' /\ InvLines'
    BY <1>1, <2>1, LinesStay
  <2>5. InvWatched'
    BY <1>1, <1>2, <2>1, <2>2, WatchStays
  <2> QED
    BY <2>2, <2>3, <2>4, <2>5, Together
<1>5. CASE wire # "reset"
  BY <1>2, <1>3, <1>5, LineGoesKeeps DEF SendGoesOn
<1> QED
  BY <1>4, <1>5

\* ClientGUIWrite.
LEMMA GuiWritesKeeps ==
  ASSUME ClientInv, Running, GuiWrites
  PROVE  ClientInv'
<1>1. Calls("gui out")
  BY DEF GuiWrites
<1>2. CASE gui = "gone"
  BY <1>1, <1>2, DiesKeeps DEF GuiWrites
<1>3. CASE gui # "gone" /\ inBuffer = <<>>
  BY <1>1, <1>3, StopsRunningKeeps DEF GuiWrites
<1>4. CASE gui # "gone" /\ inBuffer # <<>>
  <2>1. /\ PollTypes /\ ClientTypes /\ LineTypes
        /\ InvMain /\ InvRegistered /\ InvLines /\ InvWatched
    BY Parts
  <2>2. /\ shown' = shown \o inBuffer /\ inBuffer' = <<>>
        /\ Enqueue(<<RemoveOut("gui out")>>)
        /\ UNCHANGED <<thread, main, assigned, socket, keepRunning, outBuffer, gui, fromGui, typed>>
        /\ UNCHANGED <<wire, toServer, toClient, told, owed, serverSends, received>>
    BY <1>4 DEF GuiWrites, serverVars
  <2>3. thread = "scan"
    BY <1>1, LoopGoesOn
  <2>4. /\ RemoveOut("gui out") \in Updates /\ RemoveOut("gui out").op = "remove event"
        /\ RemoveOut("gui out").events = {"out"}
        /\ \A d : Touches(RemoveOut("gui out"), d) <=> d = "gui out"
    BY Changed DEF Descriptors
  <2>5. /\ PollTypes' /\ InvRegistered'
        /\ \A d : WillWatch(d)' <=> (d # "gui out" /\ WillWatch(d))
    <3>1. /\ PollTypes' /\ InvRegistered'
          /\ \A d : WillWatch(d)' <=> IF Touches(RemoveOut("gui out"), d)
                                      THEN RemoveOut("gui out").op = "add" ELSE WillWatch(d)
      BY <1>1, <2>2, <2>4, QueueingBlock
    <3> QED
      BY <2>4, <3>1
  <2>6. ClientTypes' /\ InvMain'
    BY <2>1, <2>2 DEF ClientTypes, InvMain
  <2>7. shown \in Lines /\ inBuffer \in Lines /\ toClient \in Lines
    BY <2>1 DEF LineTypes
  <2>8. /\ shown' \in Lines /\ Len(shown') = Len(shown) + Len(inBuffer)
        /\ inBuffer' \in Lines /\ Len(inBuffer') = 0 /\ shown' \o inBuffer' = shown \o inBuffer
    <3>1. shown \o inBuffer \in Seq(Nat) /\ Len(shown \o inBuffer) = Len(shown) + Len(inBuffer)
      BY <2>7, ConcatProperties DEF Lines
    <3>2. (shown \o inBuffer) \o <<>> = shown \o inBuffer
      BY <3>1, ConcatEmptySeq
    <3>3. <<>> \in Seq(Nat) /\ Len(<<>>) = 0
      OBVIOUS
    <3> QED
      BY <2>2, <3>1, <3>2, <3>3 DEF Lines
  <2>9. LineTypes'
    BY <2>1, <2>2, <2>8 DEF LineTypes
  <2>10. InvLines'
    <3>1. TypedLines'
      BY <2>1, <2>2, DirectionsNow DEF TypedLines
    <3>2. Count(shown', inBuffer', toClient') = Count(shown, inBuffer, toClient)
      <4>1. Len(shown) \in Nat /\ Len(inBuffer) \in Nat /\ Len(toClient) \in Nat
        BY <2>7, LineLength
      <4>2. /\ Len(toClient') = Len(toClient) /\ Len(inBuffer') = 0
            /\ Len(shown') = Len(shown) + Len(inBuffer)
        BY <2>2, <2>8
      <4> QED
        BY ONLY <4>1, <4>2 DEF Count
    <3>3. Told(shown', inBuffer', toClient', Count(shown', inBuffer', toClient'))
      <4>1. Told(shown, inBuffer, toClient, Count(shown, inBuffer, toClient))
        BY <2>1, DirectionsNow DEF ToldLines
      <4>2. Told(shown \o inBuffer, <<>>, toClient, Count(shown, inBuffer, toClient))
        BY <2>7, <4>1, ToldWrite
      <4> QED
        BY <2>2, <3>2, <4>2
    <3>4. ToldLines'
      BY <2>1, <2>2, <3>2, <3>3, DirectionsNow DEF ToldLines
    <3>5. told' + owed' <= MaxTold
      BY <2>1, <2>2, DirectionsNow
    <3> QED
      BY <3>1, <3>4, <3>5, DirectionsNext
  <2>11. InvWatched'
    BY <2>1, <2>2, <2>3, <2>5 DEF InvWatched, WatchedWhileBuffered
  <2> QED
    BY <2>5, <2>6, <2>9, <2>10, <2>11, Together
<1> QED
  BY <1>2, <1>3, <1>4

------------------------------------------------------------------------------
(* The GUI and the server. *)

\* A step of theirs is none of the client.
LEMMA OutsideKeeps ==
  ASSUME ClientInv, Running, UNCHANGED <<pollVars, clientVars>>,
         gui' \in {"runs", "gone"}, wire' \in {"none", "open", "closed", "reset"},
         wire' = wire \/ wire = "open", LineTypes', InvLines'
  PROVE  ClientInv'
<1>1. PollTypes /\ ClientTypes /\ InvMain /\ InvRegistered /\ InvWatched
  BY Parts
<1>2. UNCHANGED pollVars /\ thread' = thread
  BY DEF pollVars
<1>3. UNCHANGED <<main, assigned, socket, keepRunning, outBuffer, inBuffer>>
  BY DEF clientVars
<1>4. ClientTypes' /\ InvMain'
  BY <1>1, <1>3 DEF ClientTypes, InvMain
<1>5. Known \subseteq Known'
  BY <1>1, <1>2, <1>3, KnownGrows
<1>6. PollTypes' /\ InvRegistered' /\ \A pd : WillWatch(pd)' <=> WillWatch(pd)
  BY <1>1, <1>2, <1>5, PollStays
<1>7. InvWatched'
  BY <1>1, <1>2, <1>3, <1>6, WatchStays DEF InvWatched, WatchedWhileBuffered, Running
<1> QED
  BY <1>4, <1>6, <1>7, Together

\* The user types a line.
LEMMA GuiTypesKeeps ==
  ASSUME ClientInv, Running, GuiTypes
  PROVE  ClientInv'
<1>1. ClientTypes /\ LineTypes /\ InvLines
  BY Parts
<1>2. /\ gui' = gui /\ typed < MaxTyped /\ typed' = typed + 1
      /\ fromGui' = Append(fromGui, typed + 1)
      /\ UNCHANGED <<pollVars, clientVars>> /\ UNCHANGED <<outBuffer, inBuffer>>
      /\ UNCHANGED <<wire, toServer, toClient, told, owed, serverSends, received, shown>>
  BY DEF GuiTypes, clientVars, serverVars
<1>3. /\ received \in Lines /\ toServer \in Lines /\ outBuffer \in Lines /\ fromGui \in Lines
      /\ typed \in Nat /\ typed \in 0..MaxTyped
  BY <1>1, BoundsAreNumbers DEF LineTypes
<1>4. fromGui' \in Lines /\ Len(fromGui') = Len(fromGui) + 1
  BY <1>2, <1>3, AppendProperties DEF Lines
<1>5. typed' \in 0..MaxTyped
  BY ONLY <1>2, <1>3, BoundsAreNumbers
<1>6. LineTypes'
  BY <1>1, <1>2, <1>4, <1>5 DEF LineTypes
<1>7. InvLines'
  <2>1. Len(received') + Len(toServer') + Len(outBuffer') + Len(fromGui') <= typed'
    <3>1. Len(received) + Len(toServer) + Len(outBuffer) + Len(fromGui) <= typed
      BY <1>1 DEF InvLines
    <3>2. /\ Len(received') = Len(received) /\ Len(toServer') = Len(toServer)
          /\ Len(outBuffer') = Len(outBuffer) /\ typed' = typed + 1 /\ typed \in Nat
      BY <1>2, <1>3
    <3>3. /\ Len(received) \in Nat /\ Len(toServer) \in Nat /\ Len(outBuffer) \in Nat
          /\ Len(fromGui) \in Nat
      BY <1>3, LineLength
    <3>4. Len(fromGui') = Len(fromGui) + 1
      BY <1>4
    <3> QED
      BY ONLY <3>1, <3>2, <3>3, <3>4
  <2>2. Typed(received, toServer, outBuffer, fromGui, typed)
          => Typed(received, toServer, outBuffer, Append(fromGui, typed + 1), typed + 1)
    BY <1>3, TypedType
  <2>3. TypedLines'
    BY <1>1, <1>2, <2>1, <2>2, DirectionsNow DEF TypedLines
  <2>4. ToldLines' /\ told' + owed' <= MaxTold
    BY <1>1, <1>2, DirectionsNow DEF ToldLines, Count
  <2> QED
    BY <2>3, <2>4, DirectionsNext
<1> QED
  BY <1>1, <1>2, <1>6, <1>7, OutsideKeeps DEF ClientTypes

\* The GUI quits.
LEMMA GuiQuitsKeeps ==
  ASSUME ClientInv, Running, GuiQuits
  PROVE  ClientInv'
<1>1. ClientTypes /\ LineTypes /\ InvLines
  BY Parts
<1>2. /\ gui' = "gone" /\ UNCHANGED <<pollVars, clientVars>> /\ UNCHANGED <<outBuffer, inBuffer>>
      /\ UNCHANGED <<fromGui, typed, shown>>
      /\ UNCHANGED <<wire, toServer, toClient, told, owed, serverSends, received>>
  BY DEF GuiQuits, clientVars, serverVars
<1>3. LineTypes' /\ InvLines'
  BY <1>1, <1>2, LinesStay
<1> QED
  BY <1>1, <1>2, <1>3, OutsideKeeps DEF ClientTypes

\* The server takes what a recv() returns, and may owe a line for it.
LEMMA ServerReadsKeeps ==
  ASSUME ClientInv, Running, ServerReads
  PROVE  ClientInv'
<1>1. ClientTypes /\ LineTypes /\ InvLines
  BY Parts
<1>2. PICK n \in 1..Len(toServer) :
        /\ toServer' = SubSeq(toServer, n + 1, Len(toServer))
        /\ received' = received \o SubSeq(toServer, 1, n)
  BY DEF ServerReads
<1>3. /\ wire = "open" /\ owed' \in {owed, owed + 1} /\ told + owed' <= MaxTold
      /\ UNCHANGED <<pollVars, clientVars>> /\ UNCHANGED <<outBuffer, inBuffer>>
      /\ UNCHANGED <<gui, fromGui, typed, shown, wire, toClient, told, serverSends>>
  BY DEF ServerReads, clientVars, guiVars
<1>4. /\ received \in Lines /\ toServer \in Lines /\ outBuffer \in Lines /\ fromGui \in Lines
      /\ typed \in Nat /\ told \in Nat /\ owed \in Nat
  BY <1>1, BoundsAreNumbers DEF LineTypes
<1>5. Moved(received, toServer, received', toServer', n)
  BY <1>2, <1>4, MovedLines
<1>6. n \in Nat /\ n <= Len(toServer) /\ n >= 1 /\ Len(toServer) \in Nat
  BY <1>4, LineLength
<1>7. LineTypes'
  <2>1. Len(toServer) <= ServerRoom /\ Len(toServer') = Len(toServer) - n
    BY <1>1, <1>5 DEF Moved, LineTypes
  <2>2. Len(toServer') <= ServerRoom
    BY ONLY <1>6, <2>1, BoundsAreNumbers
  <2>3. received' \in Lines /\ toServer' \in Lines
    BY <1>5 DEF Moved
  <2>4. owed' \in Nat
    BY <1>3, <1>4
  <2> QED
    BY <1>1, <1>3, <2>2, <2>3, <2>4 DEF LineTypes
<1>8. InvLines'
  <2>1. Len(received') + Len(toServer') + Len(outBuffer') + Len(fromGui') <= typed'
    <3>1. Len(received) + Len(toServer) + Len(outBuffer) + Len(fromGui) <= typed
      BY <1>1 DEF InvLines
    <3>2. /\ Len(outBuffer') = Len(outBuffer) /\ Len(fromGui') = Len(fromGui)
          /\ typed' = typed /\ typed \in Nat
      BY <1>3, <1>4
    <3>3. Len(received') = Len(received) + n /\ Len(toServer') = Len(toServer) - n
      BY <1>5 DEF Moved
    <3>4. Len(received) \in Nat /\ Len(outBuffer) \in Nat /\ Len(fromGui) \in Nat
      BY <1>4, LineLength
    <3> QED
      BY ONLY <1>6, <3>1, <3>2, <3>3, <3>4
  <2>2. Typed(received', toServer', outBuffer', fromGui', typed')
    <3>1. Typed(received, toServer, outBuffer, fromGui, typed)
      BY <1>1, <1>3, DirectionsNow DEF TypedLines
    <3>2. Typed(received', toServer', outBuffer, fromGui, typed)
      BY <1>2, <1>4, <1>6, <3>1, TypedServe
    <3> QED
      BY <1>3, <3>2
  <2>3. received' = Numbers(Len(received'))
    <3>1. /\ received' \in Lines /\ toServer' \in Lines /\ outBuffer' \in Lines
          /\ fromGui' \in Lines /\ typed' \in Nat
      BY <1>3, <1>4, <1>5 DEF Moved
    <3> QED
      BY <2>2, <3>1, TypedParts
  <2>4. TypedLines'
    BY <2>1, <2>2, <2>3 DEF TypedLines
  <2>5. ToldLines'
    BY <1>1, <1>3, DirectionsNow DEF ToldLines, Count
  <2>6. told' + owed' <= MaxTold
    BY <1>3
  <2> QED
    BY <2>4, <2>5, <2>6, DirectionsNext
<1> QED
  BY <1>1, <1>3, <1>7, <1>8, OutsideKeeps DEF ClientTypes

\* The server owes a line because of somebody else.
LEMMA OthersTalkKeeps ==
  ASSUME ClientInv, Running, OthersTalk
  PROVE  ClientInv'
<1>1. ClientTypes /\ LineTypes /\ InvLines
  BY Parts
<1>2. /\ told + owed < MaxTold /\ owed' = owed + 1
      /\ UNCHANGED <<pollVars, clientVars>> /\ UNCHANGED <<outBuffer, inBuffer>>
      /\ UNCHANGED <<gui, fromGui, typed, shown, wire, toServer, toClient, told, serverSends, received>>
  BY DEF OthersTalk, clientVars, guiVars
<1>3. told \in Nat /\ owed \in Nat
  BY <1>1 DEF LineTypes
<1>4. LineTypes'
  BY <1>1, <1>2, <1>3 DEF LineTypes
<1>5. TypedLines' /\ ToldLines'
  BY <1>1, <1>2, DirectionsNow DEF TypedLines, ToldLines, Count
<1>6. told' + owed' <= MaxTold
  <2>1. told' = told /\ owed' = owed + 1 /\ told + owed < MaxTold
    BY <1>2
  <2> QED
    BY ONLY <1>3, <2>1, BoundsAreNumbers
<1>7. InvLines'
  BY <1>5, <1>6, DirectionsNext
<1> QED
  BY <1>1, <1>2, <1>4, <1>7, OutsideKeeps DEF ClientTypes

\* The server sends what it owes.
LEMMA ServerSendsKeeps ==
  ASSUME ClientInv, Running, ServerSends
  PROVE  ClientInv'
<1>1. ClientTypes /\ LineTypes /\ InvLines
  BY Parts
<1>2. /\ wire = "open" /\ owed > 0 /\ Len(toClient) < ClientRoom /\ told' = told + 1 /\ owed' = owed - 1
      /\ toClient' = Append(toClient, told + 1) /\ serverSends' \in BOOLEAN
      /\ UNCHANGED <<pollVars, clientVars>> /\ UNCHANGED <<outBuffer, inBuffer>>
      /\ UNCHANGED <<gui, fromGui, typed, shown, wire, toServer, received>>
  BY DEF ServerSends, clientVars, guiVars
<1>3. shown \in Lines /\ inBuffer \in Lines /\ toClient \in Lines /\ told \in Nat /\ owed \in Nat
  BY <1>1 DEF LineTypes
<1>4. toClient' \in Lines /\ Len(toClient') = Len(toClient) + 1
  BY <1>2, <1>3, AppendProperties DEF Lines
<1>5. Len(shown) \in Nat /\ Len(inBuffer) \in Nat /\ Len(toClient) \in Nat
  BY <1>3, LineLength
<1>6. LineTypes'
  <2>1. Len(toClient) < ClientRoom /\ owed > 0 /\ owed' = owed - 1 /\ told' = told + 1
    BY <1>2
  <2>2. told \in Nat /\ owed \in Nat /\ Len(toClient') = Len(toClient) + 1
    BY <1>3, <1>4
  <2>3. Len(toClient') <= ClientRoom /\ owed' \in Nat /\ told' \in Nat
    BY ONLY <1>5, <2>1, <2>2, BoundsAreNumbers
  <2> QED
    BY <1>1, <1>2, <1>4, <2>3 DEF LineTypes
<1>7. InvLines'
  <2>1. TypedLines'
    BY <1>1, <1>2, DirectionsNow DEF TypedLines
  <2>2. Count(shown, inBuffer, toClient) = told /\ Count(shown', inBuffer', toClient') = told + 1
    <3>1. Count(shown, inBuffer, toClient) = told
      BY <1>1, <1>2, DirectionsNow DEF ToldLines
    <3>2. /\ Len(shown') = Len(shown) /\ Len(inBuffer') = Len(inBuffer)
          /\ Len(toClient') = Len(toClient) + 1
      BY <1>2, <1>4
    <3>3. Len(shown) + Len(inBuffer) + Len(toClient) = told
      BY <3>1 DEF Count
    <3>4. Len(shown') + Len(inBuffer') + Len(toClient') = told + 1
      BY ONLY <1>3, <1>5, <3>2, <3>3
    <3> QED
      BY <3>1, <3>4 DEF Count
  <2>3. Told(shown', inBuffer', toClient', told + 1)
    <3>1. Told(shown, inBuffer, toClient, told)
      BY <1>1, <2>2, DirectionsNow DEF ToldLines
    <3>2. Told(shown, inBuffer, Append(toClient, told + 1), told + 1)
      BY <1>3, <3>1, ToldSend
    <3> QED
      BY <1>2, <3>2
  <2>4. ToldLines'
    BY <1>2, <1>3, <2>2, <2>3 DEF ToldLines
  <2>5. told' + owed' <= MaxTold
    <3>1. told + owed <= MaxTold
      BY <1>1 DEF InvLines
    <3>2. told' = told + 1 /\ owed' = owed - 1
      BY <1>2
    <3>3. told \in Nat /\ owed \in Nat
      BY <1>3
    <3> QED
      BY ONLY <1>5, <3>1, <3>2, <3>3, BoundsAreNumbers
  <2> QED
    BY <2>1, <2>4, <2>5, DirectionsNext
<1> QED
  BY <1>1, <1>2, <1>6, <1>7, OutsideKeeps DEF ClientTypes

\* The server closes or resets the connection.
LEMMA ServerHangsUpKeeps ==
  ASSUME ClientInv, Running, ServerHangsUp
  PROVE  ClientInv'
<1>1. ClientTypes /\ LineTypes /\ InvLines
  BY Parts
<1>2. /\ wire = "open" /\ wire' \in {"closed", "reset"}
      /\ Reset \/ toClient' = toClient
      /\ toServer' = <<>> /\ owed' = 0 /\ serverSends' = FALSE
      /\ UNCHANGED <<pollVars, clientVars>> /\ UNCHANGED <<outBuffer, inBuffer>>
      /\ UNCHANGED <<gui, fromGui, typed, shown, told, received>>
  BY DEF ServerHangsUp, Reset, clientVars, guiVars
<1>3. /\ received \in Lines /\ toServer \in Lines /\ outBuffer \in Lines /\ fromGui \in Lines
      /\ shown \in Lines /\ inBuffer \in Lines /\ toClient \in Lines
      /\ typed \in Nat /\ told \in Nat /\ owed \in Nat
  BY <1>1, BoundsAreNumbers DEF LineTypes
<1>4. <<>> \in Lines /\ Len(<<>>) = 0
  BY DEF Lines
<1>5. toServer' \in Lines /\ Len(toServer') = 0
  BY <1>2, <1>3, <1>4
<1>6. /\ Len(received) \in Nat /\ Len(toServer) \in Nat /\ Len(outBuffer) \in Nat
      /\ Len(fromGui) \in Nat
  BY <1>3, LineLength
<1>7. toClient' \in Lines /\ Len(toClient') <= ClientRoom /\ ToldLines'
  <2>1. ToldLines /\ UNCHANGED <<inBuffer, shown, told>>
    BY <1>1, <1>2, DirectionsNow
  <2>2. CASE Reset
    BY <1>1, <2>1, <2>2, ResetLines
  <2>3. CASE toClient' = toClient
    BY <1>1, <1>2, <2>1, <2>3 DEF LineTypes, ToldLines, Count
  <2> QED
    BY <1>2, <2>2, <2>3
<1>8. LineTypes'
  <2>1. Len(toServer') <= ServerRoom
    BY <1>5, BoundsAreNumbers
  <2> QED
    BY <1>1, <1>2, <1>5, <1>7, <2>1 DEF LineTypes
<1>9. InvLines'
  <2>1. Len(received') + Len(toServer') + Len(outBuffer') + Len(fromGui') <= typed'
    <3>1. Len(received) + Len(toServer) + Len(outBuffer) + Len(fromGui) <= typed
      BY <1>1 DEF InvLines
    <3>2. /\ Len(received') = Len(received) /\ Len(outBuffer') = Len(outBuffer)
          /\ Len(fromGui') = Len(fromGui) /\ typed' = typed /\ typed \in Nat
      BY <1>2, <1>3
    <3> QED
      BY ONLY <1>5, <1>6, <3>1, <3>2
  <2>2. TypedLines'
    BY <1>1, <1>2, <2>1, DirectionsNow DEF TypedLines
  <2>5. told' + owed' <= MaxTold
    <3>1. told + owed <= MaxTold
      BY <1>1 DEF InvLines
    <3>2. told' = told /\ owed' = 0 /\ told \in Nat /\ owed \in Nat
      BY <1>2, <1>3
    <3> QED
      BY ONLY <3>1, <3>2, BoundsAreNumbers
  <2> QED
    BY <1>7, <2>2, <2>5, DirectionsNext
<1> QED
  BY <1>1, <1>2, <1>8, <1>9, OutsideKeeps DEF ClientTypes

------------------------------------------------------------------------------
(* The invariant. *)

\* In the beginning nothing is registered and nothing said.
LEMMA InitHolds == Init => ClientInv
<1> SUFFICES ASSUME Init PROVE ClientInv
  OBVIOUS
<1>1. /\ polls = <<>> /\ updates = <<>> /\ pipe = 0 /\ thread = "start" /\ cursor = 1
      /\ socksToHandle = 0 /\ main = "connect" /\ assigned = 0 /\ wire = "none"
      /\ fromGui = <<>> /\ outBuffer = <<>> /\ toServer = <<>> /\ received = <<>>
      /\ toClient = <<>> /\ inBuffer = <<>> /\ shown = <<>>
      /\ typed = 0 /\ told = 0 /\ owed = 0 /\ serverSends = FALSE
      /\ socket = "connection" /\ keepRunning = TRUE /\ gui = "runs"
  BY DEF Init, PollInit
<1>2. DOMAIN polls = {} /\ DOMAIN updates = {}
  BY <1>1
<1>3. PollTypes
  BY <1>1, ChatPollAssumption DEF PollTypes
<1>4. ClientTypes /\ InvMain
  BY <1>1 DEF ClientTypes, InvMain
<1>5. <<>> \in Lines /\ Len(<<>>) = 0
  BY DEF Lines
<1>6. LineTypes
  <2>1. 0 <= ServerRoom /\ 0 <= ClientRoom /\ 0 \in 0..MaxTyped
    BY BoundsAreNumbers
  <2> QED
    BY <1>1, <1>5, <2>1 DEF LineTypes
<1>7. InvRegistered
  BY <1>2 DEF InvRegistered
<1>8. InvLines
  <2>1. Numbers(0) = <<>>
    <3>1. Numbers(0) \in Lines /\ Len(Numbers(0)) = 0
      BY NumbersShape
    <3> QED
      BY <3>1, EmptyLines
  <2>2. <<>> \o <<>> = <<>>
    OBVIOUS
  <2>3. /\ Typed(received, toServer, outBuffer, fromGui, typed) /\ Told(shown, inBuffer, toClient, 0)
        /\ Count(shown, inBuffer, toClient) = 0
    BY <1>1, <1>5, <2>1, <2>2 DEF Typed, Told, Count
  <2>4. TypedLines
    BY <1>1, <1>5, <2>1, <2>3 DEF TypedLines
  <2>5. ToldLines
    BY <1>1, <2>3 DEF ToldLines
  <2>6. told + owed <= MaxTold
    BY <1>1, <1>5, BoundsAreNumbers
  <2> QED
    BY <2>4, <2>5, <2>6, DirectionsNow
<1>9. InvWatched
  <2>1. \A pd : ~ WillWatch(pd)
    <3>1. \A pd : Changes(updates, pd) = {} /\ ~ HasOut(polls, pd)
      BY <1>2 DEF Changes, HasOut
    <3> QED
      BY <3>1, WatchNow DEF Watches
  <2> QED
    BY <1>1, <2>1 DEF InvWatched, WatchedWhileBuffered
<1> QED
  BY <1>3, <1>4, <1>6, <1>7, <1>8, <1>9, TypesOfParts DEF ClientInv

\* Every step keeps it.
LEMMA NextKeeps == ClientInv /\ [Next]_vars => ClientInv'
<1> SUFFICES ASSUME ClientInv, [Next]_vars PROVE ClientInv'
  OBVIOUS
<1>1. CASE Next
  <2>1. Running
    BY <1>1 DEF Next
  <2>2. CASE Main
    BY <2>1, <2>2, ConnectsKeeps, RegistersKeeps, AssignsKeeps, QuitsKeeps DEF Main
  <2>3. CASE PollThread
    <3>1. CASE PollLoops
      BY <2>1, <3>1, PollLoopsKeeps
    <3>2. CASE PollCallsPipeBlock \/ PollHup \/ PollError
      BY <2>1, <3>2, SmallBlocksKeep
    <3>3. CASE Receives \/ GuiReads
      BY <2>1, <3>3, ReceivesKeeps, GuiReadsKeeps
    <3>4. CASE Sends \/ SendGoesOn \/ GuiWrites
      BY <2>1, <3>4, SendsKeeps, SendGoesOnKeeps, GuiWritesKeeps
    <3> QED
      BY <2>3, <3>1, <3>2, <3>3, <3>4 DEF PollThread
  <2>4. CASE Gui
    BY <2>1, <2>4, GuiTypesKeeps, GuiQuitsKeeps DEF Gui
  <2>5. CASE Server
    BY <2>1, <2>5, ServerReadsKeeps, OthersTalkKeeps, ServerSendsKeeps, ServerHangsUpKeeps
       DEF Server
  <2> QED
    BY <1>1, <2>2, <2>3, <2>4, <2>5 DEF Next
<1>2. CASE UNCHANGED vars
  <2>1. /\ UNCHANGED pollVars /\ UNCHANGED <<polls, updates, pipe, thread, cursor, socksToHandle>>
        /\ UNCHANGED <<main, assigned, socket, keepRunning, outBuffer, inBuffer>>
        /\ UNCHANGED <<gui, fromGui, typed, shown>>
        /\ UNCHANGED <<wire, toServer, toClient, told, owed, serverSends, received>>
    BY <1>2 DEF vars, pollVars, clientVars, guiVars, serverVars
  <2>2. /\ PollTypes /\ ClientTypes /\ LineTypes
        /\ InvMain /\ InvRegistered /\ InvLines /\ InvWatched
    BY Parts
  <2>3. Known \subseteq Known'
    BY <2>1, <2>2, KnownGrows
  <2>4. PollTypes' /\ InvRegistered' /\ \A pd : WillWatch(pd)' <=> WillWatch(pd)
    BY <2>1, <2>2, <2>3, PollStays
  <2>5. ClientTypes' /\ InvMain'
    BY <2>1, <2>2 DEF ClientTypes, InvMain
  <2>6. LineTypes' /\ InvLines'
    BY <2>1, <2>2, LinesStay
  <2>7. InvWatched'
    BY <2>1, <2>2, <2>4 DEF InvWatched, WatchedWhileBuffered
  <2> QED
    BY <2>4, <2>5, <2>6, <2>7, Together
<1> QED
  BY <1>1, <1>2

\* ClientInv is an invariant: the registrations, the lines and what is watched fit together.
THEOREM ClientInvariant == Spec => []ClientInv
  BY InitHolds, NextKeeps, PTL DEF Spec

------------------------------------------------------------------------------
(* The properties. *)

\* What is typed reaches the server and what the server tells the GUI, once and in order:
\* ClientGUIRead, ClientSend, ClientReceive and ClientGUIWrite neither lose a line nor
\* overtake one, and a reset takes none but the last.
THEOREM LinesStayInOrder == Spec => []LinesInOrder
<1>1. ClientInv => LinesInOrder
  <2> SUFFICES ASSUME ClientInv PROVE LinesInOrder
    OBVIOUS
  <2>1. LineTypes /\ InvLines /\ TypeOK
    BY Parts DEF ClientInv, InvTypes
  <2> QED
    BY <2>1 DEF InvLines, LinesInOrder
<1> QED
  BY <1>1, ClientInvariant, PTL

\* POLLOUT is watched, or about to be, exactly for the buffers with something in them,
\* whatever was queued by whom and however far send() got.
THEOREM BuffersAreWatched == Spec => []WatchedWhileBuffered
<1>1. ClientInv => WatchedWhileBuffered
  BY DEF ClientInv, InvWatched
<1> QED
  BY <1>1, ClientInvariant, PTL

\* When the block of the pipe from the GUI is called the connection was assigned.
LEMMA AssignedInTime ==
  ASSUME ClientInv, Calls("gui in")
  PROVE  IsAssigned("socket")
<1>1. Next_i \in DOMAIN polls /\ polls[Next_i].pd = "gui in"
  BY LoopGoesOn
<1>2. Registered("gui in")
  BY <1>1 DEF ClientInv, InvRegistered
<1>3. "gui in" # PipePd
  BY ChatClientAssumption
<1>4. PICK i \in 1..3 : /\ Registrations[i] = "gui in"
                        /\ i <= assigned \/ (i = assigned + 1 /\ main = "assign")
  BY <1>2, <1>3 DEF Registered
<1>5. i = 2 /\ assigned \in Nat
  <2>1. i = 2
    <3>1. Registrations[i] = "gui in" /\ i \in 1..3
      BY <1>4
    <3> QED
      BY ONLY <3>1, GuiInIsSecond
  <2>2. assigned \in 0..3
    BY Parts DEF ClientTypes
  <2> QED
    BY ONLY <2>1, <2>2
<1>6. 1 \in 1..assigned
  <2>1. 2 <= assigned \/ 2 = assigned + 1
    BY <1>4, <1>5
  <2> QED
    BY ONLY <1>5, <2>1
<1> QED
  BY <1>6, ThreeRegistrations DEF IsAssigned

\* A block ends the process only when the other side is gone, when there was no connection, or
\* when ClientReceive announces to a descriptor the main thread has not assigned yet.
THEOREM DeathHasAReason == Spec => DiesForAReason
<1> DEFINE Reason == \/ socket = "stdin" \/ wire = "reset" \/ gui = "gone"
                     \/ assigned < 3 /\ inBuffer' # inBuffer
<1>1. ASSUME ClientInv, Next, thread' = "dead" PROVE Reason
  <2>1. Running /\ thread # "dead"
    BY <1>1 DEF Next, Running
  <2>2. CASE Main \/ Gui \/ Server
    <3>1. thread' = thread
      BY <2>2 DEF Main, Connects, Registers, Assigns, Quits, Gui, GuiTypes, GuiQuits, Server,
                  ServerReads, OthersTalk, ServerSends, ServerHangsUp, pollVars
    <3> QED
      BY <1>1, <2>1, <3>1
  <2>3. CASE PollLoops \/ PollCallsPipeBlock \/ PollHup \/ PollError
    <3>1. thread' # "dead"
      BY <2>1, <2>3 DEF PollLoops, RegisterPipe, ReadPipe, ApplyRegister, ApplyAdd,
         ApplyRemoveEvent, Applying, ApplyDone, PollReturns, ScanDone, PollCallsPipeBlock,
         PollHup, PollError, StopsRunning
    <3> QED
      BY <1>1, <3>1
  <2>4. CASE Receives
    <3>1. Calls("socket")
      BY <2>4 DEF Receives
    <3>2. CASE socket = "stdin" \/ (wire = "reset" /\ toClient = <<>>)
      BY <3>2
    <3>3. CASE socket # "stdin" /\ wire # "reset" /\ toClient = <<>>
      BY <1>1, <2>1, <2>4, <3>3 DEF Receives, StopsRunning
    <3>4. CASE socket # "stdin" /\ toClient # <<>>
      <4>1. PICK n \in 1..Len(toClient) :
                /\ toClient' = SubSeq(toClient, n + 1, Len(toClient))
                /\ inBuffer' = inBuffer \o SubSeq(toClient, 1, n)
                /\ Announces("gui out")
                /\ UNCHANGED <<main, assigned, socket, keepRunning, outBuffer, guiVars, wire,
                               toServer, told, owed, serverSends, received>>
        BY <2>4, <3>4 DEF Receives
      <4>2. inBuffer' # inBuffer
        BY <1>1, <2>1, <3>1, <3>4, <4>1, ReceivesLines
      <4>3. ~ IsAssigned("gui out")
        BY <1>1, <2>1, <4>1 DEF Announces
      <4>4. assigned < 3
        <5>1. assigned \in 0..3
          BY <1>1, Parts DEF ClientTypes
        <5>2. 3 \notin 1..assigned
          BY <4>3, ThreeRegistrations DEF IsAssigned
        <5> QED
          BY <5>1, <5>2
      <4> QED
        BY <4>2, <4>4
    <3> QED
      BY <3>2, <3>3, <3>4
  <2>5. CASE GuiReads
    <3>1. Calls("gui in") /\ Announces("socket")
      BY <2>5 DEF GuiReads
    <3>2. IsAssigned("socket")
      BY <1>1, <3>1, AssignedInTime
    <3> QED
      BY <1>1, <2>1, <3>1, <3>2 DEF Announces
  <2>6. CASE Sends \/ SendGoesOn \/ GuiWrites
    BY <1>1, <2>1, <2>6 DEF Sends, SendGoesOn, LineGoes, GuiWrites, StopsRunning
  <2> QED
    BY <1>1, <2>2, <2>3, <2>4, <2>5, <2>6 DEF Next, PollThread
<1>2. ClientInv /\ [Next]_vars => [thread' = "dead" => Reason]_vars
  BY <1>1
<1>3. [][thread' = "dead" => Reason]_vars => DiesForAReason
  BY DEF DiesForAReason
<1> QED
  BY <1>2, <1>3, ClientInvariant, PTL DEF Spec
==============================================================================
