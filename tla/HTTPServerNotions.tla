-------------------------- MODULE HTTPServerNotions --------------------------
(***************************************************************************)
(* The notions in which HTTPServerProofs reasons about HTTPServer and      *)
(* HTTPAnswer: what the invariants say of one connection, and what a step  *)
(* does to it.  No state, no action and no property is defined here.       *)
(***************************************************************************)
EXTENDS HTTPAnswer

------------------------------------------------------------------------------
(* Sequences and bags. *)

\* f says what the first n sequences of h are one after the other, for every n.
Flattens(f, h, N) ==
  /\ \A i \in 1..N : f[i] = IF i = 1 THEN h[i] ELSE f[i - 1] \o h[i]
  /\ \A n \in 1..N : FlattenSeq([i \in 1..n |-> h[i]]) = f[n]

\* The copies of those members of a bag that are in a set.
Chosen(B, S)      == BagToSet(B) \cap S
CopiesAmong(B, S) == UNION {{j} \X (1..B[j]) : j \in Chosen(B, S)}

\* 1 or 0.
One(b) == IF b THEN 1 ELSE 0

------------------------------------------------------------------------------
(* The blocks of a connection. *)

\* The copies of blocks that capture c in a bag of jobs: those of Blocks(c) in jobs.
BlocksOf(B, c)  == {j \in BagToSet(B) : j.conn = c /\ j.kind # "dealloc"}
CopiesOf(B, c)  == UNION {{j} \X (1..B[j]) : j \in BlocksOf(B, c)}
IsBlockOf(j, c) == j.conn = c /\ j.kind # "dealloc"

\* The jobs a connection is worked on by, in any bag of jobs: those of AtWork(c) in jobs.
IsAtWork(j)  == j.kind # "dealloc" /\ j.step \in {"start", "hup", "sending", "closing", "close"}
WorkOf(B, c) == {j \in BagToSet(B) : j.conn = c /\ IsAtWork(j)}

JobKinds == {"read", "process", "send", "dealloc"}
JobSteps == {"start", "hup", "sending", "notify", "closing", "close", "finish"}

------------------------------------------------------------------------------
(* What a step changes. *)

\* Nothing begins for d, but what there is may end.
Undisturbed(d) ==
  /\ \A k \in Capturing(updates', d) :
       k \in Capturing(updates, d) /\ updates'[k].fd = updates[k].fd
  /\ \A i \in Armed(d)' : i \in Armed(d) /\ polls'[i].fd = polls[i].fd
  /\ \A j \in AtWork(d)' : j \in AtWork(d) /\ jobs'[j] = jobs[j]
  /\ Creating(d)' => Creating(d)
  /\ Fired(d)' => Fired(d)
  /\ socket'[d] = socket[d]

\* A removal nobody minds, at the end of the queue.
Unneeded(fd) ==
  /\ \A k \in DOMAIN updates : updates[k].block \in Connections => updates[k].fd # fd
  /\ \A i \in DOMAIN polls :
       polls[i].block \in Connections /\ polls[i].fd = fd => Removed(i)

\* What a job more, or one less, or one that goes on as another, means for those of c.
Added(A, B, j, c) ==
  /\ WorkOf(A, c) = WorkOf(B, c) \cup (IF j.conn = c /\ IsAtWork(j) THEN {j} ELSE {})
  /\ \A k \in WorkOf(B, c) : k # j => A[k] = B[k]
Dropped(A, B, j, c) ==
  /\ WorkOf(A, c) = IF B[j] = 1 THEN WorkOf(B, c) \ {j} ELSE WorkOf(B, c)
  /\ \A k \in WorkOf(B, c) : k # j => A[k] = B[k]
Advanced(A, B, j, new, c) ==
  /\ WorkOf(A, c) = (IF B[j] = 1 THEN WorkOf(B, c) \ {j} ELSE WorkOf(B, c))
                      \cup (IF new.conn = c /\ IsAtWork(new) THEN {new} ELSE {})
  /\ Cardinality(CopiesOf(A, c)) + (IF IsBlockOf(j, c) THEN 1 ELSE 0) =
       Cardinality(CopiesOf(B, c)) + (IF IsBlockOf(new, c) THEN 1 ELSE 0)
  /\ \A k \in BagToSet(B) : k # j /\ k # new => A[k] = B[k]
  /\ A[new] = IF new \in BagToSet(B) THEN B[new] + 1 ELSE 1

\* Where the entries are afterwards: n is the index of the new one, if there is one, and s[i]
\* the index that the entry at i had.
MovedTo(n, s) ==
  /\ \A i \in DOMAIN polls' :
       \/ i = n /\ Head(updates).block # NoBlock /\ polls'[i] = Head(updates)
       \/ /\ i # n /\ s[i] \in DOMAIN polls /\ s[i] \notin IndexOf(Head(updates).fd)
          /\ polls'[i] = polls[s[i]]
  /\ \A i, m \in DOMAIN polls' : i # n /\ m # n /\ s[i] = s[m] => i = m
  /\ \A i \in DOMAIN polls' : i \in Nat
  /\ \A d \in Connections :
       /\ Cardinality(Capturing(polls', d)) \in Nat
       /\ Cardinality(Capturing(polls', d)) + (IF Displaced = d THEN 1 ELSE 0) =
            Cardinality(Capturing(polls, d)) + (IF Head(updates).block = d THEN 1 ELSE 0)

------------------------------------------------------------------------------
(* What the invariant says of one connection, and of all. *)

\* The references of c are counted right, one place at most works on it, with its descriptor.
Exact(c) ==
  retainCount[c] = Cardinality(Capturing(updates, c)) + Cardinality(Capturing(polls, c))
                 + Cardinality(CopiesOf(jobs, c)) + (IF accepting = c THEN 1 ELSE 0)
WellHeld(c) == Exact(c) /\ Alone(c) /\ HasDescriptor(c)

\* What every step keeps.
Held == (\A c \in Connections : WellHeld(c)) /\ InvQueueOrder /\ InvEntries /\ InvArmed

------------------------------------------------------------------------------
(* Texts and responses. *)

\* The parts of an answer, and the bytes they consist of.
Parts    == [part : {"status line", "key", "delimiter", "value", "line end", "headers end", "body"},
             header : Nat]
Alphabet == Parts \X Nat

\* A sequence that goes on as another.
Starts(s, t) == \E u \in Seq(Alphabet) : t = s \o u

\* A response of which a part is being sent, the size of that part, and what has been
\* sent when it is.
Underway(r) == /\ r \in Responses
               /\ r.sendStatus \in {"status line", "headers", "body"} /\ r.extra = r.sendStatus
PartSize(r) == IF SendsFile(r) THEN BodySize(r.body) ELSE StringSize
Whole(r)    == Before(r) \o Bytes(CurrentPart(r), PartSize(r))

\* The numbers of a response, and where it stands.
Numbers(r) ==
  /\ r.retainCount \in Nat /\ r.retainCount > 0
  /\ r.sentBytes \in Nat /\ r.sentBytes < StringSize
  /\ r.iter \in Nat /\ r.iter >= 1 /\ r.iter <= Headers + 1
  /\ r.fileOffset \in Nat /\ r.fileOffset <= BodySize(r.body) /\ BodySize(r.body) \in Nat
Stands(r) ==
  /\ r.body \in Bodies
  /\ r.sendStatus \in {"not started", "status line", "headers", "body", "complete"}
  /\ r.extra \in {"none", "status line", "headers", "body"}
  /\ r.extra # "none" => r.extra = r.sendStatus
  /\ r.status \in {"key", "delimiter", "value", "line end", "headers end"}

\* n is a response that goes on where q is when the kernel has got t, or is complete because t is
\* all there is.
Continues(q, n, t) ==
  /\ n \in Responses /\ n.body = q.body /\ n.retainCount = q.retainCount
  /\ n.sendStatus = "complete" => t = Text[q.body]
  /\ n.sendStatus # "complete" => SentBy(Begun(n)) = t

\* What a call of send() makes of the response, and what the kernel has got after it.
Sound(q, r, t, short, lost) ==
  /\ q \in Responses /\ q.body = r.body /\ q.retainCount = r.retainCount
  /\ q.sendStatus # "complete" => SentBy(Begun(q)) = t
  /\ q.sendStatus = "complete" => ~short /\ IsPrefix(t, Text[q.body]) /\ (t = Text[q.body] \/ lost)

\* The responses stay what they are, one for each connection.
Shaped == /\ DOMAIN response' = Connections /\ DOMAIN sent' = Connections
          /\ response' = [c \in DOMAIN response' |-> response'[c]]

------------------------------------------------------------------------------
(* Who holds and who asks for a response. *)

\* What an update or an entry is for.
Purpose(e)    == [block |-> <<e.block, e.events>>]
Purposes(seq) == [i \in DOMAIN seq |-> Purpose(seq[i])]
AnyPurpose    == {Purpose(e) : e \in Updates}

\* Whether an update resumes an answer.
Resumes(e, c) == e.block = c /\ e.events = "out"

\* The jobs that use the response of c, and all who hold it.
UserSet(c)            == {k \in Jobs : Uses(k, c)}
Users(B, c)           == Cardinality(CopiesAmong(B, UserSet(c)))
Holders(us, ps, B, c) == Cardinality(Resuming(us, c)) + Cardinality(Resuming(ps, c))
                           + Cardinality(CopiesAmong(B, UserSet(c)))

\* The updates, entries and jobs that ServerInv describes.
GoodQueues(us, ps, B) == /\ us \in Seq(Updates) /\ ps \in Seq(Updates)
                         /\ IsABag(B) /\ IsFiniteSet(BagToSet(B)) /\ BagToSet(B) \subseteq Jobs

\* A job that asks for an answer, and one that is about to close.
Asks(j, c) == j.conn = c /\ j.kind = "process" /\ j.step = "start"
Ends(j, c) == j.conn = c /\ j.kind # "dealloc" /\ j.step \in {"closing", "close"}

\* A request of c waits for its answer to begin; a block of c is about to close it.
Asking(B, c) == \E j \in BagToSet(B) : j.conn = c /\ j.kind = "process" /\ j.step = "start"
Ending(B, c) == \E j \in BagToSet(B) : /\ j.conn = c /\ j.kind # "dealloc"
                                       /\ j.step \in {"closing", "close"}

\* What is registered for a connection waits for something.
Waits(e) == e.block \in Connections => e.events # "none"

\* Only a job that answers sends and closes.
Answers(j) == j.step \in {"sending", "closing", "close"} => j.kind # "read"

------------------------------------------------------------------------------
(* What the invariant of the answers says of one connection. *)

\* Before the server has read a request.
EarlyWires == {"away", "backlog", "quiet", "some", "request"}

\* What the kernel has got of the answer of c; its connection ends when it has got all.
Got(c) == LET r == response[c]
          IN  IF r.sendStatus # "complete" THEN sent[c] = SentBy(Begun(r))
              ELSE /\ IsPrefix(sent[c], Text[r.body])
                   /\ sent[c] = Text[r.body] \/ wire[c] \in {"reset", "gone"}
ClosesOnce(c) == /\ response[c].sendStatus = "complete" => socket[c] = None \/ Ending(jobs, c)
                 /\ Ending(jobs, c) => response[c].sendStatus = "complete"

\* What the invariant of the answers says of one connection.
Served(c) ==
  /\ response[c].retainCount = Holders(updates, polls, jobs, c)
  /\ response[c] \in Responses \cup {NoResponse}
  /\ response[c] = NoResponse => sent[c] = <<>>
  /\ wire[c] \in EarlyWires => Holders(updates, polls, jobs, c) = 0 /\ ~Asking(jobs, c)
  /\ Asking(jobs, c) => response[c] = NoResponse
  /\ wire[c] = "gone" => socket[c] = None
  /\ response[c] # NoResponse => ClosesOnce(c) /\ Got(c)

\* Everything that is known of a response while a block sends from it.
Sends(j) ==
  /\ j.conn \in Connections /\ Uses(j, j.conn) /\ j.kind \in {"process", "send"}
  /\ response[j.conn] \in Responses /\ response[j.conn].sendStatus # "complete"
  /\ response[j.conn] # NoResponse
  /\ sent[j.conn] = SentBy(Begun(response[j.conn]))
  /\ ~Ending(jobs, j.conn) /\ ~Asking(jobs, j.conn)
  /\ wire[j.conn] \notin EarlyWires \cup {"gone"} /\ socket[j.conn] # None

------------------------------------------------------------------------------
(* How the answer of a connection goes on. *)

\* As many more hold its response.
Counted(c, n) == Holders(updates', polls', jobs', c) = Holders(updates, polls, jobs, c) + n

\* How a connection's wire and its jobs go on, and how many more hold its response.
WiresGoOn(c) == /\ wire'[c] \in EarlyWires => wire[c] \in EarlyWires
                /\ wire'[c] = "gone" => socket'[c] = None
                /\ wire[c] \in {"reset", "gone"} => wire'[c] \in {"reset", "gone"}
                /\ socket'[c] \in {socket[c], None} \/ wire[c] = "backlog"
JobsGoOn(c)  == /\ Asking(jobs', c) => \/ Asking(jobs, c)
                                       \/ wire[c] \in EarlyWires /\ wire'[c] \notin EarlyWires
                /\ Ending(jobs', c) => Ending(jobs, c)
                /\ Ending(jobs, c) => Ending(jobs', c) \/ socket'[c] = None
Steady(c, n)  == WiresGoOn(c) /\ JobsGoOn(c) /\ Counted(c, n)

\* What becomes of the response: nothing, or one who holds it more or less.
Passes(c, n) ==
  \/ n = 0 /\ response'[c] = response[c] /\ sent'[c] = sent[c]
  \/ /\ n \in {-1, 1} /\ Holders(updates, polls, jobs, c) # 0
     /\ response'[c] = Referenced(response[c], n)
     /\ sent'[c] = IF response'[c] = NoResponse THEN <<>> ELSE sent[c]

==============================================================================
