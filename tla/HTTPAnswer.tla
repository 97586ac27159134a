------------------------------ MODULE HTTPAnswer ------------------------------
(***************************************************************************)
(* The web server of HTTPServer with its answers spelled out: what         *)
(* HTTPProcessRequest decides to send, each call of send() and sendfile()  *)
(* that HTTPResponse makes, what the kernel takes of it, and how long the  *)
(* response object, which owns the open file, lives.                       *)
(***************************************************************************)
EXTENDS HTTPServer, HTTPResponse

VARIABLES response,   \* the response of each connection
          sent        \* history: what the kernel took of it, while it lives

answerVars == <<response, sent>>

\* No response was created yet, or it was freed.
NoResponse == [retainCount |-> 0]

AnswerInit == /\ Init
              /\ response = [c \in Connections |-> NoResponse]
              /\ sent = [c \in Connections |-> <<>>]

\* Retain(r) and Release(r), n references at once; the last one runs HTTPResponseDealloc,
\* which closes the file.
Referenced(r, n) == IF r.retainCount + n = 0 THEN NoResponse ELSE [r EXCEPT !.retainCount = @ + n]
RetainResponse(c, n) ==
  /\ response' = [response EXCEPT ![c] = Referenced(@, n)]
  /\ sent' = IF response'[c] = NoResponse THEN [sent EXCEPT ![c] = <<>>] ELSE sent

------------------------------------------------------------------------------
(* Sending. *)

\* HTTPProcessRequest, up to the call of HTTPSendResponse.
JobProcesses(j) ==
  /\ JobAnswers(j) /\ j.kind = "process"
  /\ \E body \in Bodies : response' = [response EXCEPT ![j.conn] = HTTPResponseCreate(body)]
  /\ UNCHANGED sent

\* The block registered for POLLOUT calls HTTPSendResponse.
JobResumes(j) == JobAnswers(j) /\ j.kind = "send" /\ UNCHANGED answerVars

\* Mutant of Returns: the rest is left, but to nobody.
ReturnsUnregistered(j, r, short) ==
  /\ response' = [response EXCEPT ![j.conn] = r]
  /\ IF short THEN /\ jobs' = To(j, "notify")
                   /\ UNCHANGED <<jobFrame, updates, pipe, retainCount, socket, owner, wire>>
     ELSE IF r.sendStatus = "complete" THEN AnswerSent(j) ELSE AnswerGoesOn

\* What follows one call of send() or sendfile(): the next one, or the end of
\* HTTPResponseSend.  The block that is registered for the rest captures the response.
Returns(j, r, short) ==
  /\ response' = [response EXCEPT ![j.conn] = Referenced(r, IF short THEN 1 ELSE 0)]
  /\ IF short THEN AnswerShort(j)
     ELSE IF r.sendStatus = "complete" THEN AnswerSent(j) ELSE AnswerGoesOn

\* The kernel takes what it has room for; with no room the call fails with EAGAIN.
JobSendsPart(j) ==
  LET c == j.conn
      r == Begun(response[c])
      s == Min({room[c], Remaining(r)})
  IN  /\ j.step = "sending"
      /\ wire[c] # "reset"
      /\ r.sendStatus = "body" => r.body # "unopened file"
      /\ room' = [room EXCEPT ![c] = @ - s]
      /\ sent' = [sent EXCEPT ![c] = @ \o Taken(r, s)]
      /\ IF SendsFile(r) THEN Returns(j, FileSent(r, s), Remaining(r) > 0)
         ELSE Returns(j, StringSent(r, s), s < Remaining(r))

\* An error of send() counts as short.  One of sendfile(), -1 in a bool, counts as sent.
JobFailsToSend(j) ==
  LET c == j.conn
      r == Begun(response[c])
  IN  /\ j.step = "sending"
      /\ wire[c] = "reset" \/ (r.sendStatus = "body" /\ r.body = "unopened file")
      /\ IF SendsFile(r) THEN Returns(j, Passed(r), FALSE) ELSE Returns(j, r, TRUE)
      /\ UNCHANGED <<room, sent>>

------------------------------------------------------------------------------
(* What HTTPServer's steps do to the response that a block captures. *)

\* Does applying the next update release a block that captures a response?
DisplacesSend == /\ Draining
                 /\ \E i \in IndexOf(Head(updates).fd) : polls[i].events = "out"

PollAppliesToResponse ==
  /\ PollApplies
  /\ IF DisplacesSend THEN RetainResponse(Displaced, -1) ELSE UNCHANGED answerVars

\* Mutant: the wrapper of a dispatched block does not retain what the block captures.
PollDispatchesResponseBorrowed ==
  /\ PollDispatches
  /\ UNCHANGED answerVars

PollDispatchesResponse ==
  /\ PollDispatches
  /\ IF Current.events = "out" THEN RetainResponse(Current.block, 1) ELSE UNCHANGED answerVars

\* HTTPProcessRequest releases the response it created; a block, what it captured.
JobFinishesResponse(j) ==
  /\ JobFinishes(j)
  /\ IF j.kind \in {"process", "send"} THEN RetainResponse(j.conn, -1) ELSE UNCHANGED answerVars

------------------------------------------------------------------------------

AnswerPollThread ==
  \/ PollAppliesToResponse
  \/ PollDispatchesResponse
  \/ /\ PollLoops \/ PollCallsPipeBlock \/ PollAccepts \/ PollAcceptsNothing \/ PollReads
          \/ PollReleases
     /\ UNCHANGED answerVars

AnswerRun(j) ==
  \/ JobProcesses(j) \/ JobResumes(j) \/ JobSendsPart(j) \/ JobFailsToSend(j)
  \/ JobFinishesResponse(j)
  \/ /\ JobHup(j) \/ JobReads(j) \/ JobNotifies(j) \/ JobCloses(j)
     /\ UNCHANGED answerVars

AnswerNext == \/ Main /\ UNCHANGED answerVars
              \/ AnswerPollThread
              \/ \E j \in BagToSet(jobs) : AnswerRun(j)
              \/ \E c \in Connections : Peer(c) /\ UNCHANGED answerVars

\* Every thread of the server is scheduled; a peer that was sent something reads it.
AnswerSpec ==
  /\ AnswerInit /\ [][AnswerNext]_<<vars, answerVars>>
  /\ WF_<<vars, answerVars>>(Main /\ UNCHANGED answerVars)
  /\ WF_<<vars, answerVars>>(AnswerPollThread)
  /\ \A c \in Connections :
       /\ WF_<<vars, answerVars>>(\E j \in BagToSet(jobs) : j.conn = c /\ AnswerRun(j))
       /\ WF_<<vars, answerVars>>(Receives(c) /\ UNCHANGED answerVars)

------------------------------------------------------------------------------
(* Properties. *)

\* "If returns false, you need to call this method again when the socket is able to write
\* data": however the answer is cut, by a full buffer or by whoever resumes it, the kernel
\* gets its bytes in order and each once, and the server closes the connection only when
\* it got them all, or when the peer is gone.
AnswerInOrder ==
  \A c \in Connections : response[c] # NoResponse =>
    /\ IsPrefix(sent[c], Text[response[c].body])
    /\ (\E j \in Blocks(c) : j.step \in {"closing", "close"}) =>
         sent[c] = Text[response[c].body] \/ wire[c] = "reset"

\* Who is going to use a response: updates and entries whose block sends the rest, and the
\* blocks and the job at it.
Resuming(seq, c) == {i \in DOMAIN seq : seq[i].block = c /\ seq[i].events = "out"}
Uses(j, c)       == /\ j.conn = c
                    /\ j.kind = "send" \/ (j.kind = "process" /\ j.step # "start")

\* The response and its open file live exactly as long as somebody is going to use them:
\* a block that sends the rest, waiting or dispatched, or the job that created it.
ResponseHeld ==
  \A c \in Connections :
    response[c].retainCount = Cardinality(Resuming(updates, c)) + Cardinality(Resuming(polls, c))
                            + Cardinality(Copies({j \in BagToSet(jobs) : Uses(j, c)}))

\* HTTPServer, in which an answer may come up short anywhere: what holds of its connections
\* holds of these.
ServerSpec == Spec

------------------------------------------------------------------------------
(* What makes these inductive. *)

\* A connection has a response as long as one is held, and it is one.
InvResponses ==
  /\ response \in [Connections -> Responses \cup {NoResponse}]
  /\ DOMAIN sent = Connections
  /\ \A c \in Connections : response[c] = NoResponse => sent[c] = <<>>

\* What is registered for a connection waits for something, and only a job that answers
\* sends and closes.
InvKinds ==
  /\ \A k \in DOMAIN updates : updates[k].block \in Connections => updates[k].events # "none"
  /\ \A i \in DOMAIN polls : polls[i].block \in Connections => polls[i].events # "none"
  /\ \A j \in BagToSet(jobs) :
       j.step \in {"sending", "closing", "close"} => j.kind # "read"

\* Until its request is read nobody answers a connection, and it has no response until
\* the answer begins.
Unanswered(c) ==
  /\ \A k \in Capturing(updates, c) : updates[k].events # "out"
  /\ \A i \in Capturing(polls, c) : polls[i].events # "out"
  /\ \A j \in Blocks(c) : j.kind = "read"
InvFresh ==
  /\ \A c \in Connections :
       wire[c] \in {"away", "backlog", "quiet", "some", "request"} => Unanswered(c)
  /\ \A j \in BagToSet(jobs) :
       j.kind = "process" /\ j.step = "start" => response[j.conn] = NoResponse

\* A connection is closed when its answer is complete, and then only.
InvClosing ==
  /\ \A c \in Connections :
       response[c] # NoResponse /\ response[c].sendStatus = "complete" =>
         socket[c] = None \/ \E j \in Blocks(c) : j.step \in {"closing", "close"}
  /\ \A c \in Connections :
       response[c] # NoResponse /\ (\E j \in Blocks(c) : j.step \in {"closing", "close"}) =>
         response[c].sendStatus = "complete"
  /\ \A c \in Connections : wire[c] = "gone" => socket[c] = None

\* The kernel got what the response says it did.
InvSent ==
  \A c \in Connections :
    LET r == response[c]
    IN  r # NoResponse =>
          IF r.sendStatus # "complete" THEN sent[c] = SentBy(Begun(r))
          ELSE /\ IsPrefix(sent[c], Text[r.body])
               /\ sent[c] = Text[r.body] \/ wire[c] \in {"reset", "gone"}

AnswerInv == /\ ServerInv /\ ResponseHeld /\ InvResponses /\ InvKinds /\ InvFresh
             /\ InvClosing /\ InvSent
==============================================================================
