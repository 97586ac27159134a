------------------------------ MODULE ChatPoll ------------------------------
(***************************************************************************)
(* chat/net/poll.c: the second version of the poll.  A registration is a   *)
(* PollDescriptor whose events can be changed; it stays until it is        *)
(* removed.  Changes are blocks in the update queue, as in WebPoll.tla,    *)
(* and so is the pipe that announces them.                                 *)
(*                                                                         *)
(* Everybody in the chat registers with queue = NULL, so the blocks run in *)
(* the poll thread; the module has no dispatching.  A module that uses the *)
(* poll says what the blocks do.  updates is the queue FifoQueue specifies. *)
(***************************************************************************)
EXTENDS Naturals, Sequences, FiniteSets, FiniteSetsExt

CONSTANTS PipePd, PipeFd,  \* the registration of poll->updateFDs
          PipeSize,        \* how many bytes fit in the pipe
          ReadSize         \* how many of them one read takes: 255 in the code

ASSUME ChatPollAssumption == PipeSize \in Nat \ {0} /\ ReadSize \in Nat \ {0}

VARIABLES polls,           \* poll->polls and poll->pollInfos, up to numOfPolls
          updates,         \* poll->updateQueue
          pipe,            \* bytes in the pipe
          thread,          \* where PollThread is
          cursor,          \* its loop variable i
          socksToHandle

pollVars == <<polls, updates, pipe, thread, cursor, socksToHandle>>

\* The blocks PollEnqueueUpdate gets.  Nobody adds or removes any event but POLLOUT.
Update(op, pd, fd, events) == [op |-> op, pd |-> pd, fd |-> fd, events |-> events]
Register(pd, fd, events)   == Update("register", pd, fd, events)
AddOut(pd)                 == Update("add", pd, "none", {"out"})
RemoveOut(pd)              == Update("remove event", pd, "none", {"out"})
RemoveEntry(pd)            == Update("remove", pd, "none", {})

PollInit == /\ polls = <<>>
            /\ updates = <<>>
            /\ pipe = 0
            /\ thread = "start"
            /\ cursor = 1
            /\ socksToHandle = 0

\* The write() at the end of PollEnqueueUpdate; a full pipe is ignored.
Written(bytes, times) == Min({PipeSize, bytes + times})

\* PollEnqueueUpdate for each of seq, by the poll thread.
Enqueue(seq) == /\ updates' = updates \o seq
                /\ pipe' = Written(pipe, Len(seq))

\* PollIndexForDescriptor; UINT32_MAX when empty.
IndexOf(pd) == {i \in DOMAIN polls : polls[i].pd = pd}

------------------------------------------------------------------------------
(* PollThread. *)

RegisterPipe ==
  /\ thread = "start"
  /\ Enqueue(<<Register(PipePd, PipeFd, {"in"})>>)
  /\ thread' = "read"
  /\ UNCHANGED <<polls, cursor, socksToHandle>>

ReadPipe ==
  /\ thread \in {"read", "read again"}
  /\ pipe' = IF pipe > ReadSize THEN pipe - ReadSize ELSE 0
  /\ thread' = IF thread = "read" THEN "drain" ELSE "drain again"
  /\ UNCHANGED <<polls, updates, cursor, socksToHandle>>

Applying(op) == /\ thread \in {"drain", "drain again"}
                /\ updates # <<>> /\ Head(updates).op = op
                /\ updates' = Tail(updates)
                /\ UNCHANGED <<pipe, thread, cursor, socksToHandle>>

\* PollDoRegisterDescriptor does not look for an entry that exists.
ApplyRegister ==
  /\ Applying("register")
  /\ polls' = Append(polls, [pd |-> Head(updates).pd, fd |-> Head(updates).fd,
                             events |-> Head(updates).events, revents |-> {}])

\* The other updates write to the entry at the index that was found; when there is none
\* the access far beyond the array ends the program.
Found == CHOOSE i \in IndexOf(Head(updates).pd) : TRUE

\* Mutant: whatever was registered last is changed.
ApplyAddLast ==
  /\ Applying("add") /\ IndexOf(Head(updates).pd) # {}
  /\ polls' = [polls EXCEPT ![Len(polls)].events = @ \cup Head(updates).events]

ApplyAdd ==
  /\ Applying("add") /\ IndexOf(Head(updates).pd) # {}
  /\ polls' = [polls EXCEPT ![Found].events = @ \cup Head(updates).events]

ApplyRemoveEvent ==
  /\ Applying("remove event") /\ IndexOf(Head(updates).pd) # {}
  /\ polls' = [polls EXCEPT ![Found].events = @ \ Head(updates).events]

\* Mutant: the last entry is not brought into the gap, but lost.
ApplyRemoveLast ==
  /\ Applying("remove") /\ IndexOf(Head(updates).pd) # {}
  /\ polls' = SubSeq(polls, 1, Len(polls) - 1)

\* The last entry is brought into the gap.
ApplyRemove ==
  /\ Applying("remove") /\ IndexOf(Head(updates).pd) # {}
  /\ polls' = [i \in 1..(Len(polls) - 1) |-> IF i = Found THEN polls[Len(polls)] ELSE polls[i]]

ApplyDone ==
  /\ thread \in {"drain", "drain again"} /\ updates = <<>>
  /\ thread' = IF thread = "drain" THEN "poll" ELSE "scan"
  /\ UNCHANGED <<polls, updates, pipe, cursor, socksToHandle>>

\* poll(): reports is what the kernel finds for each entry.  When it has nothing to
\* report the call returns 0 after a second.
PollReturns(reports) ==
  /\ thread = "poll"
  /\ polls' = [i \in DOMAIN polls |-> [polls[i] EXCEPT !.revents = reports[i]]]
  /\ socksToHandle' = Cardinality({i \in DOMAIN polls : reports[i] # {}})
  /\ thread' = "read again"
  /\ UNCHANGED <<updates, pipe, cursor>>

\* The entries with events the loop has not looked at yet.
Pending == {i \in cursor..Len(polls) : polls[i].revents # {}}
Next_i  == Min(Pending)

\* The loop reaches an entry with events; its block is called in the same step.
Calls(pd) == /\ thread = "scan" /\ Pending # {} /\ socksToHandle > 0
             /\ polls[Next_i].pd = pd
             /\ socksToHandle' = socksToHandle - 1
             /\ cursor' = Next_i + 1
             /\ UNCHANGED polls
Reported  == polls[Next_i].revents

ScanDone ==
  /\ thread = "scan"
  /\ Pending = {} \/ socksToHandle = 0
  /\ thread' = "read"
  \* What poll() overwrites before it is read again is forgotten.
  /\ polls' = [i \in DOMAIN polls |-> [polls[i] EXCEPT !.revents = {}]]
  /\ cursor' = 1 /\ socksToHandle' = 0
  /\ UNCHANGED <<updates, pipe>>

------------------------------------------------------------------------------
(* What the properties of the modules that use the poll speak of. *)

\* The updates of seq that change whether POLLOUT is set for pd.
Changes(seq, pd) == {i \in DOMAIN seq : seq[i].pd = pd /\ seq[i].op \in {"add", "remove event"}}

\* Whether POLLOUT is set for pd once the updates queued so far are applied: the last of
\* those that change it decides.
WillWatch(pd) ==
  LET changes == Changes(updates, pd)
  IN  IF changes # {} THEN updates[Max(changes)].op = "add"
      ELSE \E i \in IndexOf(pd) : "out" \in polls[i].events
==============================================================================
