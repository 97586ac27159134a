------------------------------- MODULE WebPoll -------------------------------
(***************************************************************************)
(* webserver/net/poll.c: a thread that waits for events on a set of file   *)
(* descriptors.  Other threads change the set by queueing updates and      *)
(* writing a byte to a pipe the thread also waits on.                      *)
(*                                                                         *)
(* The module describes what the poll does to its own state; a module that *)
(* uses a poll says what the registered blocks do and what releasing one   *)
(* entails, and leaves the rest to the actions below.  updates is the      *)
(* queue FifoQueue specifies.                                              *)
(***************************************************************************)
EXTENDS Naturals, Sequences, FiniteSets, FiniteSetsExt

CONSTANTS PipeFd,      \* poll->updateFDs, the pipe
          PipeBlock,   \* the empty block registered for it
          NoBlock,     \* the block of an update that removes
          PipeSize,    \* how many bytes fit in the pipe
          ReadSize     \* how many of them one read takes: 255 in the code

ASSUME WebPollAssumption == PipeSize \in Nat \ {0} /\ ReadSize \in Nat \ {0}

VARIABLES polls,          \* poll->polls and poll->pollInfos, up to numOfPolls
          updates,        \* poll->updateQueue
          pipe,           \* bytes in the pipe
          thread,         \* where PollThread is
          cursor,         \* its loop variable i
          socksToHandle

pollVars == <<polls, updates, pipe, thread, cursor, socksToHandle>>

\* A _PollUpdate.  Which queue a block is dispatched to, if any, goes by the block.
Register(fd, block, events, repeat) ==
  [fd |-> fd, block |-> block, events |-> events, repeat |-> repeat, revents |-> "none"]
Unregister(fd) == Register(fd, NoBlock, "none", FALSE)

PollInit == /\ polls = <<>>
            /\ updates = <<>>
            /\ pipe = 0
            /\ thread = "start"
            /\ cursor = 1
            /\ socksToHandle = 0

\* What follows QueueEnqueue in PollRegister and PollUnregister; a full pipe is ignored.
Written(bytes) == IF bytes < PipeSize THEN bytes + 1 ELSE bytes
Notify == pipe' = Written(pipe)

\* The indices of fd in polls: at most one.
IndexOf(fd) == {i \in DOMAIN polls : polls[i].fd = fd}

------------------------------------------------------------------------------
(* PollThread.  The thread's own PollRegister and PollUnregister are one step: *)
(* nobody else drains the queue or reads the pipe meanwhile.                   *)

RegisterPipe ==
  /\ thread = "start"
  /\ updates' = Append(updates, Register(PipeFd, PipeBlock, "in", TRUE))
  /\ Notify
  /\ thread' = "read"
  /\ UNCHANGED <<polls, cursor, socksToHandle>>

\* PollApplyUpdates takes the bytes first: a byte written later announces a later update.
ReadPipe ==
  /\ thread \in {"read", "read again"}
  /\ pipe' = IF pipe > ReadSize THEN pipe - ReadSize ELSE 0
  /\ thread' = IF thread = "read" THEN "drain" ELSE "drain again"
  /\ UNCHANGED <<polls, updates, cursor, socksToHandle>>

Draining == thread \in {"drain", "drain again"} /\ updates # <<>>

\* The block that applying the next update releases: the one it replaces or removes.
Displaced == LET found == IndexOf(Head(updates).fd)
             IN  IF found = {} THEN NoBlock ELSE polls[CHOOSE i \in found : TRUE].block

\* The new entry starts with the revents of the update, 0.
ApplyRegister(extra) ==
  LET found == IndexOf(Head(updates).fd)
  IN  /\ Draining /\ Head(updates).block # NoBlock
      /\ polls' = IF found = {} THEN Append(polls, Head(updates))
                  ELSE [polls EXCEPT ![CHOOSE i \in found : TRUE] = Head(updates)]
      /\ updates' = Tail(updates) \o extra
      /\ UNCHANGED <<thread, cursor, socksToHandle>>

\* The last entry moves into the gap, with its revents. 
ApplyUnregister(extra) ==
  LET found == IndexOf(Head(updates).fd)
      last  == Len(polls)
  IN  /\ Draining /\ Head(updates).block = NoBlock
      /\ polls' = IF found = {} THEN polls
                  ELSE [i \in 1..(last - 1) |-> IF i \in found THEN polls[last] ELSE polls[i]]
      /\ updates' = Tail(updates) \o extra
      /\ UNCHANGED <<thread, cursor, socksToHandle>>

\* Mutant: "while" became "if", one update is applied at a time.
ApplyOneOnly ==
  /\ thread \in {"drain", "drain again"}
  /\ thread' = IF thread = "drain" THEN "poll" ELSE "scan"
  /\ UNCHANGED <<polls, updates, pipe, cursor, socksToHandle>>

ApplyDone ==
  /\ thread \in {"drain", "drain again"} /\ updates = <<>>
  /\ thread' = IF thread = "drain" THEN "poll" ELSE "scan"
  /\ UNCHANGED <<polls, updates, pipe, cursor, socksToHandle>>

\* poll(): reports is what the kernel finds for each entry.  When it has nothing to
\* report the call returns 0 after a second.
PollReturns(reports) ==
  /\ thread = "poll"
  /\ polls' = [i \in DOMAIN polls |-> [polls[i] EXCEPT !.revents = reports[i]]]
  /\ socksToHandle' = Cardinality({i \in DOMAIN polls : reports[i] # "none"})
  /\ thread' = "read again"
  /\ UNCHANGED <<updates, pipe, cursor>>

\* The entries with events the loop has not looked at yet.
Pending == {i \in cursor..Len(polls) : polls[i].revents # "none"}
Current == polls[cursor]

\* Mutant: an entry that fired stays.
FireForever ==
  /\ thread = "scan" /\ Pending # {} /\ socksToHandle > 0
  /\ cursor' = Min(Pending)
  /\ socksToHandle' = socksToHandle - 1
  /\ thread' = "call"
  /\ UNCHANGED <<polls, updates, pipe>>

\* "We need to enqueue the update before to let the block reregister itself."
Fire ==
  /\ thread = "scan" /\ Pending # {} /\ socksToHandle > 0
  /\ cursor' = Min(Pending)
  /\ socksToHandle' = socksToHandle - 1
  /\ IF polls[cursor'].repeat THEN UNCHANGED <<updates, pipe>>
     ELSE updates' = Append(updates, Unregister(polls[cursor'].fd)) /\ Notify
  /\ thread' = "call"
  /\ UNCHANGED <<polls>>

\* The block was called or dispatched; on to the next entry.
Called == /\ thread' = "scan"
          /\ cursor' = cursor + 1
          /\ UNCHANGED <<polls, socksToHandle>>

ScanDone ==
  /\ thread = "scan"
  /\ Pending = {} \/ socksToHandle = 0
  /\ thread' = "read"
  \* What poll() overwrites before it is read again is forgotten.
  /\ polls' = [i \in DOMAIN polls |-> [polls[i] EXCEPT !.revents = "none"]]
  /\ cursor' = 1 /\ socksToHandle' = 0
  /\ UNCHANGED <<updates, pipe>>
==============================================================================
