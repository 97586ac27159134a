------------------------------ MODULE ChatServer ------------------------------
(***************************************************************************)
(* The chat server: chat/server/listener.c accepts clients, client.c reads *)
(* their lines and writes what they are told, server.c tells everybody.    *)
(* All of it runs in the thread of chat/net/poll.c; the main thread only   *)
(* registers the listener.  A handler is therefore one step; what happens  *)
(* around it is the peers', and the updates it queues take effect later.   *)
(*                                                                         *)
(* Sockets are left blocking: a send() that does not fit stops the thread. *)
(* A buffer is what the handlers ask of it: is there something to write,   *)
(* how many complete lines are left to handle.                             *)
(***************************************************************************)
EXTENDS ChatPoll, Functions, SequencesExt

CONSTANTS Clients,       \* Client objects: a bound, each created once
          Sockets,       \* descriptors the kernel may give to a client
          ListenPd, ListenFd,
          Names,         \* numbers: the n of Derp<n>; what else /nick may choose
          MaxPieces,     \* bound: what a peer sends, in pieces with at most one line end
          None

ASSUME ChatServerAssumption ==
  /\ IsFiniteSet(Clients) /\ IsFiniteSet(Sockets) /\ IsFiniteSet(Names)
  /\ Names \subseteq Nat /\ Cardinality(Names) >= Cardinality(Clients)
  /\ MaxPieces \in Nat
  /\ {PipePd, ListenPd, None} \cap Clients = {} /\ PipePd # ListenPd
  /\ {PipeFd, ListenFd, None} \cap Sockets = {} /\ PipeFd # ListenFd

VARIABLES
  \* the Client objects
  life,          \* "unborn", "member", "left" after ClientDisconnect, "freed"
  socket,        \* client->socket; None is -1
  nickname,      \* client->nickname
  outBuffer,     \* is there something in it?
  inBuffer,      \* how many complete lines it holds
  clients,       \* server->clients: who has a name
  main,          \* what the main thread still has to do
  \* the kernel and the peers
  owner,         \* whose connection a descriptor is
  wire,          \* the state of the connection
  arrived,       \* pieces recv would find
  sent,          \* how many pieces the peer sent
  writable       \* is there room to send?

clientVars == <<life, socket, nickname, outBuffer, inBuffer, clients>>
netVars    == <<owner, wire, arrived, sent, writable>>
vars       == <<pollVars, clientVars, main, netVars>>

Descriptors == Clients \cup {PipePd, ListenPd}
Handles == Sockets \cup {PipeFd, ListenFd, None}
Entries == [pd : Descriptors, fd : Handles,
            events : SUBSET {"in", "out"}, revents : SUBSET {"in", "out", "hup"}]

TypeOK ==
  /\ polls \in Seq(Entries)
  /\ \A i \in DOMAIN updates : updates[i].pd \in Descriptors
  /\ pipe \in 0..PipeSize
  /\ thread \in {"start", "read", "drain", "poll", "read again", "drain again", "scan", "send"}
  /\ cursor \in Nat \ {0} /\ socksToHandle \in Nat
  /\ life \in [Clients -> {"unborn", "member", "left", "freed"}]
  /\ socket \in [Clients -> Sockets \cup {None}]
  /\ nickname \in [Clients -> Names \cup {None}]
  /\ outBuffer \in [Clients -> BOOLEAN] /\ inBuffer \in [Clients -> 0..MaxPieces]
  /\ clients \in [Names -> Clients \cup {None}]
  /\ main \in {"register", "notify", "sleep"}
  /\ owner \in [Sockets -> Clients \cup {None}]
  /\ wire \in [Clients -> {"away", "backlog", "open", "closed", "reset", "gone"}]
  /\ arrived \in [Clients -> 0..MaxPieces] /\ sent \in [Clients -> 0..MaxPieces]
  /\ writable \in [Clients -> BOOLEAN]

Init ==
  /\ PollInit
  /\ life = [c \in Clients |-> "unborn"]
  /\ socket = [c \in Clients |-> None]
  /\ nickname = [c \in Clients |-> None]
  /\ outBuffer = [c \in Clients |-> FALSE]
  /\ inBuffer = [c \in Clients |-> 0]
  /\ clients = [n \in Names |-> None]
  /\ main = "register"
  /\ owner = [s \in Sockets |-> None]
  /\ wire = [c \in Clients |-> "away"]
  /\ arrived = [c \in Clients |-> 0]
  /\ sent = [c \in Clients |-> 0]
  /\ writable = [c \in Clients |-> TRUE]

------------------------------------------------------------------------------
(* The main thread: PollRegister in CreateListener, then ServerMain sleeps. *)

MainRegisters ==
  /\ main = "register" /\ main' = "notify"
  /\ updates' = Append(updates, Register(ListenPd, ListenFd, {"in"}))
  /\ UNCHANGED <<polls, pipe, thread, cursor, socksToHandle, clientVars, netVars>>

MainNotifies ==
  /\ main = "notify" /\ main' = "sleep"
  /\ pipe' = Written(pipe, 1)
  /\ UNCHANGED <<polls, updates, thread, cursor, socksToHandle, clientVars, netVars>>

------------------------------------------------------------------------------
(* What the handlers are made of. *)

\* Everybody in the dictionary, in the order of the iterator.
Members(dict) == SetToSeq(Range(dict) \ {None})

\* ClientWriteLine to each of seq, in this order, between the updates before and after.
\* "Inform that we want to send".
Tell(seq, before, after) ==
  /\ Enqueue(before \o [i \in DOMAIN seq |-> AddOut(seq[i])] \o after)
  /\ outBuffer' = [c \in Clients |-> outBuffer[c] \/ c \in Range(seq)]

Forget(dict, name) == [dict EXCEPT ![name] = None]
LeastFree(dict)    == Min({n \in Names : dict[n] = None})

\* close(): nobody sees any longer what the peer does.
Close(c) ==
  IF socket[c] = None THEN UNCHANGED netVars
  ELSE /\ owner' = [owner EXCEPT ![socket[c]] = None]
       /\ wire' = [wire EXCEPT ![c] = "gone"]
       /\ arrived' = [arrived EXCEPT ![c] = 0]
       /\ writable' = [writable EXCEPT ![c] = TRUE]
       /\ UNCHANGED sent

\* Mutant of Disconnect: the poll entry stays.
DisconnectStaysPolled(c) ==
  /\ life' = [life EXCEPT ![c] = "left"]
  /\ clients' = Forget(clients, nickname[c])
  /\ Tell(Members(clients'), <<>>, <<>>)
  /\ Close(c)
  /\ UNCHANGED <<socket, nickname>>

\* Mutant of Disconnect: the dictionary keeps the client.
DisconnectStaysKnown(c) ==
  /\ life' = [life EXCEPT ![c] = "left"]
  /\ Tell(Members(clients), <<>>, <<RemoveEntry(c)>>)
  /\ Close(c)
  /\ UNCHANGED <<socket, nickname, clients>>

\* ClientDisconnect: forgotten first, so that "has left" goes to the others only.
Disconnect(c) ==
  /\ life' = [life EXCEPT ![c] = "left"]
  /\ clients' = Forget(clients, nickname[c])
  /\ Tell(Members(clients'), <<>>, <<RemoveEntry(c)>>)
  /\ Close(c)
  /\ UNCHANGED <<socket, nickname>>

------------------------------------------------------------------------------
(* The poll thread. *)

\* What the kernel reports of an entry: of whoever is behind the descriptor now.
\* Negative descriptors are ignored, and what a closed one reports is, by the block.
Revents(p) ==
  LET c == owner[p.fd]
  IN  CASE p.pd = PipePd   -> IF pipe > 0 THEN {"in"} ELSE {}
        [] p.pd = ListenPd -> IF \E d \in Clients : wire[d] = "backlog" THEN {"in"} ELSE {}
        [] p.fd = None     -> {}
        [] OTHER -> IF c = None THEN {} ELSE IF wire[c] = "reset" THEN {"hup"}
                    ELSE {e \in p.events : \/ e = "in" /\ (arrived[c] > 0 \/ wire[c] = "closed")
                                           \/ e = "out" /\ writable[c]}

\* Block_release of the block of a client: nobody else has a reference to the client.
ApplyRemoveReleases ==
  /\ ApplyRemove
  /\ life' = [c \in Clients |-> IF c = Head(updates).pd THEN "freed" ELSE life[c]]
  /\ UNCHANGED <<socket, nickname, outBuffer, inBuffer, clients, main, netVars>>

PollLoops ==
  /\ \/ RegisterPipe \/ ReadPipe \/ ApplyRegister \/ ApplyAdd \/ ApplyRemoveEvent \/ ApplyDone
     \/ PollReturns([i \in DOMAIN polls |-> Revents(polls[i])]) \/ ScanDone
  /\ UNCHANGED <<clientVars, main, netVars>>

PollCallsPipeBlock ==
  /\ Calls(PipePd)
  /\ UNCHANGED <<updates, pipe, thread, clientVars, main, netVars>>

\* accept() failed; the -1 is not noticed, and c is a Client without a connection.  The one
\* that waited is gone, or stays in the backlog for lack of descriptors.
AcceptFails(c) == /\ wire[c] \in {"away", "backlog"}
                  /\ wire' = [wire EXCEPT ![c] = "gone"] /\ UNCHANGED <<owner, socket>>
Accepts(c) ==
  \E s \in Sockets : /\ wire[c] = "backlog" /\ owner[s] = None
                     /\ wire' = [wire EXCEPT ![c] = "open"]
                     /\ owner' = [owner EXCEPT ![s] = c]
                     /\ socket' = [socket EXCEPT ![c] = s]

\* The listener's block, with ClientCreate and the Release of ListenerHandleNewClient.
PollAccepts ==
  /\ Calls(ListenPd)
  /\ \E c \in Clients :
       /\ Accepts(c) \/ AcceptFails(c)
       /\ life' = [life EXCEPT ![c] = "member"]
       /\ nickname' = [nickname EXCEPT ![c] = LeastFree(clients)]
       /\ clients' = [clients EXCEPT ![LeastFree(clients)] = c]
       /\ Tell(Members(clients'), <<Register(c, socket'[c], {"in"})>>, <<>>)
  /\ UNCHANGED <<thread, inBuffer, main, arrived, sent, writable>>

\* ClientHandleLine.  Empty lines are ignored; unknown commands, /list and mistakes are
\* answered to the client.
Ignore   == Tell(<<>>, <<>>, <<>>) /\ UNCHANGED <<nickname, clients>>
Say(c)   == Tell(Members(clients), <<>>, <<>>) /\ UNCHANGED <<nickname, clients>>
Reply(c) == Tell(<<c>>, <<>>, <<>>) /\ UNCHANGED <<nickname, clients>>
Msg(c)   == \E to \in Range(clients) \ {None} :
              Tell(<<c, to>>, <<>>, <<>>) /\ UNCHANGED <<nickname, clients>>

\* /nick: ClientSetNickname succeeds silently for the name the client has, and then it
\* too is announced.
Nick(c) ==
  \E n \in Names :
    IF clients[n] \notin {None, c} THEN Reply(c)
    ELSE /\ nickname' = [nickname EXCEPT ![c] = n]
         /\ clients' = [Forget(clients, nickname[c]) EXCEPT ![n] = c]
         /\ Tell(Members(clients'), <<>>, <<>>)

HandleLine(c) == Ignore \/ Say(c) \/ Reply(c) \/ Msg(c) \/ Nick(c)

\* ClientDoRead: recv takes some of what arrived, with k line ends, and one line is handled
\* if the buffer has one then.
DoRead(c) ==
  IF arrived[c] > 0
  THEN /\ \E n \in 1..arrived[c] : \E k \in 0..n :
            /\ arrived' = [arrived EXCEPT ![c] = @ - n]
            /\ IF inBuffer[c] + k = 0 THEN Ignore /\ UNCHANGED inBuffer
               ELSE HandleLine(c) /\ inBuffer' = [inBuffer EXCEPT ![c] = @ + k - 1]
       /\ UNCHANGED <<life, socket, owner, wire, sent, writable>>
  ELSE Disconnect(c) /\ UNCHANGED inBuffer

\* Mutant of Wrote: POLLOUT is not taken back.
WroteKeepsPolling(c) == /\ outBuffer' = [outBuffer EXCEPT ![c] = FALSE]
                        /\ UNCHANGED <<updates, pipe>>

\* ClientDoWrite, once send() took everything.
Wrote(c) == /\ outBuffer' = [outBuffer EXCEPT ![c] = FALSE]
            /\ Enqueue(<<RemoveOut(c)>>)

PollHup ==
  \E c \in Clients :
    /\ Calls(c) /\ "hup" \in Reported
    /\ Disconnect(c)
    /\ UNCHANGED <<thread, inBuffer, main>>

\* A line is read even when there is something to write: POLLIN goes first.
PollIn ==
  \E c \in Clients :
    /\ Calls(c) /\ "hup" \notin Reported /\ "in" \in Reported
    /\ DoRead(c)
    /\ UNCHANGED <<thread, main>>

\* ClientDoWrite.  An error of send(), and a length of 0, disconnect the client.
PollOut ==
  \E c \in Clients :
    /\ Calls(c) /\ Reported = {"out"}
    /\ UNCHANGED <<inBuffer, main>>
    /\ IF ~outBuffer[c] \/ wire[c] = "reset" THEN Disconnect(c) /\ UNCHANGED thread
       ELSE /\ UNCHANGED <<life, socket, nickname, clients, owner, wire, arrived, sent>>
            /\ \E full \in BOOLEAN :
                 /\ writable' = [writable EXCEPT ![c] = ~full]
                 /\ \/ /\ Wrote(c)
                       /\ UNCHANGED thread
                    \/ /\ full /\ thread' = "send"
                       /\ UNCHANGED <<outBuffer, updates, pipe>>

\* The rest of a send() that did not fit; the last entry looked at is the one it is for.
SendReturns ==
  /\ thread = "send" /\ thread' = "scan"
  /\ LET c == polls[cursor - 1].pd
     IN  IF wire[c] = "reset"
         THEN UNCHANGED <<updates, pipe, clientVars, netVars>>
         ELSE /\ writable[c]
              /\ Wrote(c)
              /\ UNCHANGED <<life, socket, nickname, inBuffer, clients, netVars>>
  /\ UNCHANGED <<polls, cursor, socksToHandle, main>>

------------------------------------------------------------------------------
(* The peers. *)

peerFrame == <<pollVars, clientVars, main, owner>>

Connect(c) == /\ wire[c] = "away"
              /\ wire' = [wire EXCEPT ![c] = "backlog"]
              /\ UNCHANGED <<peerFrame, arrived, sent, writable>>

SendsPiece(c) == /\ wire[c] = "open" /\ sent[c] < MaxPieces
                 /\ arrived' = [arrived EXCEPT ![c] = @ + 1]
                 /\ sent' = [sent EXCEPT ![c] = @ + 1]
                 /\ UNCHANGED <<peerFrame, wire, writable>>

HangsUp(c) == /\ wire[c] = "open"
              /\ \/ wire' = [wire EXCEPT ![c] = "closed"] /\ UNCHANGED arrived
                 \/ /\ wire' = [wire EXCEPT ![c] = "reset"]
                    /\ arrived' = [arrived EXCEPT ![c] = 0]
              /\ UNCHANGED <<peerFrame, sent, writable>>

Receives(c) == /\ ~writable[c]
               /\ writable' = [writable EXCEPT ![c] = TRUE]
               /\ UNCHANGED <<peerFrame, wire, arrived, sent>>

------------------------------------------------------------------------------

Main       == MainRegisters \/ MainNotifies
PollThread == \/ PollLoops \/ ApplyRemoveReleases \/ PollCallsPipeBlock \/ PollAccepts
              \/ PollHup \/ PollIn \/ PollOut \/ SendReturns
Peer(c)    == Connect(c) \/ SendsPiece(c) \/ HangsUp(c) \/ Receives(c)

Next == Main \/ PollThread \/ \E c \in Clients : Peer(c)

Spec == Init /\ [][Next]_vars

\* Both threads are scheduled; a peer reads what it is sent.
FairSpec == /\ Spec
            /\ WF_vars(Main) /\ WF_vars(PollThread)
            /\ \A c \in Clients : WF_vars(Receives(c))

------------------------------------------------------------------------------
(* Properties. *)

Member(c) == life[c] = "member"

\* Every variable has its type.  "a dictionary with all the clients, the key is the nick of
\* the client": it has every member under its own name and nobody who left; the values are
\* not retained, so a client that stayed would be used after it was freed.
DictionaryExact ==
  /\ TypeOK
  /\ \A n \in Names, c \in Clients : clients[n] = c <=> Member(c) /\ nickname[c] = n

\* Nobody closes or uses the descriptor of another, although numbers are used again.
SocketIsOwn ==
  \A s \in Sockets, c \in Clients : Member(c) /\ socket[c] = s <=> owner[s] = c

\* PollIndexForDescriptor finds the entry of every update when its turn comes.
UpdatesFindEntry ==
  thread \in {"drain", "drain again"} /\ updates # <<>> /\ Head(updates).op # "register"
    => IndexOf(Head(updates).pd) # {}

\* A member with something in its buffer is watched for POLLOUT, one without is not: an
\* update that is queued is overtaken by none that was queued later.  And what poll() has
\* reported is still true when ClientDoWrite is called: it has something to write, or
\* send() would return 0 and the client be disconnected although it did nothing.
WatchedWhileBuffered ==
  /\ \A c \in Clients : Member(c) => (outBuffer[c] <=> WillWatch(c))
  /\ thread = "scan" /\ Pending # {} /\ socksToHandle > 0 /\ Reported = {"out"}
       => outBuffer[polls[Next_i].pd]

(* Why they hold: the conjunction of the parts is inductive (ChatServerProofs). *)

Updates == [op : {"register", "add", "remove event", "remove"}, pd : Descriptors,
            fd : Handles \cup {"none"}, events : SUBSET {"in", "out"}]

InvTypes == TypeOK /\ updates \in Seq(Updates)

\* A client is created when its connection leaves the backlog; a piece is counted once.
InvLife ==
  /\ \A c \in Clients : life[c] = "unborn" <=> wire[c] \in {"away", "backlog"}
  /\ \A c \in Clients : life[c] = "unborn" => socket[c] = None
  /\ \A c \in Clients : arrived[c] + inBuffer[c] <= sent[c]

InvNames ==
  /\ \A n \in Names, c \in Clients : clients[n] = c <=> Member(c) /\ nickname[c] = n
  /\ \A c \in Clients : Member(c) => nickname[c] \in Names

\* Who asked for an entry that is not yet removed, and who asked for its removal.
Leaving == {c \in Clients : life[c] = "left"}
Polled  == {c \in Clients : Member(c)} \cup Leaving
           \cup (IF main = "register" THEN {} ELSE {ListenPd})
           \cup (IF thread = "start" THEN {} ELSE {PipePd})

\* pd has its entry, or its registration is on its way; its removal is on its way.
Joining(ps, us, pd) == \/ \E i \in DOMAIN ps : ps[i].pd = pd
                       \/ \E k \in DOMAIN us : us[k].op = "register" /\ us[k].pd = pd
Removing(us, pd)    == \E k \in DOMAIN us : us[k].op = "remove" /\ us[k].pd = pd

\* The place of an update among those of the same descriptor.
Opens(us, k)  == \A m \in DOMAIN us : us[m].pd = us[k].pd => k <= m
Closes(us, k) == \A m \in DOMAIN us : us[m].pd = us[k].pd => m <= k

\* An update is one of a client, except for the registrations, which come first, of who has
\* no entry.  A removal comes last.
Suits(ps, u, leaving) ==
  /\ u.op = "register" => u.fd \in Handles /\ "out" \notin u.events
  /\ u.op = "register" => \A i \in DOMAIN ps : ps[i].pd # u.pd
  /\ u.op \in {"add", "remove event"} => u.pd \in Clients /\ u.events = {"out"}
  /\ u.op = "remove" => u.pd \in leaving

\* The entries and the updates, when asked are those to be registered that are not removed
\* yet, and leaving those of them that will be.
Arranged(ps, us, asked, leaving) ==
  /\ \A i, m \in DOMAIN ps : ps[i].pd = ps[m].pd => i = m
  /\ \A i \in DOMAIN ps : ps[i].pd \in asked
  /\ \A k \in DOMAIN us : us[k].pd \in asked
  /\ \A pd \in asked : Joining(ps, us, pd)
  /\ \A pd \in leaving : Removing(us, pd)
  /\ \A k \in DOMAIN us : Suits(ps, us[k], leaving)
  /\ \A k \in DOMAIN us : us[k].op = "register" => Opens(us, k)
  /\ \A k \in DOMAIN us : us[k].op = "remove" => Closes(us, k)

InvPolled == Arranged(polls, updates, Polled, Leaving)

\* What poll() reports is about members, and is so until the loop gets there: nothing but
\* the registration of the listener is queued meanwhile.
InvLoop ==
  /\ thread \notin {"scan", "send"} => cursor = 1
  /\ thread \in {"poll", "read again", "drain again"} =>
       \A k \in DOMAIN updates : updates[k].pd = ListenPd
  /\ thread = "scan" =>
       \A i \in DOMAIN polls : i >= cursor => polls[i].pd \notin Leaving
  /\ thread = "send" =>
       /\ cursor - 1 \in DOMAIN polls /\ polls[cursor - 1].pd \in Clients
       /\ \A i \in DOMAIN polls : i >= cursor - 1 => polls[i].pd \notin Leaving
  /\ thread \in {"read again", "drain again", "scan", "send"} =>
       \A i \in DOMAIN polls : i >= cursor /\ "out" \in polls[i].revents =>
         polls[i].pd \in Clients /\ outBuffer[polls[i].pd]

InvWatched == \A c \in Clients : Member(c) => (outBuffer[c] <=> WillWatch(c))

ServerInv == InvTypes /\ InvLife /\ InvNames /\ SocketIsOwn /\ InvPolled /\ InvLoop /\ InvWatched

\* "write is not synchronous", but it happens: what is buffered for a client with a
\* connection is sent, as long as the peers read and do not send lines forever.
BufferedIsSent ==
  \A c \in Clients :
    outBuffer[c] /\ Member(c) /\ socket[c] # None ~> ~outBuffer[c] \/ ~Member(c)

\* "Do we have a \n? Yes, handle line": a line in the buffer is handled.
BufferedLinesAreHandled ==
  \A c \in Clients : inBuffer[c] > 0 /\ Member(c) ~> inBuffer[c] = 0 \/ ~Member(c)
==============================================================================
