------------------------------ MODULE HTTPServer ------------------------------
(***************************************************************************)
(* The web server at work: webserver/net/server.c accepts connections,     *)
(* webserver/http/httpconnection.c reads a request from each, answers it   *)
(* and closes, webserver/net/poll.c waits for sockets, and two dispatch    *)
(* queues run what is to be done.  A connection is an Object that lives as *)
(* long as some block captures it.                                         *)
(*                                                                         *)
(* The two queues are one pool of Workers threads here, and a job starts   *)
(* whenever one is free: with many threads the order in which dispatched   *)
(* blocks get to run is nobody's.  A socket is known by its number, and    *)
(* the numbers are used again after close().                               *)
(***************************************************************************)
EXTENDS WebPoll, Integers, Bags

CONSTANTS Connections,   \* HTTPConnection objects: a bound, each accepted once
          Sockets,       \* descriptors the kernel may give to a connection
          ListenFd,      \* server->socket
          Listener,      \* the block registered for it
          Workers,       \* bound: how many jobs run at a time
          SendBuffer,    \* how much the kernel takes before a peer has read any of it
          None

ASSUME HTTPServerAssumption ==
  /\ IsFiniteSet(Connections) /\ IsFiniteSet(Sockets)
  /\ SendBuffer \in Nat \ {0} /\ Workers \in Nat \ {0}
  /\ Cardinality({PipeFd, ListenFd, None} \cup Sockets) = Cardinality(Sockets) + 3
  /\ Cardinality({PipeBlock, Listener, NoBlock, None} \cup Connections)
       = Cardinality(Connections) + 4

VARIABLES
  \* the connection objects
  retainCount, socket,
  accepting,     \* the connection the listener's block is creating
  jobs,          \* dispatched blocks, queued or running, and deallocs in a worker
  main,          \* what the main thread still has to do
  \* the kernel and the peers
  owner,         \* whose connection a descriptor is
  wire,          \* what the peer did, and so what recv finds
  room           \* how much of the send buffer is free

connVarsButMain == <<retainCount, socket, accepting, jobs>>
connVars == <<connVarsButMain, main>>
netVars  == <<owner, wire, room>>
vars     == <<pollVars, connVars, netVars>>

\* A job is the block to run, for a connection, and how far it got.
Job(c, kind, step) == [conn |-> c, kind |-> kind, step |-> step]
Jobs == [conn : Connections, kind : {"read", "process", "send", "dealloc"},
         step : {"start", "hup", "sending", "notify", "closing", "close", "finish"}]

Descriptors == Sockets \cup {PipeFd, ListenFd}
Updates == [fd : Descriptors, block : Connections \cup {PipeBlock, Listener, NoBlock},
            events : {"in", "out", "none"}, repeat : BOOLEAN,
            revents : {"none", "ready", "hup"}]

TypeOK ==
  /\ polls \in Seq(Updates) /\ updates \in Seq(Updates)
  /\ pipe \in 0..PipeSize
  /\ thread \in {"start", "read", "drain", "poll", "read again", "drain again", "scan", "call",
                 "create", "release"}
  /\ cursor \in Nat \ {0} /\ socksToHandle \in Nat
  /\ retainCount \in [Connections -> Nat]
  /\ socket \in [Connections -> Sockets \cup {None}]
  /\ accepting \in Connections \cup {None}
  /\ IsABag(jobs) /\ BagToSet(jobs) \subseteq Jobs
  /\ main \in {"register", "notify", "sleep"}
  /\ owner \in [Sockets -> Connections \cup {None}]
  /\ wire \in [Connections -> {"away", "backlog", "quiet", "some", "request", "waiting",
                            "closed", "reset", "gone"}]
  /\ room \in [Connections -> 0..SendBuffer]

Init ==
  /\ PollInit
  /\ retainCount = [c \in Connections |-> 0]
  /\ socket = [c \in Connections |-> None]
  /\ accepting = None
  /\ jobs = EmptyBag
  /\ main = "register"
  /\ owner = [s \in Sockets |-> None]
  /\ wire = [c \in Connections |-> "away"]
  /\ room = [c \in Connections |-> SendBuffer]

Dispatch(j)     == jobs (+) SetToBag({j})
Advance(j, new) == (jobs (-) SetToBag({j})) (+) SetToBag({new})
To(j, step)     == Advance(j, [j EXCEPT !.step = step])
Running         == {j \in BagToSet(jobs) : j.step \notin {"start", "hup"}}
CanStart(j)     == /\ j.step \in {"start", "hup"}
                   /\ BagCardinality([k \in Running |-> jobs[k]]) < Workers
Count(c, n)     == [retainCount EXCEPT ![c] = @ + n]

\* PollRegister up to the write(): the block copied into the update captures c.
Await(c, events) == /\ updates' = Append(updates, Register(socket[c], c, events, FALSE))
                    /\ retainCount' = Count(c, 1)

------------------------------------------------------------------------------
(* The main thread: CreateServer, then WebServerRunloop sleeps. *)

MainRegisters ==
  /\ main = "register" /\ main' = "notify"
  /\ updates' = Append(updates, Register(ListenFd, Listener, "in", TRUE))
  /\ UNCHANGED <<polls, pipe, thread, cursor, socksToHandle, connVarsButMain,
                 netVars>>

MainNotifies ==
  /\ main = "notify" /\ main' = "sleep"
  /\ Notify
  /\ UNCHANGED <<polls, updates, thread, cursor, socksToHandle, connVarsButMain,
                 netVars>>

------------------------------------------------------------------------------
(* The poll thread. *)

\* What the kernel reports of an entry: of whoever is behind the descriptor now.
Revents(p) ==
  LET c == owner[p.fd]
  IN  CASE p.fd = PipeFd   -> IF pipe > 0 THEN "ready" ELSE "none"
        [] p.fd = ListenFd -> IF \E d \in Connections : wire[d] = "backlog" THEN "ready" ELSE "none"
        [] OTHER -> IF c = None THEN "ready" ELSE IF wire[c] = "reset" THEN "hup"
                    ELSE IF p.events = "in" /\ wire[c] \notin {"quiet", "waiting"} THEN "ready"
                    ELSE IF p.events = "out" /\ room[c] > 0 THEN "ready" ELSE "none"

\* Mutant: the last reference does not free.
FreedTooLate(c) == IF c \in Connections THEN retainCount[c] = 0 ELSE FALSE

\* Dealloc in the poll thread: PollUnregister and close(), unless closed already.
Freed(c)       == IF c \in Connections THEN retainCount[c] = 1 ELSE FALSE
Disposed(c)    == Freed(c) /\ socket[c] # None
DisposeUpdates(c) == IF Disposed(c) THEN <<Unregister(socket[c])>> ELSE <<>>
\* Mutant: the connection goes on believing the descriptor is its own.
CloseKeepsNumber(c) ==
  /\ owner' = [owner EXCEPT ![socket[c]] = None]
  /\ wire' = [wire EXCEPT ![c] = "gone"]
  /\ UNCHANGED <<socket, room>>

\* close(), after which nobody sees what the peer does.
Close(c) ==
  /\ owner' = [owner EXCEPT ![socket[c]] = None]
  /\ socket' = [socket EXCEPT ![c] = None]
  /\ wire' = [wire EXCEPT ![c] = "gone"]
  /\ room' = [room EXCEPT ![c] = SendBuffer]

ReleaseInPoll(c) ==
  /\ retainCount' = IF c \in Connections THEN Count(c, -1) ELSE retainCount
  /\ pipe' = IF Disposed(c) THEN Written(pipe) ELSE pipe
  /\ IF Disposed(c) THEN Close(c) ELSE UNCHANGED <<owner, socket, wire, room>>

PollApplies ==
  /\ ApplyRegister(DisposeUpdates(Displaced)) \/ ApplyUnregister(DisposeUpdates(Displaced))
  /\ ReleaseInPoll(Displaced)
  /\ UNCHANGED <<accepting, jobs, main>>

PollLoops ==
  /\ \/ RegisterPipe \/ ReadPipe \/ ApplyDone \/ Fire \/ ScanDone
     \/ PollReturns([i \in DOMAIN polls |-> Revents(polls[i])])
  /\ UNCHANGED <<connVars, netVars>>

\* Mutant: the dispatched block uses the connection without retaining it.
PollDispatchesBorrowed ==
  /\ thread = "call" /\ Current.block \in Connections
  /\ LET c    == Current.block
         kind == IF Current.events = "in" THEN "read" ELSE "send"
         step == IF Current.revents = "hup" THEN "hup" ELSE "start"
     IN  /\ jobs' = Dispatch(Job(c, kind, step))
  /\ Called
  /\ UNCHANGED <<retainCount, updates, pipe, socket, accepting, main, netVars>>

\* The block of a connection is wrapped in one that remembers revents, and dispatched.  The
\* wrapper retains that block, which goes on capturing the connection.  retainCount counts
\* such a holder as well: the count differs from the field's, when it gets to 0 does not.
PollDispatches ==
  /\ thread = "call" /\ Current.block \in Connections
  /\ LET c    == Current.block
         kind == IF Current.events = "in" THEN "read" ELSE "send"
         step == IF Current.revents = "hup" THEN "hup" ELSE "start"
     IN  /\ jobs' = Dispatch(Job(c, kind, step))
         /\ retainCount' = Count(c, 1)
  /\ Called
  /\ UNCHANGED <<updates, pipe, socket, accepting, main, netVars>>

PollCallsPipeBlock ==
  /\ thread = "call" /\ Current.block = PipeBlock
  /\ Called
  /\ UNCHANGED <<updates, pipe, connVars, netVars>>

\* The listener's block: accept() and HTTPConnectionCreate, up to the first read.
PollAccepts ==
  /\ thread = "call" /\ Current.block = Listener
  /\ \E c \in Connections, s \in Sockets :
       /\ wire[c] = "backlog" /\ owner[s] = None
       /\ wire' = [wire EXCEPT ![c] = "quiet"]
       /\ owner' = [owner EXCEPT ![s] = c]
       /\ socket' = [socket EXCEPT ![c] = s]
       /\ retainCount' = Count(c, 1)
       /\ accepting' = c
  /\ thread' = "create"
  /\ UNCHANGED <<polls, updates, pipe, cursor, socksToHandle, jobs, main,
                 room>>

\* accept() returned -1, which is taken for a socket: recv fails and the object goes.
PollAcceptsNothing ==
  /\ thread = "call" /\ Current.block = Listener
  /\ \A s \in Sockets : owner[s] # None
  /\ Called
  /\ UNCHANGED <<updates, pipe, connVars, netVars>>

\* HTTPConnectionReadRequest: recv until nothing is left, then by what was found.
Readable(c)   == wire[c] \in {"quiet", "some", "request", "waiting"}
TakeInput(c) ==
  wire' = IF ~Readable(c) THEN wire
          ELSE [wire EXCEPT ![c] = IF @ \in {"request", "waiting"} THEN "waiting" ELSE "quiet"]

ReadInPoll(c) ==
  /\ TakeInput(c)
  /\ CASE wire[c] = "request" ->
            /\ jobs' = Dispatch(Job(c, "process", "start"))
            /\ retainCount' = Count(c, 1)
            /\ UNCHANGED <<updates, pipe>>
       [] wire[c] \in {"quiet", "some", "waiting"} ->
            /\ Await(c, "in")
            /\ Notify
            /\ UNCHANGED jobs
       [] OTHER -> UNCHANGED <<jobs, updates, pipe, retainCount>>

PollReads ==
  /\ thread = "create" /\ thread' = "release"
  /\ ReadInPoll(accepting)
  /\ UNCHANGED <<polls, cursor, socksToHandle, socket, accepting, main, owner,
                 room>>

\* Release(connection) at the end of the listener's block.
PollReleases ==
  /\ thread = "release"
  /\ updates' = updates \o DisposeUpdates(accepting)
  /\ ReleaseInPoll(accepting)
  /\ accepting' = None
  /\ Called
  /\ UNCHANGED <<jobs, main>>

------------------------------------------------------------------------------
(* The jobs. *)

jobFrame == <<polls, thread, cursor, socksToHandle, accepting, main>>

\* "Error reading from client": the block returns at once.
JobHup(j) ==
  /\ CanStart(j) /\ j.step = "hup"
  /\ jobs' = To(j, "finish")
  /\ UNCHANGED <<jobFrame, updates, pipe, retainCount, socket, owner, wire, room>>

JobReads(j) ==
  /\ CanStart(j) /\ j.kind = "read" /\ j.step = "start"
  /\ TakeInput(j.conn)
  /\ CASE wire[j.conn] = "request" ->
            /\ jobs' = To(j, "finish") (+) SetToBag({Job(j.conn, "process", "start")})
            /\ retainCount' = Count(j.conn, 1)
            /\ UNCHANGED <<updates>>
       [] wire[j.conn] \in {"quiet", "some", "waiting"} ->
            /\ Await(j.conn, "in")
            /\ jobs' = To(j, "notify")
       [] OTHER ->
            /\ jobs' = To(j, "finish")
            /\ UNCHANGED <<updates, retainCount>>
  /\ UNCHANGED <<jobFrame, pipe, socket, owner, room>>

\* HTTPProcessRequest, up to its call of HTTPSendResponse, and the block that was registered
\* for POLLOUT, which calls it again.
JobAnswers(j) ==
  /\ CanStart(j) /\ j.kind \in {"process", "send"} /\ j.step = "start"
  /\ jobs' = To(j, "sending")
  /\ UNCHANGED <<jobFrame, updates, pipe, retainCount, socket, owner, wire, room>>

\* HTTPSendResponse when HTTPResponseSend returned true: HTTPConnectionClose.
AnswerSent(j) ==
  /\ updates' = Append(updates, Unregister(socket[j.conn]))
  /\ jobs' = To(j, "closing")
  /\ UNCHANGED <<jobFrame, pipe, retainCount, socket, owner, wire>>

\* And when it returned false: the rest is left to a block that is registered for it.
AnswerShort(j) ==
  /\ Await(j.conn, "out")
  /\ jobs' = To(j, "notify")
  /\ UNCHANGED <<jobFrame, pipe, socket, owner, wire>>

\* And when it has more to send.
AnswerGoesOn == UNCHANGED <<jobs, jobFrame, updates, pipe, retainCount, socket, owner, wire>>

\* A call of send() or sendfile() in HTTPResponseSend, for which the kernel has room or not.  An
\* answer comes up short as often as you like; HTTPAnswer says when it does.
JobSends(j) ==
  /\ j.step = "sending"
  /\ AnswerSent(j) \/ AnswerShort(j) \/ AnswerGoesOn
  /\ \E n \in 0..room[j.conn] : room' = [room EXCEPT ![j.conn] = n]

\* The write() of PollRegister and PollUnregister.
JobNotifies(j) ==
  /\ j.step \in {"notify", "closing"}
  /\ Notify
  /\ jobs' = To(j, IF j.step = "notify" THEN "finish" ELSE "close")
  /\ UNCHANGED <<jobFrame, updates, retainCount, socket, owner, wire, room>>

\* close(), at the end of HTTPConnectionClose and of HTTPConnectionDealloc.
JobCloses(j) ==
  /\ j.step = "close"
  /\ Close(j.conn)
  /\ jobs' = IF j.kind = "dealloc" THEN jobs (-) SetToBag({j}) ELSE To(j, "finish")
  /\ UNCHANGED <<jobFrame, updates, pipe, retainCount>>

\* Block_release after the block ran; the last one runs HTTPConnectionDealloc.
JobFinishes(j) ==
  /\ j.step = "finish"
  /\ retainCount' = Count(j.conn, -1)
  /\ IF Disposed(j.conn)
     THEN /\ updates' = Append(updates, Unregister(socket[j.conn]))
          /\ jobs' = Advance(j, Job(j.conn, "dealloc", "closing"))
     ELSE /\ jobs' = jobs (-) SetToBag({j})
          /\ UNCHANGED updates
  /\ UNCHANGED <<jobFrame, pipe, socket, owner, wire, room>>

------------------------------------------------------------------------------
(* The peers. *)

peerFrame == <<pollVars, connVars, owner>>

Connect(c) == /\ wire[c] = "away"
              /\ wire' = [wire EXCEPT ![c] = "backlog"]
              /\ UNCHANGED <<peerFrame, room>>

SendsPart(c) == /\ wire[c] = "quiet"
                /\ wire' = [wire EXCEPT ![c] = "some"]
                /\ UNCHANGED <<peerFrame, room>>

SendsRequest(c) == /\ wire[c] \in {"quiet", "some"}
                   /\ wire' = [wire EXCEPT ![c] = "request"]
                   /\ UNCHANGED <<peerFrame, room>>

\* A FIN or a RST.  What arrived before it is handed out first, so a request it follows is
\* mostly answered: that is the request read, and the end seen afterwards.  It is lost when
\* it fills the buffer to the last byte, for then recv is called again, finds the end and
\* the function returns; and when poll() reports POLLHUP, for then nothing is read.
HangsUp(c) == /\ wire[c] \in {"quiet", "some", "request", "waiting"}
              /\ \E how \in {"closed", "reset"} : wire' = [wire EXCEPT ![c] = how]
              /\ UNCHANGED <<peerFrame, room>>

Receives(c) == /\ room[c] < SendBuffer
               /\ \E n \in (room[c] + 1)..SendBuffer : room' = [room EXCEPT ![c] = n]
               /\ UNCHANGED <<peerFrame, wire>>

------------------------------------------------------------------------------

Main    == MainRegisters \/ MainNotifies
PollThread == \/ PollApplies \/ PollLoops \/ PollDispatches \/ PollCallsPipeBlock
              \/ PollAccepts \/ PollAcceptsNothing \/ PollReads \/ PollReleases
Run(j)  == JobHup(j) \/ JobReads(j) \/ JobAnswers(j) \/ JobSends(j) \/ JobNotifies(j)
             \/ JobCloses(j) \/ JobFinishes(j)
Peer(c) == Connect(c) \/ SendsPart(c) \/ SendsRequest(c) \/ HangsUp(c) \/ Receives(c)

Next == \/ Main
        \/ PollThread
        \/ \E j \in BagToSet(jobs) : Run(j)
        \/ \E c \in Connections : Peer(c)

Spec == Init /\ [][Next]_vars

------------------------------------------------------------------------------
(* Properties. *)

\* Who captures a connection: updates and entries, by index, and copies of dispatched blocks.
Capturing(seq, c) == {i \in DOMAIN seq : seq[i].block = c}
Blocks(c)         == {j \in BagToSet(jobs) : j.conn = c /\ j.kind # "dealloc"}
Copies(set)       == UNION {{j} \X (1..jobs[j]) : j \in set}

\* Every variable has its type.  retainCount "counts how many objects hold a reference":
\* the updates and poll entries whose block captures the connection, the dispatched blocks,
\* and the listener's block while it creates it.  Too low and it is freed in use, too high
\* and its socket leaks.
RetainCountExact ==
  /\ TypeOK
  /\ \A c \in Connections :
       retainCount[c] = Cardinality(Capturing(updates, c)) + Cardinality(Capturing(polls, c))
                      + Cardinality(Copies(Blocks(c))) + (IF accepting = c THEN 1 ELSE 0)

\* A descriptor is open exactly as long as one connection believes it is: none is
\* closed twice, used after close(), or leaked, although numbers are used again.
SocketIsOwn ==
  /\ \A c \in Connections : socket[c] # None => owner[socket[c]] = c
  /\ \A s \in Sockets : owner[s] # None => socket[owner[s]] = s

\* Whoever works on a connection works on it alone: it is being created, or waits in
\* the poll, or has one block dispatched.  An entry that fired no longer waits.
Removed(i)  == \E k \in DOMAIN updates : updates[k] = Unregister(polls[i].fd)
Armed(c)    == {i \in Capturing(polls, c) : ~Removed(i)}
AtWork(c)   == {j \in Blocks(c) : j.step \in {"start", "hup", "sending", "closing", "close"}}
Creating(c) == accepting = c /\ thread = "create"

OneAtATime ==
  \A c \in Connections :
    Cardinality(Capturing(updates, c)) + Cardinality(Armed(c)) + Cardinality(Copies(AtWork(c)))
      + (IF Creating(c) THEN 1 ELSE 0) <= 1

\* "Update after to not notify deleted poll requests": when poll() is called, and for
\* entries with events when they are looked at, the descriptor still belongs to the
\* connection that registered it.
NoStaleEntry ==
  \A i \in DOMAIN polls :
    (/\ polls[i].block \in Connections
     /\ \/ thread = "poll"
        \/ thread = "scan" /\ i >= cursor /\ polls[i].revents # "none")
    => owner[polls[i].fd] = polls[i].block

\* "this way, we can quickly react to changed poll descriptors": while the thread is in
\* poll() with updates waiting, there is a byte in the pipe or about to be written.
Announced == \/ pipe > 0
             \/ main = "notify"
             \/ \E j \in BagToSet(jobs) : j.step \in {"notify", "closing"}

NoLostWakeup == thread = "poll" /\ updates # <<>> => Announced

\* A request that was sent is answered, and a connection that ended is closed: its
\* descriptor comes back.
SocketsComeBack ==
  \A c \in Connections :
    socket[c] # None /\ wire[c] \in {"request", "waiting", "closed", "reset"} ~> socket[c] = None

------------------------------------------------------------------------------
(* What makes these inductive. *)

\* The block of an entry that fired is being called; the entry is on its way out.
Fired(c) == thread = "call" /\ Current.block = c

\* The five places a connection can be worked on from exclude each other.
Alone(c) ==
  /\ \A k, m \in Capturing(updates, c) : k = m
  /\ \A i, m \in Armed(c) : i = m
  /\ \A j, k \in AtWork(c) : j = k /\ jobs[j] = 1
  /\ Capturing(updates, c) # {} =>
       Armed(c) = {} /\ AtWork(c) = {} /\ ~Creating(c) /\ ~Fired(c)
  /\ Armed(c) # {} => AtWork(c) = {} /\ ~Creating(c) /\ ~Fired(c)
  /\ AtWork(c) # {} => ~Creating(c) /\ ~Fired(c)
InvAlone == \A c \in Connections : Alone(c)

\* Whoever works on a connection, or waits for it, does so while it has its descriptor.
HasDescriptor(c) ==
  /\ \A k \in Capturing(updates, c) : updates[k].fd = socket[c]
  /\ \A i \in Armed(c) : polls[i].fd = socket[c]
  /\ AtWork(c) # {} \/ Creating(c) \/ Fired(c) => socket[c] # None
InvDescriptor == \A c \in Connections : HasDescriptor(c)

\* No update takes back what one before it in the queue registers for a connection.
InvQueueOrder ==
  \A k, m \in DOMAIN updates :
    k < m /\ updates[k].block \in Connections => updates[m] # Unregister(updates[k].fd)

\* A descriptor has one entry; those of connections fire once.
InvEntries ==
  /\ \A i, m \in DOMAIN polls : polls[i].fd = polls[m].fd => i = m
  /\ \A i \in DOMAIN polls : polls[i].block \in Connections <=> ~polls[i].repeat
  /\ \A k \in DOMAIN updates :
       updates[k].block # NoBlock => (updates[k].block \in Connections <=> ~updates[k].repeat)

\* Between the drain before poll() and the end of the scan no entry is about to be removed,
\* but for those that fired.
FirstUnfired == IF thread \in {"call", "create", "release"} THEN cursor + 1 ELSE cursor
InvArmed ==
  thread \in {"poll", "read again", "drain again", "scan", "call", "create", "release"} =>
    \A i \in DOMAIN polls : i >= FirstUnfired /\ polls[i].block \in Connections => ~Removed(i)

\* A connection comes into being when it is accepted, and once only.
InvLifetime ==
  /\ accepting # None <=> thread \in {"create", "release"}
  /\ thread = "call" => cursor \in DOMAIN polls
  /\ thread \notin {"scan", "call", "create", "release"} => cursor = 1
  /\ \A c \in Connections :
       wire[c] \in {"away", "backlog"} => retainCount[c] = 0 /\ socket[c] = None
  /\ \A j \in BagToSet(jobs) :
       j.kind = "dealloc" => /\ j.step \in {"closing", "close"}
                             /\ retainCount[j.conn] = 0
                             /\ wire[j.conn] \notin {"away", "backlog"}
  /\ IsFiniteSet(BagToSet(jobs))

\* An update is announced from the moment it is queued until the thread takes it.
InvWakeup == updates # <<>> /\ thread \notin {"drain", "drain again"} => Announced

ServerInv == /\ RetainCountExact /\ SocketIsOwn /\ InvAlone /\ InvDescriptor /\ InvQueueOrder
             /\ InvEntries /\ InvArmed /\ InvLifetime /\ InvWakeup
==============================================================================
