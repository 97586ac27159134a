------------------------------ MODULE ChatClient ------------------------------
(***************************************************************************)
(* The chat client: chat/client/Client.c carries lines between a socket    *)
(* and the two pipes of a GUI process.  The main thread connects, registers *)
(* the three descriptors one after the other and then sleeps until         *)
(* keepRunning is false; the thread of the poll runs the blocks, the first *)
(* of them while the main thread still registers.                          *)
(*                                                                         *)
(* Everything blocks: send() returns when all of the buffer is in the      *)
(* kernel, or when the connection is reset under it, and nothing else      *)
(* happens in the poll thread until then.  The GUI takes what is written   *)
(* to it at once.  A buffer is a sequence of numbered lines.               *)
(*                                                                         *)
(* The server is the one of ChatServer.tla as one client sees it: it reads *)
(* first, takes any number of lines with a recv() and handles one of those *)
(* it has, answers it or not, tells what others say, and blocks too.       *)
(***************************************************************************)
EXTENDS ChatPoll

CONSTANTS MaxTyped,   \* bound: lines typed into the GUI
          MaxEarly,   \* bound: those typed while the main thread still registers
          MaxTold,    \* bound: lines the server sends
          ServerRoom, \* lines that fit into the kernel's buffers, towards the server
          ClientRoom  \* and towards the client

ASSUME ChatClientAssumption == /\ {MaxTyped, MaxEarly, MaxTold} \subseteq Nat
                               /\ {ServerRoom, ClientRoom} \subseteq Nat \ {0}
                               /\ PipePd \notin {"socket", "gui in", "gui out"}

\* Mutant of Registrations: the GUI first.
RegistrationsGuiFirst == <<"gui in", "socket", "gui out">>

\* The PollDescriptors of the client, in the order of ClientCreate.
Registrations == <<"socket", "gui in", "gui out">>

VARIABLES
  \* the Client object
  main,          \* what the main thread does next
  assigned,      \* how many of the three PollDescriptor fields are set
  socket,        \* client->socket: the connection, or 0, which is stdin
  keepRunning,
  outBuffer, inBuffer,
  \* the kernel, the GUI and the server
  gui,           \* "runs", or "gone" by itself or killed
  wire,          \* "none", "open", "closed" or "reset" by the server
  fromGui,       \* what is in the pipe to the client
  toServer, toClient,    \* what is in the sockets
  typed, told,   \* how many lines the GUI and the server wrote
  owed,          \* lines the server has in its buffer for this client
  serverSends,   \* is the server inside send()?
  received, shown  \* history: the lines the server and the GUI took

clientVars == <<main, assigned, socket, keepRunning, outBuffer, inBuffer>>
guiVars    == <<gui, fromGui, typed, shown>>
serverVars == <<wire, toServer, toClient, told, owed, serverSends, received>>
vars       == <<pollVars, clientVars, guiVars, serverVars>>

Running == thread # "dead" /\ main # "ended"

TypeOK ==
  /\ \A i \in DOMAIN polls : polls[i].pd \in {PipePd, "socket", "gui in", "gui out"}
  /\ pipe \in 0..PipeSize
  /\ thread \in {"start", "read", "drain", "poll", "read again", "drain again", "scan",
                 "send", "dead"}
  /\ main \in {"connect", "register", "assign", "sleep", "ended"}
  /\ assigned \in 0..3
  /\ socket \in {"connection", "stdin"} /\ keepRunning \in BOOLEAN
  /\ gui \in {"runs", "gone"} /\ wire \in {"none", "open", "closed", "reset"}
  /\ Len(outBuffer) <= MaxTyped /\ Len(fromGui) <= MaxTyped /\ Len(toServer) <= ServerRoom
  /\ Len(inBuffer) <= MaxTold /\ Len(toClient) <= ClientRoom
  /\ typed \in 0..MaxTyped /\ told \in 0..MaxTold /\ owed \in 0..MaxTold
  /\ serverSends \in BOOLEAN

Init ==
  /\ PollInit
  /\ main = "connect" /\ assigned = 0 /\ socket = "connection" /\ keepRunning = TRUE
  /\ outBuffer = <<>> /\ inBuffer = <<>>
  /\ gui = "runs" /\ wire = "none"
  /\ fromGui = <<>> /\ toServer = <<>> /\ toClient = <<>>
  /\ typed = 0 /\ told = 0 /\ owed = 0 /\ serverSends = FALSE
  /\ received = <<>> /\ shown = <<>>

------------------------------------------------------------------------------
(* The main thread. *)

\* ClientConnect.  Without any server ClientCreate gives up and ClientDealloc kills the
\* GUI; a name that cannot be resolved returns -1, which is true, and leaves socket 0.
\* Either way the GUI is told of it first: when it is gone the write is the end.
Connects ==
  /\ main = "connect"
  /\ \/ /\ gui = "runs"
        /\ main' = "register" /\ UNCHANGED gui
        /\ \/ socket' = "connection" /\ wire' = "open"
           \/ socket' = "stdin" /\ UNCHANGED wire
     \/ /\ main' = "ended" /\ gui' = "gone"
        /\ UNCHANGED <<socket, wire>>
  /\ UNCHANGED <<pollVars, assigned, keepRunning, outBuffer, inBuffer, fromGui, typed, shown,
                 toServer, toClient, told, owed, serverSends, received>>

\* PollRegister.  That the update is announced a step after it is queued makes no difference
\* here: poll() returns by itself after a second.
Registering == Registrations[assigned + 1]
Interest    == IF Registering = "gui out" THEN {} ELSE {"in"}

Registers ==
  /\ main = "register" /\ main' = "assign"
  /\ Enqueue(<<Register(Registering, Registering, Interest)>>)
  /\ UNCHANGED <<polls, thread, cursor, socksToHandle, assigned, socket, keepRunning, outBuffer,
                 inBuffer, guiVars, serverVars>>

\* PollRegister returned.
IsAssigned(pd) == \E i \in 1..assigned : Registrations[i] = pd
Assigns ==
  /\ main = "assign"
  /\ assigned' = assigned + 1
  /\ main' = IF assigned' = 3 THEN "sleep" ELSE "register"
  /\ UNCHANGED <<pollVars, socket, keepRunning, outBuffer, inBuffer, guiVars, serverVars>>

\* ClientMain, which kills the GUI, and the exit of the process.
Quits ==
  /\ main = "sleep" /\ ~keepRunning
  /\ main' = "ended" /\ gui' = "gone"
  /\ UNCHANGED <<pollVars, assigned, socket, keepRunning, outBuffer, inBuffer, fromGui, typed,
                 shown, serverVars>>

------------------------------------------------------------------------------
(* The poll thread. *)

\* What the kernel reports.  The GUI has both pipes open or none; the pipe that nobody
\* reads any more reports an error.  Of stdin it may report anything.
Revents(p, atStdin) ==
  CASE p.pd = PipePd    -> IF pipe > 0 THEN {"in"} ELSE {}
    [] p.pd = "socket"  -> IF socket = "stdin" THEN atStdin \cup (p.events \cap {"out"})
                           ELSE IF wire = "reset" THEN {"hup"}
                           ELSE {e \in p.events :
                                   \/ e = "in" /\ (toClient # <<>> \/ wire = "closed")
                                   \/ e = "out" /\ Len(toServer) < ServerRoom}
    [] p.pd = "gui in"  -> (IF gui = "gone" THEN {"hup"} ELSE {})
                             \cup (IF fromGui # <<>> THEN {"in"} ELSE {})
    [] p.pd = "gui out" -> (IF gui = "gone" THEN {"error"} ELSE {})
                             \cup p.events

PollLoops ==
  /\ \/ RegisterPipe \/ ReadPipe \/ ApplyRegister \/ ApplyAdd \/ ApplyRemoveEvent \/ ApplyDone
     \/ \E atStdin \in IF socket = "stdin" THEN {{}, {"in"}, {"hup"}} ELSE {{}} :
          PollReturns([i \in DOMAIN polls |-> Revents(polls[i], atStdin)])
     \/ ScanDone
  /\ UNCHANGED <<clientVars, guiVars, serverVars>>

PollCallsPipeBlock ==
  /\ Calls(PipePd)
  /\ UNCHANGED <<updates, pipe, thread, clientVars, guiVars, serverVars>>

\* Mutant of StopsRunning: the block has a copy of the field.
StopsRunningForItself == UNCHANGED <<updates, pipe, thread, clientVars, guiVars, serverVars>>

StopsRunning ==
  /\ keepRunning' = FALSE
  /\ UNCHANGED <<updates, pipe, thread, main, assigned, socket, outBuffer, inBuffer, guiVars,
                 serverVars>>

\* abort(), a signal or a NULL pointer: the process is gone.
Dies == /\ thread' = "dead"
        /\ UNCHANGED <<updates, pipe, clientVars, guiVars, serverVars>>

PollHup ==
  \E pd \in {"socket", "gui in"} :
    Calls(pd) /\ "hup" \in Reported /\ StopsRunning

\* An error that neither POLLIN nor POLLOUT comes with: no branch of the block is for it.
PollError ==
  /\ Calls("gui out") /\ Reported = {"error"}
  /\ UNCHANGED <<updates, pipe, thread, clientVars, guiVars, serverVars>>

\* PollDescriptorAddEvent finds the poll in the descriptor: a field that is still NULL ends
\* the process.
Announces(pd) == IF IsAssigned(pd) THEN Enqueue(<<AddOut(pd)>>) /\ UNCHANGED thread
                 ELSE thread' = "dead" /\ UNCHANGED <<updates, pipe>>

\* ClientReceive.  The server may have reset the connection since poll() returned: then recv()
\* fails when there is nothing left to read.
Receives ==
  /\ Calls("socket") /\ "hup" \notin Reported /\ "in" \in Reported
  /\ IF socket = "stdin" \/ (wire = "reset" /\ toClient = <<>>) THEN Dies
     ELSE IF toClient = <<>> THEN StopsRunning
     ELSE \E n \in 1..Len(toClient) :
            /\ toClient' = SubSeq(toClient, n + 1, Len(toClient))
            /\ inBuffer' = inBuffer \o SubSeq(toClient, 1, n)
            /\ Announces("gui out")
            /\ UNCHANGED <<main, assigned, socket, keepRunning, outBuffer, guiVars, wire,
                           toServer, told, owed, serverSends, received>>

\* Mutant of GuiReads: what is read goes to the start of the buffer.
GuiReadsOver ==
  /\ Calls("gui in") /\ Reported = {"in"}
  /\ \E n \in 1..Len(fromGui) :
       /\ fromGui' = SubSeq(fromGui, n + 1, Len(fromGui))
       /\ outBuffer' = [i \in 1..Len(outBuffer) + n |->
                          IF i <= n THEN fromGui[i] ELSE (outBuffer \o fromGui)[i]]
  /\ Announces("socket")
  /\ UNCHANGED <<main, assigned, socket, keepRunning, inBuffer, gui, typed, shown, serverVars>>

\* ClientGUIRead.
GuiReads ==
  /\ Calls("gui in") /\ Reported = {"in"}
  /\ \E n \in 1..Len(fromGui) :
       /\ fromGui' = SubSeq(fromGui, n + 1, Len(fromGui))
       /\ outBuffer' = outBuffer \o SubSeq(fromGui, 1, n)
  /\ Announces("socket")
  /\ UNCHANGED <<main, assigned, socket, keepRunning, inBuffer, gui, typed, shown, serverVars>>

\* What arrived before a reset may still be read, or not.
Reset == wire' = "reset" /\ toClient' \in {<<>>, toClient}

\* send() puts a line into the kernel, and returns when that was the last one.  The answer to
\* what a closed connection gets is a reset.
LineGoes ==
  /\ Len(toServer) < ServerRoom
  /\ outBuffer' = Tail(outBuffer)
  /\ IF wire = "closed" THEN Reset /\ UNCHANGED toServer
     ELSE toServer' = Append(toServer, Head(outBuffer)) /\ UNCHANGED <<wire, toClient>>
  /\ IF Len(outBuffer) > 1 THEN thread' = "send" /\ UNCHANGED <<updates, pipe>>
     ELSE thread' = "scan" /\ Enqueue(<<RemoveOut("socket")>>)
  /\ UNCHANGED <<main, assigned, socket, keepRunning, inBuffer, guiVars, told, owed,
                 serverSends, received>>

\* ClientSend is called: an empty buffer would stop the client.  Since poll() reported it
\* there is room for a line.
Sends ==
  /\ Calls("socket") /\ Reported = {"out"}
  /\ IF socket = "stdin" \/ wire = "reset" THEN Dies
     ELSE IF outBuffer = <<>> THEN StopsRunning
     ELSE LineGoes

\* send() goes on.  A reset makes it return how much it has sent, which is not everything.
SendGoesOn ==
  /\ thread = "send"
  /\ UNCHANGED <<polls, cursor, socksToHandle>>
  /\ IF wire = "reset"
     THEN thread' = "scan" /\ UNCHANGED <<updates, pipe, clientVars, guiVars, serverVars>>
     ELSE LineGoes

\* Mutant of GuiWrites: POLLOUT is not taken back.
GuiWritesKeepsPolling ==
  /\ Calls("gui out") /\ "out" \in Reported
  /\ IF gui = "gone" THEN Dies
     ELSE /\ shown' = shown \o inBuffer /\ inBuffer' = <<>>
          /\ UNCHANGED <<updates, pipe, thread, main, assigned, socket, keepRunning, outBuffer,
                         gui, fromGui, typed, serverVars>>

\* ClientGUIWrite: without a GUI the process gets a signal, an empty buffer stops it.
GuiWrites ==
  /\ Calls("gui out") /\ "out" \in Reported
  /\ IF gui = "gone" THEN Dies
     ELSE IF inBuffer = <<>> THEN StopsRunning
     ELSE /\ shown' = shown \o inBuffer /\ inBuffer' = <<>>
          /\ Enqueue(<<RemoveOut("gui out")>>)
          /\ UNCHANGED <<thread, main, assigned, socket, keepRunning, outBuffer, gui, fromGui,
                         typed, serverVars>>

------------------------------------------------------------------------------
(* The GUI and the server. *)

GuiTypes == /\ gui = "runs" /\ typed < MaxTyped
            /\ assigned = 3 \/ typed < MaxEarly
            /\ typed' = typed + 1
            /\ fromGui' = Append(fromGui, typed')
            /\ UNCHANGED <<pollVars, clientVars, serverVars, gui, shown>>

GuiQuits == /\ gui = "runs" /\ gui' = "gone"
            /\ UNCHANGED <<pollVars, clientVars, serverVars, fromGui, typed, shown>>

\* ClientDoRead of the server: all that recv() returns goes into its buffer; one line there is
\* handled, and answered unless it is empty.  The others wait for the next recv().
ServerReads ==
  /\ wire = "open" /\ ~serverSends
  /\ \E n \in 1..Len(toServer) :
       /\ toServer' = SubSeq(toServer, n + 1, Len(toServer))
       /\ received' = received \o SubSeq(toServer, 1, n)
  /\ owed' \in {owed, owed + 1} /\ told + owed' <= MaxTold
  /\ UNCHANGED <<pollVars, clientVars, guiVars, wire, toClient, told, serverSends>>

\* Somebody else enters, talks or leaves, or a line has more than one line for an answer.
OthersTalk ==
  /\ wire = "open" /\ ~serverSends /\ told + owed < MaxTold
  /\ owed' = owed + 1
  /\ UNCHANGED <<pollVars, clientVars, guiVars, wire, toServer, toClient, told,
                 serverSends, received>>

\* ClientDoWrite of the server, which is called only when there is nothing to read.
ServerSends ==
  /\ wire = "open" /\ owed > 0 /\ Len(toClient) < ClientRoom
  /\ serverSends \/ toServer = <<>>
  /\ told' = told + 1 /\ owed' = owed - 1
  /\ toClient' = Append(toClient, told')
  /\ serverSends' = (owed > 1)
  /\ UNCHANGED <<pollVars, clientVars, guiVars, wire, toServer, received>>

ServerHangsUp ==
  /\ wire = "open"
  /\ \/ wire' = "closed" /\ UNCHANGED toClient
     \/ Reset
  /\ toServer' = <<>> /\ owed' = 0 /\ serverSends' = FALSE
  /\ UNCHANGED <<pollVars, clientVars, guiVars, told, received>>

------------------------------------------------------------------------------

Main       == Connects \/ Registers \/ Assigns \/ Quits
PollThread == \/ PollLoops \/ PollCallsPipeBlock \/ PollHup \/ PollError \/ Receives \/ GuiReads
              \/ Sends \/ SendGoesOn \/ GuiWrites
Gui        == GuiTypes \/ GuiQuits
Server     == ServerReads \/ OthersTalk \/ ServerSends \/ ServerHangsUp

Next == Running /\ (Main \/ PollThread \/ Gui \/ Server)

Spec == Init /\ [][Next]_vars

\* Both threads are scheduled, and so is the server.
FairSpec == /\ Spec
            /\ WF_vars(Running /\ Main) /\ WF_vars(Running /\ PollThread)
            /\ WF_vars(Running /\ (ServerReads \/ ServerSends))

------------------------------------------------------------------------------
(* Properties. *)

Numbers(n) == [i \in 1..n |-> i]

\* Every variable has its type.  What is typed reaches the server in the order it was typed,
\* every line once, and what the server tells reaches the GUI in the same way; while nobody
\* hangs up no line is lost between the buffers, and a reset takes the last ones only.
LinesInOrder ==
  /\ TypeOK
  /\ received = Numbers(Len(received))
  /\ wire = "open" => received \o toServer \o outBuffer \o fromGui = Numbers(typed)
  /\ shown \o inBuffer \o toClient = Numbers(Len(shown) + Len(inBuffer) + Len(toClient))
  /\ wire # "reset" => Len(shown) + Len(inBuffer) + Len(toClient) = told

\* "Inform that we want to send", "Don't want to send anymore": POLLOUT is watched, or about
\* to be, exactly for the buffers with something in them, so that nothing waits for ever and
\* no empty buffer is sent, which would end the client.
WatchedWhileBuffered ==
  thread # "dead" =>
    /\ outBuffer # <<>> <=> WillWatch("socket")
    /\ inBuffer # <<>> <=> WillWatch("gui out")

\* A block ends the process only when the other side is gone, when there was no connection
\* in the first place, or when a line of the server arrives before ClientCreate assigned the
\* descriptor it is passed on to: the window between the first registration and the last.
DiesForAReason ==
  [][thread' = "dead" =>
       \/ socket = "stdin" \/ wire = "reset" \/ gui = "gone"
       \/ assigned < 3 /\ inBuffer' # inBuffer]_vars

\* Client and server are both inside a send() that waits for the other to read.
BothSend == /\ thread = "send" /\ Len(toServer) = ServerRoom
            /\ serverSends /\ Len(toClient) = ClientRoom

Over == ~Running \/ ~keepRunning \/ gui = "gone" \/ wire # "open"

\* A line that is typed comes into the server's buffer, and one that the server sends is shown,
\* unless somebody hangs up, or both sides wait in send().  What becomes of a line in the
\* server's buffer is BufferedLinesAreHandled's matter in ChatServer.
LinesArrive ==
  Len(received) < typed \/ Len(shown) < told
    ~> (Len(received) = typed /\ Len(shown) = told) \/ BothSend \/ Over

\* "Blocks the process while the client handle things": when the GUI or the server is gone
\* the client ends, wherever its threads are; only a poll thread inside send() to a server
\* that sends as well does not see the GUI go.
QuitEnds == gui = "gone" \/ wire \in {"closed", "reset"} ~> ~Running \/ BothSend

------------------------------------------------------------------------------
(* What makes the safety properties inductive. *)

Descriptors == {PipePd, "socket", "gui in", "gui out"}
Handles     == Descriptors \cup {PipeFd, "none"}
Entries == [pd : Descriptors, fd : Handles, events : SUBSET {"in", "out"},
            revents : SUBSET {"in", "out", "hup", "error"}]
Updates == [op : {"register", "add", "remove event"}, pd : Descriptors, fd : Handles,
            events : SUBSET {"in", "out"}]
Lines   == Seq(Nat)

InvTypes ==
  /\ TypeOK
  /\ polls \in Seq(Entries) /\ updates \in Seq(Updates)
  /\ cursor \in Nat \ {0} /\ socksToHandle \in Nat
  /\ {fromGui, outBuffer, toServer, received, toClient, inBuffer, shown} \subseteq Lines

\* The call of PollRegister that registers pd was made.
Registered(pd) ==
  IF pd = PipePd THEN thread # "start"
  ELSE \E i \in 1..3 : /\ Registrations[i] = pd
                       /\ i <= assigned \/ (i = assigned + 1 /\ main = "assign")

\* The main thread connects first, and there are three descriptors.
InvMain ==
  /\ main = "connect" => assigned = 0 /\ wire = "none"
  /\ main \in {"register", "assign"} => assigned < 3

\* A descriptor is registered once, without POLLOUT; no other event but that is added or removed.
InvRegistered ==
  /\ \A i \in DOMAIN polls : Registered(polls[i].pd)
  /\ \A i, m \in DOMAIN polls : polls[i].pd = polls[m].pd => i = m
  /\ \A k \in DOMAIN updates :
       IF updates[k].op = "register"
       THEN /\ Registered(updates[k].pd) /\ "out" \notin updates[k].events
            /\ IndexOf(updates[k].pd) = {}
            /\ \A m \in DOMAIN updates :
                 updates[m].op = "register" /\ updates[m].pd = updates[k].pd => m = k
       ELSE updates[k].events = {"out"}

\* The lines of a direction go from one buffer to the next; what a reset destroys was in none
\* of the client's.
InvLines ==
  /\ received = Numbers(Len(received))
  /\ wire \in {"none", "open"} => received \o toServer \o outBuffer \o fromGui = Numbers(typed)
  /\ Len(received) + Len(toServer) + Len(outBuffer) + Len(fromGui) <= typed
  /\ shown \o inBuffer \o toClient = Numbers(Len(shown) + Len(inBuffer) + Len(toClient))
  /\ wire # "reset" => Len(shown) + Len(inBuffer) + Len(toClient) = told
  /\ Len(shown) + Len(inBuffer) + Len(toClient) <= told
  /\ told + owed <= MaxTold

\* Whether POLLOUT is watched changes with the buffers, also while send() has not finished.
InvWatched ==
  /\ thread = "send" => outBuffer # <<>>
  /\ WatchedWhileBuffered

ClientInv == InvTypes /\ InvMain /\ InvRegistered /\ InvLines /\ InvWatched
==============================================================================
