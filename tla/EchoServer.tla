------------------------------ MODULE EchoServer ------------------------------
(***************************************************************************)
(* echo/echoserver.c: one thread, a table of clients and a loop that polls *)
(* the listening socket and every client, and handles what was reported    *)
(* one descriptor after the other.  Meanwhile the peers go on.             *)
(*                                                                         *)
(* Text comes in pieces that are received and sent as a whole; a piece     *)
(* remembers who sent it; some have the end of a line.                     *)
(*                                                                         *)
(* A client struct is malloc'd and not cleared.  malloc returns the struct *)
(* that was freed last, as the allocators the program is built with do for *)
(* a size they have in store, and it still has the buffer of the client it *)
(* belonged to, which nobody frees.  Otherwise it returns memory that was  *)
(* never used before, which is zero, or a part of the place a large buffer *)
(* was moved from when it grew: then there is text where client->buffer    *)
(* is, which is no address, and client->server is not NULL.                *)
(***************************************************************************)
EXTENDS Naturals, Sequences, FiniteSets, FiniteSetsExt, SequencesExt

CONSTANTS Clients,       \* connections in the order they are made: a bound
          Sockets,       \* descriptors the kernel may give to a client
          ListenFd,      \* server->socket
          kMaxClients,
          MaxPieces,     \* bound: pieces a peer sends
          LineEnds,      \* which of them have the end of a line
          LargeText,     \* as much text makes a buffer leave a place that malloc divides
          None

ASSUME EchoServerAssumption ==
  /\ IsFiniteSet(Clients) /\ Clients \subseteq Nat
  /\ IsFiniteSet(Sockets) /\ Sockets \subseteq Nat
  /\ kMaxClients \in Nat \ {0} /\ MaxPieces \in Nat /\ LineEnds \subseteq 1..MaxPieces
  /\ LargeText \in Nat
  /\ None \notin Clients /\ {ListenFd, None} \cap Sockets = {}

VARIABLES
  running,       \* server->running; FALSE too when the process died
  table,         \* server->clients
  socket,        \* client->socket
  buffer,        \* client->buffer
  freed,         \* what the buffers of the structs hold that were freed
  moved,         \* did realloc leave a place that malloc divides?
  entries,       \* the pollDescriptors with events the scan has still to look at, by spot
  \* the kernel and the peers
  owner,         \* whose connection a descriptor is
  wire,          \* the state of the connection
  arrived,       \* pieces recv would find
  sent,          \* pieces the peer sent
  echoed,        \* history: pieces that were sent back
  inherited,     \* history: what the buffer held when the client was accepted
  cut            \* history: was a piece lost because send() took only a part?

serverVars == <<running, table, entries>>
clientVars == <<socket, buffer, freed, moved, inherited, cut>>
netVars    == <<owner, wire, arrived, sent, echoed>>
vars       == <<serverVars, clientVars, netVars>>

Slots  == 1..kMaxClients

\* What a buffer seems to hold whose address is text.
Junk   == [from |-> None, n |-> 0]
Pieces == [from : Clients, n : 1..MaxPieces] \cup {Junk}
Texts  == Seq(Pieces)

TypeOK ==
  /\ running \in BOOLEAN
  /\ table \in [Slots -> Clients \cup {None}]
  /\ socket \in [Clients -> Sockets \cup {None}]
  /\ buffer \in [Clients -> Texts] /\ freed \in Seq(Texts) /\ moved \in BOOLEAN
  /\ DOMAIN entries \subseteq {0} \cup Slots
  /\ \A i \in DOMAIN entries :
       entries[i] \in [fd : Sockets \cup {ListenFd}, revents : SUBSET {"in", "hup"}]
  /\ owner \in [Sockets -> Clients \cup {None}]
  /\ wire \in [Clients -> {"away", "backlog", "open", "closed", "reset", "outside", "gone"}]
  /\ arrived \in [Clients -> Texts] /\ sent \in [Clients -> Texts]
  /\ echoed \in [Clients -> Texts] /\ inherited \in [Clients -> Texts]
  /\ cut \in [Clients -> BOOLEAN]

\* main, with a table that is in memory nobody used before.
Init ==
  /\ running = TRUE
  /\ table = [i \in Slots |-> None]
  /\ socket = [c \in Clients |-> None]
  /\ buffer = [c \in Clients |-> <<>>]
  /\ freed = <<>> /\ moved = FALSE /\ entries = <<>>
  /\ owner = [s \in Sockets |-> None]
  /\ wire = [c \in Clients |-> "away"]
  /\ arrived = [c \in Clients |-> <<>>] /\ sent = [c \in Clients |-> <<>>]
  /\ echoed = [c \in Clients |-> <<>>] /\ inherited = [c \in Clients |-> <<>>]
  /\ cut = [c \in Clients |-> FALSE]

------------------------------------------------------------------------------
(* runloop: the poll array, and what the kernel reports. *)

Free(t) == {i \in Slots : t[i] = None}

Revents(c) == (IF arrived[c] # <<>> \/ wire[c] \in {"closed", "reset"} THEN {"in"} ELSE {})
              \cup (IF wire[c] = "reset" THEN {"hup"} ELSE {})

\* Who waits in the listen queue.
Waiting == {c \in Clients : wire[c] = "backlog"}

ListenEntry == [fd |-> ListenFd,
                revents |-> IF Waiting = {} THEN {} ELSE {"in"}]

\* Mutant of Taken: the loop ends a spot too early.
TakenButLast == (Slots \ Free(table)) \ {kMaxClients}

\* The spots of the clients; the entries are in their order, behind the one of the server.
Taken == Slots \ Free(table)

ClientEntry(c) == [fd |-> socket[c], revents |-> Revents(c)]

PollArray == [i \in {0} \cup Taken |-> IF i = 0 THEN ListenEntry ELSE ClientEntry(table[i])]

\* The scan is over: runloop is called again.
Polls ==
  /\ DOMAIN entries = {}
  /\ entries' = Restrict(PollArray, {i \in DOMAIN PollArray : PollArray[i].revents # {}})
  /\ UNCHANGED <<running, table, clientVars, netVars>>

\* The scan reaches an entry with events.
First == Min(DOMAIN entries)
Entry == entries[First]
Handles(fds) == /\ DOMAIN entries # {} /\ Entry.fd \in fds
                /\ entries' = Restrict(entries, DOMAIN entries \ {First})

------------------------------------------------------------------------------
(* acceptNewClient. *)

\* malloc takes the last; the buffer is what the memory holds.
Allocated == IF freed # <<>> THEN {Last(freed)} ELSE IF moved THEN {<<>>, <<Junk>>} ELSE {<<>>}
Remaining == IF freed = <<>> THEN <<>> ELSE Front(freed)

\* The kernel hands out who came first and the lowest descriptor that is free.
Unused == {s \in Sockets : owner[s] = None}

\* A spot is found: the first.
Admits ==
  /\ Handles({ListenFd}) /\ Free(table) # {} /\ Unused # {}
  /\ LET c == Min(Waiting)
     IN  /\ wire' = [wire EXCEPT ![c] = "open"]
         /\ owner' = [owner EXCEPT ![Min(Unused)] = c]
         /\ socket' = [socket EXCEPT ![c] = Min(Unused)]
         /\ table' = [table EXCEPT ![Min(Free(table))] = c]
         /\ \E text \in Allocated : /\ buffer' = [buffer EXCEPT ![c] = text]
                                   /\ inherited' = [inherited EXCEPT ![c] = text]
  /\ freed' = Remaining
  /\ UNCHANGED <<running, moved, cut, arrived, sent, echoed>>

\* No spot: client->server is not set.  A full table leaves no struct that was used before, so
\* the memory is zero or was in a buffer.  When it is not NULL the client is told it was
\* accepted, but it is in no table: its descriptor stays open, and nobody ever polls it.
LeavesOutside ==
  /\ Handles({ListenFd}) /\ Free(table) = {} /\ Unused # {} /\ moved
  /\ LET c == Min(Waiting)
     IN  /\ wire' = [wire EXCEPT ![c] = "outside"]
         /\ owner' = [owner EXCEPT ![Min(Unused)] = c]
         /\ socket' = [socket EXCEPT ![c] = Min(Unused)]
  /\ UNCHANGED <<running, table, buffer, freed, moved, inherited, cut, arrived, sent, echoed>>

\* When it is NULL CloseClient reads the table behind it, which is the end of the process.
DiesWhenFull ==
  /\ Handles({ListenFd}) /\ Free(table) = {} /\ Unused # {}
  /\ wire' = [wire EXCEPT ![Min(Waiting)] = "gone"]
  /\ running' = FALSE
  /\ UNCHANGED <<table, clientVars, owner, arrived, sent, echoed>>

\* accept fails; setBlocking does not, for a descriptor that is open.
AcceptFails ==
  /\ Handles({ListenFd})
  /\ running' = FALSE
  /\ UNCHANGED <<table, clientVars, netVars>>

------------------------------------------------------------------------------
(* processClient and CloseClient. *)

\* What a client that is gone sent and got is of no interest any more.
Forgotten(c) ==
  /\ buffer'    = [buffer EXCEPT ![c] = <<>>]
  /\ arrived'   = [arrived EXCEPT ![c] = <<>>]
  /\ sent'      = [sent EXCEPT ![c] = <<>>]
  /\ echoed'    = [echoed EXCEPT ![c] = <<>>]
  /\ inherited' = [inherited EXCEPT ![c] = <<>>]
  /\ cut'       = [cut EXCEPT ![c] = FALSE]

\* Mutant of CloseClient: the spot in the table stays taken.
CloseClientInTable(c, text) ==
  /\ owner' = [owner EXCEPT ![socket[c]] = None]
  /\ wire' = [wire EXCEPT ![c] = "gone"]
  /\ freed' = Append(freed, text)
  /\ Forgotten(c)
  /\ UNCHANGED <<table, running>>

\* Mutant of CloseClient: the whole server stops.
CloseClientAndStop(c, text) ==
  /\ owner' = [owner EXCEPT ![socket[c]] = None]
  /\ wire' = [wire EXCEPT ![c] = "gone"]
  /\ table' = [i \in Slots |-> IF table[i] = c THEN None ELSE table[i]]
  /\ freed' = Append(freed, text)
  /\ Forgotten(c)
  /\ running' = FALSE

\* The socket is closed, the spot cleared and the struct freed, but not its buffer, which
\* holds text by then.
CloseClient(c, text) ==
  /\ owner' = [owner EXCEPT ![socket[c]] = None]
  /\ wire' = [wire EXCEPT ![c] = "gone"]
  /\ table' = [i \in Slots |-> IF table[i] = c THEN None ELSE table[i]]
  /\ freed' = Append(freed, text)
  /\ Forgotten(c)
  /\ UNCHANGED running

\* The client has text in its buffer and stays.
Keeps(c, text) == /\ buffer' = [buffer EXCEPT ![c] = text]
                  /\ UNCHANGED <<table, freed, owner, wire, inherited, sent>>

\* The first n pieces are taken from what arrived.
Takes(c, n) == arrived' = [arrived EXCEPT ![c] = SubSeq(@, n + 1, Len(@))]

\* A signal ends the process: the one for writing to a peer that is gone, a second time, or
\* the one for reading what is not there.
Dies(c, text, n) == /\ running' = FALSE
                    /\ Keeps(c, text) /\ Takes(c, n) /\ UNCHANGED <<echoed, cut>>

\* strlen(client->buffer) reads where text points to.
Wild(c) == Junk \in Range(buffer[c])

HasLine(text) == \E i \in DOMAIN text : text[i].n \in LineEnds

\* Mutant of AfterSend: the 0 at the end stays where it was, and nothing is overwritten.
AfterSendKeepsEnd(text, k) == SubSeq(text, k + 1, Len(text))
                              \o SubSeq(text, Len(text) - k + 1, Len(text))

\* writeBufferToClient: the rest is moved to the front, and everything from sendSize on is
\* overwritten, even when the rest goes on there.
AfterSend(text, k) == SubSeq(text, k + 1, Min({2 * k, Len(text)}))

\* send() took k of the pieces of text.
Sends(c, text, k) ==
  /\ echoed' = [echoed EXCEPT ![c] = @ \o SubSeq(text, 1, k)]
  /\ cut' = [cut EXCEPT ![c] = @ \/ 2 * k < Len(text)]
  /\ Keeps(c, AfterSend(text, k))

\* processClient when recv takes n pieces: they are behind what the buffer holds, and when
\* there is a line everything is sent.  That fails without room or peer.  So does recv when
\* it read 254 bytes, not 255: it is called again and finds nothing.
Processes(c, n) ==
  LET text == buffer[c] \o SubSeq(arrived[c], 1, n)
  IN  IF Wild(c) THEN Dies(c, buffer[c], 0)
      ELSE \/ /\ HasLine(text) /\ wire[c] # "reset"
              /\ \E k \in 1..Len(text) : Sends(c, text, k)
              /\ Takes(c, n) /\ UNCHANGED running
           \/ /\ ~HasLine(text)
              /\ Keeps(c, text) /\ Takes(c, n) /\ UNCHANGED <<running, echoed, cut>>
           \/ /\ HasLine(text) \/ n = Len(arrived[c])
              /\ CloseClient(c, text)
           \/ /\ HasLine(text) /\ wire[c] = "reset"
              /\ Dies(c, text, n)

\* POLLHUP comes with POLLIN: processClient may read what is left, cannot send it, and when
\* it leaves the client open it is closed after it.
HangsUpAfter(c, n) ==
  LET text == buffer[c] \o SubSeq(arrived[c], 1, n)
  IN  IF Wild(c) /\ n > 0 THEN Dies(c, buffer[c], 0)
      ELSE CloseClient(c, text) \/ (n > 0 /\ HasLine(text) /\ Dies(c, text, n))

\* "pollDescriptors[i].fd == server->clients[j]->socket": whoever has the descriptor now.
Found == {i \in Slots : table[i] # None /\ socket[table[i]] = Entry.fd}

\* The iteration of runloop for a client.  A buffer that gets large was moved on the way.
HandlesClient ==
  /\ Handles(Sockets)
  /\ \E i \in Found : \E n \in 0..Len(arrived[table[i]]) :
       LET c == table[i]
       IN  /\ IF "hup" \in Entry.revents THEN HangsUpAfter(c, n)
              ELSE IF arrived[c] = <<>> THEN CloseClient(c, buffer[c])
              ELSE n > 0 /\ Processes(c, n)
           /\ moved' = (moved \/ Len(buffer[c]) + n >= LargeText)
  /\ UNCHANGED socket

------------------------------------------------------------------------------
(* The peers. *)

Connects(c) == /\ wire[c] = "away" /\ \A d \in Clients : d < c => wire[d] # "away"
               /\ wire' = [wire EXCEPT ![c] = "backlog"]
               /\ UNCHANGED <<serverVars, clientVars, owner, arrived, sent, echoed>>

SendsPiece(c) ==
  /\ wire[c] = "open" /\ Len(sent[c]) < MaxPieces
  /\ LET piece == [from |-> c, n |-> Len(sent[c]) + 1]
     IN  /\ sent' = [sent EXCEPT ![c] = Append(@, piece)]
         /\ arrived' = [arrived EXCEPT ![c] = Append(@, piece)]
  /\ UNCHANGED <<serverVars, clientVars, owner, wire, echoed>>

HangsUp(c) == /\ wire[c] = "open"
              /\ wire' = [wire EXCEPT ![c] = "closed"]
              /\ UNCHANGED <<serverVars, clientVars, owner, arrived, sent, echoed>>

\* What arrived before may still be there.
Resets(c) == /\ wire[c] \in {"open", "closed"}
             /\ wire' = [wire EXCEPT ![c] = "reset"]
             /\ arrived' \in {arrived, [arrived EXCEPT ![c] = <<>>]}
             /\ UNCHANGED <<serverVars, clientVars, owner, sent, echoed>>

------------------------------------------------------------------------------

Server  == \/ Polls \/ Admits \/ LeavesOutside \/ DiesWhenFull \/ AcceptFails
           \/ HandlesClient
Peer(c) == Connects(c) \/ SendsPiece(c) \/ HangsUp(c) \/ Resets(c)

Next == running /\ (Server \/ \E c \in Clients : Peer(c))

Spec == Init /\ [][Next]_vars

\* The loop never waits for anything but poll(), which returns.
FairSpec == Spec /\ WF_vars(running /\ Server)
------------------------------------------------------------------------------
(* Properties. *)

InTable(c) == c \in Range(table)

\* Every variable has its type.  A descriptor is open exactly for the client in the table
\* that has it: nobody is in the table twice or after it was closed, and nobody who was
\* accepted is missing, but for those that were left outside a full one.  When the table is
\* full no struct is left to be used again.
TableExact ==
  /\ TypeOK
  /\ \A i, j \in Slots : table[i] = table[j] => i = j \/ table[i] = None
  /\ \A c \in Clients, s \in Sockets :
       (InTable(c) \/ wire[c] = "outside") /\ socket[c] = s <=> owner[s] = c
  /\ Free(table) = {} => freed = <<>>

\* Its peer is gone, or its struct has text where the buffer should be.
Doomed(c) == wire[c] = "reset" \/ Wild(c)

\* "Is true when the server should be kept running": what ends it is an accept that fails, a
\* client that finds the table full, and a signal for a client in it that was doomed.  All
\* else that goes wrong ends one connection.
StopsForAReason ==
  ~running => \/ Waiting # {}
              \/ Free(table) = {}
              \/ \E c \in Clients : InTable(c) /\ Doomed(c)

\* What is echoed to a client is the text it sent, in order and no piece twice, behind what
\* the client whose struct it got had left.  Nothing is missing as long as no send() took so
\* little that the rest is overwritten.  (A client without a usable buffer gets nothing.)
EchoInOrder ==
  \A c \in Clients :
    LET text     == inherited[c] \o sent[c]
        Place(i) == CHOOSE k \in DOMAIN text : text[k] = echoed[c][i]
    IN  /\ Range(echoed[c]) \subseteq Range(text)
        /\ \A i, j \in DOMAIN echoed[c] : i < j => Place(i) < Place(j)
        /\ InTable(c) /\ wire[c] # "reset" /\ ~cut[c] =>
             echoed[c] \o buffer[c] \o arrived[c] = text

\* The facts that make these inductive.

\* A client is in the table from accept to close; before that nothing is known of it.
InvClient ==
  \A c \in Clients :
    /\ InTable(c) <=> wire[c] \in {"open", "closed", "reset"}
    /\ InTable(c) => socket[c] \in Sockets
    /\ ~InTable(c) => /\ sent[c] = <<>> /\ arrived[c] = <<>> /\ buffer[c] = <<>>
                      /\ echoed[c] = <<>> /\ inherited[c] = <<>> /\ ~cut[c]

\* While the scan goes on the client it still has to look at keeps its spot and descriptor,
\* whoever was accepted or closed before, and a client that hung up is gone for good.
InvScan ==
  \A i \in DOMAIN entries :
    IF i = 0 THEN entries[i].fd = ListenFd /\ Waiting # {}
    ELSE /\ table[i] # None /\ entries[i].fd = socket[table[i]]
         /\ "hup" \in entries[i].revents => wire[table[i]] = "reset"

\* There is a free spot for every struct that may be used again.
InvFreed == Len(freed) <= Cardinality(Free(table))

\* The inductive invariant of the table and the scan.
TableInv == TableExact /\ InvClient /\ InvScan /\ InvFreed

\* Every two pieces of s are in t in the same order.
InOrder(s, t) ==
  \A i, j \in DOMAIN s :
    i <= j => \E a, b \in DOMAIN t :
                a <= b /\ (a = b => i = j) /\ s[i] = t[a] /\ s[j] = t[b]

\* What a client in the table was, is or will be sent back is in the order of its text, in which
\* no piece is there twice.
TextInOrder(c) ==
  LET text == inherited[c] \o sent[c]
      flow == echoed[c] \o buffer[c] \o arrived[c]
  IN  /\ IsInjective(text) /\ InOrder(flow, text)
      /\ \A k \in DOMAIN sent[c] : sent[c][k] = [from |-> c, n |-> k]
      /\ wire[c] # "reset" /\ ~cut[c] => flow = text

InvText == \A c \in Clients : TextInOrder(c)

\* What a struct holds that is used again is from clients that are gone for good.
Gone(piece) == piece = Junk \/ wire[piece.from] = "gone"

InvGone ==
  /\ \A i \in DOMAIN freed : IsInjective(freed[i]) /\ \A k \in DOMAIN freed[i] : Gone(freed[i][k])
  /\ \A c \in Clients : \A k \in DOMAIN inherited[c] : Gone(inherited[c][k])

\* The inductive invariant of the text.
TextInv == TableInv /\ InvText /\ InvGone

\* Whoever waits to be accepted is, and what a client in the table sends is read or the
\* client closed, whatever the others do, unless the server stops.  (Who is left outside the
\* table does not wait any longer, and is not read either.)
EverybodyIsServed ==
  \A c \in Clients :
    wire[c] = "backlog" \/ (InTable(c) /\ arrived[c] # <<>>)
      ~> \/ wire[c] # "backlog" /\ (InTable(c) => arrived[c] = <<>>)
         \/ ~running
==============================================================================
