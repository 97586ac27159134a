# A verification development for kommunikation-netze

The repository holds the programs written for a course on communication and
networks: a web server, a chat server with its client, an echo server and an
echo client, and the small runtime they share (objects with retain counts,
dictionaries, a lock-free queue, dispatch queues, a poll thread).  This
directory holds TLA+ modules of them, the TLC configurations that check the
modules on small instances, and proofs that TLAPS checks.

## 1. The system

| component | state | operations | talks to |
|---|---|---|---|
| Queue (`utils/queue.c`) | linked list of nodes, `head`, `tail` | `QueueEnqueue`, `QueueDrain`, from any thread, without locks | malloc and free |
| DispatchQueue (`utils/dispatchqueue.c`) | a Queue of blocks, a semaphore, 1 or 10 threads | `DispatchQueueCreate`, `Dispatch`, the workers, `_DisptachQueueDealloc` | Queue; blocks call anything |
| Object (`utils/object.c`) | retain count, dealloc function, in the chat a recursive mutex | `Retain`, `Release`, `Lock`, `Unlock`; blocks retain the objects they capture | everybody |
| Web poll (`webserver/net/poll.c`) | array of pollfds and their blocks, a Queue of updates, a pipe | `PollRegister`, `PollUnregister` by any thread; `PollThread` | Queue, DispatchQueue, the kernel |
| Web server and connections (`webserver/net/server.c`, `webserver/http/httpconnection.c`) | descriptor, input buffer, retain count of each connection | accept, read, process, send, close | poll, two dispatch queues, request, response |
| HTTPResponse, HTTPRequest, http | header dictionary, how far sending got; a parsed request | parse, resolve a path, send in resumable pieces | connection, Dictionary |
| Chat poll (`chat/net/poll.c`) | as the web poll, with PollDescriptors | register, add event, remove event, remove; `PollThread` | Queue, the kernel |
| Chat server (`chat/server/*.c`) | members by nickname, two buffers per client | accept, read a line, commands, tell everybody, write, leave | chat poll, Dictionary |
| Dictionary, Stack, iterator | binary tree; a stack of entries to visit | get, set, remove, iterate | Object |
| Chat client (`chat/client/Client.c`) | two buffers between socket and GUI process, three PollDescriptors, `keepRunning` | connect, register, read and write on either side, quit | chat poll, the chat server, the GUI |
| Echo server (`echo/echoserver.c`) | table of clients, one buffer each | one loop over poll: accept, read, echo, close | the kernel |
| Echo client (`echo/echoclient.c`) | none but a socket | send a line, wait for one | the kernel |

`chat/utils` and `webserver/utils` hold identical copies of queue,
dispatchqueue and stack.  Blocks and their runtime (BlocksRuntime, a submodule
that is not part of the repository) are external: a block that is copied
retains the objects it captures, and releasing the copy releases them.

What makes the system hard, and what each component must guarantee:

- **Queue**: any number of threads in `QueueEnqueue` and `QueueDrain` at
  once.  It must be linearizable (FIFO, nothing lost or duplicated), must not
  touch freed nodes, and every call must return.
- **DispatchQueue**: enqueue and post are two steps, so are wait and drain,
  and the queue is dismantled by messages to its own workers.  No wake-up may
  be lost, every accepted block must run before the queue is freed, a serial
  queue must keep the order.
- **Web poll and connections**: updates are queued by one thread and applied
  by another, blocks register themselves again while they run, descriptors
  are closed and their numbers reused while old entries are around, and the
  lifetime of a connection is decided by whichever thread drops the last
  reference.  A connection must be worked on by one block at a time, entries
  with events must be about the connection that registered them, a descriptor
  must be closed once, and the answer must reach the peer.
- **Dictionary**: entries are retained by the links between them, so that taking
  one out of the tree moves references around while it frees; iterators hold
  unretained entries and rely on the mutex.  A lookup must find what was set
  last, nothing may be freed while it hangs in the tree or leak when it does
  not, an iteration must see every key once.
- **Chat server**: everything runs in one thread, but what a handler asks of
  the poll happens later, and clients come, go and change names in between.
  The dictionary must hold exactly the members, updates must find their
  entries, POLLOUT must be asked for exactly while there is something to send.

- **Chat client**: two threads start at once, the second before the first has
  assigned what the second uses, and every call blocks.  Lines must pass in both
  directions in order and once, POLLOUT must follow the buffers exactly (an
  empty send ends the client), and the client must end when either side is gone.
- **Echo server**: one thread, but the peers go on between `poll()` and the
  handling of what it reported, and structs and descriptors are used again.
  The table must hold exactly who is connected, one bad connection must not end
  the others, and what is echoed must be what was sent.

`PROJECT.json` lists the hazards one by one, with the line where each would
bite and the properties that watch it.

## 2. Modules

| module | models | built on |
|---|---|---|
| `FifoQueue` | what `queue.h` promises: a linearizable FIFO queue | |
| `Queue` | `utils/queue.c`, one action per access to shared memory | refines `FifoQueue` |
| `QueueProofs` | theorems about `Queue` | extends it |
| `Executor` | what `dispatchqueue.h` promises: blocks start in order, each runs once, the executor closes when nothing is left | |
| `DispatchQueue` | `utils/dispatchqueue.c` | refines `Executor` |
| `DispatchQueueProofs` | theorems about `DispatchQueue` | extends it |
| `WebPoll` | `webserver/net/poll.c` | |
| `HTTPServer` | `webserver/net/server.c`, `webserver/http/httpconnection.c`, composed with the poll and the dispatched blocks | extends `WebPoll` |
| `HTTPResponse` | `webserver/http/httpresponse.c`, as operators on a response | |
| `HTTPAnswer` | the server with its answers spelled out byte by byte | extends `HTTPServer` and `HTTPResponse`, refines `HTTPServer` |
| `HTTPServerNotions` | what the proofs of the server speak of, no code | extends `HTTPAnswer` |
| `HTTPServerProofs` | theorems about `HTTPServer` and `HTTPAnswer` | extends `HTTPServerNotions` |
| `ChatPoll` | `chat/net/poll.c` | |
| `ChatPollProofs` | lemmas about what the updates do to the entries | extends `ChatPoll` |
| `ChatServer` | `chat/server/{listener,client,server}.c`, composed with the poll | extends `ChatPoll` |
| `ChatServerProofs` | theorems about `ChatServer` | extends it and `ChatPollProofs` |
| `ChatClient` | `chat/client/Client.c`, composed with the poll, a GUI and the chat server as one client sees it | extends `ChatPoll` |
| `ChatClientProofs` | theorems about `ChatClient` | extends it and `ChatPollProofs` |
| `Stack` | `utils/stack.c`, as operators | |
| `Dictionary` | `chat/utils/dictionary.c` with the retain counts and the mutex of `chat/utils/object.c` | extends `Stack` |
| `MCDictionary` | the symmetry of `Dictionary`'s threads, for TLC | extends it |
| `DictionaryProofs` | theorems about `Dictionary` | extends it |
| `EchoServer` | `echo/echoserver.c` | |
| `EchoServerProofs` | theorems about `EchoServer` | extends it |

The `TypeOK` of a module is the first conjunct of one of its invariants:
`NoDanglingAccess` of `Queue`, `RetainCountExact` of `HTTPServer`,
`DictionaryExact` of `ChatServer`, `CountsExact` of `Dictionary`, `LinesInOrder`
of `ChatClient`, `TableExact` of `EchoServer`.  `DispatchQueue` has it on its own,
because a theorem is about it.

### Queue

`Nodes` is the heap.  `malloc` returns a fresh node or, when `Reuse` is TRUE,
one that was freed; a load from a freed node returns its old value or `Junk`.
The Makefiles compile without optimisation, so that each load of the source is
one load of the program, in this order: `ReadTail`, `ReadTailNext`,
`CheckTail`, `Link`, `SwingTail` are lines 106, 107, 108, 112, 124, and
`ReadHead` to `FreeHead` are lines 135 to 158.  `AbstractCall` and `Contents`
map a state to `FifoQueue`: an enqueue takes effect at its CAS of `tail->next`,
a drain at its CAS of `queue->head`; a drain that returns NULL took effect at
the moment the queue was empty, which `sawEmpty` remembers.

### DispatchQueue

The queue inside is atomic here; `Queue` is about when that is justified.
A client holds references, dispatches (`DispatchEnqueue`, then `DispatchPost`)
and releases; whoever releases the last reference runs the dealloc
(`DeallocEnqueue`, `DeallocPost`, ..., `DeallocFree`).  `MaxFailures` bounds how
often malloc fails in `QueueEnqueue`, which drops the block without telling.
`maxThreads` never changes: it is one for a serial queue and `PoolThreads` for
any other, so that one instance has both kinds.
`accepted` and `finished` are history variables.  Blocks of the model hold no
reference to the queue they run on: if such a block dropped the last one, the
dealloc would join its own thread.

### WebPoll and HTTPServer

`WebPoll` has the state of the poll thread and what it does to it; the actions whose
effect depends on the registered block (applying an update that releases a block,
calling a block) take that part from the module that extends it. `HTTPServer` says
that the block of a connection is dispatched and captures the connection.  `jobs` is
a bag of blocks that were dispatched, by how far they got; each gets to run when one
of `Workers` threads is free, in any order. `retainCount` goes up and down where the
code copies and releases blocks, and `JobFinishes`, `PollApplies` or `PollReleases`
run the dealloc when it was the last reference.  In the code the block that is
dispatched wraps the block of the entry and retains that, which retains the
connection; the model counts the dispatched block itself as holding the connection.
Until the last of these blocks is gone the number differs from the field, but it
reaches zero at the same time.  The kernel is `owner` (whose connection a number
is), `wire` (what the peer did, and so what `recv` and `poll` find) and `room` (how
much of the send buffer is free).  One read takes everything that arrived; a request
that is complete is never read again.  A peer that hangs up before its request was
read leaves nothing to answer; where the code reads such a request and answers it,
the model has the request read first and the peer hang up after.  A block that
answers (`JobAnswers`) is then `"sending"`: each call of `send()` or `sendfile()` is
a `JobSends`, which comes out complete (`AnswerSent`), short (`AnswerShort`) or with
more to do (`AnswerGoesOn`) as it likes, and uses up as much `room` as it likes.

### HTTPResponse and HTTPAnswer

A response is a record of the fields `httpresponse.c` keeps: `sendStatus`, the
struct `sendStatusExtra` points to, and what is in it (`sentBytes`, the part of
the header the switch is at, the header the iterator is at, `fileOffset`).
`Begun`, `StringSent`, `FileSent` and `Passed` are what `HTTPResponseSend` and
the functions below it do to it around one `send()` or `sendfile()`.
`HTTPAnswer` says what each `JobSends` of `HTTPServer` really is: a call
of which the kernel takes as much as there is `room`; with no room, or when the
peer reset the connection, the call fails.  An error of `sendfile()`, which a
file that could not be opened gives as well, counts as sent, as in the code.
`sent` is the history of what the kernel took; a byte is named by its part and
its place, so that order and completeness can be told.  The retain count of
the response follows the blocks that capture it.  `ServerSpec` is the
specification of `HTTPServer` with the variables they share: every step of the
detailed server is a step of the coarse one, or none, so that what holds of
references, descriptors and entries there holds here.

### ChatPoll and ChatServer

A handler runs in the poll thread and nobody else touches the clients, so each
handler is one step: `PollIn` with `DoRead` and `HandleLine` is one line read and
everything it causes, in the order of the code.  `Tell` is `ClientWriteLine` for a
sequence of clients, with the updates the caller queues before and after. What a
peer sends arrives in pieces, each with the end of a line or without, and one `recv`
takes any number of them; then one line is handled if the buffer has one (`DoRead`),
empty ones without a word (`Ignore`).  Buffers are what the handlers ask of them (is
there something to write, how many complete lines are left), names are numbers:
`Derp<n>` takes the least free one, `/nick` any.  There is one listener; one per
address that `getaddrinfo` returns would add entries of the same kind.  Sockets are
blocking: a `send` that does not fit leaves the thread in `"send"` until the peer
reads or goes. An update carries the events it sets, adds or removes.
`WillWatch(pd)`, in `ChatPoll`, is whether POLLOUT of a descriptor is watched for
once the updates queued so far are applied; both ends of the chat are held to it.

### ChatClient

The main thread (`Connects`, `Registers` and `Assigns` three times, `Quits`)
and the poll thread run at once: `assigned` counts the PollDescriptor fields
that are no longer NULL, and a block that passes on what it read through one
that is ends the process (`Announces`).  `Receives`, `GuiReads`, `Sends` with
`SendGoesOn`, and `GuiWrites` are the four handlers; lines are numbers, and each
of the four stations between keyboard and server (pipe, `outBuffer`, the
kernel's buffers) is a sequence.  `send()` blocks until everything is in the
kernel, one line per step (`LineGoes`), so that the server can read, hang up or fill
the other direction meanwhile; when the connection is reset under it, it returns
short, and the buffer and POLLOUT stay as they are.  A reset may leave what arrived
before it for `recv()` or take it along (`Reset`).  `socket` is `"stdin"` after a host
that cannot be resolved: `ClientConnect` returns -1, which is true.

The server side is what `ChatServer.tla` looks like to one of its clients.
`ServerReads` takes any number of the lines that arrived into the buffer of the
server, as one `recv` may, and handles one line at most, which has an answer or
(an empty one) none; that the others wait is finding 2, and `LinesArrive` speaks of
lines that have come into that buffer, not of lines that were answered.
`OthersTalk` is everything else that makes the server write to this client,
`ServerSends` writes only when there is nothing to read, and blocks too.  The GUI,
whose source is not in the repository, is external: it types, takes what it is
given, or goes.

### Stack and Dictionary

`heap` holds the entries with their links and retain counts; `SetLeftEntry`,
`Replace`, `Hung`, `Removed` take a heap to a heap in the order of the retains
and releases of the code, and `Released` runs the dealloc of an entry when its
last reference goes.  A call that takes the mutex and gives it back is one
step.  `Lock` and `Unlock` are those of `ClientSetNickname`, which looks up,
removes and sets under one mutex.  `Lock` takes its reference before it waits for the
mutex; `dictCount` has it from when the mutex is taken, since nobody gives the
dictionary up while a thread waits for it.  `iter` is the iterator in use, `iterators`
counts it and those that were left behind without being released, as the chat
server does: their owner keeps the mutex for good and goes on changing the
tree.  `contents` and `visited` are history variables.  An entry for which
there is no memory is dropped without a word; that branch of `DictionarySet`
is there.  The web server has an older copy without mutex and without remove;
its iterations are safe because only one thread at a time has the response.

### EchoServer

One iteration of `runloop` is `Polls`, which builds the poll array and takes
what the kernel reports, and one step per descriptor with events.  `entries` is
what is left of them, a function from the spot in the table (0 is the listener)
to the descriptor and its events; the peers go on between the steps.  `Admits`,
`LeavesOutside`, `DiesWhenFull` and `AcceptFails` are the ways out of `acceptNewClient`;
`Processes` is `processClient` with as many pieces as one `recv` finds and as
many as `send` takes; `HangsUpAfter` is what POLLHUP adds.  Pieces are received
and sent whole, which stands for any text; `AfterSend` is the `memmove` and the
`memset` of lines 285 and 286.

A client struct is `malloc`'d and read before it is written (`client->server`,
`client->buffer`).  What it holds then is decided as the malloc of the platform does
(`Allocated`).  It is the struct that was freed last, if one is left (`freed`, a
stack of what their buffers hold).  Otherwise it is memory never used before, which
is zero, or, when a buffer has grown so large that `realloc` moved it (`LargeText`,
`moved`), a part of the place it was moved from.  Then there is old text in both
fields.  Text for `client->buffer` is `Junk`: the first `strlen` of it, when
something arrives, ends the process (`Wild`).  Text for `client->server` matters
when the table is full: the client is not found to be without a spot, but kept open
outside the table, where nobody polls it (`LeavesOutside`, `"outside"`); when the
field is NULL, `CloseClient` follows it (`DiesWhenFull`).  Clients connect in the
order of their numbers and the kernel gives the lowest descriptor, as POSIX says.
`echoed`, `inherited` and `cut` are history.

## 3. Runs

| run | instance | distinct states | shows |
|---|---|---|---|
| `queue_spsc` | 1 producer, 1 consumer, 3 nodes reused for ever | 31 303 | refinement of `FifoQueue`, no dangling access, every call returns |
| `queue_mpmc` | producers {main, poll}, consumers {poll, worker}, no reuse | 390 000 | refinement, no abort |
| `queue_recycled` | 1 producer, 2 consumers, reuse | violation | finding 1 |
| `dispatch_pool` | a serial queue or 3 workers, 2 clients, 3 blocks, 1 malloc failure | 180 109 | safety, order, refinement of `Executor`, liveness |
| `http_sockets` | 2 connections, 1 descriptor, 2 workers, pipe of 2 bytes | 1 441 934 | the safety of the web server |
| `http_answers` | 1 connection, strings and files of 2 bytes, a send buffer of 1 | 313 102 | answers in order and complete, the life of the response, descriptors come back, refinement of `HTTPServer` |
| `chat_members` | 2 clients, 2 descriptors, 1 piece each | 2 025 827 | the safety of the chat server |
| `chat_sent` | 2 clients that send nothing | 140 247 | liveness |
| `chat_lines` | 1 client, 2 lines | violation | finding 2 |
| `dictionary_tree` | 7 keys, 2 values, 2 threads, 2 unreleased iterators | 1 163 417 | lookups, retain counts, iterations, what iterators point at |
| `chat_client` | 3 lines typed, 2 of them early, 2 told, room for 2 lines and 1 | 855 058 | lines in order, POLLOUT follows the buffers, why the client dies, liveness |
| `echo_scan` | 3 clients, a table of 2, 3 descriptors, 2 pieces each, moved at 2 | 101 704 | the table, why the server stops, the text echoed, everybody is served |

Why these bounds are enough to be interesting:

- Queue: three nodes are the dummy, one element and one that is being
  enqueued or freed; with reuse a node that is freed is back in the list
  within two calls, which is what stale pointers need.
- DispatchQueue: three workers and three blocks are more of each than of
  the clients, so that blocks overtake each other and workers compete for
  one wake-up; a thread that could not be created is included, and so is the
  serial queue.  The one malloc failure hits an enqueue or an exit block.
- HTTPAnswer: strings of two bytes and room for one cut every string, header
  and file in the middle; one header is what the server sends.  One connection
  and one worker are enough, since the answers of two share nothing.
- HTTPServer: one descriptor for two connections makes every accept reuse the
  number, as soon as it is closed and while old updates and entries are around.
  Two workers let a block run while the one that registered it has not
  returned.  A pipe of two bytes with reads of one fills up and is
  never emptied by one read.
- ChatServer: two clients are the one who acts and the one who is told; two
  names are both taken or one is free; a pipe of one byte is always full when
  a handler tells two clients.  Two descriptors are both in use, or one is and
  the next `accept` reuses the other; when it fails, the client whose socket
  is -1 is a member all the same.
- ChatClient: room for two lines towards the server lets one `recv` take two, and
  the third is the one behind them; two lines towards the client and room for one
  are one on its way and one behind it.  Both buffers fill up, so that both sides
  block in `send`, which is reached.  `MaxEarly` lets two of the lines be typed while
  the main thread still registers.
- EchoServer: the third client finds the table full, or gets the struct and the
  spot of one that left; of two pieces the second ends a line, so that text
  waits in the buffer and is sent in part.  A buffer of two pieces counts as large, so
  that the next struct may be a part of where it was.
- Dictionary: seven keys make every search tree of that size, and are the
  least number for which the array of an iterator's stack is doubled.  `MaxUnusual` keys at
  once have another value than the usual one, so that updates of present keys
  happen without multiplying the trees.  Two threads are the one that iterates
  and the one that would disturb it.

Bounds named in the modules: `Nodes`, `MaxFailures`, `Connections`, `Workers`,
`SendBuffer`, `StringSize`, `FileSize`, `Clients`, `Sockets`, `Names`, `MaxPieces`,
`MaxTyped`, `MaxEarly`, `MaxTold`, `ServerRoom`, `ClientRoom`, `LargeText`,
`PipeSize`, `ReadSize`, `Keys`, `MaxUnusual`, `MaxIterators`.

Deadlock is checked except where the program really stops: in `queue_recycled`
it ends with an assertion; in `dispatch_pool` an exit block that is lost leaves
the dealloc joining a thread that waits for ever; in `chat_client` the process
ends; in `echo_scan` the server ends when its accept fails or its table is full.
`DispatchQueue` without failures ends in `Freed`, which stutters.

### Fairness

- `Queue`: a thread inside a call goes on (weak fairness of each thread);
  nobody has to make a call.
- `DispatchQueue`: the scheduler runs the workers, the dealloc and a client
  between its enqueue and its post.  A client need not dispatch or release.
- `HTTPAnswer`: the main thread, the poll thread and the blocks of each
  connection go on, and a peer that has been sent something eventually reads
  it.  No peer has to send, finish its request or hang up.  That the blocks of
  each connection go on is what a pool gives whose blocks all end: the jobs
  here wait for nothing but a free thread.
- `ChatServer`: both threads go on and a peer reads what it is sent.  Without
  the latter one client that stops reading stops everybody, because sockets
  are blocking.  `MaxPieces` matters for the liveness too: POLLIN goes before
  POLLOUT, so a peer that never stops sending is never written to.
- `ChatClient`: both threads go on, and so does the server, which reads and
  writes when it can.  The GUI need not type and nobody has to hang up.
- `EchoServer`: the loop goes on; no peer has to do anything.

### Findings

1. `queue.c:156`: without counters and with plain `free`, two consumers and
   recycled memory make `QueueDrain` hand out a node twice (`queue_recycled`).
   `queue_spsc` and `queue_mpmc` show the two ways of use in which the queue is
   sound: one thread on each side, or memory that is not recycled while a call
   is in progress.  The update queues of both polls have one consumer but
   several producers; their exposure is that of line 112.
2. `chat/server/client.c:221`: one line is handled per `recv` (`chat_lines`).

Also noticed, and not the subject of a run of its own:

- `webserver/net/poll.c:293`: an entry that is removed keeps its reference to the
  dispatch queue, one per event.  The queues live as long as the process, so
  the effect is an int that grows.
- `httpconnection.c:286`: a file that `lstat` finds and `open` does not open is
  answered with 200 and an empty body (`"unopened file"` in `HTTPResponse`).
- `httpresponse.c`: a connection that breaks in the middle of an answer leaves
  the struct of `sendStatusExtra` and its iterator behind.
- `chat/net/poll.h:49-51` says that releasing a PollDescriptor removes it from
  the poll, but the descriptor's dealloc does not.
- `stack.c:67`: `StackPush` writes the third object of an array of two behind what
  it asked for, and so at every size.  `Full` is as in the code, but what the write
  hits depends on the layout of memory, which is not modelled: no property here says
  that the stack is safe.  The malloc of glibc happens to leave room for it.
- `httpconnection.c:182`: a request that fills the buffer to its last byte makes
  `HTTPConnectionReadRequest` call `recv` again; if the peer has closed its side by
  then, the request is dropped unanswered.
- The chat programs and the echo server do not ignore SIGPIPE, the web server
  does.  The iterators of `ServerSendChannelMessage` and `/list` are never released.
- `Client.c:261`: a greeting that arrives before `ClientCreate` is done finds a
  NULL PollDescriptor (`DiesForAReason` names it as one of the reasons).
- `Client.c:269`: client and server can both wait in `send()` for ever (`BothSend`,
  which the liveness properties except).
- `Client.c:193`: a host that cannot be resolved counts as connected, on socket 0.
- `Client.c:110`, `122`: POLLHUP goes before POLLIN, so what was typed right before
  the GUI ended is not sent; when `gui_start` fails `ClientDealloc` sends SIGTERM
  to process -1.
- `webserver/utils/str_helper.c:42`: `strtrim` looks at the terminating 0 instead of the last
  character, so the end of a header value is never trimmed, as `str_helper.h:30` says it is.
- `echoserver.c:217`: the test for a full table reads uninitialised memory.  When it
  is NULL `CloseClient` follows it and the server ends; when it is not, the client is
  told it was accepted, and its descriptor stays open and is never polled.
- `echoserver.c:249`: the buffer of a client that left is found again in the struct
  that is reused, and its text goes to the next client (`inherited`).  When the
  struct is not a reused one but memory a buffer was in, `client->buffer` is no
  address, and line 256 faults on it (`Junk`).
- `echoserver.c:295`: what is left after a partial send waits for the next input.

## 4. Proofs

The theorems hold for every value of the constants that satisfies the named
`ASSUME` of the module: finite sets of clients, connections, descriptors and
keys, sizes that are positive, and special values that are different from each other.
Nothing else is assumed, but for the theorems about `Queue`, which have a
hypothesis of their own.  Each inductive invariant below is a definition of
the proved module or of its proofs.  It was checked by TLC as an invariant of
the instance of the module's run before it was proved (`Dictionary`'s with six keys, and
with the functions whose existence it asserts computed from the links); none of
them is the property of a run, since the theorems say more.

| module | theorem | states |
|---|---|---|
| `QueueProofs` | `QueueSafe` | `~Reuse`: `Spec => []QueueInv` |
| | `NeverAbortsAlways` | `~Reuse`: `Spec => []NeverAborts` |
| | `NeverTwice` | `~Reuse`: `Spec => []NeverDequeuedTwice` |
| | `ImplementsFifo` | `~Reuse`: `Spec => FifoSpec` |
| | `PairSafe` | `Producers = {p}, Consumers = {c}`: `Spec => []PairInv` |
| | `NoDanglingAlways` | `Producers = {p}, Consumers = {c}`: `Spec => []NoDanglingAccess` |
| | `PairNeverAborts` | `Producers = {p}, Consumers = {c}`: `Spec => []NeverAborts` |
| | `PairImplementsFifo` | `Producers = {p}, Consumers = {c}`: `Spec => FifoSpec` |
| `DispatchQueueProofs` | `TypeCorrect` | `Spec => []TypeOK` |
| | `Invariance` | `Spec => [](TypeOK /\ Inv)` |
| | `FreeIsSafe` | `Spec => []NoUseAfterFree` |
| | `FreeIsComplete` | `Spec => []DrainedBeforeFree` |
| | `SerialQueueKeepsOrder` | `Spec => []SerialOrder` |
| | `NoWakeupIsLost` | `Spec => []NoLostWakeup` |
| | `ImplementsExecutor` | `Spec => ExecutorSpec` |
| `HTTPServerProofs` | `ServerInvariant` | `Spec => []ServerInv` |
| | `ReferencesAreCounted` | `Spec => []RetainCountExact` |
| | `SocketsAreOwn` | `Spec => []SocketIsOwn` |
| | `WorksAlone` | `Spec => []OneAtATime` |
| | `EntriesAreFresh` | `Spec => []NoStaleEntry` |
| | `WakeupsArrive` | `Spec => []NoLostWakeup` |
| | `AnswersInvariant` | `AnswerSpec => []AnswerInv` |
| | `ResponsesAreHeld` | `AnswerSpec => []ResponseHeld` |
| | `AnswersAreInOrder` | `AnswerSpec => []AnswerInOrder` |
| | `AnswersImplementServer` | `AnswerSpec => ServerSpec` |
| `ChatServerProofs` | `ChatInvariant` | `Spec => []ServerInv` |
| | `DictionaryIsExact` | `Spec => []DictionaryExact` |
| | `SocketsAreOwn` | `Spec => []SocketIsOwn` |
| | `UpdatesFindTheirEntry` | `Spec => []UpdatesFindEntry` |
| | `BuffersAreWatched` | `Spec => []WatchedWhileBuffered` |
| `ChatClientProofs` | `ClientInvariant` | `Spec => []ClientInv` |
| | `LinesStayInOrder` | `Spec => []LinesInOrder` |
| | `BuffersAreWatched` | `Spec => []WatchedWhileBuffered` |
| | `DeathHasAReason` | `Spec => DiesForAReason` |
| `EchoServerProofs` | `TableIsExact` | `Spec => []TableExact` |
| | `StopsOnlyForAReason` | `Spec => []StopsForAReason` |
| | `EchoesInOrder` | `Spec => []EchoInOrder` |
| `DictionaryProofs` | `InductiveInvariant` | `Spec => []IInv` |
| | `LookupsAgree` | `Spec => []GetAgrees` |
| | `CountsAreExact` | `Spec => []CountsExact` |
| | `IterationsAreComplete` | `Spec => []IterationIsComplete` |
| | `IteratorsPointAtEntries` | `Spec => []IteratorEntriesLive` |

The proof of a step lemma has one step per action.  Frame lemmas dispose of the
actions that leave the variables of a conjunct alone, and what several actions
do alike (queue an update, close a descriptor, hand on a reference) is a lemma
about that.  What a proof module needs to know of numbers, sequences, sets and
bags comes first in it.  Induction is done by way of the smallest member of a
set of numbers (`LeastMember`), such as the first index at which something
would be wrong: the induction theorems of the library take an operator as a
parameter, which cannot be instantiated here.

### Queue

There are two groups of theorems, one for each way the queue can be used safely.

The first is about any number of producers and consumers, as `NeverAborts` and
`FifoSpec` are checked by `queue_mpmc`, and needs its hypothesis: `malloc` returns
no node that was freed (`~Reuse`).  With several consumers they are false without
it: `queue_recycled` shows the assertion of `QueueDrain` fail, so that run and
theorem together say that what goes wrong with the queue takes a recycled node,
which the modification counters of the original are there for.  A node that was
freed is still read (a late drain reads `next` through its old `head`) and what it
reads may be `Junk`; the proof has to show that such a value is never followed.

`QueueInv` says that there is a sequence `s` of distinct nodes, all that were ever
linked, each pointing to the next and the last to nothing, and places `h <= l` in
it for `queue->head` and `queue->tail` (`InvChain`, `InvEnds`).  What is freed is
before `h`, and what is behind it has an element and was not dequeued (`InvHeap`).
The rest is what a thread knows by where it is: `Prepares`, its node is not in `s`
yet and is as `malloc` left it; `Enqueues`, `tail` is in `s`, not behind `l`, and if it
still is `queue->tail` then `next` is right; `DrainsFrom`, `head` is some `s[k]` with
`k <= h`, and if it still is `queue->head`, so that the CAS will succeed, then `next`
and `element` are what follows it.  A comparison that succeeds later
therefore vouches for what was read before it: places only move forward and a node has one
place, which is where `~Reuse` enters.  `InvOwners`: a new node, and a node
that was taken out, is one thread's.  `OthersKeep` is the lemma that does most of the
work: whatever moves along the chain or extends it, what the other threads
know stays true.

For the refinement `Contents`, which follows the pointers, is shown to be the
elements behind place `h` (`ContentsAre`; the recursive function is compared with
the sequence at the smallest index where they could differ).  Then the
CAS that links appends, the CAS that moves `queue->head` takes the first, all other
steps leave `Contents` alone; and a drain that returns NULL had `sawEmpty`, since its
`tail` was read after its `head` and both are the last node.

The second group is about one producer and one consumer (who may be the same
thread) and any behaviour of `malloc`, as `queue_spsc` checks it.  Here
`QueueInv` would be useless, since a node may be in several places of the
sequence of all nodes ever linked.  `PairInv` has a sequence `s` of the nodes that
are live and linked only: it starts with the node the consumer took for the head,
grows when the producer links and loses its first node when the consumer
frees it.  Everything else follows from there being nobody else: until the producer
has linked, `queue->tail` is the last node of `s` and so is its `tail` (`SoleProducer`), so
the CAS that links cannot fail and `HelpTail` is never reached; `queue->head` moves
only in the consumer's own call, so that its `head` is `s[1]` throughout
(`SoleConsumer`), and when it has moved to `s[2]` the place of `queue->tail` is already
`2` or more, so that the node that is freed is not one the producer will read.
This is the argument that makes the counters superfluous, and what `queue_recycled`
loses with a second consumer.  The refinement is proved by the same lemmas:
`EnqueueMaps` and `DrainMaps` say what is needed of `malloc`, the CAS that links, the
CAS that moves the head and the mark, and `ContentsGrow`, `ContentsShrink` and
`ContentsKeep` provide it from either invariant.

### DispatchQueue

`DrainedBeforeFree` is not inductive: it speaks of the state after the free.
`Inv` is its strengthening, one conjunct per reason.  `InvPhase`: nothing is
stopped before the last release, and only holders dispatch.  `InvWorker`: a
worker that exited holds the exit block.  `InvExit`: behind an exit block there
are only exit blocks, and once one was drained only those are left; this is
where the FIFO order of the queue enters.  `InvJoin`: the first `exits` workers
have exited.  `InvAccepted`: what was accepted is queued, running or finished.
When the queue is freed all workers have exited, hence hold exit blocks, hence
the queue has nothing else left, hence everything accepted is finished.
`InvSerial` says of one worker that what finished, what runs and what is queued
are, in this order, what was accepted (up to exit blocks and blocks lost before
they were accepted).  `InvDistinct` says that a block is queued once or
held by one worker, never both, which makes "each block once" of the executor
true.  `NoLostWakeup` needs the type
invariant and `InvPhase` only; its proof counts clients and workers with the
facts about cardinality of the standard library.

The refinement maps the queue to the blocks in it without the exit blocks, and
the workers to the blocks they hold.  A dispatch is the executor's
`Accept` at the enqueue (or nothing when malloc fails), a drain of a block is its
start, the end of a block its end, the free its `Close`; posts, waits, joins and
exit blocks are invisible.  Because the exit blocks are last (`InvExit`), leaving
them out of the sequence commutes with `Append` and `Tail`.

### HTTPServer

`ServerInv` has nine conjuncts because references, descriptors, entries and
updates are each safe for the sake of the others.  `RetainCountExact` says that
`retainCount` is the number of updates, entries, jobs and calls that hold the
connection; a descriptor is closed by whoever drops the last reference, so
nobody can close it while somebody else is using it.  `SocketIsOwn` needs to know
that a connection without references is only being deallocated (`InvLifetime`).
`InvAlone` is the protocol of a connection: it is in exactly one place (one
queued registration, one armed entry, one block at work, just accepted, or just
fired), which `OneAtATime` says of the blocks only.  `InvDescriptor`: in that
place it has its descriptor.  `InvQueueOrder`: an unregistration of a descriptor
is never behind a registration by its next owner, which would be thrown out
with the old entry.  `InvEntries`: one entry per descriptor, which is what makes
removal by descriptor safe.  `InvArmed`: between the drain and the end of the
scan only entries that fired are to be removed.  `InvWakeup`: an update that is
queued is announced until the thread takes it.  `NoStaleEntry` follows from
`InvArmed`, `InvDescriptor` and `SocketIsOwn`; `OneAtATime` from `InvAlone`.  The
count of references over sequences and bags is taken apart by lemmas about what
`Append`, `Tail`, removal of an entry, and putting a job in or out of the bag do
to it.

### HTTPAnswer

`AnswerInv` has `ServerInv` as its first conjunct; nothing of that is proved again, since
each step of `AnswerNext` is a step of `Next` or leaves its variables alone
(`AnswerSteps`).  That is also the refinement `AnswersImplementServer`, which needs
the invariant because what a call takes has to be a number, and no greater than the
room there is.

`AnswerInOrder` says what the kernel got is a prefix of the answer, from which nothing
follows about the next byte.  `InvSent` says which prefix: `SentBy(Begun(r))`, all that
stands before the part the response is at, and the first `Offset(r)` bytes of that part.
A call takes the bytes from there on (`Taken`), and when it took the last one the
next part begins where this one ended, which is the lemma about `Passed` for every
`sendStatus` and, in the headers, every `status` and place of the iterator.
`FirstHeaders` flattens a sequence; its value for `n + 1` from that for `n` follows from
comparing two functions at the least place where they differ.  `InvResponses` has what
makes `SentBy` meaningful: the iterator is behind the last header exactly when
`status` says so, `sentBytes` is within the string, `sendStatusExtra` belongs to the stage.
When the response is complete the kernel got all of it, or the peer had reset the
connection: a `sendfile()` that failed counts as sent, which is harmless only then and
where the file could not be opened and the body is empty.

For that the response has to be there, and to be used by one block at a time.
`ResponseHeld` counts who holds it like `RetainCountExact` counts who holds
the connection, over the same sequences and bags, but only those that wait for POLLOUT
or answer; that there is one at work is `InvAlone`.  It is not inductive either:
`InvKinds` and `InvFresh` say that before the request is read nobody answers, and that
there is no response before the answer begins, so that `HTTPResponseCreate` replaces
none; `InvClosing`, that the connection is closed after the response is complete and
then only, so that nobody is woken for an answer that is already complete.

`Served(c)` says all of this of one connection.  Most steps take no response further:
for those, `Steady(c, n)` says what happens to the wire, the jobs and the number of
holders, which grows by `n` (one lemma per action), and `Passes(c, n)`, that the
retain count follows; together they preserve `Served`.  The calls that send are
treated one by one (`Sound`).

### ChatPoll, ChatServer, ChatClient

`ChatPollProofs` has what both ends need: for a descriptor that is registered or
about to be, the last update about it decides whether POLLOUT will be watched;
appending an update makes it the last one, and applying the first one changes
`polls` and `updates` but not what will be watched.

`ServerInv` of `ChatServer`: `InvLife` ties a client's life to its connection.
`InvNames`: the dictionary has a member under the name the member has, and under
no other, which `/nick` and leaving must keep.  `InvPolled` (`Arranged`) is the
protocol between handlers and poll: whoever asked for an entry has one or a
registration queued, but not both, and only one; whoever asked for its removal
has one removal queued, behind everything else about it; an update that changes an
entry is behind the registration.  Since a descriptor that was closed may be
given to the next client before the removal is applied, entries and updates are
told apart by PollDescriptor and not by number; `SocketIsOwn` is about the
number.  `InvLoop`: what `poll()` reported is about members until the loop gets
there, because nothing but the registration of the listener is queued between
the drain and the scan; it is what makes the second half of
`WatchedWhileBuffered` (POLLOUT was reported, so there is something to write)
hold while other handlers run in between.  `InvWatched` is the first half for
every member.

`ClientInv` of `ChatClient`: `InvMain` and `InvRegistered` say which registrations
were made, once each and without POLLOUT, by two threads that start together.
`InvLines` says that the stations of a direction, laid end to end, are the lines
that were typed or told; the part about `"reset"` keeps what the kernel destroyed
apart from what the client still holds.  `InvWatched` is `WatchedWhileBuffered` and
that the buffer is not empty while `send()` goes on, which is what keeps the two in
step when it returns, complete or short.  `DiesForAReason` is an action property and
follows from the invariant before the step.

### EchoServer

`TableInv` is about the table: `TableExact`, `InvClient` (a client is in the table
from accept to close, and nothing is known of it before), `InvScan` (what the
scan still has to look at keeps its spot and its descriptor, whoever came or
went before) and `InvFreed` (there is a spot for every struct that may be used
again).  `StopsForAReason` follows from it step by step.  `TextInv` adds the text.
`EchoInOrder` is not inductive, since it says nothing of a connection that was
reset or cut; `InvText` says that what was, is or will be echoed is a part of
the client's text in order, no piece twice, and all of it unless something was
lost.  `InvGone` is about text that is inherited from a struct: it is from
clients that are gone for good, or `Junk`, so that it cannot be confused with the own.
`TableExact` speaks of the clients outside the table too, which have a descriptor
and nothing else; that a full table leaves no struct in `freed` is why a client that finds
it full never gets one.

### Dictionary

`IInv` is `TypesInv`, `MutexInv` (the count of the dictionary is its creator's, its
`Lock`'s and its iterators', and the iterator in use belongs to the holder of
the mutex) and `HeapInv`.  `GetAgrees` says what lookups return and nothing of
why, and is not inductive.  `HeapInv` says that the links are a search tree:
there are `lo`, `hi` and `up` that give each entry the open interval of the keys
that may hang below it and the entry it hangs from (`Tree`); that exactly the
head and the keys with contents are in it, each with one reference and its
value; and, while an iterator is in use, that every entry has been seen or is
below exactly one entry of the stack (`Covers`, `Iterates`).  `lo`, `hi` and `up`
are not state: they are quantified, and each operation is shown to have new ones.

The functions that follow the links, `Find`, `Parent`, `Leftmost` and `released`, have
a value because the interval gets smaller with each step down, or because one
entry less is allocated with each dealloc; both are numbers, and what a walk
returns is proved for the least one for which it would not.  A removal is
followed through the retains and releases of the code: the children are
retained, the link to the entry is released, its dealloc gives back the
children, and the counts come out as one per link again (`Holding`, `Moved`,
`Counted`, `Unlinked`).  When an entry with two children goes, its left subtree
ends up below the leftmost entry of the right one, and the intervals of what is
on the path grow.  The last release of the dictionary goes down the whole tree
(`Without`, `AllFreed`).

### Only model-checked

Liveness: fairness and ENABLED are out of the prover's reach, and all liveness
properties are checked by TLC on the instances of section 3 only.  Every
invariant of a passing run, every refinement and every action property is a
theorem; those of `Queue` in the two cases above, since with several consumers
and recycled nodes they are false.

## 5. Not modelled

- Memory that runs out, except in `QueueEnqueue` (`Queue`, `DispatchQueue`);
  `poll()` that fails, which ends the poll thread; failures while a server starts.
- The contents of requests, lines and messages: the request parser is a pure
  function of the text.  The setters of a response, which are done before
  anything is sent.
- The echo client, which is sequential: it sends a line and waits for one.
- The chat client's GUI, which is another program, `gui_start` and `PollCreate`
  that fail, and a blocking `send` or `write` that a signal interrupts.
- In the echo server, `poll()` and `fcntl` that fail, and the byte behind the
  local array that terminates a `recv` of 255.
- A dictionary or iterator for which there is no memory (the iterator would
  leave the mutex locked, `dictionary.c:291`), a dictionary that is changed
  inside an iteration of the same thread, the reference of a thread that waits for
  the mutex, and what `stack.c:67` overwrites.
- More than one listener of the chat server.
- `PollDealloc`, `QueueDestroy`: no server gives up its poll.
- A chat `send` that is interrupted and returns short, and SIGPIPE.

## 6. Plan

Done: the queue and its promise, the dispatch queue and its promise, the web
poll with the server and its answers, the chat poll with the server and the
client, the dictionary, the echo server; the proofs of section 4.

1. `HTTPRequest`: the parser as operators over a small alphabet, against a
   definition of what a request is.
2. `ChatServer` on top of `Dictionary`'s promise: a member who is disconnected in
   the middle of an iteration, when memory runs out in `ClientWriteLine`.
3. Start-up and shut-down of the servers.
