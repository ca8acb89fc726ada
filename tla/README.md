# A verification project for the Apoapse Protocol

The Apoapse Protocol (`src/Code`) is a C++ library for clients and servers that exchange *commands* over
TLS connections, keep *data structures* in an SQLite database and send files over connections of their
own. This directory holds TLA+ modules that model its parts, TLC configurations that check them on small
instances, and proofs checked by TLAPS. Line numbers are those of the commit beside this directory.

Contents: 1 the system, 2 the modules, 3 the runs, 4 fairness, 5 what disagrees with the code's own words,
6 what is proved, 7 what is only model-checked, 8 what is not modelled, 9 the plan.

## 1. The system

### Who runs what

One thread runs Boost.Asio's `io_service` (the repository's README shows one `run()`), and executes the
handlers of all connections one after the other. A handler parses what was read, finds the command, and
runs its whole pipeline: save in the database, process, propagate to other connections, register the
operation. All database access is synchronous and happens in that handler. Besides that thread there are
the workers of `ThreadPool` (one of them writes the log), and the SQLite file, which outlives the process.

    socket -> TCPConnection -> GenericConnection -> NetworkPayload -> CommandsManagerV2 -> (application)
                  ^  ReadSome      ProcessHeader        Insert          OnReceivedCmdInternal
                  |                                                     |    |       |
       m_sendQueue + Send <---- CommandV2::Send <------ Propagate ------+    |       +-> ApoapseOperation
                                                                             |              RegisterOperation,
    FileStreamConnection (own socket, raw bytes)                             |              ExecuteSyncRequest
    DatabaseIntegrityPatcher (once, at start) --> SQLite <-- DataStructure::SaveToDatabase
    Logger --> ThreadPool(1)                      ThreadPool(n) <-- the application, SQLQuery::ExecAsync

The application derives from `CommandsManagerV2`, `GenericConnection` and `FileStreamConnection`: the
code calls it back at named points, where it may send, close or throw. It is not in the repository.

### The components

**Thread pool** (`ThreadPool.h/.cpp`). State: a lock-free queue of tasks, the atomic
`m_tasksInQueueCounter`, `m_queueCapacity`, a mutex, a condition variable, detached workers. Operations:
`PushTask`/`PushTaskFuture` (push, count, notify, maybe resize), `Run` (lock, look at the counter, pop,
uncount, execute, wait), the destructor. Hard: nothing but the mutex of the workers is common to callers
and workers; counter, queue, capacity and notification are separate unlocked instructions. Correct when:
every task runs once, in order and one at a time; no wakeup is lost; counter and queue agree up to what is
in transit; the assertion of `Run` holds.

**Payload framing** (`NetworkPayload`, `Range.hpp`, the `Process...` functions of `GenericConnection`).
State: the read buffer, a cursor in it, the payload being assembled. Operations: `Insert`, `BytesLeft`,
`ReadHeader`, and the recursion over a buffer that holds several frames. Hard: reads may be cut anywhere,
unsigned differences, a zero-length payload, a header that announces too much. Correct when: the payloads
dispatched are the frames sent, whole and in order, and no byte is lost or used twice.

**TLS connection** (`TCPConnection`, `GenericConnection`). State: `m_isConnected`, `m_closeRequested`,
`m_sendQueue`, the pending read and write, the socket, the bodies of `Close()` posted to the strand.
Operations: connect, accept, handshake, `Send` and its chain of writes, the read loop, dispatch of a
payload, `Close`, `RequestClose`. Hard: what the queue's emptiness stands for, handlers that run after a
close or an error, partial writes, errors in the middle of a batch. Correct when: one write at a time, of
the front of the queue; messages in the order of `Send`; exactly one read while the connection is up;
what was accepted is transmitted.

**Command pipeline** (`CommandsManagerV2`, `ApoapseError`). State: the registry of commands. Operations:
`CreateCommand`, `OnReceivedCmdInternal` and its steps. Hard: steps that fail after earlier ones had an
effect, closing in the middle. Correct when: a command's effects on the connection, the database and
other clients belong together or are accounted for.

**Operations and synchronisation** (`ApoapseOperation`, `DataStructure`). State: the tables of items and
operations. Operations: `SaveToDatabase` (update or insert by unique field), `GetDbId` (look up or predict
an id), `RegisterOperation`, `ExecuteSyncRequest`. Hard: statements commit one by one, commands are
repeated, ids are predicted, clients come and go. Correct when: saving is idempotent, an operation refers
to its item, and a client that synchronises ends up with what concerns it.

**Database integrity patcher** (`DatabaseIntegrityPatcher`). State: the tables, their temporary copies, the
structures the running version wants. Operations: select, rename, create, copy, drop per table at start.
Hard: no transaction; a stop between any two statements; copies that fail; later versions. Correct when:
no row is destroyed, and a program that runs has the tables it wants, with its rows.

**File stream connection** (`FileStreamConnection`). State: two queues of files, the file being sent and
the one being received with the bytes left, one buffer each way. Operations: push a file, chunks, reads
"anything" or "exactly", authentication, errors. Hard: no header separates files; sizes of two widths; a
push while a file is in flight, and from the callback at the end of one; a new connection after half a file.
Correct when: the stream is the files one after the other, the receiver ends each where the sender did, and both
queues go on to their end.

**Connection without TLS** (`TCPConnectionNoTLS`, for applications to derive from) and **TCP server**
(`TCPServer`, `TCPServerNoTLS`, the same text twice). State: the acceptor, the connection that waits for a
client, and per connection the flag, the queue, the pending write and the pending read. It differs from the
TLS connection where it matters: `Close()` closes at once and may throw out of the handler that called it, and
`async_write_some` takes whatever part of a message the socket has room for. Hard: an accept, its callbacks
and the next accept are one handler; closing in the middle of the write handler. Correct when: a message of
which a part was sent is the last; a closed connection stays closed; every client is accepted.

**Commands** (`CommandsManagerV2`, `CommandV2`): definitions read from JSON at the start, found by a short name of
two bytes on the wire and by a full name in the program; the rules of `IsValid`. **Users and user groups**
(`UsergroupManager`, `Username`, `Uuid`, `IUser`): a table of groups with their permissions and a cache of it.
Hard: two names, each of which may be taken; a cache filled at the start and extended after the table was.
Correct when: a command is dispatched to the definition it was created from, and the permissions that count
are those in the database.

**Data** (`ApoapseData`, `DataStructure`, `CustomDataType`), **serialisation** (`MessagePack.hpp`, `ByteUtils.hpp`,
`Maths.hpp`) and **SQL access** (`SQLite.cpp`, `SQLValue.hpp`): a structure is filled by its author, serialised,
parsed and validated by the server, saved, edited, read and sent to another client. No state but the tables.
Hard: every size and every number is written in the smallest of several forms by one piece of code and read by
another; nested structures; three sets of columns (command, server, client); values that SQLite does not keep
as they are. Correct when: what is accepted is what was sent and satisfies its definition, what is loaded is
what was saved, and what the server accepted its clients accept too.

**Log and logger**: lines pushed to a pool of one worker. **Settings**, **cryptography**, **utilities**: see
section 8.

## 2. The modules

| Module | Models | One step is |
|---|---|---|
| `SerialExecutor` | what a caller may believe of a thread pool (abstract) | accept, start, finish or discard a task |
| `ThreadPool` | `ThreadPool.h/.cpp` | one access to shared state |
| `ThreadPoolProofs` | theorems about `ThreadPool` | |
| `OrderedChannel` | what framing promises: messages in order, up to a refused one (abstract) | a message is sent or delivered, or the channel breaks |
| `Framing` | `NetworkPayload`, `Range`, the read loop | one frame written, one read, or one call of `ProcessDataGeneric` |
| `FramingProofs` | theorems about `Framing`, with the refinement of `OrderedChannel` | |
| `PlainServer` | `TCPServerNoTLS` (and `TCPServer`), `TCPConnectionNoTLS` | one completion handler |
| `PlainServerProofs` | theorems about `PlainServer` | |
| `MessagePack` | the serialiser and the parser of MessagePack, `ToBytes`, `FromBytes`, `CanFit` | (operators) |
| `DataStructure` | the definitions of `ApoapseData`, `DataStructure::SaveToDatabase` and what SQLite keeps of a value | (operators) |
| `DataExchange`, `MCDataExchange` | `ApoapseData::FromNetwork`, `DataStructure`, `CustomDataType` | one message sent or handled, one edit |
| `Commands`, `MCCommands` | the registry of `CommandsManagerV2`, `CommandV2::IsValid`, `UsergroupManager` | a definition read, a group saved or registered, a command sent or handled |
| `CommandsProofs` | theorems about `Commands` | |
| `Connection` | `TCPConnection`, `GenericConnection`, the pipeline's effect on its connection | one handler (the dispatch of a batch: one payload) |
| `ConnectionProofs` | theorems about `Connection` | |
| `Operations`, `MCOperations` | `OnReceivedCmdInternal`, `RegisterOperation`, `ExecuteSyncRequest`, `SaveToDatabase`, `GetDbId` | one step of the pipeline, one message delivered |
| `OperationsProofs` | theorems about `Operations` | |
| `IntegrityPatcher`, `MCIntegrityPatcher` | `DatabaseIntegrityPatcher` | one SQL statement |
| `IntegrityPatcherProofs` | theorems about the database: `IntegrityPatcher` and `DataStructure` | |
| `FileStream`, `MCFileStream` | `FileStreamConnection`, both ends of one direction | one completion handler |
| `FileStreamProofs` | theorems about `FileStream` | |

How state and actions correspond to the code:

* **ThreadPool.** `queue`, `counter`, `capacity`, `mutex`, `pool` are the members; `nodes` is what the lock-free
  queue has allocated; `cpc`/`wpc` are program counters. A caller goes through `Push`, `Count`,
  `PassAssert`, `Notify`, `Margin`, `ChooseSize`, `Reserve`, `LoadCapacity`, `StoreCapacity`; a worker
  through `Lock`, `Check`, `Pop`, `Uncount`, `Execute`, `Test`, `Wait`, `Resume`: each is one line of the
  code that another thread may come before or after. Waking is spurious at any time (`SpuriousWakeup`).
  The contracts of the queue and of the condition variable are external.
* **Framing.** A byte is a pair (frame, position), so that the module speaks about which bytes end up where.
  `PeerSends` appends a frame to the stream at any time, and notes where it begins (history, for the proof).
  `ReadSome` takes any number of bytes that fits; `Process` is one call of `ProcessDataGeneric` and ends in
  `RefuseLength`, `CompletePayload` (perhaps with the rest of the buffer) or `AwaitMore`.
* **Connection.** `link` and `sock` are the phases of the socket; `connected`, `closeRequested`, `queue` are
  members; `write` and `reads` are the operations given to Asio; `closePosts` counts the bodies of `Close()`
  that the strand has yet to run. The eight kinds of payload in `Payloads` are the outcomes of dispatching
  one: unknown command, malformed content, refused, throwing, closing, asking to close, answering, plain.
  `busy` keeps the handlers of the same thread out while a batch is dispatched.
* **Operations.** `items` and `operations` are tables: a row's id is its position, since nothing under `src/`
  deletes rows. `handling` is the command in the pipeline and its next step: `Receive`, `Save`, `Process`
  (the application, then propagation), `RegisterOperation`, `PostProcess`. `Crash` may come between any
  two, and a close or an exception ends the pipeline (`CutShort`). A command's kind says when its item is
  saved: `auto` (saveOnReceiveServer), `late` (by the application after registration, the case `GetDbId`
  predicts an id for), `itemless`, and `bare` (empty, and so without an operation uuid). Clients, which are
  applications, are external: they save what they receive, repeat commands with the same uuid, and ask
  for what is later than the instant before their last complete synchronisation. `Selected` are the ids that the
  query of `ExecuteSyncRequest` finds and `Results` their rows in the order of the table; what precedes the first row
  that cannot be read is sent (`IsReadUpTo`). `Audience` is to whom `Propagate` sends a command.
* **IntegrityPatcher.** `main` and `temp` are the tables `<t>` and `temp_<t>`; `pc` is the statement to execute;
  `Interrupt` stops the program there and `GiveUp` is an SQL error. `Generate` and `Parse` are what the text of
  CREATE TABLE keeps and what is read back from it; `SameField` compares what `operator==` compares. `Declarable` is
  what the constructor makes of a structure: a primary field is never one that can be null.
* **FileStream.** `current`/`download` are the files in progress with the bytes sent or received; `writes` are the pending
  writes, all on one buffer; `wire` is the transport. Files larger than the sender's field are
  truncated by `% SizeModulus`, as `(UInt32)size` does. `PushFileToSend` may come at any time, and from
  `OnFileSentSuccessfully` (`EndFileAndPush`): the two starts of the front of the queue that follow are the code's.
  `HandleFileWriteAssert` is the `ASSERT` of the write handler, which ends the sender's program. `overlapped`
  (history) notes that a file was started while a write was under way, `leftover` what was on the disk before the
  connection. The applications are external: files are announced to the receiver before they are pushed, in one order.
* **PlainServer.** A connection is a record: `sock` is the phase of its socket, `connected` and `queue` are members, `write`
  is the pending or completed `async_write_some`, `reading` a pending read, `wire` what the peer has got. An operator
  such as `Closing`, `Written` or `HandleConnectAsync` gives the outcomes of a call: what becomes of the connection,
  and whether an exception leaves it. The actions put them together: `HandleAccept` is an accept with its
  callbacks and, unless one throws, the next accept. What the application does in a callback is `Callback`.
  `closeCalled` is a history variable: whether the last `Close()` came with the socket up.
* **MessagePack.** A byte is a pair <<what, n>>: a format byte with what it carries, or a data byte. The parser's state
  is a record, with the cursor of the `Range` and the locations that were found; `ok = FALSE` is an exception. The
  widths are constants: with `Base = 4` a byte has 4 values, a UInt16 16 and an Int64 65,536, and the limits of the
  one-byte formats shrink in proportion, so that every form of every size is used by texts of at most 16 bytes.
* **DataStructure.** A value is a set of at most one sequence of numbers; a cell is that with its SQLite type, or
  empty for NULL. A table is a sequence of rows, a row a function from the names of its columns. `SaveToDatabase` returns
  the set of the table it makes, empty when it throws: a statement that would break NOT NULL or UNIQUE (`Constraints`, as
  the patcher has created the table) is an error.
* **DataExchange.** `serverTable` and `clientTable` are the databases of the two sides, `toServer` and `toClient` the
  payload on its way, `atServer` and `atClient` what was decided about the last one. A step is a whole handler:
  `ServerReceives` is `CreateCommand` with `FromNetwork`, the check of `isValid` and the automatic save. A call that
  may throw returns a set, which is empty when it throws. Commands that register an operation, whose structures have two
  more fields, are those of `Operations`.
* **Commands.** `registered` is the registry while `read` counts the definitions that the constructor has gone
  through. A command on its way keeps the definition it was created from (a history field) next to the two bytes
  of its header (`WireName`). `table` and `cache` are the groups in the database and in memory; `SaveUsergroup` and
  `RegisterUsergroup` are the two halves of `CreateUsergroup`, between which `Restart` may come.

Composition: `ThreadPool` is shown to implement `SerialExecutor`, and `Framing` to implement `OrderedChannel`
(`INSTANCE ... WITH`, the abstract specification as a property). `Connection` starts where `Framing` ends: a
read completes with whole payloads. `Operations` starts where `Connection` ends: a channel delivers in order
until the connection is lost. `PlainServer` composes the accept loop with the connections it makes. `DataExchange`
EXTENDS `MessagePack` and `DataStructure`: it is the contents of the messages that `Framing` carries and of the items that `Operations`
saves; `Commands` decides which of the payloads that `Connection` dispatches are accepted.

## 3. The runs

| Run | Question | Bounds, and why they are enough |
|---|---|---|
| `thread_pool` | Are tasks executed once, in order, one at a time, without a lost wakeup, for every interleaving? | 2 callers, 2 workers, 3 tasks, capacity 4: two callers can race on every unlocked line, two workers on the mutex, and three tasks exceed the margin, so that both callers resize. 44,568 states |
| `thread_pool_sleep` *(violation)* | The same with one worker, as the logger has. | as above, 1 worker |
| `framing` | Do the frames survive every cut of the stream? | header 2, buffer 5, frames of 0 to 3 bytes (3 is refused), 3 frames: a buffer holds two frames and a part of a third, a header may be cut, a payload may be empty or refused. 5,069 states |
| `connection` | Send queue, read loop and dispatch under every order of handlers and failures. | 3 payloads from the peer, 2 messages of the application: a batch of several payloads, answers queued between the application's messages, errors at every handler. 103,929 states |
| `connection_truncated` *(violation)* | Is a truncated message the last? | as above |
| `operations` | Repeated and interrupted commands, late saves, synchronisation. | 2 clients, 5 commands (two on one shared item, one on a user's own item that is saved late, one without item, one empty), 3 received, 2 instants, 1 crash or lost connection: a command can be cut, another take its id, and a third repair it. 4.2 million states, 2 to 3 minutes |
| `integrity_patcher` | Rows and tables over versions and interrupted starts. | 2 tables, 5 versions (field added, removed, constraint, type), 2 rows, 3 starts: one to create, one that is interrupted, one that recovers. 467,784 states |
| `integrity_patcher_loss` *(violation)* | Does a program that runs have its rows? | as above |
| `file_stream` | Is the stream the files, one after the other, for every moment of a push? Does the receiver find the end of each, also on a second connection? Do both queues go on? | 3 files of 1, 3 and 5 bytes, chunks of 2, a size field of 4 values: smaller than a buffer, larger with a rest, and too large for the field; 2 connections, 1 file announced on the first and 2 on the second (`MaxAnnounced`), in any order, 3 bytes in transit (`WireCapacity`): a download is interrupted and appended to, the end of one file and the beginning of the next are on the wire and in one read, a push finds the queue empty, a file being sent, or the callback. 163,368 states, 1 minute |
| `plain_server` | Accepting, writing and closing under failures of accepts, peers and writes. | 2 clients or outgoing connections in any mix, 2 messages on each, 1 accept that fails while the acceptor is open (any number after): two connections of both kinds, a second message behind a truncated one, a failed accept before, between or after. 1.5 million states, about 2 minutes |
| `data_exchange` | A structure on its way from its author through the server to a client. | 44 drafts: a sparse and a full structure, with one field replaced by a value at or beyond a bound, texts with a NUL at the beginning, in the middle and at the end among them, and bounds that are negative; 2 sent, 1 edit in between, so that an item is inserted, updated, edited and updated. 49,500 states, 1 to 2 minutes |
| `commands` | Routing and permissions over restarts. | server and client; definitions with equal short names, equal full names, a short name of one byte and every kind of rule; 2 users of 2 groups with 1 permission, 3 cached groups: a group may be created, created again and lost. 28,584 states |

Properties by what they say: **types** (`TypeOK` of each module); **agreement of two pieces of state** (`Accounting`,
`PoppedTaskIsCounted`, `NeverDeaf`, `ClosedStaysClosed`, `RowsAreUnique`, `OperationHasItsItem`, `NothingDestroyed`,
`RunningOnWantedTables`, `WriteHasTransfer`, `DecidedByTheTable`, `LoadedIsSaved`); **agreement of two parties** (`WireInSendOrder`,
`TruncatedIsLast`, `Converges`, `CleanStartsKeepRows`, `StreamIsFiles`, `CompletedLength`,
`AcceptedIsWhatWasSent`, `ForwardedIsAccepted`, `RoutedToItself`); **algorithms against a reference** (`CodecRoundTrip`,
`AcceptedIsWellFormed`); **refinement** (`ImplementsSerialExecutor`, `DeliversFramesInOrder`); **progress** (`NoLostWakeup`,
`EveryTaskExecuted`, `EveryFrameArrives`, `SentIsTransmitted`, `EveryFileIsSent`, `DownloadEnds`, `EveryClientIsAccepted`).
Each is broken by at least one plausible change of the code, which the module holds beside the original
("Mutation: ...").

Deadlock is checked where the system goes on for ever (`commands`). The other models end when their
bounded supply of tasks, payloads, rows, files, clients or commands is used up; that nothing gets stuck before is
what the progress properties say.

Exceptions that properties make, each because the code does not do more: `NoLostWakeup` is about pools of
two workers or more; `SentIsTransmitted` and `NeverDeaf` leave out broken sockets (`OnReceivedError` returns
true and nothing closes the connection); `RunningOnWantedTables` leaves out field types; `CleanStartsKeepRows`
is about starts without an incident; `OperationHasItsItem` and `Converges` leave out what an interrupted
command left halfway; of an item that commands with different audiences write, `Converges` only says that the
operations are known (`OneAudience`: ownership is of a command and its sender, and nothing under `src/` compares it with
that of the item); `StreamIsFiles` and `WriteHasTransfer` leave out connections on which a file was started while a write was under way
(`overlapped`, below), and `CompletedLength` allows a file smaller than the buffer to take up to a buffer: its first read
is "anything"; both progress properties of `FileStream` end with a lost connection;
`EveryClientIsAccepted` ends with an exception that leaves a callback (below); `AcceptedIsWhatWasSent` is about texts of
at most 65,535 bytes (scaled: 15) and well-formed nested structures; `AcceptedIsWellFormed` lets negative integers
pass a lower bound; `ForwardedIsAccepted` excuses a text that the server accepted with a NUL in it, when what the
database keeps of it no longer suits its field: nothing where a value is required, or less than its `min_length`; `LoadedIsSaved` leaves out what SQLite does
not keep (`Altered`); `RoutedToItself` is about short names of two bytes, `DecidedByTheTable` about groups that were not
created a second time since the start.

## 4. Fairness

* `ThreadPool`: weak fairness of each caller that is inside a call and of each worker. The operating system
  schedules every runnable thread; a waiting worker is only runnable when notified.
* `Framing`: weak fairness of `Receive`: what the peer has written is read and processed. None of the peer.
* `Connection`: weak fairness of each handler (Asio runs ready handlers) and of `Transmit` (the
  transport completes or fails an operation). None of the peer or the application.
* `PlainServer`: weak fairness of `HandleAccept`: Asio runs the handler of an accept that has completed, and the
  `io_service` is run again when a handler has thrown. None of the other handlers: a client is accepted whatever the
  existing connections do.
* `FileStream`: weak fairness of `Transmit` (the transport moves bytes as long as it works), of the write handlers and of
  the read handlers (Asio runs them). None of the applications, which push and announce when they like, nor of
  breaks and new connections: a file that was pushed is sent whatever they do.
* `DataExchange`, `Commands` and `IntegrityPatcher` state no liveness: a step is one call, or one statement of a loop over the
  tables.
* `Operations` states no liveness: what clients do is up to them, and `Converges` is about what holds
  whenever one has caught up.

## 5. Where the code disagrees with its own words

Each is a run that TLC is expected to refute, with the quotation in `PROJECT.json`.

1. `thread_pool_sleep`: a worker tests the counter and waits without a predicate, and notifiers take no mutex. With
   one worker, the pool of the logger, a task can stay in the queue until another is pushed.
2. `connection_truncated`: `async_write_some` on TLS writes at most a record; after a partial write, the
   next message is written before the posted close runs. (On plain sockets `Close()` is immediate, and `plain_server`
   shows that the truncated message is the last.)
3. `integrity_patcher_loss`: after a stop between rename and copy, the next start succeeds on an empty table.

Modelled, and left out of the runs by a condition or an exception of the property that would show them:

* `HandleHandshake` goes on after `Close()`, and sets `m_isConnected` again (`TCPConnection.cpp:119`; `Connection` models it).
* `(UInt32)size` ends the upload of a file of 4 GiB or more too early (`FileStreamConnection.cpp:233`; `ToBeSent` in
  `StreamIsFiles`). The receiver takes the rest of its size from the next file.
* An application that pushes its next file from `OnFileSentSuccessfully` has it started by `PushFileToSend` and again when the
  callback returns (`FileStreamConnection.cpp:251-254`, `:313`): its bytes are written twice, and the handler of the
  second write may find that no file is being sent, against its `ASSERT(IsSendingFile())` (`:275`). A push from anywhere
  else during a transfer has the same effect (`overlapped` in `StreamIsFiles` and `WriteHasTransfer`; without it TLC finds
  both violated).
* The first read of a file takes what there is, also when that is more than the file: a file smaller than the buffer gets
  the beginning of the next one (`FileStreamConnection.cpp:192`; the bound of `CompletedLength`).
* A download that starts again appends to what an interrupted one has left (`FileStreamConnection.cpp:178`; `CompletedLength`
  counts the bytes of one connection).
* A group that is created again changes the table, while the first one in memory counts until the next start
  (`UsergroupManager.cpp:123`; `recreated` in `DecidedByTheTable`).
* A temporary table that an interrupted start has left makes every later rename of that table fail
  (`DatabaseIntegrityPatcher.cpp:145`; `incident` in `CleanStartsKeepRows`).
* An exception of a callback - `shutdown` on a socket whose peer is gone, for one - skips the next accept
  (`TCPServerNoTLS.h:51`; the last line of `EveryClientIsAccepted`). After `Close()` the acceptor fails and is started again
  without end (`HandleAcceptError`). A connection closed while it connects comes up if the connect was complete.
* The length of a str_32 is read as 16 bits, and a text of 65,536 bytes or more, with everything behind it, from the
  wrong place (`MessagePack.hpp:825`; `FitsOnTheWire`).
* Several groups without a root field announce too many entries (`MessagePack.hpp:215`); no number fits a UInt64, whose
  bounds are compared as Int64 (`Maths.hpp:31`); a negative fixint is read as an unsigned number (`MessagePack.hpp:540`);
  all three in `RoundTrips`.
* A nested structure that is not valid does not make its container so (`ApoapseData.cpp:138`); an empty command is
  valid whatever fields are required (`ApoapseData.cpp:208`); a negative integer passes `min_length`
  (`DataStructure.cpp:270`), and a negative bound other than -1 is compared as a very large number (`AtLeast`, `AtMost`).
* A text is stored up to its first NUL and a blob of no bytes as NULL (`SQLite.cpp:63`, `:68`): a text accepted by the
  server may be refused by those it is forwarded to (`cut` in `ForwardedIsAccepted`). A structure of which no
  field with a value has a column is an SQL error (`DataStructure.cpp:188`), which the count at line 146 - every field
  that is *not* kept by clients counts on a server - does not prevent.
* Short names that are not of two bytes are registered and never found (`NetworkPayload.cpp:96`); a definition with
  permissions and without authentication follows a null user (`CommandV2.cpp:107`; excluded by `CommandsAssumption`).

Seen while modelling, without a run of their own: the assertion of `ThreadPool.cpp:62` may find the counter
at zero (the task may be taken and uncounted before the caller looks); a `RequestClose` after an unknown
command is only honoured when another command is processed (`GenericConnection.cpp:126`); payloads behind a command
that closes are still dispatched (`GenericConnection.cpp:74`); an empty command that registers an operation gets a uuid and then
`value()` of the optional that stayed empty throws (`ApoapseOperation.cpp:38-39`); an operation without an item ends every
synchronisation that reaches it (`ApoapseOperation.cpp:136`); after a stop between `RegisterOperation` and a late save, the
predicted id goes to another item (`DataStructure.cpp:125`); `usergroup` operations are synchronised to their author only
(`ApoapseOperation.cpp:117`).

## 6. What is proved

TLAPS checks these for every value of the constants (any number of callers, workers, tasks, frames, messages,
clients, connections, tables, versions, commands, items, repetitions, crashes, definitions and groups; any size of a
header, a read buffer or a payload), from the named assumption of each module.

**ThreadPoolProofs**, from `ConstantsAssumption`:

* `TypeCorrect`: `Spec => []TypeOK`.
* `CounterAccountsForQueue`: `[]Accounting`: counter and queue differ by what is in transit.
* `RunAssertionHolds`: `[]PoppedTaskIsCounted`, the assertion of `Run`.
* `SeveralWorkersLoseNoWakeup`: `[]NoLostWakeup`.
* `PoolIsSerialExecutor`: the safety part of the refinement: `Spec => Executor!Spec`.

The inductive invariant is `Inv` = types, `MutexHeld`, `DistinctTasks`, `CountedWhilePopping`, `Accounting`,
`NoLostWakeup`. None of the properties is inductive alone: that the decrement finds the counter positive
needs that it was positive at the test and that only the holder of the mutex decrements it
(`CountedWhilePopping`, `MutexHeld`); `Accounting` counts tasks by cardinality and so needs them distinct; a
worker about to wait loses no wakeup because the mutex keeps every other worker out of that window.

**FramingProofs**, from `FramingAssumption`:

* `TypeCorrect`: `Spec => []TypeOK`: cursors stay in the buffer, and no more than one allowed frame is assembled.
* `ImplementsOrderedChannel`: `Spec => DeliversFramesInOrder`, the refinement: a frame written is a message sent,
  `CompletePayload` delivers it, `RefuseLength` breaks the channel, and every other step leaves it as it was.

What the payloads contain says nothing about positions in the stream, so the invariant does: frame f begins at
`Start(f)` and the frames fill the stream (`Laid`), the buffer is the last piece taken from it (`Buffered`), and what
has been consumed ends `Len(raw)` bytes into the frame to dispatch next, whose first bytes are what was assembled
(`Aligned`). The lemma `InsertAssembles` says what `Insert` does under it: the first copy stops at the end of the
header or of the content, the header that is complete is its frame's, the second copy stops at the end of
the content; unless the frame is complete or refused, the range is used up. The unsigned difference of `BytesLeft`
never wraps, because a payload never holds more than its frame.

**ConnectionProofs**, from `ConnectionAssumption`:

* `TypeCorrect`: `Spec => []TypeOK`.
* `SentInOrder`: `Spec => []WireInSendOrder`.
* `NeverStopsReading`: `Spec => []NeverDeaf`.

`WireInSendOrder` alone is not inductive: the next message could be any. The queue holds the last messages of those
sent (`QueueIsTail`), its front is what is written (`FrontIsWritten`), and on a socket that works the wire ends just
before that message or with it (`WireFollowsWrite`). After an error messages are skipped, and nothing reaches the
wire. For `NeverDeaf`: nothing is read before the handshake, the only step that sets `m_isConnected`, and it starts
the read (`StartsWithHandshake`); every handler that ends the batch starts the next one (`OneRead`).

**PlainServerProofs**, from `PlainServerAssumption`:

* `TypeCorrect`: `Spec => []TypeOK`.
* `TruncationEndsTheStream`: `Spec => []TruncatedIsLast`.
* `CloseIsFinal`: `Spec => []ClosedStaysClosed`.

The invariant says of every connection (`Good`) what holds between two handlers, and of the one that waits for a client
that it is a fresh one (`AcceptingIsFresh`). Since a handler is made of calls (`Closing`, `Sending`, `Written`, the
callback), there is one lemma for each call that says what it keeps of a record, and an action cites those of its
calls. `TruncatedIsLast` needs that all of the wire is whole as long as the socket is open and no partial write
waits for its handler (`WireFollowsWrite`): that handler closes before it pops. `ClosedStaysClosed` needs that
a connection that is down has never been used (`Unused`): it comes up once.

**IntegrityPatcherProofs**, about the database. About `IntegrityPatcher`, from `PatcherAssumption`:

* `TypeCorrect`: `Spec => []TypeOK`.
* `RowsAreKept`: `Spec => []NothingDestroyed`.
* `PatchedBeforeRunning`: `Spec => []RunningOnWantedTables`.
* `CleanStartsLoseNothing`: `Spec => []CleanStartsKeepRows`.

`Progress` says what each statement has behind it: the tables before the current one match, the table is absent
before CREATE and fresh before the copy, and before DROP every row of the temporary table is in the new one: without
that last part `NothingDestroyed` is not inductive, since DROP would destroy. `Clean` follows the rows through one
rebuild. `FieldIsReadBack` and what follows from it are about the text of CREATE TABLE: what is parsed from what was
generated for a declarable table is that table up to the types of its fields.

About `DataStructure`, for any definitions, any table that satisfies the constraints (`IsTable`, which `TypeOK` of
`DataExchange` states of both databases) and any structure with a primary field (`Identifies`):

* `SaveWritesItsRow`: a save that is not refused writes the row of its item and no other, and what is read back is
  each value saved and, where there was none, what the row held before (`Saved`, the formula of `LoadedIsSaved`).
* `OwnRowIsNoConflict`: a save is refused only when a required column is left empty or another item has the value of a
  unique field.
* `SavingAgainChangesNothing`: a structure that is saved again is not refused, and leaves the table as it is.

They are about one call from any table, not about a behaviour of `DataExchange`. The lemmas go from the cell to the row
and to the table: what is bound for a value is read back as it was, unless it is one of those that SQLite alters
(`BoundIsRead`), and what is read from a cell is bound as that cell again (`ReadIsBound`), so that the WHERE clause
selects the rows that are loaded with the value of the structure (`MatchingIsRead`), which UNIQUE leaves to be one
(`OneMatches`). `Identifies` is needed: without a primary field, or with a blob of no bytes in it, each save inserts
a row.

**OperationsProofs**, from `OperationsAssumption`:

* `TypeCorrect`: `Spec => []TypeOK`.
* `SavingIsIdempotent`: `Spec => []RowsAreUnique`, whatever is repeated and wherever the server stopped.
* `PredictedIdIsRight`: `Spec => []OperationHasItsItem`.
* `Convergence`: `Spec => []Converges`, for any clients, however often they ask or lose their connection.

Three inductive invariants, each on the ones before:

1. *The tables*: `Inv` = `HandlingTyped`, `TablesTyped`, `RowsAreUnique`, `AutoSaved`, `RowsKnown`. The lemma
   `SavedTable` says what `SaveToDatabase` does to a table whose rows are unique, `GetDbIdIsItsId` what `GetDbId`
   returns. `OperationHasItsItem` is not inductive: between registration and the late save the id is a
   prediction (`Predicted`), which the next step makes true; and the exception for interrupted commands must not
   cover the operation that is being registered again (`Registering`).
2. *What is on its way*: `Typed`, and `Promised` of each client: without a connection nothing is on its way, before it
   has asked nothing is announced, and on a connection that is up whatever `start_sync` announced is in the channel.
   `AnswerShape` says what `ExecuteSyncRequest` puts there.
3. *What a client will know and hold*: `Converging`. `Converges` speaks of a client that has nothing on its way, so it
   says nothing one step before: what the client has yet to ask for, what is announced and what is in the channel
   all have to be counted. `Within(c, t, n)`: once n messages have arrived, client c has all that is of instant t, because it
   is synchronised past t, because what it has asked for is then complete, or because they are all that is on its way. `Knows` and `Gets` say that it knows an operation, or holds the
   value of an item, from there on. `OperationsReach` and `ValuesReach` say so of every operation that concerns the
   client and of the row of every item; to keep them, the last operation on an item must refer to its row (`LastRefers`),
   what is being handled must have been written, propagated and registered as far as its step says (`Written`,
   `Propagated`, `Registered`), and nobody may have asked from the present instant (`RowsMatch`), which is why the
   clients ask from one instant earlier. Items between two steps of a command, or left there, are not `Fresh`.

What a step does to the tables and what it does to a client are kept apart: to each client a step is one of six things,
`Spared`, `Connected`, `Disconnected`, `Tells`, `Arrives` or `Answered` (`StepOfClient`), and `KnowsKept` and `GetsKept`
say once what these leave within reach. TLC checked `Converging` on the instance of the run before it was proved.

**CommandsProofs**, from `CommandsAssumption`:

* `TypeCorrect`: `Spec => []TypeOK`.
* `Routed`: `Spec => []RoutedToItself`, whatever is defined: equal short names, equal full names, any bytes.
* `TableDecides`: `Spec => []DecidedByTheTable`, wherever the server stops.

The invariant `Inv` = `TypeOK`, `ShortNamesAreUnique`, `RowsAreUnique`, `CacheFollowsTable`, `CreatingIsSaved`,
`SentIsRegistered`, `UsersHaveGroups`. Routing needs that a command on its way was created from a definition that is still
registered, under a short name that only it has. That memory decides as the table does needs that every cached
group that was not created again is the one row of its uuid, that the group between the halves of
`CreateUsergroup` is saved already, and that users only have groups that are cached: each follows from the others
one step before.

**FileStreamProofs**, from `FileStreamAssumption`, and for pushes at any time:

* `TypeCorrect`: `Spec => []TypeOK`.
* `FilesEndInPlace`: `Spec => []CompletedLength`.
* `AssertionHoldsAlone`: `Spec => []WriteHasTransfer`: the assertion of the write handler only fails after a file was
  started while a write was under way.

The invariant `Inv` has a part for each end, which the steps of the other leave alone. *The receiver* (`RInv`): the
files of the queue are different, announced and not complete; of the first the disk has gained what `download` counts, of
the others nothing, and every announced file is complete or in the queue (`Lengths`); a read of "anything" is only
pending when no download is in progress, one of "exactly" only when one is (`Download`), so that every read but the first
of a file is bounded by what the file lacks. Nothing is asked of the bytes: the theorem holds for whatever the sender
puts on the stream. *The sender* (`SInv`): the file in progress is the front of the queue (`Sending`), the buffer holds all
that the writes under way are to write, also when two of them share it (`Writing`), and unless a file was started
twice there is one write, and its file (`Alone`). `TypeOK` follows from both, `CompletedLength` from `Lengths`.

## 7. What is only model-checked

The behaviours of `DataExchange` with the codec of `MessagePack`, and every liveness property, since TLAPS does not
reason about fairness and ENABLED here. `MessagePack` and `DataExchange` are recursive over nested data and fold over
the fields of a structure, which is out of the prover's reach: they are checked on bounded inputs. What `DataStructure`
says of one save is proved; every invariant of the other modules is a theorem but one: `StreamIsFiles` compares the
disk with the files put together (`FlattenSeq`), which is induction over data.

## 8. What is not modelled, and why

* **The text of SQL queries** (`SQLQuery`) and SQLCipher's key: a text builder over a library. Statements are modelled
  where they are executed (`IntegrityPatcher`, `Operations`, `DataStructure`, `Commands`); each commits by itself, as no
  transaction is opened.
* **JSON** (`Json.hpp`, `FromJSON`): read by Boost; definitions are constants of the modules. The ordered half of the
  serialiser (`Group`, `OrderedAppendArray` of numbers) is used by the unit tests only.
* **The user interface** (`SendUISignal`, `PropagateToClientUI`): text for an application.
* **Cryptography, settings, utilities**: wrappers of libraries and stateless helpers.
* **Log**: text to a file; its pool is the one of `thread_pool_sleep`. `OnAddedTask` logs before it resizes, which
  recurses when the logger's own pool is nearly full; see the plan.
* **Data races.** `Send` is not thread safe (the code's own #TODO); the models keep it on the io thread. Object
  lifetimes (raw `this` in posted handlers, workers that outlive their pool) are outside the modules: after
  the pool is destroyed, `ThreadPool` stops its workers.
* **In `Operations`**: deletion of rows, clocks that run backwards, several user groups, crashes of clients.
* **In `DataExchange`**: several structures in one exchange, the fields of operations, values that reach the parser and
  were not written by the serialiser (peers are assumed to be this code).
* **In `PlainServer`**: which read follows a read, `RequestClose` (its flag has no reader in this class), exceptions of
  callbacks other than those of `Close()`.
* **In `FileStream`**: empty files, files sent before they are announced to the receiver, more than one push in one
  callback, and what a build without assertions does where the one of the write handler would fail (an empty
  `std::optional` is used, which is undefined).

## 9. The plan

Done in this order, the most central first: `ThreadPool` with `SerialExecutor` and its proofs, `Framing` with
`OrderedChannel`, `Connection`, `IntegrityPatcher`, `FileStream`, `Operations` and its proofs, `MessagePack`,
`DataStructure` and `DataExchange`, `Commands` and its proofs, `PlainServer`; then the proofs about `Framing`, `Connection`, `PlainServer`,
`IntegrityPatcher` and `FileStream`, those about what `Operations` sends and what clients come to hold, and those about
the rows that `DataStructure` saves.

Next modules: `LoggerPool`, the logger composed with its own pool (`OnAddedTask` logs before it resizes, which recurses
when that pool is nearly full); the overload of `RegisterOperation` that an application calls; `FileStream` on top of
`Connection`, from which it derives.

Next theorems, each with TLC's agreement first: about `LoggerPool` when it is written, and what the synchronisation
promises an application that deletes rows.
