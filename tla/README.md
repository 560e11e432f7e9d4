# SyncLogs in TLA+

SyncLogs (`src/README.md`: "simple single process log based key-value db") is a
key-value store whose writes go to a log first. Client threads hand requests to
one service thread, that one hands records to a second, the second writes them
to log files in batches and reports each batch back. At start the log is read
back into an empty store. Beside the database the repository has a network
service, which the database does not call yet. This directory holds a model of
those threads, of the service loop they run in, of the log files below them and
of the network service, what TLC checks of them, and what is proved of them.

## 1. The system

| part | state | operations | talks to |
|---|---|---|---|
| `KVDB` | the four objects below, `mDBEpoch` | `Start` (start both services, `RecoverFromLog`, next epoch), `Stop`, `PostKVRequest` | everything, through `KVDB::Instance()` |
| `RequestCenter` (a `LogicService`) | `mRequestID`, `mRequests` | `EnqueueKVRequest` (post and wait), `HandleNewKVRequest`, `HandleKVResponse` | calls `DataStore::Get`, `LogCenter::ReceiveClientRequest`, `LogCenter::UpdateDataStore` in its own thread |
| `LogCenter` (a timed `LogicService`) | `mLogId2RequestId`, `mToFlushLog`, `mMaxLogId`, `mFlushCount` | `HandleRecoverLog`, `HandleWriteOper`, `Idle` (flush, report) | `PersistLogger`; `RequestCenter::ReceiveKVResponse` |
| `DataStore` | tables of keys and values, no lock | `Put Add Del Get CreateTable DropTable` | |
| `PersistLogger`, `FileLog`, `FileHandler` | the current file, a write buffer, offsets; the directory | `RecoverFromLog`, `WriteLog` (rotates files), `FlushLog` | the file system |
| `LogicService`, `SyncClosure`, `Thread` | `mQueue`, `mRunning`, a condition; a locked mutex and a condition | `Start Stop Enqueue Run`; `Signal Wait` | |
| `OperContext`, `LogContext` | reference count, what hangs on it | | |
| `Main` | 8 workers, each with keys of its own | | `KVDB` |
| `ThreadLogger`, `Log` | debug output | | |
| `Base64`, `CRC` | tables | `Encode Decode`, `mycrc32` and its combinations | called by `LogRecord` |
| `Msg` | a growing buffer, two offsets | `<<`, `>>`, `SetLen` | connections, `ThreadLogger` |
| `NetService` (a `LogicService`) | `mConns`, `mMaxID`, the listener | `StartConnectRemote`, `AcceptConnection`, `SendMsg`, `DropConnection`, `Finit` | `Driver`, connections; hands `OP_RECV` to the server |
| `Driver` | `mEventsInfo`, libevent's base, its thread | `Regist...Event`, `UnRegist...Event`, `Run`, `Stop` | calls `ReadData`, `WriteData` of what is registered |
| `TcpConnection`, `RWConnection`, `Accepter`, `TcpSocket` | a descriptor, the message being received, what is to be sent, `mMutex` | `ReadData WriteData Enqueue Close`; blocking `PreRecv`, `Recv`, `Send` | post `OP_ACCEPT`, `OP_RECV`, `OP_DROP` to `NetService` |

What is hard about it:

* *Two threads share unlocked maps.* `mLogId2RequestId` is filled by
  RequestCenter and searched by LogCenter; the data store is written by
  LogCenter while it recovers and by RequestCenter afterwards.
* *A write is answered far from where it was made durable.* Record, batch,
  flush, response, store, signal are steps of different threads, and the process
  may die between any two.
* *Nobody waits for the recovery*: `KVDB::Start` returns when the log has been
  read, not when it has been applied.
* *Ids have two widths*: counted in 64 bits, kept in 32.
* *Files survive, buffers do not*: a record may be cut in two, a file may have
  no header yet, file names must sort in the order of writing.
* *Hand-made synchronisation*: `SyncClosure` has no flag, the service loop reads
  `mRunning` without its lock, `Start` posts to its own queue.
* *Three threads share a connection.* Only its own state is locked: the maps that
  find it are not, its descriptor is used again, and the thread that reads it
  goes on with it after it has asked for its end.
* *Sockets block* in the driver's only thread and with the connection's mutex
  held, so that one slow end can hold up the rest.

What makes each part correct is listed with the runs in section 3; every hazard,
with the line where it bites, is in `PROJECT.json`.

## 2. The modules

| module | models | state and actions |
|---|---|---|
| `DataStore` | `DataStore.cpp`, `LogCenter::UpdateDataStore` | operators: each takes a store and gives the error and the store the method leaves; `Replay(log)` is what recovery makes of a log |
| `DurableLog` | what the log promises | abstract: `log`, `flushed`; append, spill, flush, crash |
| `PersistLogger` | `PersistLogger`, `FileLog`, `FileHandler` | the directory, the buffer, the current file; one action per system call of a flush, a close, a spill; crash and power loss anywhere |
| `SyncLog` | `KVDB`, `RequestCenter`, `LogCenter`, clients, the main thread in `Start` | one action per handler, split wherever another thread can see the middle (the two halves of `ReceiveClientRequest` and of `Idle`, each turn of the loop of `HandleKVResponse`, reading a record back and then its id); asserts and bad accesses end the process |
| `SyncLogInv` | | the inductive invariant of `SyncLog` |
| `KVService` | what the database promises to its clients | abstract: one store; `Call`, `Write` and `Read` at one moment between call and answer, `Die`, `Open`, `Recovered` |
| `SyncLogKV` | | the refinement mapping from `SyncLog` to `KVService` |
| `LogCodec` | `Base64.hpp`, `CRC.c`, the encodings of `FileLog.cpp` | operators and recursive functions on bytes; a 32-bit word is the set of its one-bits |
| `LogFile` | one file: `FileHandler`, `Log`, `LogRecord`, byte by byte | the file, the buffer, what `pwrite` has still to take; writing and reading by field, crash, one bad byte |
| `LogFileMC` | | record contents of each Base64 padding |
| `SyncLogMC` | the workload of `Main.cpp` and others | values for the constants |
| `ContextQueue` | what a service promises | abstract: accept, handle in order, stop, forget |
| `LogicService` | `LogicService`, `SyncClosure` | program counters of the service thread, of the main thread in `Start` and `Stop`, of callers; timed and untimed in one module |
| `TcpSocket` | the sockets of the process and the ends they are connected to | descriptors, what is on the wire, what is unread; `recv` and `send` block, take a part, or fail; ends connect, send, read, close, crash |
| `NetService` | `NetService`, `Driver`, `RWConnection`, `TcpConnection`, `Accepter` | a program counter for the driver, the service and the application; one action per stretch of code between two points where another thread can interfere |
| `NetServiceMC` | | how much each end sends |
| `NetServiceInv` | | the inductive invariant of `NetService` |
| `SyncLogProofs`, `PersistLoggerProofs`, `LogicServiceProofs`, `NetServiceProofs`, `NetStreamProofs`, `LogFileProofs` | | theorems, each of the module it is named after (`NetStreamProofs` of `NetService`, `LogFileProofs` of `LogCodec` too) |
| `SyncLogStoreProofs` | | theorems of `SyncLog` about the data store: `StoreInv`, `StoreIsLog`, the refinement of `KVService` |
| `SequenceLemmas` | | induction for a set of numbers, the laws of `FlattenSeq`, chains of steps, least closed functions |

How they fit together. `SyncLog` changes its log by the actions of `DurableLog`
only; `PersistLogger` is shown to implement that specification with files
(`FilesAreDurableLog`: the log is what recovery would read plus what is in the
buffer, `flushed` is what `pwrite` was given). `SyncLog` treats its two queues as
first-in-first-out queues of contexts; `LogicService` is shown to be one
(`IsContextQueue`: what is pending is the batch taken plus the queue), and
`NetService` uses one as such. `SyncLog` as a whole is shown to implement
`KVService` (`IsKVService`). `LogFile` opens up what `PersistLogger` takes as
whole and cut records: that a cut record is read as an end of the file and
removed, and that nothing behind a bad byte is used.

`KVService` is one store that outlives the process. A write takes effect at one
moment between its call and its answer and stays; when the process dies, each
unanswered write may have taken effect or not. A process that has not recovered
answers gets from a store of the past, or finds nothing, or, of a key that has had
a value, gives a torn one that never was (`Torn`): that is what the code
does (`KVDB::Start` does not wait, and "sync operctx to wait recover done" is a
TODO of `src/README.md`), and the refinement shows that it is no worse. In the
mapping the store of a process that recovers is the replay of its log; after
that it is the data store, so that the moment a write takes effect is
`HandleKVResponse`, neither when it is written nor when it is flushed.

### Abstractions

* Names, keys, values are model values. A log record carries its log id (cut to
  `LogIdSpace`), its operation, and `tag`, the number of the request it was made
  for: a history value, never tested by an action.
* In `SyncLog` a client's post and wait are one step each side, and a request
  lives in `request[c]`; `LogicService` takes the hand-shake apart.
* Undefined behaviour is a choice: a freed record's id is any of `StaleIds`; a
  `find` beside an `insert` may miss and hit the assert; a `Get` beside an
  insertion may miss what is there, and beside an assignment or an erasure of the
  value it looks for may copy a string that never was one (`TornValue`). (That
  such an access may also end the process is covered by `Crash`.)
* A set of pointers is a set taken in any order.
* In `PersistLogger` sizes are left out: any record may be the one that does not
  fit in the 256 KB buffer. A record is whole, cut, or absent. `LogFile` has the
  bytes, for one file. I/O errors are not modelled in either. A loss of power may
  take any part of a file that was not synced, and any file whole, since its entry
  in the directory never is (`LosesEnd`, `LosesEntry`). Entries that outlived
  earlier losses may still go, which is more than a disk does.
* In `LogCodec` the build is little endian, as on the machines the vendored
  libraries are for. `src/src/loglayout` gives no operation type in the header
  of a record and one in its body; `WriteToFile` and `Encode`
  (`FileLog.cpp:227-237`, `266-283`) do it the other way, which is what is
  modelled.
* In `NetService` a message on the wire is four units, two of its length and two
  of its rest, so that either can come in pieces; the second half of a length may also be that of
  a wrong length, too short or so long that `dataLen + HEAD_LENGTH` wraps to
  0 to 7 (`TcpConnection.cpp:58`); the test `dataLen < 0` in line 46 is never true.
  A message of a length that wraps counts as three units if any of it is delivered,
  and what follows is read out of step: two units that are not a length are taken
  for any length (`ReadAs`). What such a message makes of memory that is not its
  own (`LengthOverruns`, `ServerOverruns`) ends the process. Otherwise what a message
  says is left out: lengths from 4 to 7, the string's length inside the message, and
  a `malloc` that fails for a huge one. A reply is one unit. The service takes its contexts one at a
  time. The server (`mServer`) is always running and answers every message, as
  `RecvMsg` does. The application is one thread, which opens connections and
  calls `Stop`.
* What two threads do inside one unlocked map of `NetService` or `Driver` is
  undefined: the process ends there (`DataRace`), as it does where a deleted
  connection or a freed event base is used. An assert that fails ends it too, among
  them the one behind two overlapping `mMaxID++` (`SameId`; if the other connection
  is already gone again no assert fails, and the end is a data race).
  `fault` says which of these it was, and the properties say which cannot be.
  libevent's base has no lock either (nothing calls `evthread_use_pthreads`), but
  its calls are taken as atomic and never as a race.
* `Accepter::ReadData` is one step, so that `StopListener` deletes the accepter
  before or after it, never in the middle (`Accepter.hpp:42-58`,
  `NetService.cpp:40-41`). A `connect` that fails, and the descriptor taken while it
  blocks, are left out. `EnqueueDrop` clears what was being received for the driver
  only, as `ReadData` does; the connection is closed by then.
* `KVDB` is a static object, so `mMaxLogId`, `mDBEpoch` and `mFlushCount`, which
  no constructor sets, begin at zero.
* A refused post ends the process (`PostRefused`): the poster drops the only
  reference, and `~OperContext` asserts that nothing hangs on the context.
* History variables: `posted`, `starts`, `acked`, `aborts`, `run`, `seq`,
  `lost`, `refused`, `done`, `early`, `written`, `flushed`, `decayed`, `endOf`, `got`.

## 3. The runs

| run | question | result |
|---|---|---|
| `clients` | Do the threads keep store, log and answers together when each client writes a table of its own, as each worker of `Main.cpp` writes keys of its own? Is every request answered? | holds |
| `aborts` | Do durability, single writing, the match of answers and requests and the order of a process' ids survive everything that can kill the threads, and ids that wrap? Is `Inv` an invariant? | holds |
| `files` | Do the files implement the durable log if the process may die between any two system calls? Was what is acknowledged, or recovered and served, synced, and is nothing missing in front of what is there, whatever losses of power take? | holds; of losses of power, but for files that are gone with their directory entry |
| `codec` | Is what is read back from a file what was written, whatever the buffer, `pwrite`, a crash or a bad byte does? Do all ways to compute a CRC agree? | holds |
| `service` | Is a service a FIFO queue, is no wakeup lost, do `Start`, `Stop` and calls return? | holds |
| `network` | Are messages framed and answered in order, whoever had the descriptor before? Is no handler called with a connection that is gone? Which asserts can fail? Does `Finit` close everything? | holds; in order up to a length that wraps |
| `slow_end` | Is every end that goes away dropped, and every message answered, if ends may be silent in the middle of a message or never read? | holds |
| `shared_key` | `StoreIsLog` with two clients on one key | violated |
| `index_race` | the assert in `Idle` (`LogCenter.cpp:200`) | violated |
| `overflow` | the branch for more than 1000 records (`LogCenter.cpp:110`) | violated |
| `stale_id` | "update max log id" (`PersistLogger.cpp:61`) | violated |
| `empty_file` | the assert in `WriteLog` (`PersistLogger.cpp:138`) | violated |

What the properties say is written above each of them. The ones that carry most:

* `AckedDurable`, `VisibleIsDurable`: what a client was told, and what a client
  may read, is in the part of the log no crash takes, over all processes.
* `IsKVService`: no client can tell the two threads, the queues, the batches and
  the restarts from one durable store.
* `ResponseMatchesRequest`, `RequestIsFound`: two maps keyed by ids of different
  width lead from a record back to the request it was built from. After 2^32 ids
  one record's id is 0, which is no key; the process then dies in the assert
  before any later batch could be answered wrongly.
* `SingleWriter`: nothing but the order of LogCenter's queue keeps the two
  writers of the unlocked store apart.
* `OwnIdsIncrease`: whatever id the recovery left, the records of one process have
  ids of their own until these outgrow 32 bits.
* `FilesAreDurableLog`, `NoHoles`, `AckedIsSynced`, `RecoveredIsSynced`: across
  files; `ReadBack`, `CutIsRemoved`, `DecayIsNoticed`: inside one.
* `CallReturns`, `CallReturnsHandled`: no signal of a `SyncClosure` is lost, and
  none comes from a stopped service.
* `EventsOfLiveConns`, `UnlockFindsConnection`: the registry of events never
  leads to a connection that is deleted or a descriptor that is another's, and
  the driver, which goes on using a connection after it has queued its
  `OP_DROP`, still finds it. Both rest on the order of `Close` (unregister, then
  close the descriptor) and on the destructor taking `mMutex`.
* `OnlyHalfRegisteredFails`: the assert of `UnRegistReadEvent` and
  `UnRegistWriteEvent` (`RWConnection.hpp`) can fail, but in one situation only.
* `OnlySharedIdsFail`: so can those of `StartConnectRemote` and `AcceptConnection`,
  for an id that both threads took from `mMaxID`; those of `RegistReadEvent` and
  `RegistWriteEvent` cannot.
* `NothingAfterDrop`, `RepliesInOrder`, `FramedInOrder`: the server's and the
  ends' view of a connection. `FramedInOrder` has one exception (`IsOutOfStep`): a
  connection is in order up to the first length that wraps.
* `GoneIsDropped`, `AnsweredOrClosed`: progress in spite of ends that do nothing,
  with the exceptions the code has written out: an end that keeps a blocking call
  waiting, and a length that is too short (`Forgotten`), for which the
  connection is closed and nobody told (`TcpConnection.cpp:46-50`).

`LogIdsIncrease` holds in `clients`, where the freed record still has its id
(`StaleIds = {}`), and is violated in `stale_id`, where it may not; `IsKVService`
holds for clients with tables of their own, and `StoreIsLog`, without which it
cannot hold, is violated for a shared key. In each pair the passing run says under which use
of the database the property is kept.

### Bounds

* `clients`, `aborts`: two clients, three requests, two processes, an initial
  log of two records. Three requests make a batch of two with a third behind it,
  and a get or a conflicting write at each point; two processes and a non-empty
  log make a crash, a recovery of what was left, and new writes after it.
  `LOG_PER_FILE = 2` rotates the file within the run. `LogIdSpace = 4` in
  `aborts` wraps within the run, 100 elsewhere never does.
  `MAX_LOG_NUM_TO_FLUSH` is 2 or 1, so a batch is at or over the limit.
* `files`: three processes of two records, files of two ids: a file is created,
  rotated and left empty in each place, and a third process recovers what two
  others left. `StaleIds = {0}` restarts the ids. `Losses` has both
  kinds: a file that is rotated away and the current one may each lose its end or go
  whole, in any order and before any process.
* `codec`: two records, so that there is one in front of and one behind a cut or
  a bad byte; bodies of 20 and 28 characters against a buffer of 24 bytes
  (`LOG_FILE_BUFFER_SIZE`), so that a field fits, does not fit any more, and never
  fits; contents that need no, one and two `=`. `DecayAt` is every byte of the
  length, the CRC and the longest body.
* `service`: two callers, a sender, three contexts: a context in the batch, one
  in the queue, one being posted, and Stop anywhere.
* `network`: one end that connects and one that is connected to, two
  descriptors, so that they are in use at once and are used again; `Budgets` has
  a whole message from either end beside the first half of a length from the
  other, and two messages from either, which makes order, and one taken for the
  rest of another, something that can go wrong. `Wrong` has both wrong lengths.
  `Window = 1` reply fits in an end's buffers, so that `Send` blocks at the second.
  `MayStop` adds `Stop` anywhere.
* `slow_end`: two ends that connect, one with two messages, or one with one message
  beside one with the first half of a length; the ends may stop at any unit.
* Deadlock is not checked: every run stops when its bounds are used up or the
  process is down for the last time.

### Fairness

The threads of a running process are scheduled: weak fairness of `Boot`,
`RequestCenter` and `LogCenter` in `SyncLog`; of `Run`, of the main thread's
steps but `Stop`, and of each caller's wait in `LogicService`. Nothing is assumed
of clients, of crashes, or that a process is started. In `NetService` the
driver, the service, the server and the second half of a registration by the
application are scheduled; nothing is assumed of the ends, nor that the
application connects or stops. The timed wait of
LogCenter always ends (its deadline is read from `CLOCK_MONOTONIC` and taken for
`CLOCK_REALTIME`, so it is past), which is what makes `Idle` run.
`SyncClosure::Wait` does not test anything, so a return from `pthread_cond_wait`
that nobody caused ends it; the service then blocks in `Signal`. The properties
of `LogicService` name that exception (`early`, `WokenEarly`).

## 4. Findings

1. `shared_key`: `HandleKVResponse` applies a batch in the order of a
   `std::set` of pointers, recovery in the order of the log. Two writes of one
   key in one batch can leave the store, and the clients, with another value than
   the next process.
2. `index_race`: `Idle` searches a `std::map` while RequestCenter inserts.
3. `overflow`: `for (iter == begin(); ...)` in `HandleWriteOper`. (Were the
   iterator set, the pairs would still carry log ids where HandleKVResponse looks
   for request ids.)
4. `stale_id`: `RedoLogFile` reads the id of a record it has given away.
5. `empty_file`: a process that dies right after creating a file makes the next
   one die in `assert(0)` at its first write, and every one after it.

Each has a run in which TLC finds the behaviour. Three more things the models show
are no findings, since the repository promises nothing of them; each is an exception
that a property names:

* Gets are not handled in LogCenter, as a comment has it (`RequestCenter.cpp:48-50`), and
  may be served before the recovery has been applied, which the TODO of `src/README.md`
  knows. They may then miss what is there, see the past, or copy a string that LogCenter
  is assigning (`DataStore.cpp:130`, `156`): `Misses` and `Torn` of `KVService`.
* A log file is created (`FileHandler.cpp:31`) and synced, but its directory is not, so
  that a loss of power may take the file with what was acknowledged: `lost` in
  `AckedIsSynced` and `NoHoles`.
* A length that wraps in `dataLen + HEAD_LENGTH` (`TcpConnection.cpp:58`) breaks the
  messages of its connection from there on: `IsOutOfStep` in `FramedInOrder`.

## 5. Proofs

`SyncLogProofs` proves, for any clients, operations, initial log and bounds,
from the assumptions named in `SyncLog` (`ConstantsAssumption`):

* `FlowInvariantHolds`: `Spec => []FlowInv`; with it `TypeCorrect`,
  `AckedWritesAreDurable`, `ReadsAreDurable`, `OneWriter`, `ResponsesMatch`;
* `RequestsAreFound`: `Spec => RequestIsFound`;
* `OwnIdsGrow`: `Spec => []OwnIdsIncrease`.

It also proves what every operation of the data store returns and that none copies,
moves or invents a value (`UpdateDataStoreValue`), which `ReadsAreDurable` needs.

Why `FlowInv` has its parts. *AckedDurable* is not inductive: that an answered
record was flushed is known because the pair came from a batch (`Backed`), and
that the tag is that record's because the pair matches the request (`Reported`).
A pair matches because its record found its own request (`Indexed`), which needs
that the index is one to one and complete for what LogCenter holds (`Index`),
that a client has one request at a time and is in one place (`Pipeline`), and
that ids have not wrapped, or if so that a zero id is in front of every record it
could confuse (`WrappedIds`, `Straight`). *SingleWriter* follows from
`RecoverFirst`: recovered records are ahead of all writes in the queue, so once a
record waits to be flushed none is left. `Quiet` says that nothing of this
happens before `KVDB::Start` returns. There is one lemma per conjunct
(`QuietStep`, `RecoverFirstStep`, `BackedStep`, ...), each split by the actions
that touch its variables; `Steps` folds the five ways to die into one.

`SyncLogStoreProofs` proves what the clients see: `InvariantHolds`
(`Spec => []Inv`, where `Inv` is `FlowInv` and `StoreInv`), and, if `WritesCommute`,
`StoreIsTheLog` (`Spec => []StoreIsLog`) and `DatabaseIsKVService`
(`Spec => IsKVService`). `WritesCommute` says of the menus of operations that what
one client may ask for commutes with what any other may. Without it neither
holds: that is finding 1. `OwnKeysCommute` proves it for clients that write
different tables, or put, add and delete different keys of one, whatever they read
(`Apart`): so do the workers of `Main.cpp`, which write disjoint ranges of keys of
`testtable`. (`main` makes that table before it starts them; in the model it is in
`InitialLog`, since a client that makes a table does not commute with one that
writes it.) `KVAssumption`: the values that stand for no request, no answer and no
table are none; of the files' side nothing is used but `DurableLog`.

`StoreInv` says where the data store is relative to the log. Once the process has
recovered, the store is what the log gives when the records in `Unapplied` are left
out (`Applied`, `Skipping`): those this process wrote whose clients still wait.
Records leave `Unapplied` in the order of a set of pointers, not in that of the log,
and here the proof needs `WritesCommute`: applying record i last is the same as
applying it in its place if it commutes with all behind it (`RemoveSkipped`), and
those are of other clients (`OthersFollow`), because a client has one request at a
time. That an answered client's record, and no other, leaves `Unapplied` needs that
requests, and records of this process, have tags of their own (`RequestTags`,
`OwnTags`) and that a request on its way to the log is in one place only
(`QueuedOnce`); these two follow requests through both queues as `FlowInv` follows
ids, and hold when ids wrap as well. Before that, while the process recovers, the
store is what the first records give and the others are at the head of LogCenter's
queue (`Recovering`). That nobody waits for a record without a batch carrying it
back (`OwnersAreServed`, but where an id wrapped) gives `StoreIsLog`: when all is
settled `Unapplied` is empty.

The refinement has a lemma per action: a client's call and its answer are those of
`KVService` (`PostCalls`, `GetReads`, `AnswerWrites`), the last recovered record is
`Recovered`, or `BootDone` is, if there is none left (`LCRecoverRecovers`,
`BootDoneOpens`), and queueing, writing and flushing a record change nothing. A crash
is `Die`. What it may take from the log has not been applied (`UnflushedIsUnapplied`),
so that the store the next process will recover is the data store with some
unapplied writes added (`CutSurvives`), which commute with what is behind them once
more. Gets during recovery find the store of a prefix of the log, which is in `past`.
`Replay`, `Skipping` and `Survivors` are recursive functions, of whose `CHOOSE`
something can be said only if the function exists: for the first two that is
`ChainExists`, by induction over the length; for `Survivors`, which recurs over sets
of clients, `ClosureExists` takes the least function that is closed, and needs no
finite set of clients.

`LogicServiceProofs` proves, for any numbers of callers, senders and posts,
`TypeCorrect`, `ServiceIsContextQueue` (`Spec => IsContextQueue`) and
`CallsReturnHandled`. Both speak of the batch followed by the queue (`Pending`):
posting appends to it, taking the queue as a batch leaves it as it is
(`GrabKeeps`), handling removes its head. That is the refinement, given that the
thread has a batch only inside its loop (`BatchIsHeld`). A caller is signalled by
a context of its own, so `CallReturnsHandled` needs that there is one pending at
most, the one it waits for (`OneContextEach`); that in turn needs that a caller
that waits for nothing has nothing pending (`HeldByOwner`), that a context of
type `start` is main's (`StartIsOfMain`), and that main waits only between its
two steps of `Start`, while `mRunning` is set (`MainIsStarting`): otherwise `Stop`
could leave one behind.

`PersistLoggerProofs` proves, for any rotation, any number of processes and
records and any ids a freed record may hold, `TypeCorrect`,
`AckedIsLostWithItsFileOnly` (`Spec => []AckedIsSynced`), `RecoveryIsSynced` and
`NothingSyncedIsLost`. The
argument of `FilesInv`: every file but the current one is synced to its end once
the process has recovered (`RecoveredIsSynced`), since recovery syncs each file it
reads and none is left out (`RecoverySyncs`), a rotation closes the file before
it opens the next, and only the current file is written. So at the fsync of a
flush all files are synced, and what is acknowledged, being no header, is behind
the header, which is in front of all records (`HeaderFirst`). Loss of power
leaves at least what is synced (`KeepsSynced`), or takes the whole file, whose synced
records are then in `lost`. That none is left out is
`NameOrder`: `Before` orders the names totally, so the number of names before
each is an injection from the finite set of names to `0..N-1`, hence onto it, and
recovery reads N different files.

There too is `NothingIsMissingBefore` (`Spec => []NoHoles`): if a record
is in the files or in the buffer, so is the one its process wrote before it, unless
that one is in `lost`. What
a loss of power may cut is the end of each file behind what is synced, so that
the invariant (`HolesInv`) says *where* the predecessor is: in front of the
record in the same file, or within what is synced of another file
(`SyncedElsewhere`), or, of a record in the buffer, in front of it there or in
the current file. A rotation moves the current file to the second case only
because it flushes and syncs the file first (`FilesInv`); that no process writes
behind a cut is the truncation in recovery.

The third part of `PersistLoggerProofs` is the refinement, `FilesImplementDurableLog`
(`Spec => FilesAreDurableLog`). The log is the concatenation of all files in the
order of their names, and the buffer. Two facts about names carry it: a new name,
wherever it comes in the order, moves every later one by one place
(`OrderOfInsert`), so that an empty file changes nothing (`EmptyFileMore`); and what
is appended to a file is appended to the log if no later file holds a record
(`LastFileGrows`). That the current file is such a last one is `CurrentIsLast`: what
was there before is of an earlier epoch, because recovery reads the files sorted
and so ends with the highest epoch of all files with a header, and counts it up
(`NamesAreSorted`); what this process wrote has smaller ids, because ids count up
and `NeedOpenNewLogFile` opens a file only where `id / LOG_PER_FILE` grows
(`NextBlock`). An empty file may sort behind the current one; it holds nothing.
`OneHeader` says that the header is in the buffer only while the file is empty, so
that every other item is a record. A loss of power is the one step that is no step
of `DurableLog`; the invariant survives it.

`OwnIdsGrow`, in `SyncLogProofs`, needs nothing of what recovery read: `mMaxLogId`
may be any id. The order runs from the records this process has in the log over
LogCenter's queue to the record RequestCenter has in hand and on to `mMaxLogId`
(`OwnOrder`), and holds until `mMaxLogId` has reached `LogIdSpace` (2^32) and the ids
are cut (`IdOrder`). A crash ends the process, and with it what is claimed. That ids
also increase from one process to the next is false (finding 4).

`NetServiceProofs` proves, for any ends, descriptors and budgets, that
`ControlInv` (`NetServiceInv`) holds in every state, and concludes `TypeCorrect`,
`NoStaleEvents`, `DroppedIsNotDeletedYet`, `OnlySharedIdsAssert`,
`UnregistersHalfRegisteredOnly`, `StoppedIsClosed` and `NothingAfterItsDrop`. No
hypothesis is made beyond the assumptions on the constants in `TcpSocket` and
`NetService`. The argument: a thread that is inside a connection owns its
`mMutex` and the connection is in `mConns` (`LockOwner`), since the destructor takes
that mutex; what the mutex guards is then either open with a descriptor or closed
without one (`ConnStates`). A descriptor belongs to one end, an end to one id, and
a descriptor that has no id yet is in one place, a queued `OP_ACCEPT` or a thread
about to insert it (`Sockets`, `PendingSockets`, `IdsOfConns`). So the registry can
only name connections that own the descriptor: `Close` unregisters before it
closes (`Events`, `EventsOfLiveConns`), and while a connection is being registered
nobody but that thread knows its id (`BeingRegistered`), up to its read event,
after which the driver may close it under the thread: the one case in which an
assert can fail. `DropIsLast` follows from the order of `Close` and `OP_DROP` and
the queue. There is one lemma per part (`LocksAndStatesKept`, `SocketsKept`,
`EventsOfLiveConnsKept`, ...), each split by action; steps with much effect
(closing, inserting, deleting, receiving) are summed up once, by a lemma
(`CloseSocketDoes`, `InsertDoes`, `DeleteDoes`, `RecvDataDoes`).

`NetStreamProofs` rests on `ControlHolds` and proves what goes over a connection:
`ReceivedInOrder` (`Spec => []FramedInOrder`) and `AnswersInOrder`
(`Spec => []RepliesInOrder`). For what is received (`FramingInv`), an end's units are
numbered from 0, four to a message, and the next one on the wire continues the
connection's buffer: it is number `4 * r + Len(buf)`, where `r` messages were
received whole, and message `r` is the last one the server was given or will be
(`IsFramed`, `ReceivedSoFar`). So a buffer of four units is message `r + 1`
(`UnitsAreWhole`), unless its length was short: such a connection is closed before
`Recv` (`NoShortLength`, `LengthIsNotShort`). All this is claimed of a connection
until it is given a message whose length wraps (`IsOutOfStep`, `StaysInStep`). An end no connection was made for has its
stream from unit 0 (`NothingReceivedYet`), which is where the descriptor's new owner
starts. For the answers (`RepliesInv`), those of a connection are numbered from what
its end has been sent (`Answered`) through its `mSendQueue` to the `OP_SEND`s in the
service's queue (`AnswersFollow`): each `OP_SEND` is for the message after the one
before it, and while the service runs none that was handled is missing
(`Pending`). The server, the service and `WriteData` each move one answer one place
on (`ServerAdds`, `QueuesFollows`, `SendsFollows`), and everything else leaves the
order alone (`SendsAreKept`). Both invariants speak of connections that have a
descriptor only; what an end that is gone has lost is a suffix.

`SequenceLemmas` and `LogFileProofs` are about data of any length. The induction they need is stated for a set in the place of a formula
(`InductionBySet`: a set that holds 0, and with n also n + 1, holds every number)
and follows from the least-element argument of `WellFoundedInduction`; from it come
the laws of `FlattenSeq` and those of the recursive functions of `LogCodec`.

`LogFileProofs` first proves of `LogCodec` what reading gives of what was written: numbers
(`ntohlOfhtonl`), the body of a record (`DecodeOfEncodeBody`), Base64 of strings of
any length and each padding (`DecodeOfEncode`). For CRCs a word is a set of bits and
`++` is the exclusive or; every step of the register is linear in it. So the four
tables of `mycrc32` are the register after one to four bytes, and `mycrc32` is
`crc32` for every string and alignment (`mycrc32IsCrc32`); shifting zero bytes in is
a linear map, the table of `mycrc32_combine` holds its powers of two, and multiplying
those its count names gives `crc32` of the two parts together
(`mycrc32_combineIsCrc32`), from which the two macros follow
(`mycrc32_zeroblockIsCrc32`, `mycrc32_xorblocksIsCrc32`). The three hold for every
length below 2^31. As each step is one to one, two strings that differ in one
byte have different CRCs (`CrcNoticesAByte`).

Then it proves of `LogFile`, for any buffer size, contents and number of records,
`NothingIsReordered` (`BytesInOrder`), `WrittenIsReadBack` (`ReadBack`),
`TornRecordIsRemoved` (`CutIsRemoved`), `CRCsAreOne` (`CRCsAgree`) and
`BadByteIsNoticed` (`DecayIsNoticed`). The assumption on `Contents`
(`LogFileAssumption`) is that six times the encoded length is an `int`:
`Base64::DecodedLength` multiplies it by six. The invariant: while a process writes,
disk, what `pwrite` was given, buffer and outstanding fields make up the file as it
is meant (`Writing`); afterwards the disk holds a beginning of that, at least up to
what was flushed, but for the bad byte (`OnDisk`); a reader stands at the end of the
k-th record and has found the first k (`Reading`), and once a byte is bad it is
there, or its record has been cut off, and no reader gets past it (`Decayed`).
`NextIsTaken`, `ReaderStands` and `DecayedIsNotTaken` say what `ReadFromFile` does in
front of a whole, a cut and a bad record. `BadByteIsNoticed` has the hypothesis that
no byte of a length goes bad (`LengthsStay`): with another length another body is
read, and there are bodies with the same CRC, so that no theorem can exclude it. On
the instance of the run `codec` TLC checks the bytes of the length too.

Only model-checked: liveness (`RequestIsAnswered`, `RecoveryEnds` and what `service`,
`network` and `slow_end` say of fairness); `DecayIsNoticed` for the bytes of a
length; and what the five runs that expect a violation find. The run `aborts` checks
`Inv`, the inductive invariant of `SyncLog`.

## 6. Not modelled

* `ThreadLogger`, `Log`: debug output, which nothing reads.
* `Msg` beyond what a connection needs of it: the growth of its buffer
  (`Reverse`), `<<` and `>>`, its reference count. The code puts one string into
  a message and takes it out.
* `Util`, `Common`: conversions and the time. `Mutex.hpp` and `Cmdline.hpp`, a
  third-party parser, are included by no source file.
* `KVDB::Stop` while requests are outstanding, which nothing in the repository
  does; reference counts of contexts.
* Failing system calls of the log files: `Flush` and `WriteNBytes` assert that
  there are none.
* A bad byte in the log id or the operation type of a record, which the CRC does
  not cover: the code makes no promise about it.
* The big-endian branches of `CRC.c`; `SetNonblocking` and the `EAGAIN` branches
  of `TcpSocket`, whose sockets always block.
* Code that is never called: `AppendGetRequest`, `OP_STOP`,
  `StartWithoutNewThread`.
* libevent: some 9,300 of the repository's 16,173 lines of code are its vendored
  headers, whose source is not here; with `Cmdline.hpp` they are more than 60% of
  the repository. Of the rest about half is mapped; what is not is
  declarations, logging, includes and the parts above.

## 7. Plan

Done, in this order: `DataStore`, `DurableLog`, `SyncLog` with its invariant and
proofs, `PersistLogger` and `LogicService` with theirs, `KVService` with its refinement,
`TcpSocket` and `NetService`, `LogCodec` and `LogFile`, the proofs of `NoHoles`,
`OwnIdsIncrease`, of the control of `NetService`, of what goes over its
connections, of `LogCodec` and `LogFile`, of the refinement of `DurableLog` by the
files, and of `StoreIsLog` and the refinement of `KVService`. Left:

1. `Msg`: a buffer that grows, its size and its two offsets.
2. `KVDB::Stop` under load: two `LogicService`s in the order of `Stop`, with the
   destructor asserts, and the reference count of `OperContext`.
