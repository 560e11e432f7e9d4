------------------------------ MODULE SyncLog -------------------------------
(***************************************************************************)
(* The database: client threads, the RequestCenter thread, the LogCenter   *)
(* thread and, while the process starts, the main thread reading the log   *)
(* back.                                                                   *)
(*                                                                         *)
(*   client --recv--> RequestCenter --write--> LogCenter --> log           *)
(*      ^                 |   ^                                            *)
(*      +---- Signal -----+   +------ finish (a batch, once flushed) ---+  *)
(*                                                                         *)
(* A write is answered after its record was flushed, and it changes the    *)
(* data store only then; a get is answered at once from the data store.    *)
(*                                                                         *)
(* The process may die at any moment, by itself or in one of its asserts;  *)
(* the log keeps what DurableLog.tla says it keeps, everything else is     *)
(* lost.  Queues are lists of contexts; taking the whole queue as a batch  *)
(* (LogicService::Run) and taking one context at a time differ in nothing  *)
(* another thread can see.  The SyncClosure hand-shake between a client    *)
(* and RequestCenter is one step here; LogicService.tla takes it apart.    *)
(***************************************************************************)
EXTENDS DataStore, FiniteSets

CONSTANTS
  Clients,                \* threads that call KVDB::PostKVRequest
  Menu,                   \* Menu[c]: the operations client c issues
  InitialLog,             \* the log an earlier process left
  MaxOps,                 \* bound: requests posted in a behaviour
  MaxStarts,              \* bound: processes started in a behaviour
  LogIdSpace,             \* 2^32: LogRecord keeps 32 bits of a log id
  StaleIds,               \* what a freed LogRecord may hold as its log id
  TornValue,              \* what a get may read of a value while it changes
  LOG_PER_FILE,
  MAX_LOG_NUM_TO_FLUSH,
  NoRequest, NoRecord, NoAnswer

LogId     == 0..(LogIdSpace - 1)
LogRecord == [logId : LogId, op : Op, tag : Nat]
Request   == [op : Op, tag : Nat]

ASSUME ConstantsAssumption ==
  /\ Menu \in [Clients -> SUBSET Op]
  /\ InitialLog \in Seq(LogRecord)
  /\ MaxOps \in Nat
  /\ MaxStarts \in Nat
  /\ LogIdSpace \in Nat \ {0}
  /\ StaleIds \subseteq LogId
  /\ LOG_PER_FILE \in Nat \ {0}
  /\ MAX_LOG_NUM_TO_FLUSH \in Nat
  /\ TornValue \notin Values \cup {NoValue}
  /\ NoRequest \notin Request
  /\ NoRecord \notin LogRecord

VARIABLES
  proc,              \* "down", "boot" (in KVDB::Start) or "up"
  bootRead,          \* records RecoverFromLog has handed to LogCenter
  bootHolds,         \* main holds a record it handed over, SetMaxLogId is next
  request,           \* request[c]: what client c waits for, or NoRequest
  answer,            \* answer[c]: what its last request was answered
  rcQueue,           \* RequestCenter's mQueue
  mRequestID,
  mRequests,         \* request id -> client
  rcRecord,          \* record ReceiveClientRequest is indexing, or NoRecord
  rcPairs,           \* pairs HandleKVResponse has still to answer
  lcQueue,           \* LogCenter's mQueue
  mLogId2RequestId,
  mToFlushLog,       \* log id (32 bits) -> record written, not yet answered
  mMaxLogId,
  lcPc,              \* LogCenter: "loop", "respond" or "overflow"
  dataStore,
  log, flushed,      \* see DurableLog
  posted,            \* history: requests posted so far, the last one's tag
  starts,            \* history: processes started so far
  acked,             \* history: tags of the writes whose client was answered
  aborts             \* history: the asserts and bad accesses that were hit

bootVars   == <<bootRead, bootHolds>>
clientVars == <<request, answer>>
rcVars     == <<mRequestID, mRequests, rcRecord, rcPairs>>
lcVars     == <<mToFlushLog, lcPc>>
idVars     == <<mMaxLogId, mLogId2RequestId>>
logVars    == <<log, flushed>>
histVars   == <<posted, starts, acked, aborts>>
vars == <<proc, bootVars, clientVars, rcQueue, rcVars, lcQueue, lcVars, idVars,
          dataStore, logVars, histVars>>

Durable == INSTANCE DurableLog WITH Records <- LogRecord

\* std::map::insert keeps the value a key already has.
MapInsert(map, key, value) ==
  [k \in DOMAIN map \cup {key} |-> IF k \in DOMAIN map THEN map[k] ELSE value]

EmptyMap == [x \in {} |-> x]

Recv(c)       == [type |-> "recv", client |-> c]
Finish(pairs) == [type |-> "finish", pairs |-> pairs]
LogCtx(t, r)  == [type |-> t, record |-> r]
-----------------------------------------------------------------------------
(***************************************************************************)
(* The life of a process.                                                  *)
(***************************************************************************)
Init ==
  /\ proc = "down"
  /\ bootRead = 0 /\ bootHolds = FALSE
  /\ request = [c \in Clients |-> NoRequest]
  /\ answer = [c \in Clients |-> NoAnswer]
  /\ rcQueue = <<>>
  /\ mRequestID = 0 /\ mRequests = EmptyMap
  /\ rcRecord = NoRecord /\ rcPairs = {}
  /\ lcQueue = <<>>
  /\ mLogId2RequestId = EmptyMap /\ mToFlushLog = EmptyMap
  /\ mMaxLogId = 0
  /\ lcPc = "loop"
  /\ dataStore = EmptyStore
  /\ log = InitialLog /\ flushed = Len(InitialLog)
  /\ posted = 0 /\ starts = 0 /\ acked = {} /\ aborts = {}

\* Everything that lives in the memory of the process is gone.  The client
\* threads are threads of the same process.
MemoryLost ==
  /\ proc' = "down"
  /\ bootRead' = 0 /\ bootHolds' = FALSE
  /\ request' = [c \in Clients |-> NoRequest]
  /\ answer' = [c \in Clients |-> NoAnswer]
  /\ rcQueue' = <<>>
  /\ mRequestID' = 0 /\ mRequests' = EmptyMap
  /\ rcRecord' = NoRecord /\ rcPairs' = {}
  /\ lcQueue' = <<>>
  /\ mLogId2RequestId' = EmptyMap /\ mToFlushLog' = EmptyMap
  /\ mMaxLogId' = 0
  /\ lcPc' = "loop"
  /\ dataStore' = EmptyStore

\* An assert fails, or a pointer that is not one is followed.
Abort(reason) ==
  /\ MemoryLost
  /\ aborts' = aborts \cup {reason}
  /\ UNCHANGED <<posted, starts, acked>>

\* Mutant: the files of the last process are opened for writing, and empty.
CrashLosesLog ==
  /\ proc # "down"
  /\ MemoryLost
  /\ log' = <<>> /\ flushed' = 0
  /\ UNCHANGED histVars

Crash ==
  /\ proc # "down"
  /\ MemoryLost
  /\ Durable!LogCrash
  /\ UNCHANGED histVars

\* KVDB::Start up to RecoverFromLog: the two services are running, and the
\* static KVDB object is zeroed memory.
StartProcess ==
  /\ proc = "down" /\ starts < MaxStarts
  /\ proc' = "boot"
  /\ starts' = starts + 1
  /\ UNCHANGED <<bootVars, clientVars, rcQueue, rcVars, lcQueue, lcVars, idVars,
                 dataStore, logVars, posted, acked, aborts>>

\* RedoLogFile reads the next record and AppendLogRecord queues it; from here
\* on LogCenter owns the record and deletes it once applied.
BootRead ==
  /\ proc = "boot" /\ ~bootHolds /\ bootRead < Len(log)
  /\ lcQueue' = Append(lcQueue, LogCtx("recover", log[bootRead + 1]))
  /\ bootRead' = bootRead + 1
  /\ bootHolds' = TRUE
  /\ UNCHANGED <<proc, clientVars, rcQueue, rcVars, lcVars, idVars, dataStore,
                 logVars, histVars>>

\* record->GetLogId().  If LogCenter has emptied its queue the record is freed
\* memory, and its log id is whatever is there.
ForgottenLogIds == {mMaxLogId}     \* mutant: the id is not handed over
RecoveredLogIds ==
  {log[bootRead].logId} \cup (IF lcQueue = <<>> THEN StaleIds ELSE {})

BootSetMaxLogId ==
  /\ proc = "boot" /\ bootHolds
  /\ mMaxLogId' \in RecoveredLogIds
  /\ bootHolds' = FALSE
  /\ UNCHANGED <<proc, bootRead, clientVars, rcQueue, rcVars, lcQueue, lcVars,
                 mLogId2RequestId, dataStore, logVars, histVars>>

\* RecoverFromLog returns when the log has been read, without waiting for
\* LogCenter; KVDB::Start returns.
LogIsRead == bootRead = Len(log)

BootDone ==
  /\ proc = "boot" /\ ~bootHolds /\ LogIsRead
  /\ proc' = "up"
  /\ UNCHANGED <<bootVars, clientVars, rcQueue, rcVars, lcQueue, lcVars, idVars,
                 dataStore, logVars, histVars>>
-----------------------------------------------------------------------------
(***************************************************************************)
(* Clients.                                                                *)
(***************************************************************************)
Waiting(c) == request[c] # NoRequest

\* A client calls PostKVRequest after Start has returned, and again only when
\* its last call has returned.
MayPostWhileBooting(c) == proc # "down" /\ ~Waiting(c)   \* mutant
MayPost(c) == proc = "up" /\ ~Waiting(c)

\* EnqueueKVRequest: queue the request and wait.
PostKVRequest(c) ==
  /\ MayPost(c) /\ posted < MaxOps
  /\ \E op \in Menu[c] : request' = [request EXCEPT ![c] = [op |-> op, tag |-> posted + 1]]
  /\ answer' = [answer EXCEPT ![c] = NoAnswer]
  /\ posted' = posted + 1
  /\ rcQueue' = Append(rcQueue, Recv(c))
  /\ UNCHANGED <<proc, bootVars, rcVars, lcQueue, lcVars, idVars, dataStore,
                 logVars, starts, acked, aborts>>

\* mErr and mValue are set and the client is signalled.
Answer(c, err, value) ==
  /\ request' = [request EXCEPT ![c] = NoRequest]
  /\ answer' = [answer EXCEPT ![c] =
                  [tag |-> request[c].tag, op |-> request[c].op, err |-> err, value |-> value]]
-----------------------------------------------------------------------------
(***************************************************************************)
(* RequestCenter.  It takes a context when it is not inside a handler.     *)
(***************************************************************************)
RCIdle  == proc # "down" /\ rcRecord = NoRecord /\ rcPairs = {}
RCTakes(t) == RCIdle /\ rcQueue # <<>> /\ Head(rcQueue).type = t
RCClient == Head(rcQueue).client

\* LogCenter is, or may be, inside HandleRecoverLog.
RecoverPending == \E i \in 1..Len(lcQueue) : lcQueue[i].type = "recover"

\* LogCenter is, or may be, assigning to the value of this key (DoPut) or
\* freeing it (DoDel).  DropTable only forgets a table, and frees no value.
ValueChanges(table, key) ==
  /\ lcQueue # <<>> /\ Head(lcQueue).type = "recover"
  /\ LET op == Head(lcQueue).record.op
     IN  op.type \in {"put", "del"} /\ op.table = table /\ op.key = key
  /\ Exists(dataStore, table) /\ Holds(dataStore[table], key)

\* What Get may return.  While LogCenter is inserting into the same maps the
\* lookup may also miss what is there, and the string DoGet copies may be
\* neither the value before nor the value after.
GetResults(op) ==
  {Get(dataStore, op.table, op.key)} \cup
  (IF RecoverPending
   THEN {[err |-> e, value |-> NoValue] : e \in {"E_TABLE_NOT_EXIST", "E_KEY_NOT_EXIST"}}
   ELSE {}) \cup
  (IF ValueChanges(op.table, op.key) THEN {[err |-> "ok", value |-> TornValue]} ELSE {})

\* HandleNewKVRequest, OP_get.
RCGet ==
  /\ RCTakes("recv") /\ request[RCClient].op.type = "get"
  /\ \E res \in GetResults(request[RCClient].op) : Answer(RCClient, res.err, res.value)
  /\ rcQueue' = Tail(rcQueue)
  /\ UNCHANGED <<proc, bootVars, rcVars, lcQueue, lcVars, idVars, dataStore,
                 logVars, histVars>>

\* LogCenter::GenerateLogId counts in 64 bits, LogRecord::SetLogId keeps 32.
GenerateLogIdStuck == IF mMaxLogId = 0 THEN 1 ELSE mMaxLogId   \* mutant
GenerateLogId == mMaxLogId + 1

LogIdWhole(id) == id                        \* mutant: nothing is cut off
LogIdBefore(id) == (id - 1) % LogIdSpace    \* mutant: the id before the increment
LogIdBits(id) == id % LogIdSpace

\* HandleNewKVRequest, any other type, into ReceiveClientRequest: the ids are
\* taken and the insertion into mLogId2RequestId begins.
RCNewRequest ==
  /\ RCTakes("recv") /\ request[RCClient].op.type # "get"
  /\ mRequestID' = mRequestID + 1
  /\ mRequests' = MapInsert(mRequests, mRequestID + 1, RCClient)
  /\ mMaxLogId' = GenerateLogId
  /\ rcRecord' = [logId |-> LogIdBits(GenerateLogId),
                  op |-> request[RCClient].op, tag |-> request[RCClient].tag]
  /\ rcQueue' = Tail(rcQueue)
  /\ UNCHANGED <<proc, bootVars, clientVars, rcPairs, lcQueue, lcVars,
                 mLogId2RequestId, dataStore, logVars, histVars>>

\* The insertion ends and AppendLogRecord queues the record.
RCAppendLogRecord ==
  /\ rcRecord # NoRecord
  /\ mLogId2RequestId' = MapInsert(mLogId2RequestId, mMaxLogId, mRequestID)
  /\ lcQueue' = Append(lcQueue, LogCtx("write", rcRecord))
  /\ rcRecord' = NoRecord
  /\ UNCHANGED <<proc, bootVars, clientVars, rcQueue, mRequestID, mRequests,
                 rcPairs, lcVars, mMaxLogId, dataStore, logVars, histVars>>

\* HandleKVResponse begins.
RCFinish ==
  /\ RCTakes("finish")
  /\ rcPairs' = Head(rcQueue).pairs
  /\ rcQueue' = Tail(rcQueue)
  /\ UNCHANGED <<proc, bootVars, clientVars, mRequestID, mRequests, rcRecord,
                 lcQueue, lcVars, idVars, dataStore, logVars, histVars>>

\* One turn of its loop.  The set is ordered by the addresses of the pairs,
\* so the next one may be any of them.
RCAnswer(p) ==
  LET c   == mRequests[p.id]
      res == UpdateDataStore(dataStore, p.record.op)
  IN  /\ p.id \in DOMAIN mRequests /\ ~BadOpType(p.record.op)
      /\ dataStore' = res.store
      /\ Answer(c, res.err, NoValue)
      /\ acked' = acked \cup {request[c].tag}
      /\ mRequests' = [i \in DOMAIN mRequests \ {p.id} |-> mRequests[i]]
      /\ rcPairs' = rcPairs \ {p}
      /\ UNCHANGED <<proc, bootVars, rcQueue, mRequestID, rcRecord, lcQueue,
                     lcVars, idVars, logVars, posted, starts, aborts>>

\* UpdateDataStore asserts that the type is a write.  (The other assert of the
\* loop, that the request is there, is part of ResponseMatchesRequest.)
RCAssertFails(p) ==
  /\ BadOpType(p.record.op)
  /\ Abort("bad_optype")
  /\ Durable!LogCrash

RCAnswerNext == \E p \in rcPairs : RCAnswer(p) \/ RCAssertFails(p)

RequestCenter == RCGet \/ RCNewRequest \/ RCAppendLogRecord \/ RCFinish \/ RCAnswerNext
-----------------------------------------------------------------------------
(***************************************************************************)
(* LogCenter.                                                              *)
(***************************************************************************)
\* Mutant: it leaves the last context of the queue for the next batch.
LCTakesOneOfMany(t) == lcPc = "loop" /\ Len(lcQueue) > 1 /\ Head(lcQueue).type = t
LCTakes(t) == lcPc = "loop" /\ lcQueue # <<>> /\ Head(lcQueue).type = t
LCRecord   == Head(lcQueue).record

\* HandleRecoverLog.
LCRecover ==
  /\ LCTakes("recover") /\ ~BadOpType(LCRecord.op)
  /\ dataStore' = UpdateDataStore(dataStore, LCRecord.op).store
  /\ lcQueue' = Tail(lcQueue)
  /\ UNCHANGED <<proc, bootVars, clientVars, rcQueue, rcVars, lcVars, idVars,
                 logVars, histVars>>

LCRecoverAssertFails ==
  /\ LCTakes("recover") /\ BadOpType(LCRecord.op)
  /\ Abort("bad_optype")
  /\ Durable!LogCrash

\* PersistLogger::NeedOpenNewLogFile.
NeedOpenNewLogFile(id) == id % LOG_PER_FILE = 0

TooManyToFlush(n) == n > MAX_LOG_NUM_TO_FLUSH

\* HandleWriteOper.  Too many records wait to be flushed: see LCOverflow.  That
\* a log file cannot be opened is an assert, and part of Crash; see
\* PersistLogger.tla for when it happens.
LCWrite ==
  /\ LCTakes("write")
  /\ Durable!LogAppend(LCRecord, NeedOpenNewLogFile(LCRecord.logId))
  /\ mToFlushLog' = MapInsert(mToFlushLog, LCRecord.logId, LCRecord)
  /\ lcPc' = IF TooManyToFlush(Cardinality(DOMAIN mToFlushLog')) THEN "overflow" ELSE "loop"
  /\ lcQueue' = Tail(lcQueue)
  /\ UNCHANGED <<proc, bootVars, clientVars, rcQueue, rcVars, idVars, dataStore,
                 histVars>>

\* The log is flushed, and then the loop over what was flushed starts from an
\* iterator that was compared with begin() and never set.
LCOverflow ==
  /\ lcPc = "overflow"
  /\ Durable!LogFlush
  /\ Abort("null_iterator")

\* Idle, first half.  Run calls it when it found the queue empty.
WaitsForBatch == Cardinality(DOMAIN mToFlushLog) > 1   \* mutant
HasToFlush == mToFlushLog # EmptyMap

LCFlush ==
  /\ lcPc = "loop" /\ lcQueue = <<>> /\ HasToFlush
  /\ Durable!LogFlush
  /\ lcPc' = "respond"
  /\ UNCHANGED <<proc, bootVars, clientVars, rcQueue, rcVars, lcQueue, idVars,
                 mToFlushLog, dataStore, histVars>>

ForgetResponded == mToFlushLog' = EmptyMap

\* Idle, second half: every record must have a request, and the pairs of the
\* two go to RequestCenter.
LCRespond ==
  /\ lcPc = "respond"
  /\ DOMAIN mToFlushLog \subseteq DOMAIN mLogId2RequestId
  /\ rcQueue' = Append(rcQueue,
       Finish({[id |-> mLogId2RequestId[i], record |-> mToFlushLog[i]] : i \in DOMAIN mToFlushLog}))
  /\ ForgetResponded
  /\ lcPc' = "loop"
  /\ UNCHANGED <<proc, bootVars, clientVars, rcVars, lcQueue, idVars, dataStore,
                 logVars, histVars>>

\* The assert of Idle: the id is not in the map, or find misses it because
\* RequestCenter is inserting into the tree find walks.
LCAssertFails ==
  /\ lcPc = "respond"
  /\ \/ ~(DOMAIN mToFlushLog \subseteq DOMAIN mLogId2RequestId) /\ Abort("index_missing")
     \/ rcRecord # NoRecord /\ Abort("index_torn")
  /\ Durable!LogCrash

LogCenter == LCRecover \/ LCRecoverAssertFails \/ LCWrite \/ LCOverflow
             \/ LCFlush \/ LCRespond \/ LCAssertFails
-----------------------------------------------------------------------------
Boot == BootRead \/ BootSetMaxLogId \/ BootDone

Next == \/ StartProcess
        \/ Boot
        \/ \E c \in Clients : PostKVRequest(c)
        \/ RequestCenter
        \/ LogCenter
        \/ Crash

Spec == Init /\ [][Next]_vars

\* The three threads of a running process are scheduled by the system: none
\* of them waits for ever while it can take a step.  Nothing is assumed of
\* the clients, and no process need be started.
FairSpec == Spec /\ WF_vars(Boot) /\ WF_vars(RequestCenter) /\ WF_vars(LogCenter)
-----------------------------------------------------------------------------
(***************************************************************************)
(* Properties.                                                             *)
(***************************************************************************)
Pair  == [id : Nat, record : LogRecord]
RCCtx == [type : {"recv"}, client : Clients] \cup [type : {"finish"}, pairs : SUBSET Pair]
LCCtx == [type : {"recover", "write"}, record : LogRecord]
AnswerT == [tag : Nat, op : Op, err : Errors, value : Values \cup {NoValue, TornValue}]

\* The type of every variable; the maps are partial functions.
TypeOK ==
  /\ proc \in {"down", "boot", "up"}
  /\ bootRead \in 0..Len(log) /\ bootHolds \in BOOLEAN
  /\ request \in [Clients -> Request \cup {NoRequest}]
  /\ answer \in [Clients -> AnswerT \cup {NoAnswer}]
  /\ rcQueue \in Seq(RCCtx)
  /\ mRequestID \in Nat
  /\ DOMAIN mRequests \subseteq Nat
  /\ \A i \in DOMAIN mRequests : mRequests[i] \in Clients
  /\ rcRecord \in LogRecord \cup {NoRecord}
  /\ rcPairs \subseteq Pair
  /\ lcQueue \in Seq(LCCtx)
  /\ DOMAIN mLogId2RequestId \subseteq Nat
  /\ \A i \in DOMAIN mLogId2RequestId : mLogId2RequestId[i] \in Nat
  /\ DOMAIN mToFlushLog \subseteq Nat
  /\ \A i \in DOMAIN mToFlushLog : mToFlushLog[i] \in LogRecord
  /\ mMaxLogId \in Nat
  /\ lcPc \in {"loop", "respond", "overflow"}
  /\ dataStore \in Store
  /\ log \in Seq(LogRecord) /\ flushed \in 0..Len(log)
  /\ posted \in Nat /\ starts \in Nat /\ acked \subseteq Nat
  /\ aborts \subseteq {"bad_optype", "null_iterator", "index_missing", "index_torn"}

\* A write whose client was answered is in the part of the log no crash takes
\* back, in this process and in every later one (HandleWriteOper, FlushLog,
\* then HandleKVResponse).
AckedDurable == \A t \in acked : \E i \in 1..flushed : log[i].tag = t

\* Nobody can read a value that a crash could still make unheard of: what the
\* data store holds was put there by a record that had been flushed, never by
\* one that was only queued or only written.
VisibleIsDurable ==
  \A t \in Tables : Exists(dataStore, t) =>
    \A k \in Keys : Holds(dataStore[t], k) =>
      \E i \in 1..flushed :
        /\ log[i].op.type \in {"put", "add"}
        /\ log[i].op.table = t /\ log[i].op.key = k
        /\ log[i].op.value = dataStore[t][k]

\* DataStore has no lock, and two threads call UpdateDataStore: LogCenter for
\* recovered records, RequestCenter for answered ones.  They never do so at
\* the same time, although nothing waits for the recovery to end: the queue of
\* LogCenter is first in first out.
SingleWriter == rcPairs # {} => ~RecoverPending

\* A pair carries the id RequestCenter gave the request and the record
\* LogCenter built for it, through two maps keyed by a 32-bit and a 64-bit log
\* id: the client that is answered is the one that posted the record.  So the
\* assert(0) of HandleKVResponse, no such request, is out of reach.
ResponseMatchesRequest ==
  \A p \in rcPairs :
    /\ p.id \in DOMAIN mRequests
    /\ request[mRequests[p.id]] = [op |-> p.record.op, tag |-> p.record.tag]

\* assert(index != mLogId2RequestId.end()) in Idle: the map, whose keys have 64
\* bits, holds the 32 bits of every record's id, until as many ids have been
\* given out as 32 bits can tell apart.
RequestIsFound ==
  [][~("index_missing" \in aborts) /\ ("index_missing" \in aborts)'
       => mMaxLogId >= LogIdSpace]_vars

\* The same assert, when find runs beside the insertion of RequestCenter.
IndexAssertHolds == "index_torn" \notin aborts

\* The overflow branch of HandleWriteOper informs RequestCenter.
OverflowBatchIsResponded == "null_iterator" \notin aborts

\* After recovery SetMaxLogId has left the id of the last record of the log:
\* log ids only grow along the log, across restarts too.
LogIdsIncrease == \A i, j \in 1..Len(log) : i < j => log[i].logId < log[j].logId

\* Whatever id the recovery left, those of the records a process writes itself
\* grow along the log, through ReceiveClientRequest, LogCenter's queue and
\* WriteLog, until its ids have outgrown the 32 bits of a record: no two records
\* of a process share an entry of mToFlushLog, or of mLogId2RequestId.
OwnIdsIncrease ==
  proc = "up" /\ mMaxLogId < LogIdSpace =>
    \A i, j \in (bootRead + 1)..Len(log) : i < j => log[i].logId < log[j].logId

\* No request between a client and its answer.
Settled ==
  /\ proc = "up" /\ rcQueue = <<>> /\ lcQueue = <<>>
  /\ rcRecord = NoRecord /\ rcPairs = {} /\ mToFlushLog = EmptyMap

\* The store the clients read is the one the next process would recover.
StoreIsLog == Settled => dataStore = Replay(log)

\* Every request is answered, unless the process dies (and the client thread
\* with it): no client waits for ever in KVRequest::Wait.
RequestIsAnswered == \A c \in Clients : Waiting(c) ~> ~Waiting(c)

\* A process that started comes up with the log applied, or dies.
RecoveryEnds == proc = "boot" ~> (proc = "down" \/ (proc = "up" /\ ~RecoverPending))
=============================================================================
