--------------------------- MODULE SyncLogProofs ----------------------------
(***************************************************************************)
(* FlowInv (SyncLogInv.tla) is an invariant of SyncLog for every value of  *)
(* the constants, and what follows from it.  First the facts about the     *)
(* operations of DataStore; then one lemma per conjunct of FlowInv shows   *)
(* that a step preserves it, and lists only the steps that touch the       *)
(* variables of that conjunct; last the log ids along the log.             *)
(***************************************************************************)
EXTENDS SyncLogInv, SequenceTheorems, TLAPS

(***************************************************************************)
(* The operations of DataStore, for every set of tables, keys and values.  *)
(***************************************************************************)
\* Applying any record to a store gives a store and one of the errors of
\* Err.hpp (LogCenter::UpdateDataStore).
LEMMA UpdateDataStoreType ==
  ASSUME NEW store \in Store, NEW op \in Op
  PROVE  /\ UpdateDataStore(store, op).store \in Store
         /\ UpdateDataStore(store, op).err \in Errors
<1> DEFINE res == UpdateDataStore(store, op)
<1>1. CASE op.type = "put"
  <2>1. res = Put(store, op.table, op.key, op.value)
    BY <1>1 DEF UpdateDataStore
  <2> QED
    BY <2>1 DEF Put, Accept, Refuse, Exists, DoPut, Store, Table, Op, Errors
<1>2. CASE op.type = "add"
  <2>1. res = Add(store, op.table, op.key, op.value)
    BY <1>2 DEF UpdateDataStore
  <2> QED
    BY <2>1 DEF Add, Accept, Refuse, Exists, DoPut, Store, Table, Op, Errors
<1>3. CASE op.type = "del"
  <2>1. res = Del(store, op.table, op.key)
    BY <1>3 DEF UpdateDataStore
  <2> QED
    BY <2>1 DEF Del, Accept, Refuse, Exists, DoDel, Store, Table, Op, Errors
<1>4. CASE op.type = "drop_table"
  <2>1. res = DropTable(store, op.table)
    BY <1>4 DEF UpdateDataStore
  <2> QED
    BY <2>1 DEF DropTable, Accept, Store, Op, Errors
<1>5. CASE op.type = "add_table"
  <2>1. res = CreateTable(store, op.table)
    BY <1>5 DEF UpdateDataStore
  <2> QED
    BY <2>1 DEF CreateTable, Accept, Refuse, EmptyTable, Store, Table, Op, Errors
<1>6. CASE op.type \notin WriteTypes
  <2>1. res = Refuse(store, "ok")
    BY <1>6 DEF UpdateDataStore, WriteTypes
  <2> QED
    BY <2>1 DEF Refuse, Errors
<1> QED
  BY <1>1, <1>2, <1>3, <1>4, <1>5, <1>6 DEF WriteTypes

\* What Get answers.
LEMMA GetType ==
  ASSUME NEW store \in Store, NEW t \in Tables, NEW k \in Keys
  PROVE  /\ Get(store, t, k).err \in Errors
         /\ Get(store, t, k).value \in Values \cup {NoValue}
BY DEF Get, Exists, Holds, Store, Table, Errors

\* A value in the store after a record was applied either was there before,
\* under the same table and key, or is the one the record carries: no
\* operation copies, moves or invents a value.
LEMMA UpdateDataStoreValue ==
  ASSUME NEW store \in Store, NEW op \in Op, NEW t \in Tables, NEW k \in Keys,
         Exists(UpdateDataStore(store, op).store, t),
         Holds(UpdateDataStore(store, op).store[t], k)
  PROVE  \/ /\ Exists(store, t) /\ Holds(store[t], k)
            /\ store[t][k] = UpdateDataStore(store, op).store[t][k]
         \/ /\ op.type \in {"put", "add"} /\ op.table = t /\ op.key = k
            /\ op.value = UpdateDataStore(store, op).store[t][k]
<1> DEFINE res == UpdateDataStore(store, op)
<1>1. CASE op.type = "put"
  <2>1. res = Put(store, op.table, op.key, op.value)
    BY <1>1 DEF UpdateDataStore
  <2> QED
    BY <1>1, <2>1 DEF Put, Accept, Refuse, Exists, Holds, DoPut, Store, Table, Op
<1>2. CASE op.type = "add"
  <2>1. res = Add(store, op.table, op.key, op.value)
    BY <1>2 DEF UpdateDataStore
  <2> QED
    BY <1>2, <2>1 DEF Add, Accept, Refuse, Exists, Holds, DoPut, Store, Table, Op
<1>3. CASE op.type = "del"
  <2>1. res = Del(store, op.table, op.key)
    BY <1>3 DEF UpdateDataStore
  <2> QED
    BY <2>1 DEF Del, Accept, Refuse, Exists, Holds, DoDel, Store, Table, Op
<1>4. CASE op.type = "drop_table"
  <2>1. res = DropTable(store, op.table)
    BY <1>4 DEF UpdateDataStore
  <2> QED
    BY <2>1 DEF DropTable, Accept, Exists, Holds, Store, Op
<1>5. CASE op.type = "add_table"
  <2>1. res = CreateTable(store, op.table)
    BY <1>5 DEF UpdateDataStore
  <2> QED
    BY <2>1 DEF CreateTable, Accept, Refuse, Exists, Holds, EmptyTable, Store, Table, Op
<1>6. CASE op.type \notin WriteTypes
  <2>1. res = Refuse(store, "ok")
    BY <1>6 DEF UpdateDataStore, WriteTypes
  <2> QED
    BY <2>1 DEF Refuse
<1> QED
  BY <1>1, <1>2, <1>3, <1>4, <1>5, <1>6 DEF WriteTypes

(***************************************************************************)
(* Steps.  Five actions end the process; they differ in what they add to   *)
(* aborts, and share the rest.                                             *)
(***************************************************************************)
\* What TypeOK says of the log.
LEMMA LogTypes ==
  ASSUME TypeOK
  PROVE  /\ log \in Seq(LogRecord) /\ Len(log) \in Nat
         /\ flushed \in 0..Len(log) /\ flushed \in Nat
<1>1. log \in Seq(LogRecord) /\ flushed \in 0..Len(log)
  BY Zenon DEF TypeOK
<1>2. Len(log) \in Nat
  BY ONLY <1>1
<1> QED
  BY ONLY <1>1, <1>2

LogKept == /\ log' \in Seq(LogRecord)
           /\ flushed' \in 0..Len(log')
           /\ flushed <= flushed'
           /\ \A i \in 1..flushed : log'[i] = log[i]

AbortReasons == {"bad_optype", "null_iterator", "index_missing", "index_torn"}

Dies == /\ MemoryLost
        /\ LogKept /\ flushed' = Len(log')
        /\ UNCHANGED <<posted, starts, acked>>
        /\ aborts' \subseteq aborts \cup AbortReasons

\* A crash cuts the log behind what was flushed; what is left counts as flushed
\* (PersistLogger.cpp, recovery after the process died).
LEMMA LogCrashKept ==
  ASSUME TypeOK, Durable!LogCrash
  PROVE  LogKept /\ flushed' = Len(log')
<1>1. PICK n \in flushed..Len(log) : log' = SubSeq(log, 1, n) /\ flushed' = n
  BY DEF Durable!LogCrash
<1>2. n \in 0..Len(log) /\ log \in Seq(LogRecord) /\ flushed \in 0..Len(log)
  BY DEF TypeOK
<1>3. \A i \in 1..n : log[i] \in LogRecord
  BY <1>2, ElementOfSeq
<1>4. /\ log' \in Seq(LogRecord)
      /\ Len(log') = n
      /\ \A i \in 1..n : log'[i] = log[i]
  BY <1>1, <1>2, <1>3, SubSeqProperties
<1> QED
  BY <1>1, <1>2, <1>4 DEF LogKept

\* FlushLog leaves the log as it is and makes all of it safe.
LEMMA LogFlushKept ==
  ASSUME TypeOK, Durable!LogFlush
  PROVE  LogKept /\ flushed' = Len(log') /\ log' = log
BY DEF TypeOK, Durable!LogFlush, LogKept

\* WriteLog adds one record at the end and takes nothing back.
LEMMA LogAppendKept ==
  ASSUME TypeOK, NEW r \in LogRecord, NEW b \in BOOLEAN, Durable!LogAppend(r, b)
  PROVE  /\ LogKept
         /\ Len(log') = Len(log) + 1
         /\ log'[Len(log')] = r
         /\ \A i \in 1..Len(log) : log'[i] = log[i]
<1>1. log \in Seq(LogRecord) /\ flushed \in 0..Len(log) /\ Len(log) \in Nat
  BY DEF TypeOK
<1>2. /\ log' = Append(log, r)
      /\ flushed' = IF b THEN Len(log) ELSE flushed
  BY DEF Durable!LogAppend
<1>3. /\ log' \in Seq(LogRecord)
      /\ Len(log') = Len(log) + 1
      /\ \A i \in 1..Len(log) : log'[i] = log[i]
      /\ log'[Len(log) + 1] = r
  BY <1>1, <1>2, AppendProperties
<1> QED
  BY <1>1, <1>2, <1>3 DEF LogKept

\* The steps of SyncLog with the five deaths folded into one.
LEMMA Steps ==
  ASSUME TypeOK, [Next]_vars
  PROVE  \/ UNCHANGED vars
         \/ StartProcess \/ BootRead \/ BootSetMaxLogId \/ BootDone
         \/ \E c \in Clients : PostKVRequest(c)
         \/ RCGet \/ RCNewRequest \/ RCAppendLogRecord \/ RCFinish
         \/ \E p \in rcPairs : RCAnswer(p)
         \/ LCRecover \/ LCWrite \/ LCFlush \/ LCRespond
         \/ Dies
<1>1. ASSUME MemoryLost, Durable!LogCrash \/ Durable!LogFlush,
             UNCHANGED <<posted, starts, acked>>, aborts' \subseteq aborts \cup AbortReasons
      PROVE  Dies
  BY <1>1, LogCrashKept, LogFlushKept DEF Dies
<1>2. CASE Crash
  BY <1>1, <1>2 DEF Crash, histVars
<1>3. ASSUME NEW p \in rcPairs, RCAssertFails(p) PROVE Dies
  BY <1>1, <1>3 DEF RCAssertFails, Abort, AbortReasons
<1>4. CASE LCRecoverAssertFails
  BY <1>1, <1>4 DEF LCRecoverAssertFails, Abort, AbortReasons
<1>5. CASE LCOverflow
  BY <1>1, <1>5 DEF LCOverflow, Abort, AbortReasons
<1>6. CASE LCAssertFails
  BY <1>1, <1>6 DEF LCAssertFails, Abort, AbortReasons
<1> QED
  BY <1>2, <1>3, <1>4, <1>5, <1>6
     DEF Next, Boot, RequestCenter, RCAnswerNext, LogCenter
-----------------------------------------------------------------------------
(***************************************************************************)
(* TypeOK.                                                                 *)
(***************************************************************************)
\* What std::map::insert does to the keys and values of a map.
LEMMA MapInsertType ==
  ASSUME NEW map, NEW key, NEW value
  PROVE  /\ DOMAIN MapInsert(map, key, value) = DOMAIN map \cup {key}
         /\ \A k \in DOMAIN map : MapInsert(map, key, value)[k] = map[k]
         /\ key \notin DOMAIN map => MapInsert(map, key, value)[key] = value
BY DEF MapInsert

\* A cleared map has no keys.
LEMMA EmptyMapDomain == DOMAIN EmptyMap = {}
BY DEF EmptyMap

\* The queues after a context was added or taken.
LEMMA QueueAppend ==
  ASSUME NEW S, NEW q \in Seq(S), NEW e \in S
  PROVE  /\ Append(q, e) \in Seq(S)
         /\ Len(q) \in Nat
         /\ Len(Append(q, e)) = Len(q) + 1
         /\ \A i \in 1..Len(q) : Append(q, e)[i] = q[i]
         /\ Append(q, e)[Len(q) + 1] = e
BY AppendProperties

\* Taking the first context of a queue shifts the others by one.
LEMMA QueueTail ==
  ASSUME NEW S, NEW q \in Seq(S), q # <<>>
  PROVE  /\ Len(q) \in Nat \ {0}
         /\ Head(q) = q[1] /\ q[1] \in S
         /\ Tail(q) \in Seq(S)
         /\ Len(Tail(q)) = Len(q) - 1
         /\ \A i \in 1..(Len(q) - 1) : Tail(q)[i] = q[i + 1]
BY HeadTailProperties, EmptySeq

\* RequestCenter takes a request: its client waits for it.
LEMMA TakesRecv ==
  ASSUME TypeOK, Pipeline, RCTakes("recv")
  PROVE  /\ RCClient \in Clients /\ request[RCClient] \in Request
         /\ RCClient = rcQueue[1].client /\ IsRecv(1)
<1>1. rcQueue \in Seq(RCCtx) /\ rcQueue # <<>> /\ Head(rcQueue).type = "recv"
  BY DEF TypeOK, RCTakes
<1>2. rcQueue[1] \in RCCtx /\ Head(rcQueue) = rcQueue[1] /\ 1 \in 1..Len(rcQueue)
  BY <1>1, QueueTail
<1>3. rcQueue[1].type = "recv" /\ rcQueue[1].client \in Clients
  BY <1>1, <1>2 DEF RCCtx
<1>4. Waiting(rcQueue[1].client)
  BY <1>2, <1>3 DEF Pipeline, IsRecv
<1> QED
  BY <1>2, <1>3, <1>4 DEF Waiting, TypeOK, RCClient, IsRecv

\* RequestCenter answers a pair: its client waits too.
LEMMA AnswersClient ==
  ASSUME TypeOK, Pipeline, NEW p \in rcPairs, RCAnswer(p)
  PROVE  /\ p \in Pair
         /\ p.id \in DOMAIN mRequests
         /\ mRequests[p.id] \in Clients
         /\ request[mRequests[p.id]] \in Request
BY DEF TypeOK, Pipeline, RCAnswer, Waiting

\* Before the first process starts every variable has its type.
LEMMA TypeInit == Init => TypeOK
<1> SUFFICES ASSUME Init PROVE TypeOK
  OBVIOUS
<1>1. /\ <<>> \in Seq(RCCtx) /\ <<>> \in Seq(LCCtx)
      /\ InitialLog \in Seq(LogRecord) /\ Len(InitialLog) \in Nat
  BY ConstantsAssumption, LenProperties
<1>2. EmptyStore \in Store
  BY DEF EmptyStore, Store
<1>3. /\ DOMAIN mRequests = {} /\ DOMAIN mLogId2RequestId = {}
      /\ DOMAIN mToFlushLog = {}
  BY EmptyMapDomain DEF Init
<1>4. /\ request \in [Clients -> Request \cup {NoRequest}]
      /\ answer \in [Clients -> AnswerT \cup {NoAnswer}]
  BY DEF Init
<1>5. bootRead \in 0..Len(log) /\ flushed \in 0..Len(log) /\ log \in Seq(LogRecord)
  BY <1>1 DEF Init
<1> QED
  BY <1>1, <1>2, <1>3, <1>4, <1>5 DEF Init, TypeOK

\* A death of the process resets the variables to values of their types.
LEMMA TypeDies ==
  ASSUME TypeOK, Dies
  PROVE  TypeOK'
<1>1. EmptyStore \in Store
  BY DEF EmptyStore, Store
<1>2. <<>> \in Seq(RCCtx) /\ <<>> \in Seq(LCCtx)
  OBVIOUS
<1>3. aborts' \subseteq AbortReasons
  BY DEF TypeOK, Dies, AbortReasons
<1>4. /\ DOMAIN mRequests' = {} /\ DOMAIN mLogId2RequestId' = {}
      /\ DOMAIN mToFlushLog' = {}
  BY EmptyMapDomain DEF Dies, MemoryLost
<1>5. /\ request' \in [Clients -> Request \cup {NoRequest}]
      /\ answer' \in [Clients -> AnswerT \cup {NoAnswer}]
  BY DEF Dies, MemoryLost
<1>6. bootRead' \in 0..Len(log')
  BY DEF Dies, MemoryLost, LogKept
<1> QED
  BY <1>1, <1>2, <1>3, <1>4, <1>5, <1>6
     DEF TypeOK, Dies, MemoryLost, LogKept, AbortReasons

\* Every step of the threads keeps the type of every variable.
LEMMA TypeStep ==
  ASSUME TypeOK, Quiet, Pipeline, [Next]_vars
  PROVE  TypeOK'
<1> USE DEF bootVars, clientVars, rcVars, lcVars, idVars, logVars, histVars
<1>1. CASE UNCHANGED vars
  BY <1>1 DEF TypeOK, vars
<1>2. CASE StartProcess
  BY <1>2 DEF TypeOK, StartProcess
<1>3. CASE BootRead
  <2>1. bootRead + 1 \in 1..Len(log) /\ log[bootRead + 1] \in LogRecord
    BY <1>3 DEF TypeOK, BootRead
  <2>2. LogCtx("recover", log[bootRead + 1]) \in LCCtx
    BY <2>1 DEF LogCtx, LCCtx
  <2>3. lcQueue' \in Seq(LCCtx)
    BY <1>3, <2>2, QueueAppend DEF TypeOK, BootRead
  <2> QED
    BY <1>3, <2>1, <2>3 DEF TypeOK, BootRead
<1>4. CASE BootSetMaxLogId
  <2>1. bootRead \in 1..Len(log)
    BY <1>4 DEF TypeOK, Quiet, BootSetMaxLogId
  <2>2. log[bootRead].logId \in LogId
    <3>1. log[bootRead] \in LogRecord
      BY <2>1, ElementOfSeq DEF TypeOK
    <3> QED
      BY <3>1 DEF LogRecord
  <2>3. mMaxLogId' \in Nat
    <3>1. mMaxLogId' \in LogId
      BY <1>4, <2>2, ConstantsAssumption DEF BootSetMaxLogId, RecoveredLogIds
    <3> QED
      BY <3>1 DEF LogId
  <2> QED
    BY <1>4, <2>3 DEF TypeOK, BootSetMaxLogId
<1>5. CASE BootDone
  BY <1>5 DEF TypeOK, BootDone
<1>6. ASSUME NEW c \in Clients, PostKVRequest(c) PROVE TypeOK'
  <2>1. PICK op \in Menu[c] : request' = [request EXCEPT ![c] = [op |-> op, tag |-> posted + 1]]
    BY <1>6 DEF PostKVRequest
  <2>2. [op |-> op, tag |-> posted + 1] \in Request
    <3>1. op \in Op
      BY <2>1, ConstantsAssumption
    <3>2. posted + 1 \in Nat
      BY DEF TypeOK
    <3> QED
      BY <3>1, <3>2 DEF Request
  <2>3. rcQueue' \in Seq(RCCtx)
    BY <1>6, QueueAppend DEF TypeOK, PostKVRequest, Recv, RCCtx
  <2> QED
    BY <1>6, <2>1, <2>2, <2>3 DEF TypeOK, PostKVRequest
<1>7. CASE RCGet
  <2> DEFINE op == request[RCClient].op
  <2>1. RCClient \in Clients /\ request[RCClient] \in Request
    BY <1>7, TakesRecv DEF RCGet
  <2>2. PICK res \in GetResults(op) : Answer(RCClient, res.err, res.value)
    BY <1>7 DEF RCGet
  <2>3. res.err \in Errors /\ res.value \in Values \cup {NoValue, TornValue}
    <3>1. op.table \in Tables /\ op.key \in Keys
      BY <2>1 DEF Request, Op
    <3>2. /\ Get(dataStore, op.table, op.key).err \in Errors
          /\ Get(dataStore, op.table, op.key).value \in Values \cup {NoValue}
      BY <3>1, GetType DEF TypeOK
    <3> QED
      BY <3>2 DEF GetResults, Errors
  <2>4. /\ request' \in [Clients -> Request \cup {NoRequest}]
        /\ answer' \in [Clients -> AnswerT \cup {NoAnswer}]
    BY <2>1, <2>2, <2>3 DEF TypeOK, Answer, AnswerT, Request
  <2>5. rcQueue' \in Seq(RCCtx)
    BY <1>7, QueueTail DEF TypeOK, RCGet, RCTakes
  <2> QED
    BY <1>7, <2>4, <2>5 DEF TypeOK, RCGet
<1>8. CASE RCNewRequest
  <2>1. RCClient \in Clients /\ request[RCClient] \in Request
    BY <1>8, TakesRecv DEF RCNewRequest
  <2>2. (mMaxLogId + 1) % LogIdSpace \in LogId
    BY ConstantsAssumption DEF TypeOK, LogId
  <2>3. rcRecord' \in LogRecord
    BY <1>8, <2>1, <2>2 DEF RCNewRequest, GenerateLogId, LogIdBits, LogRecord, Request
  <2>4. /\ DOMAIN mRequests' \subseteq Nat
        /\ \A i \in DOMAIN mRequests' : mRequests'[i] \in Clients
    BY <1>8, <2>1 DEF TypeOK, RCNewRequest, MapInsert
  <2>5. rcQueue' \in Seq(RCCtx)
    BY <1>8, QueueTail DEF TypeOK, RCNewRequest, RCTakes
  <2> QED
    BY <1>8, <2>3, <2>4, <2>5 DEF TypeOK, RCNewRequest, GenerateLogId
<1>9. CASE RCAppendLogRecord
  <2>1. LogCtx("write", rcRecord) \in LCCtx
    BY <1>9 DEF TypeOK, RCAppendLogRecord, LogCtx, LCCtx
  <2>2. lcQueue' \in Seq(LCCtx)
    BY <1>9, <2>1, QueueAppend DEF TypeOK, RCAppendLogRecord
  <2>3. /\ DOMAIN mLogId2RequestId' \subseteq Nat
        /\ \A i \in DOMAIN mLogId2RequestId' : mLogId2RequestId'[i] \in Nat
    BY <1>9 DEF TypeOK, RCAppendLogRecord, MapInsert
  <2> QED
    BY <1>9, <2>2, <2>3 DEF TypeOK, RCAppendLogRecord
<1>10. CASE RCFinish
  <2>1. rcQueue \in Seq(RCCtx) /\ rcQueue # <<>> /\ Head(rcQueue).type = "finish"
    BY <1>10 DEF TypeOK, RCFinish, RCTakes
  <2>2. rcQueue' \in Seq(RCCtx) /\ Head(rcQueue) \in RCCtx
    BY <1>10, <2>1, QueueTail DEF RCFinish
  <2>3. rcPairs' \subseteq Pair
    BY <1>10, <2>1, <2>2 DEF RCFinish, RCCtx
  <2> QED
    BY <1>10, <2>2, <2>3 DEF TypeOK, RCFinish
<1>11. ASSUME NEW p \in rcPairs, RCAnswer(p) PROVE TypeOK'
  <2> DEFINE res == UpdateDataStore(dataStore, p.record.op)
             c == mRequests[p.id]
  <2>1. p.record.op \in Op /\ c \in Clients /\ request[c] \in Request
    BY <1>11, AnswersClient DEF Pair, LogRecord
  <2>2. res.store \in Store /\ res.err \in Errors
    BY <2>1, UpdateDataStoreType DEF TypeOK
  <2>3. Answer(c, res.err, NoValue) /\ dataStore' = res.store
    BY <1>11 DEF RCAnswer
  <2> HIDE DEF res, c
  <2>4. /\ request' \in [Clients -> Request \cup {NoRequest}]
        /\ answer' \in [Clients -> AnswerT \cup {NoAnswer}]
    BY <2>1, <2>2, <2>3 DEF TypeOK, Answer, AnswerT, Request
  <2>5. /\ DOMAIN mRequests' \subseteq Nat
        /\ \A i \in DOMAIN mRequests' : mRequests'[i] \in Clients
    BY <1>11 DEF TypeOK, RCAnswer
  <2>6. acked' \subseteq Nat
    BY <1>11, <2>1 DEF TypeOK, RCAnswer, Request, c
  <2> QED
    BY <1>11, <2>2, <2>3, <2>4, <2>5, <2>6 DEF TypeOK, RCAnswer
<1>12. CASE LCRecover
  <2>1. lcQueue' \in Seq(LCCtx) /\ Head(lcQueue) \in LCCtx
    BY <1>12, QueueTail DEF TypeOK, LCRecover, LCTakes
  <2>2. LCRecord.op \in Op
    BY <2>1 DEF LCRecord, LCCtx, LogRecord
  <2>3. dataStore' \in Store
    BY <1>12, <2>2, UpdateDataStoreType DEF TypeOK, LCRecover
  <2> QED
    BY <1>12, <2>1, <2>3 DEF TypeOK, LCRecover
<1>13. CASE LCWrite
  <2>1. lcQueue' \in Seq(LCCtx) /\ Head(lcQueue) \in LCCtx
    BY <1>13, QueueTail DEF TypeOK, LCWrite, LCTakes
  <2>2. LCRecord \in LogRecord /\ LCRecord.logId \in Nat
    BY <2>1, ConstantsAssumption DEF LCRecord, LCCtx, LogRecord, LogId
  <2>3. LogKept /\ Len(log') = Len(log) + 1
    BY <1>13, <2>2, LogAppendKept DEF LCWrite, NeedOpenNewLogFile
  <2>4. /\ DOMAIN mToFlushLog' \subseteq Nat
        /\ \A i \in DOMAIN mToFlushLog' : mToFlushLog'[i] \in LogRecord
    BY <1>13, <2>2 DEF TypeOK, LCWrite, MapInsert
  <2>5. bootRead' \in 0..Len(log')
    BY <1>13, <2>3 DEF TypeOK, LCWrite
  <2>6. lcPc' \in {"loop", "respond", "overflow"}
    BY <1>13 DEF LCWrite
  <2> QED
    BY <1>13, <2>1, <2>3, <2>4, <2>5, <2>6 DEF TypeOK, LCWrite, LogKept
<1>14. CASE LCFlush
  BY <1>14, LogFlushKept DEF TypeOK, LCFlush, LogKept
<1>15. CASE LCRespond
  <2> DEFINE pairs == {[id |-> mLogId2RequestId[i], record |-> mToFlushLog[i]] : i \in DOMAIN mToFlushLog}
  <2>1. pairs \subseteq Pair
    BY <1>15 DEF TypeOK, LCRespond, ForgetResponded, Pair
  <2>2. Finish(pairs) \in RCCtx
    BY <2>1 DEF Finish, RCCtx
  <2>3. rcQueue' \in Seq(RCCtx)
    BY <1>15, <2>2, QueueAppend DEF TypeOK, LCRespond, ForgetResponded
  <2> QED
    BY <1>15, <2>3, EmptyMapDomain DEF TypeOK, LCRespond, ForgetResponded
<1>16. CASE Dies
  BY <1>16, TypeDies
<1> QED
  BY <1>1, <1>2, <1>3, <1>4, <1>5, <1>6, <1>7, <1>8, <1>9, <1>10, <1>11,
     <1>12, <1>13, <1>14, <1>15, <1>16, Steps
-----------------------------------------------------------------------------
(***************************************************************************)
(* Quiet, RecoverFirst, Pipeline.                                          *)
(***************************************************************************)
\* The queues after each step that changes them, position by position.
LEMMA LcQueueTail ==
  ASSUME TypeOK, lcQueue # <<>>, lcQueue' = Tail(lcQueue)
  PROVE  /\ Len(lcQueue) \in Nat \ {0} /\ Len(lcQueue') = Len(lcQueue) - 1
         /\ Head(lcQueue) = lcQueue[1] /\ lcQueue[1] \in LCCtx
         /\ \A j \in 1..Len(lcQueue') : lcQueue'[j] = lcQueue[j + 1] /\ j + 1 \in 1..Len(lcQueue)
BY QueueTail DEF TypeOK

\* AppendLogRecord puts a context behind those LogCenter already has.
LEMMA LcQueueAppend ==
  ASSUME TypeOK, NEW r \in LogRecord, NEW t \in {"recover", "write"},
         lcQueue' = Append(lcQueue, LogCtx(t, r))
  PROVE  /\ Len(lcQueue) \in Nat /\ Len(lcQueue') = Len(lcQueue) + 1
         /\ \A j \in 1..Len(lcQueue) : lcQueue'[j] = lcQueue[j]
         /\ lcQueue'[Len(lcQueue')] = LogCtx(t, r)
         /\ lcQueue'[Len(lcQueue')].type = t
         /\ lcQueue'[Len(lcQueue')].record = r
<1>1. LogCtx(t, r) \in LCCtx /\ LogCtx(t, r).type = t /\ LogCtx(t, r).record = r
  BY DEF LogCtx, LCCtx
<1> QED
  BY <1>1, QueueAppend DEF TypeOK

\* RequestCenter takes the first context of its queue.
LEMMA RcQueueTail ==
  ASSUME TypeOK, rcQueue # <<>>, rcQueue' = Tail(rcQueue)
  PROVE  /\ Len(rcQueue) \in Nat \ {0} /\ Len(rcQueue') = Len(rcQueue) - 1
         /\ Head(rcQueue) = rcQueue[1] /\ rcQueue[1] \in RCCtx
         /\ \A i \in 1..Len(rcQueue') : rcQueue'[i] = rcQueue[i + 1] /\ i + 1 \in 1..Len(rcQueue)
BY QueueTail DEF TypeOK

\* A post or a response goes behind what RequestCenter already has.
LEMMA RcQueueAppend ==
  ASSUME TypeOK, NEW e \in RCCtx, rcQueue' = Append(rcQueue, e)
  PROVE  /\ Len(rcQueue) \in Nat /\ Len(rcQueue') = Len(rcQueue) + 1
         /\ \A i \in 1..Len(rcQueue) : rcQueue'[i] = rcQueue[i]
         /\ rcQueue'[Len(rcQueue')] = e
BY QueueAppend DEF TypeOK

\* What EnqueueKVRequest queues for a client.
LEMMA RecvType ==
  ASSUME NEW c \in Clients
  PROVE  Recv(c) \in RCCtx /\ Recv(c).type = "recv" /\ Recv(c).client = c
BY DEF Recv, RCCtx

\* What LCRespond sends is a set of pairs.
LEMMA RespondPairs ==
  ASSUME TypeOK, LCRespond
  PROVE  \E e \in RCCtx :
           /\ e.type = "finish"
           /\ e.pairs = {[id |-> mLogId2RequestId[i], record |-> mToFlushLog[i]] : i \in DOMAIN mToFlushLog}
           /\ rcQueue' = Append(rcQueue, e)
<1> DEFINE pairs == {[id |-> mLogId2RequestId[i], record |-> mToFlushLog[i]] : i \in DOMAIN mToFlushLog}
<1>1. pairs \subseteq Pair
  BY DEF TypeOK, LCRespond, ForgetResponded, Pair
<1>2. /\ Finish(pairs) \in RCCtx /\ Finish(pairs).type = "finish"
      /\ Finish(pairs).pairs = pairs
  BY <1>1 DEF Finish, RCCtx
<1> QED
  BY <1>2 DEF LCRespond, ForgetResponded

\* Until KVDB::Start returns nothing but the recovery happens: Quiet is kept.
LEMMA QuietStep ==
  ASSUME TypeOK, Quiet, [Next]_vars
  PROVE  Quiet'
<1> USE DEF bootVars, clientVars, rcVars, lcVars, idVars, logVars, histVars, IsRecover
<1>1. CASE UNCHANGED vars
  BY <1>1 DEF Quiet, vars
<1>2. CASE StartProcess
  BY <1>2, ConstantsAssumption DEF Quiet, StartProcess
<1>3. CASE BootRead
  <2>1. bootRead + 1 \in 1..Len(log) /\ log[bootRead + 1] \in LogRecord
    BY <1>3, ElementOfSeq DEF TypeOK, BootRead
  <2>2. \A j \in 1..Len(lcQueue') : lcQueue'[j].type = "recover"
    <3>1. \A j \in 1..Len(lcQueue) : lcQueue[j].type = "recover"
      BY <1>3 DEF Quiet, BootRead
    <3> QED
      BY <1>3, <2>1, <3>1, LcQueueAppend DEF BootRead
  <2> QED
    BY <1>3, <2>1, <2>2 DEF Quiet, BootRead
<1>4. CASE BootSetMaxLogId
  <2>1. bootRead \in 1..Len(log)
    BY <1>4 DEF TypeOK, Quiet, BootSetMaxLogId
  <2>2. log[bootRead] \in LogRecord
    BY <2>1, ElementOfSeq DEF TypeOK
  <2>3. mMaxLogId' \in LogId
    BY <1>4, <2>2, ConstantsAssumption DEF BootSetMaxLogId, RecoveredLogIds, LogRecord
  <2>4. mMaxLogId' < LogIdSpace
    BY <2>3, ConstantsAssumption DEF LogId
  <2> QED
    BY <1>4, <2>4 DEF Quiet, BootSetMaxLogId
<1>5. CASE BootDone
  BY <1>5 DEF Quiet, BootDone
<1>6. ASSUME NEW c \in Clients, PostKVRequest(c) PROVE Quiet'
  BY <1>6 DEF Quiet, PostKVRequest, MayPost
<1>7. CASE RCGet
  BY <1>7 DEF Quiet, RCGet, RCTakes, RCIdle, TypeOK
<1>8. CASE RCNewRequest
  BY <1>8 DEF Quiet, RCNewRequest, RCTakes, RCIdle, TypeOK
<1>9. CASE RCAppendLogRecord
  BY <1>9 DEF Quiet, RCAppendLogRecord, TypeOK
<1>10. CASE RCFinish
  BY <1>10 DEF Quiet, RCFinish, RCTakes, RCIdle, TypeOK
<1>11. ASSUME NEW p \in rcPairs, RCAnswer(p) PROVE Quiet'
  BY <1>11 DEF Quiet, RCAnswer, TypeOK
<1>12. CASE LCRecover
  <2>1. lcQueue # <<>> /\ lcQueue' = Tail(lcQueue)
    BY <1>12 DEF LCRecover, LCTakes
  <2>2. (\A j \in 1..Len(lcQueue) : lcQueue[j].type = "recover")
           => \A j \in 1..Len(lcQueue') : lcQueue'[j].type = "recover"
    BY <2>1, LcQueueTail
  <2> QED
    BY <1>12, <2>1, <2>2 DEF Quiet, LCRecover, TypeOK
<1>13. CASE LCWrite
  <2>1. lcQueue # <<>> /\ lcQueue' = Tail(lcQueue)
    BY <1>13 DEF LCWrite, LCTakes
  <2>2. 1 \in 1..Len(lcQueue) /\ lcQueue[1].type = "write"
    BY <1>13, <2>1, LcQueueTail DEF LCWrite, LCTakes
  <2>3. proc = "up"
    BY <2>2 DEF Quiet, TypeOK
  <2> QED
    BY <1>13, <2>3 DEF Quiet, LCWrite
<1>14. CASE LCFlush
  BY <1>14 DEF Quiet, LCFlush, HasToFlush, TypeOK
<1>15. CASE LCRespond
  BY <1>15 DEF Quiet, LCRespond, ForgetResponded, TypeOK
<1>16. CASE Dies
  <2>1. lcQueue' = <<>> /\ Len(lcQueue') = 0
    BY <1>16 DEF Dies, MemoryLost
  <2> QED
    BY <1>16, <2>1, ConstantsAssumption DEF Quiet, Dies, MemoryLost
<1> QED
  BY <1>1, <1>2, <1>3, <1>4, <1>5, <1>6, <1>7, <1>8, <1>9, <1>10, <1>11,
     <1>12, <1>13, <1>14, <1>15, <1>16, Steps
\* LogCenter has applied every recovered record before it reaches a write:
\* the order of its queue keeps RecoverFirst.
LEMMA RecoverFirstStep ==
  ASSUME TypeOK, Quiet, RecoverFirst, [Next]_vars
  PROVE  RecoverFirst'
<1> USE DEF bootVars, clientVars, rcVars, lcVars, idVars, logVars, histVars,
            IsRecover, IsFinish, RecoverPending
<1>1. CASE UNCHANGED <<lcQueue, mToFlushLog, lcPc, rcPairs, rcQueue>>
  BY <1>1 DEF RecoverFirst
<1>2. CASE BootRead
  <2>1. bootRead + 1 \in 1..Len(log) /\ log[bootRead + 1] \in LogRecord
    BY <1>2, ElementOfSeq DEF TypeOK, BootRead
  <2>2. \A j \in 1..Len(lcQueue') : lcQueue'[j].type = "recover"
    <3>1. \A j \in 1..Len(lcQueue) : lcQueue[j].type = "recover"
      BY <1>2 DEF Quiet, BootRead
    <3> QED
      BY <1>2, <2>1, <3>1, LcQueueAppend DEF BootRead
  <2>3. /\ mToFlushLog' = EmptyMap /\ lcPc' = "loop" /\ rcPairs' = {}
        /\ rcQueue' = <<>> /\ Len(rcQueue') = 0
    BY <1>2 DEF Quiet, BootRead
  <2> QED
    BY <2>2, <2>3 DEF RecoverFirst
<1>3. ASSUME NEW c \in Clients, PostKVRequest(c) PROVE RecoverFirst'
  <2>1. /\ Len(rcQueue') = Len(rcQueue) + 1 /\ Len(rcQueue) \in Nat
        /\ \A i \in 1..Len(rcQueue) : rcQueue'[i] = rcQueue[i]
        /\ rcQueue'[Len(rcQueue')].type = "recv"
    BY <1>3, RecvType, RcQueueAppend DEF PostKVRequest
  <2>2. (\E i \in 1..Len(rcQueue') : rcQueue'[i].type = "finish")
           => \E i \in 1..Len(rcQueue) : rcQueue[i].type = "finish"
    BY <2>1
  <2> QED
    BY <1>3, <2>2 DEF RecoverFirst, PostKVRequest
<1>4. CASE RCGet \/ RCNewRequest \/ RCFinish
  <2>1. rcQueue # <<>> /\ rcQueue' = Tail(rcQueue)
    BY <1>4 DEF RCGet, RCNewRequest, RCFinish, RCTakes
  <2>2. (\E i \in 1..Len(rcQueue') : rcQueue'[i].type = "finish")
           => \E i \in 1..Len(rcQueue) : rcQueue[i].type = "finish"
    BY <2>1, RcQueueTail
  <2>3. rcPairs' # {} => rcPairs # {} \/ \E i \in 1..Len(rcQueue) : rcQueue[i].type = "finish"
    BY <1>4, <2>1, RcQueueTail DEF RCGet, RCNewRequest, RCFinish, RCTakes
  <2>4. UNCHANGED <<lcQueue, mToFlushLog, lcPc>>
    BY <1>4 DEF RCGet, RCNewRequest, RCFinish
  <2> QED
    BY <2>2, <2>3, <2>4 DEF RecoverFirst
<1>5. CASE RCAppendLogRecord
  <2>1. rcRecord \in LogRecord /\ lcQueue' = Append(lcQueue, LogCtx("write", rcRecord))
    BY <1>5 DEF TypeOK, RCAppendLogRecord
  <2>2. /\ Len(lcQueue) \in Nat /\ Len(lcQueue') = Len(lcQueue) + 1
        /\ \A j \in 1..Len(lcQueue) : lcQueue'[j] = lcQueue[j]
        /\ lcQueue'[Len(lcQueue')].type = "write"
    BY <2>1, LcQueueAppend
  <2> QED
    BY <1>5, <2>2 DEF RecoverFirst, RCAppendLogRecord
<1>6. ASSUME NEW p \in rcPairs, RCAnswer(p) PROVE RecoverFirst'
  BY <1>6 DEF RecoverFirst, RCAnswer
<1>7. CASE LCRecover
  <2>1. lcQueue # <<>> /\ lcQueue' = Tail(lcQueue)
    BY <1>7 DEF LCRecover, LCTakes
  <2> QED
    BY <1>7, <2>1, LcQueueTail DEF RecoverFirst, LCRecover
<1>8. CASE LCWrite
  <2>1. lcQueue # <<>> /\ lcQueue' = Tail(lcQueue) /\ Head(lcQueue).type = "write"
    BY <1>8 DEF LCWrite, LCTakes
  <2>2. 1 \in 1..Len(lcQueue) /\ lcQueue[1].type # "recover"
    BY <2>1, LcQueueTail
  <2>3. \A j \in 1..Len(lcQueue) : lcQueue[j].type # "recover"
    BY <2>2 DEF RecoverFirst
  <2>4. \A j \in 1..Len(lcQueue') : lcQueue'[j].type # "recover"
    BY <2>1, <2>3, LcQueueTail
  <2> QED
    BY <2>4 DEF RecoverFirst
<1>9. CASE LCFlush
  BY <1>9 DEF RecoverFirst, LCFlush
<1>10. CASE LCRespond
  BY <1>10 DEF RecoverFirst, LCRespond, ForgetResponded
<1>11. CASE Dies
  <2>1. lcQueue' = <<>> /\ Len(lcQueue') = 0
    BY <1>11 DEF Dies, MemoryLost
  <2> QED
    BY <2>1 DEF RecoverFirst
<1> QED
  BY <1>1, <1>2, <1>3, <1>4, <1>5, <1>6, <1>7, <1>8, <1>9, <1>10, <1>11, Steps
     DEF vars, StartProcess, BootSetMaxLogId, BootDone

\* A client is in one place of RequestCenter at a time (EnqueueKVRequest,
\* HandleNewKVRequest, HandleKVResponse): Pipeline is kept.
LEMMA PipelineStep ==
  ASSUME TypeOK, Quiet, Pipeline, [Next]_vars
  PROVE  Pipeline'
<1> USE DEF bootVars, clientVars, rcVars, lcVars, idVars, logVars, histVars,
            IsRecv, Waiting
<1>1. CASE UNCHANGED <<rcQueue, request, mRequests, mRequestID>>
  BY <1>1 DEF Pipeline
<1>2. ASSUME NEW c \in Clients, PostKVRequest(c) PROVE Pipeline'
  <2>1. /\ Len(rcQueue') = Len(rcQueue) + 1 /\ Len(rcQueue) \in Nat
        /\ \A i \in 1..Len(rcQueue) : rcQueue'[i] = rcQueue[i]
        /\ rcQueue'[Len(rcQueue')].type = "recv"
        /\ rcQueue'[Len(rcQueue')].client = c
    BY <1>2, RecvType, RcQueueAppend DEF PostKVRequest
  <2>2. request[c] = NoRequest /\ UNCHANGED <<mRequests, mRequestID>>
    BY <1>2 DEF PostKVRequest, MayPost, Waiting
  <2>3. /\ request'[c] # NoRequest
        /\ \A d \in Clients : d # c => request'[d] = request[d]
    <3>1. PICK op \in Menu[c] : request' = [request EXCEPT ![c] = [op |-> op, tag |-> posted + 1]]
      BY <1>2 DEF PostKVRequest
    <3>2. op \in Op
      BY <3>1, ConstantsAssumption
    <3>3. [op |-> op, tag |-> posted + 1] \in Request
      BY <3>2 DEF TypeOK, Request
    <3> QED
      BY <3>1, <3>3, ConstantsAssumption DEF TypeOK
  <2>4. /\ \A i \in 1..Len(rcQueue) : rcQueue[i].type = "recv" =>
              rcQueue[i].client \in Clients /\ rcQueue[i].client # c
        /\ \A n \in DOMAIN mRequests : mRequests[n] # c /\ mRequests[n] \in Clients
    <3>1. \A i \in 1..Len(rcQueue) : rcQueue[i] \in RCCtx
      BY ElementOfSeq DEF TypeOK
    <3> QED
      BY <2>2, <3>1 DEF Pipeline, TypeOK, RCCtx
  <2>5. \A n \in DOMAIN mRequests' : n \in 1..mRequestID' /\ request'[mRequests'[n]] # NoRequest
    BY <2>2, <2>3, <2>4 DEF Pipeline
  <2>6. \A i \in 1..Len(rcQueue') : rcQueue'[i].type = "recv" =>
           /\ request'[rcQueue'[i].client] # NoRequest
           /\ \A n \in DOMAIN mRequests' : mRequests'[n] # rcQueue'[i].client
    BY <2>1, <2>2, <2>3, <2>4 DEF Pipeline
  <2>7. \A i, j \in 1..Len(rcQueue') :
           rcQueue'[i].type = "recv" /\ rcQueue'[j].type = "recv"
           /\ rcQueue'[i].client = rcQueue'[j].client => i = j
    BY <2>1, <2>4 DEF Pipeline
  <2> QED
    BY <2>2, <2>5, <2>6, <2>7 DEF Pipeline
<1>3. CASE RCGet
  <2>1. /\ rcQueue # <<>> /\ rcQueue' = Tail(rcQueue)
        /\ RCClient \in Clients /\ RCClient = rcQueue[1].client /\ rcQueue[1].type = "recv"
        /\ request' = [request EXCEPT ![RCClient] = NoRequest]
        /\ UNCHANGED <<mRequests, mRequestID>>
    BY <1>3, TakesRecv DEF RCGet, RCTakes, Answer
  <2>2. \A i \in 1..Len(rcQueue') : rcQueue'[i].type = "recv" => rcQueue'[i].client # RCClient
    BY <2>1, RcQueueTail DEF Pipeline
  <2>3. \A n \in DOMAIN mRequests : mRequests[n] # RCClient
    BY <2>1, RcQueueTail DEF Pipeline
  <2>4. \A i \in 1..Len(rcQueue) : rcQueue[i].type = "recv" => rcQueue[i].client \in Clients
    <3>1. \A i \in 1..Len(rcQueue) : rcQueue[i] \in RCCtx
      BY ElementOfSeq DEF TypeOK
    <3> QED
      BY <3>1 DEF RCCtx
  <2>5. \A d \in Clients : d # RCClient => request'[d] = request[d]
    BY <2>1 DEF TypeOK
  <2>6. \A n \in DOMAIN mRequests : mRequests[n] \in Clients
    BY DEF TypeOK
  <2>7. \A n \in DOMAIN mRequests' : n \in 1..mRequestID' /\ request'[mRequests'[n]] # NoRequest
    BY <2>1, <2>3, <2>5, <2>6 DEF Pipeline
  <2>8. \A i \in 1..Len(rcQueue') : rcQueue'[i].type = "recv" =>
           /\ request'[rcQueue'[i].client] # NoRequest
           /\ \A n \in DOMAIN mRequests' : mRequests'[n] # rcQueue'[i].client
    BY <2>1, <2>2, <2>4, <2>5, RcQueueTail DEF Pipeline
  <2>9. \A i, j \in 1..Len(rcQueue') :
           rcQueue'[i].type = "recv" /\ rcQueue'[j].type = "recv"
           /\ rcQueue'[i].client = rcQueue'[j].client => i = j
    BY <2>1, RcQueueTail DEF Pipeline
  <2> QED
    BY <2>1, <2>7, <2>8, <2>9 DEF Pipeline
<1>4. CASE RCNewRequest
  <2>1. /\ rcQueue # <<>> /\ rcQueue' = Tail(rcQueue)
        /\ RCClient \in Clients /\ RCClient = rcQueue[1].client /\ rcQueue[1].type = "recv"
        /\ mRequestID' = mRequestID + 1 /\ mRequestID \in Nat
        /\ mRequests' = MapInsert(mRequests, mRequestID + 1, RCClient)
        /\ UNCHANGED request
    BY <1>4, TakesRecv DEF RCNewRequest, RCTakes, TypeOK
  <2>2. \A i \in 1..Len(rcQueue') : rcQueue'[i].type = "recv" => rcQueue'[i].client # RCClient
    BY <2>1, RcQueueTail DEF Pipeline
  <2>3. Waiting(RCClient) /\ \A n \in DOMAIN mRequests : mRequests[n] # RCClient
    BY <2>1, RcQueueTail DEF Pipeline
  <2>4. mRequestID + 1 \notin DOMAIN mRequests
    BY <2>1 DEF Pipeline
  <2>5. /\ DOMAIN mRequests' = DOMAIN mRequests \cup {mRequestID + 1}
        /\ \A n \in DOMAIN mRequests : mRequests'[n] = mRequests[n]
        /\ mRequests'[mRequestID + 1] = RCClient
    BY <2>1, <2>4 DEF MapInsert
  <2>6. \A n \in DOMAIN mRequests' : n \in 1..mRequestID' /\ request'[mRequests'[n]] # NoRequest
    BY <2>1, <2>3, <2>5 DEF Pipeline
  <2>7. \A i \in 1..Len(rcQueue') : rcQueue'[i].type = "recv" =>
           /\ request'[rcQueue'[i].client] # NoRequest
           /\ \A n \in DOMAIN mRequests' : mRequests'[n] # rcQueue'[i].client
    BY <2>1, <2>2, <2>5, RcQueueTail DEF Pipeline
  <2>8. \A i, j \in 1..Len(rcQueue') :
           rcQueue'[i].type = "recv" /\ rcQueue'[j].type = "recv"
           /\ rcQueue'[i].client = rcQueue'[j].client => i = j
    BY <2>1, RcQueueTail DEF Pipeline
  <2>9. \A m, n \in DOMAIN mRequests' : mRequests'[m] = mRequests'[n] => m = n
    BY <2>3, <2>5 DEF Pipeline
  <2> QED
    BY <2>6, <2>7, <2>8, <2>9 DEF Pipeline
<1>5. CASE RCFinish
  <2>1. /\ rcQueue # <<>> /\ rcQueue' = Tail(rcQueue)
        /\ UNCHANGED <<request, mRequests, mRequestID>>
    BY <1>5 DEF RCFinish, RCTakes
  <2> QED
    BY <2>1, RcQueueTail DEF Pipeline
<1>6. ASSUME NEW p \in rcPairs, RCAnswer(p) PROVE Pipeline'
  <2> DEFINE c == mRequests[p.id]
  <2>1. /\ p.id \in DOMAIN mRequests /\ c \in Clients
        /\ request' = [request EXCEPT ![c] = NoRequest]
        /\ mRequests' = [i \in DOMAIN mRequests \ {p.id} |-> mRequests[i]]
        /\ UNCHANGED <<rcQueue, mRequestID>>
    BY <1>6, AnswersClient DEF RCAnswer, Answer
  <2>2. \A n \in DOMAIN mRequests' : mRequests'[n] # c
    BY <2>1 DEF Pipeline
  <2>3. \A i \in 1..Len(rcQueue) : rcQueue[i].type = "recv" => rcQueue[i].client # c
    BY <2>1 DEF Pipeline
  <2>4. \A i \in 1..Len(rcQueue) : rcQueue[i].type = "recv" => rcQueue[i].client \in Clients
    <3>1. \A i \in 1..Len(rcQueue) : rcQueue[i] \in RCCtx
      BY ElementOfSeq DEF TypeOK
    <3> QED
      BY <3>1 DEF RCCtx
  <2>5. \A d \in Clients : d # c => request'[d] = request[d]
    BY <2>1 DEF TypeOK
  <2>6. \A n \in DOMAIN mRequests : mRequests[n] \in Clients
    BY DEF TypeOK
  <2> HIDE DEF c
  <2>7. \A n \in DOMAIN mRequests' : n \in DOMAIN mRequests /\ mRequests'[n] = mRequests[n]
    BY <2>1
  <2>8. \A n \in DOMAIN mRequests' : n \in 1..mRequestID' /\ request'[mRequests'[n]] # NoRequest
    <3> SUFFICES ASSUME NEW n \in DOMAIN mRequests'
                 PROVE  n \in 1..mRequestID' /\ request'[mRequests'[n]] # NoRequest
      OBVIOUS
    <3>1. n \in DOMAIN mRequests /\ mRequests'[n] = mRequests[n] /\ mRequests[n] # c
      BY <2>2, <2>7
    <3>2. n \in 1..mRequestID /\ request[mRequests[n]] # NoRequest
      BY <3>1 DEF Pipeline
    <3> QED
      BY <2>1, <2>5, <2>6, <3>1, <3>2
  <2>9. \A i \in 1..Len(rcQueue') : rcQueue'[i].type = "recv" =>
           /\ request'[rcQueue'[i].client] # NoRequest
           /\ \A n \in DOMAIN mRequests' : mRequests'[n] # rcQueue'[i].client
    BY <2>1, <2>3, <2>4, <2>5, <2>7 DEF Pipeline
  <2>10. /\ \A i, j \in 1..Len(rcQueue') :
              rcQueue'[i].type = "recv" /\ rcQueue'[j].type = "recv"
              /\ rcQueue'[i].client = rcQueue'[j].client => i = j
         /\ \A m, n \in DOMAIN mRequests' : mRequests'[m] = mRequests'[n] => m = n
    BY <2>1, <2>7 DEF Pipeline
  <2> QED
    BY <2>8, <2>9, <2>10 DEF Pipeline
<1>7. CASE LCRespond
  <2>1. PICK e \in RCCtx : e.type = "finish" /\ rcQueue' = Append(rcQueue, e)
    BY <1>7, RespondPairs
  <2>2. /\ Len(rcQueue) \in Nat /\ Len(rcQueue') = Len(rcQueue) + 1
        /\ \A i \in 1..Len(rcQueue) : rcQueue'[i] = rcQueue[i]
        /\ rcQueue'[Len(rcQueue')].type = "finish"
    BY <2>1, RcQueueAppend
  <2>3. UNCHANGED <<request, mRequests, mRequestID>>
    BY <1>7 DEF LCRespond, ForgetResponded
  <2> QED
    BY <2>2, <2>3 DEF Pipeline
<1>8. CASE Dies
  <2>1. rcQueue' = <<>> /\ Len(rcQueue') = 0 /\ DOMAIN mRequests' = {}
    BY <1>8, EmptyMapDomain DEF Dies, MemoryLost
  <2> QED
    BY <2>1 DEF Pipeline
<1> QED
  BY <1>1, <1>2, <1>3, <1>4, <1>5, <1>6, <1>7, <1>8, Steps
     DEF vars, StartProcess, BootRead, BootSetMaxLogId, BootDone,
         RCAppendLogRecord, LCRecover, LCWrite, LCFlush
-----------------------------------------------------------------------------
(***************************************************************************)
(* Backed and VisibleIsDurable.                                            *)
(***************************************************************************)
\* No step takes a flushed record back.
LEMMA LogKeptStep ==
  ASSUME TypeOK, [Next]_vars
  PROVE  LogKept
<1> USE DEF bootVars, clientVars, rcVars, lcVars, idVars, logVars, histVars
<1>1. CASE UNCHANGED <<log, flushed>>
  BY <1>1 DEF LogKept, TypeOK
<1>2. CASE LCWrite
  <2>1. Head(lcQueue) \in LCCtx
    BY <1>2, QueueTail DEF TypeOK, LCWrite, LCTakes
  <2>2. LCRecord \in LogRecord
    BY <2>1 DEF LCRecord, LCCtx
  <2> QED
    BY <1>2, <2>2, LogAppendKept DEF LCWrite, NeedOpenNewLogFile
<1>3. CASE LCFlush
  BY <1>3, LogFlushKept DEF LCFlush
<1>4. CASE Dies
  BY <1>4 DEF Dies
<1> QED
  BY <1>1, <1>2, <1>3, <1>4, Steps
     DEF vars, StartProcess, BootRead, BootSetMaxLogId, BootDone, PostKVRequest,
         RCGet, RCNewRequest, RCAppendLogRecord, RCFinish, RCAnswer, LCRecover, LCRespond, ForgetResponded

\* Logged(r)' and Flushed(r)', for an r that may itself be primed.
LoggedNext(r)  == \E i \in 1..Len(log') : log'[i] = r
FlushedNext(r) == \E i \in 1..flushed' : log'[i] = r

\* A record that was flushed stays flushed, whatever the step.
LEMMA FlushedKept ==
  ASSUME TypeOK, LogKept, NEW r, Flushed(r)
  PROVE  FlushedNext(r)
<1>1. PICK i \in 1..flushed : log[i] = r
  BY DEF Flushed
<1>2. flushed \in Nat /\ flushed' \in Nat /\ flushed <= flushed'
  BY DEF TypeOK, LogKept
<1>3. log'[i] = r /\ i \in 1..flushed'
  BY <1>1, <1>2 DEF LogKept
<1> QED
  BY <1>3 DEF FlushedNext

\* What is reported to RequestCenter was flushed before (Idle): Backed is kept.
LEMMA BackedStep ==
  ASSUME TypeOK, Quiet, RecoverFirst, Backed, [Next]_vars
  PROVE  Backed'
<1> USE DEF bootVars, clientVars, rcVars, lcVars, idVars, logVars, histVars,
            IsFinish, IsRecover
<1>0. LogKept /\ \A r : Flushed(r) => FlushedNext(r)
  BY LogKeptStep, FlushedKept
<1>1. CASE UNCHANGED <<log, flushed, mToFlushLog, lcPc, rcQueue, rcPairs, lcQueue>>
  BY <1>1 DEF Backed, Logged, Flushed, LoggedNext, FlushedNext
<1>2. CASE BootRead
  <2>1. /\ bootRead + 1 \in 1..Len(log) /\ log[bootRead + 1] \in LogRecord
        /\ flushed = Len(log)
    BY <1>2, ElementOfSeq DEF TypeOK, BootRead, Quiet
  <2>2. Flushed(log[bootRead + 1])
    BY <2>1 DEF Flushed
  <2>3. \A j \in 1..Len(lcQueue') : lcQueue'[j].type = "recover" => FlushedNext(lcQueue'[j].record)
    <3>1. lcQueue' = Append(lcQueue, LogCtx("recover", log[bootRead + 1]))
      BY <1>2 DEF BootRead
    <3> QED
      BY <1>0, <2>1, <2>2, <3>1, LcQueueAppend DEF Backed
  <2>4. UNCHANGED <<log, flushed, mToFlushLog, lcPc, rcQueue, rcPairs>>
    BY <1>2 DEF BootRead
  <2> QED
    BY <2>3, <2>4 DEF Backed, Logged, Flushed, LoggedNext, FlushedNext
<1>3. ASSUME NEW c \in Clients, PostKVRequest(c) PROVE Backed'
  <2>1. /\ Len(rcQueue') = Len(rcQueue) + 1 /\ Len(rcQueue) \in Nat
        /\ \A i \in 1..Len(rcQueue) : rcQueue'[i] = rcQueue[i]
        /\ rcQueue'[Len(rcQueue')].type = "recv"
    BY <1>3, RecvType, RcQueueAppend DEF PostKVRequest
  <2>2. UNCHANGED <<log, flushed, mToFlushLog, lcPc, rcPairs, lcQueue>>
    BY <1>3 DEF PostKVRequest
  <2> QED
    BY <2>1, <2>2 DEF Backed, Logged, Flushed, LoggedNext, FlushedNext
<1>4. CASE RCGet \/ RCNewRequest \/ RCFinish
  <2>1. rcQueue # <<>> /\ rcQueue' = Tail(rcQueue)
    BY <1>4 DEF RCGet, RCNewRequest, RCFinish, RCTakes
  <2>2. UNCHANGED <<log, flushed, mToFlushLog, lcPc, lcQueue>>
    BY <1>4 DEF RCGet, RCNewRequest, RCFinish
  <2>3. \A p \in rcPairs' : Flushed(p.record)
    <3>1. CASE rcPairs' = rcPairs
      BY <3>1 DEF Backed
    <3>2. CASE RCFinish
      <4>1. rcPairs' = rcQueue[1].pairs /\ rcQueue[1].type = "finish" /\ 1 \in 1..Len(rcQueue)
        BY <2>1, <3>2, RcQueueTail DEF RCFinish, RCTakes
      <4> QED
        BY <4>1 DEF Backed
    <3> QED
      BY <1>4, <3>1, <3>2 DEF RCGet, RCNewRequest
  <2>4. \A i \in 1..Len(rcQueue') :
           rcQueue'[i].type = "finish" => \A p \in rcQueue'[i].pairs : Flushed(p.record)
    BY <2>1, RcQueueTail DEF Backed
  <2> QED
    BY <2>2, <2>3, <2>4 DEF Backed, Logged, Flushed, LoggedNext, FlushedNext
<1>5. CASE RCAppendLogRecord
  <2>1. rcRecord \in LogRecord /\ lcQueue' = Append(lcQueue, LogCtx("write", rcRecord))
    BY <1>5 DEF TypeOK, RCAppendLogRecord
  <2>2. /\ Len(lcQueue) \in Nat /\ Len(lcQueue') = Len(lcQueue) + 1
        /\ \A j \in 1..Len(lcQueue) : lcQueue'[j] = lcQueue[j]
        /\ lcQueue'[Len(lcQueue')].type = "write"
    BY <2>1, LcQueueAppend
  <2>3. UNCHANGED <<log, flushed, mToFlushLog, lcPc, rcQueue, rcPairs>>
    BY <1>5 DEF RCAppendLogRecord
  <2> QED
    BY <2>2, <2>3 DEF Backed, Logged, Flushed, LoggedNext, FlushedNext
<1>6. ASSUME NEW p \in rcPairs, RCAnswer(p) PROVE Backed'
  BY <1>6 DEF RCAnswer, Backed, Logged, Flushed
<1>7. CASE LCRecover
  <2>1. lcQueue # <<>> /\ lcQueue' = Tail(lcQueue)
    BY <1>7 DEF LCRecover, LCTakes
  <2>2. UNCHANGED <<log, flushed, mToFlushLog, lcPc, rcQueue, rcPairs>>
    BY <1>7 DEF LCRecover
  <2> QED
    BY <2>1, <2>2, LcQueueTail DEF Backed, Logged, Flushed, LoggedNext, FlushedNext
<1>8. CASE LCWrite
  <2> DEFINE r == LCRecord
  <2>1. /\ lcQueue # <<>> /\ lcQueue' = Tail(lcQueue)
        /\ UNCHANGED <<rcQueue, rcPairs>> /\ lcPc' # "respond"
        /\ mToFlushLog' = MapInsert(mToFlushLog, r.logId, r)
    BY <1>8 DEF LCWrite, LCTakes
  <2>2. r \in LogRecord
    BY <2>1, LcQueueTail DEF LCRecord, LCCtx
  <2>3. /\ Len(log') = Len(log) + 1 /\ log'[Len(log')] = r
        /\ \A i \in 1..Len(log) : log'[i] = log[i]
    BY <1>8, <2>2, LogAppendKept DEF LCWrite, NeedOpenNewLogFile
  <2> Len(log) \in Nat
    BY DEF TypeOK
  <2>4. \A k \in DOMAIN mToFlushLog' :
           \/ mToFlushLog'[k] = r
           \/ k \in DOMAIN mToFlushLog /\ mToFlushLog'[k] = mToFlushLog[k]
    <3> HIDE DEF r
    <3>1. mToFlushLog' = [k \in DOMAIN mToFlushLog \cup {r.logId} |->
                            IF k \in DOMAIN mToFlushLog THEN mToFlushLog[k] ELSE r]
      BY <2>1 DEF MapInsert
    <3> QED
      BY <3>1
  <2>5. \A k \in DOMAIN mToFlushLog' : LoggedNext(mToFlushLog'[k])
    BY <2>3, <2>4 DEF Backed, Logged, LoggedNext
  <2>6. \A j \in 1..Len(lcQueue') : lcQueue'[j].type = "recover" => FlushedNext(lcQueue'[j].record)
    BY <1>0, <2>1, LcQueueTail DEF Backed
  <2>7. /\ \A p \in rcPairs' : FlushedNext(p.record)
        /\ \A i \in 1..Len(rcQueue') :
             rcQueue'[i].type = "finish" => \A p \in rcQueue'[i].pairs : FlushedNext(p.record)
    BY <1>0, <2>1 DEF Backed
  <2> QED
    BY <2>1, <2>5, <2>6, <2>7 DEF Backed, Logged, Flushed, LoggedNext, FlushedNext
<1>9. CASE LCFlush
  <2>1. /\ flushed' = Len(log) /\ log' = log
        /\ UNCHANGED <<mToFlushLog, rcQueue, rcPairs, lcQueue>>
    BY <1>9, LogFlushKept DEF LCFlush
  <2>2. \A k \in DOMAIN mToFlushLog' : LoggedNext(mToFlushLog'[k]) /\ FlushedNext(mToFlushLog'[k])
    BY <2>1 DEF Backed, Logged, Flushed, LoggedNext, FlushedNext
  <2> QED
    BY <1>0, <2>1, <2>2 DEF Backed, Logged, Flushed, LoggedNext, FlushedNext
<1>10. CASE LCRespond
  <2>1. PICK e \in RCCtx :
           /\ e.type = "finish"
           /\ e.pairs = {[id |-> mLogId2RequestId[i], record |-> mToFlushLog[i]] : i \in DOMAIN mToFlushLog}
           /\ rcQueue' = Append(rcQueue, e)
    BY <1>10, RespondPairs
  <2>2. \A p \in e.pairs : Flushed(p.record)
    BY <1>10, <2>1 DEF LCRespond, ForgetResponded, Backed
  <2>3. /\ UNCHANGED <<log, flushed, rcPairs, lcQueue>>
        /\ DOMAIN mToFlushLog' = {}
    BY <1>10, EmptyMapDomain DEF LCRespond, ForgetResponded
  <2>4. \A i \in 1..Len(rcQueue') :
          rcQueue'[i].type = "finish" => \A p \in rcQueue'[i].pairs : Flushed(p.record)
    BY <2>1, <2>2, RcQueueAppend DEF Backed
  <2> QED
    BY <2>3, <2>4 DEF Backed, Logged, Flushed, LoggedNext, FlushedNext
<1>11. CASE Dies
  <2>1. /\ rcQueue' = <<>> /\ Len(rcQueue') = 0 /\ lcQueue' = <<>> /\ Len(lcQueue') = 0
        /\ rcPairs' = {} /\ DOMAIN mToFlushLog' = {}
    BY <1>11, EmptyMapDomain DEF Dies, MemoryLost
  <2> QED
    BY <2>1 DEF Backed
<1> QED
  BY <1>1, <1>2, <1>3, <1>4, <1>5, <1>6, <1>7, <1>8, <1>9, <1>10, <1>11, Steps
     DEF vars, StartProcess, BootSetMaxLogId, BootDone

\* What is flushed stays where it is.
LEMMA FlushedStays ==
  ASSUME TypeOK, [Next]_vars
  PROVE  \A i \in 1..flushed : i \in 1..flushed' /\ log'[i] = log[i]
<1>1. LogKept
  BY LogKeptStep
<1>2. /\ flushed \in Nat /\ log' \in Seq(LogRecord) /\ flushed' \in 0..Len(log') /\ flushed <= flushed'
      /\ \A i \in 1..flushed : log'[i] = log[i]
  BY <1>1, LogTypes DEF LogKept
<1> QED
  BY ONLY <1>2

\* The store changes with a record that has been flushed, or is emptied.
LEMMA VisibleIsDurableStep ==
  ASSUME TypeOK, Quiet, Backed, VisibleIsDurable, [Next]_vars
  PROVE  VisibleIsDurable'
<1> USE DEF bootVars, clientVars, rcVars, lcVars, idVars, logVars, histVars
<1>0. \A i \in 1..flushed : i \in 1..flushed' /\ log'[i] = log[i]
  BY FlushedStays
<1>1. CASE dataStore' = dataStore
  <2> SUFFICES ASSUME NEW t \in Tables, Exists(dataStore, t),
                      NEW k \in Keys, Holds(dataStore[t], k)
               PROVE  \E i \in 1..flushed' :
                        /\ log'[i].op.type \in {"put", "add"}
                        /\ log'[i].op.table = t /\ log'[i].op.key = k
                        /\ log'[i].op.value = dataStore[t][k]
    BY <1>1 DEF VisibleIsDurable, Exists, Holds
  <2>1. PICK i \in 1..flushed : /\ log[i].op.type \in {"put", "add"}
                                /\ log[i].op.table = t /\ log[i].op.key = k
                                /\ log[i].op.value = dataStore[t][k]
    BY DEF VisibleIsDurable
  <2> QED
    BY <1>0, <2>1
<1>2. ASSUME NEW r \in LogRecord, Flushed(r),
             dataStore' = UpdateDataStore(dataStore, r.op).store
      PROVE  VisibleIsDurable'
  <2> SUFFICES ASSUME NEW t \in Tables, Exists(dataStore', t),
                      NEW k \in Keys, Holds(dataStore'[t], k)
               PROVE  \E i \in 1..flushed' :
                        /\ log'[i].op.type \in {"put", "add"}
                        /\ log'[i].op.table = t /\ log'[i].op.key = k
                        /\ log'[i].op.value = dataStore'[t][k]
    BY DEF VisibleIsDurable, Exists, Holds
  <2>1. r.op \in Op /\ dataStore \in Store
    BY DEF LogRecord, TypeOK
  <2>2. CASE Exists(dataStore, t) /\ Holds(dataStore[t], k) /\ dataStore[t][k] = dataStore'[t][k]
    <3>1. PICK i \in 1..flushed : /\ log[i].op.type \in {"put", "add"}
                                  /\ log[i].op.table = t /\ log[i].op.key = k
                                  /\ log[i].op.value = dataStore[t][k]
      BY <2>2 DEF VisibleIsDurable
    <3> QED
      BY <1>0, <2>2, <3>1
  <2>3. CASE r.op.type \in {"put", "add"} /\ r.op.table = t /\ r.op.key = k
             /\ r.op.value = dataStore'[t][k]
    BY <1>0, <1>2, <2>3 DEF Flushed
  <2> QED
    BY <1>2, <2>1, <2>2, <2>3, UpdateDataStoreValue
<1>3. ASSUME NEW p \in rcPairs, RCAnswer(p) PROVE VisibleIsDurable'
  <2>1. p.record \in LogRecord /\ Flushed(p.record)
    BY DEF Backed, TypeOK, Pair
  <2> QED
    BY <1>2, <1>3, <2>1 DEF RCAnswer
<1>4. CASE LCRecover
  <2>1. /\ 1 \in 1..Len(lcQueue) /\ Head(lcQueue) = lcQueue[1] /\ lcQueue[1] \in LCCtx
        /\ lcQueue[1].type = "recover"
    BY <1>4, LcQueueTail DEF LCRecover, LCTakes
  <2>2. LCRecord \in LogRecord /\ Flushed(LCRecord)
    BY <2>1 DEF Backed, IsRecover, LCRecord, LCCtx
  <2> QED
    BY <1>2, <1>4, <2>2 DEF LCRecover
<1>5. CASE Dies
  BY <1>5 DEF Dies, MemoryLost, VisibleIsDurable, Exists, EmptyStore
<1> QED
  BY <1>1, <1>3, <1>4, <1>5, Steps
     DEF vars, StartProcess, BootRead, BootSetMaxLogId, BootDone, PostKVRequest,
         RCGet, RCNewRequest, RCAppendLogRecord, RCFinish, LCWrite, LCFlush, LCRespond, ForgetResponded
-----------------------------------------------------------------------------
(***************************************************************************)
(* WrappedIds, Index, Indexed, Reported.                                   *)
(***************************************************************************)
\* The record ReceiveClientRequest builds.
LEMMA NewRecord ==
  ASSUME TypeOK, Pipeline, RCNewRequest
  PROVE  /\ rcRecord = NoRecord /\ rcPairs = {}
         /\ rcRecord' \in LogRecord /\ rcRecord' # NoRecord
         /\ rcRecord'.logId = (mMaxLogId + 1) % LogIdSpace
         /\ request[RCClient] = [op |-> rcRecord'.op, tag |-> rcRecord'.tag]
<1>1. RCClient \in Clients /\ request[RCClient] \in Request
  BY TakesRecv DEF RCNewRequest
<1>2. (mMaxLogId + 1) % LogIdSpace \in LogId
  BY ConstantsAssumption DEF TypeOK, LogId
<1>3. rcRecord' = [logId |-> (mMaxLogId + 1) % LogIdSpace,
                   op |-> request[RCClient].op, tag |-> request[RCClient].tag]
  BY DEF RCNewRequest, GenerateLogId, LogIdBits
<1>4. rcRecord' \in LogRecord
  BY <1>1, <1>2, <1>3 DEF LogRecord, Request
<1> QED
  BY <1>1, <1>3, <1>4, ConstantsAssumption DEF Request, RCNewRequest, RCTakes, RCIdle

\* An id below 2^32 is not cut.
LEMMA SmallMod == ASSUME NEW a \in Nat, NEW b \in Nat, a < b PROVE a % b = a
OBVIOUS

ZeroQueued == \E j \in 1..Len(lcQueue) : IsWrite(j) /\ lcQueue[j].record.logId = 0

\* A zero log id is somewhere in LogCenter exactly when 32 bits have become
\* too few for the ids given out: WrappedIds is kept.
LEMMA WrappedIdsStep ==
  ASSUME TypeOK, Quiet, Pipeline, WrappedIds, Index, [Next]_vars
  PROVE  WrappedIds'
<1> USE DEF bootVars, clientVars, rcVars, lcVars, idVars, logVars, histVars, IsWrite
<1>0. LogIdSpace \in Nat \ {0} /\ mMaxLogId \in Nat
  BY ConstantsAssumption DEF TypeOK
<1>a. (mMaxLogId >= LogIdSpace) <=>
        (0 \in DOMAIN mToFlushLog \/ ZeroQueued \/ (rcRecord # NoRecord /\ rcRecord.logId = 0))
  BY DEF WrappedIds, ZeroQueued
<1>b. SUFFICES (mMaxLogId' >= LogIdSpace) <=>
        (0 \in DOMAIN mToFlushLog' \/ ZeroQueued' \/ (rcRecord' # NoRecord /\ rcRecord'.logId = 0))
  BY DEF WrappedIds, ZeroQueued
<1>1. CASE UNCHANGED <<mMaxLogId, mToFlushLog, lcQueue, rcRecord>>
  BY <1>1, <1>a DEF ZeroQueued
<1>2. CASE BootRead \/ BootSetMaxLogId \/ Dies
  <2>1. proc' # "up"
    BY <1>2 DEF BootRead, BootSetMaxLogId, Dies, MemoryLost
  <2>2. Quiet' /\ TypeOK'
    BY QuietStep, TypeStep
  <2>3. mMaxLogId' < LogIdSpace /\ mMaxLogId' \in Nat
    BY <2>1, <2>2 DEF Quiet, TypeOK
  <2>4. /\ DOMAIN mToFlushLog' = {} /\ rcRecord' = NoRecord
        /\ \A j \in 1..Len(lcQueue') : lcQueue'[j].type = "recover"
    BY <2>1, <2>2, EmptyMapDomain DEF Quiet, IsRecover
  <2>5. ~ZeroQueued'
    BY <2>4 DEF ZeroQueued
  <2> QED
    BY <1>0, <2>3, <2>4, <2>5
<1>3. CASE RCNewRequest
  <2>1. mMaxLogId' = mMaxLogId + 1 /\ UNCHANGED <<mToFlushLog, lcQueue>>
    BY <1>3 DEF RCNewRequest, GenerateLogId
  <2>2. ZeroQueued' <=> ZeroQueued
    BY <2>1 DEF ZeroQueued
  <2>3. /\ rcRecord = NoRecord /\ rcRecord' # NoRecord
        /\ rcRecord'.logId = (mMaxLogId + 1) % LogIdSpace
    BY <1>3, NewRecord
  <2>4. CASE mMaxLogId >= LogIdSpace
    BY <1>0, <1>a, <2>1, <2>2, <2>3, <2>4
  <2>5. CASE mMaxLogId + 1 = LogIdSpace
    <3>1. (mMaxLogId + 1) % LogIdSpace = 0
      BY <1>0, <2>5
    <3> QED
      BY <1>0, <2>1, <2>3, <2>5, <3>1
  <2>6. CASE mMaxLogId + 1 < LogIdSpace
    <3>1. (mMaxLogId + 1) % LogIdSpace = mMaxLogId + 1
      BY <1>0, <2>6, SmallMod
    <3>2. mMaxLogId + 1 # 0
      BY <1>0
    <3> QED
      BY <1>0, <1>a, <2>1, <2>2, <2>3, <2>6, <3>1, <3>2
  <2> QED
    BY <1>0, <2>4, <2>5, <2>6
<1>4. CASE RCAppendLogRecord
  <2>1. rcRecord \in LogRecord /\ lcQueue' = Append(lcQueue, LogCtx("write", rcRecord))
    BY <1>4 DEF TypeOK, RCAppendLogRecord
  <2>2. /\ Len(lcQueue) \in Nat /\ Len(lcQueue') = Len(lcQueue) + 1
        /\ \A j \in 1..Len(lcQueue) : lcQueue'[j] = lcQueue[j]
        /\ lcQueue'[Len(lcQueue')].type = "write"
        /\ lcQueue'[Len(lcQueue')].record = rcRecord
    BY <2>1, LcQueueAppend
  <2>3. ZeroQueued' <=> (ZeroQueued \/ rcRecord.logId = 0)
    BY <2>2 DEF ZeroQueued
  <2>4. UNCHANGED <<mMaxLogId, mToFlushLog>> /\ rcRecord # NoRecord /\ rcRecord' = NoRecord
    BY <1>4 DEF RCAppendLogRecord
  <2> QED
    BY <1>a, <2>3, <2>4
<1>5. CASE LCRecover
  <2>1. lcQueue # <<>> /\ lcQueue' = Tail(lcQueue) /\ Head(lcQueue).type = "recover"
    BY <1>5 DEF LCRecover, LCTakes
  <2>2. UNCHANGED <<mMaxLogId, mToFlushLog, rcRecord>>
    BY <1>5 DEF LCRecover
  <2>3. /\ \A j \in 1..Len(lcQueue) : lcQueue[j].type = "write" =>
           j - 1 \in 1..Len(lcQueue') /\ lcQueue'[j - 1] = lcQueue[j]
        /\ \A j \in 1..Len(lcQueue') : lcQueue'[j] = lcQueue[j + 1] /\ j + 1 \in 1..Len(lcQueue)
    <3>1. /\ Len(lcQueue) \in Nat \ {0} /\ Len(lcQueue') = Len(lcQueue) - 1
          /\ lcQueue[1].type = "recover"
          /\ \A j \in 1..Len(lcQueue') : lcQueue'[j] = lcQueue[j + 1] /\ j + 1 \in 1..Len(lcQueue)
      BY <2>1, LcQueueTail
    <3>2. ASSUME NEW j \in 1..Len(lcQueue), lcQueue[j].type = "write"
          PROVE  j - 1 \in 1..Len(lcQueue') /\ lcQueue'[j - 1] = lcQueue[j]
      <4>1. j # 1
        BY <3>1, <3>2
      <4>2. j - 1 \in 1..Len(lcQueue') /\ (j - 1) + 1 = j
        BY <3>1, <3>2, <4>1
      <4> QED
        BY <3>1, <4>2, Zenon
    <3> QED
      BY <3>1, <3>2
  <2>4. ZeroQueued' => ZeroQueued
    BY <2>3 DEF ZeroQueued, IsWrite
  <2>5. ZeroQueued => ZeroQueued'
    BY <2>3 DEF ZeroQueued, IsWrite
  <2> QED
    BY <1>a, <2>2, <2>4, <2>5
<1>6. CASE LCWrite
  <2>1. /\ lcQueue # <<>> /\ lcQueue' = Tail(lcQueue) /\ Head(lcQueue).type = "write"
        /\ UNCHANGED <<mMaxLogId, rcRecord>>
        /\ DOMAIN mToFlushLog' = DOMAIN mToFlushLog \cup {LCRecord.logId}
    BY <1>6 DEF LCWrite, LCTakes, MapInsert
  <2>2. LCRecord = lcQueue[1].record /\ 1 \in 1..Len(lcQueue) /\ lcQueue[1].type = "write"
    BY <2>1, LcQueueTail DEF LCRecord
  <2>3. /\ \A j \in 1..Len(lcQueue) : j # 1 =>
           j - 1 \in 1..Len(lcQueue') /\ lcQueue'[j - 1] = lcQueue[j]
        /\ \A j \in 1..Len(lcQueue') : lcQueue'[j] = lcQueue[j + 1] /\ j + 1 \in 1..Len(lcQueue)
    BY <2>1, LcQueueTail
  <2>4. ZeroQueued => (ZeroQueued' \/ LCRecord.logId = 0)
    BY <2>2, <2>3 DEF ZeroQueued, IsWrite
  <2>5. (ZeroQueued' \/ LCRecord.logId = 0) => ZeroQueued
    <3>1. ASSUME LCRecord.logId = 0 PROVE ZeroQueued
      BY <2>2, <3>1 DEF ZeroQueued, IsWrite
    <3>2. ASSUME NEW j \in 1..Len(lcQueue'), lcQueue'[j].type = "write", lcQueue'[j].record.logId = 0
          PROVE  ZeroQueued
      BY <2>3, <3>2 DEF ZeroQueued, IsWrite
    <3> QED
      BY <3>1, <3>2 DEF ZeroQueued, IsWrite
  <2> QED
    BY <1>a, <2>1, <2>4, <2>5
<1>7. CASE LCRespond
  <2>1. /\ 0 \notin DOMAIN mToFlushLog
        /\ UNCHANGED <<mMaxLogId, lcQueue, rcRecord>>
        /\ DOMAIN mToFlushLog' = {}
    BY <1>7, EmptyMapDomain DEF LCRespond, ForgetResponded, Index
  <2>2. ZeroQueued' <=> ZeroQueued
    BY <2>1 DEF ZeroQueued
  <2> QED
    BY <1>a, <2>1, <2>2
<1> QED
  BY <1>1, <1>2, <1>3, <1>4, <1>5, <1>6, <1>7, Steps
     DEF vars, StartProcess, BootDone, PostKVRequest, RCGet, RCFinish, RCAnswer, LCFlush

\* While the process lives a request keeps its number and its content until
\* its pair is answered.
MatchesNext(n, r) == /\ n \in DOMAIN mRequests'
                     /\ request'[mRequests'[n]] = [op |-> r.op, tag |-> r.tag]

\* A request id goes on belonging to its record until it is answered.
LEMMA MatchesKept ==
  ASSUME TypeOK, Pipeline, NEW n, NEW r, Matches(n, r), [Next]_vars, ~Dies,
         \A p \in rcPairs : RCAnswer(p) => p.id # n
  PROVE  MatchesNext(n, r)
<1> USE DEF bootVars, clientVars, rcVars, lcVars, idVars, logVars, histVars
<1>0. /\ n \in DOMAIN mRequests /\ mRequests[n] \in Clients
      /\ request[mRequests[n]] = [op |-> r.op, tag |-> r.tag]
      /\ request[mRequests[n]] # NoRequest
  BY DEF Matches, Pipeline, Waiting, TypeOK
<1>1. CASE UNCHANGED <<request, mRequests>>
  BY <1>0, <1>1 DEF MatchesNext
<1>2. ASSUME NEW c \in Clients, PostKVRequest(c) PROVE MatchesNext(n, r)
  <2>1. /\ c # mRequests[n] /\ mRequests' = mRequests
        /\ \A d \in Clients : d # c => request'[d] = request[d]
    BY <1>0, <1>2 DEF PostKVRequest, MayPost, Waiting, TypeOK
  <2> QED
    BY <1>0, <2>1 DEF MatchesNext
<1>3. CASE RCGet
  <2>1. /\ RCClient \in Clients /\ RCClient = rcQueue[1].client /\ rcQueue[1].type = "recv"
        /\ 1 \in 1..Len(rcQueue)
        /\ request' = [request EXCEPT ![RCClient] = NoRequest] /\ mRequests' = mRequests
    BY <1>3, TakesRecv, RcQueueTail DEF RCGet, RCTakes, Answer, IsRecv
  <2>2. mRequests[n] # RCClient
    BY <1>0, <2>1 DEF Pipeline, IsRecv
  <2> QED
    BY <1>0, <2>1, <2>2 DEF MatchesNext, TypeOK
<1>4. CASE RCNewRequest
  BY <1>0, <1>4 DEF RCNewRequest, MapInsert, MatchesNext
<1>5. ASSUME NEW p \in rcPairs, RCAnswer(p) PROVE MatchesNext(n, r)
  <2> DEFINE c == mRequests[p.id]
  <2>1. /\ p.id \in DOMAIN mRequests /\ c \in Clients /\ p.id # n
        /\ request' = [request EXCEPT ![c] = NoRequest]
        /\ mRequests' = [i \in DOMAIN mRequests \ {p.id} |-> mRequests[i]]
    BY <1>5, AnswersClient DEF RCAnswer, Answer
  <2>2. mRequests[n] # c
    BY <1>0, <2>1 DEF Pipeline
  <2>3. n \in DOMAIN mRequests' /\ mRequests'[n] = mRequests[n]
    BY <1>0, <2>1
  <2> HIDE DEF c
  <2>4. request'[mRequests[n]] = request[mRequests[n]]
    BY <1>0, <2>1, <2>2 DEF TypeOK
  <2> QED
    BY <1>0, <2>3, <2>4 DEF MatchesNext
<1> QED
  BY <1>1, <1>2, <1>3, <1>4, <1>5, Steps
     DEF vars, StartProcess, BootRead, BootSetMaxLogId, BootDone,
         RCAppendLogRecord, RCFinish, LCRecover, LCWrite, LCFlush, LCRespond, ForgetResponded

\* ReceiveClientRequest gives every request a log id of its own: Index is kept.
LEMMA IndexStep ==
  ASSUME TypeOK, Quiet, Pipeline, Index, [Next]_vars
  PROVE  Index'
<1> USE DEF bootVars, clientVars, rcVars, lcVars, idVars, logVars, histVars
<1>0. mMaxLogId \in Nat /\ mRequestID \in Nat
  BY DEF TypeOK
<1>1. CASE UNCHANGED <<mLogId2RequestId, mMaxLogId, mRequestID, rcRecord, rcPairs, mRequests, request>>
  BY <1>1 DEF Index, Matches
<1>2. CASE BootSetMaxLogId
  <2>1. DOMAIN mLogId2RequestId' = {} /\ rcRecord' = NoRecord
    BY <1>2, EmptyMapDomain DEF BootSetMaxLogId, Quiet
  <2> QED
    BY <2>1 DEF Index
<1>3. CASE (\E c \in Clients : PostKVRequest(c)) \/ RCGet
  <2>1. UNCHANGED <<mLogId2RequestId, mMaxLogId, mRequestID, rcRecord, rcPairs>>
    BY <1>3 DEF PostKVRequest, RCGet
  <2>2. ~Dies
    BY <1>3 DEF PostKVRequest, RCGet, Dies, MemoryLost, RCTakes, RCIdle
  <2>3. rcRecord # NoRecord => MatchesNext(mRequestID, rcRecord)
    <3> SUFFICES ASSUME rcRecord # NoRecord PROVE MatchesNext(mRequestID, rcRecord)
      OBVIOUS
    <3>1. rcPairs = {} /\ Matches(mRequestID, rcRecord)
      BY DEF Index
    <3> QED
      BY <2>2, <3>1, MatchesKept
  <2> QED
    BY <2>1, <2>3 DEF Index, Matches, MatchesNext
<1>4. CASE RCNewRequest
  <2>1. /\ rcPairs' = {} /\ mMaxLogId' = mMaxLogId + 1 /\ mRequestID' = mRequestID + 1
        /\ mLogId2RequestId' = mLogId2RequestId /\ request' = request
        /\ mRequests' = MapInsert(mRequests, mRequestID + 1, RCClient)
    BY <1>4, NewRecord DEF RCNewRequest, GenerateLogId
  <2>2. mRequests'[mRequestID + 1] = RCClient /\ mRequestID + 1 \in DOMAIN mRequests'
    <3>1. mRequestID + 1 \notin DOMAIN mRequests
      BY <1>0 DEF Pipeline
    <3> QED
      BY <2>1, <3>1 DEF MapInsert
  <2>3. Matches(mRequestID, rcRecord)'
    BY <1>4, <2>1, <2>2, NewRecord DEF Matches
  <2>4. \A k \in DOMAIN mLogId2RequestId' :
          /\ k \in 1..mMaxLogId' /\ mLogId2RequestId'[k] \in 1..mRequestID'
          /\ k < mMaxLogId' /\ mLogId2RequestId'[k] < mRequestID'
    BY <1>0, <2>1 DEF Index
  <2>5. \A k, l \in DOMAIN mLogId2RequestId' :
          mLogId2RequestId'[k] = mLogId2RequestId'[l] => k = l
    BY <2>1 DEF Index
  <2>6. mMaxLogId' > 0 /\ rcRecord'.logId = mMaxLogId' % LogIdSpace
    BY <1>0, <1>4, <2>1, NewRecord
  <2> QED
    BY <2>1, <2>3, <2>4, <2>5, <2>6 DEF Index
<1>5. CASE RCAppendLogRecord
  <2>1. /\ rcRecord # NoRecord /\ rcRecord' = NoRecord
        /\ UNCHANGED <<mMaxLogId, mRequestID>>
        /\ mLogId2RequestId' = MapInsert(mLogId2RequestId, mMaxLogId, mRequestID)
    BY <1>5 DEF RCAppendLogRecord
  <2>2. /\ mMaxLogId \in 1..mMaxLogId /\ mRequestID \in 1..mRequestID
        /\ mMaxLogId \notin DOMAIN mLogId2RequestId
    BY <1>0, <2>1 DEF Index, Matches, Pipeline
  <2>3. /\ DOMAIN mLogId2RequestId' = DOMAIN mLogId2RequestId \cup {mMaxLogId}
        /\ mLogId2RequestId'[mMaxLogId] = mRequestID
        /\ \A k \in DOMAIN mLogId2RequestId : mLogId2RequestId'[k] = mLogId2RequestId[k]
    BY <2>1, <2>2 DEF MapInsert
  <2>4. \A k \in DOMAIN mLogId2RequestId : mLogId2RequestId[k] # mRequestID
    BY <1>0, <2>1 DEF Index
  <2>5. \A k \in DOMAIN mLogId2RequestId' :
          k \in 1..mMaxLogId' /\ mLogId2RequestId'[k] \in 1..mRequestID'
    BY <2>1, <2>2, <2>3 DEF Index
  <2>6. \A k, l \in DOMAIN mLogId2RequestId' :
          mLogId2RequestId'[k] = mLogId2RequestId'[l] => k = l
    BY <2>3, <2>4 DEF Index
  <2> QED
    BY <2>1, <2>5, <2>6 DEF Index
<1>6. CASE RCFinish \/ \E p \in rcPairs : RCAnswer(p)
  <2>1. /\ rcRecord = NoRecord /\ rcRecord' = NoRecord
        /\ UNCHANGED <<mLogId2RequestId, mMaxLogId, mRequestID>>
    BY <1>6 DEF RCFinish, RCTakes, RCIdle, RCAnswer, Index
  <2> QED
    BY <2>1 DEF Index
<1>7. CASE Dies
  <2>1. DOMAIN mLogId2RequestId' = {} /\ rcRecord' = NoRecord
    BY <1>7, EmptyMapDomain DEF Dies, MemoryLost
  <2> QED
    BY <2>1 DEF Index
<1> QED
  BY <1>1, <1>2, <1>3, <1>4, <1>5, <1>6, <1>7, Steps
     DEF vars, StartProcess, BootRead, BootDone, LCRecover, LCWrite, LCFlush, LCRespond, ForgetResponded

\* Requests that are not being answered keep matching their records.
LEMMA UnreportedKept ==
  ASSUME TypeOK, Pipeline, [Next]_vars, ~Dies,
         NEW n, NEW r, Matches(n, r), n \notin ReportedIds
  PROVE  MatchesNext(n, r)
<1>1. \A p \in rcPairs : p.id # n
  BY DEF ReportedIds
<1> QED
  BY <1>1, MatchesKept

\* AppendLogRecord: the index and the queue after it.
LEMMA AppendsRecord ==
  ASSUME TypeOK, Pipeline, Index, RCAppendLogRecord
  PROVE  /\ rcRecord \in LogRecord /\ rcRecord # NoRecord
         /\ rcRecord.logId = mMaxLogId % LogIdSpace /\ Matches(mRequestID, rcRecord)
         /\ mMaxLogId \in Nat \ {0} /\ mRequestID \in Nat
         /\ \A k \in DOMAIN mLogId2RequestId :
              k \in 1..mMaxLogId /\ k # mMaxLogId /\ mLogId2RequestId[k] # mRequestID
         /\ DOMAIN mLogId2RequestId' = DOMAIN mLogId2RequestId \cup {mMaxLogId}
         /\ mLogId2RequestId'[mMaxLogId] = mRequestID
         /\ \A k \in DOMAIN mLogId2RequestId : mLogId2RequestId'[k] = mLogId2RequestId[k]
         /\ Len(lcQueue) \in Nat /\ Len(lcQueue') = Len(lcQueue) + 1
         /\ \A j \in 1..Len(lcQueue) : lcQueue'[j] = lcQueue[j]
         /\ lcQueue'[Len(lcQueue')].type = "write"
         /\ lcQueue'[Len(lcQueue')].record = rcRecord
         /\ rcPairs = {} /\ ~Dies
         /\ UNCHANGED <<mToFlushLog, rcPairs, rcQueue, mMaxLogId, mRequestID, mRequests, request>>
<1> USE DEF bootVars, clientVars, rcVars, lcVars, idVars, logVars, histVars
<1>1. rcRecord # NoRecord /\ rcRecord \in LogRecord
  BY DEF RCAppendLogRecord, TypeOK
<1>2. lcQueue' = Append(lcQueue, LogCtx("write", rcRecord))
  BY DEF RCAppendLogRecord
<1>3. /\ Len(lcQueue) \in Nat /\ Len(lcQueue') = Len(lcQueue) + 1
      /\ \A j \in 1..Len(lcQueue) : lcQueue'[j] = lcQueue[j]
      /\ lcQueue'[Len(lcQueue')].type = "write"
      /\ lcQueue'[Len(lcQueue')].record = rcRecord
  BY <1>1, <1>2, LcQueueAppend
<1>4. /\ mMaxLogId \in Nat \ {0} /\ mRequestID \in Nat /\ rcPairs = {}
      /\ rcRecord.logId = mMaxLogId % LogIdSpace /\ Matches(mRequestID, rcRecord)
  BY <1>1 DEF Index, TypeOK
<1>5. \A k \in DOMAIN mLogId2RequestId :
        k \in 1..mMaxLogId /\ k # mMaxLogId /\ mLogId2RequestId[k] # mRequestID
  BY <1>1, <1>4 DEF Index
<1>6. mLogId2RequestId' = MapInsert(mLogId2RequestId, mMaxLogId, mRequestID)
  BY DEF RCAppendLogRecord
<1>7. /\ DOMAIN mLogId2RequestId' = DOMAIN mLogId2RequestId \cup {mMaxLogId}
      /\ mLogId2RequestId'[mMaxLogId] = mRequestID
      /\ \A k \in DOMAIN mLogId2RequestId : mLogId2RequestId'[k] = mLogId2RequestId[k]
  BY <1>5, <1>6, MapInsertType
<1>8. ~Dies
  <2>1. lcQueue' # <<>>
    BY <1>3
  <2> QED
    BY <2>1 DEF Dies, MemoryLost
<1> QED
  BY <1>1, <1>3, <1>4, <1>5, <1>7, <1>8 DEF RCAppendLogRecord

\* The record it queues has a new id, unless an id that wrapped is ahead of it.
LEMMA AppendsStraight ==
  ASSUME TypeOK, Pipeline, WrappedIds, Index, Indexed, RCAppendLogRecord,
         Straight(Len(lcQueue)), rcRecord.logId # 0
  PROVE  /\ rcRecord.logId = mMaxLogId
         /\ mMaxLogId \notin DOMAIN mToFlushLog
         /\ \A i \in 1..Len(lcQueue) : IsWrite(i) => lcQueue[i].record.logId # mMaxLogId
<1>1. mMaxLogId < LogIdSpace
  BY AppendsRecord, ConstantsAssumption DEF WrappedIds, Straight
<1>2. rcRecord.logId = mMaxLogId
  BY <1>1, AppendsRecord, SmallMod, ConstantsAssumption
<1>3. mMaxLogId \notin DOMAIN mLogId2RequestId
  BY AppendsRecord
<1>4. mMaxLogId \notin DOMAIN mToFlushLog
  BY <1>3 DEF Indexed, Straight
<1>5. ASSUME NEW i \in 1..Len(lcQueue), IsWrite(i)
      PROVE  lcQueue[i].record.logId # mMaxLogId
  <2>1. Straight(i)
    BY AppendsRecord DEF Straight
  <2> QED
    BY <1>3, <1>5, <2>1 DEF Indexed
<1> QED
  BY <1>2, <1>4, <1>5

\* LogCenter takes a record: what was at position j + 1 is at position j.
LEMMA WritesRecord ==
  ASSUME TypeOK, LCWrite
  PROVE  /\ 1 \in 1..Len(lcQueue) /\ IsWrite(1) /\ LCRecord = lcQueue[1].record
         /\ LCRecord \in LogRecord
         /\ Len(lcQueue) \in Nat /\ Len(lcQueue') = Len(lcQueue) - 1
         /\ \A j \in 1..Len(lcQueue') : lcQueue'[j] = lcQueue[j + 1] /\ j + 1 \in 1..Len(lcQueue)
         /\ DOMAIN mToFlushLog' = DOMAIN mToFlushLog \cup {LCRecord.logId}
         /\ \A k \in DOMAIN mToFlushLog : mToFlushLog'[k] = mToFlushLog[k]
         /\ LCRecord.logId \notin DOMAIN mToFlushLog => mToFlushLog'[LCRecord.logId] = LCRecord
         /\ UNCHANGED <<rcQueue, rcPairs, mLogId2RequestId, mRequests, request>>
<1> USE DEF bootVars, clientVars, rcVars, lcVars, idVars, logVars, histVars
<1>1. /\ lcQueue # <<>> /\ lcQueue' = Tail(lcQueue) /\ Head(lcQueue).type = "write"
      /\ mToFlushLog' = MapInsert(mToFlushLog, LCRecord.logId, LCRecord)
  BY DEF LCWrite, LCTakes
<1>2. /\ Len(lcQueue) \in Nat \ {0} /\ Len(lcQueue') = Len(lcQueue) - 1
      /\ Head(lcQueue) = lcQueue[1] /\ lcQueue[1] \in LCCtx
      /\ \A j \in 1..Len(lcQueue') : lcQueue'[j] = lcQueue[j + 1] /\ j + 1 \in 1..Len(lcQueue)
  BY <1>1, LcQueueTail
<1>3. LCRecord \in LogRecord
  BY <1>2 DEF LCRecord, LCCtx
<1>4. /\ DOMAIN mToFlushLog' = DOMAIN mToFlushLog \cup {LCRecord.logId}
      /\ \A k \in DOMAIN mToFlushLog : mToFlushLog'[k] = mToFlushLog[k]
      /\ LCRecord.logId \notin DOMAIN mToFlushLog => mToFlushLog'[LCRecord.logId] = LCRecord
  BY <1>1 DEF MapInsert
<1> QED
  BY <1>1, <1>2, <1>3, <1>4 DEF LCRecord, IsWrite, LCWrite

\* Every record LogCenter holds finds its request in the map: Indexed is kept.
LEMMA IndexedStep ==
  ASSUME TypeOK, Quiet, Pipeline, WrappedIds, Index, Indexed, Reported, [Next]_vars
  PROVE  Indexed'
<1> USE DEF bootVars, clientVars, rcVars, lcVars, idVars, logVars, histVars, IsWrite
<1>0. ASSUME ~Dies, NEW n, NEW r, Matches(n, r), n \notin ReportedIds
      PROVE  MatchesNext(n, r)
  BY <1>0, UnreportedKept
<1>a. ASSUME ~Dies, 0 \notin DOMAIN mToFlushLog, NEW k \in DOMAIN mToFlushLog
      PROVE  /\ k \in DOMAIN mLogId2RequestId
             /\ MatchesNext(mLogId2RequestId[k], mToFlushLog[k])
  BY <1>0, <1>a DEF Indexed, Reported
<1>b. ASSUME ~Dies, NEW j \in 1..Len(lcQueue), lcQueue[j].type = "write", Straight(j)
      PROVE  /\ lcQueue[j].record.logId \in DOMAIN mLogId2RequestId
             /\ MatchesNext(mLogId2RequestId[lcQueue[j].record.logId], lcQueue[j].record)
             /\ lcQueue[j].record.logId \notin DOMAIN mToFlushLog
             /\ \A i \in 1..(j - 1) : lcQueue[i].type = "write" =>
                  lcQueue[i].record.logId # lcQueue[j].record.logId
  BY <1>0, <1>b DEF Indexed, Reported
<1>1. CASE UNCHANGED <<mToFlushLog, lcQueue, mLogId2RequestId>> /\ ~Dies
  <2>1. 0 \notin DOMAIN mToFlushLog' =>
          \A k \in DOMAIN mToFlushLog' :
            k \in DOMAIN mLogId2RequestId' /\ MatchesNext(mLogId2RequestId'[k], mToFlushLog'[k])
    BY <1>1, <1>a
  <2>2. ASSUME NEW j \in 1..Len(lcQueue), lcQueue[j].type = "write", Straight(j)
        PROVE  LET k == lcQueue[j].record.logId
               IN  /\ k \in DOMAIN mLogId2RequestId'
                   /\ MatchesNext(mLogId2RequestId'[k], lcQueue'[j].record)
                   /\ k \notin DOMAIN mToFlushLog'
                   /\ \A i \in 1..(j - 1) : lcQueue'[i].type = "write" => lcQueue'[i].record.logId # k
    BY <1>1, <1>b, <2>2
  <2>3. \A k \in DOMAIN mToFlushLog' : mToFlushLog'[k].logId = k
    BY <1>1 DEF Indexed
  <2>4. \A j : Straight(j)' <=> Straight(j)
    BY <1>1 DEF Straight
  <2>5. Len(lcQueue') = Len(lcQueue) /\ lcQueue' = lcQueue
    BY <1>1
  <2> QED
    BY <2>1, <2>2, <2>3, <2>4, <2>5 DEF Indexed, Matches, MatchesNext
<1>2. CASE RCAppendLogRecord
  <2>1. ASSUME 0 \notin DOMAIN mToFlushLog', NEW k \in DOMAIN mToFlushLog'
        PROVE  k \in DOMAIN mLogId2RequestId' /\ MatchesNext(mLogId2RequestId'[k], mToFlushLog'[k])
    BY <1>2, <1>a, <2>1, AppendsRecord
  <2>2. ASSUME NEW j \in 1..Len(lcQueue'), lcQueue'[j].type = "write",
               0 \notin DOMAIN mToFlushLog,
               \A i \in 1..j : lcQueue'[i].type = "write" => lcQueue'[i].record.logId # 0
        PROVE  /\ lcQueue'[j].record.logId \in DOMAIN mLogId2RequestId'
               /\ MatchesNext(mLogId2RequestId'[lcQueue'[j].record.logId], lcQueue'[j].record)
               /\ lcQueue'[j].record.logId \notin DOMAIN mToFlushLog
               /\ \A i \in 1..(j - 1) : lcQueue'[i].type = "write" =>
                    lcQueue'[i].record.logId # lcQueue'[j].record.logId
    <3>1. CASE j \in 1..Len(lcQueue)
      <4>1. \A i \in 1..j : i \in 1..Len(lcQueue) /\ lcQueue'[i] = lcQueue[i]
        BY <1>2, <3>1, AppendsRecord
      <4>2. Straight(j) /\ lcQueue'[j] = lcQueue[j] /\ lcQueue[j].type = "write"
        BY <2>2, <4>1 DEF Straight
      <4>3. ~Dies
        BY <1>2, AppendsRecord
      <4>4. /\ lcQueue[j].record.logId \in DOMAIN mLogId2RequestId
            /\ MatchesNext(mLogId2RequestId[lcQueue[j].record.logId], lcQueue[j].record)
            /\ lcQueue[j].record.logId \notin DOMAIN mToFlushLog
            /\ \A i \in 1..(j - 1) : lcQueue[i].type = "write" =>
                 lcQueue[i].record.logId # lcQueue[j].record.logId
        BY <1>b, <3>1, <4>2, <4>3
      <4>5. \A k \in DOMAIN mLogId2RequestId :
              k \in DOMAIN mLogId2RequestId' /\ mLogId2RequestId'[k] = mLogId2RequestId[k]
        BY <1>2, AppendsRecord
      <4>6. \A i \in 1..(j - 1) : lcQueue'[i] = lcQueue[i]
        BY <3>1, <4>1
      <4> QED
        BY <4>2, <4>4, <4>5, <4>6
    <3>2. CASE j = Len(lcQueue')
      <4>1. /\ Len(lcQueue) \in Nat /\ j = Len(lcQueue) + 1
            /\ \A i \in 1..(j - 1) : i \in 1..Len(lcQueue) /\ lcQueue'[i] = lcQueue[i]
            /\ lcQueue'[j].record = rcRecord
        BY <1>2, <3>2, AppendsRecord
      <4>2. Straight(Len(lcQueue)) /\ rcRecord.logId # 0
        BY <2>2, <4>1 DEF Straight
      <4>3. /\ rcRecord.logId = mMaxLogId
            /\ mMaxLogId \notin DOMAIN mToFlushLog
            /\ \A i \in 1..Len(lcQueue) : lcQueue[i].type = "write" => lcQueue[i].record.logId # mMaxLogId
        BY <1>2, <4>2, AppendsStraight
      <4>4. MatchesNext(mRequestID, rcRecord)
        BY <1>2, AppendsRecord DEF Matches, MatchesNext
      <4> QED
        BY <1>2, <4>1, <4>3, <4>4, AppendsRecord
    <3> QED
      BY <1>2, <3>1, <3>2, AppendsRecord
  <2>3. mToFlushLog' = mToFlushLog
    BY <1>2, AppendsRecord
  <2> QED
    BY <2>1, <2>2, <2>3 DEF Indexed, Straight, Matches, MatchesNext
<1>3. CASE BootRead \/ Dies
  <2>1. DOMAIN mToFlushLog' = {}
    BY <1>3, EmptyMapDomain DEF BootRead, Dies, MemoryLost, Quiet
  <2>2. \A j \in 1..Len(lcQueue') : lcQueue'[j].type # "write"
    <3>1. Quiet' /\ proc' # "up"
      BY <1>3, QuietStep DEF BootRead, Dies, MemoryLost
    <3> QED
      BY <3>1 DEF Quiet, IsRecover
  <2> QED
    BY <2>1, <2>2 DEF Indexed
<1>4. CASE LCRecover
  <2>1. /\ lcQueue # <<>> /\ lcQueue' = Tail(lcQueue) /\ Head(lcQueue).type = "recover"
        /\ UNCHANGED <<mToFlushLog, mLogId2RequestId, proc>> /\ proc # "down"
    BY <1>4 DEF LCRecover, LCTakes, Quiet
  <2>2. ~Dies
    BY <2>1 DEF Dies, MemoryLost
  <2>3. /\ Len(lcQueue) \in Nat \ {0} /\ Len(lcQueue') = Len(lcQueue) - 1
        /\ lcQueue[1].type = "recover"
        /\ \A j \in 1..Len(lcQueue') : lcQueue'[j] = lcQueue[j + 1] /\ j + 1 \in 1..Len(lcQueue)
    BY <2>1, LcQueueTail
  <2>4. ASSUME 0 \notin DOMAIN mToFlushLog', NEW k \in DOMAIN mToFlushLog'
        PROVE  k \in DOMAIN mLogId2RequestId' /\ MatchesNext(mLogId2RequestId'[k], mToFlushLog'[k])
    BY <1>a, <2>1, <2>2, <2>4
  <2>5. ASSUME NEW j \in 1..Len(lcQueue'), lcQueue'[j].type = "write",
               0 \notin DOMAIN mToFlushLog,
               \A i \in 1..j : lcQueue'[i].type = "write" => lcQueue'[i].record.logId # 0
        PROVE  /\ lcQueue'[j].record.logId \in DOMAIN mLogId2RequestId'
               /\ MatchesNext(mLogId2RequestId'[lcQueue'[j].record.logId], lcQueue'[j].record)
               /\ lcQueue'[j].record.logId \notin DOMAIN mToFlushLog
               /\ \A i \in 1..(j - 1) : lcQueue'[i].type = "write" =>
                    lcQueue'[i].record.logId # lcQueue'[j].record.logId
    <3>1. \A i \in 1..j : i \in 1..Len(lcQueue') /\ lcQueue'[i] = lcQueue[i + 1]
      BY <2>3
    <3>2. \A i \in 2..(j + 1) : i - 1 \in 1..j /\ lcQueue[i] = lcQueue'[i - 1]
      BY <3>1
    <3>3. \A i \in 1..(j + 1) : lcQueue[i].type = "write" => lcQueue[i].record.logId # 0
      <4>1. \A i \in 2..(j + 1) : lcQueue[i].type = "write" => lcQueue[i].record.logId # 0
        BY <2>5, <3>2
      <4>2. \A i \in 1..(j + 1) : i = 1 \/ i \in 2..(j + 1)
        OBVIOUS
      <4> QED
        BY <2>3, <4>1, <4>2
    <3>4. Straight(j + 1) /\ j + 1 \in 1..Len(lcQueue) /\ lcQueue[j + 1] = lcQueue'[j]
      BY <2>3, <2>5, <3>3 DEF Straight
    <3>5. \A i \in 1..(j - 1) : i + 1 \in 1..((j + 1) - 1) /\ lcQueue'[i] = lcQueue[i + 1]
      BY <3>1
    <3> QED
      BY <1>b, <2>1, <2>2, <2>5, <3>4, <3>5
  <2> QED
    BY <2>1, <2>4, <2>5 DEF Indexed, Straight, Matches, MatchesNext
<1>5. CASE LCWrite
  <2> DEFINE r == LCRecord
             n == r.logId
  <2>1. ~Dies
    BY <1>5, WritesRecord, EmptyMapDomain DEF Dies, MemoryLost
  <2>2. ASSUME 0 \notin DOMAIN mToFlushLog'
        PROVE  /\ n \in DOMAIN mLogId2RequestId /\ MatchesNext(mLogId2RequestId[n], r)
               /\ n \notin DOMAIN mToFlushLog /\ mToFlushLog'[n] = r /\ 0 \notin DOMAIN mToFlushLog
    <3>1. Straight(1) /\ lcQueue[1].type = "write" /\ r = lcQueue[1].record
          /\ 1 \in 1..Len(lcQueue) /\ 0 \notin DOMAIN mToFlushLog
      BY <1>5, <2>2, WritesRecord DEF Straight
    <3>2. n \in DOMAIN mLogId2RequestId /\ MatchesNext(mLogId2RequestId[n], r)
          /\ n \notin DOMAIN mToFlushLog
      BY <1>b, <2>1, <3>1
    <3> QED
      BY <1>5, <3>1, <3>2, WritesRecord
  <2>3. ASSUME 0 \notin DOMAIN mToFlushLog', NEW k \in DOMAIN mToFlushLog'
        PROVE  k \in DOMAIN mLogId2RequestId' /\ MatchesNext(mLogId2RequestId'[k], mToFlushLog'[k])
    <3>1. mLogId2RequestId' = mLogId2RequestId
      BY <1>5, WritesRecord
    <3>2. CASE k \in DOMAIN mToFlushLog
      BY <1>5, <1>a, <2>1, <2>2, <2>3, <3>1, <3>2, WritesRecord
    <3>3. CASE k = n
      BY <2>2, <2>3, <3>1, <3>3
    <3> QED
      BY <1>5, <3>2, <3>3, WritesRecord
  <2>4. \A k \in DOMAIN mToFlushLog' : mToFlushLog'[k].logId = k
    <3>1. \A k \in DOMAIN mToFlushLog : mToFlushLog[k].logId = k
      BY DEF Indexed
    <3> QED
      BY <1>5, <3>1, WritesRecord
  <2>5. ASSUME NEW j \in 1..Len(lcQueue'), lcQueue'[j].type = "write",
               0 \notin DOMAIN mToFlushLog',
               \A i \in 1..j : lcQueue'[i].type = "write" => lcQueue'[i].record.logId # 0
        PROVE  /\ lcQueue'[j].record.logId \in DOMAIN mLogId2RequestId'
               /\ MatchesNext(mLogId2RequestId'[lcQueue'[j].record.logId], lcQueue'[j].record)
               /\ lcQueue'[j].record.logId \notin DOMAIN mToFlushLog'
               /\ \A i \in 1..(j - 1) : lcQueue'[i].type = "write" =>
                    lcQueue'[i].record.logId # lcQueue'[j].record.logId
    <3>1. \A i \in 1..j : i \in 1..Len(lcQueue') /\ lcQueue'[i] = lcQueue[i + 1]
      BY <1>5, WritesRecord
    <3>2. \A i \in 2..(j + 1) : i - 1 \in 1..j /\ lcQueue[i] = lcQueue'[i - 1]
      BY <3>1
    <3>3. \A i \in 1..(j + 1) : lcQueue[i].type = "write" => lcQueue[i].record.logId # 0
      <4>1. \A i \in 2..(j + 1) : lcQueue[i].type = "write" => lcQueue[i].record.logId # 0
        BY <2>5, <3>2
      <4>2. lcQueue[1].record.logId # 0
        BY <1>5, <2>5, WritesRecord
      <4>3. \A i \in 1..(j + 1) : i = 1 \/ i \in 2..(j + 1)
        OBVIOUS
      <4> QED
        BY <4>1, <4>2, <4>3
    <3>4. Straight(j + 1) /\ j + 1 \in 1..Len(lcQueue) /\ lcQueue[j + 1] = lcQueue'[j]
      BY <1>5, <2>5, <3>3, WritesRecord DEF Straight
    <3>5. \A i \in 1..(j - 1) : i + 1 \in 1..((j + 1) - 1) /\ lcQueue'[i] = lcQueue[i + 1]
      BY <3>1
    <3>6. /\ lcQueue[j + 1].record.logId \in DOMAIN mLogId2RequestId
          /\ MatchesNext(mLogId2RequestId[lcQueue[j + 1].record.logId], lcQueue[j + 1].record)
          /\ lcQueue[j + 1].record.logId \notin DOMAIN mToFlushLog
          /\ \A i \in 1..((j + 1) - 1) : lcQueue[i].type = "write" =>
               lcQueue[i].record.logId # lcQueue[j + 1].record.logId
      BY <1>b, <2>1, <2>5, <3>4
    <3>7. lcQueue[j + 1].record.logId # n
      BY <1>5, <3>6, WritesRecord
    <3> QED
      BY <1>5, <3>4, <3>5, <3>6, <3>7, WritesRecord
  <2> QED
    BY <2>3, <2>4, <2>5 DEF Indexed, Straight, Matches, MatchesNext
<1>6. CASE LCRespond
  <2>1. /\ 0 \notin DOMAIN mToFlushLog /\ DOMAIN mToFlushLog' = {}
        /\ UNCHANGED <<lcQueue, mLogId2RequestId>>
    BY <1>6, EmptyMapDomain DEF LCRespond, ForgetResponded, Index
  <2>2. ~Dies
    BY <1>6, RespondPairs, QueueAppend DEF Dies, MemoryLost, TypeOK
  <2>3. ASSUME NEW j \in 1..Len(lcQueue), lcQueue[j].type = "write", Straight(j)
        PROVE  LET k == lcQueue[j].record.logId
               IN  /\ k \in DOMAIN mLogId2RequestId'
                   /\ MatchesNext(mLogId2RequestId'[k], lcQueue'[j].record)
                   /\ k \notin DOMAIN mToFlushLog'
                   /\ \A i \in 1..(j - 1) : lcQueue'[i].type = "write" => lcQueue'[i].record.logId # k
    BY <1>b, <2>1, <2>2, <2>3
  <2> QED
    BY <2>1, <2>3 DEF Indexed, Straight, Matches, MatchesNext
<1>7. CASE UNCHANGED vars
  BY <1>7 DEF Indexed, Straight, Matches, vars
<1> QED
  <2>1. StartProcess \/ BootSetMaxLogId \/ BootDone \/ (\E c \in Clients : PostKVRequest(c))
        \/ RCGet \/ RCNewRequest \/ RCFinish \/ (\E p \in rcPairs : RCAnswer(p)) \/ LCFlush
        => UNCHANGED <<mToFlushLog, lcQueue, mLogId2RequestId>>
    BY DEF StartProcess, BootSetMaxLogId, BootDone, PostKVRequest, RCGet, RCNewRequest,
           RCFinish, RCAnswer, LCFlush
  <2> QED
    BY <1>1, <1>2, <1>3, <1>4, <1>5, <1>6, <1>7, <2>1, Steps

\* What RequestCenter has been handed, context by context: s is the number of
\* contexts it took.  LCRespond, which adds pairs, is left to its own lemma.
LEMMA FinishKept ==
  ASSUME TypeOK, [Next]_vars, ~Dies, ~LCRespond
  PROVE  \E s \in {0, 1} : \A i \in 1..Len(rcQueue') : rcQueue'[i].type = "finish" =>
           i + s \in 1..Len(rcQueue) /\ rcQueue'[i] = rcQueue[i + s]
                /\ (RCFinish => i + s # 1)
<1> USE DEF bootVars, clientVars, rcVars, lcVars, idVars, logVars, histVars
<1>1. CASE rcQueue' = rcQueue
  <2>1. ~RCFinish
    <3> SUFFICES ASSUME RCFinish PROVE FALSE
      OBVIOUS
    <3>1. rcQueue # <<>> /\ rcQueue' = Tail(rcQueue)
      BY DEF RCFinish, RCTakes
    <3>2. Len(rcQueue) \in Nat /\ Len(rcQueue') = Len(rcQueue) - 1
      BY <3>1, RcQueueTail
    <3> QED
      BY <1>1, <3>2
  <2>2. \A i \in 1..Len(rcQueue') : i + 0 \in 1..Len(rcQueue) /\ rcQueue'[i] = rcQueue[i + 0]
    BY <1>1 DEF TypeOK
  <2> QED
    BY <2>1, <2>2
<1>2. ASSUME NEW c \in Clients, PostKVRequest(c) PROVE
         /\ ~RCFinish
         /\ \A i \in 1..Len(rcQueue') : rcQueue'[i].type = "finish" =>
              i + 0 \in 1..Len(rcQueue) /\ rcQueue'[i] = rcQueue[i + 0]
  <2>1. rcQueue' = Append(rcQueue, Recv(c)) /\ Recv(c) \in RCCtx /\ Recv(c).type # "finish"
    BY <1>2, RecvType DEF PostKVRequest
  <2>2. /\ Len(rcQueue) \in Nat /\ Len(rcQueue') = Len(rcQueue) + 1
        /\ \A i \in 1..Len(rcQueue) : rcQueue'[i] = rcQueue[i]
        /\ rcQueue'[Len(rcQueue')].type # "finish"
    BY <2>1, RcQueueAppend
  <2>3. ~RCFinish
    <3> SUFFICES ASSUME RCFinish PROVE FALSE
      OBVIOUS
    <3>1. rcQueue # <<>> /\ rcQueue' = Tail(rcQueue)
      BY DEF RCFinish, RCTakes
    <3>2. Len(rcQueue') = Len(rcQueue) - 1
      BY <3>1, RcQueueTail
    <3> QED
      BY <2>2, <3>2
  <2> QED
    BY <2>2, <2>3
<1>3. CASE RCGet \/ RCNewRequest \/ RCFinish
  <2>1. rcQueue # <<>> /\ rcQueue' = Tail(rcQueue)
    BY <1>3 DEF RCGet, RCNewRequest, RCFinish, RCTakes
  <2>2. \A i \in 1..Len(rcQueue') :
           rcQueue'[i] = rcQueue[i + 1] /\ i + 1 \in 1..Len(rcQueue) /\ i + 1 # 1
    BY <2>1, RcQueueTail
  <2> QED
    BY <2>2
<1> QED
  <2>1. StartProcess \/ BootRead \/ BootSetMaxLogId \/ BootDone \/ RCAppendLogRecord
        \/ (\E p \in rcPairs : RCAnswer(p)) \/ LCRecover \/ LCWrite \/ LCFlush
        \/ UNCHANGED vars => rcQueue' = rcQueue
    BY DEF StartProcess, BootRead, BootSetMaxLogId, BootDone, RCAppendLogRecord,
           RCAnswer, LCRecover, LCWrite, LCFlush, vars
  <2> QED
    BY <1>1, <1>2, <1>3, <2>1, Steps

\* The pairs in RequestCenter's hands: the ones it had but for the one it has
\* answered, or those of the context it has just taken.
LEMMA PairsKept ==
  ASSUME TypeOK, [Next]_vars, ~Dies
  PROVE  \/ rcPairs' = rcPairs /\ ~RCFinish /\ \A p \in rcPairs : ~RCAnswer(p)
         \/ \E p \in rcPairs : RCAnswer(p) /\ rcPairs' = rcPairs \ {p} /\ ~RCFinish
         \/ /\ RCFinish /\ rcPairs = {} /\ 1 \in 1..Len(rcQueue)
            /\ IsFinish(1) /\ rcPairs' = rcQueue[1].pairs
<1> USE DEF bootVars, clientVars, rcVars, lcVars, idVars, logVars, histVars
<1>1. CASE RCFinish
  <2>1. rcQueue # <<>> /\ rcQueue' = Tail(rcQueue) /\ rcPairs = {}
        /\ Head(rcQueue).type = "finish" /\ rcPairs' = Head(rcQueue).pairs
    BY <1>1 DEF RCFinish, RCTakes, RCIdle
  <2> QED
    BY <1>1, <2>1, RcQueueTail DEF IsFinish
<1>2. ASSUME NEW p \in rcPairs, RCAnswer(p)
      PROVE  rcPairs' = rcPairs \ {p} /\ ~RCFinish
  BY <1>2 DEF RCAnswer, RCFinish, RCTakes, RCIdle
<1>3. CASE ~RCFinish /\ \A p \in rcPairs : ~RCAnswer(p)
  BY <1>3, Steps
     DEF vars, StartProcess, BootRead, BootSetMaxLogId, BootDone, PostKVRequest,
         RCGet, RCNewRequest, RCAppendLogRecord, LCRecover, LCWrite, LCFlush, LCRespond, ForgetResponded
<1> QED
  BY <1>1, <1>2, <1>3

\* The first half of Reported, on what RequestCenter has been handed.
LEMMA ReportedPairsStep ==
  ASSUME TypeOK, Quiet, Pipeline, Index, Indexed, Reported, [Next]_vars, ~Dies
  PROVE  /\ \A p \in rcPairs' : MatchesNext(p.id, p.record)
         /\ \A i \in 1..Len(rcQueue') : rcQueue'[i].type = "finish" =>
              \A p \in rcQueue'[i].pairs : MatchesNext(p.id, p.record)
         /\ \A p, q \in rcPairs' : p.id = q.id => p = q
         /\ \A i \in 1..Len(rcQueue') : rcQueue'[i].type = "finish" => \A p \in rcQueue'[i].pairs :
              /\ \A q \in rcPairs' : q.id # p.id
              /\ \A j \in 1..Len(rcQueue') : rcQueue'[j].type = "finish" =>
                   \A q \in rcQueue'[j].pairs : q.id = p.id => i = j /\ p = q
<1> USE DEF bootVars, clientVars, rcVars, lcVars, idVars, logVars, histVars, IsFinish
<1>0. ASSUME NEW n, NEW r, Matches(n, r), \A p \in rcPairs : RCAnswer(p) => p.id # n
      PROVE  MatchesNext(n, r)
  BY <1>0, MatchesKept
<1>1. ASSUME NEW i \in 1..Len(rcQueue), rcQueue[i].type = "finish", NEW p \in rcQueue[i].pairs
      PROVE  /\ MatchesNext(p.id, p.record)
             /\ \A q \in rcPairs : q.id # p.id
             /\ \A j \in 1..Len(rcQueue) : rcQueue[j].type = "finish" =>
                  \A q \in rcQueue[j].pairs : q.id = p.id => i = j /\ p = q
  <2>1. /\ Matches(p.id, p.record) /\ \A q \in rcPairs : q.id # p.id
        /\ \A j \in 1..Len(rcQueue) : rcQueue[j].type = "finish" =>
             \A q \in rcQueue[j].pairs : q.id = p.id => i = j /\ p = q
    BY <1>1 DEF Reported
  <2> QED
    BY <1>0, <2>1
<1>2. /\ \A p \in rcPairs' : MatchesNext(p.id, p.record)
      /\ \A p, q \in rcPairs' : p.id = q.id => p = q
  <2>1. CASE rcPairs' = rcPairs /\ \A p \in rcPairs : ~RCAnswer(p)
    BY <1>0, <2>1 DEF Reported
  <2>2. ASSUME NEW p \in rcPairs, RCAnswer(p), rcPairs' = rcPairs \ {p}
        PROVE  /\ \A q \in rcPairs' : MatchesNext(q.id, q.record)
               /\ \A o, q \in rcPairs' : o.id = q.id => o = q
    <3>1. \A q \in rcPairs' : q \in rcPairs
      BY <2>2
    <3>2. ASSUME NEW q \in rcPairs', NEW o \in rcPairs, RCAnswer(o) PROVE o.id # q.id
      <4>1. o.id \in DOMAIN mRequests /\ mRequests' = [i \in DOMAIN mRequests \ {o.id} |-> mRequests[i]]
            /\ rcPairs' = rcPairs \ {o}
        BY <3>2 DEF RCAnswer
      <4> QED
        BY <3>1, <4>1 DEF Reported
    <3>3. \A q \in rcPairs' : Matches(q.id, q.record)
      BY <3>1 DEF Reported
    <3>4. \A q \in rcPairs' : MatchesNext(q.id, q.record)
      BY <1>0, <3>2, <3>3
    <3> QED
      BY <3>1, <3>4 DEF Reported
  <2>3. CASE /\ rcPairs = {} /\ 1 \in 1..Len(rcQueue)
             /\ rcQueue[1].type = "finish" /\ rcPairs' = rcQueue[1].pairs
    <3>1. \A p \in rcPairs' : MatchesNext(p.id, p.record)
      BY <1>1, <2>3
    <3>2. \A p, q \in rcPairs' : p.id = q.id => p = q
      BY <1>1, <2>3
    <3> QED
      BY <3>1, <3>2
  <2> QED
    BY <2>1, <2>2, <2>3, PairsKept
<1>3. CASE ~LCRespond
  <2>1. PICK s \in {0, 1} : \A i \in 1..Len(rcQueue') : rcQueue'[i].type = "finish" =>
           i + s \in 1..Len(rcQueue) /\ rcQueue'[i] = rcQueue[i + s] /\ (RCFinish => i + s # 1)
    BY <1>3, FinishKept
  <2>2. ASSUME NEW i \in 1..Len(rcQueue'), rcQueue'[i].type = "finish", NEW p \in rcQueue'[i].pairs
        PROVE  /\ MatchesNext(p.id, p.record)
               /\ \A q \in rcPairs' : q.id # p.id
               /\ \A j \in 1..Len(rcQueue') : rcQueue'[j].type = "finish" =>
                    \A q \in rcQueue'[j].pairs : q.id = p.id => i = j /\ p = q
    <3>1. /\ i + s \in 1..Len(rcQueue) /\ rcQueue[i + s].type = "finish"
          /\ p \in rcQueue[i + s].pairs /\ (RCFinish => i + s # 1)
      BY <2>1, <2>2
    <3>2. /\ MatchesNext(p.id, p.record)
          /\ \A q \in rcPairs : q.id # p.id
          /\ \A j \in 1..Len(rcQueue) : rcQueue[j].type = "finish" =>
               \A q \in rcQueue[j].pairs : q.id = p.id => i + s = j /\ p = q
      BY <1>1, <3>1
    <3>3. \A q \in rcPairs' : q.id # p.id
      <4>1. CASE rcPairs' \subseteq rcPairs
        BY <3>2, <4>1
      <4>2. CASE /\ RCFinish /\ 1 \in 1..Len(rcQueue)
                 /\ rcQueue[1].type = "finish" /\ rcPairs' = rcQueue[1].pairs
        BY <3>1, <3>2, <4>2
      <4> QED
        BY <4>1, <4>2, PairsKept
    <3>4. ASSUME NEW j \in 1..Len(rcQueue'), rcQueue'[j].type = "finish",
                 NEW q \in rcQueue'[j].pairs, q.id = p.id
          PROVE  i = j /\ p = q
      <4>1. j + s \in 1..Len(rcQueue) /\ rcQueue[j + s].type = "finish" /\ q \in rcQueue[j + s].pairs
        BY <2>1, <3>4
      <4>2. i + s = j + s /\ p = q
        BY <3>2, <3>4, <4>1
      <4> QED
        BY <4>2
    <3> QED
      BY <3>2, <3>3, <3>4
  <2> QED
    BY <1>2, <2>2
<1>4. CASE LCRespond
  <2>1. PICK e \in RCCtx :
           /\ e.type = "finish"
           /\ e.pairs = {[id |-> mLogId2RequestId[k], record |-> mToFlushLog[k]] : k \in DOMAIN mToFlushLog}
           /\ rcQueue' = Append(rcQueue, e)
    BY <1>4, RespondPairs
  <2>2. /\ Len(rcQueue) \in Nat /\ Len(rcQueue') = Len(rcQueue) + 1
        /\ \A i \in 1..Len(rcQueue) : rcQueue'[i] = rcQueue[i]
        /\ rcQueue'[Len(rcQueue')] = e
    BY <2>1, RcQueueAppend
  <2>3. /\ rcPairs' = rcPairs /\ 0 \notin DOMAIN mToFlushLog
        /\ DOMAIN mToFlushLog \subseteq DOMAIN mLogId2RequestId
    BY <1>4 DEF LCRespond, ForgetResponded, Index
  <2>4. \A p \in rcPairs : ~RCAnswer(p)
    BY <1>4, <2>2 DEF RCAnswer
  <2>5. ASSUME NEW p \in e.pairs
        PROVE  /\ MatchesNext(p.id, p.record) /\ p.id \notin ReportedIds
               /\ \A q \in e.pairs : q.id = p.id => q = p
    <3>1. PICK k \in DOMAIN mToFlushLog : p = [id |-> mLogId2RequestId[k], record |-> mToFlushLog[k]]
      BY <2>1
    <3>2. Matches(p.id, p.record) /\ p.id \notin ReportedIds
      BY <2>3, <3>1 DEF Indexed, Reported
    <3>3. ASSUME NEW q \in e.pairs, q.id = p.id PROVE q = p
      <4>1. PICK l \in DOMAIN mToFlushLog : q = [id |-> mLogId2RequestId[l], record |-> mToFlushLog[l]]
        BY <2>1
      <4>2. k = l
        BY <2>3, <3>1, <3>3, <4>1 DEF Index
      <4> QED
        BY <3>1, <4>1, <4>2
    <3> QED
      BY <1>0, <2>4, <3>2, <3>3
  <2>6. /\ \A q \in rcPairs : q.id \in ReportedIds
        /\ \A i \in 1..Len(rcQueue) : rcQueue[i].type = "finish" =>
             \A q \in rcQueue[i].pairs : q.id \in ReportedIds
    BY DEF ReportedIds
  <2>7. ASSUME NEW i \in 1..Len(rcQueue'), rcQueue'[i].type = "finish", NEW p \in rcQueue'[i].pairs
        PROVE  /\ MatchesNext(p.id, p.record)
               /\ \A q \in rcPairs' : q.id # p.id
               /\ \A j \in 1..Len(rcQueue') : rcQueue'[j].type = "finish" =>
                    \A q \in rcQueue'[j].pairs : q.id = p.id => i = j /\ p = q
    <3>1. \A j \in 1..Len(rcQueue') : j \in 1..Len(rcQueue) \/ j = Len(rcQueue')
      BY <2>2
    <3>2. CASE i \in 1..Len(rcQueue)
      BY <1>1, <2>2, <2>3, <2>5, <2>6, <2>7, <3>1, <3>2
    <3>3. CASE i = Len(rcQueue')
      BY <2>2, <2>3, <2>5, <2>6, <2>7, <3>1, <3>3
    <3> QED
      BY <3>1, <3>2, <3>3
  <2> QED
    BY <1>2, <2>7
<1> QED
  BY <1>3, <1>4

\* Only Idle, which sends a response, makes a request a reported one.
LEMMA ReportedIdsKept ==
  ASSUME TypeOK, [Next]_vars, ~Dies, ~LCRespond
  PROVE  ReportedIds' \subseteq ReportedIds
<1> USE DEF IsFinish
<1>1. PICK s \in {0, 1} : \A i \in 1..Len(rcQueue') : rcQueue'[i].type = "finish" =>
         i + s \in 1..Len(rcQueue) /\ rcQueue'[i] = rcQueue[i + s]
  BY FinishKept
<1>2. \A p \in rcPairs' : p.id \in ReportedIds
  BY PairsKept DEF ReportedIds
<1>3. ASSUME NEW i \in 1..Len(rcQueue'), rcQueue'[i].type = "finish", NEW p \in rcQueue'[i].pairs
      PROVE  p.id \in ReportedIds
  BY <1>1, <1>3 DEF ReportedIds
<1> QED
  BY <1>2, <1>3 DEF ReportedIds

\* The second half of Reported, on what LogCenter still holds.
LEMMA ReportedHeldStep ==
  ASSUME TypeOK, Quiet, Pipeline, WrappedIds, Index, Indexed, Reported, [Next]_vars, ~Dies
  PROVE  /\ ReportedIds' \subseteq Issued'
         /\ 0 \notin DOMAIN mToFlushLog' =>
              \A k \in DOMAIN mToFlushLog' : mLogId2RequestId'[k] \notin ReportedIds'
         /\ \A j \in 1..Len(lcQueue') :
              /\ lcQueue'[j].type = "write" /\ 0 \notin DOMAIN mToFlushLog'
              /\ \A i \in 1..j : lcQueue'[i].type = "write" => lcQueue'[i].record.logId # 0
              => mLogId2RequestId'[lcQueue'[j].record.logId] \notin ReportedIds'
<1> USE DEF bootVars, clientVars, rcVars, lcVars, idVars, logVars, histVars, IsWrite
<1>a. ASSUME 0 \notin DOMAIN mToFlushLog, NEW k \in DOMAIN mToFlushLog
      PROVE  k \in DOMAIN mLogId2RequestId /\ mLogId2RequestId[k] \notin ReportedIds
  BY <1>a DEF Indexed, Reported
<1>b. ASSUME NEW j \in 1..Len(lcQueue), lcQueue[j].type = "write", 0 \notin DOMAIN mToFlushLog,
             \A i \in 1..j : lcQueue[i].type = "write" => lcQueue[i].record.logId # 0
      PROVE  /\ lcQueue[j].record.logId \in DOMAIN mLogId2RequestId
             /\ lcQueue[j].record.logId \notin DOMAIN mToFlushLog
             /\ mLogId2RequestId[lcQueue[j].record.logId] \notin ReportedIds
  BY <1>b DEF Indexed, Reported, Straight
<1>c. ReportedIds \subseteq Issued
  BY DEF Reported
<1>d. \A n \in Issued : \E k \in DOMAIN mLogId2RequestId : n = mLogId2RequestId[k]
  BY DEF Issued
<1>1. CASE UNCHANGED <<mToFlushLog, lcQueue, mLogId2RequestId>> /\ ~LCRespond
  <2>1. ReportedIds' \subseteq ReportedIds /\ Issued' = Issued
    BY <1>1, ReportedIdsKept DEF Issued
  <2> QED
    BY <1>1, <1>a, <1>b, <1>c, <2>1
<1>2. CASE RCAppendLogRecord /\ ~LCRespond
  <2>1. ReportedIds' \subseteq ReportedIds
    BY <1>2, ReportedIdsKept
  <2>2. Issued \subseteq Issued' /\ mRequestID \notin Issued
    BY <1>2, AppendsRecord DEF Issued
  <2>3. ASSUME 0 \notin DOMAIN mToFlushLog', NEW k \in DOMAIN mToFlushLog'
        PROVE  mLogId2RequestId'[k] \notin ReportedIds'
    BY <1>2, <1>a, <2>1, <2>3, AppendsRecord
  <2>4. ASSUME NEW j \in 1..Len(lcQueue'), lcQueue'[j].type = "write",
               0 \notin DOMAIN mToFlushLog',
               \A i \in 1..j : lcQueue'[i].type = "write" => lcQueue'[i].record.logId # 0
        PROVE  mLogId2RequestId'[lcQueue'[j].record.logId] \notin ReportedIds
    <3>0. 0 \notin DOMAIN mToFlushLog
      BY <1>2, <2>4, AppendsRecord
    <3>1. CASE j \in 1..Len(lcQueue)
      <4>1. \A i \in 1..j : i \in 1..Len(lcQueue) /\ lcQueue'[i] = lcQueue[i]
        BY <1>2, <3>1, AppendsRecord
      <4>2. /\ lcQueue[j].type = "write" /\ lcQueue'[j] = lcQueue[j]
            /\ \A i \in 1..j : lcQueue[i].type = "write" => lcQueue[i].record.logId # 0
        BY <2>4, <4>1
      <4>3. /\ lcQueue[j].record.logId \in DOMAIN mLogId2RequestId
            /\ mLogId2RequestId[lcQueue[j].record.logId] \notin ReportedIds
        BY <1>b, <3>0, <3>1, <4>2
      <4> QED
        BY <1>2, <4>2, <4>3, AppendsRecord
    <3>2. CASE j = Len(lcQueue')
      <4>1. /\ Len(lcQueue) \in Nat /\ j = Len(lcQueue) + 1
            /\ \A i \in 1..(j - 1) : i \in 1..Len(lcQueue) /\ lcQueue'[i] = lcQueue[i]
            /\ lcQueue'[j].record = rcRecord
        BY <1>2, <3>2, AppendsRecord
      <4>2. Straight(Len(lcQueue)) /\ rcRecord.logId # 0
        BY <2>4, <3>0, <4>1 DEF Straight
      <4>3. rcRecord.logId = mMaxLogId
        BY <1>2, <4>2, AppendsStraight
      <4> QED
        BY <1>2, <1>c, <2>2, <4>1, <4>3, AppendsRecord
    <3> QED
      BY <1>2, <3>1, <3>2, AppendsRecord
  <2> QED
    BY <1>c, <2>1, <2>2, <2>3, <2>4
<1>3. CASE BootRead
  <2>1. /\ ReportedIds' \subseteq ReportedIds /\ Issued' = Issued /\ DOMAIN mToFlushLog' = {}
    <3>1. ~LCRespond
      BY <1>3, EmptyMapDomain DEF BootRead, LCRespond, ForgetResponded, Quiet
    <3> QED
      BY <1>3, <3>1, ReportedIdsKept, EmptyMapDomain DEF Issued, BootRead, Quiet
  <2>2. \A j \in 1..Len(lcQueue') : lcQueue'[j].type # "write"
    <3>1. Quiet' /\ proc' # "up"
      BY <1>3, QuietStep DEF BootRead
    <3> QED
      BY <3>1 DEF Quiet, IsRecover
  <2> QED
    BY <1>c, <2>1, <2>2
<1>4. CASE (LCRecover \/ LCWrite) /\ ~LCRespond
  <2>1. /\ lcQueue # <<>> /\ lcQueue' = Tail(lcQueue) /\ mLogId2RequestId' = mLogId2RequestId
        /\ ReportedIds' \subseteq ReportedIds /\ Issued' = Issued
    BY <1>4, ReportedIdsKept DEF LCRecover, LCWrite, LCTakes, Issued
  <2>2. /\ Len(lcQueue) \in Nat \ {0} /\ Len(lcQueue') = Len(lcQueue) - 1
        /\ \A j \in 1..Len(lcQueue') : lcQueue'[j] = lcQueue[j + 1] /\ j + 1 \in 1..Len(lcQueue)
    BY <2>1, LcQueueTail
  <2>3. ASSUME 0 \notin DOMAIN mToFlushLog'
        PROVE  /\ 0 \notin DOMAIN mToFlushLog
               /\ lcQueue[1].type = "write" => lcQueue[1].record.logId # 0
               /\ \A k \in DOMAIN mToFlushLog' :
                    \/ k \in DOMAIN mToFlushLog
                    \/ lcQueue[1].type = "write" /\ k = lcQueue[1].record.logId
    <3>1. CASE LCRecover
      <4>1. mToFlushLog' = mToFlushLog /\ lcQueue[1].type = "recover"
        BY <2>1, <3>1, LcQueueTail DEF LCRecover, LCTakes
      <4> QED
        BY <2>3, <4>1
    <3>2. CASE LCWrite
      BY <2>3, <3>2, WritesRecord
    <3> QED
      BY <1>4, <3>1, <3>2
  <2>4. ASSUME 0 \notin DOMAIN mToFlushLog', NEW k \in DOMAIN mToFlushLog'
        PROVE  mLogId2RequestId'[k] \notin ReportedIds'
    <3>1. CASE k \in DOMAIN mToFlushLog
      BY <1>a, <2>1, <2>3, <2>4, <3>1
    <3>2. CASE lcQueue[1].type = "write" /\ k = lcQueue[1].record.logId
      <4>1. mLogId2RequestId[lcQueue[1].record.logId] \notin ReportedIds
        BY <1>b, <2>2, <2>3, <2>4, <3>2
      <4> QED
        BY <2>1, <3>2, <4>1
    <3> QED
      BY <2>3, <2>4, <3>1, <3>2
  <2>5. ASSUME NEW j \in 1..Len(lcQueue'), lcQueue'[j].type = "write",
               0 \notin DOMAIN mToFlushLog',
               \A i \in 1..j : lcQueue'[i].type = "write" => lcQueue'[i].record.logId # 0
        PROVE  mLogId2RequestId'[lcQueue'[j].record.logId] \notin ReportedIds'
    <3>1. \A i \in 2..(j + 1) : i - 1 \in 1..j /\ lcQueue[i] = lcQueue'[i - 1]
      BY <2>2
    <3>2. \A i \in 2..(j + 1) : lcQueue[i].type = "write" => lcQueue[i].record.logId # 0
      BY <2>5, <3>1
    <3>3. \A i \in 1..(j + 1) : i = 1 \/ i \in 2..(j + 1)
      OBVIOUS
    <3>4. \A i \in 1..(j + 1) : lcQueue[i].type = "write" => lcQueue[i].record.logId # 0
      BY <2>3, <2>5, <3>2, <3>3
    <3>5. j + 1 \in 1..Len(lcQueue) /\ lcQueue[j + 1] = lcQueue'[j]
      BY <2>2
    <3>6. mLogId2RequestId[lcQueue[j + 1].record.logId] \notin ReportedIds
      BY <1>b, <2>3, <2>5, <3>4, <3>5
    <3> QED
      BY <2>1, <3>5, <3>6
  <2> QED
    BY <1>c, <2>1, <2>4, <2>5
<1>5. CASE LCRespond
  <2>1. PICK e \in RCCtx :
           /\ e.type = "finish"
           /\ e.pairs = {[id |-> mLogId2RequestId[k], record |-> mToFlushLog[k]] : k \in DOMAIN mToFlushLog}
           /\ rcQueue' = Append(rcQueue, e)
    BY <1>5, RespondPairs
  <2>2. /\ Len(rcQueue) \in Nat /\ Len(rcQueue') = Len(rcQueue) + 1
        /\ \A i \in 1..Len(rcQueue) : rcQueue'[i] = rcQueue[i]
        /\ rcQueue'[Len(rcQueue')] = e
    BY <2>1, RcQueueAppend
  <2>3. /\ rcPairs' = rcPairs /\ 0 \notin DOMAIN mToFlushLog
        /\ DOMAIN mToFlushLog \subseteq DOMAIN mLogId2RequestId
        /\ DOMAIN mToFlushLog' = {}
        /\ UNCHANGED <<mLogId2RequestId, lcQueue>> /\ Issued' = Issued
    BY <1>5, EmptyMapDomain DEF LCRespond, ForgetResponded, Index, Issued
  <2>4. \A n \in ReportedIds' : n \in ReportedIds \/ \E k \in DOMAIN mToFlushLog : n = mLogId2RequestId[k]
    <3>1. \A p \in rcPairs' : p.id \in ReportedIds
      BY <2>3 DEF ReportedIds
    <3>2. ASSUME NEW i \in 1..Len(rcQueue'), rcQueue'[i].type = "finish", NEW p \in rcQueue'[i].pairs
          PROVE  p.id \in ReportedIds \/ \E k \in DOMAIN mToFlushLog : p.id = mLogId2RequestId[k]
      <4>1. CASE i \in 1..Len(rcQueue)
        BY <2>2, <3>2, <4>1 DEF ReportedIds, IsFinish
      <4>2. CASE i = Len(rcQueue')
        BY <2>1, <2>2, <3>2, <4>2
      <4> QED
        BY <2>2, <4>1, <4>2
    <3> QED
      BY <3>1, <3>2 DEF ReportedIds, IsFinish
  <2>5. ReportedIds' \subseteq Issued'
    BY <1>c, <2>3, <2>4 DEF Issued
  <2>6. ASSUME NEW j \in 1..Len(lcQueue), lcQueue[j].type = "write",
               \A i \in 1..j : lcQueue[i].type = "write" => lcQueue[i].record.logId # 0
        PROVE  mLogId2RequestId[lcQueue[j].record.logId] \notin ReportedIds'
    <3> DEFINE k == lcQueue[j].record.logId
    <3>1. k \in DOMAIN mLogId2RequestId /\ k \notin DOMAIN mToFlushLog
          /\ mLogId2RequestId[k] \notin ReportedIds
      BY <1>b, <2>3, <2>6
    <3>2. \A l \in DOMAIN mToFlushLog : mLogId2RequestId[k] # mLogId2RequestId[l]
      BY <2>3, <3>1 DEF Index
    <3> QED
      BY <2>4, <3>1, <3>2
  <2> QED
    BY <2>3, <2>5, <2>6
<1> QED
  <2>1. StartProcess \/ BootSetMaxLogId \/ BootDone \/ (\E c \in Clients : PostKVRequest(c))
        \/ RCGet \/ RCNewRequest \/ RCFinish \/ (\E p \in rcPairs : RCAnswer(p)) \/ LCFlush
        \/ UNCHANGED vars
        => UNCHANGED <<mToFlushLog, lcQueue, mLogId2RequestId>>
    BY DEF StartProcess, BootSetMaxLogId, BootDone, PostKVRequest, RCGet, RCNewRequest,
           RCFinish, RCAnswer, LCFlush, vars
  <2> QED
    BY <1>1, <1>2, <1>3, <1>4, <1>5, <2>1, Steps

\* No request is reported twice (Idle, HandleKVResponse): Reported is kept.
LEMMA ReportedStep ==
  ASSUME TypeOK, Quiet, Pipeline, WrappedIds, Index, Indexed, Reported, [Next]_vars
  PROVE  Reported'
<1>1. CASE Dies
  <2>1. /\ rcPairs' = {} /\ Len(rcQueue') = 0 /\ Len(lcQueue') = 0
        /\ DOMAIN mToFlushLog' = {}
    BY <1>1, EmptyMapDomain DEF Dies, MemoryLost
  <2>2. ReportedIds' = {}
    BY <2>1 DEF ReportedIds
  <2> QED
    BY <2>1, <2>2 DEF Reported
<1>2. CASE ~Dies
  <2>1. /\ \A p \in rcPairs' : Matches(p.id, p.record)'
        /\ \A i \in 1..Len(rcQueue') : rcQueue'[i].type = "finish" =>
              \A p \in rcQueue'[i].pairs : Matches(p.id, p.record)'
    BY <1>2, ReportedPairsStep DEF Matches, MatchesNext
  <2> QED
    BY <1>2, <2>1, ReportedPairsStep, ReportedHeldStep DEF Reported, IsFinish, IsWrite, Straight
<1> QED
  BY <1>1, <1>2
-----------------------------------------------------------------------------
(***************************************************************************)
(* AckedDurable, and the theorems.                                         *)
(***************************************************************************)
LEMMA AckedDurableStep ==
  ASSUME TypeOK, Backed, Reported, AckedDurable, [Next]_vars
  PROVE  AckedDurable'
<1>0. \A i \in 1..flushed : i \in 1..flushed' /\ log'[i] = log[i]
  BY FlushedStays
<1>1. CASE acked' = acked
  BY <1>0, <1>1 DEF AckedDurable
<1>2. ASSUME NEW p \in rcPairs, RCAnswer(p) PROVE AckedDurable'
  <2>1. request[mRequests[p.id]].tag = p.record.tag
    <3>1. Matches(p.id, p.record)
      BY DEF Reported
    <3>2. request[mRequests[p.id]] = [op |-> p.record.op, tag |-> p.record.tag]
      BY <3>1 DEF Matches
    <3> QED
      BY <3>2
  <2>2. acked' = acked \cup {p.record.tag}
    BY <1>2, <2>1 DEF RCAnswer
  <2>3. PICK i \in 1..flushed : log[i] = p.record
    BY DEF Backed, Flushed
  <2> QED
    BY <1>0, <2>2, <2>3 DEF AckedDurable
<1> QED
  BY <1>1, <1>2, Steps
     DEF vars, histVars, StartProcess, BootRead, BootSetMaxLogId, BootDone, PostKVRequest,
         RCGet, RCNewRequest, RCAppendLogRecord, RCFinish, LCRecover, LCWrite, LCFlush,
         LCRespond, ForgetResponded, Dies

\* FlowInv holds before the first process starts.
LEMMA FlowInit == Init => FlowInv
<1> SUFFICES ASSUME Init PROVE FlowInv
  OBVIOUS
<1>1. /\ Len(rcQueue) = 0 /\ Len(lcQueue) = 0 /\ rcPairs = {}
      /\ rcRecord = NoRecord /\ mMaxLogId = 0
      /\ DOMAIN mRequests = {} /\ DOMAIN mLogId2RequestId = {} /\ DOMAIN mToFlushLog = {}
  BY EmptyMapDomain DEF Init
<1>2. TypeOK
  BY TypeInit
<1>3. Quiet
  BY <1>1, ConstantsAssumption DEF Init, Quiet
<1>4. RecoverFirst
  BY <1>1 DEF Init, RecoverFirst, RecoverPending
<1>5. Backed /\ Pipeline /\ Index
  BY <1>1 DEF Backed, Pipeline, Index
<1>6. WrappedIds
  BY <1>1, ConstantsAssumption DEF WrappedIds
<1>7. Indexed
  BY <1>1 DEF Indexed
<1>8. Reported
  <2>1. ReportedIds = {}
    BY <1>1 DEF ReportedIds
  <2> QED
    BY <1>1, <2>1 DEF Reported
<1>9. AckedDurable /\ VisibleIsDurable
  BY DEF Init, AckedDurable, VisibleIsDurable, Exists, EmptyStore
<1> QED
  BY <1>2, <1>3, <1>4, <1>5, <1>6, <1>7, <1>8, <1>9 DEF FlowInv

\* FlowInv is inductive: every step of Next keeps it.
LEMMA FlowStep == FlowInv /\ [Next]_vars => FlowInv'
BY TypeStep, QuietStep, RecoverFirstStep, BackedStep, PipelineStep, WrappedIdsStep,
   IndexStep, IndexedStep, ReportedStep, AckedDurableStep, VisibleIsDurableStep
   DEF FlowInv

\* The inductive invariant holds in every state the threads can reach, with any
\* number of clients, requests, restarts and crashes.
THEOREM FlowInvariantHolds == Spec => []FlowInv
<1> QED
  BY FlowInit, FlowStep, PTL DEF Spec

\* Every variable of the threads keeps its type.
THEOREM TypeCorrect == Spec => []TypeOK
<1>1. FlowInv => TypeOK
  BY DEF FlowInv
<1> QED
  BY <1>1, FlowInvariantHolds, PTL

\* No write RequestCenter has answered is lost, whatever crashes follow.
THEOREM AckedWritesAreDurable == Spec => []AckedDurable
<1>1. FlowInv => AckedDurable
  BY DEF FlowInv
<1> QED
  BY <1>1, FlowInvariantHolds, PTL

\* What a get can return was put there by a record no crash can take back.
THEOREM ReadsAreDurable == Spec => []VisibleIsDurable
<1>1. FlowInv => VisibleIsDurable
  BY DEF FlowInv
<1> QED
  BY <1>1, FlowInvariantHolds, PTL

\* The data store, which has no lock, never has two writers.
THEOREM OneWriter == Spec => []SingleWriter
<1>1. FlowInv => SingleWriter
  BY DEF FlowInv, RecoverFirst, SingleWriter
<1> QED
  BY <1>1, FlowInvariantHolds, PTL

\* The client that is answered is the one that posted the record, even after
\* the 32-bit log ids have wrapped.
THEOREM ResponsesMatch == Spec => []ResponseMatchesRequest
<1>1. FlowInv => ResponseMatchesRequest
  BY DEF FlowInv, Reported, Matches, ResponseMatchesRequest
<1> QED
  BY <1>1, FlowInvariantHolds, PTL

\* Idle finds the request of every record it has flushed until 2^32 log ids
\* have been given out in one process.
THEOREM RequestsAreFound == Spec => RequestIsFound
<1>1. ASSUME FlowInv, [Next]_vars, "index_missing" \notin aborts, "index_missing" \in aborts'
      PROVE  mMaxLogId >= LogIdSpace
  <2>1. LCAssertFails
    <3>1. aborts' # aborts
      BY <1>1
    <3>2. ~UNCHANGED vars
      BY <3>1 DEF vars, histVars
    <3>3. ~StartProcess /\ ~Boot /\ ~Crash
      BY <3>1 DEF StartProcess, Boot, BootRead, BootSetMaxLogId, BootDone, Crash, histVars
    <3>4. ~(\E c \in Clients : PostKVRequest(c))
      BY <3>1 DEF PostKVRequest
    <3>5. ~RCGet /\ ~RCNewRequest /\ ~RCAppendLogRecord /\ ~RCFinish
      BY <3>1 DEF RCGet, RCNewRequest, RCAppendLogRecord, RCFinish, histVars
    <3>6. ~RCAnswerNext
      <4>1. ASSUME NEW p \in rcPairs, RCAnswer(p) PROVE FALSE
        BY <3>1, <4>1 DEF RCAnswer
      <4>2. ASSUME NEW p \in rcPairs, RCAssertFails(p) PROVE FALSE
        BY <1>1, <4>2 DEF RCAssertFails, Abort
      <4> QED
        BY <4>1, <4>2 DEF RCAnswerNext
    <3>7. ~LCRecover /\ ~LCWrite /\ ~LCFlush /\ ~LCRespond
      BY <3>1 DEF LCRecover, LCWrite, LCFlush, LCRespond, histVars
    <3>8. ~LCRecoverAssertFails /\ ~LCOverflow
      BY <1>1 DEF LCRecoverAssertFails, LCOverflow, Abort
    <3> QED
      BY <1>1, <3>2, <3>3, <3>4, <3>5, <3>6, <3>7, <3>8 DEF Next, RequestCenter, LogCenter
  <2>2. ~(DOMAIN mToFlushLog \subseteq DOMAIN mLogId2RequestId)
    BY <1>1, <2>1 DEF LCAssertFails, Abort
  <2>3. 0 \in DOMAIN mToFlushLog
    BY <1>1, <2>2 DEF FlowInv, Indexed
  <2> QED
    BY <1>1, <2>3 DEF FlowInv, WrappedIds
<1>2. FlowInv /\ [Next]_vars =>
        [~("index_missing" \in aborts) /\ ("index_missing" \in aborts)'
           => mMaxLogId >= LogIdSpace]_vars
  BY <1>1
<1> QED
  BY <1>2, FlowInvariantHolds, PTL DEF Spec, RequestIsFound

\* Every step of the threads appends to the log, flushes it, loses what was
\* never flushed, or leaves it alone.
LEMMA LogStep ==
  ASSUME TypeOK, [Next]_vars
  PROVE  [Durable!LogNext]_(Durable!logVars)
<1> USE DEF bootVars, clientVars, rcVars, lcVars, idVars, logVars, histVars
<1>1. ASSUME UNCHANGED <<log, flushed>> PROVE [Durable!LogNext]_(Durable!logVars)
  BY <1>1 DEF Durable!logVars
<1>2. ASSUME Durable!LogFlush \/ Durable!LogCrash PROVE [Durable!LogNext]_(Durable!logVars)
  BY <1>2 DEF Durable!LogNext
<1>3. CASE LCWrite
  <2>1. LCRecord \in LogRecord /\ Durable!LogAppend(LCRecord, NeedOpenNewLogFile(LCRecord.logId))
    BY <1>3, WritesRecord DEF LCWrite
  <2>2. NeedOpenNewLogFile(LCRecord.logId) \in BOOLEAN
    BY DEF NeedOpenNewLogFile
  <2>3. Len(log) \in Nat /\ Len(log') = Len(log) + 1 /\ log'[Len(log')] = LCRecord
    BY <2>1, <2>2, LogAppendKept DEF TypeOK
  <2>4. log' # <<>>
    BY <2>3
  <2> QED
    BY <2>1, <2>2, <2>3, <2>4 DEF Durable!LogNext, Durable!LogGrows
<1> QED
  BY <1>1, <1>2, <1>3
     DEF Next, vars, StartProcess, Boot, BootRead, BootSetMaxLogId, BootDone, PostKVRequest,
         RequestCenter, RCGet, RCNewRequest, RCAppendLogRecord, RCFinish, RCAnswerNext,
         RCAnswer, RCAssertFails, LogCenter, LCRecover, LCRecoverAssertFails, LCOverflow,
         LCFlush, LCRespond, ForgetResponded, LCAssertFails, Crash

\* No step takes a record from the middle of the log or changes one.
LogShrinks == /\ Len(log') <= Len(log)
              /\ \A i \in 1..Len(log') : log'[i] = log[i]

\* What dies with the process is behind what is left of the log.
LEMMA DiesShrinks ==
  ASSUME TypeOK, [Next]_vars, Dies
  PROVE  LogShrinks
<1>1. log \in Seq(LogRecord) /\ Len(log) \in Nat /\ flushed \in 0..Len(log) /\ flushed' = Len(log')
  BY DEF TypeOK, Dies
<1>2. CASE UNCHANGED <<log, flushed>>
  BY <1>1, <1>2 DEF LogShrinks
<1>3. CASE Durable!LogGrows
  <2>1. PICK b \in BOOLEAN : Durable!LogAppend(log'[Len(log')], b)
    BY <1>3 DEF Durable!LogGrows
  <2>2. log'[Len(log')] \in LogRecord
    BY <1>3 DEF Durable!LogGrows
  <2>3. Len(log') = Len(log) + 1 /\ flushed' <= Len(log)
    BY <1>1, <2>1, <2>2, LogAppendKept DEF Durable!LogAppend
  <2> QED
    BY <1>1, <2>3
<1>4. CASE Durable!LogSpill \/ Durable!LogFlush
  BY <1>1, <1>4 DEF Durable!LogSpill, Durable!LogFlush, LogShrinks
<1>5. CASE Durable!LogCrash
  <2>1. PICK n \in flushed..Len(log) : log' = SubSeq(log, 1, n)
    BY <1>5 DEF Durable!LogCrash
  <2>2. n \in Nat /\ n <= Len(log)
    BY <1>1, <2>1
  <2>3. Len(log') = n /\ \A i \in 1..n : log'[i] = log[i]
    BY <1>1, <2>1, <2>2, SubSeqProperties
  <2> QED
    BY <2>2, <2>3 DEF LogShrinks
<1> QED
  BY <1>2, <1>3, <1>4, <1>5, LogStep DEF Durable!LogNext, Durable!logVars

(***************************************************************************)
(* The log ids a process gives out, along its part of the log, for any     *)
(* number of clients, requests, restarts and crashes and whatever id       *)
(* RecoverFromLog left it.                                                 *)
(***************************************************************************)
OwnLog         == (bootRead + 1)..Len(log)
OwnIncrease    == \A i, j \in OwnLog : i < j => log[i].logId < log[j].logId
OwnBelow(id)   == \A i \in OwnLog : log[i].logId < id
QueueBelow(id) == \A j \in 1..Len(lcQueue) : IsWrite(j) => lcQueue[j].record.logId < id

\* The ids grow from the log over LogCenter's queue to the record RequestCenter
\* is about to queue, which is the last one that was given out.
OwnOrder ==
  /\ OwnIncrease
  /\ \A j \in 1..Len(lcQueue) : IsWrite(j) =>
       /\ OwnBelow(lcQueue[j].record.logId)
       /\ \A i \in 1..(j - 1) : IsWrite(i) => lcQueue[i].record.logId < lcQueue[j].record.logId
  /\ rcRecord # NoRecord => OwnBelow(rcRecord.logId) /\ QueueBelow(rcRecord.logId)
  /\ rcRecord = NoRecord => OwnBelow(mMaxLogId + 1) /\ QueueBelow(mMaxLogId + 1)

IdOrder == proc = "up" /\ mMaxLogId < LogIdSpace => OwnOrder

\* Only a running process is said anything of.
LEMMA IdOrderInit == Init => IdOrder
BY DEF Init, IdOrder

\* Every step keeps the ids in order.
LEMMA IdOrderStep ==
  ASSUME FlowInv, FlowInv', IdOrder, [Next]_vars
  PROVE  IdOrder'
<1> SUFFICES ASSUME proc' = "up", (mMaxLogId < LogIdSpace)' PROVE OwnOrder'
  BY Zenon DEF IdOrder
<1> USE DEF bootVars, clientVars, rcVars, lcVars, idVars, logVars, histVars
<1>0. TypeOK /\ TypeOK' /\ Quiet /\ Quiet' /\ Pipeline /\ Index
  BY DEF FlowInv
<1>t. /\ log \in Seq(LogRecord) /\ lcQueue \in Seq(LCCtx) /\ Len(log) \in Nat /\ Len(lcQueue) \in Nat
      /\ mMaxLogId \in Nat /\ rcRecord \in LogRecord \cup {NoRecord} /\ bootRead \in 0..Len(log)
      /\ \A i \in 1..Len(log) : log[i].logId \in Nat
      /\ \A j \in 1..Len(lcQueue) : lcQueue[j].record.logId \in Nat
  <2>1. \A r \in LogRecord : r.logId \in Nat
    BY ConstantsAssumption DEF LogRecord, LogId
  <2>2. \A x \in LCCtx : x.record \in LogRecord
    BY DEF LCCtx
  <2>3a. log \in Seq(LogRecord) /\ lcQueue \in Seq(LCCtx)
    BY <1>0 DEF TypeOK
  <2>3. log \in Seq(LogRecord) /\ lcQueue \in Seq(LCCtx) /\ Len(log) \in Nat /\ Len(lcQueue) \in Nat
    BY <2>3a
  <2>4. \A i \in 1..Len(log) : log[i] \in LogRecord
    BY <2>3
  <2>5. \A j \in 1..Len(lcQueue) : lcQueue[j] \in LCCtx
    BY <2>3
  <2>6. mMaxLogId \in Nat /\ rcRecord \in LogRecord \cup {NoRecord} /\ bootRead \in 0..Len(log)
    BY <1>0 DEF TypeOK
  <2>7. \A i \in 1..Len(log) : log[i].logId \in Nat
    BY <2>1, <2>4
  <2>8. \A j \in 1..Len(lcQueue) : lcQueue[j].record.logId \in Nat
    BY <2>1, <2>2, <2>5
  <2> QED
    BY <2>3, <2>6, <2>7, <2>8
<1>o. OwnLog \subseteq 1..Len(log)
  BY <1>t DEF OwnLog
<1>u. UNCHANGED <<proc, mMaxLogId>> => OwnOrder
  BY DEF IdOrder
<1>1. CASE UNCHANGED <<log, lcQueue, rcRecord, mMaxLogId, proc, bootRead>>
  BY <1>u, <1>1 DEF OwnOrder, OwnIncrease, OwnLog, OwnBelow, QueueBelow, IsWrite
<1>2. CASE StartProcess \/ BootRead \/ BootSetMaxLogId
  BY <1>2 DEF StartProcess, BootRead, BootSetMaxLogId
<1>5. CASE BootDone
  <2>1. /\ proc = "boot" /\ rcRecord = NoRecord /\ rcRecord' = NoRecord
        /\ bootRead = Len(log) /\ UNCHANGED <<log, lcQueue, bootRead>>
    BY <1>0, <1>5 DEF BootDone, LogIsRead, Quiet
  <2>2. \A j \in 1..Len(lcQueue') : ~IsWrite(j)'
    BY <1>0, <2>1 DEF Quiet, IsRecover, IsWrite
  <2>3. OwnLog' = {}
    BY <1>t, <2>1 DEF OwnLog
  <2> QED
    BY <2>1, <2>2, <2>3 DEF OwnOrder, OwnIncrease, OwnBelow, QueueBelow
<1>6. CASE RCNewRequest
  <2>1. /\ rcRecord = NoRecord /\ rcRecord' # NoRecord /\ mMaxLogId' = mMaxLogId + 1
        /\ rcRecord'.logId = (mMaxLogId + 1) % LogIdSpace
        /\ UNCHANGED <<log, lcQueue, proc, bootRead>>
    BY <1>0, <1>6, NewRecord DEF RCNewRequest, GenerateLogId
  <2>2. mMaxLogId + 1 \in Nat /\ LogIdSpace \in Nat /\ mMaxLogId + 1 < LogIdSpace
    BY <1>t, <2>1, ConstantsAssumption
  <2>3. rcRecord'.logId = mMaxLogId + 1
    BY <2>1, <2>2, SmallMod
  <2>4. OwnOrder
    BY <1>t, <2>1, <2>2 DEF IdOrder
  <2> QED
    BY <2>1, <2>3, <2>4 DEF OwnOrder, OwnIncrease, OwnLog, OwnBelow, QueueBelow, IsWrite
<1>7. CASE RCAppendLogRecord
  <2>1. /\ rcRecord # NoRecord /\ rcRecord \in LogRecord /\ rcRecord' = NoRecord
        /\ UNCHANGED <<log, mMaxLogId, proc, bootRead>>
        /\ lcQueue' = Append(lcQueue, LogCtx("write", rcRecord))
    BY <1>t, <1>7 DEF RCAppendLogRecord
  <2>2. /\ Len(lcQueue') = Len(lcQueue) + 1
        /\ \A j \in 1..Len(lcQueue) : lcQueue'[j] = lcQueue[j]
        /\ lcQueue'[Len(lcQueue')].record = rcRecord
    BY <1>0, <2>1, LcQueueAppend
  <2>3. rcRecord.logId = mMaxLogId
    <3>1. mMaxLogId \in Nat /\ LogIdSpace \in Nat /\ mMaxLogId < LogIdSpace
      BY <1>t, <2>1, ConstantsAssumption
    <3>2. rcRecord.logId = mMaxLogId % LogIdSpace
      BY <1>0, <2>1 DEF Index
    <3> QED
      BY <3>1, <3>2, SmallMod
  <2>o. OwnOrder
    BY <1>u, <2>1
  <2>4. OwnBelow(mMaxLogId) /\ QueueBelow(mMaxLogId)
    BY <2>o, <2>1, <2>3 DEF OwnOrder
  <2>5. \A j \in 1..Len(lcQueue') : j \in 1..Len(lcQueue) \/ j = Len(lcQueue')
    BY <1>t, <2>2
  <2>6a. OwnBelow(mMaxLogId + 1)'
    BY <1>t, <1>o, <2>1, <2>4 DEF OwnBelow, OwnLog
  <2>6b. QueueBelow(mMaxLogId + 1)'
    BY <1>t, <2>1, <2>2, <2>3, <2>4, <2>5 DEF QueueBelow, IsWrite
  <2>7. ASSUME NEW j \in 1..Len(lcQueue'), IsWrite(j)'
        PROVE  /\ OwnBelow(lcQueue[j].record.logId)'
               /\ \A i \in 1..(j - 1) : IsWrite(i)' => lcQueue'[i].record.logId < lcQueue'[j].record.logId
    <3>1. CASE j \in 1..Len(lcQueue)
      <4>1. \A i \in 1..(j - 1) : i \in 1..Len(lcQueue)
        BY <1>t, <3>1
      <4> QED
        BY <2>o, <2>1, <2>2, <2>7, <3>1, <4>1 DEF OwnOrder, OwnBelow, OwnLog, IsWrite
    <3>2. CASE j = Len(lcQueue')
      <4>1. \A i \in 1..(j - 1) : i \in 1..Len(lcQueue)
        BY <1>t, <2>2, <3>2
      <4> QED
        BY <2>1, <2>2, <2>3, <2>4, <3>2, <4>1 DEF OwnBelow, OwnLog, QueueBelow, IsWrite
    <3> QED
      BY <2>5, <3>1, <3>2
  <2>8. OwnIncrease'
    BY <2>o, <2>1 DEF OwnOrder, OwnIncrease, OwnLog
  <2> QED
    BY <2>1, <2>6a, <2>6b, <2>7, <2>8 DEF OwnOrder
<1>8. CASE LCRecover \/ LCWrite
  <2>1. lcQueue # <<>> /\ lcQueue' = Tail(lcQueue)
        /\ UNCHANGED <<rcRecord, mMaxLogId, proc, bootRead>>
    BY <1>8 DEF LCRecover, LCWrite, LCTakes
  <2>o. OwnOrder
    BY <1>u, <2>1
  <2>2. /\ Len(lcQueue') = Len(lcQueue) - 1 /\ Head(lcQueue) = lcQueue[1] /\ lcQueue[1] \in LCCtx
        /\ \A j \in 1..Len(lcQueue') : lcQueue'[j] = lcQueue[j + 1] /\ j + 1 \in 1..Len(lcQueue)
    BY <1>0, <2>1, LcQueueTail
  <2>3. \A j \in 1..Len(lcQueue') : IsWrite(j)' => IsWrite(j + 1)
    BY <2>2 DEF IsWrite
  <2>4. \A id : QueueBelow(id) => QueueBelow(id)'
    BY <2>2, <2>3 DEF QueueBelow
  <2>5. ASSUME NEW j \in 1..Len(lcQueue'), IsWrite(j)'
        PROVE  \A i \in 1..(j - 1) : IsWrite(i)' => lcQueue'[i].record.logId < lcQueue'[j].record.logId
    <3> SUFFICES ASSUME NEW i \in 1..(j - 1), IsWrite(i)' PROVE lcQueue'[i].record.logId < lcQueue'[j].record.logId
      OBVIOUS
    <3>1. i \in 1..Len(lcQueue') /\ i + 1 \in 1..j
      BY <1>t, <2>2
    <3>1a. IsWrite(i + 1) /\ IsWrite(j + 1)
      BY <2>3, <2>5, <3>1
    <3>1b. j \in Nat /\ i + 1 \in 1..((j + 1) - 1)
      BY <3>1
    <3>2. IsWrite(i + 1) /\ IsWrite(j + 1) /\ i + 1 \in 1..((j + 1) - 1) /\ j + 1 \in 1..Len(lcQueue)
      BY <2>2, <3>1a, <3>1b
    <3>3. lcQueue[i + 1].record.logId < lcQueue[j + 1].record.logId
      BY <2>o, <3>2 DEF OwnOrder
    <3> QED
      BY <2>2, <3>1, <3>3
  <2>6. CASE LCRecover
    <3>1. log' = log
      BY <2>6 DEF LCRecover
    <3>2. \A j \in 1..Len(lcQueue') : IsWrite(j)' => OwnBelow(lcQueue[j].record.logId)'
      BY <2>o, <2>1, <2>2, <2>3, <3>1 DEF OwnOrder, OwnBelow, OwnLog
    <3>3. \A id : OwnBelow(id) => OwnBelow(id)'
      BY <2>1, <3>1 DEF OwnBelow, OwnLog
    <3>4. OwnIncrease'
      BY <2>o, <2>1, <3>1 DEF OwnOrder, OwnIncrease, OwnLog
    <3> QED
      BY <2>o, <2>1, <2>4, <2>5, <3>1, <3>2, <3>3, <3>4 DEF OwnOrder
  <2>7. CASE LCWrite
    <3> DEFINE r == lcQueue[1].record
    <3>1. r = LCRecord /\ r \in LogRecord /\ IsWrite(1) /\ 1 \in 1..Len(lcQueue)
      BY <1>t, <2>1, <2>2, <2>7 DEF LCWrite, LCTakes, LCRecord, LCCtx, IsWrite
    <3>2. /\ Len(log') = Len(log) + 1 /\ log'[Len(log')] = r
          /\ \A i \in 1..Len(log) : log'[i] = log[i]
      <4>1. NeedOpenNewLogFile(LCRecord.logId) \in BOOLEAN
        BY DEF NeedOpenNewLogFile
      <4> QED
        BY <1>0, <2>7, <3>1, <4>1, LogAppendKept DEF LCWrite
    <3>3. r.logId \in Nat /\ OwnBelow(r.logId)
      BY <1>t, <2>o, <3>1 DEF OwnOrder
    <3> HIDE DEF r
    <3>4. \A i \in OwnLog' : (i \in OwnLog /\ log'[i] = log[i]) \/ i = Len(log')
      <4>1. \A i \in OwnLog' : i \in OwnLog \/ i = Len(log')
        BY <1>t, <2>1, <3>2 DEF OwnLog
      <4> QED
        BY <1>o, <3>2, <4>1
    <3>5. OwnIncrease'
      <4> SUFFICES ASSUME NEW i \in OwnLog', NEW j \in OwnLog', i < j
                   PROVE  log'[i].logId < log'[j].logId
        BY Zenon DEF OwnIncrease
      <4>1. i # Len(log')
        BY <1>t, <2>1, <3>2 DEF OwnLog
      <4>2. i \in OwnLog /\ log'[i] = log[i]
        BY <3>4, <4>1
      <4>3. CASE j \in OwnLog /\ log'[j] = log[j]
        BY <2>o, <4>2, <4>3, Zenon DEF OwnOrder, OwnIncrease
      <4>4. CASE j = Len(log')
        BY <3>2, <3>3, <4>2, <4>4, Zenon DEF OwnBelow
      <4> QED
        BY <3>4, <4>3, <4>4, Zenon
    <3>6. \A id : OwnBelow(id) /\ r.logId < id => OwnBelow(id)'
      BY <3>2, <3>4 DEF OwnBelow
    <3>7. ASSUME NEW j \in 1..Len(lcQueue'), IsWrite(j)' PROVE OwnBelow(lcQueue[j].record.logId)'
      <4>1. IsWrite(j + 1) /\ j + 1 \in 1..Len(lcQueue) /\ 1 \in 1..((j + 1) - 1)
        BY <1>t, <2>2, <2>3, <3>7
      <4>2. OwnBelow(lcQueue[j + 1].record.logId) /\ r.logId < lcQueue[j + 1].record.logId
        BY <2>o, <3>1, <4>1 DEF OwnOrder, r
      <4>3. lcQueue'[j] = lcQueue[j + 1]
        BY <2>2
      <4> QED
        BY <3>2, <3>4, <4>2, <4>3 DEF OwnBelow
    <3>8. rcRecord # NoRecord => r.logId < rcRecord.logId
      BY <2>o, <3>1 DEF OwnOrder, QueueBelow, r
    <3>9. rcRecord = NoRecord => r.logId < mMaxLogId + 1
      BY <2>o, <3>1 DEF OwnOrder, QueueBelow, r
    <3> QED
      BY <2>o, <2>1, <2>4, <2>5, <3>5, <3>6, <3>7, <3>8, <3>9 DEF OwnOrder
  <2> QED
    BY <1>8, <2>6, <2>7
<1>9. CASE LCFlush
  <2>1. log' = log
    BY <1>9 DEF LCFlush, Durable!LogFlush
  <2> QED
    BY <1>1, <1>9, <2>1 DEF LCFlush
<1>10. CASE Dies
  BY <1>10 DEF Dies, MemoryLost
<1> QED
  BY <1>0, <1>1, <1>2, <1>5, <1>6, <1>7, <1>8, <1>9, <1>10, Steps
     DEF vars, PostKVRequest, RCGet, RCFinish, RCAnswer, LCRespond, ForgetResponded

\* The ids of the records a process writes grow along the log, until as many
\* have been given out as a record's 32 bits can tell apart: through
\* ReceiveClientRequest, LogCenter's queue and WriteLog, beside the recovery
\* that may still be running, and whatever id SetMaxLogId has read (which is
\* why the ids of two processes need not grow: run stale_id).
THEOREM OwnIdsGrow == Spec => []OwnIdsIncrease
<1>1. Init => IdOrder
  BY IdOrderInit
<1>2. FlowInv /\ FlowInv' /\ IdOrder /\ [Next]_vars => IdOrder'
  BY IdOrderStep
<1>3. IdOrder => OwnIdsIncrease
  BY DEF IdOrder, OwnOrder, OwnIncrease, OwnLog, OwnIdsIncrease
<1> QED
  BY <1>1, <1>2, <1>3, FlowInvariantHolds, PTL DEF Spec
=============================================================================
