---------------------------- MODULE SyncLogInv ------------------------------
(***************************************************************************)
(* The inductive invariant behind the safety properties of SyncLog.        *)
(* SyncLogMC checks it on small instances, SyncLogProofs proves it.        *)
(***************************************************************************)
EXTENDS SyncLog

Logged(r)     == \E i \in 1..Len(log) : log[i] = r
Flushed(r)    == \E i \in 1..flushed : log[i] = r
IsRecv(i)     == rcQueue[i].type = "recv"
IsFinish(i)   == rcQueue[i].type = "finish"
IsWrite(j)    == lcQueue[j].type = "write"
IsRecover(j)  == lcQueue[j].type = "recover"

\* Until KVDB::Start returns nothing but recovery has happened.
Quiet ==
  /\ proc # "up" =>
       /\ request = [c \in Clients |-> NoRequest]
       /\ rcQueue = <<>> /\ rcRecord = NoRecord /\ rcPairs = {}
       /\ mRequests = EmptyMap /\ mLogId2RequestId = EmptyMap
       /\ mToFlushLog = EmptyMap /\ lcPc = "loop"
       /\ flushed = Len(log)
       /\ mMaxLogId < LogIdSpace
       /\ \A j \in 1..Len(lcQueue) : IsRecover(j)
  /\ proc = "down" => /\ lcQueue = <<>> /\ bootRead = 0 /\ bootHolds = FALSE
                      /\ mMaxLogId = 0 /\ mRequestID = 0
  /\ bootHolds => bootRead > 0 /\ proc = "boot"

\* Recovered records are ahead of every other in LogCenter's queue, and they
\* are gone before LogCenter reaches its first write.
RecoverFirst ==
  /\ \A i, j \in 1..Len(lcQueue) : i < j /\ IsRecover(j) => IsRecover(i)
  /\ \/ mToFlushLog # EmptyMap \/ lcPc # "loop" \/ rcPairs # {}
     \/ \E i \in 1..Len(rcQueue) : IsFinish(i)
     => ~RecoverPending

\* A record on its way back to RequestCenter is in the log, a record LogCenter
\* has reported or is recovering is in the part no crash takes.
Backed ==
  /\ \A k \in DOMAIN mToFlushLog :
       Logged(mToFlushLog[k]) /\ (lcPc = "respond" => Flushed(mToFlushLog[k]))
  /\ \A i \in 1..Len(rcQueue) :
       IsFinish(i) => \A p \in rcQueue[i].pairs : Flushed(p.record)
  /\ \A p \in rcPairs : Flushed(p.record)
  /\ \A j \in 1..Len(lcQueue) : IsRecover(j) => Flushed(lcQueue[j].record)

\* A client is in RequestCenter's queue or in mRequests, never in both or
\* twice, and then it waits.
Pipeline ==
  /\ \A i \in 1..Len(rcQueue) :
       IsRecv(i) => /\ Waiting(rcQueue[i].client)
                    /\ \A n \in DOMAIN mRequests : mRequests[n] # rcQueue[i].client
  /\ \A i, j \in 1..Len(rcQueue) :
       IsRecv(i) /\ IsRecv(j) /\ rcQueue[i].client = rcQueue[j].client => i = j
  /\ \A n \in DOMAIN mRequests : n \in 1..mRequestID /\ Waiting(mRequests[n])
  /\ \A m, n \in DOMAIN mRequests : mRequests[m] = mRequests[n] => m = n
-----------------------------------------------------------------------------
\* Request id n belongs to the request record r was built from.
Matches(n, r) == /\ n \in DOMAIN mRequests
                 /\ request[mRequests[n]] = [op |-> r.op, tag |-> r.tag]

\* When the 64-bit id has outgrown the 32 bits of a record, and only then, there
\* is a record whose id became zero, ahead of all that follow it.  Zero is no
\* key of mLogId2RequestId, so that record never leaves mToFlushLog.
WrappedIds ==
  (mMaxLogId >= LogIdSpace) <=>
    \/ 0 \in DOMAIN mToFlushLog
    \/ \E j \in 1..Len(lcQueue) : IsWrite(j) /\ lcQueue[j].record.logId = 0
    \/ rcRecord # NoRecord /\ rcRecord.logId = 0

\* No zero id at or before position j of LogCenter's queue.
Straight(j) ==
  /\ 0 \notin DOMAIN mToFlushLog
  /\ \A i \in 1..j : IsWrite(i) => lcQueue[i].record.logId # 0

Issued == {mLogId2RequestId[k] : k \in DOMAIN mLogId2RequestId}

\* mLogId2RequestId: 64-bit ids from 1 on, each request once.
Index ==
  /\ \A k \in DOMAIN mLogId2RequestId :
       /\ k \in 1..mMaxLogId /\ mLogId2RequestId[k] \in 1..mRequestID
       /\ rcRecord # NoRecord => k < mMaxLogId /\ mLogId2RequestId[k] < mRequestID
  /\ \A k, l \in DOMAIN mLogId2RequestId :
       mLogId2RequestId[k] = mLogId2RequestId[l] => k = l
  /\ rcRecord # NoRecord => /\ mMaxLogId > 0
                            /\ rcRecord.logId = mMaxLogId % LogIdSpace
                            /\ Matches(mRequestID, rcRecord)
                            /\ rcPairs = {}

\* Every record LogCenter holds finds its own request through the index.
Indexed ==
  /\ \A k \in DOMAIN mToFlushLog : mToFlushLog[k].logId = k
  /\ 0 \notin DOMAIN mToFlushLog =>
       \A k \in DOMAIN mToFlushLog :
         k \in DOMAIN mLogId2RequestId /\ Matches(mLogId2RequestId[k], mToFlushLog[k])
  /\ \A j \in 1..Len(lcQueue) : IsWrite(j) /\ Straight(j) =>
       LET k == lcQueue[j].record.logId
       IN  /\ k \in DOMAIN mLogId2RequestId
           /\ Matches(mLogId2RequestId[k], lcQueue[j].record)
           /\ k \notin DOMAIN mToFlushLog
           /\ \A i \in 1..(j - 1) : IsWrite(i) => lcQueue[i].record.logId # k

\* Pairs carry a request and its own record, and no request is reported twice
\* or both reported and still in LogCenter.
ReportedIds == {p.id : p \in rcPairs} \cup
               UNION {{p.id : p \in rcQueue[i].pairs} : i \in {n \in 1..Len(rcQueue) : IsFinish(n)}}

Reported ==
  /\ \A p \in rcPairs : Matches(p.id, p.record)
  /\ \A i \in 1..Len(rcQueue) : IsFinish(i) =>
       \A p \in rcQueue[i].pairs : Matches(p.id, p.record)
  /\ ReportedIds \subseteq Issued
  /\ \A p, q \in rcPairs : p.id = q.id => p = q
  /\ \A i \in 1..Len(rcQueue) : IsFinish(i) => \A p \in rcQueue[i].pairs :
       /\ \A q \in rcPairs : q.id # p.id
       /\ \A j \in 1..Len(rcQueue) : IsFinish(j) => \A q \in rcQueue[j].pairs :
            q.id = p.id => i = j /\ p = q
  /\ 0 \notin DOMAIN mToFlushLog =>
       \A k \in DOMAIN mToFlushLog : mLogId2RequestId[k] \notin ReportedIds
  /\ \A j \in 1..Len(lcQueue) : IsWrite(j) /\ Straight(j) =>
       mLogId2RequestId[lcQueue[j].record.logId] \notin ReportedIds

-----------------------------------------------------------------------------
(***************************************************************************)
(* What the data store holds: the log without the writes that have not been *)
(* applied yet.                                                            *)
(***************************************************************************)
\* Either order of the two leaves the same store.
Commute(o, p) ==
  \A s \in Store : UpdateDataStore(UpdateDataStore(s, o).store, p).store
                   = UpdateDataStore(UpdateDataStore(s, p).store, o).store

\* As the workers of Main.cpp, which write keys of their own.
WritesCommute ==
  \A c, d \in Clients : c # d => \A o \in Menu[c], p \in Menu[d] : Commute(o, p)

\* Skipping(l, P)[n]: the store the first n records of l give when those at the
\* positions in P are left out.
Skipping(l, P) ==
  LET after[n \in 0..Len(l)] ==
        IF n = 0 THEN EmptyStore
        ELSE IF n \in P THEN after[n - 1]
        ELSE UpdateDataStore(after[n - 1], l[n].op).store
  IN  after

\* The positions of the log this process wrote, and those RequestCenter has
\* still to apply: their clients wait.
Own        == {i \in 1..Len(log) : proc = "up" /\ i > bootRead}
IsOf(r, c) == request[c] = [op |-> r.op, tag |-> r.tag]
HasOwner(r) == \E c \in Clients : IsOf(r, c)
Unapplied  == {i \in Own : ~BadOpType(log[i].op) /\ HasOwner(log[i])}

\* Requests that wait have tags of their own, and so have the records this
\* process wrote.
RequestTags ==
  \A c \in Clients : Waiting(c) =>
    /\ request[c].op \in Menu[c] /\ request[c].tag \in 1..posted
    /\ \A d \in Clients : Waiting(d) /\ request[d].tag = request[c].tag => c = d

OwnTags ==
  /\ \A i \in Own : log[i].tag \in 1..posted
  /\ \A i, j \in Own : log[i].tag = log[j].tag => i = j

\* A request on its way to the log is there once, and has not been written.
Unwritten(t) == \A i \in Own : log[i].tag # t
NotQueued(t, j) == \A i \in 1..j : IsWrite(i) => lcQueue[i].record.tag # t

QueuedOnce ==
  /\ \A i \in 1..Len(rcQueue) : IsRecv(i) =>
       LET t == request[rcQueue[i].client].tag
       IN  Unwritten(t) /\ NotQueued(t, Len(lcQueue)) /\ (rcRecord # NoRecord => rcRecord.tag # t)
  /\ rcRecord # NoRecord =>
       HasOwner(rcRecord) /\ Unwritten(rcRecord.tag) /\ NotQueued(rcRecord.tag, Len(lcQueue))
  /\ \A j \in 1..Len(lcQueue) : IsWrite(j) =>
       LET r == lcQueue[j].record IN HasOwner(r) /\ Unwritten(r.tag) /\ NotQueued(r.tag, j - 1)

\* What comes back to RequestCenter this process wrote, and has flushed.
OwnIsFlushed(r) == \E i \in Own : i <= flushed /\ log[i] = r

ReturnsOwn ==
  /\ lcPc = "respond" => flushed = Len(log)
  /\ \A k \in DOMAIN mToFlushLog : \E i \in Own : log[i] = mToFlushLog[k]
  /\ \A p \in rcPairs : OwnIsFlushed(p.record)
  /\ \A i \in 1..Len(rcQueue) :
       IsFinish(i) => \A p \in rcQueue[i].pairs : OwnIsFlushed(p.record)

\* A client that waits for a record in the log will be answered from it, unless
\* an id that wrapped holds the batch up.
Comes(r) ==
  \/ \E k \in DOMAIN mToFlushLog : mToFlushLog[k] = r
  \/ \E p \in rcPairs : p.record = r
  \/ \E i \in 1..Len(rcQueue) : IsFinish(i) /\ \E p \in rcQueue[i].pairs : p.record = r

OwnersAreServed ==
  0 \notin DOMAIN mToFlushLog => \A i \in Own : HasOwner(log[i]) => Comes(log[i])

\* Behind a record whose client waits there are only records of other clients.
OthersFollow ==
  \A i \in Own, c \in Clients : IsOf(log[i], c) =>
    \A j \in (i + 1)..Len(log) : \E d \in Clients : d # c /\ log[j].op \in Menu[d]

\* What a crash may take back has not been applied.
UnflushedIsUnapplied ==
  \A i \in (flushed + 1)..Len(log) : i \in Own /\ (~BadOpType(log[i].op) => i \in Unapplied)

\* While the process recovers, the store is what the records give that LogCenter
\* has applied; the ones that follow are at the head of its queue.
Recovering ==
  /\ proc = "down" => dataStore = EmptyStore
  /\ proc = "boot" \/ RecoverPending =>
       /\ proc = "up" => bootRead = Len(log)
       /\ \E k \in 0..bootRead :
            /\ dataStore = Skipping(log, {})[k]
            /\ bootRead - k <= Len(lcQueue)
            /\ \A j \in 1..Len(lcQueue) :
                 IF j <= bootRead - k THEN lcQueue[j] = LogCtx("recover", log[k + j])
                 ELSE IsWrite(j)

\* Afterwards it lacks the writes whose clients wait, and nothing else.
Applied ==
  WritesCommute /\ proc = "up" /\ ~RecoverPending =>
    dataStore = Skipping(log, Unapplied)[Len(log)]

StoreInv ==
  /\ RequestTags
  /\ OwnTags
  /\ QueuedOnce
  /\ ReturnsOwn
  /\ OwnersAreServed
  /\ OthersFollow
  /\ UnflushedIsUnapplied
  /\ Recovering
  /\ Applied

-----------------------------------------------------------------------------
\* Where requests, records, ids and answers are, whatever the records say.
FlowInv ==
  /\ TypeOK
  /\ Quiet
  /\ RecoverFirst
  /\ Backed
  /\ Pipeline
  /\ WrappedIds
  /\ Index
  /\ Indexed
  /\ Reported
  /\ AckedDurable
  /\ VisibleIsDurable

\* What a run checks, and SyncLogStoreProofs.tla proves, to be an invariant.
Inv == FlowInv /\ StoreInv
=============================================================================
