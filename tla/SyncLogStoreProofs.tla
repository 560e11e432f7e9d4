------------------------ MODULE SyncLogStoreProofs --------------------------
(***************************************************************************)
(* The data store, the log, and what the clients see, for every value of   *)
(* the constants.  StoreInv (SyncLogInv.tla) is an invariant of SyncLog:   *)
(* one lemma per conjunct.  From it follow StoreIsLog and, step by step,   *)
(* that the database is the service of KVService.tla.  The recursive       *)
(* definitions (Replay, Skipping, Survivors) are known through the chains  *)
(* and closures of SequenceLemmas.tla.                                     *)
(***************************************************************************)
EXTENDS SyncLogKV, SyncLogProofs, SequenceLemmas

(***************************************************************************)
(* Skipping: the store a part of a log gives.                              *)
(***************************************************************************)
\* The step record n of l takes, none if it is left out.
StepOf(l, P) ==
  [n \in 1..Len(l) |-> [s \in Store |-> IF n \in P THEN s ELSE UpdateDataStore(s, l[n].op).store]]

\* A record of a log carries an operation.
LEMMA RecordOp ==
  ASSUME NEW l \in Seq(LogRecord), NEW n \in 1..Len(l)
  PROVE  l[n] \in LogRecord /\ l[n].op \in Op
<1>1. l[n] \in LogRecord
  BY ElementOfSeq
<1> QED
  BY <1>1 DEF LogRecord

\* Every step goes from a store to a store.
LEMMA StepOfType ==
  ASSUME NEW l \in Seq(LogRecord), NEW P
  PROVE  StepOf(l, P) \in [1..Len(l) -> [Store -> Store]]
<1>1. ASSUME NEW n \in 1..Len(l), NEW s \in Store
      PROVE  (IF n \in P THEN s ELSE UpdateDataStore(s, l[n].op).store) \in Store
  BY RecordOp, UpdateDataStoreType
<1> QED
  BY <1>1 DEF StepOf

LEMMA EmptyIsStore == EmptyStore \in Store
BY DEF EmptyStore, Store

\* The recursive definition of Skipping does what it says: the function it
\* chooses exists.
LEMMA SkippingIsChain ==
  ASSUME NEW l \in Seq(LogRecord), NEW P
  PROVE  IsChain(Skipping(l, P), StepOf(l, P), EmptyStore, Len(l), Store)
<1> DEFINE N == Len(l)
           T == StepOf(l, P)
           Rec(g) == g = [n \in 0..N |->
                            IF n = 0 THEN EmptyStore
                            ELSE IF n \in P THEN g[n - 1]
                            ELSE UpdateDataStore(g[n - 1], l[n].op).store]
           h == CHOOSE g : Rec(g)
<1>1. N \in Nat
  OBVIOUS
<1>2. Skipping(l, P) = h
  BY DEF Skipping
<1>3. PICK f : IsChain(f, T, EmptyStore, N, Store)
  <2> HIDE DEF T, N
  <2>1. T \in [1..N -> [Store -> Store]]
    BY StepOfType DEF T, N
  <2> QED
    BY <1>1, <2>1, EmptyIsStore, ChainExists
<1>4. \A n \in 1..N : f[n - 1] \in Store /\ f[n] =
         IF n \in P THEN f[n - 1] ELSE UpdateDataStore(f[n - 1], l[n].op).store
  <2> TAKE n \in 1..N
  <2>1. f[n - 1] \in Store /\ f[n] = T[n][f[n - 1]]
    BY <1>1, <1>3 DEF IsChain
  <2> QED
    BY <2>1 DEF StepOf
<1>5. Rec(f)
  <2>1. f = [n \in 0..N |-> f[n]] /\ f[0] = EmptyStore
    BY <1>3 DEF IsChain
  <2>2. \A n \in 0..N : f[n] = IF n = 0 THEN EmptyStore
                               ELSE IF n \in P THEN f[n - 1]
                               ELSE UpdateDataStore(f[n - 1], l[n].op).store
    <3> TAKE n \in 0..N
    <3>1. CASE n = 0
      BY <2>1, <3>1
    <3>2. CASE n # 0
      <4>1. n \in 1..N
        BY <1>1, <3>2
      <4> HIDE DEF N
      <4> QED
        BY <1>4, <3>2, <4>1
    <3> QED
      BY <3>1, <3>2
  <2> HIDE DEF N
  <2> QED
    BY <2>1, <2>2
<1>6. Rec(h)
  <2> HIDE DEF Rec
  <2> QED
    BY <1>5, Zenon
<1>7. /\ DOMAIN h = 0..N
      /\ h[0] = EmptyStore
      /\ \A n \in 1..N : h[n] = IF n \in P THEN h[n - 1]
                                ELSE UpdateDataStore(h[n - 1], l[n].op).store
      /\ h = [n \in 0..N |-> h[n]]
  <2> HIDE DEF h, N
  <2>1. /\ DOMAIN h = 0..N /\ h = [n \in 0..N |-> h[n]]
        /\ \A n \in 0..N : h[n] = IF n = 0 THEN EmptyStore
                                  ELSE IF n \in P THEN h[n - 1]
                                  ELSE UpdateDataStore(h[n - 1], l[n].op).store
    BY <1>6
  <2> QED
    BY <1>1, <2>1
<1> HIDE DEF h, Rec, N, T
<1>8. \A n \in Nat : n \in 0..N => h[n] = f[n]
  <2> DEFINE A == {n \in Nat : n \in 0..N => h[n] = f[n]}
  <2>1. 0 \in A
    BY <1>3, <1>7 DEF IsChain
  <2>2. ASSUME NEW n \in Nat, n \in A PROVE n + 1 \in A
    <3>1. ASSUME n + 1 \in 0..N PROVE h[n + 1] = f[n + 1]
      <4>1. n + 1 \in 1..N /\ (n + 1) - 1 = n /\ h[n] = f[n]
        BY <1>1, <2>2, <3>1
      <4> HIDE DEF A
      <4> QED
        BY <1>4, <1>7, <4>1
    <3> QED
      BY <3>1
  <2>3. Nat \subseteq A
    <3> HIDE DEF A
    <3> QED
      BY <2>1, <2>2, InductionBySet
  <2> QED
    BY <2>3
<1>9. h = f
  <2>1. f = [n \in 0..N |-> f[n]]
    BY <1>3 DEF IsChain
  <2>2. \A n \in 0..N : n \in Nat
    BY <1>1
  <2> QED
    BY <1>7, <1>8, <2>1, <2>2
<1> QED
  BY <1>2, <1>3, <1>9 DEF N, T

\* The store is there for every prefix, and every record takes its step.
LEMMA SkippingSteps ==
  ASSUME NEW l \in Seq(LogRecord), NEW P
  PROVE  /\ \A n \in 0..Len(l) : Skipping(l, P)[n] \in Store
         /\ Skipping(l, P)[0] = EmptyStore
         /\ \A n \in 1..Len(l) :
              Skipping(l, P)[n] = IF n \in P THEN Skipping(l, P)[n - 1]
                                  ELSE UpdateDataStore(Skipping(l, P)[n - 1], l[n].op).store
<1> DEFINE f == Skipping(l, P)
<1>1. IsChain(f, StepOf(l, P), EmptyStore, Len(l), Store)
  BY SkippingIsChain
<1> HIDE DEF f
<1>2. /\ \A n \in 0..Len(l) : f[n] \in Store
      /\ f[0] = EmptyStore
  BY <1>1 DEF IsChain
<1>3. ASSUME NEW n \in 1..Len(l)
      PROVE  f[n] = IF n \in P THEN f[n - 1] ELSE UpdateDataStore(f[n - 1], l[n].op).store
  <2>1. f[n - 1] \in Store /\ f[n] = StepOf(l, P)[n][f[n - 1]]
    BY <1>1, <1>2 DEF IsChain
  <2> QED
    BY <2>1 DEF StepOf
<1> QED
  BY <1>2, <1>3 DEF f

\* What is not a write leaves the store alone.
LEMMA NoWriteNoChange ==
  ASSUME NEW s, NEW op, BadOpType(op)
  PROVE  UpdateDataStore(s, op).store = s
BY DEF UpdateDataStore, BadOpType, WriteTypes, Refuse

\* Record n of the two logs does the same to every store.
SameStep(l, P, m, Q, n) ==
  \/ l[n] = m[n] /\ (n \in P <=> n \in Q)
  \/ (n \in P \/ BadOpType(l[n].op)) /\ (n \in Q \/ BadOpType(m[n].op))

SameSpan(l, P, m, Q, a, b) ==
  /\ l \in Seq(LogRecord) /\ m \in Seq(LogRecord)
  /\ a \in Nat /\ b \in Nat /\ a <= b /\ b <= Len(l) /\ b <= Len(m)
  /\ Meet(Skipping(l, P), Skipping(m, Q), a)
  /\ \A n \in (a + 1)..b : SameStep(l, P, m, Q, n)

\* Two logs that give the same store at a, and the same step to every store from
\* there to b, give the same store at b.
LEMMA SkippingAgree ==
  ASSUME NEW l, NEW m, NEW P, NEW Q, NEW a, NEW b, SameSpan(l, P, m, Q, a, b)
  PROVE  Meet(Skipping(l, P), Skipping(m, Q), b)
<1>0. /\ l \in Seq(LogRecord) /\ m \in Seq(LogRecord) /\ a \in Nat /\ b \in Nat
      /\ a <= b /\ b <= Len(l) /\ b <= Len(m)
      /\ Skipping(l, P)[a] = Skipping(m, Q)[a]
      /\ \A n \in (a + 1)..b : SameStep(l, P, m, Q, n)
  BY DEF SameSpan, Meet
<1> DEFINE f == Skipping(l, P)
           g == Skipping(m, Q)
           T == StepOf(l, P)
           U == StepOf(m, Q)
<1>1. /\ IsChain(f, T, EmptyStore, Len(l), Store)
      /\ IsChain(g, U, EmptyStore, Len(m), Store)
  BY <1>0, SkippingIsChain
<1>2. \A n \in (a + 1)..b : \A s \in Store : T[n][s] = U[n][s]
  <2> TAKE n \in (a + 1)..b
  <2> TAKE s \in Store
  <2>1. n \in 1..Len(l) /\ n \in 1..Len(m)
    BY <1>0
  <2>2. /\ T[n][s] = IF n \in P THEN s ELSE UpdateDataStore(s, l[n].op).store
        /\ U[n][s] = IF n \in Q THEN s ELSE UpdateDataStore(s, m[n].op).store
    BY <2>1 DEF StepOf
  <2> HIDE DEF T, U
  <2> QED
    BY <1>0, <2>2, NoWriteNoChange DEF SameStep
<1> HIDE DEF f, g, T, U
<1>3. \A n \in a..b : f[n] \in Store
  <2>1. \A n \in a..b : n \in 0..Len(l)
    BY <1>0
  <2> QED
    BY <1>1, <2>1 DEF IsChain
<1>4. \A n \in (a + 1)..b : f[n] = T[n][f[n - 1]] /\ g[n] = U[n][g[n - 1]]
  <2>1. \A n \in (a + 1)..b : n \in 1..Len(l) /\ n \in 1..Len(m)
    BY <1>0
  <2> QED
    BY <1>1, <2>1 DEF IsChain
<1>5. f[a] = g[a]
  BY <1>0 DEF f, g
<1>6. \A n \in (a + 1)..b : SameSteps(f, g, T, U, Store, n)
  BY <1>2, <1>4 DEF SameSteps
<1>7. Together(f, g, T, U, Store, a, b)
  BY <1>0, <1>3, <1>5, <1>6 DEF Together
<1>8. Meet(f, g, b)
  BY ONLY <1>7, ChainsAgree
<1> QED
  BY <1>8 DEF f, g

\* Recovery leaves nothing out.
LEMMA ReplayIsSkipping ==
  ASSUME NEW l \in Seq(LogRecord)
  PROVE  Replay(l) = Skipping(l, {})[Len(l)]
BY DEF Replay, Skipping

\* The store of a prefix of the log.
LEMMA ReplayOfPrefix ==
  ASSUME NEW l \in Seq(LogRecord), NEW n \in 0..Len(l)
  PROVE  /\ SubSeq(l, 1, n) \in Seq(LogRecord) /\ Len(SubSeq(l, 1, n)) = n
         /\ \A i \in 1..n : SubSeq(l, 1, n)[i] = l[i]
         /\ Replay(SubSeq(l, 1, n)) = Skipping(l, {})[n]
         /\ Replay(SubSeq(l, 1, n)) \in Store
<1> DEFINE m == SubSeq(l, 1, n)
<1>1. \A i \in 1..n : l[i] \in LogRecord
  BY ElementOfSeq
<1>2. m \in Seq(LogRecord) /\ Len(m) = n /\ \A i \in 1..n : m[i] = l[i]
  BY <1>1, SubSeqProperties
<1> HIDE DEF m
<1>3. Skipping(m, {})[0] = Skipping(l, {})[0]
  BY <1>2, SkippingSteps
<1>4. Meet(Skipping(m, {}), Skipping(l, {}), n)
  <2>1. \A i \in (0 + 1)..n : SameStep(m, {}, l, {}, i)
    BY <1>2 DEF SameStep
  <2> QED
    <3>1. SameSpan(m, {}, l, {}, 0, n)
      BY <1>2, <1>3, <2>1 DEF SameSpan, Meet
    <3> QED
      BY ONLY <3>1, SkippingAgree
<1>5. Skipping(l, {})[n] \in Store
  BY SkippingSteps
<1> QED
  BY <1>2, <1>4, <1>5, ReplayIsSkipping DEF m, Meet

\* A record that was left out comes first or last with the same result, when it
\* commutes with those behind it that count.
LEMMA RemoveSkipped ==
  ASSUME NEW l \in Seq(LogRecord), NEW P, NEW i \in 1..Len(l), i \in P,
         NEW b \in i..Len(l),
         \A j \in (i + 1)..b : j \notin P => Commute(l[i].op, l[j].op)
  PROVE  Skipping(l, P \ {i})[b] = UpdateDataStore(Skipping(l, P)[b], l[i].op).store
<1> DEFINE f == Skipping(l, P)
           g == Skipping(l, P \ {i})
           Up(s, n) == UpdateDataStore(s, l[n].op).store
           A == {n \in Nat : i + n <= b => g[i + n] = Up(f[i + n], i)}
<1>0. i \in Nat /\ b \in Nat /\ i <= b
  OBVIOUS
<1>1. /\ \A n \in 0..Len(l) : f[n] \in Store
      /\ \A n \in 1..Len(l) : f[n] = IF n \in P THEN f[n - 1] ELSE Up(f[n - 1], n)
      /\ \A n \in 1..Len(l) : g[n] = IF n \in P \ {i} THEN g[n - 1] ELSE Up(g[n - 1], n)
  BY SkippingSteps
<1>2. f[i - 1] = g[i - 1]
  <2>1. f[0] = g[0]
    BY SkippingSteps
  <2>2. i - 1 \in Nat /\ 0 <= i - 1 /\ i - 1 <= Len(l) /\ 0 \in Nat
    OBVIOUS
  <2>3. \A n \in (0 + 1)..(i - 1) : SameStep(l, P, l, P \ {i}, n)
    BY DEF SameStep
  <2> QED
    <3>1. SameSpan(l, P, l, P \ {i}, 0, i - 1)
      BY <2>1, <2>2, <2>3 DEF SameSpan, Meet
    <3>2. Meet(Skipping(l, P), Skipping(l, P \ {i}), i - 1)
      BY ONLY <3>1, SkippingAgree
    <3> QED
      BY <3>2 DEF Meet
<1> HIDE DEF f, g
<1>3. g[i] = Up(f[i], i)
  BY <1>1, <1>2
<1>4. 0 \in A
  BY <1>3
<1>5. ASSUME NEW n \in Nat, n \in A PROVE n + 1 \in A
  <2>1. ASSUME i + (n + 1) <= b PROVE g[i + (n + 1)] = Up(f[i + (n + 1)], i)
    <3> DEFINE j == i + (n + 1)
    <3>1. j \in (i + 1)..b /\ j \in 1..Len(l) /\ j - 1 = i + n /\ j # i
      BY <2>1
    <3>2. g[j - 1] = Up(f[j - 1], i)
      BY <1>5, <2>1, <3>1
    <3>3. f[j - 1] \in Store
      BY <1>1, <3>1
    <3> HIDE DEF j, A
    <3>4. CASE j \in P
      BY <1>1, <3>1, <3>2, <3>4 DEF j
    <3>5. CASE j \notin P
      <4>1. f[j] = Up(f[j - 1], j) /\ g[j] = Up(g[j - 1], j)
        BY <1>1, <3>1, <3>5
      <4>2. Up(Up(f[j - 1], i), j) = Up(Up(f[j - 1], j), i)
        BY <3>1, <3>3, <3>5 DEF Commute
      <4> QED
        BY <3>2, <4>1, <4>2 DEF j
    <3> QED
      BY <3>4, <3>5
  <2> QED
    BY <2>1
<1>6. Nat \subseteq A
  <2> HIDE DEF A
  <2> QED
    BY <1>4, <1>5, InductionBySet
<1>7. b - i \in Nat /\ i + (b - i) = b
  BY <1>0
<1>8. b - i \in A
  <2> HIDE DEF A
  <2> QED
    BY <1>6, <1>7
<1> QED
  BY <1>7, <1>8 DEF f, g
-----------------------------------------------------------------------------
(***************************************************************************)
(* Who waits, and what the process wrote itself.                           *)
(***************************************************************************)
Released(c) ==
  /\ request[c] \in Request
  /\ request' = [request EXCEPT ![c] = NoRequest]

\* Operators in the next state, for an r that may itself be primed.
IsOfNext(r, c)      == request'[c] = [op |-> r.op, tag |-> r.tag]
HasOwnerNext(r)     == \E c \in Clients : IsOfNext(r, c)
UnwrittenNext(t)    == \A i \in Own' : log'[i].tag # t
NotQueuedNext(t, j) == \A i \in 1..j : lcQueue'[i].type = "write" => lcQueue'[i].record.tag # t
OwnIsFlushedNext(r) == \E i \in Own' : i <= flushed' /\ log'[i] = r

\* The steps of a process that is up, or that has just come up.
LEMMA UpSteps ==
  ASSUME TypeOK, [Next]_vars, proc' = "up"
  PROVE  \/ UNCHANGED vars
         \/ BootDone
         \/ /\ proc = "up" /\ UNCHANGED bootRead
            /\ \/ \E c \in Clients : PostKVRequest(c)
               \/ RCGet \/ RCNewRequest \/ RCAppendLogRecord \/ RCFinish
               \/ \E p \in rcPairs : RCAnswer(p)
               \/ LCRecover \/ LCWrite \/ LCFlush \/ LCRespond
<1> USE DEF bootVars
<1>1. ~StartProcess /\ ~BootRead /\ ~BootSetMaxLogId /\ ~Dies
  BY DEF StartProcess, BootRead, BootSetMaxLogId, Dies, MemoryLost
<1>3. ASSUME NEW c \in Clients, PostKVRequest(c) PROVE proc = "up" /\ UNCHANGED bootRead
  BY <1>3 DEF PostKVRequest
<1>4. RCGet \/ RCNewRequest \/ RCAppendLogRecord \/ RCFinish => proc = "up" /\ UNCHANGED bootRead
  BY DEF RCGet, RCNewRequest, RCAppendLogRecord, RCFinish
<1>5. ASSUME NEW p \in rcPairs, RCAnswer(p) PROVE proc = "up" /\ UNCHANGED bootRead
  BY <1>5 DEF RCAnswer
<1>6. LCRecover \/ LCWrite \/ LCFlush \/ LCRespond => proc = "up" /\ UNCHANGED bootRead
  BY DEF LCRecover, LCWrite, LCFlush, LCRespond
<1> QED
  BY <1>1, <1>3, <1>4, <1>5, <1>6, Steps

\* The main thread comes up with nothing in its queues but recovered records.
LEMMA ComesUp ==
  ASSUME TypeOK, Quiet, BootDone
  PROVE  /\ proc = "boot" /\ proc' = "up" /\ bootRead = Len(log) /\ flushed = Len(log)
         /\ request = [c \in Clients |-> NoRequest] /\ rcQueue = <<>> /\ rcRecord = NoRecord
         /\ rcPairs = {} /\ mToFlushLog = EmptyMap /\ lcPc = "loop"
         /\ \A j \in 1..Len(lcQueue) : IsRecover(j)
         /\ Own = {} /\ Own' = {}
         /\ UNCHANGED <<bootRead, request, rcQueue, rcRecord, rcPairs, mToFlushLog, lcPc, lcQueue,
                        log, flushed, dataStore, posted>>
<1> USE DEF bootVars, clientVars, rcVars, lcVars, idVars, logVars, histVars
<1>1. proc = "boot" /\ proc' = "up" /\ bootRead = Len(log) /\ flushed = Len(log)
  BY DEF BootDone, LogIsRead, Quiet
<1>2. UNCHANGED <<bootRead, request, rcQueue, rcRecord, rcPairs, mToFlushLog, lcPc, lcQueue,
                  log, flushed, dataStore, posted>>
  BY DEF BootDone
<1>3. Own = {} /\ Own' = {}
  BY <1>1, <1>2 DEF Own
<1> QED
  BY <1>1, <1>2, <1>3 DEF Quiet

\* What a client has when it posts, and what it has afterwards.
LEMMA Posts ==
  ASSUME TypeOK, NEW c \in Clients, PostKVRequest(c)
  PROVE  /\ request[c] = NoRequest /\ posted \in Nat /\ posted' = posted + 1
         /\ request' \in [Clients -> Request \cup {NoRequest}]
         /\ request'[c] \in Request /\ request'[c].op \in Menu[c] /\ request'[c].tag = posted + 1
         /\ \A d \in Clients : d # c => request'[d] = request[d]
         /\ Len(rcQueue') = Len(rcQueue) + 1 /\ Len(rcQueue) \in Nat
         /\ \A i \in 1..Len(rcQueue) : rcQueue'[i] = rcQueue[i]
         /\ rcQueue'[Len(rcQueue')].type = "recv"
         /\ rcQueue'[Len(rcQueue')].client = c
         /\ UNCHANGED <<proc, bootRead, rcRecord, rcPairs, lcQueue, mToFlushLog, lcPc, dataStore, log, flushed>>
<1> USE DEF bootVars, clientVars, rcVars, lcVars, idVars, logVars, histVars
<1>1. PICK op \in Menu[c] : request' = [request EXCEPT ![c] = [op |-> op, tag |-> posted + 1]]
  BY DEF PostKVRequest
<1>2. op \in Op
  BY <1>1, ConstantsAssumption
<1>3. [op |-> op, tag |-> posted + 1] \in Request
  BY <1>2 DEF TypeOK, Request
<1>4. request \in [Clients -> Request \cup {NoRequest}]
  BY DEF TypeOK
<1>5. /\ request' \in [Clients -> Request \cup {NoRequest}]
      /\ request'[c] \in Request /\ request'[c].op \in Menu[c] /\ request'[c].tag = posted + 1
      /\ \A d \in Clients : d # c => request'[d] = request[d]
  BY <1>1, <1>3, <1>4
<1>6. /\ Len(rcQueue') = Len(rcQueue) + 1 /\ Len(rcQueue) \in Nat
      /\ \A i \in 1..Len(rcQueue) : rcQueue'[i] = rcQueue[i]
      /\ rcQueue'[Len(rcQueue')].type = "recv"
      /\ rcQueue'[Len(rcQueue')].client = c
  BY RecvType, RcQueueAppend DEF PostKVRequest
<1> QED
  BY <1>5, <1>6 DEF PostKVRequest, MayPost, Waiting, TypeOK

\* A get is answered at once.
LEMMA Gets ==
  ASSUME TypeOK, Pipeline, RCGet
  PROVE  /\ RCClient \in Clients /\ Released(RCClient) /\ request[RCClient].op.type = "get"
         /\ RCClient = rcQueue[1].client /\ IsRecv(1) /\ 1 \in 1..Len(rcQueue)
         /\ Len(rcQueue) \in Nat /\ Len(rcQueue') = Len(rcQueue) - 1
         /\ \A i \in 1..Len(rcQueue') : rcQueue'[i] = rcQueue[i + 1] /\ i + 1 \in 1..Len(rcQueue)
         /\ rcRecord = NoRecord /\ rcPairs = {}
         /\ UNCHANGED <<proc, bootRead, rcRecord, rcPairs, lcQueue, mToFlushLog, lcPc, dataStore, log, flushed, posted>>
<1> USE DEF bootVars, clientVars, rcVars, lcVars, idVars, logVars, histVars
<1>1. /\ RCClient \in Clients /\ request[RCClient] \in Request
      /\ RCClient = rcQueue[1].client /\ IsRecv(1)
  BY TakesRecv DEF RCGet
<1>2. rcQueue # <<>> /\ rcQueue' = Tail(rcQueue)
  BY DEF RCGet, RCTakes
<1>3. request' = [request EXCEPT ![RCClient] = NoRequest]
  BY DEF RCGet, Answer
<1> QED
  BY <1>1, <1>2, <1>3, RcQueueTail DEF RCGet, RCTakes, RCIdle, Released

\* The client of a pair is the one whose record the pair carries.
LEMMA Answers ==
  ASSUME TypeOK, Pipeline, Reported, NEW p \in rcPairs, RCAnswer(p)
  PROVE  /\ mRequests[p.id] \in Clients /\ p.id \in DOMAIN mRequests
         /\ Released(mRequests[p.id]) /\ IsOf(p.record, mRequests[p.id])
         /\ p.record \in LogRecord /\ p.record.op \in Op /\ ~BadOpType(p.record.op)
         /\ rcPairs' = rcPairs \ {p}
         /\ dataStore' = UpdateDataStore(dataStore, p.record.op).store
         /\ UNCHANGED <<proc, bootRead, rcQueue, rcRecord, lcQueue, mToFlushLog, lcPc, log, flushed, posted>>
<1> USE DEF bootVars, clientVars, rcVars, lcVars, idVars, logVars, histVars
<1>1. /\ p \in Pair /\ p.id \in DOMAIN mRequests /\ mRequests[p.id] \in Clients
      /\ request[mRequests[p.id]] \in Request
  BY AnswersClient
<1>2. Matches(p.id, p.record)
  BY DEF Reported
<1>3. p.record \in LogRecord /\ p.record.op \in Op
  BY <1>1 DEF Pair, LogRecord
<1>4. request' = [request EXCEPT ![mRequests[p.id]] = NoRequest]
  BY DEF RCAnswer, Answer
<1>5. IsOf(p.record, mRequests[p.id])
  BY <1>2 DEF Matches, IsOf
<1> QED
  BY <1>1, <1>3, <1>4, <1>5 DEF RCAnswer, Released

\* A request is posted, or released, or all requests stay as they are.
LEMMA RequestChanges ==
  ASSUME TypeOK, Pipeline, [Next]_vars, proc' = "up"
  PROVE  \/ UNCHANGED <<request, posted>>
         \/ \E c \in Clients : PostKVRequest(c)
         \/ \E c \in Clients : Released(c) /\ posted' = posted
<1> USE DEF bootVars, clientVars, rcVars, lcVars, idVars, logVars, histVars
<1>1. CASE RCGet
  BY <1>1, Gets
<1>2. ASSUME NEW p \in rcPairs, RCAnswer(p)
      PROVE  \E c \in Clients : Released(c) /\ posted' = posted
  BY <1>2, AnswersClient DEF RCAnswer, Answer, Released
<1> QED
  BY <1>1, <1>2, UpSteps
     DEF vars, BootDone, RCNewRequest, RCAppendLogRecord, RCFinish, LCRecover, LCWrite, LCFlush,
         LCRespond, ForgetResponded

\* A client that is released waited, and the others go on as they were.
LEMMA ReleasedFacts ==
  ASSUME TypeOK, NEW c \in Clients, Released(c)
  PROVE  /\ request[c] # NoRequest /\ request'[c] = NoRequest
         /\ \A d \in Clients : d # c => request'[d] = request[d]
<1>1. NoRequest \notin Request
  BY ConstantsAssumption
<1> QED
  BY <1>1 DEF Released, TypeOK

\* A record is no record of nobody.
LEMMA OwnerWaits ==
  ASSUME TypeOK, NEW r, NEW c \in Clients, IsOf(r, c)
  PROVE  r \in LogRecord => Waiting(c) /\ request[c].op = r.op /\ request[c].tag = r.tag
<1>1. r \in LogRecord => [op |-> r.op, tag |-> r.tag] \in Request
  BY DEF LogRecord, Request
<1> QED
  BY <1>1, ConstantsAssumption DEF IsOf, Waiting

\* Requests that wait have tags of their own: RequestTags is kept.
LEMMA RequestTagsStep ==
  ASSUME TypeOK, Quiet', Pipeline, RequestTags, [Next]_vars
  PROVE  RequestTags'
<1> USE DEF Waiting
<1>1. CASE proc' # "up"
  BY <1>1 DEF Quiet, RequestTags
<1>2. CASE UNCHANGED <<request, posted>>
  BY <1>2 DEF RequestTags
<1>3. ASSUME NEW c \in Clients, PostKVRequest(c) PROVE RequestTags'
  <2>1. /\ request[c] = NoRequest /\ posted \in Nat /\ posted' = posted + 1
        /\ request'[c].op \in Menu[c] /\ request'[c].tag = posted + 1
        /\ \A d \in Clients : d # c => request'[d] = request[d]
    BY <1>3, Posts
  <2>2. \A d \in Clients : d # c /\ request'[d] # NoRequest =>
           request'[d].op \in Menu[d] /\ request'[d].tag \in 1..posted
    BY <2>1 DEF RequestTags
  <2>3. \A d, e \in Clients : d # c /\ e # c /\ request'[d] # NoRequest /\ request'[e] # NoRequest
           /\ request'[e].tag = request'[d].tag => d = e
    BY <2>1 DEF RequestTags
  <2> QED
    BY <2>1, <2>2, <2>3 DEF RequestTags
<1>4. ASSUME NEW c \in Clients, Released(c), posted' = posted PROVE RequestTags'
  <2>1. request'[c] = NoRequest /\ \A d \in Clients : d # c => request'[d] = request[d]
    BY <1>4, ReleasedFacts
  <2> QED
    BY <1>4, <2>1 DEF RequestTags
<1> QED
  BY <1>1, <1>2, <1>3, <1>4, RequestChanges

\* The positions of this process change only when it writes.
LEMMA OwnChanges ==
  ASSUME TypeOK, Quiet, [Next]_vars, proc' = "up"
  PROVE  \/ Own = {} /\ Own' = {}
         \/ Own' = Own /\ UNCHANGED <<log, proc, bootRead>>
         \/ LCWrite
<1> USE DEF bootVars, clientVars, rcVars, lcVars, idVars, logVars, histVars
<1>1. CASE BootDone
  BY <1>1, ComesUp
<1>2. CASE UNCHANGED vars
  BY <1>2 DEF vars, Own
<1>3. CASE UNCHANGED <<proc, bootRead, log>>
  BY <1>3 DEF Own
<1>4. CASE LCFlush
  BY <1>4, LogFlushKept DEF LCFlush, Own
<1> QED
  BY <1>1, <1>2, <1>3, <1>4, UpSteps
     DEF PostKVRequest, RCGet, RCNewRequest, RCAppendLogRecord, RCFinish, RCAnswer,
         LCRecover, LCFlush, LCRespond, ForgetResponded

\* The record LogCenter writes is one a client waits for, at a position of its own.
LEMMA WritesOwn ==
  ASSUME TypeOK, Quiet, RecoverFirst, RequestTags, QueuedOnce, LCWrite
  PROVE  /\ proc = "up" /\ proc' = "up" /\ ~RecoverPending /\ ~RecoverPending'
         /\ Len(log) \in Nat /\ Len(log') = Len(log) + 1 /\ log'[Len(log) + 1] = LCRecord
         /\ \A i \in 1..Len(log) : log'[i] = log[i]
         /\ Own' = Own \cup {Len(log) + 1} /\ Len(log) + 1 \notin Own
         /\ Own \subseteq 1..Len(log)
         /\ LCRecord \in LogRecord /\ HasOwner(LCRecord) /\ Unwritten(LCRecord.tag)
         /\ LCRecord.tag \in 1..posted
         /\ flushed <= flushed' /\ flushed \in Nat /\ flushed' \in Nat
         /\ UNCHANGED <<request, posted, rcQueue, rcRecord, rcPairs, dataStore, bootRead>>
<1> USE DEF bootVars, clientVars, rcVars, lcVars, idVars, logVars, histVars
<1>1. /\ 1 \in 1..Len(lcQueue) /\ IsWrite(1) /\ LCRecord = lcQueue[1].record
      /\ LCRecord \in LogRecord
      /\ Len(lcQueue) \in Nat /\ Len(lcQueue') = Len(lcQueue) - 1
      /\ \A j \in 1..Len(lcQueue') : lcQueue'[j] = lcQueue[j + 1] /\ j + 1 \in 1..Len(lcQueue)
  BY WritesRecord
<1>2. proc = "up" /\ proc' = "up"
  <2>1. ~IsRecover(1)
    BY <1>1 DEF IsWrite, IsRecover
  <2> QED
    BY <1>1, <2>1 DEF Quiet, LCWrite, TypeOK
<1>3. \A j \in 1..Len(lcQueue) : ~IsRecover(j)
  <2>1. ~IsRecover(1)
    BY <1>1 DEF IsWrite, IsRecover
  <2> QED
    BY <1>1, <2>1 DEF RecoverFirst
<1>4. ~RecoverPending /\ ~RecoverPending'
  BY <1>1, <1>3 DEF RecoverPending, IsRecover
<1>5. /\ LogKept /\ Len(log') = Len(log) + 1 /\ log'[Len(log')] = LCRecord
      /\ \A i \in 1..Len(log) : log'[i] = log[i]
  BY <1>1, LogAppendKept DEF LCWrite, NeedOpenNewLogFile
<1>6. Len(log) \in Nat /\ bootRead \in 0..Len(log) /\ flushed \in Nat
  BY DEF TypeOK
<1>7. bootRead' = bootRead
  BY DEF LCWrite
<1>8. /\ Own' = Own \cup {Len(log) + 1} /\ Len(log) + 1 \notin Own
      /\ Own \subseteq 1..Len(log)
  BY <1>2, <1>5, <1>6, <1>7 DEF Own
<1>9. HasOwner(LCRecord) /\ Unwritten(LCRecord.tag)
  BY <1>1 DEF QueuedOnce
<1>10. LCRecord.tag \in 1..posted
  <2>1. PICK c \in Clients : IsOf(LCRecord, c)
    BY <1>9 DEF HasOwner
  <2>2. Waiting(c) /\ request[c].tag = LCRecord.tag
    BY <1>1, <2>1, OwnerWaits
  <2> QED
    BY <2>2 DEF RequestTags
<1>11. flushed <= flushed' /\ flushed' \in Nat
  BY <1>5 DEF LogKept
<1> QED
  BY <1>1, <1>2, <1>4, <1>5, <1>6, <1>7, <1>8, <1>9, <1>10, <1>11 DEF LCWrite

\* The records this process wrote have tags of their own: OwnTags is kept.
LEMMA OwnTagsStep ==
  ASSUME TypeOK, Quiet, Pipeline, RecoverFirst, RequestTags, OwnTags, QueuedOnce, [Next]_vars
  PROVE  OwnTags'
<1>1. CASE Own' = {}
  BY <1>1 DEF OwnTags
<1>2. CASE proc' # "up"
  BY <1>1, <1>2 DEF Own
<1>3. ASSUME Own' = Own, log' = log, proc' = "up" PROVE OwnTags'
  <2>1. posted \in Nat /\ posted' \in Nat /\ posted <= posted'
    <3>1. posted \in Nat
      BY Zenon DEF TypeOK
    <3>2. posted' = posted \/ posted' = posted + 1
      BY <1>3, RequestChanges, Posts, Zenon
    <3> QED
      BY ONLY <3>1, <3>2
  <2>2. \A n : n \in 1..posted => n \in 1..posted'
    BY <2>1
  <2> QED
    BY <1>3, <2>2 DEF OwnTags
<1>4. CASE LCWrite
  <2>1. \A i \in Own' : log'[i].tag \in 1..posted'
    BY <1>4, WritesOwn DEF OwnTags
  <2>2. \A i, j \in Own' : log'[i].tag = log'[j].tag => i = j
    <3>1. \A i \in Own : log'[i] = log[i] /\ log[i].tag # LCRecord.tag
      BY <1>4, WritesOwn DEF Unwritten
    <3> QED
      BY <1>4, <3>1, WritesOwn DEF OwnTags
  <2> QED
    BY <2>1, <2>2 DEF OwnTags
<1> QED
  BY <1>1, <1>2, <1>3, <1>4, OwnChanges

\* A record keeps its owner unless a request with its tag is released.
LEMMA OwnerKept ==
  ASSUME TypeOK, Pipeline, [Next]_vars, proc' = "up", NEW r \in LogRecord, HasOwner(r),
         \A c \in Clients : Released(c) => request[c].tag # r.tag
  PROVE  HasOwnerNext(r)
<1>1. PICK d \in Clients : IsOf(r, d)
  BY DEF HasOwner
<1>2. request[d] # NoRequest /\ request[d].tag = r.tag
  BY <1>1, OwnerWaits DEF Waiting
<1>3. request'[d] = request[d]
  <2>1. CASE UNCHANGED request
    BY <2>1
  <2>2. ASSUME NEW c \in Clients, PostKVRequest(c) PROVE request'[d] = request[d]
    BY <1>2, <2>2, Posts
  <2>3. ASSUME NEW c \in Clients, Released(c) PROVE request'[d] = request[d]
    BY <1>2, <2>3, ReleasedFacts
  <2> QED
    BY <2>1, <2>2, <2>3, RequestChanges
<1> QED
  BY <1>1, <1>3 DEF IsOf, HasOwnerNext, IsOfNext

\* An owner in the next state was one before, unless the request is new.
LEMMA OwnerWas ==
  ASSUME TypeOK, Pipeline, [Next]_vars, proc' = "up", NEW r \in LogRecord, NEW c \in Clients,
         IsOfNext(r, c), r.tag # posted + 1
  PROVE  IsOf(r, c) /\ request'[c] = request[c]
<1>1. [op |-> r.op, tag |-> r.tag] \in Request
  BY DEF LogRecord, Request
<1>2. request'[c] # NoRequest /\ request'[c].tag = r.tag
  BY <1>1, ConstantsAssumption DEF IsOfNext
<1>3. request'[c] = request[c]
  <2>1. CASE UNCHANGED request
    BY <2>1
  <2>2. ASSUME NEW d \in Clients, PostKVRequest(d) PROVE request'[c] = request[c]
    BY <1>2, <2>2, Posts
  <2>3. ASSUME NEW d \in Clients, Released(d) PROVE request'[c] = request[c]
    BY <1>2, <2>3, ReleasedFacts
  <2> QED
    BY <2>1, <2>2, <2>3, RequestChanges
<1> QED
  BY <1>3 DEF IsOf, IsOfNext

\* The tags on the way to the log were given out, so that the next one is new.
LEMMA NewTag ==
  ASSUME TypeOK, RequestTags, OwnTags, QueuedOnce
  PROVE  /\ \A i \in Own : log[i].tag # posted + 1
         /\ \A j \in 1..Len(lcQueue) : IsWrite(j) => lcQueue[j].record.tag # posted + 1
         /\ rcRecord # NoRecord => rcRecord.tag # posted + 1
<1>1. posted \in Nat
  BY DEF TypeOK
<1>2. \A r \in LogRecord : HasOwner(r) => r.tag \in 1..posted
  <2> SUFFICES ASSUME NEW r \in LogRecord, HasOwner(r) PROVE r.tag \in 1..posted
    OBVIOUS
  <2>1. PICK c \in Clients : IsOf(r, c)
    BY DEF HasOwner
  <2>2. Waiting(c) /\ request[c].tag = r.tag
    BY <2>1, OwnerWaits
  <2> QED
    BY <2>2 DEF RequestTags
<1>3. \A j \in 1..Len(lcQueue) : lcQueue[j].record \in LogRecord
  <2> TAKE j \in 1..Len(lcQueue)
  <2>1. lcQueue[j] \in LCCtx
    BY ElementOfSeq DEF TypeOK
  <2> QED
    BY <2>1 DEF LCCtx
<1>4. rcRecord # NoRecord => rcRecord \in LogRecord
  BY DEF TypeOK
<1>5. \A n \in 1..posted : n # posted + 1
  BY <1>1
<1> QED
  BY <1>2, <1>3, <1>4, <1>5 DEF OwnTags, QueuedOnce

\* The first part of QueuedOnce: what RequestCenter has not taken yet.
RecvOnceNext ==
  \A i \in 1..Len(rcQueue') : rcQueue'[i].type = "recv" =>
    /\ UnwrittenNext(request'[rcQueue'[i].client].tag)
    /\ NotQueuedNext(request'[rcQueue'[i].client].tag, Len(lcQueue'))
    /\ rcRecord' # NoRecord => rcRecord'.tag # request'[rcQueue'[i].client].tag

\* The requests RequestCenter has not taken yet stay unwritten and unqueued.
LEMMA RecvOnceStep ==
  ASSUME TypeOK, Quiet, RecoverFirst, Pipeline, Reported, RequestTags, OwnTags, QueuedOnce,
         [Next]_vars, proc' = "up"
  PROVE  RecvOnceNext
<1> USE DEF bootVars, clientVars, rcVars, lcVars, idVars, logVars, histVars
<1> DEFINE tg(i) == request[rcQueue[i].client].tag
<1>0. \A i \in 1..Len(rcQueue) : IsRecv(i) =>
        /\ rcQueue[i].client \in Clients /\ Waiting(rcQueue[i].client)
        /\ Unwritten(tg(i)) /\ NotQueued(tg(i), Len(lcQueue))
        /\ rcRecord # NoRecord => rcRecord.tag # tg(i)
  <2>1. \A i \in 1..Len(rcQueue) : rcQueue[i] \in RCCtx
    BY ElementOfSeq DEF TypeOK
  <2>2. \A i \in 1..Len(rcQueue) : IsRecv(i) => rcQueue[i].client \in Clients
    BY <2>1 DEF RCCtx, IsRecv
  <2> QED
    BY <2>2 DEF QueuedOnce, Pipeline
<1>a. Len(rcQueue) \in Nat /\ Len(lcQueue) \in Nat
  BY DEF TypeOK
<1>1. CASE UNCHANGED <<request, rcQueue, rcRecord, lcQueue, log>> /\ Own' = Own
  BY <1>0, <1>1 DEF RecvOnceNext, UnwrittenNext, NotQueuedNext, Unwritten, NotQueued, IsWrite, IsRecv
<1>2. CASE BootDone
  <2>1. Len(rcQueue') = 0
    BY <1>2, ComesUp
  <2> QED
    BY <2>1 DEF RecvOnceNext
<1>3. ASSUME NEW c \in Clients, PostKVRequest(c) PROVE RecvOnceNext
  <2>1. Own' = Own
    BY <1>3, Posts DEF Own
  <2>2. ASSUME NEW i \in 1..Len(rcQueue), IsRecv(i)
        PROVE  rcQueue'[i] = rcQueue[i] /\ request'[rcQueue[i].client] = request[rcQueue[i].client]
    <3>1. rcQueue[i].client # c
      BY <1>0, <1>3, <2>2, Posts DEF Waiting
    <3> QED
      BY <1>0, <1>3, <2>2, <3>1, Posts
  <2>3. ASSUME NEW i \in 1..Len(rcQueue'), rcQueue'[i].type = "recv"
        PROVE  /\ UnwrittenNext(request'[rcQueue'[i].client].tag)
               /\ NotQueuedNext(request'[rcQueue'[i].client].tag, Len(lcQueue'))
               /\ rcRecord' # NoRecord => rcRecord'.tag # request'[rcQueue'[i].client].tag
    <3>1. CASE i = Len(rcQueue')
      <4>1. request'[rcQueue'[i].client].tag = posted + 1
        BY <1>3, <3>1, Posts
      <4> QED
        BY <1>3, <2>1, <4>1, NewTag, Posts DEF UnwrittenNext, NotQueuedNext, IsWrite
    <3>2. CASE i \in 1..Len(rcQueue)
      <4>1. IsRecv(i)
        BY <1>3, <2>3, <3>2, Posts DEF IsRecv
      <4>2. /\ request'[rcQueue'[i].client].tag = tg(i)
            /\ Unwritten(tg(i)) /\ NotQueued(tg(i), Len(lcQueue))
            /\ rcRecord # NoRecord => rcRecord.tag # tg(i)
        BY <1>0, <2>2, <3>2, <4>1
      <4> HIDE DEF tg
      <4> QED
        BY <1>3, <2>1, <4>2, Posts DEF UnwrittenNext, NotQueuedNext, Unwritten, NotQueued, IsWrite
    <3> QED
      BY <1>3, <1>a, <3>1, <3>2, Posts
  <2> QED
    BY <2>3 DEF RecvOnceNext
<1>4. CASE RCGet \/ RCNewRequest \/ RCFinish
  <2>1. /\ rcQueue # <<>> /\ rcQueue' = Tail(rcQueue)
        /\ UNCHANGED <<lcQueue, log, proc, bootRead>>
    BY <1>4 DEF RCGet, RCNewRequest, RCFinish, RCTakes
  <2>2. /\ Len(rcQueue') = Len(rcQueue) - 1 /\ 1 \in 1..Len(rcQueue)
        /\ \A i \in 1..Len(rcQueue') : rcQueue'[i] = rcQueue[i + 1] /\ i + 1 \in 1..Len(rcQueue)
    BY <2>1, RcQueueTail
  <2>3. Own' = Own
    BY <2>1 DEF Own
  <2>4. ASSUME NEW i \in 1..Len(rcQueue'), rcQueue'[i].type = "recv"
        PROVE  /\ UnwrittenNext(request'[rcQueue'[i].client].tag)
               /\ NotQueuedNext(request'[rcQueue'[i].client].tag, Len(lcQueue'))
               /\ rcRecord' # NoRecord => rcRecord'.tag # request'[rcQueue'[i].client].tag
    <3>1. /\ i + 1 \in 1..Len(rcQueue) /\ rcQueue'[i] = rcQueue[i + 1] /\ IsRecv(i + 1)
          /\ i + 1 # 1
      BY <2>2, <2>4 DEF IsRecv
    <3>2. /\ rcQueue[i + 1].client \in Clients /\ Waiting(rcQueue[i + 1].client)
          /\ Unwritten(tg(i + 1)) /\ NotQueued(tg(i + 1), Len(lcQueue))
          /\ rcRecord # NoRecord => rcRecord.tag # tg(i + 1)
      BY <1>0, <3>1
    <3>3. IsRecv(1) => rcQueue[1].client # rcQueue[i + 1].client
      BY <2>2, <3>1 DEF Pipeline
    <3>4. request'[rcQueue[i + 1].client] = request[rcQueue[i + 1].client]
      <4>1. CASE RCGet
        <5>1. RCClient \in Clients /\ Released(RCClient) /\ RCClient = rcQueue[1].client /\ IsRecv(1)
          BY <4>1, Gets
        <5> QED
          BY <3>2, <3>3, <5>1, ReleasedFacts
      <4>2. CASE RCNewRequest \/ RCFinish
        BY <4>2 DEF RCNewRequest, RCFinish
      <4> QED
        BY <1>4, <4>1, <4>2
    <3>5. rcRecord' # NoRecord => rcRecord'.tag # tg(i + 1)
      <4>1. CASE RCGet \/ RCFinish
        <5>1. rcRecord' = rcRecord
          BY <4>1 DEF RCGet, RCFinish
        <5> QED
          BY <3>2, <5>1
      <4>2. CASE RCNewRequest
        <5>1. /\ RCClient \in Clients /\ RCClient = rcQueue[1].client /\ IsRecv(1)
          BY <4>2, TakesRecv DEF RCNewRequest
        <5>2. rcRecord'.tag = request[RCClient].tag
          BY <4>2 DEF RCNewRequest
        <5>3. Waiting(RCClient) /\ RCClient # rcQueue[i + 1].client
          BY <1>0, <2>2, <3>3, <5>1
        <5> QED
          BY <3>2, <5>1, <5>2, <5>3 DEF RequestTags
      <4> QED
        BY <1>4, <4>1, <4>2
    <3> QED
      BY <2>1, <2>3, <3>1, <3>2, <3>4, <3>5
         DEF UnwrittenNext, NotQueuedNext, Unwritten, NotQueued, IsWrite
  <2> QED
    BY <2>4 DEF RecvOnceNext
<1>5. CASE RCAppendLogRecord
  <2>1. /\ rcRecord \in LogRecord /\ rcRecord # NoRecord
        /\ lcQueue' = Append(lcQueue, LogCtx("write", rcRecord))
        /\ UNCHANGED <<request, rcQueue, log, proc, bootRead>> /\ rcRecord' = NoRecord
    BY <1>5 DEF TypeOK, RCAppendLogRecord
  <2>2. /\ Len(lcQueue') = Len(lcQueue) + 1
        /\ \A j \in 1..Len(lcQueue) : lcQueue'[j] = lcQueue[j]
        /\ lcQueue'[Len(lcQueue')].record = rcRecord
    BY <2>1, LcQueueAppend
  <2>3. Own' = Own
    BY <2>1 DEF Own
  <2>4. ASSUME NEW t, NotQueued(t, Len(lcQueue)), rcRecord.tag # t
        PROVE  NotQueuedNext(t, Len(lcQueue'))
    BY <1>a, <2>2, <2>4 DEF NotQueued, NotQueuedNext, IsWrite
  <2> QED
    BY <1>0, <2>1, <2>3, <2>4 DEF RecvOnceNext, UnwrittenNext, Unwritten, IsRecv
<1>6. ASSUME NEW p \in rcPairs, RCAnswer(p) PROVE RecvOnceNext
  <2>1. /\ mRequests[p.id] \in Clients /\ p.id \in DOMAIN mRequests /\ Released(mRequests[p.id])
        /\ UNCHANGED <<proc, bootRead, rcQueue, rcRecord, lcQueue, log>>
    BY <1>6, Answers
  <2>2. \A i \in 1..Len(rcQueue) : IsRecv(i) => rcQueue[i].client # mRequests[p.id]
    BY <2>1 DEF Pipeline
  <2>3. \A i \in 1..Len(rcQueue) : IsRecv(i) =>
           request'[rcQueue[i].client] = request[rcQueue[i].client]
    BY <1>0, <2>1, <2>2, ReleasedFacts
  <2>4. Own' = Own
    BY <2>1 DEF Own
  <2> QED
    BY <1>0, <2>1, <2>3, <2>4
       DEF RecvOnceNext, UnwrittenNext, NotQueuedNext, Unwritten, NotQueued, IsWrite, IsRecv
<1>7. CASE LCRecover \/ LCWrite
  <2>1. lcQueue # <<>> /\ lcQueue' = Tail(lcQueue) /\ UNCHANGED <<request, rcQueue, rcRecord>>
    BY <1>7 DEF LCRecover, LCWrite, LCTakes
  <2>2. /\ Len(lcQueue') = Len(lcQueue) - 1 /\ 1 \in 1..Len(lcQueue)
        /\ \A j \in 1..Len(lcQueue') : lcQueue'[j] = lcQueue[j + 1] /\ j + 1 \in 1..Len(lcQueue)
    BY <2>1, LcQueueTail
  <2>3. ASSUME NEW t, NotQueued(t, Len(lcQueue)) PROVE NotQueuedNext(t, Len(lcQueue'))
    BY <2>2, <2>3 DEF NotQueued, NotQueuedNext, IsWrite
  <2>4. ASSUME NEW t, NotQueued(t, Len(lcQueue)), Unwritten(t) PROVE UnwrittenNext(t)
    <3>1. CASE LCRecover
      BY <2>4, <3>1 DEF LCRecover, UnwrittenNext, Unwritten, Own
    <3>2. CASE LCWrite
      <4>1. LCRecord.tag # t
        BY <2>4, <3>2, WritesRecord DEF NotQueued
      <4> QED
        BY <2>4, <3>2, <4>1, WritesOwn DEF UnwrittenNext, Unwritten
    <3> QED
      BY <1>7, <3>1, <3>2
  <2> QED
    BY <1>0, <2>1, <2>3, <2>4 DEF RecvOnceNext, IsRecv
<1>8. CASE LCRespond
  <2>1. /\ UNCHANGED <<request, rcRecord, lcQueue, log, proc, bootRead>>
        /\ \E e \in RCCtx : e.type = "finish" /\ rcQueue' = Append(rcQueue, e)
    BY <1>8, RespondPairs DEF LCRespond
  <2>2. /\ Len(rcQueue') = Len(rcQueue) + 1
        /\ \A i \in 1..Len(rcQueue) : rcQueue'[i] = rcQueue[i]
        /\ rcQueue'[Len(rcQueue')].type = "finish"
    BY <2>1, RcQueueAppend
  <2>3. Own' = Own
    BY <2>1 DEF Own
  <2>4. \A i \in 1..Len(rcQueue') : rcQueue'[i].type = "recv" =>
          i \in 1..Len(rcQueue) /\ rcQueue'[i] = rcQueue[i]
    BY <1>a, <2>2
  <2> QED
    BY <1>0, <2>1, <2>3, <2>4
       DEF RecvOnceNext, UnwrittenNext, NotQueuedNext, Unwritten, NotQueued, IsWrite, IsRecv
<1>9. CASE LCFlush
  BY <1>1, <1>9, LogFlushKept DEF LCFlush, Own
<1>10. CASE UNCHANGED vars
  BY <1>1, <1>10 DEF vars, Own
<1> QED
  BY <1>2, <1>3, <1>4, <1>5, <1>6, <1>7, <1>8, <1>9, <1>10, UpSteps

\* A record that comes back to RequestCenter has been written.
LEMMA AnswersWritten ==
  ASSUME TypeOK, ReturnsOwn, NEW p \in rcPairs
  PROVE  \E i \in Own : i <= flushed /\ log[i] = p.record
BY DEF ReturnsOwn, OwnIsFlushed

\* No request with the tag of a record that has not been written is released,
\* if RequestCenter does not hold it.
LEMMA NotReleased ==
  ASSUME TypeOK, Pipeline, Reported, RequestTags, ReturnsOwn, [Next]_vars, proc' = "up",
         NEW t, Unwritten(t),
         \A i \in 1..Len(rcQueue) : IsRecv(i) => request[rcQueue[i].client].tag # t,
         NEW c \in Clients, Released(c)
  PROVE  request[c].tag # t
<1> USE DEF bootVars, clientVars, rcVars, lcVars, idVars, logVars, histVars
<1>0. request[c] # NoRequest /\ request'[c] = NoRequest
  BY ReleasedFacts
<1>1. CASE UNCHANGED request
  BY <1>0, <1>1
<1>2. ASSUME NEW d \in Clients, PostKVRequest(d) PROVE FALSE
  <2>1. /\ request[d] = NoRequest /\ request'[d] \in Request
        /\ \A e \in Clients : e # d => request'[e] = request[e]
    BY <1>2, Posts
  <2> QED
    BY <1>0, <2>1, ConstantsAssumption
<1>3. CASE RCGet
  <2>1. /\ RCClient \in Clients /\ Released(RCClient) /\ RCClient = rcQueue[1].client
        /\ IsRecv(1) /\ 1 \in 1..Len(rcQueue)
    BY <1>3, Gets
  <2>2. RCClient = c
    BY <1>0, <2>1, ReleasedFacts
  <2> QED
    BY <2>1, <2>2
<1>4. ASSUME NEW p \in rcPairs, RCAnswer(p) PROVE request[c].tag # t
  <2>1. /\ mRequests[p.id] \in Clients /\ Released(mRequests[p.id])
        /\ IsOf(p.record, mRequests[p.id]) /\ p.record \in LogRecord
    BY <1>4, Answers
  <2>2. mRequests[p.id] = c
    BY <1>0, <2>1, ReleasedFacts
  <2>3. request[c].tag = p.record.tag
    BY <2>1, <2>2, OwnerWaits
  <2>4. p.record.tag # t
    BY AnswersWritten DEF Unwritten
  <2> QED
    BY <2>3, <2>4
<1> QED
  BY <1>1, <1>2, <1>3, <1>4, UpSteps
     DEF vars, BootDone, RCNewRequest, RCAppendLogRecord, RCFinish, LCRecover, LCWrite, LCFlush,
         LCRespond, ForgetResponded

\* The second part of QueuedOnce: the record RequestCenter is indexing.
RecordOnceNext ==
  rcRecord' # NoRecord =>
    /\ HasOwnerNext(rcRecord') /\ UnwrittenNext(rcRecord'.tag)
    /\ NotQueuedNext(rcRecord'.tag, Len(lcQueue'))

\* So does the record ReceiveClientRequest is working on.
LEMMA RecordOnceStep ==
  ASSUME TypeOK, Quiet, RecoverFirst, Pipeline, Reported, RequestTags, OwnTags, QueuedOnce,
         ReturnsOwn, [Next]_vars, proc' = "up"
  PROVE  RecordOnceNext
<1> USE DEF bootVars, clientVars, rcVars, lcVars, idVars, logVars, histVars
<1>a. Len(lcQueue) \in Nat
  BY DEF TypeOK
<1>b. ASSUME rcRecord # NoRecord, rcRecord' = rcRecord PROVE HasOwnerNext(rcRecord')
  <2>1. /\ rcRecord \in LogRecord /\ HasOwner(rcRecord) /\ Unwritten(rcRecord.tag)
        /\ \A i \in 1..Len(rcQueue) : IsRecv(i) => request[rcQueue[i].client].tag # rcRecord.tag
    BY <1>b DEF QueuedOnce, TypeOK
  <2>2. \A c \in Clients : Released(c) => request[c].tag # rcRecord.tag
    BY <2>1, NotReleased
  <2> QED
    BY <1>b, <2>1, <2>2, OwnerKept
<1>1. CASE UNCHANGED <<rcRecord, lcQueue, log>> /\ Own' = Own
  BY <1>1, <1>b DEF RecordOnceNext, QueuedOnce, UnwrittenNext, NotQueuedNext, Unwritten, NotQueued, IsWrite
<1>2. CASE BootDone
  BY <1>2, ComesUp DEF RecordOnceNext
<1>3. ASSUME NEW c \in Clients, PostKVRequest(c) PROVE RecordOnceNext
  BY <1>1, <1>3, Posts DEF Own
<1>4. CASE RCGet \/ RCFinish
  BY <1>1, <1>4 DEF RCGet, RCFinish, Own
<1>5. CASE RCNewRequest
  <2>1. /\ RCClient \in Clients /\ RCClient = rcQueue[1].client /\ IsRecv(1)
        /\ 1 \in 1..Len(rcQueue)
    <3>1. rcQueue # <<>> /\ rcQueue' = Tail(rcQueue)
      BY <1>5 DEF RCNewRequest, RCTakes
    <3> QED
      BY <1>5, <3>1, TakesRecv, RcQueueTail DEF RCNewRequest
  <2>2. request[RCClient] = [op |-> rcRecord'.op, tag |-> rcRecord'.tag]
    BY <1>5, NewRecord
  <2>3. rcRecord'.tag = request[RCClient].tag
    BY <1>5 DEF RCNewRequest
  <2>4. UNCHANGED <<request, lcQueue, log, proc, bootRead>>
    BY <1>5 DEF RCNewRequest
  <2>5. Unwritten(rcRecord'.tag) /\ NotQueued(rcRecord'.tag, Len(lcQueue))
    BY <2>1, <2>3 DEF QueuedOnce
  <2>6. Own' = Own
    BY <2>4 DEF Own
  <2>7. HasOwnerNext(rcRecord')
    BY <2>1, <2>2, <2>4 DEF HasOwnerNext, IsOfNext
  <2> QED
    BY <2>4, <2>5, <2>6, <2>7
       DEF RecordOnceNext, UnwrittenNext, NotQueuedNext, Unwritten, NotQueued, IsWrite
<1>6. CASE RCAppendLogRecord
  BY <1>6 DEF RCAppendLogRecord, RecordOnceNext
<1>7. ASSUME NEW p \in rcPairs, RCAnswer(p) PROVE RecordOnceNext
  BY <1>1, <1>7, Answers DEF Own
<1>8. CASE LCRecover \/ LCWrite
  <2>1. lcQueue # <<>> /\ lcQueue' = Tail(lcQueue) /\ UNCHANGED <<rcQueue, rcRecord>>
    BY <1>8 DEF LCRecover, LCWrite, LCTakes
  <2>2. /\ Len(lcQueue') = Len(lcQueue) - 1 /\ 1 \in 1..Len(lcQueue)
        /\ \A j \in 1..Len(lcQueue') : lcQueue'[j] = lcQueue[j + 1] /\ j + 1 \in 1..Len(lcQueue)
    BY <2>1, LcQueueTail
  <2>3. ASSUME NEW t, NotQueued(t, Len(lcQueue)) PROVE NotQueuedNext(t, Len(lcQueue'))
    BY <2>2, <2>3 DEF NotQueued, NotQueuedNext, IsWrite
  <2>4. ASSUME NEW t, NotQueued(t, Len(lcQueue)), Unwritten(t) PROVE UnwrittenNext(t)
    <3>1. CASE LCRecover
      BY <2>4, <3>1 DEF LCRecover, UnwrittenNext, Unwritten, Own
    <3>2. CASE LCWrite
      <4>1. LCRecord.tag # t
        BY <2>4, <3>2, WritesRecord DEF NotQueued
      <4> QED
        BY <2>4, <3>2, <4>1, WritesOwn DEF UnwrittenNext, Unwritten
    <3> QED
      BY <1>8, <3>1, <3>2
  <2> QED
    BY <1>b, <2>1, <2>3, <2>4 DEF RecordOnceNext, QueuedOnce
<1>9. CASE LCRespond
  BY <1>1, <1>9 DEF LCRespond, Own
<1>10. CASE LCFlush
  BY <1>1, <1>10, LogFlushKept DEF LCFlush, Own
<1>11. CASE UNCHANGED vars
  BY <1>1, <1>11 DEF vars, Own
<1> QED
  BY <1>2, <1>3, <1>4, <1>5, <1>6, <1>7, <1>8, <1>9, <1>10, <1>11, UpSteps

\* The third part of QueuedOnce: the records LogCenter has not taken yet.
WriteOnceNext ==
  \A j \in 1..Len(lcQueue') : lcQueue'[j].type = "write" =>
    /\ HasOwnerNext(lcQueue'[j].record) /\ UnwrittenNext(lcQueue'[j].record.tag)
    /\ NotQueuedNext(lcQueue'[j].record.tag, j - 1)

\* So do the records in the queue of LogCenter.
LEMMA WriteOnceStep ==
  ASSUME TypeOK, Quiet, RecoverFirst, Pipeline, Reported, RequestTags, OwnTags, QueuedOnce,
         ReturnsOwn, [Next]_vars, proc' = "up"
  PROVE  WriteOnceNext
<1> USE DEF bootVars, clientVars, rcVars, lcVars, idVars, logVars, histVars
<1>a. Len(lcQueue) \in Nat
  BY DEF TypeOK
<1>b. \A j \in 1..Len(lcQueue) : lcQueue[j].record \in LogRecord
  <2> TAKE j \in 1..Len(lcQueue)
  <2>1. lcQueue[j] \in LCCtx
    BY ElementOfSeq DEF TypeOK
  <2> QED
    BY <2>1 DEF LCCtx
<1>c. ASSUME NEW j \in 1..Len(lcQueue), IsWrite(j) PROVE HasOwnerNext(lcQueue[j].record)
  <2> DEFINE r == lcQueue[j].record
  <2>1. r \in LogRecord /\ HasOwner(r) /\ Unwritten(r.tag)
    BY <1>b, <1>c DEF QueuedOnce
  <2>2. \A i \in 1..Len(rcQueue) : IsRecv(i) => request[rcQueue[i].client].tag # r.tag
    BY <1>c DEF QueuedOnce, NotQueued
  <2> HIDE DEF r
  <2>3. \A c \in Clients : Released(c) => request[c].tag # r.tag
    BY <2>1, <2>2, NotReleased
  <2>4. HasOwnerNext(r)
    BY <2>1, <2>3, OwnerKept
  <2> QED
    BY <2>4 DEF r
<1>1. CASE UNCHANGED <<lcQueue, log>> /\ Own' = Own
  <2>1. \A j \in 1..Len(lcQueue') : lcQueue'[j].type = "write" =>
          UnwrittenNext(lcQueue'[j].record.tag) /\ NotQueuedNext(lcQueue'[j].record.tag, j - 1)
    BY <1>1 DEF QueuedOnce, UnwrittenNext, NotQueuedNext, Unwritten, NotQueued, IsWrite
  <2> QED
    BY <1>1, <1>c, <2>1 DEF WriteOnceNext, IsWrite
<1>2. CASE BootDone
  <2>1. \A j \in 1..Len(lcQueue') : lcQueue'[j].type # "write"
    BY <1>2, ComesUp DEF IsRecover
  <2> QED
    BY <2>1 DEF WriteOnceNext
<1>3. ASSUME NEW c \in Clients, PostKVRequest(c) PROVE WriteOnceNext
  BY <1>1, <1>3, Posts DEF Own
<1>4. CASE RCGet \/ RCFinish \/ RCNewRequest
  BY <1>1, <1>4 DEF RCGet, RCFinish, RCNewRequest, Own
<1>5. CASE RCAppendLogRecord
  <2>1. /\ rcRecord \in LogRecord /\ rcRecord # NoRecord
        /\ lcQueue' = Append(lcQueue, LogCtx("write", rcRecord))
        /\ UNCHANGED <<request, rcQueue, log, proc, bootRead>>
    BY <1>5 DEF TypeOK, RCAppendLogRecord
  <2>2. /\ Len(lcQueue') = Len(lcQueue) + 1
        /\ \A j \in 1..Len(lcQueue) : lcQueue'[j] = lcQueue[j]
        /\ lcQueue'[Len(lcQueue')].record = rcRecord
    BY <2>1, LcQueueAppend
  <2>3. Own' = Own
    BY <2>1 DEF Own
  <2>4. ASSUME NEW j \in 1..Len(lcQueue), IsWrite(j)
        PROVE  /\ HasOwnerNext(lcQueue[j].record) /\ UnwrittenNext(lcQueue[j].record.tag)
               /\ NotQueuedNext(lcQueue[j].record.tag, j - 1)
    <3>1. Unwritten(lcQueue[j].record.tag) /\ NotQueued(lcQueue[j].record.tag, j - 1)
      BY <2>4 DEF QueuedOnce
    <3>2. \A i \in 1..(j - 1) : i \in 1..Len(lcQueue)
      OBVIOUS
    <3> QED
      BY <1>c, <2>1, <2>2, <2>3, <2>4, <3>1, <3>2
         DEF UnwrittenNext, NotQueuedNext, Unwritten, NotQueued, IsWrite
  <2>5. HasOwner(rcRecord) /\ Unwritten(rcRecord.tag) /\ NotQueued(rcRecord.tag, Len(lcQueue))
    BY <2>1 DEF QueuedOnce
  <2>6. HasOwnerNext(rcRecord) /\ UnwrittenNext(rcRecord.tag) /\ NotQueuedNext(rcRecord.tag, Len(lcQueue))
    BY <2>1, <2>2, <2>3, <2>5
       DEF HasOwnerNext, IsOfNext, HasOwner, IsOf, UnwrittenNext, NotQueuedNext, Unwritten, NotQueued, IsWrite
  <2>7. ASSUME NEW j \in 1..Len(lcQueue'), lcQueue'[j].type = "write"
        PROVE  /\ HasOwnerNext(lcQueue'[j].record) /\ UnwrittenNext(lcQueue'[j].record.tag)
               /\ NotQueuedNext(lcQueue'[j].record.tag, j - 1)
    <3>1. CASE j \in 1..Len(lcQueue)
      <4>1. lcQueue'[j] = lcQueue[j]
        BY <2>2, <3>1
      <4>2. IsWrite(j)
        BY <2>7, <4>1 DEF IsWrite
      <4> QED
        BY <2>4, <3>1, <4>1, <4>2
    <3>2. CASE j = Len(lcQueue')
      <4>1. j - 1 = Len(lcQueue) /\ lcQueue'[j].record = rcRecord
        BY <1>a, <2>2, <3>2
      <4> QED
        BY <2>6, <4>1
    <3> QED
      BY <1>a, <2>2, <3>1, <3>2
  <2> QED
    BY <2>7 DEF WriteOnceNext
<1>6. ASSUME NEW p \in rcPairs, RCAnswer(p) PROVE WriteOnceNext
  BY <1>1, <1>6, Answers DEF Own
<1>7. CASE LCRecover \/ LCWrite
  <2>1. lcQueue # <<>> /\ lcQueue' = Tail(lcQueue)
    BY <1>7 DEF LCRecover, LCWrite, LCTakes
  <2>2. /\ Len(lcQueue') = Len(lcQueue) - 1 /\ 1 \in 1..Len(lcQueue)
        /\ \A j \in 1..Len(lcQueue') : lcQueue'[j] = lcQueue[j + 1] /\ j + 1 \in 1..Len(lcQueue)
    BY <2>1, LcQueueTail
  <2>3. ASSUME NEW j \in 1..Len(lcQueue'), lcQueue'[j].type = "write"
        PROVE  /\ HasOwnerNext(lcQueue'[j].record) /\ UnwrittenNext(lcQueue'[j].record.tag)
               /\ NotQueuedNext(lcQueue'[j].record.tag, j - 1)
    <3> DEFINE t == lcQueue'[j].record.tag
    <3>1. lcQueue'[j] = lcQueue[j + 1] /\ j + 1 \in 1..Len(lcQueue) /\ IsWrite(j + 1)
      BY <2>2, <2>3 DEF IsWrite
    <3>2. HasOwnerNext(lcQueue'[j].record)
      BY <1>c, <3>1
    <3>3. Unwritten(t) /\ NotQueued(t, j)
      <4>1. (j + 1) - 1 = j
        OBVIOUS
      <4> QED
        BY <3>1, <4>1 DEF QueuedOnce
    <3> HIDE DEF t
    <3>4. NotQueuedNext(t, j - 1)
      <4>1. \A i \in 1..(j - 1) : i \in 1..Len(lcQueue') /\ i + 1 \in 1..j
        OBVIOUS
      <4> QED
        BY <2>2, <3>3, <4>1 DEF NotQueued, NotQueuedNext, IsWrite
    <3>5. UnwrittenNext(t)
      <4>1. CASE LCRecover
        BY <3>3, <4>1 DEF LCRecover, UnwrittenNext, Unwritten, Own
      <4>2. CASE LCWrite
        <5>1. LCRecord.tag # t
          <6>1. 1 \in 1..j
            OBVIOUS
          <6> QED
            BY <3>3, <4>2, <6>1, WritesRecord DEF NotQueued
        <5> QED
          BY <3>3, <4>2, <5>1, WritesOwn DEF UnwrittenNext, Unwritten
      <4> QED
        BY <1>7, <4>1, <4>2
    <3> QED
      BY <3>2, <3>4, <3>5 DEF t
  <2> QED
    BY <2>3 DEF WriteOnceNext
<1>8. CASE LCRespond
  BY <1>1, <1>8 DEF LCRespond, Own
<1>9. CASE LCFlush
  BY <1>1, <1>9, LogFlushKept DEF LCFlush, Own
<1>10. CASE UNCHANGED vars
  BY <1>1, <1>10 DEF vars, Own
<1> QED
  BY <1>2, <1>3, <1>4, <1>5, <1>6, <1>7, <1>8, <1>9, <1>10, UpSteps

\* A request on its way to the log stays there once: QueuedOnce is kept.
LEMMA QueuedOnceStep ==
  ASSUME TypeOK, Quiet, Quiet', RecoverFirst, Pipeline, Reported, RequestTags, OwnTags, QueuedOnce,
         ReturnsOwn, [Next]_vars
  PROVE  QueuedOnce'
<1>1. CASE proc' # "up"
  <2>1. Len(rcQueue') = 0 /\ rcRecord' = NoRecord /\ \A j \in 1..Len(lcQueue') : lcQueue'[j].type # "write"
    BY <1>1 DEF Quiet, IsRecover
  <2> QED
    BY <2>1 DEF QueuedOnce, IsWrite
<1>2. CASE proc' = "up"
  <2>1. RecvOnceNext
    BY <1>2, RecvOnceStep
  <2>2. RecordOnceNext
    BY <1>2, RecordOnceStep
  <2>3. WriteOnceNext
    BY <1>2, WriteOnceStep
  <2> QED
    BY <2>1, <2>2, <2>3
       DEF QueuedOnce, RecvOnceNext, RecordOnceNext, WriteOnceNext, Unwritten, UnwrittenNext,
           NotQueued, NotQueuedNext, HasOwner, HasOwnerNext, IsOf, IsOfNext, IsWrite, IsRecv
<1> QED
  BY <1>1, <1>2
-----------------------------------------------------------------------------
(***************************************************************************)
(* From the log back to RequestCenter.                                     *)
(***************************************************************************)
\* What this process wrote stays where it is.
LEMMA OwnStays ==
  ASSUME TypeOK, Quiet, RecoverFirst, RequestTags, QueuedOnce, [Next]_vars, proc' = "up"
  PROVE  /\ \A i \in Own : i \in Own' /\ log'[i] = log[i]
         /\ flushed \in Nat /\ flushed' \in Nat /\ flushed <= flushed'
         /\ Len(log) \in Nat /\ Own \subseteq 1..Len(log)
<1>1. flushed \in Nat /\ flushed' \in Nat /\ flushed <= flushed' /\ Len(log) \in Nat
  BY LogKeptStep DEF TypeOK, LogKept
<1>2. \A i \in Own : i \in Own' /\ log'[i] = log[i]
  BY OwnChanges, WritesOwn DEF Own
<1>3. Own \subseteq 1..Len(log)
  BY DEF Own
<1> QED
  BY <1>1, <1>2, <1>3

\* What comes back to RequestCenter this process wrote: ReturnsOwn is kept.
LEMMA ReturnsOwnStep ==
  ASSUME TypeOK, Quiet, Quiet', RecoverFirst, RequestTags, QueuedOnce, ReturnsOwn, [Next]_vars
  PROVE  ReturnsOwn'
<1> USE DEF bootVars, clientVars, rcVars, lcVars, idVars, logVars, histVars
<1>1. CASE proc' # "up"
  <2>1. /\ rcQueue' = <<>> /\ rcPairs' = {} /\ mToFlushLog' = EmptyMap /\ lcPc' = "loop"
    BY <1>1 DEF Quiet
  <2>2. DOMAIN mToFlushLog' = {} /\ Len(rcQueue') = 0
    BY <2>1, EmptyMapDomain
  <2> QED
    BY <2>1, <2>2 DEF ReturnsOwn
<1>2. CASE proc' = "up"
  <2>a. ~Dies
    BY <1>2 DEF Dies, MemoryLost
  <2>b. \A i \in Own : i \in Own' /\ log'[i] = log[i]
    BY <1>2, OwnStays
  <2>c. ASSUME NEW r, OwnIsFlushed(r) PROVE OwnIsFlushedNext(r)
    <3>1. PICK i \in Own : i <= flushed /\ log[i] = r
      BY <2>c DEF OwnIsFlushed
    <3>2. i <= flushed'
      BY <1>2, <3>1, OwnStays
    <3> QED
      BY <2>b, <3>1, <3>2 DEF OwnIsFlushedNext
  <2>1. lcPc' = "respond" => flushed' = Len(log')
    <3>1. CASE LCFlush
      BY <3>1, LogFlushKept DEF LCFlush
    <3>2. CASE LCWrite \/ LCRespond
      BY <3>2 DEF LCWrite, LCRespond
    <3>3. CASE UNCHANGED <<lcPc, flushed, log>>
      BY <3>3 DEF ReturnsOwn
    <3> QED
      BY <1>2, <3>1, <3>2, <3>3, UpSteps
         DEF vars, BootDone, PostKVRequest, RCGet, RCNewRequest, RCAppendLogRecord, RCFinish, RCAnswer, LCRecover
  <2>2. \A k \in DOMAIN mToFlushLog' : \E i \in Own' : log'[i] = mToFlushLog'[k]
    <3>1. CASE mToFlushLog' = mToFlushLog
      BY <2>b, <3>1 DEF ReturnsOwn
    <3>2. CASE LCWrite
      <4>1. /\ DOMAIN mToFlushLog' = DOMAIN mToFlushLog \cup {LCRecord.logId}
            /\ \A k \in DOMAIN mToFlushLog : mToFlushLog'[k] = mToFlushLog[k]
            /\ LCRecord.logId \notin DOMAIN mToFlushLog => mToFlushLog'[LCRecord.logId] = LCRecord
        BY <3>2, WritesRecord
      <4>2. Len(log) + 1 \in Own' /\ log'[Len(log) + 1] = LCRecord
        BY <3>2, WritesOwn
      <4> QED
        BY <2>b, <4>1, <4>2 DEF ReturnsOwn
    <3>3. CASE LCRespond
      BY <3>3, EmptyMapDomain DEF LCRespond, ForgetResponded
    <3> QED
      BY <1>2, <3>1, <3>2, <3>3, UpSteps
         DEF vars, BootDone, PostKVRequest, RCGet, RCNewRequest, RCAppendLogRecord, RCFinish, RCAnswer,
             LCRecover, LCFlush
  <2>3. \A p \in rcPairs' : OwnIsFlushedNext(p.record)
    BY <2>a, <2>c, PairsKept DEF ReturnsOwn
  <2>4. \A i \in 1..Len(rcQueue') : rcQueue'[i].type = "finish" =>
           \A p \in rcQueue'[i].pairs : OwnIsFlushedNext(p.record)
    <3>1. CASE ~LCRespond
      BY <2>a, <2>c, <3>1, FinishKept DEF ReturnsOwn, IsFinish
    <3>2. CASE LCRespond
      <4>1. PICK e \in RCCtx :
              /\ e.pairs = {[id |-> mLogId2RequestId[i], record |-> mToFlushLog[i]] : i \in DOMAIN mToFlushLog}
              /\ rcQueue' = Append(rcQueue, e)
        BY <3>2, RespondPairs
      <4>2. /\ Len(rcQueue') = Len(rcQueue) + 1 /\ Len(rcQueue) \in Nat
            /\ \A i \in 1..Len(rcQueue) : rcQueue'[i] = rcQueue[i]
            /\ rcQueue'[Len(rcQueue')] = e
        BY <4>1, RcQueueAppend
      <4>3. \A k \in DOMAIN mToFlushLog : OwnIsFlushed(mToFlushLog[k])
        <5>1. flushed = Len(log) /\ Own \subseteq 1..Len(log)
          BY <3>2 DEF LCRespond, ReturnsOwn, Own
        <5> QED
          BY <5>1 DEF ReturnsOwn, OwnIsFlushed
      <4>4. \A p \in e.pairs : OwnIsFlushedNext(p.record)
        BY <2>c, <4>1, <4>3
      <4> QED
        BY <2>c, <4>2, <4>4 DEF ReturnsOwn, IsFinish
    <3> QED
      BY <3>1, <3>2
  <2> QED
    BY <2>1, <2>2, <2>3, <2>4 DEF ReturnsOwn, OwnIsFlushed, OwnIsFlushedNext, IsFinish
<1> QED
  BY <1>1, <1>2

ComesNext(r) ==
  \/ \E k \in DOMAIN mToFlushLog' : mToFlushLog'[k] = r
  \/ \E p \in rcPairs' : p.record = r
  \/ \E i \in 1..Len(rcQueue') : rcQueue'[i].type = "finish" /\ \E p \in rcQueue'[i].pairs : p.record = r

\* What LogCenter has reported stays in the queue until RequestCenter takes it.
LEMMA FinishStays ==
  ASSUME TypeOK, Quiet, [Next]_vars, proc' = "up", NEW i \in 1..Len(rcQueue), IsFinish(i)
  PROVE  \/ RCFinish /\ rcPairs' = rcQueue[i].pairs
         \/ \E j \in 1..Len(rcQueue') : rcQueue'[j] = rcQueue[i]
<1> USE DEF bootVars, clientVars, rcVars, lcVars, idVars, logVars, histVars
<1>a. Len(rcQueue) \in Nat
  BY DEF TypeOK
<1>1. CASE rcQueue' = rcQueue
  BY <1>1
<1>2. ASSUME NEW e \in RCCtx, rcQueue' = Append(rcQueue, e)
      PROVE  \E j \in 1..Len(rcQueue') : rcQueue'[j] = rcQueue[i]
  <2>1. i \in 1..Len(rcQueue') /\ rcQueue'[i] = rcQueue[i]
    BY <1>2, RcQueueAppend
  <2> QED
    BY <2>1
<1>3. CASE RCGet \/ RCNewRequest \/ RCFinish
  <2>1. rcQueue # <<>> /\ rcQueue' = Tail(rcQueue)
    BY <1>3 DEF RCGet, RCNewRequest, RCFinish, RCTakes
  <2>2. /\ Head(rcQueue) = rcQueue[1] /\ Len(rcQueue') = Len(rcQueue) - 1
        /\ \A j \in 1..Len(rcQueue') : rcQueue'[j] = rcQueue[j + 1]
    BY <2>1, RcQueueTail
  <2>3. CASE i = 1
    <3>1. RCFinish
      BY <1>3, <2>2, <2>3 DEF RCGet, RCNewRequest, RCTakes, IsFinish
    <3> QED
      BY <2>2, <2>3, <3>1 DEF RCFinish
  <2>4. CASE i # 1
    <3>1. i - 1 \in 1..Len(rcQueue') /\ (i - 1) + 1 = i
      BY <1>a, <2>2, <2>4
    <3> QED
      BY <2>2, <3>1
  <2> QED
    BY <2>3, <2>4
<1>4. ASSUME NEW c \in Clients, PostKVRequest(c) PROVE \E e \in RCCtx : rcQueue' = Append(rcQueue, e)
  BY <1>4, RecvType DEF PostKVRequest
<1>5. LCRespond => \E e \in RCCtx : rcQueue' = Append(rcQueue, e)
  BY RespondPairs
<1> QED
  BY <1>1, <1>2, <1>3, <1>4, <1>5, UpSteps
     DEF vars, BootDone, RCAppendLogRecord, RCAnswer, LCRecover, LCWrite, LCFlush

\* A client that goes on waiting for what was written has its answer coming.
LEMMA ComesKept ==
  ASSUME TypeOK, Quiet, Pipeline, Reported, RequestTags, [Next]_vars, proc' = "up",
         NEW r \in LogRecord, NEW c \in Clients, IsOf(r, c), request'[c] = request[c], Comes(r)
  PROVE  ComesNext(r)
<1> USE DEF bootVars, clientVars, rcVars, lcVars, idVars, logVars, histVars
<1>a. ~Dies
  BY DEF Dies, MemoryLost
<1>1. ASSUME NEW k \in DOMAIN mToFlushLog, mToFlushLog[k] = r PROVE ComesNext(r)
  <2>1. CASE LCRespond
    <3>1. PICK e \in RCCtx :
            /\ e.type = "finish"
            /\ e.pairs = {[id |-> mLogId2RequestId[n], record |-> mToFlushLog[n]] : n \in DOMAIN mToFlushLog}
            /\ rcQueue' = Append(rcQueue, e)
      BY <2>1, RespondPairs
    <3>2. Len(rcQueue') \in 1..Len(rcQueue') /\ rcQueue'[Len(rcQueue')] = e
      BY <3>1, RcQueueAppend
    <3>3. [id |-> mLogId2RequestId[k], record |-> mToFlushLog[k]] \in e.pairs
      BY <3>1
    <3>4. \E p \in e.pairs : p.record = r
      BY <1>1, <3>3
    <3> QED
      BY <3>1, <3>2, <3>4 DEF ComesNext
  <2>2. CASE LCWrite
    BY <1>1, <2>2, WritesRecord DEF ComesNext
  <2>3. CASE mToFlushLog' = mToFlushLog
    BY <1>1, <2>3 DEF ComesNext
  <2> QED
    BY <2>1, <2>2, <2>3, UpSteps
       DEF vars, BootDone, PostKVRequest, RCGet, RCNewRequest, RCAppendLogRecord, RCFinish, RCAnswer,
           LCRecover, LCFlush
<1>2. ASSUME NEW p \in rcPairs, p.record = r PROVE ComesNext(r)
  <2>1. ASSUME RCAnswer(p) PROVE FALSE
    <3>1. /\ mRequests[p.id] \in Clients /\ Released(mRequests[p.id]) /\ IsOf(r, mRequests[p.id])
      BY <1>2, <2>1, Answers
    <3>2. /\ Waiting(c) /\ request[c].tag = r.tag
          /\ Waiting(mRequests[p.id]) /\ request[mRequests[p.id]].tag = r.tag
      BY <3>1, OwnerWaits
    <3>3. mRequests[p.id] = c
      BY <3>1, <3>2 DEF RequestTags
    <3> QED
      BY <3>1, <3>2, <3>3, ReleasedFacts DEF Waiting
  <2>2. p \in rcPairs'
    BY <1>a, <2>1, PairsKept
  <2> QED
    BY <1>2, <2>2 DEF ComesNext
<1>3. ASSUME NEW i \in 1..Len(rcQueue), IsFinish(i), NEW p \in rcQueue[i].pairs, p.record = r
      PROVE  ComesNext(r)
  BY <1>3, FinishStays DEF ComesNext, IsFinish
<1> QED
  BY <1>1, <1>2, <1>3 DEF Comes

\* Whoever waits for a record in the log is going to be answered:
\* OwnersAreServed is kept.
LEMMA OwnersAreServedStep ==
  ASSUME TypeOK, Quiet, RecoverFirst, Pipeline, Index, Indexed, Reported, RequestTags, OwnTags,
         QueuedOnce, OwnersAreServed, [Next]_vars
  PROVE  OwnersAreServed'
<1> USE DEF bootVars, clientVars, rcVars, lcVars, idVars, logVars, histVars
<1>1. CASE proc' # "up"
  BY <1>1 DEF OwnersAreServed, Own
<1>2. CASE proc' = "up"
  <2> SUFFICES ASSUME 0 \notin DOMAIN mToFlushLog', NEW i \in Own', HasOwnerNext(log'[i])
               PROVE  ComesNext(log'[i])
    BY DEF OwnersAreServed, HasOwner, HasOwnerNext, IsOf, IsOfNext, Comes, ComesNext, IsFinish
  <2>1. 0 \notin DOMAIN mToFlushLog
    <3>1. CASE LCRespond
      BY <3>1 DEF LCRespond, Index
    <3>2. CASE LCWrite
      BY <3>2, WritesRecord
    <3>3. CASE mToFlushLog' = mToFlushLog
      BY <3>3
    <3> QED
      BY <1>2, <3>1, <3>2, <3>3, UpSteps
         DEF vars, BootDone, PostKVRequest, RCGet, RCNewRequest, RCAppendLogRecord, RCFinish, RCAnswer,
             LCRecover, LCFlush
  <2>2. CASE i \in Own
    <3>1. log'[i] = log[i] /\ i \in 1..Len(log)
      BY <1>2, <2>2, OwnStays
    <3>2. log[i] \in LogRecord
      BY <3>1, ElementOfSeq DEF TypeOK
    <3>3. PICK c \in Clients : IsOfNext(log[i], c)
      BY <3>1 DEF HasOwnerNext
    <3>4. log[i].tag # posted + 1
      BY <2>2, NewTag
    <3>5. IsOf(log[i], c) /\ request'[c] = request[c]
      BY <1>2, <3>2, <3>3, <3>4, OwnerWas
    <3>6. Comes(log[i])
      BY <2>1, <2>2, <3>5 DEF OwnersAreServed, HasOwner
    <3> QED
      BY <1>2, <3>1, <3>2, <3>5, <3>6, ComesKept
  <2>3. CASE i \notin Own
    <3>1. LCWrite
      BY <1>2, <2>3, OwnChanges
    <3>2. i = Len(log) + 1 /\ log'[i] = LCRecord
      BY <2>3, <3>1, WritesOwn
    <3>3. /\ 1 \in 1..Len(lcQueue) /\ IsWrite(1) /\ LCRecord = lcQueue[1].record
          /\ DOMAIN mToFlushLog' = DOMAIN mToFlushLog \cup {LCRecord.logId}
          /\ LCRecord.logId \notin DOMAIN mToFlushLog => mToFlushLog'[LCRecord.logId] = LCRecord
      BY <3>1, WritesRecord
    <3>4. Straight(1)
      BY <2>1, <3>3 DEF Straight
    <3>5. LCRecord.logId \notin DOMAIN mToFlushLog
      BY <3>3, <3>4 DEF Indexed
    <3> QED
      BY <3>2, <3>3, <3>5 DEF ComesNext
  <2> QED
    BY <2>2, <2>3
<1> QED
  BY <1>1, <1>2

\* Behind a record whose client waits there are only records of other clients:
\* OthersFollow is kept.
LEMMA OthersFollowStep ==
  ASSUME TypeOK, Quiet, RecoverFirst, Pipeline, RequestTags, OwnTags, QueuedOnce, OthersFollow,
         [Next]_vars
  PROVE  OthersFollow'
<1>1. CASE proc' # "up"
  BY <1>1 DEF OthersFollow, Own
<1>2. CASE proc' = "up"
  <2> SUFFICES ASSUME NEW i \in Own', NEW c \in Clients, IsOfNext(log'[i], c),
                      NEW j \in (i + 1)..Len(log')
               PROVE  \E d \in Clients : d # c /\ log'[j].op \in Menu[d]
    BY DEF OthersFollow, IsOf, IsOfNext
  <2>1. CASE i \in Own
    <3>1. log'[i] = log[i] /\ i \in 1..Len(log)
      BY <1>2, <2>1, OwnStays
    <3>2. log[i] \in LogRecord
      BY <3>1, ElementOfSeq DEF TypeOK
    <3>3. log[i].tag # posted + 1
      BY <2>1, NewTag
    <3>4. IsOf(log[i], c)
      BY <1>2, <3>1, <3>2, <3>3, OwnerWas
    <3>5. CASE log' = log
      BY <2>1, <3>4, <3>5 DEF OthersFollow
    <3>6. CASE LCWrite
      <4>1. CASE j = Len(log) + 1
        <5>1. /\ log'[j] = LCRecord /\ LCRecord \in LogRecord /\ HasOwner(LCRecord)
              /\ log[i].tag # LCRecord.tag
          BY <2>1, <3>6, <4>1, WritesOwn DEF Unwritten
        <5>2. PICK d \in Clients : IsOf(LCRecord, d)
          BY <5>1 DEF HasOwner
        <5>3. Waiting(d) /\ request[d].op = LCRecord.op /\ request[d].tag = LCRecord.tag
          BY <5>1, <5>2, OwnerWaits
        <5>4. request[c].tag = log[i].tag
          BY <3>2, <3>4, OwnerWaits
        <5>5. LCRecord.op \in Menu[d]
          BY <5>3 DEF RequestTags
        <5> QED
          BY <5>1, <5>3, <5>4, <5>5
      <4>2. CASE j # Len(log) + 1
        <5>1. j \in (i + 1)..Len(log) /\ j \in 1..Len(log) /\ log'[j] = log[j]
          BY <3>1, <3>6, <4>2, WritesOwn
        <5> QED
          BY <2>1, <3>4, <5>1 DEF OthersFollow
      <4> QED
        BY <4>1, <4>2
    <3>7. log' = log \/ LCWrite
      BY <1>2, <2>1, OwnChanges
    <3> QED
      BY <3>5, <3>6, <3>7
  <2>2. CASE i \notin Own
    <3>1. LCWrite
      BY <1>2, <2>2, OwnChanges
    <3>2. i = Len(log) + 1 /\ Len(log') = Len(log) + 1 /\ Len(log) \in Nat
      BY <2>2, <3>1, WritesOwn
    <3> QED
      BY <3>2
  <2> QED
    BY <2>1, <2>2
<1> QED
  BY <1>1, <1>2

\* No request whose record waits for a flush is released.
LEMMA UnflushedNotReleased ==
  ASSUME TypeOK, Quiet, RecoverFirst, Pipeline, Reported, RequestTags, OwnTags, QueuedOnce, ReturnsOwn,
         [Next]_vars, proc' = "up", NEW i \in Own, i > flushed, NEW c \in Clients, Released(c)
  PROVE  request[c].tag # log[i].tag
<1> USE DEF bootVars, clientVars, rcVars, lcVars, idVars, logVars, histVars
<1>0. request[c] # NoRequest /\ request'[c] = NoRequest
  BY ReleasedFacts
<1>1. CASE UNCHANGED request
  BY <1>0, <1>1
<1>2. ASSUME NEW d \in Clients, PostKVRequest(d) PROVE FALSE
  <2>1. /\ request[d] = NoRequest /\ request'[d] \in Request
        /\ \A e \in Clients : e # d => request'[e] = request[e]
    BY <1>2, Posts
  <2> QED
    BY <1>0, <2>1, ConstantsAssumption
<1>3. CASE RCGet
  <2>1. /\ RCClient \in Clients /\ Released(RCClient) /\ RCClient = rcQueue[1].client
        /\ IsRecv(1) /\ 1 \in 1..Len(rcQueue)
    BY <1>3, Gets
  <2>2. RCClient = c
    BY <1>0, <2>1, ReleasedFacts
  <2> QED
    BY <2>1, <2>2 DEF QueuedOnce, Unwritten
<1>4. ASSUME NEW p \in rcPairs, RCAnswer(p) PROVE request[c].tag # log[i].tag
  <2>1. /\ mRequests[p.id] \in Clients /\ Released(mRequests[p.id])
        /\ IsOf(p.record, mRequests[p.id]) /\ p.record \in LogRecord
    BY <1>4, Answers
  <2>2. mRequests[p.id] = c
    BY <1>0, <2>1, ReleasedFacts
  <2>3. request[c].tag = p.record.tag
    BY <2>1, <2>2, OwnerWaits
  <2>4. PICK n \in Own : n <= flushed /\ log[n] = p.record
    BY AnswersWritten
  <2>5. n # i
    BY <2>4, OwnStays
  <2> QED
    BY <2>3, <2>4, <2>5 DEF OwnTags
<1> QED
  BY <1>1, <1>2, <1>3, <1>4, UpSteps
     DEF vars, BootDone, RCNewRequest, RCAppendLogRecord, RCFinish, LCRecover, LCWrite, LCFlush,
         LCRespond, ForgetResponded

\* What a crash may take back has not been applied: UnflushedIsUnapplied is kept.
LEMMA UnflushedIsUnappliedStep ==
  ASSUME TypeOK, Quiet, Quiet', RecoverFirst, Pipeline, Reported, RequestTags, OwnTags, QueuedOnce,
         ReturnsOwn, UnflushedIsUnapplied, [Next]_vars
  PROVE  UnflushedIsUnapplied'
<1> USE DEF bootVars, clientVars, rcVars, lcVars, idVars, logVars, histVars
<1>a. Len(log) \in Nat /\ flushed \in 0..Len(log)
  BY DEF TypeOK
<1>b. Len(log') \in Nat /\ flushed' \in 0..Len(log')
  BY LogKeptStep DEF LogKept
<1>1. CASE flushed' = Len(log')
  <2>1. (flushed' + 1)..Len(log') = {}
    BY <1>b, <1>1
  <2> QED
    BY <2>1 DEF UnflushedIsUnapplied
<1>2. CASE proc' # "up"
  BY <1>1, <1>2 DEF Quiet
<1>3. ASSUME proc' = "up", NEW i \in (flushed + 1)..Len(log), i \in Own'
      PROVE  i \in Own' /\ (~BadOpType(log[i].op) => HasOwnerNext(log[i]))
  <2>1. i \in Own /\ (~BadOpType(log[i].op) => HasOwner(log[i]))
    BY <1>3 DEF UnflushedIsUnapplied, Unapplied
  <2>2. i > flushed /\ log[i] \in LogRecord
    <3>1. i \in 1..Len(log)
      BY <1>a
    <3> QED
      BY <1>a, <3>1, ElementOfSeq DEF TypeOK
  <2> QED
    BY <1>3, <2>1, <2>2, UnflushedNotReleased, OwnerKept
<1>4. ASSUME proc' = "up", flushed' = flushed, log' = log, Own' = Own PROVE UnflushedIsUnapplied'
  <2> SUFFICES ASSUME NEW i \in (flushed + 1)..Len(log)
               PROVE  i \in Own' /\ (~BadOpType(log[i].op) => HasOwnerNext(log[i]))
    BY <1>4 DEF UnflushedIsUnapplied, Unapplied, HasOwner, HasOwnerNext, IsOf, IsOfNext
  <2>1. i \in Own'
    BY <1>4 DEF UnflushedIsUnapplied
  <2> QED
    BY <1>3, <1>4, <2>1
<1>5. CASE LCWrite
  <2>1. /\ Len(log') = Len(log) + 1 /\ log'[Len(log) + 1] = LCRecord /\ proc' = "up"
        /\ \A i \in 1..Len(log) : log'[i] = log[i]
        /\ Own' = Own \cup {Len(log) + 1} /\ HasOwner(LCRecord) /\ request' = request
        /\ flushed <= flushed' /\ flushed \in Nat /\ flushed' \in Nat
    BY <1>5, WritesOwn
  <2> SUFFICES ASSUME NEW i \in (flushed' + 1)..Len(log')
               PROVE  i \in Own' /\ (~BadOpType(log'[i].op) => HasOwnerNext(log'[i]))
    BY <1>5 DEF UnflushedIsUnapplied, Unapplied, HasOwner, HasOwnerNext, IsOf, IsOfNext
  <2>2. CASE i = Len(log) + 1
    BY <2>1, <2>2 DEF HasOwner, HasOwnerNext, IsOf, IsOfNext
  <2>3. CASE i # Len(log) + 1
    <3>1. i \in (flushed + 1)..Len(log) /\ log'[i] = log[i]
      BY <1>a, <2>1, <2>3
    <3>2. i \in Own'
      BY <2>1, <3>1 DEF UnflushedIsUnapplied
    <3> QED
      BY <1>3, <2>1, <3>1, <3>2
  <2> QED
    BY <2>2, <2>3
<1>6. CASE LCFlush
  BY <1>1, <1>6, LogFlushKept DEF LCFlush
<1>7. CASE BootDone
  BY <1>1, <1>7, ComesUp
<1>8. CASE UNCHANGED <<proc, bootRead, log, flushed>>
  BY <1>2, <1>4, <1>8 DEF Own
<1> QED
  BY <1>2, <1>5, <1>6, <1>7, <1>8, UpSteps
     DEF vars, PostKVRequest, RCGet, RCNewRequest, RCAppendLogRecord, RCFinish, RCAnswer,
         LCRecover, LCRespond

-----------------------------------------------------------------------------
(***************************************************************************)
(* The store: Recovering and Applied are kept.                             *)
(***************************************************************************)
\* LogCenter has applied the first k records of the log, and has the others at
\* the head of its queue.
RecoversFrom(k) ==
  /\ k \in 0..bootRead
  /\ dataStore = Skipping(log, {})[k]
  /\ bootRead - k <= Len(lcQueue)
  /\ \A j \in 1..Len(lcQueue) :
       IF j <= bootRead - k THEN lcQueue[j] = LogCtx("recover", log[k + j]) ELSE IsWrite(j)

\* The same in the next state, for a k that may itself be primed.
RecoversNext(k) ==
  /\ k \in 0..bootRead'
  /\ dataStore' = Skipping(log', {})[k]
  /\ bootRead' - k <= Len(lcQueue')
  /\ \A j \in 1..Len(lcQueue') :
       IF j <= bootRead' - k THEN lcQueue'[j] = LogCtx("recover", log'[k + j])
       ELSE lcQueue'[j].type = "write"

LEMMA RecoversTo ==
  ASSUME NEW k, RecoversNext(k), proc' # "down", proc' = "up" => bootRead' = Len(log')
  PROVE  Recovering'
BY DEF RecoversNext, Recovering, IsWrite

LEMMA LogCtxFields ==
  ASSUME NEW t, NEW r
  PROVE  LogCtx(t, r).type = t /\ LogCtx(t, r).record = r
BY DEF LogCtx

\* What LogCenter recovers next is the record behind those it has applied.
LEMMA RecoversOne ==
  ASSUME TypeOK, Quiet, Recovering, LCRecover
  PROVE  /\ proc \in {"boot", "up"} /\ proc' = proc
         /\ proc = "up" => bootRead = Len(log)
         /\ \E k \in 0..bootRead :
              /\ k + 1 <= bootRead /\ RecoversFrom(k) /\ RecoversNext(k + 1)
<1> USE DEF bootVars, clientVars, rcVars, lcVars, idVars, logVars, histVars
<1>1. lcQueue # <<>> /\ lcQueue' = Tail(lcQueue) /\ UNCHANGED <<proc, bootRead, log>>
      /\ dataStore' = UpdateDataStore(dataStore, LCRecord.op).store /\ Head(lcQueue).type = "recover"
  BY DEF LCRecover, LCTakes
<1>2. /\ Len(lcQueue) \in Nat \ {0} /\ Len(lcQueue') = Len(lcQueue) - 1
      /\ Head(lcQueue) = lcQueue[1] /\ 1 \in 1..Len(lcQueue)
      /\ \A j \in 1..Len(lcQueue') : lcQueue'[j] = lcQueue[j + 1] /\ j + 1 \in 1..Len(lcQueue)
  BY <1>1, LcQueueTail
<1>3. RecoverPending
  BY <1>1, <1>2 DEF RecoverPending
<1>4. proc \in {"boot", "up"}
  BY <1>1 DEF TypeOK, Quiet
<1>5. /\ proc = "up" => bootRead = Len(log)
      /\ \E k : RecoversFrom(k)
  BY <1>3 DEF Recovering, RecoversFrom
<1>6. PICK k : RecoversFrom(k)
  BY <1>5
<1>7. k \in Nat /\ bootRead \in Nat /\ bootRead <= Len(log) /\ Len(log) \in Nat
  BY <1>6 DEF RecoversFrom, TypeOK
<1>8. 1 <= bootRead - k
  BY <1>1, <1>2, <1>6 DEF RecoversFrom, IsWrite
<1>9. LCRecord = log[k + 1]
  <2>1. lcQueue[1] = LogCtx("recover", log[k + 1])
    BY <1>2, <1>6, <1>8 DEF RecoversFrom
  <2> QED
    BY <1>2, <2>1, LogCtxFields DEF LCRecord
<1>10. dataStore' = Skipping(log, {})[k + 1]
  <2>1. k + 1 \in 1..Len(log) /\ (k + 1) - 1 = k /\ log \in Seq(LogRecord)
    BY <1>7, <1>8 DEF TypeOK
  <2> QED
    BY <1>1, <1>6, <1>9, <2>1, SkippingSteps DEF RecoversFrom
<1>11. RecoversNext(k + 1)
  <2>1. ASSUME NEW j \in 1..Len(lcQueue')
        PROVE  IF j <= bootRead' - (k + 1) THEN lcQueue'[j] = LogCtx("recover", log'[(k + 1) + j])
               ELSE lcQueue'[j].type = "write"
    <3>1. lcQueue'[j] = lcQueue[j + 1] /\ j + 1 \in 1..Len(lcQueue)
      BY <1>2
    <3>2. IF j + 1 <= bootRead - k THEN lcQueue[j + 1] = LogCtx("recover", log[k + (j + 1)]) ELSE IsWrite(j + 1)
      BY <1>6, <3>1 DEF RecoversFrom
    <3>3. k + (j + 1) = (k + 1) + j /\ (j + 1 <= bootRead - k <=> j <= bootRead - (k + 1))
      BY <1>7
    <3> QED
      BY <1>1, <3>1, <3>2, <3>3 DEF IsWrite
  <2>2. k + 1 \in 0..bootRead /\ bootRead - (k + 1) <= Len(lcQueue')
    BY <1>2, <1>6, <1>7, <1>8 DEF RecoversFrom
  <2> QED
    BY <1>1, <1>10, <2>1, <2>2 DEF RecoversNext
<1> QED
  BY <1>1, <1>4, <1>5, <1>6, <1>7, <1>8, <1>11

\* BootRead queues one record more and LCRecover applies one; nothing else
\* touches the store or the head of the queue until the last one is applied.
LEMMA RecoveringStep ==
  ASSUME TypeOK, Quiet, Quiet', RecoverFirst, RequestTags, QueuedOnce, Recovering, [Next]_vars
  PROVE  Recovering'
<1> USE DEF bootVars, clientVars, rcVars, lcVars, idVars, logVars, histVars
<1>a. Len(lcQueue) \in Nat /\ bootRead \in Nat /\ bootRead <= Len(log) /\ Len(log) \in Nat
      /\ log \in Seq(LogRecord)
  BY DEF TypeOK
<1>b. ASSUME NEW k, RecoversFrom(k), UNCHANGED <<bootRead, log, dataStore, lcQueue>>
      PROVE  RecoversNext(k)
  BY <1>b DEF RecoversFrom, RecoversNext, IsWrite
<1>c. proc = "boot" \/ RecoverPending =>
        (proc = "up" => bootRead = Len(log)) /\ \E k : RecoversFrom(k)
  BY DEF Recovering, RecoversFrom
<1>1. CASE Dies
  <2>1. proc' = "down" /\ dataStore' = EmptyStore /\ Len(lcQueue') = 0
    BY <1>1 DEF Dies, MemoryLost
  <2> QED
    BY <2>1 DEF Recovering, RecoverPending
<1>2. CASE UNCHANGED <<proc, bootRead, log, dataStore, lcQueue>>
  BY <1>2 DEF Recovering, RecoverPending, IsWrite
<1>3. CASE StartProcess
  <2>1. /\ proc' = "boot" /\ UNCHANGED <<bootRead, log, dataStore, lcQueue>>
        /\ dataStore = EmptyStore /\ Len(lcQueue) = 0 /\ bootRead = 0
    BY <1>3 DEF StartProcess, Quiet, Recovering
  <2>2. Skipping(log, {})[0] = EmptyStore
    BY <1>a, SkippingSteps
  <2>3. RecoversNext(0)
    BY <2>1, <2>2 DEF RecoversNext
  <2> QED
    BY <2>1, <2>3, RecoversTo
<1>4. CASE BootRead
  <2>1. /\ proc = "boot" /\ proc' = "boot" /\ bootRead' = bootRead + 1 /\ bootRead < Len(log)
        /\ lcQueue' = Append(lcQueue, LogCtx("recover", log[bootRead + 1]))
        /\ UNCHANGED <<log, dataStore>>
    BY <1>4 DEF BootRead
  <2>2. log[bootRead + 1] \in LogRecord
    <3>1. bootRead + 1 \in 1..Len(log)
      BY <1>a, <2>1
    <3> QED
      BY <1>a, <3>1, ElementOfSeq
  <2>3. /\ Len(lcQueue') = Len(lcQueue) + 1
        /\ \A j \in 1..Len(lcQueue) : lcQueue'[j] = lcQueue[j]
        /\ lcQueue'[Len(lcQueue')] = LogCtx("recover", log[bootRead + 1])
    BY <2>1, <2>2, LcQueueAppend
  <2>4. PICK k : RecoversFrom(k)
    BY <1>c, <2>1
  <2>5. k \in Nat /\ k <= bootRead /\ bootRead - k <= Len(lcQueue)
    BY <2>4 DEF RecoversFrom
  <2>6. Len(lcQueue) = bootRead - k
    <3>1. ASSUME Len(lcQueue) > bootRead - k PROVE FALSE
      <4>1. Len(lcQueue) \in 1..Len(lcQueue)
        BY <1>a, <2>5, <3>1
      <4>2. IsRecover(Len(lcQueue))
        BY <2>1, <4>1 DEF Quiet
      <4>3. ~(Len(lcQueue) <= bootRead - k)
        BY <1>a, <2>5, <3>1
      <4>4. IsWrite(Len(lcQueue))
        BY <2>4, <4>1, <4>3 DEF RecoversFrom
      <4> QED
        BY <4>2, <4>4 DEF IsRecover, IsWrite
    <3> QED
      BY <1>a, <2>5, <3>1
  <2>7. ASSUME NEW j \in 1..Len(lcQueue')
        PROVE  j <= bootRead' - k /\ lcQueue'[j] = LogCtx("recover", log'[k + j])
    <3>1. CASE j \in 1..Len(lcQueue)
      <4>1. j <= bootRead - k /\ j <= bootRead' - k
        BY <1>a, <2>1, <2>5, <2>6, <3>1
      <4> QED
        BY <2>1, <2>3, <2>4, <3>1, <4>1 DEF RecoversFrom
    <3>2. CASE j = Len(lcQueue')
      <4>1. k + j = bootRead + 1 /\ j <= bootRead' - k
        BY <1>a, <2>1, <2>3, <2>5, <2>6, <3>2
      <4> QED
        BY <2>1, <2>3, <3>2, <4>1
    <3> QED
      BY <1>a, <2>3, <3>1, <3>2
  <2>8. RecoversNext(k)
    <3>1. k \in 0..bootRead' /\ bootRead' - k <= Len(lcQueue')
      BY <1>a, <2>1, <2>3, <2>5, <2>6
    <3>2. dataStore' = Skipping(log', {})[k]
      BY <2>1, <2>4 DEF RecoversFrom
    <3> QED
      BY <2>7, <3>1, <3>2 DEF RecoversNext
  <2> QED
    BY <2>1, <2>8, RecoversTo
<1>5. CASE BootSetMaxLogId
  BY <1>2, <1>5 DEF BootSetMaxLogId
<1>6. CASE BootDone
  <2>1. /\ proc = "boot" /\ proc' = "up" /\ bootRead = Len(log)
        /\ UNCHANGED <<bootRead, log, dataStore, lcQueue>>
    BY <1>6, ComesUp
  <2>2. PICK k : RecoversFrom(k)
    BY <1>c, <2>1
  <2> QED
    BY <1>b, <2>1, <2>2, RecoversTo
<1>7. CASE LCRecover
  <2>1. UNCHANGED <<bootRead, log>>
    BY <1>7 DEF LCRecover
  <2> QED
    BY <1>7, <2>1, RecoversOne, RecoversTo
<1>8. CASE RCAppendLogRecord
  <2>1. /\ rcRecord \in LogRecord /\ rcRecord # NoRecord
        /\ lcQueue' = Append(lcQueue, LogCtx("write", rcRecord))
        /\ UNCHANGED <<proc, bootRead, log, dataStore>>
    BY <1>8 DEF TypeOK, RCAppendLogRecord
  <2>2. /\ Len(lcQueue') = Len(lcQueue) + 1
        /\ \A j \in 1..Len(lcQueue) : lcQueue'[j] = lcQueue[j]
        /\ lcQueue'[Len(lcQueue')].type = "write"
    BY <2>1, LcQueueAppend
  <2>3. proc = "up"
    BY <2>1 DEF Quiet, TypeOK
  <2>4. RecoverPending' => RecoverPending
    BY <1>a, <2>2 DEF RecoverPending
  <2>5. ASSUME NEW k, RecoversFrom(k) PROVE RecoversNext(k)
    <3>1. k \in 0..bootRead /\ dataStore = Skipping(log, {})[k] /\ bootRead - k <= Len(lcQueue)
      BY <2>5 DEF RecoversFrom
    <3>2. ASSUME NEW j \in 1..Len(lcQueue')
          PROVE  IF j <= bootRead - k THEN lcQueue'[j] = LogCtx("recover", log[k + j])
                 ELSE lcQueue'[j].type = "write"
      <4>1. CASE j \in 1..Len(lcQueue)
        BY <2>2, <2>5, <4>1 DEF RecoversFrom, IsWrite
      <4>2. CASE j = Len(lcQueue')
        <5>1. ~(j <= bootRead - k)
          BY <1>a, <2>2, <3>1, <4>2
        <5> QED
          BY <2>2, <4>2, <5>1
      <4> QED
        BY <1>a, <2>2, <4>1, <4>2
    <3> QED
      BY <1>a, <2>1, <2>2, <3>1, <3>2 DEF RecoversNext
  <2>6. CASE RecoverPending
    BY <1>c, <2>1, <2>3, <2>5, <2>6, RecoversTo
  <2>7. CASE ~RecoverPending
    BY <2>1, <2>3, <2>4, <2>7 DEF Recovering
  <2> QED
    BY <2>6, <2>7
<1>9. CASE LCWrite
  BY <1>9, WritesOwn DEF Recovering
<1>10. ASSUME NEW p \in rcPairs, RCAnswer(p) PROVE Recovering'
  <2>1. ~RecoverPending /\ proc = "up"
    BY DEF RecoverFirst, Quiet, TypeOK
  <2>2. lcQueue' = lcQueue /\ proc' = proc
    BY <1>10 DEF RCAnswer
  <2> QED
    BY <2>1, <2>2 DEF Recovering, RecoverPending
<1>11. CASE LCFlush
  BY <1>2, <1>11, LogFlushKept DEF LCFlush
<1> QED
  BY <1>1, <1>2, <1>3, <1>4, <1>5, <1>6, <1>7, <1>8, <1>9, <1>10, <1>11, Steps
     DEF vars, PostKVRequest, RCGet, RCNewRequest, RCFinish, LCRespond, ForgetResponded

\* The initial state.
LEMMA StoreInvInit == Init => StoreInv
<1> SUFFICES ASSUME Init PROVE StoreInv
  OBVIOUS
<1>1. /\ Own = {} /\ Unapplied = {} /\ Len(rcQueue) = 0 /\ Len(lcQueue) = 0
      /\ rcRecord = NoRecord /\ rcPairs = {} /\ DOMAIN mToFlushLog = {}
  BY EmptyMapDomain DEF Init, Own, Unapplied
<1>2. RequestTags /\ OwnTags /\ QueuedOnce /\ ReturnsOwn
  BY <1>1 DEF Init, RequestTags, OwnTags, QueuedOnce, ReturnsOwn, Waiting
<1>3. OwnersAreServed /\ OthersFollow
  BY <1>1 DEF OwnersAreServed, OthersFollow
<1>4. UnflushedIsUnapplied
  <2>1. flushed = Len(log) /\ Len(log) \in Nat
    BY ConstantsAssumption DEF Init
  <2>2. (flushed + 1)..Len(log) = {}
    BY <2>1
  <2> QED
    BY <2>2 DEF UnflushedIsUnapplied
<1>5. Recovering /\ Applied
  BY <1>1 DEF Init, Recovering, Applied, RecoverPending
<1> QED
  BY <1>2, <1>3, <1>4, <1>5 DEF StoreInv

\* No request whose record was written is released but by RCAnswer.
LEMMA WrittenNotReleased ==
  ASSUME TypeOK, Pipeline, QueuedOnce, [Next]_vars, proc' = "up", \A p \in rcPairs : ~RCAnswer(p),
         NEW i \in Own, NEW c \in Clients, Released(c)
  PROVE  request[c].tag # log[i].tag
<1> USE DEF bootVars, clientVars, rcVars, lcVars, idVars, logVars, histVars
<1>0. request[c] # NoRequest /\ request'[c] = NoRequest
  BY ReleasedFacts
<1>1. CASE UNCHANGED request
  BY <1>0, <1>1
<1>2. ASSUME NEW d \in Clients, PostKVRequest(d) PROVE FALSE
  <2>1. /\ request[d] = NoRequest /\ request'[d] \in Request
        /\ \A e \in Clients : e # d => request'[e] = request[e]
    BY <1>2, Posts
  <2> QED
    BY <1>0, <2>1, ConstantsAssumption
<1>3. CASE RCGet
  <2>1. /\ RCClient \in Clients /\ Released(RCClient) /\ RCClient = rcQueue[1].client
        /\ IsRecv(1) /\ 1 \in 1..Len(rcQueue)
    BY <1>3, Gets
  <2>2. RCClient = c
    BY <1>0, <2>1, ReleasedFacts
  <2> QED
    BY <2>1, <2>2 DEF QueuedOnce, Unwritten
<1> QED
  BY <1>1, <1>2, <1>3, UpSteps
     DEF vars, BootDone, RCNewRequest, RCAppendLogRecord, RCFinish, LCRecover, LCWrite, LCFlush,
         LCRespond, ForgetResponded

\* Unapplied in the next state.
UnappliedNext == {i \in Own' : ~BadOpType(log'[i].op) /\ HasOwnerNext(log'[i])}

LEMMA UnappliedNextIs == Unapplied' = UnappliedNext
BY DEF Unapplied, UnappliedNext, HasOwner, HasOwnerNext, IsOf, IsOfNext

\* Only LCWrite and RCAnswer change what is to be applied.
LEMMA UnappliedKept ==
  ASSUME TypeOK, Quiet, Pipeline, RequestTags, OwnTags, QueuedOnce, [Next]_vars, proc' = "up",
         \A p \in rcPairs : ~RCAnswer(p), ~LCWrite
  PROVE  Unapplied' = Unapplied
<1>1. CASE Own = {} /\ Own' = {}
  BY <1>1 DEF Unapplied
<1>2. CASE Own' = Own /\ log' = log
  <2>1. ASSUME NEW i \in Own PROVE HasOwnerNext(log[i]) <=> HasOwner(log[i])
    <3>1. log[i] \in LogRecord
      BY ElementOfSeq DEF TypeOK, Own
    <3>2. log[i].tag # posted + 1
      BY NewTag
    <3>3. HasOwnerNext(log[i]) => HasOwner(log[i])
      BY <3>1, <3>2, OwnerWas DEF HasOwnerNext, HasOwner
    <3>4. HasOwner(log[i]) => HasOwnerNext(log[i])
      BY <3>1, WrittenNotReleased, OwnerKept
    <3> QED
      BY <3>3, <3>4
  <2>2. UnappliedNext = Unapplied
    BY <1>2, <2>1 DEF UnappliedNext, Unapplied
  <2> QED
    BY <2>2, UnappliedNextIs
<1> QED
  BY <1>1, <1>2, OwnChanges

\* An answered write is applied, and no other.
LEMMA UnappliedAnswer ==
  ASSUME TypeOK, Quiet, Pipeline, Reported, RequestTags, OwnTags, QueuedOnce, ReturnsOwn, [Next]_vars,
         proc' = "up", NEW p \in rcPairs, RCAnswer(p)
  PROVE  \E n \in Own :
           /\ log[n] = p.record /\ n \in Unapplied
           /\ Unapplied' = Unapplied \ {n}
           /\ IsOf(log[n], mRequests[p.id]) /\ mRequests[p.id] \in Clients
<1>1. /\ mRequests[p.id] \in Clients /\ Released(mRequests[p.id]) /\ IsOf(p.record, mRequests[p.id])
      /\ p.record \in LogRecord /\ ~BadOpType(p.record.op)
      /\ UNCHANGED <<proc, bootRead, log, posted>>
  BY Answers
<1>2. PICK n \in Own : log[n] = p.record
  BY AnswersWritten
<1>3. n \in Unapplied
  BY <1>1, <1>2 DEF Unapplied, HasOwner
<1> DEFINE c == mRequests[p.id]
<1>4. Waiting(c) /\ request[c].tag = log[n].tag
  BY <1>1, <1>2, OwnerWaits
<1>5. request'[c] = NoRequest /\ \A d \in Clients : d # c => request'[d] = request[d]
  BY <1>1, ReleasedFacts
<1>6. Own' = Own
  BY <1>1 DEF Own
<1> HIDE DEF c
<1>7. ASSUME NEW i \in Own, NEW d \in Clients PROVE IsOfNext(log[i], d) <=> IsOf(log[i], d) /\ i # n
  <2>1. log[i] \in LogRecord
    BY ElementOfSeq DEF TypeOK, Own
  <2>2. CASE d = c
    <3>1. ~IsOfNext(log[i], d)
      <4>1. [op |-> log[i].op, tag |-> log[i].tag] \in Request
        BY <2>1 DEF LogRecord, Request
      <4> QED
        BY <1>5, <2>2, <4>1, ConstantsAssumption DEF IsOfNext
    <3>2. IsOf(log[i], d) => i = n
      <4>1. IsOf(log[i], d) => log[i].tag = log[n].tag
        BY <1>4, <2>1, <2>2, OwnerWaits
      <4> QED
        BY <4>1 DEF OwnTags
    <3> QED
      BY <3>1, <3>2
  <2>3. CASE d # c
    <3>1. IsOfNext(log[i], d) <=> IsOf(log[i], d)
      BY <1>5, <2>3 DEF IsOfNext, IsOf
    <3>2. IsOf(log[i], d) => i # n
      <4>1. IsOf(log[i], d) => Waiting(d) /\ request[d].tag = log[i].tag
        BY <2>1, OwnerWaits
      <4>2. c \in Clients
        BY <1>1 DEF c
      <4> QED
        BY <1>4, <2>3, <4>1, <4>2 DEF RequestTags
    <3> QED
      BY <3>1, <3>2
  <2> QED
    BY <2>2, <2>3
<1>8. UnappliedNext = Unapplied \ {n}
  <2>1. \A i \in Own : HasOwnerNext(log[i]) <=> HasOwner(log[i]) /\ i # n
    BY <1>7 DEF HasOwnerNext, HasOwner
  <2> QED
    BY <1>1, <1>6, <2>1 DEF UnappliedNext, Unapplied
<1> QED
  BY <1>1, <1>2, <1>3, <1>8, UnappliedNextIs

\* A record that was written is one more to be applied.
LEMMA UnappliedWrite ==
  ASSUME TypeOK, Quiet, RecoverFirst, RequestTags, QueuedOnce, LCWrite
  PROVE  Unapplied' = Unapplied \cup (IF BadOpType(LCRecord.op) THEN {} ELSE {Len(log) + 1})
<1>1. /\ Own' = Own \cup {Len(log) + 1} /\ Own \subseteq 1..Len(log) /\ request' = request
      /\ log'[Len(log) + 1] = LCRecord /\ HasOwner(LCRecord)
      /\ \A i \in 1..Len(log) : log'[i] = log[i]
  BY WritesOwn
<1>2. \A r : HasOwnerNext(r) <=> HasOwner(r)
  BY <1>1 DEF HasOwnerNext, HasOwner, IsOf, IsOfNext
<1>3. \A i \in Own : log'[i] = log[i]
  BY <1>1
<1>4. UnappliedNext = Unapplied \cup (IF BadOpType(LCRecord.op) THEN {} ELSE {Len(log) + 1})
  <2>1. \A i \in Own' : i \in UnappliedNext <=>
           \/ i \in Unapplied
           \/ i = Len(log) + 1 /\ ~BadOpType(LCRecord.op)
    BY <1>1, <1>2, <1>3, WritesOwn DEF UnappliedNext, Unapplied
  <2>2. UnappliedNext \subseteq Own' /\ Unapplied \subseteq Own' /\ Len(log) + 1 \in Own'
    BY <1>1 DEF UnappliedNext, Unapplied
  <2>3. \A i : i \in UnappliedNext <=>
           i \in Unapplied \cup (IF BadOpType(LCRecord.op) THEN {} ELSE {Len(log) + 1})
    BY <2>1, <2>2
  <2> QED
    BY <2>3
<1> QED
  BY <1>4, UnappliedNextIs

\* The step that ends the recovery leaves the store the whole log gives.
LEMMA RecoveryComplete ==
  ASSUME TypeOK, Quiet, Recovering, [Next]_vars, proc' = "up", ~RecoverPending',
         proc = "boot" \/ RecoverPending
  PROVE  /\ dataStore' = Skipping(log, {})[Len(log)] /\ log' = log
         /\ Own' = {}
<1> USE DEF bootVars, clientVars, rcVars, lcVars, idVars, logVars, histVars
<1>a. Len(lcQueue) \in Nat /\ bootRead \in Nat /\ bootRead <= Len(log) /\ Len(log) \in Nat
  BY DEF TypeOK
<1>1. CASE BootDone
  <2>1. /\ proc = "boot" /\ proc' = "up" /\ bootRead = Len(log)
        /\ UNCHANGED <<bootRead, log, dataStore, lcQueue>> /\ Own' = {}
        /\ \A j \in 1..Len(lcQueue) : IsRecover(j)
    BY <1>1, ComesUp
  <2>2. PICK k : RecoversFrom(k)
    BY <2>1 DEF Recovering, RecoversFrom
  <2>3. Len(lcQueue) = 0
    <3>1. ASSUME Len(lcQueue) > 0 PROVE FALSE
      <4>1. 1 \in 1..Len(lcQueue)
        BY <1>a, <3>1
      <4> QED
        BY <2>1, <4>1 DEF IsRecover, RecoverPending
    <3> QED
      BY <1>a, <3>1
  <2>4. k = Len(log)
    BY <1>a, <2>1, <2>2, <2>3 DEF RecoversFrom
  <2> QED
    BY <2>1, <2>2, <2>4 DEF RecoversFrom
<1>2. CASE LCRecover
  <2>1. UNCHANGED <<proc, bootRead, log>>
    BY <1>2 DEF LCRecover
  <2>2. /\ bootRead = Len(log)
        /\ \E k \in 0..bootRead : k + 1 <= bootRead /\ RecoversFrom(k) /\ RecoversNext(k + 1)
    BY <1>2, <2>1, RecoversOne
  <2>3. PICK k \in 0..bootRead : k + 1 <= bootRead /\ RecoversNext(k + 1)
    BY <2>2
  <2>4. k + 1 = bootRead
    <3>1. ASSUME k + 1 < bootRead PROVE FALSE
      <4>1. 1 <= bootRead' - (k + 1) /\ bootRead' - (k + 1) <= Len(lcQueue') /\ 1 \in 1..Len(lcQueue')
        <5>1. bootRead' - (k + 1) <= Len(lcQueue') /\ 1 <= bootRead' - (k + 1)
          BY <1>a, <2>1, <2>3, <3>1 DEF RecoversNext
        <5>2. Len(lcQueue') \in Nat
          <6>1. lcQueue # <<>> /\ lcQueue' = Tail(lcQueue)
            BY <1>2 DEF LCRecover, LCTakes
          <6> QED
            BY <6>1, LcQueueTail
        <5> QED
          BY <1>a, <2>1, <5>1, <5>2
      <4>2. lcQueue'[1] = LogCtx("recover", log'[(k + 1) + 1])
        BY <2>3, <4>1 DEF RecoversNext
      <4>3. lcQueue'[1].type = "recover"
        BY <4>2, LogCtxFields
      <4> QED
        BY <4>1, <4>3 DEF RecoverPending
    <3> QED
      BY <1>a, <2>3, <3>1
  <2>5. Own' = {}
    BY <1>a, <2>1, <2>2 DEF Own
  <2> QED
    BY <2>1, <2>2, <2>3, <2>4, <2>5 DEF RecoversNext
<1>3. ASSUME proc = "up", RecoverPending, UNCHANGED lcQueue PROVE FALSE
  BY <1>3 DEF RecoverPending
<1>4. ASSUME proc = "up", RecoverPending, RCAppendLogRecord PROVE FALSE
  <2>1. /\ rcRecord \in LogRecord
        /\ lcQueue' = Append(lcQueue, LogCtx("write", rcRecord))
    BY <1>4 DEF TypeOK, RCAppendLogRecord
  <2>2. /\ Len(lcQueue') = Len(lcQueue) + 1
        /\ \A j \in 1..Len(lcQueue) : lcQueue'[j] = lcQueue[j]
    BY <2>1, LcQueueAppend
  <2> QED
    BY <1>4, <1>a, <2>2 DEF RecoverPending
<1>5. ASSUME proc = "up", RecoverPending, LCWrite PROVE FALSE
  <2>1. IsWrite(1) /\ 1 \in 1..Len(lcQueue)
    BY <1>5, WritesRecord
  <2>2. PICK k : RecoversFrom(k)
    BY <1>5 DEF Recovering, RecoversFrom
  <2>3. bootRead - k < 1
    <3>1. ~(1 <= bootRead - k)
      BY <2>1, <2>2, LogCtxFields DEF RecoversFrom, IsWrite
    <3> QED
      BY <1>a, <2>2, <3>1 DEF RecoversFrom
  <2>4. \A j \in 1..Len(lcQueue) : IsWrite(j)
    <3> TAKE j \in 1..Len(lcQueue)
    <3>1. ~(j <= bootRead - k)
      BY <1>a, <2>2, <2>3 DEF RecoversFrom
    <3> QED
      BY <2>2, <3>1 DEF RecoversFrom
  <2> QED
    BY <1>5, <2>4 DEF RecoverPending, IsWrite
<1>6. ASSUME UNCHANGED vars PROVE FALSE
  <2>1. proc' = proc /\ lcQueue' = lcQueue
    BY <1>6 DEF vars
  <2>2. proc = "up" /\ RecoverPending
    BY <2>1
  <2> QED
    BY <1>3, <2>1, <2>2
<1>7. ASSUME proc = "up", RecoverPending PROVE LCRecover \/ BootDone
  <2>2. ASSUME NEW c \in Clients, PostKVRequest(c) PROVE FALSE
    BY <1>3, <1>7, <2>2 DEF PostKVRequest
  <2>3. ASSUME NEW p \in rcPairs, RCAnswer(p) PROVE FALSE
    BY <1>3, <1>7, <2>3 DEF RCAnswer
  <2>4. ~RCGet /\ ~RCNewRequest /\ ~RCFinish /\ ~LCFlush /\ ~LCRespond
    BY <1>3, <1>7 DEF RCGet, RCNewRequest, RCFinish, LCFlush, LCRespond
  <2> QED
    BY <1>4, <1>5, <1>6, <1>7, <2>2, <2>3, <2>4, UpSteps
<1>8. CASE proc = "boot"
  <2>1. BootDone
    BY <1>6, <1>8, UpSteps
  <2> QED
    BY <1>1, <2>1
<1>9. proc = "boot" \/ proc = "up"
  BY <1>6, UpSteps DEF BootDone
<1> QED
  BY <1>1, <1>2, <1>7, <1>8, <1>9

\* While the process is up its recovery never starts again.
LEMMA StaysRecovered ==
  ASSUME TypeOK, Quiet, RecoverFirst, RequestTags, QueuedOnce, [Next]_vars, proc = "up", ~RecoverPending,
         proc' = "up"
  PROVE  ~RecoverPending' /\ ~LCRecover
<1> USE DEF bootVars, clientVars, rcVars, lcVars, idVars, logVars, histVars
<1>1. CASE UNCHANGED lcQueue
  <2>1. ASSUME LCRecover PROVE FALSE
    <3>1. lcQueue # <<>> /\ lcQueue' = Tail(lcQueue)
      BY <2>1 DEF LCRecover, LCTakes
    <3> QED
      BY <1>1, <3>1, LcQueueTail
  <2> QED
    BY <1>1, <2>1 DEF RecoverPending
<1>2. CASE LCRecover
  <2>1. lcQueue # <<>> /\ lcQueue' = Tail(lcQueue) /\ Head(lcQueue).type = "recover"
    BY <1>2 DEF LCRecover, LCTakes
  <2>2. 1 \in 1..Len(lcQueue) /\ lcQueue[1].type = "recover"
    BY <2>1, LcQueueTail
  <2> QED
    BY <2>2 DEF RecoverPending
<1>3. CASE LCWrite
  <2>1. ~LCRecover
    BY <1>3 DEF LCWrite, LCRecover, LCTakes
  <2> QED
    BY <1>3, <2>1, WritesOwn
<1>4. CASE RCAppendLogRecord
  <2>1. /\ rcRecord \in LogRecord
        /\ lcQueue' = Append(lcQueue, LogCtx("write", rcRecord))
    BY <1>4 DEF TypeOK, RCAppendLogRecord
  <2>2. /\ Len(lcQueue') = Len(lcQueue) + 1 /\ Len(lcQueue) \in Nat
        /\ \A j \in 1..Len(lcQueue) : lcQueue'[j] = lcQueue[j]
        /\ lcQueue'[Len(lcQueue')].type = "write"
    BY <2>1, LcQueueAppend
  <2>3. ~RecoverPending'
    BY <2>2 DEF RecoverPending
  <2>4. ASSUME LCRecover PROVE FALSE
    <3>1. lcQueue # <<>> /\ lcQueue' = Tail(lcQueue)
      BY <2>4 DEF LCRecover, LCTakes
    <3>2. Len(lcQueue') = Len(lcQueue) - 1
      BY <3>1, LcQueueTail
    <3> QED
      BY <2>2, <3>2
  <2> QED
    BY <2>3, <2>4
<1>5. ASSUME BootDone PROVE FALSE
  BY <1>5 DEF BootDone
<1> QED
  BY <1>1, <1>2, <1>3, <1>4, <1>5, UpSteps
     DEF vars, PostKVRequest, RCGet, RCNewRequest, RCFinish, RCAnswer, LCFlush, LCRespond

\* The store of the log with one record more, which is not applied.
LEMMA SkippingWrite ==
  ASSUME TypeOK, Quiet, RecoverFirst, RequestTags, QueuedOnce, LCWrite, log' \in Seq(LogRecord)
  PROVE  Skipping(log', Unapplied')[Len(log')] = Skipping(log, Unapplied)[Len(log)]
<1> DEFINE N == Len(log)
<1>1. /\ N \in Nat /\ Len(log') = N + 1 /\ log'[N + 1] = LCRecord
      /\ \A i \in 1..N : log'[i] = log[i]
      /\ Own \subseteq 1..N
  BY WritesOwn
<1>2. Unapplied' = Unapplied \cup (IF BadOpType(LCRecord.op) THEN {} ELSE {N + 1})
  BY UnappliedWrite
<1>3. log \in Seq(LogRecord)
  BY DEF TypeOK
<1> HIDE DEF N
<1>4. Skipping(log', Unapplied')[N + 1] = Skipping(log', Unapplied')[N]
  <2>1. /\ N + 1 \in 1..Len(log') /\ N \in 0..Len(log') /\ (N + 1) - 1 = N
    BY <1>1
  <2>2. Skipping(log', Unapplied')[N + 1]
          = IF N + 1 \in Unapplied' THEN Skipping(log', Unapplied')[N]
            ELSE UpdateDataStore(Skipping(log', Unapplied')[N], LCRecord.op).store
    BY <1>1, <2>1, SkippingSteps
  <2> QED
    BY <1>2, <2>2, NoWriteNoChange
<1>5. SameSpan(log', Unapplied', log, Unapplied, 0, N)
  <2>1. Meet(Skipping(log', Unapplied'), Skipping(log, Unapplied), 0)
    BY <1>3, SkippingSteps DEF Meet
  <2>2. \A n \in (0 + 1)..N : SameStep(log', Unapplied', log, Unapplied, n)
    <3> TAKE n \in (0 + 1)..N
    <3>1. n \in 1..N /\ n # N + 1
      BY <1>1
    <3> QED
      BY <1>1, <1>2, <3>1 DEF SameStep
  <2>3. 0 \in Nat /\ N \in Nat /\ 0 <= N /\ N <= Len(log') /\ N <= Len(log)
    BY <1>1 DEF N
  <2> QED
    BY <1>3, <2>1, <2>2, <2>3 DEF SameSpan
<1>6. Meet(Skipping(log', Unapplied'), Skipping(log, Unapplied), N)
  BY ONLY <1>5, SkippingAgree
<1> QED
  BY <1>1, <1>4, <1>6 DEF Meet, N

\* The store lacks the writes whose clients wait: Applied is kept.
LEMMA AppliedStep ==
  ASSUME TypeOK, TypeOK', Quiet, RecoverFirst, Pipeline, Reported, RequestTags, OwnTags, QueuedOnce,
         ReturnsOwn, OthersFollow, Recovering, Applied, [Next]_vars
  PROVE  Applied'
<1> USE DEF bootVars, clientVars, rcVars, lcVars, idVars, logVars, histVars
<1> SUFFICES ASSUME WritesCommute, proc' = "up", ~RecoverPending'
             PROVE  dataStore' = Skipping(log', Unapplied')[Len(log')]
  BY DEF Applied
<1>1. CASE proc = "boot" \/ RecoverPending
  <2>1. Unapplied' = {}
    BY <1>1, RecoveryComplete, UnappliedNextIs DEF UnappliedNext
  <2> QED
    BY <1>1, <2>1, RecoveryComplete
<1>2. CASE proc = "up" /\ ~RecoverPending
  <2>0. dataStore = Skipping(log, Unapplied)[Len(log)]
    BY <1>2 DEF Applied
  <2>1. CASE LCWrite
    <3>1. dataStore' = dataStore
      BY <2>1, WritesOwn
    <3>2. log' \in Seq(LogRecord)
      BY DEF TypeOK
    <3> QED
      BY <2>0, <2>1, <3>1, <3>2, SkippingWrite
  <2>2. ASSUME NEW p \in rcPairs, RCAnswer(p)
        PROVE  dataStore' = Skipping(log', Unapplied')[Len(log')]
    <3>1. /\ dataStore' = UpdateDataStore(dataStore, p.record.op).store
          /\ log' = log
      BY <2>2, Answers
    <3>2. PICK n \in Own : /\ log[n] = p.record /\ n \in Unapplied
                           /\ Unapplied' = Unapplied \ {n}
                           /\ IsOf(log[n], mRequests[p.id]) /\ mRequests[p.id] \in Clients
      BY <2>2, UnappliedAnswer
    <3> DEFINE c == mRequests[p.id]
    <3>3. log[n].op \in Menu[c] /\ n \in 1..Len(log)
      <4>1. n \in 1..Len(log)
        BY DEF Own
      <4>2. log[n] \in LogRecord
        BY <4>1, ElementOfSeq DEF TypeOK
      <4>3. Waiting(c) /\ request[c].op = log[n].op
        BY <3>2, <4>2, OwnerWaits
      <4> QED
        BY <3>2, <4>1, <4>3 DEF RequestTags
    <3>4. \A j \in (n + 1)..Len(log) : Commute(log[n].op, log[j].op)
      <4> TAKE j \in (n + 1)..Len(log)
      <4>1. PICK d \in Clients : d # c /\ log[j].op \in Menu[d]
        BY <3>2 DEF OthersFollow
      <4> QED
        BY <3>2, <3>3, <4>1 DEF WritesCommute
    <3>5. log \in Seq(LogRecord) /\ Len(log) \in Nat /\ Len(log) \in n..Len(log)
      BY <3>3 DEF TypeOK
    <3>6. Skipping(log, Unapplied \ {n})[Len(log)]
            = UpdateDataStore(Skipping(log, Unapplied)[Len(log)], log[n].op).store
      BY <3>2, <3>3, <3>4, <3>5, RemoveSkipped
    <3> QED
      BY <2>0, <3>1, <3>2, <3>6
  <2>3. CASE ~LCWrite /\ \A p \in rcPairs : ~RCAnswer(p)
    <3>1. Unapplied' = Unapplied
      BY <2>3, UnappliedKept
    <3>2. ~LCRecover
      BY <1>2, StaysRecovered
    <3>3. dataStore' = dataStore /\ log' = log
      BY <2>3, <3>2, UpSteps, LogFlushKept
         DEF vars, BootDone, PostKVRequest, RCGet, RCNewRequest, RCAppendLogRecord, RCFinish,
             LCFlush, LCRespond, ForgetResponded
    <3> QED
      BY <2>0, <3>1, <3>3
  <2> QED
    BY <2>1, <2>2, <2>3
<1>3. proc = "boot" \/ proc = "up"
  BY UpSteps DEF BootDone, vars
<1> QED
  BY <1>1, <1>2, <1>3

\* Every step keeps every part of StoreInv.
LEMMA StoreInvStep ==
  ASSUME FlowInv, FlowInv', StoreInv, [Next]_vars
  PROVE  StoreInv'
BY RequestTagsStep, OwnTagsStep, QueuedOnceStep, ReturnsOwnStep, OwnersAreServedStep, OthersFollowStep,
   UnflushedIsUnappliedStep, RecoveringStep, AppliedStep
   DEF StoreInv, FlowInv

\* Whatever the threads do, the store and the log differ by the writes whose
\* clients still wait (RequestCenter::HandleKVResponse), and by nothing else.
THEOREM StoreInvariantHolds == Spec => []StoreInv
<1>1. Init => StoreInv
  BY StoreInvInit
<1>2. FlowInv /\ FlowInv' /\ StoreInv /\ [Next]_vars => StoreInv'
  BY StoreInvStep
<1> QED
  BY <1>1, <1>2, FlowInvariantHolds, PTL DEF Spec

\* What the run checks to be an invariant is one, with any number of clients,
\* requests, restarts and crashes.
THEOREM InvariantHolds == Spec => []Inv
<1>1. FlowInv /\ StoreInv => Inv
  BY DEF Inv
<1> QED
  BY <1>1, FlowInvariantHolds, StoreInvariantHolds, PTL
-----------------------------------------------------------------------------
\* Once nobody waits, the clients read the store the next process would recover.
THEOREM StoreIsTheLog ==
  ASSUME WritesCommute
  PROVE  Spec => []StoreIsLog
<1>1. TypeOK /\ StoreInv => StoreIsLog
  <2> SUFFICES ASSUME TypeOK, StoreInv, Settled PROVE dataStore = Replay(log)
    BY DEF StoreIsLog
  <2>1. proc = "up" /\ Len(lcQueue) = 0 /\ Len(rcQueue) = 0 /\ rcPairs = {} /\ DOMAIN mToFlushLog = {}
    BY EmptyMapDomain DEF Settled
  <2>2. dataStore = Skipping(log, Unapplied)[Len(log)]
    BY <2>1 DEF StoreInv, Applied, RecoverPending
  <2>3. Unapplied = {}
    BY <2>1 DEF StoreInv, OwnersAreServed, Comes, Unapplied
  <2> QED
    BY <2>2, <2>3, ReplayIsSkipping DEF TypeOK
<1> QED
  BY <1>1, TypeCorrect, StoreInvariantHolds, PTL
-----------------------------------------------------------------------------
(***************************************************************************)
(* What a crash leaves.                                                    *)
(***************************************************************************)
\* Records that change nothing may be left out at the end.
LEMMA SkippingTrail ==
  ASSUME NEW l \in Seq(LogRecord), NEW P, NEW a \in 0..Len(l),
         \A j \in (a + 1)..Len(l) : j \in P \/ BadOpType(l[j].op)
  PROVE  Skipping(l, P)[Len(l)] = Skipping(l, P)[a]
<1> DEFINE f == Skipping(l, P)
           A == {m \in Nat : a + m <= Len(l) => f[a + m] = f[a]}
<1>1. \A j \in 1..Len(l) : f[j] = IF j \in P THEN f[j - 1] ELSE UpdateDataStore(f[j - 1], l[j].op).store
  BY SkippingSteps
<1> HIDE DEF f
<1>2. 0 \in A
  OBVIOUS
<1>3. ASSUME NEW m \in Nat, m \in A PROVE m + 1 \in A
  <2>1. ASSUME a + (m + 1) <= Len(l) PROVE f[a + (m + 1)] = f[a]
    <3> DEFINE j == a + (m + 1)
    <3>1. j \in 1..Len(l) /\ j \in (a + 1)..Len(l) /\ j - 1 = a + m /\ a + m <= Len(l)
      BY <2>1
    <3>2. f[j - 1] = f[a]
      BY <1>3, <3>1
    <3> HIDE DEF j, A
    <3>3. f[j] = f[a]
      BY <1>1, <3>1, <3>2, NoWriteNoChange
    <3> QED
      BY <3>3 DEF j
  <2> QED
    BY <2>1
<1>4. Nat \subseteq A
  <2> HIDE DEF A
  <2> QED
    BY <1>2, <1>3, InductionBySet
<1>5. Len(l) - a \in Nat /\ a + (Len(l) - a) = Len(l)
  OBVIOUS
<1>6. Len(l) - a \in A
  <2> HIDE DEF A
  <2> QED
    BY <1>4, <1>5
<1> QED
  BY <1>5, <1>6 DEF f

-----------------------------------------------------------------------------
(***************************************************************************)
(* The abstract state.                                                     *)
(***************************************************************************)
KvStore   == IF IsRecovered THEN dataStore ELSE LogStore
KvPast    == IF IsRecovered THEN {dataStore} ELSE {Replay(SubSeq(log, 1, n)) : n \in 0..Len(log)}
KvPending == [c \in Clients |-> IF Waiting(c) THEN request[c].op ELSE NoRequest]
KvResult  == [c \in Clients |-> IF answer[c] = NoAnswer THEN NoAnswer
                                ELSE [err |-> answer[c].err, value |-> answer[c].value]]
Writers   == {c \in Clients : KV!IsWrite(c)}

\* The operations of the store are those of SyncLog.
LEMMA KvOperations ==
  /\ \A s, op : KV!UpdateDataStore(s, op) = UpdateDataStore(s, op)
  /\ \A s, t, k : KV!Get(s, t, k) = Get(s, t, k)
  /\ KV!Store = Store /\ KV!Op = Op /\ KV!WriteTypes = WriteTypes
<1>1. KV!WriteTypes = WriteTypes
  BY DEF KV!WriteTypes, WriteTypes
<1>2. KV!Op = Op
  BY DEF KV!Op, Op, KV!WriteTypes, WriteTypes, KV!OpTypes, OpTypes
<1>3. KV!Store = Store
  BY DEF KV!Store, Store, KV!Table, Table
<1>4. \A s, t, k : KV!Get(s, t, k) = Get(s, t, k)
  BY DEF KV!Get, Get, KV!Exists, Exists, KV!Holds, Holds
<1>5. \A s, op : KV!UpdateDataStore(s, op) = UpdateDataStore(s, op)
  <2>1. KV!EmptyTable = EmptyTable
    BY DEF KV!EmptyTable, EmptyTable
  <2>2. \A s, t, k, v : KV!Put(s, t, k, v) = Put(s, t, k, v)
    BY DEF KV!Put, Put, KV!Exists, Exists, KV!Accept, Accept, KV!Refuse, Refuse, KV!DoPut, DoPut
  <2>3. \A s, t, k, v : KV!Add(s, t, k, v) = Add(s, t, k, v)
    BY DEF KV!Add, Add, KV!Exists, Exists, KV!Holds, Holds, KV!Accept, Accept, KV!Refuse, Refuse,
           KV!DoPut, DoPut
  <2>4. \A s, t, k : KV!Del(s, t, k) = Del(s, t, k)
    BY DEF KV!Del, Del, KV!Exists, Exists, KV!Accept, Accept, KV!Refuse, Refuse, KV!DoDel, DoDel
  <2>5. \A s, t : KV!CreateTable(s, t) = CreateTable(s, t) /\ KV!DropTable(s, t) = DropTable(s, t)
    BY <2>1 DEF KV!CreateTable, CreateTable, KV!DropTable, DropTable, KV!Exists, Exists,
                KV!Accept, Accept, KV!Refuse, Refuse
  <2> QED
    BY <2>2, <2>3, <2>4, <2>5 DEF KV!UpdateDataStore, UpdateDataStore, KV!Refuse, Refuse
<1> QED
  BY <1>1, <1>2, <1>3, <1>4, <1>5

\* Whose unanswered request is a write.
LEMMA WritersAre ==
  ASSUME NEW c \in Clients
  PROVE  c \in Writers <=> KvPending[c] # NoRequest /\ KvPending[c].type \in WriteTypes
BY KvOperations DEF Writers, KV!IsWrite, KvPending

\* What the whole log gives.
LEMMA ReplayWhole ==
  ASSUME TypeOK
  PROVE  /\ log \in Seq(LogRecord) /\ Len(log) \in Nat
         /\ Replay(log) = Skipping(log, {})[Len(log)]
         /\ Replay(log) \in Store
         /\ Replay(SubSeq(log, 1, Len(log))) = Replay(log)
<1>1. log \in Seq(LogRecord) /\ Len(log) \in Nat /\ Len(log) \in 0..Len(log)
  BY DEF TypeOK
<1> QED
  BY <1>1, ReplayIsSkipping, ReplayOfPrefix, SkippingSteps

\* The abstract state has the types of KVService.
LEMMA KvTypes ==
  ASSUME TypeOK
  PROVE  /\ KvStore \in Store /\ KvStore \in KvPast /\ KvPast \subseteq Store
         /\ \A c \in Clients : Waiting(c) => request[c] \in Request /\ request[c].op \in Op
                                             /\ KvPending[c] = request[c].op
         /\ \A c \in Clients : ~Waiting(c) => KvPending[c] = NoRequest
<1>1. KvStore \in Store
  BY ReplayWhole DEF KvStore, LogStore, TypeOK
<1>2. KvPast \subseteq Store
  BY ReplayWhole, ReplayOfPrefix DEF KvPast, TypeOK
<1>3. KvStore \in KvPast
  <2>1. CASE IsRecovered
    BY <2>1 DEF KvStore, KvPast
  <2>2. CASE ~IsRecovered
    <3>1. Len(log) \in 0..Len(log)
      BY ReplayWhole
    <3> QED
      BY <2>2, <3>1, ReplayWhole DEF KvStore, KvPast, LogStore
  <2> QED
    BY <2>1, <2>2
<1>4. \A c \in Clients : Waiting(c) => request[c] \in Request /\ request[c].op \in Op
  BY DEF TypeOK, Waiting, Request
<1> QED
  BY <1>1, <1>2, <1>3, <1>4 DEF KvPending

\* What Survivors is made of.
KvImage(g, W, c) == {KV!UpdateDataStore(s, KvPending[c]).store : s \in g[W \ {c}]}
KvMore(g, W)     == {KvStore} \cup UNION {KvImage(g, W, c) : c \in W}
KvClosure(g)     == g = [W \in SUBSET Writers |-> KvMore(g, W)]
KvReached(g, W, x) ==
  x = KvStore \/ \E c \in W : \E s \in g[W \ {c}] : x = UpdateDataStore(s, KvPending[c]).store

LEMMA KvMoreMembers ==
  ASSUME NEW g, NEW W, NEW x
  PROVE  x \in KvMore(g, W) <=> KvReached(g, W, x)
<1>1. \A c : x \in KvImage(g, W, c) <=> \E s \in g[W \ {c}] : x = UpdateDataStore(s, KvPending[c]).store
  BY KvOperations DEF KvImage
<1>2. x \in KvMore(g, W) <=> x = KvStore \/ \E c \in W : x \in KvImage(g, W, c)
  BY DEF KvMore
<1> QED
  BY <1>1, <1>2 DEF KvReached

\* The recursive definition of Survivors has a solution, so that what it chooses
\* contains the store and whatever unanswered writes make of it.
LEMMA SurvivorsReached ==
  ASSUME TypeOK
  PROVE  \E f : /\ KV!Survivors = f[Writers]
                /\ \A W \in SUBSET Writers :
                     /\ KvStore \in f[W]
                     /\ \A c \in W : \A s \in f[W \ {c}] : UpdateDataStore(s, KvPending[c]).store \in f[W]
<1> DEFINE after == CHOOSE g : KvClosure(g)
           T == [c \in Writers |-> [s \in Store |-> UpdateDataStore(s, KvPending[c]).store]]
<1>1. KV!Survivors = after[Writers]
  BY DEF KV!Survivors, Writers, KvPending, KvStore, KvClosure, KvMore, KvImage
<1>2. T \in [Writers -> [Store -> Store]]
  <2>1. \A c \in Writers : KvPending[c] \in Op
    BY KvTypes, WritersAre DEF Writers
  <2>2. \A c \in Writers, s \in Store : UpdateDataStore(s, KvPending[c]).store \in Store
    BY <2>1, UpdateDataStoreType
  <2> QED
    BY <2>2
<1>3. KvStore \in Store
  BY KvTypes
<1>4. \A c \in Writers, s \in Store : T[c][s] = UpdateDataStore(s, KvPending[c]).store
  OBVIOUS
<1> HIDE DEF T
<1>5. PICK f \in [SUBSET Writers -> SUBSET Store] : IsClosure(f, T, KvStore, Writers)
  BY <1>2, <1>3, ClosureExists
<1>6. KvClosure(f)
  <2>1. ASSUME NEW W \in SUBSET Writers PROVE ClosureAt(f, T, KvStore, W) = KvMore(f, W)
    <3>1. \A c \in W : c \in Writers /\ f[W \ {c}] \subseteq Store
      <4>1. \A c \in W : W \ {c} \in SUBSET Writers
        OBVIOUS
      <4> QED
        BY <4>1
    <3>2. ASSUME NEW x PROVE x \in ClosureAt(f, T, KvStore, W) <=> x \in KvMore(f, W)
      <4>1. InClosure(f, T, KvStore, W, x) <=> KvReached(f, W, x)
        BY <1>4, <3>1 DEF InClosure, KvReached
      <4> QED
        BY <4>1, ClosureMembers, KvMoreMembers
    <3> QED
      BY <3>2
  <2> QED
    BY <1>5, <2>1 DEF IsClosure, KvClosure
<1>7. KvClosure(after)
  BY <1>6, Zenon
<1> HIDE DEF after
<1>8. ASSUME NEW W \in SUBSET Writers
      PROVE  /\ KvStore \in after[W]
             /\ \A c \in W : \A s \in after[W \ {c}] : UpdateDataStore(s, KvPending[c]).store \in after[W]
  <2>1. after[W] = KvMore(after, W)
    BY <1>7 DEF KvClosure
  <2>2. KvReached(after, W, KvStore)
    BY DEF KvReached
  <2>3. \A c \in W : \A s \in after[W \ {c}] : KvReached(after, W, UpdateDataStore(s, KvPending[c]).store)
    BY DEF KvReached
  <2> QED
    BY <2>1, <2>2, <2>3, KvMoreMembers
<1> QED
  BY <1>1, <1>8

\* The clients that wait for the first k records of the log.
OwnersTo(k) == {c \in Clients : \E j \in Unapplied : j <= k /\ IsOf(log[j], c)}

\* The client of a record that is not applied waits with a write.
LEMMA OwnersWrite ==
  ASSUME TypeOK, NEW j \in Unapplied, NEW c \in Clients, IsOf(log[j], c)
  PROVE  /\ c \in Writers /\ KvPending[c] = log[j].op
         /\ Waiting(c) /\ request[c].tag = log[j].tag /\ request[c].op = log[j].op
<1>1. j \in 1..Len(log) /\ ~BadOpType(log[j].op)
  BY DEF Unapplied, Own
<1>2. log[j] \in LogRecord
  BY <1>1, ElementOfSeq DEF TypeOK
<1>3. Waiting(c) /\ request[c].op = log[j].op /\ request[c].tag = log[j].tag
  BY <1>2, OwnerWaits
<1>4. KvPending[c] = log[j].op /\ KvPending[c] # NoRequest
  BY <1>3, KvTypes, KVAssumption
<1> QED
  BY <1>1, <1>3, <1>4, WritersAre DEF BadOpType

\* Applying the first k records, one after the other, to what the clients read.
SurvivorsTo(k, f) ==
  \A W \in SUBSET Writers : OwnersTo(k) \subseteq W =>
    Skipping(log, Unapplied \ (1..k))[Len(log)] \in f[W]

\* What the log may be cut to is what some of the unanswered writes make of the
\* store.
LEMMA CutSurvives ==
  ASSUME TypeOK, StoreInv, WritesCommute, IsRecovered, NEW n \in flushed..Len(log)
  PROVE  Replay(SubSeq(log, 1, n)) \in KV!Survivors
<1> DEFINE N == Len(log)
           U == Unapplied
<1>0. /\ N \in Nat /\ log \in Seq(LogRecord) /\ flushed \in Nat /\ n \in 0..N
      /\ U \subseteq Own /\ Own \subseteq 1..N
  BY DEF TypeOK, Unapplied, Own
<1>1. dataStore = Skipping(log, U)[N] /\ KvStore = dataStore
  BY DEF StoreInv, Applied, IsRecovered, KvStore
<1>2. PICK f : /\ KV!Survivors = f[Writers]
               /\ \A W \in SUBSET Writers :
                    /\ KvStore \in f[W]
                    /\ \A c \in W : \A s \in f[W \ {c}] : UpdateDataStore(s, KvPending[c]).store \in f[W]
  BY SurvivorsReached
<1> DEFINE A == {k \in Nat : k <= n => SurvivorsTo(k, f)}
<1>3. 0 \in A
  <2>1. U \ (1..0) = U
    OBVIOUS
  <2> QED
    BY <1>1, <1>2, <2>1 DEF SurvivorsTo
<1>4. ASSUME NEW k \in Nat, k \in A PROVE k + 1 \in A
  <2> DEFINE i == k + 1
             P == U \ (1..k)
  <2> SUFFICES ASSUME i <= n PROVE SurvivorsTo(i, f)
    OBVIOUS
  <2> SUFFICES ASSUME NEW W \in SUBSET Writers, OwnersTo(i) \subseteq W
               PROVE  Skipping(log, U \ (1..i))[N] \in f[W]
    BY DEF SurvivorsTo
  <2>1. i <= n /\ W \in SUBSET Writers /\ OwnersTo(i) \subseteq W
    OBVIOUS
  <2>2. SurvivorsTo(k, f)
    BY <1>0, <1>4, <2>1
  <2>3. U \ (1..i) = P \ {i}
    <3>1. \A j : j \in 1..i <=> j \in 1..k \/ j = i
      OBVIOUS
    <3> QED
      BY <3>1
  <2>4. \A c \in OwnersTo(k) : c \in OwnersTo(i)
    BY <1>0 DEF OwnersTo
  <2>5. CASE i \notin U
    <3>1. P \ {i} = P
      BY <2>5
    <3> QED
      BY <2>1, <2>2, <2>3, <2>4, <3>1 DEF SurvivorsTo
  <2>6. CASE i \in U
    <3>1. i \in P /\ i \in 1..N /\ N \in i..N
      BY <1>0, <2>1, <2>6
    <3>2. PICK c \in Clients : IsOf(log[i], c)
      BY <2>6 DEF Unapplied, HasOwner
    <3>3. c \in OwnersTo(i)
      BY <2>6, <3>2 DEF OwnersTo
    <3>4. c \in W /\ KvPending[c] = log[i].op /\ request[c].tag = log[i].tag
          /\ Waiting(c) /\ request[c].op = log[i].op
      BY <2>1, <2>6, <3>2, <3>3, OwnersWrite
    <3>5. \A j \in (i + 1)..N : Commute(log[i].op, log[j].op)
      <4> TAKE j \in (i + 1)..N
      <4>1. i \in Own
        BY <1>0, <2>6
      <4>2. PICK d \in Clients : d # c /\ log[j].op \in Menu[d]
        BY <3>2, <4>1 DEF StoreInv, OthersFollow
      <4>3. log[i].op \in Menu[c]
        BY <3>4 DEF StoreInv, RequestTags
      <4> QED
        BY <4>2, <4>3 DEF WritesCommute
    <3>6. Skipping(log, P \ {i})[N] = UpdateDataStore(Skipping(log, P)[N], log[i].op).store
      <4>1. log \in Seq(LogRecord) /\ i \in 1..Len(log) /\ i \in P /\ N \in i..Len(log)
        BY <1>0, <3>1
      <4> HIDE DEF N, P
      <4>2. \A j \in (i + 1)..N : j \notin P => Commute(log[i].op, log[j].op)
        BY <3>5, Zenon
      <4> QED
        BY ONLY <4>1, <4>2, RemoveSkipped, Zenon
    <3>7. OwnersTo(k) \subseteq W \ {c}
      <4>1. ASSUME NEW d \in OwnersTo(k) PROVE d # c
        <5>1. PICK j \in Unapplied : j <= k /\ IsOf(log[j], d)
          BY <4>1 DEF OwnersTo
        <5>2. j # i /\ d \in Clients
          BY <1>0, <4>1, <5>1 DEF OwnersTo
        <5>3. request[d].tag = log[j].tag
          BY <5>1, <5>2, OwnersWrite
        <5> QED
          BY <1>0, <2>6, <3>4, <5>1, <5>2, <5>3 DEF StoreInv, OwnTags
      <4> QED
        BY <2>1, <2>4, <4>1
    <3>8. Skipping(log, P)[N] \in f[W \ {c}]
      <4>1. W \ {c} \in SUBSET Writers
        OBVIOUS
      <4> QED
        BY <2>2, <3>7, <4>1 DEF SurvivorsTo
    <3> HIDE DEF P, U, i, N
    <3> QED
      BY <1>2, <2>3, <3>4, <3>6, <3>8
  <2> QED
    BY <2>5, <2>6
<1>5. Nat \subseteq A
  <2> HIDE DEF A
  <2> QED
    BY <1>3, <1>4, InductionBySet
<1>6. SurvivorsTo(n, f)
  <2>1. n \in Nat
    BY <1>0
  <2>2. n \in A
    <3> HIDE DEF A
    <3> QED
      BY <1>5, <2>1
  <2> QED
    BY <1>0, <2>2
<1> DEFINE Q == U \ (1..n)
<1>7. Skipping(log, Q)[N] = Skipping(log, Q)[n]
  <2>1. \A j \in (n + 1)..N : j \in Q \/ BadOpType(log[j].op)
    <3> TAKE j \in (n + 1)..N
    <3>1. j \in (flushed + 1)..Len(log) /\ j \notin 1..n
      BY <1>0
    <3> QED
      BY <3>1 DEF StoreInv, UnflushedIsUnapplied
  <2> HIDE DEF Q, N
  <2> QED
    BY <1>0, <2>1, SkippingTrail DEF N
<1>8. Skipping(log, Q)[n] = Skipping(log, {})[n]
  <2>1. SameSpan(log, Q, log, {}, 0, n)
    <3>1. Meet(Skipping(log, Q), Skipping(log, {}), 0)
      BY <1>0, SkippingSteps DEF Meet
    <3>2. \A j \in (0 + 1)..n : SameStep(log, Q, log, {}, j)
      BY DEF SameStep
    <3>3. 0 \in Nat /\ n \in Nat /\ 0 <= n /\ n <= Len(log)
      BY <1>0
    <3> HIDE DEF Q, U, N
    <3> QED
      BY <1>0, <3>1, <3>2, <3>3 DEF SameSpan
  <2>2. Meet(Skipping(log, Q), Skipping(log, {}), n)
    BY ONLY <2>1, SkippingAgree
  <2> QED
    BY <2>2 DEF Meet
<1>9. OwnersTo(n) \subseteq Writers
  BY OwnersWrite DEF OwnersTo
<1>10. Skipping(log, Q)[N] \in f[Writers]
  BY <1>6, <1>9 DEF SurvivorsTo
<1> HIDE DEF Q, N
<1>11. Replay(SubSeq(log, 1, n)) = Skipping(log, {})[n]
  BY <1>0, ReplayOfPrefix DEF N
<1> QED
  BY <1>2, <1>7, <1>8, <1>10, <1>11
-----------------------------------------------------------------------------
(***************************************************************************)
(* Every step of the database is one of the service, or none.              *)
(***************************************************************************)
KvStep == [KV!KVNext]_(KV!kvVars)

\* A step that changes nothing a client can see.
LEMMA KvStutters ==
  ASSUME UNCHANGED <<request, answer, log>>, proc' = "up" <=> proc = "up",
         IsRecovered' <=> IsRecovered, IsRecovered => dataStore' = dataStore
  PROVE  KvStep
<1>1. /\ (proc = "up")' = (proc = "up") /\ IsRecovered' = IsRecovered
  BY DEF IsRecovered
<1>2. KvStore' = KvStore /\ KvPast' = KvPast
  <2>1. CASE IsRecovered
    BY <1>1, <2>1 DEF KvStore, KvPast
  <2>2. CASE ~IsRecovered
    BY <1>1, <2>2 DEF KvStore, KvPast, LogStore
  <2> QED
    BY <2>1, <2>2
<1>3. KvPending' = KvPending /\ KvResult' = KvResult
  BY DEF KvPending, KvResult, Waiting
<1>4. UNCHANGED KV!kvVars
  BY <1>1, <1>2, <1>3 DEF KV!kvVars, KvStore, KvPast, KvPending, KvResult
<1> QED
  BY <1>4 DEF KvStep

\* The process starts to take requests.
LEMMA BootDoneOpens ==
  ASSUME TypeOK, Quiet, Recovering, [Next]_vars, BootDone
  PROVE  KvStep
<1> USE DEF bootVars, clientVars, rcVars, lcVars, idVars, logVars, histVars
<1>1. proc = "boot" /\ proc' = "up" /\ UNCHANGED <<request, answer, log, dataStore>>
  BY ComesUp DEF BootDone
<1>2. ~IsRecovered /\ IsRecovered' \in BOOLEAN
  BY <1>1 DEF IsRecovered
<1>3. KvPending' = KvPending /\ KvResult' = KvResult
  BY <1>1 DEF KvPending, KvResult, Waiting
<1>4. KvStore' = KvStore /\ KvPast' = IF IsRecovered' THEN {KvStore} ELSE KvPast
  <2>1. CASE IsRecovered'
    <3>1. dataStore' = Replay(log)
      BY <1>1, <2>1, RecoveryComplete, ReplayWhole DEF IsRecovered
    <3> QED
      BY <1>2, <2>1, <3>1 DEF KvStore, KvPast, LogStore
  <2>2. CASE ~IsRecovered'
    BY <1>1, <1>2, <2>2 DEF KvStore, KvPast, LogStore
  <2> QED
    BY <2>1, <2>2
<1>5. KV!Open
  BY <1>1, <1>2, <1>3, <1>4 DEF KV!Open, KvStore, KvPast, KvPending, KvResult
<1> QED
  BY <1>5 DEF KvStep, KV!KVNext

\* LogCenter applies a recovered record; the last one ends the recovery.
LEMMA LCRecoverRecovers ==
  ASSUME TypeOK, Quiet, Recovering, [Next]_vars, LCRecover
  PROVE  KvStep
<1> USE DEF bootVars, clientVars, rcVars, lcVars, idVars, logVars, histVars
<1>1. UNCHANGED <<proc, request, answer, log>>
  BY DEF LCRecover
<1>2. RecoverPending
  <2>1. lcQueue # <<>> /\ lcQueue' = Tail(lcQueue) /\ Head(lcQueue).type = "recover"
    BY DEF LCRecover, LCTakes
  <2>2. 1 \in 1..Len(lcQueue) /\ lcQueue[1].type = "recover"
    BY <2>1, LcQueueTail
  <2> QED
    BY <2>2 DEF RecoverPending
<1>3. ~IsRecovered
  BY <1>2 DEF IsRecovered
<1>4. CASE ~IsRecovered'
  BY <1>1, <1>3, <1>4, KvStutters
<1>5. CASE IsRecovered'
  <2>1. proc = "up" /\ proc' = "up"
    BY <1>1, <1>5 DEF IsRecovered
  <2>2. dataStore' = Replay(log)
    BY <1>2, <1>5, <2>1, RecoveryComplete, ReplayWhole DEF IsRecovered
  <2>3. KvStore' = KvStore /\ KvPast' = {KvStore}
    BY <1>3, <1>5, <2>2 DEF KvStore, KvPast, LogStore
  <2>4. KvPending' = KvPending /\ KvResult' = KvResult
    BY <1>1 DEF KvPending, KvResult, Waiting
  <2>5. KV!Recovered
    BY <1>3, <1>5, <2>1, <2>3, <2>4 DEF KV!Recovered, KvStore, KvPast, KvPending, KvResult
  <2> QED
    BY <2>5 DEF KvStep, KV!KVNext
<1> QED
  BY <1>4, <1>5

\* A client calls.
LEMMA PostCalls ==
  ASSUME TypeOK, NEW c \in Clients, PostKVRequest(c)
  PROVE  KvStep
<1> USE DEF bootVars, clientVars, rcVars, lcVars, idVars, logVars, histVars
<1>1. /\ request[c] = NoRequest /\ proc = "up" /\ proc' = "up"
      /\ request'[c] \in Request /\ \A d \in Clients : d # c => request'[d] = request[d]
      /\ UNCHANGED <<dataStore, log, lcQueue>>
  BY Posts DEF PostKVRequest, MayPost
<1>2. answer \in [Clients -> AnswerT \cup {NoAnswer}] /\ answer' = [answer EXCEPT ![c] = NoAnswer]
  BY DEF TypeOK, PostKVRequest
<1>3. (IsRecovered)' = IsRecovered /\ KvStore' = KvStore /\ KvPast' = KvPast
  BY <1>1 DEF IsRecovered, RecoverPending, KvStore, KvPast, LogStore
<1>4. KvPending'[c] = request'[c].op /\ KvPending'[c] \in Op /\ KvPending[c] = NoRequest
  BY <1>1, ConstantsAssumption DEF KvPending, Waiting, Request
<1>5. KvPending' = [KvPending EXCEPT ![c] = KvPending'[c]]
  BY <1>1, <1>4 DEF KvPending, Waiting
<1>6. KvResult' = [KvResult EXCEPT ![c] = NoAnswer]
  BY <1>2 DEF KvResult
<1>7. KV!Call(c)
  BY <1>1, <1>3, <1>4, <1>5, <1>6, KvOperations
     DEF KV!Call, KvStore, KvPast, KvPending, KvResult
<1> QED
  BY <1>7 DEF KvStep, KV!KVNext

\* The client is answered with err and value.
LEMMA AnswerReturns ==
  ASSUME TypeOK, NEW c \in Clients, NEW err \in Errors,
         NEW value \in Values \cup {NoValue, TornValue}, Waiting(c), Answer(c, err, value)
  PROVE  /\ KvPending' = [KvPending EXCEPT ![c] = NoRequest]
         /\ KvResult' = [KvResult EXCEPT ![c] = [err |-> err, value |-> value]]
<1>1. /\ request' = [request EXCEPT ![c] = NoRequest]
      /\ answer' = [answer EXCEPT ![c] =
                     [tag |-> request[c].tag, op |-> request[c].op, err |-> err, value |-> value]]
  BY DEF Answer
<1>2. /\ request \in [Clients -> Request \cup {NoRequest}]
      /\ answer \in [Clients -> AnswerT \cup {NoAnswer}]
  BY DEF TypeOK
<1>3. /\ request'[c] = NoRequest /\ \A d \in Clients : d # c => request'[d] = request[d]
  BY <1>1, <1>2
<1>4. KvPending' = [KvPending EXCEPT ![c] = NoRequest]
  BY <1>3 DEF KvPending, Waiting
<1> DEFINE a == [tag |-> request[c].tag, op |-> request[c].op, err |-> err, value |-> value]
<1>5. a \in AnswerT
  BY <1>2 DEF Waiting, Request, AnswerT
<1>6. a # NoAnswer /\ a.err = err /\ a.value = value
  BY <1>5, KVAssumption
<1> HIDE DEF a
<1>7. answer'[c] = a /\ \A d \in Clients : d # c => answer'[d] = answer[d]
  BY <1>1, <1>2 DEF a
<1>8. KvResult' = [KvResult EXCEPT ![c] = [err |-> err, value |-> value]]
  BY <1>6, <1>7 DEF KvResult
<1> QED
  BY <1>4, <1>8

\* A value changes only while LogCenter recovers, and was in the store before.
LEMMA ChangesWhileRecovering ==
  ASSUME TypeOK, NEW t \in Tables, NEW k \in Keys, ValueChanges(t, k)
  PROVE  RecoverPending /\ Get(dataStore, t, k).err = "ok"
<1>1. lcQueue \in Seq(LCCtx) /\ lcQueue # <<>> /\ Head(lcQueue).type = "recover"
  BY DEF TypeOK, ValueChanges
<1>2. 1 \in 1..Len(lcQueue) /\ lcQueue[1].type = "recover"
  BY <1>1, QueueTail
<1>3. RecoverPending
  BY <1>2 DEF RecoverPending
<1>4. Exists(dataStore, t) /\ Holds(dataStore[t], k)
  BY DEF ValueChanges
<1> QED
  BY <1>3, <1>4 DEF Get

\* A get is answered from the store, or while LogCenter recovers from a past one,
\* or with what no store held if one held a value.
LEMMA GetReads ==
  ASSUME TypeOK, Quiet, Pipeline, Recovering, RCGet
  PROVE  KvStep
<1> USE DEF bootVars, clientVars, rcVars, lcVars, idVars, logVars, histVars
<1> DEFINE c    == RCClient
           torn == [err |-> "ok", value |-> TornValue]
<1>1. /\ c \in Clients /\ request[c] \in Request /\ request[c].op.type = "get"
      /\ UNCHANGED <<proc, lcQueue, dataStore, log>>
  BY Gets DEF Released, RCGet
<1>2. PICK res \in GetResults(request[c].op) : Answer(c, res.err, res.value)
  BY DEF RCGet
<1>3. Waiting(c) /\ request[c].op \in Op /\ KvPending[c] = request[c].op /\ KvPending[c] # NoRequest
  <2>1. Waiting(c)
    BY <1>1, ConstantsAssumption DEF Waiting
  <2> QED
    BY <1>1, <2>1, KvTypes, KVAssumption
<1>4. proc = "up"
  <2>1. rcQueue # <<>>
    BY DEF RCGet, RCTakes
  <2> QED
    BY <2>1 DEF Quiet
<1>5. dataStore \in KvPast
  <2>1. CASE IsRecovered
    BY <2>1 DEF KvPast
  <2>2. CASE ~IsRecovered
    <3>1. RecoverPending
      BY <1>4, <2>2 DEF IsRecovered
    <3>2. bootRead = Len(log) /\ \E k : RecoversFrom(k)
      BY <1>4, <3>1 DEF Recovering, RecoversFrom
    <3>3. PICK k : RecoversFrom(k)
      BY <3>2
    <3>4. k \in 0..Len(log) /\ dataStore = Skipping(log, {})[k] /\ log \in Seq(LogRecord)
      BY <3>2, <3>3 DEF RecoversFrom, TypeOK
    <3>5. dataStore = Replay(SubSeq(log, 1, k))
      BY <3>4, ReplayOfPrefix
    <3> QED
      BY <2>2, <3>4, <3>5 DEF KvPast
  <2> QED
    BY <2>1, <2>2
<1>6. /\ res \in {Get(s, KvPending[c].table, KvPending[c].key) : s \in KvPast}
                 \cup (IF IsRecovered THEN {} ELSE KV!Misses \cup KV!Torn(KvPending[c]))
      /\ res.err \in Errors /\ res.value \in Values \cup {NoValue, TornValue}
  <2>1. dataStore \in Store /\ request[c].op.table \in Tables /\ request[c].op.key \in Keys
    BY <1>3 DEF TypeOK, Op
  <2>2. CASE res = Get(dataStore, request[c].op.table, request[c].op.key)
    BY <1>3, <1>5, <2>1, <2>2, GetType
  <2>3. CASE RecoverPending /\ res \in KV!Misses
    <3>1. RecoverPending /\ res \in KV!Misses
      BY <2>3
    <3>2. ~IsRecovered
      BY <3>1 DEF IsRecovered
    <3>3. res.err \in Errors /\ res.value \in Values \cup {NoValue}
      BY <3>1 DEF KV!Misses, Errors
    <3> QED
      BY <3>1, <3>2, <3>3
  <2>4. CASE ValueChanges(request[c].op.table, request[c].op.key) /\ res = torn
    <3>1. RecoverPending /\ Get(dataStore, request[c].op.table, request[c].op.key).err = "ok"
      BY <2>1, <2>4, ChangesWhileRecovering
    <3>2. ~IsRecovered
      BY <3>1 DEF IsRecovered
    <3>3. KV!Get(dataStore, KvPending[c].table, KvPending[c].key).err = "ok"
      BY <1>3, <3>1, KvOperations
    <3>4. KV!HadValue(KvPending[c])
      BY <1>5, <3>3 DEF KV!HadValue, KvPast
    <3>5. res \in KV!Torn(KvPending[c])
      BY <2>4, <3>4 DEF KV!Torn
    <3>6. res.err \in Errors /\ res.value = TornValue
      BY <2>4 DEF Errors
    <3> QED
      BY <3>2, <3>5, <3>6
  <2> QED
    BY <1>2, <2>2, <2>3, <2>4 DEF GetResults, KV!Misses
<1>7. /\ KvPending' = [KvPending EXCEPT ![c] = NoRequest]
      /\ KvResult' = [KvResult EXCEPT ![c] = [err |-> res.err, value |-> res.value]]
  BY <1>1, <1>2, <1>3, <1>6, AnswerReturns
<1>8. IsRecovered' = IsRecovered /\ KvStore' = KvStore /\ KvPast' = KvPast
  BY <1>1 DEF IsRecovered, RecoverPending, KvStore, KvPast, LogStore
<1> HIDE DEF c
<1>9. res \in {KV!Get(s, KvPending[c].table, KvPending[c].key) : s \in KvPast}
                 \cup (IF IsRecovered THEN {} ELSE KV!Misses \cup KV!Torn(KvPending[c]))
  BY <1>6, KvOperations
<1>10. KV!Returns(c, res.err, res.value)
  BY <1>1, <1>7, <1>8 DEF KV!Returns, KvPending, KvResult
<1>11. KV!Read(c)
  BY <1>1, <1>3, <1>8, <1>9, <1>10 DEF KV!Read, KvStore, KvPast, KvPending
<1> QED
  BY <1>1, <1>11 DEF KvStep, KV!KVNext

\* A write takes effect in the moment its client is answered.
LEMMA AnswerWrites ==
  ASSUME TypeOK, Quiet, RecoverFirst, Pipeline, Reported, NEW p \in rcPairs, RCAnswer(p)
  PROVE  KvStep
<1> USE DEF bootVars, clientVars, rcVars, lcVars, idVars, logVars, histVars
<1> DEFINE op == p.record.op
           res == UpdateDataStore(dataStore, op)
<1>0. PICK c \in Clients : c = mRequests[p.id]
  BY Answers
<1>1. /\ IsOf(p.record, c) /\ p.record \in LogRecord
      /\ op \in Op /\ ~BadOpType(op) /\ dataStore' = res.store
      /\ UNCHANGED <<proc, lcQueue, log>>
  BY <1>0, Answers
<1>2. Answer(c, res.err, NoValue)
  BY <1>0 DEF RCAnswer, Answer
<1>3. Waiting(c) /\ request[c].op = op
  BY <1>1, OwnerWaits
<1>4. IsRecovered /\ IsRecovered'
  <2>1. proc = "up" /\ ~RecoverPending
    BY DEF Quiet, RecoverFirst
  <2> QED
    BY <1>1, <2>1 DEF IsRecovered, RecoverPending
<1>5. KvPending[c] = op /\ KvPending[c] # NoRequest
  BY <1>1, <1>3, KvTypes, KVAssumption
<1>6. res.err \in Errors
  BY <1>1, UpdateDataStoreType DEF TypeOK
<1>7. /\ KvPending' = [KvPending EXCEPT ![c] = NoRequest]
      /\ KvResult' = [KvResult EXCEPT ![c] = [err |-> res.err, value |-> NoValue]]
  BY <1>1, <1>2, <1>3, <1>6, AnswerReturns
<1>8. KvStore = dataStore /\ KvStore' = res.store /\ KvPast' = {KvStore'}
  BY <1>1, <1>4 DEF KvStore, KvPast
<1>9. KV!IsWrite(c)
  BY <1>1, <1>5, KvOperations DEF KV!IsWrite, KvPending, BadOpType
<1>10. KV!UpdateDataStore(KvStore, KvPending[c]) = res
  BY <1>5, <1>8, KvOperations
<1> HIDE DEF op, res
<1>11. KV!Returns(c, res.err, NoValue)
  BY <1>1, <1>4, <1>7 DEF KV!Returns, KvPending, KvResult
<1>12. KV!Write(c)
  BY <1>4, <1>8, <1>9, <1>10, <1>11 DEF KV!Write, KvStore, KvPast, KvPending
<1> QED
  BY <1>12 DEF KvStep, KV!KVNext

\* When the process dies some of the unanswered writes have taken effect.
LEMMA DiesSurvives ==
  ASSUME TypeOK, TypeOK', Quiet, StoreInv, WritesCommute, [Next]_vars, Dies
  PROVE  KvStep
<1> USE DEF bootVars, clientVars, rcVars, lcVars, idVars, logVars, histVars
<1>1. /\ proc' = "down" /\ request' = [c \in Clients |-> NoRequest]
      /\ answer' = [c \in Clients |-> NoAnswer]
      /\ LogKept /\ LogShrinks
  BY DiesShrinks DEF Dies, MemoryLost
<1> DEFINE n == Len(log')
<1>2. n \in flushed..Len(log) /\ n \in 0..Len(log) /\ log \in Seq(LogRecord) /\ log' \in Seq(LogRecord)
  BY <1>1 DEF LogKept, LogShrinks, TypeOK, Dies
<1>3. log' = SubSeq(log, 1, n)
  <2>1. /\ SubSeq(log, 1, n) \in Seq(LogRecord) /\ Len(SubSeq(log, 1, n)) = n
        /\ \A i \in 1..n : SubSeq(log, 1, n)[i] = log[i]
    BY <1>2, ReplayOfPrefix
  <2> HIDE DEF n
  <2>2. \A i \in 1..n : log'[i] = SubSeq(log, 1, n)[i]
    BY <1>1, <2>1 DEF LogShrinks, n
  <2> QED
    BY <1>2, <2>1, <2>2, SeqEqual DEF n
<1>4. ~IsRecovered'
  BY <1>1 DEF IsRecovered
<1>5. KvStore' = Replay(log') /\ KvStore' = Replay(SubSeq(log, 1, n))
  BY <1>3, <1>4 DEF KvStore, LogStore
<1>6. Replay(SubSeq(log, 1, n)) \in KV!Survivors
  <2>1. CASE IsRecovered
    BY <1>2, <2>1, CutSurvives
  <2>2. CASE ~IsRecovered
    <3>1. flushed = Len(log)
      <4>1. CASE proc # "up"
        BY <4>1 DEF Quiet
      <4>2. CASE proc = "up"
        <5>1. bootRead = Len(log)
          BY <2>2, <4>2 DEF IsRecovered, StoreInv, Recovering
        <5>2. Own = {}
          BY <5>1 DEF Own
        <5>3. (flushed + 1)..Len(log) = {}
          BY <5>2 DEF StoreInv, UnflushedIsUnapplied
        <5>4. ASSUME flushed < Len(log) PROVE flushed + 1 \in (flushed + 1)..Len(log)
          BY <5>4, LogTypes
        <5>5. flushed \in 0..Len(log) /\ Len(log) \in Nat
          BY LogTypes
        <5> QED
          BY ONLY <5>3, <5>4, <5>5
      <4> QED
        BY <4>1, <4>2
    <3>2. n = Len(log)
      BY <1>2, <3>1
    <3>3. Replay(SubSeq(log, 1, n)) = KvStore
      BY <2>2, <3>2, ReplayWhole DEF KvStore, LogStore
    <3> QED
      BY <3>3, SurvivorsReached
  <2> QED
    BY <2>1, <2>2
<1>7. KvPast' \subseteq Store /\ KvStore' \in KvPast'
  <2> HIDE DEF n
  <2>1. /\ Len(log') \in 0..Len(log')
        /\ \A m \in 0..Len(log') : Replay(SubSeq(log', 1, m)) = Skipping(log', {})[m]
    BY <1>2, ReplayOfPrefix
  <2>2. /\ Replay(log') = Skipping(log', {})[Len(log')]
        /\ \A m \in 0..Len(log') : Skipping(log', {})[m] \in Store
    BY <1>2, ReplayIsSkipping, SkippingSteps
  <2>3. KvPast' = {Replay(SubSeq(log', 1, m)) : m \in 0..Len(log')}
    BY <1>4 DEF KvPast
  <2> QED
    BY <1>5, <2>1, <2>2, <2>3
<1>8. KvPending' = [c \in Clients |-> NoRequest] /\ KvResult' = [c \in Clients |-> NoAnswer]
  BY <1>1 DEF KvPending, KvResult, Waiting
<1> HIDE DEF n
<1>9. KV!Die
  BY <1>1, <1>4, <1>5, <1>6, <1>7, <1>8, KvOperations DEF KV!Die, KvStore, KvPast, KvPending, KvResult
<1> QED
  BY <1>9 DEF KvStep, KV!KVNext

\* A record is written: the store has been the data store for some time.
LEMMA LCWriteStutters ==
  ASSUME TypeOK, Quiet, RecoverFirst, RequestTags, QueuedOnce, LCWrite
  PROVE  KvStep
<1> USE DEF clientVars
<1>1. IsRecovered /\ IsRecovered' /\ proc' = proc /\ UNCHANGED <<request, answer, dataStore>>
  BY WritesOwn DEF IsRecovered, LCWrite
<1>2. UNCHANGED <<KvStore, KvPast, KvPending, KvResult>>
  BY <1>1 DEF KvStore, KvPast, KvPending, KvResult, Waiting
<1>3. UNCHANGED KV!kvVars
  BY <1>1, <1>2 DEF KV!kvVars, KvStore, KvPast, KvPending, KvResult
<1> QED
  BY <1>3 DEF KvStep

\* The queue of LogCenter gets another record to write.
LEMMA RCAppendStutters ==
  ASSUME TypeOK, Quiet, RCAppendLogRecord
  PROVE  KvStep
<1> USE DEF bootVars, clientVars, rcVars, lcVars, idVars, logVars, histVars
<1>1. UNCHANGED <<proc, request, answer, log, dataStore>>
  BY DEF RCAppendLogRecord
<1>2. rcRecord \in LogRecord /\ lcQueue' = Append(lcQueue, LogCtx("write", rcRecord))
  BY DEF RCAppendLogRecord, TypeOK
<1>3. /\ Len(lcQueue) \in Nat /\ Len(lcQueue') = Len(lcQueue) + 1
      /\ \A i \in 1..Len(lcQueue) : lcQueue'[i] = lcQueue[i]
      /\ lcQueue'[Len(lcQueue')].type = "write"
  BY <1>2, LcQueueAppend, LogCtxFields
<1>4. RecoverPending' <=> RecoverPending
  BY <1>3 DEF RecoverPending
<1> QED
  BY <1>1, <1>4, KvStutters DEF IsRecovered

\* The database does what the service may do.
LEMMA StoreServes ==
  ASSUME FlowInv, FlowInv', StoreInv, WritesCommute, [Next]_vars
  PROVE  KvStep
<1> USE DEF bootVars, clientVars, rcVars, lcVars, idVars, logVars, histVars
<1>0. /\ TypeOK /\ Quiet /\ RecoverFirst /\ Pipeline /\ Reported
      /\ TypeOK' /\ Recovering /\ RequestTags /\ QueuedOnce
  BY DEF FlowInv, StoreInv
<1>1. ASSUME UNCHANGED <<proc, request, answer, log, dataStore, lcQueue>> PROVE KvStep
  <2>1. IsRecovered' <=> IsRecovered
    BY <1>1 DEF IsRecovered, RecoverPending
  <2> QED
    BY <1>1, <2>1, KvStutters
<1>2. ASSUME UNCHANGED <<request, answer, log, dataStore>>, proc # "up", proc' # "up" PROVE KvStep
  BY <1>2, KvStutters DEF IsRecovered
<1>3. CASE UNCHANGED vars
  BY <1>1, <1>3 DEF vars
<1>4. CASE StartProcess \/ BootRead \/ BootSetMaxLogId
  BY <1>2, <1>4 DEF StartProcess, BootRead, BootSetMaxLogId
<1>5. CASE RCNewRequest \/ RCFinish \/ LCRespond
  BY <1>1, <1>5 DEF RCNewRequest, RCFinish, LCRespond
<1>6. CASE LCFlush
  BY <1>0, <1>1, <1>6, LogFlushKept DEF LCFlush
<1>7. CASE BootDone
  BY <1>0, <1>7, BootDoneOpens
<1>8. CASE \E c \in Clients : PostKVRequest(c)
  BY <1>0, <1>8, PostCalls
<1>9. CASE RCGet
  BY <1>0, <1>9, GetReads
<1>10. CASE RCAppendLogRecord
  BY <1>0, <1>10, RCAppendStutters
<1>11. CASE \E p \in rcPairs : RCAnswer(p)
  BY <1>0, <1>11, AnswerWrites
<1>12. CASE LCRecover
  BY <1>0, <1>12, LCRecoverRecovers
<1>13. CASE LCWrite
  BY <1>0, <1>13, LCWriteStutters
<1>14. CASE Dies
  BY <1>0, <1>14, DiesSurvives
<1> QED
  BY <1>0, <1>3, <1>4, <1>5, <1>6, <1>7, <1>8, <1>9, <1>10, <1>11, <1>12, <1>13, <1>14, Steps

\* Before the first process starts nobody waits and nothing is recovered.
LEMMA StoreServesInit == Init => KV!KVInit
<1> SUFFICES ASSUME Init PROVE KV!KVInit
  OBVIOUS
<1>1. TypeOK
  BY TypeInit
<1>2. proc = "down" /\ ~IsRecovered
  BY DEF Init, IsRecovered
<1>3. KvPending = [c \in Clients |-> NoRequest] /\ KvResult = [c \in Clients |-> NoAnswer]
  BY DEF Init, KvPending, KvResult, Waiting
<1> QED
  BY <1>1, <1>2, <1>3, KvTypes, KvOperations DEF KV!KVInit, KvStore, KvPast, KvPending, KvResult

\* The clients see one durable store, whatever the order in which records are
\* queued, written, flushed and answered, and wherever the process dies.
THEOREM DatabaseIsKVService ==
  ASSUME WritesCommute
  PROVE  Spec => IsKVService
<1>1. FlowInv /\ FlowInv' /\ StoreInv /\ [Next]_vars => [KV!KVNext]_(KV!kvVars)
  BY StoreServes DEF KvStep
<1> QED
  BY <1>1, StoreServesInit, FlowInvariantHolds, StoreInvariantHolds, PTL DEF Spec, IsKVService, KV!KVSpec
-----------------------------------------------------------------------------
(***************************************************************************)
(* Which writes commute.                                                   *)
(***************************************************************************)
KeyTypes == {"put", "add", "del"}

\* The two write different tables, or different keys of one and not the table
\* itself, or one of them writes nothing.
Apart(o, p) ==
  \/ BadOpType(o) \/ BadOpType(p)
  \/ o.table # p.table
  \/ o.key # p.key /\ o.type \in KeyTypes /\ p.type \in KeyTypes

After(s, o) == UpdateDataStore(s, o).store

\* An operation leaves the other tables alone, and what it makes of its own
\* depends on nothing else.
LEMMA OneTable ==
  ASSUME NEW s \in Store, NEW o \in Op
  PROVE  /\ \A t \in Tables : t # o.table => After(s, o)[t] = s[t]
         /\ \A r \in Store : r[o.table] = s[o.table] => After(r, o)[o.table] = After(s, o)[o.table]
<1>0. o.table \in Tables /\ o.key \in Keys
  BY DEF Op
<1>1. CASE o.type = "put"
  <2>1. \A r : After(r, o) = Put(r, o.table, o.key, o.value).store
    BY <1>1 DEF After, UpdateDataStore
  <2> QED
    BY <1>0, <2>1 DEF Put, Accept, Refuse, Exists, Store
<1>2. CASE o.type = "add"
  <2>1. \A r : After(r, o) = Add(r, o.table, o.key, o.value).store
    BY <1>2 DEF After, UpdateDataStore
  <2> QED
    BY <1>0, <2>1 DEF Add, Accept, Refuse, Exists, Holds, Store
<1>3. CASE o.type = "del"
  <2>1. \A r : After(r, o) = Del(r, o.table, o.key).store
    BY <1>3 DEF After, UpdateDataStore
  <2> QED
    BY <1>0, <2>1 DEF Del, Accept, Refuse, Exists, Store
<1>4. CASE o.type = "drop_table"
  <2>1. \A r : After(r, o) = DropTable(r, o.table).store
    BY <1>4 DEF After, UpdateDataStore
  <2> QED
    BY <1>0, <2>1 DEF DropTable, Accept, Store
<1>5. CASE o.type = "add_table"
  <2>1. \A r : After(r, o) = CreateTable(r, o.table).store
    BY <1>5 DEF After, UpdateDataStore
  <2> QED
    BY <1>0, <2>1 DEF CreateTable, Accept, Refuse, Exists, Store
<1>6. CASE BadOpType(o)
  <2>1. \A r : After(r, o) = r
    BY <1>6 DEF After, UpdateDataStore, BadOpType, WriteTypes, Refuse
  <2> QED
    BY <2>1
<1> QED
  BY <1>1, <1>2, <1>3, <1>4, <1>5, <1>6 DEF BadOpType, WriteTypes

\* Setting a key of a table changes that key only.
LEMMA SetKey ==
  ASSUME NEW table \in Table, NEW k \in Keys, NEW v \in Values \cup {NoValue}
  PROVE  /\ DoPut(table, k, v) \in Table /\ DoPut(table, k, v)[k] = v
         /\ \A l \in Keys : l # k => DoPut(table, k, v)[l] = table[l]
BY DEF DoPut, Table

\* The same of the keys of a table, for what neither creates nor drops it.
LEMMA OneKey ==
  ASSUME NEW s \in Store, NEW o \in Op, o.type \in KeyTypes
  PROVE  /\ ~Exists(s, o.table) => After(s, o) = s
         /\ Exists(s, o.table) =>
              /\ After(s, o)[o.table] \in Table
              /\ \A k \in Keys : k # o.key => After(s, o)[o.table][k] = s[o.table][k]
              /\ \A r \in Store : Exists(r, o.table) /\ r[o.table][o.key] = s[o.table][o.key] =>
                   After(r, o)[o.table][o.key] = After(s, o)[o.table][o.key]
<1>0. o.table \in Tables /\ o.key \in Keys /\ After(s, o) \in Store
  BY UpdateDataStoreType DEF Op, After
<1>a. /\ s \in [Tables -> Table \cup {NoTable}]
      /\ \A r \in Store : Exists(r, o.table) => r[o.table] \in Table
      /\ \A r \in Store : r \in [Tables -> Table \cup {NoTable}]
  BY <1>0 DEF Store, Exists
<1>b. o.value \in Values \cup {NoValue}
  BY DEF Op
<1>1. CASE o.type = "put"
  <2>1. \A r : After(r, o) = Put(r, o.table, o.key, o.value).store
    BY <1>1 DEF After, UpdateDataStore
  <2>2. \A r \in Store : Exists(r, o.table) => After(r, o)[o.table] = DoPut(r[o.table], o.key, o.value)
    BY <1>0, <1>a, <2>1 DEF Put, Accept
  <2>3. ~Exists(s, o.table) => After(s, o) = s
    BY <2>1 DEF Put, Refuse
  <2>4. \A r \in Store : Exists(r, o.table) =>
          /\ DoPut(r[o.table], o.key, o.value) \in Table /\ DoPut(r[o.table], o.key, o.value)[o.key] = o.value
          /\ \A l \in Keys : l # o.key => DoPut(r[o.table], o.key, o.value)[l] = r[o.table][l]
    BY <1>0, <1>a, <1>b, SetKey
  <2> QED
    BY <1>a, <2>2, <2>3, <2>4
<1>2. CASE o.type = "add"
  <2>1. \A r : After(r, o) = Add(r, o.table, o.key, o.value).store
    BY <1>2 DEF After, UpdateDataStore
  <2>2. \A r \in Store : Exists(r, o.table) =>
          After(r, o)[o.table] = IF Holds(r[o.table], o.key) THEN r[o.table]
                                 ELSE DoPut(r[o.table], o.key, o.value)
    BY <1>0, <1>a, <2>1 DEF Add, Accept, Refuse
  <2>3. ~Exists(s, o.table) => After(s, o) = s
    BY <2>1 DEF Add, Refuse
  <2>4. \A r \in Store : Exists(r, o.table) =>
          /\ DoPut(r[o.table], o.key, o.value) \in Table
          /\ DoPut(r[o.table], o.key, o.value)[o.key] = o.value
          /\ \A l \in Keys : l # o.key => DoPut(r[o.table], o.key, o.value)[l] = r[o.table][l]
    BY <1>0, <1>a, <1>b, SetKey
  <2> QED
    BY <1>a, <2>2, <2>3, <2>4 DEF Holds
<1>3. CASE o.type = "del"
  <2>1. \A r : After(r, o) = Del(r, o.table, o.key).store
    BY <1>3 DEF After, UpdateDataStore
  <2>2. \A r \in Store : Exists(r, o.table) => After(r, o)[o.table] = DoPut(r[o.table], o.key, NoValue)
    BY <1>0, <1>a, <2>1 DEF Del, DoDel, DoPut, Accept
  <2>3. ~Exists(s, o.table) => After(s, o) = s
    BY <2>1 DEF Del, Refuse
  <2>4. \A r \in Store : Exists(r, o.table) =>
          /\ DoPut(r[o.table], o.key, NoValue) \in Table /\ DoPut(r[o.table], o.key, NoValue)[o.key] = NoValue
          /\ \A l \in Keys : l # o.key => DoPut(r[o.table], o.key, NoValue)[l] = r[o.table][l]
    BY <1>0, <1>a, SetKey
  <2> QED
    BY <1>a, <2>2, <2>3, <2>4
<1> QED
  BY <1>1, <1>2, <1>3 DEF KeyTypes

LEMMA SameStore ==
  ASSUME NEW r \in Store, NEW s \in Store, \A t \in Tables : r[t] = s[t]
  PROVE  r = s
BY DEF Store

\* Which of two writes that are apart is applied first makes no difference.
LEMMA ApartCommute ==
  ASSUME NEW o \in Op, NEW p \in Op, Apart(o, p)
  PROVE  Commute(o, p)
<1> SUFFICES ASSUME NEW s \in Store
             PROVE  After(After(s, o), p) = After(After(s, p), o)
  BY DEF Commute, After
<1>0. /\ \A r \in Store : After(r, o) \in Store /\ After(r, p) \in Store
      /\ o.table \in Tables /\ p.table \in Tables /\ o.key \in Keys /\ p.key \in Keys
  BY UpdateDataStoreType DEF After, Op
<1> DEFINE so == After(s, o)
           sp == After(s, p)
           sop == After(so, p)
           spo == After(sp, o)
<1>1. so \in Store /\ sp \in Store /\ sop \in Store /\ spo \in Store
  BY <1>0
<1>2. CASE BadOpType(o) \/ BadOpType(p)
  BY <1>2 DEF After, UpdateDataStore, BadOpType, WriteTypes, Refuse
<1>3. CASE o.table # p.table
  <2>1. ASSUME NEW t \in Tables PROVE sop[t] = spo[t]
    <3>1. CASE t # o.table /\ t # p.table
      BY <1>1, <3>1, OneTable
    <3>2. CASE t = o.table
      <4>1. sop[t] = so[t] /\ sp[t] = s[t]
        BY <1>1, <1>3, <3>2, OneTable
      <4> QED
        BY <1>1, <3>2, <4>1, OneTable
    <3>3. CASE t = p.table
      <4>1. spo[t] = sp[t] /\ so[t] = s[t]
        BY <1>1, <1>3, <3>3, OneTable
      <4> QED
        BY <1>1, <3>3, <4>1, OneTable
    <3> QED
      BY <3>1, <3>2, <3>3
  <2> QED
    BY <1>1, <2>1, SameStore
<1>4. CASE o.table = p.table /\ o.key # p.key /\ o.type \in KeyTypes /\ p.type \in KeyTypes
  <2> DEFINE T == o.table
  <2>1. CASE ~Exists(s, T)
    BY <1>4, <2>1, OneKey
  <2>2. CASE Exists(s, T)
    <3>1. so[T] \in Table /\ sp[T] \in Table /\ Exists(so, T) /\ Exists(sp, T)
      BY <1>4, <2>2, OneKey, KVAssumption DEF Exists
    <3>2. sop[T] \in Table /\ spo[T] \in Table
      BY <1>1, <1>4, <3>1, OneKey
    <3>3. ASSUME NEW k \in Keys PROVE sop[T][k] = spo[T][k]
      <4>1. CASE k # o.key /\ k # p.key
        BY <1>1, <1>4, <2>2, <3>1, <4>1, OneKey
      <4>2. CASE k = o.key
        <5>1. sop[T][k] = so[T][k] /\ sp[T][k] = s[T][k]
          BY <1>1, <1>4, <2>2, <3>1, <4>2, OneKey
        <5> QED
          BY <1>1, <1>4, <2>2, <3>1, <4>2, <5>1, OneKey
      <4>3. CASE k = p.key
        <5>1. spo[T][k] = sp[T][k] /\ so[T][k] = s[T][k]
          BY <1>1, <1>4, <2>2, <3>1, <4>3, OneKey
        <5> QED
          BY <1>1, <1>4, <2>2, <3>1, <4>3, <5>1, OneKey
      <4> QED
        BY <4>1, <4>2, <4>3
    <3> HIDE DEF so, sp, sop, spo
    <3>4. sop[T] = spo[T]
      BY <3>2, <3>3 DEF Table
    <3>5. \A t \in Tables : t # T => sop[t] = spo[t]
      BY <1>1, <1>4, OneTable DEF so, sp, sop, spo
    <3>6. \A t \in Tables : sop[t] = spo[t]
      BY <3>4, <3>5
    <3> QED
      BY <1>1, <3>6, SameStore DEF so, sp, sop, spo
  <2> QED
    BY <2>1, <2>2
<1> QED
  BY <1>2, <1>3, <1>4 DEF Apart

\* The workers of Main.cpp put ranges of keys of their own in one table, and the
\* clients of OwnTables write tables of their own: what they write commutes.
THEOREM OwnKeysCommute ==
  ASSUME \A c, d \in Clients : c # d => \A o \in Menu[c], p \in Menu[d] : Apart(o, p)
  PROVE  WritesCommute
<1>1. \A c \in Clients : \A o \in Menu[c] : o \in Op
  BY ConstantsAssumption
<1> QED
  BY <1>1, ApartCommute DEF WritesCommute
=============================================================================
