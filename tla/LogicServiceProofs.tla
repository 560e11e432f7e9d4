------------------------- MODULE LogicServiceProofs -------------------------
(***************************************************************************)
(* A LogicService is the queue the other threads take it for, and a call   *)
(* that returns has been handled, for any number of threads and posts.     *)
(***************************************************************************)
EXTENDS LogicService, SequenceTheorems, TLAPS

\* All contexts that were queued and are neither handled nor forgotten.
Pending == ctxVec \o mQueue

\* Only inside its loop over a batch has the thread contexts of its own, and
\* there is no thread before Start.
BatchIsHeld ==
  /\ mainPc = "begin" => svc = "none"
  /\ svc = "handle" => ctxVec # <<>>
  /\ svc \notin {"batch", "handle", "aborted"} => ctxVec = <<>>

\* Main is inside Wait only while it starts the service, and the service runs
\* from then until Main stops it.
MainIsStarting ==
  /\ sync[Main] # "held" => mainPc = "starting"
  /\ mainPc \in {"spawned", "starting", "started"} => mRunning

\* A context that signals Main is no caller's.
StartIsOfMain ==
  \A i \in 1..Len(Pending) : Pending[i].type = "start" => Pending[i].from = Main

\* A caller that waits for nothing holds its own closure.
HeldByOwner == \A c \in Callers : call[c] = 0 => sync[c] = "held"

CallsOf(c) == {i \in 1..Len(Pending) : Pending[i].type = "call" /\ Pending[i].from = c}

\* One context at most is pending for a caller, the one it waits for, and
\* while it is pending nobody has signalled the caller; a caller that was
\* signalled has been handled.
OneContext(c) ==
  /\ \A i, j \in CallsOf(c) : i = j
  /\ \A i \in CallsOf(c) : Pending[i].n = call[c] /\ call[c] # 0 /\ sync[c] # "woken"
  /\ sync[c] = "woken" => \E i \in 1..Len(done) : done[i].n = call[c]
OneContextEach == \A c \in Callers \ early : OneContext(c)

ServiceInv ==
  /\ TypeOK /\ BatchIsHeld /\ MainIsStarting
  /\ StartIsOfMain /\ HeldByOwner /\ OneContextEach
-----------------------------------------------------------------------------
(***************************************************************************)
(* The three things that happen to what is pending.                        *)
(***************************************************************************)
\* Enqueue puts a context behind all that are pending.
LEMMA EnqueueAppends ==
  ASSUME TypeOK, NEW ctx \in Context, mRunning, Enqueue(ctx), ctxVec' = ctxVec
  PROVE  /\ mQueue' \in Seq(Context)
         /\ Pending' = Append(Pending, ctx) /\ Pending' \in Seq(Context)
         /\ Len(Pending) \in Nat /\ Len(Pending') = Len(Pending) + 1
         /\ \A i \in 1..Len(Pending) : Pending'[i] = Pending[i]
         /\ Pending'[Len(Pending) + 1] = ctx
<1>1. mQueue \in Seq(Context) /\ ctxVec \in Seq(Context)
  BY DEF TypeOK
<1>2. mQueue' = Append(mQueue, ctx)
  BY DEF Enqueue
<1>3. Pending \in Seq(Context) /\ Len(Pending) \in Nat
  BY <1>1, ConcatProperties, LenProperties DEF Pending
<1>4. /\ Append(mQueue, ctx) = mQueue \o <<ctx>>
      /\ Append(Pending, ctx) = Pending \o <<ctx>>
      /\ <<ctx>> \in Seq(Context)
  BY <1>1, <1>3, AppendIsConcat
<1>5. Pending' = Append(Pending, ctx)
  BY <1>1, <1>2, <1>4, ConcatAssociative DEF Pending
<1> QED
  BY <1>1, <1>2, <1>3, <1>5, AppendProperties

\* The first context of the batch is the first of all, and taken off.
LEMMA TakenOff ==
  ASSUME TypeOK, ctxVec # <<>>, ctxVec' = Tail(ctxVec), mQueue' = mQueue
  PROVE  /\ ctxVec' \in Seq(Context)
         /\ Pending \in Seq(Context) /\ Pending # <<>> /\ Len(Pending) \in Nat \ {0}
         /\ Head(Pending) = Head(ctxVec) /\ Pending[1] = Head(ctxVec) /\ Head(ctxVec) \in Context
         /\ Pending' = Tail(Pending)
         /\ Len(Pending') = Len(Pending) - 1
         /\ \A i \in 1..Len(Pending') : Pending'[i] = Pending[i + 1]
<1>1. mQueue \in Seq(Context) /\ ctxVec \in Seq(Context)
  BY DEF TypeOK
<1>2. /\ Len(ctxVec) \in Nat \ {0} /\ Len(mQueue) \in Nat
      /\ ctxVec' \in Seq(Context) /\ Len(ctxVec') = Len(ctxVec) - 1
      /\ Head(ctxVec) = ctxVec[1] /\ Head(ctxVec) \in Context
      /\ \A i \in 1..Len(ctxVec') : ctxVec'[i] = ctxVec[i + 1]
  BY <1>1, EmptySeq, LenProperties, HeadTailProperties
<1>3. /\ Pending \in Seq(Context)
      /\ Len(Pending) = Len(ctxVec) + Len(mQueue)
      /\ \A i \in 1..(Len(ctxVec) + Len(mQueue)) :
           Pending[i] = IF i <= Len(ctxVec) THEN ctxVec[i] ELSE mQueue[i - Len(ctxVec)]
  BY <1>1, ConcatProperties DEF Pending
<1>4. /\ Pending' \in Seq(Context)
      /\ Len(Pending') = Len(ctxVec') + Len(mQueue)
      /\ \A i \in 1..(Len(ctxVec') + Len(mQueue)) :
           Pending'[i] = IF i <= Len(ctxVec') THEN ctxVec'[i] ELSE mQueue[i - Len(ctxVec')]
  BY <1>1, <1>2, ConcatProperties DEF Pending
<1>5. Len(Pending) \in Nat \ {0} /\ Pending # <<>> /\ Pending[1] = Head(ctxVec)
  BY <1>2, <1>3, EmptySeq
<1>6. /\ Head(Pending) = Pending[1]
      /\ Tail(Pending) \in Seq(Context) /\ Len(Tail(Pending)) = Len(Pending) - 1
      /\ \A i \in 1..Len(Tail(Pending)) : Tail(Pending)[i] = Pending[i + 1]
  BY <1>3, <1>5, HeadTailProperties
<1>7. Len(Pending') = Len(Pending) - 1
  BY <1>2, <1>3, <1>4
<1>8. \A i \in 1..Len(Pending') : Pending'[i] = Pending[i + 1]
  <2> SUFFICES ASSUME NEW j \in 1..Len(Pending') PROVE Pending'[j] = Pending[j + 1]
    OBVIOUS
  <2> DEFINE l == Len(ctxVec)
             q == Len(mQueue)
  <2>1. l \in Nat \ {0} /\ q \in Nat /\ Len(ctxVec') = l - 1 /\ Len(Pending') = (l - 1) + q
    BY <1>2, <1>4
  <2>2. /\ j \in 1..((l - 1) + q) /\ j + 1 \in 1..(l + q)
        /\ j <= l - 1 <=> j + 1 <= l
        /\ j <= l - 1 => j \in 1..(l - 1)
        /\ (j + 1) - l = j - (l - 1)
    <3> HIDE DEF l, q
    <3> QED
      BY ONLY <2>1
  <2>3. Pending'[j] = IF j <= l - 1 THEN ctxVec'[j] ELSE mQueue[j - (l - 1)]
    BY <1>4, <2>1, <2>2, Zenon
  <2>4. Pending[j + 1] = IF j + 1 <= l THEN ctxVec[j + 1] ELSE mQueue[(j + 1) - l]
    BY <1>3, <2>2, Zenon
  <2>5. j <= l - 1 => ctxVec'[j] = ctxVec[j + 1]
    BY <1>2, <2>1, <2>2, Zenon
  <2> HIDE DEF l, q
  <2>6. CASE j <= l - 1
    BY ONLY <2>2, <2>3, <2>4, <2>5, <2>6
  <2>7. CASE ~(j <= l - 1)
    BY ONLY <2>2, <2>3, <2>4, <2>7
  <2> QED
    BY <2>6, <2>7, Zenon
<1>9. Pending' = Tail(Pending)
  BY <1>4, <1>6, <1>7, <1>8, SeqEqual
<1> QED
  BY <1>2, <1>3, <1>5, <1>6, <1>7, <1>8, <1>9

\* Taking the queue as a whole changes nothing in what is pending.
LEMMA GrabKeeps ==
  ASSUME TypeOK, BatchIsHeld, svc \notin {"batch", "handle", "aborted"}, Grab
  PROVE  ctxVec' \in Seq(Context) /\ mQueue' \in Seq(Context) /\ Pending' = Pending
<1>1. ctxVec = <<>> /\ mQueue \in Seq(Context) /\ ctxVec' = mQueue /\ mQueue' = <<>>
  BY DEF BatchIsHeld, TypeOK, Grab, TakeQueue
<1>2. <<>> \o mQueue = mQueue /\ mQueue \o <<>> = mQueue /\ <<>> \in Seq(Context)
  BY <1>1, ConcatEmptySeq, EmptySeq
<1> QED
  BY <1>1, <1>2 DEF Pending
-----------------------------------------------------------------------------
(***************************************************************************)
(* The type of every variable, and who holds contexts when.                *)
(***************************************************************************)
LEMMA TypeStep ==
  ASSUME TypeOK, BatchIsHeld, [Next]_vars
  PROVE  TypeOK' /\ BatchIsHeld'
<1> USE LogicServiceAssumption DEF queueVars
<1>1. CASE UNCHANGED vars
  BY <1>1 DEF vars, TypeOK, BatchIsHeld
<1>2. CASE StartThread
  BY <1>2 DEF StartThread, RunningAlready, TypeOK, BatchIsHeld
<1>3. CASE StartEnqueue
  <2>1. StartCtx \in Context
    BY DEF StartCtx, Context, Waiters
  <2>2. mQueue' \in Seq(Context)
    BY <1>3, <2>1 DEF StartEnqueue, Enqueue, TypeOK
  <2> QED
    BY <1>3, <2>2 DEF StartEnqueue, SignalCond, Awake, TypeOK, BatchIsHeld
<1>4. CASE StartWait
  BY <1>4 DEF StartWait, Wait, WaitReturns, Waiters, TypeOK, BatchIsHeld
<1>5. CASE Stop
  BY <1>5 DEF Stop, SignalCond, Awake, TypeOK, BatchIsHeld
<1>6. CASE StopJoin
  BY <1>6 DEF StopJoin, TypeOK, BatchIsHeld
<1>7. ASSUME NEW type \in {"call", "send"}, NEW t \in Callers \cup Senders, Post(type, t),
             call' \in [Callers -> Nat]
      PROVE  TypeOK' /\ BatchIsHeld'
  <2>1. posted + 1 \in 0..MaxPosts
    BY <1>7 DEF Post, MayPost, TypeOK
  <2>2. [type |-> type, from |-> t, n |-> posted + 1] \in Context
    BY <1>7, <2>1 DEF Context, Waiters
  <2>3. mQueue' \in Seq(Context)
    BY <1>7, <2>2 DEF Post, Enqueue, TypeOK
  <2> QED
    BY <1>7, <2>1, <2>3 DEF Post, SignalCond, Awake, TypeOK, BatchIsHeld
<1>8. ASSUME NEW c \in Callers, CallEnqueue(c) PROVE TypeOK' /\ BatchIsHeld'
  <2>1. call' \in [Callers -> Nat]
    BY <1>8 DEF CallEnqueue, TypeOK
  <2> QED
    BY <1>7, <1>8, <2>1 DEF CallEnqueue
<1>9. ASSUME NEW c \in Callers, CallWait(c) PROVE TypeOK' /\ BatchIsHeld'
  <2>1. call' \in [Callers -> Nat]
    BY <1>9 DEF CallWait, TypeOK
  <2>2. sync' \in [Waiters -> {"held", "waiting", "woken"}]
    BY <1>9 DEF CallWait, Wait, WaitReturns, TypeOK
  <2> QED
    BY <1>9, <2>1, <2>2 DEF CallWait, TypeOK, BatchIsHeld
<1>10. ASSUME NEW s \in Senders, Send(s) PROVE TypeOK' /\ BatchIsHeld'
  BY <1>7, <1>10 DEF Send, TypeOK
<1>11. CASE PostRefused
  BY <1>11 DEF PostRefused, TypeOK, BatchIsHeld
<1>12. CASE LoopTest \/ GoToSleep \/ TimedOut \/ BeginContext \/ BatchDone \/ Idle
  BY <1>12 DEF LoopTest, GoToSleep, TimedOut, TimesOut, Awake, BeginContext, BatchDone, Idle,
               TypeOK, BatchIsHeld
<1>13. CASE GrabOrWait \/ GrabTimed
  <2>1. svc \notin {"batch", "handle", "aborted"} /\ Grab /\ (svc = "take" => Timed)
    BY <1>13 DEF GrabOrWait, GrabTimed, TypeOK
  <2>2. ctxVec' \in Seq(Context) /\ mQueue' \in Seq(Context)
    BY <2>1, GrabKeeps
  <2>3. /\ svc' \in {"top", "batch"} \cup (IF Timed THEN {"take", "idle"} ELSE {})
        /\ svc' # "handle" /\ (svc' # "batch" => ctxVec' = <<>>)
    BY <2>1 DEF Grab, TakeQueue
  <2>4. mainPc # "begin"
    BY <2>1, <1>13 DEF GrabOrWait, GrabTimed, BatchIsHeld
  <2> QED
    BY <2>1, <2>2, <2>3, <2>4 DEF Grab, TypeOK, BatchIsHeld
<1>14. CASE DropContext
  <2>1. ctxVec' \in Seq(Context)
    BY <1>14, TakenOff DEF DropContext
  <2> QED
    BY <1>14, <2>1 DEF DropContext, DroppedIsSilent, TypeOK, BatchIsHeld
<1>15. CASE Handle
  <2>1. ctxVec # <<>>
    BY <1>15 DEF Handle, BatchIsHeld
  <2>2. ctxVec' \in Seq(Context) /\ Head(ctxVec) \in Context
    BY <1>15, <2>1, TakenOff DEF Handle
  <2>3. done' \in Seq(Context)
    BY <1>15, <2>2 DEF Handle, TypeOK
  <2>4. sync' \in [Waiters -> {"held", "waiting", "woken"}]
    BY <1>15 DEF Handle, Signal, TypeOK
  <2> QED
    BY <1>15, <2>2, <2>3, <2>4 DEF Handle, TypeOK, BatchIsHeld
<1>16. ASSUME NEW t \in Waiters, SpuriousWakeup(t) PROVE TypeOK' /\ BatchIsHeld'
  BY <1>16 DEF SpuriousWakeup, TypeOK, BatchIsHeld
<1> QED
  BY <1>1, <1>2, <1>3, <1>4, <1>5, <1>6, <1>8, <1>9, <1>10, <1>11, <1>12, <1>13, <1>14,
     <1>15, <1>16 DEF Next, Run

\* At the beginning nothing is queued and nobody waits.
LEMMA InitHolds == Init => ServiceInv
<1> SUFFICES ASSUME Init PROVE ServiceInv
  OBVIOUS
<1>1. <<>> \in Seq(Context) /\ Pending = <<>> /\ Len(Pending) = 0
  BY EmptySeq, ConcatEmptySeq DEF Init, Pending
<1>2. TypeOK /\ BatchIsHeld
  <2>1. call \in [Callers -> Nat] /\ sync \in [Waiters -> {"held", "waiting", "woken"}]
    BY DEF Init
  <2>2. posted \in 0..MaxPosts
    BY LogicServiceAssumption DEF Init
  <2> QED
    BY <1>1, <2>1, <2>2 DEF Init, TypeOK, BatchIsHeld
<1>3. MainIsStarting /\ StartIsOfMain /\ HeldByOwner /\ OneContextEach
  BY <1>1 DEF Init, MainIsStarting, StartIsOfMain, HeldByOwner, OneContextEach, OneContext,
              CallsOf, Waiters
<1> QED
  BY <1>2, <1>3 DEF ServiceInv

\* Every variable of a service keeps its type (LogicService, SyncClosure).
THEOREM TypeCorrect == Spec => []TypeOK
<1>1. Init => TypeOK /\ BatchIsHeld
  BY InitHolds DEF ServiceInv
<1>2. TypeOK /\ BatchIsHeld /\ [Next]_vars => (TypeOK /\ BatchIsHeld)'
  BY TypeStep
<1> QED
  BY <1>1, <1>2, PTL DEF Spec
-----------------------------------------------------------------------------
(***************************************************************************)
(* The queue.                                                              *)
(***************************************************************************)
\* Start and Stop: the closure of Main, and mRunning.
LEMMA MainStep ==
  ASSUME TypeOK, BatchIsHeld, MainIsStarting, [Next]_vars
  PROVE  MainIsStarting'
<1> USE LogicServiceAssumption DEF queueVars
<1>0. Main \in Waiters /\ Main \notin Callers
  BY DEF Waiters
<1>1. CASE StartWait
  BY <1>0, <1>1 DEF StartWait, Wait, WaitReturns, TypeOK, MainIsStarting
<1>2. ASSUME NEW c \in Callers, CallWait(c) PROVE MainIsStarting'
  BY <1>0, <1>2 DEF CallWait, Wait, WaitReturns, TypeOK, MainIsStarting
<1>3. CASE Handle
  <2>1. sync'[Main] = "held" <=> sync[Main] = "held"
    BY <1>0, <1>3 DEF Handle, Signal, TypeOK
  <2>2. mRunning => mRunning'
    BY <1>3 DEF Handle
  <2> QED
    BY <1>3, <2>1, <2>2 DEF Handle, MainIsStarting
<1>4. ASSUME NEW t \in Waiters, SpuriousWakeup(t) PROVE MainIsStarting'
  BY <1>0, <1>4 DEF SpuriousWakeup, TypeOK, MainIsStarting
<1>5. CASE StartThread \/ StartEnqueue \/ Stop \/ StopJoin \/ PostRefused
  BY <1>5 DEF StartThread, RunningAlready, StartEnqueue, Stop, StopJoin, PostRefused, MayPost,
              MainIsStarting
<1>6. ASSUME UNCHANGED <<mRunning, mainPc, sync>> PROVE MainIsStarting'
  BY <1>6 DEF MainIsStarting
<1> QED
  BY <1>1, <1>2, <1>3, <1>4, <1>5, <1>6
     DEF Next, Run, vars, CallEnqueue, Send, Post, LoopTest, GrabOrWait, GoToSleep, TimedOut,
         GrabTimed, Grab, BeginContext, DropContext, DroppedIsSilent, BatchDone, Idle

\* Enqueue adds at the end of what is pending, a turn of Run takes its head off,
\* and nothing else touches it.
LEMMA QueueStep ==
  ASSUME TypeOK, BatchIsHeld, MainIsStarting, StartIsOfMain, [Next]_vars
  PROVE  [Queue!QueueNext]_(Queue!qvars)
<1> USE LogicServiceAssumption DEF queueVars
<1>1. ASSUME UNCHANGED <<ctxVec, mQueue, done, mRunning>>
      PROVE  [Queue!QueueNext]_(Queue!qvars)
  BY <1>1 DEF Queue!qvars
<1>2. CASE StartThread
  <2>1. Queue!QueueStart
    BY <1>2 DEF StartThread, RunningAlready, Queue!QueueStart
  <2> QED
    BY <2>1 DEF Queue!QueueNext
<1>3. ASSUME NEW ctx \in Context, mRunning, Enqueue(ctx), UNCHANGED <<ctxVec, done, mRunning>>
      PROVE  [Queue!QueueNext]_(Queue!qvars)
  <2>1. Pending' = Append(Pending, ctx)
    BY <1>3, EnqueueAppends
  <2>2. Queue!QueueAccept
    BY <1>3, <2>1 DEF Queue!QueueAccept, Pending
  <2> QED
    BY <2>2 DEF Queue!QueueNext
<1>4. CASE StartEnqueue
  <2>1. StartCtx \in Context
    BY DEF StartCtx, Context, Waiters
  <2>2. mRunning
    BY <1>4 DEF StartEnqueue, MainIsStarting
  <2> QED
    BY <1>3, <1>4, <2>1, <2>2 DEF StartEnqueue
<1>5. CASE Stop
  <2>1. Queue!QueueStop
    BY <1>5 DEF Stop, Queue!QueueStop
  <2> QED
    BY <2>1 DEF Queue!QueueNext
<1>6. ASSUME NEW type \in {"call", "send"}, NEW t \in Callers \cup Senders, Post(type, t)
      PROVE  [Queue!QueueNext]_(Queue!qvars)
  <2>1. [type |-> type, from |-> t, n |-> posted + 1] \in Context
    BY <1>6 DEF Post, MayPost, TypeOK, Context, Waiters
  <2> QED
    BY <1>3, <1>6, <2>1 DEF Post
<1>7. CASE GrabOrWait \/ GrabTimed
  <2>1. svc \notin {"batch", "handle", "aborted"} /\ Grab
    BY <1>7 DEF GrabOrWait, GrabTimed
  <2>2. Pending' = Pending
    BY <2>1, GrabKeeps
  <2> QED
    BY <2>1, <2>2 DEF Grab, Queue!qvars, Pending
<1>8. CASE DropContext
  <2>1. Pending # <<>> /\ Pending' = Tail(Pending)
    BY <1>8, TakenOff DEF DropContext
  <2>2. Queue!QueueForget
    BY <1>8, <2>1 DEF DropContext, Queue!QueueForget, Pending
  <2> QED
    BY <2>2 DEF Queue!QueueNext
<1>9. CASE Handle
  <2>1. ctxVec # <<>>
    BY <1>9 DEF Handle, BatchIsHeld
  <2>2. /\ Pending # <<>> /\ Pending' = Tail(Pending) /\ Len(Pending) \in Nat \ {0}
        /\ Head(Pending) = Head(ctxVec) /\ Pending[1] = Head(ctxVec)
    BY <1>9, <2>1, TakenOff DEF Handle
  <2>3. ASSUME Head(ctxVec).type = "start" PROVE mRunning
    <3>1. Head(ctxVec).from = Main
      BY <2>2, <2>3 DEF StartIsOfMain
    <3>2. sync[Main] # "held"
      BY <1>9, <2>3, <3>1 DEF Handle, Signal, SyncIsFree
    <3> QED
      BY <3>2 DEF MainIsStarting
  <2>4. UNCHANGED mRunning
    BY <1>9, <2>3 DEF Handle, TypeOK
  <2>5. done' = Append(done, Head(ctxVec))
    BY <1>9 DEF Handle
  <2>6. Queue!QueueHandle
    BY <2>2, <2>4, <2>5 DEF Queue!QueueHandle, Pending
  <2> QED
    BY <2>6 DEF Queue!QueueNext
<1>10. ASSUME NEW c \in Callers, CallEnqueue(c) \/ CallWait(c)
       PROVE  [Queue!QueueNext]_(Queue!qvars)
  BY <1>1, <1>6, <1>10 DEF CallEnqueue, CallWait
<1>11. ASSUME NEW s \in Senders, Send(s) PROVE [Queue!QueueNext]_(Queue!qvars)
  BY <1>6, <1>11 DEF Send
<1> QED
  BY <1>1, <1>2, <1>4, <1>5, <1>7, <1>8, <1>9, <1>10, <1>11
     DEF Next, Run, vars, StartWait, StopJoin, PostRefused, LoopTest, GoToSleep, TimedOut,
         BeginContext, BatchDone, Idle, SpuriousWakeup
-----------------------------------------------------------------------------
(***************************************************************************)
(* The callers.                                                            *)
(***************************************************************************)
\* A step that gives a caller no new context and does not touch its closure.
LEMMA CallerKept ==
  ASSUME NEW c \in Callers, NEW d \in {0, 1}, OneContext(c),
         CallsOf(c) \subseteq Nat, CallsOf(c)' \subseteq Nat,
         \A i \in CallsOf(c)' : i + d \in CallsOf(c) /\ Pending'[i].n = Pending[i + d].n,
         call'[c] = call[c], sync'[c] = sync[c],
         done \in Seq(Context), done' = done \/ \E ctx \in Context : done' = Append(done, ctx)
  PROVE  OneContext(c)'
<1>1. ASSUME NEW i \in CallsOf(c)', NEW j \in CallsOf(c)' PROVE i = j
  <2>1. i + d = j + d /\ i \in Nat /\ j \in Nat
    BY DEF OneContext
  <2> QED
    BY <2>1
<1>2. \A i \in CallsOf(c)' : Pending'[i].n = call'[c] /\ call'[c] # 0 /\ sync'[c] # "woken"
  BY DEF OneContext
<1>3. \A i \in 1..Len(done) : i \in 1..Len(done') /\ done'[i] = done[i]
  BY AppendProperties, LenProperties
<1>4. sync'[c] = "woken" => \E i \in 1..Len(done') : done'[i].n = call'[c]
  BY <1>3 DEF OneContext
<1> QED
  BY <1>1, <1>2, <1>4 DEF OneContext

\* A caller's contexts after one was put behind the others.
LEMMA CallsAfterEnqueue ==
  ASSUME TypeOK, NEW ctx \in Context, mRunning, Enqueue(ctx), ctxVec' = ctxVec
  PROVE  /\ \A c \in Callers : CallsOf(c) \subseteq Nat /\ CallsOf(c)' \subseteq Nat
         /\ \A c \in Callers : \A i \in CallsOf(c)' :
              \/ i \in CallsOf(c) /\ Pending'[i] = Pending[i]
              \/ /\ i = Len(Pending) + 1 /\ Pending'[i] = ctx
                 /\ ctx.type = "call" /\ ctx.from = c
         /\ StartIsOfMain /\ (ctx.type = "start" => ctx.from = Main) => StartIsOfMain'
<1>1. /\ Len(Pending) \in Nat /\ Len(Pending') = Len(Pending) + 1
      /\ \A i \in 1..Len(Pending) : Pending'[i] = Pending[i]
      /\ Pending'[Len(Pending) + 1] = ctx
  BY EnqueueAppends
<1>2. \A i \in 1..Len(Pending') : i \in 1..Len(Pending) \/ i = Len(Pending) + 1
  BY <1>1
<1>3. ASSUME NEW c \in Callers
      PROVE  /\ CallsOf(c) \subseteq Nat /\ CallsOf(c)' \subseteq Nat
             /\ \A i \in CallsOf(c)' :
                  \/ i \in CallsOf(c) /\ Pending'[i] = Pending[i]
                  \/ /\ i = Len(Pending) + 1 /\ Pending'[i] = ctx
                     /\ ctx.type = "call" /\ ctx.from = c
  BY <1>1, <1>2 DEF CallsOf
<1>4. StartIsOfMain /\ (ctx.type = "start" => ctx.from = Main) => StartIsOfMain'
  BY <1>1, <1>2 DEF StartIsOfMain
<1> QED
  BY <1>3, <1>4

\* A caller's contexts after the first of all was taken off.
LEMMA CallsAfterTake ==
  ASSUME TypeOK, ctxVec # <<>>, ctxVec' = Tail(ctxVec), mQueue' = mQueue
  PROVE  /\ \A c \in Callers : CallsOf(c) \subseteq Nat /\ CallsOf(c)' \subseteq Nat
         /\ \A c \in Callers : \A i \in CallsOf(c)' :
              i + 1 \in CallsOf(c) /\ i + 1 # 1 /\ Pending'[i] = Pending[i + 1]
         /\ StartIsOfMain => StartIsOfMain'
<1>1. /\ Len(Pending) \in Nat \ {0} /\ Len(Pending') = Len(Pending) - 1
      /\ \A i \in 1..Len(Pending') : Pending'[i] = Pending[i + 1]
  BY TakenOff
<1>2. \A i \in 1..Len(Pending') : i \in Nat /\ i + 1 \in 1..Len(Pending) /\ i + 1 # 1
  BY <1>1
<1> QED
  BY <1>1, <1>2 DEF CallsOf, StartIsOfMain

\* Who waits for what: the steps of callers, of senders, and of the service.
LEMMA CallStep ==
  ASSUME ServiceInv, [Next]_vars
  PROVE  StartIsOfMain' /\ HeldByOwner' /\ OneContextEach'
<1> USE LogicServiceAssumption DEF queueVars
<1> DEFINE Goal == StartIsOfMain' /\ HeldByOwner' /\ OneContextEach'
<1>0. /\ TypeOK /\ BatchIsHeld /\ MainIsStarting /\ StartIsOfMain /\ HeldByOwner /\ OneContextEach
      /\ Main \in Waiters /\ Main \notin Callers /\ Callers \subseteq Waiters
      /\ done \in Seq(Context)
      /\ \A c \in Callers : CallsOf(c) \subseteq Nat
  BY DEF ServiceInv, Waiters, TypeOK, CallsOf
<1>1. ASSUME UNCHANGED <<call, sync, early>>, Pending' = Pending,
             done' = done \/ \E ctx \in Context : done' = Append(done, ctx)
      PROVE  Goal
  <2>1. \A c \in Callers : CallsOf(c)' = CallsOf(c)
    BY <1>1 DEF CallsOf
  <2>2. ASSUME NEW c \in Callers \ early' PROVE OneContext(c)'
    <3>1. OneContext(c)
      BY <1>0, <1>1, <2>2 DEF OneContextEach
    <3>2. \A i \in CallsOf(c)' : i + 0 \in CallsOf(c) /\ Pending'[i].n = Pending[i + 0].n
      BY <1>0, <1>1, <2>1, <2>2
    <3> QED
      BY <1>0, <1>1, <2>1, <2>2, <3>1, <3>2, CallerKept
  <2> QED
    BY <1>0, <1>1, <2>2 DEF StartIsOfMain, HeldByOwner, OneContextEach
<1>2. ASSUME UNCHANGED <<ctxVec, mQueue, call, sync, early, done>> PROVE Goal
  BY <1>1, <1>2 DEF Pending
<1>3. ASSUME NEW t \in Waiters, UNCHANGED <<ctxVec, mQueue, done>>,
             \A c \in Callers \ {t} : call'[c] = call[c] /\ sync'[c] = sync[c],
             early \subseteq early',
             \A c \in Callers : c = t /\ call'[c] = 0 => sync'[c] = "held",
             \A c \in Callers \ early' : c = t => OneContext(c)'
      PROVE  Goal
  <2>1. Pending' = Pending /\ \A c \in Callers : CallsOf(c)' = CallsOf(c)
    BY <1>3 DEF Pending, CallsOf
  <2>2. ASSUME NEW c \in Callers \ early', c # t PROVE OneContext(c)'
    <3>1. OneContext(c)
      BY <1>0, <1>3, <2>2 DEF OneContextEach
    <3>2. \A i \in CallsOf(c)' : i + 0 \in CallsOf(c) /\ Pending'[i].n = Pending[i + 0].n
      BY <1>0, <2>1, <2>2
    <3> QED
      BY <1>0, <1>3, <2>1, <2>2, <3>1, <3>2, CallerKept
  <2>3. ASSUME NEW c \in Callers \ early' PROVE OneContext(c)'
    BY <1>3, <2>2, <2>3
  <2>4. StartIsOfMain'
    BY <1>0, <2>1 DEF StartIsOfMain
  <2>5. ASSUME NEW c \in Callers, call'[c] = 0 PROVE sync'[c] = "held"
    BY <1>0, <1>3, <2>5 DEF HeldByOwner
  <2> QED
    BY <2>3, <2>4, <2>5 DEF HeldByOwner, OneContextEach
<1>4. CASE StartEnqueue
  <2>1. StartCtx \in Context /\ StartCtx.type = "start" /\ StartCtx.from = Main
    BY DEF StartCtx, Context, Waiters
  <2>2. mRunning /\ Enqueue(StartCtx) /\ UNCHANGED <<ctxVec, call, sync, done, early>>
    BY <1>0, <1>4 DEF StartEnqueue, MainIsStarting
  <2>3. /\ \A c \in Callers : CallsOf(c)' \subseteq Nat
        /\ \A c \in Callers : \A i \in CallsOf(c)' : i \in CallsOf(c) /\ Pending'[i] = Pending[i]
        /\ StartIsOfMain'
    BY <1>0, <2>1, <2>2, CallsAfterEnqueue
  <2>4. ASSUME NEW c \in Callers \ early' PROVE OneContext(c)'
    <3>1. OneContext(c)
      BY <1>0, <2>2, <2>4 DEF OneContextEach
    <3>2. \A i \in CallsOf(c)' : i + 0 \in CallsOf(c) /\ Pending'[i].n = Pending[i + 0].n
      BY <1>0, <2>3, <2>4
    <3> QED
      BY <1>0, <2>2, <2>3, <2>4, <3>1, <3>2, CallerKept
  <2> QED
    BY <1>0, <2>2, <2>3, <2>4 DEF HeldByOwner, OneContextEach
<1>5. CASE StartWait
  BY <1>0, <1>3, <1>5 DEF StartWait, Wait, WaitReturns, TypeOK
<1>6. ASSUME NEW c \in Callers, CallWait(c) PROVE Goal
  <2>1. CallsOf(c)' = CallsOf(c) /\ Pending' = Pending
    BY <1>6 DEF CallWait, Pending, CallsOf
  <2>2. CASE Wait(c) /\ UNCHANGED call
    <3>1. sync'[c] = "waiting" /\ call[c] # 0
      BY <1>0, <1>6, <2>2 DEF CallWait, Wait, TypeOK
    <3>2. c \notin early => OneContext(c)'
      BY <1>0, <1>6, <2>1, <2>2, <3>1 DEF OneContextEach, OneContext
    <3> QED
      BY <1>0, <1>3, <1>6, <2>2, <3>1, <3>2 DEF CallWait, Wait, TypeOK
  <2>3. CASE WaitReturns(c) /\ call' = [call EXCEPT ![c] = 0]
    <3>1. sync[c] = "woken" /\ sync'[c] = "held"
      BY <1>0, <1>6, <2>3 DEF WaitReturns, TypeOK
    <3>2. c \notin early => OneContext(c)'
      BY <1>0, <1>6, <2>1, <3>1 DEF OneContextEach, OneContext
    <3> QED
      BY <1>0, <1>3, <1>6, <2>3, <3>1, <3>2 DEF CallWait, WaitReturns, TypeOK
  <2> QED
    BY <1>6, <2>2, <2>3 DEF CallWait
<1>7. ASSUME NEW t \in Waiters, SpuriousWakeup(t) PROVE Goal
  <2>1. t \in Callers => call[t] # 0
    BY <1>0, <1>7 DEF SpuriousWakeup, HeldByOwner
  <2> QED
    BY <1>0, <1>3, <1>7, <2>1 DEF SpuriousWakeup, TypeOK
<1>8. ASSUME NEW type \in {"call", "send"}, NEW t \in Callers \cup Senders, Post(type, t),
             type = "call" => t \in Callers /\ call[t] = 0 /\ call' = [call EXCEPT ![t] = posted + 1],
             type = "send" => call' = call
      PROVE  Goal
  <2> DEFINE ctx == [type |-> type, from |-> t, n |-> posted + 1]
  <2>1. ctx \in Context /\ posted + 1 # 0
    BY <1>0, <1>8 DEF Post, MayPost, TypeOK, Context, Waiters
  <2>2. mRunning /\ Enqueue(ctx) /\ UNCHANGED <<ctxVec, sync, done, early>>
    BY <1>8 DEF Post
  <2>3. /\ \A c \in Callers : CallsOf(c)' \subseteq Nat
        /\ \A c \in Callers : \A i \in CallsOf(c)' :
             \/ i \in CallsOf(c) /\ Pending'[i] = Pending[i]
             \/ i = Len(Pending) + 1 /\ Pending'[i] = ctx /\ type = "call" /\ t = c
        /\ StartIsOfMain'
    BY <1>0, <2>1, <2>2, CallsAfterEnqueue
  <2>4. ASSUME NEW c \in Callers \ early' PROVE OneContext(c)'
    <3>1. OneContext(c)
      BY <1>0, <2>2, <2>4 DEF OneContextEach
    <3>2. CASE type = "call" /\ t = c
      <4>1. call[c] = 0 /\ call'[c] = posted + 1 /\ sync'[c] = "held"
        BY <1>0, <1>8, <2>2, <2>4, <3>2 DEF HeldByOwner, TypeOK
      <4>2. CallsOf(c) = {}
        BY <3>1, <4>1 DEF OneContext
      <4> QED
        BY <2>1, <2>3, <2>4, <4>1, <4>2 DEF OneContext
    <3>3. CASE ~(type = "call" /\ t = c)
      <4>1. call'[c] = call[c]
        BY <1>0, <1>8, <2>4, <3>3 DEF TypeOK
      <4>2. \A i \in CallsOf(c)' : i + 0 \in CallsOf(c) /\ Pending'[i].n = Pending[i + 0].n
        BY <1>0, <2>3, <2>4, <3>3
      <4> QED
        BY <1>0, <2>2, <2>3, <2>4, <3>1, <4>1, <4>2, CallerKept
    <3> QED
      BY <3>2, <3>3
  <2>5. HeldByOwner'
    BY <1>0, <1>8, <2>1, <2>2 DEF HeldByOwner, TypeOK
  <2> QED
    BY <2>3, <2>4, <2>5 DEF OneContextEach
<1>9. CASE DropContext
  <2>1. /\ \A c \in Callers : CallsOf(c)' \subseteq Nat
        /\ \A c \in Callers : \A i \in CallsOf(c)' : i + 1 \in CallsOf(c) /\ Pending'[i] = Pending[i + 1]
        /\ StartIsOfMain'
    BY <1>0, <1>9, CallsAfterTake DEF DropContext
  <2>2. UNCHANGED <<call, sync, done, early>>
    BY <1>9 DEF DropContext, DroppedIsSilent
  <2>3. ASSUME NEW c \in Callers \ early' PROVE OneContext(c)'
    <3>1. OneContext(c)
      BY <1>0, <2>2, <2>3 DEF OneContextEach
    <3> QED
      BY <1>0, <2>1, <2>2, <2>3, <3>1, CallerKept
  <2> QED
    BY <1>0, <2>1, <2>2, <2>3 DEF HeldByOwner, OneContextEach
<1>10. CASE Handle
  <2> DEFINE ctx == Head(ctxVec)
  <2>1. ctxVec # <<>>
    BY <1>0, <1>10 DEF Handle, BatchIsHeld
  <2>2. /\ \A c \in Callers : CallsOf(c)' \subseteq Nat
        /\ \A c \in Callers : \A i \in CallsOf(c)' :
             i + 1 \in CallsOf(c) /\ i + 1 # 1 /\ Pending'[i] = Pending[i + 1]
        /\ StartIsOfMain'
    BY <1>0, <1>10, <2>1, CallsAfterTake DEF Handle
  <2>3. Pending[1] = ctx /\ ctx \in Context /\ 1 \in 1..Len(Pending)
    BY <1>0, <1>10, <2>1, TakenOff DEF Handle
  <2>4. done' = Append(done, ctx) /\ UNCHANGED <<call, early>>
    BY <1>10 DEF Handle
  <2>5. /\ ctx.type # "send" => Signal(ctx.from)
        /\ ctx.type = "send" => sync' = sync
    BY <1>10 DEF Handle
  <2>6. ASSUME NEW c \in Callers \ early' PROVE OneContext(c)'
    <3>1. OneContext(c)
      BY <1>0, <2>4, <2>6 DEF OneContextEach
    <3>2. CASE ctx.type # "send" /\ ctx.from = c
      <4>1. ctx.type = "call"
        BY <1>0, <2>3, <2>6, <3>2 DEF StartIsOfMain, Context
      <4>2. 1 \in CallsOf(c)
        BY <2>3, <3>2, <4>1 DEF CallsOf
      <4>3. CallsOf(c)' = {} /\ ctx.n = call[c]
        BY <2>2, <2>3, <2>6, <3>1, <4>2 DEF OneContext
      <4>4. Len(done') \in Nat \ {0} /\ done'[Len(done')] = ctx
        BY <1>0, <2>3, <2>4, AppendProperties, LenProperties
      <4>5. \E i \in 1..Len(done') : done'[i].n = call'[c]
        BY <2>4, <4>3, <4>4
      <4> QED
        BY <4>3, <4>5 DEF OneContext
    <3>3. CASE ~(ctx.type # "send" /\ ctx.from = c)
      <4>1. sync'[c] = sync[c]
        BY <1>0, <2>5, <2>6, <3>3 DEF Signal, TypeOK
      <4> QED
        BY <1>0, <2>2, <2>3, <2>4, <2>6, <3>1, <4>1, CallerKept
    <3> QED
      BY <3>2, <3>3
  <2>7. HeldByOwner'
    BY <1>0, <2>4, <2>5 DEF HeldByOwner, Signal, TypeOK
  <2> QED
    BY <2>2, <2>4, <2>6, <2>7 DEF OneContextEach
<1>11. CASE GrabOrWait \/ GrabTimed
  <2>1. svc \notin {"batch", "handle", "aborted"} /\ Grab
    BY <1>11 DEF GrabOrWait, GrabTimed
  <2>2. Pending' = Pending
    BY <1>0, <2>1, GrabKeeps
  <2> QED
    BY <1>1, <2>1, <2>2 DEF Grab
<1>12. ASSUME NEW c \in Callers, CallEnqueue(c) PROVE Goal
  BY <1>8, <1>12 DEF CallEnqueue
<1>13. ASSUME NEW s \in Senders, Send(s) PROVE Goal
  BY <1>8, <1>13 DEF Send
<1> QED
  BY <1>2, <1>4, <1>5, <1>6, <1>7, <1>9, <1>10, <1>11, <1>12, <1>13
     DEF Next, Run, vars, StartThread, Stop, StopJoin, PostRefused, LoopTest, GoToSleep,
         TimedOut, BeginContext, BatchDone, Idle
-----------------------------------------------------------------------------
\* What every step of a service keeps.
LEMMA ServiceInvHolds == Spec => []ServiceInv
<1>1. ServiceInv /\ [Next]_vars => ServiceInv'
  BY TypeStep, MainStep, CallStep DEF ServiceInv
<1> QED
  BY <1>1, InitHolds, PTL DEF Spec

\* A service is a first-in-first-out queue of contexts: each is handled once, in
\* the order Enqueue took them, or forgotten after Stop (LogicService::Run takes
\* its queue as a whole and reads mRunning without the lock).
THEOREM ServiceIsContextQueue == Spec => IsContextQueue
<1>1. Init => Queue!QueueInit
  BY EmptySeq, ConcatEmptySeq DEF Init, Queue!QueueInit
<1>2. ServiceInv /\ [Next]_vars => [Queue!QueueNext]_(Queue!qvars)
  BY QueueStep DEF ServiceInv
<1> QED
  BY <1>1, <1>2, ServiceInvHolds, PTL DEF Spec, IsContextQueue, Queue!ContextQueueSpec

\* PostKVRequest returns only when the request was handled, and never because
\* the service was stopped (EnqueueKVRequest, SyncClosure::Signal and Wait).
THEOREM CallsReturnHandled == Spec => CallReturnsHandled
<1>1. ASSUME ServiceInv, [Next]_vars, NEW c \in Callers \ early, call[c] # 0, call'[c] = 0
      PROVE  \E i \in DOMAIN done : done[i].n = call[c]
  <2>1. ASSUME NEW d \in Callers, CallEnqueue(d) PROVE FALSE
    BY <1>1, <2>1 DEF CallEnqueue, ServiceInv, TypeOK
  <2>2. \E d \in Callers : CallWait(d)
    BY <1>1, <2>1
       DEF Next, Run, vars, StartThread, StartEnqueue, StartWait, Stop, StopJoin, Send,
           PostRefused, LoopTest, GrabOrWait, GrabTimed, Grab, GoToSleep, TimedOut,
           BeginContext, DropContext, Handle, BatchDone, Idle, SpuriousWakeup
  <2>3. CallWait(c) /\ WaitReturns(c)
    BY <1>1, <2>2 DEF CallWait, ServiceInv, TypeOK
  <2>4. OneContext(c) /\ sync[c] = "woken" /\ done \in Seq(Context)
    BY <1>1, <2>3 DEF WaitReturns, ServiceInv, OneContextEach, TypeOK
  <2> QED
    BY <2>4, LenProperties DEF OneContext
<1>2. ServiceInv /\ [Next]_vars =>
        [\A c \in Callers \ early : call[c] # 0 /\ call'[c] = 0 =>
           \E i \in DOMAIN done : done[i].n = call[c]]_vars
  BY <1>1
<1> QED
  BY <1>2, ServiceInvHolds, PTL DEF Spec, CallReturnsHandled
=============================================================================
