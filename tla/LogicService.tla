---------------------------- MODULE LogicService ----------------------------
(***************************************************************************)
(* One service thread, the threads that give it work, and the SyncClosure  *)
(* a thread waits on until its work is done.  RequestCenter and LogCenter  *)
(* are services of this kind: RequestCenter waits on its condition until   *)
(* there is something to do, LogCenter (Timed) only for a while, and calls *)
(* Idle when nothing came.                                                 *)
(*                                                                         *)
(* Callers queue a context and wait for it (EnqueueKVRequest); senders do  *)
(* not wait (ReceiveKVResponse, the two AppendLogRecord).  The main thread *)
(* starts the service and stops it.  A context that is refused kills the   *)
(* process: see PostRefused.                                               *)
(*                                                                         *)
(* A block between lock and unlock of mMutex is one action, as is          *)
(* SyncClosure::Signal; mRunning is also read without the lock.            *)
(***************************************************************************)
EXTENDS Naturals, Sequences, SequencesExt

CONSTANTS
  Callers, Senders, Main,
  MaxPosts          \* bound: contexts queued in a behaviour

ASSUME LogicServiceAssumption ==
  /\ Main \notin Callers \cup Senders
  /\ Callers \cap Senders = {}
  /\ MaxPosts \in Nat

VARIABLES
  Timed,     \* mSleepNanosec > 0
  mRunning, mQueue,
  svc,       \* where the service thread is in Run
  ctxVec,    \* what it has taken and not finished
  mainPc,
  call,      \* call[c]: the context caller c waits for, 0: none
  sync,      \* sync[t]: the SyncClosure of thread t
  posted,    \* history: contexts queued
  done,      \* history: contexts handled
  early      \* history: threads pthread_cond_wait returned to unsignalled

queueVars == <<mRunning, mQueue>>
vars == <<Timed, queueVars, svc, ctxVec, mainPc, call, sync, posted, done, early>>

Waiters == Callers \cup {Main}
Context == [type : {"start", "call", "send"}, from : Waiters \cup Senders, n : 0..MaxPosts]
StartCtx == [type |-> "start", from |-> Main, n |-> 0]

Init ==
  /\ Timed \in BOOLEAN
  /\ mRunning = FALSE /\ mQueue = <<>>
  /\ svc = "none" /\ ctxVec = <<>>
  /\ mainPc = "begin"
  /\ call = [c \in Callers |-> 0]
  /\ sync = [t \in Waiters |-> "held"]
  /\ posted = 0 /\ done = <<>> /\ early = {}
-----------------------------------------------------------------------------
(***************************************************************************)
(* The condition mCond has one waiter, the service thread.                 *)
(***************************************************************************)
AwakeUnchecked == "take"                          \* mutant: if, not while
Awake == IF Timed THEN "take" ELSE "lock"         \* while: the queue is tested again
SignalsNobody == UNCHANGED svc                    \* mutant
SignalCond    == svc' = IF svc = "wait" THEN Awake ELSE svc

\* Enqueue: a service that is not running takes nothing.  Start does not look
\* at what Enqueue returns; for the others see PostRefused.
EnqueueFirst(ctx) == mQueue' = IF mRunning THEN <<ctx>> \o mQueue ELSE mQueue   \* mutant
Enqueue(ctx) == mQueue' = IF mRunning THEN Append(mQueue, ctx) ELSE mQueue
-----------------------------------------------------------------------------
(***************************************************************************)
(* SyncClosure.  Its mutex is locked by the constructor, so that Signal    *)
(* waits until the owner is in Wait: "held" (by the owner), "waiting" (in  *)
(* pthread_cond_wait), "woken" (about to return from it).                  *)
(***************************************************************************)
SyncNotLocked(t) == TRUE          \* mutant: the constructor does not lock
SyncIsFree(t) == sync[t] # "held"

Signal(t) ==
  /\ SyncIsFree(t)
  /\ sync' = [sync EXCEPT ![t] = IF @ = "waiting" THEN "woken" ELSE @]

Wait(t) == sync[t] = "held" /\ sync' = [sync EXCEPT ![t] = "waiting"]

WaitReturns(t) == sync[t] = "woken" /\ sync' = [sync EXCEPT ![t] = "held"]

\* Wait calls pthread_cond_wait once and has nothing to check.
SpuriousWakeup(t) ==
  /\ sync[t] = "waiting" /\ mainPc # "aborted"
  /\ sync' = [sync EXCEPT ![t] = "woken"]
  /\ early' = early \cup {t}
  /\ UNCHANGED <<Timed, queueVars, svc, ctxVec, mainPc, call, posted, done>>
-----------------------------------------------------------------------------
(***************************************************************************)
(* The main thread: Start, Stop and the end of the process.                *)
(***************************************************************************)
\* Start sets mRunning before there is a thread: its own context needs it.
NotRunningYet == UNCHANGED mRunning   \* mutant: left to ProcessStart
RunningAlready == mRunning' = TRUE

StartThread ==
  /\ mainPc = "begin"
  /\ RunningAlready
  /\ svc' = "top"
  /\ mainPc' = "spawned"
  /\ UNCHANGED <<Timed, mQueue, ctxVec, call, sync, posted, done, early>>

StartEnqueue ==
  /\ mainPc = "spawned"
  /\ Enqueue(StartCtx) /\ SignalCond
  /\ mainPc' = "starting"
  /\ UNCHANGED <<Timed, mRunning, ctxVec, call, sync, posted, done, early>>

StartWait ==
  /\ mainPc = "starting"
  /\ \/ Wait(Main) /\ UNCHANGED mainPc
     \/ WaitReturns(Main) /\ mainPc' = "started"
  /\ UNCHANGED <<Timed, queueVars, svc, ctxVec, call, posted, done, early>>

\* Nothing keeps it from being called with calls outstanding.
Stop ==
  /\ mainPc = "started"
  /\ mRunning' = FALSE /\ SignalCond
  /\ mainPc' = "joining"
  /\ UNCHANGED <<Timed, mQueue, ctxVec, call, sync, posted, done, early>>

StopJoin ==
  /\ mainPc = "joining" /\ svc = "exited"
  /\ mainPc' = "stopped"
  /\ UNCHANGED <<Timed, queueVars, svc, ctxVec, call, sync, posted, done, early>>
-----------------------------------------------------------------------------
(***************************************************************************)
(* Callers and senders.  They run once the service has been started, and   *)
(* may go on when it is stopped.                                           *)
(***************************************************************************)
MayPost ==
  /\ posted < MaxPosts
  /\ mainPc \in {"started", "joining", "stopped"}

Post(type, t) ==
  /\ MayPost /\ mRunning
  /\ Enqueue([type |-> type, from |-> t, n |-> posted + 1]) /\ SignalCond
  /\ posted' = posted + 1
  /\ UNCHANGED <<Timed, mRunning, ctxVec, mainPc, sync, done, early>>

CallEnqueue(c) ==
  /\ call[c] = 0
  /\ Post("call", c)
  /\ call' = [call EXCEPT ![c] = posted + 1]

CallWait(c) ==
  /\ call[c] # 0 /\ mainPc # "aborted"
  /\ \/ Wait(c) /\ UNCHANGED call
     \/ WaitReturns(c) /\ call' = [call EXCEPT ![c] = 0]
  /\ UNCHANGED <<Timed, queueVars, svc, ctxVec, mainPc, posted, done, early>>

Send(s) == Post("send", s) /\ UNCHANGED call

\* The service has been stopped.  The context is not taken; the thread drops
\* the only reference to it, and ~OperContext asserts that nothing hangs on it
\* any more (LogCenter::AppendLogRecord already asserts that it was taken).
PostRefused ==
  /\ MayPost /\ ~mRunning
  /\ mainPc' = "aborted" /\ svc' = "aborted"
  /\ UNCHANGED <<Timed, queueVars, ctxVec, call, sync, posted, done, early>>
-----------------------------------------------------------------------------
(***************************************************************************)
(* Run.                                                                    *)
(***************************************************************************)
LoopTest ==
  /\ svc = "top"
  /\ svc' = IF mRunning THEN "lock" ELSE "exited"
  /\ UNCHANGED <<Timed, queueVars, ctxVec, mainPc, call, sync, posted, done, early>>

\* What is queued is taken as a whole.
TakeReversed == ctxVec' = Reverse(mQueue)    \* mutant
TakeQueue    == ctxVec' = mQueue

Grab ==
  /\ TakeQueue /\ mQueue' = <<>>
  /\ svc' = IF mQueue # <<>> THEN "batch" ELSE IF Timed THEN "idle" ELSE "top"
  /\ UNCHANGED <<Timed, mRunning, mainPc, call, sync, posted, done, early>>

GrabOrWait ==
  /\ svc = "lock" /\ ~Timed
  /\ ~(mQueue = <<>> /\ mRunning)
  /\ Grab

GoToSleep ==
  /\ svc = "lock" /\ (Timed \/ (mQueue = <<>> /\ mRunning))
  /\ svc' = "wait"
  /\ UNCHANGED <<Timed, queueVars, ctxVec, mainPc, call, sync, posted, done, early>>

\* The time to wait until is read from CLOCK_MONOTONIC and compared with
\* CLOCK_REALTIME: it is always over.
NeverTimesOut == FALSE      \* mutant: a plain pthread_cond_wait
TimesOut == Timed

TimedOut ==
  /\ svc = "wait" /\ TimesOut
  /\ svc' = Awake
  /\ UNCHANGED <<Timed, queueVars, ctxVec, mainPc, call, sync, posted, done, early>>

GrabTimed == svc = "take" /\ Grab

\* One turn of the loop over ctxVec: the context is handled, or forgotten
\* when the service was stopped meanwhile.
BeginContext ==
  /\ svc = "batch" /\ ctxVec # <<>> /\ mRunning
  /\ svc' = "handle"
  /\ UNCHANGED <<Timed, queueVars, ctxVec, mainPc, call, sync, posted, done, early>>

DroppedIsAnswered ==                             \* mutant
  sync' = [t \in Waiters |-> IF t = Head(ctxVec).from /\ sync[t] = "waiting" THEN "woken" ELSE sync[t]]
DroppedIsSilent   == UNCHANGED sync

DropContext ==
  /\ svc = "batch" /\ ctxVec # <<>> /\ ~mRunning
  /\ ctxVec' = Tail(ctxVec)
  /\ DroppedIsSilent
  /\ UNCHANGED <<Timed, queueVars, svc, mainPc, call, posted, done, early>>

\* ProcessStart, or the handler of a call, which ends in KVRequest::Signal,
\* or of a context nobody waits for.
Handle ==
  /\ svc = "handle"
  /\ LET ctx == Head(ctxVec)
     IN  /\ mRunning' = (mRunning \/ ctx.type = "start")
         /\ IF ctx.type = "send" THEN UNCHANGED sync ELSE Signal(ctx.from)
         /\ done' = Append(done, ctx)
  /\ ctxVec' = Tail(ctxVec)
  /\ svc' = "batch"
  /\ UNCHANGED <<Timed, mQueue, mainPc, call, posted, early>>

BatchDone ==
  /\ svc = "batch" /\ ctxVec = <<>>
  /\ svc' = "top"
  /\ UNCHANGED <<Timed, queueVars, ctxVec, mainPc, call, sync, posted, done, early>>

Idle ==
  /\ svc = "idle"
  /\ svc' = "top"
  /\ UNCHANGED <<Timed, queueVars, ctxVec, mainPc, call, sync, posted, done, early>>

Run == \/ LoopTest \/ GrabOrWait \/ GoToSleep \/ TimedOut \/ GrabTimed
       \/ BeginContext \/ DropContext \/ Handle \/ BatchDone \/ Idle

Next == \/ StartThread \/ StartEnqueue \/ StartWait \/ Stop \/ StopJoin
        \/ \E c \in Callers : CallEnqueue(c) \/ CallWait(c)
        \/ \E s \in Senders : Send(s)
        \/ PostRefused
        \/ Run
        \/ \E t \in Waiters : SpuriousWakeup(t)

Spec == Init /\ [][Next]_vars

\* A thread that can go on does so.  Nobody need call, send or stop.
FairSpec ==
  /\ Spec
  /\ WF_vars(Run)
  /\ WF_vars(StartThread \/ StartEnqueue \/ StartWait \/ StopJoin)
  /\ \A c \in Callers : WF_vars(CallWait(c))
-----------------------------------------------------------------------------
(***************************************************************************)
(* Properties.                                                             *)
(***************************************************************************)
\* The type of every variable.
TypeOK ==
  /\ mRunning \in BOOLEAN
  /\ mQueue \in Seq(Context) /\ ctxVec \in Seq(Context) /\ done \in Seq(Context)
  /\ svc \in {"none", "top", "lock", "wait", "batch", "handle", "exited", "aborted"}
             \cup (IF Timed THEN {"take", "idle"} ELSE {})
  /\ mainPc \in {"begin", "spawned", "starting", "started", "joining", "stopped", "aborted"}
  /\ call \in [Callers -> Nat]
  /\ sync \in [Waiters -> {"held", "waiting", "woken"}]
  /\ Timed \in BOOLEAN /\ posted \in 0..MaxPosts /\ early \subseteq Waiters

\* Taking the queue as a whole, outside any order between the threads, leaves
\* nothing out, doubles nothing and changes no order (Run, Enqueue).
Queue == INSTANCE ContextQueue WITH Contexts <- Context, pending <- ctxVec \o mQueue,
                                    handled <- done, running <- mRunning
IsContextQueue == Queue!ContextQueueSpec

\* PostKVRequest returns to its caller when the request has been handled, not
\* before, and never because the service was stopped; only a return from
\* pthread_cond_wait that nobody caused can end it early, as SyncClosure::Wait
\* does not look at anything (EnqueueKVRequest, Signal, Wait).
CallReturnsHandled ==
  [][\A c \in Callers \ early : call[c] # 0 /\ call'[c] = 0 =>
       \E i \in DOMAIN done : done[i].n = call[c]]_vars

\* A thread that returned from Wait early holds its closure's mutex again, and
\* the service then waits in Signal for good.
WokenEarly == early # {}
Stopping == mainPc \in {"joining", "stopped", "aborted"}

\* No signal is lost between a thread that queues its request and then waits
\* and the service that may be done with it first: every call returns, as long
\* as the service is not stopped.
CallReturns == \A c \in Callers : call[c] # 0 ~> (call[c] = 0 \/ Stopping \/ WokenEarly)

\* Start returns: its own context is not refused, and its signal not lost.
StartReturns == mainPc = "spawned" ~> mainPc = "started"

\* Stop returns, however many contexts are queued and whoever the service is
\* about to signal, unless a thread posts to the service it stops.
StopReturns == mainPc = "joining" ~> (mainPc \in {"stopped", "aborted"} \/ WokenEarly)

\* A timed service calls Idle, which flushes the log of LogCenter, also when
\* nobody queues anything any more.
IdleGoesOn == Timed => <>(Stopping \/ WokenEarly) \/ []<>(svc = "idle")
=============================================================================
