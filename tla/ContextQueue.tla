---------------------------- MODULE ContextQueue ----------------------------
(***************************************************************************)
(* What the threads of the database take a LogicService for: a queue of    *)
(* contexts that are handled one at a time, in the order they were put in, *)
(* each of them once.  A service that is stopped forgets what it still     *)
(* has.  SyncLog.tla uses its two queues this way.                         *)
(***************************************************************************)
EXTENDS Sequences

CONSTANT Contexts

VARIABLES
  pending,   \* accepted, not handled
  handled,   \* handled, in this order
  running

qvars == <<pending, handled, running>>

QueueInit ==
  /\ pending = <<>> /\ handled = <<>> /\ running = FALSE

QueueStart ==
  /\ running' = TRUE
  /\ UNCHANGED <<pending, handled>>

QueueAccept ==
  /\ running
  /\ \E ctx \in Contexts : pending' = Append(pending, ctx)
  /\ UNCHANGED <<handled, running>>

\* A handler that is at work when the service is stopped goes on to its end.
QueueHandle ==
  /\ pending # <<>>
  /\ handled' = Append(handled, Head(pending))
  /\ pending' = Tail(pending)
  /\ UNCHANGED running

QueueStop ==
  /\ running' = FALSE
  /\ UNCHANGED <<pending, handled>>

QueueForget ==
  /\ ~running /\ pending # <<>>
  /\ pending' = Tail(pending)
  /\ UNCHANGED <<handled, running>>

QueueNext ==
  QueueStart \/ QueueAccept \/ QueueHandle \/ QueueStop \/ QueueForget

ContextQueueSpec == QueueInit /\ [][QueueNext]_qvars
=============================================================================
