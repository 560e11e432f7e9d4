----------------------------- MODULE SyncLogKV ------------------------------
(***************************************************************************)
(* SyncLog implements KVService.  While a process has not recovered, the   *)
(* store is what its log gives; afterwards it is the data store, and a     *)
(* write takes effect when RequestCenter answers it, not when its record   *)
(* is written or flushed.                                                  *)
(***************************************************************************)
EXTENDS SyncLogInv

\* What stands for no request, no answer or no table is none.
ASSUME KVAssumption == NoRequest \notin Op /\ NoAnswer \notin AnswerT /\ NoTable \notin Table

IsRecovered == proc = "up" /\ ~RecoverPending
LogStore    == Replay(log)

KV == INSTANCE KVService WITH
  store     <- IF IsRecovered THEN dataStore ELSE LogStore,
  past      <- IF IsRecovered THEN {dataStore}
               ELSE {Replay(SubSeq(log, 1, n)) : n \in 0..Len(log)},
  open      <- proc = "up",
  recovered <- IsRecovered,
  pending   <- [c \in Clients |-> IF Waiting(c) THEN request[c].op ELSE NoRequest],
  result    <- [c \in Clients |-> IF answer[c] = NoAnswer THEN NoAnswer
                                  ELSE [err |-> answer[c].err, value |-> answer[c].value]]

\* The clients see one durable store: an answered write is seen by every later
\* get and by every later process, an unanswered one in whole or not at all.  The
\* exception is a get before the recovery has ended (KVDB::Start does not wait for
\* LogCenter): it is answered from a past store, or finds nothing, or, if the key
\* had a value in a past store, may be given one that never was.
IsKVService == KV!KVSpec
=============================================================================
