----------------------------- MODULE SyncLogMC ------------------------------
(***************************************************************************)
(* SyncLog on small instances.                                             *)
(***************************************************************************)
EXTENDS SyncLogKV, TLC

CONSTANTS c1, c2, T1, T2, K1, K2, V1, V2

AnOp(type, t, k, v) == [type |-> type, table |-> t, key |-> k, value |-> v]
AddTableOp(t)  == AnOp("add_table", t, K1, NoValue)
PutOp(t, k, v) == AnOp("put", t, k, v)
GetOp(t, k)   == AnOp("get", t, k, NoValue)

\* A log as an earlier process leaves it: the table Main creates, one key.
SmallLog == << [logId |-> 1, op |-> AddTableOp(T1), tag |-> 0],
               [logId |-> 2, op |-> PutOp(T1, K1, V1), tag |-> 0] >>

\* Each client writes a table of its own, as the workers of Main.cpp write
\* keys of their own; c1 uses every operation, c2 also reads what c1 writes.
OwnTables ==
  (c1 :> {AnOp(t, T1, K1, NoValue) : t \in {"del", "get", "drop_table", "add_table"}}
          \cup {AnOp(t, T1, K1, V2) : t \in {"put", "add"}}) @@
  (c2 :> {AddTableOp(T2), PutOp(T2, K1, V1), GetOp(T1, K1)})

\* Two clients write the same key.
SameKey == (c1 :> {PutOp(T1, K1, V1)}) @@ (c2 :> {PutOp(T1, K1, V2)})

\* c1 may post a request whose type it has not set.
CarelessMenu ==
  (c1 :> {AnOp("null", T1, K1, V2), PutOp(T1, K1, V2)}) @@
  (c2 :> {PutOp(T1, K2, V1), GetOp(T1, K1)})
=============================================================================
