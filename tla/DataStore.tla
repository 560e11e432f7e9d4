----------------------------- MODULE DataStore -----------------------------
(***************************************************************************)
(* The in-memory store of SyncLog/DataStore.cpp: a map from table names to *)
(* tables, a table being a map from keys to values.  Operators only: each  *)
(* operation takes the store and returns what the C++ method returns (an   *)
(* error) together with the store it leaves.  The methods take no lock, so *)
(* who may call them when is the business of SyncLog.tla.                  *)
(***************************************************************************)
EXTENDS Naturals, Sequences

CONSTANTS Tables,     \* table names
          Keys,       \* keys
          Values,     \* values
          NoTable,    \* mStore has no such table
          NoValue     \* the table has no such key

Table == [Keys -> Values \cup {NoValue}]
Store == [Tables -> Table \cup {NoTable}]

EmptyTable == [k \in Keys |-> NoValue]
EmptyStore == [t \in Tables |-> NoTable]

Errors == {"ok", "E_TABLE_NOT_EXIST", "E_TABLE_EXIST", "E_KEY_NOT_EXIST",
           "E_KEY_EXIST"}

\* KVRequest::_OpType; OP_null is what a KVRequest holds until its owner sets
\* the type.
WriteTypes == {"put", "add", "del", "drop_table", "add_table"}
OpTypes    == WriteTypes \cup {"get", "null"}

Op == [type : OpTypes, table : Tables, key : Keys, value : Values \cup {NoValue}]
-----------------------------------------------------------------------------
(***************************************************************************)
(* SimpleDataTable                                                         *)
(***************************************************************************)
Holds(table, k) == table[k] # NoValue

DoPut(table, k, v) == [table EXCEPT ![k] = v]
DoDel(table, k)    == [table EXCEPT ![k] = NoValue]
-----------------------------------------------------------------------------
(***************************************************************************)
(* DataStore                                                               *)
(***************************************************************************)
Exists(store, t) == store[t] # NoTable

Refuse(store, e) == [err |-> e, store |-> store]
Accept(store)    == [err |-> "ok", store |-> store]

Put(store, t, k, v) ==
  IF Exists(store, t)
  THEN Accept([store EXCEPT ![t] = DoPut(@, k, v)])
  ELSE Refuse(store, "E_TABLE_NOT_EXIST")

Add(store, t, k, v) ==
  IF ~Exists(store, t) THEN Refuse(store, "E_TABLE_NOT_EXIST")
  ELSE IF Holds(store[t], k) THEN Refuse(store, "E_KEY_EXIST")
  ELSE Accept([store EXCEPT ![t] = DoPut(@, k, v)])

\* Deleting a key that is not there is a success.
Del(store, t, k) ==
  IF Exists(store, t)
  THEN Accept([store EXCEPT ![t] = DoDel(@, k)])
  ELSE Refuse(store, "E_TABLE_NOT_EXIST")

CreateTable(store, t) ==
  IF Exists(store, t) THEN Refuse(store, "E_TABLE_EXIST")
  ELSE Accept([store EXCEPT ![t] = EmptyTable])

\* Dropping a table that is not there is a success.
DropTable(store, t) == Accept([store EXCEPT ![t] = NoTable])

\* Get answers with an error and, when there is none, the value it found.
Get(store, t, k) ==
  IF ~Exists(store, t) THEN [err |-> "E_TABLE_NOT_EXIST", value |-> NoValue]
  ELSE IF Holds(store[t], k) THEN [err |-> "ok", value |-> store[t][k]]
  ELSE [err |-> "E_KEY_NOT_EXIST", value |-> NoValue]
-----------------------------------------------------------------------------
(***************************************************************************)
(* LogCenter::UpdateDataStore applies a log record.  Any type it does not  *)
(* know is assert(0): BadOpType tells which those are.                     *)
(***************************************************************************)
BadOpType(op) == op.type \notin WriteTypes

UpdateDataStore(store, op) ==
  CASE op.type = "put"        -> Put(store, op.table, op.key, op.value)
    [] op.type = "add"        -> Add(store, op.table, op.key, op.value)
    [] op.type = "del"        -> Del(store, op.table, op.key)
    [] op.type = "drop_table" -> DropTable(store, op.table)
    [] op.type = "add_table"  -> CreateTable(store, op.table)
    [] OTHER                  -> Refuse(store, "ok")

\* What recovery from a log leaves in an empty store: its records applied in
\* order, whatever each of them answers.
Replay(log) ==
  LET after[n \in 0..Len(log)] ==
        IF n = 0 THEN EmptyStore
        ELSE UpdateDataStore(after[n - 1], log[n].op).store
  IN  after[Len(log)]
=============================================================================
