----------------------------- MODULE KVService ------------------------------
(***************************************************************************)
(* What the database promises to the threads that call PostKVRequest: one  *)
(* store that outlives the process.  A write takes effect at one moment    *)
(* between its call and its answer, and it is then there for good; a get   *)
(* sees the store of one moment.  Two things are weaker.  When the process *)
(* dies, a write nobody was answered may or may not take effect.  And a    *)
(* process that has just started may, until it has recovered, answer gets  *)
(* from a past store or find nothing; for a key that had a value in a past *)
(* store it may even answer with what never was its value (TornValue).     *)
(***************************************************************************)
EXTENDS DataStore

CONSTANTS Clients, NoRequest, NoAnswer, TornValue

VARIABLES
  store,       \* the writes that took effect
  past,        \* stores a get may still be answered from
  open,        \* the process takes requests
  recovered,
  pending,     \* pending[c]: the operation c waits for, or NoRequest
  result       \* result[c]: the answer to its last one, or NoAnswer

kvVars == <<store, past, open, recovered, pending, result>>

KVInit ==
  /\ store \in Store /\ past \subseteq Store /\ store \in past
  /\ open = FALSE /\ recovered = FALSE
  /\ pending = [c \in Clients |-> NoRequest]
  /\ result = [c \in Clients |-> NoAnswer]

Open ==
  /\ ~open /\ open' = TRUE
  /\ recovered' \in BOOLEAN
  /\ past' = IF recovered' THEN {store} ELSE past
  /\ UNCHANGED <<store, pending, result>>

Recovered ==
  /\ open /\ ~recovered
  /\ recovered' = TRUE /\ past' = {store}
  /\ UNCHANGED <<store, open, pending, result>>

Call(c) ==
  /\ open /\ pending[c] = NoRequest
  /\ pending'[c] \in Op /\ pending' = [pending EXCEPT ![c] = pending'[c]]
  /\ result' = [result EXCEPT ![c] = NoAnswer]
  /\ UNCHANGED <<store, past, open, recovered>>

Returns(c, err, value) ==
  /\ pending' = [pending EXCEPT ![c] = NoRequest]
  /\ result' = [result EXCEPT ![c] = [err |-> err, value |-> value]]
  /\ UNCHANGED <<open, recovered>>

IsWrite(c) == pending[c] # NoRequest /\ pending[c].type \in WriteTypes

Write(c) ==
  /\ recovered /\ IsWrite(c)
  /\ LET res == UpdateDataStore(store, pending[c]) IN
       /\ store' = res.store
       /\ Returns(c, res.err, NoValue)
  /\ past' = {store'}

Misses == {[err |-> e, value |-> NoValue] : e \in {"E_TABLE_NOT_EXIST", "E_KEY_NOT_EXIST"}}

HadValue(op) == \E s \in past : Get(s, op.table, op.key).err = "ok"
Torn(op) == IF HadValue(op) THEN {[err |-> "ok", value |-> TornValue]} ELSE {}

Read(c) ==
  /\ pending[c] # NoRequest /\ pending[c].type = "get"
  /\ \E res \in {Get(s, pending[c].table, pending[c].key) : s \in past}
              \cup (IF recovered THEN {} ELSE Misses \cup Torn(pending[c])) :
       Returns(c, res.err, res.value)
  /\ UNCHANGED <<store, past>>

\* The stores that some of the unanswered writes, in some order, make of this one.
Survivors ==
  LET Writers == {c \in Clients : IsWrite(c)}
      after[W \in SUBSET Writers] ==
        {store} \cup UNION {{UpdateDataStore(s, pending[c]).store : s \in after[W \ {c}]} : c \in W}
  IN  after[Writers]

Die ==
  /\ open' = FALSE /\ recovered' = FALSE
  /\ store' \in Survivors
  /\ past' \subseteq Store /\ store' \in past'
  /\ pending' = [c \in Clients |-> NoRequest]
  /\ result' = [c \in Clients |-> NoAnswer]

KVNext == Open \/ Recovered \/ Die \/ \E c \in Clients : Call(c) \/ Write(c) \/ Read(c)

KVSpec == KVInit /\ [][KVNext]_kvVars
=============================================================================
