---------------------------- MODULE PersistLogger ---------------------------
(***************************************************************************)
(* The log on disk: PersistLogger, the files it writes (FileLog) and their *)
(* buffers (FileHandler).                                                  *)
(*                                                                         *)
(* A log file is named after the epoch of the process that created it and  *)
(* the log id of its first record; recovery reads the files in the order   *)
(* of their names.  What is appended, the file header first, gathers in a  *)
(* buffer until the buffer runs full (spill), the log is flushed or the    *)
(* file is closed.  The process may die between any two system calls: what *)
(* pwrite was given is kept, the rest is gone, and a record may have been  *)
(* cut in two.  The machine may lose power too (Losses): of a file only    *)
(* what fsync was called for is then sure to remain, and no file is        *)
(* sure to be found again, for nothing syncs the directory.                *)
(*                                                                         *)
(* Sizes are left out, so that any record may be the one that does not fit *)
(* into the buffer; Base64, CRC and the layout of a record are left out,   *)
(* so that a record is whole, cut, or not there.  The caller is LogCenter: *)
(* one WriteLog or FlushLog at a time, ids that count up from the last one *)
(* recovered.                                                              *)
(***************************************************************************)
EXTENDS Naturals, FiniteSets, Sequences, SequencesExt

CONSTANTS
  LOG_PER_FILE,
  StaleIds,       \* what a freed LogRecord may hold as its log id
  Losses,         \* bound: what a loss of power may take
  MaxRuns,        \* bound: processes started
  MaxRecords,     \* bound: records a process writes
  NoFile

ASSUME PersistLoggerAssumption ==
  /\ LOG_PER_FILE \in Nat \ {0}
  /\ StaleIds \subseteq Nat
  /\ Losses \subseteq {"end", "entry"}
  /\ NoFile \notin Nat \X Nat

VARIABLES
  files,      \* the directory: name -> [items, torn, synced]
  op,         \* what the process is doing, see Ops
  todo,       \* RecoverFromLog: names of the files it has still to read
  mDBEpoch,
  mCurrentLog,
  buffer,     \* items of the current file that are not in it yet
  record,     \* the record WriteLog was called with
  lastId,     \* LogCenter's mMaxLogId
  run, seq,   \* history: processes started, records this one has written
  acked,      \* history: the records a FlushLog has returned for
  lost,       \* history: what was synced in files whose entry was lost
  refused     \* history: a new log file could not be opened

procVars == <<todo, mDBEpoch, mCurrentLog, buffer, record, lastId>>
histVars == <<run, seq, acked, lost, refused>>
vars == <<files, op, procVars, histVars>>

\* Every record is one of its kind: the seq-th record the run-th process wrote.
LogRecord == [id : Nat, run : Nat \ {0}, seq : Nat]
Header    == [id |-> 0, run |-> 0, seq |-> 0]
NoRecord  == Header
Name      == Nat \X Nat

\* items: the header and the records in the file; torn: a part of another one
\* follows; synced: how many items fsync has been called for.
File    == [items : Seq(LogRecord \cup {Header}), torn : BOOLEAN, synced : Nat]
NewFile == [items |-> <<>>, torn |-> FALSE, synced |-> 0]

Ops == {"down", "recover", "idle", "close", "open", "append", "spill", "direct", "flush"}

Init ==
  /\ files = [n \in {} |-> NewFile]
  /\ op = "down"
  /\ todo = <<>> /\ mDBEpoch = 0
  /\ mCurrentLog = NoFile /\ buffer = <<>> /\ record = NoRecord
  /\ lastId = 0
  /\ run = 0 /\ seq = 0 /\ acked = {} /\ lost = {} /\ refused = FALSE
-----------------------------------------------------------------------------
(***************************************************************************)
(* Recovery.                                                               *)
(***************************************************************************)
\* The order of the names: both numbers are eight hexadecimal digits.
BeforeById(m, n) == m[2] < n[2] \/ (m[2] = n[2] /\ m[1] < n[1])   \* mutant
Before(m, n) == m[1] < n[1] \/ (m[1] = n[1] /\ m[2] < n[2])
InNameOrder  ==
  LET names == DOMAIN files
  IN  [i \in 1..Cardinality(names) |->
         CHOOSE n \in names : Cardinality({m \in names : Before(m, n)}) = i - 1]

\* What is behind the header, which comes first.
IsRecord(item) == item # Header
RecordsOf(items) == IF items # <<>> /\ ~IsRecord(Head(items)) THEN Tail(items) ELSE items

\* A new process lists the directory.
Start ==
  /\ op = "down" /\ run < MaxRuns
  /\ run' = run + 1 /\ seq' = 0
  /\ op' = "recover"
  /\ todo' = InNameOrder
  /\ UNCHANGED <<files, mDBEpoch, mCurrentLog, buffer, record, lastId, acked, lost, refused>>

\* RedoLogFile.  A file without a whole header is left as it is; of any other
\* the records are read, a record cut in two is cut off, and the epoch is
\* taken from the name.  The file is synced when it is closed.
RedoLogFile ==
  /\ op = "recover" /\ todo # <<>>
  /\ todo' = Tail(todo)
  /\ LET name == Head(todo)
         file == files[name]
     IN  \/ /\ file.items = <<>>
            /\ UNCHANGED <<files, mDBEpoch, lastId>>
         \/ /\ file.items # <<>>
            /\ files' = [files EXCEPT ![name].torn = FALSE, ![name].synced = Len(file.items)]
            /\ mDBEpoch' = name[1]
            /\ IF IsRecord(Last(file.items))
               THEN lastId' \in {Last(file.items).id} \cup StaleIds
               ELSE UNCHANGED lastId
  /\ UNCHANGED <<op, mCurrentLog, buffer, record, histVars>>

\* NotifyNewEpoch.
NotifyNewEpoch == mDBEpoch + 1

RecoverDone ==
  /\ op = "recover" /\ todo = <<>>
  /\ mDBEpoch' = NotifyNewEpoch
  /\ op' = "idle"
  /\ UNCHANGED <<files, todo, mCurrentLog, buffer, record, lastId, histVars>>
-----------------------------------------------------------------------------
(***************************************************************************)
(* WriteLog.                                                               *)
(***************************************************************************)
NeedOpenNewLogFile(id) == id % LOG_PER_FILE = 0

WriteLog ==
  /\ op = "idle" /\ seq < MaxRecords
  /\ record' = [id |-> lastId + 1, run |-> run, seq |-> seq + 1]
  /\ lastId' = lastId + 1 /\ seq' = seq + 1
  /\ op' = IF mCurrentLog = NoFile THEN "open"
           ELSE IF NeedOpenNewLogFile(lastId + 1) THEN "close"
           ELSE "append"
  /\ UNCHANGED <<files, todo, mDBEpoch, mCurrentLog, buffer, run, acked, lost, refused>>

Dead ==
  /\ op' = "down"
  /\ todo' = <<>> /\ mDBEpoch' = 0
  /\ mCurrentLog' = NoFile /\ buffer' = <<>> /\ record' = NoRecord
  /\ lastId' = 0

\* OpenNewLogFile.  FileHandler::OpenFile will not touch a file that is there,
\* and WriteLog asserts that it got one.
NewName == <<mDBEpoch, record.id \div LOG_PER_FILE>>

OpenOnly   == UNCHANGED files    \* mutant: open without O_CREAT
CreateFile ==
  files' = [n \in DOMAIN files \cup {NewName} |-> IF n = NewName THEN NewFile ELSE files[n]]

OpenNewLogFile ==
  /\ op = "open" /\ NewName \notin DOMAIN files
  /\ CreateFile
  /\ mCurrentLog' = NewName
  /\ buffer' = <<Header>>
  /\ op' = "append"
  /\ UNCHANGED <<todo, mDBEpoch, record, lastId, histVars>>

OpenFails ==
  /\ op = "open" /\ NewName \in DOMAIN files
  /\ refused' = TRUE
  /\ Dead
  /\ UNCHANGED <<files, run, seq, acked, lost>>

\* AppendLogRecord, when the record fits.
Append1 ==
  /\ op = "append"
  /\ buffer' = Append(buffer, record)
  /\ op' = "idle"
  /\ UNCHANGED <<files, todo, mDBEpoch, mCurrentLog, record, lastId, histVars>>

\* WriteNBytes: some field of the record does not fit.  (The buffer holds the
\* header or a record then; with an empty one a body that is larger than the
\* whole buffer goes to the file at once, as it does in "direct".)
BufferIsFull ==
  /\ op = "append" /\ buffer # <<>>
  /\ op' = "spill"
  /\ UNCHANGED <<files, procVars, histVars>>

\* The buffer has been written.  The record goes into the empty buffer, but
\* for the fields that were in front of the one that did not fit; a body
\* larger than the whole buffer then follows them at once ("direct").
SpillDone ==
  /\ op = "spill" /\ buffer = <<>>
  /\ buffer' = <<record>>
  /\ \/ op' = "idle" /\ \E cut \in BOOLEAN : files' = [files EXCEPT ![mCurrentLog].torn = cut]
     \/ op' = "direct" /\ files' = [files EXCEPT ![mCurrentLog].torn = TRUE]
  /\ UNCHANGED <<todo, mDBEpoch, mCurrentLog, record, lastId, histVars>>

DirectDone ==
  /\ op = "direct" /\ buffer = <<>>
  /\ op' = "idle"
  /\ UNCHANGED <<files, procVars, histVars>>
-----------------------------------------------------------------------------
(***************************************************************************)
(* FileHandler::WriteToFile writes the buffer, in any number of pieces.    *)
(***************************************************************************)
Pwrite ==
  /\ op \in {"close", "spill", "direct", "flush"} /\ buffer # <<>>
  /\ LET file == files[mCurrentLog]
     IN  \/ /\ ~file.torn
            /\ files' = [files EXCEPT ![mCurrentLog].torn = TRUE]
            /\ UNCHANGED buffer
         \/ /\ files' = [files EXCEPT ![mCurrentLog].torn = FALSE,
                                      ![mCurrentLog].items = Append(@, Head(buffer))]
            /\ buffer' = Tail(buffer)
  /\ UNCHANGED <<op, todo, mDBEpoch, mCurrentLog, record, lastId, histVars>>

\* FileHandler::Sync.
SyncNothing == UNCHANGED files   \* mutant
Sync == files' = [files EXCEPT ![mCurrentLog].synced = Len(files[mCurrentLog].items)]

\* FileHandler::Close and, with it, OpenNewLogFile's first half.
ClosedAsIs == TRUE               \* mutant: what is buffered is forgotten
WrittenOut == buffer = <<>>

Close ==
  /\ op = "close" /\ WrittenOut
  /\ Sync
  /\ mCurrentLog' = NoFile /\ buffer' = <<>>
  /\ op' = "open"
  /\ UNCHANGED <<todo, mDBEpoch, record, lastId, histVars>>

\* FlushLog; LogCenter has records to flush, so there is a file.
FlushLog ==
  /\ op = "idle" /\ mCurrentLog # NoFile
  /\ op' = "flush"
  /\ UNCHANGED <<files, procVars, histVars>>

Written == {r \in UNION {ToSet(files[n].items) : n \in DOMAIN files} : IsRecord(r)}

FlushDone ==
  /\ op = "flush" /\ buffer = <<>>
  /\ Sync
  /\ acked' = acked \cup Written
  /\ op' = "idle"
  /\ UNCHANGED <<procVars, run, seq, lost, refused>>
-----------------------------------------------------------------------------
Crash ==
  /\ op # "down"
  /\ Dead
  /\ UNCHANGED <<files, histVars>>

\* Of every file an unsynced end may be lost, and the first item lost be cut;
\* when nothing is lost, it is a Crash.
Remains(file, n, cut) == [file EXCEPT !.items = SubSeq(@, 1, n), !.torn = cut]

LosesEnd(name) ==
  /\ "end" \in Losses
  /\ LET file == files[name]
     IN  \E n \in file.synced..Len(file.items) : \E cut \in BOOLEAN :
           /\ cut => n < Len(file.items)
           /\ files' = [files EXCEPT ![name] = Remains(file, n, cut)]
  /\ UNCHANGED lost

\* FileHandler::OpenFile creates the file, and nobody calls fsync for the
\* directory: the file itself may be gone, with all that was synced of it.
LosesEntry(name) ==
  /\ "entry" \in Losses
  /\ files' = [n \in DOMAIN files \ {name} |-> files[n]]
  /\ lost' = lost \cup {files[name].items[i] : i \in 1..files[name].synced}

\* One file at a time: with the process gone the next may follow.
PowerLoss ==
  /\ Dead
  /\ \E name \in DOMAIN files : LosesEnd(name) \/ LosesEntry(name)
  /\ UNCHANGED <<run, seq, acked, refused>>

Next ==
  \/ Start \/ RedoLogFile \/ RecoverDone
  \/ WriteLog \/ OpenNewLogFile \/ OpenFails \/ Append1 \/ BufferIsFull
  \/ SpillDone \/ DirectDone \/ Pwrite \/ Close
  \/ FlushLog \/ FlushDone
  \/ Crash \/ PowerLoss

Spec == Init /\ [][Next]_vars
-----------------------------------------------------------------------------
(***************************************************************************)
(* Properties.                                                             *)
(***************************************************************************)
\* The type of every variable; the current log is a file that is there.
TypeOK ==
  /\ DOMAIN files \subseteq Name /\ \A n \in DOMAIN files : files[n] \in File
  /\ op \in Ops
  /\ todo \in Seq(Name) /\ mDBEpoch \in Nat
  /\ mCurrentLog \in DOMAIN files \cup {NoFile}
  /\ buffer \in Seq(LogRecord \cup {Header})
  /\ record \in LogRecord \cup {NoRecord}
  /\ lastId \in Nat /\ run \in Nat /\ seq \in Nat
  /\ acked \subseteq LogRecord /\ refused \in BOOLEAN
  /\ lost \subseteq LogRecord \cup {Header}

OnDisk   == LET names == InNameOrder
            IN  FlattenSeq([i \in 1..Len(names) |-> RecordsOf(files[names[i]].items)])
Contents == OnDisk \o RecordsOf(buffer)

\* What is lost of the records of a process is the last ones: none is missing
\* before one that is there, neither where files meet nor where a buffer was
\* spilled.  Only a file that is gone with its entry in the directory leaves a
\* hole, of what was synced of it.
NoHoles ==
  LET held == Written \cup {r \in ToSet(buffer) : IsRecord(r)} \cup lost
  IN  \A r \in held : r.seq > 1 => \E q \in held : q.run = r.run /\ q.seq = r.seq - 1

\* A record whose FlushLog has returned is in the synced part of a file whose
\* header is synced with it, however often the process died or the power failed
\* since: only with the directory's entry of its file can it be lost.
AckedIsSynced ==
  \A r \in acked : r \notin lost => \E n \in DOMAIN files :
    \E i \in 2..files[n].synced : files[n].items[1] = Header /\ files[n].items[i] = r

\* When it starts to write, a process has synced whatever it recovered, so
\* that no record a client may read can be lost with the power, unless its file
\* goes with its entry in the directory.
RecoveredIsSynced ==
  op \notin {"down", "recover"} =>
    \A n \in DOMAIN files : n # mCurrentLog => files[n].synced = Len(files[n].items)

\* assert(0) in WriteLog: a new log file can be opened.
NewLogFileOpens == ~refused

\* The files, headers and buffers implement the log LogCenter relies on: what
\* pwrite was given counts as flushed, and no step but a loss of power takes it
\* back, however the process dies.  Recovery reads the records in the order they
\* were written in, across all processes, also when the log ids of a new one
\* start again below the old ones: the epoch comes first in a name.
Durable == INSTANCE DurableLog WITH Records <- LogRecord, log <- Contents,
                                    flushed <- Len(OnDisk)
FilesAreDurableLog ==
  Durable!LogInit /\ [][PowerLoss \/ Durable!LogNext]_<<Contents, Len(OnDisk)>>
=============================================================================
