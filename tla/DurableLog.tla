---------------------------- MODULE DurableLog ------------------------------
(***************************************************************************)
(* What the log of the database promises to its users, LogCenter and the   *)
(* recovery at start: records come back in the order they were appended, a *)
(* crash loses a suffix only, and never a record that had been flushed.    *)
(*                                                                         *)
(* PersistLogger.tla (files, buffers, headers) is shown to implement this  *)
(* specification; SyncLog.tla (the threads that use the log) is built on   *)
(* its actions.                                                            *)
(***************************************************************************)
EXTENDS Naturals, Sequences

CONSTANT Records

VARIABLES log,      \* the records written, oldest first
          flushed   \* how many of them a crash cannot take back

logVars == <<log, flushed>>

LogTypeOK == /\ log \in Seq(Records)
             /\ flushed \in 0..Len(log)

LogInit == /\ log \in Seq(Records)
           /\ flushed = Len(log)

\* WriteLog: the record goes to the end of the log.  Before that, a new file
\* may have been opened, which closes and so flushes the previous one.
LogAppend(r, rotates) ==
  /\ log' = Append(log, r)
  /\ flushed' = IF rotates THEN Len(log) ELSE flushed

\* WriteLog when the buffer runs full: some of what was written becomes safe.
LogSpill ==
  /\ flushed' \in flushed..Len(log)
  /\ UNCHANGED log

\* Mutant: FlushLog leaves the records in the buffer.
LogFlushLazy == UNCHANGED <<log, flushed>>

\* FlushLog: everything written so far is safe.
LogFlush ==
  /\ flushed' = Len(log)
  /\ UNCHANGED log

\* The process dies.  What was written and not flushed may or may not have
\* reached the file; whatever did is what the next process finds.
LogCrash ==
  \E n \in flushed..Len(log) : /\ log' = SubSeq(log, 1, n)
                               /\ flushed' = n

\* Some record was appended: the one the log now ends with.
LogGrows ==
  /\ log' # <<>>
  /\ log'[Len(log')] \in Records
  /\ \E rotates \in BOOLEAN : LogAppend(log'[Len(log')], rotates)

LogNext ==
  \/ LogSpill
  \/ LogGrows
  \/ LogFlush
  \/ LogCrash

DurableLogSpec == LogInit /\ [][LogNext]_logVars
=============================================================================
