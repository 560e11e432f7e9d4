------------------------ MODULE PersistLoggerProofs -------------------------
(***************************************************************************)
(* What a flush has acknowledged, and what a process has recovered, is not *)
(* lost with the power but where a whole file goes with its entry in the   *)
(* directory; otherwise what is lost of the records of a process is the    *)
(* last ones; and the files implement the abstract log.  For any number of *)
(* processes, records and files, any rotation and any losses of power.     *)
(***************************************************************************)
EXTENDS PersistLogger, SequenceLemmas, FiniteSetTheorems, SequenceTheorems, TLAPS

\* There is a current file exactly while one is written to, and a process
\* that is up has a number.
CurrentFile ==
  /\ op \in {"append", "spill", "direct", "flush", "close"} => mCurrentLog # NoFile
  /\ op \in {"down", "recover", "open"} => mCurrentLog = NoFile
  /\ op # "down" => run # 0

\* The header is in front of all records, in the file or still in the buffer.
HeaderFirst ==
  /\ \A n \in DOMAIN files : files[n].items # <<>> => files[n].items[1] = Header
  /\ mCurrentLog # NoFile /\ files[mCurrentLog].items = <<>> =>
       buffer # <<>> /\ buffer[1] = Header

SyncedIsThere == \A n \in DOMAIN files : files[n].synced <= Len(files[n].items)

\* A process that recovers has synced a file or has it still to read.
RecoverySyncs ==
  op = "recover" =>
    /\ \A i \in 1..Len(todo) : todo[i] \in DOMAIN files
    /\ \A n \in DOMAIN files :
         files[n].synced = Len(files[n].items) \/ \E i \in 1..Len(todo) : todo[i] = n

\* What was synced stays where it is, whatever step is taken, or is lost with
\* the whole file.
StaysSynced(n) ==
  /\ files[n].synced <= files'[n].synced
  /\ \A i \in 1..files[n].synced : files'[n].items[i] = files[n].items[i]

IsLost(n) == \A i \in 1..files[n].synced : files[n].items[i] \in lost'

KeepsSynced ==
  /\ lost \subseteq lost'
  /\ \A n \in DOMAIN files : IF n \in DOMAIN files' THEN StaysSynced(n) ELSE IsLost(n)

FilesInv ==
  /\ TypeOK /\ IsFiniteSet(DOMAIN files) /\ CurrentFile
  /\ HeaderFirst /\ SyncedIsThere /\ RecoverySyncs
  /\ RecoveredIsSynced /\ AckedIsSynced
-----------------------------------------------------------------------------
(***************************************************************************)
(* The order of the names.                                                 *)
(***************************************************************************)
\* InNameOrder of any set of names.
Rank(S, n) == Cardinality({m \in S : Before(m, n)})
OrderOf(S) == [i \in 1..Cardinality(S) |-> CHOOSE n \in S : Rank(S, n) = i - 1]

LEMMA BeforeIsTotal ==
  ASSUME NEW m \in Name, NEW n \in Name
  PROVE  /\ Before(m, n) \/ Before(n, m) \/ m = n
         /\ ~(Before(m, n) /\ Before(n, m)) /\ ~Before(m, m)
<1>1. m = <<m[1], m[2]>> /\ n = <<n[1], n[2]>> /\ m[1] \in Nat /\ m[2] \in Nat /\ n[1] \in Nat /\ n[2] \in Nat
  BY DEF Name
<1> QED
  BY <1>1 DEF Before

LEMMA BeforeIsTransitive ==
  ASSUME NEW l \in Name, NEW m \in Name, NEW n \in Name, Before(l, m), Before(m, n)
  PROVE  Before(l, n)
BY DEF Before, Name

LEMMA RankGrows ==
  ASSUME NEW S \in SUBSET Name, IsFiniteSet(S), NEW m \in S, NEW n \in Name, Before(m, n)
  PROVE  Rank(S, m) \in Nat /\ Rank(S, n) \in Nat /\ Rank(S, m) < Rank(S, n)
<1> DEFINE a == {l \in S : Before(l, m)}
           b == {l \in S : Before(l, n)}
<1>1. a \subseteq b /\ m \in b /\ m \notin a
  BY BeforeIsTotal, BeforeIsTransitive
<1>2. IsFiniteSet(b)
  BY FS_Subset
<1>3. IsFiniteSet(a) /\ Cardinality(a) <= Cardinality(b) /\ Cardinality(a) # Cardinality(b)
  BY <1>1, <1>2, FS_Subset
<1>4. Cardinality(a) \in Nat /\ Cardinality(b) \in Nat
  BY <1>2, <1>3, FS_CardinalityType
<1> QED
  BY <1>3, <1>4 DEF Rank

LEMMA RankType ==
  ASSUME NEW S \in SUBSET Name, IsFiniteSet(S), NEW n \in Name
  PROVE  /\ Rank(S, n) \in 0..Cardinality(S)
         /\ n \in S => Rank(S, n) \in 0..(Cardinality(S) - 1)
<1> DEFINE a == {l \in S : Before(l, n)}
<1>1. IsFiniteSet(a) /\ Cardinality(a) <= Cardinality(S) /\ (Cardinality(S) = Cardinality(a) => S = a)
  BY FS_Subset
<1>2. Cardinality(a) \in Nat /\ Cardinality(S) \in Nat
  BY <1>1, FS_CardinalityType
<1>3. n \in S => a # S
  BY BeforeIsTotal
<1> QED
  BY <1>1, <1>2, <1>3 DEF Rank

\* The names of a set in their order, one after the other, none of them left
\* out (GetAllFileWithSuffix sorts them).
LEMMA OrderOfIs ==
  ASSUME NEW S \in SUBSET Name, IsFiniteSet(S)
  PROVE  /\ OrderOf(S) \in Seq(Name) /\ Len(OrderOf(S)) = Cardinality(S) /\ Cardinality(S) \in Nat
         /\ \A i \in 1..Cardinality(S) : OrderOf(S)[i] \in S /\ Rank(S, OrderOf(S)[i]) = i - 1
         /\ \A n \in S : Rank(S, n) + 1 \in 1..Cardinality(S) /\ OrderOf(S)[Rank(S, n) + 1] = n
         /\ \A i, j \in 1..Cardinality(S) : i < j => Before(OrderOf(S)[i], OrderOf(S)[j])
<1> DEFINE N == Cardinality(S)
           place == [n \in S |-> Rank(S, n)]
<1>1. N \in Nat
  BY FS_CardinalityType
<1>2. \A n \in S : Rank(S, n) \in 0..(N - 1)
  BY RankType
<1>3. ASSUME NEW m \in S, NEW n \in S, Rank(S, m) = Rank(S, n) PROVE m = n
  <2>1. ~(Rank(S, m) < Rank(S, n)) /\ ~(Rank(S, n) < Rank(S, m))
    BY <1>1, <1>2, <1>3
  <2>2. ~Before(m, n) /\ ~Before(n, m)
    BY <2>1, RankGrows
  <2> QED
    BY <2>2, BeforeIsTotal
<1>4. place \in Injection(S, 0..(N - 1))
  <2>1. place \in [S -> 0..(N - 1)]
    BY <1>2, Zenon
  <2>2. \A m, n \in S : place[m] = place[n] => m = n
    BY <1>3, Zenon
  <2> QED
    BY <2>1, <2>2, Zenon DEF Injection, IsInjective
<1>5. IsFiniteSet(0..(N - 1)) /\ Cardinality(0..(N - 1)) = N
  BY <1>1, FS_Interval
<1>6. place \in Surjection(S, 0..(N - 1))
  BY <1>4, <1>5, FS_Injection
<1>7. ASSUME NEW i \in 1..N PROVE OrderOf(S)[i] \in S /\ Rank(S, OrderOf(S)[i]) = i - 1
  <2>1. \E n \in S : Rank(S, n) = i - 1
    <3>1. i - 1 \in 0..(N - 1)
      BY <1>1
    <3> QED
      BY <1>6, <3>1 DEF Surjection
  <2>2. OrderOf(S)[i] = CHOOSE n \in S : Rank(S, n) = i - 1
    BY DEF OrderOf
  <2> QED
    BY <2>1, <2>2
<1>8. OrderOf(S) \in Seq(Name) /\ Len(OrderOf(S)) = N
  <2>1. OrderOf(S) \in [1..N -> Name]
    BY <1>7 DEF OrderOf
  <2>2. OrderOf(S) \in Seq(Name)
    BY <1>1, <2>1, SeqDef
  <2> QED
    BY <1>1, <2>1, <2>2, LenProperties
<1>9. ASSUME NEW n \in S PROVE Rank(S, n) + 1 \in 1..N /\ OrderOf(S)[Rank(S, n) + 1] = n
  <2>1. Rank(S, n) + 1 \in 1..N /\ (Rank(S, n) + 1) - 1 = Rank(S, n)
    BY <1>1, <1>2
  <2> QED
    BY <1>3, <1>7, <2>1
<1>10. ASSUME NEW i \in 1..N, NEW j \in 1..N, i < j PROVE Before(OrderOf(S)[i], OrderOf(S)[j])
  <2> DEFINE m == OrderOf(S)[i]
             n == OrderOf(S)[j]
  <2>1. m \in S /\ n \in S /\ Rank(S, m) = i - 1 /\ Rank(S, n) = j - 1
    BY <1>7
  <2> HIDE DEF m, n
  <2>2. ~(Rank(S, n) < Rank(S, m)) /\ Rank(S, m) # Rank(S, n)
    BY <1>10, <2>1
  <2>3. ~Before(n, m) /\ n # m
    BY <2>1, <2>2, RankGrows
  <2>4. m \in Name /\ n \in Name
    BY <2>1
  <2>5. Before(m, n)
    BY <2>3, <2>4, BeforeIsTotal
  <2> QED
    BY <2>5 DEF m, n
<1> QED
  BY <1>1, <1>7, <1>8, <1>9, <1>10

\* A new name comes behind those that are before it.
LEMMA OrderOfInsert ==
  ASSUME NEW S \in SUBSET Name, IsFiniteSet(S), NEW m \in Name, m \notin S
  PROVE  LET T == S \cup {m}
             k == Rank(S, m)
         IN  /\ k \in 0..Len(OrderOf(S)) /\ k + 1 \in 1..Len(OrderOf(T))
             /\ OneMore(OrderOf(S), OrderOf(T), k) /\ OrderOf(T)[k + 1] = m
<1> DEFINE T == S \cup {m}
           k == Rank(S, m)
           N == Cardinality(S)
<1>1. T \in SUBSET Name /\ IsFiniteSet(T) /\ Cardinality(T) = N + 1 /\ N \in Nat /\ m \in T
  BY FS_AddElement, FS_CardinalityType
<1>2. k \in 0..N /\ k \in Nat
  BY RankType
<1>3. ASSUME NEW n \in Name, ~Before(m, n) PROVE Rank(T, n) = Rank(S, n)
  <2>1. {l \in T : Before(l, n)} = {l \in S : Before(l, n)}
    BY <1>3
  <2> QED
    BY <2>1 DEF Rank
<1>4. ASSUME NEW n \in Name, Before(m, n) PROVE Rank(T, n) = Rank(S, n) + 1
  <2> DEFINE a == {l \in S : Before(l, n)}
  <2>1. {l \in T : Before(l, n)} = a \cup {m}
    BY <1>4
  <2>2. IsFiniteSet(a) /\ m \notin a
    BY FS_Subset
  <2>3. Cardinality(a \cup {m}) = Cardinality(a) + 1
    BY <2>2, FS_AddElement
  <2> QED
    BY <2>1, <2>3 DEF Rank
<1>5. Rank(T, m) = k
  BY <1>3, BeforeIsTotal
<1> DEFINE order == OrderOf(S)
           longer == OrderOf(T)
<1>6. /\ Len(order) = N
      /\ \A i \in 1..N : order[i] \in S /\ Rank(S, order[i]) = i - 1
  BY OrderOfIs
<1>7. /\ Len(longer) = N + 1
      /\ \A n \in T : Rank(T, n) + 1 \in 1..N + 1 /\ longer[Rank(T, n) + 1] = n
  BY <1>1, OrderOfIs
<1>8. ASSUME NEW i \in 1..k PROVE longer[i] = order[i]
  <2> DEFINE n == order[i]
  <2>1. i \in 1..N
    BY <1>1, <1>2
  <2>2. n \in S /\ n \in T /\ n \in Name /\ Rank(S, n) = i - 1 /\ (i - 1) + 1 = i
    BY <1>6, <2>1
  <2> HIDE DEF n
  <2>3. ~Before(m, n)
    <3>1. CASE Before(m, n)
      <4>1. {l \in S : Before(l, m)} \subseteq {l \in S : Before(l, n)}
        BY <3>1, <2>2, BeforeIsTransitive
      <4>2. IsFiniteSet({l \in S : Before(l, n)})
        BY FS_Subset
      <4>3. k <= Rank(S, n)
        BY <4>1, <4>2, FS_Subset DEF Rank
      <4> QED
        BY <1>2, <2>2, <4>3
    <3> QED
      BY <3>1
  <2>4. Rank(T, n) = i - 1
    BY <1>3, <2>2, <2>3
  <2>5. longer[(i - 1) + 1] = n
    BY <1>7, <2>2, <2>4
  <2> QED
    BY <2>2, <2>5 DEF n
<1>9. ASSUME NEW i \in k + 1..N PROVE longer[i + 1] = order[i]
  <2> DEFINE n == order[i]
  <2>1. i \in 1..N
    BY <1>1, <1>2
  <2>2. n \in S /\ n \in T /\ n \in Name /\ Rank(S, n) = i - 1 /\ (i - 1) + 1 = i
    BY <1>6, <2>1
  <2> HIDE DEF n
  <2>3. ~Before(n, m)
    <3>1. CASE Before(n, m)
      <4>1. Rank(S, n) < k
        BY <2>2, <3>1, RankGrows
      <4> QED
        BY <1>2, <2>2, <4>1
    <3> QED
      BY <3>1
  <2>4. Before(m, n)
    BY <2>2, <2>3, BeforeIsTotal
  <2>5. Rank(T, n) = i
    BY <1>4, <2>2, <2>4
  <2>6. longer[i + 1] = n
    BY <1>7, <2>2, <2>5
  <2> QED
    BY <2>6 DEF n
<1>10. longer[k + 1] = m /\ k + 1 \in 1..N + 1
  BY <1>1, <1>5, <1>7
<1> HIDE DEF k, T, order, longer, N
<1>11. OneMore(order, longer, k)
  BY <1>6, <1>7, <1>8, <1>9 DEF OneMore
<1> QED
  BY <1>2, <1>6, <1>7, <1>10, <1>11 DEF k, T, order, longer
\* What recovery has to read is every file (GetAllFileWithSuffix).
LEMMA NameOrder ==
  ASSUME DOMAIN files \subseteq Name, IsFiniteSet(DOMAIN files)
  PROVE  /\ InNameOrder \in Seq(Name)
         /\ \A i \in 1..Len(InNameOrder) : InNameOrder[i] \in DOMAIN files
         /\ \A n \in DOMAIN files : \E i \in 1..Len(InNameOrder) : InNameOrder[i] = n
<1>1. InNameOrder = OrderOf(DOMAIN files)
  BY DEF InNameOrder, OrderOf, Rank
<1>2. DOMAIN files \in SUBSET Name
  OBVIOUS
<1> QED
  BY <1>1, <1>2, OrderOfIs
-----------------------------------------------------------------------------
(***************************************************************************)
(* The steps.                                                              *)
(***************************************************************************)
\* The header is no record, so that in a file with one the records are behind
\* it.
LEMMA HeaderIsNoRecord == Header \notin LogRecord
BY DEF Header, LogRecord

\* What a flush has acknowledged stays synced through every step that keeps
\* what is synced and acknowledges nothing.
LEMMA AckedStays ==
  ASSUME TypeOK, TypeOK', AckedIsSynced, KeepsSynced, acked' = acked
  PROVE  AckedIsSynced'
<1> SUFFICES ASSUME NEW r \in acked, r \notin lost'
             PROVE  \E n \in DOMAIN files' : \E i \in 2..files'[n].synced :
                      files'[n].items[1] = Header /\ files'[n].items[i] = r
  BY DEF AckedIsSynced
<1>0. r \notin lost
  BY DEF KeepsSynced
<1>1. PICK n \in DOMAIN files : \E i \in 2..files[n].synced : files[n].items[1] = Header /\ files[n].items[i] = r
  BY <1>0 DEF AckedIsSynced
<1>2. PICK i \in 2..files[n].synced : files[n].items[1] = Header /\ files[n].items[i] = r
  BY <1>1
<1>2a. files[n].synced \in Nat /\ i \in 1..files[n].synced
  BY <1>2 DEF TypeOK, File
<1>2b. n \in DOMAIN files'
  BY <1>2, <1>2a DEF KeepsSynced, IsLost
<1>3. n \in DOMAIN files' /\ files[n].synced \in Nat /\ files'[n].synced \in Nat
  BY <1>2a, <1>2b DEF TypeOK, File
<1>4. files[n].synced <= files'[n].synced /\ \A j \in 1..files[n].synced : files'[n].items[j] = files[n].items[j]
  BY <1>2b DEF KeepsSynced, StaysSynced
<1>5. i \in 2..files'[n].synced /\ 1 \in 1..files[n].synced /\ i \in 1..files[n].synced
  BY <1>2, <1>3, <1>4
<1> QED
  BY <1>2, <1>3, <1>4, <1>5

\* The steps that leave the files alone keep them as they are.
LEMMA SameFiles ==
  ASSUME TypeOK, UNCHANGED <<files, lost>> PROVE KeepsSynced
BY DEF KeepsSynced, StaysSynced, TypeOK, File

LEMMA InitHolds == Init => FilesInv
<1> SUFFICES ASSUME Init PROVE FilesInv
  OBVIOUS
<1>1. DOMAIN files = {}
  BY DEF Init
<1>2. TypeOK
  BY <1>1, EmptySeq DEF Init, TypeOK, Ops
<1>3. IsFiniteSet(DOMAIN files)
  BY <1>1, FS_EmptySet
<1> QED
  BY <1>1, <1>2, <1>3 DEF Init, FilesInv, CurrentFile, HeaderFirst, SyncedIsThere, RecoverySyncs,
     RecoveredIsSynced, AckedIsSynced

\* A new process has every file to read.
LEMMA StartHolds == FilesInv /\ Start => FilesInv' /\ KeepsSynced
<1> SUFFICES ASSUME FilesInv, Start PROVE FilesInv' /\ KeepsSynced
  OBVIOUS
<1> USE DEF FilesInv, Start
<1>1. DOMAIN files \subseteq Name
  BY DEF TypeOK
<1>2. /\ InNameOrder \in Seq(Name)
      /\ \A i \in 1..Len(InNameOrder) : InNameOrder[i] \in DOMAIN files
      /\ \A n \in DOMAIN files : \E i \in 1..Len(InNameOrder) : InNameOrder[i] = n
  BY <1>1, NameOrder
<1>3. TypeOK'
  BY <1>2 DEF TypeOK, Ops
<1>4. RecoverySyncs'
  BY <1>2 DEF RecoverySyncs
<1>5. KeepsSynced
  BY SameFiles
<1>6. CurrentFile' /\ HeaderFirst' /\ SyncedIsThere' /\ RecoveredIsSynced' /\ AckedIsSynced'
  BY DEF TypeOK, CurrentFile, HeaderFirst, SyncedIsThere, RecoveredIsSynced, AckedIsSynced
<1> QED
  BY <1>3, <1>4, <1>5, <1>6

\* Reading a file syncs it, an empty one being synced as it is.
LEMMA RedoLogFileHolds == FilesInv /\ RedoLogFile => FilesInv' /\ KeepsSynced
<1> SUFFICES ASSUME FilesInv, RedoLogFile PROVE FilesInv' /\ KeepsSynced
  OBVIOUS
<1> DEFINE name == todo[1]
           file == files[name]
           redone == [files EXCEPT ![name].torn = FALSE, ![name].synced = Len(file.items)]
<1>1. /\ todo \in Seq(Name) /\ todo # <<>> /\ name = Head(todo) /\ name \in DOMAIN files
      /\ 1 \in 1..Len(todo)
      /\ todo' \in Seq(Name) /\ Len(todo') = Len(todo) - 1
      /\ \A i \in 1..Len(todo') : todo'[i] = todo[i + 1]
  <2>1. todo \in Seq(Name) /\ todo # <<>> /\ todo' = Tail(todo) /\ op = "recover"
    BY DEF FilesInv, TypeOK, RedoLogFile
  <2>2. name = Head(todo) /\ Len(todo) \in Nat /\ Len(todo) > 0
    BY <2>1
  <2>3. 1 \in 1..Len(todo)
    BY <2>2
  <2> QED
    BY <2>1, <2>2, <2>3 DEF FilesInv, RecoverySyncs
<1>2. /\ file.items \in Seq(LogRecord \cup {Header}) /\ file.synced \in Nat
      /\ file.synced <= Len(file.items) /\ Len(file.items) \in Nat
  BY <1>1 DEF FilesInv, TypeOK, File, SyncedIsThere
<1>3. \/ file.items = <<>> /\ UNCHANGED <<files, mDBEpoch, lastId>>
      \/ file.items # <<>> /\ files' = redone /\ mDBEpoch' = name[1] /\ lastId' \in Nat
  <2>1. CASE file.items = <<>> /\ UNCHANGED <<files, mDBEpoch, lastId>>
    BY <2>1
  <2>2. CASE /\ file.items # <<>> /\ files' = redone /\ mDBEpoch' = name[1]
             /\ IF IsRecord(Last(file.items))
                THEN lastId' \in {Last(file.items).id} \cup StaleIds
                ELSE UNCHANGED lastId
    <3>1. Last(file.items) \in LogRecord \cup {Header}
      BY <1>2, <2>2 DEF Last
    <3>2. Last(file.items).id \in Nat
      BY <3>1 DEF LogRecord, Header
    <3> QED
      BY <2>2, <3>2, PersistLoggerAssumption DEF FilesInv, TypeOK
  <2> QED
    BY <1>1, <2>1, <2>2 DEF RedoLogFile
<1>4. /\ DOMAIN files' = DOMAIN files
      /\ \A n \in DOMAIN files : files'[n].items = files[n].items /\ files'[n] \in File
      /\ \A n \in DOMAIN files : n # name => files'[n] = files[n]
      /\ files'[name].synced = Len(file.items)
  <2> DEFINE closed == [file EXCEPT !.torn = FALSE, !.synced = Len(file.items)]
  <2>1. CASE file.items = <<>> /\ files' = files
    <3>1. file.synced = Len(file.items)
      BY <1>2, <2>1
    <3> QED
      BY <1>1, <2>1, <3>1 DEF FilesInv, TypeOK
  <2>2. CASE files' = redone
    <3>1. closed \in File /\ closed.items = file.items /\ closed.synced = Len(file.items)
      BY <1>1, <1>2 DEF FilesInv, TypeOK, File
    <3>2. redone = [files EXCEPT ![name] = closed]
      BY <1>1
    <3>3. files' = [files EXCEPT ![name] = closed]
      BY <2>2, <3>2
    <3> QED
      BY <1>1, <3>1, <3>3 DEF FilesInv, TypeOK
  <2> QED
    BY <1>2, <1>3, <2>1, <2>2
<1>5. TypeOK' /\ IsFiniteSet(DOMAIN files')
  <2>1. mDBEpoch' \in Nat /\ lastId' \in Nat
    BY <1>1, <1>3 DEF FilesInv, TypeOK, Name
  <2> QED
    BY <1>1, <1>4, <2>1 DEF FilesInv, TypeOK, RedoLogFile, histVars
<1>6. KeepsSynced
  <2>1. ASSUME NEW n \in DOMAIN files PROVE files[n].synced <= files'[n].synced
    <3>1. CASE n = name
      BY <1>2, <1>4, <3>1
    <3>2. CASE n # name
      <4>1. files'[n] = files[n] /\ files[n] \in File
        BY <1>4, <3>2 DEF FilesInv, TypeOK
      <4> QED
        BY <4>1 DEF File
    <3> QED
      BY <3>1, <3>2
  <2>2. \A n \in DOMAIN files : files'[n].items = files[n].items
    BY <1>4
  <2> QED
    BY <1>4, <2>1, <2>2 DEF KeepsSynced, StaysSynced, RedoLogFile, histVars
<1>7. RecoverySyncs'
  <2>1. \A i \in 1..Len(todo') : todo'[i] \in DOMAIN files'
    BY <1>1, <1>4 DEF FilesInv, RecoverySyncs, RedoLogFile
  <2>2. ASSUME NEW n \in DOMAIN files'
        PROVE  files'[n].synced = Len(files'[n].items) \/ \E i \in 1..Len(todo') : todo'[i] = n
    <3>1. CASE n = name
      BY <1>1, <1>4, <3>1
    <3>2. CASE n # name /\ files[n].synced = Len(files[n].items)
      BY <1>4, <3>2
    <3>3. CASE n # name /\ \E i \in 1..Len(todo) : todo[i] = n
      <4>1. PICK i \in 1..Len(todo) : todo[i] = n
        BY <3>3
      <4>2. i - 1 \in 1..Len(todo') /\ todo'[i - 1] = n
        BY <1>1, <3>3, <4>1
      <4> QED
        BY <4>2
    <3> QED
      BY <1>4, <2>2, <3>1, <3>2, <3>3 DEF FilesInv, RecoverySyncs, RedoLogFile
  <2> QED
    BY <2>1, <2>2 DEF RecoverySyncs
<1>8. CurrentFile' /\ HeaderFirst' /\ SyncedIsThere' /\ RecoveredIsSynced'
  <2>1. op = "recover" /\ op' = "recover" /\ mCurrentLog' = mCurrentLog /\ run' = run /\ mCurrentLog = NoFile
    BY DEF FilesInv, CurrentFile, RedoLogFile, histVars
  <2>2. CurrentFile' /\ RecoveredIsSynced'
    BY <2>1 DEF FilesInv, CurrentFile, RecoveredIsSynced
  <2>3. HeaderFirst'
    BY <1>4, <2>1 DEF FilesInv, HeaderFirst
  <2>4. SyncedIsThere'
    BY <1>1, <1>2, <1>4 DEF FilesInv, SyncedIsThere
  <2> QED
    BY <2>2, <2>3, <2>4
<1>9. AckedIsSynced'
  BY <1>5, <1>6, AckedStays DEF FilesInv, RedoLogFile, histVars
<1> QED
  BY <1>5, <1>6, <1>7, <1>8, <1>9 DEF FilesInv

\* The steps in which the process only goes on, or dies, with the files left
\* as they are.
LEMMA QuietStepsHold ==
  ASSUME FilesInv,
         \/ RecoverDone \/ WriteLog \/ OpenFails \/ Append1 \/ BufferIsFull
         \/ DirectDone \/ FlushLog \/ Crash \/ UNCHANGED vars
  PROVE  FilesInv' /\ KeepsSynced
<1> USE DEF FilesInv
<1>1. UNCHANGED <<files, acked, lost>>
  BY DEF RecoverDone, WriteLog, OpenFails, Append1, BufferIsFull, DirectDone, FlushLog, Crash,
     vars, histVars, procVars
<1>2. NoFile \notin DOMAIN files
  BY PersistLoggerAssumption DEF TypeOK, Name
<1>3. TypeOK'
  <2> USE DEF TypeOK, Ops
  <2>1. CASE RecoverDone
    BY <2>1 DEF RecoverDone, NotifyNewEpoch, histVars
  <2>2. CASE WriteLog
    <3>1. run \in Nat \ {0} /\ lastId + 1 \in Nat /\ seq + 1 \in Nat \ {0}
      BY <2>2 DEF WriteLog, CurrentFile
    <3>2. record' \in LogRecord
      BY <2>2, <3>1 DEF WriteLog, LogRecord
    <3> QED
      BY <2>2, <3>1, <3>2 DEF WriteLog
  <2>3. CASE OpenFails
    BY <2>3, EmptySeq DEF OpenFails, Dead
  <2>4. CASE Append1
    <3>1. Append(buffer, record) \in Seq(LogRecord \cup {Header})
      BY DEF NoRecord
    <3> QED
      BY <2>4, <3>1 DEF Append1, histVars
  <2>5. CASE BufferIsFull \/ DirectDone \/ FlushLog \/ UNCHANGED vars
    BY <2>5 DEF BufferIsFull, DirectDone, FlushLog, vars, histVars, procVars
  <2>6. CASE Crash
    BY <2>6, EmptySeq DEF Crash, Dead, histVars
  <2> QED
    BY <2>1, <2>2, <2>3, <2>4, <2>5, <2>6
<1>4. KeepsSynced
  BY <1>1, SameFiles
<1>5. CurrentFile'
  BY <1>2 DEF CurrentFile, RecoverDone, WriteLog, OpenFails, Append1, BufferIsFull, DirectDone, FlushLog,
     Crash, Dead, vars, histVars, procVars, TypeOK
<1>6. HeaderFirst'
  <2>1. CASE Append1
    BY <1>1, <2>1 DEF HeaderFirst, Append1, TypeOK, NoRecord
  <2>2. CASE OpenFails \/ Crash
    BY <1>1, <2>2 DEF HeaderFirst, OpenFails, Crash, Dead
  <2>3. CASE RecoverDone \/ WriteLog \/ BufferIsFull \/ DirectDone \/ FlushLog \/ UNCHANGED vars
    BY <1>1, <2>3 DEF HeaderFirst, RecoverDone, WriteLog, BufferIsFull, DirectDone, FlushLog, vars, procVars
  <2> QED
    BY <2>1, <2>2, <2>3
<1>7. SyncedIsThere'
  BY <1>1 DEF SyncedIsThere
<1>8. RecoverySyncs'
  BY <1>1 DEF RecoverySyncs, RecoverDone, WriteLog, OpenFails, Append1, BufferIsFull, DirectDone, FlushLog,
     Crash, Dead, vars, procVars
<1>9. RecoveredIsSynced'
  <2>1. CASE RecoverDone
    <3>1. \A n \in DOMAIN files : files[n].synced = Len(files[n].items)
      BY <2>1 DEF RecoverDone, RecoverySyncs
    <3> QED
      BY <1>1, <3>1 DEF RecoveredIsSynced
  <2>2. CASE OpenFails \/ Crash
    BY <2>2 DEF RecoveredIsSynced, OpenFails, Crash, Dead
  <2>3. CASE WriteLog \/ Append1 \/ BufferIsFull \/ DirectDone \/ FlushLog \/ UNCHANGED vars
    BY <1>1, <2>3 DEF RecoveredIsSynced, WriteLog, Append1, BufferIsFull, DirectDone, FlushLog, vars, procVars
  <2> QED
    BY <2>1, <2>2, <2>3
<1>10. AckedIsSynced'
  BY <1>1 DEF AckedIsSynced
<1> QED
  BY <1>1, <1>3, <1>4, <1>5, <1>6, <1>7, <1>8, <1>9, <1>10

\* A step that changes one file, and there nothing that was synced.
LEMMA OneFile ==
  ASSUME TypeOK, NEW n \in DOMAIN files, NEW after \in File, lost' = lost,
         files' = [files EXCEPT ![n] = after],
         files[n].synced <= after.synced,
         \A i \in 1..files[n].synced : after.items[i] = files[n].items[i]
  PROVE  /\ DOMAIN files' = DOMAIN files
         /\ files'[n] = after
         /\ \A m \in DOMAIN files : m # n => files'[m] = files[m]
         /\ \A m \in DOMAIN files' : files'[m] \in File
         /\ KeepsSynced
<1>1. /\ DOMAIN files' = DOMAIN files /\ files'[n] = after
      /\ \A m \in DOMAIN files : m # n => files'[m] = files[m]
  OBVIOUS
<1>2. \A m \in DOMAIN files : files[m].synced \in Nat /\ files[m] \in File
  BY DEF TypeOK, File
<1> QED
  BY <1>1, <1>2 DEF KeepsSynced, StaysSynced

\* The new file is the only one that is not synced.
LEMMA OpenNewLogFileHolds == FilesInv /\ OpenNewLogFile => FilesInv' /\ KeepsSynced
<1> SUFFICES ASSUME FilesInv, OpenNewLogFile PROVE FilesInv' /\ KeepsSynced
  OBVIOUS
<1> USE DEF FilesInv
<1>1. NewName \in Name /\ NewName \notin DOMAIN files /\ NewName # NoFile
  <2>1. record.id \in Nat
    BY DEF TypeOK, LogRecord, NoRecord, Header
  <2>2. record.id \div LOG_PER_FILE \in Nat
    BY <2>1, PersistLoggerAssumption
  <2>3. NewName \in Name
    BY <2>2 DEF NewName, Name, TypeOK
  <2> QED
    BY <2>3, PersistLoggerAssumption DEF OpenNewLogFile, Name
<1>2. /\ DOMAIN files' = DOMAIN files \cup {NewName}
      /\ files'[NewName] = NewFile
      /\ \A n \in DOMAIN files : files'[n] = files[n]
  BY <1>1 DEF OpenNewLogFile, CreateFile
<1>3. NewFile \in File /\ NewFile.items = <<>> /\ NewFile.synced = 0
  BY EmptySeq DEF NewFile, File
<1>4. IsFiniteSet(DOMAIN files')
  BY <1>2, FS_AddElement
<1>5. TypeOK'
  <2>1. buffer' \in Seq(LogRecord \cup {Header})
    BY DEF OpenNewLogFile
  <2>2. \A n \in DOMAIN files' : files'[n] \in File
    BY <1>2, <1>3 DEF TypeOK
  <2> QED
    BY <1>1, <1>2, <2>1, <2>2 DEF TypeOK, OpenNewLogFile, Ops, histVars
<1>6. KeepsSynced
  BY <1>2 DEF KeepsSynced, StaysSynced, OpenNewLogFile, histVars, TypeOK, File
<1>7. AckedIsSynced'
  BY <1>5, <1>6, AckedStays DEF OpenNewLogFile, histVars
<1>8. CurrentFile' /\ RecoverySyncs'
  BY <1>1 DEF CurrentFile, RecoverySyncs, OpenNewLogFile, histVars
<1>9. HeaderFirst'
  BY <1>2, <1>3 DEF HeaderFirst, OpenNewLogFile
<1>10. SyncedIsThere'
  BY <1>2, <1>3 DEF SyncedIsThere
<1>11. RecoveredIsSynced'
  <2>1. \A n \in DOMAIN files : files[n].synced = Len(files[n].items)
    BY PersistLoggerAssumption DEF OpenNewLogFile, CurrentFile, RecoveredIsSynced, TypeOK, Name
  <2> QED
    BY <1>2, <2>1 DEF OpenNewLogFile, RecoveredIsSynced
<1> QED
  BY <1>4, <1>5, <1>6, <1>7, <1>8, <1>9, <1>10, <1>11

\* What is known of the current file while it is written to.
LEMMA CurrentIsFile ==
  ASSUME FilesInv, op \in {"append", "spill", "direct", "flush", "close"}
  PROVE  /\ mCurrentLog \in DOMAIN files /\ files[mCurrentLog] \in File
         /\ files[mCurrentLog].items \in Seq(LogRecord \cup {Header})
         /\ files[mCurrentLog].synced \in Nat
         /\ files[mCurrentLog].synced <= Len(files[mCurrentLog].items)
         /\ \A n \in DOMAIN files : n # mCurrentLog => files[n].synced = Len(files[n].items)
BY DEF FilesInv, TypeOK, CurrentFile, SyncedIsThere, RecoveredIsSynced, File

LEMMA SpillDoneHolds == FilesInv /\ SpillDone => FilesInv' /\ KeepsSynced
<1> SUFFICES ASSUME FilesInv, SpillDone PROVE FilesInv' /\ KeepsSynced
  OBVIOUS
<1> DEFINE file == files[mCurrentLog]
<1>1. /\ mCurrentLog \in DOMAIN files /\ file \in File /\ file.synced \in Nat
      /\ \A n \in DOMAIN files : n # mCurrentLog => files[n].synced = Len(files[n].items)
  BY CurrentIsFile DEF SpillDone
<1>2. PICK cut \in BOOLEAN : files' = [files EXCEPT ![mCurrentLog].torn = cut]
  BY DEF SpillDone
<1> DEFINE after == [file EXCEPT !.torn = cut]
<1>3. after \in File /\ after.items = file.items /\ after.synced = file.synced
  BY <1>1 DEF File
<1>4. files' = [files EXCEPT ![mCurrentLog] = after]
  BY <1>1, <1>2
<1> HIDE DEF after
<1>5. /\ DOMAIN files' = DOMAIN files /\ files'[mCurrentLog] = after
      /\ \A m \in DOMAIN files : m # mCurrentLog => files'[m] = files[m]
      /\ \A m \in DOMAIN files' : files'[m] \in File
      /\ KeepsSynced
  <2>1. file.synced <= after.synced /\ \A i \in 1..file.synced : after.items[i] = file.items[i]
    BY <1>1, <1>3
  <2> QED
    BY <1>1, <1>3, <1>4, <2>1, OneFile DEF FilesInv, SpillDone, histVars
<1>6. \A m \in DOMAIN files : files'[m].items = files[m].items /\ files'[m].synced = files[m].synced
  BY <1>3, <1>5
<1>7. TypeOK'
  <2>1. buffer' \in Seq(LogRecord \cup {Header})
    BY DEF SpillDone, FilesInv, TypeOK, NoRecord
  <2> QED
    BY <1>5, <2>1 DEF FilesInv, TypeOK, SpillDone, Ops, histVars
<1>8. AckedIsSynced'
  BY <1>5, <1>7, AckedStays DEF FilesInv, SpillDone, histVars
<1>9. CurrentFile' /\ RecoverySyncs'
  BY DEF FilesInv, CurrentFile, RecoverySyncs, SpillDone, histVars
<1>10. HeaderFirst'
  BY <1>1, <1>5, <1>6 DEF FilesInv, HeaderFirst, SpillDone
<1>11. SyncedIsThere' /\ RecoveredIsSynced'
  BY <1>1, <1>5, <1>6 DEF FilesInv, SyncedIsThere, RecoveredIsSynced, SpillDone
<1> QED
  BY <1>5, <1>7, <1>8, <1>9, <1>10, <1>11 DEF FilesInv

\* A piece is written behind what is there.
LEMMA PwriteHolds == FilesInv /\ Pwrite => FilesInv' /\ KeepsSynced
<1> SUFFICES ASSUME FilesInv, Pwrite PROVE FilesInv' /\ KeepsSynced
  OBVIOUS
<1> DEFINE file == files[mCurrentLog]
           whole == [file EXCEPT !.torn = FALSE, !.items = Append(@, Head(buffer))]
           part  == [file EXCEPT !.torn = TRUE]
<1>1. /\ mCurrentLog \in DOMAIN files /\ file \in File /\ file.synced \in Nat
      /\ file.items \in Seq(LogRecord \cup {Header}) /\ Len(file.items) \in Nat
      /\ file.synced <= Len(file.items)
      /\ \A n \in DOMAIN files : n # mCurrentLog => files[n].synced = Len(files[n].items)
  BY CurrentIsFile DEF Pwrite
<1>2. buffer \in Seq(LogRecord \cup {Header}) /\ buffer # <<>> /\ Head(buffer) = buffer[1]
      /\ Head(buffer) \in LogRecord \cup {Header} /\ Tail(buffer) \in Seq(LogRecord \cup {Header})
  BY DEF FilesInv, TypeOK, Pwrite
<1>3. PICK after \in File :
        /\ files' = [files EXCEPT ![mCurrentLog] = after]
        /\ after.synced = file.synced
        /\ \/ after.items = file.items /\ buffer' = buffer
           \/ after.items = Append(file.items, buffer[1]) /\ buffer' = Tail(buffer)
  <2>1. CASE files' = [files EXCEPT ![mCurrentLog].torn = TRUE] /\ buffer' = buffer
    <3>1. part \in File /\ part.synced = file.synced /\ part.items = file.items
      BY <1>1 DEF File
    <3>2. files' = [files EXCEPT ![mCurrentLog] = part]
      BY <1>1, <2>1
    <3> QED
      BY <2>1, <3>1, <3>2
  <2>2. CASE /\ files' = [files EXCEPT ![mCurrentLog].torn = FALSE,
                                       ![mCurrentLog].items = Append(@, Head(buffer))]
             /\ buffer' = Tail(buffer)
    <3>1. Append(file.items, Head(buffer)) \in Seq(LogRecord \cup {Header})
      BY <1>1, <1>2
    <3>2. whole \in File /\ whole.synced = file.synced /\ whole.items = Append(file.items, buffer[1])
      BY <1>1, <1>2, <3>1 DEF File
    <3>3. files' = [files EXCEPT ![mCurrentLog] = whole]
      BY <1>1, <2>2
    <3> QED
      BY <2>2, <3>2, <3>3
  <2> QED
    BY <2>1, <2>2 DEF Pwrite
<1>4. /\ after.items \in Seq(LogRecord \cup {Header}) /\ Len(after.items) \in Nat
      /\ Len(file.items) <= Len(after.items)
      /\ \A i \in 1..Len(file.items) : after.items[i] = file.items[i]
  <2>1. CASE after.items = file.items
    BY <1>1, <2>1
  <2>2. CASE after.items = Append(file.items, buffer[1])
    BY <1>1, <1>2, <2>2, AppendProperties
  <2> QED
    BY <1>3, <2>1, <2>2
<1>5. /\ DOMAIN files' = DOMAIN files /\ files'[mCurrentLog] = after
      /\ \A m \in DOMAIN files : m # mCurrentLog => files'[m] = files[m]
      /\ \A m \in DOMAIN files' : files'[m] \in File
      /\ KeepsSynced
  <2>1. file.synced <= after.synced /\ \A i \in 1..file.synced : after.items[i] = file.items[i]
    BY <1>1, <1>3, <1>4
  <2> QED
    BY <1>1, <1>3, <2>1, OneFile DEF FilesInv, Pwrite, histVars
<1>6. TypeOK'
  BY <1>2, <1>3, <1>5 DEF FilesInv, TypeOK, Pwrite, Ops, histVars
<1>7. AckedIsSynced'
  BY <1>5, <1>6, AckedStays DEF FilesInv, Pwrite, histVars
<1>8. CurrentFile' /\ RecoverySyncs'
  BY DEF FilesInv, CurrentFile, RecoverySyncs, Pwrite, histVars
<1>9. HeaderFirst'
  <2>1. ASSUME after.items # <<>> PROVE after.items[1] = Header
    <3>1. CASE file.items = <<>>
      BY <1>1, <1>2, <1>3, <2>1, <3>1 DEF FilesInv, HeaderFirst, CurrentFile, Pwrite
    <3>2. CASE file.items # <<>>
      BY <1>1, <1>4, <3>2 DEF FilesInv, HeaderFirst
    <3> QED
      BY <3>1, <3>2
  <2>2. ASSUME after.items = <<>> PROVE buffer' # <<>> /\ buffer'[1] = Header
    <3>1. Append(file.items, buffer[1]) # <<>>
      BY <1>1, <1>2, AppendProperties
    <3>2. after.items = file.items /\ buffer' = buffer
      BY <1>3, <2>2, <3>1
    <3> QED
      BY <1>1, <2>2, <3>2, CurrentIsFile DEF FilesInv, HeaderFirst, CurrentFile, Pwrite
  <2> QED
    BY <1>1, <1>5, <2>1, <2>2 DEF FilesInv, HeaderFirst, Pwrite
<1>10. SyncedIsThere'
  BY <1>1, <1>3, <1>4, <1>5 DEF FilesInv, SyncedIsThere
<1>11. RecoveredIsSynced'
  BY <1>1, <1>5 DEF RecoveredIsSynced, Pwrite
<1> QED
  BY <1>5, <1>6, <1>7, <1>8, <1>9, <1>10, <1>11 DEF FilesInv

\* fsync: the current file is synced as far as it goes, like every other one.
LEMMA SyncSyncs ==
  ASSUME FilesInv, op \in {"close", "flush"}, Sync, lost' = lost
  PROVE  /\ DOMAIN files' = DOMAIN files /\ mCurrentLog \in DOMAIN files
         /\ \A n \in DOMAIN files' : files'[n] \in File /\ files'[n].items = files[n].items
         /\ \A n \in DOMAIN files' : files'[n].synced = Len(files'[n].items)
         /\ KeepsSynced
<1> DEFINE file == files[mCurrentLog]
           after == [file EXCEPT !.synced = Len(file.items)]
<1>1. /\ mCurrentLog \in DOMAIN files /\ file \in File /\ file.synced \in Nat
      /\ file.items \in Seq(LogRecord \cup {Header}) /\ Len(file.items) \in Nat
      /\ file.synced <= Len(file.items)
      /\ \A n \in DOMAIN files : n # mCurrentLog => files[n].synced = Len(files[n].items)
  BY CurrentIsFile
<1>2. after \in File /\ after.items = file.items /\ after.synced = Len(file.items)
  BY <1>1 DEF File
<1>3. files' = [files EXCEPT ![mCurrentLog] = after]
  BY <1>1 DEF Sync
<1> HIDE DEF after
<1>4. /\ DOMAIN files' = DOMAIN files /\ files'[mCurrentLog] = after
      /\ \A m \in DOMAIN files : m # mCurrentLog => files'[m] = files[m]
      /\ \A m \in DOMAIN files' : files'[m] \in File
      /\ KeepsSynced
  <2>1. file.synced <= after.synced /\ \A i \in 1..file.synced : after.items[i] = file.items[i]
    BY <1>1, <1>2
  <2> QED
    BY <1>1, <1>2, <1>3, <2>1, OneFile DEF FilesInv
<1> QED
  BY <1>1, <1>2, <1>4

LEMMA CloseHolds == FilesInv /\ Close => FilesInv' /\ KeepsSynced
<1> SUFFICES ASSUME FilesInv, Close PROVE FilesInv' /\ KeepsSynced
  OBVIOUS
<1>1. /\ DOMAIN files' = DOMAIN files
      /\ \A n \in DOMAIN files' : files'[n] \in File /\ files'[n].items = files[n].items
      /\ \A n \in DOMAIN files' : files'[n].synced = Len(files'[n].items)
      /\ KeepsSynced
  BY SyncSyncs DEF Close, histVars
<1>2. TypeOK'
  BY <1>1, EmptySeq DEF FilesInv, TypeOK, Close, Ops, histVars
<1>3. AckedIsSynced'
  BY <1>1, <1>2, AckedStays DEF FilesInv, Close, histVars
<1>4. CurrentFile' /\ RecoverySyncs' /\ HeaderFirst'
  BY <1>1 DEF FilesInv, CurrentFile, RecoverySyncs, HeaderFirst, Close, histVars
<1>5. SyncedIsThere'
  BY <1>1 DEF FilesInv, TypeOK, File, SyncedIsThere
<1>6. RecoveredIsSynced'
  BY <1>1 DEF RecoveredIsSynced
<1> QED
  BY <1>1, <1>2, <1>3, <1>4, <1>5, <1>6 DEF FilesInv

\* Whatever FlushLog acknowledges is behind the header of a file that is synced
\* to its end.
LEMMA FlushDoneHolds == FilesInv /\ FlushDone => FilesInv' /\ KeepsSynced
<1> SUFFICES ASSUME FilesInv, FlushDone PROVE FilesInv' /\ KeepsSynced
  OBVIOUS
<1>1. /\ DOMAIN files' = DOMAIN files
      /\ \A n \in DOMAIN files' : files'[n] \in File /\ files'[n].items = files[n].items
      /\ \A n \in DOMAIN files' : files'[n].synced = Len(files'[n].items)
      /\ KeepsSynced
  BY SyncSyncs DEF FlushDone
<1>2. \A n \in DOMAIN files : files[n].items \in Seq(LogRecord \cup {Header})
  BY DEF FilesInv, TypeOK, File
<1>3. ASSUME NEW r \in Written
      PROVE  /\ r \in LogRecord
             /\ \E n \in DOMAIN files : \E i \in 2..Len(files[n].items) :
                  files[n].items[1] = Header /\ files[n].items[i] = r
  <2>1. PICK n \in DOMAIN files : r \in ToSet(files[n].items)
    BY DEF Written
  <2>2. PICK i \in 1..Len(files[n].items) : files[n].items[i] = r
    BY <1>2, <2>1 DEF ToSet
  <2>3. r # Header /\ r \in LogRecord \cup {Header}
    BY <1>2, <2>2 DEF Written, IsRecord
  <2>4. files[n].items # <<>> /\ Len(files[n].items) \in Nat
    BY <1>2, <2>2
  <2>5. files[n].items[1] = Header
    BY <2>4 DEF FilesInv, HeaderFirst
  <2>6. i \in 2..Len(files[n].items)
    BY <2>2, <2>3, <2>4, <2>5
  <2> QED
    BY <2>2, <2>3, <2>5, <2>6
<1>4. TypeOK'
  BY <1>1, <1>3 DEF FilesInv, TypeOK, FlushDone, Ops, procVars
<1>5. AckedIsSynced'
  <2> SUFFICES ASSUME NEW r \in acked', r \notin lost'
               PROVE  \E n \in DOMAIN files' : \E i \in 2..files'[n].synced :
                        files'[n].items[1] = Header /\ files'[n].items[i] = r
    BY DEF AckedIsSynced
  <2>1. CASE r \in Written
    BY <1>1, <1>3, <2>1
  <2>2. CASE r \in acked
    <3>1. PICK n \in DOMAIN files : \E i \in 2..files[n].synced : files[n].items[1] = Header /\ files[n].items[i] = r
      BY <2>2 DEF FilesInv, AckedIsSynced, FlushDone
    <3>2. PICK i \in 2..files[n].synced : files[n].items[1] = Header /\ files[n].items[i] = r
      BY <3>1
    <3>3. files[n].synced \in Nat /\ files'[n].synced \in Nat /\ files[n].synced <= files'[n].synced
      BY <1>1 DEF FilesInv, TypeOK, File, KeepsSynced, StaysSynced
    <3>4. i \in 2..files'[n].synced
      BY <3>2, <3>3
    <3> QED
      BY <1>1, <3>2, <3>4
  <2> QED
    BY <2>1, <2>2 DEF FlushDone
<1>6. CurrentFile' /\ RecoverySyncs' /\ HeaderFirst'
  <2>1. op = "flush" /\ op' = "idle" /\ UNCHANGED <<mCurrentLog, buffer, run>>
    BY DEF FlushDone, procVars
  <2>2. CurrentFile' /\ RecoverySyncs'
    BY <2>1 DEF FilesInv, CurrentFile, RecoverySyncs
  <2>3. mCurrentLog \in DOMAIN files
    BY <2>1, CurrentIsFile
  <2>4. HeaderFirst'
    BY <1>1, <2>1, <2>3 DEF FilesInv, HeaderFirst
  <2> QED
    BY <2>2, <2>4
<1>7. SyncedIsThere'
  BY <1>1 DEF FilesInv, TypeOK, File, SyncedIsThere
<1>8. RecoveredIsSynced'
  BY <1>1 DEF RecoveredIsSynced
<1> QED
  BY <1>1, <1>4, <1>5, <1>6, <1>7, <1>8 DEF FilesInv

\* Power that fails cuts a file behind what was synced of it.
LEMMA LosesEndLeaves ==
  ASSUME FilesInv, NEW name \in DOMAIN files, LosesEnd(name)
  PROVE  /\ DOMAIN files' = DOMAIN files /\ \A m \in DOMAIN files' : files'[m] \in File
         /\ \A m \in DOMAIN files :
              /\ files[m].synced = files'[m].synced /\ files'[m].synced <= Len(files'[m].items)
              /\ Len(files'[m].items) <= Len(files[m].items)
              /\ \A i \in 1..Len(files'[m].items) : files'[m].items[i] = files[m].items[i]
         /\ KeepsSynced
<1> DEFINE file == files[name]
<1>2. PICK n \in file.synced..Len(file.items), cut \in BOOLEAN :
        files' = [files EXCEPT ![name] = Remains(file, n, cut)]
  BY DEF LosesEnd
<1> DEFINE left == Remains(file, n, cut)
<1>3. /\ file \in File /\ file.synced \in Nat /\ file.items \in Seq(LogRecord \cup {Header})
      /\ Len(file.items) \in Nat /\ file.synced <= Len(file.items)
  <2>1. file \in File /\ file.synced <= Len(file.items)
    BY DEF FilesInv, TypeOK, SyncedIsThere
  <2> QED
    BY <2>1 DEF File
<1>4. /\ left \in File /\ left.synced = file.synced /\ file.synced <= Len(left.items)
      /\ Len(left.items) \in Nat /\ Len(left.items) <= Len(file.items)
      /\ \A i \in 1..Len(left.items) : left.items[i] = file.items[i]
  <2>1. n \in Nat /\ n <= Len(file.items) /\ file.synced <= n
    BY <1>3
  <2>2. /\ SubSeq(file.items, 1, n) \in Seq(LogRecord \cup {Header})
        /\ Len(SubSeq(file.items, 1, n)) = n
        /\ \A i \in 1..n : SubSeq(file.items, 1, n)[i] = file.items[i]
    BY <1>3, <2>1, SubSeqProperties
  <2>3. left \in File /\ left.synced = file.synced /\ left.items = SubSeq(file.items, 1, n)
    BY <1>3, <2>2 DEF File, Remains
  <2>4. Len(left.items) = n /\ \A i \in 1..n : left.items[i] = file.items[i]
    BY <2>2, <2>3
  <2> HIDE DEF left
  <2> QED
    BY <2>1, <2>3, <2>4
<1> HIDE DEF left
<1>4a. files' = [files EXCEPT ![name] = left]
  BY <1>2 DEF left
<1>5. /\ DOMAIN files' = DOMAIN files /\ files'[name] = left
      /\ \A m \in DOMAIN files : m # name => files'[m] = files[m]
      /\ \A m \in DOMAIN files' : files'[m] \in File
      /\ KeepsSynced
  <2>1. file.synced <= left.synced /\ \A i \in 1..file.synced : left.items[i] = file.items[i]
    BY <1>3, <1>4
  <2> QED
    BY <1>4, <1>4a, <2>1, OneFile DEF FilesInv, LosesEnd
<1>6. ASSUME NEW m \in DOMAIN files
      PROVE  /\ files[m].synced = files'[m].synced /\ files'[m].synced <= Len(files'[m].items)
             /\ Len(files'[m].items) <= Len(files[m].items)
             /\ \A i \in 1..Len(files'[m].items) : files'[m].items[i] = files[m].items[i]
  <2>1. CASE m = name
    BY <1>3, <1>4, <1>5, <2>1
  <2>2. CASE m # name
    <3>1. files'[m] = files[m] /\ files[m].synced <= Len(files[m].items) /\ files[m] \in File
      BY <1>5, <2>2 DEF FilesInv, SyncedIsThere, TypeOK
    <3>2. Len(files[m].items) \in Nat
      BY <3>1 DEF File
    <3> QED
      BY <3>1, <3>2
  <2> QED
    BY <2>1, <2>2
<1> QED
  BY <1>5, <1>6

\* What goes with its entry in the directory is lost; the other files stay.
LEMMA LosesEntryLeaves ==
  ASSUME FilesInv, NEW name \in DOMAIN files, LosesEntry(name)
  PROVE  /\ DOMAIN files' = DOMAIN files \ {name}
         /\ \A m \in DOMAIN files' : files'[m] = files[m]
         /\ lost' \subseteq LogRecord \cup {Header}
         /\ KeepsSynced
<1>1. DOMAIN files' = DOMAIN files \ {name} /\ \A m \in DOMAIN files' : files'[m] = files[m]
  BY DEF LosesEntry
<1>2. \A m \in DOMAIN files : files[m] \in File
  BY DEF FilesInv, TypeOK
<1>3. ASSUME NEW i \in 1..files[name].synced PROVE files[name].items[i] \in LogRecord \cup {Header}
  <2>1. files[name] \in File /\ files[name].synced <= Len(files[name].items)
    BY <1>2 DEF FilesInv, SyncedIsThere
  <2>2. /\ files[name].items \in Seq(LogRecord \cup {Header}) /\ files[name].synced \in Nat
        /\ Len(files[name].items) \in Nat
    BY <2>1 DEF File
  <2>3. i \in 1..Len(files[name].items)
    BY <2>1, <2>2
  <2> QED
    BY <2>2, <2>3, ElementOfSeq
<1>4. lost' \subseteq LogRecord \cup {Header}
  BY <1>3 DEF LosesEntry, FilesInv, TypeOK
<1>5. IsLost(name) /\ lost \subseteq lost'
  BY DEF IsLost, LosesEntry
<1>6. \A m \in DOMAIN files' : StaysSynced(m)
  BY <1>1, <1>2 DEF StaysSynced, File
<1>7. KeepsSynced
  BY <1>1, <1>5, <1>6 DEF KeepsSynced
<1> QED
  BY <1>1, <1>4, <1>7

\* Power that fails takes only what was not synced, or a whole file.
LEMMA PowerLossHolds == FilesInv /\ PowerLoss => FilesInv' /\ KeepsSynced
<1> SUFFICES ASSUME FilesInv, PowerLoss PROVE FilesInv' /\ KeepsSynced
  OBVIOUS
<1>1. PICK name \in DOMAIN files : LosesEnd(name) \/ LosesEntry(name)
  BY DEF PowerLoss
<1>2. KeepsSynced
  BY <1>1, LosesEndLeaves, LosesEntryLeaves
<1>3. /\ DOMAIN files' \subseteq DOMAIN files
      /\ \A m \in DOMAIN files' :
           /\ files'[m] \in File
           /\ files'[m].synced <= Len(files'[m].items)
           /\ files'[m].items # <<>> => files[m].items # <<>> /\ files'[m].items[1] = files[m].items[1]
  <2>1. CASE LosesEnd(name)
    <3> SUFFICES ASSUME NEW m \in DOMAIN files
                 PROVE  files'[m].items # <<>> => files[m].items # <<>> /\ files'[m].items[1] = files[m].items[1]
      BY <2>1, LosesEndLeaves
    <3>1. files'[m] \in File /\ files[m] \in File
      BY <2>1, LosesEndLeaves DEF FilesInv, TypeOK
    <3>2. /\ Len(files'[m].items) <= Len(files[m].items)
          /\ \A i \in 1..Len(files'[m].items) : files'[m].items[i] = files[m].items[i]
      BY <2>1, LosesEndLeaves
    <3> QED
      BY <3>1, <3>2, EmptySeq DEF File
  <2>2. CASE LosesEntry(name)
    BY <2>2, LosesEntryLeaves DEF FilesInv, TypeOK, SyncedIsThere
  <2> QED
    BY <1>1, <2>1, <2>2
<1>4. lost' \subseteq LogRecord \cup {Header}
  <2>1. CASE LosesEnd(name)
    BY <2>1 DEF LosesEnd, FilesInv, TypeOK
  <2>2. CASE LosesEntry(name)
    BY <2>2, LosesEntryLeaves
  <2> QED
    BY <1>1, <2>1, <2>2
<1>5. IsFiniteSet(DOMAIN files')
  BY <1>3, FS_Subset DEF FilesInv
<1>6. TypeOK'
  BY <1>3, <1>4, EmptySeq DEF FilesInv, TypeOK, PowerLoss, Dead, Ops
<1>7. AckedIsSynced'
  BY <1>2, <1>6, AckedStays DEF FilesInv, PowerLoss
<1>8. CurrentFile' /\ RecoverySyncs' /\ RecoveredIsSynced'
  BY DEF CurrentFile, RecoverySyncs, RecoveredIsSynced, PowerLoss, Dead
<1>9. HeaderFirst'
  BY <1>3 DEF FilesInv, HeaderFirst, PowerLoss, Dead
<1>10. SyncedIsThere'
  BY <1>3 DEF SyncedIsThere
<1> QED
  BY <1>2, <1>5, <1>6, <1>7, <1>8, <1>9, <1>10 DEF FilesInv
-----------------------------------------------------------------------------
(***************************************************************************)
(* The theorems.                                                           *)
(***************************************************************************)
LEMMA StepHolds == FilesInv /\ [Next]_vars => FilesInv' /\ KeepsSynced
BY StartHolds, RedoLogFileHolds, QuietStepsHold, OpenNewLogFileHolds, SpillDoneHolds, PwriteHolds,
   CloseHolds, FlushDoneHolds, PowerLossHolds DEF Next

LEMMA FilesInvHolds == Spec => []FilesInv
BY InitHolds, StepHolds, PTL DEF Spec

\* PersistLogger, FileLog and FileHandler keep their types; the current log is
\* always a file that is there.
THEOREM TypeCorrect == Spec => []TypeOK
<1>1. FilesInv => TypeOK
  BY DEF FilesInv
<1> QED
  BY <1>1, FilesInvHolds, PTL

\* FlushLog promises durability: what it has returned for is in the synced part
\* of a file whose header is synced too, however often the process dies or the
\* power fails afterwards, unless its file is lost with the directory's entry
\* (which nothing syncs: LosesEntry).
THEOREM AckedIsLostWithItsFileOnly == Spec => []AckedIsSynced
<1>1. FilesInv => AckedIsSynced
  BY DEF FilesInv
<1> QED
  BY <1>1, FilesInvHolds, PTL

\* RecoverFromLog has synced all it has read, in the files it found, before the
\* first new request.
THEOREM RecoveryIsSynced == Spec => []RecoveredIsSynced
<1>1. FilesInv => RecoveredIsSynced
  BY DEF FilesInv
<1> QED
  BY <1>1, FilesInvHolds, PTL

\* No step of PersistLogger, no death of the process and no loss of power moves
\* what fsync was called for, or takes any of it back but with the whole file.
THEOREM NothingSyncedIsLost == Spec => [][KeepsSynced]_vars
<1>1. FilesInv /\ [Next]_vars => [KeepsSynced]_vars
  BY StepHolds
<1> QED
  BY <1>1, FilesInvHolds, PTL DEF Spec

(***************************************************************************)
(* What is lost of the records of a process is the last ones, for any      *)
(* number of processes, records and files, any rotation and any loss of    *)
(* power.  A file lost with its entry leaves a hole, which lost tells of.  *)
(***************************************************************************)
\* q is the record its process wrote before r.
Precedes(q, r) == q.run = r.run /\ q.seq + 1 = r.seq

\* It is in a file other than n, where no loss of power reaches it but with the
\* whole file, or it was lost so.
InAnotherFile(n, r) ==
  \E m \in DOMAIN files : m # n /\ \E j \in 1..files[m].synced : Precedes(files[m].items[j], r)
WasLost(r) == \E q \in lost : Precedes(q, r)
SyncedElsewhere(n, r) == InAnotherFile(n, r) \/ WasLost(r)

\* It is in the current file.
InCurrentFile(r) ==
  mCurrentLog # NoFile /\
    \E j \in 1..Len(files[mCurrentLog].items) : Precedes(files[mCurrentLog].items[j], r)

Follows(r) == IsRecord(r) /\ r.seq > 1

\* The record before one in a file is in front of it or in a file that is
\* synced so far; losing the end of one file leaves no hole.
FilesHaveNoHoles ==
  \A n \in DOMAIN files : \A i \in 1..Len(files[n].items) :
    Follows(files[n].items[i]) =>
      \/ \E j \in 1..(i - 1) : Precedes(files[n].items[j], files[n].items[i])
      \/ SyncedElsewhere(n, files[n].items[i])

\* A lost record was synced, and so was the one before it.
LostHasNoHoles == \A r \in lost : Follows(r) => SyncedElsewhere(NoFile, r)

BufferHasNoHoles ==
  /\ mCurrentLog = NoFile => buffer = <<>>
  /\ \A i \in 1..Len(buffer) :
       Follows(buffer[i]) => \/ \E j \in 1..(i - 1) : Precedes(buffer[j], buffer[i])
                             \/ InCurrentFile(buffer[i])
                             \/ SyncedElsewhere(mCurrentLog, buffer[i])

\* The record WriteLog is about to append is the next of its process.
Appending == op \in {"open", "close", "append", "spill"}
RecordIsNext == Appending => record = [id |-> record.id, run |-> run, seq |-> seq] /\ seq > 0

\* The predecessor of r is in the buffer or in the current file, or in another
\* one that is synced so far.
Held(r) ==
  \/ \E j \in 1..Len(buffer) : Precedes(buffer[j], r)
  \/ InCurrentFile(r)
  \/ SyncedElsewhere(mCurrentLog, r)

\* So it is for the record this process will write next.
NextOne == [id |-> 0, run |-> run, seq |-> IF Appending THEN seq ELSE seq + 1]
LastIsHeld ==
  /\ op = "recover" => seq = 0
  /\ op \notin {"down", "recover"} /\ Follows(NextOne) => Held(NextOne)

HolesInv == FilesHaveNoHoles /\ BufferHasNoHoles /\ RecordIsNext /\ LastIsHeld
-----------------------------------------------------------------------------
(***************************************************************************)
(* What keeps a predecessor where it is.                                   *)
(***************************************************************************)
\* A step that adds no record to a file, and may cut one behind what is synced.
NothingIsAdded ==
  \A n \in DOMAIN files' :
    IF n \in DOMAIN files
    THEN /\ Len(files'[n].items) <= Len(files[n].items)
         /\ \A i \in 1..Len(files'[n].items) : files'[n].items[i] = files[n].items[i]
    ELSE files'[n].items = <<>>

\* A step that takes nothing from the current file.
CurrentIsKept ==
  mCurrentLog # NoFile =>
    /\ mCurrentLog' = mCurrentLog
    /\ Len(files[mCurrentLog].items) <= Len(files'[mCurrentLog].items)
    /\ \A i \in 1..Len(files[mCurrentLog].items) :
         files'[mCurrentLog].items[i] = files[mCurrentLog].items[i]

LEMMA FileTypes ==
  ASSUME TypeOK, NEW n \in DOMAIN files
  PROVE  /\ n # NoFile
         /\ files[n].items \in Seq(LogRecord \cup {Header})
         /\ Len(files[n].items) \in Nat /\ files[n].synced \in Nat
<1>1. n \in Name /\ files[n] \in File
  BY DEF TypeOK
<1>2. files[n].items \in Seq(LogRecord \cup {Header}) /\ files[n].synced \in Nat
  BY <1>1 DEF File
<1> QED
  BY <1>1, <1>2, PersistLoggerAssumption DEF Name

LEMMA ElsewhereStays ==
  ASSUME TypeOK, TypeOK', KeepsSynced, NEW n, NEW k, NEW r, SyncedElsewhere(n, r),
         k = n \/ k \notin DOMAIN files
  PROVE  SyncedElsewhere(k, r)'
<1>0. CASE WasLost(r)
  BY <1>0 DEF WasLost, KeepsSynced, SyncedElsewhere, Precedes
<1>1. ASSUME NEW m \in DOMAIN files, m # n, NEW j \in 1..files[m].synced,
             Precedes(files[m].items[j], r)
      PROVE  SyncedElsewhere(k, r)'
  <2>1. CASE m \in DOMAIN files'
    <3>1. files[m].synced <= files'[m].synced /\ files'[m].items[j] = files[m].items[j]
      BY <2>1 DEF KeepsSynced, StaysSynced
    <3>2. files[m].synced \in Nat /\ files'[m].synced \in Nat /\ m # k
      BY <1>1, <2>1 DEF TypeOK, File
    <3>3. j \in 1..files'[m].synced
      BY <3>1, <3>2
    <3>4. Precedes(files'[m].items[j], r)
      BY <1>1, <3>1
    <3>5. InAnotherFile(k, r)'
      BY <2>1, <3>2, <3>3, <3>4 DEF InAnotherFile, Precedes
    <3> QED
      BY <3>5 DEF SyncedElsewhere
  <2>2. CASE m \notin DOMAIN files'
    <3>1. files[m].items[j] \in lost'
      BY <2>2 DEF KeepsSynced, IsLost
    <3>2. WasLost(r)'
      BY <1>1, <3>1 DEF WasLost, Precedes
    <3> QED
      BY <3>2 DEF SyncedElsewhere
  <2> QED
    BY <2>1, <2>2
<1> QED
  BY <1>0, <1>1, Zenon DEF SyncedElsewhere, InAnotherFile

LEMMA FilesStay ==
  ASSUME FilesInv, FilesInv', KeepsSynced, FilesHaveNoHoles, NothingIsAdded
  PROVE  FilesHaveNoHoles'
<1> SUFFICES ASSUME NEW n \in DOMAIN files', NEW i \in 1..Len(files'[n].items),
                    Follows(files'[n].items[i])
             PROVE  \/ \E j \in 1..(i - 1) : Precedes(files'[n].items[j], files'[n].items[i])
                    \/ SyncedElsewhere(n, files[n].items[i])'
  BY DEF FilesHaveNoHoles
<1>1. n \in DOMAIN files
  <2>1. files'[n].items # <<>>
    OBVIOUS
  <2> QED
    BY <2>1 DEF NothingIsAdded
<1>2. /\ Len(files[n].items) \in Nat /\ Len(files'[n].items) \in Nat
      /\ Len(files'[n].items) <= Len(files[n].items)
      /\ \A j \in 1..Len(files'[n].items) : files'[n].items[j] = files[n].items[j]
  <2>1. n \in DOMAIN files'
    OBVIOUS
  <2>2. files[n] \in File /\ files'[n] \in File
    BY <1>1, <2>1, Zenon DEF FilesInv, TypeOK
  <2>3. Len(files[n].items) \in Nat /\ Len(files'[n].items) \in Nat
    BY ONLY <2>2 DEF File
  <2>4. /\ Len(files'[n].items) <= Len(files[n].items)
        /\ \A j \in 1..Len(files'[n].items) : files'[n].items[j] = files[n].items[j]
    BY <1>1, <2>1, Zenon DEF NothingIsAdded
  <2> QED
    BY <2>3, <2>4, Zenon
<1>3. i \in 1..Len(files[n].items) /\ \A j \in 1..i : files'[n].items[j] = files[n].items[j]
  BY <1>2
<1> DEFINE r == files[n].items[i]
<1>4. \/ \E j \in 1..(i - 1) : Precedes(files[n].items[j], r)
      \/ SyncedElsewhere(n, r)
  BY <1>1, <1>3 DEF FilesHaveNoHoles
<1>5. files'[n].items[i] = r
  BY <1>3
<1>6. CASE \E j \in 1..(i - 1) : Precedes(files[n].items[j], r)
  BY <1>3, <1>5, <1>6
<1>7. CASE SyncedElsewhere(n, r)
  <2>1. PICK q : q = r
    OBVIOUS
  <2>2. SyncedElsewhere(n, q)
    BY <1>7, <2>1
  <2>3. SyncedElsewhere(n, q)'
    BY <2>2, ElsewhereStays DEF FilesInv
  <2> QED
    BY <1>5, <2>1, <2>3 DEF SyncedElsewhere
<1> QED
  BY <1>4, <1>6, <1>7

LEMMA CurrentStays ==
  ASSUME FilesInv, FilesInv', CurrentIsKept, NEW r, InCurrentFile(r)
  PROVE  InCurrentFile(r)'
<1>1. PICK j \in 1..Len(files[mCurrentLog].items) : Precedes(files[mCurrentLog].items[j], r)
  BY DEF InCurrentFile
<1>2. mCurrentLog # NoFile /\ mCurrentLog \in DOMAIN files /\ mCurrentLog' \in DOMAIN files'
  BY DEF InCurrentFile, FilesInv, TypeOK, CurrentIsKept
<1>3. Len(files[mCurrentLog].items) \in Nat /\ Len(files'[mCurrentLog].items) \in Nat
  BY <1>2 DEF CurrentIsKept, FilesInv, TypeOK, File
<1>4. j \in 1..Len(files'[mCurrentLog].items) /\ Precedes(files'[mCurrentLog].items[j], r)
  BY <1>1, <1>2, <1>3 DEF CurrentIsKept
<1> QED
  BY <1>2, <1>4 DEF InCurrentFile, CurrentIsKept, Precedes

\* A step that adds to the buffer at most, and does not leave the current file.
BufferIsKept ==
  /\ mCurrentLog' = mCurrentLog \/ (mCurrentLog = NoFile /\ mCurrentLog' \notin DOMAIN files)
  /\ Len(buffer) <= Len(buffer')
  /\ \A j \in 1..Len(buffer) : buffer'[j] = buffer[j]

LEMMA HeldStays ==
  ASSUME FilesInv, FilesInv', KeepsSynced, CurrentIsKept, BufferIsKept, NEW r, Held(r)
  PROVE  Held(r)'
<1>1. CASE \E j \in 1..Len(buffer) : Precedes(buffer[j], r)
  <2>1. Len(buffer) \in Nat /\ Len(buffer') \in Nat
    BY DEF FilesInv, TypeOK
  <2> QED
    BY <1>1, <2>1 DEF Held, BufferIsKept
<1>2. CASE InCurrentFile(r)
  BY <1>2, CurrentStays DEF Held
<1>3. CASE SyncedElsewhere(mCurrentLog, r)
  <2>1. SyncedElsewhere(mCurrentLog, r)'
    BY <1>3, ElsewhereStays DEF FilesInv, BufferIsKept
  <2> QED
    BY <2>1 DEF Held
<1> QED
  BY <1>1, <1>2, <1>3 DEF Held

LEMMA BufferStays ==
  ASSUME FilesInv, FilesInv', KeepsSynced, CurrentIsKept, BufferIsKept, BufferHasNoHoles,
         NEW i \in 1..Len(buffer), Follows(buffer[i])
  PROVE  (\/ \E j \in 1..(i - 1) : Precedes(buffer[j], buffer[i])
          \/ InCurrentFile(buffer[i])
          \/ SyncedElsewhere(mCurrentLog, buffer[i]))'
<1>1. PICK r : r = buffer[i]
  OBVIOUS
<1>2. Len(buffer) \in Nat /\ buffer'[i] = r /\ \A j \in 1..(i - 1) : buffer'[j] = buffer[j]
  BY <1>1 DEF FilesInv, TypeOK, BufferIsKept
<1>3. CASE \E j \in 1..(i - 1) : Precedes(buffer[j], r)
  BY <1>2, <1>3
<1>4. CASE InCurrentFile(r)
  <2>1. InCurrentFile(r)'
    BY <1>4, CurrentStays
  <2> QED
    BY <1>2, <2>1 DEF InCurrentFile
<1>5. CASE SyncedElsewhere(mCurrentLog, r)
  <2>1. SyncedElsewhere(mCurrentLog, r)'
    BY <1>5, ElsewhereStays DEF FilesInv, BufferIsKept
  <2> QED
    BY <1>2, <2>1 DEF SyncedElsewhere
<1> QED
  BY <1>1, <1>3, <1>4, <1>5 DEF BufferHasNoHoles

\* The items of all files are as they were.
SameItems == DOMAIN files' = DOMAIN files /\ \A n \in DOMAIN files : files'[n].items = files[n].items

LEMMA SameItemsKeep ==
  ASSUME FilesInv, SameItems
  PROVE  NothingIsAdded /\ (mCurrentLog' = mCurrentLog => CurrentIsKept)
<1>1. \A n \in DOMAIN files : Len(files[n].items) \in Nat
  BY FileTypes DEF FilesInv
<1>2. mCurrentLog # NoFile => mCurrentLog \in DOMAIN files
  BY DEF FilesInv, TypeOK
<1> QED
  BY <1>1, <1>2 DEF SameItems, NothingIsAdded, CurrentIsKept
-----------------------------------------------------------------------------
(***************************************************************************)
(* The steps.                                                              *)
(***************************************************************************)
LEMMA NoHolesAtFirst == Init => HolesInv
BY DEF Init, HolesInv, FilesHaveNoHoles, BufferHasNoHoles, RecordIsNext, LastIsHeld, Appending

\* A process that is gone takes its buffer with it; of the files, the ends.
LEMMA DeadLeavesNoHole ==
  ASSUME FilesInv, FilesInv', KeepsSynced, HolesInv, Crash \/ OpenFails \/ PowerLoss
  PROVE  HolesInv'
<1>1. Dead
  BY DEF Crash, OpenFails, PowerLoss
<1>2. BufferHasNoHoles' /\ RecordIsNext' /\ LastIsHeld'
  BY <1>1 DEF Dead, BufferHasNoHoles, RecordIsNext, LastIsHeld, Appending
<1>3. NothingIsAdded
  <2>1. CASE UNCHANGED files
    <3>1. SameItems
      BY <2>1 DEF SameItems
    <3> QED
      BY <3>1, SameItemsKeep
  <2>2. CASE PowerLoss
    <3>1. PICK name \in DOMAIN files : LosesEnd(name) \/ LosesEntry(name)
      BY <2>2 DEF PowerLoss
    <3>2. \A m \in DOMAIN files : Len(files[m].items) \in Nat
      BY FileTypes DEF FilesInv
    <3>3. CASE LosesEnd(name)
      BY <3>3, LosesEndLeaves DEF NothingIsAdded
    <3>4. CASE LosesEntry(name)
      <4>1. \A m \in DOMAIN files' : m \in DOMAIN files /\ files'[m] = files[m]
        BY <3>4, LosesEntryLeaves
      <4> QED
        BY <3>2, <4>1 DEF NothingIsAdded
    <3> QED
      BY <3>1, <3>3, <3>4
  <2> QED
    BY <2>1, <2>2 DEF Crash, OpenFails
<1>4. FilesHaveNoHoles'
  BY <1>3, FilesStay DEF HolesInv
<1> QED
  BY <1>2, <1>4 DEF HolesInv

LEMMA RedoLogFileKeepsItems == ASSUME FilesInv, RedoLogFile PROVE SameItems
<1> DEFINE name == Head(todo)
<1>1. \/ UNCHANGED files
      \/ files' = [files EXCEPT ![name].torn = FALSE, ![name].synced = Len(files[name].items)]
  BY DEF RedoLogFile
<1>2. \A n \in DOMAIN files : files[n] \in File
  BY DEF FilesInv, TypeOK
<1> HIDE DEF name
<1>3. CASE files' = [files EXCEPT ![name].torn = FALSE, ![name].synced = Len(files[name].items)]
  BY <1>2, <1>3 DEF SameItems, File
<1> QED
  BY <1>1, <1>3 DEF SameItems

\* Recovery reads only; the new process has written nothing.
LEMMA RecoveryLeavesNoHole ==
  ASSUME FilesInv, FilesInv', KeepsSynced, HolesInv, Start \/ RedoLogFile \/ RecoverDone
  PROVE  HolesInv'
<1>1. SameItems
  <2>1. CASE UNCHANGED files
    BY <2>1 DEF SameItems
  <2>2. CASE RedoLogFile
    BY <2>2, RedoLogFileKeepsItems
  <2> QED
    BY <2>1, <2>2 DEF Start, RecoverDone
<1>2. FilesHaveNoHoles'
  BY <1>1, SameItemsKeep, FilesStay DEF HolesInv
<1>3. mCurrentLog = NoFile /\ buffer = <<>> /\ mCurrentLog' = NoFile /\ buffer' = <<>>
  BY DEF Start, RedoLogFile, RecoverDone, FilesInv, CurrentFile, HolesInv, BufferHasNoHoles
<1>4. BufferHasNoHoles'
  BY <1>3 DEF BufferHasNoHoles
<1>5. op' \in {"recover", "idle"} /\ seq' = 0
  BY DEF Start, RedoLogFile, RecoverDone, HolesInv, LastIsHeld, histVars
<1>6. RecordIsNext' /\ LastIsHeld'
  BY <1>5 DEF RecordIsNext, LastIsHeld, Appending, Follows, NextOne
<1> QED
  BY <1>2, <1>4, <1>6 DEF HolesInv

\* A step that leaves the items, the buffer and the next record as they are.
LEMMA QuietStepsLeaveNoHole ==
  ASSUME FilesInv, FilesInv', KeepsSynced, HolesInv,
         \/ WriteLog \/ BufferIsFull \/ DirectDone \/ FlushLog \/ FlushDone
         \/ (Pwrite /\ UNCHANGED buffer) \/ UNCHANGED vars
  PROVE  HolesInv'
<1>1. SameItems
  <2>1. CASE UNCHANGED files
    BY <2>1 DEF SameItems
  <2>2. CASE FlushDone
    BY <2>2, SyncSyncs DEF FlushDone, SameItems
  <2>3. CASE Pwrite /\ UNCHANGED buffer
    <3>1. Tail(buffer) # buffer
      <4>1. buffer \in Seq(LogRecord \cup {Header}) /\ buffer # <<>>
        BY <2>3 DEF Pwrite, FilesInv, TypeOK
      <4>2. Len(Tail(buffer)) = Len(buffer) - 1 /\ Len(buffer) \in Nat
        BY <4>1
      <4> QED
        BY <4>2
    <3>2. files' = [files EXCEPT ![mCurrentLog].torn = TRUE]
      BY <2>3, <3>1 DEF Pwrite
    <3>3. \A n \in DOMAIN files : files[n] \in File
      BY DEF FilesInv, TypeOK
    <3> QED
      BY <3>2, <3>3 DEF SameItems, File
  <2> QED
    BY <2>1, <2>2, <2>3 DEF WriteLog, BufferIsFull, DirectDone, FlushLog, vars
<1>2. mCurrentLog' = mCurrentLog /\ buffer' = buffer
  BY DEF WriteLog, BufferIsFull, DirectDone, FlushLog, FlushDone, Pwrite, vars, procVars
<1>3. CurrentIsKept /\ BufferIsKept /\ FilesHaveNoHoles'
  BY <1>1, <1>2, SameItemsKeep, FilesStay DEF HolesInv, BufferIsKept, FilesInv, TypeOK
<1>4. BufferHasNoHoles'
  <2>1. mCurrentLog' = NoFile => buffer' = <<>>
    BY <1>2 DEF HolesInv, BufferHasNoHoles
  <2>2. ASSUME NEW i \in 1..Len(buffer), Follows(buffer[i])
        PROVE  (\/ \E j \in 1..(i - 1) : Precedes(buffer[j], buffer[i])
                \/ InCurrentFile(buffer[i])
                \/ SyncedElsewhere(mCurrentLog, buffer[i]))'
    BY <1>3, <2>2, BufferStays DEF HolesInv
  <2> QED
    BY <1>2, <2>1, <2>2 DEF BufferHasNoHoles
<1>5. RecordIsNext'
  <2>1. CASE WriteLog
    BY <2>1 DEF WriteLog, RecordIsNext, FilesInv, TypeOK
  <2>2. CASE ~WriteLog
    BY <2>2 DEF BufferIsFull, DirectDone, FlushLog, FlushDone, Pwrite, vars, procVars, histVars,
       HolesInv, RecordIsNext, Appending
  <2> QED
    BY <2>1, <2>2
<1>6. NextOne' = NextOne /\ (op' \in {"down", "recover"} <=> op \in {"down", "recover"})
  BY DEF WriteLog, BufferIsFull, DirectDone, FlushLog, FlushDone, Pwrite, vars, procVars, histVars,
     NextOne, Appending
<1>7. LastIsHeld'
  <2>1. op' = "recover" => seq' = 0
    BY DEF WriteLog, BufferIsFull, DirectDone, FlushLog, FlushDone, Pwrite, vars, procVars, histVars,
       HolesInv, LastIsHeld
  <2>2. ASSUME op' \notin {"down", "recover"}, Follows(NextOne)' PROVE Held(NextOne)'
    <3>1. PICK r : r = NextOne
      OBVIOUS
    <3>2. Held(r)
      BY <1>6, <2>2, <3>1 DEF HolesInv, LastIsHeld, Follows
    <3>3. Held(r)'
      BY <1>3, <3>2, HeldStays
    <3> QED
      BY <1>6, <3>1, <3>3 DEF Held, InCurrentFile, SyncedElsewhere
  <2> QED
    BY <2>1, <2>2 DEF LastIsHeld
<1> QED
  BY <1>3, <1>4, <1>5, <1>7 DEF HolesInv

\* The new file is empty, and the header is no record.
LEMMA OpenNewLogFileLeavesNoHole ==
  ASSUME FilesInv, FilesInv', KeepsSynced, HolesInv, OpenNewLogFile
  PROVE  HolesInv'
<1>1. mCurrentLog = NoFile /\ buffer = <<>> /\ mCurrentLog' # NoFile
  BY DEF HolesInv, BufferHasNoHoles, OpenNewLogFile, FilesInv, CurrentFile
<1>2. NothingIsAdded
  <2>1. \A n \in DOMAIN files : Len(files[n].items) \in Nat
    BY FileTypes DEF FilesInv
  <2> QED
    BY <2>1 DEF OpenNewLogFile, CreateFile, NothingIsAdded, NewFile
<1>3. CurrentIsKept /\ BufferIsKept /\ FilesHaveNoHoles'
  <2>1. Len(buffer) = 0 /\ Len(buffer') \in Nat
    BY <1>1 DEF FilesInv, TypeOK
  <2> QED
    BY <1>1, <1>2, <2>1, FilesStay DEF HolesInv, CurrentIsKept, BufferIsKept, OpenNewLogFile
<1>4. BufferHasNoHoles'
  <2>1. buffer' = <<Header>> /\ \A i \in 1..Len(buffer') : buffer'[i] = Header
    BY DEF OpenNewLogFile
  <2> QED
    BY <1>1, <2>1 DEF BufferHasNoHoles, Follows, IsRecord
<1>5. RecordIsNext'
  BY DEF OpenNewLogFile, HolesInv, RecordIsNext, Appending, histVars
<1>6. NextOne' = NextOne
  BY DEF OpenNewLogFile, NextOne, Appending, histVars
<1>7. LastIsHeld'
  <2>1. ASSUME Follows(NextOne)' PROVE Held(NextOne)'
    <3>1. PICK r : r = NextOne
      OBVIOUS
    <3>2. Held(r)
      BY <1>6, <2>1, <3>1 DEF HolesInv, LastIsHeld, OpenNewLogFile, Follows
    <3>3. Held(r)'
      BY <1>3, <3>2, HeldStays
    <3> QED
      BY <1>6, <3>1, <3>3 DEF Held, InCurrentFile, SyncedElsewhere
  <2> QED
    BY <2>1 DEF LastIsHeld, OpenNewLogFile
<1> QED
  BY <1>3, <1>4, <1>5, <1>7 DEF HolesInv

\* The record finds its predecessor in front of it, whether it goes behind
\* the rest of the buffer or is the first one after a spill.
LEMMA AppendLeavesNoHole ==
  ASSUME FilesInv, FilesInv', KeepsSynced, HolesInv, Append1 \/ SpillDone
  PROVE  HolesInv'
<1>1. SameItems
  <2>1. CASE Append1
    BY <2>1 DEF Append1, SameItems
  <2>2. CASE SpillDone
    <3>1. PICK cut \in BOOLEAN : files' = [files EXCEPT ![mCurrentLog].torn = cut]
      BY <2>2 DEF SpillDone
    <3>2. \A n \in DOMAIN files : files[n] \in File
      BY DEF FilesInv, TypeOK
    <3> QED
      BY <3>1, <3>2 DEF SameItems, File
  <2> QED
    BY <2>1, <2>2
<1>2. /\ op \in {"append", "spill"} /\ op' \in {"idle", "direct"}
      /\ mCurrentLog' = mCurrentLog /\ mCurrentLog # NoFile
      /\ UNCHANGED <<record, run, seq>> /\ seq > 0
      /\ record = [id |-> record.id, run |-> run, seq |-> seq]
  BY DEF Append1, SpillDone, FilesInv, CurrentFile, HolesInv, RecordIsNext, Appending, histVars
<1>3. /\ Len(buffer) \in Nat /\ Len(buffer') = Len(buffer) + 1
      /\ \A j \in 1..Len(buffer) : buffer'[j] = buffer[j]
      /\ buffer'[Len(buffer) + 1] = record
  <2>1. buffer \in Seq(LogRecord \cup {Header}) /\ record \in LogRecord \cup {Header}
    BY DEF FilesInv, TypeOK, NoRecord
  <2>2. buffer' = Append(buffer, record)
    <3>1. CASE buffer = <<>> /\ buffer' = <<record>>
      BY <3>1
    <3> QED
      BY <3>1 DEF Append1, SpillDone
  <2> QED
    BY <2>1, <2>2, AppendProperties
<1>4. CurrentIsKept /\ BufferIsKept /\ FilesHaveNoHoles'
  BY <1>1, <1>2, <1>3, SameItemsKeep, FilesStay DEF HolesInv, BufferIsKept
<1>5. BufferHasNoHoles'
  <2>1. ASSUME NEW i \in 1..Len(buffer), Follows(buffer[i])
        PROVE  (\/ \E j \in 1..(i - 1) : Precedes(buffer[j], buffer[i])
                \/ InCurrentFile(buffer[i])
                \/ SyncedElsewhere(mCurrentLog, buffer[i]))'
    BY <1>4, <2>1, BufferStays DEF HolesInv
  <2>2. ASSUME Follows(record)
        PROVE  (\/ \E j \in 1..Len(buffer) : Precedes(buffer'[j], record)
                \/ InCurrentFile(record)'
                \/ SyncedElsewhere(mCurrentLog, record)')
    <3>1. PICK r : r = record
      OBVIOUS
    <3>2. Held(NextOne)
      <4>1. Follows(NextOne)
        BY <1>2, <2>2 DEF NextOne, Follows, IsRecord, Header, Appending
      <4> QED
        BY <1>2, <4>1 DEF HolesInv, LastIsHeld
    <3>3. NextOne.run = r.run /\ NextOne.seq = r.seq
      BY <1>2, <3>1 DEF NextOne, Appending
    <3>4. Held(r)
      BY <3>2, <3>3 DEF Held, InCurrentFile, SyncedElsewhere, InAnotherFile, WasLost, Precedes
    <3>5. CASE \E j \in 1..Len(buffer) : Precedes(buffer[j], r)
      BY <1>3, <3>1, <3>5
    <3>6. CASE InCurrentFile(r)
      <4>1. InCurrentFile(r)'
        BY <1>4, <3>6, CurrentStays
      <4> QED
        BY <1>2, <3>1, <4>1 DEF InCurrentFile
    <3>7. CASE SyncedElsewhere(mCurrentLog, r)
      <4>1. SyncedElsewhere(mCurrentLog, r)'
        BY <1>2, <3>7, ElsewhereStays DEF FilesInv
      <4> QED
        BY <1>2, <3>1, <4>1 DEF SyncedElsewhere
    <3> QED
      BY <3>4, <3>5, <3>6, <3>7 DEF Held
  <2>3. \A i \in 1..Len(buffer') : i \in 1..Len(buffer) \/ i = Len(buffer) + 1
    BY <1>3
  <2>4. ASSUME NEW i \in 1..Len(buffer'), Follows(buffer'[i])
        PROVE  (\/ \E j \in 1..(i - 1) : Precedes(buffer[j], buffer[i])
                \/ InCurrentFile(buffer[i])
                \/ SyncedElsewhere(mCurrentLog, buffer[i]))'
    <3>1. CASE i \in 1..Len(buffer)
      BY <1>3, <2>1, <2>4, <3>1
    <3>2. CASE i = Len(buffer) + 1
      <4>1. buffer'[i] = record /\ i - 1 = Len(buffer)
        BY <1>3, <3>2
      <4> QED
        BY <1>2, <2>2, <2>4, <4>1 DEF InCurrentFile, SyncedElsewhere
    <3> QED
      BY <2>3, <3>1, <3>2
  <2> QED
    BY <1>2, <2>4 DEF BufferHasNoHoles
<1>6. RecordIsNext'
  BY <1>2 DEF RecordIsNext, Appending
<1>7. LastIsHeld'
  <2>1. Len(buffer) + 1 \in 1..Len(buffer')
    BY <1>3
  <2>2. Precedes(record, NextOne)'
    BY <1>2 DEF Precedes, NextOne, Appending
  <2>3. Held(NextOne)'
    BY <1>2, <1>3, <2>1, <2>2 DEF Held
  <2> QED
    BY <1>2, <2>3 DEF LastIsHeld
<1> QED
  BY <1>4, <1>5, <1>6, <1>7 DEF HolesInv

\* fsync makes sure of all that is in the file before another one is opened.
LEMMA CloseLeavesNoHole ==
  ASSUME FilesInv, FilesInv', KeepsSynced, HolesInv, Close
  PROVE  HolesInv'
<1>1. /\ SameItems /\ mCurrentLog \in DOMAIN files
      /\ \A n \in DOMAIN files' : files'[n].synced = Len(files'[n].items)
  BY SyncSyncs DEF Close, SameItems, histVars
<1>2. FilesHaveNoHoles'
  BY <1>1, SameItemsKeep, FilesStay DEF HolesInv
<1>3. /\ buffer = <<>> /\ buffer' = <<>> /\ mCurrentLog' = NoFile
      /\ op = "close" /\ op' = "open" /\ UNCHANGED <<record, run, seq>>
  BY DEF Close, WrittenOut, histVars
<1>4. BufferHasNoHoles' /\ RecordIsNext' /\ NextOne' = NextOne
  BY <1>3 DEF BufferHasNoHoles, HolesInv, RecordIsNext, NextOne, Appending
<1>5. ASSUME NEW r, Held(r) PROVE Held(r)'
  <2>1. CASE InCurrentFile(r)
    <3>1. PICK j \in 1..Len(files[mCurrentLog].items) : Precedes(files[mCurrentLog].items[j], r)
      BY <2>1 DEF InCurrentFile
    <3>2. /\ mCurrentLog \in DOMAIN files' /\ mCurrentLog # NoFile
          /\ j \in 1..files'[mCurrentLog].synced
          /\ Precedes(files'[mCurrentLog].items[j], r)
      BY <1>1, <2>1, <3>1 DEF SameItems, InCurrentFile
    <3>3. SyncedElsewhere(NoFile, r)'
      BY <3>2 DEF SyncedElsewhere, InAnotherFile, Precedes
    <3> QED
      BY <1>3, <3>3 DEF Held, SyncedElsewhere, InAnotherFile, WasLost
  <2>2. CASE SyncedElsewhere(mCurrentLog, r)
    <3>1. NoFile \notin DOMAIN files
      BY FileTypes DEF FilesInv
    <3>2. SyncedElsewhere(NoFile, r)'
      BY <2>2, <3>1, ElsewhereStays DEF FilesInv
    <3> QED
      BY <1>3, <3>2 DEF Held, SyncedElsewhere
  <2> QED
    BY <1>3, <1>5, <2>1, <2>2 DEF Held
<1>6. LastIsHeld'
  <2>1. ASSUME Follows(NextOne)' PROVE Held(NextOne)'
    <3>1. PICK r : r = NextOne
      OBVIOUS
    <3>2. Held(r)
      BY <1>3, <1>4, <2>1, <3>1 DEF HolesInv, LastIsHeld, Follows
    <3>3. Held(r)'
      BY <1>5, <3>2
    <3> QED
      BY <1>4, <3>1, <3>3 DEF Held, InCurrentFile, SyncedElsewhere
  <2> QED
    BY <1>3, <2>1 DEF LastIsHeld
<1> QED
  BY <1>2, <1>4, <1>6 DEF HolesInv

\* Behind the last item of the current file there is room for the first one of
\* the buffer, which so is in front of the rest as before.
LEMMA PwriteLeavesNoHole ==
  ASSUME FilesInv, FilesInv', KeepsSynced, HolesInv, Pwrite, buffer' # buffer
  PROVE  HolesInv'
<1> DEFINE items == files[mCurrentLog].items
           head  == buffer[1]
           there == Len(items) + 1
<1>1. /\ mCurrentLog \in DOMAIN files /\ mCurrentLog # NoFile
      /\ items \in Seq(LogRecord \cup {Header}) /\ Len(items) \in Nat
      /\ files[mCurrentLog] \in File
  BY CurrentIsFile, FileTypes DEF Pwrite, FilesInv
<1>2. /\ buffer \in Seq(LogRecord \cup {Header}) /\ buffer # <<>>
      /\ Head(buffer) = head /\ head \in LogRecord \cup {Header}
      /\ Len(buffer) \in Nat /\ Len(buffer) >= 1
  BY DEF FilesInv, TypeOK, Pwrite
<1>3. /\ files' = [files EXCEPT ![mCurrentLog].torn = FALSE,
                                ![mCurrentLog].items = Append(@, Head(buffer))]
      /\ buffer' = Tail(buffer)
  BY DEF Pwrite
<1>4. /\ UNCHANGED <<op, mCurrentLog, record, run, seq>>
      /\ op \in {"close", "spill", "direct", "flush"}
  BY DEF Pwrite, histVars
<1>5. /\ Len(buffer') = Len(buffer) - 1
      /\ \A j \in 1..Len(buffer') : buffer'[j] = buffer[j + 1]
  BY <1>2, <1>3
<1>6. /\ DOMAIN files' = DOMAIN files
      /\ \A n \in DOMAIN files : n # mCurrentLog => files'[n] = files[n]
      /\ files'[mCurrentLog].items = Append(items, head)
  BY <1>1, <1>2, <1>3 DEF File
<1>7. /\ Len(files'[mCurrentLog].items) = there
      /\ files'[mCurrentLog].items[there] = head
      /\ \A j \in 1..Len(items) : files'[mCurrentLog].items[j] = items[j]
  BY <1>1, <1>2, <1>6, AppendProperties
<1> HIDE DEF items, head, there
<1>8. CurrentIsKept
  BY <1>1, <1>4, <1>7 DEF CurrentIsKept, items, there
<1>9. ASSUME NEW r, Precedes(head, r) PROVE InCurrentFile(r)'
  <2>1. there \in 1..Len(files'[mCurrentLog].items)
    BY <1>1, <1>7 DEF there
  <2> QED
    BY <1>1, <1>4, <1>7, <1>9, <2>1 DEF InCurrentFile, Precedes
<1>10. ASSUME NEW r, SyncedElsewhere(mCurrentLog, r) PROVE SyncedElsewhere(mCurrentLog, r)'
  BY <1>4, <1>10, ElsewhereStays DEF FilesInv
<1>11. FilesHaveNoHoles'
  <2> SUFFICES ASSUME NEW n \in DOMAIN files', NEW i \in 1..Len(files'[n].items),
                      Follows(files'[n].items[i])
               PROVE  \/ \E j \in 1..(i - 1) : Precedes(files'[n].items[j], files'[n].items[i])
                      \/ SyncedElsewhere(n, files[n].items[i])'
    BY DEF FilesHaveNoHoles
  <2>1. PICK r : r = files'[n].items[i]
    OBVIOUS
  <2>2. SyncedElsewhere(n, r) => SyncedElsewhere(n, files[n].items[i])'
    <3>1. SyncedElsewhere(n, r) => SyncedElsewhere(n, r)'
      BY ElsewhereStays DEF FilesInv
    <3> QED
      BY <2>1, <3>1 DEF SyncedElsewhere
  <2>3. CASE n # mCurrentLog
    BY <1>6, <2>1, <2>2, <2>3 DEF HolesInv, FilesHaveNoHoles
  <2>4. CASE n = mCurrentLog /\ i \in 1..Len(items)
    <3>1. r = items[i] /\ Follows(r)
      BY <1>7, <2>1, <2>4
    <3>2. \/ \E j \in 1..(i - 1) : Precedes(items[j], r)
          \/ SyncedElsewhere(n, r)
      BY <1>1, <2>4, <3>1 DEF HolesInv, FilesHaveNoHoles, items
    <3>3. \A j \in 1..(i - 1) : j \in 1..Len(items)
      BY <1>1, <2>4
    <3> QED
      BY <1>7, <2>1, <2>2, <2>4, <3>2, <3>3
  <2>5. CASE n = mCurrentLog /\ i = there
    <3>1. r = buffer[1] /\ Follows(r) /\ 1 \in 1..Len(buffer)
      BY <1>2, <1>7, <2>1, <2>5 DEF head
    <3>2. InCurrentFile(r) \/ SyncedElsewhere(mCurrentLog, r)
      BY <3>1 DEF HolesInv, BufferHasNoHoles
    <3>3. InCurrentFile(r) => \E j \in 1..(i - 1) : Precedes(items[j], r)
      BY <1>1, <2>5 DEF InCurrentFile, items, there
    <3>4. \A j \in 1..(i - 1) : j \in 1..Len(items)
      BY <1>1, <2>5 DEF there
    <3> QED
      BY <1>7, <2>1, <2>2, <2>5, <3>2, <3>3, <3>4
  <2>6. i \in 1..Len(items) \/ i = there \/ n # mCurrentLog
    BY <1>1, <1>7 DEF there
  <2> QED
    BY <2>3, <2>4, <2>5, <2>6
<1>12. BufferHasNoHoles'
  <2> SUFFICES ASSUME NEW i \in 1..Len(buffer'), Follows(buffer'[i])
               PROVE  (\/ \E j \in 1..(i - 1) : Precedes(buffer[j], buffer[i])
                       \/ InCurrentFile(buffer[i])
                       \/ SyncedElsewhere(mCurrentLog, buffer[i]))'
    BY <1>1, <1>4 DEF BufferHasNoHoles
  <2>1. PICK r : r = buffer'[i]
    OBVIOUS
  <2>2. r = buffer[i + 1] /\ i + 1 \in 1..Len(buffer) /\ Follows(r)
    BY <1>2, <1>5, <2>1
  <2>3. \/ \E j \in 1..i : Precedes(buffer[j], r)
        \/ InCurrentFile(r)
        \/ SyncedElsewhere(mCurrentLog, r)
    BY <2>2 DEF HolesInv, BufferHasNoHoles
  <2>4. InCurrentFile(r)' => InCurrentFile(buffer[i])'
    BY <2>1 DEF InCurrentFile
  <2>5. SyncedElsewhere(mCurrentLog, r)' => SyncedElsewhere(mCurrentLog, buffer[i])'
    BY <2>1 DEF SyncedElsewhere
  <2>6. CASE \E j \in 1..i : Precedes(buffer[j], r)
    <3>1. PICK j \in 1..i : Precedes(buffer[j], r)
      BY <2>6
    <3>2. CASE j = 1
      BY <1>9, <2>4, <3>1, <3>2 DEF head
    <3>3. CASE j # 1
      <4>1. j - 1 \in 1..(i - 1) /\ j - 1 \in 1..Len(buffer') /\ buffer'[j - 1] = buffer[j]
        <5>1. j - 1 \in 1..(i - 1) /\ j - 1 \in 1..Len(buffer')
          BY <1>2, <1>5, <3>1, <3>3
        <5> QED
          BY <1>5, <5>1
      <4> QED
        BY <2>1, <3>1, <4>1
    <3> QED
      BY <3>2, <3>3
  <2>7. CASE InCurrentFile(r)
    BY <1>8, <2>4, <2>7, CurrentStays
  <2>8. CASE SyncedElsewhere(mCurrentLog, r)
    BY <1>10, <2>5, <2>8
  <2> QED
    BY <2>3, <2>6, <2>7, <2>8
<1>13. RecordIsNext' /\ NextOne' = NextOne
  BY <1>4 DEF HolesInv, RecordIsNext, NextOne, Appending
<1>14. LastIsHeld'
  <2>1. ASSUME Follows(NextOne)' PROVE Held(NextOne)'
    <3>1. PICK r : r = NextOne
      OBVIOUS
    <3>2. Held(r)
      BY <1>4, <1>13, <2>1, <3>1 DEF HolesInv, LastIsHeld, Follows
    <3>3. Held(r)'
      <4>1. CASE \E j \in 1..Len(buffer) : Precedes(buffer[j], r)
        <5>1. PICK j \in 1..Len(buffer) : Precedes(buffer[j], r)
          BY <4>1
        <5>2. CASE j = 1
          BY <1>9, <5>1, <5>2 DEF head, Held
        <5>3. CASE j # 1
          <6>1. j - 1 \in 1..Len(buffer')
            BY <1>2, <1>5, <5>1, <5>3
          <6>2. buffer'[j - 1] = buffer[j]
            BY <1>5, <5>1, <6>1
          <6> QED
            BY <5>1, <6>1, <6>2 DEF Held
        <5> QED
          BY <5>2, <5>3
      <4>2. CASE InCurrentFile(r)
        BY <1>8, <4>2, CurrentStays DEF Held
      <4>3. CASE SyncedElsewhere(mCurrentLog, r)
        BY <1>10, <4>3 DEF Held
      <4> QED
        BY <3>2, <4>1, <4>2, <4>3 DEF Held
    <3> QED
      BY <1>13, <3>1, <3>3 DEF Held, InCurrentFile, SyncedElsewhere
  <2> QED
    BY <1>4, <2>1 DEF LastIsHeld
<1> QED
  BY <1>11, <1>12, <1>13, <1>14 DEF HolesInv
-----------------------------------------------------------------------------
(***************************************************************************)
(* The theorem.                                                            *)
(***************************************************************************)
LEMMA HolesInvStays == FilesInv /\ HolesInv /\ [Next]_vars => HolesInv'
<1> SUFFICES ASSUME FilesInv, HolesInv, [Next]_vars PROVE HolesInv'
  OBVIOUS
<1>1. FilesInv' /\ KeepsSynced
  BY StepHolds
<1> QED
  BY <1>1, DeadLeavesNoHole, RecoveryLeavesNoHole, QuietStepsLeaveNoHole,
     OpenNewLogFileLeavesNoHole, AppendLeavesNoHole, CloseLeavesNoHole, PwriteLeavesNoHole DEF Next

\* Whatever is lost with a file, the record before it is, too, or is in another
\* file.
LEMMA LostStays ==
  ASSUME FilesInv, FilesInv', KeepsSynced, FilesHaveNoHoles, LostHasNoHoles, [Next]_vars
  PROVE  LostHasNoHoles'
<1>1. NoFile \notin DOMAIN files
  BY PersistLoggerAssumption DEF FilesInv, TypeOK, Name
<1>2. \A r \in lost : Follows(r) => SyncedElsewhere(NoFile, r)'
  BY ElsewhereStays DEF LostHasNoHoles, FilesInv
<1>3. CASE lost' = lost
  BY <1>2, <1>3 DEF LostHasNoHoles, Follows, SyncedElsewhere, InAnotherFile, WasLost, Precedes
<1>4. ASSUME NEW name \in DOMAIN files, LosesEntry(name)
      PROVE  LostHasNoHoles'
  <2> DEFINE file == files[name]
  <2>1. file.synced \in Nat /\ file.synced <= Len(file.items) /\ Len(file.items) \in Nat
    BY FileTypes DEF FilesInv, SyncedIsThere
  <2>2. ASSUME NEW i \in 1..file.synced, NEW r, r = file.items[i], Follows(r)
        PROVE  SyncedElsewhere(NoFile, r)'
    <3>2. i \in 1..Len(file.items) /\ \A j \in 1..(i - 1) : j \in 1..file.synced
      BY <2>1
    <3>3. \/ \E j \in 1..(i - 1) : Precedes(file.items[j], r)
          \/ SyncedElsewhere(name, r)
      BY <2>2, <3>2 DEF FilesHaveNoHoles
    <3>4. CASE \E j \in 1..(i - 1) : Precedes(file.items[j], r)
      <4>1. PICK j \in 1..file.synced : Precedes(file.items[j], r)
        BY <3>2, <3>4
      <4>2. file.items[j] \in lost'
        BY <1>4 DEF LosesEntry
      <4>3. WasLost(r)'
        BY <4>1, <4>2 DEF WasLost, Precedes
      <4> QED
        BY <4>3 DEF SyncedElsewhere
    <3>5. CASE SyncedElsewhere(name, r)
      BY <1>1, <3>5, ElsewhereStays DEF FilesInv
    <3> QED
      BY <3>3, <3>4, <3>5
  <2> SUFFICES ASSUME NEW r \in lost', Follows(r)'
               PROVE  SyncedElsewhere(NoFile, r)'
    BY Zenon DEF LostHasNoHoles
  <2>3. CASE r \in lost
    BY <1>2, <2>3 DEF Follows
  <2>4. CASE r \notin lost
    <3>1. PICK i \in 1..file.synced : r = file.items[i]
      BY <1>4, <2>4 DEF LosesEntry
    <3> QED
      BY <2>2, <3>1 DEF Follows
  <2> QED
    BY <2>3, <2>4
<1>5. lost' = lost \/ \E name \in DOMAIN files : LosesEntry(name)
  BY DEF Next, vars, histVars, Start, RedoLogFile, RecoverDone, WriteLog, OpenNewLogFile, OpenFails,
     Append1, BufferIsFull, SpillDone, DirectDone, Pwrite, Close, FlushLog, FlushDone, Crash,
     PowerLoss, LosesEnd
<1> QED
  BY <1>3, <1>4, <1>5

LEMMA PredecessorIsHeld == FilesInv /\ HolesInv /\ LostHasNoHoles => NoHoles
<1> SUFFICES ASSUME FilesInv, HolesInv, LostHasNoHoles PROVE NoHoles
  OBVIOUS
<1> DEFINE held == Written \cup {q \in ToSet(buffer) : IsRecord(q)} \cup lost
<1>1. \A n \in DOMAIN files : /\ files[n].items \in Seq(LogRecord \cup {Header})
                              /\ files[n].synced \in Nat /\ files[n].synced <= Len(files[n].items)
  BY FileTypes DEF FilesInv, SyncedIsThere
<1>2. buffer \in Seq(LogRecord \cup {Header}) /\ mCurrentLog \in DOMAIN files \cup {NoFile}
  BY DEF FilesInv, TypeOK
<1>3. ASSUME NEW n \in DOMAIN files, NEW i \in 1..Len(files[n].items), IsRecord(files[n].items[i])
      PROVE  files[n].items[i] \in held
  BY <1>1, <1>3 DEF Written, ToSet
<1>4. ASSUME NEW i \in 1..Len(buffer), IsRecord(buffer[i]) PROVE buffer[i] \in held
  BY <1>2, <1>4 DEF ToSet
<1>5. ASSUME NEW r \in held, r.seq > 1
      PROVE  \/ \E n \in DOMAIN files : \E j \in 1..Len(files[n].items) : Precedes(files[n].items[j], r)
             \/ \E j \in 1..Len(buffer) : Precedes(buffer[j], r)
             \/ WasLost(r)
  <2>0. Follows(r)
    BY <1>5 DEF Follows, IsRecord, Header
  <2>1. ASSUME NEW n, InAnotherFile(n, r)
        PROVE  \E m \in DOMAIN files : \E j \in 1..Len(files[m].items) : Precedes(files[m].items[j], r)
    <3>1. PICK m \in DOMAIN files : \E j \in 1..files[m].synced : Precedes(files[m].items[j], r)
      BY <2>1 DEF InAnotherFile
    <3>2. files[m].synced \in Nat /\ files[m].synced <= Len(files[m].items) /\ Len(files[m].items) \in Nat
      BY <1>1, FileTypes DEF FilesInv
    <3> QED
      BY <3>1, <3>2
  <2>2. CASE r \in Written
    <3>1. PICK n \in DOMAIN files : r \in ToSet(files[n].items)
      BY <2>2 DEF Written
    <3>2. PICK i \in 1..Len(files[n].items) : files[n].items[i] = r
      BY <1>1, <3>1 DEF ToSet
    <3>3. \/ \E j \in 1..(i - 1) : Precedes(files[n].items[j], r)
          \/ SyncedElsewhere(n, r)
      BY <2>0, <3>2 DEF HolesInv, FilesHaveNoHoles
    <3>4. \A j \in 1..(i - 1) : j \in 1..Len(files[n].items)
      BY <3>2, FileTypes DEF FilesInv
    <3> QED
      BY <2>1, <3>3, <3>4 DEF SyncedElsewhere
  <2>3. CASE r \in ToSet(buffer)
    <3>1. PICK i \in 1..Len(buffer) : buffer[i] = r
      BY <1>2, <2>3 DEF ToSet
    <3>2. \/ \E j \in 1..(i - 1) : Precedes(buffer[j], r)
          \/ InCurrentFile(r)
          \/ SyncedElsewhere(mCurrentLog, r)
      BY <2>0, <3>1 DEF HolesInv, BufferHasNoHoles
    <3>3. \A j \in 1..(i - 1) : j \in 1..Len(buffer)
      BY <1>2, <3>1
    <3> QED
      BY <1>2, <2>1, <3>2, <3>3 DEF InCurrentFile, SyncedElsewhere
  <2>4. CASE r \in lost
    BY <2>0, <2>1, <2>4 DEF LostHasNoHoles, SyncedElsewhere
  <2> QED
    BY <2>2, <2>3, <2>4
<1>6. ASSUME NEW r \in held, r.seq > 1, NEW q \in LogRecord \cup {Header}, Precedes(q, r)
      PROVE  IsRecord(q) /\ q.run = r.run /\ q.seq = r.seq - 1
  <2>1. r \in LogRecord \cup {Header}
    BY <1>1, <1>2 DEF Written, ToSet, FilesInv, TypeOK
  <2>2. r.seq \in Nat /\ q.seq \in Nat /\ q.seq # 0
    BY <1>6, <2>1 DEF LogRecord, Header, Precedes
  <2> QED
    BY <1>6, <2>2 DEF Precedes, IsRecord, Header
<1>7. ASSUME NEW r \in held, r.seq > 1 PROVE \E q \in held : q.run = r.run /\ q.seq = r.seq - 1
  <2>1. CASE \E n \in DOMAIN files : \E j \in 1..Len(files[n].items) : Precedes(files[n].items[j], r)
    <3>1. PICK n \in DOMAIN files : \E j \in 1..Len(files[n].items) : Precedes(files[n].items[j], r)
      BY <2>1
    <3>2. PICK j \in 1..Len(files[n].items) : Precedes(files[n].items[j], r)
      BY <3>1
    <3>3. files[n].items[j] \in LogRecord \cup {Header}
      BY <1>1
    <3> QED
      BY <1>3, <1>6, <1>7, <3>2, <3>3
  <2>2. CASE \E j \in 1..Len(buffer) : Precedes(buffer[j], r)
    <3>1. PICK j \in 1..Len(buffer) : Precedes(buffer[j], r)
      BY <2>2
    <3>2. buffer[j] \in LogRecord \cup {Header}
      BY <1>2
    <3> QED
      BY <1>4, <1>6, <1>7, <3>1, <3>2
  <2>3. CASE WasLost(r)
    <3>1. PICK q \in lost : Precedes(q, r)
      BY <2>3 DEF WasLost
    <3>2. q \in LogRecord \cup {Header}
      BY DEF FilesInv, TypeOK
    <3> QED
      BY <1>6, <1>7, <3>1, <3>2
  <2> QED
    BY <1>5, <1>7, <2>1, <2>2, <2>3
<1> QED
  BY <1>7 DEF NoHoles

\* What the file, the buffer and the crash leave of the records of a process
\* has no gap in it: whoever reads a record also reads all that process wrote
\* before it, but for what was lost with a whole file.
THEOREM NothingIsMissingBefore == Spec => []NoHoles
<1>1. Init => HolesInv
  BY NoHolesAtFirst
<1>2. Init => LostHasNoHoles
  BY DEF Init, LostHasNoHoles
<1>3. FilesInv /\ HolesInv /\ LostHasNoHoles /\ [Next]_vars => LostHasNoHoles'
  <2>1. FilesInv /\ [Next]_vars => FilesInv' /\ KeepsSynced
    BY StepHolds
  <2> QED
    BY <2>1, LostStays DEF HolesInv
<1> QED
  BY <1>1, <1>2, <1>3, FilesInvHolds, HolesInvStays, PredecessorIsHeld, PTL DEF Spec
-----------------------------------------------------------------------------
(***************************************************************************)
(* The files implement the abstract log (DurableLog).  What is on disk is  *)
(* the concatenation of the files in the order of their names: a new file  *)
(* holds nothing, wherever its name is put, and what is written goes to    *)
(* the last one that holds a record, because a process counts its epoch up *)
(* from every one it has found and its log ids only grow.                  *)
(***************************************************************************)
Item == LogRecord \cup {Header}

LEMMA RecordsOfNothing == RecordsOf(<<>>) = <<>>
BY DEF RecordsOf

LEMMA RecordsOfType ==
  ASSUME NEW s \in Seq(Item)
  PROVE  /\ RecordsOf(s) \in Seq(Item)
         /\ s # <<>> /\ Head(s) = Header => RecordsOf(s) = Tail(s)
         /\ s # <<>> /\ Head(s) # Header => RecordsOf(s) = s
         /\ s = <<>> => RecordsOf(s) = <<>>
<1>1. s # <<>> => Tail(s) \in Seq(Item)
  OBVIOUS
<1> QED
  BY <1>1, Zenon DEF RecordsOf, IsRecord

\* What is written behind the header is a record more, be it the first.
LEMMA RecordsOfAppend ==
  ASSUME NEW s \in Seq(Item), NEW t, NEW e \in Item, Adds(t, s, e), s = <<>> => e # Header
  PROVE  Adds(RecordsOf(t), RecordsOf(s), e)
<1>1. t \in Seq(Item) /\ t # <<>> /\ (s = <<>> => Head(t) = e) /\ (s # <<>> => Head(t) = Head(s))
  BY DEF Adds
<1>2. CASE s = <<>>
  BY <1>1, <1>2, RecordsOfType DEF Adds
<1>3. CASE s # <<>> /\ Head(s) = Header
  <2>1. RecordsOf(s) = Tail(s) /\ RecordsOf(t) = Tail(t)
    BY <1>1, <1>3, RecordsOfType
  <2>2. Tail(t) = Append(Tail(s), e)
    BY <1>3 DEF Adds
  <2> QED
    BY <2>1, <2>2 DEF Adds
<1>4. CASE s # <<>> /\ Head(s) # Header
  BY <1>1, <1>4, RecordsOfType
<1> QED
  BY <1>2, <1>3, <1>4, Zenon

\* A directory, and the records in its files.
IsDir(f) == DOMAIN f \in SUBSET Name /\ IsFiniteSet(DOMAIN f) /\ \A n \in DOMAIN f : f[n].items \in Seq(Item)

ChunksOf(f) == LET names == OrderOf(DOMAIN f)
               IN  [i \in 1..Len(names) |-> RecordsOf(f[names[i]].items)]
DiskOf(f)   == FlattenSeq(ChunksOf(f))

LEMMA OnDiskIs == OnDisk = DiskOf(files) /\ OnDisk' = DiskOf(files')
BY DEF OnDisk, DiskOf, ChunksOf, InNameOrder, OrderOf, Rank

LEMMA ChunksOfType ==
  ASSUME NEW f, IsDir(f)
  PROVE  /\ ChunksOf(f) \in Seq(Seq(Item)) /\ Len(ChunksOf(f)) = Len(OrderOf(DOMAIN f))
         /\ \A i \in 1..Len(OrderOf(DOMAIN f)) :
              ChunksOf(f)[i] = RecordsOf(f[OrderOf(DOMAIN f)[i]].items)
<1> DEFINE names == OrderOf(DOMAIN f)
<1>1. Len(names) \in Nat /\ \A i \in 1..Len(names) : names[i] \in DOMAIN f
  BY OrderOfIs DEF IsDir
<1> HIDE DEF names
<1>2. \A i \in 1..Len(names) : RecordsOf(f[names[i]].items) \in Seq(Item)
  BY <1>1, RecordsOfType DEF IsDir
<1>3. ChunksOf(f) = [i \in 1..Len(names) |-> RecordsOf(f[names[i]].items)]
  BY Zenon DEF ChunksOf, names
<1>4. ChunksOf(f) \in [1..Len(names) -> Seq(Item)]
  BY <1>2, <1>3, Zenon
<1>5. ChunksOf(f) \in Seq(Seq(Item)) /\ Len(ChunksOf(f)) = Len(names)
  BY <1>1, <1>4, FunctionIsSeq, Zenon
<1> QED
  BY <1>3, <1>5, Zenon DEF names

LEMMA DiskOfType ==
  ASSUME NEW f, IsDir(f) PROVE DiskOf(f) \in Seq(Item)
BY ChunksOfType, FlattenSeqType DEF DiskOf

\* Only the records count.
LEMMA SameRecords ==
  ASSUME NEW f, NEW g, IsDir(f), DOMAIN g = DOMAIN f,
         \A n \in DOMAIN f : RecordsOf(g[n].items) = RecordsOf(f[n].items)
  PROVE  DiskOf(g) = DiskOf(f)
<1>1. \A i \in 1..Len(OrderOf(DOMAIN f)) : OrderOf(DOMAIN f)[i] \in DOMAIN f
  BY OrderOfIs DEF IsDir
<1>2. ChunksOf(g) = ChunksOf(f)
  BY <1>1, Zenon DEF ChunksOf
<1> QED
  BY <1>2 DEF DiskOf

\* A new, empty file, whatever place its name gives it, holds none.
LEMMA EmptyFileMore ==
  ASSUME NEW f, NEW g, NEW m \in Name, IsDir(f), m \notin DOMAIN f, DOMAIN g = DOMAIN f \cup {m},
         g[m].items = <<>>, \A n \in DOMAIN f : g[n].items = f[n].items
  PROVE  IsDir(g) /\ DiskOf(g) = DiskOf(f)
<1> DEFINE S == DOMAIN f
           T == S \cup {m}
           k == Rank(S, m)
           a == OrderOf(S)
           b == OrderOf(T)
<1>1. S \in SUBSET Name /\ IsFiniteSet(S) /\ m \notin S
  BY DEF IsDir
<1>2. /\ k \in 0..Len(a) /\ k + 1 \in 1..Len(b) /\ OneMore(a, b, k) /\ b[k + 1] = m
      /\ Len(a) \in Nat /\ \A i \in 1..Len(a) : a[i] \in S
  BY <1>1, OrderOfInsert, OrderOfIs
<1>3. IsDir(g)
  <2>1. IsFiniteSet(T)
    BY <1>1, FS_AddElement
  <2>2. <<>> \in Seq(Item)
    OBVIOUS
  <2> QED
    BY <2>1, <2>2 DEF IsDir
<1> DEFINE s == ChunksOf(f)
           t == ChunksOf(g)
<1>4. /\ s \in Seq(Seq(Item)) /\ Len(s) = Len(a)
      /\ \A i \in 1..Len(a) : s[i] = RecordsOf(f[a[i]].items)
  BY ChunksOfType
<1>5. /\ t \in Seq(Seq(Item)) /\ Len(t) = Len(b)
      /\ \A i \in 1..Len(b) : t[i] = RecordsOf(g[b[i]].items)
  <2>1. b = OrderOf(DOMAIN g)
    OBVIOUS
  <2> HIDE DEF b
  <2>2. /\ t \in Seq(Seq(Item)) /\ Len(t) = Len(OrderOf(DOMAIN g))
        /\ \A i \in 1..Len(OrderOf(DOMAIN g)) : t[i] = RecordsOf(g[OrderOf(DOMAIN g)[i]].items)
    BY ONLY <1>3, ChunksOfType, Zenon DEF t
  <2> QED
    BY ONLY <2>1, <2>2, Zenon
<1> HIDE DEF k, a, b, s, t
<1>6. t[k + 1] = <<>>
  <2>1. t[k + 1] = RecordsOf(<<>>)
    BY <1>2, <1>5
  <2> QED
    BY <2>1, RecordsOfNothing, Zenon
<1>7. OneMore(s, t, k)
  <2>1. Len(b) = Len(a) + 1 /\ Len(t) = Len(s) + 1
    BY <1>2, <1>4, <1>5 DEF OneMore
  <2>2. ASSUME NEW i \in 1..k PROVE t[i] = s[i]
    <3>1. i \in 1..Len(a) /\ i \in 1..Len(b)
      BY <1>2, <2>1
    <3>2. b[i] = a[i] /\ g[a[i]].items = f[a[i]].items
      BY <1>2, <3>1 DEF OneMore, S
    <3> QED
      BY <1>4, <1>5, <3>1, <3>2
  <2>3. ASSUME NEW i \in k + 1..Len(s) PROVE t[i + 1] = s[i]
    <3>1. i \in k + 1..Len(a) /\ i \in 1..Len(a) /\ i + 1 \in 1..Len(b)
      BY <1>2, <1>4, <2>1
    <3>2. b[i + 1] = a[i] /\ g[a[i]].items = f[a[i]].items
      BY <1>2, <3>1 DEF OneMore, S
    <3> QED
      BY <1>4, <1>5, <3>1, <3>2
  <2> QED
    BY <2>1, <2>2, <2>3 DEF OneMore
<1>8. FlattenSeq(t) = FlattenSeq(s)
  <2>1. k \in 0..Len(s)
    BY <1>2, <1>4
  <2> QED
    BY <1>4, <1>5, <1>6, <1>7, <2>1, FlattenSeqInsertEmpty
<1> QED
  BY <1>3, <1>8 DEF DiskOf, s, t

\* What is appended to the last file that holds any comes last.
LEMMA LastFileGrows ==
  ASSUME NEW f, NEW g, NEW m \in Name, NEW e \in Item, IsDir(f), m \in DOMAIN f, DOMAIN g = DOMAIN f,
         Adds(g[m].items, f[m].items, e), f[m].items # <<>>,
         \A n \in DOMAIN f : n # m => g[n].items = f[n].items,
         \A n \in DOMAIN f : Before(m, n) => f[n].items = <<>>
  PROVE  IsDir(g) /\ Adds(DiskOf(g), DiskOf(f), e)
<1> DEFINE S == DOMAIN f
           a == OrderOf(S)
           k == Rank(S, m) + 1
           s == ChunksOf(f)
           t == ChunksOf(g)
<1>1. S \in SUBSET Name /\ IsFiniteSet(S)
  BY DEF IsDir
<1>2. /\ Len(a) \in Nat /\ k \in 1..Len(a) /\ a[k] = m
      /\ \A i \in 1..Len(a) : a[i] \in S
      /\ \A i, j \in 1..Len(a) : i < j => Before(a[i], a[j])
  BY <1>1, OrderOfIs
<1>3. IsDir(g)
  <2>1. g[m].items \in Seq(Item)
    BY DEF IsDir, Adds
  <2> QED
    BY <2>1 DEF IsDir
<1>4. /\ s \in Seq(Seq(Item)) /\ Len(s) = Len(a)
      /\ \A i \in 1..Len(a) : s[i] = RecordsOf(f[a[i]].items)
  BY ChunksOfType
<1>5. /\ t \in Seq(Seq(Item)) /\ Len(t) = Len(a)
      /\ \A i \in 1..Len(a) : t[i] = RecordsOf(g[a[i]].items)
  <2>1. DOMAIN g = S
    OBVIOUS
  <2> QED
    BY <1>3, <2>1, ChunksOfType
<1> HIDE DEF k, a, s, t
<1>6. Adds(t[k], s[k], e)
  <2>1. Adds(RecordsOf(g[m].items), RecordsOf(f[m].items), e)
    BY RecordsOfAppend DEF IsDir
  <2> QED
    BY <1>2, <1>4, <1>5, <2>1
<1>7. SameBut(s, t, k)
  <2>1. ASSUME NEW i \in 1..Len(a), i # k PROVE a[i] # m
    <3>1. i < k \/ k < i
      BY <1>2, <2>1
    <3>2. Before(a[i], a[k]) \/ Before(a[k], a[i])
      BY <1>2, <3>1
    <3>3. ~Before(m, m)
      BY BeforeIsTotal
    <3> QED
      BY <1>2, <3>2, <3>3
  <2>2. \A i \in 1..Len(a) : i # k => g[a[i]].items = f[a[i]].items
    BY <1>2, <2>1 DEF S
  <2> QED
    <3>1. Len(t) = Len(s) /\ Len(s) = Len(a)
      BY <1>4, <1>5
    <3>2. ASSUME NEW i \in 1..Len(s), i # k PROVE t[i] = s[i]
      <4>1. i \in 1..Len(a)
        BY <3>1, <3>2, Zenon
      <4>2. g[a[i]].items = f[a[i]].items
        BY ONLY <2>2, <3>2, <4>1, Zenon
      <4>3. s[i] = RecordsOf(f[a[i]].items) /\ t[i] = RecordsOf(g[a[i]].items)
        BY ONLY <1>4, <1>5, <4>1, Zenon
      <4> QED
        BY ONLY <4>2, <4>3, Zenon
    <3> QED
      BY ONLY <3>1, <3>2, Zenon DEF SameBut
<1>8. \A i \in k + 1..Len(s) : s[i] = <<>>
  <2>1. ASSUME NEW i \in k + 1..Len(a) PROVE s[i] = <<>>
    <3>1. i \in 1..Len(a) /\ k < i
      BY <1>2
    <3>2. Before(m, a[i]) /\ a[i] \in S
      BY <1>2, <3>1
    <3>3. f[a[i]].items = <<>>
      BY <3>2
    <3> QED
      BY <1>4, <3>1, <3>3, RecordsOfNothing
  <2> QED
    BY <1>4, <2>1
<1>9. Adds(FlattenSeq(t), FlattenSeq(s), e)
  <2>1. k \in 1..Len(s)
    BY <1>2, <1>4
  <2> QED
    BY <1>4, <1>5, <1>6, <1>7, <1>8, <2>1, FlattenSeqAppendAt
<1> QED
  BY <1>3, <1>9 DEF DiskOf, s, t
-----------------------------------------------------------------------------
\* div and mod: going on by one never leads to an earlier file, and to a later
\* one where NeedOpenNewLogFile says so.
LEMMA DivMod ==
  ASSUME NEW a \in Nat, NEW L \in Nat \ {0}
  PROVE  a \div L \in Nat /\ a % L \in 0..L - 1 /\ a = L * (a \div L) + (a % L)
OBVIOUS

LEMMA QuotientGrows ==
  ASSUME NEW L \in Nat \ {0}, NEW p \in Nat, NEW q \in Nat, NEW r \in 0..L - 1, NEW s \in 0..L - 1,
         L * q + s = L * p + r + 1
  PROVE  p <= q /\ (s = 0 => p < q)
<1>1. ASSUME q < p PROVE FALSE
  <2>1. PICK d \in Nat : p = q + d + 1
    <3>1. p - q - 1 \in Nat /\ p = q + (p - q - 1) + 1
      BY <1>1
    <3> QED
      BY <3>1
  <2>2. L * p = L * q + L * d + L
    BY <2>1
  <2>3. L * d \in Nat
    OBVIOUS
  <2> QED
    BY <2>2, <2>3
<1>2. p <= q
  BY <1>1
<1>3. ASSUME s = 0, p = q PROVE FALSE
  <2>1. L * q = L * p
    BY <1>3
  <2>2. L * q \in Nat
    OBVIOUS
  <2> QED
    BY <1>3, <2>1, <2>2
<1> QED
  BY <1>2, <1>3

Block(id) == id \div LOG_PER_FILE

LEMMA NextBlock ==
  ASSUME NEW a \in Nat
  PROVE  /\ Block(a) \in Nat /\ Block(a + 1) \in Nat /\ Block(a) <= Block(a + 1)
         /\ NeedOpenNewLogFile(a + 1) => Block(a) < Block(a + 1)
<1> DEFINE L == LOG_PER_FILE
<1>1. L \in Nat \ {0} /\ a + 1 \in Nat
  BY PersistLoggerAssumption
<1>2. a \div L \in Nat /\ a % L \in 0..L - 1 /\ a = L * (a \div L) + (a % L)
  BY <1>1, DivMod
<1>3. (a + 1) \div L \in Nat /\ (a + 1) % L \in 0..L - 1 /\ a + 1 = L * ((a + 1) \div L) + ((a + 1) % L)
  BY <1>1, DivMod
<1>4. L * ((a + 1) \div L) + ((a + 1) % L) = L * (a \div L) + (a % L) + 1
  BY <1>2, <1>3
<1>5. a \div L <= (a + 1) \div L /\ ((a + 1) % L = 0 => a \div L < (a + 1) \div L)
  BY <1>1, <1>2, <1>3, <1>4, QuotientGrows
<1> QED
  BY <1>2, <1>3, <1>5 DEF Block, NeedOpenNewLogFile
-----------------------------------------------------------------------------
(***************************************************************************)
(* The current file is the last one that holds records, in the order of    *)
(* the names.                                                              *)
(***************************************************************************)
\* There is one header, and it is in the file before any record is.
OneHeader ==
  /\ \A i \in 2..Len(buffer) : buffer[i] \in LogRecord
  /\ mCurrentLog # NoFile /\ files[mCurrentLog].items # <<>> /\ buffer # <<>> =>
       buffer[1] \in LogRecord

\* Recovery has seen the epoch of every file with a header that it has not
\* still to read, and what it has to read is of no epoch before.
NamesAreSorted ==
  /\ op = "down" => mDBEpoch = 0
  /\ op = "recover" =>
       /\ \A i, j \in 1..Len(todo) : i < j => Before(todo[i], todo[j])
       /\ \A i \in 1..Len(todo) : mDBEpoch <= todo[i][1]
       /\ \A n \in DOMAIN files : files[n].items # <<>> =>
            n[1] <= mDBEpoch \/ \E i \in 1..Len(todo) : todo[i] = n

\* n is a file the process has written before its current one, or is it.
WrittenBefore(n) ==
  \/ n[1] < mDBEpoch
  \/ mCurrentLog # NoFile /\ n = mCurrentLog
  \/ mCurrentLog # NoFile /\ n[1] = mDBEpoch /\ n[2] < mCurrentLog[2]
  \/ op = "open" /\ n[1] = mDBEpoch /\ n[2] < Block(record.id)

CurrentIsLast ==
  /\ op \notin {"down", "recover"} =>
       \A n \in DOMAIN files : files[n].items # <<>> => WrittenBefore(n)
  /\ mCurrentLog # NoFile => mCurrentLog[1] = mDBEpoch /\ mCurrentLog[2] <= Block(lastId)
  /\ Appending => record.id = lastId
  /\ op = "close" => mCurrentLog[2] < Block(record.id)

OrderInv == OneHeader /\ NamesAreSorted /\ CurrentIsLast
LogInv   == FilesInv /\ HolesInv /\ OrderInv

LEMMA OrderAtFirst == Init => OrderInv
BY DEF Init, OrderInv, OneHeader, NamesAreSorted, CurrentIsLast, Appending

LEMMA DeadIsInOrder == ASSUME Dead PROVE OrderInv'
BY DEF Dead, OrderInv, OneHeader, NamesAreSorted, CurrentIsLast, Appending

LEMMA StartIsInOrder == ASSUME LogInv, Start PROVE OrderInv'
<1>1. /\ op = "down" /\ op' = "recover" /\ mDBEpoch' = mDBEpoch /\ mDBEpoch = 0 /\ files' = files
      /\ mCurrentLog' = mCurrentLog /\ mCurrentLog = NoFile /\ buffer' = buffer
      /\ todo' = OrderOf(DOMAIN files)
  BY DEF Start, LogInv, FilesInv, CurrentFile, OrderInv, NamesAreSorted, InNameOrder, OrderOf, Rank
<1>2. DOMAIN files \in SUBSET Name /\ IsFiniteSet(DOMAIN files)
  BY DEF LogInv, FilesInv, TypeOK
<1>3. /\ Len(todo') \in Nat
      /\ \A i, j \in 1..Len(todo') : i < j => Before(todo'[i], todo'[j])
      /\ \A i \in 1..Len(todo') : todo'[i] \in DOMAIN files
      /\ \A n \in DOMAIN files : \E i \in 1..Len(todo') : todo'[i] = n
  BY <1>1, <1>2, OrderOfIs
<1>4. \A i \in 1..Len(todo') : 0 <= todo'[i][1]
  BY <1>2, <1>3 DEF Name
<1>5. NamesAreSorted'
  BY <1>1, <1>3, <1>4 DEF NamesAreSorted
<1>6. OneHeader' /\ CurrentIsLast'
  BY <1>1 DEF LogInv, OrderInv, OneHeader, CurrentIsLast, Appending
<1> QED
  BY <1>5, <1>6 DEF OrderInv

LEMMA RedoLogFileIsInOrder == ASSUME LogInv, RedoLogFile PROVE OrderInv'
<1> DEFINE name == Head(todo)
<1>1. /\ op = "recover" /\ op' = "recover" /\ mCurrentLog' = NoFile /\ mCurrentLog = NoFile
      /\ buffer' = buffer /\ todo \in Seq(Name) /\ todo # <<>> /\ todo' = Tail(todo) /\ mDBEpoch \in Nat
  BY DEF RedoLogFile, LogInv, FilesInv, TypeOK, CurrentFile
<1>2. /\ Len(todo) \in Nat /\ Len(todo') = Len(todo) - 1 /\ 1 \in 1..Len(todo) /\ name = todo[1]
      /\ \A i \in 1..Len(todo') : todo'[i] = todo[i + 1] /\ i + 1 \in 1..Len(todo)
      /\ \A i \in 1..Len(todo) : i # 1 => i - 1 \in 1..Len(todo') /\ todo'[i - 1] = todo[i]
      /\ \A i \in 1..Len(todo) : todo[i] \in Name
  BY <1>1
<1>3. /\ \A i, j \in 1..Len(todo) : i < j => Before(todo[i], todo[j])
      /\ \A i \in 1..Len(todo) : mDBEpoch <= todo[i][1]
      /\ \A n \in DOMAIN files : files[n].items # <<>> =>
           n[1] <= mDBEpoch \/ \E i \in 1..Len(todo) : todo[i] = n
  BY <1>1 DEF LogInv, OrderInv, NamesAreSorted
<1>4. DOMAIN files' = DOMAIN files /\ (\A n \in DOMAIN files : files'[n].items = files[n].items)
  BY RedoLogFileKeepsItems DEF SameItems, LogInv
<1>5. \/ files[name].items = <<>> /\ mDBEpoch' = mDBEpoch
      \/ mDBEpoch' = name[1]
  BY DEF RedoLogFile
<1>6. /\ mDBEpoch <= mDBEpoch' /\ mDBEpoch' \in Nat
      /\ \A i \in 1..Len(todo) : mDBEpoch' <= todo[i][1]
  <2>1. mDBEpoch <= name[1] /\ name[1] \in Nat
    BY <1>2, <1>3 DEF Name
  <2>2. ASSUME NEW i \in 1..Len(todo) PROVE name[1] <= todo[i][1]
    <3>1. CASE i = 1
      BY <1>2, <2>1, <3>1
    <3>2. CASE i # 1
      <4>1. Before(todo[1], todo[i]) /\ todo[1] \in Name /\ todo[i] \in Name
        BY <1>2, <1>3, <3>2
      <4> QED
        BY <1>2, <4>1 DEF Before, Name
    <3> QED
      BY <3>1, <3>2
  <2> HIDE DEF name
  <2> QED
    BY <1>1, <1>3, <1>5, <2>1, <2>2
<1>7. ASSUME NEW i \in 1..Len(todo'), NEW j \in 1..Len(todo'), i < j PROVE Before(todo'[i], todo'[j])
  <2>1. i + 1 < j + 1 /\ i + 1 \in 1..Len(todo) /\ j + 1 \in 1..Len(todo)
    BY <1>2, <1>7
  <2> QED
    BY <1>2, <1>3, <2>1
<1>8. ASSUME NEW n \in DOMAIN files, files[n].items # <<>>
      PROVE  n[1] <= mDBEpoch' \/ \E i \in 1..Len(todo') : todo'[i] = n
  <2>1. n \in Name /\ n[1] \in Nat
    BY DEF LogInv, FilesInv, TypeOK, Name
  <2>2. CASE n[1] <= mDBEpoch
    BY <1>1, <1>6, <2>1, <2>2
  <2>3. CASE n = name
    BY <1>5, <1>8, <2>1, <2>3
  <2>4. ASSUME NEW i \in 1..Len(todo), todo[i] = n, n # name PROVE \E j \in 1..Len(todo') : todo'[j] = n
    BY <1>2, <2>4
  <2> HIDE DEF name
  <2> QED
    BY <1>3, <1>8, <2>2, <2>3, <2>4
<1>9. NamesAreSorted'
  <2>1. \A i \in 1..Len(todo') : mDBEpoch' <= todo'[i][1]
    BY <1>2, <1>6
  <2>2. \A n \in DOMAIN files' : files'[n].items # <<>> =>
          n[1] <= mDBEpoch' \/ \E i \in 1..Len(todo') : todo'[i] = n
    BY <1>4, <1>8
  <2> QED
    BY <1>1, <1>7, <2>1, <2>2 DEF NamesAreSorted
<1>10. OneHeader' /\ CurrentIsLast'
  BY <1>1 DEF LogInv, OrderInv, OneHeader, CurrentIsLast, Appending
<1> QED
  BY <1>9, <1>10 DEF OrderInv

LEMMA RecoverDoneIsInOrder == ASSUME LogInv, RecoverDone PROVE OrderInv'
<1>1. /\ op = "recover" /\ op' = "idle" /\ mCurrentLog' = NoFile /\ mCurrentLog = NoFile
      /\ buffer' = buffer /\ todo = <<>> /\ Len(todo) = 0 /\ files' = files
      /\ mDBEpoch \in Nat /\ mDBEpoch' = mDBEpoch + 1
  BY DEF RecoverDone, NotifyNewEpoch, LogInv, FilesInv, TypeOK, CurrentFile
<1>2. \A n \in DOMAIN files : files[n].items # <<>> => n[1] <= mDBEpoch
  BY <1>1 DEF LogInv, OrderInv, NamesAreSorted
<1>3. \A n \in DOMAIN files : n[1] \in Nat
  BY DEF LogInv, FilesInv, TypeOK, Name
<1>4. \A n \in DOMAIN files' : files'[n].items # <<>> => WrittenBefore(n)'
  BY <1>1, <1>2, <1>3 DEF WrittenBefore
<1> QED
  BY <1>1, <1>4 DEF LogInv, OrderInv, OneHeader, NamesAreSorted, CurrentIsLast, Appending

\* The steps of a process that has recovered, as far as the order of its files
\* is concerned: only the current one grows, and only its own epoch counts.
Goes ==
  /\ op \notin {"down", "recover"} /\ op' \notin {"down", "recover", "open", "close"}
  /\ mDBEpoch' = mDBEpoch /\ mCurrentLog' = mCurrentLog /\ record' = record /\ lastId' = lastId
  /\ mCurrentLog # NoFile
  /\ Appending' => Appending
  /\ DOMAIN files' = DOMAIN files
  /\ \A n \in DOMAIN files : n # mCurrentLog => files'[n].items = files[n].items

LEMMA GoingIsInOrder ==
  ASSUME LogInv, Goes
  PROVE  NamesAreSorted' /\ CurrentIsLast'
<1>1. op # "open"
  BY DEF LogInv, FilesInv, CurrentFile, Goes
<1>2. ASSUME NEW n \in DOMAIN files', files'[n].items # <<>> PROVE WrittenBefore(n)'
  <2>1. CASE n = mCurrentLog
    BY <2>1 DEF Goes, WrittenBefore
  <2>2. CASE n # mCurrentLog
    <3>1. n \in DOMAIN files /\ files[n].items # <<>>
      BY <1>2, <2>2 DEF Goes
    <3>2. WrittenBefore(n)
      BY <3>1 DEF LogInv, OrderInv, CurrentIsLast, Goes
    <3> QED
      BY <1>1, <3>2 DEF WrittenBefore, Goes
  <2> QED
    BY <2>1, <2>2
<1>3. NamesAreSorted'
  BY DEF NamesAreSorted, Goes
<1>4. /\ mCurrentLog' # NoFile => mCurrentLog'[1] = mDBEpoch' /\ mCurrentLog'[2] <= Block(lastId')
      /\ Appending' => record'.id = lastId'
      /\ op' # "close"
  BY DEF LogInv, OrderInv, CurrentIsLast, Goes
<1> QED
  BY <1>2, <1>3, <1>4 DEF CurrentIsLast

LEMMA WriteLogIsInOrder == ASSUME LogInv, WriteLog PROVE OrderInv'
<1>1. /\ op = "idle" /\ op' \in {"open", "close", "append"} /\ mCurrentLog' = mCurrentLog
      /\ buffer' = buffer /\ files' = files /\ mDBEpoch' = mDBEpoch
      /\ lastId \in Nat /\ lastId' = lastId + 1 /\ record'.id = lastId + 1
      /\ op' = "close" => mCurrentLog # NoFile /\ NeedOpenNewLogFile(lastId + 1)
      /\ op' = "open" => mCurrentLog = NoFile
  BY DEF WriteLog, LogInv, FilesInv, TypeOK
<1>2. /\ Block(lastId) \in Nat /\ Block(lastId + 1) \in Nat /\ Block(lastId) <= Block(lastId + 1)
      /\ NeedOpenNewLogFile(lastId + 1) => Block(lastId) < Block(lastId + 1)
  BY <1>1, NextBlock
<1>3. mCurrentLog # NoFile => mCurrentLog[1] = mDBEpoch /\ mCurrentLog[2] \in Nat /\ mCurrentLog[2] <= Block(lastId)
  BY DEF LogInv, FilesInv, TypeOK, Name, OrderInv, CurrentIsLast
<1>4. ASSUME NEW n \in DOMAIN files', files'[n].items # <<>> PROVE WrittenBefore(n)'
  <2>1. WrittenBefore(n)
    BY <1>1, <1>4 DEF LogInv, OrderInv, CurrentIsLast
  <2> QED
    BY <1>1, <2>1 DEF WrittenBefore
<1>5. CurrentIsLast'
  <2>1. mCurrentLog' # NoFile => mCurrentLog'[1] = mDBEpoch' /\ mCurrentLog'[2] <= Block(lastId')
    BY <1>1, <1>2, <1>3
  <2>2. op' = "close" => mCurrentLog'[2] < Block(record'.id)
    BY <1>1, <1>2, <1>3
  <2> QED
    BY <1>1, <1>4, <2>1, <2>2 DEF CurrentIsLast
<1> QED
  BY <1>1, <1>5 DEF LogInv, OrderInv, OneHeader, NamesAreSorted
-----------------------------------------------------------------------------
(***************************************************************************)
(* The steps of the log.                                                   *)
(***************************************************************************)
LogStep == [Durable!LogNext]_<<Contents, Len(OnDisk)>>

LEMMA LogTypes ==
  ASSUME FilesInv
  PROVE  /\ IsDir(files) /\ buffer \in Seq(Item)
         /\ OnDisk \in Seq(Item) /\ RecordsOf(buffer) \in Seq(Item) /\ Contents \in Seq(Item)
<1>1. DOMAIN files \in SUBSET Name /\ IsFiniteSet(DOMAIN files) /\ buffer \in Seq(Item)
  BY DEF FilesInv, TypeOK, Item
<1>2. \A n \in DOMAIN files : files[n].items \in Seq(Item)
  BY DEF FilesInv, TypeOK, File, Item
<1>3. IsDir(files)
  BY <1>1, <1>2 DEF IsDir
<1>4. OnDisk \in Seq(Item)
  BY <1>3, OnDiskIs, DiskOfType
<1>5. RecordsOf(buffer) \in Seq(Item)
  BY <1>1, RecordsOfType
<1> QED
  BY <1>1, <1>3, <1>4, <1>5 DEF Contents

\* The files keep their items, and the buffer its own.
LEMMA ItemsStay ==
  ASSUME FilesInv, SameItems
  PROVE  /\ OnDisk' = OnDisk
         /\ buffer' = buffer => LogStep
<1>1. OnDisk' = OnDisk
  <2>1. DOMAIN files' = DOMAIN files /\ \A n \in DOMAIN files : RecordsOf(files'[n].items) = RecordsOf(files[n].items)
    BY DEF SameItems
  <2> QED
    BY <2>1, LogTypes, OnDiskIs, SameRecords
<1>2. ASSUME buffer' = buffer PROVE Contents' = Contents
  BY <1>1, <1>2 DEF Contents
<1> QED
  BY <1>1, <1>2 DEF LogStep

LEMMA RecordTyped == ASSUME LogInv, Appending PROVE record \in LogRecord
<1>1. record.seq > 0 /\ record \in LogRecord \cup {Header}
  BY DEF LogInv, HolesInv, RecordIsNext, FilesInv, TypeOK, NoRecord
<1> QED
  BY <1>1 DEF Header

\* A record goes into the buffer.
LEMMA LogIsAppended ==
  ASSUME LogInv, SameItems, Appending, Adds(buffer', buffer, record)
  PROVE  LogStep
<1>1. record \in LogRecord /\ record \in Item /\ record # Header
  BY RecordTyped, HeaderIsNoRecord DEF Item
<1>2. /\ OnDisk' = OnDisk /\ buffer \in Seq(Item)
      /\ OnDisk \in Seq(Item) /\ RecordsOf(buffer) \in Seq(Item) /\ Contents \in Seq(Item)
  BY ItemsStay, LogTypes DEF LogInv
<1>3. Adds(RecordsOf(buffer'), RecordsOf(buffer), record)
  BY <1>1, <1>2, RecordsOfAppend
<1>4. Adds(OnDisk \o RecordsOf(buffer'), OnDisk \o RecordsOf(buffer), record)
  BY <1>1, <1>2, <1>3, AppendBehind
<1>5. Adds(Contents', Contents, record)
  BY <1>2, <1>4, Zenon DEF Contents
<1> DEFINE c == Contents
           d == Contents'
<1>6. d # <<>> /\ d[Len(d)] = record /\ d = Append(c, record)
  <2>1. c \in Seq(Item) /\ Adds(d, c, record)
    BY <1>2, <1>5
  <2> HIDE DEF c, d
  <2> QED
    BY <1>1, <2>1 DEF Adds
<1>7. Durable!LogAppend(record, FALSE)
  BY <1>2, <1>6 DEF Durable!LogAppend
<1>8. Durable!LogGrows
  BY <1>1, <1>6, <1>7 DEF Durable!LogGrows
<1> QED
  BY <1>8 DEF LogStep, Durable!LogNext

\* The process dies: what is in the files is all there is.
LEMMA LogIsCrashed ==
  ASSUME LogInv, UNCHANGED files, Dead
  PROVE  LogStep
<1>1. SameItems
  BY DEF SameItems
<1>2. /\ OnDisk' = OnDisk
      /\ OnDisk \in Seq(Item) /\ RecordsOf(buffer) \in Seq(Item)
  BY <1>1, ItemsStay, LogTypes DEF LogInv
<1>3. Contents' = OnDisk
  <2>1. RecordsOf(buffer') = <<>>
    BY RecordsOfNothing DEF Dead
  <2> QED
    BY <1>2, <2>1, ConcatEmptySeq DEF Contents
<1> DEFINE o == OnDisk
           r == RecordsOf(buffer)
<1>4. Len(o) \in Len(o)..Len(o \o r) /\ SubSeq(o \o r, 1, Len(o)) = o
  <2> HIDE DEF o, r
  <2>1. o \in Seq(Item) /\ r \in Seq(Item)
    BY <1>2 DEF o, r
  <2>2. /\ Len(o) \in Nat /\ Len(r) \in Nat /\ o \o r \in Seq(Item) /\ Len(o \o r) = Len(o) + Len(r)
        /\ \A i \in 1..Len(o) : (o \o r)[i] = o[i]
    BY <2>1
  <2>3. /\ SubSeq(o \o r, 1, Len(o)) \in Seq(Item) /\ Len(SubSeq(o \o r, 1, Len(o))) = Len(o)
        /\ \A i \in 1..Len(o) : SubSeq(o \o r, 1, Len(o))[i] = o[i]
    BY <2>2
  <2> QED
    BY <2>1, <2>2, <2>3, SameElements
<1>5. Durable!LogCrash
  <2>1. /\ Len(OnDisk) \in Len(OnDisk)..Len(Contents)
        /\ Contents' = SubSeq(Contents, 1, Len(OnDisk)) /\ Len(OnDisk)' = Len(OnDisk)
    BY <1>2, <1>3, <1>4, Zenon DEF Contents
  <2> QED
    BY <2>1, Zenon DEF Durable!LogCrash
<1> QED
  BY <1>5, Zenon DEF LogStep, Durable!LogNext

\* The steps that only go on, and those that sync.
LEMMA QuietStepsKeepLog ==
  ASSUME LogInv, BufferIsFull \/ DirectDone \/ FlushLog \/ FlushDone
  PROVE  OrderInv' /\ LogStep
<1>1. /\ op \in {"append", "direct", "idle", "flush"} /\ op' \in {"spill", "idle", "flush"}
      /\ op' = "spill" => op = "append"
      /\ mCurrentLog # NoFile /\ mCurrentLog \in DOMAIN files
      /\ buffer' = buffer /\ mDBEpoch' = mDBEpoch /\ mCurrentLog' = mCurrentLog
      /\ record' = record /\ lastId' = lastId
  BY DEF BufferIsFull, DirectDone, FlushLog, FlushDone, LogInv, FilesInv, TypeOK, CurrentFile, procVars
<1>2. SameItems
  <2>1. CASE UNCHANGED files
    BY <2>1 DEF SameItems
  <2>2. CASE Sync
    BY <1>1, <2>2 DEF Sync, SameItems, LogInv, FilesInv, TypeOK, File
  <2> QED
    BY <2>1, <2>2 DEF BufferIsFull, DirectDone, FlushLog, FlushDone
<1>3. Goes
  BY <1>1, <1>2 DEF Goes, SameItems, Appending
<1>4. OneHeader'
  BY <1>1, <1>2 DEF OneHeader, SameItems, LogInv, OrderInv
<1> QED
  BY <1>1, <1>2, <1>3, <1>4, GoingIsInOrder, ItemsStay DEF OrderInv, LogInv

LEMMA AppendKeepsLog ==
  ASSUME LogInv, Append1 \/ SpillDone
  PROVE  OrderInv' /\ LogStep
<1>1. /\ op \in {"append", "spill"} /\ op' \in {"idle", "direct"} /\ Appending
      /\ mCurrentLog # NoFile /\ mCurrentLog \in DOMAIN files
      /\ mDBEpoch' = mDBEpoch /\ mCurrentLog' = mCurrentLog
      /\ record' = record /\ lastId' = lastId
  BY DEF Append1, SpillDone, Appending, LogInv, FilesInv, TypeOK, CurrentFile
<1>2. SameItems
  <2>1. CASE UNCHANGED files
    BY <2>1 DEF SameItems
  <2>2. ASSUME NEW cut \in BOOLEAN, files' = [files EXCEPT ![mCurrentLog].torn = cut] PROVE SameItems
    BY <1>1, <2>2 DEF SameItems, LogInv, FilesInv, TypeOK, File
  <2> QED
    BY <2>1, <2>2 DEF Append1, SpillDone
<1>3. record \in LogRecord /\ buffer \in Seq(Item) /\ record \in Item
  BY <1>1, RecordTyped, LogTypes DEF LogInv, Item
<1>4. Adds(buffer', buffer, record)
  <2>1. CASE Append1
    BY <2>1 DEF Append1, Adds
  <2>2. CASE SpillDone
    <3>1. <<record>> = Append(<<>>, record)
      OBVIOUS
    <3> QED
      BY <2>2, <3>1 DEF SpillDone, Adds
  <2> QED
    BY <2>1, <2>2
<1>5. Goes
  BY <1>1, <1>2 DEF Goes, SameItems, Appending
<1>6. OneHeader'
  <2>1. /\ Len(buffer) \in Nat /\ Len(buffer') = Len(buffer) + 1 /\ buffer'[Len(buffer')] = record
        /\ \A i \in 1..Len(buffer) : buffer'[i] = buffer[i]
        /\ buffer # <<>> => Len(buffer) >= 1
        /\ buffer = <<>> => Len(buffer) = 0
    BY <1>3, <1>4 DEF Adds
  <2>2. ASSUME NEW i \in 2..Len(buffer') PROVE buffer'[i] \in LogRecord
    <3>1. (i \in 2..Len(buffer) /\ i \in 1..Len(buffer)) \/ i = Len(buffer')
      BY <2>1
    <3> QED
      BY <1>3, <2>1, <3>1 DEF LogInv, OrderInv, OneHeader
  <2>3. ASSUME files[mCurrentLog].items # <<>> PROVE buffer'[1] \in LogRecord
    <3>1. CASE buffer = <<>>
      BY <1>3, <2>1, <3>1
    <3>2. CASE buffer # <<>>
      <4>1. 1 \in 1..Len(buffer)
        BY <2>1, <3>2
      <4> QED
        BY <1>1, <2>1, <2>3, <3>2, <4>1 DEF LogInv, OrderInv, OneHeader
    <3> QED
      BY <3>1, <3>2
  <2> QED
    BY <1>1, <1>2, <2>2, <2>3 DEF OneHeader, SameItems
<1> QED
  BY <1>1, <1>2, <1>4, <1>5, <1>6, GoingIsInOrder, LogIsAppended DEF OrderInv

LEMMA CloseKeepsLog ==
  ASSUME LogInv, Close
  PROVE  OrderInv' /\ LogStep
<1>1. /\ op = "close" /\ op' = "open" /\ buffer = <<>> /\ buffer' = <<>> /\ Sync
      /\ mCurrentLog # NoFile /\ mCurrentLog \in DOMAIN files /\ mCurrentLog' = NoFile
      /\ mDBEpoch' = mDBEpoch /\ record' = record /\ lastId' = lastId
  BY DEF Close, WrittenOut, LogInv, FilesInv, TypeOK, CurrentFile
<1>2. SameItems
  BY <1>1 DEF Sync, SameItems, LogInv, FilesInv, TypeOK, File
<1>3. /\ mCurrentLog[1] = mDBEpoch /\ mCurrentLog[2] < Block(record.id) /\ record.id = lastId
      /\ mCurrentLog[2] \in Nat /\ Block(record.id) \in Nat
  <2>1. mCurrentLog[1] = mDBEpoch /\ mCurrentLog[2] < Block(record.id) /\ record.id = lastId
    BY <1>1 DEF LogInv, OrderInv, CurrentIsLast, Appending
  <2>2. mCurrentLog[2] \in Nat /\ lastId \in Nat
    BY <1>1 DEF LogInv, FilesInv, TypeOK, Name
  <2> QED
    BY <2>1, <2>2, NextBlock
<1>4. ASSUME NEW n \in DOMAIN files', files'[n].items # <<>> PROVE WrittenBefore(n)'
  <2>1. WrittenBefore(n) /\ n \in DOMAIN files
    BY <1>1, <1>2, <1>4 DEF LogInv, OrderInv, CurrentIsLast, SameItems
  <2>2. n[2] \in Nat
    BY <2>1 DEF LogInv, FilesInv, TypeOK, Name
  <2>3. n[1] < mDBEpoch \/ (n[1] = mDBEpoch /\ n[2] < Block(record.id))
    BY <1>1, <1>3, <2>1, <2>2 DEF WrittenBefore
  <2> QED
    BY <1>1, <2>3 DEF WrittenBefore
<1>5. CurrentIsLast'
  BY <1>1, <1>3, <1>4 DEF CurrentIsLast
<1>6. OneHeader' /\ NamesAreSorted'
  BY <1>1 DEF OneHeader, NamesAreSorted
<1> QED
  BY <1>1, <1>2, <1>5, <1>6, ItemsStay DEF OrderInv, LogInv

LEMMA OpenNewLogFileKeepsLog ==
  ASSUME LogInv, OpenNewLogFile
  PROVE  OrderInv' /\ LogStep
<1>1. /\ op = "open" /\ op' = "append" /\ mCurrentLog = NoFile /\ buffer = <<>> /\ buffer' = <<Header>>
      /\ NewName \notin DOMAIN files /\ CreateFile /\ mCurrentLog' = NewName
      /\ mDBEpoch' = mDBEpoch /\ record' = record /\ lastId' = lastId /\ record.id = lastId
      /\ mDBEpoch \in Nat /\ lastId \in Nat
  BY DEF OpenNewLogFile, LogInv, FilesInv, TypeOK, CurrentFile, HolesInv, BufferHasNoHoles, OrderInv,
         CurrentIsLast, Appending
<1>2. NewName = <<mDBEpoch, Block(lastId)>> /\ NewName \in Name /\ Block(lastId) \in Nat
  BY <1>1, NextBlock DEF NewName, Block, Name
<1>3. /\ DOMAIN files' = DOMAIN files \cup {NewName} /\ files'[NewName].items = <<>>
      /\ \A n \in DOMAIN files : files'[n].items = files[n].items
  BY <1>1 DEF CreateFile, NewFile
<1>4. OnDisk' = OnDisk
  BY <1>1, <1>2, <1>3, LogTypes, OnDiskIs, EmptyFileMore DEF LogInv
<1>5. RecordsOf(buffer') = RecordsOf(buffer)
  <2>1. buffer' \in Seq(Item) /\ buffer' # <<>> /\ Head(buffer') = Header /\ Tail(buffer') = <<>>
    BY <1>1 DEF Item
  <2> QED
    BY <1>1, <2>1, RecordsOfType, RecordsOfNothing
<1>6. LogStep
  BY <1>4, <1>5 DEF LogStep, Contents
<1>7. ASSUME NEW n \in DOMAIN files', files'[n].items # <<>> PROVE WrittenBefore(n)'
  <2>1. n \in DOMAIN files /\ files[n].items # <<>>
    BY <1>3, <1>7
  <2>2. WrittenBefore(n)
    BY <1>1, <2>1 DEF LogInv, OrderInv, CurrentIsLast
  <2>3. n[1] < mDBEpoch \/ (n[1] = mDBEpoch /\ n[2] < Block(lastId))
    BY <1>1, <2>2 DEF WrittenBefore
  <2>4. NewName[2] = Block(lastId) /\ NewName # NoFile
    BY <1>2, PersistLoggerAssumption DEF Name
  <2> QED
    BY <1>1, <2>3, <2>4 DEF WrittenBefore
<1>8. CurrentIsLast'
  BY <1>1, <1>2, <1>7 DEF CurrentIsLast
<1>9. OneHeader' /\ NamesAreSorted'
  BY <1>1, <1>3 DEF OneHeader, NamesAreSorted
<1> QED
  BY <1>6, <1>8, <1>9 DEF OrderInv

\* What is written next is the header of a file without one, and a record
\* otherwise; the file it goes to is the last one that holds any.
LEMMA PwriteKeepsLog ==
  ASSUME LogInv, Pwrite
  PROVE  OrderInv' /\ LogStep
<1> DEFINE file == files[mCurrentLog]
           item == Head(buffer)
<1>1. /\ op \in {"close", "spill", "direct", "flush"} /\ op' = op /\ buffer # <<>>
      /\ mCurrentLog # NoFile /\ mCurrentLog \in DOMAIN files /\ mCurrentLog' = mCurrentLog
      /\ mDBEpoch' = mDBEpoch /\ record' = record /\ lastId' = lastId /\ todo' = todo
      /\ mCurrentLog \in Name
  BY DEF Pwrite, LogInv, FilesInv, TypeOK, CurrentFile
<1>2. CASE files' = [files EXCEPT ![mCurrentLog].torn = TRUE] /\ UNCHANGED buffer
  <2>1. SameItems
    BY <1>1, <1>2 DEF SameItems, LogInv, FilesInv, TypeOK, File
  <2>2. OneHeader' /\ NamesAreSorted'
    BY <1>1, <1>2, <2>1 DEF OneHeader, NamesAreSorted, SameItems, LogInv, OrderInv
  <2>3. CurrentIsLast'
    BY <1>1, <2>1 DEF CurrentIsLast, WrittenBefore, Appending, SameItems, LogInv, OrderInv
  <2> QED
    BY <1>2, <2>1, <2>2, <2>3, ItemsStay DEF OrderInv, LogInv
<1>3. CASE /\ files' = [files EXCEPT ![mCurrentLog].torn = FALSE,
                                     ![mCurrentLog].items = Append(@, Head(buffer))]
           /\ buffer' = Tail(buffer)
  <2>1. /\ DOMAIN files' = DOMAIN files
        /\ Adds(files'[mCurrentLog].items, file.items, item)
        /\ \A n \in DOMAIN files : n # mCurrentLog => files'[n].items = files[n].items
    BY <1>1, <1>3 DEF Adds, LogInv, FilesInv, TypeOK, File
  <2>2. /\ IsDir(files) /\ buffer \in Seq(Item) /\ OnDisk \in Seq(Item) /\ Contents \in Seq(Item)
        /\ file.items \in Seq(Item)
    BY <1>1, LogTypes DEF LogInv, IsDir
  <2>3. /\ item \in Item /\ item = buffer[1] /\ Len(buffer) \in Nat /\ Len(buffer) >= 1
        /\ buffer' \in Seq(Item) /\ Len(buffer') = Len(buffer) - 1
        /\ \A i \in 1..Len(buffer') : buffer'[i] = buffer[i + 1] /\ i + 1 \in 2..Len(buffer)
    BY <1>1, <1>3, <2>2
  <2>4. \A i \in 1..Len(buffer') : buffer'[i] \in LogRecord
    BY <2>3 DEF LogInv, OrderInv, OneHeader
  <2>5. RecordsOf(buffer') = buffer'
    <3>1. CASE buffer' = <<>>
      BY <3>1, RecordsOfNothing
    <3>2. CASE buffer' # <<>>
      <4>1. Head(buffer') = buffer'[1] /\ 1 \in 1..Len(buffer')
        BY <2>3, <3>2
      <4>2. Head(buffer') # Header
        BY <2>4, <4>1, HeaderIsNoRecord
      <4> QED
        BY <2>3, <3>2, <4>2, RecordsOfType
    <3> QED
      BY <3>1, <3>2
  <2>6. OneHeader'
    <3>1. \A i \in 2..Len(buffer') : buffer'[i] \in LogRecord
      BY <2>3, <2>4
    <3>2. buffer' # <<>> => 1 \in 1..Len(buffer')
      BY <2>3
    <3> QED
      BY <2>4, <3>1, <3>2 DEF OneHeader
  <2>7. NamesAreSorted'
    BY <1>1 DEF NamesAreSorted
  <2>8. CurrentIsLast'
    <3>1. ASSUME NEW n \in DOMAIN files', files'[n].items # <<>> PROVE WrittenBefore(n)'
      <4>1. CASE n = mCurrentLog
        BY <1>1, <4>1 DEF WrittenBefore
      <4>2. CASE n # mCurrentLog
        <5>1. WrittenBefore(n)
          BY <1>1, <2>1, <3>1, <4>2 DEF LogInv, OrderInv, CurrentIsLast
        <5> QED
          BY <1>1, <5>1 DEF WrittenBefore
      <4> QED
        BY <4>1, <4>2
    <3> QED
      BY <1>1, <3>1 DEF LogInv, OrderInv, CurrentIsLast, Appending
  <2>9. CASE file.items = <<>>
    <3>1. item = Header
      BY <1>1, <2>3, <2>9 DEF LogInv, FilesInv, HeaderFirst
    <3>2. RecordsOf(files'[mCurrentLog].items) = RecordsOf(file.items)
      <4> DEFINE g == files'[mCurrentLog].items
      <4>1. Adds(g, <<>>, Header)
        BY <2>1, <2>9, <3>1
      <4> HIDE DEF g
      <4>2. g \in Seq(Item) /\ g # <<>> /\ Head(g) = Header /\ Tail(g) = <<>>
        BY <4>1 DEF Adds, Item
      <4>3. RecordsOf(g) = <<>>
        BY <4>2, RecordsOfType
      <4> QED
        BY <2>9, <4>3, RecordsOfNothing DEF g
    <3>3. OnDisk' = OnDisk
      <4>1. \A n \in DOMAIN files : RecordsOf(files'[n].items) = RecordsOf(files[n].items)
        BY <2>1, <3>2
      <4> QED
        BY <2>1, <2>2, <4>1, OnDiskIs, SameRecords
    <3>4. RecordsOf(buffer) = Tail(buffer)
      BY <1>1, <2>2, <3>1, RecordsOfType
    <3>5. Contents' = Contents
      BY <1>3, <2>5, <3>3, <3>4 DEF Contents
    <3> QED
      BY <2>6, <2>7, <2>8, <3>3, <3>5 DEF OrderInv, LogStep
  <2>10. CASE file.items # <<>>
    <3>1. item # Header
      BY <1>1, <2>3, <2>10, HeaderIsNoRecord DEF LogInv, OrderInv, OneHeader
    <3>2. RecordsOf(buffer) = buffer
      BY <1>1, <2>2, <3>1, RecordsOfType
    <3>3. ASSUME NEW n \in DOMAIN files, Before(mCurrentLog, n) PROVE files[n].items = <<>>
      <4>1. ~Before(n, mCurrentLog) /\ n # mCurrentLog /\ n \in Name
        BY <1>1, <2>2, <3>3, BeforeIsTotal DEF IsDir
      <4>2. mCurrentLog[1] = mDBEpoch /\ op # "open" /\ op \notin {"down", "recover"}
        BY <1>1 DEF LogInv, OrderInv, CurrentIsLast
      <4>3. ~WrittenBefore(n)
        BY <4>1, <4>2 DEF WrittenBefore, Before
      <4> QED
        BY <4>2, <4>3 DEF LogInv, OrderInv, CurrentIsLast
    <3>4. Adds(OnDisk', OnDisk, item)
      BY <1>1, <2>1, <2>2, <2>3, <2>10, <3>3, LastFileGrows, OnDiskIs
    <3> DEFINE o == OnDisk
               p == OnDisk'
               b == buffer
    <3>5. p \o Tail(b) = o \o b /\ Len(p) \in Len(o)..Len(o \o b)
      <4>1. o \in Seq(Item) /\ b \in Seq(Item) /\ b # <<>> /\ item \in Item /\ item = b[1] /\ Adds(p, o, item)
        BY <1>1, <2>2, <2>3, <3>4
      <4> HIDE DEF o, p, b, item
      <4>2. p \in Seq(Item) /\ Len(p) = Len(o) + 1 /\ Len(o) \in Nat /\ p[Len(o) + 1] = item
            /\ \A i \in 1..Len(o) : p[i] = o[i]
        BY <4>1 DEF Adds
      <4>3. /\ Tail(b) \in Seq(Item) /\ Len(b) \in Nat /\ Len(b) >= 1 /\ Len(Tail(b)) = Len(b) - 1
            /\ \A i \in 1..Len(b) - 1 : Tail(b)[i] = b[i + 1]
        BY <4>1
      <4>4. /\ p \o Tail(b) \in Seq(Item) /\ Len(p \o Tail(b)) = Len(o) + Len(b)
            /\ o \o b \in Seq(Item) /\ Len(o \o b) = Len(o) + Len(b)
        BY <4>1, <4>2, <4>3
      <4>5. /\ \A i \in 1..Len(p) : (p \o Tail(b))[i] = p[i]
            /\ \A i \in 1..Len(b) - 1 : (p \o Tail(b))[Len(p) + i] = Tail(b)[i]
        BY <4>2, <4>3, ConcatElements
      <4>6. /\ \A i \in 1..Len(o) : (o \o b)[i] = o[i]
            /\ \A i \in 1..Len(b) : (o \o b)[Len(o) + i] = b[i]
        BY <4>1, <4>3, ConcatElements
      <4>7. ASSUME NEW i \in 1..Len(o) + Len(b) PROVE (p \o Tail(b))[i] = (o \o b)[i]
        <5>1. CASE i \in 1..Len(o)
          <6>1. i \in 1..Len(p)
            BY <4>2, <5>1
          <6> QED
            BY <4>2, <4>5, <4>6, <5>1, <6>1
        <5>2. CASE i = Len(o) + 1
          <6>1. i \in 1..Len(p) /\ 1 \in 1..Len(b)
            BY <4>2, <4>3, <5>2
          <6> QED
            BY <4>1, <4>2, <4>5, <4>6, <5>2, <6>1
        <5>3. CASE i > Len(o) + 1
          <6>1. PICK j \in 1..Len(b) - 1 : i = Len(o) + 1 + j
            <7>1. i - Len(o) - 1 \in 1..Len(b) - 1 /\ i = Len(o) + 1 + (i - Len(o) - 1)
              BY <4>2, <4>3, <5>3
            <7> QED
              BY <7>1
          <6>2. j + 1 \in 1..Len(b) /\ i = Len(p) + j /\ i = Len(o) + (j + 1)
            BY <4>2, <4>3, <6>1
          <6> QED
            BY <4>3, <4>5, <4>6, <6>2
        <5> QED
          BY <4>2, <4>3, <5>1, <5>2, <5>3
      <4>8. p \o Tail(b) = o \o b
        BY <4>4, <4>7, SameElements
      <4> QED
        BY <4>2, <4>3, <4>4, <4>8
    <3>6. Contents = o \o b /\ Contents' = p \o Tail(b)
      BY <1>3, <2>5, <3>2 DEF Contents
    <3>7. Durable!LogSpill
      BY <3>5, <3>6, Zenon DEF Durable!LogSpill
    <3> QED
      BY <2>6, <2>7, <2>8, <3>7, Zenon DEF OrderInv, LogStep, Durable!LogNext
  <2> QED
    BY <2>9, <2>10
<1> QED
  BY <1>2, <1>3 DEF Pwrite
-----------------------------------------------------------------------------
LEMMA LogAtFirst == Init => Durable!LogInit
<1> SUFFICES ASSUME Init PROVE Durable!LogInit
  OBVIOUS
<1>1. FilesInv /\ DOMAIN files = {} /\ buffer = <<>>
  BY InitHolds DEF Init
<1>2. ChunksOf(files) = <<>>
  <2>1. Len(OrderOf(DOMAIN files)) = 0
    <3>1. {} \in SUBSET Name /\ IsFiniteSet({}) /\ Cardinality({}) = 0
      BY FS_EmptySet
    <3> QED
      BY <1>1, <3>1, OrderOfIs
  <2>2. ChunksOf(files) \in Seq(Seq(Item)) /\ Len(ChunksOf(files)) = 0
    BY <1>1, <2>1, LogTypes, ChunksOfType
  <2> QED
    BY <2>2
<1>3. OnDisk = <<>>
  BY <1>2, OnDiskIs, FlattenSeqEmpty DEF DiskOf
<1>4. Contents = <<>>
  BY <1>1, <1>3, RecordsOfNothing DEF Contents
<1>5. <<>> \in Seq(LogRecord) /\ Len(<<>>) = 0
  OBVIOUS
<1> QED
  BY <1>3, <1>4, <1>5 DEF Durable!LogInit

LEMMA OrderInvStep == ASSUME LogInv, [Next]_vars PROVE OrderInv' /\ (PowerLoss \/ LogStep)
<1>1. ASSUME UNCHANGED files, buffer' = buffer PROVE LogStep
  BY <1>1, ItemsStay DEF SameItems, LogInv
<1>2. CASE UNCHANGED vars
  <2>1. OrderInv'
    BY <1>2 DEF vars, procVars, histVars, LogInv, OrderInv, OneHeader, NamesAreSorted, CurrentIsLast,
       WrittenBefore, Appending
  <2> QED
    BY <1>1, <1>2, <2>1 DEF vars, procVars
<1>3. CASE Start
  BY <1>1, <1>3, StartIsInOrder DEF Start
<1>4. CASE RedoLogFile
  <2>1. buffer' = buffer
    BY <1>4 DEF RedoLogFile
  <2> QED
    BY <1>4, <2>1, RedoLogFileIsInOrder, RedoLogFileKeepsItems, ItemsStay DEF LogInv
<1>5. CASE RecoverDone
  BY <1>1, <1>5, RecoverDoneIsInOrder DEF RecoverDone
<1>6. CASE WriteLog
  BY <1>1, <1>6, WriteLogIsInOrder DEF WriteLog
<1>7. CASE Crash \/ OpenFails
  BY <1>7, DeadIsInOrder, LogIsCrashed DEF Crash, OpenFails
<1>8. CASE PowerLoss
  BY <1>8, DeadIsInOrder DEF PowerLoss
<1> QED
  BY <1>2, <1>3, <1>4, <1>5, <1>6, <1>7, <1>8, OpenNewLogFileKeepsLog, AppendKeepsLog,
     QuietStepsKeepLog, PwriteKeepsLog, CloseKeepsLog DEF Next

LEMMA LogInvHolds == Spec => []LogInv
<1>1. Init => LogInv
  BY InitHolds, NoHolesAtFirst, OrderAtFirst DEF LogInv
<1>2. LogInv /\ [Next]_vars => LogInv'
  BY StepHolds, HolesInvStays, OrderInvStep DEF LogInv
<1> QED
  BY <1>1, <1>2, PTL DEF Spec

\* PersistLogger, FileLog and FileHandler keep the log LogCenter relies on: a
\* WriteLog puts one record behind all others, whatever file or buffer it goes
\* to; no death of the process takes back what pwrite was given; and recovery
\* reads the files in the order they were written in, across all processes.
THEOREM FilesImplementDurableLog == Spec => FilesAreDurableLog
<1>1. Init => Durable!LogInit
  BY LogAtFirst
<1>2. LogInv /\ [Next]_vars => [PowerLoss \/ Durable!LogNext]_<<Contents, Len(OnDisk)>>
  BY OrderInvStep DEF LogStep
<1> QED
  BY <1>1, <1>2, LogInvHolds, PTL DEF Spec, FilesAreDurableLog
=============================================================================
