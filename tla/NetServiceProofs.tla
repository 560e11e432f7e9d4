-------------------------- MODULE NetServiceProofs --------------------------
(***************************************************************************)
(* NetServiceInv's ControlInv is an inductive invariant of NetService, for *)
(* any number of ends, descriptors, connections and units.  Each named     *)
(* part of it has a lemma that says a step keeps it; the proof goes        *)
(* through the steps of Next.  The theorems at the end conclude the        *)
(* service's safety properties from it.                                    *)
(***************************************************************************)
EXTENDS NetServiceInv, WellFoundedInduction, TLAPS

AllButFault == <<netVars, connVars, drvVars, svcVars, at, srvVars>>

\* The steps that do not end the process.
DriverMoves ==
  \/ Accept \/ FindReady \/ CallHandler
  \/ Alive(Drv) /\ (ReadData \/ PreRecv \/ RecvData \/ RecvGetsNothing)
ConnectionMoves(t) ==
  \/ CloseUnregistersRead(t) \/ CloseSocket(t) \/ EnqueueDrop(t)
  \/ (t = Drv => Alive(Drv)) /\ WriteData(t)
  \/ SendData(t) \/ Unlock(t)
RegisterMoves(t) == InsertConnection(t) \/ RegistReadEvent(t) \/ RegistWriteEvent(t)
ServiceMoves ==
  \/ AcceptConnection \/ ProcessRecv \/ SendMsg \/ EnqueueMsg
  \/ DropConnection \/ FreeSocket \/ DeleteConnection
  \/ StopListener \/ DropNextConnection \/ AllDropped \/ DriverStop \/ JoinDriver
AppMoves == (\E r \in Remotes : StartConnectRemote(r)) \/ Stop \/ StopReturns

LEMMA Steps ==
  ASSUME [Next]_vars, ~UNCHANGED AllButFault
  PROVE  /\ fault = "none" /\ fault' = "none"
         /\ \/ DriverMoves
            \/ \E t \in {Drv, Svc} : ConnectionMoves(t)
            \/ \E t \in {Svc, App} : RegisterMoves(t)
            \/ ServiceMoves \/ AppMoves \/ ServerHandles
            \/ \E e \in Ends : EndStep(e)
<1>1. \A why : ~Dies(why)
  BY DEF Dies, AllButFault
<1>2. Next /\ fault = "none"
  BY DEF Next, Step, vars, AllButFault
<1>3. DriverStep => DriverMoves \/ ConnectionMoves(Drv)
  BY <1>1 DEF DriverStep, LengthOverruns, UseAfterFree, Connections, UnRegistFails, SendKilled, DriverMoves, ConnectionMoves
<1>4. ServiceStep => ServiceMoves \/ ConnectionMoves(Svc) \/ RegisterMoves(Svc)
  <2>1. Svc # Drv
    BY NetServiceAssumption
  <2> QED
    BY <1>1, <2>1 DEF ServiceStep, Registers, SameId, Connections, UnRegistFails, SendKilled,
       ServiceMoves, ConnectionMoves, RegisterMoves
<1>5. AppStep => AppMoves \/ RegisterMoves(App)
  BY <1>1 DEF AppStep, Registers, SameId, AppMoves, RegisterMoves
<1>6. ~DataRace
  BY <1>1 DEF DataRace
<1>7. DriverMoves => UNCHANGED fault
  BY DEF DriverMoves, Accept, FindReady, CallHandler, ReadData, PreRecv, RecvData, RecvGetsNothing
<1>8. ASSUME NEW t, ConnectionMoves(t) PROVE UNCHANGED fault
  BY <1>8 DEF ConnectionMoves, CloseUnregistersRead, CloseSocket, EnqueueDrop, WriteData, SendData, Unlock
<1>9. ASSUME NEW t, RegisterMoves(t) PROVE UNCHANGED fault
  BY <1>1, <1>9 DEF RegisterMoves, InsertConnection, RegistReadEvent, RegistWriteEvent, RegistEvent
<1>10. ServiceMoves => UNCHANGED fault
  <2>1. AcceptConnection \/ ProcessRecv \/ SendMsg \/ EnqueueMsg => UNCHANGED fault
    BY DEF AcceptConnection, ProcessRecv, SendMsg, EnqueueMsg
  <2>2. DropConnection \/ FreeSocket \/ DeleteConnection => UNCHANGED fault
    BY DEF DropConnection, FreeSocket, DeleteConnection
  <2>3. StopListener \/ DropNextConnection \/ AllDropped \/ JoinDriver => UNCHANGED fault
    BY DEF StopListener, DropNextConnection, AllDropped, JoinDriver
  <2>4. DriverStop => UNCHANGED fault
    BY <1>1 DEF DriverStop
  <2> QED
    BY <2>1, <2>2, <2>3, <2>4 DEF ServiceMoves
<1>11. AppMoves => UNCHANGED fault
  BY DEF AppMoves, StartConnectRemote, Stop, StopReturns
<1>12. ServerHandles \/ (\E e \in Ends : EndStep(e)) => UNCHANGED fault
  BY DEF ServerHandles, EndStep
<1>13. ServerStep => ServerHandles
  BY <1>1 DEF ServerStep, ServerOverruns
<1> QED
  BY <1>2, <1>3, <1>4, <1>5, <1>6, <1>7, <1>8, <1>9, <1>10, <1>11, <1>12, <1>13 DEF Next, Step

\* What PreRecv does to the driver's connection.
LEMMA PreRecvEdits ==
  ASSUME PreRecv
  PROVE  \E unit :
           \/ /\ unit \in ReadAs(Conn(Drv).buf, Head(wire[End(Drv)])) /\ RecvTakes(End(Drv), 1)
              /\ SetConn(Drv, [Conn(Drv) EXCEPT !.buf = Append(@, unit)])
              /\ IF Conn(Drv).buf = <<>> THEN UNCHANGED at ELSE AfterLength(unit)
           \/ SetConn(Drv, [Conn(Drv) EXCEPT !.ok = FALSE]) /\ Go(Drv, "unregRead")
BY DEF PreRecv

LEMMA PreRecvGoes ==
  ASSUME PreRecv
  PROVE  \/ UNCHANGED at \/ Go(Drv, "recv") \/ Go(Drv, "unregRead")
         \/ at' = [at EXCEPT ![Drv].pc = "unregRead", ![Drv].then = "unlock"]
BY PreRecvEdits DEF AfterLength

LEMMA ReadIsUnit ==
  ASSUME NEW buf, NEW unit \in Unit, NEW read \in ReadAs(buf, unit)
  PROVE  read \in Unit
<1>1. CASE read = unit
  BY <1>1
<1>2. ASSUME NEW part \in {"len2", "short", "wraps"}, read = [unit EXCEPT !.part = part]
      PROVE  read \in Unit
  <2>1. part \in Range(Parts) \cup {"short", "wraps"}
    BY <1>2 DEF Range, Parts
  <2> QED
    BY <1>2, <2>1 DEF Unit
<1> QED
  BY <1>1, <1>2 DEF ReadAs

LEMMA AtType ==
  ASSUME TypeOK
  PROVE  at \in [Threads -> [pc : Pcs, id : Nat \cup {NoId}, fd : Fds \cup {NoFd},
                             then : {"drop", "unlock", "free"}]]
BY DEF TypeOK

LEMMA MinExists ==
  ASSUME NEW S \in SUBSET Nat, S # {}
  PROVE  Min(S) \in S
<1> DEFINE LessThan == {ss \in Nat \X Nat : ss[1] < ss[2]}
<1>1. IsWellFoundedOn(LessThan, Nat)
  BY NatLessThanWellFounded DEF OpToRel
<1> HIDE DEF LessThan
<1>2. PICK x \in S : \A y \in S : ~(<<y, x>> \in LessThan)
  BY <1>1, WFMin, Zenon
<1>3. \A y \in S : x <= y
  <2> SUFFICES ASSUME NEW y \in S PROVE x <= y
    OBVIOUS
  <2>1. x \in Nat /\ y \in Nat /\ ~(<<y, x>> \in LessThan)
    BY <1>2
  <2>2. ~(y < x)
    BY <2>1, Z3 DEF LessThan
  <2> QED
    BY <2>1, <2>2
<1> QED
  BY <1>3 DEF Min

LEMMA ConnType ==
  ASSUME TypeOK
  PROVE  /\ DOMAIN conns \subseteq Nat
         /\ \A i \in DOMAIN conns : conns[i] \in
              [fd : Fds \cup {NoFd}, end : Ends, closed : BOOLEAN, ok : BOOLEAN, freed : BOOLEAN,
               buf : Seq(Unit), sendq : Seq(Message), lock : Threads \cup {NoEnd}]
BY DEF TypeOK, Connection

LEMMA NextIsConnection ==
  ASSUME TypeOK, DOMAIN conns # {}
  PROVE  Min(DOMAIN conns) \in DOMAIN conns
BY MinExists DEF TypeOK

LEMMA ThreadPlacesKept ==
  ASSUME ControlInv, [Next]_vars
  PROVE  ThreadPlaces'
<1> USE AtType
<1>a. TypeOK /\ ThreadPlaces /\ LockOwner
  BY DEF ControlInv
<1> USE <1>a, NetServiceAssumption
    DEF At, Go, GoFor, Return, Home, SetConn, DrvPcs, SvcPcs, AppPcs, LockPcs, svcVars,
        connVars, Threads
<1>1. CASE UNCHANGED <<at, conns, mRunning>>
  BY <1>1
     DEF ThreadPlaces
<1>2. CASE CallHandler
  BY <1>2
     DEF ThreadPlaces, CallHandler, TypeOK
<1>3. CASE Alive(Drv) /\ ReadData
  BY <1>3
     DEF ThreadPlaces, ReadData, MutexIsFree, Locked, Alive
<1>4. CASE Alive(Drv) /\ PreRecv
  BY <1>4
     DEF ThreadPlaces, PreRecv, AfterLength, Alive, End
<1>5. CASE Alive(Drv) /\ RecvData
  BY <1>5
     DEF ThreadPlaces, RecvData, Unlocked, Alive, End
<1>6. CASE Alive(Drv) /\ RecvGetsNothing
  BY <1>6
     DEF ThreadPlaces, RecvGetsNothing, Unlocked, Alive, End
<1>7. ASSUME NEW t \in {Drv, Svc}, CloseUnregistersRead(t) PROVE ThreadPlaces'
  BY <1>7
     DEF ThreadPlaces, CloseUnregistersRead
<1>8. ASSUME NEW t \in {Drv, Svc}, CloseSocket(t) PROVE ThreadPlaces'
  BY <1>8
     DEF ThreadPlaces, CloseSocket, Unlocked
<1>9. ASSUME NEW t \in {Drv, Svc}, EnqueueDrop(t) PROVE ThreadPlaces'
  BY <1>9
     DEF ThreadPlaces, EnqueueDrop
<1>10. ASSUME NEW t \in {Drv, Svc}, t = Drv => Alive(Drv), WriteData(t) PROVE ThreadPlaces'
  BY <1>10
     DEF ThreadPlaces, WriteData, MutexIsFree, Locked
<1>11. ASSUME NEW t \in {Drv, Svc}, SendData(t) PROVE ThreadPlaces'
  BY <1>11
     DEF ThreadPlaces, SendData, Unlocked, End
<1>12. ASSUME NEW t \in {Drv, Svc}, Unlock(t) PROVE ThreadPlaces'
  BY <1>12
     DEF ThreadPlaces, Unlock, Unlocked
<1>13. ASSUME NEW t \in {Svc, App}, InsertConnection(t), fault' = "none" PROVE ThreadPlaces'
  BY <1>13
     DEF ThreadPlaces, InsertConnection, Dies
<1>14. ASSUME NEW t \in {Svc, App}, RegistReadEvent(t), fault' = "none" PROVE ThreadPlaces'
  BY <1>14
     DEF ThreadPlaces, RegistReadEvent, RegistEvent, Dies
<1>15. ASSUME NEW t \in {Svc, App}, RegistWriteEvent(t), fault' = "none" PROVE ThreadPlaces'
  BY <1>15
     DEF ThreadPlaces, RegistWriteEvent, RegistEvent, Dies
<1>16. CASE AcceptConnection
  BY <1>16
     DEF ThreadPlaces, AcceptConnection, Taking
<1>17. CASE SendMsg
  BY <1>17
     DEF ThreadPlaces, SendMsg, Taking
<1>18. CASE EnqueueMsg
  BY <1>18
     DEF ThreadPlaces, EnqueueMsg, ThenWrites, MutexIsFree
<1>19. CASE DropConnection
  BY <1>19
     DEF ThreadPlaces, DropConnection, Taking
<1>20. CASE FreeSocket
  BY <1>20
     DEF ThreadPlaces, FreeSocket
<1>21. CASE DeleteConnection
  BY <1>21
     DEF ThreadPlaces, DeleteConnection, FreesLocked, MutexIsFree, Restrict
<1>22. CASE StopListener
  BY <1>22
     DEF ThreadPlaces, StopListener
<1>23. CASE DropNextConnection
  BY <1>23
     DEF ThreadPlaces, DropNextConnection, Locked
<1>24. CASE AllDropped
  BY <1>24
     DEF ThreadPlaces, AllDropped
<1>25. CASE DriverStop /\ fault' = "none"
  BY <1>25
     DEF ThreadPlaces, DriverStop, Dies
<1>26. CASE JoinDriver
  BY <1>26
     DEF ThreadPlaces, JoinDriver
<1>27. ASSUME NEW r \in Remotes, StartConnectRemote(r) PROVE ThreadPlaces'
  BY <1>27
     DEF ThreadPlaces, StartConnectRemote
<1>28. CASE Stop
  BY <1>28
     DEF ThreadPlaces, Stop
<1>29. CASE StopReturns
  BY <1>29
     DEF ThreadPlaces, StopReturns
<1>30. CASE UNCHANGED AllButFault
  BY <1>1, <1>30 DEF AllButFault, netVars, connVars, drvVars, svcVars, srvVars
<1> QED
  BY Steps, <1>1, <1>2, <1>3, <1>4, <1>5, <1>6, <1>7, <1>8, <1>9, <1>10, <1>11, <1>12, <1>13,
     <1>14, <1>15, <1>16, <1>17, <1>18, <1>19, <1>20, <1>21, <1>22, <1>23, <1>24, <1>25, <1>26,
     <1>27, <1>28, <1>29, <1>30
     DEF DriverMoves, ConnectionMoves, RegisterMoves, ServiceMoves, AppMoves, Accept,
         FindReady, ProcessRecv, ServerHandles, EndStep, netVars, connVars, drvVars, svcVars,
         srvVars


\* Thread t changes connection i, and locks or unlocks it as its new place says.
Relocks(t, i, c, place) ==
  /\ i \in DOMAIN conns
  /\ conns' = [conns EXCEPT ![i] = c]
  /\ at' = [at EXCEPT ![t] = place]
  /\ IF Locking(t) THEN at[t].id = i ELSE conns[i].lock = NoEnd
  /\ IF place.pc \in LockPcs THEN place.id = i /\ c.lock = t ELSE c.lock = NoEnd
  /\ t = Svc /\ place.pc \in {"enq", "write", "free", "delete"} => place.id \in DOMAIN conns

Leaves(t, i, c, place) ==
  /\ Relocks(t, i, c, place)
  /\ UNCHANGED mRunning
  /\ ConnOK(c)
  /\ place.pc \in LockPcs => LockedOK(t, place.pc, c)
  /\ IsShut(conns[i]) => IsShut(c)
  /\ t = Svc => place.pc \notin {"free", "delete"}

LEMMA RelocksKeepsOwner ==
  ASSUME TypeOK, LockOwner, NEW t \in Threads, NEW i, NEW c, NEW place, Relocks(t, i, c, place)
  PROVE  LockOwner'
<1> USE NetServiceAssumption DEF Threads
<1>1. /\ DOMAIN conns' = DOMAIN conns
      /\ \A j \in DOMAIN conns : conns'[j] = IF j = i THEN c ELSE conns[j]
  BY DEF Relocks
<1>2. \A u \in Threads : at'[u] = IF u = t THEN place ELSE at[u]
  BY AtType DEF Relocks
<1>3. /\ i \in DOMAIN conns /\ conns[i].lock \in {t, NoEnd}
      /\ IF Locking(t) THEN at[t].id = i ELSE conns[i].lock = NoEnd
      /\ IF place.pc \in LockPcs THEN place.id = i /\ c.lock = t ELSE c.lock = NoEnd
      /\ t = Svc /\ place.pc \in {"enq", "write", "free", "delete"} => place.id \in DOMAIN conns
  BY DEF LockOwner, Relocks, Conn
<1> HIDE DEF Threads
<1>4. ASSUME NEW u \in Threads, Locking(u)'
      PROVE  at'[u].id \in DOMAIN conns' /\ Conn(u)'.lock = u
  <2>1. CASE u = t
    BY <1>1, <1>2, <1>3, <1>4, <2>1 DEF Conn, Locking
  <2>2. CASE u # t
    <3>1. Locking(u) /\ at'[u] = at[u]
      BY <1>2, <1>4, <2>2 DEF Locking
    <3>2. at[u].id \in DOMAIN conns /\ conns[at[u].id].lock = u
      BY <3>1 DEF LockOwner, Conn
    <3>3. at[u].id # i
      BY <1>3, <2>2, <3>2, NetServiceAssumption DEF Threads
    <3> QED
      BY <1>1, <3>1, <3>2, <3>3 DEF Conn
  <2> QED
    BY <2>1, <2>2
<1>5. ASSUME NEW j \in DOMAIN conns', NEW u \in Threads, conns'[j].lock = u
      PROVE  Locking(u)' /\ at'[u].id = j
  <2>1. CASE j = i
    <3>1. place.pc \in LockPcs /\ place.id = i /\ u = t
      BY <1>1, <1>3, <1>5, <2>1, NetServiceAssumption DEF Threads
    <3> QED
      BY <1>2, <2>1, <3>1 DEF Locking
  <2>2. CASE j # i
    <3>1. j \in DOMAIN conns /\ conns[j].lock = u
      BY <1>1, <1>5, <2>2
    <3>2. Locking(u) /\ at[u].id = j
      BY <3>1 DEF LockOwner
    <3>3. u # t
      BY <1>3, <2>2, <3>2
    <3> QED
      BY <1>2, <3>2, <3>3 DEF Locking
  <2> QED
    BY <2>1, <2>2
<1>6. at'[Svc].pc \in {"enq", "write", "free", "delete"} => at'[Svc].id \in DOMAIN conns'
  BY <1>1, <1>2, <1>3 DEF LockOwner, Threads
<1> QED
  BY <1>4, <1>5, <1>6 DEF LockOwner

LEMMA LeavesKeepsStates ==
  ASSUME TypeOK, LockOwner, ConnStates, NEW t \in Threads, NEW i, NEW c, NEW place, Leaves(t, i, c, place)
  PROVE  LockOwner' /\ ConnStates'
<1>1. Relocks(t, i, c, place) /\ UNCHANGED mRunning
  BY DEF Leaves
<1>2. /\ DOMAIN conns' = DOMAIN conns /\ i \in DOMAIN conns
      /\ \A j \in DOMAIN conns : conns'[j] = IF j = i THEN c ELSE conns[j]
  BY <1>1 DEF Relocks
<1>3. \A u \in Threads : at'[u] = IF u = t THEN place ELSE at[u]
  BY <1>1, AtType DEF Relocks
<1>4. LockOwner'
  BY <1>1, RelocksKeepsOwner
<1>5. \A j \in DOMAIN conns' : ConnOK(conns'[j])
  BY <1>2 DEF ConnStates, Leaves
<1>6. ASSUME NEW u \in Threads, Locking(u)'
      PROVE  LockedOK(u, at[u].pc, Conn(u))'
  <2>1. CASE u = t
    <3>1. at'[u] = place /\ place.pc \in LockPcs /\ Conn(u)' = c
      BY <1>1, <1>2, <1>3, <1>6, <2>1 DEF Locking, Relocks, Conn
    <3> QED
      BY <1>1, <2>1, <3>1 DEF Leaves, LockedOK
  <2>2. CASE u # t
    <3>1. Locking(u) /\ at'[u] = at[u]
      BY <1>3, <1>6, <2>2 DEF Locking
    <3>2. at[u].id \in DOMAIN conns /\ conns[at[u].id].lock = u
      BY <3>1 DEF LockOwner, Conn
    <3>3. conns[i].lock \in {t, NoEnd}
      BY <1>1 DEF LockOwner, Relocks, Conn
    <3>4. at[u].id # i
      BY <2>2, <3>2, <3>3, NetServiceAssumption DEF Threads
    <3>5. LockedOK(u, at[u].pc, Conn(u)) /\ Conn(u)' = Conn(u)
      BY <1>2, <3>1, <3>2, <3>4 DEF ConnStates, Conn
    <3> QED
      BY <1>1, <3>1, <3>5 DEF LockedOK
  <2> QED
    BY <2>1, <2>2
<1>7. at'[Svc].pc \in {"free", "delete"} => IsShut(Conn(Svc))'
  <2> SUFFICES ASSUME at'[Svc].pc \in {"free", "delete"} PROVE IsShut(Conn(Svc))'
    OBVIOUS
  <2>1. t # Svc /\ at'[Svc] = at[Svc]
    BY <1>1, <1>3 DEF Leaves, Threads
  <2>2. at[Svc].id \in DOMAIN conns /\ IsShut(Conn(Svc))
    BY <2>1 DEF ConnStates, LockOwner
  <2>3. IsShut(conns'[at[Svc].id])
    BY <1>2, <2>2 DEF Leaves, Conn
  <2> QED
    BY <2>1, <2>3 DEF IsShut, Conn
<1> QED
  BY <1>4, <1>5, <1>6, <1>7 DEF ConnStates

\* A step that only moves a thread which locks nothing, before it and after.
LEMMA MoveKeepsStates ==
  ASSUME TypeOK, LockOwner, ConnStates, UNCHANGED <<conns, mRunning>>,
         NEW t \in Threads, NEW place, at' = [at EXCEPT ![t] = place], ~Locking(t), place.pc \notin LockPcs,
         t = Svc /\ place.pc \in {"enq", "write", "free", "delete"} => place.id \in DOMAIN conns,
         t = Svc /\ place.pc \in {"free", "delete"} => IsShut(conns[place.id])
  PROVE  LockOwner' /\ ConnStates'
<1>1. \A u \in Threads : at'[u] = IF u = t THEN place ELSE at[u]
  BY AtType
<1>2. \A u \in Threads : /\ Locking(u)' <=> Locking(u)
                         /\ Locking(u) => at'[u] = at[u]
  BY <1>1 DEF Locking
<1>3. Svc \in Threads
  BY DEF Threads
<1>4. LockOwner'
  <2>1. \A u \in Threads : Locking(u)' => at'[u].id \in DOMAIN conns' /\ Conn(u)'.lock = u
    BY <1>2 DEF LockOwner, Conn
  <2>2. \A i \in DOMAIN conns' : \A u \in Threads : conns'[i].lock = u => Locking(u)' /\ at'[u].id = i
    BY <1>2 DEF LockOwner
  <2>3. at'[Svc].pc \in {"enq", "write", "free", "delete"} => at'[Svc].id \in DOMAIN conns'
    BY <1>1, <1>3 DEF LockOwner
  <2> QED
    BY <2>1, <2>2, <2>3 DEF LockOwner
<1>5. ConnStates'
  <2>1. \A i \in DOMAIN conns' : ConnOK(conns'[i])
    BY DEF ConnStates
  <2>2. ASSUME NEW u \in Threads, Locking(u)' PROVE LockedOK(u, at[u].pc, Conn(u))'
    <3>1. LockedOK(u, at[u].pc, Conn(u))
      BY <1>2, <2>2 DEF ConnStates
    <3>2. at'[u].pc = at[u].pc /\ Conn(u)' = Conn(u)
      BY <1>2, <2>2 DEF Conn
    <3> QED
      BY <3>1, <3>2 DEF LockedOK
  <2>3. at'[Svc].pc \in {"free", "delete"} => IsShut(Conn(Svc)')
    BY <1>1, <1>3 DEF ConnStates, Conn
  <2> QED
    BY <2>1, <2>2, <2>3 DEF ConnStates, IsShut
<1> QED
  BY <1>4, <1>5

\* A connection without a descriptor is closed for good, also to its mutex' owner.
LEMMA NoFdIsShut ==
  ASSUME TypeOK, LockOwner, ConnStates, NEW i \in DOMAIN conns, conns[i].fd = NoFd
  PROVE  IsShut(conns[i])
<1>1. conns[i].lock \in Threads \cup {NoEnd} /\ ConnOK(conns[i])
  BY ConnType DEF ConnStates
<1>2. CASE conns[i].lock = NoEnd
  BY <1>1, <1>2 DEF ConnOK, IsOpen
<1>3. ASSUME NEW t \in Threads, conns[i].lock = t
      PROVE  IsShut(conns[i])
  <2>1. Locking(t) /\ Conn(t) = conns[i] /\ LockedOK(t, at[t].pc, conns[i])
    BY <1>3 DEF LockOwner, ConnStates, Conn
  <2> QED
    BY <2>1 DEF LockedOK, Locking, LockPcs, IsOpen
<1> QED
  BY <1>1, <1>2, <1>3

LEMMA GivenHead ==
  ASSUME TypeOK, mQueue # <<>>
  PROVE  /\ Len(srvLog) + 1 \in DOMAIN Given
         /\ Given[Len(srvLog) + 1] = Ctx /\ Ctx \in Context
BY DEF TypeOK, Given, Ctx

LEMMA DroppedIsShut ==
  ASSUME TypeOK, LockOwner, ConnStates, DropIsLast, mQueue # <<>>, Ctx.type = "drop", Ctx.id \in DOMAIN conns
  PROVE  IsShut(conns[Ctx.id])
<1>1. conns[Ctx.id].fd = NoFd
  BY GivenHead DEF DropIsLast
<1> QED
  BY <1>1, NoFdIsShut

\* The service shuts a connection for good, or leaves it shut.
LEMMA ShutByService ==
  ASSUME TypeOK, LockOwner, ConnStates, UNCHANGED mRunning, NEW c, NEW place,
         at[Svc].id \in DOMAIN conns, Conn(Svc).lock = Svc \/ IsShut(Conn(Svc)),
         IsShut(c), ConnOK(c), place.id = at[Svc].id, place.pc \in {"free", "delete"},
         SetConn(Svc, c), at' = [at EXCEPT ![Svc] = place]
  PROVE  ConnStates'
<1> DEFINE i == at[Svc].id
<1>1. DOMAIN conns' = DOMAIN conns /\ \A j \in DOMAIN conns : conns'[j] = IF j = i THEN c ELSE conns[j]
  BY DEF SetConn
<1>2. \A u \in Threads : at'[u] = IF u = Svc THEN place ELSE at[u]
  BY AtType
<1> HIDE DEF i
<1>3. ASSUME NEW u \in Threads, Locking(u)'
      PROVE  LockedOK(u, at[u].pc, Conn(u))'
  <2>1. u # Svc /\ at'[u] = at[u] /\ Locking(u)
    BY <1>2, <1>3 DEF Locking, LockPcs
  <2>2. at[u].id \in DOMAIN conns /\ conns[at[u].id].lock = u /\ LockedOK(u, at[u].pc, Conn(u))
    BY <2>1 DEF LockOwner, ConnStates, Conn
  <2>3. CASE at[u].id = i
    <3>1. IsShut(Conn(u)) /\ Conn(u)' = c
      BY <1>1, <2>1, <2>2, <2>3 DEF Conn, i
    <3>2. at[u].pc \in {"drop", "unlock"}
      BY <2>1, <2>2, <3>1 DEF Locking, LockPcs, LockedOK, IsShut, IsOpen
    <3> QED
      BY <2>1, <3>1, <3>2 DEF LockedOK
  <2>4. CASE at[u].id # i
    BY <1>1, <2>1, <2>2, <2>4 DEF LockedOK, Conn
  <2> QED
    BY <2>3, <2>4
<1>4. \A j \in DOMAIN conns' : ConnOK(conns'[j])
  BY <1>1 DEF ConnStates
<1>5. Conn(Svc)' = c
  BY <1>1, <1>2 DEF Conn, i, Threads
<1> QED
  BY <1>3, <1>4, <1>5 DEF ConnStates

\* A step of a thread that has no mutex before it, nor after.
LEMMA WalkKeepsStates ==
  ASSUME TypeOK, LockOwner, ConnStates, NEW t \in Threads, NEW place,
         at' = [at EXCEPT ![t] = place], UNCHANGED <<conns, mRunning>>,
         ~Locking(t), place.pc \notin LockPcs \cup {"free", "delete"},
         place.pc \in {"enq", "write"} => place.id \in DOMAIN conns \/ t # Svc
  PROVE  LockOwner' /\ ConnStates'
<1>1. \A u \in Threads : at'[u] = IF u = t THEN place ELSE at[u]
  BY AtType
<1>2. \A u \in Threads : Locking(u)' <=> Locking(u)
  BY <1>1 DEF Locking
<1>3. \A u \in Threads : Locking(u) => at'[u] = at[u]
  BY <1>1
<1>4. LockOwner'
  <2>1. at'[Svc].pc \in {"enq", "write", "free", "delete"} => at'[Svc].id \in DOMAIN conns
    BY <1>1 DEF LockOwner, Threads
  <2> QED
    BY <1>2, <1>3, <2>1 DEF LockOwner, Conn
<1>5. ConnStates'
  <2>1. at'[Svc].pc \in {"free", "delete"} => at'[Svc] = at[Svc]
    BY <1>1 DEF Threads
  <2> QED
    BY <1>2, <1>3, <2>1 DEF ConnStates, Conn, LockedOK
<1> QED
  BY <1>4, <1>5

LEMMA LocksAndStatesKept ==
  ASSUME ControlInv, [Next]_vars
  PROVE  LockOwner' /\ ConnStates'
<1> USE AtType, ConnType
<1>a. TypeOK /\ ThreadPlaces /\ LockOwner /\ ConnStates /\ DropIsLast /\ IdsOfConns /\ PendingSockets
  BY DEF ControlInv
<1> USE <1>a, NetServiceAssumption
    DEF At, Go, GoFor, Return, Home, SetConn, Conn, Locking, svcVars, connVars, LockPcs,
        Threads
<1>1. CASE UNCHANGED <<at, conns, mRunning>>
  BY <1>1
     DEF LockOwner, ConnStates, LockedOK
<1>2. CASE CallHandler
  <2>1. PICK pc \in {"read", "write"} : \E id : GoFor(Drv, pc, id, NoFd)
    BY <1>2 DEF CallHandler, TypeOK
  <2>2. at[Drv].pc = "poll" /\ UNCHANGED <<conns, mRunning>>
    BY <1>2 DEF CallHandler
  <2>3. PICK place : place.pc = pc /\ at' = [at EXCEPT ![Drv] = place]
    BY <2>1
  <2>4. Drv \in Threads /\ Drv # Svc /\ ~Locking(Drv) /\ place.pc \notin LockPcs
    BY <2>1, <2>2, <2>3
  <2> QED
    BY <2>2, <2>3, <2>4, MoveKeepsStates
<1>3. CASE Alive(Drv) /\ ReadData
  <2> DEFINE pc == IF ~Conn(Drv).ok THEN "drop" ELSE IF Len(Conn(Drv).buf) < 2 THEN "prerecv" ELSE "recv"
  <2>1. /\ At(Drv, "read") /\ MutexIsFree(Drv) /\ at[Drv].id \in DOMAIN conns /\ UNCHANGED mRunning
        /\ SetConn(Drv, Locked(Conn(Drv), Drv)) /\ Go(Drv, pc)
    BY <1>3 DEF ReadData, Alive
  <2> DEFINE i == at[Drv].id
            c == Locked(Conn(Drv), Drv)
            place == [at[Drv] EXCEPT !.pc = pc]
  <2>2. Relocks(Drv, i, c, place)
    BY <2>1 DEF LockOwner, Relocks, Locked, MutexIsFree
  <2>3. Leaves(Drv, i, c, place)
    <3>1. UNCHANGED mRunning /\ (Drv = Svc => place.pc \notin {"free", "delete"})
      BY <2>1, <2>2
    <3>2. ConnOK(conns[i])
      BY <2>2 DEF ConnStates, Relocks
    <3>3. ConnOK(c)
      BY <2>1, <2>2, <3>2 DEF ConnOK, IsOpen, IsShut, Locked, MutexIsFree
    <3>4. place.pc \in LockPcs => LockedOK(Drv, place.pc, c)
      BY <2>1, <2>2, <3>2 DEF ConnOK, LockedOK, IsOpen, IsShut, Locked, MutexIsFree
    <3>5. IsShut(conns[i]) => IsShut(c)
      BY <2>1, <2>2 DEF ConnOK, IsOpen, IsShut, Locked, MutexIsFree
    <3> QED
      BY ONLY <2>2, <3>1, <3>3, <3>4, <3>5, Zenon DEF Leaves
  <2> QED
    BY <2>3, LeavesKeepsStates
<1>4. CASE Alive(Drv) /\ PreRecv
  <2>0. PICK unit : \/ /\ SetConn(Drv, [Conn(Drv) EXCEPT !.buf = Append(@, unit)])
                       /\ IF Conn(Drv).buf = <<>> THEN UNCHANGED at ELSE AfterLength(unit)
                    \/ SetConn(Drv, [Conn(Drv) EXCEPT !.ok = FALSE]) /\ Go(Drv, "unregRead")
    BY ONLY <1>4, PreRecvEdits
  <2>1. /\ At(Drv, "prerecv") /\ Conn(Drv).lock = Drv /\ at[Drv].id \in DOMAIN conns
        /\ IsOpen(Conn(Drv)) /\ Len(Conn(Drv).buf) < 2 /\ UNCHANGED mRunning
    BY <1>4 DEF PreRecv, LockOwner, ConnStates, LockedOK
  <2>2. \/ /\ SetConn(Drv, [Conn(Drv) EXCEPT !.buf = Append(@, unit)])
           /\ \/ UNCHANGED at /\ Conn(Drv).buf = <<>>
              \/ at' = [at EXCEPT ![Drv].pc = "unregRead", ![Drv].then = "unlock"]
              \/ Go(Drv, "recv") /\ Conn(Drv).buf # <<>>
        \/ SetConn(Drv, [Conn(Drv) EXCEPT !.ok = FALSE]) /\ Go(Drv, "unregRead")
    <3>1. CASE /\ SetConn(Drv, [Conn(Drv) EXCEPT !.buf = Append(@, unit)])
               /\ IF Conn(Drv).buf = <<>> THEN UNCHANGED at ELSE AfterLength(unit)
      BY <3>1 DEF AfterLength
    <3> QED
      BY <2>0, <3>1
  <2>3. CASE /\ SetConn(Drv, [Conn(Drv) EXCEPT !.buf = Append(@, unit)])
             /\ UNCHANGED at /\ Conn(Drv).buf = <<>>
    <3>0. at' = [at EXCEPT ![Drv] = at[Drv]]
      BY <2>3
    <3> DEFINE i == at[Drv].id
              c == [Conn(Drv) EXCEPT !.buf = Append(@, unit)]
              place == at[Drv]
    <3>1. Relocks(Drv, i, c, place)
      BY <3>0, <2>1, <2>3 DEF LockOwner, Relocks
    <3>2. Leaves(Drv, i, c, place)
      <4>1. UNCHANGED mRunning /\ (Drv = Svc => place.pc \notin {"free", "delete"})
        BY <3>0, <2>1, <2>3, <3>1
      <4>2. ConnOK(conns[i])
        BY <3>1 DEF ConnStates, Relocks
      <4>3. ConnOK(c)
        BY <3>0, <2>1, <2>3, <3>1, <4>2 DEF ConnOK, IsOpen, IsShut
      <4>4. place.pc \in LockPcs => LockedOK(Drv, place.pc, c)
        BY <3>0, <2>1, <2>3, <3>1, <4>2 DEF ConnOK, LockedOK, IsOpen, IsShut
      <4>5. IsShut(conns[i]) => IsShut(c)
        BY <3>0, <2>1, <2>3, <3>1 DEF ConnOK, IsOpen, IsShut
      <4> QED
        BY ONLY <3>1, <4>1, <4>3, <4>4, <4>5, Zenon DEF Leaves
    <3> QED
      BY <3>2, LeavesKeepsStates
  <2>4. CASE /\ SetConn(Drv, [Conn(Drv) EXCEPT !.buf = Append(@, unit)])
             /\ at' = [at EXCEPT ![Drv].pc = "unregRead", ![Drv].then = "unlock"]
    <3>0. at' = [at EXCEPT ![Drv] = [[at[Drv] EXCEPT !.pc = "unregRead"] EXCEPT !.then = "unlock"]]
      BY <2>4
    <3> DEFINE i == at[Drv].id
              c == [Conn(Drv) EXCEPT !.buf = Append(@, unit)]
              place == [[at[Drv] EXCEPT !.pc = "unregRead"] EXCEPT !.then = "unlock"]
    <3>1. Relocks(Drv, i, c, place)
      BY <3>0, <2>1, <2>4 DEF LockOwner, Relocks
    <3>2. Leaves(Drv, i, c, place)
      <4>1. UNCHANGED mRunning /\ (Drv = Svc => place.pc \notin {"free", "delete"})
        BY <3>0, <2>1, <2>4, <3>1
      <4>2. ConnOK(conns[i])
        BY <3>1 DEF ConnStates, Relocks
      <4>3. ConnOK(c)
        BY <3>0, <2>1, <2>4, <3>1, <4>2 DEF ConnOK, IsOpen, IsShut
      <4>4. place.pc \in LockPcs => LockedOK(Drv, place.pc, c)
        BY <3>0, <2>1, <2>4, <3>1, <4>2 DEF ConnOK, LockedOK, IsOpen, IsShut
      <4>5. IsShut(conns[i]) => IsShut(c)
        BY <3>0, <2>1, <2>4, <3>1 DEF ConnOK, IsOpen, IsShut
      <4> QED
        BY ONLY <3>1, <4>1, <4>3, <4>4, <4>5, Zenon DEF Leaves
    <3> QED
      BY <3>2, LeavesKeepsStates
  <2>5. CASE /\ SetConn(Drv, [Conn(Drv) EXCEPT !.buf = Append(@, unit)]) /\ Go(Drv, "recv")
             /\ Conn(Drv).buf # <<>>
    <3> DEFINE i == at[Drv].id
              c == [Conn(Drv) EXCEPT !.buf = Append(@, unit)]
              place == [at[Drv] EXCEPT !.pc = "recv"]
    <3>1. Relocks(Drv, i, c, place)
      BY <2>1, <2>5 DEF LockOwner, Relocks
    <3>2. Leaves(Drv, i, c, place)
      <4>1. UNCHANGED mRunning /\ (Drv = Svc => place.pc \notin {"free", "delete"})
        BY <2>1, <2>5, <3>1
      <4>2. ConnOK(conns[i])
        BY <3>1 DEF ConnStates, Relocks
      <4>3. ConnOK(c)
        BY <2>1, <2>5, <3>1, <4>2 DEF ConnOK, IsOpen, IsShut
      <4>4. place.pc \in LockPcs => LockedOK(Drv, place.pc, c)
        BY <2>1, <2>5, <3>1, <4>2 DEF ConnOK, LockedOK, IsOpen, IsShut
      <4>5. IsShut(conns[i]) => IsShut(c)
        BY <2>1, <2>5, <3>1 DEF ConnOK, IsOpen, IsShut
      <4> QED
        BY ONLY <3>1, <4>1, <4>3, <4>4, <4>5, Zenon DEF Leaves
    <3> QED
      BY <3>2, LeavesKeepsStates
  <2>6. CASE SetConn(Drv, [Conn(Drv) EXCEPT !.ok = FALSE]) /\ Go(Drv, "unregRead")
    <3> DEFINE i == at[Drv].id
              c == [Conn(Drv) EXCEPT !.ok = FALSE]
              place == [at[Drv] EXCEPT !.pc = "unregRead"]
    <3>1. Relocks(Drv, i, c, place)
      BY <2>1, <2>6 DEF LockOwner, Relocks
    <3>2. Leaves(Drv, i, c, place)
      <4>1. UNCHANGED mRunning /\ (Drv = Svc => place.pc \notin {"free", "delete"})
        BY <2>1, <2>6, <3>1
      <4>2. ConnOK(conns[i])
        BY <3>1 DEF ConnStates, Relocks
      <4>3. ConnOK(c)
        BY <2>1, <2>6, <3>1, <4>2 DEF ConnOK, IsOpen, IsShut
      <4>4. place.pc \in LockPcs => LockedOK(Drv, place.pc, c)
        BY <2>1, <2>6, <3>1, <4>2 DEF ConnOK, LockedOK, IsOpen, IsShut
      <4>5. IsShut(conns[i]) => IsShut(c)
        BY <2>1, <2>6, <3>1 DEF ConnOK, IsOpen, IsShut
      <4> QED
        BY ONLY <3>1, <4>1, <4>3, <4>4, <4>5, Zenon DEF Leaves
    <3> QED
      BY <3>2, LeavesKeepsStates
  <2> QED
    BY <2>2, <2>3, <2>4, <2>5, <2>6
<1>5. CASE Alive(Drv) /\ RecvData
  <2>1. At(Drv, "recv") /\ Conn(Drv).lock = Drv /\ at[Drv].id \in DOMAIN conns /\ IsOpen(Conn(Drv))
    BY <1>5 DEF RecvData, LockOwner, ConnStates, LockedOK
  <2>2. PICK k \in 1..Needed(Conn(Drv).buf) - Len(Conn(Drv).buf) :
           LET buf == Placed(Conn(Drv).buf, SubSeq(wire[End(Drv)], 1, k)) IN
             /\ UNCHANGED mRunning /\ RecvTakes(End(Drv), k)
             /\ \/ Len(buf) < Needed(Conn(Drv).buf) /\ SetConn(Drv, Unlocked([Conn(Drv) EXCEPT !.buf = buf])) /\ Return(Drv)
                \/ SetConn(Drv, Unlocked([Conn(Drv) EXCEPT !.buf = <<>>])) /\ Return(Drv)
                \/ ~mRunning /\ SetConn(Drv, [Conn(Drv) EXCEPT !.buf = <<>>]) /\ Go(Drv, "drop")
    BY <1>5 DEF RecvData
  <2>a. Needed(Conn(Drv).buf) \in {3, 4}
    BY DEF Needed
  <2>3. ASSUME NEW buf \in Seq(Unit), Len(buf) < Needed(Conn(Drv).buf), UNCHANGED mRunning,
               SetConn(Drv, Unlocked([Conn(Drv) EXCEPT !.buf = buf])), Return(Drv)
        PROVE  LockOwner' /\ ConnStates'
    <3> DEFINE i == at[Drv].id
              c == Unlocked([Conn(Drv) EXCEPT !.buf = buf])
              place == [pc |-> Home[Drv], id |-> NoId, fd |-> NoFd, then |-> "drop"]
    <3>1. Relocks(Drv, i, c, place)
      BY <2>1, <2>3 DEF LockOwner, Relocks, Unlocked
    <3>2. Leaves(Drv, i, c, place)
      <4>1. UNCHANGED mRunning /\ (Drv = Svc => place.pc \notin {"free", "delete"})
        BY <2>1, <2>3, <3>1
      <4>2. ConnOK(conns[i])
        BY <3>1 DEF ConnStates, Relocks
      <4>3. ConnOK(c)
        BY <2>1, <2>a, <2>3, <3>1, <4>2 DEF ConnOK, IsOpen, IsShut, Unlocked
      <4>4. place.pc \in LockPcs => LockedOK(Drv, place.pc, c)
        BY <2>1, <2>3, <3>1, <4>2 DEF ConnOK, LockedOK, IsOpen, IsShut, Unlocked
      <4>5. IsShut(conns[i]) => IsShut(c)
        BY <2>1, <2>3, <3>1 DEF ConnOK, IsOpen, IsShut, Unlocked
      <4> QED
        BY ONLY <3>1, <4>1, <4>3, <4>4, <4>5, Zenon DEF Leaves
    <3> QED
      BY <3>2, LeavesKeepsStates
  <2>4. CASE ~mRunning /\ SetConn(Drv, [Conn(Drv) EXCEPT !.buf = <<>>]) /\ Go(Drv, "drop")
    <3> DEFINE i == at[Drv].id
              c == [Conn(Drv) EXCEPT !.buf = <<>>]
              place == [at[Drv] EXCEPT !.pc = "drop"]
    <3>1. Relocks(Drv, i, c, place)
      BY <2>1, <2>2, <2>4 DEF LockOwner, Relocks
    <3>2. Leaves(Drv, i, c, place)
      <4>1. UNCHANGED mRunning /\ (Drv = Svc => place.pc \notin {"free", "delete"})
        BY <2>1, <2>2, <2>4, <3>1
      <4>2. ConnOK(conns[i])
        BY <3>1 DEF ConnStates, Relocks
      <4>3. ConnOK(c)
        BY <2>1, <2>2, <2>4, <3>1, <4>2 DEF ConnOK, IsOpen, IsShut
      <4>4. place.pc \in LockPcs => LockedOK(Drv, place.pc, c)
        BY <2>1, <2>2, <2>4, <3>1, <4>2 DEF ConnOK, LockedOK, IsOpen, IsShut
      <4>5. IsShut(conns[i]) => IsShut(c)
        BY <2>1, <2>2, <2>4, <3>1 DEF ConnOK, IsOpen, IsShut
      <4> QED
        BY ONLY <3>1, <4>1, <4>3, <4>4, <4>5, Zenon DEF Leaves
    <3> QED
      BY <3>2, LeavesKeepsStates
  <2>5. Len(<<>>) < Needed(Conn(Drv).buf) /\ <<>> \in Seq(Unit)
    BY <2>a
  <2>6. Placed(Conn(Drv).buf, SubSeq(wire[End(Drv)], 1, k)) \in Seq(Unit)
    <3>1. Conn(Drv) \in Connection /\ Conn(Drv).end \in Ends
      BY <2>1, ConnType DEF Conn, Connection
    <3>2. Conn(Drv).buf \in Seq(Unit) /\ wire[End(Drv)] \in Seq(Unit)
      BY <3>1 DEF Connection, End, TypeOK, SocketTypeOK
    <3>3. k \in 1..Len(wire[End(Drv)])
      BY <2>2 DEF RecvTakes
    <3> QED
      BY <3>2, <3>3 DEF Placed
  <2> DEFINE buf == Placed(Conn(Drv).buf, SubSeq(wire[End(Drv)], 1, k))
  <2>7. CASE /\ Len(buf) < Needed(Conn(Drv).buf) /\ UNCHANGED mRunning
             /\ SetConn(Drv, Unlocked([Conn(Drv) EXCEPT !.buf = buf])) /\ Return(Drv)
    <3> HIDE DEF buf
    <3> QED
      BY ONLY <2>3, <2>6, <2>7 DEF buf
  <2>8. CASE /\ UNCHANGED mRunning
             /\ SetConn(Drv, Unlocked([Conn(Drv) EXCEPT !.buf = <<>>])) /\ Return(Drv)
    BY ONLY <2>3, <2>5, <2>8
  <2> QED
    BY ONLY <2>2, <2>4, <2>7, <2>8, Zenon
<1>6. CASE Alive(Drv) /\ RecvGetsNothing
  <2>1. /\ At(Drv, "recv") /\ Conn(Drv).lock = Drv /\ at[Drv].id \in DOMAIN conns
        /\ IsOpen(Conn(Drv)) /\ UNCHANGED mRunning
    BY <1>6 DEF RecvGetsNothing, LockOwner, ConnStates, LockedOK
  <2>2. CASE SetConn(Drv, [Conn(Drv) EXCEPT !.ok = FALSE]) /\ Go(Drv, "unregRead")
    <3> DEFINE i == at[Drv].id
              c == [Conn(Drv) EXCEPT !.ok = FALSE]
              place == [at[Drv] EXCEPT !.pc = "unregRead"]
    <3>1. Relocks(Drv, i, c, place)
      BY <2>1, <2>2 DEF LockOwner, Relocks
    <3>2. Leaves(Drv, i, c, place)
      <4>1. UNCHANGED mRunning /\ (Drv = Svc => place.pc \notin {"free", "delete"})
        BY <2>1, <2>2, <3>1
      <4>2. ConnOK(conns[i])
        BY <3>1 DEF ConnStates, Relocks
      <4>3. ConnOK(c)
        BY <2>1, <2>2, <3>1, <4>2 DEF ConnOK, IsOpen, IsShut
      <4>4. place.pc \in LockPcs => LockedOK(Drv, place.pc, c)
        BY <2>1, <2>2, <3>1, <4>2 DEF ConnOK, LockedOK, IsOpen, IsShut
      <4>5. IsShut(conns[i]) => IsShut(c)
        BY <2>1, <2>2, <3>1 DEF ConnOK, IsOpen, IsShut
      <4> QED
        BY ONLY <3>1, <4>1, <4>3, <4>4, <4>5, Zenon DEF Leaves
    <3> QED
      BY <3>2, LeavesKeepsStates
  <2>3. CASE SetConn(Drv, Unlocked(Conn(Drv))) /\ Return(Drv)
    <3> DEFINE i == at[Drv].id
              c == Unlocked(Conn(Drv))
              place == [pc |-> Home[Drv], id |-> NoId, fd |-> NoFd, then |-> "drop"]
    <3>1. Relocks(Drv, i, c, place)
      BY <2>1, <2>3 DEF LockOwner, Relocks, Unlocked
    <3>2. Leaves(Drv, i, c, place)
      <4>1. UNCHANGED mRunning /\ (Drv = Svc => place.pc \notin {"free", "delete"})
        BY <2>1, <2>3, <3>1
      <4>2. ConnOK(conns[i])
        BY <3>1 DEF ConnStates, Relocks
      <4>3. ConnOK(c)
        BY <2>1, <2>3, <3>1, <4>2 DEF ConnOK, IsOpen, IsShut, Unlocked
      <4>4. place.pc \in LockPcs => LockedOK(Drv, place.pc, c)
        BY <2>1, <2>3, <3>1, <4>2 DEF ConnOK, LockedOK, IsOpen, IsShut, Unlocked
      <4>5. IsShut(conns[i]) => IsShut(c)
        BY <2>1, <2>3, <3>1 DEF ConnOK, IsOpen, IsShut, Unlocked
      <4> QED
        BY ONLY <3>1, <4>1, <4>3, <4>4, <4>5, Zenon DEF Leaves
    <3> QED
      BY <3>2, LeavesKeepsStates
  <2> QED
    BY <1>6, <2>2, <2>3 DEF RecvGetsNothing
<1>7. ASSUME NEW t \in {Drv, Svc}, CloseUnregistersRead(t) PROVE LockOwner' /\ ConnStates'
  <2>1. /\ At(t, "unregRead") /\ Conn(t).lock = t /\ at[t].id \in DOMAIN conns
        /\ Conn(t).fd # NoFd /\ UNCHANGED mRunning
        /\ SetConn(t, [Conn(t) EXCEPT !.closed = TRUE]) /\ Go(t, "unregWrite")
    BY <1>7 DEF CloseUnregistersRead, LockOwner, ConnStates, LockedOK
  <2> DEFINE i == at[t].id
            c == [Conn(t) EXCEPT !.closed = TRUE]
            place == [at[t] EXCEPT !.pc = "unregWrite"]
  <2>2. Relocks(t, i, c, place)
    BY <2>1 DEF LockOwner, Relocks
  <2>3. Leaves(t, i, c, place)
    <3>1. UNCHANGED mRunning /\ (t = Svc => place.pc \notin {"free", "delete"})
      BY <2>1, <2>2
    <3>2. ConnOK(conns[i])
      BY <2>2 DEF ConnStates, Relocks
    <3>3. ConnOK(c)
      BY <2>1, <2>2, <3>2 DEF ConnOK, IsOpen, IsShut
    <3>4. place.pc \in LockPcs => LockedOK(t, place.pc, c)
      BY <2>1, <2>2, <3>2 DEF ConnOK, LockedOK, IsOpen, IsShut
    <3>5. IsShut(conns[i]) => IsShut(c)
      BY <2>1, <2>2 DEF ConnOK, IsOpen, IsShut
    <3> QED
      BY ONLY <2>2, <3>1, <3>3, <3>4, <3>5, Zenon DEF Leaves
  <2> QED
    BY <2>3, LeavesKeepsStates
<1>8. ASSUME NEW t \in {Drv, Svc}, CloseSocket(t) PROVE LockOwner' /\ ConnStates'
  <2> DEFINE shut == [Conn(t) EXCEPT !.fd = NoFd, !.ok = FALSE, !.sendq = <<>>]
  <2>1. /\ At(t, "unregWrite") /\ Conn(t).lock = t /\ at[t].id \in DOMAIN conns /\ Conn(t).closed
        /\ UNCHANGED mRunning /\ SetConn(t, IF at[t].then = "free" THEN Unlocked(shut) ELSE shut)
        /\ Go(t, at[t].then)
        /\ IsShut(shut) /\ shut.lock = t /\ Len(shut.buf) < 4
    <3>1. /\ At(t, "unregWrite") /\ UNCHANGED mRunning /\ Go(t, at[t].then)
          /\ SetConn(t, IF at[t].then = "free" THEN Unlocked(shut) ELSE shut)
      BY <1>8 DEF CloseSocket
    <3>2. at[t].id \in DOMAIN conns /\ Conn(t).lock = t
      BY <3>1 DEF LockOwner
    <3>3. ConnOK(Conn(t)) /\ LockedOK(t, "unregWrite", Conn(t))
      BY <3>1, <3>2 DEF ConnStates
    <3>4. Conn(t).closed /\ Len(Conn(t).buf) < 4
      BY <3>3 DEF LockedOK, ConnOK
    <3>5. IsShut(shut) /\ shut.lock = t /\ Len(shut.buf) < 4
      BY <3>2, <3>4 DEF IsShut
    <3> QED
      BY <3>1, <3>2, <3>4, <3>5
  <2>2. CASE at[t].then # "free"
    <3> DEFINE i == at[t].id
              c == shut
              place == [at[t] EXCEPT !.pc = at[t].then]
    <3>1. Relocks(t, i, c, place)
      BY <2>1, <2>2 DEF LockOwner, Relocks
    <3>2. Leaves(t, i, c, place)
      <4>1. UNCHANGED mRunning /\ (t = Svc => place.pc \notin {"free", "delete"})
        BY <2>1, <2>2, <3>1
      <4>2. ConnOK(conns[i])
        BY <3>1 DEF ConnStates, Relocks
      <4>3. ConnOK(c)
        BY <2>1, <2>2, <3>1, <4>2 DEF ConnOK, IsOpen, IsShut
      <4>4. place.pc \in LockPcs => LockedOK(t, place.pc, c)
        BY <2>1, <2>2, <3>1, <4>2 DEF ConnOK, LockedOK, IsOpen, IsShut
      <4>5. IsShut(conns[i]) => IsShut(c)
        BY <2>1, <2>2, <3>1 DEF ConnOK, IsOpen, IsShut
      <4> QED
        BY ONLY <3>1, <4>1, <4>3, <4>4, <4>5, Zenon DEF Leaves
    <3> QED
      BY <3>2, LeavesKeepsStates
  <2>3. CASE at[t].then = "free"
    <3>1. t = Svc
      BY <2>3 DEF ThreadPlaces
    <3> DEFINE c == Unlocked(shut)
               place == [at[Svc] EXCEPT !.pc = "free"]
    <3>2. /\ SetConn(Svc, c) /\ at' = [at EXCEPT ![Svc] = place]
          /\ place.pc = "free" /\ place.id = at[Svc].id /\ Conn(Svc).lock = Svc
          /\ IsShut(c) /\ c.lock = NoEnd /\ Len(c.buf) < 4
      BY <2>1, <2>3, <3>1 DEF Unlocked, IsShut
    <3> HIDE DEF shut, c, place
    <3>3. Relocks(Svc, at[Svc].id, c, place)
      BY <2>1, <3>1, <3>2 DEF Relocks
    <3>4. LockOwner'
      BY <3>3, RelocksKeepsOwner
    <3>5. ConnStates'
      BY <2>1, <3>1, <3>2, ShutByService DEF ConnOK, Relocks
    <3> QED
      BY <3>4, <3>5
  <2> QED
    BY <2>2, <2>3
<1>9. ASSUME NEW t \in {Drv, Svc}, EnqueueDrop(t) PROVE LockOwner' /\ ConnStates'
  <2>1. /\ At(t, "drop") /\ Conn(t).lock = t /\ at[t].id \in DOMAIN conns
        /\ UNCHANGED mRunning /\ Go(t, "unlock") /\ ConnOK(Conn(t)) /\ LockedOK(t, "drop", Conn(t))
        /\ SetConn(t, IF t = Drv THEN [Conn(t) EXCEPT !.buf = <<>>] ELSE Conn(t))
    BY <1>9 DEF EnqueueDrop, LockOwner, ConnStates
  <2> DEFINE i == at[t].id
            c == (IF t = Drv THEN [Conn(t) EXCEPT !.buf = <<>>] ELSE Conn(t))
            place == [at[t] EXCEPT !.pc = "unlock"]
  <2>2. Relocks(t, i, c, place)
    BY <2>1 DEF LockOwner, Relocks
  <2>3. Leaves(t, i, c, place)
    <3>1. UNCHANGED mRunning /\ (t = Svc => place.pc \notin {"free", "delete"})
      BY <2>1, <2>2
    <3>2. ConnOK(conns[i])
      BY <2>2 DEF ConnStates, Relocks
    <3>3. ConnOK(c)
      BY <2>1, <2>2, <3>2 DEF ConnOK, IsOpen, IsShut
    <3>4. place.pc \in LockPcs => LockedOK(t, place.pc, c)
      BY <2>1, <2>2, <3>2 DEF ConnOK, LockedOK, IsOpen, IsShut
    <3>5. IsShut(conns[i]) => IsShut(c)
      BY <2>1, <2>2 DEF ConnOK, IsOpen, IsShut
    <3> QED
      BY ONLY <2>2, <3>1, <3>3, <3>4, <3>5, Zenon DEF Leaves
  <2> QED
    BY <2>3, LeavesKeepsStates
<1>10. ASSUME NEW t \in {Drv, Svc}, t = Drv => Alive(Drv), WriteData(t) PROVE LockOwner' /\ ConnStates'
  <2>1. UNCHANGED mRunning /\ At(t, "write") /\ at[t].id \in DOMAIN conns
    BY <1>10 DEF WriteData, Alive, LockOwner
  <2>2. CASE Return(t) /\ UNCHANGED conns
    <3> DEFINE place == [pc |-> Home[t], id |-> NoId, fd |-> NoFd, then |-> "drop"]
    <3>1. at' = [at EXCEPT ![t] = place] /\ ~Locking(t)
      BY <2>1, <2>2
    <3>2. place.pc \notin LockPcs /\ place.pc \notin {"enq", "write", "free", "delete"}
      OBVIOUS
    <3> HIDE DEF place
    <3> QED
      BY <2>1, <2>2, <3>1, <3>2, MoveKeepsStates
  <2>3. CASE /\ Go(t, "sending") /\ SetConn(t, Locked(Conn(t), t)) /\ MutexIsFree(t)
             /\ ~Conn(t).closed /\ Conn(t).sendq # <<>>
    <3> DEFINE i == at[t].id
              c == Locked(Conn(t), t)
              place == [at[t] EXCEPT !.pc = "sending"]
    <3>1. Relocks(t, i, c, place)
      BY <2>1, <2>3 DEF LockOwner, Relocks, Locked, MutexIsFree
    <3>2. Leaves(t, i, c, place)
      <4>1. UNCHANGED mRunning /\ (t = Svc => place.pc \notin {"free", "delete"})
        BY <2>1, <2>3, <3>1
      <4>2. ConnOK(conns[i])
        BY <3>1 DEF ConnStates, Relocks
      <4>3. ConnOK(c)
        BY <2>1, <2>3, <3>1, <4>2 DEF ConnOK, IsOpen, IsShut, Locked, MutexIsFree
      <4>4. place.pc \in LockPcs => LockedOK(t, place.pc, c)
        BY <2>1, <2>3, <3>1, <4>2 DEF ConnOK, LockedOK, IsOpen, IsShut, Locked, MutexIsFree
      <4>5. IsShut(conns[i]) => IsShut(c)
        BY <2>1, <2>3, <3>1 DEF ConnOK, IsOpen, IsShut, Locked, MutexIsFree
      <4> QED
        BY ONLY <3>1, <4>1, <4>3, <4>4, <4>5, Zenon DEF Leaves
    <3> QED
      BY <3>2, LeavesKeepsStates
  <2> QED
    BY <1>10, <2>2, <2>3 DEF WriteData
<1>11. ASSUME NEW t \in {Drv, Svc}, SendData(t) PROVE LockOwner' /\ ConnStates'
  <2>1. /\ At(t, "sending") /\ Conn(t).lock = t /\ at[t].id \in DOMAIN conns
        /\ IsOpen(Conn(t)) /\ UNCHANGED mRunning
    BY <1>11 DEF SendData, LockOwner, ConnStates, LockedOK
  <2>2. CASE SetConn(t, Unlocked([Conn(t) EXCEPT !.sendq = Tail(@)])) /\ Return(t)
    <3> DEFINE i == at[t].id
              c == Unlocked([Conn(t) EXCEPT !.sendq = Tail(@)])
              place == [pc |-> Home[t], id |-> NoId, fd |-> NoFd, then |-> "drop"]
    <3>1. Relocks(t, i, c, place)
      BY <2>1, <2>2 DEF LockOwner, Relocks, Unlocked
    <3>2. Leaves(t, i, c, place)
      <4>1. UNCHANGED mRunning /\ (t = Svc => place.pc \notin {"free", "delete"})
        BY <2>1, <2>2, <3>1
      <4>2. ConnOK(conns[i])
        BY <3>1 DEF ConnStates, Relocks
      <4>3. ConnOK(c)
        BY <2>1, <2>2, <3>1, <4>2 DEF ConnOK, IsOpen, IsShut, Unlocked
      <4>4. place.pc \in LockPcs => LockedOK(t, place.pc, c)
        BY <2>1, <2>2, <3>1, <4>2 DEF ConnOK, LockedOK, IsOpen, IsShut, Unlocked
      <4>5. IsShut(conns[i]) => IsShut(c)
        BY <2>1, <2>2, <3>1 DEF ConnOK, IsOpen, IsShut, Unlocked
      <4> QED
        BY ONLY <3>1, <4>1, <4>3, <4>4, <4>5, Zenon DEF Leaves
    <3> QED
      BY <3>2, LeavesKeepsStates
  <2>3. CASE SetConn(t, [Conn(t) EXCEPT !.ok = FALSE]) /\ Go(t, "unregRead")
    <3> DEFINE i == at[t].id
              c == [Conn(t) EXCEPT !.ok = FALSE]
              place == [at[t] EXCEPT !.pc = "unregRead"]
    <3>1. Relocks(t, i, c, place)
      BY <2>1, <2>3 DEF LockOwner, Relocks
    <3>2. Leaves(t, i, c, place)
      <4>1. UNCHANGED mRunning /\ (t = Svc => place.pc \notin {"free", "delete"})
        BY <2>1, <2>3, <3>1
      <4>2. ConnOK(conns[i])
        BY <3>1 DEF ConnStates, Relocks
      <4>3. ConnOK(c)
        BY <2>1, <2>3, <3>1, <4>2 DEF ConnOK, IsOpen, IsShut
      <4>4. place.pc \in LockPcs => LockedOK(t, place.pc, c)
        BY <2>1, <2>3, <3>1, <4>2 DEF ConnOK, LockedOK, IsOpen, IsShut
      <4>5. IsShut(conns[i]) => IsShut(c)
        BY <2>1, <2>3, <3>1 DEF ConnOK, IsOpen, IsShut
      <4> QED
        BY ONLY <3>1, <4>1, <4>3, <4>4, <4>5, Zenon DEF Leaves
    <3> QED
      BY <3>2, LeavesKeepsStates
  <2> QED
    BY <1>11, <2>2, <2>3 DEF SendData
<1>12. ASSUME NEW t \in {Drv, Svc}, Unlock(t) PROVE LockOwner' /\ ConnStates'
  <2>1. /\ At(t, "unlock") /\ Conn(t).lock = t /\ at[t].id \in DOMAIN conns
        /\ UNCHANGED mRunning /\ Return(t) /\ ConnOK(Conn(t)) /\ LockedOK(t, "unlock", Conn(t))
        /\ SetConn(t, Unlocked(Conn(t)))
    BY <1>12 DEF Unlock, LockOwner, ConnStates
  <2> DEFINE i == at[t].id
            c == Unlocked(Conn(t))
            place == [pc |-> Home[t], id |-> NoId, fd |-> NoFd, then |-> "drop"]
  <2>2. Relocks(t, i, c, place)
    BY <2>1 DEF LockOwner, Relocks, Unlocked
  <2>3. Leaves(t, i, c, place)
    <3>1. UNCHANGED mRunning /\ (t = Svc => place.pc \notin {"free", "delete"})
      BY <2>1, <2>2
    <3>2. ConnOK(conns[i])
      BY <2>2 DEF ConnStates, Relocks
    <3>3. ConnOK(c)
      BY <2>1, <2>2, <3>2 DEF ConnOK, LockedOK, IsOpen, IsShut, Unlocked
    <3>4. place.pc \in LockPcs => LockedOK(t, place.pc, c)
      BY <2>1, <2>2, <3>2 DEF ConnOK, LockedOK, IsOpen, IsShut, Unlocked
    <3>5. IsShut(conns[i]) => IsShut(c)
      BY <2>1, <2>2 DEF ConnOK, IsOpen, IsShut, Unlocked
    <3> QED
      BY ONLY <2>2, <3>1, <3>3, <3>4, <3>5, Zenon DEF Leaves
  <2> QED
    BY <2>3, LeavesKeepsStates
<1>13. ASSUME NEW t \in {Svc, App}, InsertConnection(t), fault' = "none" PROVE LockOwner' /\ ConnStates'
  <2> DEFINE new == NewConnection(EndOf(at[t].fd), at[t].fd)
  <2>1. /\ At(t, "insert") /\ at[t].id \notin DOMAIN conns /\ Go(t, "regRead") /\ UNCHANGED mRunning
        /\ conns' = [i \in DOMAIN conns \cup {at[t].id} |-> IF i = at[t].id THEN new ELSE conns[i]]
    BY <1>13 DEF InsertConnection, Dies
  <2>2. new.lock = NoEnd /\ ConnOK(new)
    BY <2>1, TcpSocketAssumption DEF NewConnection, ConnOK, IsOpen, PendingSockets, PendingThreads, IsPending, NoFd
  <2> HIDE DEF new
  <2>3. LockOwner'
    BY <2>1, <2>2 DEF LockOwner
  <2>4. ConnStates'
    <3>1. \A j \in DOMAIN conns' : ConnOK(conns'[j])
      BY <2>1, <2>2 DEF ConnStates
    <3>2. \A u \in Threads : Locking(u)' =>
            Locking(u) /\ u # t /\ at'[u] = at[u] /\ conns'[at[u].id] = conns[at[u].id]
      BY <2>1 DEF LockOwner
    <3>3. ASSUME NEW u \in Threads, Locking(u)' PROVE LockedOK(u, at[u].pc, Conn(u))'
      <4>1. LockedOK(u, at[u].pc, Conn(u))
        BY <3>2, <3>3 DEF ConnStates
      <4> QED
        <5>1. at'[u].pc = at[u].pc /\ Conn(u)' = Conn(u) /\ UNCHANGED mRunning
          BY <2>1, <3>2, <3>3
        <5> QED
          BY ONLY <4>1, <5>1 DEF LockedOK
    <3>4. at'[Svc].pc \in {"free", "delete"} => IsShut(Conn(Svc))'
      <4>1. at'[Svc].pc \in {"free", "delete"} => Svc # t /\ at'[Svc] = at[Svc]
        BY <2>1
      <4> QED
        BY <2>1, <4>1 DEF ConnStates, LockOwner
    <3> QED
      BY <3>1, <3>3, <3>4 DEF ConnStates
  <2> QED
    BY <2>3, <2>4
<1>14. ASSUME NEW t \in {Svc, App}, RegistReadEvent(t), fault' = "none" PROVE LockOwner' /\ ConnStates'
  <2>1. PICK place : place.pc = "regWrite" /\ at' = [at EXCEPT ![t] = place]
    BY <1>14 DEF RegistReadEvent, RegistEvent, Dies
  <2>2. at[t].pc = "regRead" /\ UNCHANGED <<conns, mRunning>>
    BY <1>14 DEF RegistReadEvent, RegistEvent, Dies
  <2>3. t \in Threads /\ ~Locking(t) /\ place.pc \notin LockPcs
        /\ place.pc \notin {"enq", "write", "free", "delete"}
    BY <2>1, <2>2
  <2> QED
    BY <2>1, <2>2, <2>3, MoveKeepsStates
<1>15. ASSUME NEW t \in {Svc, App}, RegistWriteEvent(t), fault' = "none" PROVE LockOwner' /\ ConnStates'
  <2>1. PICK place : place.pc = Home[t] /\ at' = [at EXCEPT ![t] = place]
    BY <1>15 DEF RegistWriteEvent, RegistEvent, Dies
  <2>2. at[t].pc = "regWrite" /\ UNCHANGED <<conns, mRunning>>
    BY <1>15 DEF RegistWriteEvent, RegistEvent, Dies
  <2>3. t \in Threads /\ ~Locking(t) /\ place.pc \notin LockPcs
        /\ place.pc \notin {"enq", "write", "free", "delete"}
    BY <2>1, <2>2
  <2> QED
    BY <2>1, <2>2, <2>3, MoveKeepsStates
<1>16. CASE AcceptConnection
  BY <1>16
     DEF LockOwner, ConnStates, LockedOK, AcceptConnection, Taking
<1>17. CASE SendMsg
  <2>1. /\ At(Svc, "take") /\ UNCHANGED <<conns, mRunning>>
        /\ UNCHANGED at \/ (Ctx.id \in DOMAIN conns /\ GoFor(Svc, "enq", Ctx.id, NoFd))
    BY <1>17 DEF SendMsg, Taking
  <2>2. CASE UNCHANGED at
    BY <1>1, <2>1, <2>2
  <2>3. CASE Ctx.id \in DOMAIN conns /\ GoFor(Svc, "enq", Ctx.id, NoFd)
    <3> DEFINE place == [pc |-> "enq", id |-> Ctx.id, fd |-> NoFd, then |-> "drop"]
    <3>1. at' = [at EXCEPT ![Svc] = place] /\ UNCHANGED <<conns, mRunning>> /\ ~Locking(Svc)
      BY <2>1, <2>3
    <3>2. place.pc \notin LockPcs \cup {"free", "delete"} /\ place.id \in DOMAIN conns
      BY <2>3
    <3> QED
      BY <3>1, <3>2, WalkKeepsStates
  <2> QED
    BY <2>1, <2>2, <2>3
<1>18. CASE EnqueueMsg
  <2>1. /\ At(Svc, "enq") /\ MutexIsFree(Svc) /\ at[Svc].id \in DOMAIN conns /\ ConnOK(Conn(Svc))
        /\ UNCHANGED mRunning /\ Go(Svc, "write")
        /\ SetConn(Svc, [Conn(Svc) EXCEPT !.sendq = Append(@, Ctx.msg)])
    BY <1>18 DEF EnqueueMsg, ThenWrites, LockOwner, ConnStates
  <2> DEFINE i == at[Svc].id
            c == [Conn(Svc) EXCEPT !.sendq = Append(@, Ctx.msg)]
            place == [at[Svc] EXCEPT !.pc = "write"]
  <2>2. Relocks(Svc, i, c, place)
    BY <2>1 DEF LockOwner, Relocks, MutexIsFree
  <2>3. Leaves(Svc, i, c, place)
    <3>1. UNCHANGED mRunning /\ (Svc = Svc => place.pc \notin {"free", "delete"})
      BY <2>1, <2>2
    <3>2. ConnOK(conns[i])
      BY <2>2 DEF ConnStates, Relocks
    <3>3. ConnOK(c)
      BY <2>1, <2>2, <3>2 DEF ConnOK, IsOpen, IsShut, MutexIsFree
    <3>4. place.pc \in LockPcs => LockedOK(Svc, place.pc, c)
      BY <2>1, <2>2, <3>2 DEF ConnOK, LockedOK, IsOpen, IsShut, MutexIsFree
    <3>5. IsShut(conns[i]) => IsShut(c)
      BY <2>1, <2>2 DEF ConnOK, IsOpen, IsShut, MutexIsFree
    <3> QED
      BY ONLY <2>2, <3>1, <3>3, <3>4, <3>5, Zenon DEF Leaves
  <2> QED
    BY <2>3, LeavesKeepsStates
<1>19. CASE DropConnection
  <2>1. CASE /\ at' = [at EXCEPT ![Svc] = [pc |-> "free", id |-> Ctx.id, fd |-> NoFd, then |-> "drop"]]
             /\ At(Svc, "take") /\ UNCHANGED <<conns, mRunning>> /\ IsShut(conns[Ctx.id]) /\ Ctx.id \in DOMAIN conns
    <3> DEFINE place == [pc |-> "free", id |-> Ctx.id, fd |-> NoFd, then |-> "drop"]
    <3>1. at' = [at EXCEPT ![Svc] = place] /\ ~Locking(Svc) /\ Svc \in Threads
      BY <2>1
    <3>2. place.pc \notin LockPcs /\ place.id = Ctx.id
      OBVIOUS
    <3> HIDE DEF place
    <3> QED
      BY <2>1, <3>1, <3>2, MoveKeepsStates
  <2>2. CASE UNCHANGED <<at, conns, mRunning>>
    BY <1>1, <2>2
  <2>3. Ctx.id \in DOMAIN conns => IsShut(conns[Ctx.id])
    BY <1>19, DroppedIsShut DEF DropConnection, Taking
  <2> QED
    BY <1>19, <2>1, <2>2, <2>3 DEF DropConnection, Taking
<1>20. CASE FreeSocket
  <2> DEFINE c == [Conn(Svc) EXCEPT !.freed = TRUE, !.fd = NoFd]
             place == [at[Svc] EXCEPT !.pc = "delete"]
  <2>1. /\ At(Svc, "free") /\ at[Svc].id \in DOMAIN conns /\ UNCHANGED mRunning
        /\ SetConn(Svc, c) /\ at' = [at EXCEPT ![Svc] = place]
        /\ IsShut(c) /\ Len(c.buf) < 4 /\ c.lock = Conn(Svc).lock /\ IsShut(Conn(Svc))
        /\ place.pc = "delete" /\ place.id = at[Svc].id
    BY <1>20 DEF FreeSocket, LockOwner, ConnStates, ConnOK, IsShut
  <2> HIDE DEF c, place
  <2>2. LockOwner'
    BY <2>1 DEF LockOwner
  <2>3. ConnStates'
    BY <2>1, ShutByService DEF ConnOK, Relocks
  <2> QED
    BY <2>2, <2>3
<1>21. CASE DeleteConnection
  <2>1. LockOwner'
    BY <1>21 DEF LockOwner, DeleteConnection, FreesLocked, MutexIsFree, Restrict
  <2>2. ConnStates'
    <3>1. /\ \A j \in DOMAIN conns' : j \in DOMAIN conns /\ conns'[j] = conns[j]
          /\ \A j \in DOMAIN conns : j # at[Svc].id => j \in DOMAIN conns'
          /\ conns[at[Svc].id].lock = NoEnd /\ UNCHANGED mRunning
      BY <1>21 DEF DeleteConnection, FreesLocked, MutexIsFree, Restrict
    <3>2. at'[Svc].pc \in {"dropAll", "take"} /\ \A t \in Threads : t # Svc => at'[t] = at[t]
      BY <1>21 DEF DeleteConnection
    <3>3. \A j \in DOMAIN conns' : ConnOK(conns'[j])
      BY <3>1 DEF ConnStates
    <3>4. ASSUME NEW t \in Threads, Locking(t)'
          PROVE  at'[t] = at[t] /\ Locking(t) /\ conns'[at[t].id] = conns[at[t].id]
      <4>1. t # Svc
        BY <3>2, <3>4 DEF Locking, LockPcs
      <4>2. at'[t] = at[t] /\ Locking(t)
        BY <3>2, <3>4, <4>1 DEF Locking
      <4>3. at[t].id \in DOMAIN conns /\ conns[at[t].id].lock = t
        BY <4>2 DEF LockOwner
      <4> QED
        BY <3>1, <4>2, <4>3
    <3>5. \A t \in Threads : Locking(t)' => LockedOK(t, at[t].pc, Conn(t))'
      BY <3>1, <3>4 DEF ConnStates, LockedOK
    <3> QED
      BY <3>2, <3>3, <3>5 DEF ConnStates
  <2> QED
    BY <2>1, <2>2
<1>22. CASE StopListener
  BY <1>22
     DEF LockOwner, ConnStates, LockedOK, StopListener
<1>23. CASE DropNextConnection
  <2> DEFINE i == Min(DOMAIN conns)
  <2>1. i \in DOMAIN conns /\ conns[i].lock = NoEnd /\ At(Svc, "dropAll") /\ UNCHANGED mRunning
    BY <1>23, NextIsConnection DEF DropNextConnection
  <2>2. CASE /\ at' = [at EXCEPT ![Svc] = [pc |-> "free", id |-> i, fd |-> NoFd, then |-> "free"]]
             /\ UNCHANGED conns /\ conns[i].closed
    <3> DEFINE place == [pc |-> "free", id |-> i, fd |-> NoFd, then |-> "free"]
    <3> HIDE DEF i
    <3>1. at' = [at EXCEPT ![Svc] = place] /\ ~Locking(Svc) /\ Svc \in Threads
      BY <2>1, <2>2
    <3>2. place.pc \notin LockPcs /\ place.id = i
      OBVIOUS
    <3>3. IsShut(conns[i])
      BY <2>1, <2>2 DEF ConnStates, ConnOK, IsOpen
    <3> HIDE DEF place
    <3> QED
      BY <2>1, <2>2, <3>1, <3>2, <3>3, MoveKeepsStates
  <2>3. CASE /\ at' = [at EXCEPT ![Svc] = [pc |-> "unregRead", id |-> i, fd |-> NoFd, then |-> "free"]]
             /\ conns' = [conns EXCEPT ![i] = Locked(@, Svc)] /\ ~conns[i].closed
    <3> DEFINE c == Locked(conns[i], Svc)
               place == [pc |-> "unregRead", id |-> i, fd |-> NoFd, then |-> "free"]
    <3> HIDE DEF i
    <3>1. Relocks(Svc, i, c, place)
      BY <2>1, <2>3 DEF Locked, Relocks
    <3>2. Leaves(Svc, i, c, place)
      <4>1. UNCHANGED mRunning /\ (Svc = Svc => place.pc \notin {"free", "delete"})
        BY <2>1, <2>3, <3>1
      <4>2. ConnOK(conns[i])
        BY <3>1 DEF ConnStates, Relocks
      <4>3. ConnOK(c)
        BY <2>1, <2>3, <3>1, <4>2 DEF Locked, ConnOK, IsOpen, IsShut
      <4>4. place.pc \in LockPcs => LockedOK(Svc, place.pc, c)
        BY <2>1, <2>3, <3>1, <4>2 DEF Locked, ConnOK, LockedOK, IsOpen, IsShut
      <4>5. IsShut(conns[i]) => IsShut(c)
        BY <2>1, <2>3, <3>1 DEF Locked, ConnOK, IsOpen, IsShut
      <4> QED
        BY ONLY <3>1, <4>1, <4>3, <4>4, <4>5, Zenon DEF Leaves
    <3> QED
      BY <3>2, LeavesKeepsStates
  <2> QED
    BY <1>23, <2>2, <2>3 DEF DropNextConnection
<1>24. CASE AllDropped
  BY <1>24
     DEF LockOwner, ConnStates, LockedOK, AllDropped
<1>25. CASE DriverStop /\ fault' = "none"
  BY <1>25
     DEF LockOwner, ConnStates, LockedOK, DriverStop, Dies, ThreadPlaces
<1>26. CASE JoinDriver
  BY <1>26
     DEF LockOwner, ConnStates, LockedOK, JoinDriver
<1>27. ASSUME NEW r \in Remotes, StartConnectRemote(r) PROVE LockOwner' /\ ConnStates'
  BY <1>27
     DEF LockOwner, ConnStates, LockedOK, StartConnectRemote
<1>28. CASE Stop
  BY <1>28
     DEF LockOwner, ConnStates, LockedOK, Stop
<1>29. CASE StopReturns
  BY <1>29
     DEF LockOwner, ConnStates, LockedOK, StopReturns
<1>30. CASE UNCHANGED AllButFault
  BY <1>1, <1>30 DEF AllButFault, netVars, connVars, drvVars, svcVars, srvVars
<1> QED
  BY Steps, <1>1, <1>2, <1>3, <1>4, <1>5, <1>6, <1>7, <1>8, <1>9, <1>10, <1>11, <1>12, <1>13,
     <1>14, <1>15, <1>16, <1>17, <1>18, <1>19, <1>20, <1>21, <1>22, <1>23, <1>24, <1>25, <1>26,
     <1>27, <1>28, <1>29, <1>30
     DEF DriverMoves, ConnectionMoves, RegisterMoves, ServiceMoves, AppMoves, Accept,
         FindReady, ProcessRecv, ServerHandles, EndStep, netVars, connVars, drvVars, svcVars,
         srvVars


\* What most steps leave of the connections.
KeepsConns ==
  /\ DOMAIN conns' = DOMAIN conns
  /\ \A i \in DOMAIN conns :
       /\ conns'[i].end = conns[i].end /\ conns'[i].fd = conns[i].fd
       /\ conns'[i].closed = conns[i].closed /\ conns'[i].freed = conns[i].freed
ChangesConns ==
  \/ \E t \in {Drv, Svc} : CloseUnregistersRead(t) \/ CloseSocket(t)
  \/ FreeSocket \/ DeleteConnection
  \/ \E t \in {Svc, App} : InsertConnection(t)

LEMMA OneConn ==
  ASSUME TypeOK, NEW i \in DOMAIN conns, NEW c, conns' = [conns EXCEPT ![i] = c],
         c.end = conns[i].end, c.fd = conns[i].fd, c.closed = conns[i].closed, c.freed = conns[i].freed
  PROVE  KeepsConns
BY DEF KeepsConns

LEMMA ConnsAreKept ==
  ASSUME ControlInv, [Next]_vars
  PROVE  KeepsConns \/ ChangesConns
<1> USE AtType, ConnType
<1>a. TypeOK /\ LockOwner
  BY DEF ControlInv
<1> USE <1>a, NetServiceAssumption
    DEF At, Go, GoFor, Return, Home, SetConn, Conn, svcVars, connVars, Threads
<1>1. CASE UNCHANGED conns
  BY <1>1
     DEF KeepsConns
<1>2. CASE Alive(Drv) /\ ReadData
  <2> DEFINE c == Locked(Conn(Drv), Drv)
  <2>1. /\ conns' = [conns EXCEPT ![at[Drv].id] = c] /\ at[Drv].id \in DOMAIN conns
        /\ c.end = conns[at[Drv].id].end /\ c.fd = conns[at[Drv].id].fd
        /\ c.closed = conns[at[Drv].id].closed /\ c.freed = conns[at[Drv].id].freed
    BY <1>2 DEF ReadData, Alive, Locked
  <2> QED
    BY <2>1, OneConn
<1>3. CASE Alive(Drv) /\ PreRecv
  <2>1. at[Drv].id \in DOMAIN conns
    BY <1>3 DEF Alive
  <2>2. ASSUME NEW unit, SetConn(Drv, [Conn(Drv) EXCEPT !.buf = Append(@, unit)])
        PROVE  KeepsConns
    <3> DEFINE c == [Conn(Drv) EXCEPT !.buf = Append(@, unit)]
    <3>1. /\ conns' = [conns EXCEPT ![at[Drv].id] = c] /\ at[Drv].id \in DOMAIN conns
          /\ c.end = conns[at[Drv].id].end /\ c.fd = conns[at[Drv].id].fd
          /\ c.closed = conns[at[Drv].id].closed /\ c.freed = conns[at[Drv].id].freed
      BY <2>1, <2>2 DEF SetConn
    <3> QED
      BY <3>1, OneConn
  <2>3. CASE SetConn(Drv, [Conn(Drv) EXCEPT !.ok = FALSE])
    <3> DEFINE c == [Conn(Drv) EXCEPT !.ok = FALSE]
    <3>1. /\ conns' = [conns EXCEPT ![at[Drv].id] = c] /\ at[Drv].id \in DOMAIN conns
          /\ c.end = conns[at[Drv].id].end /\ c.fd = conns[at[Drv].id].fd
          /\ c.closed = conns[at[Drv].id].closed /\ c.freed = conns[at[Drv].id].freed
      BY <2>1, <2>3 DEF SetConn
    <3> QED
      BY <3>1, OneConn
  <2> QED
    BY <1>3, <2>2, <2>3, PreRecvEdits
<1>4. CASE Alive(Drv) /\ RecvData
  <2>1. at[Drv].id \in DOMAIN conns
    BY <1>4 DEF Alive
  <2>2. PICK buf : \/ SetConn(Drv, Unlocked([Conn(Drv) EXCEPT !.buf = buf]))
                  \/ SetConn(Drv, [Conn(Drv) EXCEPT !.buf = buf])
    <3>1. \E k : LET buf == Placed(Conn(Drv).buf, SubSeq(wire[End(Drv)], 1, k)) IN
            \/ SetConn(Drv, Unlocked([Conn(Drv) EXCEPT !.buf = buf]))
            \/ SetConn(Drv, Unlocked([Conn(Drv) EXCEPT !.buf = <<>>]))
            \/ SetConn(Drv, [Conn(Drv) EXCEPT !.buf = <<>>])
      BY <1>4 DEF RecvData
    <3>2. CASE SetConn(Drv, Unlocked([Conn(Drv) EXCEPT !.buf = <<>>])) \/ SetConn(Drv, [Conn(Drv) EXCEPT !.buf = <<>>])
      BY <3>2
    <3>3. ASSUME NEW buf, SetConn(Drv, Unlocked([Conn(Drv) EXCEPT !.buf = buf])) 
          PROVE  \E b : SetConn(Drv, Unlocked([Conn(Drv) EXCEPT !.buf = b])) 
      BY <3>3
    <3> QED
      BY <3>1, <3>2, <3>3
  <2>3. CASE SetConn(Drv, Unlocked([Conn(Drv) EXCEPT !.buf = buf]))
    <3> DEFINE c == Unlocked([Conn(Drv) EXCEPT !.buf = buf])
    <3>1. /\ conns' = [conns EXCEPT ![at[Drv].id] = c] /\ at[Drv].id \in DOMAIN conns
          /\ c.end = conns[at[Drv].id].end /\ c.fd = conns[at[Drv].id].fd
          /\ c.closed = conns[at[Drv].id].closed /\ c.freed = conns[at[Drv].id].freed
      BY <2>1, <2>3 DEF SetConn, Unlocked
    <3> QED
      BY <3>1, OneConn
  <2>4. CASE SetConn(Drv, [Conn(Drv) EXCEPT !.buf = buf])
    <3> DEFINE c == [Conn(Drv) EXCEPT !.buf = buf]
    <3>1. /\ conns' = [conns EXCEPT ![at[Drv].id] = c] /\ at[Drv].id \in DOMAIN conns
          /\ c.end = conns[at[Drv].id].end /\ c.fd = conns[at[Drv].id].fd
          /\ c.closed = conns[at[Drv].id].closed /\ c.freed = conns[at[Drv].id].freed
      BY <2>1, <2>4 DEF SetConn
    <3> QED
      BY <3>1, OneConn
  <2> QED
    BY <2>2, <2>3, <2>4
<1>5. CASE Alive(Drv) /\ RecvGetsNothing
  <2>1. at[Drv].id \in DOMAIN conns
    BY <1>5 DEF Alive
  <2>2. CASE SetConn(Drv, [Conn(Drv) EXCEPT !.ok = FALSE])
    <3> DEFINE c == [Conn(Drv) EXCEPT !.ok = FALSE]
    <3>1. /\ conns' = [conns EXCEPT ![at[Drv].id] = c] /\ at[Drv].id \in DOMAIN conns
          /\ c.end = conns[at[Drv].id].end /\ c.fd = conns[at[Drv].id].fd
          /\ c.closed = conns[at[Drv].id].closed /\ c.freed = conns[at[Drv].id].freed
      BY <2>1, <2>2 DEF SetConn
    <3> QED
      BY <3>1, OneConn
  <2>3. CASE SetConn(Drv, Unlocked(Conn(Drv)))
    <3> DEFINE c == Unlocked(Conn(Drv))
    <3>1. /\ conns' = [conns EXCEPT ![at[Drv].id] = c] /\ at[Drv].id \in DOMAIN conns
          /\ c.end = conns[at[Drv].id].end /\ c.fd = conns[at[Drv].id].fd
          /\ c.closed = conns[at[Drv].id].closed /\ c.freed = conns[at[Drv].id].freed
      BY <2>1, <2>3 DEF SetConn, Unlocked
    <3> QED
      BY <3>1, OneConn
  <2> QED
    BY <1>5, <2>2, <2>3 DEF RecvGetsNothing
<1>6. ASSUME NEW t \in {Drv, Svc}, CloseUnregistersRead(t) PROVE KeepsConns \/ ChangesConns
  BY <1>6 DEF ChangesConns
<1>7. ASSUME NEW t \in {Drv, Svc}, CloseSocket(t) PROVE KeepsConns \/ ChangesConns
  BY <1>7 DEF ChangesConns
<1>8. ASSUME NEW t \in {Drv, Svc}, EnqueueDrop(t) PROVE KeepsConns \/ ChangesConns
  <2> DEFINE c == (IF t = Drv THEN [Conn(t) EXCEPT !.buf = <<>>] ELSE Conn(t))
  <2>1. /\ conns' = [conns EXCEPT ![at[t].id] = c] /\ at[t].id \in DOMAIN conns
        /\ c.end = conns[at[t].id].end /\ c.fd = conns[at[t].id].fd
        /\ c.closed = conns[at[t].id].closed /\ c.freed = conns[at[t].id].freed
    BY <1>8 DEF EnqueueDrop, LockOwner, Locking, LockPcs
  <2> QED
    BY <2>1, OneConn
<1>9. ASSUME NEW t \in {Drv, Svc}, t = Drv => Alive(Drv), WriteData(t) PROVE KeepsConns \/ ChangesConns
  <2>1. at[t].id \in DOMAIN conns
    BY <1>9 DEF Alive, LockOwner, WriteData
  <2>2. CASE SetConn(t, Locked(Conn(t), t))
    <3> DEFINE c == Locked(Conn(t), t)
    <3>1. /\ conns' = [conns EXCEPT ![at[t].id] = c] /\ at[t].id \in DOMAIN conns
          /\ c.end = conns[at[t].id].end /\ c.fd = conns[at[t].id].fd
          /\ c.closed = conns[at[t].id].closed /\ c.freed = conns[at[t].id].freed
      BY <2>1, <2>2 DEF Locked
    <3> QED
      BY <3>1, OneConn
  <2>3. CASE UNCHANGED conns
    BY <2>3 DEF KeepsConns
  <2> QED
    BY <1>9, <2>2, <2>3 DEF WriteData
<1>10. ASSUME NEW t \in {Drv, Svc}, SendData(t) PROVE KeepsConns \/ ChangesConns
  <2>1. at[t].id \in DOMAIN conns
    BY <1>10 DEF LockOwner, SendData, Locking, LockPcs
  <2>2. CASE SetConn(t, Unlocked([Conn(t) EXCEPT !.sendq = Tail(@)]))
    <3> DEFINE c == Unlocked([Conn(t) EXCEPT !.sendq = Tail(@)])
    <3>1. /\ conns' = [conns EXCEPT ![at[t].id] = c] /\ at[t].id \in DOMAIN conns
          /\ c.end = conns[at[t].id].end /\ c.fd = conns[at[t].id].fd
          /\ c.closed = conns[at[t].id].closed /\ c.freed = conns[at[t].id].freed
      BY <2>1, <2>2 DEF Unlocked
    <3> QED
      BY <3>1, OneConn
  <2>3. CASE SetConn(t, [Conn(t) EXCEPT !.ok = FALSE])
    <3> DEFINE c == [Conn(t) EXCEPT !.ok = FALSE]
    <3>1. /\ conns' = [conns EXCEPT ![at[t].id] = c] /\ at[t].id \in DOMAIN conns
          /\ c.end = conns[at[t].id].end /\ c.fd = conns[at[t].id].fd
          /\ c.closed = conns[at[t].id].closed /\ c.freed = conns[at[t].id].freed
      BY <2>1, <2>3 DEF SetConn
    <3> QED
      BY <3>1, OneConn
  <2> QED
    BY <1>10, <2>2, <2>3 DEF SendData
<1>11. ASSUME NEW t \in {Drv, Svc}, Unlock(t) PROVE KeepsConns \/ ChangesConns
  <2> DEFINE c == Unlocked(Conn(t))
  <2>1. /\ conns' = [conns EXCEPT ![at[t].id] = c] /\ at[t].id \in DOMAIN conns
        /\ c.end = conns[at[t].id].end /\ c.fd = conns[at[t].id].fd
        /\ c.closed = conns[at[t].id].closed /\ c.freed = conns[at[t].id].freed
    BY <1>11 DEF Unlock, Unlocked, LockOwner, Locking, LockPcs
  <2> QED
    BY <2>1, OneConn
<1>12. ASSUME NEW t \in {Svc, App}, InsertConnection(t), fault' = "none" PROVE KeepsConns \/ ChangesConns
  BY <1>12 DEF ChangesConns
<1>13. CASE EnqueueMsg
  <2> DEFINE c == [Conn(Svc) EXCEPT !.sendq = Append(@, Ctx.msg)]
  <2>1. /\ conns' = [conns EXCEPT ![at[Svc].id] = c] /\ at[Svc].id \in DOMAIN conns
        /\ c.end = conns[at[Svc].id].end /\ c.fd = conns[at[Svc].id].fd
        /\ c.closed = conns[at[Svc].id].closed /\ c.freed = conns[at[Svc].id].freed
    BY <1>13 DEF EnqueueMsg, LockOwner
  <2> QED
    BY <2>1, OneConn
<1>14. CASE FreeSocket
  BY <1>14 DEF ChangesConns
<1>15. CASE DeleteConnection
  BY <1>15 DEF ChangesConns
<1>16. CASE DropNextConnection
  <2> DEFINE i == Min(DOMAIN conns)
  <2>1. i \in DOMAIN conns
    BY <1>16, NextIsConnection DEF DropNextConnection
  <2>2. UNCHANGED conns \/ conns' = [conns EXCEPT ![i] = Locked(@, Svc)]
    BY <1>16 DEF DropNextConnection
  <2> HIDE DEF i
  <2>3. CASE conns' = [conns EXCEPT ![i] = Locked(@, Svc)]
    <3> DEFINE c == Locked(conns[i], Svc)
    <3>1. /\ conns' = [conns EXCEPT ![i] = c] /\ i \in DOMAIN conns
          /\ c.end = conns[i].end /\ c.fd = conns[i].fd
          /\ c.closed = conns[i].closed /\ c.freed = conns[i].freed
      BY <2>1, <2>3 DEF Locked
    <3> QED
      BY <3>1, OneConn
  <2> QED
    BY <2>2, <2>3 DEF KeepsConns
<1>17. CASE UNCHANGED AllButFault
  BY <1>1, <1>17 DEF AllButFault, netVars, connVars, drvVars, svcVars, srvVars
<1> QED
  BY Steps, <1>1, <1>2, <1>3, <1>4, <1>5, <1>6, <1>7, <1>8, <1>9, <1>10, <1>11, <1>12, <1>13,
     <1>14, <1>15, <1>16, <1>17
     DEF DriverMoves, ConnectionMoves, RegisterMoves, ServiceMoves, AppMoves, Accept,
         FindReady, CallHandler, RegistReadEvent, RegistEvent, Dies, RegistWriteEvent,
         AcceptConnection, ProcessRecv, SendMsg, DropConnection, StopListener, AllDropped,
         DriverStop, JoinDriver, StartConnectRemote, Stop, StopReturns, ServerHandles, EndStep,
         netVars, connVars, drvVars, svcVars, srvVars


\* What most steps leave of the threads that are about to register something.
KeepsRegistering ==
  \A t \in Threads : \A pc \in {"insert", "regRead", "regWrite"} :
    /\ at'[t].pc = pc <=> at[t].pc = pc
    /\ at[t].pc = pc => at'[t] = at[t]
ChangesRegistering ==
  \/ AcceptConnection \/ \E r \in Remotes : StartConnectRemote(r)
  \/ \E t \in {Svc, App} : RegisterMoves(t)

LEMMA OnePlace ==
  ASSUME TypeOK, NEW t \in Threads, NEW place, at' = [at EXCEPT ![t] = place],
         at[t].pc \notin {"insert", "regRead", "regWrite"}, place.pc \notin {"insert", "regRead", "regWrite"}
  PROVE  KeepsRegistering
BY AtType DEF KeepsRegistering


LEMMA RegisteringIsKept ==
  ASSUME ControlInv, [Next]_vars
  PROVE  KeepsRegistering \/ ChangesRegistering
<1> USE AtType
<1>a. TypeOK /\ ThreadPlaces
  BY DEF ControlInv
<1> USE <1>a, NetServiceAssumption
    DEF At, Go, GoFor, Return, Home, SetConn, svcVars, connVars, Threads
<1>1. CASE UNCHANGED at
  BY <1>1
     DEF KeepsRegistering
<1>2. CASE CallHandler
  <2>1. PICK pc \in {"read", "write"} : \E id : GoFor(Drv, pc, id, NoFd)
    BY <1>2 DEF CallHandler, TypeOK
  <2> QED
    BY <1>2, <2>1, OnePlace DEF CallHandler
<1>3. CASE Alive(Drv) /\ ReadData
  BY <1>3
     DEF KeepsRegistering, ReadData, MutexIsFree, Locked, Alive
<1>4. CASE Alive(Drv) /\ PreRecv
  BY <1>4
     DEF KeepsRegistering, PreRecv, AfterLength, Alive, End
<1>5. CASE Alive(Drv) /\ RecvData
  <2>1. At(Drv, "recv") /\ (Return(Drv) \/ Go(Drv, "drop"))
    BY <1>5 DEF RecvData
  <2> QED
    BY <2>1, OnePlace
<1>6. CASE Alive(Drv) /\ RecvGetsNothing
  BY <1>6
     DEF KeepsRegistering, RecvGetsNothing, Unlocked, Alive, End
<1>7. ASSUME NEW t \in {Drv, Svc}, CloseUnregistersRead(t) PROVE KeepsRegistering \/ ChangesRegistering
  BY <1>7
     DEF KeepsRegistering, CloseUnregistersRead
<1>8. ASSUME NEW t \in {Drv, Svc}, CloseSocket(t) PROVE KeepsRegistering \/ ChangesRegistering
  BY <1>8
     DEF KeepsRegistering, CloseSocket, Unlocked
<1>9. ASSUME NEW t \in {Drv, Svc}, EnqueueDrop(t) PROVE KeepsRegistering \/ ChangesRegistering
  BY <1>9
     DEF KeepsRegistering, EnqueueDrop
<1>10. ASSUME NEW t \in {Drv, Svc}, t = Drv => Alive(Drv), WriteData(t) PROVE KeepsRegistering \/ ChangesRegistering
  <2>1. At(t, "write") /\ (Return(t) \/ Go(t, "sending"))
    BY <1>10 DEF WriteData
  <2> QED
    BY <2>1, OnePlace
<1>11. ASSUME NEW t \in {Drv, Svc}, SendData(t) PROVE KeepsRegistering \/ ChangesRegistering
  <2>1. At(t, "sending") /\ (Return(t) \/ Go(t, "unregRead"))
    BY <1>11 DEF SendData
  <2> QED
    BY <2>1, OnePlace
<1>12. ASSUME NEW t \in {Drv, Svc}, Unlock(t) PROVE KeepsRegistering \/ ChangesRegistering
  BY <1>12
     DEF KeepsRegistering, Unlock, Unlocked
<1>13. ASSUME NEW t \in {Svc, App}, InsertConnection(t), fault' = "none" PROVE KeepsRegistering \/ ChangesRegistering
  BY <1>13 DEF ChangesRegistering, RegisterMoves
<1>14. ASSUME NEW t \in {Svc, App}, RegistReadEvent(t), fault' = "none" PROVE KeepsRegistering \/ ChangesRegistering
  BY <1>14 DEF ChangesRegistering, RegisterMoves
<1>15. ASSUME NEW t \in {Svc, App}, RegistWriteEvent(t), fault' = "none" PROVE KeepsRegistering \/ ChangesRegistering
  BY <1>15 DEF ChangesRegistering, RegisterMoves
<1>16. CASE AcceptConnection
  BY <1>16 DEF ChangesRegistering, RegisterMoves
<1>17. CASE SendMsg
  BY <1>17
     DEF KeepsRegistering, SendMsg, Taking
<1>18. CASE EnqueueMsg
  BY <1>18
     DEF KeepsRegistering, EnqueueMsg, ThenWrites, MutexIsFree
<1>19. CASE DropConnection
  BY <1>19
     DEF KeepsRegistering, DropConnection, Taking
<1>20. CASE FreeSocket
  BY <1>20
     DEF KeepsRegistering, FreeSocket
<1>21. CASE DeleteConnection
  BY <1>21
     DEF KeepsRegistering, DeleteConnection, FreesLocked, MutexIsFree, Restrict
<1>22. CASE StopListener
  BY <1>22
     DEF KeepsRegistering, StopListener
<1>23. CASE DropNextConnection
  BY <1>23
     DEF KeepsRegistering, DropNextConnection, Locked
<1>24. CASE AllDropped
  BY <1>24
     DEF KeepsRegistering, AllDropped
<1>25. CASE DriverStop /\ fault' = "none"
  BY <1>25
     DEF KeepsRegistering, DriverStop, Dies
<1>26. CASE JoinDriver
  BY <1>26
     DEF KeepsRegistering, JoinDriver
<1>27. ASSUME NEW r \in Remotes, StartConnectRemote(r) PROVE KeepsRegistering \/ ChangesRegistering
  BY <1>27 DEF ChangesRegistering, RegisterMoves
<1>28. CASE Stop
  BY <1>28
     DEF KeepsRegistering, Stop
<1>29. CASE StopReturns
  BY <1>29
     DEF KeepsRegistering, StopReturns
<1>30. CASE UNCHANGED AllButFault
  BY <1>1, <1>30 DEF AllButFault, netVars, connVars, drvVars, svcVars, srvVars
<1> QED
  BY Steps, <1>1, <1>2, <1>3, <1>4, <1>5, <1>6, <1>7, <1>8, <1>9, <1>10, <1>11, <1>12, <1>13,
     <1>14, <1>15, <1>16, <1>17, <1>18, <1>19, <1>20, <1>21, <1>22, <1>23, <1>24, <1>25, <1>26,
     <1>27, <1>28, <1>29, <1>30
     DEF DriverMoves, ConnectionMoves, RegisterMoves, ServiceMoves, AppMoves, Accept,
         FindReady, ProcessRecv, ServerHandles, EndStep, netVars, connVars, drvVars, svcVars,
         srvVars


\* What the steps do that change a connection, a socket or an end of one.
SocketClosed(t, i, f, e) ==
  /\ t \in Threads /\ at[t].pc = "unregWrite" /\ i \in DOMAIN conns /\ conns[i].lock = t
  /\ i \in DOMAIN endOf /\ f \in Fds /\ e \in Ends /\ e = endOf[i] /\ sock[f] = e
  /\ conns[i].closed /\ conns[i].fd = f
  /\ sock' = [sock EXCEPT ![f] = NoEnd] /\ link' = [link EXCEPT ![e] = "over"]
  /\ wire' = [wire EXCEPT ![e] = <<>>]
  /\ \E k \in 0..Len(unread[e]) : unread' = [unread EXCEPT ![e] = SubSeq(unread[e], 1, k)]
  /\ UNCHANGED <<budget, backlog, sent, got, mMaxID, endOf, listening, mQueue, mRunning, srvLog, srvDone>>
  /\ DOMAIN conns' = DOMAIN conns
  /\ conns'[i].fd = NoFd /\ conns'[i].closed /\ conns'[i].end = conns[i].end
  /\ conns'[i].freed = conns[i].freed /\ conns'[i].buf = conns[i].buf
  /\ \A j \in DOMAIN conns : j # i => conns'[j] = conns[j]
  /\ at' = [at EXCEPT ![t].pc = at[t].then]
  /\ f \in DOMAIN events /\ events' = Unregistered(f, "write")
  /\ active' = active \ {<<f, "write">>}

LEMMA CloseSocketDoes ==
  ASSUME ControlInv, NEW t \in {Drv, Svc}, CloseSocket(t)
  PROVE  SocketClosed(t, at[t].id, Conn(t).fd, endOf[at[t].id])
<1> DEFINE i == at[t].id
           f == Conn(t).fd
           e == endOf[i]
<1>1. /\ t \in Threads /\ Locking(t) /\ at[t].pc = "unregWrite"
  BY DEF CloseSocket, At, Locking, LockPcs, Threads
<1>2. /\ i \in DOMAIN conns /\ conns[i].lock = t /\ LockedOK(t, "unregWrite", conns[i]) /\ f = conns[i].fd
  BY <1>1 DEF ControlInv, LockOwner, ConnStates, Conn
<1>3. f # NoFd /\ conns[i].closed /\ f \in Fds
  BY <1>2, ConnType DEF LockedOK, ControlInv
<1>4. i \in DOMAIN endOf /\ sock[f] = e /\ e \in Ends
  BY <1>2, <1>3, ConnType DEF ControlInv, IdsOfConns, Sockets, SocketOfConn
<1>5. SocketClose(f)
  BY DEF CloseSocket, Conn
<1>6. /\ sock' = [sock EXCEPT ![f] = NoEnd] /\ link' = [link EXCEPT ![e] = "over"]
      /\ wire' = [wire EXCEPT ![e] = <<>>]
      /\ \E k \in {0, Len(unread[e])} : unread' = [unread EXCEPT ![e] = SubSeq(unread[e], 1, k)]
      /\ UNCHANGED <<budget, backlog, sent, got>>
  BY <1>4, <1>5 DEF SocketClose, EndOf
<1>7. Len(unread[e]) \in Nat
  BY <1>4 DEF ControlInv, TypeOK, SocketTypeOK
<1>8. \E k \in 0..Len(unread[e]) : unread' = [unread EXCEPT ![e] = SubSeq(unread[e], 1, k)]
  <2>1. PICK k \in {0, Len(unread[e])} : unread' = [unread EXCEPT ![e] = SubSeq(unread[e], 1, k)]
    BY <1>6
  <2>2. k \in 0..Len(unread[e])
    BY <1>7, <2>1
  <2> QED
    BY <2>1, <2>2
<1> DEFINE shut == [Conn(t) EXCEPT !.fd = NoFd, !.ok = FALSE, !.sendq = <<>>]
<1>9. SetConn(t, IF at[t].then = "free" THEN Unlocked(shut) ELSE shut)
  BY DEF CloseSocket
<1>10. \A c \in {shut, Unlocked(shut)} : 
          c.fd = NoFd /\ c.closed = conns[i].closed /\ c.end = conns[i].end /\ c.freed = conns[i].freed /\ c.buf = conns[i].buf
  BY <1>2, ConnType DEF Unlocked, Conn, ControlInv
<1> HIDE DEF shut
<1>11. /\ DOMAIN conns' = DOMAIN conns
       /\ conns'[i] \in {shut, Unlocked(shut)}
       /\ \A j \in DOMAIN conns : j # i => conns'[j] = conns[j]
  BY <1>2, <1>9 DEF SetConn
<1>12. /\ at' = [at EXCEPT ![t].pc = at[t].then]
       /\ f \in DOMAIN events /\ events' = Unregistered(f, "write")
       /\ active' = active \ {<<f, "write">>}
       /\ UNCHANGED <<mMaxID, endOf, listening, mQueue, mRunning, srvLog, srvDone>>
  BY DEF CloseSocket, Go, UnRegistEvent, Conn, svcVars, srvVars
<1> QED
  BY <1>1, <1>2, <1>3, <1>4, <1>6, <1>8, <1>10, <1>11, <1>12 DEF SocketClosed, Conn

Inserted(t, i, f, e) ==
  /\ t \in Threads /\ at[t].pc = "insert" /\ i = mMaxID /\ i \in Nat
  /\ i \notin DOMAIN conns /\ i \notin DOMAIN endOf
  /\ f \in Fds /\ f # NoFd /\ e \in Ends /\ \A j \in DOMAIN endOf : endOf[j] # e
  /\ mMaxID' = mMaxID + 1
  /\ conns' = [j \in DOMAIN conns \cup {i} |-> IF j = i THEN NewConnection(e, f) ELSE conns[j]]
  /\ endOf' = [j \in DOMAIN endOf \cup {i} |-> IF j = i THEN e ELSE endOf[j]]
  /\ at' = [at EXCEPT ![t].pc = "regRead"]
  /\ UNCHANGED <<budget, sock, backlog, link, wire, unread, sent, got, events, listening, active>>
  /\ UNCHANGED <<mQueue, mRunning, srvLog, srvDone>>

LEMMA InsertDoes ==
  ASSUME ControlInv, NEW t \in {Svc, App}, InsertConnection(t), fault' = "none"
  PROVE  Inserted(t, at[t].id, at[t].fd, sock[at[t].fd])
<1> DEFINE i == at[t].id
           f == at[t].fd
           e == sock[f]
<1>1. t \in Threads /\ at[t].pc = "insert" /\ i = mMaxID
  BY DEF InsertConnection, At, Threads
<1>2. IsPending(f)
  BY <1>1 DEF ControlInv, PendingSockets, PendingThreads, At
<1>3. f \in Fds /\ f # NoFd /\ e \in Ends /\ \A j \in DOMAIN endOf : endOf[j] # e
  BY <1>2, TcpSocketAssumption DEF IsPending, ControlInv, TypeOK, SocketTypeOK, NoFd
<1>4. i \in Nat /\ i \notin DOMAIN endOf /\ i \notin DOMAIN conns
  BY <1>1 DEF ControlInv, TypeOK, IdsOfConns
<1>5. ~Dies("assert id") /\ ~Dies("assert event")
  BY DEF Dies
<1> QED
  BY <1>1, <1>3, <1>4, <1>5 DEF InsertConnection, NextId, EndOf, Go, netVars, drvVars, svcVars, srvVars, Inserted

Freed(i) ==
  /\ at[Svc].pc = "free" /\ i \in DOMAIN conns /\ IsShut(conns[i])
  /\ UNCHANGED <<budget, sock, backlog, link, wire, unread, sent, got, events, listening, active>>
  /\ UNCHANGED <<mMaxID, endOf, mQueue, mRunning, srvLog, srvDone>>
  /\ DOMAIN conns' = DOMAIN conns
  /\ \A j \in DOMAIN conns :
       /\ conns'[j].end = conns[j].end /\ conns'[j].fd = conns[j].fd /\ conns'[j].closed = conns[j].closed
       /\ conns'[j].buf = conns[j].buf /\ conns'[j].sendq = conns[j].sendq
       /\ j # i => conns'[j] = conns[j]
  /\ at' = [at EXCEPT ![Svc].pc = "delete"]

LEMMA FreeSocketDoes ==
  ASSUME ControlInv, FreeSocket
  PROVE  Freed(at[Svc].id)
<1> DEFINE i == at[Svc].id
<1>1. at[Svc].pc = "free" /\ i \in DOMAIN conns /\ IsShut(conns[i])
  BY DEF FreeSocket, At, ControlInv, LockOwner, ConnStates, Conn
<1>2. conns[i].fd = NoFd
  BY <1>1 DEF IsShut
<1>3. /\ UNCHANGED <<budget, sock, backlog, link, wire, unread, sent, got, events, listening, active>>
      /\ UNCHANGED <<mMaxID, endOf, mQueue, mRunning, srvLog, srvDone>>
  BY <1>2 DEF FreeSocket, Conn, netVars, drvVars, svcVars, srvVars
<1>4. conns' = [conns EXCEPT ![i] = [conns[i] EXCEPT !.freed = TRUE, !.fd = NoFd]]
  BY DEF FreeSocket, SetConn, Conn
<1>5. TypeOK
  BY DEF ControlInv
<1>6. DOMAIN conns' = DOMAIN conns
  BY <1>4
<1>7. ASSUME NEW j \in DOMAIN conns
      PROVE  /\ conns'[j].end = conns[j].end /\ conns'[j].fd = conns[j].fd /\ conns'[j].closed = conns[j].closed
             /\ conns'[j].buf = conns[j].buf /\ conns'[j].sendq = conns[j].sendq
             /\ j # i => conns'[j] = conns[j]
  BY <1>2, <1>4, <1>5, ConnType
<1>8. at' = [at EXCEPT ![Svc].pc = "delete"]
  BY DEF FreeSocket, Go
<1> QED
  BY <1>1, <1>3, <1>6, <1>7, <1>8 DEF Freed

Deleted(i) ==
  /\ at[Svc].pc = "delete" /\ i \in DOMAIN conns /\ IsShut(conns[i]) /\ conns[i].lock = NoEnd
  /\ DOMAIN conns' = DOMAIN conns \ {i}
  /\ \A j \in DOMAIN conns' : conns'[j] = conns[j]
  /\ UNCHANGED <<budget, sock, backlog, link, wire, unread, sent, got, events, listening, active>>
  /\ UNCHANGED <<mMaxID, endOf, mQueue, mRunning, srvLog, srvDone>>
  /\ \E pc \in {"take", "dropAll"} :
       at' = [at EXCEPT ![Svc] = [pc |-> pc, id |-> NoId, fd |-> NoFd, then |-> "drop"]]

LEMMA DeleteDoes ==
  ASSUME ControlInv, DeleteConnection
  PROVE  Deleted(at[Svc].id)
<1> DEFINE i == at[Svc].id
<1>1. at[Svc].pc = "delete" /\ i \in DOMAIN conns /\ IsShut(conns[i]) /\ conns[i].lock = NoEnd
  BY DEF DeleteConnection, FreesLocked, MutexIsFree, At, ControlInv, LockOwner, ConnStates, Conn
<1>2. conns' = [j \in DOMAIN conns \ {i} |-> conns[j]]
  BY DEF DeleteConnection, Restrict
<1>3. Home[Svc] = "take"
  BY NetServiceAssumption DEF Home, Threads
<1> QED
  BY <1>1, <1>2, <1>3 DEF DeleteConnection, Return, GoFor, netVars, drvVars, svcVars, srvVars, Deleted

LEMMA FreeFdIsFree ==
  ASSUME FreeFds # {}
  PROVE  FreeFd \in Fds /\ FreeFd # NoFd /\ sock[FreeFd] = NoEnd
<1>1. FreeFds \in SUBSET Nat
  BY TcpSocketAssumption DEF FreeFds
<1>2. FreeFd \in FreeFds
  BY <1>1, MinExists DEF FreeFd
<1> QED
  BY <1>2, TcpSocketAssumption DEF FreeFds, NoFd

LEMMA EndIsEnd ==
  ASSUME ControlInv, NEW t, at[t].id \in DOMAIN conns
  PROVE  End(t) \in Ends
BY ConnType DEF End, Conn, ControlInv

LEMMA SocketsKept ==
  ASSUME ControlInv, [Next]_vars
  PROVE  Sockets'
<1> USE ConnType
<1>b. /\ sock \in [Fds -> Ends \cup {NoEnd}] /\ backlog \in Seq(Ends) /\ link \in [Ends -> LinkStates]
      /\ NoEnd \notin Ends
  BY TcpSocketAssumption DEF ControlInv, TypeOK, SocketTypeOK
<1> USE <1>b
<1>a. TypeOK /\ Sockets /\ IdsOfConns
  BY DEF ControlInv
<1> USE <1>a, NetServiceAssumption
    DEF svcVars, connVars, srvVars, drvVars, Threads
<1>1. CASE KeepsConns /\ UNCHANGED <<sock, backlog, link, endOf>>
  BY <1>1
     DEF Sockets, SocketOfConn, SocketsDiffer, NoneIsNeverMet, Backlog, NeverMet, KeepsConns
<1>2. CASE Accept /\ KeepsConns
  <2>1. /\ sock' = [sock EXCEPT ![FreeFd] = Head(backlog)] /\ backlog # <<>> /\ backlog' = Tail(backlog)
        /\ UNCHANGED <<link, conns, endOf>>
    BY <1>2 DEF Accept
  <2>2. FreeFd \in Fds /\ sock[FreeFd] = NoEnd
    BY <1>2, FreeFdIsFree DEF Accept
  <2>3. Head(backlog) = backlog[1] /\ \A k \in DOMAIN backlog' : backlog'[k] = backlog[k + 1] /\ k + 1 \in DOMAIN backlog /\ k + 1 # 1
    BY <2>1
  <2>4. backlog[1] \in Ends /\ 1 \in DOMAIN backlog
    BY <2>1
  <2> HIDE DEF FreeFd
  <2>5. /\ SocketsDiffer /\ NoneIsNeverMet /\ SocketOfConn /\ Backlog
        /\ \A k \in DOMAIN backlog' : backlog'[k] # backlog[1]
    <3>1. SocketsDiffer /\ NoneIsNeverMet /\ SocketOfConn /\ Backlog
      BY DEF Sockets
    <3>2. ASSUME NEW k \in DOMAIN backlog' PROVE backlog'[k] # backlog[1]
      BY <2>3, <2>4, <3>1 DEF Backlog
    <3> QED
      BY <3>1, <3>2
  <2>6. sock'[FreeFd] = backlog[1] /\ \A g \in Fds : g # FreeFd => sock'[g] = sock[g]
    BY <2>1, <2>2, <2>3
  <2>7. SocketsDiffer'
    <3>1. \A g \in Fds : sock[g] # backlog[1]
      BY <2>4, <2>5 DEF Backlog, NeverMet
    <3> QED
      BY <2>2, <2>5, <2>6, <3>1 DEF SocketsDiffer
  <2>8. NoneIsNeverMet'
    BY <2>1, <2>4, <2>5, <2>6 DEF NoneIsNeverMet, Backlog, NeverMet
  <2>9. Backlog'
    BY <2>1, <2>3, <2>5, <2>6 DEF Backlog, NeverMet
  <2>10. SocketOfConn'
    BY <1>2, <2>1, <2>2, <2>4, <2>5, <2>6 DEF SocketOfConn, IdsOfConns, KeepsConns
  <2> QED
    BY <2>7, <2>8, <2>9, <2>10 DEF Sockets
<1>3. CASE Alive(Drv) /\ PreRecv /\ KeepsConns
  <2>1. /\ UNCHANGED <<sock, backlog, endOf>>
        /\ \A x \in Ends : link'[x] = "none" <=> link[x] = "none"
    BY <1>3, EndIsEnd DEF LockOwner, Locking, LockPcs, Threads, At, PreRecv, End, Conn, RecvFails, ErrorReported, Alive, Sent, SendFails
  <2> QED
    BY <1>3, <2>1 DEF Sockets, SocketOfConn, SocketsDiffer, NoneIsNeverMet, Backlog, NeverMet, KeepsConns
<1>4. CASE Alive(Drv) /\ RecvGetsNothing /\ KeepsConns
  <2>1. /\ UNCHANGED <<sock, backlog, endOf>>
        /\ \A x \in Ends : link'[x] = "none" <=> link[x] = "none"
    BY <1>4, EndIsEnd DEF LockOwner, Locking, LockPcs, Threads, At, RecvGetsNothing, End, Conn, RecvFails, ErrorReported, Alive, Sent, SendFails
  <2> QED
    BY <1>4, <2>1 DEF Sockets, SocketOfConn, SocketsDiffer, NoneIsNeverMet, Backlog, NeverMet, KeepsConns
<1>5. ASSUME NEW t \in {Drv, Svc}, CloseUnregistersRead(t) PROVE Sockets'
  <2>1. /\ DOMAIN conns' = DOMAIN conns /\ UNCHANGED <<sock, link, backlog, endOf>>
        /\ \A j \in DOMAIN conns : conns'[j].fd = conns[j].fd
    BY <1>5 DEF CloseUnregistersRead, SetConn, Conn, netVars
  <2> QED
    BY <2>1 DEF Sockets, SocketOfConn, SocketsDiffer, NoneIsNeverMet, Backlog, NeverMet
<1>6. ASSUME NEW t \in {Drv, Svc}, CloseSocket(t) PROVE Sockets'
  <2> DEFINE i == at[t].id
             f == Conn(t).fd
             e == endOf[i]
  <2>0. SocketClosed(t, i, f, e)
    BY <1>6, CloseSocketDoes
  <2> HIDE DEF i, f, e
  <2>1. /\ i \in DOMAIN conns /\ i \in DOMAIN endOf /\ f \in Fds /\ e \in Ends /\ sock[f] = e /\ e = endOf[i]
        /\ sock' = [sock EXCEPT ![f] = NoEnd] /\ link' = [link EXCEPT ![e] = "over"]
        /\ UNCHANGED <<backlog, endOf>>
        /\ DOMAIN conns' = DOMAIN conns /\ conns'[i].fd = NoFd
        /\ \A j \in DOMAIN conns : j # i => conns'[j] = conns[j]
    BY <2>0 DEF SocketClosed
  <2>2. \A j \in DOMAIN conns : j \in DOMAIN endOf /\ (j # i /\ conns[j].fd # NoFd => conns[j].fd # f)
    BY <2>1 DEF Sockets, SocketOfConn, IdsOfConns
  <2>a. SocketOfConn /\ SocketsDiffer /\ NoneIsNeverMet /\ Backlog
    BY DEF Sockets
  <2>b. SocketOfConn'
    <3> SUFFICES ASSUME NEW j \in DOMAIN conns, conns'[j].fd # NoFd
                 PROVE  sock'[conns'[j].fd] = endOf[j]
      BY <2>1 DEF SocketOfConn
    <3>1. j # i /\ conns'[j] = conns[j] /\ conns[j].fd # f
      BY <2>1, <2>2
    <3> QED
      BY <2>1, <2>a, <3>1 DEF SocketOfConn
  <2>c. SocketsDiffer'
    BY <2>1, <2>2, <2>a DEF SocketsDiffer, Backlog, NoneIsNeverMet, NeverMet
  <2>d. NoneIsNeverMet'
    BY <2>1, <2>2, <2>a DEF NoneIsNeverMet, NeverMet
  <2>e. Backlog'
    BY <2>1, <2>2, <2>a DEF Backlog, NeverMet
  <2> QED
    BY <2>b, <2>c, <2>d, <2>e DEF Sockets
<1>7. ASSUME NEW t \in {Drv, Svc}, SendData(t), KeepsConns PROVE Sockets'
  <2>1. /\ UNCHANGED <<sock, backlog, endOf>>
        /\ \A x \in Ends : link'[x] = "none" <=> link[x] = "none"
    BY <1>7, EndIsEnd DEF LockOwner, Locking, LockPcs, Threads, At, SendData, End, Conn, RecvFails, ErrorReported, Alive, Sent, SendFails
  <2> QED
    BY <1>7, <2>1 DEF Sockets, SocketOfConn, SocketsDiffer, NoneIsNeverMet, Backlog, NeverMet, KeepsConns
<1>8. ASSUME NEW t \in {Svc, App}, InsertConnection(t), fault' = "none" PROVE Sockets'
  <2> DEFINE i == at[t].id
             f == at[t].fd
             e == sock[f]
  <2>0. Inserted(t, i, f, e)
    BY <1>8, InsertDoes
  <2>3. sock[f] = e
    OBVIOUS
  <2> HIDE DEF i, f, e
  <2>1. /\ i \notin DOMAIN conns /\ f \in Fds /\ e \in Ends
        /\ conns' = [j \in DOMAIN conns \cup {i} |-> IF j = i THEN NewConnection(e, f) ELSE conns[j]]
        /\ endOf' = [j \in DOMAIN endOf \cup {i} |-> IF j = i THEN e ELSE endOf[j]]
        /\ UNCHANGED <<sock, link, backlog>> /\ i \notin DOMAIN endOf
    BY <2>0 DEF Inserted
  <2>2. NewConnection(e, f).fd = f
    BY DEF NewConnection
  <2>4. DOMAIN conns \subseteq DOMAIN endOf
    BY DEF IdsOfConns
  <2>a. SocketOfConn /\ SocketsDiffer /\ NoneIsNeverMet /\ Backlog
    BY DEF Sockets
  <2>b. SocketOfConn'
    BY <2>1, <2>2, <2>3, <2>4, <2>a DEF SocketOfConn
  <2>c. SocketsDiffer'
    BY <2>1, <2>2, <2>3, <2>4, <2>a DEF SocketsDiffer, Backlog, NoneIsNeverMet, NeverMet
  <2>d. NoneIsNeverMet'
    BY <2>1, <2>2, <2>3, <2>4, <2>a DEF NoneIsNeverMet, NeverMet
  <2>e. Backlog'
    BY <2>1, <2>2, <2>3, <2>4, <2>a DEF Backlog, NeverMet
  <2> QED
    BY <2>b, <2>c, <2>d, <2>e DEF Sockets
<1>9. CASE FreeSocket
  <2>1. Freed(at[Svc].id)
    BY <1>9, FreeSocketDoes
  <2> QED
    BY <2>1 DEF Freed, Sockets, SocketOfConn, SocketsDiffer, NoneIsNeverMet, Backlog, NeverMet
<1>10. CASE DeleteConnection
  <2>1. Deleted(at[Svc].id)
    BY <1>10, DeleteDoes
  <2> QED
    BY <2>1 DEF Deleted, Sockets, SocketOfConn, SocketsDiffer, NoneIsNeverMet, Backlog, NeverMet
<1>11. CASE StopListener /\ KeepsConns
  BY <1>11
     DEF Sockets, SocketOfConn, SocketsDiffer, NoneIsNeverMet, Backlog, NeverMet, KeepsConns,
         StopListener
<1>12. ASSUME NEW r \in Remotes, StartConnectRemote(r), KeepsConns PROVE Sockets'
  <2>1. /\ sock' = [sock EXCEPT ![FreeFd] = r] /\ link' = [link EXCEPT ![r] = "open"] /\ link[r] = "none"
        /\ UNCHANGED <<backlog, conns, endOf>> /\ r \in Ends
        /\ \A j \in DOMAIN conns : j \in DOMAIN endOf
    BY <1>12 DEF StartConnectRemote, Ends, IdsOfConns
  <2>2. FreeFd \in Fds /\ sock[FreeFd] = NoEnd
    BY <1>12, FreeFdIsFree DEF StartConnectRemote
  <2> HIDE DEF FreeFd
  <2>3. NeverMet(r) /\ \A k \in DOMAIN backlog : backlog[k] # r
    BY <2>1 DEF Sockets, SocketOfConn, SocketsDiffer, NoneIsNeverMet, Backlog, NeverMet
  <2>a. SocketOfConn /\ SocketsDiffer /\ NoneIsNeverMet /\ Backlog
    BY DEF Sockets
  <2>b. SocketOfConn'
    BY <2>1, <2>2, <2>3, <2>a DEF SocketOfConn, IdsOfConns
  <2>c. SocketsDiffer'
    BY <2>1, <2>2, <2>3, <2>a DEF SocketsDiffer, Backlog, NoneIsNeverMet, NeverMet
  <2>d. NoneIsNeverMet'
    BY <2>1, <2>2, <2>3, <2>a DEF NoneIsNeverMet, NeverMet
  <2>e. Backlog'
    BY <2>1, <2>2, <2>3, <2>a DEF Backlog, NeverMet
  <2> QED
    BY <2>b, <2>c, <2>d, <2>e DEF Sockets
<1>13. ASSUME NEW e \in Ends, EndStep(e), KeepsConns PROVE Sockets'
  <2>1. ASSUME PeerConnects(e) PROVE Sockets'
    <3>1. /\ backlog' = Append(backlog, e) /\ link' = [link EXCEPT ![e] = "open"] /\ link[e] = "none"
          /\ UNCHANGED sock
      BY <2>1 DEF PeerConnects
    <3>2. \A k \in DOMAIN backlog : backlog[k] # e
      BY <3>1 DEF Sockets, SocketOfConn, SocketsDiffer, NoneIsNeverMet, Backlog, NeverMet
    <3> QED
      BY <1>13, <3>1, <3>2 DEF EndStep, KeepsConns, Sockets, SocketOfConn, SocketsDiffer, NoneIsNeverMet, Backlog, NeverMet
  <2>2. ASSUME EndCloses(e) \/ EndResets(e) PROVE Sockets'
    BY <1>13, <2>2 DEF EndStep, EndCloses, EndResets, KeepsConns, Sockets, SocketOfConn, SocketsDiffer, NoneIsNeverMet, Backlog, NeverMet
  <2>3. ASSUME EndSends(e) \/ EndReads(e) PROVE Sockets'
    BY <1>13, <2>3, <1>1 DEF EndStep, EndSends, EndReads, KeepsConns
  <2> QED
    BY <1>13, <2>1, <2>2, <2>3 DEF EndStep, EndSteps
<1>14. CASE UNCHANGED AllButFault
  BY <1>1, <1>14 DEF AllButFault, KeepsConns, netVars, connVars, drvVars, svcVars, srvVars
<1> QED
  <2>1. CASE ChangesConns /\ ~UNCHANGED AllButFault
    BY <2>1, Steps, <1>5, <1>6, <1>8, <1>9, <1>10
       DEF ChangesConns, RegisterMoves
  <2>2. CASE KeepsConns /\ ~UNCHANGED AllButFault
    BY <2>2, Steps, <1>1, <1>2, <1>3, <1>4, <1>5, <1>6, <1>7, <1>8, <1>9, <1>10, <1>11, <1>12,
       <1>13
       DEF DriverMoves, ConnectionMoves, RegisterMoves, ServiceMoves, AppMoves, FindReady,
           CallHandler, ReadData, RecvData, EnqueueDrop, WriteData, Unlock, RegistReadEvent,
           RegistEvent, Dies, RegistWriteEvent, AcceptConnection, ProcessRecv, SendMsg,
           EnqueueMsg, DropConnection, DropNextConnection, AllDropped, DriverStop, JoinDriver,
           Stop, StopReturns, ServerHandles, netVars, connVars, drvVars, svcVars, srvVars
  <2> QED
    BY <1>14, <2>1, <2>2, ConnsAreKept


\* How Given, what the server is or will be given, changes.
LEMMA GivenIsSeq ==
  ASSUME TypeOK
  PROVE  /\ Given \in Seq(Context) /\ Len(Given) = Len(srvLog) + Len(mQueue)
         /\ srvLog \in Seq(Context) /\ mQueue \in Seq(Context)
         /\ Len(srvLog) \in Nat /\ Len(mQueue) \in Nat /\ Len(Given) \in Nat
         /\ DOMAIN Given = 1..Len(Given)
         /\ \A k \in DOMAIN srvLog : k \in DOMAIN Given /\ Given[k] = srvLog[k]
         /\ \A k \in DOMAIN mQueue : Len(srvLog) + k \in DOMAIN Given /\ Given[Len(srvLog) + k] = mQueue[k]
BY DEF TypeOK, Given

Gives(ctx) == Given' = Append(Given, ctx) /\ UNCHANGED srvLog
GivesNothing == UNCHANGED <<Given, srvLog>>

\* A context that is none of the server's leaves the queue.
Removes(p) ==
  /\ p = Len(srvLog) + 1 /\ p \in DOMAIN Given
  /\ Given[p].type \in {"accept", "send"} /\ Given[p] = Ctx
  /\ Len(Given') = Len(Given) - 1 /\ DOMAIN Given' = 1..Len(Given')
  /\ \A k \in DOMAIN Given' : Given'[k] = Given[IF k < p THEN k ELSE k + 1]
  /\ UNCHANGED srvLog

LEMMA EnqueueGives ==
  ASSUME TypeOK, NEW ctx, Enqueue(ctx), UNCHANGED srvLog
  PROVE  IF mRunning THEN Gives(ctx) ELSE GivesNothing
<1>1. CASE mRunning
  <2>1. mQueue' = Append(mQueue, ctx) /\ UNCHANGED srvLog
    BY <1>1 DEF Enqueue
  <2>2. srvLog \o Append(mQueue, ctx) = Append(srvLog \o mQueue, ctx)
    <3>1. srvLog \in Seq(Context) /\ mQueue \in Seq(Context)
      BY GivenIsSeq, Zenon
    <3> QED
      BY ONLY <3>1
  <2> QED
    BY <1>1, <2>1, <2>2 DEF Gives, Given
<1>2. CASE ~mRunning
  BY <1>2 DEF Enqueue, GivesNothing, Given
<1> QED
  BY <1>1, <1>2

LEMMA TakeGives ==
  ASSUME TypeOK, mQueue # <<>>, mQueue' = Tail(mQueue), srvLog' = Append(srvLog, Ctx)
  PROVE  UNCHANGED Given
<1>1. Append(srvLog, Head(mQueue)) \o Tail(mQueue) = srvLog \o mQueue
  BY GivenIsSeq
<1> QED
  BY <1>1 DEF Given, Ctx

LEMMA TakeRemoves ==
  ASSUME TypeOK, mQueue # <<>>, mQueue' = Tail(mQueue), UNCHANGED srvLog, Ctx.type \in {"accept", "send"}
  PROVE  Removes(Len(srvLog) + 1)
<1> DEFINE p == Len(srvLog) + 1
<1>1. p \in DOMAIN Given /\ Given[p] = Ctx
  BY GivenHead
<1>2. Given' = srvLog \o Tail(mQueue)
  BY DEF Given
<1>3. /\ Len(Tail(mQueue)) = Len(mQueue) - 1 /\ Tail(mQueue) \in Seq(Context)
      /\ \A k \in 1..Len(mQueue) - 1 : Tail(mQueue)[k] = mQueue[k + 1]
  BY GivenIsSeq
<1>4. Len(Given') = Len(Given) - 1 /\ DOMAIN Given' = 1..Len(Given')
  BY <1>2, <1>3, GivenIsSeq
<1>5. ASSUME NEW k \in DOMAIN Given' PROVE Given'[k] = Given[IF k < p THEN k ELSE k + 1]
  <2>1. k \in 1..Len(srvLog) + Len(mQueue) - 1
    BY <1>4, <1>5, GivenIsSeq
  <2>2. CASE k < p
    BY <1>2, <2>1, <2>2, GivenIsSeq DEF Given
  <2>3. CASE ~(k < p)
    <3>1. k - Len(srvLog) \in 1..Len(mQueue) - 1
      BY <2>1, <2>3, GivenIsSeq
    <3>2. Given'[k] = Tail(mQueue)[k - Len(srvLog)]
      BY <1>2, <1>3, <2>1, <2>3, GivenIsSeq
    <3>3. Given[k + 1] = mQueue[k + 1 - Len(srvLog)]
      BY <2>1, <2>3, GivenIsSeq DEF Given
    <3>4. Tail(mQueue)[k - Len(srvLog)] = mQueue[k - Len(srvLog) + 1]
      BY <1>3, <3>1
    <3> QED
      BY <2>1, <2>3, <3>2, <3>3, <3>4, GivenIsSeq
  <2> QED
    BY <2>2, <2>3
<1> QED
  BY <1>1, <1>4, <1>5 DEF Removes

LEMMA StopForgets ==
  ASSUME TypeOK, mQueue' = <<>>, UNCHANGED srvLog
  PROVE  /\ Given' = srvLog /\ DOMAIN Given' \subseteq DOMAIN Given
         /\ \A k \in DOMAIN Given' : Given'[k] = Given[k]
<1>1. Given' = srvLog
  BY GivenIsSeq DEF Given
<1> QED
  BY <1>1, GivenIsSeq

\* The driver receives: what is there goes behind what it had, and a message
\* that is complete goes to the server.
TakesOver(i, e, k, buf) ==
  /\ i = at[Drv].id /\ at[Drv].pc = "recv" /\ i \in DOMAIN conns /\ i \in DOMAIN endOf
  /\ e = endOf[i] /\ e \in Ends /\ IsOpen(conns[i]) /\ conns[i].lock = Drv
  /\ k \in 1..Len(wire[e]) /\ buf = conns[i].buf \o SubSeq(wire[e], 1, k)
  /\ buf \in Seq(Unit) /\ Len(conns[i].buf) \in 2..3 /\ Len(buf) = Len(conns[i].buf) + k
  /\ LengthWraps(buf) <=> LengthWraps(conns[i].buf)
  /\ wire' = [wire EXCEPT ![e] = SubSeq(wire[e], k + 1, Len(wire[e]))]
  /\ UNCHANGED <<sock, backlog, link, unread, sent, got, mMaxID, endOf, events, listening, active>>
  /\ UNCHANGED <<mRunning, srvLog, srvDone>>
  /\ KeepsConns /\ (\A j \in DOMAIN conns : j # i => conns'[j] = conns[j])
  /\ conns'[i].sendq = conns[i].sendq
  /\ \/ Len(buf) < Needed(buf) /\ conns'[i].buf = buf /\ GivesNothing
     \/ /\ Len(buf) = Needed(buf) /\ IsDelivered(buf) /\ conns'[i].buf = <<>>
        /\ IF mRunning THEN Gives(Recv(i, buf)) ELSE GivesNothing

LEMMA RecvDataDoes ==
  ASSUME ControlInv, Alive(Drv), RecvData
  PROVE  \E k, buf : TakesOver(at[Drv].id, endOf[at[Drv].id], k, buf)
<1> DEFINE i == at[Drv].id
           e == endOf[i]
<1>a. TypeOK /\ LockOwner /\ ConnStates /\ IdsOfConns
  BY DEF ControlInv
<1> USE <1>a
<1>1. /\ at[Drv].pc = "recv" /\ i \in DOMAIN conns /\ Conn(Drv) = conns[i]
      /\ conns[i].lock = Drv /\ IsOpen(conns[i]) /\ Len(conns[i].buf) < 4 /\ Len(conns[i].buf) >= 2
  BY DEF RecvData, At, Alive, Conn, LockOwner, ConnStates, LockedOK, ConnOK, Locking, LockPcs, Threads
<1>2. i \in DOMAIN endOf /\ End(Drv) = e /\ e \in Ends /\ conns[i].buf \in Seq(Unit) /\ wire[e] \in Seq(Unit)
  <2>1. conns[i].end = e /\ e \in Ends /\ conns[i].buf \in Seq(Unit)
    BY <1>1, ConnType DEF IdsOfConns
  <2> QED
    BY <1>1, <2>1 DEF IdsOfConns, End, TypeOK, SocketTypeOK
<1> DEFINE Buf(k) == conns[i].buf \o SubSeq(wire[e], 1, k)
           Does(k) == /\ k \in 1..Needed(conns[i].buf) - Len(conns[i].buf) /\ k \in 1..Len(wire[e])
                      /\ Received(e, k)
                      /\ IF Len(Buf(k)) < Needed(conns[i].buf)
                         THEN /\ SetConn(Drv, Unlocked([conns[i] EXCEPT !.buf = Buf(k)])) /\ UNCHANGED mQueue
                         ELSE /\ Enqueue(Recv(i, Buf(k)))
                              /\ \/ SetConn(Drv, Unlocked([conns[i] EXCEPT !.buf = <<>>]))
                                 \/ SetConn(Drv, [conns[i] EXCEPT !.buf = <<>>])
<1>3. PICK k : Does(k)
  BY <1>1, <1>2, Zenon DEF RecvData, RecvTakes, Placed
<1>4. /\ UNCHANGED <<sock, backlog, link, unread, sent, got, mMaxID, endOf, events, listening, active>>
      /\ UNCHANGED <<mRunning, srvLog, srvDone>>
  BY DEF RecvData, drvVars, srvVars
<1>5. /\ k \in 1..Len(wire[e]) /\ Len(conns[i].buf) \in 2..3
      /\ Buf(k) \in Seq(Unit) /\ Len(Buf(k)) = Len(conns[i].buf) + k
      /\ Needed(Buf(k)) \in {3, 4} /\ Len(Buf(k)) <= Needed(Buf(k))
      /\ Needed(Buf(k)) = Needed(conns[i].buf) /\ (LengthWraps(Buf(k)) <=> LengthWraps(conns[i].buf))
  <2>0. Needed(conns[i].buf) \in {3, 4}
    BY DEF Needed
  <2>1. /\ k \in 1..Len(wire[e]) /\ k \in 1..Needed(conns[i].buf) - Len(conns[i].buf)
        /\ Len(conns[i].buf) \in 2..3
    <3>1. k \in 1..Len(wire[e]) /\ k \in 1..Needed(conns[i].buf) - Len(conns[i].buf)
      BY <1>3, Zenon
    <3>2. Len(conns[i].buf) \in Nat
      BY <1>2
    <3>3. Len(conns[i].buf) < 4 /\ Len(conns[i].buf) >= 2
      BY <1>1, Zenon
    <3> HIDE DEF i, e
    <3>4. ASSUME NEW n \in Nat, n < 4, n >= 2
          PROVE  n \in 2..3
      BY ONLY <3>4
    <3>5. Len(conns[i].buf) \in 2..3
      BY ONLY <3>2, <3>3, <3>4, Zenon
    <3> QED
      BY ONLY <3>1, <3>5, Zenon
  <2>2. ASSUME NEW b \in Seq(Unit), NEW s \in Seq(Unit), NEW l \in 1..Len(s), Len(b) \in 2..3
        PROVE  LET r == b \o SubSeq(s, 1, l)
               IN  r \in Seq(Unit) /\ Len(r) = Len(b) + l /\ r[2] = b[2]
    BY <2>2
  <2>3. Buf(k) \in Seq(Unit) /\ Len(Buf(k)) = Len(conns[i].buf) + k /\ Buf(k)[2] = conns[i].buf[2]
    <3> HIDE DEF i, e
    <3> QED
      BY ONLY <1>2, <2>1, <2>2
  <2>4. LengthWraps(Buf(k)) <=> LengthWraps(conns[i].buf)
    BY <2>3, Zenon DEF LengthWraps
  <2>5. Needed(Buf(k)) = Needed(conns[i].buf)
    BY <2>4, Zenon DEF Needed
  <2> HIDE DEF Buf, i, e
  <2> QED
    BY <2>0, <2>1, <2>3, <2>4, <2>5
<1>6. wire' = [wire EXCEPT ![e] = SubSeq(wire[e], k + 1, Len(wire[e]))]
  BY <1>3 DEF Received
<1> DEFINE buf == Buf(k)
<1> HIDE DEF Buf
<1>7. Len(buf) = Needed(buf) => IsDelivered(buf)
  <2>1. ASSUME NEW s \in Seq(Unit), NEW n \in Nat, Len(s) = n PROVE s \in [1..n -> Unit]
    <3>1. s \in [1..Len(s) -> Unit]
      OBVIOUS
    <3> QED
      BY <2>1, <3>1
  <2> QED
    BY <1>5, <2>1 DEF Message, IsDelivered, Needed
<1>8. ASSUME NEW b, NEW c, c \in {[conns[i] EXCEPT !.buf = b], Unlocked([conns[i] EXCEPT !.buf = b])}, SetConn(Drv, c)
      PROVE  /\ KeepsConns /\ (\A j \in DOMAIN conns : j # i => conns'[j] = conns[j])
             /\ conns'[i].sendq = conns[i].sendq /\ conns'[i].buf = b
  <2>1. /\ c.end = conns[i].end /\ c.fd = conns[i].fd /\ c.closed = conns[i].closed /\ c.freed = conns[i].freed
        /\ c.sendq = conns[i].sendq /\ c.buf = b
    BY <1>1, <1>8, ConnType DEF Unlocked
  <2>2. conns' = [conns EXCEPT ![i] = c]
    BY <1>8 DEF SetConn
  <2> HIDE DEF i
  <2> QED
    BY <1>1, <2>1, <2>2, OneConn
<1>9. CASE Len(buf) < Needed(buf)
  <2>1. SetConn(Drv, Unlocked([conns[i] EXCEPT !.buf = buf])) /\ UNCHANGED mQueue
    BY <1>3, <1>5, <1>9
  <2>2. GivesNothing
    BY <1>4, <2>1 DEF GivesNothing, Given
  <2> QED
    BY <1>1, <1>2, <1>4, <1>5, <1>6, <1>8, <1>9, <2>1, <2>2 DEF TakesOver, Buf
<1>10. CASE ~(Len(buf) < Needed(buf))
  <2>1. /\ Enqueue(Recv(i, buf))
        /\ \/ SetConn(Drv, Unlocked([conns[i] EXCEPT !.buf = <<>>]))
           \/ SetConn(Drv, [conns[i] EXCEPT !.buf = <<>>])
    BY <1>3, <1>5, <1>10
  <2>2. Len(buf) = Needed(buf)
    BY <1>5, <1>10
  <2>3. IF mRunning THEN Gives(Recv(i, buf)) ELSE GivesNothing
    BY <1>4, <2>1, EnqueueGives
  <2> QED
    BY <1>1, <1>2, <1>4, <1>5, <1>6, <1>7, <1>8, <2>1, <2>2, <2>3 DEF TakesOver, Buf
<1> QED
  BY <1>9, <1>10

\* Thread t registers one of the events of connection i, which has descriptor f.
EventRegistered(t, kind, i, f) ==
  /\ t \in Threads /\ at[t].pc = (IF kind = "read" THEN "regRead" ELSE "regWrite")
  /\ at[t].id = i /\ at[t].fd = f
  /\ i \in DOMAIN conns /\ i \in DOMAIN endOf /\ i \in Nat /\ conns[i].fd = f /\ f \in Fds /\ f # NoFd
  /\ Info(f)[kind] = NoId /\ events' = Registered(f, kind, i)
  /\ \A u \in Threads \ {t} : at'[u] = at[u]
  /\ IF kind = "read"
     THEN at'[t].pc = "regWrite" /\ at'[t].id = i /\ at'[t].fd = f
     ELSE at'[t].pc \in {"take", "idle"} /\ at'[t].id = NoId
  /\ UNCHANGED <<budget, sock, backlog, link, wire, unread, sent, got, conns, mMaxID, endOf, listening, active>>
  /\ UNCHANGED <<mQueue, mRunning, srvLog, srvDone>>

LEMMA EventIsRegistered ==
  ASSUME ControlInv, NEW t \in {Svc, App}, fault' = "none", RegistReadEvent(t) \/ RegistWriteEvent(t)
  PROVE  \E kind \in {"read", "write"} : EventRegistered(t, kind, at[t].id, at[t].fd)
<1> DEFINE i == at[t].id
           f == at[t].fd
<1>1. PICK kind \in {"read", "write"} :
        /\ at[t].pc = (IF kind = "read" THEN "regRead" ELSE "regWrite") /\ RegistEvent(t, kind)
  BY DEF RegistReadEvent, RegistWriteEvent, At
<1>2. t \in Threads /\ t # Drv
  BY NetServiceAssumption DEF Threads
<1>3. Registering(t) /\ i \in DOMAIN conns /\ f # NoFd /\ conns[i].fd = f
  BY <1>1, <1>2 DEF ControlInv, BeingRegistered, RegisteringIsOpen, Registering, Conn
<1>4. i \in DOMAIN endOf /\ i \in Nat /\ f \in Fds
  BY <1>3, ConnType DEF ControlInv, IdsOfConns
<1>5. ~Dies("assert id") /\ ~Dies("assert event")
  BY DEF Dies
<1>6. /\ Info(f)[kind] = NoId /\ events' = Registered(f, kind, i)
      /\ IF kind = "read" THEN Go(t, "regWrite") ELSE Return(t)
      /\ UNCHANGED <<netVars, conns, mMaxID, endOf, listening, active, svcVars, srvVars>>
  BY <1>1, <1>5 DEF RegistEvent, connVars
<1>7. at \in [Threads -> [pc : Pcs, id : Nat \cup {NoId}, fd : Fds \cup {NoFd}, then : {"drop", "unlock", "free"}]]
  BY AtType DEF ControlInv
<1>8. /\ \A u \in Threads \ {t} : at'[u] = at[u]
      /\ IF kind = "read"
         THEN at'[t].pc = "regWrite" /\ at'[t].id = i /\ at'[t].fd = f
         ELSE at'[t].pc \in {"take", "idle"} /\ at'[t].id = NoId
  BY <1>2, <1>6, <1>7 DEF Go, Return, GoFor, Home
<1> HIDE DEF i, f
<1>9. EventRegistered(t, kind, i, f)
  BY <1>1, <1>2, <1>3, <1>4, <1>6, <1>8 DEF EventRegistered, netVars, svcVars, srvVars, i, f
<1> QED
  BY <1>9 DEF i, f

LEMMA IdsOfConnsKept ==
  ASSUME ControlInv, [Next]_vars
  PROVE  IdsOfConns'
<1>a. TypeOK /\ IdsOfConns
  BY DEF ControlInv
<1> USE <1>a, NetServiceAssumption
    DEF svcVars, connVars, srvVars, drvVars, Threads
<1>1. CASE KeepsConns /\ UNCHANGED <<mMaxID, endOf>>
  BY <1>1
     DEF IdsOfConns, KeepsConns
<1>2. ASSUME NEW t \in {Drv, Svc}, CloseUnregistersRead(t) PROVE IdsOfConns'
  <2>1. /\ DOMAIN conns' = DOMAIN conns /\ UNCHANGED <<mMaxID, endOf>>
        /\ \A j \in DOMAIN conns : conns'[j].end = conns[j].end
    BY <1>2, ConnType DEF CloseUnregistersRead, SetConn, Conn, netVars
  <2> QED
    BY <2>1 DEF IdsOfConns
<1>3. ASSUME NEW t \in {Drv, Svc}, CloseSocket(t) PROVE IdsOfConns'
  <2> DEFINE i == at[t].id
             f == Conn(t).fd
             e == endOf[i]
  <2>1. SocketClosed(t, i, f, e)
    BY <1>3, CloseSocketDoes
  <2> HIDE DEF i, f, e
  <2> QED
    BY <2>1 DEF SocketClosed, IdsOfConns
<1>4. ASSUME NEW t \in {Svc, App}, InsertConnection(t), fault' = "none" PROVE IdsOfConns'
  <2> DEFINE i == at[t].id
             f == at[t].fd
             e == sock[f]
  <2>1. Inserted(t, i, f, e)
    BY <1>4, InsertDoes
  <2> HIDE DEF i, f, e
  <2> QED
    BY <2>1 DEF Inserted, IdsOfConns, NewConnection, TypeOK
<1>5. CASE FreeSocket
  <2> DEFINE i == at[Svc].id
  <2>1. Freed(i)
    BY <1>5, FreeSocketDoes
  <2> HIDE DEF i
  <2> QED
    BY <2>1 DEF Freed, IdsOfConns
<1>6. CASE DeleteConnection
  <2> DEFINE i == at[Svc].id
  <2>1. Deleted(i)
    BY <1>6, DeleteDoes
  <2> HIDE DEF i
  <2> QED
    BY <2>1 DEF Deleted, IdsOfConns
<1>7. CASE UNCHANGED AllButFault
  BY <1>1, <1>7 DEF AllButFault, KeepsConns, netVars, connVars, drvVars, svcVars, srvVars
<1> QED
  <2>1. CASE ChangesConns /\ ~UNCHANGED AllButFault
    BY <2>1, Steps, <1>2, <1>3, <1>4, <1>5, <1>6
       DEF ChangesConns, RegisterMoves
  <2>2. CASE KeepsConns /\ ~UNCHANGED AllButFault
    BY <2>2, Steps, <1>1, <1>2, <1>3, <1>4, <1>5, <1>6
       DEF DriverMoves, ConnectionMoves, RegisterMoves, ServiceMoves, AppMoves, Accept,
           FindReady, CallHandler, ReadData, PreRecv, RecvData, RecvGetsNothing, EnqueueDrop,
           WriteData, SendData, Unlock, RegistReadEvent, RegistEvent, Dies, RegistWriteEvent,
           AcceptConnection, ProcessRecv, SendMsg, EnqueueMsg, DropConnection, StopListener,
           DropNextConnection, AllDropped, DriverStop, JoinDriver, StartConnectRemote, Stop,
           StopReturns, ServerHandles, EndStep, netVars, connVars, drvVars, svcVars, srvVars
  <2> QED
    BY <1>7, <2>1, <2>2, ConnsAreKept

LEMMA IdsOfThreadsKept ==
  ASSUME ControlInv, [Next]_vars
  PROVE  IdsOfThreads'
<1> USE AtType
<1>a. TypeOK /\ IdsOfConns /\ IdsOfThreads /\ LockOwner /\ Contexts /\ EventsOfLiveConns
  BY DEF ControlInv
<1> USE <1>a, NetServiceAssumption
    DEF svcVars, connVars, srvVars, drvVars, At, Go, GoFor, Return, Home, Threads
<1>1. CASE UNCHANGED <<at, mMaxID, endOf>>
  BY <1>1
     DEF IdsOfThreads
<1>2. CASE CallHandler
  <2>1. PICK ev \in active : GoFor(Drv, ev[2], events[ev[1]][ev[2]], NoFd)
    BY <1>2 DEF CallHandler
  <2>2. ev[1] \in DOMAIN events /\ ev[2] \in {"read", "write"}
    BY <2>1 DEF TypeOK
  <2>3. events[ev[1]][ev[2]] \in DOMAIN endOf \cup {NoId}
    BY <2>2 DEF EventsOfLiveConns, IdsOfConns
  <2> QED
    BY <1>2, <2>1, <2>2, <2>3 DEF CallHandler, IdsOfThreads
<1>3. CASE Alive(Drv) /\ ReadData
  BY <1>3
     DEF IdsOfThreads, ReadData, MutexIsFree, Locked, Alive
<1>4. CASE Alive(Drv) /\ PreRecv
  <2>1. UNCHANGED <<mMaxID, endOf>> /\ at[Drv].pc = "prerecv"
    BY <1>4 DEF PreRecv
  <2> QED
    BY <1>4, <2>1, PreRecvGoes DEF IdsOfThreads
<1>5. CASE Alive(Drv) /\ RecvData
  BY <1>5
     DEF IdsOfThreads, RecvData, Unlocked, Alive, End
<1>6. CASE Alive(Drv) /\ RecvGetsNothing
  BY <1>6
     DEF IdsOfThreads, RecvGetsNothing, Unlocked, Alive, End
<1>7. ASSUME NEW t \in {Drv, Svc}, CloseUnregistersRead(t) PROVE IdsOfThreads'
  BY <1>7
     DEF IdsOfThreads, CloseUnregistersRead
<1>8. ASSUME NEW t \in {Drv, Svc}, CloseSocket(t) PROVE IdsOfThreads'
  BY <1>8
     DEF IdsOfThreads, CloseSocket, Unlocked
<1>9. ASSUME NEW t \in {Drv, Svc}, EnqueueDrop(t) PROVE IdsOfThreads'
  BY <1>9
     DEF IdsOfThreads, EnqueueDrop
<1>10. ASSUME NEW t \in {Drv, Svc}, t = Drv => Alive(Drv), WriteData(t) PROVE IdsOfThreads'
  BY <1>10
     DEF IdsOfThreads, WriteData, MutexIsFree, Locked
<1>11. ASSUME NEW t \in {Drv, Svc}, SendData(t) PROVE IdsOfThreads'
  BY <1>11
     DEF IdsOfThreads, SendData, Unlocked, End
<1>12. ASSUME NEW t \in {Drv, Svc}, Unlock(t) PROVE IdsOfThreads'
  BY <1>12
     DEF IdsOfThreads, Unlock, Unlocked
<1>13. ASSUME NEW t \in {Svc, App}, InsertConnection(t), fault' = "none" PROVE IdsOfThreads'
  <2> DEFINE i == at[t].id
             f == at[t].fd
             e == sock[f]
  <2>1. Inserted(t, i, f, e)
    BY <1>13, InsertDoes
  <2> HIDE DEF i, f, e
  <2> QED
    BY <2>1 DEF Inserted, IdsOfThreads, IdsOfConns, TypeOK
<1>14. ASSUME NEW t \in {Svc, App}, RegistReadEvent(t), fault' = "none" PROVE IdsOfThreads'
  BY <1>14
     DEF IdsOfThreads, RegistReadEvent, RegistEvent, Dies
<1>15. ASSUME NEW t \in {Svc, App}, RegistWriteEvent(t), fault' = "none" PROVE IdsOfThreads'
  BY <1>15
     DEF IdsOfThreads, RegistWriteEvent, RegistEvent, Dies
<1>16. CASE AcceptConnection
  BY <1>16
     DEF IdsOfThreads, AcceptConnection, Taking, TypeOK
<1>17. CASE SendMsg
  BY <1>17
     DEF IdsOfThreads, SendMsg, Taking, IdsOfConns
<1>18. CASE EnqueueMsg
  BY <1>18
     DEF IdsOfThreads, EnqueueMsg, ThenWrites, MutexIsFree
<1>19. CASE DropConnection
  BY <1>19
     DEF IdsOfThreads, DropConnection, Taking, IdsOfConns
<1>20. CASE FreeSocket
  BY <1>20
     DEF IdsOfThreads, FreeSocket
<1>21. CASE DeleteConnection
  BY <1>21
     DEF IdsOfThreads, DeleteConnection, FreesLocked, MutexIsFree, Restrict
<1>22. CASE StopListener
  BY <1>22
     DEF IdsOfThreads, StopListener
<1>23. CASE DropNextConnection
  <2> DEFINE i == Min(DOMAIN conns)
  <2>1. i \in DOMAIN endOf
    BY <1>23, NextIsConnection DEF DropNextConnection, IdsOfConns
  <2>2. \E pc \in {"free", "unregRead"} : at' = [at EXCEPT ![Svc] = [pc |-> pc, id |-> i, fd |-> NoFd, then |-> "free"]]
    BY <1>23 DEF DropNextConnection
  <2>3. UNCHANGED <<mMaxID, endOf>>
    BY <1>23 DEF DropNextConnection
  <2> HIDE DEF i
  <2> QED
    BY <2>1, <2>2, <2>3 DEF IdsOfThreads
<1>24. CASE AllDropped
  BY <1>24
     DEF IdsOfThreads, AllDropped
<1>25. CASE DriverStop /\ fault' = "none"
  BY <1>25
     DEF IdsOfThreads, DriverStop, Dies
<1>26. CASE JoinDriver
  BY <1>26
     DEF IdsOfThreads, JoinDriver
<1>27. ASSUME NEW r \in Remotes, StartConnectRemote(r) PROVE IdsOfThreads'
  BY <1>27
     DEF IdsOfThreads, StartConnectRemote, TypeOK
<1>28. CASE Stop
  BY <1>28
     DEF IdsOfThreads, Stop
<1>29. CASE StopReturns
  BY <1>29
     DEF IdsOfThreads, StopReturns
<1>30. CASE UNCHANGED AllButFault
  BY <1>1, <1>30 DEF AllButFault, netVars, connVars, drvVars, svcVars, srvVars
<1> QED
  BY Steps, <1>1, <1>2, <1>3, <1>4, <1>5, <1>6, <1>7, <1>8, <1>9, <1>10, <1>11, <1>12, <1>13,
     <1>14, <1>15, <1>16, <1>17, <1>18, <1>19, <1>20, <1>21, <1>22, <1>23, <1>24, <1>25, <1>26,
     <1>27, <1>28, <1>29, <1>30
     DEF DriverMoves, ConnectionMoves, RegisterMoves, ServiceMoves, AppMoves, Accept,
         FindReady, ProcessRecv, ServerHandles, EndStep, netVars, connVars, drvVars, svcVars,
         srvVars

LEMMA ContextsMove ==
  ASSUME TypeOK, Contexts, DOMAIN endOf \subseteq DOMAIN endOf', GivesNothing \/ \E p : Removes(p)
  PROVE  Contexts'
<1> USE GivenIsSeq
<1>1. GivesNothing => Contexts'
  BY DEF GivesNothing, Contexts
<1>2. ASSUME NEW p, Removes(p) PROVE Contexts'
  <2>1. \A k \in DOMAIN Given' : \E l \in DOMAIN Given : Given'[k] = Given[l]
    BY <1>2 DEF Removes
  <2> QED
    BY <1>2, <2>1 DEF Contexts, Removes
<1> QED
  BY <1>1, <1>2

LEMMA ContextIsGiven ==
  ASSUME TypeOK, Contexts, DOMAIN endOf \subseteq DOMAIN endOf', NEW ctx, Gives(ctx),
         ctx.type # "accept" => ctx.id \in DOMAIN endOf,
         ctx.type = "recv" => IsDelivered(ctx.msg),
         ctx.type = "send" => ctx.msg \in Message
  PROVE  Contexts'
<1> USE GivenIsSeq
<1>1. /\ Given' = Append(Given, ctx) /\ UNCHANGED srvLog
      /\ \A k \in DOMAIN Given' : Given'[k] = ctx \/ (k \in DOMAIN Given /\ Given'[k] = Given[k])
  BY DEF Gives
<1> QED
  BY <1>1 DEF Contexts

LEMMA ContextsKept ==
  ASSUME ControlInv, [Next]_vars
  PROVE  Contexts'
<1>a. TypeOK /\ ThreadPlaces /\ IdsOfConns /\ Contexts /\ LockOwner /\ EnqIsHead
  BY DEF ControlInv
<1> USE <1>a, NetServiceAssumption
    DEF svcVars, connVars, srvVars, drvVars, Threads
<1>1. CASE UNCHANGED <<mQueue, srvLog, endOf>>
  BY <1>1
     DEF Contexts, Given
<1>2. CASE Accept
  <2>1. Enqueue(Accepted(FreeFd)) /\ UNCHANGED <<srvLog, endOf>>
    BY <1>2 DEF Accept
  <2>2. IF mRunning THEN Gives(Accepted(FreeFd)) ELSE GivesNothing
    BY <2>1, EnqueueGives
  <2>3. Accepted(FreeFd).type = "accept"
    BY DEF Accepted
  <2> QED
    BY <2>1, <2>2, <2>3, ContextsMove, ContextIsGiven
<1>3. CASE Alive(Drv) /\ RecvData
  <2> DEFINE i == at[Drv].id
             e == endOf[i]
  <2>1. PICK k, buf : TakesOver(i, e, k, buf)
    BY <1>3, RecvDataDoes
  <2> HIDE DEF i, e
  <2>2. UNCHANGED endOf /\ i \in DOMAIN endOf /\ (GivesNothing \/ (Gives(Recv(i, buf)) /\ IsDelivered(buf)))
    BY <2>1 DEF TakesOver
  <2>3. Recv(i, buf).id = i /\ Recv(i, buf).msg = buf /\ Recv(i, buf).type = "recv"
    BY DEF Recv
  <2> QED
    BY <2>2, <2>3, ContextsMove, ContextIsGiven
<1>4. ASSUME NEW t \in {Drv, Svc}, EnqueueDrop(t) PROVE Contexts'
  <2>1. Enqueue(Drop(at[t].id)) /\ UNCHANGED <<srvLog, endOf>>
    BY <1>4 DEF EnqueueDrop, TellsOfDrop
  <2>2. IF mRunning THEN Gives(Drop(at[t].id)) ELSE GivesNothing
    BY <2>1, EnqueueGives
  <2>3. at[t].id \in DOMAIN endOf
    BY <1>4 DEF EnqueueDrop, At, LockOwner, Locking, LockPcs, IdsOfConns
  <2>4. Drop(at[t].id).type = "drop" /\ Drop(at[t].id).id = at[t].id
    BY DEF Drop
  <2> QED
    BY <2>1, <2>2, <2>3, <2>4, ContextsMove, ContextIsGiven
<1>5. ASSUME NEW t \in {Svc, App}, InsertConnection(t), fault' = "none" PROVE Contexts'
  <2> DEFINE i == at[t].id
             f == at[t].fd
             e == sock[f]
  <2>1. Inserted(t, i, f, e)
    BY <1>5, InsertDoes
  <2> HIDE DEF i, f, e
  <2> QED
    BY <2>1, ContextsMove DEF Inserted, GivesNothing, Given
<1>6. CASE AcceptConnection
  <2>1. Removes(Len(srvLog) + 1)
    BY <1>6, TakeRemoves DEF AcceptConnection, Taking
  <2> QED
    BY <1>6, <2>1, ContextsMove DEF AcceptConnection
<1>7. CASE ProcessRecv
  <2>1. UNCHANGED <<Given, endOf>> /\ Given[Len(srvLog) + 1] = Ctx /\ srvLog' = Append(srvLog, Ctx)
        /\ Ctx.type = "recv"
    BY <1>7, TakeGives, GivenHead DEF ProcessRecv, Taking
  <2> QED
    BY <2>1, GivenIsSeq DEF Contexts
<1>8. CASE SendMsg
  <2>1. CASE UNCHANGED mQueue
    BY <1>8, <2>1, ContextsMove DEF SendMsg, GivesNothing, Given
  <2>2. CASE mQueue' = Tail(mQueue)
    <3>1. Removes(Len(srvLog) + 1)
      BY <1>8, <2>2, TakeRemoves DEF SendMsg, Taking
    <3> QED
      BY <1>8, <3>1, ContextsMove DEF SendMsg
  <2> QED
    BY <1>8, <2>1, <2>2 DEF SendMsg
<1>9. CASE EnqueueMsg
  <2>1. Removes(Len(srvLog) + 1)
    BY <1>9, TakeRemoves DEF EnqueueMsg, EnqIsHead
  <2> QED
    BY <1>9, <2>1, ContextsMove DEF EnqueueMsg
<1>10. CASE DropConnection
  <2>1. UNCHANGED <<Given, endOf>> /\ Given[Len(srvLog) + 1] = Ctx /\ srvLog' = Append(srvLog, Ctx)
        /\ Ctx.type = "drop"
    BY <1>10, TakeGives, GivenHead DEF DropConnection, Taking
  <2> QED
    BY <2>1, GivenIsSeq DEF Contexts
<1>11. CASE StopListener
  <2>1. mQueue' = <<>> /\ UNCHANGED <<srvLog, endOf>>
    BY <1>11 DEF StopListener
  <2> QED
    BY <2>1, StopForgets DEF Contexts
<1>12. CASE ServerHandles
  <2> DEFINE ctx == srvLog[srvDone + 1]
  <2>1. srvDone + 1 \in DOMAIN srvLog /\ ctx = Given[srvDone + 1] /\ srvDone + 1 \in DOMAIN Given /\ ~IsBroken(ctx)
    BY <1>12, GivenIsSeq DEF ServerHandles, TypeOK
  <2> HIDE DEF ctx
  <2>2. UNCHANGED <<srvLog, endOf>> /\ IF ctx.type = "recv" THEN Enqueue(Send(ctx.id, ctx.msg)) ELSE UNCHANGED mQueue
    BY <1>12 DEF ServerHandles, ctx
  <2>3. CASE ctx.type # "recv"
    BY <2>2, <2>3, ContextsMove DEF GivesNothing, Given
  <2>4. CASE ctx.type = "recv"
    <3>1. IF mRunning THEN Gives(Send(ctx.id, ctx.msg)) ELSE GivesNothing
      BY <2>2, <2>4, EnqueueGives
    <3>2. ctx.id \in DOMAIN endOf /\ ctx.msg \in Message
      BY <2>1, <2>4 DEF Contexts, IsDelivered, IsBroken
    <3>3. /\ Send(ctx.id, ctx.msg).id = ctx.id /\ Send(ctx.id, ctx.msg).msg = ctx.msg
          /\ Send(ctx.id, ctx.msg).type = "send"
      BY DEF Send
    <3> QED
      BY <2>2, <3>1, <3>2, <3>3, ContextsMove, ContextIsGiven
  <2> QED
    BY <2>3, <2>4
<1>13. CASE UNCHANGED AllButFault
  BY <1>1, <1>13 DEF AllButFault, netVars, connVars, drvVars, svcVars, srvVars
<1> QED
  BY Steps, <1>1, <1>2, <1>3, <1>4, <1>5, <1>6, <1>7, <1>8, <1>9, <1>10, <1>11, <1>12, <1>13
     DEF DriverMoves, ConnectionMoves, RegisterMoves, ServiceMoves, AppMoves, FindReady,
         CallHandler, ReadData, PreRecv, RecvGetsNothing, CloseUnregistersRead, CloseSocket,
         WriteData, SendData, Unlock, RegistReadEvent, RegistEvent, Dies, RegistWriteEvent,
         FreeSocket, DeleteConnection, DropNextConnection, AllDropped, DriverStop, JoinDriver,
         StartConnectRemote, Stop, StopReturns, EndStep, netVars, connVars, drvVars, svcVars,
         srvVars

LEMMA EnqIsHeadKept ==
  ASSUME ControlInv, [Next]_vars
  PROVE  EnqIsHead'
<1> USE AtType
<1>b. mQueue \in Seq(Context)
  BY GivenIsSeq DEF ControlInv
<1> USE <1>b
<1>a. TypeOK /\ ThreadPlaces /\ EnqIsHead
  BY DEF ControlInv
<1> USE <1>a, NetServiceAssumption
    DEF svcVars, connVars, srvVars, drvVars, At, Go, GoFor, Return, Home, Threads
<1>1. CASE UNCHANGED <<at, mQueue>>
  BY <1>1
     DEF EnqIsHead, Ctx
<1>2. CASE Accept
  <2>1. UNCHANGED at /\ (UNCHANGED mQueue \/ mQueue' = Append(mQueue, Accepted(FreeFd)))
    BY <1>2 DEF Accept, Enqueue
  <2> QED
    BY <2>1 DEF EnqIsHead, Ctx
<1>3. CASE CallHandler
  BY <1>3
     DEF EnqIsHead, Ctx, CallHandler, TypeOK
<1>4. CASE Alive(Drv) /\ ReadData
  BY <1>4
     DEF EnqIsHead, Ctx, ReadData, MutexIsFree, Locked, Alive
<1>5. CASE Alive(Drv) /\ PreRecv
  BY <1>5
     DEF EnqIsHead, Ctx, PreRecv, AfterLength, Alive, End
<1>6. CASE Alive(Drv) /\ RecvData
  <2>1. (\E ctx : mQueue' = Append(mQueue, ctx)) \/ UNCHANGED mQueue
    BY <1>6 DEF RecvData, Enqueue
  <2>2. at'[Svc] = at[Svc]
    BY <1>6 DEF RecvData
  <2> QED
    BY <2>1, <2>2 DEF EnqIsHead, Ctx
<1>7. CASE Alive(Drv) /\ RecvGetsNothing
  BY <1>7
     DEF EnqIsHead, Ctx, RecvGetsNothing, Unlocked, Alive, End
<1>8. ASSUME NEW t \in {Drv, Svc}, CloseUnregistersRead(t) PROVE EnqIsHead'
  BY <1>8
     DEF EnqIsHead, Ctx, CloseUnregistersRead
<1>9. ASSUME NEW t \in {Drv, Svc}, CloseSocket(t) PROVE EnqIsHead'
  BY <1>9
     DEF EnqIsHead, Ctx, CloseSocket, Unlocked
<1>10. ASSUME NEW t \in {Drv, Svc}, EnqueueDrop(t) PROVE EnqIsHead'
  BY <1>10
     DEF EnqIsHead, Ctx, EnqueueDrop, Enqueue, TellsOfDrop
<1>11. ASSUME NEW t \in {Drv, Svc}, t = Drv => Alive(Drv), WriteData(t) PROVE EnqIsHead'
  BY <1>11
     DEF EnqIsHead, Ctx, WriteData, MutexIsFree, Locked
<1>12. ASSUME NEW t \in {Drv, Svc}, SendData(t) PROVE EnqIsHead'
  BY <1>12
     DEF EnqIsHead, Ctx, SendData, Unlocked, End
<1>13. ASSUME NEW t \in {Drv, Svc}, Unlock(t) PROVE EnqIsHead'
  BY <1>13
     DEF EnqIsHead, Ctx, Unlock, Unlocked
<1>14. ASSUME NEW t \in {Svc, App}, InsertConnection(t), fault' = "none" PROVE EnqIsHead'
  BY <1>14
     DEF EnqIsHead, Ctx, InsertConnection, Dies
<1>15. ASSUME NEW t \in {Svc, App}, RegistReadEvent(t), fault' = "none" PROVE EnqIsHead'
  BY <1>15
     DEF EnqIsHead, Ctx, RegistReadEvent, RegistEvent, Dies
<1>16. ASSUME NEW t \in {Svc, App}, RegistWriteEvent(t), fault' = "none" PROVE EnqIsHead'
  BY <1>16
     DEF EnqIsHead, Ctx, RegistWriteEvent, RegistEvent, Dies
<1>17. CASE AcceptConnection
  BY <1>17
     DEF EnqIsHead, Ctx, AcceptConnection, Taking
<1>18. CASE ProcessRecv
  BY <1>18
     DEF EnqIsHead, Ctx, ProcessRecv, Taking
<1>19. CASE SendMsg
  BY <1>19
     DEF EnqIsHead, Ctx, SendMsg, Taking
<1>20. CASE EnqueueMsg
  BY <1>20
     DEF EnqIsHead, Ctx, EnqueueMsg, ThenWrites, MutexIsFree
<1>21. CASE DropConnection
  BY <1>21
     DEF EnqIsHead, Ctx, DropConnection, Taking
<1>22. CASE FreeSocket
  BY <1>22
     DEF EnqIsHead, Ctx, FreeSocket
<1>23. CASE DeleteConnection
  BY <1>23
     DEF EnqIsHead, Ctx, DeleteConnection, FreesLocked, MutexIsFree, Restrict
<1>24. CASE StopListener
  BY <1>24
     DEF EnqIsHead, Ctx, StopListener
<1>25. CASE DropNextConnection
  BY <1>25
     DEF EnqIsHead, Ctx, DropNextConnection, Locked
<1>26. CASE AllDropped
  BY <1>26
     DEF EnqIsHead, Ctx, AllDropped
<1>27. CASE DriverStop /\ fault' = "none"
  BY <1>27
     DEF EnqIsHead, Ctx, DriverStop, Dies
<1>28. CASE JoinDriver
  BY <1>28
     DEF EnqIsHead, Ctx, JoinDriver
<1>29. ASSUME NEW r \in Remotes, StartConnectRemote(r) PROVE EnqIsHead'
  BY <1>29
     DEF EnqIsHead, Ctx, StartConnectRemote
<1>30. CASE Stop
  BY <1>30
     DEF EnqIsHead, Ctx, Stop
<1>31. CASE StopReturns
  BY <1>31
     DEF EnqIsHead, Ctx, StopReturns
<1>32. CASE ServerHandles
  <2>1. UNCHANGED at /\ \E ctx : mQueue' = mQueue \/ mQueue' = Append(mQueue, ctx)
    BY <1>32 DEF ServerHandles, Enqueue
  <2> QED
    BY <2>1 DEF EnqIsHead, Ctx
<1>33. CASE UNCHANGED AllButFault
  BY <1>1, <1>33 DEF AllButFault, netVars, connVars, drvVars, svcVars, srvVars
<1> QED
  BY Steps, <1>1, <1>2, <1>3, <1>4, <1>5, <1>6, <1>7, <1>8, <1>9, <1>10, <1>11, <1>12, <1>13,
     <1>14, <1>15, <1>16, <1>17, <1>18, <1>19, <1>20, <1>21, <1>22, <1>23, <1>24, <1>25, <1>26,
     <1>27, <1>28, <1>29, <1>30, <1>31, <1>32, <1>33
     DEF DriverMoves, ConnectionMoves, RegisterMoves, ServiceMoves, AppMoves, FindReady,
         EndStep, netVars, connVars, drvVars, svcVars, srvVars


QueueGives(ctx) == ctx.type # "accept" /\ mQueue' \in {mQueue, Append(mQueue, ctx)}

LEMMA PendingIsKept ==
  ASSUME TypeOK, PendingSockets, KeepsRegistering, UNCHANGED <<sock, endOf>>,
         \/ UNCHANGED mQueue
         \/ \E ctx : QueueGives(ctx)
         \/ mQueue # <<>> /\ mQueue' = Tail(mQueue)
         \/ mQueue' = <<>>
  PROVE  PendingSockets'
<1> USE AtType, GivenIsSeq
<1> DEFINE From(k, l) == l \in DOMAIN mQueue /\ mQueue'[k] = mQueue[l]
<1>1. PendingThreads'
  BY DEF PendingSockets, PendingThreads, IsPending, KeepsRegistering, At
<1>2. ASSUME NEW d \in {0, 1}, \A k \in DOMAIN mQueue' : k \in Nat /\ (mQueue'[k].type = "accept" => From(k, k + d))
      PROVE  PendingContexts'
  <2>1. ASSUME NEW k \in DOMAIN mQueue', mQueue'[k].type = "accept"
        PROVE  /\ IsPending(mQueue[k + d].fd) /\ mQueue'[k].fd = mQueue[k + d].fd
               /\ \A t \in Threads : At(t, "insert") => at[t].fd # mQueue'[k].fd
               /\ \A l \in DOMAIN mQueue' : mQueue'[l].type = "accept" /\ mQueue'[l].fd = mQueue'[k].fd => k + d = l + d
    <3>1. k + d \in DOMAIN mQueue /\ mQueue'[k] = mQueue[k + d] /\ mQueue[k + d].type = "accept"
      BY <1>2, <2>1
    <3>2. /\ IsPending(mQueue[k + d].fd)
          /\ \A t \in Threads : At(t, "insert") => at[t].fd # mQueue[k + d].fd
          /\ \A l \in DOMAIN mQueue :
               mQueue[l].type = "accept" /\ mQueue[l].fd = mQueue[k + d].fd => k + d = l
      BY <3>1, Zenon DEF PendingSockets, PendingContexts
    <3>3. ASSUME NEW l \in DOMAIN mQueue', mQueue'[l].type = "accept", mQueue'[l].fd = mQueue'[k].fd
          PROVE  k + d = l + d
      <4>1. l + d \in DOMAIN mQueue /\ mQueue'[l] = mQueue[l + d]
        BY <1>2, <3>3
      <4> QED
        BY ONLY <3>1, <3>2, <3>3, <4>1, Zenon
    <3> QED
      BY ONLY <3>1, <3>2, <3>3, Zenon
  <2>2. \A k, l \in DOMAIN mQueue' : k + d = l + d => k = l
    BY <1>2
  <2>3. \A t \in Threads : At(t, "insert")' => At(t, "insert") /\ at'[t] = at[t]
    BY DEF KeepsRegistering, At
  <2> HIDE DEF From
  <2>4. ASSUME NEW k \in DOMAIN mQueue', mQueue'[k].type = "accept"
        PROVE  /\ IsPending(mQueue[k].fd)'
               /\ \A t \in Threads : At(t, "insert")' => at'[t].fd # mQueue'[k].fd
               /\ \A l \in DOMAIN mQueue' : mQueue'[l].type = "accept" /\ mQueue'[l].fd = mQueue'[k].fd => k = l
    <3>1. IsPending(mQueue[k].fd)'
      <4> DEFINE fd == mQueue'[k].fd
      <4>1. IsPending(fd)
        BY ONLY <2>1, <2>4, Zenon
      <4>2. sock' = sock /\ endOf' = endOf
        OBVIOUS
      <4> QED
        BY ONLY <4>1, <4>2, Zenon DEF IsPending
    <3>2. \A t \in Threads : At(t, "insert")' => at'[t].fd # mQueue'[k].fd
      BY ONLY <2>1, <2>3, <2>4, Zenon
    <3>3. ASSUME NEW l \in DOMAIN mQueue', mQueue'[l].type = "accept", mQueue'[l].fd = mQueue'[k].fd
          PROVE  k = l
      BY ONLY <2>1, <2>2, <2>4, <3>3, Zenon
    <3> QED
      BY <3>1, <3>2, <3>3
  <2> QED
    BY <2>4 DEF PendingContexts
<1>3. CASE UNCHANGED mQueue \/ mQueue' = <<>>
  <2>1. \A k \in DOMAIN mQueue' : k \in Nat /\ From(k, k + 0)
    BY <1>3
  <2> QED
    BY <1>2, <2>1, <1>1 DEF PendingSockets, PendingThreads, PendingContexts
<1>4. ASSUME NEW ctx, QueueGives(ctx) PROVE PendingSockets'
  <2>1. \A k \in DOMAIN mQueue' : k \in Nat /\ (mQueue'[k].type = "accept" => From(k, k + 0))
    BY <1>4 DEF QueueGives
  <2> QED
    BY <1>2, <2>1, <1>1 DEF PendingSockets, PendingThreads, PendingContexts
<1>5. CASE mQueue # <<>> /\ mQueue' = Tail(mQueue)
  <2>1. \A k \in DOMAIN mQueue' : k \in Nat /\ From(k, k + 1)
    BY <1>5
  <2> QED
    BY <1>2, <2>1, <1>1 DEF PendingSockets, PendingThreads, PendingContexts
<1> QED
  BY <1>1, <1>3, <1>4, <1>5

LEMMA PendingSocketsKept ==
  ASSUME ControlInv, [Next]_vars
  PROVE  PendingSockets'
<1> USE AtType
<1>b. /\ mQueue \in Seq(Context) /\ sock \in [Fds -> Ends \cup {NoEnd}] /\ backlog \in Seq(Ends) /\ NoEnd \notin Ends
  BY GivenIsSeq, TcpSocketAssumption DEF ControlInv, TypeOK, SocketTypeOK
<1> USE <1>b
<1>a. TypeOK /\ ThreadPlaces /\ Sockets /\ PendingSockets /\ EnqIsHead
  BY DEF ControlInv
<1> USE <1>a, NetServiceAssumption
    DEF svcVars, connVars, srvVars, drvVars, At, Threads
<1>1. CASE KeepsRegistering /\ UNCHANGED <<sock, endOf, mQueue>>
  BY <1>1
     DEF PendingSockets, PendingThreads, PendingContexts, IsPending, KeepsRegistering
<1>2. CASE Accept /\ KeepsRegistering
  <2>1. /\ sock' = [sock EXCEPT ![FreeFd] = Head(backlog)] /\ backlog # <<>> /\ UNCHANGED endOf
        /\ (UNCHANGED mQueue \/ mQueue' = Append(mQueue, Accepted(FreeFd)))
    BY <1>2 DEF Accept, Enqueue
  <2>2. FreeFd \in Fds /\ FreeFd # NoFd /\ sock[FreeFd] = NoEnd /\ Accepted(FreeFd).fd = FreeFd
    BY <1>2, FreeFdIsFree DEF Accept, Accepted
  <2> HIDE DEF FreeFd
  <2>3. /\ sock'[FreeFd] = backlog[1] /\ backlog[1] \in Ends
        /\ \A j \in DOMAIN endOf : endOf[j] # backlog[1]
    BY <2>1, <2>2 DEF Sockets, Backlog, NeverMet
  <2>4. \A g \in Fds : sock[g] # NoEnd => g # FreeFd /\ sock'[g] = sock[g]
    BY <2>1, <2>2
  <2>5. \A u \in Threads : At(u, "insert") => at[u].fd # FreeFd
    BY <2>2 DEF PendingSockets, PendingThreads, PendingContexts, IsPending
  <2>6. \A k \in DOMAIN mQueue : mQueue[k].type = "accept" => mQueue[k].fd # FreeFd
    BY <2>2 DEF PendingSockets, PendingThreads, PendingContexts, IsPending
  <2>7. PendingThreads'
    BY <1>2, <2>1, <2>4 DEF PendingSockets, PendingThreads, IsPending, KeepsRegistering
  <2>8. \A k \in DOMAIN mQueue' : \/ k \in DOMAIN mQueue /\ mQueue'[k] = mQueue[k]
                                  \/ k = Len(mQueue) + 1 /\ mQueue'[k] = Accepted(FreeFd)
    <3>1. CASE UNCHANGED mQueue
      BY <3>1
    <3>2. CASE mQueue' = Append(mQueue, Accepted(FreeFd))
      BY <3>2
    <3> QED
      BY <2>1, <3>1, <3>2
  <2>9. PendingContexts'
    <3> SUFFICES ASSUME NEW k \in DOMAIN mQueue', mQueue'[k].type = "accept"
                 PROVE  /\ IsPending(mQueue[k].fd)'
                        /\ \A t \in Threads : At(t, "insert")' => at'[t].fd # mQueue'[k].fd
                        /\ \A l \in DOMAIN mQueue' : mQueue'[l].type = "accept" /\ mQueue'[l].fd = mQueue'[k].fd => k = l
      BY DEF PendingContexts
    <3>1. \A u \in Threads : At(u, "insert")' => At(u, "insert") /\ at'[u].fd = at[u].fd
      BY <1>2 DEF KeepsRegistering
    <3>2. CASE k \in DOMAIN mQueue /\ mQueue'[k] = mQueue[k]
      <4>1. IsPending(mQueue[k].fd)'
        BY <2>1, <2>4, <3>2 DEF PendingSockets, PendingContexts, IsPending
      <4>2. \A l \in DOMAIN mQueue' : mQueue'[l].type = "accept" /\ mQueue'[l].fd = mQueue'[k].fd => k = l
        BY <2>2, <2>6, <2>8, <3>2 DEF PendingSockets, PendingContexts
      <4> QED
        BY <3>1, <3>2, <4>1, <4>2 DEF PendingSockets, PendingContexts
    <3>3. CASE k = Len(mQueue) + 1 /\ mQueue'[k] = Accepted(FreeFd)
      <4>1. IsPending(mQueue[k].fd)'
        BY <2>1, <2>2, <2>3, <3>3 DEF IsPending
      <4>2. \A l \in DOMAIN mQueue' : mQueue'[l].type = "accept" /\ mQueue'[l].fd = mQueue'[k].fd => k = l
        BY <2>2, <2>6, <2>8, <3>3
      <4> QED
        BY <2>2, <2>5, <3>1, <3>3, <4>1, <4>2
    <3> QED
      BY <2>8, <3>2, <3>3
  <2> QED
    BY <2>7, <2>9 DEF PendingSockets
<1>3. CASE Alive(Drv) /\ RecvData /\ KeepsRegistering
  <2>1. \E ctx : QueueGives(ctx)
    <3>1. \E buf : mQueue' \in {mQueue, Append(mQueue, Recv(at[Drv].id, buf))}
      BY <1>3 DEF RecvData, Enqueue
    <3>2. \A buf : Recv(at[Drv].id, buf).type # "accept"
      BY DEF Recv
    <3> QED
      BY <3>1, <3>2 DEF QueueGives
  <2>2. KeepsRegistering /\ UNCHANGED <<sock, endOf>>
    BY <1>3 DEF RecvData
  <2> QED
    BY <2>1, <2>2, PendingIsKept
<1>4. ASSUME NEW t \in {Drv, Svc}, CloseSocket(t), KeepsRegistering PROVE PendingSockets'
  <2> DEFINE i == at[t].id
             f == Conn(t).fd
             e == endOf[i]
  <2>1. SocketClosed(t, i, f, e)
    BY <1>4, CloseSocketDoes
  <2> HIDE DEF i, f, e
  <2>2. /\ sock' = [sock EXCEPT ![f] = NoEnd] /\ f \in Fds /\ UNCHANGED <<endOf, mQueue>>
        /\ i \in DOMAIN endOf /\ endOf[i] = sock[f]
    BY <2>1 DEF SocketClosed
  <2> QED
    BY <1>4, <2>2 DEF PendingSockets, PendingThreads, PendingContexts, IsPending, KeepsRegistering
<1>5. ASSUME NEW t \in {Drv, Svc}, EnqueueDrop(t), KeepsRegistering PROVE PendingSockets'
  <2>1. \E ctx : QueueGives(ctx)
    BY <1>5 DEF EnqueueDrop, TellsOfDrop, Drop, Enqueue, QueueGives
  <2>2. KeepsRegistering /\ UNCHANGED <<sock, endOf>>
    BY <1>5 DEF EnqueueDrop, netVars
  <2> QED
    BY <2>1, <2>2, PendingIsKept DEF QueueGives
<1>6. ASSUME NEW t \in {Svc, App}, InsertConnection(t), fault' = "none" PROVE PendingSockets'
  <2> DEFINE i == at[t].id
             f == at[t].fd
             e == sock[f]
  <2>1. Inserted(t, i, f, e)
    BY <1>6, InsertDoes
  <2>2. f = at[t].fd /\ e = sock[f]
    OBVIOUS
  <2> HIDE DEF i, f, e
  <2>3. /\ UNCHANGED <<sock, mQueue>> /\ At(t, "insert") /\ at' = [at EXCEPT ![t].pc = "regRead"] /\ t \in Threads
        /\ endOf' = [j \in DOMAIN endOf \cup {i} |-> IF j = i THEN e ELSE endOf[j]] /\ i \notin DOMAIN endOf
        /\ f \in Fds /\ e # NoEnd
    BY <2>1 DEF Inserted
  <2>4. \A g \in Fds : sock[g] # NoEnd /\ g # f => sock[g] # e
    BY <2>2, <2>3 DEF Sockets, SocketsDiffer
  <2>5. \A u \in Threads : at'[u].fd = at[u].fd /\ (At(u, "insert")' => At(u, "insert") /\ u # t)
    BY <2>3
  <2>6. \A u \in Threads : u # t /\ At(u, "insert") => at[u].fd # f
    BY <2>2, <2>3 DEF PendingSockets, PendingThreads, PendingContexts
  <2>7. \A k \in DOMAIN mQueue : mQueue[k].type = "accept" => mQueue[k].fd # f
    BY <2>2, <2>3 DEF PendingSockets, PendingThreads, PendingContexts
  <2> QED
    BY <2>3, <2>4, <2>5, <2>6, <2>7 DEF PendingSockets, PendingThreads, PendingContexts, IsPending
<1>7. ASSUME NEW t \in {Svc, App}, RegistReadEvent(t), fault' = "none" PROVE PendingSockets'
  <2>1. /\ UNCHANGED <<sock, endOf, mQueue>> /\ \A u \in Threads : at'[u] = at[u] \/ at'[u].pc # "insert"
    BY <1>7, EventIsRegistered DEF EventRegistered
  <2>2. PendingThreads'
    BY <2>1 DEF PendingSockets, PendingThreads, IsPending
  <2>3. PendingContexts'
    BY <2>1 DEF PendingSockets, PendingContexts, IsPending
  <2> QED
    BY <2>2, <2>3 DEF PendingSockets
<1>8. ASSUME NEW t \in {Svc, App}, RegistWriteEvent(t), fault' = "none" PROVE PendingSockets'
  <2>1. /\ UNCHANGED <<sock, endOf, mQueue>> /\ \A u \in Threads : at'[u] = at[u] \/ at'[u].pc # "insert"
    BY <1>8, EventIsRegistered DEF EventRegistered
  <2>2. PendingThreads'
    BY <2>1 DEF PendingSockets, PendingThreads, IsPending
  <2>3. PendingContexts'
    BY <2>1 DEF PendingSockets, PendingContexts, IsPending
  <2> QED
    BY <2>2, <2>3 DEF PendingSockets
<1>9. CASE AcceptConnection
  <2>1. /\ mQueue # <<>> /\ mQueue' = Tail(mQueue) /\ UNCHANGED <<sock, endOf>> /\ At(Svc, "take")
        /\ at' = [at EXCEPT ![Svc] = [pc |-> "insert", id |-> mMaxID, fd |-> Ctx.fd, then |-> "drop"]]
        /\ Ctx.type = "accept" /\ Ctx = mQueue[1] /\ 1 \in DOMAIN mQueue
    BY <1>9 DEF AcceptConnection, Taking, Ctx, GoFor, netVars
  <2>2. \A k \in DOMAIN mQueue' : k + 1 \in DOMAIN mQueue /\ mQueue'[k] = mQueue[k + 1] /\ k + 1 # 1
    BY <2>1
  <2>3. IsPending(Ctx.fd) /\ \A k \in DOMAIN mQueue' : mQueue'[k].type = "accept" => mQueue'[k].fd # Ctx.fd
    BY <2>1, <2>2 DEF PendingSockets, PendingThreads, PendingContexts
  <2>4. \A u \in Threads : IF u = Svc THEN at'[u].fd = Ctx.fd ELSE at'[u] = at[u]
    BY <2>1
  <2>5. \A u \in Threads : At(u, "insert") => at[u].fd # Ctx.fd
    BY <2>1 DEF PendingSockets, PendingThreads, PendingContexts
  <2> QED
    BY <2>1, <2>2, <2>3, <2>4, <2>5 DEF PendingSockets, PendingThreads, PendingContexts, IsPending
<1>10. CASE ProcessRecv /\ KeepsRegistering
  <2>1. mQueue # <<>> /\ mQueue' = Tail(mQueue)
    BY <1>10 DEF ProcessRecv, Taking
  <2>2. KeepsRegistering /\ UNCHANGED <<sock, endOf>>
    BY <1>10 DEF ProcessRecv, netVars
  <2> QED
    BY <2>1, <2>2, PendingIsKept DEF QueueGives
<1>11. CASE SendMsg /\ KeepsRegistering
  <2>1. UNCHANGED mQueue \/ (mQueue # <<>> /\ mQueue' = Tail(mQueue))
    BY <1>11 DEF SendMsg, Taking
  <2>2. KeepsRegistering /\ UNCHANGED <<sock, endOf>>
    BY <1>11 DEF SendMsg, netVars
  <2> QED
    BY <2>1, <2>2, PendingIsKept DEF QueueGives
<1>12. CASE EnqueueMsg /\ KeepsRegistering
  <2>1. mQueue # <<>> /\ mQueue' = Tail(mQueue)
    BY <1>12 DEF EnqueueMsg, EnqIsHead
  <2>2. KeepsRegistering /\ UNCHANGED <<sock, endOf>>
    BY <1>12 DEF EnqueueMsg, netVars
  <2> QED
    BY <2>1, <2>2, PendingIsKept DEF QueueGives
<1>13. CASE DropConnection /\ KeepsRegistering
  <2>1. mQueue # <<>> /\ mQueue' = Tail(mQueue)
    BY <1>13 DEF DropConnection, Taking
  <2>2. KeepsRegistering /\ UNCHANGED <<sock, endOf>>
    BY <1>13 DEF DropConnection, netVars
  <2> QED
    BY <2>1, <2>2, PendingIsKept DEF QueueGives
<1>14. CASE FreeSocket /\ KeepsRegistering
  <2>1. Freed(at[Svc].id)
    BY <1>14, FreeSocketDoes
  <2> QED
    BY <1>14, <2>1, PendingIsKept DEF Freed
<1>15. CASE StopListener /\ KeepsRegistering
  <2>1. mQueue' = <<>>
    BY <1>15 DEF StopListener
  <2>2. KeepsRegistering /\ UNCHANGED <<sock, endOf>>
    BY <1>15 DEF StopListener, netVars
  <2> QED
    BY <2>1, <2>2, PendingIsKept DEF QueueGives
<1>16. ASSUME NEW r \in Remotes, StartConnectRemote(r) PROVE PendingSockets'
  <2>1. /\ sock' = [sock EXCEPT ![FreeFd] = r] /\ link[r] = "none" /\ UNCHANGED <<endOf, mQueue>> /\ r \in Ends
        /\ at' = [at EXCEPT ![App] = [pc |-> "insert", id |-> mMaxID, fd |-> FreeFd, then |-> "drop"]]
    BY <1>16 DEF StartConnectRemote, Ends, GoFor
  <2>2. FreeFd \in Fds /\ FreeFd # NoFd /\ sock[FreeFd] = NoEnd
    BY <1>16, FreeFdIsFree DEF StartConnectRemote
  <2> HIDE DEF FreeFd
  <2>3. /\ sock'[FreeFd] = r /\ r # NoEnd
        /\ \A j \in DOMAIN endOf : endOf[j] # r
    BY <2>1, <2>2 DEF Sockets, NoneIsNeverMet, NeverMet
  <2>4. \A g \in Fds : sock[g] # NoEnd => g # FreeFd /\ sock'[g] = sock[g]
    BY <2>1, <2>2
  <2>5. \A u \in Threads : IF u = App THEN at'[u].fd = FreeFd ELSE at'[u] = at[u]
    BY <2>1
  <2>6. \A u \in Threads : At(u, "insert") => at[u].fd # FreeFd
    BY <2>2 DEF PendingSockets, PendingThreads, PendingContexts, IsPending
  <2>7. \A k \in DOMAIN mQueue : mQueue[k].type = "accept" => mQueue[k].fd # FreeFd
    BY <2>2 DEF PendingSockets, PendingThreads, PendingContexts, IsPending
  <2> QED
    BY <2>1, <2>2, <2>3, <2>4, <2>5, <2>6, <2>7 DEF PendingSockets, PendingThreads, PendingContexts, IsPending
<1>17. CASE ServerHandles /\ KeepsRegistering
  <2>1. UNCHANGED mQueue \/ \E ctx : QueueGives(ctx)
    BY <1>17 DEF ServerHandles, Send, Enqueue, QueueGives
  <2>2. KeepsRegistering /\ UNCHANGED <<sock, endOf>>
    BY <1>17 DEF ServerHandles, netVars
  <2> QED
    BY <2>1, <2>2, PendingIsKept DEF QueueGives
<1>18. ASSUME NEW e \in Ends, EndStep(e), KeepsRegistering PROVE PendingSockets'
  <2>1. EndSteps(e) => UNCHANGED <<sock, budget>>
    BY DEF EndSteps, PeerConnects, EndSends, EndReads, EndCloses, EndResets
  <2> QED
    BY <1>18, <2>1, <1>1 DEF EndStep
<1>19. CASE UNCHANGED AllButFault
  BY <1>1, <1>19 DEF AllButFault, KeepsRegistering, netVars, connVars, drvVars, svcVars, srvVars
<1> QED
  <2>1. CASE ChangesRegistering /\ ~UNCHANGED AllButFault
    BY <2>1, Steps, <1>6, <1>7, <1>8, <1>9, <1>16
       DEF ChangesRegistering, RegisterMoves
  <2>2. CASE KeepsRegistering /\ ~UNCHANGED AllButFault
    BY <2>2, Steps, <1>1, <1>2, <1>3, <1>4, <1>5, <1>6, <1>7, <1>8, <1>9, <1>10, <1>11, <1>12,
       <1>13, <1>14, <1>15, <1>16, <1>17, <1>18
       DEF DriverMoves, ConnectionMoves, RegisterMoves, ServiceMoves, AppMoves, FindReady,
           CallHandler, ReadData, PreRecv, RecvGetsNothing, CloseUnregistersRead, WriteData,
           SendData, Unlock, DeleteConnection, DropNextConnection, AllDropped, DriverStop,
           Dies, JoinDriver, Stop, StopReturns, netVars, connVars, drvVars, svcVars, srvVars
  <2> QED
    BY <1>19, <2>1, <2>2, RegisteringIsKept


\* What the two operations on mEventsInfo leave in it.
Kinds == {"read", "write"}
EventsType ==
  /\ DOMAIN events \subseteq Fds
  /\ \A fd \in DOMAIN events : events[fd] \in [Kinds -> Nat \cup {NoId}]

With(ev, f, kind, i) ==
  /\ DOMAIN ev = DOMAIN events \cup {f}
  /\ \A g \in DOMAIN events \ {f} : ev[g] = events[g]
  /\ ev[f] \in [Kinds -> Nat \cup {NoId}] /\ ev[f][kind] = i
  /\ \A kd \in Kinds \ {kind} : ev[f][kd] = IF f \in DOMAIN events THEN events[f][kd] ELSE NoId
Without(ev, f, kind) ==
  /\ DOMAIN ev \subseteq DOMAIN events
  /\ \A g \in DOMAIN events \ {f} : g \in DOMAIN ev /\ ev[g] = events[g]
  /\ f \in DOMAIN ev => /\ ev[f] \in [Kinds -> Nat \cup {NoId}] /\ ev[f][kind] = NoId
                        /\ \A kd \in Kinds \ {kind} : ev[f][kd] = events[f][kd] /\ events[f][kd] # NoId
  /\ f \notin DOMAIN ev => \A kd \in Kinds \ {kind} : events[f][kd] = NoId

LEMMA RegisteredIs ==
  ASSUME EventsType, NEW f \in Fds, NEW kind \in Kinds, NEW i \in Nat \cup {NoId}
  PROVE  With(Registered(f, kind, i), f, kind, i)
<1> DEFINE ev == Registered(f, kind, i)
<1>1. Info(f) \in [Kinds -> Nat \cup {NoId}]
  <2>1. [read |-> NoId, write |-> NoId] \in [Kinds -> Nat \cup {NoId}]
    BY DEF Kinds
  <2> QED
    BY <2>1 DEF EventsType, Info
<1>2. \A kd \in Kinds : Info(f)[kd] = IF f \in DOMAIN events THEN events[f][kd] ELSE NoId
  BY DEF Info, Kinds
<1> DEFINE info == [Info(f) EXCEPT ![kind] = i]
<1>3. info \in [Kinds -> Nat \cup {NoId}] /\ info[kind] = i /\ \A kd \in Kinds \ {kind} : info[kd] = Info(f)[kd]
  BY <1>1
<1>4. ev = [g \in DOMAIN events \cup {f} |-> IF g = f THEN info ELSE events[g]]
  BY DEF Registered, WithInfo
<1> HIDE DEF info, ev
<1>5. With(ev, f, kind, i)
  BY <1>2, <1>3, <1>4 DEF With
<1> QED
  BY <1>5 DEF ev

LEMMA UnregisteredIs ==
  ASSUME EventsType, NEW f \in DOMAIN events, NEW kind \in Kinds
  PROVE  Without(Unregistered(f, kind), f, kind)
<1> DEFINE ev == Unregistered(f, kind)
           rest == Registered(f, kind, NoId)
<1>1. f \in Fds
  BY DEF EventsType
<1>a. rest = Registered(f, kind, NoId) /\ NoId \in Nat \cup {NoId}
  OBVIOUS
<1> HIDE DEF rest
<1>b. DOMAIN events \cup {f} = DOMAIN events
  OBVIOUS
<1>2. /\ DOMAIN rest = DOMAIN events
      /\ \A g \in DOMAIN events \ {f} : rest[g] = events[g]
      /\ rest[f] \in [Kinds -> Nat \cup {NoId}] /\ rest[f][kind] = NoId
      /\ \A kd \in Kinds \ {kind} : rest[f][kd] = events[f][kd]
  <2>1. With(rest, f, kind, NoId)
    BY <1>1, <1>a, RegisteredIs
  <2> QED
    BY <1>b, <2>1 DEF With
<1>3. ev = IF rest[f].read = NoId /\ rest[f].write = NoId THEN [g \in DOMAIN rest \ {f} |-> rest[g]] ELSE rest
  BY <1>a DEF Unregistered, Restrict
<1> HIDE DEF ev
<1>4. ASSUME rest[f].read = NoId /\ rest[f].write = NoId PROVE Without(ev, f, kind)
  <2>1. ev = [g \in DOMAIN events \ {f} |-> rest[g]]
    BY <1>2, <1>3, <1>4
  <2>2. \A kd \in Kinds : rest[f][kd] = NoId
    BY <1>4 DEF Kinds
  <2> QED
    BY <1>2, <2>1, <2>2 DEF Without
<1>5. ASSUME ~(rest[f].read = NoId /\ rest[f].write = NoId) PROVE Without(ev, f, kind)
  <2>1. ev = rest
    BY <1>3, <1>5
  <2>2. \A kd \in Kinds \ {kind} : rest[f][kd] # NoId
    BY <1>2, <1>5 DEF Kinds
  <2> QED
    BY <1>2, <2>1, <2>2 DEF Without
<1>6. Without(ev, f, kind)
  BY <1>4, <1>5
<1> QED
  BY <1>6 DEF ev

LEMMA EventsAreTyped ==
  ASSUME TypeOK
  PROVE  EventsType
BY DEF TypeOK, EventsType, Kinds

\* The first half of Close.
ReadUnregistered(t, i, f) ==
  /\ t \in Threads /\ at[t].pc = "unregRead" /\ at[t].id = i
  /\ i \in DOMAIN conns /\ i \in DOMAIN endOf /\ conns[i].lock = t
  /\ conns[i].fd = f /\ f \in Fds /\ f # NoFd /\ ~conns[i].closed
  /\ f \in DOMAIN events /\ events' = Unregistered(f, "read") /\ active' = active \ {<<f, "read">>}
  /\ DOMAIN conns' = DOMAIN conns
  /\ conns'[i].closed /\ conns'[i].fd = f /\ conns'[i].end = conns[i].end /\ conns'[i].freed = conns[i].freed
  /\ conns'[i].buf = conns[i].buf /\ conns'[i].sendq = conns[i].sendq
  /\ \A j \in DOMAIN conns : j # i => conns'[j] = conns[j]
  /\ at' = [at EXCEPT ![t].pc = "unregWrite"]
  /\ UNCHANGED <<budget, sock, backlog, link, wire, unread, sent, got, mMaxID, endOf, listening>>
  /\ UNCHANGED <<mQueue, mRunning, srvLog, srvDone>>

LEMMA CloseUnregistersReadDoes ==
  ASSUME ControlInv, NEW t \in {Drv, Svc}, CloseUnregistersRead(t)
  PROVE  ReadUnregistered(t, at[t].id, Conn(t).fd)
<1> DEFINE i == at[t].id
           f == Conn(t).fd
<1>1. /\ t \in Threads /\ Locking(t) /\ at[t].pc = "unregRead"
  BY DEF CloseUnregistersRead, At, Locking, LockPcs, Threads
<1>2. /\ i \in DOMAIN conns /\ conns[i].lock = t /\ LockedOK(t, "unregRead", conns[i]) /\ f = conns[i].fd
  BY <1>1 DEF ControlInv, LockOwner, ConnStates, Conn
<1>3. f # NoFd /\ ~conns[i].closed /\ f \in Fds /\ i \in DOMAIN endOf
  BY <1>2, ConnType DEF LockedOK, ControlInv, IdsOfConns
<1> DEFINE c == [Conn(t) EXCEPT !.closed = TRUE]
<1>4. /\ c.closed /\ c.fd = f /\ c.end = conns[i].end /\ c.freed = conns[i].freed
      /\ c.buf = conns[i].buf /\ c.sendq = conns[i].sendq
  BY <1>2, ConnType DEF Conn, ControlInv
<1> HIDE DEF c
<1>5. DOMAIN conns' = DOMAIN conns /\ conns'[i] = c /\ \A j \in DOMAIN conns : j # i => conns'[j] = conns[j]
  BY <1>2 DEF CloseUnregistersRead, SetConn, c
<1>6. /\ f \in DOMAIN events /\ events' = Unregistered(f, "read") /\ active' = active \ {<<f, "read">>}
      /\ at' = [at EXCEPT ![t].pc = "unregWrite"]
      /\ UNCHANGED <<netVars, mMaxID, endOf, listening, svcVars, srvVars>>
  BY DEF CloseUnregistersRead, UnRegistEvent, Conn, Go
<1> QED
  BY <1>1, <1>2, <1>3, <1>4, <1>5, <1>6 DEF ReadUnregistered, netVars, svcVars, srvVars

LEMMA EventsOfLiveConnsKept ==
  ASSUME ControlInv, [Next]_vars
  PROVE  EventsOfLiveConns'
<1>b. sock \in [Fds -> Ends \cup {NoEnd}] /\ NoEnd \notin Ends
  BY TcpSocketAssumption DEF ControlInv, TypeOK, SocketTypeOK
<1> USE <1>b
<1>a. TypeOK /\ ConnStates /\ IdsOfConns /\ Sockets /\ EventsOfLiveConns /\ Events
  BY DEF ControlInv
<1> USE <1>a, NetServiceAssumption
    DEF svcVars, connVars, srvVars, drvVars, Threads
<1>1. CASE KeepsConns /\ UNCHANGED <<sock, endOf, events>>
  BY <1>1
     DEF EventsOfLiveConns, KeepsConns
<1>2. CASE Accept /\ KeepsConns
  <2>1. /\ sock' = [sock EXCEPT ![FreeFd] = Head(backlog)] /\ UNCHANGED <<endOf, events>>
    BY <1>2 DEF Accept
  <2>2. FreeFd \in Fds /\ sock[FreeFd] = NoEnd
    BY <1>2, FreeFdIsFree DEF Accept
  <2> HIDE DEF FreeFd
  <2>3. \A j \in DOMAIN endOf : endOf[j] \in Ends
    BY DEF TypeOK, Range
  <2> QED
    BY <1>2, <2>1, <2>2, <2>3 DEF EventsOfLiveConns, IdsOfConns, KeepsConns
<1>3. ASSUME NEW t \in {Drv, Svc}, CloseUnregistersRead(t) PROVE EventsOfLiveConns'
  <2> DEFINE i == at[t].id
             f == Conn(t).fd
  <2>0. ReadUnregistered(t, i, f)
    BY <1>3, CloseUnregistersReadDoes
  <2> HIDE DEF i, f
  <2>1. /\ f \in DOMAIN events /\ events' = Unregistered(f, "read") /\ UNCHANGED <<sock, endOf>>
        /\ DOMAIN conns' = DOMAIN conns
        /\ \A j \in DOMAIN conns : conns'[j].fd = conns[j].fd /\ conns'[j].freed = conns[j].freed
    BY <2>0 DEF ReadUnregistered
  <2>2. /\ DOMAIN events' \subseteq DOMAIN events
        /\ \A g \in DOMAIN events', kd \in Kinds : events'[g][kd] # NoId => events'[g][kd] = events[g][kd]
    <3>1. Without(events', f, "read")
      BY <2>1, UnregisteredIs, EventsAreTyped DEF Kinds
    <3> QED
      BY <2>1, <3>1 DEF Without, Kinds
  <2> QED
    BY <2>1, <2>2 DEF EventsOfLiveConns, Kinds
<1>4. ASSUME NEW t \in {Drv, Svc}, CloseSocket(t) PROVE EventsOfLiveConns'
  <2> DEFINE i == at[t].id
             f == Conn(t).fd
             e == endOf[i]
  <2>0. SocketClosed(t, i, f, e)
    BY <1>4, CloseSocketDoes
  <2> HIDE DEF i, f, e
  <2>1. /\ f \in DOMAIN events /\ events' = Unregistered(f, "write") /\ sock' = [sock EXCEPT ![f] = NoEnd]
        /\ i \in DOMAIN conns /\ conns[i].fd = f /\ f # NoFd /\ i \in DOMAIN endOf /\ sock[f] = endOf[i]
        /\ UNCHANGED endOf /\ DOMAIN conns' = DOMAIN conns /\ conns[i].closed
        /\ \A j \in DOMAIN conns : j # i => conns'[j] = conns[j]
    BY <2>0, TcpSocketAssumption DEF SocketClosed, NoFd
  <2>2. events[f].read = NoId
    <3>1. ASSUME events[f].read # NoId PROVE FALSE
      <4> DEFINE j == events[f].read
      <4>1. j \in DOMAIN conns /\ sock[f] = endOf[j] /\ ~conns[j].closed
        BY <2>1, <3>1 DEF EventsOfLiveConns, Events, ReadEventsAreOpen
      <4>2. j = i
        BY <2>1, <4>1 DEF IdsOfConns
      <4> QED
        BY <2>1, <4>1, <4>2
    <3> QED
      BY <3>1
  <2>3. /\ DOMAIN events' \subseteq DOMAIN events \ {f}
        /\ \A g \in DOMAIN events' : events'[g] = events[g]
    <3>1. Without(events', f, "write")
      BY <2>1, UnregisteredIs, EventsAreTyped DEF Kinds
    <3> QED
      BY <2>1, <2>2, <3>1 DEF Without, Kinds
  <2>4. \A g \in DOMAIN events', kd \in Kinds : events[g][kd] # NoId => events[g][kd] # i
    BY <2>1, <2>3 DEF EventsOfLiveConns, Kinds
  <2>5. \A g \in DOMAIN events' : g \in DOMAIN events /\ g # f /\ g \in Fds /\ sock'[g] = sock[g]
    BY <2>1, <2>3 DEF TypeOK
  <2> QED
    BY <2>1, <2>3, <2>4, <2>5 DEF EventsOfLiveConns, Kinds
<1>5. ASSUME NEW t \in {Svc, App}, InsertConnection(t), fault' = "none" PROVE EventsOfLiveConns'
  <2> DEFINE i == at[t].id
             f == at[t].fd
             e == sock[f]
  <2>1. Inserted(t, i, f, e)
    BY <1>5, InsertDoes
  <2> HIDE DEF i, f, e
  <2> QED
    BY <2>1 DEF Inserted, EventsOfLiveConns, IdsOfConns
<1>6. ASSUME NEW t \in {Svc, App}, RegistReadEvent(t), fault' = "none", KeepsConns PROVE EventsOfLiveConns'
  <2> DEFINE i == at[t].id
             f == at[t].fd
  <2>0. PICK kind \in {"read", "write"} : EventRegistered(t, kind, i, f)
    BY <1>6, EventIsRegistered
  <2> HIDE DEF i, f
  <2>1. /\ f \in Fds /\ i \in DOMAIN conns /\ conns[i].fd = f /\ f # NoFd /\ events' = Registered(f, kind, i) /\ i \in Nat
        /\ UNCHANGED <<sock, endOf, conns>> /\ kind \in Kinds
    BY <2>0 DEF EventRegistered, Kinds
  <2>2. sock[f] = endOf[i] /\ ~conns[i].freed
    BY <2>1 DEF Sockets, SocketOfConn, ConnStates, ConnOK, IsShut
  <2>3. \A g \in DOMAIN events', kd \in Kinds :
          \/ g = f /\ events'[g][kd] = i
          \/ g \in DOMAIN events /\ events'[g][kd] = events[g][kd]
          \/ events'[g][kd] = NoId
    <3>1. /\ DOMAIN events' = DOMAIN events \cup {f}
          /\ \A g \in DOMAIN events \ {f} : events'[g] = events[g]
          /\ events'[f][kind] = i
          /\ \A kd \in Kinds \ {kind} : events'[f][kd] = IF f \in DOMAIN events THEN events[f][kd] ELSE NoId
      <4>1. With(events', f, kind, i)
        BY <2>1, RegisteredIs, EventsAreTyped
      <4> QED
        BY <4>1 DEF With
    <3>2. ASSUME NEW kd \in Kinds, kd # kind
          PROVE  events'[f][kd] = NoId \/ (f \in DOMAIN events /\ events'[f][kd] = events[f][kd])
      BY ONLY <3>1, <3>2, Zenon
    <3>3. ASSUME NEW g \in DOMAIN events', g # f
          PROVE  g \in DOMAIN events /\ events'[g] = events[g]
      BY ONLY <3>1, <3>3, Zenon
    <3> QED
      BY ONLY <3>1, <3>2, <3>3, Zenon
  <2> QED
    BY <2>1, <2>2, <2>3 DEF EventsOfLiveConns, Kinds
<1>7. ASSUME NEW t \in {Svc, App}, RegistWriteEvent(t), fault' = "none", KeepsConns PROVE EventsOfLiveConns'
  <2> DEFINE i == at[t].id
             f == at[t].fd
  <2>0. PICK kind \in {"read", "write"} : EventRegistered(t, kind, i, f)
    BY <1>7, EventIsRegistered
  <2> HIDE DEF i, f
  <2>1. /\ f \in Fds /\ i \in DOMAIN conns /\ conns[i].fd = f /\ f # NoFd /\ events' = Registered(f, kind, i) /\ i \in Nat
        /\ UNCHANGED <<sock, endOf, conns>> /\ kind \in Kinds
    BY <2>0 DEF EventRegistered, Kinds
  <2>2. sock[f] = endOf[i] /\ ~conns[i].freed
    BY <2>1 DEF Sockets, SocketOfConn, ConnStates, ConnOK, IsShut
  <2>3. \A g \in DOMAIN events', kd \in Kinds :
          \/ g = f /\ events'[g][kd] = i
          \/ g \in DOMAIN events /\ events'[g][kd] = events[g][kd]
          \/ events'[g][kd] = NoId
    <3>1. /\ DOMAIN events' = DOMAIN events \cup {f}
          /\ \A g \in DOMAIN events \ {f} : events'[g] = events[g]
          /\ events'[f][kind] = i
          /\ \A kd \in Kinds \ {kind} : events'[f][kd] = IF f \in DOMAIN events THEN events[f][kd] ELSE NoId
      <4>1. With(events', f, kind, i)
        BY <2>1, RegisteredIs, EventsAreTyped
      <4> QED
        BY <4>1 DEF With
    <3>2. ASSUME NEW kd \in Kinds, kd # kind
          PROVE  events'[f][kd] = NoId \/ (f \in DOMAIN events /\ events'[f][kd] = events[f][kd])
      BY ONLY <3>1, <3>2, Zenon
    <3>3. ASSUME NEW g \in DOMAIN events', g # f
          PROVE  g \in DOMAIN events /\ events'[g] = events[g]
      BY ONLY <3>1, <3>3, Zenon
    <3> QED
      BY ONLY <3>1, <3>2, <3>3, Zenon
  <2> QED
    BY <2>1, <2>2, <2>3 DEF EventsOfLiveConns, Kinds
<1>8. CASE FreeSocket
  <2> DEFINE i == at[Svc].id
  <2>0. Freed(i)
    BY <1>8, FreeSocketDoes
  <2> HIDE DEF i
  <2>1. /\ i \in DOMAIN conns /\ conns[i].fd = NoFd /\ UNCHANGED <<sock, endOf, events>> /\ DOMAIN conns' = DOMAIN conns
        /\ \A j \in DOMAIN conns : j # i => conns'[j] = conns[j]
    BY <2>0 DEF Freed, IsShut
  <2>2. \A g \in DOMAIN events : g # NoFd
    BY TcpSocketAssumption DEF TypeOK, NoFd
  <2> QED
    BY <2>1, <2>2 DEF EventsOfLiveConns
<1>9. CASE DeleteConnection
  <2> DEFINE i == at[Svc].id
  <2>0. Deleted(i)
    BY <1>9, DeleteDoes
  <2> HIDE DEF i
  <2>1. /\ i \in DOMAIN conns /\ conns[i].fd = NoFd /\ UNCHANGED <<sock, endOf, events>> /\ DOMAIN conns' = DOMAIN conns \ {i}
        /\ \A j \in DOMAIN conns' : conns'[j] = conns[j]
    BY <2>0 DEF Deleted, IsShut
  <2>2. \A g \in DOMAIN events : g # NoFd
    BY TcpSocketAssumption DEF TypeOK, NoFd
  <2> QED
    BY <2>1, <2>2 DEF EventsOfLiveConns
<1>10. ASSUME NEW r \in Remotes, StartConnectRemote(r), KeepsConns PROVE EventsOfLiveConns'
  <2>1. /\ sock' = [sock EXCEPT ![FreeFd] = r] /\ UNCHANGED <<endOf, events, conns>>
    BY <1>10 DEF StartConnectRemote
  <2>2. FreeFd \in Fds /\ sock[FreeFd] = NoEnd
    BY <1>10, FreeFdIsFree DEF StartConnectRemote
  <2> HIDE DEF FreeFd
  <2>3. \A j \in DOMAIN endOf : endOf[j] \in Ends
    BY DEF TypeOK, Range
  <2> QED
    BY <2>1, <2>2, <2>3 DEF EventsOfLiveConns, IdsOfConns
<1>11. ASSUME NEW e \in Ends, EndStep(e), KeepsConns PROVE EventsOfLiveConns'
  <2>1. EndSteps(e) => UNCHANGED <<sock, budget>>
    BY DEF EndSteps, PeerConnects, EndSends, EndReads, EndCloses, EndResets
  <2> QED
    BY <1>11, <2>1, <1>1 DEF EndStep
<1>12. CASE UNCHANGED AllButFault
  BY <1>1, <1>12 DEF AllButFault, KeepsConns, netVars, connVars, drvVars, svcVars, srvVars
<1> QED
  <2>1. CASE ChangesConns /\ ~UNCHANGED AllButFault
    BY <2>1, Steps, <1>3, <1>4, <1>5, <1>8, <1>9
       DEF ChangesConns, RegisterMoves
  <2>2. CASE KeepsConns /\ ~UNCHANGED AllButFault
    BY <2>2, Steps, <1>1, <1>2, <1>3, <1>4, <1>5, <1>6, <1>7, <1>8, <1>9, <1>10, <1>11
       DEF DriverMoves, ConnectionMoves, RegisterMoves, ServiceMoves, AppMoves, FindReady,
           CallHandler, ReadData, PreRecv, RecvData, RecvGetsNothing, EnqueueDrop, WriteData,
           SendData, Unlock, AcceptConnection, ProcessRecv, SendMsg, EnqueueMsg,
           DropConnection, StopListener, DropNextConnection, AllDropped, DriverStop, Dies,
           JoinDriver, Stop, StopReturns, ServerHandles, netVars, connVars, drvVars, svcVars,
           srvVars
  <2> QED
    BY <1>12, <2>1, <2>2, ConnsAreKept


LEMMA EventsInUseKept ==
  ASSUME ControlInv, [Next]_vars
  PROVE  EventsInUse'
<1>a. TypeOK /\ Events
  BY DEF ControlInv
<1> USE <1>a, NetServiceAssumption
    DEF svcVars, connVars, srvVars, drvVars, Events, Threads
<1>1. CASE UNCHANGED events
  BY <1>1
     DEF EventsInUse
<1>2. ASSUME NEW t \in {Drv, Svc}, CloseUnregistersRead(t) PROVE EventsInUse'
  <2> DEFINE i == at[t].id
             f == Conn(t).fd
  <2>0. ReadUnregistered(t, i, f)
    BY <1>2, CloseUnregistersReadDoes
  <2> HIDE DEF i, f
  <2>a. Without(events', f, "read") /\ f \in DOMAIN events
    <3>1. f \in DOMAIN events /\ events' = Unregistered(f, "read")
      BY <2>0 DEF ReadUnregistered
    <3> QED
      BY <3>1, UnregisteredIs, EventsAreTyped DEF Kinds
  <2> QED
    BY <2>a DEF Without, EventsInUse, Kinds
<1>3. ASSUME NEW t \in {Drv, Svc}, CloseSocket(t) PROVE EventsInUse'
  <2> DEFINE i == at[t].id
             f == Conn(t).fd
             e == endOf[i]
  <2>0. SocketClosed(t, i, f, e)
    BY <1>3, CloseSocketDoes
  <2> HIDE DEF i, f, e
  <2>a. Without(events', f, "write") /\ f \in DOMAIN events
    <3>1. f \in DOMAIN events /\ events' = Unregistered(f, "write")
      BY <2>0 DEF SocketClosed
    <3> QED
      BY <3>1, UnregisteredIs, EventsAreTyped DEF Kinds
  <2> QED
    BY <2>a DEF Without, EventsInUse, Kinds
<1>4. ASSUME NEW t \in {Svc, App}, RegistReadEvent(t), fault' = "none" PROVE EventsInUse'
  <2> DEFINE i == at[t].id
             f == at[t].fd
  <2>0. PICK kind \in {"read", "write"} : EventRegistered(t, kind, i, f)
    BY <1>4, EventIsRegistered
  <2> HIDE DEF i, f
  <2>a. With(events', f, kind, i) /\ kind \in Kinds /\ i \in Nat
    <3>1. f \in Fds /\ i \in Nat /\ events' = Registered(f, kind, i) /\ kind \in Kinds
      BY <2>0 DEF EventRegistered, Kinds
    <3> QED
      BY <3>1, RegisteredIs, EventsAreTyped
  <2> QED
    BY <2>a DEF With, EventsInUse, Kinds
<1>5. ASSUME NEW t \in {Svc, App}, RegistWriteEvent(t), fault' = "none" PROVE EventsInUse'
  <2> DEFINE i == at[t].id
             f == at[t].fd
  <2>0. PICK kind \in {"read", "write"} : EventRegistered(t, kind, i, f)
    BY <1>5, EventIsRegistered
  <2> HIDE DEF i, f
  <2>a. With(events', f, kind, i) /\ kind \in Kinds /\ i \in Nat
    <3>1. f \in Fds /\ i \in Nat /\ events' = Registered(f, kind, i) /\ kind \in Kinds
      BY <2>0 DEF EventRegistered, Kinds
    <3> QED
      BY <3>1, RegisteredIs, EventsAreTyped
  <2> QED
    BY <2>a DEF With, EventsInUse, Kinds
<1>6. CASE UNCHANGED AllButFault
  BY <1>1, <1>6 DEF AllButFault, netVars, connVars, drvVars, svcVars, srvVars
<1> QED
  BY Steps, <1>1, <1>2, <1>3, <1>4, <1>5, <1>6
     DEF DriverMoves, ConnectionMoves, RegisterMoves, ServiceMoves, AppMoves, Accept,
         FindReady, CallHandler, ReadData, PreRecv, RecvData, RecvGetsNothing, EnqueueDrop,
         WriteData, SendData, Unlock, InsertConnection, Dies, AcceptConnection, ProcessRecv,
         SendMsg, EnqueueMsg, DropConnection, FreeSocket, DeleteConnection, StopListener,
         DropNextConnection, AllDropped, DriverStop, JoinDriver, StartConnectRemote, Stop,
         StopReturns, ServerHandles, EndStep, netVars, connVars, drvVars, svcVars, srvVars

LEMMA ActiveKept ==
  ASSUME ControlInv, [Next]_vars
  PROVE  ActiveAreRegistered'
<1>a. TypeOK /\ Events
  BY DEF ControlInv
<1> USE <1>a, NetServiceAssumption
    DEF svcVars, connVars, srvVars, drvVars, Events, Threads
<1>1. CASE UNCHANGED <<events, active>>
  BY <1>1
     DEF ActiveAreRegistered
<1>2. CASE FindReady
  BY <1>2
     DEF ActiveAreRegistered, FindReady
<1>3. CASE CallHandler
  BY <1>3
     DEF ActiveAreRegistered, CallHandler
<1>4. ASSUME NEW t \in {Drv, Svc}, CloseUnregistersRead(t) PROVE ActiveAreRegistered'
  <2> DEFINE i == at[t].id
             f == Conn(t).fd
  <2>0. ReadUnregistered(t, i, f)
    BY <1>4, CloseUnregistersReadDoes
  <2> HIDE DEF i, f
  <2>a. Without(events', f, "read") /\ f \in DOMAIN events
    <3>1. f \in DOMAIN events /\ events' = Unregistered(f, "read")
      BY <2>0 DEF ReadUnregistered
    <3> QED
      BY <3>1, UnregisteredIs, EventsAreTyped DEF Kinds
  <2>1. active' = active \ {<<f, "read">>}
    BY <2>0 DEF ReadUnregistered
  <2> QED
    BY <2>a, <2>1 DEF Without, ActiveAreRegistered, Kinds
<1>5. ASSUME NEW t \in {Drv, Svc}, CloseSocket(t) PROVE ActiveAreRegistered'
  <2> DEFINE i == at[t].id
             f == Conn(t).fd
             e == endOf[i]
  <2>0. SocketClosed(t, i, f, e)
    BY <1>5, CloseSocketDoes
  <2> HIDE DEF i, f, e
  <2>a. Without(events', f, "write") /\ f \in DOMAIN events
    <3>1. f \in DOMAIN events /\ events' = Unregistered(f, "write")
      BY <2>0 DEF SocketClosed
    <3> QED
      BY <3>1, UnregisteredIs, EventsAreTyped DEF Kinds
  <2>1. active' = active \ {<<f, "write">>}
    BY <2>0 DEF SocketClosed
  <2> QED
    BY <2>a, <2>1 DEF Without, ActiveAreRegistered, Kinds
<1>6. ASSUME NEW t \in {Svc, App}, RegistReadEvent(t), fault' = "none" PROVE ActiveAreRegistered'
  <2> DEFINE i == at[t].id
             f == at[t].fd
  <2>0. PICK kind \in {"read", "write"} : EventRegistered(t, kind, i, f)
    BY <1>6, EventIsRegistered
  <2> HIDE DEF i, f
  <2>a. With(events', f, kind, i) /\ kind \in Kinds /\ i \in Nat
    <3>1. f \in Fds /\ i \in Nat /\ events' = Registered(f, kind, i) /\ kind \in Kinds
      BY <2>0 DEF EventRegistered, Kinds
    <3> QED
      BY <3>1, RegisteredIs, EventsAreTyped
  <2>1. active' = active /\ (f \in DOMAIN events => events[f][kind] = NoId)
    BY <2>0 DEF EventRegistered, Info
  <2> QED
    BY <2>a, <2>1 DEF With, ActiveAreRegistered, Kinds
<1>7. ASSUME NEW t \in {Svc, App}, RegistWriteEvent(t), fault' = "none" PROVE ActiveAreRegistered'
  <2> DEFINE i == at[t].id
             f == at[t].fd
  <2>0. PICK kind \in {"read", "write"} : EventRegistered(t, kind, i, f)
    BY <1>7, EventIsRegistered
  <2> HIDE DEF i, f
  <2>a. With(events', f, kind, i) /\ kind \in Kinds /\ i \in Nat
    <3>1. f \in Fds /\ i \in Nat /\ events' = Registered(f, kind, i) /\ kind \in Kinds
      BY <2>0 DEF EventRegistered, Kinds
    <3> QED
      BY <3>1, RegisteredIs, EventsAreTyped
  <2>1. active' = active /\ (f \in DOMAIN events => events[f][kind] = NoId)
    BY <2>0 DEF EventRegistered, Info
  <2> QED
    BY <2>a, <2>1 DEF With, ActiveAreRegistered, Kinds
<1>8. CASE UNCHANGED AllButFault
  BY <1>1, <1>8 DEF AllButFault, netVars, connVars, drvVars, svcVars, srvVars
<1> QED
  BY Steps, <1>1, <1>2, <1>3, <1>4, <1>5, <1>6, <1>7, <1>8
     DEF DriverMoves, ConnectionMoves, RegisterMoves, ServiceMoves, AppMoves, Accept, ReadData,
         PreRecv, RecvData, RecvGetsNothing, EnqueueDrop, WriteData, SendData, Unlock,
         InsertConnection, Dies, AcceptConnection, ProcessRecv, SendMsg, EnqueueMsg,
         DropConnection, FreeSocket, DeleteConnection, StopListener, DropNextConnection,
         AllDropped, DriverStop, JoinDriver, StartConnectRemote, Stop, StopReturns, ServerHandles,
         EndStep, netVars, connVars, drvVars, svcVars, srvVars

LEMMA ReadEventsKept ==
  ASSUME ControlInv, [Next]_vars
  PROVE  ReadEventsAreOpen'
<1>a. TypeOK /\ LockOwner /\ ConnStates /\ IdsOfConns /\ EventsOfLiveConns /\ Events /\ BeingRegistered
  BY DEF ControlInv
<1> USE <1>a, NetServiceAssumption
    DEF svcVars, connVars, srvVars, drvVars, Events, Threads
<1>1. CASE KeepsConns /\ UNCHANGED events
  BY <1>1
     DEF ReadEventsAreOpen, KeepsConns, EventsOfLiveConns
<1>2. ASSUME NEW t \in {Drv, Svc}, CloseUnregistersRead(t) PROVE ReadEventsAreOpen'
  <2> DEFINE i == at[t].id
             f == Conn(t).fd
  <2>0. ReadUnregistered(t, i, f)
    BY <1>2, CloseUnregistersReadDoes
  <2> HIDE DEF i, f
  <2>a. Without(events', f, "read") /\ f \in DOMAIN events
    <3>1. f \in DOMAIN events /\ events' = Unregistered(f, "read")
      BY <2>0 DEF ReadUnregistered
    <3> QED
      BY <3>1, UnregisteredIs, EventsAreTyped DEF Kinds
  <2>1. /\ \A j \in DOMAIN conns : j # i => conns'[j] = conns[j]
        /\ conns[i].fd = f
    BY <2>0 DEF ReadUnregistered
  <2>2. \A g \in DOMAIN events : events[g].read = i => g = f
    BY <2>1, <2>0, NetServiceAssumption DEF EventsOfLiveConns, ReadUnregistered, TypeOK
  <2>3. \A g \in DOMAIN events' : events'[g].read # NoId => g # f /\ g \in DOMAIN events /\ events'[g].read = events[g].read
    BY <2>a DEF Without, Kinds
  <2> QED
    BY <2>1, <2>2, <2>3 DEF ReadEventsAreOpen, EventsOfLiveConns
<1>3. ASSUME NEW t \in {Drv, Svc}, CloseSocket(t) PROVE ReadEventsAreOpen'
  <2> DEFINE i == at[t].id
             f == Conn(t).fd
             e == endOf[i]
  <2>0. SocketClosed(t, i, f, e)
    BY <1>3, CloseSocketDoes
  <2> HIDE DEF i, f, e
  <2>a. Without(events', f, "write") /\ f \in DOMAIN events
    <3>1. f \in DOMAIN events /\ events' = Unregistered(f, "write")
      BY <2>0 DEF SocketClosed
    <3> QED
      BY <3>1, UnregisteredIs, EventsAreTyped DEF Kinds
  <2>1. /\ \A j \in DOMAIN conns : j # i => conns'[j] = conns[j]
        /\ conns[i].closed /\ i \in DOMAIN conns
    BY <2>0 DEF SocketClosed
  <2>3. \A g \in DOMAIN events' : g \in DOMAIN events /\ events'[g].read = events[g].read
    BY <2>a DEF Without, Kinds
  <2> QED
    BY <2>1, <2>3 DEF ReadEventsAreOpen, EventsOfLiveConns
<1>4. ASSUME NEW t \in {Svc, App}, InsertConnection(t), fault' = "none" PROVE ReadEventsAreOpen'
  <2> DEFINE i == at[t].id
             f == at[t].fd
             e == sock[f]
  <2>0. Inserted(t, i, f, e)
    BY <1>4, InsertDoes
  <2> HIDE DEF i, f, e
  <2>1. UNCHANGED events /\ \A j \in DOMAIN conns : conns'[j] = conns[j]
    BY <2>0 DEF Inserted
  <2> QED
    BY <2>1 DEF ReadEventsAreOpen, EventsOfLiveConns
<1>5. ASSUME NEW t \in {Svc, App}, RegistReadEvent(t), fault' = "none", KeepsConns PROVE ReadEventsAreOpen'
  <2> DEFINE i == at[t].id
             f == at[t].fd
  <2>0. PICK kind \in {"read", "write"} : EventRegistered(t, kind, i, f)
    BY <1>5, EventIsRegistered
  <2> HIDE DEF i, f
  <2>a. With(events', f, kind, i) /\ kind \in Kinds /\ i \in Nat
    <3>1. f \in Fds /\ i \in Nat /\ events' = Registered(f, kind, i) /\ kind \in Kinds
      BY <2>0 DEF EventRegistered, Kinds
    <3> QED
      BY <3>1, RegisteredIs, EventsAreTyped
  <2>1. UNCHANGED conns
    BY <2>0 DEF EventRegistered
  <2>2. kind = "read" => ~conns[i].closed
    <3>1. ASSUME kind = "read", conns[i].closed PROVE FALSE
      <4>1. At(t, "regRead") /\ t \in Threads /\ at[t].id = i /\ i \in DOMAIN conns /\ conns[i].fd # NoFd
        BY <2>0, <3>1 DEF EventRegistered, At
      <4>2. conns[i].lock \in Threads
        BY <3>1, <4>1, ConnType DEF ConnStates, ConnOK, IsOpen, IsShut
      <4>3. \E u \in Threads : Locking(u) /\ at[u].id = i
        BY <4>1, <4>2 DEF LockOwner
      <4> QED
        BY <4>1, <4>3 DEF NobodyElse, BeingRegistered, At, Locking, LockPcs
    <3> QED
      BY <3>1
  <2>3. \A g \in DOMAIN events' :
          \/ events'[g].read = i /\ kind = "read"
          \/ g \in DOMAIN events /\ events'[g].read = events[g].read
          \/ events'[g].read = NoId
    BY <2>a DEF With, Kinds
  <2> QED
    BY <2>1, <2>2, <2>3 DEF ReadEventsAreOpen
<1>6. ASSUME NEW t \in {Svc, App}, RegistWriteEvent(t), fault' = "none", KeepsConns PROVE ReadEventsAreOpen'
  <2> DEFINE i == at[t].id
             f == at[t].fd
  <2>0. PICK kind \in {"read", "write"} : EventRegistered(t, kind, i, f)
    BY <1>6, EventIsRegistered
  <2> HIDE DEF i, f
  <2>a. With(events', f, kind, i) /\ kind \in Kinds /\ i \in Nat
    <3>1. f \in Fds /\ i \in Nat /\ events' = Registered(f, kind, i) /\ kind \in Kinds
      BY <2>0 DEF EventRegistered, Kinds
    <3> QED
      BY <3>1, RegisteredIs, EventsAreTyped
  <2>1. UNCHANGED conns
    BY <2>0 DEF EventRegistered
  <2>2. kind = "read" => ~conns[i].closed
    <3>1. ASSUME kind = "read", conns[i].closed PROVE FALSE
      <4>1. At(t, "regRead") /\ t \in Threads /\ at[t].id = i /\ i \in DOMAIN conns /\ conns[i].fd # NoFd
        BY <2>0, <3>1 DEF EventRegistered, At
      <4>2. conns[i].lock \in Threads
        BY <3>1, <4>1, ConnType DEF ConnStates, ConnOK, IsOpen, IsShut
      <4>3. \E u \in Threads : Locking(u) /\ at[u].id = i
        BY <4>1, <4>2 DEF LockOwner
      <4> QED
        BY <4>1, <4>3 DEF NobodyElse, BeingRegistered, At, Locking, LockPcs
    <3> QED
      BY <3>1
  <2>3. \A g \in DOMAIN events' :
          \/ events'[g].read = i /\ kind = "read"
          \/ g \in DOMAIN events /\ events'[g].read = events[g].read
          \/ events'[g].read = NoId
    BY <2>a DEF With, Kinds
  <2> QED
    BY <2>1, <2>2, <2>3 DEF ReadEventsAreOpen
<1>7. CASE FreeSocket
  <2> DEFINE i == at[Svc].id
  <2>0. Freed(i)
    BY <1>7, FreeSocketDoes
  <2> HIDE DEF i
  <2>1. UNCHANGED events /\ \A j \in DOMAIN conns : conns'[j].closed = conns[j].closed
    BY <2>0 DEF Freed
  <2> QED
    BY <2>1 DEF ReadEventsAreOpen, EventsOfLiveConns
<1>8. CASE DeleteConnection
  <2> DEFINE i == at[Svc].id
  <2>0. Deleted(i)
    BY <1>8, DeleteDoes
  <2> HIDE DEF i
  <2>1. UNCHANGED events /\ (\A j \in DOMAIN conns' : conns'[j] = conns[j]) /\ DOMAIN conns' = DOMAIN conns \ {i}
        /\ i \in DOMAIN conns /\ conns[i].fd = NoFd
    BY <2>0 DEF Deleted, IsShut
  <2>2. \A g \in DOMAIN events : events[g].read # i
    BY <2>1, TcpSocketAssumption DEF EventsOfLiveConns, TypeOK, NoFd, IdsOfConns
  <2> QED
    BY <2>1, <2>2 DEF ReadEventsAreOpen, EventsOfLiveConns
<1>9. CASE UNCHANGED AllButFault
  BY <1>1, <1>9 DEF AllButFault, KeepsConns, netVars, connVars, drvVars, svcVars, srvVars
<1> QED
  <2>1. CASE ChangesConns /\ ~UNCHANGED AllButFault
    BY <2>1, Steps, <1>2, <1>3, <1>4, <1>7, <1>8
       DEF ChangesConns, RegisterMoves
  <2>2. CASE KeepsConns /\ ~UNCHANGED AllButFault
    BY <2>2, Steps, <1>1, <1>2, <1>3, <1>4, <1>5, <1>6, <1>7, <1>8
       DEF DriverMoves, ConnectionMoves, RegisterMoves, ServiceMoves, AppMoves, Accept,
           FindReady, CallHandler, ReadData, PreRecv, RecvData, RecvGetsNothing, EnqueueDrop,
           WriteData, SendData, Unlock, AcceptConnection, ProcessRecv, SendMsg, EnqueueMsg,
           DropConnection, StopListener, DropNextConnection, AllDropped, DriverStop, Dies,
           JoinDriver, StartConnectRemote, Stop, StopReturns, ServerHandles, EndStep, netVars,
           connVars, drvVars, svcVars, srvVars
  <2> QED
    BY <1>9, <2>1, <2>2, ConnsAreKept


LEMMA OneOwner ==
  ASSUME TypeOK, IdsOfConns, Sockets, NEW i \in DOMAIN conns, NEW j \in DOMAIN conns,
         conns[i].fd = conns[j].fd, conns[i].fd # NoFd
  PROVE  i = j
BY DEF IdsOfConns, Sockets, SocketOfConn

LEMMA RegistrationIsKept ==
  ASSUME NEW j, ReadIsRegistered(j), WriteIsRegistered(j),
         conns'[j].fd = conns[j].fd, conns[j].closed => conns'[j].closed,
         \A u \in Threads : Registering(u) /\ at[u].id = j => at'[u] = at[u],
         \A kind \in Kinds : IsRegistered(conns[j].fd, kind, j) => IsRegistered(conns[j].fd, kind, j)'
  PROVE  ReadIsRegistered(j)' /\ WriteIsRegistered(j)'
<1>1. ReadIsRegistered(j)'
  BY DEF ReadIsRegistered, IsRegistered, Registering, At, Kinds
<1>2. WriteIsRegistered(j)'
  BY DEF WriteIsRegistered, IsRegistered, Registering, Kinds
<1> QED
  BY <1>1, <1>2

LEMMA OpenAreRegisteredKept ==
  ASSUME ControlInv, [Next]_vars
  PROVE  OpenAreRegistered'
<1> USE AtType, ConnType
<1>a. TypeOK /\ LockOwner /\ ConnStates /\ IdsOfConns /\ Sockets /\ EventsOfLiveConns /\ Events
  BY DEF ControlInv
<1> USE <1>a, NetServiceAssumption
    DEF svcVars, connVars, srvVars, drvVars, Threads
<1>1. CASE KeepsConns /\ KeepsRegistering /\ UNCHANGED events
  <2>1. /\ DOMAIN conns' = DOMAIN conns /\ UNCHANGED events
        /\ \A j \in DOMAIN conns : conns'[j].fd = conns[j].fd /\ conns'[j].closed = conns[j].closed
        /\ \A u \in Threads : Registering(u) => at'[u] = at[u]
    BY <1>1 DEF KeepsConns, KeepsRegistering, Registering
  <2>2. ASSUME NEW j \in DOMAIN conns', conns'[j].fd # NoFd
        PROVE  ReadIsRegistered(j)' /\ WriteIsRegistered(j)'
    <3>1. j \in DOMAIN conns /\ ReadIsRegistered(j) /\ WriteIsRegistered(j)
      BY <2>1, <2>2 DEF OpenAreRegistered, Events
    <3> QED
      BY <2>1, <2>2, <3>1, RegistrationIsKept DEF IsRegistered
  <2> QED
    BY <2>2 DEF OpenAreRegistered
<1>2. ASSUME NEW t \in {Drv, Svc}, CloseUnregistersRead(t) PROVE OpenAreRegistered'
  <2>0. PICK i, f : ReadUnregistered(t, i, f) /\ i = at[t].id /\ f = Conn(t).fd
    BY <1>2, CloseUnregistersReadDoes
  <2>a. Without(events', f, "read") /\ f \in DOMAIN events
    <3>1. f \in DOMAIN events /\ events' = Unregistered(f, "read")
      BY <2>0 DEF ReadUnregistered
    <3> QED
      BY <3>1, UnregisteredIs, EventsAreTyped DEF Kinds
  <2>b. \A j \in DOMAIN conns : conns[j].fd = f => j = i
    <3>1. i \in DOMAIN conns /\ conns[i].fd = f /\ f # NoFd
      BY <2>0, TcpSocketAssumption DEF ReadUnregistered, NoFd
    <3> QED
      BY <3>1, OneOwner
  <2>1. /\ DOMAIN conns' = DOMAIN conns /\ i \in DOMAIN conns /\ conns[i].fd = f /\ conns'[i].fd = f /\ conns'[i].closed
        /\ \A j \in DOMAIN conns : j # i => conns'[j] = conns[j]
        /\ \A u \in Threads : Registering(u) => at'[u] = at[u]
    BY <2>0 DEF ReadUnregistered, Registering
  <2>2. ASSUME NEW j \in DOMAIN conns, conns[j].fd # NoFd, j # i
        PROVE  ReadIsRegistered(j)' /\ WriteIsRegistered(j)'
    <3>1. ReadIsRegistered(j) /\ WriteIsRegistered(j) /\ conns[j].fd # f
      BY <2>2, <2>b DEF OpenAreRegistered, Events
    <3>2. \A kd \in Kinds : IsRegistered(conns[j].fd, kd, j) => IsRegistered(conns[j].fd, kd, j)'
      BY <3>1, <2>a, <2>1, <2>2 DEF Without, IsRegistered
    <3> QED
      BY <2>1, <2>2, <3>1, <3>2, RegistrationIsKept
  <2>3. ReadIsRegistered(i)'
    BY <2>1 DEF ReadIsRegistered
  <2>4. conns[i].fd # NoFd => WriteIsRegistered(i)'
    <3>1. ASSUME IsRegistered(f, "write", i) PROVE IsRegistered(f, "write", i)'
      <4>1. i # NoId /\ "write" \in Kinds \ {"read"}
        BY <2>1, NetServiceAssumption DEF TypeOK, Kinds
      <4> QED
        BY <2>a, <3>1, <4>1 DEF Without, IsRegistered
    <3>2. conns[i].fd # NoFd => WriteIsRegistered(i)
      BY <2>1 DEF OpenAreRegistered, Events
    <3> QED
      BY <2>1, <3>1, <3>2 DEF WriteIsRegistered, Registering
  <2> QED
    BY <2>1, <2>2, <2>3, <2>4 DEF OpenAreRegistered
<1>3. ASSUME NEW t \in {Drv, Svc}, CloseSocket(t) PROVE OpenAreRegistered'
  <2>0. PICK i, f, e : SocketClosed(t, i, f, e) /\ i = at[t].id /\ f = Conn(t).fd /\ e = endOf[i]
    BY <1>3, CloseSocketDoes
  <2>a. Without(events', f, "write") /\ f \in DOMAIN events
    <3>1. f \in DOMAIN events /\ events' = Unregistered(f, "write")
      BY <2>0 DEF SocketClosed
    <3> QED
      BY <3>1, UnregisteredIs, EventsAreTyped DEF Kinds
  <2>b. \A j \in DOMAIN conns : conns[j].fd = f => j = i
    <3>1. i \in DOMAIN conns /\ conns[i].fd = f /\ f # NoFd
      BY <2>0, TcpSocketAssumption DEF SocketClosed, NoFd
    <3> QED
      BY <3>1, OneOwner
  <2>1. /\ DOMAIN conns' = DOMAIN conns /\ conns'[i].fd = NoFd
        /\ \A j \in DOMAIN conns : j # i => conns'[j] = conns[j]
        /\ \A u \in Threads : Registering(u) => at'[u] = at[u]
    BY <2>0 DEF SocketClosed, Registering
  <2>2. ASSUME NEW j \in DOMAIN conns, conns[j].fd # NoFd, j # i
        PROVE  ReadIsRegistered(j)' /\ WriteIsRegistered(j)'
    <3>1. ReadIsRegistered(j) /\ WriteIsRegistered(j) /\ conns[j].fd # f
      BY <2>2, <2>b DEF OpenAreRegistered, Events
    <3>2. \A kd \in Kinds : IsRegistered(conns[j].fd, kd, j) => IsRegistered(conns[j].fd, kd, j)'
      BY <3>1, <2>a, <2>1, <2>2 DEF Without, IsRegistered
    <3> QED
      BY <2>1, <2>2, <3>1, <3>2, RegistrationIsKept
  <2> QED
    BY <2>1, <2>2 DEF OpenAreRegistered
<1>4. ASSUME NEW t \in {Svc, App}, InsertConnection(t), fault' = "none" PROVE OpenAreRegistered'
  <2>0. PICK i, f, e : Inserted(t, i, f, e) /\ i = at[t].id /\ f = at[t].fd /\ e = sock[f]
    BY <1>4, InsertDoes
  <2>1. /\ DOMAIN conns' = DOMAIN conns \cup {i} /\ UNCHANGED events
        /\ \A j \in DOMAIN conns' : j # i => conns'[j] = conns[j]
        /\ t \in Threads /\ at'[t].pc = "regRead" /\ at'[t].id = i
        /\ \A u \in Threads : Registering(u) => at'[u] = at[u]
    <3>1. at'[t].pc = "regRead" /\ at'[t].id = i
      BY <2>0, AtType DEF Inserted
    <3> QED
      BY <2>0, <3>1 DEF Inserted, Registering
  <2>2. ASSUME NEW j \in DOMAIN conns', conns'[j].fd # NoFd, j # i
        PROVE  ReadIsRegistered(j)' /\ WriteIsRegistered(j)'
    <3>1. j \in DOMAIN conns /\ ReadIsRegistered(j) /\ WriteIsRegistered(j)
      BY <2>1, <2>2 DEF OpenAreRegistered, Events
    <3> QED
      BY <2>1, <2>2, <3>1, RegistrationIsKept DEF IsRegistered
  <2>3. ReadIsRegistered(i)' /\ WriteIsRegistered(i)'
    BY <2>1 DEF ReadIsRegistered, WriteIsRegistered, Registering, At
  <2> QED
    BY <2>2, <2>3 DEF OpenAreRegistered
<1>5. ASSUME NEW t \in {Svc, App}, RegistReadEvent(t), fault' = "none" PROVE OpenAreRegistered'
  <2>0. PICK kind, i, f : kind \in {"read", "write"} /\ EventRegistered(t, kind, i, f) /\ i = at[t].id /\ f = at[t].fd
    BY <1>5, EventIsRegistered
  <2>a. With(events', f, kind, i) /\ kind \in Kinds /\ i \in Nat
    <3>1. f \in Fds /\ i \in Nat /\ events' = Registered(f, kind, i) /\ kind \in Kinds
      BY <2>0 DEF EventRegistered, Kinds
    <3> QED
      BY <3>1, RegisteredIs, EventsAreTyped
  <2>1. /\ UNCHANGED conns /\ conns[i].fd = f /\ t \in Threads /\ at[t].id = i /\ i \in Nat
        /\ at[t].pc = (IF kind = "read" THEN "regRead" ELSE "regWrite")
        /\ \A u \in Threads \ {t} : at'[u] = at[u]
        /\ kind = "read" => at'[t].pc = "regWrite" /\ at'[t].id = i
        /\ (f \in DOMAIN events => events[f][kind] = NoId) /\ kind \in {"read", "write"}
    BY <2>0 DEF EventRegistered, Info
  <2>2. \A g \in DOMAIN events, kd \in Kinds : events[g][kd] # NoId => g \in DOMAIN events' /\ events'[g][kd] = events[g][kd]
    BY <2>a, <2>1 DEF With
  <2>3. \A j \in DOMAIN conns, kd \in Kinds : IsRegistered(conns[j].fd, kd, j) => IsRegistered(conns[j].fd, kd, j)'
    BY <2>1, <2>2, NetServiceAssumption DEF IsRegistered, TypeOK
  <2>4. ASSUME NEW j \in DOMAIN conns, conns[j].fd # NoFd, j # i
        PROVE  ReadIsRegistered(j)' /\ WriteIsRegistered(j)'
    <3>1. ReadIsRegistered(j) /\ WriteIsRegistered(j)
      BY <2>4 DEF OpenAreRegistered, Events
    <3> QED
      BY <2>1, <2>3, <2>4, <3>1, RegistrationIsKept
  <2>5. IsRegistered(f, kind, i)'
    BY <2>a DEF With, IsRegistered
  <2>6. ASSUME i \in DOMAIN conns, conns[i].fd # NoFd PROVE ReadIsRegistered(i)' /\ WriteIsRegistered(i)'
    <3>1. ReadIsRegistered(i)
      BY <2>6 DEF OpenAreRegistered, Events
    <3>2. CASE kind = "read"
      BY <2>1, <2>5, <3>2 DEF ReadIsRegistered, WriteIsRegistered, Registering
    <3>3. CASE kind = "write"
      <4>1. WriteIsRegistered(i)'
        BY <2>1, <2>5, <3>3 DEF WriteIsRegistered
      <4>2. ASSUME NEW u \in Threads, At(u, "regRead"), at[u].id = i PROVE ReadIsRegistered(i)'
        BY <2>1, <3>3, <4>2 DEF ReadIsRegistered, At
      <4>3. IsRegistered(f, "read", i) => IsRegistered(f, "read", i)'
        BY <2>1, <2>3, <2>6 DEF Kinds
      <4> QED
        BY <2>1, <3>1, <4>1, <4>2, <4>3 DEF ReadIsRegistered
    <3> QED
      BY <2>1, <3>2, <3>3
  <2> QED
    BY <2>1, <2>4, <2>6 DEF OpenAreRegistered
<1>6. ASSUME NEW t \in {Svc, App}, RegistWriteEvent(t), fault' = "none" PROVE OpenAreRegistered'
  <2>0. PICK kind, i, f : kind \in {"read", "write"} /\ EventRegistered(t, kind, i, f) /\ i = at[t].id /\ f = at[t].fd
    BY <1>6, EventIsRegistered
  <2>a. With(events', f, kind, i) /\ kind \in Kinds /\ i \in Nat
    <3>1. f \in Fds /\ i \in Nat /\ events' = Registered(f, kind, i) /\ kind \in Kinds
      BY <2>0 DEF EventRegistered, Kinds
    <3> QED
      BY <3>1, RegisteredIs, EventsAreTyped
  <2>1. /\ UNCHANGED conns /\ conns[i].fd = f /\ t \in Threads /\ at[t].id = i /\ i \in Nat
        /\ at[t].pc = (IF kind = "read" THEN "regRead" ELSE "regWrite")
        /\ \A u \in Threads \ {t} : at'[u] = at[u]
        /\ kind = "read" => at'[t].pc = "regWrite" /\ at'[t].id = i
        /\ (f \in DOMAIN events => events[f][kind] = NoId) /\ kind \in {"read", "write"}
    BY <2>0 DEF EventRegistered, Info
  <2>2. \A g \in DOMAIN events, kd \in Kinds : events[g][kd] # NoId => g \in DOMAIN events' /\ events'[g][kd] = events[g][kd]
    BY <2>a, <2>1 DEF With
  <2>3. \A j \in DOMAIN conns, kd \in Kinds : IsRegistered(conns[j].fd, kd, j) => IsRegistered(conns[j].fd, kd, j)'
    BY <2>1, <2>2, NetServiceAssumption DEF IsRegistered, TypeOK
  <2>4. ASSUME NEW j \in DOMAIN conns, conns[j].fd # NoFd, j # i
        PROVE  ReadIsRegistered(j)' /\ WriteIsRegistered(j)'
    <3>1. ReadIsRegistered(j) /\ WriteIsRegistered(j)
      BY <2>4 DEF OpenAreRegistered, Events
    <3> QED
      BY <2>1, <2>3, <2>4, <3>1, RegistrationIsKept
  <2>5. IsRegistered(f, kind, i)'
    BY <2>a DEF With, IsRegistered
  <2>6. ASSUME i \in DOMAIN conns, conns[i].fd # NoFd PROVE ReadIsRegistered(i)' /\ WriteIsRegistered(i)'
    <3>1. ReadIsRegistered(i)
      BY <2>6 DEF OpenAreRegistered, Events
    <3>2. CASE kind = "read"
      BY <2>1, <2>5, <3>2 DEF ReadIsRegistered, WriteIsRegistered, Registering
    <3>3. CASE kind = "write"
      <4>1. WriteIsRegistered(i)'
        BY <2>1, <2>5, <3>3 DEF WriteIsRegistered
      <4>2. ASSUME NEW u \in Threads, At(u, "regRead"), at[u].id = i PROVE ReadIsRegistered(i)'
        BY <2>1, <3>3, <4>2 DEF ReadIsRegistered, At
      <4>3. IsRegistered(f, "read", i) => IsRegistered(f, "read", i)'
        BY <2>1, <2>3, <2>6 DEF Kinds
      <4> QED
        BY <2>1, <3>1, <4>1, <4>2, <4>3 DEF ReadIsRegistered
    <3> QED
      BY <2>1, <3>2, <3>3
  <2> QED
    BY <2>1, <2>4, <2>6 DEF OpenAreRegistered
<1>7. CASE AcceptConnection
  <2>1. /\ UNCHANGED <<conns, events>>
        /\ \A u \in Threads : Registering(u) => at'[u] = at[u]
    BY <1>7 DEF AcceptConnection, Registering, Taking, GoFor, At
  <2>2. ASSUME NEW j \in DOMAIN conns', conns'[j].fd # NoFd
        PROVE  ReadIsRegistered(j)' /\ WriteIsRegistered(j)'
    <3>1. j \in DOMAIN conns /\ ReadIsRegistered(j) /\ WriteIsRegistered(j)
      BY <2>1, <2>2 DEF OpenAreRegistered, Events
    <3> QED
      BY <2>1, <2>2, <3>1, RegistrationIsKept DEF IsRegistered
  <2> QED
    BY <2>2 DEF OpenAreRegistered
<1>8. CASE FreeSocket
  <2>0. PICK i : Freed(i) /\ i = at[Svc].id
    BY <1>8, FreeSocketDoes
  <2>1. /\ DOMAIN conns' = DOMAIN conns /\ UNCHANGED events
        /\ \A j \in DOMAIN conns : conns'[j].fd = conns[j].fd /\ conns'[j].closed = conns[j].closed
        /\ \A u \in Threads : Registering(u) => at'[u] = at[u]
    BY <2>0 DEF Freed, Registering
  <2>2. ASSUME NEW j \in DOMAIN conns', conns'[j].fd # NoFd
        PROVE  ReadIsRegistered(j)' /\ WriteIsRegistered(j)'
    <3>1. j \in DOMAIN conns /\ ReadIsRegistered(j) /\ WriteIsRegistered(j)
      BY <2>1, <2>2 DEF OpenAreRegistered, Events
    <3> QED
      BY <2>1, <2>2, <3>1, RegistrationIsKept DEF IsRegistered
  <2> QED
    BY <2>2 DEF OpenAreRegistered
<1>9. CASE DeleteConnection
  <2>0. PICK i : Deleted(i) /\ i = at[Svc].id
    BY <1>9, DeleteDoes
  <2>1. /\ DOMAIN conns' \subseteq DOMAIN conns /\ UNCHANGED events
        /\ \A j \in DOMAIN conns' : conns'[j] = conns[j]
        /\ \A u \in Threads : Registering(u) => at'[u] = at[u]
    BY <2>0 DEF Deleted, Registering
  <2>2. ASSUME NEW j \in DOMAIN conns', conns'[j].fd # NoFd
        PROVE  ReadIsRegistered(j)' /\ WriteIsRegistered(j)'
    <3>1. j \in DOMAIN conns /\ ReadIsRegistered(j) /\ WriteIsRegistered(j)
      BY <2>1, <2>2 DEF OpenAreRegistered, Events
    <3> QED
      BY <2>1, <2>2, <3>1, RegistrationIsKept DEF IsRegistered
  <2> QED
    BY <2>2 DEF OpenAreRegistered
<1>10. ASSUME NEW r \in Remotes, StartConnectRemote(r) PROVE OpenAreRegistered'
  <2>1. /\ UNCHANGED <<conns, events>>
        /\ \A u \in Threads : Registering(u) => at'[u] = at[u]
    BY <1>10 DEF StartConnectRemote, Registering, Taking, GoFor, At
  <2>2. ASSUME NEW j \in DOMAIN conns', conns'[j].fd # NoFd
        PROVE  ReadIsRegistered(j)' /\ WriteIsRegistered(j)'
    <3>1. j \in DOMAIN conns /\ ReadIsRegistered(j) /\ WriteIsRegistered(j)
      BY <2>1, <2>2 DEF OpenAreRegistered, Events
    <3> QED
      BY <2>1, <2>2, <3>1, RegistrationIsKept DEF IsRegistered
  <2> QED
    BY <2>2 DEF OpenAreRegistered
<1>11. CASE UNCHANGED AllButFault
  BY <1>1, <1>11 DEF AllButFault, KeepsConns, KeepsRegistering, netVars, connVars, drvVars, svcVars, srvVars
<1> QED
  <2>1. CASE ChangesConns /\ ~UNCHANGED AllButFault
    BY <2>1, Steps, <1>2, <1>3, <1>4, <1>8, <1>9
       DEF ChangesConns, RegisterMoves
  <2>2. CASE ChangesRegistering /\ ~UNCHANGED AllButFault
    BY <2>2, Steps, <1>4, <1>5, <1>6, <1>7, <1>10
       DEF ChangesRegistering, RegisterMoves
  <2>3. CASE KeepsConns /\ KeepsRegistering /\ ~UNCHANGED AllButFault
    BY <2>3, Steps, <1>1, <1>2, <1>3, <1>4, <1>5, <1>6, <1>7, <1>8, <1>9, <1>10
       DEF DriverMoves, ConnectionMoves, RegisterMoves, ServiceMoves, AppMoves, Accept,
           FindReady, CallHandler, ReadData, PreRecv, RecvData, RecvGetsNothing, EnqueueDrop,
           WriteData, SendData, Unlock, ProcessRecv, SendMsg, EnqueueMsg, DropConnection,
           StopListener, DropNextConnection, AllDropped, DriverStop, Dies, JoinDriver, Stop,
           StopReturns, ServerHandles, EndStep, netVars, connVars, drvVars, svcVars, srvVars
  <2> QED
    BY <1>11, <2>1, <2>2, <2>3, ConnsAreKept, RegisteringIsKept


\* Close has come to the write event: nobody registers the connection any more.
LEMMA NobodyRegistersClosed ==
  ASSUME TypeOK, IdsOfConns, Sockets, EventsOfLiveConns, Events, BeingRegistered,
         NEW t, NEW i, NEW f, NEW e, SocketClosed(t, i, f, e), NEW u \in Threads, Registering(u)
  PROVE  at[u].id # i
<1>1. f \in DOMAIN events /\ i \in DOMAIN conns /\ conns[i].fd = f /\ conns[i].closed /\ f # NoFd
  BY TcpSocketAssumption DEF SocketClosed, NoFd
<1>2. PICK kind \in {"read", "write"} : events[f][kind] # NoId
  BY <1>1 DEF Events, EventsInUse
<1>3. events[f][kind] \in DOMAIN conns /\ conns[events[f][kind]].fd = f
  BY <1>1, <1>2 DEF EventsOfLiveConns
<1>4. events[f][kind] = i
  BY <1>1, <1>3, OneOwner
<1>5. kind = "write"
  BY <1>1, <1>2, <1>4 DEF Events, ReadEventsAreOpen
<1> QED
  BY <1>1, <1>4, <1>5 DEF BeingRegistered, WriteIsNew

LEMMA RegisteringIsOpenKept ==
  ASSUME ControlInv, [Next]_vars
  PROVE  RegisteringIsOpen'
<1>a. TypeOK /\ IdsOfConns /\ Sockets /\ EventsOfLiveConns /\ Events /\ BeingRegistered
  BY DEF ControlInv
<1> USE <1>a, NetServiceAssumption
    DEF svcVars, connVars, srvVars, drvVars, Threads
<1>1. CASE KeepsConns /\ KeepsRegistering
  BY <1>1, AtType
     DEF RegisteringIsOpen, KeepsConns, BeingRegistered, Conn, Registering, KeepsRegistering
<1>2. ASSUME NEW t \in {Drv, Svc}, CloseUnregistersRead(t) PROVE RegisteringIsOpen'
  <2>0. PICK i, f : ReadUnregistered(t, i, f) /\ i = at[t].id /\ f = Conn(t).fd
    BY <1>2, CloseUnregistersReadDoes
  <2>r. \A u \in Threads : Registering(u)' => Registering(u) /\ at'[u] = at[u]
    BY <2>0, AtType DEF ReadUnregistered, Registering
  <2>1. DOMAIN conns' = DOMAIN conns /\ \A j \in DOMAIN conns : conns'[j].fd = conns[j].fd
    BY <2>0 DEF ReadUnregistered
  <2> QED
    BY <2>r, <2>1 DEF RegisteringIsOpen, BeingRegistered, Conn
<1>3. ASSUME NEW t \in {Drv, Svc}, CloseSocket(t) PROVE RegisteringIsOpen'
  <2>0. PICK i, f, e : SocketClosed(t, i, f, e) /\ i = at[t].id /\ f = Conn(t).fd /\ e = endOf[i]
    BY <1>3, CloseSocketDoes
  <2>r. \A u \in Threads : Registering(u)' => Registering(u) /\ at'[u] = at[u]
    BY <2>0, AtType DEF SocketClosed, Registering
  <2>1. DOMAIN conns' = DOMAIN conns /\ \A j \in DOMAIN conns : j # i => conns'[j] = conns[j]
    BY <2>0 DEF SocketClosed
  <2>2. \A u \in Threads : Registering(u) => at[u].id # i
    BY <2>0, NobodyRegistersClosed
  <2> QED
    BY <2>r, <2>1, <2>2 DEF RegisteringIsOpen, BeingRegistered, Conn
<1>4. ASSUME NEW t \in {Svc, App}, InsertConnection(t), fault' = "none" PROVE RegisteringIsOpen'
  <2>0. PICK i, f, e : Inserted(t, i, f, e) /\ i = at[t].id /\ f = at[t].fd /\ e = sock[f]
    BY <1>4, InsertDoes
  <2>r. /\ t \in Threads /\ at'[t].pc = "regRead" /\ at'[t].id = i /\ at'[t].fd = f /\ at[t].pc = "insert"
        /\ \A u \in Threads \ {t} : at'[u] = at[u]
    BY <2>0, AtType DEF Inserted
  <2>1. /\ DOMAIN conns' = DOMAIN conns \cup {i} /\ i \notin DOMAIN conns /\ conns'[i].fd = f /\ f # NoFd
        /\ \A j \in DOMAIN conns : conns'[j] = conns[j]
    BY <2>0 DEF Inserted, NewConnection
  <2> QED
    BY <2>r, <2>1 DEF RegisteringIsOpen, BeingRegistered, Conn, Registering
<1>5. ASSUME NEW t \in {Svc, App}, RegistReadEvent(t), fault' = "none" PROVE RegisteringIsOpen'
  <2>0. PICK kind, i, f : kind \in {"read", "write"} /\ EventRegistered(t, kind, i, f) /\ i = at[t].id /\ f = at[t].fd
    BY <1>5, EventIsRegistered
  <2>r. /\ t \in Threads /\ Registering(t) /\ at[t].id = i /\ at[t].fd = f
        /\ \A u \in Threads \ {t} : at'[u] = at[u]
        /\ Registering(t)' => kind = "read" /\ at'[t].pc = "regWrite" /\ at'[t].id = i /\ at'[t].fd = f
    BY <2>0 DEF EventRegistered, Registering
  <2>1. UNCHANGED conns
    BY <2>0 DEF EventRegistered
  <2> QED
    BY <2>r, <2>1 DEF RegisteringIsOpen, BeingRegistered, Conn, Registering
<1>6. ASSUME NEW t \in {Svc, App}, RegistWriteEvent(t), fault' = "none" PROVE RegisteringIsOpen'
  <2>0. PICK kind, i, f : kind \in {"read", "write"} /\ EventRegistered(t, kind, i, f) /\ i = at[t].id /\ f = at[t].fd
    BY <1>6, EventIsRegistered
  <2>r. /\ t \in Threads /\ Registering(t) /\ at[t].id = i /\ at[t].fd = f
        /\ \A u \in Threads \ {t} : at'[u] = at[u]
        /\ Registering(t)' => kind = "read" /\ at'[t].pc = "regWrite" /\ at'[t].id = i /\ at'[t].fd = f
    BY <2>0 DEF EventRegistered, Registering
  <2>1. UNCHANGED conns
    BY <2>0 DEF EventRegistered
  <2> QED
    BY <2>r, <2>1 DEF RegisteringIsOpen, BeingRegistered, Conn, Registering
<1>7. CASE AcceptConnection
  <2>r. \A u \in Threads : Registering(u)' => Registering(u) /\ at'[u] = at[u]
    BY <1>7, AtType DEF AcceptConnection, Registering, Taking, GoFor, At
  <2>1. UNCHANGED conns
    BY <1>7 DEF AcceptConnection
  <2> QED
    BY <2>r, <2>1 DEF RegisteringIsOpen, BeingRegistered, Conn
<1>8. CASE FreeSocket
  <2>0. PICK i : Freed(i) /\ i = at[Svc].id
    BY <1>8, FreeSocketDoes
  <2>r. \A u \in Threads : Registering(u)' => Registering(u) /\ at'[u] = at[u]
    BY <2>0, AtType DEF Freed, Registering
  <2>1. DOMAIN conns' = DOMAIN conns /\ \A j \in DOMAIN conns : conns'[j].fd = conns[j].fd
    BY <2>0 DEF Freed
  <2> QED
    BY <2>r, <2>1 DEF RegisteringIsOpen, BeingRegistered, Conn
<1>9. CASE DeleteConnection
  <2>0. PICK i : Deleted(i) /\ i = at[Svc].id
    BY <1>9, DeleteDoes
  <2>r. \A u \in Threads : Registering(u)' => Registering(u) /\ at'[u] = at[u]
    BY <2>0, AtType DEF Deleted, Registering
  <2>1. /\ DOMAIN conns' = DOMAIN conns \ {i} /\ conns[i].fd = NoFd
        /\ \A j \in DOMAIN conns' : conns'[j] = conns[j]
    BY <2>0 DEF Deleted, IsShut
  <2> QED
    BY <2>r, <2>1 DEF RegisteringIsOpen, BeingRegistered, Conn
<1>10. ASSUME NEW r \in Remotes, StartConnectRemote(r) PROVE RegisteringIsOpen'
  <2>r. \A u \in Threads : Registering(u)' => Registering(u) /\ at'[u] = at[u]
    BY <1>10, AtType DEF StartConnectRemote, Registering, Taking, GoFor, At
  <2>1. UNCHANGED conns
    BY <1>10 DEF StartConnectRemote
  <2> QED
    BY <2>r, <2>1 DEF RegisteringIsOpen, BeingRegistered, Conn
<1>11. CASE UNCHANGED AllButFault
  BY <1>1, <1>11 DEF AllButFault, KeepsConns, KeepsRegistering, netVars, connVars, drvVars, svcVars, srvVars
<1> QED
  <2>1. CASE ChangesConns /\ ~UNCHANGED AllButFault
    BY <2>1, Steps, <1>2, <1>3, <1>4, <1>8, <1>9
       DEF ChangesConns, RegisterMoves
  <2>2. CASE ChangesRegistering /\ ~UNCHANGED AllButFault
    BY <2>2, Steps, <1>4, <1>5, <1>6, <1>7, <1>10
       DEF ChangesRegistering, RegisterMoves
  <2>3. CASE KeepsConns /\ KeepsRegistering /\ ~UNCHANGED AllButFault
    BY <2>3, Steps, <1>1, <1>2, <1>3, <1>4, <1>5, <1>6, <1>7, <1>8, <1>9, <1>10
       DEF DriverMoves, ConnectionMoves, RegisterMoves, ServiceMoves, AppMoves, Accept,
           FindReady, CallHandler, ReadData, PreRecv, RecvData, RecvGetsNothing, EnqueueDrop,
           WriteData, SendData, Unlock, ProcessRecv, SendMsg, EnqueueMsg, DropConnection,
           StopListener, DropNextConnection, AllDropped, DriverStop, Dies, JoinDriver, Stop,
           StopReturns, ServerHandles, EndStep, netVars, connVars, drvVars, svcVars, srvVars
  <2> QED
    BY <1>11, <2>1, <2>2, <2>3, ConnsAreKept, RegisteringIsKept

LEMMA OneRegistersKept ==
  ASSUME ControlInv, [Next]_vars
  PROVE  OneRegisters'
<1>a. TypeOK /\ BeingRegistered
  BY DEF ControlInv
<1> USE <1>a, NetServiceAssumption
    DEF svcVars, connVars, srvVars, drvVars, Threads
<1>1. CASE KeepsRegistering
  BY <1>1
     DEF OneRegisters, BeingRegistered, Registering, KeepsRegistering
<1>2. ASSUME NEW t \in {Svc, App}, InsertConnection(t), fault' = "none" PROVE OneRegisters'
  <2>0. PICK i, f, e : Inserted(t, i, f, e) /\ i = at[t].id /\ f = at[t].fd /\ e = sock[f]
    BY <1>2, InsertDoes
  <2>r. /\ t \in Threads /\ at'[t].pc = "regRead" /\ at'[t].id = i /\ at'[t].fd = f /\ at[t].pc = "insert"
        /\ \A u \in Threads \ {t} : at'[u] = at[u]
    BY <2>0, AtType DEF Inserted
  <2>1. i \notin DOMAIN conns
    BY <2>0 DEF Inserted
  <2> QED
    BY <2>r, <2>1 DEF RegisteringIsOpen, OneRegisters, BeingRegistered, Registering
<1>3. ASSUME NEW t \in {Svc, App}, RegistReadEvent(t), fault' = "none" PROVE OneRegisters'
  <2>0. PICK kind, i, f : kind \in {"read", "write"} /\ EventRegistered(t, kind, i, f) /\ i = at[t].id /\ f = at[t].fd
    BY <1>3, EventIsRegistered
  <2>r. /\ t \in Threads /\ Registering(t) /\ at[t].id = i /\ at[t].fd = f
        /\ \A u \in Threads \ {t} : at'[u] = at[u]
        /\ Registering(t)' => kind = "read" /\ at'[t].pc = "regWrite" /\ at'[t].id = i /\ at'[t].fd = f
    BY <2>0 DEF EventRegistered, Registering
  <2> QED
    BY <2>r DEF OneRegisters, BeingRegistered, Registering
<1>4. ASSUME NEW t \in {Svc, App}, RegistWriteEvent(t), fault' = "none" PROVE OneRegisters'
  <2>0. PICK kind, i, f : kind \in {"read", "write"} /\ EventRegistered(t, kind, i, f) /\ i = at[t].id /\ f = at[t].fd
    BY <1>4, EventIsRegistered
  <2>r. /\ t \in Threads /\ Registering(t) /\ at[t].id = i /\ at[t].fd = f
        /\ \A u \in Threads \ {t} : at'[u] = at[u]
        /\ Registering(t)' => kind = "read" /\ at'[t].pc = "regWrite" /\ at'[t].id = i /\ at'[t].fd = f
    BY <2>0 DEF EventRegistered, Registering
  <2> QED
    BY <2>r DEF OneRegisters, BeingRegistered, Registering
<1>5. CASE AcceptConnection
  <2>r. \A u \in Threads : Registering(u)' => Registering(u) /\ at'[u] = at[u]
    BY <1>5, AtType DEF AcceptConnection, Registering, Taking, GoFor, At
  <2> QED
    BY <2>r DEF OneRegisters, BeingRegistered
<1>6. ASSUME NEW r \in Remotes, StartConnectRemote(r) PROVE OneRegisters'
  <2>r. \A u \in Threads : Registering(u)' => Registering(u) /\ at'[u] = at[u]
    BY <1>6, AtType DEF StartConnectRemote, Registering, Taking, GoFor, At
  <2> QED
    BY <2>r DEF OneRegisters, BeingRegistered
<1>7. CASE UNCHANGED AllButFault
  BY <1>1, <1>7 DEF AllButFault, KeepsRegistering, netVars, connVars, drvVars, svcVars, srvVars
<1> QED
  <2>1. CASE ChangesRegistering /\ ~UNCHANGED AllButFault
    BY <2>1, Steps, <1>2, <1>3, <1>4, <1>5, <1>6
       DEF ChangesRegistering, RegisterMoves
  <2>2. CASE KeepsRegistering /\ ~UNCHANGED AllButFault
    BY <2>2, Steps, <1>1, <1>2, <1>3, <1>4, <1>5, <1>6
       DEF DriverMoves, ConnectionMoves, RegisterMoves, ServiceMoves, AppMoves, Accept,
           FindReady, CallHandler, ReadData, PreRecv, RecvData, RecvGetsNothing,
           CloseUnregistersRead, CloseSocket, EnqueueDrop, WriteData, SendData, Unlock,
           ProcessRecv, SendMsg, EnqueueMsg, DropConnection, FreeSocket, DeleteConnection,
           StopListener, DropNextConnection, AllDropped, DriverStop, Dies, JoinDriver, Stop,
           StopReturns, ServerHandles, EndStep, netVars, connVars, drvVars, svcVars, srvVars
  <2> QED
    BY <1>7, <2>1, <2>2, RegisteringIsKept

LEMMA WriteIsNewKept ==
  ASSUME ControlInv, [Next]_vars
  PROVE  WriteIsNew'
<1>a. TypeOK /\ IdsOfConns /\ EventsOfLiveConns /\ Events /\ BeingRegistered
  BY DEF ControlInv
<1> USE <1>a, NetServiceAssumption
    DEF svcVars, connVars, srvVars, drvVars, Threads
<1>1. CASE KeepsRegistering /\ UNCHANGED events
  BY <1>1
     DEF WriteIsNew, BeingRegistered, Registering, KeepsRegistering, At
<1>2. ASSUME NEW t \in {Drv, Svc}, CloseUnregistersRead(t), KeepsRegistering PROVE WriteIsNew'
  <2>0. PICK i, f : ReadUnregistered(t, i, f) /\ i = at[t].id /\ f = Conn(t).fd
    BY <1>2, CloseUnregistersReadDoes
  <2>a. Without(events', f, "read") /\ f \in DOMAIN events
    <3>1. f \in DOMAIN events /\ events' = Unregistered(f, "read")
      BY <2>0 DEF ReadUnregistered
    <3> QED
      BY <3>1, UnregisteredIs, EventsAreTyped DEF Kinds
  <2>r. \A u \in Threads : Registering(u)' => Registering(u) /\ at'[u] = at[u]
    BY <2>0, AtType DEF ReadUnregistered, Registering
  <2>n. \A u \in Threads : Registering(u) => at[u].id # NoId
    BY NetServiceAssumption DEF RegisteringIsOpen, BeingRegistered, TypeOK
  <2>1. \A g \in DOMAIN events' : events'[g].write = NoId \/ (g \in DOMAIN events /\ events'[g].write = events[g].write)
    BY <2>a DEF Without, Kinds
  <2> QED
    BY <2>r, <2>n, <2>1, NetServiceAssumption DEF WriteIsNew, BeingRegistered, TypeOK, Registering, At
<1>3. ASSUME NEW t \in {Drv, Svc}, CloseSocket(t), KeepsRegistering PROVE WriteIsNew'
  <2>0. PICK i, f, e : SocketClosed(t, i, f, e) /\ i = at[t].id /\ f = Conn(t).fd /\ e = endOf[i]
    BY <1>3, CloseSocketDoes
  <2>a. Without(events', f, "write") /\ f \in DOMAIN events
    <3>1. f \in DOMAIN events /\ events' = Unregistered(f, "write")
      BY <2>0 DEF SocketClosed
    <3> QED
      BY <3>1, UnregisteredIs, EventsAreTyped DEF Kinds
  <2>r. \A u \in Threads : Registering(u)' => Registering(u) /\ at'[u] = at[u]
    BY <2>0, AtType DEF SocketClosed, Registering
  <2>n. \A u \in Threads : Registering(u) => at[u].id # NoId
    BY NetServiceAssumption DEF RegisteringIsOpen, BeingRegistered, TypeOK
  <2>1. \A g \in DOMAIN events' : events'[g].write = NoId \/ (g \in DOMAIN events /\ events'[g].write = events[g].write)
    BY <2>a DEF Without, Kinds
  <2> QED
    BY <2>r, <2>n, <2>1, NetServiceAssumption DEF WriteIsNew, BeingRegistered, TypeOK, Registering, At
<1>4. ASSUME NEW t \in {Svc, App}, InsertConnection(t), fault' = "none" PROVE WriteIsNew'
  <2>0. PICK i, f, e : Inserted(t, i, f, e) /\ i = at[t].id /\ f = at[t].fd /\ e = sock[f]
    BY <1>4, InsertDoes
  <2>r. /\ t \in Threads /\ at'[t].pc = "regRead" /\ at'[t].id = i /\ at'[t].fd = f /\ at[t].pc = "insert"
        /\ \A u \in Threads \ {t} : at'[u] = at[u]
    BY <2>0, AtType DEF Inserted
  <2>1. i \notin DOMAIN conns /\ UNCHANGED events /\ i # NoId
    BY <2>0, NetServiceAssumption DEF Inserted
  <2>2. \A g \in DOMAIN events : events[g].write # i
    BY <2>1 DEF EventsOfLiveConns
  <2> QED
    BY <2>r, <2>1, <2>2 DEF WriteIsNew, BeingRegistered, Registering, At
<1>5. ASSUME NEW t \in {Svc, App}, RegistReadEvent(t), fault' = "none" PROVE WriteIsNew'
  <2>0. PICK kind, i, f : kind \in {"read", "write"} /\ EventRegistered(t, kind, i, f) /\ i = at[t].id /\ f = at[t].fd
    BY <1>5, EventIsRegistered
  <2>a. With(events', f, kind, i) /\ kind \in Kinds /\ i \in Nat
    <3>1. f \in Fds /\ i \in Nat /\ events' = Registered(f, kind, i) /\ kind \in Kinds
      BY <2>0 DEF EventRegistered, Kinds
    <3> QED
      BY <3>1, RegisteredIs, EventsAreTyped
  <2>r. /\ t \in Threads /\ Registering(t) /\ at[t].id = i /\ at[t].fd = f
        /\ \A u \in Threads \ {t} : at'[u] = at[u]
        /\ Registering(t)' => kind = "read" /\ at'[t].pc = "regWrite" /\ at'[t].id = i /\ at'[t].fd = f
    BY <2>0 DEF EventRegistered, Registering
  <2>n. \A u \in Threads : Registering(u) => at[u].id # NoId
    BY NetServiceAssumption DEF RegisteringIsOpen, BeingRegistered, TypeOK
  <2>1. \A g \in DOMAIN events' :
          \/ kind = "write" /\ events'[g].write = i
          \/ events'[g].write = NoId
          \/ g \in DOMAIN events /\ events'[g].write = events[g].write
    BY <2>a DEF With, Kinds
  <2>2. \A u \in Threads : Registering(u) /\ u # t => at[u].id # i
    BY <2>r DEF OneRegisters, BeingRegistered
  <2> QED
    BY <2>r, <2>n, <2>1, <2>2, NetServiceAssumption DEF WriteIsNew, BeingRegistered, Registering, At
<1>6. ASSUME NEW t \in {Svc, App}, RegistWriteEvent(t), fault' = "none" PROVE WriteIsNew'
  <2>0. PICK kind, i, f : kind \in {"read", "write"} /\ EventRegistered(t, kind, i, f) /\ i = at[t].id /\ f = at[t].fd
    BY <1>6, EventIsRegistered
  <2>a. With(events', f, kind, i) /\ kind \in Kinds /\ i \in Nat
    <3>1. f \in Fds /\ i \in Nat /\ events' = Registered(f, kind, i) /\ kind \in Kinds
      BY <2>0 DEF EventRegistered, Kinds
    <3> QED
      BY <3>1, RegisteredIs, EventsAreTyped
  <2>r. /\ t \in Threads /\ Registering(t) /\ at[t].id = i /\ at[t].fd = f
        /\ \A u \in Threads \ {t} : at'[u] = at[u]
        /\ Registering(t)' => kind = "read" /\ at'[t].pc = "regWrite" /\ at'[t].id = i /\ at'[t].fd = f
    BY <2>0 DEF EventRegistered, Registering
  <2>n. \A u \in Threads : Registering(u) => at[u].id # NoId
    BY NetServiceAssumption DEF RegisteringIsOpen, BeingRegistered, TypeOK
  <2>1. \A g \in DOMAIN events' :
          \/ kind = "write" /\ events'[g].write = i
          \/ events'[g].write = NoId
          \/ g \in DOMAIN events /\ events'[g].write = events[g].write
    BY <2>a DEF With, Kinds
  <2>2. \A u \in Threads : Registering(u) /\ u # t => at[u].id # i
    BY <2>r DEF OneRegisters, BeingRegistered
  <2> QED
    BY <2>r, <2>n, <2>1, <2>2, NetServiceAssumption DEF WriteIsNew, BeingRegistered, Registering, At
<1>7. CASE AcceptConnection
  <2>r. \A u \in Threads : Registering(u)' => Registering(u) /\ at'[u] = at[u]
    BY <1>7, AtType DEF AcceptConnection, Registering, Taking, GoFor, At
  <2>1. UNCHANGED events
    BY <1>7 DEF AcceptConnection
  <2> QED
    BY <2>r, <2>1 DEF WriteIsNew, BeingRegistered, Registering, At
<1>8. ASSUME NEW r \in Remotes, StartConnectRemote(r) PROVE WriteIsNew'
  <2>r. \A u \in Threads : Registering(u)' => Registering(u) /\ at'[u] = at[u]
    BY <1>8, AtType DEF StartConnectRemote, Registering, Taking, GoFor, At
  <2>1. UNCHANGED events
    BY <1>8 DEF StartConnectRemote
  <2> QED
    BY <2>r, <2>1 DEF WriteIsNew, BeingRegistered, Registering, At
<1>9. CASE UNCHANGED AllButFault
  BY <1>1, <1>9 DEF AllButFault, KeepsRegistering, netVars, connVars, drvVars, svcVars, srvVars
<1> QED
  <2>1. CASE ChangesRegistering /\ ~UNCHANGED AllButFault
    BY <2>1, Steps, <1>4, <1>5, <1>6, <1>7, <1>8
       DEF ChangesRegistering, RegisterMoves
  <2>2. CASE KeepsRegistering /\ ~UNCHANGED AllButFault
    BY <2>2, Steps, <1>1, <1>2, <1>3, <1>4, <1>5, <1>6, <1>7, <1>8
       DEF DriverMoves, ConnectionMoves, RegisterMoves, ServiceMoves, AppMoves, Accept,
           FindReady, CallHandler, ReadData, PreRecv, RecvData, RecvGetsNothing, EnqueueDrop,
           WriteData, SendData, Unlock, ProcessRecv, SendMsg, EnqueueMsg, DropConnection,
           FreeSocket, DeleteConnection, StopListener, DropNextConnection, AllDropped,
           DriverStop, Dies, JoinDriver, Stop, StopReturns, ServerHandles, EndStep, netVars,
           connVars, drvVars, svcVars, srvVars
  <2> QED
    BY <1>9, <2>1, <2>2, RegisteringIsKept

LEMMA ReadIsNewKept ==
  ASSUME ControlInv, [Next]_vars
  PROVE  ReadIsNew'
<1>a. TypeOK /\ IdsOfConns /\ EventsOfLiveConns /\ Events /\ BeingRegistered
  BY DEF ControlInv
<1> USE <1>a, NetServiceAssumption
    DEF svcVars, connVars, srvVars, drvVars, Threads
<1>1. CASE KeepsRegistering /\ UNCHANGED events
  BY <1>1
     DEF ReadIsNew, BeingRegistered, Registering, KeepsRegistering, At
<1>2. ASSUME NEW t \in {Drv, Svc}, CloseUnregistersRead(t), KeepsRegistering PROVE ReadIsNew'
  <2>0. PICK i, f : ReadUnregistered(t, i, f) /\ i = at[t].id /\ f = Conn(t).fd
    BY <1>2, CloseUnregistersReadDoes
  <2>a. Without(events', f, "read") /\ f \in DOMAIN events
    <3>1. f \in DOMAIN events /\ events' = Unregistered(f, "read")
      BY <2>0 DEF ReadUnregistered
    <3> QED
      BY <3>1, UnregisteredIs, EventsAreTyped DEF Kinds
  <2>r. \A u \in Threads : Registering(u)' => Registering(u) /\ at'[u] = at[u]
    BY <2>0, AtType DEF ReadUnregistered, Registering
  <2>n. \A u \in Threads : Registering(u) => at[u].id # NoId
    BY NetServiceAssumption DEF RegisteringIsOpen, BeingRegistered, TypeOK
  <2>1. \A g \in DOMAIN events' : events'[g].read = NoId \/ (g \in DOMAIN events /\ events'[g].read = events[g].read)
    BY <2>a DEF Without, Kinds
  <2> QED
    BY <2>r, <2>n, <2>1, NetServiceAssumption DEF ReadIsNew, BeingRegistered, TypeOK, Registering, At
<1>3. ASSUME NEW t \in {Drv, Svc}, CloseSocket(t), KeepsRegistering PROVE ReadIsNew'
  <2>0. PICK i, f, e : SocketClosed(t, i, f, e) /\ i = at[t].id /\ f = Conn(t).fd /\ e = endOf[i]
    BY <1>3, CloseSocketDoes
  <2>a. Without(events', f, "write") /\ f \in DOMAIN events
    <3>1. f \in DOMAIN events /\ events' = Unregistered(f, "write")
      BY <2>0 DEF SocketClosed
    <3> QED
      BY <3>1, UnregisteredIs, EventsAreTyped DEF Kinds
  <2>r. \A u \in Threads : Registering(u)' => Registering(u) /\ at'[u] = at[u]
    BY <2>0, AtType DEF SocketClosed, Registering
  <2>n. \A u \in Threads : Registering(u) => at[u].id # NoId
    BY NetServiceAssumption DEF RegisteringIsOpen, BeingRegistered, TypeOK
  <2>1. \A g \in DOMAIN events' : events'[g].read = NoId \/ (g \in DOMAIN events /\ events'[g].read = events[g].read)
    BY <2>a DEF Without, Kinds
  <2> QED
    BY <2>r, <2>n, <2>1, NetServiceAssumption DEF ReadIsNew, BeingRegistered, TypeOK, Registering, At
<1>4. ASSUME NEW t \in {Svc, App}, InsertConnection(t), fault' = "none" PROVE ReadIsNew'
  <2>0. PICK i, f, e : Inserted(t, i, f, e) /\ i = at[t].id /\ f = at[t].fd /\ e = sock[f]
    BY <1>4, InsertDoes
  <2>r. /\ t \in Threads /\ at'[t].pc = "regRead" /\ at'[t].id = i /\ at'[t].fd = f /\ at[t].pc = "insert"
        /\ \A u \in Threads \ {t} : at'[u] = at[u]
    BY <2>0, AtType DEF Inserted
  <2>1. i \notin DOMAIN conns /\ UNCHANGED events /\ i # NoId
    BY <2>0, NetServiceAssumption DEF Inserted
  <2>2. \A g \in DOMAIN events : events[g].read # i
    BY <2>1 DEF EventsOfLiveConns
  <2> QED
    BY <2>r, <2>1, <2>2 DEF ReadIsNew, BeingRegistered, Registering, At
<1>5. ASSUME NEW t \in {Svc, App}, RegistReadEvent(t), fault' = "none" PROVE ReadIsNew'
  <2>0. PICK kind, i, f : kind \in {"read", "write"} /\ EventRegistered(t, kind, i, f) /\ i = at[t].id /\ f = at[t].fd
    BY <1>5, EventIsRegistered
  <2>a. With(events', f, kind, i) /\ kind \in Kinds /\ i \in Nat
    <3>1. f \in Fds /\ i \in Nat /\ events' = Registered(f, kind, i) /\ kind \in Kinds
      BY <2>0 DEF EventRegistered, Kinds
    <3> QED
      BY <3>1, RegisteredIs, EventsAreTyped
  <2>r. /\ t \in Threads /\ Registering(t) /\ at[t].id = i /\ at[t].fd = f
        /\ \A u \in Threads \ {t} : at'[u] = at[u]
        /\ Registering(t)' => kind = "read" /\ at'[t].pc = "regWrite" /\ at'[t].id = i /\ at'[t].fd = f
    BY <2>0 DEF EventRegistered, Registering
  <2>n. \A u \in Threads : Registering(u) => at[u].id # NoId
    BY NetServiceAssumption DEF RegisteringIsOpen, BeingRegistered, TypeOK
  <2>1. \A g \in DOMAIN events' :
          \/ kind = "read" /\ events'[g].read = i
          \/ events'[g].read = NoId
          \/ g \in DOMAIN events /\ events'[g].read = events[g].read
    BY <2>a DEF With, Kinds
  <2>2. \A u \in Threads : Registering(u) /\ u # t => at[u].id # i
    BY <2>r DEF OneRegisters, BeingRegistered
  <2> QED
    BY <2>r, <2>n, <2>1, <2>2, NetServiceAssumption DEF ReadIsNew, BeingRegistered, Registering, At
<1>6. ASSUME NEW t \in {Svc, App}, RegistWriteEvent(t), fault' = "none" PROVE ReadIsNew'
  <2>0. PICK kind, i, f : kind \in {"read", "write"} /\ EventRegistered(t, kind, i, f) /\ i = at[t].id /\ f = at[t].fd
    BY <1>6, EventIsRegistered
  <2>a. With(events', f, kind, i) /\ kind \in Kinds /\ i \in Nat
    <3>1. f \in Fds /\ i \in Nat /\ events' = Registered(f, kind, i) /\ kind \in Kinds
      BY <2>0 DEF EventRegistered, Kinds
    <3> QED
      BY <3>1, RegisteredIs, EventsAreTyped
  <2>r. /\ t \in Threads /\ Registering(t) /\ at[t].id = i /\ at[t].fd = f
        /\ \A u \in Threads \ {t} : at'[u] = at[u]
        /\ Registering(t)' => kind = "read" /\ at'[t].pc = "regWrite" /\ at'[t].id = i /\ at'[t].fd = f
    BY <2>0 DEF EventRegistered, Registering
  <2>n. \A u \in Threads : Registering(u) => at[u].id # NoId
    BY NetServiceAssumption DEF RegisteringIsOpen, BeingRegistered, TypeOK
  <2>1. \A g \in DOMAIN events' :
          \/ kind = "read" /\ events'[g].read = i
          \/ events'[g].read = NoId
          \/ g \in DOMAIN events /\ events'[g].read = events[g].read
    BY <2>a DEF With, Kinds
  <2>2. \A u \in Threads : Registering(u) /\ u # t => at[u].id # i
    BY <2>r DEF OneRegisters, BeingRegistered
  <2> QED
    BY <2>r, <2>n, <2>1, <2>2, NetServiceAssumption DEF ReadIsNew, BeingRegistered, Registering, At
<1>7. CASE AcceptConnection
  <2>r. \A u \in Threads : Registering(u)' => Registering(u) /\ at'[u] = at[u]
    BY <1>7, AtType DEF AcceptConnection, Registering, Taking, GoFor, At
  <2>1. UNCHANGED events
    BY <1>7 DEF AcceptConnection
  <2> QED
    BY <2>r, <2>1 DEF ReadIsNew, BeingRegistered, Registering, At
<1>8. ASSUME NEW r \in Remotes, StartConnectRemote(r) PROVE ReadIsNew'
  <2>r. \A u \in Threads : Registering(u)' => Registering(u) /\ at'[u] = at[u]
    BY <1>8, AtType DEF StartConnectRemote, Registering, Taking, GoFor, At
  <2>1. UNCHANGED events
    BY <1>8 DEF StartConnectRemote
  <2> QED
    BY <2>r, <2>1 DEF ReadIsNew, BeingRegistered, Registering, At
<1>9. CASE UNCHANGED AllButFault
  BY <1>1, <1>9 DEF AllButFault, KeepsRegistering, netVars, connVars, drvVars, svcVars, srvVars
<1> QED
  <2>1. CASE ChangesRegistering /\ ~UNCHANGED AllButFault
    BY <2>1, Steps, <1>4, <1>5, <1>6, <1>7, <1>8
       DEF ChangesRegistering, RegisterMoves
  <2>2. CASE KeepsRegistering /\ ~UNCHANGED AllButFault
    BY <2>2, Steps, <1>1, <1>2, <1>3, <1>4, <1>5, <1>6, <1>7, <1>8
       DEF DriverMoves, ConnectionMoves, RegisterMoves, ServiceMoves, AppMoves, Accept,
           FindReady, CallHandler, ReadData, PreRecv, RecvData, RecvGetsNothing, EnqueueDrop,
           WriteData, SendData, Unlock, ProcessRecv, SendMsg, EnqueueMsg, DropConnection,
           FreeSocket, DeleteConnection, StopListener, DropNextConnection, AllDropped,
           DriverStop, Dies, JoinDriver, Stop, StopReturns, ServerHandles, EndStep, netVars,
           connVars, drvVars, svcVars, srvVars
  <2> QED
    BY <1>9, <2>1, <2>2, RegisteringIsKept


\* Nobody turns to another connection.
LEMMA NobodyTurns ==
  ASSUME TypeOK, BeingRegistered, KeepsRegistering,
         \A u \in Threads : \/ at'[u].id \in {at[u].id, NoId}
                            \/ \A t \in Threads : At(t, "regRead") => at'[u].id # at[t].id
  PROVE  NobodyElse'
<1>1. ASSUME NEW t \in Threads, NEW u \in Threads, At(t, "regRead")', at'[u].id = at'[t].id
      PROVE  u = t \/ At(u, "insert")'
  <2>1. At(t, "regRead") /\ at'[t] = at[t]
    BY <1>1 DEF KeepsRegistering, At
  <2>2. at[t].id # NoId
    BY <2>1, NetServiceAssumption DEF BeingRegistered, RegisteringIsOpen, Registering, At, TypeOK
  <2>3. at[u].id = at[t].id
    BY <1>1, <2>1, <2>2
  <2> QED
    BY <2>1, <2>3 DEF BeingRegistered, NobodyElse, KeepsRegistering, At
<1> QED
  BY <1>1 DEF NobodyElse

LEMMA NobodyElseKept ==
  ASSUME ControlInv, [Next]_vars
  PROVE  NobodyElse'
<1>a. TypeOK /\ ThreadPlaces /\ IdsOfThreads /\ EventsOfLiveConns /\ Events /\ BeingRegistered
  BY DEF ControlInv
<1> USE <1>a, NetServiceAssumption
    DEF svcVars, connVars, srvVars, drvVars, Threads
<1>1. CASE KeepsRegistering /\ UNCHANGED at
  BY <1>1
     DEF NobodyElse, BeingRegistered, At
<1>2. CASE CallHandler /\ KeepsRegistering
  <2>1. PICK ev \in active : GoFor(Drv, ev[2], events[ev[1]][ev[2]], NoFd)
    BY <1>2 DEF CallHandler
  <2>2. ev[1] \in DOMAIN events /\ ev[2] \in {"read", "write"} /\ events[ev[1]][ev[2]] # NoId
    BY <2>1 DEF Events, ActiveAreRegistered
  <2>3. \A t \in Threads : At(t, "regRead") => events[ev[1]][ev[2]] # at[t].id
    BY <2>2 DEF BeingRegistered, ReadIsNew, WriteIsNew, Registering, At
  <2>4. \A u \in Threads : at'[u] = at[u] \/ at'[u].id = events[ev[1]][ev[2]]
    BY <2>1, AtType DEF GoFor
  <2> QED
    BY <1>2, <2>3, <2>4, NobodyTurns
<1>3. CASE Alive(Drv) /\ ReadData /\ KeepsRegistering
  <2>1. \A u \in Threads : at'[u].id \in {at[u].id, NoId}
    BY <1>3, AtType DEF ReadData, Go, GoFor, Return, At
  <2> QED
    BY <1>3, <2>1, NobodyTurns
<1>4. CASE Alive(Drv) /\ PreRecv /\ KeepsRegistering
  <2>1. \A u \in Threads : at'[u].id \in {at[u].id, NoId}
    BY <1>4, AtType, PreRecvGoes DEF Go
  <2> QED
    BY <1>4, <2>1, NobodyTurns
<1>5. CASE Alive(Drv) /\ RecvData /\ KeepsRegistering
  <2>0. Return(Drv) \/ Go(Drv, "drop")
    BY <1>5 DEF RecvData
  <2>1. \A u \in Threads : at'[u].id \in {at[u].id, NoId}
    BY <2>0, AtType DEF Go, GoFor, Return
  <2> QED
    BY <1>5, <2>1, NobodyTurns
<1>6. CASE Alive(Drv) /\ RecvGetsNothing /\ KeepsRegistering
  <2>1. \A u \in Threads : at'[u].id \in {at[u].id, NoId}
    BY <1>6, AtType DEF RecvGetsNothing, Go, GoFor, Return, At
  <2> QED
    BY <1>6, <2>1, NobodyTurns
<1>7. ASSUME NEW t \in {Drv, Svc}, CloseUnregistersRead(t), KeepsRegistering PROVE NobodyElse'
  <2>0. PICK i, f : ReadUnregistered(t, i, f) /\ i = at[t].id /\ f = Conn(t).fd
    BY <1>7, CloseUnregistersReadDoes
  <2>1. \A u \in Threads : at'[u].id \in {at[u].id, NoId}
    BY <2>0, AtType DEF ReadUnregistered
  <2> QED
    BY <1>7, <2>1, NobodyTurns
<1>8. ASSUME NEW t \in {Drv, Svc}, CloseSocket(t), KeepsRegistering PROVE NobodyElse'
  <2>0. PICK i, f, e : SocketClosed(t, i, f, e) /\ i = at[t].id /\ f = Conn(t).fd /\ e = endOf[i]
    BY <1>8, CloseSocketDoes
  <2>1. \A u \in Threads : at'[u].id \in {at[u].id, NoId}
    BY <2>0, AtType DEF SocketClosed
  <2> QED
    BY <1>8, <2>1, NobodyTurns
<1>9. ASSUME NEW t \in {Drv, Svc}, EnqueueDrop(t), KeepsRegistering PROVE NobodyElse'
  <2>1. \A u \in Threads : at'[u].id \in {at[u].id, NoId}
    BY <1>9, AtType DEF EnqueueDrop, Go, GoFor, Return, At
  <2> QED
    BY <1>9, <2>1, NobodyTurns
<1>10. ASSUME NEW t \in {Drv, Svc}, t = Drv => Alive(Drv), WriteData(t), KeepsRegistering PROVE NobodyElse'
  <2>1. \A u \in Threads : at'[u].id \in {at[u].id, NoId}
    BY <1>10, AtType DEF WriteData, Go, GoFor, Return, At
  <2> QED
    BY <1>10, <2>1, NobodyTurns
<1>11. ASSUME NEW t \in {Drv, Svc}, SendData(t), KeepsRegistering PROVE NobodyElse'
  <2>1. \A u \in Threads : at'[u].id \in {at[u].id, NoId}
    BY <1>11, AtType DEF SendData, Go, GoFor, Return, At
  <2> QED
    BY <1>11, <2>1, NobodyTurns
<1>12. ASSUME NEW t \in {Drv, Svc}, Unlock(t), KeepsRegistering PROVE NobodyElse'
  <2>1. \A u \in Threads : at'[u].id \in {at[u].id, NoId}
    BY <1>12, AtType DEF Unlock, Go, GoFor, Return, At
  <2> QED
    BY <1>12, <2>1, NobodyTurns
<1>13. ASSUME NEW t \in {Svc, App}, InsertConnection(t), fault' = "none" PROVE NobodyElse'
  <2>0. PICK i, f, e : Inserted(t, i, f, e) /\ i = at[t].id /\ f = at[t].fd /\ e = sock[f]
    BY <1>13, InsertDoes
  <2>r. /\ t \in Threads /\ at'[t].pc = "regRead" /\ at'[t].id = i /\ at'[t].fd = f /\ at[t].pc = "insert"
        /\ \A u \in Threads \ {t} : at'[u] = at[u]
    BY <2>0, AtType DEF Inserted
  <2>1. i \notin DOMAIN conns /\ i \notin DOMAIN endOf /\ i # NoId
    BY <2>0, NetServiceAssumption DEF Inserted
  <2>2. \A u \in Threads : At(u, "insert") \/ at[u].id # i
    BY <2>1 DEF IdsOfThreads
  <2>3. \A u \in Threads : At(u, "regRead") => at[u].id # i
    BY <2>1, <2>2 DEF At
  <2> QED
    BY <2>r, <2>2, <2>3 DEF NobodyElse, BeingRegistered, At
<1>14. ASSUME NEW t \in {Svc, App}, RegistReadEvent(t), fault' = "none" PROVE NobodyElse'
  <2>0. PICK kind, i, f : kind \in {"read", "write"} /\ EventRegistered(t, kind, i, f) /\ i = at[t].id /\ f = at[t].fd
    BY <1>14, EventIsRegistered
  <2>r. /\ t \in Threads /\ Registering(t) /\ at[t].id = i /\ at[t].fd = f
        /\ \A u \in Threads \ {t} : at'[u] = at[u]
        /\ Registering(t)' => kind = "read" /\ at'[t].pc = "regWrite" /\ at'[t].id = i /\ at'[t].fd = f
    BY <2>0 DEF EventRegistered, Registering
  <2>1. at'[t].id = NoId \/ at'[t].id = at[t].id
    BY <2>0 DEF EventRegistered
  <2>2. \A u \in Threads : At(u, "regRead")' => At(u, "regRead") /\ u # t /\ at[u].id # NoId
    <3>1. \A u \in Threads : At(u, "regRead") => at[u].id # NoId
      BY NetServiceAssumption DEF BeingRegistered, RegisteringIsOpen, Registering, At, TypeOK
    <3> QED
      BY <2>r, <3>1 DEF Registering, At
  <2>3. At(t, "insert") => FALSE
    BY <2>r DEF Registering, At
  <2> QED
    BY <2>r, <2>1, <2>2, <2>3 DEF NobodyElse, BeingRegistered, At
<1>15. ASSUME NEW t \in {Svc, App}, RegistWriteEvent(t), fault' = "none" PROVE NobodyElse'
  <2>0. PICK kind, i, f : kind \in {"read", "write"} /\ EventRegistered(t, kind, i, f) /\ i = at[t].id /\ f = at[t].fd
    BY <1>15, EventIsRegistered
  <2>r. /\ t \in Threads /\ Registering(t) /\ at[t].id = i /\ at[t].fd = f
        /\ \A u \in Threads \ {t} : at'[u] = at[u]
        /\ Registering(t)' => kind = "read" /\ at'[t].pc = "regWrite" /\ at'[t].id = i /\ at'[t].fd = f
    BY <2>0 DEF EventRegistered, Registering
  <2>1. at'[t].id = NoId \/ at'[t].id = at[t].id
    BY <2>0 DEF EventRegistered
  <2>2. \A u \in Threads : At(u, "regRead")' => At(u, "regRead") /\ u # t /\ at[u].id # NoId
    <3>1. \A u \in Threads : At(u, "regRead") => at[u].id # NoId
      BY NetServiceAssumption DEF BeingRegistered, RegisteringIsOpen, Registering, At, TypeOK
    <3> QED
      BY <2>r, <3>1 DEF Registering, At
  <2>3. At(t, "insert") => FALSE
    BY <2>r DEF Registering, At
  <2> QED
    BY <2>r, <2>1, <2>2, <2>3 DEF NobodyElse, BeingRegistered, At
<1>16. CASE AcceptConnection
  <2>1. \A u \in Threads : (u # Svc /\ at'[u] = at[u]) \/ (u = Svc /\ at'[u].pc = "insert")
    BY <1>16, AtType DEF AcceptConnection, GoFor
  <2> QED
    BY <2>1 DEF NobodyElse, BeingRegistered, At
<1>17. CASE ProcessRecv /\ KeepsRegistering
  <2>1. \A u \in Threads : at'[u].id \in {at[u].id, NoId}
    BY <1>17, AtType DEF ProcessRecv, Go, GoFor, Return, At
  <2> QED
    BY <1>17, <2>1, NobodyTurns
<1>18. CASE SendMsg /\ KeepsRegistering
  <2>1. /\ Ctx.type # "accept" /\ Ctx = Given[Len(srvLog) + 1] /\ Len(srvLog) + 1 \in DOMAIN Given
        /\ UNCHANGED at \/ \E pc : GoFor(Svc, pc, Ctx.id, NoFd)
    BY <1>18, GivenHead DEF SendMsg, Taking
  <2>2. \A t \in Threads : At(t, "regRead") => Ctx.id # at[t].id
    BY <2>1 DEF BeingRegistered, NothingGiven
  <2>3. \A u \in Threads : at'[u] = at[u] \/ at'[u].id = Ctx.id
    BY <2>1, AtType DEF GoFor
  <2> QED
    BY <1>18, <2>2, <2>3, NobodyTurns
<1>19. CASE EnqueueMsg /\ KeepsRegistering
  <2>1. \A u \in Threads : at'[u].id \in {at[u].id, NoId}
    BY <1>19, AtType DEF EnqueueMsg, ThenWrites, Go, GoFor, Return, At
  <2> QED
    BY <1>19, <2>1, NobodyTurns
<1>20. CASE DropConnection /\ KeepsRegistering
  <2>1. /\ Ctx.type # "accept" /\ Ctx = Given[Len(srvLog) + 1] /\ Len(srvLog) + 1 \in DOMAIN Given
        /\ UNCHANGED at \/ \E pc : GoFor(Svc, pc, Ctx.id, NoFd)
    BY <1>20, GivenHead DEF DropConnection, Taking
  <2>2. \A t \in Threads : At(t, "regRead") => Ctx.id # at[t].id
    BY <2>1 DEF BeingRegistered, NothingGiven
  <2>3. \A u \in Threads : at'[u] = at[u] \/ at'[u].id = Ctx.id
    BY <2>1, AtType DEF GoFor
  <2> QED
    BY <1>20, <2>2, <2>3, NobodyTurns
<1>21. CASE FreeSocket /\ KeepsRegistering
  <2>0. PICK i : Freed(i) /\ i = at[Svc].id
    BY <1>21, FreeSocketDoes
  <2>1. \A u \in Threads : at'[u].id \in {at[u].id, NoId}
    BY <2>0, AtType DEF Freed
  <2> QED
    BY <1>21, <2>1, NobodyTurns
<1>22. CASE DeleteConnection /\ KeepsRegistering
  <2>0. PICK i : Deleted(i) /\ i = at[Svc].id
    BY <1>22, DeleteDoes
  <2>1. \A u \in Threads : at'[u].id \in {at[u].id, NoId}
    BY <2>0, AtType DEF Deleted
  <2> QED
    BY <1>22, <2>1, NobodyTurns
<1>23. CASE StopListener /\ KeepsRegistering
  <2>1. \A u \in Threads : at'[u].id \in {at[u].id, NoId}
    BY <1>23, AtType DEF StopListener, Go, GoFor, Return, At
  <2> QED
    BY <1>23, <2>1, NobodyTurns
<1>24. CASE DropNextConnection /\ KeepsRegistering
  <2>1. \A t \in Threads : ~At(t, "regRead")
    BY <1>24, NetServiceAssumption DEF DropNextConnection, ThreadPlaces, DrvPcs, AppPcs, LockPcs, At
  <2> QED
    BY <1>24, <2>1, NobodyTurns
<1>25. CASE AllDropped /\ KeepsRegistering
  <2>1. \A u \in Threads : at'[u].id \in {at[u].id, NoId}
    BY <1>25, AtType DEF AllDropped, Go, GoFor, Return, At
  <2> QED
    BY <1>25, <2>1, NobodyTurns
<1>26. CASE DriverStop /\ fault' = "none" /\ KeepsRegistering
  <2>1. \A u \in Threads : at'[u].id \in {at[u].id, NoId}
    BY <1>26, AtType DEF DriverStop, Dies, Go, GoFor, Return, At
  <2> QED
    BY <1>26, <2>1, NobodyTurns
<1>27. CASE JoinDriver /\ KeepsRegistering
  <2>1. \A u \in Threads : at'[u].id \in {at[u].id, NoId}
    BY <1>27, AtType DEF JoinDriver, Go, GoFor, Return, At
  <2> QED
    BY <1>27, <2>1, NobodyTurns
<1>28. ASSUME NEW r \in Remotes, StartConnectRemote(r) PROVE NobodyElse'
  <2>1. \A u \in Threads : (u # App /\ at'[u] = at[u]) \/ (u = App /\ at'[u].pc = "insert")
    BY <1>28, AtType DEF StartConnectRemote, GoFor
  <2> QED
    BY <2>1 DEF NobodyElse, BeingRegistered, At
<1>29. CASE Stop /\ KeepsRegistering
  <2>1. \A u \in Threads : at'[u].id \in {at[u].id, NoId}
    BY <1>29, AtType DEF Stop, Go, GoFor, Return, At
  <2> QED
    BY <1>29, <2>1, NobodyTurns
<1>30. CASE StopReturns /\ KeepsRegistering
  <2>1. \A u \in Threads : at'[u].id \in {at[u].id, NoId}
    BY <1>30, AtType DEF StopReturns, Go, GoFor, Return, At
  <2> QED
    BY <1>30, <2>1, NobodyTurns
<1>31. CASE UNCHANGED AllButFault
  BY <1>1, <1>31 DEF AllButFault, KeepsRegistering, netVars, connVars, drvVars, svcVars, srvVars
<1> QED
  <2>1. CASE ChangesRegistering /\ ~UNCHANGED AllButFault
    BY <2>1, Steps, <1>13, <1>14, <1>15, <1>16, <1>28
       DEF ChangesRegistering, RegisterMoves
  <2>2. CASE KeepsRegistering /\ ~UNCHANGED AllButFault
    BY <2>2, Steps, <1>1, <1>2, <1>3, <1>4, <1>5, <1>6, <1>7, <1>8, <1>9, <1>10, <1>11, <1>12,
       <1>13, <1>14, <1>15, <1>16, <1>17, <1>18, <1>19, <1>20, <1>21, <1>22, <1>23, <1>24,
       <1>25, <1>26, <1>27, <1>28, <1>29, <1>30
       DEF DriverMoves, ConnectionMoves, RegisterMoves, ServiceMoves, AppMoves, Accept,
           FindReady, ServerHandles, EndStep, netVars, connVars, drvVars, svcVars, srvVars
  <2> QED
    BY <1>31, <2>1, <2>2, RegisteringIsKept

LEMMA NothingNewGiven ==
  ASSUME TypeOK, BeingRegistered,
         \A u \in Threads : At(u, "regRead")' => At(u, "regRead") /\ at'[u] = at[u],
         \/ GivesNothing
         \/ \E p : Removes(p)
         \/ \E ctx : Gives(ctx) /\ \A t \in Threads : At(t, "regRead") => ctx.id # at[t].id
  PROVE  NothingGiven'
<1> USE GivenIsSeq
<1>1. \A k \in DOMAIN Given' :
        \/ \E l \in DOMAIN Given : Given'[k] = Given[l]
        \/ \A t \in Threads : At(t, "regRead") => Given'[k].id # at[t].id
  <2>1. CASE GivesNothing
    BY <2>1 DEF GivesNothing
  <2>2. ASSUME NEW p, Removes(p) PROVE \A k \in DOMAIN Given' : \E l \in DOMAIN Given : Given'[k] = Given[l]
    BY <2>2 DEF Removes
  <2>3. ASSUME NEW ctx, Gives(ctx) PROVE \A k \in DOMAIN Given' : Given'[k] = ctx \/ (k \in DOMAIN Given /\ Given'[k] = Given[k])
    BY <2>3 DEF Gives
  <2> QED
    BY <2>1, <2>2, <2>3
<1> QED
  BY <1>1 DEF NothingGiven, BeingRegistered

LEMMA NothingGivenKept ==
  ASSUME ControlInv, [Next]_vars
  PROVE  NothingGiven'
<1>a. TypeOK /\ ThreadPlaces /\ Contexts /\ EnqIsHead /\ BeingRegistered
  BY DEF ControlInv
<1> USE <1>a, NetServiceAssumption
    DEF svcVars, connVars, srvVars, drvVars, Threads
<1>1. CASE KeepsRegistering /\ UNCHANGED <<mQueue, srvLog>>
  <2>1. GivesNothing
    BY <1>1 DEF GivesNothing, Given
  <2>2. \A u \in Threads : At(u, "regRead")' => At(u, "regRead") /\ at'[u] = at[u]
    BY <1>1 DEF KeepsRegistering, At
  <2> QED
    BY <2>1, <2>2, NothingNewGiven
<1>2. CASE Accept /\ KeepsRegistering
  <2>k. \A u \in Threads : At(u, "regRead")' => At(u, "regRead") /\ at'[u] = at[u]
    BY <1>2 DEF KeepsRegistering, At
  <2>1. Enqueue(Accepted(FreeFd)) /\ UNCHANGED srvLog
    BY <1>2 DEF Accept
  <2>2. Accepted(FreeFd).id = NoId /\ \A u \in Threads : At(u, "regRead") => at[u].id # NoId
    BY NetServiceAssumption DEF Accepted, BeingRegistered, RegisteringIsOpen, Registering, At, TypeOK
  <2>3. IF mRunning THEN Gives(Accepted(FreeFd)) ELSE GivesNothing
    BY <2>1, EnqueueGives
  <2> QED
    BY <2>k, <2>2, <2>3, NothingNewGiven
<1>3. CASE Alive(Drv) /\ RecvData /\ KeepsRegistering
  <2>k. \A u \in Threads : At(u, "regRead")' => At(u, "regRead") /\ at'[u] = at[u]
    BY <1>3 DEF KeepsRegistering, At
  <2>1. PICK k, buf : TakesOver(at[Drv].id, endOf[at[Drv].id], k, buf)
    BY <1>3, RecvDataDoes
  <2>2. GivesNothing \/ Gives(Recv(at[Drv].id, buf))
    BY <2>1 DEF TakesOver
  <2>3. \A u \in Threads : At(u, "regRead") => at[Drv].id # at[u].id
    BY <2>1, NetServiceAssumption DEF TakesOver, BeingRegistered, NobodyElse, At
  <2>4. Recv(at[Drv].id, buf).id = at[Drv].id
    BY DEF Recv
  <2> QED
    BY <2>k, <2>2, <2>3, <2>4, NothingNewGiven
<1>4. ASSUME NEW t \in {Drv, Svc}, EnqueueDrop(t), KeepsRegistering PROVE NothingGiven'
  <2>k. \A u \in Threads : At(u, "regRead")' => At(u, "regRead") /\ at'[u] = at[u]
    BY <1>4 DEF KeepsRegistering, At
  <2>1. Enqueue(Drop(at[t].id)) /\ UNCHANGED srvLog
    BY <1>4 DEF EnqueueDrop, TellsOfDrop
  <2>2. IF mRunning THEN Gives(Drop(at[t].id)) ELSE GivesNothing
    BY <2>1, EnqueueGives
  <2>3. \A u \in Threads : At(u, "regRead") => at[t].id # at[u].id
    BY <1>4 DEF EnqueueDrop, BeingRegistered, NobodyElse, At
  <2>4. Drop(at[t].id).id = at[t].id
    BY DEF Drop
  <2> QED
    BY <2>k, <2>2, <2>3, <2>4, NothingNewGiven
<1>5. ASSUME NEW t \in {Svc, App}, InsertConnection(t), fault' = "none" PROVE NothingGiven'
  <2>0. PICK i, f, e : Inserted(t, i, f, e) /\ i = at[t].id /\ f = at[t].fd /\ e = sock[f]
    BY <1>5, InsertDoes
  <2>r. /\ t \in Threads /\ at'[t].pc = "regRead" /\ at'[t].id = i /\ at'[t].fd = f /\ at[t].pc = "insert"
        /\ \A u \in Threads \ {t} : at'[u] = at[u]
    BY <2>0, AtType DEF Inserted
  <2>1. i \notin DOMAIN endOf /\ UNCHANGED Given
    BY <2>0 DEF Inserted, Given
  <2>2. \A k \in DOMAIN Given : Given[k].type # "accept" => Given[k].id # i
    BY <2>1 DEF Contexts
  <2> QED
    BY <2>r, <2>1, <2>2 DEF NothingGiven, BeingRegistered, At
<1>6. ASSUME NEW t \in {Svc, App}, RegistReadEvent(t), fault' = "none" PROVE NothingGiven'
  <2>0. PICK kind, i, f : kind \in {"read", "write"} /\ EventRegistered(t, kind, i, f) /\ i = at[t].id /\ f = at[t].fd
    BY <1>6, EventIsRegistered
  <2>r. /\ t \in Threads /\ Registering(t) /\ at[t].id = i /\ at[t].fd = f
        /\ \A u \in Threads \ {t} : at'[u] = at[u]
        /\ Registering(t)' => kind = "read" /\ at'[t].pc = "regWrite" /\ at'[t].id = i /\ at'[t].fd = f
    BY <2>0 DEF EventRegistered, Registering
  <2>k. \A u \in Threads : At(u, "regRead")' => At(u, "regRead") /\ at'[u] = at[u]
    BY <2>r DEF Registering, At
  <2>1. GivesNothing
    BY <2>0 DEF EventRegistered, GivesNothing, Given
  <2> QED
    BY <2>k, <2>1, NothingNewGiven
<1>7. ASSUME NEW t \in {Svc, App}, RegistWriteEvent(t), fault' = "none" PROVE NothingGiven'
  <2>0. PICK kind, i, f : kind \in {"read", "write"} /\ EventRegistered(t, kind, i, f) /\ i = at[t].id /\ f = at[t].fd
    BY <1>7, EventIsRegistered
  <2>r. /\ t \in Threads /\ Registering(t) /\ at[t].id = i /\ at[t].fd = f
        /\ \A u \in Threads \ {t} : at'[u] = at[u]
        /\ Registering(t)' => kind = "read" /\ at'[t].pc = "regWrite" /\ at'[t].id = i /\ at'[t].fd = f
    BY <2>0 DEF EventRegistered, Registering
  <2>k. \A u \in Threads : At(u, "regRead")' => At(u, "regRead") /\ at'[u] = at[u]
    BY <2>r DEF Registering, At
  <2>1. GivesNothing
    BY <2>0 DEF EventRegistered, GivesNothing, Given
  <2> QED
    BY <2>k, <2>1, NothingNewGiven
<1>8. CASE AcceptConnection
  <2>k. \A u \in Threads : At(u, "regRead")' => At(u, "regRead") /\ at'[u] = at[u]
    BY <1>8, AtType DEF AcceptConnection, GoFor, At
  <2>1. Removes(Len(srvLog) + 1)
    BY <1>8, TakeRemoves DEF AcceptConnection, Taking
  <2> QED
    BY <2>k, <2>1, NothingNewGiven
<1>9. CASE ProcessRecv /\ KeepsRegistering
  <2>k. \A u \in Threads : At(u, "regRead")' => At(u, "regRead") /\ at'[u] = at[u]
    BY <1>9 DEF KeepsRegistering, At
  <2>1. UNCHANGED Given
    BY <1>9, TakeGives DEF ProcessRecv, Taking
  <2> QED
    BY <2>k, <2>1 DEF NothingGiven, BeingRegistered
<1>10. CASE SendMsg /\ KeepsRegistering
  <2>k. \A u \in Threads : At(u, "regRead")' => At(u, "regRead") /\ at'[u] = at[u]
    BY <1>10 DEF KeepsRegistering, At
  <2>1. UNCHANGED mQueue => GivesNothing
    BY <1>10 DEF SendMsg, GivesNothing, Given
  <2>2. mQueue' = Tail(mQueue) => Removes(Len(srvLog) + 1)
    BY <1>10, TakeRemoves DEF SendMsg, Taking
  <2>3. UNCHANGED mQueue \/ mQueue' = Tail(mQueue)
    BY <1>10 DEF SendMsg
  <2> QED
    BY <2>k, <2>1, <2>2, <2>3, NothingNewGiven
<1>11. CASE EnqueueMsg /\ KeepsRegistering
  <2>k. \A u \in Threads : At(u, "regRead")' => At(u, "regRead") /\ at'[u] = at[u]
    BY <1>11 DEF KeepsRegistering, At
  <2>1. Removes(Len(srvLog) + 1)
    BY <1>11, TakeRemoves DEF EnqueueMsg, EnqIsHead
  <2> QED
    BY <2>k, <2>1, NothingNewGiven
<1>12. CASE DropConnection /\ KeepsRegistering
  <2>k. \A u \in Threads : At(u, "regRead")' => At(u, "regRead") /\ at'[u] = at[u]
    BY <1>12 DEF KeepsRegistering, At
  <2>1. UNCHANGED Given
    BY <1>12, TakeGives DEF DropConnection, Taking
  <2> QED
    BY <2>k, <2>1 DEF NothingGiven, BeingRegistered
<1>13. CASE StopListener /\ KeepsRegistering
  <2>k. \A u \in Threads : At(u, "regRead")' => At(u, "regRead") /\ at'[u] = at[u]
    BY <1>13 DEF KeepsRegistering, At
  <2>1. mQueue' = <<>> /\ UNCHANGED srvLog
    BY <1>13 DEF StopListener
  <2>2. DOMAIN Given' \subseteq DOMAIN Given /\ \A k \in DOMAIN Given' : Given'[k] = Given[k]
    BY <2>1, StopForgets
  <2> QED
    BY <2>k, <2>2 DEF NothingGiven, BeingRegistered
<1>14. ASSUME NEW r \in Remotes, StartConnectRemote(r) PROVE NothingGiven'
  <2>k. \A u \in Threads : At(u, "regRead")' => At(u, "regRead") /\ at'[u] = at[u]
    BY <1>14, AtType DEF StartConnectRemote, GoFor, At
  <2>1. GivesNothing
    BY <1>14 DEF StartConnectRemote, GivesNothing, Given
  <2> QED
    BY <2>k, <2>1, NothingNewGiven
<1>15. CASE ServerHandles /\ KeepsRegistering
  <2>k. \A u \in Threads : At(u, "regRead")' => At(u, "regRead") /\ at'[u] = at[u]
    BY <1>15 DEF KeepsRegistering, At
  <2> DEFINE ctx == srvLog[srvDone + 1]
  <2>1. srvDone + 1 \in DOMAIN srvLog /\ ctx = Given[srvDone + 1] /\ srvDone + 1 \in DOMAIN Given
    BY <1>15, GivenIsSeq DEF ServerHandles, TypeOK
  <2> HIDE DEF ctx
  <2>2. UNCHANGED srvLog /\ IF ctx.type = "recv" THEN Enqueue(Send(ctx.id, ctx.msg)) ELSE UNCHANGED mQueue
    BY <1>15 DEF ServerHandles, ctx
  <2>3. CASE ctx.type # "recv"
    <3>1. GivesNothing
      BY <2>2, <2>3 DEF GivesNothing, Given
    <3> QED
      BY <2>k, <3>1, NothingNewGiven
  <2>4. CASE ctx.type = "recv"
    <3>1. IF mRunning THEN Gives(Send(ctx.id, ctx.msg)) ELSE GivesNothing
      BY <2>2, <2>4, EnqueueGives
    <3>2. \A u \in Threads : At(u, "regRead") => ctx.id # at[u].id
      BY <2>1, <2>4 DEF BeingRegistered, NothingGiven
    <3>3. Send(ctx.id, ctx.msg).id = ctx.id
      BY DEF Send
    <3> QED
      BY <2>k, <3>1, <3>2, <3>3, NothingNewGiven
  <2> QED
    BY <2>3, <2>4
<1>16. CASE UNCHANGED AllButFault
  BY <1>1, <1>16 DEF AllButFault, KeepsRegistering, netVars, connVars, drvVars, svcVars, srvVars
<1> QED
  <2>1. CASE ChangesRegistering /\ ~UNCHANGED AllButFault
    BY <2>1, Steps, <1>5, <1>6, <1>7, <1>8, <1>14
       DEF ChangesRegistering, RegisterMoves
  <2>2. CASE KeepsRegistering /\ ~UNCHANGED AllButFault
    BY <2>2, Steps, <1>1, <1>2, <1>3, <1>4, <1>5, <1>6, <1>7, <1>8, <1>9, <1>10, <1>11, <1>12,
       <1>13, <1>14, <1>15
       DEF DriverMoves, ConnectionMoves, RegisterMoves, ServiceMoves, AppMoves, FindReady,
           CallHandler, ReadData, PreRecv, RecvGetsNothing, CloseUnregistersRead, CloseSocket,
           WriteData, SendData, Unlock, FreeSocket, DeleteConnection, DropNextConnection,
           AllDropped, DriverStop, Dies, JoinDriver, Stop, StopReturns, EndStep, netVars,
           connVars, drvVars, svcVars, srvVars
  <2> QED
    BY <1>16, <2>1, <2>2, RegisteringIsKept


\* No closed connection is opened again.
NoneReopened == \A j \in DOMAIN conns' : j \in DOMAIN conns /\ (conns[j].fd = NoFd => conns'[j].fd = NoFd)

LEMMA DropStaysLast ==
  ASSUME TypeOK, DropIsLast, NoneReopened,
         \/ GivesNothing
         \/ \E p : Removes(p)
         \/ \E ctx : /\ Gives(ctx)
                     /\ ctx.type = "drop" /\ ctx.id \in DOMAIN conns' => conns'[ctx.id].fd = NoFd
                     /\ ctx.type = "recv" => ctx.id \in DOMAIN conns /\ conns[ctx.id].fd # NoFd
  PROVE  DropIsLast'
<1> DEFINE Shut == \A k \in DOMAIN Given : Given[k].type = "drop" /\ Given[k].id \in DOMAIN conns =>
                     conns[Given[k].id].fd = NoFd
           Over == \A k, l \in DOMAIN Given :
                     k < l /\ Given[k].type = "drop" /\ Given[l].type = "recv" => Given[k].id # Given[l].id
<1>a. Shut /\ Over
  BY DEF DropIsLast
<1>1. CASE GivesNothing
  <2>1. Shut'
    BY <1>a, <1>1 DEF NoneReopened, GivesNothing
  <2>2. Over'
    BY <1>a, <1>1 DEF GivesNothing
  <2> QED
    BY <2>1, <2>2 DEF DropIsLast
<1>2. ASSUME NEW p, Removes(p) PROVE DropIsLast'
  <2> DEFINE At1(k) == IF k < p THEN k ELSE k + 1
  <2>1. /\ \A k \in DOMAIN Given' : k \in Nat /\ At1(k) \in DOMAIN Given /\ Given'[k] = Given[At1(k)]
        /\ \A k, l \in DOMAIN Given' : k < l => At1(k) < At1(l)
    BY <1>2, GivenIsSeq DEF Removes
  <2> HIDE DEF At1
  <2>2. Shut'
    BY <1>a, <2>1 DEF NoneReopened
  <2>3. Over'
    BY <1>a, <2>1
  <2> QED
    BY <2>2, <2>3 DEF DropIsLast
<1>3. ASSUME NEW ctx, Gives(ctx),
             ctx.type = "drop" /\ ctx.id \in DOMAIN conns' => conns'[ctx.id].fd = NoFd,
             ctx.type = "recv" => ctx.id \in DOMAIN conns /\ conns[ctx.id].fd # NoFd
      PROVE  DropIsLast'
  <2> DEFINE n == Len(Given)
  <2>1. /\ \A k \in DOMAIN Given' : \/ k = n + 1 /\ Given'[k] = ctx
                                    \/ k \in DOMAIN Given /\ Given'[k] = Given[k]
        /\ \A k, l \in DOMAIN Given' : k < l => k \in DOMAIN Given
        /\ \A k \in DOMAIN Given : k # n + 1
    <3>1. /\ n \in Nat /\ DOMAIN Given = 1..n /\ DOMAIN Given' = 1..n + 1
          /\ Given'[n + 1] = ctx /\ \A k \in 1..n : Given'[k] = Given[k]
      BY <1>3, GivenIsSeq DEF Gives
    <3> HIDE DEF n
    <3> QED
      BY <3>1
  <2>2. Shut'
    BY <1>a, <1>3, <2>1 DEF NoneReopened
  <2>3. Over'
    BY <1>a, <1>3, <2>1
  <2> QED
    BY <2>2, <2>3 DEF DropIsLast
<1> QED
  BY <1>1, <1>2, <1>3

LEMMA DropIsLastKept ==
  ASSUME ControlInv, [Next]_vars
  PROVE  DropIsLast'
<1>a. TypeOK /\ LockOwner /\ ConnStates /\ Contexts /\ EnqIsHead /\ DropIsLast
  BY DEF ControlInv
<1> USE <1>a, NetServiceAssumption
    DEF svcVars, connVars, srvVars, drvVars, Threads
<1>1. CASE KeepsConns /\ UNCHANGED <<mQueue, srvLog>>
  <2>1. GivesNothing
    BY <1>1 DEF GivesNothing, Given
  <2>2. NoneReopened
    BY <1>1 DEF KeepsConns, NoneReopened
  <2> QED
    BY <2>1, <2>2, DropStaysLast
<1>2. CASE Accept /\ KeepsConns
  <2>n. NoneReopened
    BY <1>2 DEF KeepsConns, NoneReopened
  <2>1. Enqueue(Accepted(FreeFd)) /\ UNCHANGED srvLog
    BY <1>2 DEF Accept
  <2>2. Accepted(FreeFd).type = "accept"
    BY DEF Accepted
  <2>3. IF mRunning THEN Gives(Accepted(FreeFd)) ELSE GivesNothing
    BY <2>1, EnqueueGives
  <2> QED
    BY <2>n, <2>2, <2>3, DropStaysLast
<1>3. CASE Alive(Drv) /\ RecvData /\ KeepsConns
  <2>n. NoneReopened
    BY <1>3 DEF KeepsConns, NoneReopened
  <2>1. PICK k, buf : TakesOver(at[Drv].id, endOf[at[Drv].id], k, buf)
    BY <1>3, RecvDataDoes
  <2>2. GivesNothing \/ Gives(Recv(at[Drv].id, buf))
    BY <2>1 DEF TakesOver
  <2>3. at[Drv].id \in DOMAIN conns /\ conns[at[Drv].id].fd # NoFd
    BY <2>1 DEF TakesOver, IsOpen
  <2>4. Recv(at[Drv].id, buf).id = at[Drv].id /\ Recv(at[Drv].id, buf).type = "recv"
    BY DEF Recv
  <2> QED
    BY <2>n, <2>2, <2>3, <2>4, DropStaysLast
<1>4. ASSUME NEW t \in {Drv, Svc}, CloseUnregistersRead(t) PROVE DropIsLast'
  <2>0. PICK i, f : ReadUnregistered(t, i, f) /\ i = at[t].id /\ f = Conn(t).fd
    BY <1>4, CloseUnregistersReadDoes
  <2>n. NoneReopened
    BY <2>0 DEF ReadUnregistered, NoneReopened
  <2>1. GivesNothing
    BY <2>0 DEF ReadUnregistered, GivesNothing, Given
  <2> QED
    BY <2>n, <2>1, DropStaysLast
<1>5. ASSUME NEW t \in {Drv, Svc}, CloseSocket(t) PROVE DropIsLast'
  <2>0. PICK i, f, e : SocketClosed(t, i, f, e) /\ i = at[t].id /\ f = Conn(t).fd /\ e = endOf[i]
    BY <1>5, CloseSocketDoes
  <2>n. NoneReopened
    BY <2>0 DEF SocketClosed, NoneReopened
  <2>1. GivesNothing
    BY <2>0 DEF SocketClosed, GivesNothing, Given
  <2> QED
    BY <2>n, <2>1, DropStaysLast
<1>6. ASSUME NEW t \in {Drv, Svc}, EnqueueDrop(t), KeepsConns PROVE DropIsLast'
  <2>n. NoneReopened
    BY <1>6 DEF KeepsConns, NoneReopened
  <2>1. Enqueue(Drop(at[t].id)) /\ UNCHANGED srvLog
    BY <1>6 DEF EnqueueDrop, TellsOfDrop
  <2>2. IF mRunning THEN Gives(Drop(at[t].id)) ELSE GivesNothing
    BY <2>1, EnqueueGives
  <2>3. at[t].id \in DOMAIN conns /\ LockedOK(t, "drop", conns[at[t].id])
    BY <1>6 DEF EnqueueDrop, LockOwner, ConnStates, Locking, LockPcs, At, Conn
  <2>4. mRunning => conns'[at[t].id].fd = NoFd
    BY <1>6, <2>3 DEF LockedOK, IsShut, KeepsConns
  <2>5. Drop(at[t].id).id = at[t].id /\ Drop(at[t].id).type = "drop"
    BY DEF Drop
  <2> QED
    BY <2>n, <2>2, <2>4, <2>5, DropStaysLast
<1>7. ASSUME NEW t \in {Svc, App}, InsertConnection(t), fault' = "none" PROVE DropIsLast'
  <2>0. PICK i, f, e : Inserted(t, i, f, e) /\ i = at[t].id /\ f = at[t].fd /\ e = sock[f]
    BY <1>7, InsertDoes
  <2>1. /\ i \notin DOMAIN endOf /\ UNCHANGED Given /\ DOMAIN conns' = DOMAIN conns \cup {i}
        /\ \A j \in DOMAIN conns' : j # i => conns'[j] = conns[j]
    BY <2>0 DEF Inserted, Given
  <2>2. \A k \in DOMAIN Given : Given[k].type = "drop" => Given[k].id # i
    BY <2>1 DEF Contexts
  <2> QED
    BY <2>1, <2>2 DEF DropIsLast
<1>8. CASE AcceptConnection /\ KeepsConns
  <2>n. NoneReopened
    BY <1>8 DEF KeepsConns, NoneReopened
  <2>1. Removes(Len(srvLog) + 1)
    BY <1>8, TakeRemoves DEF AcceptConnection, Taking
  <2> QED
    BY <2>n, <2>1, DropStaysLast
<1>9. CASE ProcessRecv /\ KeepsConns
  <2>n. NoneReopened
    BY <1>9 DEF KeepsConns, NoneReopened
  <2>1. UNCHANGED Given
    BY <1>9, TakeGives DEF ProcessRecv, Taking
  <2> QED
    BY <2>n, <2>1 DEF DropIsLast, NoneReopened
<1>10. CASE SendMsg /\ KeepsConns
  <2>n. NoneReopened
    BY <1>10 DEF KeepsConns, NoneReopened
  <2>1. UNCHANGED mQueue => GivesNothing
    BY <1>10 DEF SendMsg, GivesNothing, Given
  <2>2. mQueue' = Tail(mQueue) => Removes(Len(srvLog) + 1)
    BY <1>10, TakeRemoves DEF SendMsg, Taking
  <2>3. UNCHANGED mQueue \/ mQueue' = Tail(mQueue)
    BY <1>10 DEF SendMsg
  <2> QED
    BY <2>n, <2>1, <2>2, <2>3, DropStaysLast
<1>11. CASE EnqueueMsg /\ KeepsConns
  <2>n. NoneReopened
    BY <1>11 DEF KeepsConns, NoneReopened
  <2>1. Removes(Len(srvLog) + 1)
    BY <1>11, TakeRemoves DEF EnqueueMsg, EnqIsHead
  <2> QED
    BY <2>n, <2>1, DropStaysLast
<1>12. CASE DropConnection /\ KeepsConns
  <2>n. NoneReopened
    BY <1>12 DEF KeepsConns, NoneReopened
  <2>1. UNCHANGED Given
    BY <1>12, TakeGives DEF DropConnection, Taking
  <2> QED
    BY <2>n, <2>1 DEF DropIsLast, NoneReopened
<1>13. CASE FreeSocket
  <2>0. PICK i : Freed(i) /\ i = at[Svc].id
    BY <1>13, FreeSocketDoes
  <2>n. NoneReopened
    BY <2>0 DEF Freed, NoneReopened
  <2>1. GivesNothing
    BY <2>0 DEF Freed, GivesNothing, Given
  <2> QED
    BY <2>n, <2>1, DropStaysLast
<1>14. CASE DeleteConnection
  <2>0. PICK i : Deleted(i) /\ i = at[Svc].id
    BY <1>14, DeleteDoes
  <2>n. NoneReopened
    BY <2>0 DEF Deleted, NoneReopened
  <2>1. GivesNothing
    BY <2>0 DEF Deleted, GivesNothing, Given
  <2> QED
    BY <2>n, <2>1, DropStaysLast
<1>15. CASE StopListener /\ KeepsConns
  <2>n. NoneReopened
    BY <1>15 DEF KeepsConns, NoneReopened
  <2>1. mQueue' = <<>> /\ UNCHANGED srvLog
    BY <1>15 DEF StopListener
  <2>2. DOMAIN Given' \subseteq DOMAIN Given /\ \A k \in DOMAIN Given' : Given'[k] = Given[k]
    BY <2>1, StopForgets
  <2> QED
    BY <2>n, <2>2 DEF DropIsLast, NoneReopened
<1>16. CASE ServerHandles /\ KeepsConns
  <2>n. NoneReopened
    BY <1>16 DEF KeepsConns, NoneReopened
  <2> DEFINE ctx == srvLog[srvDone + 1]
  <2>2. UNCHANGED srvLog /\ IF ctx.type = "recv" THEN Enqueue(Send(ctx.id, ctx.msg)) ELSE UNCHANGED mQueue
    BY <1>16 DEF ServerHandles
  <2> HIDE DEF ctx
  <2>3. CASE ctx.type # "recv"
    <3>1. GivesNothing
      BY <2>2, <2>3 DEF GivesNothing, Given
    <3> QED
      BY <2>n, <3>1, DropStaysLast
  <2>4. CASE ctx.type = "recv"
    <3>1. IF mRunning THEN Gives(Send(ctx.id, ctx.msg)) ELSE GivesNothing
      BY <2>2, <2>4, EnqueueGives
    <3>3. Send(ctx.id, ctx.msg).type = "send"
      BY DEF Send
    <3> QED
      BY <2>n, <3>1, <3>3, DropStaysLast
  <2> QED
    BY <2>3, <2>4
<1>17. CASE UNCHANGED AllButFault
  BY <1>1, <1>17 DEF AllButFault, KeepsConns, netVars, connVars, drvVars, svcVars, srvVars
<1> QED
  <2>1. CASE ChangesConns /\ ~UNCHANGED AllButFault
    BY <2>1, Steps, <1>4, <1>5, <1>7, <1>13, <1>14
       DEF ChangesConns, RegisterMoves
  <2>2. CASE KeepsConns /\ ~UNCHANGED AllButFault
    BY <2>2, Steps, <1>1, <1>2, <1>3, <1>4, <1>5, <1>6, <1>7, <1>8, <1>9, <1>10, <1>11, <1>12,
       <1>13, <1>14, <1>15, <1>16
       DEF DriverMoves, ConnectionMoves, RegisterMoves, ServiceMoves, AppMoves, FindReady,
           CallHandler, ReadData, PreRecv, RecvGetsNothing, WriteData, SendData, Unlock,
           RegistReadEvent, RegistEvent, Dies, RegistWriteEvent, DropNextConnection,
           AllDropped, DriverStop, JoinDriver, StartConnectRemote, Stop, StopReturns, EndStep,
           netVars, connVars, drvVars, svcVars, srvVars
  <2> QED
    BY <1>17, <2>1, <2>2, ConnsAreKept

LEMMA OverStaysOver ==
  ASSUME OpenOrOver, KeepsConns, UNCHANGED endOf, \A e \in Ends : link[e] = "over" => link'[e] = "over", TypeOK
  PROVE  OpenOrOver'
BY DEF OpenOrOver, KeepsConns, TypeOK, Range

LEMMA OpenOrOverKept ==
  ASSUME ControlInv, [Next]_vars
  PROVE  OpenOrOver'
<1>b. link \in [Ends -> LinkStates]
  BY DEF ControlInv, TypeOK, SocketTypeOK
<1> USE <1>b
<1>a. TypeOK /\ LockOwner /\ OpenOrOver
  BY DEF ControlInv
<1> USE <1>a, NetServiceAssumption
    DEF svcVars, connVars, srvVars, drvVars, Threads
<1>1. CASE KeepsConns /\ UNCHANGED <<link, endOf>>
  <2> QED
    BY <1>1, OverStaysOver
<1>2. CASE Alive(Drv) /\ PreRecv /\ KeepsConns
  <2>1. UNCHANGED endOf /\ \A d \in Ends : link[d] = "over" => link'[d] = "over"
    BY <1>2 DEF PreRecv, RecvFails, ErrorReported
  <2> QED
    BY <1>2, <2>1, OverStaysOver
<1>3. CASE Alive(Drv) /\ RecvGetsNothing /\ KeepsConns
  <2>1. UNCHANGED endOf /\ \A d \in Ends : link[d] = "over" => link'[d] = "over"
    BY <1>3 DEF RecvGetsNothing, RecvFails, ErrorReported
  <2> QED
    BY <1>3, <2>1, OverStaysOver
<1>4. ASSUME NEW t \in {Drv, Svc}, CloseUnregistersRead(t) PROVE OpenOrOver'
  <2>0. PICK i, f : ReadUnregistered(t, i, f) /\ i = at[t].id /\ f = Conn(t).fd
    BY <1>4, CloseUnregistersReadDoes
  <2>1. /\ DOMAIN conns' = DOMAIN conns /\ UNCHANGED <<link, endOf>>
        /\ \A j \in DOMAIN conns : conns'[j].fd = conns[j].fd
    BY <2>0 DEF ReadUnregistered
  <2> QED
    BY <2>1 DEF OpenOrOver
<1>5. ASSUME NEW t \in {Drv, Svc}, CloseSocket(t) PROVE OpenOrOver'
  <2>0. PICK i, f, e : SocketClosed(t, i, f, e) /\ i = at[t].id /\ f = Conn(t).fd /\ e = endOf[i]
    BY <1>5, CloseSocketDoes
  <2>1. /\ link' = [link EXCEPT ![e] = "over"] /\ e \in Ends /\ e = endOf[i] /\ UNCHANGED endOf
        /\ DOMAIN conns' = DOMAIN conns /\ \A j \in DOMAIN conns : j # i => conns'[j] = conns[j]
    BY <2>0 DEF SocketClosed
  <2> QED
    BY <2>1 DEF OpenOrOver
<1>6. ASSUME NEW t \in {Drv, Svc}, SendData(t), KeepsConns PROVE OpenOrOver'
  <2>1. UNCHANGED endOf /\ \A d \in Ends : link[d] = "over" => link'[d] = "over"
    BY <1>6 DEF SendData, Sent, SendFails, ErrorReported
  <2> QED
    BY <1>6, <2>1, OverStaysOver
<1>7. ASSUME NEW t \in {Svc, App}, InsertConnection(t), fault' = "none" PROVE OpenOrOver'
  <2>0. PICK i, f, e : Inserted(t, i, f, e) /\ i = at[t].id /\ f = at[t].fd /\ e = sock[f]
    BY <1>7, InsertDoes
  <2>1. /\ DOMAIN conns' = DOMAIN conns \cup {i} /\ UNCHANGED link /\ conns'[i].fd # NoFd
        /\ \A j \in DOMAIN conns : conns'[j] = conns[j]
        /\ endOf' = [j \in DOMAIN endOf \cup {i} |-> IF j = i THEN e ELSE endOf[j]]
    BY <2>0 DEF Inserted, NewConnection
  <2> QED
    BY <2>1 DEF OpenOrOver
<1>8. CASE FreeSocket
  <2>0. PICK i : Freed(i) /\ i = at[Svc].id
    BY <1>8, FreeSocketDoes
  <2>1. /\ DOMAIN conns' = DOMAIN conns /\ UNCHANGED <<link, endOf>>
        /\ \A j \in DOMAIN conns : conns'[j].fd = conns[j].fd
    BY <2>0 DEF Freed
  <2> QED
    BY <2>1 DEF OpenOrOver
<1>9. CASE DeleteConnection
  <2>0. PICK i : Deleted(i) /\ i = at[Svc].id
    BY <1>9, DeleteDoes
  <2>1. /\ DOMAIN conns' = DOMAIN conns \ {i} /\ UNCHANGED <<link, endOf>> /\ conns[i].fd = NoFd
        /\ \A j \in DOMAIN conns' : conns'[j] = conns[j]
    BY <2>0 DEF Deleted, IsShut
  <2> QED
    BY <2>1 DEF OpenOrOver
<1>10. CASE StopListener /\ KeepsConns
  <2>1. UNCHANGED endOf /\ \A d \in Ends : link[d] = "over" => link'[d] = "over"
    BY <1>10 DEF StopListener
  <2> QED
    BY <1>10, <2>1, OverStaysOver
<1>11. ASSUME NEW r \in Remotes, StartConnectRemote(r), KeepsConns PROVE OpenOrOver'
  <2>1. UNCHANGED endOf /\ \A d \in Ends : link[d] = "over" => link'[d] = "over"
    BY <1>11 DEF StartConnectRemote, netVars
  <2> QED
    BY <1>11, <2>1, OverStaysOver
<1>12. ASSUME NEW e \in Ends, EndStep(e), KeepsConns PROVE OpenOrOver'
  <2>1. EndSteps(e) => \A d \in Ends : link[d] = "over" => link'[d] = "over"
    BY DEF EndSteps, PeerConnects, EndSends, EndReads, EndCloses, EndResets
  <2> QED
    BY <1>12, <2>1, OverStaysOver DEF EndStep
<1>13. CASE UNCHANGED AllButFault
  BY <1>1, <1>13 DEF AllButFault, KeepsConns, netVars, connVars, drvVars, svcVars, srvVars
<1> QED
  <2>1. CASE ChangesConns /\ ~UNCHANGED AllButFault
    BY <2>1, Steps, <1>4, <1>5, <1>7, <1>8, <1>9
       DEF ChangesConns, RegisterMoves
  <2>2. CASE KeepsConns /\ ~UNCHANGED AllButFault
    BY <2>2, Steps, <1>1, <1>2, <1>3, <1>4, <1>5, <1>6, <1>7, <1>8, <1>9, <1>10, <1>11, <1>12
       DEF DriverMoves, ConnectionMoves, RegisterMoves, ServiceMoves, AppMoves, Accept,
           FindReady, CallHandler, ReadData, RecvData, EnqueueDrop, WriteData, Unlock,
           RegistReadEvent, RegistEvent, Dies, RegistWriteEvent, AcceptConnection, ProcessRecv,
           SendMsg, EnqueueMsg, DropConnection, DropNextConnection, AllDropped, DriverStop,
           JoinDriver, Stop, StopReturns, ServerHandles, netVars, connVars, drvVars, svcVars,
           srvVars
  <2> QED
    BY <1>13, <2>1, <2>2, ConnsAreKept


\* How the process may end.
InsertFails(t) == At(t, "insert") /\ mMaxID = at[t].id /\ at[t].id \in DOMAIN conns
RegistFails(t, kind) ==
  At(t, IF kind = "read" THEN "regRead" ELSE "regWrite") /\ Info(at[t].fd)[kind] # NoId

LEMMA Deaths ==
  ASSUME [Next]_vars, UNCHANGED AllButFault, ~UNCHANGED fault
  PROVE  \/ fault' \in {"data race", "use after free", "overrun", "SIGPIPE"}
         \/ fault' = "unregister" /\ \E t \in {Drv, Svc} : UnRegistFails(t)
         \/ fault' = "assert id" /\ \E t \in {Svc, App} : SameId(t)
         \/ \E t \in {Svc, App} : InsertFails(t) \/ \E kind \in {"read", "write"} : RegistFails(t, kind)
<1> DEFINE Dead == \/ fault' \in {"data race", "use after free", "overrun", "SIGPIPE"}
                   \/ fault' = "unregister" /\ \E t \in {Drv, Svc} : UnRegistFails(t)
                   \/ fault' = "assert id" /\ \E t \in {Svc, App} : SameId(t)
                   \/ \E t \in {Svc, App} : InsertFails(t) \/ \E kind \in {"read", "write"} : RegistFails(t, kind)
<1>1. Next
  BY DEF vars, AllButFault
<1>2. ASSUME NEW t \in {Drv, Svc}, Connections(t) PROVE Dead
  <2>1. UnRegistFails(t) => fault' = "unregister"
    BY DEF UnRegistFails, Dies
  <2>2. SendKilled(t) => fault' = "SIGPIPE"
    BY DEF SendKilled, Dies
  <2> QED
    BY <1>2, <2>1, <2>2 DEF Connections, CloseUnregistersRead, CloseSocket, EnqueueDrop, WriteData, SendData
<1>3. ASSUME NEW t \in {Svc, App}, Registers(t) PROVE Dead
  <2>1. SameId(t) => fault' \in {"assert id", "data race"}
    BY DEF SameId, Dies
  <2>2. InsertConnection(t) => InsertFails(t)
    BY DEF InsertConnection, InsertFails
  <2>3. RegistReadEvent(t) => RegistFails(t, "read")
    BY DEF RegistReadEvent, RegistEvent, RegistFails
  <2>4. RegistWriteEvent(t) => RegistFails(t, "write")
    BY DEF RegistWriteEvent, RegistEvent, RegistFails
  <2> QED
    BY <1>3, <2>1, <2>2, <2>3, <2>4 DEF Registers
<1>4. ASSUME DriverStep PROVE Dead
  <2>1. UseAfterFree => fault' = "use after free"
    BY DEF UseAfterFree, Dies
  <2>2. LengthOverruns => fault' = "overrun"
    BY DEF LengthOverruns, Dies
  <2> QED
    BY <1>2, <1>4, <2>1, <2>2
       DEF DriverStep, Accept, FindReady, CallHandler, Unlock, ReadData, PreRecv, RecvData, RecvGetsNothing
<1>5. ASSUME ServiceStep PROVE Dead
  <2>1. DriverStop => Dead
    BY DEF DriverStop, Dies
  <2>2. AcceptConnection \/ ProcessRecv \/ SendMsg \/ EnqueueMsg \/ Unlock(Svc) => Dead
    BY DEF AcceptConnection, ProcessRecv, SendMsg, EnqueueMsg, Unlock
  <2>3. DropConnection \/ FreeSocket \/ DeleteConnection \/ StopListener => Dead
    BY DEF DropConnection, FreeSocket, DeleteConnection, StopListener
  <2>4. DropNextConnection \/ AllDropped \/ JoinDriver => Dead
    BY DEF DropNextConnection, AllDropped, JoinDriver
  <2> QED
    BY <1>2, <1>3, <1>5, <2>1, <2>2, <2>3, <2>4 DEF ServiceStep
<1>6. ASSUME AppStep PROVE Dead
  BY <1>3, <1>6 DEF AppStep, StartConnectRemote, Stop, StopReturns
<1>7. ServerStep \/ (\E e \in Ends : EndStep(e)) => Dead
  BY DEF ServerStep, ServerHandles, ServerOverruns, Dies, EndStep
<1>8. DataRace => Dead
  BY DEF DataRace, Dies
<1> QED
  BY <1>1, <1>4, <1>5, <1>6, <1>7, <1>8 DEF Next, Step

\* The asserts hold: whoever is about to register, or to insert a connection whose
\* id nobody else took, finds nothing there.
LEMMA NothingToAssert ==
  ASSUME ControlInv, NEW t \in {Svc, App}
  PROVE  ~InsertFails(t) /\ \A kind \in {"read", "write"} : ~RegistFails(t, kind)
<1>a. TypeOK /\ IdsOfConns /\ Sockets /\ EventsOfLiveConns /\ BeingRegistered /\ t \in Threads
  BY DEF ControlInv, Threads
<1>1. ~InsertFails(t)
  BY <1>a DEF InsertFails, IdsOfConns, TypeOK
<1>2. ASSUME NEW kind \in {"read", "write"}, RegistFails(t, kind) PROVE FALSE
  <2> DEFINE i == at[t].id
             f == at[t].fd
             j == events[f][kind]
  <2>1. Registering(t) /\ (kind = "read" => At(t, "regRead"))
    BY <1>2 DEF RegistFails, Registering, At
  <2>2. i \in DOMAIN conns /\ f # NoFd /\ conns[i].fd = f
    BY <1>a, <2>1 DEF BeingRegistered, RegisteringIsOpen, Conn
  <2>3. f \in DOMAIN events /\ j # NoId
    BY <1>2 DEF RegistFails, Info
  <2>4. j \in DOMAIN conns /\ conns[j].fd = f
    BY <1>a, <2>3 DEF EventsOfLiveConns
  <2>5. j = i
    BY <1>a, <2>2, <2>4, OneOwner
  <2> QED
    BY <1>a, <2>1, <2>3, <2>5 DEF BeingRegistered, ReadIsNew, WriteIsNew
<1> QED
  BY <1>1, <1>2

\* A connection that is being closed and has no event is half registered.
LEMMA OnlyHalfRegistered ==
  ASSUME ControlInv, NEW t \in {Drv, Svc}, UnRegistFails(t)
  PROVE  \E u \in Threads : /\ at[t].pc \in {"unregRead", "unregWrite"}
                            /\ At(u, "regWrite") /\ at[u].id = at[t].id
<1>a. TypeOK /\ LockOwner /\ ConnStates /\ OpenAreRegistered /\ NobodyElse /\ t \in Threads
  BY DEF ControlInv, Threads, Events, BeingRegistered
<1> DEFINE i == at[t].id
<1>1. at[t].pc \in {"unregRead", "unregWrite"} /\ Locking(t) /\ Conn(t).fd \notin DOMAIN events
  BY DEF UnRegistFails, At, Locking, LockPcs
<1>2. i \in DOMAIN conns /\ LockedOK(t, at[t].pc, conns[i]) /\ Conn(t) = conns[i]
  BY <1>a, <1>1 DEF LockOwner, ConnStates, Conn
<1>3. conns[i].fd # NoFd
  BY <1>1, <1>2 DEF LockedOK
<1>4. WriteIsRegistered(i)
  BY <1>a, <1>2, <1>3 DEF OpenAreRegistered
<1>5. PICK u \in Threads : Registering(u) /\ at[u].id = i
  BY <1>1, <1>2, <1>4 DEF WriteIsRegistered, IsRegistered
<1>6. ~At(u, "regRead")
  BY <1>a, <1>1, <1>5 DEF NobodyElse, At
<1> QED
  BY <1>1, <1>5, <1>6 DEF Registering, At

LEMMA FaultsKept ==
  ASSUME ControlInv, [Next]_vars
  PROVE  OnlySharedIdsFail' /\ OnlyHalfRegisteredFails'
<1>a. OnlySharedIdsFail /\ OnlyHalfRegisteredFails
  BY DEF ControlInv
<1>1. CASE ~UNCHANGED AllButFault
  <2>1. fault' = "none"
    BY <1>1, Steps
  <2> QED
    BY <2>1 DEF OnlySharedIdsFail, OnlyHalfRegisteredFails
<1>2. CASE UNCHANGED AllButFault /\ UNCHANGED fault
  BY <1>a, <1>2 DEF AllButFault, connVars, OnlySharedIdsFail, OnlyHalfRegisteredFails, At
<1>3. CASE UNCHANGED AllButFault /\ ~UNCHANGED fault
  <2>1. \/ fault' \in {"data race", "use after free", "overrun", "SIGPIPE"}
        \/ fault' = "unregister" /\ \E t \in {Drv, Svc} : UnRegistFails(t)
        \/ fault' = "assert id" /\ \E t \in {Svc, App} : SameId(t)
    BY <1>3, Deaths, NothingToAssert
  <2>2. OnlySharedIdsFail'
    <3>1. fault' # "assert event"
      BY <2>1
    <3>2. ASSUME NEW t \in {Svc, App}, SameId(t) PROVE At(t, "insert")' /\ at'[t].id < mMaxID'
      <4>1. At(t, "insert") /\ mMaxID # at[t].id /\ t \in Threads
        BY <3>2 DEF SameId, Threads
      <4>2. at[t].id \in 0..mMaxID /\ mMaxID \in Nat
        BY <4>1 DEF ControlInv, IdsOfThreads, TypeOK
      <4>3. UNCHANGED <<at, mMaxID>>
        BY <1>3 DEF AllButFault, connVars
      <4> QED
        BY <4>1, <4>2, <4>3 DEF At
    <3> QED
      BY <2>1, <3>1, <3>2 DEF OnlySharedIdsFail
  <2>3. ASSUME fault' = "unregister"
        PROVE  \E t, u \in Threads : /\ at'[t].pc \in {"unregRead", "unregWrite"}
                                     /\ At(u, "regWrite")' /\ at'[u].id = at'[t].id
    <3>1. PICK t \in {Drv, Svc} : UnRegistFails(t)
      BY <2>1, <2>3
    <3>2. \E u \in Threads : /\ at[t].pc \in {"unregRead", "unregWrite"}
                             /\ At(u, "regWrite") /\ at[u].id = at[t].id
      BY <3>1, OnlyHalfRegistered
    <3>3. UNCHANGED at /\ t \in Threads
      BY <1>3 DEF AllButFault, Threads
    <3> QED
      BY <3>2, <3>3 DEF At
  <2> QED
    BY <2>2, <2>3 DEF OnlyHalfRegisteredFails
<1> QED
  BY <1>1, <1>2, <1>3

-----------------------------------------------------------------------------
\* Types, by what they are the types of.
Places == [pc : Pcs, id : Nat \cup {NoId}, fd : Fds \cup {NoFd}, then : {"drop", "unlock", "free"}]
TypedConns  == DOMAIN conns \subseteq Nat /\ \A i \in DOMAIN conns : conns[i] \in Connection
TypedIds    == mMaxID \in Nat /\ DOMAIN endOf \subseteq Nat /\ Range(endOf) \subseteq Ends
TypedEvents == EventsType /\ listening \in BOOLEAN
TypedQueues == /\ mQueue \in Seq(Context) /\ mRunning \in BOOLEAN
               /\ srvLog \in Seq(Context) /\ srvDone \in 0..Len(srvLog)
TypedPlaces == at \in [Threads -> Places]

LEMMA PartsOfTypeOK ==
  TypeOK <=> /\ SocketTypeOK /\ TypedConns /\ TypedIds /\ TypedEvents /\ TypedQueues /\ TypedPlaces
             /\ active \subseteq (DOMAIN events) \X {"read", "write"} /\ fault \in Faults
BY DEF TypeOK, TypedConns, TypedIds, TypedEvents, EventsType, Kinds, TypedQueues, TypedPlaces, Places

LEMMA EndsAreTyped ==
  ASSUME SocketTypeOK, NEW e \in Ends, EndSteps(e)
  PROVE  SocketTypeOK'
<1> USE DEF SocketTypeOK
<1>1. CASE PeerConnects(e)
  BY <1>1 DEF PeerConnects, LinkStates
<1>2. CASE EndSends(e)
  <2>1. PICK part \in {Parts[NextPart(e)]} \cup (IF NextPart(e) = 2 THEN Wrong ELSE {}) :
          wire' = [wire EXCEPT ![e] = Append(@, [from |-> e, n |-> NextNumber(e), part |-> part])]
    BY <1>2 DEF EndSends
  <2>2. NextPart(e) \in 1..4 /\ NextNumber(e) \in Nat \ {0}
    <3>1. sent[e] \in Nat
      OBVIOUS
    <3>2. \A n \in Nat : (n % 4) + 1 \in 1..4 /\ (n \div 4) + 1 \in Nat \ {0}
      OBVIOUS
    <3> QED
      BY <3>1, <3>2 DEF NextPart, NextNumber
  <2>3. part \in Range(Parts) \cup {"short", "wraps"}
    BY <2>1, <2>2, TcpSocketAssumption DEF Range, Parts
  <2>4. [from |-> e, n |-> NextNumber(e), part |-> part] \in Unit
    BY <2>2, <2>3 DEF Unit
  <2> QED
    BY <1>2, <2>1, <2>4 DEF EndSends
<1>3. CASE EndReads(e)
  <2>1. Head(unread[e]) \in Message /\ Tail(unread[e]) \in Seq(Message)
    BY <1>3 DEF EndReads
  <2> QED
    BY <1>3, <2>1 DEF EndReads
<1>4. CASE EndCloses(e)
  BY <1>4 DEF EndCloses, LinkStates
<1>5. CASE EndResets(e)
  <2>1. PICK k \in 0..Len(wire[e]) : wire' = [wire EXCEPT ![e] = SubSeq(@, 1, k)]
    BY <1>5 DEF EndResets
  <2>2. SubSeq(wire[e], 1, k) \in Seq(Unit)
    BY <2>1
  <2> QED
    BY <1>5, <2>1, <2>2 DEF EndResets, LinkStates
<1> QED
  BY <1>1, <1>2, <1>3, <1>4, <1>5 DEF EndSteps

LEMMA SocketTypeKept ==
  ASSUME ControlInv, [Next]_vars
  PROVE  SocketTypeOK'
<1>b. SocketTypeOK
  BY DEF ControlInv, TypeOK
<1> USE <1>b DEF SocketTypeOK
<1>a. TypeOK /\ LockOwner /\ ConnStates
  BY DEF ControlInv
<1> USE <1>a, NetServiceAssumption
    DEF svcVars, connVars, srvVars, drvVars, netVars, Threads
<1>1. CASE UNCHANGED netVars
  BY <1>1
<1>2. CASE Accept
  <2>1. FreeFd \in Fds
    BY <1>2, FreeFdIsFree DEF Accept
  <2> HIDE DEF FreeFd
  <2>2. Head(backlog) \in Ends /\ Tail(backlog) \in Seq(Ends)
    BY <1>2 DEF Accept
  <2> QED
    BY <1>2, <2>1, <2>2 DEF Accept
<1>3. CASE FindReady
  BY <1>3
     DEF FindReady
<1>4. CASE CallHandler
  BY <1>4
     DEF CallHandler
<1>5. CASE Alive(Drv) /\ ReadData
  BY <1>5
     DEF ReadData, MutexIsFree, Locked, Alive
<1>6. CASE Alive(Drv) /\ PreRecv
  <2>e. End(Drv) \in Ends
    BY <1>6, EndIsEnd DEF Alive, ControlInv
  <2>1. CASE Received(End(Drv), 1) /\ UNCHANGED link
    <3>1. SubSeq(wire[End(Drv)], 2, Len(wire[End(Drv)])) \in Seq(Unit)
      BY <2>e
    <3> QED
      BY <1>6, <2>1, <2>e, <3>1 DEF PreRecv, Received
  <2>2. CASE UNCHANGED wire /\ (UNCHANGED link \/ ErrorReported(End(Drv)))
    BY <1>6, <2>2, <2>e DEF PreRecv, ErrorReported, LinkStates
  <2> QED
    BY <1>6, <2>1, <2>2 DEF PreRecv
<1>7. CASE Alive(Drv) /\ RecvData
  <2>1. PICK k, buf, e : TakesOver(at[Drv].id, e, k, buf)
    BY <1>7, RecvDataDoes
  <2>2. /\ e \in Ends /\ k \in 1..Len(wire[e])
        /\ wire' = [wire EXCEPT ![e] = SubSeq(wire[e], k + 1, Len(wire[e]))]
        /\ UNCHANGED <<sock, backlog, link, unread, sent, got>>
    BY <2>1 DEF TakesOver
  <2>3. UNCHANGED budget
    BY <1>7 DEF RecvData
  <2>4. SubSeq(wire[e], k + 1, Len(wire[e])) \in Seq(Unit)
    BY <2>2
  <2> QED
    BY <2>2, <2>3, <2>4
<1>8. CASE Alive(Drv) /\ RecvGetsNothing
  <2>e. End(Drv) \in Ends
    BY <1>8, EndIsEnd DEF Alive, ControlInv
  <2>1. UNCHANGED link \/ ErrorReported(End(Drv))
    BY <1>8 DEF RecvGetsNothing
  <2> QED
    BY <1>8, <2>e, <2>1 DEF RecvGetsNothing, ErrorReported, LinkStates
<1>9. ASSUME NEW t \in {Drv, Svc}, CloseUnregistersRead(t) PROVE SocketTypeOK'
  BY <1>9
     DEF CloseUnregistersRead
<1>10. ASSUME NEW t \in {Drv, Svc}, CloseSocket(t) PROVE SocketTypeOK'
  <2>0. PICK i, f, e : SocketClosed(t, i, f, e) /\ i = at[t].id /\ f = Conn(t).fd /\ e = endOf[i]
    BY <1>10, CloseSocketDoes
  <2>1. PICK k \in 0..Len(unread[e]) : unread' = [unread EXCEPT ![e] = SubSeq(unread[e], 1, k)]
    BY <2>0 DEF SocketClosed
  <2>2. SubSeq(unread[e], 1, k) \in Seq(Message) /\ e \in Ends
    BY <2>0, <2>1 DEF SocketClosed
  <2> QED
    BY <2>0, <2>1, <2>2 DEF SocketClosed, LinkStates
<1>11. ASSUME NEW t \in {Drv, Svc}, EnqueueDrop(t) PROVE SocketTypeOK'
  BY <1>11
     DEF EnqueueDrop
<1>12. ASSUME NEW t \in {Drv, Svc}, t = Drv => Alive(Drv), WriteData(t) PROVE SocketTypeOK'
  BY <1>12
     DEF WriteData, MutexIsFree, Locked
<1>13. ASSUME NEW t \in {Drv, Svc}, SendData(t) PROVE SocketTypeOK'
  <2>1. at[t].id \in DOMAIN conns /\ Conn(t) = conns[at[t].id] /\ Conn(t).sendq # <<>>
    BY <1>13 DEF SendData, LockOwner, ConnStates, LockedOK, Locking, LockPcs, At, Conn
  <2>2. End(t) \in Ends /\ Head(Conn(t).sendq) \in Message
    BY <2>1, ConnType, EndIsEnd DEF ControlInv
  <2>3. \/ UNCHANGED link /\ unread' = [unread EXCEPT ![End(t)] = Append(@, Head(Conn(t).sendq))]
        \/ UNCHANGED unread /\ link' = [link EXCEPT ![End(t)] = "dead"]
    BY <1>13 DEF SendData, Sent, ErrorReported
  <2>4. UNCHANGED <<budget, sock, backlog, wire, sent, got>>
    BY <1>13 DEF SendData
  <2>5. CASE UNCHANGED link /\ unread' = [unread EXCEPT ![End(t)] = Append(@, Head(Conn(t).sendq))]
    BY <2>2, <2>4, <2>5
  <2>6. CASE UNCHANGED unread /\ link' = [link EXCEPT ![End(t)] = "dead"]
    BY <2>2, <2>4, <2>6 DEF LinkStates
  <2> QED
    BY <2>3, <2>5, <2>6
<1>14. ASSUME NEW t \in {Drv, Svc}, Unlock(t) PROVE SocketTypeOK'
  BY <1>14
     DEF Unlock, Unlocked
<1>15. ASSUME NEW t \in {Svc, App}, InsertConnection(t), fault' = "none" PROVE SocketTypeOK'
  BY <1>15
     DEF InsertConnection, Dies
<1>16. ASSUME NEW t \in {Svc, App}, RegistReadEvent(t), fault' = "none" PROVE SocketTypeOK'
  BY <1>16
     DEF RegistReadEvent, RegistEvent, Dies
<1>17. ASSUME NEW t \in {Svc, App}, RegistWriteEvent(t), fault' = "none" PROVE SocketTypeOK'
  BY <1>17
     DEF RegistWriteEvent, RegistEvent, Dies
<1>18. CASE AcceptConnection
  BY <1>18
     DEF AcceptConnection, Taking
<1>19. CASE ProcessRecv
  BY <1>19
     DEF ProcessRecv, Taking
<1>20. CASE SendMsg
  BY <1>20
     DEF SendMsg, Taking
<1>21. CASE EnqueueMsg
  BY <1>21
     DEF EnqueueMsg, ThenWrites, MutexIsFree
<1>22. CASE DropConnection
  BY <1>22
     DEF DropConnection, Taking
<1>23. CASE FreeSocket
  <2>1. Freed(at[Svc].id)
    BY <1>23, FreeSocketDoes
  <2> QED
    BY <2>1 DEF Freed
<1>24. CASE DeleteConnection
  BY <1>24
     DEF DeleteConnection, FreesLocked, MutexIsFree, Restrict
<1>25. CASE StopListener
  BY <1>25
     DEF StopListener, LinkStates
<1>26. CASE DropNextConnection
  BY <1>26
     DEF DropNextConnection, Locked
<1>27. CASE AllDropped
  BY <1>27
     DEF AllDropped
<1>28. CASE DriverStop /\ fault' = "none"
  BY <1>28
     DEF DriverStop, Dies
<1>29. CASE JoinDriver
  BY <1>29
     DEF JoinDriver
<1>30. ASSUME NEW r \in Remotes, StartConnectRemote(r) PROVE SocketTypeOK'
  <2>1. FreeFd \in Fds
    BY <1>30, FreeFdIsFree DEF StartConnectRemote
  <2> HIDE DEF FreeFd
  <2> QED
    BY <1>30, <2>1 DEF StartConnectRemote, LinkStates, Ends
<1>31. CASE Stop
  BY <1>31
     DEF Stop
<1>32. CASE StopReturns
  BY <1>32
     DEF StopReturns
<1>33. CASE ServerHandles
  BY <1>33
     DEF ServerHandles
<1>34. ASSUME NEW e \in Ends, EndStep(e) PROVE SocketTypeOK'
  BY <1>34, EndsAreTyped DEF EndStep, SocketTypeOK
<1>35. CASE UNCHANGED AllButFault
  BY <1>1, <1>35 DEF AllButFault, netVars, connVars, drvVars, svcVars, srvVars
<1> QED
  BY Steps, <1>1, <1>2, <1>3, <1>4, <1>5, <1>6, <1>7, <1>8, <1>9, <1>10, <1>11, <1>12, <1>13,
     <1>14, <1>15, <1>16, <1>17, <1>18, <1>19, <1>20, <1>21, <1>22, <1>23, <1>24, <1>25, <1>26,
     <1>27, <1>28, <1>29, <1>30, <1>31, <1>32, <1>33, <1>34, <1>35
     DEF DriverMoves, ConnectionMoves, RegisterMoves, ServiceMoves, AppMoves, netVars,
         connVars, drvVars, svcVars, srvVars

LEMMA EditsAreTyped ==
  ASSUME NEW c \in Connection
  PROVE  /\ \A b \in Seq(Unit) : [c EXCEPT !.buf = b] \in Connection
         /\ \A q \in Seq(Message) : [c EXCEPT !.sendq = q] \in Connection
         /\ [c EXCEPT !.ok = FALSE] \in Connection /\ [c EXCEPT !.closed = TRUE] \in Connection
         /\ \A t \in Threads : Locked(c, t) \in Connection
         /\ Unlocked(c) \in Connection
         /\ [c EXCEPT !.freed = TRUE, !.fd = NoFd] \in Connection
         /\ [c EXCEPT !.fd = NoFd, !.ok = FALSE, !.sendq = <<>>] \in Connection
         /\ c.buf \in Seq(Unit) /\ c.sendq \in Seq(Message)
<1> USE DEF Connection
<1>1. \A b \in Seq(Unit) : [c EXCEPT !.buf = b] \in Connection
  OBVIOUS
<1>2. \A q \in Seq(Message) : [c EXCEPT !.sendq = q] \in Connection
  OBVIOUS
<1>3. [c EXCEPT !.ok = FALSE] \in Connection /\ [c EXCEPT !.closed = TRUE] \in Connection
  OBVIOUS
<1>4. (\A t \in Threads : Locked(c, t) \in Connection) /\ Unlocked(c) \in Connection
  BY DEF Locked, Unlocked
<1>5. [c EXCEPT !.freed = TRUE, !.fd = NoFd] \in Connection
  OBVIOUS
<1>6. [c EXCEPT !.fd = NoFd, !.ok = FALSE, !.sendq = <<>>] \in Connection
  <2>1. ASSUME NEW d \in Connection PROVE [d EXCEPT !.fd = NoFd] \in Connection
    OBVIOUS
  <2>2. [c EXCEPT !.ok = FALSE, !.sendq = <<>>] \in Connection
    <3>1. <<>> \in Seq(Message)
      OBVIOUS
    <3> QED
      BY <3>1
  <2>3. [c EXCEPT !.fd = NoFd, !.ok = FALSE, !.sendq = <<>>] = [[c EXCEPT !.ok = FALSE, !.sendq = <<>>] EXCEPT !.fd = NoFd]
    OBVIOUS
  <2> QED
    BY <2>1, <2>2, <2>3
<1>7. c.buf \in Seq(Unit) /\ c.sendq \in Seq(Message)
  OBVIOUS
<1> QED
  BY <1>1, <1>2, <1>3, <1>4, <1>5, <1>6, <1>7

LEMMA OneTyped ==
  ASSUME TypedConns, NEW i \in DOMAIN conns, NEW c \in Connection, conns' = [conns EXCEPT ![i] = c]
  PROVE  TypedConns'
BY DEF TypedConns

LEMMA ConnsAreTyped ==
  ASSUME ControlInv, [Next]_vars
  PROVE  TypedConns'
<1>a. TypeOK /\ LockOwner /\ ConnStates /\ EnqIsHead /\ Contexts /\ TypedConns
  BY PartsOfTypeOK DEF ControlInv
<1> USE <1>a, NetServiceAssumption
    DEF svcVars, connVars, srvVars, drvVars, Threads
<1>1. CASE UNCHANGED conns
  BY <1>1
     DEF TypedConns
<1>2. CASE Alive(Drv) /\ ReadData
  <2>i. at[Drv].id \in DOMAIN conns /\ Conn(Drv) = conns[at[Drv].id] /\ Conn(Drv) \in Connection
    BY <1>2 DEF ReadData, Alive, LockOwner, Locking, LockPcs, At, Conn, TypedConns
  <2>1. Locked(Conn(Drv), Drv) \in Connection
    BY <2>i, EditsAreTyped
  <2> QED
    BY <1>2, <2>i, <2>1, OneTyped DEF ReadData, SetConn
<1>3. CASE Alive(Drv) /\ PreRecv
  <2>i. at[Drv].id \in DOMAIN conns /\ Conn(Drv) = conns[at[Drv].id] /\ Conn(Drv) \in Connection
    BY <1>3 DEF PreRecv, LockOwner, Locking, LockPcs, At, Conn, TypedConns
  <2>e. End(Drv) \in Ends /\ wire[End(Drv)] \in Seq(Unit)
    BY <1>3, <2>i, EndIsEnd DEF Alive, ControlInv, TypeOK, SocketTypeOK
  <2>1. ASSUME NEW unit, unit \in ReadAs(Conn(Drv).buf, Head(wire[End(Drv)])), RecvTakes(End(Drv), 1),
               SetConn(Drv, [Conn(Drv) EXCEPT !.buf = Append(@, unit)])
        PROVE  TypedConns'
    <3>0. Head(wire[End(Drv)]) \in Unit
      BY <2>e, <2>1 DEF RecvTakes
    <3>1. unit \in Unit
      BY <2>1, <3>0, ReadIsUnit
    <3>2. [Conn(Drv) EXCEPT !.buf = Append(@, unit)] \in Connection
      <4> DEFINE b == Append(Conn(Drv).buf, unit)
      <4>1. b \in Seq(Unit)
        <5>1. Conn(Drv).buf \in Seq(Unit)
          BY <2>i, EditsAreTyped
        <5> QED
          BY <3>1, <5>1
      <4>2. [Conn(Drv) EXCEPT !.buf = b] \in Connection
        BY <2>i, <4>1, EditsAreTyped
      <4> QED
        BY <4>2
    <3> QED
      BY <2>i, <2>1, <3>2, OneTyped DEF SetConn
  <2>2. CASE SetConn(Drv, [Conn(Drv) EXCEPT !.ok = FALSE])
    <3>1. [Conn(Drv) EXCEPT !.ok = FALSE] \in Connection
      BY <2>i, EditsAreTyped
    <3> QED
      BY <2>i, <2>2, <3>1, OneTyped DEF SetConn
  <2> QED
    BY <1>3, <2>1, <2>2, PreRecvEdits
<1>4. CASE Alive(Drv) /\ RecvData
  <2>i. at[Drv].id \in DOMAIN conns /\ Conn(Drv) = conns[at[Drv].id] /\ Conn(Drv) \in Connection
    BY <1>4 DEF RecvData, LockOwner, Locking, LockPcs, At, Conn, TypedConns
  <2>e. End(Drv) \in Ends /\ wire[End(Drv)] \in Seq(Unit) /\ Conn(Drv).buf \in Seq(Unit)
    BY <1>4, <2>i, EndIsEnd DEF Alive, ControlInv, TypeOK, SocketTypeOK, Connection
  <2>1. ASSUME NEW b \in Seq(Unit), NEW c, SetConn(Drv, c),
               c = [Conn(Drv) EXCEPT !.buf = b] \/ c = Unlocked([Conn(Drv) EXCEPT !.buf = b])
        PROVE  TypedConns'
    <3>1. c \in Connection
      BY <2>i, <2>1, EditsAreTyped
    <3> QED
      BY <2>i, <2>1, <3>1, OneTyped DEF SetConn
  <2>2. PICK k : /\ k \in 1..Len(wire[End(Drv)])
                 /\ \E b \in {Conn(Drv).buf \o SubSeq(wire[End(Drv)], 1, k), <<>>} :
                      \/ SetConn(Drv, [Conn(Drv) EXCEPT !.buf = b])
                      \/ SetConn(Drv, Unlocked([Conn(Drv) EXCEPT !.buf = b]))
    BY <1>4, Zenon DEF RecvData, RecvTakes, Placed
  <2>3. Conn(Drv).buf \o SubSeq(wire[End(Drv)], 1, k) \in Seq(Unit) /\ <<>> \in Seq(Unit)
    BY <2>e, <2>2
  <2> QED
    BY <2>1, <2>2, <2>3
<1>5. CASE Alive(Drv) /\ RecvGetsNothing
  <2>i. at[Drv].id \in DOMAIN conns /\ Conn(Drv) = conns[at[Drv].id] /\ Conn(Drv) \in Connection
    BY <1>5 DEF RecvGetsNothing, LockOwner, Locking, LockPcs, At, Conn, TypedConns
  <2>1. [Conn(Drv) EXCEPT !.ok = FALSE] \in Connection
    BY <2>i, EditsAreTyped
  <2>2. Unlocked(Conn(Drv)) \in Connection
    BY <2>i, EditsAreTyped
  <2> QED
    BY <1>5, <2>i, <2>1, <2>2, OneTyped DEF RecvGetsNothing, SetConn
<1>6. ASSUME NEW t \in {Drv, Svc}, CloseUnregistersRead(t) PROVE TypedConns'
  <2>i. at[t].id \in DOMAIN conns /\ Conn(t) = conns[at[t].id] /\ Conn(t) \in Connection
    BY <1>6 DEF CloseUnregistersRead, LockOwner, Locking, LockPcs, At, Conn, TypedConns
  <2>1. [Conn(t) EXCEPT !.closed = TRUE] \in Connection
    BY <2>i, EditsAreTyped
  <2> QED
    BY <1>6, <2>i, <2>1, OneTyped DEF CloseUnregistersRead, SetConn
<1>7. ASSUME NEW t \in {Drv, Svc}, CloseSocket(t) PROVE TypedConns'
  <2>i. at[t].id \in DOMAIN conns /\ Conn(t) = conns[at[t].id] /\ Conn(t) \in Connection
    BY <1>7 DEF CloseSocket, LockOwner, Locking, LockPcs, At, Conn, TypedConns
  <2> DEFINE c == [Conn(t) EXCEPT !.fd = NoFd, !.ok = FALSE, !.sendq = <<>>]
  <2>1. c \in Connection /\ Unlocked(c) \in Connection
    <3>1. c \in Connection
      BY <2>i, EditsAreTyped
    <3> HIDE DEF c
    <3> QED
      BY <3>1, EditsAreTyped
  <2>2. SetConn(t, IF at[t].then = "free" THEN Unlocked(c) ELSE c)
    BY <1>7 DEF CloseSocket
  <2> HIDE DEF c
  <2> QED
    BY <2>i, <2>1, <2>2, OneTyped DEF SetConn
<1>8. ASSUME NEW t \in {Drv, Svc}, EnqueueDrop(t) PROVE TypedConns'
  <2>i. at[t].id \in DOMAIN conns /\ Conn(t) = conns[at[t].id] /\ Conn(t) \in Connection
    BY <1>8 DEF EnqueueDrop, LockOwner, Locking, LockPcs, At, Conn, TypedConns
  <2> DEFINE c == IF t = Drv THEN [Conn(t) EXCEPT !.buf = <<>>] ELSE Conn(t)
  <2>1. c \in Connection
    <3>1. <<>> \in Seq(Unit)
      OBVIOUS
    <3>2. [Conn(t) EXCEPT !.buf = <<>>] \in Connection
      BY <2>i, <3>1, EditsAreTyped
    <3> QED
      BY <2>i, <3>2
  <2>2. SetConn(t, c)
    BY <1>8 DEF EnqueueDrop
  <2> HIDE DEF c
  <2> QED
    BY <2>i, <2>1, <2>2, OneTyped DEF SetConn
<1>9. ASSUME NEW t \in {Drv, Svc}, t = Drv => Alive(Drv), WriteData(t) PROVE TypedConns'
  <2>i. at[t].id \in DOMAIN conns /\ Conn(t) = conns[at[t].id] /\ Conn(t) \in Connection
    BY <1>9 DEF WriteData, Alive, LockOwner, Locking, LockPcs, At, Conn, TypedConns
  <2>1. Locked(Conn(t), t) \in Connection
    BY <2>i, EditsAreTyped
  <2>2. UNCHANGED conns \/ SetConn(t, Locked(Conn(t), t))
    BY <1>9 DEF WriteData
  <2> QED
    BY <2>i, <2>1, <2>2, OneTyped DEF SetConn, TypedConns
<1>10. ASSUME NEW t \in {Drv, Svc}, SendData(t) PROVE TypedConns'
  <2>i. at[t].id \in DOMAIN conns /\ Conn(t) = conns[at[t].id] /\ Conn(t) \in Connection
    BY <1>10 DEF SendData, LockOwner, Locking, LockPcs, At, Conn, TypedConns
  <2>0. Conn(t).sendq # <<>> /\ Conn(t).sendq \in Seq(Message)
    BY <1>10, <2>i DEF SendData, ConnStates, LockedOK, Locking, LockPcs, At, Connection
  <2>3. Tail(Conn(t).sendq) \in Seq(Message)
    BY <2>0
  <2>4. [Conn(t) EXCEPT !.sendq = Tail(@)] \in Connection
    BY <2>i, <2>3, EditsAreTyped
  <2>1. Unlocked([Conn(t) EXCEPT !.sendq = Tail(@)]) \in Connection
    BY <2>4, EditsAreTyped
  <2>2. [Conn(t) EXCEPT !.ok = FALSE] \in Connection
    BY <2>i, EditsAreTyped
  <2> QED
    BY <1>10, <2>i, <2>1, <2>2, OneTyped DEF SendData, SetConn
<1>11. ASSUME NEW t \in {Drv, Svc}, Unlock(t) PROVE TypedConns'
  <2>i. at[t].id \in DOMAIN conns /\ Conn(t) = conns[at[t].id] /\ Conn(t) \in Connection
    BY <1>11 DEF Unlock, LockOwner, Locking, LockPcs, At, Conn, TypedConns
  <2>1. Unlocked(Conn(t)) \in Connection
    BY <2>i, EditsAreTyped
  <2> QED
    BY <1>11, <2>i, <2>1, OneTyped DEF Unlock, SetConn
<1>12. ASSUME NEW t \in {Svc, App}, InsertConnection(t), fault' = "none" PROVE TypedConns'
  <2>0. PICK i, f, e : Inserted(t, i, f, e) /\ i = at[t].id /\ f = at[t].fd /\ e = sock[f]
    BY <1>12, InsertDoes
  <2>1. NewConnection(e, f) \in Connection
    BY <2>0 DEF Inserted, NewConnection, Connection
  <2>2. conns' = [j \in DOMAIN conns \cup {i} |-> IF j = i THEN NewConnection(e, f) ELSE conns[j]] /\ i \in Nat
    BY <2>0 DEF Inserted
  <2> QED
    BY <2>1, <2>2 DEF TypedConns
<1>13. CASE EnqueueMsg
  <2>i. at[Svc].id \in DOMAIN conns /\ Conn(Svc) = conns[at[Svc].id] /\ Conn(Svc) \in Connection
    BY <1>13 DEF EnqueueMsg, LockOwner, Locking, LockPcs, At, Conn, TypedConns
  <2>0. Ctx.msg \in Message
    <3>1. mQueue # <<>> /\ Ctx.type = "send"
      BY <1>13 DEF EnqueueMsg, EnqIsHead
    <3>2. Ctx = Given[Len(srvLog) + 1] /\ Len(srvLog) + 1 \in DOMAIN Given
      BY <3>1, GivenHead
    <3> QED
      BY <3>1, <3>2 DEF Contexts
  <2>1. [Conn(Svc) EXCEPT !.sendq = Append(@, Ctx.msg)] \in Connection
    <3> DEFINE q == Append(Conn(Svc).sendq, Ctx.msg)
    <3>1. q \in Seq(Message)
      <4>1. Conn(Svc).sendq \in Seq(Message)
        BY <2>i, EditsAreTyped
      <4> QED
        BY <2>0, <4>1
    <3>2. [Conn(Svc) EXCEPT !.sendq = q] \in Connection
      BY <2>i, <3>1, EditsAreTyped
    <3> QED
      BY <3>2
  <2> QED
    BY <1>13, <2>i, <2>1, OneTyped DEF EnqueueMsg, SetConn
<1>14. CASE FreeSocket
  <2>i. at[Svc].id \in DOMAIN conns /\ Conn(Svc) = conns[at[Svc].id] /\ Conn(Svc) \in Connection
    BY <1>14 DEF FreeSocket, LockOwner, Locking, LockPcs, At, Conn, TypedConns
  <2>1. [Conn(Svc) EXCEPT !.freed = TRUE, !.fd = NoFd] \in Connection
    BY <2>i, EditsAreTyped
  <2> QED
    BY <1>14, <2>i, <2>1, OneTyped DEF FreeSocket, SetConn
<1>15. CASE DeleteConnection
  <2>0. PICK i : Deleted(i) /\ i = at[Svc].id
    BY <1>15, DeleteDoes
  <2> QED
    BY <2>0 DEF Deleted, TypedConns
<1>16. CASE DropNextConnection
  <2> DEFINE i == Min(DOMAIN conns)
  <2>1. i \in DOMAIN conns
    BY <1>16, NextIsConnection DEF DropNextConnection
  <2>2. UNCHANGED conns \/ conns' = [conns EXCEPT ![i] = Locked(@, Svc)]
    BY <1>16 DEF DropNextConnection
  <2> HIDE DEF i
  <2>3. Locked(conns[i], Svc) \in Connection
    BY <2>1 DEF TypedConns, Connection, Locked
  <2> QED
    BY <2>1, <2>2, <2>3, OneTyped DEF TypedConns
<1>17. CASE UNCHANGED AllButFault
  BY <1>1, <1>17 DEF AllButFault, netVars, connVars, drvVars, svcVars, srvVars
<1> QED
  BY Steps, <1>1, <1>2, <1>3, <1>4, <1>5, <1>6, <1>7, <1>8, <1>9, <1>10, <1>11, <1>12, <1>13,
     <1>14, <1>15, <1>16, <1>17
     DEF DriverMoves, ConnectionMoves, RegisterMoves, ServiceMoves, AppMoves, Accept,
         FindReady, CallHandler, RegistReadEvent, RegistEvent, Dies, RegistWriteEvent,
         AcceptConnection, ProcessRecv, SendMsg, DropConnection, StopListener, AllDropped,
         DriverStop, JoinDriver, StartConnectRemote, Stop, StopReturns, ServerHandles, EndStep,
         netVars, connVars, drvVars, svcVars, srvVars

LEMMA IdsAreTyped ==
  ASSUME ControlInv, [Next]_vars
  PROVE  TypedIds'
<1>a. TypeOK /\ TypedIds
  BY PartsOfTypeOK DEF ControlInv
<1> USE <1>a, NetServiceAssumption
    DEF svcVars, connVars, srvVars, drvVars, Threads
<1>1. CASE UNCHANGED <<mMaxID, endOf>>
  BY <1>1
     DEF TypedIds
<1>2. ASSUME NEW t \in {Svc, App}, InsertConnection(t), fault' = "none" PROVE TypedIds'
  <2>0. PICK i, f, e : Inserted(t, i, f, e) /\ i = at[t].id /\ f = at[t].fd /\ e = sock[f]
    BY <1>2, InsertDoes
  <2>1. /\ i \in Nat /\ e \in Ends /\ mMaxID' = mMaxID + 1
        /\ endOf' = [j \in DOMAIN endOf \cup {i} |-> IF j = i THEN e ELSE endOf[j]]
    BY <2>0 DEF Inserted
  <2> QED
    <3>1. mMaxID \in Nat /\ DOMAIN endOf \subseteq Nat /\ \A j \in DOMAIN endOf : endOf[j] \in Ends
      BY DEF TypedIds, Range
    <3>2. DOMAIN endOf' \subseteq Nat /\ \A j \in DOMAIN endOf' : endOf'[j] \in Ends
      BY <2>1, <3>1
    <3> QED
      BY <2>1, <3>1, <3>2 DEF TypedIds, Range
<1>3. CASE UNCHANGED AllButFault
  BY <1>1, <1>3 DEF AllButFault, netVars, connVars, drvVars, svcVars, srvVars
<1> QED
  BY Steps, <1>1, <1>2, <1>3
     DEF DriverMoves, ConnectionMoves, RegisterMoves, ServiceMoves, AppMoves, Accept,
         FindReady, CallHandler, ReadData, PreRecv, RecvData, RecvGetsNothing,
         CloseUnregistersRead, CloseSocket, EnqueueDrop, WriteData, SendData, Unlock,
         RegistReadEvent, RegistEvent, Dies, RegistWriteEvent, AcceptConnection, ProcessRecv,
         SendMsg, EnqueueMsg, DropConnection, FreeSocket, DeleteConnection, StopListener,
         DropNextConnection, AllDropped, DriverStop, JoinDriver, StartConnectRemote, Stop,
         StopReturns, ServerHandles, EndStep, netVars, connVars, drvVars, svcVars, srvVars

LEMMA TypedEventsKept ==
  ASSUME ControlInv, [Next]_vars
  PROVE  TypedEvents'
<1>a. TypeOK /\ TypedEvents
  BY PartsOfTypeOK DEF ControlInv
<1> USE <1>a, NetServiceAssumption
    DEF svcVars, connVars, srvVars, drvVars, Threads
<1>1. CASE UNCHANGED <<events, listening>>
  BY <1>1
     DEF TypedEvents, EventsType
<1>2. ASSUME NEW t \in {Drv, Svc}, CloseUnregistersRead(t) PROVE TypedEvents'
  <2>0. PICK i, f : ReadUnregistered(t, i, f) /\ i = at[t].id /\ f = Conn(t).fd
    BY <1>2, CloseUnregistersReadDoes
  <2>a. Without(events', f, "read") /\ f \in DOMAIN events
    <3>1. f \in DOMAIN events /\ events' = Unregistered(f, "read")
      BY <2>0 DEF ReadUnregistered
    <3> QED
      BY <3>1, UnregisteredIs, EventsAreTyped DEF Kinds
  <2>1. UNCHANGED listening
    BY <2>0 DEF ReadUnregistered
  <2> QED
    BY <2>a, <2>1 DEF Without, TypedEvents, EventsType
<1>3. ASSUME NEW t \in {Drv, Svc}, CloseSocket(t) PROVE TypedEvents'
  <2>0. PICK i, f, e : SocketClosed(t, i, f, e) /\ i = at[t].id /\ f = Conn(t).fd /\ e = endOf[i]
    BY <1>3, CloseSocketDoes
  <2>a. Without(events', f, "write") /\ f \in DOMAIN events
    <3>1. f \in DOMAIN events /\ events' = Unregistered(f, "write")
      BY <2>0 DEF SocketClosed
    <3> QED
      BY <3>1, UnregisteredIs, EventsAreTyped DEF Kinds
  <2>1. UNCHANGED listening
    BY <2>0 DEF SocketClosed
  <2> QED
    BY <2>a, <2>1 DEF Without, TypedEvents, EventsType
<1>4. ASSUME NEW t \in {Svc, App}, RegistReadEvent(t), fault' = "none" PROVE TypedEvents'
  <2>0. PICK kind, i, f : kind \in {"read", "write"} /\ EventRegistered(t, kind, i, f) /\ i = at[t].id /\ f = at[t].fd
    BY <1>4, EventIsRegistered
  <2>a. With(events', f, kind, i) /\ kind \in Kinds /\ i \in Nat
    <3>1. f \in Fds /\ i \in Nat /\ events' = Registered(f, kind, i) /\ kind \in Kinds
      BY <2>0 DEF EventRegistered, Kinds
    <3> QED
      BY <3>1, RegisteredIs, EventsAreTyped
  <2>1. UNCHANGED listening /\ f \in Fds
    BY <2>0 DEF EventRegistered
  <2> QED
    BY <2>a, <2>1 DEF With, TypedEvents, EventsType
<1>5. ASSUME NEW t \in {Svc, App}, RegistWriteEvent(t), fault' = "none" PROVE TypedEvents'
  <2>0. PICK kind, i, f : kind \in {"read", "write"} /\ EventRegistered(t, kind, i, f) /\ i = at[t].id /\ f = at[t].fd
    BY <1>5, EventIsRegistered
  <2>a. With(events', f, kind, i) /\ kind \in Kinds /\ i \in Nat
    <3>1. f \in Fds /\ i \in Nat /\ events' = Registered(f, kind, i) /\ kind \in Kinds
      BY <2>0 DEF EventRegistered, Kinds
    <3> QED
      BY <3>1, RegisteredIs, EventsAreTyped
  <2>1. UNCHANGED listening /\ f \in Fds
    BY <2>0 DEF EventRegistered
  <2> QED
    BY <2>a, <2>1 DEF With, TypedEvents, EventsType
<1>6. CASE StopListener
  BY <1>6
     DEF TypedEvents, EventsType, StopListener
<1>7. CASE UNCHANGED AllButFault
  BY <1>1, <1>7 DEF AllButFault, netVars, connVars, drvVars, svcVars, srvVars
<1> QED
  BY Steps, <1>1, <1>2, <1>3, <1>4, <1>5, <1>6, <1>7
     DEF DriverMoves, ConnectionMoves, RegisterMoves, ServiceMoves, AppMoves, Accept,
         FindReady, CallHandler, ReadData, PreRecv, RecvData, RecvGetsNothing, EnqueueDrop,
         WriteData, SendData, Unlock, InsertConnection, Dies, AcceptConnection, ProcessRecv,
         SendMsg, EnqueueMsg, DropConnection, FreeSocket, DeleteConnection, DropNextConnection,
         AllDropped, DriverStop, JoinDriver, StartConnectRemote, Stop, StopReturns, ServerHandles,
         EndStep, netVars, connVars, drvVars, svcVars, srvVars

LEMMA EnqueueTyped ==
  ASSUME TypeOK, NEW ctx \in Context, Enqueue(ctx)
  PROVE  mQueue' \in Seq(Context)
BY DEF TypeOK, Enqueue

LEMMA QueuesAreTyped ==
  ASSUME ControlInv, [Next]_vars
  PROVE  TypedQueues'
<1>a. TypeOK /\ EnqIsHead /\ TypedQueues
  BY PartsOfTypeOK DEF ControlInv
<1> USE <1>a, NetServiceAssumption
    DEF svcVars, connVars, srvVars, drvVars, Threads
<1>1. CASE UNCHANGED <<mQueue, mRunning, srvLog, srvDone>>
  BY <1>1
     DEF TypedQueues
<1>2. CASE Accept
  <2>1. FreeFd \in Fds
    BY <1>2, FreeFdIsFree DEF Accept
  <2>2. Accepted(FreeFd) \in Context
    BY <2>1 DEF Accepted, Context
  <2>3. mQueue' \in Seq(Context)
    BY <1>2, <2>2, EnqueueTyped DEF Accept
  <2> QED
    BY <1>2, <2>3 DEF Accept, TypedQueues
<1>3. CASE Alive(Drv) /\ RecvData
  <2> DEFINE buf(k) == Conn(Drv).buf \o SubSeq(wire[End(Drv)], 1, k)
  <2>1. /\ at[Drv].id \in DOMAIN conns /\ Conn(Drv) = conns[at[Drv].id] /\ End(Drv) \in Ends
    BY <1>3, EndIsEnd DEF Alive, Conn, ControlInv
  <2>2. Conn(Drv).buf \in Seq(Unit) /\ wire[End(Drv)] \in Seq(Unit) /\ at[Drv].id \in Nat
    BY <2>1, ConnType DEF TypeOK, SocketTypeOK
  <2>3. PICK k : k \in 1..Len(wire[End(Drv)]) /\ (UNCHANGED mQueue \/ Enqueue(Recv(at[Drv].id, buf(k))))
    BY <1>3, Zenon DEF RecvData, RecvTakes, Placed
  <2>4. buf(k) \in Seq(Unit)
    BY <2>2, <2>3
  <2> HIDE DEF buf
  <2>5. Recv(at[Drv].id, buf(k)) \in Context
    BY <2>2, <2>4 DEF Recv, Context
  <2>6. mQueue' \in Seq(Context)
    BY <2>3, <2>5, EnqueueTyped DEF TypedQueues
  <2> QED
    BY <1>3, <2>6 DEF RecvData, TypedQueues
<1>4. ASSUME NEW t \in {Drv, Svc}, EnqueueDrop(t) PROVE TypedQueues'
  <2>1. Drop(at[t].id) \in Context
    BY AtType DEF Drop, Context
  <2>2. mQueue' \in Seq(Context)
    BY <1>4, <2>1, EnqueueTyped DEF EnqueueDrop, TellsOfDrop
  <2> QED
    BY <1>4, <2>2 DEF EnqueueDrop, TypedQueues
<1>5. CASE AcceptConnection
  <2>1. mQueue' = Tail(mQueue) /\ mQueue # <<>>
    BY <1>5 DEF AcceptConnection, Taking
  <2> QED
    BY <1>5, <2>1 DEF AcceptConnection, Taking, TypedQueues
<1>6. CASE ProcessRecv
  <2>1. mQueue' = Tail(mQueue) /\ mQueue # <<>> /\ srvLog' = Append(srvLog, Ctx) /\ UNCHANGED <<mRunning, srvDone>>
    BY <1>6 DEF ProcessRecv, Taking
  <2>2. Ctx \in Context
    BY <2>1 DEF Ctx, TypedQueues
  <2> QED
    BY <2>1, <2>2 DEF TypedQueues
<1>7. CASE SendMsg
  <2>1. UNCHANGED mQueue \/ (mQueue' = Tail(mQueue) /\ mQueue # <<>>)
    BY <1>7 DEF SendMsg, Taking
  <2>2. UNCHANGED <<mRunning, srvLog, srvDone>>
    BY <1>7 DEF SendMsg, srvVars
  <2>3. mQueue' \in Seq(Context)
    BY <2>1 DEF TypedQueues
  <2> QED
    BY <2>2, <2>3 DEF TypedQueues
<1>8. CASE EnqueueMsg
  <2>1. mQueue' = Tail(mQueue) /\ mQueue # <<>>
    BY <1>8 DEF EnqueueMsg, EnqIsHead
  <2> QED
    BY <1>8, <2>1 DEF EnqueueMsg, TypedQueues
<1>9. CASE DropConnection
  <2>1. mQueue' = Tail(mQueue) /\ mQueue # <<>> /\ srvLog' = Append(srvLog, Ctx) /\ UNCHANGED <<mRunning, srvDone>>
    BY <1>9 DEF DropConnection, Taking
  <2>2. Ctx \in Context
    BY <2>1 DEF Ctx, TypedQueues
  <2> QED
    BY <2>1, <2>2 DEF TypedQueues
<1>10. CASE StopListener
  BY <1>10
     DEF TypedQueues, StopListener
<1>11. CASE Stop
  BY <1>11
     DEF TypedQueues, Stop
<1>12. CASE ServerHandles
  <2> DEFINE ctx == srvLog[srvDone + 1]
  <2>1. srvDone + 1 \in 1..Len(srvLog) /\ ctx \in Context
    BY <1>12 DEF ServerHandles, TypedQueues
  <2>2. UNCHANGED <<srvLog, mRunning>> /\ srvDone' = srvDone + 1
        /\ IF ctx.type = "recv" THEN Enqueue(Send(ctx.id, ctx.msg)) ELSE UNCHANGED mQueue
    BY <1>12 DEF ServerHandles
  <2> HIDE DEF ctx
  <2>3. Send(ctx.id, ctx.msg) \in Context
    BY <2>1 DEF Send, Context
  <2>4. mQueue' \in Seq(Context)
    BY <2>2, <2>3, EnqueueTyped DEF TypedQueues
  <2> QED
    BY <2>1, <2>2, <2>4 DEF TypedQueues
<1>13. CASE UNCHANGED AllButFault
  BY <1>1, <1>13 DEF AllButFault, netVars, connVars, drvVars, svcVars, srvVars
<1> QED
  BY Steps, <1>1, <1>2, <1>3, <1>4, <1>5, <1>6, <1>7, <1>8, <1>9, <1>10, <1>11, <1>12, <1>13
     DEF DriverMoves, ConnectionMoves, RegisterMoves, ServiceMoves, AppMoves, FindReady,
         CallHandler, ReadData, PreRecv, RecvGetsNothing, CloseUnregistersRead, CloseSocket,
         WriteData, SendData, Unlock, InsertConnection, Dies, RegistReadEvent, RegistEvent,
         RegistWriteEvent, FreeSocket, DeleteConnection, DropNextConnection, AllDropped,
         DriverStop, JoinDriver, StartConnectRemote, StopReturns, EndStep, netVars, connVars,
         drvVars, svcVars, srvVars

LEMMA GoesTo ==
  ASSUME TypedPlaces, NEW t \in Threads, NEW pc \in Pcs, Go(t, pc)
  PROVE  TypedPlaces'
BY DEF TypedPlaces, Places, Go

LEMMA GoesFor ==
  ASSUME TypedPlaces, NEW t \in Threads, NEW pc \in Pcs, NEW id \in Nat \cup {NoId}, NEW fd \in Fds \cup {NoFd},
         GoFor(t, pc, id, fd)
  PROVE  TypedPlaces'
BY DEF TypedPlaces, Places, GoFor

LEMMA Returns ==
  ASSUME TypedPlaces, NEW t \in Threads, Return(t)
  PROVE  TypedPlaces'
<1>1. Home[t] \in Pcs
  BY DEF Pcs, Range, Home
<1> QED
  BY <1>1, GoesFor DEF Return

LEMMA PlacesAreTyped ==
  ASSUME ControlInv, [Next]_vars
  PROVE  TypedPlaces'
<1>a. TypeOK /\ LockOwner /\ TypedPlaces
  BY PartsOfTypeOK DEF ControlInv
<1> USE <1>a, NetServiceAssumption
    DEF svcVars, connVars, srvVars, drvVars, ThenWrites, Threads
<1>1. CASE UNCHANGED at
  BY <1>1
     DEF TypedPlaces
<1>2. CASE CallHandler
  <2>1. PICK ev \in active : GoFor(Drv, ev[2], events[ev[1]][ev[2]], NoFd)
    BY <1>2 DEF CallHandler
  <2>2. ev[2] \in Pcs /\ events[ev[1]][ev[2]] \in Nat \cup {NoId}
    BY <2>1 DEF TypeOK, Pcs, ConnPcs
  <2> QED
    BY <2>1, <2>2, GoesFor
<1>3. CASE Alive(Drv) /\ ReadData
  BY <1>3, GoesTo, Returns
     DEF TypedPlaces, ReadData, MutexIsFree, Locked, Alive, Pcs, ConnPcs, RegistryPcs
<1>4. CASE Alive(Drv) /\ PreRecv
  <2>1. \/ UNCHANGED at \/ Go(Drv, "recv") \/ Go(Drv, "unregRead")
        \/ at' = [at EXCEPT ![Drv].pc = "unregRead", ![Drv].then = "unlock"]
    BY <1>4, PreRecvGoes
  <2>2. "unregRead" \in Pcs /\ "recv" \in Pcs
    BY DEF Pcs, ConnPcs
  <2> QED
    BY <2>1, <2>2, GoesTo DEF TypedPlaces, Places
<1>5. CASE Alive(Drv) /\ RecvData
  <2>1. Return(Drv) \/ Go(Drv, "drop")
    BY <1>5 DEF RecvData
  <2>2. "drop" \in Pcs
    BY DEF Pcs, ConnPcs
  <2> QED
    BY <2>1, <2>2, GoesTo, Returns
<1>6. CASE Alive(Drv) /\ RecvGetsNothing
  BY <1>6, GoesTo, Returns
     DEF TypedPlaces, RecvGetsNothing, Unlocked, Alive, End, Pcs, ConnPcs, RegistryPcs
<1>7. ASSUME NEW t \in {Drv, Svc}, CloseUnregistersRead(t) PROVE TypedPlaces'
  BY <1>7, GoesTo
     DEF TypedPlaces, CloseUnregistersRead, Pcs, ConnPcs, RegistryPcs
<1>8. ASSUME NEW t \in {Drv, Svc}, CloseSocket(t) PROVE TypedPlaces'
  <2>1. at[t].then \in Pcs /\ Go(t, at[t].then)
    BY <1>8, AtType DEF CloseSocket, Pcs, ConnPcs
  <2> QED
    BY <2>1, GoesTo
<1>9. ASSUME NEW t \in {Drv, Svc}, EnqueueDrop(t) PROVE TypedPlaces'
  BY <1>9, GoesTo, Returns
     DEF TypedPlaces, EnqueueDrop, Pcs, ConnPcs, RegistryPcs
<1>10. ASSUME NEW t \in {Drv, Svc}, t = Drv => Alive(Drv), WriteData(t) PROVE TypedPlaces'
  BY <1>10, GoesTo, Returns
     DEF TypedPlaces, WriteData, MutexIsFree, Locked, Pcs, ConnPcs, RegistryPcs
<1>11. ASSUME NEW t \in {Drv, Svc}, SendData(t) PROVE TypedPlaces'
  BY <1>11, GoesTo, Returns
     DEF TypedPlaces, SendData, Unlocked, End, Pcs, ConnPcs, RegistryPcs
<1>12. ASSUME NEW t \in {Drv, Svc}, Unlock(t) PROVE TypedPlaces'
  BY <1>12, GoesTo, Returns
     DEF TypedPlaces, Unlock, Unlocked, Pcs, ConnPcs, RegistryPcs
<1>13. ASSUME NEW t \in {Svc, App}, InsertConnection(t), fault' = "none" PROVE TypedPlaces'
  <2>0. PICK i, f, e : Inserted(t, i, f, e) /\ i = at[t].id /\ f = at[t].fd /\ e = sock[f]
    BY <1>13, InsertDoes
  <2> QED
    BY <2>0, GoesTo DEF Inserted, Go, Pcs, RegistryPcs
<1>14. ASSUME NEW t \in {Svc, App}, RegistReadEvent(t), fault' = "none" PROVE TypedPlaces'
  <2>1. Go(t, "regWrite") \/ Return(t)
    <3>1. ~Dies("assert id") /\ ~Dies("assert event")
      BY <1>14 DEF Dies
    <3> QED
      BY <1>14, <3>1 DEF RegistReadEvent, RegistWriteEvent, RegistEvent
  <2>2. "regWrite" \in Pcs
    BY DEF Pcs, RegistryPcs
  <2> QED
    BY <2>1, <2>2, GoesTo, Returns
<1>15. ASSUME NEW t \in {Svc, App}, RegistWriteEvent(t), fault' = "none" PROVE TypedPlaces'
  <2>1. Go(t, "regWrite") \/ Return(t)
    <3>1. ~Dies("assert id") /\ ~Dies("assert event")
      BY <1>15 DEF Dies
    <3> QED
      BY <1>15, <3>1 DEF RegistReadEvent, RegistWriteEvent, RegistEvent
  <2>2. "regWrite" \in Pcs
    BY DEF Pcs, RegistryPcs
  <2> QED
    BY <2>1, <2>2, GoesTo, Returns
<1>16. CASE AcceptConnection
  <2>1. Ctx \in Context
    BY <1>16 DEF AcceptConnection, Taking, Ctx, TypeOK
  <2>2. Ctx.id \in Nat \cup {NoId} /\ Ctx.fd \in Fds \cup {NoFd} /\ mMaxID \in Nat
    BY <2>1 DEF Context, TypeOK
  <2>3. UNCHANGED at \/ \E pc \in {"insert", "enq", "free"}, id \in {Ctx.id, mMaxID}, fd \in {Ctx.fd, NoFd} : GoFor(Svc, pc, id, fd)
    BY <1>16 DEF AcceptConnection
  <2> QED
    BY <2>2, <2>3, GoesFor DEF TypedPlaces, Pcs
<1>17. CASE SendMsg
  <2>1. Ctx \in Context
    BY <1>17 DEF SendMsg, Taking, Ctx, TypeOK
  <2>2. Ctx.id \in Nat \cup {NoId} /\ Ctx.fd \in Fds \cup {NoFd} /\ mMaxID \in Nat
    BY <2>1 DEF Context, TypeOK
  <2>3. UNCHANGED at \/ \E pc \in {"insert", "enq", "free"}, id \in {Ctx.id, mMaxID}, fd \in {Ctx.fd, NoFd} : GoFor(Svc, pc, id, fd)
    BY <1>17 DEF SendMsg
  <2> QED
    BY <2>2, <2>3, GoesFor DEF TypedPlaces, Pcs
<1>18. CASE EnqueueMsg
  BY <1>18, GoesTo
     DEF TypedPlaces, EnqueueMsg, MutexIsFree, Pcs, ConnPcs, RegistryPcs
<1>19. CASE DropConnection
  <2>1. Ctx \in Context
    BY <1>19 DEF DropConnection, Taking, Ctx, TypeOK
  <2>2. Ctx.id \in Nat \cup {NoId} /\ Ctx.fd \in Fds \cup {NoFd} /\ mMaxID \in Nat
    BY <2>1 DEF Context, TypeOK
  <2>3. UNCHANGED at \/ \E pc \in {"insert", "enq", "free"}, id \in {Ctx.id, mMaxID}, fd \in {Ctx.fd, NoFd} : GoFor(Svc, pc, id, fd)
    BY <1>19 DEF DropConnection
  <2> QED
    BY <2>2, <2>3, GoesFor DEF TypedPlaces, Pcs
<1>20. CASE FreeSocket
  BY <1>20, GoesTo
     DEF TypedPlaces, FreeSocket, Pcs, ConnPcs, RegistryPcs
<1>21. CASE DeleteConnection
  <2>1. Return(Svc) \/ GoFor(Svc, "dropAll", NoId, NoFd)
    BY <1>21 DEF DeleteConnection
  <2> QED
    BY <2>1, Returns, GoesFor DEF Pcs
<1>22. CASE StopListener
  BY <1>22, GoesFor
     DEF TypedPlaces, StopListener, Pcs
<1>23. CASE DropNextConnection
  <2> DEFINE i == Min(DOMAIN conns)
  <2>1. i \in Nat
    BY <1>23, NextIsConnection DEF DropNextConnection, TypeOK
  <2>2. \E pc \in {"free", "unregRead"} : at' = [at EXCEPT ![Svc] = [pc |-> pc, id |-> i, fd |-> NoFd, then |-> "free"]]
    BY <1>23 DEF DropNextConnection
  <2> HIDE DEF i
  <2> QED
    BY <2>1, <2>2 DEF TypedPlaces, Places, Pcs, ConnPcs
<1>24. CASE AllDropped
  BY <1>24, GoesTo, Returns
     DEF TypedPlaces, AllDropped, Pcs, ConnPcs, RegistryPcs
<1>25. CASE DriverStop /\ fault' = "none"
  <2>1. \E pc \in {"exited", "asleep"} : at' = [at EXCEPT ![Svc].pc = "join", ![Drv].pc = pc]
    <3>1. ~Dies("use after free")
      BY <1>25 DEF Dies
    <3> QED
      BY <1>25, <3>1 DEF DriverStop
  <2> QED
    BY <2>1 DEF TypedPlaces, Places, Pcs
<1>26. CASE JoinDriver
  BY <1>26, GoesTo, Returns
     DEF TypedPlaces, JoinDriver, Pcs, ConnPcs, RegistryPcs
<1>27. ASSUME NEW r \in Remotes, StartConnectRemote(r) PROVE TypedPlaces'
  <2>1. FreeFd \in Fds
    BY <1>27, FreeFdIsFree DEF StartConnectRemote
  <2> QED
    BY <1>27, <2>1, GoesFor DEF StartConnectRemote, TypeOK, Pcs
<1>28. CASE Stop
  BY <1>28, GoesTo, Returns
     DEF TypedPlaces, Stop, Pcs, ConnPcs, RegistryPcs
<1>29. CASE StopReturns
  BY <1>29, GoesTo, Returns
     DEF TypedPlaces, StopReturns, Pcs, ConnPcs, RegistryPcs
<1>30. CASE UNCHANGED AllButFault
  BY <1>1, <1>30 DEF AllButFault, netVars, connVars, drvVars, svcVars, srvVars
<1> QED
  BY Steps, <1>1, <1>2, <1>3, <1>4, <1>5, <1>6, <1>7, <1>8, <1>9, <1>10, <1>11, <1>12, <1>13,
     <1>14, <1>15, <1>16, <1>17, <1>18, <1>19, <1>20, <1>21, <1>22, <1>23, <1>24, <1>25, <1>26,
     <1>27, <1>28, <1>29, <1>30
     DEF DriverMoves, ConnectionMoves, RegisterMoves, ServiceMoves, AppMoves, Accept,
         FindReady, ProcessRecv, ServerHandles, EndStep, netVars, connVars, drvVars, svcVars,
         srvVars

LEMMA TypeIsKept ==
  ASSUME ControlInv, [Next]_vars
  PROVE  TypeOK'
<1>1. fault' \in Faults
  <2>1. fault \in Faults
    BY DEF ControlInv, TypeOK
  <2>2. CASE ~UNCHANGED AllButFault
    BY <2>2, Steps DEF Faults
  <2>3. CASE UNCHANGED AllButFault
    BY <2>1, <2>3, Deaths, NothingToAssert DEF Faults
  <2> QED
    BY <2>2, <2>3
<1>2. active' \subseteq (DOMAIN events') \X {"read", "write"}
  BY ActiveKept DEF ActiveAreRegistered
<1> QED
  BY <1>1, <1>2, SocketTypeKept, ConnsAreTyped, IdsAreTyped, TypedEventsKept, QueuesAreTyped, PlacesAreTyped
     DEF TypeOK, TypedConns, TypedIds, TypedEvents, EventsType, Kinds, TypedQueues, TypedPlaces, Places


-----------------------------------------------------------------------------
(***************************************************************************)
(* The invariant of the control, and what follows from it.                 *)
(***************************************************************************)
LEMMA ControlAtFirst ==
  ASSUME Init
  PROVE  ControlInv
<1> USE NetServiceAssumption, TcpSocketAssumption
<1>1. /\ DOMAIN conns = {} /\ DOMAIN events = {} /\ DOMAIN endOf = {}
      /\ mQueue = <<>> /\ srvLog = <<>> /\ backlog = <<>> /\ active = {}
      /\ mMaxID = 0 /\ mRunning /\ fault = "none"
  BY DEF Init, SocketInit
<1>2. /\ at[Drv].pc = "poll" /\ at[Svc].pc = "take" /\ at[App].pc = "idle"
      /\ \A t \in Threads : at[t].id = NoId /\ at[t].then = "drop"
  BY DEF Init, Home, Threads
<1>3. Given = <<>> /\ DOMAIN Given = {}
  BY <1>1 DEF Given
<1>4. /\ \A fd \in Fds : sock[fd] = NoEnd
      /\ \A e \in Ends : link[e] = "none"
  BY DEF Init, SocketInit
<1>5. \A t \in Threads : /\ ~Locking(t) /\ ~Registering(t)
                         /\ at[t].pc \notin {"insert", "regRead", "enq", "write", "free", "delete"}
  BY <1>2 DEF Locking, LockPcs, Registering, Threads
<1>6. TypeOK
  <2>1. SocketTypeOK
    BY DEF Init, SocketInit, SocketTypeOK, LinkStates
  <2>2. /\ DOMAIN conns \subseteq Nat /\ \A i \in DOMAIN conns : conns[i] \in Connection
        /\ mMaxID \in Nat /\ DOMAIN endOf \subseteq Nat /\ Range(endOf) \subseteq Ends
    BY <1>1 DEF Range
  <2>3. at \in [Threads -> [pc : Pcs, id : Nat \cup {NoId}, fd : Fds \cup {NoFd},
                            then : {"drop", "unlock", "free"}]]
    <3>1. \A t \in Threads : Home[t] \in Pcs
      BY DEF Home, Pcs, Range
    <3> QED
      BY <3>1 DEF Init
  <2>4. mQueue \in Seq(Context) /\ srvLog \in Seq(Context) /\ srvDone \in 0..Len(srvLog)
    BY DEF Init
  <2>5. /\ DOMAIN events \subseteq Fds /\ \A fd \in DOMAIN events : events[fd] \in [{"read", "write"} -> Nat \cup {NoId}]
        /\ listening \in BOOLEAN /\ active \subseteq (DOMAIN events) \X {"read", "write"}
    BY <1>1 DEF Init
  <2> QED
    BY <1>1, <2>1, <2>2, <2>3, <2>4, <2>5 DEF TypeOK, Faults
<1>7. ThreadPlaces
  BY <1>1, <1>2 DEF ThreadPlaces, DrvPcs, AppPcs, SvcPcs, Threads
<1>8. LockOwner /\ ConnStates
  BY <1>1, <1>5 DEF LockOwner, ConnStates, Threads
<1>9. IdsOfConns /\ IdsOfThreads
  BY <1>1, <1>2, <1>5 DEF IdsOfConns, IdsOfThreads, At
<1>10. Contexts /\ EnqIsHead
  BY <1>1, <1>3, <1>5 DEF Contexts, EnqIsHead, At, Threads
<1>11. Sockets
  BY <1>1, <1>4 DEF Sockets, SocketOfConn, SocketsDiffer, NoneIsNeverMet, Backlog, NeverMet
<1>12. PendingSockets
  BY <1>1, <1>5 DEF PendingSockets, PendingThreads, PendingContexts, At
<1>13. EventsOfLiveConns /\ Events
  BY <1>1 DEF EventsOfLiveConns, Events, EventsInUse, ReadEventsAreOpen, ActiveAreRegistered, OpenAreRegistered
<1>14. BeingRegistered
  BY <1>5 DEF BeingRegistered, RegisteringIsOpen, WriteIsNew, OneRegisters, ReadIsNew, NobodyElse, NothingGiven, At
<1>15. DropIsLast /\ OpenOrOver
  BY <1>1, <1>3 DEF DropIsLast, OpenOrOver
<1>16. OnlySharedIdsFail /\ OnlyHalfRegisteredFails
  BY <1>1 DEF OnlySharedIdsFail, OnlyHalfRegisteredFails
<1> QED
  BY <1>6, <1>7, <1>8, <1>9, <1>10, <1>11, <1>12, <1>13, <1>14, <1>15, <1>16 DEF ControlInv

LEMMA ControlIsInductive ==
  ASSUME ControlInv, [Next]_vars
  PROVE  ControlInv'
<1>1. TypeOK' /\ ThreadPlaces' /\ (LockOwner /\ ConnStates)'
  BY TypeIsKept, ThreadPlacesKept, LocksAndStatesKept
<1>2. IdsOfConns' /\ IdsOfThreads' /\ Contexts' /\ EnqIsHead'
  BY IdsOfConnsKept, IdsOfThreadsKept, ContextsKept, EnqIsHeadKept
<1>3. Sockets' /\ PendingSockets'
  BY SocketsKept, PendingSocketsKept
<1>4. EventsOfLiveConns' /\ Events'
  BY EventsOfLiveConnsKept, EventsInUseKept, ReadEventsKept, ActiveKept, OpenAreRegisteredKept DEF Events
<1>5. BeingRegistered'
  BY RegisteringIsOpenKept, WriteIsNewKept, OneRegistersKept, ReadIsNewKept, NobodyElseKept, NothingGivenKept
     DEF BeingRegistered
<1>6. DropIsLast' /\ OpenOrOver' /\ OnlySharedIdsFail' /\ OnlyHalfRegisteredFails'
  BY DropIsLastKept, OpenOrOverKept, FaultsKept
<1> QED
  BY <1>1, <1>2, <1>3, <1>4, <1>5, <1>6 DEF ControlInv

\* Every state of the service satisfies the whole of it: what the theorems
\* below conclude is one part each.
THEOREM ControlHolds == Spec => []ControlInv
<1>1. Init => ControlInv
  BY ControlAtFirst
<1>2. ControlInv /\ [Next]_vars => ControlInv'
  BY ControlIsInductive
<1> QED
  BY <1>1, <1>2, PTL DEF Spec

\* Every variable keeps its type: no context, place, connection or unit is
\* anything but what the code can make.
THEOREM TypeCorrect == Spec => []TypeOK
<1>1. ControlInv => TypeOK
  BY DEF ControlInv
<1> QED
  BY <1>1, ControlHolds, PTL

\* The driver calls no handler of a connection that was deleted, and none with
\* the bytes of the descriptor's next owner: an event in mEventsInfo is that of
\* a connection in mConns that owns the descriptor.
THEOREM NoStaleEvents == Spec => []EventsOfLiveConns
<1>1. ControlInv => EventsOfLiveConns
  BY DEF ControlInv
<1> QED
  BY <1>1, ControlHolds, PTL

\* The connection whose OP_DROP the driver has queued is still there when the
\* driver unlocks its mMutex.
THEOREM DroppedIsNotDeletedYet == Spec => []UnlockFindsConnection
<1>1. ControlInv => UnlockFindsConnection
  BY DEF ControlInv, LockOwner, Locking, LockPcs, At, Threads, UnlockFindsConnection
<1> QED
  BY <1>1, ControlHolds, PTL

\* The asserts of RegistReadEvent and RegistWriteEvent hold, whatever number of
\* ends come, go and come back as their descriptors do; those of AcceptConnection
\* and StartConnectRemote fail only for an id that the other of the two threads
\* took from mMaxID while this one was at its increment.
THEOREM OnlySharedIdsAssert == Spec => []OnlySharedIdsFail
<1>1. ControlInv => OnlySharedIdsFail
  BY DEF ControlInv
<1> QED
  BY <1>1, ControlHolds, PTL

\* UnRegistReadEvent and UnRegistWriteEvent find what they unregister but in one
\* situation: another thread is half-way through registering the connection.
THEOREM UnregistersHalfRegisteredOnly == Spec => []OnlyHalfRegisteredFails
<1>1. ControlInv => OnlyHalfRegisteredFails
  BY DEF ControlInv
<1> QED
  BY <1>1, ControlHolds, PTL

\* Finit leaves no connection open that ever had an id.
THEOREM StoppedIsClosed == Spec => []StopClosesAll
<1>1. ControlInv => StopClosesAll
  BY DEF ControlInv, ThreadPlaces, OpenOrOver, StopClosesAll
<1> QED
  BY <1>1, ControlHolds, PTL

\* After the OP_DROP of a connection the server is given no message of it.
THEOREM NothingAfterItsDrop == Spec => []NothingAfterDrop
<1>1. ASSUME ControlInv PROVE NothingAfterDrop
  <2> SUFFICES ASSUME NEW i \in DOMAIN srvLog, NEW j \in DOMAIN srvLog, i < j,
                      srvLog[i].id = srvLog[j].id, srvLog[i].type = "drop"
               PROVE  srvLog[j].type = "drop"
    BY DEF NothingAfterDrop
  <2>1. /\ i \in DOMAIN Given /\ j \in DOMAIN Given
        /\ Given[i] = srvLog[i] /\ Given[j] = srvLog[j]
    BY <1>1, GivenIsSeq DEF ControlInv
  <2>2. srvLog[j].type # "recv"
    BY <1>1, <2>1 DEF ControlInv, DropIsLast
  <2> QED
    BY <1>1, <2>2 DEF ControlInv, Contexts
<1> QED
  BY <1>1, ControlHolds, PTL


=============================================================================
