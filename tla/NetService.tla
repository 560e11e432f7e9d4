----------------------------- MODULE NetService -----------------------------
(***************************************************************************)
(* NetService: connections to other processes.  Four threads of this       *)
(* process meet here:                                                      *)
(*   Drv  the Driver: libevent's loop, which calls ReadData and WriteData  *)
(*   Svc  the service itself, a LogicService: accepts, sends, drops        *)
(*   App  the thread that calls StartConnectRemote and Stop                *)
(*        and the server mServer, which takes what was received and whose  *)
(*        answers are OP_SEND contexts, as NetService::RecvMsg makes them. *)
(*                                                                         *)
(* A connection's own state is guarded by its mMutex; mConns, mMaxID and   *)
(* the driver's mEventsInfo are guarded by nothing.  A step is what a      *)
(* thread does up to the next point where another one can interfere: a     *)
(* lock, a blocking call, an access to one of those maps, an Enqueue.      *)
(* The service takes its contexts one at a time: it looks at mRunning      *)
(* before each one, so that taking a batch makes no difference here.       *)
(***************************************************************************)
EXTENDS TcpSocket

CONSTANTS
  Drv, Svc, App,
  NoId,       \* no connection
  MayStop     \* bound: whether App calls Stop at all

ASSUME NetServiceAssumption ==
  /\ Drv # Svc /\ Drv # App /\ Svc # App /\ NoEnd \notin {Drv, Svc, App}
  /\ NoId \notin Nat /\ MayStop \in BOOLEAN

Threads == {Drv, Svc, App}

VARIABLES
  conns,      \* mConns: the connections that exist, by id
  mMaxID,
  events,     \* mEventsInfo: for each fd the connections of its two events
  listening,  \* the accepter's event is registered
  active,     \* events the loop has found ready and not called yet
  mQueue, mRunning,   \* of the service
  at,         \* where each thread is
  srvLog,     \* what the server was given, all of it
  srvDone,    \* how many of these it has handled
  endOf,      \* history: the end each id was given to
  fault       \* what has ended the process

svcVars == <<mQueue, mRunning>>
srvVars == <<srvLog, srvDone>>
connVars == <<conns, mMaxID, endOf>>
drvVars == <<events, listening, active>>
vars == <<netVars, connVars, drvVars, svcVars, at, srvVars, fault>>

Connection == [fd : Fds \cup {NoFd}, end : Ends,
               closed : BOOLEAN,    \* mClosed
               ok : BOOLEAN,        \* ~mSocket->NoOK(), but for mClosed above
               freed : BOOLEAN,     \* its destructor has deleted mSocket
               buf : Seq(Unit),     \* the message being received
               sendq : Seq(Message),
               lock : Threads \cup {NoEnd}]   \* the owner of mMutex

Context == [type : {"accept", "recv", "send", "drop"}, id : Nat \cup {NoId},
            fd : Fds \cup {NoFd}, msg : Seq(Unit)]
Accepted(fd)  == [type |-> "accept", id |-> NoId, fd |-> fd, msg |-> <<>>]
Recv(id, msg) == [type |-> "recv", id |-> id, fd |-> NoFd, msg |-> msg]
SendToNewest(id, msg) == [type |-> "send", id |-> mMaxID - 1, fd |-> NoFd, msg |-> msg]   \* mutant
Send(id, msg) == [type |-> "send", id |-> id, fd |-> NoFd, msg |-> msg]
Drop(id)      == [type |-> "drop", id |-> id, fd |-> NoFd, msg |-> <<>>]

Faults == {"none", "assert id", "assert event", "unregister", "data race",
           "use after free", "overrun", "SIGPIPE"}
Home == [t \in Threads |-> IF t = Drv THEN "poll" ELSE IF t = Svc THEN "take" ELSE "idle"]

ConnPcs == {"read", "prerecv", "recv", "write", "sending", "unregRead", "unregWrite", "drop"}
RegistryPcs == {"regRead", "regWrite", "unregRead", "unregWrite"}
Pcs == Range(Home) \cup ConnPcs \cup RegistryPcs \cup
       {"insert", "enq", "unlock", "free", "delete",
        "dropAll", "driverStop", "join", "exited", "asleep", "done"}

TypeOK ==
  /\ SocketTypeOK
  /\ DOMAIN conns \subseteq Nat /\ \A i \in DOMAIN conns : conns[i] \in Connection
  /\ mMaxID \in Nat
  /\ DOMAIN events \subseteq Fds
  /\ \A fd \in DOMAIN events : events[fd] \in [{"read", "write"} -> Nat \cup {NoId}]
  /\ listening \in BOOLEAN
  /\ active \subseteq (DOMAIN events) \X {"read", "write"}
  /\ mQueue \in Seq(Context) /\ mRunning \in BOOLEAN
  /\ at \in [Threads -> [pc : Pcs, id : Nat \cup {NoId}, fd : Fds \cup {NoFd},
                         then : {"drop", "unlock", "free"}]]
  /\ srvLog \in Seq(Context) /\ srvDone \in 0..Len(srvLog)
  /\ DOMAIN endOf \subseteq Nat /\ Range(endOf) \subseteq Ends
  /\ fault \in Faults

\* The end of Init: the listener and the driver run, the service waits.
Init ==
  /\ SocketInit
  /\ conns = <<>> /\ mMaxID = 0 /\ endOf = <<>>
  /\ events = <<>> /\ listening = TRUE /\ active = {}
  /\ mQueue = <<>> /\ mRunning = TRUE
  /\ at = [t \in Threads |-> [pc |-> Home[t], id |-> NoId, fd |-> NoFd, then |-> "drop"]]
  /\ srvLog = <<>> /\ srvDone = 0
  /\ fault = "none"
-----------------------------------------------------------------------------
At(t, pc) == at[t].pc = pc
Go(t, pc) == at' = [at EXCEPT ![t].pc = pc]
GoFor(t, pc, id, fd) == at' = [at EXCEPT ![t] = [pc |-> pc, id |-> id, fd |-> fd, then |-> "drop"]]
Return(t) == GoFor(t, Home[t], NoId, NoFd)

Conn(t) == conns[at[t].id]
End(t)  == Conn(t).end
Alive(t) == at[t].id \in DOMAIN conns /\ ~Conn(t).freed
SetConn(t, c) == conns' = [conns EXCEPT ![at[t].id] = c]

MutexIsFree(t) == Conn(t).lock = NoEnd
Locked(c, t) == [c EXCEPT !.lock = t]
Unlocked(c)  == [c EXCEPT !.lock = NoEnd]

EnqueueFirst(ctx) == mQueue' = IF mRunning THEN <<ctx>> \o mQueue ELSE mQueue   \* mutant
\* LogicService::Enqueue
Enqueue(ctx) == mQueue' = IF mRunning THEN Append(mQueue, ctx) ELSE mQueue

Dies(why) == fault' = why /\ UNCHANGED <<netVars, connVars, drvVars, svcVars, at, srvVars>>
-----------------------------------------------------------------------------
(***************************************************************************)
(* Driver::RegistReadEvent and its like, and the asserts of RWConnection   *)
(* around them.  What has no event left is erased.                         *)
(***************************************************************************)
Info(fd) == IF fd \in DOMAIN events THEN events[fd] ELSE [read |-> NoId, write |-> NoId]
WithInfo(fd, info) == [f \in DOMAIN events \cup {fd} |-> IF f = fd THEN info ELSE events[f]]
Registered(fd, kind, id) == WithInfo(fd, [Info(fd) EXCEPT ![kind] = id])
InvalidWithoutRead(fd, kind) ==     \* mutant: IsInvalid looks at one event
  LET rest == Registered(fd, kind, NoId)
  IN  IF rest[fd].read = NoId THEN Restrict(rest, DOMAIN rest \ {fd}) ELSE rest
Unregistered(fd, kind) ==
  LET rest == Registered(fd, kind, NoId)
  IN  IF rest[fd].read = NoId /\ rest[fd].write = NoId
      THEN Restrict(rest, DOMAIN rest \ {fd}) ELSE rest

RegistEvent(t, kind) ==
  LET fd == at[t].fd IN
  IF Info(fd)[kind] # NoId
  THEN Dies("assert event")
  ELSE /\ events' = Registered(fd, kind, at[t].id)
       /\ IF kind = "read" THEN Go(t, "regWrite") ELSE Return(t)
       /\ UNCHANGED <<netVars, connVars, listening, active, svcVars, srvVars, fault>>

\* The write event waits for EV_READ too: both handlers are called for what comes.
RegistReadEvent(t)  == At(t, "regRead") /\ RegistEvent(t, "read")
RegistWriteEvent(t) == At(t, "regWrite") /\ RegistEvent(t, "write")

KeepsWriteEvent(fd, kind) ==     \* mutant: Close forgets the write event
  /\ fd \in DOMAIN events
  /\ IF kind = "read" THEN events' = Unregistered(fd, kind) ELSE UNCHANGED events
  /\ active' = active \ {<<fd, kind>>}
StaysActive(fd, kind) ==         \* mutant: event_free without event_del
  fd \in DOMAIN events /\ events' = Unregistered(fd, kind) /\ UNCHANGED active

\* event_del also takes the event back that the loop was about to call.
UnRegistEvent(fd, kind) ==
  /\ fd \in DOMAIN events
  /\ events' = Unregistered(fd, kind)
  /\ active' = active \ {<<fd, kind>>}

UnRegistFails(t) ==
  /\ (At(t, "unregRead") /\ ~Conn(t).closed) \/ At(t, "unregWrite")
  /\ Conn(t).fd \notin DOMAIN events
  /\ Dies("unregister")
-----------------------------------------------------------------------------
(***************************************************************************)
(* TcpConnection, in the driver or in the service.  Close, when ReadData   *)
(* or WriteData calls it for an error, is followed by OP_DROP.             *)
(***************************************************************************)
CloseUnregistersRead(t) ==
  LET c == Conn(t) IN
  /\ At(t, "unregRead") /\ ~c.closed
  /\ UnRegistEvent(c.fd, "read")
  /\ SetConn(t, [c EXCEPT !.closed = TRUE])
  /\ Go(t, "unregWrite")
  /\ UNCHANGED <<netVars, mMaxID, endOf, listening, svcVars, srvVars, fault>>

\* UnRegistWriteEvent, mSocket->Close() and FreeNotSendMsg
CloseSocket(t) ==
  LET c == [Conn(t) EXCEPT !.fd = NoFd, !.ok = FALSE, !.sendq = <<>>]
      finit == at[t].then = "free" IN
  /\ At(t, "unregWrite")
  /\ UnRegistEvent(Conn(t).fd, "write")
  /\ SocketClose(Conn(t).fd)
  /\ SetConn(t, IF finit THEN Unlocked(c) ELSE c)
  /\ Go(t, at[t].then)
  /\ UNCHANGED <<mMaxID, endOf, listening, svcVars, srvVars, fault>>

OnlyServiceTells(t) == IF t = Svc THEN Enqueue(Drop(at[t].id)) ELSE UNCHANGED mQueue  \* mutant
TellsOfDrop(t) == Enqueue(Drop(at[t].id))

\* ReadData also resets what it was receiving.  WriteData does not, but then the
\* connection is closed and nobody looks at it.
EnqueueDrop(t) ==
  /\ At(t, "drop")
  /\ TellsOfDrop(t)
  /\ SetConn(t, IF t = Drv THEN [Conn(t) EXCEPT !.buf = <<>>] ELSE Conn(t))
  /\ Go(t, "unlock")
  /\ UNCHANGED <<netVars, mMaxID, endOf, drvVars, mRunning, srvVars, fault>>

Unlock(t) ==
  /\ At(t, "unlock")
  /\ SetConn(t, Unlocked(Conn(t)))
  /\ Return(t)
  /\ UNCHANGED <<netVars, mMaxID, endOf, drvVars, svcVars, srvVars, fault>>

\* ReadData, with mMutex held to its end.
ReadData ==
  LET c == Conn(Drv) IN
  /\ At(Drv, "read") /\ MutexIsFree(Drv)
  /\ SetConn(Drv, Locked(c, Drv))
  /\ Go(Drv, IF ~c.ok THEN "drop" ELSE IF Len(c.buf) < 2 THEN "prerecv" ELSE "recv")
  /\ UNCHANGED <<netVars, mMaxID, endOf, drvVars, svcVars, srvVars, fault>>

(***************************************************************************)
(* PreRecv waits in RecvAll until it has the length.  A length too short   *)
(* for a message is no error to ReadData: it closes the connection, and    *)
(* queues no OP_DROP (dataLen < 0, of an unsigned, is never true).  A      *)
(* length that wraps passes, and dataLen + HEAD_LENGTH is 0 to 7 bytes:    *)
(* too few for SetLen's four (LengthOverruns), or for four to be received  *)
(* and none left to ask for (AsksForNothing), or for one to three of the   *)
(* body: ReadData delivers these and takes what follows for a length.      *)
(***************************************************************************)
LengthWraps(buf) == buf[2].part = "wraps"
Needed(buf) == IF LengthWraps(buf) THEN 3 ELSE 4

\* Out of step, two units that are not a length are read as any length.
ReadAs(buf, unit) ==
  IF buf = <<>> \/ buf[1].part = "len1" THEN {unit}
  ELSE {[unit EXCEPT !.part = part] : part \in {"len2", "short", "wraps"}}

LengthOverruns ==
  LET c == Conn(Drv)
      e == End(Drv) IN
  /\ At(Drv, "prerecv") /\ c.buf # <<>> /\ RecvTakes(e, 1)
  /\ \E unit \in ReadAs(c.buf, Head(wire[e])) : unit.part = "wraps"
  /\ Dies("overrun")

AfterLength(unit) ==
  IF unit.part = "short"
  THEN at' = [at EXCEPT ![Drv].pc = "unregRead", ![Drv].then = "unlock"]
  ELSE Go(Drv, "recv")

PreRecv ==
  LET c == Conn(Drv)
      e == End(Drv) IN
  /\ At(Drv, "prerecv")
  /\ \/ /\ RecvTakes(e, 1) /\ Received(e, 1)
        /\ \E unit \in ReadAs(c.buf, Head(wire[e])) :
             /\ SetConn(Drv, [c EXCEPT !.buf = Append(@, unit)])
             /\ IF c.buf = <<>> THEN UNCHANGED at ELSE AfterLength(unit)
        /\ UNCHANGED link
     \/ /\ \/ RecvIsAtEnd(e) /\ UNCHANGED link
           \/ RecvFails(e) /\ ErrorReported(e)
        /\ SetConn(Drv, [c EXCEPT !.ok = FALSE])
        /\ Go(Drv, "unregRead")
        /\ UNCHANGED wire
  /\ UNCHANGED <<budget, sock, backlog, unread, sent, got, mMaxID, endOf, drvVars, svcVars, srvVars, fault>>

PlacedFirst(buf, data) == data \o buf   \* mutant: received at GetBuffer() without + mRecved
Placed(buf, data) == buf \o data

\* Recv takes what is there, or waits.  Its received is unsigned: -1 is not
\* seen to be an error, and only the next call finds the connection closed.
RecvData ==
  LET c == Conn(Drv)
      e == End(Drv) IN
  /\ At(Drv, "recv")
  /\ \E k \in 1..Needed(c.buf) - Len(c.buf) :
       /\ RecvTakes(e, k) /\ Received(e, k)
       /\ LET buf == Placed(c.buf, SubSeq(wire[e], 1, k)) IN
          IF Len(buf) < Needed(c.buf)
          THEN /\ SetConn(Drv, Unlocked([c EXCEPT !.buf = buf]))
               /\ Return(Drv)
               /\ UNCHANGED mQueue
          ELSE /\ Enqueue(Recv(at[Drv].id, buf))
               /\ IF mRunning
                  THEN SetConn(Drv, Unlocked([c EXCEPT !.buf = <<>>])) /\ Return(Drv)
                  ELSE SetConn(Drv, [c EXCEPT !.buf = <<>>]) /\ Go(Drv, "drop")
  /\ UNCHANGED <<budget, sock, backlog, link, unread, sent, got, mMaxID, endOf, drvVars, mRunning, srvVars, fault>>

\* recv of 0 bytes returns 0, once there is data, and Recv takes that for the end.
AsksForNothing(buf, e) == LengthWraps(buf) /\ wire[e] # <<>>

RecvGetsNothing ==
  LET c == Conn(Drv)
      e == End(Drv) IN
  /\ At(Drv, "recv")
  /\ \/ /\ RecvIsAtEnd(e) \/ AsksForNothing(c.buf, e)
        /\ UNCHANGED link
        /\ SetConn(Drv, [c EXCEPT !.ok = FALSE])
        /\ Go(Drv, "unregRead")
     \/ /\ RecvFails(e) /\ ErrorReported(e)
        /\ SetConn(Drv, Unlocked(c))
        /\ Return(Drv)
  /\ UNCHANGED <<budget, sock, backlog, wire, unread, sent, got, mMaxID, endOf, drvVars, svcVars, srvVars, fault>>

\* WriteData sends at most one message.
WriteData(t) ==
  LET c == Conn(t) IN
  /\ At(t, "write") /\ MutexIsFree(t)
  /\ IF c.closed \/ ~c.ok \/ c.sendq = <<>>
     THEN Return(t) /\ UNCHANGED conns
     ELSE Go(t, "sending") /\ SetConn(t, Locked(c, t))
  /\ UNCHANGED <<netVars, mMaxID, endOf, drvVars, svcVars, srvVars, fault>>

SendData(t) ==
  LET c == Conn(t)
      e == End(t) IN
  /\ At(t, "sending")
  /\ \/ /\ Sent(e, Head(c.sendq))
        /\ SetConn(t, Unlocked([c EXCEPT !.sendq = Tail(@)]))
        /\ Return(t)
     \/ /\ SendFails(e) /\ ErrorReported(e)
        /\ SetConn(t, [c EXCEPT !.ok = FALSE])
        /\ Go(t, "unregRead")
        /\ UNCHANGED unread
  /\ UNCHANGED <<budget, sock, backlog, wire, sent, got, mMaxID, endOf, drvVars, svcVars, srvVars, fault>>

SendKilled(t) == At(t, "sending") /\ SendKills(End(t)) /\ Dies("SIGPIPE")

Connections(t) ==
  \/ CloseUnregistersRead(t) \/ CloseSocket(t) \/ UnRegistFails(t)
  \/ EnqueueDrop(t)
  \/ WriteData(t) \/ SendData(t) \/ SendKilled(t)
-----------------------------------------------------------------------------
(***************************************************************************)
(* The driver's loop.  Both events of a descriptor are found ready at once *)
(* and called in either order.                                             *)
(***************************************************************************)
\* Accepter::ReadData, as one step: that Finit may delete the accepter in the
\* middle of it is left out.
Accept ==
  /\ At(Drv, "poll") /\ active = {}
  /\ listening /\ backlog # <<>> /\ FreeFds # {}
  /\ sock' = [sock EXCEPT ![FreeFd] = Head(backlog)]
  /\ backlog' = Tail(backlog)
  /\ Enqueue(Accepted(FreeFd))
  /\ UNCHANGED <<budget, link, wire, unread, sent, got, connVars, drvVars, mRunning, at, srvVars, fault>>

FindReady ==
  /\ At(Drv, "poll") /\ active = {}
  /\ \E fd \in DOMAIN events :
       /\ Readable(EndOf(fd))
       /\ active' = {<<fd, kind>> : kind \in {k \in {"read", "write"} : events[fd][k] # NoId}}
  /\ UNCHANGED <<netVars, connVars, events, listening, svcVars, at, srvVars, fault>>

CallHandler ==
  /\ At(Drv, "poll")
  /\ \E ev \in active :
       /\ GoFor(Drv, ev[2], events[ev[1]][ev[2]], NoFd)
       /\ active' = active \ {ev}
  /\ UNCHANGED <<netVars, connVars, events, listening, svcVars, srvVars, fault>>

\* The handler's connection was deleted under it.
UseAfterFree ==
  /\ \/ at[Drv].pc \in ConnPcs /\ ~Alive(Drv)
     \/ At(Drv, "unlock") /\ at[Drv].id \notin DOMAIN conns
  /\ Dies("use after free")

DriverStep ==
  \/ Accept \/ FindReady \/ CallHandler \/ UseAfterFree
  \/ Unlock(Drv)
  \/ Alive(Drv) /\ (ReadData \/ PreRecv \/ LengthOverruns \/ RecvData \/ RecvGetsNothing
                    \/ Connections(Drv))
-----------------------------------------------------------------------------
(***************************************************************************)
(* Two threads take ids and register connections: the service those it     *)
(* accepts, the application those it opens.                                *)
(***************************************************************************)
NewConnection(e, fd) ==
  [fd |-> fd, end |-> e, closed |-> FALSE, ok |-> TRUE, freed |-> FALSE,
   buf |-> <<>>, sendq |-> <<>>, lock |-> NoEnd]

NotCounted(id) == id     \* mutant
NextId(id) == id + 1

InsertConnection(t) ==
  LET id == at[t].id
      e  == EndOf(at[t].fd) IN
  /\ At(t, "insert") /\ mMaxID = id
  /\ IF id \in DOMAIN conns
     THEN Dies("assert id")
     ELSE /\ mMaxID' = NextId(id)
          /\ conns' = [i \in DOMAIN conns \cup {id} |-> IF i = id THEN NewConnection(e, at[t].fd) ELSE conns[i]]
          /\ endOf' = [i \in DOMAIN endOf \cup {id} |-> IF i = id THEN e ELSE endOf[i]]
          /\ Go(t, "regRead")
          /\ UNCHANGED <<netVars, drvVars, svcVars, srvVars, fault>>

\* The two increments of mMaxID overlapped.  The assert fails if the other's
\* connection still exists; if not, the id is given a second time, undetected.
SameId(t) ==
  /\ At(t, "insert") /\ mMaxID # at[t].id
  /\ IF at[t].id \in DOMAIN conns THEN Dies("assert id") ELSE Dies("data race")

Registers(t) ==
  InsertConnection(t) \/ SameId(t) \/ RegistReadEvent(t) \/ RegistWriteEvent(t)

\* The application thread: StartConnectRemote, and in the end Stop.  Between
\* connect and mMaxID++ there is nothing another thread could see.  A connect
\* that fails, and the descriptor taken while connect blocks, are left out.
StartConnectRemote(r) ==
  /\ At(App, "idle") /\ mRunning
  /\ link[r] = "none" /\ budget[r] > 0 /\ FreeFds # {}
  /\ sock' = [sock EXCEPT ![FreeFd] = r]
  /\ link' = [link EXCEPT ![r] = "open"]
  /\ GoFor(App, "insert", mMaxID, FreeFd)
  /\ UNCHANGED <<budget, backlog, wire, unread, sent, got, connVars, drvVars, svcVars, srvVars, fault>>

Stop ==
  /\ MayStop
  /\ At(App, "idle") /\ mRunning
  /\ mRunning' = FALSE
  /\ Go(App, "join")
  /\ UNCHANGED <<netVars, connVars, drvVars, mQueue, srvVars, fault>>

StopReturns ==
  /\ At(App, "join") /\ At(Svc, "done")
  /\ Go(App, "done")
  /\ UNCHANGED <<netVars, connVars, drvVars, svcVars, srvVars, fault>>

AppStep == (\E r \in Remotes : StartConnectRemote(r)) \/ Registers(App) \/ Stop \/ StopReturns
-----------------------------------------------------------------------------
(***************************************************************************)
(* The service.                                                            *)
(***************************************************************************)
Taking == At(Svc, "take") /\ mRunning /\ mQueue # <<>>
Ctx == Head(mQueue)

AcceptConnection ==
  /\ Taking /\ Ctx.type = "accept"
  /\ mQueue' = Tail(mQueue)
  /\ GoFor(Svc, "insert", mMaxID, Ctx.fd)
  /\ UNCHANGED <<netVars, connVars, drvVars, mRunning, srvVars, fault>>

ProcessRecv ==
  /\ Taking /\ Ctx.type = "recv"
  /\ mQueue' = Tail(mQueue)
  /\ srvLog' = Append(srvLog, Ctx)
  /\ UNCHANGED <<netVars, connVars, drvVars, mRunning, at, srvDone, fault>>

\* SendMsg; the connection's Enqueue, in "enq", waits for mMutex.
SendMsg ==
  /\ Taking /\ Ctx.type = "send"
  /\ IF Ctx.id \in DOMAIN conns
     THEN GoFor(Svc, "enq", Ctx.id, NoFd) /\ UNCHANGED mQueue
     ELSE mQueue' = Tail(mQueue) /\ UNCHANGED at
  /\ UNCHANGED <<netVars, connVars, drvVars, mRunning, srvVars, fault>>

LeftToTheEvent == Return(Svc)     \* mutant: WriteData is not called
ThenWrites == Go(Svc, "write")

EnqueueMsg ==
  /\ At(Svc, "enq") /\ MutexIsFree(Svc)
  /\ SetConn(Svc, [Conn(Svc) EXCEPT !.sendq = Append(@, Ctx.msg)])
  /\ mQueue' = Tail(mQueue)
  /\ ThenWrites
  /\ UNCHANGED <<netVars, mMaxID, endOf, drvVars, mRunning, srvVars, fault>>

\* A connection can be dropped twice, and the server is told each time.
DropConnection ==
  /\ Taking /\ Ctx.type = "drop"
  /\ mQueue' = Tail(mQueue)
  /\ srvLog' = Append(srvLog, Ctx)
  /\ IF Ctx.id \in DOMAIN conns THEN GoFor(Svc, "free", Ctx.id, NoFd) ELSE UNCHANGED at
  /\ UNCHANGED <<netVars, connVars, drvVars, mRunning, srvDone, fault>>

\* ~TcpConnection deletes mSocket, then takes mMutex in FreeNotSendMsg.
FreeSocket ==
  /\ At(Svc, "free")
  /\ IF Conn(Svc).fd = NoFd THEN UNCHANGED netVars ELSE SocketClose(Conn(Svc).fd)
  /\ SetConn(Svc, [Conn(Svc) EXCEPT !.freed = TRUE, !.fd = NoFd])
  /\ Go(Svc, "delete")
  /\ UNCHANGED <<mMaxID, endOf, drvVars, svcVars, srvVars, fault>>

FreesUnlocked == TRUE             \* mutant: FreeNotSendMsg takes no lock
FreesLocked == MutexIsFree(Svc)

DeleteConnection ==
  /\ At(Svc, "delete") /\ FreesLocked
  /\ conns' = Restrict(conns, DOMAIN conns \ {at[Svc].id})
  /\ IF at[Svc].then = "free" THEN GoFor(Svc, "dropAll", NoId, NoFd) ELSE Return(Svc)
  /\ UNCHANGED <<netVars, mMaxID, endOf, drvVars, svcVars, srvVars, fault>>

(***************************************************************************)
(* Finit.  What was queued is forgotten: an accepted socket stays open.    *)
(* Closing the listening socket resets what was not accepted.              *)
(***************************************************************************)
StopListener ==
  /\ At(Svc, "take") /\ ~mRunning
  /\ listening' = FALSE
  /\ link' = [e \in Ends |-> IF e \in Range(backlog) THEN "over" ELSE link[e]]
  /\ wire' = [e \in Ends |-> IF e \in Range(backlog) THEN <<>> ELSE wire[e]]
  /\ backlog' = <<>> /\ mQueue' = <<>>
  /\ GoFor(Svc, "dropAll", NoId, NoFd)
  /\ UNCHANGED <<budget, sock, unread, sent, got, connVars, events, active, mRunning, srvVars, fault>>

DropNextConnection ==
  LET id == Min(DOMAIN conns) IN
  /\ At(Svc, "dropAll") /\ DOMAIN conns # {}
  /\ conns[id].lock = NoEnd
  /\ IF conns[id].closed
     THEN at' = [at EXCEPT ![Svc] = [pc |-> "free", id |-> id, fd |-> NoFd, then |-> "free"]]
          /\ UNCHANGED conns
     ELSE at' = [at EXCEPT ![Svc] = [pc |-> "unregRead", id |-> id, fd |-> NoFd, then |-> "free"]]
          /\ conns' = [conns EXCEPT ![id] = Locked(@, Svc)]
  /\ UNCHANGED <<netVars, mMaxID, endOf, drvVars, svcVars, srvVars, fault>>

NoneDropped ==                  \* mutant: Finit without DropAllConnections
  /\ At(Svc, "dropAll")
  /\ Go(Svc, "driverStop")
  /\ UNCHANGED <<netVars, connVars, drvVars, svcVars, srvVars, fault>>
AllDropped ==
  /\ At(Svc, "dropAll") /\ DOMAIN conns = {}
  /\ Go(Svc, "driverStop")
  /\ UNCHANGED <<netVars, connVars, drvVars, svcVars, srvVars, fault>>

\* Driver::Stop frees the event base under the running loop, which may have
\* seen the loopbreak by then, may not wake up any more, or goes on using it.
DriverStop ==
  /\ At(Svc, "driverStop")
  /\ \/ /\ At(Drv, "poll") /\ active = {}
        /\ \E pc \in {"exited", "asleep"} :
             at' = [at EXCEPT ![Svc].pc = "join", ![Drv].pc = pc]
        /\ UNCHANGED <<netVars, connVars, drvVars, svcVars, srvVars, fault>>
     \/ Dies("use after free")

JoinDriver ==
  /\ At(Svc, "join") /\ At(Drv, "exited")
  /\ Go(Svc, "done")
  /\ UNCHANGED <<netVars, connVars, drvVars, svcVars, srvVars, fault>>

ServiceStep ==
  \/ AcceptConnection \/ Registers(Svc) \/ ProcessRecv
  \/ SendMsg \/ EnqueueMsg \/ Connections(Svc) \/ Unlock(Svc)
  \/ DropConnection \/ FreeSocket \/ DeleteConnection
  \/ StopListener \/ DropNextConnection \/ AllDropped \/ DriverStop \/ JoinDriver

IsBroken(ctx) == ctx.type = "recv" /\ LengthWraps(ctx.msg)

\* The server answers every message, as RecvMsg does.
ServerHandles ==
  /\ srvDone < Len(srvLog) /\ ~IsBroken(srvLog[srvDone + 1])
  /\ LET ctx == srvLog[srvDone + 1] IN
     IF ctx.type = "recv" THEN Enqueue(Send(ctx.id, ctx.msg)) ELSE UNCHANGED mQueue
  /\ srvDone' = srvDone + 1
  /\ UNCHANGED <<netVars, connVars, drvVars, mRunning, at, srvLog, fault>>

\* It reads a string behind the head, where a message of seven bytes has no more.
ServerOverruns ==
  /\ srvDone < Len(srvLog) /\ IsBroken(srvLog[srvDone + 1])
  /\ Dies("overrun")

ServerStep == ServerHandles \/ ServerOverruns
-----------------------------------------------------------------------------
(***************************************************************************)
(* Two threads inside the same map at once.  Undefined behaviour: the      *)
(* process ends here, as it does in UseAfterFree.  libevent's own base has *)
(* no lock either (nothing calls evthread_use_pthreads): event_add and     *)
(* event_del are taken as atomic, and no race with its loop is counted.    *)
(***************************************************************************)
InRegistry(t) == at[t].pc \in RegistryPcs \/ (t = Svc /\ At(t, "take") /\ ~mRunning)
InMaps(t) ==    \* mConns or mMaxID
  At(t, "insert") \/ (t = Svc /\ (at[t].pc \in {"delete", "dropAll"}
                                \/ (Taking /\ Ctx.type \in {"send", "drop"})))

DataRace ==
  /\ \E t, u \in Threads : t # u /\ ((InRegistry(t) /\ InRegistry(u)) \/ (InMaps(t) /\ InMaps(u)))
  /\ Dies("data race")

EndStep(e) == EndSteps(e) /\ UNCHANGED <<connVars, drvVars, svcVars, at, srvVars, fault>>

Step(A) == fault = "none" /\ A

Next ==
  \/ Step(DriverStep) \/ Step(ServiceStep) \/ Step(AppStep) \/ Step(ServerStep)
  \/ \E e \in Ends : Step(EndStep(e))
  \/ Step(DataRace)

Spec == Init /\ [][Next]_vars

\* The threads of the process run.  Nothing is asked of the ends: they may be
\* silent for ever, half-way through a length too, and never read a reply.
FairSpec ==
  /\ Spec
  /\ WF_vars(Step(DriverStep)) /\ WF_vars(Step(ServiceStep))
  /\ WF_vars(Step(ServerStep)) /\ WF_vars(Step(Registers(App)))
-----------------------------------------------------------------------------
(***************************************************************************)
(* Properties.                                                             *)
(***************************************************************************)
\* Among the first j contexts is a message of connection i whose length wraps.
IsOutOfStep(log, i, j) == \E k \in 1..j : IsBroken(log[k]) /\ log[k].id = i

\* What the server is given of a connection (RecvMsg) is the messages its end
\* sent, whole, in order and each once, however they arrived in pieces and
\* whoever had the descriptor before.  One exception: a length that wraps in
\* ReadData's dataLen + HEAD_LENGTH, whose message and all that follow are broken.
FramedInOrder ==
  \A j \in DOMAIN srvLog :
    srvLog[j].type = "recv" /\ ~IsOutOfStep(srvLog, srvLog[j].id, j) =>
    LET id == srvLog[j].id
        e  == endOf[id]
        n  == srvLog[j].msg[1].n
    IN  /\ srvLog[j].msg = Whole(e, n)
        /\ n > 1 => \E k \in 1..j - 1 : srvLog[k] = Recv(id, Whole(e, n - 1))
        /\ \A k \in 1..j - 1 : srvLog[k].type = "recv" /\ srvLog[k].id = id => srvLog[k].msg[1].n < n

\* An end gets the answers to its own messages, in order and each once, though
\* connections come and go and their descriptors are used again (SendMsg finds
\* the connection by its id).
RepliesInOrder ==
  \A e \in Ends :
    LET replies == got[e] \o unread[e]
    IN  \A i \in DOMAIN replies : replies[i] = Whole(e, i)

\* Once the server was told that a connection is dropped it is given no message
\* of it any more, though two threads may queue the OP_DROP.
NothingAfterDrop ==
  \A i, j \in DOMAIN srvLog :
    i < j /\ srvLog[i].id = srvLog[j].id /\ srvLog[i].type = "drop" => srvLog[j].type = "drop"

\* Driver::mEventsInfo and mConns agree: an event belongs to a connection that
\* exists and owns the descriptor, so that no handler is called with one that
\* was deleted, or with the bytes of the descriptor's next owner.
EventsOfLiveConns ==
  \A fd \in DOMAIN events : \A kind \in {"read", "write"} :
    LET id == events[fd][kind] IN
    id # NoId => /\ id \in DOMAIN conns
                 /\ conns[id].fd = fd /\ ~conns[id].freed
                 /\ sock[fd] = endOf[id]

\* The driver still uses a connection after it queued its OP_DROP, to unlock
\* mMutex; the destructor takes that mutex, so that it is still there.
UnlockFindsConnection == At(Drv, "unlock") => at[Drv].id \in DOMAIN conns

\* A descriptor that is registered has no event left of its last owner: the
\* asserts of RegistReadEvent and RegistWriteEvent hold.  An id that is taken has
\* no connection, but for the two threads that increment mMaxID at once: those of
\* AcceptConnection and StartConnectRemote fail only for an id that another thread
\* has taken since this one read it.
OnlySharedIdsFail ==
  /\ fault # "assert event"
  /\ fault = "assert id" => \E t \in {Svc, App} : At(t, "insert") /\ at[t].id < mMaxID

\* The assert of RWConnection::UnRegistReadEvent and UnRegistWriteEvent fails in
\* one situation only: another thread is between registering the connection's
\* read event and its write event.
OnlyHalfRegisteredFails ==
  fault = "unregister" =>
    \E t, u \in Threads : /\ at[t].pc \in {"unregRead", "unregWrite"}
                          /\ At(u, "regWrite") /\ at[u].id = at[t].id

\* When Finit is done with the connections, none that had an id is left open:
\* every end was told.
StopClosesAll ==
  at[Svc].pc \in {"driverStop", "join", "done"} =>
    \A id \in DOMAIN endOf : link[endOf[id]] = "over"

\* The process waits for end e: for the rest of a length or message, or for e
\* to read.
WaitsFor(e) ==
  \/ at[Drv].pc \in {"prerecv", "recv"} /\ Alive(Drv) /\ End(Drv) = e /\ RecvBlocks(e)
  \/ \E t \in {Drv, Svc} : At(t, "sending") /\ Alive(t) /\ End(t) = e /\ SendBlocks(e)

\* When an end closes or crashes the server is told, unless some other end, which
\* may be silent for ever, keeps the process waiting (PreRecv, Recv, Send), or
\* ReadData has closed the connection for a length that was too short: then
\* nobody is told, and the connection stays in mConns.
ToldOf(e) == \E id \in DOMAIN endOf : endOf[id] = e /\ Drop(id) \in Range(srvLog)
Forgotten(e) == \E id \in DOMAIN conns :
  endOf[id] = e /\ conns[id].closed /\ Len(conns[id].buf) = 2 /\ conns[id].buf[2].part = "short"
GoneIsDropped ==
  \A e \in Ends :
    (e \in Range(endOf) /\ link[e] \in {"fin", "rst", "dead"}) ~>
      \/ ToldOf(e) \/ Forgotten(e) \/ ~mRunning \/ fault # "none"
      \/ [](\E f \in Ends \ {e} : WaitsFor(f))

\* The messages the server was given of an end are answered in the end, unless
\* the connection is gone or an end keeps the process waiting for ever.
AnsweredOrClosed ==
  \A e \in Ends :
    LET given == Cardinality({i \in DOMAIN srvLog : srvLog[i].type = "recv" /\ endOf[srvLog[i].id] = e})
        answered == Len(got[e] \o unread[e])
    IN  answered < given ~>
          \/ answered = given \/ link[e] # "open" \/ ~mRunning \/ fault # "none"
          \/ [](\E f \in Ends : WaitsFor(f))
=============================================================================
