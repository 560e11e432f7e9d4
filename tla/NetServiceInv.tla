--------------------------- MODULE NetServiceInv ---------------------------
(***************************************************************************)
(* The inductive invariant of NetService, in named parts.  Control: which  *)
(* thread may be where, who owns a mutex, which descriptor belongs to      *)
(* whom.  Streams: where in its stream of units each connection is.        *)
(***************************************************************************)
EXTENDS NetService

\* Where a thread holds the mMutex of its connection.
LockPcs == {"prerecv", "recv", "sending", "unregRead", "unregWrite", "drop", "unlock"}
DrvPcs  == {"poll", "read", "write", "exited", "asleep"} \cup LockPcs
AppPcs  == {"idle", "insert", "regRead", "regWrite", "join", "done"}
SvcPcs  == {"take", "insert", "regRead", "regWrite", "enq", "write", "sending",
            "unregRead", "unregWrite", "drop", "unlock", "free", "delete",
            "dropAll", "driverStop", "join", "done"}

Locking(t) == at[t].pc \in LockPcs
Registering(t) == at[t].pc \in {"regRead", "regWrite"}

\* What the server is or will be given, in its order.
Given == srvLog \o mQueue
-----------------------------------------------------------------------------
(***************************************************************************)
(* Control.                                                                *)
(***************************************************************************)
ThreadPlaces ==
  /\ at[Drv].pc \in DrvPcs /\ at[Svc].pc \in SvcPcs /\ at[App].pc \in AppPcs
  /\ at[Drv].then # "free" /\ at[Svc].then # "unlock"
  /\ at[Drv].then = "unlock" => at[Drv].pc \in {"unregRead", "unregWrite", "unlock"}
  /\ at[Svc].then = "free" => at[Svc].pc \in {"unregRead", "unregWrite", "free", "delete"} /\ ~mRunning
  /\ ~mRunning => at[App].pc \in {"join", "done"}
  /\ at[Svc].pc \in {"dropAll", "driverStop", "join", "done"} => ~mRunning
  /\ at[Svc].pc \in {"driverStop", "join", "done"} => DOMAIN conns = {}

LockOwner ==
  /\ \A t \in Threads : Locking(t) => at[t].id \in DOMAIN conns /\ Conn(t).lock = t
  /\ \A i \in DOMAIN conns : \A t \in Threads :
       conns[i].lock = t => Locking(t) /\ at[t].id = i
  /\ at[Svc].pc \in {"enq", "write", "free", "delete"} => at[Svc].id \in DOMAIN conns

IsOpen(c) == ~c.closed /\ c.ok /\ c.fd # NoFd
IsShut(c) == c.closed /\ ~c.ok /\ c.fd = NoFd

\* What the mutex guards: a connection nobody locks, and one thread t has locked.
ConnOK(c) ==
  /\ c.lock = NoEnd => IsOpen(c) \/ IsShut(c)
  /\ c.freed => IsShut(c)
  /\ Len(c.buf) < 4
LockedOK(t, pc, c) ==
  /\ pc \in {"prerecv", "recv", "sending"} => IsOpen(c)
  /\ pc = "prerecv" => Len(c.buf) < 2
  /\ pc = "recv" => Len(c.buf) >= 2
  /\ pc = "sending" => c.sendq # <<>>
  /\ pc = "unregRead" => ~c.closed /\ c.fd # NoFd
  /\ pc = "unregWrite" => c.closed /\ c.fd # NoFd
  /\ pc \in {"drop", "unlock"} => IsShut(c) \/ (IsOpen(c) /\ t = Drv /\ ~mRunning /\ c.buf = <<>>)

ConnStates ==
  /\ \A i \in DOMAIN conns : ConnOK(conns[i])
  /\ \A t \in Threads : Locking(t) => LockedOK(t, at[t].pc, Conn(t))
  /\ at[Svc].pc \in {"free", "delete"} => IsShut(Conn(Svc))

\* Ids are given once, each to an end of its own.
IdsOfConns ==
  /\ DOMAIN endOf = 0..(mMaxID - 1) /\ DOMAIN conns \subseteq DOMAIN endOf
  /\ \A i \in DOMAIN conns : conns[i].end = endOf[i]
  /\ \A i, j \in DOMAIN endOf : endOf[i] = endOf[j] => i = j
IdsOfThreads ==
  \A t \in Threads :
    IF At(t, "insert") THEN at[t].id \in 0..mMaxID ELSE at[t].id \in DOMAIN endOf \cup {NoId}

\* What ReadData delivers: a message, or the first bytes of what a length that
\* wraps announced.
IsDelivered(msg) ==
  IF LengthWraps(msg) THEN msg \in [1..3 -> Unit] ELSE msg \in Message

\* What contexts carry, the one the service is at work on among them.
Contexts ==
  /\ \A k \in DOMAIN Given :
       /\ Given[k].type # "accept" => Given[k].id \in DOMAIN endOf
       /\ Given[k].type = "recv" => IsDelivered(Given[k].msg)
       /\ Given[k].type = "send" => Given[k].msg \in Message
  /\ \A k \in DOMAIN srvLog : srvLog[k].type \in {"recv", "drop"}
EnqIsHead == At(Svc, "enq") => mQueue # <<>> /\ Ctx.type = "send" /\ Ctx.id = at[Svc].id

\* A descriptor belongs to one end, an end to one descriptor, and an end that
\* has not connected, or was not accepted yet, to none.
NeverMet(e) == (\A f \in Fds : sock[f] # e) /\ (\A i \in DOMAIN endOf : endOf[i] # e)
SocketOfConn   == \A i \in DOMAIN conns : conns[i].fd # NoFd => sock[conns[i].fd] = endOf[i]
SocketsDiffer  == \A f, g \in Fds : sock[f] = sock[g] /\ sock[f] # NoEnd => f = g
NoneIsNeverMet == \A e \in Ends : link[e] = "none" => NeverMet(e)
Backlog ==
  /\ \A k \in DOMAIN backlog : link[backlog[k]] # "none" /\ NeverMet(backlog[k])
  /\ \A k, l \in DOMAIN backlog : backlog[k] = backlog[l] => k = l

Sockets == SocketOfConn /\ SocketsDiffer /\ NoneIsNeverMet /\ Backlog

\* Accepted or connected, and no connection yet.
IsPending(fd) == fd \in Fds /\ sock[fd] # NoEnd /\ \A i \in DOMAIN endOf : endOf[i] # sock[fd]
PendingThreads ==
  /\ \A t \in Threads : At(t, "insert") => IsPending(at[t].fd)
  /\ \A t, u \in Threads : At(t, "insert") /\ At(u, "insert") /\ t # u => at[t].fd # at[u].fd
PendingContexts ==
  \A k \in DOMAIN mQueue : mQueue[k].type = "accept" =>
    /\ IsPending(mQueue[k].fd)
    /\ \A t \in Threads : At(t, "insert") => at[t].fd # mQueue[k].fd
    /\ \A l \in DOMAIN mQueue : mQueue[l].type = "accept" /\ mQueue[l].fd = mQueue[k].fd => k = l
PendingSockets == PendingThreads /\ PendingContexts

\* A registered descriptor has an event, the read event of an open connection.
EventsInUse == \A fd \in DOMAIN events : \E kind \in {"read", "write"} : events[fd][kind] # NoId
ReadEventsAreOpen ==
  \A fd \in DOMAIN events : events[fd].read # NoId => ~conns[events[fd].read].closed
ActiveAreRegistered ==
  \A ev \in active : /\ ev \in (DOMAIN events) \X {"read", "write"}
                     /\ events[ev[1]][ev[2]] # NoId

\* What an open connection has registered, or is still registering.
IsRegistered(fd, kind, i) == fd \in DOMAIN events /\ events[fd][kind] = i
ReadIsRegistered(i) ==
  \/ \E t \in Threads : At(t, "regRead") /\ at[t].id = i
  \/ conns[i].closed \/ IsRegistered(conns[i].fd, "read", i)
WriteIsRegistered(i) ==
  \/ \E t \in Threads : Registering(t) /\ at[t].id = i
  \/ IsRegistered(conns[i].fd, "write", i)
OpenAreRegistered ==
  \A i \in DOMAIN conns : conns[i].fd # NoFd => ReadIsRegistered(i) /\ WriteIsRegistered(i)

Events == EventsInUse /\ ReadEventsAreOpen /\ ActiveAreRegistered /\ OpenAreRegistered

\* One thread registers a connection that nobody knows before its read event.
RegisteringIsOpen ==
  \A t \in Threads : Registering(t) =>
    at[t].id \in DOMAIN conns /\ at[t].fd # NoFd /\ Conn(t).fd = at[t].fd
WriteIsNew ==
  \A t \in Threads : Registering(t) => \A fd \in DOMAIN events : events[fd].write # at[t].id
OneRegisters ==
  \A t, u \in Threads : Registering(t) /\ Registering(u) /\ at[u].id = at[t].id => u = t
ReadIsNew ==
  \A t \in Threads : At(t, "regRead") => \A fd \in DOMAIN events : events[fd].read # at[t].id
NobodyElse ==
  \A t, u \in Threads : At(t, "regRead") /\ at[u].id = at[t].id => u = t \/ At(u, "insert")
NothingGiven ==
  \A t \in Threads : At(t, "regRead") =>
    \A k \in DOMAIN Given : Given[k].type # "accept" => Given[k].id # at[t].id
BeingRegistered ==
  RegisteringIsOpen /\ WriteIsNew /\ OneRegisters /\ ReadIsNew /\ NobodyElse /\ NothingGiven

\* After the OP_DROP of a connection nothing is received of it.
DropIsLast ==
  /\ \A k \in DOMAIN Given : Given[k].type = "drop" /\ Given[k].id \in DOMAIN conns =>
       conns[Given[k].id].fd = NoFd
  /\ \A k, l \in DOMAIN Given :
       k < l /\ Given[k].type = "drop" /\ Given[l].type = "recv" => Given[k].id # Given[l].id

OpenOrOver ==
  \A i \in DOMAIN endOf : link[endOf[i]] = "over" \/ (i \in DOMAIN conns /\ conns[i].fd # NoFd)

ControlInv ==
  /\ TypeOK /\ ThreadPlaces /\ LockOwner /\ ConnStates
  /\ IdsOfConns /\ IdsOfThreads /\ Contexts /\ EnqIsHead /\ Sockets /\ PendingSockets
  /\ EventsOfLiveConns /\ Events /\ BeingRegistered /\ DropIsLast /\ OpenOrOver
  /\ OnlySharedIdsFail /\ OnlyHalfRegisteredFails
-----------------------------------------------------------------------------
(***************************************************************************)
(* Streams: an end's units are numbered from 0, four to a message.         *)
(***************************************************************************)
IsUnit(u, e, p) ==
  /\ u.from = e /\ u.n = (p \div 4) + 1
  /\ u.part = Parts[(p % 4) + 1] \/ ((p % 4) = 1 /\ u.part \in {"short", "wraps"})

\* The next unit to be received of e is number b.
Stream(e, b) ==
  /\ \A k \in 1..Len(wire[e]) : IsUnit(wire[e][k], e, b + k - 1)
  /\ link[e] \in {"none", "open"} => sent[e] = b + Len(wire[e])

IsUnmet(e) == \A i \in DOMAIN endOf : endOf[i] # e
NothingReceivedYet == \A e \in Ends : IsUnmet(e) => Stream(e, 0)

\* r messages of connection i were received whole.
IsFramed(i, r) ==
  LET c == conns[i] IN
  /\ Stream(endOf[i], 4 * r + Len(c.buf))
  /\ \A k \in 1..Len(c.buf) : IsUnit(c.buf[k], endOf[i], 4 * r + k - 1)
  /\ \A k \in DOMAIN Given : Given[k].type = "recv" /\ Given[k].id = i => Given[k].msg[1].n <= r
  /\ r > 0 => \E k \in DOMAIN Given : Given[k] = Recv(i, Whole(endOf[i], r))

\* Once stopped, the service is given nothing more.
InStep(i) == mRunning /\ conns[i].fd # NoFd /\ ~IsOutOfStep(Given, i, Len(Given))
ReceivedSoFar == \A i \in DOMAIN conns : InStep(i) => \E r \in Nat : IsFramed(i, r)

\* A length that was too short was not kept.
NoShortLength ==
  \A i \in DOMAIN conns : conns[i].fd # NoFd /\ Len(conns[i].buf) >= 2 =>
    conns[i].buf[2].part # "short" \/ (at[Drv].pc \in {"unregRead", "unregWrite"} /\ at[Drv].id = i)

GivenInOrder ==
  \A j \in DOMAIN Given : Given[j].type = "recv" /\ ~IsOutOfStep(Given, Given[j].id, j) =>
    LET id == Given[j].id
        e  == endOf[id]
        n  == Given[j].msg[1].n
    IN  /\ Given[j].msg = Whole(e, n)
        /\ n > 1 => \E k \in 1..j - 1 : Given[k] = Recv(id, Whole(e, n - 1))
        /\ \A k \in 1..j - 1 : Given[k].type = "recv" /\ Given[k].id = id => Given[k].msg[1].n < n

FramingInv == NothingReceivedYet /\ ReceivedSoFar /\ NoShortLength /\ GivenInOrder

\* Connection i's message number n was handled by the server.
Handled(i, n) ==
  \E k \in 1..srvDone : srvLog[k].type = "recv" /\ srvLog[k].id = i /\ srvLog[k].msg = Whole(endOf[i], n)
Answered(e) == Len(got[e]) + Len(unread[e])
Answers(i) == Answered(endOf[i]) + Len(conns[i].sendq)

\* The server does not outlive a broken message.
NoneBroken == \A k \in 1..srvDone : ~IsBroken(srvLog[k])

NothingAnsweredYet == \A e \in Ends : IsUnmet(e) => got[e] = <<>> /\ unread[e] = <<>>

RepliesWhole ==
  \A e \in Ends :
    /\ \A k \in 1..Len(got[e]) : got[e][k] = Whole(e, k)
    /\ \A k \in 1..Len(unread[e]) : unread[e][k] = Whole(e, Len(got[e]) + k)

AnswersFollow ==
  \A i \in DOMAIN conns : conns[i].fd # NoFd /\ link[endOf[i]] = "open" =>
    /\ \A k \in 1..Len(conns[i].sendq) :
         conns[i].sendq[k] = Whole(endOf[i], Answered(endOf[i]) + k)
    /\ Answers(i) > 0 => Handled(i, Answers(i))
    /\ \A k \in DOMAIN mQueue : mQueue[k].type = "send" /\ mQueue[k].id = i =>
         \E n \in Nat :
           /\ mQueue[k].msg = Whole(endOf[i], n) /\ Handled(i, n) /\ n > Answers(i)
           /\ n > Answers(i) + 1 => \E l \in 1..k - 1 : mQueue[l] = Send(i, Whole(endOf[i], n - 1))
           /\ \A l \in 1..k - 1 : mQueue[l].type = "send" /\ mQueue[l].id = i => mQueue[l].msg[1].n < n
    /\ mRunning => \A n \in Nat : Handled(i, n) =>
         n <= Answers(i) \/ \E k \in DOMAIN mQueue : mQueue[k] = Send(i, Whole(endOf[i], n))

RepliesInv == NoneBroken /\ NothingAnsweredYet /\ RepliesWhole /\ AnswersFollow
=============================================================================
