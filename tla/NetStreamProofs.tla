-------------------------- MODULE NetStreamProofs ---------------------------
(***************************************************************************)
(* What goes over a connection, for any ends, budgets and connections:     *)
(* FramingInv and RepliesInv of NetServiceInv are inductive, given         *)
(* ControlInv.  First what each step leaves of the bytes under way, of the *)
(* connections' buffers, and of the contexts; then a lemma per part.       *)
(***************************************************************************)
EXTENDS NetServiceProofs

\* Nothing is taken of what end e has sent but its end, by a crash, and e sends
\* nothing more.
StreamStays(e) ==
  /\ Len(wire'[e]) <= Len(wire[e]) /\ \A k \in 1..Len(wire'[e]) : wire'[e][k] = wire[e][k]
  /\ link'[e] \in {"none", "open"} =>
       link[e] \in {"none", "open"} /\ Len(wire'[e]) = Len(wire[e]) /\ sent'[e] = sent[e]
StreamsStay == \A e \in Ends : StreamStays(e)

Receives == Alive(Drv) /\ (PreRecv \/ RecvData)
Transmits == \E e \in Ends : EndStep(e) /\ EndSends(e)
Inserts == fault' = "none" /\ \E t \in {Svc, App} : InsertConnection(t)
Replies == \E t \in {Drv, Svc} : SendData(t)

LEMMA StreamSteps ==
  ASSUME ControlInv, [Next]_vars
  PROVE  StreamsStay \/ Receives \/ Transmits
<1>a. wire \in [Ends -> Seq(Unit)] /\ link \in [Ends -> LinkStates]
  BY DEF ControlInv, TypeOK, SocketTypeOK
<1> USE <1>a, NetServiceAssumption
    DEF svcVars, connVars, srvVars, drvVars, Threads
<1>1. CASE UNCHANGED <<wire, link, sent>>
  BY <1>1
     DEF StreamsStay, StreamStays
<1>2. CASE Alive(Drv) /\ PreRecv
  BY <1>2 DEF Receives
<1>3. CASE Alive(Drv) /\ RecvData
  BY <1>3 DEF Receives
<1>4. CASE Alive(Drv) /\ RecvGetsNothing
  <2>1. UNCHANGED <<wire, sent>> /\ (UNCHANGED link \/ ErrorReported(End(Drv)))
    BY <1>4 DEF RecvGetsNothing
  <2>2. \A e \in Ends : link'[e] \in {"none", "open"} => link[e] \in {"none", "open"}
    BY <2>1 DEF ErrorReported
  <2> QED
    BY <2>1, <2>2 DEF StreamsStay, StreamStays
<1>5. ASSUME NEW t \in {Drv, Svc}, CloseSocket(t) PROVE StreamsStay \/ Receives \/ Transmits
  <2>0. PICK i, f, e : SocketClosed(t, i, f, e) /\ i = at[t].id /\ f = Conn(t).fd /\ e = endOf[i]
    BY <1>5, CloseSocketDoes
  <2>1. /\ link' = [link EXCEPT ![e] = "over"] /\ wire' = [wire EXCEPT ![e] = <<>>]
        /\ e \in Ends /\ UNCHANGED sent
    BY <2>0 DEF SocketClosed
  <2>2. link'[e] = "over" /\ wire'[e] = <<>> /\ Len(wire[e]) \in Nat
    BY <2>1
  <2>3. \A d \in Ends : d # e => link'[d] = link[d] /\ wire'[d] = wire[d]
    BY <2>1
  <2>4. StreamStays(e)
    BY <2>1, <2>2 DEF StreamStays
  <2>5. ASSUME NEW d \in Ends, d # e PROVE StreamStays(d)
    BY <2>1, <2>3, <2>5 DEF StreamStays
  <2> QED
    BY <2>4, <2>5 DEF StreamsStay
<1>6. ASSUME NEW t \in {Drv, Svc}, SendData(t) PROVE StreamsStay \/ Receives \/ Transmits
  <2>1. UNCHANGED <<wire, sent>> /\ \E e : UNCHANGED link \/ link' = [link EXCEPT ![e] = "dead"]
    BY <1>6 DEF SendData, Sent, ErrorReported
  <2>2. \A e \in Ends : link'[e] \in {"none", "open"} => link[e] \in {"none", "open"}
    BY <2>1
  <2> QED
    BY <2>1, <2>2 DEF StreamsStay, StreamStays
<1>7. CASE FreeSocket
  <2>0. PICK i : Freed(i) /\ i = at[Svc].id
    BY <1>7, FreeSocketDoes
  <2>1. UNCHANGED <<link, wire, sent>>
    BY <2>0 DEF Freed
  <2> QED
    BY <2>1 DEF StreamsStay, StreamStays
<1>8. CASE StopListener
  <2>1. /\ UNCHANGED sent
        /\ \A e \in Ends : \/ link'[e] = "over" /\ wire'[e] = <<>>
                           \/ link'[e] = link[e] /\ wire'[e] = wire[e]
    BY <1>8 DEF StopListener
  <2> QED
    BY <2>1 DEF StreamsStay, StreamStays
<1>9. ASSUME NEW r \in Remotes, StartConnectRemote(r) PROVE StreamsStay \/ Receives \/ Transmits
  <2>1. UNCHANGED <<wire, sent>> /\ link[r] = "none" /\ link' = [link EXCEPT ![r] = "open"]
    BY <1>9 DEF StartConnectRemote
  <2> QED
    BY <2>1 DEF StreamsStay, StreamStays
<1>10. ASSUME NEW e \in Ends, EndStep(e) PROVE StreamsStay \/ Receives \/ Transmits
  <2>1. CASE EndSends(e)
    BY <1>10, <2>1 DEF Transmits
  <2>2. CASE PeerConnects(e)
    <3>1. UNCHANGED <<wire, sent>> /\ link[e] = "none" /\ link' = [link EXCEPT ![e] = "open"]
      BY <2>2 DEF PeerConnects
    <3> QED
      BY <3>1 DEF StreamsStay, StreamStays
  <2>3. CASE EndReads(e)
    BY <2>3 DEF EndReads, StreamsStay, StreamStays
  <2>4. CASE EndCloses(e)
    <3>1. UNCHANGED <<wire, sent>> /\ link' = [link EXCEPT ![e] = "fin"]
      BY <2>4 DEF EndCloses
    <3> QED
      BY <3>1 DEF StreamsStay, StreamStays
  <2>5. CASE EndResets(e)
    <3>1. UNCHANGED sent /\ link' = [link EXCEPT ![e] = "rst"]
      BY <2>5 DEF EndResets
    <3>2. PICK k \in 0..Len(wire[e]) : wire' = [wire EXCEPT ![e] = SubSeq(wire[e], 1, k)]
      BY <2>5 DEF EndResets
    <3>3. Len(SubSeq(wire[e], 1, k)) <= Len(wire[e]) /\ \A l \in 1..Len(SubSeq(wire[e], 1, k)) : SubSeq(wire[e], 1, k)[l] = wire[e][l]
      BY <3>2
    <3>4. StreamStays(e)
      BY <3>1, <3>2, <3>3 DEF StreamStays
    <3>5. ASSUME NEW d \in Ends, d # e PROVE StreamStays(d)
      BY <3>1, <3>2, <3>5 DEF StreamStays
    <3> QED
      BY <3>4, <3>5 DEF StreamsStay
  <2> QED
    BY <1>10, <2>1, <2>2, <2>3, <2>4, <2>5 DEF EndStep, EndSteps
<1>11. CASE UNCHANGED AllButFault
  BY <1>1, <1>11 DEF AllButFault, netVars, connVars, drvVars, svcVars, srvVars
<1> QED
  BY Steps, <1>1, <1>2, <1>3, <1>4, <1>5, <1>6, <1>7, <1>8, <1>9, <1>10, <1>11
     DEF DriverMoves, ConnectionMoves, RegisterMoves, ServiceMoves, AppMoves, Accept,
         FindReady, CallHandler, ReadData, CloseUnregistersRead, EnqueueDrop, WriteData,
         Unlock, InsertConnection, Dies, RegistReadEvent, RegistEvent, RegistWriteEvent,
         AcceptConnection, ProcessRecv, SendMsg, EnqueueMsg, DropConnection, DeleteConnection,
         DropNextConnection, AllDropped, DriverStop, JoinDriver, Stop, StopReturns, ServerHandles,
         netVars, connVars, drvVars, svcVars, srvVars


\* What is received keeps its place among what is given, and nothing is added to
\* it; at the end it may be forgotten.
KeepsOrder ==
  \/ UNCHANGED Given
  \/ \E p : Removes(p)
  \/ \E ctx : ctx.type # "recv" /\ Gives(ctx)
  \/ ~mRunning' /\ DOMAIN Given' \subseteq DOMAIN Given /\ \A k \in DOMAIN Given' : Given'[k] = Given[k]

LEMMA StaysStopped ==
  ASSUME [Next]_vars, mRunning'
  PROVE  mRunning
<1>1. CASE UNCHANGED AllButFault
  BY <1>1 DEF AllButFault, svcVars
<1>2. CASE ~UNCHANGED AllButFault
  <2>1. ASSUME NEW t, ConnectionMoves(t) PROVE UNCHANGED mRunning
    BY <2>1 DEF ConnectionMoves, CloseUnregistersRead, CloseSocket, EnqueueDrop, WriteData, SendData, Unlock, svcVars
  <2>2. ASSUME NEW t, RegisterMoves(t), fault' = "none" PROVE UNCHANGED mRunning
    BY <2>2 DEF RegisterMoves, InsertConnection, RegistReadEvent, RegistWriteEvent, RegistEvent, Dies, svcVars
  <2>3. DriverMoves => UNCHANGED mRunning
    BY DEF DriverMoves, Accept, FindReady, CallHandler, ReadData, PreRecv, RecvData, RecvGetsNothing, svcVars
  <2>4. ServiceMoves /\ fault' = "none" => UNCHANGED mRunning
    BY DEF ServiceMoves, AcceptConnection, ProcessRecv, SendMsg, EnqueueMsg, DropConnection, FreeSocket,
       DeleteConnection, StopListener, DropNextConnection, AllDropped, DriverStop, JoinDriver, Dies, svcVars
  <2>5. AppMoves => mRunning
    BY DEF AppMoves, StartConnectRemote, Stop, StopReturns, svcVars
  <2>6. ServerHandles \/ (\E e \in Ends : EndStep(e)) => UNCHANGED mRunning
    BY DEF ServerHandles, EndStep, svcVars
  <2> QED
    BY <1>2, <2>1, <2>2, <2>3, <2>4, <2>5, <2>6, Steps
<1> QED
  BY <1>1, <1>2

LEMMA GivenSteps ==
  ASSUME ControlInv, [Next]_vars
  PROVE  KeepsOrder \/ (Alive(Drv) /\ RecvData)
<1>a. TypeOK /\ EnqIsHead
  BY DEF ControlInv
<1> USE <1>a, NetServiceAssumption
    DEF svcVars, connVars, srvVars, drvVars, Threads
<1>1. CASE UNCHANGED <<mQueue, srvLog>>
  BY <1>1
     DEF KeepsOrder, Given
<1>2. CASE Accept
  <2>1. Enqueue(Accepted(FreeFd)) /\ UNCHANGED srvLog
    BY <1>2 DEF Accept
  <2>2. IF mRunning THEN Gives(Accepted(FreeFd)) ELSE GivesNothing
    BY <2>1, EnqueueGives
  <2>3. Accepted(FreeFd).type = "accept"
    BY DEF Accepted
  <2> QED
    BY <2>2, <2>3 DEF KeepsOrder, GivesNothing
<1>3. CASE Alive(Drv) /\ RecvData
  BY <1>3
<1>4. ASSUME NEW t \in {Drv, Svc}, EnqueueDrop(t) PROVE KeepsOrder \/ (Alive(Drv) /\ RecvData)
  <2>1. Enqueue(Drop(at[t].id)) /\ UNCHANGED srvLog
    BY <1>4 DEF EnqueueDrop, TellsOfDrop
  <2>2. IF mRunning THEN Gives(Drop(at[t].id)) ELSE GivesNothing
    BY <2>1, EnqueueGives
  <2>3. Drop(at[t].id).type = "drop"
    BY DEF Drop
  <2> QED
    BY <2>2, <2>3 DEF KeepsOrder, GivesNothing
<1>5. CASE AcceptConnection
  <2>1. Removes(Len(srvLog) + 1)
    BY <1>5, TakeRemoves DEF AcceptConnection, Taking
  <2> QED
    BY <2>1 DEF KeepsOrder, GivesNothing
<1>6. CASE ProcessRecv
  <2>1. UNCHANGED Given
    BY <1>6, TakeGives DEF ProcessRecv, Taking
  <2> QED
    BY <2>1 DEF KeepsOrder, GivesNothing
<1>7. CASE SendMsg
  <2>1. UNCHANGED mQueue => UNCHANGED Given
    BY <1>7 DEF SendMsg, Given
  <2>2. mQueue' = Tail(mQueue) => Removes(Len(srvLog) + 1)
    BY <1>7, TakeRemoves DEF SendMsg, Taking
  <2>3. UNCHANGED mQueue \/ mQueue' = Tail(mQueue)
    BY <1>7 DEF SendMsg
  <2> QED
    BY <2>1, <2>2, <2>3 DEF KeepsOrder, GivesNothing
<1>8. CASE EnqueueMsg
  <2>1. Removes(Len(srvLog) + 1)
    BY <1>8, TakeRemoves DEF EnqueueMsg, EnqIsHead
  <2> QED
    BY <2>1 DEF KeepsOrder, GivesNothing
<1>9. CASE DropConnection
  <2>1. UNCHANGED Given
    BY <1>9, TakeGives DEF DropConnection, Taking
  <2> QED
    BY <2>1 DEF KeepsOrder, GivesNothing
<1>10. CASE StopListener
  <2>1. mQueue' = <<>> /\ UNCHANGED srvLog /\ ~mRunning'
    BY <1>10 DEF StopListener
  <2>2. DOMAIN Given' \subseteq DOMAIN Given /\ \A k \in DOMAIN Given' : Given'[k] = Given[k]
    BY <2>1, StopForgets
  <2> QED
    BY <2>1, <2>2 DEF KeepsOrder, GivesNothing
<1>11. CASE ServerHandles
  <2> DEFINE ctx == srvLog[srvDone + 1]
  <2>2. UNCHANGED srvLog /\ IF ctx.type = "recv" THEN Enqueue(Send(ctx.id, ctx.msg)) ELSE UNCHANGED mQueue
    BY <1>11 DEF ServerHandles
  <2> HIDE DEF ctx
  <2>3. CASE ctx.type # "recv"
    BY <2>2, <2>3 DEF KeepsOrder, Given
  <2>4. CASE ctx.type = "recv"
    <3>1. IF mRunning THEN Gives(Send(ctx.id, ctx.msg)) ELSE GivesNothing
      BY <2>2, <2>4, EnqueueGives
    <3>3. Send(ctx.id, ctx.msg).type = "send"
      BY DEF Send
    <3> QED
      BY <3>1, <3>3 DEF KeepsOrder, GivesNothing
  <2> QED
    BY <2>3, <2>4
<1>12. CASE UNCHANGED AllButFault
  BY <1>1, <1>12 DEF AllButFault, netVars, connVars, drvVars, svcVars, srvVars
<1> QED
  BY Steps, <1>1, <1>2, <1>3, <1>4, <1>5, <1>6, <1>7, <1>8, <1>9, <1>10, <1>11, <1>12
     DEF DriverMoves, ConnectionMoves, RegisterMoves, ServiceMoves, AppMoves, FindReady,
         CallHandler, ReadData, PreRecv, RecvGetsNothing, CloseUnregistersRead, CloseSocket,
         WriteData, SendData, Unlock, InsertConnection, Dies, RegistReadEvent, RegistEvent,
         RegistWriteEvent, FreeSocket, DeleteConnection, DropNextConnection, AllDropped,
         DriverStop, JoinDriver, StartConnectRemote, Stop, StopReturns, EndStep, netVars,
         connVars, drvVars, svcVars, srvVars


LEMMA RemovedIs ==
  ASSUME TypeOK, NEW p, Removes(p)
  PROVE  /\ p \in 1..Len(Given) /\ DOMAIN Given = 1..Len(Given) /\ Len(Given) \in Nat
         /\ DOMAIN Given' = 1..Len(Given) - 1 /\ Given[p].type # "recv"
         /\ \A k \in DOMAIN Given' : IF k < p THEN Given'[k] = Given[k] ELSE Given'[k] = Given[k + 1]
BY GivenIsSeq DEF Removes

LEMMA ReceivedStay ==
  ASSUME TypeOK, KeepsOrder
  PROVE  /\ \A k \in DOMAIN Given' : Given'[k].type = "recv" => \E l \in DOMAIN Given : Given[l] = Given'[k]
         /\ mRunning' => \A k \in DOMAIN Given : Given[k].type = "recv" => \E l \in DOMAIN Given' : Given'[l] = Given[k]
<1>1. CASE UNCHANGED Given
  BY <1>1
<1>2. ASSUME NEW p, Removes(p)
      PROVE  /\ \A k \in DOMAIN Given' : \E l \in DOMAIN Given : Given[l] = Given'[k]
             /\ \A k \in DOMAIN Given : Given[k].type = "recv" => \E l \in DOMAIN Given' : Given'[l] = Given[k]
  <2>2. ASSUME NEW k \in DOMAIN Given' PROVE \E l \in DOMAIN Given : Given[l] = Given'[k]
    BY <1>2, RemovedIs
  <2>3. ASSUME NEW k \in DOMAIN Given, Given[k].type = "recv" PROVE \E l \in DOMAIN Given' : Given'[l] = Given[k]
    <3>1. CASE k < p
      <4>1. k \in DOMAIN Given' /\ Given'[k] = Given[k]
        BY <1>2, RemovedIs, <3>1
      <4> QED
        BY <4>1
    <3>2. CASE k > p
      <4>1. k - 1 \in DOMAIN Given' /\ Given'[k - 1] = Given[k]
        BY <1>2, RemovedIs, <3>2
      <4> QED
        BY <4>1
    <3> QED
      BY <1>2, RemovedIs, <2>3, <3>1, <3>2
  <2> QED
    BY <2>2, <2>3
<1>3. ASSUME NEW ctx, Gives(ctx), ctx.type # "recv"
      PROVE  /\ \A k \in DOMAIN Given' : Given'[k].type = "recv" => \E l \in DOMAIN Given : Given[l] = Given'[k]
             /\ \A k \in DOMAIN Given : \E l \in DOMAIN Given' : Given'[l] = Given[k]
  <2>1. /\ \A k \in DOMAIN Given' : Given'[k] = ctx \/ (k \in DOMAIN Given /\ Given'[k] = Given[k])
        /\ \A k \in DOMAIN Given : k \in DOMAIN Given' /\ Given'[k] = Given[k]
    BY <1>3, GivenIsSeq DEF Gives
  <2> QED
    BY <1>3, <2>1
<1> QED
  BY <1>1, <1>2, <1>3 DEF KeepsOrder

\* A context that was received is the next message of its connection's end.
IsNext(g, j, e) ==
  LET id == g[j].id
      n  == g[j].msg[1].n
  IN  /\ g[j].msg = Whole(e, n)
      /\ n > 1 => \E k \in 1..j - 1 : g[k] = Recv(id, Whole(e, n - 1))
      /\ \A k \in 1..j - 1 : g[k].type = "recv" /\ g[k].id = id => g[k].msg[1].n < n

\* Index j of g was received, and of a connection that is still in step.
IsInStep(g, j) == g[j].type = "recv" /\ ~IsOutOfStep(g, g[j].id, j)

LEMMA InOrderIs ==
  GivenInOrder <=> \A j \in DOMAIN Given : IsInStep(Given, j) => IsNext(Given, j, endOf[Given[j].id])
BY DEF GivenInOrder, IsNext, IsInStep

\* Nothing broken is forgotten: what is in step now was so before.
LEMMA WasInStep ==
  ASSUME NEW g, NEW h, NEW j \in Nat, NEW m \in Nat, h[j] = g[m], IsInStep(h, j),
         \A l \in 1..m : g[l].type = "recv" => \E k \in 1..j : h[k] = g[l]
  PROVE  IsInStep(g, m)
BY DEF IsInStep, IsOutOfStep, IsBroken

LEMMA OrderIsKept ==
  ASSUME TypeOK, TypeOK', Contexts, GivenInOrder, KeepsOrder,
         \A i \in DOMAIN endOf : i \in DOMAIN endOf' /\ endOf'[i] = endOf[i]
  PROVE  GivenInOrder'
<1> DEFINE G == Given
           H == Given'
<1>a. \A j \in DOMAIN G : IsInStep(G, j) => endOf'[G[j].id] = endOf[G[j].id] /\ IsNext(G, j, endOf[G[j].id])
  BY InOrderIs DEF Contexts, IsInStep
<1>b. DOMAIN G = 1..Len(G) /\ Len(G) \in Nat
  BY GivenIsSeq
<1>c. DOMAIN H = 1..Len(H) /\ Len(H) \in Nat
  <2>1. srvLog' \in Seq(Context) /\ mQueue' \in Seq(Context)
    BY DEF TypeOK
  <2> QED
    BY <2>1 DEF Given
<1>d. \A e, n, i : Recv(i, Whole(e, n)).type = "recv"
  BY DEF Recv
<1> SUFFICES ASSUME NEW j \in DOMAIN H, IsInStep(H, j) PROVE IsNext(H, j, endOf'[H[j].id])
  BY DEF GivenInOrder, IsNext, IsInStep
<1>1. ASSUME j \in DOMAIN G, \A k \in 1..j : H[k] = G[k]
      PROVE  IsNext(H, j, endOf'[H[j].id])
  <2>1. H[j] = G[j] /\ \A k \in 1..j - 1 : H[k] = G[k]
    BY <1>1, <1>c
  <2>a. IsInStep(G, j)
    <3>1. j \in Nat
      BY <1>c
    <3> HIDE DEF G, H
    <3> QED
      BY <1>1, <2>1, <3>1, WasInStep
  <2>2. endOf'[G[j].id] = endOf[G[j].id] /\ IsNext(G, j, endOf[G[j].id])
    BY <1>1, <1>a, <2>a
  <2> QED
    BY <2>1, <2>2 DEF IsNext
<1>2. CASE UNCHANGED Given
  BY <1>1, <1>2, <1>c
<1>3. ASSUME NEW ctx, Gives(ctx), ctx.type # "recv" PROVE IsNext(H, j, endOf'[H[j].id])
  <2>1. /\ \A k \in DOMAIN H : (k = Len(G) + 1 /\ H[k] = ctx) \/ (k \in DOMAIN G /\ H[k] = G[k])
        /\ DOMAIN H = 1..Len(G) + 1
    BY <1>3, GivenIsSeq DEF Gives
  <2> QED
    BY <1>1, <1>3, <1>b, <2>1 DEF IsInStep
<1>4. CASE DOMAIN H \subseteq DOMAIN G /\ \A k \in DOMAIN H : H[k] = G[k]
  BY <1>1, <1>4, <1>c
<1>5. ASSUME NEW p, Removes(p) PROVE IsNext(H, j, endOf'[H[j].id])
  <2>1. /\ p \in 1..Len(G) /\ DOMAIN H = 1..Len(G) - 1 /\ G[p].type # "recv"
        /\ \A k \in DOMAIN H : IF k < p THEN H[k] = G[k] ELSE H[k] = G[k + 1]
    BY <1>5, RemovedIs
  <2>2. CASE j < p
    BY <1>1, <2>1, <2>2, <1>b
  <2>3. CASE ~(j < p)
    <3>1. j + 1 \in DOMAIN G /\ H[j] = G[j + 1]
      BY <2>1, <2>3, <1>b
    <3>3. \A k \in 1..j - 1 : \E l \in 1..j : H[k] = G[l]
      BY <2>1, <2>3, <1>b
    <3>4. \A l \in 1..j : l # p => \E k \in 1..j - 1 : H[k] = G[l]
      <4> TAKE l \in 1..j
      <4> HAVE l # p
      <4>1. CASE l < p
        <5>1. l \in 1..j - 1 /\ H[l] = G[l]
          BY <2>1, <2>3, <1>b, <4>1
        <5> QED
          BY <5>1
      <4>2. CASE l > p
        <5>1. l - 1 \in 1..j - 1 /\ H[l - 1] = G[l]
          BY <2>1, <2>3, <1>b, <4>2
        <5> QED
          BY <5>1
      <4> QED
        BY <2>1, <1>b, <4>1, <4>2
    <3>a. \A l \in 1..j + 1 : G[l].type = "recv" => \E k \in 1..j : H[k] = G[l]
      <4> TAKE l \in 1..j + 1
      <4> HAVE G[l].type = "recv"
      <4>1. l # p /\ j \in Nat /\ j \in 1..j
        BY <2>1, <1>c
      <4>2. CASE l \in 1..j
        <5>1. PICK k \in 1..j - 1 : H[k] = G[l]
          BY <3>4, <4>1, <4>2
        <5>2. k \in 1..j
          BY <4>1
        <5> QED
          BY <5>1, <5>2
      <4>3. CASE l = j + 1
        BY <3>1, <4>1, <4>3
      <4> QED
        BY <4>1, <4>2, <4>3
    <3>b. IsInStep(G, j + 1)
      <4>1. j \in Nat /\ j + 1 \in Nat
        BY <1>c
      <4> HIDE DEF G, H
      <4> QED
        BY <3>1, <3>a, <4>1, WasInStep
    <3>2. endOf'[H[j].id] = endOf[H[j].id] /\ IsNext(G, j + 1, endOf[H[j].id])
      BY <1>a, <3>1, <3>b
    <3> HIDE DEF G, H
    <3> DEFINE i == H[j].id
               n == H[j].msg[1].n
               e == endOf[i]
    <3>5. (j + 1) - 1 = j
      BY <2>1
    <3>6. /\ H[j].msg = Whole(e, n)
          /\ n > 1 => \E k \in 1..j : G[k] = Recv(i, Whole(e, n - 1))
          /\ \A k \in 1..j : G[k].type = "recv" /\ G[k].id = i => G[k].msg[1].n < n
      BY <3>1, <3>2, <3>5 DEF IsNext
    <3> HIDE DEF i, n, e
    <3>7. n > 1 => \E k \in 1..j - 1 : H[k] = Recv(i, Whole(e, n - 1))
      BY <1>d, <2>1, <3>4, <3>6
    <3>8. \A k \in 1..j - 1 : H[k].type = "recv" /\ H[k].id = i => H[k].msg[1].n < n
      BY <3>3, <3>6
    <3> QED
      BY <3>2, <3>6, <3>7, <3>8 DEF IsNext, i, n, e
  <2> QED
    BY <2>1, <2>2, <2>3, <1>b
<1> QED
  BY <1>2, <1>3, <1>4, <1>5 DEF KeepsOrder

\* Connections that stay open, or close, with the buf they had.
KeepsBufs ==
  \A j \in DOMAIN conns' : conns'[j].fd # NoFd =>
    j \in DOMAIN conns /\ conns[j].fd # NoFd /\ conns'[j].buf = conns[j].buf

LEMMA OneBuf ==
  ASSUME TypeOK, NEW i \in DOMAIN conns, NEW c, conns' = [conns EXCEPT ![i] = c],
         c.fd = conns[i].fd, c.buf = conns[i].buf
  PROVE  KeepsBufs
BY DEF KeepsBufs

LEMMA BufSteps ==
  ASSUME ControlInv, [Next]_vars
  PROVE  KeepsBufs \/ Receives \/ Inserts
<1> USE AtType, ConnType
<1>a. TypeOK /\ LockOwner /\ ConnStates
  BY DEF ControlInv
<1> USE <1>a, NetServiceAssumption
    DEF svcVars, connVars, srvVars, drvVars, SetConn, Conn, At, Threads
<1>1. CASE UNCHANGED conns
  BY <1>1
     DEF KeepsBufs
<1>2. CASE Alive(Drv) /\ ReadData
  <2> DEFINE c == Locked(Conn(Drv), Drv)
  <2>1. /\ conns' = [conns EXCEPT ![at[Drv].id] = c] /\ at[Drv].id \in DOMAIN conns
        /\ c.fd = conns[at[Drv].id].fd /\ c.buf = conns[at[Drv].id].buf
    BY <1>2 DEF ReadData, Alive, Locked
  <2> QED
    BY <2>1, OneBuf
<1>3. CASE Alive(Drv) /\ PreRecv
  BY <1>3 DEF Receives
<1>4. CASE Alive(Drv) /\ RecvData
  BY <1>4 DEF Receives
<1>5. CASE Alive(Drv) /\ RecvGetsNothing
  <2>1. at[Drv].id \in DOMAIN conns
    BY <1>5 DEF Alive
  <2>2. CASE SetConn(Drv, [Conn(Drv) EXCEPT !.ok = FALSE])
    <3> DEFINE c == [Conn(Drv) EXCEPT !.ok = FALSE]
    <3>1. /\ conns' = [conns EXCEPT ![at[Drv].id] = c] /\ at[Drv].id \in DOMAIN conns
          /\ c.fd = conns[at[Drv].id].fd /\ c.buf = conns[at[Drv].id].buf
      BY <2>1, <2>2 DEF SetConn
    <3> QED
      BY <3>1, OneBuf
  <2>3. CASE SetConn(Drv, Unlocked(Conn(Drv)))
    <3> DEFINE c == Unlocked(Conn(Drv))
    <3>1. /\ conns' = [conns EXCEPT ![at[Drv].id] = c] /\ at[Drv].id \in DOMAIN conns
          /\ c.fd = conns[at[Drv].id].fd /\ c.buf = conns[at[Drv].id].buf
      BY <2>1, <2>3 DEF SetConn, Unlocked
    <3> QED
      BY <3>1, OneBuf
  <2> QED
    BY <1>5, <2>2, <2>3 DEF RecvGetsNothing
<1>6. ASSUME NEW t \in {Drv, Svc}, CloseUnregistersRead(t) PROVE KeepsBufs \/ Receives \/ Inserts
  <2> DEFINE c == [Conn(t) EXCEPT !.closed = TRUE]
  <2>1. /\ conns' = [conns EXCEPT ![at[t].id] = c] /\ at[t].id \in DOMAIN conns
        /\ c.fd = conns[at[t].id].fd /\ c.buf = conns[at[t].id].buf
    BY <1>6 DEF CloseUnregistersRead, LockOwner, Locking, LockPcs
  <2> QED
    BY <2>1, OneBuf
<1>7. ASSUME NEW t \in {Drv, Svc}, CloseSocket(t) PROVE KeepsBufs \/ Receives \/ Inserts
  <2>0. PICK i, f, e : SocketClosed(t, i, f, e) /\ i = at[t].id /\ f = Conn(t).fd /\ e = endOf[i]
    BY <1>7, CloseSocketDoes
  <2>1. /\ DOMAIN conns' = DOMAIN conns /\ conns'[i].fd = NoFd
        /\ \A j \in DOMAIN conns : j # i => conns'[j] = conns[j]
    BY <2>0 DEF SocketClosed
  <2> QED
    BY <2>1 DEF KeepsBufs
<1>8. ASSUME NEW t \in {Drv, Svc}, EnqueueDrop(t) PROVE KeepsBufs \/ Receives \/ Inserts
  <2>1. at[t].id \in DOMAIN conns /\ LockedOK(t, "drop", conns[at[t].id])
    BY <1>8 DEF EnqueueDrop, LockOwner, ConnStates, Locking, LockPcs, At
  <2>2. CASE conns[at[t].id].fd = NoFd
    <3>1. \E c : c.fd = NoFd /\ conns' = [conns EXCEPT ![at[t].id] = c]
      BY <1>8, <2>1, <2>2 DEF EnqueueDrop
    <3> QED
      BY <2>1, <3>1 DEF KeepsBufs
  <2>3. CASE conns[at[t].id].fd # NoFd
    <3>1. conns[at[t].id].buf = <<>>
      BY <2>1, <2>3 DEF LockedOK, IsShut
    <3> DEFINE c == (IF t = Drv THEN [Conn(t) EXCEPT !.buf = <<>>] ELSE Conn(t))
    <3>2. /\ conns' = [conns EXCEPT ![at[t].id] = c] /\ at[t].id \in DOMAIN conns
          /\ c.fd = conns[at[t].id].fd /\ c.buf = conns[at[t].id].buf
      BY <1>8, <2>1, <3>1 DEF EnqueueDrop
    <3> QED
      BY <3>2, OneBuf
  <2> QED
    BY <2>2, <2>3
<1>9. ASSUME NEW t \in {Drv, Svc}, t = Drv => Alive(Drv), WriteData(t) PROVE KeepsBufs \/ Receives \/ Inserts
  <2>1. at[t].id \in DOMAIN conns
    BY <1>9 DEF Alive, LockOwner, WriteData
  <2>2. CASE SetConn(t, Locked(Conn(t), t))
    <3> DEFINE c == Locked(Conn(t), t)
    <3>1. /\ conns' = [conns EXCEPT ![at[t].id] = c] /\ at[t].id \in DOMAIN conns
          /\ c.fd = conns[at[t].id].fd /\ c.buf = conns[at[t].id].buf
      BY <2>1, <2>2 DEF Locked
    <3> QED
      BY <3>1, OneBuf
  <2>3. CASE UNCHANGED conns
    BY <2>3 DEF KeepsBufs
  <2> QED
    BY <1>9, <2>2, <2>3 DEF WriteData
<1>10. ASSUME NEW t \in {Drv, Svc}, SendData(t) PROVE KeepsBufs \/ Receives \/ Inserts
  <2>1. at[t].id \in DOMAIN conns
    BY <1>10 DEF LockOwner, SendData, Locking, LockPcs
  <2>2. CASE SetConn(t, Unlocked([Conn(t) EXCEPT !.sendq = Tail(@)]))
    <3> DEFINE c == Unlocked([Conn(t) EXCEPT !.sendq = Tail(@)])
    <3>1. /\ conns' = [conns EXCEPT ![at[t].id] = c] /\ at[t].id \in DOMAIN conns
          /\ c.fd = conns[at[t].id].fd /\ c.buf = conns[at[t].id].buf
      BY <2>1, <2>2 DEF Unlocked
    <3> QED
      BY <3>1, OneBuf
  <2>3. CASE SetConn(t, [Conn(t) EXCEPT !.ok = FALSE])
    <3> DEFINE c == [Conn(t) EXCEPT !.ok = FALSE]
    <3>1. /\ conns' = [conns EXCEPT ![at[t].id] = c] /\ at[t].id \in DOMAIN conns
          /\ c.fd = conns[at[t].id].fd /\ c.buf = conns[at[t].id].buf
      BY <2>1, <2>3 DEF SetConn
    <3> QED
      BY <3>1, OneBuf
  <2> QED
    BY <1>10, <2>2, <2>3 DEF SendData
<1>11. ASSUME NEW t \in {Drv, Svc}, Unlock(t) PROVE KeepsBufs \/ Receives \/ Inserts
  <2> DEFINE c == Unlocked(Conn(t))
  <2>1. /\ conns' = [conns EXCEPT ![at[t].id] = c] /\ at[t].id \in DOMAIN conns
        /\ c.fd = conns[at[t].id].fd /\ c.buf = conns[at[t].id].buf
    BY <1>11 DEF Unlock, Unlocked, LockOwner, Locking, LockPcs
  <2> QED
    BY <2>1, OneBuf
<1>12. ASSUME NEW t \in {Svc, App}, InsertConnection(t), fault' = "none" PROVE KeepsBufs \/ Receives \/ Inserts
  BY <1>12 DEF Inserts
<1>13. CASE EnqueueMsg
  <2> DEFINE c == [Conn(Svc) EXCEPT !.sendq = Append(@, Ctx.msg)]
  <2>1. /\ conns' = [conns EXCEPT ![at[Svc].id] = c] /\ at[Svc].id \in DOMAIN conns
        /\ c.fd = conns[at[Svc].id].fd /\ c.buf = conns[at[Svc].id].buf
    BY <1>13 DEF EnqueueMsg, LockOwner
  <2> QED
    BY <2>1, OneBuf
<1>14. CASE FreeSocket
  <2>0. PICK i : Freed(i) /\ i = at[Svc].id
    BY <1>14, FreeSocketDoes
  <2>1. /\ DOMAIN conns' = DOMAIN conns
        /\ \A j \in DOMAIN conns : conns'[j].fd = conns[j].fd /\ conns'[j].buf = conns[j].buf
    BY <2>0 DEF Freed
  <2> QED
    BY <2>1 DEF KeepsBufs
<1>15. CASE DeleteConnection
  <2>0. PICK i : Deleted(i) /\ i = at[Svc].id
    BY <1>15, DeleteDoes
  <2>1. DOMAIN conns' = DOMAIN conns \ {i} /\ \A j \in DOMAIN conns' : conns'[j] = conns[j]
    BY <2>0 DEF Deleted
  <2> QED
    BY <2>1 DEF KeepsBufs
<1>16. CASE DropNextConnection
  <2> DEFINE i == Min(DOMAIN conns)
  <2>1. i \in DOMAIN conns
    BY <1>16, NextIsConnection DEF DropNextConnection
  <2>2. UNCHANGED conns \/ conns' = [conns EXCEPT ![i] = Locked(@, Svc)]
    BY <1>16 DEF DropNextConnection
  <2> HIDE DEF i
  <2>3. CASE conns' = [conns EXCEPT ![i] = Locked(@, Svc)]
    <3> DEFINE c == Locked(conns[i], Svc)
    <3>1. /\ conns' = [conns EXCEPT ![i] = c] /\ i \in DOMAIN conns
          /\ c.fd = conns[i].fd /\ c.buf = conns[i].buf
      BY <2>1, <2>3 DEF Locked
    <3> QED
      BY <3>1, OneBuf
  <2> QED
    BY <2>2, <2>3 DEF KeepsBufs
<1>17. CASE UNCHANGED AllButFault
  BY <1>1, <1>17 DEF AllButFault, netVars, connVars, drvVars, svcVars, srvVars
<1> QED
  BY Steps, <1>1, <1>2, <1>3, <1>4, <1>5, <1>6, <1>7, <1>8, <1>9, <1>10, <1>11, <1>12, <1>13,
     <1>14, <1>15, <1>16, <1>17
     DEF DriverMoves, ConnectionMoves, RegisterMoves, ServiceMoves, AppMoves, Accept,
         FindReady, CallHandler, RegistReadEvent, RegistEvent, Dies, RegistWriteEvent,
         AcceptConnection, ProcessRecv, SendMsg, DropConnection, StopListener, AllDropped,
         DriverStop, JoinDriver, StartConnectRemote, Stop, StopReturns, ServerHandles, EndStep,
         netVars, connVars, drvVars, svcVars, srvVars

\* Connections that stay open, or close, with the sendq they had.
KeepsSendqs ==
  \A j \in DOMAIN conns' : conns'[j].fd # NoFd =>
    j \in DOMAIN conns /\ conns[j].fd # NoFd /\ conns'[j].sendq = conns[j].sendq

LEMMA OneSendq ==
  ASSUME TypeOK, NEW i \in DOMAIN conns, NEW c, conns' = [conns EXCEPT ![i] = c],
         c.fd = conns[i].fd, c.sendq = conns[i].sendq
  PROVE  KeepsSendqs
BY DEF KeepsSendqs

LEMMA SendqSteps ==
  ASSUME ControlInv, [Next]_vars
  PROVE  KeepsSendqs \/ Replies \/ EnqueueMsg \/ Inserts
<1> USE AtType, ConnType
<1>a. TypeOK /\ LockOwner /\ ConnStates
  BY DEF ControlInv
<1> USE <1>a, NetServiceAssumption
    DEF svcVars, connVars, srvVars, drvVars, SetConn, Conn, At, Threads
<1>1. CASE UNCHANGED conns
  BY <1>1
     DEF KeepsSendqs
<1>2. CASE Alive(Drv) /\ ReadData
  <2> DEFINE c == Locked(Conn(Drv), Drv)
  <2>1. /\ conns' = [conns EXCEPT ![at[Drv].id] = c] /\ at[Drv].id \in DOMAIN conns
        /\ c.fd = conns[at[Drv].id].fd /\ c.sendq = conns[at[Drv].id].sendq
    BY <1>2 DEF ReadData, Alive, Locked
  <2> QED
    BY <2>1, OneSendq
<1>3. CASE Alive(Drv) /\ PreRecv
  <2>1. at[Drv].id \in DOMAIN conns
    BY <1>3 DEF Alive
  <2>2. ASSUME NEW u, SetConn(Drv, [Conn(Drv) EXCEPT !.buf = Append(@, u)])
        PROVE  KeepsSendqs
    <3> DEFINE c == [Conn(Drv) EXCEPT !.buf = Append(@, u)]
    <3>1. /\ conns' = [conns EXCEPT ![at[Drv].id] = c] /\ at[Drv].id \in DOMAIN conns
          /\ c.fd = conns[at[Drv].id].fd /\ c.sendq = conns[at[Drv].id].sendq
      BY <2>1, <2>2 DEF SetConn
    <3> QED
      BY <3>1, OneSendq
  <2>3. CASE SetConn(Drv, [Conn(Drv) EXCEPT !.ok = FALSE])
    <3> DEFINE c == [Conn(Drv) EXCEPT !.ok = FALSE]
    <3>1. /\ conns' = [conns EXCEPT ![at[Drv].id] = c] /\ at[Drv].id \in DOMAIN conns
          /\ c.fd = conns[at[Drv].id].fd /\ c.sendq = conns[at[Drv].id].sendq
      BY <2>1, <2>3 DEF SetConn
    <3> QED
      BY <3>1, OneSendq
  <2> QED
    BY ONLY <1>3, <2>2, <2>3, PreRecvEdits
<1>4. CASE Alive(Drv) /\ RecvData
  <2>1. PICK i, k, buf : TakesOver(i, endOf[i], k, buf)
    BY <1>4, RecvDataDoes
  <2>2. /\ DOMAIN conns' = DOMAIN conns
        /\ \A j \in DOMAIN conns : conns'[j].fd = conns[j].fd /\ conns'[j].sendq = conns[j].sendq
    BY <2>1 DEF TakesOver, KeepsConns
  <2> QED
    BY <2>2 DEF KeepsSendqs
<1>5. CASE Alive(Drv) /\ RecvGetsNothing
  <2>1. at[Drv].id \in DOMAIN conns
    BY <1>5 DEF Alive
  <2>2. CASE SetConn(Drv, [Conn(Drv) EXCEPT !.ok = FALSE])
    <3> DEFINE c == [Conn(Drv) EXCEPT !.ok = FALSE]
    <3>1. /\ conns' = [conns EXCEPT ![at[Drv].id] = c] /\ at[Drv].id \in DOMAIN conns
          /\ c.fd = conns[at[Drv].id].fd /\ c.sendq = conns[at[Drv].id].sendq
      BY <2>1, <2>2 DEF SetConn
    <3> QED
      BY <3>1, OneSendq
  <2>3. CASE SetConn(Drv, Unlocked(Conn(Drv)))
    <3> DEFINE c == Unlocked(Conn(Drv))
    <3>1. /\ conns' = [conns EXCEPT ![at[Drv].id] = c] /\ at[Drv].id \in DOMAIN conns
          /\ c.fd = conns[at[Drv].id].fd /\ c.sendq = conns[at[Drv].id].sendq
      BY <2>1, <2>3 DEF SetConn, Unlocked
    <3> QED
      BY <3>1, OneSendq
  <2> QED
    BY <1>5, <2>2, <2>3 DEF RecvGetsNothing
<1>6. ASSUME NEW t \in {Drv, Svc}, CloseUnregistersRead(t) PROVE KeepsSendqs \/ Replies \/ EnqueueMsg \/ Inserts
  <2> DEFINE c == [Conn(t) EXCEPT !.closed = TRUE]
  <2>1. /\ conns' = [conns EXCEPT ![at[t].id] = c] /\ at[t].id \in DOMAIN conns
        /\ c.fd = conns[at[t].id].fd /\ c.sendq = conns[at[t].id].sendq
    BY <1>6 DEF CloseUnregistersRead, LockOwner, Locking, LockPcs
  <2> QED
    BY <2>1, OneSendq
<1>7. ASSUME NEW t \in {Drv, Svc}, CloseSocket(t) PROVE KeepsSendqs \/ Replies \/ EnqueueMsg \/ Inserts
  <2>0. PICK i, f, e : SocketClosed(t, i, f, e) /\ i = at[t].id /\ f = Conn(t).fd /\ e = endOf[i]
    BY <1>7, CloseSocketDoes
  <2>1. /\ DOMAIN conns' = DOMAIN conns /\ conns'[i].fd = NoFd
        /\ \A j \in DOMAIN conns : j # i => conns'[j] = conns[j]
    BY <2>0 DEF SocketClosed
  <2> QED
    BY <2>1 DEF KeepsSendqs
<1>8. ASSUME NEW t \in {Drv, Svc}, EnqueueDrop(t) PROVE KeepsSendqs \/ Replies \/ EnqueueMsg \/ Inserts
  <2> DEFINE c == (IF t = Drv THEN [Conn(t) EXCEPT !.buf = <<>>] ELSE Conn(t))
  <2>1. /\ conns' = [conns EXCEPT ![at[t].id] = c] /\ at[t].id \in DOMAIN conns
        /\ c.fd = conns[at[t].id].fd /\ c.sendq = conns[at[t].id].sendq
    BY <1>8 DEF EnqueueDrop, LockOwner, Locking, LockPcs
  <2> QED
    BY <2>1, OneSendq
<1>9. ASSUME NEW t \in {Drv, Svc}, t = Drv => Alive(Drv), WriteData(t) PROVE KeepsSendqs \/ Replies \/ EnqueueMsg \/ Inserts
  <2>1. at[t].id \in DOMAIN conns
    BY <1>9 DEF Alive, LockOwner, WriteData
  <2>2. CASE SetConn(t, Locked(Conn(t), t))
    <3> DEFINE c == Locked(Conn(t), t)
    <3>1. /\ conns' = [conns EXCEPT ![at[t].id] = c] /\ at[t].id \in DOMAIN conns
          /\ c.fd = conns[at[t].id].fd /\ c.sendq = conns[at[t].id].sendq
      BY <2>1, <2>2 DEF Locked
    <3> QED
      BY <3>1, OneSendq
  <2>3. CASE UNCHANGED conns
    BY <2>3 DEF KeepsSendqs
  <2> QED
    BY <1>9, <2>2, <2>3 DEF WriteData
<1>10. ASSUME NEW t \in {Drv, Svc}, SendData(t) PROVE KeepsSendqs \/ Replies \/ EnqueueMsg \/ Inserts
  BY <1>10 DEF Replies
<1>11. ASSUME NEW t \in {Drv, Svc}, Unlock(t) PROVE KeepsSendqs \/ Replies \/ EnqueueMsg \/ Inserts
  <2> DEFINE c == Unlocked(Conn(t))
  <2>1. /\ conns' = [conns EXCEPT ![at[t].id] = c] /\ at[t].id \in DOMAIN conns
        /\ c.fd = conns[at[t].id].fd /\ c.sendq = conns[at[t].id].sendq
    BY <1>11 DEF Unlock, Unlocked, LockOwner, Locking, LockPcs
  <2> QED
    BY <2>1, OneSendq
<1>12. ASSUME NEW t \in {Svc, App}, InsertConnection(t), fault' = "none" PROVE KeepsSendqs \/ Replies \/ EnqueueMsg \/ Inserts
  BY <1>12 DEF Inserts
<1>13. CASE EnqueueMsg
  BY <1>13
<1>14. CASE FreeSocket
  <2>0. PICK i : Freed(i) /\ i = at[Svc].id
    BY <1>14, FreeSocketDoes
  <2>1. /\ DOMAIN conns' = DOMAIN conns
        /\ \A j \in DOMAIN conns : conns'[j].fd = conns[j].fd /\ conns'[j].sendq = conns[j].sendq
    BY <2>0 DEF Freed
  <2> QED
    BY <2>1 DEF KeepsSendqs
<1>15. CASE DeleteConnection
  <2>0. PICK i : Deleted(i) /\ i = at[Svc].id
    BY <1>15, DeleteDoes
  <2>1. DOMAIN conns' = DOMAIN conns \ {i} /\ \A j \in DOMAIN conns' : conns'[j] = conns[j]
    BY <2>0 DEF Deleted
  <2> QED
    BY <2>1 DEF KeepsSendqs
<1>16. CASE DropNextConnection
  <2> DEFINE i == Min(DOMAIN conns)
  <2>1. i \in DOMAIN conns
    BY <1>16, NextIsConnection DEF DropNextConnection
  <2>2. UNCHANGED conns \/ conns' = [conns EXCEPT ![i] = Locked(@, Svc)]
    BY <1>16 DEF DropNextConnection
  <2> HIDE DEF i
  <2>3. CASE conns' = [conns EXCEPT ![i] = Locked(@, Svc)]
    <3> DEFINE c == Locked(conns[i], Svc)
    <3>1. /\ conns' = [conns EXCEPT ![i] = c] /\ i \in DOMAIN conns
          /\ c.fd = conns[i].fd /\ c.sendq = conns[i].sendq
      BY <2>1, <2>3 DEF Locked
    <3> QED
      BY <3>1, OneSendq
  <2> QED
    BY <2>2, <2>3 DEF KeepsSendqs
<1>17. CASE UNCHANGED AllButFault
  BY <1>1, <1>17 DEF AllButFault, netVars, connVars, drvVars, svcVars, srvVars
<1> QED
  BY Steps, <1>1, <1>2, <1>3, <1>4, <1>5, <1>6, <1>7, <1>8, <1>9, <1>10, <1>11, <1>12, <1>13,
     <1>14, <1>15, <1>16, <1>17
     DEF DriverMoves, ConnectionMoves, RegisterMoves, ServiceMoves, AppMoves, Accept,
         FindReady, CallHandler, RegistReadEvent, RegistEvent, Dies, RegistWriteEvent,
         AcceptConnection, ProcessRecv, SendMsg, DropConnection, StopListener, AllDropped,
         DriverStop, JoinDriver, StartConnectRemote, Stop, StopReturns, ServerHandles, EndStep,
         netVars, connVars, drvVars, svcVars, srvVars


LEMMA EndOfSteps ==
  ASSUME ControlInv, [Next]_vars
  PROVE  UNCHANGED endOf \/ Inserts
<1>a. TypeOK
  BY DEF ControlInv
<1> USE <1>a, NetServiceAssumption
    DEF svcVars, connVars, srvVars, drvVars, Threads
<1>1. CASE UNCHANGED endOf
  BY <1>1
<1>2. ASSUME NEW t \in {Svc, App}, InsertConnection(t), fault' = "none" PROVE UNCHANGED endOf \/ Inserts
  BY <1>2 DEF Inserts
<1>3. CASE UNCHANGED AllButFault
  BY <1>1, <1>3 DEF AllButFault, netVars, connVars, drvVars, svcVars, srvVars
<1> QED
  BY Steps, <1>1, <1>2, <1>3
     DEF DriverMoves, ConnectionMoves, RegisterMoves, ServiceMoves, AppMoves, Accept,
         FindReady, CallHandler, ReadData, PreRecv, RecvData, RecvGetsNothing,
         CloseUnregistersRead, CloseSocket, EnqueueDrop, WriteData, SendData, Unlock,
         RegistReadEvent, RegistEvent, Dies, RegistWriteEvent, AcceptConnection, ProcessRecv,
         SendMsg, EnqueueMsg, DropConnection, FreeSocket, DeleteConnection, StopListener,
         DropNextConnection, AllDropped, DriverStop, JoinDriver, StartConnectRemote, Stop,
         StopReturns, ServerHandles, EndStep, netVars, connVars, drvVars, svcVars, srvVars

StreamTypes ==
  /\ wire \in [Ends -> Seq(Unit)] /\ link \in [Ends -> LinkStates] /\ sent \in [Ends -> Nat]

LEMMA StreamsAreTyped ==
  ASSUME ControlInv
  PROVE  StreamTypes
BY DEF ControlInv, TypeOK, SocketTypeOK, StreamTypes

LEMMA StreamIsKept ==
  ASSUME StreamTypes, NEW e \in Ends, StreamStays(e), NEW b \in Nat, Stream(e, b)
  PROVE  Stream(e, b)'
<1>1. Len(wire[e]) \in Nat /\ Len(wire'[e]) <= Len(wire[e])
  BY DEF StreamTypes, StreamStays
<1>2. \A k \in 1..Len(wire'[e]) : k \in 1..Len(wire[e]) /\ wire'[e][k] = wire[e][k]
  <2> TAKE k \in 1..Len(wire'[e])
  <2> QED
    BY <1>1 DEF StreamStays
<1>3. \A k \in 1..Len(wire'[e]) : IsUnit(wire'[e][k], e, b + k - 1)
  BY <1>2 DEF Stream
<1>4. link'[e] \in {"none", "open"} => sent'[e] = b + Len(wire'[e])
  BY DEF Stream, StreamStays
<1> QED
  BY <1>3, <1>4 DEF Stream

LEMMA StreamGrows ==
  ASSUME StreamTypes, NEW e \in Ends, EndSends(e)
  PROVE  /\ \A d \in Ends : d # e => StreamStays(d)
         /\ \A b \in Nat : Stream(e, b) => Stream(e, b)'
<1>1. PICK part \in {Parts[NextPart(e)]} \cup (IF NextPart(e) = 2 THEN Wrong ELSE {}) :
        wire' = [wire EXCEPT ![e] = Append(@, [from |-> e, n |-> NextNumber(e), part |-> part])]
  BY DEF EndSends
<1> DEFINE u == [from |-> e, n |-> NextNumber(e), part |-> part]
           w == wire[e]
<1>2. UNCHANGED link /\ link[e] = "open" /\ sent' = [sent EXCEPT ![e] = sent[e] + 1]
  BY DEF EndSends
<1>3. \A d \in Ends : d # e => StreamStays(d)
  BY <1>1, <1>2 DEF StreamStays, StreamTypes
<1>4. w \in Seq(Unit) /\ sent[e] \in Nat /\ sent'[e] = sent[e] + 1
  BY <1>2 DEF StreamTypes
<1>5. IsUnit(u, e, sent[e])
  <2>1. part = Parts[(sent[e] % 4) + 1] \/ (part \in {"short", "wraps"} /\ (sent[e] % 4) + 1 = 2)
    BY TcpSocketAssumption DEF NextPart
  <2>2. sent[e] % 4 \in 0..3
    BY <1>4
  <2> QED
    BY <2>1, <2>2 DEF IsUnit, NextNumber
<1>6. wire'[e] = Append(w, u)
  BY <1>1 DEF StreamTypes
<1> HIDE DEF u, w
<1>7. ASSUME NEW b \in Nat, Stream(e, b) PROVE Stream(e, b)'
  <2>1. sent[e] = b + Len(w) /\ \A k \in 1..Len(w) : IsUnit(w[k], e, b + k - 1)
    BY <1>2, <1>7 DEF Stream, w
  <2>2. Len(Append(w, u)) = Len(w) + 1 /\ Len(w) \in Nat
    BY <1>4
  <2>3. \A k \in 1..Len(w) + 1 : IsUnit(Append(w, u)[k], e, b + k - 1)
    <3> TAKE k \in 1..Len(w) + 1
    <3>1. CASE k = Len(w) + 1
      <4>1. Append(w, u)[k] = u /\ b + k - 1 = sent[e]
        BY <1>4, <2>1, <2>2, <3>1
      <4> QED
        BY <1>5, <4>1
    <3>2. CASE k # Len(w) + 1
      <4>1. k \in 1..Len(w) /\ Append(w, u)[k] = w[k]
        BY <1>4, <2>2, <3>2
      <4> QED
        BY <2>1, <4>1
    <3> QED
      BY <3>1, <3>2
  <2> QED
    BY <1>4, <1>6, <2>1, <2>2, <2>3 DEF Stream
<1> QED
  BY <1>3, <1>7

\* What is received leaves the front of the stream.
LEMMA StreamIsTaken ==
  ASSUME StreamTypes, NEW e \in Ends, NEW k \in 1..Len(wire[e]), NEW b \in Nat, Stream(e, b),
         wire' = [wire EXCEPT ![e] = SubSeq(wire[e], k + 1, Len(wire[e]))], UNCHANGED <<link, sent>>
  PROVE  /\ Stream(e, b + k)'
         /\ \A l \in 1..k : SubSeq(wire[e], 1, k)[l] = wire[e][l] /\ IsUnit(wire[e][l], e, b + l - 1)
         /\ \A d \in Ends : d # e => StreamStays(d)
<1> DEFINE w == wire[e]
           v == SubSeq(w, k + 1, Len(w))
<1>1. w \in Seq(Unit) /\ Len(w) \in Nat /\ k \in 1..Len(w)
  BY DEF StreamTypes
<1>2. wire'[e] = v
  BY DEF StreamTypes
<1>3. Len(v) = Len(w) - k /\ \A l \in 1..Len(v) : v[l] = w[k + l]
  BY <1>1
<1>4. \A l \in 1..Len(w) : IsUnit(w[l], e, b + l - 1)
  BY DEF Stream
<1>5. link[e] \in {"none", "open"} => sent[e] = b + Len(w)
  BY DEF Stream
<1> HIDE DEF w, v
<1>6. \A l \in 1..Len(v) : IsUnit(v[l], e, (b + k) + l - 1)
  <2> TAKE l \in 1..Len(v)
  <2>1. k + l \in 1..Len(w) /\ b + (k + l) - 1 = (b + k) + l - 1
    BY <1>1, <1>3
  <2> QED
    BY <1>3, <1>4, <2>1
<1>7. Stream(e, b + k)'
  <2>1. link'[e] \in {"none", "open"} => sent'[e] = (b + k) + Len(v)
    BY <1>1, <1>3, <1>5
  <2> DEFINE c == b + k
  <2> HIDE DEF c
  <2>2. Stream(e, c)'
    BY <1>2, <1>6, <2>1 DEF Stream, c
  <2> QED
    BY <2>2 DEF c
<1>8. \A l \in 1..k : SubSeq(w, 1, k)[l] = w[l] /\ IsUnit(w[l], e, b + l - 1)
  BY <1>1, <1>4
<1>9. \A d \in Ends : d # e => StreamStays(d)
  BY DEF StreamStays, StreamTypes
<1> QED
  BY <1>7, <1>8, <1>9 DEF w

\* A step that neither receives nor inserts leaves what framing is about: where
\* the next unit to be received of an end was in its stream, it is still.
StreamKeeps(e) == \A b \in Nat : Stream(e, b) => Stream(e, b)'
Stays == (\A e \in Ends : StreamKeeps(e)) /\ KeepsBufs /\ KeepsOrder /\ UNCHANGED endOf

LEMMA StreamMoves ==
  ASSUME ControlInv, [Next]_vars
  PROVE  Stays \/ Receives \/ Inserts
<1>1. StreamTypes
  BY StreamsAreTyped
<1>2. StreamsStay => \A e \in Ends : StreamKeeps(e)
  BY <1>1, StreamIsKept DEF StreamsStay, StreamKeeps
<1>3. ASSUME Transmits PROVE Stays
  <2>1. PICK e \in Ends : EndStep(e) /\ EndSends(e)
    BY <1>3 DEF Transmits
  <2>2. \A d \in Ends : StreamKeeps(d)
    BY <1>1, <2>1, StreamGrows, StreamIsKept DEF StreamKeeps
  <2>3. UNCHANGED <<conns, endOf, mQueue, srvLog>>
    BY <2>1 DEF EndStep, connVars, svcVars, srvVars
  <2> QED
    BY <2>2, <2>3 DEF Stays, KeepsBufs, KeepsOrder, Given
<1> QED
  BY <1>2, <1>3, StreamSteps, BufSteps, GivenSteps, EndOfSteps DEF Stays, Receives


\* What PreRecv does when there is something to receive.
TakesLength(i, e, u) ==
  /\ i = at[Drv].id /\ at[Drv].pc = "prerecv" /\ i \in DOMAIN conns /\ i \in DOMAIN endOf
  /\ e = endOf[i] /\ e \in Ends /\ Len(conns[i].buf) < 2 /\ conns[i].buf \in Seq(Unit)
  /\ 1 \in 1..Len(wire[e]) /\ wire' = [wire EXCEPT ![e] = SubSeq(wire[e], 1 + 1, Len(wire[e]))]
  /\ UNCHANGED <<link, sent, endOf, mQueue, srvLog, mRunning>>
  /\ DOMAIN conns' = DOMAIN conns
  /\ conns'[i].buf = Append(conns[i].buf, u) /\ conns'[i].fd = conns[i].fd /\ conns[i].fd # NoFd
  /\ u \in Unit /\ u \in ReadAs(conns[i].buf, wire[e][1])
  /\ \A j \in DOMAIN conns : j # i => conns'[j] = conns[j]
  /\ u.part = "short" => conns[i].buf = <<>> \/ (at'[Drv].pc = "unregRead" /\ at'[Drv].id = i)

LEMMA PreRecvDoes ==
  ASSUME ControlInv, Alive(Drv), PreRecv
  PROVE  Stays \/ \E i, e, u : TakesLength(i, e, u)
<1> DEFINE i == at[Drv].id
           e == endOf[i]
<1>a. TypeOK /\ LockOwner /\ ConnStates /\ IdsOfConns
  BY DEF ControlInv
<1>1. /\ at[Drv].pc = "prerecv" /\ i \in DOMAIN conns /\ Conn(Drv) = conns[i]
      /\ conns[i].lock = Drv /\ conns[i].fd # NoFd /\ Len(conns[i].buf) < 2
  BY <1>a DEF PreRecv, At, Alive, Conn, LockOwner, ConnStates, LockedOK, IsOpen, Locking, LockPcs, Threads
<1>2. i \in DOMAIN endOf /\ End(Drv) = e /\ e \in Ends /\ conns[i].buf \in Seq(Unit) /\ wire[e] \in Seq(Unit)
  <2>1. conns[i].end = e /\ e \in Ends /\ conns[i].buf \in Seq(Unit)
    BY <1>1, <1>a, ConnType DEF IdsOfConns
  <2> QED
    BY <1>1, <1>a, <2>1 DEF IdsOfConns, End, TypeOK, SocketTypeOK
<1>3. UNCHANGED <<sent, endOf, mQueue, srvLog, mRunning>>
  BY DEF PreRecv, svcVars, srvVars
<1>4. ASSUME NEW u \in ReadAs(conns[i].buf, Head(wire[e])),
             RecvTakes(e, 1), Received(e, 1), UNCHANGED link,
             SetConn(Drv, [conns[i] EXCEPT !.buf = Append(@, u)]),
             IF conns[i].buf = <<>> THEN UNCHANGED at ELSE AfterLength(u)
      PROVE  TakesLength(i, e, u)
  <2>1. Head(wire[e]) = wire[e][1] /\ 1 \in 1..Len(wire[e]) /\ wire[e][1] \in Unit
    BY <1>2, <1>4 DEF RecvTakes
  <2>a. u \in Unit
    BY <1>4, <2>1, ReadIsUnit
  <2> DEFINE c == [conns[i] EXCEPT !.buf = Append(@, u)]
  <2>2. c.buf = Append(conns[i].buf, u) /\ c.fd = conns[i].fd
    BY <1>1, <1>a, ConnType
  <2>3. conns' = [conns EXCEPT ![i] = c]
    BY <1>4 DEF SetConn
  <2> HIDE DEF c
  <2>4. /\ DOMAIN conns' = DOMAIN conns /\ conns'[i] = c
        /\ \A j \in DOMAIN conns : j # i => conns'[j] = conns[j]
    BY <1>1, <2>3
  <2>5. u.part = "short" => conns[i].buf = <<>> \/ (at'[Drv].pc = "unregRead" /\ at'[Drv].id = i)
    <3>1. u.part = "short" /\ conns[i].buf # <<>> => at' = [at EXCEPT ![Drv].pc = "unregRead", ![Drv].then = "unlock"]
      BY <1>4 DEF AfterLength
    <3> QED
      BY <1>a, <3>1, AtType DEF Threads
  <2>6. wire' = [wire EXCEPT ![e] = SubSeq(wire[e], 1 + 1, Len(wire[e]))]
    BY <1>4 DEF Received
  <2> QED
    BY <1>1, <1>2, <1>3, <1>4, <2>1, <2>a, <2>2, <2>4, <2>5, <2>6 DEF TakesLength
<1>5. CASE /\ UNCHANGED wire /\ (UNCHANGED link \/ ErrorReported(e))
           /\ SetConn(Drv, [conns[i] EXCEPT !.ok = FALSE])
  <2>1. \A d \in Ends : link'[d] \in {"none", "open"} => link'[d] = link[d]
    BY <1>5, StreamsAreTyped DEF ErrorReported, StreamTypes
  <2>2. \A d \in Ends : StreamStays(d)
    BY <1>3, <1>5, <2>1, StreamsAreTyped DEF StreamStays, StreamTypes
  <2>3. \A d \in Ends : StreamKeeps(d)
    BY <2>2, StreamIsKept, StreamsAreTyped DEF StreamKeeps
  <2>4. KeepsBufs
    <3> DEFINE c == [conns[i] EXCEPT !.ok = FALSE]
    <3>1. conns' = [conns EXCEPT ![i] = c] /\ c.fd = conns[i].fd /\ c.buf = conns[i].buf
      BY <1>1, <1>5, <1>a, ConnType DEF SetConn
    <3> HIDE DEF c, i
    <3> QED
      BY <1>1, <1>a, <3>1, OneBuf
  <2> QED
    BY <1>3, <2>3, <2>4 DEF Stays, KeepsOrder, Given
<1>6. \/ /\ UNCHANGED wire /\ (UNCHANGED link \/ ErrorReported(e))
         /\ SetConn(Drv, [conns[i] EXCEPT !.ok = FALSE])
      \/ \E u \in ReadAs(conns[i].buf, Head(wire[e])) :
           /\ RecvTakes(e, 1) /\ Received(e, 1) /\ UNCHANGED link
           /\ SetConn(Drv, [conns[i] EXCEPT !.buf = Append(@, u)])
           /\ IF conns[i].buf = <<>> THEN UNCHANGED at ELSE AfterLength(u)
  BY <1>1, <1>2, Zenon DEF PreRecv
<1> QED
  BY <1>4, <1>5, <1>6, Zenon

LEMMA UnmetStaysUnmet ==
  ASSUME [Next]_vars, ControlInv, NEW e \in Ends, IsUnmet(e)'
  PROVE  IsUnmet(e)
<1>1. CASE UNCHANGED endOf
  BY <1>1 DEF IsUnmet
<1>2. CASE Inserts
  <2>1. PICK t, i, f, d : Inserted(t, i, f, d)
    BY <1>2, InsertDoes DEF Inserts
  <2>2. endOf' = [j \in DOMAIN endOf \cup {i} |-> IF j = i THEN d ELSE endOf[j]] /\ i \notin DOMAIN endOf
    BY <2>1 DEF Inserted
  <2> QED
    BY <2>2 DEF IsUnmet
<1> QED
  BY <1>1, <1>2, EndOfSteps

\* What the driver receives comes of an end that has an id.
LEMMA ReceivesOfMet ==
  ASSUME ControlInv, Receives
  PROVE  Stays \/ \E i \in DOMAIN endOf : \A d \in Ends : d # endOf[i] => StreamKeeps(d)
<1>1. ASSUME NEW i, NEW e, NEW u, TakesLength(i, e, u) PROVE i \in DOMAIN endOf /\ \A d \in Ends : d # endOf[i] => StreamKeeps(d)
  <2>1. i \in DOMAIN endOf /\ UNCHANGED <<link, sent>> /\ \E w : wire' = [wire EXCEPT ![endOf[i]] = w]
    BY <1>1 DEF TakesLength
  <2>2. \A d \in Ends : d # endOf[i] => StreamStays(d)
    BY <2>1, StreamsAreTyped DEF StreamStays, StreamTypes
  <2> QED
    BY <2>1, <2>2, StreamsAreTyped, StreamIsKept DEF StreamKeeps
<1>2. ASSUME NEW i, NEW e, NEW k, NEW buf, TakesOver(i, e, k, buf)
      PROVE  i \in DOMAIN endOf /\ \A d \in Ends : d # endOf[i] => StreamKeeps(d)
  <2>1. i \in DOMAIN endOf /\ UNCHANGED <<link, sent>> /\ \E w : wire' = [wire EXCEPT ![endOf[i]] = w]
    BY <1>2 DEF TakesOver
  <2>2. \A d \in Ends : d # endOf[i] => StreamStays(d)
    BY <2>1, StreamsAreTyped DEF StreamStays, StreamTypes
  <2> QED
    BY <2>1, <2>2, StreamsAreTyped, StreamIsKept DEF StreamKeeps
<1> QED
  BY <1>1, <1>2, PreRecvDoes, RecvDataDoes DEF Receives

LEMMA NothingReceivedYetKept ==
  ASSUME ControlInv, NothingReceivedYet, [Next]_vars
  PROVE  NothingReceivedYet'
<1> SUFFICES ASSUME NEW e \in Ends, IsUnmet(e)' PROVE Stream(e, 0)'
  BY DEF NothingReceivedYet, IsUnmet
<1>1. IsUnmet(e) /\ Stream(e, 0)
  BY UnmetStaysUnmet DEF NothingReceivedYet
<1>2. StreamKeeps(e) => Stream(e, 0)'
  BY <1>1 DEF StreamKeeps
<1>3. CASE Stays
  BY <1>2, <1>3 DEF Stays
<1>4. CASE Receives
  BY <1>1, <1>2, <1>3, <1>4, ReceivesOfMet DEF IsUnmet
<1>5. CASE Inserts
  <2>1. UNCHANGED <<wire, link, sent>>
    BY <1>5, InsertDoes DEF Inserts, Inserted
  <2> QED
    BY <1>1, <2>1 DEF Stream
<1> QED
  BY <1>3, <1>4, <1>5, StreamMoves

\* The parts of IsFramed, each for an end and a buffer that do not change.
AreUnits(buf, e, r) == \A k \in 1..Len(buf) : IsUnit(buf[k], e, 4 * r + k - 1)
GivenSoFar(i, e, r) ==
  /\ \A k \in DOMAIN Given : Given[k].type = "recv" /\ Given[k].id = i => Given[k].msg[1].n <= r
  /\ r > 0 => \E k \in DOMAIN Given : Given[k] = Recv(i, Whole(e, r))

LEMMA FramedIs ==
  ASSUME NEW i, NEW r
  PROVE  IsFramed(i, r) <=> /\ Stream(endOf[i], 4 * r + Len(conns[i].buf))
                            /\ AreUnits(conns[i].buf, endOf[i], r) /\ GivenSoFar(i, endOf[i], r)
BY DEF IsFramed, AreUnits, GivenSoFar

LEMMA FramedAfter ==
  ASSUME NEW i, NEW e, NEW r, NEW buf, NEW b,
         endOf'[i] = e, conns'[i].buf = buf, b = 4 * r + Len(buf),
         Stream(e, b)', AreUnits(buf, e, r), GivenSoFar(i, e, r)'
  PROVE  IsFramed(i, r)'
BY DEF IsFramed, AreUnits, GivenSoFar, Stream

LEMMA GivenSoFarIsKept ==
  ASSUME ControlInv, mRunning', NEW i, NEW e, NEW r, GivenSoFar(i, e, r), KeepsOrder
  PROVE  GivenSoFar(i, e, r)'
<1>1. Recv(i, Whole(e, r)).type = "recv"
  BY DEF Recv
<1> QED
  BY <1>1, ReceivedStay DEF GivenSoFar, ControlInv

\* A connection in step was in step, unless it is new.
LEMMA StaysInStep ==
  ASSUME ControlInv, [Next]_vars, NEW i, conns[i].fd # NoFd, InStep(i)',
         \A k \in DOMAIN Given : Given[k].type = "recv" => \E l \in DOMAIN Given' : Given'[l] = Given[k]
  PROVE  InStep(i)
<1>1. mRunning
  BY StaysStopped DEF InStep
<1>2. DOMAIN Given = 1..Len(Given) /\ DOMAIN Given' = 1..Len(Given')
  BY ControlIsInductive, GivenIsSeq DEF ControlInv, TypeOK, Given
<1>3. ~IsOutOfStep(Given', i, Len(Given'))
  BY DEF InStep
<1>4. ~IsOutOfStep(Given, i, Len(Given))
  BY <1>2, <1>3 DEF IsOutOfStep, IsBroken
<1> QED
  BY <1>1, <1>4 DEF InStep

LEMMA ReceivedHasNumber ==
  ASSUME Contexts, NEW k \in DOMAIN Given, Given[k].type = "recv"
  PROVE  Given[k].msg[1].n \in Nat
<1>1. Given[k].msg[1] \in Unit
  BY DEF Contexts, IsDelivered, Message
<1> QED
  BY <1>1 DEF Unit

\* Four units of one message, no wrong length among them.
LEMMA UnitsAreWhole ==
  ASSUME NEW buf \in Message, NEW e, NEW r \in Nat, AreUnits(buf, e, r), Len(buf) = 4,
         buf[2].part \notin {"short", "wraps"}
  PROVE  buf = Whole(e, r + 1)
<1>1. ASSUME NEW k \in 1..4 PROVE buf[k] = [from |-> e, n |-> r + 1, part |-> Parts[k]]
  <2>1. IsUnit(buf[k], e, 4 * r + k - 1)
    BY <1>1 DEF AreUnits
  <2>2. (4 * r + k - 1) \div 4 = r /\ (4 * r + k - 1) % 4 = k - 1
    <3>1. k - 1 \in 0..3 /\ 4 * r + k - 1 = 4 * r + (k - 1)
      OBVIOUS
    <3> QED
      BY <3>1
  <2>3. buf[k].from = e /\ buf[k].n = r + 1 /\ buf[k].part = Parts[k]
    BY <1>1, <2>1, <2>2 DEF IsUnit
  <2>4. buf[k] \in Unit
    BY <1>1 DEF Message
  <2> QED
    BY <2>3, <2>4 DEF Unit
<1>2. buf = [k \in 1..4 |-> buf[k]]
  BY DEF Message
<1> QED
  BY <1>1, <1>2 DEF Whole

LEMMA LengthTaken ==
  ASSUME ControlInv, NEW i, NEW e, NEW u, TakesLength(i, e, u), NEW r \in Nat, IsFramed(i, r)
  PROVE  IsFramed(i, r)'
<1> DEFINE old == conns[i].buf
<1>a. Len(old) \in Nat /\ 4 * r + Len(old) \in Nat
  <2>1. Len(old) \in Nat
    BY DEF TakesLength
  <2> HIDE DEF old
  <2> QED
    BY <2>1
<1>b. PICK b \in Nat : b = 4 * r + Len(old)
  BY <1>a
<1>c. PICK c \in Nat : c = b + 1
  OBVIOUS
<1>1. /\ Stream(e, b) /\ AreUnits(old, e, r) /\ GivenSoFar(i, e, r)
      /\ e \in Ends /\ i \in DOMAIN conns /\ old \in Seq(Unit) /\ endOf'[i] = e
      /\ conns'[i].buf = Append(old, u) /\ 1 \in 1..Len(wire[e])
  BY <1>b, FramedIs DEF TakesLength
<1>2. u = wire[e][1]
  <2>1. old = <<>> \/ old[1].part = "len1"
    <3>1. old # <<>> => 1 \in 1..Len(old)
      BY <1>1
    <3>2. 1 \in 1..Len(old) => IsUnit(old[1], e, 4 * r + 1 - 1)
      BY <1>1 DEF AreUnits
    <3>3. (4 * r + 1 - 1) % 4 = 0
      OBVIOUS
    <3> HIDE DEF old
    <3> QED
      BY <3>1, <3>2, <3>3 DEF IsUnit, Parts
  <2> QED
    BY <2>1 DEF TakesLength, ReadAs
<1>3. Stream(e, c)' /\ IsUnit(u, e, b)
  <2>1. /\ wire' = [wire EXCEPT ![e] = SubSeq(wire[e], 1 + 1, Len(wire[e]))] /\ UNCHANGED <<link, sent>>
        /\ Stream(e, b) /\ StreamTypes
    BY <1>1, StreamsAreTyped DEF TakesLength
  <2>2. Stream(e, b + 1)' /\ \A l \in 1..1 : IsUnit(wire[e][l], e, b + l - 1)
    BY <1>1, <2>1, StreamIsTaken
  <2>3. b + 1 - 1 = b
    OBVIOUS
  <2> QED
    BY <1>c, <1>2, <2>2, <2>3
<1>4. 4 * r + Len(Append(old, u)) = c
  <2>1. Len(Append(old, u)) = Len(old) + 1
    BY <1>1
  <2> HIDE DEF old
  <2> QED
    BY <1>a, <1>b, <1>c, <2>1
<1>5. AreUnits(Append(old, u), e, r)
  <2> SUFFICES ASSUME NEW l \in 1..Len(old) + 1 PROVE IsUnit(Append(old, u)[l], e, 4 * r + l - 1)
    BY <1>1, <1>a DEF AreUnits
  <2>1. CASE l = Len(old) + 1
    <3>1. Append(old, u)[l] = u /\ 4 * r + l - 1 = b
      BY <1>1, <1>a, <1>b, <2>1
    <3> QED
      BY <1>3, <3>1
  <2>2. CASE l # Len(old) + 1
    <3>1. l \in 1..Len(old)
      <4> HIDE DEF old
      <4> QED
        BY ONLY <1>a, <2>2, l \in 1..Len(old) + 1
    <3>2. Append(old, u)[l] = old[l]
      <4>1. old \in Seq(Unit)
        BY <1>1
      <4> HIDE DEF old
      <4> QED
        BY ONLY <3>1, <4>1
    <3> QED
      BY <1>1, <3>1, <3>2 DEF AreUnits
  <2> QED
    BY <2>1, <2>2
<1>6. GivenSoFar(i, e, r)'
  <2>1. UNCHANGED <<Given, mRunning>>
    BY DEF TakesLength, Given
  <2> QED
    BY <1>1, <2>1 DEF GivenSoFar
<1>7. PICK buf : buf = Append(old, u)
  OBVIOUS
<1> HIDE DEF old
<1> QED
  BY <1>1, <1>3, <1>4, <1>5, <1>6, <1>7, FramedAfter

\* The buffer, with what was put behind it, holds the next units of the end.
LEMMA UnitsTaken ==
  ASSUME ControlInv, NEW i, NEW e, NEW k, NEW buf, TakesOver(i, e, k, buf),
         NEW r \in Nat, IsFramed(i, r)
  PROVE  /\ AreUnits(buf, e, r)
         /\ \A b : b = 4 * r + Len(buf) => Stream(e, b)'
<1> DEFINE old == conns[i].buf
           new == SubSeq(wire[e], 1, k)
<1>a. Len(old) \in Nat /\ 4 * r + Len(old) \in Nat
  <2>0. i \in DOMAIN conns /\ TypeOK
    BY DEF ControlInv, TakesOver
  <2>1. Len(old) \in Nat
    BY <2>0, ConnType
  <2> HIDE DEF old
  <2> QED
    BY <2>1
<1>b. PICK b \in Nat : b = 4 * r + Len(old)
  BY <1>a
<1>1. /\ Stream(e, b) /\ AreUnits(old, e, r) /\ e \in Ends /\ k \in 1..Len(wire[e])
      /\ i \in DOMAIN conns /\ i = at[Drv].id /\ at[Drv].pc = "recv"
      /\ buf = old \o new /\ Len(buf) = Len(old) + k /\ conns[i].fd # NoFd
  BY <1>b, FramedIs DEF TakesOver, IsOpen
<1>2. old \in Seq(Unit) /\ Len(old) \in Nat /\ b \in Nat /\ k \in Nat
      /\ wire[e] \in Seq(Unit) /\ Len(wire[e]) \in Nat
  <2>1. old \in Seq(Unit)
    BY <1>1, ConnType DEF ControlInv
  <2>3. wire[e] \in Seq(Unit) /\ Len(wire[e]) \in Nat
    BY <1>1, StreamsAreTyped DEF StreamTypes
  <2>4. Len(old) \in Nat
    BY <2>1
  <2> HIDE DEF old
  <2>5. b \in Nat /\ k \in Nat
    BY <1>1, <2>3, <2>4
  <2> QED
    BY <2>1, <2>3, <2>4, <2>5
<1>3. Stream(e, b + k)' /\ \A l \in 1..k : new[l] = wire[e][l] /\ IsUnit(wire[e][l], e, b + l - 1)
  <2>1. /\ wire' = [wire EXCEPT ![e] = SubSeq(wire[e], k + 1, Len(wire[e]))] /\ UNCHANGED <<link, sent>>
        /\ Stream(e, b) /\ StreamTypes
    BY <1>1, StreamsAreTyped DEF TakesOver
  <2> QED
    BY <1>1, <2>1, StreamIsTaken
<1>4. \A l \in 1..Len(old) : buf[l] = old[l]
  BY <1>1, <1>2
<1>5. ASSUME NEW l \in 1..Len(buf), l > Len(old)
      PROVE  IsUnit(buf[l], e, 4 * r + l - 1)
  <2> DEFINE n == Len(old)
  <2>0. n \in Nat /\ Len(buf) = n + k
    BY <1>1, <1>2
  <2> HIDE DEF n
  <2>1. l - n \in 1..k /\ 4 * r + l - 1 = b + (l - n) - 1
    <3>1. l > n /\ l \in 1..n + k /\ b = 4 * r + n /\ k \in Nat
      BY <1>2, <1>5, <1>b, <2>0 DEF n
    <3> QED
      BY <2>0, <3>1
  <2>2. buf[l] = new[l - n]
    <3>1. Len(new) = k /\ new \in Seq(Unit)
      BY <1>1, <1>2
    <3>2. old \in Seq(Unit) /\ n = Len(old) /\ buf = old \o new /\ l \in 1..Len(old) + Len(new) /\ l > Len(old)
      BY <1>1, <1>2, <1>5, <2>0, <3>1 DEF n
    <3> HIDE DEF new, old
    <3> QED
      BY ONLY <3>1, <3>2
  <2> QED
    BY <1>3, <2>1, <2>2 DEF n
<1> HIDE DEF old, new
<1>8. AreUnits(buf, e, r)
  <2> SUFFICES ASSUME NEW l \in 1..Len(buf) PROVE IsUnit(buf[l], e, 4 * r + l - 1)
    BY DEF AreUnits
  <2>1. CASE l > Len(old)
    BY <1>5, <2>1
  <2>2. CASE ~(l > Len(old))
    <3>1. l \in 1..Len(old)
      BY <1>2, <2>2
    <3> QED
      BY <1>1, <1>4, <3>1 DEF AreUnits
  <2> QED
    BY <2>1, <2>2
<1>10. b + k = 4 * r + Len(buf)
  BY <1>1, <1>2, <1>b
<1>11. \A c : c = 4 * r + Len(buf) => Stream(e, c)'
  BY <1>3, <1>10
<1> QED
  BY <1>8, <1>11

\* A length that the driver has in Recv was read as no short one.
LEMMA LengthIsNotShort ==
  ASSUME NoShortLength, NEW i, NEW e, NEW k, NEW buf, TakesOver(i, e, k, buf)
  PROVE  buf[2] = conns[i].buf[2] /\ buf[2].part # "short"
<1> DEFINE old == conns[i].buf
           new == SubSeq(wire[e], 1, k)
<1>1. Len(old) \in 2..3 /\ i \in DOMAIN conns /\ conns[i].fd # NoFd /\ at[Drv].pc = "recv"
  BY DEF TakesOver, IsOpen
<1>2. old[2].part # "short"
  BY <1>1 DEF NoShortLength
<1>3. buf = old \o new
  BY DEF TakesOver
<1>4. buf[2] = old[2]
  <2> HIDE DEF old, new
  <2> QED
    BY <1>1, <1>3
<1> QED
  BY <1>2, <1>4

\* A message that is complete, and whose length did not wrap, is the next one.
LEMMA WholeTaken ==
  ASSUME ControlInv, NoShortLength, NEW i, NEW e, NEW k, NEW buf, TakesOver(i, e, k, buf),
         NEW r \in Nat, IsFramed(i, r), Len(buf) = Needed(buf), ~LengthWraps(buf)
  PROVE  buf = Whole(e, r + 1) /\ buf[1].n = r + 1 /\ Len(buf) = 4
<1>0. Needed(buf) = 4
  BY DEF Needed
<1>1. buf \in Message
  <2>1. IsDelivered(buf) \/ Len(buf) < Needed(buf)
    BY Zenon DEF TakesOver
  <2> QED
    BY <1>0, <2>1 DEF IsDelivered
<1>2. AreUnits(buf, e, r)
  BY UnitsTaken
<1>3. buf[2].part \notin {"short", "wraps"}
  BY LengthIsNotShort DEF LengthWraps
<1>4. buf = Whole(e, r + 1)
  BY <1>0, <1>1, <1>2, <1>3, UnitsAreWhole
<1> QED
  BY <1>0, <1>4 DEF Whole

LEMMA TakenIsFramed ==
  ASSUME ControlInv, NoShortLength, NEW i, NEW e, NEW k, NEW buf, TakesOver(i, e, k, buf),
         NEW r \in Nat, IsFramed(i, r), InStep(i)'
  PROVE  \E q \in Nat : IsFramed(i, q)'
<1>a. endOf[i] = e /\ endOf'[i] = e
  BY DEF TakesOver
<1>b. GivenSoFar(i, e, r)
  BY <1>a, FramedIs
<1>1. AreUnits(buf, e, r) /\ (\A b : b = 4 * r + Len(buf) => Stream(e, b)') /\ GivenSoFar(i, e, r) /\ endOf'[i] = e
  BY <1>a, <1>b, UnitsTaken
<1>2. CASE conns'[i].buf = buf /\ GivesNothing
  <2>1. UNCHANGED <<Given, mRunning>>
    BY <1>2 DEF TakesOver, GivesNothing
  <2>2. GivenSoFar(i, e, r)'
    BY <1>1, <2>1 DEF GivenSoFar
  <2>3. PICK b : b = 4 * r + Len(buf)
    OBVIOUS
  <2>4. Stream(e, b)'
    BY <1>1, <2>3
  <2>5. IsFramed(i, r)'
    BY <1>1, <1>2, <2>2, <2>3, <2>4, FramedAfter
  <2> QED
    BY <2>5
<1>3. CASE Len(buf) = Needed(buf) /\ conns'[i].buf = <<>> /\ (IF mRunning THEN Gives(Recv(i, buf)) ELSE GivesNothing)
  <2>a. mRunning
    BY DEF TakesOver, InStep
  <2>b. ~LengthWraps(buf)
    <3>1. Given' = Append(Given, Recv(i, buf)) /\ ~IsOutOfStep(Given', i, Len(Given'))
      BY <1>3, <2>a DEF Gives, InStep
    <3>2. Len(Given') = Len(Given) + 1 /\ Given'[Len(Given) + 1] = Recv(i, buf) /\ Len(Given) \in Nat
      BY <3>1, GivenIsSeq DEF ControlInv
    <3>3. ~(IsBroken(Recv(i, buf)) /\ Recv(i, buf).id = i)
      <4>1. Len(Given) + 1 \in 1..Len(Given')
        BY <3>2
      <4>2. \A l \in 1..Len(Given') : ~(IsBroken(Given'[l]) /\ Given'[l].id = i)
        BY <3>1 DEF IsOutOfStep
      <4> QED
        BY ONLY <3>2, <4>1, <4>2, Zenon
    <3>4. Recv(i, buf).id = i /\ Recv(i, buf).type = "recv" /\ Recv(i, buf).msg = buf
      BY DEF Recv
    <3> QED
      BY <3>3, <3>4, Zenon DEF IsBroken
  <2>1. buf = Whole(e, r + 1) /\ buf[1].n = r + 1 /\ Len(buf) = 4
    BY <1>3, <2>b, WholeTaken
  <2> DEFINE q == r + 1
  <2>c. Len(buf) = 4
    BY <2>1
  <2>2. q \in Nat /\ 4 * r + Len(buf) = 4 * q + Len(<<>>)
    BY <2>c
  <2>3. UNCHANGED mRunning
    BY DEF TakesOver
  <2>4. AreUnits(<<>>, e, q)
    BY DEF AreUnits
  <2>5. GivenSoFar(i, e, q)'
    <3> SUFFICES /\ \A l \in DOMAIN Given' : Given'[l].type = "recv" /\ Given'[l].id = i => Given'[l].msg[1].n <= q
                 /\ \E l \in DOMAIN Given' : Given'[l] = Recv(i, buf)
      BY <2>1 DEF GivenSoFar
    <3>1. Given' = Append(Given, Recv(i, buf))
      BY <1>3, <2>a DEF Gives
    <3>2. /\ \A l \in DOMAIN Given' : Given'[l] = Recv(i, buf) \/ (l \in DOMAIN Given /\ Given'[l] = Given[l])
          /\ Len(Given) + 1 \in DOMAIN Given' /\ Given'[Len(Given) + 1] = Recv(i, buf)
      BY <3>1, GivenIsSeq DEF ControlInv
    <3>3. Recv(i, buf).msg[1].n = q
      BY <2>1 DEF Recv
    <3>4. \A l \in DOMAIN Given : Given[l].type = "recv" => Given[l].msg[1].n \in Nat
      BY ReceivedHasNumber DEF ControlInv
    <3>5. \A l \in DOMAIN Given : Given[l].type = "recv" /\ Given[l].id = i => Given[l].msg[1].n <= r
      BY <1>1 DEF GivenSoFar
    <3> HIDE DEF q
    <3>6. \A m \in Nat : m <= r => m <= q
      BY DEF q
    <3>7. q <= q
      BY <2>2
    <3> QED
      BY <3>2, <3>3, <3>4, <3>5, <3>6, <3>7
  <2>6. PICK b : b = 4 * r + Len(buf)
    OBVIOUS
  <2> HIDE DEF q
  <2>7. Stream(e, b)'
    BY <1>1, <2>6
  <2>8. IsFramed(i, q)'
    BY <1>1, <1>3, <2>2, <2>4, <2>5, <2>6, <2>7, FramedAfter
  <2> QED
    BY <2>2, <2>8
<1> QED
  BY <1>2, <1>3 DEF TakesOver

LEMMA StaysFramed ==
  ASSUME ControlInv, NEW j \in DOMAIN conns, NEW e, e = endOf[j], NEW r \in Nat, IsFramed(j, r),
         conns'[j].buf = conns[j].buf, endOf'[j] = e, StreamKeeps(e), GivenSoFar(j, e, r)'
  PROVE  IsFramed(j, r)'
<1>1. PICK buf : buf = conns[j].buf
  OBVIOUS
<1>2. Len(buf) \in Nat
  BY <1>1, ConnType DEF ControlInv
<1>3. PICK b \in Nat : b = 4 * r + Len(buf)
  BY <1>2
<1>4. Stream(e, b) /\ AreUnits(buf, e, r)
  BY <1>1, <1>3, FramedIs
<1>5. Stream(e, b)'
  BY <1>4 DEF StreamKeeps
<1> QED
  BY <1>1, <1>3, <1>4, <1>5, FramedAfter

LEMMA ReceivedSoFarKept ==
  ASSUME ControlInv, NothingReceivedYet, ReceivedSoFar, NoShortLength, [Next]_vars
  PROVE  ReceivedSoFar'
<1>a. IdsOfConns /\ TypeOK /\ Contexts
  BY DEF ControlInv
<1>b. \A j \in DOMAIN conns : j \in DOMAIN endOf /\ endOf[j] \in Ends
  BY <1>a, ConnType DEF IdsOfConns
<1> SUFFICES ASSUME NEW j \in DOMAIN conns', InStep(j)'
             PROVE  \E r \in Nat : IsFramed(j, r)'
  BY DEF ReceivedSoFar
<1>c. conns'[j].fd # NoFd /\ mRunning'
  BY DEF InStep
<1>1. ASSUME Stays PROVE \E r \in Nat : IsFramed(j, r)'
  <2>1. /\ j \in DOMAIN conns /\ conns[j].fd # NoFd /\ conns'[j].buf = conns[j].buf
        /\ endOf'[j] = endOf[j] /\ KeepsOrder
    BY <1>1, <1>c DEF Stays, KeepsBufs
  <2>a. InStep(j)
    BY <1>a, <1>c, <2>1, ReceivedStay, StaysInStep
  <2>2. PICK r \in Nat : IsFramed(j, r)
    BY <2>1, <2>a DEF ReceivedSoFar
  <2>3. PICK d \in Ends : d = endOf[j]
    BY <1>b, <2>1
  <2>4. StreamKeeps(d)
    BY <1>1 DEF Stays
  <2>5. GivenSoFar(j, d, r)'
    BY <1>c, <2>1, <2>2, <2>3, FramedIs, GivenSoFarIsKept
  <2> QED
    BY <2>1, <2>2, <2>3, <2>4, <2>5, StaysFramed
<1>2. ASSUME NEW i, NEW e, NEW u, TakesLength(i, e, u) PROVE \E r \in Nat : IsFramed(j, r)'
  <2>1. /\ j \in DOMAIN conns /\ conns[j].fd # NoFd /\ UNCHANGED <<endOf, Given, mRunning, link, sent>>
        /\ i \in DOMAIN endOf /\ e = endOf[i]
        /\ \E w : wire' = [wire EXCEPT ![e] = w]
    BY <1>2, <1>c DEF TakesLength, Given
  <2>a. InStep(j)
    BY <2>1, StaysInStep
  <2>2. PICK r \in Nat : IsFramed(j, r)
    BY <2>1, <2>a DEF ReceivedSoFar
  <2>3. CASE j = i
    BY <1>2, <2>2, <2>3, LengthTaken
  <2>4. CASE j # i
    <3>1. conns'[j] = conns[j]
      BY <1>2, <2>1, <2>4 DEF TakesLength
    <3>2. PICK d \in Ends : d = endOf[j] /\ d # e /\ endOf'[j] = d
      BY <1>a, <1>b, <2>1, <2>4 DEF IdsOfConns
    <3>3. StreamStays(d)
      BY <2>1, <3>2, StreamsAreTyped DEF StreamStays, StreamTypes
    <3>4. StreamKeeps(d)
      BY <3>3, StreamsAreTyped, StreamIsKept DEF StreamKeeps
    <3>5. GivenSoFar(j, d, r)'
      BY <2>1, <2>2, <3>2, FramedIs DEF GivenSoFar
    <3> QED
      BY <2>1, <2>2, <3>1, <3>2, <3>4, <3>5, StaysFramed
  <2> QED
    BY <2>3, <2>4
<1>3. ASSUME NEW i, NEW e, NEW k, NEW buf, TakesOver(i, e, k, buf) PROVE \E r \in Nat : IsFramed(j, r)'
  <2>1. /\ j \in DOMAIN conns /\ conns[j].fd # NoFd /\ UNCHANGED <<endOf, mRunning, link, sent>>
        /\ i \in DOMAIN endOf /\ e = endOf[i]
        /\ \E w : wire' = [wire EXCEPT ![e] = w]
    BY <1>3, <1>c DEF TakesOver, KeepsConns
  <2>a. InStep(j)
    <3>1. UNCHANGED Given \/ Gives(Recv(i, buf))
      BY <1>3 DEF TakesOver, GivesNothing
    <3>2. Gives(Recv(i, buf)) => \A l \in DOMAIN Given : l \in DOMAIN Given' /\ Given'[l] = Given[l]
      BY <1>a, GivenIsSeq DEF Gives
    <3> QED
      BY <2>1, <3>1, <3>2, StaysInStep
  <2>2. PICK r \in Nat : IsFramed(j, r)
    BY <2>1, <2>a DEF ReceivedSoFar
  <2>3. CASE j = i
    BY <1>3, <2>2, <2>3, TakenIsFramed
  <2>4. CASE j # i
    <3>1. conns'[j] = conns[j]
      BY <1>3, <2>1, <2>4 DEF TakesOver
    <3>2. PICK d \in Ends : d = endOf[j] /\ d # e /\ endOf'[j] = d
      BY <1>a, <1>b, <2>1, <2>4 DEF IdsOfConns
    <3>3. StreamStays(d)
      BY <2>1, <3>2, StreamsAreTyped DEF StreamStays, StreamTypes
    <3>4. StreamKeeps(d)
      BY <3>3, StreamsAreTyped, StreamIsKept DEF StreamKeeps
    <3>5. GivenSoFar(j, d, r)'
      <4>1. GivenSoFar(j, d, r)
        BY <2>2, <3>2, FramedIs
      <4>2. CASE UNCHANGED Given
        BY <2>1, <4>1, <4>2 DEF GivenSoFar
      <4>3. CASE Gives(Recv(i, buf))
        <5>1. /\ \A l \in DOMAIN Given' : Given'[l] = Recv(i, buf) \/ (l \in DOMAIN Given /\ Given'[l] = Given[l])
              /\ \A l \in DOMAIN Given : l \in DOMAIN Given' /\ Given'[l] = Given[l]
          BY <1>a, <4>3, GivenIsSeq DEF Gives
        <5>2. Recv(i, buf).id # j
          BY <2>4 DEF Recv
        <5> QED
          BY <2>1, <4>1, <5>1, <5>2 DEF GivenSoFar
      <4> QED
        BY <1>3, <4>2, <4>3 DEF TakesOver, GivesNothing
    <3> QED
      BY <2>1, <2>2, <3>1, <3>2, <3>4, <3>5, StaysFramed
  <2> QED
    BY <2>3, <2>4
<1>4. ASSUME NEW t, NEW i, NEW f, NEW e, Inserted(t, i, f, e) PROVE \E r \in Nat : IsFramed(j, r)'
  <2>1. /\ UNCHANGED <<wire, link, sent, Given, mRunning>> /\ i \notin DOMAIN endOf
        /\ conns' = [l \in DOMAIN conns \cup {i} |-> IF l = i THEN NewConnection(e, f) ELSE conns[l]]
        /\ endOf' = [l \in DOMAIN endOf \cup {i} |-> IF l = i THEN e ELSE endOf[l]]
        /\ e \in Ends /\ IsUnmet(e)
    BY <1>4 DEF Inserted, Given, IsUnmet
  <2>2. CASE j = i
    <3>1. conns'[j].buf = <<>> /\ endOf'[j] = e
      BY <2>1, <2>2 DEF NewConnection
    <3>2. Stream(e, 0)'
      BY <2>1 DEF NothingReceivedYet, Stream
    <3>3. AreUnits(<<>>, e, 0)
      BY DEF AreUnits
    <3>4. GivenSoFar(j, e, 0)'
      <4>1. \A l \in DOMAIN Given : Given[l].type = "recv" => Given[l].id # j
        BY <1>a, <2>1, <2>2 DEF Contexts
      <4> QED
        BY <2>1, <4>1 DEF GivenSoFar
    <3>5. 0 = 4 * 0 + Len(<<>>)
      OBVIOUS
    <3>6. IsFramed(j, 0)'
      BY <3>1, <3>2, <3>3, <3>4, <3>5, FramedAfter
    <3> QED
      BY <3>6
  <2>3. CASE j # i
    <3>1. j \in DOMAIN conns /\ conns'[j] = conns[j]
      BY <2>1, <2>3
    <3>2. PICK d \in Ends : d = endOf[j] /\ endOf'[j] = d
      BY <1>b, <2>1, <2>3, <3>1
    <3>a. InStep(j)
      BY <1>c, <2>1, <3>1, StaysInStep
    <3>3. PICK r \in Nat : IsFramed(j, r)
      BY <3>1, <3>a DEF ReceivedSoFar
    <3>4. StreamKeeps(d)
      BY <2>1 DEF StreamKeeps, Stream
    <3>5. GivenSoFar(j, d, r)'
      BY <2>1, <3>2, <3>3, FramedIs DEF GivenSoFar
    <3> QED
      BY <3>1, <3>2, <3>3, <3>4, <3>5, StaysFramed
  <2> QED
    BY <2>2, <2>3
<1> QED
  BY <1>1, <1>2, <1>3, <1>4, StreamMoves, PreRecvDoes, RecvDataDoes, InsertDoes DEF Receives, Inserts

\* From closing a connection the driver goes on to have its socket closed.
PlaceOfDrv ==
  at[Drv].pc \in {"unregRead", "unregWrite"} =>
    CloseSocket(Drv) \/ (at'[Drv].pc \in {"unregRead", "unregWrite"} /\ at'[Drv].id = at[Drv].id)

LEMMA DrvIsPlaced ==
  ASSUME ControlInv, [Next]_vars
  PROVE  PlaceOfDrv
<1> USE AtType
<1>a. TypeOK /\ ThreadPlaces
  BY DEF ControlInv
<1> USE <1>a, NetServiceAssumption
    DEF svcVars, connVars, srvVars, drvVars, At, Go, GoFor, Return, Home, Threads
<1>1. CASE UNCHANGED at
  BY <1>1
     DEF PlaceOfDrv
<1>2. CASE CallHandler
  <2>1. PICK ev \in active : GoFor(Drv, ev[2], events[ev[1]][ev[2]], NoFd)
    BY <1>2 DEF CallHandler
  <2>2. ev[2] \in {"read", "write"}
    BY <2>1 DEF TypeOK
  <2>3. at[Drv].pc = "poll"
    BY <1>2 DEF CallHandler
  <2>4. at'[Drv].pc \in {"read", "write"}
    BY <2>1, <2>2
  <2> QED
    BY <2>3, <2>4 DEF PlaceOfDrv
<1>3. CASE Alive(Drv) /\ ReadData
  <2>1. at[Drv].pc \notin {"unregRead", "unregWrite"}
    BY <1>3 DEF ReadData
  <2> QED
    BY <1>3, <2>1 DEF PlaceOfDrv
<1>4. CASE Alive(Drv) /\ PreRecv
  <2>1. at[Drv].pc \notin {"unregRead", "unregWrite"}
    BY <1>4 DEF PreRecv
  <2> QED
    BY <1>4, <2>1 DEF PlaceOfDrv
<1>5. CASE Alive(Drv) /\ RecvData
  BY <1>5
     DEF PlaceOfDrv, RecvData, Unlocked, Alive, End
<1>6. CASE Alive(Drv) /\ RecvGetsNothing
  BY <1>6
     DEF PlaceOfDrv, RecvGetsNothing, Unlocked, Alive, End
<1>7. ASSUME NEW t \in {Drv, Svc}, CloseUnregistersRead(t) PROVE PlaceOfDrv
  BY <1>7
     DEF PlaceOfDrv, CloseUnregistersRead
<1>8. ASSUME NEW t \in {Drv, Svc}, CloseSocket(t) PROVE PlaceOfDrv
  <2>1. at' = [at EXCEPT ![t].pc = at[t].then] /\ at[t].then \in {"drop", "unlock", "free"}
    BY <1>8, AtType DEF CloseSocket
  <2> QED
    BY <1>8, <2>1, AtType DEF PlaceOfDrv
<1>9. ASSUME NEW t \in {Drv, Svc}, EnqueueDrop(t) PROVE PlaceOfDrv
  BY <1>9
     DEF PlaceOfDrv, EnqueueDrop
<1>10. ASSUME NEW t \in {Drv, Svc}, t = Drv => Alive(Drv), WriteData(t) PROVE PlaceOfDrv
  BY <1>10
     DEF PlaceOfDrv, WriteData, MutexIsFree, Locked
<1>11. ASSUME NEW t \in {Drv, Svc}, SendData(t) PROVE PlaceOfDrv
  BY <1>11
     DEF PlaceOfDrv, SendData, Unlocked, End
<1>12. ASSUME NEW t \in {Drv, Svc}, Unlock(t) PROVE PlaceOfDrv
  BY <1>12
     DEF PlaceOfDrv, Unlock, Unlocked
<1>13. ASSUME NEW t \in {Svc, App}, InsertConnection(t), fault' = "none" PROVE PlaceOfDrv
  BY <1>13
     DEF PlaceOfDrv, InsertConnection, Dies
<1>14. ASSUME NEW t \in {Svc, App}, RegistReadEvent(t), fault' = "none" PROVE PlaceOfDrv
  BY <1>14
     DEF PlaceOfDrv, RegistReadEvent, RegistEvent, Dies
<1>15. ASSUME NEW t \in {Svc, App}, RegistWriteEvent(t), fault' = "none" PROVE PlaceOfDrv
  BY <1>15
     DEF PlaceOfDrv, RegistWriteEvent, RegistEvent, Dies
<1>16. CASE AcceptConnection
  BY <1>16
     DEF PlaceOfDrv, AcceptConnection, Taking
<1>17. CASE SendMsg
  BY <1>17
     DEF PlaceOfDrv, SendMsg, Taking
<1>18. CASE EnqueueMsg
  BY <1>18
     DEF PlaceOfDrv, EnqueueMsg, ThenWrites, MutexIsFree
<1>19. CASE DropConnection
  BY <1>19
     DEF PlaceOfDrv, DropConnection, Taking
<1>20. CASE FreeSocket
  BY <1>20
     DEF PlaceOfDrv, FreeSocket
<1>21. CASE DeleteConnection
  BY <1>21
     DEF PlaceOfDrv, DeleteConnection, FreesLocked, MutexIsFree, Restrict
<1>22. CASE StopListener
  BY <1>22
     DEF PlaceOfDrv, StopListener
<1>23. CASE DropNextConnection
  <2>1. \E p : at' = [at EXCEPT ![Svc] = p]
    BY <1>23 DEF DropNextConnection
  <2> QED
    BY <2>1, AtType DEF PlaceOfDrv
<1>24. CASE AllDropped
  BY <1>24
     DEF PlaceOfDrv, AllDropped
<1>25. CASE DriverStop /\ fault' = "none"
  BY <1>25
     DEF PlaceOfDrv, DriverStop, Dies
<1>26. CASE JoinDriver
  BY <1>26
     DEF PlaceOfDrv, JoinDriver
<1>27. ASSUME NEW r \in Remotes, StartConnectRemote(r) PROVE PlaceOfDrv
  BY <1>27
     DEF PlaceOfDrv, StartConnectRemote
<1>28. CASE Stop
  BY <1>28
     DEF PlaceOfDrv, Stop
<1>29. CASE StopReturns
  BY <1>29
     DEF PlaceOfDrv, StopReturns
<1>30. CASE UNCHANGED AllButFault
  BY <1>1, <1>30 DEF AllButFault, netVars, connVars, drvVars, svcVars, srvVars
<1> QED
  BY Steps, <1>1, <1>2, <1>3, <1>4, <1>5, <1>6, <1>7, <1>8, <1>9, <1>10, <1>11, <1>12, <1>13,
     <1>14, <1>15, <1>16, <1>17, <1>18, <1>19, <1>20, <1>21, <1>22, <1>23, <1>24, <1>25, <1>26,
     <1>27, <1>28, <1>29, <1>30
     DEF DriverMoves, ConnectionMoves, RegisterMoves, ServiceMoves, AppMoves, Accept,
         FindReady, ProcessRecv, ServerHandles, EndStep, netVars, connVars, drvVars, svcVars,
         srvVars


LEMMA NoShortLengthKept ==
  ASSUME ControlInv, NoShortLength, [Next]_vars
  PROVE  NoShortLength'
<1> DEFINE Closing(j) == at[Drv].pc \in {"unregRead", "unregWrite"} /\ at[Drv].id = j
           Goal(j) == conns'[j].buf[2].part # "short" \/
                        (at'[Drv].pc \in {"unregRead", "unregWrite"} /\ at'[Drv].id = j)
<1> SUFFICES ASSUME NEW j \in DOMAIN conns', conns'[j].fd # NoFd, Len(conns'[j].buf) >= 2
             PROVE  Goal(j)
  BY DEF NoShortLength
<1>1. ASSUME j \in DOMAIN conns, conns[j].fd # NoFd, conns'[j].buf = conns[j].buf
      PROVE  Goal(j)
  <2>1. conns'[j].buf[2].part # "short" \/ Closing(j)
    BY <1>1 DEF NoShortLength
  <2>2. CASE Closing(j) /\ CloseSocket(Drv)
    <3>1. PICK i, f, e : SocketClosed(Drv, i, f, e) /\ i = j
      BY <2>2, CloseSocketDoes
    <3> QED
      BY <3>1 DEF SocketClosed
  <2> QED
    BY <2>1, <2>2, DrvIsPlaced DEF PlaceOfDrv
<1>2. ASSUME NEW i, NEW e, NEW u, TakesLength(i, e, u) PROVE Goal(j)
  <2>1. CASE j # i
    <3>1. j \in DOMAIN conns /\ conns'[j] = conns[j]
      BY <1>2, <2>1 DEF TakesLength
    <3> QED
      BY <1>1, <3>1
  <2>2. CASE j = i
    <3> DEFINE old == conns[i].buf
    <3>1. /\ old \in Seq(Unit) /\ Len(old) < 2 /\ conns'[j].buf = Append(old, u)
          /\ u.part = "short" => old = <<>> \/ (at'[Drv].pc = "unregRead" /\ at'[Drv].id = i)
      BY <1>2, <2>2 DEF TakesLength
    <3> HIDE DEF old
    <3>2. old # <<>> /\ conns'[j].buf[2] = u
      BY <3>1
    <3> QED
      BY <2>2, <3>1, <3>2
  <2> QED
    BY <2>1, <2>2
<1>3. ASSUME NEW i, NEW e, NEW k, NEW buf, TakesOver(i, e, k, buf) PROVE Goal(j)
  <2>1. CASE j # i
    <3>1. j \in DOMAIN conns /\ conns'[j] = conns[j]
      BY <1>3, <2>1 DEF TakesOver, KeepsConns
    <3> QED
      BY <1>1, <3>1
  <2>2. CASE j = i
    <3>1. conns'[i].buf \in {buf, <<>>}
      BY <1>3 DEF TakesOver
    <3> QED
      BY <1>3, <2>2, <3>1, LengthIsNotShort
  <2> QED
    BY <2>1, <2>2
<1>4. ASSUME NEW t, NEW i, NEW f, NEW e, Inserted(t, i, f, e) PROVE Goal(j)
  <2>1. conns' = [m \in DOMAIN conns \cup {i} |-> IF m = i THEN NewConnection(e, f) ELSE conns[m]]
    BY <1>4 DEF Inserted
  <2>2. j # i
    <3>1. NewConnection(e, f).buf = <<>> /\ ~(Len(<<>>) >= 2)
      BY DEF NewConnection
    <3> QED
      BY <2>1, <3>1
  <2> QED
    BY <1>1, <2>1, <2>2
<1>5. KeepsBufs => Goal(j)
  BY <1>1 DEF KeepsBufs
<1> HIDE DEF Closing, Goal
<1> QED
  BY <1>2, <1>3, <1>4, <1>5, StreamMoves, PreRecvDoes, RecvDataDoes, InsertDoes DEF Stays, Receives, Inserts

LEMMA GivenInOrderKept ==
  ASSUME ControlInv, FramingInv, [Next]_vars
  PROVE  GivenInOrder'
<1>a. TypeOK /\ TypeOK' /\ Contexts /\ IdsOfConns
  BY ControlIsInductive DEF ControlInv
<1>b. ReceivedSoFar /\ NoShortLength /\ GivenInOrder
  BY DEF FramingInv
<1>c. \A i \in DOMAIN endOf : i \in DOMAIN endOf' /\ endOf'[i] = endOf[i]
  <2>1. ASSUME NEW t, NEW i, NEW f, NEW e, Inserted(t, i, f, e)
        PROVE  \A j \in DOMAIN endOf : j \in DOMAIN endOf' /\ endOf'[j] = endOf[j]
    BY <2>1 DEF Inserted
  <2> QED
    BY <2>1, EndOfSteps, InsertDoes DEF Inserts
<1>1. CASE KeepsOrder
  BY <1>a, <1>b, <1>c, <1>1, OrderIsKept
<1>2. CASE Alive(Drv) /\ RecvData
  <2>1. PICK i, e, k, buf : TakesOver(i, e, k, buf)
    BY <1>2, RecvDataDoes
  <2>2. CASE GivesNothing
    BY <1>1, <2>2 DEF GivesNothing, KeepsOrder
  <2>3. CASE Gives(Recv(i, buf)) /\ mRunning /\ Len(buf) = Needed(buf)
    <3> DEFINE m == Len(Given) + 1
    <3>1. i \in DOMAIN conns /\ conns[i].fd # NoFd /\ endOf[i] = e /\ endOf'[i] = e
      BY <2>1 DEF TakesOver, IsOpen
    <3>2. /\ Len(Given) \in Nat /\ DOMAIN Given = 1..m - 1 /\ DOMAIN Given' = 1..m /\ Given'[m] = Recv(i, buf)
          /\ \A l \in 1..m - 1 : Given'[l] = Given[l]
      BY <1>a, <2>3, GivenIsSeq DEF Gives
    <3>3. /\ Recv(i, buf).id = i /\ Recv(i, buf).type = "recv" /\ Recv(i, buf).msg = buf
      BY DEF Recv
    <3>4. m \in Nat /\ m - 1 = Len(Given) /\ m - 1 \in Nat
      BY <3>2
    <3> HIDE DEF m
    <3> SUFFICES ASSUME NEW j \in 1..m, IsInStep(Given', j)
                 PROVE  IsNext(Given', j, endOf'[Given'[j].id])
      BY <3>2 DEF GivenInOrder, IsNext, IsInStep
    <3>5. CASE j = m
      <4>1. ~LengthWraps(buf) /\ InStep(i)
        <5>1. \A l \in 1..m : ~(IsBroken(Given'[l]) /\ Given'[l].id = i)
          BY <3>2, <3>3, <3>5 DEF IsInStep, IsOutOfStep
        <5>2. m \in 1..m /\ \A l \in 1..m - 1 : l \in 1..m
          BY <3>2, <3>4
        <5>3. ~IsBroken(Recv(i, buf))
          BY <3>2, <3>3, <5>1, <5>2
        <5>4. ~IsOutOfStep(Given, i, Len(Given))
          BY <3>2, <3>4, <5>1, <5>2 DEF IsOutOfStep
        <5> QED
          BY <2>3, <3>1, <3>3, <5>3, <5>4 DEF IsBroken, InStep
      <4>2. PICK r \in Nat : IsFramed(i, r)
        BY <1>b, <3>1, <4>1 DEF ReceivedSoFar
      <4>3. buf = Whole(e, r + 1) /\ buf[1].n = r + 1
        BY <1>b, <2>1, <2>3, <4>1, <4>2, WholeTaken
      <4>4. /\ \A l \in DOMAIN Given : Given[l].type = "recv" /\ Given[l].id = i => Given[l].msg[1].n <= r
            /\ r > 0 => \E l \in DOMAIN Given : Given[l] = Recv(i, Whole(e, r))
        BY <3>1, <4>2, FramedIs DEF GivenSoFar
      <4>5. Given'[j].msg = Whole(e, r + 1) /\ Given'[j].id = i /\ Given'[j].msg[1].n = r + 1
        BY <3>2, <3>3, <3>5, <4>3
      <4>6. r + 1 > 1 => \E l \in 1..j - 1 : Given'[l] = Recv(i, Whole(e, r + 1 - 1))
        <5>1. (r + 1 > 1 => r > 0) /\ r + 1 - 1 = r
          OBVIOUS
        <5> QED
          BY <3>2, <3>5, <4>4, <5>1
      <4>7. \A l \in 1..j - 1 : Given'[l].type = "recv" /\ Given'[l].id = i => Given'[l].msg[1].n < r + 1
        <5> TAKE l \in 1..j - 1
        <5> HAVE Given'[l].type = "recv" /\ Given'[l].id = i
        <5>1. l \in DOMAIN Given /\ Given'[l] = Given[l]
          BY <3>2, <3>5
        <5>2. Given[l].msg[1].n \in Nat
          BY <1>a, <5>1, ReceivedHasNumber
        <5>3. Given[l].msg[1].n <= r
          BY <4>4, <5>1
        <5> QED
          BY <5>1, <5>2, <5>3
      <4> QED
        BY <3>1, <4>5, <4>6, <4>7 DEF IsNext
    <3>6. CASE j # m
      <4>1. j \in DOMAIN Given /\ \A l \in 1..j : Given'[l] = Given[l]
        BY <3>2, <3>4, <3>6
      <4>2. Given'[j] = Given[j] /\ (\A l \in 1..j - 1 : Given'[l] = Given[l]) /\ j \in Nat
        BY <3>4, <4>1
      <4>3. IsInStep(Given, j)
        BY <4>1, <4>2 DEF IsInStep, IsOutOfStep
      <4>4. IsNext(Given, j, endOf[Given[j].id])
        BY <1>b, <4>1, <4>3, InOrderIs
      <4>5. endOf'[Given'[j].id] = endOf[Given[j].id]
        BY <1>a, <1>c, <4>1, <4>2, <4>3 DEF Contexts, IsInStep
      <4> QED
        BY <4>2, <4>4, <4>5 DEF IsNext
    <3> QED
      BY <3>5, <3>6
  <2>4. GivesNothing \/ (Gives(Recv(i, buf)) /\ mRunning /\ Len(buf) = Needed(buf))
    BY <2>1 DEF TakesOver
  <2> QED
    BY <2>2, <2>3, <2>4
<1> QED
  BY <1>1, <1>2, GivenSteps

LEMMA FramingIsInductive ==
  ASSUME ControlInv, FramingInv, [Next]_vars
  PROVE  FramingInv'
<1>1. NothingReceivedYet' /\ ReceivedSoFar'
  BY NothingReceivedYetKept, ReceivedSoFarKept DEF FramingInv
<1>2. NoShortLength' /\ GivenInOrder'
  BY NoShortLengthKept, GivenInOrderKept DEF FramingInv
<1> QED
  BY <1>1, <1>2 DEF FramingInv

LEMMA FramingAtFirst ==
  ASSUME Init
  PROVE  FramingInv
<1>1. DOMAIN conns = {} /\ DOMAIN Given = {} /\ at[Drv].pc = "poll"
  BY DEF Init, Given, Home, Threads
<1>2. \A e \in Ends : wire[e] = <<>> /\ sent[e] = 0
  BY DEF Init, SocketInit
<1>3. NothingReceivedYet
  BY <1>2 DEF NothingReceivedYet, Stream
<1> QED
  BY <1>1, <1>3 DEF FramingInv, ReceivedSoFar, NoShortLength, GivenInOrder, At

\* What the server is given of a connection is the messages its end sent, whole,
\* in order and each once, for any number of ends, pieces and connections, up to
\* the first message whose length wraps in ReadData: a descriptor's next owner
\* never gets the bytes of the last one, and no message is made of two.
THEOREM ReceivedInOrder == Spec => []FramedInOrder
<1>1. Init => ControlInv /\ FramingInv
  BY ControlAtFirst, FramingAtFirst
<1>2. ControlInv /\ FramingInv /\ [Next]_vars => (ControlInv /\ FramingInv)'
  BY ControlIsInductive, FramingIsInductive
<1>3. ASSUME ControlInv, FramingInv PROVE FramedInOrder
  <2>1. /\ \A k \in DOMAIN srvLog : k \in DOMAIN Given /\ Given[k] = srvLog[k]
        /\ DOMAIN srvLog = 1..Len(srvLog) /\ Len(srvLog) \in Nat
    BY <1>3, GivenIsSeq DEF ControlInv
  <2> SUFFICES ASSUME NEW j \in DOMAIN srvLog, IsInStep(srvLog, j)
               PROVE  IsNext(srvLog, j, endOf[srvLog[j].id])
    BY DEF FramedInOrder, IsNext, IsInStep
  <2>2. j \in DOMAIN Given /\ Given[j] = srvLog[j] /\ \A k \in 1..j : Given[k] = srvLog[k]
    BY <2>1
  <2>3. \A k \in 1..j - 1 : Given[k] = srvLog[k]
    BY <2>1
  <2>4. IsInStep(Given, j)
    BY <2>2 DEF IsInStep, IsOutOfStep
  <2>5. IsNext(Given, j, endOf[Given[j].id])
    BY <1>3, <2>2, <2>4, InOrderIs DEF FramingInv
  <2> QED
    BY <2>2, <2>3, <2>5 DEF IsNext
<1> QED
  BY <1>1, <1>2, <1>3, PTL DEF Spec

-----------------------------------------------------------------------------
\* Replies.  An end's connection that is open was open; what it has not read of
\* what it was sent stays, or is lost with the connection.
OpenWasOpen == \A i \in DOMAIN endOf : link'[endOf[i]] = "open" => link[endOf[i]] = "open"

LEMMA OpenIsOpen ==
  ASSUME ControlInv, [Next]_vars
  PROVE  OpenWasOpen
<1>b. \A i \in DOMAIN endOf : endOf[i] \in Ends
  BY DEF ControlInv, TypeOK, Range
<1>a. TypeOK /\ Sockets /\ link \in [Ends -> LinkStates]
  BY DEF ControlInv, TypeOK, SocketTypeOK
<1> USE <1>a, NetServiceAssumption
    DEF svcVars, connVars, srvVars, drvVars, Threads
<1>1. CASE UNCHANGED link
  BY <1>1
     DEF OpenWasOpen
<1>2. CASE Alive(Drv) /\ PreRecv
  <2>1. UNCHANGED link \/ \E e : link' = [link EXCEPT ![e] = "dead"]
    BY <1>2 DEF PreRecv, ErrorReported
  <2>2. \A e \in Ends : link'[e] = "open" => link[e] = "open"
    BY <2>1
  <2> QED
    BY <1>b, <2>2 DEF OpenWasOpen
<1>3. CASE Alive(Drv) /\ RecvGetsNothing
  <2>1. UNCHANGED link \/ \E e : link' = [link EXCEPT ![e] = "dead"]
    BY <1>3 DEF RecvGetsNothing, ErrorReported
  <2>2. \A e \in Ends : link'[e] = "open" => link[e] = "open"
    BY <2>1
  <2> QED
    BY <1>b, <2>2 DEF OpenWasOpen
<1>4. ASSUME NEW t \in {Drv, Svc}, CloseSocket(t) PROVE OpenWasOpen
  <2>0. PICK i, f, e : SocketClosed(t, i, f, e) /\ i = at[t].id /\ f = Conn(t).fd /\ e = endOf[i]
    BY <1>4, CloseSocketDoes
  <2>1. link' = [link EXCEPT ![e] = "over"]
    BY <2>0 DEF SocketClosed
  <2>2. \A d \in Ends : link'[d] = "open" => link[d] = "open"
    BY <2>1
  <2> QED
    BY <1>b, <2>2 DEF OpenWasOpen
<1>5. ASSUME NEW t \in {Drv, Svc}, SendData(t) PROVE OpenWasOpen
  <2>1. UNCHANGED link \/ \E e : link' = [link EXCEPT ![e] = "dead"]
    BY <1>5 DEF SendData, Sent, ErrorReported
  <2>2. \A e \in Ends : link'[e] = "open" => link[e] = "open"
    BY <2>1
  <2> QED
    BY <1>b, <2>2 DEF OpenWasOpen
<1>6. CASE FreeSocket
  <2>0. PICK i : Freed(i) /\ i = at[Svc].id
    BY <1>6, FreeSocketDoes
  <2> QED
    BY <2>0 DEF Freed, OpenWasOpen
<1>7. CASE StopListener
  <2>1. \A d \in Ends : link'[d] = "open" => link[d] = "open"
    BY <1>7 DEF StopListener
  <2> QED
    BY <1>b, <2>1 DEF OpenWasOpen
<1>8. ASSUME NEW r \in Remotes, StartConnectRemote(r) PROVE OpenWasOpen
  <2>1. link[r] = "none" /\ link' = [link EXCEPT ![r] = "open"] /\ r \in Ends
    BY <1>8 DEF StartConnectRemote, Ends
  <2>2. link[r] = "none" => \A i \in DOMAIN endOf : endOf[i] # r
    BY <2>1 DEF Sockets, NoneIsNeverMet, NeverMet
  <2> QED
    BY <1>b, <2>1, <2>2 DEF OpenWasOpen
<1>9. ASSUME NEW e \in Ends, EndStep(e) PROVE OpenWasOpen
  <2>1. link[e] = "none" => \A i \in DOMAIN endOf : endOf[i] # e
    BY <1>b DEF Sockets, NoneIsNeverMet, NeverMet
  <2>2. \A d \in Ends : link'[d] = "open" => link[d] = "open" \/ (d = e /\ link[e] = "none")
    BY <1>9 DEF EndStep, EndSteps, PeerConnects, EndSends, EndReads, EndCloses, EndResets
  <2> QED
    BY <1>b, <2>1, <2>2 DEF OpenWasOpen
<1>10. CASE UNCHANGED AllButFault
  BY <1>1, <1>10 DEF AllButFault, netVars, connVars, drvVars, svcVars, srvVars
<1> QED
  BY Steps, <1>1, <1>2, <1>3, <1>4, <1>5, <1>6, <1>7, <1>8, <1>9, <1>10
     DEF DriverMoves, ConnectionMoves, RegisterMoves, ServiceMoves, AppMoves, Accept,
         FindReady, CallHandler, ReadData, RecvData, CloseUnregistersRead, EnqueueDrop,
         WriteData, Unlock, InsertConnection, Dies, RegistReadEvent, RegistEvent,
         RegistWriteEvent, AcceptConnection, ProcessRecv, SendMsg, EnqueueMsg, DropConnection,
         DeleteConnection, DropNextConnection, AllDropped, DriverStop, JoinDriver, Stop,
         StopReturns, ServerHandles, netVars, connVars, drvVars, svcVars, srvVars

UnreadStays(e) ==
  /\ got'[e] = got[e]
  /\ \E k \in 0..Len(unread[e]) : unread'[e] = SubSeq(unread[e], 1, k)
  /\ link'[e] = "open" => unread'[e] = unread[e]
RepliesStay == \A e \in Ends : UnreadStays(e)
Reads == \E e \in Ends : EndStep(e) /\ EndReads(e)

LEMMA AllUnread ==
  ASSUME unread \in [Ends -> Seq(Message)], NEW e \in Ends, got'[e] = got[e], unread'[e] = unread[e]
  PROVE  UnreadStays(e)
<1>1. unread[e] = SubSeq(unread[e], 1, Len(unread[e])) /\ Len(unread[e]) \in 0..Len(unread[e])
  OBVIOUS
<1> QED
  BY <1>1 DEF UnreadStays

LEMMA ReplySteps ==
  ASSUME ControlInv, [Next]_vars
  PROVE  RepliesStay \/ Replies \/ Reads
<1>a. link \in [Ends -> LinkStates] /\ unread \in [Ends -> Seq(Message)] /\ got \in [Ends -> Seq(Message)]
  BY DEF ControlInv, TypeOK, SocketTypeOK
<1> USE <1>a, NetServiceAssumption
    DEF svcVars, connVars, srvVars, drvVars, Threads
<1>1. CASE UNCHANGED <<unread, got>>
  BY <1>1, AllUnread DEF RepliesStay
<1>2. ASSUME NEW t \in {Drv, Svc}, CloseSocket(t) PROVE RepliesStay \/ Replies \/ Reads
  <2>0. PICK i, f, e : SocketClosed(t, i, f, e) /\ i = at[t].id /\ f = Conn(t).fd /\ e = endOf[i]
    BY <1>2, CloseSocketDoes
  <2>1. /\ link' = [link EXCEPT ![e] = "over"] /\ UNCHANGED got /\ e \in Ends
        /\ \E k \in 0..Len(unread[e]) : unread' = [unread EXCEPT ![e] = SubSeq(unread[e], 1, k)]
    BY <2>0 DEF SocketClosed
  <2>2. \A d \in Ends : d # e => UnreadStays(d)
    BY <2>1, AllUnread
  <2>3. UnreadStays(e)
    BY <2>1 DEF UnreadStays
  <2> QED
    BY <2>2, <2>3 DEF RepliesStay
<1>3. ASSUME NEW t \in {Drv, Svc}, SendData(t) PROVE RepliesStay \/ Replies \/ Reads
  BY <1>3 DEF Replies
<1>4. CASE FreeSocket
  <2>0. PICK i : Freed(i) /\ i = at[Svc].id
    BY <1>4, FreeSocketDoes
  <2> QED
    BY <2>0, AllUnread DEF Freed, RepliesStay
<1>5. ASSUME NEW e \in Ends, EndStep(e) PROVE RepliesStay \/ Replies \/ Reads
  <2>1. CASE EndReads(e)
    BY <1>5, <2>1 DEF Reads
  <2>2. CASE EndResets(e)
    <3>1. UNCHANGED got /\ unread' = [unread EXCEPT ![e] = <<>>] /\ link' = [link EXCEPT ![e] = "rst"]
      BY <2>2 DEF EndResets
    <3>2. \A d \in Ends : d # e => UnreadStays(d)
      BY <3>1, AllUnread
    <3>3. UnreadStays(e)
      <4>1. SubSeq(unread[e], 1, 0) = <<>> /\ 0 \in 0..Len(unread[e])
        OBVIOUS
      <4>2. unread'[e] = SubSeq(unread[e], 1, 0)
        BY <3>1, <4>1
      <4> QED
        BY <3>1, <4>1, <4>2 DEF UnreadStays
    <3> QED
      BY <3>2, <3>3 DEF RepliesStay
  <2>3. UNCHANGED <<unread, got>> => RepliesStay
    BY AllUnread DEF RepliesStay
  <2> QED
    BY <1>5, <2>1, <2>2, <2>3 DEF EndStep, EndSteps, PeerConnects, EndSends, EndCloses
<1>6. CASE UNCHANGED AllButFault
  BY <1>1, <1>6 DEF AllButFault, netVars, connVars, drvVars, svcVars, srvVars
<1> QED
  BY Steps, <1>1, <1>2, <1>3, <1>4, <1>5, <1>6
     DEF DriverMoves, ConnectionMoves, RegisterMoves, ServiceMoves, AppMoves, Accept,
         FindReady, CallHandler, ReadData, PreRecv, RecvData, RecvGetsNothing,
         CloseUnregistersRead, EnqueueDrop, WriteData, Unlock, InsertConnection, Dies,
         RegistReadEvent, RegistEvent, RegistWriteEvent, AcceptConnection, ProcessRecv,
         SendMsg, EnqueueMsg, DropConnection, DeleteConnection, StopListener,
         DropNextConnection, AllDropped, DriverStop, JoinDriver, StartConnectRemote, Stop,
         StopReturns, ServerHandles, netVars, connVars, drvVars, svcVars, srvVars


\* What the service has to send to connection i stays in its queue, in its order;
\* in the end it may be forgotten.
SendsStay(i) ==
  \/ UNCHANGED mQueue
  \/ \E ctx : ~(ctx.type = "send" /\ ctx.id = i) /\ mQueue' = Append(mQueue, ctx)
  \/ mQueue # <<>> /\ mQueue' = Tail(mQueue) /\ (Ctx.type = "send" => Ctx.id # i)
  \/ mQueue' = <<>> /\ ~mRunning'
QueueStays == \A i \in DOMAIN conns : SendsStay(i)

LEMMA QueueSteps ==
  ASSUME ControlInv, [Next]_vars
  PROVE  QueueStays \/ EnqueueMsg \/ ServerHandles
<1>a. TypeOK
  BY DEF ControlInv
<1> USE <1>a, NetServiceAssumption
    DEF svcVars, connVars, srvVars, drvVars, Threads
<1>1. CASE UNCHANGED mQueue
  BY <1>1
     DEF QueueStays, SendsStay
<1>2. CASE Accept
  <2>1. Enqueue(Accepted(FreeFd))
    BY <1>2 DEF Accept
  <2>2. Accepted(FreeFd).type # "send"
    BY DEF Accepted
  <2>3. UNCHANGED mQueue \/ mQueue' = Append(mQueue, Accepted(FreeFd))
    BY <2>1 DEF Enqueue
  <2> QED
    BY <2>2, <2>3 DEF QueueStays, SendsStay
<1>3. CASE Alive(Drv) /\ RecvData
  <2>1. UNCHANGED mQueue \/ \E buf : Enqueue(Recv(at[Drv].id, buf))
    BY <1>3 DEF RecvData
  <2>2. ASSUME NEW buf PROVE Recv(at[Drv].id, buf).type # "send"
    BY DEF Recv
  <2>3. UNCHANGED mQueue \/ \E buf : mQueue' = Append(mQueue, Recv(at[Drv].id, buf))
    BY <2>1 DEF Enqueue
  <2> QED
    BY <2>2, <2>3 DEF QueueStays, SendsStay
<1>4. ASSUME NEW t \in {Drv, Svc}, EnqueueDrop(t) PROVE QueueStays \/ EnqueueMsg \/ ServerHandles
  <2>1. Enqueue(Drop(at[t].id))
    BY <1>4 DEF EnqueueDrop, TellsOfDrop
  <2>2. Drop(at[t].id).type # "send"
    BY DEF Drop
  <2>3. UNCHANGED mQueue \/ mQueue' = Append(mQueue, Drop(at[t].id))
    BY <2>1 DEF Enqueue
  <2> QED
    BY <2>2, <2>3 DEF QueueStays, SendsStay
<1>5. CASE AcceptConnection
  <2>1. mQueue # <<>> /\ mQueue' = Tail(mQueue) /\ Ctx.type # "send"
    BY <1>5 DEF AcceptConnection, Taking
  <2> QED
    BY <2>1 DEF QueueStays, SendsStay
<1>6. CASE ProcessRecv
  <2>1. mQueue # <<>> /\ mQueue' = Tail(mQueue) /\ Ctx.type # "send"
    BY <1>6 DEF ProcessRecv, Taking
  <2> QED
    BY <2>1 DEF QueueStays, SendsStay
<1>7. CASE SendMsg
  <2>1. UNCHANGED mQueue \/ (mQueue # <<>> /\ mQueue' = Tail(mQueue) /\ Ctx.id \notin DOMAIN conns)
    BY <1>7 DEF SendMsg, Taking
  <2> QED
    BY <2>1 DEF QueueStays, SendsStay
<1>8. CASE EnqueueMsg
  BY <1>8
<1>9. CASE DropConnection
  <2>1. mQueue # <<>> /\ mQueue' = Tail(mQueue) /\ Ctx.type # "send"
    BY <1>9 DEF DropConnection, Taking
  <2> QED
    BY <2>1 DEF QueueStays, SendsStay
<1>10. CASE StopListener
  <2>1. mQueue' = <<>> /\ ~mRunning'
    BY <1>10 DEF StopListener
  <2> QED
    BY <2>1 DEF QueueStays, SendsStay
<1>11. CASE ServerHandles
  BY <1>11
<1>12. CASE UNCHANGED AllButFault
  BY <1>1, <1>12 DEF AllButFault, netVars, connVars, drvVars, svcVars, srvVars
<1> QED
  BY Steps, <1>1, <1>2, <1>3, <1>4, <1>5, <1>6, <1>7, <1>8, <1>9, <1>10, <1>11, <1>12
     DEF DriverMoves, ConnectionMoves, RegisterMoves, ServiceMoves, AppMoves, FindReady,
         CallHandler, ReadData, PreRecv, RecvGetsNothing, CloseUnregistersRead, CloseSocket,
         WriteData, SendData, Unlock, InsertConnection, Dies, RegistReadEvent, RegistEvent,
         RegistWriteEvent, FreeSocket, DeleteConnection, DropNextConnection, AllDropped,
         DriverStop, JoinDriver, StartConnectRemote, Stop, StopReturns, EndStep, netVars,
         connVars, drvVars, svcVars, srvVars

LEMMA HandledSteps ==
  ASSUME ControlInv, [Next]_vars
  PROVE  (UNCHANGED srvDone /\ (UNCHANGED srvLog \/ srvLog' = Append(srvLog, Ctx))) \/ ServerHandles
<1>a. TypeOK
  BY DEF ControlInv
<1> USE <1>a, NetServiceAssumption
    DEF svcVars, connVars, srvVars, drvVars, Threads
<1>1. CASE UNCHANGED <<srvDone, srvLog>>
  BY <1>1
<1>2. CASE ProcessRecv
  BY <1>2
     DEF ProcessRecv, Taking
<1>3. CASE DropConnection
  BY <1>3
     DEF DropConnection, Taking
<1>4. CASE ServerHandles
  BY <1>4
<1>5. CASE UNCHANGED AllButFault
  BY <1>1, <1>5 DEF AllButFault, netVars, connVars, drvVars, svcVars, srvVars
<1> QED
  BY Steps, <1>1, <1>2, <1>3, <1>4, <1>5
     DEF DriverMoves, ConnectionMoves, RegisterMoves, ServiceMoves, AppMoves, Accept,
         FindReady, CallHandler, ReadData, PreRecv, RecvData, RecvGetsNothing,
         CloseUnregistersRead, CloseSocket, EnqueueDrop, WriteData, SendData, Unlock,
         InsertConnection, Dies, RegistReadEvent, RegistEvent, RegistWriteEvent,
         AcceptConnection, SendMsg, EnqueueMsg, FreeSocket, DeleteConnection, StopListener,
         DropNextConnection, AllDropped, DriverStop, JoinDriver, StartConnectRemote, Stop,
         StopReturns, EndStep, netVars, connVars, drvVars, svcVars, srvVars


\* AnswersFollow, with the answers to connection i's end e numbered up to a in
\* its mSendQueue or behind it.
HandledOf(i, e, n) ==
  \E k \in 1..srvDone : srvLog[k].type = "recv" /\ srvLog[k].id = i /\ srvLog[k].msg = Whole(e, n)
SendsTo(ctx, i) == ctx.type = "send" /\ ctx.id = i
IsNextSend(q, k, i, e, n, a) ==
  /\ q[k].msg = Whole(e, n) /\ n > a
  /\ n > a + 1 => \E l \in 1..k - 1 : q[l] = Send(i, Whole(e, n - 1))
  /\ \A l \in 1..k - 1 : SendsTo(q[l], i) => q[l].msg[1].n < n
SendsFollow(i, e, a) ==
  \A k \in DOMAIN mQueue : SendsTo(mQueue[k], i) =>
    \E n \in Nat : HandledOf(i, e, n) /\ IsNextSend(mQueue, k, i, e, n, a)
AllSent(i, e, a) ==
  mRunning => \A n \in Nat : HandledOf(i, e, n) =>
                n <= a \/ \E k \in DOMAIN mQueue : mQueue[k] = Send(i, Whole(e, n))
Pending(i, e, a) == (a > 0 => HandledOf(i, e, a)) /\ SendsFollow(i, e, a) /\ AllSent(i, e, a)
InSendQueue(q, e, a) == \A k \in 1..Len(q) : q[k] = Whole(e, a + k)

Follows(i, e) == InSendQueue(conns[i].sendq, e, Answered(e)) /\ Pending(i, e, Answered(e) + Len(conns[i].sendq))

LEMMA FollowIs ==
  AnswersFollow <=> \A i \in DOMAIN conns : conns[i].fd # NoFd /\ link[endOf[i]] = "open" => Follows(i, endOf[i])
<1>1. ASSUME NEW i, NEW k, NEW n
      PROVE  IsNextSend(mQueue, k, i, endOf[i], n, Answers(i)) <=>
               /\ mQueue[k].msg = Whole(endOf[i], n) /\ n > Answers(i)
               /\ n > Answers(i) + 1 => \E l \in 1..k - 1 : mQueue[l] = Send(i, Whole(endOf[i], n - 1))
               /\ \A l \in 1..k - 1 : mQueue[l].type = "send" /\ mQueue[l].id = i => mQueue[l].msg[1].n < n
  BY DEF IsNextSend, SendsTo
<1>2. ASSUME NEW i
      PROVE  SendsFollow(i, endOf[i], Answers(i)) <=>
               \A k \in DOMAIN mQueue : mQueue[k].type = "send" /\ mQueue[k].id = i =>
                 \E n \in Nat :
                   /\ mQueue[k].msg = Whole(endOf[i], n) /\ Handled(i, n) /\ n > Answers(i)
                   /\ n > Answers(i) + 1 => \E l \in 1..k - 1 : mQueue[l] = Send(i, Whole(endOf[i], n - 1))
                   /\ \A l \in 1..k - 1 : mQueue[l].type = "send" /\ mQueue[l].id = i => mQueue[l].msg[1].n < n
  BY <1>1 DEF SendsFollow, SendsTo, HandledOf, Handled
<1>3. ASSUME NEW i
      PROVE  Pending(i, endOf[i], Answers(i)) <=>
               /\ Answers(i) > 0 => Handled(i, Answers(i))
               /\ SendsFollow(i, endOf[i], Answers(i))
               /\ mRunning => \A n \in Nat : Handled(i, n) =>
                    n <= Answers(i) \/ \E k \in DOMAIN mQueue : mQueue[k] = Send(i, Whole(endOf[i], n))
  BY DEF Pending, AllSent, Handled, HandledOf
<1>4. ASSUME NEW i PROVE Answered(endOf[i]) + Len(conns[i].sendq) = Answers(i)
  BY DEF Answers
<1> QED
  BY <1>2, <1>3, <1>4 DEF AnswersFollow, Follows, InSendQueue

LEMMA SendIs ==
  ASSUME NEW i, NEW msg
  PROVE  Send(i, msg).type = "send" /\ Send(i, msg).id = i /\ Send(i, msg).msg = msg /\ SendsTo(Send(i, msg), i)
BY DEF Send, SendsTo

LEMMA NumberOfWhole ==
  ASSUME NEW e, NEW n
  PROVE  Whole(e, n)[1].n = n
BY DEF Whole

LEMMA SendsAreKept ==
  ASSUME ControlInv, [Next]_vars, NEW i, NEW e, NEW a \in Nat, Pending(i, e, a), SendsStay(i),
         \A n \in Nat : HandledOf(i, e, n)' <=> HandledOf(i, e, n)
  PROVE  Pending(i, e, a)'
<1>a. mQueue \in Seq(Context)
  BY DEF ControlInv, TypeOK
<1>b. mRunning' => mRunning
  BY StaysStopped
<1>1. (a > 0 => HandledOf(i, e, a))'
  BY DEF Pending
<1>2. CASE UNCHANGED mQueue
  <2>1. SendsFollow(i, e, a)'
    BY <1>2 DEF SendsFollow, Pending
  <2>2. AllSent(i, e, a)'
    BY <1>2, <1>b DEF AllSent, Pending
  <2> QED
    BY <1>1, <2>1, <2>2 DEF Pending
<1>3. ASSUME NEW ctx, ~(ctx.type = "send" /\ ctx.id = i), mQueue' = Append(mQueue, ctx) PROVE Pending(i, e, a)'
  <2>1. /\ \A k \in DOMAIN mQueue' : mQueue'[k] = ctx \/ (k \in DOMAIN mQueue /\ \A l \in 1..k : mQueue'[l] = mQueue[l])
        /\ \A k \in DOMAIN mQueue : k \in DOMAIN mQueue' /\ mQueue'[k] = mQueue[k]
        /\ \A k \in DOMAIN mQueue : k \in 1..k
    BY <1>a, <1>3
  <2>2. SendsFollow(i, e, a)'
    <3> SUFFICES ASSUME NEW k \in DOMAIN mQueue', SendsTo(mQueue'[k], i)
                 PROVE  \E n \in Nat : HandledOf(i, e, n)' /\ IsNextSend(mQueue', k, i, e, n, a)
      BY DEF SendsFollow, IsNextSend
    <3>1. k \in DOMAIN mQueue /\ \A l \in 1..k : mQueue'[l] = mQueue[l]
      BY <1>3, <2>1 DEF SendsTo
    <3>2. mQueue'[k] = mQueue[k] /\ \A l \in 1..k - 1 : mQueue'[l] = mQueue[l]
      BY <2>1, <3>1, <1>a
    <3>3. PICK n \in Nat : HandledOf(i, e, n) /\ IsNextSend(mQueue, k, i, e, n, a)
      BY <3>1, <3>2 DEF Pending, SendsFollow
    <3> QED
      BY <3>2, <3>3 DEF IsNextSend
  <2>3. AllSent(i, e, a)'
    BY <1>b, <2>1 DEF AllSent, Pending
  <2> QED
    BY <1>1, <2>2, <2>3 DEF Pending
<1>4. CASE mQueue # <<>> /\ mQueue' = Tail(mQueue) /\ (Ctx.type = "send" => Ctx.id # i)
  <2>1. /\ \A k \in DOMAIN mQueue' : k + 1 \in DOMAIN mQueue /\ mQueue'[k] = mQueue[k + 1]
        /\ \A k \in DOMAIN mQueue : k = 1 \/ (k - 1 \in DOMAIN mQueue' /\ mQueue'[k - 1] = mQueue[k])
        /\ ~SendsTo(mQueue[1], i)
    BY <1>a, <1>4 DEF Ctx, SendsTo
  <2>2. DOMAIN mQueue' \subseteq Nat
    BY <1>a, <1>4
  <2>3. SendsFollow(i, e, a)'
    <3> SUFFICES ASSUME NEW k \in DOMAIN mQueue', SendsTo(mQueue'[k], i)
                 PROVE  \E n \in Nat : HandledOf(i, e, n)' /\ IsNextSend(mQueue', k, i, e, n, a)
      BY DEF SendsFollow, IsNextSend
    <3>1. k + 1 \in DOMAIN mQueue /\ mQueue'[k] = mQueue[k + 1] /\ k \in Nat /\ (k + 1) - 1 = k
      BY <2>1, <2>2
    <3>2. PICK n \in Nat : HandledOf(i, e, n) /\ IsNextSend(mQueue, k + 1, i, e, n, a)
      BY <3>1 DEF Pending, SendsFollow
    <3>3. /\ mQueue[k + 1].msg = Whole(e, n) /\ n > a
          /\ n > a + 1 => \E l \in 1..k : mQueue[l] = Send(i, Whole(e, n - 1))
          /\ \A l \in 1..k : SendsTo(mQueue[l], i) => mQueue[l].msg[1].n < n
      BY <3>1, <3>2 DEF IsNextSend
    <3>4. ASSUME NEW l \in 1..k, l # 1 PROVE l - 1 \in 1..k - 1 /\ mQueue'[l - 1] = mQueue[l]
      <4>1. l \in DOMAIN mQueue
        BY <1>a, <3>1
      <4> QED
        BY <2>1, <3>1, <3>4, <4>1
    <3>5. n > a + 1 => \E l \in 1..k - 1 : mQueue'[l] = Send(i, Whole(e, n - 1))
      <4> HAVE n > a + 1
      <4>1. PICK l \in 1..k : mQueue[l] = Send(i, Whole(e, n - 1))
        BY <3>3
      <4>2. l # 1
        BY <2>1, <4>1, SendIs
      <4> QED
        BY <3>4, <4>1, <4>2
    <3>6. ASSUME NEW l \in 1..k - 1, SendsTo(mQueue'[l], i) PROVE mQueue'[l].msg[1].n < n
      <4>1. l + 1 \in 1..k /\ l + 1 # 1 /\ (l + 1) - 1 = l
        BY <3>1
      <4>2. mQueue'[l] = mQueue[l + 1]
        BY <3>4, <4>1
      <4> QED
        BY <3>3, <3>6, <4>1, <4>2
    <3> QED
      BY <3>1, <3>2, <3>3, <3>5, <3>6 DEF IsNextSend
  <2>4. AllSent(i, e, a)'
    <3> SUFFICES ASSUME mRunning', NEW n \in Nat, HandledOf(i, e, n)', ~(n <= a)
                 PROVE  \E k \in DOMAIN mQueue' : mQueue'[k] = Send(i, Whole(e, n))
      BY DEF AllSent
    <3>1. PICK k \in DOMAIN mQueue : mQueue[k] = Send(i, Whole(e, n))
      BY <1>b DEF Pending, AllSent
    <3>2. k # 1
      BY <2>1, <3>1, SendIs
    <3> QED
      BY <2>1, <3>1, <3>2
  <2> QED
    BY <1>1, <2>3, <2>4 DEF Pending
<1>5. CASE mQueue' = <<>> /\ ~mRunning'
  <2>1. SendsFollow(i, e, a)' /\ AllSent(i, e, a)'
    BY <1>5 DEF SendsFollow, AllSent
  <2> QED
    BY <1>1, <2>1 DEF Pending
<1> QED
  BY <1>2, <1>3, <1>4, <1>5 DEF SendsStay

LEMMA HandledIsKept ==
  ASSUME ControlInv, [Next]_vars, ~ServerHandles, NEW i, NEW e, NEW n
  PROVE  HandledOf(i, e, n)' <=> HandledOf(i, e, n)
<1>1. srvDone' = srvDone /\ \A k \in 1..srvDone : srvLog'[k] = srvLog[k]
  <2>1. srvLog \in Seq(Context) /\ srvDone \in 0..Len(srvLog)
    BY DEF ControlInv, TypeOK
  <2>2. \A ctx : \A k \in 1..Len(srvLog) : Append(srvLog, ctx)[k] = srvLog[k]
    BY <2>1
  <2>3. 1..srvDone \subseteq 1..Len(srvLog)
    BY <2>1
  <2> QED
    BY <2>2, <2>3, HandledSteps
<1> QED
  BY <1>1 DEF HandledOf

\* The server has handled one more message of connection i, and answers it.
LEMMA ServerAdds ==
  ASSUME ControlInv, GivenInOrder, NoneBroken, ServerHandles, [Next]_vars, NEW i \in DOMAIN endOf, NEW e, e = endOf[i],
         NEW a \in Nat, Pending(i, e, a)
  PROVE  Pending(i, e, a)'
<1> DEFINE p == srvDone + 1
           ctx == srvLog[p]
           m == Len(mQueue) + 1
<1>a. /\ mQueue \in Seq(Context) /\ srvLog \in Seq(Context) /\ srvDone \in Nat /\ p \in 1..Len(srvLog)
      /\ \A k \in 1..Len(srvLog) : k \in DOMAIN Given /\ Given[k] = srvLog[k]
      /\ 1..srvDone \subseteq 1..Len(srvLog)
  BY GivenIsSeq DEF ControlInv, TypeOK, ServerHandles
<1>b. /\ IF ctx.type = "recv" THEN Enqueue(Send(ctx.id, ctx.msg)) ELSE UNCHANGED mQueue
      /\ srvDone' = p /\ UNCHANGED <<srvLog, mRunning>>
  BY DEF ServerHandles
<1>c. p - 1 = srvDone /\ m \in Nat /\ m - 1 = Len(mQueue) /\ Len(mQueue) \in Nat
  BY <1>a
<1> HIDE DEF p, ctx, m
<1>d. ctx = Given[p] /\ p \in DOMAIN Given /\ ctx \in Context /\ p \in Nat
  BY <1>a DEF ctx
<1>1. ASSUME NEW n
      PROVE  HandledOf(i, e, n)' <=>
               HandledOf(i, e, n) \/ (ctx.type = "recv" /\ ctx.id = i /\ ctx.msg = Whole(e, n))
  <2>1. \A k : k \in 1..p <=> k \in 1..srvDone \/ k = p
    BY <1>a, <1>c, <1>d
  <2> QED
    BY <1>b, <2>1 DEF HandledOf, ctx
<1>2. CASE ~(ctx.type = "recv" /\ ctx.id = i)
  <2>1. \A n \in Nat : HandledOf(i, e, n)' <=> HandledOf(i, e, n)
    BY <1>1, <1>2
  <2>2. SendsStay(i)
    BY <1>b, <1>2, SendIs DEF SendsStay, Enqueue
  <2> QED
    BY <2>1, <2>2, SendsAreKept
<1>3. CASE ctx.type = "recv" /\ ctx.id = i
  <2>0. PICK x : x = ctx.msg[1].n
    OBVIOUS
  <2>a. ~IsBroken(ctx) /\ \A k \in 1..srvDone : ~IsBroken(Given[k])
    BY <1>a DEF NoneBroken, ServerHandles, ctx, p
  <2>b. \A k \in 1..p : k \in 1..srvDone \/ k = p
    BY <1>a, <1>c, <1>d
  <2>c. IsInStep(Given, p)
    BY <1>3, <1>d, <2>a, <2>b DEF IsInStep, IsOutOfStep
  <2>1. IsNext(Given, p, e)
    BY <1>3, <1>d, <2>c, InOrderIs
  <2>2. /\ ctx.msg = Whole(e, x)
        /\ x > 1 => \E k \in 1..srvDone : Given[k] = Recv(i, Whole(e, x - 1))
        /\ \A k \in 1..srvDone : Given[k].type = "recv" /\ Given[k].id = i => Given[k].msg[1].n < x
    BY <1>3, <1>c, <1>d, <2>0, <2>1 DEF IsNext
  <2>3. x \in Nat /\ x > 0
    <3>1. IsDelivered(ctx.msg)
      BY <1>3, <1>d DEF ControlInv, Contexts
    <3>2. ctx.msg[1] \in Unit
      BY <3>1 DEF IsDelivered, Message
    <3> QED
      BY <2>0, <3>2 DEF Unit
  <2>4. \A k \in 1..srvDone : k \in DOMAIN Given /\ Given[k] = srvLog[k]
    BY <1>a
  <2>5. ASSUME NEW n, HandledOf(i, e, n) PROVE n < x
    BY <2>2, <2>4, <2>5, NumberOfWhole DEF HandledOf
  <2>6. x > 1 => HandledOf(i, e, x - 1)
    BY <2>2, <2>4 DEF HandledOf, Recv
  <2>7. ASSUME NEW n PROVE HandledOf(i, e, n)' <=> HandledOf(i, e, n) \/ n = x
    BY <1>1, <1>3, <2>2, NumberOfWhole
  <2>8. (a > 0 => HandledOf(i, e, a)')
    BY <2>7 DEF Pending
  <2>9. CASE UNCHANGED mQueue /\ ~mRunning
    <3>1. SendsFollow(i, e, a)'
      BY <2>7, <2>9 DEF SendsFollow, Pending
    <3>2. AllSent(i, e, a)'
      BY <1>b, <2>9 DEF AllSent
    <3> QED
      BY <2>8, <3>1, <3>2 DEF Pending
  <2>10. CASE mQueue' = Append(mQueue, Send(i, Whole(e, x))) /\ mRunning
    <3>1. /\ DOMAIN mQueue' = 1..m /\ DOMAIN mQueue = 1..m - 1 /\ mQueue'[m] = Send(i, Whole(e, x))
          /\ \A k \in 1..m - 1 : mQueue'[k] = mQueue[k]
      BY <1>a, <2>10 DEF m
    <3>2. x > a
      BY <2>3, <2>5 DEF Pending
    <3>3. x > a + 1 => \E l \in 1..m - 1 : mQueue[l] = Send(i, Whole(e, x - 1))
      <4>1. x > a + 1 => x > 1 /\ x - 1 \in Nat /\ ~(x - 1 <= a)
        BY <2>3
      <4> QED
        BY <2>6, <2>10, <3>1, <4>1 DEF Pending, AllSent
    <3>4. ASSUME NEW l \in 1..m - 1, SendsTo(mQueue[l], i) PROVE mQueue[l].msg[1].n < x
      <4>1. PICK n \in Nat : HandledOf(i, e, n) /\ IsNextSend(mQueue, l, i, e, n, a)
        BY <3>1, <3>4 DEF Pending, SendsFollow
      <4>2. mQueue[l].msg[1].n = n
        BY <4>1, NumberOfWhole DEF IsNextSend
      <4> QED
        BY <2>5, <4>1, <4>2
    <3>5. SendsFollow(i, e, a)'
      <4> SUFFICES ASSUME NEW k \in 1..m, SendsTo(mQueue'[k], i)
                   PROVE  \E n \in Nat : HandledOf(i, e, n)' /\ IsNextSend(mQueue', k, i, e, n, a)
        BY <3>1 DEF SendsFollow, IsNextSend
      <4>1. CASE k = m
        <5>1. HandledOf(i, e, x)'
          BY <2>7
        <5>2. mQueue'[k].msg = Whole(e, x) /\ \A l \in 1..k - 1 : mQueue'[l] = mQueue[l]
          BY <3>1, <4>1, SendIs
        <5>3. IsNextSend(mQueue', k, i, e, x, a)
          BY <3>2, <3>3, <3>4, <4>1, <5>2 DEF IsNextSend
        <5> QED
          BY <2>3, <5>1, <5>3
      <4>2. CASE k # m
        <5>1. k \in 1..m - 1 /\ \A l \in 1..k - 1 : l \in 1..m - 1
          BY <1>c, <4>2
        <5>2. mQueue'[k] = mQueue[k] /\ \A l \in 1..k - 1 : mQueue'[l] = mQueue[l]
          BY <3>1, <5>1
        <5>3. PICK n \in Nat : HandledOf(i, e, n) /\ IsNextSend(mQueue, k, i, e, n, a)
          BY <3>1, <5>1, <5>2 DEF Pending, SendsFollow
        <5> QED
          BY <2>7, <5>2, <5>3 DEF IsNextSend
      <4> QED
        BY <4>1, <4>2
    <3>6. AllSent(i, e, a)'
      <4> SUFFICES ASSUME NEW n \in Nat, HandledOf(i, e, n)', ~(n <= a)
                   PROVE  \E k \in 1..m : mQueue'[k] = Send(i, Whole(e, n))
        BY <3>1 DEF AllSent
      <4>1. CASE n = x
        <5>1. m \in 1..m
          BY <1>c
        <5> QED
          BY <3>1, <4>1, <5>1
      <4>2. CASE HandledOf(i, e, n)
        <5>1. PICK k \in 1..m - 1 : mQueue[k] = Send(i, Whole(e, n))
          BY <2>10, <3>1, <4>2 DEF Pending, AllSent
        <5>2. k \in 1..m
          BY <1>c, <5>1
        <5> QED
          BY <3>1, <5>1, <5>2
      <4> QED
        BY <2>7, <4>1, <4>2
    <3> QED
      BY <2>8, <3>5, <3>6 DEF Pending
  <2> QED
    BY <1>b, <1>3, <2>2, <2>9, <2>10 DEF Enqueue
<1> QED
  BY <1>2, <1>3

\* The service puts what it has to send into the connection's mSendQueue.
Queues(i) ==
  /\ i \in DOMAIN conns /\ mQueue # <<>> /\ SendsTo(mQueue[1], i) /\ mQueue' = Tail(mQueue)
  /\ conns'[i].sendq = Append(conns[i].sendq, mQueue[1].msg) /\ conns'[i].fd = conns[i].fd
  /\ DOMAIN conns' = DOMAIN conns /\ \A j \in DOMAIN conns : j # i => conns'[j] = conns[j]
  /\ UNCHANGED <<unread, got, link, endOf, srvLog, srvDone, mRunning>>

LEMMA EnqueueMsgDoes ==
  ASSUME ControlInv, EnqueueMsg
  PROVE  Queues(at[Svc].id)
<1>1. at[Svc].pc = "enq"
  BY DEF EnqueueMsg, At
<1>2. at[Svc].id \in DOMAIN conns /\ mQueue # <<>> /\ SendsTo(mQueue[1], at[Svc].id)
  BY <1>1 DEF ControlInv, LockOwner, EnqIsHead, At, Ctx, SendsTo
<1>3. /\ mQueue' = Tail(mQueue)
      /\ conns' = [conns EXCEPT ![at[Svc].id] =
                     [conns[at[Svc].id] EXCEPT !.sendq = Append(conns[at[Svc].id].sendq, Head(mQueue).msg)]]
  BY DEF EnqueueMsg, SetConn, Conn, Ctx
<1>3a. UNCHANGED <<unread, got, link, endOf, srvLog, srvDone, mRunning>> /\ Head(mQueue) = mQueue[1]
  BY <1>2 DEF EnqueueMsg, netVars, srvVars
<1>4. conns[at[Svc].id] \in Connection
  BY <1>2 DEF ControlInv, TypeOK
<1>5. /\ conns'[at[Svc].id].sendq = Append(conns[at[Svc].id].sendq, mQueue[1].msg)
      /\ conns'[at[Svc].id].fd = conns[at[Svc].id].fd
  BY <1>2, <1>3, <1>3a, <1>4 DEF Connection
<1> QED
  BY <1>2, <1>3, <1>3a, <1>5 DEF Queues

LEMMA QueuedFollows ==
  ASSUME ControlInv, [Next]_vars, ~ServerHandles, NEW i, Queues(i), NEW e, NEW a \in Nat, NEW b \in Nat, b = a + 1,
         Pending(i, e, a)
  PROVE  mQueue[1].msg = Whole(e, b) /\ Pending(i, e, b)'
<1>a. mQueue \in Seq(Context) /\ mQueue # <<>> /\ SendsTo(mQueue[1], i) /\ mQueue' = Tail(mQueue) /\ UNCHANGED mRunning
  BY DEF ControlInv, TypeOK, Queues
<1>b. /\ \A k \in DOMAIN mQueue' : k + 1 \in DOMAIN mQueue /\ mQueue'[k] = mQueue[k + 1]
      /\ \A k \in DOMAIN mQueue : k = 1 \/ (k - 1 \in DOMAIN mQueue' /\ mQueue'[k - 1] = mQueue[k])
      /\ 1 \in DOMAIN mQueue /\ DOMAIN mQueue \subseteq Nat /\ DOMAIN mQueue' \subseteq Nat \ {0}
  BY <1>a
<1>c. \A n \in Nat : HandledOf(i, e, n)' <=> HandledOf(i, e, n)
  BY HandledIsKept
<1>1. PICK m \in Nat : HandledOf(i, e, m) /\ IsNextSend(mQueue, 1, i, e, m, a)
  BY <1>a, <1>b DEF Pending, SendsFollow
<1>2. m = b
  <2>1. \A l : l \notin 1..1 - 1
    OBVIOUS
  <2> QED
    BY <1>1, <2>1 DEF IsNextSend
<1>3. mQueue[1].msg = Whole(e, b) /\ mQueue[1].msg[1].n = b /\ HandledOf(i, e, b)'
  BY <1>1, <1>2, <1>c, NumberOfWhole DEF IsNextSend
<1>4. SendsFollow(i, e, b)'
  <2> SUFFICES ASSUME NEW k \in DOMAIN mQueue', SendsTo(mQueue'[k], i)
               PROVE  \E n \in Nat : HandledOf(i, e, n)' /\ IsNextSend(mQueue', k, i, e, n, b)
    BY DEF SendsFollow, IsNextSend
  <2>1. k + 1 \in DOMAIN mQueue /\ mQueue'[k] = mQueue[k + 1] /\ k \in Nat /\ (k + 1) - 1 = k /\ 1 \in 1..k
    BY <1>b
  <2>2. PICK n \in Nat : HandledOf(i, e, n) /\ IsNextSend(mQueue, k + 1, i, e, n, a)
    BY <2>1 DEF Pending, SendsFollow
  <2>3. /\ mQueue[k + 1].msg = Whole(e, n) /\ n > a
        /\ n > a + 1 => \E l \in 1..k : mQueue[l] = Send(i, Whole(e, n - 1))
        /\ \A l \in 1..k : SendsTo(mQueue[l], i) => mQueue[l].msg[1].n < n
    BY <2>1, <2>2 DEF IsNextSend
  <2>4. ASSUME NEW l \in 1..k, l # 1 PROVE l - 1 \in 1..k - 1 /\ mQueue'[l - 1] = mQueue[l]
    <3>1. l \in DOMAIN mQueue
      BY <1>a, <2>1
    <3> QED
      BY <1>b, <2>1, <2>4, <3>1
  <2>5. n > b
    BY <1>3, <1>a, <2>1, <2>3
  <2>6. n > b + 1 => \E l \in 1..k - 1 : mQueue'[l] = Send(i, Whole(e, n - 1))
    <3> HAVE n > b + 1
    <3>1. PICK l \in 1..k : mQueue[l] = Send(i, Whole(e, n - 1))
      BY <2>3, <2>5
    <3>2. l # 1
      <4>1. mQueue[l].msg[1].n = n - 1
        BY <3>1, SendIs, NumberOfWhole
      <4> QED
        BY <1>3, <4>1
    <3> QED
      BY <2>4, <3>1, <3>2
  <2>7. ASSUME NEW l \in 1..k - 1, SendsTo(mQueue'[l], i) PROVE mQueue'[l].msg[1].n < n
    <3>1. l + 1 \in 1..k /\ l + 1 # 1 /\ (l + 1) - 1 = l
      BY <2>1
    <3>2. mQueue'[l] = mQueue[l + 1]
      BY <2>4, <3>1
    <3> QED
      BY <2>3, <2>7, <3>1, <3>2
  <2> QED
    BY <1>c, <2>1, <2>2, <2>3, <2>5, <2>6, <2>7 DEF IsNextSend
<1>5. AllSent(i, e, b)'
  <2> SUFFICES ASSUME mRunning', NEW n \in Nat, HandledOf(i, e, n)', ~(n <= b)
               PROVE  \E k \in DOMAIN mQueue' : mQueue'[k] = Send(i, Whole(e, n))
    BY DEF AllSent
  <2>1. PICK k \in DOMAIN mQueue : mQueue[k] = Send(i, Whole(e, n))
    BY <1>a, <1>c DEF Pending, AllSent
  <2>2. k # 1
    <3>1. mQueue[k].msg[1].n = n
      BY <2>1, SendIs, NumberOfWhole
    <3> QED
      BY <1>3, <3>1
  <2> QED
    BY <1>b, <2>1, <2>2
<1> QED
  BY <1>3, <1>4, <1>5 DEF Pending

\* The first of a connection's mSendQueue is sent, or the end has gone.
Sends(i, e) ==
  /\ i \in DOMAIN conns /\ i \in DOMAIN endOf /\ e = endOf[i] /\ e \in Ends
  /\ conns[i].fd # NoFd /\ conns[i].sendq # <<>> /\ conns[i].sendq \in Seq(Message)
  /\ DOMAIN conns' = DOMAIN conns /\ \A j \in DOMAIN conns : j # i => conns'[j] = conns[j]
  /\ UNCHANGED <<got, mQueue, endOf, srvLog, srvDone, mRunning>>
  /\ \/ /\ link[e] = "open" /\ UNCHANGED link
        /\ unread' = [unread EXCEPT ![e] = Append(unread[e], Head(conns[i].sendq))]
        /\ conns'[i].sendq = Tail(conns[i].sendq)
     \/ link' = [link EXCEPT ![e] = "dead"] /\ UNCHANGED unread

LEMMA SendDataDoes ==
  ASSUME ControlInv, NEW t \in {Drv, Svc}, SendData(t)
  PROVE  Sends(at[t].id, endOf[at[t].id])
<1>1. at[t].pc = "sending" /\ t \in Threads
  BY DEF SendData, At, Threads
<1>2. at[t].id \in DOMAIN conns /\ conns[at[t].id].fd # NoFd /\ conns[at[t].id].sendq # <<>>
  <2>1. at[t].id \in DOMAIN conns /\ LockedOK(t, "sending", Conn(t))
    BY <1>1 DEF ControlInv, LockOwner, ConnStates, Locking, LockPcs
  <2> QED
    BY <2>1 DEF LockedOK, IsOpen, Conn
<1>3. /\ at[t].id \in DOMAIN endOf /\ conns[at[t].id].end = endOf[at[t].id] /\ endOf[at[t].id] \in Ends
      /\ conns[at[t].id] \in Connection
  BY <1>2 DEF ControlInv, TypeOK, IdsOfConns, Connection
<1>4. conns[at[t].id].sendq \in Seq(Message)
  BY <1>3 DEF Connection
<1>5. /\ UNCHANGED <<got, mQueue, endOf, srvLog, srvDone, mRunning>>
      /\ \E c : conns' = [conns EXCEPT ![at[t].id] = c]
  BY DEF SendData, SetConn, svcVars, srvVars
<1>6. CASE Sent(End(t), Head(Conn(t).sendq)) /\ SetConn(t, Unlocked([Conn(t) EXCEPT !.sendq = Tail(@)]))
  <2>1. conns'[at[t].id].sendq = Tail(conns[at[t].id].sendq)
    BY <1>2, <1>3, <1>6 DEF SetConn, Conn, Unlocked, Connection
  <2>2. \/ /\ link[endOf[at[t].id]] = "open" /\ UNCHANGED link
           /\ unread' = [unread EXCEPT ![endOf[at[t].id]] = Append(unread[endOf[at[t].id]], Head(conns[at[t].id].sendq))]
        \/ link' = [link EXCEPT ![endOf[at[t].id]] = "dead"] /\ UNCHANGED unread
    BY <1>3, <1>6 DEF Sent, End, Conn
  <2> QED
    BY <1>2, <1>3, <1>4, <1>5, <2>1, <2>2 DEF Sends
<1>7. CASE ErrorReported(End(t)) /\ UNCHANGED unread
  <2>1. link' = [link EXCEPT ![endOf[at[t].id]] = "dead"] /\ UNCHANGED unread
    BY <1>3, <1>7 DEF ErrorReported, End, Conn
  <2> QED
    BY <1>2, <1>3, <1>4, <1>5, <2>1 DEF Sends
<1> QED
  BY <1>6, <1>7 DEF SendData

\* AnswersFollow after a step, with what it is about under names of their own.
LEMMA FollowsAfter ==
  ASSUME NEW i, NEW e, NEW q, NEW b, NEW a,
         conns'[i].sendq = q, b = Answered(e)', a = b + Len(q), InSendQueue(q, e, b), Pending(i, e, a)'
  PROVE  Follows(i, e)'
BY DEF Follows, InSendQueue, Pending, SendsFollow, AllSent, IsNextSend, HandledOf, Answered

LEMMA AllFollow ==
  AnswersFollow <=> \A i \in DOMAIN conns : \A e :
    conns[i].fd # NoFd /\ e = endOf[i] /\ link[e] = "open" => Follows(i, e)
BY FollowIs

LEMMA AllFollowThen ==
  ASSUME \A i \in DOMAIN conns' : \A e :
           conns'[i].fd # NoFd /\ e = endOf'[i] /\ link'[e] = "open" => Follows(i, e)'
  PROVE  AnswersFollow'
<1>1. (AnswersFollow <=> \A i \in DOMAIN conns : \A e :
         conns[i].fd # NoFd /\ e = endOf[i] /\ link[e] = "open" => Follows(i, e))'
  BY AllFollow, PTL
<1> QED
  BY <1>1

AnswersAreTyped == got \in [Ends -> Seq(Message)] /\ unread \in [Ends -> Seq(Message)]

LEMMA AnswersTyped ==
  ASSUME ControlInv
  PROVE  /\ AnswersAreTyped /\ \A e \in Ends : Answered(e) \in Nat
         /\ \A i \in DOMAIN conns : conns[i].sendq \in Seq(Message)
<1>1. AnswersAreTyped
  BY DEF ControlInv, TypeOK, SocketTypeOK, AnswersAreTyped
<1>2. \A i \in DOMAIN conns : conns[i].sendq \in Seq(Message)
  BY DEF ControlInv, TypeOK, Connection
<1> QED
  BY <1>1, <1>2 DEF AnswersAreTyped, Answered

\* A connection whose mSendQueue stays follows on.
LEMMA StaysFollowing ==
  ASSUME ControlInv, GivenInOrder, NoneBroken, AnswersFollow, [Next]_vars, NEW i \in DOMAIN conns, NEW e, e = endOf[i],
         conns[i].fd # NoFd, link[e] = "open",
         conns'[i].sendq = conns[i].sendq, Answered(e)' = Answered(e), SendsStay(i) \/ ServerHandles
  PROVE  Follows(i, e)'
<1>1. i \in DOMAIN endOf /\ e \in Ends
  BY DEF ControlInv, IdsOfConns, TypeOK, Range
<1>2. Follows(i, e)
  BY AllFollow
<1>3. PICK q \in Seq(Message), b \in Nat, a \in Nat : q = conns[i].sendq /\ b = Answered(e) /\ a = b + Len(q)
  BY <1>1, AnswersTyped
<1>4. InSendQueue(q, e, b) /\ Pending(i, e, a)
  BY <1>2, <1>3 DEF Follows
<1>5. Pending(i, e, a)'
  <2>1. CASE ServerHandles
    BY <1>1, <1>4, <2>1, ServerAdds
  <2>2. CASE ~ServerHandles
    <3>1. \A n \in Nat : HandledOf(i, e, n)' <=> HandledOf(i, e, n)
      BY <2>2, HandledIsKept
    <3> QED
      BY <1>4, <2>2, <3>1, SendsAreKept
  <2> QED
    BY <2>1, <2>2
<1> QED
  BY <1>3, <1>4, <1>5, FollowsAfter

LEMMA QueuesFollows ==
  ASSUME ControlInv, AnswersFollow, [Next]_vars, ~ServerHandles, NEW i, Queues(i), NEW e, e = endOf[i],
         conns[i].fd # NoFd, link[e] = "open"
  PROVE  Follows(i, e)'
<1>1. i \in DOMAIN conns /\ i \in DOMAIN endOf /\ e \in Ends /\ mQueue[1].msg \in Message
  <2>1. i \in DOMAIN conns /\ i \in DOMAIN endOf /\ e \in Ends
    BY DEF Queues, ControlInv, IdsOfConns, TypeOK, Range
  <2>2. Len(srvLog) + 1 \in DOMAIN Given /\ Given[Len(srvLog) + 1] = mQueue[1]
    BY GivenHead DEF ControlInv, Queues, Ctx
  <2>3. mQueue[1].type = "send"
    BY DEF Queues, SendsTo
  <2> QED
    BY <2>1, <2>2, <2>3 DEF ControlInv, Contexts
<1>2. Follows(i, e)
  BY <1>1, AllFollow
<1>3. PICK q \in Seq(Message), b \in Nat, a \in Nat : q = conns[i].sendq /\ b = Answered(e) /\ a = b + Len(q)
  BY <1>1, AnswersTyped
<1>4. InSendQueue(q, e, b) /\ Pending(i, e, a)
  BY <1>2, <1>3 DEF Follows
<1>5. mQueue[1].msg = Whole(e, a + 1) /\ Pending(i, e, a + 1)'
  BY <1>4, QueuedFollows
<1>6. conns'[i].sendq = Append(q, mQueue[1].msg) /\ Answered(e)' = b
  BY <1>3 DEF Queues, Answered
<1>7. PICK p \in Seq(Message) : p = Append(q, mQueue[1].msg)
  <2>1. \A m \in Message : Append(q, m) \in Seq(Message)
    OBVIOUS
  <2> QED
    BY <1>1, <2>1
<1>8. a + 1 = b + Len(p)
  BY <1>1, <1>3, <1>7
<1>9. InSendQueue(p, e, b)
  <2> SUFFICES ASSUME NEW k \in 1..Len(p) PROVE p[k] = Whole(e, b + k)
    BY DEF InSendQueue
  <2>1. (k \in 1..Len(q) /\ p[k] = q[k]) \/ (k = Len(q) + 1 /\ p[k] = mQueue[1].msg)
    BY <1>1, <1>7
  <2>2. b + (Len(q) + 1) = a + 1
    BY <1>3
  <2> QED
    BY <1>4, <1>5, <2>1, <2>2 DEF InSendQueue
<1> QED
  BY <1>5, <1>6, <1>7, <1>8, <1>9, FollowsAfter

LEMMA SendsFollows ==
  ASSUME ControlInv, AnswersFollow, [Next]_vars, ~ServerHandles, NEW i, NEW e, Sends(i, e), link'[e] = "open"
  PROVE  Follows(i, e)' /\ Head(conns[i].sendq) = Whole(e, Answered(e) + 1)
<1>1. /\ i \in DOMAIN conns /\ i \in DOMAIN endOf /\ e \in Ends /\ e = endOf[i] /\ conns[i].fd # NoFd
      /\ link[e] = "open" /\ unread' = [unread EXCEPT ![e] = Append(unread[e], Head(conns[i].sendq))]
      /\ UNCHANGED <<mQueue, got>> /\ conns'[i].sendq = Tail(conns[i].sendq)
  BY StreamsAreTyped DEF Sends, StreamTypes
<1>2. Follows(i, e)
  BY <1>1, AllFollow
<1>3. PICK q \in Seq(Message), b \in Nat, a \in Nat : q = conns[i].sendq /\ b = Answered(e) /\ a = b + Len(q)
  BY <1>1, AnswersTyped
<1>4. InSendQueue(q, e, b) /\ Pending(i, e, a) /\ q # <<>>
  BY <1>2, <1>3 DEF Follows, Sends
<1>5. Answered(e)' = b + 1
  <2>1. unread'[e] = Append(unread[e], Head(q)) /\ unread[e] \in Seq(Message) /\ got[e] \in Seq(Message)
    BY <1>1, <1>3, AnswersTyped DEF AnswersAreTyped
  <2>2. Head(q) \in Message
    BY <1>4
  <2>3. Len(Append(unread[e], Head(q))) = Len(unread[e]) + 1 /\ Len(unread[e]) \in Nat /\ Len(got[e]) \in Nat
    BY <2>1, <2>2
  <2>4. PICK g \in Nat, u \in Nat : g = Len(got[e]) /\ u = Len(unread[e])
    BY <2>3
  <2>5. Len(unread'[e]) = u + 1 /\ Len(got'[e]) = g
    BY <1>1, <2>1, <2>3, <2>4
  <2>6. Answered(e)' = g + (u + 1)
    BY <2>5 DEF Answered
  <2>7. b = g + u
    BY <1>3, <2>4 DEF Answered
  <2> QED
    BY <2>6, <2>7
<1>6. Pending(i, e, a)'
  <2>1. \A n \in Nat : HandledOf(i, e, n)' <=> HandledOf(i, e, n)
    BY HandledIsKept
  <2> QED
    BY <1>1, <1>4, <2>1, SendsAreKept DEF SendsStay
<1>7. PICK p \in Seq(Message) : p = Tail(q)
  <2>1. Tail(q) \in Seq(Message)
    BY <1>4
  <2> QED
    BY <2>1
<1>8. a = (b + 1) + Len(p) /\ b + 1 \in Nat
  BY <1>3, <1>4, <1>7
<1>9. InSendQueue(p, e, b + 1)
  <2> SUFFICES ASSUME NEW k \in 1..Len(p) PROVE p[k] = Whole(e, (b + 1) + k)
    BY DEF InSendQueue
  <2>1. k + 1 \in 1..Len(q) /\ p[k] = q[k + 1]
    BY <1>4, <1>7
  <2>2. b + (k + 1) = (b + 1) + k
    OBVIOUS
  <2> QED
    BY <1>4, <2>1, <2>2 DEF InSendQueue
<1>10. Head(q) = Whole(e, b + 1)
  <2>1. 1 \in 1..Len(q) /\ Head(q) = q[1]
    BY <1>4
  <2> QED
    BY <1>4, <2>1 DEF InSendQueue
<1>11. Follows(i, e)'
  BY <1>1, <1>3, <1>5, <1>6, <1>7, <1>8, <1>9, FollowsAfter
<1> QED
  BY <1>3, <1>10, <1>11

LEMMA ReadsAnswered ==
  ASSUME AnswersAreTyped, NEW d \in Ends, EndReads(d), NEW e \in Ends
  PROVE  Answered(e)' = Answered(e)
<1>1. CASE e # d
  BY <1>1 DEF AnswersAreTyped, EndReads, Answered
<1>2. CASE e = d
  <2>1. PICK g \in Seq(Message), u \in Seq(Message) : g = got[e] /\ u = unread[e] /\ u # <<>>
    BY <1>2 DEF AnswersAreTyped, EndReads
  <2>2. got'[e] = Append(g, Head(u)) /\ unread'[e] = Tail(u)
    BY <1>2, <2>1 DEF AnswersAreTyped, EndReads
  <2>3. Head(u) \in Message
    BY <2>1
  <2>4. PICK m \in Nat, n \in Nat : m = Len(g) /\ n = Len(u) /\ n > 0
    BY <2>1
  <2>5. Len(got'[e]) = m + 1 /\ Len(unread'[e]) = n - 1
    BY <2>1, <2>2, <2>3, <2>4
  <2>6. Answered(e)' = (m + 1) + (n - 1) /\ Answered(e) = m + n
    BY <2>1, <2>4, <2>5 DEF Answered
  <2> QED
    BY <2>6
<1> QED
  BY <1>1, <1>2

LEMMA AnswersFollowKept ==
  ASSUME ControlInv, GivenInOrder, NoneBroken, NothingAnsweredYet, AnswersFollow, [Next]_vars
  PROVE  AnswersFollow'
<1>a. IdsOfConns /\ AnswersAreTyped /\ DOMAIN conns \subseteq DOMAIN endOf /\ \A i \in DOMAIN endOf : endOf[i] \in Ends
  BY AnswersTyped DEF ControlInv, IdsOfConns, TypeOK, Range
<1> SUFFICES ASSUME NEW i \in DOMAIN conns', NEW e, conns'[i].fd # NoFd, e = endOf'[i], link'[e] = "open"
             PROVE  Follows(i, e)'
  BY AllFollowThen
<1>1. CASE Inserts
  <2>1. PICK t, n, f, d : Inserted(t, n, f, d)
    BY <1>1, InsertDoes DEF Inserts
  <2>2. /\ UNCHANGED <<link, unread, got, mQueue, mRunning, srvLog, srvDone>>
        /\ n \notin DOMAIN endOf /\ d \in Ends /\ \A j \in DOMAIN endOf : endOf[j] # d
        /\ conns' = [j \in DOMAIN conns \cup {n} |-> IF j = n THEN NewConnection(d, f) ELSE conns[j]]
        /\ endOf' = [j \in DOMAIN endOf \cup {n} |-> IF j = n THEN d ELSE endOf[j]]
    BY <2>1 DEF Inserted
  <2>3. CASE i = n
    <3>1. e = d /\ conns'[i].sendq = <<>> /\ i \notin DOMAIN endOf
      BY <2>2, <2>3 DEF NewConnection
    <3>2. Answered(e)' = 0
      <4>1. got[e] = <<>> /\ unread[e] = <<>>
        BY <2>2, <3>1 DEF NothingAnsweredYet, IsUnmet
      <4>2. Len(got'[e]) = 0 /\ Len(unread'[e]) = 0
        BY <2>2, <4>1
      <4> QED
        BY <4>2 DEF Answered
    <3>3. \A m : ~HandledOf(i, e, m)
      <4>1. \A k \in 1..srvDone : k \in DOMAIN Given /\ Given[k] = srvLog[k]
        BY GivenIsSeq DEF ControlInv, TypeOK
      <4>2. \A k \in 1..srvDone : srvLog[k].type = "recv" => srvLog[k].id \in DOMAIN endOf
        BY <4>1 DEF ControlInv, Contexts
      <4> QED
        BY <3>1, <4>2 DEF HandledOf
    <3>4. \A k \in DOMAIN mQueue : ~SendsTo(mQueue[k], i)
      <4>1. \A k \in DOMAIN mQueue : \E l \in DOMAIN Given : Given[l] = mQueue[k]
        BY GivenIsSeq DEF ControlInv
      <4> QED
        BY <3>1, <4>1 DEF SendsTo, ControlInv, Contexts
    <3>5. Pending(i, e, 0)'
      <4>1. \A m : ~HandledOf(i, e, m)'
        BY <2>2, <3>3 DEF HandledOf
      <4>2. SendsFollow(i, e, 0)'
        BY <2>2, <3>4 DEF SendsFollow
      <4>3. AllSent(i, e, 0)'
        BY <4>1 DEF AllSent
      <4> QED
        BY <4>2, <4>3 DEF Pending
    <3>6. InSendQueue(<<>>, e, 0) /\ 0 = 0 + Len(<<>>)
      BY DEF InSendQueue
    <3> QED
      BY <3>1, <3>2, <3>5, <3>6, FollowsAfter
  <2>4. CASE i # n
    <3>1. i \in DOMAIN conns /\ conns'[i] = conns[i] /\ e = endOf[i] /\ link[e] = "open"
      BY <1>a, <2>2, <2>4
    <3>2. Answered(e)' = Answered(e) /\ SendsStay(i)
      BY <2>2 DEF Answered, SendsStay
    <3> QED
      BY <3>1, <3>2, StaysFollowing
  <2> QED
    BY <2>3, <2>4
<1>2. ASSUME NEW n, Queues(n) PROVE Follows(i, e)'
  <2>1. /\ i \in DOMAIN conns /\ n \in DOMAIN conns /\ e = endOf[i] /\ link[e] = "open" /\ ~ServerHandles
        /\ conns[i].fd # NoFd /\ Answered(e)' = Answered(e)
    <3>1. ~ServerHandles
      BY <1>2 DEF Queues, ServerHandles, ControlInv, TypeOK
    <3> QED
      BY <1>2, <3>1 DEF Queues, Answered
  <2>2. CASE i = n
    BY <1>2, <2>1, <2>2, QueuesFollows
  <2>3. CASE i # n
    <3>1. conns'[i].sendq = conns[i].sendq
      BY <1>2, <2>1, <2>3 DEF Queues
    <3>2. mQueue # <<>> /\ mQueue' = Tail(mQueue) /\ Ctx = mQueue[1] /\ Ctx.id = n
      BY <1>2 DEF Queues, SendsTo, Ctx
    <3>3. SendsStay(i)
      BY <2>3, <3>2 DEF SendsStay
    <3> QED
      BY <2>1, <3>1, <3>3, StaysFollowing
  <2> QED
    BY <2>2, <2>3
<1>3. ASSUME NEW n, NEW d, Sends(n, d) PROVE Follows(i, e)'
  <2>1. CASE i = n
    <3>1. e = d /\ ~ServerHandles
      BY <1>3, <2>1 DEF Sends, ServerHandles, ControlInv, TypeOK
    <3> QED
      BY <1>3, <2>1, <3>1, SendsFollows
  <2>2. CASE i # n
    <3>1. /\ i \in DOMAIN conns /\ i \in DOMAIN endOf /\ n \in DOMAIN endOf /\ conns'[i] = conns[i] /\ e = endOf[i] /\ d = endOf[n]
          /\ UNCHANGED <<got, mQueue>> /\ e \in Ends
      BY <1>3, <1>a, <2>2 DEF Sends
    <3>2. e # d
      BY <1>a, <2>2, <3>1 DEF IdsOfConns
    <3>3. unread'[e] = unread[e] /\ link[e] = "open"
      BY <1>3, <1>a, <3>1, <3>2, StreamsAreTyped DEF Sends, AnswersAreTyped, StreamTypes
    <3>4. Answered(e)' = Answered(e) /\ SendsStay(i)
      BY <3>1, <3>3 DEF Answered, SendsStay
    <3> QED
      BY <3>1, <3>3, <3>4, StaysFollowing
  <2> QED
    BY <2>1, <2>2
<1>4. CASE ~Inserts /\ ~EnqueueMsg /\ ~Replies
  <2>1. i \in DOMAIN conns /\ conns[i].fd # NoFd /\ conns'[i].sendq = conns[i].sendq /\ e = endOf[i]
    BY <1>4, SendqSteps, EndOfSteps DEF KeepsSendqs
  <2>2. link[e] = "open" /\ e \in Ends
    BY <1>a, <2>1, OpenIsOpen DEF OpenWasOpen
  <2>3. SendsStay(i) \/ ServerHandles
    BY <1>4, <2>1, QueueSteps DEF QueueStays
  <2>4. Answered(e)' = Answered(e)
    <3>1. CASE RepliesStay
      <4>1. got'[e] = got[e] /\ unread'[e] = unread[e]
        BY <2>2, <3>1 DEF RepliesStay, UnreadStays
      <4> QED
        BY <4>1 DEF Answered
    <3>2. CASE Reads
      BY <1>a, <2>2, <3>2, ReadsAnswered DEF Reads
    <3> QED
      BY <1>4, <3>1, <3>2, ReplySteps
  <2> QED
    BY <2>1, <2>2, <2>3, <2>4, StaysFollowing
<1> QED
  BY <1>1, <1>2, <1>3, <1>4, EnqueueMsgDoes, SendDataDoes DEF Replies

\* An end's replies, read and unread, are the answers to its messages from the first.
AreAnswers(g, u, e) ==
  /\ \A k \in 1..Len(g) : g[k] = Whole(e, k)
  /\ \A k \in 1..Len(u) : u[k] = Whole(e, Len(g) + k)

LEMMA FewerAnswers ==
  ASSUME NEW e, NEW g, NEW u \in Seq(Message), NEW k \in 0..Len(u), AreAnswers(g, u, e)
  PROVE  AreAnswers(g, SubSeq(u, 1, k), e)
<1>1. Len(SubSeq(u, 1, k)) = k /\ \A l \in 1..k : SubSeq(u, 1, k)[l] = u[l] /\ l \in 1..Len(u)
  OBVIOUS
<1> QED
  BY <1>1 DEF AreAnswers

LEMMA ReadAnswer ==
  ASSUME NEW e, NEW g \in Seq(Message), NEW u \in Seq(Message), u # <<>>, AreAnswers(g, u, e)
  PROVE  AreAnswers(Append(g, Head(u)), Tail(u), e)
<1>1. PICK m \in Nat, n \in Nat : m = Len(g) /\ n = Len(u) /\ n > 0
  OBVIOUS
<1>2. Head(u) = u[1] /\ Head(u) \in Message /\ 1 \in 1..Len(u)
  BY <1>1
<1>3. /\ Len(Append(g, Head(u))) = m + 1 /\ Append(g, Head(u))[m + 1] = u[1]
      /\ \A k \in 1..m : Append(g, Head(u))[k] = g[k]
  BY <1>1, <1>2
<1>4. Len(Tail(u)) = n - 1 /\ \A k \in 1..n - 1 : Tail(u)[k] = u[k + 1] /\ k + 1 \in 1..n
  BY <1>1
<1>5. ASSUME NEW k \in 1..m + 1 PROVE Append(g, Head(u))[k] = Whole(e, k)
  <2>1. k = m + 1 \/ k \in 1..m
    BY <1>1
  <2> QED
    BY <1>1, <1>2, <1>3, <2>1 DEF AreAnswers
<1>6. ASSUME NEW k \in 1..n - 1 PROVE Tail(u)[k] = Whole(e, (m + 1) + k)
  <2>1. m + (k + 1) = (m + 1) + k
    BY <1>1
  <2> QED
    BY <1>1, <1>4, <2>1 DEF AreAnswers
<1> QED
  BY <1>3, <1>4, <1>5, <1>6 DEF AreAnswers

LEMMA OneAnswerMore ==
  ASSUME NEW e, NEW g \in Seq(Message), NEW u \in Seq(Message), NEW msg \in Message, AreAnswers(g, u, e),
         msg = Whole(e, (Len(g) + Len(u)) + 1)
  PROVE  AreAnswers(g, Append(u, msg), e)
<1>1. PICK m \in Nat, n \in Nat : m = Len(g) /\ n = Len(u)
  OBVIOUS
<1>2. /\ Len(Append(u, msg)) = n + 1 /\ Append(u, msg)[n + 1] = msg
      /\ \A k \in 1..n : Append(u, msg)[k] = u[k]
  BY <1>1
<1>3. ASSUME NEW k \in 1..n + 1 PROVE Append(u, msg)[k] = Whole(e, m + k)
  <2>1. k = n + 1 \/ k \in 1..n
    BY <1>1
  <2>2. (m + n) + 1 = m + (n + 1)
    BY <1>1
  <2> QED
    BY <1>1, <1>2, <2>1, <2>2 DEF AreAnswers
<1> QED
  BY <1>1, <1>2, <1>3 DEF AreAnswers

LEMMA RepliesWholeKept ==
  ASSUME ControlInv, RepliesWhole, AnswersFollow, [Next]_vars
  PROVE  RepliesWhole'
<1>a. got \in [Ends -> Seq(Message)] /\ unread \in [Ends -> Seq(Message)]
  BY AnswersTyped DEF AnswersAreTyped
<1>b. RepliesWhole <=> \A e \in Ends : AreAnswers(got[e], unread[e], e)
  BY DEF RepliesWhole, AreAnswers
<1> SUFFICES ASSUME NEW e \in Ends PROVE AreAnswers(got'[e], unread'[e], e)
  BY DEF RepliesWhole, AreAnswers
<1>1. PICK g \in Seq(Message), u \in Seq(Message) : g = got[e] /\ u = unread[e] /\ AreAnswers(g, u, e)
  BY <1>a, <1>b
<1>2. CASE RepliesStay
  BY <1>1, <1>2, FewerAnswers DEF RepliesStay, UnreadStays
<1>3. ASSUME NEW d \in Ends, EndReads(d) PROVE AreAnswers(got'[e], unread'[e], e)
  <2>1. CASE e # d
    BY <1>a, <1>1, <1>3, <2>1 DEF EndReads
  <2>2. CASE e = d
    <3>1. u # <<>> /\ got'[e] = Append(g, Head(u)) /\ unread'[e] = Tail(u)
      BY <1>a, <1>1, <1>3, <2>2 DEF EndReads
    <3> QED
      BY <1>1, <3>1, ReadAnswer
  <2> QED
    BY <2>1, <2>2
<1>4. ASSUME NEW i, NEW d, Sends(i, d) PROVE AreAnswers(got'[e], unread'[e], e)
  <2>1. CASE unread'[e] = unread[e]
    BY <1>1, <1>4, <2>1 DEF Sends
  <2>2. CASE unread'[e] # unread[e]
    <3>1. /\ d = e /\ link'[e] = "open" /\ unread'[e] = Append(u, Head(conns[i].sendq))
          /\ got' = got /\ Head(conns[i].sendq) \in Message /\ ~ServerHandles
      <4>1. d = e /\ link'[e] = "open" /\ unread'[e] = Append(u, Head(conns[i].sendq)) /\ got' = got
        BY <1>a, <1>1, <1>4, <2>2 DEF Sends
      <4>2. Head(conns[i].sendq) \in Message
        BY <1>4 DEF Sends
      <4>3. ~ServerHandles
        BY <1>4 DEF Sends, ServerHandles, ControlInv, TypeOK
      <4> QED
        BY <4>1, <4>2, <4>3
    <3>2. PICK msg \in Message : msg = Head(conns[i].sendq)
      BY <3>1
    <3>3. msg = Whole(e, Answered(e) + 1)
      BY <1>4, <3>1, <3>2, SendsFollows
    <3>4. msg = Whole(e, (Len(g) + Len(u)) + 1)
      BY <1>1, <3>3 DEF Answered
    <3> QED
      BY <1>1, <3>1, <3>2, <3>4, OneAnswerMore
  <2> QED
    BY <2>1, <2>2
<1> QED
  BY <1>2, <1>3, <1>4, ReplySteps, SendDataDoes DEF Replies, Reads

LEMMA NothingAnsweredYetKept ==
  ASSUME ControlInv, NothingAnsweredYet, [Next]_vars
  PROVE  NothingAnsweredYet'
<1>a. got \in [Ends -> Seq(Message)] /\ unread \in [Ends -> Seq(Message)]
  BY AnswersTyped DEF AnswersAreTyped
<1> SUFFICES ASSUME NEW e \in Ends, IsUnmet(e)' PROVE got'[e] = <<>> /\ unread'[e] = <<>>
  BY DEF NothingAnsweredYet
<1>1. IsUnmet(e)
  BY UnmetStaysUnmet
<1>2. got[e] = <<>> /\ unread[e] = <<>>
  BY <1>1 DEF NothingAnsweredYet
<1>3. CASE RepliesStay
  <2>1. PICK k \in 0..Len(unread[e]) : got'[e] = got[e] /\ unread'[e] = SubSeq(unread[e], 1, k)
    BY <1>3 DEF RepliesStay, UnreadStays
  <2>2. k = 0
    BY <1>2, <2>1
  <2> QED
    BY <1>2, <2>1, <2>2
<1>4. ASSUME NEW d \in Ends, EndReads(d) PROVE got'[e] = <<>> /\ unread'[e] = <<>>
  <2>1. d # e
    BY <1>2, <1>4 DEF EndReads
  <2> QED
    BY <1>a, <1>2, <1>4, <2>1 DEF EndReads
<1>5. ASSUME NEW i, NEW d, Sends(i, d) PROVE got'[e] = <<>> /\ unread'[e] = <<>>
  <2>1. d # e
    BY <1>1, <1>5 DEF IsUnmet, Sends
  <2> QED
    BY <1>a, <1>2, <1>5, <2>1 DEF Sends
<1> QED
  BY <1>3, <1>4, <1>5, ReplySteps, SendDataDoes DEF Replies, Reads

LEMMA NoneBrokenKept ==
  ASSUME ControlInv, NoneBroken, [Next]_vars
  PROVE  NoneBroken'
<1> SUFFICES ASSUME NEW k \in 1..srvDone' PROVE ~IsBroken(srvLog'[k])
  BY DEF NoneBroken, IsBroken
<1>1. srvLog \in Seq(Context) /\ srvDone \in Nat /\ srvDone <= Len(srvLog)
  BY DEF ControlInv, TypeOK
<1>2. CASE ServerHandles
  <2>1. UNCHANGED srvLog /\ srvDone' = srvDone + 1 /\ ~IsBroken(srvLog[srvDone + 1])
    BY <1>2 DEF ServerHandles
  <2>2. k \in 1..srvDone \/ k = srvDone + 1
    BY <1>1, <2>1
  <2> QED
    BY <2>1, <2>2 DEF NoneBroken
<1>3. CASE ~ServerHandles
  <2>a. srvDone' = srvDone /\ (UNCHANGED srvLog \/ srvLog' = Append(srvLog, Ctx))
    BY <1>3, HandledSteps
  <2>1. srvDone' = srvDone /\ \A l \in 1..srvDone : srvLog'[l] = srvLog[l]
    BY <1>1, <2>a
  <2> QED
    BY <2>1 DEF NoneBroken
<1> QED
  BY <1>2, <1>3

LEMMA RepliesAreInductive ==
  ASSUME ControlInv, FramingInv, RepliesInv, [Next]_vars
  PROVE  RepliesInv'
<1>1. NothingAnsweredYet' /\ RepliesWhole'
  BY NothingAnsweredYetKept, RepliesWholeKept DEF RepliesInv
<1>2. AnswersFollow'
  BY AnswersFollowKept DEF RepliesInv, FramingInv
<1>3. NoneBroken'
  BY NoneBrokenKept DEF RepliesInv
<1> QED
  BY <1>1, <1>2, <1>3 DEF RepliesInv

LEMMA RepliesAtFirst ==
  ASSUME Init
  PROVE  RepliesInv
<1>1. DOMAIN conns = {} /\ srvDone = 0 /\ \A e \in Ends : got[e] = <<>> /\ unread[e] = <<>>
  BY DEF Init, SocketInit
<1>2. 1..Len(<<>>) = {} /\ 1..0 = {}
  OBVIOUS
<1> QED
  BY <1>1, <1>2 DEF RepliesInv, NoneBroken, NothingAnsweredYet, RepliesWhole, AnswersFollow

\* An end gets the answers to its own messages, in order, each once and none left
\* out, for any number of ends and connections: though descriptors are used again,
\* two threads send, and answers wait in the service's queue and in mSendQueue.
THEOREM AnswersInOrder == Spec => []RepliesInOrder
<1>1. Init => ControlInv /\ FramingInv /\ RepliesInv
  BY ControlAtFirst, FramingAtFirst, RepliesAtFirst
<1>2. ControlInv /\ FramingInv /\ RepliesInv /\ [Next]_vars => (ControlInv /\ FramingInv /\ RepliesInv)'
  BY ControlIsInductive, FramingIsInductive, RepliesAreInductive
<1>3. ASSUME ControlInv, RepliesInv PROVE RepliesInOrder
  <2> SUFFICES ASSUME NEW e \in Ends, NEW k \in DOMAIN (got[e] \o unread[e])
               PROVE  (got[e] \o unread[e])[k] = Whole(e, k)
    BY DEF RepliesInOrder
  <2>1. PICK g \in Seq(Message), u \in Seq(Message) : g = got[e] /\ u = unread[e]
    BY <1>3, AnswersTyped DEF AnswersAreTyped
  <2>2. AreAnswers(g, u, e)
    BY <1>3, <2>1 DEF RepliesInv, RepliesWhole, AreAnswers
  <2>3. PICK m \in Nat, n \in Nat : m = Len(g) /\ n = Len(u)
    BY <2>1
  <2>4. k \in 1..m + n
    <3>1. DOMAIN (g \o u) = 1..Len(g) + Len(u)
      OBVIOUS
    <3> QED
      BY <2>1, <2>3, <3>1
  <2>5. CASE k <= m
    <3>1. (g \o u)[k] = g[k] /\ k \in 1..m
      BY <2>3, <2>4, <2>5
    <3> QED
      BY <2>1, <2>2, <2>3, <3>1 DEF AreAnswers
  <2>6. CASE ~(k <= m)
    <3>1. (g \o u)[k] = u[k - m] /\ k - m \in 1..n /\ m + (k - m) = k
      BY <2>3, <2>4, <2>6
    <3> QED
      BY <2>1, <2>2, <2>3, <3>1 DEF AreAnswers
  <2> QED
    BY <2>5, <2>6
<1> QED
  BY <1>1, <1>2, <1>3, PTL DEF Spec

=============================================================================
