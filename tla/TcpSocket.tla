----------------------------- MODULE TcpSocket -----------------------------
(***************************************************************************)
(* TCP as TcpSocket.hpp uses it: the sockets of the process, by file       *)
(* descriptor, and the ends they are connected to.  Every socket blocks:   *)
(* nothing calls SetNonblocking, so the EAGAIN branches never run.         *)
(*                                                                         *)
(* A message on the wire is four units: two carry its length, two the      *)
(* rest, so that both halves can arrive in pieces.  A reply is one unit.   *)
(* A length is right, or too short for a message, or so long that adding   *)
(* HEAD_LENGTH to it wraps in 32 bits.  What a message says is left out.   *)
(***************************************************************************)
EXTENDS Naturals, Sequences, FiniteSets, FiniteSetsExt, SequencesExt, Functions

CONSTANTS
  Peers,      \* they connect to the listening socket
  Remotes,    \* StartConnectRemote connects to them
  Fds,        \* file descriptors
  NoEnd,
  Budgets,    \* bounds: how many units each end sends (none: it stays away)
  Wrong,      \* bound: the wrong lengths that ends announce
  Window      \* replies an end's buffers hold before send blocks

Ends == Peers \cup Remotes

ASSUME TcpSocketAssumption ==
  /\ Peers \cap Remotes = {} /\ IsFiniteSet(Ends) /\ NoEnd \notin Ends
  /\ Fds \subseteq Nat \ {0} /\ IsFiniteSet(Fds)
  /\ Budgets \subseteq [Ends -> Nat] /\ IsFiniteSet(Budgets) /\ Window \in Nat \ {0}
  /\ Wrong \subseteq {"short", "wraps"}

VARIABLES
  budget,    \* the bound of this behaviour
  sock,      \* sock[fd]: the end the open socket fd is connected to
  backlog,   \* connected to the listening socket, not accepted yet
  link,      \* the state of the connection with an end
  wire,      \* wire[e]: sent by e, not received
  unread,    \* unread[e]: replies sent to e it has not read
  sent,      \* sent[e]: units e has sent
  got        \* history: the replies e has read

netVars == <<budget, sock, backlog, link, wire, unread, sent, got>>

NoFd == 0
Parts == <<"len1", "len2", "body1", "body2">>
Unit == [from : Ends, n : Nat \ {0}, part : Range(Parts) \cup {"short", "wraps"}]
Whole(e, n) == [p \in 1..4 |-> [from |-> e, n |-> n, part |-> Parts[p]]]
Message == [1..4 -> Unit]

(***************************************************************************)
(* "fin": the end has closed.  "rst": it has reset the connection and the  *)
(* error is still to be reported.  "dead": the error was reported; recv    *)
(* gives 0 from now on and send raises SIGPIPE.  "over": closed here.      *)
(***************************************************************************)
LinkStates == {"none", "open", "fin", "rst", "dead", "over"}

SocketTypeOK ==
  /\ budget \in Budgets
  /\ sock \in [Fds -> Ends \cup {NoEnd}]
  /\ backlog \in Seq(Ends)
  /\ link \in [Ends -> LinkStates]
  /\ wire \in [Ends -> Seq(Unit)]
  /\ unread \in [Ends -> Seq(Message)] /\ got \in [Ends -> Seq(Message)]
  /\ sent \in [Ends -> Nat]

SocketInit ==
  /\ budget \in Budgets
  /\ sock = [fd \in Fds |-> NoEnd]
  /\ backlog = <<>>
  /\ link = [e \in Ends |-> "none"]
  /\ wire = [e \in Ends |-> <<>>]
  /\ unread = [e \in Ends |-> <<>>] /\ got = [e \in Ends |-> <<>>]
  /\ sent = [e \in Ends |-> 0]
-----------------------------------------------------------------------------
(***************************************************************************)
(* The ends.                                                               *)
(***************************************************************************)
PeerConnects(e) ==
  /\ link[e] = "none" /\ budget[e] > 0
  /\ link' = [link EXCEPT ![e] = "open"]
  /\ backlog' = Append(backlog, e)
  /\ UNCHANGED <<budget, sock, wire, unread, sent, got>>

NextPart(e) == (sent[e] % 4) + 1
NextNumber(e) == (sent[e] \div 4) + 1

\* The length an end announces may be a wrong one.
EndSends(e) ==
  /\ link[e] = "open"
  /\ sent[e] < budget[e]
  /\ \E part \in {Parts[NextPart(e)]} \cup (IF NextPart(e) = 2 THEN Wrong ELSE {}) :
       wire' = [wire EXCEPT ![e] = Append(@, [from |-> e, n |-> NextNumber(e), part |-> part])]
  /\ sent' = [sent EXCEPT ![e] = @ + 1]
  /\ UNCHANGED <<budget, sock, backlog, link, unread, got>>

EndReads(e) ==
  /\ unread[e] # <<>>
  /\ got' = [got EXCEPT ![e] = Append(@, Head(unread[e]))]
  /\ unread' = [unread EXCEPT ![e] = Tail(@)]
  /\ UNCHANGED <<budget, sock, backlog, link, wire, sent>>

EndCloses(e) ==
  /\ link[e] = "open" /\ unread[e] = <<>>
  /\ link' = [link EXCEPT ![e] = "fin"]
  /\ UNCHANGED <<budget, sock, backlog, wire, unread, sent, got>>

\* It crashes, or closes with replies unread; what is under way may be lost.
EndResets(e) ==
  /\ link[e] = "open"
  /\ link' = [link EXCEPT ![e] = "rst"]
  /\ \E k \in 0..Len(wire[e]) : wire' = [wire EXCEPT ![e] = SubSeq(@, 1, k)]
  /\ unread' = [unread EXCEPT ![e] = <<>>]
  /\ UNCHANGED <<budget, sock, backlog, sent, got>>

EndSteps(e) ==
  \/ e \in Peers /\ PeerConnects(e)
  \/ EndSends(e) \/ EndReads(e) \/ EndCloses(e) \/ EndResets(e)
-----------------------------------------------------------------------------
(***************************************************************************)
(* What the calls find and do.  FreeFd: the lowest one, for socket and     *)
(* accept alike.                                                           *)
(***************************************************************************)
FreeFds == {fd \in Fds : sock[fd] = NoEnd}
FreeFd  == Min(FreeFds)
EndOf(fd) == sock[fd]
Readable(e) == wire[e] # <<>> \/ link[e] \in {"fin", "rst", "dead"}

\* recv: data that is there comes first, then the error, then 0.
RecvBlocks(e) == ~Readable(e)
RecvFails(e)  == wire[e] = <<>> /\ link[e] = "rst"
RecvIsAtEnd(e) == wire[e] = <<>> /\ link[e] \in {"fin", "dead"}
RecvTakes(e, k) == k \in 1..Len(wire[e])

Received(e, k) == wire' = [wire EXCEPT ![e] = SubSeq(@, k + 1, Len(@))]
ErrorReported(e) == link' = [link EXCEPT ![e] = "dead"]

\* send: a closed end answers what it is sent with a reset.
SendBlocks(e) == link[e] = "open" /\ Len(unread[e]) = Window
SendFails(e)  == link[e] = "rst"
SendKills(e)  == link[e] = "dead"
Sent(e, msg) ==
  \/ /\ link[e] = "open" /\ ~SendBlocks(e)
     /\ unread' = [unread EXCEPT ![e] = Append(@, msg)]
     /\ UNCHANGED link
  \/ /\ link[e] = "fin"
     /\ link' = [link EXCEPT ![e] = "dead"]
     /\ UNCHANGED unread

\* TcpSocket::Close.  Data nobody received turns it into a reset, and the end
\* may lose replies it has not read.
SocketClose(fd) ==
  LET e == EndOf(fd) IN
  /\ sock' = [sock EXCEPT ![fd] = NoEnd]
  /\ link' = [link EXCEPT ![e] = "over"]
  /\ wire' = [wire EXCEPT ![e] = <<>>]
  /\ \E k \in IF wire[e] = <<>> THEN {Len(unread[e])} ELSE {0, Len(unread[e])} :
       unread' = [unread EXCEPT ![e] = SubSeq(@, 1, k)]
  /\ UNCHANGED <<budget, backlog, sent, got>>
=============================================================================
