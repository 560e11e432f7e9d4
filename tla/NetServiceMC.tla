---------------------------- MODULE NetServiceMC ----------------------------
(***************************************************************************)
(* How much each end sends: 4 units are a whole message, 8 are two, and 1  *)
(* is the first half of a length that is never finished.                   *)
(***************************************************************************)
EXTENDS NetService

CONSTANTS a, b

Sends(m, n) == [e \in Ends |-> IF e = a THEN m ELSE n]

BothTalk   == {Sends(4, 1), Sends(1, 4), Sends(8, 0), Sends(0, 8)}
OneIsSlow  == {Sends(4, 1), Sends(8, 0)}
=============================================================================
