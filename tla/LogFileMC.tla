----------------------------- MODULE LogFileMC ------------------------------
(***************************************************************************)
(* LogFile on small instances.                                             *)
(***************************************************************************)
EXTENDS LogFile

\* With bodies of 20, 20 and 28 characters, padded twice, not at all and once.
SmallContents ==
  { [type |-> 5, table |-> <<116>>, key |-> <<>>, value |-> <<>>],
    [type |-> 2, table |-> <<116>>, key |-> <<107>>, value |-> <<0>>],
    [type |-> 1, table |-> <<116, 50>>, key |-> <<0, 255, 10>>, value |-> <<251, 239, 255>>] }

\* The bytes of the length, of the CRC and of the longest body.
Anywhere == (1..8) \cup (17..44)
=============================================================================
