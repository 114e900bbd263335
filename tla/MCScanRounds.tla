---------------------------- MODULE MCScanRounds ----------------------------
(***************************************************************************)
(* Instances of ScanRounds for TLC.                                        *)
(***************************************************************************)
EXTENDS ScanRounds

\* Path 1 changes while 2 disappears or appears.
Pairs == {<<1, 1>>, <<2, 0>>}
=============================================================================
