-------------------------- MODULE MCRemoteSession --------------------------
(***************************************************************************)
(* An instance of RemoteSession for TLC: two entries on pages of their     *)
(* own.  The first may be a file that needs a delta, a link or a delete    *)
(* marker; the second a file wanted in full, left alone or failing.        *)
(***************************************************************************)
EXTENDS RemoteSession, TLC

TwoNdx      == {1, 2}
TwoPages    == <<{1}, {2}>>
TwoChoices  == 1 :> {"delta", "link", "marker"} @@ 2 :> {"full", "skip", "metaFailed"}

=============================================================================
