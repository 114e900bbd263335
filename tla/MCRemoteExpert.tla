--------------------------- MODULE MCRemoteExpert ---------------------------
EXTENDS RemoteExpert

\* Three files, one of them empty, and a failure between two of a page.
MCWalk == <<File("f", 9), WalkFailure, File("g", 0), File("h", 3), WalkFailure>>

=============================================================================
