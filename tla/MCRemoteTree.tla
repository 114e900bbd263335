---------------------------- MODULE MCRemoteTree ----------------------------
(* A file and a directory with a file and an unfinished transfer in it.    *)
EXTENDS RemoteTree

MCPaths == {"a", "d", "x", "y"}
MCParent == [p \in MCPaths |-> IF p \in {"x", "y"} THEN "d" ELSE ROOT]
File(v, m) == [kind |-> "file", data |-> v, meta |-> m, acl |-> FALSE]
Part == [kind |-> "part", data |-> 0, meta |-> 0, acl |-> FALSE]
Dir(m) == [kind |-> "dir", data |-> 0, meta |-> m, acl |-> FALSE]
Tree(a, d, x, y) == [p \in MCPaths |-> CASE p = "a" -> a [] p = "d" -> d [] p = "x" -> x [] OTHER -> y]

MCSources == {Tree(File(2, 2), Dir(2), File(2, 2), ABSENT),
              Tree(File(2, 2), File(2, 2), ABSENT, ABSENT)}
MCDests == {Tree(ABSENT, ABSENT, ABSENT, ABSENT),
            Tree(File(2, 1), Dir(1), File(1, 1), Part),
            Tree(ABSENT, Dir(2), ABSENT, File(1, 1)),
            Tree(Dir(1), File(1, 1), ABSENT, ABSENT)}
MCHandshakes == {[version |-> 12, min |-> 12, features |-> {"delta", "acl"}]}
Old == [version |-> 11, min |-> 11, features |-> {"delta"}]
MixedHandshakes == MCHandshakes \cup {Old}
MCWalk == <<ROOT, "d">>
=============================================================================
