---------------------------- MODULE MCScanIngest ----------------------------
EXTENDS ScanIngest

CONSTANTS a, b, c, w1, w2

F(h, v) == [h |-> h, v |-> v]
Tree(x, y, z) == [p \in Paths |-> CASE p = a -> x [] p = b -> y [] p = c -> z]

\* log rotation over a path without identity, a swap across a checkpoint, a hard
\* link beside a rename and a deletion.
MCScenarios == {
    [prior |-> Tree(F(1, 1), NoFile, F(0, 1)),
     walk |-> <<Entry(a, 2, 2), Checkpoint, Entry(b, 1, 1), Entry(c, 0, 2)>>],
    [prior |-> Tree(F(1, 1), F(2, 1), F(3, 1)),
     walk |-> <<Entry(b, 1, 1), Checkpoint, Entry(a, 2, 1), Checkpoint>>],
    [prior |-> Tree(F(1, 1), NoFile, F(2, 1)),
     walk |-> <<Entry(a, 1, 2), Checkpoint, Entry(b, 1, 2), Checkpoint>>],
    [prior |-> Tree(F(1, 1), F(1, 1), NoFile),
     walk |-> <<Checkpoint, Entry(b, 1, 1), Entry(c, 1, 1)>>]
}
MCPaths == {a, b, c}
MCWorkers == {w1, w2}
MCWorkerOf == [p \in Paths |-> IF p = a THEN w1 ELSE w2]

=============================================================================
