--------------------------- MODULE MCDeltaTransfer ---------------------------
EXTENDS DeltaTransfer

Contents(n) == [1..n -> 0..1]

\* Sources that end in the middle of a block, and the short ones.
MCSources == {<< >>} \cup Contents(2) \cup Contents(5)

\* Bases with and without a partial block at their end.
MCBases == {<< >>} \cup Contents(3) \cup Contents(4)

MCOverwrites == {<<1>>, <<1, 0, 0, 1>>}

=============================================================================
