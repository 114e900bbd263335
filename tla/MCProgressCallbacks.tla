------------------------ MODULE MCProgressCallbacks ------------------------
EXTENDS ProgressCallbacks

\* One directory with two network faults, so that events queue up behind a batch in
\* flight and overflow the outbox; two directories with one fault, the first of
\* them reported in two parts, so that a traversal resumes between them.
MCSizes == {<<1>>, <<2, 1>>}
MCBreaks == <<2, 1>>
=============================================================================
