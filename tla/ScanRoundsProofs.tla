-------------------------- MODULE ScanRoundsProofs --------------------------
(***************************************************************************)
(* Proofs about durable scan rounds (ScanRounds): at any point, whatever   *)
(* was interrupted before, the stored round can be taken up again, and     *)
(* readers find the result of the last committed round when none is        *)
(* active.                                                                 *)
(*                                                                         *)
(* The invariant has three parts.  Disk says what is stored: the cuts of   *)
(* an open round are the committed result and what the round had reached,  *)
(* and the tables are the committed result when no round is open.          *)
(* Requests says that every statement on its way may land, or be lost,     *)
(* without breaking that.  Execution says, for each step of the plan, what *)
(* the running execution has prepared so that the next statement is sound. *)
(* A stop only forgets Execution.                                          *)
(***************************************************************************)
EXTENDS ScanRounds, SequenceTheorems, TLAPS
-----------------------------------------------------------------------------
(* The plans.                                                              *)

P0 == <<"load">>

\* A fresh round, once a committed round is marked completed or the tables are
\* those of the baseline again.
F7 == <<"walk">>
F6 == <<"tidy", "walk">>
F5 == <<"start", "tidy", "walk">>
F4 == <<"rebase", "start", "tidy", "walk">>
F3 == <<"abandon", "rebase", "start", "tidy", "walk">>
F2 == <<"clone", "abandon", "rebase", "start", "tidy", "walk">>
F1 == <<"initialize", "clone", "abandon", "rebase", "start", "tidy", "walk">>
G0 == <<"complete", "initialize", "clone", "abandon", "rebase", "start", "tidy", "walk">>
G4 == <<"attachEvents", "initialize", "clone", "abandon", "rebase", "start", "tidy", "walk">>
G3 == <<"dropEvents", "attachEvents", "initialize", "clone", "abandon", "rebase", "start", "tidy", "walk">>
G2 == <<"attachRows", "dropEvents", "attachEvents", "initialize", "clone", "abandon", "rebase", "start",
        "tidy", "walk">>
G1 == <<"dropRows", "attachRows", "dropEvents", "attachEvents", "initialize", "clone", "abandon", "rebase",
        "start", "tidy", "walk">>

\* A round taken up again at its last checkpoint.
W4 == <<"attachEvents", "walk">>
W3 == <<"dropEvents", "attachEvents", "walk">>
W2 == <<"attachRows", "dropEvents", "attachEvents", "walk">>
W1 == <<"dropRows", "attachRows", "dropEvents", "attachEvents", "walk">>
R4 == <<"attachEvents", "resolve", "final", "stats">>
R3 == <<"dropEvents", "attachEvents", "resolve", "final", "stats">>
R2 == <<"attachRows", "dropEvents", "attachEvents", "resolve", "final", "stats">>
R1 == <<"dropRows", "attachRows", "dropEvents", "attachEvents", "resolve", "final", "stats">>

\* A checkpoint, sealed with a new cut (1, 2) or the one there is (4).
K1 == <<"clone", "save", "tidy", "walk">>
K2 == <<"save", "tidy", "walk">>
K4 == <<"save", "walk">>

\* The same at the end of the source, and what follows.
E1 == <<"clone", "save", "tidy", "resolve", "final", "stats">>
E2 == <<"save", "tidy", "resolve", "final", "stats">>
E3 == <<"tidy", "resolve", "final", "stats">>
E4 == <<"save", "resolve", "final", "stats">>
E5 == <<"resolve", "final", "stats">>
E6 == <<"final", "stats">>
E7 == <<"stats">>

\* The same with the finished tables, and the commit.
C1 == <<"clone", "save", "tidy", "commit", "complete", "tidy">>
C2 == <<"save", "tidy", "commit", "complete", "tidy">>
C3 == <<"tidy", "commit", "complete", "tidy">>
C4 == <<"save", "commit", "complete", "tidy">>
C5 == <<"commit", "complete", "tidy">>
C6 == <<"complete", "tidy">>
C7 == <<"tidy">>

-----------------------------------------------------------------------------
(* Tables and cuts.                                                        *)

IsRow(m) ==
    /\ m = [version |-> m.version, key |-> m.key, gen |-> m.gen, inc |-> m.inc, phase |-> m.phase,
            epoch |-> m.epoch, at |-> m.at, base |-> m.base, cut |-> m.cut]
    /\ m.version \in Int /\ m.inc \in BOOLEAN /\ m.phase \in 0..3
Shape ==
    /\ scanState = [gen |-> scanState.gen, baseline |-> scanState.baseline]
    /\ scanState.gen \in {0, 1, 2} /\ scanState.baseline \in BOOLEAN
    /\ IsRow(manifest) /\ IsRow(st)
    /\ cuts = [t \in Tokens |-> [made |-> cuts[t].made, rows |-> cuts[t].rows, events |-> cuts[t].events]]
    /\ walk = [seen |-> walk.seen, sent |-> walk.sent, written |-> walk.written, batch |-> walk.batch,
               matches |-> walk.matches]
    /\ src \in [Names -> Nat] /\ truth.tree \in [Names -> Nat]
    /\ mode \in BOOLEAN

\* The committed tables, those after the first k paths of round m, those
\* without the old rows except D, and the events of round m.
Row(v, g)     == IF v = 0 THEN NoRow ELSE [v |-> v, g |-> g]
TruthRows     == [n \in Names |-> Row(truth.tree[n], scanState.gen)]
Seen(m, k)    == [n \in Names |-> IF n <= k /\ src[n] # 0 THEN Row(src[n], m.gen) ELSE TruthRows[n]]
Swept(m, D)   == [n \in Names |-> IF src[n] # 0 THEN Row(src[n], m.gen)
                                  ELSE IF n \in D THEN TruthRows[n] ELSE NoRow]
Final(m)      == [n \in Names |-> Row(src[n], m.gen)]
Logged(m, tree) == truth.events \cup (IF m.inc THEN Difference(truth.tree, tree, m.epoch) ELSE {})

Restored == base = TruthRows /\ events = truth.events

\* Tables that round m can go on from.
Reached(m, rows, log) ==
    /\ log = Logged(m, Content(rows))
    /\ \/ rows = Seen(m, IF m.phase = RUNNING THEN m.at ELSE N)
       \/ m.phase = FINALIZING /\ rows = Final(m)

CutIs(t, rows, log) ==
    t \in Tokens /\ cuts[t] = [made |-> {"rows", "events"}, rows |-> rows, events |-> log]

\* m is the row of a round with its baseline, and one with its checkpoint.
Round(m) ==
    /\ Active(m) /\ scanState.gen \in {0, 1} /\ m.gen = 1 - scanState.gen /\ m.at \in 0..N
    /\ m.inc \/ truth.tree = NoTree
    /\ CutIs(m.base, TruthRows, truth.events)
Holds(m) ==
    /\ Round(m) /\ CutExists(m.cut)
    /\ Reached(m, cuts[m.cut].rows, cuts[m.cut].events)

Open(m) == Active(m) /\ m.gen # scanState.gen

\* What is stored, whether or not an execution runs.
Disk ==
    /\ scanState.baseline \/ truth.tree = NoTree
    /\ scanState.gen = 2 => ~scanState.baseline /\ ~Active(manifest)
    /\ Open(manifest) => Holds(manifest)
    /\ ~Open(manifest) => Restored
    /\ Active(manifest) /\ ~Open(manifest) => manifest.phase = FINALIZING

-----------------------------------------------------------------------------
(* Statements on their way.                                                *)

TableOps == {"rows", "events", "delete", "dropRows", "attachRows", "dropEvents", "attachEvents"}
CutOps   == {"cloneRows", "cloneEvents", "dropCut"}

\* Each may land, or be lost, at any time without harm.
Sound(s) ==
    \/ s.op \in TableOps /\ Open(manifest)
    \/ /\ s.op \in CutOps /\ s = [op |-> s.op, tok |-> s.tok]
       /\ Active(manifest) => s.tok \notin {manifest.base, manifest.cut}
    \/ /\ s.op = "rebase" /\ s.gen = scanState.gen /\ ~Active(manifest) /\ scanState.gen # 2
    \/ /\ s = [op |-> "state", gen |-> 0, baseline |-> FALSE] /\ scanState.gen = 2
    \/ /\ s = [op |-> "state", gen |-> manifest.gen, baseline |-> TRUE]
       /\ Open(manifest) /\ manifest.phase = FINALIZING
       /\ base = Final(manifest) /\ events = Logged(manifest, src)
    \/ /\ s = [op |-> "save", row |-> s.row] /\ s.row.version > manifest.version
       /\ IsRow(s.row)
       /\ IF Active(s.row) THEN Holds(s.row) ELSE Restored

\* One at a time, save those about different cuts.
Requests ==
    /\ \A s \in req : Sound(s)
    /\ \A s, t \in req : s = t \/ (s.op \in CutOps /\ t.op \in CutOps)

Ops(S) == \A s \in req : s.op \in S

\* The tables, the manifest and a cut, once what is on its way has landed.
RowsAhead   == IF req = {} THEN base ELSE Rows(CHOOSE s \in req : TRUE)
EventsAhead == IF req = {} THEN events ELSE Events(CHOOSE s \in req : TRUE)
Saved       == IF Ops({"save"}) /\ req # {} THEN \A s \in req : s.row = st ELSE manifest = st
Clones(t)   == {[op |-> o, tok |-> t] : o \in {"cloneRows", "cloneEvents"}}
Forming(t)  ==
    /\ t \in Tokens /\ req \subseteq Clones(t) /\ cuts[t].made \subseteq {"rows", "events"}
    /\ [op |-> "cloneRows", tok |-> t] \in req \/ ("rows" \in cuts[t].made /\ cuts[t].rows = base)
    /\ [op |-> "cloneEvents", tok |-> t] \in req \/ ("events" \in cuts[t].made /\ cuts[t].events = events)

-----------------------------------------------------------------------------
(* The execution: what it relies on at each step of its plan.              *)

Idling == plan \in {<< >>, P0}

\* A round committed, or about to be; a round completed.
Closing ==
    /\ plan \in {G0, C6} /\ st = manifest /\ Active(st)
    /\ req = {} => ~Open(st)
    /\ Ops({"state"}) /\ \A s \in req : s.baseline
Closed == plan = C7 /\ ~Active(st) /\ Ops({"save"}) /\ Saved

\* The tables are replaced by the cut t.
Restoring(t) ==
    \/ Head(plan) = "dropRows"     /\ req = {}
    \/ Head(plan) = "attachRows"   /\ Ops({"dropRows"})   /\ RowsAhead = Nothing
    \/ Head(plan) = "dropEvents"   /\ Ops({"attachRows"}) /\ RowsAhead = cuts[t].rows
    \/ Head(plan) = "attachEvents" /\ Ops({"dropEvents"}) /\ RowsAhead = cuts[t].rows /\ EventsAhead = {}
GivingUp == plan \in {G1, G2, G3, G4} /\ st = manifest /\ Open(st) /\ Restoring(st.base)
TakingUp ==
    /\ st = manifest /\ Open(st) /\ Restoring(st.cut)
    /\ \/ plan \in {W1, W2, W3, W4} /\ st.phase = RUNNING /\ walk = [From(st.at) EXCEPT !.matches = walk.matches]
       \/ plan \in {R1, R2, R3, R4} /\ st.phase = FINALIZING

\* A new round: its baseline is the committed result.
Baseline == Restored /\ st.inc = scanState.baseline
Prepared ==
    /\ plan = F1 /\ Ops({"attachEvents", "save"})
    /\ RowsAhead = TruthRows /\ EventsAhead = truth.events
Initialized ==
    /\ plan = F2 /\ Baseline
    /\ Ops({"state"}) /\ \A s \in req : ~s.baseline
    /\ req = {} => scanState.gen # 2
Captured  == plan = F3 /\ Baseline /\ scanState.gen # 2 /\ Forming(st.cut)
Abandoned ==
    /\ plan = F4 /\ Baseline /\ scanState.gen # 2 /\ CutIs(st.cut, base, events)
    /\ Ops({"save"}) /\ \A s \in req : ~Active(s.row)
    /\ req = {} => ~Active(manifest)
Rebased   ==
    /\ plan = F5 /\ Baseline /\ scanState.gen # 2 /\ CutIs(st.cut, base, events)
    /\ Ops({"rebase"}) /\ ~Active(manifest) /\ st.gen = 1 - scanState.gen

\* The tables while the source is walked, at its end, and when all is done.
Walked ==
    /\ st.phase = RUNNING
    /\ \A i \in {walk.seen, walk.sent, walk.written, walk.batch} : i \in 0..N
    /\ st.at <= walk.written /\ walk.written <= walk.batch /\ walk.batch <= walk.sent /\ walk.sent <= walk.seen
    /\ walk.matches => \A n \in Names : st.at < n /\ n <= walk.seen => src[n] = 0
    /\ RowsAhead = Seen(st, walk.written)
    /\ EventsAhead = Logged(st, Content(Seen(st, walk.batch)))
Ended    == st.phase = FINALIZING /\ Reached(st, RowsAhead, EventsAhead)
Finished == st.phase = FINALIZING /\ RowsAhead = Final(st) /\ EventsAhead = Logged(st, src)
Tables(w, e, c) == (plan = w /\ Walked) \/ (plan = e /\ Ended) \/ (plan = c /\ Finished)

\* A checkpoint is sealed: the row to be saved, its cut, the row saved.
Ahead ==
    /\ Open(manifest) /\ Round(st) /\ st.base = manifest.base /\ st.version > manifest.version
    /\ Reached(st, base, events)
ToClone == Tables(K1, E1, C1) /\ Ahead /\ req = {}
Cloned  == Tables(K2, E2, C2) /\ Ahead /\ Forming(st.cut)
ToSave  == Tables(K4, E4, C4) /\ Ahead /\ req = {} /\ Holds(st)
ToTidy  == Tables(F6, E3, C3) /\ Holds(st) /\ Saved /\ Ops({"save"})
Running ==
    /\ Tables(F7, E5, C5) /\ Holds(st) /\ Saved
    /\ Ops({"attachEvents", "save", "dropCut", "rows", "events"})

\* What has disappeared is recorded, batch by batch, and deleted.
Sweeping ==
    /\ st = manifest /\ Holds(st) /\ st.phase = FINALIZING
    /\ \/ plan = E6 /\ Ops({"events", "delete"})
       \/ plan = E7 /\ todo = {} /\ del = {} /\ req = {}
    /\ todo \subseteq {n \in Names : src[n] = 0 /\ truth.tree[n] # 0} /\ del \subseteq todo
    /\ st.inc \/ todo = {}
    /\ RowsAhead = Swept(st, todo) /\ EventsAhead = Logged(st, Content(Swept(st, todo \ del)))

Execution ==
    \/ Idling \/ Closing \/ Closed \/ GivingUp \/ TakingUp
    \/ Prepared \/ Initialized \/ Captured \/ Abandoned \/ Rebased
    \/ ToClone \/ Cloned \/ ToSave \/ ToTidy \/ Running \/ Sweeping

IInv == Shape /\ Disk /\ Requests /\ Execution /\ refused \subseteq {"key"}
-----------------------------------------------------------------------------
(* The plans, and those that are made of others.                           *)

LEMMA FreshPlans ==
    /\ P0 # << >> /\ Head(P0) = "load" /\ Tail(P0) = << >>
    /\ F7 # << >> /\ Head(F7) = "walk" /\ Tail(F7) = << >>
    /\ F6 # << >> /\ Head(F6) = "tidy" /\ Tail(F6) = F7
    /\ F5 # << >> /\ Head(F5) = "start" /\ Tail(F5) = F6
    /\ F4 # << >> /\ Head(F4) = "rebase" /\ Tail(F4) = F5
    /\ F3 # << >> /\ Head(F3) = "abandon" /\ Tail(F3) = F4
    /\ F2 # << >> /\ Head(F2) = "clone" /\ Tail(F2) = F3
    /\ F1 # << >> /\ Head(F1) = "initialize" /\ Tail(F1) = F2
    /\ G0 # << >> /\ Head(G0) = "complete" /\ Tail(G0) = F1
  <1>1. P0 # << >> /\ Head(P0) = "load" /\ Tail(P0) = << >>
    BY DEF P0
  <1>2. F7 # << >> /\ Head(F7) = "walk" /\ Tail(F7) = << >>
    BY DEF F7
  <1>3. F6 # << >> /\ Head(F6) = "tidy" /\ Tail(F6) = F7
    BY DEF F6, F7
  <1>4. F5 # << >> /\ Head(F5) = "start" /\ Tail(F5) = F6
    BY DEF F5, F6
  <1>5. F4 # << >> /\ Head(F4) = "rebase" /\ Tail(F4) = F5
    BY DEF F4, F5
  <1>6. F3 # << >> /\ Head(F3) = "abandon" /\ Tail(F3) = F4
    BY DEF F3, F4
  <1>7. F2 # << >> /\ Head(F2) = "clone" /\ Tail(F2) = F3
    BY DEF F2, F3
  <1>8. F1 # << >> /\ Head(F1) = "initialize" /\ Tail(F1) = F2
    BY DEF F1, F2
  <1>9. G0 # << >> /\ Head(G0) = "complete" /\ Tail(G0) = F1
    BY DEF G0, F1
  <1> QED
    BY <1>1, <1>2, <1>3, <1>4, <1>5, <1>6, <1>7, <1>8, <1>9

LEMMA RestorePlans ==
    /\ G4 # << >> /\ Head(G4) = "attachEvents" /\ Tail(G4) = F1
    /\ G3 # << >> /\ Head(G3) = "dropEvents" /\ Tail(G3) = G4
    /\ G2 # << >> /\ Head(G2) = "attachRows" /\ Tail(G2) = G3
    /\ G1 # << >> /\ Head(G1) = "dropRows" /\ Tail(G1) = G2
    /\ W4 # << >> /\ Head(W4) = "attachEvents" /\ Tail(W4) = F7
    /\ W3 # << >> /\ Head(W3) = "dropEvents" /\ Tail(W3) = W4
    /\ W2 # << >> /\ Head(W2) = "attachRows" /\ Tail(W2) = W3
    /\ W1 # << >> /\ Head(W1) = "dropRows" /\ Tail(W1) = W2
    /\ R4 # << >> /\ Head(R4) = "attachEvents" /\ Tail(R4) = E5
    /\ R3 # << >> /\ Head(R3) = "dropEvents" /\ Tail(R3) = R4
    /\ R2 # << >> /\ Head(R2) = "attachRows" /\ Tail(R2) = R3
    /\ R1 # << >> /\ Head(R1) = "dropRows" /\ Tail(R1) = R2
  <1>1. G4 # << >> /\ Head(G4) = "attachEvents" /\ Tail(G4) = F1
    BY DEF G4, F1
  <1>2. G3 # << >> /\ Head(G3) = "dropEvents" /\ Tail(G3) = G4
    BY DEF G3, G4
  <1>3. G2 # << >> /\ Head(G2) = "attachRows" /\ Tail(G2) = G3
    BY DEF G2, G3
  <1>4. G1 # << >> /\ Head(G1) = "dropRows" /\ Tail(G1) = G2
    BY DEF G1, G2
  <1>5. W4 # << >> /\ Head(W4) = "attachEvents" /\ Tail(W4) = F7
    BY DEF W4, F7
  <1>6. W3 # << >> /\ Head(W3) = "dropEvents" /\ Tail(W3) = W4
    BY DEF W3, W4
  <1>7. W2 # << >> /\ Head(W2) = "attachRows" /\ Tail(W2) = W3
    BY DEF W2, W3
  <1>8. W1 # << >> /\ Head(W1) = "dropRows" /\ Tail(W1) = W2
    BY DEF W1, W2
  <1>9. R4 # << >> /\ Head(R4) = "attachEvents" /\ Tail(R4) = E5
    BY DEF R4, E5
  <1>10. R3 # << >> /\ Head(R3) = "dropEvents" /\ Tail(R3) = R4
    BY DEF R3, R4
  <1>11. R2 # << >> /\ Head(R2) = "attachRows" /\ Tail(R2) = R3
    BY DEF R2, R3
  <1>12. R1 # << >> /\ Head(R1) = "dropRows" /\ Tail(R1) = R2
    BY DEF R1, R2
  <1> QED
    BY <1>1, <1>2, <1>3, <1>4, <1>5, <1>6, <1>7, <1>8, <1>9, <1>10, <1>11, <1>12

LEMMA SealPlans ==
    /\ K1 # << >> /\ Head(K1) = "clone" /\ Tail(K1) = K2
    /\ K2 # << >> /\ Head(K2) = "save" /\ Tail(K2) = F6
    /\ K4 # << >> /\ Head(K4) = "save" /\ Tail(K4) = F7
    /\ E1 # << >> /\ Head(E1) = "clone" /\ Tail(E1) = E2
    /\ E2 # << >> /\ Head(E2) = "save" /\ Tail(E2) = E3
    /\ E3 # << >> /\ Head(E3) = "tidy" /\ Tail(E3) = E5
    /\ E4 # << >> /\ Head(E4) = "save" /\ Tail(E4) = E5
    /\ E5 # << >> /\ Head(E5) = "resolve" /\ Tail(E5) = E6
    /\ E6 # << >> /\ Head(E6) = "final" /\ Tail(E6) = E7
    /\ E7 # << >> /\ Head(E7) = "stats" /\ Tail(E7) = << >>
    /\ C1 # << >> /\ Head(C1) = "clone" /\ Tail(C1) = C2
    /\ C2 # << >> /\ Head(C2) = "save" /\ Tail(C2) = C3
    /\ C3 # << >> /\ Head(C3) = "tidy" /\ Tail(C3) = C5
    /\ C4 # << >> /\ Head(C4) = "save" /\ Tail(C4) = C5
    /\ C5 # << >> /\ Head(C5) = "commit" /\ Tail(C5) = C6
    /\ C6 # << >> /\ Head(C6) = "complete" /\ Tail(C6) = C7
    /\ C7 # << >> /\ Head(C7) = "tidy" /\ Tail(C7) = << >>
  <1>1. K1 # << >> /\ Head(K1) = "clone" /\ Tail(K1) = K2
    BY DEF K1, K2
  <1>2. K2 # << >> /\ Head(K2) = "save" /\ Tail(K2) = F6
    BY DEF K2, F6
  <1>3. K4 # << >> /\ Head(K4) = "save" /\ Tail(K4) = F7
    BY DEF K4, F7
  <1>4. E1 # << >> /\ Head(E1) = "clone" /\ Tail(E1) = E2
    BY DEF E1, E2
  <1>5. E2 # << >> /\ Head(E2) = "save" /\ Tail(E2) = E3
    BY DEF E2, E3
  <1>6. E3 # << >> /\ Head(E3) = "tidy" /\ Tail(E3) = E5
    BY DEF E3, E5
  <1>7. E4 # << >> /\ Head(E4) = "save" /\ Tail(E4) = E5
    BY DEF E4, E5
  <1>8. E5 # << >> /\ Head(E5) = "resolve" /\ Tail(E5) = E6
    BY DEF E5, E6
  <1>9. E6 # << >> /\ Head(E6) = "final" /\ Tail(E6) = E7
    BY DEF E6, E7
  <1>10. E7 # << >> /\ Head(E7) = "stats" /\ Tail(E7) = << >>
    BY DEF E7
  <1>11. C1 # << >> /\ Head(C1) = "clone" /\ Tail(C1) = C2
    BY DEF C1, C2
  <1>12. C2 # << >> /\ Head(C2) = "save" /\ Tail(C2) = C3
    BY DEF C2, C3
  <1>13. C3 # << >> /\ Head(C3) = "tidy" /\ Tail(C3) = C5
    BY DEF C3, C5
  <1>14. C4 # << >> /\ Head(C4) = "save" /\ Tail(C4) = C5
    BY DEF C4, C5
  <1>15. C5 # << >> /\ Head(C5) = "commit" /\ Tail(C5) = C6
    BY DEF C5, C6
  <1>16. C6 # << >> /\ Head(C6) = "complete" /\ Tail(C6) = C7
    BY DEF C6, C7
  <1>17. C7 # << >> /\ Head(C7) = "tidy" /\ Tail(C7) = << >>
    BY DEF C7
  <1> QED
    BY <1>1, <1>2, <1>3, <1>4, <1>5, <1>6, <1>7, <1>8, <1>9, <1>10, <1>11, <1>12, <1>13, <1>14, <1>15, <1>16, <1>17


\* Concatenation, of plans that are not empty.
LEMMA Joined ==
    ASSUME NEW S, NEW p \in Seq(S), NEW q \in Seq(S), NEW r \in Seq(S),
           Len(r) = Len(p) + Len(q),
           \A i \in 1..Len(p) : r[i] = p[i],
           \A i \in 1..Len(q) : r[Len(p) + i] = q[i]
    PROVE  p \o q = r
  <1>1. /\ p \o q \in Seq(S) /\ Len(p \o q) = Len(p) + Len(q)
        /\ \A i \in 1..Len(p) + Len(q) : (p \o q)[i] = IF i <= Len(p) THEN p[i] ELSE q[i - Len(p)]
    BY ConcatProperties
  <1>2. \A i \in 1..Len(r) : (p \o q)[i] = r[i]
    <2> SUFFICES ASSUME NEW i \in 1..Len(r) PROVE (p \o q)[i] = r[i]
      OBVIOUS
    <2>1. Len(p) \in Nat /\ Len(q) \in Nat /\ i \in Nat
      OBVIOUS
    <2>2. CASE i <= Len(p)
      BY <1>1, <2>1, <2>2
    <2>3. CASE ~(i <= Len(p))
      <3>1. i - Len(p) \in 1..Len(q) /\ Len(p) + (i - Len(p)) = i
        BY <2>1, <2>3
      <3> QED
        BY <1>1, <2>1, <2>3, <3>1
    <2> QED
      BY <2>2, <2>3
  <1> QED
    BY <1>1, <1>2, SeqEqual

Steps ==
    {"load", "complete", "initialize", "clone", "abandon", "rebase", "start", "tidy", "walk", "save", "commit",
     "dropRows", "attachRows", "dropEvents", "attachEvents", "resolve", "final", "stats"}

LEMMA Composed ==
    /\ Fresh = F1
    /\ <<"complete">> \o Fresh = G0
    /\ Restore \o Fresh = G1
    /\ Restore \o <<"walk">> = W1
    /\ Restore \o F7 = W1
    /\ Restore \o Finish = R1
    /\ <<"clone", "save", "tidy">> \o F7 = K1
    /\ <<"save">> \o F7 = K4
    /\ <<"clone", "save", "tidy">> \o Finish = E1
    /\ <<"save">> \o Finish = E4
    /\ <<"clone", "save", "tidy">> \o <<"commit", "complete", "tidy">> = C1
    /\ <<"save">> \o <<"commit", "complete", "tidy">> = C4
  <1>1. Fresh = F1 /\ F7 = <<"walk">>
    BY DEF Fresh, F1, F7
  <1>2. <<"complete">> \o Fresh = G0
    <2>1. <<"complete">> \in Seq(Steps) /\ Fresh \in Seq(Steps) /\ G0 \in Seq(Steps)
      BY DEF Steps, Fresh, G0
    <2>2. Len(G0) = Len(<<"complete">>) + Len(Fresh)
      BY DEF Fresh, G0
    <2>3. \A i \in 1..Len(<<"complete">>) : G0[i] = <<"complete">>[i]
      BY DEF Fresh, G0
    <2>4. \A i \in 1..Len(Fresh) : G0[Len(<<"complete">>) + i] = Fresh[i]
      BY DEF Fresh, G0
    <2> QED
      BY <2>1, <2>2, <2>3, <2>4, Joined
  <1>3. Restore \o Fresh = G1
    <2>1. Restore \in Seq(Steps) /\ Fresh \in Seq(Steps) /\ G1 \in Seq(Steps)
      BY DEF Steps, Restore, Fresh, G1
    <2>2. Len(G1) = Len(Restore) + Len(Fresh)
      BY DEF Restore, Fresh, G1
    <2>3. \A i \in 1..Len(Restore) : G1[i] = Restore[i]
      BY DEF Restore, Fresh, G1
    <2>4. \A i \in 1..Len(Fresh) : G1[Len(Restore) + i] = Fresh[i]
      BY DEF Restore, Fresh, G1
    <2> QED
      BY <2>1, <2>2, <2>3, <2>4, Joined
  <1>4. Restore \o <<"walk">> = W1
    <2>1. Restore \in Seq(Steps) /\ <<"walk">> \in Seq(Steps) /\ W1 \in Seq(Steps)
      BY DEF Steps, Restore, W1
    <2>2. Len(W1) = Len(Restore) + Len(<<"walk">>)
      BY DEF Restore, W1
    <2>3. \A i \in 1..Len(Restore) : W1[i] = Restore[i]
      BY DEF Restore, W1
    <2>4. \A i \in 1..Len(<<"walk">>) : W1[Len(Restore) + i] = <<"walk">>[i]
      BY DEF Restore, W1
    <2> QED
      BY <2>1, <2>2, <2>3, <2>4, Joined
  <1>5. Restore \o Finish = R1
    <2>1. Restore \in Seq(Steps) /\ Finish \in Seq(Steps) /\ R1 \in Seq(Steps)
      BY DEF Steps, Restore, Finish, R1
    <2>2. Len(R1) = Len(Restore) + Len(Finish)
      BY DEF Restore, Finish, R1
    <2>3. \A i \in 1..Len(Restore) : R1[i] = Restore[i]
      BY DEF Restore, Finish, R1
    <2>4. \A i \in 1..Len(Finish) : R1[Len(Restore) + i] = Finish[i]
      BY DEF Restore, Finish, R1
    <2> QED
      BY <2>1, <2>2, <2>3, <2>4, Joined
  <1>6. <<"clone", "save", "tidy">> \o F7 = K1
    <2>1. <<"clone", "save", "tidy">> \in Seq(Steps) /\ F7 \in Seq(Steps) /\ K1 \in Seq(Steps)
      BY DEF Steps, F7, K1
    <2>2. Len(K1) = Len(<<"clone", "save", "tidy">>) + Len(F7)
      BY DEF F7, K1
    <2>3. \A i \in 1..Len(<<"clone", "save", "tidy">>) : K1[i] = <<"clone", "save", "tidy">>[i]
      BY DEF F7, K1
    <2>4. \A i \in 1..Len(F7) : K1[Len(<<"clone", "save", "tidy">>) + i] = F7[i]
      BY DEF F7, K1
    <2> QED
      BY <2>1, <2>2, <2>3, <2>4, Joined
  <1>7. <<"save">> \o F7 = K4
    <2>1. <<"save">> \in Seq(Steps) /\ F7 \in Seq(Steps) /\ K4 \in Seq(Steps)
      BY DEF Steps, F7, K4
    <2>2. Len(K4) = Len(<<"save">>) + Len(F7)
      BY DEF F7, K4
    <2>3. \A i \in 1..Len(<<"save">>) : K4[i] = <<"save">>[i]
      BY DEF F7, K4
    <2>4. \A i \in 1..Len(F7) : K4[Len(<<"save">>) + i] = F7[i]
      BY DEF F7, K4
    <2> QED
      BY <2>1, <2>2, <2>3, <2>4, Joined
  <1>8. <<"clone", "save", "tidy">> \o Finish = E1
    <2>1. <<"clone", "save", "tidy">> \in Seq(Steps) /\ Finish \in Seq(Steps) /\ E1 \in Seq(Steps)
      BY DEF Steps, Finish, E1
    <2>2. Len(E1) = Len(<<"clone", "save", "tidy">>) + Len(Finish)
      BY DEF Finish, E1
    <2>3. \A i \in 1..Len(<<"clone", "save", "tidy">>) : E1[i] = <<"clone", "save", "tidy">>[i]
      BY DEF Finish, E1
    <2>4. \A i \in 1..Len(Finish) : E1[Len(<<"clone", "save", "tidy">>) + i] = Finish[i]
      BY DEF Finish, E1
    <2> QED
      BY <2>1, <2>2, <2>3, <2>4, Joined
  <1>9. <<"save">> \o Finish = E4
    <2>1. <<"save">> \in Seq(Steps) /\ Finish \in Seq(Steps) /\ E4 \in Seq(Steps)
      BY DEF Steps, Finish, E4
    <2>2. Len(E4) = Len(<<"save">>) + Len(Finish)
      BY DEF Finish, E4
    <2>3. \A i \in 1..Len(<<"save">>) : E4[i] = <<"save">>[i]
      BY DEF Finish, E4
    <2>4. \A i \in 1..Len(Finish) : E4[Len(<<"save">>) + i] = Finish[i]
      BY DEF Finish, E4
    <2> QED
      BY <2>1, <2>2, <2>3, <2>4, Joined
  <1>10. <<"clone", "save", "tidy">> \o <<"commit", "complete", "tidy">> = C1
    <2>1. <<"clone", "save", "tidy">> \in Seq(Steps) /\ <<"commit", "complete", "tidy">> \in Seq(Steps) /\ C1 \in Seq(Steps)
      BY DEF Steps, C1
    <2>2. Len(C1) = Len(<<"clone", "save", "tidy">>) + Len(<<"commit", "complete", "tidy">>)
      BY DEF C1
    <2>3. \A i \in 1..Len(<<"clone", "save", "tidy">>) : C1[i] = <<"clone", "save", "tidy">>[i]
      BY DEF C1
    <2>4. \A i \in 1..Len(<<"commit", "complete", "tidy">>) : C1[Len(<<"clone", "save", "tidy">>) + i] = <<"commit", "complete", "tidy">>[i]
      BY DEF C1
    <2> QED
      BY <2>1, <2>2, <2>3, <2>4, Joined
  <1>11. <<"save">> \o <<"commit", "complete", "tidy">> = C4
    <2>1. <<"save">> \in Seq(Steps) /\ <<"commit", "complete", "tidy">> \in Seq(Steps) /\ C4 \in Seq(Steps)
      BY DEF Steps, C4
    <2>2. Len(C4) = Len(<<"save">>) + Len(<<"commit", "complete", "tidy">>)
      BY DEF C4
    <2>3. \A i \in 1..Len(<<"save">>) : C4[i] = <<"save">>[i]
      BY DEF C4
    <2>4. \A i \in 1..Len(<<"commit", "complete", "tidy">>) : C4[Len(<<"save">>) + i] = <<"commit", "complete", "tidy">>[i]
      BY DEF C4
    <2> QED
      BY <2>1, <2>2, <2>3, <2>4, Joined
  <1> QED
    BY <1>1, <1>2, <1>3, <1>4, <1>5, <1>6, <1>7, <1>8, <1>9, <1>10, <1>11

-----------------------------------------------------------------------------
(* Which step of which plan is the next.                                   *)

LEMMA TablesOf ==
    ASSUME NEW w, NEW e, NEW c, Tables(w, e, c)
    PROVE  plan = w \/ plan = e \/ plan = c
  BY DEF Tables

LEMMA Whereabouts ==
    ASSUME Execution, plan # << >>
    PROVE  /\ Head(plan) = "load" => plan = P0
           /\ Head(plan) = "complete" => Closing
           /\ Head(plan) = "tidy" => Closed \/ ToTidy
           /\ Head(plan) = "initialize" => Prepared
           /\ Head(plan) = "clone" => Initialized \/ ToClone
           /\ Head(plan) = "abandon" => Captured
           /\ Head(plan) = "rebase" => Abandoned
           /\ Head(plan) = "start" => Rebased
           /\ Head(plan) = "save" => Cloned \/ ToSave
           /\ Head(plan) = "walk" => Running /\ plan = F7
           /\ Head(plan) = "resolve" => Running /\ plan = E5
           /\ Head(plan) = "commit" => Running /\ plan = C5
           /\ Head(plan) = "final" => Sweeping /\ plan = E6
           /\ Head(plan) = "stats" => Sweeping /\ plan = E7
           /\ Head(plan) \in {"dropRows", "attachRows", "dropEvents", "attachEvents"} => GivingUp \/ TakingUp
  <1>1. CASE Idling
    <2>1. plan = P0 /\ Head(plan) = "load"
      BY <1>1, FreshPlans DEF Idling
    <2> QED
      BY <2>1
  <1>2. CASE Closing
    <2>1. Head(plan) = "complete"
      BY <1>2, FreshPlans, SealPlans DEF Closing
    <2> QED
      BY <1>2, <2>1
  <1>3. CASE Closed
    <2>1. Head(plan) = "tidy"
      BY <1>3, SealPlans DEF Closed
    <2> QED
      BY <1>3, <2>1
  <1>4. CASE GivingUp \/ TakingUp
    <2>1. Head(plan) \in {"dropRows", "attachRows", "dropEvents", "attachEvents"}
      BY <1>4 DEF GivingUp, TakingUp, Restoring
    <2> QED
      BY <1>4, <2>1
  <1>5. CASE Prepared
    <2>1. Head(plan) = "initialize"
      BY <1>5, FreshPlans DEF Prepared
    <2> QED
      BY <1>5, <2>1
  <1>6. CASE Initialized \/ ToClone
    <2>1. Head(plan) = "clone"
      <3>1. plan = F2 \/ plan = K1 \/ plan = E1 \/ plan = C1
        BY <1>6, TablesOf DEF Initialized, ToClone
      <3>2. plan = F2 => Head(plan) = "clone"
        BY FreshPlans
      <3>3. plan = K1 => Head(plan) = "clone"
        BY SealPlans
      <3>4. plan = E1 => Head(plan) = "clone"
        BY SealPlans
      <3>5. plan = C1 => Head(plan) = "clone"
        BY SealPlans
      <3> QED
        BY <3>1, <3>2, <3>3, <3>4, <3>5
    <2> QED
      BY <1>6, <2>1
  <1>7. CASE Captured
    <2>1. Head(plan) = "abandon"
      BY <1>7, FreshPlans DEF Captured
    <2> QED
      BY <1>7, <2>1
  <1>8. CASE Abandoned
    <2>1. Head(plan) = "rebase"
      BY <1>8, FreshPlans DEF Abandoned
    <2> QED
      BY <1>8, <2>1
  <1>9. CASE Rebased
    <2>1. Head(plan) = "start"
      BY <1>9, FreshPlans DEF Rebased
    <2> QED
      BY <1>9, <2>1
  <1>10. CASE Cloned \/ ToSave
    <2>1. Head(plan) = "save"
      <3>1. plan = K2 \/ plan = E2 \/ plan = C2 \/ plan = K4 \/ plan = E4 \/ plan = C4
        BY <1>10, TablesOf DEF Cloned, ToSave
      <3>2. plan = K2 => Head(plan) = "save"
        BY SealPlans
      <3>3. plan = E2 => Head(plan) = "save"
        BY SealPlans
      <3>4. plan = C2 => Head(plan) = "save"
        BY SealPlans
      <3>5. plan = K4 => Head(plan) = "save"
        BY SealPlans
      <3>6. plan = E4 => Head(plan) = "save"
        BY SealPlans
      <3>7. plan = C4 => Head(plan) = "save"
        BY SealPlans
      <3> QED
        BY <3>1, <3>2, <3>3, <3>4, <3>5, <3>6, <3>7
    <2> QED
      BY <1>10, <2>1
  <1>11. CASE ToTidy
    <2>1. Head(plan) = "tidy"
      BY <1>11, FreshPlans, SealPlans DEF ToTidy, Tables
    <2> QED
      BY <1>11, <2>1
  <1>12. CASE Running
    <2>1. \/ plan = F7 /\ Head(plan) = "walk"
          \/ plan = E5 /\ Head(plan) = "resolve"
          \/ plan = C5 /\ Head(plan) = "commit"
      <3>1. plan = F7 \/ plan = E5 \/ plan = C5
        BY <1>12, TablesOf DEF Running
      <3>2. plan = F7 => Head(plan) = "walk"
        BY FreshPlans
      <3>3. plan = E5 => Head(plan) = "resolve"
        BY SealPlans
      <3>4. plan = C5 => Head(plan) = "commit"
        BY SealPlans
      <3> QED
        BY <3>1, <3>2, <3>3, <3>4
    <2> QED
      BY <1>12, <2>1
  <1>13. CASE Sweeping
    <2>1. \/ plan = E6 /\ Head(plan) = "final"
          \/ plan = E7 /\ Head(plan) = "stats"
      BY <1>13, SealPlans DEF Sweeping
    <2> QED
      BY <1>13, <2>1
  <1> QED
    BY <1>1, <1>2, <1>3, <1>4, <1>5, <1>6, <1>7, <1>8, <1>9, <1>10, <1>11, <1>12, <1>13 DEF Execution

-----------------------------------------------------------------------------
(* What is ahead.                                                          *)

LEMMA NothingAhead ==
    /\ req = {} => RowsAhead = base /\ EventsAhead = events
    /\ req' = {} => RowsAhead' = base' /\ EventsAhead' = events'
  BY DEF RowsAhead, EventsAhead

LEMMA OneAhead ==
    ASSUME NEW s
    PROVE  /\ req = {s} => RowsAhead = Rows(s) /\ EventsAhead = Events(s)
           /\ req' = {s} => RowsAhead' = Rows(s)' /\ EventsAhead' = Events(s)'
  <1>1. (CHOOSE x \in {s} : TRUE) = s
    OBVIOUS
  <1> QED
    BY <1>1 DEF RowsAhead, EventsAhead

\* Statements that leave the tables alone.
Apart == {"save", "state", "cloneRows", "cloneEvents", "dropCut"}

LEMMA TablesApart ==
    ASSUME NEW s, s.op \in Apart
    PROVE  Rows(s) = base /\ Events(s) = events /\ Rows(s)' = base' /\ Events(s)' = events'
  BY DEF Rows, Events, Apart

LEMMA ApartAhead ==
    /\ Ops(Apart) => RowsAhead = base /\ EventsAhead = events
    /\ Ops(Apart)' => RowsAhead' = base' /\ EventsAhead' = events'
  <1>1. ASSUME Ops(Apart), req # {} PROVE RowsAhead = base /\ EventsAhead = events
    <2>1. (CHOOSE x \in req : TRUE) \in req
      BY <1>1
    <2> PICK s : s = (CHOOSE x \in req : TRUE)
      OBVIOUS
    <2>2. s.op \in Apart
      BY <1>1, <2>1 DEF Ops
    <2> QED
      BY <1>1, <2>2, TablesApart DEF RowsAhead, EventsAhead
  <1>2. ASSUME Ops(Apart)', req' # {} PROVE RowsAhead' = base' /\ EventsAhead' = events'
    <2>1. (CHOOSE x \in req' : TRUE) \in req'
      BY <1>2
    <2> PICK s : s = (CHOOSE x \in req' : TRUE)
      OBVIOUS
    <2>2. s.op \in Apart
      BY <1>2, <2>1 DEF Ops
    <2>3. Rows(s)' = base' /\ Events(s)' = events'
      BY <2>2, TablesApart
    <2> QED
      BY <1>2, <2>3 DEF RowsAhead, EventsAhead
  <1> QED
    BY <1>1, <1>2, NothingAhead

-----------------------------------------------------------------------------
(* What stays.                                                             *)

\* What the committed result, the source and the cuts determine.
LEMMA Determined ==
    ASSUME UNCHANGED <<scanState, truth, src, cuts>>
    PROVE  /\ TruthRows' = TruthRows
           /\ \A m, k : Seen(m, k)' = Seen(m, k)
           /\ \A m, D : Swept(m, D)' = Swept(m, D)
           /\ \A m : Final(m)' = Final(m)
           /\ \A m, tree : Logged(m, tree)' = Logged(m, tree)
           /\ \A m, rows, log : Reached(m, rows, log)' = Reached(m, rows, log)
           /\ \A t, rows, log : CutIs(t, rows, log)' = CutIs(t, rows, log)
           /\ \A t : CutExists(t)' = CutExists(t)
           /\ \A m : Round(m)' = Round(m)
           /\ \A m : Holds(m)' = Holds(m)
           /\ \A m : Open(m)' = Open(m)
  <1>1. TruthRows' = TruthRows
    BY DEF TruthRows
  <1>2. \A m, k : Seen(m, k)' = Seen(m, k)
    BY <1>1 DEF Seen
  <1>3. \A m, D : Swept(m, D)' = Swept(m, D)
    BY <1>1 DEF Swept
  <1>4. \A m : Final(m)' = Final(m)
    BY DEF Final
  <1>5. \A m, tree : Logged(m, tree)' = Logged(m, tree)
    BY DEF Logged
  <1>6. \A m, rows, log : Reached(m, rows, log)' = Reached(m, rows, log)
    BY <1>2, <1>4, <1>5 DEF Reached
  <1>7. \A t, rows, log : CutIs(t, rows, log)' = CutIs(t, rows, log)
    BY DEF CutIs
  <1>8. \A t : CutExists(t)' = CutExists(t)
    BY DEF CutExists
  <1>9. \A m : Round(m)' = Round(m)
    BY <1>1, <1>7 DEF Round
  <1>10. \A m : Holds(m)' = Holds(m)
    BY <1>6, <1>8, <1>9 DEF Holds
  <1>11. \A m : Open(m)' = Open(m)
    BY DEF Open
  <1> QED
    BY <1>1, <1>2, <1>3, <1>4, <1>5, <1>6, <1>7, <1>8, <1>9, <1>10, <1>11

LEMMA DiskStays ==
    ASSUME Disk, UNCHANGED <<db, src>>
    PROVE  Disk'
  <1>1. UNCHANGED <<base, events, scanState, manifest, cuts, truth>>
    BY DEF db
  <1>2. Open(manifest)' = Open(manifest) /\ Holds(manifest)' = Holds(manifest) /\ TruthRows' = TruthRows
    BY <1>1, Determined
  <1> QED
    BY <1>1, <1>2 DEF Disk, Restored, Active

LEMMA SoundStays ==
    ASSUME UNCHANGED <<db, src>>, NEW s, Sound(s)
    PROVE  Sound(s)'
  <1>1. UNCHANGED <<base, events, scanState, manifest, cuts, truth>>
    BY DEF db
  <1>2. /\ Open(manifest)' = Open(manifest) /\ Restored' = Restored
        /\ Final(manifest)' = Final(manifest) /\ Logged(manifest, src)' = Logged(manifest, src)
        /\ Holds(s.row)' = Holds(s.row)
    BY <1>1, Determined DEF Restored
  <1> QED
    BY <1>1, <1>2 DEF Sound

\* Requests that wait, are lost or have landed, and new ones.
LEMMA RequestsStay ==
    ASSUME Requests, UNCHANGED <<db, src>>, req' \subseteq req
    PROVE  Requests'
  <1>1. \A s \in req' : Sound(s)'
    BY SoundStays DEF Requests
  <1> QED
    BY <1>1 DEF Requests

LEMMA NoRequest ==
    ASSUME req' = {}
    PROVE  Requests'
  BY DEF Requests

LEMMA OneRequest ==
    ASSUME NEW s, req' = {s}, Sound(s)'
    PROVE  Requests'
  BY DEF Requests

LEMMA CutRequests ==
    ASSUME \A s \in req' : s.op \in CutOps /\ Sound(s)'
    PROVE  Requests'
  BY DEF Requests

\* Steps of the execution that change no row.
LEMMA ShapeStays ==
    ASSUME Shape, UNCHANGED <<db, st, walk, src, mode>>
    PROVE  Shape'
  BY DEF Shape, IsRow, db

LEMMA StoredStays ==
    ASSUME IInv, UNCHANGED <<db, src, refused>>
    PROVE  Disk' /\ (req' \subseteq req => Requests') /\ refused' \subseteq {"key"}
  BY DiskStays, RequestsStay DEF IInv

-----------------------------------------------------------------------------
(* Steps outside any plan.                                                 *)

LEMMA LaunchSafe ==
    ASSUME IInv, NEW r \in BOOLEAN, Launch(r)
    PROVE  IInv'
  <1>1. UNCHANGED <<db, st, walk, src, refused, req>> /\ plan' = P0 /\ mode' = r
    BY DEF Launch, env, P0
  <1>2. Shape'
    BY <1>1 DEF IInv, Shape, IsRow, db
  <1>3. Execution'
    BY <1>1 DEF Execution, Idling
  <1> QED
    BY <1>1, <1>2, <1>3, StoredStays DEF IInv

LEMMA StopSafe ==
    ASSUME IInv, Stop
    PROVE  IInv'
  <1>1. UNCHANGED <<db, src, refused>> /\ plan' = << >> /\ req' \subseteq req
        /\ mode' = FALSE /\ st' = NoState /\ walk' = Idle
    BY DEF Stop
  <1>2. Shape'
    <2>1. IsRow(st)'
      BY <1>1 DEF IsRow, NoState, COMPLETED
    <2>2. (walk = [seen |-> walk.seen, sent |-> walk.sent, written |-> walk.written, batch |-> walk.batch,
                   matches |-> walk.matches])'
      BY <1>1 DEF Idle
    <2>3. mode' \in BOOLEAN
      BY <1>1
    <2>4. IsRow(manifest)'
      BY <1>1 DEF IInv, Shape, db, IsRow
    <2> QED
      BY <1>1, <2>1, <2>2, <2>3, <2>4 DEF IInv, Shape, db
  <1>3. Execution'
    BY <1>1 DEF Execution, Idling
  <1> QED
    BY <1>1, <1>2, <1>3, StoredStays DEF IInv

-----------------------------------------------------------------------------
(* A round is loaded.                                                      *)

\* The next plan begins with nothing on its way, and the tables as they are.
LEMMA LoadSafe ==
    ASSUME IInv, Load
    PROVE  IInv'
  <1>1. /\ plan = P0 /\ req = {} /\ req' = {} /\ st' = manifest
        /\ UNCHANGED <<db, mode, src, base, events, scanState, manifest, cuts, truth>>
    BY Whereabouts DEF Load, At, IInv, Refuse, Resume, Discard, env, db
  <1>2. Disk' /\ Requests'
    BY <1>1, DiskStays, NoRequest DEF IInv
  <1>3. /\ RowsAhead' = base /\ EventsAhead' = events /\ Ops({})'
        /\ Open(manifest)' = Open(manifest) /\ TruthRows' = TruthRows
    BY <1>1, NothingAhead, Determined DEF Ops
  <1>4. Open(manifest) => CutExists(manifest.cut) /\ CutExists(manifest.base)
    BY DEF IInv, Disk, Holds, Round, CutIs, CutExists
  <1>5. Active(manifest) /\ ~Open(manifest) => manifest.phase = FINALIZING
    BY DEF IInv, Disk
  <1>6. Open(manifest) <=> Active(manifest) /\ ~Committed
    BY DEF Open, Committed
  <1>7. CASE ~Active(manifest)
    <2>1. plan' = F1 /\ UNCHANGED <<walk, refused>>
      BY <1>7, Composed DEF Load, env
    <2>2. Restored
      BY <1>6, <1>7 DEF IInv, Disk
    <2>3. Prepared'
      BY <1>1, <1>3, <2>1, <2>2 DEF Prepared, Restored, Ops
    <2>4. Shape'
      BY <1>1, <2>1 DEF IInv, Shape, IsRow
    <2> QED
      BY <1>2, <2>1, <2>3, <2>4 DEF IInv, Execution
  <1>8. CASE Active(manifest) /\ mode
    <2>1. CASE manifest.key # mode
      <3>1. plan' = << >> /\ refused' = refused \cup {"key"} /\ walk' = walk
        <4>1. Resume
          BY <1>8 DEF Load
        <4>2. Refuse("key")
          BY <1>4, <1>5, <1>6, <1>8, <2>1, <4>1 DEF Resume
        <4> QED
          BY <4>2 DEF Refuse
      <3>2. Shape'
        BY <1>1, <3>1 DEF IInv, Shape, IsRow
      <3> QED
        BY <1>2, <3>1, <3>2 DEF IInv, Execution, Idling
    <2>2. CASE manifest.key = mode /\ Committed
      <3>1. plan' = C6 /\ refused' = refused /\ walk' = From(manifest.at)
        BY <1>5, <1>6, <1>8, <2>2 DEF Load, Resume, env, C6
      <3>2. Shape'
        BY <1>1, <3>1 DEF IInv, Shape, IsRow, From
      <3>3. Closing'
        BY <1>1, <1>3, <1>6, <1>8, <2>2, <3>1 DEF Closing, Ops, Open, Active
      <3> QED
        BY <1>2, <3>1, <3>2, <3>3 DEF IInv, Execution
    <2>3. CASE manifest.key = mode /\ ~Committed
      <3>1. /\ plan' = Restore \o IF manifest.phase = RUNNING THEN <<"walk">> ELSE Finish
            /\ refused' = refused /\ walk' = From(manifest.at)
        BY <1>4, <1>6, <1>8, <2>3 DEF Load, Resume, env
      <3>2. /\ manifest.phase = RUNNING => plan' = W1
            /\ manifest.phase # RUNNING => plan' = R1 /\ manifest.phase = FINALIZING
        BY <1>8, <3>1, Composed DEF Active, RUNNING, FINALIZING
      <3>3. Shape'
        BY <1>1, <3>1 DEF IInv, Shape, IsRow, From
      <3>4. Head(plan') = "dropRows"
        BY <3>2, RestorePlans
      <3>5. Restoring(st.cut)'
        BY <1>1, <3>4 DEF Restoring
      <3>6. walk' = [From(manifest.at) EXCEPT !.matches = walk'.matches]
        BY <3>1 DEF From
      <3>7. TakingUp'
        BY <1>1, <1>3, <1>6, <1>8, <2>3, <3>2, <3>5, <3>6 DEF TakingUp, Open, Active, From
      <3> QED
        BY <1>2, <3>1, <3>3, <3>7 DEF IInv, Execution
    <2> QED
      BY <2>1, <2>2, <2>3
  <1>9. CASE Active(manifest) /\ ~mode
    <2>1. Shape' /\ refused' \subseteq {"key"} /\ walk' = walk
      <3>1. refused' = refused /\ walk' = walk
        BY <1>4, <1>5, <1>6, <1>9 DEF Load, Discard, env
      <3> QED
        BY <1>1, <3>1 DEF IInv, Shape, IsRow
    <2>2. CASE Committed
      <3>1. plan' = G0
        BY <1>5, <1>6, <1>9, <2>2, Composed DEF Load, Discard
      <3>2. Closing'
        BY <1>1, <1>3, <1>6, <1>9, <2>2, <3>1 DEF Closing, Ops, Open, Active
      <3> QED
        BY <1>2, <2>1, <3>2 DEF IInv, Execution
    <2>3. CASE ~Committed
      <3>1. plan' = G1
        BY <1>4, <1>6, <1>9, <2>3, Composed DEF Load, Discard
      <3>2. Restoring(st.base)'
        BY <1>1, <3>1, RestorePlans DEF Restoring
      <3>3. GivingUp'
        BY <1>1, <1>3, <1>6, <1>9, <2>3, <3>1, <3>2 DEF GivingUp, Open, Active
      <3> QED
        BY <1>2, <2>1, <3>3 DEF IInv, Execution
    <2> QED
      BY <2>2, <2>3
  <1> QED
    BY <1>7, <1>8, <1>9

\* The cut that is restored.
LEMMA SourceOf ==
    /\ plan \in {G1, G2, G3, G4} => Source(plan) = st.base
    /\ plan \in {W1, W2, W3, W4, R1, R2, R3, R4} => Source(plan) = st.cut
  <1>1. ASSUME NEW p \in {G1, G2, G3, G4} PROVE "initialize" \in {p[i] : i \in 1..Len(p)}
    <2>1. "initialize" \in {G1[i] : i \in 1..Len(G1)}
      BY DEF G1
    <2>2. "initialize" \in {G2[i] : i \in 1..Len(G2)}
      BY DEF G2
    <2>3. "initialize" \in {G3[i] : i \in 1..Len(G3)}
      BY DEF G3
    <2>4. "initialize" \in {G4[i] : i \in 1..Len(G4)}
      BY DEF G4
    <2> QED
      BY <2>1, <2>2, <2>3, <2>4
  <1>2. ASSUME NEW p \in {W1, W2, W3, W4} PROVE "initialize" \notin {p[i] : i \in 1..Len(p)}
    <2>1. "initialize" \notin {W1[i] : i \in 1..Len(W1)}
      BY DEF W1
    <2>2. "initialize" \notin {W2[i] : i \in 1..Len(W2)}
      BY DEF W2
    <2>3. "initialize" \notin {W3[i] : i \in 1..Len(W3)}
      BY DEF W3
    <2>4. "initialize" \notin {W4[i] : i \in 1..Len(W4)}
      BY DEF W4
    <2> QED
      BY <2>1, <2>2, <2>3, <2>4
  <1>3. ASSUME NEW p \in {R1, R2, R3, R4} PROVE "initialize" \notin {p[i] : i \in 1..Len(p)}
    <2>1. "initialize" \notin {R1[i] : i \in 1..Len(R1)}
      BY DEF R1
    <2>2. "initialize" \notin {R2[i] : i \in 1..Len(R2)}
      BY DEF R2
    <2>3. "initialize" \notin {R3[i] : i \in 1..Len(R3)}
      BY DEF R3
    <2>4. "initialize" \notin {R4[i] : i \in 1..Len(R4)}
      BY DEF R4
    <2> QED
      BY <2>1, <2>2, <2>3, <2>4
  <1>4. plan \in {G1, G2, G3, G4} => "initialize" \in {plan[i] : i \in 1..Len(plan)}
    BY <1>1
  <1>5. plan \in {W1, W2, W3, W4, R1, R2, R3, R4} => "initialize" \notin {plan[i] : i \in 1..Len(plan)}
    BY <1>2, <1>3
  <1> QED
    BY <1>4, <1>5 DEF Source

\* A cut of a round holds rows of all paths.
LEMMA CutRows ==
    ASSUME NEW m, Holds(m)
    PROVE  /\ cuts[m.base].rows = TruthRows /\ cuts[m.base].events = truth.events
           /\ \A t \in {m.base, m.cut} : cuts[t].rows = [n \in Names |-> cuts[t].rows[n]]
           /\ m.phase = RUNNING => /\ cuts[m.cut].rows = Seen(m, m.at)
                                   /\ cuts[m.cut].events = Logged(m, Content(Seen(m, m.at)))
           /\ Reached(m, cuts[m.cut].rows, cuts[m.cut].events)
  <1>1. cuts[m.base].rows = TruthRows /\ cuts[m.base].events = truth.events
    BY DEF Holds, Round, CutIs
  <1>2. Reached(m, cuts[m.cut].rows, cuts[m.cut].events)
    BY DEF Holds
  <1>3. m.phase = RUNNING => /\ cuts[m.cut].rows = Seen(m, m.at)
                            /\ cuts[m.cut].events = Logged(m, Content(Seen(m, m.at)))
    BY <1>2 DEF Reached, RUNNING, FINALIZING
  <1>4. cuts[m.base].rows = [n \in Names |-> cuts[m.base].rows[n]]
    BY <1>1 DEF TruthRows
  <1>5. cuts[m.cut].rows = [n \in Names |-> cuts[m.cut].rows[n]]
    BY <1>2 DEF Reached, Seen, Final
  <1> QED
    BY <1>1, <1>2, <1>3, <1>4, <1>5

\* The tables are replaced step by step.
LEMMA RestoreSafe ==
    ASSUME IInv, NEW s \in {"dropRows", "attachRows", "dropEvents", "attachEvents"}, RestoreStep(s)
    PROVE  IInv'
  <1>1. /\ Head(plan) = s /\ plan # << >> /\ req = {} /\ plan' = Tail(plan)
        /\ UNCHANGED <<db, st, walk, src, mode, refused, base, events, scanState, manifest, cuts, truth>>
    BY DEF RestoreStep, At, Follow, db, memory, env
  <1>2. GivingUp \/ TakingUp
    BY <1>1, Whereabouts DEF IInv
  <1> PICK t : t = Source(plan)
    OBVIOUS
  <1>3. req' = {[op |-> s, tok |-> t]}
    BY DEF RestoreStep
  <1> PICK q : q = [op |-> s, tok |-> t]
    OBVIOUS
  <1>4. q.op = s /\ q.tok = t /\ req' = {q}
    BY <1>3
  <1>5. Open(manifest) /\ st = manifest
    BY <1>2 DEF GivingUp, TakingUp
  <1>6. Disk' /\ Shape' /\ refused' \subseteq {"key"}
    BY <1>1, StoredStays, ShapeStays DEF IInv
  <1>7. Requests'
    <2>1. Open(manifest)'
      BY <1>1, <1>5, Determined
    <2>2. Sound(q)'
      BY <1>4, <2>1 DEF Sound, TableOps
    <2> QED
      BY <1>4, <2>2, OneRequest
  <1>8. RowsAhead' = Rows(q)' /\ EventsAhead' = Events(q)'
    BY <1>4, OneAhead
  <1>9. /\ s = "dropRows" => RowsAhead' = Nothing
        /\ s = "attachRows" /\ base = Nothing => RowsAhead' = [n \in Names |-> IF cuts[t].rows[n] # NoRow THEN cuts[t].rows[n] ELSE NoRow]
        /\ s = "dropEvents" => RowsAhead' = base /\ EventsAhead' = {}
        /\ s = "attachEvents" => RowsAhead' = base /\ EventsAhead' = events \cup cuts[t].events
    BY <1>1, <1>4, <1>8 DEF Rows, Events, Nothing
  <1>10. Holds(st) /\ Holds(st)'
    BY <1>1, <1>5, Determined DEF IInv, Disk
  <1>13. /\ cuts[st.base].rows = TruthRows /\ cuts[st.base].events = truth.events
         /\ cuts[st.base].rows = [n \in Names |-> cuts[st.base].rows[n]]
         /\ cuts[st.cut].rows = [n \in Names |-> cuts[st.cut].rows[n]]
         /\ st.phase = RUNNING => /\ cuts[st.cut].rows = Seen(st, st.at)
                                  /\ cuts[st.cut].events = Logged(st, Content(Seen(st, st.at)))
         /\ Reached(st, cuts[st.cut].rows, cuts[st.cut].events)
    BY <1>10, CutRows
  <1>14. ASSUME s = "attachRows", base = Nothing, cuts[t].rows = [n \in Names |-> cuts[t].rows[n]]
         PROVE  RowsAhead' = cuts[t].rows
    <2> PICK r : r = cuts[t].rows
      OBVIOUS
    <2>1. [n \in Names |-> IF r[n] # NoRow THEN r[n] ELSE NoRow] = [n \in Names |-> r[n]]
      OBVIOUS
    <2> QED
      BY <1>9, <1>14, <2>1
  <1>11. CASE GivingUp
    <2>1. plan \in {G1, G2, G3, G4} /\ Restoring(t) /\ t = st.base
      BY <1>11, SourceOf DEF GivingUp
    <2>2. CASE plan \in {G1, G2, G3}
      <3>1. \/ s = "dropRows" /\ Head(plan') = "attachRows" /\ plan' = G2
            \/ s = "attachRows" /\ Head(plan') = "dropEvents" /\ plan' = G3
            \/ s = "dropEvents" /\ Head(plan') = "attachEvents" /\ plan' = G4
        BY <1>1, <2>2, RestorePlans
      <3>2. /\ s = "attachRows" => base = Nothing
            /\ s = "dropEvents" => base = cuts[t].rows
        BY <1>1, <2>1, NothingAhead DEF Restoring
      <3>3. s = "attachRows" => RowsAhead' = cuts[t].rows
        BY <1>13, <1>14, <2>1, <3>2
      <3>4. Restoring(st.base)'
        BY <1>1, <1>4, <1>9, <2>1, <3>1, <3>2, <3>3 DEF Restoring, Ops
      <3>5. GivingUp'
        BY <1>1, <1>5, <3>1, <3>4, Determined DEF GivingUp
      <3> QED
        BY <1>6, <1>7, <3>5 DEF IInv, Execution
    <2>3. CASE plan = G4
      <3>1. s = "attachEvents" /\ plan' = F1
        BY <1>1, <2>3, RestorePlans
      <3>2. base = cuts[t].rows /\ events = {}
        BY <1>1, <2>1, <3>1, NothingAhead DEF Restoring
      <3>3. RowsAhead' = TruthRows' /\ EventsAhead' = truth.events'
        <4>1. RowsAhead' = TruthRows /\ EventsAhead' = truth.events
          BY <1>9, <1>13, <2>1, <3>1, <3>2
        <4> QED
          BY <1>1, <4>1, Determined
      <3>4. Prepared'
        BY <1>1, <1>4, <3>1, <3>3 DEF Prepared, Ops
      <3> QED
        BY <1>6, <1>7, <3>4 DEF IInv, Execution
    <2> QED
      BY <2>1, <2>2, <2>3
  <1>12. CASE TakingUp
    <2>1. plan \in {W1, W2, W3, W4, R1, R2, R3, R4} /\ Restoring(t) /\ t = st.cut
      BY <1>12, SourceOf DEF TakingUp
    <2>2. /\ s = "attachRows" => base = Nothing
          /\ s = "dropEvents" => base = cuts[t].rows
          /\ s = "attachEvents" => base = cuts[t].rows /\ events = {}
      BY <1>1, <2>1, NothingAhead DEF Restoring
    <2>3. s = "attachRows" => RowsAhead' = cuts[t].rows
      BY <1>13, <1>14, <2>1, <2>2
    <2>4. Saved'
      <3>1. q.op # "save"
        BY <1>4
      <3>2. st' = manifest'
        BY <1>1, <1>5
      <3> QED
        BY <1>4, <3>1, <3>2 DEF Saved, Ops
    <2>5. CASE plan \in {W1, W2, W3, R1, R2, R3}
      <3>1. /\ \/ s = "dropRows" /\ Head(plan') = "attachRows"
               \/ s = "attachRows" /\ Head(plan') = "dropEvents"
               \/ s = "dropEvents" /\ Head(plan') = "attachEvents"
            /\ plan \in {W1, W2, W3} => plan' \in {W1, W2, W3, W4}
            /\ plan \in {R1, R2, R3} => plan' \in {R1, R2, R3, R4}
        BY <1>1, <2>5, RestorePlans
      <3>2. Restoring(st.cut)'
        BY <1>1, <1>4, <1>9, <2>1, <2>2, <2>3, <3>1 DEF Restoring, Ops
      <3>3. \/ plan \in {W1, W2, W3} /\ st.phase = RUNNING /\ walk = [From(st.at) EXCEPT !.matches = walk.matches]
            \/ plan \in {R1, R2, R3} /\ st.phase = FINALIZING
        <4>1. ASSUME plan \in {W1, W2, W3}, plan \in {R1, R2, R3, R4} PROVE FALSE
          BY <4>1 DEF W1, W2, W3, R1, R2, R3, R4
        <4>2. ASSUME plan \in {R1, R2, R3}, plan \in {W1, W2, W3, W4} PROVE FALSE
          BY <4>2 DEF W1, W2, W3, W4, R1, R2, R3
        <4> QED
          BY <1>12, <2>5, <4>1, <4>2 DEF TakingUp
      <3>4. TakingUp'
        BY <1>1, <1>5, <3>1, <3>2, <3>3, Determined DEF TakingUp, From
      <3> QED
        BY <1>6, <1>7, <3>4 DEF IInv, Execution
    <2>6. CASE plan = W4
      <3>1. s = "attachEvents" /\ plan' = F7 /\ plan \notin {R1, R2, R3, R4}
        BY <1>1, <2>6, RestorePlans DEF W4, R1, R2, R3, R4
      <3>2. st.phase = RUNNING /\ walk = [From(st.at) EXCEPT !.matches = walk.matches]
        BY <1>12, <3>1 DEF TakingUp
      <3>3. RowsAhead' = Seen(st, st.at) /\ EventsAhead' = Logged(st, Content(Seen(st, st.at)))
        BY <1>9, <1>13, <2>1, <2>2, <3>1, <3>2
      <3>4. /\ walk.seen = st.at /\ walk.sent = st.at /\ walk.written = st.at /\ walk.batch = st.at
            /\ st.at \in 0..N
        BY <1>10, <3>2 DEF From, Holds, Round
      <3>5. Walked'
        <4>1. /\ Seen(st, walk.written)' = Seen(st, st.at)
              /\ Logged(st, Content(Seen(st, walk.batch)))' = Logged(st, Content(Seen(st, st.at)))
          <5> PICK m, k : m = st /\ k = st.at
            OBVIOUS
          <5>1. Seen(m, k)' = Seen(m, k) /\ Content(Seen(m, k))' = Content(Seen(m, k))
            BY <1>1, Determined DEF Content
          <5>2. Logged(m, Content(Seen(m, k)))' = Logged(m, Content(Seen(m, k)))
            BY <1>1, <5>1, Determined
          <5> QED
            BY <1>1, <3>4, <5>1, <5>2
        <4>2. \A n \in Names : st.at < n /\ n <= st.at => FALSE
          BY <3>4, RoundsAssumption DEF Names
        <4> QED
          BY <1>1, <3>2, <3>3, <3>4, <4>1, <4>2, RoundsAssumption DEF Walked
      <3>6. Running'
        BY <1>4, <1>10, <2>4, <3>1, <3>5 DEF Running, Tables, Ops
      <3> QED
        BY <1>6, <1>7, <3>6 DEF IInv, Execution
    <2>7. CASE plan = R4
      <3>1. s = "attachEvents" /\ plan' = E5 /\ plan \notin {W1, W2, W3, W4}
        BY <1>1, <2>7, RestorePlans DEF R4, W1, W2, W3, W4
      <3>2. st.phase = FINALIZING
        BY <1>12, <3>1 DEF TakingUp
      <3>3. Reached(st, RowsAhead', EventsAhead')
        <4>1. RowsAhead' = cuts[st.cut].rows /\ EventsAhead' = cuts[st.cut].events
          BY <1>9, <2>1, <2>2, <3>1
        <4> QED
          BY <1>13, <4>1
      <3>4. Ended'
        BY <1>1, <3>2, <3>3, Determined DEF Ended
      <3>5. Running'
        BY <1>4, <1>10, <2>4, <3>1, <3>4 DEF Running, Tables, Ops
      <3> QED
        BY <1>6, <1>7, <3>5 DEF IInv, Execution
    <2> QED
      BY <2>1, <2>5, <2>6, <2>7
  <1> QED
    BY <1>2, <1>11, <1>12

-----------------------------------------------------------------------------
(* A new round.                                                            *)

LEMMA InitializeSafe ==
    ASSUME IInv, Initialize
    PROVE  IInv'
  <1>1. /\ Head(plan) = "initialize" /\ plan # << >> /\ req = {} /\ plan' = Tail(plan)
        /\ st' = [st EXCEPT !.inc = scanState.baseline]
        /\ UNCHANGED <<db, walk, src, mode, refused, base, events, scanState, manifest, cuts, truth>>
    BY DEF Initialize, At, Follow, db, env
  <1>2. Prepared
    BY <1>1, Whereabouts DEF IInv
  <1>3. plan' = F2
    BY <1>1, <1>2, FreshPlans DEF Prepared
  <1>4. Restored
    BY <1>1, <1>2, NothingAhead DEF Prepared, Restored
  <1>5. IsRow(st') /\ st'.inc = scanState.baseline
    BY <1>1 DEF IInv, Shape, IsRow
  <1>6. Shape'
    BY <1>1, <1>5 DEF IInv, Shape, IsRow
  <1>7. Baseline'
    BY <1>1, <1>4, <1>5, Determined DEF Baseline, Restored
  <1>8. CASE scanState.gen = 2
    <2> PICK q : q = [op |-> "state", gen |-> 0, baseline |-> FALSE]
      OBVIOUS
    <2>1. req' = {q}
      BY <1>8 DEF Initialize
    <2>2. Sound(q)'
      BY <1>1, <1>8 DEF Sound
    <2>3. Requests'
      BY <2>1, <2>2, OneRequest
    <2>4. q.op = "state" /\ ~q.baseline
      OBVIOUS
    <2>5. Initialized'
      BY <1>3, <1>7, <2>1, <2>4 DEF Initialized, Ops
    <2> QED
      BY <1>1, <1>6, <2>3, <2>5, StoredStays DEF IInv, Execution
  <1>9. CASE scanState.gen # 2
    <2>1. req' = {}
      BY <1>9 DEF Initialize
    <2>2. Initialized'
      BY <1>1, <1>3, <1>7, <1>9, <2>1 DEF Initialized, Ops
    <2> QED
      BY <1>1, <1>6, <2>1, <2>2, StoredStays, NoRequest DEF IInv, Execution
  <1> QED
    BY <1>8, <1>9

\* The clones of both tables are on their way to a new cut.
LEMMA ToForm ==
    ASSUME NEW t \in Tokens, Shape, cuts[t] = NoCut, cuts' = cuts,
           req' = {[op |-> "cloneRows", tok |-> t], [op |-> "cloneEvents", tok |-> t]}
    PROVE  Forming(t)' /\ \A s \in req' : s.op \in CutOps /\ s = [op |-> s.op, tok |-> s.tok] /\ s.tok = t
  <1>1. \A s \in req' : s.op \in CutOps /\ s = [op |-> s.op, tok |-> s.tok] /\ s.tok = t
    BY DEF CutOps
  <1>2. cuts'[t].made \subseteq {"rows", "events"}
    BY DEF NoCut
  <1>3. req' \subseteq Clones(t)'
    BY DEF Clones
  <1> QED
    BY <1>1, <1>2, <1>3 DEF Forming

LEMMA CloneSafe ==
    ASSUME IInv, Clone
    PROVE  IInv'
  <1>1. /\ Head(plan) = "clone" /\ plan # << >> /\ req = {} /\ plan' = Tail(plan)
        /\ UNCHANGED <<db, walk, src, mode, refused, base, events, scanState, manifest, cuts, truth>>
    BY DEF Clone, At, Follow, db, env
  <1> PICK t \in Tokens : /\ cuts[t] = NoCut /\ t \notin {manifest.base, manifest.cut}
                          /\ st' = [st EXCEPT !.cut = t]
                          /\ req' = {[op |-> "cloneRows", tok |-> t], [op |-> "cloneEvents", tok |-> t]}
    BY DEF Clone
  <1>2. /\ IsRow(st') /\ st'.cut = t /\ st'.inc = st.inc /\ st'.gen = st.gen /\ st'.phase = st.phase
        /\ st'.base = st.base /\ st'.at = st.at /\ st'.epoch = st.epoch /\ st'.version = st.version
    BY DEF IInv, Shape, IsRow
  <1>3. Shape'
    BY <1>1, <1>2 DEF IInv, Shape, IsRow
  <1>4. Forming(t)' /\ \A s \in req' : s.op \in CutOps /\ s = [op |-> s.op, tok |-> s.tok] /\ s.tok = t
    BY <1>1, ToForm DEF IInv
  <1>5. Requests'
    <2>1. \A s \in req' : s.op \in CutOps /\ Sound(s)'
      BY <1>1, <1>4 DEF Sound
    <2> QED
      BY <2>1, CutRequests
  <1>6. Forming(st.cut)'
    BY <1>2, <1>4
  <1>7. Initialized \/ ToClone
    BY <1>1, Whereabouts DEF IInv
  <1>8. CASE Initialized
    <2>1. plan' = F3
      BY <1>1, <1>8, FreshPlans DEF Initialized
    <2>2. Baseline' /\ scanState'.gen # 2
      BY <1>1, <1>2, <1>8, Determined DEF Initialized, Baseline, Restored
    <2>3. Captured'
      BY <1>6, <2>1, <2>2 DEF Captured
    <2> QED
      BY <1>1, <1>3, <1>5, <2>3, StoredStays DEF IInv, Execution
  <1>9. CASE ToClone
    <2>1. \/ plan = K1 /\ Walked /\ plan' = K2
          \/ plan = E1 /\ Ended /\ plan' = E2
          \/ plan = C1 /\ Finished /\ plan' = C2
      BY <1>1, <1>9, SealPlans DEF ToClone, Tables
    <2>2. Ops(Apart)'
      BY <1>4 DEF Ops, Apart, CutOps
    <2>3. RowsAhead = base /\ EventsAhead = events /\ RowsAhead' = base /\ EventsAhead' = events
      BY <1>1, <2>2, NothingAhead, ApartAhead
    <2>4. \A k, rows, log, tree :
             /\ Seen(st', k) = Seen(st, k) /\ Logged(st', tree) = Logged(st, tree) /\ Final(st') = Final(st)
             /\ Reached(st', rows, log) = Reached(st, rows, log) /\ Round(st') = Round(st)
      BY <1>2 DEF Seen, Logged, Final, Reached, Round, Active
    <2>5. Walked => Walked'
      <3>1. /\ Seen(st, walk.written)' = Seen(st, walk.written)
            /\ Logged(st, Content(Seen(st, walk.batch)))' = Logged(st, Content(Seen(st, walk.batch)))
        <4> PICK m, k, j : m = st' /\ k = walk.written /\ j = walk.batch
          OBVIOUS
        <4>1. \A i : Seen(m, i)' = Seen(st, i)
          BY <1>1, <2>4, Determined
        <4>2. Content(Seen(m, j))' = Content(Seen(st, j))
          BY <4>1 DEF Content
        <4>3. Logged(m, Content(Seen(m, j)))' = Logged(st, Content(Seen(st, j)))
          BY <1>1, <2>4, <4>2, Determined
        <4> QED
          BY <1>1, <4>1, <4>3
      <3> QED
        BY <1>1, <1>2, <2>3, <3>1 DEF Walked
    <2>6. (Ended => Ended') /\ (Finished => Finished')
      BY <1>1, <1>2, <2>3, <2>4, Determined DEF Ended, Finished
    <2>7. Ahead'
      <3>1. Ahead
        BY <1>9 DEF ToClone
      <3>2. Round(st)' /\ Open(manifest)'
        BY <1>1, <2>4, <3>1, Determined DEF Ahead
      <3>3. Reached(st, base, events)'
        BY <1>1, <2>4, <3>1, Determined DEF Ahead
      <3> QED
        BY <1>1, <1>2, <3>1, <3>2, <3>3 DEF Ahead
    <2>8. Cloned'
      BY <1>6, <2>1, <2>5, <2>6, <2>7 DEF Cloned, Tables
    <2> QED
      BY <1>1, <1>3, <1>5, <2>8, StoredStays DEF IInv, Execution
  <1> QED
    BY <1>7, <1>8, <1>9

LEMMA AbandonSafe ==
    ASSUME IInv, Abandon
    PROVE  IInv'
  <1>1. /\ Head(plan) = "abandon" /\ plan # << >> /\ req = {} /\ plan' = Tail(plan)
        /\ UNCHANGED <<db, st, walk, src, mode, refused, base, events, scanState, manifest, cuts, truth>>
    BY DEF Abandon, At, Follow, db, memory, env
  <1>2. Captured
    BY <1>1, Whereabouts DEF IInv
  <1>3. plan' = F4 /\ Baseline' /\ scanState'.gen # 2
    BY <1>1, <1>2, FreshPlans, Determined DEF Captured, Baseline, Restored
  <1>4. CutIs(st.cut, base, events)'
    <2> PICK t : t = st.cut
      OBVIOUS
    <2>1. Forming(t)
      BY <1>2 DEF Captured
    <2>2. t \in Tokens /\ cuts[t].made = {"rows", "events"} /\ cuts[t].rows = base /\ cuts[t].events = events
      BY <1>1, <2>1 DEF Forming
    <2>3. cuts[t] = [made |-> cuts[t].made, rows |-> cuts[t].rows, events |-> cuts[t].events]
      BY <2>2 DEF IInv, Shape
    <2> QED
      BY <1>1, <2>2, <2>3 DEF CutIs
  <1>5. Shape'
    BY <1>1, ShapeStays DEF IInv
  <1>6. CASE Active(manifest)
    <2> PICK r : r = [manifest EXCEPT !.version = @ + 1, !.phase = ABANDONED, !.at = 0]
      OBVIOUS
    <2> PICK q : q = [op |-> "save", row |-> r]
      OBVIOUS
    <2>1. req' = {q}
      BY <1>6 DEF Abandon, Save
    <2>2. IsRow(r) /\ r.version = manifest.version + 1 /\ r.phase = ABANDONED
      <3>1. IsRow(manifest)
        BY DEF IInv, Shape
      <3>2. r = [version |-> manifest.version + 1, key |-> manifest.key, gen |-> manifest.gen, inc |-> manifest.inc,
                 phase |-> ABANDONED, epoch |-> manifest.epoch, at |-> 0, base |-> manifest.base,
                 cut |-> manifest.cut]
        BY <3>1 DEF IsRow
      <3>3. r = [version |-> r.version, key |-> r.key, gen |-> r.gen, inc |-> r.inc, phase |-> r.phase,
                 epoch |-> r.epoch, at |-> r.at, base |-> r.base, cut |-> r.cut]
        BY <3>2
      <3>4. r.version = manifest.version + 1 /\ r.inc = manifest.inc /\ r.phase = ABANDONED
        BY <3>2
      <3>5. manifest.version \in Int /\ manifest.inc \in BOOLEAN
        BY <3>1 DEF IsRow
      <3>6. r.version \in Int /\ r.phase \in 0..3
        BY <3>4, <3>5 DEF ABANDONED
      <3> QED
        BY <3>3, <3>4, <3>5, <3>6 DEF IsRow
    <2>3. q.op = "save" /\ q.row = r /\ ~Active(r)
      BY <2>2 DEF Active, RUNNING, FINALIZING, ABANDONED
    <2>4. r.version > manifest.version
      BY <2>2 DEF IInv, Shape, IsRow
    <2>5. Restored'
      BY <1>3 DEF Baseline
    <2>6. Sound(q)'
      BY <1>1, <2>2, <2>3, <2>4, <2>5 DEF Sound
    <2>7. Abandoned'
      BY <1>3, <1>4, <2>1, <2>3 DEF Abandoned, Ops
    <2> QED
      BY <1>1, <1>5, <2>1, <2>6, <2>7, StoredStays, OneRequest DEF IInv, Execution
  <1>7. CASE ~Active(manifest)
    <2>1. req' = {}
      BY <1>7 DEF Abandon
    <2>2. Abandoned'
      BY <1>1, <1>3, <1>4, <1>7, <2>1 DEF Abandoned, Ops, Active
    <2> QED
      BY <1>1, <1>5, <2>1, <2>2, StoredStays, NoRequest DEF IInv, Execution
  <1> QED
    BY <1>6, <1>7

LEMMA RebaseSafe ==
    ASSUME IInv, Rebase
    PROVE  IInv'
  <1>1. /\ Head(plan) = "rebase" /\ plan # << >> /\ req = {} /\ plan' = Tail(plan)
        /\ st' = [st EXCEPT !.gen = 1 - scanState.gen]
        /\ UNCHANGED <<db, walk, src, mode, refused, base, events, scanState, manifest, cuts, truth>>
    BY DEF Rebase, At, Follow, db, env
  <1>2. Abandoned
    BY <1>1, Whereabouts DEF IInv
  <1>3. IsRow(st') /\ st'.gen = 1 - scanState.gen /\ st'.inc = st.inc /\ st'.cut = st.cut
    BY <1>1 DEF IInv, Shape, IsRow
  <1>4. Shape'
    BY <1>1, <1>3 DEF IInv, Shape, IsRow
  <1>5. plan' = F5 /\ scanState'.gen # 2 /\ ~Active(manifest')
    BY <1>1, <1>2, FreshPlans DEF Abandoned
  <1>6. Baseline'
    BY <1>1, <1>2, <1>3, Determined DEF Abandoned, Baseline, Restored
  <1>7. CutIs(st.cut, base, events)'
    BY <1>1, <1>2, <1>3, Determined DEF Abandoned, CutIs
  <1> PICK q : q = [op |-> "rebase", gen |-> scanState.gen]
    OBVIOUS
  <1>8. req' = {q} /\ q.op = "rebase" /\ q.gen = scanState.gen
    BY DEF Rebase
  <1>9. Sound(q)'
    BY <1>1, <1>5, <1>8 DEF Sound, Active
  <1>10. Rebased'
    BY <1>1, <1>3, <1>5, <1>6, <1>7, <1>8 DEF Rebased, Ops, Active
  <1> QED
    BY <1>1, <1>4, <1>8, <1>9, <1>10, StoredStays, OneRequest DEF IInv, Execution

\* The first manifest: nothing has been read, and its cut is its baseline.
LEMMA StartSafe ==
    ASSUME IInv, Start
    PROVE  IInv'
  <1>1. /\ Head(plan) = "start" /\ plan # << >> /\ req = {} /\ plan' = Tail(plan)
        /\ src' \in Trees /\ walk' = From(0)
        /\ UNCHANGED <<db, mode, refused, base, events, scanState, manifest, cuts, truth>>
    BY DEF Start, At, Follow, db
  <1>2. Rebased
    BY <1>1, Whereabouts DEF IInv
  <1> PICK r : r = st'
    OBVIOUS
  <1>3. /\ r = [version |-> Previous + 1, key |-> mode, gen |-> st.gen, inc |-> st.inc,
                phase |-> RUNNING, epoch |-> Epoch, at |-> 0, base |-> st.cut, cut |-> st.cut]
        /\ req' = Save(r)
    BY DEF Start
  <1>4. IsRow(r) /\ r.version > manifest.version
    BY <1>3 DEF IInv, Shape, IsRow, RUNNING, Previous
  <1>5. ~Active(manifest) /\ ~Open(manifest) /\ scanState.gen # 2 /\ Baseline /\ CutIs(st.cut, base, events)
    BY <1>2 DEF Rebased, Open
  <1>6. plan' = F6 /\ src' \in [Names -> Nat]
    BY <1>1, <1>2, FreshPlans, RoundsAssumption DEF Rebased, Names
  <1>7. Shape'
    BY <1>1, <1>4, <1>6 DEF IInv, Shape, IsRow, From
  <1>8. TruthRows' = TruthRows
    BY <1>1 DEF TruthRows
  <1>9. Disk'
    BY <1>1, <1>5, <1>8 DEF IInv, Disk, Open, Active, Restored
  <1>10. Seen(r, 0)' = TruthRows /\ Content(TruthRows) = truth.tree
    <2>1. Seen(r, 0)' = TruthRows
      BY <1>1, <1>8 DEF Seen, TruthRows, Names
    <2>2. \A n \in Names : TruthRows[n].v = truth.tree[n]
      BY DEF TruthRows, Row, NoRow
    <2>3. truth.tree \in [Names -> Nat]
      BY DEF IInv, Shape
    <2> QED
      BY <2>1, <2>2, <2>3 DEF Content
  <1>11. Logged(r, truth.tree)' = truth.events
    <2>1. Difference(truth.tree, truth.tree, r.epoch) = {}
      BY DEF Difference
    <2> QED
      BY <1>1, <2>1 DEF Logged
  <1>12. /\ CutIs(r.base, TruthRows, truth.events)' /\ r.base = st.cut /\ r.cut = st.cut
         /\ cuts[st.cut].rows = TruthRows /\ cuts[st.cut].events = truth.events
         /\ cuts[st.cut].made = {"rows", "events"} /\ st.cut \in Tokens
    BY <1>1, <1>3, <1>5, <1>8 DEF CutIs, Baseline, Restored
  <1>13. Round(r)'
    <2>1. Active(r) /\ r.at \in 0..N /\ r.gen = 1 - scanState.gen
      BY <1>2, <1>3, RoundsAssumption DEF Active, RUNNING, Rebased
    <2>2. scanState.gen \in {0, 1} /\ (r.inc \/ truth.tree = NoTree)
      BY <1>3, <1>5 DEF IInv, Shape, Disk, Baseline
    <2> QED
      BY <1>1, <1>12, <2>1, <2>2 DEF Round, Active
  <1>14. Holds(r)'
    <2>1. CutExists(r.cut)'
      BY <1>1, <1>12 DEF CutExists
    <2>2. Content(TruthRows)' = truth.tree
      BY <1>8, <1>10 DEF Content
    <2>3. Reached(r, cuts[r.cut].rows, cuts[r.cut].events)'
      <3>1. Logged(r, Content(cuts[r.cut].rows))' = truth.events
        BY <1>1, <1>8, <1>11, <1>12, <2>2 DEF Content
      <3>2. r.phase = RUNNING /\ r.at = 0
        BY <1>3
      <3> QED
        BY <1>1, <1>10, <1>12, <3>1, <3>2 DEF Reached
    <2> QED
      BY <1>13, <2>1, <2>3 DEF Holds
  <1> PICK q : q = [op |-> "save", row |-> r]
    OBVIOUS
  <1>15. req' = {q} /\ q.op = "save" /\ q.row = r
    BY <1>3 DEF Save
  <1>16. Sound(q)'
    <2>1. Active(r)
      BY <1>13 DEF Round, Active
    <2> QED
      BY <1>1, <1>4, <1>14, <1>15, <2>1 DEF Sound, Active
  <1>17. Ops({"save"})' /\ Ops(Apart)' /\ Saved'
    BY <1>15 DEF Ops, Apart, Saved
  <1>18. Walked'
    <2>1. RowsAhead' = base /\ EventsAhead' = events
      BY <1>1, <1>17, ApartAhead
    <2>2. /\ walk'.seen = 0 /\ walk'.sent = 0 /\ walk'.written = 0 /\ walk'.batch = 0
          /\ r.at = 0 /\ r.phase = RUNNING
      BY <1>1, <1>3 DEF From
    <2>3. base = TruthRows /\ events = truth.events
      BY <1>5 DEF Baseline, Restored
    <2>4. Seen(st, walk.written)' = TruthRows
      BY <1>10, <2>2
    <2>5. Logged(st, Content(Seen(st, walk.batch)))' = truth.events
      BY <1>1, <1>8, <1>10, <1>11, <2>2 DEF Content
    <2>6. \A n \in Names : ~(0 < n /\ n <= 0)
      BY DEF Names
    <2> QED
      BY <2>1, <2>2, <2>3, <2>4, <2>5, <2>6, RoundsAssumption DEF Walked
  <1>19. ToTidy'
    BY <1>6, <1>14, <1>17, <1>18 DEF ToTidy, Tables
  <1> QED
    BY <1>1, <1>7, <1>9, <1>15, <1>16, <1>19, OneRequest DEF IInv, Execution

-----------------------------------------------------------------------------
(* Clean-up and saved rows.                                                *)

LEMMA ClosedIdles ==
    ASSUME Closed, plan' = Tail(plan)
    PROVE  Idling'
  BY SealPlans DEF Closed, Idling

\* After the clean-up, whether it is carried out or fails.
LEMMA TidiedRuns ==
    ASSUME ToTidy, req = {}, plan' = Tail(plan), UNCHANGED <<db, st, walk, src>>,
           Ops({"dropCut"})'
    PROVE  Running'
  <1>1. UNCHANGED <<base, events, scanState, manifest, cuts, truth>>
    BY DEF db
  <1>2. Ops(Apart)'
    BY DEF Ops, Apart
  <1>3. RowsAhead' = RowsAhead /\ EventsAhead' = EventsAhead
    BY <1>1, <1>2, NothingAhead, ApartAhead
  <1>4. st = manifest
    BY DEF ToTidy, Saved
  <1>5. Saved' /\ Holds(st)'
    <2>1. ~(Ops({"save"})' /\ req' # {})
      BY DEF Ops
    <2> QED
      BY <1>1, <1>4, <2>1, Determined DEF Saved, ToTidy
  <1>6. \/ plan = F6 /\ Walked /\ plan' = F7
        \/ plan = E3 /\ Ended /\ plan' = E5
        \/ plan = C3 /\ Finished /\ plan' = C5
    BY FreshPlans, SealPlans DEF ToTidy, Tables
  <1>7. Walked => Walked'
    <2>1. /\ Seen(st, walk.written)' = Seen(st, walk.written)
          /\ Logged(st, Content(Seen(st, walk.batch)))' = Logged(st, Content(Seen(st, walk.batch)))
      BY <1>1, Determined DEF Content
    <2> QED
      BY <1>1, <1>3, <2>1 DEF Walked
  <1>8. (Ended => Ended') /\ (Finished => Finished')
    BY <1>1, <1>3, Determined DEF Ended, Finished
  <1>9. Ops({"attachEvents", "save", "dropCut", "rows", "events"})'
    BY DEF Ops
  <1> QED
    BY <1>5, <1>6, <1>7, <1>8, <1>9 DEF Running, Tables

LEMMA TidySafe ==
    ASSUME IInv, Tidy
    PROVE  IInv'
  <1>1. /\ Head(plan) = "tidy" /\ plan # << >> /\ req = {} /\ plan' = Tail(plan)
        /\ UNCHANGED <<db, st, walk, src, mode, refused, base, events, scanState, manifest, cuts, truth>>
        /\ req' = {[op |-> "dropCut", tok |-> t] : t \in {u \in Tokens : cuts[u] # NoCut} \ Keep}
    BY DEF Tidy, At, Follow, db, memory, env
  <1>2. Shape'
    BY <1>1, ShapeStays DEF IInv
  <1>3. Closed \/ ToTidy
    BY <1>1, Whereabouts DEF IInv
  <1>4. st = manifest
    BY <1>1, <1>3 DEF Closed, ToTidy, Saved
  <1>5. \A s \in req' : s.op = "dropCut" /\ s = [op |-> s.op, tok |-> s.tok] /\ s.tok \notin Keep
    BY <1>1
  <1>6. Requests'
    <2>1. ASSUME NEW s \in req' PROVE s.op \in CutOps /\ Sound(s)'
      <3>1. Active(manifest) => s.tok \notin {manifest.base, manifest.cut}
        BY <1>4, <1>5 DEF Keep
      <3> QED
        BY <1>1, <1>5, <3>1 DEF Sound, CutOps, Active
    <2> QED
      BY <2>1, CutRequests
  <1>7. Ops({"dropCut"})'
    BY <1>5 DEF Ops
  <1>8. Idling' \/ Running'
    BY <1>1, <1>3, <1>7, ClosedIdles, TidiedRuns
  <1> QED
    BY <1>1, <1>2, <1>6, <1>8, StoredStays DEF IInv, Execution

LEMMA TidyFailsSafe ==
    ASSUME IInv, TidyFails
    PROVE  IInv'
  <1>1. /\ Head(plan) = "tidy" /\ plan # << >> /\ req = {} /\ req' = {} /\ plan' = Tail(plan)
        /\ UNCHANGED <<db, st, walk, src, mode, refused>>
    BY DEF TidyFails, At, Follow, memory
  <1>2. Shape' /\ Requests' /\ Ops({"dropCut"})'
    BY <1>1, ShapeStays, NoRequest DEF IInv, Ops
  <1>3. Closed \/ ToTidy
    BY <1>1, Whereabouts DEF IInv
  <1>4. Idling' \/ Running'
    BY <1>1, <1>2, <1>3, ClosedIdles, TidiedRuns
  <1> QED
    BY <1>1, <1>2, <1>4, StoredStays DEF IInv, Execution

\* A cut whose clones have landed.
LEMMA Formed ==
    ASSUME Shape, NEW t, Forming(t), req = {}
    PROVE  CutIs(t, base, events) /\ CutExists(t)
  <1>1. t \in Tokens /\ cuts[t].made = {"rows", "events"} /\ cuts[t].rows = base /\ cuts[t].events = events
    BY DEF Forming
  <1>2. cuts[t] = [made |-> cuts[t].made, rows |-> cuts[t].rows, events |-> cuts[t].events]
    BY <1>1 DEF Shape
  <1> QED
    BY <1>1, <1>2 DEF CutIs, CutExists

LEMMA SaveSafe ==
    ASSUME IInv, SaveStep
    PROVE  IInv'
  <1>1. /\ Head(plan) = "save" /\ plan # << >> /\ req = {} /\ plan' = Tail(plan)
        /\ UNCHANGED <<db, st, walk, src, mode, refused, base, events, scanState, manifest, cuts, truth>>
    BY DEF SaveStep, At, Follow, db, memory, env
  <1> PICK r : r = st
    OBVIOUS
  <1> PICK q : q = [op |-> "save", row |-> r]
    OBVIOUS
  <1>2. req' = {q} /\ q.op = "save" /\ q.row = r
    BY DEF SaveStep, Save
  <1>3. Shape'
    BY <1>1, ShapeStays DEF IInv
  <1>4. Cloned \/ ToSave
    BY <1>1, Whereabouts DEF IInv
  <1>5. Ahead
    BY <1>4 DEF Cloned, ToSave
  <1>6. Holds(r)
    <2>1. CASE ToSave
      BY <2>1 DEF ToSave
    <2>2. CASE Cloned
      <3>1. CutIs(r.cut, base, events) /\ CutExists(r.cut)
        BY <1>1, <2>2, Formed DEF Cloned, IInv
      <3> QED
        BY <1>5, <3>1 DEF Holds, Ahead, CutIs
    <2> QED
      BY <1>4, <2>1, <2>2
  <1>7. Holds(r)' /\ Active(r)
    BY <1>1, <1>6, Determined DEF Holds, Round
  <1>8. Sound(q)'
    <2>1. IsRow(r) /\ r.version > manifest.version
      BY <1>5 DEF IInv, Shape, Ahead
    <2> QED
      BY <1>1, <1>2, <1>7, <2>1 DEF Sound, Active
  <1>9. Ops({"save"})' /\ Ops(Apart)' /\ Saved'
    BY <1>1, <1>2 DEF Ops, Apart, Saved
  <1>10. RowsAhead' = RowsAhead /\ EventsAhead' = EventsAhead
    BY <1>1, <1>9, NothingAhead, ApartAhead
  <1>11. Walked => Walked'
    <2>1. /\ Seen(st, walk.written)' = Seen(st, walk.written)
          /\ Logged(st, Content(Seen(st, walk.batch)))' = Logged(st, Content(Seen(st, walk.batch)))
      BY <1>1, Determined DEF Content
    <2> QED
      BY <1>1, <1>10, <2>1 DEF Walked
  <1>12. (Ended => Ended') /\ (Finished => Finished')
    BY <1>1, <1>10, Determined DEF Ended, Finished
  <1>13. CASE Cloned
    <2>1. \/ plan = K2 /\ Walked /\ plan' = F6
          \/ plan = E2 /\ Ended /\ plan' = E3
          \/ plan = C2 /\ Finished /\ plan' = C3
      BY <1>1, <1>13, SealPlans DEF Cloned, Tables
    <2>2. ToTidy'
      BY <1>1, <1>7, <1>9, <1>11, <1>12, <2>1 DEF ToTidy, Tables
    <2> QED
      BY <1>1, <1>2, <1>3, <1>8, <2>2, StoredStays, OneRequest DEF IInv, Execution
  <1>14. CASE ToSave
    <2>1. \/ plan = K4 /\ Walked /\ plan' = F7
          \/ plan = E4 /\ Ended /\ plan' = E5
          \/ plan = C4 /\ Finished /\ plan' = C5
      BY <1>1, <1>14, SealPlans DEF ToSave, Tables
    <2>2. Ops({"attachEvents", "save", "dropCut", "rows", "events"})'
      BY <1>2 DEF Ops
    <2>3. Running'
      BY <1>1, <1>7, <1>9, <1>11, <1>12, <2>1, <2>2 DEF Running, Tables
    <2> QED
      BY <1>1, <1>2, <1>3, <1>8, <2>3, StoredStays, OneRequest DEF IInv, Execution
  <1> QED
    BY <1>4, <1>13, <1>14

-----------------------------------------------------------------------------
(* The pipeline.                                                           *)

LEMMA WalkFacts ==
    ASSUME IInv, Walking
    PROVE  /\ plan = F7 /\ Running /\ Walked /\ Holds(st) /\ Round(st) /\ Saved
           /\ walk.seen \in 0..N /\ walk.sent \in 0..N /\ walk.written \in 0..N /\ walk.batch \in 0..N
           /\ st.at \in 0..N /\ IsRow(st)
  <1>1. plan = F7 /\ Running
    BY Whereabouts DEF IInv, Walking
  <1>2. F7 # E5 /\ F7 # C5
    BY DEF F7, E5, C5
  <1>3. Walked
    BY <1>1, <1>2 DEF Running, Tables
  <1> QED
    BY <1>1, <1>3 DEF Running, Walked, Holds, Round, IInv, Shape

\* The producer, which touches neither tables nor rows.
LEMMA SeeSafe ==
    ASSUME IInv, See \/ Deliver
    PROVE  IInv'
  <1>1. /\ Walking /\ UNCHANGED <<db, plan, mode, st, src, req, refused>>
        /\ UNCHANGED <<base, events, scanState, manifest, cuts, truth>>
    BY DEF See, Deliver, Pipe, env, db
  <1>2. /\ plan = F7 /\ Running /\ Walked /\ Holds(st) /\ Round(st) /\ Saved
        /\ walk.seen \in 0..N /\ walk.sent \in 0..N /\ walk.written \in 0..N /\ walk.batch \in 0..N
        /\ st.at \in 0..N
    BY <1>1, WalkFacts
  <1>3. walk = [seen |-> walk.seen, sent |-> walk.sent, written |-> walk.written, batch |-> walk.batch,
                matches |-> walk.matches]
    BY DEF IInv, Shape
  <1>4. /\ walk' = [seen |-> walk'.seen, sent |-> walk'.sent, written |-> walk'.written, batch |-> walk'.batch,
                    matches |-> walk'.matches]
        /\ walk'.written = walk.written /\ walk'.batch = walk.batch
        /\ \/ /\ walk.seen < N /\ walk'.seen = walk.seen + 1 /\ walk'.sent = walk.sent
              /\ walk'.matches = (walk.matches /\ src[walk.seen + 1] = 0)
           \/ /\ walk'.seen = walk.seen /\ walk'.sent = walk.seen /\ walk'.matches = walk.matches
    BY <1>3 DEF See, Deliver
  <1>5. RowsAhead' = RowsAhead /\ EventsAhead' = EventsAhead
    BY <1>1 DEF RowsAhead, EventsAhead, Rows, Events, Remaining
  <1>6. walk'.matches => \A n \in Names : st.at < n /\ n <= walk'.seen => src[n] = 0
    <2> SUFFICES ASSUME walk'.matches, NEW n \in Names, st.at < n, n <= walk'.seen PROVE src[n] = 0
      OBVIOUS
    <2>1. walk.matches => \A i \in Names : st.at < i /\ i <= walk.seen => src[i] = 0
      BY <1>2 DEF Walked
    <2>2. walk.matches
      BY <1>4
    <2>3. CASE n <= walk.seen
      BY <2>1, <2>2, <2>3
    <2>4. CASE ~(n <= walk.seen)
      <3> PICK i, j : i = walk.seen /\ j = walk'.seen
        OBVIOUS
      <3>1. i \in Nat /\ n \in Nat /\ (j = i + 1 \/ j = i) /\ n <= j /\ ~(n <= i)
        <4>1. i \in Nat /\ n \in Nat
          BY <1>2, RoundsAssumption DEF Names
        <4>2. j = i + 1 \/ j = i
          BY <1>4
        <4> QED
          BY <2>4, <4>1, <4>2
      <3>2. j = i + 1 /\ n = i + 1
        BY <3>1
      <3>3. i + 1 # i
        BY <3>1
      <3>4. walk'.matches = (walk.matches /\ src[walk.seen + 1] = 0)
        BY <1>4, <3>2, <3>3
      <3>5. src[walk.seen + 1] = 0
        BY <3>4
      <3> QED
        BY <3>2, <3>5
    <2> QED
      BY <2>3, <2>4
  <1>7. /\ walk'.seen \in 0..N /\ walk'.sent \in 0..N
        /\ walk'.batch <= walk'.sent /\ walk'.sent <= walk'.seen
    BY <1>2, <1>4, RoundsAssumption DEF Walked
  <1>8. Walked'
    <2>1. /\ Seen(st, walk.written)' = Seen(st, walk.written)
          /\ Logged(st, Content(Seen(st, walk.batch)))' = Logged(st, Content(Seen(st, walk.batch)))
      BY <1>1, <1>4, Determined DEF Content
    <2> QED
      BY <1>1, <1>2, <1>4, <1>5, <1>6, <1>7, <2>1 DEF Walked
  <1>9. Running'
    <2>1. Saved' /\ Ops({"attachEvents", "save", "dropCut", "rows", "events"})'
      BY <1>1, <1>2 DEF Running, Saved, Ops
    <2>2. Holds(st)'
      BY <1>1, <1>2, Determined
    <2> QED
      BY <1>1, <1>2, <1>8, <2>1, <2>2 DEF Running, Tables
  <1>10. Shape'
    BY <1>1, <1>4 DEF IInv, Shape, IsRow
  <1> QED
    BY <1>1, <1>9, <1>10, StoredStays DEF IInv, Execution

\* The difference to the committed tree, path by path.
Changed(old, new, n, time) ==
    (IF old[n] = 0 /\ new[n] # 0 THEN {<<"new", n, time>>} ELSE {})
    \cup (IF old[n] # 0 /\ new[n] # 0 /\ old[n] # new[n] THEN {<<"changed", n, time>>} ELSE {})
    \cup (IF old[n] # 0 /\ new[n] = 0 THEN {<<"deleted", n, time>>} ELSE {})

LEMMA ByPath ==
    ASSUME NEW old, NEW new, NEW time
    PROVE  \A e : e \in Difference(old, new, time) <=> \E n \in Names : e \in Changed(old, new, n, time)
  <1>1. ASSUME NEW e \in Difference(old, new, time)
        PROVE  \E n \in Names : e \in Changed(old, new, n, time)
    <2>1. \/ \E n \in Names : old[n] = 0 /\ new[n] # 0 /\ e = <<"new", n, time>>
          \/ \E n \in Names : old[n] # 0 /\ new[n] # 0 /\ old[n] # new[n] /\ e = <<"changed", n, time>>
          \/ \E n \in Names : old[n] # 0 /\ new[n] = 0 /\ e = <<"deleted", n, time>>
      BY <1>1 DEF Difference
    <2> QED
      BY <2>1 DEF Changed
  <1>2. ASSUME NEW n \in Names, NEW e \in Changed(old, new, n, time)
        PROVE  e \in Difference(old, new, time)
    <2>1. \/ old[n] = 0 /\ new[n] # 0 /\ e = <<"new", n, time>>
          \/ old[n] # 0 /\ new[n] # 0 /\ old[n] # new[n] /\ e = <<"changed", n, time>>
          \/ old[n] # 0 /\ new[n] = 0 /\ e = <<"deleted", n, time>>
      BY <1>2 DEF Changed
    <2> QED
      BY <2>1 DEF Difference
  <1> QED
    BY <1>1, <1>2

\* The events up to j are those up to i and those of the batch.
LEMMA BatchLogged ==
    ASSUME Shape, NEW i \in 0..N, NEW j \in 0..N, i <= j, base = Seen(st, i), scanState.gen # 2
    PROVE  Logged(st, Content(Seen(st, j))) =
               Logged(st, Content(Seen(st, i))) \cup (IF st.inc THEN BatchEvents(i + 1, j) ELSE {})
  <1> PICK old, new, time : /\ old = [n \in Names |-> base[n].v] /\ time = st.epoch
                            /\ new = [n \in Names |-> IF n \in (i + 1)..j /\ src[n] # 0 THEN src[n] ELSE old[n]]
    OBVIOUS
  <1> PICK a, b, tree : a = Content(Seen(st, i)) /\ b = Content(Seen(st, j)) /\ tree = truth.tree
    OBVIOUS
  <1>1. BatchEvents(i + 1, j) = Difference(old, new, time)
    BY DEF BatchEvents
  <1>2. i \in Nat /\ j \in Nat /\ \A n \in Names : n \in Nat
    BY RoundsAssumption DEF Names
  <1>3. \A n \in Names : src[n] \in Nat /\ tree[n] \in Nat
    BY DEF Shape
  <1>4. \A n \in Names : /\ a[n] = IF n <= i /\ src[n] # 0 THEN src[n] ELSE tree[n]
                         /\ b[n] = IF n <= j /\ src[n] # 0 THEN src[n] ELSE tree[n]
    BY DEF Content, Seen, TruthRows, Row, NoRow
  <1>5. \A n \in Names : old[n] = a[n]
    BY DEF Content
  <1>6. ASSUME NEW n \in Names
        PROVE  Changed(tree, b, n, time) = Changed(tree, a, n, time) \cup Changed(old, new, n, time)
    <2>1. CASE n <= i
      <3>1. b[n] = a[n] /\ new[n] = old[n]
        BY <1>2, <1>4, <2>1
      <3>2. Changed(old, new, n, time) = {}
        BY <3>1 DEF Changed
      <3>3. Changed(tree, b, n, time) = Changed(tree, a, n, time)
        BY <3>1 DEF Changed
      <3> QED
        BY <3>2, <3>3
    <2>2. CASE ~(n <= i)
      <3>1. a[n] = tree[n] /\ old[n] = tree[n] /\ new[n] = b[n]
        BY <1>2, <1>4, <1>5, <2>2
      <3>2. Changed(tree, a, n, time) = {}
        BY <3>1 DEF Changed
      <3>3. Changed(old, new, n, time) = Changed(tree, b, n, time)
        BY <3>1 DEF Changed
      <3> QED
        BY <3>2, <3>3
    <2> QED
      BY <2>1, <2>2
  <1>7. Difference(tree, b, time) = Difference(tree, a, time) \cup Difference(old, new, time)
    <2>2. ASSUME NEW e
          PROVE  e \in Difference(tree, b, time) <=> e \in Difference(tree, a, time) \cup Difference(old, new, time)
      <3>1. /\ e \in Difference(tree, b, time) <=> \E n \in Names : e \in Changed(tree, b, n, time)
            /\ e \in Difference(tree, a, time) <=> \E n \in Names : e \in Changed(tree, a, n, time)
            /\ e \in Difference(old, new, time) <=> \E n \in Names : e \in Changed(old, new, n, time)
        BY ByPath
      <3>2. \A n \in Names : e \in Changed(tree, b, n, time) <=>
                                 e \in Changed(tree, a, n, time) \/ e \in Changed(old, new, n, time)
        BY <1>6
      <3> QED
        BY <3>1, <3>2
    <2> QED
      BY <2>2
  <1> QED
    BY <1>1, <1>7 DEF Logged

\* Steps of the writer: the next batch of events, or of rows.
LEMMA FlushEventsSafe ==
    ASSUME IInv, FlushEvents
    PROVE  IInv'
  <1>1. /\ Walking /\ UNCHANGED <<db, plan, mode, st, src, refused>> /\ req = {} /\ walk.batch = walk.written
        /\ UNCHANGED <<base, events, scanState, manifest, cuts, truth>>
    BY DEF FlushEvents, Pipe, env, db
  <1>2. /\ plan = F7 /\ Running /\ Walked /\ Holds(st) /\ Round(st) /\ Saved
        /\ walk.seen \in 0..N /\ walk.sent \in 0..N /\ walk.written \in 0..N /\ walk.batch \in 0..N
        /\ st.at \in 0..N
    BY <1>1, WalkFacts
  <1> PICK i, new : i = walk.written /\ new \in (i + 1)..walk.sent
                 /\ walk' = [walk EXCEPT !.batch = new]
                 /\ req' = IF st.inc /\ BatchEvents(i + 1, new) # {}
                             THEN {[op |-> "events", rows |-> BatchEvents(i + 1, new)]} ELSE {}
    BY DEF FlushEvents
  <1>3. i \in 0..N /\ new \in 0..N /\ i <= new /\ new <= walk.sent
    BY <1>2, RoundsAssumption
  <1>4. /\ walk' = [seen |-> walk.seen, sent |-> walk.sent, written |-> walk.written, batch |-> new,
                    matches |-> walk.matches]
    BY DEF IInv, Shape
  <1>5. base = Seen(st, i) /\ events = Logged(st, Content(Seen(st, i)))
    BY <1>1, <1>2, NothingAhead DEF Walked
  <1>6. scanState.gen # 2 /\ st = manifest /\ Open(manifest)
    BY <1>1, <1>2 DEF Round, Saved, Open
  <1>7. Logged(st, Content(Seen(st, new))) = events \cup (IF st.inc THEN BatchEvents(i + 1, new) ELSE {})
    BY <1>3, <1>5, <1>6, BatchLogged DEF IInv
  <1>8. /\ RowsAhead' = base /\ EventsAhead' = Logged(st, Content(Seen(st, new)))
        /\ Requests' /\ Saved' /\ Ops({"attachEvents", "save", "dropCut", "rows", "events"})'
    <2>1. CASE st.inc /\ BatchEvents(i + 1, new) # {}
      <3> PICK q : q = [op |-> "events", rows |-> BatchEvents(i + 1, new)]
        OBVIOUS
      <3>1. req' = {q} /\ q.op = "events" /\ q.rows = BatchEvents(i + 1, new)
        BY <2>1
      <3>2. RowsAhead' = base /\ EventsAhead' = Logged(st, Content(Seen(st, new)))
        BY <1>1, <1>7, <2>1, <3>1, OneAhead DEF Rows, Events
      <3>3. Requests'
        <4>1. Sound(q)'
          BY <1>1, <1>6, <3>1, Determined DEF Sound, TableOps
        <4> QED
          BY <3>1, <4>1, OneRequest
      <3>4. Saved' /\ Ops({"attachEvents", "save", "dropCut", "rows", "events"})'
        BY <1>1, <1>6, <3>1 DEF Saved, Ops
      <3> QED
        BY <3>2, <3>3, <3>4
    <2>2. CASE ~(st.inc /\ BatchEvents(i + 1, new) # {})
      <3>1. req' = {}
        BY <2>2
      <3>2. RowsAhead' = base /\ EventsAhead' = Logged(st, Content(Seen(st, new)))
        BY <1>1, <1>7, <2>2, <3>1, NothingAhead
      <3>3. Saved' /\ Ops({"attachEvents", "save", "dropCut", "rows", "events"})'
        BY <1>1, <1>6, <3>1 DEF Saved, Ops
      <3> QED
        BY <3>1, <3>2, <3>3, NoRequest
    <2> QED
      BY <2>1, <2>2
  <1>9. Walked'
    <2>1. /\ Seen(st, walk.written)' = base
          /\ Logged(st, Content(Seen(st, walk.batch)))' = Logged(st, Content(Seen(st, new)))
      BY <1>1, <1>4, <1>5, Determined DEF Content
    <2>2. /\ walk'.seen = walk.seen /\ walk'.sent = walk.sent /\ walk'.written = i /\ walk'.batch = new
          /\ walk'.matches = walk.matches
      BY <1>4
    <2> QED
      BY <1>1, <1>2, <1>3, <1>8, <2>1, <2>2 DEF Walked
  <1>10. Running'
    BY <1>1, <1>2, <1>8, <1>9, Determined DEF Running, Tables
  <1>11. Shape'
    BY <1>1, <1>4 DEF IInv, Shape, IsRow
  <1> QED
    BY <1>1, <1>8, <1>10, <1>11, StoredStays DEF IInv, Execution

LEMMA FlushRowsSafe ==
    ASSUME IInv, FlushRows
    PROVE  IInv'
  <1>1. /\ Walking /\ UNCHANGED <<db, plan, mode, st, src, refused>> /\ req = {}
        /\ UNCHANGED <<base, events, scanState, manifest, cuts, truth>>
    BY DEF FlushRows, Pipe, env, db
  <1>2. /\ plan = F7 /\ Running /\ Walked /\ Holds(st) /\ Round(st) /\ Saved
        /\ walk.seen \in 0..N /\ walk.sent \in 0..N /\ walk.written \in 0..N /\ walk.batch \in 0..N
        /\ st.at \in 0..N
    BY <1>1, WalkFacts
  <1> PICK i, j, q : /\ i = walk.written /\ j \in (i + 1)..walk.batch
                     /\ walk' = [walk EXCEPT !.written = j] /\ req' = {q}
                     /\ q = [op |-> "rows", tree |-> src, gen |-> st.gen, names |-> {n \in (i + 1)..j : src[n] # 0}]
    BY DEF FlushRows
  <1>3. i \in 0..N /\ j \in 0..N /\ i <= j /\ j <= walk.batch
    BY <1>2, RoundsAssumption
  <1>4. /\ walk' = [seen |-> walk.seen, sent |-> walk.sent, written |-> j, batch |-> walk.batch,
                    matches |-> walk.matches]
    BY DEF IInv, Shape
  <1>5. base = Seen(st, i) /\ events = Logged(st, Content(Seen(st, walk.batch)))
    BY <1>1, <1>2, NothingAhead DEF Walked
  <1>6. st = manifest /\ Open(manifest)
    BY <1>1, <1>2 DEF Round, Saved, Open
  <1>7. q.op = "rows" /\ q.tree = src /\ q.gen = st.gen /\ q.names = {n \in (i + 1)..j : src[n] # 0}
    OBVIOUS
  <1>8. RowsAhead' = Seen(st, j) /\ EventsAhead' = events
    <2>1. Rows(q)' = [n \in Names |-> IF n \in q.names THEN [v |-> src[n], g |-> st.gen] ELSE base[n]]
      BY <1>1, <1>7 DEF Rows
    <2>2. Events(q)' = events
      BY <1>1, <1>7 DEF Events
    <2>3. ASSUME NEW n \in Names
          PROVE  (IF n \in q.names THEN [v |-> src[n], g |-> st.gen] ELSE base[n]) = Seen(st, j)[n]
      <3>1. n \in Nat /\ i \in Nat /\ j \in Nat
        BY <1>3, RoundsAssumption DEF Names
      <3>2. n \in q.names <=> i < n /\ n <= j /\ src[n] # 0
        BY <1>7, <3>1
      <3>3. Seen(st, j)[n] = IF n <= j /\ src[n] # 0 THEN [v |-> src[n], g |-> st.gen] ELSE TruthRows[n]
        BY DEF Seen, Row
      <3>4. base[n] = IF n <= i /\ src[n] # 0 THEN [v |-> src[n], g |-> st.gen] ELSE TruthRows[n]
        BY <1>5 DEF Seen, Row
      <3> QED
        BY <1>3, <3>1, <3>2, <3>3, <3>4
    <2>4. Seen(st, j) = [n \in Names |-> Seen(st, j)[n]]
      BY DEF Seen
    <2> QED
      BY <2>1, <2>2, <2>3, <2>4, OneAhead
  <1>9. Requests'
    <2>1. Sound(q)'
      BY <1>1, <1>6, <1>7, Determined DEF Sound, TableOps
    <2> QED
      BY <2>1, OneRequest
  <1>10. Walked'
    <2>1. /\ Seen(st, walk.written)' = Seen(st, j)
          /\ Logged(st, Content(Seen(st, walk.batch)))' = events
      BY <1>1, <1>4, <1>5, Determined DEF Content
    <2>2. /\ walk'.seen = walk.seen /\ walk'.sent = walk.sent /\ walk'.written = j /\ walk'.batch = walk.batch
          /\ walk'.matches = walk.matches /\ st.at <= j
      BY <1>2, <1>3, <1>4 DEF Walked
    <2> QED
      BY <1>1, <1>2, <1>3, <1>8, <2>1, <2>2 DEF Walked
  <1>11. Running'
    <2>1. Saved' /\ Ops({"attachEvents", "save", "dropCut", "rows", "events"})'
      BY <1>1, <1>6, <1>7 DEF Saved, Ops
    <2> QED
      BY <1>1, <1>2, <1>10, <2>1, Determined DEF Running, Tables
  <1>12. Shape'
    BY <1>1, <1>4 DEF IInv, Shape, IsRow
  <1> QED
    BY <1>1, <1>9, <1>11, <1>12, StoredStays DEF IInv, Execution

\* Paths i + 1 .. j, none of which exists, add nothing to the tables.
LEMMA SeenNothing ==
    ASSUME NEW m, NEW i \in 0..N, NEW j \in 0..N, i <= j,
           \A n \in Names : i < n /\ n <= j => src[n] = 0
    PROVE  Seen(m, j) = Seen(m, i)
  <1>1. i \in Nat /\ j \in Nat /\ \A n \in Names : n \in Nat
    BY RoundsAssumption DEF Names
  <1>2. ASSUME NEW n \in Names PROVE (n <= j /\ src[n] # 0) <=> (n <= i /\ src[n] # 0)
    BY <1>1
  <1> QED
    BY <1>2 DEF Seen

\* Two rows of the same round speak of the same tables.
SameRound(a, b) == a.gen = b.gen /\ a.inc = b.inc /\ a.epoch = b.epoch

LEMMA SameTables ==
    ASSUME NEW a, NEW b, SameRound(a, b)
    PROVE  /\ \A k : Seen(a, k) = Seen(b, k)
           /\ \A D : Swept(a, D) = Swept(b, D)
           /\ Final(a) = Final(b)
           /\ \A tree : Logged(a, tree) = Logged(b, tree)
  BY DEF SameRound, Seen, Swept, Final, Logged

\* The row of the next checkpoint: the version is higher, the cut is the last
\* one.  When no path since exists, that cut says all there is to say.
LEMMA CheckpointSafe ==
    ASSUME IInv, Checkpoint
    PROVE  IInv'
  <1>1. /\ Walking /\ UNCHANGED <<db, req, mode, src, refused>> /\ req = {}
        /\ walk.written = walk.sent /\ walk.batch = walk.written /\ walk.sent = walk.seen
        /\ UNCHANGED <<base, events, scanState, manifest, cuts, truth>>
        /\ plan' = SealPlan \o plan
    BY DEF Checkpoint, Barrier, env, db
  <1>2. /\ plan = F7 /\ Running /\ Walked /\ Holds(st) /\ Round(st) /\ Saved
        /\ walk.seen \in 0..N /\ walk.sent \in 0..N /\ walk.written \in 0..N /\ walk.batch \in 0..N
        /\ st.at \in 0..N /\ IsRow(st)
    BY <1>1, WalkFacts
  <1> PICK r, k : r = st' /\ k = walk.seen
    OBVIOUS
  <1>3. r = [version |-> st.version + 1, key |-> st.key, gen |-> st.gen, inc |-> st.inc, phase |-> st.phase,
             epoch |-> st.epoch, at |-> k, base |-> st.base, cut |-> st.cut]
    BY <1>2 DEF Checkpoint, IsRow
  <1>4. /\ IsRow(r) /\ r.version = st.version + 1 /\ r.at = k /\ r.phase = RUNNING /\ r.cut = st.cut
        /\ r.base = st.base /\ r.gen = st.gen /\ r.inc = st.inc /\ SameRound(r, st)
    <2>1. st.version \in Int /\ st.inc \in BOOLEAN /\ st.phase \in 0..3
      BY <1>2 DEF IsRow
    <2>2. st.phase = RUNNING
      BY <1>2 DEF Walked
    <2> QED
      BY <1>3, <2>1, <2>2 DEF IsRow, SameRound
  <1>5. walk' = [seen |-> k, sent |-> walk.sent, written |-> walk.written, batch |-> walk.batch, matches |-> TRUE]
    BY DEF Checkpoint, IInv, Shape
  <1>6. base = Seen(r, k) /\ events = Logged(r, Content(Seen(r, k)))
    <2>1. base = Seen(st, k) /\ events = Logged(st, Content(Seen(st, k)))
      BY <1>1, <1>2, NothingAhead DEF Walked
    <2> QED
      BY <1>4, <2>1, SameTables
  <1>7. Shape'
    BY <1>1, <1>4, <1>5 DEF IInv, Shape, IsRow
  <1>8. st = manifest /\ Open(manifest)
    BY <1>1, <1>2 DEF Saved, Round, Open
  <1>9. Round(r)
    BY <1>2, <1>4 DEF Round, Active
  <1>10. Reached(r, base, events)
    BY <1>4, <1>6 DEF Reached
  <1>11. Ahead'
    <2>1. Open(manifest)' /\ Round(r)' /\ Reached(r, base, events)'
      BY <1>1, <1>8, <1>9, <1>10, Determined
    <2>2. r.version > manifest.version /\ r.base = manifest.base
      BY <1>2, <1>4, <1>8 DEF IsRow
    <2> QED
      BY <1>1, <2>1, <2>2 DEF Ahead
  <1>12. Walked'
    <2>1. RowsAhead' = base /\ EventsAhead' = events
      BY <1>1, NothingAhead
    <2>2. Seen(r, k)' = Seen(r, k) /\ Content(Seen(r, k))' = Content(Seen(r, k))
      BY <1>1, Determined DEF Content
    <2>3. Logged(r, Content(Seen(r, k)))' = Logged(r, Content(Seen(r, k)))
      BY <1>1, <2>2, Determined
    <2>4. /\ walk'.seen = k /\ walk'.sent = k /\ walk'.written = k /\ walk'.batch = k /\ r.at = k
          /\ k \in 0..N
      BY <1>1, <1>2, <1>4, <1>5
    <2>5. k \in Nat /\ \A n \in Names : n \in Nat
      BY <2>4, RoundsAssumption DEF Names
    <2>6. \A n \in Names : ~(r.at < n /\ n <= walk'.seen)
      BY <2>4, <2>5
    <2>7. r.at <= walk'.written /\ walk'.written <= walk'.batch /\ walk'.batch <= walk'.sent /\ walk'.sent <= walk'.seen
      BY <2>4, <2>5
    <2> QED
      BY <1>4, <1>6, <2>1, <2>2, <2>3, <2>4, <2>6, <2>7 DEF Walked
  <1>13. Disk' /\ Requests' /\ refused' \subseteq {"key"}
    BY <1>1, StoredStays
  <1>14. CASE walk.matches
    <2>1. plan' = K4
      BY <1>1, <1>2, <1>14, Composed DEF SealPlan
    <2>2. Holds(r)
      <3>1. \A n \in Names : st.at < n /\ n <= k => src[n] = 0
        BY <1>2, <1>14 DEF Walked
      <3>2. st.at \in 0..N /\ k \in 0..N /\ st.at <= k
        BY <1>1, <1>2, RoundsAssumption DEF Walked
      <3>3. Seen(st, k) = Seen(st, st.at)
        BY <3>1, <3>2, SeenNothing
      <3>4. st.phase = RUNNING
        BY <1>2 DEF Walked
      <3>5. /\ cuts[st.cut].rows = Seen(st, st.at)
            /\ cuts[st.cut].events = Logged(st, Content(Seen(st, st.at)))
        BY <1>2, <3>4, CutRows
      <3>6. cuts[r.cut].rows = base /\ cuts[r.cut].events = events
        <4>1. Seen(r, k) = Seen(st, st.at)
          BY <1>4, <3>3, SameTables
        <4>2. events = Logged(st, Content(Seen(st, st.at)))
          BY <1>4, <1>6, <4>1, SameTables
        <4> QED
          BY <1>4, <1>6, <3>5, <4>1, <4>2
      <3> QED
        BY <1>2, <1>4, <1>9, <1>10, <3>6 DEF Holds
    <2>3. ToSave'
      BY <1>1, <1>11, <1>12, <2>1, <2>2, Determined DEF ToSave, Tables
    <2> QED
      BY <1>7, <1>13, <2>3 DEF IInv, Execution
  <1>15. CASE ~walk.matches
    <2>1. plan' = K1
      BY <1>1, <1>2, <1>15, Composed DEF SealPlan
    <2>2. ToClone'
      BY <1>1, <1>11, <1>12, <2>1 DEF ToClone, Tables
    <2> QED
      BY <1>7, <1>13, <2>2 DEF IInv, Execution
  <1> QED
    BY <1>14, <1>15

\* The cut is there, so the round goes back to it.
LEMMA ReconnectSafe ==
    ASSUME IInv, Reconnect
    PROVE  IInv'
  <1>1. /\ Walking /\ UNCHANGED <<db, req, mode, st, src>> /\ req = {}
        /\ UNCHANGED <<base, events, scanState, manifest, cuts, truth>>
    BY DEF Reconnect, Barrier, db
  <1>2. plan = F7 /\ Running /\ Walked /\ Holds(st) /\ Round(st) /\ Saved /\ IsRow(st)
    BY <1>1, WalkFacts
  <1>3. CutExists(st.cut)
    BY <1>2 DEF Holds
  <1>4. plan' = W1 /\ walk' = [From(st.at) EXCEPT !.matches = TRUE] /\ refused' = refused
    BY <1>2, <1>3, Composed DEF Reconnect
  <1>5. walk' = [seen |-> st.at, sent |-> st.at, written |-> st.at, batch |-> st.at, matches |-> TRUE]
    BY <1>4 DEF From
  <1>6. Shape'
    BY <1>1, <1>5 DEF IInv, Shape, IsRow
  <1>7. TakingUp'
    <2>1. st = manifest /\ Open(st)
      BY <1>1, <1>2 DEF Saved, Round, Open
    <2>2. Restoring(st.cut)'
      BY <1>1, <1>4, RestorePlans DEF Restoring
    <2>3. walk' = [From(st'.at) EXCEPT !.matches = walk'.matches]
      <3>1. walk'.matches = TRUE /\ st'.at = st.at
        BY <1>1, <1>5
      <3> QED
        BY <1>4, <3>1
    <2>4. st.phase = RUNNING
      BY <1>2 DEF Walked
    <2> QED
      BY <1>1, <1>4, <2>1, <2>2, <2>3, <2>4, Determined DEF TakingUp, From
  <1> QED
    BY <1>1, <1>4, <1>6, <1>7, StoredStays DEF IInv, Execution

\* The walk ends: what is left to do is in the row to be saved.
LEMMA EndOfSourceSafe ==
    ASSUME IInv, EndOfSource
    PROVE  IInv'
  <1>1. /\ Walking /\ UNCHANGED <<db, req, mode, walk, src, refused>> /\ req = {}
        /\ walk.written = walk.sent /\ walk.batch = walk.written /\ walk.sent = N
        /\ UNCHANGED <<base, events, scanState, manifest, cuts, truth>>
        /\ plan' = SealPlan \o Finish
    BY DEF EndOfSource, Barrier, env, db
  <1>2. /\ plan = F7 /\ Running /\ Walked /\ Holds(st) /\ Round(st) /\ Saved
        /\ walk.seen \in 0..N /\ walk.sent \in 0..N /\ walk.written \in 0..N /\ walk.batch \in 0..N
        /\ st.at \in 0..N /\ IsRow(st)
    BY <1>1, WalkFacts
  <1> PICK r : r = st'
    OBVIOUS
  <1>3. r = [version |-> st.version + 1, key |-> st.key, gen |-> st.gen, inc |-> st.inc, phase |-> FINALIZING,
             epoch |-> st.epoch, at |-> st.at, base |-> st.base, cut |-> st.cut]
    BY <1>2 DEF EndOfSource, IsRow
  <1>4. /\ IsRow(r) /\ r.version = st.version + 1 /\ r.at = st.at /\ r.phase = FINALIZING /\ r.cut = st.cut
        /\ r.base = st.base /\ r.gen = st.gen /\ r.inc = st.inc /\ SameRound(r, st)
    <2>1. st.version \in Int /\ st.inc \in BOOLEAN
      BY <1>2 DEF IsRow
    <2> QED
      BY <1>3, <2>1 DEF IsRow, SameRound, FINALIZING
  <1>5. base = Seen(r, N) /\ events = Logged(r, Content(Seen(r, N)))
    <2>1. base = Seen(st, N) /\ events = Logged(st, Content(Seen(st, N)))
      BY <1>1, <1>2, NothingAhead DEF Walked
    <2> QED
      BY <1>4, <2>1, SameTables
  <1>6. Shape'
    BY <1>1, <1>4 DEF IInv, Shape, IsRow
  <1>7. st = manifest /\ Open(manifest)
    BY <1>1, <1>2 DEF Saved, Round, Open
  <1>8. Round(r)
    BY <1>2, <1>4 DEF Round, Active
  <1>9. Reached(r, base, events)
    BY <1>4, <1>5 DEF Reached, RUNNING, FINALIZING
  <1>10. Ahead' /\ Ended'
    <2>1. Open(manifest)' /\ Round(r)' /\ Reached(r, base, events)'
      BY <1>1, <1>7, <1>8, <1>9, Determined
    <2>2. r.version > manifest.version /\ r.base = manifest.base
      BY <1>2, <1>4, <1>7 DEF IsRow
    <2>3. RowsAhead' = base' /\ EventsAhead' = events'
      BY <1>1, NothingAhead
    <2> QED
      BY <1>1, <1>4, <2>1, <2>2, <2>3 DEF Ahead, Ended
  <1>11. Disk' /\ Requests' /\ refused' \subseteq {"key"}
    BY <1>1, StoredStays
  <1>12. CASE walk.matches
    <2>1. plan' = E4
      BY <1>1, <1>12, Composed DEF SealPlan
    <2>2. Holds(r)
      <3>1. \A n \in Names : st.at < n /\ n <= N => src[n] = 0
        <4>1. walk.seen = N
          BY <1>1, <1>2, RoundsAssumption DEF Walked
        <4> QED
          BY <1>2, <1>12, <4>1 DEF Walked
      <3>2. st.at \in 0..N /\ N \in 0..N /\ st.at <= N
        BY <1>2, RoundsAssumption
      <3>3. Seen(st, N) = Seen(st, st.at)
        BY <3>1, <3>2, SeenNothing
      <3>4. st.phase = RUNNING
        BY <1>2 DEF Walked
      <3>5. /\ cuts[st.cut].rows = Seen(st, st.at)
            /\ cuts[st.cut].events = Logged(st, Content(Seen(st, st.at)))
        BY <1>2, <3>4, CutRows
      <3>6. cuts[r.cut].rows = base /\ cuts[r.cut].events = events
        <4>1. Seen(r, N) = Seen(st, st.at)
          BY <1>4, <3>3, SameTables
        <4>2. events = Logged(st, Content(Seen(st, st.at)))
          BY <1>4, <1>5, <4>1, SameTables
        <4> QED
          BY <1>4, <1>5, <3>5, <4>1, <4>2
      <3> QED
        BY <1>2, <1>4, <1>8, <1>9, <3>6 DEF Holds
    <2>3. ToSave'
      BY <1>1, <1>10, <2>1, <2>2, Determined DEF ToSave, Tables
    <2> QED
      BY <1>6, <1>11, <2>3 DEF IInv, Execution
  <1>13. CASE ~walk.matches
    <2>1. plan' = E1
      BY <1>1, <1>13, Composed DEF SealPlan
    <2>2. ToClone'
      BY <1>1, <1>10, <2>1 DEF ToClone, Tables
    <2> QED
      BY <1>6, <1>11, <2>2 DEF IInv, Execution
  <1> QED
    BY <1>12, <1>13

-----------------------------------------------------------------------------
(* The end of a round.                                                     *)

\* Old rows of paths that do not exist are all that remains of the old tree.
LEMMA ResolveSafe ==
    ASSUME IInv, Resolve
    PROVE  IInv'
  <1>1. /\ Head(plan) = "resolve" /\ plan # << >> /\ req = {} /\ req' = {} /\ plan' = Tail(plan)
        /\ UNCHANGED <<db, mode, st, walk, src, refused, base, events, scanState, manifest, cuts, truth>>
        /\ del' = {}
        /\ todo' = IF st.inc THEN {n \in Names : base[n] # NoRow /\ base[n].g # st.gen} ELSE {}
    BY DEF Resolve, At, Follow, db, env
  <1>2. Running /\ plan = E5
    BY <1>1, Whereabouts DEF IInv
  <1>3. plan' = E6
    BY <1>1, <1>2, SealPlans
  <1>4. Ended /\ Holds(st) /\ Round(st) /\ st = manifest
    <2>1. E5 # F7 /\ E5 # C5
      BY DEF E5, F7, C5
    <2> QED
      BY <1>1, <1>2, <2>1 DEF Running, Tables, Saved, Holds
  <1>5. st.phase = FINALIZING /\ Reached(st, base, events)
    BY <1>1, <1>4, NothingAhead DEF Ended
  <1>6. \A n \in Names : src[n] \in Nat /\ truth.tree[n] \in Nat /\ n \in Nat /\ n <= N
    BY RoundsAssumption DEF IInv, Shape, Names
  <1>7. st.gen # scanState.gen /\ (st.inc \/ truth.tree = NoTree)
    BY <1>4 DEF Round
  <1> PICK D, O : /\ D = todo'
                  /\ O = {n \in Names : src[n] = 0 /\ truth.tree[n] # 0}
    OBVIOUS
  <1>8. base = Seen(st, N) \/ base = Final(st)
    BY <1>5 DEF Reached, RUNNING, FINALIZING
  <1>9. D \subseteq O /\ base = Swept(st, D)
    <2>1. CASE base = Seen(st, N)
      <3>1. \A n \in Names : base[n] = IF src[n] # 0 THEN Row(src[n], st.gen) ELSE TruthRows[n]
        BY <1>6, <2>1 DEF Seen
      <3>2. \A n \in Names : base[n] = IF src[n] # 0 THEN [v |-> src[n], g |-> st.gen]
                                       ELSE IF truth.tree[n] = 0 THEN NoRow
                                       ELSE [v |-> truth.tree[n], g |-> scanState.gen]
        BY <3>1 DEF Row, TruthRows
      <3>3. ASSUME NEW n \in Names PROVE (base[n] # NoRow /\ base[n].g # st.gen) <=> n \in O
        <4>1. CASE src[n] # 0
          <5>2. base[n] = [v |-> src[n], g |-> st.gen]
            BY <3>2, <4>1
          <5>1. base[n].g = st.gen
            BY <5>2
          <5> QED
            BY <4>1, <5>1
        <4>2. CASE src[n] = 0 /\ truth.tree[n] = 0
          BY <3>2, <4>2
        <4>3. CASE src[n] = 0 /\ truth.tree[n] # 0
          <5>3. base[n] = [v |-> truth.tree[n], g |-> scanState.gen]
            BY <3>2, <4>3
          <5>1. base[n].g = scanState.gen /\ base[n].v = truth.tree[n] /\ NoRow.v = 0
            BY <5>3 DEF NoRow
          <5>2. base[n] # NoRow
            BY <4>3, <5>1
          <5> QED
            BY <1>7, <4>3, <5>1, <5>2
        <4> QED
          BY <4>1, <4>2, <4>3
      <3>4. D = O
        <4>1. CASE st.inc
          BY <1>1, <3>3, <4>1
        <4>2. CASE ~st.inc
          <5>1. O = {}
            BY <1>7, <4>2 DEF NoTree
          <5> QED
            BY <1>1, <4>2, <5>1
        <4> QED
          BY <4>1, <4>2
      <3>5. \A n \in Names : Swept(st, D)[n] = base[n]
        <4>1. \A n \in Names : TruthRows[n] = NoRow \/ src[n] # 0 \/ n \in O
          BY DEF TruthRows, Row
        <4> QED
          BY <3>1, <3>4, <4>1 DEF Swept
      <3>6. base = [n \in Names |-> base[n]] /\ Swept(st, D) = [n \in Names |-> Swept(st, D)[n]]
        BY <2>1 DEF Seen, Swept
      <3> QED
        BY <3>4, <3>5, <3>6
    <2>2. CASE base = Final(st)
      <3>1. \A n \in Names : base[n] = IF src[n] = 0 THEN NoRow ELSE [v |-> src[n], g |-> st.gen]
        BY <2>2 DEF Final, Row
      <3>2. D = {}
        <4>1. \A n \in Names : base[n] # NoRow => base[n].g = st.gen
          <5> SUFFICES ASSUME NEW n \in Names, base[n] # NoRow PROVE base[n].g = st.gen
            OBVIOUS
          <5>1. base[n] = [v |-> src[n], g |-> st.gen]
            BY <3>1
          <5> QED
            BY <5>1
        <4> QED
          BY <1>1, <4>1
      <3>3. \A n \in Names : Swept(st, D)[n] = base[n]
        BY <3>1, <3>2 DEF Swept, Row
      <3>4. base = [n \in Names |-> base[n]] /\ Swept(st, D) = [n \in Names |-> Swept(st, D)[n]]
        BY <2>2 DEF Final, Swept
      <3> QED
        BY <3>2, <3>3, <3>4
    <2> QED
      BY <1>8, <2>1, <2>2
  <1>10. events = Logged(st, Content(Swept(st, D)))
    BY <1>5, <1>9 DEF Reached
  <1>11. Sweeping'
    <2>1. RowsAhead' = base /\ EventsAhead' = events
      BY <1>1, NothingAhead
    <2>2. /\ Swept(st, D)' = Swept(st, D)
          /\ Logged(st, Content(Swept(st, D)))' = Logged(st, Content(Swept(st, D)))
      <3>1. Swept(st, D)' = Swept(st, D)
        <4> PICK m, E : m = st /\ E = D
          OBVIOUS
        <4>1. Swept(m, E)' = Swept(m, E) /\ m' = m /\ E' = E
          BY <1>1, Determined
        <4> QED
          BY <1>1, <4>1
      <3>2. Content(Swept(st, D))' = Content(Swept(st, D))
        BY <3>1 DEF Content
      <3> QED
        BY <1>1, <3>1, <3>2, Determined
    <2>3. D \ del' = D
      BY <1>1
    <2>4. Holds(st)'
      BY <1>1, <1>4, Determined
    <2>5. Ops({"events", "delete"})'
      BY <1>1 DEF Ops
    <2>6. st'.inc \/ todo' = {}
      BY <1>1
    <2> QED
      BY <1>1, <1>3, <1>4, <1>5, <1>9, <1>10, <2>1, <2>2, <2>3, <2>4, <2>5, <2>6 DEF Sweeping
  <1>12. Shape'
    BY <1>1, ShapeStays DEF IInv
  <1> QED
    BY <1>1, <1>11, <1>12, StoredStays DEF IInv, Execution

\* The tables in the middle of the sweep.
LEMMA SweepFacts ==
    ASSUME IInv, plan # << >>, Head(plan) = "final", req = {}
    PROVE  /\ plan = E6 /\ st = manifest /\ Holds(st) /\ Round(st) /\ st.phase = FINALIZING
           /\ todo \subseteq {n \in Names : src[n] = 0 /\ truth.tree[n] # 0} /\ del \subseteq todo
           /\ st.inc \/ todo = {}
           /\ base = Swept(st, todo) /\ events = Logged(st, Content(Swept(st, todo \ del)))
  <1>1. Sweeping /\ plan = E6
    BY Whereabouts DEF IInv
  <1> QED
    BY <1>1, NothingAhead DEF Sweeping, Holds

\* What a batch of final events adds.
LEMMA SweptLogged ==
    ASSUME Shape, NEW D, D \subseteq todo, st.inc,
           todo \subseteq {n \in Names : src[n] = 0 /\ truth.tree[n] # 0}
    PROVE  Logged(st, Content(Swept(st, todo \ D))) =
               Logged(st, Content(Swept(st, todo))) \cup {<<"deleted", n, st.epoch>> : n \in D}
  <1> PICK a, b, tree, time, B : /\ a = Content(Swept(st, todo)) /\ b = Content(Swept(st, todo \ D))
                                 /\ tree = truth.tree /\ time = st.epoch
                                 /\ B = {<<"deleted", n, time>> : n \in D}
    OBVIOUS
  <1>1. \A n \in Names : /\ a[n] = IF src[n] # 0 THEN src[n] ELSE IF n \in todo THEN tree[n] ELSE 0
                         /\ b[n] = IF src[n] # 0 THEN src[n] ELSE IF n \in todo \ D THEN tree[n] ELSE 0
    BY DEF Content, Swept, TruthRows, Row, NoRow
  <1>2. \A n \in Names \ D : b[n] = a[n]
    BY <1>1
  <1>3. \A n \in D : n \in Names /\ a[n] = tree[n] /\ tree[n] # 0 /\ b[n] = 0
    BY <1>1
  <1>4. ASSUME NEW e
        PROVE  e \in Difference(tree, b, time) <=> e \in Difference(tree, a, time) \cup B
    <2>1. /\ e \in Difference(tree, b, time) <=> \E n \in Names : e \in Changed(tree, b, n, time)
          /\ e \in Difference(tree, a, time) <=> \E n \in Names : e \in Changed(tree, a, n, time)
      BY ByPath
    <2>2. \A n \in Names \ D : Changed(tree, b, n, time) = Changed(tree, a, n, time)
      BY <1>2 DEF Changed
    <2>3. \A n \in D : Changed(tree, b, n, time) = {<<"deleted", n, time>>} /\ Changed(tree, a, n, time) = {}
      BY <1>3 DEF Changed
    <2>4. e \in B <=> \E n \in D : e \in Changed(tree, b, n, time)
      BY <2>3
    <2>5. \A n \in Names : e \in Changed(tree, b, n, time) <=>
                               e \in Changed(tree, a, n, time) \/ (n \in D /\ e \in Changed(tree, b, n, time))
      BY <2>2, <2>3
    <2> QED
      BY <1>3, <2>1, <2>4, <2>5
  <1>5. Difference(tree, b, time) = Difference(tree, a, time) \cup B
    BY <1>4
  <1> QED
    BY <1>5 DEF Logged

LEMMA FinalEventsSafe ==
    ASSUME IInv, FinalEvents
    PROVE  IInv'
  <1>1. /\ Head(plan) = "final" /\ plan # << >> /\ req = {} /\ del = {}
        /\ UNCHANGED <<db, plan, mode, st, walk, todo, src, refused, base, events, scanState, manifest, cuts, truth>>
    BY DEF FinalEvents, At, db, env
  <1>2. /\ plan = E6 /\ st = manifest /\ Holds(st) /\ Round(st) /\ st.phase = FINALIZING
        /\ todo \subseteq {n \in Names : src[n] = 0 /\ truth.tree[n] # 0}
        /\ st.inc \/ todo = {}
        /\ base = Swept(st, todo) /\ events = Logged(st, Content(Swept(st, todo \ del)))
    BY <1>1, SweepFacts
  <1> PICK D : /\ D \in (SUBSET todo) \ {{}} /\ del' = D
               /\ req' = {[op |-> "events", rows |-> {<<"deleted", n, st.epoch>> : n \in D}]}
    BY DEF FinalEvents
  <1> PICK E : E = {<<"deleted", n, st.epoch>> : n \in D}
    OBVIOUS
  <1> PICK q : q = [op |-> "events", rows |-> E]
    OBVIOUS
  <1>3. q.op = "events" /\ q.rows = {<<"deleted", n, st.epoch>> : n \in D} /\ D \subseteq todo /\ st.inc
    <2>1. q.op = "events" /\ q.rows = E
      OBVIOUS
    <2>2. D \subseteq todo /\ D # {}
      OBVIOUS
    <2> QED
      BY <1>2, <2>1, <2>2
  <1>4. RowsAhead' = base /\ EventsAhead' = events \cup q.rows
    <2>0. req' = {q}
      OBVIOUS
    <2>1. Rows(q)' = base' /\ Events(q)' = events' \cup q.rows
      BY <1>3 DEF Rows, Events
    <2> QED
      BY <1>1, <2>0, <2>1, OneAhead
  <1>5. events \cup q.rows = Logged(st, Content(Swept(st, todo \ D)))
    <2>1. events = Logged(st, Content(Swept(st, todo)))
      <3>1. todo \ del = todo
        BY <1>1
      <3> QED
        BY <1>2, <3>1
    <2> QED
      BY <1>2, <1>3, <2>1, SweptLogged DEF IInv
  <1>6. Requests'
    <2>1. Open(manifest)
      BY <1>2 DEF Round, Open
    <2>2. Sound(q)'
      BY <1>1, <1>3, <2>1, Determined DEF Sound, TableOps
    <2> QED
      BY <2>2, OneRequest
  <1>7. Sweeping'
    <2>1. Swept(st, todo)' = Swept(st, todo) /\ Holds(st)'
      BY <1>1, <1>2, Determined
    <2>2. Logged(st, Content(Swept(st, todo \ del)))' = Logged(st, Content(Swept(st, todo \ D)))
      BY <1>1, Determined DEF Content
    <2>3. Ops({"events", "delete"})'
      BY <1>3 DEF Ops
    <2> QED
      BY <1>1, <1>2, <1>3, <1>4, <1>5, <2>1, <2>2, <2>3, Determined DEF Sweeping
  <1>8. Shape'
    BY <1>1, ShapeStays DEF IInv
  <1> QED
    BY <1>1, <1>6, <1>7, <1>8, StoredStays DEF IInv, Execution

LEMMA FinalDeleteSafe ==
    ASSUME IInv, FinalDelete
    PROVE  IInv'
  <1>1. /\ Head(plan) = "final" /\ plan # << >> /\ req = {} /\ del # {}
        /\ UNCHANGED <<db, plan, mode, st, walk, src, refused, base, events, scanState, manifest, cuts, truth>>
        /\ todo' = todo \ del /\ del' = {}
    BY DEF FinalDelete, At, db, env
  <1>2. /\ plan = E6 /\ st = manifest /\ Holds(st) /\ Round(st) /\ st.phase = FINALIZING
        /\ todo \subseteq {n \in Names : src[n] = 0 /\ truth.tree[n] # 0} /\ del \subseteq todo
        /\ st.inc \/ todo = {}
        /\ base = Swept(st, todo) /\ events = Logged(st, Content(Swept(st, todo \ del)))
    BY <1>1, SweepFacts
  <1> PICK q : q = [op |-> "delete", names |-> del, gen |-> st.gen]
    OBVIOUS
  <1>3. req' = {q} /\ q.op = "delete" /\ q.names = del /\ q.gen = st.gen
    BY DEF FinalDelete
  <1>4. RowsAhead' = Swept(st, todo \ del) /\ EventsAhead' = events
    <2>1. Rows(q)' = [n \in Names |-> IF n \in del /\ base[n].g # st.gen THEN NoRow ELSE base[n]]
      BY <1>1, <1>3 DEF Rows, Remaining
    <2>2. Events(q)' = events
      BY <1>1, <1>3 DEF Events
    <2>3. ASSUME NEW n \in Names
          PROVE  (IF n \in del /\ base[n].g # st.gen THEN NoRow ELSE base[n]) = Swept(st, todo \ del)[n]
      <3>1. base[n] = IF src[n] # 0 THEN Row(src[n], st.gen) ELSE IF n \in todo THEN TruthRows[n] ELSE NoRow
        BY <1>2 DEF Swept
      <3>2. Swept(st, todo \ del)[n] =
              IF src[n] # 0 THEN Row(src[n], st.gen) ELSE IF n \in todo \ del THEN TruthRows[n] ELSE NoRow
        BY DEF Swept
      <3>3. CASE n \in del
        <4>1. src[n] = 0 /\ truth.tree[n] # 0 /\ n \in todo
          BY <1>2, <3>3
        <4>2. base[n] = [v |-> truth.tree[n], g |-> scanState.gen]
          BY <3>1, <4>1 DEF TruthRows, Row
        <4>3. base[n].g # st.gen
          BY <1>2, <4>2 DEF Round
        <4> QED
          BY <3>2, <3>3, <4>1, <4>3
      <3>4. CASE n \notin del
        BY <3>1, <3>2, <3>4
      <3> QED
        BY <3>3, <3>4
    <2>4. Swept(st, todo \ del) = [n \in Names |-> Swept(st, todo \ del)[n]]
      BY DEF Swept
    <2>5. Rows(q)' = Swept(st, todo \ del)
      BY <2>1, <2>3, <2>4
    <2> QED
      BY <1>3, <2>2, <2>5, OneAhead
  <1>5. Requests'
    <2>1. Open(manifest)
      BY <1>2 DEF Round, Open
    <2>2. Sound(q)'
      BY <1>1, <1>3, <2>1, Determined DEF Sound, TableOps
    <2> QED
      BY <1>3, <2>2, OneRequest
  <1>6. Sweeping'
    <2> PICK T : T = todo \ del
      OBVIOUS
    <2>1. Holds(st)'
      BY <1>1, <1>2, Determined
    <2>2. Swept(st, todo)' = Swept(st, T)
      BY <1>1, Determined
    <2>3. Logged(st, Content(Swept(st, todo \ del)))' = Logged(st, Content(Swept(st, T)))
      <3>1. todo' \ del' = T
        BY <1>1
      <3> QED
        BY <1>1, <3>1, Determined DEF Content
    <2>4. Ops({"events", "delete"})'
      BY <1>3 DEF Ops
    <2>5. /\ todo' \subseteq {n \in Names : src[n] = 0 /\ truth.tree[n] # 0}' /\ (del' \subseteq todo')
          /\ st'.inc \/ todo' = {}
      BY <1>1, <1>2
    <2> QED
      BY <1>1, <1>2, <1>4, <2>1, <2>2, <2>3, <2>4, <2>5 DEF Sweeping
  <1>7. Shape'
    BY <1>1, ShapeStays DEF IInv
  <1> QED
    BY <1>1, <1>5, <1>6, <1>7, StoredStays DEF IInv, Execution

LEMMA FinalDoneSafe ==
    ASSUME IInv, FinalDone
    PROVE  IInv'
  <1>1. /\ Head(plan) = "final" /\ plan # << >> /\ req = {} /\ del = {} /\ todo = {} /\ plan' = Tail(plan)
        /\ UNCHANGED <<db, req, mode, st, walk, src, refused, todo, del>>
        /\ UNCHANGED <<base, events, scanState, manifest, cuts, truth>>
    BY DEF FinalDone, At, Follow, db, env, memory
  <1>2. Sweeping /\ plan = E6
    BY <1>1, Whereabouts DEF IInv
  <1>3. plan' = E7
    BY <1>1, <1>2, SealPlans
  <1>4. RowsAhead' = RowsAhead /\ EventsAhead' = EventsAhead
    BY <1>1 DEF RowsAhead, EventsAhead, Rows, Events, Remaining
  <1>5. Sweeping'
    <2>1. Holds(st)'
      BY <1>1, <1>2, Determined DEF Sweeping
    <2>2. /\ Swept(st, todo)' = Swept(st, todo)
          /\ Logged(st, Content(Swept(st, todo \ del)))' = Logged(st, Content(Swept(st, todo \ del)))
      BY <1>1, Determined DEF Content
    <2> QED
      BY <1>1, <1>2, <1>3, <1>4, <2>1, <2>2 DEF Sweeping
  <1>6. Shape'
    BY <1>1, ShapeStays DEF IInv
  <1> QED
    BY <1>1, <1>5, <1>6, StoredStays DEF IInv, Execution

\* The tables are the source's: the row of the finished round.
LEMMA StatsSafe ==
    ASSUME IInv, Stats
    PROVE  IInv'
  <1>1. /\ Head(plan) = "stats" /\ plan # << >> /\ req = {}
        /\ UNCHANGED <<db, req, mode, walk, src, refused, todo, del>>
        /\ UNCHANGED <<base, events, scanState, manifest, cuts, truth>>
    BY DEF Stats, At, db, env
  <1>2. Sweeping /\ plan = E7
    BY <1>1, Whereabouts DEF IInv
  <1>3. st = manifest /\ Holds(st) /\ Round(st) /\ st.phase = FINALIZING /\ todo = {} /\ del = {} /\ IsRow(st)
    <2>1. E7 # E6
      BY DEF E7, E6
    <2> QED
      BY <1>2, <2>1 DEF Sweeping, Holds, IInv, Shape
  <1>4. base = Final(st) /\ events = Logged(st, src)
    <2>1. base = Swept(st, {}) /\ events = Logged(st, Content(Swept(st, {})))
      <3>1. todo \ del = {} /\ todo = {}
        BY <1>3
      <3>2. base = Swept(st, todo) /\ events = Logged(st, Content(Swept(st, todo \ del)))
        BY <1>1, <1>2, NothingAhead DEF Sweeping
      <3> QED
        BY <3>1, <3>2
    <2>2. Swept(st, {}) = Final(st)
      BY DEF Swept, Final, Row
    <2>3. Content(Final(st)) = src
      <3>1. \A n \in Names : Final(st)[n].v = src[n]
        BY DEF Final, Row, NoRow
      <3> QED
        BY <3>1 DEF Content, IInv, Shape
    <2> QED
      BY <2>1, <2>2, <2>3
  <1> PICK r : r = st'
    OBVIOUS
  <1>5. r = [version |-> st.version + 1, key |-> st.key, gen |-> st.gen, inc |-> st.inc, phase |-> st.phase,
             epoch |-> st.epoch, at |-> st.at, base |-> st.base, cut |-> st.cut]
    BY <1>3 DEF Stats, IsRow
  <1>6. /\ IsRow(r) /\ r.version = st.version + 1 /\ r.at = st.at /\ r.phase = FINALIZING /\ r.cut = st.cut
        /\ r.base = st.base /\ r.gen = st.gen /\ r.inc = st.inc /\ SameRound(r, st)
    <2>1. st.version \in Int /\ st.inc \in BOOLEAN /\ st.phase \in 0..3
      BY <1>3 DEF IsRow
    <2> QED
      BY <1>3, <1>5, <2>1 DEF IsRow, SameRound
  <1>7. base = Final(r) /\ events = Logged(r, src) /\ Content(base) = src
    <2>1. Content(Final(r)) = src
      <3>1. \A n \in Names : Final(r)[n].v = src[n]
        BY DEF Final, Row, NoRow
      <3> QED
        BY <3>1 DEF Content, IInv, Shape
    <2> QED
      BY <1>4, <1>6, <2>1, SameTables
  <1>8. Round(r) /\ Reached(r, base, events) /\ Open(manifest)
    BY <1>3, <1>6, <1>7 DEF Round, Active, Reached, Open
  <1>9. Ahead' /\ Finished'
    <2>1. Open(manifest)' /\ Round(r)' /\ Reached(r, base, events)'
      BY <1>1, <1>8, Determined
    <2>2. r.version > manifest.version /\ r.base = manifest.base
      BY <1>3, <1>6 DEF IsRow
    <2>3. RowsAhead' = base' /\ EventsAhead' = events'
      BY <1>1, NothingAhead
    <2>4. Final(r)' = Final(r) /\ Logged(r, src)' = Logged(r, src)
      BY <1>1, Determined
    <2> QED
      BY <1>1, <1>6, <1>7, <2>1, <2>2, <2>3, <2>4 DEF Ahead, Finished
  <1>10. Shape'
    BY <1>1, <1>6 DEF IInv, Shape, IsRow
  <1>11. Disk' /\ Requests' /\ refused' \subseteq {"key"}
    BY <1>1, StoredStays
  <1>12. CASE st.inc
    <2>1. plan' = C1
      BY <1>12, Composed DEF Stats
    <2>2. ToClone'
      BY <1>1, <1>9, <2>1 DEF ToClone, Tables
    <2> QED
      BY <1>10, <1>11, <2>2 DEF IInv, Execution
  <1>13. CASE ~st.inc
    <2>1. plan' = C4
      BY <1>13, Composed DEF Stats
    <2>2. Holds(r)
      <3>1. Reached(st, cuts[st.cut].rows, cuts[st.cut].events) /\ CutExists(st.cut)
        BY <1>3 DEF Holds
      <3>2. Reached(r, cuts[st.cut].rows, cuts[st.cut].events)
        BY <1>3, <1>6, <3>1, SameTables DEF Reached, RUNNING, FINALIZING
      <3> QED
        BY <1>6, <1>8, <3>1, <3>2 DEF Holds
    <2>3. ToSave'
      BY <1>1, <1>9, <2>1, <2>2, Determined DEF ToSave, Tables
    <2> QED
      BY <1>10, <1>11, <2>3 DEF IInv, Execution
  <1> QED
    BY <1>12, <1>13

\* The tables of the round become the committed ones.
LEMMA CommitSafe ==
    ASSUME IInv, Commit
    PROVE  IInv'
  <1>1. /\ Head(plan) = "commit" /\ plan # << >> /\ req = {} /\ plan' = Tail(plan)
        /\ UNCHANGED <<db, st, walk, src, mode, refused, base, events, scanState, manifest, cuts, truth>>
    BY DEF Commit, At, Follow, db, memory, env
  <1>2. Running /\ plan = C5
    BY <1>1, Whereabouts DEF IInv
  <1>3. Finished /\ st = manifest /\ Holds(st) /\ Round(st)
    <2>1. C5 # F7 /\ C5 # E5
      BY DEF C5, F7, E5
    <2> QED
      BY <1>1, <1>2, <2>1 DEF Running, Tables, Saved, Holds
  <1>4. base = Final(st) /\ events = Logged(st, src) /\ st.phase = FINALIZING /\ Open(manifest) /\ Active(st)
    BY <1>1, <1>3, NothingAhead DEF Finished, Round, Open
  <1> PICK q : q = [op |-> "state", gen |-> st.gen, baseline |-> TRUE]
    OBVIOUS
  <1>5. req' = {q} /\ q.op = "state" /\ q.baseline = TRUE
    BY DEF Commit
  <1>6. Sound(q)'
    <2>1. Open(manifest)' /\ Final(manifest)' = Final(manifest) /\ Logged(manifest, src)' = Logged(manifest, src)
      BY <1>1, <1>4, Determined
    <2> QED
      BY <1>1, <1>3, <1>4, <2>1 DEF Sound
  <1>7. Closing'
    <2>1. plan' = C6
      BY <1>1, <1>2, SealPlans
    <2> QED
      BY <1>1, <1>3, <1>4, <1>5, <2>1 DEF Closing, Ops, Active
  <1>8. Shape'
    BY <1>1, ShapeStays DEF IInv
  <1> QED
    BY <1>1, <1>5, <1>6, <1>7, <1>8, StoredStays, OneRequest DEF IInv, Execution

\* A committed round is marked completed.
LEMMA CompleteSafe ==
    ASSUME IInv, Complete
    PROVE  IInv'
  <1>1. /\ Head(plan) = "complete" /\ plan # << >> /\ req = {} /\ plan' = Tail(plan)
        /\ UNCHANGED <<db, walk, src, mode, refused, base, events, scanState, manifest, cuts, truth>>
    BY DEF Complete, At, Follow, db, env
  <1>2. plan \in {G0, C6} /\ st = manifest /\ Active(st) /\ ~Open(manifest)
    BY <1>1, Whereabouts DEF IInv, Closing
  <1>3. Restored
    BY <1>2 DEF IInv, Disk
  <1> PICK r : r = st'
    OBVIOUS
  <1>4. r = [version |-> st.version + 1, key |-> st.key, gen |-> st.gen, inc |-> st.inc, phase |-> COMPLETED,
             epoch |-> st.epoch, at |-> 0, base |-> st.base, cut |-> st.cut] /\ req' = Save(r)
    BY DEF Complete, IInv, Shape, IsRow
  <1>5. IsRow(r) /\ r.version > manifest.version /\ ~Active(r)
    <2>1. st.version \in Int /\ st.inc \in BOOLEAN
      BY DEF IInv, Shape, IsRow
    <2> QED
      BY <1>2, <1>4, <2>1 DEF IsRow, COMPLETED, Active, RUNNING, FINALIZING
  <1> PICK q : q = [op |-> "save", row |-> r]
    OBVIOUS
  <1>6. req' = {q} /\ q.op = "save" /\ q.row = r
    BY <1>4 DEF Save
  <1>7. Restored' /\ TruthRows' = TruthRows
    BY <1>1, <1>3, Determined DEF Restored
  <1>8. Sound(q)'
    BY <1>1, <1>5, <1>6, <1>7 DEF Sound, Active
  <1>9. Shape'
    BY <1>1, <1>5 DEF IInv, Shape, IsRow
  <1>10. Disk' /\ Requests' /\ refused' \subseteq {"key"}
    BY <1>1, <1>6, <1>8, StoredStays, OneRequest
  <1>11. CASE plan = G0
    <2>1. plan' = F1
      BY <1>1, <1>11, FreshPlans
    <2>2. Ops({"attachEvents", "save"})' /\ Ops(Apart)'
      BY <1>6 DEF Ops, Apart
    <2>3. RowsAhead' = TruthRows' /\ EventsAhead' = truth.events'
      BY <1>7, <2>2, ApartAhead DEF Restored
    <2>4. Prepared'
      BY <2>1, <2>2, <2>3 DEF Prepared
    <2> QED
      BY <1>9, <1>10, <2>4 DEF IInv, Execution
  <1>12. CASE plan = C6
    <2>1. plan' = C7
      BY <1>1, <1>12, SealPlans
    <2>2. Ops({"save"})' /\ Saved'
      BY <1>6 DEF Ops, Saved
    <2>3. Closed'
      BY <1>5, <2>1, <2>2 DEF Closed, Active
    <2> QED
      BY <1>9, <1>10, <2>3 DEF IInv, Execution
  <1> QED
    BY <1>2, <1>11, <1>12

-----------------------------------------------------------------------------
(* A statement lands.                                                      *)

\* Who waits for it.
LEMMA Awaited ==
    ASSUME Execution, NEW s \in req
    PROVE  /\ s.op \in TableOps => Idling \/ GivingUp \/ TakingUp \/ Prepared \/ Running \/ Sweeping
           /\ s.op \in CutOps => Idling \/ Captured \/ Cloned \/ Running
           /\ s.op = "rebase" => Idling \/ Rebased
           /\ s.op = "state" => Idling \/ (Closing /\ s.baseline) \/ (Initialized /\ ~s.baseline)
           /\ s.op = "save" => Idling \/ Closed \/ Prepared \/ Abandoned \/ ToTidy \/ Running
  <1>1. CASE Idling
    BY <1>1 DEF TableOps, CutOps
  <1>2. CASE Closing
    <2>1. s.op = "state" /\ s.baseline
      BY <1>2 DEF Closing, Ops
    <2> QED
      BY <1>2, <2>1 DEF TableOps, CutOps
  <1>3. CASE Closed
    <2>1. s.op = "save"
      BY <1>3 DEF Closed, Ops
    <2> QED
      BY <1>3, <2>1 DEF TableOps, CutOps
  <1>4. CASE GivingUp \/ TakingUp
    <2>1. Restoring(st.base) \/ Restoring(st.cut)
      BY <1>4 DEF GivingUp, TakingUp
    <2>2. s.op \in {"dropRows", "attachRows", "dropEvents"}
      BY <2>1 DEF Restoring, Ops
    <2> QED
      BY <1>4, <2>2 DEF TableOps, CutOps
  <1>5. CASE Prepared
    <2>1. s.op \in {"attachEvents", "save"}
      BY <1>5 DEF Prepared, Ops
    <2> QED
      BY <1>5, <2>1 DEF TableOps, CutOps
  <1>6. CASE Initialized
    <2>1. s.op = "state" /\ ~s.baseline
      BY <1>6 DEF Initialized, Ops
    <2> QED
      BY <1>6, <2>1 DEF TableOps, CutOps
  <1>7. CASE Captured \/ Cloned
    <2>1. s \in Clones(st.cut)
      BY <1>7 DEF Captured, Cloned, Forming
    <2>2. s.op \in {"cloneRows", "cloneEvents"}
      BY <2>1 DEF Clones
    <2> QED
      BY <1>7, <2>2 DEF TableOps, CutOps
  <1>8. CASE Abandoned
    <2>1. s.op = "save"
      BY <1>8 DEF Abandoned, Ops
    <2> QED
      BY <1>8, <2>1 DEF TableOps, CutOps
  <1>9. CASE Rebased
    <2>1. s.op = "rebase"
      BY <1>9 DEF Rebased, Ops
    <2> QED
      BY <1>9, <2>1 DEF TableOps, CutOps
  <1>10. CASE ToClone \/ ToSave
    BY <1>10 DEF ToClone, ToSave
  <1>11. CASE ToTidy
    <2>1. s.op = "save"
      BY <1>11 DEF ToTidy, Ops
    <2> QED
      BY <1>11, <2>1 DEF TableOps, CutOps
  <1>12. CASE Running
    <2>1. s.op \in {"attachEvents", "save", "dropCut", "rows", "events"}
      BY <1>12 DEF Running, Ops
    <2> QED
      BY <1>12, <2>1 DEF TableOps, CutOps
  <1>13. CASE Sweeping
    <2>1. s.op \in {"events", "delete"}
      BY <1>13 DEF Sweeping, Ops
    <2> QED
      BY <1>13, <2>1 DEF TableOps, CutOps
  <1> QED
    BY <1>1, <1>2, <1>3, <1>4, <1>5, <1>6, <1>7, <1>8, <1>9, <1>10, <1>11, <1>12, <1>13 DEF Execution

\* What it leaves alone, and what is left on its way.
LEMMA LandFacts ==
    ASSUME IInv, NEW s \in req, Land(s)
    PROVE  /\ UNCHANGED <<plan, mode, st, walk, todo, del, src, refused>>
           /\ req' = req \ {s} /\ Sound(s)
           /\ s.op \notin CutOps => req = {s} /\ req' = {} /\ cuts' = cuts
           /\ s.op \in CutOps => Ops(CutOps) /\ Ops(CutOps)'
           /\ s.op # "save" => manifest' = manifest
           /\ s.op # "state" => scanState' = scanState /\ truth' = truth
           /\ s.op \in Apart => base' = base /\ events' = events
           /\ base' = Rows(s) /\ events' = Events(s)
  <1>1. UNCHANGED <<plan, mode, st, walk, todo, del, src, refused>> /\ req' = req \ {s} /\ Sound(s)
    BY DEF Land, memory, env, IInv, Requests
  <1>2. \A t \in req : s = t \/ (s.op \in CutOps /\ t.op \in CutOps)
    BY DEF IInv, Requests
  <1>3. s.op \notin CutOps => req = {s} /\ req' = {} /\ cuts' = cuts
    BY <1>1, <1>2 DEF Land, Cuts, CutOps
  <1>4. s.op \in CutOps => Ops(CutOps) /\ Ops(CutOps)'
    BY <1>1, <1>2 DEF Ops
  <1>5. s.op # "save" => manifest' = manifest
    BY DEF Land, Manifests
  <1>6. s.op # "state" => scanState' = scanState /\ truth' = truth
    BY DEF Land
  <1>7. base' = Rows(s) /\ events' = Events(s)
    BY DEF Land
  <1> QED
    BY <1>1, <1>3, <1>4, <1>5, <1>6, <1>7, TablesApart

\* Changes of the tables.
LEMMA LandTableSafe ==
    ASSUME IInv, NEW s \in req, Land(s), s.op \in TableOps
    PROVE  IInv'
  <1>1. /\ UNCHANGED <<plan, mode, st, walk, todo, del, src, refused, cuts, manifest, scanState, truth>>
        /\ req = {s} /\ req' = {} /\ Sound(s) /\ base' = Rows(s) /\ events' = Events(s)
    BY LandFacts DEF TableOps, CutOps
  <1>2. Open(manifest)
    BY <1>1 DEF Sound, TableOps, CutOps
  <1>3. RowsAhead' = RowsAhead /\ EventsAhead' = EventsAhead
    BY <1>1, OneAhead, NothingAhead
  <1>4. \A S : Ops(S)'
    BY <1>1 DEF Ops
  <1>5. Shape'
    BY <1>1 DEF IInv, Shape, IsRow
  <1>6. Disk'
    <2>1. Open(manifest)' /\ Holds(manifest)'
      BY <1>1, <1>2, Determined DEF IInv, Disk
    <2> QED
      BY <1>1, <2>1 DEF IInv, Disk, Active
  <1>7. Execution'
    <2>1. CASE Idling
      BY <1>1, <2>1 DEF Execution, Idling
    <2>2. CASE GivingUp
      <3>1. Restoring(st.base)'
        BY <1>1, <1>3, <1>4, <2>2 DEF GivingUp, Restoring
      <3>2. GivingUp'
        BY <1>1, <2>2, <3>1, Determined DEF GivingUp
      <3> QED
        BY <3>2 DEF Execution
    <2>3. CASE TakingUp
      <3>1. Restoring(st.cut)'
        BY <1>1, <1>3, <1>4, <2>3 DEF TakingUp, Restoring
      <3>2. TakingUp'
        BY <1>1, <2>3, <3>1, Determined DEF TakingUp, From
      <3> QED
        BY <3>2 DEF Execution
    <2>4. CASE Prepared
      <3>1. Prepared'
        BY <1>1, <1>3, <1>4, <2>4, Determined DEF Prepared
      <3> QED
        BY <3>1 DEF Execution
    <2>5. CASE Running
      <3>1. st = manifest
        <4>1. ~Ops({"save"})
          BY <1>1 DEF Ops, TableOps
        <4> QED
          BY <2>5, <4>1 DEF Running, Saved
      <3>2. Saved'
        BY <1>1, <3>1 DEF Saved
      <3>3. Walked => Walked'
        <4>1. /\ Seen(st, walk.written)' = Seen(st, walk.written)
              /\ Logged(st, Content(Seen(st, walk.batch)))' = Logged(st, Content(Seen(st, walk.batch)))
          BY <1>1, Determined DEF Content
        <4> QED
          BY <1>1, <1>3, <4>1 DEF Walked
      <3>4. (Ended => Ended') /\ (Finished => Finished')
        BY <1>1, <1>3, Determined DEF Ended, Finished
      <3>5. Holds(st)'
        BY <1>1, <2>5, Determined DEF Running
      <3>6. Running'
        BY <1>1, <1>4, <2>5, <3>2, <3>3, <3>4, <3>5 DEF Running, Tables
      <3> QED
        BY <3>6 DEF Execution
    <2>6. CASE Sweeping
      <3>1. /\ Swept(st, todo)' = Swept(st, todo)
            /\ Logged(st, Content(Swept(st, todo \ del)))' = Logged(st, Content(Swept(st, todo \ del)))
        BY <1>1, Determined DEF Content
      <3>2. Holds(st)'
        BY <1>1, <2>6, Determined DEF Sweeping
      <3>3. Sweeping'
        BY <1>1, <1>3, <1>4, <2>6, <3>1, <3>2 DEF Sweeping
      <3> QED
        BY <3>3 DEF Execution
    <2> QED
      BY <2>1, <2>2, <2>3, <2>4, <2>5, <2>6, Awaited DEF IInv
  <1> QED
    BY <1>1, <1>5, <1>6, <1>7, NoRequest DEF IInv

\* A round is as it was when another cut changes.
LEMMA OtherCut ==
    ASSUME UNCHANGED <<scanState, truth, src>>, NEW t, \A u \in Tokens \ {t} : cuts'[u] = cuts[u]
    PROVE  /\ TruthRows' = TruthRows
           /\ \A m, k : Seen(m, k)' = Seen(m, k)
           /\ \A m : Final(m)' = Final(m)
           /\ \A m, tree : Logged(m, tree)' = Logged(m, tree)
           /\ \A m, rows, log : Reached(m, rows, log)' = Reached(m, rows, log)
           /\ \A m : Open(m)' = Open(m)
           /\ \A m : Round(m) /\ t # m.base => Round(m)'
           /\ \A m : Holds(m) /\ t \notin {m.base, m.cut} => Holds(m)'
  <1>1. TruthRows' = TruthRows
    BY DEF TruthRows
  <1>2. \A m, k : Seen(m, k)' = Seen(m, k)
    BY <1>1 DEF Seen
  <1>3. \A m : Final(m)' = Final(m)
    BY DEF Final
  <1>4. \A m, tree : Logged(m, tree)' = Logged(m, tree)
    BY DEF Logged
  <1>5. \A m, rows, log : Reached(m, rows, log)' = Reached(m, rows, log)
    BY <1>2, <1>3, <1>4 DEF Reached
  <1>6. \A m : Open(m)' = Open(m)
    BY DEF Open
  <1>7. \A m : Round(m) /\ t # m.base => Round(m)'
    <2> SUFFICES ASSUME NEW m, Round(m), t # m.base PROVE Round(m)'
      OBVIOUS
    <2>1. CutIs(m.base, TruthRows, truth.events)'
      BY <1>1 DEF Round, CutIs
    <2> QED
      BY <2>1 DEF Round, Active
  <1>8. \A m : Holds(m) /\ t \notin {m.base, m.cut} => Holds(m)'
    <2> SUFFICES ASSUME NEW m, Holds(m), t \notin {m.base, m.cut} PROVE Holds(m)'
      OBVIOUS
    <2>1. Round(m)' /\ cuts'[m.cut] = cuts[m.cut] /\ CutExists(m.cut)'
      BY <1>7 DEF Holds, CutExists
    <2>2. Reached(m, cuts[m.cut].rows, cuts[m.cut].events)'
      BY <1>5, <2>1 DEF Holds
    <2> QED
      BY <2>1, <2>2 DEF Holds
  <1> QED
    BY <1>1, <1>2, <1>3, <1>4, <1>5, <1>6, <1>7, <1>8

\* A clone lands in its cut.
LEMMA FormingStays ==
    ASSUME Shape, NEW s \in req, Land(s), s.op \in CutOps, UNCHANGED <<base, events>>,
           NEW t, Forming(t), req' = req \ {s}
    PROVE  Forming(t)'
  <1>1. s \in Clones(t) /\ t \in Tokens /\ req' \subseteq Clones(t)
    BY DEF Forming
  <1>2. s.tok = t /\ s.op \in {"cloneRows", "cloneEvents"} /\ s = [op |-> s.op, tok |-> t]
    BY <1>1 DEF Clones
  <1>3. cuts[t] = [made |-> cuts[t].made, rows |-> cuts[t].rows, events |-> cuts[t].events]
    BY <1>1 DEF Shape
  <1>4. CASE s.op = "cloneRows"
    <2>1. cuts' = [cuts EXCEPT ![t].rows = base, ![t].made = @ \cup {"rows"}]
      BY <1>2, <1>4 DEF Land, Cuts
    <2>2. cuts'[t].rows = base /\ cuts'[t].made = cuts[t].made \cup {"rows"} /\ cuts'[t].events = cuts[t].events
      BY <1>1, <1>3, <2>1 DEF Shape
    <2>3. [op |-> "cloneEvents", tok |-> t] # s
      BY <1>2, <1>4
    <2>4. [op |-> "cloneEvents", tok |-> t] \in req' \/ ("events" \in cuts[t].made /\ cuts[t].events = events)
      BY <2>3 DEF Forming
    <2> QED
      BY <1>1, <2>2, <2>4 DEF Forming, Clones
  <1>5. CASE s.op = "cloneEvents"
    <2>1. cuts' = [cuts EXCEPT ![t].events = events, ![t].made = @ \cup {"events"}]
      BY <1>2, <1>5 DEF Land, Cuts
    <2>2. cuts'[t].events = events /\ cuts'[t].made = cuts[t].made \cup {"events"} /\ cuts'[t].rows = cuts[t].rows
      BY <1>1, <1>3, <2>1 DEF Shape
    <2>3. [op |-> "cloneRows", tok |-> t] # s
      BY <1>2, <1>5
    <2>4. [op |-> "cloneRows", tok |-> t] \in req' \/ ("rows" \in cuts[t].made /\ cuts[t].rows = base)
      BY <2>3 DEF Forming
    <2> QED
      BY <1>1, <2>2, <2>4 DEF Forming, Clones
  <1> QED
    BY <1>2, <1>4, <1>5

\* Changes of a cut: none that a manifest names.
LEMMA LandCutSafe ==
    ASSUME IInv, NEW s \in req, Land(s), s.op \in CutOps
    PROVE  IInv'
  <1>1. /\ UNCHANGED <<plan, mode, st, walk, todo, del, src, refused, manifest, scanState, truth, base, events>>
        /\ req' = req \ {s} /\ Sound(s) /\ Ops(CutOps) /\ Ops(CutOps)'
    BY LandFacts DEF Apart, CutOps
  <1> PICK t : t = s.tok
    OBVIOUS
  <1>2. Active(manifest) => t \notin {manifest.base, manifest.cut}
    BY <1>1 DEF Sound, TableOps, CutOps
  <1>3. /\ cuts' = [u \in Tokens |-> [made |-> cuts'[u].made, rows |-> cuts'[u].rows, events |-> cuts'[u].events]]
        /\ \A u \in Tokens \ {t} : cuts'[u] = cuts[u]
    <2>1. cuts = [u \in Tokens |-> [made |-> cuts[u].made, rows |-> cuts[u].rows, events |-> cuts[u].events]]
      BY DEF IInv, Shape
    <2>2. CASE s.op = "cloneRows"
      <3>1. cuts' = [cuts EXCEPT ![t].rows = base, ![t].made = @ \cup {"rows"}]
        BY <2>2 DEF Land, Cuts
      <3>2. cuts' = [u \in Tokens |-> cuts'[u]] /\ \A u \in Tokens \ {t} : cuts'[u] = cuts[u]
        BY <2>1, <3>1
      <3>3. ASSUME t \in Tokens
            PROVE  cuts'[t] = [made |-> cuts'[t].made, rows |-> cuts'[t].rows, events |-> cuts'[t].events]
        <4> PICK c : c = cuts[t]
          OBVIOUS
        <4>1. c = [made |-> c.made, rows |-> c.rows, events |-> c.events]
          BY <2>1, <3>3
        <4>2. cuts'[t] = [[c EXCEPT !.rows = base] EXCEPT !.made = @ \cup {"rows"}]
          BY <2>1, <3>1, <3>3
        <4>3. cuts'[t] = [made |-> c.made \cup {"rows"}, rows |-> base, events |-> c.events]
          BY <4>1, <4>2
        <4> QED
          BY <4>3
      <3>4. \A u \in Tokens : cuts'[u] = [made |-> cuts'[u].made, rows |-> cuts'[u].rows, events |-> cuts'[u].events]
        BY <2>1, <3>2, <3>3
      <3> QED
        BY <3>2, <3>4
    <2>3. CASE s.op = "cloneEvents"
      <3>1. cuts' = [cuts EXCEPT ![t].events = events, ![t].made = @ \cup {"events"}]
        BY <2>3 DEF Land, Cuts
      <3>2. cuts' = [u \in Tokens |-> cuts'[u]] /\ \A u \in Tokens \ {t} : cuts'[u] = cuts[u]
        BY <2>1, <3>1
      <3>3. ASSUME t \in Tokens
            PROVE  cuts'[t] = [made |-> cuts'[t].made, rows |-> cuts'[t].rows, events |-> cuts'[t].events]
        <4> PICK c : c = cuts[t]
          OBVIOUS
        <4>1. c = [made |-> c.made, rows |-> c.rows, events |-> c.events]
          BY <2>1, <3>3
        <4>2. cuts'[t] = [[c EXCEPT !.events = events] EXCEPT !.made = @ \cup {"events"}]
          BY <2>1, <3>1, <3>3
        <4>3. cuts'[t] = [made |-> c.made \cup {"events"}, rows |-> c.rows, events |-> events]
          BY <4>1, <4>2
        <4> QED
          BY <4>3
      <3>4. \A u \in Tokens : cuts'[u] = [made |-> cuts'[u].made, rows |-> cuts'[u].rows, events |-> cuts'[u].events]
        BY <2>1, <3>2, <3>3
      <3> QED
        BY <3>2, <3>4
    <2>4. CASE s.op = "dropCut"
      <3>1. cuts' = [cuts EXCEPT ![t] = NoCut]
        BY <2>4 DEF Land, Cuts
      <3> QED
        BY <2>1, <3>1 DEF NoCut
    <2> QED
      BY <2>2, <2>3, <2>4 DEF CutOps
  <1>4. Shape'
    BY <1>1, <1>3 DEF IInv, Shape, IsRow
  <1>5. Disk'
    <2>1. Open(manifest)' = Open(manifest) /\ TruthRows' = TruthRows
      BY <1>1, <1>3, OtherCut
    <2>2. Open(manifest) => Active(manifest) /\ Holds(manifest)
      BY DEF Open, IInv, Disk
    <2>3. Open(manifest) => Holds(manifest)'
      BY <1>1, <1>2, <1>3, <2>2, OtherCut
    <2> QED
      BY <1>1, <2>1, <2>3 DEF IInv, Disk, Restored, Active
  <1>6. Requests'
    <2>1. ASSUME NEW q \in req' PROVE q.op \in CutOps /\ Sound(q)'
      <3>1. q.op \in CutOps /\ Sound(q)
        BY <1>1, <2>1 DEF Ops, IInv, Requests
      <3>2. q = [op |-> q.op, tok |-> q.tok] /\ (Active(manifest) => q.tok \notin {manifest.base, manifest.cut})
        BY <3>1 DEF Sound, TableOps, CutOps
      <3> QED
        BY <1>1, <3>1, <3>2 DEF Sound, Active
    <2> QED
      BY <2>1, CutRequests
  <1>7. RowsAhead = base /\ EventsAhead = events /\ RowsAhead' = base /\ EventsAhead' = events
    <2>1. Ops(Apart) /\ Ops(Apart)'
      BY <1>1 DEF Ops, Apart, CutOps
    <2> QED
      BY <1>1, <2>1, ApartAhead
  <1>8. Walked => Walked'
    <2>1. /\ Seen(st, walk.written)' = Seen(st, walk.written)
          /\ Logged(st, Content(Seen(st, walk.batch)))' = Logged(st, Content(Seen(st, walk.batch)))
      <3>1. \A u \in Tokens \ {t} : cuts'[u] = cuts[u]
        BY <1>3
      <3>2. /\ \A m, k : Seen(m, k)' = Seen(m, k)
            /\ \A m, tree : Logged(m, tree)' = Logged(m, tree)
        BY <1>1, <3>1, OtherCut
      <3>3. Seen(st, walk.written)' = Seen(st, walk.written) /\ Seen(st, walk.batch)' = Seen(st, walk.batch)
        BY <1>1, <3>2
      <3>4. Content(Seen(st, walk.batch))' = Content(Seen(st, walk.batch))
        BY <3>3 DEF Content
      <3> QED
        BY <1>1, <3>2, <3>3, <3>4
    <2> QED
      BY <1>1, <1>7, <2>1 DEF Walked
  <1>9. (Ended => Ended') /\ (Finished => Finished')
    BY <1>1, <1>3, <1>7, OtherCut DEF Ended, Finished
  <1>10. Execution'
    <2>1. CASE Idling
      BY <1>1, <2>1 DEF Execution, Idling
    <2>2. CASE Captured
      <3>1. Forming(st.cut)'
        <4> PICK u : u = st.cut
          OBVIOUS
        <4>1. Forming(u)'
          BY <1>1, <2>2, FormingStays DEF Captured, IInv
        <4> QED
          BY <1>1, <4>1
      <3>2. Captured'
        BY <1>1, <1>3, <2>2, <3>1, OtherCut DEF Captured, Baseline, Restored
      <3> QED
        BY <3>2 DEF Execution
    <2>3. CASE Cloned
      <3>1. Forming(st.cut)'
        <4> PICK u : u = st.cut
          OBVIOUS
        <4>1. Forming(u)'
          BY <1>1, <2>3, FormingStays DEF Cloned, IInv
        <4> QED
          BY <1>1, <4>1
      <3>2. Ahead'
        <4>1. Ahead /\ Active(manifest)
          BY <2>3 DEF Cloned, Ahead, Open
        <4>2. Round(st)'
          <5>1. Round(st) /\ t # st.base
            BY <1>2, <4>1 DEF Ahead
          <5> QED
            BY <1>1, <1>3, <5>1, OtherCut
        <4>3. Open(manifest)' /\ Reached(st, base, events)'
          BY <1>1, <1>3, <4>1, OtherCut DEF Ahead
        <4> QED
          BY <1>1, <4>1, <4>2, <4>3 DEF Ahead
      <3>3. Cloned'
        BY <1>1, <1>8, <1>9, <2>3, <3>1, <3>2 DEF Cloned, Tables
      <3> QED
        BY <3>3 DEF Execution
    <2>4. CASE Running
      <3>1. st = manifest
        <4>1. ~Ops({"save"})
          <5>1. s.op # "save"
            BY DEF CutOps
          <5> QED
            BY <5>1 DEF Ops
        <4> QED
          BY <2>4, <4>1 DEF Running, Saved
      <3>2. Saved'
        <4>1. ~(Ops({"save"})' /\ req' # {})
          BY <1>1 DEF Ops, CutOps
        <4> QED
          BY <1>1, <3>1, <4>1 DEF Saved
      <3>3. Holds(st)'
        <4>1. Holds(st) /\ t \notin {st.base, st.cut}
          BY <1>2, <2>4, <3>1 DEF Running, Holds, Round
        <4> QED
          BY <1>1, <1>3, <4>1, OtherCut
      <3>4. Ops({"attachEvents", "save", "dropCut", "rows", "events"})'
        BY <1>1, <2>4 DEF Running, Ops
      <3>5. Running'
        BY <1>1, <1>8, <1>9, <2>4, <3>2, <3>3, <3>4 DEF Running, Tables
      <3> QED
        BY <3>5 DEF Execution
    <2> QED
      BY <2>1, <2>2, <2>3, <2>4, Awaited DEF IInv
  <1> QED
    BY <1>1, <1>4, <1>5, <1>6, <1>10 DEF IInv

\* Rows of the other generation would be moved to the committed one: there are
\* none.
LEMMA LandRebaseSafe ==
    ASSUME IInv, NEW s \in req, Land(s), s.op = "rebase"
    PROVE  IInv'
  <1>1. /\ UNCHANGED <<plan, mode, st, walk, todo, del, src, refused, cuts, manifest, scanState, truth>>
        /\ req = {s} /\ req' = {} /\ Sound(s) /\ base' = Rows(s) /\ events' = Events(s)
    BY LandFacts DEF CutOps
  <1>2. s.gen = scanState.gen /\ ~Active(manifest) /\ scanState.gen # 2
    BY <1>1 DEF Sound, TableOps, CutOps
  <1>3. base = TruthRows /\ events' = events
    BY <1>1, <1>2 DEF Open, IInv, Disk, Restored, Events
  <1>4. base' = base
    <2>1. base' = [n \in Names |-> IF base[n] # NoRow /\ base[n].g = 1 - s.gen
                                     THEN [base[n] EXCEPT !.g = s.gen] ELSE base[n]]
      BY <1>1 DEF Rows
    <2>2. \A n \in Names : base[n] = NoRow \/ base[n] = [v |-> truth.tree[n], g |-> scanState.gen]
      BY <1>3 DEF TruthRows, Row
    <2>3. scanState.gen # 1 - scanState.gen
      BY DEF IInv, Shape
    <2>4. ASSUME NEW n \in Names PROVE ~(base[n] # NoRow /\ base[n].g = 1 - s.gen)
      <3>1. CASE base[n] = NoRow
        BY <3>1
      <3>2. CASE base[n] = [v |-> truth.tree[n], g |-> scanState.gen]
        <4>1. base[n].g = scanState.gen
          BY <3>2
        <4> QED
          BY <1>2, <2>3, <4>1
      <3> QED
        BY <2>2, <3>1, <3>2
    <2>5. base = [n \in Names |-> base[n]]
      BY <1>3 DEF TruthRows
    <2> QED
      BY <2>1, <2>4, <2>5
  <1>5. UNCHANGED db /\ Shape'
    BY <1>1, <1>3, <1>4 DEF db, IInv, Shape, IsRow
  <1>6. Execution'
    <2>1. CASE Idling
      BY <1>1, <2>1 DEF Execution, Idling
    <2>2. CASE Rebased
      <3>1. Baseline' /\ CutIs(st.cut, base, events)' /\ Ops({"rebase"})'
        BY <1>1, <1>3, <1>4, <2>2, Determined DEF Rebased, Baseline, Restored, CutIs, Ops
      <3>2. Rebased'
        BY <1>1, <2>2, <3>1 DEF Rebased, Active
      <3> QED
        BY <3>2 DEF Execution
    <2> QED
      BY <2>1, <2>2, Awaited DEF IInv
  <1> QED
    BY <1>1, <1>5, <1>6, StoredStays, NoRequest DEF IInv

\* The state row of the very first round.
LEMMA LandFirstSafe ==
    ASSUME IInv, NEW s \in req, Land(s), s.op = "state", ~s.baseline
    PROVE  IInv'
  <1>1. /\ UNCHANGED <<plan, mode, st, walk, todo, del, src, refused, cuts, manifest, base, events>>
        /\ req = {s} /\ req' = {} /\ Sound(s)
    BY LandFacts DEF CutOps, Apart
  <1>2. scanState.gen = 2 /\ s.gen = 0 /\ s.baseline = FALSE
    <2>1. \/ s = [op |-> "state", gen |-> 0, baseline |-> FALSE] /\ scanState.gen = 2
          \/ s = [op |-> "state", gen |-> manifest.gen, baseline |-> TRUE]
      BY <1>1 DEF Sound, TableOps, CutOps
    <2>2. s # [op |-> "state", gen |-> manifest.gen, baseline |-> TRUE]
      OBVIOUS
    <2> QED
      BY <2>1, <2>2
  <1>3. scanState' = [gen |-> 0, baseline |-> FALSE] /\ truth' = truth
    BY <1>2 DEF Land
  <1>4. ~scanState.baseline /\ ~Active(manifest) /\ truth.tree = NoTree
    BY <1>2 DEF IInv, Disk
  <1>5. TruthRows' = TruthRows
    <2>1. \A n \in Names : truth.tree[n] = 0
      BY <1>4 DEF NoTree
    <2> QED
      BY <1>3, <2>1 DEF TruthRows, Row
  <1>6. Restored /\ Restored'
    BY <1>1, <1>3, <1>4, <1>5 DEF IInv, Disk, Open, Restored
  <1>7. Shape'
    BY <1>1, <1>3 DEF IInv, Shape, IsRow
  <1>8. Disk'
    BY <1>1, <1>3, <1>4, <1>6 DEF Disk, Open, Active
  <1>9. Execution'
    <2>1. CASE Idling
      BY <1>1, <2>1 DEF Execution, Idling
    <2>2. CASE Initialized
      <3>1. scanState.baseline \in BOOLEAN /\ st.inc = scanState.baseline
        BY <2>2 DEF Initialized, Baseline, IInv, Shape
      <3>2. Baseline'
        BY <1>1, <1>3, <1>4, <1>6, <3>1 DEF Baseline
      <3>3. Initialized'
        BY <1>1, <1>3, <2>2, <3>2 DEF Initialized, Ops
      <3> QED
        BY <3>3 DEF Execution
    <2> QED
      BY <2>1, <2>2, Awaited DEF IInv
  <1> QED
    BY <1>1, <1>7, <1>8, <1>9, NoRequest DEF IInv

\* A round is committed: its tables are what readers find from now on.
LEMMA LandCommitSafe ==
    ASSUME IInv, NEW s \in req, Land(s), s.op = "state", s.baseline
    PROVE  IInv'
  <1>1. /\ UNCHANGED <<plan, mode, st, walk, todo, del, src, refused, cuts, manifest, base, events>>
        /\ req = {s} /\ req' = {} /\ Sound(s)
    BY LandFacts DEF CutOps, Apart
  <1>2. /\ s = [op |-> "state", gen |-> manifest.gen, baseline |-> TRUE]
        /\ Open(manifest) /\ manifest.phase = FINALIZING
        /\ base = Final(manifest) /\ events = Logged(manifest, src)
    <2>1. s # [op |-> "state", gen |-> 0, baseline |-> FALSE]
      OBVIOUS
    <2> QED
      BY <1>1, <2>1 DEF Sound, TableOps, CutOps
  <1>3. scanState' = [gen |-> manifest.gen, baseline |-> TRUE]
        /\ truth' = [tree |-> src, events |-> Logged(manifest, src)]
    BY <1>2 DEF Land, Logged
  <1>4. Restored'
    <2>1. TruthRows' = Final(manifest)
      BY <1>1, <1>3 DEF TruthRows, Final
    <2> QED
      BY <1>1, <1>2, <1>3, <2>1 DEF Restored
  <1>5. manifest.gen \in {0, 1}
    BY <1>2 DEF IInv, Disk, Holds, Round
  <1>6. Shape'
    BY <1>1, <1>3, <1>5 DEF IInv, Shape, IsRow
  <1>7. ~Open(manifest)' /\ Disk'
    BY <1>1, <1>2, <1>3, <1>4, <1>5 DEF Disk, Open, Active
  <1>8. Execution'
    <2>1. CASE Idling
      BY <1>1, <2>1 DEF Execution, Idling
    <2>2. CASE Closing
      <3>1. Closing'
        BY <1>1, <1>7, <2>2 DEF Closing, Ops, Active, Open
      <3> QED
        BY <3>1 DEF Execution
    <2> QED
      BY <2>1, <2>2, Awaited DEF IInv
  <1> QED
    BY <1>1, <1>6, <1>7, <1>8, NoRequest DEF IInv

\* A row is saved: it is the row of highest version from now on.
LEMMA LandSaveSafe ==
    ASSUME IInv, NEW s \in req, Land(s), s.op = "save"
    PROVE  IInv'
  <1>1. /\ UNCHANGED <<plan, mode, st, walk, todo, del, src, refused, cuts, scanState, truth, base, events>>
        /\ req = {s} /\ req' = {} /\ Sound(s)
    BY LandFacts DEF CutOps, Apart
  <1>2. /\ s.row.version > manifest.version /\ IsRow(s.row)
        /\ IF Active(s.row) THEN Holds(s.row) ELSE Restored
    BY <1>1 DEF Sound, TableOps, CutOps
  <1>3. manifest' = s.row
    <2>1. manifest.version \in Int /\ s.row.version \in Int
      BY <1>2 DEF IInv, Shape, IsRow
    <2>2. ~(s.row.version < manifest.version) /\ s.row.version # manifest.version
      BY <1>2, <2>1
    <2>3. Manifests(s) = {s.row}
      BY <2>2 DEF Manifests
    <2> QED
      BY <2>3 DEF Land
  <1>4. Shape'
    BY <1>1, <1>2, <1>3 DEF IInv, Shape, IsRow
  <1> PICK r : r = s.row
    OBVIOUS
  <1>5. Active(r) => Holds(r) /\ Open(r) /\ scanState.gen # 2
    BY <1>2 DEF Holds, Round, Open, IInv, Shape
  <1>6. Disk'
    <2>1. Active(r) => Holds(r)' /\ Open(r)'
      BY <1>1, <1>5, Determined
    <2>2. Restored' = Restored
      BY <1>1, Determined DEF Restored
    <2>3. scanState.baseline \/ truth.tree = NoTree
      BY DEF IInv, Disk
    <2>4. scanState.gen = 2 => ~scanState.baseline
      BY DEF IInv, Disk
    <2>5. manifest' = r /\ Active(manifest)' = Active(r) /\ (Open(r)' => Active(r))
      BY <1>3 DEF Active, Open
    <2>6. Open(manifest)' => Holds(manifest)'
      BY <2>1, <2>5
    <2>7. ~Open(manifest)' => ~Active(r)
      BY <2>1, <2>5
    <2> QED
      BY <1>1, <1>2, <1>5, <2>1, <2>2, <2>3, <2>4, <2>5, <2>6, <2>7 DEF Disk
  <1>7. RowsAhead' = RowsAhead /\ EventsAhead' = EventsAhead
    <2>1. Ops(Apart) /\ Ops(Apart)'
      BY <1>1 DEF Ops, Apart
    <2> QED
      BY <1>1, <2>1, ApartAhead
  <1>8. \A S : Ops(S)'
    BY <1>1 DEF Ops
  <1>9. Saved => st = s.row
    BY <1>1 DEF Saved, Ops
  <1>10. (Saved => Saved') /\ Ops({"save"})
    BY <1>1, <1>3, <1>9 DEF Saved, Ops
  <1>11. Walked => Walked'
    <2>1. /\ Seen(st, walk.written)' = Seen(st, walk.written)
          /\ Logged(st, Content(Seen(st, walk.batch)))' = Logged(st, Content(Seen(st, walk.batch)))
      BY <1>1, Determined DEF Content
    <2> QED
      BY <1>1, <1>7, <2>1 DEF Walked
  <1>12. (Ended => Ended') /\ (Finished => Finished')
    BY <1>1, <1>7, Determined DEF Ended, Finished
  <1>13. Execution'
    <2>1. CASE Idling
      BY <1>1, <2>1 DEF Execution, Idling
    <2>2. CASE Closed
      <3>1. Closed'
        BY <1>1, <1>8, <1>10, <2>2 DEF Closed, Active
      <3> QED
        BY <3>1 DEF Execution
    <2>3. CASE Prepared
      <3>1. Prepared'
        BY <1>1, <1>7, <1>8, <2>3, Determined DEF Prepared
      <3> QED
        BY <3>1 DEF Execution
    <2>4. CASE Abandoned
      <3>1. ~Active(manifest)'
        BY <1>1, <1>3, <2>4 DEF Abandoned, Active
      <3>2. Baseline' /\ CutIs(st.cut, base, events)'
        BY <1>1, <2>4, Determined DEF Abandoned, Baseline, Restored, CutIs
      <3>3. Abandoned'
        BY <1>1, <1>8, <2>4, <3>1, <3>2 DEF Abandoned
      <3> QED
        BY <3>3 DEF Execution
    <2>5. CASE ToTidy
      <3>1. Holds(st)'
        BY <1>1, <2>5, Determined DEF ToTidy
      <3>2. ToTidy'
        BY <1>1, <1>8, <1>10, <1>11, <1>12, <2>5, <3>1 DEF ToTidy, Tables
      <3> QED
        BY <3>2 DEF Execution
    <2>6. CASE Running
      <3>1. Holds(st)'
        BY <1>1, <2>6, Determined DEF Running
      <3>2. Running'
        BY <1>1, <1>8, <1>10, <1>11, <1>12, <2>6, <3>1 DEF Running, Tables
      <3> QED
        BY <3>2 DEF Execution
    <2> QED
      BY <2>1, <2>2, <2>3, <2>4, <2>5, <2>6, Awaited DEF IInv
  <1> QED
    BY <1>1, <1>4, <1>6, <1>13, NoRequest DEF IInv

LEMMA LandSafe ==
    ASSUME IInv, NEW s \in req, Land(s)
    PROVE  IInv'
  <1>1. Sound(s)
    BY LandFacts
  <1>2. s.op \in TableOps \/ s.op \in CutOps \/ s.op = "rebase" \/ s.op = "save" \/ s.op = "state"
    <2>1. s = [op |-> "state", gen |-> 0, baseline |-> FALSE] => s.op = "state"
      OBVIOUS
    <2>2. s = [op |-> "state", gen |-> manifest.gen, baseline |-> TRUE] => s.op = "state"
      OBVIOUS
    <2>3. s = [op |-> "save", row |-> s.row] => s.op = "save"
      OBVIOUS
    <2>4. \/ s.op \in TableOps \/ s.op \in CutOps \/ s.op = "rebase" \/ s = [op |-> "save", row |-> s.row]
          \/ s = [op |-> "state", gen |-> 0, baseline |-> FALSE]
          \/ s = [op |-> "state", gen |-> manifest.gen, baseline |-> TRUE]
      BY <1>1 DEF Sound
    <2> QED
      BY <2>1, <2>2, <2>3, <2>4
  <1>3. CASE s.op = "state"
    <2>1. CASE s.baseline
      BY <1>3, <2>1, LandCommitSafe
    <2>2. CASE ~s.baseline
      BY <1>3, <2>2, LandFirstSafe
    <2> QED
      BY <2>1, <2>2
  <1> QED
    BY <1>2, <1>3, LandTableSafe, LandCutSafe, LandRebaseSafe, LandSaveSafe

-----------------------------------------------------------------------------
(* Every step.                                                             *)

LEMMA InitSafe == Init => IInv
  <1> SUFFICES ASSUME Init PROVE IInv
    OBVIOUS
  <1>1. /\ base = Nothing /\ events = {} /\ cuts = [t \in Tokens |-> NoCut]
        /\ scanState = [gen |-> 2, baseline |-> FALSE] /\ manifest = NoState /\ st = NoState
        /\ req = {} /\ plan = << >> /\ mode = FALSE /\ walk = Idle /\ src = NoTree
        /\ truth = [tree |-> NoTree, events |-> {}] /\ refused = {}
    BY DEF Init
  <1>2. IsRow(NoState) /\ ~Active(NoState)
    BY DEF IsRow, NoState, COMPLETED, Active, RUNNING, FINALIZING
  <1>3. Shape
    <2>1. cuts = [t \in Tokens |-> [made |-> cuts[t].made, rows |-> cuts[t].rows, events |-> cuts[t].events]]
      BY <1>1 DEF NoCut
    <2>2. NoTree \in [Names -> Nat]
      BY DEF NoTree
    <2> QED
      BY <1>1, <1>2, <2>1, <2>2 DEF Shape, Idle
  <1>4. Restored
    <2>1. TruthRows = Nothing
      BY <1>1 DEF TruthRows, Row, NoTree, Nothing
    <2> QED
      BY <1>1, <2>1 DEF Restored
  <1>5. Disk
    BY <1>1, <1>2, <1>4 DEF Disk, Open
  <1> QED
    BY <1>1, <1>3, <1>5 DEF IInv, Requests, Execution, Idling

\* Nothing happens.
LEMMA StutterSafe ==
    ASSUME IInv, UNCHANGED vars
    PROVE  IInv'
  <1>1. /\ UNCHANGED <<plan, req, mode, st, walk, todo, del, src, refused>>
        /\ UNCHANGED <<base, events, scanState, manifest, cuts, truth, db>>
    BY DEF vars, memory, env, db
  <1>2. RowsAhead' = RowsAhead /\ EventsAhead' = EventsAhead
    BY <1>1 DEF RowsAhead, EventsAhead, Rows, Events, Remaining
  <1>3. Shape'
    BY <1>1, ShapeStays DEF IInv
  <1>4. /\ \A S : Ops(S)' = Ops(S)
        /\ \A t : Forming(t)' = Forming(t) /\ Restoring(t)' = Restoring(t)
        /\ Restored' = Restored /\ Saved' = Saved
    <2>1. TruthRows' = TruthRows
      BY <1>1, Determined
    <2> QED
      BY <1>1, <1>2, <2>1 DEF Ops, Forming, Clones, Restoring, Restored, Saved
  <1>5. Walked' = Walked
    <2>1. /\ Seen(st, walk.written)' = Seen(st, walk.written)
          /\ Logged(st, Content(Seen(st, walk.batch)))' = Logged(st, Content(Seen(st, walk.batch)))
      BY <1>1, Determined DEF Content
    <2> QED
      BY <1>1, <1>2, <2>1 DEF Walked
  <1>6. Ended' = Ended /\ Finished' = Finished
    BY <1>1, <1>2, Determined DEF Ended, Finished
  <1>7. \A w, e, c : Tables(w, e, c)' = Tables(w, e, c)
    BY <1>1, <1>5, <1>6 DEF Tables
  <1>8. Ahead' = Ahead /\ Holds(st)' = Holds(st) /\ Open(st)' = Open(st) /\ Baseline' = Baseline
    BY <1>1, <1>4, Determined DEF Ahead, Baseline
  <1>9. /\ Idling' = Idling /\ Closing' = Closing /\ Closed' = Closed /\ GivingUp' = GivingUp /\ TakingUp' = TakingUp
    BY <1>1, <1>4, <1>8 DEF Idling, Closing, Closed, GivingUp, TakingUp, Active, From
  <1>10. Prepared' = Prepared /\ Initialized' = Initialized /\ Captured' = Captured
    <2>1. TruthRows' = TruthRows
      BY <1>1, Determined
    <2> QED
      BY <1>1, <1>2, <1>4, <1>8, <2>1 DEF Prepared, Initialized, Captured
  <1>11. Abandoned' = Abandoned /\ Rebased' = Rebased
    BY <1>1, <1>4, <1>8, Determined DEF Abandoned, Rebased, Active
  <1>12. ToClone' = ToClone /\ Cloned' = Cloned /\ ToSave' = ToSave /\ ToTidy' = ToTidy /\ Running' = Running
    BY <1>1, <1>4, <1>7, <1>8 DEF ToClone, Cloned, ToSave, ToTidy, Running
  <1>13. Sweeping' = Sweeping
    <2>1. /\ Swept(st, todo)' = Swept(st, todo)
          /\ Logged(st, Content(Swept(st, todo \ del)))' = Logged(st, Content(Swept(st, todo \ del)))
      BY <1>1, Determined DEF Content
    <2> QED
      BY <1>1, <1>2, <1>4, <1>8, <2>1 DEF Sweeping
  <1>14. Execution'
    BY <1>9, <1>10, <1>11, <1>12, <1>13 DEF Execution, IInv
  <1> QED
    BY <1>1, <1>3, <1>14, StoredStays DEF IInv

LEMMA StepSafe == IInv /\ [Next]_vars => IInv'
  <1> SUFFICES ASSUME IInv, [Next]_vars PROVE IInv'
    OBVIOUS
  <1>1. CASE Server
    BY <1>1, LandSafe DEF Server
  <1>2. CASE Load \/ Initialize \/ Clone \/ Abandon \/ Rebase
    BY <1>2, LoadSafe, InitializeSafe, CloneSafe, AbandonSafe, RebaseSafe
  <1>3. CASE Start \/ Tidy \/ SaveStep \/ Resolve \/ FinalEvents
    BY <1>3, StartSafe, TidySafe, SaveSafe, ResolveSafe, FinalEventsSafe
  <1>4. CASE FinalDelete \/ FinalDone \/ Stats \/ Commit \/ Complete
    BY <1>4, FinalDeleteSafe, FinalDoneSafe, StatsSafe, CommitSafe, CompleteSafe
  <1>5. CASE \E s \in {"dropRows", "attachRows", "dropEvents", "attachEvents"} : RestoreStep(s)
    BY <1>5, RestoreSafe
  <1>6. CASE See \/ Deliver \/ EndOfSource
    BY <1>6, SeeSafe, EndOfSourceSafe
  <1>7. CASE FlushEvents \/ FlushRows
    BY <1>7, FlushEventsSafe, FlushRowsSafe
  <1>8. CASE \E r \in BOOLEAN : Launch(r)
    BY <1>8, LaunchSafe
  <1>9. CASE Checkpoint \/ Reconnect \/ TidyFails \/ Stop
    BY <1>9, CheckpointSafe, ReconnectSafe, TidyFailsSafe, StopSafe
  <1>10. CASE UNCHANGED vars
    BY <1>10, StutterSafe
  <1> QED
    BY <1>1, <1>2, <1>3, <1>4, <1>5, <1>6, <1>7, <1>8, <1>9, <1>10 DEF Next, Sequential, Producer, Writer

-----------------------------------------------------------------------------
(* Results.                                                                *)

\* At any time the stored manifest is either that of an open round, whose cuts
\* are the committed result and what the round had reached when it was saved,
\* or the tables are the committed result themselves; every statement on its
\* way may land or be lost without changing that; and the running execution
\* is at a step whose statements have been prepared.  This is what run_persisted
\* and its pipeline keep, whatever is interrupted.
THEOREM RoundsInvariant == Spec => []IInv
  <1> QED
    BY InitSafe, StepSafe, PTL DEF Spec

\* What the committed rows contain.
LEMMA TruthContent ==
    ASSUME Shape
    PROVE  /\ Content(TruthRows) = truth.tree
           /\ \A n \in Names : TruthRows[n] # NoRow => TruthRows[n].g = scanState.gen
  <1>1. \A n \in Names : TruthRows[n].v = truth.tree[n]
    BY DEF TruthRows, Row, NoRow
  <1>2. \A n \in Names : TruthRows[n] = NoRow \/ TruthRows[n] = [v |-> truth.tree[n], g |-> scanState.gen]
    BY DEF TruthRows, Row
  <1>3. Content(TruthRows) = [n \in Names |-> truth.tree[n]]
    BY <1>1 DEF Content
  <1>4. Content(TruthRows) = truth.tree
    BY <1>3 DEF Shape
  <1>5. ASSUME NEW n \in Names, TruthRows[n] # NoRow PROVE TruthRows[n].g = scanState.gen
    <2>1. TruthRows[n] = [v |-> truth.tree[n], g |-> scanState.gen]
      BY <1>2, <1>5
    <2> QED
      BY <2>1
  <1> QED
    BY <1>4, <1>5

\* Whenever no round is active, readers of the working tables find the result
\* of the last committed round and nothing else (ensure_metadata_available).
THEOREM ReadersSeeCommittedAlways == Spec => []ReadersSeeCommitted
  <1>1. IInv => ReadersSeeCommitted
    <2> SUFFICES ASSUME IInv, ~Active(manifest) PROVE ReadersSeeCommitted
      BY DEF ReadersSeeCommitted
    <2>1. base = TruthRows /\ events = truth.events
      BY DEF IInv, Disk, Open, Restored
    <2> QED
      BY <2>1, TruthContent DEF IInv, ReadersSeeCommitted
  <1> QED
    BY <1>1, RoundsInvariant, PTL

\* The tables that the property speaks of are those of the invariant.
LEMMA SameObserved ==
    ASSUME Shape, Holds(manifest)
    PROVE  /\ \A k : Observed(k) = Seen(manifest, k)
           /\ \A tree : Recorded(tree) = Logged(manifest, tree)
           /\ Content(Final(manifest)) = src
  <1>1. cuts[manifest.base].rows = TruthRows
    BY CutRows
  <1>2. ASSUME NEW k PROVE Observed(k) = Seen(manifest, k)
    BY <1>1 DEF Observed, Seen, Row
  <1>3. \A tree : Recorded(tree) = Logged(manifest, tree)
    BY DEF Recorded, Logged
  <1>4. \A n \in Names : Final(manifest)[n].v = src[n]
    BY DEF Final, Row, NoRow
  <1>5. Content(Final(manifest)) = src
    <2>1. Content(Final(manifest)) = [n \in Names |-> src[n]]
      BY <1>4 DEF Content
    <2> QED
      BY <2>1 DEF Shape
  <1> QED
    BY <1>2, <1>3, <1>5

\* The stored round can always be taken up again: its cuts are there and hold
\* what the manifest says, no execution refuses it for a missing cut or a
\* conflicting generation, and no saved row is shadowed by an earlier one
\* (restore_resume_generation, seal_resume_state, run_persisted).
THEOREM RoundIsResumableAlways == Spec => []RoundIsResumable
  <1>1. IInv => ResumePointIsReal
    <2> SUFFICES ASSUME IInv, Active(manifest), scanState.gen # manifest.gen PROVE ResumePointIsReal
      BY DEF ResumePointIsReal
    <2>1. Holds(manifest) /\ Shape
      BY DEF IInv, Disk, Open
    <2> PICK k, rows, log :
           /\ k = IF manifest.phase = RUNNING THEN manifest.at ELSE N
           /\ rows = cuts[manifest.cut].rows /\ log = cuts[manifest.cut].events
      OBVIOUS
    <2>2. CutExists(manifest.base) /\ CutExists(manifest.cut)
      BY <2>1 DEF Holds, Round, CutIs, CutExists
    <2>3. Content(cuts[manifest.base].rows) = truth.tree /\ cuts[manifest.base].events = truth.events
      BY <2>1, CutRows, TruthContent
    <2>4. \/ rows = Seen(manifest, k) /\ log = Logged(manifest, Content(rows))
          \/ manifest.phase = FINALIZING /\ rows = Final(manifest) /\ log = Logged(manifest, Content(rows))
      BY <2>1 DEF Holds, Reached
    <2>5. \/ rows = Observed(k) /\ log = Recorded(Content(Observed(k)))
          \/ manifest.phase = FINALIZING /\ Content(rows) = src /\ log = Recorded(src)
      BY <2>1, <2>4, SameObserved
    <2> QED
      BY <2>2, <2>3, <2>5 DEF ResumePointIsReal
  <1>2. IInv => NeverRefused
    BY DEF IInv, NeverRefused
  <1>3. IInv => SavesAdvance
    <2> SUFFICES ASSUME IInv, NEW s \in req, s.op = "save" PROVE s.row.version > manifest.version
      BY DEF SavesAdvance
    <2>1. Sound(s)
      BY DEF IInv, Requests
    <2> QED
      BY <2>1 DEF Sound, TableOps, CutOps
  <1>4. IInv => RoundIsResumable
    BY <1>1, <1>2, <1>3 DEF RoundIsResumable
  <1> QED
    BY <1>4, RoundsInvariant, PTL
=============================================================================
