----------------------------- MODULE ScanRounds -----------------------------
(***************************************************************************)
(* Durable scan rounds: run_persisted and its pipeline                     *)
(* (crates/app/src/scan_resume.rs, scan_resume/pipeline.rs) over the       *)
(* tables of a single ClickHouse node (crates/db/src/scan,                 *)
(* crates/db/src/catalogue).                                               *)
(*                                                                         *)
(* A round walks the source, writes what it sees to the working tables and *)
(* from time to time seals a checkpoint: it copies both tables to an       *)
(* immutable cut and then saves a manifest that names the cut.  At the end *)
(* it records what has disappeared, commits its generation and marks the   *)
(* manifest completed.  The process may stop anywhere.  A statement that   *)
(* was on its way then is lost or is still carried out later, and the next *)
(* execution waits for it before it reads anything.                        *)
(*                                                                         *)
(* An entry is a position in the walk; its content is a number and 0 means *)
(* that it does not exist.  Entries are compared by path, as they are for  *)
(* storages without stable file handles.                                   *)
(***************************************************************************)
EXTENDS Integers, Sequences, FiniteSets

CONSTANTS
    N,           \* number of paths
    Trees,       \* the states of the source, each a function 1..N -> content
    Tokens,      \* names for cuts
    MaxRounds,   \* bound: rounds started
    MaxFaults,   \* bound: stops, reconnections and failed clean-ups
    MaxVersion   \* bound: no further checkpoint once the version is reached

Names == 1..N

ASSUME RoundsAssumption == N \in Nat /\ Trees \subseteq [1..N -> Nat] /\ Tokens \subseteq Nat

NoTree == [n \in Names |-> 0]
NoRow == [v |-> 0, g |-> 0]
Nothing == [n \in Names |-> NoRow]
NoCut == [made |-> {}, rows |-> Nothing, events |-> {}]

RUNNING == 0
FINALIZING == 1
COMPLETED == 2
ABANDONED == 3

VARIABLES
    base,        \* base table: FINAL row of each path, content and current_state
    events,      \* incremental table: <<operation, path, event_time>>
    scanState,   \* scan_state row: generation (2: no row) and baseline_committed
    manifest,    \* the scan_resume row of highest version
    cuts,        \* scan_cut_<token>_base and _events: which exist, and their rows
    req,         \* statements at the server that have not taken effect yet
    plan,        \* what the running execution has still to do; << >>: none runs
    mode,        \* its resume option
    st,          \* its ScanResumeState
    walk,        \* the pipeline: seen, sent, written, batch, matches
    todo,        \* old entries to be recorded as deleted
    del,         \* those of the batch whose events are written
    src,         \* the source during this round
    truth,       \* history: what the committed rounds should have left
    rounds, faults,
    refused      \* history: reasons for which an execution refused to go on

db == <<base, events, scanState, manifest, cuts, truth>>
memory == <<mode, st, walk, todo, del>>
env == <<src, rounds, faults, refused>>
vars == <<db, req, plan, memory, env>>

NoState == [version |-> 0, key |-> FALSE, gen |-> 0, inc |-> FALSE,
            phase |-> COMPLETED, epoch |-> 0, at |-> 0, base |-> 0, cut |-> 0]
Idle == [seen |-> 0, sent |-> 0, written |-> 0, batch |-> 0, matches |-> FALSE]

Init ==
    /\ base = Nothing /\ events = {} /\ cuts = [t \in Tokens |-> NoCut]
    /\ scanState = [gen |-> 2, baseline |-> FALSE]
    /\ manifest = NoState
    /\ req = {} /\ plan = << >>
    /\ mode = FALSE /\ st = NoState /\ walk = Idle /\ todo = {} /\ del = {}
    /\ src = NoTree
    /\ truth = [tree |-> NoTree, events |-> {}]
    /\ rounds = 0 /\ faults = 0 /\ refused = {}

\* ScanResumeState::active
Active(m) == m.phase \in {RUNNING, FINALIZING}

-----------------------------------------------------------------------------
(* The server.  A statement takes effect when it lands.                    *)

\* What a round over tree `new` records when the committed tree is `old`.
Difference(old, new, time) ==
    {<<"new", n, time>> : n \in {m \in Names : old[m] = 0 /\ new[m] # 0}}
    \cup {<<"changed", n, time>> :
            n \in {m \in Names : old[m] # 0 /\ new[m] # 0 /\ old[m] # new[m]}}
    \cup {<<"deleted", n, time>> : n \in {m \in Names : old[m] # 0 /\ new[m] = 0}}

\* delete_previous_scan_entries: rows of the working generation stay
Remaining(s) == [n \in Names |-> IF n \in s.names /\ base[n].g # s.gen THEN NoRow ELSE base[n]]

Rows(s) ==
    CASE s.op = "rows"   -> [n \in Names |-> IF n \in s.names THEN [v |-> s.tree[n], g |-> s.gen] ELSE base[n]]
      [] s.op = "delete" -> Remaining(s)
      [] s.op = "rebase" -> [n \in Names |-> IF base[n] # NoRow /\ base[n].g = 1 - s.gen
                                               THEN [base[n] EXCEPT !.g = s.gen] ELSE base[n]]
      [] s.op = "dropRows" -> Nothing
      [] s.op = "attachRows" -> [n \in Names |-> IF cuts[s.tok].rows[n] # NoRow THEN cuts[s.tok].rows[n] ELSE base[n]]
      [] OTHER -> base

Events(s) ==
    CASE s.op = "events" -> events \cup s.rows
      [] s.op = "dropEvents" -> {}
      [] s.op = "attachEvents" -> events \cup cuts[s.tok].events
      [] OTHER -> events

Cuts(s) ==
    CASE s.op = "cloneRows" -> [cuts EXCEPT ![s.tok].rows = base, ![s.tok].made = @ \cup {"rows"}]
      [] s.op = "cloneEvents" -> [cuts EXCEPT ![s.tok].events = events, ![s.tok].made = @ \cup {"events"}]
      [] s.op = "dropCut" -> [cuts EXCEPT ![s.tok] = NoCut]
      [] OTHER -> cuts

\* The manifest is the row of highest version; of two equal ones either.
Manifests(s) ==
    IF s.op # "save" \/ s.row.version < manifest.version THEN {manifest}
    ELSE IF s.row.version = manifest.version THEN {manifest, s.row} ELSE {s.row}

Land(s) ==
    /\ req' = req \ {s}
    /\ base' = Rows(s) /\ events' = Events(s) /\ cuts' = Cuts(s)
    /\ manifest' \in Manifests(s)
    /\ scanState' = IF s.op = "state" THEN [gen |-> s.gen, baseline |-> s.baseline] ELSE scanState
    /\ truth' = IF s.op = "state" /\ s.baseline
                  THEN [tree |-> src,
                        events |-> truth.events \cup
                          IF manifest.inc THEN Difference(truth.tree, src, manifest.epoch) ELSE {}]
                  ELSE truth
    /\ UNCHANGED <<plan, memory, env>>

-----------------------------------------------------------------------------
(* The execution.  A step is taken once the statements of the step before  *)
(* it have been acknowledged.                                              *)

Save(row) == {[op |-> "save", row |-> row]}

\* At step `s`, its statements done; the rest of the plan follows.
At(s) == plan # << >> /\ Head(plan) = s /\ req = {}
Follow == plan' = Tail(plan)

\* restore: both tables exist, then DROP and ATTACH for each in turn
CutExists(t) == t \in Tokens /\ cuts[t].made = {"rows", "events"}
Restore == <<"dropRows", "attachRows", "dropEvents", "attachEvents">>

Fresh == <<"initialize", "clone", "abandon", "rebase", "start", "tidy", "walk">>
Finish == <<"resolve", "final", "stats">>

\* The pipeline starts from the cursor of the manifest.
From(at) == [seen |-> at, sent |-> at, written |-> at, batch |-> at, matches |-> FALSE]

Launch(r) ==
    /\ plan = << >>
    /\ rounds < MaxRounds \/ (Active(manifest) /\ r /\ manifest.key)
    /\ plan' = <<"load">> /\ mode' = r
    /\ UNCHANGED <<db, req, st, walk, todo, del, env>>

Refuse(why) ==
    /\ plan' = << >> /\ refused' = refused \cup {why}
    /\ UNCHANGED <<mode, walk, todo, del, src, rounds, faults>>

\* restore_resume_generation, `true` when the round was committed
Committed == scanState.gen = manifest.gen

\* How an active round is taken up again with `resume`.
MutResume ==
    CASE manifest.key # mode -> Refuse("key")
      [] Committed /\ manifest.phase # FINALIZING -> Refuse("generation")
      [] ~Committed /\ ~CutExists(manifest.cut) -> Refuse("cut")
      [] OTHER ->
           /\ plan' = IF Committed THEN <<"tidy">>
                      ELSE Restore \o IF manifest.phase = RUNNING THEN <<"walk">> ELSE Finish
           /\ walk' = From(manifest.at)
           /\ UNCHANGED <<mode, todo, del, env>>
Resume ==
    CASE manifest.key # mode -> Refuse("key")
      [] Committed /\ manifest.phase # FINALIZING -> Refuse("generation")
      [] ~Committed /\ ~CutExists(manifest.cut) -> Refuse("cut")
      [] OTHER ->
           /\ plan' = IF Committed THEN <<"complete", "tidy">>
                      ELSE Restore \o IF manifest.phase = RUNNING THEN <<"walk">> ELSE Finish
           /\ walk' = From(manifest.at)
           /\ UNCHANGED <<mode, todo, del, env>>

\* How an active round is given up without it.
Discard ==
    IF manifest.phase = FINALIZING /\ Committed
      THEN /\ plan' = <<"complete">> \o Fresh
           /\ UNCHANGED <<mode, walk, todo, del, env>>
    ELSE IF CutExists(manifest.base)
      THEN /\ plan' = Restore \o Fresh
           /\ UNCHANGED <<mode, walk, todo, del, env>>
    ELSE Refuse("cut")

\* ping, load_resume_state with its wait for earlier statements, the choice
MutLoad ==
    /\ plan # << >> /\ Head(plan) = "load"
    /\ st' = manifest
    /\ IF ~Active(manifest)
         THEN plan' = Fresh /\ UNCHANGED <<mode, walk, todo, del, env>>
         ELSE IF mode THEN Resume ELSE Discard
    /\ UNCHANGED <<db, req>>
Load ==
    /\ At("load")
    /\ st' = manifest
    /\ IF ~Active(manifest)
         THEN plan' = Fresh /\ UNCHANGED <<mode, walk, todo, del, env>>
         ELSE IF mode THEN Resume ELSE Discard
    /\ UNCHANGED <<db, req>>

\* The cut a restore step reads: the checkpoint's, or the baseline's when
\* the round is given up.
Source(p) == IF "initialize" \in {p[i] : i \in 1..Len(p)} THEN st.base ELSE st.cut

RestoreStep(s) ==
    /\ At(s) /\ Follow
    /\ req' = {[op |-> s, tok |-> Source(plan)]}
    /\ UNCHANGED <<db, memory, env>>

\* has_baseline, initialize, prepare_incremental
Initialize ==
    /\ At("initialize") /\ Follow
    /\ st' = [st EXCEPT !.inc = scanState.baseline]
    /\ req' = IF scanState.gen = 2 THEN {[op |-> "state", gen |-> 0, baseline |-> FALSE]} ELSE {}
    /\ UNCHANGED <<db, mode, walk, todo, del, env>>

\* capture_once: a name never used before, both tables at once
Clone ==
    /\ At("clone") /\ Follow
    /\ \E t \in {u \in Tokens : cuts[u] = NoCut /\ u \notin {manifest.base, manifest.cut}} :
         /\ \A u \in Tokens : u < t => cuts[u] # NoCut \/ u \in {manifest.base, manifest.cut}
         /\ st' = [st EXCEPT !.cut = t]
         /\ req' = {[op |-> "cloneRows", tok |-> t], [op |-> "cloneEvents", tok |-> t]}
    /\ UNCHANGED <<db, mode, walk, todo, del, env>>

\* begin_scan_generation: abandon_scan_resume ...
Abandon ==
    /\ At("abandon") /\ Follow
    /\ req' = IF Active(manifest)
                THEN Save([manifest EXCEPT !.version = @ + 1, !.phase = ABANDONED, !.at = 0])
                ELSE {}
    /\ UNCHANGED <<db, memory, env>>

\* ... and rebase_uncommitted_generation
Rebase ==
    /\ At("rebase") /\ Follow
    /\ st' = [st EXCEPT !.gen = 1 - scanState.gen]
    /\ req' = {[op |-> "rebase", gen |-> scanState.gen]}
    /\ UNCHANGED <<db, mode, walk, todo, del, env>>

\* resume_event_epoch, for a clock that is behind all recorded events
Epoch ==
    LET times == {e[3] : e \in events} \cup {0}
    IN  1 + CHOOSE t \in times : \A u \in times : u <= t

\* The version of the manifest the new round goes on from.
Previous == manifest.version

\* The first manifest of the round.  The source is what it is by now.
Start ==
    /\ At("start") /\ Follow
    /\ st' = [version |-> Previous + 1, key |-> mode, gen |-> st.gen, inc |-> st.inc,
              phase |-> RUNNING, epoch |-> Epoch, at |-> 0, base |-> st.cut, cut |-> st.cut]
    /\ req' = Save(st')
    /\ walk' = From(0)
    /\ src' \in Trees
    /\ rounds' = rounds + 1
    /\ UNCHANGED <<db, mode, todo, del, faults, refused>>

\* cleanup_scan_snapshots: what the manifest just saved does not refer to
Keep == IF Active(st) THEN {st.base, st.cut} ELSE {}

Tidy ==
    /\ At("tidy") /\ Follow
    /\ req' = {[op |-> "dropCut", tok |-> t] : t \in {u \in Tokens : cuts[u] # NoCut} \ Keep}
    /\ UNCHANGED <<db, memory, env>>

\* A clean-up that fails is only logged.
TidyFails ==
    /\ At("tidy") /\ faults < MaxFaults /\ Follow
    /\ faults' = faults + 1
    /\ UNCHANGED <<db, req, memory, src, rounds, refused>>

SaveStep ==
    /\ At("save") /\ Follow
    /\ req' = Save(st)
    /\ UNCHANGED <<db, memory, env>>

-----------------------------------------------------------------------------
(* The pipeline: produce_items and write, two tasks.                       *)

Walking == plan # << >> /\ Head(plan) = "walk"

Pipe == UNCHANGED <<db, plan, mode, st, todo, del, env>>

\* The producer takes the next item; a path that does not exist yields none.
MutSee ==
    /\ Walking /\ walk.seen < N
    /\ walk' = [walk EXCEPT !.seen = @ + 1]
    /\ Pipe /\ UNCHANGED req
See ==
    /\ Walking /\ walk.seen < N
    /\ walk' = [walk EXCEPT !.seen = @ + 1,
                            !.matches = @ /\ src[walk.seen + 1] = 0]
    /\ Pipe /\ UNCHANGED req

\* deliver: what is pending goes to the consumers
Deliver ==
    /\ Walking /\ walk.sent < walk.seen
    /\ walk' = [walk EXCEPT !.sent = walk.seen]
    /\ Pipe /\ UNCHANGED req

\* compare: the events of paths i..j against the working table
BatchEvents(i, j) ==
    LET old == [n \in Names |-> base[n].v]
        new == [n \in Names |-> IF n \in i..j /\ src[n] # 0 THEN src[n] ELSE old[n]]
    IN  Difference(old, new, st.epoch)

\* flush_batch: events first ...
FlushEvents ==
    /\ Walking /\ req = {} /\ walk.batch = walk.written
    /\ \E j \in (walk.written + 1)..walk.sent :
         /\ walk' = [walk EXCEPT !.batch = j]
         /\ req' = IF st.inc /\ BatchEvents(walk.written + 1, j) # {}
                     THEN {[op |-> "events", rows |-> BatchEvents(walk.written + 1, j)]} ELSE {}
    /\ Pipe

\* ... then the observations, in one or more inserts
FlushRows ==
    /\ Walking /\ req = {} /\ walk.written < walk.batch
    /\ \E j \in (walk.written + 1)..walk.batch :
         /\ walk' = [walk EXCEPT !.written = j]
         /\ req' = {[op |-> "rows", tree |-> src, gen |-> st.gen,
                     names |-> {n \in (walk.written + 1)..j : src[n] # 0}]}
    /\ Pipe

\* barrier: the writer has flushed everything sent to it
Barrier == req = {} /\ walk.written = walk.sent /\ walk.batch = walk.written

SealPlan == IF walk.matches THEN <<"save">> ELSE <<"clone", "save", "tidy">>

\* ResumableScanItem::Checkpoint
Checkpoint ==
    /\ Walking /\ mode /\ Barrier /\ walk.sent = walk.seen
    /\ st.version < MaxVersion
    /\ st' = [st EXCEPT !.version = @ + 1, !.at = walk.seen]
    /\ plan' = SealPlan \o plan
    /\ walk' = [walk EXCEPT !.matches = TRUE]
    /\ UNCHANGED <<db, req, mode, todo, del, env>>

\* ResumableScanItem::Resumed: the source goes back to the last checkpoint
Reconnect ==
    /\ Walking /\ mode /\ Barrier /\ faults < MaxFaults
    /\ faults' = faults + 1
    /\ IF CutExists(st.cut)
         THEN /\ plan' = Restore \o plan
              /\ walk' = [From(st.at) EXCEPT !.matches = TRUE]
              /\ UNCHANGED refused
         ELSE /\ plan' = << >> /\ refused' = refused \cup {"cut"}
              /\ UNCHANGED walk
    /\ UNCHANGED <<db, req, mode, st, todo, del, src, rounds>>

\* The source is exhausted and complete.
EndOfSource ==
    /\ Walking /\ Barrier /\ walk.sent = N
    /\ st' = [st EXCEPT !.version = @ + 1, !.phase = FINALIZING]
    /\ plan' = SealPlan \o Finish
    /\ UNCHANGED <<db, req, mode, walk, todo, del, env>>

-----------------------------------------------------------------------------
(* The end of a round: run after the pipeline.                             *)

\* resolve_final_events: live rows of the other generation
Resolve ==
    /\ At("resolve") /\ Follow
    /\ todo' = IF st.inc THEN {n \in Names : base[n] # NoRow /\ base[n].g # st.gen} ELSE {}
    /\ del' = {}
    /\ UNCHANGED <<db, req, mode, st, walk, env>>

\* flush_final_events: the events of a batch, then its rows
FinalEvents ==
    /\ At("final") /\ del = {}
    /\ \E D \in (SUBSET todo) \ {{}} :
         /\ del' = D
         /\ req' = {[op |-> "events", rows |-> {<<"deleted", n, st.epoch>> : n \in D}]}
    /\ UNCHANGED <<db, plan, mode, st, walk, todo, env>>

FinalDelete ==
    /\ At("final") /\ del # {}
    /\ req' = {[op |-> "delete", names |-> del, gen |-> st.gen]}
    /\ todo' = todo \ del /\ del' = {}
    /\ UNCHANGED <<db, plan, mode, st, walk, env>>

FinalDone ==
    /\ At("final") /\ todo = {} /\ del = {} /\ Follow
    /\ UNCHANGED <<db, req, memory, env>>

\* Statistics reconciled; an incremental round seals its finished tables.
Stats ==
    /\ At("stats")
    /\ st' = [st EXCEPT !.version = @ + 1]
    /\ plan' = (IF st.inc THEN <<"clone", "save", "tidy">> ELSE <<"save">>)
               \o <<"commit", "complete", "tidy">>
    /\ UNCHANGED <<db, req, mode, walk, todo, del, env>>

\* commit_scan_generation
Commit ==
    /\ At("commit") /\ Follow
    /\ req' = {[op |-> "state", gen |-> st.gen, baseline |-> TRUE]}
    /\ UNCHANGED <<db, memory, env>>

Complete ==
    /\ At("complete") /\ Follow
    /\ st' = [st EXCEPT !.version = @ + 1, !.phase = COMPLETED, !.at = 0]
    /\ req' = Save(st')
    /\ UNCHANGED <<db, mode, walk, todo, del, env>>

-----------------------------------------------------------------------------
\* A crash, a cancellation or an error at any point: the statements on their
\* way are lost or still carried out.
Stop ==
    /\ plan # << >> /\ faults < MaxFaults
    /\ faults' = faults + 1
    /\ plan' = << >>
    /\ req' \in SUBSET req
    /\ mode' = FALSE /\ st' = NoState /\ walk' = Idle /\ todo' = {} /\ del' = {}
    /\ UNCHANGED <<db, src, rounds, refused>>

Producer == See \/ Deliver \/ EndOfSource
Writer == FlushEvents \/ FlushRows

Sequential ==
    \/ Load \/ Initialize \/ Clone \/ Abandon \/ Rebase \/ Start \/ Tidy \/ SaveStep
    \/ Resolve \/ FinalEvents \/ FinalDelete \/ FinalDone \/ Stats \/ Commit \/ Complete
    \/ \E s \in {"dropRows", "attachRows", "dropEvents", "attachEvents"} : RestoreStep(s)

Server == \E s \in req : Land(s)

Next ==
    \/ Server
    \/ Sequential
    \/ Producer \/ Writer
    \/ \E r \in BOOLEAN : Launch(r)
    \/ Checkpoint \/ Reconnect \/ TidyFails \/ Stop

Spec == Init /\ [][Next]_vars

\* While the server or a task of the execution can take a step, one does, and
\* a scan that stopped is started again with `resume`.
Fairness ==
    /\ WF_vars(Server \/ Sequential \/ Producer \/ Writer)
    /\ WF_vars(Launch(TRUE))

LiveSpec == Spec /\ Fairness

-----------------------------------------------------------------------------
(* Properties.                                                             *)

Content(rows) == [n \in Names |-> rows[n].v]

\* ensure_metadata_available lets readers at the working tables whenever no
\* round is active.  What they find is the result of the last committed round:
\* its tree in its generation, and every round's events exactly once,
\* whatever was interrupted before.
ReadersSeeCommitted ==
    ~Active(manifest) =>
        /\ Content(base) = truth.tree
        /\ events = truth.events
        /\ \A n \in Names : base[n] # NoRow => base[n].g = scanState.gen

\* The tables after the first k paths of the round have been observed.
Observed(k) ==
    [n \in Names |-> IF n <= k /\ src[n] # 0 THEN [v |-> src[n], g |-> manifest.gen]
                     ELSE cuts[manifest.base].rows[n]]
Recorded(tree) ==
    truth.events \cup
      IF manifest.inc THEN Difference(truth.tree, tree, manifest.epoch) ELSE {}

\* A saved manifest can be trusted: the baseline cut is the last committed
\* result, and the checkpoint cut holds exactly the observations, and the
\* events, up to the cursor saved with it (seal_resume_state and the reuse of
\* a cut by SaveAction::ManifestOnly).
ResumePointIsReal ==
    Active(manifest) /\ scanState.gen # manifest.gen =>
        LET cut == cuts[manifest.cut]
            reached == Observed(IF manifest.phase = RUNNING THEN manifest.at ELSE N)
        IN  /\ CutExists(manifest.base) /\ CutExists(manifest.cut)
            /\ Content(cuts[manifest.base].rows) = truth.tree
            /\ cuts[manifest.base].events = truth.events
            /\ \/ cut.rows = reached /\ cut.events = Recorded(Content(reached))
               \/ /\ manifest.phase = FINALIZING
                  /\ Content(cut.rows) = src /\ cut.events = Recorded(src)

\* No sequence of stops leaves a round that the next execution refuses to
\* take up or to give up: a cut the manifest names is never missing ("Saved
\* scan metadata snapshot is missing") and a running round never bears the
\* committed generation ("conflicts with the committed generation").  Only
\* other options than the round was started with are refused.
NeverRefused == refused \subseteq {"key"}

\* Every manifest that is being saved has a higher version than the stored
\* one, so none is shadowed by an earlier row of ReplacingMergeTree.
SavesAdvance == \A s \in req : s.op = "save" => s.row.version > manifest.version

\* Whatever was interrupted, the stored round can be taken up again: its cuts
\* are what it says, no save is shadowed, and nothing is refused.
RoundIsResumable == ResumePointIsReal /\ NeverRefused /\ SavesAdvance

\* A resumable round ends, however it is interrupted, if it is started again.
RoundEnds == (Active(manifest) /\ manifest.key) ~> ~Active(manifest)
=============================================================================
