----------------------------- MODULE LocalCopy -----------------------------
(***************************************************************************)
(* A local copy job: SyncOrchestrator (crates/app/src/orchestrator.rs)     *)
(* copies a source tree to a destination, keeps one catalogue row per path *)
(* in ClickHouse, and on the next run compares the source with those rows. *)
(*                                                                         *)
(* A run is full or incremental.  Phase A observes the source, compares    *)
(* each entry with the catalogue, copies what differs on several workers   *)
(* and lets the database consumer write a row for each finished copy.      *)
(* Phase B, incremental runs only, applies deletions and renames found in  *)
(* the rows this run left untouched.  A run that fails or crashes leaves   *)
(* copy_in_progress set, and the next one replays the whole source.        *)
(*                                                                         *)
(* A version stands for size and modification time; h is the file handle   *)
(* an NFS source reports, 0 where the backend has none.  The options of    *)
(* the job never change, so its copy_request_key always matches.           *)
(***************************************************************************)
EXTENDS Integers, FiniteSets, Sequences, SequencesExt

CONSTANTS
    Dirs, Files,     \* paths; directories hold files only
    Parent, Name,    \* of every path: its directory (or ROOT) and last component
    Order,           \* every path, sorted the way the catalogue sorts them
    First,           \* the paths the source holds at the start
    MaxChanges,      \* bound: changes of the source
    MaxFaults,       \* bound: crashes and failed operations
    MaxRuns          \* bound: runs

ROOT == "root"
Paths == Dirs \cup Files
Children(d) == {p \in Paths : Parent[p] = d}

ASSUME LocalCopyAssumption ==
    /\ Dirs \cap Files = {}
    /\ Parent \in [Paths -> Dirs \cup {ROOT}] /\ \A d \in Dirs : Parent[d] = ROOT
    /\ \A d, e \in Dirs : {Name[p] : p \in Children(d)} = {Name[p] : p \in Children(e)}
    /\ First \subseteq Paths /\ \A p \in First : Parent[p] \in First \cup {ROOT}
    /\ Order \in Seq(Paths) /\ Range(Order) = Paths /\ ROOT \notin Paths
    /\ MaxChanges \in Nat /\ MaxFaults \in Nat /\ MaxRuns \in Nat

VARIABLES
    reserved,    \* is_source_reserved: FALSE when the job moves files
    nfs,         \* the source reports file handles
    source,      \* what the source holds
    dest,        \* what the destination holds: a version, ABSENT or PARTIAL
    base,        \* scan_base rows: handle, version and current_state
    stale,       \* superseded rows a background merge has not removed yet
    scan,        \* scan_state: generation, baseline_committed, copy_in_progress
    run,         \* the run: its step and what its tasks have found
    todo,        \* copies the handlers still have to do, per path
    acks,        \* messages on their way to the database consumer
    plan,        \* deletions and renames phase B still has to apply
    clock,       \* next handle and version
    spent,       \* changes, faults and runs so far
    quiet,       \* history: no change of the source since the run began
    synced,      \* history: a quiet run committed, no change or fault since
    skewed,      \* history: a committed run could not tell what a handle stood for
    moved,       \* history: version the job took away from the source, per path
    orphans,     \* history: copies that were never recorded
    outrun       \* history: paths that changed on their way, so that their row is not of the copy

store == <<source, dest>>
catalogue == <<base, stale, scan>>
work == <<run, todo, acks, plan>>
options == <<reserved, nfs>>
history == <<quiet, synced, skewed, moved, orphans, outrun>>
vars == <<options, store, catalogue, work, clock, spent, history>>

ABSENT == 0
PARTIAL == -1
Nothing == [h |-> 0, v |-> ABSENT]
NoRow == [h |-> 0, v |-> ABSENT, g |-> -1]
NoCopy == [h |-> 0, v |-> ABSENT, copied |-> FALSE]
Idle == [step |-> "idle", full |-> FALSE, recovering |-> FALSE, working |-> 0,
         unseen |-> {}, failed |-> FALSE, guess |-> {}]

Here(p) == source[p] # Nothing
HasRow(p) == base[p] # NoRow
Subtree(p) == {p} \cup Children(p)
\* The path below directory e that p, a path below another, has after a move.
Beside(p, e) == CHOOSE q \in Children(e) : Name[q] = Name[p]

\* The place of a path in the order of the catalogue.
Place(p) == CHOOSE i \in 1..Len(Order) : Order[i] = p

Init ==
    /\ reserved \in BOOLEAN /\ nfs \in BOOLEAN /\ (nfs => reserved)
    /\ source = [p \in Paths |-> IF p \in First
                    THEN [h |-> IF nfs THEN Place(p) ELSE 0, v |-> 1]
                    ELSE Nothing]
    /\ dest = [p \in Paths |-> ABSENT]
    /\ base = [p \in Paths |-> NoRow] /\ stale = {}
    /\ scan = [tables |-> "none", gen |-> 0, committed |-> FALSE, copying |-> FALSE]
    /\ run = Idle
    /\ todo = [p \in Paths |-> NoCopy] /\ acks = {} /\ plan = {}
    /\ clock = Len(Order) + 1
    /\ spent = [changes |-> 0, faults |-> 0, runs |-> 0]
    /\ quiet = FALSE /\ synced = FALSE /\ skewed = FALSE
    /\ moved = [p \in Paths |-> ABSENT] /\ orphans = {} /\ outrun = {}

Fault ==
    /\ spent.faults < MaxFaults
    /\ spent' = [spent EXCEPT !.faults = @ + 1]
    /\ synced' = FALSE

\* DatabaseFailures::record, and a worker's first failure: kept to the barrier
Failing == [run EXCEPT !.failed = TRUE]

-----------------------------------------------------------------------------
(* The source changes, at any time: while a run walks it, the walk sees    *)
(* what appears or has passed already.  A change between two of the steps  *)
(* that begin or close a run, which do not look at the source, is the same *)
(* as one before or after them.                                           *)

\* A directory the walk still has to list, or has listed.
Walked(d) ==
    \/ d = ROOT \/ d \in run.unseen
    \/ todo[d] # NoCopy \/ (\E a \in acks : a.p = d) \/ base[d].g = run.working
Appearing(s) ==
    {p \in Paths : ~Here(p) /\ s[p] # Nothing /\ (Walked(Parent[p]) \/ ~Here(Parent[p]))}

Change(s) ==
    /\ spent.changes < MaxChanges
    /\ run.step \in {"idle", "copy", "apply"}
    /\ spent' = [spent EXCEPT !.changes = @ + 1]
    /\ source' = s /\ clock' = clock + 1
    /\ quiet' = FALSE /\ synced' = FALSE
    /\ \E late \in {{}, Appearing(s)} :
          run' = IF run.step = "copy" THEN [run EXCEPT !.unseen = @ \cup late] ELSE run
    /\ UNCHANGED <<options, dest, catalogue, todo, acks, plan, skewed, moved, orphans, outrun>>

Create(p) ==
    /\ ~Here(p) /\ (Parent[p] # ROOT => Here(Parent[p]))
    /\ Change([source EXCEPT ![p] = [h |-> IF nfs THEN clock ELSE 0,
                                     v |-> IF p \in Dirs THEN 1 ELSE clock]])

Write(p) ==
    /\ p \in Files /\ Here(p)
    /\ Change([source EXCEPT ![p].v = clock])

Erase(p) ==
    /\ Here(p)
    /\ Change([q \in Paths |-> IF q \in Subtree(p) THEN Nothing ELSE source[q]])

\* What a tree holds once p has been renamed to q, a directory with its files.
Relocated(tree, p, q, none) ==
    [r \in Paths |->
        CASE r = q -> tree[p]
          [] r \in Children(q) -> tree[Beside(r, p)]
          [] r \in Subtree(p) -> none
          [] OTHER -> tree[r]]

\* A move replaces a file that is in the way.
Move(p, q) ==
    /\ p # q /\ Here(p)
    /\ {p, q} \subseteq Files \/ ({p, q} \subseteq Dirs /\ ~Here(q))
    /\ Parent[q] # ROOT => Here(Parent[q])
    /\ Change(Relocated(source, p, q, Nothing))

-----------------------------------------------------------------------------
(* A run begins: run, begin_copy_catalogue, begin_copy_generation.         *)

\* determine_sync_type, where the database answers: whether the next run is full
MutFullRun == scan.tables = "none"
FullRun == ~reserved \/ scan.tables = "none"

Starts(step) ==
    /\ run.step = "idle" /\ spent.runs < MaxRuns
    /\ spent' = [spent EXCEPT !.runs = @ + 1]
    /\ run' = [Idle EXCEPT !.step = step, !.full = FullRun]
    /\ UNCHANGED <<options, store, base, stale, todo, acks, plan, clock, history>>

\* run_incremental_sync: the tables are there
StartIncremental ==
    /\ ~FullRun /\ Starts("begin")
    /\ UNCHANGED scan

\* run_sync: initialize first creates the base table ...
StartFull ==
    /\ FullRun /\ Starts("initialize")
    /\ scan' = [scan EXCEPT !.tables = IF @ = "none" THEN "base" ELSE @]

\* ... and then the state row.
Initialize ==
    /\ run.step = "initialize"
    /\ scan' = [scan EXCEPT !.tables = "ready"]
    /\ run' = [run EXCEPT !.step = "begin"]
    /\ UNCHANGED <<options, store, base, stale, todo, acks, plan, clock, spent, history>>

\* An incremental run finds no state row: the job needs a new id.
NoStateRow ==
    /\ run.step = "begin" /\ scan.tables # "ready"
    /\ run' = Idle
    /\ UNCHANGED <<options, store, catalogue, todo, acks, plan, clock, spent, history>>

\* begin_copy_generation: an unfinished copy has its rows put back first ...
MutRecovering == ~scan.committed /\ ~scan.copying /\ \E p \in Paths : HasRow(p)
Recovering == scan.copying \/ (~scan.committed /\ \E p \in Paths : HasRow(p))

Rebase ==
    /\ run.step = "begin" /\ scan.tables = "ready"
    /\ base' = [p \in Paths |->
                  IF Recovering /\ HasRow(p) THEN [base[p] EXCEPT !.g = scan.gen] ELSE base[p]]
    /\ run' = [run EXCEPT !.step = "mark", !.recovering = Recovering]
    /\ UNCHANGED <<options, store, stale, scan, todo, acks, plan, clock, spent, history>>

\* The walk, the consumers and the workers run once the generation is marked.
Underway(g) == [run EXCEPT !.step = "copy", !.working = g, !.unseen = {p \in Paths : Here(p)}]

\* ... then the working generation is marked; a move is never recovered.
NextGeneration == 1 - scan.gen

MarkCopying ==
    /\ run.step = "mark"
    /\ scan' = [scan EXCEPT !.gen = NextGeneration, !.committed = FALSE, !.copying = TRUE]
    /\ IF run.recovering /\ ~reserved
         THEN run' = Idle
         ELSE run' = Underway(NextGeneration)
    /\ quiet' = TRUE
    /\ UNCHANGED <<options, store, base, stale, todo, acks, plan, clock, spent, synced,
                   skewed, moved, orphans, outrun>>

-----------------------------------------------------------------------------
(* Phase A: the walk, the comparison, the copies and their rows.           *)

\* A background merge of the ReplacingMergeTree.
Merge ==
    /\ stale # {}
    /\ stale' = {}
    /\ UNCHANGED <<options, store, base, scan, work, clock, spent, history>>

Superseded(p, h) == IF HasRow(p) /\ base[p].h # h THEN {[p |-> p, h |-> base[p].h, v |-> base[p].v]} ELSE {}
PutRow(p, h, v) ==
    /\ base' = [base EXCEPT ![p] = [h |-> h, v |-> v, g |-> run.working]]
    /\ stale' = stale \cup Superseded(p, h)
DropRow(p) ==
    /\ base' = [base EXCEPT ![p] = NoRow]
    /\ stale' = {s \in stale : s.p # p}

\* classify_batch: a new handle, or a new path where there are no handles ...
KnownHandles == {base[p].h : p \in {q \in Paths : HasRow(q)}} \cup {s.h : s \in stale}
\* check_file_handle_status: by handle when both tables have one, else by path
ByHandle == nfs /\ KnownHandles # {}
IsNew(p) == IF ByHandle THEN source[p].h \notin KnownHandles ELSE ~HasRow(p)
\* ... and a known file whose size or time differs.
IsChanged(p) ==
    /\ p \in Files /\ HasRow(p)
    /\ base[p].h = source[p].h /\ base[p].v # source[p].v

\* A directory is listed before its files, and it is an error if it has gone.
Reached(p) == run.step = "copy" /\ p \in run.unseen /\ Parent[p] \notin run.unseen
Vanished(p) ==
    /\ Reached(p) /\ ~Here(p)
    /\ run' = [run EXCEPT !.unseen = @ \ Subtree(p),
                          !.failed = @ \/ \E d \in Dirs : d = Parent[p] /\ ~Here(d)]
    /\ UNCHANGED <<options, store, catalogue, todo, acks, plan, clock, spent, history>>

Queued(p) ==
    /\ run' = [run EXCEPT !.unseen = @ \ {p}]
    /\ todo' = [todo EXCEPT ![p] = [h |-> source[p].h, v |-> source[p].v, copied |-> FALSE]]

\* sender_worker: a full run sends every entry on
ObserveFull(p) ==
    /\ Reached(p) /\ Here(p) /\ run.full
    /\ Queued(p)
    /\ UNCHANGED <<options, store, catalogue, acks, plan, clock, spent, history>>

\* A scan worker of an incremental run; what does not differ has its row at once.
Compare(p) ==
    /\ Reached(p) /\ Here(p) /\ ~run.full
    /\ IF run.recovering \/ IsNew(p) \/ IsChanged(p)
         THEN Queued(p) /\ UNCHANGED <<base, stale>>
         ELSE /\ run' = [run EXCEPT !.unseen = @ \ {p},
                            !.guess = IF base[p].h = source[p].h THEN @ ELSE @ \cup {p}]
              /\ PutRow(p, source[p].h, source[p].v)
              /\ UNCHANGED todo
    /\ UNCHANGED <<options, store, scan, acks, plan, clock, spent, history>>

\* A directory cannot be listed, or a scan worker ends on a database error.
WalkFails(p) ==
    /\ run.step = "copy" /\ p \in run.unseen /\ Fault
    /\ \E lost \in {Subtree(p), run.unseen} : run' = [run EXCEPT !.unseen = @ \ lost, !.failed = TRUE]
    /\ UNCHANGED <<options, store, catalogue, todo, acks, plan, clock, quiet,
                   skewed, moved, orphans, outrun>>

Ready(p) == run.step = "copy" /\ todo[p] # NoCopy
Acked(p) == acks' = acks \cup {[op |-> "put", p |-> p, h |-> todo[p].h, v |-> todo[p].v]}
Finished(p) == todo' = [todo EXCEPT ![p] = NoCopy]

\* process_entry: a file has the content the source has now; a directory is made
\* as it was observed, even if the source has lost it since, and so is a missing
\* directory above a file.
Copyable(p) == p \in Dirs \/ Here(p)
Written(p) ==
    [q \in Paths |-> IF q \in ({p} \cap Dirs) \cup {Parent[p]} THEN 1
                     ELSE IF q = p THEN source[p].v ELSE dest[q]]
Copied(p) ==
    /\ dest' = Written(p)
    /\ moved' = [moved EXCEPT ![p] = ABSENT]
    /\ UNCHANGED <<options, source, catalogue, run, plan, clock, spent, quiet, synced,
                   skewed, orphans, outrun>>

\* A receiver of a full run; where the job moves, the source file goes next.
ReceiverCopies(p) ==
    /\ Ready(p) /\ ~todo[p].copied /\ Copyable(p) /\ run.full
    /\ IF reserved \/ p \in Dirs
         THEN Acked(p) /\ Finished(p)
         ELSE todo' = [todo EXCEPT ![p].copied = TRUE] /\ UNCHANGED acks
    /\ Copied(p)

\* A handler of an incremental run, which never moves.
HandlerCopies(p) ==
    /\ Ready(p) /\ Copyable(p) /\ ~run.full
    /\ Acked(p) /\ Finished(p)
    /\ Copied(p)

\* A move removes the source file once its copy is complete.
DeleteSource(p) ==
    /\ Ready(p) /\ todo[p].copied /\ Here(p)
    /\ source' = [source EXCEPT ![p] = Nothing]
    /\ moved' = [moved EXCEPT ![p] = IF quiet THEN source[p].v ELSE ABSENT]
    /\ Acked(p) /\ Finished(p)
    /\ UNCHANGED <<options, dest, catalogue, run, plan, clock, spent, quiet, synced,
                   skewed, orphans, outrun>>

\* The source file is gone, or a fault; a direct write leaves part of the file.
MutCopyFails(p) ==
    /\ Ready(p)
    /\ \/ ~Copyable(p) /\ UNCHANGED <<dest, spent, synced>>
       \/ /\ Fault
          /\ UNCHANGED dest \/ (p \in Files /\ ~todo[p].copied /\ dest' = [dest EXCEPT ![p] = PARTIAL])
    /\ Finished(p)
    /\ UNCHANGED <<options, source, catalogue, run, acks, plan, clock, quiet,
                   skewed, moved, orphans, outrun>>
CopyFails(p) ==
    /\ Ready(p)
    /\ \/ ~Copyable(p) /\ UNCHANGED <<dest, spent, synced>>
       \/ /\ Fault
          /\ UNCHANGED dest \/ (p \in Files /\ ~todo[p].copied /\ dest' = [dest EXCEPT ![p] = PARTIAL])
    /\ Finished(p)
    /\ run' = Failing
    /\ UNCHANGED <<options, source, catalogue, acks, plan, clock, quiet,
                   skewed, moved, orphans, outrun>>

\* DatabaseConsumer writes a row, or deletes it; a failed write is remembered.
Flush(a) ==
    /\ a \in acks /\ acks' = acks \ {a}
    /\ IF a.op = "put" THEN PutRow(a.p, a.h, a.v) ELSE DropRow(a.p)
    /\ outrun' = IF a.op = "put" /\ dest[a.p] # a.v /\ ~(quiet /\ run.step = "copy")
                    THEN outrun \cup {a.p} ELSE outrun \ {a.p}
    /\ UNCHANGED <<options, store, scan, run, todo, plan, clock, spent, quiet, synced, skewed,
                   moved, orphans>>

FlushFails(a) ==
    /\ a \in acks /\ Fault
    /\ acks' = acks \ {a}
    /\ run' = Failing
    /\ UNCHANGED <<options, store, catalogue, todo, plan, clock, quiet,
                   skewed, moved, orphans, outrun>>

-----------------------------------------------------------------------------
(* The barrier and phase B.                                                *)

\* Copies no row tells of: a run ended without a commit, or its source changed.
Unrecorded == {p \in Paths : dest[p] # ABSENT /\ ~HasRow(p)}
Abandon ==
    /\ run' = Idle /\ todo' = [p \in Paths |-> NoCopy] /\ acks' = {} /\ plan' = {}
    /\ orphans' = orphans \cup Unrecorded

\* classify_deletion_status: what became of the path of an untouched row
SameHandle(h) == {p \in Paths : HasRow(p) /\ base[p].h = h} \cup {s.p : s \in {t \in stale : t.h = h}}
\* The row that still names a handle.  Where a path has several of one handle, not
\* yet merged, the query takes the oldest, this the current one: against an older
\* one a renamed file would be copied once more.
RowOf(p, h) == IF base[p].h = h THEN base[p] ELSE CHOOSE s \in stale : s.p = p /\ s.h = h
Delete(p) == [op |-> "delete", from |-> p, to |-> p, h |-> 0, v |-> ABSENT,
              carried |-> FALSE, changed |-> FALSE]
\* The path an untouched row was renamed to: the one other row of its handle.
RenamedTo(p) ==
    IF run.recovering \/ base[p].h = 0 \/ base[p].g = run.working THEN {}
    ELSE SameHandle(base[p].h) \ {p}
\* A file of a renamed directory has moved with it.
Carried(p, q) == Name[p] = Name[q] /\ Parent[p] # ROOT /\ RenamedTo(Parent[p]) = {Parent[q]}
Rename(p, q) ==
    [op |-> "rename", from |-> p, to |-> q, h |-> base[p].h, v |-> RowOf(q, base[p].h).v,
     carried |-> Carried(p, q), changed |-> p \in Files /\ RowOf(q, base[p].h).v # base[p].v]
Status(p) ==
    CASE RenamedTo(p) = {} -> {Delete(p)}
      [] Cardinality(RenamedTo(p)) = 1 -> {Rename(p, CHOOSE q \in RenamedTo(p) : TRUE)}
      [] OTHER -> {}

\* detect_deleted_items: rows of the previous generation ...
Detected == UNION {Status(p) : p \in {q \in Paths : HasRow(q) /\ base[q].g # run.working}}
\* ... which are gone through in path order.
Due == CHOOSE r \in plan : \A o \in plan : Place(r.from) <= Place(o.from)

\* Untouched rows whose handle does not lead to just one row of this run: each
\* of two is taken for renamed to the other, three are left as they are, and a
\* superseded row still counts.
Ambiguous ==
    {p \in Paths : /\ HasRow(p) /\ RenamedTo(p) # {}
                   /\ \A q \in RenamedTo(p) : \/ RenamedTo(p) # {q}
                                             \/ base[q].h # base[p].h
                                             \/ base[q].g # run.working}

\* Phase A is over: scan, handlers and consumer have all finished.
PhaseAOver == run.step = "copy" /\ run.unseen = {} /\ acks = {} /\ \A p \in Paths : todo[p] = NoCopy

\* A full run has nothing to delete.
FullCopied ==
    /\ PhaseAOver /\ ~run.failed /\ run.full
    /\ run' = [run EXCEPT !.step = "close"]
    /\ UNCHANGED <<options, store, catalogue, todo, acks, plan, clock, spent, history>>

MutBarrier ==
    /\ PhaseAOver /\ ~run.full
    /\ run' = [run EXCEPT !.step = "apply", !.guess = @ \cup Ambiguous]
    /\ plan' = Detected
    /\ UNCHANGED <<options, store, catalogue, todo, acks, clock, spent, history>>
Barrier ==
    /\ PhaseAOver /\ ~run.failed /\ ~run.full
    /\ run' = [run EXCEPT !.step = "apply", !.guess = @ \cup Ambiguous]
    /\ plan' = Detected
    /\ UNCHANGED <<options, store, catalogue, todo, acks, clock, spent, history>>

BarrierFails ==
    /\ PhaseAOver /\ run.failed
    /\ Abandon
    /\ UNCHANGED <<options, store, catalogue, clock, spent, quiet, synced, skewed, moved, outrun>>

Applying(op) == run.step = "apply" /\ plan # {} /\ Due.op = op

\* delete_dir_all or delete_file; what is already gone counts as deleted.
ApplyDelete ==
    /\ Applying("delete")
    /\ dest' = [p \in Paths |-> IF p \in Subtree(Due.from) THEN ABSENT ELSE dest[p]]
    /\ acks' = acks \cup {[op |-> "drop", p |-> Due.from, h |-> 0, v |-> ABSENT]}
    /\ plan' = plan \ {Due}
    /\ UNCHANGED <<options, source, catalogue, run, todo, clock, spent, history>>

RenamePossible(p, q) ==
    /\ dest[p] # ABSENT /\ (Parent[q] # ROOT => dest[Parent[q]] # ABSENT)
    /\ \A c \in Children(q) : dest[c] = ABSENT

\* Whether a file that moves along with its directory is in the plan itself.
FollowedBy(c) == \E r \in plan \ {Due} : r.to = c /\ r.carried

\* sync_renamed_file_changes: a renamed file that also changed is copied again
Resynced(r, tree) == IF r.changed THEN [tree EXCEPT ![r.to] = source[r.to].v] ELSE tree

\* process_rename_entry, then sync_renamed_file_changes where the file also changed
ApplyRename ==
    /\ Applying("rename")
    /\ LET r == Due
           there == IF r.carried THEN dest ELSE Relocated(dest, r.from, r.to, ABSENT)
       IN  /\ r.carried \/ RenamePossible(r.from, r.to)
           /\ r.changed => Here(r.to)
           /\ dest' = Resynced(r, there)
           /\ acks' = acks \cup {[op |-> "put", p |-> r.to, h |-> r.h, v |-> r.v],
                                 [op |-> "drop", p |-> r.from, h |-> 0, v |-> ABSENT]}
           /\ run' = [run EXCEPT !.guess = IF r.to \in Ambiguous THEN @ ELSE @ \ {r.to}]
           /\ orphans' = orphans \cup {c \in Children(r.to) : there[c] # ABSENT /\ ~FollowedBy(c)}
    /\ plan' = plan \ {Due}
    /\ UNCHANGED <<options, source, catalogue, todo, clock, spent, quiet, synced,
                   skewed, moved, outrun>>

\* The operation is impossible, or fails; phase B goes on and reports it.
Impossible(r) ==
    /\ r.op = "rename"
    /\ (~r.carried /\ ~RenamePossible(r.from, r.to)) \/ (r.changed /\ ~Here(r.to))
ApplyFails ==
    /\ run.step = "apply" /\ plan # {}
    /\ Fault \/ (Impossible(Due) /\ UNCHANGED <<spent, synced>>)
    /\ plan' = plan \ {Due}
    /\ run' = Failing
    /\ UNCHANGED <<options, store, catalogue, todo, acks, clock, quiet,
                   skewed, moved, orphans, outrun>>

PhaseBOver == run.step = "apply" /\ plan = {} /\ acks = {}
PhaseBEnds ==
    /\ PhaseBOver
    /\ IF run.failed
         THEN Abandon
         ELSE run' = [run EXCEPT !.step = "close"] /\ UNCHANGED <<todo, acks, plan, orphans>>
    /\ UNCHANGED <<options, store, catalogue, clock, spent, quiet, synced, skewed, moved, outrun>>

-----------------------------------------------------------------------------
(* The end of a run.                                                       *)

\* complete: directory metadata, then commit_scan_generation
Complete ==
    /\ run.step = "close"
    /\ scan' = [scan EXCEPT !.gen = run.working, !.committed = TRUE, !.copying = FALSE]
    /\ run' = Idle
    /\ skewed' = (~run.recovering /\ (skewed \/ run.guess # {}))
    /\ synced' = (quiet /\ reserved /\ ~skewed')
    /\ orphans' = IF quiet THEN orphans ELSE orphans \cup Unrecorded
    /\ UNCHANGED <<options, store, base, stale, todo, acks, plan, clock, spent, quiet,
                   moved, outrun>>

CompleteFails ==
    /\ run.step = "close" /\ Fault
    /\ Abandon
    /\ UNCHANGED <<options, store, catalogue, clock, quiet, skewed, moved, outrun>>

\* The process stops; a file it was writing may be left in part.
Crash ==
    /\ run.step # "idle" /\ Fault
    /\ \/ UNCHANGED dest
       \/ \E p \in Files : Ready(p) /\ ~todo[p].copied /\ dest' = [dest EXCEPT ![p] = PARTIAL]
    /\ run' = Idle /\ todo' = [p \in Paths |-> NoCopy] /\ acks' = {} /\ plan' = {}
    /\ orphans' = orphans \cup {p \in Paths : dest'[p] # ABSENT /\ ~HasRow(p)}
    /\ UNCHANGED <<options, source, catalogue, clock, quiet, skewed, moved, outrun>>

Next ==
    \/ \E p \in Paths : Create(p) \/ Write(p) \/ Erase(p) \/ \E q \in Paths : Move(p, q)
    \/ StartFull \/ StartIncremental \/ Initialize \/ NoStateRow \/ Rebase \/ MarkCopying \/ Merge
    \/ \E p \in Paths : \/ Vanished(p) \/ ObserveFull(p) \/ Compare(p) \/ WalkFails(p)
                        \/ ReceiverCopies(p) \/ HandlerCopies(p) \/ DeleteSource(p) \/ CopyFails(p)
    \/ \E a \in acks : Flush(a) \/ FlushFails(a)
    \/ FullCopied \/ Barrier \/ BarrierFails \/ ApplyDelete \/ ApplyRename \/ ApplyFails \/ PhaseBEnds
    \/ Complete \/ CompleteFails \/ Crash

Spec == Init /\ [][Next]_vars

-----------------------------------------------------------------------------
(* Properties.                                                             *)

\* MIG-GEN-03: a run of a copy job that commits, with no change of the source
\* since it began, leaves the destination with exactly what the source has,
\* except for copies an earlier, failed run made and never recorded, for paths
\* whose row was written for a version other than the copied one, which no quiet
\* phase A does, and until a path has been taken for renamed that was not.
CommittedMatches ==
    synced => \A p \in Paths :
        IF Here(p) THEN dest[p] = source[p].v \/ p \in outrun
                   ELSE dest[p] = ABSENT \/ p \in orphans

\* Outside an unfinished run the catalogue never makes the next one skip a copy
\* that is missing: where the source still is what a row says, so is the
\* destination, unless the path changed on its way between being compared and
\* being copied.
SkipsAreCopied ==
    scan.committed /\ ~skewed =>
        \A p \in Paths : HasRow(p) /\ source[p] = [h |-> base[p].h, v |-> base[p].v] =>
            dest[p] = base[p].v \/ p \in outrun

\* Phase B takes nothing away from the destination that the source still has,
\* whatever was not listed, not compared or not recorded, in a run during which
\* the source does not change.
DeletesOnlyGone ==
    [][\A p \in Paths : quiet /\ dest[p] # ABSENT /\ dest'[p] = ABSENT => ~Here(p)]_vars

\* What a move job took away from the source stays at the destination through
\* every later run, crash and refused recovery, until the source has something
\* new for that path.
MovedIsKept ==
    \A p \in Paths : moved[p] # ABSENT => dest[p] \in {moved[p], PARTIAL}

=============================================================================
