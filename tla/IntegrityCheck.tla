--------------------------- MODULE IntegrityCheck ---------------------------
(***************************************************************************)
(* The standalone integrity check: a walk of the source feeds a bounded     *)
(* channel; several workers take entries from it, compare each with the     *)
(* destination, optionally repair metadata, record issues and broadcast     *)
(* the outcome to the consumers over bounded channels; the caller joins     *)
(* the workers, then the consumers, and only then decides the result.       *)
(*                                                                         *)
(* An object is [kind, data, mtime, owner, mode]; uid and gid are one field *)
(* `owner'.  `data' stands for the content and, through SizeOf, the length. *)
(* Other programs may change either side while the check runs; what they    *)
(* did is remembered in `history', which no action reads.                   *)
(***************************************************************************)
EXTENDS Naturals, Sequences, FiniteSets

CONSTANTS
  Paths,       \* the paths of the tree
  Workers,     \* check_concurrency worker tasks
  Consumers,   \* subscribers of the broadcast
  Statistics,  \* the one that accumulates statistics; it never fails
  Buffer,      \* capacity of the walk's channel (128 in the code)
  Room,        \* capacity of a consumer's channel (1000 in the code)
  Cases,       \* [setup, source, dest]: options, capabilities and contents
  Edited,      \* what another program may leave at a path, per path
  MaxEdits,    \* bound on changes by other programs
  MaxFaults    \* bound on storage and consumer failures

ASSUME CheckAssumptions ==
  /\ Statistics \in Consumers
  /\ {Buffer, Room} \subseteq Nat \ {0}
  /\ \A c \in Cases : /\ {c.setup.quick, c.setup.auto_fix, c.setup.objects}
                          \subseteq BOOLEAN
                     /\ c.setup.target \in {"owner", "mode", "unsupported",
                                            "none"}

VARIABLES
  setup,    \* the options chosen for this check
  source, dest,
  was,      \* what the destination held when the check began
  walk,     \* the producer: what is left, its stored error, whether it ended
  channel,  \* delivered and not yet taken
  worker,   \* each worker's position and the entry it holds
  issues,   \* the shared list of issues
  checked,  \* the three shared counters
  consumer, \* each consumer's queue and what it has accumulated
  main,     \* the caller
  history,  \* versions the source had at each path, destinations overwritten
  budget    \* edits and faults left

vars == <<setup, source, dest, was, walk, channel, worker, issues, checked,
          consumer, main, history, budget>>

Kinds == {"file", "dir", "symlink"}
Absent == [kind |-> "absent"]

\* Two contents may have one length; quick mode cannot tell them apart.
SizeOf(data) == data \div 2

(***************************************************************************)
(* Comparison.                                                             *)
(***************************************************************************)

\* Differences of kind, length and, unless the mode is quick, of content.
\* A directory has neither a length nor a content worth comparing.
DataLabels(kind, s, d, quick) ==
  {l \in {"entry_kind", "size", "content"} :
     \/ l = "entry_kind" /\ s.kind # d.kind
     \/ l = "size" /\ kind # "dir" /\ SizeOf(s.data) # SizeOf(d.data)
     \/ l = "content" /\ kind # "dir" /\ ~quick /\ s.kind = d.kind
                      /\ s.data # d.data}

\* Differences of metadata; an object store keeps none of it.
MetaLabels(s, d, objects) ==
  IF objects THEN {} ELSE {f \in {"mtime", "owner", "mode"} : s[f] # d[f]}

\* compare_entry: metadata is reported only when the data agrees.
CompareEntry(kind, s, d, opt) ==
  LET data == DataLabels(kind, s, d, opt.quick)
  IN  IF data # {} THEN data ELSE MetaLabels(s, d, opt.objects)

\* Labels set_metadata is not counted on to repair.
ContentLabels == {"entry_kind", "size", "read_length", "stream_offset",
                  "content", "mtime"}
DetectContentMismatch(labels) == labels \cap ContentLabels # {}

(***************************************************************************)
(* Statistics.                                                             *)
(***************************************************************************)

NoCounts == [k \in Kinds |-> 0]
NoStats == [count |-> NoCounts, errors |-> 0, bar_files |-> 0, bar_dirs |-> 0]

\* FullStats::update: one more entry of its kind.
Update(stats, kind) == [stats EXCEPT !.count[kind] = @ + 1]

\* ErrorStats::record.
Record(stats) == [stats EXCEPT !.errors = @ + 1]

\* The progress bar counts every entry that is not a directory as a file.
UpdateObserved(stats, kind) ==
  IF kind = "dir" THEN [stats EXCEPT !.bar_dirs = @ + 1]
                  ELSE [stats EXCEPT !.bar_files = @ + 1]

\* One broadcast message: a checked entry, or an error.
UpdateFromMessage(stats, message) ==
  IF message.ok THEN UpdateObserved(Update(stats, message.kind), message.kind)
                ELSE Record(stats)

(***************************************************************************)
(* The initial state: the walker has started, the consumers have            *)
(* subscribed, the workers are spawned.                                    *)
(***************************************************************************)
Nothing == [path |-> "none", seen |-> Absent]

Init ==
  /\ \E c \in Cases :
       /\ setup = c.setup
       /\ source = c.source
       /\ dest = c.dest
       /\ was = c.dest
  /\ walk = [todo |-> Paths, taken |-> {}, error |-> FALSE, ended |-> FALSE,
             cut |-> FALSE]
  /\ channel = <<>>
  /\ worker = [w \in Workers |->
                 [at |-> "opening", opened |-> FALSE, item |-> Nothing,
                  seen |-> Absent, labels |-> {}, message |-> Nothing,
                  left |-> {}]]
  /\ issues = <<>>
  /\ checked = NoCounts
  /\ consumer = [c \in Consumers |->
                   [state |-> "running", queue |-> <<>>, stats |-> NoStats]]
  /\ main = "joining"
  /\ history = [versions |-> [p \in Paths |-> {source[p]}], overwritten |-> {}]
  /\ budget = [edits |-> MaxEdits, faults |-> MaxFaults]

Fault == budget.faults > 0 /\ budget' = [budget EXCEPT !.faults = @ - 1]

(***************************************************************************)
(* The walk of the source.                                                 *)
(***************************************************************************)
Walking == ~walk.ended /\ ~walk.cut /\ Len(channel) < Buffer

\* The walk observes an entry and delivers the observation; one removed
\* before it is listed is never seen.
WalkEntry(p) ==
  /\ Walking /\ p \in walk.todo
  /\ IF source[p] = Absent
     THEN /\ walk' = [walk EXCEPT !.todo = @ \ {p}]
          /\ UNCHANGED channel
     ELSE /\ walk' = [walk EXCEPT !.todo = @ \ {p}, !.taken = @ \cup {p}]
          /\ channel' = Append(channel, [path |-> p, seen |-> source[p]])
  /\ UNCHANGED <<setup, source, dest, was, worker, issues, checked, consumer,
                 main, history, budget>>

MutWalkFails(p) ==
  /\ Walking /\ p \in walk.todo /\ Fault
  /\ walk' = [walk EXCEPT !.todo = @ \ {p}]
  /\ channel' = Append(channel, Nothing)
  /\ UNCHANGED <<setup, source, dest, was, worker, issues, checked, consumer,
                 main, history>>

\* An entry cannot be listed or observed: the first such error is stored for
\* the caller, the error is delivered like an entry and the walk goes on.
WalkFails(p) ==
  /\ Walking /\ p \in walk.todo /\ Fault
  /\ walk' = [walk EXCEPT !.todo = @ \ {p}, !.error = TRUE]
  /\ channel' = Append(channel, Nothing)
  /\ UNCHANGED <<setup, source, dest, was, worker, issues, checked, consumer,
                 main, history>>

WalkEnds ==
  /\ ~walk.ended /\ ~walk.cut /\ walk.todo = {}
  /\ walk' = [walk EXCEPT !.ended = TRUE]
  /\ UNCHANGED <<setup, source, dest, was, channel, worker, issues, checked,
                 consumer, main, history, budget>>

\* The traversal does not complete: the rest of the tree is never listed.
WalkAborts ==
  /\ Walking /\ Fault
  /\ walk' = [walk EXCEPT !.todo = {}, !.error = TRUE, !.ended = TRUE]
  /\ channel' = Append(channel, Nothing)
  /\ UNCHANGED <<setup, source, dest, was, worker, issues, checked, consumer,
                 main, history>>

\* The source connection is declared failed: every wait on the channel
\* returns None at once, whatever is still buffered, and the walker's next
\* send fails.
ConnectionFails ==
  /\ ~walk.cut /\ main = "joining" /\ Fault
  /\ walk' = [walk EXCEPT !.cut = TRUE]
  /\ channel' = <<>>
  /\ UNCHANGED <<setup, source, dest, was, worker, issues, checked, consumer,
                 main, history>>

\* What take_error finds: the connection's failure, or the walk's own.
TakeError == walk.cut \/ walk.error

(***************************************************************************)
(* A worker.                                                               *)
(***************************************************************************)
At(w, at) == worker[w].at = at
Goes(w, r) == worker' = [worker EXCEPT ![w] = r]

\* A worker opens its own pair of storages before it takes anything.
OpenStorage(w) ==
  /\ At(w, "opening")
  /\ Goes(w, [worker[w] EXCEPT !.at = "idle", !.opened = TRUE])
  /\ UNCHANGED <<setup, source, dest, was, walk, channel, issues, checked,
                 consumer, main, history, budget>>

\* A worker that cannot is gone; the others carry its share.
OpenFails(w) ==
  /\ At(w, "opening") /\ Fault
  /\ Goes(w, [worker[w] EXCEPT !.at = "gone"])
  /\ UNCHANGED <<setup, source, dest, was, walk, channel, issues, checked,
                 consumer, main, history>>

\* The message a worker broadcasts about the entry it holds.
Telling(w, ok, kind) ==
  [worker[w] EXCEPT !.at = "telling", !.left = Consumers, !.labels = {},
                    !.seen = Absent, !.item = Nothing,
                    !.message = [ok |-> ok, kind |-> kind]]

Count(kind) == checked' = [checked EXCEPT ![kind] = @ + 1]

\* A walk error is broadcast as it is; a directory is not looked up in an
\* object store; everything else is compared.
TakeItem(w) ==
  /\ At(w, "idle") /\ channel # <<>>
  /\ LET item == Head(channel)
         kind == item.seen.kind
     IN  /\ channel' = Tail(channel)
         /\ IF item = Nothing
            THEN Goes(w, Telling(w, FALSE, "none")) /\ UNCHANGED checked
            ELSE IF kind = "dir" /\ setup.objects
            THEN Goes(w, Telling(w, TRUE, kind)) /\ Count(kind)
            ELSE /\ Goes(w, [worker[w] EXCEPT !.at = "comparing",
                                              !.item = item])
                 /\ UNCHANGED checked
  /\ UNCHANGED <<setup, source, dest, was, walk, issues, consumer, main,
                 history, budget>>

\* The channel is closed and drained, or the connection has failed.
WorkerEnds(w) ==
  /\ At(w, "idle")
  /\ walk.cut \/ (walk.ended /\ channel = <<>>)
  /\ Goes(w, [worker[w] EXCEPT !.at = "gone"])
  /\ UNCHANGED <<setup, source, dest, was, walk, channel, issues, checked,
                 consumer, main, history, budget>>

\* The comparison observes the source again, not the walk's observation.
ObserveSource(w) ==
  /\ At(w, "comparing")
  /\ Goes(w, [worker[w] EXCEPT !.at = "observed",
                               !.seen = source[worker[w].item.path]])
  /\ UNCHANGED <<setup, source, dest, was, walk, channel, issues, checked,
                 consumer, main, history, budget>>

Issue(w, what, labels, fix) ==
  [path |-> worker[w].item.path, type |-> worker[w].item.seen.kind,
   kind |-> what, labels |-> labels, fix |-> fix]

\* push_issue, the counter, and the message that follows.
Reports(w, what, labels, fix, ok) ==
  /\ issues' = Append(issues, Issue(w, what, labels, fix))
  /\ Count(worker[w].item.seen.kind)
  /\ Goes(w, Telling(w, ok, worker[w].item.seen.kind))

\* build_lookup_issue: one of the two sides could not be observed.
LookupIssue(w, what) == Reports(w, what, {}, "not_attempted", FALSE)

\* is_truly_missing: either side answers that there is no such entry.
TrulyMissing(s, d) == s = Absent \/ d = Absent

\* process_entry, once both sides have been observed.
ProcessEntry(w) ==
  /\ At(w, "observed")
  /\ LET e == worker[w].item
         s == worker[w].seen
         d == dest[e.path]
         labels == CompareEntry(e.seen.kind, s, d, setup)
     IN  IF TrulyMissing(s, d)
         THEN LookupIssue(w, "missing")
         ELSE IF labels = {}
         THEN /\ Count(e.seen.kind)
              /\ Goes(w, Telling(w, TRUE, e.seen.kind))
              /\ UNCHANGED issues
         ELSE IF setup.auto_fix
         THEN /\ Goes(w, [worker[w] EXCEPT !.at = "owning", !.labels = labels])
              /\ UNCHANGED <<issues, checked>>
         ELSE Reports(w, "mismatch", labels, "not_attempted", TRUE)
  /\ UNCHANGED <<setup, source, dest, was, walk, channel, consumer, main,
                 history, budget>>

\* A transient failure of either observation is not taken for a missing entry.
CompareFails(w) ==
  /\ worker[w].at \in {"comparing", "observed"} /\ Fault
  /\ LookupIssue(w, "error")
  /\ UNCHANGED <<setup, source, dest, was, walk, channel, consumer, main,
                 history>>

\* What remains of the status once every mutation has been applied.
FixStatus(labels) ==
  IF DetectContentMismatch(labels) THEN "partially_fixed" ELSE "fixed"

FixFails(w) == Reports(w, "mismatch", worker[w].labels, "fix_failed", TRUE)
FixEnds(w) ==
  Reports(w, "mismatch", worker[w].labels, FixStatus(worker[w].labels), TRUE)

\* A repair writes what the walk observed.  Owner and mode go together where
\* the destination lets this process set the owner, the mode alone where it
\* does not; a symlink is given no mode, and so no owner either.
Owned(d, e, target) ==
  IF e.kind = "symlink" THEN d
  ELSE IF target = "owner" THEN [d EXCEPT !.owner = e.owner, !.mode = e.mode]
  ELSE IF target = "mode" THEN [d EXCEPT !.mode = e.mode]
  ELSE d

\* set_metadata, first half.  The last step for a file; times follow
\* otherwise.  A destination without copied metadata refuses the call, and one
\* whose entry is gone refuses a mutation that is made.
Owns(e, target) == e.kind # "symlink" /\ target \in {"owner", "mode"}

ApplyOwnership(w) ==
  /\ At(w, "owning")
  /\ LET e == worker[w].item
         d == dest[e.path]
     IN  IF setup.target = "none" \/ (Owns(e.seen, setup.target) /\ d = Absent)
         THEN FixFails(w) /\ UNCHANGED dest
         ELSE /\ dest' = [dest EXCEPT ![e.path] =
                            Owned(d, e.seen, setup.target)]
              /\ IF e.seen.kind = "file"
                 THEN FixEnds(w)
                 ELSE /\ Goes(w, [worker[w] EXCEPT !.at = "timing"])
                      /\ UNCHANGED <<issues, checked>>
  /\ UNCHANGED <<setup, source, was, walk, channel, consumer, main, history,
                 budget>>

MutTimed(w, e) == [dest EXCEPT ![e.path].mtime = worker[w].seen.mtime]

\* The destination with the entry's times as the walk observed them.
Timed(w, e) == [dest EXCEPT ![e.path].mtime = e.seen.mtime]

\* set_metadata, second half: the times of a directory or a symlink, where
\* the destination stores times.
ApplyTimes(w) ==
  /\ At(w, "timing")
  /\ LET e == worker[w].item
     IN  IF setup.target = "unsupported"
         THEN FixEnds(w) /\ UNCHANGED dest
         ELSE IF dest[e.path] = Absent
         THEN FixFails(w) /\ UNCHANGED dest
         ELSE FixEnds(w) /\ dest' = Timed(w, e)
  /\ UNCHANGED <<setup, source, was, walk, channel, consumer, main, history,
                 budget>>

\* A mutation is refused; what the first half wrote stays.
ApplyFails(w) ==
  /\ worker[w].at \in {"owning", "timing"} /\ Fault
  /\ FixFails(w)
  /\ UNCHANGED <<setup, source, dest, was, walk, channel, consumer, main,
                 history>>

(***************************************************************************)
(* The broadcast and its consumers.                                        *)
(***************************************************************************)

\* One of the concurrent sends of a broadcast completes: the consumer has
\* room, or is gone and the failed send is ignored.
Send(w, c) ==
  /\ At(w, "telling") /\ c \in worker[w].left
  /\ IF consumer[c].state # "running"
     THEN UNCHANGED consumer
     ELSE /\ Len(consumer[c].queue) < Room
          /\ consumer' = [consumer EXCEPT ![c].queue =
                            Append(@, worker[w].message)]
  /\ LET left == worker[w].left \ {c}
     IN  Goes(w, [worker[w] EXCEPT
                    !.left = left,
                    !.at = IF left = {} THEN "idle" ELSE "telling",
                    !.message = IF left = {} THEN Nothing ELSE @])
  /\ UNCHANGED <<setup, source, dest, was, walk, channel, issues, checked,
                 main, history, budget>>

Consume(c) ==
  /\ consumer[c].state = "running" /\ consumer[c].queue # <<>>
  /\ consumer' = [consumer EXCEPT
       ![c].queue = Tail(@),
       ![c].stats = IF c = Statistics
                    THEN UpdateFromMessage(@, Head(consumer[c].queue))
                    ELSE @]
  /\ UNCHANGED <<setup, source, dest, was, walk, channel, worker, issues,
                 checked, main, history, budget>>

MutConsumerFails(c) ==
  /\ c # Statistics /\ consumer[c].state = "running" /\ Fault
  /\ consumer' = [consumer EXCEPT ![c].queue = [i \in 1 .. Room |-> Nothing],
                                  ![c].state = "stuck"]
  /\ UNCHANGED <<setup, source, dest, was, walk, channel, worker, issues,
                 checked, main, history>>

\* A consumer gives up: its receiver, and what is queued in it, is dropped.
ConsumerFails(c) ==
  /\ c # Statistics /\ consumer[c].state = "running" /\ Fault
  /\ consumer' = [consumer EXCEPT ![c].queue = <<>>, ![c].state = "failed"]
  /\ UNCHANGED <<setup, source, dest, was, walk, channel, worker, issues,
                 checked, main, history>>

\* Every sender is gone and the queue is drained.
ConsumerEnds(c) ==
  /\ consumer[c].state = "running" /\ consumer[c].queue = <<>>
  /\ main = "draining"
  /\ consumer' = [consumer EXCEPT ![c].state = "done"]
  /\ UNCHANGED <<setup, source, dest, was, walk, channel, worker, issues,
                 checked, main, history, budget>>

(***************************************************************************)
(* The caller.                                                             *)
(***************************************************************************)

\* All workers have been joined; the broadcaster is dropped.
Joined ==
  /\ main = "joining" /\ \A w \in Workers : At(w, "gone")
  /\ main' = "draining"
  /\ UNCHANGED <<setup, source, dest, was, walk, channel, worker, issues,
                 checked, consumer, history, budget>>

\* All consumers have been joined; a failed one is only logged.  The result
\* is printed unless the walk left an error.
Returns ==
  /\ main = "draining"
  /\ \A c \in Consumers : consumer[c].state \in {"done", "failed"}
  /\ main' = IF TakeError THEN "error" ELSE "ok"
  /\ UNCHANGED <<setup, source, dest, was, walk, channel, worker, issues,
                 checked, consumer, history, budget>>

Total == checked["file"] + checked["dir"] + checked["symlink"]
Numbered(what) == Cardinality({i \in 1 .. Len(issues) : issues[i].kind = what})

\* The summary printed after a check that succeeds.
Summary ==
  [passed |-> IF Total > Len(issues) THEN Total - Len(issues) ELSE 0,
   missing |-> Numbered("missing"), mismatch |-> Numbered("mismatch"),
   errors |-> Numbered("error"),
   fixed |-> Cardinality({i \in 1 .. Len(issues) : issues[i].fix = "fixed"})]

(***************************************************************************)
(* Other programs.                                                         *)
(***************************************************************************)
Edit(p, o) ==
  /\ budget.edits > 0 /\ main = "joining"
  /\ budget' = [budget EXCEPT !.edits = @ - 1]
  /\ \/ /\ source[p] # o /\ source' = [source EXCEPT ![p] = o]
        /\ history' = [history EXCEPT !.versions[p] = @ \cup {o}]
        /\ UNCHANGED dest
     \/ /\ dest[p] # o /\ dest' = [dest EXCEPT ![p] = o]
        /\ history' = [history EXCEPT !.overwritten = @ \cup {p}]
        /\ UNCHANGED source
  /\ UNCHANGED <<setup, was, walk, channel, worker, issues, checked, consumer,
                 main>>

Work(w) ==
  \/ OpenStorage(w)
  \/ TakeItem(w)
  \/ WorkerEnds(w)
  \/ ObserveSource(w)
  \/ ProcessEntry(w)
  \/ ApplyOwnership(w)
  \/ ApplyTimes(w)
  \/ \E c \in Consumers : Send(w, c)

\* What the program's tasks do when nothing fails.
Run ==
  \/ \E p \in Paths : WalkEntry(p)
  \/ WalkEnds
  \/ \E w \in Workers : Work(w)
  \/ \E c \in Consumers : Consume(c) \/ ConsumerEnds(c)
  \/ Joined
  \/ Returns

\* What may go wrong, and what others do.
Disturb ==
  \/ \E p \in Paths : WalkFails(p)
  \/ WalkAborts
  \/ ConnectionFails
  \/ \E w \in Workers : OpenFails(w) \/ CompareFails(w) \/ ApplyFails(w)
  \/ \E c \in Consumers : ConsumerFails(c)
  \/ \E p \in Paths : \E o \in Edited[p] : Edit(p, o)

Next == Run \/ Disturb

\* The runtime runs some task that can run.
Spec == Init /\ [][Next]_vars /\ WF_vars(Run)
-----------------------------------------------------------------------------
\* Paths another program changed on either side.
Touched == {p \in Paths : Cardinality(history.versions[p]) > 1}
           \cup history.overwritten

IssuesOf(p) == {i \in 1 .. Len(issues) : issues[i].path = p}
Unlisted(k) ==
  Cardinality({i \in 1 .. Len(issues) :
                 issues[i].type = k /\ issues[i].kind \in {"missing", "error"}})

\* The check of p says the same as a comparison made when the check began.
VerdictIsRight(p) ==
  IF source[p].kind = "dir" /\ setup.objects THEN IssuesOf(p) = {}
  ELSE LET labels == IF was[p] = Absent THEN {}
                     ELSE CompareEntry(source[p].kind, source[p], was[p], setup)
       IN  IF IssuesOf(p) = {} THEN was[p] # Absent /\ labels = {}
           ELSE \A i \in IssuesOf(p) :
                  \/ issues[i].kind = "error"
                  \/ issues[i].kind = "missing" /\ was[p] = Absent
                  \/ /\ issues[i].kind = "mismatch"
                     /\ was[p] # Absent /\ labels = issues[i].labels
                     /\ labels # {}

\* When the check reports success and at least one worker could open its
\* storages, every entry the walk delivered was checked exactly once, every
\* entry no other program touched has the verdict a comparison of the two
\* trees gives, and the statistics, counted by another task from broadcast
\* messages, and the printed summary agree with the workers' own counters
\* (integrity_check.rs: worker loop, join, take_error).
ReportIsComplete ==
  main = "ok" /\ (\E w \in Workers : worker[w].opened) =>
    /\ Total = Cardinality(walk.taken)
    /\ \A p \in Paths : Cardinality(IssuesOf(p)) <= 1
    /\ \A p \in Paths \ Touched :
         source[p] # Absent => p \in walk.taken /\ VerdictIsRight(p)
    /\ Summary.passed = Cardinality({p \in walk.taken : IssuesOf(p) = {}})
    /\ Summary.fixed <= Summary.mismatch
    /\ LET s == consumer[Statistics].stats
       IN  /\ \A k \in Kinds : s.count[k] = checked[k] - Unlisted(k)
           /\ s.errors = Summary.missing + Summary.errors
           /\ s.bar_files + s.bar_dirs + s.errors = Total

\* What the destination and the code together can write.
Repaired(kind) ==
  {f \in {"owner", "mode", "mtime"} :
     \/ f = "owner" /\ kind # "symlink" /\ setup.target = "owner"
     \/ f = "mode" /\ kind # "symlink" /\ setup.target \in {"owner", "mode"}
     \/ f = "mtime" /\ kind # "file" /\ setup.target \in {"owner", "mode"}}

\* An issue marked Fixed or PartiallyFixed leaves at the destination all that
\* the repair can write of ONE version the source had during the check, also
\* when the source changes between the walk, the comparison and the two
\* mutations; of the source itself, then, if it did not change.  Nothing is
\* said of an entry another program overwrote at the destination.  A symlink's
\* owner and mode, and an owner this process may not set, are marked Fixed
\* although nothing writes them, and so is what has become stale since the
\* walk (apply_auto_fix).
FixedMeansRepaired ==
  \A i \in 1 .. Len(issues) :
    LET p == issues[i].path
    IN  issues[i].fix \in {"fixed", "partially_fixed"} /\ p \notin history.overwritten =>
          \E v \in history.versions[p] \ {Absent} :
             \A f \in Repaired(issues[i].type) : dest[p][f] = v[f]

\* The check returns, whatever fails: workers blocked on a full consumer
\* channel are released when that consumer gives up.
CheckReturns == <>(main \in {"ok", "error"})
=============================================================================
