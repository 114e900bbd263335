------------------------- MODULE ProgressCallbacks -------------------------
(***************************************************************************)
(* What the web service shows of a scan: the statistics of a running scan  *)
(* (crates/app/src/consumer, scan/progress.rs), the reports its callback   *)
(* loop posts, and the transaction that receives them                      *)
(* (crates/web/src/infrastructure/callback_receipt.rs).                    *)
(*                                                                         *)
(* A durable scan lists directories in Blocks order, saves its statistics  *)
(* with each checkpoint and resumes them in a later execution; a streaming *)
(* one lists them in any order and starts again from the root.  Diagnostic *)
(* events wait in a bounded outbox until the service acknowledged them.    *)
(*                                                                         *)
(* Executions of the task are numbered; each is one attempt, and a round   *)
(* has the number of the execution that began it, which stands for its     *)
(* start time.  Callbacks are loopback requests inside one process.        *)
(***************************************************************************)
EXTENDS Integers, FiniteSets, Sequences, SequencesExt

CONSTANTS
    Sizes,        \* the trees: entries of each directory, in listing order
    Capacity,     \* events the outbox holds
    BatchSize,    \* events of one batch
    MaxRuns,      \* bound: executions
    MaxPosts,     \* bound: reports of one execution
    MaxBreaks,    \* bound: network faults of a source of that many directories
    MaxFaults     \* bound: crashes, failed scans and requests that go wrong

Runs == 1..MaxRuns
None == [seq |-> 0]

ASSUME CallbacksAssumption ==
    /\ \A s \in Sizes : s \in Seq(Nat) /\ MaxBreaks[Len(s)] \in Nat
    /\ Capacity \in Nat /\ BatchSize \in Nat \ {0}
    /\ {MaxRuns, MaxPosts, MaxFaults} \subseteq Nat

VARIABLES
    size,      \* the tree that is scanned
    durable,   \* the scan keeps checkpoints
    job,       \* the execution: its step, number, round, reports sent and outcome
    source,    \* the traversal: entries yielded and reported, faults and state
    stats,     \* ScanSnapshot and ScanProgress: counts and distributions
    outbox,    \* DiagnosticOutbox
    runtime,   \* ScanRuntimeState: network faults, before and during this execution
    post,      \* the report the callback loop waits for
    net,       \* reports on their way to the service
    server,    \* what the service has committed
    saved,     \* the statistics of the manifest
    spent      \* faults of each kind so far

scan == <<size, durable>>
vars == <<scan, job, source, stats, outbox, runtime, post, net, server, saved, spent>>

Dirs == 1..Len(size)
Total == SumFunction(size)

NewOutbox == [pending |-> <<>>, omitted |-> 0, flight |-> <<>>, events |-> 0, batches |-> 0]
NewStats == [snap |-> 0, prefix |-> 0, confirmed |-> 0, cursor |-> 0,
             active |-> [d \in Dirs |-> 0], queued |-> 0, dist |-> 0,
             whole |-> TRUE, reconciled |-> FALSE, complete |-> FALSE]
NewSource(cursor) ==
    [seen |-> [d \in Dirs |-> IF d <= cursor THEN size[d] ELSE 0],
     told |-> [d \in Dirs |-> IF d <= cursor THEN size[d] ELSE 0],
     done |-> 1..cursor, faults |-> 0, recovering |-> FALSE]
NewSaved == [phase |-> "none", round |-> 0, stats |-> NewStats, outbox |-> NewOutbox, faults |-> 0]
Idle == [step |-> "idle", x |-> 0, round |-> 0, seq |-> 0, ok |-> FALSE]

Init ==
    /\ size \in Sizes /\ durable \in BOOLEAN
    /\ job = Idle /\ source = NewSource(0) /\ stats = NewStats /\ outbox = NewOutbox
    /\ runtime = [base |-> 0, faults |-> 0]
    /\ post = None /\ net = {}
    /\ server = [status |-> [x \in Runs |-> "none"], events |-> {}, batches |-> {}, omitted |-> 0,
                 shown |-> None, final |-> [x \in Runs |-> None]]
    /\ saved = NewSaved
    /\ spent = [breaks |-> 0, faults |-> 0]

Fault == spent.faults < MaxFaults /\ spent' = [spent EXCEPT !.faults = @ + 1]

-----------------------------------------------------------------------------
(* The outbox.                                                             *)

\* set_attempt: what a later attempt adds to a restored outbox carries its identity
EventId(o) == <<job.round, job.x, o.events + 1>>
\* identifier: batches are told apart by round, attempt and number
BatchId(o) == <<job.round, job.x, o.batches + 1>>

\* enqueue: a full outbox counts the event as omitted
Enqueued(o) ==
    IF Len(o.pending) >= Capacity
    THEN [o EXCEPT !.omitted = @ + 1]
    ELSE [o EXCEPT !.events = @ + 1, !.pending = Append(@, EventId(o))]

\* prepare_batch: the batch of a report, the same until it is acknowledged
Prepared(o) ==
    IF o.flight # <<>> \/ (o.pending = <<>> /\ o.omitted = 0) THEN o
    ELSE [o EXCEPT !.batches = @ + 1,
                   !.flight = <<[id |-> BatchId(o), omitted |-> o.omitted,
                                 events |-> SubSeq(o.pending, 1, IF Len(o.pending) < BatchSize
                                                                 THEN Len(o.pending) ELSE BatchSize)]>>]

\* ack: what the acknowledged batch held leaves the outbox, and nothing else, in
\* particular none of the events queued while it was in flight
MutAcknowledged(o, flight) ==
    IF flight = <<>> \/ o.flight # flight THEN o
    ELSE [o EXCEPT !.pending = <<>>, !.omitted = @ - flight[1].omitted, !.flight = <<>>]
Acknowledged(o, flight) ==
    IF flight = <<>> \/ o.flight # flight THEN o
    ELSE [o EXCEPT !.pending = SubSeq(@, Len(flight[1].events) + 1, Len(@)),
                   !.omitted = @ - flight[1].omitted, !.flight = <<>>]

-----------------------------------------------------------------------------
(* Statistics of the traversal.                                            *)

\* An execution begins, where a manifest is still open with its statistics.
Resumes == durable /\ saved.phase \in {"running", "finalizing", "committed"}
Restored ==
    /\ job' = [Idle EXCEPT !.x = job.x + 1, !.round = saved.round, !.ok = saved.phase = "committed",
                  !.step = CASE saved.phase = "running" -> "scan"
                             [] saved.phase = "finalizing" -> "finalize"
                             [] OTHER -> "closing"]
    /\ stats' = saved.stats
    /\ outbox' = saved.outbox
    /\ source' = NewSource(saved.stats.cursor)
    /\ runtime' = [base |-> saved.faults, faults |-> saved.faults]
    /\ saved' = [saved EXCEPT !.phase = IF @ = "committed" THEN "completed" ELSE @]
Fresh ==
    /\ job' = [Idle EXCEPT !.x = job.x + 1, !.round = job.x + 1, !.step = "scan"]
    /\ stats' = NewStats /\ outbox' = NewOutbox /\ source' = NewSource(0)
    /\ runtime' = [base |-> 0, faults |-> 0]
FreshRound == Fresh /\ saved' = [NewSaved EXCEPT !.phase = "running", !.round = job.x + 1]
FreshStream == Fresh /\ UNCHANGED saved
StartRun ==
    /\ job.step = "idle" /\ job.x < MaxRuns
    /\ IF Resumes THEN Restored ELSE IF durable THEN FreshRound ELSE FreshStream
    /\ server' = [server EXCEPT !.status[job.x + 1] = "running"]
    /\ UNCHANGED <<scan, post, net, spent>>

Scanning == job.step = "scan" /\ ~source.recovering
\* A Blocks traversal lists one directory after the other.
MayList(d) == d \notin source.done /\ (durable => \A e \in 1..(d - 1) : e \in source.done)

ObserveEntry(d) ==
    /\ Scanning /\ MayList(d) /\ source.seen[d] < size[d]
    /\ source' = [source EXCEPT !.seen[d] = @ + 1]
    /\ stats' = [stats EXCEPT !.queued = @ + 1]
    /\ UNCHANGED <<scan, job, outbox, runtime, post, net, server, saved, spent>>

\* record_observations, by the tick or a full batch
Delivered(s) == [s EXCEPT !.dist = IF s.whole THEN @ + s.queued ELSE @, !.queued = 0]
DeliverEntries ==
    /\ Scanning /\ stats.queued > 0
    /\ stats' = Delivered(stats)
    /\ UNCHANGED <<scan, job, source, outbox, runtime, post, net, server, saved, spent>>

\* ScanProgress::push: the directory's contribution replaces its earlier one
Replaced(s, d, n, complete) ==
    [s EXCEPT !.snap = @ - s.active[d] + n,
              !.active[d] = IF complete THEN 0 ELSE n,
              !.prefix = IF complete THEN @ + n ELSE @]
PushStatistics(d) ==
    /\ Scanning /\ MayList(d)
    /\ source.seen[d] = size[d] \/ source.seen[d] > source.told[d]
    /\ LET complete == source.seen[d] = size[d]
       IN  /\ source' = [source EXCEPT !.told[d] = source.seen[d],
                                       !.done = IF complete THEN @ \cup {d} ELSE @]
           /\ stats' = Replaced(stats, d, source.seen[d], complete)
    /\ UNCHANGED <<scan, job, outbox, runtime, post, net, server, saved, spent>>

\* to_report_for_scan_prefix and checkpoint_for_scan_prefix
PrefixOf(s) ==
    [NewStats EXCEPT !.snap = s.prefix, !.prefix = s.prefix, !.confirmed = s.prefix,
                     !.cursor = Cardinality(source.done), !.whole = s.prefix = 0]
\* A checkpoint between two directories, once the consumers have caught up.
Checkpoint ==
    /\ Scanning /\ durable /\ stats.active = [d \in Dirs |-> 0]
    /\ Cardinality(source.done) > stats.cursor
    /\ \A d \in Dirs \ source.done : source.seen[d] = 0
    /\ saved' = [saved EXCEPT !.stats = PrefixOf(stats), !.outbox = outbox, !.faults = runtime.faults]
    /\ stats' = [Delivered(stats) EXCEPT !.confirmed = stats.prefix, !.cursor = Cardinality(source.done)]
    /\ UNCHANGED <<scan, job, source, outbox, runtime, post, net, server, spent>>

-----------------------------------------------------------------------------
(* Faults of the source, and the watcher that reports them.                *)

Break ==
    /\ Scanning /\ spent.breaks < MaxBreaks[Len(size)]
    /\ spent' = [spent EXCEPT !.breaks = @ + 1]
    /\ source' = [source EXCEPT !.faults = @ + 1, !.recovering = TRUE]
    /\ UNCHANGED <<scan, job, stats, outbox, runtime, post, net, server, saved>>

\* Resumed: the traversal starts again, from the last checkpoint in Blocks
\* order, from the root otherwise; the counts go back to what was confirmed.
MutResumed(s) ==
    [s EXCEPT !.snap = IF durable THEN s.confirmed ELSE 0, !.prefix = IF durable THEN s.confirmed ELSE 0,
              !.queued = 0, !.dist = 0, !.whole = s.confirmed = 0, !.reconciled = FALSE, !.complete = FALSE]
Resumed(s) ==
    [s EXCEPT !.snap = IF durable THEN s.confirmed ELSE 0, !.prefix = IF durable THEN s.confirmed ELSE 0,
              !.active = [d \in Dirs |-> 0], !.queued = 0, !.dist = 0, !.whole = s.confirmed = 0,
              !.reconciled = FALSE, !.complete = FALSE]
SourceResumes ==
    /\ job.step = "scan" /\ source.recovering
    /\ source' = [NewSource(stats.cursor) EXCEPT !.faults = source.faults]
    /\ stats' = Resumed(stats)
    /\ UNCHANGED <<scan, job, outbox, runtime, post, net, server, saved, spent>>

\* apply: one event for all faults since the watcher looked last
FaultsNow == runtime.base + source.faults
Sampled(o) == IF runtime.faults < FaultsNow THEN Enqueued(o) ELSE o
Sample ==
    /\ job.step = "scan" /\ runtime.faults < FaultsNow
    /\ runtime' = [runtime EXCEPT !.faults = FaultsNow]
    /\ outbox' = Sampled(outbox)
    /\ UNCHANGED <<scan, job, source, stats, post, net, server, saved, spent>>

-----------------------------------------------------------------------------
(* The end of the scan.                                                    *)

\* The source is exhausted; RecoveryProgress::finish samples once more.
Exhausted ==
    /\ Scanning /\ source.done = Dirs
    /\ runtime' = [runtime EXCEPT !.faults = FaultsNow] /\ outbox' = Sampled(outbox)
    /\ stats' = [Delivered(stats) EXCEPT !.complete = TRUE]
    /\ UNCHANGED <<scan, source, post, net, server, spent>>
SourceEnds ==
    /\ durable /\ Exhausted
    /\ job' = [job EXCEPT !.step = "finalize"]
    /\ saved' = [saved EXCEPT !.phase = "finalizing", !.stats = stats', !.outbox = outbox,
                              !.faults = runtime.faults]
\* A streaming scan has nothing to save or to finalize.
StreamEnds ==
    /\ ~durable /\ Exhausted
    /\ job' = [job EXCEPT !.step = "closing", !.ok = TRUE]
    /\ UNCHANGED saved

\* reconcile_scan_statistics: distributions of the rows in the database
Reconciled(s) == [s EXCEPT !.dist = Total, !.reconciled = TRUE]
Finalize ==
    /\ job.step = "finalize"
    /\ stats' = Reconciled(stats)
    /\ saved' = [saved EXCEPT !.phase = "committed", !.stats = Reconciled(stats), !.outbox = outbox,
                              !.faults = runtime.faults]
    /\ job' = [job EXCEPT !.step = "closing", !.ok = TRUE]
    /\ UNCHANGED <<scan, source, outbox, runtime, post, net, server, spent>>

\* A failed scan reports its error, a cancelled one does not.
ScanFails(cancelled) ==
    /\ job.step \in {"scan", "finalize"} /\ Fault
    /\ runtime' = [runtime EXCEPT !.faults = FaultsNow]
    /\ outbox' = IF cancelled THEN Sampled(outbox) ELSE Enqueued(Sampled(outbox))
    /\ job' = [job EXCEPT !.step = "closing"]
    /\ UNCHANGED <<scan, source, stats, post, net, server, saved>>

\* end_lifecycle: the callback loop is aborted; the manifest is closed before
EndLifecycle ==
    /\ job.step = "closing"
    /\ job' = [job EXCEPT !.step = "ending"]
    /\ saved' = [saved EXCEPT !.phase = IF @ = "committed" THEN "completed" ELSE @]
    /\ post' = None
    /\ UNCHANGED <<scan, source, stats, outbox, runtime, net, server, spent>>

-----------------------------------------------------------------------------
(* Reports.                                                                *)

\* post_callback: number, batch and counts are taken under one lock.
Report(o, final) ==
    [seq |-> job.seq + 1, x |-> job.x, round |-> job.round, final |-> final, batch |-> o.flight,
     count |-> stats.snap, complete |-> stats.complete, faults |-> runtime.faults,
     dist |-> IF final /\ stats.complete /\ (stats.whole \/ stats.reconciled) THEN <<stats.dist>> ELSE <<>>]
Post(final) ==
    /\ post = None /\ job.seq < MaxPosts
    /\ outbox' = Prepared(outbox)
    /\ job' = [job EXCEPT !.seq = @ + 1]
    /\ post' = Report(outbox', final) @@ [answer |-> "none"]
    /\ net' = net \cup {Report(outbox', final)}
    /\ UNCHANGED <<scan, source, stats, runtime, server, saved, spent>>
CallbackTick == job.step \in {"scan", "finalize", "closing"} /\ Post(FALSE)
SendFinal == job.step = "ending" /\ Post(TRUE)

\* Whether the client still waits for the answer to r.
Awaited(r) == post # None /\ post.x = r.x /\ post.seq = r.seq /\ post.answer = "none"
Answered(r, a) == post' = IF Awaited(r) THEN [post EXCEPT !.answer = a] ELSE post

\* follows: newer than the report shown, and not after this attempt's final one
MutFollows(r) == server.shown = None \/ (r.seq > server.shown.seq /\ ~server.shown.final)
Follows(r) ==
    \/ server.shown = None
    \/ r.round > server.shown.round
    \/ /\ r.round = server.shown.round
       /\ r.x > server.shown.x \/ (r.x = server.shown.x /\ r.seq > server.shown.seq /\ ~server.shown.final)
Accepted(r) == Follows(r) /\ server.status[r.x] = "running"

\* store_batch: a batch that is already there changes nothing
Stored(s, batch) ==
    IF batch = <<>> \/ batch[1].id \in s.batches THEN s
    ELSE [s EXCEPT !.batches = @ \cup {batch[1].id}, !.events = @ \cup Range(batch[1].events),
                   !.omitted = @ + batch[1].omitted]

\* execution_stats_from_report: what the row of an execution keeps
ExecutionStats(r) ==
    [seq |-> r.seq, x |-> r.x, complete |-> r.complete, count |-> r.count, dist |-> r.dist]

\* store_progress: the report shown, and a final one's statistics in its row
Shown(s, r) ==
    [s EXCEPT !.shown = r,
              !.final = IF r.final THEN [@ EXCEPT ![r.x] = ExecutionStats(r)] ELSE @]

\* receive: one transaction
Receive(r) ==
    /\ r \in net /\ net' = net \ {r}
    /\ server' = IF Accepted(r) THEN Shown(Stored(server, r.batch), r) ELSE Stored(server, r.batch)
    /\ Answered(r, "ack")
    /\ UNCHANGED <<scan, job, source, stats, outbox, runtime, saved, spent>>

\* The transaction fails, or the request is never handled.
ReceiveFails(r) ==
    /\ r \in net /\ net' = net \ {r} /\ Fault
    /\ Answered(r, "error")
    /\ UNCHANGED <<scan, job, source, stats, outbox, runtime, server, saved>>

\* The client gives up, whatever becomes of the request or its answer.
Timeout ==
    /\ post # None /\ post.answer \in {"none", "ack"} /\ Fault
    /\ post' = [post EXCEPT !.answer = "error"]
    /\ UNCHANGED <<scan, job, source, stats, outbox, runtime, net, server, saved>>

\* The answer; a final report is followed by another while events are left.
Answer ==
    /\ post # None /\ post.answer # "none"
    /\ outbox' = IF post.answer = "ack" THEN Acknowledged(outbox, post.batch) ELSE outbox
    /\ job' = IF post.final /\ (post.answer = "error" \/ (outbox'.pending = <<>> /\ outbox'.omitted = 0))
              THEN [job EXCEPT !.step = "over"] ELSE job
    /\ post' = None
    /\ UNCHANGED <<scan, source, stats, runtime, net, server, saved, spent>>

\* The time allowed for the final reports is over.
BudgetOver ==
    /\ job.step = "ending" /\ Fault
    /\ job' = [job EXCEPT !.step = "over"] /\ post' = None
    /\ UNCHANGED <<scan, source, stats, outbox, runtime, net, server, saved>>

\* The runner records the outcome of the execution.
JobReturns ==
    /\ job.step = "over"
    /\ server' = [server EXCEPT !.status[job.x] = IF job.ok THEN "completed" ELSE "failed"]
    /\ job' = [Idle EXCEPT !.x = job.x]
    /\ source' = NewSource(0) /\ stats' = NewStats /\ outbox' = NewOutbox
    /\ runtime' = [base |-> 0, faults |-> 0]
    /\ UNCHANGED <<scan, post, net, saved, spent>>

\* The process stops; at its restart the service closes the execution.
Crash ==
    /\ job.step # "idle" /\ Fault
    /\ server' = [server EXCEPT !.status[job.x] = "failed"]
    /\ job' = [Idle EXCEPT !.x = job.x]
    /\ source' = NewSource(0) /\ stats' = NewStats /\ outbox' = NewOutbox
    /\ runtime' = [base |-> 0, faults |-> 0]
    /\ post' = None /\ net' = {}
    /\ UNCHANGED <<scan, saved>>

Next ==
    \/ StartRun \/ DeliverEntries \/ Checkpoint \/ Break \/ SourceResumes \/ Sample
    \/ \E d \in Dirs : ObserveEntry(d) \/ PushStatistics(d)
    \/ SourceEnds \/ StreamEnds \/ Finalize \/ (\E c \in BOOLEAN : ScanFails(c)) \/ EndLifecycle
    \/ CallbackTick \/ SendFinal
    \/ (\E r \in net : Receive(r) \/ ReceiveFails(r))
    \/ Timeout \/ Answer \/ BudgetOver \/ JobReturns \/ Crash

Spec == Init /\ [][Next]_vars

-----------------------------------------------------------------------------
(* Properties.                                                             *)

\* Replayed directories are never counted twice and none is forgotten: while a
\* scan runs its counts are exactly what the traversal has reported so far.
CountsAreListed ==
    job.step = "scan" /\ ~source.recovering => stats.snap = SumFunction(source.told)

\* The statistics kept for an execution are its own, and where they claim a
\* complete scan they and their distributions cover every entry exactly once.
FinalStatsExact ==
    \A x \in Runs : server.final[x] # None =>
        /\ server.final[x].x = x
        /\ server.final[x].complete =>
               server.final[x].count = Total /\ server.final[x].dist \in {<<>>, <<Total>>}

\* When no request goes wrong, an execution never ends without its final
\* statistics, however late the reports of the aborted loop are handled.
FinalArrives ==
    spent.faults = 0 => \A x \in Runs : server.status[x] = "completed" => server.final[x] # None

\* The final report of an execution is its own, exact where it claims to be
\* complete, and there when nothing went wrong.
FinalReport == FinalStatsExact /\ FinalArrives

\* A diagnostic event leaves the outbox of a running scan only when the service
\* has stored it, and omissions only when the service has counted them: what is
\* queued or omitted while a batch is in flight outlives its acknowledgement.
NoDetailDropped ==
    [][job.step # "idle" /\ job'.step # "idle" =>
          /\ Range(outbox.pending) \subseteq Range(outbox'.pending) \cup server'.events
          /\ outbox'.omitted < outbox.omitted =>
                 /\ outbox.flight # <<>> /\ outbox.flight[1].id \in server'.batches
                 /\ outbox'.omitted = outbox.omitted - outbox.flight[1].omitted]_vars
=============================================================================
