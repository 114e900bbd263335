# TLA+ verification of terrasync-rs

TerraSync copies and scans file trees between storages. This directory holds
TLA+ models of its stateful parts, the TLC configurations that check them on
small instances, and TLAPS proofs that hold for every instance.
`PROJECT.json` lists, for every definition, the source lines it models.

## Inventory

| part | state | operations | what is hard | correct when |
|---|---|---|---|---|
| credit flow control (`transport/flow_control.rs`) | balance and `closed` of the sender, `accepted_pending` of the receiver | `acquire`, `grant`, `accepted`, `flush`, `close` | several waiters, wakeups that are not stored, delayed grants | nothing created or lost, no missed wakeup, `acquire` returns |
| multiplexed streams (`transport/quic`) | four streams, reader tasks, an unbounded fan-in channel | open, lazy accept, `send_routed`, `recv` | no order between streams, streams accepted late | nobody waits for a stream the other has not opened |
| remote sender session (`app/remote_sync`) | lifecycle, `SenderSessionLedger`, completed paths, checkpoint file | advertise, serve requests, count acknowledgements | receives and sends from one task; source failures in mid-file | its totals equal the receiver's; the checkpoint names published files only |
| remote receiver session (`app/receiver.rs`, `remote_receiver_session.rs`) | `TransferLedger`, `ActiveTransfer`, attempts, destination tree | page, data, outcome and failure handlers, orphan deletion, shutdown | outcomes, failures and payload of one entry arrive in any order | each entry one verdict; ends exactly when all are settled; the destination is the source |
| disk commit (`app/disk_commit.rs`, `file_commit.rs`) | `FileCommitState`, queue of 16, delta context | begin, push, commit, abort | bounded queue one way, acknowledgements the other; the basis is not locked | success means durable |
| handshake, inventory, advertisement | negotiated features, tokens, `NdxTable`, advertisement ledger | negotiate, authenticate, pack pages | version skew, walks that fail | both ends agree on features and numbering; a refused peer changes nothing |
| remote expert transfer | one transfer per connection, a stage that survives | offer, request, send, commit | retries from a durable prefix | one version published, both ends agree |
| scan and scan resume (`app/scan*`) | prefetch queue, permits, batches of several workers, checkpoints | walk, deliver, checkpoint, resume, cancel | barriers, reconnection, crash | a checkpoint covers exactly what was walked; a round records the difference |
| scan metadata checkpoints (`db/scan`) | working tables, cuts, manifest | write, capture, publish, restore, clean up | crash in each step, unconfirmed DDL | the tables restored are those of the manifest |
| execution recovery (`db/execution`) | recovery window, tickets, terminal error | request, fail, recover, probe, expire | one window shared by concurrent requests | ends in recovery or in one error, never replays an unconfirmed write |
| catalogue (`db/catalogue`) | generations, baselines, rows per path | begin, rebase, compare, commit | crash before publication | readers see whole generations; rows never hide a missing copy |
| local copy (`app/orchestrator.rs`, ...) | copies in progress, rows, deletions and renames of phase B | walk, compare, copy, record, apply | crash between copying and recording; the source changes under the run | a committed run leaves the source's tree; only what is gone is deleted |
| delta algorithms (`sync-delta`) | window, carry, pending match | sign, match, rebuild | chunk boundaries, colliding checksums | reconstruction returns the source, no block is missed |
| web task lifecycle (`web`) | task and execution rows, `running_tasks`, permits | create, edit, start, cancel, delete, shutdown, restart | handlers act on rows read earlier; crash between writes | one owner per run, final status recorded |
| progress callbacks (`app/consumer`, `web`) | statistics, diagnostic outbox, received reports | count, checkpoint, report, receive | replayed directories, late and repeated requests | counts are exact, the final report stays |
| integrity check | shared counters, issues, bounded channels | walk, compare, repair, report | workers, consumers and the walk block on each other | the report is complete and right |
| licensing | stored clock | verify, record | clock set back | not modelled |

How the parts interact: a synchronisation between two processes is a sender
session and a receiver session over one QUIC connection. The sender walks the
source and advertises pages on the FileList stream; the receiver compares each
page with the destination and answers with requests on the way back of that
stream; the sender streams file data on Data, guarded by credit; the receiver
hands it to the disk-commit task through a bounded queue and reports outcomes
on AckProgress; configuration, `TransferDone` and source failures travel on
Control. A scan reads a source through a resumable walk and writes ClickHouse
through the recovery window; a local copy compares its walk with the rows of
the catalogue. The web server runs scans and copies in threads of its own and
learns about them from callbacks to itself.

## Plan

1. (done) `CreditFlow` and `RecoveryWindow` with their proofs; `SyncContract`,
   `RemoteSession` and the refinement between them; `ScanRounds`.
2. (done) `RemoteTree`, `RemoteExpert`, `DeltaTransfer`; `ScanIngest`,
   `LocalCopy`; `TaskLifecycle`, `ProgressCallbacks`; `IntegrityCheck`.
3. (done) Proofs of the invariants of `TaskLifecycle` and `RemoteExpert`,
   of `MovedIsKept` and `DeletesOnlyGone` in `LocalCopy`, of
   `CheckpointIsPublished` and `OnlyPermittedChanges` in `RemoteTree`, and of
   `LedgerIsTrue`, `SenderAgrees` and `ImplementsContract` in `RemoteSession`.
4. (done) Proofs of `ReadersSeeCommitted` and `RoundIsResumable` in
   `ScanRounds`, and for sources without file handles of `CommittedMatches` and
   `SkipsAreCopied` in `LocalCopy`.
5. (done) Proof of `MirrorWhenClean` in `RemoteTree`.
6. Proofs to come: `CommittedMatches` and `SkipsAreCopied` for sources with
   handles.

Three modules compose others in substance rather than by `INSTANCE`:
`RemoteTree` and `RemoteSession` look at the same session, one at the tree and
one at the transfer of a file, and `DeltaTransfer` at the bytes of one delta;
`ScanIngest` uses the cut that `ScanRounds` shows to be safe as one step. Each
says which detail the other has. The only refinement that is checked is
`RemoteSession` against `SyncContract`.

## Modules

### CreditFlow

Models `SenderCreditState` and `ReceiverCreditState`, the `acquire` call in
`QuicSenderTransport::send` and the filter task that consumes grants.
`acquire` is split where other tasks can run: `Call` (capacity check and
registration), `Check` (the critical section), `Park` (reaching the await),
`Rearm` (the next turn of the loop). `woken` is the set of registered futures
that `notify_waiters` reached. The two directions of the connection are byte
counters; a reader takes any positive part, so every division into messages is
covered. `ForgeGrant` is a grant nothing is owed for, `Refuse` the receiver's
path that drops a payload. `AcquireReturns` has two exceptions, both the code's:
dropped payload, and a cost that is `Strandable`, above the window less the
largest amount the receiver may withhold.

### SyncContract and RemoteSession

`SyncContract` says what a session promises: each entry is classified once,
gets one final verdict, and the session is called complete only with none
pending. An entry whose page the receiver threw away is "overlooked", which the
contract allows only because the code does it (see below). `RemoteSession`
models the sender's two concurrent loops (`Advertise` and the request loop,
whose transfer in progress is `job`), the receiver's `select!` loop with one
action per message and outcome, the disk-commit task, and five FIFO streams
whose heads are taken in any order. A page is a set of entries, each entry on
one page; the answers to a page, and the errors of a page that could not be
compared, go out in any of the `Orders` of its entries. `toDisk` holds the commands the loop is
blocked on: while it is not empty the loop reads nothing. One data message
costs one unit of credit. `Faults` says which failures an instance has: a
source that cannot be opened or read, a failed listing, an unreadable
destination directory, failures of begin, basis, digest and commit, a failing
symbolic link, a lost connection, and pages that overtake the configuration.

`ImplementsContract` maps an entry's decision and outcome to its verdict and
the phase of the receiver's loop to the report. `SessionEnds` has two
exceptions, both behaviours of the code: `Refusing` (the receiver meets payload
of an entry that has ended) and `ListEndLost`. With the faults open, mismatch,
commit, lose, link, listing and dest alone neither state is reachable, so those
sessions always end.

### RemoteTree

The same session seen as a whole: `Accept` takes the physical streams in the
order they were opened (`StreamSlot`), `SHello`, `RHello`, `SAnswer` shake hands
(`Negotiate`, `TokenOk`), `Advertise` lists the directories page by page,
`RPage` creates directories, asks for what `Check` finds different and deletes
`Orphans`, `DiskCommit` publishes, `RShutdown` drains the outcomes and restores
the directories' metadata (`Finalized`). A directory's metadata is `TOUCHED`
whenever an entry in it changes, which is why its restoration has to come last.
A restoration that fails is only logged and the session ends as if nothing had
happened; the history field `unrestored` keeps the directories it was for, and
`MirrorWhenClean` excepts them. A file of which only the metadata differs has it
written as the page is compared (`AfterMetadata`), and a failure there is an error
of the entry.
`SaveCheckpoint` writes the sender's checkpoint file in place; `Crash` may tear
it. A job has several sessions. Trees have any depth: `Put` refuses an entry
whose place is `Obstructed`, by a file above it or a directory with entries in
it, and a recursive deletion that fails leaves some upper part of the subtree
(`Remains`).

Left out: directory markers, versions and tags of object stores, symbolic links
(in `RemoteSession`), paths that leave the root, overtaking pages and redo (in
`RemoteSession`). The root directory's metadata is never restored by the code,
and the checkpoint that is loaded is never used to skip anything; with filters,
`delete_target` removes entries the filter excluded.

### RemoteExpert

The advertisement of `remote_advertisement.rs` (`AdvertiseEntry`,
`AdvertiseFailure`, `Terminal`, `Accept`) and transfers of one advertised file
(`remote_expert_transfer.rs`): request, offer, prefix, payload in parts under
credit, evidence, publication, terminal. `StartTransfer` begins an attempt on a
new connection; the stage of an earlier one may be reused. `Rewrite` replaces
the source file. Each side owns its transport and drops it when it returns,
which is how the other learns of its failure; protocol errors outside the
payload are not reported in any other way, nor is a write that succeeded while
the peer failed (`TargetQuits`). Publication and terminal are one step that may
still go wrong after the file is published (`TargetPublishes`): what `complete`
does afterwards fails, or the terminal finds no connection. A mismatch between
the totals of the traversal and those of the projection ends the advertisement
like a failed walk. The API has no caller outside the tests yet. A destination
may ask for parts as large as the window while grants come at half a window, so
that a part can stall as in `CreditFlow`: `BothReturn` names it (`Stranded`), and
the instance has parts of half a window and of a whole one.

### DeltaTransfer

`SignChunk` signs the basis block by block, `PushChunk` and `MatchStep` are
`DeltaMatcher::push` and `process`, `FinishMatch` its `finish`; `PushDelta`
rebuilds the file from the basis as it is then, reading neighbouring blocks at
once (`Joins`, `Settled`), and `Commit` compares length and digest and
publishes, in Direct mode as patches. A delta begins in two requests,
`DescribeBasis` (of a basis that has gone, the entry's own size is taken) and
`PrepareSession`, either of which may fail. `Update` is the rolling checksum with a
small modulus, so that different blocks collide; the strong hash is injective.
`OtherWriter` overwrites or removes the destination at any time. `OutcomeIsRight` has one
exception, the code's own: without the integrity check, a basis that changes
after signing and before it is read back is published as a success.

### RecoveryWindow

Models `ScanDatabaseExecution` and its monitor task (`db/execution/recovery.rs`)
with the watcher of `app/scan/cancellation.rs`. Each operation of a scan goes
through `before_request` (`Request`, `GateCheck`, `GateLock`, `GateWake`: the
checks, the locked section, the `select!`), is in flight, and is settled by
`Acknowledge`, `Register`, `Retry` or, when its outcome is unknown and may not be
repeated, by `wait_for_end` (`EndCheck`, `EndWake`). `Safety` is the
`RequestSafety` the call is made with; "direct" are the calls that go through
`settle_failure` only. The mutex is held across no await, so each locked
section is one step. `woken` is the set of `Notified` futures that exist and
have been completed: a notification reaches only those. `left` is the part of
the window that is left. The monitor probes (`MonProbe`, `ProbeOk`, `ProbeBad`,
`ProbePermanent`), expires the window (`MonExpire`) and may die (`MonDies`).
KILL QUERY, the socket's own grace period and paging are left out.

The model shows one thing a reader of the code may not expect: a permanent
probe failure and the death of the monitor publish the terminal error without
`notify_waiters` and may overwrite an earlier terminal error. Parked operations
are still released, but by the watcher that cancels `stopping`; without that
task `WindowReleases` fails (its mutant).

### ScanRounds

Models `run_persisted` and its pipeline (`app/scan_resume.rs`,
`scan_resume/pipeline.rs`) over the tables of one ClickHouse node
(`db/scan`, `db/catalogue`). `base` and `events` are the working tables as a
`FINAL` read shows them, `cuts` the copies a checkpoint makes, `manifest` the
`scan_resume` row of highest version, `scanState` the committed generation.

`run_persisted` is straight-line code apart from the pipeline, so an execution
is the list `plan` of what it has still to do; each of its actions takes the
head and issues that step's statements into `req`. A statement takes effect
when it lands (`Land`), and the next step waits until all have. `Stop` stands
for a crash, a cancellation or an error: memory is gone, and any part of `req`
is lost while the rest lands at some later time. Only `Load` of the next
execution waits for it, as `await_prior_operations` does; `MutLoad` shows what
happens without. `Launch` starts an execution with or without `resume`; `Load`
then takes an active round up (`Resume`), gives it up (`Discard`) or starts a
new one (`Fresh`).

During "walk" two tasks run: the producer (`See`, `Deliver`, `Checkpoint`,
`Reconnect`, `EndOfSource`) and the writer (`FlushEvents`, `FlushRows`), which
meet at `Barrier`. `walk.matches` is `snapshot_matches_facts`. After it come
`Resolve`, the deletions in batches (`FinalEvents`, `FinalDelete`), `Stats`,
`Commit` and `Complete`.

`truth` is a history variable: the tree and the events that the committed
rounds should have left. `ReadersSeeCommitted` compares the tables with it
whenever no round is active, which is when `ensure_metadata_available` lets
readers in.

Entries are compared by path, as for storages without stable file handles
(`ScanIngest` has the others). The source does not change within a round. The
clock is always behind the recorded events, the case in which
`resume_event_epoch` has to correct it. The name of a cut is used again only
when neither a table nor the manifest bears it. `clear_job` is left out.

### ScanIngest

How the walk of one incremental round reaches a clustered ClickHouse: the
prefetch task (`ReadItem`, `SendChunk`, bounded by a semaphore of items), the
producer (`TakeBatch`, `TakeItem` with `OnEntry`, `OnCheckpoint`, `OnResumed`),
the router (`RouterReceives`, `RouterSends`, barriers), workers that compare,
log and write a batch (`Compare`, `WriteEvents`, `WriteRows`), and the final
phase (`Resolve`, `WriteFinalEvents`, `DeleteRows`, `Seal`, `Commit`,
`Complete`), which tells renames from additions by identity. `Reconnect`
repeats the walk from its last checkpoint; `WorkerFails`, `Cancel` and `Crash`
end the execution and `Relaunch` takes the round up again.
`RoundRecordsDifference` compares the log with the difference of the two whole
trees.

A cut and its manifest are one step. Rows that are written in several requests
are one statement. A walk never yields a path twice. Of the statistics only the
numbers of events are here. Cancelling in the final phase is a crash there.

### LocalCopy

A copy or move job of `SyncOrchestrator`, run several times. A run begins with
`StartFull` or `StartIncremental`, `Initialize`, `Rebase`, `MarkCopying`;
phase A observes the source (`ObserveFull`, `Compare`), copies on workers
(`ReceiverCopies`, `HandlerCopies`, `DeleteSource` for a move) and lets the
database consumer write rows (`Flush`); after `Barrier` phase B applies the
deletions and renames `Detected` in the rows the run has not touched; `Complete`
commits the generation. The source changes at any time (`Create`, `Write`,
`Erase`, `Move`). `stale` are superseded rows a ReplacingMergeTree has not
merged away, which the handle comparison still sees. `Copyable`: a directory is
made as it was observed even if the source has lost it since, a file needs its
source. That path's row is then of something the source no longer has, and the
next incremental run deletes both.

`CommittedMatches` and `SkipsAreCopied` have exceptions, each a history variable
and each something the code does: `skewed`, when a path was taken for renamed
that was not (a handle shared by two paths, or a rename together with a change);
`orphans`, copies that were never recorded and whose source vanished, or files
below a directory that was renamed and then emptied; `outrun`, files that
changed between being observed and being copied. The acknowledgement of a copy
carries the entry the walk has seen, so that the row is older than the copy; if
the file later takes its old size and time back, the next run compares it with
that row and leaves the destination as it is. Where the source is quiet phase A
never does this (`Flush`). What appears during a run is listed only in
directories the walk has listed or has still to list (`Walked`). Also seen in
the model: a crash between creating the base table and the state row leaves a
job whose incremental runs can never begin (`NoStateRow`); a file moved out of a
directory that is then removed makes the first run fail, and recovery replays
it. Three simplifications. Of several rows of one path and handle that are not
yet merged, `build_batch_fh_query_sql` takes the oldest and `RowOf` the current
one; against the oldest a renamed file may be copied once more than here. If the
query for the tables fails, `determine_sync_type` goes by whether the job's
directory existed before; `FullRun` has the answer of the database only, which is
also what that directory says as long as nobody removes one without the other.
In the code a directory's row has its modification time, but it takes no part in
the comparison. Not modelled: changing the options of a job (`copy_request_key`), switching
a job from move to copy, versioned objects, packaged directories, runs without a
database, failures of ACLs and of deleting symbolic links, which are only
logged. The arms for deleted and renamed entries in the handlers of phase A are
never reached.

### TaskLifecycle

Tasks and executions of the web server: rows in SQLite, `running_tasks`, the
semaphore. Handlers read a row and use it later, so edits (`UpdateReads`,
`UpdateWrites`), deletions (`DeleteReads` to `DeleteTask`, and those of an
endpoint), starts (`StartReads` to `StartSpawns`) and the thread of a run
(`ThreadDrops` to `ExecutionWritten`) interleave. `Stop` is the end of the
process, after `Shutdown` or not, and `Restart` recovers interrupted tasks.

The exceptions in the properties are history variables: `ghost`, tasks left
"running" until a restart by a failed closing write, a runtime that could not
be built or a dropped request; `torn`, a stop between the two closing writes;
`raced`, a row edited between a handler's read and its use, after which rows of
two configurations can mix. A delete that races with a start may leave the scan
tables of a task that no longer exists. The listener stays open while
`pause_all_and_wait` waits. `UpdateWrites` edits a task; not modelled is editing
an endpoint with `force` (`update_endpoint`), which changes the place the tasks
that use it read from or write to, without a reset of what they have scanned.

### ProgressCallbacks

What the service shows of a scan: listing (`ObserveEntry`, `PushStatistics`,
`DeliverEntries`), checkpoints of the statistics, network faults that make the
source repeat directories (`Break`, `SourceResumes`), reconciliation at the end
(`Finalize`), the callback loop (`CallbackTick`, `SendFinal`, `Timeout`,
`Answer`) and the service's transaction (`Receive` with `Follows`, `Stored`,
`Shown`). Callbacks are loopback requests, so a crash ends both sides. Not
modelled: scans with a database but without resume, a clock that goes
backwards, callbacks of deleted tasks, and the checks by which `ScanProgress::push`
refuses directory statistics whose revisions or blocks are out of order, which the
source of the model never sends. After a restart the number of omitted
events may be too high, never too low.

### IntegrityCheck

The walk, its bounded channel, workers that compare (`CompareEntry`), repair
(`ApplyOwnership`, `ApplyTimes`) and report, consumers with bounded channels, and
the caller that joins them in order (`Joined`, `Returns`). `Edit` is another
program. Exceptions in the properties: if no worker can open its storages the
check returns success having checked nothing; the owner and mode of a symbolic
link, and an owner the process may not set, are reported as fixed although
nothing writes them. A repair writes what the walk observed, however old, and in
two mutations: `FixedMeansRepaired` asks that the destination holds all that a
repair writes (times included) of one version the source had (`history`), never
the owner of one and the time of another. It says nothing of entries that another
program overwrote at the destination. Not
modelled: panics of workers, precision of times, versions, what an object store
keeps of metadata, `verify_storage_time`.

## Runs

| run | states | what is checked |
|---|---|---|
| `credit` | 350 thousand | `CreditConserved`, `OwedCreditNeverDiscarded`, `NoLostWakeup`: the accounts of both ledgers and every waiter; `AcquireReturns`: `acquire` returns unless payload was dropped or its cost is one the withheld grants can strand (`Strandable`) |
| `session` | 575 thousand | `LedgerIsTrue`: verdicts are those of the disk, counters count entries once; `SenderAgrees`: both ends report the same; `ImplementsContract`; `SessionEnds` |
| `recovery_window` | 546 thousand | `UnconfirmedOnce`, `UnresolvedHoldsGate`; `WindowReleases`: a window ends and nobody is held |
| `scan_rounds` | 766 thousand | `ReadersSeeCommitted`; `RoundIsResumable`: cuts hold what the manifest says, no save is shadowed, no round refused; `RoundEnds` |
| `tasks` | 879 thousand | `RunsAreOwned`, `RowsAreConsistent`, `DeletedStaysDeleted`, `TaskSettles` |
| `local_copy` | 1.6 million | `CommittedMatches`, `SkipsAreCopied`, `MovedIsKept`, `DeletesOnlyGone` |
| `callbacks` | 4.2 million | `CountsAreListed`, `FinalReport`; `NoDetailDropped`: an acknowledgement takes its batch only, not what was queued behind it |
| `remote_tree` | 768 thousand | `MirrorWhenClean`: but for a directory whose metadata could not be restored; `CheckpointIsPublished`, `OnlyPermittedChanges`, `BothEnd` |
| `scan_ingest` | 567 thousand | `CheckpointCovers`, `RoundRecordsDifference`, `ExecutionEnds` |
| `remote_expert` | 49 thousand | `EndsAgree`; `BothReturn`: unless a part is stranded |
| `delta` | 1.7 million | `RebuildsSource`, `OutcomeIsRight`, `NoMissedBlock` |
| `integrity` | 1.1 million | `ReportIsComplete`; `FixedMeansRepaired`: one version of the source, not two halves; `CheckReturns` |

All hold. For every property `PROJECT.json` names a plausible error in the code
(an operator whose name begins with `Mut`) with which TLC finds it violated.

### Bounds

`CreditFlow`: two waiting tasks with different costs and one more call suffice
for every order of registration, check, grant and close; costs are every size
up to one above the window, so that one is refused outright, one is stranded by
withheld grants and the others are not; the proofs remove the bounds. `RemoteSession`: one entry in flight and one behind it are what the
receiver's single active transfer can confuse; a queue of one place and a
window of two messages make both limits bind, and two chunks let a failure fall
between them. `RecoveryWindow` is finite without counters: operations run once,
and time is bounded by the window; two different classes and a direct call give
every pair a third that waits. `ScanRounds`: `MaxRounds` = 2, so that the
second round is incremental; `MaxFaults` = 2, so that a recovery is itself
interrupted; `MaxVersion` = 6, so that both rounds can checkpoint.
`TaskLifecycle`: one permit for two tasks and two executions, so that a task is
started again and another competes; two edits, deletions, shutdowns or faults.
`LocalCopy`: two directories with a file each and a file beside them make moves
of files and directories possible; three runs are a first, a failing and a
recovering one; two changes fall within a run and between runs.
That a path takes an older version back needs a third file at the start, which
is too much together with a fault; TLC finishes it with `First` = {d, df, g} and
`MaxFaults` = 0 (381 thousand states), and the proof covers it without handles.
`ProgressCallbacks`: one directory with two network faults, or one in two parts
and one whole with a single fault; an outbox of two events and batches of one, so
that events wait behind a batch in flight and the outbox overflows; two
executions. `RemoteTree`: files and directories that
replace each other, an unfinished transfer, an old build, a wrong token, one
fault, two sessions. `ScanIngest`: chunks, batches and queues of one or two
items, so that every limit binds; two faults interrupt a recovery.
`RemoteExpert`: files of nine, three and no blocks with a window of four and
parts of at most two or four, so that a part of four follows a withheld grant;
three attempts. `DeltaTransfer`: blocks of two bytes and
a checksum modulo two, so that blocks collide; a source that ends inside a
block. `IntegrityCheck`: two workers, channels of one place, one edit and one
failure.

### Fairness

Each Tokio task is polled when it can run, so there is weak fairness on each
task and none on faults, crashes, users or other programs. Where one formula
`Step`, `Run` or `Server \/ Sequential \/ ...` is fair, it is the union of all
tasks, and only that something moves is assumed. Connection loss is not fair:
keep-alives every five seconds keep an idle connection open, so no timeout
rescues a session that waits. In `RecoveryWindow` requests and probes are
answered or time out, and time passes; nothing makes a request start, a probe
succeed, the monitor die or the user cancel. That every single operation
returns while probes flap for ever is not claimed: the code does not promise
it. `ScanRounds` assumes that a scan that stopped is started again with
`resume` (an operator's act: nothing in the code restarts it); `ScanIngest`
does not. `TaskLifecycle` assumes that a closing server stops (the wait is
bounded by 60 s) and a stopped one is started. `CHECK_DEADLOCK FALSE` is set
where finished sessions, jobs and checks stop.

## Proofs

Every theorem holds for every value of the constants the named assumptions of
the module allow; those are what the code guarantees (a positive window, a
positive limit) or what makes the instance a tree or a finite set.

`CreditFlowProofs` proves, for every window, set of payload sizes, number of
tasks and bound, that `CreditFlow` satisfies `TypeOK`, `CreditConserved`,
`BacklogBounded`, `OwedCreditNeverDiscarded`, `NoLostWakeup` and
`NoStrandedSender`. Assumptions: the window is a positive number, costs are
positive, the bounds are numbers. The inductive invariant `IInv` is the
conjunction of `TypeOK`, `CreditConserved`, `OwedCreditNeverDiscarded`,
`PendingBelowThreshold` and `NoLostWakeup`. Conservation alone is not
inductive: that a grant is truncated only by forged bytes needs the balance
equation with the truncated part in it. `NoStrandedSender` follows in one step:
with empty streams the balance is the window less `pending` plus forged bytes,
and `pending` is below the threshold. `NextIInv` has one step per action.

`RecoveryWindowProofs` proves, for every set of operations, their classes and
every window, `TypeOK`, `UnconfirmedOnce`, `UnresolvedHoldsGate`,
`NoMissedWakeup` and `SharedDeadline`. The inductive invariant adds
`NotYetApplied` (an operation still before its first statement has applied
nothing) to them: without it an unconfirmed operation could be sent again from
the gate. `SharedDeadline` is an action property and needs only the types.

`TaskLifecycleProofs` proves, for any tasks, executions, limit and numbers of
edits, deletions, shutdowns and faults, `RunsAreOwned` and `RowsAreConsistent`,
and that `DeletedStaysDeleted`. The entry in `running_tasks`, the permit and the
rows are written by different steps, so neither invariant is inductive.
`RunsAreOwned` needs `SlotsAreHeld` (an entry and the start that holds it name
each other) and `PermitsAreCounted` (permits and entries make up the limit);
`RowsAreConsistent` needs `ExecutionRows`, `StatusFollows`, `LatestStatus` and
`JobKnowsRow`, which say for every point a start may have reached what the row
of its task, the row of its execution and its own copy of the task say, and
`TablesFollow`, what the scan tables hold.

`RemoteExpertProofs` proves `EndsAgree` for any walk, page size, window and
parts, and any number of attempts and faults. The property speaks of a list that
is complete and of ends that have returned; the invariant has to speak of what
is still between them. `Advertised`: the source numbers its entries and keeps
the last few for the next page (`Projecting`), the destination has a prefix of
them (`Receiving`), and the pages on their way lead from that prefix to where
the source is (`ListInv`); at the terminal the two ledgers are therefore equal.
`Transfer`: a source reports evidence only of the advertised version, what is
published has that content (`Published`), and a success on its way is of what is
published (`Outcome`).

`LocalCopyProofs` proves `MovedIsKept` and `DeletesOnlyGone` for any
directories and files in them, and any number of runs, faults and changes.
`Moving` follows an entry of a move job from the copy to the deletion of its
source. A deletion is planned from rows the run has not touched: `Observed` says
of an undisturbed run that whatever the source has is still to be listed, to be
copied or to be recorded, or has a row of this run; `Planned` that every
operation of phase B begins at a path where the source has nothing. `Stepwise`
says what may be under way in which step, and `Rooted` that the source is a tree.

It also proves that a quiet run only writes rows of copies that are there
(`RowsAreOfCopies`), and `CommittedMatches` and `SkipsAreCopied` for sources
that report no file handles, from the invariant `ICopy`. `Recording` follows a version from the source through the copy to the
row: in a quiet run a path is in one place at a time, to be listed, to be copied
or acknowledged, each time as the source has it (`Undisturbed`). `Plain` is about
rows. `Generations` relates them to the generation a run works on, `Faithful`
says that a row tells what the destination has once nothing is under way for its
path, and `Copying` and `Accounted` that whatever a quiet source has, and
whatever the destination has, is known to a row or to the run. A deletion takes
the files below a directory with it, so `Faithful` needs `Downwards`: a walk that
has not failed knows of a directory before it knows of a file in it, and
therefore no row of this run lies below one that phase B deletes (`Remaining`).
`Handleless` is what the lack of handles gives: nothing is ever taken for renamed.
With handles the same two properties depend on chains of renames and on rows that
are superseded but not yet merged away (`skewed`); there they are model-checked.

`RemoteTreeProofs` proves `CheckpointIsPublished`, `OnlyPermittedChanges` and
`MirrorWhenClean` for trees of any depth and any streams, options, faults and
number of sessions.
Besides the `Shape` of the records and queues the first invariant, `IInv`, has six
parts. `Trees`: both ends hold trees, and the directories whose metadata is to be
restored are there. `Sent`: every page, file and credential in a stream is true
of the sender's build and tree. `Announcing`: a page that misses an entry comes
behind the `listError` that ends the session, so that a page the receiver deletes
by lists everything. `Replied`: requests are about files of the source,
successes about files that have arrived. `Outcomes`: the commit queue, its
acknowledgements, the sender's completed paths and the saved checkpoint name only
such files. `Admitted`: only a compatible peer with the right token gets past the
configuration. `OnlyPermittedChanges` then takes one argument for each action
that writes the destination. A deletion that fails half-way may leave any part
of the subtree that is still a tree (`Remains`), and the proof covers each of
them. The assumption is about trees: finitely many paths, each below the root
(the clause on sets closed under children says so without recursion), the walk
begins at the root, has parents before children and every directory of the source,
and in the source a name that looks like an unfinished transfer is a file.

`MirrorWhenClean` speaks of the end of both sides, and rests on what was read,
asked, written and acknowledged before, in any order the streams allow. Its
invariant `MInv` is therefore about what is on the way. `Covering`: while the
connection is up and nothing has gone wrong (`Clean`, which looks at errors that
are still in a stream as well), every directory of the source is `Coming`, in the
walk or as a page in the stream, or it is `Handled`: each of its entries was
observed and is `Settled`, that is in place, asked for, created and remembered for
its metadata, or gone. No action undoes what is settled (`Settles`): a page gives a
file no metadata but the source's, creates nothing where something is, and deletes only
what the source does not have. `Counted`: completed transfers and those `Pending` in the three
streams and two queues are together at most those requested, so when the counters
meet (`Complete`) nothing is asked for any more. `Listed` and `Placed`:
`RequestsDone` and `TransferDone` follow the last page, so no page is coming either.
`Answered`: `AllDone` is the last acknowledgement, and nothing is written after it.
At the receiver's end hence every observed directory is handled; that nothing at
all was left out (`NothingBlind`), and that below a path the source does not have
nothing is left, goes from the root down by the assumption on paths; and
`Finalized` restores the metadata (`AllMirrored`), or leaves a directory's name in
`unrestored`, the exception of the theorem.

`RemoteSessionProofs` proves `LedgerIsTrue`, `SenderAgrees` and `ImplementsContract` for any
pages, choices, chunk numbers, window, queue capacity and combination of faults.
Assumptions: entry numbers are positive and finitely many, and each is on
exactly one page. The counters are right only if no entry is settled twice, and
a verdict is that of the disk only if no transfer of an entry is left over when
the next one begins, so the invariant follows each entry through the queues of
both processes. `OnePlace`: an entry that needs its data is in at most one of
nine places (its request, the sender's transfer, the message that ends it, the
command to commit it, that command in the queue, the outcome, the wish to repeat
it, the source's error). `OneMark`: a transfer that has begun leaves one mark,
from the command that begins it to the state of the disk-commit task or to the
failure that task reports of its own accord. `Begun` says when data of an entry
may still be in the stream, `Lasting` that what is published is not touched again
and what has failed is not published, `Booked` that only requested entries are
settled. `Queues`, `Ledger`, `ListOk` and `Paged` hold the types, the counters
and the pages: while the connection is up an entry is undecided exactly as long
as its page is ahead.

`SenderAgrees` speaks of the moment the sender completes, when the connection
closes; what makes it true is an agreement kept up while the connection is
open, so the proof carries a second invariant, `Agree`, over the queues between
the ends. `Credits`: each success of the receiver is either on its way or
counted, never both. `Debits`: each error of the sender is on its way to the
receiver or settled there, each of the receiver on its way or counted once, and
the errors that carry no entry number (attributes or a symbolic link that could
not be written) are counted one by one. `Reports`: every compared entry is
reported to the sender, answered on its way, or refused. `Rounds` and
`Parting`: `RequestsDone` is the last answer and `AllDone` the last
acknowledgement. So when the sender reads `AllDone` nothing is on its way, and
all that was settled has been counted.

In the refinement a page is `Classify`, or `Overlook` when it overtakes the
configuration; an outcome, a link or a source failure is `Settle`; the end of the
receiver's loop is `Complete` or `Abandon`; every other action is a stutter. The
step that needs the invariant is `Complete`: the loop ends when `completed` has
reached `requested`, a comparison of two counters, and the contract demands that
no entry is undecided or pending. By the invariant both counters are
cardinalities, the settled entries are among the requested ones, and a subset of a
finite set with as many elements is the whole set; that no entry is undecided
then is `Paged`.

`ScanRoundsProofs` proves `ReadersSeeCommitted` and `RoundIsResumable` for any
number of paths, states of the source, cuts, rounds, stops and versions. The
properties speak of the moment a reader or the next execution looks; what has to
be kept is that nothing still on its way can spoil it. The invariant therefore
has three parts. `Disk` is what is stored: an open round (its manifest active,
its generation not committed) has a baseline cut that is the committed result
and a checkpoint cut that is the tables as they were at its cursor, or at the
end of the source, or swept (`Holds`); without an open round the tables are the
committed result themselves (`Restored`). `Requests`: every statement on its way
is `Sound`. It may change tables only under an open round, touch a cut only if
no stored manifest names it, commit only what the round has finished, and save
only a higher version whose cuts are there. So a stop, which loses any part of
them and lets the rest land later, keeps `Disk`. `Execution` says for each step
of each plan what the step relies on: what the tables will be once the
statements on their way have landed (`RowsAhead`, `EventsAhead`), which cut is
being formed, whether the row in memory is saved (`Saved`). The lemma with the
most work behind it is `CheckpointSafe`: a manifest that is saved without a new
cut (`ManifestOnly`) is right because no path passed since the last cut exists
(`SeenNothing`). That the events of batches and deletions add up to the
difference of the trees is shown path by path (`ByPath`), without induction over
the walk. Assumptions: `N` is a number, contents and tokens are numbers.

Only model-checked, because the prover cannot state or reach it: liveness
(fairness and ENABLED), what the delta algorithms of `DeltaTransfer` compute and
what `ScanIngest` folds (induction over data). Only model-checked so far:
`CommittedMatches` and `SkipsAreCopied` of `LocalCopy` for sources with file
handles, and the properties of `ProgressCallbacks` and `IntegrityCheck`.

## Disagreements met while modelling

Where the code differs from what a comment, a document or a test says of it, the
model follows the code, and the property names the case as an exception.

- A payload above the window less the largest withheld grant (half a window
  less one byte) can wait for ever, since grants are withheld below half a window
  (`flow_control.rs:139`, against `:225` and `:232`; the exceptions `Strandable`
  and `Stranded`).
- A hard disk error before EndOfFile leaves the rest of the payload to be
  refused, and the session does not end (`remote_receiver_session.rs:419`,
  against `:691`).
- A source error in mid-file that is overtaken by the next FileBegin has the
  same effect (`remote_receiver_session.rs:382`, against `receiver.rs:550`).
- Credit of payload dropped for an entry that has ended is not granted back
  (`remote_receiver_session.rs:411`, against `flow_control.rs:14`).
- Pages, the end of the list or a FileListError that arrive before
  SessionConfig are discarded (`receiver.rs:468`, against `:538`).
- Renames on NFS can make an incremental copy skip a path
  (`db/catalogue/comparison.rs:246`, against
  `tests/scenarios/migration-generations.md:28`).
- SetAcl is applied as it arrives, before the file is published
  (`receiver.rs:788`, against `transport/message.rs:344` and
  `docs/superpowers/specs/2026-07-08-dual-process-3part-streaming-design.md:69`).
- The owner of a symbolic link is reported as fixed and not set
  (`integrity_check.rs:174`, `file_copy/metadata.rs:101`).

## Not modelled

Byte contents and digests apart from `DeltaTransfer` (a digest is right or
wrong); QoS, logging and the layout of reports; TLS and QUIC themselves (a
connection is up or gone); the walk of a storage and the sessions of
`data-mover`, which are another repository's code; `byte_resume.rs` and the
commit recorder of `sync.rs`, and `local_transfer.rs`, whose state nothing but
a progress display or tests reads; scans without a database; licensing; `rm`; data
types, configuration, command line, HTTP handlers, the Python MCP server and
the Vue user interface.
