----------------------------- MODULE ScanIngest -----------------------------
(***************************************************************************)
(* How one incremental round gets into a clustered ClickHouse: the reader  *)
(* that prefetches the walk, the producer, the router, the batch workers   *)
(* and the final comparison (crates/app/src/scan_resume.rs,                *)
(* scan_resume/{input,pipeline,workers}.rs, scan/cancellation.rs,          *)
(* consumer/observed.rs and crates/db/src/scan/{compare,cluster}).         *)
(*                                                                         *)
(* The reader takes chunks of the walk, bounded by a semaphore that counts *)
(* items; the producer groups entries and sends them to the router, which  *)
(* deals them out by path; a worker compares a batch with the rows of the  *)
(* last round, logs what it finds and writes the rows.  At a checkpoint    *)
(* everything must have been written before the cut is taken.  When the    *)
(* walk has ended, entries that are new under a known identity are told    *)
(* apart into renames and additions, and what was not seen is deleted.     *)
(*                                                                         *)
(* A cut and its manifest are one step here; ScanRounds has their parts.   *)
(* Of the statistics only the numbers of events are here; the rest is in   *)
(* ProgressCallbacks.                                                      *)
(***************************************************************************)
EXTENDS Integers, Sequences, FiniteSets, SequencesExt

CONSTANTS
    Paths,
    Scenarios,   \* [prior: Paths -> file, walk: sequence of items]
    Workers,
    WorkerOf,    \* the worker that the hash of a path selects
    Room,        \* prefetch_capacity: items the semaphore admits
    Chunk,       \* PREFETCH_CHUNK, at most Room
    Dispatch,    \* DISPATCH_BATCH
    Batch,       \* batch_size
    ChanCap,     \* messages the router's and a worker's queue hold
    MaxFaults    \* bound: reconnections, failures, cancellations and crashes

\* A file has an identity h that survives scans (0: none) and a content v
\* (0: there is no such file).
NoFile == [h |-> 0, v |-> 0]
NoRow == [h |-> 0, v |-> 0, cur |-> FALSE, live |-> FALSE]
Entry(p, h, v) == [is |-> "entry", p |-> p, h |-> h, v |-> v]
Checkpoint == [is |-> "checkpoint"]
Resumed == [is |-> "resumed"]
Barrier == [is |-> "barrier"]
Data(s) == [is |-> "data", entries |-> s]

ASSUME ChunkFits == Chunk \in 1..Room /\ Dispatch >= 1 /\ Batch >= 1 /\ ChanCap >= 1

VARIABLES
    sc,          \* the scenario of this behaviour
    base,        \* base table FINAL: row of each path; cur: epoch of this round
    log,         \* incremental table, this round's epoch
    saved,       \* the manifest and the cut it names
    committed,   \* state table names this round's epoch
    exec,        \* "scan", "final", "completed" or "stopped"
    cancel,      \* ScanCancellation::requested
    reader,      \* prefetch task: position, last checkpoint emitted, items in hand
    queue,       \* prefetched batches
    prod,        \* producer: items and permits in hand, pending, what it has still to do
    chan,        \* the forwarder's queue to the router
    router,      \* entries pending per worker, messages to send, workers to acknowledge
    wk,          \* workers: queue, rest of a message, batch, statement in flight
    fin,         \* finalization: events still to write, batch whose rows are to be deleted
    counts,      \* IncrementalStats: events of each kind, as the consumer has counted them
    faults

pipe == <<reader, queue, prod, chan, router, wk>>
vars == <<sc, base, log, saved, committed, exec, cancel, pipe, fin, counts, faults>>

Walk == sc.walk
IsEntry(i) == Walk[i].is = "entry"
IdleWorker == [queue |-> << >>, rest |-> << >>, batch |-> << >>, step |-> "recv",
               found |-> {}]
IdleRouter == [pending |-> [w \in Workers |-> << >>], out |-> << >>,
               waiting |-> {}, on |-> TRUE]
IdleProducer(at, matches) ==
    [items |-> << >>, held |-> 0, pending |-> << >>, plan |-> << >>,
     at |-> at, matches |-> matches, on |-> TRUE]
StartReader(at) == [pos |-> at, mark |-> at, hand |-> << >>, on |-> TRUE]
\* save_resume_state: a manifest with its event counts, and the cut it names
Manifest(phase, at, b, l, c) == [phase |-> phase, at |-> at, base |-> b, log |-> l, counts |-> c]

\* DeltaCounts of the four kinds of event a scan reports
Kinds == {"new", "changed", "deleted", "rename"}
NoCounts == [k \in Kinds |-> 0]
\* update_observed_event, record_final_events: candidates are not counted
Recorded(c, events) == [k \in Kinds |-> c[k] + Cardinality({e \in events : e.op = k})]
\* resume_event_statistics: the counts that the incremental table itself gives
Counted(events) == Recorded(NoCounts, events)

\* A row of the last round, which has an earlier epoch.
EarlierRow(f) == IF f = NoFile THEN NoRow ELSE [h |-> f.h, v |-> f.v, cur |-> FALSE, live |-> TRUE]

NoFinal == [step |-> "resolve", todo |-> {}, batch |-> {}]

Init ==
    /\ sc \in Scenarios
    /\ base = [p \in Paths |-> EarlierRow(sc.prior[p])]
    /\ log = {}
    /\ saved = Manifest("running", 0, base, {}, NoCounts)
    /\ committed = FALSE /\ exec = "scan" /\ cancel = FALSE
    /\ reader = StartReader(0) /\ queue = << >>
    /\ prod = IdleProducer(0, FALSE) /\ chan = << >>
    /\ router = IdleRouter /\ wk = [w \in Workers |-> IdleWorker]
    /\ fin = NoFinal /\ counts = NoCounts /\ faults = 0

-----------------------------------------------------------------------------
(* The prefetch task (ScanInput).                                          *)

\* permit.take(): the permit of a consumed batch is given back before the next
\* batch is waited for.
MutReleased(pr) == pr

Released(pr) == [pr EXCEPT !.held = 0]

Waiting == prod.items = << >> /\ prod.plan = << >>

\* Permits of the semaphore that are free.
FreeRoom ==
    Room - FoldSeq(LAMBDA b, n : Len(b) + n, 0, queue)
         - (IF Waiting THEN Released(prod) ELSE prod).held

CanExtend ==
    /\ exec = "scan" /\ reader.on /\ ~cancel
    /\ Len(reader.hand) < Chunk
    /\ \A i \in 1..Len(reader.hand) : reader.hand[i].is # "checkpoint"

\* prefetch_chunk: a chunk ends with a checkpoint, at its limit, or when 100 ms
\* have passed with something in it.
ReadItem ==
    /\ CanExtend
    /\ reader.pos < Len(Walk)
    /\ reader' = [reader EXCEPT
         !.pos = @ + 1,
         !.hand = Append(@, Walk[reader.pos + 1]),
         !.mark = IF IsEntry(reader.pos + 1) THEN @ ELSE reader.pos + 1]
    /\ UNCHANGED <<sc, counts, base, log, saved, committed, exec, cancel, queue, prod, chan, router,
                   wk, fin, faults>>

\* The walk lost its connection and goes on from the last checkpoint it emitted.
Reconnect ==
    /\ CanExtend /\ faults < MaxFaults
    /\ faults' = faults + 1
    /\ reader' = [reader EXCEPT !.pos = reader.mark, !.hand = Append(@, Resumed)]
    /\ UNCHANGED <<sc, counts, base, log, saved, committed, exec, cancel, queue, prod, chan, router,
                   wk, fin>>

SendChunk ==
    /\ exec = "scan" /\ reader.on /\ ~cancel
    /\ reader.hand # << >> /\ Len(reader.hand) <= FreeRoom
    /\ queue' = Append(queue, reader.hand)
    /\ reader' = [reader EXCEPT !.hand = << >>]
    /\ UNCHANGED <<sc, counts, base, log, saved, committed, exec, cancel, prod, chan, router, wk,
                   fin, faults>>

ReaderEnds ==
    /\ exec = "scan" /\ reader.on
    /\ cancel \/ (reader.hand = << >> /\ reader.pos = Len(Walk))
    /\ reader' = [reader EXCEPT !.on = FALSE]
    /\ UNCHANGED <<sc, counts, base, log, saved, committed, exec, cancel, queue, prod, chan, router,
                   wk, fin, faults>>

-----------------------------------------------------------------------------
(* The producer (produce_items).                                           *)

Producing == exec = "scan" /\ prod.on /\ ~cancel
CanTake == Producing /\ Waiting

\* next_batch: with at most one batch waiting the buffer is handed over and its
\* permit released at once; otherwise the permit is kept until it is consumed.
TakeBatch ==
    /\ CanTake /\ queue # << >>
    /\ prod' = [Released(prod) EXCEPT
         !.items = Head(queue),
         !.held = IF Len(queue) <= 1 THEN @ ELSE Len(Head(queue))]
    /\ queue' = Tail(queue)
    /\ UNCHANGED <<sc, counts, base, log, saved, committed, exec, cancel, reader, chan, router, wk,
                   fin, faults>>

\* The tick that delivers what is pending while the source is silent.
Tick ==
    /\ CanTake /\ prod.pending # << >>
    /\ prod' = [prod EXCEPT !.plan = <<"deliver">>]
    /\ UNCHANGED <<sc, counts, base, log, saved, committed, exec, cancel, reader, queue, chan, router,
                   wk, fin, faults>>

MutOnResumed(pr) ==
    [pr EXCEPT !.pending = << >>, !.plan = <<"restore">>]

OnResumed(pr) ==
    [pr EXCEPT !.pending = << >>, !.plan = <<"barrier", "acked", "restore">>]

OnEntry(pr, e) ==
    [pr EXCEPT !.matches = FALSE,
               !.pending = Append(@, e),
               !.plan = IF Len(pr.pending) + 1 >= Dispatch THEN <<"deliver">> ELSE << >>]

OnCheckpoint(pr) ==
    [pr EXCEPT !.plan = <<"deliver", "barrier", "acked", "save">>]

TakeItem ==
    /\ Producing /\ prod.plan = << >> /\ prod.items # << >>
    /\ LET item == Head(prod.items)
           pr == [prod EXCEPT !.items = Tail(@)]
       IN prod' = CASE item.is = "entry" -> OnEntry(pr, item)
                    [] item.is = "resumed" -> OnResumed(pr)
                    [] item.is = "checkpoint" -> OnCheckpoint(pr)
    /\ UNCHANGED <<sc, counts, base, log, saved, committed, exec, cancel, reader, queue, chan, router,
                   wk, fin, faults>>

EndOfWalk ==
    /\ CanTake /\ queue = << >> /\ ~reader.on
    /\ prod' = [prod EXCEPT !.plan = <<"deliver", "barrier", "acked", "finalize">>]
    /\ UNCHANGED <<sc, counts, base, log, saved, committed, exec, cancel, reader, queue, chan, router,
                   wk, fin, faults>>

Doing(op) == Producing /\ prod.plan # << >> /\ Head(prod.plan) = op
RouterIdle == router.out = << >> /\ router.waiting = {}

\* ObservedForwarder::send; an empty buffer is not sent.
Deliver ==
    /\ Doing("deliver")
    /\ prod.pending = << >> \/ Len(chan) < ChanCap
    /\ chan' = IF prod.pending = << >> THEN chan ELSE Append(chan, Data(prod.pending))
    /\ prod' = [prod EXCEPT !.pending = << >>, !.plan = Tail(@)]
    /\ UNCHANGED <<sc, counts, base, log, saved, committed, exec, cancel, reader, queue, router, wk,
                   fin, faults>>

\* ObservedForwarder::barrier
SendBarrier ==
    /\ Doing("barrier")
    /\ Len(chan) < ChanCap
    /\ chan' = Append(chan, Barrier)
    /\ prod' = [prod EXCEPT !.plan = Tail(@)]
    /\ UNCHANGED <<sc, counts, base, log, saved, committed, exec, cancel, reader, queue, router, wk,
                   fin, faults>>

\* The checkpoint that the producer has just met.
PositionMet == CHOOSE i \in (prod.at + 1)..Len(Walk) :
    /\ ~IsEntry(i)
    /\ \A j \in (prod.at + 1)..(i - 1) : IsEntry(j)

Cut(phase, at) ==
    IF prod.matches THEN Manifest(phase, at, saved.base, saved.log, counts)
    ELSE Manifest(phase, at, base, log, counts)

\* SaveState::execute, carried out by the router between two messages.
Save ==
    /\ Doing("save") /\ RouterIdle
    /\ saved' = Cut("running", PositionMet)
    /\ prod' = [prod EXCEPT !.plan = << >>, !.matches = TRUE, !.at = PositionMet]
    /\ UNCHANGED <<sc, counts, base, log, committed, exec, cancel, reader, queue, chan, router, wk,
                   fin, faults>>

\* SaveAction::Restore, then restore_scan_event_counts
Restore ==
    /\ Doing("restore") /\ RouterIdle
    /\ base' = saved.base /\ log' = saved.log /\ counts' = saved.counts
    /\ prod' = [prod EXCEPT !.plan = << >>, !.matches = TRUE]
    /\ UNCHANGED <<sc, saved, committed, exec, cancel, reader, queue, chan, router, wk, fin,
                   faults>>

\* source.finish() has reported a complete walk; FINALIZING is saved.  The queues
\* close, and the execution goes on when every task has returned.
Finalize ==
    /\ Doing("finalize") /\ RouterIdle
    /\ saved' = Cut("finalizing", Len(Walk))
    /\ prod' = [prod EXCEPT !.on = FALSE, !.plan = << >>]
    /\ exec' = "final"
    /\ fin' = NoFinal
    /\ UNCHANGED <<sc, counts, base, log, committed, cancel, reader, queue, chan, router, wk, faults>>

ProducerFails ==
    /\ exec = "scan" /\ prod.on /\ cancel
    /\ prod' = [prod EXCEPT !.on = FALSE]
    /\ UNCHANGED <<sc, counts, base, log, saved, committed, exec, cancel, reader, queue, chan, router,
                   wk, fin, faults>>

-----------------------------------------------------------------------------
(* The router (workers::route).                                            *)

\* dispatch: an entry joins its worker's buffer, and a full buffer is sent.
Dealt(r, e) ==
    LET w == WorkerOf[e.p]
        p == Append(r.pending[w], e)
    IN IF Len(p) >= Dispatch
       THEN [r EXCEPT !.pending[w] = << >>, !.out = Append(@, <<w, Data(p)>>)]
       ELSE [r EXCEPT !.pending[w] = p]

\* flush_pending and barrier: what the router sends, and whom it then awaits.
MutFlushed(r) ==
    [r EXCEPT !.out = SetToSeq({<<w, Barrier>> : w \in Workers}), !.waiting = Workers]

Flushed(r) ==
    LET rest == SetToSeq({w \in Workers : r.pending[w] # << >>})
        sent == [i \in 1..Len(rest) |-> <<rest[i], Data(r.pending[rest[i]])>>]
    IN [r EXCEPT !.pending = [w \in Workers |-> << >>],
                 !.out = sent \o SetToSeq({<<w, Barrier>> : w \in Workers}),
                 !.waiting = Workers]

RouterReceives ==
    /\ exec = "scan" /\ router.on /\ ~cancel /\ RouterIdle
    /\ chan # << >>
    /\ router' = IF Head(chan).is = "barrier" THEN Flushed(router)
                 ELSE FoldLeft(Dealt, router, Head(chan).entries)
    /\ chan' = Tail(chan)
    /\ UNCHANGED <<sc, counts, base, log, saved, committed, exec, cancel, reader, queue, prod, wk, fin,
                   faults>>

RouterSends ==
    /\ exec = "scan" /\ router.on /\ router.out # << >>
    /\ LET w == Head(router.out)[1]
       IN /\ wk[w].step # "stopped" /\ Len(wk[w].queue) < ChanCap
          /\ wk' = [wk EXCEPT ![w].queue = Append(@, Head(router.out)[2])]
    /\ router' = [router EXCEPT !.out = Tail(@)]
    /\ UNCHANGED <<sc, counts, base, log, saved, committed, exec, cancel, reader, queue, prod, chan,
                   fin, faults>>

\* The acknowledgement of the last worker is the router's own.
BarrierAcked ==
    /\ Doing("acked") /\ chan = << >> /\ RouterIdle
    /\ prod' = [prod EXCEPT !.plan = Tail(@)]
    /\ UNCHANGED <<sc, counts, base, log, saved, committed, exec, cancel, reader, queue, chan, router,
                   wk, fin, faults>>

\* Between messages it sees the cancellation; while it sends or awaits, only that
\* the worker has gone.
RouterStops ==
    /\ exec = "scan" /\ router.on /\ cancel
    /\ \/ RouterIdle
       \/ router.out # << >> /\ wk[Head(router.out)[1]].step = "stopped"
       \/ router.out = << >> /\ \E w \in router.waiting : wk[w].step = "stopped"
    /\ router' = [router EXCEPT !.on = FALSE]
    /\ UNCHANGED <<sc, counts, base, log, saved, committed, exec, cancel, reader, queue, prod, chan,
                   wk, fin, faults>>

-----------------------------------------------------------------------------
(* A worker (workers::work, flush_batch).  While its step is "compare",    *)
(* "events" or "rows" that statement is at the server; cancellation is     *)
(* looked at when it has returned.                                         *)

\* Baseline::identity_changed: both rows carry an identity and they differ.
IdentityChanged(old, e) == old.h # 0 /\ e.h # 0 /\ old.h # e.h

\* NativeScanAccess::compare, for one entry
Found(old, e) ==
    IF old.live /\ ~IdentityChanged(old, e)
    THEN IF old.v = e.v THEN {} ELSE {[op |-> "changed", p |-> e.p, h |-> e.h, from |-> e.p]}
    ELSE {[op |-> IF e.h = 0 THEN "new" ELSE "candidate_new",
           p |-> e.p, h |-> e.h, from |-> e.p]}

Displaced(old, e) ==
    IF old.live /\ ~old.cur /\ IdentityChanged(old, e)
    THEN {[op |-> "displaced_old", p |-> e.p, h |-> old.h, from |-> e.p]} ELSE {}

BatchOf(w) == ToSet(wk[w].batch)

\* One entry of a message joins the batch; a full batch is flushed.
WorkerPushes(w) ==
    /\ exec = "scan" /\ wk[w].step = "recv" /\ ~cancel /\ wk[w].rest # << >>
    /\ wk' = [wk EXCEPT ![w].rest = Tail(@), ![w].batch = Append(@, Head(wk[w].rest)),
                        ![w].step = IF Len(wk[w].batch) + 1 >= Batch THEN "compare" ELSE "recv"]
    /\ UNCHANGED <<sc, counts, base, log, saved, committed, exec, cancel, reader, queue, prod, chan,
                   router, fin, faults>>

\* A barrier flushes the batch and is acknowledged when that is done.
WorkerReceives(w) ==
    /\ exec = "scan" /\ wk[w].step = "recv" /\ ~cancel
    /\ wk[w].rest = << >> /\ wk[w].queue # << >>
    /\ LET m == Head(wk[w].queue)
           flush == m.is = "barrier" /\ wk[w].batch # << >>
       IN /\ wk' = [wk EXCEPT
               ![w].queue = IF flush THEN @ ELSE Tail(@),
               ![w].rest = IF m.is = "data" THEN m.entries ELSE @,
               ![w].step = IF flush THEN "compare" ELSE @]
          /\ router' = [router EXCEPT
               !.waiting = IF m.is = "barrier" /\ ~flush THEN @ \ {w} ELSE @]
    /\ UNCHANGED <<sc, counts, base, log, saved, committed, exec, cancel, reader, queue, prod, chan,
                   fin, faults>>

NextStatement(step) == IF cancel THEN "stopped" ELSE step

\* begin_resume_batch, write_observation_keys, detect_resume_batch_events
Compare(w) ==
    /\ exec = "scan" /\ wk[w].step = "compare"
    /\ log' = log \cup UNION {Displaced(base[e.p], e) : e \in BatchOf(w)}
    /\ wk' = [wk EXCEPT ![w].found = UNION {Found(base[e.p], e) : e \in BatchOf(w)},
                        ![w].step = NextStatement("events")]
    /\ UNCHANGED <<sc, counts, base, saved, committed, exec, cancel, reader, queue, prod, chan, router,
                   fin, faults>>

WriteEvents(w) ==
    /\ exec = "scan" /\ wk[w].step = "events"
    /\ log' = log \cup wk[w].found
    /\ wk' = [wk EXCEPT ![w].step = NextStatement("rows")]
    /\ UNCHANGED <<sc, counts, base, saved, committed, exec, cancel, reader, queue, prod, chan, router,
                   fin, faults>>

RowOf(e) == [h |-> e.h, v |-> e.v, cur |-> TRUE, live |-> TRUE]

WriteRows(w) ==
    /\ exec = "scan" /\ wk[w].step = "rows"
    /\ base' = [p \in Paths |->
                  IF \E e \in BatchOf(w) : e.p = p
                  THEN RowOf(CHOOSE e \in BatchOf(w) : e.p = p) ELSE base[p]]
    /\ wk' = [wk EXCEPT ![w].batch = << >>, ![w].found = {}, ![w].step = NextStatement("recv")]
    /\ counts' = Recorded(counts, wk[w].found)
    /\ UNCHANGED <<sc, log, saved, committed, exec, cancel, reader, queue, prod, chan, router,
                   fin, faults>>

WorkerStops(w) ==
    /\ exec = "scan" /\ wk[w].step = "recv" /\ cancel
    /\ wk' = [wk EXCEPT ![w].step = "stopped"]
    /\ UNCHANGED <<sc, counts, base, log, saved, committed, exec, cancel, reader, queue, prod, chan,
                   router, fin, faults>>

-----------------------------------------------------------------------------
(* Failures.  The first one cancels the execution, which returns when all  *)
(* its tasks have.                                                         *)

\* Ctrl-C, a storage failure that outlasted its window (watch_storage_failure), or
\* the monitor's verdict on the database (scope).
Cancel ==
    /\ exec = "scan" /\ ~cancel /\ faults < MaxFaults
    /\ cancel' = TRUE /\ faults' = faults + 1
    /\ UNCHANGED <<sc, counts, base, log, saved, committed, exec, pipe, fin>>

\* A statement of a worker fails.  One that was carried out before its error came
\* back is the next statement failing.
WorkerFails(w) ==
    /\ exec = "scan" /\ wk[w].step \in {"compare", "events", "rows"}
    /\ faults < MaxFaults
    /\ faults' = faults + 1 /\ cancel' = TRUE
    /\ wk' = [wk EXCEPT ![w].step = "stopped"]
    /\ UNCHANGED <<sc, counts, base, log, saved, committed, exec, reader, queue, prod, chan, router,
                   fin>>

\* tokio::join! of the traversal, the writer with its workers, and the statistics
Returns ==
    /\ exec = "scan" /\ cancel
    /\ ~reader.on /\ ~prod.on /\ ~router.on
    /\ \A w \in Workers : wk[w].step = "stopped"
    /\ exec' = "stopped"
    /\ UNCHANGED <<sc, counts, base, log, saved, committed, cancel, pipe, fin, faults>>

\* The process dies.  (Cancelled in its final part an execution stops the same way.)
Crash ==
    /\ exec \in {"scan", "final"} /\ faults < MaxFaults
    /\ faults' = faults + 1
    /\ exec' = "stopped"
    /\ UNCHANGED <<sc, counts, base, log, saved, committed, cancel, pipe, fin>>

\* load_resume_state: what an execution goes on from
Loaded == saved
\* restore_resume_generation: the state table already names this round's epoch
RoundCommitted == committed

\* run_persisted with resume: a committed round is only marked completed; otherwise
\* the tables go back to the cut.
Relaunch ==
    /\ exec = "stopped"
    /\ cancel' = FALSE
    /\ reader' = StartReader(Loaded.at) /\ queue' = << >>
    /\ prod' = IdleProducer(Loaded.at, FALSE) /\ chan' = << >>
    /\ router' = IdleRouter /\ wk' = [w \in Workers |-> IdleWorker]
    /\ fin' = NoFinal /\ counts' = Loaded.counts
    /\ IF RoundCommitted
       THEN /\ saved' = [saved EXCEPT !.phase = "completed"]
            /\ exec' = "completed" /\ UNCHANGED <<base, log>>
       ELSE /\ base' = Loaded.base /\ log' = Loaded.log
            /\ exec' = IF Loaded.phase = "running" THEN "scan" ELSE "final"
            /\ UNCHANGED saved
    /\ UNCHANGED <<sc, committed, faults>>

-----------------------------------------------------------------------------
(* The end of a round (finalize_events, resolve_final_events).             *)

With(op) == {e \in log : e.op = op}

\* Old rows that the walk did not meet, and rows that another file has replaced.
OldRows ==
    {[p |-> q, h |-> base[q].h] : q \in {r \in Paths : base[r].live /\ ~base[r].cur}}
    \cup {[p |-> e.p, h |-> e.h] : e \in With("displaced_old")}

\* Where files of identity h were: old rows, and what earlier decisions say.
Originals(h) ==
    {o.p : o \in {x \in OldRows : x.h = h}}
    \cup {e.p : e \in {x \in With("deleted") : x.h = h}}
    \cup {e.from : e \in {x \in With("rename") : x.h = h}}

ActiveCount(h) == Cardinality({p \in Paths : base[p].live /\ base[p].cur /\ base[p].h = h})

Event(op, p, h, from) == [op |-> op, p |-> p, h |-> h, from |-> from]

\* A candidate is a rename when its identity had one path and has one path now.
Decision(p, h) ==
    LET recorded == {e \in log : e.op \in {"new", "rename"} /\ e.p = p}
        from == Originals(h)
    IN IF recorded # {} THEN CHOOSE e \in recorded : TRUE
       ELSE IF Cardinality(from) = 1 /\ ActiveCount(h) = 1
            THEN Event("rename", p, h, CHOOSE q \in from : TRUE)
            ELSE Event("new", p, h, p)

FinalEvents ==
    LET candidates == {e.p : e \in {x \in With("candidate_new") :
                                      base[x.p].live /\ base[x.p].cur}}
        decided == {Decision(p, base[p].h) : p \in candidates}
        moved == {e.from : e \in {x \in decided \cup With("rename") : x.op = "rename"}}
    IN decided \cup {Event("deleted", o.p, o.h, o.p) :
                       o \in {x \in OldRows : x.p \notin moved}}

Resolve ==
    /\ exec = "final" /\ fin.step = "resolve"
    /\ fin' = [fin EXCEPT !.step = "flush", !.todo = FinalEvents]
    /\ UNCHANGED <<sc, counts, base, log, saved, committed, exec, cancel, pipe, faults>>

\* flush_final_events writes a batch of events and then deletes the rows they
\* name, but only rows of an earlier epoch.
WriteFinalEvents ==
    /\ exec = "final" /\ fin.step = "flush" /\ fin.todo # {}
    /\ \E b \in SUBSET fin.todo :
         /\ Cardinality(b) = Batch \/ (b = fin.todo /\ Cardinality(b) < Batch)
         /\ log' = log \cup b
         /\ fin' = [step |-> "delete", todo |-> fin.todo \ b, batch |-> b]
    /\ UNCHANGED <<sc, counts, base, saved, committed, exec, cancel, pipe, faults>>

DeletionKeys(b) == {e.from : e \in {x \in b : x.op \in {"rename", "deleted"}}}

Deletable(p) == base[p].live /\ ~base[p].cur

DeleteRows ==
    /\ exec = "final" /\ fin.step = "delete"
    /\ base' = [p \in Paths |->
                  IF p \in DeletionKeys(fin.batch) /\ Deletable(p)
                  THEN [base[p] EXCEPT !.live = FALSE, !.cur = TRUE] ELSE base[p]]
    /\ fin' = [fin EXCEPT !.step = "flush", !.batch = {}]
    /\ counts' = Recorded(counts, fin.batch)
    /\ UNCHANGED <<sc, log, saved, committed, exec, cancel, pipe, faults>>

\* cleanup_candidates
Cleanup ==
    /\ exec = "final" /\ fin.step = "flush" /\ fin.todo = {}
    /\ log' = {e \in log : e.op \notin {"candidate_new", "displaced_old"}}
    /\ fin' = [fin EXCEPT !.step = "seal"]
    /\ UNCHANGED <<sc, base, saved, committed, exec, cancel, pipe, counts, faults>>

\* reconcile_scan_statistics, and the cut of the finished tables
Seal ==
    /\ exec = "final" /\ fin.step = "seal"
    /\ counts' = Counted(log)
    /\ saved' = [saved EXCEPT !.base = base, !.log = log, !.counts = Counted(log)]
    /\ fin' = [fin EXCEPT !.step = "commit"]
    /\ UNCHANGED <<sc, base, log, committed, exec, cancel, pipe, faults>>

Commit ==
    /\ exec = "final" /\ fin.step = "commit"
    /\ committed' = TRUE
    /\ fin' = [fin EXCEPT !.step = "complete"]
    /\ UNCHANGED <<sc, counts, base, log, saved, exec, cancel, pipe, faults>>

Complete ==
    /\ exec = "final" /\ fin.step = "complete"
    /\ saved' = [saved EXCEPT !.phase = "completed"]
    /\ exec' = "completed"
    /\ UNCHANGED <<sc, counts, base, log, committed, cancel, pipe, fin, faults>>

-----------------------------------------------------------------------------
Step ==
    \/ ReadItem \/ SendChunk \/ ReaderEnds
    \/ TakeBatch \/ Tick \/ TakeItem \/ EndOfWalk
    \/ Deliver \/ SendBarrier \/ BarrierAcked \/ Save \/ Restore \/ Finalize
    \/ ProducerFails \/ RouterReceives \/ RouterSends \/ RouterStops
    \/ \E w \in Workers : \/ WorkerPushes(w) \/ WorkerReceives(w) \/ WorkerStops(w)
                          \/ Compare(w) \/ WriteEvents(w) \/ WriteRows(w)
    \/ Returns
    \/ Resolve \/ WriteFinalEvents \/ DeleteRows \/ Cleanup \/ Seal \/ Commit \/ Complete

Next ==
    \/ Step
    \/ Reconnect \/ Cancel \/ Crash \/ Relaunch
    \/ \E w \in Workers : WorkerFails(w)

\* Tasks are polled, the database answers and its monitor bounds every wait, and
\* the source delivers; nobody has to start the job again.
Spec == Init /\ [][Next]_vars /\ WF_vars(Step)

-----------------------------------------------------------------------------
(* Properties                                                              *)

WalkedTree(n) ==
    [p \in Paths |->
       IF \E i \in 1..n : IsEntry(i) /\ Walk[i].p = p
       THEN LET i == CHOOSE j \in 1..n : IsEntry(j) /\ Walk[j].p = p
            IN [h |-> Walk[i].h, v |-> Walk[i].v]
       ELSE NoFile]

\* A manifest that says the walk has been ingested up to a position names a cut
\* with exactly the entries before that position, whatever the prefetch task, the
\* router and the workers had in their hands at the time; and its event counts are
\* those of the events in the cut, however often a part of the walk was repeated.
CheckpointCovers ==
    LET walked == WalkedTree(saved.at)
    IN /\ \A p \in Paths :
            IF walked[p] # NoFile
            THEN saved.base[p] = RowOf(walked[p])
            ELSE ~saved.base[p].cur \/ ~saved.base[p].live
       /\ saved.counts = Counted(saved.log)

\* What a comparison of the two trees as wholes says.  A path is freed if its file
\* is gone or another file has taken its place.
Difference(old, new) ==
    LET same(p) == old[p] # NoFile /\ new[p] # NoFile /\ ~IdentityChanged(old[p], new[p])
        freed == {p \in Paths : old[p] # NoFile /\ ~same(p)}
        fresh == {p \in Paths : new[p] # NoFile /\ ~same(p)}
        from(p) == {q \in freed : old[q].h = new[p].h}
        renamed == {p \in fresh :
            /\ new[p].h # 0 /\ Cardinality(from(p)) = 1
            /\ \A q \in Paths \ {p} : new[q] = NoFile \/ new[q].h # new[p].h}
        source(p) == CHOOSE q \in from(p) : TRUE
    IN {Event("changed", p, new[p].h, p) : p \in {q \in Paths : same(q) /\ old[q].v # new[q].v}}
       \cup {Event("rename", p, new[p].h, source(p)) : p \in renamed}
       \cup {Event("new", p, new[p].h, p) : p \in fresh \ renamed}
       \cup {Event("deleted", q, old[q].h, q) : q \in freed \ {source(p) : p \in renamed}}

\* A committed round has logged exactly the difference between the last tree and
\* this one, each event once and nothing else, and its rows are this tree; batches,
\* workers, reconnections, failures and crashes leave no trace.
RoundRecordsDifference ==
    committed =>
        /\ log = Difference(sc.prior, WalkedTree(Len(Walk)))
        /\ exec = "completed" => counts = Counted(log)
        /\ \A p \in Paths :
             IF base[p].live THEN base[p] = RowOf(WalkedTree(Len(Walk))[p])
             ELSE WalkedTree(Len(Walk))[p] = NoFile

\* An execution comes to an end: no order of full queues, permits, barriers and
\* cancellation leaves its tasks waiting for each other.
ExecutionEnds == []<>(exec \in {"stopped", "completed"})

=============================================================================
