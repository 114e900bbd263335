--------------------------- MODULE TaskLifecycle ---------------------------
(***************************************************************************)
(* The web server's tasks (crates/web/src): TaskService and TaskRunner     *)
(* over the SQLite tables migration_tasks and task_executions, the         *)
(* in-memory map running_tasks and the semaphore concurrency_limit.        *)
(*                                                                         *)
(* Each HTTP handler reads a row and acts on it later, each running task   *)
(* has a thread of its own, and both write whole rows.  SQLite makes one   *)
(* statement, and one transaction, atomic; everything else interleaves.    *)
(*                                                                         *)
(* A start is followed from the handler's first read to the end of its     *)
(* thread under one execution id.  The configuration of a task is a        *)
(* number; tables[t] is the configuration its ClickHouse scan tables were  *)
(* written with, 0 when there are none and MIXED when two are in them.     *)
(***************************************************************************)
EXTENDS Integers, FiniteSets

CONSTANTS
    Tasks,       \* task ids
    Scans,       \* those of task_type Scan; the others are Sync
    Execs,       \* execution ids: 1..n, taken in order
    Limit,       \* MAX_CONCURRENT_TASKS
    Configs,     \* configurations, positive
    First,       \* the one tasks are created with
    MaxEvents    \* bound: edits, deletions, shutdowns and faults

ASSUME LifecycleAssumption ==
    /\ Scans \subseteq Tasks /\ 0 \notin Tasks
    /\ Limit \in Nat \ {0} /\ MaxEvents \in Nat
    /\ Configs \subseteq Nat \ {0} /\ First \in Configs /\ Execs \subseteq Nat \ {0}

MIXED == -1
Final == {"completed", "failed", "cancelled"}
Statuses == {"pending", "running"} \cup Final

VARIABLES
    task,        \* migration_tasks: status, config, reset_scan_on_start
    exec,        \* task_executions: task and status
    job,         \* starts: what the handler or the thread does next, and knows
    slot,        \* running_tasks: the execution that holds the entry, or 0
    permits,     \* free permits of concurrency_limit
    edit,        \* update_task: the row it has read, per task
    doomed,      \* delete_task: how far it is, per task
    purge,       \* delete_endpoint: tasks it has listed and not yet deleted
    tables,      \* ClickHouse scan tables of the task
    server,      \* "up", "closing" (pause_all_and_wait) or "down"
    spent,
    ghost,       \* history: tasks whose rows a failed write left behind
    torn,        \* history: tasks stopped between the two closing writes
    last,        \* history: the execution saved last, per task
    raced        \* history: tasks changed between a handler's read and its use

rows == <<task, exec>>
held == <<slot, permits>>
requests == <<edit, doomed, purge>>
history == <<ghost, torn, raced, last>>
vars == <<rows, held, requests, job, tables, server, spent, history>>

NoTask == [st |-> "absent", cfg |-> 0, reset |-> FALSE]
Gone == [st |-> "gone", cfg |-> 0, reset |-> FALSE]
NoExec == [task |-> 0, st |-> "absent"]
NoJob == [pc |-> "unused", task |-> 0, cfg |-> 0, reset |-> FALSE, cancelled |-> FALSE, out |-> "none"]
NoEdit == [cfg |-> 0, reset |-> FALSE]

Exists(t) == task[t].st \in Statuses

Init ==
    /\ task = [t \in Tasks |-> NoTask]
    /\ exec = [e \in Execs |-> NoExec]
    /\ job = [e \in Execs |-> NoJob]
    /\ slot = [t \in Tasks |-> 0]
    /\ permits = Limit
    /\ edit = [t \in Tasks |-> NoEdit]
    /\ doomed = [t \in Tasks |-> "no"]
    /\ purge = {}
    /\ tables = [t \in Tasks |-> 0]
    /\ server = "up"
    /\ spent = 0
    /\ ghost = {} /\ torn = {} /\ raced = {} /\ last = [t \in Tasks |-> 0]

\* What a user or a fault does besides creating, starting and cancelling tasks.
Event == spent < MaxEvents /\ spent' = spent + 1
Fault == Event

-----------------------------------------------------------------------------
(* The tables.                                                             *)

\* MigrationTask::try_from: what a handler keeps of the row it has read
ReadRow(t) == [cfg |-> task[t].cfg, reset |-> task[t].reset]

\* SqliteTaskRepository::save
SaveRow(t, cfg) == [task EXCEPT ![t] = [st |-> "pending", cfg |-> cfg, reset |-> FALSE]]

\* SqliteTaskRepository::update: the configuration columns, not the status
UpdateRow(t, cfg, reset) ==
    IF Exists(t) THEN [task EXCEPT ![t].cfg = cfg, ![t].reset = reset] ELSE task

\* SqliteTaskRepository::update_status: an error when no row has the id
MutUpdateStatus(t, st) == [task EXCEPT ![t].st = st]
UpdateStatus(t, st) ==
    IF Exists(t) THEN [task EXCEPT ![t].st = st] ELSE task

\* DELETE on migration_tasks; the executions go with it (ON DELETE CASCADE)
DeleteRow(t) ==
    /\ task' = IF Exists(t) THEN [task EXCEPT ![t] = Gone] ELSE task
    /\ exec' = [e \in Execs |-> IF exec[e].task = t THEN NoExec ELSE exec[e]]

\* delete_by_id: the logs and the row of one execution
DeleteById(e) == [exec EXCEPT ![e] = NoExec]

\* drop_scan_tables
DropScanTables(t) == [tables EXCEPT ![t] = 0]

\* Whether the row a handler read is still the one in the table.
Unchanged(t, cfg, reset) == ReadRow(t) = [cfg |-> cfg, reset |-> reset]

-----------------------------------------------------------------------------
(* TaskService: create, edit, delete.                                      *)

CreateTask(t) ==
    /\ server # "down" /\ task[t].st = "absent"
    /\ task' = SaveRow(t, First)
    /\ UNCHANGED <<exec, held, requests, job, tables, server, spent, history>>

\* update_task: get_task and the check on its status ...
UpdateReads(t) ==
    /\ Event /\ server # "down" /\ Exists(t) /\ task[t].st # "running"
    /\ edit[t] = NoEdit
    /\ edit' = [edit EXCEPT ![t] = ReadRow(t)]
    /\ UNCHANGED <<rows, held, doomed, purge, job, tables, server, history>>

\* ... and, after the lookups, the whole row written back.
UpdateWrites(t, c) ==
    /\ edit[t] # NoEdit
    /\ task' = UpdateRow(t, c, edit[t].reset \/ (t \in Scans /\ c # edit[t].cfg))
    /\ edit' = [edit EXCEPT ![t] = NoEdit]
    /\ raced' = IF Unchanged(t, edit[t].cfg, edit[t].reset) THEN raced ELSE raced \cup {t}
    /\ UNCHANGED <<exec, held, doomed, purge, job, tables, server, spent, ghost, torn, last>>

\* A lookup finds no endpoint or path, or the request is dropped.
UpdateFails(t) ==
    /\ edit[t] # NoEdit
    /\ edit' = [edit EXCEPT ![t] = NoEdit]
    /\ UNCHANGED <<rows, held, doomed, purge, job, tables, server, spent, history>>

DeleteReads(t) ==
    /\ Event /\ server # "down" /\ Exists(t) /\ task[t].st # "running" /\ doomed[t] = "no"
    /\ doomed' = [doomed EXCEPT ![t] = "cleanup"]
    /\ UNCHANGED <<rows, held, edit, purge, job, tables, server, history>>

\* cleanup_task_data drops the scan tables; that it failed is only logged
DeleteCleans(t) ==
    /\ doomed[t] = "cleanup"
    /\ doomed' = [doomed EXCEPT ![t] = "executions"]
    /\ \/ tables' = DropScanTables(t) /\ UNCHANGED spent
       \/ Fault /\ UNCHANGED tables
    /\ UNCHANGED <<rows, held, edit, purge, job, server, history>>

\* delete_by_task_id, in one transaction
DeleteExecutions(t) ==
    /\ doomed[t] = "executions"
    /\ doomed' = [doomed EXCEPT ![t] = "row"]
    /\ exec' = [e \in Execs |-> IF exec[e].task = t THEN NoExec ELSE exec[e]]
    /\ UNCHANGED <<task, held, edit, purge, job, tables, server, spent, history>>

DeleteTask(t) ==
    /\ doomed[t] = "row"
    /\ doomed' = [doomed EXCEPT ![t] = "no"]
    /\ DeleteRow(t)
    /\ UNCHANGED <<held, edit, purge, job, tables, server, spent, history>>

\* A statement fails, or the request is dropped, on the way.
DeleteFails(t) ==
    /\ doomed[t] # "no" /\ Fault
    /\ doomed' = [doomed EXCEPT ![t] = "no"]
    /\ UNCHANGED <<rows, held, edit, purge, job, tables, server, history>>

\* delete_execution: the status of a finished execution never changes again
DeleteExecution(e) ==
    /\ Event /\ server # "down" /\ exec[e].st \in Final
    /\ exec' = DeleteById(e)
    /\ UNCHANGED <<task, held, requests, job, tables, server, history>>

\* delete_endpoint lists the tasks that use it, refuses if one is running ...
EndpointReads ==
    /\ Event /\ server # "down" /\ purge = {}
    /\ \A t \in Tasks : task[t].st # "running"
    /\ purge' = {t \in Tasks : Exists(t)}
    /\ UNCHANGED <<rows, held, edit, doomed, job, tables, server, history>>

\* ... and deletes one row after another.
EndpointDeletes(t) ==
    /\ t \in purge
    /\ purge' = purge \ {t}
    /\ DeleteRow(t)
    /\ UNCHANGED <<held, edit, doomed, job, tables, server, spent, history>>

EndpointFails ==
    /\ purge # {} /\ Fault
    /\ purge' = {}
    /\ UNCHANGED <<rows, held, edit, doomed, job, tables, server, history>>

-----------------------------------------------------------------------------
(* start_task: the handler.                                                *)

Step(e, pc) == job' = [job EXCEPT ![e].pc = pc]

\* RunningTaskGuard and the permit go together when the handler or thread ends.
Release(e) ==
    /\ slot' = [slot EXCEPT ![job[e].task] = 0]
    /\ permits' = permits + 1

\* get_task; can_start is decided on what it returned
StartReads(e, t) ==
    /\ server # "down" /\ Exists(t) /\ task[t].st # "running"
    /\ job[e].pc = "unused" /\ \A d \in Execs : d < e => job[d].pc # "unused"
    /\ job' = [job EXCEPT ![e] = [NoJob EXCEPT !.pc = "read", !.task = t, !.cfg = ReadRow(t).cfg,
                                               !.reset = ReadRow(t).reset]]
    /\ UNCHANGED <<rows, held, requests, tables, server, spent, history>>

\* running_tasks.entry, then try_acquire_owned: one synchronous stretch
StartReserves(e) ==
    LET t == job[e].task IN
    /\ job[e].pc = "read"
    /\ slot[t] = 0 /\ permits > 0
    /\ slot' = [slot EXCEPT ![t] = e]
    /\ permits' = permits - 1
    /\ Step(e, "reserved")
    /\ raced' = IF Unchanged(t, job[e].cfg, job[e].reset) THEN raced ELSE raced \cup {t}
    /\ UNCHANGED <<rows, requests, tables, server, spent, ghost, torn, last>>

\* The entry is occupied, or no permit is free.
StartRefused(e) ==
    /\ job[e].pc = "read"
    /\ slot[job[e].task] # 0 \/ permits = 0
    /\ Step(e, "done")
    /\ UNCHANGED <<rows, held, requests, tables, server, spent, history>>

\* An endpoint or path is missing, or ClickHouse does not answer.
StartLookupFails(e) ==
    /\ job[e].pc = "reserved" /\ Fault
    /\ Step(e, "done")
    /\ Release(e)
    /\ UNCHANGED <<rows, requests, tables, server, history>>

\* execution_repo.save; the foreign key refuses it when the task is gone
StartSaves(e) ==
    LET t == job[e].task IN
    /\ job[e].pc = "reserved"
    /\ \/ /\ Exists(t)
          /\ exec' = [exec EXCEPT ![e] = [task |-> t, st |-> "running"]]
          /\ last' = [last EXCEPT ![t] = e]
          /\ Step(e, "saved")
          /\ UNCHANGED held
       \/ /\ ~Exists(t)
          /\ Step(e, "done")
          /\ Release(e)
          /\ UNCHANGED <<exec, last>>
    /\ UNCHANGED <<task, requests, tables, server, spent, ghost, torn, raced>>

\* update_status(Running), then the thread; no await in between
StartSpawns(e) ==
    LET t == job[e].task IN
    /\ job[e].pc = "saved"
    /\ task' = UpdateStatus(t, "running")
    /\ \/ Exists(t) /\ Step(e, "spawned") /\ UNCHANGED held
       \/ ~Exists(t) /\ Step(e, "done") /\ Release(e)
    /\ UNCHANGED <<exec, requests, tables, server, spent, history>>

\* The client goes away: the handler's future is dropped at an await, whether
\* or not the statement it was waiting for is carried out.
StartDropped(e) ==
    LET t == job[e].task IN
    /\ job[e].pc \in {"reserved", "saved"} /\ Fault
    /\ Step(e, "done")
    /\ Release(e)
    /\ \/ UNCHANGED rows
       \/ /\ job[e].pc = "reserved" /\ Exists(t)
          /\ exec' = [exec EXCEPT ![e] = [task |-> t, st |-> "running"]]
          /\ UNCHANGED task
       \/ /\ job[e].pc = "saved"
          /\ task' = UpdateStatus(t, "running")
          /\ UNCHANGED exec
    /\ ghost' = IF task'[t].st = "running" \/ exec'[e].st = "running" THEN ghost \cup {t} ELSE ghost
    /\ UNCHANGED <<requests, tables, server, torn, raced, last>>

-----------------------------------------------------------------------------
(* start_task: the thread.                                                 *)

\* The runtime cannot be built: the thread ends and writes nothing.
ThreadFails(e) ==
    /\ job[e].pc = "spawned" /\ Fault
    /\ Step(e, "done")
    /\ Release(e)
    /\ ghost' = ghost \cup {job[e].task}
    /\ UNCHANGED <<rows, requests, tables, server, torn, raced, last>>

\* A pending reset drops the scan tables first.
ThreadDrops(e) ==
    LET t == job[e].task IN
    /\ job[e].pc = "spawned" /\ t \in Scans /\ job[e].reset
    /\ \/ tables' = DropScanTables(t) /\ Step(e, "dropped") /\ UNCHANGED spent
       \/ Fault /\ job' = [job EXCEPT ![e].pc = "ended", ![e].out = "failed"] /\ UNCHANGED tables
    /\ UNCHANGED <<rows, held, requests, server, history>>

\* ... and writes back the row it was started with, the flag cleared.
ThreadClears(e) ==
    LET t == job[e].task IN
    /\ job[e].pc = "dropped"
    /\ task' = UpdateRow(t, job[e].cfg, FALSE)
    /\ job' = [job EXCEPT ![e].pc = IF Exists(t) THEN "cleared" ELSE "ended",
                          ![e].out = IF Exists(t) THEN "none" ELSE "failed"]
    /\ UNCHANGED <<exec, held, requests, tables, server, spent, history>>

\* What is in the tables of a scan once a run with this configuration has
\* written to them.
Filled(t, cfg) ==
    [tables EXCEPT ![t] = CASE t \notin Scans \/ @ = cfg -> @
                            [] t \in Scans /\ @ = 0 -> cfg
                            [] OTHER -> MIXED]

\* run_migration_task as far as the first rows in the tables; a token that is
\* already cancelled, or a database that does not answer, ends it before.
MutRunStarts(e) ==
    /\ \/ job[e].pc = "cleared"
       \/ job[e].pc = "spawned" /\ ~job[e].reset
    /\ ~job[e].cancelled
    /\ Step(e, "running")
    /\ UNCHANGED <<rows, held, requests, tables, server, spent, history>>
RunStarts(e) ==
    LET t == job[e].task IN
    /\ \/ job[e].pc = "cleared"
       \/ job[e].pc = "spawned" /\ ~(t \in Scans /\ job[e].reset)
    /\ \/ /\ ~job[e].cancelled
          /\ tables' = Filled(t, job[e].cfg)
          /\ Step(e, "running")
       \/ job' = [job EXCEPT ![e].pc = "ended", ![e].out = "failed"] /\ UNCHANGED tables
    /\ UNCHANGED <<rows, held, requests, server, spent, history>>

RunEnds(e) ==
    /\ job[e].pc = "running"
    /\ \E out \in {"completed", "failed"} : job' = [job EXCEPT ![e].pc = "ended", ![e].out = out]
    /\ UNCHANGED <<rows, held, requests, tables, server, spent, history>>

\* task_outcome: a cancelled token wins over the result
Outcome(e) == IF job[e].cancelled THEN "cancelled" ELSE job[e].out

\* The outcome is decided, then written to the task; a failure is only logged.
TaskWritten(e) ==
    LET t == job[e].task IN
    /\ job[e].pc = "ended"
    /\ job' = [job EXCEPT ![e].pc = "told", ![e].out = Outcome(e)]
    /\ \/ /\ task' = UpdateStatus(t, Outcome(e))
          /\ UNCHANGED <<spent, ghost>>
       \/ Fault /\ ghost' = ghost \cup {t} /\ UNCHANGED task
    /\ UNCHANGED <<exec, held, requests, tables, server, torn, raced, last>>

\* The same outcome for the execution; then the permit and the guard are dropped.
MutExecutionWritten(e) ==
    /\ job[e].pc = "told"
    /\ Step(e, "done")
    /\ Release(e)
    /\ exec' = IF exec[e].task = job[e].task THEN [exec EXCEPT ![e].st = Outcome(e)] ELSE exec
    /\ UNCHANGED <<task, requests, tables, server, spent, history>>
ExecutionWritten(e) ==
    LET t == job[e].task IN
    /\ job[e].pc = "told"
    /\ Step(e, "done")
    /\ Release(e)
    /\ \/ /\ exec' = IF exec[e].task = t THEN [exec EXCEPT ![e].st = job[e].out] ELSE exec
          /\ torn' = IF t \in ghost THEN torn ELSE torn \ {t}
          /\ UNCHANGED <<spent, ghost>>
       \/ Fault /\ ghost' = ghost \cup {t} /\ UNCHANGED <<exec, torn>>
    /\ UNCHANGED <<task, requests, tables, server, raced, last>>

\* cancel_task
Cancel(t) ==
    /\ server # "down" /\ slot[t] # 0
    /\ job' = [job EXCEPT ![slot[t]].cancelled = TRUE]
    /\ UNCHANGED <<rows, held, requests, tables, server, spent, history>>

-----------------------------------------------------------------------------
(* The process.                                                            *)

\* Ctrl+C: pause_all_and_wait cancels what is running.  The listener stays
\* open until the wait is over.
Shutdown ==
    /\ Event /\ server = "up"
    /\ server' = "closing"
    /\ job' = [e \in Execs |-> IF \E t \in Tasks : slot[t] = e
                                 THEN [job[e] EXCEPT !.cancelled = TRUE] ELSE job[e]]
    /\ UNCHANGED <<rows, held, requests, tables, history>>

\* The process is gone: after the wait (or its 60 s), or by a fault.
Stop ==
    /\ \/ server = "closing" /\ UNCHANGED spent
       \/ server # "down" /\ Fault
    /\ server' = "down"
    /\ torn' = torn \cup {t \in Tasks : slot[t] # 0 /\ job[slot[t]].pc \in {"saved", "told"}}
    /\ job' = [e \in Execs |-> IF job[e].pc = "unused" THEN NoJob ELSE [NoJob EXCEPT !.pc = "done"]]
    /\ slot' = [t \in Tasks |-> 0]
    /\ permits' = Limit
    /\ edit' = [t \in Tasks |-> NoEdit]
    /\ doomed' = [t \in Tasks |-> "no"]
    /\ purge' = {}
    /\ UNCHANGED <<rows, tables, ghost, raced, last>>

Interrupted(t) == IF t \in Scans THEN "cancelled" ELSE "failed"

\* recover_interrupted_tasks, in one transaction, before anything is served
MutRestart ==
    /\ server = "down"
    /\ server' = "up"
    /\ task' = [t \in Tasks |-> IF task[t].st = "running"
                                  THEN [task[t] EXCEPT !.st = Interrupted(t)] ELSE task[t]]
    /\ ghost' = {}
    /\ torn' = torn \cup ghost
    /\ UNCHANGED <<exec, held, requests, job, tables, spent, raced, last>>
Restart ==
    /\ server = "down"
    /\ server' = "up"
    /\ exec' = [e \in Execs |-> IF exec[e].st = "running"
                                  THEN [exec[e] EXCEPT !.st = Interrupted(exec[e].task)] ELSE exec[e]]
    /\ task' = [t \in Tasks |-> IF task[t].st = "running"
                                  THEN [task[t] EXCEPT !.st = Interrupted(t)] ELSE task[t]]
    /\ ghost' = {}
    /\ torn' = torn \cup ghost
    /\ UNCHANGED <<held, requests, job, tables, spent, raced, last>>

-----------------------------------------------------------------------------
Handler(e) ==
    StartReserves(e) \/ StartRefused(e) \/ StartSaves(e) \/ StartSpawns(e)

Thread(e) ==
    \/ ThreadDrops(e) \/ ThreadClears(e) \/ RunStarts(e) \/ RunEnds(e)
    \/ TaskWritten(e) \/ ExecutionWritten(e)

Next ==
    \/ \E t \in Tasks :
          \/ \E c \in Configs : UpdateWrites(t, c)
          \/ CreateTask(t) \/ UpdateReads(t) \/ UpdateFails(t)
          \/ DeleteReads(t) \/ DeleteCleans(t) \/ DeleteExecutions(t) \/ DeleteTask(t) \/ DeleteFails(t)
          \/ EndpointDeletes(t)
          \/ Cancel(t)
          \/ \E e \in Execs : StartReads(e, t)
    \/ EndpointReads \/ EndpointFails
    \/ \E e \in Execs :
          \/ Handler(e) \/ Thread(e)
          \/ DeleteExecution(e) \/ StartLookupFails(e) \/ StartDropped(e) \/ ThreadFails(e)
    \/ Shutdown \/ Stop \/ Restart

Spec == Init /\ [][Next]_vars

\* A request is served, a thread goes on, a started server is not left down and
\* the wait for the tasks is bounded by 60 s.
Fairness ==
    /\ \A e \in Execs : WF_vars(Handler(e)) /\ WF_vars(Thread(e))
    /\ WF_vars(server = "closing" /\ Stop)
    /\ WF_vars(Restart)

LiveSpec == Spec /\ Fairness

-----------------------------------------------------------------------------
(* Properties.                                                             *)

Jobs == {"unused", "read", "reserved", "saved", "spawned", "dropped", "cleared",
         "running", "ended", "told", "done"}
\* The steps during which the guard and the permit are held.
Holding == Jobs \ {"unused", "read", "done"}

\* Every permit that is out belongs to an execution that also owns the entry of
\* its task: no path out of start_task keeps or returns one without the other.
PermitPerRunningTask ==
    /\ permits + Cardinality({t \in Tasks : slot[t] # 0}) = Limit
    /\ \A e \in Execs : job[e].pc \in Holding => slot[job[e].task] = e
    /\ \A t \in Tasks : slot[t] # 0 => job[slot[t]].pc \in Holding /\ job[slot[t]].task = t

\* While the server is up, a row that says "running" has a live handler or
\* thread behind it, which will end and rewrite it, so the user is never left
\* with a task that can be neither started nor cancelled.  The exceptions are the
\* statements whose failure start_task only logs or does not see.
RunningHasOwner ==
    server # "down" =>
        /\ \A t \in Tasks : task[t].st = "running" /\ t \notin ghost => slot[t] # 0
        /\ \A e \in Execs : exec[e].st = "running" /\ exec[e].task \notin ghost => slot[exec[e].task] = e

\* No run without an owner and no owner without a run: permits, entries of
\* running_tasks and rows that say "running" come and go together.
RunsAreOwned == PermitPerRunningTask /\ RunningHasOwner

\* Once nothing runs for a task, its status is that of its latest execution.
StatusIsLatestExecution ==
    server # "down" =>
        \A t \in Tasks :
            /\ slot[t] = 0 /\ t \notin ghost \cup torn
            /\ last[t] # 0 /\ exec[last[t]].task = t
            => task[t].st = exec[last[t]].st

\* The tables of a scan hold what its configuration describes, or the next
\* start drops them: rows of two configurations are never taken for one scan.
\* This assumes no handler acted on a row that had been edited since it read it.
TablesMatchConfig ==
    \A t \in Scans :
        Exists(t) /\ t \notin raced => tables[t] \in {0, task[t].cfg} \/ task[t].reset

\* What an idle task shows is what its last run left: its status, and for a scan
\* the tables.
RowsAreConsistent == StatusIsLatestExecution /\ TablesMatchConfig

\* A deleted task stays deleted and leaves no execution behind, whatever its
\* thread or a late handler still writes.
DeletedStaysDeleted ==
    [][/\ \A t \in Tasks : task[t].st = "gone" => task'[t].st = "gone"
       /\ \A e \in Execs : exec'[e].st # "absent" => task'[exec'[e].task].st \in Statuses]_vars

\* A running task comes to a final status, or is deleted, unless a closing
\* write failed; also where the server is closed or stopped and restarted before.
TaskSettles ==
    \A t \in Tasks : task[t].st = "running" ~> (task[t].st # "running" \/ t \in ghost)

=============================================================================
