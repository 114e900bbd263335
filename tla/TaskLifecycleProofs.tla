------------------------ MODULE TaskLifecycleProofs ------------------------
(***************************************************************************)
(* The safety properties of TaskLifecycle hold for any tasks, executions,  *)
(* limit and configurations, and any number of edits, deletions, shutdowns *)
(* and faults.                                                             *)
(***************************************************************************)
EXTENDS TaskLifecycle, FiniteSetTheorems, TLAPS

TaskRow == [st : Statuses \cup {"absent", "gone"}, cfg : Nat, reset : BOOLEAN]
ExecRow == [task : Tasks \cup {0}, st : Statuses \cup {"absent"}]
JobRow == [pc : Jobs, task : Tasks \cup {0}, cfg : Nat, reset : BOOLEAN, cancelled : BOOLEAN,
           out : Final \cup {"none"}]

TypeOK ==
    /\ task \in [Tasks -> TaskRow]
    /\ exec \in [Execs -> ExecRow]
    /\ job \in [Execs -> JobRow]
    /\ slot \in [Tasks -> Execs \cup {0}]
    /\ permits \in Nat
    /\ edit \in [Tasks -> [cfg : Nat, reset : BOOLEAN]]
    /\ doomed \in [Tasks -> {"no", "cleanup", "executions", "row"}]
    /\ purge \subseteq Tasks
    /\ tables \in [Tasks -> Int]
    /\ server \in {"up", "closing", "down"}
    /\ spent \in Nat
    /\ ghost \subseteq Tasks /\ torn \subseteq Tasks /\ raced \subseteq Tasks
    /\ last \in [Tasks -> Execs \cup {0}]

\* A start that is under way is about a task that was created; none is under
\* way while the process is down.
JobsHaveTasks ==
    \A e \in Execs : job[e].pc \notin {"unused", "done"} =>
        job[e].task \in Tasks /\ task[job[e].task].st # "absent" /\ server # "down"

\* An entry and the execution that owns it name each other.
SlotsAreHeld ==
    /\ \A e \in Execs : job[e].pc \in Holding => slot[job[e].task] = e
    /\ \A t \in Tasks : slot[t] # 0 => job[slot[t]].pc \in Holding /\ job[slot[t]].task = t

\* The permits that are out are as many as the entries.
PermitsAreCounted ==
    /\ IsFiniteSet({t \in Tasks : slot[t] # 0})
    /\ permits + Cardinality({t \in Tasks : slot[t] # 0}) = Limit

\* The executions in the table belong to tasks in the table, and the row of a
\* start that is under way is the one it saved, or was deleted.
ExecutionRows ==
    \A e \in Execs :
        /\ exec[e].st # "absent" => exec[e].task \in Tasks /\ Exists(exec[e].task)
        /\ exec[e].st = "absent" => exec[e].task = 0
        /\ job[e].pc \in {"unused", "read", "reserved"} => exec[e].st = "absent"
        /\ job[e].pc \in Holding /\ exec[e].st # "absent" =>
               exec[e].task = job[e].task /\ exec[e].st = "running"

\* The steps from the spawn of the thread to the first closing write.
Threaded == {"spawned", "dropped", "cleared", "running", "ended"}

\* What the row of a task says at each step of the start that holds its entry,
\* unless a write about it failed.
StatusFollows ==
    \A e \in Execs :
        /\ job[e].pc \in Holding \ {"reserved"} => last[job[e].task] = e
        /\ job[e].pc \in {"ended", "told"} => job[e].out \in Final
        /\ job[e].pc \in Holding /\ job[e].task \notin ghost /\ Exists(job[e].task) =>
               /\ job[e].pc \in {"reserved", "saved"} => task[job[e].task].st # "running"
               /\ job[e].pc \in Threaded => task[job[e].task].st = "running"
               /\ job[e].pc = "told" => task[job[e].task].st = job[e].out

\* Between the two opening and the two closing writes task and execution differ.
LatestStatus ==
    \A t \in Tasks :
        /\ t \notin ghost \cup torn
        /\ last[t] # 0 /\ exec[last[t]].task = t
        /\ slot[t] # 0 => job[slot[t]].pc \notin {"saved", "told"}
        => task[t].st = exec[last[t]].st

\* A start knows the row it was reserved with; an edit since has set the flag.
JobKnowsRow ==
    \A e \in Execs :
        job[e].task \in Scans /\ job[e].task \notin raced /\ Exists(job[e].task) =>
            /\ job[e].pc \in {"reserved", "saved", "spawned"} =>
                   \/ task[job[e].task].reset
                   \/ /\ task[job[e].task].cfg = job[e].cfg
                      /\ task[job[e].task].reset = job[e].reset
            /\ job[e].pc = "cleared" =>
                   task[job[e].task].reset \/ task[job[e].task].cfg = job[e].cfg

\* The tables of a task are written only by the start that holds its entry.
TablesFollow ==
    /\ \A t \in Tasks : task[t].st = "absent" => tables[t] = 0
    /\ \A e \in Execs : job[e].pc = "dropped" => tables[job[e].task] = 0

Owners == JobsHaveTasks /\ SlotsAreHeld
StatusInv == ExecutionRows /\ RunningHasOwner /\ StatusFollows /\ LatestStatus
TablesInv == JobKnowsRow /\ TablesFollow /\ TablesMatchConfig

Rules == Owners /\ PermitsAreCounted /\ StatusInv /\ TablesInv
IInv == TypeOK /\ Rules

-----------------------------------------------------------------------------
(* What the statements and the steps of a start do to the rows.            *)

LEMMA StepEffect ==
    ASSUME job \in [Execs -> JobRow], NEW e \in Execs, NEW p \in Jobs, Step(e, p)
    PROVE  /\ job' \in [Execs -> JobRow]
           /\ job'[e].pc = p /\ job'[e].task = job[e].task /\ job'[e].cfg = job[e].cfg
           /\ job'[e].reset = job[e].reset /\ job'[e].out = job[e].out
           /\ \A f \in Execs \ {e} : job'[f] = job[f]
BY DEF Step, JobRow

LEMMA EndEffect ==
    ASSUME job \in [Execs -> JobRow], NEW e \in Execs, NEW p \in Jobs, NEW o \in Final \cup {"none"},
           job' = [job EXCEPT ![e].pc = p, ![e].out = o]
    PROVE  /\ job' \in [Execs -> JobRow]
           /\ job'[e].pc = p /\ job'[e].task = job[e].task /\ job'[e].cfg = job[e].cfg
           /\ job'[e].reset = job[e].reset /\ job'[e].out = o
           /\ \A f \in Execs \ {e} : job'[f] = job[f]
BY DEF JobRow

LEMMA CancelEffect ==
    ASSUME job \in [Execs -> JobRow], NEW e \in Execs, job' = [job EXCEPT ![e].cancelled = TRUE]
    PROVE  job' \in [Execs -> JobRow]
BY DEF JobRow

LEMMA StatusEffect ==
    ASSUME task \in [Tasks -> TaskRow], NEW t \in Tasks, NEW s \in Statuses,
           task' = UpdateStatus(t, s)
    PROVE  /\ task' \in [Tasks -> TaskRow]
           /\ task'[t].st = IF Exists(t) THEN s ELSE task[t].st
           /\ \A u \in Tasks : task'[u].cfg = task[u].cfg /\ task'[u].reset = task[u].reset
           /\ \A u \in Tasks \ {t} : task'[u].st = task[u].st
BY DEF UpdateStatus, TaskRow

LEMMA RowEffect ==
    ASSUME task \in [Tasks -> TaskRow], NEW t \in Tasks, NEW c \in Nat, NEW r \in BOOLEAN,
           task' = UpdateRow(t, c, r)
    PROVE  /\ task' \in [Tasks -> TaskRow]
           /\ \A u \in Tasks : task'[u].st = task[u].st
           /\ \A u \in Tasks \ {t} : task'[u] = task[u]
           /\ Exists(t) => task'[t].cfg = c /\ task'[t].reset = r
BY DEF UpdateRow, TaskRow

LEMMA DeleteEffect ==
    ASSUME task \in [Tasks -> TaskRow], exec \in [Execs -> ExecRow], NEW t \in Tasks, DeleteRow(t)
    PROVE  /\ task' \in [Tasks -> TaskRow] /\ exec' \in [Execs -> ExecRow]
           /\ \A u \in Tasks \ {t} : task'[u] = task[u]
           /\ Exists(t) => task'[t].st = "gone"
           /\ ~Exists(t) => task'[t] = task[t]
           /\ \A e \in Execs : IF exec[e].task = t THEN exec'[e].st = "absent" /\ exec'[e].task = 0
                                                  ELSE exec'[e] = exec[e]
BY DEF DeleteRow, TaskRow, ExecRow, Gone, NoExec

LEMMA ReleaseEffect ==
    ASSUME IInv, NEW e \in Execs, job[e].pc \in Holding, Release(e)
    PROVE  /\ slot' \in [Tasks -> Execs \cup {0}] /\ permits' \in Nat
           /\ slot'[job[e].task] = 0
           /\ \A u \in Tasks \ {job[e].task} : slot'[u] = slot[u]
           /\ PermitsAreCounted'
<1> DEFINE t == job[e].task
           U == {u \in Tasks : slot[u] # 0}
<1>1. t \in Tasks /\ slot[t] = e /\ e # 0
  BY LifecycleAssumption DEF IInv, Rules, Owners, JobsHaveTasks, SlotsAreHeld, Holding, Jobs
<1>2. slot \in [Tasks -> Execs \cup {0}] /\ permits \in Nat BY DEF IInv, TypeOK
<1>3. slot' = [slot EXCEPT ![t] = 0] /\ permits' = permits + 1 BY DEF Release
<1>4. /\ slot' \in [Tasks -> Execs \cup {0}] /\ permits' \in Nat
      /\ slot'[t] = 0 /\ \A u \in Tasks \ {t} : slot'[u] = slot[u]
  BY <1>1, <1>2, <1>3
<1>5. {u \in Tasks : slot'[u] # 0} = U \ {t} BY <1>4
<1>6. IsFiniteSet(U) /\ permits + Cardinality(U) = Limit BY DEF IInv, Rules, PermitsAreCounted
<1>7. t \in U BY <1>1
<1>8. IsFiniteSet(U \ {t}) /\ Cardinality(U \ {t}) = Cardinality(U) - 1 /\ Cardinality(U) \in Nat
  BY <1>6, <1>7, FS_RemoveElement, FS_CardinalityType
<1>9. permits' + Cardinality(U \ {t}) = Limit BY <1>2, <1>3, <1>6, <1>8
<1> QED BY <1>4, <1>5, <1>8, <1>9 DEF PermitsAreCounted

LEMMA ReserveEffect ==
    ASSUME IInv, NEW e \in Execs, StartReserves(e)
    PROVE  slot' \in [Tasks -> Execs \cup {0}] /\ permits' \in Nat /\ PermitsAreCounted'
<1> DEFINE t == job[e].task
           U == {u \in Tasks : slot[u] # 0}
<1>1. t \in Tasks /\ slot[t] = 0 /\ e # 0 /\ permits > 0
  BY LifecycleAssumption DEF IInv, Rules, Owners, JobsHaveTasks, StartReserves
<1>2. slot \in [Tasks -> Execs \cup {0}] /\ permits \in Nat BY DEF IInv, TypeOK
<1>3. slot' = [slot EXCEPT ![t] = e] /\ permits' = permits - 1 BY DEF StartReserves
<1>4. /\ slot' \in [Tasks -> Execs \cup {0}] /\ permits' \in Nat
      /\ slot'[t] = e /\ \A u \in Tasks \ {t} : slot'[u] = slot[u]
  BY <1>1, <1>2, <1>3
<1>5. {u \in Tasks : slot'[u] # 0} = U \cup {t} BY <1>1, <1>4
<1>6. IsFiniteSet(U) /\ permits + Cardinality(U) = Limit BY DEF IInv, Rules, PermitsAreCounted
<1>7. t \notin U BY <1>1
<1>8. /\ IsFiniteSet(U \cup {t}) /\ Cardinality(U \cup {t}) = Cardinality(U) + 1
      /\ Cardinality(U) \in Nat
  BY <1>6, <1>7, FS_AddElement, FS_CardinalityType
<1>9. permits' + Cardinality(U \cup {t}) = Limit BY <1>2, <1>3, <1>6, <1>8
<1> QED BY <1>4, <1>5, <1>8, <1>9 DEF PermitsAreCounted


LEMMA RunGuard ==
    ASSUME NEW e \in Execs, RunStarts(e)
    PROVE  job[e].pc = "cleared" \/ (job[e].pc = "spawned" /\ ~(job[e].task \in Scans /\ job[e].reset))
BY DEF RunStarts
LEMMA RulesKept == IInv /\ [Next]_vars => Rules'
<1> SUFFICES ASSUME IInv, [Next]_vars PROVE Rules' OBVIOUS
<1>T. /\ slot \in [Tasks -> Execs \cup {0}] /\ last \in [Tasks -> Execs \cup {0}]
      /\ 0 \notin Execs /\ 0 \notin Tasks /\ Scans \subseteq Tasks
  BY LifecycleAssumption DEF IInv, TypeOK
<1>R. /\ job \in [Execs -> JobRow] /\ task \in [Tasks -> TaskRow] /\ exec \in [Execs -> ExecRow]
      /\ tables \in [Tasks -> Int]
  BY DEF IInv, TypeOK
<1>E. edit \in [Tasks -> [cfg : Nat, reset : BOOLEAN]] /\ Configs \subseteq Nat
  BY LifecycleAssumption DEF IInv, TypeOK
<1>O. Owners BY DEF IInv, Rules
<1>P. PermitsAreCounted BY DEF IInv, Rules
<1>S. StatusInv BY DEF IInv, Rules
<1>B. TablesInv BY DEF IInv, Rules
<1> USE DEF Owners, JobsHaveTasks, SlotsAreHeld, StatusInv, ExecutionRows, StatusFollows,
            LatestStatus, RunningHasOwner, TablesInv, JobKnowsRow, TablesFollow, TablesMatchConfig,
            Holding, Jobs, Threaded, Exists, Statuses, Final
<1>1. ASSUME UNCHANGED <<task, exec, job, held, tables, server, history>> PROVE Rules'
  <2>1. UNCHANGED <<task, exec, job, slot, permits, tables, server, ghost, torn, raced, last>>
    BY <1>1 DEF held, history
  <2>2. Owners' BY <1>O, <2>1
  <2>3. PermitsAreCounted' BY <1>P, <2>1 DEF PermitsAreCounted
  <2>4. StatusInv' BY <1>S, <2>1
  <2>5. TablesInv' BY <1>B, <2>1
  <2> QED BY <2>2, <2>3, <2>4, <2>5 DEF Rules
<1>2. ASSUME NEW t \in Tasks, UpdateReads(t) \/ UpdateFails(t) \/ DeleteReads(t) \/ DeleteFails(t)
      PROVE Rules'
  BY <1>1, <1>2 DEF UpdateReads, UpdateFails, DeleteReads, DeleteFails, rows
<1>3. CASE EndpointReads \/ EndpointFails BY <1>1, <1>3 DEF EndpointReads, EndpointFails, rows
<1>4. CASE UNCHANGED vars BY <1>1, <1>4 DEF vars, rows
<1>5. ASSUME NEW t \in Tasks, CreateTask(t) PROVE Rules'
  <2>1. task[t].st = "absent"
    BY <1>5 DEF CreateTask
  <2>2. /\ task'[t].st = "pending" /\ task'[t].cfg = First /\ task'[t].reset = FALSE
        /\ \A u \in Tasks \ {t} : task'[u] = task[u]
    BY <1>R, <1>5 DEF CreateTask, SaveRow
  <2>3. UNCHANGED <<exec, job, slot, permits, tables, server, ghost, torn, raced, last>> BY <1>5 DEF CreateTask, rows, held, history
  <2>4. Owners' BY <1>T, <1>O, <2>1, <2>2, <2>3
  <2>5. PermitsAreCounted' BY <1>P, <2>1, <2>2, <2>3 DEF PermitsAreCounted
  <2>6. StatusInv' BY <1>T, <1>O, <1>S, <2>1, <2>2, <2>3
  <2>7. TablesInv' BY <1>T, <1>O, <1>B, <2>1, <2>2, <2>3
  <2> QED BY <2>4, <2>5, <2>6, <2>7 DEF Rules
<1>6. ASSUME NEW t \in Tasks, NEW c \in Configs, UpdateWrites(t, c) PROVE Rules'
  <2>1. /\ \A u \in Tasks : task'[u].st = task[u].st
        /\ \A u \in Tasks \ {t} : task'[u] = task[u]
    BY <1>R, <1>E, <1>6, RowEffect DEF UpdateWrites
  <2>2. t \in Scans /\ Exists(t) =>
           /\ task'[t].cfg = c
           /\ task'[t].reset = (edit[t].reset \/ c # edit[t].cfg)
    BY <1>R, <1>E, <1>6, RowEffect DEF UpdateWrites
  <2>3. /\ raced \subseteq raced' /\ \A u \in Tasks \ {t} : u \in raced' <=> u \in raced
        /\ t \notin raced' => task[t].cfg = edit[t].cfg /\ task[t].reset = edit[t].reset
    BY <1>6 DEF UpdateWrites, Unchanged, ReadRow
  <2>4. t \in Scans /\ Exists(t) /\ t \notin raced' =>
           /\ task[t].reset => task'[t].reset
           /\ task'[t].reset \/ (task'[t].cfg = task[t].cfg /\ task'[t].reset = task[t].reset)
    BY <1>R, <1>E, <2>2, <2>3 DEF TaskRow
  <2>5. UNCHANGED <<exec, job, slot, permits, tables, server, ghost, torn, last>> BY <1>6 DEF UpdateWrites, rows, held, history
  <2>6. Owners' BY <1>T, <1>O, <2>1, <2>2, <2>3, <2>4, <2>5
  <2>7. PermitsAreCounted' BY <1>P, <2>1, <2>2, <2>3, <2>4, <2>5 DEF PermitsAreCounted
  <2>8. StatusInv' BY <1>T, <1>O, <1>S, <2>1, <2>2, <2>3, <2>4, <2>5
  <2>9. JobKnowsRow' BY <1>T, <1>O, <1>B, <2>1, <2>2, <2>3, <2>4, <2>5
  <2>10. TablesFollow' BY <1>T, <1>O, <1>B, <2>1, <2>2, <2>3, <2>4, <2>5
  <2>11. TablesMatchConfig' BY <1>T, <1>O, <1>B, <2>1, <2>2, <2>3, <2>4, <2>5
  <2> QED BY <2>6, <2>7, <2>8, <2>9, <2>10, <2>11 DEF Rules
<1>7. ASSUME NEW t \in Tasks, DeleteCleans(t) PROVE Rules'
  <2>1. /\ \A u \in Tasks \ {t} : tables'[u] = tables[u]
        /\ tables'[t] \in {0, tables[t]}
    BY <1>R, <1>7 DEF DeleteCleans, DropScanTables
  <2>2. UNCHANGED <<task, exec, job, slot, permits, server, ghost, torn, raced, last>> BY <1>7 DEF DeleteCleans, rows, held, history
  <2>3. Owners' BY <1>T, <1>O, <2>1, <2>2
  <2>4. PermitsAreCounted' BY <1>P, <2>1, <2>2 DEF PermitsAreCounted
  <2>5. StatusInv' BY <1>T, <1>O, <1>S, <2>1, <2>2
  <2>6. TablesInv' BY <1>T, <1>O, <1>B, <2>1, <2>2
  <2> QED BY <2>3, <2>4, <2>5, <2>6 DEF Rules
<1>8. ASSUME NEW t \in Tasks, DeleteExecutions(t) PROVE Rules'
  <2>1. \A e \in Execs : IF exec[e].task = t THEN exec'[e].st = "absent" /\ exec'[e].task = 0
                                            ELSE exec'[e] = exec[e]
    BY <1>8 DEF DeleteExecutions, NoExec
  <2>2. UNCHANGED <<task, job, slot, permits, tables, server, ghost, torn, raced, last>> BY <1>8 DEF DeleteExecutions, rows, held, history
  <2>3. Owners' BY <1>T, <1>O, <2>1, <2>2
  <2>4. PermitsAreCounted' BY <1>P, <2>1, <2>2 DEF PermitsAreCounted
  <2>5. StatusInv' BY <1>T, <1>O, <1>S, <2>1, <2>2
  <2>6. TablesInv' BY <1>T, <1>O, <1>B, <2>1, <2>2
  <2> QED BY <2>3, <2>4, <2>5, <2>6 DEF Rules
<1>9. ASSUME NEW t \in Tasks, DeleteTask(t) \/ EndpointDeletes(t) PROVE Rules'
  <2>1. /\ \A u \in Tasks \ {t} : task'[u] = task[u]
        /\ Exists(t) => task'[t].st = "gone"
        /\ ~Exists(t) => task'[t] = task[t]
        /\ \A e \in Execs : IF exec[e].task = t THEN exec'[e].st = "absent" /\ exec'[e].task = 0
                                               ELSE exec'[e] = exec[e]
    BY <1>R, <1>9, DeleteEffect DEF DeleteTask, EndpointDeletes
  <2>2. UNCHANGED <<job, slot, permits, tables, server, ghost, torn, raced, last>> BY <1>9 DEF DeleteTask, EndpointDeletes, held, history
  <2>3. Owners' BY <1>T, <1>O, <2>1, <2>2
  <2>4. PermitsAreCounted' BY <1>P, <2>1, <2>2 DEF PermitsAreCounted
  <2>5. StatusInv' BY <1>T, <1>O, <1>S, <2>1, <2>2
  <2>6. TablesInv' BY <1>T, <1>O, <1>B, <2>1, <2>2
  <2> QED BY <2>3, <2>4, <2>5, <2>6 DEF Rules
<1>10. ASSUME NEW e \in Execs, DeleteExecution(e) PROVE Rules'
  <2>1. /\ exec[e].st \in Final /\ exec'[e].st = "absent" /\ exec'[e].task = 0
        /\ \A f \in Execs \ {e} : exec'[f] = exec[f]
    BY <1>R, <1>10 DEF DeleteExecution, DeleteById, NoExec
  <2>2. UNCHANGED <<task, job, slot, permits, tables, server, ghost, torn, raced, last>> BY <1>10 DEF DeleteExecution, rows, held, history
  <2>3. Owners' BY <1>T, <1>O, <2>1, <2>2
  <2>4. PermitsAreCounted' BY <1>P, <2>1, <2>2 DEF PermitsAreCounted
  <2>5. StatusInv' BY <1>T, <1>O, <1>S, <2>1, <2>2
  <2>6. TablesInv' BY <1>T, <1>O, <1>B, <2>1, <2>2
  <2> QED BY <2>3, <2>4, <2>5, <2>6 DEF Rules
<1>11. ASSUME NEW t \in Tasks, Cancel(t) PROVE Rules'
  <2>1. \A f \in Execs : /\ job'[f].pc = job[f].pc /\ job'[f].task = job[f].task /\ job'[f].cfg = job[f].cfg
                         /\ job'[f].reset = job[f].reset /\ job'[f].out = job[f].out
    BY <1>R, <1>T, <1>11 DEF Cancel, JobRow
  <2>2. UNCHANGED <<task, exec, slot, permits, tables, server, ghost, torn, raced, last>> BY <1>11 DEF Cancel, rows, held, history
  <2>3. Owners' BY <1>T, <1>O, <2>1, <2>2
  <2>4. PermitsAreCounted' BY <1>P, <2>1, <2>2 DEF PermitsAreCounted
  <2>5. StatusInv' BY <1>T, <1>O, <1>S, <2>1, <2>2
  <2>6. TablesInv' BY <1>T, <1>O, <1>B, <2>1, <2>2
  <2> QED BY <2>3, <2>4, <2>5, <2>6 DEF Rules
<1>12. CASE Shutdown
  <2>1. \A f \in Execs : /\ job'[f].pc = job[f].pc /\ job'[f].task = job[f].task /\ job'[f].cfg = job[f].cfg
                         /\ job'[f].reset = job[f].reset /\ job'[f].out = job[f].out
    BY <1>R, <1>12 DEF Shutdown, JobRow
  <2>2. server = "up" /\ server' = "closing"
    BY <1>12 DEF Shutdown
  <2>3. UNCHANGED <<task, exec, slot, permits, tables, ghost, torn, raced, last>> BY <1>12 DEF Shutdown, rows, held, history
  <2>4. Owners' BY <1>T, <1>O, <2>1, <2>2, <2>3
  <2>5. PermitsAreCounted' BY <1>P, <2>1, <2>2, <2>3 DEF PermitsAreCounted
  <2>6. StatusInv' BY <1>T, <1>O, <1>S, <2>1, <2>2, <2>3
  <2>7. TablesInv' BY <1>T, <1>O, <1>B, <2>1, <2>2, <2>3
  <2> QED BY <2>4, <2>5, <2>6, <2>7 DEF Rules
<1>13. ASSUME NEW e \in Execs, NEW t \in Tasks, StartReads(e, t) PROVE Rules'
  <2>1. job[e].pc = "unused" /\ server # "down" /\ Exists(t)
    BY <1>13 DEF StartReads
  <2>2. /\ job'[e].pc = "read" /\ job'[e].task = t /\ \A f \in Execs \ {e} : job'[f] = job[f]
    BY <1>R, <1>13 DEF StartReads, NoJob
  <2>3. UNCHANGED <<task, exec, slot, permits, tables, server, ghost, torn, raced, last>> BY <1>13 DEF StartReads, rows, held, history
  <2>4. Owners' BY <1>T, <1>O, <2>1, <2>2, <2>3
  <2>5. PermitsAreCounted' BY <1>P, <2>1, <2>2, <2>3 DEF PermitsAreCounted
  <2>6. StatusInv' BY <1>T, <1>O, <1>S, <2>1, <2>2, <2>3
  <2>7. TablesInv' BY <1>T, <1>O, <1>B, <2>1, <2>2, <2>3
  <2> QED BY <2>4, <2>5, <2>6, <2>7 DEF Rules
<1>14. ASSUME NEW e \in Execs, StartRefused(e) PROVE Rules'
  <2>1. job[e].pc = "read" /\ job[e].task \in Tasks
    BY <1>O, <1>14 DEF StartRefused
  <2>2. /\ job'[e].pc = "done" /\ \A f \in Execs \ {e} : job'[f] = job[f]
        /\ job'[e].task = job[e].task /\ job'[e].cfg = job[e].cfg /\ job'[e].reset = job[e].reset
        /\ job'[e].out = job[e].out
    BY <1>R, <1>14, StepEffect DEF StartRefused
  <2>3. UNCHANGED <<task, exec, slot, permits, tables, server, ghost, torn, raced, last>> BY <1>14 DEF StartRefused, rows, held, history
  <2>4. Owners' BY <1>T, <1>O, <2>1, <2>2, <2>3
  <2>5. PermitsAreCounted' BY <1>P, <2>1, <2>2, <2>3 DEF PermitsAreCounted
  <2>6. StatusInv' BY <1>T, <1>O, <1>S, <2>1, <2>2, <2>3
  <2>7. TablesInv' BY <1>T, <1>O, <1>B, <2>1, <2>2, <2>3
  <2> QED BY <2>4, <2>5, <2>6, <2>7 DEF Rules
<1>15. ASSUME NEW e \in Execs, StartReserves(e) PROVE Rules'
  <2>1. job[e].pc = "read" /\ job[e].task \in Tasks /\ slot[job[e].task] = 0
    BY <1>O, <1>15 DEF StartReserves
  <2>2. /\ job'[e].pc = "reserved" /\ \A f \in Execs \ {e} : job'[f] = job[f]
        /\ job'[e].task = job[e].task /\ job'[e].cfg = job[e].cfg /\ job'[e].reset = job[e].reset
        /\ job'[e].out = job[e].out
    BY <1>R, <1>15, StepEffect DEF StartReserves
  <2>3. slot'[job[e].task] = e /\ \A u \in Tasks \ {job[e].task} : slot'[u] = slot[u]
    BY <1>T, <1>O, <1>15 DEF StartReserves
  <2>4. /\ \A u \in Tasks \ {job[e].task} : u \in raced' <=> u \in raced
        /\ raced \subseteq raced'
        /\ job[e].task \notin raced' =>
              task[job[e].task].cfg = job[e].cfg /\ task[job[e].task].reset = job[e].reset
    BY <1>15 DEF StartReserves, Unchanged, ReadRow
  <2>5. UNCHANGED <<task, exec, tables, server, ghost, torn, last>> BY <1>15 DEF StartReserves, rows, history
  <2>6. Owners' BY <1>T, <1>O, <2>1, <2>2, <2>3, <2>4, <2>5
  <2>7. PermitsAreCounted' BY <1>15, ReserveEffect DEF StartReserves
  <2>8. StatusInv' BY <1>T, <1>O, <1>S, <2>1, <2>2, <2>3, <2>4, <2>5
  <2>9. TablesInv' BY <1>T, <1>O, <1>B, <2>1, <2>2, <2>3, <2>4, <2>5
  <2> QED BY <2>6, <2>7, <2>8, <2>9 DEF Rules
<1>16. ASSUME NEW e \in Execs, StartLookupFails(e) PROVE Rules'
  <2>1. job[e].pc = "reserved" /\ job[e].task \in Tasks
    BY <1>O, <1>16 DEF StartLookupFails
  <2>2. /\ job'[e].pc = "done" /\ \A f \in Execs \ {e} : job'[f] = job[f]
        /\ job'[e].task = job[e].task /\ job'[e].cfg = job[e].cfg /\ job'[e].reset = job[e].reset
        /\ job'[e].out = job[e].out
    BY <1>R, <1>16, StepEffect DEF StartLookupFails
  <2>3. /\ slot'[job[e].task] = 0 /\ \A u \in Tasks \ {job[e].task} : slot'[u] = slot[u]
        /\ PermitsAreCounted'
    BY <1>16, ReleaseEffect DEF StartLookupFails
  <2>4. UNCHANGED <<task, exec, tables, server, ghost, torn, raced, last>> BY <1>16 DEF StartLookupFails, rows, history
  <2>5. Owners' BY <1>T, <1>O, <2>1, <2>2, <2>3, <2>4
  <2>6. PermitsAreCounted' BY <2>3
  <2>7. StatusInv' BY <1>T, <1>O, <1>S, <2>1, <2>2, <2>3, <2>4
  <2>8. TablesInv' BY <1>T, <1>O, <1>B, <2>1, <2>2, <2>3, <2>4
  <2> QED BY <2>5, <2>6, <2>7, <2>8 DEF Rules
<1>17. ASSUME NEW e \in Execs, StartSaves(e), Exists(job[e].task) PROVE Rules'
  <2>1. job[e].pc = "reserved" /\ job[e].task \in Tasks
    BY <1>O, <1>17 DEF StartSaves
  <2>2. /\ job'[e].pc = "saved" /\ \A f \in Execs \ {e} : job'[f] = job[f]
        /\ job'[e].task = job[e].task /\ job'[e].cfg = job[e].cfg /\ job'[e].reset = job[e].reset
        /\ job'[e].out = job[e].out
    BY <1>R, <1>17, StepEffect DEF StartSaves
  <2>3. /\ exec'[e].task = job[e].task /\ exec'[e].st = "running"
        /\ \A f \in Execs \ {e} : exec'[f] = exec[f]
        /\ last'[job[e].task] = e /\ \A u \in Tasks \ {job[e].task} : last'[u] = last[u]
    BY <1>R, <1>T, <1>O, <1>17 DEF StartSaves
  <2>4. UNCHANGED <<task, slot, permits, tables, server, ghost, torn, raced>> BY <1>17 DEF StartSaves, rows, held, history
  <2>5. Owners' BY <1>T, <1>O, <1>17, <2>1, <2>2, <2>3, <2>4
  <2>6. PermitsAreCounted' BY <1>P, <1>17, <2>1, <2>2, <2>3, <2>4 DEF PermitsAreCounted
  <2>7. ExecutionRows' BY <1>T, <1>O, <1>S, <1>17, <2>1, <2>2, <2>3, <2>4
  <2>8. RunningHasOwner' BY <1>T, <1>O, <1>S, <1>17, <2>1, <2>2, <2>3, <2>4
  <2>9. StatusFollows' BY <1>T, <1>O, <1>S, <1>17, <2>1, <2>2, <2>3, <2>4
  <2>10. LatestStatus' BY <1>T, <1>O, <1>S, <1>17, <2>1, <2>2, <2>3, <2>4
  <2>11. TablesInv' BY <1>T, <1>O, <1>B, <1>17, <2>1, <2>2, <2>3, <2>4
  <2> QED BY <2>5, <2>6, <2>7, <2>8, <2>9, <2>10, <2>11 DEF Rules
<1>18. ASSUME NEW e \in Execs, StartSaves(e), ~Exists(job[e].task) PROVE Rules'
  <2>1. job[e].pc = "reserved" /\ job[e].task \in Tasks
    BY <1>O, <1>18 DEF StartSaves
  <2>2. /\ job'[e].pc = "done" /\ \A f \in Execs \ {e} : job'[f] = job[f]
        /\ job'[e].task = job[e].task /\ job'[e].cfg = job[e].cfg /\ job'[e].reset = job[e].reset
        /\ job'[e].out = job[e].out
    BY <1>R, <1>18, StepEffect DEF StartSaves
  <2>3. /\ slot'[job[e].task] = 0 /\ \A u \in Tasks \ {job[e].task} : slot'[u] = slot[u]
        /\ PermitsAreCounted'
    BY <1>18, ReleaseEffect DEF StartSaves
  <2>4. UNCHANGED <<task, exec, tables, server, ghost, torn, raced, last>> BY <1>18 DEF StartSaves, rows, history
  <2>5. Owners' BY <1>T, <1>O, <2>1, <2>2, <2>3, <2>4
  <2>6. PermitsAreCounted' BY <2>3
  <2>7. StatusInv' BY <1>T, <1>O, <1>S, <2>1, <2>2, <2>3, <2>4
  <2>8. TablesInv' BY <1>T, <1>O, <1>B, <2>1, <2>2, <2>3, <2>4
  <2> QED BY <2>5, <2>6, <2>7, <2>8 DEF Rules
<1>19. ASSUME NEW e \in Execs, StartSpawns(e), Exists(job[e].task) PROVE Rules'
  <2>1. job[e].pc = "saved" /\ job[e].task \in Tasks
    BY <1>O, <1>19 DEF StartSpawns
  <2>2. /\ job'[e].pc = "spawned" /\ \A f \in Execs \ {e} : job'[f] = job[f]
        /\ job'[e].task = job[e].task /\ job'[e].cfg = job[e].cfg /\ job'[e].reset = job[e].reset
        /\ job'[e].out = job[e].out
    BY <1>R, <1>19, StepEffect DEF StartSpawns
  <2>3. /\ task'[job[e].task].st = IF Exists(job[e].task) THEN "running" ELSE task[job[e].task].st
        /\ \A u \in Tasks : task'[u].cfg = task[u].cfg /\ task'[u].reset = task[u].reset
        /\ \A u \in Tasks \ {job[e].task} : task'[u].st = task[u].st
    BY <1>R, <1>O, <1>19, StatusEffect DEF StartSpawns
  <2>4. UNCHANGED <<exec, slot, permits, tables, server, ghost, torn, raced, last>> BY <1>19 DEF StartSpawns, rows, held, history
  <2>5. Owners' BY <1>T, <1>O, <2>1, <2>2, <2>3, <2>4
  <2>6. PermitsAreCounted' BY <1>P, <2>1, <2>2, <2>3, <2>4 DEF PermitsAreCounted
  <2>7. ExecutionRows' BY <1>T, <1>O, <1>S, <2>1, <2>2, <2>3, <2>4
  <2>8. RunningHasOwner' BY <1>T, <1>O, <1>S, <2>1, <2>2, <2>3, <2>4
  <2>9. StatusFollows' BY <1>T, <1>O, <1>S, <2>1, <2>2, <2>3, <2>4
  <2>10. LatestStatus' BY <1>T, <1>O, <1>S, <2>1, <2>2, <2>3, <2>4
  <2>11. JobKnowsRow' BY <1>T, <1>O, <1>B, <2>1, <2>2, <2>3, <2>4
  <2>12. TablesFollow' BY <1>T, <1>O, <1>B, <2>1, <2>2, <2>3, <2>4
  <2>13. TablesMatchConfig' BY <1>T, <1>O, <1>B, <2>1, <2>2, <2>3, <2>4
  <2> QED BY <2>5, <2>6, <2>7, <2>8, <2>9, <2>10, <2>11, <2>12, <2>13 DEF Rules
<1>20. ASSUME NEW e \in Execs, StartSpawns(e), ~Exists(job[e].task) PROVE Rules'
  <2>1. job[e].pc = "saved" /\ job[e].task \in Tasks
    BY <1>O, <1>20 DEF StartSpawns
  <2>2. /\ job'[e].pc = "done" /\ \A f \in Execs \ {e} : job'[f] = job[f]
        /\ job'[e].task = job[e].task /\ job'[e].cfg = job[e].cfg /\ job'[e].reset = job[e].reset
        /\ job'[e].out = job[e].out
    BY <1>R, <1>20, StepEffect DEF StartSpawns
  <2>3. /\ slot'[job[e].task] = 0 /\ \A u \in Tasks \ {job[e].task} : slot'[u] = slot[u]
        /\ PermitsAreCounted'
    BY <1>20, ReleaseEffect DEF StartSpawns
  <2>4. UNCHANGED <<task, exec, tables, server, ghost, torn, raced, last>> BY <1>20 DEF StartSpawns, UpdateStatus, rows, history
  <2>5. Owners' BY <1>T, <1>O, <1>20, <2>1, <2>2, <2>3, <2>4
  <2>6. PermitsAreCounted' BY <2>3
  <2>7. StatusInv' BY <1>T, <1>O, <1>S, <1>20, <2>1, <2>2, <2>3, <2>4
  <2>8. TablesInv' BY <1>T, <1>O, <1>B, <1>20, <2>1, <2>2, <2>3, <2>4
  <2> QED BY <2>5, <2>6, <2>7, <2>8 DEF Rules
<1>21. ASSUME NEW e \in Execs, StartDropped(e) PROVE Rules'
  <2>1. job[e].pc \in {"reserved", "saved"} /\ job[e].task \in Tasks
    BY <1>O, <1>21 DEF StartDropped
  <2>2. /\ job'[e].pc = "done" /\ \A f \in Execs \ {e} : job'[f] = job[f]
        /\ job'[e].task = job[e].task /\ job'[e].cfg = job[e].cfg /\ job'[e].reset = job[e].reset
        /\ job'[e].out = job[e].out
    BY <1>R, <1>21, StepEffect DEF StartDropped
  <2>3. /\ slot'[job[e].task] = 0 /\ \A u \in Tasks \ {job[e].task} : slot'[u] = slot[u]
        /\ PermitsAreCounted'
    BY <1>21, ReleaseEffect DEF StartDropped
  <2>4. \/ UNCHANGED <<task, exec>>
        \/ /\ job[e].pc = "reserved" /\ Exists(job[e].task) /\ UNCHANGED task
           /\ exec'[e].task = job[e].task /\ exec'[e].st = "running"
           /\ \A f \in Execs \ {e} : exec'[f] = exec[f]
        \/ /\ job[e].pc = "saved" /\ UNCHANGED exec
           /\ task'[job[e].task].st = IF Exists(job[e].task) THEN "running" ELSE task[job[e].task].st
           /\ \A u \in Tasks : task'[u].cfg = task[u].cfg /\ task'[u].reset = task[u].reset
           /\ \A u \in Tasks \ {job[e].task} : task'[u].st = task[u].st
    BY <1>R, <1>O, <1>21, StatusEffect DEF StartDropped, rows
  <2>5. ghost' = IF task'[job[e].task].st = "running" \/ exec'[e].st = "running"
                   THEN ghost \cup {job[e].task} ELSE ghost
    BY <1>21 DEF StartDropped
  <2>6. UNCHANGED <<tables, server, torn, raced, last>> BY <1>21 DEF StartDropped, history
  <2>7. Owners' BY <1>T, <1>O, <2>1, <2>2, <2>3, <2>4, <2>5, <2>6
  <2>8. PermitsAreCounted' BY <2>3
  <2>9. ExecutionRows' BY <1>T, <1>O, <1>S, <2>1, <2>2, <2>3, <2>4, <2>5, <2>6
  <2>10. RunningHasOwner' BY <1>T, <1>O, <1>S, <2>1, <2>2, <2>3, <2>4, <2>5, <2>6
  <2>11. StatusFollows' BY <1>T, <1>O, <1>S, <2>1, <2>2, <2>3, <2>4, <2>5, <2>6
  <2>12. LatestStatus' BY <1>T, <1>O, <1>S, <2>1, <2>2, <2>3, <2>4, <2>5, <2>6
  <2>13. JobKnowsRow' BY <1>T, <1>O, <1>B, <2>1, <2>2, <2>3, <2>4, <2>5, <2>6
  <2>14. TablesFollow' BY <1>T, <1>O, <1>B, <2>1, <2>2, <2>3, <2>4, <2>5, <2>6
  <2>15. TablesMatchConfig' BY <1>T, <1>O, <1>B, <2>1, <2>2, <2>3, <2>4, <2>5, <2>6
  <2> QED BY <2>7, <2>8, <2>9, <2>10, <2>11, <2>12, <2>13, <2>14, <2>15 DEF Rules
<1>22. ASSUME NEW e \in Execs, ThreadFails(e) PROVE Rules'
  <2>1. job[e].pc = "spawned" /\ job[e].task \in Tasks
    BY <1>O, <1>22 DEF ThreadFails
  <2>2. /\ job'[e].pc = "done" /\ \A f \in Execs \ {e} : job'[f] = job[f]
        /\ job'[e].task = job[e].task /\ job'[e].cfg = job[e].cfg /\ job'[e].reset = job[e].reset
        /\ job'[e].out = job[e].out
    BY <1>R, <1>22, StepEffect DEF ThreadFails
  <2>3. /\ slot'[job[e].task] = 0 /\ \A u \in Tasks \ {job[e].task} : slot'[u] = slot[u]
        /\ PermitsAreCounted'
    BY <1>22, ReleaseEffect DEF ThreadFails
  <2>4. ghost' = ghost \cup {job[e].task}
    BY <1>22 DEF ThreadFails
  <2>5. UNCHANGED <<task, exec, tables, server, torn, raced, last>> BY <1>22 DEF ThreadFails, rows, history
  <2>6. Owners' BY <1>T, <1>O, <2>1, <2>2, <2>3, <2>4, <2>5
  <2>7. PermitsAreCounted' BY <2>3
  <2>8. StatusInv' BY <1>T, <1>O, <1>S, <2>1, <2>2, <2>3, <2>4, <2>5
  <2>9. TablesInv' BY <1>T, <1>O, <1>B, <2>1, <2>2, <2>3, <2>4, <2>5
  <2> QED BY <2>6, <2>7, <2>8, <2>9 DEF Rules
<1>23. ASSUME NEW e \in Execs, ThreadDrops(e), Step(e, "dropped"),
             tables' = DropScanTables(job[e].task) PROVE Rules'
  <2>1. job[e].pc = "spawned" /\ job[e].task \in Tasks
    BY <1>O, <1>23 DEF ThreadDrops
  <2>2. /\ job'[e].pc = "dropped" /\ \A f \in Execs \ {e} : job'[f] = job[f]
        /\ job'[e].task = job[e].task /\ job'[e].cfg = job[e].cfg /\ job'[e].reset = job[e].reset
        /\ job'[e].out = job[e].out
    BY <1>R, <1>23, StepEffect
  <2>3. tables'[job[e].task] = 0 /\ \A u \in Tasks \ {job[e].task} : tables'[u] = tables[u]
    BY <1>R, <1>23, <2>1 DEF DropScanTables
  <2>4. UNCHANGED <<task, exec, slot, permits, server, ghost, torn, raced, last>> BY <1>23 DEF ThreadDrops, rows, held, history
  <2>5. Owners' BY <1>T, <1>O, <2>1, <2>2, <2>3, <2>4
  <2>6. PermitsAreCounted' BY <1>P, <2>1, <2>2, <2>3, <2>4 DEF PermitsAreCounted
  <2>7. StatusInv' BY <1>T, <1>O, <1>S, <2>1, <2>2, <2>3, <2>4
  <2>8. TablesInv' BY <1>T, <1>O, <1>B, <2>1, <2>2, <2>3, <2>4
  <2> QED BY <2>5, <2>6, <2>7, <2>8 DEF Rules
<1>24. ASSUME NEW e \in Execs, ThreadDrops(e), job' = [job EXCEPT ![e].pc = "ended", ![e].out = "failed"],
             UNCHANGED tables PROVE Rules'
  <2>1. job[e].pc = "spawned" /\ job[e].task \in Tasks
    BY <1>O, <1>24 DEF ThreadDrops
  <2>2. /\ job'[e].pc = "ended" /\ job'[e].out = "failed"
        /\ \A f \in Execs \ {e} : job'[f] = job[f]
        /\ job'[e].task = job[e].task /\ job'[e].cfg = job[e].cfg /\ job'[e].reset = job[e].reset
    BY <1>R, <1>24, EndEffect
  <2>3. UNCHANGED <<task, exec, slot, permits, tables, server, ghost, torn, raced, last>> BY <1>24 DEF ThreadDrops, rows, held, history
  <2>4. Owners' BY <1>T, <1>O, <2>1, <2>2, <2>3
  <2>5. PermitsAreCounted' BY <1>P, <2>1, <2>2, <2>3 DEF PermitsAreCounted
  <2>6. StatusInv' BY <1>T, <1>O, <1>S, <2>1, <2>2, <2>3
  <2>7. TablesInv' BY <1>T, <1>O, <1>B, <2>1, <2>2, <2>3
  <2> QED BY <2>4, <2>5, <2>6, <2>7 DEF Rules
<1>25. ASSUME NEW e \in Execs, ThreadDrops(e) PROVE Rules'
  BY <1>25, <1>23, <1>24 DEF ThreadDrops
<1>26. ASSUME NEW e \in Execs, ThreadClears(e), Exists(job[e].task) PROVE Rules'
  <2>1. job[e].pc = "dropped" /\ job[e].task \in Tasks
    BY <1>O, <1>26 DEF ThreadClears
  <2>2. /\ job'[e].pc = "cleared" /\ job'[e].out = "none"
        /\ \A f \in Execs \ {e} : job'[f] = job[f]
        /\ job'[e].task = job[e].task /\ job'[e].cfg = job[e].cfg /\ job'[e].reset = job[e].reset
    BY <1>R, <1>26, EndEffect DEF ThreadClears, Final
  <2>3. job[e].cfg \in Nat
    BY <1>R DEF JobRow
  <2>4. /\ \A u \in Tasks : task'[u].st = task[u].st
        /\ \A u \in Tasks \ {job[e].task} : task'[u] = task[u]
        /\ Exists(job[e].task) => task'[job[e].task].cfg = job[e].cfg /\ task'[job[e].task].reset = FALSE
    BY <1>R, <1>26, <2>1, <2>3, RowEffect DEF ThreadClears
  <2>5. UNCHANGED <<exec, slot, permits, tables, server, ghost, torn, raced, last>> BY <1>26 DEF ThreadClears, rows, held, history
  <2>6. Owners' BY <1>T, <1>O, <2>1, <2>2, <2>3, <2>4, <2>5
  <2>7. PermitsAreCounted' BY <1>P, <2>1, <2>2, <2>3, <2>4, <2>5 DEF PermitsAreCounted
  <2>8. StatusInv' BY <1>T, <1>O, <1>S, <2>1, <2>2, <2>3, <2>4, <2>5
  <2>9. JobKnowsRow' BY <1>T, <1>O, <1>B, <2>1, <2>2, <2>3, <2>4, <2>5
  <2>10. TablesFollow' BY <1>T, <1>O, <1>B, <2>1, <2>2, <2>3, <2>4, <2>5
  <2>11. TablesMatchConfig' BY <1>T, <1>O, <1>B, <2>1, <2>2, <2>3, <2>4, <2>5
  <2> QED BY <2>6, <2>7, <2>8, <2>9, <2>10, <2>11 DEF Rules
<1>27. ASSUME NEW e \in Execs, ThreadClears(e), ~Exists(job[e].task) PROVE Rules'
  <2>1. job[e].pc = "dropped" /\ job[e].task \in Tasks
    BY <1>O, <1>27 DEF ThreadClears
  <2>2. /\ job'[e].pc = "ended" /\ job'[e].out = "failed"
        /\ \A f \in Execs \ {e} : job'[f] = job[f]
        /\ job'[e].task = job[e].task /\ job'[e].cfg = job[e].cfg /\ job'[e].reset = job[e].reset
    BY <1>R, <1>27, EndEffect DEF ThreadClears, Final
  <2>3. UNCHANGED <<task, exec, slot, permits, tables, server, ghost, torn, raced, last>> BY <1>27 DEF ThreadClears, UpdateRow, rows, held, history
  <2>4. Owners' BY <1>T, <1>O, <2>1, <2>2, <2>3
  <2>5. PermitsAreCounted' BY <1>P, <2>1, <2>2, <2>3 DEF PermitsAreCounted
  <2>6. StatusInv' BY <1>T, <1>O, <1>S, <2>1, <2>2, <2>3
  <2>7. TablesInv' BY <1>T, <1>O, <1>B, <2>1, <2>2, <2>3
  <2> QED BY <2>4, <2>5, <2>6, <2>7 DEF Rules
<1>28. ASSUME NEW e \in Execs, RunStarts(e), Step(e, "running"),
             tables' = Filled(job[e].task, job[e].cfg) PROVE Rules'
  <2>1. job[e].pc = "cleared" \/ (job[e].pc = "spawned" /\ ~(job[e].task \in Scans /\ job[e].reset))
    BY <1>28, RunGuard
  <2>2. job[e].task \in Tasks
    BY <1>O, <2>1
  <2>3. /\ job'[e].pc = "running" /\ \A f \in Execs \ {e} : job'[f] = job[f]
        /\ job'[e].task = job[e].task /\ job'[e].cfg = job[e].cfg /\ job'[e].reset = job[e].reset
        /\ job'[e].out = job[e].out
    BY <1>R, <1>28, StepEffect
  <2>4. /\ \A u \in Tasks \ {job[e].task} : tables'[u] = tables[u]
        /\ job[e].task \in Scans /\ tables[job[e].task] \in {0, job[e].cfg} => tables'[job[e].task] = job[e].cfg
    BY <1>R, <1>28, <2>2 DEF Filled
  <2>5. UNCHANGED <<task, exec, slot, permits, server, ghost, torn, raced, last>> BY <1>28 DEF RunStarts, rows, held, history
  <2>6. Owners' BY <1>T, <1>O, <2>1, <2>2, <2>3, <2>4, <2>5
  <2>7. PermitsAreCounted' BY <1>P, <2>1, <2>2, <2>3, <2>4, <2>5 DEF PermitsAreCounted
  <2>8. StatusInv' BY <1>T, <1>O, <1>S, <2>1, <2>2, <2>3, <2>4, <2>5
  <2>9. JobKnowsRow' BY <1>T, <1>O, <1>B, <2>1, <2>2, <2>3, <2>4, <2>5
  <2>10. TablesFollow' BY <1>T, <1>O, <1>B, <2>1, <2>2, <2>3, <2>4, <2>5
  <2>11. TablesMatchConfig' BY <1>T, <1>O, <1>B, <2>1, <2>2, <2>3, <2>4, <2>5
  <2> QED BY <2>6, <2>7, <2>8, <2>9, <2>10, <2>11 DEF Rules
<1>29. ASSUME NEW e \in Execs, RunStarts(e), job' = [job EXCEPT ![e].pc = "ended", ![e].out = "failed"],
             UNCHANGED tables PROVE Rules'
  <2>1. job[e].pc \in {"cleared", "spawned"} /\ job[e].task \in Tasks
    BY <1>O, <1>29 DEF RunStarts
  <2>2. /\ job'[e].pc = "ended" /\ job'[e].out = "failed"
        /\ \A f \in Execs \ {e} : job'[f] = job[f]
        /\ job'[e].task = job[e].task /\ job'[e].cfg = job[e].cfg /\ job'[e].reset = job[e].reset
    BY <1>R, <1>29, EndEffect
  <2>3. UNCHANGED <<task, exec, slot, permits, tables, server, ghost, torn, raced, last>> BY <1>29 DEF RunStarts, rows, held, history
  <2>4. Owners' BY <1>T, <1>O, <2>1, <2>2, <2>3
  <2>5. PermitsAreCounted' BY <1>P, <2>1, <2>2, <2>3 DEF PermitsAreCounted
  <2>6. StatusInv' BY <1>T, <1>O, <1>S, <2>1, <2>2, <2>3
  <2>7. TablesInv' BY <1>T, <1>O, <1>B, <2>1, <2>2, <2>3
  <2> QED BY <2>4, <2>5, <2>6, <2>7 DEF Rules
<1>30. ASSUME NEW e \in Execs, RunStarts(e) PROVE Rules'
  BY <1>30, <1>28, <1>29 DEF RunStarts
<1>31. ASSUME NEW e \in Execs, RunEnds(e) PROVE Rules'
  <2>1. job[e].pc = "running" /\ job[e].task \in Tasks
    BY <1>O, <1>31 DEF RunEnds
  <2>2. /\ job'[e].pc = "ended" /\ job'[e].out \in Final
        /\ \A f \in Execs \ {e} : job'[f] = job[f]
        /\ job'[e].task = job[e].task /\ job'[e].cfg = job[e].cfg /\ job'[e].reset = job[e].reset
    BY <1>R, <1>31, EndEffect DEF RunEnds, Final
  <2>3. UNCHANGED <<task, exec, slot, permits, tables, server, ghost, torn, raced, last>> BY <1>31 DEF RunEnds, rows, held, history
  <2>4. Owners' BY <1>T, <1>O, <2>1, <2>2, <2>3
  <2>5. PermitsAreCounted' BY <1>P, <2>1, <2>2, <2>3 DEF PermitsAreCounted
  <2>6. StatusInv' BY <1>T, <1>O, <1>S, <2>1, <2>2, <2>3
  <2>7. TablesInv' BY <1>T, <1>O, <1>B, <2>1, <2>2, <2>3
  <2> QED BY <2>4, <2>5, <2>6, <2>7 DEF Rules
<1>32. ASSUME NEW e \in Execs, TaskWritten(e) PROVE Rules'
  <2>1. job[e].pc = "ended" /\ job[e].task \in Tasks /\ Outcome(e) \in Final
    BY <1>O, <1>S, <1>32 DEF TaskWritten, Outcome, Final
  <2>2. /\ job'[e].pc = "told" /\ job'[e].out = Outcome(e)
        /\ \A f \in Execs \ {e} : job'[f] = job[f]
        /\ job'[e].task = job[e].task /\ job'[e].cfg = job[e].cfg /\ job'[e].reset = job[e].reset
    BY <1>R, <1>32, <2>1, EndEffect DEF TaskWritten
  <2>3. \/ ghost' = ghost \cup {job[e].task} /\ UNCHANGED task
        \/ /\ UNCHANGED ghost
           /\ task'[job[e].task].st = IF Exists(job[e].task) THEN Outcome(e) ELSE task[job[e].task].st
           /\ \A u \in Tasks : task'[u].cfg = task[u].cfg /\ task'[u].reset = task[u].reset
           /\ \A u \in Tasks \ {job[e].task} : task'[u].st = task[u].st
    BY <1>R, <1>O, <1>32, <2>1, StatusEffect DEF TaskWritten
  <2>4. UNCHANGED <<exec, slot, permits, tables, server, torn, raced, last>> BY <1>32 DEF TaskWritten, rows, held, history
  <2>5. Owners' BY <1>T, <1>O, <2>1, <2>2, <2>3, <2>4
  <2>6. PermitsAreCounted' BY <1>P, <2>1, <2>2, <2>3, <2>4 DEF PermitsAreCounted
  <2>7. ExecutionRows' BY <1>T, <1>O, <1>S, <2>1, <2>2, <2>3, <2>4
  <2>8. RunningHasOwner' BY <1>T, <1>O, <1>S, <2>1, <2>2, <2>3, <2>4
  <2>9. StatusFollows' BY <1>T, <1>O, <1>S, <2>1, <2>2, <2>3, <2>4
  <2>10. LatestStatus' BY <1>T, <1>O, <1>S, <2>1, <2>2, <2>3, <2>4
  <2>11. JobKnowsRow' BY <1>T, <1>O, <1>B, <2>1, <2>2, <2>3, <2>4
  <2>12. TablesFollow' BY <1>T, <1>O, <1>B, <2>1, <2>2, <2>3, <2>4
  <2>13. TablesMatchConfig' BY <1>T, <1>O, <1>B, <2>1, <2>2, <2>3, <2>4
  <2> QED BY <2>5, <2>6, <2>7, <2>8, <2>9, <2>10, <2>11, <2>12, <2>13 DEF Rules
<1>33. ASSUME NEW e \in Execs, ExecutionWritten(e) PROVE Rules'
  <2>1. job[e].pc = "told" /\ job[e].task \in Tasks
    BY <1>O, <1>33 DEF ExecutionWritten
  <2>2. /\ job'[e].pc = "done" /\ \A f \in Execs \ {e} : job'[f] = job[f]
        /\ job'[e].task = job[e].task /\ job'[e].cfg = job[e].cfg /\ job'[e].reset = job[e].reset
        /\ job'[e].out = job[e].out
    BY <1>R, <1>33, StepEffect DEF ExecutionWritten
  <2>3. /\ slot'[job[e].task] = 0 /\ \A u \in Tasks \ {job[e].task} : slot'[u] = slot[u]
        /\ PermitsAreCounted'
    BY <1>33, ReleaseEffect DEF ExecutionWritten
  <2>4. \/ ghost' = ghost \cup {job[e].task} /\ UNCHANGED <<exec, torn>>
        \/ /\ UNCHANGED ghost /\ torn' = (IF job[e].task \in ghost THEN torn ELSE torn \ {job[e].task})
           /\ exec'[e].task = exec[e].task /\ \A f \in Execs \ {e} : exec'[f] = exec[f]
           /\ exec'[e].st = IF exec[e].task = job[e].task THEN job[e].out ELSE exec[e].st
    BY <1>R, <1>33 DEF ExecutionWritten, ExecRow
  <2>5. UNCHANGED <<task, tables, server, raced, last>> BY <1>33 DEF ExecutionWritten, rows, history
  <2>6. Owners' BY <1>T, <1>O, <2>1, <2>2, <2>3, <2>4, <2>5
  <2>7. PermitsAreCounted' BY <2>3
  <2>8. ExecutionRows' BY <1>T, <1>O, <1>S, <2>1, <2>2, <2>3, <2>4, <2>5
  <2>9. RunningHasOwner' BY <1>T, <1>O, <1>S, <2>1, <2>2, <2>3, <2>4, <2>5
  <2>10. StatusFollows' BY <1>T, <1>O, <1>S, <2>1, <2>2, <2>3, <2>4, <2>5
  <2>11. LatestStatus' BY <1>T, <1>O, <1>S, <2>1, <2>2, <2>3, <2>4, <2>5
  <2>12. JobKnowsRow' BY <1>T, <1>O, <1>B, <2>1, <2>2, <2>3, <2>4, <2>5
  <2>13. TablesFollow' BY <1>T, <1>O, <1>B, <2>1, <2>2, <2>3, <2>4, <2>5
  <2>14. TablesMatchConfig' BY <1>T, <1>O, <1>B, <2>1, <2>2, <2>3, <2>4, <2>5
  <2> QED BY <2>6, <2>7, <2>8, <2>9, <2>10, <2>11, <2>12, <2>13, <2>14 DEF Rules
<1>34. CASE Stop
  <2>1. server' = "down" /\ slot' = [t \in Tasks |-> 0] /\ permits' = Limit
    BY <1>34 DEF Stop
  <2>2. \A f \in Execs : job'[f].pc = IF job[f].pc = "unused" THEN "unused" ELSE "done"
    BY <1>R, <1>34 DEF Stop, NoJob
  <2>3. torn' = torn \cup {t \in Tasks : slot[t] # 0 /\ job[slot[t]].pc \in {"saved", "told"}}
    BY <1>34 DEF Stop
  <2>4. UNCHANGED <<task, exec, tables, ghost, raced, last>> BY <1>34 DEF Stop, rows, history
  <2>5. Owners' BY <1>T, <1>O, <2>1, <2>2, <2>3, <2>4
  <2>6. PermitsAreCounted' BY <2>1, FS_EmptySet, LifecycleAssumption DEF PermitsAreCounted
  <2>7. ExecutionRows' BY <1>T, <1>O, <1>S, <2>1, <2>2, <2>3, <2>4
  <2>8. RunningHasOwner' BY <1>T, <1>O, <1>S, <2>1, <2>2, <2>3, <2>4
  <2>9. StatusFollows' BY <1>T, <1>O, <1>S, <2>1, <2>2, <2>3, <2>4
  <2>10. LatestStatus' BY <1>T, <1>O, <1>S, <2>1, <2>2, <2>3, <2>4
  <2>11. JobKnowsRow' BY <1>T, <1>O, <1>B, <2>1, <2>2, <2>3, <2>4
  <2>12. TablesFollow' BY <1>T, <1>O, <1>B, <2>1, <2>2, <2>3, <2>4
  <2>13. TablesMatchConfig' BY <1>T, <1>O, <1>B, <2>1, <2>2, <2>3, <2>4
  <2> QED BY <2>5, <2>6, <2>7, <2>8, <2>9, <2>10, <2>11, <2>12, <2>13 DEF Rules
<1>35. CASE Restart
  <2>1. server = "down" /\ server' = "up" /\ ghost' = {} /\ torn' = torn \cup ghost
    BY <1>35 DEF Restart
  <2>2. \A t \in Tasks :
           /\ task'[t].cfg = task[t].cfg /\ task'[t].reset = task[t].reset
           /\ task'[t].st = IF task[t].st = "running" THEN Interrupted(t) ELSE task[t].st
    BY <1>R, <1>35 DEF Restart, TaskRow
  <2>3. \A e \in Execs :
           /\ exec'[e].task = exec[e].task
           /\ exec'[e].st = IF exec[e].st = "running" THEN Interrupted(exec[e].task) ELSE exec[e].st
    BY <1>R, <1>35 DEF Restart, ExecRow
  <2>4. \A t : Interrupted(t) \in {"cancelled", "failed"}
    BY DEF Interrupted
  <2>5. \A e \in Execs : job[e].pc \in {"unused", "done"}
    BY <1>O, <2>1
  <2>6. UNCHANGED <<job, slot, permits, tables, raced, last>> BY <1>35 DEF Restart, held, history
  <2>7. Owners' BY <1>T, <1>O, <2>1, <2>2, <2>3, <2>4, <2>5, <2>6
  <2>8. PermitsAreCounted' BY <1>P, <2>1, <2>2, <2>3, <2>4, <2>5, <2>6 DEF PermitsAreCounted
  <2>9. ExecutionRows' BY <1>T, <1>O, <1>S, <2>1, <2>2, <2>3, <2>4, <2>5, <2>6
  <2>10. RunningHasOwner' BY <1>T, <1>O, <1>S, <2>1, <2>2, <2>3, <2>4, <2>5, <2>6
  <2>11. StatusFollows' BY <1>T, <1>O, <1>S, <2>1, <2>2, <2>3, <2>4, <2>5, <2>6
  <2>12. LatestStatus' BY <1>T, <1>O, <1>S, <2>1, <2>2, <2>3, <2>4, <2>5, <2>6
  <2>13. JobKnowsRow' BY <1>T, <1>O, <1>B, <2>1, <2>2, <2>3, <2>4, <2>5, <2>6
  <2>14. TablesFollow' BY <1>T, <1>O, <1>B, <2>1, <2>2, <2>3, <2>4, <2>5, <2>6
  <2>15. TablesMatchConfig' BY <1>T, <1>O, <1>B, <2>1, <2>2, <2>3, <2>4, <2>5, <2>6
  <2> QED BY <2>7, <2>8, <2>9, <2>10, <2>11, <2>12, <2>13, <2>14, <2>15 DEF Rules
<1> QED
  BY <1>2, <1>3, <1>4, <1>5, <1>6, <1>7, <1>8, <1>9, <1>10, <1>11, <1>12, <1>13,
     <1>14, <1>15, <1>16, <1>17, <1>18, <1>19, <1>20, <1>21, <1>22, <1>25, <1>26, <1>27,
     <1>30, <1>31, <1>32, <1>33, <1>34, <1>35
     DEF Next, Handler, Thread

LEMMA TypesKept == IInv /\ [Next]_vars => TypeOK'
<1> SUFFICES ASSUME IInv, [Next]_vars PROVE TypeOK' OBVIOUS
<1>T. TypeOK BY DEF IInv
<1>U. /\ task \in [Tasks -> TaskRow]
      /\ exec \in [Execs -> ExecRow]
      /\ job \in [Execs -> JobRow]
      /\ slot \in [Tasks -> Execs \cup {0}]
      /\ permits \in Nat
      /\ edit \in [Tasks -> [cfg : Nat, reset : BOOLEAN]]
      /\ doomed \in [Tasks -> {"no", "cleanup", "executions", "row"}]
      /\ purge \subseteq Tasks
      /\ tables \in [Tasks -> Int]
      /\ server \in {"up", "closing", "down"}
      /\ spent \in Nat
      /\ ghost \subseteq Tasks
      /\ torn \subseteq Tasks
      /\ raced \subseteq Tasks
      /\ last \in [Tasks -> Execs \cup {0}]
  BY <1>T DEF TypeOK
<1>C. Configs \subseteq Nat /\ First \in Nat BY LifecycleAssumption
<1>J. \A e \in Execs : job[e].pc \notin {"unused", "done"} => job[e].task \in Tasks
  BY DEF IInv, Rules, Owners, JobsHaveTasks
<1>K. \A e \in Execs : job[e].cfg \in Nat BY <1>U DEF JobRow
<1>F. \A e \in Execs : job[e].pc \in {"ended", "told"} => job[e].out \in Final
  BY DEF IInv, Rules, StatusInv, StatusFollows
<1>1. ASSUME NEW t \in Tasks, CreateTask(t) PROVE TypeOK'
  <2>1. task' \in [Tasks -> TaskRow]
    BY <1>U, <1>C, <1>1 DEF CreateTask, SaveRow, TaskRow, Statuses
  <2>2. UNCHANGED <<exec, job, slot, permits, edit, doomed, purge, tables, server, spent, ghost, torn, raced, last>> BY <1>1 DEF CreateTask, held, history, requests, rows
  <2> QED BY <1>T, <2>1, <2>2 DEF TypeOK
<1>2. ASSUME NEW t \in Tasks, UpdateReads(t) PROVE TypeOK'
  <2>1. edit' \in [Tasks -> [cfg : Nat, reset : BOOLEAN]]
    BY <1>U, <1>2 DEF UpdateReads, ReadRow, TaskRow
  <2>2. spent' \in Nat
    BY <1>U, <1>2 DEF UpdateReads, Event, Fault
  <2>3. UNCHANGED <<task, exec, job, slot, permits, doomed, purge, tables, server, ghost, torn, raced, last>> BY <1>2 DEF UpdateReads, held, history, requests, rows
  <2> QED BY <1>T, <2>1, <2>2, <2>3 DEF TypeOK
<1>3. ASSUME NEW t \in Tasks, NEW c \in Configs, UpdateWrites(t, c) PROVE TypeOK'
  <2>1. task' \in [Tasks -> TaskRow]
    BY <1>U, <1>C, <1>3, RowEffect DEF UpdateWrites
  <2>2. edit' \in [Tasks -> [cfg : Nat, reset : BOOLEAN]]
    BY <1>U, <1>3 DEF UpdateWrites, NoEdit
  <2>3. raced' \subseteq Tasks
    BY <1>U, <1>3 DEF UpdateWrites
  <2>4. UNCHANGED <<exec, job, slot, permits, doomed, purge, tables, server, spent, ghost, torn, last>> BY <1>3 DEF UpdateWrites, held, history, requests, rows
  <2> QED BY <1>T, <2>1, <2>2, <2>3, <2>4 DEF TypeOK
<1>4. ASSUME NEW t \in Tasks, UpdateFails(t) PROVE TypeOK'
  <2>1. edit' \in [Tasks -> [cfg : Nat, reset : BOOLEAN]]
    BY <1>U, <1>4 DEF UpdateFails, NoEdit
  <2>2. UNCHANGED <<task, exec, job, slot, permits, doomed, purge, tables, server, spent, ghost, torn, raced, last>> BY <1>4 DEF UpdateFails, held, history, requests, rows
  <2> QED BY <1>T, <2>1, <2>2 DEF TypeOK
<1>5. ASSUME NEW t \in Tasks, DeleteReads(t) PROVE TypeOK'
  <2>1. doomed' \in [Tasks -> {"no", "cleanup", "executions", "row"}]
    BY <1>U, <1>5 DEF DeleteReads
  <2>2. spent' \in Nat
    BY <1>U, <1>5 DEF DeleteReads, Event, Fault
  <2>3. UNCHANGED <<task, exec, job, slot, permits, edit, purge, tables, server, ghost, torn, raced, last>> BY <1>5 DEF DeleteReads, held, history, requests, rows
  <2> QED BY <1>T, <2>1, <2>2, <2>3 DEF TypeOK
<1>6. ASSUME NEW t \in Tasks, DeleteCleans(t) PROVE TypeOK'
  <2>1. doomed' \in [Tasks -> {"no", "cleanup", "executions", "row"}]
    BY <1>U, <1>6 DEF DeleteCleans
  <2>2. tables' \in [Tasks -> Int]
    BY <1>U, <1>6 DEF DeleteCleans, DropScanTables
  <2>3. spent' \in Nat
    BY <1>U, <1>6 DEF DeleteCleans, Event, Fault
  <2>4. UNCHANGED <<task, exec, job, slot, permits, edit, purge, server, ghost, torn, raced, last>> BY <1>6 DEF DeleteCleans, held, history, requests, rows
  <2> QED BY <1>T, <2>1, <2>2, <2>3, <2>4 DEF TypeOK
<1>7. ASSUME NEW t \in Tasks, DeleteExecutions(t) PROVE TypeOK'
  <2>1. doomed' \in [Tasks -> {"no", "cleanup", "executions", "row"}]
    BY <1>U, <1>7 DEF DeleteExecutions
  <2>2. exec' \in [Execs -> ExecRow]
    BY <1>U, <1>7 DEF DeleteExecutions, NoExec, ExecRow
  <2>3. UNCHANGED <<task, job, slot, permits, edit, purge, tables, server, spent, ghost, torn, raced, last>> BY <1>7 DEF DeleteExecutions, held, history, requests, rows
  <2> QED BY <1>T, <2>1, <2>2, <2>3 DEF TypeOK
<1>8. ASSUME NEW t \in Tasks, DeleteTask(t) PROVE TypeOK'
  <2>1. doomed' \in [Tasks -> {"no", "cleanup", "executions", "row"}]
    BY <1>U, <1>8 DEF DeleteTask
  <2>2. task' \in [Tasks -> TaskRow] /\ exec' \in [Execs -> ExecRow]
    BY <1>U, <1>8, DeleteEffect DEF DeleteTask
  <2>3. UNCHANGED <<job, slot, permits, edit, purge, tables, server, spent, ghost, torn, raced, last>> BY <1>8 DEF DeleteTask, held, history, requests
  <2> QED BY <1>T, <2>1, <2>2, <2>3 DEF TypeOK
<1>9. ASSUME NEW t \in Tasks, DeleteFails(t) PROVE TypeOK'
  <2>1. doomed' \in [Tasks -> {"no", "cleanup", "executions", "row"}]
    BY <1>U, <1>9 DEF DeleteFails
  <2>2. spent' \in Nat
    BY <1>U, <1>9 DEF DeleteFails, Event, Fault
  <2>3. UNCHANGED <<task, exec, job, slot, permits, edit, purge, tables, server, ghost, torn, raced, last>> BY <1>9 DEF DeleteFails, held, history, requests, rows
  <2> QED BY <1>T, <2>1, <2>2, <2>3 DEF TypeOK
<1>10. ASSUME NEW t \in Tasks, EndpointDeletes(t) PROVE TypeOK'
  <2>1. purge' \subseteq Tasks
    BY <1>U, <1>10 DEF EndpointDeletes
  <2>2. task' \in [Tasks -> TaskRow] /\ exec' \in [Execs -> ExecRow]
    BY <1>U, <1>10, DeleteEffect DEF EndpointDeletes
  <2>3. UNCHANGED <<job, slot, permits, edit, doomed, tables, server, spent, ghost, torn, raced, last>> BY <1>10 DEF EndpointDeletes, held, history, requests
  <2> QED BY <1>T, <2>1, <2>2, <2>3 DEF TypeOK
<1>11. ASSUME NEW t \in Tasks, Cancel(t) PROVE TypeOK'
  <2>1. slot[t] \in Execs
    BY <1>U, <1>11 DEF Cancel
  <2>2. job' \in [Execs -> JobRow]
    BY <1>U, <2>1, <1>11, CancelEffect DEF Cancel
  <2>3. UNCHANGED <<task, exec, slot, permits, edit, doomed, purge, tables, server, spent, ghost, torn, raced, last>> BY <1>11 DEF Cancel, held, history, requests, rows
  <2> QED BY <1>T, <2>1, <2>2, <2>3 DEF TypeOK
<1>12. ASSUME NEW t \in Tasks, NEW e \in Execs, StartReads(e, t) PROVE TypeOK'
  <2>1. job' \in [Execs -> JobRow]
    BY <1>U, <1>12 DEF StartReads, JobRow, NoJob, ReadRow, TaskRow, Jobs
  <2>2. UNCHANGED <<task, exec, slot, permits, edit, doomed, purge, tables, server, spent, ghost, torn, raced, last>> BY <1>12 DEF StartReads, held, history, requests, rows
  <2> QED BY <1>T, <2>1, <2>2 DEF TypeOK
<1>13. CASE EndpointReads
  <2>1. purge' \subseteq Tasks
    BY <1>13 DEF EndpointReads
  <2>2. spent' \in Nat
    BY <1>U, <1>13 DEF EndpointReads, Event, Fault
  <2>3. UNCHANGED <<task, exec, job, slot, permits, edit, doomed, tables, server, ghost, torn, raced, last>> BY <1>13 DEF EndpointReads, held, history, requests, rows
  <2> QED BY <1>T, <2>1, <2>2, <2>3 DEF TypeOK
<1>14. CASE EndpointFails
  <2>1. purge' \subseteq Tasks
    BY <1>14 DEF EndpointFails
  <2>2. spent' \in Nat
    BY <1>U, <1>14 DEF EndpointFails, Event, Fault
  <2>3. UNCHANGED <<task, exec, job, slot, permits, edit, doomed, tables, server, ghost, torn, raced, last>> BY <1>14 DEF EndpointFails, held, history, requests, rows
  <2> QED BY <1>T, <2>1, <2>2, <2>3 DEF TypeOK
<1>15. ASSUME NEW e \in Execs, StartReserves(e) PROVE TypeOK'
  <2>1. job' \in [Execs -> JobRow]
    BY <1>U, <1>15, StepEffect DEF StartReserves, Jobs
  <2>2. slot' \in [Tasks -> Execs \cup {0}] /\ permits' \in Nat
    BY <1>15, ReserveEffect
  <2>3. raced' \subseteq Tasks
    BY <1>U, <1>J, <1>15 DEF StartReserves
  <2>4. UNCHANGED <<task, exec, edit, doomed, purge, tables, server, spent, ghost, torn, last>> BY <1>15 DEF StartReserves, history, requests, rows
  <2> QED BY <1>T, <2>1, <2>2, <2>3, <2>4 DEF TypeOK
<1>16. ASSUME NEW e \in Execs, StartRefused(e) PROVE TypeOK'
  <2>1. job' \in [Execs -> JobRow]
    BY <1>U, <1>16, StepEffect DEF StartRefused, Jobs
  <2>2. UNCHANGED <<task, exec, slot, permits, edit, doomed, purge, tables, server, spent, ghost, torn, raced, last>> BY <1>16 DEF StartRefused, held, history, requests, rows
  <2> QED BY <1>T, <2>1, <2>2 DEF TypeOK
<1>17. ASSUME NEW e \in Execs, StartSaves(e) PROVE TypeOK'
  <2>1. job' \in [Execs -> JobRow]
    BY <1>U, <1>17, StepEffect DEF StartSaves, Jobs
  <2>2. slot' \in [Tasks -> Execs \cup {0}] /\ permits' \in Nat
    BY <1>U, <1>17, ReleaseEffect DEF StartSaves, Holding, Jobs, held
  <2>3. exec' \in [Execs -> ExecRow]
    BY <1>U, <1>J, <1>17 DEF StartSaves, ExecRow, Statuses
  <2>4. last' \in [Tasks -> Execs \cup {0}]
    BY <1>U, <1>17 DEF StartSaves
  <2>5. UNCHANGED <<task, edit, doomed, purge, tables, server, spent, ghost, torn, raced>> BY <1>17 DEF StartSaves, history, requests, rows
  <2> QED BY <1>T, <2>1, <2>2, <2>3, <2>4, <2>5 DEF TypeOK
<1>18. ASSUME NEW e \in Execs, StartSpawns(e) PROVE TypeOK'
  <2>1. job' \in [Execs -> JobRow]
    BY <1>U, <1>18, StepEffect DEF StartSpawns, Jobs
  <2>2. slot' \in [Tasks -> Execs \cup {0}] /\ permits' \in Nat
    BY <1>U, <1>18, ReleaseEffect DEF StartSpawns, Holding, Jobs, held
  <2>3. task' \in [Tasks -> TaskRow]
    BY <1>U, <1>J, <1>18, StatusEffect DEF StartSpawns, Statuses
  <2>4. UNCHANGED <<exec, edit, doomed, purge, tables, server, spent, ghost, torn, raced, last>> BY <1>18 DEF StartSpawns, history, requests, rows
  <2> QED BY <1>T, <2>1, <2>2, <2>3, <2>4 DEF TypeOK
<1>19. ASSUME NEW e \in Execs, StartLookupFails(e) PROVE TypeOK'
  <2>1. job' \in [Execs -> JobRow]
    BY <1>U, <1>19, StepEffect DEF StartLookupFails, Jobs
  <2>2. slot' \in [Tasks -> Execs \cup {0}] /\ permits' \in Nat
    BY <1>U, <1>19, ReleaseEffect DEF StartLookupFails, Holding, Jobs
  <2>3. spent' \in Nat
    BY <1>U, <1>19 DEF StartLookupFails, Event, Fault
  <2>4. UNCHANGED <<task, exec, edit, doomed, purge, tables, server, ghost, torn, raced, last>> BY <1>19 DEF StartLookupFails, history, requests, rows
  <2> QED BY <1>T, <2>1, <2>2, <2>3, <2>4 DEF TypeOK
<1>20. ASSUME NEW e \in Execs, StartDropped(e) PROVE TypeOK'
  <2>1. job' \in [Execs -> JobRow]
    BY <1>U, <1>20, StepEffect DEF StartDropped, Jobs
  <2>2. slot' \in [Tasks -> Execs \cup {0}] /\ permits' \in Nat
    BY <1>U, <1>20, ReleaseEffect DEF StartDropped, Holding, Jobs
  <2>3. spent' \in Nat
    BY <1>U, <1>20 DEF StartDropped, Event, Fault
  <2>4. task' \in [Tasks -> TaskRow]
    BY <1>U, <1>J, <1>20, StatusEffect DEF StartDropped, Statuses, rows
  <2>5. exec' \in [Execs -> ExecRow]
    BY <1>U, <1>J, <1>20 DEF StartDropped, ExecRow, Statuses, rows
  <2>6. ghost' \subseteq Tasks
    BY <1>U, <1>J, <1>20 DEF StartDropped
  <2>7. UNCHANGED <<edit, doomed, purge, tables, server, torn, raced, last>> BY <1>20 DEF StartDropped, history, requests
  <2> QED BY <1>T, <2>1, <2>2, <2>3, <2>4, <2>5, <2>6, <2>7 DEF TypeOK
<1>21. ASSUME NEW e \in Execs, ThreadFails(e) PROVE TypeOK'
  <2>1. job' \in [Execs -> JobRow]
    BY <1>U, <1>21, StepEffect DEF ThreadFails, Jobs
  <2>2. slot' \in [Tasks -> Execs \cup {0}] /\ permits' \in Nat
    BY <1>U, <1>21, ReleaseEffect DEF ThreadFails, Holding, Jobs
  <2>3. spent' \in Nat
    BY <1>U, <1>21 DEF ThreadFails, Event, Fault
  <2>4. ghost' \subseteq Tasks
    BY <1>U, <1>J, <1>21 DEF ThreadFails
  <2>5. UNCHANGED <<task, exec, edit, doomed, purge, tables, server, torn, raced, last>> BY <1>21 DEF ThreadFails, history, requests, rows
  <2> QED BY <1>T, <2>1, <2>2, <2>3, <2>4, <2>5 DEF TypeOK
<1>22. ASSUME NEW e \in Execs, ThreadDrops(e) PROVE TypeOK'
  <2>1. job' \in [Execs -> JobRow]
    BY <1>U, <1>22, StepEffect, EndEffect DEF ThreadDrops, Jobs, Final
  <2>2. tables' \in [Tasks -> Int]
    BY <1>U, <1>22 DEF ThreadDrops, DropScanTables
  <2>3. spent' \in Nat
    BY <1>U, <1>22 DEF ThreadDrops, Event, Fault
  <2>4. UNCHANGED <<task, exec, slot, permits, edit, doomed, purge, server, ghost, torn, raced, last>> BY <1>22 DEF ThreadDrops, held, history, requests, rows
  <2> QED BY <1>T, <2>1, <2>2, <2>3, <2>4 DEF TypeOK
<1>23. ASSUME NEW e \in Execs, ThreadClears(e) PROVE TypeOK'
  <2>1. job' \in [Execs -> JobRow]
    BY <1>U, <1>23, EndEffect DEF ThreadClears, Jobs, Final
  <2>2. task' \in [Tasks -> TaskRow]
    BY <1>U, <1>J, <1>K, <1>23, RowEffect DEF ThreadClears
  <2>3. UNCHANGED <<exec, slot, permits, edit, doomed, purge, tables, server, spent, ghost, torn, raced, last>> BY <1>23 DEF ThreadClears, held, history, requests, rows
  <2> QED BY <1>T, <2>1, <2>2, <2>3 DEF TypeOK
<1>24. ASSUME NEW e \in Execs, RunStarts(e) PROVE TypeOK'
  <2>1. job' \in [Execs -> JobRow]
    BY <1>U, <1>24, StepEffect, EndEffect DEF RunStarts, Jobs, Final
  <2>2. tables' \in [Tasks -> Int]
    BY <1>U, <1>K, <1>24 DEF RunStarts, Filled, MIXED
  <2>3. UNCHANGED <<task, exec, slot, permits, edit, doomed, purge, server, spent, ghost, torn, raced, last>> BY <1>24 DEF RunStarts, held, history, requests, rows
  <2> QED BY <1>T, <2>1, <2>2, <2>3 DEF TypeOK
<1>25. ASSUME NEW e \in Execs, RunEnds(e) PROVE TypeOK'
  <2>1. job' \in [Execs -> JobRow]
    BY <1>U, <1>25, EndEffect DEF RunEnds, Jobs, Final
  <2>2. UNCHANGED <<task, exec, slot, permits, edit, doomed, purge, tables, server, spent, ghost, torn, raced, last>> BY <1>25 DEF RunEnds, held, history, requests, rows
  <2> QED BY <1>T, <2>1, <2>2 DEF TypeOK
<1>26. ASSUME NEW e \in Execs, TaskWritten(e) PROVE TypeOK'
  <2>1. job[e].pc = "ended"
    BY <1>26 DEF TaskWritten
  <2>2. job[e].task \in Tasks /\ Outcome(e) \in Final
    BY <1>F, <1>J, <2>1 DEF Outcome, Final
  <2>3. job' \in [Execs -> JobRow]
    BY <1>U, <2>2, <1>26, EndEffect DEF TaskWritten, Jobs
  <2>4. task' \in [Tasks -> TaskRow]
    BY <1>U, <2>2, <1>26, StatusEffect DEF TaskWritten, Statuses
  <2>5. spent' \in Nat
    BY <1>U, <1>26 DEF TaskWritten, Event, Fault
  <2>6. ghost' \subseteq Tasks
    BY <1>U, <1>J, <1>26 DEF TaskWritten
  <2>7. UNCHANGED <<exec, slot, permits, edit, doomed, purge, tables, server, torn, raced, last>> BY <1>26 DEF TaskWritten, held, history, requests, rows
  <2> QED BY <1>T, <2>1, <2>2, <2>3, <2>4, <2>5, <2>6, <2>7 DEF TypeOK
<1>27. ASSUME NEW e \in Execs, ExecutionWritten(e) PROVE TypeOK'
  <2>1. job' \in [Execs -> JobRow]
    BY <1>U, <1>27, StepEffect DEF ExecutionWritten, Jobs
  <2>2. slot' \in [Tasks -> Execs \cup {0}] /\ permits' \in Nat
    BY <1>U, <1>27, ReleaseEffect DEF ExecutionWritten, Holding, Jobs
  <2>3. job[e].pc = "told"
    BY <1>27 DEF ExecutionWritten
  <2>4. job[e].out \in Statuses
    BY <1>F, <2>3 DEF Statuses
  <2>5. exec' \in [Execs -> ExecRow]
    BY <1>U, <2>4, <1>27 DEF ExecutionWritten, ExecRow
  <2>6. spent' \in Nat
    BY <1>U, <1>27 DEF ExecutionWritten, Event, Fault
  <2>7. ghost' \subseteq Tasks /\ torn' \subseteq Tasks
    BY <1>U, <1>J, <1>27 DEF ExecutionWritten
  <2>8. UNCHANGED <<task, edit, doomed, purge, tables, server, raced, last>> BY <1>27 DEF ExecutionWritten, history, requests, rows
  <2> QED BY <1>T, <2>1, <2>2, <2>3, <2>4, <2>5, <2>6, <2>7, <2>8 DEF TypeOK
<1>28. ASSUME NEW e \in Execs, DeleteExecution(e) PROVE TypeOK'
  <2>1. exec' \in [Execs -> ExecRow]
    BY <1>U, <1>28 DEF DeleteExecution, DeleteById, NoExec, ExecRow
  <2>2. spent' \in Nat
    BY <1>U, <1>28 DEF DeleteExecution, Event, Fault
  <2>3. UNCHANGED <<task, job, slot, permits, edit, doomed, purge, tables, server, ghost, torn, raced, last>> BY <1>28 DEF DeleteExecution, held, history, requests, rows
  <2> QED BY <1>T, <2>1, <2>2, <2>3 DEF TypeOK
<1>29. CASE Shutdown
  <2>1. server' \in {"up", "closing", "down"}
    BY <1>29 DEF Shutdown
  <2>2. \A r \in JobRow : [r EXCEPT !.cancelled = TRUE] \in JobRow
    BY DEF JobRow
  <2>3. job' \in [Execs -> JobRow]
    BY <1>U, <2>2, <1>29 DEF Shutdown
  <2>4. spent' \in Nat
    BY <1>U, <1>29 DEF Shutdown, Event, Fault
  <2>5. UNCHANGED <<task, exec, slot, permits, edit, doomed, purge, tables, ghost, torn, raced, last>> BY <1>29 DEF Shutdown, held, history, requests, rows
  <2> QED BY <1>T, <2>1, <2>2, <2>3, <2>4, <2>5 DEF TypeOK
<1>30. CASE Stop
  <2>1. server' \in {"up", "closing", "down"} /\ purge' \subseteq Tasks
    BY <1>30 DEF Stop
  <2>2. job' \in [Execs -> JobRow]
    BY <1>U, <1>30 DEF Stop, JobRow, NoJob, Jobs
  <2>3. spent' \in Nat
    BY <1>U, <1>30 DEF Stop, Event, Fault
  <2>4. torn' \subseteq Tasks
    BY <1>U, <1>30 DEF Stop
  <2>5. slot' \in [Tasks -> Execs \cup {0}] /\ permits' \in Nat
    BY LifecycleAssumption, <1>30 DEF Stop
  <2>6. edit' \in [Tasks -> [cfg : Nat, reset : BOOLEAN]]
    BY <1>30 DEF Stop, NoEdit
  <2>7. doomed' \in [Tasks -> {"no", "cleanup", "executions", "row"}]
    BY <1>30 DEF Stop
  <2>8. UNCHANGED <<task, exec, tables, ghost, raced, last>> BY <1>30 DEF Stop, history, rows
  <2> QED BY <1>T, <2>1, <2>2, <2>3, <2>4, <2>5, <2>6, <2>7, <2>8 DEF TypeOK
<1>31. CASE Restart
  <2>1. /\ server' \in {"up", "closing", "down"}
        /\ ghost' \subseteq Tasks
        /\ torn' \subseteq Tasks
    BY <1>U, <1>31 DEF Restart
  <2>2. task' \in [Tasks -> TaskRow]
    BY <1>U, <1>31 DEF Restart, TaskRow, Interrupted, Statuses, Final
  <2>3. exec' \in [Execs -> ExecRow]
    BY <1>U, <1>31 DEF Restart, ExecRow, Interrupted, Statuses, Final
  <2>4. UNCHANGED <<job, slot, permits, edit, doomed, purge, tables, spent, raced, last>> BY <1>31 DEF Restart, held, history, requests
  <2> QED BY <1>T, <2>1, <2>2, <2>3, <2>4 DEF TypeOK
<1>32. CASE UNCHANGED vars BY <1>T, <1>32 DEF TypeOK, vars, rows, held, requests, history
<1> QED
  BY <1>1, <1>2, <1>3, <1>4, <1>5, <1>6, <1>7, <1>8, <1>9, <1>10, <1>11, <1>12,
     <1>13, <1>14, <1>15, <1>16, <1>17, <1>18, <1>19, <1>20, <1>21, <1>22, <1>23, <1>24,
     <1>25, <1>26, <1>27, <1>28, <1>29, <1>30, <1>31, <1>32
     DEF Next, Handler, Thread

LEMMA InitIInv == Init => IInv
<1> SUFFICES ASSUME Init PROVE IInv OBVIOUS
<1> USE LifecycleAssumption DEF Init
<1>1. TypeOK
  BY DEF TypeOK, NoTask, TaskRow, NoExec, ExecRow, NoJob, JobRow, Jobs, NoEdit
<1>2. Owners BY DEF Owners, JobsHaveTasks, SlotsAreHeld, NoJob, Holding, Jobs
<1>3. PermitsAreCounted
  <2>1. {t \in Tasks : slot[t] # 0} = {} OBVIOUS
  <2> QED BY <2>1, FS_EmptySet DEF PermitsAreCounted
<1>4. ExecutionRows /\ RunningHasOwner
  BY DEF ExecutionRows, RunningHasOwner, NoExec, NoJob, NoTask, Holding, Jobs
<1>5. StatusFollows /\ LatestStatus
  BY DEF StatusFollows, LatestStatus, NoJob, Holding, Jobs, Threaded
<1>6. TablesInv
  BY DEF TablesInv, JobKnowsRow, TablesFollow, TablesMatchConfig, NoJob, NoTask
<1> QED BY <1>1, <1>2, <1>3, <1>4, <1>5, <1>6 DEF IInv, Rules, StatusInv

\* Every reachable state has the types of TypeOK, and the locks, rows and tables
\* agree as Rules says: what each step of task_service.rs and task_runner.rs
\* relies on and keeps.
THEOREM TaskInvariant == Spec => []IInv
<1>1. IInv /\ [Next]_vars => IInv' BY RulesKept, TypesKept DEF IInv
<1> QED BY InitIInv, <1>1, PTL DEF Spec

\* A permit of the semaphore, an entry of running_tasks and a row that says
\* "running" never outlive the start that took them, on any path out of it.
THEOREM RunsAreOwnedAlways == Spec => []RunsAreOwned
<1>1. IInv => RunsAreOwned
  BY DEF IInv, Rules, Owners, SlotsAreHeld, PermitsAreCounted, StatusInv, RunsAreOwned,
         PermitPerRunningTask
<1> QED BY TaskInvariant, <1>1, PTL

\* An idle task shows the status of its latest execution, and the tables of a
\* scan hold one configuration or are marked to be dropped.
THEOREM RowsAreConsistentAlways == Spec => []RowsAreConsistent
<1>1. IInv => RowsAreConsistent
  BY DEF IInv, Rules, StatusInv, LatestStatus, TablesInv, RowsAreConsistent, StatusIsLatestExecution
<1> QED BY TaskInvariant, <1>1, PTL

-----------------------------------------------------------------------------
(* Deletion.                                                               *)

LEMMA GoneStaysGone ==
    ASSUME IInv, [Next]_vars, NEW t \in Tasks, task[t].st = "gone"
    PROVE  task'[t].st = "gone"
<1>T. task \in [Tasks -> TaskRow] /\ exec \in [Execs -> ExecRow] /\ ~Exists(t)
  BY DEF IInv, TypeOK, Exists, Statuses, Final
<1>J. \A e \in Execs : job[e].pc \notin {"unused", "done"} => job[e].task \in Tasks
  BY DEF IInv, Rules, Owners, JobsHaveTasks
<1>1. ASSUME NEW u \in Tasks, CreateTask(u) PROVE task'[t].st = "gone"
  BY <1>T, <1>1 DEF CreateTask, SaveRow
<1>2. ASSUME NEW u \in Tasks, NEW c \in Nat, NEW r \in BOOLEAN, task' = UpdateRow(u, c, r)
      PROVE  task'[t].st = "gone"
  BY <1>T, <1>2, RowEffect
<1>3. ASSUME NEW u \in Tasks, NEW s \in Statuses, task' = UpdateStatus(u, s)
      PROVE  task'[t].st = "gone"
  BY <1>T, <1>3, StatusEffect
<1>4. ASSUME NEW u \in Tasks, DeleteRow(u) PROVE task'[t].st = "gone"
  BY <1>T, <1>4, DeleteEffect
<1>5. CASE Restart BY <1>T, <1>5 DEF Restart
<1>6. CASE UNCHANGED task BY <1>6
<1>7. ASSUME NEW u \in Tasks, NEW c \in Configs, UpdateWrites(u, c) PROVE task'[t].st = "gone"
  BY <1>2, <1>7, LifecycleAssumption DEF UpdateWrites, IInv, TypeOK
<1>8. ASSUME NEW e \in Execs, StartSpawns(e) \/ StartDropped(e) PROVE task'[t].st = "gone"
  BY <1>J, <1>3, <1>6, <1>8 DEF StartSpawns, StartDropped, rows, Statuses
<1>9. ASSUME NEW e \in Execs, ThreadClears(e) PROVE task'[t].st = "gone"
  BY <1>J, <1>2, <1>9 DEF ThreadClears, IInv, TypeOK, JobRow
<1>10. ASSUME NEW e \in Execs, TaskWritten(e) PROVE task'[t].st = "gone"
  <2>1. job[e].task \in Tasks /\ job[e].pc = "ended" BY <1>J, <1>10 DEF TaskWritten
  <2>2. Outcome(e) \in Statuses
    BY <2>1 DEF IInv, Rules, StatusInv, StatusFollows, Outcome, Statuses, Final
  <2> QED BY <1>3, <1>6, <1>10, <2>1, <2>2 DEF TaskWritten
<1>11. ASSUME NEW u \in Tasks, DeleteTask(u) \/ EndpointDeletes(u) PROVE task'[t].st = "gone"
  BY <1>4, <1>11 DEF DeleteTask, EndpointDeletes
<1>12. ASSUME NEW u \in Tasks,
              \/ UpdateReads(u) \/ UpdateFails(u) \/ DeleteReads(u) \/ DeleteCleans(u)
              \/ DeleteExecutions(u) \/ DeleteFails(u) \/ Cancel(u)
              \/ \E e \in Execs : StartReads(e, u)
       PROVE  UNCHANGED task
  BY <1>12 DEF UpdateReads, UpdateFails, DeleteReads, DeleteCleans, DeleteExecutions, DeleteFails,
               Cancel, StartReads, rows
<1>13. CASE EndpointReads \/ EndpointFails \/ Shutdown \/ Stop \/ UNCHANGED vars
  BY <1>6, <1>13 DEF EndpointReads, EndpointFails, Shutdown, Stop, rows, vars
<1>14. ASSUME NEW e \in Execs,
              \/ StartReserves(e) \/ StartRefused(e) \/ StartSaves(e) \/ ThreadDrops(e) \/ RunStarts(e)
              \/ RunEnds(e) \/ ExecutionWritten(e) \/ DeleteExecution(e) \/ StartLookupFails(e)
              \/ ThreadFails(e)
       PROVE  UNCHANGED task
  BY <1>14 DEF StartReserves, StartRefused, StartSaves, ThreadDrops, RunStarts, RunEnds,
               ExecutionWritten, DeleteExecution, StartLookupFails, ThreadFails, rows
<1> QED
  BY <1>1, <1>5, <1>6, <1>7, <1>8, <1>9, <1>10, <1>11, <1>12, <1>13, <1>14 DEF Next, Handler, Thread

\* No late write of a handler or a thread brings a deleted task back, and no
\* execution is ever in the table without its task.
THEOREM DeletionIsFinal == Spec => DeletedStaysDeleted
<1>1. IInv /\ [Next]_vars => IInv' BY RulesKept, TypesKept DEF IInv
<1>2. ASSUME IInv, [Next]_vars
      PROVE  /\ \A t \in Tasks : task[t].st = "gone" => task'[t].st = "gone"
             /\ \A e \in Execs : exec'[e].st # "absent" => task'[exec'[e].task].st \in Statuses
  <2>1. IInv' BY <1>1, <1>2
  <2>2. ExecutionRows' BY <2>1 DEF IInv, Rules, StatusInv
  <2> QED BY <1>2, <2>2, GoneStaysGone DEF ExecutionRows, Exists
<1> QED BY TaskInvariant, <1>2, PTL DEF Spec, DeletedStaysDeleted

=============================================================================
