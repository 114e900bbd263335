---------------------------- MODULE RecoveryWindow ----------------------------
(***************************************************************************)
(* The connectivity recovery window of one scan (ScanDatabaseExecution,    *)
(* crates/db/src/execution/recovery.rs) with the watcher that turns a      *)
(* terminal failure into cancellation (crates/app/src/scan/cancellation.rs).*)
(*                                                                         *)
(* Every ClickHouse request of a scan passes one gate.  A connectivity     *)
(* failure registers the ticket of the operation that met it and starts a  *)
(* window that all operations share; the gate is then closed to everybody  *)
(* but the operations that hold a ticket, which go on retrying.  A probe   *)
(* runs beside them under a ticket of its own.  The window ends when every *)
(* ticket has been acknowledged, or it expires and the scan stops.  A write *)
(* whose outcome is unknown is never sent again: it keeps its ticket and   *)
(* waits for the end.                                                      *)
(*                                                                         *)
(* Time is the part of the window that is left, in ticks.  The mutex is    *)
(* held across no await, so each of its critical sections is one step.     *)
(***************************************************************************)
EXTENDS Integers, FiniteSets

CONSTANTS
    Ops,        \* the logical operations of the scan
    Safety,     \* the RequestSafety each is issued with; "direct" is a call
                \* outside request() whose error goes to settle_failure
    Window,     \* RECOVERY_WINDOW in ticks
    Probe       \* the monitor's ticket, operation 0 of the code

Kinds == {"read", "idem", "isolated", "unconfirmed", "direct"}

ASSUME WindowAssumption == Window \in Nat \ {0}
ASSUME SafetyAssumption == Safety \in [Ops -> Kinds]
ASSUME ProbeAssumption == Probe \notin Ops

VARIABLES
    pc,         \* where each operation is
    woken,      \* operations whose Notified future has been completed
    failed,     \* Recovery::failed; recovering iff it is not empty
    left,       \* ticks until the deadline; Window while nothing has failed
    terminal,   \* the watch channel: "none" or who put an error there
    stopping,   \* the stopping CancellationToken
    applied,    \* operations a statement of which the server may have applied
    mon,        \* the monitor task
    scope       \* the scan's scope: "open" until its work has returned

vars == <<pc, woken, failed, left, terminal, stopping, applied, mon, scope>>

(***************************************************************************)
(* "gate", "lock", "parked": before_request at its checks, at the mutex and *)
(* at the select.  "sent": in flight; "draining": in flight, and a step     *)
(* nested in it has failed.  "acked", "lost", "refused": answered, broken   *)
(* off, known not to have been sent.  "delay": before a retry.  "ending",   *)
(* "waitEnd": wait_for_end at its checks and at its select.                *)
(***************************************************************************)
Steps == {"idle", "gate", "lock", "parked", "sent", "draining", "acked",
          "lost", "refused", "delay", "ending", "waitEnd", "done"}

Tickets == Ops \cup {Probe}

Init ==
    /\ pc = [o \in Ops |-> "idle"]
    /\ woken = {}
    /\ failed = {}
    /\ left = Window
    /\ terminal = "none"
    /\ stopping = FALSE
    /\ applied = {}
    /\ mon = "wait"
    /\ scope = "open"

-----------------------------------------------------------------------------
(* The shared state, under its lock.                                       *)

Goto(o, s) == pc' = [pc EXCEPT ![o] = s]

\* changed.notify_waiters() completes every Notified future that exists.
Notified == {o \in Ops : pc[o] \in {"lock", "parked", "gate", "waitEnd"}}

\* stopping.is_cancelled()
StopSeen == stopping

Due == failed # {} /\ left = 0

\* failed_operation(ticket)
FailedOperation(t) ==
    /\ left' = IF failed = {} THEN Window ELSE left
    /\ failed' = failed \cup {t}
    /\ woken' = Notified

\* recovered(ticket)
MutRecoveredAll(t) ==
    /\ failed' = {}
    /\ left' = Window
    /\ woken' = Notified
Recovered(t) ==
    /\ failed' = failed \ {t}
    /\ left' = IF failed' = {} THEN Window ELSE left
    /\ woken' = IF failed # {} /\ failed' = {} THEN Notified ELSE woken

\* expire_if_due(), before the futures of `fresh` are created anew
ExpireIfDue(fresh) ==
    IF Due /\ terminal = "none"
      THEN terminal' = "cause" /\ woken' = Notified \ fresh
      ELSE terminal' = terminal /\ woken' = woken \ fresh

-----------------------------------------------------------------------------
(* before_request: the gate.                                               *)

\* The loop's first line arms a Notified future.
Request(o) ==
    /\ pc[o] = "idle" /\ Safety[o] # "direct" /\ scope = "open"
    /\ Goto(o, "gate") /\ woken' = woken \ {o}
    /\ UNCHANGED <<failed, left, terminal, stopping, applied, mon, scope>>

GateCheck(o) ==
    /\ pc[o] = "gate"
    /\ \/ (terminal # "none" \/ StopSeen) /\ Goto(o, "done")
       \/ /\ terminal = "none" /\ ~StopSeen
          /\ Goto(o, IF failed = {} THEN "sent" ELSE "lock")
    /\ UNCHANGED <<woken, failed, left, terminal, stopping, applied, mon, scope>>

GateLock(o) ==
    /\ pc[o] = "lock"
    /\ Goto(o, IF o \in failed THEN "sent" ELSE "parked")
    /\ UNCHANGED <<woken, failed, left, terminal, stopping, applied, mon, scope>>

GateWake(o) ==
    /\ pc[o] = "parked"
    /\ \/ o \in woken /\ Goto(o, "gate") /\ woken' = woken \ {o}
       \/ StopSeen /\ Goto(o, "done") /\ UNCHANGED woken
    /\ UNCHANGED <<failed, left, terminal, stopping, applied, mon, scope>>

-----------------------------------------------------------------------------
(* request: one attempt and what its outcome leads to.                     *)

Succeed(o) ==
    /\ pc[o] = "sent"
    /\ Goto(o, "acked") /\ applied' = applied \cup {o}
    /\ UNCHANGED <<woken, failed, left, terminal, stopping, mon, scope>>

Acknowledge(o) ==
    /\ pc[o] = "acked"
    /\ Goto(o, "done") /\ Recovered(o)
    /\ UNCHANGED <<terminal, stopping, applied, mon, scope>>

\* A transient failure.  A refused connection was never sent; after any
\* other one the statement may have been applied.
Fail(o) ==
    /\ pc[o] \in {"sent", "draining"}
    /\ \/ Goto(o, IF StopSeen THEN "done" ELSE "refused") /\ UNCHANGED applied
       \/ Goto(o, IF StopSeen THEN "done" ELSE "lost") /\ applied' \in {applied, applied \cup {o}}
    /\ UNCHANGED <<woken, failed, left, terminal, stopping, mon, scope>>

\* A failure that is none of connectivity is returned; a ticket an earlier
\* attempt took stays where it is.
FailPermanent(o) ==
    /\ pc[o] \in {"sent", "draining"}
    /\ Goto(o, "done") /\ applied' \in {applied, applied \cup {o}}
    /\ UNCHANGED <<woken, failed, left, terminal, stopping, mon, scope>>

\* A request made inside an isolated one registers under its parent's ticket
\* at once, while the parent still waits for its siblings.
NestedFail(o) ==
    /\ pc[o] \in {"sent", "draining"} /\ Safety[o] = "isolated" /\ ~StopSeen
    /\ Goto(o, "draining") /\ FailedOperation(o)
    /\ applied' \in {applied, applied \cup {o}}
    /\ UNCHANGED <<terminal, stopping, mon, scope>>

\* The outcome is unknown and the statement may not be repeated.
MutUnconfirmed(o) == Safety[o] = "direct"
Unconfirmed(o) == \/ Safety[o] = "unconfirmed" /\ pc[o] = "lost"
                  \/ Safety[o] = "direct"

Register(o) ==
    /\ pc[o] \in {"lost", "refused"}
    /\ Goto(o, IF Unconfirmed(o) THEN "ending" ELSE "delay")
    /\ FailedOperation(o)
    /\ UNCHANGED <<terminal, stopping, applied, mon, scope>>

Retry(o) ==
    /\ pc[o] = "delay"
    /\ \/ Goto(o, "gate") /\ ExpireIfDue({o})
       \/ StopSeen /\ Goto(o, "done") /\ UNCHANGED <<terminal, woken>>
    /\ UNCHANGED <<failed, left, stopping, applied, mon, scope>>

\* A call outside request() returns, or its error reaches settle_failure.
Direct(o) ==
    /\ pc[o] = "idle" /\ Safety[o] = "direct" /\ scope = "open"
    /\ \/ Goto(o, "done")
       \/ ~StopSeen /\ Goto(o, "lost")
    /\ UNCHANGED <<woken, failed, left, terminal, stopping, applied, mon, scope>>

\* wait_for_end
EndCheck(o) ==
    /\ pc[o] = "ending"
    /\ ExpireIfDue({o})
    /\ Goto(o, IF terminal' # "none" \/ StopSeen THEN "done" ELSE "waitEnd")
    /\ UNCHANGED <<failed, left, stopping, applied, mon, scope>>

EndWake(o) ==
    /\ pc[o] = "waitEnd"
    /\ \/ (o \in woken \/ Due) /\ Goto(o, "ending")
       \/ StopSeen /\ Goto(o, "done")
    /\ UNCHANGED <<woken, failed, left, terminal, stopping, applied, mon, scope>>

-----------------------------------------------------------------------------
(* The connectivity monitor.                                               *)

MonExpire ==
    /\ mon = "wait" /\ Due
    /\ ExpireIfDue({})
    /\ UNCHANGED <<pc, failed, left, stopping, applied, mon, scope>>

MonExit ==
    /\ \/ mon = "wait" /\ (terminal # "none" \/ StopSeen)
       \/ mon = "probing" /\ StopSeen
    /\ mon' = "off"
    /\ UNCHANGED <<pc, woken, failed, left, terminal, stopping, applied, scope>>

MonProbe ==
    /\ mon = "wait" /\ terminal = "none" /\ ~StopSeen /\ ~Due
    /\ mon' = "probing"
    /\ UNCHANGED <<pc, woken, failed, left, terminal, stopping, applied, scope>>

\* The probe's answer: every node reachable, or an incomplete, broken or
\* overdue answer.
ProbeOk ==
    /\ mon = "probing" /\ mon' = "wait" /\ Recovered(Probe)
    /\ UNCHANGED <<pc, terminal, stopping, applied, scope>>

ProbeBad ==
    /\ mon = "probing" /\ mon' = "wait" /\ FailedOperation(Probe)
    /\ UNCHANGED <<pc, terminal, stopping, applied, scope>>

\* An answer that is no connectivity failure: the error is published and the
\* monitor returns.  Nobody is notified.
ProbePermanent ==
    /\ mon = "probing" /\ mon' = "off" /\ terminal' = "probe"
    /\ UNCHANGED <<pc, woken, failed, left, stopping, applied, scope>>

\* The monitor task ends in any other way: MonitorExit::drop
MonDies ==
    /\ mon # "off" /\ scope = "open" /\ mon' = "off"
    /\ terminal' = IF ~StopSeen /\ terminal = "none" THEN "monitor" ELSE terminal
    /\ UNCHANGED <<pc, woken, failed, left, stopping, applied, scope>>

-----------------------------------------------------------------------------
(* The scope: the watcher, a cancellation from outside, the end.           *)

BeginStop ==
    /\ stopping' = TRUE /\ woken' = Notified
    /\ UNCHANGED <<pc, failed, left, terminal, applied, mon, scope>>

MutWatcher == scope = "open" /\ terminal = "cause" /\ ~stopping /\ BeginStop
Watcher == scope = "open" /\ terminal # "none" /\ ~stopping /\ BeginStop

Cancel == scope = "open" /\ ~stopping /\ BeginStop

\* The work has returned: the watcher is aborted and the monitor finished.
Finish ==
    /\ scope = "open" /\ \A o \in Ops : pc[o] = "done"
    /\ scope' = "closed" /\ mon' = "off"
    /\ UNCHANGED <<pc, woken, failed, left, terminal, stopping, applied>>

Tick ==
    /\ failed # {} /\ left > 0 /\ scope = "open"
    /\ left' = left - 1
    /\ UNCHANGED <<pc, woken, failed, terminal, stopping, applied, mon, scope>>

Closed == scope = "closed" /\ UNCHANGED vars

Answered(o) == Succeed(o) \/ Fail(o) \/ FailPermanent(o)

Running(o) ==
    \/ GateCheck(o) \/ GateLock(o) \/ GateWake(o)
    \/ Acknowledge(o) \/ Register(o) \/ Retry(o) \/ EndCheck(o) \/ EndWake(o)

OpStep(o) == Request(o) \/ Direct(o) \/ Answered(o) \/ NestedFail(o) \/ Running(o)

Answer == ProbeOk \/ ProbeBad \/ ProbePermanent

Next ==
    \/ \E o \in Ops : OpStep(o)
    \/ MonExpire \/ MonExit \/ MonProbe \/ Answer \/ MonDies
    \/ Watcher \/ Cancel \/ Finish \/ Tick \/ Closed

Spec == Init /\ [][Next]_vars

(***************************************************************************)
(* Tasks are scheduled, every request and probe is answered or runs into    *)
(* its timeout, and time passes.                                           *)
(***************************************************************************)
Fairness ==
    /\ \A o \in Ops : WF_vars(Answered(o)) /\ WF_vars(Running(o))
    /\ WF_vars(MonExpire) /\ WF_vars(Answer) /\ WF_vars(Watcher) /\ WF_vars(Tick)

LiveSpec == Spec /\ Fairness

-----------------------------------------------------------------------------
(* Properties.                                                             *)

\* Every variable stays in its range, and the window is untouched while
\* nothing has failed.
TypeOK ==
    /\ pc \in [Ops -> Steps]
    /\ woken \subseteq Ops
    /\ failed \subseteq Tickets
    /\ left \in 0 .. Window
    /\ terminal \in {"none", "cause", "probe", "monitor"}
    /\ stopping \in BOOLEAN
    /\ applied \subseteq Ops
    /\ mon \in {"wait", "probing", "off"}
    /\ scope \in {"open", "closed"}
    /\ failed = {} => left = Window

\* An unconfirmed write one attempt of which may have reached the server is
\* never on its way to the server again (recovery/tests.rs: "unconfirmed
\* writes must not be blindly replayed").
Sending == {"gate", "lock", "parked", "sent", "delay"}
UnconfirmedOnce ==
    \A o \in Ops : Safety[o] = "unconfirmed" /\ pc[o] \in Sending => o \notin applied

\* An operation that is between a failure and its retry, or that waits for
\* the end because it may not retry, holds a ticket, so neither a successful
\* probe nor another operation's success reopens the gate before it.
UnresolvedHoldsGate ==
    \A o \in Ops : pc[o] \in {"delay", "ending", "waitEnd", "draining"} => o \in failed

\* No wakeup is lost: an operation suspended at the gate or in wait_for_end
\* without a completed future still has a reason to wait, and every event
\* that removes the reason (the last ticket cleared, the window expired, the
\* scan stopped) completes its future, however it interleaves with the checks
\* made before the select.
NoMissedWakeup ==
    /\ \A o \in Ops : pc[o] \in {"lock", "parked"} /\ o \notin woken =>
                        failed # {} /\ ~stopping /\ terminal # "cause"
    /\ \A o \in Ops : pc[o] = "waitEnd" /\ o \notin woken =>
                        ~stopping /\ terminal # "cause"

\* Failures, retries and probes that arrive while a window is open never
\* lengthen it; only the acknowledgement of every ticket closes it
\* (docs/external-dependency-failures.md on the scan's window).
SharedDeadline ==
    [][failed # {} /\ failed' # {} => left' <= left]_vars

\* Every operation that was issued has returned.
Returned == \A o \in Ops : pc[o] \in {"idle", "done"}

\* Nobody is held for ever: an open window ends with every ticket acknowledged
\* or the scan stopping, and once the scan is stopping every operation that was
\* issued returns.
WindowReleases ==
    failed # {} \/ stopping ~>
        scope = "closed" \/ IF stopping THEN Returned ELSE failed = {}

=============================================================================
