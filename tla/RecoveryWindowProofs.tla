------------------------ MODULE RecoveryWindowProofs ------------------------
(***************************************************************************)
(* The safety properties of RecoveryWindow hold for any set of operations, *)
(* any assignment of safety classes and any window.                        *)
(***************************************************************************)
EXTENDS RecoveryWindow, TLAPS

\* A statement that may not be repeated reaches `applied` only in an attempt
\* it does not return from.
NotYetApplied ==
    \A o \in Ops : /\ Safety[o] = "unconfirmed" /\ pc[o] \in {"idle", "refused"} => o \notin applied
                   /\ Safety[o] = "unconfirmed" => pc[o] # "draining"
                   /\ Safety[o] = "direct" => pc[o] \in {"idle", "lost", "ending", "waitEnd", "done"}

IInv == TypeOK /\ NotYetApplied /\ UnconfirmedOnce /\ UnresolvedHoldsGate /\ NoMissedWakeup

LEMMA InitIInv == Init => IInv
<1> SUFFICES ASSUME Init PROVE IInv OBVIOUS
<1>1. TypeOK
  <2>1. left \in 0 .. Window BY WindowAssumption DEF Init
  <2>2. pc \in [Ops -> Steps] BY DEF Init, Steps
  <2>3. stopping \in BOOLEAN BY DEF Init
  <2> QED BY <2>1, <2>2, <2>3 DEF Init, TypeOK
<1>2. \A o \in Ops : pc[o] = "idle" BY DEF Init
<1>3. NotYetApplied /\ UnconfirmedOnce BY <1>2 DEF Init, NotYetApplied, UnconfirmedOnce, Sending
<1>4. UnresolvedHoldsGate /\ NoMissedWakeup BY <1>2 DEF UnresolvedHoldsGate, NoMissedWakeup
<1> QED BY <1>1, <1>3, <1>4 DEF IInv

\* A failure registered or a window expired leaves the state well typed.
LEMMA TypesKept == IInv /\ [Next]_vars => TypeOK'
<1> SUFFICES ASSUME IInv, [Next]_vars PROVE TypeOK' OBVIOUS
<1> USE WindowAssumption, ProbeAssumption DEF IInv, TypeOK, Tickets, Steps
<1>1. ASSUME NEW o \in Ops, OpStep(o) PROVE TypeOK'
  <2>1. CASE Request(o) BY <2>1 DEF Request, Goto
  <2>2. CASE Direct(o) BY <2>2 DEF Direct, Goto
  <2>3. CASE Succeed(o) BY <2>3 DEF Succeed, Goto
  <2>4. CASE Fail(o) BY <2>4 DEF Fail, Goto
  <2>5. CASE FailPermanent(o) BY <2>5 DEF FailPermanent, Goto
  <2>6. CASE NestedFail(o) BY <2>6 DEF NestedFail, Goto, FailedOperation, Notified
  <2>7. CASE GateCheck(o) BY <2>7 DEF GateCheck, Goto
  <2>8. CASE GateLock(o) BY <2>8 DEF GateLock, Goto
  <2>9. CASE GateWake(o) BY <2>9 DEF GateWake, Goto
  <2>10. CASE Acknowledge(o) BY <2>10 DEF Acknowledge, Goto, Recovered, Notified
  <2>11. CASE Register(o) BY <2>11 DEF Register, Goto, FailedOperation, Notified
  <2>12. CASE Retry(o) BY <2>12 DEF Retry, Goto, ExpireIfDue, Notified
  <2>13. CASE EndCheck(o) BY <2>13 DEF EndCheck, Goto, ExpireIfDue, Notified
  <2>14. CASE EndWake(o) BY <2>14 DEF EndWake, Goto
  <2> QED BY <1>1, <2>1, <2>2, <2>3, <2>4, <2>5, <2>6, <2>7, <2>8, <2>9, <2>10, <2>11, <2>12,
             <2>13, <2>14 DEF OpStep, Answered, Running
<1>2. CASE MonExpire BY <1>2 DEF MonExpire, ExpireIfDue, Notified
<1>3. CASE MonExit BY <1>3 DEF MonExit
<1>4. CASE MonProbe BY <1>4 DEF MonProbe
<1>5. CASE Answer
  <2>1. CASE ProbeOk BY <2>1 DEF ProbeOk, Recovered, Notified
  <2>2. CASE ProbeBad BY <2>2 DEF ProbeBad, FailedOperation, Notified
  <2>3. CASE ProbePermanent BY <2>3 DEF ProbePermanent
  <2> QED BY <1>5, <2>1, <2>2, <2>3 DEF Answer
<1>6. CASE MonDies BY <1>6 DEF MonDies
<1>7. CASE Watcher BY <1>7 DEF Watcher, BeginStop, Notified
<1>8. CASE Cancel BY <1>8 DEF Cancel, BeginStop, Notified
<1>9. CASE Finish BY <1>9 DEF Finish
<1>10. CASE Tick BY <1>10 DEF Tick
<1>11. CASE Closed \/ UNCHANGED vars BY <1>11 DEF Closed, vars
<1> QED BY <1>1, <1>2, <1>3, <1>4, <1>5, <1>6, <1>7, <1>8, <1>9, <1>10, <1>11 DEF Next

\* What an operation may have left on the server, and where its ticket is.
LEMMA AttemptsKept ==
    IInv /\ [Next]_vars => NotYetApplied' /\ UnconfirmedOnce' /\ UnresolvedHoldsGate'
<1> SUFFICES ASSUME IInv, [Next]_vars PROVE NotYetApplied' /\ UnconfirmedOnce' /\ UnresolvedHoldsGate'
    OBVIOUS
<1> DEFINE Q == NotYetApplied' /\ UnconfirmedOnce' /\ UnresolvedHoldsGate'
<1> USE ProbeAssumption
        DEF IInv, TypeOK, Tickets, Steps, NotYetApplied, UnconfirmedOnce, UnresolvedHoldsGate, Sending
<1>1. ASSUME NEW o \in Ops, OpStep(o) PROVE Q
  <2>1. CASE Request(o) BY <2>1 DEF Request, Goto
  <2>2. CASE Direct(o) BY <2>2 DEF Direct, Goto
  <2>3. CASE Succeed(o) BY <2>3 DEF Succeed, Goto
  <2>4. CASE Fail(o) BY <2>4 DEF Fail, Goto
  <2>5. CASE FailPermanent(o) BY <2>5 DEF FailPermanent, Goto
  <2>6. CASE NestedFail(o) BY <2>6 DEF NestedFail, Goto, FailedOperation
  <2>7. CASE GateCheck(o) BY <2>7 DEF GateCheck, Goto
  <2>8. CASE GateLock(o) BY <2>8 DEF GateLock, Goto
  <2>9. CASE GateWake(o) BY <2>9 DEF GateWake, Goto
  <2>10. CASE Acknowledge(o) BY <2>10 DEF Acknowledge, Goto, Recovered
  <2>11. CASE Register(o) BY <2>11 DEF Register, Goto, FailedOperation, Unconfirmed
  <2>12. CASE Retry(o) BY <2>12 DEF Retry, Goto
  <2>13. CASE EndCheck(o) BY <2>13 DEF EndCheck, Goto
  <2>14. CASE EndWake(o) BY <2>14 DEF EndWake, Goto
  <2> QED BY <1>1, <2>1, <2>2, <2>3, <2>4, <2>5, <2>6, <2>7, <2>8, <2>9, <2>10, <2>11, <2>12,
             <2>13, <2>14 DEF OpStep, Answered, Running
<1>2. CASE MonExpire BY <1>2 DEF MonExpire
<1>3. CASE MonExit BY <1>3 DEF MonExit
<1>4. CASE MonProbe BY <1>4 DEF MonProbe
<1>5. CASE Answer
  <2>1. CASE ProbeOk BY <2>1 DEF ProbeOk, Recovered
  <2>2. CASE ProbeBad BY <2>2 DEF ProbeBad, FailedOperation
  <2>3. CASE ProbePermanent BY <2>3 DEF ProbePermanent
  <2> QED BY <1>5, <2>1, <2>2, <2>3 DEF Answer
<1>6. CASE MonDies BY <1>6 DEF MonDies
<1>7. CASE Watcher BY <1>7 DEF Watcher, BeginStop
<1>8. CASE Cancel BY <1>8 DEF Cancel, BeginStop
<1>9. CASE Finish BY <1>9 DEF Finish
<1>10. CASE Tick BY <1>10 DEF Tick
<1>11. CASE Closed \/ UNCHANGED vars BY <1>11 DEF Closed, vars
<1> QED BY <1>1, <1>2, <1>3, <1>4, <1>5, <1>6, <1>7, <1>8, <1>9, <1>10, <1>11 DEF Next

\* Every event that ends a wait completes the futures that exist.
LEMMA WakeupsKept == IInv /\ [Next]_vars => NoMissedWakeup'
<1> SUFFICES ASSUME IInv, [Next]_vars PROVE NoMissedWakeup' OBVIOUS
<1> USE DEF IInv, TypeOK, Steps, NoMissedWakeup
<1>1. ASSUME NEW o \in Ops, OpStep(o) PROVE NoMissedWakeup'
  <2>1. CASE Request(o) BY <2>1 DEF Request, Goto
  <2>2. CASE Direct(o) BY <2>2 DEF Direct, Goto
  <2>3. CASE Succeed(o) BY <2>3 DEF Succeed, Goto
  <2>4. CASE Fail(o) BY <2>4 DEF Fail, Goto
  <2>5. CASE FailPermanent(o) BY <2>5 DEF FailPermanent, Goto
  <2>6. CASE NestedFail(o) BY <2>6 DEF NestedFail, Goto, FailedOperation, Notified
  <2>7. CASE GateCheck(o) BY <2>7 DEF GateCheck, Goto, StopSeen
  <2>8. CASE GateLock(o) BY <2>8 DEF GateLock, Goto
  <2>9. CASE GateWake(o) BY <2>9 DEF GateWake, Goto
  <2>10. CASE Acknowledge(o) BY <2>10 DEF Acknowledge, Goto, Recovered, Notified
  <2>11. CASE Register(o) BY <2>11 DEF Register, Goto, FailedOperation, Notified
  <2>12. CASE Retry(o) BY <2>12 DEF Retry, Goto, ExpireIfDue, Notified
  <2>13. CASE EndCheck(o) BY <2>13 DEF EndCheck, Goto, ExpireIfDue, Notified, StopSeen
  <2>14. CASE EndWake(o) BY <2>14 DEF EndWake, Goto
  <2> QED BY <1>1, <2>1, <2>2, <2>3, <2>4, <2>5, <2>6, <2>7, <2>8, <2>9, <2>10, <2>11, <2>12,
             <2>13, <2>14 DEF OpStep, Answered, Running
<1>2. CASE MonExpire BY <1>2 DEF MonExpire, ExpireIfDue, Notified
<1>3. CASE MonExit BY <1>3 DEF MonExit
<1>4. CASE MonProbe BY <1>4 DEF MonProbe
<1>5. CASE Answer
  <2>1. CASE ProbeOk BY <2>1 DEF ProbeOk, Recovered, Notified
  <2>2. CASE ProbeBad BY <2>2 DEF ProbeBad, FailedOperation, Notified
  <2>3. CASE ProbePermanent BY <2>3 DEF ProbePermanent
  <2> QED BY <1>5, <2>1, <2>2, <2>3 DEF Answer
<1>6. CASE MonDies BY <1>6 DEF MonDies
<1>7. CASE Watcher BY <1>7 DEF Watcher, BeginStop, Notified
<1>8. CASE Cancel BY <1>8 DEF Cancel, BeginStop, Notified
<1>9. CASE Finish BY <1>9 DEF Finish
<1>10. CASE Tick BY <1>10 DEF Tick
<1>11. CASE Closed \/ UNCHANGED vars BY <1>11 DEF Closed, vars
<1> QED BY <1>1, <1>2, <1>3, <1>4, <1>5, <1>6, <1>7, <1>8, <1>9, <1>10, <1>11 DEF Next

\* The inductive invariant of the recovery window.
THEOREM RecoveryInvariant == Spec => []IInv
<1>1. IInv /\ [Next]_vars => IInv'
  BY TypesKept, AttemptsKept, WakeupsKept DEF IInv
<1> QED BY InitIInv, <1>1, PTL DEF Spec

\* Types, for request(), the monitor and the scope together.
THEOREM RecoveryTypes == Spec => []TypeOK
BY RecoveryInvariant, PTL DEF IInv

\* request() never repeats a write whose outcome is unknown.
THEOREM UnconfirmedWritesAreNotReplayed == Spec => []UnconfirmedOnce
BY RecoveryInvariant, PTL DEF IInv

\* recovered() of one ticket leaves the tickets of the others where they are.
THEOREM UnresolvedOperationsHoldTheGate == Spec => []UnresolvedHoldsGate
BY RecoveryInvariant, PTL DEF IInv

\* before_request and wait_for_end miss no notification.
THEOREM GateWakeupsAreNotLost == Spec => []NoMissedWakeup
BY RecoveryInvariant, PTL DEF IInv

\* failed_operation keeps the first deadline of a window.
THEOREM DeadlineIsShared == Spec => SharedDeadline
<1>1. IInv /\ [Next]_vars => [failed # {} /\ failed' # {} => left' <= left]_vars
  <2> SUFFICES ASSUME IInv, [Next]_vars, failed # {}, failed' # {} PROVE left' <= left
      OBVIOUS
  <2> USE WindowAssumption DEF IInv, TypeOK
  <2>1. ASSUME NEW o \in Ops, OpStep(o) PROVE left' <= left
    BY <2>1 DEF OpStep, Answered, Running, Request, Direct, Succeed, Fail, FailPermanent, NestedFail,
       GateCheck, GateLock, GateWake, Acknowledge, Register, Retry, EndCheck, EndWake,
       FailedOperation, Recovered
  <2>2. CASE Answer BY <2>2 DEF Answer, ProbeOk, ProbeBad, ProbePermanent, FailedOperation, Recovered
  <2>3. CASE MonExpire \/ MonExit \/ MonProbe \/ MonDies \/ Watcher \/ Cancel \/ Finish
    BY <2>3 DEF MonExpire, MonExit, MonProbe, MonDies, Watcher, Cancel, BeginStop, Finish
  <2>4. CASE Tick BY <2>4 DEF Tick
  <2>5. CASE Closed \/ UNCHANGED vars BY <2>5 DEF Closed, vars
  <2> QED BY <2>1, <2>2, <2>3, <2>4, <2>5 DEF Next
<1> QED BY RecoveryInvariant, <1>1, PTL DEF Spec, SharedDeadline

=============================================================================
