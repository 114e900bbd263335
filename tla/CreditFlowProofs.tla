-------------------------- MODULE CreditFlowProofs --------------------------
(***************************************************************************)
(* The safety properties of CreditFlow for every window, every set of      *)
(* sending tasks and every set of payload sizes.                           *)
(***************************************************************************)
EXTENDS CreditFlow, TLAPS

\* Half a window is at least one byte and at most the whole window.
LEMMA ThresholdRange == Threshold \in 1..Window
  BY WindowAssumption DEF Threshold, Greater

\* The inductive invariant.  The exact account of the bytes is what makes the
\* bounds inductive: a grant that fits the account also fits the window.
IInv ==
    /\ TypeOK
    /\ CreditConserved
    /\ OwedCreditNeverDiscarded
    /\ PendingBelowThreshold
    /\ NoLostWakeup

\* A fresh connection, with its full window and no waiter, satisfies it.
LEMMA InitIInv == Init => IInv
  <1> SUFFICES ASSUME Init PROVE IInv
    OBVIOUS
  <1> USE WindowAssumption DEF Init
  <1>1. TypeOK
    <2>1. closed \in BOOLEAN
      OBVIOUS
    <2>2. cost \in [Tasks -> 0..Window]
      <3>1. 0 \in 0..Window
        OBVIOUS
      <3> QED
        BY <3>1
    <2> QED
      BY <2>1, <2>2 DEF TypeOK
  <1>2. CreditConserved
    BY DEF CreditConserved
  <1>3. OwedCreditNeverDiscarded
    BY DEF OwedCreditNeverDiscarded
  <1>4. PendingBelowThreshold
    BY ThresholdRange DEF PendingBelowThreshold
  <1>5. NoLostWakeup
    BY DEF NoLostWakeup
  <1> QED
    BY <1>1, <1>2, <1>3, <1>4, <1>5 DEF IInv

\* Every step of the sender's tasks, of the filter task, of the receiver and
\* of a miscounting peer preserves it.
LEMMA NextIInv == IInv /\ [Next]_vars => IInv'
  <1> SUFFICES ASSUME IInv, [Next]_vars PROVE IInv'
    OBVIOUS
  <1> USE WindowAssumption, CostsAssumption, BoundsAssumption
  <1> USE DEF IInv, TypeOK, CreditConserved, OwedCreditNeverDiscarded,
              PendingBelowThreshold, NoLostWakeup
  <1>1. ASSUME NEW t \in Tasks, NEW c \in Costs, Call(t, c) PROVE IInv'
    <2>1. TypeOK'
      BY <1>1 DEF Call
    <2>2. /\ CreditConserved' /\ OwedCreditNeverDiscarded'
          /\ PendingBelowThreshold'
      BY <1>1 DEF Call, Threshold
    <2>3. NoLostWakeup'
      BY <1>1 DEF Call
    <2> QED
      BY <2>1, <2>2, <2>3
  <1>2. ASSUME NEW t \in Tasks, Check(t) PROVE IInv'
    <2>1. CASE closed
      BY <1>2, <2>1 DEF Check, Threshold
    <2>2. CASE ~closed /\ available >= cost[t]
      <3>1. /\ available' = available - cost[t] /\ wire' = wire + cost[t]
            /\ pc' = [pc EXCEPT ![t] = "Idle"]
            /\ UNCHANGED <<closed, cost, woken, pending, grants, refused,
                           forged, discarded, sends>>
        BY <1>2, <2>2 DEF Check
      <3>2. cost[t] \in 0..Window
        OBVIOUS
      <3>3. TypeOK'
        BY <2>2, <3>1, <3>2
      <3>4. /\ CreditConserved' /\ OwedCreditNeverDiscarded'
            /\ PendingBelowThreshold'
        BY <2>2, <3>1, <3>2 DEF Threshold
      <3>5. NoLostWakeup'
        BY <2>2, <3>1, <3>2
      <3> QED
        BY <3>3, <3>4, <3>5
    <2>3. CASE ~closed /\ available < cost[t]
      BY <1>2, <2>3 DEF Check, Threshold
    <2> QED
      BY <1>2, <2>1, <2>2, <2>3 DEF Check
  <1>3. ASSUME NEW t \in Tasks, Park(t) PROVE IInv'
    BY <1>3 DEF Park, Threshold
  <1>4. ASSUME NEW t \in Tasks, Rearm(t) PROVE IInv'
    BY <1>4 DEF Rearm, Threshold
  <1>5. CASE ApplyGrant
    <2>1. PICK g \in 1..grants :
            /\ grants' = grants - g
            /\ available' = available + Lesser(g, Window - available)
            /\ discarded' = discarded + (g - Lesser(g, Window - available))
            /\ NotifyWaiters
            /\ UNCHANGED <<closed, pc, cost, wire, pending, refused, forged,
                           sends>>
      BY <1>5 DEF ApplyGrant
    <2>2. Lesser(g, Window - available) \in 0..g
          /\ Lesser(g, Window - available) <= Window - available
      BY DEF Lesser
    <2>3. woken' \subseteq Tasks
      BY <2>1 DEF NotifyWaiters
    <2>4. TypeOK'
      BY <2>1, <2>2, <2>3
    <2>5. CreditConserved' /\ PendingBelowThreshold'
      BY <2>1, <2>2 DEF Threshold
    <2>6. OwedCreditNeverDiscarded'
      <3>1. CASE g <= Window - available
        BY <2>1, <3>1 DEF Lesser
      <3>2. CASE g > Window - available
        <4>1. available' = Window
          BY <2>1, <3>2 DEF Lesser
        <4> QED
          BY <2>4, <2>5, <4>1
      <3> QED
        BY <3>1, <3>2
    <2>7. NoLostWakeup'
      BY <2>1 DEF NotifyWaiters
    <2> QED
      BY <2>4, <2>5, <2>6, <2>7
  <1>6. CASE Close
    <2>1. woken' \subseteq Tasks /\ NoLostWakeup'
      BY <1>6 DEF Close, NotifyWaiters
    <2> QED
      BY <1>6, <2>1 DEF Close, Threshold
  <1>7. CASE Accept
    <2>1. PICK c \in 1..wire :
            /\ wire' = wire - c
            /\ IF pending + c < Threshold
                 THEN pending' = pending + c /\ UNCHANGED grants
                 ELSE grants' = grants + pending + c /\ pending' = 0
            /\ UNCHANGED <<available, closed, pc, cost, woken, refused,
                           forged, discarded, sends>>
      BY <1>7 DEF Accept
    <2>2. Threshold' = Threshold /\ Threshold \in 1..Window
      BY ThresholdRange DEF Threshold
    <2> QED
      BY <2>1, <2>2
  <1>8. CASE Refuse
    BY <1>8 DEF Refuse, Threshold
  <1>9. CASE Flush
    <2>1. Threshold' = Threshold /\ Threshold \in 1..Window
      BY ThresholdRange DEF Threshold
    <2> QED
      BY <1>9, <2>1 DEF Flush
  <1>10. CASE ForgeGrant
    BY <1>10 DEF ForgeGrant, Threshold
  <1>11. CASE UNCHANGED vars
    BY <1>11 DEF vars, Threshold
  <1> QED
    BY <1>1, <1>2, <1>3, <1>4, <1>5, <1>6, <1>7, <1>8, <1>9, <1>10, <1>11
       DEF Next, Acquire

\* The invariant holds throughout every connection.
THEOREM CreditInvariant == Spec => []IInv
  BY InitIInv, NextIInv, PTL DEF Spec

\* Types, and with them the documented bound outstanding \in 0..Window.
THEOREM CreditTypes == Spec => []TypeOK
  <1>1. IInv => TypeOK
    BY DEF IInv
  <1> QED
    BY <1>1, CreditInvariant, PTL

\* The two ledgers and the streams between them neither create nor lose
\* credit, for every window and however the messages interleave.
THEOREM CreditIsConserved == Spec => []CreditConserved
  <1>1. IInv => CreditConserved
    BY DEF IInv
  <1> QED
    BY <1>1, CreditInvariant, PTL

\* The receiver's unconsumed backlog is bounded by the window.
THEOREM BacklogIsBounded == Spec => []BacklogBounded
  <1>1. IInv => BacklogBounded
    BY WindowAssumption
       DEF IInv, TypeOK, CreditConserved, OwedCreditNeverDiscarded,
           BacklogBounded
  <1> QED
    BY <1>1, CreditInvariant, PTL

\* A grant for accepted payload is never truncated.
THEOREM OwedCreditIsApplied == Spec => []OwedCreditNeverDiscarded
  <1>1. IInv => OwedCreditNeverDiscarded
    BY DEF IInv
  <1> QED
    BY <1>1, CreditInvariant, PTL

\* Registering before the check loses no wakeup, for any number of waiters.
THEOREM WakeupsAreNotLost == Spec => []NoLostWakeup
  <1>1. IInv => NoLostWakeup
    BY DEF IInv
  <1> QED
    BY <1>1, CreditInvariant, PTL

\* Half-window batching strands only payloads larger than the window less the
\* largest amount that may stay pending.
THEOREM SendersAreNotStranded == Spec => []NoStrandedSender
  <1>1. IInv => NoStrandedSender
    <2> SUFFICES ASSUME IInv, wire = 0, grants = 0, refused = 0,
                        NEW t \in Tasks,
                        pc[t] \in {"Short", "Parked"}, t \notin woken
                 PROVE  cost[t] > Window - (Threshold - 1)
      BY DEF NoStrandedSender, Strandable
    <2>1. available < cost[t] /\ cost[t] \in 0..Window
      BY DEF IInv, NoLostWakeup, TypeOK
    <2>2. available >= Window - pending
      BY WindowAssumption
         DEF IInv, TypeOK, CreditConserved, OwedCreditNeverDiscarded
    <2>3. pending <= Threshold - 1 /\ Threshold \in 1..Window
      BY ThresholdRange DEF IInv, TypeOK, PendingBelowThreshold
    <2> QED
      BY <2>1, <2>2, <2>3, WindowAssumption DEF IInv, TypeOK
  <1> QED
    BY <1>1, CreditInvariant, PTL

=============================================================================
