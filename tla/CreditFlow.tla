----------------------------- MODULE CreditFlow -----------------------------
(***************************************************************************)
(* Byte credit between the two ends of one QUIC connection:                *)
(* crates/transport/src/flow_control.rs and the send path and filter task  *)
(* of crates/transport/src/quic/sender.rs.                                 *)
(*                                                                         *)
(* A task that sends a Data message first acquires the payload's bytes     *)
(* from SenderCreditState; the receiver credits the bytes its bounded      *)
(* disk-commit queue accepted, and returns them in batches of half a       *)
(* window.  Message boundaries on the two streams do not matter to the     *)
(* ledgers, so a stream is the number of bytes on it and its reader takes  *)
(* any positive part of them: every split into messages is a behaviour.    *)
(***************************************************************************)
EXTENDS Naturals

CONSTANTS
    Tasks,      \* tasks that call send() concurrently
    Window,     \* window_bytes of this connection
    Costs,      \* payload sizes of the Data messages
    MaxSends,   \* bound: calls of acquire() in one behaviour
    MaxForged,  \* bound: bytes granted without being owed (duplicates)
    Refuses,    \* TRUE when the receiver's router may refuse a payload
    Closes      \* TRUE when the connection may close

ASSUME WindowAssumption == Window \in Nat \ {0}
ASSUME CostsAssumption  == Costs \subseteq Nat \ {0}
ASSUME BoundsAssumption == MaxSends \in Nat /\ MaxForged \in Nat
ASSUME SwitchAssumption == Refuses \in BOOLEAN /\ Closes \in BOOLEAN

VARIABLES
    available,  \* SenderCreditLedger.available
    closed,     \* SenderCreditLedger.closed
    pc,         \* where each task is inside acquire()
    cost,       \* the bytes each task asks for
    woken,      \* the tasks whose Notified future was notified since enable()
    wire,       \* bytes acquired and not yet handled by the receiver
    pending,    \* ReceiverCreditState.accepted_pending
    grants,     \* bytes of CreditGrants on the AckProgress stream
    refused,    \* payload bytes the receiver dropped without crediting them
    forged,     \* bytes granted that no accepted payload is behind
    discarded,  \* sum of CreditGrantOutcome.discarded
    sends       \* calls of acquire() so far

vars == <<available, closed, pc, cost, woken, wire, pending, grants, refused,
          forged, discarded, sends>>

Lesser(a, b)  == IF a < b THEN a ELSE b
Greater(a, b) == IF a > b THEN a ELSE b

-----------------------------------------------------------------------------

\* ReceiverCreditState::new: half a window, at least one byte.
Threshold == Greater(Window \div 2, 1)

\* SenderCreditState::new starts with the whole window.
Init ==
    /\ available = Window
    /\ closed = FALSE
    /\ pc = [t \in Tasks |-> "Idle"]
    /\ cost = [t \in Tasks |-> 0]
    /\ woken = {}
    /\ wire = 0 /\ pending = 0 /\ grants = 0
    /\ refused = 0 /\ forged = 0 /\ discarded = 0 /\ sends = 0

MutNotifyWaiters == woken' = woken \cup {t \in Tasks : pc[t] = "Parked"}

\* Notify::notify_waiters wakes the futures that exist at that moment, which
\* enable() made every future after its registration.
NotifyWaiters == woken' = woken \cup {t \in Tasks : pc[t] # "Idle"}

-----------------------------------------------------------------------------
(* The sender: SenderCreditState::acquire, called from QuicSenderTransport  *)
(* ::send.  Its steps are separate because grant() and close() may run      *)
(* between any two of them.                                                 *)

\* The call, its capacity check, and the first registration.
Call(t, c) ==
    /\ pc[t] = "Idle" /\ sends < MaxSends
    /\ sends' = sends + 1
    /\ IF c > Window
         THEN UNCHANGED <<pc, cost, woken>>      \* CreditCostExceedsWindow
         ELSE /\ pc' = [pc EXCEPT ![t] = "Armed"]
              /\ cost' = [cost EXCEPT ![t] = c]
              /\ woken' = woken \ {t}
    /\ UNCHANGED <<available, closed, wire, pending, grants, refused, forged,
                   discarded>>

\* The critical section: closed, enough, or short.
Check(t) ==
    /\ pc[t] = "Armed"
    /\ \/ /\ closed                               \* Err(SendFailed)
          /\ pc' = [pc EXCEPT ![t] = "Idle"]
          /\ UNCHANGED <<available, wire>>
       \/ /\ ~closed /\ available >= cost[t]
          /\ pc' = [pc EXCEPT ![t] = "Idle"]
          /\ available' = available - cost[t]
          /\ wire' = wire + cost[t]
       \/ /\ ~closed /\ available < cost[t]
          /\ pc' = [pc EXCEPT ![t] = "Short"]
          /\ UNCHANGED <<available, wire>>
    /\ UNCHANGED <<closed, cost, woken, pending, grants, refused, forged,
                   discarded, sends>>

\* The lock is released; the task reaches notified.await.
Park(t) ==
    /\ pc[t] = "Short"
    /\ pc' = [pc EXCEPT ![t] = "Parked"]
    /\ UNCHANGED <<available, closed, cost, woken, wire, pending, grants,
                   refused, forged, discarded, sends>>

\* The await returns; the loop registers again before it looks again.
Rearm(t) ==
    /\ pc[t] = "Parked" /\ t \in woken
    /\ pc' = [pc EXCEPT ![t] = "Armed"]
    /\ woken' = woken \ {t}
    /\ UNCHANGED <<available, closed, cost, wire, pending, grants, refused,
                   forged, discarded, sends>>

\* The filter task applies a CreditGrant, truncated to the capacity, whether
\* or not anyone is in recv().
ApplyGrant ==
    \E g \in 1..grants :
        LET applied == Lesser(g, Window - available) IN
        /\ grants' = grants - g
        /\ available' = available + applied
        /\ discarded' = discarded + (g - applied)
        /\ NotifyWaiters
        /\ UNCHANGED <<closed, pc, cost, wire, pending, refused, forged, sends>>

\* SenderCreditState::close, from the end of the filter task, from the
\* transport's close() or from its Drop.
Close ==
    /\ Closes /\ ~closed
    /\ closed' = TRUE
    /\ NotifyWaiters
    /\ UNCHANGED <<available, pc, cost, wire, pending, grants, refused, forged,
                   discarded, sends>>

-----------------------------------------------------------------------------
(* The receiver: ReceiverCreditState.                                       *)

MutAccept ==
    \E c \in 1..wire :
        /\ wire' = wire - c
        /\ IF pending + c < Threshold
             THEN pending' = pending + c /\ UNCHANGED grants
             ELSE grants' = grants + pending + c /\ UNCHANGED pending
        /\ UNCHANGED <<available, closed, pc, cost, woken, refused, forged,
                       discarded, sends>>

MutAcceptLate ==
    \E c \in 1..wire :
        /\ wire' = wire - c
        /\ IF pending + c <= Threshold
             THEN pending' = pending + c /\ UNCHANGED grants
             ELSE grants' = grants + pending + c /\ pending' = 0
        /\ UNCHANGED <<available, closed, pc, cost, woken, refused, forged,
                       discarded, sends>>

\* accepted(): bytes the disk-commit queue took, granted at the threshold.
Accept ==
    \E c \in 1..wire :
        /\ wire' = wire - c
        /\ IF pending + c < Threshold
             THEN pending' = pending + c /\ UNCHANGED grants
             ELSE grants' = grants + pending + c /\ pending' = 0
        /\ UNCHANGED <<available, closed, pc, cost, woken, refused, forged,
                       discarded, sends>>

\* accept_full_chunk / accept_delta_data returning Ok(false): the payload is
\* dropped and nothing is credited.
Refuse ==
    \E c \in 1..wire :
        /\ Refuses
        /\ wire' = wire - c
        /\ refused' = refused + c
        /\ UNCHANGED <<available, closed, pc, cost, woken, pending, grants,
                       forged, discarded, sends>>

\* flush(): the end of one remote expert transfer returns what is pending.
Flush ==
    /\ pending > 0
    /\ grants' = grants + pending
    /\ pending' = 0
    /\ UNCHANGED <<available, closed, pc, cost, woken, wire, refused, forged,
                   discarded, sends>>

\* A grant nothing is owed for (a duplicate, or a peer that miscounts).
ForgeGrant ==
    \E b \in 1..(MaxForged - forged) :
        /\ grants' = grants + b
        /\ forged' = forged + b
        /\ UNCHANGED <<available, closed, pc, cost, woken, wire, pending,
                       refused, discarded, sends>>

-----------------------------------------------------------------------------

Acquire(t) == Check(t) \/ Park(t) \/ Rearm(t)

Next ==
    \/ \E t \in Tasks : \/ \E c \in Costs : Call(t, c)
                        \/ Acquire(t)
    \/ ApplyGrant \/ Close
    \/ Accept \/ Refuse \/ Flush \/ ForgeGrant

Spec == Init /\ [][Next]_vars

\* The runtime polls every task that can run, the filter task and the receive
\* loop included; closing, flushing, refusing and miscounting are not promised.
FairSpec ==
    /\ Spec
    /\ \A t \in Tasks : WF_vars(Acquire(t))
    /\ WF_vars(ApplyGrant)
    /\ WF_vars(Accept)

-----------------------------------------------------------------------------
(* Properties                                                               *)

\* Every variable stays within its type; the balance never leaves the window,
\* so outstanding = Window - available is in 0..Window as the module
\* documentation of flow_control.rs promises.
TypeOK ==
    /\ available \in 0..Window
    /\ closed \in BOOLEAN
    /\ pc \in [Tasks -> {"Idle", "Armed", "Short", "Parked"}]
    /\ cost \in [Tasks -> 0..Window]
    /\ woken \subseteq Tasks
    /\ wire \in Nat /\ pending \in Nat /\ grants \in Nat
    /\ refused \in Nat /\ forged \in Nat /\ discarded \in Nat /\ sends \in Nat

\* No credit is created or lost by the two ledgers and the streams between
\* them: every byte of the window is available, on the wire, accepted, on its
\* way back, or was refused; forged grants are all that may exceed it.
CreditConserved ==
    available + wire + pending + grants + refused + discarded = Window + forged

\* What the receiver has not yet consumed fits in the window, plus whatever
\* the peer granted without owing it: the bound on the unbounded fan-in
\* channel that quic/mux.rs relies on.
BacklogBounded == wire + pending <= Window + forged

\* The receiver never sits on half a window: whatever it has accepted and not
\* yet granted is below the threshold.
PendingBelowThreshold == pending < Threshold

\* Truncation in grant() only ever takes bytes that were not owed: a grant for
\* accepted payload is applied in full.
OwedCreditNeverDiscarded == discarded <= forged

\* A task that found the balance short, and that nobody has notified since it
\* registered, is right to wait: the balance is still short and the window is
\* open.  This is what enable() before the check is for.
NoLostWakeup ==
    \A t \in Tasks :
        pc[t] \in {"Short", "Parked"} /\ t \notin woken
            => ~closed /\ available < cost[t]

\* A cost that withheld grants can strand: accepted() keeps up to a byte less
\* than the threshold to itself, while acquire() admits costs up to a whole
\* window.
Strandable(c) == c > Window - (Threshold - 1)

\* The delayed grant never strands a sender: once the receiver has accepted
\* everything and every grant has been applied, a task still short of credit
\* asked for more than the window less the largest amount that may stay
\* pending below the threshold.
NoStrandedSender ==
    wire = 0 /\ grants = 0 /\ refused = 0
        => \A t \in Tasks :
              pc[t] \in {"Short", "Parked"} /\ t \notin woken
                  => Strandable(cost[t])

\* acquire() returns, admitted or with the error of a closed window, however
\* the other tasks, the grants and the close fall between its steps.  The code
\* has two exceptions: the receiver has dropped payload without accounting for
\* it, or the cost is so large that the grants withheld below the threshold
\* leave the balance short of it.
AcquireReturns ==
    \A t \in Tasks :
        (pc[t] # "Idle")
            ~> (pc[t] = "Idle" \/ refused > 0 \/ Strandable(cost[t]))

=============================================================================
