---------------------------- MODULE SyncContract ----------------------------
(***************************************************************************)
(* What a synchronisation session promises about every entry it is asked   *)
(* to look at, whatever transport, queues and tasks it is made of: each    *)
(* entry is classified once, an entry that needs its data ends in exactly  *)
(* one verdict, and the session calls itself complete only when no entry   *)
(* is left open.  One exception is allowed, because the code has it: what  *)
(* is announced before the session has begun to classify may be lost.      *)
(***************************************************************************)
CONSTANT Entries

VARIABLES
    verdict,    \* what the session has decided about each entry
    report      \* "open", "complete" or "aborted"

Final == {"left", "success", "error", "overlooked"}

Init ==
    /\ verdict = [n \in Entries |-> "unseen"]
    /\ report = "open"

\* Entries announced too early go unnoticed, but only before the first of
\* them is classified.
Overlook ==
    /\ report = "open"
    /\ \A n \in Entries : verdict[n] \in {"unseen", "overlooked"}
    /\ \E S \in SUBSET Entries :
         verdict' = [n \in Entries |-> IF n \in S THEN "overlooked" ELSE verdict[n]]
    /\ UNCHANGED report

\* Some entries are compared with the destination: left alone, queued for
\* transfer, or failed on the spot.
Classify ==
    /\ report = "open"
    /\ \E S \in SUBSET {n \in Entries : verdict[n] = "unseen"} :
         \E f \in [S -> {"left", "pending", "error"}] :
           verdict' = [n \in Entries |-> IF n \in S THEN f[n] ELSE verdict[n]]
    /\ UNCHANGED report

\* The session may be called complete only with every entry decided.
MayComplete(v) == report = "open" /\ \A n \in Entries : v[n] \in Final

\* A pending entry gets its verdict; the last one may end the session.
Settle ==
    \E n \in Entries, v \in {"success", "error"} :
        /\ report # "complete" /\ verdict[n] = "pending"
        /\ verdict' = [verdict EXCEPT ![n] = v]
        /\ \/ UNCHANGED report
           \/ MayComplete(verdict') /\ report' = "complete"

Complete ==
    /\ MayComplete(verdict)
    /\ report' = "complete"
    /\ UNCHANGED verdict

Abandon ==
    /\ report = "open"
    /\ report' = "aborted"
    /\ UNCHANGED verdict

Next == Overlook \/ Classify \/ Settle \/ Complete \/ Abandon

Spec == Init /\ [][Next]_<<verdict, report>>

=============================================================================
