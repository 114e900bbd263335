---------------------------- MODULE RemoteSession ----------------------------
(***************************************************************************)
(* One two-process synchronisation session, after handshake and token      *)
(* check: the remote sender session (crates/app/src/remote_sync/           *)
(* remote_sender_session.rs), the receiver's loop and session state        *)
(* (receiver.rs, remote_receiver_session.rs), the disk-commit task         *)
(* (disk_commit.rs, file_commit.rs) and the QUIC streams between them      *)
(* (transport/src/quic/mux.rs).                                            *)
(*                                                                         *)
(* Each stream is FIFO; the two ends read the streams they share in any    *)
(* interleaving, which is what the reader tasks and the fan-in channel do. *)
(* CreditGrants are consumed by the transport's filter task, so they are a *)
(* counter of their own and not messages of the AckProgress stream.  One   *)
(* FileData or DeltaData message costs one unit of credit.  Statistics,    *)
(* QoS, ACLs, directory creation and orphan deletion are left out; so are  *)
(* Progress snapshots, which no transition depends on.                     *)
(***************************************************************************)
EXTENDS Naturals, Sequences, FiniteSets, Functions

CONSTANTS
    Ndx,        \* entry numbers
    Pages,      \* the directory pages in walk order, sets of entries
    Choices,    \* what each entry may turn out to be, and the classification
                \* the destination leads to
    Chunks,     \* numbers of data messages a file may take
    Window,     \* the credit window, in data messages
    DcCap,      \* capacity of the disk-commit queue (16 in the code)
    Faults      \* what may go wrong in this instance

AllFaults == {"open", "read", "listing", "dest", "begin", "basis", "mismatch",
              "commit", "link", "lose", "overtake"}

\* A file is left alone, fails with its attributes, or is wanted in full or as
\* a delta; a wanted entry may also be a symbolic link or, on a versioned
\* store, a delete marker.
Classes == {"skip", "metaFailed", "full", "delta", "link", "marker"}

ASSUME NdxAssumption    == Ndx \subseteq Nat \ {0} /\ IsFiniteSet(Ndx)
\* Entries are numbered as the walk finds them: each is on one page.
ASSUME PagesAssumption  ==
    /\ Pages \in Seq(SUBSET Ndx)
    /\ \A n \in Ndx : \E i \in 1..Len(Pages) : n \in Pages[i]
    /\ \A i, j \in 1..Len(Pages) : i # j => Pages[i] \cap Pages[j] = {}
ASSUME ChoiceAssumption == Choices \in [Ndx -> SUBSET Classes]
ASSUME BoundAssumption  == /\ Chunks \subseteq Nat /\ Window \in Nat \ {0}
                           /\ DcCap \in Nat \ {0}
ASSUME FaultAssumption  == Faults \subseteq AllFaults

VARIABLES
    \* the connection and its streams
    conn,       \* the QUIC connection is up
    ctl, list, data,    \* sender to receiver: Control, FileList, Data
    back, acks,         \* receiver to sender: FileList, AckProgress
    grants,             \* credit on its way back
    \* the sender
    sPhase,     \* RemoteSenderSessionLifecycle
    advPos,     \* walk events advertised so far
    job,        \* the transfer process_requests_and_acks is inside of
    credit,     \* the available balance of the credit window
    errored,    \* SenderSessionLedger.errored_ndx
    sError, sSuccess,   \* error_count and success_count
    completedPaths,     \* the set behind the remote checkpoint
    reported,   \* entries whose classification or error reached the sender
    \* the receiver's loop
    rPhase,     \* where receiver_task_remote is
    decision,   \* the classification of each entry, "none" before its page,
                \* "lost" when its page was discarded (history)
    requested, completed, doneSeen, terminated,    \* TransferLedger
    outcome,    \* the terminal recorded for each entry (history)
    active,     \* ActiveTransfer
    attempts,   \* mismatches seen per entry
    toDisk,     \* commands the loop is blocked on handing to disk commit
    pending,    \* ReceiverCreditState.accepted_pending
    \* the disk-commit task
    dcq,        \* its bounded command queue
    dc,         \* FileCommitState
    dcAcks,     \* its unbounded outcome channel
    published,  \* entries whose content is durable at the destination
    dcRunning   \* the task has not ended

net      == <<ctl, list, data, back, acks>>
sLedger  == <<errored, sError, sSuccess, completedPaths, reported>>
sender   == <<sPhase, advPos, job, sLedger>>
rLedger  == <<requested, completed, doneSeen, terminated, outcome>>
receiver == <<rPhase, decision, rLedger, active, attempts, toDisk, pending>>
disk     == <<dcq, dc, dcAcks, published, dcRunning>>
vars     == <<conn, net, grants, credit, sender, receiver, disk>>

-----------------------------------------------------------------------------
(* Messages, and small helpers                                              *)

Msg(t, n)       == [type |-> t, n |-> n, k |-> 0]
MsgK(t, n, k)   == [type |-> t, n |-> n, k |-> k]
\* A command to the disk-commit task, and what it reports.
Command(c, n, k) == [type |-> c, n |-> n, k |-> k]
Outcome(n, o)   == [type |-> o, n |-> n, k |-> 0]
Is(q, t)        == q # <<>> /\ Head(q).type = t

NoJob           == [n |-> 0, mode |-> "none", left |-> 0, total |-> 0]
Idle            == [mode |-> "idle", n |-> 0]
DcIdle          == [st |-> "idle", n |-> 0, got |-> 0]

Threshold       == IF Window \div 2 > 1 THEN Window \div 2 ELSE 1

\* A send on a connection that is gone is lost ("let _ = transport.send(..)").
Sent(q, m)      == IF conn THEN Append(q, m) ELSE q

Open            == sPhase \in {"RequestsOpen", "TransferDoneSent"}

Init ==
    /\ conn = TRUE
    /\ ctl = <<Msg("SessionConfig", 0)>>
    /\ list = <<>> /\ data = <<>> /\ back = <<>> /\ acks = <<>>
    /\ grants = 0 /\ credit = Window
    /\ sPhase = "RequestsOpen" /\ advPos = 0 /\ job = NoJob
    /\ errored = {} /\ sError = 0 /\ sSuccess = 0
    /\ completedPaths = {} /\ reported = {}
    /\ rPhase = "Config"
    /\ decision = [n \in Ndx |-> "none"]
    /\ requested = 0 /\ completed = 0 /\ doneSeen = FALSE
    /\ terminated = {}
    /\ outcome = [n \in Ndx |-> "none"]
    /\ active = Idle
    /\ attempts = [n \in Ndx |-> 0]
    /\ toDisk = <<>> /\ pending = 0
    /\ dcq = <<>> /\ dc = DcIdle /\ dcAcks = <<>> /\ published = {}
    /\ dcRunning = TRUE

-----------------------------------------------------------------------------
(* The sender.  advertise_file_list and process_requests_and_acks run       *)
(* concurrently; the second is one task that is either inside a transfer    *)
(* (job) or at its recv().                                                  *)

\* The next walk event: a page, a listing error in its place, or the end.
Advertise ==
    /\ Open /\ conn /\ advPos <= Len(Pages)
    /\ advPos' = advPos + 1
    /\ \/ /\ advPos < Len(Pages)
          /\ list' = Append(list, Msg("FilePage", advPos + 1))
       \/ /\ advPos < Len(Pages) /\ "listing" \in Faults
          /\ list' = Append(list, Msg("FileListError", advPos + 1))
       \/ /\ advPos = Len(Pages)
          /\ list' = Append(list, Msg("FileListDone", 0))
    /\ UNCHANGED <<conn, ctl, data, back, acks, grants, credit, sPhase, job,
                   sLedger, receiver, disk>>

MutRecordIndexedError(n) ==
    errored' = errored \cup {n} /\ sError' = sError + 1

\* SenderSessionLedger::record_indexed_error counts an entry once.
RecordIndexedError(n) ==
    IF n \in errored
      THEN UNCHANGED <<errored, sError>>
      ELSE errored' = errored \cup {n} /\ sError' = sError + 1

\* What the requested entry is.
Kind(n) == IF decision[n] \in {"link", "marker"} THEN decision[n] ELSE "file"

\* send_full_transfer and send_delta_transfer up to their first data message,
\* or the EntryError of a source that cannot be opened.
StartTransfer(n, mode) ==
    \/ /\ "open" \in Faults /\ Kind(n) # "marker"
       /\ ctl' = Append(ctl, Msg("EntryError", n))
       /\ RecordIndexedError(n)
       /\ UNCHANGED <<data, job>>
    \/ /\ data' = CASE Kind(n) = "marker" -> Append(data, Msg("WriteDeleteMarker", n))
                    [] Kind(n) = "link"   -> Append(data, Msg("CreateSymlink", n))
                    [] Kind(n) = "file" /\ mode = "full"
                                          -> Append(data, Msg("FileBegin", n))
                    [] OTHER              -> data
       /\ IF Kind(n) = "file"
            THEN \E k \in Chunks :
                    job' = [n |-> n, mode |-> mode, left |-> k, total |-> k]
            ELSE UNCHANGED job
       /\ UNCHANGED <<ctl, errored, sError>>

AtRecv == Open /\ conn /\ job = NoJob

\* record_classification: the entry shows up in the sender's statistics.
RecordClassification(n) == reported' = reported \cup {n}

\* TransferRequest and DeltaTransferRequest.
SRequest ==
    /\ AtRecv /\ Is(back, "TransferRequest")
    /\ LET n == Head(back).n IN
         /\ RecordClassification(n)
         /\ StartTransfer(n, IF Head(back).k = 1 THEN "delta" ELSE "full")
    /\ back' = Tail(back)
    /\ UNCHANGED <<conn, list, acks, grants, credit, sPhase, advPos, sSuccess,
                   completedPaths, receiver, disk>>

\* ClassifiedObservation.
SClassified ==
    /\ AtRecv /\ Is(back, "Classified")
    /\ RecordClassification(Head(back).n)
    /\ back' = Tail(back)
    /\ UNCHANGED <<conn, ctl, list, data, acks, grants, credit, sPhase, advPos,
                   job, errored, sError, sSuccess, completedPaths, receiver, disk>>

SRequestsDone ==
    /\ AtRecv /\ Is(back, "RequestsDone")
    /\ back' = Tail(back)
    /\ IF sPhase = "TransferDoneSent"
         THEN UNCHANGED <<ctl, sPhase>>
         ELSE /\ ctl' = Append(ctl, Msg("TransferDone", 0))
              /\ sPhase' = "TransferDoneSent"
    /\ UNCHANGED <<conn, list, data, acks, grants, credit, advPos, job, sLedger,
                   receiver, disk>>

SRedo ==
    /\ AtRecv /\ Is(acks, "Redo")
    /\ StartTransfer(Head(acks).n, "full")
    /\ acks' = Tail(acks)
    /\ UNCHANGED <<conn, list, back, grants, credit, sPhase, advPos, sSuccess,
                   completedPaths, reported, receiver, disk>>

\* Success and EntrySuccess: record_success_and_checkpoint.
SSuccess ==
    /\ AtRecv /\ Is(acks, "Success")
    /\ sSuccess' = sSuccess + 1
    /\ completedPaths' = completedPaths \cup {Head(acks).n}
    /\ acks' = Tail(acks)
    /\ UNCHANGED <<conn, ctl, list, data, back, grants, credit, sPhase, advPos,
                   job, errored, sError, reported, receiver, disk>>

\* EntryError, which carries no ndx: counted without deduplication.
SEntryError ==
    /\ AtRecv /\ Is(acks, "EntryError")
    /\ sError' = sError + 1
    /\ reported' = reported \cup {Head(acks).n}
    /\ acks' = Tail(acks)
    /\ UNCHANGED <<conn, ctl, list, data, back, grants, credit, sPhase, advPos,
                   job, errored, sSuccess, completedPaths, receiver, disk>>

SError ==
    /\ AtRecv /\ Is(acks, "Error")
    /\ RecordIndexedError(Head(acks).n)
    /\ acks' = Tail(acks)
    /\ UNCHANGED <<conn, ctl, list, data, back, grants, credit, sPhase, advPos,
                   job, sSuccess, completedPaths, reported, receiver, disk>>

\* AllDone ends the session; before TransferDone it is a protocol error.
SAllDone ==
    /\ AtRecv /\ Is(acks, "AllDone")
    /\ sPhase' = IF sPhase = "TransferDoneSent" THEN "Completed" ELSE "Failed"
    /\ conn' = FALSE
    /\ ctl' = <<>> /\ list' = <<>> /\ data' = <<>> /\ back' = <<>> /\ acks' = <<>>
    /\ grants' = 0
    /\ UNCHANGED <<credit, advPos, job, sLedger, receiver, disk>>

\* One payload message.  A delta token may be a match, which costs no credit;
\* otherwise send() waits inside acquire() until the balance allows it.
SChunk ==
    /\ Open /\ conn /\ job # NoJob /\ job.left > 0
    /\ \/ /\ credit > 0
          /\ credit' = credit - 1
          /\ data' = Append(data, Msg(IF job.mode = "full" THEN "FileData"
                                                           ELSE "DeltaData", job.n))
       \/ /\ job.mode = "delta"
          /\ data' = Append(data, Msg("DeltaMatch", job.n))
          /\ UNCHANGED credit
    /\ job' = [job EXCEPT !.left = @ - 1]
    /\ UNCHANGED <<conn, ctl, list, back, acks, grants, sPhase, advPos, sLedger,
                   receiver, disk>>

\* The source ended and gave its digest: EndOfFile.
SEndOfFile ==
    /\ Open /\ conn /\ job # NoJob /\ job.left = 0
    /\ data' = Append(data, MsgK("EndOfFile", job.n, job.total))
    /\ job' = NoJob
    /\ UNCHANGED <<conn, ctl, list, back, acks, grants, credit, sPhase, advPos,
                   sLedger, receiver, disk>>

\* A read or the digest failed after the transfer began: EntryError overtakes
\* the payload, since it travels on Control.
SSourceFails ==
    /\ "read" \in Faults
    /\ Open /\ conn /\ job # NoJob
    /\ ctl' = Append(ctl, Msg("EntryError", job.n))
    /\ RecordIndexedError(job.n)
    /\ job' = NoJob
    /\ UNCHANGED <<conn, list, data, back, acks, grants, credit, sPhase, advPos,
                   sSuccess, completedPaths, reported, receiver, disk>>

\* The connection is gone: recv() returns None, or a send fails, the one that
\* waits for credit included, because the filter task closes the window.
SConnectionLost ==
    /\ Open /\ ~conn
    /\ sPhase' = "Failed"
    /\ UNCHANGED <<conn, net, grants, credit, advPos, job, sLedger, receiver, disk>>

MutFilterGrant ==
    /\ grants > 0 /\ AtRecv
    /\ credit' = IF credit + grants > Window THEN Window ELSE credit + grants
    /\ grants' = 0
    /\ UNCHANGED <<conn, net, sender, receiver, disk>>

\* The credit-grant filter task, which no caller of recv() has to help.
FilterGrant ==
    /\ grants > 0
    /\ credit' = IF credit + grants > Window THEN Window ELSE credit + grants
    /\ grants' = 0
    /\ UNCHANGED <<conn, net, sender, receiver, disk>>

-----------------------------------------------------------------------------
(* The receiver's loop: one task.  While it is blocked on the disk-commit   *)
(* queue (toDisk) it reads neither messages nor outcomes.                   *)

MutIsComplete(done, comp, req)   == done

\* TransferLedger::is_complete.
IsComplete(done, comp, req) == done /\ comp >= req

\* The loop breaks once every request is settled after TransferDone.
Advance(done, comp, req, cmds) ==
    IF IsComplete(done, comp, req)
      THEN /\ rPhase' = "Drain"
           /\ toDisk' = Append(cmds, Command("Shutdown", 0, 0))
      ELSE /\ rPhase' = "Loop"
           /\ toDisk' = cmds

\* The entries a message of the FileList stream stands for: those of the page,
\* or of the directory that could not be listed.
Listed(m) == IF m.type = "FileListDone" THEN {} ELSE Pages[m.n]

\* recv_session_config: waits for the configuration and discards anything
\* else, including pages of the FileList stream that arrive before it.
RConfig ==
    /\ rPhase = "Config" /\ conn
    /\ \/ /\ Is(ctl, "SessionConfig")
          /\ ctl' = Tail(ctl) /\ rPhase' = "Loop" /\ UNCHANGED <<list, decision>>
       \/ /\ "overtake" \in Faults /\ list # <<>>
          /\ list' = Tail(list)
          /\ decision' = [n \in Ndx |-> IF n \in Listed(Head(list)) THEN "lost"
                                                               ELSE decision[n]]
          /\ UNCHANGED <<ctl, rPhase>>
    /\ UNCHANGED <<conn, data, back, acks, grants, credit, sender, rLedger,
                   active, attempts, toDisk, pending, disk>>

AtSelect == rPhase = "Loop" /\ toDisk = <<>>

\* The requests, and the confirmations, one page leads to.
Wanted(d)      == d \in {"full", "delta", "link", "marker"}
Reply(n, d)    == IF Wanted(d)
                    THEN MsgK("TransferRequest", n, IF d = "delta" THEN 1 ELSE 0)
                    ELSE Msg("Classified", n)
Orders(S)      == Bijection(1..Cardinality(S), S)
InOrder(o, ch) == [i \in 1..Len(o) |-> Reply(o[i], ch[o[i]])]
Errors(o)      == [i \in 1..Len(o) |-> Msg("EntryError", o[i])]

\* A page: index it, read the destination directory, classify every entry.  The
\* order of the entries on the page does not matter.
RPage ==
    /\ AtSelect /\ conn /\ Is(list, "FilePage")
    /\ list' = Tail(list)
    /\ LET p == Pages[Head(list).n] IN
         \E ch \in [p -> Classes] :
           LET bad == {n \in p : ch[n] = "metaFailed"} IN
           /\ \A n \in p : ch[n] \in Choices[n]
           /\ decision' = [n \in Ndx |-> IF n \in p THEN ch[n] ELSE decision[n]]
           /\ \E o \in Orders(p \ bad) : back' = back \o InOrder(o, ch)
           /\ \E o \in Orders(bad) : acks' = acks \o Errors(o)
           /\ requested' = requested + Cardinality({n \in p : Wanted(ch[n])})
    /\ UNCHANGED <<conn, ctl, data, grants, credit, sender, rPhase, completed,
                   doneSeen, terminated, outcome, active, attempts, toDisk,
                   pending, disk>>

\* The loop gives up: the peer is told first, then disk commit is stopped.
Abort ==
    /\ rPhase' = "Abort"
    /\ conn' = FALSE
    /\ ctl' = <<>> /\ list' = <<>> /\ data' = <<>> /\ back' = <<>> /\ acks' = <<>>
    /\ grants' = 0
    /\ active' = Idle
    /\ toDisk' = <<Command("AbortFile", 0, 0), Command("Shutdown", 0, 0)>>
    /\ UNCHANGED <<credit, sender, decision, rLedger, attempts, pending, disk>>

\* The destination directory cannot be read, the sender could not list a
\* directory, or the connection ended.
RFail ==
    /\ \/ AtSelect /\ conn /\ "dest" \in Faults /\ Is(list, "FilePage")
       \/ AtSelect /\ conn /\ Is(list, "FileListError")
       \/ AtSelect /\ ~conn
    /\ Abort

\* The connection ended while the configuration was awaited.
RConfigLost ==
    /\ rPhase = "Config" /\ ~conn
    /\ rPhase' = "Failed"
    /\ dcRunning' = FALSE
    /\ UNCHANGED <<conn, net, grants, credit, sender, decision, rLedger, active,
                   attempts, toDisk, pending, dcq, dc, dcAcks, published>>

RListDone ==
    /\ AtSelect /\ conn /\ Is(list, "FileListDone")
    /\ list' = Tail(list)
    /\ back' = Append(back, Msg("RequestsDone", 0))
    /\ UNCHANGED <<conn, ctl, data, acks, grants, credit, sender, receiver, disk>>

\* The common part of the handlers of Data messages.
Data(t) ==
    /\ AtSelect /\ conn /\ Is(data, t)
    /\ data' = Tail(data)
    /\ UNCHANGED <<conn, ctl, list, back, grants, credit, sender, decision,
                   attempts, pending, disk>>

\* begin_full.
RFileBegin ==
    /\ Data("FileBegin")
    /\ LET n == Head(data).n IN
         IF n \in terminated \/ active # Idle
           THEN UNCHANGED <<active, toDisk>>
           ELSE /\ active' = [mode |-> "full", n |-> n]
                /\ toDisk' = <<Command("FileBegin", n, 0)>>
    /\ UNCHANGED <<acks, rPhase, rLedger>>

\* accept_full_chunk: forwarded only for the active full transfer.
RFileData ==
    /\ Data("FileData")
    /\ toDisk' = IF active = [mode |-> "full", n |-> Head(data).n]
                   THEN <<Command("FileChunk", Head(data).n, 0)>> ELSE <<>>
    /\ UNCHANGED <<acks, rPhase, rLedger, active>>

\* ensure_delta_active: what the loop does about a delta event of entry n.
DeltaActive(n) == [mode |-> "delta", n |-> n]
DeltaOk(n)     == n \notin terminated /\ active \in {Idle, DeltaActive(n)}
DeltaBegin(n)  == IF active = Idle THEN <<Command("DeltaBegin", n, 0)>> ELSE <<>>

\* push_delta_match and accept_delta_data.
RDeltaToken ==
    \E t \in {"DeltaMatch", "DeltaData"} :
        /\ Data(t)
        /\ LET n == Head(data).n IN
             IF DeltaOk(n)
               THEN /\ active' = DeltaActive(n)
                    /\ toDisk' = Append(DeltaBegin(n), Command(t, n, 0))
               ELSE UNCHANGED <<active, toDisk>>
        /\ UNCHANGED <<acks, rPhase, rLedger>>

\* commit_full, and commit_delta, which begins an empty delta: the transfer is
\* no longer active and disk commit gets the digest.
CommitsFull(n) == n \notin terminated /\ active = [mode |-> "full", n |-> n]
CommitFull(n, k) ==
    /\ active' = Idle
    /\ toDisk' = <<Command("FileCommit", n, k)>>
CommitDelta(n, k) ==
    IF DeltaOk(n)
      THEN /\ active' = Idle
           /\ toDisk' = Append(DeltaBegin(n), Command("DeltaCommit", n, k))
      ELSE UNCHANGED <<active, toDisk>>

REndOfFile ==
    /\ Data("EndOfFile")
    /\ LET n == Head(data).n  k == Head(data).k IN
         IF CommitsFull(n) THEN CommitFull(n, k) ELSE CommitDelta(n, k)
    /\ UNCHANGED <<acks, rPhase, rLedger>>

RDeleteMarker ==
    /\ Data("WriteDeleteMarker")
    /\ toDisk' = <<Command("WriteDeleteMarker", Head(data).n, 0)>>
    /\ UNCHANGED <<acks, rPhase, rLedger, active>>

\* CreateSymlink: done by the loop itself and counted without its ndx.
RSymlink ==
    /\ Data("CreateSymlink")
    /\ \E ok \in {TRUE} \cup (IF "link" \in Faults THEN {FALSE} ELSE {}) :
         /\ acks' = Append(acks, Msg(IF ok THEN "Success" ELSE "EntryError", Head(data).n))
         /\ outcome' = [outcome EXCEPT ![Head(data).n] = IF ok THEN "success" ELSE "error"]
    /\ completed' = completed + 1
    /\ Advance(doneSeen, completed + 1, requested, <<>>)
    /\ UNCHANGED <<requested, doneSeen, terminated, active>>

RTransferDone ==
    /\ AtSelect /\ conn /\ Is(ctl, "TransferDone")
    /\ ctl' = Tail(ctl)
    /\ doneSeen' = TRUE
    /\ Advance(TRUE, completed, requested, <<>>)
    /\ UNCHANGED <<conn, list, data, back, acks, grants, credit, sender, decision,
                   requested, completed, terminated, outcome, active, attempts,
                   pending, disk>>

\* TransferLedger::record_terminal: the first terminal of an entry counts.
RecordTerminal(n, verdict) ==
    IF n \in terminated
      THEN UNCHANGED <<terminated, completed, outcome>>
      ELSE /\ terminated' = terminated \cup {n}
           /\ completed' = completed + 1
           /\ outcome' = [outcome EXCEPT ![n] = verdict]

\* The active file is discarded when it is the one that failed.
AbortOf(n) == IF active # Idle /\ active.n = n THEN <<Command("AbortFile", 0, 0)>> ELSE <<>>

\* The sender's EntryError: handle_source_failure.
RSourceFailure ==
    /\ AtSelect /\ conn /\ Is(ctl, "EntryError")
    /\ ctl' = Tail(ctl)
    /\ LET n == Head(ctl).n  abort == AbortOf(n)
       IN /\ RecordTerminal(n, "error")
          /\ active' = IF abort # <<>> THEN Idle ELSE active
          /\ IF n \in terminated
               THEN rPhase' = rPhase /\ toDisk' = abort
               ELSE Advance(doneSeen, completed + 1, requested, abort)
    /\ UNCHANGED <<conn, list, data, back, acks, grants, credit, sender, decision,
                   requested, doneSeen, attempts, pending, disk>>

MutAckOf(n, o) ==
    IF o = "success" \/ attempts[n] > 0 THEN "Success"
    ELSE IF o = "mismatch" THEN "Redo" ELSE "Error"

\* The wire message a file outcome leads to: redo_or_error allows one retry.
AckOf(n, o) ==
    IF o = "success" THEN "Success"
    ELSE IF o = "mismatch" /\ attempts[n] = 0 THEN "Redo" ELSE "Error"

\* handle_file_outcome, in the loop and while shutdown_disk_commit drains.
ROutcome ==
    /\ \/ AtSelect
       \/ rPhase \in {"Drain", "Abort"} /\ ~dcRunning
    /\ dcAcks # <<>>
    /\ dcAcks' = Tail(dcAcks)
    /\ LET n == Head(dcAcks).n  o == Head(dcAcks).type  a == AckOf(n, o) IN
         /\ attempts' = [attempts EXCEPT ![n] = IF o = "mismatch" THEN @ + 1 ELSE @]
         /\ IF a = "Redo"
              THEN /\ acks' = Sent(acks, Msg("Redo", n))
                   /\ UNCHANGED <<terminated, completed, outcome, rPhase, toDisk>>
              ELSE /\ acks' = IF n \in terminated THEN acks ELSE Sent(acks, Msg(a, n))
                   /\ RecordTerminal(n, IF a = "Success" THEN "success" ELSE "error")
                   /\ IF rPhase = "Loop" /\ n \notin terminated
                        THEN Advance(doneSeen, completed + 1, requested, <<>>)
                        ELSE UNCHANGED <<rPhase, toDisk>>
    /\ UNCHANGED <<conn, ctl, list, data, back, grants, credit, sender, decision,
                   requested, doneSeen, active, pending, dcq, dc, published, dcRunning>>

\* The commands that carry credited payload; delta matches carry none.
Credited == {"FileChunk", "DeltaData"}

\* The bounded channel has a free place.
Room == Len(dcq) < DcCap

\* The blocked send to the disk-commit queue completes; only then is the
\* payload credited, and a half window of credit granted.
REnqueue ==
    /\ toDisk # <<>> /\ Room
    /\ dcq' = Append(dcq, Head(toDisk))
    /\ toDisk' = Tail(toDisk)
    /\ IF Head(toDisk).type \in Credited
         THEN IF pending + 1 < Threshold
                THEN pending' = pending + 1 /\ UNCHANGED grants
                ELSE /\ pending' = 0
                     /\ grants' = IF conn THEN grants + pending + 1 ELSE grants
         ELSE UNCHANGED <<pending, grants>>
    /\ UNCHANGED <<conn, net, credit, sender, rPhase, decision, rLedger, active,
                   attempts, dc, dcAcks, published, dcRunning>>

\* Disk commit has ended and its outcomes are drained: AllDone, or the error.
RFinish ==
    /\ rPhase \in {"Drain", "Abort"} /\ ~dcRunning /\ dcAcks = <<>>
    /\ IF rPhase = "Drain"
         THEN rPhase' = "Done" /\ acks' = Sent(acks, Msg("AllDone", 0))
         ELSE rPhase' = "Failed" /\ UNCHANGED acks
    /\ pending' = 0
    /\ UNCHANGED <<conn, ctl, list, data, back, grants, credit, sender, decision,
                   rLedger, active, attempts, toDisk, disk>>

-----------------------------------------------------------------------------
(* The disk-commit task: serial, one file at a time.                        *)

Dc(ts) ==
    /\ dcRunning /\ dcq # <<>> /\ Head(dcq).type \in ts
    /\ dcq' = Tail(dcq)
    /\ UNCHANGED <<conn, net, grants, credit, sender, receiver>>

Busy        == dc.st \in {"full", "delta"}
Report(n, o) == dcAcks' = Append(dcAcks, Outcome(n, o))
Failed(n)    == dc' = [st |-> "failed", n |-> n, got |-> 0] /\ Report(n, "hard")

\* FileCommitter::begin: a rejected path, an unreadable basis or a failed
\* preparation is reported at once.
DBegin ==
    /\ Dc({"FileBegin", "DeltaBegin"})
    /\ LET n == Head(dcq).n
           mode == IF Head(dcq).type = "FileBegin" THEN "full" ELSE "delta"
       IN IF Busy
            THEN UNCHANGED <<dc, dcAcks>>
            ELSE \/ dc' = [st |-> mode, n |-> n, got |-> 0] /\ UNCHANGED dcAcks
                 \/ "begin" \in Faults /\ Failed(n)
    /\ UNCHANGED <<published, dcRunning>>

\* push_full and push_delta; a basis block that cannot be read is reported.
DPush ==
    /\ Dc({"FileChunk", "DeltaMatch", "DeltaData"})
    /\ LET n == Head(dcq).n
           mode == IF Head(dcq).type = "FileChunk" THEN "full" ELSE "delta"
       IN IF dc.st = mode /\ dc.n = n
            THEN \/ dc' = [dc EXCEPT !.got = @ + 1] /\ UNCHANGED dcAcks
                 \/ mode = "delta" /\ "basis" \in Faults /\ Failed(n)
            ELSE UNCHANGED <<dc, dcAcks>>
    /\ UNCHANGED <<published, dcRunning>>

\* commit and finalize_file: length, digest, then publication.
DCommit ==
    /\ Dc({"FileCommit", "DeltaCommit"})
    /\ LET n == Head(dcq).n
           mode == IF Head(dcq).type = "FileCommit" THEN "full" ELSE "delta"
       IN IF dc.st # mode \/ dc.n # n
            THEN UNCHANGED <<dc, dcAcks, published>>
            ELSE \/ /\ dc.got = Head(dcq).k
                    /\ dc' = DcIdle /\ Report(n, "success")
                    /\ published' = published \cup {n}
                 \/ /\ dc.got # Head(dcq).k \/ "mismatch" \in Faults
                    /\ dc' = [dc EXCEPT !.st = "failed"] /\ Report(n, "mismatch")
                    /\ UNCHANGED published
                 \/ /\ "commit" \in Faults \/ rPhase = "Abort"
                    /\ Failed(n)
                    /\ UNCHANGED published
    /\ UNCHANGED dcRunning

\* A version's delete marker is written directly.
DMarker ==
    /\ Dc({"WriteDeleteMarker"})
    /\ LET n == Head(dcq).n IN
         \/ Report(n, "success") /\ published' = published \cup {n}
         \/ /\ "commit" \in Faults \/ rPhase = "Abort"
            /\ Report(n, "hard") /\ UNCHANGED published
    /\ UNCHANGED <<dc, dcRunning>>

\* AbortFile discards the stage without a report; Shutdown also ends the task.
DStop ==
    /\ Dc({"AbortFile", "Shutdown"})
    /\ dc' = DcIdle
    /\ dcRunning' = (Head(dcq).type = "AbortFile")
    /\ UNCHANGED <<dcAcks, published>>

-----------------------------------------------------------------------------

\* The connection breaks and what was in flight is gone.
Lose ==
    /\ "lose" \in Faults /\ conn
    /\ conn' = FALSE
    /\ ctl' = <<>> /\ list' = <<>> /\ data' = <<>> /\ back' = <<>> /\ acks' = <<>>
    /\ grants' = 0
    /\ UNCHANGED <<credit, sender, receiver, disk>>

SenderLoop ==
    \/ SRequest \/ SClassified \/ SRequestsDone \/ SRedo \/ SSuccess
    \/ SEntryError \/ SError \/ SAllDone \/ SChunk \/ SEndOfFile
    \/ SConnectionLost

ReceiverLoop ==
    \/ RConfig \/ RConfigLost \/ RPage \/ RFail \/ RListDone \/ RFileBegin
    \/ RFileData \/ RDeltaToken \/ REndOfFile \/ RDeleteMarker \/ RSymlink
    \/ RTransferDone \/ RSourceFailure \/ ROutcome \/ REnqueue \/ RFinish

DiskCommit == DBegin \/ DPush \/ DCommit \/ DMarker \/ DStop

\* Both ends have returned.
Over == sPhase \in {"Completed", "Failed"} /\ rPhase \in {"Done", "Failed"}

Next ==
    \/ Advertise \/ SenderLoop \/ SSourceFails \/ FilterGrant
    \/ ReceiverLoop \/ DiskCommit \/ Lose

Spec == Init /\ [][Next]_vars

\* Each task runs whenever it can; nothing obliges a fault to happen.
FairSpec ==
    /\ Spec
    /\ WF_vars(Advertise) /\ WF_vars(SenderLoop) /\ WF_vars(FilterGrant)
    /\ WF_vars(ReceiverLoop) /\ WF_vars(DiskCommit)

-----------------------------------------------------------------------------
(* Properties                                                               *)

Requests == {n \in Ndx : Wanted(decision[n])}
Settled  == {n \in Ndx : outcome[n] # "none"}

\* Success means durable: an entry the receiver settled as a success, and so
\* every path the sender's checkpoint may name, has its content published;
\* an entry settled as an error has not.
VerdictMatchesDisk ==
    \A n \in Ndx : Kind(n) # "link" =>
        /\ outcome[n] = "success" \/ n \in completedPaths => n \in published
        /\ outcome[n] = "error" => n \notin published

\* The two counters of TransferLedger count entries, each once: a duplicate or
\* late outcome never stands in for an entry that is still in flight.
CountsAreEntries ==
    /\ requested = Cardinality(Requests)
    /\ completed = Cardinality(Settled)
    /\ Settled \subseteq Requests

\* The receiver's ledger tells the truth about the disk and about itself.
LedgerIsTrue == VerdictMatchesDisk /\ CountsAreEntries

\* The two processes agree on the result: a completed sender has heard about
\* every entry it advertised, save those of pages the receiver discarded while
\* it waited for the configuration, and has counted every request once, as the
\* success or the error the receiver settled on.
SenderAgrees ==
    sPhase = "Completed" =>
        /\ reported = {n \in Ndx : decision[n] # "lost"}
        /\ completedPaths = {n \in Ndx : outcome[n] = "success"}
        /\ sSuccess = Cardinality(completedPaths)
        /\ sError = Cardinality({n \in Ndx : outcome[n] = "error"
                                           \/ decision[n] = "metaFailed"})

\* The receiver is about to refuse a message of the Data stream: a payload of
\* an entry already settled, or of one that is not its active transfer.
Refusing ==
    /\ conn /\ rPhase = "Loop" /\ data # <<>>
    /\ LET n == Head(data).n  full == active = [mode |-> "full", n |-> n] IN
         \/ Is(data, "FileBegin") /\ (n \in terminated \/ active # Idle)
         \/ Is(data, "FileData") /\ ~full
         \/ Is(data, "DeltaMatch") /\ ~DeltaOk(n)
         \/ Is(data, "DeltaData") /\ ~DeltaOk(n)
         \/ Is(data, "EndOfFile") /\ ~DeltaOk(n) /\ ~CommitsFull(n)

\* The end of the file list arrived before the configuration and was discarded.
ListEndLost == rPhase = "Config" /\ conn /\ advPos > Len(Pages) /\ list = <<>>

\* Both ends return, whatever fails on either side, unless the receiver comes
\* to refuse payload (the transfer it refuses is then never settled, or its
\* credit never granted) or has thrown the end of the file list away.
SessionEnds == <>(Over \/ Refusing \/ ListEndLost)

\* The session implements the contract: the receiver's loop is where verdicts
\* are made, and breaking out of it is calling the session complete.
VerdictOf(n) ==
    CASE decision[n] = "none"       -> "unseen"
      [] decision[n] = "lost"       -> "overlooked"
      [] decision[n] = "skip"       -> "left"
      [] decision[n] = "metaFailed" -> "error"
      [] OTHER -> IF outcome[n] = "none" THEN "pending" ELSE outcome[n]
ReportOf ==
    CASE rPhase \in {"Config", "Loop"} -> "open"
      [] rPhase \in {"Drain", "Done"}  -> "complete"
      [] OTHER                         -> "aborted"

Contract == INSTANCE SyncContract WITH
    Entries <- Ndx,
    verdict <- [n \in Ndx |-> VerdictOf(n)],
    report  <- ReportOf

\* Every behaviour of the session is one the contract allows.
ImplementsContract == Contract!Spec

=============================================================================
