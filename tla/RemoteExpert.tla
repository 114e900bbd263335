---------------------------- MODULE RemoteExpert ----------------------------
(***************************************************************************)
(* The advertised file list and the transfer of one advertised file        *)
(* between two processes (crates/app/src/remote_advertisement.rs,          *)
(* remote_expert_transfer.rs and their messages in                         *)
(* crates/transport/src/message.rs).                                       *)
(*                                                                         *)
(* The source numbers what its walk meets and sends it in pages, with the  *)
(* failures of the walk and one terminal that states the counts.  The      *)
(* destination then asks for a number, is offered the file, says which     *)
(* prefix it already has, receives the rest under the credit window,       *)
(* checks the evidence and publishes.  Each side owns its connection and   *)
(* drops it when it returns, so the other side sees the end of the stream. *)
(* After a failure the destination's stage may serve the next attempt.     *)
(*                                                                         *)
(* data-mover's sessions are external: a source session refuses a file     *)
(* that is not the observed one, when it opens and again when it finishes; *)
(* a destination session publishes only a stage whose digest is the        *)
(* evidence's.  A block of a file is <<file, version>>.                    *)
(***************************************************************************)
EXTENDS Integers, Sequences, FiniteSets, SequencesExt

CONSTANTS
    Walk,         \* what the walk meets: observations and failures
    PageSize,
    Window,       \* DEFAULT_CREDIT_WINDOW_BYTES, in blocks
    SourceChunk,  \* blocks a source session reads at once
    TargetChunks, \* blocks a destination session takes at once: its ceiling,
                  \* which depends on its backend, is cut to the window
    MaxAttempts,  \* bound: transfers tried
    MaxFaults     \* bound: failures, cancellations, rewrites of the source

File(id, size) == [is |-> "file", id |-> id, size |-> size]
WalkFailure == [is |-> "failure"]

ASSUME ExpertAssumption ==
    /\ Walk \in Seq(Range(Walk))
    /\ \A i \in 1..Len(Walk) : Walk[i].is = "file" => Walk[i].size \in Nat
    /\ PageSize \in Nat \ {0} /\ Window \in Nat \ {0}
    /\ SourceChunk \in Nat \ {0}
    /\ TargetChunks \subseteq 1..Window
    /\ MaxAttempts \in Nat /\ MaxFaults \in Nat

VARIABLES
    adv,      \* AdvertisementProjection, and how far the walk is
    list,     \* FileList stream, source to destination
    rx,       \* RemoteAdvertisementReceiver and the ledger it builds
    pick,     \* the number the destination transfers
    src,      \* source side of the transfer
    dst,      \* destination side
    data,     \* offer and Data stream, source to destination: the offer, on a
              \* stream of its own, is read before anything follows it
    ctl,      \* FileList stream, destination to source
    ack,      \* AckProgress stream: the terminal
    credit,   \* what the source may send; what the destination owes
    disk,     \* the stage's durable blocks and the published file
    ver,      \* version of each source file
    attempts, faults

pages == <<adv, list, rx>>
wires == <<data, ctl, ack, credit>>
vars == <<pages, pick, src, dst, wires, disk, ver, attempts, faults>>

Ids == {Walk[i].id : i \in {j \in 1..Len(Walk) : Walk[j].is = "file"}}
Content(o) == [i \in 1..o.size |-> <<o.id, 1>>]

IdleSource == [pc |-> "await", offset |-> 0, parts |-> << >>, chunk |-> 1, hash |-> << >>]
IdleTarget == [pc |-> "ask", expected |-> 0, stage |-> << >>, chunk |-> 1,
               broken |-> FALSE]
Unpublished == <<"none">>

\* AdvertisementProjection and RemoteAdvertisementReceiver before the first page
NewProjection == [pos |-> 0, pending |-> << >>, page |-> 0, entries |-> << >>, failures |-> 0,
                  end |-> "walking"]
NewReceiver == [page |-> 0, ledger |-> << >>, failures |-> 0, end |-> "open"]

Init ==
    /\ adv = NewProjection
    /\ list = << >>
    /\ rx = NewReceiver
    /\ pick = 0
    /\ src = IdleSource /\ dst = IdleTarget
    /\ data = << >> /\ ctl = << >> /\ ack = << >>
    /\ credit = [avail |-> Window, owed |-> 0]
    /\ disk = [stage |-> << >>, final |-> Unpublished]
    /\ ver = [f \in Ids |-> 1]
    /\ attempts = 0 /\ faults = 0

-----------------------------------------------------------------------------
(* The file list.                                                          *)

\* TransportAdvertisementSink::send
Send(events) == list' = list \o events

\* build_page
Paged(a) == [a EXCEPT !.pending = << >>, !.page = @ + 1]
Page(a) == [is |-> "page", seq |-> a.page, entries |-> a.pending]

\* take_page: what is pending goes out before anything else
Taken(a) == IF a.pending = << >> THEN << >> ELSE <<Page(a)>>

\* push_entry: the number of an entry is its place among the entries
Pushed(a, o) ==
    [a EXCEPT !.pos = @ + 1, !.entries = Append(@, o),
              !.pending = Append(@, [ndx |-> Len(a.entries), obs |-> o])]

AdvertiseEntry ==
    /\ adv.end = "walking" /\ adv.pos < Len(Walk) /\ Walk[adv.pos + 1].is = "file"
    /\ LET a == Pushed(adv, Walk[adv.pos + 1])
       IN IF Len(a.pending) = PageSize
          THEN adv' = Paged(a) /\ Send(<<Page(a)>>)
          ELSE adv' = a /\ UNCHANGED list
    /\ UNCHANGED <<rx, pick, src, dst, wires, disk, ver, attempts, faults>>

AdvertiseFailure ==
    /\ adv.end = "walking" /\ adv.pos < Len(Walk) /\ Walk[adv.pos + 1].is = "failure"
    /\ LET sent == Taken(adv)
           a == IF sent = << >> THEN adv ELSE Paged(adv)
       IN /\ adv' = [a EXCEPT !.pos = @ + 1, !.failures = @ + 1]
          /\ Send(Append(sent, WalkFailure))
    /\ UNCHANGED <<rx, pick, src, dst, wires, disk, ver, attempts, faults>>

Terminal(a, end) ==
    [is |-> "terminal", end |-> end, entries |-> Len(a.entries), failures |-> a.failures]

\* The walk is complete, or was cancelled or failed somewhere.  It also counts as
\* failed, at its end, when the totals of the traversal are not those of the
\* projection, whose counts are the ones stated either way.
AdvertisementEnds(end) ==
    /\ adv.end = "walking"
    /\ IF end = "completed" THEN adv.pos = Len(Walk) /\ UNCHANGED faults
       ELSE faults < MaxFaults /\ faults' = faults + 1
    /\ Send(Append(Taken(adv), Terminal(adv, end)))
    /\ adv' = [adv EXCEPT !.pending = << >>, !.end = end]
    /\ UNCHANGED <<rx, pick, src, dst, wires, disk, ver, attempts>>

\* accept
PageOk(m) ==
    /\ m.seq = rx.page
    /\ Len(m.entries) \in 1..PageSize
    /\ \A i \in 1..Len(m.entries) : m.entries[i].ndx = Len(rx.ledger) + i - 1

\* validate_counts: the terminal confirms what has been received
CountsAgree(m) == m.entries = Len(rx.ledger) /\ m.failures = rx.failures

Accept ==
    /\ list # << >> /\ rx.end = "open"
    /\ LET m == Head(list)
       IN rx' = CASE m.is = "page" ->
                       IF PageOk(m)
                       THEN [rx EXCEPT !.page = @ + 1,
                             !.ledger = @ \o [i \in 1..Len(m.entries) |-> m.entries[i].obs]]
                       ELSE [rx EXCEPT !.end = "protocol"]
                  [] m.is = "failure" -> [rx EXCEPT !.failures = @ + 1]
                  [] m.is = "terminal" ->
                       IF CountsAgree(m)
                       THEN [rx EXCEPT !.end = m.end] ELSE [rx EXCEPT !.end = "protocol"]
    /\ list' = Tail(list)
    /\ UNCHANGED <<adv, pick, src, dst, wires, disk, ver, attempts, faults>>

-----------------------------------------------------------------------------
(* One transfer.                                                           *)

Running == attempts > 0
SrcEnded == src.pc \in {"ok", "failed"}
DstEnded == dst.pc \in {"ok", "failed"}
Obs == rx.ledger[pick + 1]

\* Both processes take up a number; a retry has a connection of its own.  A number
\* that has been published is not tried again.
StartTransfer ==
    /\ rx.end = "completed" /\ attempts < MaxAttempts
    /\ ~Running \/ (SrcEnded /\ DstEnded /\ disk.final = Unpublished)
    /\ IF Running THEN pick' = pick ELSE pick' \in 0..(Len(rx.ledger) - 1)
    /\ attempts' = attempts + 1
    /\ src' = IdleSource /\ dst' = IdleTarget
    /\ data' = << >> /\ ctl' = << >> /\ ack' = << >>
    /\ credit' = [avail |-> Window, owed |-> 0]
    /\ UNCHANGED <<pages, disk, ver, faults>>

\* Somebody writes to the source file.
Rewrite ==
    /\ Running /\ faults < MaxFaults
    /\ faults' = faults + 1
    /\ ver' = [ver EXCEPT ![Obs.id] = @ + 1]
    /\ UNCHANGED <<pages, pick, src, dst, wires, disk, attempts>>

MayFail == faults < MaxFaults
Faulted(n) == faults' = faults + n

\* serve_remote_source: only a failure of its own session is reported.
SourceFails(kind) ==
    /\ src' = [src EXCEPT !.pc = "failed"]
    /\ data' = Append(data, [is |-> kind])
    /\ UNCHANGED <<ctl, ack, credit>>

SourceQuits == src' = [src EXCEPT !.pc = "failed"] /\ UNCHANGED wires

\* The source receives from both streams of the destination, in either order.
Received(m) ==
    \/ ctl # << >> /\ m = Head(ctl) /\ ctl' = Tail(ctl) /\ UNCHANGED ack
    \/ ack # << >> /\ m = Head(ack) /\ ack' = Tail(ack) /\ UNCHANGED ctl

Messages == Range(ctl) \cup Range(ack)

\* expect_transfer_request, ExpertSourceSession::open and the offer
SourceOffers ==
    /\ Running /\ src.pc = "await"
    /\ \E m \in Messages :
         /\ Received(m)
         /\ IF m.is = "requested" /\ ver[Obs.id] = 1
            THEN /\ src' = [src EXCEPT !.pc = "offered"]
                 /\ data' = Append(data, [is |-> "offer", size |-> Obs.size, id |-> Obs.id])
            ELSE /\ src' = [src EXCEPT !.pc = "failed"]
                 /\ data' = IF m.is = "requested" THEN Append(data, [is |-> "failed"]) ELSE data
    /\ UNCHANGED <<pages, pick, dst, credit, disk, ver, attempts, faults>>

\* expect_payload_request and stream_from
SourceStreams ==
    /\ Running /\ src.pc = "offered"
    /\ \E m \in Messages :
         /\ Received(m)
         /\ src' = IF m.is = "payload_requested" /\ m.prefix <= Obs.size
                   THEN [src EXCEPT !.pc = "stream", !.offset = m.prefix, !.chunk = m.chunk,
                         !.hash = [i \in 1..m.prefix |-> <<Obs.id, ver[Obs.id]>>]]
                   ELSE [src EXCEPT !.pc = "failed"]
    /\ UNCHANGED <<pages, pick, dst, data, credit, disk, ver, attempts, faults>>

\* split_bytes: how many blocks each message carries
Parts(n) ==
    [i \in 1..((n + src.chunk - 1) \div src.chunk) |->
        IF i * src.chunk <= n THEN src.chunk ELSE n - (i - 1) * src.chunk]

SourceReads ==
    /\ Running /\ src.pc = "stream" /\ src.parts = << >> /\ Len(src.hash) < Obs.size
    /\ LET left == Obs.size - Len(src.hash)
           n == IF left < SourceChunk THEN left ELSE SourceChunk
       IN src' = [src EXCEPT !.parts = Parts(n),
                             !.hash = @ \o [i \in 1..n |-> <<Obs.id, ver[Obs.id]>>]]
    /\ UNCHANGED <<pages, pick, dst, wires, disk, ver, attempts, faults>>

\* send(Payload) waits for credit; without a peer it fails.
SourceSends ==
    /\ Running /\ src.pc = "stream" /\ src.parts # << >> /\ ~DstEnded
    /\ LET n == Head(src.parts)
       IN /\ n <= credit.avail
          /\ credit' = [credit EXCEPT !.avail = @ - n]
          /\ data' = Append(data, [is |-> "payload", at |-> src.offset,
                                   blocks |-> SubSeq(src.hash, src.offset + 1, src.offset + n)])
          /\ src' = [src EXCEPT !.parts = Tail(@), !.offset = @ + n]
    /\ UNCHANGED <<pages, pick, dst, ctl, ack, disk, ver, attempts, faults>>

\* PayloadStream::finish looks at the file again.
MutFinish(o) == TRUE

Finish(o) == ver[o.id] = 1

SourceCompletes ==
    /\ Running /\ src.pc = "stream" /\ src.parts = << >> /\ Len(src.hash) = Obs.size
    /\ IF Finish(Obs)
       THEN /\ src' = [src EXCEPT !.pc = "terminal"]
            /\ data' = Append(data, [is |-> "completed", size |-> Obs.size, id |-> Obs.id,
                                     digest |-> src.hash])
            /\ UNCHANGED <<ctl, ack, credit>>
       ELSE SourceFails("failed")
    /\ UNCHANGED <<pages, pick, dst, disk, ver, attempts, faults>>

\* expect_destination_terminal
Agrees(m) == m.is = "completed" /\ m.bytes = Obs.size /\ m.digest = src.hash

SourceConcludes ==
    /\ Running /\ src.pc = "terminal"
    /\ \E m \in Messages :
         /\ Received(m)
         /\ src' = [src EXCEPT !.pc = IF Agrees(m) THEN "ok" ELSE "failed"]
    /\ UNCHANGED <<pages, pick, dst, data, credit, disk, ver, attempts, faults>>

\* A read fails, or the source is cancelled, which its session notices.
SourceFaults ==
    /\ Running /\ MayFail /\ Faulted(1)
    /\ src.pc = "stream" /\ src.parts = << >>
    /\ \E kind \in {"failed", "cancelled"} : SourceFails(kind)
    /\ UNCHANGED <<pages, pick, dst, disk, ver, attempts>>

\* The source's process or connection is lost, with what was still on its way.
SourceDies ==
    /\ Running /\ MayFail /\ Faulted(1) /\ ~SrcEnded
    /\ src' = [src EXCEPT !.pc = "failed"]
    /\ \E n \in 0..Len(data) : data' = SubSeq(data, 1, n)
    /\ UNCHANGED <<pages, pick, dst, ctl, ack, credit, disk, ver, attempts>>

\* The destination has gone: nothing more arrives, and nothing can be sent.
SourceAlone ==
    /\ Running /\ ~SrcEnded /\ DstEnded
    /\ (ctl = << >> /\ ack = << >>) \/ (src.pc = "stream" /\ src.parts # << >>)
    /\ SourceQuits
    /\ UNCHANGED <<pages, pick, dst, disk, ver, attempts, faults>>

-----------------------------------------------------------------------------
(* The destination.                                                        *)

\* What is durable of a stage when a write fails or the peer does: any prefix that
\* is not shorter than what was durable before.
Durable(s) == {SubSeq(s, 1, n) : n \in Len(disk.stage)..Len(s)}

\* ReceiverCreditState::accepted grants once half the window is owed; flush grants all.
MutAccepted(c, n) ==
    IF c.owed + n > Window
    THEN [avail |-> c.avail + c.owed + n, owed |-> 0] ELSE [c EXCEPT !.owed = @ + n]

Accepted(c, n) ==
    IF c.owed + n >= Window \div 2
    THEN [avail |-> c.avail + c.owed + n, owed |-> 0] ELSE [c EXCEPT !.owed = @ + n]

FlushedCredit(c) == [avail |-> c.avail + c.owed, owed |-> 0]

\* receive_remote_destination: a failure of its own session is reported, anything
\* else is not: a protocol error, a terminal it cannot send, the peer's failure.
TargetFails(kind) ==
    /\ dst' = [dst EXCEPT !.pc = "failed"]
    /\ ack' = Append(ack, [is |-> kind])
    /\ UNCHANGED ctl

TargetQuits == dst' = [dst EXCEPT !.pc = "failed"] /\ UNCHANGED <<ctl, ack>>

\* Receiving ends without evidence.  A write that this interrupts, or that had
\* failed, is what is reported; one that had already finished reports nothing.
TargetGivesUp ==
    /\ TargetFails("failed") \/ (~dst.broken /\ TargetQuits)
    /\ credit' = FlushedCredit(credit)
    /\ \E s \in Durable(dst.stage) : disk' = [disk EXCEPT !.stage = s]

TargetAsks ==
    /\ Running /\ dst.pc = "ask"
    /\ ctl' = Append(ctl, [is |-> "requested"])
    /\ dst' = [dst EXCEPT !.pc = "offer"]
    /\ UNCHANGED <<pages, pick, src, data, ack, credit, disk, ver, attempts, faults>>

\* validate_offer
OfferFits(m) == m.is = "offer" /\ m.size = Obs.size /\ m.id = Obs.id

\* ExpertDestinationSession::prepare takes up the stage of an earlier attempt.
TargetPrepares ==
    /\ Running /\ dst.pc = "offer" /\ data # << >>
    /\ data' = Tail(data)
    /\ \/ /\ OfferFits(Head(data))
          /\ \E c \in TargetChunks :
               /\ dst' = [dst EXCEPT !.pc = "receive", !.stage = disk.stage, !.chunk = c,
                                     !.expected = Len(disk.stage)]
               /\ ctl' = Append(ctl, [is |-> "payload_requested",
                                      prefix |-> Len(disk.stage), chunk |-> c])
          /\ UNCHANGED <<ack, faults>>
       \/ /\ OfferFits(Head(data)) /\ MayFail /\ Faulted(1)
          /\ \E kind \in {"failed", "cancelled"} : TargetFails(kind)
       \/ /\ ~OfferFits(Head(data))
          /\ TargetQuits /\ UNCHANGED faults
    /\ UNCHANGED <<pages, pick, src, credit, disk, ver, attempts>>

PayloadFits(m) ==
    /\ Len(m.blocks) \in 1..dst.chunk
    /\ m.at = dst.expected
    /\ m.at + Len(m.blocks) <= Obs.size

TargetReceives ==
    /\ Running /\ dst.pc = "receive" /\ data # << >> /\ Head(data).is = "payload"
    /\ LET m == Head(data)
       IN IF PayloadFits(m) /\ ~dst.broken
          THEN /\ dst' = [dst EXCEPT !.stage = @ \o m.blocks, !.expected = @ + Len(m.blocks)]
               /\ credit' = Accepted(credit, Len(m.blocks))
               /\ UNCHANGED <<ctl, ack, disk>>
          ELSE TargetGivesUp
    /\ data' = Tail(data)
    /\ UNCHANGED <<pages, pick, src, ver, attempts, faults>>

\* The write task stops; the receiving task notices when it hands over a payload.
WriteFails ==
    /\ Running /\ dst.pc = "receive" /\ ~dst.broken /\ MayFail /\ Faulted(1)
    /\ dst' = [dst EXCEPT !.broken = TRUE]
    /\ UNCHANGED <<pages, pick, src, wires, disk, ver, attempts>>

EvidenceFits(m) == m.size = Obs.size /\ m.id = Obs.id /\ dst.expected = Obs.size

Verified(m) == EvidenceFits(m) /\ ~dst.broken /\ dst.stage = m.digest

\* The stage is published and the terminal sent.  complete() may still report a
\* failure of what it does afterwards, and the terminal may find no connection.
TargetPublishes(m) ==
    /\ Verified(m)
    /\ disk' = [stage |-> << >>, final |-> dst.stage]
    /\ \/ /\ dst' = [dst EXCEPT !.pc = "ok"]
          /\ ack' = Append(ack, [is |-> "completed", bytes |-> Obs.size,
                                 digest |-> dst.stage])
          /\ UNCHANGED <<ctl, faults>>
       \/ /\ MayFail /\ Faulted(1)
          /\ TargetFails("failed") \/ TargetQuits
       \/ /\ SrcEnded /\ TargetQuits /\ UNCHANGED faults

\* A stage that fails its verification, or that cannot be published, is kept or
\* thrown away.
TargetRejects(m) ==
    /\ IF Verified(m) THEN MayFail /\ Faulted(1) ELSE UNCHANGED faults
    /\ TargetFails("failed")
    /\ \E s \in {<< >>, dst.stage} : disk' = [disk EXCEPT !.stage = s]

TargetCompletes ==
    /\ Running /\ dst.pc = "receive" /\ data # << >> /\ Head(data).is = "completed"
    /\ TargetPublishes(Head(data)) \/ TargetRejects(Head(data))
    /\ credit' = FlushedCredit(credit)
    /\ data' = Tail(data)
    /\ UNCHANGED <<pages, pick, src, ver, attempts>>

\* The source reports a failure in the middle of the payload.
TargetInterrupted ==
    /\ Running /\ dst.pc = "receive" /\ data # << >>
    /\ Head(data).is \in {"failed", "cancelled"}
    /\ TargetGivesUp
    /\ data' = Tail(data)
    /\ UNCHANGED <<pages, pick, src, ver, attempts, faults>>

TargetDies ==
    /\ Running /\ MayFail /\ Faulted(1) /\ ~DstEnded
    /\ dst' = [dst EXCEPT !.pc = "failed"]
    /\ \E s \in Durable(dst.stage) \cup {disk.stage} : disk' = [disk EXCEPT !.stage = s]
    /\ UNCHANGED <<pages, pick, src, wires, ver, attempts>>

TargetAlone ==
    /\ Running /\ dst.pc \in {"offer", "receive"} /\ SrcEnded /\ data = << >>
    /\ dst' = [dst EXCEPT !.pc = "failed"]
    /\ \E s \in Durable(dst.stage) \cup {disk.stage} : disk' = [disk EXCEPT !.stage = s]
    /\ UNCHANGED <<pages, pick, src, wires, ver, attempts, faults>>

-----------------------------------------------------------------------------
Step ==
    \/ AdvertiseEntry \/ AdvertiseFailure \/ AdvertisementEnds("completed") \/ Accept
    \/ StartTransfer
    \/ SourceOffers \/ SourceStreams \/ SourceReads \/ SourceSends \/ SourceCompletes
    \/ SourceConcludes \/ SourceAlone
    \/ TargetAsks \/ TargetPrepares \/ TargetReceives \/ TargetCompletes
    \/ TargetInterrupted \/ TargetAlone

Next ==
    \/ Step
    \/ \E end \in {"cancelled", "failed"} : AdvertisementEnds(end)
    \/ Rewrite \/ SourceFaults \/ WriteFails \/ SourceDies \/ TargetDies

\* Both processes are scheduled and the connection delivers.
Spec == Init /\ [][Next]_vars /\ WF_vars(Step)

-----------------------------------------------------------------------------
(* Properties                                                              *)

\* The list that the destination works from is the one the source numbered: a
\* complete advertisement gives every number the same file on both sides, and none
\* that the source finished properly is refused.
LedgersAgree ==
    /\ rx.end # "protocol"
    /\ rx.end = "completed" => rx.ledger = adv.entries /\ rx.failures = adv.failures

\* What is published is the advertised version of the file with that number, whole:
\* never blocks of two versions, whatever an earlier attempt has left in the stage.
PublishedIsAdvertised ==
    disk.final # Unpublished => disk.final = Content(adv.entries[pick + 1])

\* A source that reports success has had its file published.
SourceAgrees == src.pc = "ok" => dst.pc = "ok" /\ disk.final = src.hash

\* The two ends agree on the list, on the version and on the outcome of every
\* transfer.
EndsAgree == LedgersAgree /\ PublishedIsAdvertised /\ SourceAgrees

\* A part waits for credit that stays short of it: grants are withheld below half a
\* window, while a part may be as large as the window.
Stranded ==
    /\ src.pc = "stream" /\ src.parts # << >>
    /\ Head(src.parts) > credit.avail
    /\ Head(src.parts) > Window - (Window \div 2 - 1)

\* Both sides of every transfer return, whichever of them fails first and whatever
\* was still under way or owed.  The code has one exception: a part so large that the
\* withheld grants strand it.
BothReturn == []<>(attempts = 0 \/ (SrcEnded /\ DstEnded) \/ Stranded)

=============================================================================
