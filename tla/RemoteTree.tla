----------------------------- MODULE RemoteTree -----------------------------
(***************************************************************************)
(* A synchronisation between two processes as a whole: the QUIC streams    *)
(* are opened and accepted, the peers shake hands, authenticate and agree  *)
(* on a configuration, the sender lists its tree page by page, and the     *)
(* receiver creates directories, asks for files, deletes what the source   *)
(* no longer has and at last restores the directories' metadata.  The      *)
(* sender keeps a checkpoint file of what was acknowledged.                *)
(*                                                                         *)
(* RemoteSession models the transfer of one file in detail.  Here a        *)
(* transfer is one message and one command to the disk-commit task, and    *)
(* the state is the destination tree.  A node's data stands for size and   *)
(* modification time, its meta for owner, mode and tags of a file and for  *)
(* all metadata of a directory; a directory's is TOUCHED whenever an entry *)
(* in it is created, replaced or removed.                                  *)
(***************************************************************************)
EXTENDS Integers, FiniteSets, Sequences, SequencesExt

CONSTANTS
    Paths, Parent,   \* paths below the root, and the directory each is in
    Walk,            \* every directory, root first, in the order of the traversal
    SourceTrees,     \* trees the source may hold
    DestTrees,       \* trees the destination may hold at the start
    Handshakes,      \* protocol versions and features of a build
    Tokens,          \* tokens of the two command lines
    DeleteTarget,    \* delete_target of the configuration
    EnableAcl,       \* enable_acl of the configuration
    CheckpointEvery, \* bound: successes between two checkpoints (100 in the code)
    MaxFaults,       \* bound: failed operations, lost connections and crashes
    MaxSessions      \* bound: sessions of the job

ROOT == "root"
ABSENT == [kind |-> "absent", data |-> 0, meta |-> 0, acl |-> FALSE]
TOUCHED == 0
Children(d) == {p \in Paths : Parent[p] = d}

\* A directory of the tree t: the root, or a path that is one.
IsDir(t, d) == d = ROOT \/ t[d].kind = "dir"

\* Only a directory's metadata is compared; "part" is an unfinished transfer of
\* the receiver (what bears such a name at the source is a file like any other).
Node == [kind : {"file", "part"}, data : Nat, meta : Nat, acl : BOOLEAN]
        \cup [kind : {"dir"}, data : {0}, meta : Nat, acl : BOOLEAN] \cup {ABSENT}
IsTree(t) == t \in [Paths -> Node] /\ \A p \in Paths : t[p] # ABSENT => IsDir(t, Parent[p])

ASSUME RemoteTreeAssumption ==
    /\ IsFiniteSet(Paths) /\ ROOT \notin Paths
    /\ Parent \in [Paths -> Paths \cup {ROOT}]
    /\ \A t \in SUBSET Paths : (\A p \in Paths : Parent[p] \in t \cup {ROOT} => p \in t) => t = Paths
    /\ Walk \in Seq(Paths \cup {ROOT}) /\ Walk # <<>>
    /\ Walk[1] = ROOT /\ \A i \in 2..Len(Walk) : \E j \in 1..(i - 1) : Walk[j] = Parent[Walk[i]]
    /\ \A t \in SourceTrees \cup DestTrees : IsTree(t)
    /\ \A t \in SourceTrees : \A p \in Paths : t[p].kind # "part" /\ (t[p].kind = "dir" => p \in Range(Walk))
    /\ CheckpointEvery > 0 /\ MaxFaults \in Nat /\ MaxSessions \in Nat

VARIABLES
    src,        \* the source tree
    blind,      \* its entries the traversal cannot observe
    dest,       \* the destination tree
    wire,       \* messages to the receiver, per physical stream
    back,       \* messages to the sender, per physical stream
    accepted,   \* streams the receiver has accepted so far
    closed,     \* the connection is closed
    peer,       \* build and token of the sender, build and token of the receiver
    s,          \* the sender
    r,          \* the receiver
    dc,         \* commands queued for the disk-commit task
    acks,       \* its outcomes
    saved,      \* remote_checkpoint.json: a set of paths, or TORN
    spent       \* faults and sessions so far

vars == <<src, blind, dest, wire, back, accepted, closed, peer, s, r, dc, acks, saved, spent>>

TORN == {"torn"}

Ended(pc) == pc \in {"done", "failed"}

SStart == [pc |-> "hello", todo |-> Walk, listed |-> FALSE, doneSent |-> FALSE, allDone |-> FALSE,
           completed |-> {}, successes |-> 0, errors |-> {}, saving |-> FALSE]

\* `unrestored' is history: the directories finalize_directories only logged.
RStart == [pc |-> "connect", requested |-> 0, completed |-> 0, doneSeen |-> FALSE,
           dirs |-> {}, features |-> {}, unrestored |-> {}]

Session ==
    /\ wire = <<<<>>, <<>>, <<>>>> /\ back = <<<<>>, <<>>, <<>>, <<>>>>
    /\ accepted = 0 /\ closed = FALSE /\ s = SStart /\ r = RStart /\ dc = <<>> /\ acks = <<>>

Init ==
    /\ src \in SourceTrees /\ dest \in DestTrees
    /\ blind \in {{}} \cup {{p} : p \in {q \in Paths : src[q] # ABSENT}}
    /\ peer \in [build : Handshakes, token : Tokens, local : Handshakes, expected : Tokens \cup {"any"}]
    /\ saved = {} /\ spent = [faults |-> 0, sessions |-> 1]
    /\ Session

MayFail == spent.faults < MaxFaults
Fault == MayFail /\ spent' = [spent EXCEPT !.faults = @ + 1]

-----------------------------------------------------------------------------
(* Streams.  The sender opens Control, FileList and Data in this order; a  *)
(* stream is revealed to the peer by the first message on it or on a later *)
(* one.  AckProgress is opened by the receiver.                            *)

CLIENT_INITIATED == <<"Control", "FileList", "Data">>

MutStreamSlot(kind) == IF kind = "AckProgress" THEN 4
                       ELSE CHOOSE i \in 1..3 : <<"Control", "Data", "FileList">>[i] = kind

\* receiver_setup and spawn_lazy_accept_file_list_and_data: the physical stream
\* whose sending half serves a kind of message; one task accepts in order.
StreamSlot(kind) == IF kind = "AckProgress" THEN 4
                    ELSE CHOOSE i \in 1..3 : CLIENT_INITIATED[i] = kind

Ready(kind) == kind = "AckProgress" \/ accepted >= StreamSlot(kind)

\* sender_stream_kind and receiver_stream_kind.
SenderStreamKind(m) ==
    IF m.t \in {"handshake", "auth", "config", "transferDone", "entryError"} THEN "Control"
    ELSE IF m.t \in {"page", "listError", "listDone"} THEN "FileList" ELSE "Data"
ReceiverStreamKind(m) ==
    IF m.t \in {"handshakeAck", "authResult"} THEN "Control"
    ELSE IF m.t \in {"request", "classified", "deleted", "requestsDone"} THEN "FileList" ELSE "AckProgress"

\* The sender's streams are its own: they are ready as soon as they are open.
SenderIndex(m) == CHOOSE i \in 1..3 : CLIENT_INITIATED[i] = SenderStreamKind(m)

\* send_routed on either side; on a closed connection nothing arrives.  What the
\* sender sends together is for one stream, the receiver's replies are for several.
SSend(ms) ==
    wire' = [wire EXCEPT ![SenderIndex(ms[1])] = @ \o IF closed THEN <<>> ELSE ms]
RSend(ms) ==
    back' = [i \in 1..4 |-> back[i] \o
                IF closed THEN <<>> ELSE SetToSeq({m \in ms : StreamSlot(ReceiverStreamKind(m)) = i})]
CanSend(ms) == closed \/ \A m \in ms : Ready(ReceiverStreamKind(m))

\* The reader tasks forward whole frames into one channel: any stream's head may
\* come first.
Take(q, i) == [q EXCEPT ![i] = Tail(@)]

Revealed(i) == \E j \in i..3 : wire[j] # <<>> \/ (j <= accepted)

\* receiver_setup accepts Control before it returns; the other two are accepted
\* in the background.
Accept ==
    /\ accepted < 3 /\ Revealed(accepted + 1) /\ ~closed
    /\ accepted' = accepted + 1
    /\ r' = IF accepted = 0 THEN [r EXCEPT !.pc = "handshake"] ELSE r
    /\ UNCHANGED <<src, blind, dest, wire, back, closed, peer, s, dc, acks, saved, spent>>

\* The network drops the connection, or one of the processes dies.
Lose ==
    /\ ~closed /\ Fault /\ closed' = TRUE
    /\ UNCHANGED <<src, blind, dest, wire, back, accepted, peer, s, r, dc, acks, saved>>

Crash ==
    /\ ~Ended(s.pc) /\ Fault /\ closed' = TRUE
    /\ s' = [s EXCEPT !.pc = "failed", !.saving = FALSE]
    /\ UNCHANGED <<src, blind, dest, wire, back, accepted, peer, r, dc, acks, saved>>

-----------------------------------------------------------------------------
(* The sender.                                                             *)

SLeave == closed' = TRUE /\ s' = [s EXCEPT !.pc = "failed"]

\* negotiate_handshake, send_and_check_auth and the configuration: send, then
\* wait for the one answer.
SHello ==
    /\ s.pc \in {"hello", "auth", "config"} /\ ~closed
    /\ SSend(<<CASE s.pc = "hello" -> [t |-> "handshake", build |-> peer.build]
                 [] s.pc = "auth" -> [t |-> "auth", token |-> peer.token]
                 [] OTHER -> [t |-> "config"]>>)
    /\ s' = [s EXCEPT !.pc = CASE s.pc = "hello" -> "helloSent" [] s.pc = "auth" -> "authSent" [] OTHER -> "run",
                      !.completed = IF s.pc = "config" /\ saved # TORN THEN saved ELSE @]
    /\ UNCHANGED <<src, blind, dest, back, accepted, closed, peer, r, dc, acks, saved, spent>>

SAnswer ==
    /\ s.pc \in {"helloSent", "authSent"} /\ back[1] # <<>>
    /\ back' = Take(back, 1)
    /\ IF Head(back[1]).ok /\ Head(back[1]).t = (IF s.pc = "helloSent" THEN "handshakeAck" ELSE "authResult")
       THEN s' = [s EXCEPT !.pc = IF @ = "helloSent" THEN "auth" ELSE "config"] /\ UNCHANGED closed
       ELSE SLeave
    /\ UNCHANGED <<src, blind, dest, wire, accepted, peer, r, dc, acks, saved, spent>>

\* recv or send on a connection that is gone.
SClosed ==
    /\ ~Ended(s.pc) /\ closed /\ ~s.saving /\ ~s.allDone
    /\ s' = [s EXCEPT !.pc = "failed"]
    /\ UNCHANGED <<src, blind, dest, wire, back, accepted, closed, peer, r, dc, acks, saved, spent>>

\* directory_pages and advertise_file_list: entries that could not be observed
\* are reported before the page they are missing from; a directory that cannot
\* be listed has no page.
PageOf(d) == [t |-> "page", dir |-> d,
              files |-> {p \in Children(d) \ blind : src[p].kind = "file"},
              subdirs |-> {p \in Children(d) \ blind : src[p].kind = "dir"}]
MutPageEvents(d) == <<PageOf(d)>>

PageEvents(d) ==
    LET missed == {p \in Children(d) \cap blind : src[p] # ABSENT}
    IN  IF missed # {} THEN <<[t |-> "listError"], PageOf(d)>> ELSE <<PageOf(d)>>

Advertise ==
    /\ s.pc = "run" /\ ~s.listed
    /\ IF s.todo = <<>>
       THEN SSend(<<[t |-> "listDone"]>>) /\ s' = [s EXCEPT !.listed = TRUE]
       ELSE /\ s' = [s EXCEPT !.todo = Tail(@)]
            /\ IF IsDir(src, Head(s.todo)) /\ Head(s.todo) \notin blind
               THEN SSend(PageEvents(Head(s.todo))) ELSE UNCHANGED wire
    /\ UNCHANGED <<src, blind, dest, back, accepted, closed, peer, r, dc, acks, saved, spent>>

\* The traversal breaks off: an error, then the channel closes and the list ends
\* without the pages that are left.
ListingFails ==
    /\ s.pc = "run" /\ s.todo # <<>> /\ Fault
    /\ SSend(<<[t |-> "listError"]>>) /\ s' = [s EXCEPT !.todo = <<>>]
    /\ UNCHANGED <<src, blind, dest, back, accepted, closed, peer, r, dc, acks, saved>>

\* send_full_transfer and send_delta_transfer: the file, then its ACL.
TransferOf(p) == <<[t |-> "data", path |-> p]>> \o
                 IF EnableAcl THEN <<[t |-> "setAcl", path |-> p]>> ELSE <<>>

SRequest(i) ==
    LET m == Head(back[i])
    IN  /\ m.t = "request" /\ back' = Take(back, i)
        /\ \/ SSend(TransferOf(m.path)) /\ UNCHANGED <<s, spent>>
           \/ /\ Fault /\ SSend(<<[t |-> "entryError", path |-> m.path]>>)
              /\ s' = [s EXCEPT !.errors = @ \cup {m.path}]
        /\ UNCHANGED <<saved, closed>>

SRequestsDone(i) ==
    /\ Head(back[i]).t = "requestsDone" /\ back' = Take(back, i)
    /\ SSend(<<[t |-> "transferDone"]>>) /\ s' = [s EXCEPT !.doneSent = TRUE]
    /\ UNCHANGED <<saved, spent, closed>>

MutRecordSuccess(path) ==
    LET n == s.successes + 1
        save == n % CheckpointEvery = 0
    IN  /\ s' = [s EXCEPT !.successes = n, !.completed = @ \cup {p \in Paths : src[p].kind = "file"}, !.saving = save]
        /\ saved' = IF save THEN TORN ELSE saved

\* record_success_and_checkpoint: every CheckpointEvery successes the file is
\* rewritten in place.
RecordSuccess(path) ==
    LET n == s.successes + 1
        save == n % CheckpointEvery = 0
    IN  /\ s' = [s EXCEPT !.successes = n, !.completed = @ \cup {path}, !.saving = save]
        /\ saved' = IF save THEN TORN ELSE saved

SAck(i) ==
    LET m == Head(back[i])
    IN  /\ m.t \in {"success", "error", "classified", "deleted"} /\ back' = Take(back, i)
        /\ CASE m.t = "success" -> RecordSuccess(m.path)
             [] m.t = "error" -> s' = [s EXCEPT !.errors = @ \cup {m.path}] /\ UNCHANGED saved
             [] OTHER -> UNCHANGED <<s, saved>>
        /\ UNCHANGED <<wire, spent, closed>>

SAllDone(i) ==
    /\ Head(back[i]).t = "allDone" /\ back' = Take(back, i)
    /\ IF s.doneSent THEN s' = [s EXCEPT !.allDone = TRUE] /\ UNCHANGED closed ELSE SLeave
    /\ UNCHANGED <<wire, saved, spent>>

\* process_requests_and_acks: one message, from whichever stream.
SReceive ==
    /\ s.pc = "run" /\ ~s.saving /\ ~s.allDone
    /\ \E i \in 1..4 : back[i] # <<>> /\ (SRequest(i) \/ SRequestsDone(i) \/ SAck(i) \/ SAllDone(i))
    /\ UNCHANGED <<src, blind, dest, accepted, peer, r, dc, acks>>

\* tokio::fs::write has truncated the file and now has written it all.
SaveCheckpoint ==
    /\ s.saving
    /\ saved' = s.completed /\ s' = [s EXCEPT !.saving = FALSE]
    /\ UNCHANGED <<src, blind, dest, wire, back, accepted, closed, peer, r, dc, acks, spent>>

\* save_or_clear_checkpoint, then close.
SFinish ==
    /\ s.pc = "run" /\ s.listed /\ s.allDone /\ ~s.saving
    /\ IF s.errors = {} THEN saved' = {} /\ s' = [s EXCEPT !.pc = "done"] /\ closed' = TRUE
       ELSE IF saved = s.completed THEN s' = [s EXCEPT !.pc = "done"] /\ closed' = TRUE /\ UNCHANGED saved
       ELSE saved' = TORN /\ s' = [s EXCEPT !.saving = TRUE] /\ UNCHANGED closed
    /\ UNCHANGED <<src, blind, dest, wire, back, accepted, peer, r, dc, acks, spent>>

-----------------------------------------------------------------------------
(* The receiver: handshake, authentication, configuration.                 *)

\* ProtocolHandshake::negotiate and FeatureFlags::intersect.
Negotiate(local, remote) ==
    IF remote.version < local.min \/ local.version < remote.min
    THEN [ok |-> FALSE, features |-> {}]
    ELSE [ok |-> TRUE, features |-> local.features \cap remote.features]

TokenOk(m) == peer.expected = "any" \/ m.token = peer.expected

\* A message of another phase is skipped.
RHello ==
    /\ r.pc \in {"handshake", "auth", "config"} /\ wire[1] # <<>>
    /\ LET m == Head(wire[1])
           n == Negotiate(peer.local, m.build)
       IN  /\ wire' = Take(wire, 1)
           /\ CASE r.pc = "handshake" /\ m.t = "handshake" ->
                     /\ RSend({[t |-> "handshakeAck", ok |-> n.ok]})
                     /\ r' = [r EXCEPT !.pc = IF n.ok THEN "auth" ELSE "failed", !.features = n.features]
                     /\ closed' = (closed \/ ~n.ok)
                [] r.pc = "auth" /\ m.t = "auth" ->
                     /\ RSend({[t |-> "authResult", ok |-> TokenOk(m)]})
                     /\ r' = [r EXCEPT !.pc = IF TokenOk(m) THEN "config" ELSE "failed"]
                     /\ closed' = (closed \/ ~TokenOk(m))
                [] r.pc = "config" /\ m.t = "config" ->
                     r' = [r EXCEPT !.pc = "loop"] /\ UNCHANGED <<back, closed>>
                [] OTHER -> UNCHANGED <<r, back, closed>>
    /\ UNCHANGED <<src, blind, dest, accepted, peer, s, dc, acks, saved, spent>>

\* accept or recv on a connection that is gone, before the data phase.
RClosed ==
    /\ r.pc \in {"connect", "handshake", "auth", "config"} /\ closed
    /\ r' = [r EXCEPT !.pc = "failed"]
    /\ UNCHANGED <<src, blind, dest, wire, back, accepted, closed, peer, s, dc, acks, saved, spent>>

-----------------------------------------------------------------------------
(* The receiver: the page handler.                                         *)

\* The tree t with n at every path of ps; the directories these are in are touched.
Put(t, ps, n) ==
    [q \in Paths |->
        IF q \in ps THEN n
        ELSE IF t[q].kind = "dir" /\ \E p \in ps : Parent[p] = q THEN [t[q] EXCEPT !.meta = TOUCHED]
        ELSE t[q]]

\* A path with all that is below it, and a path with the directories above it.
Under == [d \in Paths |->
    {p \in Paths : \A t \in SUBSET Paths :
        d \in t /\ (\A q \in Paths : Parent[q] \in t => q \in t) => p \in t}]
Above == [p \in Paths |-> {d \in Paths : p \in Under[d]}]

MutCheck(p) == IF dest[p].kind # "file" THEN "full" ELSE IF dest[p].data # src[p].data THEN "delta" ELSE "skip"

\* DestIndex::check: slot 0 holds what is not a directory, slot 1 directories.
Check(p) ==
    IF dest[p].kind # "file" THEN "full"
    ELSE IF dest[p].data # src[p].data THEN "delta"
    ELSE IF dest[p].meta # src[p].meta THEN "metadata" ELSE "skip"

\* handle_base_classification and handle_delta_classification.
Asks(p) == Check(p) \in {"full", "delta"}
Classify(p) ==
    IF Asks(p)
    THEN [t |-> "request", path |-> p, delta |-> Check(p) = "delta" /\ "delta" \in r.features]
    ELSE [t |-> "classified", path |-> p]

\* handle_directory_lifecycle: a directory is created, with those above it, unless
\* something else is in its place; then the orphans of the page go, unfinished
\* transfers excepted.
Creatable(p) == \A d \in Above[p] : dest[d].kind \in {"absent", "dir"}

Orphans(m) ==
    IF ~DeleteTarget THEN {}
    ELSE {p \in Children(m.dir) :
            /\ dest[p] # ABSENT /\ dest[p].kind # "part"
            /\ IF dest[p].kind = "dir" THEN p \notin m.subdirs ELSE p \notin m.files}

NewDir == [ABSENT EXCEPT !.kind = "dir", !.meta = TOUCHED]

MetadataOnly(m) == {p \in m.files : Check(p) = "metadata"}

AfterMetadata(m, unset) ==
    [p \in Paths |-> IF p \in MetadataOnly(m) \ unset THEN [dest[p] EXCEPT !.meta = src[p].meta] ELSE dest[p]]
AfterDirs(t, made) == Put(t, {d \in UNION {Above[p] : p \in made} : t[d] = ABSENT}, NewDir)
AfterDeletes(t, gone, left) == Put(t, (UNION {Under[p] : p \in gone}) \ left, ABSENT)

\* What a deletion of p that fails may leave: p, and below it only what is in a
\* directory that is left.
Remains(p) == {left \in SUBSET Under[p] : p \in left /\ \A q \in left \ {p} : Parent[q] \in left}

\* The page handler; `left' is what could not be deleted, and `unset' the files
\* whose metadata could not be set.
RPage(m, left, unset) ==
    LET made == {p \in m.subdirs : Creatable(p)}
        replies == [p \in m.files |-> Classify(p)]
        say == {replies[p] : p \in m.files \ unset} \cup
               {[t |-> "error", path |-> p] : p \in (m.subdirs \ made) \cup (Orphans(m) \cap left) \cup unset} \cup
               {[t |-> "deleted", path |-> p] : p \in Orphans(m) \ left}
    IN  /\ CanSend(say) /\ RSend(say)
        /\ dest' = AfterDeletes(AfterDirs(AfterMetadata(m, unset), made), Orphans(m), left)
        /\ r' = [r EXCEPT !.requested = @ + Cardinality({p \in m.files : Asks(p)}), !.dirs = @ \cup made]

\* A failure of the list or of the destination ends the session: the connection
\* is closed, and the directories' metadata is given up.
RFail == closed' = TRUE /\ r' = [r EXCEPT !.pc = "abort", !.dirs = {}]

\* Something else is where the directory should be, and cannot be listed.
Obstructed(d) == d # ROOT /\ dest[d].kind \notin {"absent", "dir"}

RList ==
    /\ r.pc = "loop" /\ wire[2] # <<>> /\ accepted >= 2
    /\ LET m == Head(wire[2])
       IN  /\ wire' = Take(wire, 2)
           /\ \/ /\ m.t = "page" /\ UNCHANGED closed
                 /\ \/ RPage(m, {}, {}) /\ UNCHANGED spent
                    \/ Fault /\ \E p \in Orphans(m) : \E left \in Remains(p) : RPage(m, left, {})
                    \/ Fault /\ \E p \in MetadataOnly(m) : RPage(m, {}, {p})
              \/ /\ m.t = "page" /\ RFail /\ UNCHANGED <<dest, back>>
                 /\ Fault \/ (Obstructed(m.dir) /\ UNCHANGED spent)
              \/ m.t = "listError" /\ RFail /\ UNCHANGED <<dest, back, spent>>
              \/ /\ m.t = "listDone" /\ CanSend({[t |-> "requestsDone"]})
                 /\ RSend({[t |-> "requestsDone"]}) /\ UNCHANGED <<dest, r, closed, spent>>
    /\ UNCHANGED <<src, blind, accepted, peer, s, dc, acks, saved>>

-----------------------------------------------------------------------------
(* The receiver: data, outcomes and the end.                               *)

Complete(x) == x.doneSeen /\ x.completed >= x.requested
Continue(x) == [x EXCEPT !.pc = IF Complete(x) THEN "shutdown" ELSE "loop"]

RData ==
    /\ r.pc = "loop" /\ wire[3] # <<>> /\ accepted >= 3
    /\ LET m == Head(wire[3])
       IN  /\ wire' = Take(wire, 3)
           /\ dc' = IF m.t = "data" THEN Append(dc, m.path) ELSE dc
           /\ dest' = IF m.t = "setAcl" /\ dest[m.path] # ABSENT THEN [dest EXCEPT ![m.path].acl = TRUE] ELSE dest
    /\ UNCHANGED <<src, blind, back, accepted, closed, peer, s, r, acks, saved, spent>>

\* handle_source_failure, for a file whose data was never begun.
RControl ==
    /\ r.pc = "loop" /\ wire[1] # <<>>
    /\ wire' = Take(wire, 1)
    /\ r' = CASE Head(wire[1]).t = "transferDone" -> Continue([r EXCEPT !.doneSeen = TRUE])
              [] Head(wire[1]).t = "entryError" -> Continue([r EXCEPT !.completed = @ + 1])
              [] OTHER -> r
    /\ UNCHANGED <<src, blind, dest, back, accepted, closed, peer, s, dc, acks, saved, spent>>

\* disk_commit_task: the file is published under its name, or nothing changes.
\* A missing directory is made on the way, or makes the transfer fail.
Directory(p) == {Parent[p]} \ {ROOT}
Published(p) == Put(AfterDirs(dest, Directory(p)), {p}, [src[p] EXCEPT !.acl = FALSE])

\* The directory of p exists or can be made.
Placeable(p) == \A d \in Directory(p) : Creatable(d)

DiskCommit ==
    /\ dc # <<>>
    /\ dc' = Tail(dc)
    /\ LET p == Head(dc)
       IN  \/ /\ dest[p].kind # "dir" /\ Placeable(p)
              /\ dest' = Published(p) /\ acks' = Append(acks, [path |-> p, ok |-> TRUE]) /\ UNCHANGED spent
           \/ /\ dest[p].kind = "dir" \/ ~Placeable(p) \/ r.pc = "abort"
              /\ acks' = Append(acks, [path |-> p, ok |-> FALSE]) /\ UNCHANGED <<dest, spent>>
           \/ /\ Fault /\ acks' = Append(acks, [path |-> p, ok |-> FALSE]) /\ UNCHANGED dest
    /\ UNCHANGED <<src, blind, wire, back, accepted, closed, peer, s, r, saved>>

\* handle_file_outcome, in the loop and while the disk-commit task is stopped.
ROutcome ==
    /\ r.pc \in {"loop", "shutdown", "abort"} /\ acks # <<>>
    /\ acks' = Tail(acks)
    /\ RSend({[t |-> IF Head(acks).ok THEN "success" ELSE "error", path |-> Head(acks).path]})
    /\ r' = LET x == [r EXCEPT !.completed = @ + 1] IN IF r.pc = "loop" THEN Continue(x) ELSE x
    /\ UNCHANGED <<src, blind, dest, wire, accepted, closed, peer, s, dc, saved, spent>>

\* The connection is gone in the data phase.
RLost ==
    /\ r.pc = "loop" /\ closed
    /\ r' = [r EXCEPT !.pc = "abort", !.dirs = {}]
    /\ UNCHANGED <<src, blind, dest, wire, back, accepted, closed, peer, s, dc, acks, saved, spent>>

\* shutdown_disk_commit waits for every command and outcome, then
\* finalize_directories restores the metadata; finish reports AllDone, also when
\* some directory's could not be restored: that is only logged.
Finalized(failed) ==
    [p \in Paths |-> IF p \in r.dirs \ failed THEN [dest[p] EXCEPT !.meta = src[p].meta] ELSE dest[p]]

Drained == dc = <<>> /\ acks = <<>>

RShutdown ==
    /\ r.pc \in {"shutdown", "abort"} /\ Drained
    /\ \E failed \in SUBSET r.dirs :
          /\ IF failed = {} THEN UNCHANGED spent ELSE Fault
          /\ dest' = Finalized(failed)
          /\ r' = [r EXCEPT !.pc = IF @ = "shutdown" THEN "done" ELSE "failed", !.unrestored = failed]
    /\ RSend(IF r.pc = "shutdown" THEN {[t |-> "allDone"]} ELSE {})
    /\ UNCHANGED <<src, blind, wire, accepted, closed, peer, s, dc, acks, saved>>

\* serve_cmd waits for the sender to close the connection; then the job may be
\* run again, with the checkpoint file the last session left.
NextSession ==
    /\ Ended(s.pc) /\ Ended(r.pc) /\ dc = <<>> /\ acks = <<>> /\ spent.sessions < MaxSessions
    /\ spent' = [spent EXCEPT !.sessions = @ + 1]
    /\ wire' = <<<<>>, <<>>, <<>>>> /\ back' = <<<<>>, <<>>, <<>>, <<>>>>
    /\ accepted' = 0 /\ closed' = FALSE /\ s' = SStart /\ r' = RStart
    /\ UNCHANGED <<src, blind, dest, peer, dc, acks, saved>>

-----------------------------------------------------------------------------
Sender == SHello \/ SAnswer \/ SClosed \/ Advertise \/ SReceive \/ SaveCheckpoint \/ SFinish
Receiver == Accept \/ RHello \/ RClosed \/ RList \/ RData \/ RControl \/ ROutcome \/ RLost \/ RShutdown

Next == Sender \/ Receiver \/ DiskCommit \/ ListingFails \/ Lose \/ Crash \/ NextSession

\* Every task is polled again while it can go on; a stream's messages arrive.
Fairness ==
    /\ WF_vars(SHello) /\ WF_vars(SAnswer) /\ WF_vars(SClosed) /\ WF_vars(Advertise) /\ WF_vars(SReceive)
    /\ WF_vars(SaveCheckpoint) /\ WF_vars(SFinish) /\ WF_vars(Accept) /\ WF_vars(RHello) /\ WF_vars(RClosed)
    /\ WF_vars(RList) /\ WF_vars(RData) /\ WF_vars(RControl) /\ WF_vars(ROutcome) /\ WF_vars(RLost)
    /\ WF_vars(RShutdown) /\ WF_vars(DiskCommit)

Spec == Init /\ [][Next]_vars /\ Fairness

-----------------------------------------------------------------------------

\* With delete_target only what the source does not have is deleted: never an
\* entry the traversal could not observe, never what a list that broke off did
\* not reach, and a transfer's unfinished file only in a directory that the
\* source does not have.
DeletesOnlyGone ==
    [][\A p \in Paths : dest[p] # ABSENT /\ dest'[p] = ABSENT =>
          /\ IF dest[p].kind = "dir" THEN src[p].kind # "dir" ELSE src[p].kind # "file"
          /\ dest[p].kind = "part" => Parent[p] # ROOT /\ src[Parent[p]].kind # "dir"]_vars

\* When both sides end without an error, the destination is the source: every
\* file with its data and metadata, every directory with the metadata that was
\* restored after the last write in it, and with delete_target nothing else.
\* The one exception is the code's: a directory whose metadata could not be
\* restored is only logged, and the session ends as if it had been.
MirrorWhenClean ==
    s.pc = "done" /\ r.pc = "done" /\ s.errors = {} =>
        \A p \in Paths :
            IF src[p] # ABSENT
            THEN /\ dest[p].kind = src[p].kind /\ dest[p].data = src[p].data
                 /\ dest[p].meta = src[p].meta \/ p \in r.unrestored
            ELSE DeleteTarget => dest[p].kind \in {"absent", "part"}

\* The checkpoint file, complete or cut off by a crash, never names a path whose
\* file is not at the destination.
CheckpointIsPublished ==
    saved # TORN => \A p \in saved : dest[p].kind = "file" /\ dest[p].data = src[p].data

\* Nothing is written at the destination for a peer that the negotiation or the
\* token check refused.
RefusedChangesNothing ==
    [][dest' # dest => /\ Negotiate(peer.local, peer.build).ok
                       /\ peer.expected \in {"any", peer.token}]_vars

\* The destination loses nothing the source has, and changes for no peer that
\* was not let in.
OnlyPermittedChanges == DeletesOnlyGone /\ RefusedChangesNothing

\* Both sides always come to an end, also when the connection is lost: no side
\* waits for a stream the other has not opened yet.
BothEnd == []<>(Ended(s.pc) /\ Ended(r.pc))

=============================================================================
