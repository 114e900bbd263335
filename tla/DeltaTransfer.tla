--------------------------- MODULE DeltaTransfer ---------------------------
(***************************************************************************)
(* The delta transfer of one file: crates/sync-delta (signature, rolling,  *)
(* matcher, reconstruct), the request that the receiver makes of it, the   *)
(* sender's token stream and the disk-commit task that rebuilds the file   *)
(* (crates/app/src/file_commit.rs and file_commit/stream.rs).              *)
(*                                                                         *)
(* The receiver signs its old copy, the basis, block by block.  The sender *)
(* slides a window over the source, chunk after chunk, and sends a block   *)
(* number for what the basis has and literal bytes for the rest.  The      *)
(* disk-commit task reads the blocks back from the destination as it is at *)
(* that time, writes the result beside it or, in Direct mode, collects     *)
(* patches for it, and publishes.  Nothing locks the destination: another  *)
(* program may write to it at any moment.                                  *)
(*                                                                         *)
(* A byte is a small number; the strong hash of some bytes is the bytes    *)
(* themselves.  data-mover's sessions are external: reading a file fails   *)
(* if it changes while it is read; a Direct session refuses to patch a     *)
(* file that is not the one it was prepared on.                            *)
(***************************************************************************)
EXTENDS Integers, Sequences, FiniteSets, SequencesExt

CONSTANTS
    Sources,     \* contents of the source
    Bases,       \* contents of the destination
    BlockSize,   \* calculate_block_size, in bytes
    Modulus,     \* of the rolling checksum
    LiteralMax,  \* bytes of a data token: 1 MiB
    CoalesceMax, \* bytes of one read of the basis: 2 MiB
    ChunkMax,    \* bound: bytes a storage read yields at once
    Overwrites,  \* bound: what another program may write
    WireMax,     \* bound: tokens on the way before the sender waits
    MaxFaults    \* bound: failures, and writes of another program

ASSUME SizesAreUsable ==
    /\ BlockSize \in Nat \ {0} /\ LiteralMax \in Nat \ {0}
    /\ CoalesceMax >= BlockSize /\ Modulus > 1 /\ ChunkMax > 0

VARIABLES
    src,     \* the source's content
    dest,    \* the destination: content, version, and whether it exists
    session, \* enable_integrity_check and transfer_mode
    sig,     \* the receiver's SignatureCalculator and its read of the basis
    matcher, \* the sender's DeltaMatcher
    wire,    \* tokens, and how the source ends
    dc,      \* the FileCommitter's delta context and its writer
    outcome, \* what is reported of the entry
    faults

vars == <<src, dest, session, sig, matcher, wire, dc, outcome, faults>>

Cut(s, first, n) ==
    SubSeq(s, first, IF first + n - 1 < Len(s) THEN first + n - 1 ELSE Len(s))

Init ==
    /\ src \in Sources
    /\ \E d \in Bases : dest = [data |-> d, ver |-> 0, there |-> TRUE]
    /\ session \in [integrity : BOOLEAN, mode : {"direct", "atomic"}]
    /\ sig = [pc |-> "open", ver |-> 0, at |-> 0, buffer |-> << >>, list |-> << >>,
              basis |-> << >>]
    /\ matcher = [pc |-> "wait", fed |-> 0, carry |-> << >>, consumed |-> 0,
                  rc |-> <<0, 0>>, windowInit |-> FALSE, literal |-> << >>]
    /\ wire = << >>
    /\ dc = [pc |-> "idle", ver |-> 0, basisSize |-> 0, writePos |-> 0, pending |-> << >>,
             stage |-> << >>, kept |-> {}]
    /\ outcome = "none"
    /\ faults = 0

MayFail == faults < MaxFaults
Faulted == faults' = faults + 1

-----------------------------------------------------------------------------
(* The signatures of the basis.                                            *)

\* RollingChecksum::init and update
Sums(bytes) ==
    FoldLeft(LAMBDA ab, x : <<(ab[1] + x) % Modulus, (ab[2] + ab[1] + x) % Modulus>>,
             <<0, 0>>, bytes)

MutUpdate(rc, old, new) ==
    LET a == (rc[1] + Modulus + new - old) % Modulus
    IN <<a, (rc[2] + Modulus + rc[1] - (((BlockSize % Modulus) * old) % Modulus)) % Modulus>>

Update(rc, old, new) ==
    LET a == (rc[1] + Modulus + new - old) % Modulus
    IN <<a, (rc[2] + Modulus + a - (((BlockSize % Modulus) * old) % Modulus)) % Modulus>>

Signature(block) == [rolling |-> Sums(block), strong |-> block]

\* SignatureCalculator::push: full blocks are signed, the rest is kept.
SigPushed(s, bytes) ==
    LET all == s.buffer \o bytes
        full == Len(all) \div BlockSize
    IN [s EXCEPT !.at = @ + Len(bytes),
                 !.list = @ \o [i \in 1..full |->
                                  Signature(Cut(all, (i - 1) * BlockSize + 1, BlockSize))],
                 !.buffer = SubSeq(all, full * BlockSize + 1, Len(all))]

SigFinished(s) == IF s.buffer = << >> THEN s.list ELSE Append(s.list, Signature(s.buffer))

\* handle_delta_classification opens the basis.
OpenBasis ==
    /\ sig.pc = "open"
    /\ sig' = [sig EXCEPT !.pc = "read", !.ver = dest.ver]
    /\ UNCHANGED <<src, dest, session, matcher, wire, dc, outcome, faults>>

SignChunk ==
    /\ sig.pc = "read" /\ sig.ver = dest.ver /\ sig.at < Len(dest.data)
    /\ \E n \in 1..ChunkMax :
         /\ sig.at + n <= Len(dest.data)
         /\ sig' = SigPushed(sig, Cut(dest.data, sig.at + 1, n))
    /\ UNCHANGED <<src, dest, session, matcher, wire, dc, outcome, faults>>

\* The request goes out with the signatures.
RequestDelta ==
    /\ sig.pc = "read" /\ sig.ver = dest.ver /\ sig.at = Len(dest.data)
    /\ sig' = [sig EXCEPT !.pc = "requested", !.list = SigFinished(sig), !.basis = dest.data]
    /\ matcher' = [matcher EXCEPT !.pc = "match"]
    /\ UNCHANGED <<src, dest, session, wire, dc, outcome, faults>>

\* A basis that changes while it is read, or cannot be read: the full transfer.
RequestFull ==
    /\ sig.pc = "read"
    /\ IF sig.ver # dest.ver THEN UNCHANGED faults ELSE MayFail /\ Faulted
    /\ sig' = [sig EXCEPT !.pc = "full"]
    /\ outcome' = "full"
    /\ UNCHANGED <<src, dest, session, matcher, wire, dc>>

-----------------------------------------------------------------------------
(* DeltaMatcher: the window is the first BlockSize bytes of carry.         *)

Match(i) == [is |-> "match", block |-> i]
Data(bytes) == [is |-> "data", bytes |-> bytes]
Literal(bytes) == IF bytes = << >> THEN << >> ELSE <<Data(bytes)>>

\* push: send_delta_transfer has read another chunk of the source.
PushChunk ==
    /\ matcher.pc = "match" /\ Len(matcher.carry) < BlockSize /\ matcher.fed < Len(src)
    /\ \E n \in 1..ChunkMax :
         /\ matcher.fed + n <= Len(src)
         /\ matcher' = [matcher EXCEPT !.fed = @ + n,
                                       !.carry = @ \o Cut(src, matcher.fed + 1, n)]
    /\ UNCHANGED <<src, dest, session, sig, wire, dc, outcome, faults>>

\* The blocks (counted from 0) that have the window's checksums.
MutCandidates(rc, window) ==
    {i \in 0..(Len(sig.list) - 1) : sig.list[i + 1].rolling = rc}

Candidates(rc, window) ==
    {i \in 0..(Len(sig.list) - 1) : sig.list[i + 1] = [rolling |-> rc, strong |-> window]}

\* Of several the one at the same position, else the first.
Selected(found, position) ==
    IF position % BlockSize = 0 /\ (position \div BlockSize) \in found
    THEN position \div BlockSize ELSE CHOOSE i \in found : \A j \in found : i <= j

\* One turn of the loop in process.
MatchStep ==
    /\ matcher.pc = "match" /\ Len(matcher.carry) >= BlockSize /\ Len(wire) < WireMax
    /\ LET window == SubSeq(matcher.carry, 1, BlockSize)
           rc == IF matcher.windowInit THEN matcher.rc ELSE Sums(window)
           found == Candidates(rc, window)
           literal == Append(matcher.literal, Head(matcher.carry))
           sent == Len(literal) >= LiteralMax
       IN IF found # {}
          THEN /\ wire' = wire \o Literal(matcher.literal)
                               \o <<Match(Selected(found, matcher.consumed))>>
               /\ matcher' = [matcher EXCEPT
                    !.literal = << >>, !.windowInit = FALSE, !.consumed = @ + BlockSize,
                    !.carry = SubSeq(@, BlockSize + 1, Len(@))]
          ELSE /\ wire' = IF sent THEN Append(wire, Data(literal)) ELSE wire
               /\ matcher' = [matcher EXCEPT
                    !.literal = IF sent THEN << >> ELSE literal,
                    !.carry = Tail(@), !.consumed = @ + 1,
                    !.windowInit = Len(matcher.carry) > BlockSize,
                    !.rc = IF Len(matcher.carry) > BlockSize
                           THEN Update(rc, Head(matcher.carry), matcher.carry[BlockSize + 1])
                           ELSE rc]
    /\ UNCHANGED <<src, dest, session, sig, dc, outcome, faults>>

\* finish: the tail becomes literal and goes out in slices.
Slices(bytes) ==
    [i \in 1..((Len(bytes) + LiteralMax - 1) \div LiteralMax) |->
       Data(SubSeq(bytes, (i - 1) * LiteralMax + 1,
                   IF i * LiteralMax < Len(bytes) THEN i * LiteralMax ELSE Len(bytes)))]

FinishMatch ==
    /\ matcher.pc = "match" /\ Len(matcher.carry) < BlockSize /\ matcher.fed = Len(src)
    /\ wire' = wire \o Slices(matcher.literal \o matcher.carry) \o <<[is |-> "end"]>>
    /\ matcher' = [matcher EXCEPT !.pc = "done", !.carry = << >>, !.literal = << >>]
    /\ UNCHANGED <<src, dest, session, sig, dc, outcome, faults>>

\* A read fails, or the source is no longer the observed one: EntryError.
SourceFails ==
    /\ matcher.pc = "match" /\ MayFail /\ Faulted
    /\ matcher' = [matcher EXCEPT !.pc = "failed"]
    /\ wire' = Append(wire, [is |-> "error"])
    /\ UNCHANGED <<src, dest, session, sig, dc, outcome>>

-----------------------------------------------------------------------------
(* FileCommitter.                                                          *)

Reported(o) == outcome' = o

BeginFails == MayFail /\ Faulted /\ dc' = [dc EXCEPT !.pc = "failed"] /\ Reported("hard")

\* begin_delta, at the first token or at an EndOfFile without any: the basis is looked
\* at, and where it is gone the entry's own size is taken for it.
DescribeBasis ==
    /\ dc.pc = "idle" /\ wire # << >> /\ Head(wire).is # "error"
    /\ \/ /\ dc' = [dc EXCEPT !.pc = "described",
                              !.basisSize = IF dest.there THEN Len(dest.data) ELSE Len(src)]
          /\ UNCHANGED <<outcome, faults>>
       \/ BeginFails
    /\ UNCHANGED <<src, dest, session, sig, matcher, wire>>

\* prepare_observed_stream, the next request: the session that will publish.
PrepareSession ==
    /\ dc.pc = "described"
    /\ \/ /\ dc' = [dc EXCEPT !.pc = "active", !.ver = dest.ver]
          /\ UNCHANGED <<outcome, faults>>
       \/ BeginFails
    /\ UNCHANGED <<src, dest, session, sig, matcher, wire>>

\* Reconstructor::push of a match: the bytes of the basis it stands for.
Basis(d, i) ==
    LET from == i * BlockSize
        to == from + BlockSize
    IN [offset |-> from,
        len |-> IF to < d.basisSize THEN BlockSize ELSE d.basisSize - from]

\* push_delta: a block that follows the pending ones is read with them.
Joins(p, b) ==
    /\ p # << >>
    /\ p[1].offset + p[1].len = b.offset
    /\ p[1].len + b.len <= CoalesceMax

\* The writer takes chunks at their positions.
Wrote(d, at, bytes) == [d EXCEPT !.stage = @ \o bytes]

\* flush_basis: the range is read from the destination as it is now.
Readable(d) ==
    IF d.pending = << >> THEN TRUE
    ELSE d.pending[1].offset + d.pending[1].len <= Len(dest.data)

\* A chunk whose basis is at its own position is not rewritten in Direct mode.
MutUnchangedBasis(p) == (p.at + 1)..(p.at + p.len)

UnchangedBasis(p) == IF p.offset = p.at THEN (p.at + 1)..(p.at + p.len) ELSE {}

Flushed(d) ==
    IF d.pending = << >> THEN d
    ELSE LET p == d.pending[1]
         IN [Wrote(d, p.at, Cut(dest.data, p.offset + 1, p.len)) EXCEPT
               !.pending = << >>, !.kept = @ \cup UnchangedBasis(p)]

NextPending(d, b) ==
    [d EXCEPT !.pending = <<[offset |-> b.offset, len |-> b.len, at |-> d.writePos]>>,
              !.writePos = @ + b.len]

\* The session is torn down: settle_and_remove.
Settled(d) == [d EXCEPT !.pc = "failed", !.pending = << >>, !.stage = << >>, !.kept = {}]

PushDelta ==
    /\ dc.pc = "active" /\ wire # << >> /\ Head(wire).is \in {"match", "data"}
    /\ LET t == Head(wire)
           beyond == t.is = "match" /\ t.block * BlockSize >= dc.basisSize
           b == Basis(dc, t.block)
       IN IF t.is = "match" /\ ~beyond /\ Joins(dc.pending, b)
          THEN /\ dc' = [dc EXCEPT !.pending[1].len = @ + b.len, !.writePos = @ + b.len]
               /\ UNCHANGED outcome
          ELSE IF Readable(dc)
          THEN /\ dc' = IF t.is = "match"
                        THEN IF beyond THEN Flushed(dc) ELSE NextPending(Flushed(dc), b)
                        ELSE [Wrote(Flushed(dc), dc.writePos, t.bytes) EXCEPT
                                !.writePos = @ + Len(t.bytes)]
               /\ UNCHANGED outcome
          ELSE dc' = Settled(dc) /\ Reported("hard")
    /\ wire' = Tail(wire)
    /\ UNCHANGED <<src, dest, session, sig, matcher, faults>>

\* complete: a stage replaces the file; a Direct session applies its patches.
Published(d) ==
    IF session.mode = "atomic" THEN d.stage
    ELSE [i \in 1..Len(d.stage) |-> IF i \in d.kept THEN dest.data[i] ELSE d.stage[i]]

Verified(d) == session.integrity => d.stage = src

BasisIsCurrent(d) == session.mode = "direct" => dest.ver = d.ver

\* commit and finalize_file
Commit ==
    /\ dc.pc = "active" /\ wire # << >> /\ Head(wire).is = "end"
    /\ LET d == Flushed(dc)
       IN \/ /\ ~Readable(dc)
             /\ dc' = Settled(dc) /\ Reported("hard") /\ UNCHANGED <<dest, faults>>
          \/ /\ Readable(dc) /\ Len(d.stage) # Len(src)
             /\ dc' = Settled(d) /\ Reported("size") /\ UNCHANGED <<dest, faults>>
          \/ /\ Readable(dc) /\ Len(d.stage) = Len(src) /\ ~Verified(d)
             /\ dc' = Settled(d) /\ Reported("hash") /\ UNCHANGED <<dest, faults>>
          \/ /\ Readable(dc) /\ Len(d.stage) = Len(src) /\ Verified(d)
             /\ BasisIsCurrent(d)
             /\ dc' = [d EXCEPT !.pc = "completed", !.ver = dest.ver]
             /\ dest' = [data |-> Published(d), ver |-> dest.ver + 1, there |-> TRUE]
             /\ Reported("ok") /\ UNCHANGED faults
          \/ /\ Readable(dc) /\ Len(d.stage) = Len(src) /\ Verified(d)
             /\ IF BasisIsCurrent(d) THEN MayFail /\ Faulted ELSE UNCHANGED faults
             /\ dc' = Settled(d) /\ Reported("hard") /\ UNCHANGED dest
    /\ wire' = Tail(wire)
    /\ UNCHANGED <<src, session, sig, matcher>>

\* abort: the source has failed.  The committer reports nothing of its own; the
\* receiver has counted the source's error.
Abort ==
    /\ dc.pc \in {"idle", "active"} /\ wire # << >> /\ Head(wire).is = "error"
    /\ dc' = [Settled(dc) EXCEPT !.pc = "idle"]
    /\ Reported("source")
    /\ wire' = Tail(wire)
    /\ UNCHANGED <<src, dest, session, sig, matcher, faults>>

\* Tokens that come after a failure are dropped.
Drop ==
    /\ dc.pc = "failed" /\ wire # << >>
    /\ wire' = Tail(wire)
    /\ UNCHANGED <<src, dest, session, sig, matcher, dc, outcome, faults>>

\* Another program writes to the destination, or removes it.
OtherWriter ==
    /\ MayFail /\ Faulted /\ outcome = "none"
    /\ \/ \E d \in Overwrites : dest' = [data |-> d, ver |-> dest.ver + 1, there |-> TRUE]
       \/ dest' = [data |-> << >>, ver |-> dest.ver + 1, there |-> FALSE]
    /\ UNCHANGED <<src, session, sig, matcher, wire, dc, outcome>>

-----------------------------------------------------------------------------
Step ==
    \/ OpenBasis \/ SignChunk \/ RequestDelta \/ RequestFull
    \/ PushChunk \/ MatchStep \/ FinishMatch
    \/ DescribeBasis \/ PrepareSession \/ PushDelta \/ Commit \/ Abort \/ Drop

Next == Step \/ SourceFails \/ OtherWriter

Spec == Init /\ [][Next]_vars /\ WF_vars(Step)

-----------------------------------------------------------------------------
(* Properties                                                              *)

\* What a token stands for in the basis that was signed.
Meaning(t) ==
    IF t.is = "data" THEN t.bytes
    ELSE IF t.is # "match" THEN << >>
    ELSE Cut(sig.basis, t.block * BlockSize + 1, BlockSize)

\* Rebuilding from what was signed, whatever the chunks the source was read in, gives
\* the source: what is on the wire, in the matcher and already applied never loses,
\* repeats or reorders a byte as long as nobody else writes to the basis.
RebuildsSource ==
    (outcome = "none" /\ dest.ver = sig.ver /\ sig.pc = "requested") =>
        dc.stage \o (IF dc.pending = << >> THEN << >>
                     ELSE Cut(dest.data, dc.pending[1].offset + 1, dc.pending[1].len))
          \o FlattenSeq([i \in 1..Len(wire) |-> Meaning(wire[i])])
          \o matcher.literal \o matcher.carry
          = SubSeq(src, 1, matcher.fed)

\* A byte goes over the wire only if no whole block of the basis begins there: the
\* rolling checksum, updated byte by byte and restarted at the chunks' ends, misses none.
NoMissedBlock ==
    [][(MatchStep /\ Len(matcher'.carry) = Len(matcher.carry) - 1 /\ BlockSize > 1)
         => SubSeq(matcher.carry, 1, BlockSize) \notin {sig.list[i].strong : i \in DOMAIN sig.list}]_vars

\* Success means that the destination now has the source's bytes, unless the digests
\* are not compared and another program wrote to the basis after it was signed; and
\* a length or digest that does not agree always has such a writer behind it.
OutcomeIsRight ==
    /\ outcome = "ok" => dest.data = src \/ (~session.integrity /\ dc.ver # sig.ver)
    /\ outcome \in {"size", "hash"} => dest.ver # sig.ver

=============================================================================
