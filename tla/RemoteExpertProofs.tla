------------------------ MODULE RemoteExpertProofs ------------------------
(***************************************************************************)
(* The two ends of RemoteExpert agree for any walk, page size, window and  *)
(* chunk sizes, and any number of attempts and faults.                     *)
(***************************************************************************)
EXTENDS RemoteExpert, SequenceTheorems, TLAPS

\* Blocks of a stage may come from any version, so nothing is said of them
\* but that they form a sequence.
IsSeq(s) == s \in Seq(Range(s))

-----------------------------------------------------------------------------
(* The file list.  What is on its way is what the destination still lacks. *)

Files == {Walk[i] : i \in {j \in 1..Len(Walk) : Walk[j].is = "file"}}

Observations == [ndx : Nat, obs : Files]
Projections == [pos : Nat, pending : Seq(Observations), page : Nat, entries : Seq(Files),
                failures : Nat, end : {"walking", "completed", "cancelled", "failed"}]
Receivers == [page : Nat, ledger : Seq(Files), failures : Nat,
              end : {"open", "completed", "cancelled", "failed"}]

\* A projection that has numbered its entries and keeps the last few for the
\* next page.
Numbered(n, o) == [ndx |-> n, obs |-> o]
Numbers(a) == Len(a.entries) - Len(a.pending)
Projection(a) ==
    /\ a \in Projections
    /\ Len(a.pending) <= PageSize /\ Len(a.pending) <= Len(a.entries)
    /\ \A i \in 1..Len(a.pending) :
          a.pending[i] = Numbered(Numbers(a) + i - 1, a.entries[Numbers(a) + i])
Projecting ==
    /\ Projection(adv) /\ Len(adv.pending) < PageSize
    /\ adv.end # "walking" => adv.pending = << >>

\* The destination has a prefix of the entries.
Receiving ==
    /\ rx \in Receivers
    /\ Len(rx.ledger) <= Len(adv.entries)
    /\ \A i \in 1..Len(rx.ledger) : rx.ledger[i] = adv.entries[i]

\* How far a reader of the stream is: entries, pages and failures.  A message takes
\* it from x to y when it carries the entries es that follow x.
Tallies == [at : Nat, page : Nat, failures : Nat]

PageOf(m, x, y, es) ==
    /\ m.is = "page" /\ m.seq = x.page
    /\ m.entries \in Seq(Observations) /\ Len(m.entries) \in 1..PageSize
    /\ x.at + Len(m.entries) <= Len(es)
    /\ \A i \in 1..Len(m.entries) : m.entries[i] = Numbered(x.at + i - 1, es[x.at + i])
    /\ y.at = x.at + Len(m.entries) /\ y.page = x.page + 1 /\ y.failures = x.failures
FailureOf(m, x, y) ==
    m = WalkFailure /\ y.at = x.at /\ y.page = x.page /\ y.failures = x.failures + 1
Follows(m, x, y, es) ==
    PageOf(m, x, y, es) \/ FailureOf(m, x, y) \/ (m.is = "terminal" /\ y = x)

Carries(l, x, y, es) ==
    \E told \in [Nat -> Tallies] :
        /\ told[1] = x /\ told[Len(l) + 1] = y
        /\ \A i \in 1..Len(l) : Follows(l[i], told[i], told[i + 1], es)

Seen == [at |-> Len(rx.ledger), page |-> rx.page, failures |-> rx.failures]
Sent(a, p) == [at |-> Numbers(a), page |-> p, failures |-> a.failures]

\* What is on its way takes the destination to where the source is.  The last page
\* of an advertisement that has ended is not counted by the source.
Streamed ==
    \E p \in Nat : /\ adv.end = "walking" => p = adv.page
                   /\ Carries(list, Seen, Sent(adv, p), adv.entries)

\* A terminal is the last message, and there is one once the walk has ended.
Terminated ==
    /\ \A i \in 1..Len(list) : list[i].is = "terminal" => i = Len(list) /\ adv.end # "walking"
    /\ adv.end # "walking" => list # << >> /\ list[Len(list)] = Terminal(adv, adv.end)

Concluded ==
    /\ list = << >> /\ adv.end = rx.end
    /\ rx.ledger = adv.entries /\ rx.failures = adv.failures

ListInv ==
    /\ IsSeq(list)
    /\ rx.end = "open" => Streamed /\ Terminated
    /\ rx.end # "open" => Concluded

Advertised == Projecting /\ Receiving /\ ListInv

-----------------------------------------------------------------------------
(* The transfer.                                                           *)

\* What each side keeps, and what is durable.
SourceRow ==
    /\ src = [pc |-> src.pc, offset |-> src.offset, parts |-> src.parts, chunk |-> src.chunk,
              hash |-> src.hash]
    /\ src.offset \in Int /\ src.parts \in Seq(Int) /\ src.chunk \in Nat \ {0} /\ IsSeq(src.hash)
TargetRow ==
    /\ dst = [pc |-> dst.pc, expected |-> dst.expected, stage |-> dst.stage,
              chunk |-> dst.chunk, broken |-> dst.broken]
    /\ IsSeq(dst.stage)
DiskRow ==
    /\ disk = [stage |-> disk.stage, final |-> disk.final]
    /\ IsSeq(disk.stage)

\* Nothing is transferred before the list is complete.
Picked ==
    /\ attempts \in Nat
    /\ Running => rx.end = "completed" /\ pick \in 0..(Len(rx.ledger) - 1)
    /\ ~Running => disk.final = Unpublished /\ src.pc = "await"

\* While the file has not been rewritten, what was read is the advertised version.
Hashed ==
    /\ ver \in [Ids -> Nat \ {0}]
    /\ Running /\ ver[Obs.id] = 1 => \A i \in 1..Len(src.hash) : src.hash[i] = <<Obs.id, 1>>

\* What is on the way between the two: evidence only of a whole advertised
\* version, a success only of what is published.
FromSource(m) ==
    /\ m.is = "completed" => Running /\ m.digest = Content(Obs)
    /\ m.is = "payload" => IsSeq(m.blocks)
Request(m) ==
    /\ m.is \in {"requested", "payload_requested"}
    /\ m.is = "payload_requested" => m.prefix \in Nat /\ m.chunk \in Nat \ {0}
Outcome(m) ==
    /\ m.is \in {"completed", "failed", "cancelled"}
    /\ m.is = "completed" => dst.pc = "ok" /\ m.digest = disk.final

DataOk == IsSeq(data) /\ \A i \in 1..Len(data) : FromSource(data[i])
CtlOk == IsSeq(ctl) /\ \A i \in 1..Len(ctl) : Request(ctl[i])
AckOk == IsSeq(ack) /\ \A i \in 1..Len(ack) : Outcome(ack[i])

Published == disk.final # Unpublished => Running /\ disk.final = Content(Obs)

Transfer ==
    /\ SourceRow /\ TargetRow /\ DiskRow /\ Picked /\ Hashed
    /\ DataOk /\ CtlOk /\ AckOk /\ Published /\ SourceAgrees

IInv == Advertised /\ Transfer

-----------------------------------------------------------------------------
(* Sequences.                                                              *)

LEMMA SeqHasRange == ASSUME NEW S, NEW s \in Seq(S) PROVE IsSeq(s)
<1>1. Len(s) \in Nat /\ DOMAIN s = 1..Len(s) OBVIOUS
<1>2. \A i \in 1..Len(s) : s[i] \in Range(s) BY <1>1 DEF Range
<1> QED BY <1>1, <1>2, SubSeqFull, SubSeqProperties DEF IsSeq

LEMMA ConcatIsSeq ==
    ASSUME NEW s, NEW t, IsSeq(s), IsSeq(t)
    PROVE  /\ IsSeq(s \o t) /\ Len(s \o t) = Len(s) + Len(t)
           /\ \A i \in 1..Len(s) : (s \o t)[i] = s[i]
           /\ \A i \in 1..Len(t) : (s \o t)[Len(s) + i] = t[i]
<1> DEFINE U == Range(s) \cup Range(t)
<1>1. s \in Seq(U) /\ t \in Seq(U) BY DEF IsSeq
<1>2. s \o t \in Seq(U) /\ Len(s \o t) = Len(s) + Len(t) BY <1>1
<1>3. /\ \A i \in 1..Len(s) : (s \o t)[i] = s[i]
      /\ \A i \in 1..Len(t) : (s \o t)[Len(s) + i] = t[i]
  BY <1>1
<1> QED BY <1>2, <1>3, SeqHasRange

LEMMA AppendIsSeq ==
    ASSUME NEW s, NEW m, IsSeq(s)
    PROVE  /\ IsSeq(Append(s, m)) /\ Len(Append(s, m)) = Len(s) + 1 /\ Len(s) \in Nat
           /\ \A i \in 1..Len(s) : Append(s, m)[i] = s[i]
           /\ Append(s, m)[Len(s) + 1] = m
<1> DEFINE U == Range(s) \cup {m}
<1>1. s \in Seq(U) /\ m \in U BY DEF IsSeq
<1>2. Append(s, m) \in Seq(U) BY <1>1
<1>3. /\ Len(Append(s, m)) = Len(s) + 1 /\ Len(s) \in Nat
      /\ \A i \in 1..Len(s) : Append(s, m)[i] = s[i]
      /\ Append(s, m)[Len(s) + 1] = m
  BY <1>1
<1> QED BY <1>2, <1>3, SeqHasRange

LEMMA TailIsSeq ==
    ASSUME NEW s, IsSeq(s), s # << >>
    PROVE  /\ IsSeq(Tail(s)) /\ Len(s) \in Nat \ {0} /\ Len(Tail(s)) = Len(s) - 1
           /\ \A i \in 1..(Len(s) - 1) : Tail(s)[i] = s[i + 1]
           /\ Head(s) = s[1]
<1>1. s \in Seq(Range(s)) BY DEF IsSeq
<1>2. Tail(s) \in Seq(Range(s)) BY <1>1
<1>3. /\ Len(s) \in Nat \ {0} /\ Len(Tail(s)) = Len(s) - 1
      /\ \A i \in 1..(Len(s) - 1) : Tail(s)[i] = s[i + 1]
      /\ Head(s) = s[1]
  BY <1>1
<1> QED BY <1>2, <1>3, SeqHasRange

LEMMA SubSeqIsSeq == ASSUME NEW s, NEW m \in Int, NEW n \in Int PROVE IsSeq(SubSeq(s, m, n))
<1> DEFINE U == {s[i] : i \in m..n}
<1>1. SubSeq(s, m, n) \in Seq(U) BY SubSeqProperties
<1> QED BY <1>1, SeqHasRange

LEMMA PrefixKeeps ==
    ASSUME NEW s, IsSeq(s), NEW n \in 0..Len(s)
    PROVE  /\ IsSeq(SubSeq(s, 1, n)) /\ Len(SubSeq(s, 1, n)) = n /\ Len(s) \in Nat
           /\ \A i \in 1..n : SubSeq(s, 1, n)[i] = s[i]
<1>1. Len(s) \in Nat /\ n \in Int /\ n \in Nat BY DEF IsSeq
<1>2. IsSeq(SubSeq(s, 1, n)) BY <1>1, SubSeqIsSeq
<1>3. Len(SubSeq(s, 1, n)) = n /\ \A i \in 1..n : SubSeq(s, 1, n)[i] = s[i]
  BY <1>1, SubSeqProperties
<1> QED BY <1>1, <1>2, <1>3

LEMMA PageIsSeq == \A m : IsSeq(<<m>>) /\ Len(<<m>>) = 1 /\ <<m>>[1] = m
<1> SUFFICES ASSUME NEW m PROVE IsSeq(<<m>>) /\ Len(<<m>>) = 1 /\ <<m>>[1] = m OBVIOUS
<1>1. <<m>> \in Seq({m}) OBVIOUS
<1> QED BY <1>1, SeqHasRange


LEMMA ConstantSeq ==
    ASSUME NEW s, IsSeq(s), NEW e, NEW n, Len(s) = n, \A i \in 1..Len(s) : s[i] = e
    PROVE  s = [i \in 1..n |-> e]
<1>1. s \in Seq(Range(s)) BY DEF IsSeq
<1>2. Len(s) \in Nat /\ s \in [1..Len(s) -> Range(s)] BY <1>1, LenProperties
<1> QED BY <1>2

-----------------------------------------------------------------------------
(* What a stream carries.                                                  *)

LEMMA CarriesNothing == ASSUME NEW x \in Tallies, NEW es PROVE Carries(<< >>, x, x, es)
<1> DEFINE told == [i \in Nat |-> x]
<1>1. told \in [Nat -> Tallies] /\ told[1] = x /\ told[Len(<< >>) + 1] = x OBVIOUS
<1>2. 1..Len(<< >>) = {} OBVIOUS
<1> QED BY <1>1, <1>2 DEF Carries

\* A message more at the end takes the reader further.
LEMMA CarriesMore ==
    ASSUME NEW l, IsSeq(l), NEW x, NEW y, NEW z \in Tallies, NEW es, NEW m,
           Carries(l, x, y, es), Follows(m, y, z, es)
    PROVE  Carries(Append(l, m), x, z, es)
<1>1. PICK told \in [Nat -> Tallies] :
        /\ told[1] = x /\ told[Len(l) + 1] = y
        /\ \A i \in 1..Len(l) : Follows(l[i], told[i], told[i + 1], es)
  BY DEF Carries
<1>2. /\ Len(Append(l, m)) = Len(l) + 1 /\ Len(l) \in Nat
      /\ \A i \in 1..Len(l) : Append(l, m)[i] = l[i]
      /\ Append(l, m)[Len(l) + 1] = m
  BY AppendIsSeq
<1>3. PICK n : n = Len(l) /\ n \in Nat BY <1>2
<1> DEFINE more == [told EXCEPT ![n + 2] = z]
<1>4. /\ more \in [Nat -> Tallies] /\ more[n + 2] = z
      /\ \A i \in 1..(n + 1) : more[i] = told[i]
  BY <1>1, <1>3
<1> HIDE DEF more
<1>5. more[1] = x /\ more[Len(Append(l, m)) + 1] = z BY <1>1, <1>2, <1>3, <1>4
<1>6. ASSUME NEW i \in 1..(n + 1) PROVE Follows(Append(l, m)[i], more[i], more[i + 1], es)
  <2>1. CASE i = n + 1 BY <1>1, <1>2, <1>3, <1>4, <2>1
  <2>2. CASE i \in 1..n
    <3>1. more[i] = told[i] /\ more[i + 1] = told[i + 1] BY <1>3, <1>4, <2>2
    <3> QED BY <1>1, <1>2, <1>3, <2>2, <3>1
  <2> QED BY <1>3, <2>1, <2>2
<1> QED BY <1>2, <1>3, <1>4, <1>5, <1>6 DEF Carries

\* Reading the first message leaves a stream that carries the rest.
LEMMA CarriesRest ==
    ASSUME NEW l, IsSeq(l), l # << >>, NEW x, NEW z, NEW es, Carries(l, x, z, es)
    PROVE  \E y \in Tallies : Follows(Head(l), x, y, es) /\ Carries(Tail(l), y, z, es)
<1>1. PICK told \in [Nat -> Tallies] :
        /\ told[1] = x /\ told[Len(l) + 1] = z
        /\ \A i \in 1..Len(l) : Follows(l[i], told[i], told[i + 1], es)
  BY DEF Carries
<1>2. /\ Len(l) \in Nat \ {0} /\ Len(Tail(l)) = Len(l) - 1
      /\ \A i \in 1..(Len(l) - 1) : Tail(l)[i] = l[i + 1]
      /\ Head(l) = l[1]
  BY TailIsSeq
<1>3. PICK n : n = Len(l) /\ n \in Nat \ {0} BY <1>2
<1> DEFINE rest == [i \in Nat |-> told[i + 1]]
<1>4. rest \in [Nat -> Tallies] /\ \A i \in Nat : rest[i] = told[i + 1] BY <1>1
<1> HIDE DEF rest
<1>5. rest[1] = told[2] /\ rest[Len(Tail(l)) + 1] = z BY <1>1, <1>2, <1>3, <1>4
<1>6. ASSUME NEW i \in 1..Len(Tail(l)) PROVE Follows(Tail(l)[i], rest[i], rest[i + 1], es)
  <2>1. i \in 1..(n - 1) /\ i + 1 \in 1..n BY <1>2, <1>3
  <2>2. rest[i] = told[i + 1] /\ rest[i + 1] = told[i + 1 + 1] BY <1>4, <2>1
  <2> QED BY <1>1, <1>2, <1>3, <2>1, <2>2
<1>7. Follows(Head(l), x, told[2], es) /\ told[2] \in Tallies BY <1>1, <1>2, <1>3
<1> QED BY <1>4, <1>5, <1>6, <1>7 DEF Carries

\* Entries that come later change nothing on the way.
LEMMA CarriesStill ==
    ASSUME NEW l, NEW x, NEW y, NEW es \in Seq(Files), NEW more \in Seq(Files),
           Len(es) <= Len(more), \A i \in 1..Len(es) : more[i] = es[i], Carries(l, x, y, es)
    PROVE  Carries(l, x, y, more)
<1>1. PICK told \in [Nat -> Tallies] :
        /\ told[1] = x /\ told[Len(l) + 1] = y
        /\ \A i \in 1..Len(l) : Follows(l[i], told[i], told[i + 1], es)
  BY DEF Carries
<1>2. ASSUME NEW m, NEW a \in Tallies, NEW b, PageOf(m, a, b, es) PROVE PageOf(m, a, b, more)
  <2>1. a.at \in Nat /\ Len(es) \in Nat /\ Len(more) \in Nat
    <3>1. a.at \in Nat BY DEF Tallies
    <3> QED BY <3>1, LenProperties
  <2>2. /\ m.is = "page" /\ m.seq = a.page
        /\ m.entries \in Seq(Observations) /\ Len(m.entries) \in 1..PageSize
        /\ a.at + Len(m.entries) <= Len(es)
        /\ b.at = a.at + Len(m.entries) /\ b.page = a.page + 1 /\ b.failures = a.failures
    BY <1>2 DEF PageOf
  <2>3. \A i \in 1..Len(m.entries) : m.entries[i] = Numbered(a.at + i - 1, es[a.at + i])
    BY <1>2 DEF PageOf
  <2>4. Len(m.entries) \in Nat BY <2>2
  <2>5. \A i \in 1..Len(m.entries) : a.at + i \in 1..Len(es) BY <2>1, <2>2, <2>4
  <2>6. \A i \in 1..Len(m.entries) : m.entries[i] = Numbered(a.at + i - 1, more[a.at + i])
    BY <2>3, <2>5
  <2>7. a.at + Len(m.entries) <= Len(more) BY <2>1, <2>2, <2>4
  <2> QED BY <2>2, <2>6, <2>7 DEF PageOf
<1>3. ASSUME NEW i \in 1..Len(l) PROVE Follows(l[i], told[i], told[i + 1], more)
  <2>1. told[i] \in Tallies
    <3>1. i \in Nat BY ONLY <1>3
    <3> QED BY <3>1, <1>1
  <2>2. Follows(l[i], told[i], told[i + 1], es) BY <1>1
  <2> QED BY <1>2, <2>1, <2>2 DEF Follows
<1> QED BY <1>1, <1>3 DEF Carries

LEMMA ConcatIsAppend ==
    ASSUME NEW l, IsSeq(l), NEW m
    PROVE  l \o <<m>> = Append(l, m)
<1> DEFINE U == Range(l) \cup {m}
<1>1. l \in Seq(U) /\ m \in U BY DEF IsSeq
<1> QED BY <1>1, AppendIsConcat

LEMMA ConcatIsAppends ==
    ASSUME NEW l, IsSeq(l), NEW p, NEW m
    PROVE  l \o Append(<<p>>, m) = Append(Append(l, p), m)
<1> DEFINE U == Range(l) \cup {p, m}
<1>1. l \in Seq(U) /\ <<p>> \in Seq(U) /\ <<m>> \in Seq(U) /\ p \in U /\ m \in U BY DEF IsSeq
<1>2. Append(<<p>>, m) = <<p>> \o <<m>> BY <1>1, AppendIsConcat
<1>3. l \o (<<p>> \o <<m>>) = (l \o <<p>>) \o <<m>> BY <1>1, ConcatAssociative
<1>4. IsSeq(l \o <<p>>) BY PageIsSeq, ConcatIsSeq
<1> QED BY <1>2, <1>3, <1>4, ConcatIsAppend

-----------------------------------------------------------------------------
(* The source's side of the list.                                          *)

\* push_entry gives an entry the number of its place.
LEMMA PushedEffect ==
    ASSUME Projecting, NEW o \in Files, NEW a, a = Pushed(adv, o)
    PROVE  /\ Projection(a) /\ a.pending # << >>
           /\ a.page = adv.page /\ a.failures = adv.failures /\ a.end = adv.end
           /\ Numbers(a) = Numbers(adv)
           /\ Len(adv.entries) <= Len(a.entries)
           /\ \A i \in 1..Len(adv.entries) : a.entries[i] = adv.entries[i]
<1>1. adv \in Projections BY DEF Projecting, Projection
<1>2. adv.pending \in Seq(Observations) /\ adv.entries \in Seq(Files) BY <1>1 DEF Projections
<1>3. Len(adv.pending) \in Nat /\ Len(adv.entries) \in Nat BY <1>2
<1>4. /\ a.pos = adv.pos + 1 /\ a.entries = Append(adv.entries, o)
      /\ a.pending = Append(adv.pending, [ndx |-> Len(adv.entries), obs |-> o])
      /\ a.page = adv.page /\ a.failures = adv.failures /\ a.end = adv.end
  BY <1>1 DEF Pushed, Projections
<1>5. [ndx |-> Len(adv.entries), obs |-> o] \in Observations BY <1>3 DEF Observations
<1>6. /\ a.entries \in Seq(Files) /\ a.pending \in Seq(Observations)
      /\ Len(a.pending) = Len(adv.pending) + 1 /\ Len(a.entries) = Len(adv.entries) + 1
      /\ \A i \in 1..Len(adv.entries) : a.entries[i] = adv.entries[i]
      /\ \A i \in 1..Len(adv.pending) : a.pending[i] = adv.pending[i]
      /\ a.entries[Len(adv.entries) + 1] = o
      /\ a.pending[Len(adv.pending) + 1] = [ndx |-> Len(adv.entries), obs |-> o]
  BY <1>2, <1>3, <1>4, <1>5
<1>7. a \in Projections
  <2>1. a = [pos |-> a.pos, pending |-> a.pending, page |-> a.page, entries |-> a.entries,
             failures |-> a.failures, end |-> a.end]
    BY <1>1 DEF Pushed, Projections
  <2>2. a.pos \in Nat /\ a.page \in Nat /\ a.failures \in Nat
        /\ a.end \in {"walking", "completed", "cancelled", "failed"}
    BY <1>1, <1>4 DEF Projections
  <2> QED BY <1>6, <2>1, <2>2 DEF Projections
<1>8. Numbers(a) = Numbers(adv) /\ Numbers(adv) \in Nat
      /\ Len(adv.entries) = Numbers(adv) + Len(adv.pending)
  BY <1>3, <1>6 DEF Projecting, Projection, Numbers
<1>9. ASSUME NEW i \in 1..Len(a.pending)
      PROVE  a.pending[i] = Numbered(Numbers(adv) + i - 1, a.entries[Numbers(adv) + i])
  <2>2. CASE i = Len(adv.pending) + 1 BY <1>3, <1>6, <1>8, <2>2 DEF Numbered
  <2>3. CASE i \in 1..Len(adv.pending)
    <3>1. adv.pending[i] = Numbered(Numbers(adv) + i - 1, adv.entries[Numbers(adv) + i])
      BY <2>3 DEF Projecting, Projection
    <3>2. Numbers(adv) + i \in 1..Len(adv.entries) BY <1>3, <1>8, <2>3
    <3> QED BY <1>6, <2>3, <3>1, <3>2
  <2> QED BY <1>3, <1>6, <2>2, <2>3
<1>10. Len(a.pending) <= PageSize /\ Len(a.pending) <= Len(a.entries)
       /\ Len(adv.entries) <= Len(a.entries) /\ Len(a.pending) # 0
  BY <1>3, <1>6, ExpertAssumption DEF Projecting, Projection
<1>11. a.pending # << >> BY <1>10
<1> QED BY <1>4, <1>6, <1>7, <1>8, <1>9, <1>10, <1>11 DEF Projection

\* A page of what is pending is the next the destination expects.
LEMMA PageFollows ==
    ASSUME NEW a, Projection(a), a.pending # << >>
    PROVE  LET z == [at |-> Len(a.entries), page |-> a.page + 1, failures |-> a.failures]
           IN  z \in Tallies /\ Follows(Page(a), Sent(a, a.page), z, a.entries)
<1>1. /\ a.pending \in Seq(Observations) /\ a.entries \in Seq(Files)
      /\ a.page \in Nat /\ a.failures \in Nat
  BY DEF Projection, Projections
<1>2. /\ Len(a.pending) \in 1..PageSize /\ Len(a.entries) = Numbers(a) + Len(a.pending)
      /\ Numbers(a) \in Nat /\ Len(a.entries) \in Nat
  <2>1. Len(a.pending) \in Nat \ {0} /\ Len(a.entries) \in Nat BY <1>1
  <2> QED BY <2>1, ExpertAssumption DEF Projection, Numbers
<1>3. \A i \in 1..Len(a.pending) :
          a.pending[i] = Numbered(Numbers(a) + i - 1, a.entries[Numbers(a) + i])
  BY DEF Projection
<1>4. /\ Page(a).is = "page" /\ Page(a).seq = a.page /\ Page(a).entries = a.pending BY DEF Page
<1>5. PICK z : z = [at |-> Len(a.entries), page |-> a.page + 1, failures |-> a.failures] OBVIOUS
<1>6. z \in Tallies BY <1>1, <1>2, <1>5 DEF Tallies
<1>7. PageOf(Page(a), Sent(a, a.page), z, a.entries)
  BY <1>1, <1>2, <1>3, <1>4, <1>5 DEF PageOf, Sent
<1> QED BY <1>5, <1>6, <1>7 DEF Follows

\* Nothing has been concluded while the walk goes on.
LEMMA WhileWalking ==
    ASSUME Advertised, adv.end = "walking"
    PROVE  /\ rx.end = "open" /\ IsSeq(list)
           /\ Carries(list, Seen, Sent(adv, adv.page), adv.entries)
           /\ \A i \in 1..Len(list) : list[i].is # "terminal"
<1>1. rx.end = "open" BY DEF Advertised, ListInv, Concluded, Receiving, Receivers
<1>2. IsSeq(list) /\ Streamed /\ Terminated BY <1>1 DEF Advertised, ListInv
<1> QED BY <1>1, <1>2 DEF Streamed, Terminated

\* The destination's prefix stays one.
LEMMA StillReceiving ==
    ASSUME Receiving, adv.entries \in Seq(Files), adv'.entries \in Seq(Files), UNCHANGED rx,
           Len(adv.entries) <= Len(adv'.entries),
           \A i \in 1..Len(adv.entries) : adv'.entries[i] = adv.entries[i]
    PROVE  Receiving' /\ Seen' = Seen
<1>1. rx \in Receivers /\ Len(rx.ledger) \in Nat BY DEF Receiving, Receivers
<1>2. /\ Len(rx.ledger) <= Len(adv.entries)
      /\ \A i \in 1..Len(rx.ledger) : rx.ledger[i] = adv.entries[i]
  BY DEF Receiving
<1>3. Len(adv.entries) \in Nat /\ Len(adv'.entries) \in Nat BY LenProperties
<1>4. Len(rx.ledger) <= Len(adv'.entries) BY <1>1, <1>2, <1>3
<1>5. \A i \in 1..Len(rx.ledger) : rx.ledger[i] = adv'.entries[i] BY <1>1, <1>2, <1>3
<1> QED BY <1>1, <1>4, <1>5 DEF Receiving, Seen

\* The source's steps leave the destination's side of the list as it was.
LEMMA AdvertisedAgain ==
    ASSUME Advertised, adv.end = "walking", UNCHANGED rx, Projecting',
           Len(adv.entries) <= Len(adv'.entries),
           \A i \in 1..Len(adv.entries) : adv'.entries[i] = adv.entries[i],
           IsSeq(list'),
           (rx.end = "open" /\ Seen' = Seen) => Streamed' /\ Terminated'
    PROVE  Advertised'
<1>1. adv.entries \in Seq(Files) /\ adv'.entries \in Seq(Files)
  BY DEF Advertised, Projecting, Projection, Projections
<1>2. Receiving' /\ Seen' = Seen BY <1>1, StillReceiving DEF Advertised
<1>3. rx.end = "open" /\ rx'.end = "open" BY WhileWalking
<1> QED BY <1>2, <1>3 DEF Advertised, ListInv

LEMMA EntryAdvertised == ASSUME Advertised, AdvertiseEntry PROVE Advertised'
<1>1. /\ adv.end = "walking" /\ adv.pos < Len(Walk) /\ Walk[adv.pos + 1].is = "file"
      /\ UNCHANGED rx
  BY DEF AdvertiseEntry
<1>2. PICK o : o = Walk[adv.pos + 1] OBVIOUS
<1>T. Projecting /\ adv \in Projections /\ adv.entries \in Seq(Files)
  BY DEF Advertised, Projecting, Projection, Projections
<1>3. o \in Files
  <2>1. adv.pos \in Nat BY <1>T DEF Projections
  <2> QED BY <1>1, <1>2, <2>1, ExpertAssumption DEF Files
<1>4. PICK a : a = Pushed(adv, o) OBVIOUS
<1>5. IF Len(a.pending) = PageSize
        THEN adv' = Paged(a) /\ list' = list \o <<Page(a)>> ELSE adv' = a /\ UNCHANGED list
  BY <1>2, <1>4 DEF AdvertiseEntry, Send
<1>6. /\ Projection(a) /\ a.pending # << >>
      /\ a.page = adv.page /\ a.failures = adv.failures /\ a.end = adv.end
      /\ Numbers(a) = Numbers(adv)
      /\ Len(adv.entries) <= Len(a.entries)
      /\ \A i \in 1..Len(adv.entries) : a.entries[i] = adv.entries[i]
  BY <1>T, <1>3, <1>4, PushedEffect
<1>7. /\ IsSeq(list) /\ \A i \in 1..Len(list) : list[i].is # "terminal"
      /\ Carries(list, Seen, Sent(adv, adv.page), adv.entries)
  BY <1>1, WhileWalking
<1>8. Sent(a, a.page) = Sent(adv, adv.page) BY <1>6 DEF Sent
<1>9. a \in Projections /\ a.entries \in Seq(Files) /\ a.page \in Nat
  BY <1>6 DEF Projection, Projections
<1>10. Carries(list, Seen, Sent(a, a.page), a.entries)
  BY <1>T, <1>6, <1>7, <1>8, <1>9, CarriesStill
<1>11. CASE Len(a.pending) # PageSize
  <2>1. adv' = a /\ UNCHANGED list BY <1>5, <1>11
  <2>2. Len(a.pending) < PageSize
    <3>1. a.pending \in Seq(Observations) BY <1>9 DEF Projections
    <3>2. Len(a.pending) \in Nat BY <3>1
    <3>3. Len(a.pending) <= PageSize BY <1>6 DEF Projection
    <3> QED BY <1>11, <3>2, <3>3, ExpertAssumption
  <2>3. Projecting' BY <1>1, <1>6, <2>1, <2>2 DEF Projecting, Projection, Numbers
  <2>4. ASSUME Seen' = Seen PROVE Streamed' /\ Terminated'
    <3>1. adv'.end = "walking" /\ list' = list BY <1>1, <1>6, <2>1
    <3>2. Carries(list', Seen', Sent(adv', adv'.page), adv'.entries) BY <1>10, <2>1, <2>4
    <3> QED BY <1>7, <1>9, <2>1, <3>1, <3>2 DEF Streamed, Terminated, Sent, Numbers
  <2> QED BY <1>1, <1>6, <1>7, <2>1, <2>3, <2>4, AdvertisedAgain
<1>12. CASE Len(a.pending) = PageSize
  <2>1. list' = Append(list, Page(a)) BY <1>5, <1>7, <1>12, ConcatIsAppend
  <2>2. /\ adv' = [a EXCEPT !.pending = << >>, !.page = @ + 1]
        /\ adv'.pending = << >> /\ adv'.page = a.page + 1 /\ adv'.entries = a.entries
        /\ adv'.failures = a.failures /\ adv'.end = a.end
    BY <1>5, <1>9, <1>12 DEF Paged, Projections
  <2>3. Projecting'
    <3>1. adv' \in Projections
      <4>1. adv' = [pos |-> a.pos, pending |-> << >>, page |-> a.page + 1, entries |-> a.entries,
                    failures |-> a.failures, end |-> a.end]
        BY <1>9, <2>2 DEF Projections
      <4>2. a.pos \in Nat /\ a.page + 1 \in Nat /\ a.failures \in Nat
            /\ a.end \in {"walking", "completed", "cancelled", "failed"}
        BY <1>9 DEF Projections
      <4>3. << >> \in Seq(Observations) OBVIOUS
      <4> QED BY <1>9, <4>1, <4>2, <4>3 DEF Projections
    <3>2. Len(adv'.pending) = 0 /\ Len(adv'.entries) \in Nat BY <1>9, <2>2
    <3> QED BY <1>1, <2>2, <3>1, <3>2, ExpertAssumption DEF Projecting, Projection
  <2>4. PICK z : z = [at |-> Len(a.entries), page |-> a.page + 1, failures |-> a.failures] OBVIOUS
  <2>5. z \in Tallies /\ Follows(Page(a), Sent(a, a.page), z, a.entries)
    BY <1>6, <2>4, PageFollows
  <2>6. Carries(Append(list, Page(a)), Seen, z, a.entries)
    BY <1>7, <1>10, <2>5, CarriesMore
  <2>7. Numbers(adv') = Len(a.entries)
    <3>1. Len(a.entries) \in Nat /\ Len(adv'.pending) = 0 BY <1>9, <2>2
    <3> QED BY <2>2, <3>1 DEF Numbers
  <2>8. Sent(adv', adv'.page) = z BY <2>2, <2>4, <2>7 DEF Sent
  <2>9. IsSeq(list') /\ Len(list') = Len(list) + 1 /\ Len(list) \in Nat
    BY <1>7, <2>1, AppendIsSeq
  <2>12. \A i \in 1..Len(list) : list'[i] = list[i] BY <1>7, <2>1, AppendIsSeq
  <2>13. list'[Len(list) + 1] = Page(a) BY <1>7, <2>1, AppendIsSeq
  <2>10. \A i \in 1..Len(list') : list'[i].is # "terminal"
    <3>0. Page(a).is = "page" BY DEF Page
    <3>1. list'[Len(list) + 1].is = "page" BY <2>13, <3>0
    <3>2. 1..Len(list') = 1..Len(list) \cup {Len(list) + 1} BY <2>9
    <3> QED BY <1>7, <2>12, <3>1, <3>2
  <2>11. ASSUME Seen' = Seen PROVE Streamed' /\ Terminated'
    <3>1. adv'.end = "walking" /\ adv'.page \in Nat BY <1>1, <1>6, <1>9, <2>2
    <3>2. Carries(list', Seen', Sent(adv', adv'.page), adv'.entries)
      BY <2>1, <2>2, <2>6, <2>8, <2>11
    <3> QED BY <2>10, <3>1, <3>2 DEF Streamed, Terminated, Sent, Numbers
  <2> QED BY <1>1, <1>6, <2>2, <2>3, <2>9, <2>11, AdvertisedAgain
<1> QED BY <1>11, <1>12

\* What was pending and one message more.
LEMMA TakenThenMore ==
    ASSUME Advertised, adv.end = "walking", NEW m, NEW p \in Nat, NEW z \in Tallies,
           p = IF adv.pending = << >> THEN adv.page ELSE adv.page + 1,
           NEW y, y = [at |-> Len(adv.entries), page |-> p, failures |-> adv.failures],
           Follows(m, y, z, adv.entries),
           list' = list \o Append(Taken(adv), m)
    PROVE  /\ IsSeq(list') /\ Carries(list', Seen, z, adv.entries)
           /\ list' # << >> /\ list'[Len(list')] = m
           /\ \A i \in 1..Len(list') : i # Len(list') => list'[i].is # "terminal"
<1>1. /\ IsSeq(list) /\ \A i \in 1..Len(list) : list[i].is # "terminal"
      /\ Carries(list, Seen, Sent(adv, adv.page), adv.entries)
  BY WhileWalking
<1>2. Projection(adv) /\ adv.pending \in Seq(Observations) /\ adv.entries \in Seq(Files)
  BY DEF Advertised, Projecting, Projection, Projections
<1>3. PICK l : /\ IsSeq(l) /\ Carries(l, Seen, y, adv.entries) /\ list' = Append(l, m)
               /\ \A i \in 1..Len(l) : l[i].is # "terminal"
  <2>1. CASE adv.pending = << >>
    <3>1. Len(adv.pending) = 0 /\ Len(adv.entries) \in Nat BY <1>2, <2>1
    <3>2. Sent(adv, adv.page) = y BY <2>1, <3>1 DEF Sent, Numbers
    <3>3. Append(Taken(adv), m) = <<m>> BY <2>1 DEF Taken
    <3> QED BY <1>1, <3>2, <3>3, ConcatIsAppend
  <2>2. CASE adv.pending # << >>
    <3>1. y \in Tallies /\ Follows(Page(adv), Sent(adv, adv.page), y, adv.entries)
      BY <1>2, <2>2, PageFollows
    <3>2. Carries(Append(list, Page(adv)), Seen, y, adv.entries) BY <1>1, <3>1, CarriesMore
    <3>3. Append(Taken(adv), m) = Append(<<Page(adv)>>, m) BY <2>2 DEF Taken
    <3>4. list' = Append(Append(list, Page(adv)), m) BY <1>1, <3>3, ConcatIsAppends
    <3>5. IsSeq(Append(list, Page(adv))) /\ Len(Append(list, Page(adv))) = Len(list) + 1
          /\ Len(list) \in Nat
          /\ \A i \in 1..Len(list) : Append(list, Page(adv))[i] = list[i]
          /\ Append(list, Page(adv))[Len(list) + 1] = Page(adv)
      BY <1>1, AppendIsSeq
    <3>6. \A i \in 1..Len(Append(list, Page(adv))) : Append(list, Page(adv))[i].is # "terminal"
      BY <1>1, <3>5 DEF Page
    <3> QED BY <3>2, <3>4, <3>5, <3>6
  <2> QED BY <2>1, <2>2
<1>4. /\ IsSeq(list') /\ Len(list') = Len(l) + 1 /\ Len(l) \in Nat
      /\ \A i \in 1..Len(l) : list'[i] = l[i]
      /\ list'[Len(l) + 1] = m
  BY <1>3, AppendIsSeq
<1>5. Carries(list', Seen, z, adv.entries) BY <1>3, CarriesMore
<1>6. list' # << >> BY <1>4
<1> QED BY <1>3, <1>4, <1>5, <1>6

LEMMA FailureAdvertised == ASSUME Advertised, AdvertiseFailure PROVE Advertised'
<1>1. /\ adv.end = "walking" /\ UNCHANGED rx BY DEF AdvertiseFailure
<1>T. /\ Projecting /\ adv \in Projections /\ adv.entries \in Seq(Files)
      /\ adv.page \in Nat /\ adv.failures \in Nat /\ adv.pos \in Nat
  BY DEF Advertised, Projecting, Projection, Projections
<1>2. PICK p \in Nat : p = IF adv.pending = << >> THEN adv.page ELSE adv.page + 1 BY <1>T
<1>3. /\ list' = list \o Append(Taken(adv), WalkFailure)
      /\ adv' = [(IF Taken(adv) = << >> THEN adv ELSE Paged(adv))
                   EXCEPT !.pos = @ + 1, !.failures = @ + 1]
  BY DEF AdvertiseFailure, Send
<1>4. Taken(adv) = << >> <=> adv.pending = << >>
  <2>1. <<Page(adv)>> # << >> BY PageIsSeq
  <2> QED BY <2>1 DEF Taken
<1>5. adv' = [pos |-> adv.pos + 1, pending |-> << >>, page |-> p, entries |-> adv.entries,
              failures |-> adv.failures + 1, end |-> adv.end]
  <2>1. CASE adv.pending = << >>
    <3>1. adv' = [adv EXCEPT !.pos = @ + 1, !.failures = @ + 1] BY <1>3, <1>4, <2>1
    <3> QED BY <1>T, <1>2, <2>1, <3>1 DEF Projections
  <2>2. CASE adv.pending # << >>
    <3>1. adv' = [[adv EXCEPT !.pending = << >>, !.page = @ + 1]
                     EXCEPT !.pos = @ + 1, !.failures = @ + 1]
      BY <1>3, <1>4, <2>2 DEF Paged
    <3> QED BY <1>T, <1>2, <2>2, <3>1 DEF Projections
  <2> QED BY <2>1, <2>2
<1>6. /\ adv'.pending = << >> /\ adv'.page = p /\ adv'.entries = adv.entries
      /\ adv'.failures = adv.failures + 1 /\ adv'.end = "walking"
  BY <1>1, <1>5
<1>7. Len(adv'.pending) = 0 /\ Len(adv'.entries) \in Nat BY <1>T, <1>6
<1>8. Projecting'
  <2>1. adv' \in Projections
    <3>1. << >> \in Seq(Observations) /\ adv.pos + 1 \in Nat /\ adv.failures + 1 \in Nat
          /\ adv.end \in {"walking", "completed", "cancelled", "failed"}
      BY <1>1, <1>T
    <3> QED BY <1>T, <1>5, <3>1 DEF Projections
  <2> QED BY <1>6, <1>7, <2>1, ExpertAssumption DEF Projecting, Projection
<1>9. PICK y : y = [at |-> Len(adv.entries), page |-> p, failures |-> adv.failures] OBVIOUS
<1>10. PICK z : z = [at |-> Len(adv.entries), page |-> p, failures |-> adv.failures + 1] OBVIOUS
<1>11. z \in Tallies BY <1>T, <1>6, <1>7, <1>10 DEF Tallies
<1>12. Follows(WalkFailure, y, z, adv.entries) BY <1>9, <1>10 DEF Follows, FailureOf
<1>13. /\ IsSeq(list') /\ Carries(list', Seen, z, adv.entries)
       /\ list' # << >> /\ list'[Len(list')] = WalkFailure
       /\ \A i \in 1..Len(list') : i # Len(list') => list'[i].is # "terminal"
  BY <1>1, <1>2, <1>3, <1>9, <1>11, <1>12, TakenThenMore
<1>14. Sent(adv', adv'.page) = z
  <2>1. Numbers(adv') = Len(adv.entries) BY <1>6, <1>7 DEF Numbers
  <2> QED BY <1>6, <1>10, <2>1 DEF Sent
<1>15. ASSUME Seen' = Seen PROVE Streamed' /\ Terminated'
  <2>1. Carries(list', Seen', Sent(adv', adv'.page), adv'.entries)
    BY <1>6, <1>13, <1>14, <1>15
  <2>2. Streamed' BY <1>6, <2>1 DEF Streamed, Sent, Numbers
  <2>3. \A i \in 1..Len(list') : list'[i].is # "terminal" BY <1>13 DEF WalkFailure
  <2> QED BY <1>6, <2>2, <2>3 DEF Terminated
<1>16. Len(adv.entries) <= Len(adv'.entries) BY <1>6, <1>7
<1> QED BY <1>1, <1>6, <1>8, <1>13, <1>15, <1>16, AdvertisedAgain

LEMMA EndAdvertised ==
    ASSUME Advertised, NEW end \in {"completed", "cancelled", "failed"}, AdvertisementEnds(end)
    PROVE  Advertised'
<1>1. /\ adv.end = "walking" /\ UNCHANGED rx
      /\ list' = list \o Append(Taken(adv), Terminal(adv, end))
      /\ adv' = [adv EXCEPT !.pending = << >>, !.end = end]
  BY DEF AdvertisementEnds, Send
<1>T. /\ Projecting /\ adv \in Projections /\ adv.entries \in Seq(Files)
      /\ adv.page \in Nat /\ adv.failures \in Nat /\ adv.pos \in Nat
  BY DEF Advertised, Projecting, Projection, Projections
<1>2. PICK p \in Nat : p = IF adv.pending = << >> THEN adv.page ELSE adv.page + 1 BY <1>T
<1>5. adv' = [pos |-> adv.pos, pending |-> << >>, page |-> adv.page, entries |-> adv.entries,
              failures |-> adv.failures, end |-> end]
  BY <1>1, <1>T DEF Projections
<1>6. /\ adv'.pending = << >> /\ adv'.page = adv.page /\ adv'.entries = adv.entries
      /\ adv'.failures = adv.failures /\ adv'.end = end /\ adv'.end # "walking"
  BY <1>5
<1>7. Len(adv'.pending) = 0 /\ Len(adv'.entries) \in Nat BY <1>T, <1>6
<1>8. Projecting'
  <2>1. adv' \in Projections
    <3>1. << >> \in Seq(Observations)
          /\ end \in {"walking", "completed", "cancelled", "failed"}
      OBVIOUS
    <3> QED BY <1>T, <1>5, <3>1 DEF Projections
  <2> QED BY <1>6, <1>7, <2>1, ExpertAssumption DEF Projecting, Projection
<1>9. PICK y : y = [at |-> Len(adv.entries), page |-> p, failures |-> adv.failures] OBVIOUS
<1>11. y \in Tallies BY <1>T, <1>2, <1>6, <1>7, <1>9 DEF Tallies
<1>12. Terminal(adv, end).is = "terminal" BY DEF Terminal
<1>13. Follows(Terminal(adv, end), y, y, adv.entries) BY <1>12 DEF Follows
<1>14. /\ IsSeq(list') /\ Carries(list', Seen, y, adv.entries)
       /\ list' # << >> /\ list'[Len(list')] = Terminal(adv, end)
       /\ \A i \in 1..Len(list') : i # Len(list') => list'[i].is # "terminal"
  BY <1>1, <1>2, <1>9, <1>11, <1>13, TakenThenMore
<1>15. Sent(adv', p) = y
  <2>1. Numbers(adv') = Len(adv.entries) BY <1>6, <1>7 DEF Numbers
  <2> QED BY <1>6, <1>9, <2>1 DEF Sent
<1>16. ASSUME Seen' = Seen PROVE Streamed' /\ Terminated'
  <2>1. Carries(list', Seen', Sent(adv', p), adv'.entries) BY <1>6, <1>14, <1>15, <1>16
  <2>2. Streamed' BY <1>2, <1>6, <2>1 DEF Streamed, Sent, Numbers
  <2>3. Terminal(adv', adv'.end) = Terminal(adv, end) BY <1>6 DEF Terminal
  <2> QED BY <1>6, <1>14, <2>2, <2>3 DEF Terminated
<1>17. Len(adv.entries) <= Len(adv'.entries) BY <1>6, <1>7
<1> QED BY <1>1, <1>6, <1>8, <1>14, <1>16, <1>17, AdvertisedAgain

-----------------------------------------------------------------------------
(* The destination's side of the list.                                     *)

\* A page that follows is accepted, and its entries are the next of the ledger.
LEMMA PageAccepted ==
    ASSUME Projecting, Receiving, rx.end = "open", UNCHANGED adv,
           NEW m, NEW y \in Tallies, PageOf(m, Seen, y, adv.entries),
           rx' = IF PageOk(m)
                 THEN [rx EXCEPT !.page = @ + 1,
                       !.ledger = @ \o [i \in 1..Len(m.entries) |-> m.entries[i].obs]]
                 ELSE [rx EXCEPT !.end = "protocol"]
    PROVE  Receiving' /\ Seen' = y /\ rx'.end = "open"
<1>T. /\ rx \in Receivers /\ rx.page \in Nat /\ rx.failures \in Nat /\ rx.ledger \in Seq(Files)
      /\ Len(rx.ledger) \in Nat
  BY DEF Receiving, Receivers
<1>S. /\ Seen.at = Len(rx.ledger) /\ Seen.page = rx.page /\ Seen.failures = rx.failures
  BY DEF Seen
<1>1. /\ m.is = "page" /\ m.seq = rx.page
      /\ m.entries \in Seq(Observations) /\ Len(m.entries) \in 1..PageSize
      /\ Len(rx.ledger) + Len(m.entries) <= Len(adv.entries)
      /\ y.at = Len(rx.ledger) + Len(m.entries) /\ y.page = rx.page + 1 /\ y.failures = rx.failures
  BY <1>S DEF PageOf
<1>2. \A i \in 1..Len(m.entries) :
          m.entries[i] = Numbered(Len(rx.ledger) + i - 1, adv.entries[Len(rx.ledger) + i])
  BY <1>S DEF PageOf
<1>3. \A i \in 1..Len(m.entries) : /\ m.entries[i].ndx = Len(rx.ledger) + i - 1
                                   /\ m.entries[i].obs = adv.entries[Len(rx.ledger) + i]
  <2> SUFFICES ASSUME NEW i \in 1..Len(m.entries)
               PROVE  /\ m.entries[i].ndx = Len(rx.ledger) + i - 1
                      /\ m.entries[i].obs = adv.entries[Len(rx.ledger) + i]
    OBVIOUS
  <2>1. m.entries[i] = Numbered(Len(rx.ledger) + i - 1, adv.entries[Len(rx.ledger) + i])
    BY <1>2
  <2> QED BY <2>1 DEF Numbered
<1>4. PageOk(m) BY <1>1, <1>3 DEF PageOk
<1>5. PICK k : k = Len(m.entries) /\ k \in Nat BY <1>1
<1>6. PICK n : n = Len(rx.ledger) /\ n \in Nat BY <1>T
<1>N. n \in Nat /\ k \in Nat /\ n + k <= Len(adv.entries) BY <1>1, <1>5, <1>6
<1> DEFINE es == [i \in 1..k |-> m.entries[i].obs]
<1>7. /\ rx' = [rx EXCEPT !.page = @ + 1, !.ledger = @ \o es]
  BY <1>4, <1>5
<1>8. adv.entries \in Seq(Files) BY DEF Projecting, Projection, Projections
<1>9. \A i \in 1..k : adv.entries[n + i] \in Files
  <2>0. Len(adv.entries) \in Nat BY <1>8
  <2>1. \A i \in 1..k : n + i \in 1..Len(adv.entries) BY <1>N, <2>0
  <2> QED BY <1>8, <2>1
<1>10. es \in Seq(Files) /\ Len(es) = k /\ \A i \in 1..k : es[i] = adv.entries[n + i]
  <2>1. \A i \in 1..k : m.entries[i].obs = adv.entries[n + i] BY <1>3, <1>5, <1>6
  <2> QED BY <1>5, <1>9, <2>1
<1> HIDE DEF es
<1>11. /\ rx.ledger \o es \in Seq(Files) /\ Len(rx.ledger \o es) = n + k
       /\ \A i \in 1..n : (rx.ledger \o es)[i] = rx.ledger[i]
       /\ \A i \in 1..k : (rx.ledger \o es)[n + i] = es[i]
  <2>1. PICK l \in Seq(Files) : l = rx.ledger BY <1>T DEF Receivers
  <2>2. PICK e \in Seq(Files) : e = es BY <1>10
  <2>3. Len(l) = n /\ Len(e) = k BY <1>6, <1>10, <2>1, <2>2
  <2>4. /\ l \o e \in Seq(Files) /\ Len(l \o e) = n + k
        /\ \A i \in 1..n : (l \o e)[i] = l[i]
        /\ \A i \in 1..k : (l \o e)[n + i] = e[i]
    BY <2>3
  <2> QED BY <2>1, <2>2, <2>4
<1>K. PICK kept : kept = rx.ledger \o es OBVIOUS
<1>12. rx' = [page |-> rx.page + 1, ledger |-> kept, failures |-> rx.failures,
              end |-> rx.end]
  BY <1>T, <1>7, <1>K DEF Receivers
<1>13. \A i \in 1..(n + k) : (rx.ledger \o es)[i] = adv.entries[i]
  <2> SUFFICES ASSUME NEW i \in 1..(n + k) PROVE (rx.ledger \o es)[i] = adv.entries[i]
    OBVIOUS
  <2>1. CASE i \in 1..n BY <1>6, <1>11, <2>1 DEF Receiving
  <2>2. CASE i \notin 1..n
    <3>1. i - n \in 1..k /\ n + (i - n) = i BY <1>N, <2>2
    <3>2. (rx.ledger \o es)[n + (i - n)] = adv.entries[n + (i - n)] BY <1>10, <1>11, <3>1
    <3> QED BY <3>1, <3>2
  <2> QED BY <2>1, <2>2
<1>14. rx' \in Receivers
  <2>1. rx.page + 1 \in Nat /\ rx.end \in {"open", "completed", "cancelled", "failed"}
    BY <1>T DEF Receivers
  <2>2. kept \in Seq(Files) BY <1>11, <1>K
  <2> QED BY <1>T, <1>12, <2>1, <2>2 DEF Receivers
<1>15. /\ rx'.ledger = rx.ledger \o es /\ rx'.page = rx.page + 1
       /\ rx'.failures = rx.failures /\ rx'.end = "open"
  <2>1. /\ rx'.ledger = kept /\ rx'.page = rx.page + 1
        /\ rx'.failures = rx.failures /\ rx'.end = rx.end
    BY ONLY <1>12
  <2> QED BY <1>K, <2>1
<1>16. Receiving'
  BY <1>1, <1>5, <1>6, <1>11, <1>13, <1>14, <1>15 DEF Receiving
<1>17. Seen' = [at |-> n + k, page |-> rx.page + 1, failures |-> rx.failures]
  BY <1>11, <1>15 DEF Seen
<1>18. y = [at |-> n + k, page |-> rx.page + 1, failures |-> rx.failures]
  BY <1>1, <1>5, <1>6 DEF Tallies
<1> QED BY <1>15, <1>16, <1>17, <1>18

\* Reading the stream takes the destination where the message takes a reader.
LEMMA RestAdvertised ==
    ASSUME Advertised, rx.end = "open", list # << >>, list' = Tail(list), UNCHANGED adv,
           NEW y, NEW p \in Nat, adv.end = "walking" => p = adv.page,
           Carries(list', y, Sent(adv, p), adv.entries), Head(list).is # "terminal",
           Receiving', Seen' = y, rx'.end = "open"
    PROVE  Advertised'
<1>1. IsSeq(list) /\ Terminated BY DEF Advertised, ListInv
<1>2. /\ IsSeq(list') /\ Len(list) \in Nat \ {0} /\ Len(list') = Len(list) - 1
      /\ \A i \in 1..(Len(list) - 1) : list'[i] = list[i + 1]
      /\ Head(list) = list[1]
  BY <1>1, TailIsSeq
<1>3. Projecting' BY DEF Advertised, Projecting, Projection, Numbers
<1>4. Streamed'
  <2>1. Carries(list', Seen', Sent(adv, p), adv.entries) OBVIOUS
  <2>2. Carries(list', Seen', Sent(adv', p), adv'.entries) BY <2>1
  <2> QED BY <2>2 DEF Streamed, Sent, Numbers
<1>5. Terminated'
  <2>1. ASSUME NEW i \in 1..Len(list'), list'[i].is = "terminal"
        PROVE  i = Len(list') /\ adv'.end # "walking"
    <3>1. i + 1 \in 1..Len(list) /\ i \in 1..(Len(list) - 1) BY <1>2
    <3>2. list[i + 1].is = "terminal" BY <1>2, <2>1, <3>1
    <3>3. i + 1 = Len(list) /\ adv.end # "walking" BY <1>1, <3>1, <3>2 DEF Terminated
    <3>4. Len(list') = Len(list) - 1 /\ Len(list) \in Nat /\ i \in Nat BY <1>2
    <3> QED BY <3>3, <3>4
  <2>2. ASSUME adv'.end # "walking"
        PROVE  list' # << >> /\ list'[Len(list')] = Terminal(adv', adv'.end)
    <3>1. list[Len(list)] = Terminal(adv, adv.end) BY <1>1, <2>2 DEF Terminated
    <3>2. list[Len(list)].is = "terminal" BY <3>1 DEF Terminal
    <3>3. Len(list) # 1 BY <1>2, <3>2
    <3>4. Len(list') \in 1..(Len(list) - 1) /\ Len(list') + 1 = Len(list) BY <1>2, <3>3
    <3>5. list'[Len(list')] = list[Len(list)] BY <1>2, <3>4
    <3>6. list' # << >> BY <3>4
    <3> QED BY <3>1, <3>5, <3>6 DEF Terminal
  <2> QED BY <2>1, <2>2 DEF Terminated
<1> QED BY <1>2, <1>3, <1>4, <1>5 DEF Advertised, ListInv

LEMMA ListAccepted == ASSUME Advertised, Accept PROVE Advertised'
<1>1. /\ list # << >> /\ rx.end = "open" /\ list' = Tail(list) /\ UNCHANGED adv
  BY DEF Accept
<1>2. IsSeq(list) /\ Terminated /\ Projecting /\ Receiving /\ Streamed
  BY <1>1 DEF Advertised, ListInv
<1>3. PICK p \in Nat : /\ adv.end = "walking" => p = adv.page
                       /\ Carries(list, Seen, Sent(adv, p), adv.entries)
  BY <1>2 DEF Streamed
<1>4. PICK m : m = Head(list) OBVIOUS
<1>5. PICK y \in Tallies : /\ Follows(m, Seen, y, adv.entries)
                           /\ Carries(list', y, Sent(adv, p), adv.entries)
  BY <1>1, <1>2, <1>3, <1>4, CarriesRest
<1>6. rx' = CASE m.is = "page" ->
                   IF PageOk(m)
                   THEN [rx EXCEPT !.page = @ + 1,
                         !.ledger = @ \o [i \in 1..Len(m.entries) |-> m.entries[i].obs]]
                   ELSE [rx EXCEPT !.end = "protocol"]
              [] m.is = "failure" -> [rx EXCEPT !.failures = @ + 1]
              [] m.is = "terminal" ->
                   IF CountsAgree(m)
                   THEN [rx EXCEPT !.end = m.end] ELSE [rx EXCEPT !.end = "protocol"]
  BY <1>4 DEF Accept
<1>T. /\ rx \in Receivers /\ rx.page \in Nat /\ rx.failures \in Nat /\ rx.ledger \in Seq(Files)
      /\ Len(rx.ledger) \in Nat /\ adv.entries \in Seq(Files) /\ adv.failures \in Nat
  BY <1>2 DEF Receiving, Receivers, Projecting, Projection, Projections
<1>7. CASE PageOf(m, Seen, y, adv.entries)
  <2>1. m.is = "page" BY <1>7 DEF PageOf
  <2>2. rx' = IF PageOk(m)
              THEN [rx EXCEPT !.page = @ + 1,
                    !.ledger = @ \o [i \in 1..Len(m.entries) |-> m.entries[i].obs]]
              ELSE [rx EXCEPT !.end = "protocol"]
    BY <1>6, <2>1
  <2>3. Receiving' /\ Seen' = y /\ rx'.end = "open" BY <1>1, <1>2, <1>7, <2>2, PageAccepted
  <2> QED BY <1>1, <1>3, <1>4, <1>5, <2>1, <2>3, RestAdvertised
<1>8. CASE FailureOf(m, Seen, y)
  <2>1. m.is = "failure" /\ y.at = Len(rx.ledger) /\ y.page = rx.page /\ y.failures = rx.failures + 1
    BY <1>8 DEF FailureOf, WalkFailure, Seen
  <2>2. rx' = [rx EXCEPT !.failures = @ + 1] BY <1>6, <2>1
  <2>3. rx' = [page |-> rx.page, ledger |-> rx.ledger, failures |-> rx.failures + 1, end |-> "open"]
    BY <1>1, <1>T, <2>2 DEF Receivers
  <2>4. rx' \in Receivers BY <1>T, <2>3 DEF Receivers
  <2>5. Receiving' BY <1>1, <1>2, <2>3, <2>4 DEF Receiving
  <2>6. Seen' = [at |-> Len(rx.ledger), page |-> rx.page, failures |-> rx.failures + 1]
    BY <2>3 DEF Seen
  <2>7. y = [at |-> Len(rx.ledger), page |-> rx.page, failures |-> rx.failures + 1]
    BY <2>1 DEF Tallies
  <2>8. rx'.end = "open" BY <2>3
  <2> QED BY <1>1, <1>3, <1>4, <1>5, <2>1, <2>5, <2>6, <2>7, <2>8, RestAdvertised
<1>9. CASE m.is = "terminal" /\ y = Seen
  <2>0. Len(list) \in Nat \ {0} /\ Len(list') = Len(list) - 1 /\ m = list[1]
    BY <1>1, <1>2, <1>4, TailIsSeq
  <2>1. Len(list) = 1 /\ adv.end # "walking" /\ m = Terminal(adv, adv.end)
    <3>1. 1 \in 1..Len(list) /\ list[1].is = "terminal" BY <1>9, <2>0
    <3> QED BY <1>2, <2>0, <3>1 DEF Terminated
  <2>2. list' = << >>
    <3>1. Len(list') = 0 BY <2>0, <2>1
    <3>2. list \in Seq(Range(list)) BY <1>2 DEF IsSeq
    <3>3. list' \in Seq(Range(list)) BY <1>1, <3>2
    <3> QED BY <3>1, <3>3
  <2>3. y = Sent(adv, p)
    <3>1. Len(list') + 1 = 1 BY <2>2
    <3> QED BY <1>5, <3>1 DEF Carries
  <2>4. Len(rx.ledger) = Len(adv.entries) /\ rx.failures = adv.failures
    <3>1. Numbers(adv) = Len(adv.entries)
      <4>1. Len(adv.pending) = 0 BY <1>2, <2>1 DEF Projecting
      <4> QED BY <1>T, <4>1 DEF Numbers
    <3>2. Seen.at = Sent(adv, p).at /\ Seen.failures = Sent(adv, p).failures BY <1>9, <2>3
    <3> QED BY <3>1, <3>2 DEF Seen, Sent
  <2>5. CountsAgree(m) /\ m.end = adv.end /\ m.is = "terminal"
    BY <2>1, <2>4 DEF CountsAgree, Terminal
  <2>6. rx' = [rx EXCEPT !.end = adv.end] BY <1>6, <2>5
  <2>7. rx' = [page |-> rx.page, ledger |-> rx.ledger, failures |-> rx.failures, end |-> adv.end]
    BY <1>T, <2>6 DEF Receivers
  <2>8. adv.end \in {"completed", "cancelled", "failed"}
    BY <1>2, <2>1 DEF Projecting, Projection, Projections
  <2>9. rx.ledger = adv.entries
    BY <1>T, <1>2, <2>4, SeqEqual DEF Receiving
  <2>10. rx' \in Receivers BY <1>T, <2>7, <2>8 DEF Receivers
  <2>11. Receiving' BY <1>1, <1>2, <2>7, <2>10 DEF Receiving
  <2>12. Projecting' BY <1>1, <1>2 DEF Projecting, Projection, Numbers
  <2>13. Concluded' BY <1>1, <2>2, <2>4, <2>7, <2>9 DEF Concluded
  <2>14. IsSeq(list') /\ rx'.end # "open" BY <1>1, <1>2, <2>7, <2>8, TailIsSeq
  <2> QED BY <2>11, <2>12, <2>13, <2>14 DEF Advertised, ListInv
<1> QED BY <1>5, <1>7, <1>8, <1>9 DEF Follows

\* Nothing else touches the list.
LEMMA PagesKept == ASSUME Advertised, UNCHANGED pages PROVE Advertised'
<1>1. UNCHANGED <<adv, list, rx>> BY DEF pages
<1>2. Projecting' /\ Receiving' BY <1>1 DEF Advertised, Projecting, Projection, Numbers, Receiving
<1>3. Streamed => Streamed' BY <1>1 DEF Streamed, Seen, Sent, Numbers
<1>4. (Terminated => Terminated') /\ (Concluded => Concluded')
  BY <1>1 DEF Terminated, Terminal, Concluded
<1> QED BY <1>1, <1>2, <1>3, <1>4 DEF Advertised, ListInv

-----------------------------------------------------------------------------
(* The transfer.  The messages of a stream that grows or is read.          *)

LEMMA ObsIsFile ==
    ASSUME Receiving, Picked, Running
    PROVE  Obs \in Files /\ Obs.size \in Nat /\ Obs.id \in Ids
<1>1. rx.ledger \in Seq(Files) BY DEF Receiving, Receivers
<1>2. Len(rx.ledger) \in Nat BY <1>1
<1>3. pick \in 0..(Len(rx.ledger) - 1) BY DEF Picked
<1>4. pick + 1 \in 1..Len(rx.ledger) BY <1>2, <1>3
<1>5. Obs \in Files BY <1>1, <1>4 DEF Obs
<1>6. PICK i \in 1..Len(Walk) : Walk[i].is = "file" /\ Obs = Walk[i] BY <1>5 DEF Files
<1>7. Obs.size \in Nat BY <1>6, ExpertAssumption
<1>8. Obs.id \in Ids BY <1>6 DEF Ids
<1> QED BY <1>5, <1>7, <1>8

LEMMA DataKept == ASSUME DataOk, UNCHANGED <<rx, pick, attempts, data>> PROVE DataOk'
BY DEF DataOk, FromSource, Obs, Running, Content

LEMMA DataGrown ==
    ASSUME DataOk, UNCHANGED <<rx, pick, attempts>>, NEW m, FromSource(m), data' = Append(data, m)
    PROVE  DataOk'
<1>1. IsSeq(data) /\ \A i \in 1..Len(data) : FromSource(data[i]) BY DEF DataOk
<1>2. /\ IsSeq(data') /\ Len(data') = Len(data) + 1 /\ Len(data) \in Nat
      /\ \A i \in 1..Len(data) : data'[i] = data[i]
      /\ data'[Len(data) + 1] = m
  BY <1>1, AppendIsSeq
<1>3. \A i \in 1..Len(data') : FromSource(data'[i])
  <2> SUFFICES ASSUME NEW i \in 1..Len(data') PROVE FromSource(data'[i]) OBVIOUS
  <2>1. i \in 1..Len(data) \/ i = Len(data) + 1 BY <1>2
  <2> QED BY <1>1, <1>2, <2>1
<1> QED BY <1>2, <1>3 DEF DataOk, FromSource, Obs, Running, Content

LEMMA DataRead ==
    ASSUME DataOk, UNCHANGED <<rx, pick, attempts>>, data # << >>, data' = Tail(data)
    PROVE  DataOk' /\ FromSource(Head(data))
<1>1. IsSeq(data) /\ \A i \in 1..Len(data) : FromSource(data[i]) BY DEF DataOk
<1>2. /\ IsSeq(data') /\ Len(data) \in Nat \ {0} /\ Len(data') = Len(data) - 1
      /\ \A i \in 1..(Len(data) - 1) : data'[i] = data[i + 1]
      /\ Head(data) = data[1]
  BY <1>1, TailIsSeq
<1>3. FromSource(Head(data)) BY <1>1, <1>2
<1>4. \A i \in 1..Len(data') : FromSource(data'[i])
  <2> SUFFICES ASSUME NEW i \in 1..Len(data') PROVE FromSource(data'[i]) OBVIOUS
  <2>1. i + 1 \in 1..Len(data) /\ i \in 1..(Len(data) - 1) BY <1>2
  <2> QED BY <1>1, <1>2, <2>1
<1> QED BY <1>2, <1>3, <1>4 DEF DataOk, FromSource, Obs, Running, Content

LEMMA DataCut ==
    ASSUME DataOk, UNCHANGED <<rx, pick, attempts>>, NEW n \in 0..Len(data),
           data' = SubSeq(data, 1, n)
    PROVE  DataOk'
<1>1. IsSeq(data) /\ \A i \in 1..Len(data) : FromSource(data[i]) BY DEF DataOk
<1>2. /\ IsSeq(data') /\ Len(data') = n /\ Len(data) \in Nat
      /\ \A i \in 1..n : data'[i] = data[i]
  BY <1>1, PrefixKeeps
<1>3. \A i \in 1..Len(data') : FromSource(data'[i])
  <2> SUFFICES ASSUME NEW i \in 1..Len(data') PROVE FromSource(data'[i]) OBVIOUS
  <2>1. i \in 1..Len(data) /\ i \in 1..n BY <1>2
  <2> QED BY <1>1, <1>2, <2>1
<1> QED BY <1>2, <1>3 DEF DataOk, FromSource, Obs, Running, Content

LEMMA CtlGrown == ASSUME CtlOk, NEW m, Request(m), ctl' = Append(ctl, m) PROVE CtlOk'
<1>1. IsSeq(ctl) /\ \A i \in 1..Len(ctl) : Request(ctl[i]) BY DEF CtlOk
<1>2. /\ IsSeq(ctl') /\ Len(ctl') = Len(ctl) + 1 /\ Len(ctl) \in Nat
      /\ \A i \in 1..Len(ctl) : ctl'[i] = ctl[i]
      /\ ctl'[Len(ctl) + 1] = m
  BY <1>1, AppendIsSeq
<1>3. \A i \in 1..Len(ctl') : Request(ctl'[i])
  <2> SUFFICES ASSUME NEW i \in 1..Len(ctl') PROVE Request(ctl'[i]) OBVIOUS
  <2>1. i \in 1..Len(ctl) \/ i = Len(ctl) + 1 BY <1>2
  <2> QED BY <1>1, <1>2, <2>1
<1> QED BY <1>2, <1>3 DEF CtlOk, Request

LEMMA CtlRead ==
    ASSUME CtlOk, ctl # << >>, ctl' = Tail(ctl) PROVE CtlOk' /\ Request(Head(ctl))
<1>1. IsSeq(ctl) /\ \A i \in 1..Len(ctl) : Request(ctl[i]) BY DEF CtlOk
<1>2. /\ IsSeq(ctl') /\ Len(ctl) \in Nat \ {0} /\ Len(ctl') = Len(ctl) - 1
      /\ \A i \in 1..(Len(ctl) - 1) : ctl'[i] = ctl[i + 1]
      /\ Head(ctl) = ctl[1]
  BY <1>1, TailIsSeq
<1>3. Request(Head(ctl)) BY <1>1, <1>2
<1>4. \A i \in 1..Len(ctl') : Request(ctl'[i])
  <2> SUFFICES ASSUME NEW i \in 1..Len(ctl') PROVE Request(ctl'[i]) OBVIOUS
  <2>1. i + 1 \in 1..Len(ctl) /\ i \in 1..(Len(ctl) - 1) BY <1>2
  <2> QED BY <1>1, <1>2, <2>1
<1> QED BY <1>2, <1>3, <1>4 DEF CtlOk, Request

\* A destination that has not published has reported no success.
LEMMA AckStays ==
    ASSUME AckOk, dst.pc = "ok" => dst'.pc = "ok" /\ disk'.final = disk.final, UNCHANGED ack
    PROVE  AckOk'
BY DEF AckOk, Outcome

LEMMA AckGrown ==
    ASSUME AckOk, dst.pc # "ok", NEW m, Outcome(m)', ack' = Append(ack, m)
    PROVE  AckOk'
<1>1. IsSeq(ack) /\ \A i \in 1..Len(ack) : Outcome(ack[i]) BY DEF AckOk
<1>2. /\ IsSeq(ack') /\ Len(ack') = Len(ack) + 1 /\ Len(ack) \in Nat
      /\ \A i \in 1..Len(ack) : ack'[i] = ack[i]
      /\ ack'[Len(ack) + 1] = m
  BY <1>1, AppendIsSeq
<1>3. \A i \in 1..Len(ack) : ack[i].is \in {"failed", "cancelled"} BY <1>1 DEF Outcome
<1>4. \A i \in 1..Len(ack') : ack'[i].is \in {"failed", "cancelled"} \/ ack'[i] = m
  <2> SUFFICES ASSUME NEW i \in 1..Len(ack')
               PROVE  ack'[i].is \in {"failed", "cancelled"} \/ ack'[i] = m
    OBVIOUS
  <2>1. i \in 1..Len(ack) \/ i = Len(ack) + 1 BY <1>2
  <2> QED BY <1>2, <1>3, <2>1
<1> QED BY <1>2, <1>4 DEF AckOk, Outcome

LEMMA AckRead ==
    ASSUME AckOk, ack # << >>, ack' = Tail(ack), UNCHANGED <<dst, disk>>
    PROVE  AckOk' /\ Outcome(Head(ack))
<1>1. IsSeq(ack) /\ \A i \in 1..Len(ack) : Outcome(ack[i]) BY DEF AckOk
<1>2. /\ IsSeq(ack') /\ Len(ack) \in Nat \ {0} /\ Len(ack') = Len(ack) - 1
      /\ \A i \in 1..(Len(ack) - 1) : ack'[i] = ack[i + 1]
      /\ Head(ack) = ack[1]
  BY <1>1, TailIsSeq
<1>3. Outcome(Head(ack)) BY <1>1, <1>2
<1>4. \A i \in 1..Len(ack') : Outcome(ack'[i])
  <2> SUFFICES ASSUME NEW i \in 1..Len(ack') PROVE Outcome(ack'[i]) OBVIOUS
  <2>1. i + 1 \in 1..Len(ack) /\ i \in 1..(Len(ack) - 1) BY <1>2
  <2> QED BY <1>1, <1>2, <2>1
<1> QED BY <1>2, <1>3, <1>4 DEF AckOk, Outcome

-----------------------------------------------------------------------------
(* What a step of either side leaves alone.                                *)

\* The list's steps come before every transfer.
LEMMA ListStep ==
    ASSUME Advertised, Transfer, rx.end = "open",
           UNCHANGED <<pick, src, dst, wires, disk, ver, attempts>>
    PROVE  Transfer'
<1>1. ~Running BY DEF Transfer, Picked
<1>2. ~Running' BY <1>1 DEF Running
<1>3. SourceRow' /\ TargetRow' /\ DiskRow' BY DEF Transfer, SourceRow, TargetRow, DiskRow
<1>4. Picked' /\ Hashed' BY <1>1, <1>2 DEF Transfer, Picked, Hashed
<1>5. DataOk' BY <1>1, <1>2 DEF Transfer, DataOk, FromSource, wires
<1>6. CtlOk' /\ AckOk' BY DEF Transfer, CtlOk, AckOk, Outcome, Request, wires
<1>7. Published' BY <1>1, <1>2 DEF Transfer, Published
<1>8. SourceAgrees' BY DEF Transfer, SourceAgrees
<1> QED BY <1>3, <1>4, <1>5, <1>6, <1>7, <1>8 DEF Transfer

\* The source neither publishes nor answers.
LEMMA SourceStep ==
    ASSUME Transfer, Running, UNCHANGED <<rx, pick, dst, disk, ver, attempts>>,
           SourceRow', Hashed', DataOk', CtlOk', AckOk',
           src'.pc = "ok" => dst.pc = "ok" /\ disk.final = src'.hash
    PROVE  Transfer'
<1>1. Running' /\ Obs' = Obs BY DEF Running, Obs
<1>2. TargetRow' /\ DiskRow' BY DEF Transfer, TargetRow, DiskRow
<1>3. Picked' BY <1>1 DEF Transfer, Picked
<1>4. Published' BY <1>1 DEF Transfer, Published, Content
<1>5. SourceAgrees' BY DEF SourceAgrees
<1> QED BY <1>2, <1>3, <1>4, <1>5 DEF Transfer

\* The destination reads nothing of the file, and works until it has ended.
LEMMA TargetStep ==
    ASSUME Transfer, Running, dst.pc # "ok", UNCHANGED <<rx, pick, src, ver, attempts>>,
           TargetRow', DiskRow', DataOk', CtlOk', AckOk',
           disk'.final = disk.final \/ disk'.final = Content(Obs)
    PROVE  Transfer'
<1>1. Running' /\ Obs' = Obs BY DEF Running, Obs
<1>2. SourceRow' BY DEF Transfer, SourceRow
<1>3. Picked' BY <1>1 DEF Transfer, Picked
<1>4. Hashed' BY <1>1 DEF Transfer, Hashed
<1>5. Published' BY <1>1 DEF Transfer, Published, Content
<1>6. SourceAgrees' BY DEF Transfer, SourceAgrees
<1> QED BY <1>2, <1>3, <1>4, <1>5, <1>6 DEF Transfer

\* While the file is not read further.
LEMMA HashKept ==
    ASSUME Hashed, UNCHANGED <<rx, pick, ver, attempts>>, src'.hash = src.hash
    PROVE  Hashed'
BY DEF Hashed, Obs, Running

LEMMA SourcePc ==
    ASSUME SourceRow, NEW p, src' = [src EXCEPT !.pc = p]
    PROVE  SourceRow' /\ src'.pc = p /\ src'.hash = src.hash
<1>1. src = [pc |-> src.pc, offset |-> src.offset, parts |-> src.parts, chunk |-> src.chunk,
             hash |-> src.hash]
  BY DEF SourceRow
<1>2. src' = [pc |-> p, offset |-> src.offset, parts |-> src.parts, chunk |-> src.chunk,
              hash |-> src.hash]
  BY <1>1
<1> QED BY <1>2 DEF SourceRow

LEMMA TargetPc ==
    ASSUME TargetRow, NEW p, dst' = [dst EXCEPT !.pc = p]
    PROVE  TargetRow' /\ dst'.pc = p
<1>1. dst = [pc |-> dst.pc, expected |-> dst.expected, stage |-> dst.stage,
             chunk |-> dst.chunk, broken |-> dst.broken]
  BY DEF TargetRow
<1>2. dst' = [pc |-> p, expected |-> dst.expected, stage |-> dst.stage,
              chunk |-> dst.chunk, broken |-> dst.broken]
  BY <1>1
<1> QED BY <1>2 DEF TargetRow

LEMMA StageKept ==
    ASSUME DiskRow, TargetRow,
           \/ UNCHANGED disk
           \/ \E s \in Durable(dst.stage) \cup {disk.stage, << >>, dst.stage} :
                 disk' = [disk EXCEPT !.stage = s]
    PROVE  DiskRow' /\ disk'.final = disk.final
<1>1. CASE UNCHANGED disk BY <1>1 DEF DiskRow
<1>2. ASSUME NEW s \in Durable(dst.stage) \cup {disk.stage, << >>, dst.stage},
             disk' = [disk EXCEPT !.stage = s]
      PROVE  DiskRow' /\ disk'.final = disk.final
  <2>1. IsSeq(s)
    <3>1. CASE s \in Durable(dst.stage)
      <4>1. Len(disk.stage) \in Nat /\ Len(dst.stage) \in Nat BY DEF DiskRow, TargetRow, IsSeq
      <4>2. PICK n \in Len(disk.stage)..Len(dst.stage) : s = SubSeq(dst.stage, 1, n)
        BY <3>1 DEF Durable
      <4>3. n \in Int BY <4>1
      <4> QED BY <4>2, <4>3, SubSeqIsSeq
    <3>2. << >> \in Seq({}) OBVIOUS
    <3> QED BY <1>2, <3>1, <3>2, SeqHasRange DEF DiskRow, TargetRow
  <2>2. disk = [stage |-> disk.stage, final |-> disk.final] BY DEF DiskRow
  <2>3. disk' = [stage |-> s, final |-> disk.final] BY <1>2, <2>2
  <2> QED BY <2>1, <2>3 DEF DiskRow
<1> QED BY <1>1, <1>2

-----------------------------------------------------------------------------
(* The steps of a transfer.                                                *)

LEMMA StartStep == ASSUME Advertised, Transfer, StartTransfer PROVE Transfer'
<1>1. /\ rx.end = "completed" /\ attempts' = attempts + 1 /\ disk.final = Unpublished
      /\ src' = IdleSource /\ dst' = IdleTarget /\ data' = << >> /\ ctl' = << >> /\ ack' = << >>
      /\ UNCHANGED <<rx, disk, ver>>
      /\ IF Running THEN pick' = pick ELSE pick' \in 0..(Len(rx.ledger) - 1)
  BY DEF StartTransfer, pages, Transfer, Picked
<1>2. attempts' \in Nat /\ Running'
  <2>1. attempts \in Nat BY DEF Transfer, Picked
  <2> QED BY <1>1, <2>1 DEF Running
<1>3. IsSeq(<< >>) /\ Len(<< >>) = 0
  <2>1. << >> \in Seq({}) OBVIOUS
  <2> QED BY <2>1, SeqHasRange
<1>4. SourceRow' BY <1>1, <1>3 DEF SourceRow, IdleSource
<1>5. TargetRow' /\ DiskRow' BY <1>1, <1>3 DEF TargetRow, DiskRow, IdleTarget, Transfer
<1>6. Picked'
  <2>1. pick' \in 0..(Len(rx.ledger) - 1) BY <1>1 DEF Transfer, Picked
  <2> QED BY <1>1, <1>2, <2>1 DEF Picked
<1>7. Hashed' BY <1>1, <1>3 DEF Transfer, Hashed, IdleSource
<1>8. DataOk' /\ CtlOk' /\ AckOk' BY <1>1, <1>3 DEF DataOk, CtlOk, AckOk
<1>9. Published' BY <1>1 DEF Published
<1>10. SourceAgrees' BY <1>1 DEF SourceAgrees, IdleSource
<1> QED BY <1>4, <1>5, <1>6, <1>7, <1>8, <1>9, <1>10 DEF Transfer

LEMMA RewriteStep == ASSUME Advertised, Transfer, Rewrite PROVE Transfer'
<1>1. /\ Running /\ ver' = [ver EXCEPT ![Obs.id] = @ + 1]
      /\ UNCHANGED <<rx, pick, src, dst, data, ctl, ack, disk, attempts>>
  BY DEF Rewrite, pages, wires
<1>2. Obs.id \in Ids BY <1>1, ObsIsFile DEF Advertised, Transfer
<1>3. Obs' = Obs /\ Running' BY <1>1 DEF Obs, Running
<1>4. ver \in [Ids -> Nat \ {0}] BY DEF Transfer, Hashed
<1>5. ver' \in [Ids -> Nat \ {0}] /\ ver'[Obs.id] # 1 BY <1>1, <1>2, <1>4
<1>6. Hashed' BY <1>3, <1>5 DEF Hashed
<1>7. SourceRow' /\ TargetRow' /\ DiskRow'
  BY <1>1 DEF Transfer, SourceRow, TargetRow, DiskRow
<1>8. Picked' /\ Published' /\ SourceAgrees'
  BY <1>1, <1>3 DEF Transfer, Picked, Published, SourceAgrees, Content
<1>9. DataOk' BY <1>1, DataKept DEF Transfer
<1>10. CtlOk' /\ AckOk' BY <1>1 DEF Transfer, CtlOk, AckOk, Request, Outcome
<1> QED BY <1>6, <1>7, <1>8, <1>9, <1>10 DEF Transfer

\* What the source reads from either stream.
LEMMA ReceivedKeeps ==
    ASSUME Transfer, NEW m, Received(m), UNCHANGED <<dst, disk>>
    PROVE  CtlOk' /\ AckOk' /\ (Request(m) \/ Outcome(m))
<1>1. CASE ctl # << >> /\ m = Head(ctl) /\ ctl' = Tail(ctl) /\ UNCHANGED ack
  BY <1>1, CtlRead, AckStays DEF Transfer
<1>2. CASE ack # << >> /\ m = Head(ack) /\ ack' = Tail(ack) /\ UNCHANGED ctl
  <2>1. CtlOk' BY <1>2 DEF Transfer, CtlOk, Request
  <2>2. AckOk' /\ Outcome(m) BY <1>2, AckRead DEF Transfer
  <2> QED BY <2>1, <2>2
<1> QED BY <1>1, <1>2 DEF Received

LEMMA OffersStep == ASSUME Advertised, Transfer, SourceOffers PROVE Transfer'
<1>1. /\ Running /\ UNCHANGED <<rx, pick, dst, disk, ver, attempts>>
  BY DEF SourceOffers, pages
<1>2. PICK m : /\ Received(m)
               /\ IF m.is = "requested" /\ ver[Obs.id] = 1
                  THEN /\ src' = [src EXCEPT !.pc = "offered"]
                       /\ data' = Append(data, [is |-> "offer", size |-> Obs.size, id |-> Obs.id])
                  ELSE /\ src' = [src EXCEPT !.pc = "failed"]
                       /\ data' = IF m.is = "requested" THEN Append(data, [is |-> "failed"])
                                  ELSE data
  BY DEF SourceOffers
<1>3. CtlOk' /\ AckOk' BY <1>1, <1>2, ReceivedKeeps
<1>4. \E p : p # "ok" /\ src' = [src EXCEPT !.pc = p] BY <1>2
<1>5. SourceRow' /\ src'.pc # "ok" /\ src'.hash = src.hash
  BY <1>4, SourcePc DEF Transfer
<1>6. Hashed' BY <1>1, <1>5, HashKept DEF Transfer
<1>7. DataOk'
  <2>1. FromSource([is |-> "offer", size |-> Obs.size, id |-> Obs.id]) BY DEF FromSource
  <2>2. FromSource([is |-> "failed"]) BY DEF FromSource
  <2>3. \/ data' = Append(data, [is |-> "offer", size |-> Obs.size, id |-> Obs.id])
        \/ data' = Append(data, [is |-> "failed"])
        \/ data' = data
    BY <1>2
  <2> QED BY <1>1, <2>1, <2>2, <2>3, DataGrown, DataKept DEF Transfer
<1> QED BY <1>1, <1>3, <1>5, <1>6, <1>7, SourceStep

LEMMA StreamsStep == ASSUME Advertised, Transfer, SourceStreams PROVE Transfer'
<1>1. /\ Running /\ UNCHANGED <<rx, pick, dst, data, disk, ver, attempts>>
  BY DEF SourceStreams, pages
<1>2. PICK m : /\ Received(m)
               /\ src' = IF m.is = "payload_requested" /\ m.prefix <= Obs.size
                         THEN [src EXCEPT !.pc = "stream", !.offset = m.prefix, !.chunk = m.chunk,
                               !.hash = [i \in 1..m.prefix |-> <<Obs.id, ver[Obs.id]>>]]
                         ELSE [src EXCEPT !.pc = "failed"]
  BY DEF SourceStreams
<1>3. CtlOk' /\ AckOk' /\ (Request(m) \/ Outcome(m)) BY <1>1, <1>2, ReceivedKeeps
<1>4. DataOk' BY <1>1, DataKept DEF Transfer
<1>5. CASE m.is = "payload_requested" /\ m.prefix <= Obs.size
  <2> DEFINE hash == [i \in 1..m.prefix |-> <<Obs.id, ver[Obs.id]>>]
  <2>1. m.prefix \in Nat /\ m.chunk \in Nat \ {0}
    BY <1>3, <1>5, ExpertAssumption DEF Request, Outcome
  <2>2. hash \in Seq({<<Obs.id, ver[Obs.id]>>}) BY <2>1
  <2>3. IsSeq(hash) /\ \A i \in 1..Len(hash) : hash[i] = <<Obs.id, ver[Obs.id]>>
    BY <2>1, <2>2, SeqHasRange
  <2>4. src' = [src EXCEPT !.pc = "stream", !.offset = m.prefix, !.chunk = m.chunk, !.hash = hash]
    BY <1>2, <1>5
  <2> HIDE DEF hash
  <2>5. src = [pc |-> src.pc, offset |-> src.offset, parts |-> src.parts, chunk |-> src.chunk,
               hash |-> src.hash]
    BY DEF Transfer, SourceRow
  <2>6. src' = [pc |-> "stream", offset |-> m.prefix, parts |-> src.parts, chunk |-> m.chunk,
                hash |-> hash]
    BY <2>4, <2>5
  <2>7. src.parts \in Seq(Int) BY DEF Transfer, SourceRow
  <2>8. SourceRow' BY <2>1, <2>3, <2>6, <2>7 DEF SourceRow
  <2>9. src'.pc = "stream" /\ src'.hash = hash BY <2>6
  <2>10. Hashed' BY <1>1, <2>3, <2>9 DEF Transfer, Hashed, Obs, Running
  <2> QED BY <1>1, <1>3, <1>4, <2>8, <2>9, <2>10, SourceStep
<1>6. CASE ~(m.is = "payload_requested" /\ m.prefix <= Obs.size)
  <2>1. src' = [src EXCEPT !.pc = "failed"] BY <1>2, <1>6
  <2>2. SourceRow' /\ src'.pc = "failed" /\ src'.hash = src.hash BY <2>1, SourcePc DEF Transfer
  <2>3. Hashed' BY <1>1, <2>2, HashKept DEF Transfer
  <2> QED BY <1>1, <1>3, <1>4, <2>2, <2>3, SourceStep
<1> QED BY <1>5, <1>6

LEMMA ReadsStep == ASSUME Advertised, Transfer, SourceReads PROVE Transfer'
<1>1. /\ Running /\ src.pc = "stream" /\ Len(src.hash) < Obs.size
      /\ UNCHANGED <<rx, pick, dst, data, ctl, ack, disk, ver, attempts>>
  BY DEF SourceReads, pages, wires
<1>2. Obs.size \in Nat BY <1>1, ObsIsFile DEF Advertised, Transfer
<1>3. IsSeq(src.hash) /\ Len(src.hash) \in Nat /\ src.chunk \in Nat \ {0} /\ src.offset \in Int
  BY DEF Transfer, SourceRow, IsSeq
<1>4. PICK n : n = IF Obs.size - Len(src.hash) < SourceChunk
                   THEN Obs.size - Len(src.hash) ELSE SourceChunk
  OBVIOUS
<1>5. n \in Nat BY <1>1, <1>2, <1>3, <1>4, ExpertAssumption
<1> DEFINE more == [i \in 1..n |-> <<Obs.id, ver[Obs.id]>>]
<1>6. src' = [src EXCEPT !.parts = Parts(n), !.hash = @ \o more]
  BY <1>4 DEF SourceReads
<1>7. /\ more \in Seq({<<Obs.id, ver[Obs.id]>>}) /\ Len(more) = n
      /\ \A i \in 1..n : more[i] = <<Obs.id, ver[Obs.id]>>
  BY <1>5
<1> HIDE DEF more
<1>8. IsSeq(more) /\ \A i \in 1..Len(more) : more[i] = <<Obs.id, ver[Obs.id]>>
  BY <1>7, SeqHasRange
<1>9. Len(more) \in Nat BY <1>5, <1>7
<1>10. /\ IsSeq(src.hash \o more) /\ Len(src.hash \o more) = Len(src.hash) + Len(more)
       /\ \A i \in 1..Len(src.hash) : (src.hash \o more)[i] = src.hash[i]
       /\ \A i \in 1..Len(more) : (src.hash \o more)[Len(src.hash) + i] = more[i]
  BY <1>3, <1>8, ConcatIsSeq
<1>11. PICK hash : hash = src.hash \o more OBVIOUS
<1>12. src = [pc |-> src.pc, offset |-> src.offset, parts |-> src.parts, chunk |-> src.chunk,
              hash |-> src.hash]
  BY DEF Transfer, SourceRow
<1>13. src' = [pc |-> src.pc, offset |-> src.offset, parts |-> Parts(n), chunk |-> src.chunk,
               hash |-> hash]
  BY <1>6, <1>11, <1>12
<1>14. Parts(n) \in Seq(Int)
  <2>1. (n + src.chunk - 1) \div src.chunk \in Nat
    <3>1. n + src.chunk - 1 \in Nat BY <1>3, <1>5
    <3> QED BY <1>3, <3>1
  <2>2. \A i \in Nat : (IF i * src.chunk <= n THEN src.chunk ELSE n - (i - 1) * src.chunk) \in Int
    BY <1>3, <1>5
  <2> QED BY <2>1, <2>2 DEF Parts
<1>15. SourceRow' BY <1>3, <1>10, <1>11, <1>13, <1>14 DEF SourceRow
<1>16. src'.pc = "stream" /\ src'.hash = hash BY <1>1, <1>13
<1>17. Hashed'
  <2>1. ASSUME ver[Obs.id] = 1, NEW i \in 1..Len(hash) PROVE hash[i] = <<Obs.id, 1>>
    <3>1. CASE i \in 1..Len(src.hash)
      <4>1. src.hash[i] = <<Obs.id, 1>> BY <1>1, <2>1, <3>1 DEF Transfer, Hashed
      <4> QED BY <1>10, <1>11, <3>1, <4>1
    <3>2. CASE i \notin 1..Len(src.hash)
      <4>1. i - Len(src.hash) \in 1..Len(more) /\ Len(src.hash) + (i - Len(src.hash)) = i
        BY <1>3, <1>9, <1>10, <1>11, <3>2
      <4>2. more[i - Len(src.hash)] = <<Obs.id, 1>> BY <1>8, <2>1, <4>1
      <4>3. hash[Len(src.hash) + (i - Len(src.hash))] = more[i - Len(src.hash)]
        BY <1>10, <1>11, <4>1
      <4> QED BY <4>1, <4>2, <4>3
    <3> QED BY <3>1, <3>2
  <2>2. Obs' = Obs /\ Running' BY <1>1 DEF Obs, Running
  <2> QED BY <1>1, <1>16, <2>1, <2>2 DEF Transfer, Hashed
<1>18. DataOk' /\ CtlOk' /\ AckOk'
  BY <1>1, DataKept, AckStays DEF Transfer, CtlOk, Request
<1> QED BY <1>1, <1>15, <1>16, <1>17, <1>18, SourceStep

LEMMA SendsStep == ASSUME Advertised, Transfer, SourceSends PROVE Transfer'
<1>1. /\ Running /\ src.pc = "stream" /\ src.parts # << >>
      /\ UNCHANGED <<rx, pick, dst, ctl, ack, disk, ver, attempts>>
  BY DEF SourceSends, pages
<1>2. PICK n : n = Head(src.parts) OBVIOUS
<1>3. /\ data' = Append(data, [is |-> "payload", at |-> src.offset,
                               blocks |-> SubSeq(src.hash, src.offset + 1, src.offset + n)])
      /\ src' = [src EXCEPT !.parts = Tail(@), !.offset = @ + n]
  BY <1>2 DEF SourceSends
<1>4. /\ src = [pc |-> src.pc, offset |-> src.offset, parts |-> src.parts, chunk |-> src.chunk,
                hash |-> src.hash]
      /\ src.offset \in Int /\ src.parts \in Seq(Int) /\ src.chunk \in Nat \ {0} /\ IsSeq(src.hash)
  BY DEF Transfer, SourceRow
<1>5. n \in Int /\ Tail(src.parts) \in Seq(Int) BY <1>1, <1>2, <1>4
<1>6. src' = [pc |-> src.pc, offset |-> src.offset + n, parts |-> Tail(src.parts),
              chunk |-> src.chunk, hash |-> src.hash]
  BY <1>3, <1>4
<1>7. SourceRow' /\ src'.pc = "stream" /\ src'.hash = src.hash
  BY <1>1, <1>4, <1>5, <1>6 DEF SourceRow
<1>8. Hashed' BY <1>1, <1>7, HashKept DEF Transfer
<1>9. FromSource([is |-> "payload", at |-> src.offset,
                  blocks |-> SubSeq(src.hash, src.offset + 1, src.offset + n)])
  <2>1. IsSeq(SubSeq(src.hash, src.offset + 1, src.offset + n)) BY <1>4, <1>5, SubSeqIsSeq
  <2> QED BY <2>1 DEF FromSource
<1>10. DataOk' BY <1>1, <1>3, <1>9, DataGrown DEF Transfer
<1>11. CtlOk' /\ AckOk' BY <1>1, AckStays DEF Transfer, CtlOk, Request
<1> QED BY <1>1, <1>7, <1>8, <1>10, <1>11, SourceStep

\* A source that fails by itself says so, or is gone.
LEMMA FailedSource ==
    ASSUME Advertised, Transfer, Running, src' = [src EXCEPT !.pc = "failed"],
           UNCHANGED <<rx, pick, dst, ctl, ack, disk, ver, attempts>>,
           \/ \E kind \in {"failed", "cancelled"} : data' = Append(data, [is |-> kind])
           \/ \E n \in 0..Len(data) : data' = SubSeq(data, 1, n)
           \/ UNCHANGED data
    PROVE  Transfer'
<1>1. SourceRow' /\ src'.pc = "failed" /\ src'.hash = src.hash BY SourcePc DEF Transfer
<1>2. Hashed' BY <1>1, HashKept DEF Transfer
<1>3. DataOk'
  <2>1. FromSource([is |-> "failed"]) /\ FromSource([is |-> "cancelled"]) BY DEF FromSource
  <2>2. CASE UNCHANGED data BY <2>2, DataKept DEF Transfer
  <2>3. CASE \E n \in 0..Len(data) : data' = SubSeq(data, 1, n) BY <2>3, DataCut DEF Transfer
  <2>4. CASE \E kind \in {"failed", "cancelled"} : data' = Append(data, [is |-> kind])
    BY <2>1, <2>4, DataGrown DEF Transfer
  <2> QED BY <2>2, <2>3, <2>4
<1>4. CtlOk' /\ AckOk' BY AckStays DEF Transfer, CtlOk, Request
<1> QED BY <1>1, <1>2, <1>3, <1>4, SourceStep

LEMMA CompletesStep == ASSUME Advertised, Transfer, SourceCompletes PROVE Transfer'
<1>1. /\ Running /\ Len(src.hash) = Obs.size
      /\ UNCHANGED <<rx, pick, dst, disk, ver, attempts>>
      /\ IF Finish(Obs)
         THEN /\ src' = [src EXCEPT !.pc = "terminal"]
              /\ data' = Append(data, [is |-> "completed", size |-> Obs.size, id |-> Obs.id,
                                       digest |-> src.hash])
              /\ UNCHANGED <<ctl, ack, credit>>
         ELSE SourceFails("failed")
  BY DEF SourceCompletes, pages
<1>2. CASE Finish(Obs)
  <2>1. /\ src' = [src EXCEPT !.pc = "terminal"] /\ UNCHANGED <<ctl, ack>>
        /\ data' = Append(data, [is |-> "completed", size |-> Obs.size, id |-> Obs.id,
                                 digest |-> src.hash])
    BY <1>1, <1>2
  <2>2. src.hash = Content(Obs)
    <3>1. \A i \in 1..Len(src.hash) : src.hash[i] = <<Obs.id, 1>>
      BY <1>1, <1>2 DEF Transfer, Hashed, Finish
    <3>2. IsSeq(src.hash) BY DEF Transfer, SourceRow
    <3>3. src.hash = [i \in 1..Obs.size |-> <<Obs.id, 1>>] BY <1>1, <3>1, <3>2, ConstantSeq
    <3> QED BY <3>3 DEF Content
  <2>3. FromSource([is |-> "completed", size |-> Obs.size, id |-> Obs.id, digest |-> src.hash])
    BY <1>1, <2>2 DEF FromSource
  <2>4. DataOk' BY <1>1, <2>1, <2>3, DataGrown DEF Transfer
  <2>5. SourceRow' /\ src'.pc = "terminal" /\ src'.hash = src.hash
    BY <2>1, SourcePc DEF Transfer
  <2>6. Hashed' BY <1>1, <2>5, HashKept DEF Transfer
  <2>7. CtlOk' /\ AckOk' BY <1>1, <2>1, AckStays DEF Transfer, CtlOk, Request
  <2> QED BY <1>1, <2>4, <2>5, <2>6, <2>7, SourceStep
<1>3. CASE ~Finish(Obs)
  <2>1. /\ src' = [src EXCEPT !.pc = "failed"] /\ data' = Append(data, [is |-> "failed"])
        /\ UNCHANGED <<ctl, ack>>
    BY <1>1, <1>3 DEF SourceFails
  <2> QED BY <1>1, <2>1, FailedSource
<1> QED BY <1>2, <1>3

LEMMA ConcludesStep == ASSUME Advertised, Transfer, SourceConcludes PROVE Transfer'
<1>1. /\ Running /\ UNCHANGED <<rx, pick, dst, data, disk, ver, attempts>>
  BY DEF SourceConcludes, pages
<1>2. PICK m : Received(m) /\ src' = [src EXCEPT !.pc = IF Agrees(m) THEN "ok" ELSE "failed"]
  BY DEF SourceConcludes
<1>3. CtlOk' /\ AckOk' /\ (Request(m) \/ Outcome(m)) BY <1>1, <1>2, ReceivedKeeps
<1>4. PICK p : p = IF Agrees(m) THEN "ok" ELSE "failed" OBVIOUS
<1>5. SourceRow' /\ src'.pc = p /\ src'.hash = src.hash BY <1>2, <1>4, SourcePc DEF Transfer
<1>6. Hashed' /\ DataOk' BY <1>1, <1>5, HashKept, DataKept DEF Transfer
<1>7. p = "ok" => dst.pc = "ok" /\ disk.final = src.hash
  BY <1>3, <1>4 DEF Agrees, Request, Outcome
<1> QED BY <1>1, <1>3, <1>5, <1>6, <1>7, SourceStep

LEMMA SourceEnds ==
    ASSUME Advertised, Transfer, SourceFaults \/ SourceDies \/ SourceAlone PROVE Transfer'
<1>1. CASE SourceFaults
  <2>1. PICK kind \in {"failed", "cancelled"} : SourceFails(kind) BY <1>1 DEF SourceFaults
  <2>2. /\ Running /\ src' = [src EXCEPT !.pc = "failed"] /\ data' = Append(data, [is |-> kind])
        /\ UNCHANGED <<rx, pick, dst, ctl, ack, disk, ver, attempts>>
    BY <1>1, <2>1 DEF SourceFaults, SourceFails, pages
  <2> QED BY <2>2, FailedSource
<1>2. CASE SourceDies
  <2>1. /\ Running /\ src' = [src EXCEPT !.pc = "failed"]
        /\ \E n \in 0..Len(data) : data' = SubSeq(data, 1, n)
        /\ UNCHANGED <<rx, pick, dst, ctl, ack, disk, ver, attempts>>
    BY <1>2 DEF SourceDies, pages
  <2> QED BY <2>1, FailedSource
<1>3. CASE SourceAlone
  <2>1. /\ Running /\ src' = [src EXCEPT !.pc = "failed"]
        /\ UNCHANGED <<rx, pick, dst, data, ctl, ack, disk, ver, attempts>>
    BY <1>3 DEF SourceAlone, SourceQuits, pages, wires
  <2> QED BY <2>1, FailedSource
<1> QED BY <1>1, <1>2, <1>3

-----------------------------------------------------------------------------
(* The destination's steps.                                                *)

LEMMA AsksStep == ASSUME Advertised, Transfer, TargetAsks PROVE Transfer'
<1>1. /\ Running /\ dst.pc = "ask" /\ ctl' = Append(ctl, [is |-> "requested"])
      /\ dst' = [dst EXCEPT !.pc = "offer"]
      /\ UNCHANGED <<rx, pick, src, data, ack, disk, ver, attempts>>
  BY DEF TargetAsks, pages
<1>2. TargetRow' BY <1>1, TargetPc DEF Transfer
<1>3. CtlOk'
  <2>1. Request([is |-> "requested"]) BY DEF Request
  <2> QED BY <1>1, <2>1, CtlGrown DEF Transfer
<1>4. DataOk' /\ AckOk' BY <1>1, DataKept, AckStays DEF Transfer
<1>5. DiskRow' /\ disk'.final = disk.final BY <1>1 DEF Transfer, DiskRow
<1> QED BY <1>1, <1>2, <1>3, <1>4, <1>5, TargetStep

\* A destination that fails, whether it can still say so or not.
LEMMA FailedTarget ==
    ASSUME Transfer, Running, dst.pc # "ok", dst' = [dst EXCEPT !.pc = "failed"],
           UNCHANGED <<rx, pick, src, ctl, ver, attempts>>,
           UNCHANGED data \/ (data # << >> /\ data' = Tail(data)),
           UNCHANGED ack \/ \E kind \in {"failed", "cancelled"} : ack' = Append(ack, [is |-> kind]),
           \/ UNCHANGED disk
           \/ \E s \in Durable(dst.stage) \cup {disk.stage, << >>, dst.stage} :
                 disk' = [disk EXCEPT !.stage = s]
    PROVE  Transfer'
<1>1. TargetRow' BY TargetPc DEF Transfer
<1>2. DiskRow' /\ disk'.final = disk.final BY StageKept DEF Transfer
<1>3. DataOk' BY DataKept, DataRead DEF Transfer
<1>4. CtlOk' BY DEF Transfer, CtlOk, Request
<1>5. AckOk'
  <2>1. CASE UNCHANGED ack BY <2>1, AckStays DEF Transfer
  <2>2. ASSUME NEW kind \in {"failed", "cancelled"}, ack' = Append(ack, [is |-> kind])
        PROVE  AckOk'
    <3>1. Outcome([is |-> kind])' BY DEF Outcome
    <3> QED BY <2>2, <3>1, AckGrown DEF Transfer
  <2> QED BY <2>1, <2>2
<1> QED BY <1>1, <1>2, <1>3, <1>4, <1>5, TargetStep

LEMMA PreparesStep == ASSUME Advertised, Transfer, TargetPrepares PROVE Transfer'
<1>1. /\ Running /\ dst.pc = "offer" /\ data # << >> /\ data' = Tail(data)
      /\ UNCHANGED <<rx, pick, src, disk, ver, attempts>>
  BY DEF TargetPrepares, pages
<1>2. ASSUME NEW c \in TargetChunks,
             /\ dst' = [dst EXCEPT !.pc = "receive", !.stage = disk.stage, !.chunk = c,
                                   !.expected = Len(disk.stage)]
             /\ ctl' = Append(ctl, [is |-> "payload_requested", prefix |-> Len(disk.stage),
                                    chunk |-> c])
             /\ UNCHANGED ack
      PROVE  Transfer'
  <2>1. dst = [pc |-> dst.pc, expected |-> dst.expected, stage |-> dst.stage,
               chunk |-> dst.chunk, broken |-> dst.broken]
    BY DEF Transfer, TargetRow
  <2>2. dst' = [pc |-> "receive", expected |-> Len(disk.stage), stage |-> disk.stage,
                chunk |-> c, broken |-> dst.broken]
    BY <1>2, <2>1
  <2>3. IsSeq(disk.stage) /\ Len(disk.stage) \in Nat BY DEF Transfer, DiskRow, IsSeq
  <2>4. TargetRow' BY <2>2, <2>3 DEF TargetRow
  <2>5. CtlOk'
    <3>1. c \in Nat \ {0} BY ExpertAssumption
    <3>2. Request([is |-> "payload_requested", prefix |-> Len(disk.stage), chunk |-> c])
      BY <2>3, <3>1 DEF Request
    <3> QED BY <1>2, <3>2, CtlGrown DEF Transfer
  <2>6. DataOk' /\ AckOk' BY <1>1, <1>2, DataRead, AckStays DEF Transfer
  <2>7. DiskRow' /\ disk'.final = disk.final BY <1>1 DEF Transfer, DiskRow
  <2> QED BY <1>1, <2>4, <2>5, <2>6, <2>7, TargetStep
<1>3. CASE \E kind \in {"failed", "cancelled"} : TargetFails(kind)
  <2>1. PICK kind \in {"failed", "cancelled"} : TargetFails(kind) BY <1>3
  <2>2. /\ dst' = [dst EXCEPT !.pc = "failed"] /\ ack' = Append(ack, [is |-> kind])
        /\ UNCHANGED ctl
    BY <2>1 DEF TargetFails
  <2> QED BY <1>1, <2>2, FailedTarget
<1>4. CASE TargetQuits BY <1>1, <1>4, FailedTarget DEF TargetQuits
<1> QED BY <1>2, <1>3, <1>4 DEF TargetPrepares

\* A destination that gives up, with or without a report.
LEMMA GivesUp ==
    ASSUME Transfer, Running, dst.pc # "ok", TargetGivesUp,
           UNCHANGED <<rx, pick, src, ver, attempts>>, data # << >>, data' = Tail(data)
    PROVE  Transfer'
<1>1. /\ dst' = [dst EXCEPT !.pc = "failed"] /\ UNCHANGED ctl
      /\ UNCHANGED ack \/ ack' = Append(ack, [is |-> "failed"])
      /\ \E s \in Durable(dst.stage) : disk' = [disk EXCEPT !.stage = s]
  BY DEF TargetGivesUp, TargetFails, TargetQuits
<1> QED BY <1>1, FailedTarget

LEMMA ReceivesStep == ASSUME Advertised, Transfer, TargetReceives PROVE Transfer'
<1>1. /\ Running /\ dst.pc = "receive" /\ data # << >> /\ data' = Tail(data)
      /\ Head(data).is = "payload" /\ UNCHANGED <<rx, pick, src, ver, attempts>>
  BY DEF TargetReceives, pages
<1>2. PICK m : m = Head(data) OBVIOUS
<1>3. IF PayloadFits(m) /\ ~dst.broken
      THEN /\ dst' = [dst EXCEPT !.stage = @ \o m.blocks, !.expected = @ + Len(m.blocks)]
           /\ UNCHANGED <<ctl, ack, disk>>
      ELSE TargetGivesUp
  BY <1>2 DEF TargetReceives
<1>4. DataOk' /\ IsSeq(m.blocks) BY <1>1, <1>2, DataRead DEF Transfer, FromSource
<1>5. CASE PayloadFits(m) /\ ~dst.broken
  <2>1. /\ dst' = [dst EXCEPT !.stage = @ \o m.blocks, !.expected = @ + Len(m.blocks)]
        /\ UNCHANGED <<ctl, ack, disk>>
    BY <1>3, <1>5
  <2>2. /\ dst = [pc |-> dst.pc, expected |-> dst.expected, stage |-> dst.stage,
                  chunk |-> dst.chunk, broken |-> dst.broken]
        /\ IsSeq(dst.stage)
    BY DEF Transfer, TargetRow
  <2>3. PICK s : s = dst.stage \o m.blocks OBVIOUS
  <2>4. IsSeq(s) BY <1>4, <2>2, <2>3, ConcatIsSeq
  <2>5. PICK e : e = dst.expected + Len(m.blocks) OBVIOUS
  <2>6. dst' = [pc |-> dst.pc, expected |-> e, stage |-> s, chunk |-> dst.chunk,
                broken |-> dst.broken]
    BY <2>1, <2>2, <2>3, <2>5
  <2>7. TargetRow' BY <2>4, <2>6 DEF TargetRow
  <2>8. CtlOk' /\ AckOk' BY <1>1, <2>1, AckStays DEF Transfer, CtlOk, Request
  <2>9. DiskRow' /\ disk'.final = disk.final BY <2>1 DEF Transfer, DiskRow
  <2> QED BY <1>1, <1>4, <2>7, <2>8, <2>9, TargetStep
<1>6. CASE ~(PayloadFits(m) /\ ~dst.broken) BY <1>1, <1>3, <1>6, GivesUp
<1> QED BY <1>5, <1>6

LEMMA WriteFailsStep == ASSUME Advertised, Transfer, WriteFails PROVE Transfer'
<1>1. /\ Running /\ dst.pc = "receive" /\ dst' = [dst EXCEPT !.broken = TRUE]
      /\ UNCHANGED <<rx, pick, src, data, ctl, ack, disk, ver, attempts>>
  BY DEF WriteFails, pages, wires
<1>2. /\ dst = [pc |-> dst.pc, expected |-> dst.expected, stage |-> dst.stage,
                chunk |-> dst.chunk, broken |-> dst.broken]
      /\ IsSeq(dst.stage)
  BY DEF Transfer, TargetRow
<1>3. dst' = [pc |-> dst.pc, expected |-> dst.expected, stage |-> dst.stage,
              chunk |-> dst.chunk, broken |-> TRUE]
  BY <1>1, <1>2
<1>4. TargetRow' BY <1>2, <1>3 DEF TargetRow
<1>5. DataOk' /\ CtlOk' /\ AckOk'
  BY <1>1, DataKept, AckStays DEF Transfer, CtlOk, Request
<1>6. DiskRow' /\ disk'.final = disk.final BY <1>1 DEF Transfer, DiskRow
<1> QED BY <1>1, <1>4, <1>5, <1>6, TargetStep

\* Only the whole advertised version is published.
LEMMA TargetCompletesStep == ASSUME Advertised, Transfer, TargetCompletes PROVE Transfer'
<1>1. /\ Running /\ dst.pc = "receive" /\ data # << >> /\ data' = Tail(data)
      /\ Head(data).is = "completed" /\ UNCHANGED <<rx, pick, src, ver, attempts>>
  BY DEF TargetCompletes, pages
<1>2. PICK m : m = Head(data) OBVIOUS
<1>3. TargetPublishes(m) \/ TargetRejects(m) BY <1>2 DEF TargetCompletes
<1>4. DataOk' /\ m.digest = Content(Obs) BY <1>1, <1>2, DataRead DEF Transfer, FromSource
<1>5. CASE TargetPublishes(m)
  <2>1. /\ disk' = [stage |-> << >>, final |-> dst.stage] /\ dst.stage = Content(Obs)
        /\ \/ /\ dst' = [dst EXCEPT !.pc = "ok"] /\ UNCHANGED ctl
              /\ ack' = Append(ack, [is |-> "completed", bytes |-> Obs.size,
                                     digest |-> dst.stage])
           \/ TargetFails("failed") \/ TargetQuits
    BY <1>4, <1>5 DEF TargetPublishes, Verified
  <2>2. disk'.final = dst.stage /\ disk'.stage = << >> /\ disk'.final = Content(Obs) BY <2>1
  <2>3. DiskRow'
    <3>1. << >> \in Seq({}) OBVIOUS
    <3> QED BY <2>1, <3>1, SeqHasRange DEF DiskRow
  <2>4. CtlOk' BY <2>1 DEF Transfer, CtlOk, Request, TargetFails, TargetQuits
  <2>5. TargetRow' /\ AckOk'
    <3>1. CASE /\ dst' = [dst EXCEPT !.pc = "ok"]
               /\ ack' = Append(ack, [is |-> "completed", bytes |-> Obs.size,
                                      digest |-> dst.stage])
      <4>1. TargetRow' /\ dst'.pc = "ok" BY <3>1, TargetPc DEF Transfer
      <4>2. PICK r : r = [is |-> "completed", bytes |-> Obs.size, digest |-> dst.stage] OBVIOUS
      <4>3. r.is = "completed" /\ r.digest = dst.stage BY <4>2
      <4>4. Outcome(r)' BY <2>2, <4>1, <4>3 DEF Outcome
      <4> QED BY <1>1, <3>1, <4>1, <4>2, <4>4, AckGrown DEF Transfer
    <3>2. CASE TargetFails("failed")
      <4>1. /\ dst' = [dst EXCEPT !.pc = "failed"]
            /\ ack' = Append(ack, [is |-> "failed"])
        BY <3>2 DEF TargetFails
      <4>2. Outcome([is |-> "failed"])' BY DEF Outcome
      <4> QED BY <1>1, <4>1, <4>2, TargetPc, AckGrown DEF Transfer
    <3>3. CASE TargetQuits
      <4>1. dst' = [dst EXCEPT !.pc = "failed"] /\ UNCHANGED ack BY <3>3 DEF TargetQuits
      <4> QED BY <1>1, <4>1, TargetPc, AckStays DEF Transfer
    <3> QED BY <2>1, <3>1, <3>2, <3>3
  <2> QED BY <1>1, <1>4, <2>2, <2>3, <2>4, <2>5, TargetStep
<1>6. CASE TargetRejects(m)
  <2>1. /\ dst' = [dst EXCEPT !.pc = "failed"] /\ ack' = Append(ack, [is |-> "failed"])
        /\ UNCHANGED ctl
        /\ \E s \in {<< >>, dst.stage} : disk' = [disk EXCEPT !.stage = s]
    BY <1>6 DEF TargetRejects, TargetFails
  <2> QED BY <1>1, <2>1, FailedTarget
<1> QED BY <1>3, <1>5, <1>6

LEMMA TargetEnds ==
    ASSUME Advertised, Transfer, TargetInterrupted \/ TargetDies \/ TargetAlone
    PROVE  Transfer'
<1>1. CASE TargetInterrupted
  <2>1. /\ Running /\ dst.pc = "receive" /\ data # << >> /\ data' = Tail(data)
        /\ TargetGivesUp /\ UNCHANGED <<rx, pick, src, ver, attempts>>
    BY <1>1 DEF TargetInterrupted, pages
  <2> QED BY <2>1, GivesUp
<1>2. CASE TargetDies
  <2>1. /\ Running /\ dst.pc # "ok" /\ dst' = [dst EXCEPT !.pc = "failed"]
        /\ UNCHANGED <<rx, pick, src, data, ctl, ack, ver, attempts>>
        /\ \E s \in Durable(dst.stage) \cup {disk.stage} : disk' = [disk EXCEPT !.stage = s]
    BY <1>2 DEF TargetDies, DstEnded, pages, wires
  <2> QED BY <2>1, FailedTarget
<1>3. CASE TargetAlone
  <2>1. /\ Running /\ dst.pc # "ok" /\ dst' = [dst EXCEPT !.pc = "failed"]
        /\ UNCHANGED <<rx, pick, src, data, ctl, ack, ver, attempts>>
        /\ \E s \in Durable(dst.stage) \cup {disk.stage} : disk' = [disk EXCEPT !.stage = s]
    BY <1>3 DEF TargetAlone, pages, wires
  <2> QED BY <2>1, FailedTarget
<1> QED BY <1>1, <1>2, <1>3

-----------------------------------------------------------------------------
(* The theorems.                                                           *)

LEMMA InitIInv == Init => IInv
<1> SUFFICES ASSUME Init PROVE IInv OBVIOUS
<1>1. << >> \in Seq({}) /\ Len(<< >>) = 0 OBVIOUS
<1>2. IsSeq(<< >>) BY <1>1, SeqHasRange
<1>3. adv = NewProjection /\ rx = NewReceiver /\ list = << >> BY DEF Init
<1>4. Projecting
  <2>1. << >> \in Seq(Observations) /\ << >> \in Seq(Files) OBVIOUS
  <2>2. adv \in Projections BY <1>3, <2>1 DEF NewProjection, Projections
  <2> QED BY <1>1, <1>3, <2>2, ExpertAssumption DEF Projecting, Projection, NewProjection
<1>5. Receiving
  <2>1. << >> \in Seq(Files) OBVIOUS
  <2>2. rx \in Receivers BY <1>3, <2>1 DEF NewReceiver, Receivers
  <2> QED BY <1>1, <1>3, <2>2 DEF Receiving, NewReceiver, NewProjection
<1>6. ListInv
  <2>1. Seen = [at |-> 0, page |-> 0, failures |-> 0] /\ Sent(adv, 0) = Seen
    BY <1>1, <1>3 DEF Seen, Sent, Numbers, NewReceiver, NewProjection
  <2>2. Seen \in Tallies BY <2>1 DEF Tallies
  <2>3. Carries(list, Seen, Sent(adv, 0), adv.entries) BY <1>3, <2>1, <2>2, CarriesNothing
  <2>4. adv.page = 0 /\ adv.end = "walking" /\ rx.end = "open"
    BY <1>3 DEF NewReceiver, NewProjection
  <2>5. Streamed BY <2>3, <2>4 DEF Streamed
  <2>6. Terminated BY <1>1, <1>3, <2>4 DEF Terminated
  <2> QED BY <1>2, <1>3, <2>4, <2>5, <2>6 DEF ListInv
<1>7. SourceRow BY <1>2 DEF Init, SourceRow, IdleSource
<1>8. TargetRow /\ DiskRow BY <1>2 DEF Init, TargetRow, DiskRow, IdleTarget
<1>9. Picked /\ Published BY DEF Init, Picked, Published, Running, IdleSource
<1>10. Hashed BY DEF Init, Hashed, Running
<1>11. DataOk /\ CtlOk /\ AckOk BY <1>1, <1>2 DEF Init, DataOk, CtlOk, AckOk
<1>12. SourceAgrees BY DEF Init, SourceAgrees, IdleSource
<1> QED BY <1>4, <1>5, <1>6, <1>7, <1>8, <1>9, <1>10, <1>11, <1>12
        DEF IInv, Advertised, Transfer

LEMMA NextIInv == IInv /\ [Next]_vars => IInv'
<1> SUFFICES ASSUME IInv, [Next]_vars PROVE IInv' OBVIOUS
<1>0. Advertised /\ Transfer BY DEF IInv
<1> USE <1>0
\* The list's steps.
<1>1. ASSUME NEW end \in {"completed", "cancelled", "failed"}, AdvertisementEnds(end) PROVE IInv'
  <2>1. rx.end = "open" BY <1>1, WhileWalking DEF AdvertisementEnds
  <2>2. Transfer' BY <1>1, <2>1, ListStep DEF AdvertisementEnds
  <2> QED BY <1>1, <2>2, EndAdvertised DEF IInv
<1>2. CASE AdvertiseEntry
  <2>1. rx.end = "open" BY <1>2, WhileWalking DEF AdvertiseEntry
  <2>2. Transfer' BY <1>2, <2>1, ListStep DEF AdvertiseEntry
  <2> QED BY <1>2, <2>2, EntryAdvertised DEF IInv
<1>3. CASE AdvertiseFailure
  <2>1. rx.end = "open" BY <1>3, WhileWalking DEF AdvertiseFailure
  <2>2. Transfer' BY <1>3, <2>1, ListStep DEF AdvertiseFailure
  <2> QED BY <1>3, <2>2, FailureAdvertised DEF IInv
<1>4. CASE Accept
  <2>1. Transfer' BY <1>4, ListStep DEF Accept
  <2> QED BY <1>4, <2>1, ListAccepted DEF IInv
\* A transfer's steps.
<1>5. ASSUME UNCHANGED pages, Transfer' PROVE IInv' BY <1>5, PagesKept DEF IInv
<1>6. CASE StartTransfer BY <1>5, <1>6, StartStep DEF StartTransfer
<1>7. CASE Rewrite BY <1>5, <1>7, RewriteStep DEF Rewrite
<1>8. CASE SourceOffers BY <1>5, <1>8, OffersStep DEF SourceOffers
<1>9. CASE SourceStreams BY <1>5, <1>9, StreamsStep DEF SourceStreams
<1>10. CASE SourceReads BY <1>5, <1>10, ReadsStep DEF SourceReads
<1>11. CASE SourceSends BY <1>5, <1>11, SendsStep DEF SourceSends
<1>12. CASE SourceCompletes BY <1>5, <1>12, CompletesStep DEF SourceCompletes
<1>13. CASE SourceConcludes BY <1>5, <1>13, ConcludesStep DEF SourceConcludes
<1>14. CASE SourceFaults \/ SourceDies \/ SourceAlone
  BY <1>5, <1>14, SourceEnds DEF SourceFaults, SourceDies, SourceAlone
<1>15. CASE TargetAsks BY <1>5, <1>15, AsksStep DEF TargetAsks
<1>16. CASE TargetPrepares BY <1>5, <1>16, PreparesStep DEF TargetPrepares
<1>17. CASE TargetReceives BY <1>5, <1>17, ReceivesStep DEF TargetReceives
<1>18. CASE WriteFails BY <1>5, <1>18, WriteFailsStep DEF WriteFails
<1>19. CASE TargetCompletes BY <1>5, <1>19, TargetCompletesStep DEF TargetCompletes
<1>20. CASE TargetInterrupted \/ TargetDies \/ TargetAlone
  BY <1>5, <1>20, TargetEnds DEF TargetInterrupted, TargetDies, TargetAlone
<1>21. CASE UNCHANGED vars
  <2>1. UNCHANGED pages BY <1>21 DEF vars
  <2>2. UNCHANGED <<rx, pick, src, dst, data, ctl, ack, disk, ver, attempts>>
    BY <1>21 DEF vars, pages, wires
  <2>3. SourceRow' /\ TargetRow' /\ DiskRow' /\ Picked'
    BY <2>2 DEF Transfer, SourceRow, TargetRow, DiskRow, Picked, Running
  <2>4. Hashed' /\ Published' /\ SourceAgrees'
    BY <2>2 DEF Transfer, Hashed, Published, SourceAgrees, Obs, Running, Content
  <2>5. DataOk' /\ CtlOk' /\ AckOk'
    BY <2>2, DataKept, AckStays DEF Transfer, CtlOk, Request
  <2> QED BY <1>5, <2>1, <2>3, <2>4, <2>5 DEF Transfer
<1>22. CASE Step
  BY <1>1, <1>2, <1>3, <1>4, <1>6, <1>8, <1>9, <1>10, <1>11, <1>12, <1>13, <1>14, <1>15, <1>16,
     <1>17, <1>19, <1>20, <1>22 DEF Step
<1>23. CASE \E end \in {"cancelled", "failed"} : AdvertisementEnds(end) BY <1>1, <1>23
<1> QED BY <1>7, <1>14, <1>18, <1>20, <1>21, <1>22, <1>23 DEF Next

\* The inductive invariant of the list and of the transfer: what the stream still
\* carries takes the receiver exactly where the projection is, and evidence on the
\* wire is only ever that of the whole advertised version.
THEOREM ExpertInvariant == Spec => []IInv
<1> QED BY InitIInv, NextIInv, PTL DEF Spec

LEMMA EndsAgreeFromIInv == IInv => EndsAgree
<1> SUFFICES ASSUME IInv PROVE EndsAgree OBVIOUS
<1>1. LedgersAgree
  <2>1. rx.end \in {"open", "completed", "cancelled", "failed"}
    BY DEF IInv, Advertised, Receiving, Receivers
  <2> QED BY <2>1 DEF LedgersAgree, IInv, Advertised, ListInv, Concluded
<1>2. PublishedIsAdvertised
  <2> SUFFICES ASSUME disk.final # Unpublished
               PROVE  disk.final = Content(adv.entries[pick + 1])
    BY DEF PublishedIsAdvertised
  <2>1. Running /\ disk.final = Content(Obs) BY DEF IInv, Transfer, Published
  <2>2. rx.end = "completed" BY <2>1 DEF IInv, Transfer, Picked
  <2>3. rx.ledger = adv.entries BY <2>2 DEF IInv, Advertised, ListInv, Concluded
  <2> QED BY <2>1, <2>3 DEF Obs
<1>3. SourceAgrees BY DEF IInv, Transfer
<1> QED BY <1>1, <1>2, <1>3 DEF EndsAgree

\* Whatever the pages, the credit window, the chunks and the faults, the two ends
\* agree on the list that remote_advertisement.rs sends and on what
\* remote_expert_transfer.rs publishes and reports.
THEOREM EndsAgreeAlways == Spec => []EndsAgree
<1> QED BY ExpertInvariant, EndsAgreeFromIInv, PTL

=============================================================================
