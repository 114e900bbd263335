------------------------ MODULE RemoteSessionProofs ------------------------
(***************************************************************************)
(* The receiver's ledger of RemoteSession is true, the two ends agree on   *)
(* the result, and the session implements SyncContract, for any pages,     *)
(* chunks, window and queue.                                               *)
(*                                                                         *)
(* An entry that needs its data is the business of one place at a time:    *)
(* its request, its transfer, the message that ends it, the command to     *)
(* commit it, the outcome, the wish to repeat it, or the source's error.   *)
(* A transfer that has begun leaves a mark besides, from the command that  *)
(* begins it to the state of the disk-commit task, or to the failure that  *)
(* task reports of its own accord.                                         *)
(***************************************************************************)
EXTENDS RemoteSession, SequenceTheorems, FiniteSetTheorems, TLAPS

IsSeq(q) == q \in Seq(Range(q))

\* The entries a queue has messages of the types T about, and that it has one
\* such message about each.
About(q, T) == {q[i].n : i \in {j \in 1..Len(q) : q[j].type \in T}}
Solo(q, T) ==
    \A i, j \in 1..Len(q) : q[i].type \in T /\ q[j].type \in T /\ q[i].n = q[j].n => i = j

Requested == {"TransferRequest"}
Replies   == {"TransferRequest", "Classified"}
Ends      == {"EndOfFile", "CreateSymlink", "WriteDeleteMarker"}
Commits   == {"FileCommit", "DeltaCommit", "WriteDeleteMarker"}
Begins    == {"FileBegin", "DeltaBegin"}
Stops     == {"AbortFile", "Shutdown"}
Listings  == {"FilePage", "FileListError"}

\* The places an entry can be.
Asked   == About(back, Requested)
Working == IF conn /\ job # NoJob THEN {job.n} ELSE {}
Ending  == About(data, Ends)
Closing == About(toDisk, Commits)
Queued  == About(dcq, Commits)
Good    == About(dcAcks, {"success"})
Bad     == About(dcAcks, {"mismatch"})
Redoing == About(acks, {"Redo"})
Failing == About(ctl, {"EntryError"})
Held    == Asked \cup Working \cup Ending \cup Closing \cup Queued \cup Good \cup Bad
           \cup Redoing \cup Failing

\* The marks of a transfer that has begun.
Beginning == About(toDisk, Begins)
Awaiting  == About(dcq, Begins)
Underway  == IF Busy THEN {dc.n} ELSE {}
Broken    == About(dcAcks, {"hard"})
Marked    == Beginning \cup Awaiting \cup Underway \cup Broken

\* The successes the sender is yet to hear of, and that all pages are decided.
Told     == About(acks, {"Success"})
Informed == About(back, {"RequestsDone"})
Finished == About(ctl, {"TransferDone"})

\* The entries of the Data stream, and those it has the first message of.
InData  == {data[i].n : i \in 1..Len(data)}
Opening == About(data, {"FileBegin"})

Links   == {n \in Ndx : decision[n] = "link"}
Markers == {n \in Ndx : decision[n] = "marker"}
Plain   == {n \in Ndx : decision[n] \in {"full", "delta"}}

-----------------------------------------------------------------------------
(* The invariant: types and queues.                                        *)

Shape ==
    /\ conn \in BOOLEAN
    /\ job = [n |-> job.n, mode |-> job.mode, left |-> job.left, total |-> job.total]
    /\ job # NoJob => job.n \in Plain
    /\ active = [mode |-> active.mode, n |-> active.n]
    /\ active # Idle => active.n \in Plain
    /\ dc = [st |-> dc.st, n |-> dc.n, got |-> dc.got]
    /\ Busy => dc.n \in Plain
    /\ decision \in [Ndx -> Classes \cup {"none", "lost"}]
    /\ outcome \in [Ndx -> {"none", "success", "error"}]
    /\ terminated \subseteq Ndx /\ published \subseteq Plain \cup Markers /\ completedPaths \subseteq Ndx

CtlOk  == IsSeq(ctl) /\ Solo(ctl, {"EntryError"}) /\ Failing \subseteq Requests
BackOk == IsSeq(back) /\ Solo(back, Requested) /\ Asked \subseteq Requests
AcksOk == IsSeq(acks) /\ Solo(acks, {"Redo"}) /\ Redoing \subseteq Plain /\ Told \subseteq Ndx

\* The data of an entry are in one piece of the stream, which FileBegin opens
\* and EndOfFile ends.
OfData(m) ==
    /\ m.type = "CreateSymlink" => m.n \in Links
    /\ m.type = "WriteDeleteMarker" => m.n \in Markers
    /\ m.type \notin {"CreateSymlink", "WriteDeleteMarker"} => m.n \in Plain
DataOk ==
    /\ IsSeq(data)
    /\ \A i \in 1..Len(data) : OfData(data[i])
    /\ \A i, j \in 1..Len(data) : i < j /\ data[i].n = data[j].n =>
           data[i].type \notin Ends /\ data[j].type # "FileBegin"

\* Commands to the disk-commit task, and what it reports.
OfDisk(m) ==
    /\ m.type = "WriteDeleteMarker" => m.n \in Markers
    /\ m.type \notin Stops \cup {"WriteDeleteMarker"} => m.n \in Plain
Commands(q) ==
    /\ IsSeq(q) /\ Solo(q, Commits) /\ Solo(q, Begins)
    /\ \A i \in 1..Len(q) : OfDisk(q[i])
DcAcksOk ==
    /\ IsSeq(dcAcks) /\ Solo(dcAcks, {"success", "mismatch"})
    /\ \A i \in 1..Len(dcAcks) : /\ dcAcks[i].n \in Plain \cup Markers
                                 /\ dcAcks[i].type \in {"success", "mismatch", "hard"}
    /\ Bad \subseteq Plain

Queues == CtlOk /\ BackOk /\ AcksOk /\ DataOk /\ Commands(toDisk) /\ Commands(dcq) /\ DcAcksOk

-----------------------------------------------------------------------------
(* The invariant: what holds of one entry.                                 *)

OnePlace(n) ==
    /\ n \in Asked   => n \notin Working \cup Ending \cup Closing \cup Queued \cup Good \cup Bad \cup Redoing \cup Failing
    /\ n \in Working => n \notin Ending \cup Closing \cup Queued \cup Good \cup Bad \cup Redoing \cup Failing
    /\ n \in Ending  => n \notin Closing \cup Queued \cup Good \cup Bad \cup Redoing \cup Failing
    /\ n \in Closing => n \notin Queued \cup Good \cup Bad \cup Redoing \cup Failing
    /\ n \in Queued  => n \notin Good \cup Bad \cup Redoing \cup Failing
    /\ n \in Good    => n \notin Bad \cup Redoing \cup Failing
    /\ n \in Bad     => n \notin Redoing \cup Failing
    /\ n \in Redoing => n \notin Failing

OneMark(n) ==
    /\ n \in Beginning => n \notin Awaiting \cup Underway \cup Broken
    /\ n \in Awaiting  => n \notin Underway \cup Broken
    /\ n \in Underway  => n \notin Broken

\* Data are there only while the transfer lasts, or after it has failed; and a
\* transfer that has begun does not begin again.
Shut(n) ==
    \/ n \in terminated
    \/ active.n = n /\ n \notin Opening
    \/ n \notin InData /\ n \notin Working
Begun(n) ==
    /\ n \in InData => n \in Working \cup Ending \cup Failing \cup terminated
    /\ n \in Marked => n \notin Asked \cup Redoing \cup Good \cup Bad \cup published /\ Shut(n)

\* What is published is not touched again; what has failed is not published.
Lasting(n) ==
    /\ n \in Good => n \in published
    /\ n \in published => n \notin Held \ Good
    /\ n \notin Links /\ outcome[n] = "success" => n \in published \ Good
    /\ n \notin Links /\ (outcome[n] = "error" \/ n \in Broken) =>
          /\ n \notin published /\ n \notin Asked \cup Redoing \cup Good \cup Bad
          /\ n \notin Held \/ (n \in Plain /\ n \notin Beginning \cup Awaiting \cup Underway)

\* An entry that is settled was requested, and a link is settled once.
Booked(n) ==
    /\ n \in terminated => outcome[n] # "none"
    /\ outcome[n] # "none" => n \in Requests /\ n \in terminated \cup Links
    /\ outcome[n] # "none" /\ n \in Links => n \notin Held
    /\ n \in Told \cup completedPaths => outcome[n] = "success"

Entry(n) == OnePlace(n) /\ OneMark(n) /\ Begun(n) /\ Lasting(n) /\ Booked(n)
Entries  == \A n \in Ndx : Entry(n)

-----------------------------------------------------------------------------
(* The invariant: counters and pages.                                      *)

Ledger ==
    /\ requested = Cardinality(Requests) /\ completed = Cardinality(Settled)
    /\ rPhase \in {"Drain", "Done"} => doneSeen /\ completed >= requested

\* A page that is not advertised, or on its way, is undecided; while the
\* connection is up there are no other undecided entries.
Ahead(k) == k > advPos \/ k \in About(list, Listings)
ListOk ==
    /\ IsSeq(list) /\ Solo(list, Listings) /\ advPos \in Nat
    /\ \A i \in 1..Len(list) :
          \/ list[i].type = "FileListDone" /\ i = Len(list) /\ advPos > Len(Pages)
          \/ list[i].type \in Listings /\ list[i].n \in 1..Len(Pages) /\ list[i].n <= advPos
AllDecided == \A n \in Ndx : decision[n] # "none"
Paged ==
    /\ \A k \in 1..Len(Pages) :
          /\ Ahead(k) => \A n \in Pages[k] : decision[n] = "none"
          /\ conn /\ ~Ahead(k) => \A n \in Pages[k] : decision[n] # "none"
    /\ Informed # {} \/ Finished # {} \/ doneSeen => AllDecided
    /\ rPhase = "Config" => \A n \in Ndx : decision[n] \in {"none", "lost"}

IInv == Shape /\ Queues /\ Entries /\ Ledger /\ ListOk /\ Paged

-----------------------------------------------------------------------------
(* Sequences.                                                              *)

LEMMA ElementsOf == ASSUME NEW S, NEW q \in Seq(S) PROVE IsSeq(q)
  <1>1. Len(q) \in Nat /\ DOMAIN q = 1..Len(q)
    OBVIOUS
  <1>2. \A i \in 1..Len(q) : q[i] \in Range(q)
    BY <1>1 DEF Range
  <1> QED
    BY <1>1, <1>2, SubSeqFull, SubSeqProperties DEF IsSeq

LEMMA TailOf ==
    ASSUME NEW q, IsSeq(q), q # <<>>
    PROVE  /\ IsSeq(Tail(q)) /\ Head(q) = q[1]
           /\ Len(q) \in Nat \ {0} /\ Len(Tail(q)) = Len(q) - 1
           /\ \A i \in 1..(Len(q) - 1) : Tail(q)[i] = q[i + 1]
  <1>1. q \in Seq(Range(q))
    BY DEF IsSeq
  <1>2. Tail(q) \in Seq(Range(q)) /\ Head(q) = q[1] /\ Len(q) \in Nat \ {0} /\ Len(Tail(q)) = Len(q) - 1
    BY <1>1
  <1>3. \A i \in 1..(Len(q) - 1) : Tail(q)[i] = q[i + 1]
    BY <1>1
  <1> QED
    BY <1>2, <1>3, ElementsOf

LEMMA AppendOf ==
    ASSUME NEW q, IsSeq(q), NEW m
    PROVE  /\ IsSeq(Append(q, m)) /\ Len(q) \in Nat
           /\ Len(Append(q, m)) = Len(q) + 1 /\ Append(q, m)[Len(q) + 1] = m
           /\ \A i \in 1..Len(q) : Append(q, m)[i] = q[i]
  <1> DEFINE U == Range(q) \cup {m}
  <1>1. q \in Seq(U) /\ m \in U
    BY DEF IsSeq
  <1>2. /\ Append(q, m) \in Seq(U) /\ Len(q) \in Nat
        /\ Len(Append(q, m)) = Len(q) + 1 /\ Append(q, m)[Len(q) + 1] = m
        /\ \A i \in 1..Len(q) : Append(q, m)[i] = q[i]
    BY <1>1
  <1> QED
    BY <1>2, ElementsOf

LEMMA EmptyOf == IsSeq(<<>>) /\ \A T : About(<<>>, T) = {} /\ Solo(<<>>, T)
  <1>1. <<>> \in Seq({}) /\ Len(<<>>) = 0
    OBVIOUS
  <1>2. \A i \in 1..Len(<<>>) : FALSE
    BY <1>1
  <1>3. ASSUME NEW T PROVE About(<<>>, T) = {} /\ Solo(<<>>, T)
    BY <1>2 DEF About, Solo
  <1> QED
    BY <1>1, <1>3, ElementsOf

-----------------------------------------------------------------------------
(* What a message taken or added does to what a queue is about.            *)

LEMMA TakenFrom ==
    ASSUME NEW q, IsSeq(q), q # <<>>, NEW T
    PROVE  /\ About(Tail(q), T) \subseteq About(q, T)
           /\ About(q, T) = About(Tail(q), T) \cup (IF Head(q).type \in T THEN {Head(q).n} ELSE {})
           /\ Solo(q, T) => Solo(Tail(q), T)
           /\ Solo(q, T) /\ Head(q).type \in T => Head(q).n \notin About(Tail(q), T)
  <1>1. /\ Head(q) = q[1] /\ Len(q) \in Nat \ {0} /\ Len(Tail(q)) = Len(q) - 1
        /\ \A i \in 1..(Len(q) - 1) : Tail(q)[i] = q[i + 1] /\ i + 1 \in 1..Len(q)
    BY TailOf
  <1>2. \A i \in 1..Len(q) : i = 1 \/ (i - 1 \in 1..Len(Tail(q)) /\ q[i] = Tail(q)[i - 1])
    BY <1>1
  <1>3. \A i \in 1..Len(Tail(q)) : i + 1 \in 1..Len(q) /\ i + 1 # 1 /\ Tail(q)[i] = q[i + 1]
    BY <1>1
  <1> DEFINE t == Tail(q)
  <1> HIDE DEF t
  <1>4. \A x : x \in About(t, T) <=> \E i \in 1..Len(t) : t[i].type \in T /\ t[i].n = x
    BY DEF About
  <1>5. \A x : x \in About(q, T) <=> \E i \in 1..Len(q) : q[i].type \in T /\ q[i].n = x
    BY DEF About
  <1>6. About(t, T) \subseteq About(q, T)
    BY <1>3, <1>4, <1>5 DEF t
  <1>7. \A x \in About(q, T) : x \in About(t, T) \/ (q[1].type \in T /\ q[1].n = x)
    BY <1>2, <1>4, <1>5 DEF t
  <1>8. q[1].type \in T => q[1].n \in About(q, T)
    BY <1>1, <1>5
  <1>9. Solo(q, T) => Solo(t, T)
    <2> SUFFICES ASSUME Solo(q, T), NEW i \in 1..Len(t), NEW j \in 1..Len(t),
                        t[i].type \in T, t[j].type \in T, t[i].n = t[j].n
                 PROVE  i = j
      BY DEF Solo
    <2>1. i + 1 = j + 1
      BY <1>3 DEF Solo, t
    <2> QED
      BY <2>1, <1>1 DEF t
  <1>10. Solo(q, T) /\ q[1].type \in T => q[1].n \notin About(t, T)
    <2> SUFFICES ASSUME Solo(q, T), q[1].type \in T, NEW i \in 1..Len(t), t[i].type \in T, t[i].n = q[1].n
                 PROVE  FALSE
      BY <1>4
    <2>1. i + 1 \in 1..Len(q) /\ q[i + 1] = t[i] /\ i + 1 # 1 /\ 1 \in 1..Len(q)
      BY <1>1, <1>3 DEF t
    <2> QED
      BY <2>1 DEF Solo
  <1> QED
    BY <1>1, <1>6, <1>7, <1>8, <1>9, <1>10 DEF t

LEMMA AddedTo ==
    ASSUME NEW q, IsSeq(q), NEW m, NEW T
    PROVE  /\ About(Append(q, m), T) = About(q, T) \cup (IF m.type \in T THEN {m.n} ELSE {})
           /\ Solo(q, T) /\ (m.type \in T => m.n \notin About(q, T)) => Solo(Append(q, m), T)
  <1> DEFINE t == Append(q, m)
  <1>1. /\ Len(q) \in Nat /\ Len(t) = Len(q) + 1 /\ t[Len(q) + 1] = m
        /\ \A i \in 1..Len(q) : t[i] = q[i]
    BY AppendOf
  <1> HIDE DEF t
  <1>2. \A i \in 1..Len(t) : i \in 1..Len(q) \/ i = Len(q) + 1
    BY <1>1
  <1>3. \A i \in 1..Len(q) : i \in 1..Len(t)
    BY <1>1
  <1>4. Len(q) + 1 \in 1..Len(t)
    BY <1>1
  <1>5. \A x : x \in About(t, T) <=> \E i \in 1..Len(t) : t[i].type \in T /\ t[i].n = x
    BY DEF About
  <1>6. \A x : x \in About(q, T) <=> \E i \in 1..Len(q) : q[i].type \in T /\ q[i].n = x
    BY DEF About
  <1>7. \A x \in About(q, T) : x \in About(t, T)
    BY <1>1, <1>3, <1>5, <1>6
  <1>8. m.type \in T => m.n \in About(t, T)
    BY <1>1, <1>4, <1>5
  <1>9. \A x \in About(t, T) : x \in About(q, T) \/ (m.type \in T /\ x = m.n)
    BY <1>1, <1>2, <1>5, <1>6
  <1>10. Solo(q, T) /\ (m.type \in T => m.n \notin About(q, T)) => Solo(t, T)
    <2> SUFFICES ASSUME Solo(q, T), m.type \in T => m.n \notin About(q, T),
                        NEW i \in 1..Len(t), NEW j \in 1..Len(t),
                        t[i].type \in T, t[j].type \in T, t[i].n = t[j].n
                 PROVE  i = j
      BY DEF Solo
    <2>1. CASE i \in 1..Len(q) /\ j \in 1..Len(q)
      BY <1>1, <2>1 DEF Solo
    <2>2. CASE i = Len(q) + 1 /\ j \in 1..Len(q)
      BY <1>1, <1>6, <2>2
    <2>3. CASE i \in 1..Len(q) /\ j = Len(q) + 1
      BY <1>1, <1>6, <2>3
    <2> QED
      BY <1>2, <2>1, <2>2, <2>3
  <1> QED
    BY <1>7, <1>8, <1>9, <1>10 DEF t

-----------------------------------------------------------------------------
(* What one message does to the places, queue by queue.                    *)

LEMMA Unmoved ==
    /\ ctl' = ctl => Failing' = Failing /\ Finished' = Finished
    /\ back' = back => Asked' = Asked /\ Informed' = Informed
    /\ acks' = acks => Redoing' = Redoing /\ Told' = Told
    /\ data' = data => Ending' = Ending /\ Opening' = Opening /\ InData' = InData
    /\ toDisk' = toDisk => Closing' = Closing /\ Beginning' = Beginning
    /\ dcq' = dcq => Queued' = Queued /\ Awaiting' = Awaiting
    /\ dcAcks' = dcAcks => Good' = Good /\ Bad' = Bad /\ Broken' = Broken
    /\ UNCHANGED <<conn, job>> => Working' = Working
    /\ UNCHANGED dc => Underway' = Underway
    /\ UNCHANGED decision => UNCHANGED <<Links, Markers, Plain, Requests>>
    /\ UNCHANGED outcome => UNCHANGED Settled
  <1>1. ctl' = ctl => Failing' = Failing /\ Finished' = Finished
    BY DEF Failing, Finished
  <1>2. back' = back => Asked' = Asked /\ Informed' = Informed
    BY DEF Asked, Informed, Requested
  <1>3. acks' = acks => Redoing' = Redoing /\ Told' = Told
    BY DEF Redoing, Told
  <1>4. data' = data => Ending' = Ending /\ Opening' = Opening /\ InData' = InData
    BY DEF Ending, Opening, InData, Ends
  <1>5. toDisk' = toDisk => Closing' = Closing /\ Beginning' = Beginning
    BY DEF Closing, Beginning, Commits, Begins
  <1>6. dcq' = dcq => Queued' = Queued /\ Awaiting' = Awaiting
    BY DEF Queued, Awaiting, Commits, Begins
  <1>7. dcAcks' = dcAcks => Good' = Good /\ Bad' = Bad /\ Broken' = Broken
    BY DEF Good, Bad, Broken
  <1>8. /\ UNCHANGED <<conn, job>> => Working' = Working
        /\ UNCHANGED dc => Underway' = Underway
    BY DEF Working, Underway, Busy
  <1>9. UNCHANGED decision => UNCHANGED <<Links, Markers, Plain, Requests>>
    BY DEF Links, Markers, Plain, Requests, Wanted
  <1>10. UNCHANGED outcome => UNCHANGED Settled
    BY DEF Settled
  <1> QED
    BY <1>1, <1>2, <1>3, <1>4, <1>5, <1>6, <1>7, <1>8, <1>9, <1>10

LEMMA CtlTaken ==
    ASSUME CtlOk, ctl # <<>>, ctl' = Tail(ctl), UNCHANGED decision
    PROVE  /\ CtlOk' /\ Finished' \subseteq Finished
           /\ Head(ctl).type = "EntryError" => Head(ctl).n \in Failing /\ Failing' = Failing \ {Head(ctl).n}
           /\ Head(ctl).type # "EntryError" => Failing' = Failing
           /\ Head(ctl).type = "TransferDone" => Finished # {}
  <1>1. IsSeq(ctl') /\ Solo(ctl', {"EntryError"})
    BY TailOf, TakenFrom DEF CtlOk
  <1>2. Finished' \subseteq Finished /\ (Head(ctl).type = "TransferDone" => Finished # {})
    <2>1. /\ About(Tail(ctl), {"TransferDone"}) \subseteq About(ctl, {"TransferDone"})
          /\ About(ctl, {"TransferDone"})
                = About(Tail(ctl), {"TransferDone"}) \cup (IF Head(ctl).type \in {"TransferDone"} THEN {Head(ctl).n} ELSE {})
      BY TakenFrom DEF CtlOk
    <2> QED
      BY <2>1 DEF Finished
  <1>3. /\ About(ctl, {"EntryError"})
              = About(Tail(ctl), {"EntryError"}) \cup (IF Head(ctl).type \in {"EntryError"} THEN {Head(ctl).n} ELSE {})
        /\ Head(ctl).type \in {"EntryError"} => Head(ctl).n \notin About(Tail(ctl), {"EntryError"})
    BY TakenFrom DEF CtlOk
  <1>4. /\ Head(ctl).type = "EntryError" => Head(ctl).n \in Failing /\ Failing' = Failing \ {Head(ctl).n}
        /\ Head(ctl).type # "EntryError" => Failing' = Failing
    BY <1>3 DEF Failing
  <1> QED
    BY <1>1, <1>2, <1>4, Unmoved DEF CtlOk

LEMMA CtlAdded ==
    ASSUME CtlOk, NEW m, ctl' = Append(ctl, m), UNCHANGED decision,
           m.type = "EntryError" => m.n \in Requests \ Failing
    PROVE  /\ CtlOk'
           /\ m.type = "EntryError" => Failing' = Failing \cup {m.n}
           /\ m.type # "EntryError" => Failing' = Failing
           /\ m.type # "TransferDone" => Finished' = Finished
  <1>1. IsSeq(ctl')
    BY AppendOf DEF CtlOk
  <1>2. Finished' = Finished \cup (IF m.type \in {"TransferDone"} THEN {m.n} ELSE {})
    BY AddedTo DEF Finished, CtlOk
  <1>3. Failing' = Failing \cup (IF m.type \in {"EntryError"} THEN {m.n} ELSE {})
    BY AddedTo DEF Failing, CtlOk
  <1>4. Solo(ctl', {"EntryError"})
    BY AddedTo DEF Failing, CtlOk
  <1> QED
    BY <1>1, <1>2, <1>3, <1>4, Unmoved DEF CtlOk

LEMMA BackTaken ==
    ASSUME BackOk, back # <<>>, back' = Tail(back), UNCHANGED decision
    PROVE  /\ BackOk' /\ Informed' \subseteq Informed
           /\ Head(back).type = "TransferRequest" => Head(back).n \in Asked /\ Asked' = Asked \ {Head(back).n}
           /\ Head(back).type # "TransferRequest" => Asked' = Asked
           /\ Head(back).type = "RequestsDone" => Informed # {}
  <1>1. IsSeq(back') /\ Solo(back', Requested)
    BY TailOf, TakenFrom DEF BackOk
  <1>2. Informed' \subseteq Informed /\ (Head(back).type = "RequestsDone" => Informed # {})
    BY TakenFrom DEF Informed, BackOk
  <1>3. /\ About(back, Requested)
              = About(Tail(back), Requested) \cup (IF Head(back).type \in Requested THEN {Head(back).n} ELSE {})
        /\ Head(back).type \in Requested => Head(back).n \notin About(Tail(back), Requested)
    BY TakenFrom DEF BackOk
  <1>4. /\ Head(back).type = "TransferRequest" => Head(back).n \in Asked /\ Asked' = Asked \ {Head(back).n}
        /\ Head(back).type # "TransferRequest" => Asked' = Asked
    BY <1>3 DEF Asked, Requested
  <1> QED
    BY <1>1, <1>2, <1>4, Unmoved DEF BackOk

LEMMA AcksTaken ==
    ASSUME AcksOk, acks # <<>>, acks' = Tail(acks), UNCHANGED decision
    PROVE  /\ AcksOk' /\ Told' \subseteq Told
           /\ Head(acks).type = "Redo" => Head(acks).n \in Redoing /\ Redoing' = Redoing \ {Head(acks).n}
           /\ Head(acks).type # "Redo" => Redoing' = Redoing
           /\ Head(acks).type = "Success" => Head(acks).n \in Told
  <1>1. IsSeq(acks') /\ Solo(acks', {"Redo"})
    BY TailOf, TakenFrom DEF AcksOk
  <1>2. Told' \subseteq Told /\ (Head(acks).type = "Success" => Head(acks).n \in Told)
    BY TakenFrom DEF Told, AcksOk
  <1>3. /\ About(acks, {"Redo"})
              = About(Tail(acks), {"Redo"}) \cup (IF Head(acks).type \in {"Redo"} THEN {Head(acks).n} ELSE {})
        /\ Head(acks).type \in {"Redo"} => Head(acks).n \notin About(Tail(acks), {"Redo"})
    BY TakenFrom DEF AcksOk
  <1>4. /\ Head(acks).type = "Redo" => Head(acks).n \in Redoing /\ Redoing' = Redoing \ {Head(acks).n}
        /\ Head(acks).type # "Redo" => Redoing' = Redoing
    BY <1>3 DEF Redoing
  <1> QED
    BY <1>1, <1>2, <1>4, Unmoved DEF AcksOk

\* A message the receiver sends, which is lost when the connection is gone.
LEMMA AcksSent ==
    ASSUME AcksOk, NEW m, acks' = Sent(acks, m), UNCHANGED decision,
           m.type = "Redo" => m.n \in Plain \ Redoing, m.type = "Success" => m.n \in Ndx
    PROVE  /\ AcksOk'
           /\ m.type = "Redo" => Redoing' \subseteq Redoing \cup {m.n} /\ Redoing \subseteq Redoing'
           /\ m.type # "Redo" => Redoing' = Redoing
           /\ m.type = "Success" => Told' \subseteq Told \cup {m.n}
           /\ m.type # "Success" => Told' = Told
  <1>1. CASE acks' = acks
    BY <1>1, Unmoved DEF AcksOk
  <1>2. CASE acks' = Append(acks, m)
    <2>1. IsSeq(acks')
      BY <1>2, AppendOf DEF AcksOk
    <2>2. Told' = Told \cup (IF m.type \in {"Success"} THEN {m.n} ELSE {})
      BY <1>2, AddedTo DEF Told, AcksOk
    <2>3. Redoing' = Redoing \cup (IF m.type \in {"Redo"} THEN {m.n} ELSE {})
      BY <1>2, AddedTo DEF Redoing, AcksOk
    <2>4. Solo(acks', {"Redo"})
      BY <1>2, AddedTo DEF Redoing, AcksOk
    <2> QED
      BY <2>1, <2>2, <2>3, <2>4, Unmoved DEF AcksOk
  <1> QED
    BY <1>1, <1>2 DEF Sent

LEMMA DataTaken ==
    ASSUME DataOk, data # <<>>, data' = Tail(data), UNCHANGED decision
    PROVE  /\ DataOk' /\ OfData(Head(data)) /\ Head(data).n \in InData
           /\ InData' \subseteq InData /\ InData \subseteq InData' \cup {Head(data).n}
           /\ Opening' \subseteq Opening
           /\ Head(data).n \notin Opening'
           /\ Head(data).type # "FileBegin" => Head(data).n \notin Opening
           /\ Head(data).type \notin Ends => Ending' = Ending
           /\ Head(data).type \in Ends => /\ Head(data).n \in Ending /\ Ending' = Ending \ {Head(data).n}
                                          /\ Head(data).n \notin InData'
  <1> DEFINE m == Head(data)
  <1>1. /\ IsSeq(data') /\ m = data[1] /\ Len(data) \in Nat \ {0} /\ Len(data') = Len(data) - 1
        /\ \A i \in 1..(Len(data) - 1) : data'[i] = data[i + 1]
    BY TailOf DEF DataOk
  <1> HIDE DEF m
  <1>2. /\ \A i \in 1..Len(data) : i = 1 \/ (i - 1 \in 1..Len(data') /\ data[i] = data'[i - 1])
        /\ \A i \in 1..Len(data') : /\ i + 1 \in 1..Len(data) /\ data'[i] = data[i + 1]
                                    /\ i + 1 > 1 /\ 1 \in 1..Len(data)
    BY <1>1
  <1>3. \A i, j \in 1..Len(data') : i < j => i + 1 < j + 1
    BY <1>1
  <1>4. \A i \in 1..Len(data') : OfData(data'[i])
    BY <1>2 DEF DataOk
  <1>5. \A i, j \in 1..Len(data') : i < j /\ data'[i].n = data'[j].n =>
            data'[i].type \notin Ends /\ data'[j].type # "FileBegin"
    BY <1>2, <1>3 DEF DataOk
  <1>6. DataOk'
    BY <1>1, <1>4, <1>5, Unmoved DEF DataOk, OfData, Ends
  <1>7. OfData(m) /\ m.n \in InData
    BY <1>1, <1>2 DEF DataOk, InData
  <1>8. InData' \subseteq InData /\ InData \subseteq InData' \cup {m.n}
    <2>1. \A i \in 1..Len(data') : data'[i].n \in InData
      BY <1>2 DEF InData
    <2>2. \A i \in 1..Len(data) : data[i].n \in InData' \cup {m.n}
      BY <1>1, <1>2 DEF InData
    <2>3. InData = {data[i].n : i \in 1..Len(data)} /\ InData' = {data'[i].n : i \in 1..Len(data')}
      BY DEF InData
    <2> QED
      BY <2>1, <2>2, <2>3
  <1>9. \A i \in 1..Len(data') : data'[i].n = m.n => m.type \notin Ends /\ data'[i].type # "FileBegin"
    BY <1>1, <1>2 DEF DataOk
  <1>10. m.n \notin Opening'
    BY <1>9 DEF Opening, About
  <1>11. m.type \in Ends => m.n \notin InData'
    BY <1>9 DEF InData
  <1>12. Opening = Opening' \cup (IF m.type \in {"FileBegin"} THEN {m.n} ELSE {})
    BY TakenFrom DEF Opening, DataOk, m
  <1>13. Ending = Ending' \cup (IF m.type \in Ends THEN {m.n} ELSE {})
    BY TakenFrom DEF Ending, DataOk, m, Ends
  <1>14. Ending' \subseteq InData'
    BY DEF Ending, About, InData, Ends
  <1> QED
    BY <1>6, <1>7, <1>8, <1>10, <1>11, <1>12, <1>13, <1>14 DEF m

LEMMA DataAdded ==
    ASSUME DataOk, NEW m, data' = Append(data, m), UNCHANGED decision,
           OfData(m), m.n \notin Ending, m.type = "FileBegin" => m.n \notin InData
    PROVE  /\ DataOk' /\ InData' = InData \cup {m.n}
           /\ m.type \in Ends => Ending' = Ending \cup {m.n}
           /\ m.type \notin Ends => Ending' = Ending
           /\ m.type = "FileBegin" => Opening' = Opening \cup {m.n}
           /\ m.type # "FileBegin" => Opening' = Opening
  <1>1. /\ IsSeq(data') /\ Len(data) \in Nat /\ Len(data') = Len(data) + 1 /\ data'[Len(data) + 1] = m
        /\ \A i \in 1..Len(data) : data'[i] = data[i]
    BY AppendOf DEF DataOk
  <1>2. /\ \A i \in 1..Len(data') : i \in 1..Len(data) \/ i = Len(data) + 1
        /\ \A i \in 1..Len(data) : i \in 1..Len(data') /\ i < Len(data) + 1
        /\ Len(data) + 1 \in 1..Len(data')
        /\ \A i, j \in 1..Len(data') : i < j => i \in 1..Len(data)
    BY <1>1
  <1>3. \A i \in 1..Len(data') : OfData(data'[i])
    BY <1>1, <1>2 DEF DataOk
  <1>4. ASSUME NEW i \in 1..Len(data'), NEW j \in 1..Len(data'), i < j, data'[i].n = data'[j].n
        PROVE  data'[i].type \notin Ends /\ data'[j].type # "FileBegin"
    <2>1. i \in 1..Len(data) /\ data'[i] = data[i]
      BY <1>1, <1>2, <1>4
    <2>2. CASE j \in 1..Len(data)
      BY <1>1, <1>4, <2>1, <2>2 DEF DataOk
    <2>3. CASE j = Len(data) + 1
      <3>1. data[i].n = m.n
        BY <1>1, <1>4, <2>1, <2>3
      <3>2. data[i].type \in Ends => m.n \in Ending
        BY <2>1, <3>1 DEF Ending, About
      <3>3. m.n \in InData
        BY <2>1, <3>1 DEF InData
      <3> QED
        BY <1>1, <2>1, <2>3, <3>2, <3>3
    <2> QED
      BY <1>2, <2>2, <2>3
  <1>5. DataOk'
    BY <1>1, <1>3, <1>4, Unmoved DEF DataOk, OfData, Ends
  <1>6. InData' = InData \cup {m.n}
    <2>1. InData' \subseteq InData \cup {m.n}
      BY <1>1, <1>2 DEF InData
    <2>2. \A i \in 1..Len(data) : data[i].n \in InData'
      BY <1>1, <1>2 DEF InData
    <2>3. m.n \in InData'
      BY <1>1, <1>2 DEF InData
    <2> QED
      BY <2>1, <2>2, <2>3 DEF InData
  <1>7. Opening' = Opening \cup (IF m.type \in {"FileBegin"} THEN {m.n} ELSE {})
    BY AddedTo DEF Opening, DataOk
  <1>8. Ending' = Ending \cup (IF m.type \in Ends THEN {m.n} ELSE {})
    BY AddedTo DEF Ending, DataOk, Ends
  <1> QED
    BY <1>5, <1>6, <1>7, <1>8

\* Commands the loop issues, hands over, and the disk-commit task takes.
LEMMA CommandTaken ==
    ASSUME NEW q, Commands(q), q # <<>>
    PROVE  /\ Commands(Tail(q)) /\ OfDisk(Head(q))
           /\ \A T \in {Commits, Begins} :
                 /\ Head(q).type \in T => Head(q).n \in About(q, T) /\ About(Tail(q), T) = About(q, T) \ {Head(q).n}
                 /\ Head(q).type \notin T => About(Tail(q), T) = About(q, T)
  <1>1. /\ IsSeq(Tail(q)) /\ Head(q) = q[1] /\ Len(q) \in Nat \ {0} /\ Len(Tail(q)) = Len(q) - 1
        /\ \A i \in 1..(Len(q) - 1) : Tail(q)[i] = q[i + 1]
    BY TailOf DEF Commands
  <1>2. 1 \in 1..Len(q) /\ \A i \in 1..Len(Tail(q)) : i + 1 \in 1..Len(q) /\ Tail(q)[i] = q[i + 1]
    BY <1>1
  <1>3. OfDisk(Head(q)) /\ \A i \in 1..Len(Tail(q)) : OfDisk(Tail(q)[i])
    BY <1>1, <1>2 DEF Commands
  <1>4. Solo(Tail(q), Commits) /\ Solo(Tail(q), Begins)
    BY TakenFrom DEF Commands
  <1>5. ASSUME NEW T \in {Commits, Begins}
        PROVE  /\ Head(q).type \in T => Head(q).n \in About(q, T) /\ About(Tail(q), T) = About(q, T) \ {Head(q).n}
               /\ Head(q).type \notin T => About(Tail(q), T) = About(q, T)
    <2>1. Solo(q, T) /\ IsSeq(q)
      BY DEF Commands
    <2>2. /\ About(q, T) = About(Tail(q), T) \cup (IF Head(q).type \in T THEN {Head(q).n} ELSE {})
          /\ Head(q).type \in T => Head(q).n \notin About(Tail(q), T)
      BY <2>1, TakenFrom
    <2> QED
      BY <2>2
  <1> QED
    BY <1>1, <1>3, <1>4, <1>5 DEF Commands

LEMMA CommandAdded ==
    ASSUME NEW q, Commands(q), NEW m, OfDisk(m),
           \A T \in {Commits, Begins} : m.type \in T => m.n \notin About(q, T)
    PROVE  /\ Commands(Append(q, m))
           /\ \A T \in {Commits, Begins} :
                 /\ m.type \in T => About(Append(q, m), T) = About(q, T) \cup {m.n}
                 /\ m.type \notin T => About(Append(q, m), T) = About(q, T)
  <1>1. /\ IsSeq(Append(q, m)) /\ Len(q) \in Nat
        /\ Len(Append(q, m)) = Len(q) + 1 /\ Append(q, m)[Len(q) + 1] = m
        /\ \A i \in 1..Len(q) : Append(q, m)[i] = q[i]
    BY AppendOf DEF Commands
  <1>2. \A i \in 1..Len(Append(q, m)) : i \in 1..Len(q) \/ i = Len(q) + 1
    BY <1>1
  <1>3. \A i \in 1..Len(Append(q, m)) : OfDisk(Append(q, m)[i])
    BY <1>1, <1>2 DEF Commands
  <1>4. ASSUME NEW T \in {Commits, Begins}
        PROVE  /\ m.type \in T => About(Append(q, m), T) = About(q, T) \cup {m.n}
               /\ m.type \notin T => About(Append(q, m), T) = About(q, T)
               /\ Solo(Append(q, m), T)
    <2>1. Solo(q, T) /\ IsSeq(q) /\ (m.type \in T => m.n \notin About(q, T))
      BY DEF Commands
    <2>2. /\ About(Append(q, m), T) = About(q, T) \cup (IF m.type \in T THEN {m.n} ELSE {})
          /\ Solo(Append(q, m), T)
      BY <2>1, AddedTo
    <2> QED
      BY <2>2
  <1> QED
    BY <1>1, <1>3, <1>4 DEF Commands

LEMMA CommandNone == Commands(<<>>) /\ \A T : About(<<>>, T) = {}
  <1>1. \A i \in 1..Len(<<>>) : FALSE
    OBVIOUS
  <1> QED
    BY <1>1, EmptyOf DEF Commands

LEMMA CommandOne ==
    ASSUME NEW m, OfDisk(m)
    PROVE  /\ Commands(<<m>>)
           /\ \A T \in {Commits, Begins} : About(<<m>>, T) = IF m.type \in T THEN {m.n} ELSE {}
  <1>1. <<m>> = Append(<<>>, m)
    OBVIOUS
  <1>2. \A T \in {Commits, Begins} : m.type \in T => m.n \notin About(<<>>, T)
    BY CommandNone
  <1>3. Commands(Append(<<>>, m))
    BY <1>2, CommandNone, CommandAdded
  <1>4. \A T \in {Commits, Begins} :
            /\ m.type \in T => About(Append(<<>>, m), T) = About(<<>>, T) \cup {m.n}
            /\ m.type \notin T => About(Append(<<>>, m), T) = About(<<>>, T)
    BY <1>2, CommandNone, CommandAdded
  <1> QED
    BY <1>1, <1>3, <1>4, CommandNone

LEMMA CommandTwo ==
    ASSUME NEW a, NEW b, OfDisk(a), OfDisk(b), a.type \notin Commits, b.type \notin Begins
    PROVE  /\ Commands(Append(<<a>>, b))
           /\ About(Append(<<a>>, b), Commits) = IF b.type \in Commits THEN {b.n} ELSE {}
           /\ About(Append(<<a>>, b), Begins) = IF a.type \in Begins THEN {a.n} ELSE {}
  <1>1. /\ Commands(<<a>>)
        /\ \A T \in {Commits, Begins} : About(<<a>>, T) = IF a.type \in T THEN {a.n} ELSE {}
    BY CommandOne
  <1>2. \A T \in {Commits, Begins} : b.type \in T => b.n \notin About(<<a>>, T)
    BY <1>1
  <1>3. Commands(Append(<<a>>, b))
    BY <1>1, <1>2, CommandAdded
  <1>4. \A T \in {Commits, Begins} :
            /\ b.type \in T => About(Append(<<a>>, b), T) = About(<<a>>, T) \cup {b.n}
            /\ b.type \notin T => About(Append(<<a>>, b), T) = About(<<a>>, T)
    BY <1>1, <1>2, CommandAdded
  <1> QED
    BY <1>1, <1>3, <1>4

LEMMA CommandsStay ==
    ASSUME UNCHANGED <<Links, Markers, Plain>>
    PROVE  /\ \A m : OfDisk(m)' <=> OfDisk(m)
           /\ toDisk' = toDisk /\ Commands(toDisk) => Commands(toDisk)'
           /\ dcq' = dcq /\ Commands(dcq) => Commands(dcq)'
  BY DEF Commands, OfDisk

LEMMA Issued ==
    ASSUME NEW q, Commands(q), toDisk' = q, UNCHANGED <<Links, Markers, Plain>>
    PROVE  Commands(toDisk)' /\ Closing' = About(q, Commits) /\ Beginning' = About(q, Begins)
  BY DEF Commands, OfDisk, Closing, Beginning, Commits, Begins

LEMMA Enqueued ==
    ASSUME Commands(toDisk), Commands(dcq), toDisk # <<>>, UNCHANGED decision,
           toDisk' = Tail(toDisk), dcq' = Append(dcq, Head(toDisk)),
           Closing \cap Queued = {}, Beginning \cap Awaiting = {}
    PROVE  LET m == Head(toDisk) IN
           /\ Commands(toDisk)' /\ Commands(dcq)'
           /\ m.type \in Commits => /\ m.n \in Closing /\ Closing' = Closing \ {m.n}
                                    /\ Queued' = Queued \cup {m.n}
           /\ m.type \notin Commits => Closing' = Closing /\ Queued' = Queued
           /\ m.type \in Begins => /\ m.n \in Beginning /\ Beginning' = Beginning \ {m.n}
                                   /\ Awaiting' = Awaiting \cup {m.n}
           /\ m.type \notin Begins => Beginning' = Beginning /\ Awaiting' = Awaiting
  <1> DEFINE m == Head(toDisk)
  <1>1. /\ Commands(Tail(toDisk)) /\ OfDisk(m)
        /\ \A T \in {Commits, Begins} :
                 /\ m.type \in T => m.n \in About(toDisk, T) /\ About(Tail(toDisk), T) = About(toDisk, T) \ {m.n}
                 /\ m.type \notin T => About(Tail(toDisk), T) = About(toDisk, T)
    BY CommandTaken
  <1> HIDE DEF m
  <1>2. \A T \in {Commits, Begins} : m.type \in T => m.n \notin About(dcq, T)
    BY <1>1 DEF Closing, Queued, Beginning, Awaiting
  <1>3. /\ Commands(Append(dcq, m))
        /\ \A T \in {Commits, Begins} :
              /\ m.type \in T => About(Append(dcq, m), T) = About(dcq, T) \cup {m.n}
              /\ m.type \notin T => About(Append(dcq, m), T) = About(dcq, T)
    BY <1>1, <1>2, CommandAdded
  <1>4. UNCHANGED <<Links, Markers, Plain>>
    BY Unmoved
  <1>5. Commands(toDisk)' /\ Commands(dcq)'
    BY <1>1, <1>3, <1>4 DEF Commands, OfDisk, Commits, Begins, m
  <1>6. /\ Closing' = About(Tail(toDisk), Commits) /\ Queued' = About(Append(dcq, m), Commits)
        /\ Beginning' = About(Tail(toDisk), Begins) /\ Awaiting' = About(Append(dcq, m), Begins)
    BY DEF Closing, Queued, Beginning, Awaiting, Commits, Begins, m
  <1> QED
    BY <1>1, <1>3, <1>5, <1>6 DEF m, Closing, Queued, Beginning, Awaiting

LEMMA DcqTaken ==
    ASSUME Commands(dcq), dcq # <<>>, UNCHANGED decision, dcq' = Tail(dcq)
    PROVE  LET m == Head(dcq) IN
           /\ Commands(dcq)' /\ OfDisk(m)
           /\ m.type \in Commits => m.n \in Queued /\ Queued' = Queued \ {m.n}
           /\ m.type \notin Commits => Queued' = Queued
           /\ m.type \in Begins => m.n \in Awaiting /\ Awaiting' = Awaiting \ {m.n}
           /\ m.type \notin Begins => Awaiting' = Awaiting
  <1> DEFINE m == Head(dcq)
  <1>1. /\ Commands(Tail(dcq)) /\ OfDisk(m)
        /\ \A T \in {Commits, Begins} :
                 /\ m.type \in T => m.n \in About(dcq, T) /\ About(Tail(dcq), T) = About(dcq, T) \ {m.n}
                 /\ m.type \notin T => About(Tail(dcq), T) = About(dcq, T)
    BY CommandTaken
  <1> HIDE DEF m
  <1>2. UNCHANGED <<Links, Markers, Plain>>
    BY Unmoved
  <1>3. Commands(dcq)'
    BY <1>1, <1>2 DEF Commands, OfDisk, Commits, Begins
  <1>4. Queued' = About(Tail(dcq), Commits) /\ Awaiting' = About(Tail(dcq), Begins)
    BY DEF Queued, Awaiting, Commits, Begins
  <1> QED
    BY <1>1, <1>3, <1>4 DEF m, Queued, Awaiting

\* What the disk-commit task reports, and the loop reads.
LEMMA DcAcksAdded ==
    ASSUME DcAcksOk, NEW m, dcAcks' = Append(dcAcks, m), UNCHANGED decision,
           m.n \in Plain \cup Markers, m.type \in {"success", "mismatch", "hard"},
           m.type = "mismatch" => m.n \in Plain,
           m.type \in {"success", "mismatch"} => m.n \notin Good \cup Bad
    PROVE  /\ DcAcksOk'
           /\ Good' = Good \cup (IF m.type = "success" THEN {m.n} ELSE {})
           /\ Bad' = Bad \cup (IF m.type = "mismatch" THEN {m.n} ELSE {})
           /\ Broken' = Broken \cup (IF m.type = "hard" THEN {m.n} ELSE {})
  <1>1. /\ IsSeq(dcAcks') /\ Len(dcAcks) \in Nat /\ Len(dcAcks') = Len(dcAcks) + 1 /\ dcAcks'[Len(dcAcks) + 1] = m
        /\ \A i \in 1..Len(dcAcks) : dcAcks'[i] = dcAcks[i]
    BY AppendOf DEF DcAcksOk
  <1>2. \A i \in 1..Len(dcAcks') : i \in 1..Len(dcAcks) \/ i = Len(dcAcks) + 1
    BY <1>1
  <1>3. \A i \in 1..Len(dcAcks') : /\ dcAcks'[i].n \in (Plain \cup Markers)'
                                   /\ dcAcks'[i].type \in {"success", "mismatch", "hard"}
    BY <1>1, <1>2, Unmoved DEF DcAcksOk
  <1>4. Good' = Good \cup (IF m.type \in {"success"} THEN {m.n} ELSE {})
    BY AddedTo DEF DcAcksOk, Good
  <1>5. Bad' = Bad \cup (IF m.type \in {"mismatch"} THEN {m.n} ELSE {})
    BY AddedTo DEF DcAcksOk, Bad
  <1>6. Broken' = Broken \cup (IF m.type \in {"hard"} THEN {m.n} ELSE {})
    BY AddedTo DEF DcAcksOk, Broken
  <1>7. m.type \in {"success", "mismatch"} => m.n \notin About(dcAcks, {"success", "mismatch"})
    BY DEF Good, Bad, About
  <1>8. Solo(dcAcks', {"success", "mismatch"})
    BY <1>7, AddedTo DEF DcAcksOk
  <1> QED
    BY <1>1, <1>3, <1>4, <1>5, <1>6, <1>8, Unmoved DEF DcAcksOk

LEMMA DcAcksTaken ==
    ASSUME DcAcksOk, dcAcks # <<>>, dcAcks' = Tail(dcAcks), UNCHANGED decision
    PROVE  LET m == Head(dcAcks) IN
           /\ DcAcksOk' /\ m.n \in Plain \cup Markers /\ m.type \in {"success", "mismatch", "hard"}
           /\ m.type = "success" => m.n \in Good /\ Good' = Good \ {m.n} /\ Bad' = Bad /\ Broken' = Broken
           /\ m.type = "mismatch" => m.n \in Bad /\ Bad' = Bad \ {m.n} /\ Good' = Good /\ Broken' = Broken
           /\ m.type = "hard" => /\ m.n \in Broken /\ Good' = Good /\ Bad' = Bad
                                 /\ Broken' \subseteq Broken /\ Broken \subseteq Broken' \cup {m.n}
  <1> DEFINE m == Head(dcAcks)
  <1>1. /\ IsSeq(dcAcks') /\ m = dcAcks[1] /\ Len(dcAcks) \in Nat \ {0} /\ Len(dcAcks') = Len(dcAcks) - 1
        /\ \A i \in 1..(Len(dcAcks) - 1) : dcAcks'[i] = dcAcks[i + 1]
    BY TailOf DEF DcAcksOk
  <1> HIDE DEF m
  <1>2. 1 \in 1..Len(dcAcks) /\ \A i \in 1..Len(dcAcks') : i + 1 \in 1..Len(dcAcks) /\ dcAcks'[i] = dcAcks[i + 1]
    BY <1>1
  <1>3. m.n \in Plain \cup Markers /\ m.type \in {"success", "mismatch", "hard"}
    BY <1>1, <1>2 DEF DcAcksOk
  <1>4. \A i \in 1..Len(dcAcks') : /\ dcAcks'[i].n \in (Plain \cup Markers)'
                                   /\ dcAcks'[i].type \in {"success", "mismatch", "hard"}
    BY <1>1, <1>2, Unmoved DEF DcAcksOk
  <1>5. Solo(dcAcks, {"success"}) /\ Solo(dcAcks, {"mismatch"})
    BY DEF DcAcksOk, Solo
  <1>6. Solo(dcAcks', {"success", "mismatch"})
    BY TakenFrom DEF DcAcksOk
  <1>7. /\ Good = Good' \cup (IF m.type \in {"success"} THEN {m.n} ELSE {})
        /\ m.type \in {"success"} => m.n \notin Good'
    BY <1>5, TakenFrom DEF DcAcksOk, Good, m
  <1>8. /\ Bad = Bad' \cup (IF m.type \in {"mismatch"} THEN {m.n} ELSE {})
        /\ m.type \in {"mismatch"} => m.n \notin Bad'
    BY <1>5, TakenFrom DEF DcAcksOk, Bad, m
  <1>9. Broken = Broken' \cup (IF m.type \in {"hard"} THEN {m.n} ELSE {})
    BY TakenFrom DEF DcAcksOk, Broken, m
  <1>10. DcAcksOk'
    BY <1>1, <1>4, <1>6, <1>8, Unmoved DEF DcAcksOk
  <1> QED
    BY <1>3, <1>7, <1>8, <1>9, <1>10 DEF m

-----------------------------------------------------------------------------
(* What a step leaves alone.                                               *)

\* An entry that at most leaves a place, with its data still accounted for.
LEMMA Still ==
    ASSUME NEW n \in Ndx, Entry(n),
           n \in Asked' => n \in Asked, n \in Working' => n \in Working, n \in Ending' => n \in Ending,
           n \in Closing' => n \in Closing, n \in Queued' => n \in Queued,
           n \in Good' => n \in Good, n \in Bad' => n \in Bad,
           n \in Redoing' => n \in Redoing, n \in Failing' => n \in Failing,
           n \in Beginning' => n \in Beginning, n \in Awaiting' => n \in Awaiting,
           n \in Underway' => n \in Underway, n \in Broken' => n \in Broken,
           n \in InData' => /\ n \in InData
                            /\ n \in Working \cup Ending \cup Failing => n \in Working' \cup Ending' \cup Failing',
           n \in Opening' => n \in Opening,
           n \in terminated' <=> n \in terminated, n \in published' <=> n \in published,
           n \in Told' \cup completedPaths' => n \in Told \cup completedPaths,
           outcome'[n] = outcome[n],
           n \in Links' <=> n \in Links, n \in Plain' <=> n \in Plain, n \in Requests => n \in Requests',
           active.n = n => active'.n = n \/ n \notin InData' \cup Working'
    PROVE  Entry(n)'
  <1>1. OnePlace(n)' /\ OneMark(n)'
    BY DEF Entry, OnePlace, OneMark
  <1>2. Begun(n)'
    <2>1. Shut(n) => Shut(n)'
      BY DEF Shut
    <2>2. n \in Marked' => n \in Marked
      BY DEF Marked
    <2> QED
      BY <2>1, <2>2 DEF Entry, Begun
  <1>3. n \in Held' => n \in Held
    BY DEF Held
  <1>4. Lasting(n)'
    <2>1. n \in Held' \ Good' => n \in Held \ Good
      BY DEF Held, Entry, OnePlace
    <2> QED
      BY <1>3, <2>1 DEF Entry, Lasting
  <1>5. Booked(n)'
    BY <1>3 DEF Entry, Booked
  <1> QED
    BY <1>1, <1>2, <1>4, <1>5 DEF Entry

LEMMA LedgerStays ==
    ASSUME Ledger, UNCHANGED <<requested, completed, doneSeen, rPhase, decision, outcome>>
    PROVE  Ledger'
  BY Unmoved DEF Ledger

LEMMA PagesStay ==
    ASSUME ListOk, Paged, UNCHANGED <<list, advPos, decision, doneSeen, conn, rPhase>>,
           Informed' \cup Finished' # {} => Informed \cup Finished # {}
    PROVE  ListOk' /\ Paged'
  <1>1. ListOk'
    BY DEF ListOk, Listings, Solo
  <1>2. Paged'
    BY DEF Paged, AllDecided, Ahead, About, Listings
  <1> QED
    BY <1>1, <1>2

LEMMA QueuesStay ==
    ASSUME Queues, UNCHANGED decision \/ UNCHANGED <<Links, Markers, Plain, Requests>>
    PROVE  /\ ctl' = ctl => CtlOk'
           /\ back' = back => BackOk'
           /\ acks' = acks => AcksOk'
           /\ data' = data => DataOk'
           /\ toDisk' = toDisk => Commands(toDisk)'
           /\ dcq' = dcq => Commands(dcq)'
           /\ dcAcks' = dcAcks => DcAcksOk'
  <1>1. UNCHANGED <<Links, Markers, Plain, Requests>>
    BY Unmoved
  <1>2. (ctl' = ctl => CtlOk') /\ (back' = back => BackOk') /\ (acks' = acks => AcksOk')
    BY <1>1, Unmoved DEF Queues, CtlOk, BackOk, AcksOk, Requested
  <1>3. data' = data => DataOk'
    BY <1>1 DEF Queues, DataOk, OfData, Ends
  <1>4. (toDisk' = toDisk => Commands(toDisk)') /\ (dcq' = dcq => Commands(dcq)')
    BY <1>1, CommandsStay DEF Queues
  <1>5. dcAcks' = dcAcks => DcAcksOk'
    BY <1>1, Unmoved DEF Queues, DcAcksOk
  <1> QED
    BY <1>2, <1>3, <1>4, <1>5

\* A connection that is closed takes with it what is on its way.
Silence == conn' = FALSE /\ ctl' = <<>> /\ list' = <<>> /\ data' = <<>> /\ back' = <<>> /\ acks' = <<>>

LEMMA Silenced ==
    ASSUME Silence
    PROVE  /\ CtlOk' /\ BackOk' /\ AcksOk' /\ DataOk'
           /\ Failing' = {} /\ Finished' = {} /\ Asked' = {} /\ Informed' = {} /\ Redoing' = {} /\ Told' = {}
           /\ Ending' = {} /\ Opening' = {} /\ InData' = {} /\ Working' = {}
  <1>1. IsSeq(<<>>) /\ \A T : About(<<>>, T) = {} /\ Solo(<<>>, T)
    BY EmptyOf
  <1>2. \A i \in 1..Len(<<>>) : FALSE
    OBVIOUS
  <1>3. Failing' = {} /\ Finished' = {} /\ Asked' = {} /\ Informed' = {} /\ Redoing' = {} /\ Told' = {}
        /\ Ending' = {} /\ Opening' = {} /\ Working' = {}
    BY <1>1 DEF Silence, Failing, Finished, Asked, Informed, Redoing, Told, Ending, Opening, Working
  <1>4. InData' = {}
    BY <1>2 DEF Silence, InData
  <1>5. CtlOk' /\ BackOk' /\ AcksOk'
    BY <1>1, <1>3 DEF Silence, CtlOk, BackOk, AcksOk
  <1>6. DataOk'
    BY <1>1, <1>2 DEF Silence, DataOk
  <1> QED
    BY <1>3, <1>4, <1>5, <1>6

LEMMA PagesSilenced ==
    ASSUME ListOk, Paged, Silence, UNCHANGED <<advPos, decision, doneSeen>>, rPhase' = "Config" => rPhase = "Config"
    PROVE  ListOk' /\ Paged'
  <1>1. Finished' = {} /\ Informed' = {}
    BY Silenced
  <1>2. ListOk'
    <2>1. \A i \in 1..Len(<<>>) : FALSE
      OBVIOUS
    <2> QED
      BY <2>1, EmptyOf DEF ListOk, Silence
  <1>3. \A k : Ahead(k)' => Ahead(k)
    BY EmptyOf DEF Ahead, Silence
  <1>4. Paged'
    BY <1>1, <1>3 DEF Paged, AllDecided, Silence
  <1> QED
    BY <1>2, <1>4

LEMMA LoseKeeps ==
    ASSUME IInv, Silence,
           UNCHANGED <<advPos, job, errored, completedPaths, receiver, disk>>
    PROVE  IInv'
  <1>1. UNCHANGED <<decision, rPhase, requested, completed, doneSeen, outcome, terminated, toDisk, dcq, dcAcks, dc,
                    published, active>>
    BY DEF receiver, rLedger, disk
  <1>2. Shape'
    BY <1>1, Unmoved DEF IInv, Shape, Silence, Busy
  <1>3. Queues'
    BY <1>1, Silenced, QueuesStay DEF IInv, Queues
  <1>4. Entries'
    <2> SUFFICES ASSUME NEW n \in Ndx PROVE Entry(n)'
      BY DEF Entries
    <2>1. Entry(n)
      BY DEF IInv, Entries
    <2> QED
      BY <1>1, <2>1, Silenced, Unmoved, Still
  <1>5. Ledger' /\ ListOk' /\ Paged'
    BY <1>1, LedgerStays, PagesSilenced DEF IInv
  <1> QED
    BY <1>2, <1>3, <1>4, <1>5 DEF IInv

-----------------------------------------------------------------------------
(* The sender.                                                             *)

LEMMA SenderStep ==
    ASSUME IInv, UNCHANGED <<conn, list, advPos, receiver, disk>>,
           CtlOk', BackOk', AcksOk', DataOk', Entries',
           job' = [n |-> job'.n, mode |-> job'.mode, left |-> job'.left, total |-> job'.total],
           job' # NoJob => job'.n \in Plain,
           completedPaths' \subseteq Ndx,
           Informed' \cup Finished' # {} => Informed \cup Finished # {}
    PROVE  IInv'
  <1>1. UNCHANGED <<decision, rPhase, requested, completed, doneSeen, outcome, terminated, toDisk, dcq, dcAcks, dc,
                    published, active>>
    BY DEF receiver, rLedger, disk
  <1>2. Shape'
    BY <1>1, Unmoved DEF IInv, Shape, Busy
  <1>3. Queues'
    BY <1>1, QueuesStay DEF IInv, Queues
  <1>4. Ledger' /\ ListOk' /\ Paged'
    BY <1>1, LedgerStays, PagesStay DEF IInv
  <1> QED
    BY <1>2, <1>3, <1>4 DEF IInv

\* What the sender can have left alone, for a step of its own.
LEMMA SenderAlone ==
    ASSUME UNCHANGED <<conn, receiver, disk>>
    PROVE  /\ UNCHANGED <<conn, decision, rPhase, requested, completed, doneSeen, outcome, terminated, toDisk, dcq,
                          dcAcks, dc, published, active, Links, Markers, Plain, Requests>>
           /\ UNCHANGED <<Closing, Queued, Good, Bad, Beginning, Awaiting, Underway, Broken>>
           /\ job' = job => Working' = Working
  <1>1. UNCHANGED <<conn, decision, rPhase, requested, completed, doneSeen, outcome, terminated, toDisk, dcq,
                    dcAcks, dc, published, active>>
    BY DEF receiver, rLedger, disk
  <1> QED
    BY <1>1, Unmoved

\* An entry that is asked for, again or for the first time, is nowhere else.
LEMMA AskedFree ==
    ASSUME Shape, NEW n \in Ndx, Entry(n), n \in Asked \cup Redoing
    PROVE  /\ n \notin InData /\ n \notin Marked /\ n \notin published /\ outcome[n] = "none" /\ n \notin terminated
           /\ n \notin Working \cup Ending \cup Closing \cup Queued \cup Good \cup Bad \cup Failing
           /\ n \notin Told \cup completedPaths
  <1>1. n \notin Working \cup Ending \cup Closing \cup Queued \cup Good \cup Bad \cup Failing
    BY DEF Entry, OnePlace
  <1>2. n \in Held /\ n \notin Good
    BY <1>1 DEF Held
  <1>3. n \notin published /\ n \notin Marked
    BY <1>2 DEF Entry, Lasting, Begun
  <1>4. outcome[n] = "none"
    BY <1>2, <1>3 DEF Entry, Lasting, Booked, Shape
  <1> QED
    BY <1>1, <1>3, <1>4 DEF Entry, Booked, Begun

\* send_full_transfer and send_delta_transfer.
LEMMA Started ==
    ASSUME Shape, CtlOk, DataOk, NEW n \in Requests, NEW mode, StartTransfer(n, mode),
           n \notin Failing, n \notin Ending, n \notin InData, conn, job = NoJob, UNCHANGED <<conn, decision>>
    PROVE  /\ CtlOk' /\ DataOk' /\ Finished' = Finished
           /\ job' = [n |-> job'.n, mode |-> job'.mode, left |-> job'.left, total |-> job'.total]
           /\ job' # NoJob => job'.n \in Plain
           /\ \/ /\ Failing' = Failing \cup {n}
                 /\ UNCHANGED <<Working, Ending, InData, Opening>>
              \/ /\ Ending' = Ending \cup {n} /\ InData' = InData \cup {n}
                 /\ UNCHANGED <<Working, Failing, Opening>>
              \/ /\ Working = {} /\ Working' = {n} /\ InData' \subseteq InData \cup {n} /\ InData \subseteq InData'
                 /\ Opening' \subseteq Opening \cup {n} /\ UNCHANGED <<Failing, Ending>>
  <1>1. n \in Ndx /\ decision[n] \in {"full", "delta", "link", "marker"}
    BY DEF Requests, Wanted
  <1>2. NoJob = [n |-> NoJob.n, mode |-> NoJob.mode, left |-> NoJob.left, total |-> NoJob.total]
    BY DEF NoJob
  <1>3. CASE ctl' = Append(ctl, Msg("EntryError", n)) /\ UNCHANGED <<data, job>>
    <2>1. Msg("EntryError", n).type = "EntryError" /\ Msg("EntryError", n).n = n
      BY DEF Msg
    <2>2. CtlOk' /\ Failing' = Failing \cup {n} /\ Finished' = Finished
      BY <1>3, <2>1, CtlAdded
    <2>3. DataOk'
      BY <1>3, Unmoved DEF DataOk, OfData, Ends
    <2> QED
      BY <1>2, <1>3, <2>2, <2>3, Unmoved
  <1>4. CASE UNCHANGED ctl /\ Kind(n) # "file" /\ UNCHANGED job
             /\ \E t \in {"WriteDeleteMarker", "CreateSymlink"} :
                   data' = Append(data, Msg(t, n)) /\ (Kind(n) = IF t = "CreateSymlink" THEN "link" ELSE "marker")
    <2>1. PICK t \in {"WriteDeleteMarker", "CreateSymlink"} :
              data' = Append(data, Msg(t, n)) /\ (Kind(n) = IF t = "CreateSymlink" THEN "link" ELSE "marker")
      BY <1>4
    <2>2. Msg(t, n).type = t /\ Msg(t, n).n = n
      BY DEF Msg
    <2>3. OfData(Msg(t, n))
      BY <1>1, <2>1, <2>2 DEF OfData, Kind, Links, Markers, Plain
    <2>4. t \in Ends /\ t # "FileBegin"
      BY DEF Ends
    <2>5. DataOk' /\ InData' = InData \cup {n} /\ Ending' = Ending \cup {n} /\ Opening' = Opening
      BY <2>1, <2>2, <2>3, <2>4, DataAdded
    <2>6. CtlOk'
      BY <1>4, Unmoved DEF CtlOk
    <2> QED
      BY <1>2, <1>4, <2>5, <2>6, Unmoved
  <1>5. CASE UNCHANGED ctl /\ Kind(n) = "file"
             /\ (data' = Append(data, Msg("FileBegin", n)) \/ data' = data)
             /\ \E k \in Chunks : job' = [n |-> n, mode |-> mode, left |-> k, total |-> k]
    <2>1. PICK k \in Chunks : job' = [n |-> n, mode |-> mode, left |-> k, total |-> k]
      BY <1>5
    <2>2. job'.n = n /\ n # 0 /\ n \in Plain
      BY <1>1, <1>5, <2>1, NdxAssumption DEF Kind, Plain
    <2>3. job' = [n |-> job'.n, mode |-> job'.mode, left |-> job'.left, total |-> job'.total]
      BY <2>1
    <2>4. Working = {} /\ Working' = {n}
      BY <2>2 DEF Working, NoJob
    <2>5. CtlOk' /\ Failing' = Failing /\ Finished' = Finished
      BY <1>5, Unmoved DEF CtlOk
    <2>6. CASE data' = data
      <3>1. DataOk'
        BY <2>6, Unmoved DEF DataOk, OfData, Ends
      <3> QED
        BY <2>2, <2>3, <2>4, <2>5, <2>6, <3>1, Unmoved
    <2>7. CASE data' = Append(data, Msg("FileBegin", n))
      <3>1. Msg("FileBegin", n).type = "FileBegin" /\ Msg("FileBegin", n).n = n /\ "FileBegin" \notin Ends
        BY DEF Msg, Ends
      <3>2. OfData(Msg("FileBegin", n))
        BY <2>2, <3>1 DEF OfData
      <3>3. DataOk' /\ InData' = InData \cup {n} /\ Ending' = Ending /\ Opening' = Opening \cup {n}
        BY <2>7, <3>1, <3>2, DataAdded
      <3> QED
        BY <2>2, <2>3, <2>4, <2>5, <3>3
    <2> QED
      BY <1>5, <2>6, <2>7
  <1> QED
    BY <1>1, <1>3, <1>4, <1>5 DEF StartTransfer, Kind

LEMMA StartedEntries ==
    ASSUME Shape, Entries, NEW n \in Ndx, n \in Asked \cup Redoing, n \notin Asked' \cup Redoing',
           Asked' \subseteq Asked, Redoing' \subseteq Redoing, Told' \subseteq Told,
           UNCHANGED <<conn, receiver, disk, completedPaths>>,
           \/ /\ Failing' = Failing \cup {n}
              /\ UNCHANGED <<Working, Ending, InData, Opening>>
           \/ /\ Ending' = Ending \cup {n} /\ InData' = InData \cup {n}
              /\ UNCHANGED <<Working, Failing, Opening>>
           \/ /\ Working = {} /\ Working' = {n} /\ InData' \subseteq InData \cup {n} /\ InData \subseteq InData'
              /\ Opening' \subseteq Opening \cup {n} /\ UNCHANGED <<Failing, Ending>>
    PROVE  Entries'
  <1>1. /\ UNCHANGED <<outcome, terminated, published, active, Links, Plain, Requests>>
        /\ UNCHANGED <<Closing, Queued, Good, Bad, Beginning, Awaiting, Underway, Broken>>
    BY SenderAlone
  <1>2. ASSUME NEW x \in Ndx, x # n PROVE Entry(x)'
    <2>1. Entry(x)
      BY DEF Entries
    <2> QED
      BY <1>1, <1>2, <2>1, Still
  <1>3. Entry(n)'
    <2>1. Entry(n)
      BY DEF Entries
    <2>2. /\ n \notin InData /\ n \notin Marked /\ n \notin published /\ outcome[n] = "none" /\ n \notin terminated
          /\ n \notin Working \cup Ending \cup Closing \cup Queued \cup Good \cup Bad \cup Failing
          /\ n \notin Told \cup completedPaths
      BY <2>1, AskedFree
    <2>3. OnePlace(n)' /\ OneMark(n)'
      BY <1>1, <2>1, <2>2 DEF Entry, OnePlace, OneMark
    <2>4. n \notin Marked'
      BY <1>1, <2>2 DEF Marked
    <2>5. Begun(n)'
      BY <1>1, <2>2, <2>4 DEF Begun
    <2>6. Lasting(n)' /\ Booked(n)'
      BY <1>1, <2>2, <2>4 DEF Lasting, Booked, Marked
    <2> QED
      BY <2>3, <2>5, <2>6 DEF Entry
  <1> QED
    BY <1>2, <1>3 DEF Entries

LEMMA SRequestKeeps == ASSUME IInv, SRequest PROVE IInv'
  <1> DEFINE n == Head(back).n
  <1>1. /\ back # <<>> /\ Head(back).type = "TransferRequest" /\ back' = Tail(back) /\ conn /\ job = NoJob
        /\ UNCHANGED <<conn, list, acks, advPos, completedPaths, receiver, disk>>
        /\ \E mode : StartTransfer(n, mode)
    BY DEF SRequest, AtRecv, Is
  <1>2. UNCHANGED decision
    BY <1>1, SenderAlone
  <1>3. BackOk' /\ Informed' \subseteq Informed /\ n \in Asked /\ Asked' = Asked \ {n}
    BY <1>1, <1>2, BackTaken DEF IInv, Queues
  <1>4. n \in Requests /\ n \in Ndx
    BY <1>3 DEF IInv, Queues, BackOk, Requests
  <1>5. n \notin InData /\ n \notin Ending /\ n \notin Failing /\ n \notin Redoing
    BY <1>3, <1>4, AskedFree DEF IInv, Entries, Entry, OnePlace
  <1>6. AcksOk' /\ Redoing' = Redoing /\ Told' = Told
    BY <1>1, <1>2, QueuesStay, Unmoved DEF IInv
  <1>7. PICK mode : StartTransfer(n, mode)
    BY <1>1
  <1> HIDE DEF n
  <1>8. /\ CtlOk' /\ DataOk' /\ Finished' = Finished
        /\ job' = [n |-> job'.n, mode |-> job'.mode, left |-> job'.left, total |-> job'.total]
        /\ job' # NoJob => job'.n \in Plain
        /\ \/ /\ Failing' = Failing \cup {n}
              /\ UNCHANGED <<Working, Ending, InData, Opening>>
           \/ /\ Ending' = Ending \cup {n} /\ InData' = InData \cup {n}
              /\ UNCHANGED <<Working, Failing, Opening>>
           \/ /\ Working = {} /\ Working' = {n} /\ InData' \subseteq InData \cup {n} /\ InData \subseteq InData'
              /\ Opening' \subseteq Opening \cup {n} /\ UNCHANGED <<Failing, Ending>>
    BY <1>1, <1>2, <1>4, <1>5, <1>7, Started DEF IInv, Queues
  <1>9. Entries'
    BY <1>1, <1>3, <1>4, <1>5, <1>6, <1>8, StartedEntries DEF IInv
  <1> QED
    BY <1>1, <1>3, <1>6, <1>8, <1>9, SenderStep DEF IInv, Shape

LEMMA SRedoKeeps == ASSUME IInv, SRedo PROVE IInv'
  <1> DEFINE n == Head(acks).n
  <1>1. /\ acks # <<>> /\ Head(acks).type = "Redo" /\ acks' = Tail(acks) /\ conn /\ job = NoJob
        /\ UNCHANGED <<conn, list, back, advPos, completedPaths, receiver, disk>>
        /\ \E mode : StartTransfer(n, mode)
    BY DEF SRedo, AtRecv, Is
  <1>2. UNCHANGED decision
    BY <1>1, SenderAlone
  <1>3. AcksOk' /\ Told' \subseteq Told /\ n \in Redoing /\ Redoing' = Redoing \ {n}
    BY <1>1, <1>2, AcksTaken DEF IInv, Queues
  <1>4. n \in Requests /\ n \in Ndx
    BY <1>3 DEF IInv, Queues, AcksOk, Plain, Requests, Wanted
  <1>5. n \notin InData /\ n \notin Ending /\ n \notin Failing /\ n \notin Asked
    BY <1>3, <1>4, AskedFree DEF IInv, Entries, Entry, OnePlace
  <1>6. BackOk' /\ Asked' = Asked /\ Informed' = Informed
    BY <1>1, <1>2, QueuesStay, Unmoved DEF IInv
  <1>7. PICK mode : StartTransfer(n, mode)
    BY <1>1
  <1> HIDE DEF n
  <1>8. /\ CtlOk' /\ DataOk' /\ Finished' = Finished
        /\ job' = [n |-> job'.n, mode |-> job'.mode, left |-> job'.left, total |-> job'.total]
        /\ job' # NoJob => job'.n \in Plain
        /\ \/ /\ Failing' = Failing \cup {n}
              /\ UNCHANGED <<Working, Ending, InData, Opening>>
           \/ /\ Ending' = Ending \cup {n} /\ InData' = InData \cup {n}
              /\ UNCHANGED <<Working, Failing, Opening>>
           \/ /\ Working = {} /\ Working' = {n} /\ InData' \subseteq InData \cup {n} /\ InData \subseteq InData'
              /\ Opening' \subseteq Opening \cup {n} /\ UNCHANGED <<Failing, Ending>>
    BY <1>1, <1>2, <1>4, <1>5, <1>7, Started DEF IInv, Queues
  <1>9. Entries'
    BY <1>1, <1>3, <1>4, <1>5, <1>6, <1>8, StartedEntries DEF IInv
  <1> QED
    BY <1>1, <1>3, <1>6, <1>8, <1>9, SenderStep DEF IInv, Shape

\* Reading the rest of the FileList stream.
LEMMA SReadsBack == ASSUME IInv, SClassified \/ SRequestsDone PROVE IInv'
  <1>1. /\ back # <<>> /\ back' = Tail(back) /\ Head(back).type # "TransferRequest"
        /\ UNCHANGED <<conn, list, data, acks, advPos, job, completedPaths, receiver, disk>>
        /\ \/ UNCHANGED ctl
           \/ Head(back).type = "RequestsDone" /\ ctl' = Append(ctl, Msg("TransferDone", 0))
    BY DEF SClassified, SRequestsDone, Is, sLedger
  <1>2. UNCHANGED <<decision, outcome, terminated, published, active, Links, Plain, Requests, Working>>
        /\ UNCHANGED <<Closing, Queued, Good, Bad, Beginning, Awaiting, Underway, Broken>>
    BY <1>1, SenderAlone
  <1>3. /\ BackOk' /\ Informed' \subseteq Informed /\ Asked' = Asked
        /\ Head(back).type = "RequestsDone" => Informed # {}
    BY <1>1, <1>2, BackTaken DEF IInv, Queues
  <1>4. AcksOk' /\ DataOk' /\ UNCHANGED <<Redoing, Told, Ending, Opening, InData>>
    BY <1>1, <1>2, QueuesStay, Unmoved DEF IInv
  <1>5. CtlOk' /\ Failing' = Failing /\ (Finished' = Finished \/ Informed # {})
    <2>1. CASE UNCHANGED ctl
      BY <1>2, <2>1, QueuesStay, Unmoved DEF IInv
    <2>2. CASE Head(back).type = "RequestsDone" /\ ctl' = Append(ctl, Msg("TransferDone", 0))
      BY <1>2, <1>3, <2>2, CtlAdded DEF IInv, Queues, Msg
    <2> QED
      BY <1>1, <2>1, <2>2
  <1>6. Entries'
    <2> SUFFICES ASSUME NEW n \in Ndx PROVE Entry(n)'
      BY DEF Entries
    <2>1. Entry(n)
      BY DEF IInv, Entries
    <2> QED
      BY <1>1, <1>2, <1>3, <1>4, <1>5, <2>1, Still
  <1> QED
    BY <1>1, <1>2, <1>3, <1>4, <1>5, <1>6, SenderStep DEF IInv, Shape

\* Reading an outcome.
LEMMA SReadsAcks == ASSUME IInv, SSuccess \/ SEntryError \/ SError PROVE IInv'
  <1>1. /\ acks # <<>> /\ acks' = Tail(acks) /\ Head(acks).type # "Redo"
        /\ UNCHANGED <<conn, ctl, list, data, back, advPos, job, receiver, disk>>
        /\ \/ UNCHANGED completedPaths
           \/ Head(acks).type = "Success" /\ completedPaths' = completedPaths \cup {Head(acks).n}
    BY DEF SSuccess, SEntryError, SError, Is
  <1>2. UNCHANGED <<decision, outcome, terminated, published, active, Links, Plain, Requests, Working>>
        /\ UNCHANGED <<Closing, Queued, Good, Bad, Beginning, Awaiting, Underway, Broken>>
    BY <1>1, SenderAlone
  <1>3. /\ AcksOk' /\ Told' \subseteq Told /\ Redoing' = Redoing
        /\ Head(acks).type = "Success" => Head(acks).n \in Told
    BY <1>1, <1>2, AcksTaken DEF IInv, Queues
  <1>4. CtlOk' /\ BackOk' /\ DataOk' /\ UNCHANGED <<Asked, Informed, Ending, Opening, InData, Failing, Finished>>
    BY <1>1, <1>2, QueuesStay, Unmoved DEF IInv
  <1>5. completedPaths' \subseteq completedPaths \cup Told /\ completedPaths' \subseteq Ndx
    BY <1>1, <1>3 DEF IInv, Shape, Queues, AcksOk
  <1>6. Entries'
    <2> SUFFICES ASSUME NEW n \in Ndx PROVE Entry(n)'
      BY DEF Entries
    <2>1. Entry(n)
      BY DEF IInv, Entries
    <2> QED
      BY <1>1, <1>2, <1>3, <1>4, <1>5, <2>1, Still
  <1> QED
    BY <1>1, <1>2, <1>3, <1>4, <1>5, <1>6, SenderStep DEF IInv, Shape

\* The transfer under way: its next payload, its end, or its source's failure.
LEMMA SChunkKeeps == ASSUME IInv, SChunk PROVE IInv'
  <1> DEFINE n == job.n
  <1>1. /\ conn /\ job # NoJob /\ job' = [job EXCEPT !.left = @ - 1]
        /\ UNCHANGED <<conn, ctl, list, back, acks, advPos, completedPaths, receiver, disk>>
        /\ \E t \in {"FileData", "DeltaData", "DeltaMatch"} : data' = Append(data, Msg(t, n))
    BY DEF SChunk, sLedger
  <1>2. PICK t \in {"FileData", "DeltaData", "DeltaMatch"} : data' = Append(data, Msg(t, n))
    BY <1>1
  <1>3. n \in Plain /\ n \in Working /\ n \in Ndx /\ n # 0
    BY <1>1, NdxAssumption DEF IInv, Shape, Working, Plain
  <1>4. /\ job' = [n |-> n, mode |-> job.mode, left |-> job.left - 1, total |-> job.total]
        /\ job'.n = n /\ job' # NoJob
    <2>1. job = [n |-> job.n, mode |-> job.mode, left |-> job.left, total |-> job.total]
      BY DEF IInv, Shape
    <2>2. job' = [n |-> n, mode |-> job.mode, left |-> job.left - 1, total |-> job.total]
      BY <1>1, <2>1
    <2> QED
      BY <1>3, <2>2 DEF NoJob
  <1>5. /\ UNCHANGED <<decision, outcome, terminated, published, active, Links, Plain, Requests>>
        /\ UNCHANGED <<Closing, Queued, Good, Bad, Beginning, Awaiting, Underway, Broken>>
    BY <1>1, SenderAlone
  <1>6. Msg(t, n).type = t /\ Msg(t, n).n = n /\ t \notin Ends /\ t # "FileBegin"
    BY DEF Msg, Ends
  <1> HIDE DEF n
  <1>7. n \notin Ending
    BY <1>3 DEF IInv, Entries, Entry, OnePlace
  <1>8. OfData(Msg(t, n))
    BY <1>3, <1>6 DEF OfData
  <1>9. DataOk' /\ InData' = InData \cup {n} /\ Ending' = Ending /\ Opening' = Opening
    BY <1>2, <1>5, <1>6, <1>7, <1>8, DataAdded DEF IInv, Queues
  <1>10. Working' = Working
    BY <1>1, <1>4 DEF Working, n
  <1>11. /\ CtlOk' /\ BackOk' /\ AcksOk'
         /\ UNCHANGED <<Failing, Finished, Asked, Informed, Redoing, Told>>
    BY <1>1, <1>5, QueuesStay, Unmoved DEF IInv
  <1>12. Entries'
    <2> SUFFICES ASSUME NEW x \in Ndx PROVE Entry(x)'
      BY DEF Entries
    <2>1. Entry(x)
      BY DEF IInv, Entries
    <2>2. CASE x # n
      BY <1>1, <1>5, <1>9, <1>10, <1>11, <2>1, <2>2, Still
    <2>3. CASE x = n
      <3>1. Shut(x) => Shut(x)'
        BY <1>3, <1>5, <1>9, <1>10, <2>3 DEF Shut
      <3>2. OnePlace(x)' /\ OneMark(x)'
        BY <1>5, <1>9, <1>10, <1>11, <2>1 DEF Entry, OnePlace, OneMark
      <3>3. Marked' = Marked /\ Held' = Held
        BY <1>5, <1>9, <1>10, <1>11 DEF Marked, Held
      <3>4. Begun(x)'
        BY <1>3, <1>5, <1>10, <1>11, <2>1, <2>3, <3>1, <3>3 DEF Entry, Begun
      <3>5. Lasting(x)' /\ Booked(x)'
        BY <1>1, <1>5, <1>11, <2>1, <3>3 DEF Entry, Lasting, Booked
      <3> QED
        BY <3>2, <3>4, <3>5 DEF Entry
    <2> QED
      BY <2>2, <2>3
  <1>13. job' = [n |-> job'.n, mode |-> job'.mode, left |-> job'.left, total |-> job'.total]
    BY <1>4
  <1>14. completedPaths' \subseteq Ndx /\ job'.n \in Plain
    BY <1>1, <1>3, <1>4 DEF IInv, Shape
  <1> QED
    BY <1>1, <1>9, <1>11, <1>12, <1>13, <1>14, SenderStep

LEMMA SEndsKeeps == ASSUME IInv, SEndOfFile \/ SSourceFails PROVE IInv'
  <1> DEFINE n == job.n
  <1>1. /\ conn /\ job # NoJob /\ job' = NoJob
        /\ UNCHANGED <<conn, list, back, acks, advPos, completedPaths, receiver, disk>>
        /\ \/ data' = Append(data, MsgK("EndOfFile", n, job.total)) /\ UNCHANGED ctl
           \/ UNCHANGED data /\ ctl' = Append(ctl, Msg("EntryError", n))
    BY DEF SEndOfFile, SSourceFails, sLedger
  <1>2. n \in Plain /\ n \in Requests /\ Working = {n} /\ n \in Ndx
    BY <1>1 DEF IInv, Shape, Working, Plain, Requests, Wanted
  <1>3. /\ UNCHANGED <<decision, outcome, terminated, published, active, Links, Plain, Requests>>
        /\ UNCHANGED <<Closing, Queued, Good, Bad, Beginning, Awaiting, Underway, Broken>>
    BY <1>1, SenderAlone
  <1>4. n \notin Ending /\ n \notin Failing
    BY <1>2 DEF IInv, Entries, Entry, OnePlace
  <1>5. Working' = {}
    BY <1>1 DEF Working
  <1>6. /\ BackOk' /\ AcksOk' /\ UNCHANGED <<Asked, Informed, Redoing, Told>>
        /\ UNCHANGED ctl => CtlOk' /\ UNCHANGED <<Failing, Finished>>
        /\ UNCHANGED data => DataOk' /\ UNCHANGED <<Ending, InData, Opening>>
    BY <1>1, <1>3, QueuesStay, Unmoved DEF IInv
  <1>7. /\ CtlOk' /\ DataOk' /\ Finished' = Finished /\ Opening' = Opening
        /\ \/ Ending' = Ending \cup {n} /\ InData' = InData \cup {n} /\ Failing' = Failing
           \/ Failing' = Failing \cup {n} /\ InData' = InData /\ Ending' = Ending
    <2>1. CASE data' = Append(data, MsgK("EndOfFile", n, job.total)) /\ UNCHANGED ctl
      <3> DEFINE m == MsgK("EndOfFile", n, job.total)
      <3>1. m.type = "EndOfFile" /\ m.n = n /\ m.type \in Ends /\ m.type # "FileBegin"
        BY DEF MsgK, Ends
      <3> HIDE DEF m, n
      <3>2. OfData(m)
        BY <1>2, <3>1 DEF OfData
      <3>3. DataOk' /\ InData' = InData \cup {n} /\ Ending' = Ending \cup {n} /\ Opening' = Opening
        BY <1>3, <1>4, <2>1, <3>1, <3>2, DataAdded DEF IInv, Queues, m
      <3> QED
        BY <1>6, <2>1, <3>3
    <2>2. CASE UNCHANGED data /\ ctl' = Append(ctl, Msg("EntryError", n))
      <3>1. Msg("EntryError", n).type = "EntryError" /\ Msg("EntryError", n).n = n
        BY DEF Msg
      <3> HIDE DEF n
      <3>2. CtlOk' /\ Failing' = Failing \cup {n} /\ Finished' = Finished
        BY <1>2, <1>3, <1>4, <2>2, <3>1, CtlAdded DEF IInv, Queues
      <3> QED
        BY <1>6, <2>2, <3>2
    <2> QED
      BY <1>1, <2>1, <2>2
  <1> HIDE DEF n
  <1>8. Entries'
    <2> SUFFICES ASSUME NEW x \in Ndx PROVE Entry(x)'
      BY DEF Entries
    <2>1. Entry(x)
      BY DEF IInv, Entries
    <2>2. CASE x # n
      BY <1>1, <1>2, <1>3, <1>5, <1>6, <1>7, <2>1, <2>2, Still
    <2>3. CASE x = n
      <3>1. Shut(x) => Shut(x)'
        BY <1>2, <1>3, <1>5, <1>7, <2>3 DEF Shut
      <3>2. OnePlace(x)' /\ OneMark(x)'
        BY <1>2, <1>3, <1>5, <1>6, <1>7, <2>1, <2>3 DEF Entry, OnePlace, OneMark
      <3>3. Marked' = Marked
        BY <1>3 DEF Marked
      <3>4. Begun(x)'
        BY <1>3, <1>6, <1>7, <2>1, <2>3, <3>1, <3>3 DEF Entry, Begun
      <3>5. x \in Held
        BY <1>2, <2>3 DEF Held
      <3>6. Lasting(x)' /\ Booked(x)'
        BY <1>1, <1>2, <1>3, <1>4, <1>6, <2>1, <2>3, <3>5 DEF Entry, OnePlace, Lasting, Booked
      <3> QED
        BY <3>2, <3>4, <3>6 DEF Entry
    <2> QED
      BY <2>2, <2>3
  <1>9. NoJob = [n |-> NoJob.n, mode |-> NoJob.mode, left |-> NoJob.left, total |-> NoJob.total]
    BY DEF NoJob
  <1>10. completedPaths' \subseteq Ndx
    BY <1>1 DEF IInv, Shape
  <1> QED
    BY <1>1, <1>6, <1>7, <1>8, <1>9, <1>10, SenderStep

\* The steps that only close the connection, or change nothing of this.
LEMMA ClosesKeeps ==
    ASSUME IInv, SAllDone \/ Lose \/ SConnectionLost \/ FilterGrant
    PROVE  IInv'
  <1>1. CASE SAllDone \/ Lose
    BY <1>1, LoseKeeps DEF SAllDone, Lose, Silence, sender, sLedger
  <1>2. CASE SConnectionLost \/ FilterGrant
    <2>1. UNCHANGED <<conn, ctl, list, data, back, acks, advPos, job, completedPaths, receiver, disk>>
      BY <1>2 DEF SConnectionLost, FilterGrant, sender, sLedger, net
    <2>2. UNCHANGED <<decision, outcome, terminated, published, active, Links, Plain, Requests, Working>>
          /\ UNCHANGED <<Closing, Queued, Good, Bad, Beginning, Awaiting, Underway, Broken>>
      BY <2>1, SenderAlone
    <2>3. CtlOk' /\ BackOk' /\ AcksOk' /\ DataOk'
          /\ UNCHANGED <<Asked, Informed, Redoing, Told, Ending, Opening, InData, Failing, Finished>>
      BY <2>1, <2>2, QueuesStay, Unmoved DEF IInv
    <2>4. Entries'
      <3> SUFFICES ASSUME NEW n \in Ndx PROVE Entry(n)'
        BY DEF Entries
      <3>1. Entry(n)
        BY DEF IInv, Entries
      <3> QED
        BY <2>1, <2>2, <2>3, <3>1, Still
    <2> QED
      BY <2>1, <2>2, <2>3, <2>4, SenderStep DEF IInv, Shape
  <1> QED
    BY <1>1, <1>2
\* The walk advertises its next page.
LEMMA AdvertiseKeeps == ASSUME IInv, Advertise PROVE IInv'
  <1>1. /\ conn /\ advPos' = advPos + 1 /\ advPos <= Len(Pages) /\ advPos \in Nat /\ Len(Pages) \in Nat
        /\ UNCHANGED <<conn, ctl, data, back, acks, job, completedPaths, receiver, disk>>
        /\ \/ /\ advPos < Len(Pages)
              /\ \E t \in Listings : list' = Append(list, Msg(t, advPos + 1))
           \/ /\ advPos = Len(Pages)
              /\ list' = Append(list, Msg("FileListDone", 0))
    BY PagesAssumption DEF Advertise, sLedger, IInv, ListOk, Listings
  <1>2. /\ UNCHANGED <<decision, rPhase, requested, completed, doneSeen, outcome, terminated, published, active, dc>>
        /\ UNCHANGED <<Links, Markers, Plain, Requests, Working>>
        /\ UNCHANGED <<Closing, Queued, Good, Bad, Beginning, Awaiting, Underway, Broken>>
    BY <1>1, SenderAlone
  <1>3. /\ CtlOk' /\ BackOk' /\ AcksOk' /\ DataOk'
        /\ UNCHANGED <<Asked, Informed, Redoing, Told, Ending, Opening, InData, Failing, Finished>>
    BY <1>1, <1>2, QueuesStay, Unmoved DEF IInv
  <1>4. Queues'
    BY <1>1, <1>2, <1>3, QueuesStay DEF IInv, Queues, disk, receiver
  <1>5. Shape'
    BY <1>1, <1>2 DEF IInv, Shape, Busy
  <1>6. Entries'
    <2> SUFFICES ASSUME NEW n \in Ndx PROVE Entry(n)'
      BY DEF Entries
    <2>1. Entry(n)
      BY DEF IInv, Entries
    <2> QED
      BY <1>1, <1>2, <1>3, <2>1, Still
  <1>7. Ledger'
    BY <1>2, LedgerStays DEF IInv
  <1>8. PICK m : /\ list' = Append(list, m)
                 /\ \/ m.type \in Listings /\ m.n = advPos + 1 /\ advPos < Len(Pages)
                    \/ m.type = "FileListDone" /\ advPos = Len(Pages)
    <2>1. CASE /\ advPos < Len(Pages)
               /\ \E t \in Listings : list' = Append(list, Msg(t, advPos + 1))
      <3>1. PICK t \in Listings : list' = Append(list, Msg(t, advPos + 1))
        BY <2>1
      <3>2. Msg(t, advPos + 1).type = t /\ Msg(t, advPos + 1).n = advPos + 1
        BY DEF Msg
      <3> QED
        BY <2>1, <3>1, <3>2
    <2>2. CASE /\ advPos = Len(Pages)
               /\ list' = Append(list, Msg("FileListDone", 0))
      <3>1. Msg("FileListDone", 0).type = "FileListDone"
        BY DEF Msg
      <3> QED
        BY <2>2, <3>1
    <2> QED
      BY <1>1, <2>1, <2>2
  <1>9. IsSeq(list) /\ Solo(list, Listings)
    BY DEF IInv, ListOk
  <1>10. /\ IsSeq(list') /\ Len(list) \in Nat /\ Len(list') = Len(list) + 1 /\ list'[Len(list) + 1] = m
         /\ \A i \in 1..Len(list) : list'[i] = list[i]
    BY <1>8, <1>9, AppendOf
  <1>11. \A i \in 1..Len(list') : i \in 1..Len(list) \/ (i = Len(list) + 1 /\ i = Len(list'))
    BY <1>10
  <1>12. \A i \in 1..Len(list) : list[i].type \in Listings /\ list[i].n \in 1..Len(Pages) /\ list[i].n <= advPos
    BY <1>1 DEF IInv, ListOk
  <1>13. advPos + 1 \notin About(list, Listings)
    BY <1>1, <1>12 DEF About
  <1>14. /\ About(list', Listings) = About(list, Listings) \cup (IF m.type \in Listings THEN {m.n} ELSE {})
         /\ Solo(list', Listings)
    BY <1>8, <1>9, <1>13, AddedTo DEF Listings
  <1>15. ASSUME NEW i \in 1..Len(list')
         PROVE  \/ list'[i].type = "FileListDone" /\ i = Len(list') /\ advPos' > Len(Pages)
                \/ list'[i].type \in Listings /\ list'[i].n \in 1..Len(Pages) /\ list'[i].n <= advPos'
    <2>1. CASE i \in 1..Len(list)
      <3>1. list'[i] = list[i] /\ list[i].type \in Listings /\ list[i].n \in 1..Len(Pages) /\ list[i].n <= advPos
        BY <1>10, <1>12, <2>1
      <3> QED
        BY <1>1, <3>1
    <2>2. CASE i = Len(list) + 1 /\ i = Len(list')
      BY <1>1, <1>8, <1>10, <2>2
    <2> QED
      BY <1>11, <2>1, <2>2
  <1>16. ListOk'
    BY <1>1, <1>10, <1>14, <1>15 DEF ListOk, Listings
  <1>17. \A k \in 1..Len(Pages) : Ahead(k)' <=> Ahead(k)
    <2> SUFFICES ASSUME NEW k \in 1..Len(Pages) PROVE Ahead(k)' <=> Ahead(k)
      OBVIOUS
    <2>1. Ahead(k)' <=> (k > advPos + 1 \/ k \in About(list', Listings))
      BY <1>1 DEF Ahead, Listings
    <2>2. Ahead(k) <=> (k > advPos \/ k \in About(list, Listings))
      BY DEF Ahead
    <2> QED
      BY <1>1, <1>8, <1>14, <2>1, <2>2 DEF Listings
  <1>18. Paged'
    BY <1>1, <1>2, <1>3, <1>17 DEF IInv, Paged, AllDecided
  <1> QED
    BY <1>4, <1>5, <1>6, <1>7, <1>16, <1>18 DEF IInv

-----------------------------------------------------------------------------
(* The receiver's loop.                                                    *)

\* The next message of the FileList stream.
LEMMA ListTaken ==
    ASSUME ListOk, list # <<>>, NEW m, m = Head(list), list' = Tail(list), UNCHANGED advPos
    PROVE  /\ ListOk'
           /\ \/ /\ m.type = "FileListDone" /\ advPos > Len(Pages) /\ list' = <<>>
                 /\ \A k \in 1..Len(Pages) : ~Ahead(k) /\ ~Ahead(k)'
              \/ /\ m.type \in Listings /\ m.n \in 1..Len(Pages)
                 /\ Ahead(m.n) /\ ~Ahead(m.n)'
                 /\ \A k \in 1..Len(Pages) : k # m.n => (Ahead(k)' <=> Ahead(k))
  <1>1. /\ IsSeq(list') /\ m = list[1] /\ Len(list) \in Nat \ {0} /\ Len(list') = Len(list) - 1
        /\ \A i \in 1..(Len(list) - 1) : list'[i] = list[i + 1]
    BY TailOf DEF ListOk
  <1>2. /\ About(list, Listings) = About(list', Listings) \cup (IF m.type \in Listings THEN {m.n} ELSE {})
        /\ Solo(list', Listings)
        /\ m.type \in Listings => m.n \notin About(list', Listings)
    BY TakenFrom DEF ListOk
  <1>3. \A i \in 1..Len(list') : i + 1 \in 1..Len(list) /\ list'[i] = list[i + 1] /\ (i + 1 = Len(list) => i = Len(list'))
    <2> SUFFICES ASSUME NEW i \in 1..Len(list')
                 PROVE  /\ i + 1 \in 1..Len(list) /\ i \in 1..(Len(list) - 1)
                        /\ i + 1 = Len(list) => i = Len(list')
      BY <1>1
    <2>1. Len(list) \in Nat \ {0} /\ Len(list') = Len(list) - 1
      BY <1>1
    <2>2. i \in Nat /\ 1 <= i /\ i <= Len(list) - 1
      BY <2>1
    <2>3. i + 1 \in 1..Len(list)
      BY <2>1, <2>2
    <2>4. i \in 1..(Len(list) - 1)
      BY <2>1, <2>2
    <2>5. i + 1 = Len(list) => i = Len(list')
      <3>1. ASSUME NEW L \in Nat, NEW M, M = L - 1, i + 1 = L PROVE i = M
        BY <2>2, <3>1
      <3> QED
        BY <2>1, <3>1
    <2> QED
      BY <2>3, <2>4, <2>5
  <1>4. 1 \in 1..Len(list) /\ (Len(list) = 1 => list' = <<>>) /\ advPos \in Nat /\ Len(Pages) \in Nat
    <2>1. Len(list) = 1 => Len(list') = 0 /\ list' \in Seq(Range(list'))
      BY <1>1 DEF IsSeq
    <2>2. Len(list) = 1 => list' = <<>>
      BY <2>1, EmptySeq
    <2>3. 1 \in 1..Len(list)
      BY <1>1
    <2>4. advPos \in Nat /\ Len(Pages) \in Nat
      BY PagesAssumption DEF ListOk
    <2> QED
      BY <2>2, <2>3, <2>4
  <1>5. ASSUME NEW i \in 1..Len(list')
        PROVE  \/ list'[i].type = "FileListDone" /\ i = Len(list') /\ advPos > Len(Pages)
               \/ list'[i].type \in Listings /\ list'[i].n \in 1..Len(Pages) /\ list'[i].n <= advPos
    BY <1>3 DEF ListOk
  <1>6. ListOk'
    BY <1>1, <1>2, <1>5 DEF ListOk, Listings
  <1>7. \A k : Ahead(k)' <=> (k > advPos \/ k \in About(list', Listings))
    BY DEF Ahead, Listings
  <1>8. CASE m.type = "FileListDone" /\ Len(list) = 1 /\ advPos > Len(Pages)
    <2>1. \A i \in 1..Len(<<>>) : FALSE
      OBVIOUS
    <2>2. list' = <<>> /\ m.type \notin Listings /\ About(list', Listings) = {}
      BY <1>4, <1>8, EmptyOf DEF Listings
    <2>3. \A k \in 1..Len(Pages) : ~(k > advPos)
      BY <1>4, <1>8
    <2>4. \A k \in 1..Len(Pages) : ~Ahead(k) /\ ~Ahead(k)'
      BY <1>2, <1>7, <2>2, <2>3 DEF Ahead
    <2> QED
      BY <1>6, <1>8, <2>2, <2>4
  <1>9. CASE m.type \in Listings /\ m.n \in 1..Len(Pages) /\ m.n <= advPos
    <2>1. ~(m.n > advPos)
      BY <1>4, <1>9
    <2>2. Ahead(m.n) /\ ~Ahead(m.n)'
      BY <1>2, <1>7, <1>9, <2>1 DEF Ahead
    <2>3. \A k \in 1..Len(Pages) : k # m.n => (Ahead(k)' <=> Ahead(k))
      BY <1>2, <1>7, <1>9 DEF Ahead
    <2> QED
      BY <1>6, <1>9, <2>2, <2>3
  <1> QED
    BY <1>1, <1>4, <1>8, <1>9 DEF ListOk

\* A page that is taken off the stream is decided, and no other.
LEMMA PagesTaken ==
    ASSUME ListOk, Paged, list # <<>>, list' = Tail(list), UNCHANGED <<advPos, conn>>,
           \A n \in Ndx : IF n \in Listed(Head(list)) THEN decision'[n] # "none" ELSE decision'[n] = decision[n]
    PROVE  /\ \A n \in Listed(Head(list)) : n \in Ndx /\ decision[n] = "none"
           /\ AllDecided => AllDecided'
           /\ Head(list).type = "FileListDone" /\ conn => AllDecided
           /\ \A k \in 1..Len(Pages) :
                 /\ Ahead(k)' => \A n \in Pages[k] : decision'[n] = "none"
                 /\ conn /\ ~Ahead(k)' => \A n \in Pages[k] : decision'[n] # "none"
  <1> PICK m : m = Head(list)
    OBVIOUS
  <1>1. \/ /\ m.type = "FileListDone"
           /\ \A k \in 1..Len(Pages) : ~Ahead(k) /\ ~Ahead(k)'
        \/ /\ m.type \in Listings /\ m.n \in 1..Len(Pages)
           /\ Ahead(m.n) /\ ~Ahead(m.n)'
           /\ \A k \in 1..Len(Pages) : k # m.n => (Ahead(k)' <=> Ahead(k))
    BY ListTaken
  <1>2. \A k \in 1..Len(Pages) : Pages[k] \subseteq Ndx
    BY PagesAssumption
  <1>3. \A k \in 1..Len(Pages) :
          /\ Ahead(k) => \A n \in Pages[k] : decision[n] = "none"
          /\ conn /\ ~Ahead(k) => \A n \in Pages[k] : decision[n] # "none"
    BY DEF Paged
  <1>4. Listed(m) = IF m.type = "FileListDone" THEN {} ELSE Pages[m.n]
    BY DEF Listed
  <1>5. \A n \in Ndx : IF n \in Listed(m) THEN decision'[n] # "none" ELSE decision'[n] = decision[n]
    OBVIOUS
  <1>6. CASE /\ m.type = "FileListDone"
             /\ \A k \in 1..Len(Pages) : ~Ahead(k) /\ ~Ahead(k)'
    <2>1. \A n \in Ndx : decision'[n] = decision[n]
      BY <1>4, <1>5, <1>6
    <2>2. conn => AllDecided
      BY <1>3, <1>6, PagesAssumption DEF AllDecided
    <2> QED
      BY <1>2, <1>3, <1>4, <1>6, <2>1, <2>2 DEF AllDecided
  <1>7. CASE /\ m.type \in Listings /\ m.n \in 1..Len(Pages)
             /\ Ahead(m.n) /\ ~Ahead(m.n)'
             /\ \A k \in 1..Len(Pages) : k # m.n => (Ahead(k)' <=> Ahead(k))
    <2>1. Listed(m) = Pages[m.n] /\ m.type # "FileListDone"
      BY <1>4, <1>7 DEF Listings
    <2>2. \A n \in Pages[m.n] : n \in Ndx /\ decision[n] = "none"
      BY <1>2, <1>3, <1>7
    <2>3. \A k \in 1..Len(Pages) : k # m.n => \A n \in Pages[k] : n \in Ndx /\ decision'[n] = decision[n]
      BY <1>2, <1>5, <1>7, <2>1, PagesAssumption
    <2>4. \A n \in Pages[m.n] : decision'[n] # "none"
      BY <1>5, <2>1, <2>2
    <2>5. AllDecided => AllDecided'
      BY <1>5 DEF AllDecided
    <2>6. ASSUME NEW k \in 1..Len(Pages)
          PROVE  /\ Ahead(k)' => \A n \in Pages[k] : decision'[n] = "none"
                 /\ conn /\ ~Ahead(k)' => \A n \in Pages[k] : decision'[n] # "none"
      BY <1>3, <1>7, <2>3, <2>4
    <2> QED
      BY <2>1, <2>2, <2>5, <2>6
  <1> QED
    BY <1>1, <1>6, <1>7

\* A step of the loop that reads no page.
LEMMA LoopStep ==
    ASSUME IInv, UNCHANGED <<conn, list, sender, decision, dc, published>>,
           CtlOk', BackOk', AcksOk', DataOk', Commands(toDisk)', Commands(dcq)', DcAcksOk', Entries', Ledger',
           Informed' \cup Finished' # {} => Informed \cup Finished # {}, doneSeen' => doneSeen \/ Finished # {},
           active' = [mode |-> active'.mode, n |-> active'.n], active' # Idle => active'.n \in Plain,
           outcome' \in [Ndx -> {"none", "success", "error"}], terminated' \subseteq Ndx,
           rPhase' = "Config" => rPhase = "Config"
    PROVE  IInv'
  <1>1. UNCHANGED <<advPos, job, completedPaths, Links, Markers, Plain, Requests>>
    BY Unmoved DEF sender, sLedger
  <1>2. Shape'
    BY <1>1 DEF IInv, Shape, Busy
  <1>3. Queues'
    BY DEF Queues
  <1>4. ListOk'
    BY <1>1 DEF IInv, ListOk, Listings, Solo
  <1>5. \A k : Ahead(k)' <=> Ahead(k)
    BY <1>1 DEF Ahead, About, Listings
  <1>6. Paged'
    BY <1>5 DEF IInv, Paged, AllDecided
  <1> QED
    BY <1>2, <1>3, <1>4, <1>6 DEF IInv

\* What the loop can have left alone.
LEMMA LoopAlone ==
    ASSUME UNCHANGED <<conn, sender, decision, dc, published>>
    PROVE  UNCHANGED <<completedPaths, job, Working, Underway, Links, Markers, Plain, Requests>>
  BY Unmoved DEF sender, sLedger

\* Requests and settled entries are finitely many.
LEMMA Counts ==
    /\ IsFiniteSet(Requests) /\ Cardinality(Requests) \in Nat
    /\ IsFiniteSet(Settled) /\ Cardinality(Settled) \in Nat
  <1>1. Requests \subseteq Ndx /\ Settled \subseteq Ndx
    BY DEF Requests, Settled
  <1> QED
    BY <1>1, NdxAssumption, FS_Subset, FS_CardinalityType

\* One more entry is settled, and the ledger counts it.
LEMMA SettledOne ==
    ASSUME Shape, NEW n \in Ndx, outcome[n] = "none", NEW v \in {"success", "error"},
           outcome' = [outcome EXCEPT ![n] = v], completed = Cardinality(Settled), completed' = completed + 1
    PROVE  /\ completed' = Cardinality(Settled') /\ Settled' = Settled \cup {n}
           /\ outcome' \in [Ndx -> {"none", "success", "error"}]
           /\ outcome'[n] = v /\ \A x \in Ndx : x # n => outcome'[x] = outcome[x]
  <1>1. outcome' \in [Ndx -> {"none", "success", "error"}]
        /\ outcome'[n] = v /\ \A x \in Ndx : x # n => outcome'[x] = outcome[x]
    BY DEF Shape
  <1>2. Settled' = Settled \cup {n} /\ n \notin Settled
    BY <1>1 DEF Settled
  <1>3. Cardinality(Settled \cup {n}) = Cardinality(Settled) + 1
    BY <1>2, Counts, FS_AddElement
  <1> QED
    BY <1>1, <1>2, <1>3

\* Leaving the loop, or not.
Halts(q) ==
    q \in {<<>>, <<Command("AbortFile", 0, 0)>>, <<Command("Shutdown", 0, 0)>>,
           <<Command("AbortFile", 0, 0), Command("Shutdown", 0, 0)>>}

LEMMA Halted ==
    ASSUME NEW q, Halts(q)
    PROVE  Commands(q) /\ About(q, Commits) = {} /\ About(q, Begins) = {}
  <1> DEFINE a == Command("AbortFile", 0, 0)
             s == Command("Shutdown", 0, 0)
  <1>1. /\ a.type \in Stops /\ a.type \notin Commits /\ a.type \notin Begins
        /\ s.type \in Stops /\ s.type \notin Commits /\ s.type \notin Begins
    BY DEF Command, Stops, Commits, Begins
  <1>2. <<a, s>> = Append(<<a>>, s)
    OBVIOUS
  <1> HIDE DEF a, s
  <1>3. OfDisk(a) /\ OfDisk(s)
    BY <1>1 DEF OfDisk, Stops
  <1>4. CASE q = <<>>
    BY <1>4, CommandNone
  <1>5. CASE q = <<a>>
    BY <1>1, <1>3, <1>5, CommandOne
  <1>6. CASE q = <<s>>
    BY <1>1, <1>3, <1>6, CommandOne
  <1>7. CASE q = <<a, s>>
    <2>1. Commands(Append(<<a>>, s)) /\ About(Append(<<a>>, s), Commits) = {} /\ About(Append(<<a>>, s), Begins) = {}
      BY <1>1, <1>3, CommandTwo
    <2> QED
      BY <1>2, <1>7, <2>1
  <1> QED
    BY <1>4, <1>5, <1>6, <1>7 DEF Halts, a, s

LEMMA Advanced ==
    ASSUME NEW cmds \in {<<>>, <<Command("AbortFile", 0, 0)>>}, UNCHANGED decision,
           Advance(doneSeen', completed', requested', cmds),
           requested' = Cardinality(Requests'), completed' = Cardinality(Settled')
    PROVE  /\ Ledger' /\ rPhase' \in {"Loop", "Drain"}
           /\ Commands(toDisk)' /\ Closing' = {} /\ Beginning' = {}
  <1>1. /\ rPhase' \in {"Loop", "Drain"}
        /\ rPhase' = "Drain" => doneSeen' /\ completed' >= requested'
        /\ toDisk' = cmds \/ toDisk' = Append(cmds, Command("Shutdown", 0, 0))
    BY DEF Advance, IsComplete
  <1>2. Ledger'
    BY <1>1 DEF Ledger
  <1>3. /\ Append(<<>>, Command("Shutdown", 0, 0)) = <<Command("Shutdown", 0, 0)>>
        /\ Append(<<Command("AbortFile", 0, 0)>>, Command("Shutdown", 0, 0))
             = <<Command("AbortFile", 0, 0), Command("Shutdown", 0, 0)>>
    <2>1. ASSUME NEW a, NEW b PROVE Append(<<>>, b) = <<b>> /\ Append(<<a>>, b) = <<a, b>>
      <3>1. Append(<<>>, b) = <<b>>
        OBVIOUS
      <3>2. <<a, b>> = Append(<<a>>, b)
        OBVIOUS
      <3> QED
        BY <3>1, <3>2
    <2> QED
      BY <2>1
  <1>4. PICK q : toDisk' = q /\ Halts(q)
    BY <1>1, <1>3 DEF Halts
  <1>5. UNCHANGED <<Links, Markers, Plain>>
    BY Unmoved
  <1> QED
    BY <1>1, <1>2, <1>4, <1>5, Halted, Issued

LEMMA ConfigKeeps == ASSUME IInv, RConfig PROVE IInv'
  <1>1. /\ rPhase = "Config" /\ conn
        /\ UNCHANGED <<conn, data, back, acks, sender, requested, completed, doneSeen, terminated, outcome, active,
                       toDisk, dcq, dc, dcAcks, published>>
    BY DEF RConfig, rLedger, disk
  <1>2. CASE ctl # <<>> /\ Head(ctl).type = "SessionConfig" /\ ctl' = Tail(ctl) /\ rPhase' = "Loop" /\ UNCHANGED <<list, decision>>
    <2>1. UNCHANGED <<completedPaths, job, Working, Underway, Links, Markers, Plain, Requests>>
      BY <1>1, <1>2, LoopAlone
    <2>2. /\ BackOk' /\ AcksOk' /\ DataOk' /\ Commands(toDisk)' /\ Commands(dcq)' /\ DcAcksOk'
          /\ UNCHANGED <<Asked, Informed, Redoing, Told, Ending, InData, Opening, Closing, Beginning, Queued, Awaiting,
                         Good, Bad, Broken>>
      BY <1>1, <1>2, QueuesStay, Unmoved DEF IInv
    <2>3. CtlOk' /\ Finished' \subseteq Finished /\ Failing' = Failing
      BY <1>2, CtlTaken DEF IInv, Queues
    <2>4. Entries'
      <3> SUFFICES ASSUME NEW n \in Ndx PROVE Entry(n)'
        BY DEF Entries
      <3>1. Entry(n)
        BY DEF IInv, Entries
      <3> QED
        BY <1>1, <2>1, <2>2, <2>3, <3>1, Still
    <2>5. Ledger'
      BY <1>1, <1>2, <2>1, Unmoved DEF IInv, Ledger
    <2> QED
      BY <1>1, <1>2, <2>2, <2>3, <2>4, <2>5, LoopStep DEF IInv, Shape
  <1>3. CASE /\ list # <<>> /\ list' = Tail(list) /\ UNCHANGED <<ctl, rPhase>>
             /\ decision' = [n \in Ndx |-> IF n \in Listed(Head(list)) THEN "lost" ELSE decision[n]]
    <2>1. \A n \in Ndx : IF n \in Listed(Head(list)) THEN decision'[n] = "lost" ELSE decision'[n] = decision[n]
      BY <1>3
    <2>2. UNCHANGED <<advPos, job, completedPaths>>
      BY <1>1 DEF sender, sLedger
    <2>3. ListOk'
      BY <1>3, <2>2, ListTaken DEF IInv
    <2>4. /\ AllDecided => AllDecided'
          /\ \A k \in 1..Len(Pages) :
                 /\ Ahead(k)' => \A n \in Pages[k] : decision'[n] = "none"
                 /\ conn /\ ~Ahead(k)' => \A n \in Pages[k] : decision'[n] # "none"
      BY <1>1, <1>3, <2>1, <2>2, PagesTaken DEF IInv
    <2>5. \A n \in Ndx : decision[n] \in {"none", "lost"} /\ decision'[n] \in {"none", "lost"}
      BY <1>1, <2>1 DEF IInv, Paged
    <2>6. UNCHANGED <<Links, Markers, Plain, Requests>>
      BY <2>5 DEF Links, Markers, Plain, Requests, Wanted
    <2>7. /\ Queues'
          /\ UNCHANGED <<Asked, Informed, Redoing, Told, Ending, InData, Opening, Closing, Beginning, Queued, Awaiting,
                         Good, Bad, Broken, Failing, Finished, Working, Underway>>
      BY <1>1, <1>3, <2>2, <2>6, QueuesStay, Unmoved DEF IInv, Queues
    <2>8. Paged'
      BY <1>1, <2>4, <2>5, <2>7 DEF IInv, Paged
    <2>9. Shape'
      <3>1. decision' \in [Ndx -> Classes \cup {"none", "lost"}]
        BY <1>3 DEF IInv, Shape
      <3> QED
        BY <1>1, <2>2, <2>6, <3>1 DEF IInv, Shape, Busy
    <2>10. Ledger'
      BY <1>1, <1>3, <2>6, Unmoved DEF IInv, Ledger
    <2>11. Entries'
      <3> SUFFICES ASSUME NEW n \in Ndx PROVE Entry(n)'
        BY DEF Entries
      <3>1. Entry(n)
        BY DEF IInv, Entries
      <3> QED
        BY <1>1, <2>2, <2>6, <2>7, <3>1, Still
    <2> QED
      BY <2>3, <2>7, <2>8, <2>9, <2>10, <2>11 DEF IInv
  <1> QED
    BY <1>2, <1>3 DEF RConfig, Is

\* The end of the list: every entry is decided.
LEMMA ListDoneKeeps == ASSUME IInv, RListDone PROVE IInv'
  <1>1. /\ list # <<>> /\ Head(list).type = "FileListDone" /\ list' = Tail(list) /\ conn
        /\ back' = Append(back, Msg("RequestsDone", 0))
        /\ UNCHANGED <<conn, ctl, data, acks, sender, rPhase, decision, requested, completed, doneSeen, terminated,
                       outcome, active, toDisk, dcq, dc, dcAcks, published>>
    BY DEF RListDone, Is, receiver, rLedger, disk
  <1>2. UNCHANGED <<advPos, job, completedPaths, Working, Underway, Links, Markers, Plain, Requests>>
    BY <1>1, LoopAlone DEF sender, sLedger
  <1>3. ListOk'
    BY <1>1, <1>2, ListTaken DEF IInv
  <1>4. Listed(Head(list)) = {}
    BY <1>1 DEF Listed
  <1>5. /\ AllDecided
        /\ \A k \in 1..Len(Pages) :
                 /\ Ahead(k)' => \A n \in Pages[k] : decision'[n] = "none"
                 /\ conn /\ ~Ahead(k)' => \A n \in Pages[k] : decision'[n] # "none"
    BY <1>1, <1>2, <1>4, PagesTaken DEF IInv
  <1>6. Paged'
    BY <1>1, <1>5 DEF IInv, Paged, AllDecided
  <1>7. Msg("RequestsDone", 0).type \notin Requested
    BY DEF Msg, Requested
  <1>8. IsSeq(back') /\ Asked' = Asked /\ Solo(back', Requested)
    <2> PICK m : m = Msg("RequestsDone", 0)
      OBVIOUS
    <2>1. IsSeq(back) /\ Solo(back, Requested) /\ back' = Append(back, m) /\ m.type \notin Requested
      BY <1>1, <1>7 DEF IInv, Queues, BackOk
    <2>2. IsSeq(Append(back, m))
      BY <2>1, AppendOf
    <2>3. About(Append(back, m), Requested) = About(back, Requested) \cup (IF m.type \in Requested THEN {m.n} ELSE {})
          /\ (Solo(back, Requested) /\ (m.type \in Requested => m.n \notin About(back, Requested))
                => Solo(Append(back, m), Requested))
      BY <2>1, AddedTo
    <2> QED
      BY <2>1, <2>2, <2>3 DEF Asked, Requested
  <1>9. BackOk'
    BY <1>2, <1>8 DEF IInv, Queues, BackOk, Requested
  <1>10. /\ Queues'
         /\ UNCHANGED <<Redoing, Told, Ending, InData, Opening, Closing, Beginning, Queued, Awaiting,
                        Good, Bad, Broken, Failing>>
    BY <1>1, <1>9, QueuesStay, Unmoved DEF IInv, Queues
  <1>11. Shape'
    BY <1>1, <1>2 DEF IInv, Shape, Busy
  <1>12. Ledger'
    BY <1>1, LedgerStays DEF IInv
  <1>13. Entries'
    <2> SUFFICES ASSUME NEW n \in Ndx PROVE Entry(n)'
      BY DEF Entries
    <2>1. Entry(n)
      BY DEF IInv, Entries
    <2> QED
      BY <1>1, <1>2, <1>8, <1>10, <2>1, Still
  <1> QED
    BY <1>3, <1>6, <1>10, <1>11, <1>12, <1>13 DEF IInv

\* The loop gives up.
LEMMA FailKeeps == ASSUME IInv, RFail PROVE IInv'
  <1> DEFINE stop == <<Command("AbortFile", 0, 0), Command("Shutdown", 0, 0)>>
  <1>1. /\ Silence /\ active' = Idle /\ rPhase' = "Abort" /\ toDisk' = stop /\ toDisk = <<>>
        /\ UNCHANGED <<sender, decision, requested, completed, doneSeen, terminated, outcome, dcq, dc, dcAcks, published>>
    BY DEF RFail, Abort, Silence, AtSelect, rLedger, disk
  <1>2. UNCHANGED <<advPos, job, completedPaths, Underway, Links, Markers, Plain, Requests>>
    BY <1>1, Unmoved DEF sender, sLedger
  <1>3. Halts(stop)
    BY DEF Halts
  <1> HIDE DEF stop
  <1>4. Commands(toDisk)' /\ Closing' = {} /\ Beginning' = {}
    BY <1>1, <1>2, <1>3, Halted, Issued
  <1>5. Shape'
    <2>1. Idle = [mode |-> Idle.mode, n |-> Idle.n]
      BY DEF Idle
    <2> QED
      BY <1>1, <1>2, <2>1 DEF IInv, Shape, Silence, Busy
  <1>6. Queues' /\ UNCHANGED <<Queued, Awaiting, Good, Bad, Broken>>
    BY <1>1, <1>4, Silenced, QueuesStay, Unmoved DEF IInv, Queues
  <1>7. Ledger'
    BY <1>1, <1>2, Unmoved DEF IInv, Ledger
  <1>8. Entries'
    <2> SUFFICES ASSUME NEW n \in Ndx PROVE Entry(n)'
      BY DEF Entries
    <2>1. Entry(n)
      BY DEF IInv, Entries
    <2> QED
      BY <1>1, <1>2, <1>4, <1>6, <2>1, Silenced, Still
  <1>9. ListOk' /\ Paged'
    BY <1>1, <1>2, PagesSilenced DEF IInv
  <1> QED
    BY <1>5, <1>6, <1>7, <1>8, <1>9 DEF IInv

\* The loop is over, or never began.
LEMMA FinishKeeps == ASSUME IInv, RFinish \/ RConfigLost PROVE IInv'
  <1>1. /\ UNCHANGED <<conn, ctl, list, data, back, sender, decision, requested, completed, doneSeen, terminated,
                       outcome, active, toDisk, dcq, dc, dcAcks, published>>
        /\ rPhase' # "Config"
        /\ rPhase' \in {"Drain", "Done"} => rPhase \in {"Drain", "Done"}
        /\ acks' = acks \/ acks' = Sent(acks, Msg("AllDone", 0))
    BY DEF RFinish, RConfigLost, net, rLedger, disk
  <1>2. UNCHANGED <<completedPaths, job, Working, Underway, Links, Markers, Plain, Requests>>
    BY <1>1, LoopAlone
  <1>3. /\ CtlOk' /\ BackOk' /\ DataOk' /\ Commands(toDisk)' /\ Commands(dcq)' /\ DcAcksOk'
        /\ UNCHANGED <<Asked, Informed, Ending, InData, Opening, Closing, Beginning, Queued, Awaiting,
                       Good, Bad, Broken, Failing, Finished>>
    BY <1>1, QueuesStay, Unmoved DEF IInv
  <1>4. AcksOk' /\ Redoing' = Redoing /\ Told' = Told
    <2>1. CASE acks' = acks
      BY <1>1, <2>1, QueuesStay, Unmoved DEF IInv
    <2>2. CASE acks' = Sent(acks, Msg("AllDone", 0))
      <3>1. Msg("AllDone", 0).type \notin {"Redo", "Success"}
        BY DEF Msg
      <3> QED
        BY <1>1, <2>2, <3>1, AcksSent DEF IInv, Queues
    <2> QED
      BY <1>1, <2>1, <2>2
  <1>5. Entries'
    <2> SUFFICES ASSUME NEW n \in Ndx PROVE Entry(n)'
      BY DEF Entries
    <2>1. Entry(n)
      BY DEF IInv, Entries
    <2> QED
      BY <1>1, <1>2, <1>3, <1>4, <2>1, Still
  <1>6. Ledger'
    BY <1>1, <1>2, Unmoved DEF IInv, Ledger
  <1> QED
    BY <1>1, <1>3, <1>4, <1>5, <1>6, LoopStep DEF IInv, Shape

-----------------------------------------------------------------------------
(* The receiver's loop: the Data stream.                                   *)

LEMMA DataEffect ==
    ASSUME IInv, NEW t, Data(t)
    PROVE  /\ toDisk = <<>> /\ Closing = {} /\ Beginning = {} /\ rPhase = "Loop" /\ conn
           /\ Head(data).type = t /\ Head(data).n \in InData /\ OfData(Head(data)) /\ Head(data).n \in Ndx
           /\ UNCHANGED <<conn, list, sender, decision, dc, published>>
           /\ UNCHANGED <<completedPaths, job, Working, Underway, Links, Markers, Plain, Requests>>
           /\ CtlOk' /\ BackOk' /\ DataOk' /\ Commands(dcq)' /\ DcAcksOk'
           /\ UNCHANGED <<Asked, Informed, Queued, Awaiting, Good, Bad, Broken, Failing, Finished>>
           /\ acks' = acks => AcksOk' /\ UNCHANGED <<Redoing, Told>>
           /\ InData' \subseteq InData /\ InData \subseteq InData' \cup {Head(data).n}
           /\ Opening' \subseteq Opening /\ Head(data).n \notin Opening'
           /\ t # "FileBegin" => Head(data).n \notin Opening
           /\ t \notin Ends => Ending' = Ending
           /\ t \in Ends => /\ Head(data).n \in Ending /\ Ending' = Ending \ {Head(data).n}
                            /\ Head(data).n \notin InData'
  <1>1. /\ toDisk = <<>> /\ rPhase = "Loop" /\ conn /\ data # <<>> /\ Head(data).type = t /\ data' = Tail(data)
        /\ UNCHANGED <<conn, ctl, list, back, sender, decision, dcq, dc, dcAcks, published>>
    BY DEF Data, AtSelect, Is, disk
  <1>2. Closing = {} /\ Beginning = {}
    BY <1>1, EmptyOf DEF Closing, Beginning
  <1>3. UNCHANGED <<completedPaths, job, Working, Underway, Links, Markers, Plain, Requests>>
    BY <1>1, LoopAlone
  <1>4. /\ CtlOk' /\ BackOk' /\ Commands(dcq)' /\ DcAcksOk'
        /\ UNCHANGED <<Asked, Informed, Queued, Awaiting, Good, Bad, Broken, Failing, Finished>>
        /\ acks' = acks => AcksOk' /\ UNCHANGED <<Redoing, Told>>
    BY <1>1, QueuesStay, Unmoved DEF IInv
  <1>5. /\ DataOk' /\ OfData(Head(data)) /\ Head(data).n \in InData
        /\ InData' \subseteq InData /\ InData \subseteq InData' \cup {Head(data).n}
        /\ Opening' \subseteq Opening
        /\ Head(data).n \notin Opening'
        /\ Head(data).type # "FileBegin" => Head(data).n \notin Opening
        /\ Head(data).type \notin Ends => Ending' = Ending
        /\ Head(data).type \in Ends => /\ Head(data).n \in Ending /\ Ending' = Ending \ {Head(data).n}
                                       /\ Head(data).n \notin InData'
    BY <1>1, DataTaken DEF IInv, Queues
  <1>6. Head(data).n \in Ndx
    BY <1>5 DEF OfData, Links, Markers, Plain
  <1> QED
    BY <1>1, <1>2, <1>3, <1>4, <1>5, <1>6

\* A file whose data arrive before it is settled is being transferred, and has
\* left no mark unless it is the active one.
LEMMA Arriving ==
    ASSUME IInv, NEW n \in Plain, n \in InData, n \notin terminated
    PROVE  /\ n \in Working \cup Ending \cup Failing
           /\ n \notin Asked \cup Redoing \cup Good \cup Bad \cup published
           /\ outcome[n] = "none"
           /\ active.n # n => n \notin Marked
  <1>1. Entry(n) /\ n \notin Links
    BY DEF IInv, Entries, Plain, Links
  <1>2. n \in Working \cup Ending \cup Failing
    BY <1>1 DEF Entry, Begun
  <1>3. n \notin Asked \cup Redoing \cup Good \cup Bad
    BY <1>1, <1>2 DEF Entry, OnePlace
  <1>4. n \notin published
    BY <1>1, <1>2, <1>3 DEF Entry, Lasting, Held
  <1>5. outcome[n] = "none"
    BY <1>1 DEF Entry, Booked
  <1>6. active.n # n => n \notin Marked
    BY <1>1 DEF Entry, Begun, Shut
  <1> QED
    BY <1>2, <1>3, <1>4, <1>5, <1>6

LEMMA Forwards ==
    ASSUME IInv, NEW t, Data(t), UNCHANGED <<acks, rPhase, rLedger>>, Commands(toDisk)',
           NEW n, n = Head(data).n,
           active' = [mode |-> active'.mode, n |-> active'.n], active' # Idle => active'.n \in Plain,
           \/ active'.n = active.n
           \/ active.n \in {0, n} /\ (active'.n = n \/ t \in Ends),
           Closing' \subseteq {n}, Closing' # {} => t \in Ends,
           Beginning' \subseteq {n},
           Beginning' # {} => n \in Plain \ terminated /\ active.n # n /\ (active'.n = n \/ t \in Ends)
    PROVE  IInv'
  <1>1. /\ Closing = {} /\ Beginning = {} /\ n \in InData /\ n \in Ndx
        /\ UNCHANGED <<conn, list, sender, decision, dc, published>>
        /\ UNCHANGED <<completedPaths, job, Working, Underway, Links, Markers, Plain, Requests>>
        /\ CtlOk' /\ BackOk' /\ AcksOk' /\ DataOk' /\ Commands(dcq)' /\ DcAcksOk'
        /\ UNCHANGED <<Asked, Informed, Queued, Awaiting, Good, Bad, Broken, Failing, Finished, Redoing, Told>>
    BY DataEffect
  <1>2. /\ InData' \subseteq InData /\ InData \subseteq InData' \cup {n}
        /\ Opening' \subseteq Opening /\ n \notin Opening'
        /\ t \notin Ends => Ending' = Ending
        /\ t \in Ends => n \in Ending /\ Ending' = Ending \ {n} /\ n \notin InData'
    BY DataEffect
  <1>3. UNCHANGED <<requested, completed, doneSeen, terminated, outcome>>
    BY DEF rLedger
  <1>4. Ledger'
    BY <1>1, <1>3, LedgerStays DEF IInv
  <1>5. ASSUME NEW x \in Ndx, x # n PROVE Entry(x)'
    <2>1. Entry(x) /\ x # 0
      BY NdxAssumption DEF IInv, Entries
    <2>2. active.n = x => active'.n = x
      BY <1>5, <2>1
    <2>3. x \notin Closing' /\ x \notin Beginning'
      BY <1>5
    <2> QED
      BY <1>1, <1>2, <1>3, <1>5, <2>1, <2>2, <2>3, Still
  <1>6. Entry(n)'
    <2>1. Entry(n)
      BY <1>1 DEF IInv, Entries
    <2>2. t \in Ends => n \notin Working \cup Asked \cup Queued \cup Good \cup Bad \cup Redoing \cup Failing
      BY <1>2, <2>1 DEF Entry, OnePlace
    <2>3. OnePlace(n)'
      BY <1>1, <1>2, <2>1, <2>2 DEF Entry, OnePlace
    <2>4. n \in Beginning' => n \notin Marked /\ n \notin published /\ outcome[n] = "none"
                              /\ n \notin Asked \cup Redoing \cup Good \cup Bad
      BY <1>1, Arriving
    <2>5. OneMark(n)'
      BY <1>1, <2>1, <2>4 DEF Entry, OneMark, Marked
    <2>6. n \in Marked' => n \in Marked \/ n \in Beginning'
      BY <1>1 DEF Marked
    <2>7. Shut(n) => Shut(n)'
      BY <1>1, <1>2, <1>3, <2>2 DEF Shut
    <2>8. n \in Beginning' => Shut(n)'
      BY <1>1, <1>2, <2>2 DEF Shut
    <2>9. Begun(n)'
      BY <1>1, <1>2, <1>3, <2>1, <2>4, <2>6, <2>7, <2>8 DEF Entry, Begun
    <2>10. n \in Held' => n \in Held
      BY <1>1, <1>2 DEF Held
    <2>11. Lasting(n)'
      <3>1. CASE n \in Beginning'
        BY <1>1, <1>3, <2>4, <3>1 DEF Lasting, Marked
      <3>2. CASE n \notin Beginning'
        BY <1>1, <1>3, <2>1, <2>10, <3>2 DEF Entry, Lasting
      <3> QED
        BY <3>1, <3>2
    <2>12. Booked(n)'
      BY <1>1, <1>3, <2>1, <2>10 DEF Entry, Booked
    <2> QED
      BY <2>3, <2>5, <2>9, <2>11, <2>12 DEF Entry
  <1>7. Entries'
    BY <1>5, <1>6 DEF Entries
  <1> QED
    BY <1>1, <1>3, <1>4, <1>7, LoopStep DEF IInv, Shape

\* Commands about a file, and the commands that leave no mark.
LEMMA OneFileCommand ==
    ASSUME NEW n, NEW k, NEW c, c = "WriteDeleteMarker" => n \in Markers, c # "WriteDeleteMarker" => n \in Plain
    PROVE  /\ Commands(<<Command(c, n, k)>>)
           /\ About(<<Command(c, n, k)>>, Commits) = IF c \in Commits THEN {n} ELSE {}
           /\ About(<<Command(c, n, k)>>, Begins) = IF c \in Begins THEN {n} ELSE {}
           /\ OfDisk(Command(c, n, k)) /\ Command(c, n, k).type = c /\ Command(c, n, k).n = n
  <1> DEFINE m == Command(c, n, k)
  <1>1. m.type = c /\ m.n = n
    BY DEF Command
  <1> HIDE DEF m
  <1>2. OfDisk(m)
    BY <1>1 DEF OfDisk
  <1>3. Commands(<<m>>) /\ \A T \in {Commits, Begins} : About(<<m>>, T) = IF m.type \in T THEN {m.n} ELSE {}
    BY <1>2, CommandOne
  <1> QED
    BY <1>1, <1>2, <1>3 DEF m

\* A delta command, begun by the way when no transfer is active.
LEMMA DeltaCommands ==
    ASSUME NEW n \in Plain, NEW k, NEW c \in {"DeltaMatch", "DeltaData", "DeltaCommit"}
    PROVE  LET q == Append(DeltaBegin(n), Command(c, n, k)) IN
           /\ Commands(q) /\ About(q, Commits) = (IF c \in Commits THEN {n} ELSE {})
           /\ About(q, Begins) = (IF active = Idle THEN {n} ELSE {})
  <1> DEFINE b == Command("DeltaBegin", n, 0)
             m == Command(c, n, k)
  <1>1. /\ OfDisk(b) /\ b.type = "DeltaBegin" /\ b.n = n /\ OfDisk(m) /\ m.type = c /\ m.n = n
        /\ Commands(<<m>>) /\ About(<<m>>, Commits) = (IF c \in Commits THEN {n} ELSE {})
        /\ About(<<m>>, Begins) = (IF c \in Begins THEN {n} ELSE {})
    <2>1. c # "WriteDeleteMarker" /\ "DeltaBegin" # "WriteDeleteMarker"
      OBVIOUS
    <2>2. OfDisk(b)
      BY <2>1, OneFileCommand
    <2>3. b.type = "DeltaBegin" /\ b.n = n /\ m.type = c /\ m.n = n
      BY DEF Command
    <2>4. /\ OfDisk(m) /\ Commands(<<m>>) /\ About(<<m>>, Commits) = (IF c \in Commits THEN {n} ELSE {})
          /\ About(<<m>>, Begins) = (IF c \in Begins THEN {n} ELSE {})
      BY <2>1, OneFileCommand
    <2> QED
      BY <2>2, <2>3, <2>4
  <1>2. Append(<<>>, m) = <<m>> /\ c \notin Begins
    BY DEF Begins
  <1> HIDE DEF b, m
  <1>3. b.type \notin Commits /\ b.type \in Begins /\ m.type \notin Begins
    BY <1>1, <1>2 DEF Commits, Begins
  <1>4. /\ Commands(Append(<<b>>, m))
        /\ About(Append(<<b>>, m), Commits) = IF m.type \in Commits THEN {m.n} ELSE {}
        /\ About(Append(<<b>>, m), Begins) = IF b.type \in Begins THEN {b.n} ELSE {}
    BY <1>1, <1>3, CommandTwo
  <1>5. DeltaBegin(n) = IF active = Idle THEN <<b>> ELSE <<>>
    BY DEF DeltaBegin, b
  <1>6. CASE active = Idle
    BY <1>1, <1>3, <1>4, <1>5, <1>6 DEF m
  <1>7. CASE active # Idle
    BY <1>1, <1>2, <1>5, <1>7 DEF m
  <1> QED
    BY <1>6, <1>7

LEMMA Modes ==
    /\ Idle = [mode |-> Idle.mode, n |-> Idle.n] /\ Idle.n = 0
    /\ \A n : \A d \in {"full", "delta"} : LET a == [mode |-> d, n |-> n] IN
          a = [mode |-> a.mode, n |-> a.n] /\ a.n = n
    /\ \A n : DeltaActive(n) = [mode |-> "delta", n |-> n]
    /\ \A n \in Plain : n # 0
  BY NdxAssumption DEF Idle, DeltaActive, Plain

LEMMA FileBeginKeeps == ASSUME IInv, RFileBegin PROVE IInv'
  <1> DEFINE n == Head(data).n
  <1>1. Data("FileBegin") /\ UNCHANGED <<acks, rPhase, rLedger>>
    BY DEF RFileBegin
  <1>2. n \in Plain /\ n # 0 /\ UNCHANGED <<Links, Markers, Plain>> /\ toDisk = <<>>
        /\ active = [mode |-> active.mode, n |-> active.n] /\ (active # Idle => active.n \in Plain)
    BY <1>1, DataEffect, Modes DEF OfData, IInv, Shape
  <1>3. CASE UNCHANGED <<active, toDisk>>
    <2>1. Commands(toDisk)' /\ Closing' = {} /\ Beginning' = {}
      BY <1>2, <1>3, CommandNone, Issued
    <2> QED
      BY <1>1, <1>2, <1>3, <2>1, Forwards
  <1>4. CASE /\ n \notin terminated /\ active = Idle
             /\ active' = [mode |-> "full", n |-> n] /\ toDisk' = <<Command("FileBegin", n, 0)>>
    <2> HIDE DEF n
    <2>1. /\ Commands(<<Command("FileBegin", n, 0)>>)
          /\ About(<<Command("FileBegin", n, 0)>>, Commits) = {}
          /\ About(<<Command("FileBegin", n, 0)>>, Begins) = {n}
      <3>1. "FileBegin" \notin Commits /\ "FileBegin" \in Begins
        BY DEF Commits, Begins
      <3> QED
        BY <1>2, <3>1, OneFileCommand
    <2>2. Commands(toDisk)' /\ Closing' = {} /\ Beginning' = {n}
      BY <1>2, <1>4, <2>1, Issued
    <2>3. active' = [mode |-> active'.mode, n |-> active'.n] /\ active'.n = n /\ active.n = 0
      BY <1>4, Modes
    <2> QED
      BY <1>1, <1>2, <1>4, <2>2, <2>3, Forwards DEF n
  <1> QED
    BY <1>3, <1>4 DEF RFileBegin

LEMMA FileDataKeeps == ASSUME IInv, RFileData PROVE IInv'
  <1> DEFINE n == Head(data).n
  <1>1. Data("FileData") /\ UNCHANGED <<acks, rPhase, rLedger, active>>
        /\ (toDisk' = <<>> \/ toDisk' = <<Command("FileChunk", n, 0)>>)
    BY DEF RFileData
  <1>2. n \in Plain /\ n # 0 /\ UNCHANGED <<Links, Markers, Plain>>
        /\ active = [mode |-> active.mode, n |-> active.n] /\ (active # Idle => active.n \in Plain)
    BY <1>1, DataEffect, Modes DEF OfData, IInv, Shape
  <1> HIDE DEF n
  <1>3. Commands(toDisk)' /\ Closing' = {} /\ Beginning' = {}
    <2>1. CASE toDisk' = <<>>
      BY <1>2, <2>1, CommandNone, Issued
    <2>2. CASE toDisk' = <<Command("FileChunk", n, 0)>>
      <3>1. /\ Commands(<<Command("FileChunk", n, 0)>>)
            /\ About(<<Command("FileChunk", n, 0)>>, Commits) = {}
            /\ About(<<Command("FileChunk", n, 0)>>, Begins) = {}
        BY <1>2, OneFileCommand DEF Commits, Begins
      <3> QED
        BY <1>2, <2>2, <3>1, Issued
    <2> QED
      BY <1>1, <2>1, <2>2
  <1> QED
    BY <1>1, <1>2, <1>3, Forwards DEF n

LEMMA DeltaTokenKeeps == ASSUME IInv, RDeltaToken PROVE IInv'
  <1> DEFINE n == Head(data).n
  <1>1. PICK t \in {"DeltaMatch", "DeltaData"} :
          /\ Data(t) /\ UNCHANGED <<acks, rPhase, rLedger>>
          /\ IF DeltaOk(n)
               THEN /\ active' = DeltaActive(n)
                    /\ toDisk' = Append(DeltaBegin(n), Command(t, n, 0))
               ELSE UNCHANGED <<active, toDisk>>
    BY DEF RDeltaToken
  <1>2. n \in Plain /\ n # 0 /\ UNCHANGED <<Links, Markers, Plain>> /\ toDisk = <<>>
        /\ active = [mode |-> active.mode, n |-> active.n] /\ (active # Idle => active.n \in Plain)
    BY <1>1, DataEffect, Modes DEF OfData, IInv, Shape
  <1> HIDE DEF n
  <1>3. CASE ~DeltaOk(n)
    <2>1. Commands(toDisk)' /\ Closing' = {} /\ Beginning' = {}
      BY <1>1, <1>2, <1>3, CommandNone, Issued
    <2> QED
      BY <1>1, <1>2, <1>3, <2>1, Forwards DEF n
  <1>4. CASE DeltaOk(n)
    <2>1. LET q == Append(DeltaBegin(n), Command(t, n, 0)) IN
             Commands(q) /\ About(q, Commits) = {} /\ About(q, Begins) = (IF active = Idle THEN {n} ELSE {})
      BY <1>2, DeltaCommands DEF Commits
    <2>2. Commands(toDisk)' /\ Closing' = {} /\ Beginning' = (IF active = Idle THEN {n} ELSE {})
      BY <1>1, <1>2, <1>4, <2>1, Issued
    <2>3. /\ active' = [mode |-> active'.mode, n |-> active'.n] /\ active'.n = n
          /\ active = Idle => active.n = 0
          /\ active # Idle => active.n = n
          /\ n \notin terminated
      BY <1>1, <1>4, Modes DEF DeltaOk
    <2> QED
      BY <1>1, <1>2, <2>2, <2>3, Forwards DEF n
  <1> QED
    BY <1>3, <1>4

LEMMA EndOfFileKeeps == ASSUME IInv, REndOfFile PROVE IInv'
  <1> DEFINE n == Head(data).n
             k == Head(data).k
  <1>1. /\ Data("EndOfFile") /\ UNCHANGED <<acks, rPhase, rLedger>>
        /\ \/ CommitsFull(n) /\ active' = Idle /\ toDisk' = <<Command("FileCommit", n, k)>>
           \/ DeltaOk(n) /\ active' = Idle /\ toDisk' = Append(DeltaBegin(n), Command("DeltaCommit", n, k))
           \/ UNCHANGED <<active, toDisk>>
    BY DEF REndOfFile, CommitFull, CommitDelta
  <1>2. n \in Plain /\ n # 0 /\ UNCHANGED <<Links, Markers, Plain>> /\ toDisk = <<>> /\ "EndOfFile" \in Ends
        /\ active = [mode |-> active.mode, n |-> active.n] /\ (active # Idle => active.n \in Plain)
    BY <1>1, DataEffect, Modes DEF OfData, Ends, IInv, Shape
  <1> HIDE DEF n, k
  <1>3. CASE CommitsFull(n) /\ active' = Idle /\ toDisk' = <<Command("FileCommit", n, k)>>
    <2>1. /\ Commands(<<Command("FileCommit", n, k)>>)
          /\ About(<<Command("FileCommit", n, k)>>, Commits) = {n}
          /\ About(<<Command("FileCommit", n, k)>>, Begins) = {}
      <3>1. "FileCommit" \in Commits /\ "FileCommit" \notin Begins
        BY DEF Commits, Begins
      <3> QED
        BY <1>2, <3>1, OneFileCommand
    <2>2. Commands(toDisk)' /\ Closing' = {n} /\ Beginning' = {}
      BY <1>2, <1>3, <2>1, Issued
    <2>3. active' = [mode |-> active'.mode, n |-> active'.n] /\ active.n = n
      BY <1>3, Modes DEF CommitsFull
    <2> QED
      BY <1>1, <1>2, <1>3, <2>2, <2>3, Forwards DEF n
  <1>4. CASE DeltaOk(n) /\ active' = Idle /\ toDisk' = Append(DeltaBegin(n), Command("DeltaCommit", n, k))
    <2>1. LET q == Append(DeltaBegin(n), Command("DeltaCommit", n, k)) IN
             Commands(q) /\ About(q, Commits) = {n} /\ About(q, Begins) = (IF active = Idle THEN {n} ELSE {})
      BY <1>2, DeltaCommands DEF Commits
    <2>2. Commands(toDisk)' /\ Closing' = {n} /\ Beginning' = (IF active = Idle THEN {n} ELSE {})
      BY <1>2, <1>4, <2>1, Issued
    <2>3. /\ active' = [mode |-> active'.mode, n |-> active'.n]
          /\ active = Idle => active.n = 0
          /\ active # Idle => active.n = n
          /\ n \notin terminated
      BY <1>4, Modes DEF DeltaOk
    <2> QED
      BY <1>1, <1>2, <1>4, <2>2, <2>3, Forwards DEF n
  <1>5. CASE UNCHANGED <<active, toDisk>>
    <2>1. Commands(toDisk)' /\ Closing' = {} /\ Beginning' = {}
      BY <1>2, <1>5, CommandNone, Issued
    <2> QED
      BY <1>1, <1>2, <1>5, <2>1, Forwards
  <1> QED
    BY <1>1, <1>3, <1>4, <1>5

LEMMA DeleteMarkerKeeps == ASSUME IInv, RDeleteMarker PROVE IInv'
  <1> DEFINE n == Head(data).n
  <1>1. Data("WriteDeleteMarker") /\ UNCHANGED <<acks, rPhase, rLedger, active>>
        /\ toDisk' = <<Command("WriteDeleteMarker", n, 0)>>
    BY DEF RDeleteMarker
  <1>2. n \in Markers /\ UNCHANGED <<Links, Markers, Plain>> /\ "WriteDeleteMarker" \in Ends
        /\ active = [mode |-> active.mode, n |-> active.n] /\ (active # Idle => active.n \in Plain)
    BY <1>1, DataEffect DEF OfData, Ends, IInv, Shape
  <1> HIDE DEF n
  <1>3. /\ Commands(<<Command("WriteDeleteMarker", n, 0)>>)
        /\ About(<<Command("WriteDeleteMarker", n, 0)>>, Commits) = {n}
        /\ About(<<Command("WriteDeleteMarker", n, 0)>>, Begins) = {}
    BY <1>2, OneFileCommand DEF Commits, Begins
  <1>4. Commands(toDisk)' /\ Closing' = {n} /\ Beginning' = {}
    BY <1>1, <1>2, <1>3, Issued
  <1> QED
    BY <1>1, <1>2, <1>4, Forwards DEF n

-----------------------------------------------------------------------------
(* The receiver's loop: verdicts.                                          *)

LEMMA SymlinkKeeps == ASSUME IInv, RSymlink PROVE IInv'
  <1> PICK n : n = Head(data).n
    OBVIOUS
  <1>1. /\ Data("CreateSymlink") /\ completed' = completed + 1
        /\ UNCHANGED <<requested, doneSeen, terminated, active>>
        /\ Advance(doneSeen', completed', requested', <<>>)
    BY DEF RSymlink
  <1>2. PICK ok \in BOOLEAN :
          /\ acks' = Append(acks, Msg(IF ok THEN "Success" ELSE "EntryError", n))
          /\ outcome' = [outcome EXCEPT ![n] = IF ok THEN "success" ELSE "error"]
    BY DEF RSymlink
  <1>3. /\ Closing = {} /\ Beginning = {} /\ n \in InData /\ n \in Ndx /\ conn /\ rPhase = "Loop" /\ n \in Links
        /\ UNCHANGED <<conn, list, sender, decision, dc, published>>
        /\ UNCHANGED <<completedPaths, job, Working, Underway, Links, Markers, Plain, Requests>>
        /\ CtlOk' /\ BackOk' /\ DataOk' /\ Commands(dcq)' /\ DcAcksOk'
        /\ UNCHANGED <<Asked, Informed, Queued, Awaiting, Good, Bad, Broken, Failing, Finished>>
        /\ InData' \subseteq InData /\ InData \subseteq InData' \cup {n}
        /\ Opening' \subseteq Opening /\ n \in Ending /\ Ending' = Ending \ {n} /\ n \notin InData'
    BY <1>1, DataEffect DEF OfData, Ends
  <1> DEFINE m == Msg(IF ok THEN "Success" ELSE "EntryError", n)
             v == IF ok THEN "success" ELSE "error"
  <1>4. m.n = n /\ (IF ok THEN m.type = "Success" ELSE m.type \notin {"Success", "Redo"})
    BY DEF Msg
  <1>5. acks' = Sent(acks, m)
    BY <1>2, <1>3 DEF Sent
  <1>6. v \in {"success", "error"} /\ (ok <=> v = "success")
    OBVIOUS
  <1> HIDE DEF m, v
  <1>7. AcksOk' /\ Redoing' = Redoing /\ Told' \subseteq Told \cup {n} /\ (~ok => Told' = Told)
    BY <1>3, <1>4, <1>5, AcksSent DEF IInv, Queues
  <1>8. Entry(n)
    BY <1>3 DEF IInv, Entries
  <1>9. n \notin Working \cup Asked \cup Queued \cup Good \cup Bad \cup Redoing \cup Failing \cup Closing
    BY <1>3, <1>8 DEF Entry, OnePlace
  <1>10. outcome[n] = "none" /\ n \notin Told \cup completedPaths
    BY <1>3, <1>8 DEF Entry, Booked, Held
  <1>11. /\ completed' = Cardinality(Settled')
         /\ outcome' \in [Ndx -> {"none", "success", "error"}]
         /\ outcome'[n] = v /\ \A x \in Ndx : x # n => outcome'[x] = outcome[x]
    BY <1>1, <1>2, <1>3, <1>6, <1>10, SettledOne DEF IInv, Ledger, v
  <1>12. requested' = Cardinality(Requests')
    BY <1>1, <1>3 DEF IInv, Ledger
  <1>13. /\ Ledger' /\ rPhase' \in {"Loop", "Drain"}
         /\ Commands(toDisk)' /\ Closing' = {} /\ Beginning' = {}
    BY <1>1, <1>3, <1>11, <1>12, Advanced
  <1>14. ASSUME NEW x \in Ndx, x # n PROVE Entry(x)'
    <2>1. Entry(x)
      BY DEF IInv, Entries
    <2> QED
      BY <1>1, <1>3, <1>7, <1>11, <1>13, <1>14, <2>1, Still
  <1>15. Entry(n)'
    <2>1. OnePlace(n)' /\ OneMark(n)'
      BY <1>3, <1>7, <1>8, <1>9, <1>13 DEF Entry, OnePlace, OneMark
    <2>2. n \in Marked' => n \in Marked
      BY <1>3, <1>13 DEF Marked
    <2>3. Begun(n)'
      BY <1>3, <1>7, <1>8, <1>9, <2>2 DEF Entry, Begun, Shut
    <2>4. n \notin Held'
      BY <1>3, <1>7, <1>9, <1>13 DEF Held
    <2>5. Lasting(n)'
      BY <1>3, <1>9, <2>4 DEF Lasting
    <2>6. Booked(n)'
      BY <1>1, <1>3, <1>6, <1>7, <1>8, <1>10, <1>11, <2>4 DEF Entry, Booked, Links, Requests, Wanted
    <2> QED
      BY <2>1, <2>3, <2>5, <2>6 DEF Entry
  <1>16. Entries'
    BY <1>14, <1>15 DEF Entries
  <1> QED
    BY <1>1, <1>3, <1>7, <1>11, <1>13, <1>16, LoopStep DEF IInv, Shape

LEMMA TransferDoneKeeps == ASSUME IInv, RTransferDone PROVE IInv'
  <1>1. /\ ctl # <<>> /\ Head(ctl).type = "TransferDone" /\ ctl' = Tail(ctl) /\ toDisk = <<>>
        /\ doneSeen' = TRUE /\ Advance(doneSeen', completed', requested', <<>>)
        /\ UNCHANGED <<conn, list, data, back, acks, sender, decision, requested, completed, terminated, outcome,
                       active, dcq, dc, dcAcks, published>>
    BY DEF RTransferDone, AtSelect, Is, disk
  <1>2. UNCHANGED <<completedPaths, job, Working, Underway, Links, Markers, Plain, Requests>>
    BY <1>1, LoopAlone
  <1>3. /\ BackOk' /\ AcksOk' /\ DataOk' /\ Commands(dcq)' /\ DcAcksOk'
        /\ UNCHANGED <<Asked, Informed, Redoing, Told, Ending, InData, Opening, Queued, Awaiting,
                       Good, Bad, Broken, Settled>>
    BY <1>1, QueuesStay, Unmoved DEF IInv
  <1>4. CtlOk' /\ Failing' = Failing /\ Finished' \subseteq Finished /\ Finished # {}
    BY <1>1, CtlTaken DEF IInv, Queues
  <1>5. requested' = Cardinality(Requests') /\ completed' = Cardinality(Settled')
    BY <1>1, <1>2, <1>3 DEF IInv, Ledger
  <1>6. /\ Ledger' /\ rPhase' \in {"Loop", "Drain"}
        /\ Commands(toDisk)' /\ Closing' = {} /\ Beginning' = {}
    BY <1>1, <1>5, Advanced
  <1>7. Entries'
    <2> SUFFICES ASSUME NEW n \in Ndx PROVE Entry(n)'
      BY DEF Entries
    <2>1. Entry(n)
      BY DEF IInv, Entries
    <2> QED
      BY <1>1, <1>2, <1>3, <1>4, <1>6, <2>1, Still
  <1> QED
    BY <1>1, <1>3, <1>4, <1>6, <1>7, LoopStep DEF IInv, Shape

LEMMA SourceFailureKeeps == ASSUME IInv, RSourceFailure PROVE IInv'
  <1> PICK n : n = Head(ctl).n
    OBVIOUS
  <1> DEFINE abort == AbortOf(n)
  <1>1. /\ ctl # <<>> /\ Head(ctl).type = "EntryError" /\ ctl' = Tail(ctl) /\ toDisk = <<>> /\ rPhase = "Loop"
        /\ UNCHANGED <<conn, list, data, back, acks, sender, decision, requested, doneSeen,
                       dcq, dc, dcAcks, published>>
    BY DEF RSourceFailure, AtSelect, Is, disk
  <1>2. UNCHANGED <<completedPaths, job, Working, Underway, Links, Markers, Plain, Requests>>
    BY <1>1, LoopAlone
  <1>3. /\ BackOk' /\ AcksOk' /\ DataOk' /\ Commands(dcq)' /\ DcAcksOk'
        /\ UNCHANGED <<Asked, Informed, Redoing, Told, Ending, InData, Opening, Queued, Awaiting,
                       Good, Bad, Broken>>
    BY <1>1, QueuesStay, Unmoved DEF IInv
  <1>4. CtlOk' /\ n \in Failing /\ Failing' = Failing \ {n} /\ Finished' \subseteq Finished
    BY <1>1, CtlTaken DEF IInv, Queues
  <1>5. n \in Requests /\ n \in Ndx /\ n # 0
    BY <1>4, NdxAssumption DEF IInv, Queues, CtlOk, Requests
  <1>6. /\ abort \in {<<>>, <<Command("AbortFile", 0, 0)>>}
        /\ active' = active \/ (active' = Idle /\ active.n = n)
        /\ active' = [mode |-> active'.mode, n |-> active'.n]
        /\ active' # Idle => active'.n \in Plain
    <2>1. active' = IF abort # <<>> THEN Idle ELSE active
      BY DEF RSourceFailure
    <2>2. abort = IF active # Idle /\ active.n = n THEN <<Command("AbortFile", 0, 0)>> ELSE <<>>
      BY DEF AbortOf
    <2>3. active = [mode |-> active.mode, n |-> active.n] /\ (active # Idle => active.n \in Plain)
      BY DEF IInv, Shape
    <2> HIDE DEF abort
    <2>4. abort \in {<<>>, <<Command("AbortFile", 0, 0)>>} /\ (abort # <<>> => active.n = n)
      BY <2>2
    <2> QED
      BY <1>2, <2>1, <2>3, <2>4, Modes
  <1>7. \/ /\ n \in terminated /\ UNCHANGED <<terminated, completed, outcome, rPhase>> /\ toDisk' = abort
        \/ /\ n \notin terminated /\ terminated' = terminated \cup {n} /\ completed' = completed + 1
           /\ outcome' = [outcome EXCEPT ![n] = "error"]
           /\ Advance(doneSeen', completed', requested', abort)
    BY <1>1 DEF RSourceFailure, RecordTerminal
  <1> HIDE DEF abort
  <1>8. Entry(n) /\ n \in Held
    BY <1>4, <1>5 DEF IInv, Entries, Held
  <1>9. n \notin Working \cup Asked \cup Queued \cup Good \cup Bad \cup Redoing \cup Ending \cup Closing
    BY <1>4, <1>8 DEF Entry, OnePlace
  <1>10. /\ n \notin published /\ n \notin Told \cup completedPaths
         /\ IF n \in terminated THEN outcome[n] = "error" /\ n \notin Links ELSE outcome[n] = "none"
    <2>1. n \notin published
      BY <1>8, <1>9 DEF Entry, Lasting
    <2>2. outcome[n] # "none" => n \notin Links /\ n \in terminated /\ outcome[n] # "success"
      BY <1>8, <2>1 DEF Entry, Booked, Lasting
    <2>3. outcome[n] \in {"none", "success", "error"}
      BY <1>5 DEF IInv, Shape
    <2> QED
      BY <1>8, <2>1, <2>2, <2>3 DEF Entry, Booked
  <1>11. /\ Ledger' /\ rPhase' \in {"Loop", "Drain"}
         /\ Commands(toDisk)' /\ Closing' = {} /\ Beginning' = {}
         /\ outcome' \in [Ndx -> {"none", "success", "error"}]
         /\ outcome'[n] = "error" /\ \A x \in Ndx : x # n => outcome'[x] = outcome[x]
         /\ terminated' = terminated \cup {n}
    <2>1. requested' = Cardinality(Requests')
      BY <1>1, <1>2 DEF IInv, Ledger
    <2>2. CASE n \in terminated /\ UNCHANGED <<terminated, completed, outcome, rPhase>> /\ toDisk' = abort
      <3>1. Halts(abort)
        BY <1>6 DEF Halts
      <3>2. Commands(toDisk)' /\ Closing' = {} /\ Beginning' = {}
        BY <1>2, <2>2, <3>1, Halted, Issued
      <3>3. Ledger'
        BY <1>1, <2>2, LedgerStays DEF IInv
      <3> QED
        BY <1>1, <1>10, <2>2, <3>2, <3>3 DEF IInv, Shape
    <2>3. CASE /\ n \notin terminated /\ terminated' = terminated \cup {n} /\ completed' = completed + 1
               /\ outcome' = [outcome EXCEPT ![n] = "error"]
               /\ Advance(doneSeen', completed', requested', abort)
      <3>1. /\ completed' = Cardinality(Settled')
            /\ outcome' \in [Ndx -> {"none", "success", "error"}]
            /\ outcome'[n] = "error" /\ \A x \in Ndx : x # n => outcome'[x] = outcome[x]
        BY <1>5, <1>10, <2>3, SettledOne DEF IInv, Ledger
      <3> QED
        BY <1>1, <1>6, <2>1, <2>3, <3>1, Advanced
    <2> QED
      BY <1>7, <2>2, <2>3
  <1>12. Beginning = {}
    BY <1>1, EmptyOf DEF Beginning
  <1>13. ASSUME NEW x \in Ndx, x # n PROVE Entry(x)'
    <2>1. Entry(x)
      BY DEF IInv, Entries
    <2>2. active.n = x => active'.n = x
      BY <1>6, <1>13
    <2> QED
      BY <1>1, <1>2, <1>3, <1>4, <1>11, <1>13, <2>1, <2>2, Still
  <1>14. Entry(n)'
    <2>1. OnePlace(n)' /\ OneMark(n)'
      BY <1>2, <1>3, <1>4, <1>8, <1>9, <1>11 DEF Entry, OnePlace, OneMark
    <2>2. n \notin Held'
      BY <1>2, <1>3, <1>4, <1>9, <1>11 DEF Held
    <2>3. Begun(n)'
      BY <1>1, <1>3, <1>9, <1>10, <1>11 DEF Begun, Shut
    <2>4. Lasting(n)'
      BY <1>1, <1>2, <1>3, <1>9, <1>10, <1>11, <2>2 DEF Lasting
    <2>5. Booked(n)'
      BY <1>2, <1>3, <1>5, <1>10, <1>11, <2>2 DEF Booked
    <2> QED
      BY <2>1, <2>3, <2>4, <2>5 DEF Entry
  <1>15. Entries'
    BY <1>13, <1>14 DEF Entries
  <1>16. terminated' \subseteq Ndx
    BY <1>5, <1>11 DEF IInv, Shape
  <1>17. Informed' \cup Finished' # {} => Informed \cup Finished # {}
    BY <1>3, <1>4
  <1> QED
    BY <1>1, <1>3, <1>4, <1>6, <1>11, <1>15, <1>16, <1>17, LoopStep

\* An outcome of the disk-commit task: a retry, a verdict, or one too late.
LEMMA OutcomeKeeps == ASSUME IInv, ROutcome PROVE IInv'
  <1> PICK n, o : n = Head(dcAcks).n /\ o = Head(dcAcks).type
    OBVIOUS
  <1> DEFINE a == AckOf(n, o)
             v == IF a = "Success" THEN "success" ELSE "error"
  <1>1. /\ dcAcks # <<>> /\ dcAcks' = Tail(dcAcks) /\ rPhase \in {"Loop", "Drain", "Abort"}
        /\ rPhase = "Loop" => toDisk = <<>>
        /\ UNCHANGED <<conn, ctl, list, data, back, sender, decision, requested, doneSeen, active,
                       dcq, dc, published>>
    BY DEF ROutcome, AtSelect
  <1>2. \/ /\ a = "Redo" /\ acks' = Sent(acks, Msg("Redo", n))
           /\ UNCHANGED <<terminated, completed, outcome, rPhase, toDisk>>
        \/ /\ a # "Redo" /\ n \in terminated /\ acks' = acks
           /\ UNCHANGED <<terminated, completed, outcome, rPhase, toDisk>>
        \/ /\ a # "Redo" /\ n \notin terminated /\ acks' = Sent(acks, Msg(a, n))
           /\ terminated' = terminated \cup {n} /\ completed' = completed + 1
           /\ outcome' = [outcome EXCEPT ![n] = v]
           /\ \/ rPhase = "Loop" /\ Advance(doneSeen', completed', requested', <<>>)
              \/ rPhase # "Loop" /\ UNCHANGED <<rPhase, toDisk>>
    BY <1>1 DEF ROutcome, RecordTerminal
  <1>3. UNCHANGED <<completedPaths, job, Working, Underway, Links, Markers, Plain, Requests>>
    BY <1>1, LoopAlone
  <1>4. /\ CtlOk' /\ BackOk' /\ DataOk' /\ Commands(dcq)'
        /\ UNCHANGED <<Asked, Informed, Ending, InData, Opening, Queued, Awaiting, Failing, Finished>>
        /\ acks' = acks => AcksOk' /\ UNCHANGED <<Redoing, Told>>
        /\ toDisk' = toDisk => Commands(toDisk)' /\ Closing' = Closing /\ Beginning' = Beginning
    BY <1>1, QueuesStay, Unmoved DEF IInv
  <1>5. /\ DcAcksOk' /\ n \in Plain \cup Markers /\ o \in {"success", "mismatch", "hard"}
        /\ o = "success" => n \in Good /\ Good' = Good \ {n} /\ Bad' = Bad /\ Broken' = Broken
        /\ o = "mismatch" => n \in Bad /\ Bad' = Bad \ {n} /\ Good' = Good /\ Broken' = Broken
        /\ o = "hard" => /\ n \in Broken /\ Good' = Good /\ Bad' = Bad
                         /\ Broken' \subseteq Broken /\ Broken \subseteq Broken' \cup {n}
    BY <1>1, DcAcksTaken DEF IInv, Queues
  <1>6. /\ o = "success" => a = "Success"
        /\ a = "Redo" => o = "mismatch"
        /\ a = "Success" => o = "success"
        /\ a \in {"Success", "Redo", "Error"}
    BY <1>5 DEF AckOf
  <1>7. n \in Ndx /\ n \in Requests /\ n \notin Links
    BY <1>5 DEF Plain, Markers, Requests, Wanted, Links
  <1>8. v \in {"success", "error"} /\ (v = "success" <=> a = "Success")
    OBVIOUS
  <1> HIDE DEF a, v
  <1>9. n \in Plain \/ o # "mismatch"
    BY <1>5 DEF IInv, Queues, DcAcksOk
  <1>10. Entry(n)
    BY <1>7 DEF IInv, Entries
  <1>11. n \in Good \cup Bad => /\ n \notin Asked \cup Working \cup Ending \cup Closing \cup Queued \cup Redoing \cup Failing
                                /\ ~(n \in Good /\ n \in Bad)
    BY <1>10 DEF Entry, OnePlace
  <1>12. n \in Good \cup Bad => /\ n \notin Marked /\ (n \in published <=> n \in Good)
    BY <1>10, <1>11 DEF Entry, Begun, Lasting, Held
  <1>13. n \in Good \cup Bad => outcome[n] = "none" /\ n \notin terminated
    <2>1. n \in Good \cup Bad => outcome[n] # "success" /\ outcome[n] # "error"
      BY <1>7, <1>10, <1>12 DEF Entry, Lasting
    <2>2. outcome[n] \in {"none", "success", "error"}
      BY <1>7 DEF IInv, Shape
    <2> QED
      BY <1>10, <2>1, <2>2 DEF Entry, Booked
  <1>14. n \in Good \cup Bad => n \notin InData
    BY <1>10, <1>11, <1>13 DEF Entry, Begun
  <1>15. ASSUME NEW x \in Ndx, x # n, Redoing' \subseteq Redoing \cup {n}, Told' \subseteq Told \cup {n},
                Closing' \subseteq Closing, Beginning' \subseteq Beginning,
                terminated' \subseteq terminated \cup {n}, terminated \subseteq terminated', outcome'[x] = outcome[x]
         PROVE  Entry(x)'
    <2>1. Entry(x)
      BY DEF IInv, Entries
    <2>2. Good' \subseteq Good /\ Bad' \subseteq Bad /\ Broken' \subseteq Broken
      BY <1>5
    <2> QED
      BY <1>1, <1>3, <1>4, <1>15, <2>1, <2>2, Still
  <1>16. CASE /\ a = "Redo" /\ acks' = Sent(acks, Msg("Redo", n))
              /\ UNCHANGED <<terminated, completed, outcome, rPhase, toDisk>>
    <2>1. n \in Bad /\ n \in Plain /\ n \notin Redoing /\ n \notin Good
      BY <1>5, <1>6, <1>9, <1>11, <1>16
    <2>2. Msg("Redo", n).type = "Redo" /\ Msg("Redo", n).n = n
      BY DEF Msg
    <2>3. AcksOk' /\ Redoing' \subseteq Redoing \cup {n} /\ Redoing \subseteq Redoing' /\ Told' = Told
      BY <1>1, <1>16, <2>1, <2>2, AcksSent DEF IInv, Queues
    <2>4. Bad' = Bad \ {n} /\ Good' = Good /\ Broken' = Broken
      BY <1>5, <1>6, <1>16
    <2>5. ASSUME NEW x \in Ndx, x # n PROVE Entry(x)'
      BY <1>4, <1>15, <1>16, <2>3, <2>5
    <2>6. Entry(n)'
      <3>1. OnePlace(n)' /\ OneMark(n)'
        BY <1>3, <1>4, <1>10, <1>11, <1>16, <2>1, <2>4 DEF Entry, OnePlace, OneMark
      <3>2. n \notin Marked' /\ n \notin InData' /\ n \notin published' /\ outcome'[n] = "none" /\ n \notin terminated'
        BY <1>1, <1>3, <1>4, <1>12, <1>13, <1>14, <1>16, <2>1, <2>4 DEF Marked
      <3>3. n \notin Told' \cup completedPaths'
        BY <1>3, <1>10, <1>13, <2>1, <2>3 DEF Entry, Booked
      <3>4. n \notin Good' /\ n \notin Broken'
        BY <2>1, <2>4, <3>2 DEF Marked
      <3> QED
        BY <3>1, <3>2, <3>3, <3>4 DEF Entry, Begun, Lasting, Booked
    <2>7. Entries'
      BY <2>5, <2>6 DEF Entries
    <2>8. Ledger'
      BY <1>1, <1>16, LedgerStays DEF IInv
    <2> QED
      BY <1>1, <1>4, <1>5, <1>16, <2>3, <2>7, <2>8, LoopStep DEF IInv, Shape
  <1>17. CASE /\ a # "Redo" /\ n \in terminated /\ acks' = acks
              /\ UNCHANGED <<terminated, completed, outcome, rPhase, toDisk>>
    <2>1. ASSUME NEW x \in Ndx PROVE Entry(x)'
      <3>1. Entry(x)
        BY DEF IInv, Entries
      <3>2. Good' \subseteq Good /\ Bad' \subseteq Bad /\ Broken' \subseteq Broken
        BY <1>5
      <3> QED
        BY <1>1, <1>3, <1>4, <1>17, <3>1, <3>2, Still
    <2>2. Entries'
      BY <2>1 DEF Entries
    <2>3. Ledger'
      BY <1>1, <1>17, LedgerStays DEF IInv
    <2> QED
      BY <1>1, <1>4, <1>5, <1>17, <2>2, <2>3, LoopStep DEF IInv, Shape
  <1>18. CASE /\ a # "Redo" /\ n \notin terminated /\ acks' = Sent(acks, Msg(a, n))
              /\ terminated' = terminated \cup {n} /\ completed' = completed + 1
              /\ outcome' = [outcome EXCEPT ![n] = v]
              /\ \/ rPhase = "Loop" /\ Advance(doneSeen', completed', requested', <<>>)
                 \/ rPhase # "Loop" /\ UNCHANGED <<rPhase, toDisk>>
    <2>1. outcome[n] = "none"
      BY <1>7, <1>10, <1>18 DEF Entry, Booked, IInv, Shape
    <2>2. /\ completed' = Cardinality(Settled')
          /\ outcome' \in [Ndx -> {"none", "success", "error"}]
          /\ outcome'[n] = v /\ \A x \in Ndx : x # n => outcome'[x] = outcome[x]
      BY <1>7, <1>8, <1>18, <2>1, SettledOne DEF IInv, Ledger
    <2>3. requested' = Cardinality(Requests') /\ completed = Cardinality(Settled)
      BY <1>1, <1>3 DEF IInv, Ledger
    <2>4. /\ Ledger' /\ (rPhase' = "Config" => rPhase = "Config")
          /\ Commands(toDisk)' /\ Closing' \subseteq Closing /\ Beginning' \subseteq Beginning
      <3>1. CASE rPhase = "Loop" /\ Advance(doneSeen', completed', requested', <<>>)
        BY <1>1, <2>2, <2>3, <3>1, Advanced
      <3>2. CASE rPhase # "Loop" /\ UNCHANGED <<rPhase, toDisk>>
        <4>1. completed \in Nat /\ requested \in Nat
          BY Counts DEF IInv, Ledger
        <4>2. Ledger'
          BY <1>1, <1>18, <2>2, <2>3, <3>2, <4>1 DEF IInv, Ledger
        <4> QED
          BY <1>4, <3>2, <4>2
      <3> QED
        BY <1>18, <3>1, <3>2
    <2>5. /\ AcksOk' /\ Redoing' = Redoing /\ Told' \subseteq Told \cup {n}
          /\ v # "success" => Told' = Told
      <3>1. Msg(a, n).type = a /\ Msg(a, n).n = n
        BY DEF Msg
      <3> QED
        BY <1>1, <1>7, <1>8, <1>18, <3>1, AcksSent DEF IInv, Queues
    <2>6. ASSUME NEW x \in Ndx, x # n PROVE Entry(x)'
      BY <1>15, <1>18, <2>2, <2>4, <2>5, <2>6
    <2>7. Entry(n)'
      <3>1. n \notin Told \cup completedPaths
        BY <1>10, <2>1 DEF Entry, Booked
      <3>2. Good' \subseteq Good /\ Bad' \subseteq Bad /\ Broken' \subseteq Broken
        BY <1>5
      <3>3. OnePlace(n)' /\ OneMark(n)'
        BY <1>3, <1>4, <1>10, <2>4, <2>5, <3>2 DEF Entry, OnePlace, OneMark
      <3>4. n \in Marked' => n \in Marked
        BY <1>3, <1>4, <2>4, <3>2 DEF Marked
      <3>5. Begun(n)'
        BY <1>1, <1>4, <1>10, <1>18, <2>5, <3>2, <3>4 DEF Entry, Begun, Shut
      <3>6. n \in Held' => n \in Held
        BY <1>3, <1>4, <2>4, <2>5, <3>2 DEF Held
      <3>7. n \in Links' <=> n \in Links
        BY <1>3
      <3>8. CASE o \in {"success", "mismatch"}
        <4>1. /\ n \in Good \cup Bad /\ n \notin Good' \cup Bad' /\ (v = "success" <=> n \in Good)
              /\ n \notin Broken'
          BY <1>5, <1>6, <1>8, <1>11, <1>12, <1>18, <3>8 DEF Marked
        <4>2. n \notin Held'
          BY <1>3, <1>4, <1>11, <2>4, <2>5, <4>1 DEF Held
        <4>3. n \in published' <=> v = "success"
          BY <1>1, <1>12, <4>1
        <4>4. Lasting(n)'
          BY <1>4, <1>11, <2>2, <2>5, <4>1, <4>2, <4>3 DEF Lasting
        <4>5. Booked(n)'
          BY <1>1, <1>3, <1>7, <1>8, <1>18, <2>2, <2>5, <3>1, <4>2 DEF Booked
        <4> QED
          BY <3>3, <3>5, <4>4, <4>5 DEF Entry
      <3>9. CASE o = "hard"
        <4>1. n \in Broken /\ v = "error" /\ outcome'[n] = "error"
          BY <1>5, <1>6, <1>8, <2>2, <3>9
        <4>2. Lasting(n)'
          BY <1>1, <1>3, <1>4, <1>7, <1>10, <2>4, <2>5, <3>2, <3>6, <4>1 DEF Entry, Lasting
        <4>3. Booked(n)'
          BY <1>3, <1>7, <1>18, <2>5, <3>1, <4>1 DEF Booked
        <4> QED
          BY <3>3, <3>5, <4>2, <4>3 DEF Entry
      <3> QED
        BY <1>5, <3>8, <3>9
    <2>8. Entries'
      BY <2>6, <2>7 DEF Entries
    <2>9. terminated' \subseteq Ndx
      BY <1>7, <1>18 DEF IInv, Shape
    <2> QED
      BY <1>1, <1>4, <1>5, <2>2, <2>4, <2>5, <2>8, <2>9, LoopStep DEF IInv, Shape
  <1> QED
    BY <1>2, <1>16, <1>17, <1>18

-----------------------------------------------------------------------------
(* The queue of the disk-commit task.                                      *)

LEMMA CommandEntries ==
    ASSUME NEW q, Commands(q)
    PROVE  /\ About(q, Commits) \subseteq Plain \cup Markers
           /\ About(q, Begins) \subseteq Plain
  <1>1. ASSUME NEW i \in 1..Len(q), q[i].type \in Commits PROVE q[i].n \in Plain \cup Markers
    BY <1>1 DEF Commands, OfDisk, Commits, Stops
  <1>2. ASSUME NEW i \in 1..Len(q), q[i].type \in Begins PROVE q[i].n \in Plain
    BY <1>2 DEF Commands, OfDisk, Begins, Stops
  <1> QED
    BY <1>1, <1>2 DEF About

\* A command that is handed over only changes its queue.
LEMMA EnqueueKeeps == ASSUME IInv, REnqueue PROVE IInv'
  <1> PICK m : m = Head(toDisk)
    OBVIOUS
  <1>1. /\ toDisk # <<>> /\ toDisk' = Tail(toDisk) /\ dcq' = Append(dcq, m)
        /\ UNCHANGED <<conn, ctl, list, data, back, acks, sender, rPhase, decision, requested, completed, doneSeen,
                       terminated, outcome, active, dc, dcAcks, published>>
    BY DEF REnqueue, net, rLedger
  <1>2. UNCHANGED <<completedPaths, job, Working, Underway, Links, Markers, Plain, Requests>>
    BY <1>1, LoopAlone
  <1>3. /\ CtlOk' /\ BackOk' /\ AcksOk' /\ DataOk' /\ DcAcksOk'
        /\ UNCHANGED <<Asked, Informed, Redoing, Told, Ending, InData, Opening, Good, Bad, Broken, Failing, Finished>>
    BY <1>1, QueuesStay, Unmoved DEF IInv
  <1>4. Closing \subseteq Ndx /\ Beginning \subseteq Ndx
    BY CommandEntries DEF IInv, Queues, Closing, Beginning, Plain, Markers
  <1>5. Closing \cap Queued = {} /\ Beginning \cap Awaiting = {}
    BY <1>4 DEF IInv, Entries, Entry, OnePlace, OneMark
  <1>6. /\ Commands(toDisk)' /\ Commands(dcq)'
        /\ m.type \in Commits => /\ m.n \in Closing /\ Closing' = Closing \ {m.n}
                                 /\ Queued' = Queued \cup {m.n}
        /\ m.type \notin Commits => Closing' = Closing /\ Queued' = Queued
        /\ m.type \in Begins => /\ m.n \in Beginning /\ Beginning' = Beginning \ {m.n}
                                /\ Awaiting' = Awaiting \cup {m.n}
        /\ m.type \notin Begins => Beginning' = Beginning /\ Awaiting' = Awaiting
    BY <1>1, <1>5, Enqueued DEF IInv, Queues
  <1>7. /\ Closing' \cup Queued' = Closing \cup Queued /\ Closing' \cap Queued' = {}
        /\ Beginning' \cup Awaiting' = Beginning \cup Awaiting /\ Beginning' \cap Awaiting' = {}
    BY <1>5, <1>6
  <1>8. Entries'
    <2> SUFFICES ASSUME NEW n \in Ndx PROVE Entry(n)'
      BY DEF Entries
    <2>1. Entry(n)
      BY DEF IInv, Entries
    <2>2. OnePlace(n)' /\ OneMark(n)'
      BY <1>2, <1>3, <1>7, <2>1 DEF Entry, OnePlace, OneMark
    <2>3. (n \in Marked' <=> n \in Marked) /\ (n \in Held' <=> n \in Held)
      BY <1>2, <1>3, <1>7 DEF Marked, Held
    <2>4. Shut(n)' <=> Shut(n)
      BY <1>1, <1>2, <1>3 DEF Shut
    <2>5. Begun(n)'
      BY <1>1, <1>2, <1>3, <2>1, <2>3, <2>4 DEF Entry, Begun
    <2>6. n \in Beginning' \cup Awaiting' <=> n \in Beginning \cup Awaiting
      BY <1>7
    <2>7. Lasting(n)'
      BY <1>1, <1>2, <1>3, <2>1, <2>3, <2>6 DEF Entry, Lasting
    <2>8. Booked(n)'
      BY <1>1, <1>2, <1>3, <2>1, <2>3 DEF Entry, Booked
    <2> QED
      BY <2>2, <2>5, <2>7, <2>8 DEF Entry
  <1>9. Ledger'
    BY <1>1, LedgerStays DEF IInv
  <1> QED
    BY <1>1, <1>3, <1>6, <1>8, <1>9, LoopStep DEF IInv, Shape

-----------------------------------------------------------------------------
(* The disk-commit task.                                                   *)

LEMMA DiskStep ==
    ASSUME IInv, UNCHANGED <<conn, net, sender, receiver>>, Commands(dcq)', DcAcksOk', Entries',
           dc' = [st |-> dc'.st, n |-> dc'.n, got |-> dc'.got], Busy' => dc'.n \in Plain, published' \subseteq Plain \cup Markers
    PROVE  IInv'
  <1>1. /\ UNCHANGED <<ctl, list, data, back, acks, advPos, job, completedPaths, rPhase, decision, requested, completed,
                       doneSeen, terminated, outcome, active, toDisk>>
        /\ UNCHANGED <<Links, Markers, Plain, Requests, Informed, Finished>>
    BY Unmoved DEF net, sender, sLedger, receiver, rLedger
  <1>2. Queues'
    BY <1>1, QueuesStay DEF IInv, Queues
  <1>3. Shape'
    BY <1>1 DEF IInv, Shape
  <1>4. Ledger' /\ ListOk' /\ Paged'
    BY <1>1, LedgerStays, PagesStay DEF IInv
  <1> QED
    BY <1>2, <1>3, <1>4 DEF IInv

\* What a command that is taken leaves alone.
LEMMA DcEffect ==
    ASSUME IInv, NEW ts, Dc(ts), NEW m, m = Head(dcq)
    PROVE  /\ m.type \in ts /\ OfDisk(m) /\ Commands(dcq)'
           /\ UNCHANGED <<conn, net, sender, receiver, completedPaths, terminated, outcome, active, decision, rPhase>>
           /\ UNCHANGED <<Links, Markers, Plain, Requests>>
           /\ UNCHANGED <<Asked, Working, Redoing, Told, Ending, InData, Opening, Failing, Closing, Beginning>>
           /\ m.type \in Commits => m.n \in Queued /\ Queued' = Queued \ {m.n}
           /\ m.type \notin Commits => Queued' = Queued
           /\ m.type \in Begins => m.n \in Awaiting /\ Awaiting' = Awaiting \ {m.n}
           /\ m.type \notin Begins => Awaiting' = Awaiting
           /\ dcAcks' = dcAcks => DcAcksOk' /\ UNCHANGED <<Good, Bad, Broken>>
           /\ dc' = dc => Underway' = Underway
  <1>1. /\ dcq # <<>> /\ m.type \in ts /\ dcq' = Tail(dcq)
        /\ UNCHANGED <<conn, net, sender, receiver, ctl, data, back, acks, job, completedPaths, decision,
                       terminated, outcome, active, toDisk, rPhase>>
    BY DEF Dc, net, sender, sLedger, receiver, rLedger
  <1>2. UNCHANGED <<Links, Markers, Plain, Requests>>
        /\ UNCHANGED <<Asked, Working, Redoing, Told, Ending, InData, Opening, Failing, Closing, Beginning>>
        /\ (dcAcks' = dcAcks => UNCHANGED <<Good, Bad, Broken>>) /\ (dc' = dc => Underway' = Underway)
    BY <1>1, Unmoved
  <1>3. /\ Commands(dcq)' /\ OfDisk(m)
        /\ m.type \in Commits => m.n \in Queued /\ Queued' = Queued \ {m.n}
        /\ m.type \notin Commits => Queued' = Queued
        /\ m.type \in Begins => m.n \in Awaiting /\ Awaiting' = Awaiting \ {m.n}
        /\ m.type \notin Begins => Awaiting' = Awaiting
    BY <1>1, DcqTaken DEF IInv, Queues
  <1>4. dcAcks' = dcAcks => DcAcksOk'
    BY <1>1, QueuesStay DEF IInv
  <1> QED
    BY <1>1, <1>2, <1>3, <1>4

\* A report, and what the state of the task says of the file it is at.
LEMMA Reported ==
    ASSUME DcAcksOk, NEW n, NEW o \in {"success", "mismatch", "hard"}, Report(n, o), UNCHANGED decision,
           n \in Plain \cup Markers, o = "mismatch" => n \in Plain, o # "hard" => n \notin Good \cup Bad
    PROVE  /\ DcAcksOk'
           /\ Good' = Good \cup (IF o = "success" THEN {n} ELSE {})
           /\ Bad' = Bad \cup (IF o = "mismatch" THEN {n} ELSE {})
           /\ Broken' = Broken \cup (IF o = "hard" THEN {n} ELSE {})
  <1> PICK m : m = Outcome(n, o)
    OBVIOUS
  <1>1. m.type = o /\ m.n = n /\ dcAcks' = Append(dcAcks, m)
    BY DEF Report, Outcome
  <1> QED
    BY <1>1, DcAcksAdded

LEMMA DcStates ==
    /\ DcIdle = [st |-> DcIdle.st, n |-> DcIdle.n, got |-> DcIdle.got] /\ DcIdle.st = "idle"
    /\ \A s, n, g : LET d == [st |-> s, n |-> n, got |-> g] IN
          d = [st |-> d.st, n |-> d.n, got |-> d.got] /\ d.st = s /\ d.n = n
  BY DEF DcIdle

LEMMA BeginKeeps == ASSUME IInv, DBegin PROVE IInv'
  <1> PICK m, n : m = Head(dcq) /\ n = m.n
    OBVIOUS
  <1>1. Dc({"FileBegin", "DeltaBegin"}) /\ UNCHANGED published
        /\ \/ UNCHANGED <<dc, dcAcks>>
           \/ /\ ~Busy /\ UNCHANGED dcAcks
              /\ \E mode \in {"full", "delta"} : dc' = [st |-> mode, n |-> n, got |-> 0]
           \/ ~Busy /\ dc' = [st |-> "failed", n |-> n, got |-> 0] /\ Report(n, "hard")
    BY DEF DBegin, Failed
  <1>2. /\ m.type \in {"FileBegin", "DeltaBegin"} /\ OfDisk(m) /\ Commands(dcq)'
        /\ UNCHANGED <<conn, net, sender, receiver, completedPaths, terminated, outcome, active, decision, rPhase>>
        /\ UNCHANGED <<Links, Markers, Plain, Requests>>
        /\ UNCHANGED <<Asked, Working, Redoing, Told, Ending, InData, Opening, Failing, Closing, Beginning>>
        /\ m.type \notin Commits => Queued' = Queued
        /\ m.type \in Begins => m.n \in Awaiting /\ Awaiting' = Awaiting \ {m.n}
        /\ dcAcks' = dcAcks => DcAcksOk' /\ UNCHANGED <<Good, Bad, Broken>>
        /\ dc' = dc => Underway' = Underway
    BY <1>1, DcEffect
  <1>3. m.type \notin Commits /\ m.type \in Begins /\ m.type \notin Stops \cup {"WriteDeleteMarker"}
    BY <1>2 DEF Commits, Begins, Stops
  <1>4. n \in Plain /\ n \in Ndx /\ n \in Awaiting /\ Awaiting' = Awaiting \ {n} /\ Queued' = Queued
    BY <1>2, <1>3 DEF OfDisk, Plain
  <1>5. Entry(n)
    BY <1>4 DEF IInv, Entries
  <1>6. n \in Marked /\ n \notin Asked \cup Redoing \cup Good \cup Bad \cup published
        /\ n \notin Beginning \cup Underway \cup Broken
    BY <1>4, <1>5 DEF Entry, OneMark, Begun, Marked
  <1>7. CASE UNCHANGED <<dc, dcAcks>>
    <2>1. Entries'
      <3> SUFFICES ASSUME NEW x \in Ndx PROVE Entry(x)'
        BY DEF Entries
      <3>1. Entry(x)
        BY DEF IInv, Entries
      <3> QED
        BY <1>1, <1>2, <1>4, <1>7, <3>1, Still
    <2> QED
      BY <1>1, <1>2, <1>7, <2>1, DiskStep DEF IInv, Shape, Busy
  <1>8. ASSUME ~Busy, DcAcksOk', UNCHANGED <<Good, Bad>>,
               dc' = [st |-> dc'.st, n |-> dc'.n, got |-> dc'.got], Busy' => dc'.n \in Plain,
               \/ Underway' = {n} /\ Broken' = Broken
               \/ Underway' = {} /\ Broken' = Broken \cup {n}
        PROVE  IInv'
    <2>1. Underway = {}
      BY <1>8 DEF Underway
    <2>2. ASSUME NEW x \in Ndx, x # n PROVE Entry(x)'
      <3>1. Entry(x)
        BY DEF IInv, Entries
      <3> QED
        BY <1>1, <1>2, <1>4, <1>8, <2>1, <2>2, <3>1, Still
    <2>3. Entry(n)'
      <3>1. OnePlace(n)' /\ OneMark(n)'
        BY <1>2, <1>4, <1>5, <1>6, <1>8 DEF Entry, OnePlace, OneMark
      <3>2. Shut(n)' <=> Shut(n)
        BY <1>2 DEF Shut
      <3>3. Begun(n)'
        BY <1>1, <1>2, <1>4, <1>5, <1>6, <1>8, <3>2 DEF Entry, Begun
      <3>4. n \in Held' <=> n \in Held
        BY <1>2, <1>4, <1>8 DEF Held
      <3>5. Lasting(n)'
        <4>1. n \notin Good' /\ n \notin published'
          BY <1>1, <1>6, <1>8
        <4>2. n \notin Links /\ outcome[n] # "success"
          BY <1>4, <1>5, <1>6 DEF Entry, Lasting, Links, Plain
        <4>3. outcome[n] = "error" => n \notin Held
          BY <1>4, <1>5, <4>2 DEF Entry, Lasting
        <4>4. n \in Broken' => n \in Plain /\ n \notin Beginning' \cup Awaiting' \cup Underway'
          BY <1>2, <1>4, <1>6, <1>8
        <4> QED
          BY <1>2, <1>6, <1>8, <3>4, <4>1, <4>2, <4>3, <4>4 DEF Lasting
      <3>6. Booked(n)'
        BY <1>2, <1>5, <3>4 DEF Entry, Booked
      <3> QED
        BY <3>1, <3>3, <3>5, <3>6 DEF Entry
    <2>4. Entries'
      BY <2>2, <2>3 DEF Entries
    <2>5. published' \subseteq Plain \cup Markers
      BY <1>1 DEF IInv, Shape
    <2> QED
      BY <1>2, <1>8, <2>4, <2>5, DiskStep
  <1>9. ASSUME ~Busy, UNCHANGED dcAcks, NEW mode \in {"full", "delta"}, dc' = [st |-> mode, n |-> n, got |-> 0]
        PROVE  IInv'
    <2>1. dc' = [st |-> dc'.st, n |-> dc'.n, got |-> dc'.got] /\ dc'.st = mode /\ dc'.n = n
      BY <1>9, DcStates
    <2>2. Busy' /\ Underway' = {n}
      BY <1>9, <2>1 DEF Busy, Underway
    <2>3. dc'.n \in Plain'
      BY <1>2, <1>4, <2>1
    <2> QED
      BY <1>2, <1>4, <1>8, <1>9, <2>1, <2>2
  <1>10. CASE ~Busy /\ dc' = [st |-> "failed", n |-> n, got |-> 0] /\ Report(n, "hard")
    <2>1. dc' = [st |-> dc'.st, n |-> dc'.n, got |-> dc'.got] /\ dc'.st = "failed"
      BY <1>10, DcStates
    <2>2. ~Busy' /\ Underway' = {}
      BY <2>1 DEF Busy, Underway
    <2>3. DcAcksOk' /\ Good' = Good /\ Bad' = Bad /\ Broken' = Broken \cup {n}
      BY <1>2, <1>4, <1>10, Reported DEF IInv, Queues
    <2> QED
      BY <1>8, <1>10, <2>1, <2>2, <2>3
  <1> QED
    BY <1>1, <1>7, <1>9, <1>10

\* Payload: written, refused, or the failure of the transfer.
LEMMA PushKeeps == ASSUME IInv, DPush PROVE IInv'
  <1> PICK m, n : m = Head(dcq) /\ n = m.n
    OBVIOUS
  <1>1. Dc({"FileChunk", "DeltaMatch", "DeltaData"}) /\ UNCHANGED published
        /\ \/ UNCHANGED <<dc, dcAcks>>
           \/ Busy /\ dc.n = n /\ dc' = [dc EXCEPT !.got = @ + 1] /\ UNCHANGED dcAcks
           \/ Busy /\ dc.n = n /\ dc' = [st |-> "failed", n |-> n, got |-> 0] /\ Report(n, "hard")
    BY DEF DPush, Failed, Busy
  <1>2. /\ m.type \in {"FileChunk", "DeltaMatch", "DeltaData"} /\ Commands(dcq)'
        /\ UNCHANGED <<conn, net, sender, receiver, completedPaths, terminated, outcome, active, decision, rPhase>>
        /\ UNCHANGED <<Links, Markers, Plain, Requests>>
        /\ UNCHANGED <<Asked, Working, Redoing, Told, Ending, InData, Opening, Failing, Closing, Beginning>>
        /\ m.type \notin Commits => Queued' = Queued
        /\ m.type \notin Begins => Awaiting' = Awaiting
        /\ dcAcks' = dcAcks => DcAcksOk' /\ UNCHANGED <<Good, Bad, Broken>>
        /\ dc' = dc => Underway' = Underway
    BY <1>1, DcEffect
  <1>3. Queued' = Queued /\ Awaiting' = Awaiting
    BY <1>2 DEF Commits, Begins
  <1>4. CASE /\ UNCHANGED <<dcAcks, Underway>> /\ dc' = [st |-> dc'.st, n |-> dc'.n, got |-> dc'.got]
             /\ Busy' => dc'.n \in Plain
    <2>1. Entries'
      <3> SUFFICES ASSUME NEW x \in Ndx PROVE Entry(x)'
        BY DEF Entries
      <3>1. Entry(x)
        BY DEF IInv, Entries
      <3> QED
        BY <1>1, <1>2, <1>3, <1>4, <3>1, Still
    <2>2. published' \subseteq Plain \cup Markers
      BY <1>1 DEF IInv, Shape
    <2> QED
      BY <1>2, <1>4, <2>1, <2>2, DiskStep
  <1>5. CASE UNCHANGED <<dc, dcAcks>>
    BY <1>2, <1>4, <1>5 DEF IInv, Shape, Busy
  <1>6. CASE Busy /\ dc.n = n /\ dc' = [dc EXCEPT !.got = @ + 1] /\ UNCHANGED dcAcks
    <2>1. dc = [st |-> dc.st, n |-> dc.n, got |-> dc.got] /\ dc.n \in Plain
      BY <1>6 DEF IInv, Shape
    <2>2. dc' = [st |-> dc.st, n |-> dc.n, got |-> dc.got + 1]
      BY <1>6, <2>1
    <2>3. dc' = [st |-> dc'.st, n |-> dc'.n, got |-> dc'.got] /\ dc'.st = dc.st /\ dc'.n = dc.n
      BY <2>2
    <2>4. Underway' = Underway
      BY <2>3 DEF Underway, Busy
    <2> QED
      BY <1>2, <1>4, <1>6, <2>1, <2>3, <2>4
  <1>7. CASE Busy /\ dc.n = n /\ dc' = [st |-> "failed", n |-> n, got |-> 0] /\ Report(n, "hard")
    <2>1. dc' = [st |-> dc'.st, n |-> dc'.n, got |-> dc'.got] /\ dc'.st = "failed"
      BY <1>7, DcStates
    <2>2. ~Busy' /\ Underway' = {} /\ Underway = {n} /\ n \in Plain /\ n \in Ndx
      BY <1>7, <2>1 DEF Busy, Underway, IInv, Shape, Plain
    <2>3. DcAcksOk' /\ Good' = Good /\ Bad' = Bad /\ Broken' = Broken \cup {n}
      BY <1>2, <1>7, <2>2, Reported DEF IInv, Queues
    <2>4. Entry(n)
      BY <2>2 DEF IInv, Entries
    <2>5. n \in Marked /\ n \notin Asked \cup Redoing \cup Good \cup Bad \cup published
          /\ n \notin Beginning \cup Awaiting \cup Broken
      BY <2>2, <2>4 DEF Entry, OneMark, Begun, Marked
    <2>6. ASSUME NEW x \in Ndx, x # n PROVE Entry(x)'
      <3>1. Entry(x)
        BY DEF IInv, Entries
      <3> QED
        BY <1>1, <1>2, <1>3, <2>2, <2>3, <2>6, <3>1, Still
    <2>7. Entry(n)'
      <3>1. OnePlace(n)' /\ OneMark(n)'
        BY <1>2, <1>3, <2>2, <2>3, <2>4, <2>5 DEF Entry, OnePlace, OneMark
      <3>2. Shut(n)' <=> Shut(n)
        BY <1>2 DEF Shut
      <3>3. Begun(n)'
        BY <1>1, <1>2, <2>3, <2>4, <2>5, <3>2 DEF Entry, Begun
      <3>4. n \in Held' <=> n \in Held
        BY <1>2, <1>3, <2>3 DEF Held
      <3>5. Lasting(n)'
        <4>1. n \notin Good' /\ n \notin published'
          BY <1>1, <2>3, <2>5
        <4>2. n \notin Links /\ outcome[n] # "success"
          BY <2>2, <2>4, <2>5 DEF Entry, Lasting, Links, Plain
        <4>3. n \in Plain /\ n \notin Beginning' \cup Awaiting' \cup Underway'
          BY <1>2, <1>3, <2>2, <2>5
        <4> QED
          BY <1>2, <2>3, <2>5, <4>1, <4>2, <4>3 DEF Lasting
      <3>6. Booked(n)'
        BY <1>2, <2>4, <3>4 DEF Entry, Booked
      <3> QED
        BY <3>1, <3>3, <3>5, <3>6 DEF Entry
    <2>8. Entries'
      BY <2>6, <2>7 DEF Entries
    <2>9. published' \subseteq Plain \cup Markers
      BY <1>1 DEF IInv, Shape
    <2> QED
      BY <1>2, <2>1, <2>2, <2>3, <2>8, <2>9, DiskStep
  <1> QED
    BY <1>1, <1>5, <1>6, <1>7

\* A file whose commit has come has no verdict yet, unless its transfer failed.
LEMMA AtCommit ==
    ASSUME IInv, NEW n \in Ndx, n \in Queued, n \notin Links
    PROVE  /\ n \notin published /\ n \notin Told \cup completedPaths /\ outcome[n] # "success"
           /\ n \notin Asked \cup Working \cup Ending \cup Closing \cup Good \cup Bad \cup Redoing \cup Failing
           /\ n \in Underway \/ n \in Markers => /\ outcome[n] = "none" /\ n \notin terminated
                                                 /\ n \notin Beginning \cup Awaiting \cup Broken /\ n \notin InData
  <1>1. Entry(n) /\ n \in Held
    BY DEF IInv, Entries, Held
  <1>2. n \notin Asked \cup Working \cup Ending \cup Closing \cup Good \cup Bad \cup Redoing \cup Failing
    BY <1>1 DEF Entry, OnePlace
  <1>3. n \notin published /\ outcome[n] # "success"
    BY <1>1, <1>2 DEF Entry, Lasting
  <1>4. n \notin Told \cup completedPaths
    BY <1>1, <1>3 DEF Entry, Booked
  <1>5. ASSUME n \in Underway \/ n \in Markers
        PROVE  /\ outcome[n] = "none" /\ n \notin terminated
               /\ n \notin Beginning \cup Awaiting \cup Broken /\ n \notin InData
    <2>1. n \in Markers => n \notin Plain
      BY DEF Markers, Plain
    <2>2. n \in Markers => n \notin Broken
      BY <1>1, <2>1 DEF Entry, Lasting
    <2>3. n \in Markers => n \notin Beginning \cup Awaiting
      BY <2>1, CommandEntries DEF IInv, Queues, Beginning, Awaiting
    <2>4. n \notin Beginning \cup Awaiting \cup Broken
      BY <1>1, <1>5, <2>2, <2>3 DEF Entry, OneMark
    <2>5. outcome[n] # "error"
      BY <1>1, <1>5, <2>1 DEF Entry, Lasting
    <2>6. outcome[n] = "none"
      BY <1>3, <2>5 DEF IInv, Shape
    <2>7. n \notin terminated
      BY <1>1, <2>6 DEF Entry, Booked
    <2>8. n \notin InData
      BY <1>1, <1>2, <2>7 DEF Entry, Begun
    <2> QED
      BY <2>4, <2>6, <2>7, <2>8
  <1> QED
    BY <1>2, <1>3, <1>4, <1>5

\* What a commit, or a delete marker, comes to.
LEMMA Committed ==
    ASSUME IInv, NEW ts, Dc(ts), NEW m, m = Head(dcq), NEW n, n = m.n, m.type \in Commits,
           (n \in Plain /\ Underway = {n}) \/ n \in Markers,
           DcAcksOk', dc' = [st |-> dc'.st, n |-> dc'.n, got |-> dc'.got], Busy' => dc'.n \in Plain,
           n \notin Underway', Underway' \subseteq Underway, n \in Plain \/ Underway' = Underway,
           \/ Good' = Good \cup {n} /\ UNCHANGED <<Bad, Broken>> /\ published' = published \cup {n}
           \/ n \in Plain /\ Bad' = Bad \cup {n} /\ UNCHANGED <<Good, Broken, published>>
           \/ Broken' = Broken \cup {n} /\ UNCHANGED <<Good, Bad, published>>
    PROVE  IInv'
  <1>1. m.type \notin Begins /\ n \in Ndx /\ n \notin Links /\ n \in Requests /\ (n \in Markers => n \notin Plain)
    BY DEF Commits, Begins, Plain, Markers, Links, Requests, Wanted
  <1>2. /\ Commands(dcq)'
        /\ UNCHANGED <<conn, net, sender, receiver, completedPaths, terminated, outcome, active, decision, rPhase>>
        /\ UNCHANGED <<Links, Markers, Plain, Requests>>
        /\ UNCHANGED <<Asked, Working, Redoing, Told, Ending, InData, Opening, Failing, Closing, Beginning>>
        /\ n \in Queued /\ Queued' = Queued \ {n} /\ Awaiting' = Awaiting
    BY <1>1, DcEffect
  <1>3. /\ n \notin published /\ n \notin Told \cup completedPaths /\ outcome[n] = "none" /\ n \notin terminated
        /\ n \notin Asked \cup Working \cup Ending \cup Closing \cup Good \cup Bad \cup Redoing \cup Failing
        /\ n \notin Beginning \cup Awaiting \cup Broken /\ n \notin InData
    BY <1>1, <1>2, AtCommit
  <1>4. ASSUME NEW x \in Ndx, x # n PROVE Entry(x)'
    <2>1. Entry(x)
      BY DEF IInv, Entries
    <2>2. /\ x \in Good' => x \in Good
          /\ x \in Bad' => x \in Bad
          /\ x \in Broken' => x \in Broken
          /\ x \in published' <=> x \in published
      BY <1>4
    <2> QED
      BY <1>2, <1>4, <2>1, <2>2, Still
  <1>5. Entry(n)'
    <2>1. OnePlace(n)' /\ OneMark(n)'
      BY <1>2, <1>3 DEF OnePlace, OneMark
    <2>2. Begun(n)'
      <3>1. n \in Marked' => n \in Broken'
        BY <1>2, <1>3 DEF Marked
      <3>2. n \notin InData' /\ n \notin Working'
        BY <1>2, <1>3
      <3> QED
        BY <1>2, <1>3, <3>1, <3>2 DEF Begun, Shut
    <2>3. outcome'[n] = "none" /\ n \notin terminated'
      BY <1>2, <1>3
    <2>4. Lasting(n)'
      <3>1. CASE Good' = Good \cup {n} /\ UNCHANGED <<Bad, Broken>> /\ published' = published \cup {n}
        BY <1>2, <1>3, <2>3, <3>1 DEF Lasting, Held
      <3>2. CASE n \in Plain /\ Bad' = Bad \cup {n} /\ UNCHANGED <<Good, Broken, published>>
        BY <1>2, <1>3, <2>3, <3>2 DEF Lasting
      <3>3. CASE Broken' = Broken \cup {n} /\ UNCHANGED <<Good, Bad, published>>
        BY <1>2, <1>3, <2>3, <3>3 DEF Lasting, Held
      <3> QED
        BY <3>1, <3>2, <3>3
    <2>5. Booked(n)'
      BY <1>2, <1>3, <2>3 DEF Booked
    <2> QED
      BY <2>1, <2>2, <2>4, <2>5 DEF Entry
  <1>6. Entries'
    BY <1>4, <1>5 DEF Entries
  <1>7. published' \subseteq Plain \cup Markers
    BY <1>1 DEF IInv, Shape
  <1> QED
    BY <1>2, <1>6, <1>7, DiskStep

LEMMA CommitKeeps == ASSUME IInv, DCommit PROVE IInv'
  <1> PICK m, n : m = Head(dcq) /\ n = m.n
    OBVIOUS
  <1>1. Dc({"FileCommit", "DeltaCommit"})
        /\ \/ UNCHANGED <<dc, dcAcks, published>>
           \/ /\ Busy /\ dc.n = n /\ dc' = DcIdle /\ Report(n, "success") /\ published' = published \cup {n}
           \/ /\ Busy /\ dc.n = n /\ dc' = [dc EXCEPT !.st = "failed"] /\ Report(n, "mismatch") /\ UNCHANGED published
           \/ /\ Busy /\ dc.n = n /\ dc' = [st |-> "failed", n |-> n, got |-> 0] /\ Report(n, "hard")
              /\ UNCHANGED published
    BY DEF DCommit, Failed, Busy
  <1>2. m.type \in {"FileCommit", "DeltaCommit"} /\ OfDisk(m) /\ UNCHANGED <<Plain, Markers, decision>>
    BY <1>1, DcEffect
  <1>3. m.type \in Commits /\ n \in Plain /\ n \in Ndx
    BY <1>2 DEF Commits, OfDisk, Stops, Plain
  <1>4. CASE UNCHANGED <<dc, dcAcks, published>>
    <2>1. /\ Commands(dcq)'
          /\ UNCHANGED <<conn, net, sender, receiver, completedPaths, terminated, outcome, active, decision, rPhase>>
          /\ UNCHANGED <<Links, Markers, Plain, Requests>>
          /\ UNCHANGED <<Asked, Working, Redoing, Told, Ending, InData, Opening, Failing, Closing, Beginning>>
          /\ Queued' \subseteq Queued /\ Awaiting' = Awaiting
          /\ DcAcksOk' /\ UNCHANGED <<Good, Bad, Broken>> /\ Underway' = Underway
      BY <1>1, <1>2, <1>3, <1>4, DcEffect DEF Begins
    <2>2. Entries'
      <3> SUFFICES ASSUME NEW x \in Ndx PROVE Entry(x)'
        BY DEF Entries
      <3>1. Entry(x)
        BY DEF IInv, Entries
      <3> QED
        BY <1>4, <2>1, <3>1, Still
    <2> QED
      BY <1>4, <2>1, <2>2, DiskStep DEF IInv, Shape, Busy
  <1>5. ASSUME Busy, dc.n = n, NEW o \in {"success", "mismatch", "hard"}, Report(n, o),
               dc' = [st |-> dc'.st, n |-> dc'.n, got |-> dc'.got], dc'.st \in {"idle", "failed"},
               published' = IF o = "success" THEN published \cup {n} ELSE published
        PROVE  IInv'
    <2>1. Underway = {n} /\ ~Busy' /\ Underway' = {}
      BY <1>5 DEF Busy, Underway
    <2>2. n \in Queued /\ n \notin Links
      BY <1>1, <1>3, DcEffect DEF Plain, Links
    <2>3. n \notin Good \cup Bad
      BY <1>3, <2>2, AtCommit
    <2>4. DcAcksOk' /\ Good' = Good \cup (IF o = "success" THEN {n} ELSE {})
          /\ Bad' = Bad \cup (IF o = "mismatch" THEN {n} ELSE {})
          /\ Broken' = Broken \cup (IF o = "hard" THEN {n} ELSE {})
      BY <1>2, <1>3, <1>5, <2>3, Reported DEF IInv, Queues
    <2>5. \/ Good' = Good \cup {n} /\ UNCHANGED <<Bad, Broken>> /\ published' = published \cup {n}
          \/ n \in Plain /\ Bad' = Bad \cup {n} /\ UNCHANGED <<Good, Broken, published>>
          \/ Broken' = Broken \cup {n} /\ UNCHANGED <<Good, Bad, published>>
      BY <1>3, <1>5, <2>4
    <2> QED
      BY <1>1, <1>3, <1>5, <2>1, <2>4, <2>5, Committed
  <1>6. CASE Busy /\ dc.n = n /\ dc' = DcIdle /\ Report(n, "success") /\ published' = published \cup {n}
    BY <1>5, <1>6, DcStates
  <1>7. CASE Busy /\ dc.n = n /\ dc' = [dc EXCEPT !.st = "failed"] /\ Report(n, "mismatch") /\ UNCHANGED published
    <2>1. dc = [st |-> dc.st, n |-> dc.n, got |-> dc.got]
      BY DEF IInv, Shape
    <2>2. dc' = [st |-> "failed", n |-> dc.n, got |-> dc.got]
      BY <1>7, <2>1
    <2>3. dc' = [st |-> dc'.st, n |-> dc'.n, got |-> dc'.got] /\ dc'.st = "failed"
      BY <2>2
    <2> QED
      BY <1>5, <1>7, <2>3
  <1>8. CASE /\ Busy /\ dc.n = n /\ dc' = [st |-> "failed", n |-> n, got |-> 0] /\ Report(n, "hard")
             /\ UNCHANGED published
    <2>1. dc' = [st |-> dc'.st, n |-> dc'.n, got |-> dc'.got] /\ dc'.st = "failed"
      BY <1>8, DcStates
    <2> QED
      BY <1>5, <1>8, <2>1
  <1> QED
    BY <1>1, <1>4, <1>6, <1>7, <1>8

LEMMA MarkerKeeps == ASSUME IInv, DMarker PROVE IInv'
  <1> PICK m, n : m = Head(dcq) /\ n = m.n
    OBVIOUS
  <1>1. /\ Dc({"WriteDeleteMarker"}) /\ UNCHANGED dc
        /\ \/ Report(n, "success") /\ published' = published \cup {n}
           \/ Report(n, "hard") /\ UNCHANGED published
    BY DEF DMarker
  <1>2. m.type = "WriteDeleteMarker" /\ OfDisk(m) /\ UNCHANGED <<Plain, Markers, decision>> /\ Underway' = Underway
    BY <1>1, DcEffect
  <1>3. m.type \in Commits /\ n \in Markers /\ n \in Ndx /\ n \notin Plain /\ n \notin Links
    BY <1>2 DEF Commits, OfDisk, Plain, Markers, Links
  <1>4. n \in Queued
    BY <1>1, <1>3, DcEffect
  <1>5. n \notin Good \cup Bad
    BY <1>3, <1>4, AtCommit
  <1>6. PICK o \in {"success", "hard"} :
            Report(n, o) /\ published' = IF o = "success" THEN published \cup {n} ELSE published
    BY <1>1
  <1>7. DcAcksOk' /\ Good' = Good \cup (IF o = "success" THEN {n} ELSE {})
        /\ Bad' = Bad \cup (IF o = "mismatch" THEN {n} ELSE {})
        /\ Broken' = Broken \cup (IF o = "hard" THEN {n} ELSE {})
    BY <1>2, <1>3, <1>5, <1>6, Reported DEF IInv, Queues
  <1>8. \/ Good' = Good \cup {n} /\ UNCHANGED <<Bad, Broken>> /\ published' = published \cup {n}
        \/ n \in Plain /\ Bad' = Bad \cup {n} /\ UNCHANGED <<Good, Broken, published>>
        \/ Broken' = Broken \cup {n} /\ UNCHANGED <<Good, Bad, published>>
    BY <1>6, <1>7
  <1>9. n \notin Underway
    BY <1>3 DEF IInv, Shape, Underway
  <1>10. dc' = [st |-> dc'.st, n |-> dc'.n, got |-> dc'.got] /\ (Busy' => dc'.n \in Plain)
    BY <1>1 DEF IInv, Shape, Busy
  <1> QED
    BY <1>1, <1>2, <1>3, <1>7, <1>8, <1>9, <1>10, Committed

LEMMA StopKeeps == ASSUME IInv, DStop PROVE IInv'
  <1>1. Dc({"AbortFile", "Shutdown"}) /\ dc' = DcIdle /\ UNCHANGED <<dcAcks, published>>
    BY DEF DStop
  <1>2. dc' = [st |-> dc'.st, n |-> dc'.n, got |-> dc'.got] /\ ~Busy' /\ Underway' = {}
    BY <1>1, DcStates DEF Busy, Underway
  <1> PICK m : m = Head(dcq)
    OBVIOUS
  <1>3. m.type \in {"AbortFile", "Shutdown"}
    BY <1>1, DcEffect
  <1>4. m.type \notin Commits /\ m.type \notin Begins
    BY <1>3 DEF Commits, Begins
  <1>5. /\ Commands(dcq)'
        /\ UNCHANGED <<conn, net, sender, receiver, completedPaths, terminated, outcome, active, decision, rPhase>>
        /\ UNCHANGED <<Links, Markers, Plain, Requests>>
        /\ UNCHANGED <<Asked, Working, Redoing, Told, Ending, InData, Opening, Failing, Closing, Beginning>>
        /\ Queued' = Queued /\ Awaiting' = Awaiting
        /\ DcAcksOk' /\ UNCHANGED <<Good, Bad, Broken>>
    BY <1>1, <1>4, DcEffect
  <1>6. Entries'
    <2> SUFFICES ASSUME NEW x \in Ndx PROVE Entry(x)'
      BY DEF Entries
    <2>1. Entry(x)
      BY DEF IInv, Entries
    <2> QED
      BY <1>1, <1>2, <1>5, <2>1, Still
  <1>7. published' \subseteq Plain \cup Markers
    BY <1>1 DEF IInv, Shape
  <1> QED
    BY <1>2, <1>5, <1>6, <1>7, DiskStep
-----------------------------------------------------------------------------
(* Pages.                                                                  *)

LEMMA JoinedTo ==
    ASSUME NEW q, IsSeq(q), NEW r, IsSeq(r), NEW T
    PROVE  /\ IsSeq(q \o r) /\ About(q \o r, T) = About(q, T) \cup About(r, T)
           /\ Solo(q, T) /\ Solo(r, T) /\ About(q, T) \cap About(r, T) = {} => Solo(q \o r, T)
  <1> DEFINE U == Range(q) \cup Range(r)
             t == q \o r
  <1>1. q \in Seq(U) /\ r \in Seq(U)
    <2>1. q \in Seq(Range(q)) /\ r \in Seq(Range(r))
      BY DEF IsSeq
    <2> QED
      BY <2>1
  <1> HIDE DEF U
  <1>2. /\ t \in Seq(U) /\ Len(t) = Len(q) + Len(r) /\ Len(q) \in Nat /\ Len(r) \in Nat
        /\ \A i \in 1..Len(q) + Len(r) : t[i] = IF i <= Len(q) THEN q[i] ELSE r[i - Len(q)]
    BY <1>1, ConcatProperties
  <1>3. IsSeq(t)
    BY <1>2, ElementsOf
  <1> HIDE DEF t
  <1>4. \A i \in 1..Len(t) : \/ i \in 1..Len(q) /\ t[i] = q[i]
                             \/ i \notin 1..Len(q) /\ i - Len(q) \in 1..Len(r) /\ t[i] = r[i - Len(q)]
    BY <1>2
  <1>5. About(t, T) \subseteq About(q, T) \cup About(r, T)
    BY <1>4 DEF About
  <1>8. About(q, T) \cup About(r, T) \subseteq About(t, T)
    <2>1. \A i \in 1..Len(q) : i \in 1..Len(t) /\ t[i] = q[i]
      BY <1>2
    <2>2. \A i \in 1..Len(r) : Len(q) + i \in 1..Len(t) /\ t[Len(q) + i] = r[i]
      <3> SUFFICES ASSUME NEW i \in 1..Len(r) PROVE Len(q) + i \in 1..Len(t) /\ t[Len(q) + i] = r[i]
        OBVIOUS
      <3>1. Len(r) \in Nat
        BY <1>1
      <3>2. Len(q) + i \in 1..Len(q) + Len(r) /\ ~(Len(q) + i <= Len(q)) /\ Len(q) + i - Len(q) = i
        BY <1>2, <3>1
      <3> QED
        BY <1>2, <3>2
    <2> QED
      BY <2>1, <2>2 DEF About
  <1>6. ASSUME Solo(q, T), Solo(r, T), About(q, T) \cap About(r, T) = {},
               NEW i \in 1..Len(t), NEW j \in 1..Len(t),
               t[i].type \in T, t[j].type \in T, t[i].n = t[j].n
        PROVE  i = j
    <2>1. CASE i \in 1..Len(q) /\ j \in 1..Len(q)
      BY <1>4, <1>6, <2>1 DEF Solo
    <2>2. CASE i \notin 1..Len(q) /\ j \notin 1..Len(q)
      <3>1. i - Len(q) = j - Len(q)
        BY <1>4, <1>6, <2>2 DEF Solo
      <3> QED
        BY <1>2, <3>1
    <2>3. CASE i \in 1..Len(q) /\ j \notin 1..Len(q)
      <3>1. t[i].n \in About(q, T) /\ t[j].n \in About(r, T)
        BY <1>4, <1>6, <2>3 DEF About
      <3> QED
        BY <1>6, <3>1
    <2>4. CASE i \notin 1..Len(q) /\ j \in 1..Len(q)
      <3>1. t[j].n \in About(q, T) /\ t[i].n \in About(r, T)
        BY <1>4, <1>6, <2>4 DEF About
      <3> QED
        BY <1>6, <3>1
    <2> QED
      BY <2>1, <2>2, <2>3, <2>4
  <1>7. Solo(q, T) /\ Solo(r, T) /\ About(q, T) \cap About(r, T) = {} => Solo(t, T)
    BY <1>6 DEF Solo
  <1> QED
    BY <1>3, <1>5, <1>7, <1>8 DEF t

\* What the receiver answers to the entries of a page.
LEMMA Answers ==
    ASSUME NEW S, IsFiniteSet(S), NEW o \in Orders(S), NEW ch
    PROVE  /\ IsSeq(InOrder(o, ch)) /\ Solo(InOrder(o, ch), Requested)
           /\ About(InOrder(o, ch), Requested) \subseteq {n \in S : Wanted(ch[n])}
           /\ About(InOrder(o, ch), {"RequestsDone"}) = {} /\ About(InOrder(o, ch), Replies) = S
           /\ IsSeq(Errors(o)) /\ Solo(Errors(o), {"EntryError"}) /\ About(Errors(o), {"EntryError"}) = S
           /\ \A T : "EntryError" \notin T => About(Errors(o), T) = {} /\ Solo(Errors(o), T)
  <1> DEFINE K == Cardinality(S)
             r == InOrder(o, ch)
             e == Errors(o)
  <1>1. K \in Nat
    BY FS_CardinalityType
  <1>2. /\ o \in [1..K -> S] /\ \A i, j \in 1..K : o[i] = o[j] => i = j
        /\ \A x \in S : \E i \in 1..K : o[i] = x
    BY DEF Orders, Bijection, Injection, Surjection, IsInjective
  <1> HIDE DEF K
  <1>3. o \in Seq(S) /\ Len(o) = K
    BY <1>1, <1>2
  <1>4. r = [i \in 1..K |-> Reply(o[i], ch[o[i]])] /\ e = [i \in 1..K |-> Msg("EntryError", o[i])]
    BY <1>3 DEF InOrder, Errors
  <1> HIDE DEF r, e
  <1>5. ASSUME NEW f, f = [i \in 1..K |-> f[i]] PROVE IsSeq(f) /\ Len(f) = K
    <2>1. f \in [1..K -> Range(f)]
      BY <1>5 DEF Range
    <2>2. f \in Seq(Range(f)) /\ Len(f) = K
      BY <1>1, <2>1
    <2> QED
      BY <2>2 DEF IsSeq
  <1>6. IsSeq(r) /\ Len(r) = K /\ IsSeq(e) /\ Len(e) = K
    BY <1>4, <1>5
  <1>7. \A i \in 1..K : /\ r[i].n = o[i] /\ r[i].type = IF Wanted(ch[o[i]]) THEN "TransferRequest" ELSE "Classified"
                        /\ e[i].type = "EntryError" /\ e[i].n = o[i]
    BY <1>4 DEF Reply, Msg, MsgK
  <1>8. About(r, Requested) \subseteq {n \in S : Wanted(ch[n])} /\ About(r, {"RequestsDone"}) = {}
    BY <1>2, <1>6, <1>7 DEF About, Requested
  <1>9. Solo(r, Requested)
    BY <1>2, <1>6, <1>7 DEF Solo, Requested
  <1>10. About(r, Replies) = S
    <2>1. \A i \in 1..Len(r) : r[i].type \in Replies /\ r[i].n = o[i] /\ o[i] \in S
      BY <1>2, <1>6, <1>7 DEF Replies
    <2> QED
      BY <1>2, <1>6, <2>1 DEF About
  <1>11. \A i \in 1..Len(e) : e[i].type = "EntryError" /\ e[i].n = o[i] /\ o[i] \in S
    BY <1>2, <1>6, <1>7
  <1>12. \A T : "EntryError" \notin T => About(e, T) = {} /\ Solo(e, T)
    BY <1>11 DEF About, Solo
  <1>13. About(e, {"EntryError"}) = S
    BY <1>2, <1>6, <1>11 DEF About
  <1>14. Solo(e, {"EntryError"})
    BY <1>2, <1>6, <1>11 DEF Solo
  <1> QED
    BY <1>6, <1>8, <1>9, <1>10, <1>12, <1>13, <1>14 DEF r, e

\* Whatever is somewhere has been requested.
LEMMA Placed ==
    ASSUME IInv, NEW n \in Ndx, n \notin Requests
    PROVE  /\ n \notin Asked \cup Working \cup Ending \cup Closing \cup Queued \cup Good \cup Bad \cup Redoing \cup Failing
           /\ n \notin Beginning \cup Awaiting \cup Underway \cup Broken
           /\ n \notin InData /\ n \notin Opening /\ n \notin published /\ n \notin terminated
           /\ outcome[n] = "none" /\ n \notin Told \cup completedPaths
  <1>1. n \notin Plain /\ n \notin Markers /\ n \notin Links
    BY DEF Plain, Markers, Links, Requests, Wanted
  <1>2. n \notin Asked \cup Redoing \cup Failing
    BY <1>1 DEF IInv, Queues, CtlOk, BackOk, AcksOk
  <1>3. n \notin Working \cup Underway /\ n \notin published
    BY <1>1 DEF IInv, Shape, Working, Underway
  <1>4. n \notin InData
    BY <1>1 DEF IInv, Queues, DataOk, OfData, InData
  <1>5. n \notin Ending /\ n \notin Opening
    BY <1>4 DEF Ending, Opening, InData, About
  <1>6. n \notin Closing \cup Queued \cup Beginning \cup Awaiting
    BY <1>1, CommandEntries DEF IInv, Queues, Closing, Queued, Beginning, Awaiting
  <1>7. n \notin Good \cup Bad \cup Broken
    BY <1>1 DEF IInv, Queues, DcAcksOk, Good, Bad, Broken, About
  <1>8. outcome[n] = "none" /\ n \notin terminated /\ n \notin Told \cup completedPaths
    BY DEF IInv, Entries, Entry, Booked
  <1> QED
    BY <1>2, <1>3, <1>4, <1>5, <1>6, <1>7, <1>8

\* More is decided: what is somewhere is there for the same reason.
LEMMA QueuesGrow ==
    ASSUME Queues, Links \subseteq Links', Markers \subseteq Markers', Plain \subseteq Plain', Requests \subseteq Requests',
           UNCHANGED <<ctl, data, toDisk, dcq, dcAcks>>, BackOk', AcksOk'
    PROVE  Queues'
  <1>1. CtlOk'
    BY Unmoved DEF Queues, CtlOk
  <1>2. DataOk'
    <2>1. \A i \in 1..Len(data) : OfData(data[i])'
      BY DEF Queues, DataOk, OfData
    <2> QED
      BY <2>1 DEF Queues, DataOk, Ends, OfData
  <1>3. Commands(toDisk)' /\ Commands(dcq)'
    BY DEF Queues, Commands, OfDisk, Stops, Solo, Commits, Begins
  <1>4. DcAcksOk'
    BY Unmoved DEF Queues, DcAcksOk
  <1> QED
    BY <1>1, <1>2, <1>3, <1>4 DEF Queues

LEMMA RequestsGrow ==
    ASSUME requested = Cardinality(Requests), NEW W \in SUBSET Ndx, W \cap Requests = {}, Requests' = Requests \cup W,
           requested' = requested + Cardinality(W)
    PROVE  requested' = Cardinality(Requests')
  <1>1. IsFiniteSet(W) /\ IsFiniteSet(Requests) /\ Cardinality(W) \in Nat /\ Cardinality(Requests) \in Nat
    BY Counts, NdxAssumption, FS_Subset, FS_CardinalityType
  <1>2. Cardinality(Requests \cup W) = Cardinality(Requests) + Cardinality(W) - Cardinality(Requests \cap W)
    BY <1>1, FS_Union
  <1>3. Requests \cap W = {}
    OBVIOUS
  <1>4. Cardinality(Requests \cap W) = 0
    BY <1>3, FS_EmptySet
  <1> QED
    BY <1>1, <1>2, <1>4

LEMMA PageKeeps == ASSUME IInv, RPage PROVE IInv'
  <1> PICK m : m = Head(list)
    OBVIOUS
  <1> DEFINE p == Pages[Head(list).n]
  <1>1. /\ list # <<>> /\ m.type = "FilePage" /\ list' = Tail(list) /\ conn /\ rPhase = "Loop" /\ toDisk = <<>>
        /\ UNCHANGED <<conn, ctl, data, sender, rPhase, completed, doneSeen, terminated, outcome, active, toDisk,
                       dcq, dc, dcAcks, published>>
    BY DEF RPage, AtSelect, Is, disk
  <1>2. UNCHANGED <<advPos, job, completedPaths>>
    BY <1>1 DEF sender, sLedger
  <1>3. PICK ch \in [p -> Classes] :
          LET bad == {n \in p : ch[n] = "metaFailed"} IN
          /\ decision' = [n \in Ndx |-> IF n \in p THEN ch[n] ELSE decision[n]]
          /\ \E o \in Orders(p \ bad) : back' = back \o InOrder(o, ch)
          /\ \E o \in Orders(bad) : acks' = acks \o Errors(o)
          /\ requested' = requested + Cardinality({n \in p : Wanted(ch[n])})
    BY DEF RPage
  <1> DEFINE bad == {n \in p : ch[n] = "metaFailed"}
             W   == {n \in p : Wanted(ch[n])}
  <1>4. Listed(m) = p
    BY <1>1 DEF Listed
  <1> HIDE DEF p
  <1>5. /\ decision' \in [Ndx -> Classes \cup {"none", "lost"}]
        /\ \A n \in Ndx : IF n \in p THEN decision'[n] = ch[n] /\ ch[n] \in Classes ELSE decision'[n] = decision[n]
    BY <1>3 DEF IInv, Shape
  <1>6. \A n \in Ndx : IF n \in Listed(Head(list)) THEN decision'[n] # "none" ELSE decision'[n] = decision[n]
    BY <1>4, <1>5 DEF Classes
  <1>7. /\ \A n \in Listed(Head(list)) : n \in Ndx /\ decision[n] = "none"
        /\ AllDecided => AllDecided'
        /\ \A k \in 1..Len(Pages) :
              /\ Ahead(k)' => \A n \in Pages[k] : decision'[n] = "none"
              /\ conn /\ ~Ahead(k)' => \A n \in Pages[k] : decision'[n] # "none"
    BY <1>1, <1>2, <1>6, PagesTaken DEF IInv
  <1>8. \A n \in p : n \in Ndx /\ decision[n] = "none"
    BY <1>4, <1>7
  <1>9. /\ Links \subseteq Links' /\ Markers \subseteq Markers' /\ Plain \subseteq Plain' /\ Requests \subseteq Requests'
        /\ \A n \in Ndx : n \notin p => /\ n \in Links' <=> n \in Links
                                        /\ n \in Plain' <=> n \in Plain
    BY <1>5, <1>8 DEF Links, Markers, Plain, Requests, Wanted
  <1>10. W \subseteq Ndx /\ W \cap Requests = {} /\ Requests' = Requests \cup W /\ p \cap Requests = {}
    BY <1>5, <1>8 DEF Requests, Wanted
  <1>11. IsFiniteSet(bad) /\ IsFiniteSet(p \ bad)
    BY <1>8, NdxAssumption, FS_Subset
  <1>12. BackOk' /\ Asked' \subseteq Asked \cup W /\ Informed' \subseteq Informed
    <2>1. PICK o \in Orders(p \ bad) : back' = back \o InOrder(o, ch)
      BY <1>3
    <2> PICK r : r = InOrder(o, ch)
      OBVIOUS
    <2>2. /\ IsSeq(r) /\ Solo(r, Requested) /\ About(r, Requested) \subseteq {n \in p \ bad : Wanted(ch[n])}
          /\ About(r, {"RequestsDone"}) = {}
      BY <1>11, Answers
    <2>3. back' = back \o r /\ IsSeq(back) /\ Solo(back, Requested) /\ About(back, Requested) \subseteq Requests
      BY <2>1 DEF IInv, Queues, BackOk, Asked
    <2>4. About(r, Requested) \subseteq W
      BY <2>2
    <2> HIDE DEF W
    <2>5. About(back, Requested) \cap About(r, Requested) = {}
      BY <1>10, <2>3, <2>4
    <2>6. IsSeq(back') /\ Solo(back', Requested) /\ About(back', Requested) \subseteq About(back, Requested) \cup About(r, Requested)
      BY <2>2, <2>3, <2>5, JoinedTo
    <2>7. About(back', {"RequestsDone"}) \subseteq About(back, {"RequestsDone"}) \cup About(r, {"RequestsDone"})
      BY <2>2, <2>3, JoinedTo
    <2>8. Asked' \subseteq Asked \cup W /\ Informed' \subseteq Informed
      BY <2>2, <2>4, <2>6, <2>7 DEF Asked, Informed, Requested
    <2>9. Asked' \subseteq Requests'
      BY <1>10, <2>8 DEF IInv, Queues, BackOk
    <2> QED
      BY <2>6, <2>8, <2>9 DEF BackOk, Requested
  <1>13. AcksOk' /\ Redoing' \subseteq Redoing /\ Told' \subseteq Told
    <2>1. PICK o \in Orders(bad) : acks' = acks \o Errors(o)
      BY <1>3
    <2> PICK r : r = Errors(o)
      OBVIOUS
    <2>2. /\ IsSeq(r) /\ Solo(r, {"Redo"}) /\ About(r, {"Redo"}) = {} /\ About(r, {"Success"}) = {}
      BY <1>11, Answers
    <2>3. acks' = acks \o r /\ IsSeq(acks) /\ Solo(acks, {"Redo"})
      BY <2>1 DEF IInv, Queues, AcksOk
    <2>4. IsSeq(acks') /\ Solo(acks', {"Redo"}) /\ About(acks', {"Redo"}) \subseteq About(acks, {"Redo"}) \cup About(r, {"Redo"})
      BY <2>2, <2>3, JoinedTo
    <2>5. About(acks', {"Success"}) \subseteq About(acks, {"Success"}) \cup About(r, {"Success"})
      BY <2>2, <2>3, JoinedTo
    <2>6. Redoing' \subseteq Redoing /\ Told' \subseteq Told
      BY <2>2, <2>4, <2>5 DEF Redoing, Told
    <2> QED
      BY <1>9, <2>4, <2>6 DEF AcksOk, IInv, Queues
  <1>14. UNCHANGED <<Working, Ending, InData, Opening, Closing, Beginning, Queued, Awaiting, Good, Bad, Broken, Failing,
                     Finished, Underway>>
    BY <1>1, <1>2, Unmoved
  <1>15. Shape'
    BY <1>1, <1>2, <1>5, <1>9 DEF IInv, Shape, Busy
  <1>16. Queues'
    BY <1>1, <1>9, <1>12, <1>13, QueuesGrow DEF IInv
  <1>17. Entries'
    <2> SUFFICES ASSUME NEW n \in Ndx PROVE Entry(n)'
      BY DEF Entries
    <2>1. Entry(n)
      BY DEF IInv, Entries
    <2>2. CASE n \notin p
      <3>1. n \notin W
        BY <2>2
      <3> QED
        BY <1>1, <1>2, <1>9, <1>12, <1>13, <1>14, <2>1, <2>2, <3>1, Still
    <2>3. CASE n \in p
      <3>1. n \notin Requests
        BY <1>10, <2>3
      <3>2. /\ n \notin Asked \cup Working \cup Ending \cup Closing \cup Queued \cup Good \cup Bad \cup Redoing \cup Failing
            /\ n \notin Beginning \cup Awaiting \cup Underway \cup Broken
            /\ n \notin InData /\ n \notin Opening /\ n \notin published /\ n \notin terminated
            /\ outcome[n] = "none" /\ n \notin Told \cup completedPaths
        BY <3>1, Placed
      <3>3. OnePlace(n)' /\ OneMark(n)'
        BY <1>13, <1>14, <3>2 DEF OnePlace, OneMark
      <3>4. Begun(n)'
        BY <1>14, <3>2 DEF Begun, Marked
      <3>5. Lasting(n)'
        BY <1>1, <1>14, <3>2 DEF Lasting
      <3>6. Booked(n)'
        BY <1>1, <1>2, <1>13, <3>2 DEF Booked
      <3> QED
        BY <3>3, <3>4, <3>5, <3>6 DEF Entry
    <2> QED
      BY <2>2, <2>3
  <1>18. Ledger'
    <2>1. requested' = Cardinality(Requests')
      BY <1>3, <1>10, RequestsGrow DEF IInv, Ledger
    <2> QED
      BY <1>1, <2>1, Unmoved DEF IInv, Ledger
  <1>19. ListOk'
    BY <1>1, <1>2, ListTaken DEF IInv
  <1>20. Paged'
    BY <1>1, <1>7, <1>12, <1>14 DEF IInv, Paged
  <1> QED
    BY <1>15, <1>16, <1>17, <1>18, <1>19, <1>20 DEF IInv

-----------------------------------------------------------------------------
(* The invariant.                                                          *)

LEMMA InitKeeps == Init => IInv
  <1> SUFFICES ASSUME Init PROVE IInv
    OBVIOUS
  <1> PICK m : m = Msg("SessionConfig", 0)
    OBVIOUS
  <1>1. /\ conn = TRUE /\ ctl = <<m>> /\ list = <<>> /\ data = <<>> /\ back = <<>> /\ acks = <<>>
        /\ advPos = 0 /\ job = NoJob /\ rPhase = "Config" /\ doneSeen = FALSE /\ requested = 0 /\ completed = 0
        /\ terminated = {} /\ published = {} /\ completedPaths = {} /\ active = Idle /\ dc = DcIdle
        /\ toDisk = <<>> /\ dcq = <<>> /\ dcAcks = <<>>
        /\ decision = [n \in Ndx |-> "none"] /\ outcome = [n \in Ndx |-> "none"]
    BY DEF Init
  <1>2. m.type = "SessionConfig"
    BY DEF Msg
  <1>3. IsSeq(<<>>) /\ (\A T : About(<<>>, T) = {} /\ Solo(<<>>, T)) /\ \A i \in 1..Len(<<>>) : FALSE
    BY EmptyOf
  <1>4. IsSeq(ctl) /\ \A T : m.type \notin T => About(ctl, T) = {} /\ Solo(ctl, T)
    <2>1. Append(<<>>, m) = <<m>>
      OBVIOUS
    <2>2. IsSeq(Append(<<>>, m))
      BY <1>3, AppendOf
    <2>3. ASSUME NEW T, m.type \notin T PROVE About(Append(<<>>, m), T) = {} /\ Solo(Append(<<>>, m), T)
      <3>1. IsSeq(<<>>) /\ About(<<>>, T) = {} /\ Solo(<<>>, T)
        BY <1>3
      <3>2. /\ About(Append(<<>>, m), T) = About(<<>>, T) \cup (IF m.type \in T THEN {m.n} ELSE {})
            /\ Solo(<<>>, T) /\ (m.type \in T => m.n \notin About(<<>>, T)) => Solo(Append(<<>>, m), T)
        BY <3>1, AddedTo
      <3> QED
        BY <2>3, <3>1, <3>2
    <2> QED
      BY <1>1, <2>1, <2>2, <2>3
  <1>5. /\ Failing = {} /\ Finished = {} /\ Asked = {} /\ Informed = {} /\ Redoing = {} /\ Told = {}
        /\ Ending = {} /\ Opening = {} /\ Closing = {} /\ Beginning = {} /\ Queued = {} /\ Awaiting = {}
        /\ Good = {} /\ Bad = {} /\ Broken = {}
    BY <1>1, <1>2, <1>3, <1>4 DEF Failing, Finished, Asked, Informed, Redoing, Told, Ending, Opening, Closing,
       Beginning, Queued, Awaiting, Good, Bad, Broken
  <1>6. InData = {} /\ Working = {} /\ Underway = {} /\ ~Busy
    BY <1>1, <1>3 DEF InData, Working, Underway, Busy, DcIdle
  <1>7. \A n \in Ndx : decision[n] = "none" /\ outcome[n] = "none"
    BY <1>1
  <1>8. Requests = {} /\ Settled = {}
    BY <1>7 DEF Requests, Settled, Wanted
  <1>9. Shape
    BY <1>1, <1>6 DEF Shape, NoJob, Idle, DcIdle, Classes
  <1>10. Queues
    BY <1>1, <1>2, <1>3, <1>4, <1>5 DEF Queues, CtlOk, BackOk, AcksOk, DataOk, Commands, DcAcksOk
  <1>11. Entries
    BY <1>1, <1>5, <1>6, <1>7 DEF Entries, Entry, OnePlace, OneMark, Begun, Lasting, Booked, Marked, Held
  <1>12. Ledger
    BY <1>1, <1>8, FS_EmptySet DEF Ledger
  <1>13. ListOk
    BY <1>1, <1>3 DEF ListOk
  <1>14. Paged
    <2>1. \A k \in 1..Len(Pages) : Pages[k] \subseteq Ndx /\ Ahead(k)
      BY <1>1, PagesAssumption DEF Ahead
    <2> QED
      BY <1>1, <1>5, <1>7, <2>1 DEF Paged
  <1> QED
    BY <1>9, <1>10, <1>11, <1>12, <1>13, <1>14 DEF IInv

LEMMA StutterKeeps == ASSUME IInv, UNCHANGED vars PROVE IInv'
  <1>1. UNCHANGED <<conn, list, data, acks, back, ctl, sender, receiver, disk>>
    BY DEF vars, net
  <1>2. UNCHANGED <<advPos, job, completedPaths>> /\ UNCHANGED <<rPhase, decision, requested, completed, doneSeen, terminated,
                    outcome, active, toDisk, dcq, dc, dcAcks, published>>
    BY <1>1 DEF sender, sLedger, receiver, rLedger, disk
  <1>3. Shape'
    BY <1>1, <1>2, Unmoved DEF IInv, Shape, Busy
  <1>4. Queues'
    BY <1>1, <1>2, QueuesStay DEF IInv, Queues
  <1>5. Entries'
    <2> SUFFICES ASSUME NEW n \in Ndx PROVE Entry(n)'
      BY DEF Entries
    <2>1. Entry(n)
      BY DEF IInv, Entries
    <2> QED
      BY <1>1, <1>2, <2>1, Unmoved, Still
  <1>6. Ledger'
    BY <1>2, LedgerStays DEF IInv
  <1>7. ListOk' /\ Paged'
    BY <1>1, <1>2, PagesStay, Unmoved DEF IInv
  <1> QED
    BY <1>3, <1>4, <1>5, <1>6, <1>7 DEF IInv

LEMMA NextKeeps == IInv /\ [Next]_vars => IInv'
  <1> SUFFICES ASSUME IInv, [Next]_vars PROVE IInv'
    OBVIOUS
  <1>1. CASE UNCHANGED vars
    BY <1>1, StutterKeeps
  <1>2. CASE Advertise \/ SSourceFails \/ FilterGrant \/ Lose
    BY <1>2, AdvertiseKeeps, SEndsKeeps, ClosesKeeps
  <1>3. CASE SenderLoop
    <2>1. CASE SRequest \/ SClassified \/ SRequestsDone \/ SRedo \/ SSuccess \/ SEntryError \/ SError
      BY <2>1, SRequestKeeps, SReadsBack, SRedoKeeps, SReadsAcks
    <2>2. CASE SAllDone \/ SChunk \/ SEndOfFile \/ SConnectionLost
      BY <2>2, ClosesKeeps, SChunkKeeps, SEndsKeeps
    <2> QED
      BY <1>3, <2>1, <2>2 DEF SenderLoop
  <1>4. CASE ReceiverLoop
    <2>1. CASE RConfig \/ RConfigLost \/ RPage \/ RFail \/ RListDone \/ RFinish
      BY <2>1, ConfigKeeps, FinishKeeps, PageKeeps, FailKeeps, ListDoneKeeps
    <2>2. CASE RFileBegin \/ RFileData \/ RDeltaToken \/ REndOfFile \/ RDeleteMarker
      BY <2>2, FileBeginKeeps, FileDataKeeps, DeltaTokenKeeps, EndOfFileKeeps, DeleteMarkerKeeps
    <2>3. CASE RSymlink \/ RTransferDone \/ RSourceFailure \/ ROutcome \/ REnqueue
      BY <2>3, SymlinkKeeps, TransferDoneKeeps, SourceFailureKeeps, OutcomeKeeps, EnqueueKeeps
    <2> QED
      BY <1>4, <2>1, <2>2, <2>3 DEF ReceiverLoop
  <1>5. CASE DiskCommit
    BY <1>5, BeginKeeps, PushKeeps, CommitKeeps, MarkerKeeps, StopKeeps DEF DiskCommit
  <1> QED
    BY <1>1, <1>2, <1>3, <1>4, <1>5 DEF Next

\* The places, the marks and the counters of every entry stay consistent
\* through every interleaving of the sender, the loop and the disk-commit task.
THEOREM SessionInvariant == Spec => []IInv
  <1>1. Init => IInv
    BY InitKeeps
  <1>2. IInv /\ [Next]_vars => IInv'
    BY NextKeeps
  <1> QED
    BY <1>1, <1>2, PTL DEF Spec

\* What TransferLedger and the sender's checkpoint call a success is durable at
\* the destination, what they call an error is not there, and the counters that
\* end the session count entries, each once.
THEOREM LedgerIsTrueAlways == Spec => []LedgerIsTrue
  <1>1. IInv => LedgerIsTrue
    <2> SUFFICES ASSUME IInv PROVE LedgerIsTrue
      OBVIOUS
    <2>1. VerdictMatchesDisk
      <3> SUFFICES ASSUME NEW n \in Ndx, Kind(n) # "link"
                   PROVE  /\ outcome[n] = "success" \/ n \in completedPaths => n \in published
                          /\ outcome[n] = "error" => n \notin published
        BY DEF VerdictMatchesDisk
      <3>1. n \notin Links
        BY DEF Kind, Links
      <3>2. Lasting(n) /\ Booked(n)
        BY DEF IInv, Entries, Entry
      <3> QED
        BY <3>1, <3>2 DEF Lasting, Booked
    <2>2. Settled \subseteq Requests
      BY DEF IInv, Entries, Entry, Booked, Settled
    <2> QED
      BY <2>1, <2>2 DEF LedgerIsTrue, CountsAreEntries, IInv, Ledger
  <1> QED
    BY <1>1, SessionInvariant, PTL

-----------------------------------------------------------------------------
(* The contract.                                                           *)

\* What a verdict means.
LEMMA Verdicts ==
    ASSUME NEW n \in Ndx
    PROVE  /\ decision[n] = "none" => VerdictOf(n) = "unseen"
           /\ decision[n] = "lost" => VerdictOf(n) = "overlooked"
           /\ decision[n] = "skip" => VerdictOf(n) = "left"
           /\ decision[n] = "metaFailed" => VerdictOf(n) = "error"
           /\ n \in Requests => VerdictOf(n) = IF outcome[n] = "none" THEN "pending" ELSE outcome[n]
  BY DEF VerdictOf, Requests, Wanted

\* A complete session has settled whatever it requested.
AllFinal == rPhase \in {"Drain", "Done"} => \A n \in Ndx : VerdictOf(n) \in Contract!Final

LEMMA AllSettled == IInv => AllFinal
  <1> SUFFICES ASSUME IInv, rPhase \in {"Drain", "Done"}, NEW n \in Ndx PROVE VerdictOf(n) \in Contract!Final
    BY DEF AllFinal
  <1>1. AllDecided /\ Cardinality(Settled) >= Cardinality(Requests)
    BY DEF IInv, Ledger, Paged
  <1>2. Settled \subseteq Requests
    BY DEF IInv, Entries, Entry, Booked, Settled
  <1>3. Settled = Requests
    <2>1. Cardinality(Settled) <= Cardinality(Requests)
      BY <1>2, Counts, FS_Subset
    <2>2. Cardinality(Settled) = Cardinality(Requests)
      BY <1>1, <2>1, Counts
    <2> QED
      BY <1>2, <2>2, Counts, FS_Subset
  <1>4. decision[n] \in Classes \cup {"lost"} /\ outcome[n] \in {"none", "success", "error"}
    BY <1>1 DEF AllDecided, IInv, Shape
  <1>5. CASE n \in Requests
    BY <1>3, <1>4, <1>5, Verdicts DEF Contract!Final, Settled
  <1>6. CASE n \notin Requests
    <2>1. decision[n] \in {"lost", "skip", "metaFailed"}
      BY <1>4, <1>6 DEF Requests, Wanted, Classes
    <2> QED
      BY <2>1, Verdicts DEF Contract!Final
  <1> QED
    BY <1>5, <1>6

\* A step that decides and settles nothing.
LEMMA Undecided ==
    ASSUME UNCHANGED <<decision, outcome>>
    PROVE  UNCHANGED [n \in Ndx |-> VerdictOf(n)]
  BY DEF VerdictOf

LEMMA ContractSettles ==
    ASSUME NEW n \in Requests, outcome[n] = "none", NEW v \in {"success", "error"}, Shape,
           UNCHANGED decision, outcome' = [outcome EXCEPT ![n] = v],
           \/ rPhase = "Loop" /\ rPhase' \in {"Loop", "Drain"}
           \/ rPhase = "Abort" /\ UNCHANGED rPhase,
           AllFinal'
    PROVE  Contract!Next
  <1> DEFINE V == [x \in Ndx |-> VerdictOf(x)]
  <1>1. n \in Ndx /\ UNCHANGED Requests
    BY DEF Requests, Wanted
  <1>2. outcome'[n] = v /\ \A x \in Ndx : x # n => outcome'[x] = outcome[x]
    BY <1>1 DEF Shape
  <1>3. VerdictOf(n) = "pending" /\ VerdictOf(n)' = v
    BY <1>1, <1>2 DEF VerdictOf, Requests, Wanted
  <1>4. \A x \in Ndx : x # n => VerdictOf(x)' = VerdictOf(x)
    BY <1>2 DEF VerdictOf
  <1>5. V' = [V EXCEPT ![n] = v] /\ V[n] = "pending"
    BY <1>1, <1>3, <1>4
  <1>6. ReportOf # "complete" /\ (UNCHANGED ReportOf \/ (ReportOf = "open" /\ ReportOf' = "complete" /\ rPhase' = "Drain"))
    BY DEF ReportOf
  <1>7. rPhase' = "Drain" => \A x \in Ndx : V'[x] \in Contract!Final
    BY DEF AllFinal
  <1>8. Contract!Settle
    BY <1>1, <1>5, <1>6, <1>7 DEF Contract!Settle, Contract!MayComplete
  <1> QED
    BY <1>8 DEF Contract!Next

\* A page is classified all at once.
LEMMA ContractClassifies ==
    ASSUME IInv, RPage
    PROVE  Contract!Next
  <1> DEFINE p == Pages[Head(list).n]
             V == [x \in Ndx |-> VerdictOf(x)]
             f == [x \in p |-> VerdictOf(x)']
  <1>1. PICK ch \in [p -> Classes] : decision' = [n \in Ndx |-> IF n \in p THEN ch[n] ELSE decision[n]]
    BY DEF RPage
  <1>2. list # <<>> /\ Head(list).type = "FilePage" /\ list' = Tail(list) /\ conn /\ rPhase = "Loop"
        /\ UNCHANGED <<conn, rPhase, outcome, advPos>>
    BY DEF RPage, AtSelect, Is, sender
  <1>3. Listed(Head(list)) = p
    BY <1>2 DEF Listed
  <1> HIDE DEF p
  <1>4. \A n \in Ndx : IF n \in p THEN decision'[n] = ch[n] /\ ch[n] \in Classes ELSE decision'[n] = decision[n]
    BY <1>1
  <1>5. \A n \in Ndx : IF n \in Listed(Head(list)) THEN decision'[n] # "none" ELSE decision'[n] = decision[n]
    BY <1>3, <1>4 DEF Classes
  <1>6. \A n \in Listed(Head(list)) : n \in Ndx /\ decision[n] = "none"
    BY <1>2, <1>5, PagesTaken DEF IInv
  <1>7. \A n \in p : n \in Ndx /\ VerdictOf(n) = "unseen" /\ outcome[n] = "none"
    <2> SUFFICES ASSUME NEW n \in p PROVE n \in Ndx /\ VerdictOf(n) = "unseen" /\ outcome[n] = "none"
      OBVIOUS
    <2>1. n \in Ndx /\ decision[n] = "none"
      BY <1>3, <1>6
    <2>2. n \notin Requests
      BY <2>1 DEF Requests, Wanted
    <2> QED
      BY <2>1, <2>2, Verdicts, Placed
  <1>8. \A n \in p : VerdictOf(n)' \in {"left", "pending", "error"}
    BY <1>2, <1>4, <1>7 DEF VerdictOf, Classes
  <1>9. \A n \in Ndx : n \notin p => VerdictOf(n)' = VerdictOf(n)
    BY <1>2, <1>4 DEF VerdictOf
  <1>10. p \in SUBSET {n \in Ndx : V[n] = "unseen"}
    BY <1>7
  <1>11. f \in [p -> {"left", "pending", "error"}]
    BY <1>8
  <1>12. V' = [n \in Ndx |-> IF n \in p THEN f[n] ELSE V[n]]
    BY <1>9
  <1>13. ReportOf = "open" /\ UNCHANGED ReportOf
    BY <1>2 DEF ReportOf
  <1> HIDE DEF f
  <1>14. Contract!Classify
    BY <1>10, <1>11, <1>12, <1>13 DEF Contract!Classify
  <1> QED
    BY <1>14 DEF Contract!Next

\* What overtakes the configuration is overlooked.
LEMMA ContractOverlooks ==
    ASSUME IInv, RConfig
    PROVE  Contract!Next \/ UNCHANGED <<[n \in Ndx |-> VerdictOf(n)], ReportOf>>
  <1> DEFINE V == [x \in Ndx |-> VerdictOf(x)]
  <1>1. rPhase = "Config" /\ UNCHANGED outcome
    BY DEF RConfig, rLedger
  <1>2. CASE rPhase' = "Loop" /\ UNCHANGED decision
    BY <1>1, <1>2, Undecided DEF ReportOf
  <1>3. CASE UNCHANGED rPhase
             /\ decision' = [n \in Ndx |-> IF n \in Listed(Head(list)) THEN "lost" ELSE decision[n]]
    <2> DEFINE S == {n \in Ndx : n \in Listed(Head(list))}
    <2>1. \A n \in Ndx : decision[n] \in {"none", "lost"}
      BY <1>1 DEF IInv, Paged
    <2>2. \A n \in Ndx : V[n] \in {"unseen", "overlooked"}
      BY <2>1, Verdicts
    <2>3. \A n \in Ndx : decision'[n] = IF n \in S THEN "lost" ELSE decision[n]
      BY <1>3
    <2> HIDE DEF S
    <2>4. \A n \in Ndx : VerdictOf(n)' = IF n \in S THEN "overlooked" ELSE VerdictOf(n)
      BY <1>1, <2>3 DEF VerdictOf
    <2>5. S \in SUBSET Ndx /\ V' = [n \in Ndx |-> IF n \in S THEN "overlooked" ELSE V[n]]
      BY <2>4 DEF S
    <2>6. ReportOf = "open" /\ UNCHANGED ReportOf
      BY <1>1, <1>3 DEF ReportOf
    <2>7. Contract!Overlook
      BY <2>2, <2>5, <2>6 DEF Contract!Overlook
    <2> QED
      BY <2>7 DEF Contract!Next
  <1> QED
    BY <1>2, <1>3 DEF RConfig

\* A step that leaves verdicts alone may end the session, well or not.
LEMMA ContractReports ==
    ASSUME UNCHANGED <<decision, outcome>>,
           \/ UNCHANGED rPhase
           \/ rPhase = "Drain" /\ rPhase' = "Done"
           \/ rPhase = "Abort" /\ rPhase' = "Failed"
           \/ rPhase \in {"Config", "Loop"} /\ rPhase' \in {"Abort", "Failed"}
           \/ rPhase = "Loop" /\ rPhase' \in {"Loop", "Drain"},
           AllFinal'
    PROVE  Contract!Next \/ UNCHANGED <<[n \in Ndx |-> VerdictOf(n)], ReportOf>>
  <1> DEFINE V == [x \in Ndx |-> VerdictOf(x)]
  <1>1. V' = V
    BY Undecided
  <1>2. CASE rPhase = "Loop" /\ rPhase' = "Drain"
    <2>1. \A x \in Ndx : V[x] \in Contract!Final
      <3>1. \A x \in Ndx : V'[x] \in Contract!Final
        BY <1>2 DEF AllFinal
      <3> QED
        BY <1>1, <3>1
    <2>2. ReportOf = "open" /\ ReportOf' = "complete"
      BY <1>2 DEF ReportOf
    <2>3. Contract!Complete
      BY <1>1, <2>1, <2>2 DEF Contract!Complete, Contract!MayComplete
    <2> QED
      BY <2>3 DEF Contract!Next
  <1>3. CASE rPhase \in {"Config", "Loop"} /\ rPhase' \in {"Abort", "Failed"}
    <2>1. ReportOf = "open" /\ ReportOf' = "aborted"
      BY <1>3 DEF ReportOf
    <2>2. Contract!Abandon
      BY <1>1, <2>1 DEF Contract!Abandon
    <2> QED
      BY <2>2 DEF Contract!Next
  <1>4. CASE ReportOf' = ReportOf
    BY <1>1, <1>4
  <1>5. \/ rPhase = "Loop" /\ rPhase' = "Drain"
        \/ rPhase \in {"Config", "Loop"} /\ rPhase' \in {"Abort", "Failed"}
        \/ ReportOf' = ReportOf
    BY DEF ReportOf
  <1> QED
    BY <1>2, <1>3, <1>4, <1>5

\* The loop's verdicts: each is about an entry that was pending.
LEMMA LoopSettles ==
    ASSUME IInv, RSymlink \/ RSourceFailure \/ ROutcome,
           AllFinal'
    PROVE  Contract!Next \/ UNCHANGED <<[n \in Ndx |-> VerdictOf(n)], ReportOf>>
  <1>1. CASE RSymlink
    <2> PICK n : n = Head(data).n
      OBVIOUS
    <2>1. /\ Data("CreateSymlink") /\ Advance(doneSeen, completed + 1, requested, <<>>)
          /\ \E v \in {"success", "error"} : outcome' = [outcome EXCEPT ![n] = v]
      BY <1>1 DEF RSymlink
    <2>2. rPhase = "Loop" /\ n \in Ending /\ n \in Links /\ n \in Ndx /\ UNCHANGED decision
      BY <2>1, DataEffect DEF OfData, Ends
    <2>3. outcome[n] = "none" /\ n \in Requests
      BY <2>2 DEF IInv, Entries, Entry, Booked, Held, Links, Requests, Wanted
    <2>4. rPhase' \in {"Loop", "Drain"}
      BY <2>1 DEF Advance
    <2> QED
      BY <2>1, <2>2, <2>3, <2>4, ContractSettles DEF IInv
  <1>2. CASE RSourceFailure
    <2> PICK n : n = Head(ctl).n
      OBVIOUS
    <2>1. /\ ctl # <<>> /\ Head(ctl).type = "EntryError" /\ ctl' = Tail(ctl) /\ rPhase = "Loop" /\ UNCHANGED decision
          /\ \/ n \in terminated /\ UNCHANGED <<outcome, rPhase>>
             \/ n \notin terminated /\ outcome' = [outcome EXCEPT ![n] = "error"] /\ rPhase' \in {"Loop", "Drain"}
      BY <1>2 DEF RSourceFailure, AtSelect, Is, RecordTerminal, Advance
    <2>2. n \in Failing /\ n \in Requests /\ n \in Ndx
      BY <2>1, CtlTaken DEF IInv, Queues, CtlOk, Requests
    <2>3. n \notin terminated => outcome[n] = "none"
      BY <2>2 DEF IInv, Entries, Entry, Booked, Held
    <2> QED
      BY <2>1, <2>2, <2>3, ContractSettles, ContractReports DEF IInv
  <1>3. CASE ROutcome
    <2> PICK n : n = Head(dcAcks).n
      OBVIOUS
    <2>1. /\ dcAcks # <<>> /\ dcAcks' = Tail(dcAcks) /\ UNCHANGED decision
          /\ \/ UNCHANGED <<outcome, rPhase>>
             \/ /\ n \notin terminated /\ \E v \in {"success", "error"} : outcome' = [outcome EXCEPT ![n] = v]
                /\ \/ rPhase = "Loop" /\ rPhase' \in {"Loop", "Drain"}
                   \/ rPhase \in {"Drain", "Abort"} /\ UNCHANGED rPhase
      BY <1>3 DEF ROutcome, AtSelect, RecordTerminal, Advance
    <2>2. n \in Plain \cup Markers
      BY <2>1, DcAcksTaken DEF IInv, Queues
    <2>3. n \in Ndx /\ n \in Requests /\ n \notin Links
      BY <2>2 DEF Plain, Markers, Links, Requests, Wanted
    <2>4. n \notin terminated => outcome[n] = "none"
      BY <2>3 DEF IInv, Entries, Entry, Booked
    <2>5. n \notin terminated => rPhase # "Drain"
      BY <2>3, <2>4, AllSettled, Verdicts DEF AllFinal, Contract!Final
    <2> QED
      BY <2>1, <2>3, <2>4, <2>5, ContractSettles, ContractReports DEF IInv
  <1> QED
    BY <1>1, <1>2, <1>3

LEMMA ContractSteps ==
    ASSUME IInv, [Next]_vars, AllFinal'
    PROVE  Contract!Next \/ UNCHANGED <<[n \in Ndx |-> VerdictOf(n)], ReportOf>>
  <1>1. CASE UNCHANGED <<decision, outcome, rPhase>>
    BY <1>1, ContractReports
  <1>2. CASE RPage \/ RConfig
    BY <1>2, ContractClassifies, ContractOverlooks
  <1>3. CASE RSymlink \/ RSourceFailure \/ ROutcome
    BY <1>3, LoopSettles
  <1>4. CASE RConfigLost \/ RFail \/ RTransferDone \/ RFinish
    <2>1. /\ UNCHANGED <<decision, outcome>>
          /\ \/ rPhase = "Drain" /\ rPhase' = "Done"
             \/ rPhase = "Abort" /\ rPhase' = "Failed"
             \/ rPhase \in {"Config", "Loop"} /\ rPhase' \in {"Abort", "Failed"}
             \/ rPhase = "Loop" /\ rPhase' \in {"Loop", "Drain"}
      BY <1>4 DEF RConfigLost, RFail, Abort, RTransferDone, RFinish, AtSelect, Advance, rLedger
    <2> QED
      BY <2>1, ContractReports
  <1>5. CASE UNCHANGED vars
    <2>1. UNCHANGED <<decision, outcome, rPhase>>
      BY <1>5 DEF vars, receiver, rLedger
    <2> QED
      BY <1>1, <2>1
  <1>6. CASE Advertise \/ SenderLoop \/ SSourceFails \/ FilterGrant \/ Lose \/ DiskCommit
    <2>1. CASE Advertise \/ SSourceFails \/ FilterGrant \/ Lose
      BY <2>1, <1>1 DEF Advertise, SSourceFails, FilterGrant, Lose, receiver, rLedger
    <2>2. CASE SenderLoop
      BY <2>2, <1>1 DEF SenderLoop, SRequest, SClassified, SRequestsDone, SRedo, SSuccess, SEntryError, SError, SAllDone,
         SChunk, SEndOfFile, SConnectionLost, receiver, rLedger
    <2>3. CASE DiskCommit
      BY <2>3, <1>1 DEF DiskCommit, DBegin, DPush, DCommit, DMarker, DStop, Dc, receiver, rLedger
    <2> QED
      BY <1>6, <2>1, <2>2, <2>3
  <1>7. CASE RListDone \/ RFileBegin \/ RFileData \/ RDeltaToken \/ REndOfFile \/ RDeleteMarker \/ REnqueue
    BY <1>7, <1>1 DEF RListDone, RFileBegin, RFileData, RDeltaToken, REndOfFile, RDeleteMarker, REnqueue, Data, receiver, rLedger
  <1> QED
    BY <1>2, <1>3, <1>4, <1>5, <1>6, <1>7 DEF Next, ReceiverLoop

LEMMA ContractStarts == Init => Contract!Init
  BY DEF Init, Contract!Init, VerdictOf, ReportOf

\* Whatever transport, queues and tasks the session is made of, each entry is
\* classified once, a request gets exactly one verdict, and receiver_task_remote
\* reports success only with nothing left open.
THEOREM SessionImplementsContract == Spec => ImplementsContract
  <1>1. Init => Contract!Init
    BY ContractStarts
  <1>2. IInv /\ IInv' /\ [Next]_vars => [Contract!Next]_<<[n \in Ndx |-> VerdictOf(n)], ReportOf>>
    <2>1. IInv' => AllFinal'
      BY AllSettled, PTL
    <2> QED
      BY <2>1, ContractSteps
  <1> QED
    BY <1>1, <1>2, SessionInvariant, PTL DEF Spec, ImplementsContract, Contract!Spec
-----------------------------------------------------------------------------
(* What the two ends have to agree on.                                     *)

Won     == {n \in Ndx : outcome[n] = "success"}
Lost    == {n \in Ndx : outcome[n] = "error"}
Decided == {n \in Ndx : decision[n] \notin {"none", "lost"}}

\* What the receiver has sent and the sender has not read.
Erred    == About(acks, {"Error"})
Refused  == About(acks, {"EntryError"})
Answered == About(back, Replies)

\* Errors the sender is told of without a number, and so counts one by one.
Unnumbered ==
    {n \in Ndx : decision[n] = "metaFailed" \/ (n \in Links /\ outcome[n] = "error" /\ n \notin errored)}

\* A success is on its way or counted.
Credits ==
    /\ Solo(acks, {"Success"})
    /\ Told \cap completedPaths = {} /\ completedPaths \cup Told = Won
    /\ sSuccess = Cardinality(completedPaths)

\* An error of the sender is on its way to the receiver, and one of the
\* receiver on its way to the sender, who counts each entry once.
Debits ==
    /\ Solo(acks, {"EntryError"}) /\ Refused \subseteq Unnumbered
    /\ Failing \subseteq errored /\ errored \subseteq Failing \cup Lost
    /\ Erred \subseteq Lost \ Links
    /\ Lost \subseteq errored \cup Erred \cup Unnumbered
    /\ sError = Cardinality(errored \cup (Unnumbered \ Refused))

Reports == Decided = reported \cup Answered \cup Refused

\* The end of the list is the last the receiver reads and the last it answers;
\* AllDone is the last it says.
LastIs(q, t) == \A i \in 1..Len(q) : q[i].type = t => i = Len(q)
Rounds ==
    /\ LastIs(back, "RequestsDone")
    /\ Informed # {} \/ sPhase = "TransferDoneSent" => list = <<>> /\ advPos > Len(Pages)
    /\ sPhase = "TransferDoneSent" => back = <<>>
Parting == LastIs(acks, "AllDone") /\ (About(acks, {"AllDone"}) # {} => rPhase = "Done")

Agreed == Credits /\ Debits /\ Reports /\ Rounds /\ Parting
Agree ==
    /\ conn => Agreed /\ sPhase # "Completed"
    /\ sPhase = "Completed" => rPhase = "Done" /\ SenderAgrees

-----------------------------------------------------------------------------
(* The parts, when what they speak of stays, and messages read.            *)

LEMMA CreditsStay ==
    ASSUME Credits, UNCHANGED <<completedPaths, sSuccess>>, Won' = Won, Told' = Told,
           Solo(acks, {"Success"})'
    PROVE  Credits'
  BY DEF Credits

LEMMA DebitsStay ==
    ASSUME Debits, UNCHANGED <<errored, sError, Links, Unnumbered>>, Lost' = Lost, Failing' = Failing,
           Erred' = Erred, Refused' = Refused, Solo(acks, {"EntryError"})'
    PROVE  Debits'
  BY DEF Debits

LEMMA RoundsStay ==
    ASSUME Rounds, UNCHANGED <<back, list, advPos, sPhase>>
    PROVE  Rounds'
  BY Unmoved DEF Rounds, LastIs

\* What stays when the variables stay.
LEMMA Unsaid ==
    /\ acks' = acks => /\ Told' = Told /\ Erred' = Erred /\ Refused' = Refused
                       /\ \A T : Solo(acks, T) => Solo(acks, T)'
                       /\ \A T : About(acks, T)' = About(acks, T)
                       /\ LastIs(acks, "AllDone") => LastIs(acks, "AllDone")'
    /\ back' = back => Answered' = Answered /\ Informed' = Informed
    /\ outcome' = outcome => Won' = Won /\ Lost' = Lost
    /\ decision' = decision => Decided' = Decided /\ Links' = Links
    /\ UNCHANGED <<decision, outcome, errored>> => Unnumbered' = Unnumbered
  BY DEF Told, Erred, Refused, Answered, Informed, Won, Lost, Decided, Unnumbered, Links, Solo, LastIs

\* The steps that neither settle nor report.
LEMMA QuietAgrees ==
    ASSUME Agreed, UNCHANGED <<acks, back, list, ctl, decision, outcome, sLedger, advPos, sPhase, rPhase>>
    PROVE  Agreed'
  <1>1. UNCHANGED <<errored, sError, sSuccess, completedPaths, reported>>
    BY DEF sLedger
  <1>2. Credits'
    BY <1>1, Unsaid, CreditsStay DEF Agreed, Credits
  <1>3. Debits'
    BY <1>1, Unsaid, Unmoved, DebitsStay DEF Agreed, Debits
  <1>4. Reports'
    BY <1>1, Unsaid DEF Agreed, Reports
  <1>5. Rounds'
    BY RoundsStay DEF Agreed
  <1>6. Parting'
    BY Unsaid DEF Agreed, Parting
  <1> QED
    BY <1>2, <1>3, <1>4, <1>5, <1>6 DEF Agreed

\* The last message of a queue is read last.
LEMMA LastTaken ==
    ASSUME NEW q, IsSeq(q), q # <<>>, NEW t, LastIs(q, t)
    PROVE  LastIs(Tail(q), t) /\ (Head(q).type = t => Tail(q) = <<>>)
  <1>1. /\ Head(q) = q[1] /\ Len(q) \in Nat \ {0} /\ Len(Tail(q)) = Len(q) - 1
        /\ \A i \in 1..(Len(q) - 1) : Tail(q)[i] = q[i + 1]
    BY TailOf
  <1>2. IsSeq(Tail(q))
    BY TailOf
  <1> PICK r : r = Tail(q)
    OBVIOUS
  <1>3. LastIs(r, t)
    <2> SUFFICES ASSUME NEW i \in 1..Len(r), r[i].type = t PROVE i = Len(r)
      BY DEF LastIs
    <2>1. i + 1 \in 1..Len(q) /\ q[i + 1].type = t
      BY <1>1
    <2>2. i + 1 = Len(q)
      BY <2>1 DEF LastIs
    <2>3. Len(r) = Len(q) - 1 /\ Len(q) \in Nat /\ i \in Nat
      BY <1>1
    <2> QED
      BY <2>2, <2>3
  <1>4. Head(q).type = t => Len(r) = 0
    <2>1. 1 \in 1..Len(q)
      BY <1>1
    <2>2. q[1].type = t => 1 = Len(q)
      BY <2>1 DEF LastIs
    <2> QED
      BY <1>1, <2>2
  <1>5. r \in Seq(Range(r))
    BY <1>2 DEF IsSeq
  <1> QED
    BY <1>3, <1>4, <1>5

\* A queue whose last message is of that type, and one that has none.
LEMMA LastAdded ==
    ASSUME NEW q, IsSeq(q), NEW m, NEW t, About(q, {t}) = {}
    PROVE  LastIs(q, t) /\ LastIs(Append(q, m), t)
  <1>1. /\ Len(q) \in Nat /\ Len(Append(q, m)) = Len(q) + 1
        /\ \A i \in 1..Len(q) : Append(q, m)[i] = q[i]
    BY AppendOf
  <1>2. \A i \in 1..Len(q) : q[i].type # t
    BY DEF About
  <1> QED
    BY <1>1, <1>2 DEF LastIs

LEMMA LastOnly ==
    ASSUME NEW q, IsSeq(q), q # <<>>, NEW t, LastIs(q, t), Head(q).type = t
    PROVE  \A T : t \notin T => About(q, T) = {}
  <1>1. Tail(q) = <<>>
    BY LastTaken
  <1> SUFFICES ASSUME NEW T, t \notin T PROVE About(q, T) = {}
    OBVIOUS
  <1>2. About(q, T) = About(Tail(q), T) \cup (IF Head(q).type \in T THEN {Head(q).n} ELSE {})
    BY TakenFrom
  <1> QED
    BY <1>1, <1>2, EmptyOf

\* The sender reads what the receiver reported.
LEMMA AckRead ==
    ASSUME AcksOk, Agreed, acks # <<>>, acks' = Tail(acks), NEW m, m = Head(acks)
    PROVE  /\ Solo(acks, {"Success"})' /\ Solo(acks, {"EntryError"})'
           /\ m.type = "Success" => m.n \in Told /\ Told' = Told \ {m.n}
           /\ m.type # "Success" => Told' = Told
           /\ m.type = "EntryError" => m.n \in Refused /\ Refused' = Refused \ {m.n}
           /\ m.type # "EntryError" => Refused' = Refused
           /\ m.type = "Error" => m.n \in Erred /\ Erred' \subseteq Erred /\ Erred \subseteq Erred' \cup {m.n}
           /\ m.type # "Error" => Erred' = Erred
           /\ rPhase' = rPhase => Parting'
  <1> PICK t : t = Tail(acks)
    OBVIOUS
  <1>1. IsSeq(acks) /\ Solo(acks, {"Success"}) /\ Solo(acks, {"EntryError"}) /\ LastIs(acks, "AllDone")
    BY DEF AcksOk, Agreed, Credits, Debits, Parting
  <1>2. \A T : /\ About(acks, T) = About(t, T) \cup (IF m.type \in T THEN {m.n} ELSE {})
               /\ Solo(acks, T) => Solo(t, T)
               /\ Solo(acks, T) /\ m.type \in T => m.n \notin About(t, T)
    <2> SUFFICES ASSUME NEW T
                 PROVE  /\ About(acks, T) = About(t, T) \cup (IF m.type \in T THEN {m.n} ELSE {})
                        /\ Solo(acks, T) => Solo(t, T)
                        /\ Solo(acks, T) /\ m.type \in T => m.n \notin About(t, T)
      OBVIOUS
    <2> QED
      BY <1>1, TakenFrom
  <1>3. LastIs(t, "AllDone")
    BY <1>1, LastTaken
  <1>4. Solo(t, {"Success"}) /\ Solo(t, {"EntryError"})
    BY <1>1, <1>2
  <1>5. /\ Told' = About(t, {"Success"}) /\ Refused' = About(t, {"EntryError"}) /\ Erred' = About(t, {"Error"})
        /\ Told = About(acks, {"Success"}) /\ Refused = About(acks, {"EntryError"}) /\ Erred = About(acks, {"Error"})
    BY DEF Told, Refused, Erred
  <1>6. /\ m.type = "Success" => m.n \in Told /\ Told' = Told \ {m.n}
        /\ m.type # "Success" => Told' = Told
    <2>1. About(acks, {"Success"}) = About(t, {"Success"}) \cup (IF m.type = "Success" THEN {m.n} ELSE {})
      BY <1>2
    <2>2. m.type = "Success" => m.n \notin About(t, {"Success"})
      BY <1>1, <1>2
    <2> QED
      BY <1>5, <2>1, <2>2
  <1>7. /\ m.type = "EntryError" => m.n \in Refused /\ Refused' = Refused \ {m.n}
        /\ m.type # "EntryError" => Refused' = Refused
    <2>1. About(acks, {"EntryError"}) = About(t, {"EntryError"}) \cup (IF m.type = "EntryError" THEN {m.n} ELSE {})
      BY <1>2
    <2>2. m.type = "EntryError" => m.n \notin About(t, {"EntryError"})
      BY <1>1, <1>2
    <2> QED
      BY <1>5, <2>1, <2>2
  <1>8. /\ m.type = "Error" => m.n \in Erred /\ Erred' \subseteq Erred /\ Erred \subseteq Erred' \cup {m.n}
        /\ m.type # "Error" => Erred' = Erred
    <2>1. About(acks, {"Error"}) = About(t, {"Error"}) \cup (IF m.type = "Error" THEN {m.n} ELSE {})
      BY <1>2
    <2> QED
      BY <1>5, <2>1
  <1>9. rPhase' = rPhase => Parting'
    <2>1. About(t, {"AllDone"}) \subseteq About(acks, {"AllDone"})
      BY <1>2
    <2> QED
      BY <1>3, <2>1 DEF Parting, Agreed
  <1> QED
    BY <1>4, <1>6, <1>7, <1>8, <1>9

\* The receiver reports something before it says AllDone.
LEMMA AckAdded ==
    ASSUME AcksOk, Agreed, NEW m, acks' = Append(acks, m), rPhase # "Done", m.type # "AllDone"
    PROVE  /\ m.type = "Success" => Told' = Told \cup {m.n} /\ (m.n \notin Told => Solo(acks, {"Success"})')
           /\ m.type # "Success" => Told' = Told /\ Solo(acks, {"Success"})'
           /\ m.type = "EntryError" => Refused' = Refused \cup {m.n} /\ (m.n \notin Refused => Solo(acks, {"EntryError"})')
           /\ m.type # "EntryError" => Refused' = Refused /\ Solo(acks, {"EntryError"})'
           /\ m.type = "Error" => Erred' = Erred \cup {m.n}
           /\ m.type # "Error" => Erred' = Erred
           /\ Parting'
  <1> PICK t : t = Append(acks, m)
    OBVIOUS
  <1>1. IsSeq(acks) /\ Solo(acks, {"Success"}) /\ Solo(acks, {"EntryError"}) /\ About(acks, {"AllDone"}) = {}
    BY DEF AcksOk, Agreed, Credits, Debits, Parting
  <1>2. \A T : /\ About(t, T) = About(acks, T) \cup (IF m.type \in T THEN {m.n} ELSE {})
               /\ Solo(acks, T) /\ (m.type \in T => m.n \notin About(acks, T)) => Solo(t, T)
    <2> SUFFICES ASSUME NEW T
                 PROVE  /\ About(t, T) = About(acks, T) \cup (IF m.type \in T THEN {m.n} ELSE {})
                        /\ Solo(acks, T) /\ (m.type \in T => m.n \notin About(acks, T)) => Solo(t, T)
      OBVIOUS
    <2> QED
      BY <1>1, AddedTo
  <1>3. /\ Told' = About(t, {"Success"}) /\ Refused' = About(t, {"EntryError"}) /\ Erred' = About(t, {"Error"})
        /\ Told = About(acks, {"Success"}) /\ Refused = About(acks, {"EntryError"}) /\ Erred = About(acks, {"Error"})
    BY DEF Told, Refused, Erred
  <1>4. /\ m.type = "Success" => Told' = Told \cup {m.n} /\ (m.n \notin Told => Solo(t, {"Success"}))
        /\ m.type # "Success" => Told' = Told /\ Solo(t, {"Success"})
    <2>1. About(t, {"Success"}) = About(acks, {"Success"}) \cup (IF m.type = "Success" THEN {m.n} ELSE {})
      BY <1>2
    <2>2. (m.type = "Success" => m.n \notin About(acks, {"Success"})) => Solo(t, {"Success"})
      BY <1>1, <1>2
    <2> QED
      BY <1>3, <2>1, <2>2
  <1>5. /\ m.type = "EntryError" => Refused' = Refused \cup {m.n} /\ (m.n \notin Refused => Solo(t, {"EntryError"}))
        /\ m.type # "EntryError" => Refused' = Refused /\ Solo(t, {"EntryError"})
    <2>1. About(t, {"EntryError"}) = About(acks, {"EntryError"}) \cup (IF m.type = "EntryError" THEN {m.n} ELSE {})
      BY <1>2
    <2>2. (m.type = "EntryError" => m.n \notin About(acks, {"EntryError"})) => Solo(t, {"EntryError"})
      BY <1>1, <1>2
    <2> QED
      BY <1>3, <2>1, <2>2
  <1>6. /\ m.type = "Error" => Erred' = Erred \cup {m.n}
        /\ m.type # "Error" => Erred' = Erred
    <2>1. About(t, {"Error"}) = About(acks, {"Error"}) \cup (IF m.type = "Error" THEN {m.n} ELSE {})
      BY <1>2
    <2> QED
      BY <1>3, <2>1
  <1>7. Parting'
    <2>1. LastIs(t, "AllDone")
      BY <1>1, LastAdded
    <2>2. About(t, {"AllDone"}) = {}
      BY <1>1, <1>2
    <2> QED
      BY <2>1, <2>2 DEF Parting
  <1> QED
    BY <1>4, <1>5, <1>6, <1>7

\* What is counted, and one more.
LEMMA CountUp ==
    ASSUME NEW S, S \subseteq Ndx, NEW n \in Ndx, n \notin S
    PROVE  Cardinality(S \cup {n}) = Cardinality(S) + 1 /\ Cardinality(S) \in Nat
  <1>1. IsFiniteSet(S)
    BY NdxAssumption, FS_Subset
  <1> QED
    BY <1>1, FS_AddElement, FS_CardinalityType

\* An entry the source failed is requested, and settled as an error if at all.
LEMMA FailingLost ==
    ASSUME IInv, NEW n \in Failing
    PROVE  n \in Requests /\ (outcome[n] # "none" => n \in Lost)
  <1>1. n \in Requests /\ n \in Ndx
    BY DEF IInv, Queues, CtlOk, Requests
  <1>2. Lasting(n) /\ Booked(n) /\ OnePlace(n)
    BY <1>1 DEF IInv, Entries, Entry
  <1>3. outcome[n] \in {"none", "success", "error"}
    BY <1>1 DEF IInv, Shape
  <1>4. n \in Held /\ n \notin Good
    BY <1>2 DEF OnePlace, Held
  <1>5. outcome[n] # "success"
    BY <1>2, <1>4 DEF Lasting, Booked
  <1> QED
    BY <1>1, <1>3, <1>5 DEF Lost

\* Entries settled, or failed by the source, were requested.
LEMMA DebtsRequested ==
    ASSUME IInv, Debits
    PROVE  /\ errored \subseteq Requests /\ Lost \subseteq Requests /\ Won \subseteq Requests
           /\ Requests \subseteq Ndx /\ Unnumbered \subseteq Ndx
           /\ \A n \in Requests : decision[n] # "metaFailed"
  <1>1. Lost \subseteq Requests /\ Won \subseteq Requests
    BY DEF Lost, Won, IInv, Entries, Entry, Booked
  <1>2. Failing \subseteq Requests
    BY DEF IInv, Queues, CtlOk
  <1>3. errored \subseteq Requests
    BY <1>1, <1>2 DEF Debits
  <1> QED
    BY <1>1, <1>3 DEF Requests, Wanted, Unnumbered

\* An error with a number: record_indexed_error counts it unless it has already.
LEMMA DebitsRecorded ==
    ASSUME IInv, Debits, NEW n \in Requests, RecordIndexedError(n), UNCHANGED <<decision, outcome>>,
           Failing \subseteq Failing', Failing' \subseteq Failing \cup {n}, n \in Failing' \cup Lost,
           n \in Links => outcome[n] # "error",
           Refused' = Refused, Erred' \subseteq Erred, Erred \subseteq Erred' \cup {n}, Solo(acks, {"EntryError"})'
    PROVE  Debits'
  <1>1. /\ errored \subseteq Requests /\ Lost \subseteq Requests /\ Requests \subseteq Ndx /\ Unnumbered \subseteq Ndx
        /\ decision[n] # "metaFailed" /\ n \in Ndx
    BY DebtsRequested
  <1>2. errored' = errored \cup {n} /\ sError' = IF n \in errored THEN sError ELSE sError + 1
    BY DEF RecordIndexedError
  <1>3. n \notin Unnumbered
    BY <1>1 DEF Unnumbered
  <1>4. Links' = Links /\ Lost' = Lost
    BY Unsaid
  <1>5. Unnumbered' = Unnumbered
    <2>1. \A x \in Ndx : x # n => (x \in errored' <=> x \in errored)
      BY <1>2
    <2>2. \A x \in Ndx : x \in Unnumbered' <=> x \in Unnumbered
      BY <1>1, <1>4, <2>1 DEF Unnumbered
    <2>3. Unnumbered' \subseteq Ndx
      BY DEF Unnumbered
    <2> QED
      BY <1>1, <2>2, <2>3
  <1>6. sError' = Cardinality(errored' \cup (Unnumbered' \ Refused'))
    <2> DEFINE S == errored \cup (Unnumbered \ Refused)
    <2>1. S \subseteq Ndx /\ sError = Cardinality(S) /\ (n \in S <=> n \in errored)
      BY <1>1, <1>3 DEF Debits
    <2>2. errored' \cup (Unnumbered' \ Refused') = S \cup {n}
      BY <1>2, <1>5
    <2> HIDE DEF S
    <2>3. CASE n \in errored
      <3>1. S \cup {n} = S
        BY <2>1, <2>3
      <3> QED
        BY <1>2, <2>1, <2>2, <2>3, <3>1
    <2>4. CASE n \notin errored
      BY <1>1, <1>2, <2>1, <2>2, <2>4, CountUp
    <2> QED
      BY <2>3, <2>4
  <1>7. Lost' \subseteq errored' \cup Erred' \cup Unnumbered'
    BY <1>2, <1>4, <1>5 DEF Debits
  <1>8. Failing' \subseteq errored' /\ errored' \subseteq Failing' \cup Lost'
    BY <1>2, <1>4 DEF Debits
  <1>9. Refused' \subseteq Unnumbered' /\ Erred' \subseteq Lost' \ Links'
    BY <1>4, <1>5 DEF Debits
  <1> QED
    BY <1>6, <1>7, <1>8, <1>9 DEF Debits

\* A transfer that starts, or whose source cannot be opened.
LEMMA StartedDebits ==
    ASSUME IInv, Debits, NEW n \in Requests, n \notin Failing, outcome[n] = "none", NEW mode, StartTransfer(n, mode),
           UNCHANGED <<decision, outcome>>, Refused' = Refused, Erred' = Erred, Solo(acks, {"EntryError"})'
    PROVE  Debits'
  <1> PICK m : m = Msg("EntryError", n)
    OBVIOUS
  <1>1. \/ ctl' = Append(ctl, m) /\ RecordIndexedError(n)
        \/ UNCHANGED <<ctl, errored, sError>>
    BY DEF StartTransfer
  <1>2. CASE ctl' = Append(ctl, m) /\ RecordIndexedError(n)
    <2>1. m.type = "EntryError" /\ m.n = n /\ CtlOk
      BY DEF Msg, IInv, Queues
    <2>2. Failing' = Failing \cup {n}
      BY <1>2, <2>1, CtlAdded
    <2> QED
      BY <1>2, <2>2, DebitsRecorded
  <1>3. CASE UNCHANGED <<ctl, errored, sError>>
    BY <1>3, Unsaid, Unmoved, DebitsStay
  <1> QED
    BY <1>1, <1>2, <1>3

\* The sender reads an answer.
LEMMA BackRead ==
    ASSUME BackOk, Agreed, back # <<>>, back' = Tail(back), NEW m, m = Head(back)
    PROVE  /\ m.type \in Replies => Answered = Answered' \cup {m.n}
           /\ m.type \notin Replies => Answered = Answered'
           /\ m.type = "RequestsDone" => back' = <<>> /\ list = <<>> /\ advPos > Len(Pages)
           /\ UNCHANGED <<list, advPos, sPhase>> => Rounds'
  <1> PICK t : t = Tail(back)
    OBVIOUS
  <1>1. IsSeq(back) /\ Rounds /\ LastIs(back, "RequestsDone")
    BY DEF BackOk, Agreed, Rounds
  <1>2. \A T : About(back, T) = About(t, T) \cup (IF m.type \in T THEN {m.n} ELSE {})
    <2> SUFFICES ASSUME NEW T PROVE About(back, T) = About(t, T) \cup (IF m.type \in T THEN {m.n} ELSE {})
      OBVIOUS
    <2> QED
      BY <1>1, TakenFrom
  <1>3. LastIs(t, "RequestsDone") /\ (m.type = "RequestsDone" => t = <<>>)
    BY <1>1, LastTaken
  <1>4. Answered' = About(t, Replies) /\ Informed' = About(t, {"RequestsDone"})
    BY DEF Answered, Informed
  <1>5. Answered = About(t, Replies) \cup (IF m.type \in Replies THEN {m.n} ELSE {})
    BY <1>2 DEF Answered
  <1>6. Informed = About(t, {"RequestsDone"}) \cup (IF m.type = "RequestsDone" THEN {m.n} ELSE {})
    BY <1>2 DEF Informed
  <1>7. m.type = "RequestsDone" => list = <<>> /\ advPos > Len(Pages)
    BY <1>1, <1>6 DEF Rounds
  <1>8. UNCHANGED <<list, advPos, sPhase>> => Rounds'
    BY <1>1, <1>3, <1>4, <1>6 DEF Rounds
  <1> QED
    BY <1>3, <1>4, <1>5, <1>7, <1>8

LEMMA RequestAgrees == ASSUME IInv, Agreed, SRequest PROVE Agreed'
  <1> PICK n : n = Head(back).n
    OBVIOUS
  <1> PICK m : m = Head(back)
    OBVIOUS
  <1>1. /\ back # <<>> /\ m.type = "TransferRequest" /\ m.n = n /\ back' = Tail(back) /\ conn
        /\ reported' = reported \cup {n}
        /\ UNCHANGED <<conn, list, acks, sPhase, advPos, sSuccess, completedPaths, receiver>>
    BY DEF SRequest, AtRecv, Is, RecordClassification
  <1>2. PICK mode : StartTransfer(n, mode)
    BY DEF SRequest
  <1>3. UNCHANGED <<decision, outcome, rPhase>>
    BY <1>1 DEF receiver, rLedger
  <1>4. BackOk /\ Shape /\ AcksOk
    BY DEF IInv, Queues
  <1>5. n \in Asked /\ n \in Requests
    BY <1>1, <1>3, <1>4, BackTaken DEF BackOk
  <1>6. n \in Ndx /\ Entry(n)
    BY <1>5 DEF Requests, IInv, Entries
  <1>7. outcome[n] = "none" /\ n \notin Failing
    BY <1>4, <1>5, <1>6, AskedFree
  <1>8. Answered = Answered' \cup {n} /\ Rounds'
    BY <1>1, <1>4, BackRead DEF Replies
  <1>9. Solo(acks, {"Success"})' /\ Solo(acks, {"EntryError"})' /\ UNCHANGED <<Told, Refused, Erred, Won, Decided>>
    BY <1>1, <1>3, Unsaid DEF Agreed, Credits, Debits
  <1>10. Debits'
    BY <1>2, <1>3, <1>5, <1>7, <1>9, StartedDebits DEF Agreed
  <1>11. Credits'
    BY <1>1, <1>9, CreditsStay DEF Agreed
  <1>12. Reports'
    BY <1>1, <1>8, <1>9 DEF Agreed, Reports
  <1>13. Parting'
    BY <1>1, <1>3, Unsaid DEF Agreed, Parting
  <1> QED
    BY <1>8, <1>10, <1>11, <1>12, <1>13 DEF Agreed

LEMMA AnswerAgrees == ASSUME IInv, Agreed, SClassified \/ SRequestsDone PROVE Agreed'
  <1> PICK m : m = Head(back)
    OBVIOUS
  <1>1. /\ back # <<>> /\ back' = Tail(back)
        /\ UNCHANGED <<list, acks, advPos, errored, sError, sSuccess, completedPaths, receiver>>
    BY DEF SClassified, SRequestsDone, Is, sLedger
  <1>2. UNCHANGED <<decision, outcome, rPhase>>
    BY <1>1 DEF receiver, rLedger
  <1>3. BackOk
    BY DEF IInv, Queues
  <1>4. /\ Solo(acks, {"Success"})' /\ Solo(acks, {"EntryError"})'
        /\ UNCHANGED <<Told, Refused, Erred, Won, Lost, Decided, Links, Unnumbered>>
    BY <1>1, <1>2, Unsaid DEF Agreed, Credits, Debits
  <1>5. Credits' /\ Parting'
    BY <1>1, <1>2, <1>4, Unsaid, CreditsStay DEF Agreed, Parting
  <1>6. Failing' = Failing
    <2>1. CASE SClassified
      BY <2>1, Unmoved DEF SClassified
    <2>2. CASE SRequestsDone /\ ctl' = ctl
      BY <2>2, Unmoved
    <2>3. CASE SRequestsDone /\ ctl' # ctl
      <3> PICK d : d = Msg("TransferDone", 0)
        OBVIOUS
      <3>1. ctl' = Append(ctl, d) /\ d.type # "EntryError" /\ CtlOk
        BY <2>3 DEF SRequestsDone, Msg, IInv, Queues
      <3> QED
        BY <1>2, <3>1, CtlAdded
    <2> QED
      BY <2>1, <2>2, <2>3
  <1>7. Debits'
    BY <1>1, <1>4, <1>6, DebitsStay DEF Agreed
  <1>8. Reports' /\ Rounds'
    <2>1. CASE SClassified
      <3>1. m.type = "Classified" /\ reported' = reported \cup {m.n} /\ UNCHANGED sPhase
        BY <2>1 DEF SClassified, Is, RecordClassification
      <3>2. Answered = Answered' \cup {m.n} /\ Rounds'
        BY <1>1, <1>3, <3>1, BackRead DEF Replies
      <3> QED
        BY <1>4, <3>1, <3>2 DEF Agreed, Reports
    <2>2. CASE SRequestsDone
      <3>1. m.type = "RequestsDone" /\ UNCHANGED reported
        BY <2>2 DEF SRequestsDone, Is, sLedger
      <3>2. Answered = Answered' /\ back' = <<>> /\ list = <<>> /\ advPos > Len(Pages)
        BY <1>1, <1>3, <3>1, BackRead DEF Replies
      <3>3. Rounds'
        BY <1>1, <3>2, EmptyOf DEF Rounds, LastIs
      <3> QED
        BY <1>4, <3>1, <3>2, <3>3 DEF Agreed, Reports
    <2> QED
      BY <2>1, <2>2
  <1> QED
    BY <1>5, <1>7, <1>8 DEF Agreed

\* The sender reads what became of an entry.
LEMMA RedoAgrees == ASSUME IInv, Agreed, SRedo PROVE Agreed'
  <1> PICK m : m = Head(acks)
    OBVIOUS
  <1> PICK n : n = Head(acks).n
    OBVIOUS
  <1>1. /\ acks # <<>> /\ m.type = "Redo" /\ m.n = n /\ acks' = Tail(acks) /\ StartTransfer(n, "full")
        /\ UNCHANGED <<list, back, sPhase, advPos, sSuccess, completedPaths, reported, receiver>>
    BY DEF SRedo, Is
  <1>2. UNCHANGED <<decision, outcome, rPhase>>
    BY <1>1 DEF receiver, rLedger
  <1>3. AcksOk /\ Shape
    BY DEF IInv, Queues
  <1>4. n \in Redoing /\ n \in Plain
    BY <1>1, <1>2, <1>3, AcksTaken DEF AcksOk
  <1>5. n \in Requests /\ n \in Ndx /\ Entry(n)
    BY <1>4 DEF Plain, Requests, Wanted, IInv, Entries
  <1>6. outcome[n] = "none" /\ n \notin Failing
    BY <1>3, <1>4, <1>5, AskedFree
  <1>7. /\ Solo(acks, {"Success"})' /\ Solo(acks, {"EntryError"})' /\ UNCHANGED <<Told, Refused, Erred>> /\ Parting'
    BY <1>1, <1>2, <1>3, AckRead
  <1>8. UNCHANGED <<Won, Decided, Answered>>
    BY <1>1, <1>2, Unsaid
  <1>9. Debits'
    BY <1>1, <1>2, <1>5, <1>6, <1>7, StartedDebits DEF Agreed
  <1>10. Credits'
    BY <1>1, <1>7, <1>8, CreditsStay DEF Agreed
  <1>11. Reports' /\ Rounds'
    BY <1>1, <1>7, <1>8, RoundsStay DEF Agreed, Reports
  <1> QED
    BY <1>7, <1>9, <1>10, <1>11 DEF Agreed

LEMMA SuccessAgrees == ASSUME IInv, Agreed, SSuccess PROVE Agreed'
  <1> PICK m : m = Head(acks)
    OBVIOUS
  <1>1. /\ acks # <<>> /\ m.type = "Success" /\ acks' = Tail(acks)
        /\ sSuccess' = sSuccess + 1 /\ completedPaths' = completedPaths \cup {m.n}
        /\ UNCHANGED <<ctl, list, back, sPhase, advPos, errored, sError, reported, receiver>>
    BY DEF SSuccess, Is
  <1>2. UNCHANGED <<decision, outcome, rPhase>>
    BY <1>1 DEF receiver, rLedger
  <1>3. AcksOk /\ Told \subseteq Ndx /\ completedPaths \subseteq Ndx
    BY DEF IInv, Shape, Queues, AcksOk
  <1>4. /\ Solo(acks, {"Success"})' /\ Solo(acks, {"EntryError"})' /\ UNCHANGED <<Refused, Erred>> /\ Parting'
        /\ m.n \in Told /\ Told' = Told \ {m.n}
    BY <1>1, <1>2, <1>3, AckRead
  <1>5. UNCHANGED <<Won, Lost, Decided, Answered, Links, Unnumbered, Failing>>
    BY <1>1, <1>2, Unsaid, Unmoved
  <1>6. Credits'
    <2>1. m.n \notin completedPaths /\ m.n \in Ndx /\ sSuccess = Cardinality(completedPaths)
      BY <1>3, <1>4 DEF Agreed, Credits
    <2>2. sSuccess' = Cardinality(completedPaths')
      BY <1>1, <1>3, <2>1, CountUp
    <2>3. Told' \cap completedPaths' = {} /\ completedPaths' \cup Told' = Won'
      BY <1>1, <1>4, <1>5 DEF Agreed, Credits
    <2> QED
      BY <1>4, <2>2, <2>3 DEF Credits
  <1>7. Debits'
    BY <1>1, <1>4, <1>5, DebitsStay DEF Agreed
  <1>8. Reports' /\ Rounds'
    BY <1>1, <1>4, <1>5, RoundsStay DEF Agreed, Reports
  <1> QED
    BY <1>4, <1>6, <1>7, <1>8 DEF Agreed

\* An error without a number is counted as it comes.
LEMMA EntryErrorAgrees == ASSUME IInv, Agreed, SEntryError PROVE Agreed'
  <1> PICK m : m = Head(acks)
    OBVIOUS
  <1>1. /\ acks # <<>> /\ m.type = "EntryError" /\ acks' = Tail(acks)
        /\ sError' = sError + 1 /\ reported' = reported \cup {m.n}
        /\ UNCHANGED <<ctl, list, back, sPhase, advPos, errored, sSuccess, completedPaths, receiver>>
    BY DEF SEntryError, Is
  <1>2. UNCHANGED <<decision, outcome, rPhase>>
    BY <1>1 DEF receiver, rLedger
  <1>3. AcksOk
    BY DEF IInv, Queues
  <1>4. /\ Solo(acks, {"Success"})' /\ Solo(acks, {"EntryError"})' /\ UNCHANGED <<Told, Erred>> /\ Parting'
        /\ m.n \in Refused /\ Refused' = Refused \ {m.n}
    BY <1>1, <1>2, <1>3, AckRead
  <1>5. UNCHANGED <<Won, Lost, Decided, Answered, Links, Unnumbered, Failing>>
    BY <1>1, <1>2, Unsaid, Unmoved
  <1>6. Debits
    BY DEF Agreed
  <1>7. /\ errored \subseteq Requests /\ Unnumbered \subseteq Ndx /\ Requests \subseteq Ndx
        /\ \A n \in Requests : decision[n] # "metaFailed"
    BY <1>6, DebtsRequested
  <1>8. m.n \in Unnumbered /\ m.n \notin errored
    <2>1. m.n \in Unnumbered
      BY <1>4, <1>6 DEF Debits
    <2> QED
      BY <1>7, <2>1 DEF Unnumbered
  <1>9. sError' = Cardinality(errored' \cup (Unnumbered' \ Refused'))
    <2> DEFINE S == errored \cup (Unnumbered \ Refused)
    <2>1. S \subseteq Ndx /\ sError = Cardinality(S) /\ m.n \notin S /\ m.n \in Ndx
      BY <1>4, <1>6, <1>7, <1>8 DEF Debits
    <2>2. errored' \cup (Unnumbered' \ Refused') = S \cup {m.n}
      BY <1>1, <1>4, <1>5, <1>8
    <2> HIDE DEF S
    <2> QED
      BY <1>1, <2>1, <2>2, CountUp
  <1>10. Debits'
    BY <1>1, <1>4, <1>5, <1>6, <1>9 DEF Debits
  <1>11. Credits' /\ Rounds'
    BY <1>1, <1>4, <1>5, CreditsStay, RoundsStay DEF Agreed
  <1>12. Reports'
    BY <1>1, <1>4, <1>5 DEF Agreed, Reports
  <1> QED
    BY <1>4, <1>10, <1>11, <1>12 DEF Agreed

LEMMA ErrorAgrees == ASSUME IInv, Agreed, SError PROVE Agreed'
  <1> PICK m : m = Head(acks)
    OBVIOUS
  <1> PICK n : n = Head(acks).n
    OBVIOUS
  <1>1. /\ acks # <<>> /\ m.type = "Error" /\ m.n = n /\ acks' = Tail(acks) /\ RecordIndexedError(n)
        /\ UNCHANGED <<ctl, list, back, sPhase, advPos, sSuccess, completedPaths, reported, receiver>>
    BY DEF SError, Is
  <1>2. UNCHANGED <<decision, outcome, rPhase>>
    BY <1>1 DEF receiver, rLedger
  <1>3. AcksOk
    BY DEF IInv, Queues
  <1>4. /\ Solo(acks, {"Success"})' /\ Solo(acks, {"EntryError"})' /\ UNCHANGED <<Told, Refused>> /\ Parting'
        /\ n \in Erred /\ Erred' \subseteq Erred /\ Erred \subseteq Erred' \cup {n}
    BY <1>1, <1>2, <1>3, AckRead
  <1>5. UNCHANGED <<Won, Decided, Answered, Failing>>
    BY <1>1, <1>2, Unsaid, Unmoved
  <1>6. Debits
    BY DEF Agreed
  <1>7. n \in Lost /\ n \notin Links /\ n \in Requests
    BY <1>4, <1>6, DebtsRequested DEF Debits
  <1>8. Debits'
    BY <1>1, <1>2, <1>4, <1>5, <1>6, <1>7, DebitsRecorded
  <1>9. Credits' /\ Rounds'
    BY <1>1, <1>4, <1>5, CreditsStay, RoundsStay DEF Agreed
  <1>10. Reports'
    BY <1>1, <1>4, <1>5 DEF Agreed, Reports
  <1> QED
    BY <1>4, <1>8, <1>9, <1>10 DEF Agreed

LEMMA SourceFailsAgrees == ASSUME IInv, Agreed, SSourceFails PROVE Agreed'
  <1> PICK n : n = job.n
    OBVIOUS
  <1> PICK m : m = Msg("EntryError", n)
    OBVIOUS
  <1>1. /\ conn /\ job # NoJob /\ ctl' = Append(ctl, m) /\ RecordIndexedError(n)
        /\ UNCHANGED <<list, back, acks, sPhase, advPos, sSuccess, completedPaths, reported, receiver>>
    BY DEF SSourceFails
  <1>2. UNCHANGED <<decision, outcome, rPhase>>
    BY <1>1 DEF receiver, rLedger
  <1>3. n \in Plain /\ n \in Working
    BY <1>1 DEF IInv, Shape, Working
  <1>4. n \in Requests /\ n \in Ndx /\ n \notin Links
    BY <1>3 DEF Plain, Requests, Wanted, Links
  <1>5. n \notin Failing
    BY <1>3, <1>4 DEF IInv, Entries, Entry, OnePlace
  <1>6. m.type = "EntryError" /\ m.n = n /\ CtlOk
    BY DEF Msg, IInv, Queues
  <1>7. Failing' = Failing \cup {n}
    BY <1>1, <1>2, <1>4, <1>5, <1>6, CtlAdded
  <1>8. /\ Solo(acks, {"Success"})' /\ Solo(acks, {"EntryError"})' /\ UNCHANGED <<Told, Refused, Erred>> /\ Parting'
        /\ UNCHANGED <<Won, Decided, Answered>>
    BY <1>1, <1>2, Unsaid DEF Agreed, Credits, Debits, Parting
  <1>9. Debits'
    BY <1>1, <1>2, <1>4, <1>7, <1>8, DebitsRecorded DEF Agreed
  <1>10. Credits' /\ Rounds'
    BY <1>1, <1>8, CreditsStay, RoundsStay DEF Agreed
  <1>11. Reports'
    BY <1>1, <1>8 DEF Agreed, Reports
  <1> QED
    BY <1>8, <1>9, <1>10, <1>11 DEF Agreed

\* The walk goes on, and the receiver reads of it.
LEMMA AdvertiseAgrees == ASSUME IInv, Agreed, Advertise PROVE Agreed'
  <1>1. /\ advPos <= Len(Pages)
        /\ UNCHANGED <<back, acks, ctl, sPhase, errored, sError, sSuccess, completedPaths, reported, receiver>>
    BY DEF Advertise, sLedger
  <1>2. UNCHANGED <<decision, outcome, rPhase>>
    BY <1>1 DEF receiver, rLedger
  <1>3. advPos \in Nat /\ Len(Pages) \in Nat
    BY PagesAssumption DEF IInv, ListOk
  <1>4. Informed = {} /\ sPhase # "TransferDoneSent" /\ Rounds
    BY <1>1, <1>3 DEF Agreed, Rounds
  <1>5. Rounds'
    BY <1>1, <1>4, Unmoved DEF Rounds, LastIs
  <1>6. /\ Solo(acks, {"Success"})' /\ Solo(acks, {"EntryError"})'
        /\ UNCHANGED <<Told, Refused, Erred, Won, Lost, Decided, Answered, Links, Unnumbered, Failing>> /\ Parting'
    BY <1>1, <1>2, Unsaid, Unmoved DEF Agreed, Credits, Debits, Parting
  <1>7. Credits' /\ Debits'
    BY <1>1, <1>6, CreditsStay, DebitsStay DEF Agreed
  <1>8. Reports'
    BY <1>1, <1>6 DEF Agreed, Reports
  <1> QED
    BY <1>5, <1>6, <1>7, <1>8 DEF Agreed

\* The receiver reads the list: nothing has been answered with the end of it.
LEMMA ListRead ==
    ASSUME Rounds, list # <<>>
    PROVE  /\ About(back, {"RequestsDone"}) = {} /\ sPhase # "TransferDoneSent"
           /\ UNCHANGED <<back, sPhase>> => Rounds'
  <1>1. About(back, {"RequestsDone"}) = {} /\ sPhase # "TransferDoneSent"
    BY DEF Rounds, Informed
  <1>2. UNCHANGED <<back, sPhase>> => Rounds'
    BY <1>1, Unmoved DEF Rounds, LastIs, Informed
  <1> QED
    BY <1>1, <1>2

LEMMA ConfigAgrees == ASSUME IInv, Agreed, RConfig PROVE Agreed'
  <1> PICK m : m = Head(list)
    OBVIOUS
  <1>1. /\ rPhase = "Config" /\ conn
        /\ \/ /\ ctl # <<>> /\ Head(ctl).type = "SessionConfig" /\ ctl' = Tail(ctl) /\ UNCHANGED <<list, decision>>
           \/ /\ list # <<>> /\ list' = Tail(list) /\ UNCHANGED <<ctl, rPhase>>
              /\ decision' = [n \in Ndx |-> IF n \in Listed(Head(list)) THEN "lost" ELSE decision[n]]
        /\ UNCHANGED <<conn, back, acks, sender, rLedger>>
    BY DEF RConfig, Is
  <1>2. UNCHANGED <<sPhase, advPos, errored, sError, sSuccess, completedPaths, reported, outcome>>
    BY <1>1 DEF sender, sLedger, rLedger
  <1>3. About(acks, {"AllDone"}) = {}
    BY <1>1 DEF Agreed, Parting
  <1>4. Parting'
    BY <1>1, <1>3, Unsaid DEF Agreed, Parting
  <1>5. \A n \in Ndx : decision'[n] = decision[n] \/ (decision[n] = "none" /\ decision'[n] = "lost")
    <2>1. CASE UNCHANGED decision
      BY <2>1
    <2>2. CASE list # <<>> /\ list' = Tail(list)
               /\ decision' = [n \in Ndx |-> IF n \in Listed(Head(list)) THEN "lost" ELSE decision[n]]
      <3>1. \A n \in Ndx : decision'[n] = IF n \in Listed(Head(list)) THEN "lost" ELSE decision[n]
        BY <2>2
      <3>2. \A n \in Ndx : IF n \in Listed(Head(list)) THEN decision'[n] # "none" ELSE decision'[n] = decision[n]
        BY <3>1
      <3>3. \A n \in Listed(Head(list)) : decision[n] = "none"
        BY <1>1, <1>2, <2>2, <3>2, PagesTaken DEF IInv
      <3> QED
        BY <3>1, <3>3
    <2> QED
      BY <1>1, <2>1, <2>2
  <1>6. UNCHANGED <<Decided, Links>>
    BY <1>5 DEF Decided, Links
  <1>7. Unnumbered' = Unnumbered
    <2>1. \A n \in Ndx : decision'[n] = "metaFailed" <=> decision[n] = "metaFailed"
      BY <1>5
    <2> QED
      BY <1>2, <1>6, <2>1 DEF Unnumbered
  <1>8. Failing' = Failing
    <2>1. CASE UNCHANGED ctl
      BY <2>1, Unmoved
    <2>2. CASE ctl # <<>> /\ Head(ctl).type = "SessionConfig" /\ ctl' = Tail(ctl) /\ UNCHANGED <<list, decision>>
      <3>1. CtlOk
        BY DEF IInv, Queues
      <3> QED
        BY <2>2, <3>1, CtlTaken
    <2> QED
      BY <1>1, <2>1, <2>2
  <1>9. /\ Solo(acks, {"Success"})' /\ Solo(acks, {"EntryError"})'
        /\ UNCHANGED <<Told, Refused, Erred, Won, Lost, Answered>>
    BY <1>1, <1>2, Unsaid DEF Agreed, Credits, Debits
  <1>10. Credits'
    BY <1>2, <1>9, CreditsStay DEF Agreed
  <1>11. Debits'
    BY <1>2, <1>6, <1>7, <1>8, <1>9, DebitsStay DEF Agreed
  <1>12. Reports'
    BY <1>2, <1>6, <1>9 DEF Agreed, Reports
  <1>13. Rounds'
    <2>1. CASE UNCHANGED list
      BY <1>1, <1>2, <2>1, RoundsStay DEF Agreed
    <2>2. CASE list # <<>>
      BY <1>1, <1>2, <2>2, ListRead DEF Agreed
    <2> QED
      BY <1>1, <2>1, <2>2
  <1> QED
    BY <1>4, <1>10, <1>11, <1>12, <1>13 DEF Agreed

\* The end of the list is answered last: nothing more comes to be answered.
LEMMA ListDoneAgrees == ASSUME IInv, Agreed, RListDone PROVE Agreed'
  <1> PICK m : m = Msg("RequestsDone", 0)
    OBVIOUS
  <1> PICK h : h = Head(list)
    OBVIOUS
  <1>1. /\ list # <<>> /\ h.type = "FileListDone" /\ list' = Tail(list) /\ back' = Append(back, m)
        /\ UNCHANGED <<acks, ctl, sender, receiver>>
    BY DEF RListDone, Is
  <1>2. UNCHANGED <<sPhase, advPos, sLedger, errored, sError, sSuccess, completedPaths, reported, decision, outcome, rPhase>>
    BY <1>1 DEF sender, sLedger, receiver, rLedger
  <1>3. m.type = "RequestsDone" /\ m.type \notin Replies
    BY DEF Msg, Replies
  <1>4. IsSeq(back) /\ ListOk
    BY DEF IInv, Queues, BackOk
  <1>5. About(back, {"RequestsDone"}) = {} /\ sPhase # "TransferDoneSent"
    BY <1>1, ListRead DEF Agreed
  <1>6. list' = <<>> /\ advPos > Len(Pages)
    <2>1. h.type \notin Listings
      BY <1>1 DEF Listings
    <2> QED
      BY <1>1, <1>2, <1>4, <2>1, ListTaken
  <1>7. LastIs(back', "RequestsDone")
    BY <1>1, <1>4, <1>5, LastAdded
  <1>8. Rounds'
    BY <1>2, <1>5, <1>6, <1>7 DEF Rounds
  <1>9. Answered' = Answered
    <2>1. About(Append(back, m), Replies) = About(back, Replies) \cup (IF m.type \in Replies THEN {m.n} ELSE {})
      BY <1>4, AddedTo
    <2>2. About(Append(back, m), Replies) = About(back, Replies)
      BY <1>3, <2>1
    <2> QED
      BY <1>1, <2>2 DEF Answered
  <1>10. /\ Solo(acks, {"Success"})' /\ Solo(acks, {"EntryError"})'
         /\ UNCHANGED <<Told, Refused, Erred, Won, Lost, Decided, Links, Unnumbered, Failing>> /\ Parting'
    BY <1>1, <1>2, Unsaid, Unmoved DEF Agreed, Credits, Debits, Parting
  <1>11. Credits' /\ Debits'
    BY <1>2, <1>10, CreditsStay, DebitsStay DEF Agreed
  <1>12. Reports'
    BY <1>2, <1>9, <1>10 DEF Agreed, Reports
  <1> QED
    BY <1>8, <1>10, <1>11, <1>12 DEF Agreed

LEMMA TransferDoneAgrees == ASSUME IInv, Agreed, RTransferDone PROVE Agreed'
  <1>1. /\ rPhase = "Loop" /\ ctl # <<>> /\ Head(ctl).type = "TransferDone" /\ ctl' = Tail(ctl)
        /\ rPhase' \in {"Loop", "Drain"}
        /\ UNCHANGED <<list, back, acks, sender, decision, outcome>>
    BY DEF RTransferDone, AtSelect, Is, Advance
  <1>2. UNCHANGED <<sPhase, advPos, errored, sError, sSuccess, completedPaths, reported>>
    BY <1>1 DEF sender, sLedger
  <1>3. Failing' = Failing
    BY <1>1, CtlTaken DEF IInv, Queues
  <1>4. /\ Solo(acks, {"Success"})' /\ Solo(acks, {"EntryError"})'
        /\ UNCHANGED <<Told, Refused, Erred, Won, Lost, Decided, Answered, Links, Unnumbered>>
    BY <1>1, <1>2, Unsaid DEF Agreed, Credits, Debits
  <1>5. Parting'
    BY <1>1, Unsaid DEF Agreed, Parting
  <1>6. Credits' /\ Debits' /\ Rounds'
    BY <1>1, <1>2, <1>3, <1>4, CreditsStay, DebitsStay, RoundsStay DEF Agreed
  <1>7. Reports'
    BY <1>2, <1>4 DEF Agreed, Reports
  <1> QED
    BY <1>5, <1>6, <1>7 DEF Agreed

\* The receiver has drained its outcomes: AllDone is the last it says.
LEMMA FinishAgrees == ASSUME IInv, Agreed, conn, RFinish PROVE Agreed'
  <1> PICK m : m = Msg("AllDone", 0)
    OBVIOUS
  <1>1. /\ rPhase \in {"Drain", "Abort"}
        /\ \/ rPhase' = "Done" /\ acks' = Append(acks, m)
           \/ rPhase' = "Failed" /\ UNCHANGED acks
        /\ UNCHANGED <<ctl, list, back, sender, decision, rLedger>>
    BY DEF RFinish, Sent
  <1>2. UNCHANGED <<sPhase, advPos, errored, sError, sSuccess, completedPaths, reported, outcome>>
    BY <1>1 DEF sender, sLedger, rLedger
  <1>3. m.type = "AllDone" /\ IsSeq(acks) /\ About(acks, {"AllDone"}) = {}
    BY <1>1 DEF Msg, IInv, Queues, AcksOk, Agreed, Parting
  <1>4. /\ Solo(acks, {"Success"})' /\ Solo(acks, {"EntryError"})' /\ UNCHANGED <<Told, Refused, Erred>> /\ Parting'
    <2>1. CASE rPhase' = "Failed" /\ UNCHANGED acks
      BY <1>3, <2>1, Unsaid DEF Agreed, Credits, Debits, Parting
    <2>2. CASE rPhase' = "Done" /\ acks' = Append(acks, m)
      <3>1. ASSUME NEW T, "AllDone" \notin T
            PROVE  About(acks', T) = About(acks, T) /\ (Solo(acks, T) => Solo(acks', T))
        <4>1. /\ About(Append(acks, m), T) = About(acks, T) \cup (IF m.type \in T THEN {m.n} ELSE {})
              /\ Solo(acks, T) /\ (m.type \in T => m.n \notin About(acks, T)) => Solo(Append(acks, m), T)
          BY <1>3, AddedTo
        <4> QED
          BY <1>3, <2>2, <3>1, <4>1
      <3>2. UNCHANGED <<Told, Refused, Erred>>
        BY <3>1 DEF Told, Refused, Erred
      <3>3. Solo(acks', {"Success"}) /\ Solo(acks', {"EntryError"})
        BY <3>1 DEF Agreed, Credits, Debits
      <3>4. LastIs(acks', "AllDone")
        BY <1>3, <2>2, LastAdded
      <3> QED
        BY <2>2, <3>2, <3>3, <3>4 DEF Parting
    <2> QED
      BY <1>1, <2>1, <2>2
  <1>5. UNCHANGED <<Won, Lost, Decided, Answered, Links, Unnumbered, Failing>>
    BY <1>1, <1>2, Unsaid, Unmoved
  <1>6. Credits' /\ Debits' /\ Rounds'
    BY <1>1, <1>2, <1>4, <1>5, CreditsStay, DebitsStay, RoundsStay DEF Agreed
  <1>7. Reports'
    BY <1>2, <1>4, <1>5 DEF Agreed, Reports
  <1> QED
    BY <1>4, <1>6, <1>7 DEF Agreed

\* A source failure is settled, unless the entry was.
LEMMA SourceFailureAgrees == ASSUME IInv, Agreed, RSourceFailure PROVE Agreed'
  <1> PICK n : n = Head(ctl).n
    OBVIOUS
  <1>1. /\ rPhase = "Loop" /\ conn /\ ctl # <<>> /\ Head(ctl).type = "EntryError" /\ ctl' = Tail(ctl)
        /\ RecordTerminal(n, "error") /\ rPhase' \in {"Loop", "Drain"}
        /\ UNCHANGED <<list, back, acks, sender, decision>>
    BY DEF RSourceFailure, AtSelect, Is, Advance
  <1>2. UNCHANGED <<sPhase, advPos, errored, sError, sSuccess, completedPaths, reported>>
    BY <1>1 DEF sender, sLedger
  <1>3. CtlOk /\ Shape
    BY DEF IInv, Queues
  <1>4. n \in Failing /\ Failing' = Failing \ {n}
    BY <1>1, <1>3, CtlTaken
  <1>5. n \in Requests /\ n \in Ndx /\ (outcome[n] # "none" => n \in Lost)
    BY <1>4, FailingLost DEF Requests
  <1>6. Booked(n) /\ n \in Held
    BY <1>4, <1>5 DEF IInv, Entries, Entry, Held
  <1>7. n \in terminated <=> outcome[n] # "none"
    BY <1>6 DEF Booked
  <1>8. /\ outcome' \in [Ndx -> {"none", "success", "error"}] /\ outcome'[n] = "error"
        /\ \A x \in Ndx : x # n => outcome'[x] = outcome[x]
    <2>1. outcome \in [Ndx -> {"none", "success", "error"}]
      BY <1>3 DEF Shape
    <2>2. CASE n \in terminated
      <3>1. outcome' = outcome /\ outcome[n] = "error"
        BY <1>1, <1>5, <1>7, <2>2 DEF RecordTerminal, Lost
      <3> QED
        BY <2>1, <3>1
    <2>3. CASE n \notin terminated
      <3>1. outcome' = [outcome EXCEPT ![n] = "error"]
        BY <1>1, <2>3 DEF RecordTerminal
      <3> QED
        BY <1>5, <2>1, <3>1
    <2> QED
      BY <2>2, <2>3
  <1>9. outcome[n] # "success"
    BY <1>5 DEF Lost
  <1>10. Won' = Won /\ Lost' = Lost \cup {n}
    BY <1>5, <1>8, <1>9 DEF Won, Lost
  <1>11. n \in errored /\ Debits
    BY <1>4 DEF Agreed, Debits
  <1>12. UNCHANGED <<Links, Decided, Answered>>
    BY <1>1, Unsaid
  <1>13. Unnumbered' = Unnumbered
    <2>1. \A x \in Ndx : x \in Unnumbered' <=> x \in Unnumbered
      BY <1>1, <1>2, <1>8, <1>11, <1>12 DEF Unnumbered
    <2> QED
      BY <2>1 DEF Unnumbered
  <1>14. /\ Solo(acks, {"Success"})' /\ Solo(acks, {"EntryError"})' /\ UNCHANGED <<Told, Refused, Erred>> /\ Parting'
    BY <1>1, Unsaid DEF Agreed, Credits, Debits, Parting
  <1>15. Debits'
    <2>1. Erred' \subseteq Lost' \ Links' /\ Lost' \subseteq errored' \cup Erred' \cup Unnumbered'
      BY <1>2, <1>10, <1>11, <1>12, <1>13, <1>14 DEF Debits
    <2>2. Failing' \subseteq errored' /\ errored' \subseteq Failing' \cup Lost'
      BY <1>2, <1>4, <1>10, <1>11 DEF Debits
    <2>3. Refused' \subseteq Unnumbered' /\ sError' = Cardinality(errored' \cup (Unnumbered' \ Refused'))
      BY <1>2, <1>11, <1>13, <1>14 DEF Debits
    <2> QED
      BY <1>14, <2>1, <2>2, <2>3 DEF Debits
  <1>16. Credits' /\ Rounds'
    BY <1>1, <1>2, <1>10, <1>14, CreditsStay, RoundsStay DEF Agreed
  <1>17. Reports'
    BY <1>2, <1>12, <1>14 DEF Agreed, Reports
  <1> QED
    BY <1>14, <1>15, <1>16, <1>17 DEF Agreed

\* A verdict of the receiver's, told to the sender in one message.
LEMMA TellsAgrees ==
    ASSUME IInv, Agreed, NEW n \in Requests, outcome[n] = "none", n \in Links => n \notin Failing, rPhase # "Done",
           NEW m, acks' = Append(acks, m), m.n = n,
           NEW v \in {"success", "error"}, outcome' = [outcome EXCEPT ![n] = v],
           v = "success" => m.type = "Success",
           v = "error" => IF n \in Links THEN m.type = "EntryError" ELSE m.type = "Error",
           UNCHANGED <<list, back, ctl, sender, decision>>
    PROVE  Agreed'
  <1>1. UNCHANGED <<sPhase, advPos, errored, sError, sSuccess, completedPaths, reported>>
    BY DEF sender, sLedger
  <1>2. Debits /\ Credits /\ AcksOk
    BY DEF Agreed, IInv, Queues
  <1>3. /\ Requests \subseteq Ndx /\ n \in Ndx /\ decision[n] # "metaFailed"
        /\ errored \subseteq Failing \cup Lost
    BY <1>2, DebtsRequested DEF Debits
  <1>4. n \notin Won /\ n \notin Lost /\ (n \in Links => n \notin errored) /\ n \notin Unnumbered /\ n \notin Told /\ n \notin Refused
    <2>1. n \notin Won /\ n \notin Lost
      BY DEF Won, Lost
    <2>2. (n \in Links => n \notin errored) /\ n \notin Unnumbered /\ n \notin Told
      BY <1>2, <1>3, <2>1 DEF Unnumbered, Credits
    <2> QED
      BY <1>2, <2>1, <2>2 DEF Debits
  <1>5. outcome'[n] = v /\ \A x \in Ndx : x # n => outcome'[x] = outcome[x]
    BY <1>3 DEF IInv, Shape
  <1>6. UNCHANGED <<Links, Decided, Answered, Failing>>
    BY Unsaid, Unmoved
  <1>7. \A x \in Ndx : x # n => /\ x \in Won' <=> x \in Won
                                /\ x \in Lost' <=> x \in Lost
                                /\ x \in Unnumbered' <=> x \in Unnumbered
    BY <1>1, <1>5, <1>6 DEF Won, Lost, Unnumbered
  <1>8. /\ n \in Won' <=> v = "success"
        /\ n \in Lost' <=> v = "error"
        /\ n \in Unnumbered' <=> v = "error" /\ n \in Links
    BY <1>1, <1>3, <1>4, <1>5, <1>6 DEF Won, Lost, Unnumbered
  <1>9. /\ Won \subseteq Ndx /\ Lost \subseteq Ndx /\ Unnumbered \subseteq Ndx
        /\ Won' \subseteq Ndx /\ Lost' \subseteq Ndx /\ Unnumbered' \subseteq Ndx
    BY DEF Won, Lost, Unnumbered
  <1>10. /\ Won' = IF v = "success" THEN Won \cup {n} ELSE Won
         /\ Lost' = IF v = "error" THEN Lost \cup {n} ELSE Lost
         /\ Unnumbered' = IF v = "error" /\ n \in Links THEN Unnumbered \cup {n} ELSE Unnumbered
    <2>1. Won' = IF v = "success" THEN Won \cup {n} ELSE Won
      <3>1. \A x \in Ndx : x \in Won' <=> x \in Won \/ (v = "success" /\ x = n)
        BY <1>4, <1>7, <1>8
      <3> QED
        BY <1>3, <1>9, <3>1
    <2>2. Lost' = IF v = "error" THEN Lost \cup {n} ELSE Lost
      <3>1. \A x \in Ndx : x \in Lost' <=> x \in Lost \/ (v = "error" /\ x = n)
        BY <1>4, <1>7, <1>8
      <3> QED
        BY <1>3, <1>9, <3>1
    <2>3. Unnumbered' = IF v = "error" /\ n \in Links THEN Unnumbered \cup {n} ELSE Unnumbered
      BY <1>3, <1>4, <1>7, <1>8, <1>9
    <2> QED
      BY <2>1, <2>2, <2>3
  <1>11. m.type # "AllDone"
    BY DEF Agreed
  <1>12. /\ m.type = "Success" => Told' = Told \cup {n} /\ Solo(acks, {"Success"})'
         /\ m.type # "Success" => Told' = Told /\ Solo(acks, {"Success"})'
         /\ m.type = "EntryError" => Refused' = Refused \cup {n} /\ Solo(acks, {"EntryError"})'
         /\ m.type # "EntryError" => Refused' = Refused /\ Solo(acks, {"EntryError"})'
         /\ m.type = "Error" => Erred' = Erred \cup {n}
         /\ m.type # "Error" => Erred' = Erred
         /\ Parting'
    BY <1>2, <1>4, <1>11, AckAdded
  <1>13. Credits'
    <2>1. n \notin completedPaths
      BY <1>2, <1>4 DEF Credits
    <2>2. Told' = IF v = "success" THEN Told \cup {n} ELSE Told
      BY <1>12
    <2>3. Told' \cap completedPaths' = {} /\ completedPaths' \cup Told' = Won'
      BY <1>1, <1>2, <1>10, <2>1, <2>2 DEF Credits
    <2> QED
      BY <1>1, <1>2, <1>12, <2>3 DEF Credits
  <1>14. Debits'
    <2>1. /\ Refused' = IF v = "error" /\ n \in Links THEN Refused \cup {n} ELSE Refused
          /\ Erred' = IF v = "error" /\ n \notin Links THEN Erred \cup {n} ELSE Erred
          /\ Solo(acks, {"EntryError"})'
      BY <1>12
    <2>2. Unnumbered' \ Refused' = Unnumbered \ Refused
      BY <1>4, <1>10, <2>1
    <2>3. sError' = Cardinality(errored' \cup (Unnumbered' \ Refused'))
      BY <1>1, <1>2, <2>2 DEF Debits
    <2>4. Refused' \subseteq Unnumbered' /\ Erred' \subseteq Lost' \ Links'
      BY <1>2, <1>6, <1>10, <2>1 DEF Debits
    <2>5. Lost' \subseteq errored' \cup Erred' \cup Unnumbered'
      BY <1>1, <1>2, <1>10, <2>1 DEF Debits
    <2>6. Failing' \subseteq errored' /\ errored' \subseteq Failing' \cup Lost'
      BY <1>1, <1>2, <1>6, <1>10 DEF Debits
    <2> QED
      BY <2>1, <2>3, <2>4, <2>5, <2>6 DEF Debits
  <1>15. Reports'
    <2>1. n \in Links => n \in Decided
      BY <1>3 DEF Links, Decided
    <2>2. Refused' = IF v = "error" /\ n \in Links THEN Refused \cup {n} ELSE Refused
      BY <1>12
    <2> QED
      BY <1>1, <1>6, <2>1, <2>2 DEF Agreed, Reports
  <1>16. Rounds'
    BY <1>1, RoundsStay DEF Agreed
  <1> QED
    BY <1>12, <1>13, <1>14, <1>15, <1>16 DEF Agreed

LEMMA SymlinkAgrees == ASSUME IInv, Agreed, RSymlink PROVE Agreed'
  <1> PICK n : n = Head(data).n
    OBVIOUS
  <1>1. Data("CreateSymlink")
    BY DEF RSymlink
  <1>2. /\ rPhase = "Loop" /\ conn /\ n \in Ndx /\ n \in Ending /\ n \in Links
        /\ UNCHANGED <<conn, list, sender, decision>>
    BY <1>1, DataEffect DEF Ends, OfData
  <1>3. UNCHANGED <<back, ctl>>
    BY <1>1 DEF Data
  <1>4. PICK ok \in BOOLEAN :
          /\ acks' = Append(acks, Msg(IF ok THEN "Success" ELSE "EntryError", n))
          /\ outcome' = [outcome EXCEPT ![n] = IF ok THEN "success" ELSE "error"]
    BY DEF RSymlink
  <1>5. n \in Held /\ n \in Requests
    BY <1>2 DEF Held, Links, Requests, Wanted
  <1>6. outcome[n] = "none" /\ n \notin Failing
    BY <1>2, <1>5 DEF IInv, Entries, Entry, OnePlace, Booked
  <1> PICK m : m = Msg(IF ok THEN "Success" ELSE "EntryError", n)
    OBVIOUS
  <1> PICK v : v = IF ok THEN "success" ELSE "error"
    OBVIOUS
  <1>7. m.n = n /\ m.type = IF ok THEN "Success" ELSE "EntryError"
    BY DEF Msg
  <1>8. v \in {"success", "error"} /\ acks' = Append(acks, m) /\ outcome' = [outcome EXCEPT ![n] = v]
    BY <1>4
  <1>9. (v = "success" => m.type = "Success") /\ (v = "error" => m.type = "EntryError")
    BY <1>7
  <1> QED
    BY <1>2, <1>3, <1>5, <1>6, <1>7, <1>8, <1>9, TellsAgrees

LEMMA OutcomeAgrees == ASSUME IInv, Agreed, conn, ROutcome PROVE Agreed'
  <1> PICK n : n = Head(dcAcks).n
    OBVIOUS
  <1> PICK a : a = AckOf(Head(dcAcks).n, Head(dcAcks).type)
    OBVIOUS
  <1>1. /\ rPhase # "Done" /\ dcAcks # <<>> /\ dcAcks' = Tail(dcAcks)
        /\ a \in {"Success", "Redo", "Error"}
        /\ \/ a = "Redo" /\ acks' = Append(acks, Msg("Redo", n)) /\ UNCHANGED <<outcome, rPhase>>
           \/ n \in terminated /\ UNCHANGED <<acks, outcome, rPhase>>
           \/ /\ a # "Redo" /\ n \notin terminated /\ acks' = Append(acks, Msg(a, n))
              /\ outcome' = [outcome EXCEPT ![n] = IF a = "Success" THEN "success" ELSE "error"]
        /\ UNCHANGED <<ctl, list, back, sender, decision>>
    BY DEF ROutcome, AtSelect, AckOf, Sent, RecordTerminal
  <1>2. UNCHANGED <<sPhase, advPos, sLedger, errored, sError, sSuccess, completedPaths, reported>>
    BY <1>1 DEF sender, sLedger
  <1>3. n \in Plain \cup Markers
    BY <1>1, DcAcksTaken DEF IInv, Queues
  <1>4. n \in Ndx /\ n \in Requests /\ n \notin Links
    BY <1>3 DEF Plain, Markers, Requests, Wanted, Links
  <1>5. CASE UNCHANGED <<acks, outcome, rPhase>>
    BY <1>1, <1>2, <1>5, QuietAgrees
  <1>6. CASE acks' = Append(acks, Msg("Redo", n)) /\ UNCHANGED <<outcome, rPhase>>
    <2> PICK m : m = Msg("Redo", n)
      OBVIOUS
    <2>1. m.type = "Redo" /\ AcksOk
      BY DEF Msg, IInv, Queues
    <2>2. Solo(acks, {"Success"})' /\ Solo(acks, {"EntryError"})' /\ UNCHANGED <<Told, Refused, Erred>> /\ Parting'
      BY <1>1, <1>6, <2>1, AckAdded
    <2>3. UNCHANGED <<Won, Lost, Decided, Answered, Links, Unnumbered, Failing>>
      BY <1>1, <1>2, <1>6, Unsaid, Unmoved
    <2>4. Credits' /\ Debits' /\ Rounds'
      BY <1>1, <1>2, <2>2, <2>3, CreditsStay, DebitsStay, RoundsStay DEF Agreed
    <2>5. Reports'
      BY <1>2, <2>2, <2>3 DEF Agreed, Reports
    <2> QED
      BY <2>2, <2>4, <2>5 DEF Agreed
  <1>7. CASE /\ a # "Redo" /\ n \notin terminated /\ acks' = Append(acks, Msg(a, n))
             /\ outcome' = [outcome EXCEPT ![n] = IF a = "Success" THEN "success" ELSE "error"]
    <2> PICK m : m = Msg(a, n)
      OBVIOUS
    <2> PICK v : v = IF a = "Success" THEN "success" ELSE "error"
      OBVIOUS
    <2>1. m.n = n /\ m.type = a /\ v \in {"success", "error"}
      BY DEF Msg
    <2>2. outcome[n] = "none"
      BY <1>4, <1>7 DEF IInv, Entries, Entry, Booked
    <2> QED
      BY <1>1, <1>4, <1>7, <2>1, <2>2, TellsAgrees
  <1> QED
    BY <1>1, <1>5, <1>6, <1>7

\* A page: what is refused is still to be counted, and the rest is answered.
LEMMA PageAgrees == ASSUME IInv, Agreed, RPage PROVE Agreed'
  <1> DEFINE p == Pages[Head(list).n]
  <1>1. /\ list # <<>> /\ Head(list).type = "FilePage" /\ list' = Tail(list) /\ conn /\ rPhase = "Loop"
        /\ UNCHANGED <<conn, ctl, sender, rPhase, outcome>>
    BY DEF RPage, AtSelect, Is
  <1>2. UNCHANGED <<sPhase, advPos, errored, sError, sSuccess, completedPaths, reported>>
    BY <1>1 DEF sender, sLedger
  <1>3. PICK ch \in [p -> Classes] :
          LET bad == {n \in p : ch[n] = "metaFailed"} IN
          /\ decision' = [n \in Ndx |-> IF n \in p THEN ch[n] ELSE decision[n]]
          /\ \E o \in Orders(p \ bad) : back' = back \o InOrder(o, ch)
          /\ \E o \in Orders(bad) : acks' = acks \o Errors(o)
    BY DEF RPage
  <1> DEFINE bad == {n \in p : ch[n] = "metaFailed"}
  <1>4. Listed(Head(list)) = p
    BY <1>1 DEF Listed
  <1> HIDE DEF p
  <1>5. \A n \in Ndx : IF n \in p THEN decision'[n] = ch[n] /\ ch[n] \in Classes ELSE decision'[n] = decision[n]
    BY <1>3
  <1>6. \A n \in Ndx : IF n \in Listed(Head(list)) THEN decision'[n] # "none" ELSE decision'[n] = decision[n]
    BY <1>4, <1>5 DEF Classes
  <1>7. \A n \in p : n \in Ndx /\ decision[n] = "none"
    <2>1. \A n \in Listed(Head(list)) : n \in Ndx /\ decision[n] = "none"
      BY <1>1, <1>2, <1>6, PagesTaken DEF IInv
    <2> QED
      BY <1>4, <2>1
  <1>8. IsFiniteSet(bad) /\ IsFiniteSet(p \ bad) /\ bad \subseteq p
    BY <1>7, NdxAssumption, FS_Subset
  <1>9. \A n \in bad : decision'[n] = "metaFailed"
    BY <1>5, <1>7
  <1>10. \A n \in p \ bad : decision'[n] # "metaFailed"
    BY <1>5, <1>7
  <1> HIDE DEF bad
  <1>11. About(back, {"RequestsDone"}) = {} /\ sPhase # "TransferDoneSent" /\ AcksOk /\ BackOk /\ About(acks, {"AllDone"}) = {}
    BY <1>1, ListRead DEF Agreed, Parting, IInv, Queues
  <1>12. Answered' = Answered \cup (p \ bad) /\ About(back', {"RequestsDone"}) = {}
    <2>1. PICK o \in Orders(p \ bad) : back' = back \o InOrder(o, ch)
      BY <1>3 DEF bad
    <2> PICK r : r = InOrder(o, ch)
      OBVIOUS
    <2>2. IsSeq(r) /\ About(r, Replies) = p \ bad /\ About(r, {"RequestsDone"}) = {}
      BY <1>8, Answers
    <2>3. back' = back \o r /\ IsSeq(back)
      BY <1>11, <2>1 DEF BackOk
    <2>4. About(back', Replies) = About(back, Replies) \cup About(r, Replies)
      BY <2>2, <2>3, JoinedTo
    <2>5. About(back', {"RequestsDone"}) = About(back, {"RequestsDone"}) \cup About(r, {"RequestsDone"})
      BY <2>2, <2>3, JoinedTo
    <2> QED
      BY <1>11, <2>2, <2>4, <2>5 DEF Answered
  <1>13. Rounds'
    BY <1>2, <1>11, <1>12 DEF Rounds, LastIs, About, Informed
  <1>14. bad \cap Refused = {} /\ bad \cap Unnumbered = {}
    <2>1. bad \cap Unnumbered = {}
      BY <1>7, <1>8 DEF Unnumbered, Links
    <2> QED
      BY <2>1 DEF Agreed, Debits
  <1>15. /\ UNCHANGED <<Told, Erred>> /\ Solo(acks', {"Success"}) /\ Solo(acks', {"EntryError"}) /\ Parting'
         /\ Refused' = Refused \cup bad
    <2>1. PICK o \in Orders(bad) : acks' = acks \o Errors(o)
      BY <1>3 DEF bad
    <2> PICK r : r = Errors(o)
      OBVIOUS
    <2>2. /\ IsSeq(r) /\ Solo(r, {"EntryError"}) /\ About(r, {"EntryError"}) = bad
          /\ \A T : "EntryError" \notin T => About(r, T) = {} /\ Solo(r, T)
      BY <1>8, Answers
    <2>3. acks' = acks \o r /\ IsSeq(acks) /\ Solo(acks, {"Success"}) /\ Solo(acks, {"EntryError"})
      BY <1>11, <2>1 DEF AcksOk, Agreed, Credits, Debits
    <2>4. ASSUME NEW T, "EntryError" \notin T
          PROVE  About(acks', T) = About(acks, T) /\ (Solo(acks, T) => Solo(acks', T))
      <3>1. About(r, T) = {} /\ Solo(r, T)
        BY <2>2, <2>4
      <3>2. /\ About(acks \o r, T) = About(acks, T) \cup About(r, T)
            /\ Solo(acks, T) /\ Solo(r, T) /\ About(acks, T) \cap About(r, T) = {} => Solo(acks \o r, T)
        BY <2>2, <2>3, JoinedTo
      <3> QED
        BY <2>3, <3>1, <3>2
    <2>5. UNCHANGED <<Told, Erred>> /\ Solo(acks', {"Success"}) /\ About(acks', {"AllDone"}) = {}
      BY <1>11, <2>3, <2>4 DEF Told, Erred
    <2>6. About(acks \o r, {"EntryError"}) = About(acks, {"EntryError"}) \cup About(r, {"EntryError"})
      BY <2>2, <2>3, JoinedTo
    <2>7. About(acks, {"EntryError"}) \cap About(r, {"EntryError"}) = {}
      BY <1>14, <2>2 DEF Refused
    <2>8. Solo(acks \o r, {"EntryError"})
      BY <2>2, <2>3, <2>7, JoinedTo
    <2>9. Refused' = Refused \cup bad
      BY <2>2, <2>3, <2>6 DEF Refused
    <2>10. Parting'
      BY <2>5 DEF Parting, LastIs, About
    <2> QED
      BY <2>3, <2>5, <2>8, <2>9, <2>10
  <1>16. /\ \A n \in p : n \notin Requests
         /\ \A n \in Ndx \ p : n \in Links' <=> n \in Links
         /\ \A n \in Links : n \notin p
    BY <1>5, <1>7 DEF Requests, Wanted, Links
  <1>17. UNCHANGED <<Won, Lost, Failing>> /\ Lost \subseteq Requests /\ Debits /\ Credits
    BY <1>1, Unsaid, Unmoved, DebtsRequested DEF Agreed
  <1>18. Unnumbered' = Unnumbered \cup bad
    <2>1. \A n \in p : outcome[n] # "error"
      BY <1>7, <1>16, <1>17 DEF Lost
    <2>2. \A n \in p : n \in Unnumbered' <=> n \in bad
      BY <1>1, <1>7, <1>9, <1>10, <2>1 DEF Unnumbered
    <2>3. \A n \in Ndx \ p : n \in Unnumbered' <=> n \in Unnumbered
      BY <1>1, <1>2, <1>5, <1>16 DEF Unnumbered
    <2>4. \A n \in p : n \notin Unnumbered
      BY <1>7, <1>16 DEF Unnumbered
    <2>5. Unnumbered \subseteq Ndx /\ Unnumbered' \subseteq Ndx
      BY DEF Unnumbered
    <2> QED
      BY <1>7, <1>8, <2>2, <2>3, <2>4, <2>5
  <1>19. Decided' = Decided \cup p
    <2>1. \A n \in p : decision'[n] \in Classes
      BY <1>5, <1>7
    <2> QED
      BY <1>5, <1>7, <2>1 DEF Decided, Classes
  <1>20. Credits'
    BY <1>2, <1>15, <1>17, CreditsStay
  <1>21. Debits'
    <2>1. Unnumbered' \ Refused' = Unnumbered \ Refused
      BY <1>14, <1>15, <1>18
    <2>2. sError' = Cardinality(errored' \cup (Unnumbered' \ Refused'))
      BY <1>2, <1>17, <2>1 DEF Debits
    <2>3. \A n \in Lost : n \in Links' => n \in Links
      BY <1>16, <1>17 DEF Lost
    <2>4. Erred' \subseteq Lost' \ Links' /\ Refused' \subseteq Unnumbered' /\ Lost' \subseteq errored' \cup Erred' \cup Unnumbered'
      BY <1>2, <1>15, <1>17, <1>18, <2>3 DEF Debits
    <2>5. Failing' \subseteq errored' /\ errored' \subseteq Failing' \cup Lost'
      BY <1>2, <1>17 DEF Debits
    <2> QED
      BY <1>15, <2>2, <2>4, <2>5 DEF Debits
  <1>22. Reports'
    BY <1>2, <1>8, <1>12, <1>15, <1>19 DEF Agreed, Reports
  <1> QED
    BY <1>13, <1>15, <1>20, <1>21, <1>22 DEF Agreed

-----------------------------------------------------------------------------
(* The two ends agree.                                                     *)

\* The steps that neither settle nor report: payload, credit, commands and the disk.
LEMMA OthersAgree ==
    ASSUME Agreed, SChunk \/ SEndOfFile \/ FilterGrant \/ RFileBegin \/ RFileData \/ RDeltaToken \/ REndOfFile
                   \/ RDeleteMarker \/ REnqueue \/ DiskCommit \/ UNCHANGED vars
    PROVE  Agreed'
  <1>1. CASE SChunk \/ SEndOfFile
    BY <1>1, QuietAgrees DEF SChunk, SEndOfFile, receiver, rLedger
  <1>2. CASE FilterGrant \/ UNCHANGED vars
    BY <1>2, QuietAgrees DEF FilterGrant, vars, net, sender, receiver, rLedger
  <1>3. CASE RFileBegin \/ RFileData \/ REndOfFile \/ RDeleteMarker
    BY <1>3, QuietAgrees DEF RFileBegin, RFileData, REndOfFile, RDeleteMarker, Data, sender, rLedger
  <1>4. CASE RDeltaToken
    BY <1>4, QuietAgrees DEF RDeltaToken, Data, sender, rLedger
  <1>5. CASE REnqueue
    BY <1>5, QuietAgrees DEF REnqueue, net, sender, rLedger
  <1>6. CASE DiskCommit
    BY <1>6, QuietAgrees DEF DiskCommit, DBegin, DPush, DCommit, DMarker, DStop, Dc, net, sender, receiver, rLedger
  <1> QED
    BY <1>1, <1>2, <1>3, <1>4, <1>5, <1>6

\* While the connection lasts, whatever happens.
LEMMA ConnectedAgrees == ASSUME IInv, Agreed, conn, conn', [Next]_vars PROVE Agreed'
  <1>1. ~SAllDone /\ ~SConnectionLost /\ ~RFail /\ ~RConfigLost /\ ~Lose
    BY DEF SAllDone, SConnectionLost, RFail, Abort, RConfigLost, Lose
  <1>2. CASE Advertise \/ SSourceFails
    BY <1>2, AdvertiseAgrees, SourceFailsAgrees
  <1>3. CASE SRequest \/ SClassified \/ SRequestsDone
    BY <1>3, RequestAgrees, AnswerAgrees
  <1>4. CASE SRedo \/ SSuccess \/ SEntryError \/ SError
    BY <1>4, RedoAgrees, SuccessAgrees, EntryErrorAgrees, ErrorAgrees
  <1>5. CASE RConfig \/ RPage \/ RListDone \/ RTransferDone \/ RFinish
    BY <1>5, ConfigAgrees, PageAgrees, ListDoneAgrees, TransferDoneAgrees, FinishAgrees
  <1>6. CASE RSymlink \/ RSourceFailure \/ ROutcome
    BY <1>6, SymlinkAgrees, SourceFailureAgrees, OutcomeAgrees
  <1>7. CASE SChunk \/ SEndOfFile \/ FilterGrant \/ RFileBegin \/ RFileData \/ RDeltaToken \/ REndOfFile
             \/ RDeleteMarker \/ REnqueue \/ DiskCommit \/ UNCHANGED vars
    BY <1>7, OthersAgree
  <1> QED
    BY <1>1, <1>2, <1>3, <1>4, <1>5, <1>6, <1>7 DEF Next, SenderLoop, ReceiverLoop

\* AllDone is read when nothing is on its way and all is settled.
LEMMA AllDoneAgrees ==
    ASSUME IInv, Agreed, SAllDone, sPhase' = "Completed"
    PROVE  rPhase' = "Done" /\ SenderAgrees'
  <1>1. /\ acks # <<>> /\ Head(acks).type = "AllDone" /\ sPhase = "TransferDoneSent"
        /\ UNCHANGED <<sLedger, receiver>>
    BY DEF SAllDone, Is
  <1>2. UNCHANGED <<errored, sError, sSuccess, completedPaths, reported, decision, outcome, rPhase>>
    BY <1>1 DEF sLedger, receiver, rLedger
  <1>3. IsSeq(acks) /\ LastIs(acks, "AllDone")
    BY DEF IInv, Queues, AcksOk, Agreed, Parting
  <1>4. \A T : "AllDone" \notin T => About(acks, T) = {}
    BY <1>1, <1>3, LastOnly
  <1>5. Told = {} /\ Erred = {} /\ Refused = {}
    BY <1>4 DEF Told, Erred, Refused
  <1>6. rPhase = "Done"
    <2>1. About(acks, {"AllDone"}) = About(Tail(acks), {"AllDone"}) \cup (IF Head(acks).type \in {"AllDone"} THEN {Head(acks).n} ELSE {})
      BY <1>1, <1>3, TakenFrom
    <2> QED
      BY <1>1, <2>1 DEF Agreed, Parting
  <1>7. Answered = {}
    BY <1>1, EmptyOf DEF Agreed, Rounds, Answered
  <1>8. AllDecided
    BY <1>6 DEF IInv, Ledger, Paged
  <1>9. reported = {n \in Ndx : decision[n] # "lost"}
    BY <1>5, <1>7, <1>8 DEF Agreed, Reports, Decided, AllDecided
  <1>10. \A n \in Requests : outcome[n] # "none"
    <2> SUFFICES ASSUME NEW n \in Requests, outcome[n] = "none" PROVE FALSE
      OBVIOUS
    <2>1. n \in Ndx /\ VerdictOf(n) = "pending"
      BY Verdicts DEF Requests
    <2>2. VerdictOf(n) \in Contract!Final
      BY <1>6, <2>1, AllSettled DEF AllFinal
    <2> QED
      BY <2>1, <2>2 DEF Contract!Final
  <1>11. Failing \subseteq Lost
    BY <1>10, FailingLost
  <1>12. errored \cup (Unnumbered \ Refused) = {n \in Ndx : outcome[n] = "error" \/ decision[n] = "metaFailed"}
    <2>1. errored \subseteq Lost /\ Lost \subseteq errored \cup Unnumbered
      BY <1>5, <1>11 DEF Agreed, Debits
    <2>2. {n \in Ndx : outcome[n] = "error" \/ decision[n] = "metaFailed"} = Lost \cup {n \in Ndx : decision[n] = "metaFailed"}
      BY DEF Lost
    <2>3. Unnumbered \subseteq Lost \cup {n \in Ndx : decision[n] = "metaFailed"} /\ {n \in Ndx : decision[n] = "metaFailed"} \subseteq Unnumbered
      BY DEF Unnumbered, Lost
    <2> QED
      BY <1>5, <2>1, <2>2, <2>3
  <1>13. completedPaths = {n \in Ndx : outcome[n] = "success"} /\ sSuccess = Cardinality(completedPaths)
    BY <1>5 DEF Agreed, Credits, Won
  <1>14. sError = Cardinality({n \in Ndx : outcome[n] = "error" \/ decision[n] = "metaFailed"})
    BY <1>12 DEF Agreed, Debits
  <1>15. SenderAgrees
    BY <1>9, <1>13, <1>14 DEF SenderAgrees
  <1>16. /\ reported = {n \in Ndx : decision[n] # "lost"}
         /\ completedPaths = {n \in Ndx : outcome[n] = "success"}
         /\ sSuccess = Cardinality(completedPaths)
         /\ sError = Cardinality({n \in Ndx : outcome[n] = "error" \/ decision[n] = "metaFailed"})
    BY <1>9, <1>13, <1>14
  <1> QED
    BY <1>2, <1>6, <1>16 DEF SenderAgrees

\* Only AllDone completes the sender, and afterwards nothing changes any more
\* that the two have to agree on.
LEMMA OnlyAllDoneCompletes ==
    ASSUME [Next]_vars
    PROVE  /\ conn' => conn
           /\ sPhase' = "Completed" => sPhase = "Completed" \/ SAllDone
           /\ SAllDone => conn /\ ~conn'
           /\ sPhase = "Completed" /\ ~conn /\ rPhase = "Done" =>
                 UNCHANGED <<sPhase, rPhase, reported, decision, outcome, completedPaths, sSuccess, sError>>
  <1>0. SAllDone => conn /\ ~conn'
    BY DEF SAllDone, AtRecv
  <1>1. CASE UNCHANGED vars
    <2>1. UNCHANGED <<conn, sender, receiver>>
      BY <1>1 DEF vars
    <2> QED
      BY <1>0, <2>1 DEF sender, sLedger, receiver, rLedger
  <1>2. CASE SAllDone
    BY <1>0, <1>2
  <1>3. CASE SConnectionLost
    <2>1. Open /\ sPhase' = "Failed" /\ UNCHANGED conn
      BY <1>3 DEF SConnectionLost
    <2> QED
      BY <1>0, <2>1 DEF Open
  <1>4. CASE Advertise \/ SSourceFails \/ SRequest \/ SClassified \/ SRequestsDone \/ SRedo \/ SSuccess \/ SEntryError
             \/ SError \/ SChunk \/ SEndOfFile
    <2>1. Open /\ conn /\ UNCHANGED conn
      BY <1>4 DEF Advertise, SSourceFails, SRequest, SClassified, SRequestsDone, SRedo, SSuccess, SEntryError, SError,
         SChunk, SEndOfFile, AtRecv
    <2>2. sPhase' = sPhase \/ sPhase' = "TransferDoneSent"
      BY <1>4 DEF Advertise, SSourceFails, SRequest, SClassified, SRequestsDone, SRedo, SSuccess, SEntryError, SError,
         SChunk, SEndOfFile
    <2>3. sPhase # "Completed" /\ sPhase' # "Completed"
      BY <2>1, <2>2 DEF Open
    <2> QED
      BY <1>0, <2>1, <2>3
  <1>5. CASE FilterGrant \/ Lose \/ DiskCommit
    <2>1. UNCHANGED <<sender, receiver>> /\ (conn' => conn)
      BY <1>5 DEF FilterGrant, Lose, DiskCommit, DBegin, DPush, DCommit, DMarker, DStop, Dc
    <2>2. UNCHANGED <<sPhase, rPhase, reported, decision, outcome, completedPaths, sSuccess, sError>>
      BY <2>1 DEF sender, sLedger, receiver, rLedger
    <2> QED
      BY <1>0, <2>1, <2>2
  <1>6. CASE ReceiverLoop
    <2>1. UNCHANGED sender /\ (conn' => conn) /\ (rPhase # "Done" \/ REnqueue)
      <3>1. CASE RConfig \/ RConfigLost \/ RPage \/ RFail \/ RListDone \/ RTransferDone
        <4>1. CASE RConfig
          BY <4>1 DEF RConfig
        <4>2. CASE RConfigLost
          BY <4>2 DEF RConfigLost, Abort
        <4>3. CASE RPage
          BY <4>3 DEF RPage, AtSelect
        <4>4. CASE RFail
          BY <4>4 DEF RFail, Abort, AtSelect
        <4>5. CASE RListDone
          BY <4>5 DEF RListDone, AtSelect
        <4>6. CASE RTransferDone
          BY <4>6 DEF RTransferDone, AtSelect
        <4> QED
          BY <3>1, <4>1, <4>2, <4>3, <4>4, <4>5, <4>6
      <3>2. CASE RFileBegin \/ RFileData \/ RDeltaToken \/ REndOfFile \/ RDeleteMarker \/ RSymlink
        BY <3>2 DEF RFileBegin, RFileData, RDeltaToken, REndOfFile, RDeleteMarker, RSymlink, Data, AtSelect
      <3>3. CASE RSourceFailure \/ ROutcome \/ REnqueue \/ RFinish
        BY <3>3 DEF RSourceFailure, ROutcome, REnqueue, RFinish, AtSelect
      <3> QED
        BY <1>6, <3>1, <3>2, <3>3 DEF ReceiverLoop
    <2>2. UNCHANGED <<sPhase, reported, completedPaths, sSuccess, sError>>
      BY <2>1 DEF sender, sLedger
    <2>3. REnqueue => UNCHANGED <<rPhase, decision, outcome>>
      BY DEF REnqueue, rLedger
    <2> QED
      BY <1>0, <2>1, <2>2, <2>3
  <1> QED
    BY <1>1, <1>2, <1>3, <1>4, <1>5, <1>6 DEF Next, SenderLoop

LEMMA InitAgrees == Init => Agree
  <1> SUFFICES ASSUME Init PROVE Agree
    OBVIOUS
  <1>1. /\ acks = <<>> /\ back = <<>> /\ list = <<>> /\ sPhase = "RequestsOpen" /\ errored = {} /\ sError = 0 /\ sSuccess = 0
        /\ completedPaths = {} /\ reported = {} /\ ctl = <<Msg("SessionConfig", 0)>>
        /\ \A n \in Ndx : decision[n] = "none" /\ outcome[n] = "none"
    BY DEF Init
  <1>2. Won = {} /\ Lost = {} /\ Decided = {} /\ Unnumbered = {}
    BY <1>1 DEF Won, Lost, Decided, Unnumbered
  <1>3. Told = {} /\ Erred = {} /\ Refused = {} /\ Answered = {} /\ Informed = {} /\ About(acks, {"AllDone"}) = {}
    BY <1>1, EmptyOf DEF Told, Erred, Refused, Answered, Informed
  <1>4. Solo(acks, {"Success"}) /\ Solo(acks, {"EntryError"}) /\ LastIs(acks, "AllDone") /\ LastIs(back, "RequestsDone")
    BY <1>1, EmptyOf DEF LastIs
  <1>5. Failing = {}
    BY DEF Init, Failing, About, Msg
  <1> QED
    BY <1>1, <1>2, <1>3, <1>4, <1>5, FS_EmptySet DEF Agree, Agreed, Credits, Debits, Reports, Rounds, Parting

LEMMA NextAgrees == IInv /\ Agree /\ [Next]_vars => Agree'
  <1> SUFFICES ASSUME IInv, Agree, [Next]_vars PROVE Agree'
    OBVIOUS
  <1>1. /\ conn' => conn
        /\ sPhase' = "Completed" => sPhase = "Completed" \/ SAllDone
        /\ SAllDone => conn /\ ~conn'
        /\ sPhase = "Completed" /\ ~conn /\ rPhase = "Done" =>
              UNCHANGED <<sPhase, rPhase, reported, decision, outcome, completedPaths, sSuccess, sError>>
    BY OnlyAllDoneCompletes
  <1>2. CASE conn'
    <2>1. Agreed /\ conn /\ sPhase # "Completed"
      BY <1>1, <1>2 DEF Agree
    <2>2. Agreed' /\ sPhase' # "Completed"
      BY <1>1, <1>2, <2>1, ConnectedAgrees
    <2> QED
      BY <2>2 DEF Agree
  <1>3. CASE ~conn' /\ sPhase' = "Completed"
    <2>1. rPhase' = "Done" /\ SenderAgrees'
      <3>1. CASE SAllDone
        BY <1>1, <1>3, <3>1, AllDoneAgrees DEF Agree
      <3>2. CASE ~SAllDone
        <4>1. sPhase = "Completed" /\ ~conn /\ rPhase = "Done" /\ SenderAgrees
          BY <1>1, <1>3, <3>2 DEF Agree
        <4>2. UNCHANGED <<sPhase, rPhase, reported, decision, outcome, completedPaths, sSuccess, sError>>
          BY <1>1, <4>1
        <4> QED
          BY <4>1, <4>2 DEF SenderAgrees
      <3> QED
        BY <3>1, <3>2
    <2> QED
      BY <1>3, <2>1 DEF Agree
  <1>4. CASE ~conn' /\ sPhase' # "Completed"
    BY <1>4 DEF Agree
  <1> QED
    BY <1>2, <1>3, <1>4

\* A sender whose RemoteSenderSessionLifecycle completes has heard of every entry
\* that was compared, and its SenderSessionLedger counts each request once, as the
\* success or the error the receiver settled on, whatever the order of requests,
\* failures and outcomes on the streams.
THEOREM SenderAgreesAlways == Spec => []SenderAgrees
  <1>1. Init => Agree
    BY InitAgrees
  <1>2. IInv /\ Agree /\ [Next]_vars => Agree'
    BY NextAgrees
  <1>3. Agree => SenderAgrees
    BY DEF Agree, SenderAgrees
  <1> QED
    BY <1>1, <1>2, <1>3, SessionInvariant, PTL DEF Spec
=============================================================================
