-------------------------- MODULE LocalCopyProofs --------------------------
(***************************************************************************)
(* What a local copy job guarantees, for any tree and any number of        *)
(* changes, faults and runs.  It never takes away a path the source still  *)
(* has, nor what a move job has removed from the source.  While the source *)
(* is quiet a row is only written for the copy that is there; and where    *)
(* the source has no file handles, what a run commits is what it has, and  *)
(* no row lets a later run skip a copy that is missing.                    *)
(***************************************************************************)
EXTENDS LocalCopy, FiniteSetTheorems, WellFoundedInduction, TLAPS

IsTree(t) == t = [p \in Paths |-> t[p]]
IsRun(r) ==
    r = [step |-> r.step, full |-> r.full, recovering |-> r.recovering, working |-> r.working,
         unseen |-> r.unseen, failed |-> r.failed, guess |-> r.guess]

Shape ==
    /\ IsTree(source) /\ IsTree(dest) /\ IsTree(base) /\ IsTree(todo) /\ IsTree(moved)
    /\ IsRun(run)
    /\ clock \in Nat \ {0}

IsEntry(e) == e = [h |-> e.h, v |-> e.v] /\ e.v # ABSENT

\* The source is a tree: what is below a directory that is not there is not there.
RootedIn(s) ==
    \A p \in Paths : s[p] # Nothing =>
        /\ IsEntry(s[p])
        /\ Parent[p] = ROOT \/ s[Parent[p]] # Nothing
Rooted == RootedIn(source)

\* What is under way in which step, and that a job that moves only makes full runs.
Stepwise ==
    /\ run.step # "copy" => \A p \in Paths : todo[p] = NoCopy
    /\ run.step # "apply" => plan = {}
    /\ run.step \notin {"copy", "apply"} => acks = {}
    /\ run.step = "copy" => \A a \in acks : a.op = "put"
    /\ run.step = "apply" => ~run.full
    /\ ~reserved /\ run.step # "idle" => run.full

\* A file is copied before it is removed from the source.
Moving ==
    /\ \A p \in Paths : todo[p].copied =>
          /\ ~reserved /\ p \in Files
          /\ quiet /\ Here(p) => dest[p] = source[p].v
    /\ \A p \in Paths : moved[p] # ABSENT =>
          ~reserved /\ p \in Files /\ dest[p] \in {moved[p], PARTIAL}

\* Nothing of an undisturbed walk is lost: what the source has is still to be
\* listed, copied or recorded, or its row is of this run.
Recorded(p) ==
    \/ p \in run.unseen
    \/ todo[p] # NoCopy
    \/ \E a \in acks : a.op = "put" /\ a.p = p
    \/ base[p].g = run.working
Observed ==
    run.step = "copy" /\ quiet /\ ~run.full /\ ~run.failed =>
        \A p \in Paths : Here(p) => Recorded(p)

\* The operations of phase B begin where the source has nothing.
Planned == \A r \in plan : r.from \in Paths /\ (quiet => ~Here(r.from))

IInv == Shape /\ Rooted /\ Stepwise /\ Moving /\ Observed /\ Planned

-----------------------------------------------------------------------------
(* The order of the catalogue, and the operation that is due.              *)

LEMMA PlaceRange == ASSUME NEW p \in Paths PROVE Place(p) \in 1..Len(Order) /\ Order[Place(p)] = p
  <1>1. \E i \in 1..Len(Order) : Order[i] = p
    <2>1. Order \in Seq(Paths) /\ p \in Range(Order)
      BY LocalCopyAssumption
    <2>2. p \in {Order[i] : i \in DOMAIN Order}
      BY <2>1 DEF Range
    <2> QED
      BY <2>1, <2>2
  <1> QED
    BY <1>1 DEF Place

\* What is gone through in path order has a first element.
LEMMA DueExists ==
    ASSUME NEW ops, ops # {}, \A r \in ops : r.from \in Paths
    PROVE  \E r \in ops : \A o \in ops : Place(r.from) <= Place(o.from)
  <1> DEFINE places == {Place(r.from) : r \in ops}
  <1>1. places \subseteq Nat /\ places # {}
    <2>1. \A r \in ops : Place(r.from) \in Nat
      BY PlaceRange, LocalCopyAssumption
    <2> QED
      BY <2>1
  <1> DEFINE less == {ss \in Nat \X Nat : ss[1] < ss[2]}
  <1>2. IsWellFoundedOn(less, Nat)
    BY NatLessThanWellFounded DEF OpToRel
  <1>3. PICK m \in places : \A n \in places : <<n, m>> \notin less
    <2> HIDE DEF less, places
    <2> QED
      BY <1>1, <1>2, WFMin
  <1>5. \A n \in places : m <= n
    <2> SUFFICES ASSUME NEW n \in places PROVE m <= n
      OBVIOUS
    <2>1. m \in Nat /\ n \in Nat /\ <<n, m>> \notin less
      BY <1>1, <1>3
    <2> QED
      BY <2>1
  <1>4. PICK r \in ops : Place(r.from) = m
    OBVIOUS
  <1> QED
    BY <1>4, <1>5

LEMMA DueInPlan == Planned /\ plan # {} => Due \in plan
  <1> SUFFICES ASSUME Planned, plan # {} PROVE Due \in plan
    OBVIOUS
  <1>1. \E r \in plan : \A o \in plan : Place(r.from) <= Place(o.from)
    BY DueExists DEF Planned
  <1> QED
    BY <1>1 DEF Due

\* Every directory has a place for a file of another one.
LEMMA BesideThere ==
    ASSUME NEW p \in Dirs, NEW e \in Dirs, NEW r \in Children(e)
    PROVE  Beside(r, p) \in Children(p)
  <1>1. Name[r] \in {Name[q] : q \in Children(p)}
    BY LocalCopyAssumption
  <1>2. \E q \in Children(p) : Name[q] = Name[r]
    BY <1>1
  <1> QED
    BY <1>2 DEF Beside

\* A file has nothing below it.
LEMMA NothingBelow == ASSUME NEW p \in Files PROVE Children(p) = {}
  BY LocalCopyAssumption DEF Children, Paths

LEMMA DirsOfFiles ==
    ASSUME NEW d \in Dirs, NEW r \in Children(d)
    PROVE  r \in Files /\ Parent[r] = d
  BY LocalCopyAssumption DEF Children, Paths, ROOT

-----------------------------------------------------------------------------
(* A change of the source leaves a tree behind, and ends what is known of  *)
(* an undisturbed run.                                                     *)

LEMMA RunUpdates ==
    ASSUME NEW r, IsRun(r), NEW x
    PROVE  /\ IsRun([r EXCEPT !.step = x]) /\ IsRun([r EXCEPT !.unseen = x])
           /\ IsRun([r EXCEPT !.failed = x]) /\ IsRun([r EXCEPT !.guess = x])
  BY DEF IsRun

LEMMA ChangeStep ==
    ASSUME NEW s, IInv, IsTree(s), RootedIn(s), Change(s)
    PROVE  IInv'
  <1> USE DEF IInv, Change
  <1>0. IsRun(run)'
    <2>1. PICK late : run' = IF run.step = "copy" THEN [run EXCEPT !.unseen = @ \cup late] ELSE run
      OBVIOUS
    <2>2. IsRun(run')
      BY <2>1, RunUpdates DEF Shape
    <2> QED
      BY <2>2 DEF IsRun
  <1>1. Shape'
    BY <1>0 DEF Shape, IsTree, options, catalogue
  <1>2. Rooted'
    BY DEF Rooted, RootedIn
  <1>3. run'.step = run.step /\ run'.full = run.full
    BY DEF Shape
  <1>4. Stepwise'
    BY <1>3 DEF Stepwise, options, catalogue
  <1>5. Moving'
    BY <1>3 DEF Moving, options, catalogue
  <1>6. Observed' /\ Planned'
    BY DEF Observed, Planned
  <1> QED
    BY <1>1, <1>2, <1>4, <1>5, <1>6

LEMMA CreateStep == ASSUME NEW p \in Paths, IInv, Create(p) PROVE IInv'
  <1> DEFINE entry == [h |-> IF nfs THEN clock ELSE 0, v |-> IF p \in Dirs THEN 1 ELSE clock]
             s == [source EXCEPT ![p] = entry]
  <1>1. Change(s) /\ ~Here(p) /\ (Parent[p] # ROOT => Here(Parent[p]))
    BY DEF Create
  <1>2. IsTree(source) /\ Rooted /\ clock # 0
    BY DEF IInv, Shape
  <1>3. IsTree(s)
    BY <1>2 DEF IsTree
  <1>4. s[p] = entry /\ \A q \in Paths : q # p => s[q] = source[q]
    BY <1>2 DEF IsTree
  <1>5. IsEntry(entry) /\ entry # Nothing
    BY <1>2 DEF ABSENT, Nothing, IsEntry
  <1>6. RootedIn(s)
    <2> SUFFICES ASSUME NEW q \in Paths, s[q] # Nothing
                 PROVE  IsEntry(s[q]) /\ (Parent[q] = ROOT \/ s[Parent[q]] # Nothing)
      BY DEF RootedIn
    <2> HIDE DEF s, entry
    <2>1. CASE q = p
      BY <1>1, <1>4, <1>5, <2>1, LocalCopyAssumption DEF Here, Paths
    <2>2. CASE q # p
      BY <1>2, <1>4, <1>5, <2>2, LocalCopyAssumption DEF Rooted, RootedIn, Paths
    <2> QED
      BY <2>1, <2>2
  <1> QED
    BY <1>1, <1>3, <1>6, ChangeStep

LEMMA WriteStep == ASSUME NEW p \in Paths, IInv, Write(p) PROVE IInv'
  <1> DEFINE s == [source EXCEPT ![p].v = clock]
  <1>1. Change(s) /\ Here(p)
    BY DEF Write
  <1>2. IsTree(source) /\ Rooted /\ clock # 0
    BY DEF IInv, Shape
  <1>3. IsTree(s)
    BY <1>2 DEF IsTree
  <1>4. s[p] = [source[p] EXCEPT !.v = clock] /\ \A q \in Paths : q # p => s[q] = source[q]
    BY <1>2 DEF IsTree
  <1>5. s[p] = [h |-> source[p].h, v |-> clock]
    <2>1. source[p] = [h |-> source[p].h, v |-> source[p].v]
      BY <1>1, <1>2 DEF Rooted, RootedIn, IsEntry, Here
    <2> HIDE DEF s
    <2> QED
      BY <1>4, <2>1
  <1>6. RootedIn(s)
    <2> HIDE DEF s
    <2>1. IsEntry(s[p]) /\ s[p] # Nothing
      BY <1>2, <1>5 DEF ABSENT, Nothing, IsEntry
    <2> QED
      BY <1>1, <1>2, <1>4, <1>5, <2>1, LocalCopyAssumption DEF Rooted, RootedIn, Paths, Here
  <1> QED
    BY <1>1, <1>3, <1>6, ChangeStep

LEMMA EraseStep == ASSUME NEW p \in Paths, IInv, Erase(p) PROVE IInv'
  <1> DEFINE s == [q \in Paths |-> IF q \in Subtree(p) THEN Nothing ELSE source[q]]
  <1>1. Change(s)
    BY DEF Erase
  <1>2. IsTree(s)
    BY DEF IsTree
  <1>3. RootedIn(s)
    BY LocalCopyAssumption DEF IInv, Rooted, RootedIn, Subtree, Children, Paths
  <1> QED
    BY <1>1, <1>2, <1>3, ChangeStep

LEMMA MoveStep == ASSUME NEW p \in Paths, NEW q \in Paths, IInv, Move(p, q) PROVE IInv'
  <1> DEFINE s == Relocated(source, p, q, Nothing)
  <1>1. /\ Change(s) /\ p # q /\ Here(p) /\ (Parent[q] # ROOT => Here(Parent[q]))
        /\ {p, q} \subseteq Files \/ ({p, q} \subseteq Dirs /\ ~Here(q))
    BY DEF Move
  <1>2. Rooted
    BY DEF IInv
  <1>3. IsTree(s)
    BY DEF IsTree, Relocated
  <1>4. RootedIn(s)
    <2>1. CASE {p, q} \subseteq Files
      <3>1. Subtree(p) = {p} /\ Children(q) = {}
        BY <2>1, NothingBelow DEF Subtree
      <3>2. s[q] = source[p] /\ s[p] = Nothing /\ \A r \in Paths \ {p, q} : s[r] = source[r]
        BY <3>1, <1>1 DEF Relocated
      <3>3. \A r \in Paths : Parent[r] \notin {p, q}
        BY <2>1, LocalCopyAssumption DEF Paths
      <3> HIDE DEF s
      <3> QED
        BY <1>1, <1>2, <3>2, <3>3, LocalCopyAssumption DEF Rooted, RootedIn, Paths, Here, Nothing
    <2>2. CASE {p, q} \subseteq Dirs
      <3>1. s[q] = source[p] /\ s[p] = Nothing /\ q \notin Children(p) /\ p \notin Children(q)
        BY <2>2, <1>1, DirsOfFiles, LocalCopyAssumption DEF Relocated, Subtree
      <3>2. ASSUME NEW r \in Children(q)
            PROVE  s[r] = source[Beside(r, p)] /\ Beside(r, p) \in Children(p) /\ Parent[r] = q
        <4>1. r \in Paths /\ r # q /\ Parent[r] = q
          BY <2>2, <3>1, LocalCopyAssumption DEF Children, Paths
        <4> QED
          <5>1. p \in Dirs /\ q \in Dirs
            BY <2>2
          <5>2. Beside(r, p) \in Children(p)
            BY <5>1, BesideThere
          <5>3. r \notin Subtree(p)
            BY <1>1, <3>1, <4>1 DEF Subtree, Children
          <5> QED
            BY <4>1, <5>2, <5>3 DEF Relocated
      <3>3. ASSUME NEW r \in Children(p) PROVE s[r] = Nothing
        BY <2>2, <1>1, <3>1, DirsOfFiles DEF Relocated, Children, Subtree
      <3>4. ASSUME NEW r \in Paths, r \notin Subtree(q), r \notin Subtree(p)
            PROVE  s[r] = source[r] /\ Parent[r] \notin {p, q}
        BY <3>4 DEF Relocated, Subtree, Children
      <3>5. Parent[p] = ROOT /\ Parent[q] = ROOT
        BY <2>2, LocalCopyAssumption
      <3> HIDE DEF s
      <3> SUFFICES ASSUME NEW r \in Paths, s[r] # Nothing
                   PROVE  IsEntry(s[r]) /\ (Parent[r] = ROOT \/ s[Parent[r]] # Nothing)
        BY DEF RootedIn
      <3>6. CASE r = q
        BY <3>1, <3>5, <3>6, <1>2, <1>1 DEF Rooted, RootedIn, Here
      <3>7. CASE r \in Children(q)
        BY <3>1, <3>2, <3>7, <1>2, <1>1 DEF Rooted, RootedIn, Here, Children
      <3>8. CASE r \notin Subtree(q) /\ r \notin Subtree(p)
        <4>1. s[r] = source[r] /\ Parent[r] \notin {p, q}
          BY <3>4, <3>8
        <4>2. Parent[r] # ROOT => s[Parent[r]] = source[Parent[r]]
          <5> SUFFICES ASSUME Parent[r] # ROOT PROVE s[Parent[r]] = source[Parent[r]]
            OBVIOUS
          <5>1. Parent[r] \in Dirs
            BY LocalCopyAssumption
          <5>2. Parent[r] \notin Children(p) /\ Parent[r] \notin Children(q)
            BY <5>1, <2>2, LocalCopyAssumption DEF Children, Paths
          <5> QED
            BY <5>1, <5>2, <4>1, <3>4 DEF Subtree, Paths
        <4> QED
          BY <4>1, <4>2, <1>2 DEF Rooted, RootedIn
      <3> QED
        BY <3>1, <3>3, <3>6, <3>7, <3>8 DEF Subtree
    <2> QED
      BY <2>1, <2>2, <1>1
  <1> HIDE DEF s
  <1> QED
    BY <1>1, <1>3, <1>4, ChangeStep

-----------------------------------------------------------------------------
(* A run begins and ends.  Between its phases nothing is under way.        *)

AtRest(r) ==
    /\ IsRun(r) /\ r.step \notin {"copy", "apply"}
    /\ ~reserved /\ r.step # "idle" => r.full

LEMMA AtRestStep ==
    ASSUME IInv, AtRest(run'), UNCHANGED <<reserved, source, moved, clock>>,
           IsTree(base'), IsTree(dest'), \A p \in Paths : dest'[p] \in {dest[p], PARTIAL},
           IsTree(todo'), \A p \in Paths : todo'[p] = NoCopy, acks' = {}, plan' = {}
    PROVE  IInv'
  <1> USE DEF IInv, AtRest
  <1>1. Shape'
    BY DEF Shape, IsRun, IsTree
  <1>2. Rooted'
    BY DEF Rooted, RootedIn
  <1>3. Stepwise'
    BY DEF Stepwise
  <1>4. Moving'
    BY DEF Moving, NoCopy
  <1>5. Observed' /\ Planned'
    BY DEF Observed, Planned
  <1> QED
    BY <1>1, <1>2, <1>3, <1>4, <1>5

\* What holds at every moment outside the two phases.
LEMMA RestHolds ==
    ASSUME IInv, run.step \notin {"copy", "apply"}
    PROVE  /\ AtRest(run) /\ acks = {} /\ plan = {}
           /\ IsTree(base) /\ IsTree(dest) /\ IsTree(todo) /\ \A p \in Paths : todo[p] = NoCopy
  BY DEF IInv, Shape, Stepwise, AtRest

LEMMA BeginSteps ==
    ASSUME IInv, StartFull \/ StartIncremental \/ Initialize \/ NoStateRow \/ Rebase
    PROVE  IInv'
  <1> USE DEF options, store, history, catalogue
  <1>1. CASE StartFull \/ StartIncremental
    <2>1. run' = [Idle EXCEPT !.step = run'.step, !.full = FullRun] /\ run.step = "idle"
      BY <1>1 DEF StartFull, StartIncremental, Starts, Idle
    <2>2. AtRest(run')
      BY <1>1, <2>1 DEF StartFull, StartIncremental, Starts, Idle, AtRest, IsRun, FullRun
    <2> QED
      BY <1>1, <2>1, <2>2, RestHolds, AtRestStep DEF StartFull, StartIncremental, Starts
  <1>2. CASE Initialize
    <2>1. AtRest(run')
      BY <1>2, RestHolds DEF Initialize, AtRest, IsRun
    <2> QED
      BY <1>2, <2>1, RestHolds, AtRestStep DEF Initialize
  <1>3. CASE NoStateRow
    BY <1>3, RestHolds, AtRestStep DEF NoStateRow, AtRest, IsRun, Idle
  <1>4. CASE Rebase
    <2>1. AtRest(run')
      BY <1>4, RestHolds DEF Rebase, AtRest, IsRun
    <2>2. IsTree(base')
      BY <1>4 DEF Rebase, IsTree
    <2> QED
      BY <1>4, <2>1, <2>2, RestHolds, AtRestStep DEF Rebase
  <1> QED
    BY <1>1, <1>2, <1>3, <1>4

LEMMA EndSteps ==
    ASSUME IInv, FullCopied \/ BarrierFails \/ PhaseBEnds \/ Complete \/ CompleteFails \/ Crash
    PROVE  IInv'
  <1> USE DEF options, store, history, catalogue
  <1> DEFINE none == [p \in Paths |-> NoCopy]
  <1>0. IsTree(none) /\ (\A p \in Paths : none[p] = NoCopy) /\ AtRest(Idle)
    BY DEF IsTree, AtRest, IsRun, Idle
  <1>00. IsTree(base) /\ IsTree(dest) /\ IsTree(todo) /\ IsRun(run)
    BY DEF IInv, Shape
  <1>1. CASE FullCopied
    <2>1. AtRest(run')
      BY <1>1, <1>00 DEF FullCopied, AtRest, IsRun
    <2>2. plan = {}
      BY <1>1 DEF FullCopied, PhaseAOver, IInv, Stepwise
    <2> QED
      BY <1>1, <1>00, <2>1, <2>2, AtRestStep DEF FullCopied, PhaseAOver
  <1>2. CASE BarrierFails
    BY <1>2, <1>0, <1>00, AtRestStep DEF BarrierFails, Abandon
  <1>3. CASE PhaseBEnds
    <2>1. CASE run.failed
      BY <1>3, <2>1, <1>0, <1>00, AtRestStep DEF PhaseBEnds, Abandon
    <2>2. CASE ~run.failed
      <3>1. AtRest(run')
        BY <1>3, <2>2, <1>00 DEF PhaseBEnds, PhaseBOver, AtRest, IsRun, IInv, Stepwise
      <3>2. acks' = {} /\ plan' = {} /\ todo' = todo /\ \A p \in Paths : todo[p] = NoCopy
        BY <1>3, <2>2 DEF PhaseBEnds, PhaseBOver, IInv, Stepwise
      <3> QED
        BY <1>3, <1>00, <3>1, <3>2, AtRestStep DEF PhaseBEnds
    <2> QED
      BY <2>1, <2>2
  <1>4. CASE Complete
    BY <1>4, <1>0, RestHolds, AtRestStep DEF Complete
  <1>5. CASE CompleteFails
    BY <1>5, <1>0, RestHolds, AtRestStep DEF CompleteFails, Abandon
  <1>6. CASE Crash
    <2>1. IsTree(dest') /\ \A p \in Paths : dest'[p] \in {dest[p], PARTIAL}
      BY <1>6, <1>00 DEF Crash, IsTree
    <2> QED
      BY <1>6, <2>1, <1>0, <1>00, AtRestStep DEF Crash
  <1> QED
    BY <1>1, <1>2, <1>3, <1>4, <1>5, <1>6

-----------------------------------------------------------------------------
(* Phase A.                                                                *)

LEMMA Frames ==
    /\ Rooted /\ UNCHANGED source => Rooted'
    /\ Moving /\ UNCHANGED <<reserved, quiet, source, dest, todo, moved>> => Moving'
    /\ Planned /\ UNCHANGED <<quiet, source>> /\ plan' \subseteq plan => Planned'
  <1>1. Rooted /\ UNCHANGED source => Rooted'
    BY DEF Rooted, RootedIn
  <1>2. Moving /\ UNCHANGED <<reserved, quiet, source, dest, todo, moved>> => Moving'
    BY DEF Moving, Here
  <1>3. Planned /\ UNCHANGED <<quiet, source>> /\ plan' \subseteq plan => Planned'
    BY DEF Planned, Here
  <1> QED
    BY <1>1, <1>2, <1>3

LEMMA MergeStep == ASSUME IInv, Merge PROVE IInv'
  <1> USE DEF IInv, Merge, options, store, work, history
  <1>1. Shape' /\ Stepwise'
    BY DEF Shape, IsTree, IsRun, Stepwise
  <1>2. Observed'
    BY DEF Observed, Recorded, Here
  <1> QED
    BY <1>1, <1>2, Frames

LEMMA MarkCopyingStep == ASSUME IInv, MarkCopying PROVE IInv'
  <1> USE DEF options, store, history
  <1>1. CASE run.recovering /\ ~reserved
    <2>1. run' = Idle
      BY <1>1 DEF MarkCopying
    <2>2. AtRest(run')
      BY <2>1 DEF AtRest, IsRun, Idle
    <2> QED
      BY <2>2, RestHolds, AtRestStep DEF MarkCopying
  <1>2. CASE ~(run.recovering /\ ~reserved)
    <2> USE DEF IInv, MarkCopying
    <2>1. AtRest(run) /\ acks = {} /\ plan = {} /\ \A p \in Paths : todo[p] = NoCopy
      BY RestHolds
    <2>2. /\ IsRun(run') /\ run'.step = "copy" /\ run'.full = run.full
          /\ run'.unseen = {p \in Paths : Here(p)}
      BY <1>2, <2>1 DEF Underway, AtRest, IsRun
    <2>3. Shape'
      BY <2>2 DEF Shape, IsTree, IsRun
    <2>4. Stepwise'
      BY <2>1, <2>2 DEF Stepwise, AtRest
    <2>5. Moving'
      BY <2>1 DEF Moving, NoCopy
    <2>6. Observed'
      BY <2>2 DEF Observed, Recorded, Here
    <2>7. Planned'
      BY <2>1 DEF Planned
    <2> QED
      BY <2>3, <2>4, <2>5, <2>6, <2>7, Frames
  <1> QED
    BY <1>1, <1>2

LEMMA VanishedStep == ASSUME NEW p \in Paths, IInv, Vanished(p) PROVE IInv'
  <1> USE DEF IInv, Vanished, Reached, options, store, catalogue, history
  <1>1. /\ IsRun(run') /\ run'.step = "copy" /\ run'.full = run.full /\ run'.working = run.working
        /\ run'.unseen = run.unseen \ Subtree(p) /\ (run.failed => run'.failed)
    BY DEF Shape, IsRun
  <1>2. \A q \in Subtree(p) : ~Here(q)
    BY LocalCopyAssumption DEF Rooted, RootedIn, Subtree, Children, Here
  <1>3. Shape' /\ Stepwise'
    BY <1>1 DEF Shape, IsTree, IsRun, Stepwise
  <1>4. Observed'
    BY <1>1, <1>2 DEF Observed, Recorded, Here
  <1> QED
    BY <1>3, <1>4, Frames

LEMMA WalkFailsStep == ASSUME NEW p \in Paths, IInv, WalkFails(p) PROVE IInv'
  <1> USE DEF IInv, WalkFails, Fault, options, store, catalogue
  <1>1. PICK lost : run' = [run EXCEPT !.unseen = @ \ lost, !.failed = TRUE]
    OBVIOUS
  <1>2. IsRun(run') /\ run'.step = "copy" /\ run'.full = run.full /\ run'.failed
    BY <1>1 DEF Shape, IsRun
  <1>3. Shape' /\ Stepwise'
    BY <1>2 DEF Shape, IsTree, IsRun, Stepwise
  <1>4. Observed'
    BY <1>2 DEF Observed
  <1> QED
    BY <1>3, <1>4, Frames

\* A copy is put down for the handlers.
LEMMA QueuedEffect ==
    ASSUME NEW p \in Paths, Shape, Rooted, Here(p), run.step = "copy", Queued(p)
    PROVE  /\ IsRun(run') /\ run'.step = "copy" /\ run'.full = run.full /\ run'.working = run.working
           /\ run'.unseen = run.unseen \ {p} /\ run'.failed = run.failed
           /\ IsTree(todo') /\ ~todo'[p].copied /\ todo'[p] # NoCopy
           /\ \A q \in Paths : q # p => todo'[q] = todo[q]
  <1>1. /\ IsRun(run') /\ run'.step = "copy" /\ run'.full = run.full /\ run'.working = run.working
        /\ run'.unseen = run.unseen \ {p} /\ run'.failed = run.failed
    BY DEF Queued, Shape, IsRun
  <1>2. /\ IsTree(todo') /\ todo'[p] = [h |-> source[p].h, v |-> source[p].v, copied |-> FALSE]
        /\ \A q \in Paths : q # p => todo'[q] = todo[q]
    BY DEF Queued, Shape, IsTree
  <1>3. source[p].v # ABSENT
    BY DEF Rooted, RootedIn, IsEntry, Here
  <1>4. todo'[p].v # ABSENT /\ todo'[p].copied = FALSE
    BY <1>2, <1>3
  <1> QED
    BY <1>1, <1>2, <1>4 DEF NoCopy

LEMMA QueuedStep ==
    ASSUME NEW p \in Paths, IInv, run.step = "copy", Here(p), Queued(p),
           UNCHANGED <<options, store, catalogue, acks, plan, clock, spent, history>>
    PROVE  IInv'
  <1> USE DEF IInv, options, store, catalogue, history
  <1>1. /\ IsRun(run') /\ run'.step = "copy" /\ run'.full = run.full /\ run'.working = run.working
        /\ run'.unseen = run.unseen \ {p} /\ run'.failed = run.failed
        /\ IsTree(todo') /\ ~todo'[p].copied /\ todo'[p] # NoCopy
        /\ \A q \in Paths : q # p => todo'[q] = todo[q]
    BY QueuedEffect
  <1>2. Shape' /\ Stepwise'
    BY <1>1 DEF Shape, IsTree, IsRun, Stepwise
  <1>3. Moving'
    BY <1>1 DEF Moving, Here
  <1>4. Observed'
    BY <1>1 DEF Observed, Recorded, Here
  <1> QED
    BY <1>2, <1>3, <1>4, Frames

LEMMA CompareStep == ASSUME NEW p \in Paths, IInv, Compare(p) PROVE IInv'
  <1> USE DEF Compare, Reached
  <1>1. CASE run.recovering \/ IsNew(p) \/ IsChanged(p)
    BY <1>1, QueuedStep DEF catalogue
  <1>2. CASE ~(run.recovering \/ IsNew(p) \/ IsChanged(p))
    <2> USE DEF IInv, options, store, history
    <2>1. /\ run' = [run EXCEPT !.unseen = @ \ {p},
                        !.guess = IF base[p].h = source[p].h THEN @ ELSE @ \cup {p}]
          /\ PutRow(p, source[p].h, source[p].v)
          /\ UNCHANGED todo
      BY <1>2
    <2>2. /\ IsRun(run') /\ run'.step = "copy" /\ run'.full = run.full /\ run'.working = run.working
          /\ run'.unseen = run.unseen \ {p} /\ run'.failed = run.failed
      BY <2>1 DEF Shape, IsRun
    <2>3. /\ IsTree(base') /\ base'[p].g = run.working
          /\ \A q \in Paths : q # p => base'[q] = base[q]
      BY <2>1 DEF PutRow, Shape, IsTree
    <2>4. Shape' /\ Stepwise'
      BY <2>1, <2>2, <2>3 DEF Shape, IsTree, IsRun, Stepwise
    <2>5. Observed'
      BY <2>1, <2>2, <2>3 DEF Observed, Recorded, Here
    <2> QED
      BY <2>1, <2>4, <2>5, Frames
  <1> QED
    BY <1>1, <1>2

\* The content the source has now is written, in a directory that is made.
LEMMA CopiedEffect ==
    ASSUME NEW p \in Paths, Shape, Rooted, Copyable(p), Copied(p)
    PROVE  /\ IsTree(dest') /\ (p \in Files => dest'[p] = source[p].v)
           /\ \A q \in Files : q # p => dest'[q] = dest[q]
           /\ \A q \in Paths : dest'[q] = ABSENT => dest[q] = ABSENT
           /\ IsTree(moved') /\ moved'[p] = ABSENT
           /\ \A q \in Paths : q # p => moved'[q] = moved[q]
  <1>1. \A q \in Files : Parent[p] # q /\ q \in Paths
    BY LocalCopyAssumption, NothingBelow DEF Children, Paths
  <1>2. p \notin Dirs => source[p].v # ABSENT
    BY DEF Copyable, Rooted, RootedIn, IsEntry, Here
  <1>0. p \in Files => p \notin Dirs
    BY LocalCopyAssumption
  <1>3. /\ IsTree(dest')
        /\ \A q \in Paths : dest'[q] = IF q \in ({p} \cap Dirs) \cup {Parent[p]} THEN 1
                                         ELSE IF q = p THEN source[p].v ELSE dest[q]
    BY DEF Copied, Written, IsTree
  <1>4. /\ IsTree(moved') /\ moved'[p] = ABSENT
        /\ \A q \in Paths : q # p => moved'[q] = moved[q]
    BY DEF Copied, Shape, IsTree
  <1> QED
    BY <1>0, <1>1, <1>2, <1>3, <1>4 DEF ABSENT

\* Where a copy is done, its row or the removal of its source file is due.
LEMMA CopiedStep ==
    ASSUME NEW p \in Paths, IInv, run.step = "copy", Copyable(p), Copied(p), IsTree(todo'),
           \A q \in Paths : q # p => todo'[q] = todo[q],
           todo'[p].copied => ~reserved /\ p \in Files,
           \/ acks' = acks /\ run.full
           \/ Acked(p)
    PROVE  IInv'
  <1> USE DEF IInv, options, catalogue
  <1>1. /\ IsTree(dest') /\ (p \in Files => dest'[p] = source[p].v)
        /\ \A q \in Files : q # p => dest'[q] = dest[q]
        /\ IsTree(moved') /\ moved'[p] = ABSENT
        /\ \A q \in Paths : q # p => moved'[q] = moved[q]
    BY CopiedEffect
  <1>2. UNCHANGED <<options, source, catalogue, run, plan, clock, spent, quiet>>
    BY DEF Copied
  <1>3. Shape'
    BY <1>1, <1>2 DEF Shape, IsTree, IsRun
  <1>4. Stepwise'
    BY <1>2 DEF Stepwise, Acked
  <1>5. Moving'
    BY <1>1, <1>2 DEF Moving, Here
  <1>6. Observed'
    <2>1. CASE run.full
      BY <1>2, <2>1 DEF Observed
    <2>2. CASE Acked(p)
      <3>1. \E a \in acks' : a.op = "put" /\ a.p = p
        <4>1. [op |-> "put", p |-> p, h |-> todo[p].h, v |-> todo[p].v] \in acks'
          BY <2>2 DEF Acked
        <4> QED
          BY <4>1
      <3>2. acks \subseteq acks'
        BY <2>2 DEF Acked
      <3>3. \A q \in Paths : q # p /\ Recorded(q) => Recorded(q)'
        BY <1>2, <3>2 DEF Recorded
      <3> QED
        BY <1>2, <3>1, <3>3 DEF Observed, Recorded, Here
    <2> QED
      BY <2>1, <2>2
  <1> QED
    BY <1>2, <1>3, <1>4, <1>5, <1>6, Frames

LEMMA CopySteps == ASSUME NEW p \in Paths, IInv, ReceiverCopies(p) \/ HandlerCopies(p) PROVE IInv'
  <1>0. IsTree(todo) /\ ~NoCopy.copied
    BY DEF IInv, Shape, NoCopy
  <1>1. CASE ReceiverCopies(p) /\ (reserved \/ p \in Dirs)
    <2>1. IsTree(todo') /\ todo'[p] = NoCopy /\ \A q \in Paths : q # p => todo'[q] = todo[q]
      BY <1>0, <1>1 DEF ReceiverCopies, Finished, IsTree
    <2> QED
      BY <1>0, <1>1, <2>1, CopiedStep DEF ReceiverCopies, Ready
  <1>2. CASE ReceiverCopies(p) /\ ~(reserved \/ p \in Dirs)
    <2>1. IsTree(todo') /\ \A q \in Paths : q # p => todo'[q] = todo[q]
      BY <1>0, <1>2 DEF ReceiverCopies, IsTree
    <2> QED
      BY <1>2, <2>1, CopiedStep DEF ReceiverCopies, Ready, Paths
  <1>3. CASE HandlerCopies(p)
    <2>1. IsTree(todo') /\ todo'[p] = NoCopy /\ \A q \in Paths : q # p => todo'[q] = todo[q]
      BY <1>0, <1>3 DEF HandlerCopies, Finished, IsTree
    <2> QED
      BY <1>0, <1>3, <2>1, CopiedStep DEF HandlerCopies, Ready
  <1> QED
    BY <1>1, <1>2, <1>3

LEMMA DeleteSourceStep == ASSUME NEW p \in Paths, IInv, DeleteSource(p) PROVE IInv'
  <1> USE DEF IInv, DeleteSource, Ready, options, catalogue
  <1>1. /\ IsTree(source') /\ source'[p] = Nothing /\ \A q \in Paths : q # p => source'[q] = source[q]
        /\ IsTree(todo') /\ todo'[p] = NoCopy /\ \A q \in Paths : q # p => todo'[q] = todo[q]
        /\ IsTree(moved') /\ moved'[p] = (IF quiet THEN source[p].v ELSE ABSENT)
        /\ \A q \in Paths : q # p => moved'[q] = moved[q]
    BY DEF Finished, Shape, IsTree
  <1>2. ~reserved /\ p \in Files /\ run.full /\ (quiet => dest[p] = source[p].v)
    BY DEF Moving, Stepwise
  <1>3. Shape' /\ Stepwise'
    BY <1>1 DEF Shape, IsTree, IsRun, Stepwise, Acked
  <1>4. Rooted'
    <2>1. \A q \in Paths : Parent[q] # p
      BY <1>2, NothingBelow DEF Children
    <2>2. \A q \in Paths : Parent[q] # ROOT => Parent[q] \in Paths
      BY LocalCopyAssumption DEF Paths
    <2> QED
      BY <1>1, <2>1, <2>2 DEF Rooted, RootedIn
  <1>5. Moving'
    BY <1>1, <1>2 DEF Moving, NoCopy, Here
  <1>6. Observed'
    BY <1>2 DEF Observed
  <1>7. Planned'
    BY <1>1 DEF Planned, Here
  <1> QED
    BY <1>3, <1>4, <1>5, <1>6, <1>7

LEMMA CopyFailsStep == ASSUME NEW p \in Paths, IInv, CopyFails(p) PROVE IInv'
  <1> USE DEF IInv, CopyFails, Ready, Fault, options, catalogue
  <1>1. IsRun(run') /\ run'.step = "copy" /\ run'.full = run.full /\ run'.failed
    BY DEF Failing, Shape, IsRun
  <1>2. IsTree(todo') /\ todo'[p] = NoCopy /\ \A q \in Paths : q # p => todo'[q] = todo[q]
    BY DEF Finished, Shape, IsTree
  <1>3. /\ IsTree(dest') /\ dest'[p] \in {dest[p], PARTIAL}
        /\ \A q \in Paths : q # p => dest'[q] = dest[q]
    BY DEF Shape, IsTree
  <1>4. Shape' /\ Stepwise'
    BY <1>1, <1>2, <1>3 DEF Shape, IsTree, IsRun, Stepwise
  <1>5. Moving'
    BY <1>2, <1>3 DEF Moving, NoCopy, Here
  <1>6. Observed'
    BY <1>1 DEF Observed
  <1> QED
    BY <1>4, <1>5, <1>6, Frames

\* A finished copy has its row written, or the run fails.
LEMMA FlushStep == ASSUME NEW a \in acks, IInv, Flush(a) PROVE IInv'
  <1> USE DEF IInv, Flush, options, store, history
  <1>1. CASE a.op = "put"
    <2>1. /\ IsTree(base') /\ (a.p \in Paths => base'[a.p].g = run.working)
          /\ \A q \in Paths : q # a.p => base'[q] = base[q]
      BY <1>1 DEF PutRow, Shape, IsTree
    <2>2. Shape' /\ Stepwise'
      BY <2>1 DEF Shape, IsTree, IsRun, Stepwise
    <2>3. Observed'
      BY <2>1 DEF Observed, Recorded, Here
    <2> QED
      BY <2>2, <2>3, Frames
  <1>2. CASE a.op # "put"
    <2>1. IsTree(base')
      BY <1>2 DEF DropRow, Shape, IsTree
    <2>2. Shape' /\ Stepwise'
      BY <2>1 DEF Shape, IsTree, IsRun, Stepwise
    <2>3. Observed'
      BY <1>2 DEF Observed, Stepwise
    <2> QED
      BY <2>2, <2>3, Frames
  <1> QED
    BY <1>1, <1>2

LEMMA FlushFailsStep == ASSUME NEW a \in acks, IInv, FlushFails(a) PROVE IInv'
  <1> USE DEF IInv, FlushFails, Fault, options, store, catalogue
  <1>1. IsRun(run') /\ run'.step = run.step /\ run'.full = run.full /\ run'.failed
    BY DEF Failing, Shape, IsRun
  <1>2. Shape' /\ Stepwise'
    BY <1>1 DEF Shape, IsTree, IsRun, Stepwise
  <1>3. Observed'
    BY <1>1 DEF Observed
  <1> QED
    BY <1>2, <1>3, Frames

-----------------------------------------------------------------------------
(* Phase B.                                                                *)

LEMMA StatusFrom == ASSUME NEW p \in Paths, NEW r \in Status(p) PROVE r.from = p
  <1>1. \A q : Rename(p, q).from = p
    BY DEF Rename
  <1>2. Delete(p).from = p
    BY DEF Delete
  <1>3. CASE RenamedTo(p) = {}
    BY <1>2, <1>3, FS_EmptySet DEF Status
  <1>4. CASE RenamedTo(p) # {} /\ Cardinality(RenamedTo(p)) = 1
    <2>1. r = Rename(p, CHOOSE q \in RenamedTo(p) : TRUE)
      BY <1>4 DEF Status
    <2> QED
      BY <1>1, <2>1
  <1>5. CASE RenamedTo(p) # {} /\ Cardinality(RenamedTo(p)) # 1
    BY <1>5 DEF Status
  <1> QED
    BY <1>3, <1>4, <1>5

\* All that the source has is recorded by now, so what is not was not seen there.
LEMMA BarrierStep == ASSUME IInv, Barrier PROVE IInv'
  <1> USE DEF IInv, Barrier, options, store, catalogue, history
  <1>1. /\ IsRun(run') /\ run'.step = "apply" /\ run'.full = run.full
    BY DEF Shape, IsRun
  <1>2. Shape' /\ Stepwise' /\ Observed'
    BY <1>1 DEF Shape, IsTree, IsRun, Stepwise, Observed, PhaseAOver
  <1>3. Planned'
    <2> SUFFICES ASSUME NEW r \in Detected PROVE r.from \in Paths /\ (quiet => ~Here(r.from))
      BY DEF Planned, Here
    <2>1. PICK p \in Paths : base[p].g # run.working /\ r \in Status(p)
      BY DEF Detected
    <2>2. r.from = p
      BY <2>1, StatusFrom
    <2>3. quiet /\ Here(p) => Recorded(p)
      BY DEF Observed, PhaseAOver
    <2>4. ~Recorded(p)
      BY <2>1 DEF Recorded, PhaseAOver
    <2> QED
      BY <2>2, <2>3, <2>4
  <1> QED
    BY <1>2, <1>3, Frames

\* In phase B a job does not move files, so there is nothing to be kept for one.
LEMMA ApplyStep ==
    ASSUME IInv, run.step = "apply", IsTree(dest'), plan' \subseteq plan,
           IsRun(run'), run'.step = run.step, run'.full = run.full,
           UNCHANGED <<options, source, catalogue, todo, clock, quiet, moved>>
    PROVE  IInv'
  <1> USE DEF IInv, options, catalogue
  <1>1. Shape' /\ Stepwise' /\ Observed'
    BY DEF Shape, IsTree, Stepwise, Observed
  <1>2. Moving'
    BY DEF Moving, Stepwise, NoCopy
  <1> QED
    BY <1>1, <1>2, Frames

LEMMA ApplySteps == ASSUME IInv, ApplyDelete \/ ApplyRename \/ ApplyFails PROVE IInv'
  <1> USE DEF history, store
  <1>0. IsTree(dest) /\ IsRun(run)
    BY DEF IInv, Shape
  <1>1. CASE ApplyDelete
    <2>1. IsTree(dest')
      BY <1>1 DEF ApplyDelete, IsTree
    <2> QED
      BY <1>0, <1>1, <2>1, ApplyStep DEF ApplyDelete, Applying
  <1>2. CASE ApplyRename
    <2>1. IsTree(dest')
      <3>1. \A r : IsTree(Relocated(dest, r.from, r.to, ABSENT))
        BY DEF Relocated, IsTree
      <3>2. \A r, t : IsTree(t) => IsTree(Resynced(r, t))
        BY DEF Resynced, IsTree
      <3>3. \E r : dest' = Resynced(r, IF r.carried THEN dest ELSE Relocated(dest, r.from, r.to, ABSENT))
        BY <1>2 DEF ApplyRename
      <3> QED
        BY <1>0, <3>1, <3>2, <3>3
    <2>2. IsRun(run') /\ run'.step = run.step /\ run'.full = run.full
      BY <1>0, <1>2 DEF ApplyRename, IsRun
    <2> QED
      BY <1>2, <2>1, <2>2, ApplyStep DEF ApplyRename, Applying
  <1>3. CASE ApplyFails
    <2>1. IsRun(run') /\ run'.step = run.step /\ run'.full = run.full
      BY <1>0, <1>3 DEF ApplyFails, Failing, IsRun
    <2> QED
      BY <1>0, <1>3, <2>1, ApplyStep DEF ApplyFails
  <1> QED
    BY <1>1, <1>2, <1>3

-----------------------------------------------------------------------------
(* The invariant.                                                          *)

LEMMA InitInvariant == Init => IInv
  <1> SUFFICES ASSUME Init PROVE IInv
    OBVIOUS
  <1> USE DEF Init
  <1>1. Shape
    BY LocalCopyAssumption DEF Shape, IsTree, IsRun, Idle
  <1>2. Rooted
    BY LocalCopyAssumption DEF Rooted, RootedIn, IsEntry, Nothing, ABSENT, Paths
  <1>3. Stepwise /\ Observed /\ Planned
    BY DEF Stepwise, Observed, Planned, Idle
  <1>4. Moving
    BY DEF Moving, NoCopy
  <1> QED
    BY <1>1, <1>2, <1>3, <1>4 DEF IInv

LEMMA NextInvariant == IInv /\ [Next]_vars => IInv'
  <1> SUFFICES ASSUME IInv, [Next]_vars PROVE IInv'
    OBVIOUS
  <1>1. ASSUME NEW p \in Paths, Create(p) \/ Write(p) \/ Erase(p) \/ \E q \in Paths : Move(p, q)
        PROVE  IInv'
    BY <1>1, CreateStep, WriteStep, EraseStep, MoveStep
  <1>2. CASE StartFull \/ StartIncremental \/ Initialize \/ NoStateRow \/ Rebase \/ MarkCopying \/ Merge
    BY <1>2, BeginSteps, MarkCopyingStep, MergeStep
  <1>3. ASSUME NEW p \in Paths,
               \/ Vanished(p) \/ ObserveFull(p) \/ Compare(p) \/ WalkFails(p)
               \/ ReceiverCopies(p) \/ HandlerCopies(p) \/ DeleteSource(p) \/ CopyFails(p)
        PROVE  IInv'
    <2>1. CASE ObserveFull(p)
      BY <2>1, QueuedStep DEF ObserveFull, Reached
    <2> QED
      BY <1>3, <2>1, VanishedStep, CompareStep, WalkFailsStep, CopySteps, DeleteSourceStep, CopyFailsStep
  <1>4. ASSUME NEW a \in acks, Flush(a) \/ FlushFails(a) PROVE IInv'
    BY <1>4, FlushStep, FlushFailsStep
  <1>5. CASE \/ FullCopied \/ Barrier \/ BarrierFails \/ ApplyDelete \/ ApplyRename \/ ApplyFails
             \/ PhaseBEnds \/ Complete \/ CompleteFails \/ Crash
    BY <1>5, EndSteps, BarrierStep, ApplySteps
  <1>6. CASE UNCHANGED vars
    BY <1>6 DEF vars, options, store, catalogue, work, history, IInv, Shape, IsTree, IsRun, Rooted,
                RootedIn, Stepwise, Moving, Observed, Recorded, Planned, Here
  <1> QED
    BY <1>1, <1>2, <1>3, <1>4, <1>5, <1>6 DEF Next

\* In every state of a job: the source is a tree, phase A records or fails on
\* all that an undisturbed source has, phase B begins only where it has
\* nothing, and a file is removed from the source only where its copy is.
THEOREM CopyInvariant == Spec => []IInv
  BY InitInvariant, NextInvariant, PTL DEF Spec

\* What a move job (DeleteSource, receiver_sync_mode of orchestrator.rs) took
\* away from the source stays at the destination through every later run,
\* crash and refused recovery, until there is something new for that path.
THEOREM MovedIsKeptAlways == Spec => []MovedIsKept
  <1>1. IInv => MovedIsKept
    BY DEF IInv, Moving, MovedIsKept
  <1> QED
    BY <1>1, CopyInvariant, PTL

-----------------------------------------------------------------------------
(* What a deletion or a rename takes away.                                 *)

KeepsWhatIsHere == \A p \in Paths : quiet /\ dest[p] # ABSENT /\ dest'[p] = ABSENT => ~Here(p)

LEMMA DeleteKeeps == IInv /\ ApplyDelete => KeepsWhatIsHere
  <1> SUFFICES ASSUME IInv, ApplyDelete, NEW p \in Paths, quiet, dest[p] # ABSENT, dest'[p] = ABSENT
               PROVE  ~Here(p)
    BY DEF KeepsWhatIsHere
  <1>1. Due.from \in Paths /\ ~Here(Due.from)
    BY DueInPlan DEF IInv, Planned, ApplyDelete, Applying
  <1>2. p \in Subtree(Due.from)
    BY DEF ApplyDelete
  <1> QED
    BY <1>1, <1>2, LocalCopyAssumption DEF Subtree, Children, IInv, Rooted, RootedIn, Here

LEMMA RenameKeeps == IInv /\ ApplyRename => KeepsWhatIsHere
  <1> SUFFICES ASSUME IInv, ApplyRename, NEW p \in Paths, quiet, dest[p] # ABSENT, dest'[p] = ABSENT
               PROVE  ~Here(p)
    BY DEF KeepsWhatIsHere
  <1>1. PICK r : r = Due
    OBVIOUS
  <1> DEFINE there == IF r.carried THEN dest ELSE Relocated(dest, r.from, r.to, ABSENT)
  <1>2. /\ r.carried \/ RenamePossible(r.from, r.to)
        /\ r.changed => Here(r.to)
        /\ dest' = Resynced(r, there)
    BY <1>1 DEF ApplyRename
  <1>3. r.from \in Paths /\ ~Here(r.from)
    BY <1>1, DueInPlan DEF IInv, Planned, ApplyRename, Applying
  <1>4. IsTree(dest) /\ IsTree(there)
    BY DEF IInv, Shape, IsTree, Relocated
  <1>5. there[p] = ABSENT
    <2> HIDE DEF there
    <2>1. CASE r.changed /\ p = r.to
      <3>1. dest'[p] = source[p].v
        BY <1>2, <1>4, <2>1 DEF Resynced, IsTree
      <3> QED
        BY <1>2, <2>1, <3>1 DEF IInv, Rooted, RootedIn, IsEntry, Here
    <2>2. CASE ~(r.changed /\ p = r.to)
      BY <1>2, <1>4, <2>2 DEF Resynced, IsTree
    <2> QED
      BY <2>1, <2>2
  <1>6. ~r.carried /\ RenamePossible(r.from, r.to) /\ Relocated(dest, r.from, r.to, ABSENT)[p] = ABSENT
    BY <1>2, <1>5
  <1>7. p \notin Children(r.to)
    BY <1>6 DEF RenamePossible
  <1>8. p \in Subtree(r.from)
    <2>1. p = r.to => dest[r.from] = ABSENT \/ p \in Subtree(r.from)
      BY <1>6, <1>7 DEF Relocated
    <2>2. p # r.to => p \in Subtree(r.from)
      BY <1>6, <1>7 DEF Relocated
    <2> QED
      BY <1>6, <2>1, <2>2 DEF RenamePossible
  <1> QED
    BY <1>3, <1>8, LocalCopyAssumption DEF Subtree, Children, IInv, Rooted, RootedIn, Here

\* What the other steps write at the destination is a version, a directory or
\* a part of a file.
LEMMA WritesKeep == ASSUME IInv, NEW p \in Paths, ReceiverCopies(p) \/ HandlerCopies(p) PROVE KeepsWhatIsHere
  <1>1. Copied(p) /\ Copyable(p)
    BY DEF ReceiverCopies, HandlerCopies
  <1>2. \A q \in Paths : dest'[q] = ABSENT => dest[q] = ABSENT
    BY <1>1, CopiedEffect DEF IInv
  <1> QED
    BY <1>2 DEF KeepsWhatIsHere

LEMMA PartsKeep == ASSUME IInv, (\E p \in Paths : CopyFails(p)) \/ Crash PROVE KeepsWhatIsHere
  <1>1. \A q \in Paths : dest'[q] \in {dest[q], PARTIAL}
    BY DEF IInv, Shape, IsTree, CopyFails, Crash
  <1> QED
    BY <1>1 DEF KeepsWhatIsHere, PARTIAL, ABSENT

LEMMA OthersKeep == ASSUME UNCHANGED dest PROVE KeepsWhatIsHere
  BY DEF KeepsWhatIsHere

\* A path the source still has is never taken away from the destination by
\* what phase B (delete_entry and process_rename_entry) finds gone or renamed,
\* nor by any other step.
THEOREM DeletesOnlyGoneAlways == Spec => DeletesOnlyGone
  <1>1. IInv /\ [Next]_vars => [KeepsWhatIsHere]_vars
    <2> SUFFICES ASSUME IInv, [Next]_vars PROVE KeepsWhatIsHere
      OBVIOUS
    <2> USE DEF store
    <2>1. ASSUME NEW p \in Paths, Create(p) \/ Write(p) \/ Erase(p) \/ \E q \in Paths : Move(p, q)
          PROVE  KeepsWhatIsHere
      BY <2>1, OthersKeep DEF Create, Write, Erase, Move, Change
    <2>2. CASE StartFull \/ StartIncremental \/ Initialize \/ NoStateRow \/ Rebase \/ MarkCopying \/ Merge
      BY <2>2, OthersKeep
         DEF StartFull, StartIncremental, Starts, Initialize, NoStateRow, Rebase, MarkCopying, Merge
    <2>3. ASSUME NEW p \in Paths,
                 \/ Vanished(p) \/ ObserveFull(p) \/ Compare(p) \/ WalkFails(p)
                 \/ ReceiverCopies(p) \/ HandlerCopies(p) \/ DeleteSource(p) \/ CopyFails(p)
          PROVE  KeepsWhatIsHere
      BY <2>3, OthersKeep, WritesKeep, PartsKeep DEF Vanished, ObserveFull, Compare, WalkFails, DeleteSource
    <2>4. ASSUME NEW a \in acks, Flush(a) \/ FlushFails(a) PROVE KeepsWhatIsHere
      BY <2>4, OthersKeep DEF Flush, FlushFails
    <2>5. CASE ApplyDelete \/ ApplyRename \/ Crash
      BY <2>5, DeleteKeeps, RenameKeeps, PartsKeep
    <2>6. CASE FullCopied \/ Barrier \/ BarrierFails \/ ApplyFails \/ PhaseBEnds \/ Complete \/ CompleteFails
      BY <2>6, OthersKeep
         DEF FullCopied, Barrier, BarrierFails, ApplyFails, PhaseBEnds, Complete, CompleteFails
    <2>7. CASE UNCHANGED vars
      BY <2>7, OthersKeep DEF vars
    <2> QED
      BY <2>1, <2>2, <2>3, <2>4, <2>5, <2>6, <2>7 DEF Next
  <1>2. [KeepsWhatIsHere]_vars <=> [\A p \in Paths : quiet /\ dest[p] # ABSENT /\ dest'[p] = ABSENT => ~Here(p)]_vars
    BY DEF KeepsWhatIsHere
  <1> QED
    BY <1>1, <1>2, CopyInvariant, PTL DEF Spec, DeletesOnlyGone

-----------------------------------------------------------------------------
(* What a quiet run records, with or without file handles: versions pass   *)
(* unchanged from the source through the copy to the row.                  *)

Busy == run.step \in {"copy", "apply", "close"}
Pending(p) == \E a \in acks : a.p = p
NoRows == \A p \in Paths : ~HasRow(p)

\* A directory has but one version.
IsCopy(c) == c = [h |-> c.h, v |-> c.v, copied |-> c.copied]
OneVersion ==
    /\ \A p \in Paths : IsCopy(todo[p])
    /\ \A d \in Dirs :
        /\ Here(d) => source[d].v = 1
        /\ todo[d] # NoCopy => todo[d].v = 1
    /\ run.step = "copy" => \A a \in acks : a.p \in Paths /\ (a.p \in Dirs => a.v = 1)

\* A path of a quiet run is listed, copied and recorded once, each time as it is.
Undisturbed ==
    run.step = "copy" /\ quiet =>
        \A p \in Paths :
            /\ p \in run.unseen => Here(p) /\ todo[p] = NoCopy
            /\ todo[p] # NoCopy => Here(p) /\ todo[p].v = source[p].v
            /\ \A a \in acks : a.p = p =>
                  /\ p \notin run.unseen /\ todo[p] = NoCopy /\ dest[p] = a.v
                  /\ reserved => Here(p) /\ source[p].v = a.v

Recording == OneVersion /\ Undisturbed

-----------------------------------------------------------------------------
(* What each step of phase A does to a path.                               *)

\* A run goes on: only what it has found changes.
Going ==
    /\ IsRun(run') /\ run'.step = run.step /\ run'.full = run.full
    /\ run'.recovering = run.recovering /\ run'.working = run.working
TodoBut(p, x) == todo'[p] = x /\ \A q \in Paths : q # p => todo'[q] = todo[q]

LEMMA QueuedFields ==
    ASSUME NEW p \in Paths, Shape, Queued(p)
    PROVE  /\ Going /\ run'.unseen = run.unseen \ {p}
           /\ run'.failed = run.failed /\ run'.guess = run.guess
           /\ TodoBut(p, [h |-> source[p].h, v |-> source[p].v, copied |-> FALSE])
  <1>1. IsRun(run) /\ IsTree(todo)
    BY DEF Shape
  <1>2. run' = [run EXCEPT !.unseen = run.unseen \ {p}]
    BY DEF Queued
  <1>3. Going /\ run'.unseen = run.unseen \ {p} /\ run'.failed = run.failed /\ run'.guess = run.guess
    BY <1>1, <1>2 DEF Going, IsRun
  <1>4. TodoBut(p, [h |-> source[p].h, v |-> source[p].v, copied |-> FALSE])
    BY <1>1 DEF TodoBut, Queued, IsTree
  <1> QED
    BY <1>3, <1>4

LEMMA FinishedFields == ASSUME NEW p \in Paths, Shape, Finished(p) PROVE TodoBut(p, NoCopy)
  BY DEF TodoBut, Finished, Shape, IsTree

\* The parent of a path is a directory, a path of its own.
LEMMA Parents ==
    ASSUME NEW p \in Paths, Parent[p] # ROOT
    PROVE  Parent[p] \in Dirs /\ Parent[p] \in Paths /\ Parent[p] # p /\ p \in Files
  <1>1. Parent[p] \in Dirs
    BY LocalCopyAssumption
  <1>2. Parent[Parent[p]] = ROOT
    BY <1>1, LocalCopyAssumption
  <1> QED
    BY <1>1, <1>2, LocalCopyAssumption DEF Paths

\* A directory is made, a file has what the source has; what is quiet is there.
LEMMA CopiedFields ==
    ASSUME NEW p \in Paths, Shape, Recording, Ready(p), Copied(p)
    PROVE  /\ Parent[p] # p
           /\ \A q \in Paths : q # p => dest'[q] = IF q = Parent[p] THEN 1 ELSE dest[q]
           /\ Here(p) => dest'[p] = source[p].v
           /\ quiet => Here(p) /\ todo[p].v = source[p].v
  <1>1. \A q \in Paths : dest'[q] = IF q \in ({p} \cap Dirs) \cup {Parent[p]} THEN 1
                                     ELSE IF q = p THEN source[p].v ELSE dest[q]
    BY DEF Copied, Written
  <1>2. Parent[p] # p
    BY Parents, LocalCopyAssumption DEF Paths
  <1>3. Here(p) /\ p \in Dirs => source[p].v = 1
    BY DEF Recording, OneVersion
  <1>4. quiet => Here(p) /\ todo[p].v = source[p].v
    BY DEF Ready, Recording, Undisturbed
  <1> QED
    BY <1>1, <1>2, <1>3, <1>4

LEMMA FailingFields ==
    ASSUME Shape, run' = Failing
    PROVE  Going /\ run'.failed /\ run'.unseen = run.unseen /\ run'.guess = run.guess
  BY DEF Shape, IsRun, Failing, Going

\* A path found in the source has a version.
LEMMA HereVersion == ASSUME Rooted, NEW p \in Paths, Here(p) PROVE source[p].v # ABSENT
  BY DEF Rooted, RootedIn, IsEntry, Here

LEMMA QueuedPending ==
    ASSUME Rooted, NEW p \in Paths, Here(p), TodoBut(p, [h |-> source[p].h, v |-> source[p].v, copied |-> FALSE])
    PROVE  todo'[p] # NoCopy /\ todo'[p].v = source[p].v /\ todo'[p].h = source[p].h
  BY HereVersion DEF TodoBut, NoCopy

\* A change of the source gives every directory its one version, and no path a
\* handle where there are none.
Sound(s) ==
    /\ \A d \in Dirs : s[d] # Nothing => s[d].v = 1
    /\ ~nfs => \A p \in Paths : s[p].h = 0

LEMMA ChangesAreSound ==
    ASSUME IInv, Sound(source), NEW p \in Paths,
           Create(p) \/ Write(p) \/ Erase(p) \/ \E q \in Paths : Move(p, q)
    PROVE  \E s : Change(s) /\ Sound(s)
  <1>1. IsTree(source)
    BY DEF IInv, Shape
  <1>2. CASE Create(p)
    <2> DEFINE e == [h |-> IF nfs THEN clock ELSE 0, v |-> IF p \in Dirs THEN 1 ELSE clock]
               s == [source EXCEPT ![p] = e]
    <2>1. Change(s)
      BY <1>2 DEF Create
    <2>2. s[p] = e /\ \A q \in Paths : q # p => s[q] = source[q]
      BY <1>1 DEF IsTree
    <2>3. (p \in Dirs => e.v = 1) /\ (~nfs => e.h = 0)
      OBVIOUS
    <2> HIDE DEF s, e
    <2> QED
      BY <2>1, <2>2, <2>3 DEF Sound, Paths
  <1>3. CASE Write(p)
    <2> DEFINE s == [source EXCEPT ![p].v = clock]
    <2>1. Change(s) /\ p \in Files /\ Here(p)
      BY <1>3 DEF Write
    <2>2. s[p] = [source[p] EXCEPT !.v = clock] /\ \A q \in Paths : q # p => s[q] = source[q]
      BY <1>1 DEF IsTree
    <2>3. source[p] = [h |-> source[p].h, v |-> source[p].v]
      BY <2>1 DEF IInv, Rooted, RootedIn, IsEntry, Here
    <2>4. s[p].h = source[p].h
      BY <2>2, <2>3
    <2>5. p \notin Dirs /\ \A q \in Paths : q # p => s[q] = source[q]
      BY <2>1, <2>2, LocalCopyAssumption
    <2> HIDE DEF s
    <2>6. Sound(s)
      BY <2>4, <2>5 DEF Sound, Paths, Here
    <2> QED
      BY <2>1, <2>6
  <1>4. CASE Erase(p)
    <2> DEFINE s == [q \in Paths |-> IF q \in Subtree(p) THEN Nothing ELSE source[q]]
    <2>1. Change(s)
      BY <1>4 DEF Erase
    <2>2. \A q \in Paths : s[q] = source[q] \/ s[q] = Nothing
      OBVIOUS
    <2> HIDE DEF s
    <2> QED
      BY <2>1, <2>2 DEF Sound, Paths, Nothing
  <1>5. ASSUME NEW q \in Paths, Move(p, q) PROVE \E s : Change(s) /\ Sound(s)
    <2> DEFINE s == Relocated(source, p, q, Nothing)
    <2>1. Change(s) /\ ({p, q} \subseteq Files \/ {p, q} \subseteq Dirs) /\ Here(p)
      BY <1>5 DEF Move
    <2>2. \A r \in Dirs : r \notin Children(q)
      BY LocalCopyAssumption DEF Children, Paths, ROOT
    <2>3. \A r \in Dirs : s[r] = source[r] \/ s[r] = Nothing \/ (p \in Dirs /\ s[r] = source[p])
      BY <2>1, <2>2, LocalCopyAssumption DEF Relocated, Paths
    <2>4. \A r \in Paths : s[r] = Nothing \/ \E o \in Paths : s[r] = source[o]
      <3> SUFFICES ASSUME NEW r \in Paths PROVE s[r] = Nothing \/ \E o \in Paths : s[r] = source[o]
        OBVIOUS
      <3>1. CASE r = q
        <4>1. p # q
          BY <1>5 DEF Move
        <4>2. q \notin Children(q) /\ q \notin Subtree(p)
          BY <2>1, <4>1, LocalCopyAssumption DEF Children, Subtree, Paths
        <4>3. s[r] = source[p]
          BY <3>1, <4>2 DEF Relocated
        <4> QED
          BY <4>3
      <3>2. CASE r # q /\ r \in Children(q)
        <4>1. p \in Dirs /\ q \in Dirs
          BY <2>1, <3>2, NothingBelow
        <4>2. Beside(r, p) \in Children(p)
          BY <3>2, <4>1, BesideThere
        <4> QED
          BY <3>2, <4>2 DEF Relocated, Children
      <3>3. CASE r # q /\ r \notin Children(q)
        BY <3>3 DEF Relocated
      <3> QED
        BY <3>1, <3>2, <3>3
    <2> HIDE DEF s
    <2>5. \A d \in Dirs : s[d] # Nothing => s[d].v = 1
      BY <2>3 DEF Sound, Here
    <2>6. ~nfs => \A r \in Paths : s[r].h = 0
      BY <2>4 DEF Sound, Nothing
    <2> QED
      BY <2>1, <2>5, <2>6 DEF Sound
  <1> QED
    BY <1>2, <1>3, <1>4, <1>5

-----------------------------------------------------------------------------
(* Versions reach the row as they were.                                    *)

LEMMA ChangeRecords == ASSUME IInv, Recording, NEW s, Change(s), Sound(s) PROVE Recording'
  <1> USE DEF Change, catalogue, options
  <1>1. run'.step = run.step
    BY DEF IInv, Shape, IsRun
  <1>2. Undisturbed'
    BY DEF Undisturbed
  <1>3. OneVersion'
    BY <1>1 DEF Recording, OneVersion, Sound, Here
  <1> QED
    BY <1>2, <1>3 DEF Recording

LEMMA RestRecords ==
    ASSUME OneVersion, run'.step # "copy", UNCHANGED source,
           \A p \in Paths : todo'[p] \in {todo[p], NoCopy}
    PROVE  Recording'
  <1>1. Undisturbed'
    BY DEF Undisturbed
  <1>2. OneVersion'
    <2>1. \A p \in Paths : IsCopy(todo'[p])
      BY DEF OneVersion, IsCopy, NoCopy
    <2> QED
      BY <2>1 DEF OneVersion, Here, Paths
  <1> QED
    BY <1>1, <1>2 DEF Recording

LEMMA MarkRecords == ASSUME IInv, Recording, MarkCopying PROVE Recording'
  <1> USE DEF MarkCopying, store, options
  <1>1. AtRest(run) /\ acks = {} /\ \A p \in Paths : todo[p] = NoCopy
    BY RestHolds
  <1>2. CASE run.recovering /\ ~reserved
    <2>1. run' = Idle
      BY <1>2
    <2> QED
      BY <2>1, RestRecords DEF Idle, Recording
  <1>3. CASE ~(run.recovering /\ ~reserved)
    <2>1. run'.unseen = {p \in Paths : Here(p)}
      BY <1>1, <1>3 DEF Underway, AtRest, IsRun
    <2>2. OneVersion'
      BY <1>1 DEF OneVersion, Recording, Here
    <2>3. Undisturbed'
      BY <1>1, <2>1 DEF Undisturbed, Here
    <2> QED
      BY <2>2, <2>3 DEF Recording
  <1> QED
    BY <1>2, <1>3

\* Where the copies, their acknowledgements and the source stay as they are.
LEMMA WalkRecords ==
    ASSUME Recording, run.step = "copy", run'.step = "copy", run'.unseen \subseteq run.unseen,
           UNCHANGED <<reserved, source, dest, todo, quiet>>, acks' \subseteq acks
    PROVE  Recording'
  <1>1. OneVersion'
    BY DEF Recording, OneVersion, Here
  <1>2. Undisturbed'
    BY DEF Recording, Undisturbed, Here
  <1> QED
    BY <1>1, <1>2 DEF Recording

LEMMA QueuedRecords ==
    ASSUME NEW p \in Paths, IInv, Recording, run.step = "copy", p \in run.unseen, Here(p), Queued(p),
           UNCHANGED <<reserved, source, dest, acks, quiet>>
    PROVE  Recording'
  <1>1. /\ Going /\ run'.unseen = run.unseen \ {p}
        /\ TodoBut(p, [h |-> source[p].h, v |-> source[p].v, copied |-> FALSE])
    BY QueuedFields DEF IInv
  <1>2. todo'[p] # NoCopy /\ todo'[p].v = source[p].v
    BY <1>1, QueuedPending DEF IInv
  <1>3. OneVersion'
    <2>1. IsCopy(todo'[p])
      BY <1>1 DEF TodoBut, IsCopy
    <2> QED
      BY <1>1, <1>2, <2>1 DEF Recording, OneVersion, Here, TodoBut, Going, Paths
  <1>4. Undisturbed'
    BY <1>1, <1>2 DEF Recording, Undisturbed, Here, TodoBut, Going
  <1> QED
    BY <1>3, <1>4 DEF Recording

LEMMA CopiedRecords ==
    ASSUME NEW p \in Paths, IInv, Recording, Ready(p), Copied(p),
           \/ Acked(p) /\ Finished(p)
           \/ acks' = acks /\ todo' = [todo EXCEPT ![p].copied = TRUE] /\ p \in Files
    PROVE  Recording'
  <1> USE DEF Ready
  <1>0. IsCopy(todo[p])
    BY DEF Recording, OneVersion
  <1>1. UNCHANGED <<reserved, source, run, quiet>>
    BY DEF Copied, options
  <1>2. /\ Parent[p] # p
        /\ \A q \in Paths : q # p => dest'[q] = IF q = Parent[p] THEN 1 ELSE dest[q]
        /\ Here(p) => dest'[p] = source[p].v
        /\ quiet => Here(p) /\ todo[p].v = source[p].v
    BY CopiedFields DEF IInv
  <1>3. /\ \A q \in Paths : q # p => todo'[q] = todo[q]
        /\ todo'[p] = NoCopy \/ (acks' = acks /\ p \in Files)
    BY FinishedFields DEF TodoBut, IInv, Shape, IsTree
  <1>4. \A a \in acks' : a \in acks \/ (a.p = p /\ a.v = todo[p].v /\ todo'[p] = NoCopy)
    BY FinishedFields DEF TodoBut, IInv, Acked
  <1>5. OneVersion'
    <2>1. IsCopy(todo'[p])
      <3>1. CASE todo' = [todo EXCEPT ![p].copied = TRUE]
        <4>1. todo'[p] = [todo[p] EXCEPT !.copied = TRUE]
          BY <3>1 DEF IInv, Shape, IsTree
        <4> QED
          BY <4>1, <1>0 DEF IsCopy
      <3>2. CASE todo'[p] = NoCopy
        BY <3>2 DEF NoCopy, IsCopy
      <3> QED
        BY <3>1, <3>2, FinishedFields DEF TodoBut, IInv
    <2> QED
      BY <1>1, <1>3, <1>4, <2>1, LocalCopyAssumption DEF Recording, OneVersion, Here, Paths
  <1>6. Undisturbed'
    <2> SUFFICES ASSUME quiet, NEW q \in Paths
                 PROVE  /\ q \in run.unseen => Here(q) /\ todo'[q] = NoCopy
                        /\ todo'[q] # NoCopy => Here(q) /\ todo'[q].v = source[q].v
                        /\ \A a \in acks' : a.p = q =>
                              /\ q \notin run.unseen /\ todo'[q] = NoCopy /\ dest'[q] = a.v
                              /\ reserved => Here(q) /\ source[q].v = a.v
      BY <1>1 DEF Undisturbed, Here
    <2>1. p \notin run.unseen /\ todo[p].v = source[p].v /\ \A a \in acks : a.p # p
      BY DEF Recording, Undisturbed
    <2>2. CASE q = p
      <3>1. todo'[p] # NoCopy => todo'[p].v = source[p].v
        <4>1. CASE todo' = [todo EXCEPT ![p].copied = TRUE]
          <5>1. todo'[p] = [todo[p] EXCEPT !.copied = TRUE]
            BY <4>1 DEF IInv, Shape, IsTree
          <5> QED
            BY <5>1, <1>0, <2>1 DEF IsCopy
        <4>2. CASE todo'[p] = NoCopy
          BY <4>2
        <4> QED
          BY <4>1, <4>2, FinishedFields DEF TodoBut, IInv
      <3> QED
        BY <1>2, <1>4, <2>1, <2>2, <3>1
    <2>3. CASE q # p
      <3>1. todo'[q] = todo[q] /\ \A a \in acks' : a.p = q => a \in acks
        BY <1>3, <1>4, <2>3
      <3>2. \A a \in acks' : a.p = q => dest'[q] = a.v
        <4> SUFFICES ASSUME NEW a \in acks', a.p = q PROVE dest'[q] = a.v
          OBVIOUS
        <4>1. a \in acks /\ dest[q] = a.v
          BY <3>1 DEF Recording, Undisturbed
        <4>2. q = Parent[p] => a.v = 1
          BY <4>1, Parents, LocalCopyAssumption DEF Recording, OneVersion
        <4> QED
          BY <1>2, <2>3, <4>1, <4>2
      <3> QED
        BY <3>1, <3>2 DEF Recording, Undisturbed
    <2> QED
      BY <2>2, <2>3
  <1> QED
    BY <1>5, <1>6 DEF Recording

LEMMA DeleteSourceRecords == ASSUME NEW p \in Paths, IInv, Recording, DeleteSource(p) PROVE Recording'
  <1> USE DEF DeleteSource, Ready, options
  <1>1. source'[p] = Nothing /\ \A q \in Paths : q # p => source'[q] = source[q]
    BY DEF IInv, Shape, IsTree
  <1>2. TodoBut(p, NoCopy)
    BY FinishedFields DEF IInv
  <1>3. ~reserved /\ p \in Files /\ (quiet => dest[p] = source[p].v)
    BY DEF IInv, Moving
  <1>4. \A a \in acks' : a \in acks \/ (a.p = p /\ a.v = todo[p].v)
    BY DEF Acked
  <1>00. IsCopy(NoCopy)
    BY DEF IsCopy, NoCopy
  <1>5. OneVersion'
    BY <1>00, <1>1, <1>2, <1>3, <1>4, LocalCopyAssumption DEF Recording, OneVersion, Here, TodoBut, Paths
  <1>6. Undisturbed'
    BY <1>1, <1>2, <1>3, <1>4 DEF Recording, Undisturbed, Here, TodoBut
  <1> QED
    BY <1>5, <1>6 DEF Recording

LEMMA CopyFailsRecords == ASSUME NEW p \in Paths, IInv, Recording, CopyFails(p) PROVE Recording'
  <1> USE DEF CopyFails, Ready, options
  <1>1. Going /\ run'.unseen = run.unseen
    BY FailingFields DEF IInv
  <1>2. TodoBut(p, NoCopy)
    BY FinishedFields DEF IInv
  <1>3. \A q \in Paths : q # p => dest'[q] = dest[q]
    BY DEF IInv, Shape, IsTree
  <1>00. IsCopy(NoCopy)
    BY DEF IsCopy, NoCopy
  <1>4. OneVersion'
    BY <1>00, <1>1, <1>2 DEF Recording, OneVersion, Here, TodoBut, Paths, Going
  <1>5. Undisturbed'
    BY <1>1, <1>2, <1>3 DEF Recording, Undisturbed, Here, TodoBut, Going
  <1> QED
    BY <1>4, <1>5 DEF Recording

\* A row is written, or is not: what is acknowledged can only become less.
LEMMA FlushRecords == ASSUME NEW a \in acks, IInv, Recording, Flush(a) \/ FlushFails(a) PROVE Recording'
  <1>1. /\ Going /\ run'.unseen = run.unseen /\ acks' \subseteq acks
        /\ UNCHANGED <<reserved, source, dest, todo, quiet>>
    BY FailingFields DEF Flush, FlushFails, store, options, catalogue, Going, IInv, Shape, IsRun
  <1>2. CASE run.step = "copy"
    BY <1>1, <1>2, WalkRecords DEF Going
  <1>3. CASE run.step # "copy"
    BY <1>1, <1>3, RestRecords DEF Going, Recording
  <1> QED
    BY <1>2, <1>3

LEMMA NextRecords == ASSUME IInv, Recording, ~nfs => (\A p \in Paths : source[p].h = 0), [Next]_vars PROVE Recording'
  <1> USE DEF store, catalogue, work, options
  <1>0. Sound(source)
    BY DEF Sound, Recording, OneVersion, Here
  <1>00. IsRun(run)
    BY DEF IInv, Shape
  <1>1. ASSUME NEW p \in Paths, Create(p) \/ Write(p) \/ Erase(p) \/ \E q \in Paths : Move(p, q)
        PROVE  Recording'
    BY <1>0, <1>1, ChangesAreSound, ChangeRecords
  <1>2. CASE StartFull \/ StartIncremental \/ Initialize \/ NoStateRow \/ Rebase
    <2>1. run'.step # "copy"
      <3>1. CASE StartFull
        BY <3>1 DEF StartFull, Starts, Idle
      <3>2. CASE StartIncremental
        BY <3>2 DEF StartIncremental, Starts, Idle
      <3>3. CASE Initialize \/ Rebase
        BY <1>00, <3>3 DEF Initialize, Rebase, IsRun
      <3>4. CASE NoStateRow
        BY <3>4 DEF NoStateRow, Idle
      <3> QED
        BY <1>2, <3>1, <3>2, <3>3, <3>4
    <2> QED
      BY <1>2, <2>1, RestRecords
         DEF StartFull, StartIncremental, Starts, Initialize, NoStateRow, Rebase, Recording
  <1>3. CASE MarkCopying
    BY <1>3, MarkRecords
  <1>4. CASE Merge
    BY <1>4, WalkRecords, RestRecords DEF Merge, history, Recording
  <1>5. ASSUME NEW p \in Paths, Vanished(p) \/ WalkFails(p) PROVE Recording'
    <2>1. run'.step = "copy" /\ run'.unseen \subseteq run.unseen /\ run.step = "copy"
      BY <1>00, <1>5 DEF Vanished, WalkFails, Reached, IsRun
    <2> QED
      BY <1>5, <2>1, WalkRecords DEF Vanished, WalkFails, history
  <1>6. ASSUME NEW p \in Paths, ObserveFull(p) \/ Compare(p) PROVE Recording'
    <2>1. CASE Queued(p)
      BY <1>6, <2>1, QueuedRecords DEF ObserveFull, Compare, Reached, history
    <2>2. CASE ~Queued(p)
      <3>1. /\ run' = [run EXCEPT !.unseen = @ \ {p},
                            !.guess = IF base[p].h = source[p].h THEN @ ELSE @ \cup {p}]
            /\ UNCHANGED <<reserved, source, dest, todo, quiet, acks>> /\ run.step = "copy"
        BY <1>6, <2>2 DEF ObserveFull, Compare, Reached, history
      <3>2. run'.step = "copy" /\ run'.unseen \subseteq run.unseen
        BY <1>00, <3>1 DEF IsRun
      <3> QED
        BY <3>1, <3>2, WalkRecords
    <2> QED
      BY <2>1, <2>2
  <1>7. ASSUME NEW p \in Paths, ReceiverCopies(p) \/ HandlerCopies(p) PROVE Recording'
    BY <1>7, CopiedRecords DEF ReceiverCopies, HandlerCopies, Paths
  <1>8. ASSUME NEW p \in Paths, DeleteSource(p) \/ CopyFails(p) PROVE Recording'
    BY <1>8, DeleteSourceRecords, CopyFailsRecords
  <1>9. ASSUME NEW a \in acks, Flush(a) \/ FlushFails(a) PROVE Recording'
    BY <1>9, FlushRecords
  <1>10. CASE FullCopied \/ Barrier \/ ApplyDelete \/ ApplyRename \/ ApplyFails
    <2>1. run'.step # "copy"
      BY <1>00, <1>10 DEF FullCopied, Barrier, ApplyDelete, ApplyRename, ApplyFails, Applying, Failing, IsRun
    <2>2. UNCHANGED <<source, todo>>
      BY <1>10 DEF FullCopied, Barrier, ApplyDelete, ApplyRename, ApplyFails
    <2> QED
      BY <2>1, <2>2, RestRecords DEF Recording
  <1>11. CASE BarrierFails \/ PhaseBEnds \/ Complete \/ CompleteFails \/ Crash
    <2>1. run'.step # "copy"
      BY <1>00, <1>11 DEF BarrierFails, PhaseBEnds, Complete, CompleteFails, Crash, Abandon, Idle, IsRun
    <2>2. UNCHANGED source /\ \A p \in Paths : todo'[p] \in {todo[p], NoCopy}
      BY <1>11 DEF BarrierFails, PhaseBEnds, Complete, CompleteFails, Crash, Abandon
    <2> QED
      BY <2>1, <2>2, RestRecords DEF Recording
  <1>12. CASE UNCHANGED vars
    BY <1>12, WalkRecords, RestRecords DEF vars, history, Recording
  <1> QED
    BY <1>1, <1>2, <1>3, <1>4, <1>5, <1>6, <1>7, <1>8, <1>9, <1>10, <1>11, <1>12 DEF Next

-----------------------------------------------------------------------------
(* A source without file handles: paths are all there is to go by.         *)

\* Rows and their generations; before its first commit a copy has no rows but
\* those of the run that is under way, or of one to recover from.
Generations ==
    /\ scan = [tables |-> scan.tables, gen |-> scan.gen,
               committed |-> scan.committed, copying |-> scan.copying]
    /\ scan.gen \in {0, 1}
    /\ \A p \in Paths :
          /\ base[p] = [h |-> base[p].h, v |-> base[p].v, g |-> base[p].g]
          /\ HasRow(p) => base[p].g \in {0, 1}
    /\ Busy => run.working = scan.gen /\ scan.tables = "ready" /\ ~scan.committed
    /\ scan.tables # "ready" => NoRows /\ ~scan.copying /\ ~scan.committed
    /\ reserved /\ run.full /\ run.step \in {"initialize", "begin", "mark"} =>
          NoRows /\ ~scan.copying
    /\ reserved /\ scan.committed => \A p \in Paths : HasRow(p) => base[p].g = scan.gen
    /\ run.step = "mark" =>
          /\ scan.tables = "ready" /\ run.recovering = Recovering
          /\ reserved => \A p \in Paths : HasRow(p) => base[p].g = scan.gen
    /\ reserved /\ Busy /\ run.full => \A p \in Paths : HasRow(p) => base[p].g = run.working
    /\ Busy /\ run.full => ~run.recovering
    /\ run.step = "close" => ~run.failed
    /\ run.step \in {"apply", "close"} => run.unseen = {}

\* No handle anywhere, so that nothing is ever taken for renamed.
Handleless ==
    /\ stale = {} /\ run.guess = {} /\ ~skewed
    /\ \A p \in Paths : /\ source[p].h = 0 /\ base[p].h = 0 /\ todo[p].h = 0
                        /\ p \in Dirs /\ HasRow(p) => base[p].v = 1
    /\ run.step = "copy" => \A a \in acks : a.h = 0
    /\ \A r \in plan : r.op = "delete"
    /\ run.step = "apply" =>
          \A a \in acks : a.op = "drop" /\ a.p \in Paths /\ dest[a.p] = ABSENT /\ (quiet => ~Here(a.p))

\* A walk that has not failed lists a directory before what is below it.
Known(p) == todo[p] # NoCopy \/ Pending(p) \/ base[p].g = run.working
Downwards ==
    run.step = "copy" /\ ~run.full /\ ~run.failed =>
        \A p \in Paths : Parent[p] # ROOT =>
            /\ Known(p) => Known(Parent[p])
            /\ p \in run.unseen => Parent[p] \in run.unseen \/ Known(Parent[p])

\* A row tells what the destination has, once nothing is under way for it.
Tells(p) == dest[p] = base[p].v \/ p \in outrun
Settled(p) ==
    /\ HasRow(p)
    /\ run.step = "copy" => todo[p] = NoCopy /\ ~Pending(p)
    /\ base[p].g = run.working \/ (run.step # "apply" /\ ~run.recovering)
Faithful ==
    /\ scan.committed => \A p \in Paths : HasRow(p) => Tells(p)
    /\ Busy /\ ~run.failed => \A p \in Paths : Settled(p) => Tells(p)

\* Phase B deletes what has no row of this run, and what is below it has none.
Remaining ==
    /\ run.step = "apply" /\ ~run.failed =>
          /\ \A p \in Paths : HasRow(p) /\ base[p].g # run.working =>
                (\E r \in plan : r.from = p) \/ Pending(p)
          /\ \A r \in plan : base[r.from].g # run.working
          /\ \A a \in acks : base[a.p].g # run.working
          /\ \A p \in Paths : Parent[p] # ROOT /\ base[p].g = run.working =>
                base[Parent[p]].g = run.working
    /\ reserved /\ run.step = "close" => \A p \in Paths : HasRow(p) => base[p].g = run.working

\* A quiet run of a copy job has what the source has, and rows of nothing else.
Copying ==
    reserved /\ Busy /\ quiet /\ ~run.failed =>
        \A p \in Paths :
            /\ Here(p) => Recorded(p)
            /\ Here(p) => \/ p \in run.unseen \/ todo[p] # NoCopy
                          \/ dest[p] = source[p].v \/ p \in outrun
            /\ base[p].g = run.working => Here(p)

\* Whatever is at the destination has a row, or is known to have none.
Accounted ==
    reserved => \A p \in Paths : dest[p] # ABSENT =>
        HasRow(p) \/ p \in orphans \/ (Busy /\ (quiet => Here(p)))

Synced == synced => reserved /\ quiet /\ ~run.failed
Plain ==
    /\ Generations /\ Handleless /\ Downwards /\ Faithful /\ Remaining
    /\ Copying /\ Accounted /\ Synced /\ CommittedMatches

ICopy == IInv /\ Recording /\ (~nfs => Plain)

-----------------------------------------------------------------------------
(* Rows and files keep to each other, step by step: the beginning of a run. *)

PlainInv == IInv /\ Recording /\ Plain /\ ~nfs

LEMMA IdleFrame ==
    ASSUME PlainInv, ~Busy, ~Busy', Generations',
           UNCHANGED <<reserved, source, dest, stale, todo, acks, plan, quiet, synced, skewed, orphans, outrun>>,
           scan'.committed = scan.committed, run'.guess = {}, run'.failed => run.failed,
           \A p \in Paths : base'[p].h = base[p].h /\ base'[p].v = base[p].v /\ (HasRow(p)' <=> HasRow(p))
    PROVE  Plain'
  <1> USE DEF PlainInv, Plain, Busy
  <1>1. Handleless'
    BY DEF Handleless, Paths
  <1>2. Downwards' /\ Remaining' /\ Copying'
    BY DEF Downwards, Remaining, Copying
  <1>3. Faithful'
    BY DEF Faithful, Tells
  <1>4. Accounted'
    BY DEF Accounted
  <1>5. Synced' /\ CommittedMatches'
    BY DEF Synced, CommittedMatches, Here
  <1> QED
    BY <1>1, <1>2, <1>3, <1>4, <1>5

LEMMA BeginsPlain ==
    ASSUME PlainInv, StartFull \/ StartIncremental \/ Initialize \/ NoStateRow \/ Rebase
    PROVE  Plain'
  <1> USE DEF store, history, catalogue, options, Busy
  <1>0. IsRun(run) /\ Generations
    BY DEF PlainInv, Plain, IInv, Shape
  <1>1. CASE StartFull
    <2>1. /\ run'.step = "initialize" /\ run'.full /\ ~run'.recovering /\ ~run'.failed /\ run'.guess = {}
          /\ run'.working = 0 /\ run'.unseen = {}
      BY <1>1 DEF StartFull, Starts, Idle
    <2>2. run.step = "idle" /\ UNCHANGED <<base, reserved>>
      BY <1>1 DEF StartFull, Starts
    <2>3. /\ scan' = [scan EXCEPT !.tables = IF scan.tables = "none" THEN "base" ELSE scan.tables]
          /\ ~reserved \/ scan.tables = "none"
      BY <1>1 DEF StartFull, FullRun
    <2>4. /\ scan'.gen = scan.gen /\ scan'.committed = scan.committed /\ scan'.copying = scan.copying
          /\ scan'.tables = (IF scan.tables = "none" THEN "base" ELSE scan.tables)
          /\ scan' = [tables |-> scan'.tables, gen |-> scan'.gen,
                      committed |-> scan'.committed, copying |-> scan'.copying]
      BY <1>0, <2>3 DEF Generations
    <2>5. Generations'
      BY <1>0, <2>1, <2>2, <2>3, <2>4 DEF Generations, NoRows, HasRow
    <2> QED
      BY <1>1, <2>1, <2>2, <2>4, <2>5, IdleFrame DEF StartFull, Starts, HasRow
  <1>2. CASE StartIncremental
    <2>1. /\ run'.step = "begin" /\ ~run'.full /\ ~run'.recovering /\ ~run'.failed /\ run'.guess = {}
          /\ run'.unseen = {}
      BY <1>2 DEF StartIncremental, Starts, Idle
    <2>2. run.step = "idle" /\ UNCHANGED <<base, reserved, scan>>
      BY <1>2 DEF StartIncremental, Starts
    <2>5. Generations'
      BY <1>0, <2>1, <2>2 DEF Generations, NoRows, HasRow
    <2> QED
      BY <1>2, <2>1, <2>2, <2>5, IdleFrame DEF StartIncremental, Starts, HasRow
  <1>3. CASE Initialize
    <2>1. /\ run'.step = "begin" /\ run'.full = run.full /\ run'.failed = run.failed /\ run'.guess = run.guess
          /\ run'.unseen = run.unseen
      BY <1>0, <1>3 DEF Initialize, IsRun
    <2>2. run.step = "initialize" /\ UNCHANGED <<base, reserved>> /\ scan' = [scan EXCEPT !.tables = "ready"]
      BY <1>3 DEF Initialize
    <2>4. /\ scan'.gen = scan.gen /\ scan'.committed = scan.committed /\ scan'.copying = scan.copying
          /\ scan'.tables = "ready"
          /\ scan' = [tables |-> scan'.tables, gen |-> scan'.gen,
                      committed |-> scan'.committed, copying |-> scan'.copying]
      BY <1>0, <2>2 DEF Generations
    <2>5. Generations'
      BY <1>0, <2>1, <2>2, <2>4 DEF Generations, NoRows, HasRow
    <2> QED
      BY <1>3, <2>1, <2>2, <2>4, <2>5, IdleFrame DEF Initialize, HasRow, PlainInv, Plain, Handleless
  <1>4. CASE NoStateRow
    <2>1. run' = Idle /\ run.step = "begin" /\ UNCHANGED <<base, reserved, scan>>
      BY <1>4 DEF NoStateRow
    <2>5. Generations'
      BY <1>0, <2>1 DEF Generations, NoRows, HasRow, Idle
    <2> QED
      BY <1>4, <2>1, <2>5, IdleFrame DEF NoStateRow, HasRow, Idle
  <1>5. CASE Rebase
    <2>1. /\ run'.step = "mark" /\ run'.full = run.full /\ run'.failed = run.failed /\ run'.guess = run.guess
          /\ run'.unseen = run.unseen /\ run'.recovering = Recovering
      BY <1>0, <1>5 DEF Rebase, IsRun
    <2>2. run.step = "begin" /\ scan.tables = "ready" /\ UNCHANGED <<reserved, scan>>
      BY <1>5 DEF Rebase
    <2>3. \A p \in Paths : base'[p] = IF Recovering /\ HasRow(p) THEN [base[p] EXCEPT !.g = scan.gen] ELSE base[p]
      BY <1>5 DEF Rebase
    <2>4. \A p \in Paths :
             /\ base'[p].h = base[p].h /\ base'[p].v = base[p].v /\ (HasRow(p)' <=> HasRow(p))
             /\ base'[p] = [h |-> base'[p].h, v |-> base'[p].v, g |-> base'[p].g]
             /\ HasRow(p) => base'[p].g \in {0, 1}
             /\ Recovering /\ HasRow(p) => base'[p].g = scan.gen
             /\ ~Recovering => base'[p] = base[p]
      <3> SUFFICES ASSUME NEW p \in Paths
                   PROVE  /\ base'[p].h = base[p].h /\ base'[p].v = base[p].v /\ (HasRow(p)' <=> HasRow(p))
                          /\ base'[p] = [h |-> base'[p].h, v |-> base'[p].v, g |-> base'[p].g]
                          /\ HasRow(p) => base'[p].g \in {0, 1}
                          /\ Recovering /\ HasRow(p) => base'[p].g = scan.gen
                          /\ ~Recovering => base'[p] = base[p]
        OBVIOUS
      <3>1. base[p] = [h |-> base[p].h, v |-> base[p].v, g |-> base[p].g] /\ scan.gen \in {0, 1}
        BY <1>0 DEF Generations
      <3>2. CASE Recovering /\ HasRow(p)
        <4>1. base'[p] = [h |-> base[p].h, v |-> base[p].v, g |-> scan.gen]
          BY <2>3, <3>1, <3>2
        <4>2. base'[p].g # NoRow.g
          BY <3>1, <4>1 DEF NoRow
        <4> QED
          BY <3>1, <3>2, <4>1, <4>2 DEF HasRow
      <3>3. CASE ~(Recovering /\ HasRow(p))
        BY <1>0, <2>3, <3>1, <3>3 DEF HasRow, Generations
      <3> QED
        BY <3>2, <3>3
    <2>6. Recovering' = Recovering
      BY <2>2, <2>4 DEF Recovering
    <2>7. reserved => \A p \in Paths : HasRow(p) => base'[p].g = scan.gen
      <3>1. CASE Recovering
        BY <2>4, <3>1
      <3>2. CASE ~Recovering
        BY <1>0, <2>4, <3>2 DEF Recovering, Generations
      <3> QED
        BY <3>1, <3>2
    <2>5. Generations'
      BY <1>0, <2>1, <2>2, <2>4, <2>6, <2>7 DEF Generations, NoRows
    <2> QED
      BY <1>5, <2>1, <2>2, <2>4, <2>5, IdleFrame DEF Rebase, PlainInv, Plain, Handleless
  <1> QED
    BY <1>1, <1>2, <1>3, <1>4, <1>5

-----------------------------------------------------------------------------
(* The copy begins, and the source changes under it.                       *)

LEMMA MarksPlain == ASSUME PlainInv, MarkCopying PROVE Plain'
  <1> USE DEF store, options, Busy
  <1>0. /\ Generations /\ AtRest(run) /\ run.step = "mark"
        /\ acks = {} /\ plan = {} /\ \A p \in Paths : todo[p] = NoCopy
    BY RestHolds DEF PlainInv, Plain, MarkCopying
  <1>1. /\ UNCHANGED <<reserved, source, dest, base, stale, todo, acks, plan, synced, skewed, orphans, outrun>>
        /\ quiet'
    BY DEF MarkCopying
  <1>2. scan' = [scan EXCEPT !.gen = NextGeneration, !.committed = FALSE, !.copying = TRUE]
    BY DEF MarkCopying
  <1>3. /\ scan'.gen = 1 - scan.gen /\ ~scan'.committed /\ scan'.copying /\ scan'.tables = "ready"
        /\ scan' = [tables |-> scan'.tables, gen |-> scan'.gen,
                    committed |-> scan'.committed, copying |-> scan'.copying]
    BY <1>0, <1>2 DEF Generations, NextGeneration
  <1>4. ~reserved => run.full
    BY <1>0 DEF AtRest
  <1>6. Synced' /\ CommittedMatches'
    <2>1. Underway(NextGeneration).failed = run.failed /\ ~Idle.failed
      BY <1>0 DEF Underway, Idle, AtRest, IsRun
    <2>2. run'.failed => run.failed
      BY <2>1 DEF MarkCopying
    <2> QED
      BY <1>1, <2>2 DEF PlainInv, Plain, Synced, CommittedMatches, Here
  <1>7. CASE run.recovering /\ ~reserved
    <2>1. run' = Idle
      BY <1>7 DEF MarkCopying
    <2>2. Generations'
      BY <1>0, <1>1, <1>3, <1>7, <2>1 DEF Generations, NoRows, HasRow, Idle
    <2>3. Handleless'
      BY <1>1, <2>1 DEF PlainInv, Plain, Handleless, HasRow, Idle
    <2>4. Downwards' /\ Faithful' /\ Remaining' /\ Copying' /\ Accounted'
      BY <1>1, <1>3, <1>7, <2>1 DEF Downwards, Faithful, Remaining, Copying, Accounted, Idle
    <2> QED
      BY <1>6, <2>2, <2>3, <2>4 DEF Plain
  <1>8. CASE ~(run.recovering /\ ~reserved)
    <2>1. /\ run'.step = "copy" /\ run'.full = run.full /\ run'.recovering = run.recovering
          /\ run'.working = 1 - scan.gen /\ run'.guess = run.guess /\ run'.failed = run.failed
          /\ run'.unseen = {p \in Paths : Here(p)}
      BY <1>0, <1>8 DEF MarkCopying, Underway, AtRest, IsRun, NextGeneration
    <2>2. reserved => \A p \in Paths : base[p].g # run'.working
      <3> SUFFICES ASSUME reserved, NEW p \in Paths PROVE base[p].g # 1 - scan.gen
        BY <2>1
      <3>1. scan.gen \in {0, 1} /\ (HasRow(p) => base[p].g = scan.gen)
        BY <1>0 DEF Generations
      <3>2. ~HasRow(p) => base[p].g = -1
        BY DEF HasRow, NoRow
      <3> QED
        BY <3>1, <3>2
    <2>3. run.full => ~run.recovering
      BY <1>0, <1>8 DEF Generations, Recovering, NoRows
    <2>4. Generations'
      BY <1>0, <1>1, <1>3, <2>1, <2>3 DEF Generations, NoRows, HasRow
    <2>5. Handleless'
      BY <1>0, <1>1, <2>1 DEF PlainInv, Plain, Handleless, HasRow
    <2>6. Downwards'
      BY <1>0, <1>1, <1>4, <2>1, <2>2, Parents
         DEF Downwards, Known, Pending, PlainInv, IInv, Rooted, RootedIn, Here
    <2>7. Faithful'
      <3> SUFFICES ASSUME NEW p \in Paths, Settled(p)' PROVE Tells(p)'
        BY <1>3 DEF Faithful
      <3>1. HasRow(p) /\ (base[p].g = run'.working \/ ~run.recovering)
        BY <1>1, <2>1 DEF Settled, HasRow
      <3>2. ~run.recovering
        BY <1>8, <2>2, <3>1
      <3>3. scan.committed
        BY <1>0, <3>1, <3>2 DEF Generations, Recovering
      <3> QED
        BY <1>1, <3>1, <3>3 DEF PlainInv, Plain, Faithful, Tells
    <2>8. Remaining'
      BY <2>1 DEF Remaining
    <2>9. Copying'
      BY <1>1, <2>1, <2>2 DEF Copying, Recorded, Here
    <2>10. Accounted'
      <3> SUFFICES ASSUME reserved, NEW p \in Paths, dest[p] # ABSENT PROVE HasRow(p) \/ p \in orphans
        BY <1>1 DEF Accounted, HasRow
      <3> QED
        BY <1>0 DEF PlainInv, Plain, Accounted
    <2> QED
      BY <1>6, <2>4, <2>5, <2>6, <2>7, <2>8, <2>9, <2>10 DEF Plain
  <1> QED
    BY <1>7, <1>8

\* The steps of a run while its rows, its generation and its options stay.
LEMMA GoingGenerations ==
    ASSUME Generations, Going, UNCHANGED <<reserved, scan, base>>, run'.unseen \subseteq run.unseen \/ run.step = "copy",
           run.step # "close"
    PROVE  Generations'
  BY DEF Generations, Going, Busy, NoRows, HasRow, Recovering

LEMMA ChangesPlain == ASSUME PlainInv, IInv', NEW s, Change(s), Sound(s) PROVE Plain'
  <1> USE DEF options, catalogue
  <1>1. /\ UNCHANGED <<reserved, nfs, dest, base, stale, scan, todo, acks, plan, skewed, orphans, outrun>>
        /\ ~quiet' /\ ~synced' /\ source' = s /\ run.step \in {"idle", "copy", "apply"}
    BY DEF Change
  <1>2. PICK late \in {{}, Appearing(s)} :
            run' = IF run.step = "copy" THEN [run EXCEPT !.unseen = @ \cup late] ELSE run
    BY DEF Change
  <1>3. /\ Going /\ run'.failed = run.failed /\ run'.guess = run.guess
        /\ run'.unseen = IF run.step = "copy" THEN run.unseen \cup late ELSE run.unseen
    BY <1>2 DEF PlainInv, IInv, Shape, IsRun, Going
  <1>4. Generations'
    BY <1>1, <1>3, GoingGenerations DEF PlainInv, Plain
  <1>5. Handleless'
    BY <1>1, <1>3 DEF PlainInv, Plain, Handleless, Going, Sound, HasRow
  <1>6. Downwards'
    <2> SUFFICES ASSUME run.step = "copy", ~run.full, ~run.failed, NEW p \in Paths, Parent[p] # ROOT
                 PROVE  /\ Known(p) => Known(Parent[p])
                        /\ p \in run'.unseen => Parent[p] \in run'.unseen \/ Known(Parent[p])
      BY <1>1, <1>3 DEF Downwards, Known, Pending, Going
    <2>1. CASE p \in run.unseen \/ p \notin run'.unseen
      BY <1>3, <2>1 DEF PlainInv, Plain, Downwards
    <2>2. CASE p \notin run.unseen /\ p \in run'.unseen
      <3>1. late = Appearing(s) /\ p \in Appearing(s) /\ run'.unseen = run.unseen \cup Appearing(s)
        BY <1>3, <2>2
      <3>2. CASE Walked(Parent[p])
        BY <3>1, <3>2, <1>3 DEF Walked, Known, Pending, PlainInv, Plain, Downwards
      <3>3. CASE ~Here(Parent[p])
        <4>1. s[p] # Nothing
          BY <3>1 DEF Appearing
        <4>2. s[Parent[p]] # Nothing
          BY <1>1, <4>1 DEF IInv, Rooted, RootedIn
        <4>3. Parent[p] \in Paths /\ Parent[Parent[p]] = ROOT
          BY Parents, LocalCopyAssumption
        <4>4. Parent[p] \in Appearing(s)
          BY <3>3, <4>2, <4>3 DEF Appearing, Walked
        <4> QED
          BY <3>1, <4>4, <1>3 DEF PlainInv, Plain, Downwards
      <3> QED
        BY <3>1, <3>2, <3>3 DEF Appearing
    <2> QED
      BY <2>1, <2>2
  <1>7. Faithful' /\ Remaining'
    BY <1>1, <1>3
       DEF PlainInv, Plain, Faithful, Settled, Tells, HasRow, Busy, Going, Pending, Remaining
  <1>8. Copying' /\ Accounted' /\ Synced' /\ CommittedMatches'
    BY <1>1, <1>3 DEF PlainInv, Plain, Copying, Accounted, Synced, CommittedMatches, Busy, HasRow, Going
  <1> QED
    BY <1>4, <1>5, <1>6, <1>7, <1>8 DEF Plain

-----------------------------------------------------------------------------
(* Phase A: what is listed, compared, copied and recorded.                 *)

\* A run that has failed promises no more than that it will be recovered from.
LEMMA FailingPlain ==
    ASSUME PlainInv, Busy, run.step # "close", Going, run'.failed, run'.guess = run.guess,
           run'.unseen \subseteq run.unseen, ~synced',
           UNCHANGED <<reserved, source, base, stale, scan, quiet, skewed, orphans, outrun>>,
           acks' \subseteq acks, plan' \subseteq plan,
           \A q \in Paths : todo'[q] \in {todo[q], NoCopy},
           dest' = dest \/ run.step = "copy",
           \A q \in Paths : dest'[q] # ABSENT => dest[q] # ABSENT \/ (quiet => Here(q))
    PROVE  Plain'
  <1> USE DEF PlainInv, Plain
  <1>1. Generations'
    BY GoingGenerations
  <1>2. Handleless'
    <2>1. \A q \in Paths : todo'[q].h = 0
      BY DEF Handleless, NoCopy
    <2>2. run.step = "apply" => dest' = dest
      BY DEF Busy
    <2> QED
      BY <2>1, <2>2 DEF Handleless, Going, HasRow, Here
  <1>3. Downwards' /\ Remaining' /\ Copying'
    BY DEF Downwards, Remaining, Copying, Going, Generations
  <1>4. Faithful'
    BY DEF Faithful, Generations
  <1>5. Accounted'
    <2> SUFFICES ASSUME reserved, NEW q \in Paths, dest'[q] # ABSENT
                 PROVE  HasRow(q) \/ q \in orphans \/ (quiet => Here(q))
      BY DEF Accounted, HasRow, Here, Busy, Going
    <2> QED
      BY DEF Accounted
  <1>6. Synced' /\ CommittedMatches'
    BY DEF Synced, CommittedMatches
  <1> QED
    BY <1>1, <1>2, <1>3, <1>4, <1>5, <1>6

LEMMA VanishedPlain == ASSUME PlainInv, NEW p \in Paths, Vanished(p) PROVE Plain'
  <1> USE DEF store, history, catalogue, options, PlainInv, Plain
  <1>1. /\ run.step = "copy" /\ p \in run.unseen /\ ~Here(p)
        /\ UNCHANGED <<reserved, source, dest, base, stale, scan, todo, acks, plan, quiet, synced,
                       skewed, orphans, outrun>>
    BY DEF Vanished, Reached
  <1>2. /\ Going /\ run'.unseen = run.unseen \ Subtree(p) /\ run'.guess = run.guess
        /\ run.failed => run'.failed
    BY DEF Vanished, IInv, Shape, IsRun, Going
  <1>3. ~quiet /\ ~synced
    BY <1>1 DEF Recording, Undisturbed, Synced
  <1>4. Generations'
    BY <1>1, <1>2, GoingGenerations
  <1>5. Handleless'
    BY <1>1, <1>2 DEF Handleless, Going, HasRow
  <1>6. Downwards'
    <2> SUFFICES ASSUME ~run.full, ~run.failed, NEW q \in Paths, Parent[q] # ROOT
                 PROVE  /\ Known(q) => Known(Parent[q])
                        /\ q \in run'.unseen => Parent[q] \in run'.unseen \/ Known(Parent[q])
      BY <1>1, <1>2 DEF Downwards, Known, Pending, Going
    <2>1. q \in run'.unseen => Parent[q] \notin Subtree(p)
      <3>1. Parent[Parent[q]] = ROOT /\ p # ROOT
        BY Parents, LocalCopyAssumption
      <3> QED
        BY <1>2, <3>1 DEF Subtree, Children
    <2> QED
      BY <1>1, <1>2, <2>1 DEF Downwards
  <1>7. Faithful'
    BY <1>1, <1>2 DEF Faithful, Settled, Tells, HasRow, Pending, Going, Busy
  <1>8. Remaining' /\ Copying'
    BY <1>1, <1>2, <1>3 DEF Remaining, Copying, Going
  <1>9. Accounted' /\ Synced' /\ CommittedMatches'
    BY <1>1, <1>2, <1>3 DEF Accounted, Synced, CommittedMatches, HasRow, Here, Busy, Going
  <1> QED
    BY <1>4, <1>5, <1>6, <1>7, <1>8, <1>9

LEMMA WalkFailsPlain == ASSUME PlainInv, NEW p \in Paths, WalkFails(p) PROVE Plain'
  <1> USE DEF store, catalogue, options, Fault
  <1>1. /\ run.step = "copy" /\ ~synced'
        /\ UNCHANGED <<reserved, source, dest, base, stale, scan, todo, acks, plan, quiet,
                       skewed, orphans, outrun>>
    BY DEF WalkFails
  <1>2. /\ Going /\ run'.unseen \subseteq run.unseen /\ run'.guess = run.guess /\ run'.failed
    BY DEF WalkFails, PlainInv, IInv, Shape, IsRun, Going
  <1> QED
    BY <1>1, <1>2, FailingPlain DEF Busy

LEMMA QueuedPlain ==
    ASSUME PlainInv, NEW p \in Paths, Reached(p), Here(p), Queued(p),
           UNCHANGED <<reserved, source, dest, base, stale, scan, acks, plan, quiet, synced,
                       skewed, orphans, outrun>>
    PROVE  Plain'
  <1> USE DEF PlainInv, Plain
  <1>1. /\ Going /\ run'.unseen = run.unseen \ {p}
        /\ run'.failed = run.failed /\ run'.guess = run.guess
        /\ TodoBut(p, [h |-> source[p].h, v |-> source[p].v, copied |-> FALSE])
    BY QueuedFields DEF IInv
  <1>2. todo'[p] # NoCopy /\ todo'[p].h = source[p].h
    BY <1>1, QueuedPending DEF IInv
  <1>3. run.step = "copy" /\ p \in run.unseen /\ Parent[p] \notin run.unseen
    BY DEF Reached
  <1>4. \A q \in Paths : q # p => todo'[q] = todo[q]
    BY <1>1 DEF TodoBut
  <1>5. Generations'
    BY <1>1, <1>3, GoingGenerations
  <1>6. Handleless'
    BY <1>1, <1>2, <1>3, <1>4 DEF Handleless, Going, HasRow
  <1>7. Downwards'
    <2> SUFFICES ASSUME ~run.full, ~run.failed, NEW q \in Paths, Parent[q] # ROOT
                 PROVE  /\ Known(q)' => Known(Parent[q])'
                        /\ q \in run'.unseen => Parent[q] \in run'.unseen \/ Known(Parent[q])'
      BY <1>1, <1>3 DEF Downwards, Going
    <2>1. Known(p)' /\ \A r \in Paths : r # p => (Known(r)' <=> Known(r))
      BY <1>1, <1>2, <1>4 DEF Known, Pending, Going
    <2>2. Parent[q] \in Paths
      BY Parents
    <2>3. q = p => Known(Parent[q])
      BY <1>3 DEF Downwards
    <2> QED
      BY <1>1, <1>3, <2>1, <2>2, <2>3 DEF Downwards
  <1>8. Faithful'
    BY <1>1, <1>2, <1>4 DEF Faithful, Settled, Tells, HasRow, Pending, Going, Busy
  <1>9. Remaining'
    BY <1>1, <1>3 DEF Remaining, Going
  <1>10. Copying'
    BY <1>1, <1>2, <1>4 DEF Copying, Recorded, Here, Busy, Going
  <1>11. Accounted' /\ Synced' /\ CommittedMatches'
    BY <1>1 DEF Accounted, Synced, CommittedMatches, HasRow, Here, Busy, Going
  <1> QED
    BY <1>5, <1>6, <1>7, <1>8, <1>9, <1>10, <1>11

\* An entry that does not differ from its row: the row has its version.
LEMMA SameRow ==
    ASSUME PlainInv, NEW p \in Paths, Here(p), ~IsNew(p), ~IsChanged(p)
    PROVE  HasRow(p) /\ base[p].v = source[p].v /\ base[p].h = 0 /\ source[p].h = 0
  <1>1. base[p].h = 0 /\ source[p].h = 0
    BY DEF PlainInv, Plain, Handleless
  <1>2. HasRow(p)
    BY DEF PlainInv, IsNew, ByHandle
  <1>3. CASE p \in Files
    BY <1>1, <1>2, <1>3 DEF IsChanged
  <1>4. CASE p \in Dirs
    BY <1>1, <1>2, <1>4 DEF PlainInv, Plain, Handleless, Recording, OneVersion
  <1> QED
    BY <1>1, <1>2, <1>3, <1>4 DEF Paths

\* A row is written during phase A: of this run, without a handle.
LEMMA PutFields ==
    ASSUME PlainInv, run.step = "copy", NEW p \in Paths, NEW v, PutRow(p, 0, v)
    PROVE  /\ base'[p] = [h |-> 0, v |-> v, g |-> run.working]
           /\ \A q \in Paths : q # p => base'[q] = base[q] /\ (HasRow(q)' <=> HasRow(q))
           /\ stale' = {} /\ HasRow(p)'
  <1>1. IsTree(base) /\ stale = {} /\ base[p].h = 0 /\ run.working \in {0, 1}
    BY DEF PlainInv, Plain, Handleless, Generations, IInv, Shape, Busy
  <1>2. base'[p] = [h |-> 0, v |-> v, g |-> run.working] /\ \A q \in Paths : q # p => base'[q] = base[q]
    BY <1>1 DEF PutRow, IsTree
  <1>3. stale' = {}
    BY <1>1 DEF PutRow, Superseded
  <1>4. base'[p].g # NoRow.g
    BY <1>1, <1>2 DEF NoRow
  <1> QED
    BY <1>2, <1>3, <1>4 DEF HasRow

\* ... and where the others stay, the generations do.
LEMMA PutGenerations ==
    ASSUME PlainInv, run.step = "copy", NEW p \in Paths, NEW v, PutRow(p, 0, v), Going,
           UNCHANGED <<reserved, scan>>
    PROVE  Generations'
  <1>1. /\ base'[p] = [h |-> 0, v |-> v, g |-> run.working]
        /\ \A q \in Paths : q # p => base'[q] = base[q] /\ (HasRow(q)' <=> HasRow(q))
    BY PutFields
  <1>2. Generations /\ Busy /\ run.working = scan.gen /\ scan.tables = "ready" /\ ~scan.committed
    BY DEF PlainInv, Plain, Generations, Busy
  <1>3. base'[p] = [h |-> base'[p].h, v |-> base'[p].v, g |-> base'[p].g] /\ base'[p].g = scan.gen
    BY <1>1, <1>2
  <1> QED
    BY <1>1, <1>2, <1>3 DEF Generations, Going, Busy

LEMMA SkippedPlain ==
    ASSUME PlainInv, NEW p \in Paths, Compare(p), ~(run.recovering \/ IsNew(p) \/ IsChanged(p))
    PROVE  Plain'
  <1> USE DEF PlainInv, Plain, store, history, options
  <1>1. HasRow(p) /\ base[p].v = source[p].v /\ base[p].h = 0 /\ source[p].h = 0
    BY SameRow DEF Compare
  <1>2. /\ run' = [run EXCEPT !.unseen = @ \ {p},
                      !.guess = IF base[p].h = source[p].h THEN @ ELSE @ \cup {p}]
        /\ PutRow(p, source[p].h, source[p].v) /\ ~run.recovering
    BY DEF Compare
  <1>3. /\ run.step = "copy" /\ p \in run.unseen /\ Parent[p] \notin run.unseen /\ Here(p) /\ ~run.full
        /\ UNCHANGED <<reserved, source, dest, scan, todo, acks, plan, quiet, synced, skewed, orphans, outrun>>
    BY <1>2 DEF Compare, Reached
  <1>4. Going /\ run'.unseen = run.unseen \ {p} /\ run'.failed = run.failed /\ run'.guess = run.guess
    BY <1>1, <1>2 DEF IInv, Shape, IsRun, Going
  <1>5. /\ base'[p] = [h |-> 0, v |-> source[p].v, g |-> run.working]
        /\ \A q \in Paths : q # p => base'[q] = base[q] /\ (HasRow(q)' <=> HasRow(q))
        /\ stale' = {} /\ HasRow(p)'
    BY <1>1, <1>2, <1>3, PutFields
  <1>6. base'[p].h = 0 /\ base'[p].v = base[p].v /\ base'[p].g = run.working
    BY <1>1, <1>5
  <1>7. Generations'
    BY <1>1, <1>2, <1>3, <1>4, PutGenerations
  <1>8. Handleless'
    BY <1>1, <1>3, <1>4, <1>5, <1>6 DEF Handleless, Going
  <1>9. Downwards'
    <2> SUFFICES ASSUME ~run.failed, NEW q \in Paths, Parent[q] # ROOT
                 PROVE  /\ Known(q)' => Known(Parent[q])'
                        /\ q \in run'.unseen => Parent[q] \in run'.unseen \/ Known(Parent[q])'
      BY <1>3, <1>4 DEF Downwards, Going
    <2>1. Known(p)' /\ \A r \in Paths : r # p => (Known(r)' <=> Known(r))
      BY <1>3, <1>4, <1>5, <1>6 DEF Known, Pending, Going
    <2>2. Parent[q] \in Paths
      BY Parents
    <2>3. q = p => Known(Parent[q])
      BY <1>3 DEF Downwards
    <2> QED
      BY <1>3, <1>4, <2>1, <2>2, <2>3 DEF Downwards
  <1>10. ~run.failed /\ todo[p] = NoCopy /\ ~Pending(p) => Tells(p)
    BY <1>1, <1>2, <1>3 DEF Faithful, Settled, Busy
  <1>11. Faithful'
    <2>1. ~scan.committed
      BY <1>3 DEF Generations, Busy
    <2> SUFFICES ASSUME ~run.failed, NEW q \in Paths, Settled(q)' PROVE Tells(q)'
      BY <1>3, <1>4, <2>1 DEF Faithful
    <2>2. CASE q = p
      BY <1>3, <1>4, <1>6, <1>10, <2>2 DEF Settled, Pending, Going, Tells
    <2>3. CASE q # p
      BY <1>3, <1>4, <1>5, <2>3 DEF Faithful, Settled, Pending, Going, Tells, Busy
    <2> QED
      BY <2>2, <2>3
  <1>12. Remaining'
    BY <1>3, <1>4 DEF Remaining, Going
  <1>13. Copying'
    <2> SUFFICES ASSUME reserved, quiet, ~run.failed, NEW q \in Paths
                 PROVE  /\ Here(q) => Recorded(q)'
                        /\ Here(q) => \/ q \in run'.unseen \/ todo[q] # NoCopy
                                      \/ dest[q] = source[q].v \/ q \in outrun
                        /\ base'[q].g = run.working => Here(q)
      BY <1>3, <1>4 DEF Copying, Here, Going
    <2>1. CASE q = p
      <3>1. todo[p] = NoCopy /\ ~Pending(p)
        BY <1>3 DEF Recording, Undisturbed, Pending
      <3> QED
        BY <1>1, <1>3, <1>4, <1>6, <1>10, <2>1, <3>1 DEF Recorded, Going, Tells
    <2>2. CASE q # p
      BY <1>3, <1>4, <1>5, <2>2 DEF Copying, Recorded, Going, Busy
    <2> QED
      BY <2>1, <2>2
  <1>14. Accounted'
    BY <1>1, <1>3, <1>4, <1>5 DEF Accounted, Here, Busy, Going
  <1>15. Synced' /\ CommittedMatches'
    BY <1>3, <1>4 DEF Synced, CommittedMatches, Here
  <1> QED
    BY <1>7, <1>8, <1>9, <1>11, <1>12, <1>13, <1>14, <1>15

LEMMA ListedPlain == ASSUME PlainInv, NEW p \in Paths, ObserveFull(p) \/ Compare(p) PROVE Plain'
  <1> USE DEF store, history, catalogue, options
  <1>1. CASE ObserveFull(p)
    BY <1>1, QueuedPlain DEF ObserveFull
  <1>2. CASE Compare(p) /\ (run.recovering \/ IsNew(p) \/ IsChanged(p))
    BY <1>2, QueuedPlain DEF Compare
  <1> QED
    BY <1>1, <1>2, SkippedPlain

\* A copy of what the source has now, which is acknowledged or, in a move,
\* waits for its source to be removed.
LEMMA CopiedPlain ==
    ASSUME PlainInv, NEW p \in Paths, Ready(p), Copyable(p), Copied(p),
           \/ Acked(p) /\ Finished(p)
           \/ /\ acks' = acks /\ todo' = [todo EXCEPT ![p].copied = TRUE]
              /\ ~todo[p].copied /\ ~reserved /\ run.full
    PROVE  Plain'
  <1> USE DEF PlainInv, Plain, catalogue, options
  <1>1. /\ run.step = "copy" /\ todo[p] # NoCopy
        /\ UNCHANGED <<reserved, source, base, stale, scan, run, plan, quiet, synced, skewed, orphans, outrun>>
    BY DEF Ready, Copied
  <1>2. /\ Parent[p] # p
        /\ \A q \in Paths : q # p => dest'[q] = IF q = Parent[p] THEN 1 ELSE dest[q]
        /\ Here(p) => dest'[p] = source[p].v
        /\ quiet => Here(p) /\ todo[p].v = source[p].v
    BY CopiedFields DEF IInv
  <1>3. \A q \in Paths : q # p => todo'[q] = todo[q] /\ (Pending(q)' <=> Pending(q))
    BY FinishedFields DEF TodoBut, IInv, Shape, IsTree, Acked, Pending
  <1>4. \/ /\ todo'[p] = NoCopy /\ Pending(p)' /\ (\E a \in acks' : a.op = "put" /\ a.p = p)
           /\ acks' = acks \cup {[op |-> "put", p |-> p, h |-> todo[p].h, v |-> todo[p].v]}
        \/ /\ todo'[p] # NoCopy /\ todo'[p].h = todo[p].h /\ acks' = acks /\ ~reserved /\ run.full
    <2>1. CASE Acked(p) /\ Finished(p)
      <3>1. todo'[p] = NoCopy
        BY <2>1, FinishedFields DEF TodoBut, IInv
      <3>2. PICK a : a = [op |-> "put", p |-> p, h |-> todo[p].h, v |-> todo[p].v]
        OBVIOUS
      <3>3. a.op = "put" /\ a.p = p /\ acks' = acks \cup {a}
        BY <2>1, <3>2 DEF Acked
      <3> QED
        BY <3>1, <3>2, <3>3 DEF Pending
    <2>2. CASE ~(Acked(p) /\ Finished(p))
      <3>1. todo'[p] = [todo[p] EXCEPT !.copied = TRUE] /\ todo[p] = [h |-> todo[p].h, v |-> todo[p].v, copied |-> todo[p].copied]
        BY <2>2 DEF IInv, Shape, IsTree, Recording, OneVersion, IsCopy
      <3>2. todo'[p].copied /\ todo'[p].h = todo[p].h
        BY <3>1
      <3> QED
        BY <2>2, <3>2 DEF NoCopy
    <2> QED
      BY <2>1, <2>2
  <1>5. \A q \in Paths : q = Parent[p] => q \in Dirs /\ q # p /\ Here(q) /\ source[q].v = 1
    BY Parents, LocalCopyAssumption DEF Copyable, Recording, OneVersion, IInv, Rooted, RootedIn, Here
  <1>6. Generations'
    BY <1>1 DEF Generations, NoRows, HasRow, Busy, Recovering
  <1>7. Handleless'
    BY <1>1, <1>3, <1>4 DEF Handleless, HasRow, NoCopy
  <1>8. Downwards'
    <2> SUFFICES ASSUME ~run.full PROVE \A q \in Paths : Known(q)' <=> Known(q)
      BY <1>1, Parents DEF Downwards
    <2> QED
      BY <1>1, <1>3, <1>4 DEF Known
  <1>9. Faithful'
    <2>1. ~scan.committed
      BY <1>1 DEF Generations, Busy
    <2> SUFFICES ASSUME ~run.failed, NEW q \in Paths, Settled(q)' PROVE Tells(q)'
      BY <1>1, <2>1 DEF Faithful
    <2>2. q # p
      BY <1>1, <1>4 DEF Settled
    <2>3. Settled(q) /\ HasRow(q)
      BY <1>1, <1>3, <2>2 DEF Settled, HasRow
    <2>4. q = Parent[p] => base[q].v = 1
      BY <1>5, <2>3 DEF Handleless
    <2> QED
      BY <1>1, <1>2, <2>2, <2>3, <2>4 DEF Faithful, Tells, Busy
  <1>10. Remaining'
    BY <1>1 DEF Remaining
  <1>11. Copying'
    <2> SUFFICES ASSUME reserved, quiet, ~run.failed, NEW q \in Paths
                 PROVE  /\ Here(q) => Recorded(q)'
                        /\ Here(q) => \/ q \in run.unseen \/ todo'[q] # NoCopy
                                      \/ dest'[q] = source[q].v \/ q \in outrun
                        /\ base[q].g = run.working => Here(q)
      BY <1>1 DEF Copying, Here
    <2>1. CASE q = p
      BY <1>1, <1>2, <1>4, <2>1 DEF Recorded
    <2>2. CASE q # p
      <3>1. todo'[q] = todo[q] /\ (Recorded(q) => Recorded(q)')
        BY <1>1, <1>3, <1>4, <2>2 DEF Recorded
      <3> QED
        BY <1>1, <1>2, <1>5, <2>2, <3>1 DEF Copying, Busy
    <2> QED
      BY <2>1, <2>2
  <1>12. Accounted'
    <2> SUFFICES ASSUME reserved, NEW q \in Paths, dest'[q] # ABSENT
                 PROVE  HasRow(q) \/ q \in orphans \/ (quiet => Here(q))
      BY <1>1 DEF Accounted, HasRow, Here, Busy
    <2> QED
      BY <1>1, <1>2, <1>5 DEF Accounted
  <1>13. CommittedMatches'
    BY <1>1, <1>2, <1>5 DEF CommittedMatches, Synced, Here
  <1>14. Synced'
    BY <1>1 DEF Synced
  <1> QED
    BY <1>6, <1>7, <1>8, <1>9, <1>10, <1>11, <1>12, <1>13, <1>14

LEMMA CopiesPlain == ASSUME PlainInv, NEW p \in Paths, ReceiverCopies(p) \/ HandlerCopies(p) PROVE Plain'
  BY CopiedPlain DEF ReceiverCopies, HandlerCopies

LEMMA DeleteSourcePlain == ASSUME PlainInv, NEW p \in Paths, DeleteSource(p) PROVE Plain'
  <1> USE DEF PlainInv, Plain, catalogue, options
  <1>1. /\ run.step = "copy" /\ ~reserved /\ run.full /\ ~synced
        /\ UNCHANGED <<reserved, dest, base, stale, scan, run, plan, quiet, synced, skewed, orphans, outrun>>
    BY DEF DeleteSource, Ready, IInv, Moving, Stepwise, Synced
  <1>2. source'[p] = Nothing /\ \A q \in Paths : q # p => source'[q] = source[q]
    BY DEF DeleteSource, IInv, Shape, IsTree
  <1>3. TodoBut(p, NoCopy)
    BY FinishedFields DEF IInv, DeleteSource
  <1>4. PICK a : a = [op |-> "put", p |-> p, h |-> todo[p].h, v |-> todo[p].v]
    OBVIOUS
  <1>5. acks' = acks \cup {a} /\ a.p = p /\ a.h = todo[p].h
    BY <1>4 DEF DeleteSource, Acked
  <1>6. Generations'
    BY <1>1 DEF Generations, NoRows, HasRow, Busy, Recovering
  <1>7. Handleless'
    <2>1. \A q \in Paths : source'[q].h = 0 /\ todo'[q].h = 0
      BY <1>2, <1>3 DEF Handleless, TodoBut, NoCopy, Nothing
    <2>2. \A b \in acks' : b.h = 0
      BY <1>1, <1>5 DEF Handleless
    <2> QED
      BY <1>1, <2>1, <2>2 DEF Handleless, HasRow
  <1>8. Downwards' /\ Remaining' /\ Copying' /\ Accounted' /\ Synced' /\ CommittedMatches'
    BY <1>1 DEF Downwards, Remaining, Copying, Accounted, Synced, CommittedMatches
  <1>9. Faithful'
    <2>1. ~scan.committed
      BY <1>1 DEF Generations, Busy
    <2> SUFFICES ASSUME ~run.failed, NEW q \in Paths, Settled(q)' PROVE Tells(q)'
      BY <1>1, <2>1 DEF Faithful
    <2>2. q # p
      BY <1>1, <1>5 DEF Settled, Pending
    <2>3. Settled(q)
      BY <1>1, <1>3, <1>5, <2>2 DEF Settled, HasRow, Pending, TodoBut
    <2> QED
      BY <1>1, <2>3 DEF Faithful, Tells, Busy
  <1> QED
    BY <1>6, <1>7, <1>8, <1>9

LEMMA CopyFailsPlain == ASSUME PlainInv, NEW p \in Paths, CopyFails(p) PROVE Plain'
  <1> USE DEF PlainInv, Plain, catalogue, options, Fault
  <1>1. /\ run.step = "copy" /\ todo[p] # NoCopy
        /\ UNCHANGED <<reserved, source, base, stale, scan, acks, plan, quiet, skewed, orphans, outrun>>
    BY DEF CopyFails, Ready
  <1>2. Going /\ run'.failed /\ run'.unseen = run.unseen /\ run'.guess = run.guess
    BY FailingFields DEF IInv, CopyFails
  <1>3. \A q \in Paths : todo'[q] \in {todo[q], NoCopy}
    BY FinishedFields DEF IInv, CopyFails, TodoBut
  <1>4. quiet => Here(p)
    BY <1>1 DEF Recording, Undisturbed
  <1>5. ~synced'
    BY <1>4 DEF CopyFails, Copyable, Fault, Synced
  <1>6. \A q \in Paths : dest'[q] # ABSENT => dest[q] # ABSENT \/ (quiet => Here(q))
    BY <1>4 DEF CopyFails, IInv, Shape, IsTree
  <1> QED
    BY <1>1, <1>2, <1>3, <1>5, <1>6, FailingPlain DEF Busy

\* The row of a copy.  A path that changed on its way is noted as such.
LEMMA PutPlain == ASSUME PlainInv, NEW a \in acks, Flush(a), run.step = "copy" PROVE Plain'
  <1> USE DEF PlainInv, Plain, store, options
  <1>1. PICK p : p = a.p
    OBVIOUS
  <1>2. /\ p \in Paths /\ a.h = 0 /\ a.op = "put" /\ (p \in Dirs => a.v = 1)
    BY <1>1 DEF IInv, Stepwise, Recording, OneVersion, Handleless
  <1>3. /\ PutRow(p, 0, a.v) /\ acks' = acks \ {a}
        /\ outrun' = IF dest[p] # a.v /\ ~quiet THEN outrun \cup {p} ELSE outrun \ {p}
        /\ UNCHANGED <<reserved, source, dest, scan, run, todo, plan, quiet, synced, skewed, orphans>>
    BY <1>1, <1>2 DEF Flush
  <1>4. /\ base'[p] = [h |-> 0, v |-> a.v, g |-> run.working]
        /\ \A q \in Paths : q # p => base'[q] = base[q] /\ (HasRow(q)' <=> HasRow(q))
        /\ stale' = {} /\ HasRow(p)'
    BY <1>2, <1>3, PutFields
  <1>5. base'[p].h = 0 /\ base'[p].v = a.v /\ base'[p].g = run.working
    BY <1>4
  <1>6. /\ \A q \in Paths : q # p => (Pending(q)' <=> Pending(q)) /\ (q \in outrun' <=> q \in outrun)
        /\ dest[p] = a.v \/ p \in outrun'
    BY <1>1, <1>2, <1>3 DEF Pending, Recording, Undisturbed
  <1>7. Going
    BY <1>3 DEF Going, IInv, Shape
  <1>8. Generations'
    BY <1>2, <1>3, <1>7, PutGenerations
  <1>9. Handleless'
    BY <1>2, <1>3, <1>4, <1>5 DEF Handleless
  <1>10. Downwards'
    <2>1. \A q \in Paths : Known(q)' <=> Known(q)
      <3> SUFFICES ASSUME NEW q \in Paths PROVE Known(q)' <=> Known(q)
        OBVIOUS
      <3>1. CASE q = p
        BY <1>1, <1>3, <1>5, <3>1 DEF Known, Pending
      <3>2. CASE q # p
        BY <1>3, <1>4, <1>6, <3>2 DEF Known
      <3> QED
        BY <3>1, <3>2
    <2> QED
      BY <1>3, <2>1, Parents DEF Downwards
  <1>11. Faithful'
    <2>1. ~scan.committed
      BY DEF Generations, Busy
    <2> SUFFICES ASSUME ~run.failed, NEW q \in Paths, Settled(q)' PROVE Tells(q)'
      BY <1>3, <2>1 DEF Faithful
    <2>2. CASE q = p
      BY <1>3, <1>5, <1>6, <2>2 DEF Tells
    <2>3. CASE q # p
      BY <1>3, <1>4, <1>6, <2>3 DEF Faithful, Settled, Tells, Busy
    <2> QED
      BY <2>2, <2>3
  <1>12. Remaining'
    BY <1>3 DEF Remaining
  <1>13. quiet /\ reserved => Here(p) /\ source[p].v = a.v
    BY <1>1, <1>2 DEF Recording, Undisturbed
  <1>14. Copying'
    <2> SUFFICES ASSUME reserved, quiet, ~run.failed, NEW q \in Paths
                 PROVE  /\ Here(q) => Recorded(q)'
                        /\ Here(q) => \/ q \in run.unseen \/ todo[q] # NoCopy
                                      \/ dest[q] = source[q].v \/ q \in outrun'
                        /\ base'[q].g = run.working => Here(q)
      BY <1>3 DEF Copying, Here
    <2>1. CASE q = p
      BY <1>3, <1>5, <1>6, <1>13, <2>1 DEF Recorded
    <2>2. CASE q # p
      <3>1. Recorded(q) => Recorded(q)'
        BY <1>1, <1>3, <1>4, <2>2 DEF Recorded
      <3> QED
        BY <1>3, <1>4, <1>6, <2>2, <3>1 DEF Copying, Busy
    <2> QED
      BY <2>1, <2>2
  <1>15. Accounted'
    BY <1>3, <1>4 DEF Accounted, Here, Busy
  <1>16. Synced' /\ CommittedMatches'
    BY <1>3, <1>6, <1>13 DEF Synced, CommittedMatches, Here
  <1> QED
    BY <1>8, <1>9, <1>10, <1>11, <1>12, <1>14, <1>15, <1>16

\* The row of a path that was deleted.
LEMMA DropPlain == ASSUME PlainInv, NEW a \in acks, Flush(a), run.step # "copy" PROVE Plain'
  <1> USE DEF PlainInv, Plain, store, options
  <1>1. PICK p : p = a.p
    OBVIOUS
  <1>2. /\ run.step = "apply" /\ ~run.full
        /\ p \in Paths /\ a.op = "drop" /\ dest[p] = ABSENT /\ (quiet => ~Here(p))
        /\ ~run.failed => base[p].g # run.working
    BY <1>1 DEF IInv, Stepwise, Handleless, Remaining
  <1>3. /\ DropRow(p) /\ acks' = acks \ {a} /\ outrun' = outrun \ {p}
        /\ UNCHANGED <<reserved, source, dest, scan, run, todo, plan, quiet, synced, skewed, orphans>>
    BY <1>1, <1>2 DEF Flush
  <1>4. /\ base'[p] = NoRow /\ ~HasRow(p)'
        /\ \A q \in Paths : q # p => base'[q] = base[q] /\ (HasRow(q)' <=> HasRow(q))
        /\ stale' = {}
    BY <1>2, <1>3 DEF DropRow, IInv, Shape, IsTree, HasRow, Handleless
  <1>5. \A q \in Paths : q # p => (Pending(q)' <=> Pending(q)) /\ (q \in outrun' <=> q \in outrun)
    BY <1>1, <1>3 DEF Pending
  <1>6. run.working \in {0, 1} /\ base'[p].g = -1 /\ base'[p].h = 0
    BY <1>2, <1>4 DEF Generations, Busy, NoRow
  <1>7. base'[p] = [h |-> base'[p].h, v |-> base'[p].v, g |-> base'[p].g]
    BY <1>4 DEF NoRow
  <1>8. Generations'
    BY <1>2, <1>3, <1>4, <1>7 DEF Generations, Busy
  <1>9. Handleless'
    BY <1>2, <1>3, <1>4, <1>6 DEF Handleless, Here
  <1>10. Downwards'
    BY <1>2, <1>3 DEF Downwards
  <1>11. Faithful'
    <2>1. ~scan.committed
      BY <1>2 DEF Generations, Busy
    <2> SUFFICES ASSUME ~run.failed, NEW q \in Paths, Settled(q)' PROVE Tells(q)'
      BY <1>3, <2>1 DEF Faithful
    <2>2. q # p
      BY <1>4 DEF Settled
    <2> QED
      BY <1>2, <1>3, <1>4, <1>5, <2>2 DEF Faithful, Settled, Tells, Busy
  <1>12. Remaining'
    <2> SUFFICES ASSUME ~run.failed
                 PROVE  /\ \A q \in Paths : HasRow(q)' /\ base'[q].g # run.working =>
                              (\E r \in plan : r.from = q) \/ Pending(q)'
                        /\ \A r \in plan : base'[r.from].g # run.working
                        /\ \A b \in acks' : base'[b.p].g # run.working
                        /\ \A q \in Paths : Parent[q] # ROOT /\ base'[q].g = run.working =>
                              base'[Parent[q]].g = run.working
      BY <1>2, <1>3 DEF Remaining
    <2>1. \A q \in Paths : HasRow(q)' /\ base'[q].g # run.working =>
              (\E r \in plan : r.from = q) \/ Pending(q)'
      BY <1>2, <1>4, <1>5 DEF Remaining
    <2>2. \A q \in Paths : base[q].g # run.working => base'[q].g # run.working
      BY <1>4, <1>6
    <2>3. \A r \in plan : base'[r.from].g # run.working
      BY <1>2, <2>2 DEF Remaining, IInv, Planned
    <2>4. \A b \in acks' : base'[b.p].g # run.working
      BY <1>2, <1>3, <2>2 DEF Remaining, Handleless
    <2>5. \A q \in Paths : Parent[q] # ROOT /\ base'[q].g = run.working => base'[Parent[q]].g = run.working
      <3> SUFFICES ASSUME NEW q \in Paths, Parent[q] # ROOT, base'[q].g = run.working
                   PROVE  base'[Parent[q]].g = run.working
        OBVIOUS
      <3>1. base[q].g = run.working
        BY <1>4, <1>6
      <3>2. Parent[q] \in Paths /\ base[Parent[q]].g = run.working
        BY <1>2, <3>1, Parents DEF Remaining
      <3> QED
        BY <1>2, <1>4, <3>2
    <2> QED
      BY <2>1, <2>3, <2>4, <2>5
  <1>13. Copying'
    <2> SUFFICES ASSUME reserved, quiet, ~run.failed, NEW q \in Paths
                 PROVE  /\ Here(q) => Recorded(q)'
                        /\ Here(q) => \/ q \in run.unseen \/ todo[q] # NoCopy
                                      \/ dest[q] = source[q].v \/ q \in outrun'
                        /\ base'[q].g = run.working => Here(q)
      BY <1>3 DEF Copying, Here
    <2>1. CASE q = p
      BY <1>2, <1>6, <2>1
    <2>2. CASE q # p
      <3>1. Recorded(q) => Recorded(q)'
        BY <1>1, <1>3, <1>4, <2>2 DEF Recorded
      <3> QED
        BY <1>2, <1>4, <1>5, <2>2, <3>1 DEF Copying, Busy
    <2> QED
      BY <2>1, <2>2
  <1>14. Accounted'
    BY <1>2, <1>3, <1>4 DEF Accounted, Here, Busy
  <1>15. Synced' /\ CommittedMatches'
    BY <1>2, <1>3, <1>5 DEF Synced, CommittedMatches, Here
  <1> QED
    BY <1>8, <1>9, <1>10, <1>11, <1>12, <1>13, <1>14, <1>15

LEMMA FlushFailsPlain == ASSUME PlainInv, NEW a \in acks, FlushFails(a) PROVE Plain'
  <1> USE DEF store, catalogue, options, Fault
  <1>1. /\ run.step \in {"copy", "apply"} /\ ~synced' /\ acks' \subseteq acks
        /\ UNCHANGED <<reserved, source, dest, base, stale, scan, todo, plan, quiet, skewed, orphans, outrun>>
    BY DEF FlushFails, PlainInv, IInv, Stepwise
  <1>2. Going /\ run'.failed /\ run'.unseen = run.unseen /\ run'.guess = run.guess
    BY FailingFields DEF PlainInv, IInv, FlushFails
  <1> QED
    BY <1>1, <1>2, FailingPlain DEF Busy

LEMMA FlushedPlain == ASSUME PlainInv, NEW a \in acks, Flush(a) \/ FlushFails(a) PROVE Plain'
  BY PutPlain, DropPlain, FlushFailsPlain

-----------------------------------------------------------------------------
(* Phase B and the end of a run.                                           *)

\* Phase A is over and phase B has nothing to do, or the run has nothing left.
LEMMA ClosePlain ==
    ASSUME PlainInv, Busy, ~run.failed, run' = [run EXCEPT !.step = "close"], run.unseen = {},
           acks = {}, \A p \in Paths : todo[p] = NoCopy,
           UNCHANGED <<reserved, source, dest, base, stale, scan, todo, acks, plan, quiet, synced,
                       skewed, orphans, outrun>>,
           \/ run.step = "copy" /\ run.full
           \/ run.step = "apply" /\ plan = {}
    PROVE  Plain'
  <1> USE DEF PlainInv, Plain
  <1>1. /\ run'.step = "close" /\ run'.full = run.full /\ run'.recovering = run.recovering
        /\ run'.working = run.working /\ run'.failed = run.failed /\ run'.guess = run.guess
        /\ run'.unseen = run.unseen
    BY DEF IInv, Shape, IsRun
  <1>2. plan = {}
    BY DEF IInv, Stepwise
  <1>3. \A p \in Paths : HasRow(p) => base[p].g = run.working \/ (run.step = "copy" /\ ~run.recovering)
    BY <1>2 DEF Remaining, Pending, Generations
  <1>4. reserved => \A p \in Paths : HasRow(p) => base[p].g = run.working
    BY <1>2 DEF Remaining, Pending, Generations
  <1>5. Generations'
    BY <1>1 DEF Generations, Busy, NoRows, HasRow
  <1>6. Handleless'
    BY <1>1, <1>2 DEF Handleless, HasRow
  <1>7. Downwards'
    BY <1>1 DEF Downwards
  <1>8. Faithful'
    <2>1. ~scan.committed
      BY DEF Generations
    <2> SUFFICES ASSUME NEW p \in Paths, Settled(p)' PROVE Tells(p)'
      BY <2>1 DEF Faithful
    <2>2. Settled(p)
      BY <1>1, <1>3 DEF Settled, HasRow, Pending
    <2> QED
      BY <2>2 DEF Faithful, Tells
  <1>9. Remaining'
    BY <1>1, <1>4 DEF Remaining, HasRow
  <1>10. Copying'
    BY <1>1 DEF Copying, Recorded, Here, Busy
  <1>11. Accounted'
    BY <1>1 DEF Accounted, HasRow, Here, Busy
  <1>12. Synced' /\ CommittedMatches'
    BY <1>1 DEF Synced, CommittedMatches, Here
  <1> QED
    BY <1>5, <1>6, <1>7, <1>8, <1>9, <1>10, <1>11, <1>12

LEMMA FullCopiedPlain == ASSUME PlainInv, FullCopied PROVE Plain'
  BY ClosePlain DEF FullCopied, PhaseAOver, store, catalogue, history, options, Busy

\* Without handles, an untouched row is of a path that is to be deleted.
LEMMA NothingRenamed ==
    ASSUME Handleless
    PROVE  /\ Ambiguous = {}
           /\ \A p \in Paths : Status(p) = {Delete(p)}
  <1>1. \A p \in Paths : RenamedTo(p) = {}
    BY DEF Handleless, RenamedTo
  <1>2. Ambiguous = {}
    BY <1>1 DEF Ambiguous
  <1>3. ASSUME NEW p \in Paths PROVE Status(p) = {Delete(p)}
    BY <1>1, FS_EmptySet DEF Status
  <1> QED
    BY <1>2, <1>3

LEMMA BarrierPlain == ASSUME PlainInv, Barrier PROVE Plain'
  <1> USE DEF PlainInv, Plain, store, catalogue, history, options
  <1>1. /\ run.step = "copy" /\ run.unseen = {} /\ acks = {} /\ (\A p \in Paths : todo[p] = NoCopy)
        /\ ~run.failed /\ ~run.full /\ plan' = Detected
        /\ UNCHANGED <<reserved, source, dest, base, stale, scan, todo, acks, quiet, synced,
                       skewed, orphans, outrun>>
    BY DEF Barrier, PhaseAOver
  <1>2. /\ run'.step = "apply" /\ run'.full = run.full /\ run'.recovering = run.recovering
        /\ run'.working = run.working /\ run'.failed = run.failed /\ run'.guess = run.guess
        /\ run'.unseen = run.unseen
    BY NothingRenamed DEF Barrier, IInv, Shape, IsRun
  <1>3. \A r \in plan' : \E p \in Paths :
            HasRow(p) /\ base[p].g # run.working /\ r = Delete(p)
    BY <1>1, NothingRenamed DEF Detected
  <1>4. \A p \in Paths : HasRow(p) /\ base[p].g # run.working => Delete(p) \in plan'
    BY <1>1, NothingRenamed DEF Detected
  <1>5. \A p \in Paths : Delete(p).from = p /\ Delete(p).op = "delete"
    BY DEF Delete
  <1>6. Generations'
    BY <1>1, <1>2 DEF Generations, Busy, NoRows, HasRow
  <1>7. Handleless'
    BY <1>1, <1>2, <1>3, <1>5 DEF Handleless, HasRow
  <1>8. Downwards'
    BY <1>2 DEF Downwards
  <1>9. Faithful'
    <2>1. ~scan.committed
      BY <1>1 DEF Generations, Busy
    <2> SUFFICES ASSUME NEW p \in Paths, Settled(p)' PROVE Tells(p)'
      BY <1>1, <2>1 DEF Faithful
    <2>2. Settled(p)
      BY <1>1, <1>2 DEF Settled, HasRow, Pending
    <2> QED
      BY <1>1, <2>2 DEF Faithful, Tells, Busy
  <1>10. Remaining'
    <2>1. \A p \in Paths : HasRow(p) /\ base[p].g # run.working => \E r \in plan' : r.from = p
      BY <1>4, <1>5
    <2>2. \A r \in plan' : base[r.from].g # run.working
      BY <1>3, <1>5
    <2>3. \A p \in Paths : Parent[p] # ROOT /\ base[p].g = run.working => base[Parent[p]].g = run.working
      BY <1>1, Parents DEF Downwards, Known, Pending
    <2> QED
      BY <1>1, <1>2, <2>1, <2>2, <2>3 DEF Remaining, HasRow
  <1>11. Copying'
    BY <1>1, <1>2 DEF Copying, Recorded, Here, Busy
  <1>12. Accounted'
    BY <1>1, <1>2 DEF Accounted, HasRow, Here, Busy
  <1>13. Synced' /\ CommittedMatches'
    BY <1>1, <1>2 DEF Synced, CommittedMatches, Here
  <1> QED
    BY <1>6, <1>7, <1>8, <1>9, <1>10, <1>11, <1>12, <1>13

\* What is deleted has no row of this run, and nothing below it has.
LEMMA ApplyDeletePlain == ASSUME PlainInv, ApplyDelete PROVE Plain'
  <1> USE DEF PlainInv, Plain, catalogue, history, options
  <1>1. PICK d : d = Due.from
    OBVIOUS
  <1>2. PICK b : b = [op |-> "drop", p |-> d, h |-> 0, v |-> ABSENT]
    OBVIOUS
  <1>3. /\ run.step = "apply" /\ plan # {} /\ plan' = plan \ {Due} /\ acks' = acks \cup {b}
        /\ dest' = [p \in Paths |-> IF p \in Subtree(d) THEN ABSENT ELSE dest[p]]
        /\ UNCHANGED <<reserved, source, base, stale, scan, run, todo, quiet, synced, skewed, orphans, outrun>>
    BY <1>1, <1>2 DEF ApplyDelete, Applying
  <1>4. Due \in plan /\ d \in Paths /\ (quiet => ~Here(d)) /\ ~run.full
    BY <1>1, <1>3, DueInPlan DEF IInv, Planned, Stepwise
  <1>5. \A q \in Paths : dest'[q] = dest[q] \/ (q \in Subtree(d) /\ dest'[q] = ABSENT)
    BY <1>3
  <1>6. \A q \in Paths : quiet /\ Here(q) => q \notin Subtree(d)
    BY <1>4, LocalCopyAssumption DEF Subtree, Children, IInv, Rooted, RootedIn, Here
  <1>7. b.op = "drop" /\ b.p = d /\ dest'[d] = ABSENT
    BY <1>2, <1>3, <1>4 DEF Subtree
  <1>8. ~run.failed => base[d].g # run.working
    BY <1>1, <1>3, <1>4 DEF Remaining
  <1>9. Generations'
    BY <1>3 DEF Generations, NoRows, HasRow, Busy, Recovering
  <1>10. Handleless'
    <2>1. \A a \in acks' : a.op = "drop" /\ a.p \in Paths /\ dest'[a.p] = ABSENT /\ (quiet => ~Here(a.p))
      BY <1>3, <1>4, <1>5, <1>7 DEF Handleless
    <2> QED
      BY <1>3, <2>1 DEF Handleless, HasRow, Here
  <1>11. Downwards'
    BY <1>3 DEF Downwards
  <1>12. Faithful'
    <2>1. ~scan.committed
      BY <1>3 DEF Generations, Busy
    <2> SUFFICES ASSUME ~run.failed, NEW q \in Paths, Settled(q)' PROVE Tells(q)'
      BY <1>3, <2>1 DEF Faithful
    <2>2. Settled(q) /\ base[q].g = run.working
      BY <1>3 DEF Settled, HasRow
    <2>3. q \notin Subtree(d)
      <3>1. q # d
        BY <1>8, <2>2
      <3>2. q \notin Children(d)
        <4> SUFFICES ASSUME Parent[q] = d PROVE FALSE
          BY DEF Children
        <4>1. d # ROOT
          BY <1>4, LocalCopyAssumption
        <4> QED
          BY <1>3, <1>8, <2>2, <4>1 DEF Remaining
      <3> QED
        BY <3>1, <3>2 DEF Subtree
    <2> QED
      BY <1>3, <1>5, <2>2, <2>3 DEF Faithful, Tells, Busy
  <1>13. Remaining'
    <2> SUFFICES ASSUME ~run.failed
                 PROVE  /\ \A q \in Paths : HasRow(q) /\ base[q].g # run.working =>
                              (\E r \in plan' : r.from = q) \/ Pending(q)'
                        /\ \A r \in plan' : base[r.from].g # run.working
                        /\ \A a \in acks' : base[a.p].g # run.working
      BY <1>3 DEF Remaining, HasRow
    <2>1. \A q \in Paths : HasRow(q) /\ base[q].g # run.working =>
              (\E r \in plan' : r.from = q) \/ Pending(q)'
      BY <1>1, <1>3, <1>7 DEF Remaining, Pending
    <2>2. \A r \in plan' : base[r.from].g # run.working
      BY <1>3 DEF Remaining
    <2>3. \A a \in acks' : base[a.p].g # run.working
      BY <1>3, <1>7, <1>8 DEF Remaining
    <2> QED
      BY <2>1, <2>2, <2>3
  <1>14. Copying'
    <2> SUFFICES ASSUME reserved, quiet, ~run.failed, NEW q \in Paths
                 PROVE  /\ Here(q) => Recorded(q)'
                        /\ Here(q) => \/ q \in run.unseen \/ todo[q] # NoCopy
                                      \/ dest'[q] = source[q].v \/ q \in outrun
                        /\ base[q].g = run.working => Here(q)
      BY <1>3 DEF Copying, Here
    <2>1. Recorded(q) => Recorded(q)'
      BY <1>3 DEF Recorded
    <2> QED
      BY <1>3, <1>5, <1>6, <2>1 DEF Copying, Busy
  <1>15. Accounted'
    <2> SUFFICES ASSUME reserved, NEW q \in Paths, dest'[q] # ABSENT
                 PROVE  HasRow(q) \/ q \in orphans \/ (quiet => Here(q))
      BY <1>3 DEF Accounted, HasRow, Here, Busy
    <2> QED
      BY <1>5 DEF Accounted
  <1>16. CommittedMatches'
    BY <1>3, <1>5, <1>6 DEF CommittedMatches, Here, Synced
  <1>17. Synced'
    BY <1>3 DEF Synced
  <1> QED
    BY <1>9, <1>10, <1>11, <1>12, <1>13, <1>14, <1>15, <1>16, <1>17

LEMMA ApplyFailsPlain == ASSUME PlainInv, ApplyFails PROVE Plain'
  <1> USE DEF PlainInv, Plain, store, catalogue, options
  <1>1. /\ run.step = "apply" /\ plan # {} /\ plan' \subseteq plan
        /\ UNCHANGED <<reserved, source, dest, base, stale, scan, todo, acks, quiet, skewed, orphans, outrun>>
    BY DEF ApplyFails
  <1>2. Going /\ run'.failed /\ run'.unseen = run.unseen /\ run'.guess = run.guess
    BY FailingFields DEF IInv, ApplyFails
  <1>3. ~Impossible(Due)
    BY <1>1, DueInPlan DEF IInv, Handleless, Impossible
  <1>4. ~synced'
    BY <1>3 DEF ApplyFails, Fault
  <1> QED
    BY <1>1, <1>2, <1>4, FailingPlain DEF Busy

LEMMA NoRename == ASSUME PlainInv PROVE ~ApplyRename
  <1> SUFFICES ASSUME ApplyRename PROVE FALSE
    OBVIOUS
  <1>1. Due \in plan /\ Due.op = "rename"
    BY DueInPlan DEF PlainInv, IInv, ApplyRename, Applying
  <1> QED
    BY <1>1 DEF PlainInv, Plain, Handleless

\* A run that ends without a commit: what it leaves is known to have no row.
LEMMA AbandonPlain ==
    ASSUME PlainInv, run.step # "idle", run' = Idle, \A p \in Paths : todo'[p] = NoCopy, plan' = {},
           UNCHANGED <<reserved, source, base, stale, scan, quiet, skewed, outrun>>,
           ~synced', dest' = dest \/ run.step = "copy",
           orphans' = orphans \cup {p \in Paths : dest'[p] # ABSENT /\ ~HasRow(p)}
    PROVE  Plain'
  <1> USE DEF PlainInv, Plain
  <1>1. /\ run'.step = "idle" /\ ~run'.failed /\ run'.guess = {} /\ ~run'.full
        /\ run'.unseen = {} /\ ~run'.recovering
    BY DEF Idle
  <1>2. Generations'
    BY <1>1 DEF Generations, Busy, NoRows, HasRow
  <1>3. Handleless'
    BY <1>1 DEF Handleless, HasRow, NoCopy
  <1>4. Downwards' /\ Remaining' /\ Copying' /\ Synced' /\ CommittedMatches'
    BY <1>1 DEF Downwards, Remaining, Copying, Busy, Synced, CommittedMatches
  <1>5. Faithful'
    <2> SUFFICES ASSUME scan.committed PROVE \A p \in Paths : HasRow(p) => Tells(p)'
      BY <1>1 DEF Faithful, Busy, HasRow
    <2>1. dest' = dest
      BY DEF Generations, Busy
    <2> QED
      BY <2>1 DEF Faithful, Tells
  <1>6. Accounted'
    BY DEF Accounted, HasRow
  <1> QED
    BY <1>2, <1>3, <1>4, <1>5, <1>6

LEMMA EndsPlain == ASSUME PlainInv, BarrierFails \/ PhaseBEnds \/ CompleteFails \/ Crash PROVE Plain'
  <1> USE DEF store, catalogue, options, Fault
  <1> DEFINE none == [p \in Paths |-> NoCopy]
  <1>0. \A p \in Paths : none[p] = NoCopy
    OBVIOUS
  <1> HIDE DEF none
  <1>1. CASE BarrierFails \/ (PhaseBEnds /\ run.failed)
    <2>1. ~synced /\ run.step # "idle"
      BY <1>1 DEF BarrierFails, PhaseAOver, PhaseBEnds, PhaseBOver, PlainInv, Plain, Synced
    <2> QED
      BY <1>0, <1>1, <2>1, AbandonPlain DEF BarrierFails, PhaseBEnds, Abandon, Unrecorded, none
  <1>2. CASE PhaseBEnds /\ ~run.failed
    <2>1. run.unseen = {} /\ \A p \in Paths : todo[p] = NoCopy
      BY <1>2 DEF PhaseBEnds, PhaseBOver, PlainInv, Plain, Generations, IInv, Stepwise
    <2> QED
      BY <1>2, <2>1, ClosePlain DEF PhaseBEnds, PhaseBOver, Busy
  <1>3. CASE CompleteFails
    BY <1>0, <1>3, AbandonPlain DEF CompleteFails, Abandon, Unrecorded, none
  <1>4. CASE Crash
    <2>1. dest' = dest \/ run.step = "copy"
      BY <1>4 DEF Crash, Ready
    <2> QED
      BY <1>0, <1>4, <2>1, AbandonPlain DEF Crash, none
  <1> QED
    BY <1>1, <1>2, <1>3, <1>4

\* A commit: the rows are those of this run, and what they tell is there.
LEMMA CompletePlain == ASSUME PlainInv, Complete PROVE Plain'
  <1> USE DEF PlainInv, Plain, store, options
  <1>1. /\ run.step = "close" /\ run' = Idle
        /\ scan' = [scan EXCEPT !.gen = run.working, !.committed = TRUE, !.copying = FALSE]
        /\ UNCHANGED <<reserved, source, dest, base, stale, todo, acks, plan, quiet, outrun>>
        /\ orphans' = IF quiet THEN orphans ELSE orphans \cup Unrecorded
    BY DEF Complete
  <1>2. /\ run'.step = "idle" /\ ~run'.failed /\ run'.guess = {} /\ ~run'.full
        /\ run'.unseen = {} /\ ~run'.recovering
    BY <1>1 DEF Idle
  <1>3. /\ ~run.failed /\ run.unseen = {} /\ run.working = scan.gen /\ scan.tables = "ready"
        /\ acks = {} /\ \A p \in Paths : todo[p] = NoCopy
    BY <1>1 DEF Generations, Busy, IInv, Stepwise
  <1>4. /\ scan'.gen = scan.gen /\ scan'.committed /\ ~scan'.copying /\ scan'.tables = "ready"
        /\ scan' = [tables |-> scan'.tables, gen |-> scan'.gen,
                    committed |-> scan'.committed, copying |-> scan'.copying]
    BY <1>1, <1>3 DEF Generations
  <1>5. reserved => \A p \in Paths : HasRow(p) => base[p].g = run.working
    BY <1>1 DEF Remaining
  <1>6. ~skewed' /\ synced' = (quiet /\ reserved)
    BY DEF Complete, Handleless
  <1>7. reserved /\ quiet => \A p \in Paths : Here(p) => HasRow(p) /\ (dest[p] = source[p].v \/ p \in outrun)
    <2> SUFFICES ASSUME reserved, quiet, NEW p \in Paths, Here(p)
                 PROVE  HasRow(p) /\ (dest[p] = source[p].v \/ p \in outrun)
      OBVIOUS
    <2>1. Recorded(p) /\ (dest[p] = source[p].v \/ p \in outrun)
      BY <1>1, <1>3 DEF Copying, Busy
    <2>2. base[p].g = run.working /\ run.working \in {0, 1}
      BY <1>1, <1>3, <2>1 DEF Recorded, Generations
    <2> QED
      BY <2>1, <2>2 DEF HasRow, NoRow
  <1>8. Generations'
    BY <1>1, <1>2, <1>3, <1>4, <1>5 DEF Generations, Busy, NoRows, HasRow
  <1>9. Handleless'
    BY <1>1, <1>2, <1>6 DEF Handleless, HasRow
  <1>10. Downwards' /\ Remaining' /\ Copying'
    BY <1>2 DEF Downwards, Remaining, Copying, Busy
  <1>11. Faithful'
    <2> SUFFICES ASSUME NEW p \in Paths, HasRow(p) PROVE Tells(p)
      BY <1>1, <1>2 DEF Faithful, Busy, HasRow, Tells
    <2>1. run.recovering => reserved
      BY <1>1 DEF Generations, Busy, IInv, Stepwise
    <2>2. Settled(p)
      BY <1>1, <1>5, <2>1 DEF Settled
    <2> QED
      BY <1>1, <1>3, <2>2 DEF Faithful, Busy
  <1>12. Accounted'
    <2> SUFFICES ASSUME reserved, NEW p \in Paths, dest[p] # ABSENT PROVE HasRow(p) \/ p \in orphans'
      BY <1>1 DEF Accounted, HasRow
    <2> QED
      BY <1>1, <1>7 DEF Accounted, Unrecorded
  <1>13. Synced'
    BY <1>1, <1>2, <1>6 DEF Synced
  <1>14. CommittedMatches'
    <2> SUFFICES ASSUME reserved, quiet, NEW p \in Paths
                 PROVE  IF Here(p) THEN dest[p] = source[p].v \/ p \in outrun
                                   ELSE dest[p] = ABSENT \/ p \in orphans
      BY <1>1, <1>6 DEF CommittedMatches, Here
    <2>1. CASE Here(p)
      BY <1>7, <2>1
    <2>2. CASE ~Here(p)
      <3>1. ~HasRow(p)
        BY <1>1, <1>3, <1>5, <2>2 DEF Copying, Busy
      <3> QED
        BY <2>2, <3>1 DEF Accounted
    <2> QED
      BY <2>1, <2>2
  <1> QED
    BY <1>8, <1>9, <1>10, <1>11, <1>12, <1>13, <1>14

-----------------------------------------------------------------------------
(* The theorems on what a row tells.                                       *)

LEMMA InitCopies == Init => ICopy
  <1> SUFFICES ASSUME Init PROVE ICopy
    OBVIOUS
  <1> USE DEF Init
  <1>1. run.step = "idle" /\ ~run.failed /\ run.guess = {} /\ ~run.full /\ run.unseen = {} /\ ~run.recovering
    BY DEF Idle
  <1>2. Recording
    BY <1>1, LocalCopyAssumption DEF Recording, OneVersion, Undisturbed, IsCopy, NoCopy, Here, Nothing, Paths
  <1>3. ASSUME ~nfs PROVE Plain
    <2>1. Generations
      BY <1>1 DEF Generations, Busy, NoRows, HasRow, NoRow
    <2>2. Handleless
      BY <1>1, <1>3 DEF Handleless, HasRow, NoRow, NoCopy, Nothing
    <2>3. Downwards /\ Faithful /\ Remaining /\ Copying /\ Accounted /\ Synced /\ CommittedMatches
      BY <1>1 DEF Downwards, Faithful, Busy, Remaining, Copying, Accounted, Synced, CommittedMatches
    <2> QED
      BY <2>1, <2>2, <2>3 DEF Plain
  <1> QED
    BY <1>2, <1>3, InitInvariant DEF ICopy

LEMMA NextPlain == ASSUME PlainInv, [Next]_vars PROVE Plain'
  <1>0. Sound(source) /\ IInv'
    BY NextInvariant DEF Sound, PlainInv, Plain, Handleless, Recording, OneVersion, Here
  <1>1. ASSUME NEW p \in Paths, Create(p) \/ Write(p) \/ Erase(p) \/ \E q \in Paths : Move(p, q)
        PROVE  Plain'
    BY <1>0, <1>1, ChangesAreSound, ChangesPlain DEF PlainInv
  <1>2. CASE StartFull \/ StartIncremental \/ Initialize \/ NoStateRow \/ Rebase \/ MarkCopying
    BY <1>2, BeginsPlain, MarksPlain
  <1>3. ~Merge
    BY DEF Merge, PlainInv, Plain, Handleless
  <1>4. ASSUME NEW p \in Paths, Vanished(p) \/ ObserveFull(p) \/ Compare(p) \/ WalkFails(p)
        PROVE  Plain'
    BY <1>4, VanishedPlain, ListedPlain, WalkFailsPlain
  <1>5. ASSUME NEW p \in Paths, ReceiverCopies(p) \/ HandlerCopies(p) \/ DeleteSource(p) \/ CopyFails(p)
        PROVE  Plain'
    BY <1>5, CopiesPlain, DeleteSourcePlain, CopyFailsPlain
  <1>6. ASSUME NEW a \in acks, Flush(a) \/ FlushFails(a) PROVE Plain'
    BY <1>6, FlushedPlain
  <1>7. CASE FullCopied \/ Barrier \/ ApplyDelete \/ ApplyFails
    BY <1>7, FullCopiedPlain, BarrierPlain, ApplyDeletePlain, ApplyFailsPlain
  <1>8. ~ApplyRename
    BY NoRename
  <1>9. CASE BarrierFails \/ PhaseBEnds \/ Complete \/ CompleteFails \/ Crash
    BY <1>9, EndsPlain, CompletePlain
  <1>10. CASE UNCHANGED vars
    <2>1. UNCHANGED <<reserved, nfs, source, dest, base, stale, scan, run, todo, acks, plan,
                      quiet, synced, skewed, orphans, outrun>>
      BY <1>10 DEF vars, options, store, catalogue, work, history
    <2>2. Generations' /\ Handleless'
      BY <2>1 DEF PlainInv, Plain, Generations, NoRows, HasRow, Here, Busy, Recovering, Handleless
    <2>3. Downwards' /\ Faithful'
      BY <2>1 DEF PlainInv, Plain, Downwards, Known, Pending, Faithful, Settled, Tells, HasRow, Busy
    <2>4. Remaining' /\ Copying'
      BY <2>1 DEF PlainInv, Plain, Remaining, Pending, Copying, Recorded, HasRow, Here, Busy
    <2>5. Accounted' /\ Synced' /\ CommittedMatches'
      BY <2>1 DEF PlainInv, Plain, Accounted, Synced, CommittedMatches, HasRow, Here, Busy
    <2> QED
      BY <2>2, <2>3, <2>4, <2>5 DEF Plain
  <1> QED
    BY <1>1, <1>2, <1>3, <1>4, <1>5, <1>6, <1>7, <1>8, <1>9, <1>10 DEF Next

\* Whether the source has handles never changes.
LEMMA HandlesStay == [Next]_vars => nfs' = nfs
  <1> SUFFICES ASSUME [Next]_vars PROVE nfs' = nfs
    OBVIOUS
  <1> USE DEF options, Starts, Change, Copied
  <1>1. ASSUME NEW p \in Paths, Create(p) \/ Write(p) \/ Erase(p) \/ \E q \in Paths : Move(p, q)
        PROVE  nfs' = nfs
    BY <1>1 DEF Create, Write, Erase, Move
  <1>2. CASE StartFull \/ StartIncremental \/ Initialize \/ NoStateRow \/ Rebase \/ MarkCopying \/ Merge
    BY <1>2 DEF StartFull, StartIncremental, Initialize, NoStateRow, Rebase, MarkCopying, Merge
  <1>3. ASSUME NEW p \in Paths,
               \/ Vanished(p) \/ ObserveFull(p) \/ Compare(p) \/ WalkFails(p)
               \/ ReceiverCopies(p) \/ HandlerCopies(p) \/ DeleteSource(p) \/ CopyFails(p)
        PROVE  nfs' = nfs
    BY <1>3 DEF Vanished, ObserveFull, Compare, WalkFails, ReceiverCopies, HandlerCopies, DeleteSource, CopyFails
  <1>4. ASSUME NEW a \in acks, Flush(a) \/ FlushFails(a) PROVE nfs' = nfs
    BY <1>4 DEF Flush, FlushFails
  <1>5. CASE FullCopied \/ Barrier \/ BarrierFails \/ ApplyDelete \/ ApplyRename \/ ApplyFails \/ PhaseBEnds
    BY <1>5 DEF FullCopied, Barrier, BarrierFails, ApplyDelete, ApplyRename, ApplyFails, PhaseBEnds
  <1>6. CASE Complete \/ CompleteFails \/ Crash
    BY <1>6 DEF Complete, CompleteFails, Crash
  <1>7. CASE UNCHANGED vars
    BY <1>7 DEF vars
  <1> QED
    BY <1>1, <1>2, <1>3, <1>4, <1>5, <1>6, <1>7 DEF Next

LEMMA NextCopies == ICopy /\ [Next]_vars => ICopy'
  <1> SUFFICES ASSUME ICopy, [Next]_vars PROVE ICopy'
    OBVIOUS
  <1>1. IInv' /\ nfs' = nfs
    BY NextInvariant, HandlesStay DEF ICopy
  <1>2. ~nfs => \A p \in Paths : source[p].h = 0
    BY DEF ICopy, Plain, Handleless
  <1>3. Recording'
    BY <1>2, NextRecords DEF ICopy
  <1>4. ~nfs => Plain'
    BY NextPlain DEF ICopy, PlainInv
  <1> QED
    BY <1>1, <1>3, <1>4 DEF ICopy

\* In every state of a job, a quiet run lists, copies and records each path
\* once and as it is; and where the source has no handles, the rows are of the
\* generation their run works on, tell what the destination has, and are all
\* there is to delete for what the source no longer has.
THEOREM CopyRecordsInvariant == Spec => []ICopy
  BY InitCopies, NextCopies, PTL DEF Spec

\* A run of a copy job that commits on a quiet source (complete of
\* orchestrator.rs, after the barrier and phase B) leaves the destination with
\* what the source has, where paths are all there is to compare by.
THEOREM CommittedMatchesByPath == Spec => [](~nfs => CommittedMatches)
  <1>1. ICopy => (~nfs => CommittedMatches)
    BY DEF ICopy, Plain
  <1> QED
    BY <1>1, CopyRecordsInvariant, PTL

\* Between runs the catalogue never makes the next one (classify_batch) skip a
\* copy that is missing, where paths are all there is to compare by.
THEOREM SkipsAreCopiedByPath == Spec => [](~nfs => SkipsAreCopied)
  <1>1. ICopy => (~nfs => SkipsAreCopied)
    BY DEF ICopy, Plain, Faithful, Tells, SkipsAreCopied
  <1> QED
    BY <1>1, CopyRecordsInvariant, PTL

\* While the source is quiet the database consumer writes rows for nothing but
\* the copies that are at the destination, whatever handles the source reports.
RowsAreOfCopies == quiet /\ run.step = "copy" => \A a \in acks : dest[a.p] = a.v
THEOREM RowsAreOfCopiesAlways == Spec => []RowsAreOfCopies
  <1>1. ICopy => RowsAreOfCopies
    BY DEF ICopy, Recording, OneVersion, Undisturbed, RowsAreOfCopies
  <1> QED
    BY <1>1, CopyRecordsInvariant, PTL

=============================================================================
