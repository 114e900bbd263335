-------------------------- MODULE RemoteTreeProofs --------------------------
(***************************************************************************)
(* What a synchronisation between two processes does to the destination,   *)
(* for any trees, builds, tokens, number of sessions and of faults: it     *)
(* loses nothing the source has, changes for no peer that was refused, the *)
(* checkpoint file names only what has arrived, and when both sides end    *)
(* without an error the destination is the source.                         *)
(***************************************************************************)
EXTENDS RemoteTree, SequenceTheorems, FiniteSetTheorems, TLAPS

IsSeq(q) == q \in Seq(Range(q))

\* The two processes' records, and the streams.
IsSender(x) ==
    x = [pc |-> x.pc, todo |-> x.todo, listed |-> x.listed, doneSent |-> x.doneSent,
         allDone |-> x.allDone, completed |-> x.completed, successes |-> x.successes,
         errors |-> x.errors, saving |-> x.saving]
IsReceiver(x) ==
    x = [pc |-> x.pc, requested |-> x.requested, completed |-> x.completed,
         doneSeen |-> x.doneSeen, dirs |-> x.dirs, features |-> x.features,
         unrestored |-> x.unrestored]
IsWire(w, n) == w = [i \in 1..n |-> w[i]] /\ \A i \in 1..n : IsSeq(w[i])

Shape ==
    /\ IsSender(s) /\ IsReceiver(r) /\ accepted \in Nat
    /\ IsWire(wire, 3) /\ IsWire(back, 4) /\ IsSeq(dc) /\ IsSeq(acks)

\* What is a file of the source, and what has arrived of it.
InSource(p) == p \in Paths /\ src[p].kind = "file"
Done(p) == InSource(p) /\ dest[p].kind = "file" /\ dest[p].data = src[p].data

\* Both ends hold trees, and the directories whose metadata is still to be
\* restored are there.
Trees ==
    /\ IsTree(src) /\ IsTree(dest)
    /\ r.dirs \subseteq {p \in Paths : src[p].kind = "dir" /\ dest[p].kind = "dir"}

\* What the sender says is true of its build, its token and its tree.
FromSource(m) ==
    /\ m.t = "handshake" => m.build = peer.build
    /\ m.t = "auth" => m.token = peer.token
    /\ m.t = "page" => m = PageOf(m.dir) /\ IsDir(src, m.dir)
    /\ m.t \in {"data", "setAcl"} => InSource(m.path)
Sent == \A i \in 1..3 : \A m \in Range(wire[i]) : FromSource(m)

\* A page that misses entries comes behind the error that says so, which ends
\* the session.
Whole(m) == m.t = "page" => \A p \in Children(m.dir) \cap blind : src[p] = ABSENT
Announced(q) ==
    \A i \in 1..Len(q) : Whole(q[i]) \/ \E j \in 1..(i - 1) : q[j].t = "listError"
Listens == accepted = 0 \/ r.pc \in {"connect", "handshake", "auth", "config", "loop"}
Announcing == Listens => Announced(wire[2])

\* What the receiver says is true of its destination.
FromDest(m) ==
    /\ m.t = "request" => InSource(m.path)
    /\ m.t = "success" => Done(m.path)
Replied == \A i \in 1..4 : \A m \in Range(back[i]) : FromDest(m)

Outcomes ==
    /\ \A p \in Range(dc) : InSource(p)
    /\ \A a \in Range(acks) : a.ok => Done(a.path)
    /\ \A p \in s.completed : Done(p)
    /\ saved # TORN => \A p \in saved : Done(p)

\* Only a peer that was let in gets past the configuration.
Compatible == Negotiate(peer.local, peer.build).ok
Permitted == Compatible /\ peer.expected \in {"any", peer.token}
Admitted ==
    /\ r.pc = "auth" => Compatible
    /\ r.pc \in {"config", "loop", "shutdown", "abort"} \/ dc # <<>> => Permitted

IInv == Shape /\ Trees /\ Sent /\ Announcing /\ Replied /\ Outcomes /\ Admitted

-----------------------------------------------------------------------------
(* Sequences.                                                              *)

LEMMA ElementsOf == ASSUME NEW S, NEW q \in Seq(S) PROVE IsSeq(q) /\ Range(q) \subseteq S
  <1>1. Len(q) \in Nat /\ DOMAIN q = 1..Len(q)
    OBVIOUS
  <1>2. \A i \in 1..Len(q) : q[i] \in Range(q) /\ q[i] \in S
    BY <1>1 DEF Range
  <1>3. q \in Seq(Range(q))
    BY <1>1, <1>2, SubSeqFull, SubSeqProperties
  <1>4. Range(q) \subseteq S
    BY <1>1, <1>2 DEF Range
  <1> QED
    BY <1>3, <1>4 DEF IsSeq

LEMMA ElementAt == ASSUME NEW q, IsSeq(q), NEW i \in 1..Len(q) PROVE q[i] \in Range(q)
  BY DEF IsSeq

LEMMA TailIsSeq ==
    ASSUME NEW q, IsSeq(q), q # <<>>
    PROVE  /\ IsSeq(Tail(q)) /\ Range(Tail(q)) \subseteq Range(q)
           /\ Head(q) \in Range(q) /\ Head(q) = q[1]
           /\ Len(q) \in Nat \ {0} /\ Len(Tail(q)) = Len(q) - 1
           /\ \A i \in 1..(Len(q) - 1) : Tail(q)[i] = q[i + 1]
  <1>1. q \in Seq(Range(q))
    BY DEF IsSeq
  <1>2. Tail(q) \in Seq(Range(q)) /\ Head(q) \in Range(q)
    BY <1>1
  <1>3. Head(q) = q[1] /\ Len(q) \in Nat \ {0} /\ Len(Tail(q)) = Len(q) - 1
    BY <1>1
  <1>4. \A i \in 1..(Len(q) - 1) : Tail(q)[i] = q[i + 1]
    BY <1>1
  <1> QED
    BY <1>2, <1>3, <1>4, ElementsOf

LEMMA ConcatIsSeq ==
    ASSUME NEW q, NEW u, IsSeq(q), IsSeq(u)
    PROVE  /\ IsSeq(q \o u) /\ Range(q \o u) \subseteq Range(q) \cup Range(u)
           /\ Len(q) \in Nat /\ Len(u) \in Nat /\ Len(q \o u) = Len(q) + Len(u)
           /\ \A i \in 1..Len(q) : (q \o u)[i] = q[i]
           /\ \A i \in 1..Len(u) : (q \o u)[Len(q) + i] = u[i]
  <1> DEFINE U == Range(q) \cup Range(u)
  <1>1. q \in Seq(U) /\ u \in Seq(U)
    BY DEF IsSeq
  <1>2. q \o u \in Seq(U) /\ Len(q) \in Nat /\ Len(u) \in Nat /\ Len(q \o u) = Len(q) + Len(u)
    BY <1>1
  <1>3. /\ \A i \in 1..Len(q) : (q \o u)[i] = q[i]
        /\ \A i \in 1..Len(u) : (q \o u)[Len(q) + i] = u[i]
    BY <1>1
  <1> QED
    BY <1>2, <1>3, ElementsOf

LEMMA AppendIsSeq ==
    ASSUME NEW q, NEW m, IsSeq(q)
    PROVE  IsSeq(Append(q, m)) /\ Range(Append(q, m)) \subseteq Range(q) \cup {m}
  <1> DEFINE U == Range(q) \cup {m}
  <1>1. q \in Seq(U) /\ m \in U
    BY DEF IsSeq
  <1>2. Append(q, m) \in Seq(U)
    BY <1>1
  <1> QED
    BY <1>2, ElementsOf

LEMMA SetAsSeq ==
    ASSUME NEW S, IsFiniteSet(S)
    PROVE  IsSeq(SetToSeq(S)) /\ Range(SetToSeq(S)) \subseteq S
  <1>1. Cardinality(S) \in Nat /\ ExistsBijection(1..Cardinality(S), S)
    BY FS_CardinalityType
  <1>2. PICK f \in Bijection(1..Cardinality(S), S) : TRUE
    BY <1>1 DEF ExistsBijection
  <1>3. f \in [1..Cardinality(S) -> S] /\ IsInjective(f)
    BY <1>2 DEF Bijection, Injection, IsInjective
  <1>4. SetToSeq(S) \in [1..Cardinality(S) -> S]
    BY <1>3 DEF SetToSeq
  <1>5. SetToSeq(S) \in Seq(S)
    BY <1>1, <1>4, SeqDef
  <1> QED
    BY <1>5, ElementsOf

-----------------------------------------------------------------------------
(* Paths.                                                                  *)

LEMMA UnderItself == ASSUME NEW d \in Paths PROVE d \in Under[d] /\ Under[d] \subseteq Paths
  BY DEF Under

LEMMA UnderGrows == ASSUME NEW d \in Paths, NEW q \in Paths, Parent[q] \in Under[d] PROVE q \in Under[d]
  BY DEF Under

\* Induction downwards: what holds of d, and of every path whose directory it
\* holds of, holds of all that is below d.
LEMMA UnderLeast ==
    ASSUME NEW d \in Paths, NEW t \in SUBSET Paths, d \in t, \A q \in Paths : Parent[q] \in t => q \in t
    PROVE  Under[d] \subseteq t
  BY DEF Under

LEMMA UnderParent ==
    ASSUME NEW d \in Paths, NEW p \in Under[d], p # d
    PROVE  Parent[p] \in Under[d]
  <1> DEFINE t == {q \in Under[d] : q = d \/ Parent[q] \in Under[d]}
  <1>1. t \in SUBSET Paths /\ d \in t
    BY UnderItself
  <1>2. \A q \in Paths : Parent[q] \in t => q \in t
    BY UnderGrows
  <1>3. Under[d] \subseteq t
    BY <1>1, <1>2, UnderLeast
  <1> QED
    BY <1>3

LEMMA AboveItself == ASSUME NEW p \in Paths PROVE p \in Above[p] /\ Above[p] \subseteq Paths
  BY UnderItself DEF Above

LEMMA AboveParent ==
    ASSUME NEW p \in Paths, NEW d \in Above[p], Parent[d] \in Paths
    PROVE  Parent[d] \in Above[p]
  <1>1. d \in Paths /\ p \in Under[d]
    BY DEF Above
  <1>2. d \in Under[Parent[d]]
    BY <1>1, UnderItself, UnderGrows
  <1>3. Under[d] \subseteq Under[Parent[d]]
    BY <1>1, <1>2, UnderItself, UnderGrows, UnderLeast
  <1> QED
    BY <1>1, <1>3 DEF Above

\* Every path is below the root, so none is above its own directory.
LEMMA NoCycle == \A p \in Paths : Parent[p] \notin Under[p]
  <1> DEFINE t == {p \in Paths : Parent[p] \notin Under[p]}
  <1>1. ASSUME NEW p \in Paths, Parent[p] \in t \cup {ROOT} PROVE Parent[p] \notin Under[p]
    <2>1. CASE Parent[p] = ROOT
      BY <2>1, UnderItself, RemoteTreeAssumption
    <2>2. CASE Parent[p] \in t
      <3> SUFFICES ASSUME Parent[p] \in Under[p] PROVE FALSE
        OBVIOUS
      <3>1. Parent[p] \in Paths /\ Parent[Parent[p]] \notin Under[Parent[p]]
        BY <2>2
      <3>2. Parent[p] # p
        BY <3>1
      <3>3. Parent[Parent[p]] \in Under[p]
        BY <3>2, UnderParent
      <3>4. p \in Under[Parent[p]]
        BY <3>1, UnderItself, UnderGrows
      <3>5. Under[p] \subseteq Under[Parent[p]]
        BY <3>1, <3>4, UnderItself, UnderGrows, UnderLeast
      <3> QED
        BY <3>1, <3>3, <3>5
    <2> QED
      BY <1>1, <2>1, <2>2
  <1>2. t = Paths
    BY <1>1, RemoteTreeAssumption
  <1> QED
    BY <1>2

-----------------------------------------------------------------------------
(* Trees.  Creating, replacing and removing leaves a tree.                 *)

LEMMA NodeKinds ==
    ASSUME NEW t, IsTree(t), NEW p \in Paths
    PROVE  /\ t[p] \in Node /\ (t[p].kind = "absent" <=> t[p] = ABSENT)
           /\ t[p].kind \in {"absent", "file", "dir", "part"}
  BY DEF IsTree, Node, ABSENT

LEMMA NodeUpdates ==
    ASSUME NEW n \in Node, n # ABSENT, NEW m \in Nat
    PROVE  /\ [n EXCEPT !.meta = m] \in Node /\ [n EXCEPT !.acl = TRUE] \in Node /\ [n EXCEPT !.acl = FALSE] \in Node
           /\ [n EXCEPT !.meta = m].kind = n.kind /\ [n EXCEPT !.acl = TRUE].kind = n.kind
           /\ [n EXCEPT !.meta = m].data = n.data /\ [n EXCEPT !.acl = TRUE].data = n.data
           /\ [n EXCEPT !.acl = FALSE].kind = n.kind /\ [n EXCEPT !.acl = FALSE].data = n.data
  BY DEF Node, ABSENT

LEMMA NewDirIsDir == NewDir \in Node /\ NewDir.kind = "dir" /\ NewDir # ABSENT /\ ABSENT \in Node /\ ABSENT.kind = "absent"
  BY DEF NewDir, Node, ABSENT, TOUCHED

\* What Put leaves where it puts nothing.
LEMMA PutElsewhere ==
    ASSUME NEW t, IsTree(t), NEW ps \in SUBSET Paths, NEW n \in Node
    PROVE  /\ Put(t, ps, n) \in [Paths -> Node]
           /\ \A q \in ps : Put(t, ps, n)[q] = n
           /\ \A q \in Paths \ ps : /\ Put(t, ps, n)[q].kind = t[q].kind
                                    /\ Put(t, ps, n)[q].data = t[q].data
  <1> DEFINE u == Put(t, ps, n)
  <1>1. \A q \in Paths : u[q] = IF q \in ps THEN n
                                ELSE IF t[q].kind = "dir" /\ \E p \in ps : Parent[p] = q
                                THEN [t[q] EXCEPT !.meta = TOUCHED] ELSE t[q]
    BY DEF Put
  <1>2. u = [q \in Paths |-> u[q]]
    BY DEF Put
  <1> HIDE DEF u
  <1>3. ASSUME NEW q \in Paths \ ps
        PROVE  u[q] \in Node /\ u[q].kind = t[q].kind /\ u[q].data = t[q].data
    <2>1. CASE t[q].kind = "dir" /\ \E p \in ps : Parent[p] = q
      <3>1. t[q] \in Node /\ t[q] # ABSENT
        BY <2>1, NodeKinds, NewDirIsDir
      <3>2. u[q] = [t[q] EXCEPT !.meta = TOUCHED] /\ TOUCHED \in Nat
        BY <1>1, <2>1 DEF TOUCHED
      <3>3. PICK m \in Node : m = t[q] /\ m # ABSENT
        BY <3>1
      <3>4. [m EXCEPT !.meta = TOUCHED] \in Node /\ [m EXCEPT !.meta = TOUCHED].kind = m.kind /\ [m EXCEPT !.meta = TOUCHED].data = m.data
        BY <3>2, <3>3, NodeUpdates
      <3> QED
        BY <3>2, <3>3, <3>4
    <2>2. CASE ~(t[q].kind = "dir" /\ \E p \in ps : Parent[p] = q)
      BY <1>1, <2>2, NodeKinds
    <2> QED
      BY <2>1, <2>2
  <1>4. u \in [Paths -> Node]
    BY <1>1, <1>2, <1>3
  <1> QED
    BY <1>1, <1>3, <1>4 DEF u

LEMMA DirsMade ==
    ASSUME NEW t, IsTree(t), NEW made \in SUBSET Paths,
           \A p \in made : \A d \in Above[p] : t[d].kind \in {"absent", "dir"}
    PROVE  /\ IsTree(AfterDirs(t, made))
           /\ \A p \in Paths : t[p] # ABSENT => /\ AfterDirs(t, made)[p].kind = t[p].kind
                                                /\ AfterDirs(t, made)[p].data = t[p].data
           /\ \A p \in made : AfterDirs(t, made)[p].kind = "dir"
  <1> DEFINE ps == {d \in UNION {Above[p] : p \in made} : t[d] = ABSENT}
             u == AfterDirs(t, made)
  <1>1. ps \in SUBSET Paths /\ u = Put(t, ps, NewDir)
    BY AboveItself DEF AfterDirs
  <1>2. /\ u \in [Paths -> Node] /\ \A q \in ps : u[q] = NewDir
        /\ \A q \in Paths \ ps : u[q].kind = t[q].kind /\ u[q].data = t[q].data
    <2> HIDE DEF ps, u
    <2> QED
      BY <1>1, PutElsewhere, NewDirIsDir
  <1>3. \A d : (\E p \in made : d \in Above[p]) => u[d].kind = "dir"
    <2> SUFFICES ASSUME NEW d, NEW p \in made, d \in Above[p] PROVE u[d].kind = "dir"
      OBVIOUS
    <2>1. d \in Paths /\ t[d].kind \in {"absent", "dir"}
      BY AboveItself
    <2>2. CASE t[d] = ABSENT
      BY <1>2, <2>2, NewDirIsDir
    <2>3. CASE t[d] # ABSENT
      BY <1>2, <2>1, <2>3, NodeKinds
    <2> QED
      BY <2>2, <2>3
  <1>4. \A d \in ps : \E p \in made : d \in Above[p]
    OBVIOUS
  <1>5. \A d \in ps : t[d] = ABSENT
    OBVIOUS
  <1> HIDE DEF ps, u
  <1>6. ASSUME NEW q \in Paths, u[q] # ABSENT PROVE IsDir(u, Parent[q])
    <2>1. CASE q \in ps
      <3>1. PICK p \in made : q \in Above[p]
        BY <1>4, <2>1
      <3>2. Parent[q] = ROOT \/ Parent[q] \in Above[p]
        BY <3>1, AboveParent, RemoteTreeAssumption
      <3> QED
        BY <1>3, <3>2 DEF IsDir
    <2>2. CASE q \notin ps
      <3>1. u[q].kind = t[q].kind
        BY <1>2, <2>2
      <3>2. t[q] # ABSENT
        BY <1>2, <1>6, <3>1, NodeKinds, NewDirIsDir DEF Node, ABSENT
      <3>3. IsDir(t, Parent[q])
        BY <3>2 DEF IsTree
      <3>4. Parent[q] # ROOT => Parent[q] \in Paths \ ps
        BY <1>5, <3>3, RemoteTreeAssumption, NewDirIsDir DEF IsDir
      <3> QED
        BY <1>2, <3>3, <3>4 DEF IsDir
    <2> QED
      BY <2>1, <2>2
  <1>7. IsTree(u)
    BY <1>2, <1>6 DEF IsTree
  <1>8. \A p \in made : u[p].kind = "dir"
    BY <1>3, AboveItself
  <1>9. \A p \in Paths : t[p] # ABSENT => u[p].kind = t[p].kind /\ u[p].data = t[p].data
    BY <1>2, <1>5
  <1> QED
    BY <1>7, <1>8, <1>9 DEF u

LEMMA TreesRemoved ==
    ASSUME NEW t, IsTree(t), NEW gone \in SUBSET Paths, NEW left,
           \A q \in left : q \in gone \/ Parent[q] \in left,
           \A q \in gone : \A g \in gone : Parent[q] \notin Under[g]
    PROVE  /\ IsTree(AfterDeletes(t, gone, left))
           /\ \A p \in Paths : ~(\E q \in gone : p \in Under[q]) =>
                 /\ AfterDeletes(t, gone, left)[p].kind = t[p].kind
                 /\ AfterDeletes(t, gone, left)[p].data = t[p].data
  <1> DEFINE ps == (UNION {Under[q] : q \in gone}) \ left
             u == AfterDeletes(t, gone, left)
  <1>1. ps \in SUBSET Paths /\ u = Put(t, ps, ABSENT)
    BY UnderItself DEF AfterDeletes
  <1>2. /\ u \in [Paths -> Node] /\ \A q \in ps : u[q] = ABSENT
        /\ \A q \in Paths \ ps : u[q].kind = t[q].kind /\ u[q].data = t[q].data
    <2> HIDE DEF ps, u
    <2>1. ABSENT \in Node /\ ps \in SUBSET Paths
      BY <1>1, NewDirIsDir
    <2>2. /\ Put(t, ps, ABSENT) \in [Paths -> Node] /\ \A q \in ps : Put(t, ps, ABSENT)[q] = ABSENT
          /\ \A q \in Paths \ ps : /\ Put(t, ps, ABSENT)[q].kind = t[q].kind
                                   /\ Put(t, ps, ABSENT)[q].data = t[q].data
      BY <2>1, PutElsewhere
    <2> QED
      BY <1>1, <2>2
  <1>3. \A p \in Paths : p \in ps <=> p \notin left /\ \E q \in gone : p \in Under[q]
    OBVIOUS
  <1>4. \A q \in Paths : Parent[q] \in ps => q \in ps
    <2> SUFFICES ASSUME NEW q \in Paths, Parent[q] \in ps PROVE q \in ps
      OBVIOUS
    <2>1. PICK g \in gone : Parent[q] \in Under[g] /\ Parent[q] \notin left
      OBVIOUS
    <2>2. q \in Under[g]
      BY <2>1, UnderGrows
    <2>3. q \notin left
      BY <2>1
    <2> QED
      BY <2>2, <2>3
  <1> HIDE DEF ps, u
  <1>5. ASSUME NEW q \in Paths, u[q] # ABSENT PROVE IsDir(u, Parent[q])
    <2>1. q \notin ps /\ Parent[q] \notin ps
      BY <1>2, <1>4, <1>5
    <2>2. t[q] # ABSENT
      BY <1>2, <1>5, <2>1 DEF Node, ABSENT
    <2>3. IsDir(t, Parent[q])
      BY <2>2 DEF IsTree
    <2> QED
      BY <1>2, <2>1, <2>3, RemoteTreeAssumption DEF IsDir
  <1>6. IsTree(u)
    BY <1>2, <1>5 DEF IsTree
  <1>7. \A p \in Paths : ~(\E q \in gone : p \in Under[q]) => u[p].kind = t[p].kind /\ u[p].data = t[p].data
    BY <1>2, <1>3
  <1> QED
    BY <1>6, <1>7 DEF u

\* One entry of another kind or version than a directory.
LEMMA FilePut ==
    ASSUME NEW t, IsTree(t), NEW p \in Paths, t[p].kind # "dir", IsDir(t, Parent[p]),
           NEW n \in Node
    PROVE  /\ IsTree(Put(t, {p}, n)) /\ Put(t, {p}, n)[p] = n
           /\ \A q \in Paths \ {p} : Put(t, {p}, n)[q].kind = t[q].kind /\ Put(t, {p}, n)[q].data = t[q].data
  <1> DEFINE u == Put(t, {p}, n)
  <1>1. /\ u \in [Paths -> Node] /\ u[p] = n
        /\ \A q \in Paths \ {p} : u[q].kind = t[q].kind /\ u[q].data = t[q].data
    BY PutElsewhere
  <1> HIDE DEF u
  <1>2. ASSUME NEW q \in Paths, u[q] # ABSENT PROVE IsDir(u, Parent[q])
    <2>1. CASE q = p
      <3>1. Parent[p] # p
        BY RemoteTreeAssumption DEF IsDir
      <3> QED
        BY <1>1, <2>1, <3>1, RemoteTreeAssumption DEF IsDir
    <2>2. CASE q # p
      <3>1. t[q] # ABSENT
        BY <1>1, <1>2, <2>2 DEF Node, ABSENT
      <3>2. IsDir(t, Parent[q])
        BY <3>1 DEF IsTree
      <3>3. Parent[q] # p
        BY <3>2, RemoteTreeAssumption DEF IsDir
      <3> QED
        BY <1>1, <3>2, <3>3, RemoteTreeAssumption DEF IsDir
    <2> QED
      BY <2>1, <2>2
  <1>3. IsTree(u)
    BY <1>1, <1>2 DEF IsTree
  <1> QED
    BY <1>1, <1>3 DEF u

\* Entries change in metadata only.
LEMMA SameKinds ==
    ASSUME NEW t, IsTree(t), NEW u \in [Paths -> Node], \A p \in Paths : u[p].kind = t[p].kind
    PROVE  IsTree(u)
  <1>1. ASSUME NEW p \in Paths, u[p] # ABSENT PROVE IsDir(u, Parent[p])
    <2>1. t[p] # ABSENT
      BY <1>1 DEF Node, ABSENT
    <2>2. IsDir(t, Parent[p])
      BY <2>1 DEF IsTree
    <2> QED
      BY <2>2, RemoteTreeAssumption DEF IsDir
  <1> QED
    BY <1>1 DEF IsTree

-----------------------------------------------------------------------------
(* What a step may do to the destination.                                  *)

LosesOnlyGone ==
    \A p \in Paths : dest[p] # ABSENT /\ dest'[p] = ABSENT =>
        /\ IF dest[p].kind = "dir" THEN src[p].kind # "dir" ELSE src[p].kind # "file"
        /\ dest[p].kind = "part" => Parent[p] # ROOT /\ src[Parent[p]].kind # "dir"

DestStep ==
    /\ IsTree(dest')
    /\ \A p \in Paths : Done(p) => dest'[p].kind = "file" /\ dest'[p].data = src[p].data
    /\ \A p \in Paths : src[p].kind = "dir" /\ dest[p].kind = "dir" => dest'[p].kind = "dir"
    /\ LosesOnlyGone

LEMMA MetadataStep ==
    ASSUME IsTree(dest), dest' \in [Paths -> Node],
           \A p \in Paths : dest'[p].kind = dest[p].kind /\ dest'[p].data = dest[p].data
    PROVE  DestStep
  <1>1. IsTree(dest')
    BY SameKinds
  <1>2. \A p \in Paths : dest'[p] = ABSENT => dest[p] = ABSENT
    BY NodeKinds DEF ABSENT
  <1> QED
    BY <1>1, <1>2 DEF DestStep, LosesOnlyGone, Done

\* What a page of the whole directory takes for an orphan is nothing of the source.
LEMMA OrphansAreGone ==
    ASSUME IsTree(src), IsTree(dest), NEW m, m = PageOf(m.dir), IsDir(src, m.dir), m.t = "page", Whole(m),
           NEW q \in Orphans(m), NEW p \in Under[q], dest[p] # ABSENT
    PROVE  /\ IF dest[p].kind = "dir" THEN src[p].kind # "dir" ELSE src[p].kind # "file"
           /\ dest[p].kind = "part" => Parent[p] # ROOT /\ src[Parent[p]].kind # "dir"
  <1>1. /\ q \in Paths /\ q \in Children(m.dir) /\ dest[q] # ABSENT /\ dest[q].kind # "part"
        /\ IF dest[q].kind = "dir" THEN q \notin m.subdirs ELSE q \notin m.files
    BY DEF Orphans, Children
  <1>2. /\ m.files = {x \in Children(m.dir) \ blind : src[x].kind = "file"}
        /\ m.subdirs = {x \in Children(m.dir) \ blind : src[x].kind = "dir"}
    BY DEF PageOf
  <1>3. q \in blind => src[q].kind = "absent"
    BY <1>1 DEF Whole, ABSENT
  <1>4. Under[q] \subseteq Paths
    BY <1>1, UnderItself
  <1>5. CASE dest[q].kind = "dir"
    <2>1. src[q].kind # "dir"
      BY <1>1, <1>2, <1>3, <1>5
    <2> DEFINE t == {x \in Paths : x = q \/ src[x] = ABSENT}
    <2>2. \A x \in Paths : Parent[x] \in t => x \in t
      <3> SUFFICES ASSUME NEW x \in Paths, Parent[x] \in t, src[x] # ABSENT PROVE FALSE
        OBVIOUS
      <3>1. Parent[x] # ROOT /\ src[Parent[x]].kind # "dir"
        BY <2>1, RemoteTreeAssumption, NewDirIsDir
      <3> QED
        BY <3>1 DEF IsTree, IsDir
    <2>3. Under[q] \subseteq t
      BY <1>1, <2>2, UnderLeast
    <2>4. p # q => Parent[p] \in Under[q]
      BY <1>1, UnderParent
    <2>5. dest[p].kind = "part" => Parent[p] # ROOT /\ src[Parent[p]].kind # "dir"
      BY <1>4, <1>5, <2>1, <2>3, <2>4, RemoteTreeAssumption, NewDirIsDir
    <2> QED
      BY <1>1, <1>5, <2>1, <2>3, <2>5 DEF ABSENT
  <1>6. CASE dest[q].kind # "dir"
    <2>1. dest[q].kind = "file"
      BY <1>1, <1>6, NodeKinds
    <2>2. src[q].kind # "file"
      BY <1>1, <1>2, <1>3, <1>6
    <2> DEFINE t == {x \in Paths : x = q \/ dest[x] = ABSENT}
    <2>3. \A x \in Paths : Parent[x] \in t => x \in t
      <3> SUFFICES ASSUME NEW x \in Paths, Parent[x] \in t, dest[x] # ABSENT PROVE FALSE
        OBVIOUS
      <3>1. Parent[x] # ROOT /\ dest[Parent[x]].kind # "dir"
        BY <2>1, RemoteTreeAssumption, NewDirIsDir
      <3> QED
        BY <3>1 DEF IsTree, IsDir
    <2>4. Under[q] \subseteq t
      BY <1>1, <2>3, UnderLeast
    <2>5. p = q
      BY <2>4
    <2> QED
      BY <2>1, <2>2, <2>5
  <1> QED
    BY <1>5, <1>6

\* Nor does the page's own directory, or one it has just created, go with them.
LEMMA PageKeepsItsOwn ==
    ASSUME IsTree(src), IsTree(dest), NEW m, m = PageOf(m.dir), IsDir(src, m.dir), m.t = "page", Whole(m),
           NEW q \in Orphans(m)
    PROVE  /\ m.dir \notin Under[q]
           /\ \A p \in m.subdirs : Creatable(p) => p \notin Under[q]
  <1>1. q \in Paths /\ Parent[q] = m.dir /\ dest[q] # ABSENT
    BY DEF Orphans, Children
  <1>2. m.dir \notin Under[q]
    <2> SUFFICES ASSUME m.dir \in Under[q] PROVE FALSE
      OBVIOUS
    <2>1. m.dir \in Paths /\ m.dir # ROOT
      BY <1>1, UnderItself, RemoteTreeAssumption
    <2>2. src[m.dir].kind = "dir" /\ dest[m.dir].kind = "dir"
      BY <1>1, <2>1 DEF IsTree, IsDir
    <2>3. dest[m.dir] # ABSENT
      BY <2>2, NewDirIsDir
    <2> QED
      BY <2>2, <2>3, OrphansAreGone
  <1>3. ASSUME NEW p \in m.subdirs, Creatable(p) PROVE p \notin Under[q]
    <2>1. p \in Paths /\ Parent[p] = m.dir /\ src[p].kind = "dir"
      BY DEF PageOf, Children
    <2>2. dest[p].kind \in {"absent", "dir"}
      BY <1>3, <2>1, AboveItself DEF Creatable
    <2>3. p # q
      <3> SUFFICES ASSUME p = q PROVE FALSE
        OBVIOUS
      <3>1. dest[p].kind = "dir" /\ p \in Under[q]
        BY <1>1, <2>1, <2>2, NodeKinds, UnderItself
      <3> QED
        BY <1>1, <2>1, <3>1, OrphansAreGone
    <2> QED
      BY <1>2, <2>1, <2>3, UnderParent, <1>1
  <1> QED
    BY <1>2, <1>3

LEMMA PageEffect ==
    ASSUME IsTree(src), IsTree(dest), NEW m, m = PageOf(m.dir), IsDir(src, m.dir), m.t = "page", Whole(m),
           NEW left, \A q \in left : q \in Orphans(m) \/ Parent[q] \in left, NEW unset, RPage(m, left, unset)
    PROVE  /\ DestStep
           /\ \A p \in m.subdirs : /\ p \in Paths /\ src[p].kind = "dir"
                                   /\ Creatable(p) => dest'[p].kind = "dir"
  <1> DEFINE made == {p \in m.subdirs : Creatable(p)}
             gone == Orphans(m)
             t1 == AfterMetadata(m, unset)
             t2 == AfterDirs(t1, made)
             t3 == AfterDeletes(t2, gone, left)
  <1>1. dest' = t3
    BY DEF RPage
  <1>2. /\ m.files \subseteq Paths /\ \A p \in m.files : src[p].kind = "file"
        /\ m.subdirs \subseteq Paths /\ \A p \in m.subdirs : src[p].kind = "dir"
    BY DEF PageOf, Children
  <1>3. gone \in SUBSET Paths /\ made \in SUBSET Paths /\ gone \subseteq Orphans(m)
    BY <1>2 DEF Orphans, Children
  <1>4. /\ t1 \in [Paths -> Node]
        /\ \A p \in Paths : t1[p].kind = dest[p].kind /\ t1[p].data = dest[p].data
    <2>1. t1 = [p \in Paths |-> t1[p]]
      BY DEF AfterMetadata
    <2>2. ASSUME NEW p \in Paths
          PROVE  t1[p] \in Node /\ t1[p].kind = dest[p].kind /\ t1[p].data = dest[p].data
      <3>1. CASE p \in MetadataOnly(m) \ unset
        <4>1. t1[p] = [dest[p] EXCEPT !.meta = src[p].meta]
          BY <3>1 DEF AfterMetadata
        <4>2. dest[p].kind = "file"
          BY <3>1 DEF MetadataOnly, Check
        <4>3. dest[p] \in Node /\ dest[p] # ABSENT /\ src[p].meta \in Nat
          BY <4>2, NodeKinds DEF Node, ABSENT
        <4>4. PICK n \in Node, k \in Nat : n = dest[p] /\ k = src[p].meta /\ n # ABSENT
          BY <4>3
        <4>5. [n EXCEPT !.meta = k] \in Node /\ [n EXCEPT !.meta = k].kind = n.kind /\ [n EXCEPT !.meta = k].data = n.data
          BY <4>4, NodeUpdates
        <4> QED
          BY <4>1, <4>4, <4>5
      <3>2. CASE p \notin MetadataOnly(m) \ unset
        BY <3>2, NodeKinds DEF AfterMetadata
      <3> QED
        BY <3>1, <3>2
    <2> HIDE DEF t1
    <2> QED
      BY <2>1, <2>2
  <1>5. IsTree(t1)
    <2> HIDE DEF t1
    <2> QED
      BY <1>4, SameKinds
  <1>6. \A p \in made : \A d \in Above[p] : t1[d].kind \in {"absent", "dir"}
    <2> HIDE DEF t1
    <2> QED
      BY <1>3, <1>4, AboveItself DEF Creatable
  <1>7. /\ IsTree(t2)
        /\ \A p \in Paths : t1[p] # ABSENT => t2[p].kind = t1[p].kind /\ t2[p].data = t1[p].data
        /\ \A p \in made : t2[p].kind = "dir"
    <2> HIDE DEF t1, made
    <2> QED
      BY <1>3, <1>5, <1>6, DirsMade
  <1>8. /\ IsTree(t3)
        /\ \A p \in Paths : ~(\E q \in gone : p \in Under[q]) =>
              t3[p].kind = t2[p].kind /\ t3[p].data = t2[p].data
    <2>1. \A q \in gone : \A g \in gone : Parent[q] \notin Under[g]
      <3>1. \A q \in gone : Parent[q] = m.dir
        BY DEF Orphans, Children
      <3>2. \A g \in gone : m.dir \notin Under[g]
        BY <1>3, PageKeepsItsOwn
      <3> QED
        BY <3>1, <3>2
    <2>2. \A q \in left : q \in gone \/ Parent[q] \in left
      OBVIOUS
    <2>3. IsTree(t2) /\ gone \in SUBSET Paths
      BY <1>3, <1>7
    <2> HIDE DEF t2, gone
    <2> QED
      BY <2>1, <2>2, <2>3, TreesRemoved
  <1> HIDE DEF t1, t2, t3, gone
  <1>9. \A p \in Paths : dest[p] # ABSENT => t2[p].kind = dest[p].kind /\ t2[p].data = dest[p].data
    <2>1. \A p \in Paths : t1[p] = ABSENT <=> dest[p] = ABSENT
      BY <1>4, <1>5, NodeKinds
    <2> QED
      BY <1>4, <1>7, <2>1
  <1>10. ASSUME NEW p \in Paths, dest[p] # ABSENT, NEW q \in gone, p \in Under[q]
         PROVE  /\ IF dest[p].kind = "dir" THEN src[p].kind # "dir" ELSE src[p].kind # "file"
                /\ dest[p].kind = "part" => Parent[p] # ROOT /\ src[Parent[p]].kind # "dir"
    BY <1>3, <1>10, OrphansAreGone
  <1>11. ASSUME NEW p \in Paths, dest[p] # ABSENT, ~\E q \in gone : p \in Under[q]
         PROVE  dest'[p].kind = dest[p].kind /\ dest'[p].data = dest[p].data /\ dest'[p] # ABSENT
    <2>1. dest'[p].kind = dest[p].kind /\ dest'[p].data = dest[p].data
      BY <1>1, <1>8, <1>9, <1>11
    <2> QED
      BY <1>1, <1>8, <1>11, <2>1, NodeKinds
  <1>12. DestStep
    <2>1. LosesOnlyGone
      BY <1>10, <1>11 DEF LosesOnlyGone
    <2>2. \A p \in Paths : Done(p) => dest'[p].kind = "file" /\ dest'[p].data = src[p].data
      BY <1>10, <1>11, NewDirIsDir DEF Done, InSource
    <2>3. \A p \in Paths : src[p].kind = "dir" /\ dest[p].kind = "dir" => dest'[p].kind = "dir"
      BY <1>10, <1>11, NewDirIsDir
    <2> QED
      BY <1>1, <1>8, <2>1, <2>2, <2>3 DEF DestStep
  <1>13. ASSUME NEW p \in m.subdirs, Creatable(p) PROVE dest'[p].kind = "dir"
    <2>1. ~\E q \in gone : p \in Under[q]
      BY <1>3, <1>13, PageKeepsItsOwn
    <2> QED
      BY <1>1, <1>2, <1>7, <1>8, <1>13, <2>1
  <1> QED
    BY <1>2, <1>12, <1>13

LEMMA AclEffect ==
    ASSUME Trees, NEW p \in Paths, dest[p] # ABSENT, dest' = [dest EXCEPT ![p].acl = TRUE]
    PROVE  DestStep
  <1>1. dest \in [Paths -> Node]
    BY DEF Trees, IsTree
  <1>2. dest'[p] = [dest[p] EXCEPT !.acl = TRUE] /\ \A q \in Paths \ {p} : dest'[q] = dest[q]
    BY <1>1
  <1>3. dest' = [q \in Paths |-> dest'[q]]
    BY <1>1
  <1>4. dest'[p] \in Node /\ dest'[p].kind = dest[p].kind /\ dest'[p].data = dest[p].data
    <2>1. dest[p] \in Node /\ 0 \in Nat
      BY <1>1
    <2> QED
      BY <1>2, <2>1, NodeUpdates
  <1>5. dest' \in [Paths -> Node]
    BY <1>1, <1>2, <1>3, <1>4
  <1> QED
    BY <1>2, <1>4, <1>5, MetadataStep DEF Trees

LEMMA FinalizedEffect == ASSUME Trees, NEW failed, dest' = Finalized(failed) PROVE DestStep
  <1>1. ASSUME NEW p \in Paths
        PROVE  dest'[p] \in Node /\ dest'[p].kind = dest[p].kind /\ dest'[p].data = dest[p].data
    <2>1. CASE p \in r.dirs \ failed
      <3>1. dest'[p] = [dest[p] EXCEPT !.meta = src[p].meta]
        BY <2>1 DEF Finalized
      <3>2. dest[p] \in Node /\ dest[p] # ABSENT /\ src[p].meta \in Nat
        <4>1. dest[p] \in Node /\ src[p] \in Node /\ src[p].kind = "dir" /\ dest[p].kind = "dir"
          BY <2>1 DEF Trees, IsTree
        <4> QED
          BY <4>1 DEF Node, ABSENT
      <3>3. PICK n \in Node, m \in Nat : n = dest[p] /\ m = src[p].meta /\ n # ABSENT
        BY <3>2
      <3>4. [n EXCEPT !.meta = m] \in Node /\ [n EXCEPT !.meta = m].kind = n.kind /\ [n EXCEPT !.meta = m].data = n.data
        BY <3>3, NodeUpdates
      <3> QED
        BY <3>1, <3>3, <3>4
    <2>2. CASE p \notin r.dirs \ failed
      BY <2>2 DEF Finalized, Trees, IsTree
    <2> QED
      BY <2>1, <2>2
  <1>2. dest' = [p \in Paths |-> dest'[p]]
    BY DEF Finalized
  <1>3. dest' \in [Paths -> Node]
    BY <1>1, <1>2
  <1> QED
    BY <1>1, <1>3, MetadataStep DEF Trees

\* A published file, in a directory that is made where it is missing.
LEMMA CommitEffect ==
    ASSUME Trees, NEW p, InSource(p), dest[p].kind # "dir", Placeable(p), dest' = Published(p)
    PROVE  DestStep /\ dest'[p].kind = "file" /\ dest'[p].data = src[p].data
  <1> DEFINE t1 == AfterDirs(dest, Directory(p))
             n == [src[p] EXCEPT !.acl = FALSE]
  <1>1. p \in Paths /\ src[p].kind = "file" /\ IsTree(src) /\ IsTree(dest)
    BY DEF InSource, Trees
  <1>2. n \in Node /\ n.kind = "file" /\ n.data = src[p].data /\ n # ABSENT
    <2>1. src[p] \in Node /\ src[p] # ABSENT /\ 0 \in Nat
      BY <1>1, NewDirIsDir, NodeKinds
    <2>2. n \in Node /\ n.kind = src[p].kind /\ n.data = src[p].data
      BY <2>1, NodeUpdates
    <2> QED
      BY <1>1, <2>2, NewDirIsDir
  <1>3. Directory(p) \in SUBSET Paths
    BY <1>1, RemoteTreeAssumption DEF Directory
  <1>4. \A x \in Directory(p) : \A d \in Above[x] : dest[d].kind \in {"absent", "dir"}
    BY DEF Placeable, Creatable
  <1>5. /\ IsTree(t1)
        /\ \A q \in Paths : dest[q] # ABSENT => t1[q].kind = dest[q].kind /\ t1[q].data = dest[q].data
        /\ \A x \in Directory(p) : t1[x].kind = "dir"
    BY <1>1, <1>3, <1>4, DirsMade
  <1>6. IsDir(t1, Parent[p])
    BY <1>5 DEF IsDir, Directory
  <1>7. t1[p].kind # "dir"
    <2> DEFINE ps == {d \in UNION {Above[x] : x \in Directory(p)} : dest[d] = ABSENT}
    <2>1. p \notin UNION {Above[x] : x \in Directory(p)}
      <3>1. \A x \in Directory(p) : x = Parent[p] /\ x \in Paths
        BY <1>3 DEF Directory
      <3>2. \A x \in Paths : p \in Above[x] => x \in Under[p]
        BY DEF Above
      <3> QED
        BY <1>1, <3>1, <3>2, NoCycle
    <2>2. ps \in SUBSET Paths /\ p \in Paths \ ps /\ t1 = Put(dest, ps, NewDir)
      BY <1>1, <1>3, <2>1, AboveItself DEF AfterDirs
    <2> HIDE DEF ps, t1
    <2>3. NewDir \in Node
      BY NewDirIsDir
    <2>4. \A q \in Paths \ ps : Put(dest, ps, NewDir)[q].kind = dest[q].kind
      BY <1>1, <2>2, <2>3, PutElsewhere
    <2> QED
      BY <2>2, <2>4
  <1>8. dest' = Put(t1, {p}, n)
    BY DEF Published
  <1> HIDE DEF t1, n
  <1>9. /\ IsTree(dest') /\ dest'[p] = n
        /\ \A q \in Paths \ {p} : dest'[q].kind = t1[q].kind /\ dest'[q].data = t1[q].data
    <2>1. /\ IsTree(Put(t1, {p}, n)) /\ Put(t1, {p}, n)[p] = n
          /\ \A q \in Paths \ {p} : /\ Put(t1, {p}, n)[q].kind = t1[q].kind
                                    /\ Put(t1, {p}, n)[q].data = t1[q].data
      <3>1. IsTree(t1) /\ p \in Paths /\ t1[p].kind # "dir" /\ IsDir(t1, Parent[p]) /\ n \in Node
        BY <1>1, <1>2, <1>5, <1>6, <1>7
      <3> QED
        BY <3>1, FilePut
    <2> QED
      BY <1>8, <2>1
  <1>10. ASSUME NEW q \in Paths \ {p}, dest[q] # ABSENT
         PROVE  dest'[q].kind = dest[q].kind /\ dest'[q].data = dest[q].data /\ dest'[q] # ABSENT
    <2>1. dest'[q].kind = dest[q].kind /\ dest'[q].data = dest[q].data
      BY <1>5, <1>9, <1>10
    <2> QED
      BY <1>1, <1>9, <1>10, <2>1, NodeKinds
  <1>11. LosesOnlyGone
    BY <1>2, <1>9, <1>10 DEF LosesOnlyGone
  <1>12. \A q \in Paths : Done(q) => dest'[q].kind = "file" /\ dest'[q].data = src[q].data
    BY <1>2, <1>9, <1>10, NewDirIsDir DEF Done, InSource
  <1>13. \A q \in Paths : src[q].kind = "dir" /\ dest[q].kind = "dir" => dest'[q].kind = "dir"
    BY <1>1, <1>10, NewDirIsDir
  <1> QED
    BY <1>2, <1>9, <1>11, <1>12, <1>13 DEF DestStep

-----------------------------------------------------------------------------
(* Streams.                                                                *)

LEMMA Taken ==
    ASSUME NEW n \in Nat, NEW w, IsWire(w, n), NEW i \in 1..n, w[i] # <<>>
    PROVE  /\ IsWire(Take(w, i), n) /\ Head(w[i]) \in Range(w[i])
           /\ \A j \in 1..n : Range(Take(w, i)[j]) \subseteq Range(w[j])
           /\ Take(w, i)[i] = Tail(w[i]) /\ \A j \in 1..n : j # i => Take(w, i)[j] = w[j]
  <1>1. IsSeq(w[i])
    BY DEF IsWire
  <1>2. IsSeq(Tail(w[i])) /\ Range(Tail(w[i])) \subseteq Range(w[i]) /\ Head(w[i]) \in Range(w[i])
    BY <1>1, TailIsSeq
  <1>3. /\ Take(w, i) = [j \in 1..n |-> Take(w, i)[j]]
        /\ Take(w, i)[i] = Tail(w[i]) /\ \A j \in 1..n : j # i => Take(w, i)[j] = w[j]
    BY DEF Take, IsWire
  <1>4. \A j \in 1..n : IsSeq(w[j])
    BY DEF IsWire
  <1> QED
    BY <1>2, <1>3, <1>4 DEF IsWire

LEMMA EmptyIsSeq == IsSeq(<<>>) /\ Range(<<>>) \subseteq {}
  <1>1. <<>> \in Seq({}) /\ <<>> \in Seq(Range(<<>>))
    OBVIOUS
  <1>2. \A q \in Seq({}) : Range(q) \subseteq {}
    BY ElementsOf
  <1> QED
    BY <1>1, <1>2 DEF IsSeq

LEMMA SenderSends ==
    ASSUME IsWire(wire, 3), NEW ms, IsSeq(ms), SSend(ms)
    PROVE  /\ IsWire(wire', 3)
           /\ \A j \in 1..3 : Range(wire'[j]) \subseteq Range(wire[j]) \cup Range(ms)
           /\ wire'[2] = wire[2] \/ wire'[2] = wire[2] \o ms
  <1> DEFINE k == SenderIndex(ms[1])
             add == IF closed THEN <<>> ELSE ms
  <1>1. /\ \A j \in 1..3 : IsSeq(wire[j])
        /\ wire' = [j \in 1..3 |-> wire'[j]]
        /\ \A j \in 1..3 : wire'[j] = IF j = k THEN wire[j] \o add ELSE wire[j]
    BY DEF IsWire, SSend
  <1>2. \A j \in 1..3 : wire[j] \o <<>> = wire[j]
    BY <1>1 DEF IsSeq
  <1>3. ASSUME NEW j \in 1..3
        PROVE  IsSeq(wire[j] \o ms) /\ Range(wire[j] \o ms) \subseteq Range(wire[j]) \cup Range(ms)
    BY <1>1, ConcatIsSeq
  <1>a. add = <<>> \/ add = ms
    OBVIOUS
  <1> HIDE DEF k, add
  <1>4. \A j \in 1..3 : wire'[j] = wire[j] \/ wire'[j] = wire[j] \o ms
    BY <1>1, <1>2, <1>a
  <1>5. ASSUME NEW j \in 1..3
        PROVE  IsSeq(wire'[j]) /\ Range(wire'[j]) \subseteq Range(wire[j]) \cup Range(ms)
    <2>1. wire'[j] = wire[j] \/ wire'[j] = wire[j] \o ms
      BY <1>4
    <2> QED
      BY <1>1, <1>3, <2>1
  <1> QED
    BY <1>1, <1>4, <1>5 DEF IsWire

LEMMA ReceiverSends ==
    ASSUME IsWire(back, 4), NEW ms, IsFiniteSet(ms), RSend(ms)
    PROVE  IsWire(back', 4) /\ \A j \in 1..4 : \A m \in Range(back'[j]) : m \in Range(back[j]) \/ m \in ms
  <1> DEFINE for(j) == {m \in ms : StreamSlot(ReceiverStreamKind(m)) = j}
             add(j) == IF closed THEN <<>> ELSE SetToSeq(for(j))
  <1>1. ASSUME NEW j \in 1..4
        PROVE  IsSeq(add(j)) /\ Range(add(j)) \subseteq ms
    <2>1. for(j) \subseteq ms /\ IsFiniteSet(for(j))
      BY FS_Subset
    <2>2. IsSeq(SetToSeq(for(j))) /\ Range(SetToSeq(for(j))) \subseteq ms
      <3> HIDE DEF for
      <3> QED
        BY <2>1, SetAsSeq
    <2> HIDE DEF for
    <2>3. add(j) = <<>> \/ add(j) = SetToSeq(for(j))
      OBVIOUS
    <2> QED
      BY <2>2, <2>3, EmptyIsSeq
  <1>2. /\ \A j \in 1..4 : IsSeq(back[j]) /\ back'[j] = back[j] \o add(j)
        /\ back' = [j \in 1..4 |-> back'[j]]
    BY DEF RSend, IsWire
  <1> HIDE DEF add
  <1>3. ASSUME NEW j \in 1..4
        PROVE  IsSeq(back'[j]) /\ Range(back'[j]) \subseteq Range(back[j]) \cup ms
    <2>1. IsSeq(back[j]) /\ back'[j] = back[j] \o add(j) /\ IsSeq(add(j)) /\ Range(add(j)) \subseteq ms
      BY <1>1, <1>2
    <2>2. IsSeq(back[j] \o add(j)) /\ Range(back[j] \o add(j)) \subseteq Range(back[j]) \cup Range(add(j))
      BY <2>1, ConcatIsSeq
    <2> QED
      BY <2>1, <2>2
  <1> QED
    BY <1>2, <1>3 DEF IsWire

LEMMA AnnouncedMore ==
    ASSUME NEW q, NEW u, IsSeq(q), IsSeq(u), Announced(q), Announced(u)
    PROVE  Announced(q \o u)
  <1>1. /\ Len(q) \in Nat /\ Len(u) \in Nat /\ Len(q \o u) = Len(q) + Len(u)
        /\ \A i \in 1..Len(q) : (q \o u)[i] = q[i]
        /\ \A i \in 1..Len(u) : (q \o u)[Len(q) + i] = u[i]
    BY ConcatIsSeq
  <1> SUFFICES ASSUME NEW i \in 1..Len(q \o u)
               PROVE  Whole((q \o u)[i]) \/ \E j \in 1..(i - 1) : (q \o u)[j].t = "listError"
    BY DEF Announced
  <1>2. CASE i <= Len(q)
    <2>1. Whole(q[i]) \/ \E j \in 1..(i - 1) : q[j].t = "listError"
      BY <1>1, <1>2 DEF Announced
    <2> QED
      BY <1>1, <1>2, <2>1
  <1>3. CASE i > Len(q)
    <2>1. PICK k \in 1..Len(u) : i = Len(q) + k
      <3>1. i - Len(q) \in 1..Len(u) /\ i = Len(q) + (i - Len(q))
        BY <1>1, <1>3
      <3> QED
        BY <3>1
    <2>2. Whole(u[k]) \/ \E j \in 1..(k - 1) : u[j].t = "listError"
      BY DEF Announced
    <2>3. ASSUME NEW j \in 1..(k - 1), u[j].t = "listError"
          PROVE  Len(q) + j \in 1..(i - 1) /\ (q \o u)[Len(q) + j].t = "listError"
      BY <1>1, <2>1, <2>3
    <2> QED
      BY <1>1, <2>1, <2>2, <2>3
  <1> QED
    BY <1>1, <1>2, <1>3

LEMMA AnnouncedTail ==
    ASSUME NEW q, IsSeq(q), q # <<>>, Announced(q), Head(q).t # "listError"
    PROVE  Announced(Tail(q)) /\ Whole(Head(q))
  <1>1. /\ Len(q) \in Nat \ {0} /\ Len(Tail(q)) = Len(q) - 1 /\ Head(q) = q[1]
        /\ \A i \in 1..(Len(q) - 1) : Tail(q)[i] = q[i + 1]
    BY TailIsSeq
  <1>2. Whole(Head(q))
    BY <1>1 DEF Announced
  <1>3. ASSUME NEW i \in 1..Len(Tail(q))
        PROVE  Whole(Tail(q)[i]) \/ \E j \in 1..(i - 1) : Tail(q)[j].t = "listError"
    <2>1. i + 1 \in 1..Len(q) /\ Tail(q)[i] = q[i + 1]
      BY <1>1
    <2>2. Whole(q[i + 1]) \/ \E j \in 1..i : q[j].t = "listError"
      BY <2>1 DEF Announced
    <2>3. ASSUME NEW j \in 1..i, q[j].t = "listError"
          PROVE  j - 1 \in 1..(i - 1) /\ Tail(q)[j - 1].t = "listError"
      <3>1. j # 1
        BY <1>1, <2>3
      <3>2. j - 1 \in 1..(i - 1) /\ j - 1 \in 1..(Len(q) - 1) /\ (j - 1) + 1 = j
        BY <1>1, <3>1
      <3>3. Tail(q)[j - 1] = q[(j - 1) + 1]
        BY <1>1, <3>2
      <3> QED
        BY <2>3, <3>2, <3>3
    <2> QED
      BY <2>1, <2>2, <2>3
  <1> QED
    BY <1>2, <1>3 DEF Announced

\* What is not a page announces nothing; one message is a sequence of itself.
LEMMA OneMessage ==
    ASSUME NEW m
    PROVE  /\ IsSeq(<<m>>) /\ Range(<<m>>) = {m} /\ <<m>>[1] = m
           /\ (Whole(m) => Announced(<<m>>))
           /\ (m.t # "page" => Whole(m))
  <1>1. <<m>> \in Seq({m}) /\ Len(<<m>>) = 1 /\ <<m>>[1] = m
    OBVIOUS
  <1>2. IsSeq(<<m>>) /\ Range(<<m>>) \subseteq {m}
    BY <1>1, ElementsOf
  <1>3. m \in Range(<<m>>)
    BY <1>1, <1>2, ElementAt
  <1>4. Whole(m) => Announced(<<m>>)
    BY <1>1 DEF Announced
  <1> QED
    BY <1>1, <1>2, <1>3, <1>4 DEF Whole

LEMMA TwoMessages ==
    ASSUME NEW m, NEW l
    PROVE  /\ IsSeq(<<m, l>>) /\ Range(<<m, l>>) \subseteq {m, l} /\ <<m, l>>[1] = m
           /\ (Whole(m) /\ m.t = "listError" => Announced(<<m, l>>))
  <1>1. <<m, l>> \in Seq({m, l}) /\ Len(<<m, l>>) = 2 /\ <<m, l>>[1] = m /\ <<m, l>>[2] = l
    OBVIOUS
  <1>2. IsSeq(<<m, l>>) /\ Range(<<m, l>>) \subseteq {m, l}
    BY <1>1, ElementsOf
  <1>3. Whole(m) /\ m.t = "listError" => Announced(<<m, l>>)
    <2> SUFFICES ASSUME Whole(m), m.t = "listError", NEW i \in 1..2
                 PROVE  Whole(<<m, l>>[i]) \/ \E j \in 1..(i - 1) : <<m, l>>[j].t = "listError"
      BY <1>1 DEF Announced
    <2>1. CASE i = 1
      BY <1>1, <2>1
    <2>2. CASE i = 2
      BY <1>1, <2>2
    <2> QED
      BY <2>1, <2>2
  <1> QED
    BY <1>1, <1>2, <1>3

\* What is whole needs no announcement.
LEMMA AnnouncedWhole ==
    ASSUME NEW q, IsSeq(q), \A m \in Range(q) : Whole(m)
    PROVE  Announced(q)
  BY ElementAt DEF Announced

-----------------------------------------------------------------------------
(* What a step of either process does to each part of the state.           *)

Kept == UNCHANGED <<src, blind, peer>> /\ (DestStep \/ UNCHANGED dest)

WireStep ==
    /\ IsWire(wire', 3)
    /\ \A i \in 1..3 : \A m \in Range(wire'[i]) : m \in Range(wire[i]) \/ FromSource(m)
    /\ Listens' => Announced(wire'[2])

BackStep ==
    /\ IsWire(back', 4)
    /\ \A i \in 1..4 : \A m \in Range(back'[i]) : m \in Range(back[i]) \/ FromDest(m)'

QueueStep ==
    /\ IsSeq(dc') /\ IsSeq(acks')
    /\ \A p \in Range(dc') : p \in Range(dc) \/ InSource(p)
    /\ \A a \in Range(acks') : a \in Range(acks) \/ (a.ok => Done(a.path)')

SenderStep ==
    /\ IsSender(s')
    /\ \A p \in s'.completed : p \in s.completed \/ (saved # TORN /\ p \in saved) \/ Done(p)
    /\ saved' # TORN => \A p \in saved' : p \in s.completed \/ (saved # TORN /\ p \in saved)

ReceiverStep ==
    /\ IsReceiver(r') /\ accepted' \in Nat
    /\ r'.dirs \subseteq r.dirs \cup {p \in Paths : src[p].kind = "dir" /\ dest'[p].kind = "dir"}
    /\ Admitted'

\* What is so stays so.
LEMMA StaysTrue ==
    ASSUME IInv, Kept
    PROVE  /\ \A m : FromSource(m) => FromSource(m)'
           /\ \A p : InSource(p) => InSource(p)'
           /\ \A p : Done(p) => Done(p)'
           /\ \A m : FromDest(m) => FromDest(m)'
           /\ \A q : Announced(q) => Announced(q)'
           /\ (Compatible => Compatible') /\ (Permitted => Permitted')
  <1>1. src' = src /\ blind' = blind /\ peer' = peer
    BY DEF Kept
  <1>2. \A p : InSource(p) => InSource(p)'
    BY <1>1 DEF InSource
  <1>3. \A p : Done(p) => Done(p)'
    <2> SUFFICES ASSUME NEW p, Done(p) PROVE Done(p)'
      OBVIOUS
    <2>1. InSource(p) /\ p \in Paths /\ dest[p].kind = "file" /\ dest[p].data = src[p].data
      BY DEF Done, InSource
    <2>2. dest'[p].kind = "file" /\ dest'[p].data = src[p].data
      BY <2>1 DEF Kept, DestStep
    <2> QED
      BY <1>1, <2>1, <2>2 DEF Done, InSource
  <1>4. \A m : FromSource(m) => FromSource(m)'
    BY <1>1, <1>2 DEF FromSource, PageOf, IsDir
  <1>5. \A m : FromDest(m) => FromDest(m)'
    BY <1>2, <1>3 DEF FromDest
  <1>6. \A q : Announced(q) => Announced(q)'
    BY <1>1 DEF Announced, Whole
  <1>7. (Compatible => Compatible') /\ (Permitted => Permitted')
    BY <1>1 DEF Compatible, Permitted, Negotiate
  <1> QED
    BY <1>2, <1>3, <1>4, <1>5, <1>6, <1>7

LEMMA StepKeepsInvariant ==
    ASSUME IInv, Kept, WireStep, BackStep, QueueStep, SenderStep, ReceiverStep
    PROVE  IInv'
  <1>1. Shape'
    BY DEF Shape, WireStep, BackStep, QueueStep, SenderStep, ReceiverStep
  <1>2. Trees'
    <2>1. IsTree(src) /\ IsTree(dest) /\ r.dirs \subseteq {p \in Paths : src[p].kind = "dir" /\ dest[p].kind = "dir"}
      BY DEF IInv, Trees
    <2>2. src' = src /\ IsTree(dest')
      BY <2>1 DEF Kept, DestStep
    <2>3. \A p \in Paths : src[p].kind = "dir" /\ dest[p].kind = "dir" => dest'[p].kind = "dir"
      BY DEF Kept, DestStep
    <2>4. r'.dirs \subseteq {p \in Paths : src[p].kind = "dir" /\ dest'[p].kind = "dir"}
      BY <2>1, <2>3 DEF ReceiverStep
    <2> QED
      BY <2>1, <2>2, <2>4 DEF Trees
  <1>3. Sent'
    <2>1. \A i \in 1..3 : \A m \in Range(wire'[i]) : FromSource(m)
      BY DEF IInv, Sent, WireStep
    <2> QED
      BY <2>1, StaysTrue DEF Sent
  <1>4. Announcing'
    BY StaysTrue DEF WireStep, Announcing
  <1>5. Replied'
    <2>1. \A i \in 1..4 : \A m \in Range(back'[i]) : FromDest(m) \/ FromDest(m)'
      BY DEF IInv, Replied, BackStep
    <2> QED
      BY <2>1, StaysTrue DEF Replied
  <1>6. Outcomes'
    <2>1. \A p \in Range(dc') : InSource(p)
      BY DEF IInv, Outcomes, QueueStep
    <2>2. \A a \in Range(acks') : a.ok => Done(a.path) \/ Done(a.path)'
      BY DEF IInv, Outcomes, QueueStep
    <2>3. \A p \in s'.completed : Done(p)
      BY DEF IInv, Outcomes, SenderStep
    <2>4. saved' # TORN => \A p \in saved' : Done(p)
      BY DEF IInv, Outcomes, SenderStep
    <2> QED
      BY <2>1, <2>2, <2>3, <2>4, StaysTrue DEF Outcomes
  <1>7. Admitted'
    BY DEF ReceiverStep
  <1> QED
    BY <1>1, <1>2, <1>3, <1>4, <1>5, <1>6, <1>7 DEF IInv

\* What a process leaves alone.
LEMMA WireSame == ASSUME IInv, UNCHANGED wire, Listens' => Listens PROVE WireStep
  BY DEF IInv, Shape, Announcing, WireStep

LEMMA BackSame == ASSUME IInv, UNCHANGED back PROVE BackStep
  BY DEF IInv, Shape, BackStep

LEMMA QueueSame == ASSUME IInv, UNCHANGED <<dc, acks>> PROVE QueueStep
  BY DEF IInv, Shape, QueueStep

LEMMA SenderSame ==
    ASSUME IInv, IsSender(s'), s'.completed = s.completed, UNCHANGED saved PROVE SenderStep
  BY DEF SenderStep

LEMMA ReceiverSame ==
    ASSUME IInv, UNCHANGED <<r, peer, accepted>>, dc' # <<>> => dc # <<>> PROVE ReceiverStep /\ Listens' = Listens
  BY DEF IInv, Shape, Admitted, Compatible, Permitted, ReceiverStep, Listens

LEMMA WireSends ==
    ASSUME IInv, NEW ms, IsSeq(ms), SSend(ms), \A m \in Range(ms) : FromSource(m), Announced(ms), Listens' => Listens
    PROVE  WireStep
  <1>1. IsWire(wire, 3)
    BY DEF IInv, Shape
  <1>2. /\ IsWire(wire', 3)
        /\ \A j \in 1..3 : Range(wire'[j]) \subseteq Range(wire[j]) \cup Range(ms)
        /\ wire'[2] = wire[2] \/ wire'[2] = wire[2] \o ms
    BY <1>1, SenderSends
  <1>3. Listens => Announced(wire[2] \o ms) /\ Announced(wire[2])
    BY <1>1, AnnouncedMore DEF IInv, Announcing, IsWire
  <1> QED
    BY <1>2, <1>3 DEF WireStep

LEMMA WireTaken ==
    ASSUME IInv, NEW i \in 1..3, wire[i] # <<>>, wire' = Take(wire, i),
           Listens' => Listens /\ (i # 2 \/ Head(wire[2]).t # "listError")
    PROVE  WireStep /\ FromSource(Head(wire[i]))
  <1>1. IsWire(wire, 3)
    BY DEF IInv, Shape
  <1>2. /\ IsWire(wire', 3) /\ Head(wire[i]) \in Range(wire[i])
        /\ \A j \in 1..3 : Range(wire'[j]) \subseteq Range(wire[j])
        /\ wire'[i] = Tail(wire[i]) /\ \A j \in 1..3 : j # i => wire'[j] = wire[j]
    <2> DEFINE u == Take(wire, i)
    <2>1. /\ IsWire(u, 3) /\ Head(wire[i]) \in Range(wire[i])
          /\ \A j \in 1..3 : Range(u[j]) \subseteq Range(wire[j])
      BY <1>1, Taken
    <2>2. u[i] = Tail(wire[i]) /\ \A j \in 1..3 : j # i => u[j] = wire[j]
      BY <1>1, Taken
    <2> HIDE DEF u
    <2>3. wire' = u
      BY DEF u
    <2> QED
      BY <2>1, <2>2, <2>3
  <1>3. ASSUME Listens' PROVE Announced(wire'[2])
    <2>1. Announced(wire[2])
      BY <1>3 DEF IInv, Announcing
    <2>2. CASE i # 2
      BY <1>2, <2>1, <2>2
    <2>3. CASE i = 2
      <3>1. IsSeq(wire[2]) /\ wire[2] # <<>> /\ Head(wire[2]).t # "listError"
        BY <1>1, <1>3, <2>3 DEF IsWire
      <3>2. Announced(Tail(wire[2]))
        BY <2>1, <3>1, AnnouncedTail
      <3> QED
        BY <1>2, <2>3, <3>2
    <2> QED
      BY <2>2, <2>3
  <1>4. FromSource(Head(wire[i]))
    BY <1>2 DEF IInv, Sent
  <1> QED
    BY <1>2, <1>3, <1>4 DEF WireStep

LEMMA BackSends ==
    ASSUME IInv, NEW ms, IsFiniteSet(ms), RSend(ms), \A m \in ms : FromDest(m)'
    PROVE  BackStep
  <1>1. IsWire(back, 4)
    BY DEF IInv, Shape
  <1>2. IsWire(back', 4) /\ \A j \in 1..4 : \A m \in Range(back'[j]) : m \in Range(back[j]) \/ m \in ms
    BY <1>1, ReceiverSends
  <1> QED
    BY <1>2 DEF BackStep

LEMMA BackTaken ==
    ASSUME IInv, NEW i \in 1..4, back[i] # <<>>, back' = Take(back, i)
    PROVE  BackStep /\ FromDest(Head(back[i]))
  <1>1. IsWire(back, 4)
    BY DEF IInv, Shape
  <1>2. /\ IsWire(Take(back, i), 4) /\ Head(back[i]) \in Range(back[i])
        /\ \A j \in 1..4 : Range(Take(back, i)[j]) \subseteq Range(back[j])
    BY <1>1, Taken
  <1>3. FromDest(Head(back[i]))
    BY <1>2 DEF IInv, Replied
  <1> QED
    BY <1>2, <1>3 DEF BackStep

-----------------------------------------------------------------------------
(* The sender's actions.                                                   *)

LEMMA SenderActs ==
    ASSUME IInv, UNCHANGED <<src, blind, dest, accepted, peer, r, dc, acks>>, WireStep, BackStep, SenderStep
    PROVE  IInv'
  <1>1. Kept /\ QueueStep /\ ReceiverStep
    BY QueueSame, ReceiverSame DEF Kept
  <1> QED
    BY <1>1, StepKeepsInvariant

\* One message that is no page.
LEMMA SendsOne ==
    ASSUME IInv, NEW m, SSend(<<m>>), FromSource(m), Whole(m), UNCHANGED <<r, accepted>>
    PROVE  WireStep
  <1>1. IsSeq(<<m>>) /\ Range(<<m>>) = {m} /\ Announced(<<m>>)
    BY OneMessage
  <1>2. Listens' => Listens
    BY DEF Listens
  <1>3. \A x \in Range(<<m>>) : FromSource(x)
    BY <1>1
  <1> QED
    BY <1>1, <1>2, <1>3, WireSends

LEMMA StepSHello == ASSUME IInv, SHello PROVE IInv'
  <1> DEFINE m == CASE s.pc = "hello" -> [t |-> "handshake", build |-> peer.build]
                    [] s.pc = "auth" -> [t |-> "auth", token |-> peer.token]
                    [] OTHER -> [t |-> "config"]
  <1>1. SSend(<<m>>) /\ UNCHANGED <<src, blind, dest, back, accepted, peer, r, dc, acks, saved>>
    BY DEF SHello
  <1>2. FromSource(m) /\ Whole(m)
    BY DEF FromSource, Whole
  <1>3. SenderStep
    <2>1. IsSender(s)
      BY DEF IInv, Shape
    <2>2. IsSender(s') /\ s'.completed = IF s.pc = "config" /\ saved # TORN THEN saved ELSE s.completed
      BY <2>1 DEF SHello, IsSender
    <2>3. saved' = saved
      BY <1>1
    <2> QED
      BY <2>2, <2>3 DEF SenderStep
  <1> HIDE DEF m
  <1>4. WireStep
    BY <1>1, <1>2, SendsOne
  <1>5. BackStep
    BY <1>1, BackSame
  <1> QED
    BY <1>1, <1>3, <1>4, <1>5, SenderActs

\* A step that changes neither what was completed nor the checkpoint file.
LEMMA SenderKeeps ==
    ASSUME IInv, UNCHANGED <<src, blind, dest, accepted, peer, r, dc, acks, saved>>,
           IsSender(s'), s'.completed = s.completed, WireStep, BackStep
    PROVE  IInv'
  BY SenderSame, SenderActs

LEMMA StepSAnswer == ASSUME IInv, SAnswer PROVE IInv'
  <1>1. /\ back[1] # <<>> /\ back' = Take(back, 1)
        /\ UNCHANGED <<src, blind, dest, wire, accepted, peer, r, dc, acks, saved>>
    BY DEF SAnswer
  <1>2. IsSender(s') /\ s'.completed = s.completed
    <2>1. IsSender(s)
      BY DEF IInv, Shape
    <2>2. \/ s' = [s EXCEPT !.pc = IF @ = "helloSent" THEN "auth" ELSE "config"]
          \/ s' = [s EXCEPT !.pc = "failed"]
      BY DEF SAnswer, SLeave
    <2> QED
      BY <2>1, <2>2 DEF IsSender
  <1>3. BackStep
    BY <1>1, BackTaken
  <1>4. WireStep
    BY <1>1, WireSame DEF Listens
  <1> QED
    BY <1>1, <1>2, <1>3, <1>4, SenderKeeps

LEMMA StepSClosed == ASSUME IInv, SClosed PROVE IInv'
  <1>1. UNCHANGED <<src, blind, dest, wire, back, accepted, peer, r, dc, acks, saved>>
    BY DEF SClosed
  <1>2. IsSender(s') /\ s'.completed = s.completed
    BY DEF SClosed, IInv, Shape, IsSender
  <1>3. WireStep /\ BackStep
    BY <1>1, WireSame, BackSame DEF Listens
  <1> QED
    BY <1>1, <1>2, <1>3, SenderKeeps

\* A page misses what could not be observed, and is announced.
LEMMA PagesAnnounced ==
    ASSUME NEW d, IsDir(src, d)
    PROVE  /\ IsSeq(PageEvents(d)) /\ Announced(PageEvents(d))
           /\ \A m \in Range(PageEvents(d)) : FromSource(m)
  <1> DEFINE e == [t |-> "listError"]
             p == PageOf(d)
             missed == {x \in Children(d) \cap blind : src[x] # ABSENT}
  <1>1. FromSource(e) /\ Whole(e) /\ e.t = "listError"
    BY DEF FromSource, Whole
  <1>2. FromSource(p) /\ p.dir = d
    BY DEF FromSource, PageOf
  <1>3. missed = {} => Whole(p)
    BY <1>2 DEF Whole
  <1>4. PageEvents(d) = IF missed # {} THEN <<e, p>> ELSE <<p>>
    BY DEF PageEvents
  <1> HIDE DEF e, p, missed
  <1>5. CASE missed # {}
    <2>1. PageEvents(d) = <<e, p>>
      BY <1>4, <1>5
    <2>2. IsSeq(<<e, p>>) /\ Range(<<e, p>>) \subseteq {e, p} /\ Announced(<<e, p>>)
      BY <1>1, TwoMessages
    <2> QED
      BY <1>1, <1>2, <2>1, <2>2
  <1>6. CASE missed = {}
    <2>1. PageEvents(d) = <<p>>
      BY <1>4, <1>6
    <2>2. IsSeq(<<p>>) /\ Range(<<p>>) = {p} /\ Announced(<<p>>)
      BY <1>3, <1>6, OneMessage
    <2> QED
      BY <1>2, <2>1, <2>2
  <1> QED
    BY <1>5, <1>6

LEMMA StepAdvertise == ASSUME IInv, Advertise PROVE IInv'
  <1>1. UNCHANGED <<src, blind, dest, back, accepted, peer, r, dc, acks, saved>>
    BY DEF Advertise
  <1>2. IsSender(s') /\ s'.completed = s.completed
    <2>1. IsSender(s)
      BY DEF IInv, Shape
    <2>2. s' = [s EXCEPT !.listed = TRUE] \/ s' = [s EXCEPT !.todo = Tail(@)]
      BY DEF Advertise
    <2> QED
      BY <2>1, <2>2 DEF IsSender
  <1>3. Listens' => Listens
    BY <1>1 DEF Listens
  <1>4. WireStep
    <2>1. CASE SSend(<<[t |-> "listDone"]>>)
      <3> DEFINE m == [t |-> "listDone"]
      <3>1. FromSource(m) /\ Whole(m)
        BY DEF FromSource, Whole
      <3>2. SSend(<<m>>) /\ UNCHANGED <<r, accepted>>
        BY <1>1, <2>1
      <3> HIDE DEF m
      <3> QED
        BY <3>1, <3>2, SendsOne
    <2>2. CASE UNCHANGED wire
      BY <1>3, <2>2, WireSame
    <2>3. CASE IsDir(src, Head(s.todo)) /\ SSend(PageEvents(Head(s.todo)))
      <3> DEFINE ms == PageEvents(Head(s.todo))
      <3>1. IsSeq(ms) /\ Announced(ms) /\ \A m \in Range(ms) : FromSource(m)
        BY <2>3, PagesAnnounced
      <3>2. SSend(ms)
        BY <2>3
      <3> HIDE DEF ms
      <3> QED
        BY <1>3, <3>1, <3>2, WireSends
    <2> QED
      BY <2>1, <2>2, <2>3 DEF Advertise
  <1>5. BackStep
    BY <1>1, BackSame
  <1> QED
    BY <1>1, <1>2, <1>4, <1>5, SenderKeeps

LEMMA StepListingFails == ASSUME IInv, ListingFails PROVE IInv'
  <1>1. UNCHANGED <<src, blind, dest, back, accepted, peer, r, dc, acks, saved>>
    BY DEF ListingFails
  <1>2. IsSender(s') /\ s'.completed = s.completed
    BY DEF ListingFails, IInv, Shape, IsSender
  <1>3. WireStep
    <2> DEFINE m == [t |-> "listError"]
    <2>1. FromSource(m) /\ Whole(m)
      BY DEF FromSource, Whole
    <2>2. SSend(<<m>>) /\ UNCHANGED <<r, accepted>>
      BY <1>1 DEF ListingFails
    <2> HIDE DEF m
    <2> QED
      BY <2>1, <2>2, SendsOne
  <1>4. BackStep
    BY <1>1, BackSame
  <1> QED
    BY <1>1, <1>2, <1>3, <1>4, SenderKeeps

\* What is sent for a request is data of a file of the source.
LEMMA TransferSent ==
    ASSUME NEW p, InSource(p)
    PROVE  /\ IsSeq(TransferOf(p)) /\ Announced(TransferOf(p))
           /\ \A m \in Range(TransferOf(p)) : FromSource(m)
  <1> DEFINE a == [t |-> "data", path |-> p]
             b == [t |-> "setAcl", path |-> p]
             tail == IF EnableAcl THEN <<b>> ELSE <<>>
  <1>1. FromSource(a) /\ Whole(a) /\ FromSource(b) /\ Whole(b)
    BY DEF FromSource, Whole
  <1>2. TransferOf(p) = <<a>> \o tail
    BY DEF TransferOf
  <1> HIDE DEF a, b
  <1>3. IsSeq(<<a>>) /\ Range(<<a>>) = {a} /\ IsSeq(<<b>>) /\ Range(<<b>>) = {b}
    BY OneMessage
  <1>4. IsSeq(tail) /\ Range(tail) \subseteq {b}
    BY <1>3, EmptyIsSeq
  <1> HIDE DEF tail
  <1>5. IsSeq(<<a>> \o tail) /\ Range(<<a>> \o tail) \subseteq Range(<<a>>) \cup Range(tail)
    BY <1>3, <1>4, ConcatIsSeq
  <1>6. IsSeq(TransferOf(p)) /\ \A m \in Range(TransferOf(p)) : m = a \/ m = b
    BY <1>2, <1>3, <1>4, <1>5
  <1>7. Announced(TransferOf(p))
    BY <1>1, <1>6, AnnouncedWhole
  <1> QED
    BY <1>1, <1>6, <1>7

LEMMA StepSReceive == ASSUME IInv, SReceive PROVE IInv'
  <1>1. UNCHANGED <<src, blind, dest, accepted, peer, r, dc, acks>>
    BY DEF SReceive
  <1>2. PICK i \in 1..4 : back[i] # <<>> /\ (SRequest(i) \/ SRequestsDone(i) \/ SAck(i) \/ SAllDone(i))
    BY DEF SReceive
  <1> DEFINE m == Head(back[i])
  <1>3. BackStep /\ FromDest(m)
    <2>1. back' = Take(back, i)
      BY <1>2 DEF SRequest, SRequestsDone, SAck, SAllDone
    <2> QED
      BY <1>2, <2>1, BackTaken
  <1>4. Listens' => Listens
    BY <1>1 DEF Listens
  <1>5. IsSender(s)
    BY DEF IInv, Shape
  <1>6. CASE SRequest(i)
    <2>1. m.t = "request" /\ UNCHANGED saved
      BY <1>6 DEF SRequest
    <2>2. IsSender(s') /\ s'.completed = s.completed
      BY <1>5, <1>6 DEF SRequest, IsSender
    <2>3. InSource(m.path)
      BY <1>3, <2>1 DEF FromDest
    <2>4. CASE SSend(TransferOf(m.path))
      <3> DEFINE ms == TransferOf(m.path)
      <3>1. IsSeq(ms) /\ Announced(ms) /\ \A x \in Range(ms) : FromSource(x)
        BY <2>3, TransferSent
      <3>2. SSend(ms)
        BY <2>4
      <3> HIDE DEF ms
      <3>3. WireStep
        BY <1>4, <3>1, <3>2, WireSends
      <3> QED
        BY <1>1, <1>3, <2>1, <2>2, <3>3, SenderKeeps
    <2>5. CASE SSend(<<[t |-> "entryError", path |-> m.path]>>)
      <3> DEFINE e == [t |-> "entryError", path |-> m.path]
      <3>1. FromSource(e) /\ Whole(e)
        BY DEF FromSource, Whole
      <3>2. SSend(<<e>>)
        BY <2>5
      <3> HIDE DEF e
      <3>3. WireStep
        BY <1>1, <3>1, <3>2, SendsOne
      <3> QED
        BY <1>1, <1>3, <2>1, <2>2, <3>3, SenderKeeps
    <2> QED
      BY <1>6, <2>4, <2>5 DEF SRequest
  <1>7. CASE SRequestsDone(i)
    <2>1. UNCHANGED saved /\ SSend(<<[t |-> "transferDone"]>>)
      BY <1>7 DEF SRequestsDone
    <2>2. IsSender(s') /\ s'.completed = s.completed
      BY <1>5, <1>7 DEF SRequestsDone, IsSender
    <2> DEFINE e == [t |-> "transferDone"]
    <2>3. FromSource(e) /\ Whole(e)
      BY DEF FromSource, Whole
    <2>4. SSend(<<e>>)
      BY <2>1
    <2> HIDE DEF e
    <2>5. WireStep
      BY <1>1, <2>3, <2>4, SendsOne
    <2> QED
      BY <1>1, <1>3, <2>1, <2>2, <2>5, SenderKeeps
  <1>8. CASE SAck(i)
    <2>1. UNCHANGED wire
      BY <1>8 DEF SAck
    <2>2. WireStep
      BY <1>4, <2>1, WireSame
    <2>3. CASE m.t = "success"
      <3>1. RecordSuccess(m.path)
        BY <1>8, <2>3 DEF SAck
      <3>2. IsSender(s') /\ s'.completed = s.completed \cup {m.path}
        BY <1>5, <3>1 DEF RecordSuccess, IsSender
      <3>3. saved' = TORN \/ saved' = saved
        BY <3>1 DEF RecordSuccess
      <3>4. Done(m.path)
        BY <1>3, <2>3 DEF FromDest
      <3>5. SenderStep
        BY <3>2, <3>3, <3>4 DEF SenderStep
      <3> QED
        BY <1>1, <1>3, <2>2, <3>5, SenderActs
    <2>4. CASE m.t # "success"
      <3>1. IsSender(s') /\ s'.completed = s.completed /\ UNCHANGED saved
        <4>1. UNCHANGED saved /\ (s' = s \/ s' = [s EXCEPT !.errors = @ \cup {m.path}])
          BY <1>8, <2>4 DEF SAck
        <4> QED
          BY <1>5, <4>1 DEF IsSender
      <3> QED
        BY <1>1, <1>3, <2>2, <3>1, SenderKeeps
    <2> QED
      BY <2>3, <2>4
  <1>9. CASE SAllDone(i)
    <2>1. UNCHANGED <<wire, saved>>
      BY <1>9 DEF SAllDone
    <2>2. IsSender(s') /\ s'.completed = s.completed
      <3>1. s' = [s EXCEPT !.allDone = TRUE] \/ s' = [s EXCEPT !.pc = "failed"]
        BY <1>9 DEF SAllDone, SLeave
      <3> QED
        BY <1>5, <3>1 DEF IsSender
    <2>3. WireStep
      BY <1>4, <2>1, WireSame
    <2> QED
      BY <1>1, <1>3, <2>1, <2>2, <2>3, SenderKeeps
  <1> QED
    BY <1>2, <1>6, <1>7, <1>8, <1>9

LEMMA StepSaveCheckpoint == ASSUME IInv, SaveCheckpoint PROVE IInv'
  <1>1. UNCHANGED <<src, blind, dest, wire, back, accepted, peer, r, dc, acks>>
    BY DEF SaveCheckpoint
  <1>2. IsSender(s') /\ s'.completed = s.completed /\ saved' = s.completed
    BY DEF SaveCheckpoint, IInv, Shape, IsSender
  <1>3. SenderStep
    BY <1>2 DEF SenderStep
  <1>4. WireStep /\ BackStep
    BY <1>1, WireSame, BackSame DEF Listens
  <1> QED
    BY <1>1, <1>3, <1>4, SenderActs

LEMMA StepSFinish == ASSUME IInv, SFinish PROVE IInv'
  <1>1. UNCHANGED <<src, blind, dest, wire, back, accepted, peer, r, dc, acks>>
    BY DEF SFinish
  <1>2. IsSender(s') /\ s'.completed = s.completed
    <2>1. s' = [s EXCEPT !.pc = "done"] \/ s' = [s EXCEPT !.saving = TRUE]
      BY DEF SFinish
    <2> QED
      BY <2>1 DEF IInv, Shape, IsSender
  <1>3. saved' = {} \/ saved' = saved \/ saved' = TORN
    BY DEF SFinish
  <1>4. SenderStep
    BY <1>2, <1>3 DEF SenderStep
  <1>5. WireStep /\ BackStep
    BY <1>1, WireSame, BackSame DEF Listens
  <1> QED
    BY <1>1, <1>4, <1>5, SenderActs

\* The network and the death of the sender.
LEMMA StepLoseOrCrash == ASSUME IInv, Lose \/ Crash PROVE IInv'
  <1>1. UNCHANGED <<src, blind, dest, wire, back, accepted, peer, r, dc, acks, saved>>
    BY DEF Lose, Crash
  <1>2. IsSender(s') /\ s'.completed = s.completed
    <2>1. s' = s \/ s' = [s EXCEPT !.pc = "failed", !.saving = FALSE]
      BY DEF Lose, Crash
    <2> QED
      BY <2>1 DEF IInv, Shape, IsSender
  <1>3. WireStep /\ BackStep
    BY <1>1, WireSame, BackSame DEF Listens
  <1> QED
    BY <1>1, <1>2, <1>3, SenderKeeps

-----------------------------------------------------------------------------
(* The receiver's actions.                                                 *)

LEMMA ReceiverActs ==
    ASSUME IInv, Kept, UNCHANGED <<s, saved>>, WireStep, BackStep, QueueStep, ReceiverStep
    PROVE  IInv'
  <1>1. SenderStep
    BY SenderSame DEF IInv, Shape
  <1> QED
    BY <1>1, StepKeepsInvariant

\* For a peer that was let in, the phases are free.
LEMMA ReceiverMoves ==
    ASSUME IInv, Permitted, UNCHANGED <<peer, accepted>>, IsReceiver(r'), r'.dirs \subseteq r.dirs
    PROVE  ReceiverStep
  <1>1. Permitted' /\ Compatible'
    BY DEF Permitted, Compatible
  <1>2. accepted' \in Nat
    BY DEF IInv, Shape
  <1> QED
    BY <1>1, <1>2 DEF ReceiverStep, Admitted

LEMMA StepAccept == ASSUME IInv, Accept PROVE IInv'
  <1>1. UNCHANGED <<src, blind, dest, wire, back, peer, s, dc, acks, saved>> /\ accepted' = accepted + 1
    BY DEF Accept
  <1>2. IsReceiver(r) /\ accepted \in Nat
    BY DEF IInv, Shape
  <1>3. r' = IF accepted = 0 THEN [r EXCEPT !.pc = "handshake"] ELSE r
    BY DEF Accept
  <1>4. /\ IsReceiver(r') /\ r'.dirs = r.dirs
        /\ accepted = 0 => r'.pc = "handshake"
        /\ accepted # 0 => r'.pc = r.pc
    BY <1>2, <1>3 DEF IsReceiver
  <1>5. Listens' => Listens
    BY <1>1, <1>2, <1>4 DEF Listens
  <1>6. ReceiverStep
    <2>1. Admitted
      BY DEF IInv
    <2>2. Admitted'
      BY <1>1, <1>4, <2>1 DEF Admitted, Compatible, Permitted
    <2> QED
      BY <1>1, <1>2, <1>4, <2>2 DEF ReceiverStep
  <1>7. WireStep /\ BackStep /\ QueueStep /\ Kept
    BY <1>1, <1>5, WireSame, BackSame, QueueSame DEF Kept
  <1> QED
    BY <1>1, <1>6, <1>7, ReceiverActs

\* One reply that is about no file.
LEMMA SaysOne ==
    ASSUME IInv, NEW m, RSend({m}), m.t \notin {"request", "success"}
    PROVE  BackStep
  <1>1. IsFiniteSet({m})
    BY FS_Singleton
  <1>2. \A x \in {m} : FromDest(x)'
    BY DEF FromDest
  <1> QED
    BY <1>1, <1>2, BackSends

LEMMA StepRHello == ASSUME IInv, RHello PROVE IInv'
  <1> DEFINE m == Head(wire[1])
             n == Negotiate(peer.local, m.build)
             a == [t |-> "handshakeAck", ok |-> n.ok]
             b == [t |-> "authResult", ok |-> TokenOk(m)]
  <1>1. /\ r.pc \in {"handshake", "auth", "config"} /\ wire[1] # <<>> /\ wire' = Take(wire, 1)
        /\ UNCHANGED <<src, blind, dest, accepted, peer, s, dc, acks, saved>>
    BY DEF RHello
  <1>2. \/ /\ r.pc = "handshake" /\ m.t = "handshake" /\ RSend({a})
           /\ r' = [r EXCEPT !.pc = IF n.ok THEN "auth" ELSE "failed", !.features = n.features]
        \/ /\ r.pc = "auth" /\ m.t = "auth" /\ RSend({b})
           /\ r' = [r EXCEPT !.pc = IF TokenOk(m) THEN "config" ELSE "failed"]
        \/ r.pc = "config" /\ r' = [r EXCEPT !.pc = "loop"] /\ UNCHANGED back
        \/ UNCHANGED <<r, back>>
    BY DEF RHello
  <1>3. Listens
    BY <1>1 DEF Listens
  <1>4. WireStep /\ FromSource(m)
    BY <1>1, <1>3, WireTaken
  <1>5. a.t \notin {"request", "success"} /\ b.t \notin {"request", "success"}
    OBVIOUS
  <1>6. BackStep
    <2> HIDE DEF a, b, m
    <2>1. CASE UNCHANGED back
      BY <2>1, BackSame
    <2>2. CASE RSend({a})
      BY <1>5, <2>2, SaysOne
    <2>3. CASE RSend({b})
      BY <1>5, <2>3, SaysOne
    <2> QED
      BY <1>2, <2>1, <2>2, <2>3
  <1>7. QueueStep /\ Kept
    BY <1>1, QueueSame DEF Kept
  <1>8. ReceiverStep
    <2>1. IsReceiver(r) /\ accepted' \in Nat /\ Admitted
      BY <1>1 DEF IInv, Shape
    <2>2. m.t = "handshake" /\ n.ok => Compatible
      BY <1>4 DEF FromSource, Compatible
    <2>3. m.t = "auth" /\ TokenOk(m) => peer.expected \in {"any", peer.token}
      BY <1>4 DEF FromSource, TokenOk
    <2> HIDE DEF a, b, m, n
    <2>4. IsReceiver(r') /\ r'.dirs = r.dirs
      BY <1>2, <2>1 DEF IsReceiver
    <2>5. /\ r'.pc = "auth" => Compatible
          /\ r'.pc \in {"config", "loop", "shutdown", "abort"} => Permitted
      <3>1. CASE r.pc = "handshake" /\ m.t = "handshake" /\ r' = [r EXCEPT !.pc = IF n.ok THEN "auth" ELSE "failed", !.features = n.features]
        <4>1. r'.pc = IF n.ok THEN "auth" ELSE "failed"
          BY <2>1, <3>1 DEF IsReceiver
        <4> QED
          BY <2>2, <3>1, <4>1
      <3>2. CASE r.pc = "auth" /\ m.t = "auth" /\ r' = [r EXCEPT !.pc = IF TokenOk(m) THEN "config" ELSE "failed"]
        <4>1. r'.pc = IF TokenOk(m) THEN "config" ELSE "failed"
          BY <2>1, <3>2 DEF IsReceiver
        <4> QED
          BY <2>1, <2>3, <3>2, <4>1 DEF Admitted, Permitted
      <3>3. CASE r.pc = "config" /\ r' = [r EXCEPT !.pc = "loop"]
        <4>1. r'.pc = "loop" /\ Permitted
          BY <2>1, <3>3 DEF IsReceiver, Admitted
        <4> QED
          BY <4>1
      <3>4. CASE UNCHANGED r
        BY <2>1, <3>4 DEF Admitted
      <3> QED
        BY <1>2, <3>1, <3>2, <3>3, <3>4
    <2>6. dc # <<>> => Permitted
      BY <2>1 DEF Admitted
    <2>7. Admitted'
      BY <1>1, <2>5, <2>6 DEF Admitted, Compatible, Permitted
    <2> QED
      BY <2>1, <2>4, <2>7 DEF ReceiverStep
  <1> QED
    BY <1>1, <1>4, <1>6, <1>7, <1>8, ReceiverActs

LEMMA StepRClosed == ASSUME IInv, RClosed PROVE IInv'
  <1>1. UNCHANGED <<src, blind, dest, wire, back, accepted, peer, s, dc, acks, saved>> /\ Listens
    BY DEF RClosed, Listens
  <1>2. IsReceiver(r') /\ r'.dirs = r.dirs /\ r'.pc = "failed"
    BY DEF RClosed, IInv, Shape, IsReceiver
  <1>3. ReceiverStep
    <2>1. Admitted /\ accepted' \in Nat
      BY <1>1 DEF IInv, Shape
    <2>2. Admitted'
      BY <1>1, <1>2, <2>1 DEF Admitted, Permitted, Compatible
    <2> QED
      BY <1>2, <2>1, <2>2 DEF ReceiverStep
  <1>4. WireStep /\ BackStep /\ QueueStep /\ Kept
    BY <1>1, WireSame, BackSame, QueueSame DEF Kept
  <1> QED
    BY <1>1, <1>3, <1>4, ReceiverActs

LEMMA ImageIsFinite ==
    ASSUME NEW S, IsFiniteSet(S), NEW f
    PROVE  IsFiniteSet({f[x] : x \in S})
  <1> DEFINE T == {f[x] : x \in S}
             g == [x \in S |-> f[x]]
  <1>1. g \in Surjection(S, T)
    BY DEF Surjection
  <1> QED
    BY <1>1, FS_Surjection

\* The answers to a page are finitely many, and ask for files of the source.
LEMMA PageSays ==
    ASSUME IInv, Kept, NEW m, m = PageOf(m.dir), NEW left, NEW unset, unset \subseteq m.files, RPage(m, left, unset)
    PROVE  BackStep
  <1> DEFINE made == {p \in m.subdirs : Creatable(p)}
             stuck == (m.subdirs \ made) \cup (Orphans(m) \cap left) \cup unset
             gone == Orphans(m) \ left
             replies == [p \in m.files |-> Classify(p)]
             failed == [p \in Paths |-> [t |-> "error", path |-> p]]
             deleted == [p \in Paths |-> [t |-> "deleted", path |-> p]]
             A == {replies[p] : p \in m.files \ unset}
             B == {[t |-> "error", path |-> p] : p \in stuck}
             C == {[t |-> "deleted", path |-> p] : p \in gone}
  <1>1. /\ m.files \subseteq Paths /\ m.subdirs \subseteq Paths /\ \A p \in m.files : InSource(p)
        /\ gone \subseteq Paths /\ stuck \subseteq Paths
    BY DEF PageOf, Children, InSource, Orphans
  <1>2. IsFiniteSet(Paths)
    BY RemoteTreeAssumption
  <1>3. IsFiniteSet(A)
    <2>1. IsFiniteSet(m.files \ unset)
      BY <1>1, <1>2, FS_Subset
    <2> HIDE DEF replies
    <2> QED
      BY <2>1, ImageIsFinite
  <1>4. IsFiniteSet(B)
    <2>1. IsFiniteSet(stuck)
      BY <1>1, <1>2, FS_Subset
    <2>2. B = {failed[p] : p \in stuck}
      BY <1>1
    <2> HIDE DEF stuck, failed
    <2>3. IsFiniteSet({failed[p] : p \in stuck})
      BY <2>1, ImageIsFinite
    <2> QED
      BY <2>2, <2>3
  <1>5. IsFiniteSet(C)
    <2>1. gone \subseteq Paths /\ IsFiniteSet(gone)
      BY <1>1, <1>2, FS_Subset
    <2>2. C = {deleted[p] : p \in gone}
      BY <2>1
    <2> HIDE DEF gone, deleted
    <2>3. IsFiniteSet({deleted[p] : p \in gone})
      BY <2>1, ImageIsFinite
    <2> QED
      BY <2>2, <2>3
  <1>6. \A x \in A : FromDest(x)'
    <2>1. \A p \in m.files : /\ replies[p] = Classify(p) /\ Classify(p).path = p
                             /\ Classify(p).t \in {"request", "classified"}
      BY DEF Classify
    <2> HIDE DEF replies
    <2>2. \A x \in A : FromDest(x)
      BY <1>1, <2>1 DEF FromDest
    <2> HIDE DEF A
    <2> QED
      BY <2>2, StaysTrue
  <1>7. \A x \in B \cup C : FromDest(x)'
    BY DEF FromDest
  <1>8. RSend((A \cup B) \cup C)
    BY DEF RPage
  <1> HIDE DEF A, B, C
  <1>9. IsFiniteSet((A \cup B) \cup C) /\ \A x \in (A \cup B) \cup C : FromDest(x)'
    <2>1. IsFiniteSet(A \cup B)
      BY <1>3, <1>4, FS_Union
    <2>2. IsFiniteSet((A \cup B) \cup C)
      BY <1>5, <2>1, FS_Union
    <2> QED
      BY <1>6, <1>7, <2>2
  <1> QED
    BY <1>8, <1>9, BackSends

\* A page may take away what is not of the source because nothing is missing in it.
LEMMA ListPage ==
    ASSUME IInv, r.pc = "loop", wire[2] # <<>>, Head(wire[2]).t = "page"
    PROVE  LET m == Head(wire[2])
           IN  m = PageOf(m.dir) /\ IsDir(src, m.dir) /\ Whole(m)
  <1>1. IsSeq(wire[2]) /\ Announced(wire[2]) /\ Sent
    BY DEF IInv, Shape, IsWire, Announcing, Listens
  <1>2. Whole(Head(wire[2])) /\ Head(wire[2]) \in Range(wire[2])
    BY <1>1, AnnouncedTail, TailIsSeq
  <1>3. FromSource(Head(wire[2]))
    BY <1>1, <1>2 DEF Sent
  <1> QED
    BY <1>2, <1>3 DEF FromSource

\* A page whose deletions leave a part of what they were to delete, and where some
\* files' metadata is not set.
Leaves(m, left, unset) ==
    /\ RPage(m, left, unset) /\ unset \subseteq MetadataOnly(m)
    /\ \A q \in left : q \in Orphans(m) \/ Parent[q] \in left

LEMMA ListPageEffect ==
    ASSUME IInv, r.pc = "loop", wire[2] # <<>>, Head(wire[2]).t = "page",
           NEW left, NEW unset, Leaves(Head(wire[2]), left, unset)
    PROVE  DestStep
  <1> DEFINE m == Head(wire[2])
  <1>1. m = PageOf(m.dir) /\ IsDir(src, m.dir) /\ Whole(m) /\ IsTree(src) /\ IsTree(dest)
    BY ListPage DEF IInv, Trees
  <1>2. m.t = "page" /\ RPage(m, left, unset) /\ \A q \in left : q \in Orphans(m) \/ Parent[q] \in left
    BY DEF Leaves
  <1> HIDE DEF m
  <1> QED
    BY <1>1, <1>2, PageEffect

\* What is done with a message of the list.
LEMMA ListCases ==
    ASSUME RList
    PROVE  LET m == Head(wire[2])
           IN  \/ UNCHANGED closed /\ \E left, unset : m.t = "page" /\ Leaves(m, left, unset)
               \/ RFail /\ UNCHANGED <<dest, back>>
               \/ m.t = "listDone" /\ RSend({[t |-> "requestsDone"]}) /\ UNCHANGED <<dest, r, closed>>
  <1> DEFINE m == Head(wire[2])
  <1>1. ASSUME m.t = "page", RPage(m, {}, {}) PROVE \E left, unset : m.t = "page" /\ Leaves(m, left, unset)
    BY <1>1 DEF Leaves
  <1>2. ASSUME m.t = "page", NEW p \in Orphans(m), NEW left \in Remains(p), RPage(m, left, {})
        PROVE  \E x, unset : m.t = "page" /\ Leaves(m, x, unset)
    BY <1>2 DEF Leaves, Remains
  <1>3. ASSUME m.t = "page", NEW p \in MetadataOnly(m), RPage(m, {}, {p})
        PROVE  \E left, unset : m.t = "page" /\ Leaves(m, left, unset)
    BY <1>3 DEF Leaves
  <1>4. \/ UNCHANGED closed /\ m.t = "page" /\ RPage(m, {}, {})
        \/ UNCHANGED closed /\ m.t = "page" /\ \E p \in Orphans(m) : \E left \in Remains(p) : RPage(m, left, {})
        \/ UNCHANGED closed /\ m.t = "page" /\ \E p \in MetadataOnly(m) : RPage(m, {}, {p})
        \/ RFail /\ UNCHANGED <<dest, back>>
        \/ m.t = "listDone" /\ RSend({[t |-> "requestsDone"]}) /\ UNCHANGED <<dest, r, closed>>
    BY DEF RList
  <1> QED
    BY <1>1, <1>2, <1>3, <1>4

LEMMA StepRList == ASSUME IInv, RList PROVE IInv'
  <1> DEFINE m == Head(wire[2])
  <1>1. /\ r.pc = "loop" /\ wire[2] # <<>> /\ accepted >= 2 /\ wire' = Take(wire, 2)
        /\ UNCHANGED <<src, blind, accepted, peer, s, dc, acks, saved>>
    BY DEF RList
  <1>2. Permitted /\ IsReceiver(r) /\ accepted' \in Nat /\ accepted' # 0
    BY <1>1 DEF IInv, Admitted, Shape
  <1>3. Listens
    BY <1>1 DEF Listens
  <1>4. QueueStep
    BY <1>1, QueueSame
  <1>5. ASSUME NEW left, NEW unset, m.t = "page", Leaves(m, left, unset) PROVE IInv'
    <2>1. m = PageOf(m.dir) /\ IsDir(src, m.dir) /\ Whole(m) /\ IsTree(src) /\ IsTree(dest)
      BY <1>1, <1>5, ListPage DEF IInv, Trees
    <2>2. /\ DestStep
          /\ \A p \in m.subdirs : /\ p \in Paths /\ src[p].kind = "dir"
                                  /\ Creatable(p) => dest'[p].kind = "dir"
      <3> HIDE DEF m
      <3> QED
        BY <1>5, <2>1, PageEffect DEF Leaves
    <2>3. Kept
      BY <1>1, <2>2 DEF Kept
    <2>4. BackStep
      <3> HIDE DEF m
      <3> QED
        BY <1>5, <2>1, <2>3, PageSays DEF Leaves, MetadataOnly
    <2>5. WireStep
      BY <1>1, <1>3, <1>5, WireTaken
    <2>6. ReceiverStep
      <3>1. IsReceiver(r') /\ r'.dirs = r.dirs \cup {p \in m.subdirs : Creatable(p)}
        BY <1>2, <1>5 DEF Leaves, RPage, IsReceiver
      <3>2. Permitted' /\ Compatible'
        BY <1>2, <2>3, StaysTrue DEF Permitted
      <3> QED
        BY <1>2, <2>2, <3>1, <3>2 DEF ReceiverStep, Admitted
    <2> QED
      BY <1>1, <1>4, <2>3, <2>4, <2>5, <2>6, ReceiverActs
  <1>6. ASSUME RFail, UNCHANGED <<dest, back>> PROVE IInv'
    <2>1. IsReceiver(r') /\ r'.dirs = {} /\ r'.pc = "abort"
      BY <1>2, <1>6 DEF RFail, IsReceiver
    <2>2. ~Listens'
      BY <1>2, <2>1 DEF Listens
    <2>3. WireStep
      BY <1>1, <2>2, WireTaken
    <2>4. ReceiverStep
      BY <1>1, <1>2, <2>1, ReceiverMoves
    <2>5. BackStep /\ Kept
      BY <1>1, <1>6, BackSame DEF Kept
    <2> QED
      BY <1>1, <1>4, <2>3, <2>4, <2>5, ReceiverActs
  <1>7. ASSUME m.t = "listDone", RSend({[t |-> "requestsDone"]}), UNCHANGED <<dest, r>> PROVE IInv'
    <2>1. WireStep
      BY <1>1, <1>3, <1>7, WireTaken
    <2> DEFINE e == [t |-> "requestsDone"]
    <2>2. e.t \notin {"request", "success"} /\ RSend({e})
      BY <1>7
    <2> HIDE DEF e
    <2>3. BackStep
      BY <2>2, SaysOne
    <2>4. ReceiverStep /\ Kept
      BY <1>1, <1>7, ReceiverSame DEF Kept
    <2> QED
      BY <1>1, <1>4, <2>1, <2>3, <2>4, ReceiverActs
  <1>8. \/ \E left, unset : m.t = "page" /\ Leaves(m, left, unset)
        \/ RFail /\ UNCHANGED <<dest, back>>
        \/ m.t = "listDone" /\ RSend({[t |-> "requestsDone"]}) /\ UNCHANGED <<dest, r>>
    BY ListCases
  <1> QED
    BY <1>5, <1>6, <1>7, <1>8

LEMMA DataEffect == ASSUME IInv, RData PROVE DestStep \/ UNCHANGED dest
  <1> DEFINE m == Head(wire[3])
  <1>1. dest' = IF m.t = "setAcl" /\ dest[m.path] # ABSENT THEN [dest EXCEPT ![m.path].acl = TRUE] ELSE dest
    BY DEF RData
  <1>2. m.t = "setAcl" => InSource(m.path)
    <2>1. IsSeq(wire[3]) /\ wire[3] # <<>> /\ \A x \in Range(wire[3]) : FromSource(x)
      BY DEF IInv, Shape, IsWire, Sent, RData
    <2>2. FromSource(m)
      BY <2>1, TailIsSeq
    <2> QED
      BY <2>2 DEF FromSource
  <1> HIDE DEF m
  <1>3. CASE m.t = "setAcl" /\ dest[m.path] # ABSENT
    <2>1. m.path \in Paths /\ Trees /\ dest' = [dest EXCEPT ![m.path].acl = TRUE]
      BY <1>1, <1>2, <1>3 DEF InSource, IInv
    <2> QED
      BY <1>3, <2>1, AclEffect
  <1> QED
    BY <1>1, <1>3

LEMMA StepRData == ASSUME IInv, RData PROVE IInv'
  <1> DEFINE m == Head(wire[3])
  <1>1. /\ r.pc = "loop" /\ wire[3] # <<>> /\ wire' = Take(wire, 3)
        /\ UNCHANGED <<src, blind, back, accepted, peer, s, r, acks, saved>>
        /\ dc' = IF m.t = "data" THEN Append(dc, m.path) ELSE dc
        /\ dest' = IF m.t = "setAcl" /\ dest[m.path] # ABSENT THEN [dest EXCEPT ![m.path].acl = TRUE] ELSE dest
    BY DEF RData
  <1>2. WireStep /\ FromSource(m)
    BY <1>1, WireTaken DEF Listens
  <1>3. m.t \in {"data", "setAcl"} => InSource(m.path)
    BY <1>2 DEF FromSource
  <1> HIDE DEF m
  <1>4. DestStep \/ UNCHANGED dest
    BY DataEffect
  <1>5. QueueStep
    <2>1. IsSeq(dc) /\ IsSeq(acks)
      BY DEF IInv, Shape
    <2>2. IsSeq(Append(dc, m.path)) /\ Range(Append(dc, m.path)) \subseteq Range(dc) \cup {m.path}
      BY <2>1, AppendIsSeq
    <2>3. IsSeq(dc') /\ \A p \in Range(dc') : p \in Range(dc) \/ InSource(p)
      BY <1>1, <1>3, <2>1, <2>2
    <2> QED
      BY <1>1, <2>1, <2>3 DEF QueueStep
  <1>6. Permitted /\ IsReceiver(r')
    BY <1>1 DEF IInv, Admitted, Shape
  <1>7. ReceiverStep /\ BackStep /\ Kept
    BY <1>1, <1>4, <1>6, ReceiverMoves, BackSame DEF Kept
  <1> QED
    BY <1>1, <1>2, <1>5, <1>7, ReceiverActs

LEMMA StepRControl == ASSUME IInv, RControl PROVE IInv'
  <1>1. /\ r.pc = "loop" /\ wire[1] # <<>> /\ wire' = Take(wire, 1)
        /\ UNCHANGED <<src, blind, dest, back, accepted, peer, s, dc, acks, saved>>
    BY DEF RControl
  <1>2. IsReceiver(r') /\ r'.dirs = r.dirs
    <2>1. \/ r' = Continue([r EXCEPT !.doneSeen = TRUE])
          \/ r' = Continue([r EXCEPT !.completed = @ + 1])
          \/ r' = r
      BY DEF RControl
    <2>2. IsReceiver(r)
      BY DEF IInv, Shape
    <2> QED
      BY <2>1, <2>2 DEF Continue, IsReceiver
  <1>3. WireStep
    BY <1>1, WireTaken DEF Listens
  <1>4. Permitted
    BY <1>1 DEF IInv, Admitted
  <1>5. ReceiverStep /\ BackStep /\ QueueStep /\ Kept
    BY <1>1, <1>2, <1>4, ReceiverMoves, BackSame, QueueSame DEF Kept
  <1> QED
    BY <1>1, <1>3, <1>5, ReceiverActs

LEMMA StepDiskCommit == ASSUME IInv, DiskCommit PROVE IInv'
  <1> DEFINE p == Head(dc)
             good == [path |-> p, ok |-> TRUE]
             bad == [path |-> p, ok |-> FALSE]
  <1>1. /\ dc # <<>> /\ dc' = Tail(dc)
        /\ UNCHANGED <<src, blind, wire, back, accepted, peer, s, r, saved>>
    BY DEF DiskCommit
  <1>2. IsSeq(dc) /\ IsSeq(acks) /\ Trees
    BY DEF IInv, Shape
  <1>3. IsSeq(dc') /\ Range(dc') \subseteq Range(dc) /\ p \in Range(dc)
    BY <1>1, <1>2, TailIsSeq
  <1>4. InSource(p)
    BY <1>3 DEF IInv, Outcomes
  <1>5. WireStep /\ BackStep /\ ReceiverStep
    <2>1. ReceiverStep /\ Listens' = Listens
      BY <1>1, ReceiverSame
    <2> QED
      BY <1>1, <2>1, WireSame, BackSame
  <1>6. \/ dest[p].kind # "dir" /\ Placeable(p) /\ dest' = Published(p) /\ acks' = Append(acks, good)
        \/ dest' = dest /\ acks' = Append(acks, bad)
    BY DEF DiskCommit
  <1>7. good.ok /\ good.path = p /\ ~bad.ok
    OBVIOUS
  <1> HIDE DEF p, good, bad
  <1>8. CASE dest[p].kind # "dir" /\ Placeable(p) /\ dest' = Published(p) /\ acks' = Append(acks, good)
    <2>1. DestStep /\ dest'[p].kind = "file" /\ dest'[p].data = src[p].data
      BY <1>2, <1>4, <1>8, CommitEffect
    <2>2. Kept
      BY <1>1, <2>1 DEF Kept
    <2>3. \A q : q = p => Done(q)'
      BY <1>1, <1>4, <2>1 DEF Done, InSource
    <2>4. IsSeq(acks') /\ Range(acks') \subseteq Range(acks) \cup {good}
      BY <1>2, <1>8, AppendIsSeq
    <2>5. \A a \in Range(acks') : a \in Range(acks) \/ a = good
      BY <2>4
    <2>6. \A a \in Range(acks') : a \in Range(acks) \/ Done(a.path)'
      BY <1>7, <2>3, <2>5
    <2>7. QueueStep
      BY <1>3, <2>4, <2>6 DEF QueueStep
    <2> QED
      BY <1>1, <1>5, <2>2, <2>7, ReceiverActs
  <1>9. CASE dest' = dest /\ acks' = Append(acks, bad)
    <2>1. Kept
      BY <1>1, <1>9 DEF Kept
    <2>2. IsSeq(acks') /\ Range(acks') \subseteq Range(acks) \cup {bad}
      BY <1>2, <1>9, AppendIsSeq
    <2>3. QueueStep
      BY <1>3, <1>7, <2>2 DEF QueueStep
    <2> QED
      BY <1>1, <1>5, <2>1, <2>3, ReceiverActs
  <1> QED
    BY <1>6, <1>8, <1>9

LEMMA StepROutcome == ASSUME IInv, ROutcome PROVE IInv'
  <1> DEFINE a == Head(acks)
             m == [t |-> IF a.ok THEN "success" ELSE "error", path |-> a.path]
  <1>1. /\ r.pc \in {"loop", "shutdown", "abort"} /\ acks # <<>> /\ acks' = Tail(acks) /\ RSend({m})
        /\ UNCHANGED <<src, blind, dest, wire, accepted, peer, s, dc, saved>>
    BY DEF ROutcome
  <1>2. IsSeq(dc) /\ IsSeq(acks) /\ IsReceiver(r)
    BY DEF IInv, Shape
  <1>3. IsSeq(acks') /\ Range(acks') \subseteq Range(acks) /\ a \in Range(acks)
    BY <1>1, <1>2, TailIsSeq
  <1>4. QueueStep /\ Kept
    BY <1>1, <1>2, <1>3 DEF QueueStep, Kept
  <1>5. IsReceiver(r') /\ r'.dirs = r.dirs /\ (r.pc # "loop" => r'.pc = r.pc)
    <2> DEFINE x == [r EXCEPT !.completed = @ + 1]
    <2>1. IsReceiver(x) /\ x.dirs = r.dirs /\ x.pc = r.pc
      BY <1>2 DEF IsReceiver
    <2>2. r' = IF r.pc = "loop" THEN Continue(x) ELSE x
      BY DEF ROutcome
    <2> HIDE DEF x
    <2> QED
      BY <2>1, <2>2 DEF Continue, IsReceiver
  <1>6. Permitted
    BY <1>1 DEF IInv, Admitted
  <1>7. ReceiverStep
    BY <1>1, <1>5, <1>6, ReceiverMoves
  <1>8. WireStep
    <2>1. Listens' => Listens
      BY <1>1, <1>5 DEF Listens
    <2> QED
      BY <1>1, <2>1, WireSame
  <1>9. BackStep
    <2>1. a.ok => Done(a.path)
      BY <1>3 DEF IInv, Outcomes
    <2>2. FromDest(m)
      BY <2>1 DEF FromDest
    <2> HIDE DEF m
    <2>3. \A x \in {m} : FromDest(x)'
      BY <1>4, <2>2, StaysTrue
    <2>4. IsFiniteSet({m})
      BY FS_Singleton
    <2> QED
      BY <1>1, <2>3, <2>4, BackSends
  <1> QED
    BY <1>1, <1>4, <1>7, <1>8, <1>9, ReceiverActs

LEMMA StepRLost == ASSUME IInv, RLost PROVE IInv'
  <1>1. /\ r.pc = "loop"
        /\ UNCHANGED <<src, blind, dest, wire, back, accepted, peer, s, dc, acks, saved>>
    BY DEF RLost
  <1>2. IsReceiver(r') /\ r'.dirs = {}
    BY DEF RLost, IInv, Shape, IsReceiver
  <1>3. Permitted
    BY <1>1 DEF IInv, Admitted
  <1>4. WireStep /\ BackStep /\ QueueStep /\ ReceiverStep /\ Kept
    BY <1>1, <1>2, <1>3, ReceiverMoves, WireSame, BackSame, QueueSame DEF Kept, Listens
  <1> QED
    BY <1>1, <1>4, ReceiverActs

LEMMA StepRShutdown == ASSUME IInv, RShutdown PROVE IInv'
  <1>1. /\ r.pc \in {"shutdown", "abort"} /\ \E failed : dest' = Finalized(failed)
        /\ UNCHANGED <<src, blind, wire, accepted, peer, s, dc, acks, saved>>
        /\ RSend(IF r.pc = "shutdown" THEN {[t |-> "allDone"]} ELSE {})
    BY DEF RShutdown
  <1>2. IsReceiver(r') /\ r'.dirs = r.dirs /\ r'.pc \in {"done", "failed"}
    BY DEF RShutdown, IInv, Shape, IsReceiver
  <1>3. Kept
    BY <1>1, FinalizedEffect DEF Kept, IInv
  <1>4. Permitted
    BY <1>1 DEF IInv, Admitted
  <1>5. ReceiverStep
    BY <1>1, <1>2, <1>4, ReceiverMoves
  <1>6. WireStep /\ QueueStep
    <2>1. Listens' => Listens
      BY <1>1, <1>2 DEF Listens
    <2> QED
      BY <1>1, <2>1, WireSame, QueueSame
  <1>7. BackStep
    <2> DEFINE e == [t |-> "allDone"]
    <2>1. e.t \notin {"request", "success"} /\ RSend(IF r.pc = "shutdown" THEN {e} ELSE {})
      BY <1>1
    <2> HIDE DEF e
    <2>2. CASE r.pc = "shutdown"
      BY <2>1, <2>2, SaysOne
    <2>3. CASE r.pc # "shutdown"
      <3>1. IsFiniteSet({}) /\ \A x \in {} : FromDest(x)'
        BY FS_EmptySet
      <3>2. RSend({})
        BY <2>1, <2>3
      <3> QED
        BY <3>1, <3>2, BackSends
    <2> QED
      BY <2>2, <2>3
  <1> QED
    BY <1>1, <1>3, <1>5, <1>6, <1>7, ReceiverActs

-----------------------------------------------------------------------------
(* The beginning of a session.                                             *)

LEMMA NoMessages ==
    /\ IsWire(<<<<>>, <<>>, <<>>>>, 3) /\ IsWire(<<<<>>, <<>>, <<>>, <<>>>>, 4)
    /\ \A i \in 1..3 : Range(<<<<>>, <<>>, <<>>>>[i]) \subseteq {}
    /\ \A i \in 1..4 : Range(<<<<>>, <<>>, <<>>, <<>>>>[i]) \subseteq {}
    /\ Announced(<<<<>>, <<>>, <<>>>>[2])
  <1> DEFINE w == <<<<>>, <<>>, <<>>>>
             b == <<<<>>, <<>>, <<>>, <<>>>>
  <1>1. w = [i \in 1..3 |-> w[i]] /\ \A i \in 1..3 : w[i] = <<>>
    OBVIOUS
  <1>2. b = [i \in 1..4 |-> b[i]] /\ \A i \in 1..4 : b[i] = <<>>
    OBVIOUS
  <1>3. Announced(<<>>)
    BY EmptyIsSeq, AnnouncedWhole
  <1>4. 2 \in 1..3
    OBVIOUS
  <1> HIDE DEF w, b
  <1>5. IsWire(w, 3) /\ IsWire(b, 4)
    BY <1>1, <1>2, EmptyIsSeq DEF IsWire
  <1>6. /\ \A i \in 1..3 : Range(w[i]) \subseteq {}
        /\ \A i \in 1..4 : Range(b[i]) \subseteq {}
        /\ Announced(w[2])
    BY <1>1, <1>2, <1>3, <1>4, EmptyIsSeq
  <1> QED
    BY <1>5, <1>6 DEF w, b

LEMMA Starts ==
    /\ IsSender(SStart) /\ SStart.completed = {}
    /\ IsReceiver(RStart) /\ RStart.dirs = {} /\ RStart.pc = "connect"
  BY DEF SStart, RStart, IsSender, IsReceiver

LEMMA InitInvariant == Init => IInv
  <1> SUFFICES ASSUME Init PROVE IInv
    OBVIOUS
  <1>1. /\ wire = <<<<>>, <<>>, <<>>>> /\ back = <<<<>>, <<>>, <<>>, <<>>>>
        /\ accepted = 0 /\ s = SStart /\ r = RStart /\ dc = <<>> /\ acks = <<>> /\ saved = {}
        /\ src \in SourceTrees /\ dest \in DestTrees
    BY DEF Init, Session
  <1>2. IsSeq(dc) /\ IsSeq(acks) /\ Range(dc) \subseteq {} /\ Range(acks) \subseteq {}
    BY <1>1, EmptyIsSeq
  <1>3. /\ IsWire(wire, 3) /\ IsWire(back, 4) /\ Announced(wire[2])
        /\ \A i \in 1..3 : Range(wire[i]) \subseteq {}
        /\ \A i \in 1..4 : Range(back[i]) \subseteq {}
    BY <1>1, NoMessages
  <1>4. Shape
    BY <1>1, <1>2, <1>3, Starts DEF Shape
  <1>5. Trees
    BY <1>1, Starts, RemoteTreeAssumption DEF Trees
  <1>6. Sent /\ Announcing /\ Replied
    BY <1>3 DEF Sent, Announcing, Replied
  <1>7. Outcomes
    BY <1>1, <1>2, Starts DEF Outcomes
  <1>8. Admitted
    BY <1>1, Starts DEF Admitted
  <1> QED
    BY <1>4, <1>5, <1>6, <1>7, <1>8 DEF IInv

LEMMA StepNextSession == ASSUME IInv, NextSession PROVE IInv'
  <1>1. /\ wire' = <<<<>>, <<>>, <<>>>> /\ back' = <<<<>>, <<>>, <<>>, <<>>>>
        /\ accepted' = 0 /\ s' = SStart /\ r' = RStart /\ dc' = <<>>
        /\ UNCHANGED <<src, blind, dest, peer, dc, acks, saved>>
    BY DEF NextSession
  <1>2. WireStep
    <2>1. IsWire(wire', 3) /\ Announced(wire'[2]) /\ \A i \in 1..3 : Range(wire'[i]) \subseteq {}
      BY <1>1, NoMessages
    <2> QED
      BY <2>1 DEF WireStep
  <1>3. BackStep
    <2>1. IsWire(back', 4) /\ \A i \in 1..4 : Range(back'[i]) \subseteq {}
      BY <1>1, NoMessages
    <2> QED
      BY <2>1 DEF BackStep
  <1>4. SenderStep
    BY <1>1, Starts DEF SenderStep
  <1>5. ReceiverStep
    BY <1>1, Starts DEF ReceiverStep, Admitted
  <1>6. QueueStep /\ Kept
    BY <1>1, QueueSame DEF Kept
  <1> QED
    BY <1>2, <1>3, <1>4, <1>5, <1>6, StepKeepsInvariant

LEMMA StepStutters == ASSUME IInv, UNCHANGED vars PROVE IInv'
  <1>1. UNCHANGED <<src, blind, dest, wire, back, accepted, peer, s, r, dc, acks, saved>>
    BY DEF vars
  <1>2. ReceiverStep /\ BackStep /\ QueueStep /\ Kept
    BY <1>1, ReceiverSame, BackSame, QueueSame DEF Kept
  <1>3. WireStep
    BY <1>1, WireSame DEF Listens
  <1> QED
    BY <1>1, <1>2, <1>3, ReceiverActs

LEMMA NextKeepsInvariant == IInv /\ [Next]_vars => IInv'
  <1> SUFFICES ASSUME IInv, [Next]_vars PROVE IInv'
    OBVIOUS
  <1>1. CASE Sender
    BY <1>1, StepSHello, StepSAnswer, StepSClosed, StepAdvertise, StepSReceive, StepSaveCheckpoint, StepSFinish
       DEF Sender
  <1>2. CASE Receiver
    BY <1>2, StepAccept, StepRHello, StepRClosed, StepRList, StepRData, StepRControl, StepROutcome, StepRLost,
       StepRShutdown DEF Receiver
  <1>3. CASE DiskCommit
    BY <1>3, StepDiskCommit
  <1>4. CASE ListingFails
    BY <1>4, StepListingFails
  <1>5. CASE Lose \/ Crash
    BY <1>5, StepLoseOrCrash
  <1>6. CASE NextSession
    BY <1>6, StepNextSession
  <1>7. CASE UNCHANGED vars
    BY <1>7, StepStutters
  <1> QED
    BY <1>1, <1>2, <1>3, <1>4, <1>5, <1>6, <1>7 DEF Next

-----------------------------------------------------------------------------
(* A clean session mirrors the source.  The second invariant follows every *)
(* path from its page to its outcome, and counts what is on the way.       *)

\* The source as it was found, and what of it could not be observed.
Observed ==
    /\ src \in SourceTrees
    /\ blind \subseteq Paths

\* Each message is on the stream of its kind.
Placed ==
    /\ \A i \in 1..3 : \A m \in Range(wire[i]) : SenderIndex(m) = i
    /\ \A i \in 1..4 : \A m \in Range(back[i]) : StreamSlot(ReceiverStreamKind(m)) = i

\* A stream holds a message of a kind; it holds none behind one of that kind.
Says(q, t) == \E m \in Range(q) : m.t = t
LastOf(q, t) == \A i \in 1..Len(q) : q[i].t = t => i = Len(q)

\* The end of the list is the last of it; what says that the list has ended
\* comes after all its pages, and AllDone after every other answer.
Told == s.allDone \/ Says(back[4], "allDone")
Listed ==
    /\ IsSeq(s.todo) /\ (s.listed => s.todo = <<>>)
    /\ LastOf(wire[2], "listDone") /\ (Says(wire[2], "listDone") => s.listed)
    /\ Says(back[2], "requestsDone") \/ s.doneSent => s.listed /\ wire[2] = <<>>
    /\ Says(wire[1], "transferDone") \/ r.doneSeen => s.doneSent
Answered ==
    /\ r.pc \in {"shutdown", "done"} => Complete(r)
    /\ r.pc = "done" => dc = <<>> /\ acks = <<>>
    /\ LastOf(back[4], "allDone") /\ (s.allDone => back[4] = <<>>)
    /\ Told => r.pc = "done"
    /\ accepted = 0 => r.pc \in {"connect", "failed"}
    /\ s.pc = "done" => s.allDone

\* Every request is answered at most once.
Count(q, t) == Cardinality({i \in 1..Len(q) : q[i].t = t})
Pending == Count(back[2], "request") + Count(wire[3], "data") + Len(dc) + Len(acks) + Count(wire[1], "entryError")
Counted == r.requested \in Nat /\ r.completed \in Nat /\ r.completed + Pending <= r.requested

\* Nothing has gone wrong, or is on the way to the sender's errors.
Clean ==
    /\ s.errors = {} /\ ~Says(back[4], "error") /\ ~Says(wire[2], "listError")
    /\ \A a \in Range(acks) : a.ok

\* A page that is still to be handled, and a file that is asked for.
Coming(d) == d \in Range(s.todo) \/ \E m \in Range(wire[2]) : m.t = "page" /\ m.dir = d
Asked(p) ==
    \/ \E m \in Range(back[2]) : m.t = "request" /\ m.path = p
    \/ \E m \in Range(wire[3]) : m.t = "data" /\ m.path = p
    \/ p \in Range(dc)

\* What is at the destination of a path whose page was handled.
Right(p) == Done(p) /\ dest[p].meta = src[p].meta
Gone(p) == src[p] = ABSENT /\ dest[p].kind \in {"absent", "part"}
Settled(p) ==
    CASE src[p].kind = "file" -> Right(p) \/ Asked(p)
      [] src[p].kind = "dir" -> dest[p].kind = "dir" /\ p \in r.dirs
      [] OTHER -> DeleteTarget => Gone(p)
Handled(d) == \A p \in Children(d) : (src[p] # ABSENT => p \notin blind) /\ Settled(p)

Covering ==
    ~closed /\ Clean => \A d \in (Paths \cup {ROOT}) \ blind : IsDir(src, d) => Coming(d) \/ Handled(d)

Mirrored ==
    \A p \in Paths :
        IF src[p] # ABSENT
        THEN /\ dest[p].kind = src[p].kind /\ dest[p].data = src[p].data
             /\ dest[p].meta = src[p].meta \/ p \in r.unrestored
        ELSE DeleteTarget => dest[p].kind \in {"absent", "part"}
Finished == Told /\ Clean => Mirrored

\* What makes a clean session mirror the source, kept together with IInv.
MInv == Observed /\ Placed /\ Listed /\ Answered /\ Counted /\ Covering /\ Finished

-----------------------------------------------------------------------------
(* More about sequences: what is in them, and how many of a kind.          *)

LEMMA JoinedRange ==
    ASSUME NEW q, NEW u, IsSeq(q), IsSeq(u)
    PROVE  Range(q \o u) = Range(q) \cup Range(u)
  <1>1. /\ IsSeq(q \o u) /\ Range(q \o u) \subseteq Range(q) \cup Range(u)
        /\ Len(q) \in Nat /\ Len(u) \in Nat /\ Len(q \o u) = Len(q) + Len(u)
        /\ \A i \in 1..Len(q) : (q \o u)[i] = q[i]
        /\ \A i \in 1..Len(u) : (q \o u)[Len(q) + i] = u[i]
    BY ConcatIsSeq
  <1>2. ASSUME NEW i \in 1..Len(q) PROVE q[i] \in Range(q \o u)
    <2>1. i \in 1..Len(q \o u) /\ (q \o u)[i] = q[i]
      BY <1>1
    <2> QED
      BY <1>1, <2>1, ElementAt
  <1>3. ASSUME NEW i \in 1..Len(u) PROVE u[i] \in Range(q \o u)
    <2>1. Len(q) + i \in 1..Len(q \o u) /\ (q \o u)[Len(q) + i] = u[i]
      BY <1>1
    <2> QED
      BY <1>1, <2>1, ElementAt
  <1>4. DOMAIN q = 1..Len(q) /\ DOMAIN u = 1..Len(u)
    BY DEF IsSeq
  <1>5. Range(q) \subseteq Range(q \o u) /\ Range(u) \subseteq Range(q \o u)
    BY <1>2, <1>3, <1>4 DEF Range
  <1> QED
    BY <1>1, <1>5

LEMMA InRange ==
    ASSUME NEW q, IsSeq(q), NEW m \in Range(q)
    PROVE  \E i \in 1..Len(q) : q[i] = m
  <1>1. DOMAIN q = 1..Len(q)
    BY DEF IsSeq
  <1> QED
    BY <1>1 DEF Range

\* What is not the head stays.
LEMMA TailKeeps ==
    ASSUME NEW q, IsSeq(q), q # <<>>
    PROVE  Range(q) = Range(Tail(q)) \cup {Head(q)}
  <1>1. /\ IsSeq(Tail(q)) /\ Range(Tail(q)) \subseteq Range(q)
        /\ Head(q) \in Range(q) /\ Head(q) = q[1]
        /\ Len(q) \in Nat \ {0} /\ Len(Tail(q)) = Len(q) - 1
        /\ \A i \in 1..(Len(q) - 1) : Tail(q)[i] = q[i + 1]
    BY TailIsSeq
  <1>2. ASSUME NEW m \in Range(q), m # Head(q) PROVE m \in Range(Tail(q))
    <2>1. PICK i \in 1..Len(q) : q[i] = m
      BY InRange
    <2>2. i - 1 \in 1..Len(Tail(q)) /\ Tail(q)[i - 1] = m
      <3>1. i # 1
        BY <1>1, <1>2, <2>1
      <3>2. i - 1 \in 1..(Len(q) - 1) /\ (i - 1) + 1 = i
        BY <1>1, <3>1
      <3> QED
        BY <1>1, <2>1, <3>2
    <2> QED
      BY <1>1, <2>2, ElementAt
  <1> QED
    BY <1>1, <1>2

LEMMA SaysMore ==
    ASSUME NEW q, NEW u, IsSeq(q), IsSeq(u)
    PROVE  \A t : Says(q \o u, t) <=> Says(q, t) \/ Says(u, t)
  BY JoinedRange DEF Says

LEMMA SaysLess ==
    ASSUME NEW q, IsSeq(q), q # <<>>
    PROVE  \A t : /\ Says(Tail(q), t) => Says(q, t)
                  /\ Says(q, t) => Says(Tail(q), t) \/ Head(q).t = t
  BY TailKeeps DEF Says

LEMMA SaysAt ==
    ASSUME NEW q, IsSeq(q), NEW i \in 1..Len(q)
    PROVE  Says(q, q[i].t)
  BY ElementAt DEF Says

\* What is not said again keeps its place at the end.
LEMMA LastOfMore ==
    ASSUME NEW q, NEW u, IsSeq(q), IsSeq(u), NEW t, LastOf(q, t), ~Says(q, t) \/ u = <<>>, LastOf(u, t)
    PROVE  LastOf(q \o u, t)
  <1>1. CASE u = <<>>
    <2>1. q \o u = q
      BY <1>1 DEF IsSeq
    <2> QED
      BY <2>1
  <1>2. CASE ~Says(q, t)
    <2>1. /\ Len(q) \in Nat /\ Len(u) \in Nat /\ Len(q \o u) = Len(q) + Len(u)
          /\ \A i \in 1..Len(q) : (q \o u)[i] = q[i]
          /\ \A i \in 1..Len(u) : (q \o u)[Len(q) + i] = u[i]
      BY ConcatIsSeq
    <2> SUFFICES ASSUME NEW i \in 1..Len(q \o u), (q \o u)[i].t = t PROVE i = Len(q \o u)
      BY DEF LastOf
    <2>2. i > Len(q)
      BY <1>2, <2>1, SaysAt
    <2>3. i - Len(q) \in 1..Len(u) /\ i = Len(q) + (i - Len(q))
      BY <2>1, <2>2
    <2>4. PICK k \in 1..Len(u) : i = Len(q) + k
      BY <2>3
    <2>5. u[k].t = t
      BY <2>1, <2>4
    <2>6. k = Len(u)
      BY <2>5 DEF LastOf
    <2> QED
      BY <2>1, <2>4, <2>6
  <1> QED
    BY <1>1, <1>2

LEMMA LastOfLess ==
    ASSUME NEW q, IsSeq(q), q # <<>>, NEW t, LastOf(q, t)
    PROVE  LastOf(Tail(q), t) /\ (Head(q).t = t => Tail(q) = <<>>)
  <1> DEFINE u == Tail(q)
             h == Head(q)
  <1>1. /\ IsSeq(u) /\ h = q[1]
        /\ Len(q) \in Nat \ {0} /\ Len(u) = Len(q) - 1
        /\ \A i \in 1..(Len(q) - 1) : u[i] = q[i + 1]
    BY TailIsSeq
  <1>2. \A i \in 1..Len(q) : q[i].t = t => i = Len(q)
    BY DEF LastOf
  <1> HIDE DEF u, h
  <1>3. \A i \in 1..Len(u) : u[i].t = t => i = Len(u)
    BY <1>1, <1>2
  <1>4. ASSUME h.t = t PROVE u = <<>>
    <2>1. 1 = Len(q)
      BY <1>1, <1>2, <1>4
    <2>2. Len(u) = 0 /\ u \in Seq(Range(u))
      BY <1>1, <2>1 DEF IsSeq
    <2> QED
      BY <2>2, EmptySeq
  <1> QED
    BY <1>3, <1>4 DEF LastOf, u, h

LEMMA LastOfNone ==
    ASSUME NEW q, IsSeq(q), NEW t, ~Says(q, t)
    PROVE  LastOf(q, t)
  BY SaysAt DEF LastOf

LEMMA CountIs ==
    ASSUME NEW q, IsSeq(q), NEW t
    PROVE  /\ IsFiniteSet({i \in 1..Len(q) : q[i].t = t}) /\ Count(q, t) \in Nat
           /\ Count(q, t) = 0 <=> ~Says(q, t)
  <1> DEFINE S == {i \in 1..Len(q) : q[i].t = t}
  <1>1. Len(q) \in Nat
    BY DEF IsSeq
  <1>2. IsFiniteSet(1..Len(q))
    BY <1>1, FS_Interval
  <1>3. S \in SUBSET (1..Len(q))
    OBVIOUS
  <1>4. IsFiniteSet(S) /\ Cardinality(S) \in Nat
    <2> HIDE DEF S
    <2> QED
      BY <1>2, <1>3, FS_Subset, FS_CardinalityType
  <1>5. Cardinality(S) = 0 <=> S = {}
    <2> HIDE DEF S
    <2> QED
      BY <1>4, FS_EmptySet
  <1>6. S = {} <=> ~Says(q, t)
    BY SaysAt, InRange DEF Says
  <1> QED
    BY <1>4, <1>5, <1>6 DEF Count

\* As many numbers, each greater by k.
LEMMA Shifted ==
    ASSUME NEW S \in SUBSET Nat, IsFiniteSet(S), NEW k \in Nat
    PROVE  LET T == {k + i : i \in S}
           IN  IsFiniteSet(T) /\ Cardinality(T) = Cardinality(S)
  <1> DEFINE T == {k + i : i \in S}
             f == [i \in S |-> k + i]
  <1>1. f \in [S -> T] /\ \A y \in T : \E i \in S : f[i] = y
    OBVIOUS
  <1>2. \A i, j \in S : f[i] = f[j] => i = j
    OBVIOUS
  <1>3. f \in Bijection(S, T)
    <2> HIDE DEF f, T
    <2> QED
      BY <1>1, <1>2 DEF Bijection, Injection, Surjection, IsInjective
  <1>4. ExistsBijection(S, T)
    BY <1>3 DEF ExistsBijection
  <1> QED
    <2> HIDE DEF f, T
    <2>1. IsFiniteSet(T) /\ Cardinality(T) = Cardinality(S)
      BY <1>4, FS_Bijection
    <2> QED
      BY <2>1 DEF T

LEMMA CountMore ==
    ASSUME NEW q, NEW u, IsSeq(q), IsSeq(u), NEW t
    PROVE  Count(q \o u, t) = Count(q, t) + Count(u, t)
  <1> DEFINE A == {i \in 1..Len(q) : q[i].t = t}
             B == {i \in 1..Len(u) : u[i].t = t}
             C == {i \in 1..Len(q \o u) : (q \o u)[i].t = t}
             T == {Len(q) + i : i \in B}
  <1>1. /\ Len(q) \in Nat /\ Len(u) \in Nat /\ Len(q \o u) = Len(q) + Len(u)
        /\ \A i \in 1..Len(q) : (q \o u)[i] = q[i]
        /\ \A i \in 1..Len(u) : (q \o u)[Len(q) + i] = u[i]
    BY ConcatIsSeq
  <1>2. IsFiniteSet(A) /\ IsFiniteSet(B) /\ Cardinality(A) \in Nat /\ Cardinality(B) \in Nat
    BY CountIs DEF Count
  <1>3. IsFiniteSet(T) /\ Cardinality(T) = Cardinality(B)
    <2>1. B \in SUBSET Nat
      BY <1>1
    <2> HIDE DEF B
    <2> QED
      BY <1>1, <1>2, <2>1, Shifted
  <1>4. C = A \cup T /\ A \cap T = {}
    <2>1. A \subseteq C
      BY <1>1
    <2>2. T \subseteq C
      BY <1>1
    <2>3. ASSUME NEW i \in C, i \notin A PROVE i \in T
      <3>1. i \in 1..(Len(q) + Len(u)) /\ (q \o u)[i].t = t
        BY <1>1
      <3>2. i > Len(q)
        BY <1>1, <2>3, <3>1
      <3>3. i - Len(q) \in 1..Len(u) /\ i = Len(q) + (i - Len(q))
        BY <1>1, <3>1, <3>2
      <3>4. PICK k \in 1..Len(u) : i = Len(q) + k
        BY <3>3
      <3>5. k \in B
        BY <1>1, <3>1, <3>4
      <3> QED
        BY <3>4, <3>5
    <2>4. A \cap T = {}
      BY <1>1
    <2> QED
      BY <2>1, <2>2, <2>3, <2>4
  <1> HIDE DEF A, B, C, T
  <1>5. Cardinality(A \cup T) = Cardinality(A) + Cardinality(T) - Cardinality(A \cap T)
    BY <1>2, <1>3, FS_Union
  <1>6. Cardinality(C) = Cardinality(A) + Cardinality(B)
    BY <1>2, <1>3, <1>4, <1>5, FS_EmptySet
  <1> QED
    BY <1>6 DEF Count, A, B, C

LEMMA CountOne ==
    ASSUME NEW m, NEW t
    PROVE  Count(<<m>>, t) = IF m.t = t THEN 1 ELSE 0
  <1> DEFINE S == {i \in 1..Len(<<m>>) : <<m>>[i].t = t}
  <1>1. S = IF m.t = t THEN {1} ELSE {}
    OBVIOUS
  <1> HIDE DEF S
  <1>2. Cardinality(S) = IF m.t = t THEN 1 ELSE 0
    BY <1>1, FS_EmptySet, FS_Singleton
  <1> QED
    BY <1>2 DEF Count, S

LEMMA CountLess ==
    ASSUME NEW q, IsSeq(q), q # <<>>, NEW t
    PROVE  Count(q, t) = Count(Tail(q), t) + (IF Head(q).t = t THEN 1 ELSE 0)
  <1>1. /\ IsSeq(Tail(q)) /\ Head(q) = q[1]
        /\ Len(q) \in Nat \ {0} /\ Len(Tail(q)) = Len(q) - 1
        /\ \A i \in 1..(Len(q) - 1) : Tail(q)[i] = q[i + 1]
    BY TailIsSeq
  <1> DEFINE h == Head(q)
             u == <<h>> \o Tail(q)
  <1>2. IsSeq(<<h>>) /\ <<h>>[1] = h /\ Len(<<h>>) = 1
    BY OneMessage
  <1>3. /\ IsSeq(u) /\ Len(Tail(q)) \in Nat /\ Len(u) = 1 + Len(Tail(q))
        /\ \A i \in 1..1 : u[i] = <<h>>[i]
        /\ \A i \in 1..Len(Tail(q)) : u[1 + i] = Tail(q)[i]
    <2> HIDE DEF h
    <2> QED
      BY <1>1, <1>2, ConcatIsSeq
  <1> HIDE DEF u
  <1>4. \A i \in 1..Len(q) : u[i] = q[i]
    <2> SUFFICES ASSUME NEW i \in 1..Len(q) PROVE u[i] = q[i]
      OBVIOUS
    <2>1. CASE i = 1
      BY <1>1, <1>2, <1>3, <2>1
    <2>2. CASE i # 1
      <3>1. i - 1 \in 1..Len(Tail(q)) /\ i = 1 + (i - 1) /\ i = (i - 1) + 1
        BY <1>1, <2>2
      <3>2. PICK k \in 1..Len(Tail(q)) : i = 1 + k /\ i = k + 1
        BY <3>1
      <3> QED
        BY <1>1, <1>3, <3>2
    <2> QED
      BY <2>1, <2>2
  <1>5. Len(u) = Len(q)
    BY <1>1, <1>3
  <1>6. Count(u, t) = Count(q, t)
    BY <1>4, <1>5 DEF Count
  <1>7. Count(u, t) = Count(<<h>>, t) + Count(Tail(q), t)
    <2> HIDE DEF h
    <2> QED
      BY <1>1, <1>2, CountMore DEF u
  <1>8. Count(Tail(q), t) \in Nat
    BY <1>1, CountIs
  <1> QED
    BY <1>6, <1>7, <1>8, CountOne

\* A set as a sequence names each element, and each once.
LEMMA SetSaid ==
    ASSUME NEW S, IsFiniteSet(S)
    PROVE  /\ IsSeq(SetToSeq(S)) /\ Range(SetToSeq(S)) = S /\ Len(SetToSeq(S)) = Cardinality(S)
           /\ Cardinality(S) \in Nat
           /\ \A t : Count(SetToSeq(S), t) <= Cardinality({m \in S : m.t = t})
  <1> DEFINE n == Cardinality(S)
             q == SetToSeq(S)
  <1>1. n \in Nat /\ ExistsBijection(1..n, S) /\ IsFiniteSet(1..n) /\ Cardinality(1..n) = n
    BY FS_CardinalityType, FS_Interval
  <1>2. PICK f \in Bijection(1..n, S) : TRUE
    BY <1>1 DEF ExistsBijection
  <1>3. f \in [1..n -> S] /\ IsInjective(f)
    BY <1>2 DEF Bijection, Injection, IsInjective
  <1>4. q \in [1..n -> S] /\ IsInjective(q)
    BY <1>3 DEF SetToSeq
  <1>5. IsSeq(q)
    BY SetAsSeq
  <1> HIDE DEF q, n
  <1>6. q \in Injection(1..n, S)
    BY <1>4 DEF Injection, IsInjective
  <1>7. q \in Surjection(1..n, S)
    <2>1. Cardinality(1..n) = Cardinality(S)
      BY <1>1 DEF n
    <2> QED
      BY <1>6, <2>1, FS_Injection
  <1>8. Range(q) = S /\ Len(q) = n
    <2>1. DOMAIN q = 1..n
      BY <1>4
    <2>2. Len(q) = n
      BY <1>1, <1>5, <2>1 DEF IsSeq
    <2>3. Range(q) = S
      BY <1>4, <1>7, <2>1 DEF Range, Surjection
    <2> QED
      BY <2>2, <2>3
  <1>9. ASSUME NEW t PROVE Count(q, t) <= Cardinality({m \in S : m.t = t})
    <2> DEFINE I == {i \in 1..Len(q) : q[i].t = t}
               M == {m \in S : m.t = t}
               g == [i \in I |-> q[i]]
    <2>1. IsFiniteSet(M)
      BY FS_Subset
    <2>2. \A i \in I : i \in 1..n /\ q[i] \in M
      BY <1>4, <1>8
    <2>3. \A i, j \in I : q[i] = q[j] => i = j
      BY <1>4, <2>2 DEF IsInjective
    <2> HIDE DEF I, M
    <2>4. g \in Injection(I, M)
      BY <2>2, <2>3 DEF Injection, IsInjective
    <2>5. Cardinality(I) <= Cardinality(M)
      <3> HIDE DEF g
      <3> QED
        BY <2>1, <2>4, FS_Injection
    <2> QED
      BY <2>5 DEF Count, I, M
  <1> QED
    BY <1>1, <1>5, <1>8, <1>9 DEF q, n

-----------------------------------------------------------------------------
(* What stays right at the destination.                                    *)

Settles ==
    /\ \A p \in Paths : Right(p) => Right(p)'
    /\ \A p \in Paths : Gone(p) => Gone(p)'
    /\ \A p \in Paths : src[p].kind = "dir" /\ dest[p].kind = "dir" => dest'[p].kind = "dir"

LEMMA NodeMeta ==
    ASSUME NEW n \in Node, n # ABSENT, NEW m \in Nat
    PROVE  /\ [n EXCEPT !.meta = m].meta = m
           /\ [n EXCEPT !.acl = TRUE].meta = n.meta /\ [n EXCEPT !.acl = FALSE].meta = n.meta
  BY DEF Node, ABSENT

LEMMA PutLeaves ==
    ASSUME NEW t, NEW ps, NEW n, NEW q \in Paths \ ps, t[q].kind # "dir"
    PROVE  Put(t, ps, n)[q] = t[q]
  BY DEF Put

\* Above a directory of the source are directories of the source.
LEMMA AboveSource ==
    ASSUME IsTree(src), NEW p \in Paths, src[p].kind = "dir", NEW d \in Above[p]
    PROVE  d \in Paths /\ src[d].kind = "dir"
  <1>1. d \in Paths /\ p \in Under[d]
    BY DEF Above
  <1> SUFFICES ASSUME src[d].kind # "dir" PROVE FALSE
    BY <1>1
  <1> DEFINE t == {x \in Paths : x = d \/ src[x] = ABSENT}
  <1>2. \A x \in Paths : Parent[x] \in t => x \in t
    <2> SUFFICES ASSUME NEW x \in Paths, Parent[x] \in t, src[x] # ABSENT PROVE FALSE
      OBVIOUS
    <2>1. Parent[x] # ROOT /\ src[Parent[x]].kind # "dir"
      BY RemoteTreeAssumption, NewDirIsDir
    <2> QED
      BY <2>1 DEF IsTree, IsDir
  <1>3. Under[d] \subseteq t
    BY <1>1, <1>2, UnderLeast
  <1> QED
    BY <1>1, <1>3, NewDirIsDir

\* Only directories of the source are made.
LEMMA DirsLeave ==
    ASSUME IsTree(src), NEW t, NEW made, \A p \in made : p \in Paths /\ src[p].kind = "dir",
           NEW q \in Paths, t[q].kind # "dir", t[q] # ABSENT \/ src[q].kind # "dir"
    PROVE  AfterDirs(t, made)[q] = t[q]
  <1> DEFINE ps == {d \in UNION {Above[p] : p \in made} : t[d] = ABSENT}
  <1>1. q \notin ps
    <2> SUFFICES ASSUME q \in ps PROVE FALSE
      OBVIOUS
    <2>1. PICK p \in made : q \in Above[p]
      OBVIOUS
    <2>2. src[q].kind = "dir"
      BY <2>1, AboveSource
    <2> QED
      BY <2>2
  <1>2. AfterDirs(t, made) = Put(t, ps, NewDir)
    BY DEF AfterDirs
  <1> HIDE DEF ps
  <1> QED
    BY <1>1, <1>2, PutLeaves

LEMMA PageKeeps ==
    ASSUME IsTree(src), IsTree(dest), NEW m, m = PageOf(m.dir), IsDir(src, m.dir), m.t = "page", Whole(m),
           NEW left, \A q \in left : q \in Orphans(m) \/ Parent[q] \in left, NEW unset, RPage(m, left, unset), src' = src
    PROVE  /\ Settles
           /\ \A p \in m.files \ unset : ~Asks(p) => Right(p)'
           /\ \A p \in Orphans(m) \ left : dest'[p] = ABSENT
  <1> DEFINE made == {p \in m.subdirs : Creatable(p)}
             gone == Orphans(m)
             ps == (UNION {Under[p] : p \in gone}) \ left
             t1 == AfterMetadata(m, unset)
             t2 == AfterDirs(t1, made)
  <1>1. dest' = Put(t2, ps, ABSENT)
    BY DEF RPage, AfterDeletes
  <1>2. /\ m.files \subseteq Paths /\ \A p \in m.files : src[p].kind = "file"
        /\ \A p \in made : p \in Paths /\ src[p].kind = "dir"
    BY DEF PageOf, Children
  <1>3. DestStep
    BY PageEffect
  <1>4. \A q \in Paths : t1[q] = IF q \in MetadataOnly(m) \ unset THEN [dest[q] EXCEPT !.meta = src[q].meta] ELSE dest[q]
    BY DEF AfterMetadata
  <1>5. \A p \in Orphans(m) \ left : dest'[p] = ABSENT
    <2> SUFFICES ASSUME NEW p \in Orphans(m) \ left PROVE dest'[p] = ABSENT
      OBVIOUS
    <2>1. p \in Paths /\ p \in ps
      BY UnderItself DEF Orphans, Children
    <2> HIDE DEF ps, t2
    <2> QED
      BY <1>1, <2>1 DEF Put
  <1> HIDE DEF t1, ps, made
  <1>6. ASSUME NEW q \in Paths, t1[q].kind # "dir", t1[q] # ABSENT \/ src[q].kind # "dir"
        PROVE  dest'[q] = IF q \in ps THEN ABSENT ELSE t1[q]
    <2>1. t2[q] = t1[q]
      BY <1>2, <1>6, DirsLeave
    <2> HIDE DEF t2
    <2>2. CASE q \in ps
      BY <1>1, <2>2 DEF Put
    <2>3. CASE q \notin ps
      BY <1>1, <1>6, <2>1, <2>3, PutLeaves
    <2> QED
      BY <2>2, <2>3
  <1>7. ASSUME NEW q \in Paths, Done(q), t1[q].meta = src[q].meta PROVE Right(q)'
    <2>1. dest'[q].kind = "file" /\ dest'[q].data = src[q].data /\ src[q].kind = "file" /\ dest[q].kind = "file"
      BY <1>3, <1>7 DEF DestStep, Done, InSource
    <2>2. t1[q].kind = "file"
      <3>1. CASE q \in MetadataOnly(m) \ unset
        <4>1. dest[q] \in Node /\ dest[q] # ABSENT /\ src[q].meta \in Nat
          BY <2>1, NodeKinds, NewDirIsDir DEF IsTree, Node, ABSENT
        <4>2. PICK n \in Node, k \in Nat : n = dest[q] /\ k = src[q].meta /\ n # ABSENT
          BY <4>1
        <4>3. [n EXCEPT !.meta = k].kind = n.kind
          BY <4>2, NodeUpdates
        <4> QED
          BY <1>4, <2>1, <3>1, <4>2, <4>3
      <3>2. CASE q \notin MetadataOnly(m) \ unset
        BY <1>4, <2>1, <3>2
      <3> QED
        BY <3>1, <3>2
    <2>3. dest'[q] = IF q \in ps THEN ABSENT ELSE t1[q]
      BY <1>6, <2>2, NewDirIsDir
    <2>4. dest'[q] = t1[q]
      BY <2>1, <2>3, NewDirIsDir
    <2> QED
      BY <1>7, <2>1, <2>4 DEF Right, Done, InSource
  <1>8. ASSUME NEW q \in Paths, Done(q), dest[q].meta = src[q].meta \/ q \in MetadataOnly(m) \ unset
        PROVE  t1[q].meta = src[q].meta
    <2>1. dest[q] \in Node /\ dest[q] # ABSENT /\ src[q].meta \in Nat
      BY <1>8, NodeKinds, NewDirIsDir DEF IsTree, Node, ABSENT, Done, InSource
    <2>2. PICK n \in Node, k \in Nat : n = dest[q] /\ k = src[q].meta /\ n # ABSENT
      BY <2>1
    <2>3. [n EXCEPT !.meta = k].meta = k
      BY <2>2, NodeMeta
    <2> QED
      BY <1>4, <1>8, <2>2, <2>3
  <1>9. \A p \in Paths : Right(p) => Right(p)'
    BY <1>7, <1>8 DEF Right
  <1>10. \A p \in m.files \ unset : ~Asks(p) => Right(p)'
    <2> SUFFICES ASSUME NEW p \in m.files \ unset, ~Asks(p) PROVE Right(p)'
      OBVIOUS
    <2>1. p \in Paths /\ InSource(p)
      BY <1>2 DEF InSource
    <2>2. Done(p) /\ (dest[p].meta = src[p].meta \/ p \in MetadataOnly(m) \ unset)
      BY <2>1 DEF Asks, Check, Done, MetadataOnly
    <2> QED
      BY <1>7, <1>8, <2>1, <2>2
  <1>11. \A p \in Paths : Gone(p) => Gone(p)'
    <2> SUFFICES ASSUME NEW p \in Paths, Gone(p) PROVE Gone(p)'
      OBVIOUS
    <2>1. src[p] = ABSENT /\ src[p].kind = "absent" /\ dest[p].kind \in {"absent", "part"}
      BY NewDirIsDir DEF Gone
    <2>2. t1[p] = dest[p]
      BY <1>2, <1>4, <2>1 DEF MetadataOnly
    <2>3. dest'[p] = IF p \in ps THEN ABSENT ELSE t1[p]
      BY <1>6, <2>1, <2>2
    <2> QED
      BY <2>1, <2>2, <2>3, NewDirIsDir DEF Gone
  <1>12. Settles
    BY <1>3, <1>9, <1>11 DEF Settles, DestStep
  <1> QED
    BY <1>5, <1>10, <1>12

LEMMA CommitKeeps ==
    ASSUME Trees, NEW p, InSource(p), dest[p].kind # "dir", Placeable(p), dest' = Published(p), src' = src
    PROVE  Settles /\ Right(p)'
  <1> DEFINE t1 == AfterDirs(dest, Directory(p))
             n == [src[p] EXCEPT !.acl = FALSE]
  <1>1. p \in Paths /\ src[p].kind = "file" /\ IsTree(src) /\ IsTree(dest)
    BY DEF InSource, Trees
  <1>2. n.meta = src[p].meta
    <2>1. src[p] \in Node /\ src[p] # ABSENT /\ 0 \in Nat
      BY <1>1, NewDirIsDir, NodeKinds
    <2> QED
      BY <2>1, NodeMeta
  <1>3. \A x \in Directory(p) : x \in Paths /\ src[x].kind = "dir"
    BY <1>1, NewDirIsDir, RemoteTreeAssumption DEF Directory, IsTree, IsDir
  <1>4. DestStep /\ dest'[p].kind = "file" /\ dest'[p].data = src[p].data
    BY CommitEffect
  <1>5. dest' = Put(t1, {p}, n)
    BY DEF Published
  <1> HIDE DEF n
  <1>6. ASSUME NEW q \in Paths \ {p}, dest[q].kind # "dir", dest[q] # ABSENT \/ src[q].kind # "dir"
        PROVE  dest'[q] = dest[q]
    <2>1. t1[q] = dest[q]
      BY <1>1, <1>3, <1>6, DirsLeave
    <2> HIDE DEF t1
    <2> QED
      BY <1>5, <1>6, <2>1, PutLeaves
  <1>7. dest'[p] = n
    <2> HIDE DEF t1
    <2> QED
      BY <1>1, <1>5 DEF Put
  <1>8. Right(p)'
    BY <1>1, <1>2, <1>4, <1>7 DEF Right, Done, InSource
  <1>9. \A q \in Paths : Right(q) => Right(q)'
    <2> SUFFICES ASSUME NEW q \in Paths \ {p}, Right(q) PROVE Right(q)'
      BY <1>8
    <2>1. dest[q].kind = "file" /\ dest[q] # ABSENT
      BY NewDirIsDir DEF Right, Done
    <2>2. dest'[q] = dest[q]
      BY <1>6, <2>1
    <2> QED
      BY <2>2 DEF Right, Done, InSource
  <1>10. \A q \in Paths : Gone(q) => Gone(q)'
    <2> SUFFICES ASSUME NEW q \in Paths, Gone(q) PROVE Gone(q)'
      OBVIOUS
    <2>1. src[q].kind = "absent" /\ dest[q].kind \in {"absent", "part"} /\ q # p
      BY <1>1, NewDirIsDir DEF Gone
    <2>2. dest'[q] = dest[q]
      BY <1>6, <2>1
    <2> QED
      BY <2>2 DEF Gone
  <1> QED
    BY <1>4, <1>8, <1>9, <1>10 DEF Settles, DestStep

LEMMA AclKeeps ==
    ASSUME Trees, NEW p \in Paths, dest[p] # ABSENT, dest' = [dest EXCEPT ![p].acl = TRUE], src' = src
    PROVE  Settles
  <1>1. DestStep /\ dest \in [Paths -> Node]
    BY AclEffect DEF Trees, IsTree
  <1>2. dest'[p] = [dest[p] EXCEPT !.acl = TRUE] /\ \A q \in Paths \ {p} : dest'[q] = dest[q]
    BY <1>1
  <1>3. dest'[p].meta = dest[p].meta /\ dest'[p].kind = dest[p].kind /\ dest'[p].data = dest[p].data
    <2>1. dest[p] \in Node /\ 0 \in Nat
      BY <1>1
    <2> QED
      BY <1>2, <2>1, NodeMeta, NodeUpdates
  <1>4. \A q \in Paths : dest'[q].meta = dest[q].meta /\ dest'[q].kind = dest[q].kind /\ dest'[q].data = dest[q].data
    BY <1>2, <1>3
  <1> QED
    BY <1>4 DEF Settles, Right, Gone, Done, InSource

LEMMA FinalizedKeeps ==
    ASSUME Trees, NEW failed, dest' = Finalized(failed), src' = src
    PROVE  /\ Settles
           /\ \A p \in r.dirs \ failed : dest'[p].meta = src[p].meta
           /\ \A p \in Paths : dest'[p].kind = dest[p].kind
  <1>1. ASSUME NEW p \in r.dirs \ failed
        PROVE  p \in Paths /\ src[p].kind = "dir" /\ dest'[p].kind = "dir" /\ dest[p].kind = "dir" /\ dest'[p].meta = src[p].meta
    <2>1. p \in Paths /\ src[p].kind = "dir" /\ dest[p].kind = "dir"
      BY DEF Trees
    <2>2. dest'[p] = [dest[p] EXCEPT !.meta = src[p].meta]
      BY <2>1 DEF Finalized
    <2>3. dest[p] \in Node /\ dest[p] # ABSENT /\ src[p].meta \in Nat
      <3>1. dest[p] \in Node /\ src[p] \in Node
        BY <2>1 DEF Trees, IsTree
      <3> QED
        BY <2>1, <3>1 DEF Node, ABSENT
    <2>4. PICK n \in Node, k \in Nat : n = dest[p] /\ k = src[p].meta /\ n # ABSENT
      BY <2>3
    <2>5. [n EXCEPT !.meta = k].kind = n.kind /\ [n EXCEPT !.meta = k].meta = k
      BY <2>4, NodeUpdates, NodeMeta
    <2> QED
      BY <2>1, <2>2, <2>4, <2>5
  <1>2. \A p \in Paths \ (r.dirs \ failed) : dest'[p] = dest[p]
    BY DEF Finalized
  <1>3. \A p \in Paths : dest'[p].kind = dest[p].kind
    BY <1>1, <1>2
  <1>4. \A p \in Paths : Right(p) => Right(p)'
    <2> SUFFICES ASSUME NEW p \in Paths, Right(p) PROVE Right(p)'
      OBVIOUS
    <2>1. p \notin r.dirs \ failed
      BY <1>1 DEF Right, Done
    <2>2. dest'[p] = dest[p]
      BY <1>2, <2>1
    <2> QED
      BY <2>2 DEF Right, Done, InSource
  <1>5. \A p \in Paths : Gone(p) => Gone(p)'
    BY <1>3 DEF Gone
  <1> QED
    BY <1>1, <1>3, <1>4, <1>5 DEF Settles

LEMMA SameSettles == ASSUME UNCHANGED <<src, dest>> PROVE Settles
  BY DEF Settles, Right, Gone, Done, InSource

-----------------------------------------------------------------------------
(* More about streams: what a step leaves on each, and what it adds.       *)

LEMMA Slots ==
    ASSUME NEW m
    PROVE  /\ SenderIndex(m) =
                IF m.t \in {"handshake", "auth", "config", "transferDone", "entryError"} THEN 1
                ELSE IF m.t \in {"page", "listError", "listDone"} THEN 2 ELSE 3
           /\ StreamSlot(ReceiverStreamKind(m)) =
                IF m.t \in {"handshakeAck", "authResult"} THEN 1
                ELSE IF m.t \in {"request", "classified", "deleted", "requestsDone"} THEN 2 ELSE 4
  <1>1. /\ CLIENT_INITIATED[1] = "Control" /\ CLIENT_INITIATED[2] = "FileList" /\ CLIENT_INITIATED[3] = "Data"
        /\ 1..3 = {1, 2, 3}
    BY DEF CLIENT_INITIATED
  <1>2. /\ (CHOOSE i \in 1..3 : CLIENT_INITIATED[i] = "Control") = 1
        /\ (CHOOSE i \in 1..3 : CLIENT_INITIATED[i] = "FileList") = 2
        /\ (CHOOSE i \in 1..3 : CLIENT_INITIATED[i] = "Data") = 3
    BY <1>1
  <1>3. SenderStreamKind(m) =
          IF m.t \in {"handshake", "auth", "config", "transferDone", "entryError"} THEN "Control"
          ELSE IF m.t \in {"page", "listError", "listDone"} THEN "FileList" ELSE "Data"
    BY DEF SenderStreamKind
  <1>4. ReceiverStreamKind(m) =
          IF m.t \in {"handshakeAck", "authResult"} THEN "Control"
          ELSE IF m.t \in {"request", "classified", "deleted", "requestsDone"} THEN "FileList" ELSE "AckProgress"
    BY DEF ReceiverStreamKind
  <1> DEFINE k == SenderStreamKind(m)
             l == ReceiverStreamKind(m)
  <1>5. k = SenderStreamKind(m) /\ l = ReceiverStreamKind(m)
    OBVIOUS
  <1> HIDE DEF k, l
  <1>6. SenderIndex(m) = CHOOSE i \in 1..3 : CLIENT_INITIATED[i] = k
    BY <1>5 DEF SenderIndex
  <1>7. StreamSlot(ReceiverStreamKind(m)) = IF l = "AckProgress" THEN 4 ELSE CHOOSE i \in 1..3 : CLIENT_INITIATED[i] = l
    BY <1>5 DEF StreamSlot
  <1>8. /\ k = "Control" => SenderIndex(m) = 1
        /\ k = "FileList" => SenderIndex(m) = 2
        /\ k = "Data" => SenderIndex(m) = 3
    BY <1>2, <1>6, Zenon
  <1>9. /\ l = "Control" => StreamSlot(ReceiverStreamKind(m)) = 1
        /\ l = "FileList" => StreamSlot(ReceiverStreamKind(m)) = 2
        /\ l = "AckProgress" => StreamSlot(ReceiverStreamKind(m)) = 4
    BY <1>2, <1>7
  <1> QED
    BY <1>3, <1>4, <1>5, <1>8, <1>9

\* What the sender sends for one stream.
LEMMA SentTo ==
    ASSUME IsWire(wire, 3), NEW ms, IsSeq(ms), ms # <<>>, SSend(ms), NEW k \in 1..3,
           \A m \in Range(ms) : SenderIndex(m) = k
    PROVE  /\ \A j \in 1..3 : j # k => wire'[j] = wire[j]
           /\ wire'[k] = wire[k] \o (IF closed THEN <<>> ELSE ms)
           /\ wire'[k] = IF closed THEN wire[k] ELSE wire[k] \o ms
  <1>1. ms[1] \in Range(ms)
    BY TailIsSeq
  <1>2. /\ \A j \in 1..3 : IsSeq(wire[j])
        /\ \A j \in 1..3 : wire'[j] = IF j = k THEN wire[j] \o (IF closed THEN <<>> ELSE ms) ELSE wire[j]
    BY <1>1 DEF IsWire, SSend
  <1>3. wire[k] \o <<>> = wire[k]
    BY <1>2 DEF IsSeq
  <1> QED
    BY <1>2, <1>3

\* One message for one stream.
LEMMA SentOne ==
    ASSUME IsWire(wire, 3), NEW m, SSend(<<m>>), NEW k \in 1..3, SenderIndex(m) = k
    PROVE  /\ \A j \in 1..3 : j # k => wire'[j] = wire[j]
           /\ \A x \in Range(wire'[k]) : x \in Range(wire[k]) \/ x = m
           /\ Range(wire[k]) \subseteq Range(wire'[k])
           /\ ~closed => m \in Range(wire'[k])
           /\ \A t : /\ Says(wire'[k], t) => Says(wire[k], t) \/ m.t = t
                     /\ Says(wire[k], t) => Says(wire'[k], t)
                     /\ Count(wire'[k], t) <= Count(wire[k], t) + (IF m.t = t THEN 1 ELSE 0)
                     /\ LastOf(wire[k], t) /\ ~Says(wire[k], t) => LastOf(wire'[k], t)
                     /\ LastOf(wire[k], t) /\ m.t # t => LastOf(wire'[k], t) \/ Says(wire[k], t)
  <1>1. IsSeq(<<m>>) /\ Range(<<m>>) = {m} /\ <<m>> # <<>> /\ IsSeq(wire[k])
    BY OneMessage DEF IsWire
  <1>2. /\ \A j \in 1..3 : j # k => wire'[j] = wire[j]
        /\ wire'[k] = IF closed THEN wire[k] ELSE wire[k] \o <<m>>
    BY <1>1, SentTo
  <1>3. LastOf(<<m>>, m.t) /\ \A t : LastOf(<<m>>, t)
    BY DEF LastOf
  <1>4. CASE closed
    <2>1. wire'[k] = wire[k]
      BY <1>2, <1>4
    <2>2. \A t : Count(wire[k], t) \in Nat
      BY <1>1, CountIs
    <2> QED
      BY <1>2, <1>4, <2>1, <2>2
  <1>5. CASE ~closed
    <2> DEFINE q == wire[k]
               u == <<m>>
    <2>1. wire'[k] = q \o u
      BY <1>2, <1>5
    <2> HIDE DEF q, u
    <2>2. IsSeq(q) /\ IsSeq(u) /\ Range(u) = {m} /\ \A t : LastOf(u, t)
      BY <1>1, <1>3 DEF q, u
    <2>3. Range(q \o u) = Range(q) \cup {m}
      BY <2>2, JoinedRange
    <2>4. \A t : Says(u, t) <=> m.t = t
      BY <2>2 DEF Says
    <2>5. \A t : Says(q \o u, t) <=> Says(q, t) \/ m.t = t
      BY <2>2, <2>4, SaysMore
    <2>6. \A t : Count(u, t) = IF m.t = t THEN 1 ELSE 0
      BY CountOne DEF u
    <2>7. ASSUME NEW t PROVE Count(q \o u, t) <= Count(q, t) + (IF m.t = t THEN 1 ELSE 0)
      <3>1. Count(q \o u, t) = Count(q, t) + Count(u, t) /\ Count(q, t) \in Nat
        <4>1. Count(q \o u, t) = Count(q, t) + Count(u, t)
          BY <2>2, CountMore
        <4>2. Count(q, t) \in Nat
          BY <2>2, CountIs
        <4> QED
          BY <4>1, <4>2
      <3> QED
        BY <2>6, <3>1
    <2>8. \A t : LastOf(q, t) /\ ~Says(q, t) => LastOf(q \o u, t)
      BY <2>2, LastOfMore
    <2>9. q = wire[k]
      BY DEF q
    <2> QED
      BY <1>2, <2>1, <2>3, <2>5, <2>7, <2>8, <2>9
  <1> QED
    BY <1>4, <1>5

\* What the receiver answers.
LEMMA Answers ==
    ASSUME IsWire(back, 4), NEW ms, IsFiniteSet(ms), RSend(ms), NEW j \in 1..4,
           NEW new, \A m : m \in new <=> m \in ms /\ StreamSlot(ReceiverStreamKind(m)) = j
    PROVE  /\ closed => back'[j] = back[j]
           /\ new = {} => back'[j] = back[j]
           /\ \A m \in Range(back'[j]) : m \in Range(back[j]) \/ m \in new
           /\ Range(back[j]) \subseteq Range(back'[j])
           /\ ~closed => new \subseteq Range(back'[j])
           /\ \A t : /\ Says(back[j], t) => Says(back'[j], t)
                     /\ Says(back'[j], t) => Says(back[j], t) \/ \E m \in new : m.t = t
                     /\ LastOf(back[j], t) /\ ~Says(back[j], t) /\ Cardinality(new) <= 1 => LastOf(back'[j], t)
                     /\ ~Says(back[j], t) /\ ~(\E m \in new : m.t = t) => LastOf(back'[j], t)
           /\ \A t : \A c \in SUBSET new : (\A m \in new : m.t = t => m \in c) =>
                  Count(back'[j], t) <= Count(back[j], t) + Cardinality(c)
  <1> DEFINE N == {m \in ms : StreamSlot(ReceiverStreamKind(m)) = j}
             q == back[j]
             u == SetToSeq(new)
  <1>0. new = N
    OBVIOUS
  <1>1. new \subseteq ms /\ IsFiniteSet(new)
    BY FS_Subset
  <1>2. back'[j] = IF closed THEN q \o <<>> ELSE q \o u
    <2>1. back'[j] = q \o IF closed THEN <<>> ELSE SetToSeq(N)
      BY DEF RSend
    <2> HIDE DEF N
    <2> QED
      BY <1>0, <2>1
  <1>3. IsSeq(q)
    BY DEF IsWire
  <1>4. q \o <<>> = q
    BY <1>3 DEF IsSeq
  <1> HIDE DEF N, q
  <1>5. /\ IsSeq(u) /\ Range(u) = new /\ Len(u) = Cardinality(new) /\ Cardinality(new) \in Nat
        /\ \A t : Count(u, t) <= Cardinality({m \in new : m.t = t})
    BY <1>1, SetSaid
  <1> HIDE DEF u
  <1>6. ASSUME NEW t PROVE Count(q, t) \in Nat /\ Count(u, t) \in Nat /\ Cardinality({m \in new : m.t = t}) \in Nat
    <2>1. IsFiniteSet({m \in new : m.t = t})
      BY <1>1, FS_Subset
    <2> QED
      BY <1>3, <1>5, <2>1, CountIs, FS_CardinalityType
  <1>9. ASSUME NEW t, NEW c \in SUBSET new, \A m \in new : m.t = t => m \in c
        PROVE  Count(back'[j], t) <= Count(back[j], t) + Cardinality(c)
    <2>1. IsFiniteSet(c) /\ Cardinality(c) \in Nat
      BY <1>1, FS_Subset, FS_CardinalityType
    <2> DEFINE M == {m \in new : m.t = t}
    <2>2. M \in SUBSET c
      BY <1>9
    <2>3. Count(q, t) \in Nat /\ Count(u, t) \in Nat /\ Count(u, t) <= Cardinality(M) /\ Cardinality(M) \in Nat
      BY <1>5, <1>6
    <2> HIDE DEF M
    <2>4. Cardinality(M) <= Cardinality(c)
      BY <2>1, <2>2, FS_Subset
    <2>5. back'[j] = q \/ back'[j] = q \o u
      BY <1>2, <1>4
    <2>6. Count(q \o u, t) = Count(q, t) + Count(u, t)
      BY <1>3, <1>5, CountMore
    <2>7. Count(q, t) <= Count(q, t) + Cardinality(c) /\ Count(q \o u, t) <= Count(q, t) + Cardinality(c)
      BY <2>1, <2>3, <2>4, <2>6
    <2> QED
      BY <2>5, <2>7 DEF q
  <1>7. CASE closed
    <2>1. back'[j] = q
      BY <1>2, <1>4, <1>7
    <2>2. \A t : ~Says(q, t) => LastOf(q, t)
      BY <1>3, LastOfNone
    <2> QED
      BY <1>3, <1>7, <1>9, <2>1, <2>2 DEF q
  <1>8. CASE ~closed
    <2>1. back'[j] = q \o u
      BY <1>2, <1>8
    <2>2. Range(q \o u) = Range(q) \cup new
      BY <1>3, <1>5, JoinedRange
    <2>3. \A t : Says(q \o u, t) <=> Says(q, t) \/ \E m \in new : m.t = t
      <3>1. \A t : Says(u, t) <=> \E m \in new : m.t = t
        BY <1>5 DEF Says
      <3> QED
        BY <1>3, <1>5, <3>1, SaysMore
    <2>5. ASSUME NEW t, LastOf(q, t), ~Says(q, t), Cardinality(new) <= 1 PROVE LastOf(q \o u, t)
      <3>1. LastOf(u, t)
        BY <1>5, <2>5 DEF LastOf
      <3> QED
        BY <1>3, <1>5, <2>5, <3>1, LastOfMore
    <2>6. ASSUME NEW t, ~Says(q, t), ~(\E m \in new : m.t = t) PROVE LastOf(q \o u, t)
      <3>1. IsSeq(q \o u) /\ ~Says(q \o u, t)
        BY <1>3, <1>5, <2>3, <2>6, ConcatIsSeq
      <3> QED
        BY <3>1, LastOfNone
    <2>7. new = {} => q \o u = q
      <3> SUFFICES ASSUME new = {} PROVE q \o u = q
        OBVIOUS
      <3>1. Len(u) = 0 /\ u \in Seq(Range(u))
        BY <1>5, FS_EmptySet DEF IsSeq
      <3>2. u = <<>>
        BY <3>1, EmptySeq
      <3> QED
        BY <1>4, <3>2
    <2> QED
      BY <1>8, <1>9, <2>1, <2>2, <2>3, <2>5, <2>6, <2>7 DEF q
  <1> QED
    BY <1>7, <1>8

\* A message taken from a stream.
LEMMA Took ==
    ASSUME NEW n \in Nat, NEW w, IsWire(w, n), NEW i \in 1..n, w[i] # <<>>
    PROVE  LET m == Head(w[i])
               v == Take(w, i)
           IN  /\ m \in Range(w[i])
               /\ \A j \in 1..n : j # i => v[j] = w[j]
               /\ Range(w[i]) = Range(v[i]) \cup {m}
               /\ \A t : /\ Says(v[i], t) => Says(w[i], t)
                         /\ Says(w[i], t) => Says(v[i], t) \/ m.t = t
                         /\ LastOf(w[i], t) => LastOf(v[i], t) /\ (m.t = t => v[i] = <<>>)
  <1> DEFINE v == Take(w, i)
  <1>1. v[i] = Tail(w[i]) /\ \A j \in 1..n : j # i => v[j] = w[j]
    BY Taken
  <1> HIDE DEF v
  <1>2. IsSeq(w[i])
    BY DEF IsWire
  <1> DEFINE q == w[i]
  <1> HIDE DEF q
  <1>3. /\ Head(q) \in Range(q) /\ Range(q) = Range(Tail(q)) \cup {Head(q)}
        /\ \A t : /\ Says(Tail(q), t) => Says(q, t)
                  /\ Says(q, t) => Says(Tail(q), t) \/ Head(q).t = t
                  /\ LastOf(q, t) => LastOf(Tail(q), t) /\ (Head(q).t = t => Tail(q) = <<>>)
    BY <1>2, TailKeeps, SaysLess, LastOfLess DEF q
  <1> QED
    BY <1>1, <1>3 DEF q, v

-----------------------------------------------------------------------------
(* What a step has to leave for the parts of the second invariant.         *)

LEMMA CoveringKept ==
    ASSUME Covering, UNCHANGED <<src, blind>>,
           ~closed' /\ Clean' => ~closed /\ Clean,
           ~closed' /\ Clean' => \A d \in (Paths \cup {ROOT}) \ blind :
                                     IsDir(src, d) /\ Coming(d) => Coming(d)' \/ Handled(d)',
           ~closed' /\ Clean' => \A p \in Paths : Settled(p) => Settled(p)'
    PROVE  Covering'
  <1> SUFFICES ASSUME ~closed', Clean', NEW d \in (Paths \cup {ROOT}) \ blind, IsDir(src, d)
               PROVE  Coming(d)' \/ Handled(d)'
    BY DEF Covering, IsDir
  <1>1. Coming(d) \/ Handled(d)
    BY DEF Covering
  <1>2. CASE Handled(d)
    <2>1. \A p \in Children(d) : p \in Paths /\ (src[p] # ABSENT => p \notin blind) /\ Settled(p)
      BY <1>2 DEF Handled, Children
    <2>2. \A p \in Children(d) : (src'[p] # ABSENT => p \notin blind') /\ Settled(p)'
      BY <2>1
    <2> QED
      BY <2>2 DEF Handled
  <1> QED
    BY <1>1, <1>2

LEMMA SettledKept ==
    ASSUME Settles, UNCHANGED src, r.dirs \subseteq r'.dirs,
           NEW p \in Paths, Asked(p) => Asked(p)' \/ Right(p)', Settled(p)
    PROVE  Settled(p)'
  <1>1. CASE src[p].kind = "file"
    <2>1. Right(p) \/ Asked(p)
      BY <1>1 DEF Settled
    <2>2. Right(p)' \/ Asked(p)'
      BY <2>1 DEF Settles
    <2> QED
      BY <1>1, <2>2 DEF Settled
  <1>2. CASE src[p].kind = "dir"
    BY <1>2 DEF Settled, Settles
  <1>3. CASE src[p].kind \notin {"file", "dir"}
    <2>1. DeleteTarget => Gone(p)
      BY <1>3 DEF Settled
    <2>2. DeleteTarget => Gone(p)'
      BY <2>1 DEF Settles
    <2> QED
      BY <1>3, <2>2 DEF Settled
  <1> QED
    BY <1>1, <1>2, <1>3

LEMMA FinishedKept ==
    ASSUME Finished, UNCHANGED src, Told' /\ Clean' => Told /\ Clean, Told => UNCHANGED <<dest, r>>
    PROVE  Finished'
  BY DEF Finished, Mirrored

LEMMA PlacedKept ==
    ASSUME Placed,
           \A i \in 1..3 : \A m \in Range(wire'[i]) : m \in Range(wire[i]) \/ SenderIndex(m) = i,
           \A i \in 1..4 : \A m \in Range(back'[i]) : m \in Range(back[i]) \/ StreamSlot(ReceiverStreamKind(m)) = i
    PROVE  Placed'
  BY DEF Placed

\* The counts are numbers.
LEMMA CountsOf ==
    ASSUME NEW w, IsWire(w, 3), NEW b, IsWire(b, 4)
    PROVE  /\ Count(b[2], "request") \in Nat /\ Count(w[3], "data") \in Nat /\ Count(w[1], "entryError") \in Nat
           /\ IsSeq(w[1]) /\ IsSeq(w[2]) /\ IsSeq(w[3]) /\ IsSeq(b[1]) /\ IsSeq(b[2]) /\ IsSeq(b[4])
  <1>1. IsSeq(w[1]) /\ IsSeq(w[2]) /\ IsSeq(w[3]) /\ IsSeq(b[1]) /\ IsSeq(b[2]) /\ IsSeq(b[4])
    BY DEF IsWire
  <1> QED
    BY <1>1, CountIs

LEMMA CountsAre ==
    ASSUME IInv
    PROVE  /\ Count(back[2], "request") \in Nat /\ Count(wire[3], "data") \in Nat /\ Count(wire[1], "entryError") \in Nat
           /\ IsSeq(wire[1]) /\ IsSeq(wire[2]) /\ IsSeq(wire[3]) /\ IsSeq(back[1]) /\ IsSeq(back[2]) /\ IsSeq(back[4])
           /\ IsWire(wire, 3) /\ IsWire(back, 4)
           /\ IsSeq(dc) /\ IsSeq(acks) /\ Len(dc) \in Nat /\ Len(acks) \in Nat
           /\ IsSender(s) /\ IsReceiver(r)
  <1>1. IsWire(wire, 3) /\ IsWire(back, 4) /\ IsSeq(dc) /\ IsSeq(acks) /\ IsSender(s) /\ IsReceiver(r)
    BY DEF IInv, Shape
  <1>2. Len(dc) \in Nat /\ Len(acks) \in Nat
    BY <1>1 DEF IsSeq
  <1> QED
    BY <1>1, <1>2, CountsOf

\* A step of the sender that leaves the list alone.
LEMMA SenderQuiet ==
    ASSUME IInv, IInv', MInv, UNCHANGED <<src, blind, dest, accepted, r, dc, acks>>,
           wire'[2] = wire[2], s'.todo = s.todo, s'.listed = s.listed, closed => closed',
           Placed',
           Says(back'[2], "requestsDone") => Says(back[2], "requestsDone"),
           s.doneSent => s'.doneSent, s'.doneSent => s.doneSent \/ Says(back[2], "requestsDone"),
           Says(wire'[1], "transferDone") => Says(wire[1], "transferDone") \/ s'.doneSent,
           LastOf(back'[4], "allDone"), s'.allDone => back'[4] = <<>>, Told' => Told,
           s'.pc = "done" => s'.allDone,
           Count(back'[2], "request") + Count(wire'[3], "data") + Count(wire'[1], "entryError")
               <= Count(back[2], "request") + Count(wire[3], "data") + Count(wire[1], "entryError"),
           Clean' => s.errors = {} /\ ~Says(back[4], "error"),
           ~closed' /\ Clean' => \A p \in Paths : Asked(p) => Asked(p)'
    PROVE  MInv'
  <1>1. Observed' /\ Placed'
    BY DEF MInv, Observed
  <1>2. Listed'
    <2>1. Listed
      BY DEF MInv
    <2>2. IsSeq(s'.todo)
      BY <2>1 DEF Listed
    <2> QED
      BY <2>1, <2>2 DEF Listed
  <1>3. Answered'
    BY DEF MInv, Answered, Complete
  <1>4. Counted'
    <2>1. /\ Count(back[2], "request") \in Nat /\ Count(wire[3], "data") \in Nat /\ Count(wire[1], "entryError") \in Nat
          /\ Len(dc) \in Nat /\ Len(acks) \in Nat
      BY CountsAre
    <2>2. /\ Count(back'[2], "request") \in Nat /\ Count(wire'[3], "data") \in Nat /\ Count(wire'[1], "entryError") \in Nat
      <3>1. IsWire(wire', 3) /\ IsWire(back', 4)
        BY DEF IInv, Shape
      <3> QED
        BY <3>1, CountsOf
    <2>3. PICK a \in Nat, b \in Nat, c \in Nat, d \in Nat, e \in Nat, x \in Nat, y \in Nat, z \in Nat :
                /\ a = Count(back[2], "request") /\ b = Count(wire[3], "data") /\ c = Count(wire[1], "entryError")
                /\ x = Count(back'[2], "request") /\ y = Count(wire'[3], "data") /\ z = Count(wire'[1], "entryError")
                /\ d = Len(dc) /\ e = Len(acks)
      BY <2>1, <2>2
    <2>4. Pending = a + b + d + e + c
      BY <2>3 DEF Pending
    <2>7. Pending' = x + y + d + e + z
      <3>1. dc' = dc /\ acks' = acks
        OBVIOUS
      <3> QED
        BY <2>3, <3>1 DEF Pending
    <2>8. x + y + z <= a + b + c
      BY <2>3
    <2>5. Pending' <= Pending /\ Pending \in Nat /\ Pending' \in Nat
      <3> HIDE DEF Pending
      <3> QED
        BY <2>4, <2>7, <2>8
    <2> HIDE DEF Pending
    <2>6. r.requested \in Nat /\ r.completed \in Nat /\ r.completed + Pending <= r.requested
      BY DEF MInv, Counted
    <2> QED
      BY <2>5, <2>6 DEF Counted
  <1>5. Clean' => Clean
    BY DEF Clean
  <1>6. \A d : Coming(d)' <=> Coming(d)
    BY DEF Coming
  <1>7. ~closed' /\ Clean' => \A p \in Paths : Settled(p) => Settled(p)'
    BY SameSettles, SettledKept
  <1>8. Covering'
    BY <1>5, <1>6, <1>7, CoveringKept DEF MInv
  <1>9. Finished'
    BY <1>5, FinishedKept DEF MInv
  <1> QED
    BY <1>1, <1>2, <1>3, <1>4, <1>8, <1>9 DEF MInv

\* One that leaves all streams alone.
LEMMA SenderStill ==
    ASSUME IInv, IInv', MInv, UNCHANGED <<src, blind, dest, wire, back, accepted, r, dc, acks>>, closed => closed',
           s'.todo = s.todo, s'.listed = s.listed, s'.doneSent = s.doneSent, s'.allDone = s.allDone, s'.errors = s.errors,
           s'.pc = "done" => s.allDone
    PROVE  MInv'
  <1>1. Placed' /\ LastOf(back'[4], "allDone") /\ (s'.allDone => back'[4] = <<>>) /\ (Told' => Told)
    BY DEF MInv, Placed, Answered, Told
  <1>2. \A p : Asked(p) => Asked(p)'
    BY DEF Asked
  <1>3. Clean' => s.errors = {} /\ ~Says(back[4], "error")
    BY DEF Clean
  <1>4. Count(back'[2], "request") + Count(wire'[3], "data") + Count(wire'[1], "entryError")
           <= Count(back[2], "request") + Count(wire[3], "data") + Count(wire[1], "entryError")
    <2>1. Count(back[2], "request") \in Nat /\ Count(wire[3], "data") \in Nat /\ Count(wire[1], "entryError") \in Nat
      BY CountsAre
    <2> QED
      BY <2>1
  <1> QED
    BY <1>1, <1>2, <1>3, <1>4, SenderQuiet

LEMMA MirrorsSClosed == ASSUME IInv, IInv', MInv, SClosed PROVE MInv'
  <1>1. /\ UNCHANGED <<src, blind, dest, wire, back, accepted, closed, r, dc, acks>>
        /\ s' = [s EXCEPT !.pc = "failed"] /\ IsSender(s)
    BY CountsAre DEF SClosed
  <1>2. /\ s'.todo = s.todo /\ s'.listed = s.listed /\ s'.doneSent = s.doneSent /\ s'.allDone = s.allDone
        /\ s'.errors = s.errors /\ s'.pc = "failed"
    BY <1>1 DEF IsSender
  <1> QED
    BY <1>1, <1>2, SenderStill

LEMMA MirrorsSaveCheckpoint == ASSUME IInv, IInv', MInv, SaveCheckpoint PROVE MInv'
  <1>1. /\ UNCHANGED <<src, blind, dest, wire, back, accepted, closed, r, dc, acks>>
        /\ s' = [s EXCEPT !.saving = FALSE] /\ IsSender(s)
    BY CountsAre DEF SaveCheckpoint
  <1>2. /\ s'.todo = s.todo /\ s'.listed = s.listed /\ s'.doneSent = s.doneSent /\ s'.allDone = s.allDone
        /\ s'.errors = s.errors /\ s'.pc = s.pc
    BY <1>1 DEF IsSender
  <1>3. s'.pc = "done" => s.allDone
    BY <1>2 DEF MInv, Answered
  <1> QED
    BY <1>1, <1>2, <1>3, SenderStill

LEMMA MirrorsSFinish == ASSUME IInv, IInv', MInv, SFinish PROVE MInv'
  <1>1. /\ UNCHANGED <<src, blind, dest, wire, back, accepted, r, dc, acks>> /\ s.allDone /\ IsSender(s)
        /\ closed => closed'
        /\ s' = [s EXCEPT !.pc = "done"] \/ s' = [s EXCEPT !.saving = TRUE]
    BY CountsAre DEF SFinish
  <1>2. /\ s'.todo = s.todo /\ s'.listed = s.listed /\ s'.doneSent = s.doneSent /\ s'.allDone = s.allDone
        /\ s'.errors = s.errors
    BY <1>1 DEF IsSender
  <1> QED
    BY <1>1, <1>2, SenderStill

LEMMA MirrorsLoseOrCrash == ASSUME IInv, IInv', MInv, Lose \/ Crash PROVE MInv'
  <1>1. /\ UNCHANGED <<src, blind, dest, wire, back, accepted, r, dc, acks>> /\ closed' /\ IsSender(s)
        /\ s' = s \/ s' = [s EXCEPT !.pc = "failed", !.saving = FALSE]
    BY CountsAre DEF Lose, Crash
  <1>2. /\ s'.todo = s.todo /\ s'.listed = s.listed /\ s'.doneSent = s.doneSent /\ s'.allDone = s.allDone
        /\ s'.errors = s.errors /\ (s'.pc = s.pc \/ s'.pc = "failed")
    BY <1>1 DEF IsSender
  <1>3. s'.pc = "done" => s.allDone
    BY <1>2 DEF MInv, Answered
  <1> QED
    BY <1>1, <1>2, <1>3, SenderStill

-----------------------------------------------------------------------------
(* The sender's other steps.                                               *)

LEMMA MirrorsSHello == ASSUME IInv, IInv', MInv, SHello PROVE MInv'
  <1> DEFINE m == CASE s.pc = "hello" -> [t |-> "handshake", build |-> peer.build]
                    [] s.pc = "auth" -> [t |-> "auth", token |-> peer.token]
                    [] OTHER -> [t |-> "config"]
  <1>1. /\ SSend(<<m>>) /\ UNCHANGED <<src, blind, dest, back, accepted, closed, r, dc, acks>>
        /\ IsSender(s) /\ IsWire(wire, 3)
    BY CountsAre DEF SHello
  <1>2. m.t \in {"handshake", "auth", "config"}
    OBVIOUS
  <1>3. /\ s'.todo = s.todo /\ s'.listed = s.listed /\ s'.doneSent = s.doneSent /\ s'.allDone = s.allDone
        /\ s'.errors = s.errors /\ s'.pc # "done"
    BY <1>1 DEF SHello, IsSender
  <1> HIDE DEF m
  <1>4. SenderIndex(m) = 1 /\ 1 \in 1..3
    BY <1>2, Slots
  <1>5. /\ wire'[2] = wire[2] /\ wire'[3] = wire[3]
        /\ \A x \in Range(wire'[1]) : x \in Range(wire[1]) \/ x = m
        /\ \A t : /\ Says(wire'[1], t) => Says(wire[1], t) \/ m.t = t
                  /\ Count(wire'[1], t) <= Count(wire[1], t) + (IF m.t = t THEN 1 ELSE 0)
    BY <1>1, <1>4, SentOne
  <1>6. Placed'
    BY <1>1, <1>4, <1>5, PlacedKept DEF MInv
  <1>7. ~(Says(wire'[1], "transferDone") /\ ~Says(wire[1], "transferDone"))
    BY <1>2, <1>5
  <1>8. Count(wire'[1], "entryError") <= Count(wire[1], "entryError")
    <2>1. Count(wire'[1], "entryError") <= Count(wire[1], "entryError") + 0
      BY <1>2, <1>5
    <2>2. Count(wire[1], "entryError") \in Nat
      BY CountsAre
    <2>3. Count(wire'[1], "entryError") \in Nat
      BY CountsOf DEF IInv, Shape
    <2> QED
      BY <2>1, <2>2, <2>3
  <1>9. Count(back'[2], "request") + Count(wire'[3], "data") + Count(wire'[1], "entryError")
           <= Count(back[2], "request") + Count(wire[3], "data") + Count(wire[1], "entryError")
    <2>1. Count(back[2], "request") \in Nat /\ Count(wire[3], "data") \in Nat /\ Count(wire[1], "entryError") \in Nat
      BY CountsAre
    <2>2. Count(wire'[1], "entryError") \in Nat
      BY CountsOf DEF IInv, Shape
    <2> QED
      BY <1>1, <1>5, <1>8, <2>1, <2>2
  <1>10. LastOf(back'[4], "allDone") /\ (s'.allDone => back'[4] = <<>>) /\ (Told' => Told)
    BY <1>1, <1>3 DEF MInv, Answered, Told
  <1>11. (\A p : Asked(p) => Asked(p)') /\ (Clean' => s.errors = {} /\ ~Says(back[4], "error"))
    BY <1>1, <1>3, <1>5 DEF Asked, Clean
  <1> QED
    BY <1>1, <1>3, <1>5, <1>6, <1>7, <1>9, <1>10, <1>11, SenderQuiet

\* A message the sender has taken from one of its streams.
LEMMA BackLess ==
    ASSUME IInv, IInv', MInv, NEW i \in 1..4, back[i] # <<>>, back' = Take(back, i)
    PROVE  LET m == Head(back[i])
           IN  /\ \A j \in 1..4 : Range(back'[j]) \subseteq Range(back[j])
               /\ \A t : /\ Says(back'[2], t) => Says(back[2], t)
                         /\ Says(back'[4], t) => Says(back[4], t)
                         /\ Says(back[4], t) /\ m.t # t => Says(back'[4], t)
               /\ LastOf(back'[4], "allDone")
               /\ m.t = "allDone" => back'[4] = <<>> /\ Says(back[4], "allDone")
               /\ back[4] = <<>> => back'[4] = <<>>
               /\ Count(back[2], "request") = Count(back'[2], "request") + (IF m.t = "request" THEN 1 ELSE 0)
               /\ \A x \in Range(back[2]) : x \in Range(back'[2]) \/ x = m
               /\ m.t = "requestsDone" => Says(back[2], "requestsDone")
  <1> DEFINE m == Head(back[i])
  <1>1. /\ m \in Range(back[i])
        /\ \A j \in 1..4 : j # i => back'[j] = back[j]
        /\ Range(back[i]) = Range(back'[i]) \cup {m}
        /\ \A t : /\ Says(back'[i], t) => Says(back[i], t)
                  /\ Says(back[i], t) => Says(back'[i], t) \/ m.t = t
                  /\ LastOf(back[i], t) => LastOf(back'[i], t) /\ (m.t = t => back'[i] = <<>>)
    <2>1. IsWire(back, 4) /\ 4 \in Nat /\ back[i] # <<>>
      BY CountsAre
    <2>2. /\ Head(back[i]) \in Range(back[i])
          /\ \A j \in 1..4 : j # i => Take(back, i)[j] = back[j]
          /\ Range(back[i]) = Range(Take(back, i)[i]) \cup {Head(back[i])}
          /\ \A t : /\ Says(Take(back, i)[i], t) => Says(back[i], t)
                    /\ Says(back[i], t) => Says(Take(back, i)[i], t) \/ Head(back[i]).t = t
                    /\ LastOf(back[i], t) => LastOf(Take(back, i)[i], t)
                                              /\ (Head(back[i]).t = t => Take(back, i)[i] = <<>>)
      BY <2>1, Took, ZenonT(30)
    <2> QED
      BY <2>2
  <1> HIDE DEF m
  <1>2. StreamSlot(ReceiverStreamKind(m)) = i
    BY <1>1 DEF MInv, Placed
  <1>3. /\ m.t = "request" => i = 2
        /\ m.t = "requestsDone" => i = 2
        /\ m.t = "allDone" => i = 4
        /\ 2 \in 1..4 /\ 4 \in 1..4
    BY <1>2, Slots
  <1>4. LastOf(back[4], "allDone")
    BY DEF MInv, Answered
  <1>5. LastOf(back'[4], "allDone")
    BY <1>1, <1>3, <1>4
  <1>6. m.t = "allDone" => back'[4] = <<>> /\ Says(back[4], "allDone")
    BY <1>1, <1>3, <1>4 DEF Says
  <1>7. m.t = "requestsDone" => Says(back[2], "requestsDone")
    BY <1>1, <1>3 DEF Says
  <1>8. Count(back[2], "request") = Count(back'[2], "request") + (IF m.t = "request" THEN 1 ELSE 0)
    <2>1. Count(back[2], "request") \in Nat
      BY CountsAre
    <2>2. CASE i = 2
      <3>1. IsWire(back, 4) /\ 4 \in Nat /\ 2 \in 1..4 /\ back[2] # <<>> /\ back' = Take(back, 2)
        BY <2>2, CountsAre
      <3> DEFINE q == back[2]
      <3>2. IsSeq(q) /\ q # <<>> /\ m = Head(q)
        BY <2>2, <3>1 DEF IsWire, m
      <3>4. back'[2] = Tail(q)
        BY <3>1, Taken
      <3> HIDE DEF q
      <3>3. Count(q, "request") = Count(Tail(q), "request") + (IF Head(q).t = "request" THEN 1 ELSE 0)
        BY <3>2, CountLess
      <3> QED
        BY <3>2, <3>3, <3>4 DEF q
    <2>3. CASE i # 2
      BY <1>1, <1>3, <2>1, <2>3
    <2> QED
      BY <2>2, <2>3
  <1>9. \A j \in 1..4 : Range(back'[j]) \subseteq Range(back[j])
    BY <1>1
  <1>10. \A x \in Range(back[2]) : x \in Range(back'[2]) \/ x = m
    BY <1>1, <1>3
  <1>11. back[4] = <<>> => back'[4] = <<>>
    BY <1>1, <1>3
  <1>12. \A t : /\ Says(back'[2], t) => Says(back[2], t)
                /\ Says(back'[4], t) => Says(back[4], t)
                /\ Says(back[4], t) /\ m.t # t => Says(back'[4], t)
    BY <1>1, <1>3
  <1> QED
    BY <1>5, <1>6, <1>7, <1>8, <1>9, <1>10, <1>11, <1>12 DEF m

LEMMA MirrorsSAnswer == ASSUME IInv, IInv', MInv, SAnswer PROVE MInv'
  <1>1. /\ back[1] # <<>> /\ back' = Take(back, 1) /\ 1 \in 1..4 /\ IsSender(s)
        /\ UNCHANGED <<src, blind, dest, wire, accepted, r, dc, acks>>
        /\ \/ s' = [s EXCEPT !.pc = IF @ = "helloSent" THEN "auth" ELSE "config"] /\ UNCHANGED closed
           \/ s' = [s EXCEPT !.pc = "failed"] /\ closed'
    BY CountsAre DEF SAnswer, SLeave
  <1>2. /\ s'.todo = s.todo /\ s'.listed = s.listed /\ s'.doneSent = s.doneSent /\ s'.allDone = s.allDone
        /\ s'.errors = s.errors /\ s'.pc # "done" /\ (closed => closed')
    BY <1>1 DEF IsSender
  <1>3. /\ \A j \in 1..4 : Range(back'[j]) \subseteq Range(back[j])
        /\ LastOf(back'[4], "allDone")
        /\ back[4] = <<>> => back'[4] = <<>>
    BY <1>1, BackLess
  <1>4. back'[2] = back[2] /\ back'[4] = back[4]
    <2>1. IsWire(back, 4) /\ 4 \in Nat /\ 1 \in 1..4 /\ 2 \in 1..4 /\ 4 \in 1..4
      BY CountsAre
    <2>2. \A j \in 1..4 : j # 1 => Take(back, 1)[j] = back[j]
      <3>1. back[1] # <<>>
        BY <1>1
      <3> QED
        BY <2>1, <3>1, Taken
    <2> QED
      BY <1>1, <2>1, <2>2
  <1>5. Placed'
    BY <1>1, <1>3, PlacedKept DEF MInv
  <1>6. (s'.allDone => back'[4] = <<>>) /\ (Told' => Told)
    BY <1>2, <1>4 DEF MInv, Answered, Told
  <1>7. Count(back'[2], "request") + Count(wire'[3], "data") + Count(wire'[1], "entryError")
           <= Count(back[2], "request") + Count(wire[3], "data") + Count(wire[1], "entryError")
    <2>1. Count(back[2], "request") \in Nat /\ Count(wire[3], "data") \in Nat /\ Count(wire[1], "entryError") \in Nat
      BY CountsAre
    <2> QED
      BY <1>1, <1>4, <2>1
  <1>8. (\A p : Asked(p) => Asked(p)') /\ (Clean' => s.errors = {} /\ ~Says(back[4], "error"))
    BY <1>1, <1>2, <1>4 DEF Asked, Clean
  <1> QED
    BY <1>1, <1>2, <1>3, <1>4, <1>5, <1>6, <1>7, <1>8, SenderQuiet

\* A step on a message taken from one of the sender's streams.
LEMMA SenderTook ==
    ASSUME IInv, IInv', MInv, UNCHANGED <<src, blind, dest, accepted, r, dc, acks>>,
           NEW i \in 1..4, back[i] # <<>>, back' = Take(back, i), NEW m, m = Head(back[i]),
           wire'[2] = wire[2], \A j \in 1..3 : \A x \in Range(wire'[j]) : x \in Range(wire[j]) \/ SenderIndex(x) = j,
           s'.todo = s.todo, s'.listed = s.listed, closed => closed',
           s.doneSent => s'.doneSent, s'.doneSent => s.doneSent \/ m.t = "requestsDone",
           Says(wire'[1], "transferDone") => Says(wire[1], "transferDone") \/ s'.doneSent,
           s'.allDone => s.allDone \/ m.t = "allDone", s'.pc # "done",
           Count(wire'[3], "data") + Count(wire'[1], "entryError")
               <= Count(wire[3], "data") + Count(wire[1], "entryError") + (IF m.t = "request" THEN 1 ELSE 0),
           s'.errors = {} => s.errors = {} /\ m.t # "error",
           Range(wire[3]) \subseteq Range(wire'[3]),
           ~closed' /\ s'.errors = {} /\ m.t = "request" => \E x \in Range(wire'[3]) : x.t = "data" /\ x.path = m.path
    PROVE  MInv'
  <1>1. /\ \A j \in 1..4 : Range(back'[j]) \subseteq Range(back[j])
        /\ \A t : /\ Says(back'[2], t) => Says(back[2], t)
                  /\ Says(back'[4], t) => Says(back[4], t)
                  /\ Says(back[4], t) /\ m.t # t => Says(back'[4], t)
        /\ LastOf(back'[4], "allDone")
        /\ m.t = "allDone" => back'[4] = <<>> /\ Says(back[4], "allDone")
        /\ back[4] = <<>> => back'[4] = <<>>
        /\ \A x \in Range(back[2]) : x \in Range(back'[2]) \/ x = m
        /\ m.t = "requestsDone" => Says(back[2], "requestsDone")
    BY BackLess
  <1>2. Count(back[2], "request") = Count(back'[2], "request") + (IF m.t = "request" THEN 1 ELSE 0)
    BY BackLess
  <1>3. Placed'
    BY <1>1, PlacedKept DEF MInv
  <1>4. s'.allDone => back'[4] = <<>>
    BY <1>1 DEF MInv, Answered
  <1>5. Told' => Told
    BY <1>1 DEF Told
  <1>6. Count(back'[2], "request") + Count(wire'[3], "data") + Count(wire'[1], "entryError")
           <= Count(back[2], "request") + Count(wire[3], "data") + Count(wire[1], "entryError")
    <2>1. Count(back[2], "request") \in Nat /\ Count(wire[3], "data") \in Nat /\ Count(wire[1], "entryError") \in Nat
      BY CountsAre
    <2>2. /\ Count(back'[2], "request") \in Nat /\ Count(wire'[3], "data") \in Nat /\ Count(wire'[1], "entryError") \in Nat
      <3>1. IsWire(wire', 3) /\ IsWire(back', 4)
        BY DEF IInv, Shape
      <3> QED
        BY <3>1, CountsOf
    <2>3. PICK a \in Nat, b \in Nat, c \in Nat, x \in Nat, y \in Nat, z \in Nat :
                /\ a = Count(back[2], "request") /\ b = Count(wire[3], "data") /\ c = Count(wire[1], "entryError")
                /\ x = Count(back'[2], "request") /\ y = Count(wire'[3], "data") /\ z = Count(wire'[1], "entryError")
      BY <2>1, <2>2
    <2>4. x + y + z <= a + b + c
      <3>1. CASE m.t = "request"
        <4>1. a = x + 1 /\ y + z <= b + c + 1
          BY <1>2, <2>3, <3>1
        <4> QED
          BY <4>1
      <3>2. CASE m.t # "request"
        <4>1. a = x /\ y + z <= b + c
          BY <1>2, <2>3, <3>2
        <4> QED
          BY <4>1
      <3> QED
        BY <3>1, <3>2
    <2> QED
      BY <2>3, <2>4
  <1>7. Clean' => s.errors = {} /\ ~Says(back[4], "error")
    BY <1>1 DEF Clean
  <1>8. ~closed' /\ Clean' => \A p \in Paths : Asked(p) => Asked(p)'
    <2> SUFFICES ASSUME ~closed', Clean', NEW p \in Paths, Asked(p) PROVE Asked(p)'
      OBVIOUS
    <2>1. CASE \E x \in Range(back[2]) : x.t = "request" /\ x.path = p
      <3>1. PICK x \in Range(back[2]) : x.t = "request" /\ x.path = p
        BY <2>1
      <3>2. CASE x = m
        BY <3>1, <3>2 DEF Asked, Clean
      <3>3. CASE x # m
        BY <1>1, <3>1, <3>3 DEF Asked
      <3> QED
        BY <3>2, <3>3
    <2>2. CASE \E x \in Range(wire[3]) : x.t = "data" /\ x.path = p
      BY <2>2 DEF Asked
    <2>3. CASE p \in Range(dc)
      BY <2>3 DEF Asked
    <2> QED
      BY <2>1, <2>2, <2>3 DEF Asked
  <1> QED
    BY <1>1, <1>3, <1>4, <1>5, <1>6, <1>7, <1>8, SenderQuiet

\* The data of a file, and then perhaps its ACL.
LEMMA TransferIs ==
    ASSUME NEW p
    PROVE  /\ IsSeq(TransferOf(p)) /\ TransferOf(p) # <<>> /\ Count(TransferOf(p), "data") = 1
           /\ [t |-> "data", path |-> p] \in Range(TransferOf(p))
           /\ \A m \in Range(TransferOf(p)) : SenderIndex(m) = 3
  <1> DEFINE a == [t |-> "data", path |-> p]
             b == [t |-> "setAcl", path |-> p]
             u == IF EnableAcl THEN <<b>> ELSE <<>>
  <1>1. /\ IsSeq(<<a>>) /\ Range(<<a>>) = {a} /\ Count(<<a>>, "data") = 1
    BY OneMessage, CountOne
  <1>2. /\ IsSeq(u) /\ Range(u) \subseteq {b} /\ Count(u, "data") = 0
    <2>1. IsSeq(<<b>>) /\ Range(<<b>>) = {b} /\ Count(<<b>>, "data") = 0
      BY OneMessage, CountOne
    <2>2. IsSeq(<<>>) /\ Range(<<>>) = {} /\ Count(<<>>, "data") = 0
      <3>1. IsSeq(<<>>) /\ Range(<<>>) = {}
        BY EmptyIsSeq
      <3>2. ~Says(<<>>, "data")
        BY <3>1 DEF Says
      <3> QED
        BY <3>1, <3>2, CountIs
    <2> QED
      BY <2>1, <2>2
  <1>3. TransferOf(p) = <<a>> \o u
    BY DEF TransferOf
  <1>4. SenderIndex(a) = 3 /\ SenderIndex(b) = 3
    BY Slots
  <1> HIDE DEF a, b, u
  <1> DEFINE v == <<a>>
  <1> HIDE DEF v
  <1>5. IsSeq(v) /\ Range(v) = {a} /\ Count(v, "data") = 1
    BY <1>1 DEF v
  <1>6. Range(v \o u) = {a} \cup Range(u) /\ Count(v \o u, "data") = Count(v, "data") + Count(u, "data") /\ IsSeq(v \o u)
    BY <1>2, <1>5, JoinedRange, CountMore, ConcatIsSeq
  <1>7. TransferOf(p) = v \o u
    BY <1>3 DEF v
  <1>8. Count(TransferOf(p), "data") = 1
    BY <1>2, <1>5, <1>6, <1>7
  <1>9. TransferOf(p) # <<>>
    <2>1. Range(<<>>) = {} /\ a \in Range(TransferOf(p))
      BY <1>6, <1>7, EmptyIsSeq
    <2> QED
      BY <2>1
  <1> QED
    BY <1>2, <1>4, <1>6, <1>7, <1>8, <1>9 DEF a

LEMMA MirrorsSRequest ==
    ASSUME IInv, IInv', MInv, UNCHANGED <<src, blind, dest, accepted, peer, r, dc, acks>>, s.pc = "run",
           NEW i \in 1..4, back[i] # <<>>, SRequest(i)
    PROVE  MInv'
  <1> DEFINE m == Head(back[i])
             e == [t |-> "entryError", path |-> m.path]
  <1>1. /\ m.t = "request" /\ back' = Take(back, i) /\ closed' = closed /\ IsSender(s) /\ IsWire(wire, 3)
        /\ \/ SSend(TransferOf(m.path)) /\ s' = s
           \/ SSend(<<e>>) /\ s' = [s EXCEPT !.errors = @ \cup {m.path}]
    BY CountsAre DEF SRequest
  <1>2. e.t = "entryError" /\ SenderIndex(e) = 1 /\ 1 \in 1..3 /\ 3 \in 1..3
    BY Slots
  <1> HIDE DEF m, e
  <1>3. Count(wire[3], "data") \in Nat /\ Count(wire[1], "entryError") \in Nat
    BY CountsAre
  <1>4. Count(wire'[3], "data") \in Nat /\ Count(wire'[1], "entryError") \in Nat
    BY CountsOf DEF IInv, Shape
  <1>5. CASE SSend(TransferOf(m.path)) /\ s' = s
    <2> DEFINE u == TransferOf(m.path)
    <2>1. /\ IsSeq(u) /\ u # <<>> /\ Count(u, "data") = 1
          /\ [t |-> "data", path |-> m.path] \in Range(u)
          /\ \A x \in Range(u) : SenderIndex(x) = 3
      BY TransferIs
    <2>10. SSend(u)
      BY <1>5
    <2> HIDE DEF u
    <2>2. /\ \A j \in 1..3 : j # 3 => wire'[j] = wire[j]
          /\ wire'[3] = IF closed THEN wire[3] ELSE wire[3] \o u
      <3>1. IsWire(wire, 3) /\ 3 \in 1..3
        BY <1>1, <1>2
      <3> QED
        BY <2>1, <2>10, <3>1, SentTo
    <2>3. IsSeq(wire[3])
      BY CountsAre
    <2>4. /\ Range(wire[3] \o u) = Range(wire[3]) \cup Range(u)
          /\ Count(wire[3] \o u, "data") = Count(wire[3], "data") + 1
      BY <2>1, <2>3, JoinedRange, CountMore
    <2>5. Count(wire'[3], "data") <= Count(wire[3], "data") + 1
      BY <1>3, <2>2, <2>4
    <2>6. Count(wire'[3], "data") + Count(wire'[1], "entryError")
               <= Count(wire[3], "data") + Count(wire[1], "entryError") + (IF m.t = "request" THEN 1 ELSE 0)
      BY <1>1, <1>3, <1>4, <2>2, <2>5
    <2>7. /\ wire'[1] = wire[1] /\ wire'[2] = wire[2]
          /\ \A x \in Range(wire'[3]) : x \in Range(wire[3]) \/ SenderIndex(x) = 3
          /\ Range(wire[3]) \subseteq Range(wire'[3])
          /\ ~closed => \E x \in Range(wire'[3]) : x.t = "data" /\ x.path = m.path
      BY <2>1, <2>2, <2>4
    <2>8. \A j \in 1..3 : \A x \in Range(wire'[j]) : x \in Range(wire[j]) \/ SenderIndex(x) = j
      BY <2>2, <2>7
    <2>9. m = Head(back[i])
      BY DEF m
    <2> QED
      BY <1>1, <1>5, <2>6, <2>7, <2>8, <2>9, SenderTook
  <1>6. CASE SSend(<<e>>) /\ s' = [s EXCEPT !.errors = @ \cup {m.path}]
    <2>1. /\ \A j \in 1..3 : j # 1 => wire'[j] = wire[j]
          /\ \A x \in Range(wire'[1]) : x \in Range(wire[1]) \/ x = e
          /\ \A t : Says(wire'[1], t) => Says(wire[1], t) \/ e.t = t
      BY <1>1, <1>2, <1>6, SentOne
    <2>2. Count(wire'[1], "entryError") <= Count(wire[1], "entryError") + 1
      <3>1. Count(wire'[1], "entryError") <= Count(wire[1], "entryError") + (IF e.t = "entryError" THEN 1 ELSE 0)
        BY <1>1, <1>2, <1>6, SentOne
      <3> QED
        BY <1>2, <3>1
    <2>3. /\ s'.todo = s.todo /\ s'.listed = s.listed /\ s'.doneSent = s.doneSent /\ s'.allDone = s.allDone
          /\ s'.errors # {} /\ s'.pc = "run"
      BY <1>1, <1>6 DEF IsSender
    <2>4. wire'[2] = wire[2] /\ wire'[3] = wire[3]
      BY <2>1
    <2>5. Count(wire'[3], "data") + Count(wire'[1], "entryError")
               <= Count(wire[3], "data") + Count(wire[1], "entryError") + (IF m.t = "request" THEN 1 ELSE 0)
      BY <1>1, <1>3, <1>4, <2>2, <2>4
    <2>6. \A j \in 1..3 : \A x \in Range(wire'[j]) : x \in Range(wire[j]) \/ SenderIndex(x) = j
      BY <1>2, <2>1
    <2>7. Says(wire'[1], "transferDone") => Says(wire[1], "transferDone")
      BY <1>2, <2>1
    <2>9. m = Head(back[i])
      BY DEF m
    <2> QED
      BY <1>1, <2>3, <2>4, <2>5, <2>6, <2>7, <2>9, SenderTook
  <1> QED
    BY <1>1, <1>5, <1>6

LEMMA MirrorsSRequestsDone ==
    ASSUME IInv, IInv', MInv, UNCHANGED <<src, blind, dest, accepted, peer, r, dc, acks>>, s.pc = "run",
           NEW i \in 1..4, back[i] # <<>>, SRequestsDone(i)
    PROVE  MInv'
  <1> DEFINE m == Head(back[i])
             e == [t |-> "transferDone"]
  <1>1. /\ m.t = "requestsDone" /\ back' = Take(back, i) /\ closed' = closed /\ IsSender(s) /\ IsWire(wire, 3)
        /\ SSend(<<e>>) /\ s' = [s EXCEPT !.doneSent = TRUE]
    BY CountsAre DEF SRequestsDone
  <1>2. e.t = "transferDone" /\ SenderIndex(e) = 1 /\ 1 \in 1..3 /\ 3 \in 1..3 /\ m = Head(back[i])
    BY Slots
  <1> HIDE DEF m, e
  <1>3. /\ s'.todo = s.todo /\ s'.listed = s.listed /\ s'.doneSent /\ s'.allDone = s.allDone
        /\ s'.errors = s.errors /\ s'.pc = "run"
    BY <1>1 DEF IsSender
  <1>4. /\ wire'[2] = wire[2] /\ wire'[3] = wire[3]
        /\ \A x \in Range(wire'[1]) : x \in Range(wire[1]) \/ x = e
    BY <1>1, <1>2, SentOne
  <1>5. Count(wire'[1], "entryError") <= Count(wire[1], "entryError")
    <2>1. Count(wire'[1], "entryError") <= Count(wire[1], "entryError") + (IF e.t = "entryError" THEN 1 ELSE 0)
      BY <1>1, <1>2, SentOne
    <2>2. Count(wire[1], "entryError") \in Nat
      BY CountsAre
    <2> QED
      BY <1>2, <2>1, <2>2
  <1>6. Count(wire'[3], "data") + Count(wire'[1], "entryError")
               <= Count(wire[3], "data") + Count(wire[1], "entryError") + (IF m.t = "request" THEN 1 ELSE 0)
    <2>1. Count(wire[3], "data") \in Nat /\ Count(wire[1], "entryError") \in Nat
      BY CountsAre
    <2>2. Count(wire'[1], "entryError") \in Nat
      BY CountsOf DEF IInv, Shape
    <2> QED
      BY <1>1, <1>4, <1>5, <2>1, <2>2
  <1>7. \A j \in 1..3 : \A x \in Range(wire'[j]) : x \in Range(wire[j]) \/ SenderIndex(x) = j
    BY <1>2, <1>4
  <1> QED
    BY <1>1, <1>2, <1>3, <1>4, <1>6, <1>7, SenderTook

\* A message that is answered by nothing.
LEMMA SenderListens ==
    ASSUME IInv, IInv', MInv, UNCHANGED <<src, blind, dest, wire, accepted, r, dc, acks>>,
           NEW i \in 1..4, back[i] # <<>>, back' = Take(back, i), NEW m, m = Head(back[i]),
           m.t \notin {"request", "requestsDone"}, closed => closed',
           s'.todo = s.todo, s'.listed = s.listed, s'.doneSent = s.doneSent,
           s'.allDone => s.allDone \/ m.t = "allDone", s'.pc # "done", s'.errors = {} => s.errors = {} /\ m.t # "error"
    PROVE  MInv'
  <1>1. Count(wire'[3], "data") + Count(wire'[1], "entryError")
               <= Count(wire[3], "data") + Count(wire[1], "entryError") + (IF m.t = "request" THEN 1 ELSE 0)
    <2>1. Count(wire[3], "data") \in Nat /\ Count(wire[1], "entryError") \in Nat
      BY CountsAre
    <2> QED
      BY <2>1
  <1> QED
    BY <1>1, SenderTook

LEMMA MirrorsSAck ==
    ASSUME IInv, IInv', MInv, UNCHANGED <<src, blind, dest, accepted, peer, r, dc, acks>>, s.pc = "run",
           NEW i \in 1..4, back[i] # <<>>, SAck(i)
    PROVE  MInv'
  <1> DEFINE m == Head(back[i])
  <1>1. /\ m.t \in {"success", "error", "classified", "deleted"} /\ back' = Take(back, i)
        /\ closed' = closed /\ wire' = wire /\ IsSender(s)
    BY CountsAre DEF SAck
  <1>2. m = Head(back[i])
    OBVIOUS
  <1>3. CASE m.t = "success"
    <2>1. \E n, save : s' = [s EXCEPT !.successes = n, !.completed = @ \cup {m.path}, !.saving = save]
      <3>1. RecordSuccess(m.path)
        BY <1>3 DEF SAck
      <3> QED
        BY <3>1 DEF RecordSuccess
    <2> HIDE DEF m
    <2>2. /\ s'.todo = s.todo /\ s'.listed = s.listed /\ s'.doneSent = s.doneSent /\ s'.allDone = s.allDone
          /\ s'.errors = s.errors /\ s'.pc = "run"
      BY <1>1, <2>1 DEF IsSender
    <2> QED
      BY <1>1, <1>2, <1>3, <2>2, SenderListens
  <1>4. CASE m.t = "error"
    <2>1. s' = [s EXCEPT !.errors = @ \cup {m.path}]
      BY <1>4 DEF SAck
    <2> HIDE DEF m
    <2>2. /\ s'.todo = s.todo /\ s'.listed = s.listed /\ s'.doneSent = s.doneSent /\ s'.allDone = s.allDone
          /\ s'.errors # {} /\ s'.pc = "run"
      BY <1>1, <2>1 DEF IsSender
    <2> QED
      BY <1>1, <1>2, <1>4, <2>2, SenderListens
  <1>5. CASE m.t \in {"classified", "deleted"}
    <2>1. s' = s
      BY <1>5 DEF SAck
    <2> HIDE DEF m
    <2> QED
      BY <1>1, <1>2, <1>5, <2>1, SenderListens
  <1> QED
    BY <1>1, <1>3, <1>4, <1>5

LEMMA MirrorsSAllDone ==
    ASSUME IInv, IInv', MInv, UNCHANGED <<src, blind, dest, accepted, peer, r, dc, acks>>, s.pc = "run",
           NEW i \in 1..4, back[i] # <<>>, SAllDone(i)
    PROVE  MInv'
  <1> DEFINE m == Head(back[i])
  <1>1. /\ m.t = "allDone" /\ back' = Take(back, i) /\ wire' = wire /\ IsSender(s)
        /\ \/ s' = [s EXCEPT !.allDone = TRUE] /\ closed' = closed
           \/ s' = [s EXCEPT !.pc = "failed"] /\ closed'
    BY CountsAre DEF SAllDone, SLeave
  <1>2. m = Head(back[i])
    OBVIOUS
  <1> HIDE DEF m
  <1>3. /\ s'.todo = s.todo /\ s'.listed = s.listed /\ s'.doneSent = s.doneSent
        /\ s'.errors = s.errors /\ s'.pc # "done" /\ (closed => closed')
    BY <1>1 DEF IsSender
  <1> QED
    BY <1>1, <1>2, <1>3, SenderListens

LEMMA MirrorsSReceive == ASSUME IInv, IInv', MInv, SReceive PROVE MInv'
  <1>1. UNCHANGED <<src, blind, dest, accepted, peer, r, dc, acks>> /\ s.pc = "run"
    BY DEF SReceive
  <1>2. PICK i \in 1..4 : back[i] # <<>> /\ (SRequest(i) \/ SRequestsDone(i) \/ SAck(i) \/ SAllDone(i))
    BY DEF SReceive
  <1> QED
    BY <1>1, <1>2, MirrorsSRequest, MirrorsSRequestsDone, MirrorsSAck, MirrorsSAllDone

-----------------------------------------------------------------------------
(* The list.                                                               *)

LEMMA ListSends ==
    ASSUME IInv, IInv', MInv, UNCHANGED <<src, blind, dest, back, accepted, closed, r, dc, acks>>,
           wire'[1] = wire[1], wire'[3] = wire[3],
           \A x \in Range(wire'[2]) : x \in Range(wire[2]) \/ SenderIndex(x) = 2,
           Says(wire[2], "listError") => Says(wire'[2], "listError"),
           ~s.listed, LastOf(wire'[2], "listDone"), Says(wire'[2], "listDone") => s'.listed,
           IsSeq(s'.todo), s'.listed => s'.todo = <<>>,
           s'.doneSent = s.doneSent, s'.allDone = s.allDone, s'.errors = s.errors, s'.pc # "done",
           ~closed /\ Clean' => \A d \in (Paths \cup {ROOT}) \ blind : IsDir(src, d) /\ Coming(d) => Coming(d)'
    PROVE  MInv'
  <1>1. Observed' /\ Placed'
    <2>1. Placed'
      <3>1. \A i \in 1..3 : \A m \in Range(wire'[i]) : m \in Range(wire[i]) \/ SenderIndex(m) = i
        OBVIOUS
      <3> QED
        BY <3>1, PlacedKept DEF MInv
    <2> QED
      BY <2>1 DEF MInv, Observed
  <1>2. Listed'
    BY DEF MInv, Listed
  <1>3. Answered'
    BY DEF MInv, Answered, Told, Complete
  <1>4. Counted'
    BY DEF MInv, Counted, Pending
  <1>5. Clean' => Clean
    BY DEF Clean
  <1>6. \A p \in Paths : Settled(p) => Settled(p)'
    <2>1. \A p : Asked(p) => Asked(p)'
      BY DEF Asked
    <2> QED
      BY <2>1, SameSettles, SettledKept
  <1>7. Covering'
    BY <1>5, <1>6, CoveringKept DEF MInv
  <1>8. Finished'
    <2>1. Told' => Told
      BY DEF Told
    <2> QED
      BY <1>5, <2>1, FinishedKept DEF MInv
  <1> QED
    BY <1>1, <1>2, <1>3, <1>4, <1>7, <1>8 DEF MInv

\* A page, perhaps after what could not be observed of it.
LEMMA EventsAre ==
    ASSUME NEW d
    PROVE  /\ IsSeq(PageEvents(d)) /\ PageEvents(d) # <<>>
           /\ \A x \in Range(PageEvents(d)) : SenderIndex(x) = 2 /\ x.t # "listDone"
           /\ PageOf(d) \in Range(PageEvents(d)) /\ PageOf(d).t = "page" /\ PageOf(d).dir = d
  <1> DEFINE e == [t |-> "listError"]
             p == PageOf(d)
  <1>1. e.t = "listError" /\ p.t = "page" /\ p.dir = d
    BY DEF PageOf
  <1>2. SenderIndex(e) = 2 /\ SenderIndex(p) = 2
    BY <1>1, Slots
  <1>3. PageEvents(d) = <<e, p>> \/ PageEvents(d) = <<p>>
    BY DEF PageEvents
  <1> HIDE DEF e, p
  <1>4. IsSeq(<<e, p>>) /\ Range(<<e, p>>) = {e, p} /\ <<e, p>> # <<>>
    <2>1. IsSeq(<<e, p>>) /\ Range(<<e, p>>) \subseteq {e, p}
      BY TwoMessages
    <2>2. Len(<<e, p>>) = 2 /\ <<e, p>>[1] = e /\ <<e, p>>[2] = p
      OBVIOUS
    <2>3. e \in Range(<<e, p>>) /\ p \in Range(<<e, p>>)
      BY <2>1, <2>2, ElementAt
    <2> QED
      BY <2>1, <2>2, <2>3
  <1>5. IsSeq(<<p>>) /\ Range(<<p>>) = {p} /\ <<p>> # <<>>
    BY OneMessage
  <1>6. p = PageOf(d)
    BY DEF p
  <1> QED
    BY <1>1, <1>2, <1>3, <1>4, <1>5, <1>6

LEMMA MirrorsAdvertise == ASSUME IInv, IInv', MInv, Advertise PROVE MInv'
  <1>1. /\ s.pc = "run" /\ ~s.listed /\ IsSender(s) /\ IsWire(wire, 3) /\ IsSeq(wire[2]) /\ IsSeq(s.todo)
        /\ UNCHANGED <<src, blind, dest, back, accepted, closed, r, dc, acks>>
        /\ LastOf(wire[2], "listDone") /\ ~Says(wire[2], "listDone")
    BY CountsAre DEF Advertise, MInv, Listed
  <1>2. CASE s.todo = <<>>
    <2> DEFINE e == [t |-> "listDone"]
    <2>1. SSend(<<e>>) /\ s' = [s EXCEPT !.listed = TRUE]
      BY <1>2 DEF Advertise
    <2>2. e.t = "listDone" /\ SenderIndex(e) = 2 /\ 2 \in 1..3 /\ 1 \in 1..3 /\ 3 \in 1..3
      BY Slots
    <2> HIDE DEF e
    <2>3. /\ s'.listed /\ s'.todo = <<>> /\ s'.doneSent = s.doneSent /\ s'.allDone = s.allDone
          /\ s'.errors = s.errors /\ s'.pc # "done" /\ IsSeq(s'.todo)
      BY <1>1, <1>2, <2>1 DEF IsSender
    <2>4. /\ wire'[1] = wire[1] /\ wire'[3] = wire[3]
          /\ \A x \in Range(wire'[2]) : x \in Range(wire[2]) \/ x = e
          /\ Range(wire[2]) \subseteq Range(wire'[2])
          /\ Says(wire[2], "listError") => Says(wire'[2], "listError")
          /\ LastOf(wire'[2], "listDone")
      BY <1>1, <2>1, <2>2, SentOne
    <2>5. \A d : Coming(d) => Coming(d)'
      BY <1>2, <2>3, <2>4 DEF Coming
    <2> QED
      BY <1>1, <2>2, <2>3, <2>4, <2>5, ListSends
  <1>3. CASE s.todo # <<>>
    <2> DEFINE h == Head(s.todo)
               u == PageEvents(h)
    <2>1. s' = [s EXCEPT !.todo = Tail(@)]
      BY <1>3 DEF Advertise
    <2>2. /\ s'.listed = s.listed /\ s'.todo = Tail(s.todo) /\ s'.doneSent = s.doneSent /\ s'.allDone = s.allDone
          /\ s'.errors = s.errors /\ s'.pc # "done"
      BY <1>1, <2>1 DEF IsSender
    <2>3. IsSeq(s'.todo) /\ Range(s.todo) = Range(s'.todo) \cup {h}
      BY <1>1, <1>3, <2>2, TailIsSeq, TailKeeps
    <2> HIDE DEF h, u
    <2>4. CASE IsDir(src, h) /\ h \notin blind
      <3>1. SSend(u)
        BY <1>3, <2>4 DEF Advertise, h, u
      <3>2. /\ IsSeq(u) /\ u # <<>>
            /\ \A x \in Range(u) : SenderIndex(x) = 2 /\ x.t # "listDone"
            /\ \E x \in Range(u) : x.t = "page" /\ x.dir = h
        BY EventsAre DEF u
      <3>3. 2 \in 1..3 /\ 1 \in 1..3 /\ 3 \in 1..3
        OBVIOUS
      <3>4. /\ \A j \in 1..3 : j # 2 => wire'[j] = wire[j]
            /\ wire'[2] = IF closed THEN wire[2] ELSE wire[2] \o u
        BY <1>1, <3>1, <3>2, <3>3, SentTo
      <3>5. /\ Range(wire[2] \o u) = Range(wire[2]) \cup Range(u)
            /\ \A t : Says(wire[2] \o u, t) <=> Says(wire[2], t) \/ Says(u, t)
            /\ IsSeq(wire[2] \o u)
        BY <1>1, <3>2, JoinedRange, SaysMore, ConcatIsSeq
      <3>6. ~Says(u, "listDone")
        BY <3>2 DEF Says
      <3>7. LastOf(wire[2] \o u, "listDone")
        BY <1>1, <3>5, <3>6, LastOfNone
      <3>8. /\ wire'[1] = wire[1] /\ wire'[3] = wire[3] /\ LastOf(wire'[2], "listDone") /\ ~Says(wire'[2], "listDone")
            /\ Says(wire[2], "listError") => Says(wire'[2], "listError")
            /\ \A x \in Range(wire'[2]) : x \in Range(wire[2]) \/ SenderIndex(x) = 2
            /\ Range(wire[2]) \subseteq Range(wire'[2])
            /\ ~closed => \E x \in Range(wire'[2]) : x.t = "page" /\ x.dir = h
        BY <1>1, <3>2, <3>4, <3>5, <3>6, <3>7
      <3>9. ~closed => \A d : Coming(d) => Coming(d)'
        BY <2>3, <3>8 DEF Coming
      <3> QED
        BY <1>1, <2>2, <2>3, <3>8, <3>9, ListSends
    <2>5. CASE ~(IsDir(src, h) /\ h \notin blind)
      <3>1. wire' = wire
        BY <1>3, <2>5 DEF Advertise, h
      <3>2. \A d : IsDir(src, d) /\ d \notin blind /\ Coming(d) => Coming(d)'
        BY <2>3, <2>5, <3>1 DEF Coming
      <3> QED
        BY <1>1, <2>2, <2>3, <3>1, <3>2, ListSends
    <2> QED
      BY <2>4, <2>5
  <1> QED
    BY <1>2, <1>3

LEMMA MirrorsListingFails == ASSUME IInv, IInv', MInv, ListingFails PROVE MInv'
  <1> DEFINE e == [t |-> "listError"]
  <1>1. /\ s.pc = "run" /\ ~s.listed /\ IsSender(s) /\ IsWire(wire, 3) /\ IsSeq(wire[2])
        /\ UNCHANGED <<src, blind, dest, back, accepted, closed, r, dc, acks>>
        /\ LastOf(wire[2], "listDone") /\ ~Says(wire[2], "listDone")
        /\ SSend(<<e>>) /\ s' = [s EXCEPT !.todo = <<>>]
    BY CountsAre DEF ListingFails, MInv, Listed
  <1>2. e.t = "listError" /\ SenderIndex(e) = 2 /\ 2 \in 1..3 /\ 1 \in 1..3 /\ 3 \in 1..3
    BY Slots
  <1> HIDE DEF e
  <1>3. /\ s'.listed = s.listed /\ s'.todo = <<>> /\ s'.doneSent = s.doneSent /\ s'.allDone = s.allDone
        /\ s'.errors = s.errors /\ s'.pc # "done" /\ IsSeq(s'.todo)
    BY <1>1, EmptyIsSeq DEF IsSender
  <1>4. /\ wire'[1] = wire[1] /\ wire'[3] = wire[3]
        /\ \A x \in Range(wire'[2]) : x \in Range(wire[2]) \/ x = e
        /\ ~closed => e \in Range(wire'[2])
        /\ Says(wire[2], "listError") => Says(wire'[2], "listError")
        /\ LastOf(wire'[2], "listDone")
        /\ Says(wire'[2], "listDone") => Says(wire[2], "listDone") \/ e.t = "listDone"
    BY <1>1, <1>2, SentOne
  <1>5. ~(~closed /\ Clean')
    BY <1>2, <1>4 DEF Clean, Says
  <1> QED
    BY <1>1, <1>2, <1>3, <1>4, <1>5, ListSends

-----------------------------------------------------------------------------
(* The receiver, but for the list and the end.                             *)

LEMMA WireLess ==
    ASSUME IInv, MInv, NEW i \in 1..3, wire[i] # <<>>, wire' = Take(wire, i), NEW m, m = Head(wire[i])
    PROVE  /\ m \in Range(wire[i]) /\ SenderIndex(m) = i
           /\ \A j \in 1..3 : j # i => wire'[j] = wire[j]
           /\ \A j \in 1..3 : Range(wire'[j]) \subseteq Range(wire[j])
           /\ Range(wire[i]) = Range(wire'[i]) \cup {m}
           /\ \A t : /\ Says(wire'[i], t) => Says(wire[i], t)
                     /\ Says(wire[i], t) => Says(wire'[i], t) \/ m.t = t
                     /\ LastOf(wire[i], t) => LastOf(wire'[i], t) /\ (m.t = t => wire'[i] = <<>>)
  <1>1. IsWire(wire, 3) /\ 3 \in Nat
    BY CountsAre
  <1>2. /\ m \in Range(wire[i])
        /\ \A j \in 1..3 : j # i => wire'[j] = wire[j]
        /\ Range(wire[i]) = Range(wire'[i]) \cup {m}
        /\ \A t : /\ Says(wire'[i], t) => Says(wire[i], t)
                  /\ Says(wire[i], t) => Says(wire'[i], t) \/ m.t = t
                  /\ LastOf(wire[i], t) => LastOf(wire'[i], t) /\ (m.t = t => wire'[i] = <<>>)
    BY <1>1, Took
  <1>3. SenderIndex(m) = i
    BY <1>2 DEF MInv, Placed
  <1> QED
    BY <1>2, <1>3

LEMMA WireCount ==
    ASSUME IInv, NEW i \in 1..3, wire[i] # <<>>, wire' = Take(wire, i), NEW m, m = Head(wire[i]), NEW t
    PROVE  Count(wire[i], t) = Count(wire'[i], t) + (IF m.t = t THEN 1 ELSE 0)
  <1>1. IsWire(wire, 3) /\ 3 \in Nat
    BY CountsAre
  <1> DEFINE q == wire[i]
  <1>2. IsSeq(q) /\ q # <<>> /\ m = Head(q)
    BY <1>1 DEF IsWire
  <1>3. wire'[i] = Tail(q)
    BY <1>1, Taken
  <1> HIDE DEF q
  <1>4. Count(q, t) = Count(Tail(q), t) + (IF Head(q).t = t THEN 1 ELSE 0)
    BY <1>2, CountLess
  <1> QED
    BY <1>2, <1>3, <1>4 DEF q

\* A step of the receiver that leaves the list alone.
LEMMA ReceiverQuiet ==
    ASSUME IInv, IInv', MInv, UNCHANGED <<src, blind, s>>, wire'[2] = wire[2], closed => closed',
           Placed', Answered', Counted', Told' => Told, Told => UNCHANGED <<dest, r>>,
           Says(back'[2], "requestsDone") => Says(back[2], "requestsDone"),
           Says(wire'[1], "transferDone") \/ r'.doneSeen => Says(wire[1], "transferDone") \/ r.doneSeen,
           ~closed' \/ Told' => (Clean' => Clean),
           ~closed' /\ Clean' => Settles /\ r.dirs \subseteq r'.dirs /\ \A p \in Paths : Asked(p) => Asked(p)' \/ Right(p)'
    PROVE  MInv'
  <1>1. Observed'
    BY DEF MInv, Observed
  <1>2. Listed'
    BY DEF MInv, Listed
  <1>3. \A d : Coming(d)' <=> Coming(d)
    BY DEF Coming
  <1>4. Covering'
    <2>1. ~closed' /\ Clean' => \A p \in Paths : Settled(p) => Settled(p)'
      BY SettledKept
    <2> QED
      BY <1>3, <2>1, CoveringKept DEF MInv
  <1>5. Finished'
    BY FinishedKept DEF MInv
  <1> QED
    BY <1>1, <1>2, <1>4, <1>5 DEF MInv

\* One that leaves the streams and the queues alone.
LEMMA ReceiverStill ==
    ASSUME IInv, IInv', MInv, UNCHANGED <<src, blind, dest, wire, back, s, dc, acks, closed>>,
           r.pc # "done", r'.pc \notin {"shutdown", "done"}, accepted' = 0 => r'.pc \in {"connect", "failed"},
           r'.requested = r.requested, r'.completed = r.completed, r'.doneSeen = r.doneSeen,
           closed \/ r'.dirs = r.dirs
    PROVE  MInv'
  <1>1. ~Told /\ ~Told'
    BY DEF MInv, Answered, Told
  <1>2. Placed'
    BY DEF MInv, Placed
  <1>3. Answered'
    BY <1>1 DEF MInv, Answered
  <1>4. Counted'
    BY DEF MInv, Counted, Pending
  <1>5. Settles /\ (Clean' => Clean) /\ \A p : Asked(p) => Asked(p)'
    BY SameSettles DEF Clean, Asked
  <1> QED
    BY <1>1, <1>2, <1>3, <1>4, <1>5, ReceiverQuiet

LEMMA MirrorsAccept == ASSUME IInv, IInv', MInv, Accept PROVE MInv'
  <1>1. /\ UNCHANGED <<src, blind, dest, wire, back, closed, s, dc, acks>> /\ accepted' = accepted + 1
        /\ r' = IF accepted = 0 THEN [r EXCEPT !.pc = "handshake"] ELSE r
        /\ IsReceiver(r) /\ accepted \in Nat
    BY DEF Accept, IInv, Shape
  <1>2. accepted' # 0
    BY <1>1
  <1>3. CASE accepted = 0
    <2>1. r' = [r EXCEPT !.pc = "handshake"] /\ r.pc # "done"
      BY <1>1, <1>3 DEF MInv, Answered
    <2>2. /\ r'.pc = "handshake" /\ r'.requested = r.requested /\ r'.completed = r.completed
          /\ r'.doneSeen = r.doneSeen /\ r'.dirs = r.dirs
      BY <1>1, <2>1 DEF IsReceiver
    <2> QED
      BY <1>1, <1>2, <2>1, <2>2, ReceiverStill
  <1>4. CASE accepted # 0
    <2>1. r' = r
      BY <1>1, <1>4
    <2>2. (Told' => Told) /\ Placed' /\ Counted' /\ (Clean' => Clean) /\ \A p : Asked(p) => Asked(p)'
      BY <1>1, <2>1 DEF MInv, Told, Placed, Counted, Pending, Clean, Asked
    <2>3. Answered'
      BY <1>1, <1>2, <2>1, <2>2 DEF MInv, Answered, Complete
    <2> QED
      BY <1>1, <2>1, <2>2, <2>3, SameSettles, ReceiverQuiet
  <1> QED
    BY <1>3, <1>4

LEMMA MirrorsRClosed == ASSUME IInv, IInv', MInv, RClosed PROVE MInv'
  <1>1. /\ UNCHANGED <<src, blind, dest, wire, back, accepted, closed, s, dc, acks>> /\ r.pc # "done"
        /\ r' = [r EXCEPT !.pc = "failed"] /\ IsReceiver(r)
    BY CountsAre DEF RClosed
  <1>2. /\ r'.pc = "failed" /\ r'.requested = r.requested /\ r'.completed = r.completed
        /\ r'.doneSeen = r.doneSeen /\ r'.dirs = r.dirs
    BY <1>1 DEF IsReceiver
  <1> QED
    BY <1>1, <1>2, ReceiverStill

LEMMA MirrorsRLost == ASSUME IInv, IInv', MInv, RLost PROVE MInv'
  <1>1. /\ UNCHANGED <<src, blind, dest, wire, back, accepted, closed, s, dc, acks>> /\ r.pc = "loop" /\ closed
        /\ r' = [r EXCEPT !.pc = "abort", !.dirs = {}] /\ IsReceiver(r)
    BY CountsAre DEF RLost
  <1>2. /\ r'.pc = "abort" /\ r'.requested = r.requested /\ r'.completed = r.completed
        /\ r'.doneSeen = r.doneSeen
    BY <1>1 DEF IsReceiver
  <1>3. accepted # 0
    BY <1>1 DEF MInv, Answered
  <1> QED
    BY <1>1, <1>2, <1>3, ReceiverStill

\* What is left on the way when one of the counts goes down.
LEMMA PendingParts ==
    ASSUME IInv
    PROVE  /\ Pending = Count(back[2], "request") + Count(wire[3], "data") + Len(dc) + Len(acks) + Count(wire[1], "entryError")
           /\ Pending \in Nat
  BY CountsAre DEF Pending

LEMMA PendingAfter ==
    ASSUME IInv'
    PROVE  /\ Pending' = Count(back'[2], "request") + Count(wire'[3], "data") + Len(dc') + Len(acks') + Count(wire'[1], "entryError")
           /\ Pending' \in Nat
           /\ Count(back'[2], "request") \in Nat /\ Count(wire'[3], "data") \in Nat /\ Count(wire'[1], "entryError") \in Nat
           /\ Len(dc') \in Nat /\ Len(acks') \in Nat
  <1>1. IsWire(wire', 3) /\ IsWire(back', 4) /\ IsSeq(dc') /\ IsSeq(acks')
    BY DEF IInv, Shape
  <1>2. Len(dc') \in Nat /\ Len(acks') \in Nat
    BY <1>1 DEF IsSeq
  <1>3. /\ Count(back'[2], "request") \in Nat /\ Count(wire'[3], "data") \in Nat /\ Count(wire'[1], "entryError") \in Nat
    BY <1>1, CountsOf
  <1>4. Pending' = Count(back'[2], "request") + Count(wire'[3], "data") + Len(dc') + Len(acks') + Count(wire'[1], "entryError")
    BY DEF Pending
  <1> QED
    BY <1>2, <1>3, <1>4

LEMMA AnswersOne ==
    ASSUME IInv, NEW a, RSend({a}), NEW k \in 1..4, StreamSlot(ReceiverStreamKind(a)) = k
    PROVE  /\ \A j \in 1..4 : j # k => back'[j] = back[j]
           /\ \A x \in Range(back'[k]) : x \in Range(back[k]) \/ x = a
           /\ Range(back[k]) \subseteq Range(back'[k])
           /\ ~closed => a \in Range(back'[k])
           /\ \A t : /\ Says(back[k], t) => Says(back'[k], t)
                     /\ Says(back'[k], t) => Says(back[k], t) \/ a.t = t
                     /\ LastOf(back[k], t) /\ ~Says(back[k], t) => LastOf(back'[k], t)
                     /\ ~Says(back[k], t) /\ a.t # t => LastOf(back'[k], t)
  <1>1. IsWire(back, 4) /\ IsFiniteSet({a})
    BY CountsAre, FS_Singleton
  <1>2. ASSUME NEW j \in 1..4, j # k PROVE back'[j] = back[j]
    <2>1. \A m : m \in {} <=> m \in {a} /\ StreamSlot(ReceiverStreamKind(m)) = j
      BY <1>2
    <2> QED
      BY <1>1, <2>1, Answers
  <1> DEFINE new == {a}
  <1>3. /\ \A m : m \in new <=> m \in {a} /\ StreamSlot(ReceiverStreamKind(m)) = k
        /\ Cardinality(new) <= 1
    BY FS_Singleton
  <1>4. new = {a}
    OBVIOUS
  <1> HIDE DEF new
  <1>5. /\ \A x \in Range(back'[k]) : x \in Range(back[k]) \/ x \in new
        /\ Range(back[k]) \subseteq Range(back'[k])
        /\ ~closed => new \subseteq Range(back'[k])
        /\ \A t : /\ Says(back[k], t) => Says(back'[k], t)
                  /\ Says(back'[k], t) => Says(back[k], t) \/ \E m \in new : m.t = t
                  /\ LastOf(back[k], t) /\ ~Says(back[k], t) /\ Cardinality(new) <= 1 => LastOf(back'[k], t)
                  /\ ~Says(back[k], t) /\ ~(\E m \in new : m.t = t) => LastOf(back'[k], t)
    BY <1>1, <1>3, Answers
  <1> QED
    BY <1>2, <1>3, <1>4, <1>5

LEMMA HelloAnswers ==
    ASSUME IInv, RHello
    PROVE  /\ r.pc \in {"handshake", "auth", "config"} /\ wire[1] # <<>> /\ wire' = Take(wire, 1)
           /\ UNCHANGED <<src, blind, dest, accepted, s, dc, acks>> /\ (closed => closed')
           /\ back' = back \/ \E a : RSend({a}) /\ a.t \in {"handshakeAck", "authResult"}
           /\ r'.pc \notin {"shutdown", "done"} /\ r'.requested = r.requested /\ r'.completed = r.completed
           /\ r'.doneSeen = r.doneSeen /\ r'.dirs = r.dirs
  <1> DEFINE m == Head(wire[1])
             n == Negotiate(peer.local, m.build)
             a == [t |-> "handshakeAck", ok |-> n.ok]
             b == [t |-> "authResult", ok |-> TokenOk(m)]
  <1>1. /\ r.pc \in {"handshake", "auth", "config"} /\ wire[1] # <<>> /\ wire' = Take(wire, 1)
        /\ UNCHANGED <<src, blind, dest, accepted, s, dc, acks>> /\ IsReceiver(r)
    BY CountsAre DEF RHello
  <1>2. a.t = "handshakeAck" /\ b.t = "authResult"
    OBVIOUS
  <1>3. CASE r.pc = "handshake" /\ m.t = "handshake"
    <2>1. /\ RSend({a}) /\ closed' = (closed \/ ~n.ok)
          /\ r' = [r EXCEPT !.pc = IF n.ok THEN "auth" ELSE "failed", !.features = n.features]
      BY <1>3 DEF RHello
    <2> HIDE DEF a, n
    <2>2. /\ r'.pc \notin {"shutdown", "done"} /\ r'.requested = r.requested /\ r'.completed = r.completed
          /\ r'.doneSeen = r.doneSeen /\ r'.dirs = r.dirs
      BY <1>1, <2>1 DEF IsReceiver
    <2> QED
      BY <1>1, <1>2, <2>1, <2>2
  <1>4. CASE r.pc = "auth" /\ m.t = "auth"
    <2>1. /\ RSend({b}) /\ closed' = (closed \/ ~TokenOk(m))
          /\ r' = [r EXCEPT !.pc = IF TokenOk(m) THEN "config" ELSE "failed"]
      BY <1>4 DEF RHello
    <2> HIDE DEF b, m
    <2>2. /\ r'.pc \notin {"shutdown", "done"} /\ r'.requested = r.requested /\ r'.completed = r.completed
          /\ r'.doneSeen = r.doneSeen /\ r'.dirs = r.dirs
      BY <1>1, <2>1 DEF IsReceiver
    <2> QED
      BY <1>1, <1>2, <2>1, <2>2
  <1>5. CASE r.pc = "config" /\ m.t = "config"
    <2>1. r' = [r EXCEPT !.pc = "loop"] /\ UNCHANGED <<back, closed>>
      BY <1>5 DEF RHello
    <2> HIDE DEF m
    <2>2. /\ r'.pc \notin {"shutdown", "done"} /\ r'.requested = r.requested /\ r'.completed = r.completed
          /\ r'.doneSeen = r.doneSeen /\ r'.dirs = r.dirs
      BY <1>1, <2>1 DEF IsReceiver
    <2> QED
      BY <1>1, <2>1, <2>2
  <1>6. CASE ~(r.pc = "handshake" /\ m.t = "handshake") /\ ~(r.pc = "auth" /\ m.t = "auth") /\ ~(r.pc = "config" /\ m.t = "config")
    <2>1. UNCHANGED <<r, back, closed>>
      BY <1>6 DEF RHello
    <2> QED
      BY <1>1, <2>1
  <1> QED
    BY <1>3, <1>4, <1>5, <1>6

LEMMA MirrorsRHello == ASSUME IInv, IInv', MInv, RHello PROVE MInv'
  <1> DEFINE m == Head(wire[1])
  <1>0. m = Head(wire[1]) /\ 1 \in 1..3
    OBVIOUS
  <1> HIDE DEF m
  <1>1. /\ r.pc \in {"handshake", "auth", "config"} /\ wire[1] # <<>> /\ wire' = Take(wire, 1)
        /\ UNCHANGED <<src, blind, dest, accepted, s, dc, acks>> /\ (closed => closed')
        /\ back' = back \/ \E a : RSend({a}) /\ a.t \in {"handshakeAck", "authResult"}
        /\ r'.pc \notin {"shutdown", "done"} /\ r'.requested = r.requested /\ r'.completed = r.completed
        /\ r'.doneSeen = r.doneSeen /\ r'.dirs = r.dirs
    BY HelloAnswers
  <1>2. /\ wire'[2] = wire[2] /\ wire'[3] = wire[3] /\ Range(wire'[1]) \subseteq Range(wire[1])
        /\ \A t : Says(wire'[1], t) => Says(wire[1], t)
    BY <1>0, <1>1, WireLess
  <1>3. /\ back'[2] = back[2] /\ back'[4] = back[4]
        /\ \A j \in 1..4 : \A x \in Range(back'[j]) : x \in Range(back[j]) \/ StreamSlot(ReceiverStreamKind(x)) = j
    <2>1. CASE back' = back
      BY <2>1
    <2>2. CASE \E a : RSend({a}) /\ a.t \in {"handshakeAck", "authResult"}
      <3>1. PICK a : RSend({a}) /\ a.t \in {"handshakeAck", "authResult"}
        BY <2>2
      <3>2. StreamSlot(ReceiverStreamKind(a)) = 1 /\ 1 \in 1..4 /\ 2 \in 1..4 /\ 4 \in 1..4
        BY <3>1, Slots
      <3>3. /\ \A j \in 1..4 : j # 1 => back'[j] = back[j]
            /\ \A x \in Range(back'[1]) : x \in Range(back[1]) \/ x = a
        BY <3>1, <3>2, AnswersOne
      <3> QED
        BY <3>2, <3>3
    <2> QED
      BY <1>1, <2>1, <2>2
  <1>4. ~Told /\ ~Told' /\ accepted # 0
    BY <1>1, <1>3 DEF MInv, Answered, Told
  <1>5. Placed'
    <2>1. \A j \in 1..3 : \A x \in Range(wire'[j]) : x \in Range(wire[j])
      BY <1>0, <1>1, WireLess
    <2> QED
      BY <1>3, <2>1, PlacedKept DEF MInv
  <1>6. Answered'
    BY <1>1, <1>3, <1>4 DEF MInv, Answered
  <1>7. Counted'
    <2>1. Count(wire[1], "entryError") = Count(wire'[1], "entryError") + (IF m.t = "entryError" THEN 1 ELSE 0)
      BY <1>0, <1>1, WireCount
    <2>2. Pending' <= Pending
      <3>1. PICK a \in Nat, b \in Nat, c \in Nat, d \in Nat, e \in Nat, x \in Nat :
                  /\ a = Count(back[2], "request") /\ b = Count(wire[3], "data") /\ c = Len(dc) /\ d = Len(acks)
                  /\ e = Count(wire[1], "entryError") /\ x = Count(wire'[1], "entryError")
        BY CountsAre, PendingAfter
      <3>2. Pending = a + b + c + d + e
        BY <3>1, PendingParts
      <3>3. Pending' = a + b + c + d + x
        BY <1>1, <1>2, <1>3, <3>1, PendingAfter
      <3>4. e = x \/ e = x + 1
        BY <2>1, <3>1
      <3> HIDE DEF Pending
      <3> QED
        BY <3>2, <3>3, <3>4
    <2>3. r.requested \in Nat /\ r.completed \in Nat /\ r.completed + Pending <= r.requested
      BY DEF MInv, Counted
    <2>4. Pending \in Nat /\ Pending' \in Nat
      BY PendingParts, PendingAfter
    <2> HIDE DEF Pending
    <2> QED
      BY <1>1, <2>2, <2>3, <2>4 DEF Counted
  <1>8. (Clean' => Clean) /\ \A p : Asked(p) => Asked(p)'
    BY <1>1, <1>2, <1>3 DEF Clean, Asked
  <1> QED
    BY <1>1, <1>2, <1>3, <1>4, <1>5, <1>6, <1>7, <1>8, SameSettles, ReceiverQuiet

LEMMA Continues ==
    ASSUME NEW x, IsReceiver(x)
    PROVE  /\ Continue(x).requested = x.requested /\ Continue(x).completed = x.completed
           /\ Continue(x).doneSeen = x.doneSeen /\ Continue(x).dirs = x.dirs
           /\ Continue(x).pc \in {"loop", "shutdown"}
           /\ Continue(x).pc = "shutdown" => Complete(x)
  <1> DEFINE k == IF Complete(x) THEN "shutdown" ELSE "loop"
  <1>1. Continue(x) = [x EXCEPT !.pc = k]
    BY DEF Continue
  <1>2. k \in {"loop", "shutdown"} /\ (k = "shutdown" => Complete(x))
    OBVIOUS
  <1> HIDE DEF k
  <1> QED
    BY <1>1, <1>2 DEF IsReceiver

LEMMA SeesDone ==
    ASSUME NEW x, IsReceiver(x), NEW v
    PROVE  LET y == [x EXCEPT !.doneSeen = v]
           IN  /\ y.requested = x.requested /\ y.completed = x.completed /\ y.dirs = x.dirs /\ y.doneSeen = v
               /\ IsReceiver(y)
  BY DEF IsReceiver

LEMMA MirrorsRControl == ASSUME IInv, IInv', MInv, RControl PROVE MInv'
  <1> DEFINE m == Head(wire[1])
  <1>0. m = Head(wire[1]) /\ 1 \in 1..3
    OBVIOUS
  <1>1. /\ r.pc = "loop" /\ wire[1] # <<>> /\ wire' = Take(wire, 1) /\ IsReceiver(r)
        /\ UNCHANGED <<src, blind, dest, back, accepted, closed, s, dc, acks>>
        /\ r' = CASE m.t = "transferDone" -> Continue([r EXCEPT !.doneSeen = TRUE])
                  [] m.t = "entryError" -> Continue([r EXCEPT !.completed = @ + 1])
                  [] OTHER -> r
    BY CountsAre DEF RControl
  <1> HIDE DEF m
  <1>2. /\ r'.requested = r.requested /\ r'.dirs = r.dirs
        /\ r'.completed = IF m.t = "entryError" THEN r.completed + 1 ELSE r.completed
        /\ r'.doneSeen => r.doneSeen \/ m.t = "transferDone"
        /\ r'.pc \in {"loop", "shutdown"} /\ (r'.pc = "shutdown" => Complete(r'))
    <2>1. CASE m.t = "transferDone"
      <3> DEFINE x == [r EXCEPT !.doneSeen = TRUE]
      <3>4. x.requested = r.requested /\ x.completed = r.completed /\ x.dirs = r.dirs /\ x.doneSeen = TRUE /\ IsReceiver(x)
        BY <1>1, SeesDone
      <3>2. r' = Continue(x)
        BY <1>1, <2>1
      <3> HIDE DEF x
      <3> QED
        BY <2>1, <3>2, <3>4, Continues DEF Complete
    <2>2. CASE m.t = "entryError"
      <3> DEFINE x == [r EXCEPT !.completed = @ + 1]
      <3>1. IsReceiver(x) /\ x.requested = r.requested /\ x.completed = r.completed + 1 /\ x.dirs = r.dirs /\ x.doneSeen = r.doneSeen
        BY <1>1 DEF IsReceiver
      <3>2. r' = Continue(x)
        BY <1>1, <2>2
      <3> HIDE DEF x
      <3> QED
        BY <2>2, <3>1, <3>2, Continues DEF Complete
    <2>3. CASE m.t \notin {"transferDone", "entryError"}
      BY <1>1, <2>3
    <2> QED
      BY <2>1, <2>2, <2>3
  <1>3. /\ wire'[2] = wire[2] /\ wire'[3] = wire[3] /\ m \in Range(wire[1])
        /\ \A j \in 1..3 : Range(wire'[j]) \subseteq Range(wire[j])
        /\ \A t : Says(wire'[1], t) => Says(wire[1], t)
    BY <1>0, <1>1, WireLess
  <1>4. ~Told /\ ~Told' /\ accepted # 0
    BY <1>1 DEF MInv, Answered, Told
  <1>5. Placed'
    BY <1>1, <1>3, PlacedKept DEF MInv
  <1>6. Answered'
    BY <1>1, <1>2, <1>4 DEF MInv, Answered
  <1>7. Counted'
    <2>1. Count(wire[1], "entryError") = Count(wire'[1], "entryError") + (IF m.t = "entryError" THEN 1 ELSE 0)
      BY <1>0, <1>1, WireCount
    <2>2. Pending = Pending' + (IF m.t = "entryError" THEN 1 ELSE 0)
      <3>1. PICK a \in Nat, b \in Nat, c \in Nat, d \in Nat, e \in Nat, x \in Nat :
                  /\ a = Count(back[2], "request") /\ b = Count(wire[3], "data") /\ c = Len(dc) /\ d = Len(acks)
                  /\ e = Count(wire[1], "entryError") /\ x = Count(wire'[1], "entryError")
        BY CountsAre, PendingAfter
      <3>2. Pending = a + b + c + d + e
        BY <3>1, PendingParts
      <3>3. Pending' = a + b + c + d + x
        BY <1>1, <1>3, <3>1, PendingAfter
      <3> HIDE DEF Pending
      <3>4. CASE m.t = "entryError"
        <4>1. e = x + 1
          BY <2>1, <3>1, <3>4
        <4> QED
          BY <3>2, <3>3, <3>4, <4>1
      <3>5. CASE m.t # "entryError"
        <4>1. e = x
          BY <2>1, <3>1, <3>5
        <4> QED
          BY <3>2, <3>3, <3>5, <4>1
      <3> QED
        BY <3>4, <3>5
    <2>3. r.requested \in Nat /\ r.completed \in Nat /\ r.completed + Pending <= r.requested
      BY DEF MInv, Counted
    <2>4. Pending \in Nat /\ Pending' \in Nat
      BY PendingParts, PendingAfter
    <2> HIDE DEF Pending
    <2> QED
      BY <1>2, <2>2, <2>3, <2>4 DEF Counted
  <1>8. (Clean' => Clean) /\ \A p : Asked(p) => Asked(p)'
    BY <1>1, <1>3 DEF Clean, Asked
  <1>9. Says(wire'[1], "transferDone") \/ r'.doneSeen => Says(wire[1], "transferDone") \/ r.doneSeen
    BY <1>2, <1>3 DEF Says
  <1> QED
    BY <1>1, <1>2, <1>3, <1>4, <1>5, <1>6, <1>7, <1>8, <1>9, SameSettles, ReceiverQuiet

LEMMA AppendRange ==
    ASSUME NEW q, IsSeq(q), NEW m
    PROVE  Range(Append(q, m)) = Range(q) \cup {m} /\ Len(Append(q, m)) = Len(q) + 1
  <1>1. q \in Seq(Range(q) \cup {m}) /\ Len(q) \in Nat /\ DOMAIN q = 1..Len(q)
    BY DEF IsSeq, Range
  <1>2. /\ Len(Append(q, m)) = Len(q) + 1 /\ Append(q, m)[Len(q) + 1] = m
        /\ \A i \in 1..Len(q) : Append(q, m)[i] = q[i]
    <2> DEFINE T == Range(q) \cup {m}
    <2>1. q \in Seq(T) /\ m \in T
      BY <1>1
    <2> HIDE DEF T
    <2> QED
      BY <2>1
  <1>3. IsSeq(Append(q, m)) /\ Range(Append(q, m)) \subseteq Range(q) \cup {m}
    BY AppendIsSeq
  <1>4. m \in Range(Append(q, m))
    <2>1. Len(q) + 1 \in 1..Len(Append(q, m))
      BY <1>1, <1>2
    <2> QED
      BY <1>2, <1>3, <2>1, ElementAt
  <1>5. \A i \in 1..Len(q) : q[i] \in Range(Append(q, m))
    <2> SUFFICES ASSUME NEW i \in 1..Len(q) PROVE q[i] \in Range(Append(q, m))
      OBVIOUS
    <2>1. i \in 1..Len(Append(q, m)) /\ Append(q, m)[i] = q[i]
      BY <1>1, <1>2
    <2> QED
      BY <1>3, <2>1, ElementAt
  <1>6. Range(q) \subseteq Range(Append(q, m))
    BY <1>1, <1>5 DEF Range
  <1> QED
    BY <1>2, <1>3, <1>4, <1>6

LEMMA MirrorsRData == ASSUME IInv, IInv', MInv, RData PROVE MInv'
  <1> DEFINE m == Head(wire[3])
  <1>0. m = Head(wire[3]) /\ 3 \in 1..3 /\ 1 \in 1..3 /\ 2 \in 1..3
    OBVIOUS
  <1>1. /\ r.pc = "loop" /\ wire[3] # <<>> /\ wire' = Take(wire, 3) /\ IsSeq(dc)
        /\ UNCHANGED <<src, blind, back, accepted, closed, s, r, acks>>
        /\ dc' = IF m.t = "data" THEN Append(dc, m.path) ELSE dc
        /\ dest' = IF m.t = "setAcl" /\ dest[m.path] # ABSENT THEN [dest EXCEPT ![m.path].acl = TRUE] ELSE dest
    BY CountsAre DEF RData
  <1> HIDE DEF m
  <1>2. /\ wire'[2] = wire[2] /\ wire'[1] = wire[1] /\ m \in Range(wire[3]) /\ Range(wire[3]) = Range(wire'[3]) \cup {m}
        /\ \A j \in 1..3 : Range(wire'[j]) \subseteq Range(wire[j])
    BY <1>0, <1>1, WireLess
  <1>3. ~Told /\ ~Told' /\ accepted # 0
    BY <1>1 DEF MInv, Answered, Told
  <1>4. Settles
    <2>1. CASE m.t = "setAcl" /\ dest[m.path] # ABSENT
      <3>1. InSource(m.path)
        BY <1>0, <1>2, <2>1 DEF IInv, Sent, FromSource
      <3> DEFINE p == m.path
      <3>2. Trees /\ p \in Paths /\ dest[p] # ABSENT /\ dest' = [dest EXCEPT ![p].acl = TRUE]
        BY <1>1, <2>1, <3>1 DEF IInv, InSource
      <3> HIDE DEF p
      <3> QED
        BY <1>1, <3>2, AclKeeps
    <2>2. CASE ~(m.t = "setAcl" /\ dest[m.path] # ABSENT)
      BY <1>1, <2>2, SameSettles
    <2> QED
      BY <2>1, <2>2
  <1>5. Placed'
    BY <1>1, <1>2, PlacedKept DEF MInv
  <1>6. Answered'
    BY <1>1, <1>2, <1>3 DEF MInv, Answered
  <1>7. Len(dc') = Len(dc) + (IF m.t = "data" THEN 1 ELSE 0) /\ (m.t = "data" => Range(dc') = Range(dc) \cup {m.path})
    <2>1. Len(dc) \in Nat
      BY CountsAre
    <2>2. CASE m.t = "data"
      BY <1>1, <2>2, AppendRange
    <2>3. CASE m.t # "data"
      BY <1>1, <2>1, <2>3
    <2> QED
      BY <2>2, <2>3
  <1>8. Counted'
    <2>1. Count(wire[3], "data") = Count(wire'[3], "data") + (IF m.t = "data" THEN 1 ELSE 0)
      BY <1>0, <1>1, WireCount
    <2>2. Pending = Pending'
      <3>1. /\ Count(back[2], "request") \in Nat /\ Count(wire[3], "data") \in Nat /\ Count(wire[1], "entryError") \in Nat
            /\ Len(dc) \in Nat /\ Len(acks) \in Nat
        BY CountsAre
      <3>2. Pending = Count(back[2], "request") + Count(wire[3], "data") + Len(dc) + Len(acks) + Count(wire[1], "entryError")
        BY PendingParts
      <3>3. /\ Pending' = Count(back[2], "request") + Count(wire'[3], "data") + Len(dc') + Len(acks) + Count(wire[1], "entryError")
            /\ Count(wire'[3], "data") \in Nat /\ Len(dc') \in Nat
        BY <1>1, <1>2, PendingAfter
      <3> HIDE DEF Pending
      <3>4. CASE m.t = "data"
        BY <1>7, <2>1, <3>1, <3>2, <3>3, <3>4
      <3>5. CASE m.t # "data"
        BY <1>7, <2>1, <3>1, <3>2, <3>3, <3>5
      <3> QED
        BY <3>4, <3>5
    <2>3. r.requested \in Nat /\ r.completed \in Nat /\ r.completed + Pending <= r.requested
      BY DEF MInv, Counted
    <2> HIDE DEF Pending
    <2> QED
      BY <1>1, <2>2, <2>3 DEF Counted
  <1>9. Clean' => Clean
    BY <1>1, <1>2 DEF Clean
  <1>10. ASSUME NEW p \in Paths, Asked(p) PROVE Asked(p)'
    <2>1. Range(dc) \subseteq Range(dc')
      BY <1>1, <1>7
    <2>2. CASE \E x \in Range(wire[3]) : x.t = "data" /\ x.path = p
      BY <1>2, <1>7, <2>2 DEF Asked
    <2> QED
      BY <1>1, <1>10, <2>1, <2>2 DEF Asked
  <1> QED
    BY <1>1, <1>2, <1>3, <1>4, <1>5, <1>6, <1>8, <1>9, <1>10, ReceiverQuiet

\* What leaves one queue for another is still pending.
LEMMA OneMoved ==
    ASSUME NEW x \in Nat, NEW b \in Nat, NEW c \in Nat, NEW d \in Nat, NEW e \in Nat
    PROVE  x + b + (c - 1) + (d + 1) + e = x + b + c + d + e
  OBVIOUS

\* An outcome is queued for the receiver.
LEMMA CommitAnswered ==
    ASSUME IInv, IInv', MInv, UNCHANGED <<src, blind, wire, back, accepted, closed, s, r>>,
           dc # <<>>, dc' = Tail(dc), NEW p0, p0 = Head(dc), NEW a, acks' = Append(acks, a),
           dest' = dest \/ Settles, a.ok => Right(p0)'
    PROVE  MInv'
  <1>1. /\ IsSeq(dc) /\ IsSeq(acks) /\ Len(dc) \in Nat /\ Len(acks) \in Nat
    BY CountsAre
  <1>2. /\ Range(acks') = Range(acks) \cup {a} /\ Len(acks') = Len(acks) + 1
        /\ Range(dc) = Range(dc') \cup {Head(dc)} /\ Len(dc') = Len(dc) - 1
    BY <1>1, AppendRange, TailKeeps, TailIsSeq
  <1>3. ~Told /\ ~Told' /\ r.pc # "done"
    BY DEF MInv, Answered, Told
  <1>4. Placed'
    BY DEF MInv, Placed
  <1>5. Answered'
    BY <1>3 DEF MInv, Answered, Complete
  <1>6. Counted'
    <2>1. Pending' = Pending
      <3>1. Count(back[2], "request") \in Nat /\ Count(wire[3], "data") \in Nat /\ Count(wire[1], "entryError") \in Nat
        BY CountsAre
      <3>2. Pending = Count(back[2], "request") + Count(wire[3], "data") + Len(dc) + Len(acks) + Count(wire[1], "entryError")
        BY PendingParts
      <3>3. Pending' = Count(back[2], "request") + Count(wire[3], "data") + Len(dc') + Len(acks') + Count(wire[1], "entryError")
        BY PendingAfter
      <3>4. PICK x \in Nat, b \in Nat, c \in Nat, d \in Nat, e \in Nat :
                  /\ x = Count(back[2], "request") /\ b = Count(wire[3], "data") /\ c = Len(dc) /\ d = Len(acks)
                  /\ e = Count(wire[1], "entryError")
        BY <1>1, <3>1
      <3>5. Pending = x + b + c + d + e
        BY <3>2, <3>4
      <3>6. Pending' = x + b + (c - 1) + (d + 1) + e
        BY <1>2, <3>3, <3>4
      <3>7. x + b + (c - 1) + (d + 1) + e = x + b + c + d + e
        BY OneMoved
      <3> HIDE DEF Pending
      <3> QED
        BY <3>5, <3>6, <3>7
    <2> HIDE DEF Pending
    <2> QED
      BY <2>1 DEF MInv, Counted
  <1>7. Clean' => Clean /\ a.ok
    BY <1>2 DEF Clean
  <1>8. Settles
    BY SameSettles
  <1>9. Clean' => \A p \in Paths : Asked(p) => Asked(p)' \/ Right(p)'
    <2> SUFFICES ASSUME Clean', NEW p \in Paths, Asked(p) PROVE Asked(p)' \/ Right(p)'
      OBVIOUS
    <2>1. CASE p = p0
      BY <1>7, <2>1
    <2>2. CASE p # p0
      BY <1>2, <2>2 DEF Asked
    <2> QED
      BY <2>1, <2>2
  <1> QED
    BY <1>3, <1>4, <1>5, <1>6, <1>7, <1>8, <1>9, ReceiverQuiet

LEMMA MirrorsDiskCommit == ASSUME IInv, IInv', MInv, DiskCommit PROVE MInv'
  <1>1. /\ UNCHANGED <<src, blind, wire, back, accepted, closed, s, r>> /\ dc # <<>> /\ dc' = Tail(dc) /\ IsSeq(dc)
    BY CountsAre DEF DiskCommit
  <1>2. PICK p : p = Head(dc)
    OBVIOUS
  <1> DEFINE good == [path |-> p, ok |-> TRUE]
             bad == [path |-> p, ok |-> FALSE]
  <1>3. \/ acks' = Append(acks, good) /\ dest[p].kind # "dir" /\ Placeable(p) /\ dest' = Published(p)
        \/ acks' = Append(acks, bad) /\ dest' = dest
    BY <1>2 DEF DiskCommit
  <1>4. InSource(p)
    BY <1>1, <1>2, TailIsSeq DEF IInv, Outcomes
  <1>5. good.ok /\ ~bad.ok
    OBVIOUS
  <1> HIDE DEF good, bad
  <1>6. CASE acks' = Append(acks, good) /\ dest[p].kind # "dir" /\ Placeable(p) /\ dest' = Published(p)
    <2>1. Settles /\ Right(p)'
      BY <1>1, <1>4, <1>6, CommitKeeps DEF IInv
    <2> QED
      BY <1>1, <1>2, <1>5, <1>6, <2>1, CommitAnswered
  <1>7. CASE acks' = Append(acks, bad) /\ dest' = dest
    BY <1>1, <1>2, <1>5, <1>7, CommitAnswered
  <1> QED
    BY <1>3, <1>6, <1>7

LEMMA MirrorsROutcome == ASSUME IInv, IInv', MInv, ROutcome PROVE MInv'
  <1> DEFINE a == Head(acks)
             m == [t |-> IF a.ok THEN "success" ELSE "error", path |-> a.path]
             x == [r EXCEPT !.completed = @ + 1]
  <1>1. /\ r.pc \in {"loop", "shutdown", "abort"} /\ acks # <<>> /\ acks' = Tail(acks) /\ RSend({m})
        /\ UNCHANGED <<src, blind, dest, wire, accepted, closed, s, dc>>
        /\ r' = (IF r.pc = "loop" THEN Continue(x) ELSE x) /\ IsReceiver(r) /\ IsSeq(acks)
    BY CountsAre DEF ROutcome
  <1>2. /\ m.t \in {"success", "error"} /\ (~a.ok => m.t = "error") /\ StreamSlot(ReceiverStreamKind(m)) = 4
        /\ 4 \in 1..4 /\ 2 \in 1..4 /\ a = Head(acks)
    BY Slots
  <1>3. /\ IsReceiver(x) /\ x.pc = r.pc /\ x.requested = r.requested /\ x.completed = r.completed + 1
        /\ x.dirs = r.dirs /\ x.doneSeen = r.doneSeen
    BY <1>1 DEF IsReceiver
  <1> HIDE DEF a, m, x
  <1>4. /\ r.requested \in Nat /\ r.completed \in Nat /\ r.completed + Pending <= r.requested
    BY DEF MInv, Counted
  <1>5. /\ r'.requested = r.requested /\ r'.completed = r.completed + 1 /\ r'.doneSeen = r.doneSeen /\ r'.dirs = r.dirs
        /\ r'.pc # "done" /\ (r'.pc = "shutdown" => Complete(r'))
    <2>1. CASE r.pc = "loop"
      <3>1. r' = Continue(x)
        BY <1>1, <2>1
      <3> QED
        BY <1>3, <3>1, Continues DEF Complete
    <2>2. CASE r.pc # "loop"
      <3>1. r' = x
        BY <1>1, <2>2
      <3>2. r.pc = "shutdown" => Complete(r)
        BY DEF MInv, Answered
      <3> QED
        BY <1>1, <1>3, <1>4, <3>1, <3>2 DEF Complete
    <2> QED
      BY <2>1, <2>2
  <1>6. /\ \A j \in 1..4 : j # 4 => back'[j] = back[j]
        /\ \A y \in Range(back'[4]) : y \in Range(back[4]) \/ y = m
        /\ ~closed => m \in Range(back'[4])
        /\ \A t : /\ Says(back[4], t) => Says(back'[4], t)
                  /\ Says(back'[4], t) => Says(back[4], t) \/ m.t = t
                  /\ ~Says(back[4], t) /\ m.t # t => LastOf(back'[4], t)
    BY <1>1, <1>2, AnswersOne
  <1>7. ~Told /\ ~Told' /\ accepted # 0
    <2>1. ~Told /\ accepted # 0
      BY <1>1 DEF MInv, Answered
    <2> QED
      BY <1>1, <1>2, <1>6, <2>1 DEF Told
  <1>8. Placed'
    BY <1>1, <1>2, <1>6, PlacedKept DEF MInv
  <1>9. Answered'
    <2>1. ~s.allDone /\ ~Says(back[4], "allDone")
      BY <1>7 DEF Told
    <2>2. LastOf(back'[4], "allDone")
      BY <1>2, <1>6, <2>1
    <2>3. ~s'.allDone /\ (s'.pc = "done" => s'.allDone)
      BY <1>1, <2>1 DEF MInv, Answered
    <2> QED
      BY <1>1, <1>5, <1>7, <2>2, <2>3 DEF Answered
  <1>10. Range(acks) = Range(acks') \cup {a} /\ Len(acks') = Len(acks) - 1
    BY <1>1, <1>2, TailKeeps, TailIsSeq
  <1>11. Counted'
    <2>1. Pending = Pending' + 1
      <3>1. PICK n \in Nat, b \in Nat, c \in Nat, d \in Nat, e \in Nat :
                  /\ n = Count(back[2], "request") /\ b = Count(wire[3], "data") /\ c = Len(dc) /\ d = Len(acks)
                  /\ e = Count(wire[1], "entryError")
        BY CountsAre
      <3>2. Pending = n + b + c + d + e
        BY <3>1, PendingParts
      <3>3. back'[2] = back[2] /\ wire' = wire /\ dc' = dc
        BY <1>1, <1>2, <1>6
      <3>4. Pending' = n + b + c + (d - 1) + e
        BY <1>10, <3>1, <3>3, PendingAfter
      <3> HIDE DEF Pending
      <3> QED
        BY <3>2, <3>4
    <2>2. Pending \in Nat /\ Pending' \in Nat
      BY PendingParts, PendingAfter
    <2> HIDE DEF Pending
    <2> QED
      BY <1>4, <1>5, <2>1, <2>2 DEF Counted
  <1>12. ~closed => (Clean' => Clean)
    BY <1>1, <1>2, <1>6, <1>10 DEF Clean, Says
  <1>13. \A p : Asked(p) => Asked(p)'
    BY <1>1, <1>2, <1>6 DEF Asked
  <1>14. back'[2] = back[2]
    BY <1>2, <1>6
  <1> QED
    BY <1>1, <1>5, <1>7, <1>8, <1>9, <1>11, <1>12, <1>13, <1>14, SameSettles, ReceiverQuiet

-----------------------------------------------------------------------------
(* The receiver's list.                                                    *)

\* What the page handler answers: a file that is not as it should be is asked
\* for, and what could not be made or deleted is an error.
LEMMA PageAnswers ==
    ASSUME IInv, NEW m, m = PageOf(m.dir), NEW left, NEW unset, unset \subseteq MetadataOnly(m), RPage(m, left, unset)
    PROVE  /\ \A j \in 1..4 : \A x \in Range(back'[j]) : x \in Range(back[j]) \/ StreamSlot(ReceiverStreamKind(x)) = j
           /\ \A j \in 1..4 : Range(back[j]) \subseteq Range(back'[j])
           /\ Says(back'[2], "requestsDone") => Says(back[2], "requestsDone")
           /\ Says(back'[4], "allDone") => Says(back[4], "allDone")
           /\ ~closed => \A p \in m.files : Asks(p) => \E x \in Range(back'[2]) : x.t = "request" /\ x.path = p
           /\ ~closed => \A p \in m.subdirs : Creatable(p) \/ Says(back'[4], "error")
           /\ ~closed => \A p \in (Orphans(m) \cap left) \cup unset : Says(back'[4], "error")
           /\ Cardinality({p \in m.files : Asks(p)}) \in Nat
           /\ Count(back'[2], "request") <= Count(back[2], "request") + Cardinality({p \in m.files : Asks(p)})
  <1> DEFINE made == {p \in m.subdirs : Creatable(p)}
             stuck == (m.subdirs \ made) \cup (Orphans(m) \cap left) \cup unset
             gone == Orphans(m) \ left
             asked == {p \in m.files : Asks(p)}
             answered == m.files \ unset
             replies == [p \in m.files |-> Classify(p)]
             failed == [p \in Paths |-> [t |-> "error", path |-> p]]
             deleted == [p \in Paths |-> [t |-> "deleted", path |-> p]]
             A == {replies[p] : p \in answered}
             B == {[t |-> "error", path |-> p] : p \in stuck}
             C == {[t |-> "deleted", path |-> p] : p \in gone}
             Q == {replies[p] : p \in asked}
  <1>1. /\ m.files \subseteq Paths /\ m.subdirs \subseteq Paths
        /\ gone \subseteq Paths /\ stuck \subseteq Paths
    BY DEF PageOf, Children, Orphans, MetadataOnly
  <1>2. IsFiniteSet(Paths)
    BY RemoteTreeAssumption
  <1>3. IsFiniteSet(answered) /\ IsFiniteSet(asked) /\ asked \subseteq answered /\ answered \subseteq m.files
    <2>1. \A p \in unset : ~Asks(p)
      BY DEF MetadataOnly, Asks
    <2> QED
      BY <1>1, <1>2, <2>1, FS_Subset
  <1>4. IsFiniteSet(A)
    <2> HIDE DEF replies, answered
    <2> QED
      BY <1>3, ImageIsFinite
  <1>5. IsFiniteSet(Q) /\ Cardinality(Q) <= Cardinality(asked) /\ Cardinality(Q) \in Nat /\ Cardinality(asked) \in Nat
    <2> DEFINE g == [p \in asked |-> replies[p]]
    <2> HIDE DEF replies, asked
    <2>1. g \in Surjection(asked, Q)
      BY DEF Surjection
    <2> HIDE DEF g, Q
    <2> QED
      BY <1>3, <2>1, FS_Surjection, FS_CardinalityType
  <1>6. IsFiniteSet(B)
    <2>1. IsFiniteSet(stuck)
      BY <1>1, <1>2, FS_Subset
    <2>2. B = {failed[p] : p \in stuck}
      BY <1>1
    <2> HIDE DEF stuck, failed
    <2>3. IsFiniteSet({failed[p] : p \in stuck})
      BY <2>1, ImageIsFinite
    <2> QED
      BY <2>2, <2>3
  <1>7. IsFiniteSet(C)
    <2>1. IsFiniteSet(gone)
      BY <1>1, <1>2, FS_Subset
    <2>2. C = {deleted[p] : p \in gone}
      BY <1>1
    <2> HIDE DEF gone, deleted
    <2>3. IsFiniteSet({deleted[p] : p \in gone})
      BY <2>1, ImageIsFinite
    <2> QED
      BY <2>2, <2>3
  <1>8. /\ \A p \in m.files : /\ replies[p].path = p /\ replies[p].t \in {"request", "classified"}
                              /\ replies[p].t = "request" <=> Asks(p)
    BY DEF Classify
  <1>9. RSend((A \cup B) \cup C)
    BY DEF RPage
  <1>10. /\ \A x \in A : x.t \in {"request", "classified"} /\ (x.t = "request" => x \in Q)
         /\ \A p \in asked : replies[p] \in A /\ replies[p].t = "request" /\ replies[p].path = p
         /\ Q \subseteq A
    <2> HIDE DEF replies, answered
    <2>1. \A p \in asked : p \in m.files /\ Asks(p) /\ p \in answered
      BY <1>3
    <2>2. \A p \in answered : p \in m.files /\ (Asks(p) => p \in asked)
      BY <1>3
    <2> QED
      BY <1>8, <2>1, <2>2
  <1>11. /\ \A x \in B : x.t = "error"
         /\ \A p \in stuck : [t |-> "error", path |-> p] \in B
         /\ \A x \in C : x.t = "deleted"
    OBVIOUS
  <1> DEFINE e(p) == [t |-> "error", path |-> p]
  <1>12. \A p \in stuck : e(p) \in B /\ e(p).t = "error"
    BY <1>11
  <1>13. \A p \in m.files : Asks(p) => p \in asked
    OBVIOUS
  <1>14. /\ \A p \in m.subdirs : Creatable(p) \/ p \in stuck
         /\ \A p \in (Orphans(m) \cap left) \cup unset : p \in stuck
    OBVIOUS
  <1> HIDE DEF A, B, C, Q, asked, answered, stuck, replies, e, made, gone
  <1>15. IsFiniteSet((A \cup B) \cup C) /\ IsWire(back, 4) /\ IsFiniteSet({}) /\ Cardinality({}) = 0
    <2>1. IsFiniteSet(A \cup B)
      BY <1>4, <1>6, FS_Union
    <2>2. IsFiniteSet((A \cup B) \cup C)
      BY <1>7, <2>1, FS_Union
    <2> QED
      BY <2>2, CountsAre, FS_EmptySet
  <1> DEFINE all == (A \cup B) \cup C
  <1>16. \A x \in all : /\ StreamSlot(ReceiverStreamKind(x)) = (IF x \in B THEN 4 ELSE 2)
                        /\ x.t \in {"request", "classified", "error", "deleted"}
    BY <1>10, <1>11, Slots
  <1>17. /\ \A x : x \in A \cup C <=> x \in all /\ StreamSlot(ReceiverStreamKind(x)) = 2
         /\ \A x : x \in B <=> x \in all /\ StreamSlot(ReceiverStreamKind(x)) = 4
         /\ \A j \in {1, 3} : \A x : x \in {} <=> x \in all /\ StreamSlot(ReceiverStreamKind(x)) = j
    BY <1>10, <1>11, Slots
  <1>18. IsFiniteSet(all) /\ RSend(all)
    BY <1>9, <1>15
  <1> HIDE DEF all
  <1>19. back'[1] = back[1] /\ back'[3] = back[3]
    BY <1>15, <1>17, <1>18, Answers
  <1> DEFINE D == A \cup C
  <1>20. /\ \A x : x \in D <=> x \in all /\ StreamSlot(ReceiverStreamKind(x)) = 2
         /\ A \subseteq D /\ Q \in SUBSET D /\ \A x \in D : (x.t = "request" => x \in Q) /\ x.t # "requestsDone"
    BY <1>10, <1>11, <1>17
  <1> HIDE DEF D
  <1>21. /\ \A x \in Range(back'[2]) : x \in Range(back[2]) \/ x \in D
         /\ Range(back[2]) \subseteq Range(back'[2])
         /\ ~closed => D \subseteq Range(back'[2])
         /\ Says(back'[2], "requestsDone") => Says(back[2], "requestsDone") \/ \E x \in D : x.t = "requestsDone"
    BY <1>15, <1>18, <1>20, Answers
  <1>22. Count(back'[2], "request") <= Count(back[2], "request") + Cardinality(Q)
    BY <1>15, <1>18, <1>20, Answers
  <1>23. /\ \A x \in Range(back'[4]) : x \in Range(back[4]) \/ x \in B
         /\ Range(back[4]) \subseteq Range(back'[4])
         /\ ~closed => B \subseteq Range(back'[4])
         /\ Says(back'[4], "allDone") => Says(back[4], "allDone") \/ \E x \in B : x.t = "allDone"
    BY <1>15, <1>17, <1>18, Answers
  <1>24. Count(back'[2], "request") <= Count(back[2], "request") + Cardinality(asked)
    <2>1. Count(back[2], "request") \in Nat
      BY CountsAre
    <2>2. Count(back'[2], "request") \in Nat
      <3>1. IsWire(back', 4)
        BY <1>15, <1>18, ReceiverSends
      <3>2. IsSeq(back'[2])
        BY <3>1 DEF IsWire
      <3> QED
        BY <3>2, CountIs
    <2> QED
      BY <1>5, <1>22, <2>1, <2>2
  <1>25. ~closed => \A p \in stuck : Says(back'[4], "error")
    BY <1>12, <1>23 DEF Says
  <1>26. ~closed => \A p \in asked : \E x \in Range(back'[2]) : x.t = "request" /\ x.path = p
    BY <1>10, <1>20, <1>21
  <1>27. \A j \in 1..4 : \A x \in Range(back'[j]) : x \in Range(back[j]) \/ StreamSlot(ReceiverStreamKind(x)) = j
    BY <1>17, <1>19, <1>20, <1>21, <1>23
  <1>28. \A j \in 1..4 : Range(back[j]) \subseteq Range(back'[j])
    BY <1>19, <1>21, <1>23
  <1> QED
    BY <1>5, <1>11, <1>13, <1>14, <1>20, <1>21, <1>23, <1>24, <1>25, <1>26, <1>27, <1>28 DEF asked

\* Fewer requests leave less pending.
LEMMA FewerPending ==
    ASSUME NEW old \in Nat, NEW new \in Nat, NEW a \in Nat, NEW b \in Nat, NEW c \in Nat, NEW d \in Nat,
           NEW e \in Nat, NEW n \in Nat, NEW k \in Nat, e + (old + a + b + c + d) <= n, n + new <= k + old
    PROVE  e + (new + a + b + c + d) <= k
  OBVIOUS

\* A message taken from the list.
LEMMA ListTaken ==
    ASSUME IInv, IInv', MInv, UNCHANGED <<src, blind, accepted, s, dc, acks>>, r.pc = "loop",
           wire[2] # <<>>, wire' = Take(wire, 2), NEW m, m = Head(wire[2]), closed => closed',
           \A j \in 1..4 : \A x \in Range(back'[j]) : x \in Range(back[j]) \/ StreamSlot(ReceiverStreamKind(x)) = j,
           Says(back'[2], "requestsDone") => Says(back[2], "requestsDone") \/ m.t = "listDone",
           Says(back[4], "error") => Says(back'[4], "error"), Says(back'[4], "allDone") => Says(back[4], "allDone"),
           r'.pc \in {"loop", "abort"}, r'.completed = r.completed, r'.doneSeen = r.doneSeen, r'.requested \in Nat,
           r.requested + Count(back'[2], "request") <= r'.requested + Count(back[2], "request"),
           ~closed' => m.t # "listError",
           ~closed' /\ Clean' => Settles /\ r.dirs \subseteq r'.dirs /\ Range(back[2]) \subseteq Range(back'[2]),
           ~closed' /\ Clean' /\ m.t = "page" => Handled(m.dir)'
    PROVE  MInv'
  <1>0. 1 \in 1..3 /\ 2 \in 1..3 /\ 3 \in 1..3
    OBVIOUS
  <1>1. /\ wire'[1] = wire[1] /\ wire'[3] = wire[3] /\ m \in Range(wire[2]) /\ Range(wire[2]) = Range(wire'[2]) \cup {m}
        /\ \A j \in 1..3 : Range(wire'[j]) \subseteq Range(wire[j])
        /\ \A t : /\ Says(wire'[2], t) => Says(wire[2], t)
                  /\ Says(wire[2], t) => Says(wire'[2], t) \/ m.t = t
                  /\ LastOf(wire[2], t) => LastOf(wire'[2], t) /\ (m.t = t => wire'[2] = <<>>)
    BY <1>0, WireLess
  <1>2. ~Told /\ ~Told' /\ accepted # 0 /\ r.pc # "done"
    BY DEF MInv, Answered, Told
  <1>3. Observed' /\ Placed'
    BY <1>1, PlacedKept DEF MInv, Observed
  <1>4. Listed'
    <2>1. Listed
      BY DEF MInv
    <2>2. ~Says(back[2], "requestsDone") /\ ~s.doneSent
      BY <2>1 DEF Listed
    <2>3. Says(back'[2], "requestsDone") => s.listed /\ wire'[2] = <<>>
      BY <1>1, <2>1, <2>2 DEF Listed, Says
    <2> QED
      BY <1>1, <2>1, <2>2, <2>3 DEF Listed
  <1>5. Answered'
    <2>1. ~s.allDone /\ ~Says(back'[4], "allDone")
      BY <1>2 DEF Told
    <2>2. IsSeq(back'[4])
      <3>1. IsWire(back', 4)
        BY DEF IInv, Shape
      <3> QED
        BY <3>1 DEF IsWire
    <2>3. LastOf(back'[4], "allDone")
      BY <2>1, <2>2, LastOfNone
    <2>4. s.pc # "done"
      BY <2>1 DEF MInv, Answered
    <2> QED
      BY <1>2, <2>1, <2>3, <2>4 DEF Answered
  <1>6. Counted'
    <2>1. /\ Count(back[2], "request") \in Nat /\ Count(wire[3], "data") \in Nat /\ Count(wire[1], "entryError") \in Nat
          /\ Len(dc) \in Nat /\ Len(acks) \in Nat
      BY CountsAre
    <2>2. Pending = Count(back[2], "request") + Count(wire[3], "data") + Len(dc) + Len(acks) + Count(wire[1], "entryError")
      BY PendingParts
    <2>3. /\ Pending' = Count(back'[2], "request") + Count(wire[3], "data") + Len(dc) + Len(acks) + Count(wire[1], "entryError")
          /\ Count(back'[2], "request") \in Nat
      BY <1>1, PendingAfter
    <2> HIDE DEF Pending
    <2>4. r.requested \in Nat /\ r.completed \in Nat /\ r.completed + Pending <= r.requested
      BY DEF MInv, Counted
    <2>5. r.completed + Pending' <= r'.requested
      <3>1. PICK old \in Nat, new \in Nat : old = Count(back[2], "request") /\ new = Count(back'[2], "request")
        BY <2>1, <2>3
      <3>2. PICK a \in Nat, b \in Nat, c \in Nat, d \in Nat :
                  a = Count(wire[3], "data") /\ b = Len(dc) /\ c = Len(acks) /\ d = Count(wire[1], "entryError")
        BY <2>1
      <3>3. PICK n \in Nat, k \in Nat, e \in Nat : n = r.requested /\ k = r'.requested /\ e = r.completed
        BY <2>4
      <3>4. Pending = old + a + b + c + d
        BY <2>2, <3>1, <3>2
      <3>5. Pending' = new + a + b + c + d
        BY <2>3, <3>1, <3>2
      <3>6. e + (old + a + b + c + d) <= n
        BY <2>4, <3>3, <3>4
      <3>7. n + new <= k + old
        BY <3>1, <3>3
      <3>8. e + (new + a + b + c + d) <= k
        BY <3>6, <3>7, FewerPending
      <3> QED
        BY <3>3, <3>5, <3>8
    <2> QED
      BY <2>4, <2>5 DEF Counted
  <1>7. ~closed' /\ Clean' => ~closed /\ Clean
    BY <1>1 DEF Clean
  <1>8. ~closed' /\ Clean' => \A d \in (Paths \cup {ROOT}) \ blind : IsDir(src, d) /\ Coming(d) => Coming(d)' \/ Handled(d)'
    <2> SUFFICES ASSUME ~closed', Clean', NEW d \in (Paths \cup {ROOT}) \ blind, Coming(d)
                 PROVE  Coming(d)' \/ Handled(d)'
      OBVIOUS
    <2>1. CASE d \in Range(s.todo)
      BY <2>1 DEF Coming
    <2>2. CASE \E x \in Range(wire[2]) : x.t = "page" /\ x.dir = d
      <3>1. PICK x \in Range(wire[2]) : x.t = "page" /\ x.dir = d
        BY <2>2
      <3>2. CASE x \in Range(wire'[2])
        BY <3>1, <3>2 DEF Coming
      <3>3. CASE x = m
        BY <3>1, <3>3
      <3> QED
        BY <1>1, <3>1, <3>2, <3>3
    <2> QED
      BY <2>1, <2>2 DEF Coming
  <1>9. ~closed' /\ Clean' => \A p \in Paths : Settled(p) => Settled(p)'
    <2>1. ~closed' /\ Clean' => \A p \in Paths : Asked(p) => Asked(p)'
      BY <1>1 DEF Asked
    <2> QED
      BY <2>1, SettledKept
  <1>10. Covering'
    BY <1>7, <1>8, <1>9, CoveringKept DEF MInv
  <1>11. Finished'
    BY <1>2 DEF Finished
  <1> QED
    BY <1>3, <1>4, <1>5, <1>6, <1>10, <1>11 DEF MInv

\* After a page without errors, what is in its directory is as it should be, or
\* asked for.
LEMMA PageHandled ==
    ASSUME IInv, IInv', MInv, NEW m, m = PageOf(m.dir), IsDir(src, m.dir), m.t = "page", Whole(m),
           NEW left, \A q \in left : q \in Orphans(m) \/ Parent[q] \in left,
           NEW unset, unset \subseteq MetadataOnly(m), RPage(m, left, unset),
           UNCHANGED <<src, blind, closed>>, ~closed, Clean'
    PROVE  Handled(m.dir)'
  <1>1. /\ \A p \in m.files : Asks(p) => \E x \in Range(back'[2]) : x.t = "request" /\ x.path = p
        /\ \A p \in m.subdirs : Creatable(p) \/ Says(back'[4], "error")
        /\ \A p \in (Orphans(m) \cap left) \cup unset : Says(back'[4], "error")
    BY PageAnswers
  <1>2. ~Says(back'[4], "error") /\ unset = {}
    BY <1>1 DEF Clean
  <1>3. IsTree(src) /\ IsTree(dest)
    BY DEF IInv, Trees
  <1>4. /\ Settles
        /\ \A p \in m.files \ unset : ~Asks(p) => Right(p)'
        /\ \A p \in Orphans(m) \ left : dest'[p] = ABSENT
    BY <1>3, PageKeeps
  <1>5. \A p \in m.subdirs : p \in Paths /\ (Creatable(p) => dest'[p].kind = "dir")
    BY <1>3, PageEffect
  <1>6. \A p \in m.subdirs : Creatable(p) => p \in r'.dirs
    <2>1. IsReceiver(r) /\ r' = [r EXCEPT !.requested = @ + Cardinality({p \in m.files : Asks(p)}),
                                          !.dirs = @ \cup {p \in m.subdirs : Creatable(p)}]
      BY CountsAre DEF RPage
    <2> DEFINE n == Cardinality({p \in m.files : Asks(p)})
               made == {p \in m.subdirs : Creatable(p)}
    <2>2. r' = [r EXCEPT !.requested = @ + n, !.dirs = @ \cup made]
      BY <2>1
    <2>3. \A p \in m.subdirs : Creatable(p) => p \in made
      OBVIOUS
    <2> HIDE DEF n, made
    <2>4. r'.dirs = r.dirs \cup made
      BY <2>1, <2>2 DEF IsReceiver
    <2> QED
      BY <2>3, <2>4
  <1>7. /\ m.files = {p \in Children(m.dir) \ blind : src[p].kind = "file"}
        /\ m.subdirs = {p \in Children(m.dir) \ blind : src[p].kind = "dir"}
    BY DEF PageOf
  <1> SUFFICES ASSUME NEW p \in Children(m.dir)
               PROVE  (src[p] # ABSENT => p \notin blind) /\ Settled(p)'
    BY DEF Handled
  <1>8. src[p] # ABSENT => p \notin blind
    BY DEF Whole
  <1>9. p \in Paths /\ src \in SourceTrees
    BY DEF Children, MInv, Observed
  <1>10. src[p].kind \in {"absent", "file", "dir"} /\ (src[p].kind = "absent" <=> src[p] = ABSENT)
    BY <1>3, <1>9, NodeKinds, RemoteTreeAssumption
  <1>11. CASE src[p].kind = "file"
    <2>1. p \in m.files
      BY <1>7, <1>8, <1>10, <1>11
    <2>2. Right(p)' \/ Asked(p)'
      BY <1>1, <1>2, <1>4, <2>1 DEF Asked
    <2> QED
      BY <1>8, <1>11, <2>2 DEF Settled
  <1>12. CASE src[p].kind = "dir"
    <2>1. p \in m.subdirs
      BY <1>7, <1>8, <1>10, <1>12
    <2>2. dest'[p].kind = "dir" /\ p \in r'.dirs
      BY <1>1, <1>2, <1>5, <1>6, <2>1
    <2> QED
      BY <1>8, <1>12, <2>2 DEF Settled
  <1>13. CASE src[p] = ABSENT
    <2>1. ASSUME DeleteTarget PROVE Gone(p)'
      <3>1. dest[p] \in Node /\ (dest[p].kind = "absent" <=> dest[p] = ABSENT)
        BY <1>3, <1>9, NodeKinds
      <3>2. CASE dest[p].kind \in {"absent", "part"}
        BY <1>4, <1>9, <1>13, <3>2 DEF Gone, Settles
      <3>3. CASE dest[p].kind \notin {"absent", "part"}
        <4>1. p \notin m.files /\ p \notin m.subdirs
          BY <1>7, <1>10, <1>13
        <4>2. p \in Orphans(m)
          BY <2>1, <3>1, <3>3, <4>1 DEF Orphans
        <4>3. dest'[p] = ABSENT
          BY <1>1, <1>2, <1>4, <4>2
        <4> QED
          BY <1>13, <4>3, NewDirIsDir DEF Gone
      <3> QED
        BY <3>2, <3>3
    <2> QED
      BY <1>8, <1>10, <1>13, <2>1 DEF Settled
  <1> QED
    BY <1>10, <1>11, <1>12, <1>13

LEMMA MirrorsRList == ASSUME IInv, IInv', MInv, RList PROVE MInv'
  <1>1. /\ r.pc = "loop" /\ wire[2] # <<>> /\ wire' = Take(wire, 2) /\ IsReceiver(r)
        /\ UNCHANGED <<src, blind, accepted, s, dc, acks>>
        /\ r.requested \in Nat
    BY CountsAre DEF RList, MInv, Counted
  <1>2. Count(back[2], "request") \in Nat /\ IsWire(back, 4)
    BY CountsAre
  <1>3. PICK m : m = Head(wire[2])
    OBVIOUS
  <1>4. \/ UNCHANGED closed /\ \E left, unset : m.t = "page" /\ Leaves(m, left, unset)
        \/ RFail /\ UNCHANGED <<dest, back>>
        \/ m.t = "listDone" /\ RSend({[t |-> "requestsDone"]}) /\ UNCHANGED <<dest, r, closed>>
    BY <1>3, ListCases
  <1>5. CASE UNCHANGED closed /\ \E left, unset : m.t = "page" /\ Leaves(m, left, unset)
    <2>1. PICK left, unset : /\ m.t = "page" /\ RPage(m, left, unset) /\ unset \subseteq MetadataOnly(m)
                             /\ \A q \in left : q \in Orphans(m) \/ Parent[q] \in left
      BY <1>5 DEF Leaves
    <2>2. m = PageOf(m.dir) /\ IsDir(src, m.dir) /\ Whole(m)
      BY <1>1, <1>3, <2>1, ListPage
    <2>3. IsTree(src) /\ IsTree(dest)
      BY DEF IInv, Trees
    <2>4. Settles
      BY <1>1, <2>1, <2>2, <2>3, PageKeeps
    <2>5. /\ \A j \in 1..4 : \A x \in Range(back'[j]) : x \in Range(back[j]) \/ StreamSlot(ReceiverStreamKind(x)) = j
          /\ \A j \in 1..4 : Range(back[j]) \subseteq Range(back'[j])
          /\ Says(back'[2], "requestsDone") => Says(back[2], "requestsDone")
          /\ Says(back'[4], "allDone") => Says(back[4], "allDone")
      BY <2>1, <2>2, PageAnswers
    <2> DEFINE n == Cardinality({p \in m.files : Asks(p)})
               made == {p \in m.subdirs : Creatable(p)}
    <2>6. n \in Nat /\ Count(back'[2], "request") <= Count(back[2], "request") + n
      BY <2>1, <2>2, PageAnswers
    <2>7. r' = [r EXCEPT !.requested = @ + n, !.dirs = @ \cup made]
      BY <2>1 DEF RPage
    <2> HIDE DEF n, made
    <2>8. /\ r'.pc = r.pc /\ r'.requested = r.requested + n /\ r'.completed = r.completed /\ r'.doneSeen = r.doneSeen
          /\ r'.dirs = r.dirs \cup made
      BY <1>1, <2>7 DEF IsReceiver
    <2>9. r.requested + Count(back'[2], "request") <= r'.requested + Count(back[2], "request")
      <3>1. Count(back'[2], "request") \in Nat
        BY PendingAfter
      <3> QED
        BY <1>1, <1>2, <2>6, <2>8, <3>1
    <2>10. ~closed' /\ Clean' => Handled(m.dir)'
      BY <1>1, <1>5, <2>1, <2>2, PageHandled
    <2>11. Says(back[4], "error") => Says(back'[4], "error")
      BY <2>5 DEF Says
    <2>12. r'.requested \in Nat /\ r.dirs \subseteq r'.dirs
      BY <1>1, <2>6, <2>8
    <2>13. Range(back[2]) \subseteq Range(back'[2])
      BY <2>5
    <2> QED
      BY <1>1, <1>3, <1>5, <2>1, <2>4, <2>5, <2>8, <2>9, <2>10, <2>11, <2>12, <2>13, ListTaken
  <1>6. CASE RFail /\ UNCHANGED <<dest, back>>
    <2>1. closed' /\ r' = [r EXCEPT !.pc = "abort", !.dirs = {}]
      BY <1>6 DEF RFail
    <2>2. r'.pc = "abort" /\ r'.requested = r.requested /\ r'.completed = r.completed /\ r'.doneSeen = r.doneSeen
      BY <1>1, <2>1 DEF IsReceiver
    <2>3. r.requested + Count(back'[2], "request") <= r'.requested + Count(back[2], "request")
      BY <1>1, <1>2, <1>6, <2>2
    <2> QED
      BY <1>1, <1>3, <1>6, <2>1, <2>2, <2>3, ListTaken
  <1>7. CASE m.t = "listDone" /\ RSend({[t |-> "requestsDone"]}) /\ UNCHANGED <<dest, r, closed>>
    <2> DEFINE a == [t |-> "requestsDone"]
               one == {a}
    <2>7. RSend(one) /\ a.t = "requestsDone" /\ one = {a}
      BY <1>7
    <2> HIDE DEF a, one
    <2>1. RSend(one) /\ a.t = "requestsDone" /\ StreamSlot(ReceiverStreamKind(a)) = 2 /\ IsFiniteSet(one) /\ one = {a}
      BY <2>7, Slots, FS_Singleton
    <2>2. /\ \A j \in 1..4 : j # 2 => back'[j] = back[j]
          /\ \A x \in Range(back'[2]) : x \in Range(back[2]) \/ x = a
          /\ Range(back[2]) \subseteq Range(back'[2])
      BY <2>1, AnswersOne
    <2>3. Count(back'[2], "request") <= Count(back[2], "request")
      <3>1. Count(back'[2], "request") <= Count(back[2], "request") + Cardinality({})
        <4>1. /\ \A x : x \in one <=> x \in one /\ StreamSlot(ReceiverStreamKind(x)) = 2
              /\ {} \in SUBSET one /\ \A x \in one : x.t = "request" => x \in {}
          BY <2>1
        <4> QED
          BY <1>2, <2>1, <4>1, Answers
      <3>2. Cardinality({}) = 0
        BY FS_EmptySet
      <3>3. Count(back'[2], "request") \in Nat
        BY PendingAfter
      <3> QED
        BY <1>2, <3>1, <3>2, <3>3
    <2>4. r.requested + Count(back'[2], "request") <= r'.requested + Count(back[2], "request")
      <3>1. Count(back'[2], "request") \in Nat
        BY PendingAfter
      <3> QED
        BY <1>1, <1>2, <1>7, <2>3, <3>1
    <2>5. \A j \in 1..4 : \A x \in Range(back'[j]) : x \in Range(back[j]) \/ StreamSlot(ReceiverStreamKind(x)) = j
      BY <2>1, <2>2
    <2>6. back'[4] = back[4] /\ Settles
      BY <1>1, <1>7, <2>2, SameSettles
    <2> QED
      BY <1>1, <1>3, <1>7, <2>2, <2>4, <2>5, <2>6, ListTaken
  <1> QED
    BY <1>4, <1>5, <1>6, <1>7

-----------------------------------------------------------------------------
(* The end of a session.                                                   *)

\* When every directory that could be observed is handled, all of the source
\* was observed.
LEMMA NothingBlind ==
    ASSUME IInv, MInv, \A d \in (Paths \cup {ROOT}) \ blind : IsDir(src, d) => Handled(d)
    PROVE  \A p \in Paths : IsDir(src, Parent[p]) => (src[p] # ABSENT => p \notin blind) /\ Settled(p)
  <1> DEFINE t == {p \in Paths : src[p] # ABSENT => p \notin blind}
  <1>1. IsTree(src) /\ ROOT \notin blind
    BY RemoteTreeAssumption DEF IInv, Trees, MInv, Observed
  <1>2. ASSUME NEW p \in Paths, IsDir(src, Parent[p]), Parent[p] \in t \cup {ROOT}
        PROVE  (src[p] # ABSENT => p \notin blind) /\ Settled(p)
    <2>1. Parent[p] \in Paths \cup {ROOT}
      BY RemoteTreeAssumption
    <2>2. Parent[p] \notin blind
      <3>1. CASE Parent[p] = ROOT
        BY <1>1, <3>1
      <3>2. CASE Parent[p] \in t /\ Parent[p] # ROOT
        <4>1. src[Parent[p]].kind = "dir"
          BY <1>2, <3>2 DEF IsDir
        <4> QED
          BY <3>2, <4>1, NewDirIsDir
      <3> QED
        BY <1>2, <3>1, <3>2
    <2>3. Handled(Parent[p])
      BY <1>2, <2>1, <2>2
    <2> QED
      BY <2>3 DEF Handled, Children
  <1>3. t = Paths
    <2>1. \A p \in Paths : Parent[p] \in t \cup {ROOT} => p \in t
      <3> SUFFICES ASSUME NEW p \in Paths, Parent[p] \in t \cup {ROOT}, src[p] # ABSENT PROVE p \notin blind
        OBVIOUS
      <3>1. IsDir(src, Parent[p])
        BY <1>1 DEF IsTree
      <3> QED
        BY <1>2, <3>1
    <2> QED
      BY <2>1, RemoteTreeAssumption
  <1>4. \A p \in Paths : Parent[p] \in t \cup {ROOT}
    BY <1>3, RemoteTreeAssumption
  <1> QED
    BY <1>2, <1>4

LEMMA DirData == ASSUME NEW n \in Node, n.kind = "dir" PROVE n.data = 0
  BY DEF Node, ABSENT

\* When nothing is asked for any more, restoring the directories' metadata
\* completes the mirror.
LEMMA AllMirrored ==
    ASSUME IInv, IInv', MInv, UNCHANGED <<src, blind>>, dest' = Finalized(r'.unrestored), \A p \in Paths : ~Asked(p),
           \A d \in (Paths \cup {ROOT}) \ blind : IsDir(src, d) => Handled(d)
    PROVE  Mirrored'
  <1>1. IsTree(src) /\ IsTree(dest) /\ IsTree(dest') /\ Trees
    BY DEF IInv, Trees
  <1>2. /\ Settles
        /\ \A p \in r.dirs \ r'.unrestored : dest'[p].meta = src[p].meta
        /\ \A p \in Paths : dest'[p].kind = dest[p].kind
    BY <1>1, FinalizedKeeps
  <1>3. \A p \in Paths : IsDir(src, Parent[p]) => Settled(p)
    BY NothingBlind
  <1>4. \A p \in Paths : src[p].kind \in {"absent", "file", "dir"} /\ (src[p].kind = "absent" <=> src[p] = ABSENT)
    BY <1>1, NodeKinds, RemoteTreeAssumption DEF MInv, Observed
  <1>5. ASSUME NEW p \in Paths, src[p] # ABSENT
        PROVE  /\ dest'[p].kind = src[p].kind /\ dest'[p].data = src[p].data
               /\ dest'[p].meta = src[p].meta \/ p \in r'.unrestored
    <2>1. Settled(p)
      BY <1>1, <1>3, <1>5 DEF IsTree
    <2>2. CASE src[p].kind = "file"
      <3>1. Right(p)
        BY <2>1, <2>2 DEF Settled
      <3>2. Right(p)'
        BY <1>2, <3>1 DEF Settles
      <3> QED
        BY <2>2, <3>2 DEF Right, Done
    <2>3. CASE src[p].kind = "dir"
      <3>1. dest[p].kind = "dir" /\ p \in r.dirs
        BY <2>1, <2>3 DEF Settled
      <3>2. src[p] \in Node /\ dest'[p] \in Node
        BY <1>1, NodeKinds
      <3>3. src[p].data = 0 /\ dest'[p].data = 0
        BY <1>2, <2>3, <3>1, <3>2, DirData
      <3> QED
        BY <1>2, <2>3, <3>1, <3>3
    <2> QED
      BY <1>4, <1>5, <2>2, <2>3
  <1>6. ASSUME DeleteTarget PROVE \A p \in Paths : src[p] = ABSENT => dest'[p].kind \in {"absent", "part"}
    <2> DEFINE t == {p \in Paths : src[p] = ABSENT => dest'[p].kind \in {"absent", "part"}}
    <2>1. ASSUME NEW p \in Paths, Parent[p] \in t \cup {ROOT}, src[p] = ABSENT
          PROVE  dest'[p].kind \in {"absent", "part"}
      <3>1. CASE IsDir(src, Parent[p])
        <4>1. Settled(p) /\ src[p].kind = "absent"
          BY <1>3, <1>4, <2>1, <3>1
        <4>2. Gone(p)
          BY <1>6, <4>1 DEF Settled
        <4>3. Gone(p)'
          BY <1>2, <4>2 DEF Settles
        <4> QED
          BY <4>3 DEF Gone
      <3>2. CASE ~IsDir(src, Parent[p])
        <4>1. Parent[p] \in Paths /\ Parent[p] # ROOT /\ Parent[p] \in t /\ src[Parent[p]].kind # "dir"
          BY <2>1, <3>2, RemoteTreeAssumption DEF IsDir
        <4>2. dest'[Parent[p]].kind # "dir"
          <5>1. CASE src[Parent[p]] = ABSENT
            BY <4>1, <5>1
          <5>2. CASE src[Parent[p]] # ABSENT
            BY <1>5, <4>1, <5>2
          <5> QED
            BY <5>1, <5>2
        <4>3. ~IsDir(dest', Parent[p])
          BY <4>1, <4>2 DEF IsDir
        <4>4. dest'[p] = ABSENT
          BY <1>1, <4>3 DEF IsTree
        <4> QED
          BY <4>4, NewDirIsDir
      <3> QED
        BY <3>1, <3>2
    <2>2. t = Paths
      <3>1. \A p \in Paths : Parent[p] \in t \cup {ROOT} => p \in t
        BY <2>1
      <3> QED
        BY <3>1, RemoteTreeAssumption
    <2> QED
      BY <2>2
  <1> QED
    BY <1>5, <1>6 DEF Mirrored

\* The sender's TransferDone comes after all pages and all requests, so once as
\* many files are completed as were asked for, nothing is on the way.
LEMMA NothingPending ==
    ASSUME IInv, MInv, Complete(r)
    PROVE  /\ s.doneSent /\ wire[2] = <<>> /\ \A d : ~Coming(d)
           /\ Pending = 0 /\ \A p : ~Asked(p)
  <1>1. s.doneSent /\ s.listed /\ wire[2] = <<>> /\ s.todo = <<>>
    BY DEF MInv, Listed, Complete
  <1>2. \A d : ~Coming(d)
    BY <1>1, EmptyIsSeq DEF Coming
  <1>3. /\ Pending = Count(back[2], "request") + Count(wire[3], "data") + Len(dc) + Len(acks) + Count(wire[1], "entryError")
        /\ Pending \in Nat
    BY PendingParts
  <1>4. /\ Count(back[2], "request") \in Nat /\ Count(wire[3], "data") \in Nat /\ Count(wire[1], "entryError") \in Nat
        /\ Len(dc) \in Nat /\ Len(acks) \in Nat /\ IsSeq(back[2]) /\ IsSeq(wire[3]) /\ IsSeq(dc)
    BY CountsAre
  <1> HIDE DEF Pending
  <1>5. Pending = 0
    BY <1>3 DEF MInv, Counted, Complete
  <1>6. Count(back[2], "request") = 0 /\ Count(wire[3], "data") = 0 /\ Len(dc) = 0
    <2>1. PICK a \in Nat, b \in Nat, c \in Nat, d \in Nat, e \in Nat :
                a = Count(back[2], "request") /\ b = Count(wire[3], "data") /\ c = Len(dc)
                /\ d = Len(acks) /\ e = Count(wire[1], "entryError")
      BY <1>4
    <2>2. a + b + c + d + e = 0
      BY <1>3, <1>5, <2>1
    <2>3. a = 0 /\ b = 0 /\ c = 0
      BY <2>2
    <2> QED
      BY <2>1, <2>3
  <1>7. ~Says(back[2], "request") /\ ~Says(wire[3], "data")
    BY <1>4, <1>6, CountIs
  <1>8. Range(dc) = {}
    <2>1. dc = <<>>
      BY <1>4, <1>6, EmptySeq
    <2> QED
      BY <2>1, EmptyIsSeq
  <1>9. \A p : ~Asked(p)
    BY <1>7, <1>8 DEF Asked, Says
  <1> QED
    BY <1>1, <1>2, <1>5, <1>9

\* The directories' metadata is restored, and the end is announced if the
\* session came to its end.
LEMMA MirrorsRShutdown == ASSUME IInv, IInv', MInv, RShutdown PROVE MInv'
  <1> DEFINE a == [t |-> "allDone"]
  <1>1. /\ r.pc \in {"shutdown", "abort"} /\ dc = <<>> /\ acks = <<>>
        /\ \E failed : /\ dest' = Finalized(failed)
                       /\ r' = [r EXCEPT !.pc = IF r.pc = "shutdown" THEN "done" ELSE "failed", !.unrestored = failed]
        /\ RSend(IF r.pc = "shutdown" THEN {a} ELSE {})
        /\ UNCHANGED <<src, blind, wire, accepted, closed, s, dc, acks>> /\ IsReceiver(r)
    BY CountsAre DEF RShutdown, Drained
  <1>2. a.t = "allDone" /\ StreamSlot(ReceiverStreamKind(a)) = 4 /\ 4 \in 1..4
    BY Slots
  <1> HIDE DEF a
  <1>3. /\ r'.pc = (IF r.pc = "shutdown" THEN "done" ELSE "failed")
        /\ r'.requested = r.requested /\ r'.completed = r.completed /\ r'.doneSeen = r.doneSeen /\ r'.dirs = r.dirs
        /\ dest' = Finalized(r'.unrestored)
    BY <1>1 DEF IsReceiver
  <1>4. ~Told /\ accepted # 0 /\ ~s.allDone /\ ~Says(back[4], "allDone") /\ s.pc # "done"
    BY <1>1 DEF MInv, Answered, Told
  <1>5. Settles
    BY <1>1, <1>3, FinalizedKeeps DEF IInv
  <1>6. CASE r.pc = "abort"
    <2>1. \A j \in 1..4 : back'[j] = back[j]
      <3> DEFINE none == {}
      <3>1. RSend(none) /\ IsFiniteSet(none) /\ none = {}
        BY <1>1, <1>6, FS_EmptySet
      <3> HIDE DEF none
      <3> SUFFICES ASSUME NEW j \in 1..4 PROVE back'[j] = back[j]
        OBVIOUS
      <3>2. \A m : m \in none <=> m \in none /\ StreamSlot(ReceiverStreamKind(m)) = j
        BY <3>1
      <3>3. IsWire(back, 4)
        BY CountsAre
      <3> QED
        BY <3>1, <3>2, <3>3, Answers
    <2>2. back'[2] = back[2] /\ back'[4] = back[4]
      BY <2>1
    <2>3. ~Told'
      BY <1>1, <1>4, <2>2 DEF Told
    <2>4. Placed'
      BY <1>1, <2>1 DEF MInv, Placed
    <2>5. Answered'
      BY <1>1, <1>3, <1>4, <1>6, <2>2, <2>3 DEF MInv, Answered
    <2>6. Counted'
      BY <1>1, <1>3, <2>2 DEF MInv, Counted, Pending
    <2>7. (Clean' => Clean) /\ \A p : Asked(p) => Asked(p)'
      BY <1>1, <2>2 DEF Clean, Asked
    <2> QED
      BY <1>1, <1>3, <1>4, <1>5, <2>2, <2>3, <2>4, <2>5, <2>6, <2>7, ReceiverQuiet
  <1>7. CASE r.pc = "shutdown"
    <2>1. RSend({a}) /\ r'.pc = "done"
      BY <1>1, <1>3, <1>7
    <2>2. /\ \A j \in 1..4 : j # 4 => back'[j] = back[j]
          /\ \A x \in Range(back'[4]) : x \in Range(back[4]) \/ x = a
          /\ \A t : Says(back[4], t) => Says(back'[4], t)
          /\ LastOf(back[4], "allDone") /\ ~Says(back[4], "allDone") => LastOf(back'[4], "allDone")
      BY <1>2, <2>1, AnswersOne
    <2>3. back'[2] = back[2]
      BY <1>2, <2>2
    <2>4. Complete(r)
      BY <1>7 DEF MInv, Answered
    <2>5. Observed' /\ Listed'
      BY <1>1, <1>3, <2>3 DEF MInv, Observed, Listed
    <2>6. Placed'
      BY <1>1, <1>2, <2>2, PlacedKept DEF MInv
    <2>7. Answered'
      <3>1. LastOf(back'[4], "allDone")
        BY <1>4, <2>2 DEF MInv, Answered
      <3>2. Complete(r')
        BY <1>3, <2>4 DEF Complete
      <3> QED
        BY <1>1, <1>4, <2>1, <3>1, <3>2 DEF Answered
    <2>8. Counted'
      BY <1>1, <1>3, <2>3 DEF MInv, Counted, Pending
    <2>9. Clean' => Clean
      BY <1>1, <2>2 DEF Clean
    <2>10. \A p : Asked(p) => Asked(p)'
      BY <1>1, <2>3 DEF Asked
    <2>11. \A d : Coming(d) => Coming(d)'
      BY <1>1 DEF Coming
    <2>12. Covering'
      <3>1. \A p \in Paths : Settled(p) => Settled(p)'
        BY <1>1, <1>3, <1>5, <2>10, SettledKept
      <3> QED
        BY <1>1, <2>9, <2>11, <3>1, CoveringKept DEF MInv
    <2>13. Finished'
      <3> SUFFICES ASSUME Told', Clean' PROVE Mirrored'
        BY DEF Finished
      <3>1. ~closed
        <4> SUFFICES ASSUME closed PROVE FALSE
          OBVIOUS
        <4>1. back'[4] = back[4]
          <5>1. IsFiniteSet({a})
            BY FS_Singleton
          <5>2. \A m : m \in {a} <=> m \in {a} /\ StreamSlot(ReceiverStreamKind(m)) = 4
            BY <1>2
          <5>3. IsWire(back, 4)
            BY CountsAre
          <5> QED
            BY <1>2, <2>1, <5>1, <5>2, <5>3, Answers
        <4> QED
          BY <1>1, <1>4, <4>1 DEF Told
      <3>2. (\A d : ~Coming(d)) /\ \A p : ~Asked(p)
        BY <2>4, NothingPending
      <3>3. \A d \in (Paths \cup {ROOT}) \ blind : IsDir(src, d) => Handled(d)
        BY <2>9, <3>1, <3>2 DEF MInv, Covering
      <3> QED
        BY <1>1, <1>3, <3>2, <3>3, AllMirrored
    <2> QED
      BY <2>5, <2>6, <2>7, <2>8, <2>12, <2>13 DEF MInv
  <1> QED
    BY <1>1, <1>6, <1>7

\* At the start of a session every directory is still to be listed.
LEMMA SessionMirrors == Session /\ Observed => MInv
  <1> SUFFICES ASSUME Session, Observed PROVE MInv
    OBVIOUS
  <1>1. /\ wire = <<<<>>, <<>>, <<>>>> /\ back = <<<<>>, <<>>, <<>>, <<>>>>
        /\ accepted = 0 /\ ~closed /\ s = SStart /\ r = RStart /\ dc = <<>> /\ acks = <<>>
    BY DEF Session
  <1>2. /\ \A i \in 1..3 : wire[i] = <<>>
        /\ \A i \in 1..4 : back[i] = <<>>
    <2>1. \A i \in 1..3 : wire[i] = <<>>
      BY <1>1
    <2>2. \A i \in 1..4 : back[i] = <<>>
      BY <1>1
    <2> QED
      BY <2>1, <2>2
  <1>3. IsSeq(<<>>) /\ Range(<<>>) = {} /\ \A t : ~Says(<<>>, t)
    BY EmptyIsSeq DEF Says
  <1>4. \A t : Count(<<>>, t) = 0 /\ LastOf(<<>>, t)
    BY <1>3, CountIs, LastOfNone
  <1>5. /\ s.todo = Walk /\ ~s.listed /\ ~s.doneSent /\ ~s.allDone /\ s.errors = {} /\ s.pc = "hello"
        /\ r.pc = "connect" /\ r.requested = 0 /\ r.completed = 0 /\ ~r.doneSeen /\ r.dirs = {}
    BY <1>1 DEF SStart, RStart
  <1>6. wire[1] = <<>> /\ wire[2] = <<>> /\ wire[3] = <<>> /\ back[2] = <<>> /\ back[4] = <<>>
    BY <1>2
  <1>7. Placed
    BY <1>2, <1>3 DEF Placed
  <1>8. Listed
    <2>1. IsSeq(Walk)
      BY ElementsOf, RemoteTreeAssumption
    <2> QED
      BY <1>3, <1>4, <1>5, <1>6, <2>1 DEF Listed
  <1>9. ~Told
    BY <1>3, <1>5, <1>6 DEF Told
  <1>10. Answered
    BY <1>4, <1>5, <1>6, <1>9 DEF Answered
  <1>11. Counted
    <2>1. Len(<<>>) = 0
      OBVIOUS
    <2>2. Pending = 0
      BY <1>1, <1>4, <1>6, <2>1 DEF Pending
    <2> HIDE DEF Pending
    <2> QED
      BY <1>5, <2>2 DEF Counted
  <1>12. \A d \in (Paths \cup {ROOT}) \ blind : IsDir(src, d) => Coming(d)
    <2>1. ROOT \in Range(Walk)
      <3>1. IsSeq(Walk) /\ Len(Walk) > 0 /\ Walk[1] = ROOT
        BY ElementsOf, EmptySeq, LenProperties, RemoteTreeAssumption
      <3>2. Len(Walk) \in Nat
        BY <3>1 DEF IsSeq
      <3>3. 1 \in 1..Len(Walk)
        BY <3>1, <3>2
      <3> QED
        BY <3>1, <3>3, ElementAt
    <2>2. \A d \in Paths : src[d].kind = "dir" => d \in Range(Walk)
      BY RemoteTreeAssumption DEF Observed
    <2> QED
      BY <1>5, <2>1, <2>2 DEF Coming, IsDir
  <1>13. Covering
    BY <1>12 DEF Covering
  <1>14. Finished
    BY <1>9 DEF Finished
  <1> QED
    BY <1>7, <1>8, <1>10, <1>11, <1>13, <1>14 DEF MInv

LEMMA MirrorsNextSession == ASSUME IInv, MInv, NextSession PROVE MInv'
  <1>1. Session' /\ Observed'
    BY DEF NextSession, Session, MInv, Observed
  <1>2. (Session /\ Observed => MInv)'
    BY SessionMirrors, PTL
  <1> QED
    BY <1>1, <1>2

LEMMA InitMirrors == Init => MInv
  BY SessionMirrors DEF Init, Observed

LEMMA MirrorsStutters == ASSUME IInv, IInv', MInv, UNCHANGED vars PROVE MInv'
  BY DEF vars, MInv, Observed, Placed, Listed, Answered, Counted, Covering, Finished, Told, Clean, Pending, Coming, Asked,
         Handled, Settled, Right, Gone, Done, InSource, Mirrored

LEMMA NextKeepsMirror == IInv /\ IInv' /\ MInv /\ [Next]_vars => MInv'
  <1> SUFFICES ASSUME IInv, IInv', MInv, [Next]_vars PROVE MInv'
    OBVIOUS
  <1>1. CASE Sender
    BY <1>1, MirrorsSHello, MirrorsSAnswer, MirrorsSClosed, MirrorsAdvertise, MirrorsSReceive, MirrorsSaveCheckpoint,
       MirrorsSFinish DEF Sender
  <1>2. CASE Receiver
    BY <1>2, MirrorsAccept, MirrorsRHello, MirrorsRClosed, MirrorsRList, MirrorsRData, MirrorsRControl, MirrorsROutcome,
       MirrorsRLost, MirrorsRShutdown DEF Receiver
  <1>3. CASE DiskCommit
    BY <1>3, MirrorsDiskCommit
  <1>4. CASE ListingFails
    BY <1>4, MirrorsListingFails
  <1>5. CASE Lose \/ Crash
    BY <1>5, MirrorsLoseOrCrash
  <1>6. CASE NextSession
    BY <1>6, MirrorsNextSession
  <1>7. CASE UNCHANGED vars
    BY <1>7, MirrorsStutters
  <1> QED
    BY <1>1, <1>2, <1>3, <1>4, <1>5, <1>6, <1>7 DEF Next

-----------------------------------------------------------------------------
(* The theorems.                                                           *)

\* What happens to the destination in a step, and for whom.
LEMMA DestinationSteps ==
    ASSUME IInv, [Next]_vars
    PROVE  UNCHANGED dest \/ (DestStep /\ Permitted)
  <1>1. CASE RList
    <2>1. r.pc = "loop" /\ wire[2] # <<>> /\ Permitted
      BY <1>1 DEF RList, IInv, Admitted
    <2>2. \/ UNCHANGED dest
          \/ \E left, unset : Head(wire[2]).t = "page" /\ Leaves(Head(wire[2]), left, unset)
      BY <1>1, ListCases
    <2> QED
      BY <2>1, <2>2, ListPageEffect
  <1>2. CASE RData
    <2>1. Permitted
      BY <1>2 DEF RData, IInv, Admitted
    <2> QED
      BY <1>2, <2>1, DataEffect
  <1>3. CASE DiskCommit
    <2> DEFINE p == Head(dc)
    <2>1. dc # <<>> /\ Permitted /\ Trees
      BY <1>3 DEF DiskCommit, IInv, Admitted
    <2>2. InSource(p)
      <3>1. IsSeq(dc) /\ \A q \in Range(dc) : InSource(q)
        BY DEF IInv, Shape, Outcomes
      <3> QED
        BY <2>1, <3>1, TailIsSeq
    <2>3. UNCHANGED dest \/ (dest[p].kind # "dir" /\ Placeable(p) /\ dest' = Published(p))
      BY <1>3 DEF DiskCommit
    <2> HIDE DEF p
    <2> QED
      BY <2>1, <2>2, <2>3, CommitEffect
  <1>4. CASE RShutdown
    <2>1. Permitted /\ Trees /\ \E failed : dest' = Finalized(failed)
      BY <1>4 DEF RShutdown, IInv, Admitted
    <2> QED
      BY <2>1, FinalizedEffect
  <1>5. CASE Sender
    <2>1. SHello \/ SAnswer \/ SClosed \/ Advertise \/ SReceive \/ SaveCheckpoint \/ SFinish
      BY <1>5 DEF Sender
    <2> QED
      BY <2>1 DEF SHello, SAnswer, SClosed, Advertise, SReceive, SaveCheckpoint, SFinish
  <1>6. CASE Accept \/ RHello \/ RClosed \/ RControl \/ ROutcome \/ RLost
    BY <1>6 DEF Accept, RHello, RClosed, RControl, ROutcome, RLost
  <1>7. CASE ListingFails \/ Lose \/ Crash \/ NextSession
    BY <1>7 DEF ListingFails, Lose, Crash, NextSession
  <1>8. CASE UNCHANGED vars
    BY <1>8 DEF vars
  <1> QED
    BY <1>1, <1>2, <1>3, <1>4, <1>5, <1>6, <1>7, <1>8 DEF Next, Receiver

\* Both ends hold trees, what the two say to each other is true of them, and a
\* list that misses something says so first.
THEOREM TreeInvariant == Spec => []IInv
  <1>1. Init => IInv
    BY InitInvariant
  <1>2. IInv /\ [Next]_vars => IInv'
    BY NextKeepsInvariant
  <1> QED
    BY <1>1, <1>2, PTL DEF Spec

\* record_success_and_checkpoint writes a path to remote_checkpoint.json only
\* when its file is at the destination, and nothing that happens later takes it
\* away: not a page, not another commit, not a crash or the next session.
THEOREM CheckpointIsPublishedAlways == Spec => []CheckpointIsPublished
  <1>1. IInv => CheckpointIsPublished
    BY DEF IInv, Outcomes, Done, CheckpointIsPublished
  <1> QED
    BY <1>1, TreeInvariant, PTL

\* handle_directory_lifecycle deletes nothing the source has, whatever the
\* traversal missed; and nothing changes for a peer that the negotiation or the
\* token check refused.
THEOREM OnlyPermittedChangesAlways == Spec => OnlyPermittedChanges
  <1> DEFINE Deletes == \A p \in Paths : dest[p] # ABSENT /\ dest'[p] = ABSENT =>
                            /\ IF dest[p].kind = "dir" THEN src[p].kind # "dir" ELSE src[p].kind # "file"
                            /\ dest[p].kind = "part" => Parent[p] # ROOT /\ src[Parent[p]].kind # "dir"
             Changes == dest' # dest => /\ Negotiate(peer.local, peer.build).ok
                                        /\ peer.expected \in {"any", peer.token}
  <1>1. IInv /\ [Next]_vars => [Deletes]_vars /\ [Changes]_vars
    <2> SUFFICES ASSUME IInv, [Next]_vars PROVE Deletes /\ Changes
      OBVIOUS
    <2>1. CASE UNCHANGED dest
      BY <2>1
    <2>2. CASE DestStep /\ Permitted
      BY <2>2 DEF DestStep, LosesOnlyGone, Permitted, Compatible
    <2> QED
      BY <2>1, <2>2, DestinationSteps
  <1> HIDE DEF Deletes, Changes
  <1>2. Spec => [][Deletes]_vars /\ [][Changes]_vars
    BY <1>1, TreeInvariant, PTL DEF Spec
  <1> QED
    BY <1>2 DEF OnlyPermittedChanges, DeletesOnlyGone, RefusedChangesNothing, Deletes, Changes

\* While nothing has gone wrong, every directory that is done with has each of
\* its entries in place or asked for, every request is answered at most once, and
\* the messages that end a session come after all others.
THEOREM MirrorInvariant == Spec => []MInv
  <1>1. Init => MInv
    BY InitMirrors
  <1>2. IInv /\ IInv' /\ MInv /\ [Next]_vars => MInv'
    BY NextKeepsMirror
  <1> QED
    BY <1>1, <1>2, TreeInvariant, PTL DEF Spec

\* When process_requests_and_acks and the receiver's finish end without an error,
\* the destination is the source, whatever trees there were, whatever faults and
\* sessions came before, and however the streams overtook each other.
THEOREM MirrorWhenCleanAlways == Spec => []MirrorWhenClean
  <1>1. IInv /\ MInv => MirrorWhenClean
    <2> SUFFICES ASSUME IInv, MInv, s.pc = "done", r.pc = "done", s.errors = {} PROVE Mirrored
      BY DEF MirrorWhenClean, Mirrored
    <2>1. s.allDone /\ back[4] = <<>> /\ acks = <<>> /\ Complete(r) /\ Told
      BY DEF MInv, Answered, Told
    <2>2. wire[2] = <<>>
      BY <2>1, NothingPending
    <2>3. Clean
      BY <2>1, <2>2, EmptyIsSeq DEF Clean, Says
    <2> QED
      BY <2>1, <2>3 DEF MInv, Finished
  <1> QED
    BY <1>1, MirrorInvariant, TreeInvariant, PTL

=============================================================================
