--------------------------- MODULE VfsReplayProofs ---------------------------
(***************************************************************************)
(* From the served tree to the log and back: the paths that handlers log   *)
(* are paths, and a replay of them keeps its own tables in step.           *)
(***************************************************************************)
EXTENDS VfsTreeProofs

-----------------------------------------------------------------------------
(* get_path has a value in a tree without loops.                           *)

(* Pairs of node and path that follow from the pairs in R.                 *)
PathStep(N, R) ==
    {x \in (DOMAIN N) \X Seq(Nat) :
        \/ x = <<Root, << >>>>
        \/ x[1] # Root /\ \E s \in Seq(Nat) : <<N[x[1]].up, s>> \in R /\ x[2] = Append(s, N[x[1]].nm)}

(* The smallest relation that is closed under it.                          *)
LEMMA PathRelation == ASSUME NEW N PROVE \E R : R = PathStep(N, R)
<1> DEFINE A == (DOMAIN N) \X Seq(Nat)
           L == {T \in SUBSET A : PathStep(N, T) \subseteq T}
           I == {x \in A : \A T \in L : x \in T}
<1>1. \A S, T : S \subseteq T => PathStep(N, S) \subseteq PathStep(N, T)
  BY DEF PathStep
<1>2. \A S : PathStep(N, S) \in SUBSET A
  BY DEF PathStep
<1>3. PathStep(N, I) \subseteq I
  <2> SUFFICES ASSUME NEW x \in PathStep(N, I), NEW T \in L PROVE x \in T
    BY <1>2
  <2>1. I \subseteq T
    OBVIOUS
  <2>2. x \in PathStep(N, T)
    BY <1>1, <2>1
  <2> QED
    BY <2>2
<1>4. \A T \in L : I \subseteq T
  OBVIOUS
<1>5. \A T : T \in SUBSET A /\ PathStep(N, T) \subseteq T => T \in L
  OBVIOUS
<1> HIDE DEF I, L, A
<1>6. PathStep(N, PathStep(N, I)) \subseteq PathStep(N, I)
  BY <1>1, <1>3
<1>7. PathStep(N, I) \in L
  BY <1>2, <1>5, <1>6
<1>8. I \subseteq PathStep(N, I)
  BY <1>4, <1>7
<1> QED
  BY <1>3, <1>8

PathAt(f, N, j) ==
    IF j = Root THEN << >>
    ELSE IF N[j].up = j THEN <<N[j].nm>>
    ELSE Append(f[N[j].up], N[j].nm)

(* No node but the root is its own parent.                                 *)
LEMMA NotOwnParent ==
    ASSUME NEW N, NEW K, Rooted(N, K), NEW j \in DOMAIN N, j # Root
    PROVE  N[j].up # j
<1>1. {j} \in SUBSET (DOMAIN N \ {Root})
  OBVIOUS
<1> QED
  BY <1>1 DEF Rooted, Grounded

Single(R, j) == \E s \in Seq(Nat) : <<j, s>> \in R /\ \A t : <<j, t>> \in R => t = s

LEMMA OnePath ==
    ASSUME NEW N, NEW K, Rooted(N, K), \A j \in DOMAIN N : N[j].nm \in Nat,
           NEW R, R = PathStep(N, R)
    PROVE  \A j \in DOMAIN N : Single(R, j)
<1> DEFINE One(j) == Single(R, j)
           S == {j \in DOMAIN N \ {Root} : ~One(j)}
<1>1. \A j, t : <<j, t>> \in R <=>
         /\ j \in DOMAIN N /\ t \in Seq(Nat)
         /\ \/ j = Root /\ t = << >>
            \/ j # Root /\ \E s \in Seq(Nat) : <<N[j].up, s>> \in R /\ t = Append(s, N[j].nm)
  <2> SUFFICES ASSUME NEW j, NEW t
               PROVE  <<j, t>> \in PathStep(N, R) <=>
                        /\ j \in DOMAIN N /\ t \in Seq(Nat)
                        /\ \/ j = Root /\ t = << >>
                           \/ j # Root /\ \E s \in Seq(Nat) : <<N[j].up, s>> \in R /\ t = Append(s, N[j].nm)
    OBVIOUS
  <2> DEFINE x == <<j, t>>
  <2>1. x[1] = j /\ x[2] = t
    OBVIOUS
  <2>2. x \in (DOMAIN N) \X Seq(Nat) <=> j \in DOMAIN N /\ t \in Seq(Nat)
    OBVIOUS
  <2>3. x = <<Root, << >>>> <=> j = Root /\ t = << >>
    OBVIOUS
  <2> HIDE DEF x
  <2>4. x \in PathStep(N, R) <=>
          /\ x \in (DOMAIN N) \X Seq(Nat)
          /\ \/ x = <<Root, << >>>>
             \/ x[1] # Root /\ \E s \in Seq(Nat) : <<N[x[1]].up, s>> \in R /\ x[2] = Append(s, N[x[1]].nm)
    BY Zenon DEF PathStep
  <2>5. x \in PathStep(N, R) <=>
                        /\ j \in DOMAIN N /\ t \in Seq(Nat)
                        /\ \/ j = Root /\ t = << >>
                           \/ j # Root /\ \E s \in Seq(Nat) : <<N[j].up, s>> \in R /\ t = Append(s, N[j].nm)
    BY <2>1, <2>2, <2>3, <2>4, Zenon
  <2> QED
    BY <2>5 DEF x
<1> USE DEF Single
<1>2. One(Root)
  <2>1. << >> \in Seq(Nat) /\ Root \in DOMAIN N
    BY DEF Rooted
  <2>2. <<Root, << >>>> \in R /\ \A t : <<Root, t>> \in R => t = << >>
    BY <1>1, <2>1
  <2> QED
    BY <2>1, <2>2
<1>3. ASSUME NEW j \in DOMAIN N, j # Root, One(N[j].up) PROVE One(j)
  <2>1. PICK s \in Seq(Nat) : <<N[j].up, s>> \in R /\ \A t : <<N[j].up, t>> \in R => t = s
    BY <1>3
  <2>2. Append(s, N[j].nm) \in Seq(Nat)
    OBVIOUS
  <2>3. <<j, Append(s, N[j].nm)>> \in R
    BY <1>1, <1>3, <2>1, <2>2
  <2>4. \A t : <<j, t>> \in R => t = Append(s, N[j].nm)
    BY <1>1, <1>3, <2>1
  <2> QED
    BY <2>2, <2>3, <2>4
<1> HIDE DEF One
<1>4. S = {}
  <2> SUFFICES ASSUME S # {} PROVE FALSE
    OBVIOUS
  <2>1. S \in SUBSET (DOMAIN N \ {Root})
    OBVIOUS
  <2>2. PICK i \in S : N[i].up \notin S
    BY <2>1 DEF Rooted, Grounded
  <2>3. One(N[i].up)
    BY <1>2, <2>2 DEF Rooted
  <2> QED
    BY <1>3, <2>3
<1> QED
  BY <1>2, <1>4 DEF One

LEMMA PathsExist ==
    ASSUME NEW N, NEW K, Rooted(N, K), \A j \in DOMAIN N : N[j].nm \in Nat
    PROVE  \E f : f = [j \in DOMAIN N |-> PathAt(f, N, j)]
<1>1. PICK R : R = PathStep(N, R)
  BY PathRelation
<1>2. \A j \in DOMAIN N : Single(R, j)
  BY <1>1, OnePath
<1> DEFINE c(j) == CHOOSE s \in Seq(Nat) : <<j, s>> \in R
           f == [j \in DOMAIN N |-> c(j)]
<1>3. \A j \in DOMAIN N : <<j, f[j]>> \in R /\ \A t : <<j, t>> \in R => t = f[j]
  <2> SUFFICES ASSUME NEW j \in DOMAIN N PROVE <<j, f[j]>> \in R /\ \A t : <<j, t>> \in R => t = f[j]
    OBVIOUS
  <2>1. PICK s \in Seq(Nat) : <<j, s>> \in R /\ \A t : <<j, t>> \in R => t = s
    BY <1>2 DEF Single
  <2>2. f[j] = CHOOSE r \in Seq(Nat) : <<j, r>> \in R
    OBVIOUS
  <2> HIDE DEF f
  <2>3. <<j, f[j]>> \in R
    BY <2>1, <2>2, Zenon
  <2> QED
    BY <2>1, <2>3
<1>4. \A j \in DOMAIN N : f[j] = c(j)
  OBVIOUS
<1> HIDE DEF c
<1>5. f = [j \in DOMAIN N |-> c(j)]
  OBVIOUS
<1> HIDE DEF f
<1>6. ASSUME NEW j \in DOMAIN N PROVE f[j] = PathAt(f, N, j)
  <2>1. <<j, f[j]>> \in PathStep(N, R)
    BY <1>1, <1>3
  <2>2. CASE j = Root
    BY <2>1, <2>2 DEF PathStep, PathAt
  <2>3. CASE j # Root
    <3>1. PICK s \in Seq(Nat) : <<N[j].up, s>> \in R /\ f[j] = Append(s, N[j].nm)
      BY <2>1, <2>3 DEF PathStep
    <3>2. N[j].up \in DOMAIN N /\ N[j].up # j
      BY <2>3, NotOwnParent DEF Rooted
    <3>3. s = f[N[j].up]
      BY <1>3, <3>1, <3>2
    <3> QED
      BY <2>3, <3>1, <3>2, <3>3 DEF PathAt
  <2> QED
    BY <2>2, <2>3
<1>7. f = [j \in DOMAIN N |-> PathAt(f, N, j)]
  BY <1>4, <1>5, <1>6, Zenon
<1> QED
  BY <1>7

(* The path of a node: names, and at least one unless it is the root.      *)
LEMMA PathOfNode ==
    ASSUME NEW U, NEW v, TablesOK(v, U), RootedVfs(v), NEW i \in DOMAIN v.node
    PROVE  GetPath(v, i) \in Seq(Nat \ {0}) /\ (i # Root => GetPath(v, i) # << >>)
<1> DEFINE N == v.node
           h == CHOOSE h : h = [j \in DOMAIN N |-> IF j = Root THEN << >>
                                                    ELSE IF N[j].up = j THEN <<N[j].nm>>
                                                    ELSE Append(h[N[j].up], N[j].nm)]
<1>1. Rooted(N, v.kids) /\ \A j \in DOMAIN N : N[j].nm \in Nat
  BY DEF RootedVfs, TablesOK, Together, Typed, NodeRecord
<1>2. \E f : f = [j \in DOMAIN N |-> PathAt(f, N, j)]
  BY <1>1, PathsExist
<1>3. h = [j \in DOMAIN N |-> PathAt(h, N, j)]
  BY <1>2, Zenon DEF PathAt
<1>4. GetPath(v, i) = h[i]
  BY Zenon DEF GetPath
<1> HIDE DEF h, N
<1> DEFINE Good(j) == h[j] \in Seq(Nat \ {0}) /\ (j # Root => h[j] # << >>)
           S == {j \in DOMAIN N \ {Root} : ~Good(j)}
<1>5. \A j \in DOMAIN N : h[j] = PathAt(h, N, j)
  BY <1>3, Zenon
<1>6. Good(Root)
  <2>1. h[Root] = << >>
    BY <1>1, <1>5 DEF Rooted, PathAt
  <2> QED
    BY <2>1
<1>7. ASSUME NEW j \in DOMAIN N, j # Root, Good(N[j].up) PROVE Good(j)
  <2>1. N[j].up # j /\ N[j].nm \in Nat \ {0}
    BY <1>1, <1>7, NotOwnParent DEF Rooted
  <2>2. h[j] = Append(h[N[j].up], N[j].nm)
    BY <1>5, <1>7, <2>1 DEF PathAt
  <2> QED
    BY <1>7, <2>1, <2>2
<1> HIDE DEF Good
<1>8. S = {}
  <2> SUFFICES ASSUME S # {} PROVE FALSE
    OBVIOUS
  <2>1. S \in SUBSET (DOMAIN N \ {Root})
    OBVIOUS
  <2>2. PICK j \in S : N[j].up \notin S
    BY <1>1, <2>1 DEF Rooted, Grounded
  <2>3. Good(N[j].up)
    BY <1>1, <1>6, <2>2 DEF Rooted
  <2> QED
    BY <1>7, <2>3
<1>9. Good(i)
  BY <1>6, <1>8 DEF N
<1> QED
  BY <1>4, <1>9 DEF Good

-----------------------------------------------------------------------------
(* No call takes a node out of the table or makes a file of a directory.   *)

KeepsNodes(v, w) == \A i \in DOMAIN v.node : i \in DOMAIN w.node /\ w.node[i].dir = v.node[i].dir

LEMMA KeepsNodesTrans ==
    ASSUME NEW v, NEW w, NEW x, KeepsNodes(v, w), KeepsNodes(w, x) PROVE KeepsNodes(v, x)
  BY DEF KeepsNodes

LEMMA PopulateKeepsNodes ==
    ASSUME NEW U, GitObjects(U), NEW v, TablesOK(v, U), NEW d, CanPopulate(v, d)
    PROVE  KeepsNodes(v, Populate(v, d))
<1> DEFINE w == Populate(v, d)
<1>1. DOMAIN v.node \subseteq DOMAIN w.node /\ \A i \in DOMAIN v.node : w.node[i] = v.node[i]
  BY PopulateOK
<1> HIDE DEF w
<1>2. KeepsNodes(v, w)
  BY <1>1 DEF KeepsNodes
<1> QED
  BY <1>2 DEF w

(* A mark of deletion, set or cleared.                                     *)
LEMMA MarkKeepsNodes ==
    ASSUME NEW U, NEW w, TablesOK(w, U), NEW i \in DOMAIN w.node, NEW b \in BOOLEAN, NEW x,
           x.node = [w.node EXCEPT ![i] = [w.node[i] EXCEPT !.gone = b]]
    PROVE  KeepsNodes(w, x)
<1>1. w.node \in [DOMAIN w.node -> NodeRecord(U)]
  BY DEF TablesOK, Together, Typed
<1> DEFINE r == [w.node[i] EXCEPT !.gone = b]
<1>2. r.dir = w.node[i].dir
  BY <1>1 DEF NodeRecord
<1> HIDE DEF r
<1>3. x.node = [w.node EXCEPT ![i] = r]
  BY DEF r
<1> QED
  BY <1>2, <1>3 DEF KeepsNodes

LEMMA PutKeepsNodes ==
    ASSUME NEW U, NEW w, TablesOK(w, U), NEW r, NEW x, x.node = Put(w.node, w.next, r)
    PROVE  KeepsNodes(w, x)
<1>1. w.next \notin DOMAIN w.node
  BY DEF TablesOK, Together, Typed
<1> QED
  BY <1>1 DEF KeepsNodes, Put

LEMMA InKeepsNodes ==
    ASSUME NEW U, NEW w, TablesOK(w, U), NEW d, NEW n
    PROVE  /\ KeepsNodes(w, CreateFileIn(w, d, n).v)
           /\ KeepsNodes(w, MkdirIn(w, d, n).v)
           /\ KeepsNodes(w, RemoveIn(w, d, n).v)
<1>1. PICK i : i = Child(w, d, n)
  OBVIOUS
<1>2. w \in [node : {w.node}, map : {w.map}, kids : {w.kids}, next : {w.next}]
  BY DEF TablesOK
<1>3. KeepsNodes(w, MkdirIn(w, d, n).v)
  <2>1. MkdirIn(w, d, n).v.node = Put(w.node, w.next, Node(d, n, NoOid, TRUE))
    BY DEF MkdirIn, Found
  <2> QED
    BY <2>1, PutKeepsNodes
<1>4. CASE i = 0
  <2>1. CreateFileIn(w, d, n).v.node = Put(w.node, w.next, Node(d, n, NoOid, FALSE))
    BY <1>1, <1>4 DEF CreateFileIn, Found
  <2>2. RemoveIn(w, d, n).v = w
    BY <1>1, <1>4 DEF RemoveIn, Found
  <2>3. KeepsNodes(w, w)
    BY DEF KeepsNodes
  <2> QED
    BY <1>3, <2>1, <2>2, <2>3, PutKeepsNodes
<1>5. CASE i # 0
  <2>1. i \in DOMAIN w.node
    BY <1>1, <1>5, ChildMapped
  <2>2. CreateFileIn(w, d, n).v.node = [w.node EXCEPT ![i] = [w.node[i] EXCEPT !.gone = FALSE]]
    BY <1>1, <1>2, <1>5 DEF CreateFileIn, Found
  <2>3. RemoveIn(w, d, n).v.node = [w.node EXCEPT ![i] = [w.node[i] EXCEPT !.gone = TRUE]]
    BY <1>1, <1>2, <1>5 DEF RemoveIn, Found
  <2>4. TRUE \in BOOLEAN /\ FALSE \in BOOLEAN
    OBVIOUS
  <2> QED
    BY <1>3, <2>1, <2>2, <2>3, <2>4, MarkKeepsNodes
<1> QED
  BY <1>4, <1>5

LEMMA RenameKeepsNodes ==
    ASSUME NEW U, NEW w, TablesOK(w, U), NEW d \in Nat, NEW n \in Nat,
           NEW e \in DOMAIN w.kids, NEW m \in Nat
    PROVE  KeepsNodes(w, RenameIn(w, d, n, e, m).v)
<1>1. PICK i : i = Child(w, d, n)
  OBVIOUS
<1>2. CASE i = 0
  <2>1. RenameIn(w, d, n, e, m).v = w
    BY <1>1, <1>2 DEF RenameIn, Found
  <2> QED
    BY <2>1 DEF KeepsNodes
<1>3. CASE i # 0
  <2>1. PICK x : x = RemoveIn(w, e, m).v
    OBVIOUS
  <2>2. TablesOK(x, U) /\ KeepsNodes(w, x)
    <3>1. e \in Nat
      BY DirIsInode
    <3> QED
      BY <2>1, <3>1, RemoveOK, InKeepsNodes
  <2>3. RenameIn(w, d, n, e, m).v.node = Relabel(Reparent(x.node, i, e), i, m)
    <3>1. RenameIn(w, d, n, e, m).v = Move(x, i, d, n, e, m)
      BY <1>1, <1>3, <2>1 DEF RenameIn, Found
    <3>2. RenameIn(w, d, n, e, m).v = Moved(x, i, d, n, e, m)
      BY <2>2, <3>1, MoveShape
    <3> QED
      BY <3>2 DEF Moved
  <2>4. x.node \in [DOMAIN x.node -> NodeRecord(U)]
    BY <2>2 DEF TablesOK, Together, Typed
  <2>5. i \in DOMAIN x.node
    BY <1>1, <1>3, <2>2, ChildMapped DEF KeepsNodes
  <2> DEFINE r1 == [x.node[i] EXCEPT !.up = e]
             N1 == [x.node EXCEPT ![i] = r1]
             r2 == [N1[i] EXCEPT !.nm = m]
  <2>6. Relabel(Reparent(x.node, i, e), i, m) = [N1 EXCEPT ![i] = r2]
    BY DEF Relabel, Reparent
  <2>7. r1.dir = x.node[i].dir /\ N1[i] = r1 /\ r2 = [r1 EXCEPT !.nm = m]
    BY <2>4, <2>5 DEF NodeRecord
  <2>8. r2.dir = x.node[i].dir
    BY <2>4, <2>5, <2>7 DEF NodeRecord
  <2> HIDE DEF r2
  <2>9. KeepsNodes(x, RenameIn(w, d, n, e, m).v)
    BY <2>3, <2>5, <2>6, <2>8 DEF KeepsNodes
  <2> QED
    BY <2>2, <2>9, KeepsNodesTrans
<1> QED
  BY <1>2, <1>3

LEMMA CallsKeepNodes ==
    ASSUME NEW U, GitObjects(U), NEW v, TablesOK(v, U), NEW d, CanPopulate(v, d), NEW n
    PROVE  /\ KeepsNodes(v, CreateFile(v, d, n).v)
           /\ KeepsNodes(v, Mkdir(v, d, n).v)
           /\ KeepsNodes(v, RemoveNode(v, d, n).v)
<1>1. PICK w : w = Populate(v, d)
  OBVIOUS
<1>2. TablesOK(w, U) /\ KeepsNodes(v, w)
  BY <1>1, PopulateOK, PopulateKeepsNodes
<1> QED
  BY <1>1, <1>2, InKeepsNodes, KeepsNodesTrans DEF CreateFile, Mkdir, RemoveNode

LEMMA RenameCallKeepsNodes ==
    ASSUME NEW U, GitObjects(U), NEW v, TablesOK(v, U), NEW d, CanPopulate(v, d),
           NEW e, CanPopulate(v, e), NEW n \in Nat, NEW m \in Nat
    PROVE  KeepsNodes(v, Rename(v, d, n, e, m).v)
<1>1. PICK w : w = Populate(v, d)
  OBVIOUS
<1>2. TablesOK(w, U) /\ KeepsNodes(v, w) /\ DOMAIN v.kids \subseteq DOMAIN w.kids
  BY <1>1, PopulateOK, PopulateKeepsNodes
<1>3. CanPopulate(w, e)
  BY <1>2 DEF CanPopulate, KeepsNodes
<1>4. PICK x : x = Populate(w, e)
  OBVIOUS
<1>5. KeepsNodes(w, x)
  BY <1>2, <1>3, <1>4, PopulateKeepsNodes
<1>6. TablesOK(x, U) /\ d \in DOMAIN x.kids /\ e \in DOMAIN x.kids
  BY <1>1, <1>4, PopulateBothOK
<1>7. d \in Nat
  BY <1>6, DirIsInode
<1>8. KeepsNodes(x, RenameIn(x, d, n, e, m).v)
  BY <1>6, <1>7, RenameKeepsNodes
<1>9. KeepsNodes(v, x)
  BY <1>2, <1>5, KeepsNodesTrans
<1>10. Rename(v, d, n, e, m).v = RenameIn(x, d, n, e, m).v
  BY <1>1, <1>4 DEF Rename
<1> QED
  BY <1>8, <1>9, <1>10, KeepsNodesTrans

-----------------------------------------------------------------------------
(* What handlers log.                                                      *)

(* An entry of one of the six kinds.                                       *)
Entry(e) == /\ e.op \in {"create", "mkdir", "write", "trunc", "remove", "rename"}
            /\ NamesPaths(e)

(* The node of a write or truncation whose data are being fetched is there *)
(* and is not the root.                                                    *)
JobOK(j) == /\ j.pc = "log" => Entry(j.e)
            /\ j.pc \in {"write", "trunc"} => j.i \in DOMAIN live.node /\ j.i # Root

PathInv(U) ==
    /\ TablesOK(live, U) /\ RootedVfs(live) /\ live.node[Root].dir
    /\ \E S : log \in Seq(S)
    /\ \A k \in DOMAIN log : Entry(log[k])
    /\ DOMAIN job = Handlers /\ \A h \in Handlers : JobOK(job[h])

LEMMA EntryNames ==
    ASSUME NEW U, NEW v, TablesOK(v, U), RootedVfs(v), NEW i \in DOMAIN v.node, NEW n \in Names
    PROVE  IsPath(Append(GetPath(v, i), n))
<1>1. n \in Nat \ {0}
  BY ConstantsAssumption
<1>2. GetPath(v, i) \in Seq(Nat \ {0})
  BY PathOfNode
<1> QED
  BY <1>1, <1>2 DEF IsPath

(* The steps that change the tree: the nodes stay.                         *)
LEMMA StepKeepsNodes ==
    ASSUME NEW U, GitObjects(U), TablesOK(live, U), [Next]_vars
    PROVE  KeepsNodes(live, live') \/ Reboot
<1>0. \A n \in Names : n \in Nat
  BY ConstantsAssumption
<1>1. ASSUME NEW d \in DOMAIN live.node, NfsLookup(d) PROVE KeepsNodes(live, live')
  BY <1>1, PopulateKeepsNodes DEF NfsLookup
<1>2. ASSUME NEW h \in Handlers, NEW d \in DOMAIN live.node, NEW n \in Names,
             NfsCreate(h, d, n) \/ NfsMkdir(h, d, n) \/ NfsRemove(h, d, n)
      PROVE  KeepsNodes(live, live')
  <2>1. CASE NfsCreate(h, d, n)
    <3>1. CanPopulate(live, d) /\ live' = CreateFile(live, d, n).v
      BY <2>1 DEF NfsCreate
    <3> QED
      BY <3>1, CallsKeepNodes
  <2>2. CASE NfsMkdir(h, d, n)
    <3>1. CanPopulate(live, d) /\ live' = Mkdir(live, d, n).v
      BY <2>2 DEF NfsMkdir
    <3> QED
      BY <3>1, CallsKeepNodes
  <2>3. CASE NfsRemove(h, d, n)
    <3>1. CanPopulate(live, d) /\ live' = RemoveNode(live, d, n).v
      BY <2>3 DEF NfsRemove
    <3> QED
      BY <3>1, CallsKeepNodes
  <2> QED
    BY <1>2, <2>1, <2>2, <2>3
<1>3. ASSUME NEW h \in Handlers, NEW d \in DOMAIN live.node, NEW e \in DOMAIN live.node,
             NEW n \in Names, NEW m \in Names, NfsRename(h, d, n, e, m)
      PROVE  KeepsNodes(live, live')
  <2>1. CanPopulate(live, d) /\ CanPopulate(live, e) /\ live' = Rename(live, d, n, e, m).v
    BY <1>3 DEF NfsRename
  <2> QED
    BY <1>0, <2>1, RenameCallKeepsNodes
<1>4. ASSUME NEW h \in Handlers, NEW i \in DOMAIN live.node, NEW off \in Offsets,
             (\E b \in Bytes : Fetch(h, "write", i, off, b)) \/ Fetch(h, "trunc", i, off, 0)
      PROVE  live' = live
  BY <1>4 DEF Fetch
<1>5. ASSUME NEW h \in Handlers, NfsWrite(h) \/ NfsSetattr(h) \/ LogMutation(h) PROVE live' = live
  BY <1>5 DEF NfsWrite, NfsSetattr, LogMutation
<1>6. ASSUME Commit PROVE live' = live
  BY <1>6 DEF Commit
<1>7. ASSUME UNCHANGED vars PROVE live' = live
  BY <1>7 DEF vars
<1>8. ASSUME live' = live PROVE KeepsNodes(live, live')
  BY <1>8 DEF KeepsNodes
<1> QED
  BY <1>1, <1>2, <1>3, <1>4, <1>5, <1>6, <1>7, <1>8 DEF Next

(* A handler goes on to log an entry.                                      *)
LEMMA LogNextOK ==
    ASSUME NEW U, PathInv(U), KeepsNodes(live, live'), NEW h \in Handlers,
           NEW e, Entry(e), LogNext(h, e)
    PROVE  DOMAIN job' = Handlers /\ \A g \in Handlers : JobOK(job[g])'
<1> DEFINE r == [pc |-> "log", e |-> e]
<1>1. job' = [job EXCEPT ![h] = r]
  BY DEF LogNext
<1>2. r.pc = "log" /\ r.e = e
  OBVIOUS
<1> HIDE DEF r
<1>3. DOMAIN job' = Handlers /\ job'[h] = r /\ \A g \in Handlers : g # h => job'[g] = job[g]
  BY <1>1 DEF PathInv
<1>4. ASSUME NEW g \in Handlers, g # h PROVE JobOK(job[g])'
  BY <1>3, <1>4 DEF PathInv, JobOK, KeepsNodes
<1>5. JobOK(job[h])'
  BY <1>2, <1>3 DEF JobOK
<1> QED
  BY <1>3, <1>4, <1>5

JobsOK == DOMAIN job = Handlers /\ \A g \in Handlers : JobOK(job[g])

LogOK == (\E S : log \in Seq(S)) /\ \A k \in DOMAIN log : Entry(log[k])

LEMMA SameJobs ==
    ASSUME NEW U, PathInv(U), KeepsNodes(live, live'), job' = job PROVE JobsOK'
  BY DEF PathInv, JobsOK, JobOK, KeepsNodes

LEMMA SameLog == ASSUME NEW U, PathInv(U), log' = log PROVE LogOK'
  BY DEF PathInv, LogOK

LEMMA StepPaths ==
    ASSUME NEW U, GitObjects(U), Careful = TRUE, PathInv(U), base' \in U, [Next]_vars
    PROVE  PathInv(U)'
<1>0. TablesOK(live, U) /\ RootedVfs(live) /\ live.node[Root].dir /\ Root \in DOMAIN live.node
  BY DEF PathInv, RootedVfs, Rooted
<1>1. TablesOK(live, U)' /\ RootedVfs(live)'
  BY <1>0, StepOK, StepRooted
<1>2. KeepsNodes(live, live') \/ Reboot
  BY <1>0, StepKeepsNodes
<1> DEFINE Goal == live'.node[Root].dir /\ LogOK' /\ JobsOK'
<1>3. ASSUME Reboot PROVE Goal
  <2>1. live' = NewVfs(base') /\ log' = << >> /\ job' = [h \in Handlers |-> Idle]
    BY <1>3 DEF Reboot
  <2>2. live'.node[Root].dir
    BY <2>1 DEF NewVfs, Node
  <2>3. LogOK'
    <3>1. log' \in Seq({}) /\ DOMAIN log' = {}
      BY <2>1
    <3> QED
      BY <3>1 DEF LogOK
  <2>4. JobsOK'
    BY <2>1 DEF JobsOK, JobOK, Idle
  <2> QED
    BY <2>2, <2>3, <2>4
<1>4. ASSUME KeepsNodes(live, live') PROVE live'.node[Root].dir
  BY <1>0, <1>4 DEF KeepsNodes
<1>5. ASSUME KeepsNodes(live, live'), NEW h \in Handlers, NEW d \in DOMAIN live.node, NEW n \in Names,
             NfsCreate(h, d, n) \/ NfsMkdir(h, d, n) \/ NfsRemove(h, d, n)
      PROVE  LogOK' /\ JobsOK'
  <2>1. d \in DOMAIN live'.node
    BY <1>5 DEF KeepsNodes
  <2>2. PICK p : p = Append(GetPath(live', d), n)
    OBVIOUS
  <2>3. IsPath(p)
    BY <1>1, <2>1, <2>2, EntryNames DEF TablesOK, RootedVfs
  <2>4. log' = log /\ \E e : Entry(e) /\ LogNext(h, e)
    <3>1. CASE NfsCreate(h, d, n)
      <4>1. log' = log /\ LogNext(h, [op |-> "create", p |-> p])
        BY <2>2, <3>1 DEF NfsCreate
      <4> QED
        BY <2>3, <4>1 DEF Entry, NamesPaths
    <3>2. CASE NfsMkdir(h, d, n)
      <4>1. log' = log /\ LogNext(h, [op |-> "mkdir", p |-> p])
        BY <2>2, <3>2 DEF NfsMkdir
      <4> QED
        BY <2>3, <4>1 DEF Entry, NamesPaths
    <3>3. CASE NfsRemove(h, d, n)
      <4>1. log' = log /\ LogNext(h, [op |-> "remove", p |-> p])
        BY <2>2, <3>3 DEF NfsRemove
      <4> QED
        BY <2>3, <4>1 DEF Entry, NamesPaths
    <3> QED
      BY <1>5, <3>1, <3>2, <3>3
  <2> QED
    BY <1>5, <2>4, LogNextOK, SameLog DEF JobsOK
<1>6. ASSUME KeepsNodes(live, live'), NEW h \in Handlers, NEW d \in DOMAIN live.node,
             NEW e \in DOMAIN live.node, NEW n \in Names, NEW m \in Names, NfsRename(h, d, n, e, m)
      PROVE  LogOK' /\ JobsOK'
  <2>1. PICK p : p = Append(GetPath(live, d), n)
    OBVIOUS
  <2>2. PICK q : q = Append(GetPath(live, e), m)
    OBVIOUS
  <2>3. IsPath(p) /\ IsPath(q)
    BY <1>0, <2>1, <2>2, EntryNames
  <2>4. log' = log /\ LogNext(h, [op |-> "rename", p |-> p, q |-> q])
    BY <1>6, <2>1, <2>2 DEF NfsRename
  <2>5. Entry([op |-> "rename", p |-> p, q |-> q])
    BY <2>3 DEF Entry, NamesPaths
  <2> QED
    BY <1>6, <2>4, <2>5, LogNextOK, SameLog DEF JobsOK
<1>7. ASSUME KeepsNodes(live, live'), NEW h \in Handlers, NEW i \in DOMAIN live.node,
             NEW off \in Offsets,
             (\E b \in Bytes : Fetch(h, "write", i, off, b)) \/ Fetch(h, "trunc", i, off, 0)
      PROVE  LogOK' /\ JobsOK'
  <2>1. PICK kind, b : kind \in {"write", "trunc"} /\ Fetch(h, kind, i, off, b)
    BY <1>7
  <2>2. PICK init : job' = [job EXCEPT ![h] = [pc |-> kind, i |-> i, off |-> off, b |-> b, init |-> init]]
    BY <2>1 DEF Fetch
  <2>3. i # Root /\ log' = log /\ live' = live
    BY <1>0, <2>1 DEF Fetch, Writable
  <2> DEFINE r == [pc |-> kind, i |-> i, off |-> off, b |-> b, init |-> init]
  <2>4. r.pc = kind /\ r.i = i
    OBVIOUS
  <2> HIDE DEF r
  <2>5. DOMAIN job' = Handlers /\ job'[h] = r /\ \A g \in Handlers : g # h => job'[g] = job[g]
    BY <2>2 DEF PathInv, r
  <2>6. ASSUME NEW g \in Handlers, g # h PROVE JobOK(job[g])'
    BY <2>3, <2>5, <2>6 DEF PathInv, JobOK
  <2>7. JobOK(job[h])'
    BY <2>1, <2>3, <2>4, <2>5 DEF JobOK
  <2>8. JobsOK'
    BY <2>5, <2>6, <2>7 DEF JobsOK
  <2> QED
    BY <2>3, <2>8, SameLog
<1>8. ASSUME KeepsNodes(live, live'), NEW h \in Handlers, NfsWrite(h) \/ NfsSetattr(h)
      PROVE  LogOK' /\ JobsOK'
  <2>1. job[h].pc \in {"write", "trunc"} /\ log' = log
    BY <1>8 DEF NfsWrite, NfsSetattr
  <2>2. job[h].i \in DOMAIN live.node /\ job[h].i # Root
    BY <2>1 DEF PathInv, JobOK
  <2>3. PICK p : p = GetPath(live, job[h].i)
    OBVIOUS
  <2>4. IsPath(p)
    BY <1>0, <2>2, <2>3, PathOfNode DEF IsPath
  <2>5. \E e : Entry(e) /\ LogNext(h, e)
    <3>1. CASE NfsWrite(h)
      <4>1. LogNext(h, [op |-> "write", p |-> p, off |-> job[h].off, b |-> job[h].b])
        BY <2>3, <3>1 DEF NfsWrite
      <4>2. Entry([op |-> "write", p |-> p, off |-> job[h].off, b |-> job[h].b])
        BY <2>4 DEF Entry, NamesPaths
      <4> QED
        BY <4>1, <4>2
    <3>2. CASE NfsSetattr(h)
      <4>1. LogNext(h, [op |-> "trunc", p |-> p, off |-> job[h].off])
        BY <2>3, <3>2 DEF NfsSetattr
      <4>2. Entry([op |-> "trunc", p |-> p, off |-> job[h].off])
        BY <2>4 DEF Entry, NamesPaths
      <4> QED
        BY <4>1, <4>2
    <3> QED
      BY <1>8, <3>1, <3>2
  <2> QED
    BY <1>8, <2>1, <2>5, LogNextOK, SameLog DEF JobsOK
<1>9. ASSUME KeepsNodes(live, live'), NEW h \in Handlers, LogMutation(h) PROVE LogOK' /\ JobsOK'
  <2>1. Entry(job[h].e) /\ log' = Append(log, job[h].e) /\ live' = live
        /\ job' = [job EXCEPT ![h] = Idle]
    BY <1>9 DEF LogMutation, PathInv, JobOK
  <2>2. PICK e : e = job[h].e
    OBVIOUS
  <2>3. PICK S : log \in Seq(S)
    BY DEF PathInv
  <2>4. PICK T : T = S \cup {e}
    OBVIOUS
  <2>5. log \in Seq(T) /\ e \in T
    BY <2>3, <2>4
  <2>6. /\ log' \in Seq(T) /\ DOMAIN log' = DOMAIN log \cup {Len(log) + 1}
        /\ log'[Len(log) + 1] = e /\ \A k \in DOMAIN log : log'[k] = log[k]
    BY <2>1, <2>2, <2>5
  <2>7. \A k \in DOMAIN log' : Entry(log'[k])
    BY <2>1, <2>2, <2>6 DEF PathInv
  <2>8. LogOK'
    BY <2>6, <2>7 DEF LogOK
  <2>9. JobsOK'
    BY <2>1 DEF JobsOK, JobOK, PathInv, Idle
  <2> QED
    BY <2>8, <2>9
<1>10. ASSUME KeepsNodes(live, live'), Commit PROVE LogOK' /\ JobsOK'
  <2>1. log' = << >> /\ job' = job
    BY <1>10 DEF Commit
  <2>2. log' \in Seq({}) /\ DOMAIN log' = {}
    BY <2>1
  <2> QED
    BY <1>10, <2>1, <2>2, SameJobs DEF LogOK
<1>11. ASSUME KeepsNodes(live, live'), NEW d \in DOMAIN live.node, NfsLookup(d)
       PROVE  LogOK' /\ JobsOK'
  BY <1>11, SameJobs, SameLog DEF NfsLookup
<1>12. ASSUME KeepsNodes(live, live'), UNCHANGED vars PROVE LogOK' /\ JobsOK'
  BY <1>12, SameJobs, SameLog DEF vars
<1>13. ASSUME KeepsNodes(live, live') PROVE (LogOK' /\ JobsOK') \/ Reboot
  BY <1>5, <1>6, <1>7, <1>8, <1>9, <1>10, <1>11, <1>12, <1>13 DEF Next
<1>14. Goal
  BY <1>2, <1>3, <1>4, <1>13
<1> QED
  BY <1>1, <1>14 DEF PathInv, LogOK, JobsOK

LEMMA InitPaths == ASSUME NEW U, Init, base \in U PROVE PathInv(U)
<1>1. TablesOK(live, U) /\ RootedVfs(live)
  BY NewVfsOK, NewVfsRooted DEF Init
<1>2. live.node[Root].dir
  BY DEF Init, NewVfs, Node
<1>3. log \in Seq({}) /\ DOMAIN log = {}
  BY DEF Init
<1>4. DOMAIN job = Handlers /\ \A h \in Handlers : JobOK(job[h])
  BY DEF Init, JobOK, Idle
<1> QED
  BY <1>1, <1>2, <1>3, <1>4 DEF PathInv

(* For clients that move nothing below itself, every entry of the log and  *)
(* every one about to be appended names something below the root           *)
(* (LoggedPaths): get_path ends and gives names, also for a node that was  *)
(* moved or removed while its handler waited for a fetch.                  *)
THEOREM LoggedPathsArePaths ==
    ASSUME NEW CONSTANT U, GitObjects(U), Careful = TRUE
    PROVE  Spec /\ [](base \in U) => []LoggedPaths
<1>1. Init /\ base \in U => PathInv(U)
  BY InitPaths
<1>2. PathInv(U) /\ [Next]_vars /\ (base \in U)' => PathInv(U)'
  BY StepPaths
<1>3. PathInv(U) => LoggedPaths
  BY DEF PathInv, JobOK, Entry, LoggedPaths
<1> QED
  BY <1>1, <1>2, <1>3, PTL DEF Spec

-----------------------------------------------------------------------------
(* Walking down a path: lookup_path, and ensure_parent_dirs (mk).          *)

(* Induction up to n, over a set of numbers.                               *)
LEMMA UpTo ==
    ASSUME NEW n \in Nat, NEW G, 0 \in G, \A m \in Nat : m < n /\ m \in G => m + 1 \in G
    PROVE  \A m \in 0 .. n : m \in G
<1> DEFINE Bad == {m \in 0 .. n : m \notin G}
<1> SUFFICES ASSUME Bad # {} PROVE FALSE
  OBVIOUS
<1>1. Bad \in SUBSET Nat
  OBVIOUS
<1>2. PICK b \in Bad : \A y \in Bad : b <= y
  BY <1>1, LeastNatural
<1>3. b \in Nat /\ b # 0 /\ b <= n
  BY <1>2
<1>4. b - 1 \in Nat /\ b - 1 < n /\ b - 1 \in 0 .. n /\ ~(b <= b - 1) /\ (b - 1) + 1 = b
  BY <1>3
<1>5. b - 1 \in G
  BY <1>2, <1>4
<1> QED
  BY <1>2, <1>4, <1>5

Walk(mk, r, n) ==
    IF r.i = 0 THEN r
    ELSE IF mk THEN OrMkdir(Lookup(r.v, r.i, n), r.i, n) ELSE Lookup(r.v, r.i, n)

WalkAt(f, k, mk, v, p) == IF k = 0 THEN Found(v, Root) ELSE Walk(mk, f[k - 1], p[k])

Walks(f, n, mk, v, p) == f = [k \in 0 .. n |-> WalkAt(f, k, mk, v, p)]

LEMMA WalksExist ==
    ASSUME NEW n \in Nat, NEW mk, NEW v, NEW p
    PROVE  \E f : Walks(f, n, mk, v, p)
<1> DEFINE G == {m \in Nat : \E f : Walks(f, m, mk, v, p)}
<1>1. 0 \in G
  <2> DEFINE f == [k \in 0 .. 0 |-> Found(v, Root)]
  <2>1. \A k \in 0 .. 0 : WalkAt(f, k, mk, v, p) = Found(v, Root)
    BY DEF WalkAt
  <2>2. f = [k \in 0 .. 0 |-> WalkAt(f, k, mk, v, p)]
    BY <2>1, Zenon
  <2> QED
    BY <2>2 DEF Walks
<1>2. ASSUME NEW m \in Nat, m \in G PROVE m + 1 \in G
  <2>1. PICK f : Walks(f, m, mk, v, p)
    BY <1>2
  <2>2. \A k \in 0 .. m : f[k] = WalkAt(f, k, mk, v, p)
    BY <2>1, Zenon DEF Walks
  <2> DEFINE c(k) == IF k = m + 1 THEN WalkAt(f, m + 1, mk, v, p) ELSE f[k]
             h == [k \in 0 .. m + 1 |-> c(k)]
  <2>3. \A k \in 0 .. m : h[k] = f[k]
    OBVIOUS
  <2>4. h = [k \in 0 .. m + 1 |-> c(k)] /\ c(m + 1) = WalkAt(f, m + 1, mk, v, p)
    OBVIOUS
  <2>5. \A k \in 0 .. m : c(k) = f[k]
    OBVIOUS
  <2> HIDE DEF h, c
  <2>6. ASSUME NEW k \in 0 .. m + 1 PROVE c(k) = WalkAt(h, k, mk, v, p)
    <3>1. CASE k = m + 1
      <4>1. (m + 1) - 1 = m /\ h[m] = f[m] /\ m + 1 # 0
        BY <2>3
      <4> QED
        BY <2>4, <3>1, <4>1 DEF WalkAt
    <3>2. CASE k # m + 1
      <4>1. k \in 0 .. m /\ (k = 0 \/ k - 1 \in 0 .. m)
        BY <3>2
      <4>2. WalkAt(h, k, mk, v, p) = WalkAt(f, k, mk, v, p)
        BY <2>3, <4>1 DEF WalkAt
      <4> QED
        BY <2>2, <2>5, <4>1, <4>2
    <3> QED
      BY <3>1, <3>2
  <2>7. h = [k \in 0 .. m + 1 |-> WalkAt(h, k, mk, v, p)]
    BY <2>4, <2>6, Zenon
  <2> QED
    BY <2>7 DEF Walks
<1> HIDE DEF G
<1>3. n \in G
  BY <1>1, <1>2, UpTo
<1> QED
  BY <1>3 DEF G

LEMMA LookupPathWalks ==
    ASSUME NEW v, NEW p, Len(p) \in Nat
    PROVE  \E f : Walks(f, Len(p), FALSE, v, p) /\ LookupPath(v, p) = f[Len(p)]
<1> DEFINE to(f, k) == IF k = 0 THEN Found(v, Root)
                       ELSE IF f[k - 1].i = 0 THEN f[k - 1] ELSE Lookup(f[k - 1].v, f[k - 1].i, p[k])
           at == CHOOSE at : at = [k \in 0 .. Len(p) |-> to(at, k)]
<1>1. LookupPath(v, p) = at[Len(p)]
  BY Zenon DEF LookupPath
<1>2. \A f, k : WalkAt(f, k, FALSE, v, p) = to(f, k)
  BY DEF WalkAt, Walk
<1>3. PICK f : Walks(f, Len(p), FALSE, v, p)
  BY WalksExist
<1> HIDE DEF to
<1>4. f = [k \in 0 .. Len(p) |-> to(f, k)]
  BY <1>2, <1>3, Zenon DEF Walks
<1>5. at = [k \in 0 .. Len(p) |-> to(at, k)]
  BY <1>4, Zenon
<1> HIDE DEF at
<1>6. Walks(at, Len(p), FALSE, v, p)
  BY <1>2, <1>5, Zenon DEF Walks
<1> QED
  BY <1>1, <1>6

LEMMA EnsureParentDirsWalks ==
    ASSUME NEW v, NEW p, Len(p) - 1 \in Nat
    PROVE  \E f : Walks(f, Len(p) - 1, TRUE, v, p) /\ EnsureParentDirs(v, p) = f[Len(p) - 1]
<1> DEFINE to(f, k) == IF k = 0 THEN Found(v, Root)
                       ELSE IF f[k - 1].i = 0 THEN f[k - 1]
                            ELSE OrMkdir(Lookup(f[k - 1].v, f[k - 1].i, p[k]), f[k - 1].i, p[k])
           at == CHOOSE at : at = [k \in 0 .. Len(p) - 1 |-> to(at, k)]
<1>1. EnsureParentDirs(v, p) = at[Len(p) - 1]
  BY Zenon DEF EnsureParentDirs
<1>2. \A f, k : WalkAt(f, k, TRUE, v, p) = to(f, k)
  BY DEF WalkAt, Walk
<1>3. PICK f : Walks(f, Len(p) - 1, TRUE, v, p)
  BY WalksExist
<1> HIDE DEF to
<1>4. f = [k \in 0 .. Len(p) - 1 |-> to(f, k)]
  BY <1>2, <1>3, Zenon DEF Walks
<1>5. at = [k \in 0 .. Len(p) - 1 |-> to(at, k)]
  BY <1>4, Zenon
<1> HIDE DEF at
<1>6. Walks(at, Len(p) - 1, TRUE, v, p)
  BY <1>2, <1>5, Zenon DEF Walks
<1> QED
  BY <1>1, <1>6

(* What can be looked up in v is found in w as well.                       *)
KeepsHits(v, w) == \A d, n : Hit(v, d, n) => Hit(w, d, n) /\ Child(w, d, n) = Child(v, d, n)

Keeps(v, w) == KeepsNodes(v, w) /\ KeepsHits(v, w)

LEMMA KeepsTrans ==
    ASSUME NEW v, NEW w, NEW x, Keeps(v, w), Keeps(w, x) PROVE Keeps(v, x)
<1>1. KeepsNodes(v, x)
  BY KeepsNodesTrans DEF Keeps
<1>2. KeepsHits(v, x)
  BY DEF Keeps, KeepsHits
<1> QED
  BY <1>1, <1>2 DEF Keeps

LEMMA PopulateKeeps ==
    ASSUME NEW U, GitObjects(U), NEW v, TablesOK(v, U), NEW d, CanPopulate(v, d)
    PROVE  Keeps(v, Populate(v, d))
<1>1. PICK w : w = Populate(v, d)
  OBVIOUS
<1>2. /\ KeepsNodes(v, w) /\ DOMAIN v.node \subseteq DOMAIN w.node
      /\ \A i \in DOMAIN v.node : w.node[i] = v.node[i]
  BY <1>1, PopulateOK, PopulateKeepsNodes
<1>3. \A x \in DOMAIN v.map : x \in DOMAIN w.map /\ w.map[x] = v.map[x]
  <2>1. CASE d \in DOMAIN v.kids
    BY <1>1, <2>1 DEF Populate
  <2>2. CASE d \notin DOMAIN v.kids
    BY <1>1, <2>2 DEF Populate
  <2> QED
    BY <2>1, <2>2
<1>4. KeepsHits(v, w)
  BY <1>2, <1>3 DEF KeepsHits, Hit, Child, Alive
<1> QED
  BY <1>1, <1>2, <1>4 DEF Keeps

LEMMA NextIsNew ==
    ASSUME NEW U, NEW w, TablesOK(w, U), NEW d \in DOMAIN w.kids
    PROVE  w.next \notin DOMAIN w.node /\ w.next # 0 /\ d \in DOMAIN w.node
<1>1. d \in DOMAIN w.node /\ d \in Nat /\ w.next \in Nat /\ d < w.next /\ \A i \in DOMAIN w.node : i < w.next
  BY DEF TablesOK, Together, Typed
<1> QED
  BY <1>1

(* A new node under a name that found nothing.                             *)
LEMMA PutKeeps ==
    ASSUME NEW U, NEW w, TablesOK(w, U), NEW d \in DOMAIN w.kids, NEW n, ~Hit(w, d, n),
           NEW b \in BOOLEAN, NEW x, x.node = Put(w.node, w.next, Node(d, n, NoOid, b)),
           x.map = Put(w.map, <<d, n>>, w.next)
    PROVE  Keeps(w, x) /\ Hit(x, d, n) /\ Child(x, d, n) = w.next /\ w.next \in DOMAIN x.node
<1>1. w.next \notin DOMAIN w.node /\ w.next # 0
  BY NextIsNew
<1>2. KeepsNodes(w, x)
  BY PutKeepsNodes
<1>3. /\ DOMAIN x.node = DOMAIN w.node \cup {w.next} /\ x.node[w.next] = Node(d, n, NoOid, b)
      /\ \A i \in DOMAIN w.node : x.node[i] = w.node[i]
  BY <1>1 DEF Put
<1>4. /\ DOMAIN x.map = DOMAIN w.map \cup {<<d, n>>} /\ x.map[<<d, n>>] = w.next
      /\ \A y \in DOMAIN w.map : y # <<d, n>> => x.map[y] = w.map[y]
  BY DEF Put
<1>5. ~Node(d, n, NoOid, b).gone
  BY DEF Node
<1>6. Child(x, d, n) = w.next /\ Hit(x, d, n)
  BY <1>1, <1>3, <1>4, <1>5 DEF Child, Hit, Alive
<1>7. KeepsHits(w, x)
  <2> SUFFICES ASSUME NEW c, NEW m, Hit(w, c, m) PROVE Hit(x, c, m) /\ Child(x, c, m) = Child(w, c, m)
    BY DEF KeepsHits
  <2>1. <<c, m>> # <<d, n>>
    OBVIOUS
  <2>2. <<c, m>> \in DOMAIN w.map /\ w.map[<<c, m>>] # 0 /\ Alive(w, w.map[<<c, m>>])
        /\ Child(w, c, m) = w.map[<<c, m>>]
    BY DEF Hit, Child
  <2>3. <<c, m>> \in DOMAIN x.map /\ x.map[<<c, m>>] = w.map[<<c, m>>]
    BY <1>4, <2>1, <2>2
  <2>4. Alive(x, w.map[<<c, m>>])
    BY <1>3, <2>2 DEF Alive
  <2> QED
    BY <2>2, <2>3, <2>4 DEF Hit, Child
<1> QED
  BY <1>2, <1>3, <1>6, <1>7 DEF Keeps

(* What one step down from directory d to name n gives.                    *)
WentTo(v, d, n, r, U) ==
    /\ r = Found(r.v, r.i) /\ TablesOK(r.v, U) /\ Keeps(v, r.v)
    /\ r.i # 0 => Hit(r.v, d, n) /\ r.i = Child(r.v, d, n) /\ r.i \in DOMAIN r.v.node

LEMMA LookupWent ==
    ASSUME NEW U, GitObjects(U), NEW v, TablesOK(v, U), NEW d, NEW n, NEW r, r = Lookup(v, d, n)
    PROVE  /\ WentTo(v, d, n, r, U)
           /\ r.i = 0 => ~Hit(r.v, d, n) /\ (CanPopulate(r.v, d) => d \in DOMAIN r.v.kids)
<1>1. CASE Hit(v, d, n)
  <2>1. r = Found(v, Child(v, d, n)) /\ r.v = v /\ r.i = Child(v, d, n) /\ r.i # 0
    BY <1>1 DEF Lookup, Found, Hit
  <2>2. r.i \in DOMAIN v.node
    <3>1. Child(v, d, n) # 0
      BY <2>1
    <3>2. Child(v, d, n) \in DOMAIN v.node
      BY <3>1, ChildMapped
    <3> QED
      BY <2>1, <3>2
  <2>3. Keeps(v, v)
    BY DEF Keeps, KeepsNodes, KeepsHits
  <2> QED
    BY <1>1, <2>1, <2>2, <2>3 DEF WentTo
<1>2. CASE ~Hit(v, d, n)
  <2>1. PICK w : w = IF CanPopulate(v, d) THEN Populate(v, d) ELSE v
    OBVIOUS
  <2>2. TablesOK(w, U) /\ Keeps(v, w) /\ (CanPopulate(w, d) => d \in DOMAIN w.kids)
    <3>1. CASE CanPopulate(v, d)
      BY <2>1, <3>1, PopulateOK, PopulateKeeps
    <3>2. CASE ~CanPopulate(v, d)
      BY <2>1, <3>2 DEF Keeps, KeepsNodes, KeepsHits
    <3> QED
      BY <3>1, <3>2
  <2>3. r = Found(w, IF Hit(w, d, n) THEN Child(w, d, n) ELSE 0)
    BY <1>2, <2>1 DEF Lookup, LookupIn
  <2>4. r.v = w /\ r.i = (IF Hit(w, d, n) THEN Child(w, d, n) ELSE 0) /\ r = Found(r.v, r.i)
    BY <2>3 DEF Found
  <2>5. CASE Hit(w, d, n)
    <3>1. Child(w, d, n) # 0
      BY <2>5 DEF Hit
    <3>2. Child(w, d, n) \in DOMAIN w.node
      BY <2>2, <3>1, ChildMapped
    <3> QED
      BY <2>2, <2>4, <2>5, <3>1, <3>2 DEF WentTo
  <2>6. CASE ~Hit(w, d, n)
    BY <2>2, <2>4, <2>6 DEF WentTo
  <2> QED
    BY <2>5, <2>6
<1> QED
  BY <1>1, <1>2

LEMMA WalkWent ==
    ASSUME NEW U, GitObjects(U), NEW v, TablesOK(v, U), NEW d, d # 0, NEW n \in Nat,
           NEW mk \in BOOLEAN, NEW r, r = Walk(mk, Found(v, d), n)
    PROVE  WentTo(v, d, n, r, U)
<1>1. PICK l : l = Lookup(v, d, n)
  OBVIOUS
<1>2. /\ WentTo(v, d, n, l, U)
      /\ l.i = 0 => ~Hit(l.v, d, n) /\ (CanPopulate(l.v, d) => d \in DOMAIN l.v.kids)
  BY <1>1, LookupWent
<1>3. Found(v, d).v = v /\ Found(v, d).i = d
  BY DEF Found
<1>4. r = IF mk THEN OrMkdir(l, d, n) ELSE l
  BY <1>1, <1>3 DEF Walk
<1>5. CASE ~mk \/ l.i # 0
  BY <1>2, <1>4, <1>5 DEF OrMkdir
<1>6. CASE mk /\ l.i = 0 /\ ~CanPopulate(l.v, d)
  <2>1. r = Found(l.v, 0)
    BY <1>4, <1>6 DEF OrMkdir
  <2>2. r.v = l.v /\ r.i = 0 /\ r = Found(r.v, r.i)
    BY <2>1 DEF Found
  <2> QED
    BY <1>2, <2>2 DEF WentTo
<1>7. CASE mk /\ l.i = 0 /\ CanPopulate(l.v, d)
  <2>1. r = Mkdir(l.v, d, n)
    BY <1>4, <1>7 DEF OrMkdir
  <2>2. d \in DOMAIN l.v.kids /\ ~Hit(l.v, d, n) /\ TablesOK(l.v, U) /\ Keeps(v, l.v)
    BY <1>2, <1>7 DEF WentTo
  <2>3. r = MkdirIn(l.v, d, n)
    BY <2>1, <2>2 DEF Mkdir, Populate
  <2>4. r.i = l.v.next /\ r = Found(r.v, r.i) /\ r.v.map = Put(l.v.map, <<d, n>>, l.v.next)
        /\ r.v.node = Put(l.v.node, l.v.next, Node(d, n, NoOid, TRUE))
    <3> DEFINE x == [node |-> Put(l.v.node, l.v.next, Node(d, n, NoOid, TRUE)),
                     map  |-> Put(l.v.map, <<d, n>>, l.v.next),
                     kids |-> Put([l.v.kids EXCEPT ![d] = @ \cup {l.v.next}], l.v.next, {}),
                     next |-> l.v.next + 1]
    <3>0. r = Found(x, l.v.next)
      BY <2>3 DEF MkdirIn
    <3>1. /\ r = Found(x, l.v.next) /\ x.map = Put(l.v.map, <<d, n>>, l.v.next)
          /\ x.node = Put(l.v.node, l.v.next, Node(d, n, NoOid, TRUE))
      BY <3>0
    <3> HIDE DEF x
    <3>2. r.i = l.v.next /\ r.v = x /\ r = Found(r.v, r.i)
      BY <3>1 DEF Found
    <3> QED
      BY <3>1, <3>2
  <2>5. TablesOK(r.v, U)
    BY <2>2, <2>3, MkdirOK
  <2>6. Keeps(l.v, r.v) /\ Hit(r.v, d, n) /\ Child(r.v, d, n) = l.v.next /\ l.v.next \in DOMAIN r.v.node
    BY <2>2, <2>4, PutKeeps
  <2>7. Keeps(v, r.v)
    BY <2>2, <2>6, KeepsTrans
  <2> QED
    BY <2>4, <2>5, <2>6, <2>7 DEF WentTo
<1> QED
  BY <1>5, <1>6, <1>7

(* The first m names of p lead from the root along the nodes of f.         *)
Trail(w, p, f, m) ==
    f[0].i = Root /\ \A k \in 1 .. m : Hit(w, f[k - 1].i, p[k]) /\ f[k].i = Child(w, f[k - 1].i, p[k])

LEMMA TrailKept ==
    ASSUME NEW w, NEW x, Keeps(w, x), NEW p, NEW f, NEW m, Trail(w, p, f, m) PROVE Trail(x, p, f, m)
  BY DEF Trail, Keeps, KeepsHits

LEMMA TrailNodes ==
    ASSUME NEW w, NEW p, NEW f, NEW m \in Nat, Trail(w, p, f, m), NEW k \in 0 .. m
    PROVE  f[k].i # 0
<1>1. CASE k = 0
  BY <1>1 DEF Trail, Root
<1>2. CASE k # 0
  <2>1. k \in 1 .. m
    BY <1>2
  <2> QED
    BY <2>1 DEF Trail, Hit
<1> QED
  BY <1>1, <1>2

LEMMA TrailOn ==
    ASSUME NEW w, NEW p, NEW f, NEW m \in Nat, Trail(w, p, f, m), Hit(w, f[m].i, p[m + 1]),
           f[m + 1].i = Child(w, f[m].i, p[m + 1])
    PROVE  Trail(w, p, f, m + 1)
<1> SUFFICES ASSUME NEW k \in 1 .. m + 1
             PROVE  Hit(w, f[k - 1].i, p[k]) /\ f[k].i = Child(w, f[k - 1].i, p[k])
  BY DEF Trail
<1>1. CASE k = m + 1
  <2>1. (m + 1) - 1 = m
    OBVIOUS
  <2> QED
    BY <1>1, <2>1
<1>2. CASE k # m + 1
  <2>1. k \in 1 .. m
    BY <1>2
  <2> QED
    BY <2>1 DEF Trail
<1> QED
  BY <1>1, <1>2

(* A walk over m names of p in tables v ended with r.                      *)
Arrived(v, p, r, m, f, U) ==
    /\ r = Found(r.v, r.i) /\ TablesOK(r.v, U) /\ Keeps(v, r.v)
    /\ r.i # 0 => r.i \in DOMAIN r.v.node /\ r.i = f[m].i /\ Trail(r.v, p, f, m)

LEMMA WalkArrives ==
    ASSUME NEW U, GitObjects(U), NEW v, TablesOK(v, U), Root \in DOMAIN v.node, NEW n \in Nat,
           NEW p, \A k \in 1 .. n : p[k] \in Nat, NEW mk \in BOOLEAN, NEW f, Walks(f, n, mk, v, p)
    PROVE  \A m \in 0 .. n : Arrived(v, p, f[m], m, f, U)
<1>1. \A k \in 0 .. n : f[k] = WalkAt(f, k, mk, v, p)
  BY Zenon DEF Walks
<1> DEFINE G == {m \in Nat : Arrived(v, p, f[m], m, f, U)}
<1>2. 0 \in G
  <2>1. f[0] = Found(v, Root)
    BY <1>1 DEF WalkAt
  <2>2. f[0].v = v /\ f[0].i = Root /\ f[0] = Found(f[0].v, f[0].i)
    BY <2>1 DEF Found
  <2>3. Keeps(v, v)
    BY DEF Keeps, KeepsNodes, KeepsHits
  <2>4. Trail(v, p, f, 0)
    BY <2>2 DEF Trail
  <2>5. Arrived(v, p, f[0], 0, f, U)
    BY <2>2, <2>3, <2>4 DEF Arrived
  <2> QED
    BY <2>5
<1>3. ASSUME NEW m \in Nat, m < n, m \in G PROVE m + 1 \in G
  <2>1. PICK r : r = f[m]
    OBVIOUS
  <2>2. Arrived(v, p, r, m, f, U)
    BY <1>3, <2>1
  <2>3. PICK t : t = f[m + 1]
    OBVIOUS
  <2>4. m + 1 \in 0 .. n /\ m + 1 \in 1 .. n /\ (m + 1) - 1 = m /\ m + 1 # 0
    BY <1>3
  <2>5. t = Walk(mk, r, p[m + 1])
    BY <1>1, <2>1, <2>3, <2>4 DEF WalkAt
  <2>6. CASE r.i = 0
    <3>1. t = r
      BY <2>5, <2>6 DEF Walk
    <3>2. Arrived(v, p, t, m + 1, f, U)
      BY <2>2, <2>6, <3>1 DEF Arrived
    <3> QED
      BY <2>3, <3>2
  <2>7. CASE r.i # 0
    <3>1. PICK w : w = r.v
      OBVIOUS
    <3>2. PICK d : d = r.i
      OBVIOUS
    <3>3. r = Found(w, d) /\ TablesOK(w, U) /\ Keeps(v, w) /\ d # 0 /\ d = f[m].i /\ Trail(w, p, f, m)
      BY <2>2, <2>7, <3>1, <3>2 DEF Arrived
    <3>4. WentTo(w, d, p[m + 1], t, U)
      BY <2>4, <2>5, <3>3, WalkWent
    <3>5. t = Found(t.v, t.i) /\ TablesOK(t.v, U) /\ Keeps(w, t.v)
      BY <3>4 DEF WentTo
    <3>6. Keeps(v, t.v)
      BY <3>3, <3>5, KeepsTrans
    <3>7. Trail(t.v, p, f, m)
      BY <3>3, <3>5, TrailKept
    <3>8. ASSUME t.i # 0 PROVE t.i \in DOMAIN t.v.node /\ t.i = f[m + 1].i /\ Trail(t.v, p, f, m + 1)
      <4>1. Hit(t.v, d, p[m + 1]) /\ t.i = Child(t.v, d, p[m + 1]) /\ t.i \in DOMAIN t.v.node
        BY <3>4, <3>8 DEF WentTo
      <4>2. Trail(t.v, p, f, m + 1)
        BY <2>3, <3>3, <3>7, <4>1, TrailOn
      <4> QED
        BY <2>3, <4>1, <4>2
    <3>9. Arrived(v, p, t, m + 1, f, U)
      BY <3>5, <3>6, <3>8 DEF Arrived
    <3> QED
      BY <2>3, <3>9
  <2> QED
    BY <2>6, <2>7
<1> HIDE DEF G
<1>4. \A m \in 0 .. n : m \in G
  BY <1>2, <1>3, UpTo
<1> QED
  BY <1>4 DEF G

(* A walk along a trail finds its nodes and changes nothing.               *)
Again(g, w, f, n) == g[n] = Found(w, f[n].i)

LEMMA TrailWalked ==
    ASSUME NEW w, NEW p, NEW f, NEW m \in Nat, Trail(w, p, f, m), NEW n \in Nat, n <= m,
           NEW mk \in BOOLEAN, NEW g, Walks(g, n, mk, w, p)
    PROVE  Again(g, w, f, n)
<1>1. \A k \in 0 .. n : g[k] = WalkAt(g, k, mk, w, p)
  BY Zenon DEF Walks
<1> DEFINE G == {k \in Nat : g[k] = Found(w, f[k].i)}
<1>2. 0 \in G
  BY <1>1 DEF WalkAt, Trail
<1>3. ASSUME NEW k \in Nat, k < n, k \in G PROVE k + 1 \in G
  <2>1. k + 1 \in 0 .. n /\ k + 1 \in 1 .. m /\ (k + 1) - 1 = k /\ k + 1 # 0 /\ k \in 0 .. m
    BY <1>3
  <2>2. PICK d : d = f[k].i
    OBVIOUS
  <2>3. PICK a : a = p[k + 1]
    OBVIOUS
  <2>4. d # 0
    BY <2>1, <2>2, TrailNodes
  <2>5. Hit(w, d, a) /\ f[k + 1].i = Child(w, d, a)
    BY <2>1, <2>2, <2>3 DEF Trail
  <2>6. g[k] = Found(w, d) /\ g[k + 1] = Walk(mk, g[k], a)
    BY <1>1, <1>3, <2>1, <2>2, <2>3 DEF WalkAt
  <2>7. Found(w, d).v = w /\ Found(w, d).i = d
    BY DEF Found
  <2>8. PICK l : l = Lookup(w, d, a)
    OBVIOUS
  <2>9. l = Found(w, Child(w, d, a)) /\ l.i # 0
    BY <2>5, <2>8 DEF Lookup, Found, Hit
  <2>10. g[k + 1] = l
    BY <2>4, <2>6, <2>7, <2>8, <2>9 DEF Walk, OrMkdir
  <2> QED
    BY <2>5, <2>9, <2>10
<1> HIDE DEF G
<1>4. n \in G
  BY <1>2, <1>3, UpTo
<1> QED
  BY <1>4 DEF G, Again

LEMMA PathNames ==
    ASSUME NEW p, IsPath(p)
    PROVE  /\ Len(p) \in Nat /\ Len(p) - 1 \in Nat /\ Last(p) = p[Len(p)] /\ Last(p) \in Nat
           /\ Len(p) - 1 <= Len(p) /\ (Len(p) - 1) + 1 = Len(p)
           /\ \A k \in 1 .. Len(p) : p[k] \in Nat
<1>1. p \in Seq(Nat \ {0}) /\ p # << >>
  BY DEF IsPath
<1>2. Len(p) \in Nat /\ Len(p) # 0 /\ \A k \in 1 .. Len(p) : p[k] \in Nat
  BY <1>1
<1>3. Last(p) = p[Len(p)]
  BY DEF Last
<1> QED
  BY <1>2, <1>3

LEMMA LookupPathOK ==
    ASSUME NEW U, GitObjects(U), NEW v, TablesOK(v, U), Root \in DOMAIN v.node, NEW p, IsPath(p),
           NEW r, r = LookupPath(v, p)
    PROVE  \E f : Arrived(v, p, r, Len(p), f, U)
<1>1. PICK n \in Nat : n = Len(p)
  BY PathNames
<1>2. \A k \in 1 .. n : p[k] \in Nat
  BY <1>1, PathNames
<1>3. PICK f : Walks(f, n, FALSE, v, p) /\ r = f[n]
  BY <1>1, LookupPathWalks
<1>4. FALSE \in BOOLEAN
  OBVIOUS
<1>5. \A m \in 0 .. n : Arrived(v, p, f[m], m, f, U)
  BY <1>2, <1>3, <1>4, WalkArrives
<1>6. Arrived(v, p, r, n, f, U)
  BY <1>3, <1>5
<1> QED
  BY <1>1, <1>6

LEMMA EnsureParentDirsOK ==
    ASSUME NEW U, GitObjects(U), NEW v, TablesOK(v, U), Root \in DOMAIN v.node, NEW p, IsPath(p),
           NEW r, r = EnsureParentDirs(v, p)
    PROVE  \E f : Arrived(v, p, r, Len(p) - 1, f, U)
<1>1. PICK n \in Nat : n = Len(p) - 1
  BY PathNames
<1>2. \A k \in 1 .. n : p[k] \in Nat
  <2>1. Len(p) \in Nat /\ \A k \in 1 .. Len(p) : p[k] \in Nat
    BY PathNames
  <2>2. \A k \in 1 .. n : k \in 1 .. Len(p)
    BY <1>1, <2>1
  <2> QED
    BY <2>1, <2>2
<1>3. PICK f : Walks(f, n, TRUE, v, p) /\ r = f[n]
  BY <1>1, EnsureParentDirsWalks
<1>4. TRUE \in BOOLEAN
  OBVIOUS
<1>5. \A m \in 0 .. n : Arrived(v, p, f[m], m, f, U)
  BY <1>2, <1>3, <1>4, WalkArrives
<1>6. Arrived(v, p, r, n, f, U)
  BY <1>3, <1>5
<1> QED
  BY <1>1, <1>6

LEMMA FoundAgain ==
    ASSUME NEW w, NEW p, IsPath(p), NEW f, Trail(w, p, f, Len(p))
    PROVE  /\ LookupPath(w, p) = Found(w, f[Len(p)].i)
           /\ EnsureParentDirs(w, p) = Found(w, f[Len(p) - 1].i)
<1>1. PICK n \in Nat : n = Len(p)
  BY PathNames
<1>2. PICK m \in Nat : m = Len(p) - 1
  BY PathNames
<1>3. m <= n /\ n <= n /\ Trail(w, p, f, n) /\ TRUE \in BOOLEAN /\ FALSE \in BOOLEAN
  BY <1>1, <1>2
<1>4. PICK g : Walks(g, n, FALSE, w, p) /\ LookupPath(w, p) = g[n]
  BY <1>1, LookupPathWalks
<1>5. PICK h : Walks(h, m, TRUE, w, p) /\ EnsureParentDirs(w, p) = h[m]
  BY <1>2, EnsureParentDirsWalks
<1>6. Again(g, w, f, n)
  BY <1>3, <1>4, TrailWalked
<1>7. Again(h, w, f, m)
  BY <1>3, <1>5, TrailWalked
<1> QED
  BY <1>1, <1>2, <1>4, <1>5, <1>6, <1>7 DEF Again

-----------------------------------------------------------------------------
(* The entries of the log, replayed one by one.                            *)

LEMMA CreateInKeeps ==
    ASSUME NEW U, NEW w, TablesOK(w, U), NEW d \in DOMAIN w.kids, NEW n \in Nat,
           NEW c, c = CreateFileIn(w, d, n)
    PROVE  /\ c = Found(c.v, c.i) /\ Keeps(w, c.v) /\ c.i \in DOMAIN c.v.node
           /\ Hit(c.v, d, n) /\ c.i = Child(c.v, d, n)
<1>1. PICK i : i = Child(w, d, n)
  OBVIOUS
<1>2. CASE i = 0
  <2>1. ~Hit(w, d, n)
    BY <1>1, <1>2 DEF Hit
  <2> DEFINE x == [node |-> Put(w.node, w.next, Node(d, n, NoOid, FALSE)),
                   map  |-> Put(w.map, <<d, n>>, w.next),
                   kids |-> [w.kids EXCEPT ![d] = @ \cup {w.next}],
                   next |-> w.next + 1]
  <2>2. c = Found(x, w.next)
    BY <1>1, <1>2 DEF CreateFileIn
  <2>3. /\ x.map = Put(w.map, <<d, n>>, w.next)
        /\ x.node = Put(w.node, w.next, Node(d, n, NoOid, FALSE))
    OBVIOUS
  <2> HIDE DEF x
  <2>4. c.v = x /\ c.i = w.next /\ c = Found(c.v, c.i)
    BY <2>2 DEF Found
  <2>5. FALSE \in BOOLEAN
    OBVIOUS
  <2>6. Keeps(w, x) /\ Hit(x, d, n) /\ Child(x, d, n) = w.next /\ w.next \in DOMAIN x.node
    BY <2>1, <2>3, <2>5, PutKeeps
  <2> QED
    BY <2>4, <2>6
<1>3. CASE i # 0
  <2>1. i \in DOMAIN w.node /\ <<d, n>> \in DOMAIN w.map /\ i = w.map[<<d, n>>]
    BY <1>1, <1>3, ChildMapped
  <2> DEFINE N2 == [w.node EXCEPT ![i] = [w.node[i] EXCEPT !.gone = FALSE]]
             x == [node |-> N2, map |-> w.map, kids |-> w.kids, next |-> w.next]
  <2>2. [w EXCEPT !.node[i].gone = FALSE] = x
    BY SetTables
  <2>3. c = Found(x, i)
    BY <1>1, <1>3, <2>2 DEF CreateFileIn
  <2>4. w.node \in [DOMAIN w.node -> NodeRecord(U)]
    BY DEF TablesOK, Together, Typed
  <2>5. ~[w.node[i] EXCEPT !.gone = FALSE].gone
    BY <2>1, <2>4 DEF NodeRecord
  <2>6. DOMAIN N2 = DOMAIN w.node /\ ~N2[i].gone /\ \A j \in DOMAIN w.node : j # i => N2[j] = w.node[j]
    BY <2>1, <2>5
  <2>7. FALSE \in BOOLEAN /\ x.node = N2 /\ x.map = w.map
    OBVIOUS
  <2>8. KeepsNodes(w, x)
    BY <2>1, <2>7, MarkKeepsNodes
  <2> HIDE DEF N2, x
  <2>9. c.v = x /\ c.i = i /\ c = Found(c.v, c.i)
    BY <2>3 DEF Found
  <2>10. KeepsHits(w, x)
    BY <2>6, <2>7 DEF KeepsHits, Hit, Child, Alive
  <2>11. Hit(x, d, n) /\ Child(x, d, n) = i /\ i \in DOMAIN x.node
    BY <1>3, <2>1, <2>6, <2>7 DEF Hit, Child, Alive
  <2> QED
    BY <2>8, <2>9, <2>10, <2>11 DEF Keeps
<1> QED
  BY <1>2, <1>3

LEMMA CreateKeeps ==
    ASSUME NEW U, GitObjects(U), NEW v, TablesOK(v, U), NEW d, CanPopulate(v, d), NEW n \in Nat,
           NEW c, c = CreateFile(v, d, n)
    PROVE  /\ TablesOK(c.v, U) /\ Keeps(v, c.v) /\ c.i \in DOMAIN c.v.node
           /\ Hit(c.v, d, n) /\ c.i = Child(c.v, d, n)
<1>1. PICK w : w = Populate(v, d)
  OBVIOUS
<1>2. TablesOK(w, U) /\ Keeps(v, w) /\ d \in DOMAIN w.kids
  BY <1>1, PopulateOK, PopulateKeeps
<1>3. c = CreateFileIn(w, d, n)
  BY <1>1 DEF CreateFile
<1>4. Keeps(w, c.v) /\ c.i \in DOMAIN c.v.node /\ Hit(c.v, d, n) /\ c.i = Child(c.v, d, n)
  BY <1>2, <1>3, CreateInKeeps
<1>5. TablesOK(c.v, U)
  BY CallsOK
<1> QED
  BY <1>2, <1>4, <1>5, KeepsTrans

TreeOK(v, U) == TablesOK(v, U) /\ Root \in DOMAIN v.node

(* What is staged or deleted are nodes.                                    *)
StagedOK(s, v) == /\ s = [file |-> s.file, gone |-> s.gone, paths |-> s.paths]
                  /\ DOMAIN s.file \subseteq DOMAIN v.node /\ s.gone \subseteq DOMAIN v.node

(* Tables and staging area of a replay.                                    *)
ReplayOK(z, U) == /\ z = [v |-> z.v, s |-> z.s, ok |-> z.ok]
                  /\ TreeOK(z.v, U) /\ StagedOK(z.s, z.v)

LEMMA StagedKept ==
    ASSUME NEW s, NEW v, NEW w, StagedOK(s, v), KeepsNodes(v, w) PROVE StagedOK(s, w)
  BY DEF StagedOK, KeepsNodes

LEMMA TreeKept ==
    ASSUME NEW U, NEW v, NEW w, TreeOK(v, U), TablesOK(w, U), Keeps(v, w) PROVE TreeOK(w, U)
  BY DEF TreeOK, Keeps, KeepsNodes

LEMMA StagedChanges ==
    ASSUME NEW s, NEW v, StagedOK(s, v), NEW p, NEW i \in DOMAIN v.node, NEW c
    PROVE  /\ StagedOK(Record(s, p), v) /\ StagedOK(MarkDeleted(s, i), v)
           /\ StagedOK([s EXCEPT !.file = Put(@, i, c)], v)
<1>1. s \in [file : {s.file}, gone : {s.gone}, paths : {s.paths}]
  BY DEF StagedOK
<1>2. DOMAIN s.file \subseteq DOMAIN v.node /\ s.gone \subseteq DOMAIN v.node
  BY DEF StagedOK
<1>3. StagedOK(Record(s, p), v)
  <2> DEFINE q == s.paths \cup ({p} \ {<< >>})
  <2>1. Record(s, p) = [s EXCEPT !.paths = q]
    BY DEF Record
  <2> HIDE DEF q
  <2>2. [s EXCEPT !.paths = q] = [file |-> s.file, gone |-> s.gone, paths |-> q]
    BY <1>1
  <2> QED
    BY <1>2, <2>1, <2>2 DEF StagedOK
<1>4. StagedOK(MarkDeleted(s, i), v)
  BY <1>1, <1>2 DEF StagedOK, MarkDeleted
<1>5. StagedOK([s EXCEPT !.file = Put(@, i, c)], v)
  <2> DEFINE f == Put(s.file, i, c)
  <2>1. DOMAIN f = DOMAIN s.file \cup {i}
    BY DEF Put
  <2> HIDE DEF f
  <2>2. [s EXCEPT !.file = f] = [file |-> f, gone |-> s.gone, paths |-> s.paths]
    BY <1>1
  <2>3. StagedOK([s EXCEPT !.file = f], v)
    BY <1>2, <2>1, <2>2 DEF StagedOK
  <2> QED
    BY <2>3 DEF f
<1> QED
  BY <1>3, <1>4, <1>5

(* The state of a replay, from its parts.                                  *)
LEMMA ReplayFrom ==
    ASSUME NEW U, NEW w, TreeOK(w, U), NEW s, StagedOK(s, w), NEW b
    PROVE  ReplayOK([v |-> w, s |-> s, ok |-> b], U)
  BY DEF ReplayOK

SetBoth(z, w, s) == [z EXCEPT !.v = w, !.s = s]

LEMMA SetParts ==
    ASSUME NEW U, NEW z, ReplayOK(z, U), NEW w, NEW s
    PROVE  /\ [z EXCEPT !.v = w] = [v |-> w, s |-> z.s, ok |-> z.ok]
           /\ [z EXCEPT !.s = s] = [v |-> z.v, s |-> s, ok |-> z.ok]
<1>1. z \in [v : {z.v}, s : {z.s}, ok : {z.ok}]
  BY DEF ReplayOK
<1>2. /\ [z EXCEPT !.v = w] = [v |-> w, s |-> z.s, ok |-> z.ok]
      /\ [z EXCEPT !.s = s] = [v |-> z.v, s |-> s, ok |-> z.ok]
  BY <1>1
<1> QED
  BY <1>2

LEMMA SetBothParts ==
    ASSUME NEW U, NEW z, ReplayOK(z, U), NEW w, NEW s
    PROVE  SetBoth(z, w, s) = [v |-> w, s |-> s, ok |-> z.ok]
<1>1. z \in [v : {z.v}, s : {z.s}, ok : {z.ok}]
  BY DEF ReplayOK
<1> DEFINE T == [v : {w}, s : {s}, ok : {z.ok}]
<1>2. SetBoth(z, w, s) \in T
  BY <1>1 DEF SetBoth
<1>3. \A r \in T : r = [v |-> w, s |-> s, ok |-> z.ok]
  OBVIOUS
<1> HIDE DEF T
<1> QED
  BY <1>2, <1>3

LEMMA WithOK ==
    ASSUME NEW U, NEW z, ReplayOK(z, U), NEW w, TablesOK(w, U), Keeps(z.v, w)
    PROVE  ReplayOK(With(z, w), U) /\ With(z, w).v = w /\ With(z, w).s = z.s
<1>1. TreeOK(w, U)
  BY TreeKept DEF ReplayOK
<1>2. StagedOK(z.s, w)
  BY StagedKept DEF ReplayOK, Keeps
<1>3. With(z, w) = [v |-> w, s |-> z.s, ok |-> z.ok]
  BY SetParts DEF With
<1>4. PICK b : b = z.ok
  OBVIOUS
<1>5. ReplayOK([v |-> w, s |-> z.s, ok |-> b], U)
  BY <1>1, <1>2, ReplayFrom
<1>6. With(z, w).v = w /\ With(z, w).s = z.s
  BY <1>3
<1> QED
  BY <1>3, <1>4, <1>5, <1>6

LEMMA FailingOK ==
    ASSUME NEW U, NEW z, ReplayOK(z, U) PROVE ReplayOK(Failing(z), U) /\ ~Failing(z).ok
<1>1. z \in [v : {z.v}, s : {z.s}, ok : {z.ok}]
  BY DEF ReplayOK
<1>2. PICK b : b = FALSE
  OBVIOUS
<1>3. [z EXCEPT !.ok = b] = [v |-> z.v, s |-> z.s, ok |-> b]
  BY <1>1
<1>4. Failing(z) = [z EXCEPT !.ok = b]
  BY <1>2, Zenon DEF Failing
<1>5. Failing(z).ok = b
  BY <1>3, <1>4
<1>6. ReplayOK([v |-> z.v, s |-> z.s, ok |-> b], U)
  BY ReplayFrom DEF ReplayOK
<1> QED
  BY <1>2, <1>3, <1>4, <1>5, <1>6

LEMMA TrailExtended ==
    ASSUME NEW w, NEW p, NEW f, NEW m \in Nat, Trail(w, p, f, m), Hit(w, f[m].i, p[m + 1])
    PROVE  \E g : Trail(w, p, g, m + 1) /\ g[m + 1].i = Child(w, f[m].i, p[m + 1])
<1>1. PICK c : c = Child(w, f[m].i, p[m + 1])
  OBVIOUS
<1> DEFINE g == [k \in 0 .. m + 1 |-> IF k = m + 1 THEN [i |-> c] ELSE f[k]]
<1>2. g[m + 1].i = c /\ \A k \in 0 .. m : g[k] = f[k]
  OBVIOUS
<1> HIDE DEF g
<1>3. Trail(w, p, g, m)
  BY <1>2 DEF Trail
<1>4. g[m].i = f[m].i
  BY <1>2
<1>5. Trail(w, p, g, m + 1)
  BY <1>1, <1>2, <1>3, <1>4, TrailOn
<1> QED
  BY <1>1, <1>2, <1>5

LEMMA CreateAtOK ==
    ASSUME NEW U, GitObjects(U), NEW z, ReplayOK(z, U), NEW r, TablesOK(r.v, U), Keeps(z.v, r.v),
           NEW n \in Nat, NEW y, y = CreateAt(z, r, n)
    PROVE  ReplayOK(y, U) /\ (y.ok => r.i # 0 /\ Keeps(r.v, y.v) /\ Hit(y.v, r.i, n))
<1>1. CASE r.i = 0 \/ ~CanPopulate(r.v, r.i)
  <2>1. y = Failing(z)
    BY <1>1 DEF CreateAt
  <2> QED
    BY <2>1, FailingOK
<1>2. CASE r.i # 0 /\ CanPopulate(r.v, r.i)
  <2>1. PICK c : c = CreateFile(r.v, r.i, n)
    OBVIOUS
  <2>2. /\ TablesOK(c.v, U) /\ Keeps(r.v, c.v) /\ c.i \in DOMAIN c.v.node /\ Hit(c.v, r.i, n)
    BY <1>2, <2>1, CreateKeeps
  <2>3. PICK s : s = StageNew(z.s, c.i)
    OBVIOUS
  <2>4. y = [v |-> c.v, s |-> s, ok |-> TRUE]
    BY <1>2, <2>1, <2>3 DEF CreateAt
  <2>5. Keeps(z.v, c.v)
    BY <2>2, KeepsTrans
  <2>6. TreeOK(c.v, U)
    BY <2>2, <2>5, TreeKept DEF ReplayOK
  <2>7. StagedOK(z.s, c.v)
    BY <2>5, StagedKept DEF ReplayOK, Keeps
  <2>8. StagedOK(s, c.v)
    BY <2>2, <2>3, <2>7, StagedChanges DEF StageNew
  <2>9. y.v = c.v
    BY <2>4
  <2> QED
    BY <1>2, <2>2, <2>4, <2>6, <2>8, <2>9, ReplayFrom
<1> QED
  BY <1>1, <1>2

LEMMA ReplayCreateOK ==
    ASSUME NEW U, GitObjects(U), NEW z, ReplayOK(z, U), NEW p, IsPath(p), NEW y, y = ReplayCreate(z, p)
    PROVE  /\ ReplayOK(y, U)
           /\ y.ok => \E g : Trail(y.v, p, g, Len(p))
<1>1. PICK r : r = EnsureParentDirs(z.v, p)
  OBVIOUS
<1>2. PICK f : Arrived(z.v, p, r, Len(p) - 1, f, U)
  BY <1>1, EnsureParentDirsOK DEF ReplayOK, TreeOK
<1>3. PICK m \in Nat : m = Len(p) - 1
  BY PathNames
<1>4. m + 1 = Len(p) /\ Last(p) = p[m + 1] /\ Last(p) \in Nat
  BY <1>3, PathNames
<1>5. TablesOK(r.v, U) /\ Keeps(z.v, r.v)
  BY <1>2 DEF Arrived
<1>6. y = CreateAt(z, r, Last(p))
  BY <1>1 DEF ReplayCreate
<1>7. ReplayOK(y, U) /\ (y.ok => r.i # 0 /\ Keeps(r.v, y.v) /\ Hit(y.v, r.i, Last(p)))
  BY <1>4, <1>5, <1>6, CreateAtOK
<1>8. ASSUME y.ok PROVE \E g : Trail(y.v, p, g, Len(p))
  <2>1. r.i = f[m].i /\ Trail(r.v, p, f, m)
    BY <1>2, <1>3, <1>7, <1>8 DEF Arrived
  <2>2. PICK w : w = y.v
    OBVIOUS
  <2>3. Trail(w, p, f, m)
    BY <1>7, <1>8, <2>1, <2>2, TrailKept
  <2>4. Hit(w, f[m].i, p[m + 1])
    BY <1>4, <1>7, <1>8, <2>1, <2>2
  <2>5. \E g : Trail(w, p, g, m + 1)
    BY <2>3, <2>4, TrailExtended
  <2> QED
    BY <1>4, <2>2, <2>5
<1> QED
  BY <1>7, <1>8

(* A write finds the file that it looked up or made.                       *)
LEMMA OrCreateOK ==
    ASSUME NEW U, GitObjects(U), NEW z, ReplayOK(z, U), NEW p, IsPath(p),
           NEW y, y = OrCreate(z, LookupPath(z.v, p), p)
    PROVE  ReplayOK(y, U) /\ (y.ok => LookupPath(y.v, p).i \in DOMAIN y.v.node)
<1>1. PICK r : r = LookupPath(z.v, p)
  OBVIOUS
<1>2. PICK f : Arrived(z.v, p, r, Len(p), f, U)
  BY <1>1, LookupPathOK DEF ReplayOK, TreeOK
<1>3. TablesOK(r.v, U) /\ Keeps(z.v, r.v)
  BY <1>2 DEF Arrived
<1>4. PICK x : x = With(z, r.v)
  OBVIOUS
<1>5. ReplayOK(x, U) /\ x.v = r.v
  BY <1>3, <1>4, WithOK
<1>6. CASE r.i # 0
  <2>1. y = x
    BY <1>1, <1>4, <1>6 DEF OrCreate
  <2>2. Trail(r.v, p, f, Len(p)) /\ r.i = f[Len(p)].i /\ r.i \in DOMAIN r.v.node
    BY <1>2, <1>6 DEF Arrived
  <2>3. LookupPath(r.v, p) = Found(r.v, f[Len(p)].i)
    BY <2>2, FoundAgain
  <2>4. LookupPath(r.v, p).i = r.i
    BY <2>2, <2>3 DEF Found
  <2> QED
    BY <1>5, <2>1, <2>2, <2>4
<1>7. CASE r.i = 0
  <2>1. y = ReplayCreate(x, p)
    BY <1>1, <1>4, <1>7 DEF OrCreate
  <2>2. ReplayOK(y, U) /\ (y.ok => \E g : Trail(y.v, p, g, Len(p)))
    BY <1>5, <2>1, ReplayCreateOK
  <2>3. ASSUME y.ok PROVE LookupPath(y.v, p).i \in DOMAIN y.v.node
    <3>1. PICK w : w = y.v
      OBVIOUS
    <3>2. PICK g : Trail(w, p, g, Len(p))
      BY <2>2, <2>3, <3>1
    <3>3. PICK n \in Nat : n = Len(p)
      BY PathNames
    <3>4. LookupPath(w, p) = Found(w, g[n].i)
      BY <3>2, <3>3, FoundAgain
    <3>5. n \in 1 .. n
      BY <3>3, PathNames
    <3>6. Hit(w, g[n - 1].i, p[n]) /\ g[n].i = Child(w, g[n - 1].i, p[n])
      BY <3>2, <3>3, <3>5 DEF Trail
    <3>7. TablesOK(w, U)
      BY <2>2, <3>1 DEF ReplayOK, TreeOK
    <3>8. g[n].i \in DOMAIN w.node
      <4>1. PICK d, a : Hit(w, d, a) /\ g[n].i = Child(w, d, a)
        BY <3>6
      <4>2. Child(w, d, a) # 0
        BY <4>1 DEF Hit
      <4>3. Child(w, d, a) \in DOMAIN w.node
        BY <3>7, <4>2, ChildMapped
      <4> QED
        BY <4>1, <4>3
    <3> QED
      BY <3>1, <3>4, <3>8 DEF Found
  <2> QED
    BY <2>2, <2>3
<1> QED
  BY <1>6, <1>7

LEMMA ReplayWriteOK ==
    ASSUME NEW U, GitObjects(U), NEW z, ReplayOK(z, U), NEW p, IsPath(p), NEW off, NEW b, NEW up
    PROVE  ReplayOK(ReplayWrite(z, p, off, b, up), U)
<1>1. PICK y : y = OrCreate(z, LookupPath(z.v, p), p)
  OBVIOUS
<1>2. ReplayOK(y, U) /\ (y.ok => LookupPath(y.v, p).i \in DOMAIN y.v.node)
  BY <1>1, OrCreateOK
<1>3. PICK i : i = LookupPath(y.v, p).i
  OBVIOUS
<1>4. ReplayWrite(z, p, off, b, up) = WriteTo(y, i, off, b, up)
  BY <1>1, <1>3 DEF ReplayWrite, WritePath
<1>5. CASE ~y.ok
  BY <1>2, <1>4, <1>5 DEF WriteTo
<1>6. CASE y.ok
  <2>1. PICK s : s = WriteAt(y.s, i, off, b, BaseData(y.v, i, up))
    OBVIOUS
  <2>2. WriteTo(y, i, off, b, up) = [y EXCEPT !.s = s]
    BY <1>6, <2>1 DEF WriteTo
  <2>3. [y EXCEPT !.s = s] = [v |-> y.v, s |-> s, ok |-> y.ok]
    BY <1>2, SetParts
  <2>4. i \in DOMAIN y.v.node /\ StagedOK(y.s, y.v) /\ TreeOK(y.v, U)
    BY <1>2, <1>3, <1>6 DEF ReplayOK
  <2>5. StagedOK(s, y.v)
    <3>1. PICK c : s = [y.s EXCEPT !.file = Put(@, i, c)]
      BY <2>1 DEF WriteAt
    <3> QED
      BY <2>4, <3>1, StagedChanges
  <2>6. PICK ok : ok = y.ok
    OBVIOUS
  <2>7. ReplayOK([v |-> y.v, s |-> s, ok |-> ok], U)
    BY <2>4, <2>5, ReplayFrom
  <2> QED
    BY <1>4, <2>2, <2>3, <2>6, <2>7
<1> QED
  BY <1>5, <1>6

LEMMA ReplayTruncateOK ==
    ASSUME NEW U, GitObjects(U), NEW z, ReplayOK(z, U), NEW p, IsPath(p), NEW n, NEW up
    PROVE  ReplayOK(ReplayTruncate(z, p, n, up), U)
<1>1. PICK r : r = LookupPath(z.v, p)
  OBVIOUS
<1>2. PICK f : Arrived(z.v, p, r, Len(p), f, U)
  BY <1>1, LookupPathOK DEF ReplayOK, TreeOK
<1>3. TablesOK(r.v, U) /\ Keeps(z.v, r.v)
  BY <1>2 DEF Arrived
<1>4. ReplayTruncate(z, p, n, up) = TruncateTo(z, r, n, up)
  BY <1>1 DEF ReplayTruncate
<1>5. CASE r.i = 0
  BY <1>3, <1>4, <1>5, WithOK DEF TruncateTo
<1>6. CASE r.i # 0
  <2>1. PICK s : s = Truncate(z.s, r.i, n, BaseData(r.v, r.i, up))
    OBVIOUS
  <2>2. TruncateTo(z, r, n, up) = SetBoth(z, r.v, s)
    <3>1. PICK w : w = r.v
      OBVIOUS
    <3>2. [z EXCEPT !.v = w].s = z.s
      BY SetParts
    <3> QED
      BY <1>6, <2>1, <3>1, <3>2 DEF TruncateTo, SetBoth
  <2>3. SetBoth(z, r.v, s) = [v |-> r.v, s |-> s, ok |-> z.ok]
    BY SetBothParts, Zenon
  <2>4. StagedOK(z.s, r.v) /\ TreeOK(r.v, U)
    BY <1>3, TreeKept, StagedKept DEF ReplayOK, Keeps
  <2>5. StagedOK(s, r.v)
    <3>1. PICK c : s = [z.s EXCEPT !.file = Put(@, r.i, c)]
      BY <2>1 DEF Truncate
    <3>2. r.i \in DOMAIN r.v.node
      BY <1>2, <1>6 DEF Arrived
    <3> QED
      BY <2>4, <3>1, <3>2, StagedChanges
  <2>6. PICK ok : ok = z.ok
    OBVIOUS
  <2>7. ReplayOK([v |-> r.v, s |-> s, ok |-> ok], U)
    BY <2>4, <2>5, ReplayFrom
  <2> QED
    BY <1>4, <2>2, <2>3, <2>6, <2>7
<1> QED
  BY <1>5, <1>6

LEMMA ReplayMkdirOK ==
    ASSUME NEW U, GitObjects(U), NEW z, ReplayOK(z, U), NEW p, IsPath(p)
    PROVE  ReplayOK(ReplayMkdir(z, p), U)
<1>1. PICK r : r = EnsureParentDirs(z.v, p)
  OBVIOUS
<1>2. PICK f : Arrived(z.v, p, r, Len(p) - 1, f, U)
  BY <1>1, EnsureParentDirsOK DEF ReplayOK, TreeOK
<1>3. TablesOK(r.v, U) /\ Keeps(z.v, r.v) /\ Last(p) \in Nat
  BY <1>2, PathNames DEF Arrived
<1>4. ReplayMkdir(z, p) = MkdirAt(z, r, Last(p))
  BY <1>1 DEF ReplayMkdir
<1>5. CASE r.i = 0 \/ ~CanPopulate(r.v, r.i)
  <2>1. MkdirAt(z, r, Last(p)) = Failing(z)
    BY <1>5 DEF MkdirAt
  <2> QED
    BY <1>4, <2>1, FailingOK
<1>6. CASE r.i # 0 /\ CanPopulate(r.v, r.i)
  <2>1. PICK w : w = Mkdir(r.v, r.i, Last(p)).v
    OBVIOUS
  <2>2. MkdirAt(z, r, Last(p)) = [z EXCEPT !.v = w]
    BY <1>6, <2>1 DEF MkdirAt, With
  <2>3. TablesOK(w, U) /\ KeepsNodes(r.v, w)
    BY <1>3, <1>6, <2>1, CallsOK, CallsKeepNodes
  <2>4. KeepsNodes(z.v, w)
    BY <1>3, <2>3, KeepsNodesTrans DEF Keeps
  <2>5. StagedOK(z.s, w) /\ TreeOK(w, U)
    BY <2>3, <2>4, StagedKept DEF ReplayOK, TreeOK, KeepsNodes
  <2>6. PICK ok : ok = z.ok
    OBVIOUS
  <2>7. ReplayOK([v |-> w, s |-> z.s, ok |-> ok], U)
    BY <2>5, ReplayFrom
  <2>8. [z EXCEPT !.v = w] = [v |-> w, s |-> z.s, ok |-> z.ok]
    BY SetParts
  <2> QED
    BY <1>4, <2>2, <2>6, <2>7, <2>8
<1> QED
  BY <1>5, <1>6

(* A removal takes the name out of the directory it was found in.          *)
LEMMA ReplayRemoveOK ==
    ASSUME NEW U, GitObjects(U), NEW z, ReplayOK(z, U), NEW p, IsPath(p)
    PROVE  ReplayOK(ReplayRemove(z, p), U)
<1>1. PICK r : r = LookupPath(z.v, p)
  OBVIOUS
<1>2. PICK f : Arrived(z.v, p, r, Len(p), f, U)
  BY <1>1, LookupPathOK DEF ReplayOK, TreeOK
<1>3. TablesOK(r.v, U) /\ Keeps(z.v, r.v) /\ Last(p) \in Nat
  BY <1>2, PathNames DEF Arrived
<1>4. ReplayRemove(z, p) = RemoveFound(z, r, p)
  BY <1>1 DEF ReplayRemove
<1>5. CASE r.i = 0
  BY <1>3, <1>4, <1>5, WithOK DEF RemoveFound
<1>6. CASE r.i # 0
  <2>1. PICK n \in Nat : n = Len(p)
    BY PathNames
  <2>2. Trail(r.v, p, f, n) /\ r.i \in DOMAIN r.v.node /\ n \in 1 .. n /\ Last(p) = p[n]
    BY <1>2, <1>6, <2>1, PathNames DEF Arrived
  <2>3. PICK d : d = f[n - 1].i
    OBVIOUS
  <2>4. EnsureParentDirs(r.v, p) = Found(r.v, d)
    BY <2>1, <2>2, <2>3, FoundAgain
  <2>5. Hit(r.v, d, Last(p))
    BY <2>2, <2>3 DEF Trail
  <2>6. CanPopulate(r.v, d)
    <3>1. Child(r.v, d, Last(p)) # 0
      BY <2>5 DEF Hit
    <3>2. <<d, Last(p)>> \in DOMAIN r.v.map
      BY <1>3, <3>1, ChildMapped
    <3>3. NamesAgree(r.v.node, r.v.map, r.v.kids)
      BY <1>3 DEF TablesOK, Together
    <3>4. d \in DOMAIN r.v.kids
      BY <3>2, <3>3 DEF NamesAgree
    <3> QED
      BY <3>4 DEF CanPopulate
  <2>7. PICK w : w = RemoveNode(r.v, d, Last(p)).v
    OBVIOUS
  <2>8. RemoveUnder(EnsureParentDirs(r.v, p), Last(p)) = w
    BY <2>4, <2>7 DEF RemoveUnder, Found
  <2>9. PICK s : s = MarkDeleted(z.s, r.i)
    OBVIOUS
  <2>10. RemoveFound(z, r, p) = SetBoth(z, w, s)
    <3>1. [z EXCEPT !.v = w].s = z.s
      BY SetParts
    <3> QED
      BY <1>6, <2>8, <2>9, <3>1 DEF RemoveFound, SetBoth
  <2>11. TablesOK(w, U) /\ KeepsNodes(r.v, w)
    BY <1>3, <2>6, <2>7, CallsOK, CallsKeepNodes
  <2>12. KeepsNodes(z.v, w)
    BY <1>3, <2>11, KeepsNodesTrans DEF Keeps
  <2>13. StagedOK(z.s, w) /\ TreeOK(w, U) /\ r.i \in DOMAIN w.node
    BY <2>2, <2>11, <2>12, StagedKept DEF ReplayOK, TreeOK, KeepsNodes
  <2>14. StagedOK(s, w)
    BY <2>9, <2>13, StagedChanges
  <2>15. PICK ok : ok = z.ok
    OBVIOUS
  <2>16. ReplayOK([v |-> w, s |-> s, ok |-> ok], U)
    BY <2>13, <2>14, ReplayFrom
  <2>17. SetBoth(z, w, s) = [v |-> w, s |-> s, ok |-> z.ok]
    BY SetBothParts, Zenon
  <2> QED
    BY <1>4, <2>10, <2>15, <2>16, <2>17
<1> QED
  BY <1>5, <1>6

LEMMA ReplayRenameOK ==
    ASSUME NEW U, GitObjects(U), NEW z, ReplayOK(z, U), NEW p, IsPath(p), NEW q, IsPath(q)
    PROVE  ReplayOK(ReplayRename(z, p, q), U)
<1>1. PICK r : r = EnsureParentDirs(z.v, p)
  OBVIOUS
<1>2. PICK f : Arrived(z.v, p, r, Len(p) - 1, f, U)
  BY <1>1, EnsureParentDirsOK DEF ReplayOK, TreeOK
<1>3. TablesOK(r.v, U) /\ Keeps(z.v, r.v) /\ Last(p) \in Nat /\ Last(q) \in Nat
  BY <1>2, PathNames DEF Arrived
<1>4. ReplayRename(z, p, q) = RenameFrom(z, r, p, q)
  BY <1>1 DEF ReplayRename
<1>5. CASE r.i = 0
  BY <1>3, <1>4, <1>5, WithOK DEF RenameFrom
<1>6. CASE r.i # 0
  <2>1. PICK t : t = EnsureParentDirs(r.v, q)
    OBVIOUS
  <2>2. TreeOK(r.v, U)
    BY <1>3, TreeKept DEF ReplayOK
  <2>3. PICK g : Arrived(r.v, q, t, Len(q) - 1, g, U)
    BY <2>1, <2>2, EnsureParentDirsOK DEF TreeOK
  <2>4. TablesOK(t.v, U) /\ Keeps(z.v, t.v)
    BY <1>3, <2>3, KeepsTrans DEF Arrived
  <2>5. RenameFrom(z, r, p, q) = RenameTo(z, r.i, t, Last(p), Last(q))
    BY <1>6, <2>1 DEF RenameFrom
  <2>6. CASE t.i = 0 \/ ~CanPopulate(t.v, r.i) \/ ~CanPopulate(t.v, t.i)
    <3>1. RenameTo(z, r.i, t, Last(p), Last(q)) = With(z, t.v)
      BY <2>6 DEF RenameTo
    <3> QED
      BY <1>4, <2>4, <2>5, <3>1, WithOK
  <2>7. CASE t.i # 0 /\ CanPopulate(t.v, r.i) /\ CanPopulate(t.v, t.i)
    <3>1. PICK w : w = Rename(t.v, r.i, Last(p), t.i, Last(q)).v
      OBVIOUS
    <3>2. RenameTo(z, r.i, t, Last(p), Last(q)) = [z EXCEPT !.v = w]
      BY <2>7, <3>1 DEF RenameTo, With
    <3>3. TablesOK(w, U) /\ KeepsNodes(t.v, w)
      BY <1>3, <2>4, <2>7, <3>1, RenameCallOK, RenameCallKeepsNodes
    <3>4. KeepsNodes(z.v, w)
      BY <2>4, <3>3, KeepsNodesTrans DEF Keeps
    <3>5. StagedOK(z.s, w) /\ TreeOK(w, U)
      BY <3>3, <3>4, StagedKept DEF ReplayOK, TreeOK, KeepsNodes
    <3>6. PICK ok : ok = z.ok
      OBVIOUS
    <3>7. ReplayOK([v |-> w, s |-> z.s, ok |-> ok], U)
      BY <3>5, ReplayFrom
    <3>8. [z EXCEPT !.v = w] = [v |-> w, s |-> z.s, ok |-> z.ok]
      BY SetParts
    <3> QED
      BY <1>4, <2>5, <3>2, <3>6, <3>7, <3>8
  <2> QED
    BY <2>6, <2>7
<1> QED
  BY <1>5, <1>6

LEMMA ReplayEntryOK ==
    ASSUME NEW U, GitObjects(U), NEW z, ReplayOK(z, U), NEW e, Entry(e), NEW up
    PROVE  ReplayOK(ReplayEntry(z, e, up), U)
<1>1. CASE ~z.ok
  BY <1>1 DEF ReplayEntry
<1>2. CASE z.ok
  <2>1. PICK s : s = IF e.op = "rename" THEN Record(Record(z.s, e.p), e.q) ELSE Record(z.s, e.p)
    OBVIOUS
  <2>2. PICK y : y = [z EXCEPT !.s = s]
    OBVIOUS
  <2>3. ReplayEntry(z, e, up) = ReplayOp(y, e, up)
    BY <1>2, <2>1, <2>2 DEF ReplayEntry
  <2>4. ReplayOK(y, U)
    <3>1. TreeOK(z.v, U) /\ StagedOK(z.s, z.v) /\ Root \in DOMAIN z.v.node
      BY DEF ReplayOK, TreeOK
    <3>2. \A x, q : StagedOK(x, z.v) => StagedOK(Record(x, q), z.v)
      BY <3>1, StagedChanges
    <3>3. StagedOK(s, z.v)
      BY <2>1, <3>1, <3>2
    <3>4. [z EXCEPT !.s = s] = [v |-> z.v, s |-> s, ok |-> z.ok]
      BY SetParts
    <3>5. PICK ok : ok = z.ok
      OBVIOUS
    <3>6. ReplayOK([v |-> z.v, s |-> s, ok |-> ok], U)
      BY <3>1, <3>3, ReplayFrom
    <3> QED
      BY <2>2, <3>4, <3>5, <3>6
  <2>5. IsPath(e.p) /\ (e.op = "rename" => IsPath(e.q))
    BY DEF Entry, NamesPaths
  <2>6. CASE e.op = "create"
    <3>1. ReplayOp(y, e, up) = ReplayCreate(y, e.p)
      BY <2>6 DEF ReplayOp
    <3> QED
      BY <2>3, <2>4, <2>5, <3>1, ReplayCreateOK
  <2>7. CASE e.op = "mkdir"
    <3>1. ReplayOp(y, e, up) = ReplayMkdir(y, e.p)
      BY <2>7 DEF ReplayOp
    <3> QED
      BY <2>3, <2>4, <2>5, <3>1, ReplayMkdirOK
  <2>8. CASE e.op = "write"
    <3>1. ReplayOp(y, e, up) = ReplayWrite(y, e.p, e.off, e.b, up)
      BY <2>8 DEF ReplayOp
    <3> QED
      BY <2>3, <2>4, <2>5, <3>1, ReplayWriteOK
  <2>9. CASE e.op = "trunc"
    <3>1. ReplayOp(y, e, up) = ReplayTruncate(y, e.p, e.off, up)
      BY <2>9 DEF ReplayOp
    <3> QED
      BY <2>3, <2>4, <2>5, <3>1, ReplayTruncateOK
  <2>10. CASE e.op = "remove"
    <3>1. ReplayOp(y, e, up) = ReplayRemove(y, e.p)
      BY <2>10 DEF ReplayOp
    <3> QED
      BY <2>3, <2>4, <2>5, <3>1, ReplayRemoveOK
  <2>11. CASE e.op = "rename"
    <3>1. ReplayOp(y, e, up) = ReplayRename(y, e.p, e.q)
      BY <2>11 DEF ReplayOp
    <3> QED
      BY <2>3, <2>4, <2>5, <2>11, <3>1, ReplayRenameOK
  <2> QED
    BY <2>6, <2>7, <2>8, <2>9, <2>10, <2>11 DEF Entry
<1> QED
  BY <1>1, <1>2

-----------------------------------------------------------------------------
(* A replay of the whole log.                                              *)

FreshReplay(o) == [v |-> NewVfs(o), s |-> NewStaging, ok |-> TRUE]

ReplayTo(f, k, o, l, up) == IF k = 0 THEN FreshReplay(o) ELSE ReplayEntry(f[k - 1], l[k], up)

Replays(f, n, o, l, up) == f = [k \in 0 .. n |-> ReplayTo(f, k, o, l, up)]

LEMMA ReplaysExist ==
    ASSUME NEW n \in Nat, NEW o, NEW l, NEW up
    PROVE  \E f : Replays(f, n, o, l, up)
<1> DEFINE G == {m \in Nat : \E f : Replays(f, m, o, l, up)}
<1>1. 0 \in G
  <2> DEFINE f == [k \in 0 .. 0 |-> FreshReplay(o)]
  <2>1. \A k \in 0 .. 0 : ReplayTo(f, k, o, l, up) = FreshReplay(o)
    BY DEF ReplayTo
  <2>2. f = [k \in 0 .. 0 |-> ReplayTo(f, k, o, l, up)]
    BY <2>1, Zenon
  <2> QED
    BY <2>2 DEF Replays
<1>2. ASSUME NEW m \in Nat, m \in G PROVE m + 1 \in G
  <2>1. PICK f : Replays(f, m, o, l, up)
    BY <1>2
  <2>2. \A k \in 0 .. m : f[k] = ReplayTo(f, k, o, l, up)
    BY <2>1, Zenon DEF Replays
  <2> DEFINE c(k) == IF k = m + 1 THEN ReplayTo(f, m + 1, o, l, up) ELSE f[k]
             h == [k \in 0 .. m + 1 |-> c(k)]
  <2>3. \A k \in 0 .. m : h[k] = f[k] /\ c(k) = f[k]
    OBVIOUS
  <2>4. h = [k \in 0 .. m + 1 |-> c(k)] /\ c(m + 1) = ReplayTo(f, m + 1, o, l, up)
    OBVIOUS
  <2> HIDE DEF h, c
  <2>5. ASSUME NEW k \in 0 .. m + 1 PROVE c(k) = ReplayTo(h, k, o, l, up)
    <3>1. CASE k = m + 1
      <4>1. (m + 1) - 1 = m /\ h[m] = f[m] /\ m + 1 # 0
        BY <2>3
      <4> QED
        BY <2>4, <3>1, <4>1 DEF ReplayTo
    <3>2. CASE k # m + 1
      <4>1. k \in 0 .. m /\ (k = 0 \/ k - 1 \in 0 .. m)
        BY <3>2
      <4>2. ReplayTo(h, k, o, l, up) = ReplayTo(f, k, o, l, up)
        BY <2>3, <4>1 DEF ReplayTo
      <4> QED
        BY <2>2, <2>3, <4>1, <4>2
    <3> QED
      BY <3>1, <3>2
  <2>6. h = [k \in 0 .. m + 1 |-> ReplayTo(h, k, o, l, up)]
    BY <2>4, <2>5, Zenon
  <2> QED
    BY <2>6 DEF Replays
<1> HIDE DEF G
<1>3. n \in G
  BY <1>1, <1>2, UpTo
<1> QED
  BY <1>3 DEF G

LEMMA ReplayIs ==
    ASSUME NEW o, NEW l, Len(l) \in Nat, NEW up
    PROVE  \E f : Replays(f, Len(l), o, l, up) /\ Replay(o, l, up) = f[Len(l)]
<1> DEFINE to(f, k) == IF k = 0 THEN [v |-> NewVfs(o), s |-> NewStaging, ok |-> TRUE]
                       ELSE ReplayEntry(f[k - 1], l[k], up)
           after == CHOOSE after : after = [k \in 0 .. Len(l) |-> to(after, k)]
<1>1. Replay(o, l, up) = after[Len(l)]
  BY Zenon DEF Replay
<1>2. \A f, k : ReplayTo(f, k, o, l, up) = to(f, k)
  BY DEF ReplayTo, FreshReplay
<1>3. PICK f : Replays(f, Len(l), o, l, up)
  BY ReplaysExist
<1> HIDE DEF to
<1>4. f = [k \in 0 .. Len(l) |-> to(f, k)]
  BY <1>2, <1>3, Zenon DEF Replays
<1>5. after = [k \in 0 .. Len(l) |-> to(after, k)]
  BY <1>4, Zenon
<1> HIDE DEF after
<1>6. Replays(after, Len(l), o, l, up)
  BY <1>2, <1>5, Zenon DEF Replays
<1> QED
  BY <1>1, <1>6

LEMMA ReplayKept ==
    ASSUME NEW U, GitObjects(U), NEW o \in U, NEW S, NEW l \in Seq(S), \A k \in DOMAIN l : Entry(l[k]),
           NEW up
    PROVE  ReplayOK(Replay(o, l, up), U)
<1>1. PICK n \in Nat : n = Len(l)
  OBVIOUS
<1>2. PICK f : Replays(f, n, o, l, up) /\ Replay(o, l, up) = f[n]
  BY <1>1, ReplayIs
<1>3. \A k \in 0 .. n : f[k] = ReplayTo(f, k, o, l, up)
  BY <1>2, Zenon DEF Replays
<1> DEFINE G == {k \in Nat : ReplayOK(f[k], U)}
<1>4. 0 \in G
  <2>1. f[0] = FreshReplay(o)
    BY <1>3 DEF ReplayTo
  <2>2. TreeOK(NewVfs(o), U)
    <3>1. Root \in DOMAIN NewVfs(o).node
      BY DEF NewVfs
    <3> QED
      BY <3>1, NewVfsOK DEF TreeOK
  <2>3. StagedOK(NewStaging, NewVfs(o))
    BY DEF StagedOK, NewStaging
  <2>4. PICK b : b = TRUE
    OBVIOUS
  <2>5. ReplayOK([v |-> NewVfs(o), s |-> NewStaging, ok |-> b], U)
    BY <2>2, <2>3, ReplayFrom
  <2> QED
    BY <2>1, <2>4, <2>5 DEF FreshReplay
<1>5. ASSUME NEW k \in Nat, k < n, k \in G PROVE k + 1 \in G
  <2>1. k + 1 \in 0 .. n /\ (k + 1) - 1 = k /\ k + 1 # 0 /\ k + 1 \in DOMAIN l
    BY <1>1, <1>5
  <2>2. f[k + 1] = ReplayEntry(f[k], l[k + 1], up)
    BY <1>3, <2>1 DEF ReplayTo
  <2> QED
    BY <1>5, <2>1, <2>2, ReplayEntryOK
<1> HIDE DEF G
<1>6. \A k \in Nat : k < n /\ k \in G => k + 1 \in G
  BY <1>5
<1>7. \A k \in 0 .. n : k \in G
  BY <1>4, <1>6, UpTo, Zenon
<1>8. n \in G
  BY <1>7
<1> QED
  BY <1>2, <1>8 DEF G

(* A replay of the log keeps its own tables in step, and what it staged or *)
(* deleted are nodes of them (ReplayInStep), for every log that handlers   *)
(* can write, in whatever order they did: through directories made on the  *)
(* way, names used twice, errors of rename that are ignored, and an error  *)
(* that ends the replay.                                                   *)
THEOREM ReplayKeepsInStep ==
    ASSUME NEW CONSTANT U, GitObjects(U), Careful = TRUE
    PROVE  Spec /\ [](base \in U) => []ReplayInStep
<1>1. Init /\ base \in U => PathInv(U)
  BY InitPaths
<1>2. PathInv(U) /\ [Next]_vars /\ (base \in U)' => PathInv(U)'
  BY StepPaths
<1>3. PathInv(U) /\ base \in U => ReplayInStep
  <2> SUFFICES ASSUME PathInv(U), base \in U PROVE ReplayInStep
    OBVIOUS
  <2>1. PICK S : log \in Seq(S)
    BY DEF PathInv
  <2>2. \A k \in DOMAIN log : Entry(log[k])
    BY DEF PathInv
  <2>3. PICK b : b = TRUE
    OBVIOUS
  <2>4. PICK r : r = Replay(base, log, b)
    OBVIOUS
  <2>5. ReplayOK(r, U)
    BY <2>1, <2>2, <2>4, ReplayKept
  <2>6. InStep(r.v)
    BY <2>5, InStepAgree DEF ReplayOK, TreeOK
  <2>7. DOMAIN r.s.file \cup r.s.gone \subseteq DOMAIN r.v.node
    BY <2>5 DEF ReplayOK, StagedOK
  <2>8. r = Replay(base, log, TRUE)
    BY <2>3, <2>4, Zenon
  <2> QED
    BY <2>6, <2>7, <2>8 DEF ReplayInStep, ReplayedInStep
<1> QED
  BY <1>1, <1>2, <1>3, PTL DEF Spec
=============================================================================
