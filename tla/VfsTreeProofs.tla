---------------------------- MODULE VfsTreeProofs ----------------------------
(***************************************************************************)
(* The shape of the served tree, for clients that move nothing below       *)
(* itself: every node is below the root, so the walks of the code along    *)
(* the parents end, and a directory that is read page by page gives every  *)
(* child once.                                                             *)
(***************************************************************************)
EXTENDS VfsProofs, FiniteSetTheorems, SequenceTheorems

-----------------------------------------------------------------------------
(* Every node is below the root.                                           *)

(* No set of nodes without the root has all its parents among itself.      *)
Grounded(N) == \A S \in SUBSET (DOMAIN N \ {Root}) : S # {} => \E i \in S : N[i].up \notin S

(* Parents are nodes, 0 is none, and the root is its own parent, alone has *)
(* no name and is no child.                                                *)
Rooted(N, K) ==
    /\ Root \in DOMAIN N /\ N[Root].up = Root /\ N[Root].nm = 0 /\ 0 \notin DOMAIN N
    /\ \A i \in DOMAIN N : N[i].up \in DOMAIN N /\ (i # Root => N[i].nm # 0)
    /\ \A d \in DOMAIN K : Root \notin K[d]
    /\ Grounded(N)

(* The tables get new nodes below old ones and keep the old ones in place. *)
Grows(N, K, N2, K2) ==
    /\ DOMAIN N \subseteq DOMAIN N2
    /\ \A i \in DOMAIN N : N2[i].up = N[i].up /\ N2[i].nm = N[i].nm
    /\ \A i \in DOMAIN N2 : i \in DOMAIN N \/ (i # 0 /\ N2[i].up \in DOMAIN N /\ N2[i].nm # 0)
    /\ \A d \in DOMAIN K2 : Root \in K2[d] => d \in DOMAIN K /\ Root \in K[d]

LEMMA GrowRooted ==
    ASSUME NEW N, NEW K, NEW N2, NEW K2, Rooted(N, K), Grows(N, K, N2, K2)
    PROVE  Rooted(N2, K2)
<1>1. Grounded(N2)
  <2> SUFFICES ASSUME NEW S \in SUBSET (DOMAIN N2 \ {Root}), S # {}, \A i \in S : N2[i].up \in S
               PROVE  FALSE
    BY DEF Grounded
  <2> DEFINE T == S \cap DOMAIN N
  <2>1. T \in SUBSET (DOMAIN N \ {Root}) /\ \A i \in T : N[i].up \in T
    BY DEF Grows, Rooted
  <2>2. T # {}
    <3>1. PICK i \in S : TRUE
      OBVIOUS
    <3> QED
      BY <3>1 DEF Grows
  <2> QED
    BY <2>1, <2>2 DEF Rooted, Grounded
<1>2. \A i \in DOMAIN N2 : N2[i].up \in DOMAIN N2 /\ (i # Root => N2[i].nm # 0)
  BY DEF Rooted, Grows
<1> QED
  BY <1>1, <1>2 DEF Rooted, Grows

RootedVfs(v) == Rooted(v.node, v.kids)

LEMMA NewVfsRooted == ASSUME NEW o PROVE RootedVfs(NewVfs(o))
<1> DEFINE v == NewVfs(o)
<1>1. /\ DOMAIN v.node = {1} /\ v.node[1].up = 1 /\ v.node[1].nm = 0 /\ DOMAIN v.kids = {}
  BY DEF NewVfs, Node, Root
<1> HIDE DEF v
<1>2. Rooted(v.node, v.kids)
  BY <1>1 DEF Rooted, Grounded, Root
<1> QED
  BY <1>2 DEF RootedVfs, v

LEMMA PopulateRooted ==
    ASSUME NEW U, GitObjects(U), NEW v, TablesOK(v, U), RootedVfs(v), NEW d, CanPopulate(v, d)
    PROVE  RootedVfs(Populate(v, d))
<1> DEFINE w == Populate(v, d)
<1>1. /\ DOMAIN v.node \subseteq DOMAIN w.node
      /\ \A i \in DOMAIN v.node : w.node[i] = v.node[i]
      /\ \A i \in DOMAIN w.node : \/ i \in DOMAIN v.node
                                  \/ w.node[i].up = d /\ w.node[i].nm # 0 /\ v.next <= i
      /\ \A c \in DOMAIN w.kids : \A i \in w.kids[c] :
                 (c \in DOMAIN v.kids /\ i \in v.kids[c]) \/ v.next <= i
      /\ TablesOK(w, U)
  BY PopulateOK
<1>2. Root \in DOMAIN v.node /\ Root < v.next /\ v.next \in Nat /\ d \in DOMAIN v.node
  BY DEF RootedVfs, Rooted, TablesOK, Together, Typed, CanPopulate
<1>3. ~ (v.next <= Root) /\ ~ (v.next <= 0)
  BY <1>2 DEF Root
<1> HIDE DEF w
<1>4. Grows(v.node, v.kids, w.node, w.kids)
  BY <1>1, <1>2, <1>3 DEF Grows
<1> QED
  BY <1>4, GrowRooted DEF RootedVfs, w

LEMMA CreateFileRooted ==
    ASSUME NEW U, NEW w, TablesOK(w, U), RootedVfs(w), NEW d \in DOMAIN w.kids, NEW n, n # 0
    PROVE  RootedVfs(CreateFileIn(w, d, n).v)
<1> DEFINE i == Child(w, d, n)
<1>0. /\ d \in DOMAIN w.node /\ w.next \in Nat /\ w.next \notin DOMAIN w.node
      /\ w.next # 0 /\ w.next # Root
  BY DEF TablesOK, Together, Typed, RootedVfs, Rooted, Root
<1>1. CASE i # 0
  <2>1. i \in DOMAIN w.node
    BY <1>1, ChildMapped
  <2> HIDE DEF i
  <2> DEFINE N2 == [w.node EXCEPT ![i] = [w.node[i] EXCEPT !.gone = FALSE]]
  <2>2. [w EXCEPT !.node[i].gone = FALSE]
            = [node |-> N2, map |-> w.map, kids |-> w.kids, next |-> w.next]
    BY SetTables
  <2>3. /\ DOMAIN N2 = DOMAIN w.node
        /\ \A j \in DOMAIN w.node : N2[j].up = w.node[j].up /\ N2[j].nm = w.node[j].nm
    BY <2>1, MarkOK
  <2>4. CreateFileIn(w, d, n).v = [w EXCEPT !.node[i].gone = FALSE]
    BY <1>1 DEF CreateFileIn, Found, i
  <2> HIDE DEF N2
  <2>5. Grows(w.node, w.kids, N2, w.kids)
    BY <2>3 DEF Grows
  <2>6. Rooted(N2, w.kids)
    BY <2>5, GrowRooted DEF RootedVfs
  <2>7. CreateFileIn(w, d, n).v.node = N2 /\ CreateFileIn(w, d, n).v.kids = w.kids
    BY <2>2, <2>4
  <2> QED
    BY <2>6, <2>7 DEF RootedVfs
<1>2. CASE i = 0
  <2> DEFINE r == Node(d, n, NoOid, FALSE)
             N2 == Put(w.node, w.next, r)
             K2 == [w.kids EXCEPT ![d] = @ \cup {w.next}]
  <2>1. r.up = d /\ r.nm = n
    BY DEF Node
  <2>2. CreateFileIn(w, d, n).v = [node |-> N2, map |-> Put(w.map, <<d, n>>, w.next),
                                   kids |-> K2, next |-> w.next + 1]
    BY <1>2 DEF CreateFileIn, Found
  <2> HIDE DEF r
  <2>3. Grows(w.node, w.kids, N2, K2)
    BY <1>0, <2>1 DEF Grows, Put
  <2> HIDE DEF N2, K2
  <2> QED
    BY <2>2, <2>3, GrowRooted DEF RootedVfs
<1> QED
  BY <1>1, <1>2

LEMMA MkdirRooted ==
    ASSUME NEW U, NEW w, TablesOK(w, U), RootedVfs(w), NEW d \in DOMAIN w.kids, NEW n, n # 0
    PROVE  RootedVfs(MkdirIn(w, d, n).v)
<1>0. /\ d \in DOMAIN w.node /\ w.next \in Nat /\ w.next \notin DOMAIN w.node
      /\ w.next # 0 /\ w.next # Root
  BY DEF TablesOK, Together, Typed, RootedVfs, Rooted, Root
<1> DEFINE r == Node(d, n, NoOid, TRUE)
           N2 == Put(w.node, w.next, r)
           K2 == Put([w.kids EXCEPT ![d] = @ \cup {w.next}], w.next, {})
<1>1. r.up = d /\ r.nm = n
  BY DEF Node
<1>2. MkdirIn(w, d, n).v = [node |-> N2, map |-> Put(w.map, <<d, n>>, w.next),
                            kids |-> K2, next |-> w.next + 1]
  BY DEF MkdirIn, Found
<1> HIDE DEF r
<1>3. Grows(w.node, w.kids, N2, K2)
  BY <1>0, <1>1 DEF Grows, Put
<1> HIDE DEF N2, K2
<1> QED
  BY <1>2, <1>3, GrowRooted DEF RootedVfs

LEMMA RemoveRooted ==
    ASSUME NEW U, NEW w, TablesOK(w, U), RootedVfs(w), NEW d \in Nat, NEW n \in Nat,
           NEW x, x = RemoveIn(w, d, n).v
    PROVE  /\ RootedVfs(x) /\ DOMAIN x.node = DOMAIN w.node
           /\ \A j \in DOMAIN w.node : x.node[j].up = w.node[j].up
<1>1. CASE Child(w, d, n) = 0
  BY <1>1 DEF RemoveIn, Found
<1>2. CASE Child(w, d, n) # 0
  <2>1. /\ TablesOK(x, U) /\ x.map = Drop(w.map, <<d, n>>)
        /\ x.kids = [w.kids EXCEPT ![d] = @ \ {Child(w, d, n)}]
        /\ x.node \in [DOMAIN w.node -> NodeRecord(U)]
        /\ \A j \in DOMAIN w.node : x.node[j].up = w.node[j].up /\ x.node[j].nm = w.node[j].nm
    BY <1>2, RemoveShape
  <2>2. Grows(w.node, w.kids, x.node, x.kids)
    BY <2>1 DEF Grows
  <2>3. RootedVfs(x)
    BY <2>2, GrowRooted DEF RootedVfs
  <2> QED
    BY <2>1, <2>3
<1> QED
  BY <1>1, <1>2

-----------------------------------------------------------------------------
(* What is below a node.                                                   *)

(* B is the set of the nodes that are i or have their parent in it.        *)
IsBelow(B, N, i) ==
    B \subseteq DOMAIN N /\ \A j \in DOMAIN N : j \in B <=> (j = i \/ (j # Root /\ N[j].up \in B))

(* There is such a set: the smallest one that is closed.                   *)
LEMMA BelowExists == ASSUME NEW N, NEW i PROVE \E B : IsBelow(B, N, i)
<1> DEFINE F(T) == {j \in DOMAIN N : j = i \/ (j # Root /\ N[j].up \in T)}
           L == {T \in SUBSET DOMAIN N : F(T) \subseteq T}
           I == {j \in DOMAIN N : \A T \in L : j \in T}
<1>1. F(I) \subseteq I
  <2> SUFFICES ASSUME NEW j \in F(I), NEW T \in L PROVE j \in T
    OBVIOUS
  <2>1. I \subseteq T
    OBVIOUS
  <2>2. j \in F(T)
    BY <2>1
  <2> QED
    BY <2>2
<1>2. F(I) \in L
  <2>1. F(F(I)) \subseteq F(I)
    BY <1>1
  <2> QED
    BY <2>1
<1>3. I \subseteq F(I)
  BY <1>2
<1>4. \A j \in DOMAIN N : j \in I <=> j \in F(I)
  BY <1>1, <1>3
<1> HIDE DEF I
<1>5. I \subseteq DOMAIN N
  BY DEF I
<1>6. IsBelow(I, N, i)
  BY <1>4, <1>5 DEF IsBelow
<1> QED
  BY <1>6

LEMMA BelowSet ==
    ASSUME \A j \in DOMAIN live.node : live.node[j].up \in DOMAIN live.node, NEW i
    PROVE  \E B : IsBelow(B, live.node, i) /\ \A d \in DOMAIN live.node : d \in B => Below(d, i)
<1> DEFINE N == live.node
           h == CHOOSE h : h = [j \in DOMAIN N |-> j = i \/ (j # Root /\ h[N[j].up])]
<1>1. PICK A : IsBelow(A, N, i)
  BY BelowExists
<1> DEFINE g == [j \in DOMAIN N |-> j \in A]
<1>2. g = [j \in DOMAIN N |-> j = i \/ (j # Root /\ g[N[j].up])]
  <2>1. \A j \in DOMAIN N : g[j] = (j = i \/ (j # Root /\ g[N[j].up]))
    <3>1. \A j \in DOMAIN N : g[j] = (j \in A) /\ g[N[j].up] = (N[j].up \in A)
      BY Zenon
    <3>2. ASSUME NEW j \in DOMAIN N
          PROVE  (j \in A) = (j = i \/ (j # Root /\ N[j].up \in A))
      <4>1. j \in A <=> (j = i \/ (j # Root /\ N[j].up \in A))
        BY <1>1 DEF IsBelow
      <4> QED
        BY <4>1
    <3> HIDE DEF g
    <3> QED
      BY <3>1, <3>2, Zenon
  <2> QED
    BY <2>1, Zenon
<1> HIDE DEF g
<1>3. \E f : f = [j \in DOMAIN N |-> j = i \/ (j # Root /\ f[N[j].up])]
  BY <1>2
<1>4. h = [j \in DOMAIN N |-> j = i \/ (j # Root /\ h[N[j].up])]
  BY <1>3, Zenon
<1>5. \A d \in DOMAIN N : Below(d, i) <=> h[d]
  BY Zenon DEF Below
<1> HIDE DEF h
<1> DEFINE B == {j \in DOMAIN N : h[j]}
<1>6. \A j \in DOMAIN N : h[j] <=> (j = i \/ (j # Root /\ h[N[j].up]))
  BY <1>4, Zenon
<1>7. IsBelow(B, N, i)
  BY <1>6, Zenon DEF IsBelow
<1>8. \A d \in DOMAIN N : d \in B => Below(d, i)
  BY <1>5, Zenon
<1> QED
  BY <1>7, <1>8, Zenon

(* N has the nodes of N0 in their places.                                  *)
Extends(N, N0) ==
    /\ Grounded(N0) /\ DOMAIN N0 \subseteq DOMAIN N
    /\ \A j \in DOMAIN N0 : N[j].up = N0[j].up /\ N0[j].up \in DOMAIN N0

Apart(e, i, N0) == e \in DOMAIN N0 /\ \E B : IsBelow(B, N0, i) /\ e \notin B

(* N2 is N with another record for node i, which has a name and parent e.  *)
Reparented(N2, N, i, e) ==
    DOMAIN N2 = DOMAIN N /\ N2[i].up = e /\ N2[i].nm # 0 /\ \A j \in DOMAIN N : j # i => N2[j] = N[j]

(* Node i goes to e, which was not below it in the tables N0 that N grew   *)
(* from.                                                                   *)
LEMMA MoveGrounded ==
    ASSUME NEW N, Grounded(N), NEW N0, Extends(N, N0), NEW i, NEW e, Apart(e, i, N0),
           NEW N2, Reparented(N2, N, i, e)
    PROVE  Grounded(N2)
<1>0. PICK B : IsBelow(B, N0, i) /\ e \notin B /\ e \in DOMAIN N0
  BY DEF Apart
<1> USE DEF Extends, Reparented
<1> SUFFICES ASSUME NEW S \in SUBSET (DOMAIN N2 \ {Root}), S # {}, \A j \in S : N2[j].up \in S
             PROVE  FALSE
  BY DEF Grounded
<1>1. CASE i \notin S
  <2>1. S \in SUBSET (DOMAIN N \ {Root}) /\ \A j \in S : N[j].up \in S
    BY <1>1
  <2> QED
    BY <2>1 DEF Grounded
<1>2. CASE i \in S
  <2> DEFINE T == {j \in S : j \in DOMAIN N0 /\ j \notin B}
  <2>1. e \in T
    BY <1>0, <1>2
  <2>2. \A j \in T : N0[j].up \in T
    <3> SUFFICES ASSUME NEW j \in T PROVE N0[j].up \in T
      OBVIOUS
    <3>1. j # i /\ j # Root /\ j \in DOMAIN N0 /\ N0[j].up \notin B
      BY <1>0 DEF IsBelow
    <3>2. N0[j].up \in S
      BY <3>1
    <3> QED
      BY <3>1, <3>2
  <2>3. T \in SUBSET (DOMAIN N0 \ {Root})
    OBVIOUS
  <2> QED
    BY <2>1, <2>2, <2>3 DEF Grounded
<1> QED
  BY <1>1, <1>2

LEMMA MoveRooted ==
    ASSUME NEW N, NEW K, Rooted(N, K), NEW N0, Extends(N, N0),
           NEW i \in DOMAIN N, i # Root, NEW e, Apart(e, i, N0),
           NEW N2, Reparented(N2, N, i, e), NEW d
    PROVE  Rooted(N2, Rehang(K, i, d, e))
<1>1. Grounded(N)
  BY DEF Rooted
<1>2. Grounded(N2)
  BY <1>1, MoveGrounded
<1>3. \A c \in DOMAIN Rehang(K, i, d, e) : c \in DOMAIN K /\ Root \notin Rehang(K, i, d, e)[c]
  BY DEF Rehang, Rooted
<1>4. \A j \in DOMAIN N2 : N2[j].up \in DOMAIN N2 /\ (j # Root => N2[j].nm # 0)
  BY DEF Rooted, Reparented, Apart, Extends
<1> QED
  BY <1>2, <1>3, <1>4 DEF Rooted, Reparented

(* rename of a node that is not above its destination.                     *)
LEMMA RenameRooted ==
    ASSUME NEW U, NEW w, TablesOK(w, U), RootedVfs(w), NEW d \in Nat, NEW n \in Nat, n # 0,
           NEW e \in DOMAIN w.kids, NEW m \in Nat, m # 0, NEW i, i = Child(w, d, n), i # 0,
           NEW N0, Extends(w.node, N0), Apart(e, i, N0)
    PROVE  RootedVfs(RenameIn(w, d, n, e, m).v)
<1>1. e \in Nat
  BY DEF TablesOK, Together, Typed
<1>2. PICK x : x = RemoveIn(w, e, m).v
  OBVIOUS
<1>3. /\ RootedVfs(x) /\ DOMAIN x.node = DOMAIN w.node
      /\ \A j \in DOMAIN w.node : x.node[j].up = w.node[j].up
  BY <1>1, <1>2, RemoveRooted, SMTT(40)
<1>4. TablesOK(x, U)
  BY <1>1, <1>2, RemoveOK
<1>5. i \in DOMAIN w.node /\ w.node[i].nm = n /\ i # Root
  <2>1. <<d, n>> \in DOMAIN w.map /\ i = w.map[<<d, n>>] /\ i \in DOMAIN w.node
    BY ChildMapped
  <2>2. NamesAgree(w.node, w.map, w.kids)
    BY DEF TablesOK, Together
  <2>3. w.node[i].nm = n
    BY <2>1, <2>2 DEF NamesAgree
  <2> QED
    BY <2>1, <2>3 DEF RootedVfs, Rooted
<1>6. x.node \in [DOMAIN x.node -> NodeRecord(U)]
  BY <1>4 DEF TablesOK, Together, Typed
<1> DEFINE r1 == [x.node[i] EXCEPT !.up = e]
           r == [r1 EXCEPT !.nm = m]
           N1 == [x.node EXCEPT ![i] = r1]
           N2 == [N1 EXCEPT ![i] = [N1[i] EXCEPT !.nm = m]]
<1>7. N1[i] = r1
  BY <1>3, <1>5
<1>8. r.up = e /\ r.nm = m
  BY <1>3, <1>5, <1>6 DEF NodeRecord
<1>9. N2[i] = r /\ DOMAIN N2 = DOMAIN x.node /\ \A j \in DOMAIN x.node : j # i => N2[j] = x.node[j]
  BY <1>3, <1>5, <1>7
<1>10. N2 = Relabel(Reparent(x.node, i, e), i, m)
  BY DEF Relabel, Reparent
<1> HIDE DEF r, N2
<1>11. Rooted(N2, Rehang(x.kids, i, d, e))
  <2>1. Reparented(N2, x.node, i, e) /\ Rooted(x.node, x.kids) /\ i \in DOMAIN x.node
    BY <1>3, <1>5, <1>8, <1>9 DEF RootedVfs, Reparented
  <2>2. Extends(x.node, N0)
    BY <1>3 DEF Extends
  <2> QED
    BY <1>5, <2>1, <2>2, MoveRooted
<1>12. RenameIn(w, d, n, e, m).v = Moved(x, i, d, n, e, m)
  <2>1. RenameIn(w, d, n, e, m).v = Move(x, i, d, n, e, m)
    BY <1>2 DEF RenameIn, Found
  <2> QED
    BY <1>4, <2>1, MoveShape
<1>13. /\ RenameIn(w, d, n, e, m).v.node = N2
       /\ RenameIn(w, d, n, e, m).v.kids = Rehang(x.kids, i, d, e)
  BY <1>10, <1>12 DEF Moved
<1> QED
  BY <1>11, <1>13 DEF RootedVfs

-----------------------------------------------------------------------------
(* The calls.                                                              *)
LEMMA CallsRooted ==
    ASSUME NEW U, GitObjects(U), NEW v, TablesOK(v, U), RootedVfs(v), NEW d, CanPopulate(v, d),
           NEW n \in Nat, n # 0
    PROVE  /\ RootedVfs(CreateFile(v, d, n).v)
           /\ RootedVfs(Mkdir(v, d, n).v)
           /\ RootedVfs(RemoveNode(v, d, n).v)
<1> DEFINE w == Populate(v, d)
<1>1. TablesOK(w, U) /\ d \in DOMAIN w.kids
  BY PopulateOK
<1>2. RootedVfs(w)
  BY PopulateRooted
<1> HIDE DEF w
<1>3. d \in Nat
  BY <1>1, DirIsInode
<1>4. RootedVfs(CreateFileIn(w, d, n).v)
  BY <1>1, <1>2, CreateFileRooted
<1>5. RootedVfs(MkdirIn(w, d, n).v)
  BY <1>1, <1>2, MkdirRooted
<1>6. RootedVfs(RemoveIn(w, d, n).v)
  BY <1>1, <1>2, <1>3, RemoveRooted
<1> QED
  BY <1>4, <1>5, <1>6 DEF w, CreateFile, Mkdir, RemoveNode

(* Populating two directories leaves the nodes that were there in place.   *)
LEMMA PopulateBothRooted ==
    ASSUME NEW U, GitObjects(U), NEW v, TablesOK(v, U), RootedVfs(v), NEW d, CanPopulate(v, d),
           NEW e, CanPopulate(v, e), NEW w, w = Populate(Populate(v, d), e)
    PROVE  /\ TablesOK(w, U) /\ d \in DOMAIN w.kids /\ e \in DOMAIN w.kids
           /\ RootedVfs(w) /\ Extends(w.node, v.node)
<1> DEFINE x == Populate(v, d)
<1>1. /\ TablesOK(x, U) /\ d \in DOMAIN x.kids
      /\ DOMAIN v.node \subseteq DOMAIN x.node /\ DOMAIN v.kids \subseteq DOMAIN x.kids
      /\ \A i \in DOMAIN v.node : x.node[i] = v.node[i]
  BY PopulateOK
<1>2. RootedVfs(x)
  BY PopulateRooted
<1>3. CanPopulate(x, e)
  BY <1>1 DEF CanPopulate
<1> HIDE DEF x
<1>4. /\ TablesOK(Populate(x, e), U) /\ e \in DOMAIN Populate(x, e).kids
      /\ DOMAIN x.node \subseteq DOMAIN Populate(x, e).node
      /\ DOMAIN x.kids \subseteq DOMAIN Populate(x, e).kids
      /\ \A i \in DOMAIN x.node : Populate(x, e).node[i] = x.node[i]
  BY <1>1, <1>3, PopulateOK
<1>5. RootedVfs(Populate(x, e))
  BY <1>1, <1>2, <1>3, PopulateRooted
<1>6. w = Populate(x, e)
  BY DEF x
<1>7. Extends(w.node, v.node)
  BY <1>1, <1>4, <1>6 DEF Extends, RootedVfs, Rooted
<1> QED
  BY <1>1, <1>4, <1>5, <1>6, <1>7

LEMMA RenameCallRooted ==
    ASSUME NEW U, GitObjects(U), TablesOK(live, U), RootedVfs(live),
           NEW d, CanPopulate(live, d), NEW e \in DOMAIN live.node, CanPopulate(live, e),
           NEW n \in Nat, n # 0, NEW m \in Nat, m # 0,
           Rename(live, d, n, e, m).i # 0, ~Below(e, Rename(live, d, n, e, m).i)
    PROVE  RootedVfs(Rename(live, d, n, e, m).v)
<1>1. PICK w : w = Populate(Populate(live, d), e)
  OBVIOUS
<1>2. /\ TablesOK(w, U) /\ d \in DOMAIN w.kids /\ e \in DOMAIN w.kids
      /\ RootedVfs(w) /\ Extends(w.node, live.node)
  BY <1>1, PopulateBothRooted
<1>3. d \in Nat
  BY <1>2, DirIsInode
<1>4. PICK i : i = Child(w, d, n)
  OBVIOUS
<1>5. Rename(live, d, n, e, m) = RenameIn(w, d, n, e, m)
  BY <1>1 DEF Rename
<1>6. i # 0 /\ Rename(live, d, n, e, m).i = i
  BY <1>4, <1>5 DEF RenameIn, Found
<1>7. Apart(e, i, live.node)
  <2>1. \A j \in DOMAIN live.node : live.node[j].up \in DOMAIN live.node
    BY DEF RootedVfs, Rooted
  <2>2. PICK B : IsBelow(B, live.node, i) /\ \A c \in DOMAIN live.node : c \in B => Below(c, i)
    BY <2>1, BelowSet
  <2>3. ~Below(e, i)
    BY <1>6
  <2> QED
    BY <2>2, <2>3 DEF Apart
<1>8. RootedVfs(RenameIn(w, d, n, e, m).v)
  BY <1>2, <1>3, <1>4, <1>6, <1>7, RenameRooted
<1> QED
  BY <1>5, <1>8

(* Every step keeps the nodes below the root.                              *)
LEMMA StepRooted ==
    ASSUME NEW U, GitObjects(U), Careful = TRUE, TablesOK(live, U), RootedVfs(live), [Next]_vars
    PROVE  RootedVfs(live)'
<1>0. \A n \in Names : n \in Nat /\ n # 0
  BY ConstantsAssumption
<1>1. ASSUME NEW d \in DOMAIN live.node, NfsLookup(d) PROVE RootedVfs(live')
  BY <1>1, PopulateRooted DEF NfsLookup
<1>2. ASSUME NEW h \in Handlers, NEW d \in DOMAIN live.node, NEW n \in Names,
             NfsCreate(h, d, n) \/ NfsMkdir(h, d, n) \/ NfsRemove(h, d, n)
      PROVE  RootedVfs(live')
  <2>1. CASE NfsCreate(h, d, n)
    <3>1. CanPopulate(live, d) /\ live' = CreateFile(live, d, n).v
      BY <2>1 DEF NfsCreate
    <3> QED
      BY <1>0, <3>1, CallsRooted
  <2>2. CASE NfsMkdir(h, d, n)
    <3>1. CanPopulate(live, d) /\ live' = Mkdir(live, d, n).v
      BY <2>2 DEF NfsMkdir
    <3> QED
      BY <1>0, <3>1, CallsRooted
  <2>3. CASE NfsRemove(h, d, n)
    <3>1. CanPopulate(live, d) /\ live' = RemoveNode(live, d, n).v
      BY <2>3 DEF NfsRemove
    <3> QED
      BY <1>0, <3>1, CallsRooted
  <2> QED
    BY <1>2, <2>1, <2>2, <2>3
<1>3. ASSUME NEW h \in Handlers, NEW d \in DOMAIN live.node, NEW e \in DOMAIN live.node,
             NEW n \in Names, NEW m \in Names, NfsRename(h, d, n, e, m)
      PROVE  RootedVfs(live')
  <2>1. /\ CanPopulate(live, d) /\ CanPopulate(live, e) /\ live' = Rename(live, d, n, e, m).v
        /\ Rename(live, d, n, e, m).i # 0 /\ ~Below(e, Rename(live, d, n, e, m).i)
    BY <1>3 DEF NfsRename, Allowed
  <2> QED
    BY <1>0, <2>1, RenameCallRooted
<1>4. ASSUME NEW h \in Handlers, NEW i \in DOMAIN live.node, NEW off \in Offsets,
             (\E b \in Bytes : Fetch(h, "write", i, off, b)) \/ Fetch(h, "trunc", i, off, 0)
      PROVE  live' = live
  BY <1>4 DEF Fetch
<1>5. ASSUME NEW h \in Handlers, NfsWrite(h) \/ NfsSetattr(h) \/ LogMutation(h) PROVE live' = live
  BY <1>5 DEF NfsWrite, NfsSetattr, LogMutation
<1>6. ASSUME Commit PROVE live' = live
  BY <1>6 DEF Commit
<1>7. ASSUME Reboot PROVE RootedVfs(live')
  <2>1. live' = NewVfs(base')
    BY <1>7 DEF Reboot
  <2> QED
    BY <2>1, NewVfsRooted
<1>8. ASSUME UNCHANGED vars PROVE live' = live
  BY <1>8 DEF vars
<1>9. RootedVfs(live')
  BY <1>1, <1>2, <1>3, <1>4, <1>5, <1>6, <1>7, <1>8 DEF Next
<1> QED
  BY <1>9 DEF RootedVfs

(* For clients that move nothing below itself, every node is below the     *)
(* root in every state (TreeIsRooted), however handlers, commits and boots *)
(* interleave, so get_path and the other walks along the parents end.  The *)
(* tree of the branch is taken to be made of Git objects, as above.        *)
THEOREM EveryNodeBelowRoot ==
    ASSUME NEW CONSTANT U, GitObjects(U), Careful = TRUE
    PROVE  Spec /\ [](base \in U) => []TreeIsRooted
<1> DEFINE Inv == TablesOK(live, U) /\ RootedVfs(live)
<1>1. Init /\ base \in U => Inv
  BY NewVfsOK, NewVfsRooted DEF Init
<1>2. Inv /\ [Next]_vars /\ (base \in U)' => Inv'
  BY StepOK, StepRooted
<1>3. Inv => TreeIsRooted
  BY DEF TreeIsRooted, RootedVfs, Rooted, Grounded
<1> QED
  BY <1>1, <1>2, <1>3, PTL DEF Spec

-----------------------------------------------------------------------------
(* Reading a directory page by page.                                       *)

(* f starts with a and goes on with g for n steps.                         *)
Steps(f, n, S, a, g) ==
    f \in [0 .. n -> S] /\ f[0] = a /\ \A k \in 1 .. n : f[k] = g[k][f[k - 1]]

LEMMA StepsExist ==
    ASSUME NEW n \in Nat, NEW S, NEW a \in S, NEW g \in [1 .. n -> [S -> S]]
    PROVE  \E f : Steps(f, n, S, a, g)
<1> DEFINE P(m) == \E f \in [0 .. m -> S] : f[0] = a /\ \A k \in 1 .. m : f[k] = g[k][f[k - 1]]
           Bad == {m \in 0 .. n : ~P(m)}
<1>1. P(0)
  <2> DEFINE f == [k \in 0 .. 0 |-> a]
  <2>1. f \in [0 .. 0 -> S] /\ f[0] = a /\ \A k \in 1 .. 0 : f[k] = g[k][f[k - 1]]
    OBVIOUS
  <2> HIDE DEF f
  <2> QED
    BY <2>1
<1>2. ASSUME NEW m \in 0 .. n, m + 1 \in 0 .. n, P(m) PROVE P(m + 1)
  <2>1. PICK f \in [0 .. m -> S] : f[0] = a /\ \A k \in 1 .. m : f[k] = g[k][f[k - 1]]
    BY <1>2
  <2> DEFINE h == [k \in 0 .. m + 1 |-> IF k = m + 1 THEN g[m + 1][f[m]] ELSE f[k]]
  <2>2. m + 1 \in 1 .. n /\ f[m] \in S /\ g[m + 1][f[m]] \in S
    BY <1>2
  <2>3. h \in [0 .. m + 1 -> S] /\ h[0] = a /\ h[m + 1] = g[m + 1][f[m]]
    BY <2>1, <2>2
  <2>4. \A k \in 0 .. m : h[k] = f[k]
    OBVIOUS
  <2> HIDE DEF h
  <2>5. \A k \in 1 .. m + 1 : h[k] = g[k][h[k - 1]]
    <3> SUFFICES ASSUME NEW k \in 1 .. m + 1 PROVE h[k] = g[k][h[k - 1]]
      OBVIOUS
    <3>1. CASE k = m + 1
      <4>1. (m + 1) - 1 = m /\ h[m] = f[m]
        BY <2>4
      <4> QED
        BY <2>3, <3>1, <4>1
    <3>2. CASE k # m + 1
      <4>1. k \in 1 .. m /\ k \in 0 .. m /\ k - 1 \in 0 .. m
        BY <3>2
      <4> QED
        BY <2>1, <2>4, <4>1
    <3> QED
      BY <3>1, <3>2
  <2> QED
    BY <2>3, <2>5
<1> HIDE DEF P
<1>3. Bad = {}
  <2> SUFFICES ASSUME Bad # {} PROVE FALSE
    OBVIOUS
  <2>1. Bad \in SUBSET Nat
    OBVIOUS
  <2>2. PICK b \in Bad : \A y \in Bad : b <= y
    BY <2>1, LeastNatural
  <2>3. b \in 1 .. n /\ ~P(b)
    BY <1>1, <2>2
  <2>4. b - 1 \in 0 .. n /\ ~(b <= b - 1) /\ (b - 1) + 1 = b
    BY <2>3
  <2>5. P(b - 1)
    BY <2>2, <2>4
  <2> QED
    BY <1>2, <2>3, <2>4, <2>5
<1>4. P(n)
  BY <1>3
<1> QED
  BY <1>4 DEF P, Steps

(* A page starts after the first entry that ended the page before.         *)
LEMMA StartIndexFirst ==
    ASSUME NEW X, NEW l \in Seq(X), NEW x
    PROVE  \/ StartIndex(l, x) = 0 /\ \A j \in 1 .. Len(l) : l[j] # x
           \/ /\ StartIndex(l, x) \in 1 .. Len(l) /\ l[StartIndex(l, x)] = x
              /\ \A j \in 1 .. Len(l) : l[j] = x => StartIndex(l, x) <= j
<1> DEFINE I == {i \in 1 .. Len(l) : l[i] = x}
<1>1. StartIndex(l, x) = IF I # {} THEN Min(I) ELSE 0
  BY DEF StartIndex, SelectInSeq
<1>2. CASE I = {}
  BY <1>1, <1>2
<1>3. CASE I # {}
  <2>1. I \in SUBSET Nat
    OBVIOUS
  <2>2. \E i \in I : \A j \in I : i <= j
    BY <1>3, <2>1, LeastNatural
  <2> HIDE DEF I
  <2>3. Min(I) \in I /\ \A j \in I : Min(I) <= j
    BY <2>2, Zenon DEF Min
  <2> QED
    BY <1>1, <1>3, <2>3 DEF I
<1> QED
  BY <1>2, <1>3

PageEnd(l, x, size) == IF StartIndex(l, x) + size < Len(l) THEN StartIndex(l, x) + size ELSE Len(l)

LEMMA PageIs ==
    ASSUME NEW X, NEW l \in Seq(X), NEW x, NEW size \in Nat
    PROVE  /\ StartIndex(l, x) \in 0 .. Len(l) /\ PageEnd(l, x, size) \in StartIndex(l, x) .. Len(l)
           /\ Page(l, x, size) \in Seq(X)
           /\ Len(Page(l, x, size)) = PageEnd(l, x, size) - StartIndex(l, x)
           /\ \A j \in 1 .. PageEnd(l, x, size) - StartIndex(l, x) :
                  Page(l, x, size)[j] = l[StartIndex(l, x) + j]
<1> DEFINE s == StartIndex(l, x)
           t == PageEnd(l, x, size)
<1>1. Len(l) \in Nat /\ \A j \in 1 .. Len(l) : l[j] \in X
  OBVIOUS
<1>2. s \in 0 .. Len(l)
  BY <1>1, StartIndexFirst
<1>3. Page(l, x, size) = SubSeq(l, s + 1, t)
  BY DEF Page, PageEnd
<1>6. t = IF s + size < Len(l) THEN s + size ELSE Len(l)
  BY DEF PageEnd
<1> HIDE DEF s, t
<1>4. t \in s .. Len(l)
  BY <1>1, <1>2, <1>6
<1>5. \A i \in (s + 1) .. t : l[i] \in X
  BY <1>1, <1>2, <1>4
<1>7. s + 1 \in Int /\ t \in Int
  BY <1>1, <1>2, <1>4
<1>8. /\ SubSeq(l, s + 1, t) \in Seq(X)
      /\ Len(SubSeq(l, s + 1, t)) = IF s + 1 <= t THEN t - (s + 1) + 1 ELSE 0
      /\ \A i \in 1 .. t - (s + 1) + 1 : SubSeq(l, s + 1, t)[i] = l[(s + 1) + i - 1]
  BY <1>5, <1>7, SubSeqProperties
<1>9. t - (s + 1) + 1 = t - s /\ \A i \in 1 .. t - s : (s + 1) + i - 1 = s + i
  BY <1>1, <1>2, <1>4
<1>10. Len(SubSeq(l, s + 1, t)) = t - s
  BY <1>1, <1>2, <1>4, <1>8
<1> QED
  BY <1>2, <1>3, <1>4, <1>8, <1>9, <1>10 DEF s, t

(* How often y is in u.                                                    *)
Never(u, y) == \A j \in 1 .. Len(u) : u[j] # y
Once(u, y)  == \E j \in 1 .. Len(u) : u[j] = y /\ \A i \in 1 .. Len(u) : u[i] = y => i = j

LEMMA ConcatOnce ==
    ASSUME NEW X, NEW u \in Seq(X), NEW p \in Seq(X), NEW y
    PROVE  /\ Never(u, y) /\ Never(p, y) => Never(u \o p, y)
           /\ Once(u, y) /\ Never(p, y) => Once(u \o p, y)
           /\ Never(u, y) /\ Once(p, y) => Once(u \o p, y)
<1> DEFINE c == u \o p
<1>1. /\ Len(u) \in Nat /\ Len(p) \in Nat /\ Len(c) = Len(u) + Len(p)
      /\ \A i \in 1 .. Len(u) + Len(p) : c[i] = IF i <= Len(u) THEN u[i] ELSE p[i - Len(u)]
  BY ConcatProperties
<1> HIDE DEF c
<1>2. /\ \A i \in 1 .. Len(c) : \/ i \in 1 .. Len(u) /\ c[i] = u[i]
                                \/ i - Len(u) \in 1 .. Len(p) /\ c[i] = p[i - Len(u)]
      /\ \A i \in 1 .. Len(u) : i \in 1 .. Len(c) /\ c[i] = u[i]
      /\ \A i \in 1 .. Len(p) : i + Len(u) \in 1 .. Len(c) /\ c[i + Len(u)] = p[i]
  BY <1>1
<1>3. ASSUME Never(u, y), Never(p, y) PROVE Never(c, y)
  BY <1>2, <1>3 DEF Never
<1>4. ASSUME Once(u, y), Never(p, y) PROVE Once(c, y)
  <2>1. PICK j \in 1 .. Len(u) : u[j] = y /\ \A i \in 1 .. Len(u) : u[i] = y => i = j
    BY <1>4 DEF Once
  <2>2. j \in 1 .. Len(c) /\ c[j] = y
    BY <1>2, <2>1
  <2>3. \A i \in 1 .. Len(c) : c[i] = y => i = j
    BY <1>2, <1>4, <2>1 DEF Never
  <2> QED
    BY <2>2, <2>3 DEF Once
<1>5. ASSUME Never(u, y), Once(p, y) PROVE Once(c, y)
  <2>1. PICK j \in 1 .. Len(p) : p[j] = y /\ \A i \in 1 .. Len(p) : p[i] = y => i = j
    BY <1>5 DEF Once
  <2>2. j + Len(u) \in 1 .. Len(c) /\ c[j + Len(u)] = y
    BY <1>2, <2>1
  <2>3. ASSUME NEW i \in 1 .. Len(c), c[i] = y PROVE i = j + Len(u)
    <3>1. i - Len(u) \in 1 .. Len(p) /\ p[i - Len(u)] = y
      BY <1>2, <1>5, <2>3 DEF Never
    <3>2. i - Len(u) = j
      BY <2>1, <3>1
    <3> QED
      BY <1>1, <3>2
  <2> QED
    BY <2>2, <2>3 DEF Once
<1> QED
  BY <1>3, <1>4, <1>5 DEF c

(* The entries of a listing after "." and ".." differ from all others, and *)
(* none is 0, the name of the first page.                                  *)
Listing(l) ==
    /\ 2 <= Len(l) /\ \A j \in 1 .. Len(l) : l[j] # 0
    /\ \A q \in 3 .. Len(l) : \A j \in 1 .. Len(l) : l[j] = l[q] => j = q

(* A page has its children once and no other.                              *)
LEMMA PageOnce ==
    ASSUME NEW X, NEW l \in Seq(X), Listing(l), NEW x, NEW size \in Nat, NEW q \in 3 .. Len(l)
    PROVE  IF StartIndex(l, x) < q /\ q <= PageEnd(l, x, size)
           THEN Once(Page(l, x, size), l[q]) ELSE Never(Page(l, x, size), l[q])
<1> DEFINE s == StartIndex(l, x)
           t == PageEnd(l, x, size)
           p == Page(l, x, size)
<1>1. /\ s \in 0 .. Len(l) /\ t \in s .. Len(l) /\ Len(p) = t - s
      /\ \A j \in 1 .. t - s : p[j] = l[s + j]
  BY PageIs
<1>2. Len(l) \in Nat
  OBVIOUS
<1> HIDE DEF s, t, p
<1>3. \A j \in 1 .. Len(p) : s + j \in 1 .. Len(l) /\ p[j] = l[s + j] /\ s < s + j /\ s + j <= t
  BY <1>1, <1>2
<1>4. \A j \in 1 .. Len(p) : p[j] = l[q] => s + j = q
  BY <1>3 DEF Listing
<1>5. CASE s < q /\ q <= t
  <2>1. q - s \in 1 .. Len(p) /\ s + (q - s) = q
    BY <1>1, <1>2, <1>5
  <2>2. p[q - s] = l[q]
    BY <1>3, <2>1
  <2>3. \A j \in 1 .. Len(p) : p[j] = l[q] => j = q - s
    BY <1>1, <1>2, <1>4
  <2> QED
    BY <1>5, <2>1, <2>2, <2>3 DEF Once, s, t, p
<1>6. CASE ~(s < q /\ q <= t)
  <2>1. Never(p, l[q])
    BY <1>3, <1>4, <1>6 DEF Never
  <2> QED
    BY <1>6, <2>1 DEF s, t, p
<1> QED
  BY <1>5, <1>6

(* The pages u so far have the children up to the entry pos, which is the  *)
(* last one, and none after it.                                            *)
ReadTo(u, l, pos) ==
    /\ pos \in 2 .. Len(l) /\ Len(u) # 0 /\ u[Len(u)] = l[pos]
    /\ \A q \in 3 .. Len(l) : IF q <= pos THEN Once(u, l[q]) ELSE Never(u, l[q])

LEMMA FirstPage ==
    ASSUME NEW X, NEW l \in Seq(X), Listing(l), NEW size \in Nat, 2 <= size
    PROVE  \E pos : ReadTo(<< >> \o Page(l, 0, size), l, pos)
<1> DEFINE t == PageEnd(l, 0, size)
           p == Page(l, 0, size)
<1>1. StartIndex(l, 0) = 0
  BY StartIndexFirst DEF Listing
<1>2. t \in 0 .. Len(l) /\ p \in Seq(X) /\ Len(p) = t - 0 /\ \A j \in 1 .. t - 0 : p[j] = l[0 + j]
  BY <1>1, PageIs
<1>3. Len(l) \in Nat /\ 2 <= Len(l)
  BY DEF Listing
<1>4. t \in 2 .. Len(l)
  BY <1>1, <1>3 DEF PageEnd
<1>5. \A q \in 3 .. Len(l) : IF q <= t THEN Once(p, l[q]) ELSE Never(p, l[q])
  <2> SUFFICES ASSUME NEW q \in 3 .. Len(l) PROVE IF q <= t THEN Once(p, l[q]) ELSE Never(p, l[q])
    OBVIOUS
  <2>1. 0 < q
    BY <1>3
  <2>2. IF StartIndex(l, 0) < q /\ q <= t THEN Once(p, l[q]) ELSE Never(p, l[q])
    BY PageOnce
  <2> QED
    BY <1>1, <2>1, <2>2
<1>6. << >> \o p = p
  BY <1>2, ConcatEmptySeq
<1> HIDE DEF t, p
<1>7. Len(p) = t /\ p[t] = l[t] /\ t # 0
  BY <1>2, <1>3, <1>4
<1>8. ReadTo(p, l, t)
  BY <1>4, <1>5, <1>7 DEF ReadTo
<1> QED
  BY <1>6, <1>8 DEF p

LEMMA NextPage ==
    ASSUME NEW X, NEW l \in Seq(X), Listing(l), NEW size \in Nat, 2 <= size,
           NEW u \in Seq(X), NEW pos, ReadTo(u, l, pos)
    PROVE  \E to : ReadTo(u \o Page(l, u[Len(u)], size), l, to) /\ (to = Len(l) \/ pos < to)
<1> DEFINE x == u[Len(u)]
           s == StartIndex(l, x)
           t == PageEnd(l, x, size)
           p == Page(l, x, size)
           c == u \o p
<1>1. Len(l) \in Nat /\ Len(u) \in Nat /\ Len(u) # 0 /\ pos \in 2 .. Len(l) /\ x = l[pos]
  BY DEF ReadTo
<1>2. pos \in 1 .. Len(l) /\ l[pos] = x
  BY <1>1
<1>3. s \in 1 .. Len(l) /\ l[s] = l[pos] /\ s <= pos
  BY <1>2, StartIndexFirst
<1>4. s = pos \/ (s = 1 /\ pos = 2)
  <2>1. CASE pos = 2
    BY <1>3, <2>1
  <2>2. CASE pos # 2
    <3>1. pos \in 3 .. Len(l)
      BY <1>1, <2>2
    <3> QED
      BY <1>3, <3>1 DEF Listing
  <2> QED
    BY <2>1, <2>2
<1>5. /\ t \in s .. Len(l) /\ p \in Seq(X) /\ Len(p) = t - s /\ \A j \in 1 .. t - s : p[j] = l[s + j]
  BY PageIs
<1>6. t = IF s + size < Len(l) THEN s + size ELSE Len(l)
  BY DEF PageEnd
<1>7. \A q \in 3 .. Len(l) : IF s < q /\ q <= t THEN Once(p, l[q]) ELSE Never(p, l[q])
  BY PageOnce
<1>8. /\ Len(c) = Len(u) + Len(p)
      /\ \A i \in 1 .. Len(u) + Len(p) : c[i] = IF i <= Len(u) THEN u[i] ELSE p[i - Len(u)]
  BY <1>5, ConcatProperties
<1>9. \A y : /\ Never(u, y) /\ Never(p, y) => Never(c, y)
             /\ Once(u, y) /\ Never(p, y) => Once(c, y)
             /\ Never(u, y) /\ Once(p, y) => Once(c, y)
  BY <1>5, ConcatOnce
<1>10. \A q \in 3 .. Len(l) : IF q <= pos THEN Once(u, l[q]) ELSE Never(u, l[q])
  BY DEF ReadTo
<1> HIDE DEF s, t, p, c
<1>11. t \in 2 .. Len(l) /\ (t = Len(l) \/ pos < t) /\ pos <= t
  BY <1>1, <1>3, <1>4, <1>6
<1>12. Len(c) # 0 /\ c[Len(c)] = l[t]
  <2>1. CASE t = s
    <3>1. pos = t
      BY <1>1, <1>3, <1>11, <2>1
    <3>2. Len(p) = 0
      BY <1>1, <1>5, <1>3, <2>1
    <3>3. Len(c) = Len(u) /\ Len(u) \in 1 .. Len(u) + Len(p)
      BY <1>1, <1>8, <3>2
    <3>4. c[Len(u)] = u[Len(u)]
      BY <1>1, <1>8, <3>3
    <3> QED
      BY <1>1, <3>1, <3>3, <3>4
  <2>2. CASE t # s
    <3>1. Len(p) \in Nat /\ Len(p) \in 1 .. t - s /\ s + Len(p) = t
      BY <1>1, <1>3, <1>5, <2>2
    <3>2. Len(u) + Len(p) \in 1 .. Len(u) + Len(p) /\ (Len(u) + Len(p)) - Len(u) = Len(p)
          /\ ~(Len(u) + Len(p) <= Len(u)) /\ Len(u) + Len(p) # 0
      BY <1>1, <3>1
    <3>3. c[Len(c)] = p[Len(p)]
      BY <1>8, <3>2
    <3> QED
      BY <1>5, <1>8, <3>1, <3>2, <3>3
  <2> QED
    BY <2>1, <2>2
<1>13. ASSUME NEW q \in 3 .. Len(l) PROVE IF q <= t THEN Once(c, l[q]) ELSE Never(c, l[q])
  <2>1. CASE q <= pos
    <3>1. ~(s < q) /\ q <= t
      BY <1>1, <1>3, <1>4, <1>11, <2>1
    <3> QED
      BY <1>7, <1>9, <1>10, <2>1, <3>1
  <2>2. CASE ~(q <= pos)
    <3>1. s < q
      BY <1>1, <1>3, <2>2
    <3> QED
      BY <1>7, <1>9, <1>10, <2>2, <3>1
  <2> QED
    BY <2>1, <2>2
<1>14. ReadTo(c, l, t)
  BY <1>11, <1>12, <1>13 DEF ReadTo
<1> QED
  BY <1>11, <1>14 DEF c, p

(* One more page.                                                          *)
Further(l, size, k, u) == u \o Page(l, IF k = 1 THEN 0 ELSE Last(u), size)

LEMMA FurtherSeq ==
    ASSUME NEW X, NEW l \in Seq(X), NEW size \in Nat, NEW k, NEW u \in Seq(X)
    PROVE  Further(l, size, k, u) \in Seq(X)
<1>1. Page(l, IF k = 1 THEN 0 ELSE Last(u), size) \in Seq(X)
  BY PageIs
<1> HIDE DEF Page
<1> QED
  BY <1>1, ConcatProperties DEF Further

(* The pages are what their recursive definition says.                     *)
PagesBy(h, l, size, n) == /\ Pages(l, size, n) = h[n] /\ h[0] = << >>
                          /\ \A k \in 1 .. n : h[k] = Further(l, size, k, h[k - 1])

LEMMA PagesAre ==
    ASSUME NEW X, NEW l \in Seq(X), NEW size \in Nat, NEW n \in Nat
    PROVE  \E h : PagesBy(h, l, size, n)
<1> DEFINE g == [k \in 1 .. n |-> [u \in Seq(X) |-> Further(l, size, k, u)]]
           h == CHOOSE h : h = [k \in 0 .. n |-> IF k = 0 THEN << >>
                                                 ELSE h[k - 1] \o Page(l, IF k = 1 THEN 0 ELSE Last(h[k - 1]), size)]
<1>1. g \in [1 .. n -> [Seq(X) -> Seq(X)]]
  BY FurtherSeq
<1>2. << >> \in Seq(X)
  OBVIOUS
<1>13. PICK f : Steps(f, n, Seq(X), << >>, g)
  <2> HIDE DEF g, h
  <2> QED
    BY <1>1, <1>2, StepsExist
<1>3. /\ f \in [0 .. n -> Seq(X)] /\ f[0] = << >> /\ \A k \in 1 .. n : f[k] = g[k][f[k - 1]]
  BY <1>13 DEF Steps
<1>4. ASSUME NEW k \in 1 .. n PROVE f[k] = Further(l, size, k, f[k - 1])
  <2>1. k - 1 \in 0 .. n
    OBVIOUS
  <2>2. f[k - 1] \in Seq(X)
    BY <1>3, <2>1
  <2> QED
    BY <1>3, <2>2
<1>5. \A k \in 0 .. n : k = 0 \/ k \in 1 .. n
  OBVIOUS
<1>6. \A k \in 0 .. n : f[k] = IF k = 0 THEN << >>
                               ELSE f[k - 1] \o Page(l, IF k = 1 THEN 0 ELSE Last(f[k - 1]), size)
  BY <1>3, <1>4, <1>5, Zenon DEF Further
<1>7. f = [k \in 0 .. n |-> IF k = 0 THEN << >>
                            ELSE f[k - 1] \o Page(l, IF k = 1 THEN 0 ELSE Last(f[k - 1]), size)]
  BY <1>3, <1>6, Zenon
<1>8. \E e : e = [k \in 0 .. n |-> IF k = 0 THEN << >>
                                  ELSE e[k - 1] \o Page(l, IF k = 1 THEN 0 ELSE Last(e[k - 1]), size)]
  BY <1>7, Zenon
<1>9. h = [k \in 0 .. n |-> IF k = 0 THEN << >>
                            ELSE h[k - 1] \o Page(l, IF k = 1 THEN 0 ELSE Last(h[k - 1]), size)]
  BY <1>8, Zenon
<1>10. Pages(l, size, n) = h[n]
  BY Zenon DEF Pages
<1> HIDE DEF h
<1>11. 0 \in 0 .. n /\ \A k \in 1 .. n : k \in 0 .. n /\ k # 0
  OBVIOUS
<1>12. h[0] = << >> /\ \A k \in 1 .. n : h[k] = Further(l, size, k, h[k - 1])
  BY <1>9, <1>11, Zenon DEF Further
<1> QED
  BY <1>10, <1>12 DEF PagesBy

(* Pages of two entries or more give every child of a listing once.        *)
LEMMA PagesOnce ==
    ASSUME NEW X, NEW l \in Seq(X), Listing(l), NEW size \in Nat, 2 <= size
    PROVE  ListsOnce(l, size)
<1>13. PICK n : n = Len(l) - 1
  OBVIOUS
<1>0. Len(l) \in Nat /\ 2 <= Len(l) /\ n \in Nat /\ 1 <= n /\ n = Len(l) - 1
  BY <1>13 DEF Listing
<1>14. PICK h : PagesBy(h, l, size, n)
  BY <1>0, PagesAre
<1>1. /\ Pages(l, size, n) = h[n] /\ h[0] = << >>
      /\ \A k \in 1 .. n : h[k] = Further(l, size, k, h[k - 1])
  BY <1>14 DEF PagesBy
<1> DEFINE P(k) == h[k] \in Seq(X) /\ \E pos : ReadTo(h[k], l, pos) /\ (pos = Len(l) \/ k < pos)
           Bad == {k \in 1 .. n : ~P(k)}
<1>2. P(1)
  <2>1. << >> \in Seq(X) /\ 1 \in 1 .. n /\ 1 - 1 = 0
    BY <1>0
  <2>2. h[1] = << >> \o Page(l, 0, size)
    BY <1>1, <2>1 DEF Further
  <2>3. h[1] \in Seq(X)
    <3>1. Page(l, 0, size) \in Seq(X)
      BY PageIs
    <3> QED
      BY <2>1, <2>2, <3>1, ConcatProperties
  <2>4. PICK pos : ReadTo(h[1], l, pos)
    BY <2>2, FirstPage
  <2>5. 1 < pos
    BY <1>0, <2>4 DEF ReadTo
  <2> QED
    BY <2>3, <2>4, <2>5
<1>3. ASSUME NEW k \in 1 .. n, k + 1 \in 1 .. n, P(k) PROVE P(k + 1)
  <2>1. PICK pos : ReadTo(h[k], l, pos) /\ (pos = Len(l) \/ k < pos)
    BY <1>3
  <2>2. (k + 1) - 1 = k /\ k + 1 # 1
    BY <1>0
  <2>3. h[k + 1] = h[k] \o Page(l, Last(h[k]), size)
    BY <1>1, <1>3, <2>2 DEF Further
  <2>4. h[k + 1] \in Seq(X)
    BY <1>1, <1>3, <2>2, FurtherSeq
  <2>5. PICK to : /\ ReadTo(h[k] \o Page(l, h[k][Len(h[k])], size), l, to)
                  /\ (to = Len(l) \/ pos < to)
    BY <1>3, <2>1, NextPage
  <2>6. ReadTo(h[k + 1], l, to)
    BY <2>3, <2>5 DEF Last
  <2>7. pos \in Nat /\ to \in Nat /\ to <= Len(l) /\ pos <= Len(l)
    BY <1>0, <2>1, <2>6 DEF ReadTo
  <2>8. to = Len(l) \/ k + 1 < to
    BY <1>0, <2>1, <2>5, <2>7
  <2> QED
    BY <2>4, <2>6, <2>8
<1> HIDE DEF P
<1>4. Bad = {}
  <2> SUFFICES ASSUME Bad # {} PROVE FALSE
    OBVIOUS
  <2>1. Bad \in SUBSET Nat
    OBVIOUS
  <2>2. PICK b \in Bad : \A y \in Bad : b <= y
    BY <2>1, LeastNatural
  <2>3. b \in 2 .. n /\ ~P(b)
    BY <1>2, <2>2
  <2>4. b - 1 \in 1 .. n /\ ~(b <= b - 1) /\ (b - 1) + 1 = b
    BY <1>0, <2>3
  <2>5. P(b - 1)
    BY <2>2, <2>4
  <2> QED
    BY <1>3, <2>3, <2>4, <2>5
<1>5. n \in 1 .. n
  BY <1>0
<1>6. P(n)
  BY <1>4, <1>5
<1>7. PICK pos : ReadTo(h[n], l, pos) /\ (pos = Len(l) \/ n < pos)
  BY <1>6 DEF P
<1>8. pos = Len(l)
  BY <1>0, <1>7 DEF ReadTo
<1> DEFINE got == Pages(l, size, Len(l) - 1)
<1>9. got \in Seq(X) /\ \A q \in 3 .. Len(l) : Once(got, l[q])
  BY <1>0, <1>1, <1>6, <1>7, <1>8 DEF ReadTo, P
<1> HIDE DEF got
<1>10. ASSUME NEW q \in 3 .. Len(l) PROVE Cardinality({j \in DOMAIN got : got[j] = l[q]}) = 1
  <2>1. DOMAIN got = 1 .. Len(got)
    BY <1>9
  <2>2. PICK j \in 1 .. Len(got) : got[j] = l[q] /\ \A i \in 1 .. Len(got) : got[i] = l[q] => i = j
    BY <1>9 DEF Once
  <2>3. {i \in DOMAIN got : got[i] = l[q]} = {j}
    BY <2>1, <2>2
  <2> QED
    BY <2>3, FS_Singleton
<1> QED
  BY <1>10 DEF ListsOnce, got

(* A child is neither its directory nor the parent of that.                *)
LEMMA ChildApart ==
    ASSUME NEW N, NEW K, Rooted(N, K), KidsAgree(N, K), NEW d \in DOMAIN K, d \in DOMAIN N,
           NEW i \in K[d]
    PROVE  i \in DOMAIN N /\ i # d /\ i # N[d].up
<1>1. i \in DOMAIN N /\ N[i].up = d /\ i # Root
  BY DEF KidsAgree, Rooted
<1>2. i # d
  <2> SUFFICES ASSUME i = d PROVE FALSE
    OBVIOUS
  <2>1. {d} \in SUBSET (DOMAIN N \ {Root})
    BY <1>1
  <2> QED
    BY <1>1, <2>1 DEF Rooted, Grounded
<1>3. i # N[d].up
  <2> SUFFICES ASSUME i = N[d].up PROVE FALSE
    OBVIOUS
  <2>1. d # Root
    BY <1>1 DEF Rooted
  <2>2. {i, d} \in SUBSET (DOMAIN N \ {Root})
    BY <1>1, <2>1
  <2> QED
    BY <1>1, <2>2 DEF Rooted, Grounded
<1> QED
  BY <1>1, <1>2, <1>3

LEMMA ListingsOK ==
    ASSUME NEW U, NEW v, TablesOK(v, U), RootedVfs(v), NEW s, NEW d \in DOMAIN v.kids,
           NEW l \in Listings(v, s, d)
    PROVE  l \in Seq(Nat) /\ Listing(l)
<1> DEFINE C == Children(v, s, d)
           N == v.node
           p == <<d, N[d].up>>
<1>1. /\ d \in DOMAIN N /\ DOMAIN N \subseteq Nat /\ v.next \in Nat /\ \A i \in DOMAIN N : i < v.next
      /\ KidsAgree(N, v.kids) /\ Rooted(N, v.kids) /\ N[d].up \in DOMAIN N /\ 0 \notin DOMAIN N
  BY DEF TablesOK, Together, Typed, RootedVfs, Rooted
<1>2. \A i \in C : i \in v.kids[d]
  BY DEF Children, Populate
<1>3. \A i \in C : i \in DOMAIN N /\ i # d /\ i # N[d].up
  BY <1>1, <1>2, ChildApart
<1>4. PICK c \in SetToSeqs(C) : l = p \o c
  BY DEF Listings
<1> HIDE DEF C, N
<1>5. Cardinality(C) \in Nat
  <2>1. C \in SUBSET (0 .. v.next)
    BY <1>1, <1>3
  <2>2. IsFiniteSet(0 .. v.next)
    <3>1. 0 \in Int /\ v.next \in Int
      BY <1>1
    <3> QED
      BY <3>1, FS_Interval
  <2>3. IsFiniteSet(C)
    BY <2>1, <2>2, FS_Subset
  <2> QED
    BY <2>3, FS_CardinalityType
<1>6. PICK n \in Nat : n = Cardinality(C)
  BY <1>5
<1>7. c \in [1 .. n -> C] /\ \A i, j \in 1 .. n : i # j => c[i] # c[j]
  BY <1>4, <1>6 DEF SetToSeqs
<1>8. c \in Seq(Nat) /\ Len(c) = n
  BY <1>1, <1>3, <1>7
<1>9. p \in Seq(Nat) /\ Len(p) = 2 /\ p[1] = d /\ p[2] = N[d].up
  BY <1>1
<1> HIDE DEF p
<1>10. /\ l \in Seq(Nat) /\ Len(l) = 2 + n
       /\ \A i \in 1 .. 2 + n : l[i] = IF i <= 2 THEN p[i] ELSE c[i - 2]
  <2>1. /\ p \o c \in Seq(Nat) /\ Len(p \o c) = Len(p) + Len(c)
        /\ \A i \in 1 .. Len(p) + Len(c) : (p \o c)[i] = IF i <= Len(p) THEN p[i] ELSE c[i - Len(p)]
    BY <1>8, <1>9, ConcatProperties
  <2> QED
    BY <1>4, <1>8, <1>9, <2>1, Zenon
<1>11. \A j \in 1 .. 2 + n : j = 1 \/ j = 2 \/ (j - 2 \in 1 .. n /\ ~(j <= 2))
  BY <1>6
<1>12. /\ 1 \in 1 .. 2 + n /\ 2 \in 1 .. 2 + n /\ l[1] = d /\ l[2] = N[d].up
       /\ \A j \in 1 .. 2 + n : j - 2 \in 1 .. n /\ ~(j <= 2) => l[j] = c[j - 2] /\ l[j] \in C
  BY <1>6, <1>7, <1>9, <1>10
<1>13. \A j \in 1 .. Len(l) : l[j] # 0
  BY <1>1, <1>3, <1>10, <1>11, <1>12
<1>14. ASSUME NEW q \in 3 .. Len(l), NEW j \in 1 .. Len(l), l[j] = l[q] PROVE j = q
  <2>1. q \in 1 .. 2 + n /\ q - 2 \in 1 .. n /\ ~(q <= 2) /\ j \in 1 .. 2 + n
    BY <1>6, <1>10
  <2>2. l[q] = c[q - 2] /\ l[q] \in C
    BY <1>12, <2>1
  <2>3. j # 1 /\ j # 2
    BY <1>3, <1>12, <1>14, <2>2
  <2>4. j - 2 \in 1 .. n /\ l[j] = c[j - 2]
    BY <1>11, <1>12, <2>1, <2>3
  <2>5. j - 2 = q - 2
    BY <1>7, <1>14, <2>1, <2>2, <2>4
  <2> QED
    BY <2>1, <2>5
<1>15. 2 <= Len(l)
  BY <1>6, <1>10
<1> QED
  BY <1>10, <1>13, <1>14, <1>15 DEF Listing

LEMMA TreeListed ==
    ASSUME NEW U, TablesOK(live, U), RootedVfs(live)
    PROVE  ReaddirComplete
<1> SUFFICES ASSUME NEW d \in DOMAIN live.kids, NEW size \in PageSizes,
                    NEW l \in Listings(live, stg, d)
             PROVE  ListsOnce(l, size)
  BY DEF ReaddirComplete
<1>1. l \in Seq(Nat) /\ Listing(l)
  BY ListingsOK
<1>2. size \in Nat /\ 2 <= size
  BY ConstantsAssumption
<1> QED
  BY <1>1, <1>2, PagesOnce

(* Reading a directory page by page gives every child once                 *)
(* (ReaddirComplete), for every directory of every state, every order of   *)
(* its entries and every page of two entries or more, under the same       *)
(* assumptions: a page is named by an inode, and no child has that of "."  *)
(* or ".." as long as the tree has no loop.                                *)
THEOREM EveryChildListedOnce ==
    ASSUME NEW CONSTANT U, GitObjects(U), Careful = TRUE
    PROVE  Spec /\ [](base \in U) => []ReaddirComplete
<1> DEFINE Inv == TablesOK(live, U) /\ RootedVfs(live)
<1>1. Init /\ base \in U => Inv
  BY NewVfsOK, NewVfsRooted DEF Init
<1>2. Inv /\ [Next]_vars /\ (base \in U)' => Inv'
  BY StepOK, StepRooted
<1>3. Inv => ReaddirComplete
  BY TreeListed
<1> QED
  BY <1>1, <1>2, <1>3, PTL DEF Spec
=============================================================================
