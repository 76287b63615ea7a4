------------------------------ MODULE VfsProofs ------------------------------
(***************************************************************************)
(* Theorems about the served file tree: the inode tables of VfsManager     *)
(* stay in step through every interleaving of handlers, commits and boots, *)
(* for any repository and for clients that check nothing.                  *)
(***************************************************************************)
EXTENDS VfsCommit, TLAPS, WellFoundedInduction

(* A non-empty set of naturals has a least element.                        *)
LEMMA LeastNatural ==
    ASSUME NEW T \in SUBSET Nat, T # {} PROVE \E x \in T : \A y \in T : x <= y
<1> DEFINE R == OpToRel(<, Nat)
<1>1. IsWellFoundedOn(R, Nat)
  BY NatLessThanWellFounded
<1>2. \A x, y \in Nat : y < x => <<y, x>> \in R
  BY DEF OpToRel
<1> HIDE DEF R
<1>3. PICK x \in T : \A y \in T : ~ (<<y, x>> \in R)
  BY <1>1, WFMin
<1>4. \A y \in T : ~ (y < x) /\ y \in Nat /\ x \in Nat
  BY <1>2, <1>3
<1>5. \A y \in T : x <= y
  BY <1>4
<1> QED
  BY <1>5

(* One that is bounded has a greatest.                                     *)
LEMMA GreatestNatural ==
    ASSUME NEW n \in Nat, NEW T \in SUBSET (1 .. n), T # {} PROVE \E x \in T : \A y \in T : y <= x
<1> DEFINE D == {z \in Nat : n - z \in T}
<1>1. \A y \in T : y \in Nat /\ n - y \in Nat /\ n - (n - y) = y
  <2>1. \A y \in T : y \in 1 .. n
    OBVIOUS
  <2> QED
    BY <2>1
<1>2. D \in SUBSET Nat /\ D # {}
  BY <1>1
<1>3. PICK z \in D : \A y \in D : z <= y
  BY <1>2, LeastNatural
<1> DEFINE x == n - z
<1>4. x \in T /\ x \in Nat /\ z \in Nat /\ \A y \in T : z <= n - y
  BY <1>1, <1>3
<1>5. \A y \in T : y <= x
  BY <1>1, <1>4
<1> QED
  BY <1>4, <1>5

-----------------------------------------------------------------------------
(* The tables, as four functions.                                          *)

(* U is a set of Git objects: what a tree of U names is in U, and has a    *)
(* name (0 stands for the empty one).                                      *)
GitObjects(U) == /\ NoOid \in U
                 /\ \A o \in U : o.t = "tree" =>
                       o.e \in Seq([n : Nat, o : U]) /\ \A k \in DOMAIN o.e : o.e[k].n # 0

NodeRecord(U) == [up : Nat, nm : Nat, o : U, dir : BOOLEAN, gone : BOOLEAN]

(* Types of node table N, name map M, children K and next inode nx.        *)
Typed(N, M, K, nx, U) ==
    /\ nx \in Nat /\ DOMAIN N \subseteq Nat /\ N \in [DOMAIN N -> NodeRecord(U)]
    /\ DOMAIN M \subseteq Nat \X Nat /\ M \in [DOMAIN M -> Nat]
    /\ DOMAIN K \subseteq DOMAIN N /\ K \in [DOMAIN K -> SUBSET Nat]

NamesAgree(N, M, K) ==
    \A x \in DOMAIN M : /\ M[x] \in DOMAIN N /\ N[M[x]].up = x[1] /\ N[M[x]].nm = x[2]
                        /\ x[1] \in DOMAIN K /\ M[x] \in K[x[1]]

KidsAgree(N, K) == \A d \in DOMAIN K : \A i \in K[d] : i \in DOMAIN N /\ N[i].up = d

Together(N, M, K, nx, U) ==
    /\ Typed(N, M, K, nx, U) /\ NamesAgree(N, M, K) /\ KidsAgree(N, K)
    /\ \A i \in DOMAIN N : i < nx

(* A name has one node: two names of one node are one name.                *)
LEMMA OneName ==
    ASSUME NEW U, NEW N, NEW M, NEW K, NEW nx, Together(N, M, K, nx, U),
           NEW x \in DOMAIN M, NEW y \in DOMAIN M, M[x] = M[y]
    PROVE  x = y
<1>1. x \in Nat \X Nat /\ y \in Nat \X Nat /\ x[1] = y[1] /\ x[2] = y[2]
  BY DEF Together, Typed, NamesAgree
<1> QED
  BY <1>1

(* A change of object or deletion mark leaves the tables in step.          *)
LEMMA SameNames ==
    ASSUME NEW U, NEW N, NEW M, NEW K, NEW nx, Together(N, M, K, nx, U),
           NEW N2 \in [DOMAIN N -> NodeRecord(U)],
           \A i \in DOMAIN N : N2[i].up = N[i].up /\ N2[i].nm = N[i].nm
    PROVE  Together(N2, M, K, nx, U)
<1>1. DOMAIN N2 = DOMAIN N
  OBVIOUS
<1>2. Typed(N2, M, K, nx, U)
  BY <1>1 DEF Together, Typed
<1>3. NamesAgree(N2, M, K)
  BY <1>1 DEF Together, NamesAgree
<1>4. KidsAgree(N2, K)
  BY <1>1 DEF Together, KidsAgree
<1> QED
  BY <1>1, <1>2, <1>3, <1>4 DEF Together

(* A new node, named n in directory d; K2 may have an entry for it.        *)
LEMMA AddTogether ==
    ASSUME NEW U, NEW N, NEW M, NEW K, NEW nx, Together(N, M, K, nx, U),
           NEW d \in DOMAIN K, NEW n \in Nat,
           NEW r \in NodeRecord(U), r.up = d, r.nm = n,
           NEW K2, K2 \in [DOMAIN K2 -> SUBSET Nat],
           DOMAIN K \subseteq DOMAIN K2, DOMAIN K2 \subseteq DOMAIN K \cup {nx},
           \A c \in DOMAIN K2 : K2[c] = IF c = d THEN K[d] \cup {nx}
                                        ELSE IF c \in DOMAIN K THEN K[c] ELSE {}
    PROVE  Together(Put(N, nx, r), Put(M, <<d, n>>, nx), K2, nx + 1, U)
<1> DEFINE N2 == Put(N, nx, r)
           M2 == Put(M, <<d, n>>, nx)
<1>1. nx \in Nat /\ nx \notin DOMAIN N /\ DOMAIN N \subseteq Nat /\ d \in DOMAIN N /\ d \in Nat
  BY DEF Together, Typed
<1>2. /\ DOMAIN N2 = DOMAIN N \cup {nx} /\ N2[nx] = r
      /\ \A i \in DOMAIN N : N2[i] = N[i]
      /\ N2 \in [DOMAIN N2 -> NodeRecord(U)]
  BY <1>1 DEF Put, Together, Typed
<1>3. /\ DOMAIN M2 = DOMAIN M \cup {<<d, n>>} /\ M2[<<d, n>>] = nx
      /\ \A x \in DOMAIN M : x # <<d, n>> => M2[x] = M[x]
      /\ M2 \in [DOMAIN M2 -> Nat]
  BY <1>1 DEF Put, Together, Typed
<1> HIDE DEF N2, M2
<1>4. Typed(N2, M2, K2, nx + 1, U)
  BY <1>1, <1>2, <1>3 DEF Together, Typed
<1>5. NamesAgree(N2, M2, K2)
  <2> SUFFICES ASSUME NEW x \in DOMAIN M2
               PROVE  /\ M2[x] \in DOMAIN N2 /\ N2[M2[x]].up = x[1] /\ N2[M2[x]].nm = x[2]
                      /\ x[1] \in DOMAIN K2 /\ M2[x] \in K2[x[1]]
    BY DEF NamesAgree
  <2>1. CASE x = <<d, n>>
    BY <1>2, <1>3, <2>1
  <2>2. CASE x # <<d, n>>
    <3>1. /\ x \in DOMAIN M /\ M2[x] = M[x] /\ M[x] \in DOMAIN N /\ N[M[x]].up = x[1]
          /\ N[M[x]].nm = x[2] /\ x[1] \in DOMAIN K /\ M[x] \in K[x[1]]
      BY <1>3, <2>2 DEF Together, NamesAgree
    <3> QED
      BY <1>2, <3>1
  <2> QED
    BY <2>1, <2>2
<1>6. KidsAgree(N2, K2)
  <2> SUFFICES ASSUME NEW c \in DOMAIN K2, NEW i \in K2[c] PROVE i \in DOMAIN N2 /\ N2[i].up = c
    BY DEF KidsAgree
  <2>1. CASE i = nx /\ c = d
    BY <1>2, <2>1
  <2>2. CASE ~(i = nx /\ c = d)
    <3>1. c \in DOMAIN K /\ i \in K[c]
      BY <2>2
    <3> QED
      BY <1>2, <3>1 DEF Together, KidsAgree
  <2> QED
    BY <2>1, <2>2
<1>7. \A i \in DOMAIN N2 : i < nx + 1
  BY <1>1, <1>2 DEF Together
<1> QED
  BY <1>4, <1>5, <1>6, <1>7 DEF Together, N2, M2

(* Name n of directory d, node i, is taken out.                            *)
LEMMA DropTogether ==
    ASSUME NEW U, NEW N, NEW M, NEW K, NEW nx, Together(N, M, K, nx, U),
           NEW d \in Nat, NEW n \in Nat, <<d, n>> \in DOMAIN M, NEW i, i = M[<<d, n>>]
    PROVE  /\ i \in DOMAIN N /\ N[i].up = d /\ N[i].nm = n /\ d \in DOMAIN K /\ i \in K[d]
           /\ \A x \in DOMAIN M : M[x] = i => x = <<d, n>>
           /\ Together(N, Drop(M, <<d, n>>), [K EXCEPT ![d] = @ \ {i}], nx, U)
<1> DEFINE M2 == Drop(M, <<d, n>>)
           K2 == [K EXCEPT ![d] = @ \ {i}]
<1>1. i \in DOMAIN N /\ N[i].up = d /\ N[i].nm = n /\ d \in DOMAIN K /\ i \in K[d]
  BY DEF Together, NamesAgree
<1>2. \A x \in DOMAIN M : M[x] = i => x = <<d, n>>
  BY OneName
<1>3. /\ DOMAIN M2 = DOMAIN M \ {<<d, n>>} /\ \A x \in DOMAIN M2 : M2[x] = M[x]
      /\ M2 \in [DOMAIN M2 -> Nat]
  BY DEF Drop, Together, Typed
<1>4. /\ DOMAIN K2 = DOMAIN K /\ \A c \in DOMAIN K : K2[c] = IF c = d THEN K[d] \ {i} ELSE K[c]
      /\ K2 \in [DOMAIN K2 -> SUBSET Nat]
  BY <1>1 DEF Together, Typed
<1> HIDE DEF M2, K2
<1>5. Typed(N, M2, K2, nx, U)
  BY <1>3, <1>4 DEF Together, Typed
<1>6. NamesAgree(N, M2, K2)
  <2> SUFFICES ASSUME NEW x \in DOMAIN M2
               PROVE  /\ M2[x] \in DOMAIN N /\ N[M2[x]].up = x[1] /\ N[M2[x]].nm = x[2]
                      /\ x[1] \in DOMAIN K2 /\ M2[x] \in K2[x[1]]
    BY DEF NamesAgree
  <2>1. /\ x \in DOMAIN M /\ M2[x] = M[x] /\ M[x] # i /\ M[x] \in DOMAIN N /\ N[M[x]].up = x[1]
        /\ N[M[x]].nm = x[2] /\ x[1] \in DOMAIN K /\ M[x] \in K[x[1]]
    BY <1>2, <1>3 DEF Together, NamesAgree
  <2> QED
    BY <1>4, <2>1
<1>7. KidsAgree(N, K2)
  BY <1>4 DEF Together, KidsAgree
<1> QED
  BY <1>1, <1>2, <1>5, <1>6, <1>7 DEF Together, M2, K2

(* A node that no table names becomes name m of directory e.               *)
LEMMA HangTogether ==
    ASSUME NEW U, NEW N, NEW M, NEW K, NEW nx, Together(N, M, K, nx, U),
           NEW e \in DOMAIN K, NEW m \in Nat, NEW i \in DOMAIN N,
           \A x \in DOMAIN M : M[x] # i, \A c \in DOMAIN K : i \notin K[c],
           NEW N2 \in [DOMAIN N -> NodeRecord(U)], N2[i].up = e, N2[i].nm = m,
           \A j \in DOMAIN N : j # i => N2[j] = N[j]
    PROVE  Together(N2, Put(M, <<e, m>>, i), [K EXCEPT ![e] = @ \cup {i}], nx, U)
<1> DEFINE M2 == Put(M, <<e, m>>, i)
           K2 == [K EXCEPT ![e] = @ \cup {i}]
<1>1. DOMAIN N2 = DOMAIN N /\ e \in Nat /\ i \in Nat
  BY DEF Together, Typed
<1>2. /\ DOMAIN M2 = DOMAIN M \cup {<<e, m>>} /\ M2[<<e, m>>] = i
      /\ \A x \in DOMAIN M : x # <<e, m>> => M2[x] = M[x]
      /\ M2 \in [DOMAIN M2 -> Nat]
  BY <1>1 DEF Put, Together, Typed
<1>3. /\ DOMAIN K2 = DOMAIN K /\ \A c \in DOMAIN K : K2[c] = IF c = e THEN K[e] \cup {i} ELSE K[c]
      /\ K2 \in [DOMAIN K2 -> SUBSET Nat]
  BY <1>1 DEF Together, Typed
<1> HIDE DEF M2, K2
<1>4. Typed(N2, M2, K2, nx, U)
  BY <1>1, <1>2, <1>3 DEF Together, Typed
<1>5. NamesAgree(N2, M2, K2)
  <2> SUFFICES ASSUME NEW x \in DOMAIN M2
               PROVE  /\ M2[x] \in DOMAIN N2 /\ N2[M2[x]].up = x[1] /\ N2[M2[x]].nm = x[2]
                      /\ x[1] \in DOMAIN K2 /\ M2[x] \in K2[x[1]]
    BY DEF NamesAgree
  <2>1. CASE x = <<e, m>>
    BY <1>1, <1>2, <1>3, <2>1
  <2>2. CASE x # <<e, m>>
    <3>1. /\ x \in DOMAIN M /\ M2[x] = M[x] /\ M[x] # i /\ M[x] \in DOMAIN N /\ N[M[x]].up = x[1]
          /\ N[M[x]].nm = x[2] /\ x[1] \in DOMAIN K /\ M[x] \in K[x[1]]
      BY <1>2, <2>2 DEF Together, NamesAgree
    <3> QED
      BY <1>1, <1>3, <3>1
  <2> QED
    BY <2>1, <2>2
<1>6. KidsAgree(N2, K2)
  <2> SUFFICES ASSUME NEW c \in DOMAIN K2, NEW j \in K2[c] PROVE j \in DOMAIN N2 /\ N2[j].up = c
    BY DEF KidsAgree
  <2>1. CASE j = i
    BY <1>1, <1>3, <2>1
  <2>2. CASE j # i
    <3>1. c \in DOMAIN K /\ j \in K[c]
      BY <1>3, <2>2
    <3>2. j \in DOMAIN N /\ N[j].up = c
      BY <3>1 DEF Together, KidsAgree
    <3> QED
      BY <1>1, <2>2, <3>2
  <2> QED
    BY <2>1, <2>2
<1> QED
  BY <1>1, <1>4, <1>5, <1>6 DEF Together, M2, K2

-----------------------------------------------------------------------------
(* The methods of VfsManager.                                              *)

TablesOK(v, U) ==
    /\ v = [node |-> v.node, map |-> v.map, kids |-> v.kids, next |-> v.next]
    /\ Together(v.node, v.map, v.kids, v.next, U)

LEMMA NewVfsOK ==
    ASSUME NEW U, NEW o \in U PROVE TablesOK(NewVfs(o), U)
<1> DEFINE v == NewVfs(o)
<1>1. v = [node |-> v.node, map |-> v.map, kids |-> v.kids, next |-> v.next]
  BY DEF NewVfs
<1>2. /\ DOMAIN v.node = {1} /\ v.node[1] \in NodeRecord(U) /\ v.node \in [{1} -> NodeRecord(U)]
      /\ DOMAIN v.map = {} /\ v.map \in [{} -> Nat] /\ DOMAIN v.kids = {}
      /\ v.kids \in [{} -> SUBSET Nat] /\ v.next = 2
  BY DEF NewVfs, Node, NodeRecord, Root
<1> HIDE DEF v
<1>3. Together(v.node, v.map, v.kids, v.next, U)
  BY <1>2 DEF Together, Typed, NamesAgree, KidsAgree
<1> QED
  BY <1>1, <1>3 DEF TablesOK, v

LEMMA NamedNode ==
    ASSUME NEW U, NEW d \in Nat, NEW n \in Nat, NEW o \in U, NEW dir \in BOOLEAN
    PROVE  /\ Node(d, n, o, dir) \in NodeRecord(U)
           /\ Node(d, n, o, dir).up = d /\ Node(d, n, o, dir).nm = n
  BY DEF Node, NodeRecord

LEMMA NewNode ==
    ASSUME NEW U, GitObjects(U), NEW d \in Nat, NEW n \in Nat, NEW dir \in BOOLEAN
    PROVE  /\ Node(d, n, NoOid, dir) \in NodeRecord(U)
           /\ Node(d, n, NoOid, dir).up = d /\ Node(d, n, NoOid, dir).nm = n
  BY DEF Node, NodeRecord, GitObjects

LEMMA ChildMapped ==
    ASSUME NEW v, NEW U, TablesOK(v, U), NEW d, NEW n, Child(v, d, n) # 0
    PROVE  /\ <<d, n>> \in DOMAIN v.map /\ Child(v, d, n) = v.map[<<d, n>>]
           /\ Child(v, d, n) \in DOMAIN v.node
  BY DEF Child, TablesOK, Together, NamesAgree

(* New values for some of the tables.                                      *)
LEMMA SetTables ==
    ASSUME NEW v, NEW U, TablesOK(v, U), NEW N2, NEW M2, NEW K2
    PROVE  /\ [v EXCEPT !.node = N2] = [node |-> N2, map |-> v.map, kids |-> v.kids, next |-> v.next]
           /\ [v EXCEPT !.node = N2, !.map = M2, !.kids = K2]
                  = [node |-> N2, map |-> M2, kids |-> K2, next |-> v.next]
           /\ [v EXCEPT !.node = N2, !.kids = K2, !.map = M2]
                  = [node |-> N2, map |-> M2, kids |-> K2, next |-> v.next]
<1>1. v \in [node : {v.node}, map : {v.map}, kids : {v.kids}, next : {v.next}]
  BY DEF TablesOK
<1>2. [v EXCEPT !.node = N2] = [node |-> N2, map |-> v.map, kids |-> v.kids, next |-> v.next]
  BY <1>1
<1> DEFINE T == [node : {N2}, map : {M2}, kids : {K2}, next : {v.next}]
<1>3. [v EXCEPT !.node = N2, !.map = M2, !.kids = K2] \in T
  BY <1>1
<1>4. [v EXCEPT !.node = N2, !.kids = K2, !.map = M2] \in T
  BY <1>1
<1>5. \A r \in T : r = [node |-> N2, map |-> M2, kids |-> K2, next |-> v.next]
  OBVIOUS
<1> HIDE DEF T
<1> QED
  BY <1>2, <1>3, <1>4, <1>5

(* The deletion mark of one node.                                          *)
LEMMA MarkOK ==
    ASSUME NEW v, NEW U, TablesOK(v, U), NEW i \in DOMAIN v.node, NEW b \in BOOLEAN
    PROVE  LET N2 == [v.node EXCEPT ![i] = [v.node[i] EXCEPT !.gone = b]]
           IN  /\ N2 \in [DOMAIN v.node -> NodeRecord(U)]
               /\ \A j \in DOMAIN v.node : N2[j].up = v.node[j].up /\ N2[j].nm = v.node[j].nm
               /\ Together(N2, v.map, v.kids, v.next, U)
<1> DEFINE r == [v.node[i] EXCEPT !.gone = b]
           N2 == [v.node EXCEPT ![i] = r]
<1>1. v.node \in [DOMAIN v.node -> NodeRecord(U)]
  BY DEF TablesOK, Together, Typed
<1>2. r \in NodeRecord(U) /\ r.up = v.node[i].up /\ r.nm = v.node[i].nm
  BY <1>1 DEF NodeRecord
<1> HIDE DEF r
<1>3. /\ N2 \in [DOMAIN v.node -> NodeRecord(U)]
      /\ \A j \in DOMAIN v.node : N2[j].up = v.node[j].up /\ N2[j].nm = v.node[j].nm
  BY <1>1, <1>2
<1> HIDE DEF N2
<1>4. Together(N2, v.map, v.kids, v.next, U)
  BY <1>3, SameNames DEF TablesOK
<1> QED
  BY <1>3, <1>4 DEF N2, r

LEMMA CreateFileOK ==
    ASSUME NEW U, GitObjects(U), NEW w, TablesOK(w, U), NEW d \in DOMAIN w.kids, NEW n \in Nat
    PROVE  TablesOK(CreateFileIn(w, d, n).v, U)
<1> DEFINE i == Child(w, d, n)
<1>0. d \in Nat /\ w.next \in Nat /\ w.kids \in [DOMAIN w.kids -> SUBSET Nat]
  BY DEF TablesOK, Together, Typed
<1>1. CASE i # 0
  <2>1. i \in DOMAIN w.node
    BY <1>1, ChildMapped
  <2> HIDE DEF i
  <2> DEFINE N2 == [w.node EXCEPT ![i] = [w.node[i] EXCEPT !.gone = FALSE]]
  <2>2. [w EXCEPT !.node[i].gone = FALSE]
            = [node |-> N2, map |-> w.map, kids |-> w.kids, next |-> w.next]
    BY SetTables
  <2>3. Together(N2, w.map, w.kids, w.next, U)
    BY <2>1, MarkOK
  <2>4. CreateFileIn(w, d, n).v = [w EXCEPT !.node[i].gone = FALSE]
    BY <1>1 DEF CreateFileIn, Found, i
  <2> HIDE DEF N2
  <2> QED
    BY <2>2, <2>3, <2>4 DEF TablesOK
<1>2. CASE i = 0
  <2> DEFINE r == Node(d, n, NoOid, FALSE)
             K2 == [w.kids EXCEPT ![d] = @ \cup {w.next}]
  <2>1. r \in NodeRecord(U) /\ r.up = d /\ r.nm = n
    BY <1>0, NewNode
  <2>2. /\ K2 \in [DOMAIN K2 -> SUBSET Nat] /\ DOMAIN K2 = DOMAIN w.kids
        /\ \A c \in DOMAIN K2 : K2[c] = IF c = d THEN w.kids[d] \cup {w.next} ELSE w.kids[c]
    BY <1>0
  <2>3. CreateFileIn(w, d, n).v = [node |-> Put(w.node, w.next, r), map |-> Put(w.map, <<d, n>>, w.next),
                                   kids |-> K2, next |-> w.next + 1]
    BY <1>2 DEF CreateFileIn, Found
  <2> HIDE DEF r, K2
  <2>4. Together(Put(w.node, w.next, r), Put(w.map, <<d, n>>, w.next), K2, w.next + 1, U)
    BY <2>1, <2>2, AddTogether DEF TablesOK
  <2> QED
    BY <2>3, <2>4 DEF TablesOK
<1> QED
  BY <1>1, <1>2

LEMMA MkdirOK ==
    ASSUME NEW U, GitObjects(U), NEW w, TablesOK(w, U), NEW d \in DOMAIN w.kids, NEW n \in Nat
    PROVE  TablesOK(MkdirIn(w, d, n).v, U)
<1>0. /\ d \in Nat /\ w.next \in Nat /\ w.kids \in [DOMAIN w.kids -> SUBSET Nat]
      /\ w.next \notin DOMAIN w.kids
  BY DEF TablesOK, Together, Typed
<1> DEFINE r == Node(d, n, NoOid, TRUE)
           K1 == [w.kids EXCEPT ![d] = @ \cup {w.next}]
           K2 == Put(K1, w.next, {})
<1>1. r \in NodeRecord(U) /\ r.up = d /\ r.nm = n
  BY <1>0, NewNode
<1>2. /\ DOMAIN K1 = DOMAIN w.kids /\ K1 \in [DOMAIN w.kids -> SUBSET Nat]
      /\ \A c \in DOMAIN w.kids : K1[c] = IF c = d THEN w.kids[d] \cup {w.next} ELSE w.kids[c]
  BY <1>0
<1>3. MkdirIn(w, d, n).v = [node |-> Put(w.node, w.next, r), map |-> Put(w.map, <<d, n>>, w.next),
                            kids |-> K2, next |-> w.next + 1]
  BY DEF MkdirIn, Found
<1> HIDE DEF r, K1
<1>4. /\ DOMAIN K2 = DOMAIN w.kids \cup {w.next} /\ K2[w.next] = {}
      /\ \A c \in DOMAIN w.kids : K2[c] = K1[c]
      /\ K2 \in [DOMAIN K2 -> SUBSET Nat]
  BY <1>0, <1>2 DEF Put
<1> HIDE DEF K2
<1>5. \A c \in DOMAIN K2 : K2[c] = IF c = d THEN w.kids[d] \cup {w.next}
                                   ELSE IF c \in DOMAIN w.kids THEN w.kids[c] ELSE {}
  BY <1>2, <1>4
<1>6. Together(Put(w.node, w.next, r), Put(w.map, <<d, n>>, w.next), K2, w.next + 1, U)
  BY <1>1, <1>4, <1>5, AddTogether DEF TablesOK
<1> QED
  BY <1>3, <1>6 DEF TablesOK

(* RemoveIn of a name that is there.                                       *)
LEMMA RemoveShape ==
    ASSUME NEW U, NEW w, TablesOK(w, U), NEW d \in Nat, NEW n \in Nat,
           NEW i, i = Child(w, d, n), i # 0
    PROVE  LET x == RemoveIn(w, d, n).v
           IN  /\ TablesOK(x, U) /\ x.map = Drop(w.map, <<d, n>>) /\ x.next = w.next
               /\ x.kids = [w.kids EXCEPT ![d] = @ \ {i}]
               /\ x.node \in [DOMAIN w.node -> NodeRecord(U)]
               /\ \A j \in DOMAIN w.node : x.node[j].up = w.node[j].up /\ x.node[j].nm = w.node[j].nm
<1> DEFINE x == RemoveIn(w, d, n).v
           N2 == [w.node EXCEPT ![i] = [w.node[i] EXCEPT !.gone = TRUE]]
           M2 == Drop(w.map, <<d, n>>)
           K2 == [w.kids EXCEPT ![d] = @ \ {i}]
<1>1. <<d, n>> \in DOMAIN w.map /\ i = w.map[<<d, n>>] /\ i \in DOMAIN w.node
  BY ChildMapped
<1>2. x = [w EXCEPT !.node[i].gone = TRUE, !.kids[d] = @ \ {i}, !.map = Drop(@, <<d, n>>)]
  BY DEF RemoveIn, Found
<1>3. x = [w EXCEPT !.node = N2, !.kids = K2, !.map = M2]
  <2>1. w \in [node : {w.node}, map : {w.map}, kids : {w.kids}, next : {w.next}]
    BY DEF TablesOK
  <2> QED
    BY <1>2, <2>1
<1> HIDE DEF x
<1>4. /\ N2 \in [DOMAIN w.node -> NodeRecord(U)]
      /\ \A j \in DOMAIN w.node : N2[j].up = w.node[j].up /\ N2[j].nm = w.node[j].nm
  BY <1>1, MarkOK, ZenonT(40)
<1>5. Together(w.node, M2, K2, w.next, U)
  BY <1>1, DropTogether DEF TablesOK
<1> HIDE DEF N2, M2, K2
<1>6. x = [node |-> N2, map |-> M2, kids |-> K2, next |-> w.next]
  BY <1>3, SetTables, ZenonT(40)
<1>7. Together(N2, M2, K2, w.next, U)
  BY <1>4, <1>5, SameNames
<1>8. TablesOK(x, U) /\ x.node = N2 /\ x.map = M2 /\ x.kids = K2 /\ x.next = w.next
  BY <1>6, <1>7 DEF TablesOK
<1> QED
  BY <1>4, <1>8 DEF x, M2, K2

LEMMA RemoveOK ==
    ASSUME NEW U, NEW w, TablesOK(w, U), NEW d \in Nat, NEW n \in Nat
    PROVE  TablesOK(RemoveIn(w, d, n).v, U)
<1>1. CASE Child(w, d, n) = 0
  BY <1>1 DEF RemoveIn, Found
<1>2. CASE Child(w, d, n) # 0
  BY <1>2, RemoveShape, ZenonT(40)
<1> QED
  BY <1>1, <1>2

CutKids(K, d, i) == [K EXCEPT ![d] = @ \ {i}]

(* The tables are in step and none of them names node i.                   *)
Loose(i, N, M, K, nx, U) == /\ Together(N, M, K, nx, U) /\ i \in DOMAIN N
                            /\ \A y \in DOMAIN M : M[y] # i
                            /\ \A c \in DOMAIN K : i \notin K[c]

(* Name n of directory d, node i, is cut off after name m of directory e   *)
(* was removed.                                                            *)
LEMMA CutOff ==
    ASSUME NEW U, NEW w, TablesOK(w, U), NEW d \in Nat, NEW n \in Nat, NEW e \in Nat, NEW m \in Nat,
           NEW i, i = Child(w, d, n), i # 0, NEW x, x = RemoveIn(w, e, m).v
    PROVE  Loose(i, x.node, Drop(x.map, <<d, n>>), CutKids(x.kids, d, i), x.next, U)
<1> DEFINE M1 == Drop(x.map, <<d, n>>)
           K1 == CutKids(x.kids, d, i)
<1>0. <<d, n>> \in DOMAIN w.map /\ i = w.map[<<d, n>>] /\ i \in DOMAIN w.node
  BY ChildMapped
<1>1. /\ <<d, n>> \in DOMAIN w.map /\ i = w.map[<<d, n>>] /\ i \in DOMAIN w.node
      /\ w.node[i].up = d /\ d \in DOMAIN w.kids
  <2>1. NamesAgree(w.node, w.map, w.kids)
    BY DEF TablesOK, Together
  <2> QED
    BY <1>0, <2>1 DEF NamesAgree
<1>2. /\ TablesOK(x, U) /\ DOMAIN x.node = DOMAIN w.node /\ x.node[i].up = d
      /\ DOMAIN x.kids = DOMAIN w.kids
      /\ <<d, n>> # <<e, m>> => <<d, n>> \in DOMAIN x.map /\ x.map[<<d, n>>] = i
  <2>1. CASE Child(w, e, m) = 0
    <3>1. x = w
      BY <2>1 DEF RemoveIn, Found
    <3> QED
      BY <1>1, <3>1
  <2>2. CASE Child(w, e, m) # 0
    <3>1. /\ TablesOK(x, U) /\ x.map = Drop(w.map, <<e, m>>)
          /\ x.kids = [w.kids EXCEPT ![e] = @ \ {Child(w, e, m)}]
          /\ x.node \in [DOMAIN w.node -> NodeRecord(U)]
          /\ \A j \in DOMAIN w.node : x.node[j].up = w.node[j].up
      BY <2>2, RemoveShape
    <3> QED
      BY <1>1, <3>1 DEF Drop
  <2> QED
    BY <2>1, <2>2
<1>3. d \in DOMAIN x.kids /\ x.kids \in [DOMAIN x.kids -> SUBSET Nat]
  BY <1>1, <1>2 DEF TablesOK, Together, Typed
<1>4. /\ DOMAIN K1 = DOMAIN w.kids
      /\ \A c \in DOMAIN K1 : K1[c] = IF c = d THEN x.kids[d] \ {i} ELSE x.kids[c]
  BY <1>2, <1>3 DEF CutKids
<1>5. \A c \in DOMAIN K1 : i \notin K1[c]
  BY <1>2, <1>4 DEF TablesOK, Together, KidsAgree
<1>6. \A y \in DOMAIN M1 : y # <<d, n>> /\ y \in DOMAIN x.map /\ M1[y] = x.map[y]
  BY DEF Drop
<1>7. CASE <<d, n>> # <<e, m>>
  <2>1. /\ \A y \in DOMAIN x.map : x.map[y] = i => y = <<d, n>>
        /\ Together(x.node, M1, K1, x.next, U)
    BY <1>2, <1>7, DropTogether DEF TablesOK, CutKids
  <2> HIDE DEF M1, K1
  <2> QED
    BY <1>1, <1>2, <1>5, <1>6, <2>1 DEF Loose, M1, K1
<1>8. CASE <<d, n>> = <<e, m>>
  <2>1. d = e /\ n = m
    BY <1>8
  <2>2. x.map = Drop(w.map, <<d, n>>) /\ x.kids = [w.kids EXCEPT ![d] = @ \ {i}]
    BY <2>1, RemoveShape
  <2>3. M1 = x.map
    BY <2>2 DEF Drop
  <2>4. K1 = x.kids
    <3>1. w.kids \in [DOMAIN w.kids -> SUBSET Nat]
      BY DEF TablesOK, Together, Typed
    <3> QED
      BY <1>1, <2>2, <3>1 DEF CutKids
  <2>5. \A y \in DOMAIN w.map : w.map[y] = i => y = <<d, n>>
    BY <1>1, OneName DEF TablesOK
  <2>6. \A y \in DOMAIN x.map : y # <<d, n>> /\ y \in DOMAIN w.map /\ x.map[y] = w.map[y]
    BY <2>2 DEF Drop
  <2>7. Together(x.node, M1, K1, x.next, U)
    BY <1>2, <2>3, <2>4 DEF TablesOK
  <2> QED
    BY <1>1, <1>2, <1>5, <2>3, <2>5, <2>6, <2>7 DEF Loose
<1> QED
  BY <1>7, <1>8

LEMMA SameDirs ==
    ASSUME NEW U, NEW w, TablesOK(w, U), NEW d \in Nat, NEW n \in Nat,
           NEW x, x = RemoveIn(w, d, n).v
    PROVE  DOMAIN x.kids = DOMAIN w.kids
<1>1. CASE Child(w, d, n) = 0
  BY <1>1 DEF RemoveIn, Found
<1>2. CASE Child(w, d, n) # 0
  <2>1. /\ TablesOK(x, U) /\ x.map = Drop(w.map, <<d, n>>)
        /\ x.kids = [w.kids EXCEPT ![d] = @ \ {Child(w, d, n)}]
        /\ x.node \in [DOMAIN w.node -> NodeRecord(U)]
    BY <1>2, RemoveShape
  <2> QED
    BY <2>1
<1> QED
  BY <1>1, <1>2

(* Move, table by table.                                                   *)
Reparent(N, i, e)  == [N EXCEPT ![i] = [N[i] EXCEPT !.up = e]]
Relabel(N, i, m)   == [N EXCEPT ![i] = [N[i] EXCEPT !.nm = m]]
Moved(x, i, d, n, e, m) ==
    [node |-> Relabel(Reparent(x.node, i, e), i, m),
     map  |-> Put(Drop(x.map, <<d, n>>), <<e, m>>, i),
     kids |-> Rehang(x.kids, i, d, e),
     next |-> x.next]

LEMMA MoveShape ==
    ASSUME NEW U, NEW x, TablesOK(x, U), NEW i, NEW d, NEW n, NEW e, NEW m
    PROVE  Move(x, i, d, n, e, m) = Moved(x, i, d, n, e, m)
<1> DEFINE N1 == Reparent(x.node, i, e)
           N3 == Relabel(N1, i, m)
           M == Put(Drop(x.map, <<d, n>>), <<e, m>>, i)
           K == Rehang(x.kids, i, d, e)
<1>0. x \in [node : {x.node}, map : {x.map}, kids : {x.kids}, next : {x.next}]
  BY DEF TablesOK
<1> DEFINE x1 == [x EXCEPT !.node[i].up = e]
           x2 == [x1 EXCEPT !.node[i].nm = m]
<1>1. x1 = [x EXCEPT !.node = N1]
  BY <1>0 DEF Reparent
<1> HIDE DEF N1
<1>2. /\ x1.node = N1 /\ x1.map = x.map /\ x1.kids = x.kids /\ x1.next = x.next
      /\ x1 \in [node : {N1}, map : {x.map}, kids : {x.kids}, next : {x.next}]
  BY <1>0, <1>1
<1> HIDE DEF x1
<1>3. x2 = [x1 EXCEPT !.node = N3]
  BY <1>2 DEF Relabel
<1> HIDE DEF N3
<1>4. /\ x2.node = N3 /\ x2.map = x.map /\ x2.kids = x.kids /\ x2.next = x.next
      /\ x2 \in [node : {N3}, map : {x.map}, kids : {x.kids}, next : {x.next}]
  BY <1>2, <1>3
<1>5. Move(x, i, d, n, e, m) = [x2 EXCEPT !.map = Put(Drop(@, <<d, n>>), <<e, m>>, i),
                                          !.kids = Rehang(@, i, d, e)]
  BY DEF Move, x1
<1> HIDE DEF x2
<1>6. Move(x, i, d, n, e, m) = [x2 EXCEPT !.map = M, !.kids = K]
  BY <1>4, <1>5
<1> HIDE DEF M, K
<1>7. Move(x, i, d, n, e, m) = [node |-> N3, map |-> M, kids |-> K, next |-> x.next]
  BY <1>4, <1>6
<1> QED
  BY <1>7 DEF N1, N3, M, K, Moved

LEMMA RenameOK ==
    ASSUME NEW U, NEW w, TablesOK(w, U), NEW d \in Nat, NEW n \in Nat,
           NEW e \in DOMAIN w.kids, NEW m \in Nat
    PROVE  TablesOK(RenameIn(w, d, n, e, m).v, U)
<1> DEFINE i == Child(w, d, n)
           x == RemoveIn(w, e, m).v
<1>0. e \in Nat
  BY DEF TablesOK, Together, Typed
<1>1. CASE i = 0
  BY <1>1 DEF RenameIn, Found
<1>2. CASE i # 0
  <2> DEFINE M1 == Drop(x.map, <<d, n>>)
             K1 == CutKids(x.kids, d, i)
             M2 == Put(M1, <<e, m>>, i)
             K2 == [K1 EXCEPT ![e] = @ \cup {i}]
             r == [x.node[i] EXCEPT !.up = e, !.nm = m]
             N2 == [x.node EXCEPT ![i] = r]
  <2>1. RenameIn(w, d, n, e, m).v = Move(x, i, d, n, e, m)
    BY <1>2 DEF RenameIn, Found
  <2>2. TablesOK(x, U)
    BY <1>0, RemoveOK
  <2>0. i = Child(w, d, n) /\ i # 0 /\ x = RemoveIn(w, e, m).v
    BY <1>2
  <2> HIDE DEF i, x
  <2>11. Loose(i, x.node, M1, K1, x.next, U)
    BY <1>0, <2>0, CutOff
  <2>3. Loose(i, x.node, M1, K1, x.next, U) /\ i \in DOMAIN x.node
    BY <2>11 DEF Loose
  <2>10. DOMAIN K1 = DOMAIN w.kids
    BY <1>0, <2>0, SameDirs DEF CutKids
  <2>4. x.node \in [DOMAIN x.node -> NodeRecord(U)]
    BY <2>2 DEF TablesOK, Together, Typed
  <2>5. r \in NodeRecord(U) /\ r.up = e /\ r.nm = m
    BY <1>0, <2>3, <2>4 DEF NodeRecord
  <2>6. Relabel(Reparent(x.node, i, e), i, m) = N2
    BY <2>3, <2>4 DEF Relabel, Reparent
  <2>12. Rehang(x.kids, i, d, e) = K2
    <3>1. x.kids \in [DOMAIN w.kids -> SUBSET Nat]
      BY <2>2, <2>10 DEF TablesOK, Together, Typed, CutKids
    <3> QED
      BY <2>10, <3>1 DEF Rehang, CutKids
  <2> HIDE DEF r
  <2>7. /\ N2 \in [DOMAIN x.node -> NodeRecord(U)] /\ N2[i].up = e /\ N2[i].nm = m
        /\ \A j \in DOMAIN x.node : j # i => N2[j] = x.node[j]
    BY <2>3, <2>4, <2>5
  <2> HIDE DEF N2, M1, K1
  <2>8. Together(N2, M2, K2, x.next, U)
    BY <2>3, <2>7, <2>10, HangTogether DEF Loose
  <2> HIDE DEF M2, K2
  <2>9. Move(x, i, d, n, e, m) = [node |-> N2, map |-> M2, kids |-> K2, next |-> x.next]
    BY <2>2, <2>6, <2>12, MoveShape DEF Moved, M1, M2
  <2> QED
    BY <2>1, <2>8, <2>9 DEF TablesOK
<1> QED
  BY <1>1, <1>2

-----------------------------------------------------------------------------
LEMMA SeqElements ==
    ASSUME NEW S, NEW q \in Seq(S)
    PROVE  Len(q) \in Nat /\ DOMAIN q = 1 .. Len(q) /\ \A k \in DOMAIN q : q[k] \in S /\ k \in 1 .. Len(q)
OBVIOUS

(* N2, M2 and K2 are the tables after directory d got a node for every     *)
(* entry of e, numbered from nx on; a name belongs to one of the entries   *)
(* that have it.                                                           *)
Fills(N, M, K, nx, d, e, N2, M2, K2, U) ==
    /\ DOMAIN N2 = DOMAIN N \cup {nx + k - 1 : k \in DOMAIN e}
    /\ \A i \in DOMAIN N : N2[i] = N[i]
    /\ \A k \in DOMAIN e : /\ N2[nx + k - 1] \in NodeRecord(U)
                           /\ N2[nx + k - 1].up = d /\ N2[nx + k - 1].nm = e[k].n
    /\ N2 \in [DOMAIN N2 -> NodeRecord(U)]
    /\ M2 \in [DOMAIN M2 -> Nat]
    /\ DOMAIN M2 = DOMAIN M \cup {<<d, e[k].n>> : k \in DOMAIN e}
    /\ \A x \in DOMAIN M : M2[x] = M[x]
    /\ \A k \in DOMAIN e : \E j \in DOMAIN e : e[j].n = e[k].n /\ M2[<<d, e[k].n>>] = nx + j - 1
    /\ K2 = Put(K, d, {nx + k - 1 : k \in DOMAIN e})

LEMMA FillTogether ==
    ASSUME NEW U, NEW N, NEW M, NEW K, NEW nx, Together(N, M, K, nx, U),
           NEW d \in DOMAIN N, d \notin DOMAIN K, NEW e \in Seq([n : Nat, o : U]),
           NEW N2, NEW M2, NEW K2, Fills(N, M, K, nx, d, e, N2, M2, K2, U)
    PROVE  Together(N2, M2, K2, nx + Len(e), U)
<1> USE DEF Fills
<1>1. /\ nx \in Nat /\ Len(e) \in Nat /\ DOMAIN e = 1 .. Len(e) /\ d \in Nat /\ DOMAIN N \subseteq Nat
      /\ \A k \in DOMAIN e : k \in Nat /\ nx + k - 1 \in Nat /\ nx + k - 1 < nx + Len(e) /\ e[k].n \in Nat
  <2>1. nx \in Nat /\ DOMAIN N \subseteq Nat /\ d \in Nat
    BY DEF Together, Typed
  <2>2. /\ Len(e) \in Nat /\ DOMAIN e = 1 .. Len(e)
        /\ \A k \in DOMAIN e : e[k] \in [n : Nat, o : U] /\ k \in 1 .. Len(e)
    BY SeqElements
  <2>3. \A k \in DOMAIN e : k \in Nat /\ nx + k - 1 \in Nat /\ nx + k - 1 < nx + Len(e)
    BY <2>1, <2>2
  <2>4. \A k \in DOMAIN e : e[k].n \in Nat
    BY <2>2
  <2> QED
    BY <2>1, <2>2, <2>3, <2>4
<1>2. /\ DOMAIN K2 = DOMAIN K \cup {d} /\ \A c \in DOMAIN K : K2[c] = K[c]
      /\ K2[d] = {nx + k - 1 : k \in DOMAIN e}
      /\ K2 \in [DOMAIN K2 -> SUBSET Nat]
  BY <1>1 DEF Put, Together, Typed
<1>3. Typed(N2, M2, K2, nx + Len(e), U)
  <2>1. DOMAIN N2 \subseteq Nat /\ nx + Len(e) \in Nat
    BY <1>1
  <2>2. DOMAIN M2 \subseteq Nat \X Nat
    BY <1>1, SMTT(30) DEF Together, Typed
  <2>3. DOMAIN K2 \subseteq DOMAIN N2
    BY <1>2 DEF Together, Typed
  <2> QED
    BY <1>2, <2>1, <2>2, <2>3 DEF Typed
<1>4. NamesAgree(N2, M2, K2)
  <2> SUFFICES ASSUME NEW x \in DOMAIN M2
               PROVE  /\ M2[x] \in DOMAIN N2 /\ N2[M2[x]].up = x[1] /\ N2[M2[x]].nm = x[2]
                      /\ x[1] \in DOMAIN K2 /\ M2[x] \in K2[x[1]]
    BY DEF NamesAgree
  <2>1. CASE x \in DOMAIN M
    <3>1. /\ M2[x] = M[x] /\ M[x] \in DOMAIN N /\ N[M[x]].up = x[1]
          /\ N[M[x]].nm = x[2] /\ x[1] \in DOMAIN K /\ M[x] \in K[x[1]]
      BY <2>1 DEF Together, NamesAgree
    <3> QED
      BY <1>2, <3>1
  <2>2. CASE x \notin DOMAIN M
    <3>1. PICK k \in DOMAIN e : x = <<d, e[k].n>>
      BY <2>2
    <3>2. PICK j \in DOMAIN e : e[j].n = e[k].n /\ M2[<<d, e[k].n>>] = nx + j - 1
      OBVIOUS
    <3>3. M2[x] = nx + j - 1 /\ x[1] = d /\ x[2] = e[j].n
      BY <3>1, <3>2
    <3>4. nx + j - 1 \in DOMAIN N2 /\ nx + j - 1 \in K2[d] /\ d \in DOMAIN K2
      BY <1>2
    <3> QED
      BY <3>3, <3>4
  <2> QED
    BY <2>1, <2>2
<1>5. KidsAgree(N2, K2)
  <2> SUFFICES ASSUME NEW c \in DOMAIN K2, NEW i \in K2[c]
               PROVE  i \in DOMAIN N2 /\ N2[i].up = c
    BY DEF KidsAgree
  <2>1. CASE c = d
    <3>1. PICK k \in DOMAIN e : i = nx + k - 1
      BY <1>2, <2>1
    <3> QED
      BY <2>1, <3>1
  <2>2. CASE c # d
    BY <1>2, <2>2 DEF Together, KidsAgree
  <2> QED
    BY <2>1, <2>2
<1>6. \A i \in DOMAIN N2 : i < nx + Len(e)
  <2> SUFFICES ASSUME NEW i \in DOMAIN N2 PROVE i < nx + Len(e)
    OBVIOUS
  <2>1. CASE i \in DOMAIN N
    BY <1>1, <2>1 DEF Together
  <2>2. CASE i \notin DOMAIN N
    BY <1>1, <2>2
  <2> QED
    BY <2>1, <2>2
<1> QED
  BY <1>3, <1>4, <1>5, <1>6 DEF Together

LEMMA EntriesOK ==
    ASSUME NEW U, GitObjects(U), NEW o \in U
    PROVE  Entries(o) \in Seq([n : Nat, o : U]) /\ \A k \in DOMAIN Entries(o) : Entries(o)[k].n # 0
<1>1. CASE o.t = "tree"
  BY <1>1 DEF GitObjects, Entries
<1>2. CASE o.t # "tree"
  <2>1. Entries(o) = << >>
    BY <1>2 DEF Entries
  <2>2. \A S : << >> \in Seq(S) /\ \A k \in DOMAIN << >> : FALSE
    OBVIOUS
  <2> QED
    BY <2>1, <2>2
<1> QED
  BY <1>1, <1>2

(* What ensure_dir_populated adds leaves the tables in step.               *)
LEMMA PopulateOK ==
    ASSUME NEW U, GitObjects(U), NEW v, TablesOK(v, U), NEW d, CanPopulate(v, d)
    PROVE  /\ TablesOK(Populate(v, d), U) /\ d \in DOMAIN Populate(v, d).kids
           /\ DOMAIN v.node \subseteq DOMAIN Populate(v, d).node
           /\ DOMAIN v.kids \subseteq DOMAIN Populate(v, d).kids
           /\ \A i \in DOMAIN v.node : Populate(v, d).node[i] = v.node[i]
           /\ \A i \in DOMAIN Populate(v, d).node :
                 \/ i \in DOMAIN v.node
                 \/ /\ Populate(v, d).node[i].up = d /\ Populate(v, d).node[i].nm # 0
                    /\ v.next <= i
           /\ \A c \in DOMAIN Populate(v, d).kids : \A i \in Populate(v, d).kids[c] :
                 (c \in DOMAIN v.kids /\ i \in v.kids[c]) \/ v.next <= i
<1>1. CASE d \in DOMAIN v.kids
  BY <1>1 DEF Populate
<1>2. CASE d \notin DOMAIN v.kids
  <2> DEFINE e == Entries(v.node[d].o)
             id(k) == IF <<d, e[k].n>> \in DOMAIN v.map THEN v.map[<<d, e[k].n>>] ELSE v.next + k - 1
             new == {k \in DOMAIN e : <<d, e[k].n>> \notin DOMAIN v.map}
             last(n) == CHOOSE k \in new : e[k].n = n /\ \A j \in new : e[j].n = n => j <= k
             N2 == [i \in DOMAIN v.node \cup {id(k) : k \in new} |->
                       IF i \in DOMAIN v.node THEN v.node[i]
                       ELSE Node(d, e[i - v.next + 1].n, e[i - v.next + 1].o,
                                 e[i - v.next + 1].o.t = "tree")]
             M2 == [x \in DOMAIN v.map \cup {<<d, e[k].n>> : k \in new} |->
                       IF x \in DOMAIN v.map THEN v.map[x] ELSE id(last(x[2]))]
             K2 == Put(v.kids, d, {id(k) : k \in DOMAIN e})
  <2>1. Populate(v, d) = [node |-> N2, map |-> M2, kids |-> K2, next |-> v.next + Len(e)]
    BY <1>2 DEF Populate
  <2>2. d \in DOMAIN v.node /\ v.node[d].o \in U /\ v.next \in Nat /\ DOMAIN v.node \subseteq Nat /\ d \in Nat
        /\ \A i \in DOMAIN v.node : i < v.next /\ v.node[i] \in NodeRecord(U)
    BY <1>2 DEF CanPopulate, TablesOK, Together, Typed, NodeRecord
  <2>3. e \in Seq([n : Nat, o : U]) /\ \A k \in DOMAIN e : e[k].n # 0
    BY <2>2, EntriesOK
  <2> HIDE DEF e
  <2>4. /\ Len(e) \in Nat /\ DOMAIN e = 1 .. Len(e)
        /\ \A k \in DOMAIN e : e[k] \in [n : Nat, o : U] /\ k \in 1 .. Len(e)
    BY <2>3, SeqElements
  <2>5. \A y : <<d, y>> \notin DOMAIN v.map
    BY <1>2 DEF TablesOK, Together, NamesAgree
  <2>6. new = DOMAIN e
    BY <2>5
  <2>7. \A k : id(k) = v.next + k - 1
    BY <2>5
  <2>8. ASSUME NEW k \in DOMAIN e
        PROVE  last(e[k].n) \in DOMAIN e /\ e[last(e[k].n)].n = e[k].n
    <3> DEFINE T == {j \in DOMAIN e : e[j].n = e[k].n}
    <3>1. T \in SUBSET (1 .. Len(e)) /\ T # {}
      BY <2>4
    <3>2. PICK x \in T : \A y \in T : y <= x
      BY <2>4, <3>1, GreatestNatural
    <3>3. \E z \in new : e[z].n = e[k].n /\ \A j \in new : e[j].n = e[k].n => j <= z
      BY <2>6, <3>2
    <3> HIDE DEF new
    <3>4. last(e[k].n) \in new /\ e[last(e[k].n)].n = e[k].n
      BY <3>3, Zenon
    <3> QED
      BY <2>6, <3>4
  <2> HIDE DEF new, last, id
  <2>9. /\ DOMAIN N2 = DOMAIN v.node \cup {v.next + k - 1 : k \in DOMAIN e}
        /\ \A i \in DOMAIN v.node : N2[i] = v.node[i]
    BY <2>6, <2>7
  <2>10. ASSUME NEW k \in DOMAIN e
         PROVE  /\ N2[v.next + k - 1] \in NodeRecord(U)
                /\ N2[v.next + k - 1].up = d /\ N2[v.next + k - 1].nm = e[k].n
    <3>4. k \in Nat /\ 1 <= k /\ v.next \in Nat
      BY <2>2, <2>4
    <3>5. (v.next + k - 1) - v.next + 1 = k /\ ~ (v.next + k - 1 < v.next)
      BY <3>4
    <3>6. v.next + k - 1 \in DOMAIN N2
      BY <2>9, Zenon
    <3>7. v.next + k - 1 \notin DOMAIN v.node
      BY <2>2, <3>5
    <3>1. /\ v.next + k - 1 \in DOMAIN N2 /\ v.next + k - 1 \notin DOMAIN v.node
          /\ (v.next + k - 1) - v.next + 1 = k
      BY <3>5, <3>6, <3>7
    <3>2. N2[v.next + k - 1] = Node(d, e[k].n, e[k].o, e[k].o.t = "tree")
      BY <2>9, <3>1
    <3>3. e[k].n \in Nat /\ e[k].o \in U
      BY <2>4
    <3> HIDE DEF N2
    <3> QED
      <4>1. (e[k].o.t = "tree") \in BOOLEAN
        BY Zenon
      <4>2. PICK b \in BOOLEAN : N2[v.next + k - 1] = Node(d, e[k].n, e[k].o, b)
        BY <3>2, <4>1, Zenon
      <4> QED
        BY <2>2, <3>3, <4>2, NamedNode
  <2>11. N2 \in [DOMAIN N2 -> NodeRecord(U)]
    <3>1. \A i \in DOMAIN N2 : N2[i] \in NodeRecord(U)
      BY <2>2, <2>9, <2>10
    <3> QED
      BY <3>1
  <2>12. /\ DOMAIN M2 = DOMAIN v.map \cup {<<d, e[k].n>> : k \in DOMAIN e}
         /\ \A x \in DOMAIN v.map : M2[x] = v.map[x]
    BY <2>6
  <2>13. ASSUME NEW k \in DOMAIN e
         PROVE  M2[<<d, e[k].n>>] = v.next + last(e[k].n) - 1
    BY <2>5, <2>7, <2>12
  <2>14. \A k \in DOMAIN e : \E j \in DOMAIN e : e[j].n = e[k].n /\ M2[<<d, e[k].n>>] = v.next + j - 1
    BY <2>8, <2>13
  <2>15. M2 \in [DOMAIN M2 -> Nat]
    <3>1. \A k \in DOMAIN e : v.next + k - 1 \in Nat
      BY <2>2, <2>4
    <3>2. \A x \in DOMAIN M2 : M2[x] \in Nat
      BY <2>12, <2>14, <3>1 DEF TablesOK, Together, Typed
    <3> QED
      BY <3>2
  <2>16. K2 = Put(v.kids, d, {v.next + k - 1 : k \in DOMAIN e})
    BY <2>7
  <2> HIDE DEF N2, M2, K2
  <2>19. \A k \in DOMAIN e : /\ N2[v.next + k - 1] \in NodeRecord(U)
                             /\ N2[v.next + k - 1].up = d /\ N2[v.next + k - 1].nm = e[k].n
    BY <2>10
  <2>20. d \in DOMAIN v.node /\ Together(v.node, v.map, v.kids, v.next, U)
    BY <2>2 DEF TablesOK
  <2>17. Together(N2, M2, K2, v.next + Len(e), U)
    <3>1. Fills(v.node, v.map, v.kids, v.next, d, e, N2, M2, K2, U)
      BY <2>9, <2>19, <2>11, <2>12, <2>14, <2>15, <2>16 DEF Fills
    <3> QED
      BY <1>2, <2>3, <2>20, <3>1, FillTogether
  <2>18. DOMAIN K2 = DOMAIN v.kids \cup {d}
    BY <2>16 DEF Put
  <2>21. \A k \in DOMAIN e : v.next <= v.next + k - 1
    BY <2>2, <2>4
  <2>22. ASSUME NEW i \in DOMAIN N2, i \notin DOMAIN v.node
         PROVE  N2[i].up = d /\ N2[i].nm # 0 /\ v.next <= i
    <3>1. PICK k \in DOMAIN e : i = v.next + k - 1
      BY <2>9, <2>22
    <3>2. N2[i].up = d /\ N2[i].nm = e[k].n
      BY <2>19, <3>1
    <3> QED
      BY <2>3, <2>21, <3>1, <3>2
  <2>23. \A c \in DOMAIN K2 : \A i \in K2[c] : (c \in DOMAIN v.kids /\ i \in v.kids[c]) \/ v.next <= i
    BY <2>16, <2>18, <2>21 DEF Put
  <2> QED
    BY <2>1, <2>9, <2>17, <2>18, <2>22, <2>23 DEF TablesOK
<1> QED
  BY <1>1, <1>2

-----------------------------------------------------------------------------
(* Directory d after ensure_dir_populated, and then e.                     *)
LEMMA PopulateBothOK ==
    ASSUME NEW U, GitObjects(U), NEW v, TablesOK(v, U), NEW d, CanPopulate(v, d),
           NEW e, CanPopulate(v, e)
    PROVE  LET w == Populate(Populate(v, d), e)
           IN TablesOK(w, U) /\ d \in DOMAIN w.kids /\ e \in DOMAIN w.kids
<1> DEFINE x == Populate(v, d)
<1>1. /\ TablesOK(x, U) /\ d \in DOMAIN x.kids
      /\ DOMAIN v.node \subseteq DOMAIN x.node /\ DOMAIN v.kids \subseteq DOMAIN x.kids
      /\ \A i \in DOMAIN v.node : x.node[i] = v.node[i]
  BY PopulateOK
<1>2. CanPopulate(x, e)
  BY <1>1 DEF CanPopulate
<1> HIDE DEF x
<1>3. /\ TablesOK(Populate(x, e), U) /\ e \in DOMAIN Populate(x, e).kids
      /\ DOMAIN x.kids \subseteq DOMAIN Populate(x, e).kids
  BY <1>1, <1>2, PopulateOK
<1>4. d \in DOMAIN Populate(x, e).kids
  BY <1>1, <1>3
<1> QED
  BY <1>3, <1>4 DEF x

LEMMA DirIsInode ==
    ASSUME NEW U, NEW w, TablesOK(w, U), NEW d \in DOMAIN w.kids
    PROVE  d \in Nat
  BY DEF TablesOK, Together, Typed

(* The four calls that change the tree.                                    *)
LEMMA CallsOK ==
    ASSUME NEW U, GitObjects(U), NEW v, TablesOK(v, U), NEW d, CanPopulate(v, d), NEW n \in Nat
    PROVE  /\ TablesOK(CreateFile(v, d, n).v, U)
           /\ TablesOK(Mkdir(v, d, n).v, U)
           /\ TablesOK(RemoveNode(v, d, n).v, U)
<1> DEFINE w == Populate(v, d)
<1>1. TablesOK(w, U) /\ d \in DOMAIN w.kids
  BY PopulateOK
<1> HIDE DEF w
<1>2. d \in Nat
  BY <1>1, DirIsInode
<1>3. TablesOK(CreateFileIn(w, d, n).v, U)
  BY <1>1, CreateFileOK
<1>4. TablesOK(MkdirIn(w, d, n).v, U)
  BY <1>1, MkdirOK
<1>5. TablesOK(RemoveIn(w, d, n).v, U)
  BY <1>1, <1>2, RemoveOK
<1> QED
  BY <1>3, <1>4, <1>5 DEF w, CreateFile, Mkdir, RemoveNode

LEMMA RenameCallOK ==
    ASSUME NEW U, GitObjects(U), NEW v, TablesOK(v, U), NEW d, CanPopulate(v, d),
           NEW e, CanPopulate(v, e), NEW n \in Nat, NEW m \in Nat
    PROVE  TablesOK(Rename(v, d, n, e, m).v, U)
<1> DEFINE w == Populate(Populate(v, d), e)
<1>1. TablesOK(w, U) /\ d \in DOMAIN w.kids /\ e \in DOMAIN w.kids
  BY PopulateBothOK
<1> HIDE DEF w
<1>2. d \in Nat
  BY <1>1, DirIsInode
<1>3. TablesOK(RenameIn(w, d, n, e, m).v, U)
  BY <1>1, <1>2, RenameOK
<1> QED
  BY <1>3 DEF w, Rename

(* Every step leaves the served tables in step, given that the tree of the *)
(* branch is one of Git objects.                                           *)
LEMMA StepOK ==
    ASSUME NEW U, GitObjects(U), TablesOK(live, U), base' \in U, [Next]_vars
    PROVE  TablesOK(live, U)'
<1>0. \A n \in Names : n \in Nat
  BY ConstantsAssumption
<1>1. ASSUME NEW d \in DOMAIN live.node, NfsLookup(d) PROVE TablesOK(live', U)
  BY <1>1, PopulateOK DEF NfsLookup
<1>2. ASSUME NEW h \in Handlers, NEW d \in DOMAIN live.node, NEW n \in Names,
             NfsCreate(h, d, n) \/ NfsMkdir(h, d, n) \/ NfsRemove(h, d, n)
      PROVE  TablesOK(live', U)
  <2>1. CASE NfsCreate(h, d, n)
    <3>1. CanPopulate(live, d) /\ live' = CreateFile(live, d, n).v
      BY <2>1 DEF NfsCreate
    <3> QED
      BY <1>0, <3>1, CallsOK
  <2>2. CASE NfsMkdir(h, d, n)
    <3>1. CanPopulate(live, d) /\ live' = Mkdir(live, d, n).v
      BY <2>2 DEF NfsMkdir
    <3> QED
      BY <1>0, <3>1, CallsOK
  <2>3. CASE NfsRemove(h, d, n)
    <3>1. CanPopulate(live, d) /\ live' = RemoveNode(live, d, n).v
      BY <2>3 DEF NfsRemove
    <3> QED
      BY <1>0, <3>1, CallsOK
  <2> QED
    BY <1>2, <2>1, <2>2, <2>3
<1>3. ASSUME NEW h \in Handlers, NEW d \in DOMAIN live.node, NEW e \in DOMAIN live.node,
             NEW n \in Names, NEW m \in Names, NfsRename(h, d, n, e, m)
      PROVE  TablesOK(live', U)
  <2>1. CanPopulate(live, d) /\ CanPopulate(live, e) /\ live' = Rename(live, d, n, e, m).v
    BY <1>3 DEF NfsRename
  <2> QED
    BY <1>0, <2>1, RenameCallOK
<1>4. ASSUME NEW h \in Handlers, NEW i \in DOMAIN live.node, NEW off \in Offsets,
             (\E b \in Bytes : Fetch(h, "write", i, off, b)) \/ Fetch(h, "trunc", i, off, 0)
      PROVE  live' = live
  BY <1>4 DEF Fetch
<1>5. ASSUME NEW h \in Handlers, NfsWrite(h) \/ NfsSetattr(h) \/ LogMutation(h) PROVE live' = live
  BY <1>5 DEF NfsWrite, NfsSetattr, LogMutation
<1>6. ASSUME Commit PROVE live' = live
  BY <1>6 DEF Commit
<1>7. ASSUME Reboot PROVE TablesOK(live', U)
  <2>1. live' = NewVfs(base')
    BY <1>7 DEF Reboot
  <2> QED
    BY <2>1, NewVfsOK
<1>8. ASSUME UNCHANGED vars PROVE live' = live
  BY <1>8 DEF vars
<1>9. TablesOK(live', U)
  BY <1>1, <1>2, <1>3, <1>4, <1>5, <1>6, <1>7, <1>8 DEF Next
<1> QED
  BY <1>9 DEF TablesOK

LEMMA InStepAgree == ASSUME NEW U, NEW v, TablesOK(v, U) PROVE InStep(v)
  BY DEF TablesOK, Together, NamesAgree, KidsAgree, InStep

(* The three tables of VfsManager agree in every state (TablesAgree),      *)
(* whatever the clients call, in whatever order and however often the      *)
(* server dies: names, parents and children match and no inode number is   *)
(* given twice.  The tree of the branch is taken to be made of Git objects *)
(* (U), which the runs check as EntriesInGitOrder: what the tree builder   *)
(* computes is a recursive function over the directories.                  *)
THEOREM TablesStayInStep ==
    ASSUME NEW CONSTANT U, GitObjects(U)
    PROVE  Spec /\ [](base \in U) => []TablesAgree
<1>1. Init /\ base \in U => TablesOK(live, U)
  BY NewVfsOK DEF Init
<1>2. TablesOK(live, U) /\ [Next]_vars /\ (base \in U)' => TablesOK(live, U)'
  BY StepOK
<1>3. TablesOK(live, U) => TablesAgree
  BY InStepAgree DEF TablesAgree
<1> QED
  BY <1>1, <1>2, <1>3, PTL DEF Spec
=============================================================================
