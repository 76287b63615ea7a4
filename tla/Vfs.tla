---- MODULE Vfs ----
(***************************************************************************)
(* The file tree that git-nfs serves: the inode tables of VfsManager       *)
(* (vfs/inode.rs) and the staging area (staging/mod.rs).  Both are values  *)
(* here and every method is an operator that returns the changed value,    *)
(* because the code keeps two copies of them: the live one behind the NFS  *)
(* handlers, and a fresh one for every replay of the write-ahead log.      *)
(*                                                                         *)
(* An object id is the object itself (SHA-1 is taken to be injective): a   *)
(* blob with its content, or a tree with its entries in order.  File       *)
(* modes, sizes and times are left out; a file's content is a sequence of  *)
(* bytes.                                                                  *)
(***************************************************************************)
EXTENDS Integers, Sequences, SequencesExt

Root == 1           \* ROOT_INODE

NoOid   == [t |-> "none"]                 \* the empty string of a node without object
Blob(c) == [t |-> "blob", c |-> c]
Tree(e) == [t |-> "tree", e |-> e]        \* e: sequence of [n: name, o: object id]

\* GitEngine::get_tree: only a tree has entries.
Entries(o) == IF o.t = "tree" THEN o.e ELSE << >>

Put(f, k, x) == [y \in DOMAIN f \cup {k} |-> IF y = k THEN x ELSE f[y]]
Drop(f, k)   == [y \in DOMAIN f \ {k} |-> f[y]]

-----------------------------------------------------------------------------
\* VfsManager: node maps an inode to its VfsNode, map is child_map, kids is
\* dir_children (a directory that is not in its domain is not populated yet).

Node(up, nm, o, dir) == [up |-> up, nm |-> nm, o |-> o, dir |-> dir, gone |-> FALSE]

NewVfs(o) == [node |-> [i \in {Root} |-> Node(Root, 0, o, TRUE)],
              map  |-> [x \in {} |-> Root],
              kids |-> [x \in {} |-> {}],
              next |-> 2]

Alive(v, i) == i \in DOMAIN v.node /\ ~v.node[i].gone          \* get_node

CanPopulate(v, d) == d \in DOMAIN v.kids \/ (d \in DOMAIN v.node /\ v.node[d].dir)

\* ensure_dir_populated, when it does not fail.
Populate(v, d) ==
  IF d \in DOMAIN v.kids THEN v
  ELSE LET e     == Entries(v.node[d].o)
           id(k) == IF <<d, e[k].n>> \in DOMAIN v.map THEN v.map[<<d, e[k].n>>] ELSE v.next + k - 1
           new   == {k \in DOMAIN e : <<d, e[k].n>> \notin DOMAIN v.map}
           last(n) == CHOOSE k \in new : e[k].n = n /\ \A j \in new : e[j].n = n => j <= k
       IN [node |-> [i \in DOMAIN v.node \cup {id(k) : k \in new} |->
                       IF i \in DOMAIN v.node THEN v.node[i]
                       ELSE LET k == i - v.next + 1
                            IN Node(d, e[k].n, e[k].o, e[k].o.t = "tree")],
           map  |-> [x \in DOMAIN v.map \cup {<<d, e[k].n>> : k \in new} |->
                       IF x \in DOMAIN v.map THEN v.map[x] ELSE id(last(x[2]))],
           kids |-> Put(v.kids, d, {id(k) : k \in DOMAIN e}),
           next |-> v.next + Len(e)]

\* Methods that name a node return it with the tables; 0 stands for an error.
Found(v, i) == [v |-> v, i |-> i]

Child(v, d, n) == IF <<d, n>> \in DOMAIN v.map THEN v.map[<<d, n>>] ELSE 0

Hit(v, d, n) == Child(v, d, n) # 0 /\ Alive(v, Child(v, d, n))

LookupIn(w, d, n) == Found(w, IF Hit(w, d, n) THEN Child(w, d, n) ELSE 0)

Lookup(v, d, n) ==
  IF Hit(v, d, n) THEN Found(v, Child(v, d, n))
  ELSE LookupIn(IF CanPopulate(v, d) THEN Populate(v, d) ELSE v, d, n)

\* CreateFileIn and so on: the method after ensure_dir_populated.  A name that
\* is mapped is revived, whatever it is.
CreateFileIn(w, d, n) ==
  LET i == Child(w, d, n)
  IN IF i # 0 THEN Found([w EXCEPT !.node[i].gone = FALSE], i)
     ELSE Found([node |-> Put(w.node, w.next, Node(d, n, NoOid, FALSE)),
                 map  |-> Put(w.map, <<d, n>>, w.next),
                 kids |-> [w.kids EXCEPT ![d] = @ \cup {w.next}],
                 next |-> w.next + 1], w.next)

CreateFile(v, d, n) == CreateFileIn(Populate(v, d), d, n)

\* Never asks whether the name exists.
MkdirIn(w, d, n) ==
  Found([node |-> Put(w.node, w.next, Node(d, n, NoOid, TRUE)),
         map  |-> Put(w.map, <<d, n>>, w.next),
         kids |-> Put([w.kids EXCEPT ![d] = @ \cup {w.next}], w.next, {}),
         next |-> w.next + 1], w.next)

Mkdir(v, d, n) == MkdirIn(Populate(v, d), d, n)

\* Directories too, empty or not.
RemoveIn(w, d, n) ==
  LET i == Child(w, d, n)
  IN IF i = 0 THEN Found(w, 0)
     ELSE Found([w EXCEPT !.node[i].gone = TRUE,
                          !.kids[d] = @ \ {i},
                          !.map = Drop(@, <<d, n>>)], i)

RemoveNode(v, d, n) == RemoveIn(Populate(v, d), d, n)

\* Child i of directory d becomes a child of e.
Rehang(k, i, d, e) ==
  [c \in DOMAIN k |-> IF c = e THEN k[c] \cup {i} ELSE IF c = d THEN k[c] \ {i} ELSE k[c]]

\* Mutant: the node keeps its old name.
MoveKeepsName(x, i, d, n, e, m) ==
  [x EXCEPT !.node[i].up = e,
            !.map = Put(Drop(@, <<d, n>>), <<e, m>>, i),
            !.kids = Rehang(@, i, d, e)]

\* Mutant: the node becomes its own parent.
MoveToItself(x, i, d, n, e, m) ==
  [x EXCEPT !.node[i].up = i,
            !.node[i].nm = m,
            !.map = Put(Drop(@, <<d, n>>), <<e, m>>, i),
            !.kids = Rehang(@, i, d, e)]

\* Node i, name n of directory d, becomes name m of directory e.
Move(x, i, d, n, e, m) ==
  [x EXCEPT !.node[i].up = e,
            !.node[i].nm = m,
            !.map = Put(Drop(@, <<d, n>>), <<e, m>>, i),
            !.kids = Rehang(@, i, d, e)]

\* Mutant: the destination stays.
RenameInKeepsTarget(w, d, n, e, m) ==
  LET i == Child(w, d, n)
  IN IF i = 0 THEN Found(w, 0) ELSE Found(Move(w, i, d, n, e, m), i)

\* The destination is removed first, even when it is the source.
RenameIn(w, d, n, e, m) ==
  LET i == Child(w, d, n)
  IN IF i = 0 THEN Found(w, 0) ELSE Found(Move(RemoveIn(w, e, m).v, i, d, n, e, m), i)

Rename(v, d, n, e, m) == RenameIn(Populate(Populate(v, d), e), d, n, e, m)

\* Follows parents, deleted or not.
GetPath(v, i) ==
  LET path[j \in DOMAIN v.node] ==
        IF j = Root THEN << >>
        ELSE IF v.node[j].up = j THEN <<v.node[j].nm>>
        ELSE Append(path[v.node[j].up], v.node[j].nm)
  IN path[i]

LookupPath(v, p) ==
  LET at[k \in 0 .. Len(p)] ==
        IF k = 0 THEN Found(v, Root)
        ELSE LET r == at[k - 1] IN IF r.i = 0 THEN r ELSE Lookup(r.v, r.i, p[k])
  IN at[Len(p)]

\* What a lookup of n in directory d found, or else a new directory.
OrMkdir(l, d, n) ==
  IF l.i # 0 THEN l
  ELSE IF CanPopulate(l.v, d) THEN Mkdir(l.v, d, n) ELSE Found(l.v, 0)

\* Looks up or makes every directory above the last component.
EnsureParentDirs(v, p) ==
  LET at[k \in 0 .. Len(p) - 1] ==
        IF k = 0 THEN Found(v, Root)
        ELSE LET r == at[k - 1]
             IN IF r.i = 0 THEN r ELSE OrMkdir(Lookup(r.v, r.i, p[k]), r.i, p[k])
  IN at[Len(p) - 1]

-----------------------------------------------------------------------------
\* StagingStore: file maps a staged node to the content of its file, gone is
\* deleted_nodes, paths is changed_paths.

NewStaging == [file |-> [i \in {} |-> << >>], gone |-> {}, paths |-> {}]

Staged(s, i) == i \in DOMAIN s.file

Record(s, p) == [s EXCEPT !.paths = @ \cup ({p} \ {<< >>})]    \* record_changed_path

MarkDeleted(s, i) == [s EXCEPT !.gone = @ \cup {i}]

StageNew(s, i) == [s EXCEPT !.file = Put(@, i, << >>)]         \* create_file

\* Mutant: the file is opened for appending.
OverwriteAppends(c, off, b) == Append(c, b)

\* A write past the end fills the hole with zeros.
Overwrite(c, off, b) ==
  [k \in 1 .. (IF Len(c) > off THEN Len(c) ELSE off + 1) |->
     IF k = off + 1 THEN b ELSE IF k <= Len(c) THEN c[k] ELSE 0]

SetLen(c, n) == [k \in 1 .. n |-> IF k <= Len(c) THEN c[k] ELSE 0]

\* The file that is already there wins over initial_data.
StagedOr(s, i, init) == IF Staged(s, i) THEN s.file[i] ELSE init

WriteAt(s, i, off, b, init) ==
  [s EXCEPT !.file = Put(@, i, Overwrite(StagedOr(s, i, init), off, b))]

Truncate(s, i, n, init) ==
  [s EXCEPT !.file = Put(@, i, SetLen(StagedOr(s, i, init), n))]

HasModifications(s) == DOMAIN s.file # {} \/ s.gone # {} \/ s.paths # {}

\* get_base_data: a node without a blob, and a fetch that fails, give nothing.
BaseData(v, i, up) == IF v.node[i].o.t = "blob" /\ up THEN v.node[i].o.c ELSE << >>

\* What a read of file i returns: the staged file, or else the object.
Content(v, s, i) == IF Staged(s, i) THEN s.file[i] ELSE BaseData(v, i, TRUE)

-----------------------------------------------------------------------------
\* readdir.  A page is named by the inode of the last entry of the page before
\* it, 0 for the first one.

\* The children that are shown.
Children(v, s, d) ==
  {i \in Populate(v, d).kids[d] : Alive(Populate(v, d), i) /\ i \notin s.gone}

\* Inodes of the entries: ".", ".." and the children, in any order: that of
\* dir_children depends on the renames before.
Listings(v, s, d) == {<<d, v.node[d].up>> \o c : c \in SetToSeqs(Children(v, s, d))}

\* Mutant: a page starts at the entry that ended the page before.
StartIndexRepeats(l, after) ==
  IF \E k \in DOMAIN l : l[k] = after THEN SelectInSeq(l, LAMBDA x : x = after) - 1 ELSE 0

\* Entries before the page: up to the first with that inode, or none when it
\* is not there any more.
StartIndex(l, after) == SelectInSeq(l, LAMBDA x : x = after)

Page(l, after, size) ==
  SubSeq(l, StartIndex(l, after) + 1,
         IF StartIndex(l, after) + size < Len(l) THEN StartIndex(l, after) + size ELSE Len(l))
====
