---- MODULE VfsCommit ----
(***************************************************************************)
(* How edits become a commit: the NFS handlers (nfs/fs.rs) change the live *)
(* tree of module Vfs and append what they did to the write-ahead log; a   *)
(* commit, or the boot after a crash, replays the log into a fresh tree    *)
(* (wal/recovery.rs) and builds Git objects from it (git/builder.rs).      *)
(*                                                                         *)
(* A handler is one step up to an await on a fetch or on the log, and a    *)
(* replay with its build is one step: it works on its own tables and runs  *)
(* under the commit lock.  The life of logs and commits, failing appends   *)
(* included, is the subject of WalCommit; here the log is what decodes.    *)
(***************************************************************************)
EXTENDS Vfs, FiniteSets

CONSTANTS Handlers,    \* RPCs that can be in progress at the same time
          Names,       \* file names
          Place,       \* place of a name in Git's order, as a file and as a directory
          Bytes,       \* what clients write
          Apple,       \* names that is_apple_metadata filters
          Base,        \* root tree of the repository
          Offsets,     \* where a write or a truncation can be
          Calls,       \* kinds of calls that clients make
          Careful,     \* clients check a call as a kernel does (see Allowed)
          PageSizes,   \* entries of a readdir page that clients ask for
          MaxOps, MaxCommits,
          MaxMishaps   \* bound on reboots and failed fetches together

ASSUME ConstantsAssumption ==
  /\ Names \subseteq Nat \ {0} /\ Apple \subseteq Names
  /\ Place \in [Names \X BOOLEAN -> Nat]
  /\ \A x, y \in Names \X BOOLEAN : Place[x] = Place[y] => x = y
  /\ Offsets \subseteq Nat /\ Bytes \subseteq Nat
  /\ Careful \in BOOLEAN
  /\ PageSizes \subseteq Nat \ {0, 1}
  /\ \A k \in {MaxOps, MaxCommits, MaxMishaps} : k \in Nat

VARIABLES live, stg,   \* the served VfsManager and StagingStore
          log,         \* entries of the logs that are not done
          base,        \* current_root_oid, the tree of the last commit
          job,         \* what each handler is about to do
          fresh,       \* no commit and no failed fetch since the boot
          count        \* steps taken, for the bounds

vars == <<live, stg, log, base, job, fresh, count>>

-----------------------------------------------------------------------------
\* Replay (replay_wal_entries).  z is the fresh tree and staging area; an
\* error ends the replay.

Failing(z) == [z EXCEPT !.ok = FALSE]
With(z, v) == [z EXCEPT !.v = v]

\* r is the parent directory that ensure_parent_dirs returned.
CreateAt(z, r, n) ==
  IF r.i = 0 \/ ~CanPopulate(r.v, r.i) THEN Failing(z)
  ELSE LET c == CreateFile(r.v, r.i, n)
       IN [v |-> c.v, s |-> StageNew(z.s, c.i), ok |-> TRUE]

\* CreateFile entry, and a Write entry whose file is not there.
ReplayCreate(z, p) == CreateAt(z, EnsureParentDirs(z.v, p), Last(p))

MkdirAt(z, r, n) ==
  IF r.i = 0 \/ ~CanPopulate(r.v, r.i) THEN Failing(z) ELSE With(z, Mkdir(r.v, r.i, n).v)

ReplayMkdir(z, p) == MkdirAt(z, EnsureParentDirs(z.v, p), Last(p))

\* What a lookup of path p found, or else a new file.
OrCreate(z, r, p) == IF r.i # 0 THEN With(z, r.v) ELSE ReplayCreate(With(z, r.v), p)

\* Mutant: the replayed write starts from an empty file.
WriteToEmpty(z, i, off, b, up) ==
  IF ~z.ok THEN z ELSE [z EXCEPT !.s = WriteAt(@, i, off, b, << >>)]

WriteTo(z, i, off, b, up) ==
  IF ~z.ok THEN z ELSE [z EXCEPT !.s = WriteAt(@, i, off, b, BaseData(z.v, i, up))]

WritePath(z, p, off, b, up) == WriteTo(z, LookupPath(z.v, p).i, off, b, up)

ReplayWrite(z, p, off, b, up) == WritePath(OrCreate(z, LookupPath(z.v, p), p), p, off, b, up)

TruncateTo(z, r, n, up) ==
  IF r.i = 0 THEN With(z, r.v)
  ELSE [z EXCEPT !.v = r.v, !.s = Truncate(@, r.i, n, BaseData(r.v, r.i, up))]

ReplayTruncate(z, p, n, up) == TruncateTo(z, LookupPath(z.v, p), n, up)

RemoveUnder(q, n) == RemoveNode(q.v, q.i, n).v

RemoveFound(z, r, p) ==
  IF r.i = 0 THEN With(z, r.v)
  ELSE [z EXCEPT !.v = RemoveUnder(EnsureParentDirs(r.v, p), Last(p)), !.s = MarkDeleted(@, r.i)]

ReplayRemove(z, p) == RemoveFound(z, LookupPath(z.v, p), p)

\* Mutant: the directory that gets the entry is not populated.
RenameToUnpopulated(z, d, t, n, m) ==
  IF t.i = 0 \/ ~CanPopulate(t.v, d) \/ ~CanPopulate(t.v, t.i) THEN With(z, t.v)
  ELSE With(z, RenameIn(Populate(t.v, d), d, n, t.i, m).v)

\* Errors of rename are ignored, the directories it made on the way stay.
RenameTo(z, d, t, n, m) ==
  IF t.i = 0 \/ ~CanPopulate(t.v, d) \/ ~CanPopulate(t.v, t.i) THEN With(z, t.v)
  ELSE With(z, Rename(t.v, d, n, t.i, m).v)

RenameFrom(z, f, p, q) ==
  IF f.i = 0 THEN With(z, f.v)
  ELSE RenameTo(z, f.i, EnsureParentDirs(f.v, q), Last(p), Last(q))

ReplayRename(z, p, q) == RenameFrom(z, EnsureParentDirs(z.v, p), p, q)

ReplayOp(z, e, up) ==
  CASE e.op = "create" -> ReplayCreate(z, e.p)
    [] e.op = "mkdir"  -> ReplayMkdir(z, e.p)
    [] e.op = "write"  -> ReplayWrite(z, e.p, e.off, e.b, up)
    [] e.op = "trunc"  -> ReplayTruncate(z, e.p, e.off, up)
    [] e.op = "remove" -> ReplayRemove(z, e.p)
    [] e.op = "rename" -> ReplayRename(z, e.p, e.q)

\* Every entry notes its paths; the first error ends the replay.
ReplayEntry(z, e, up) ==
  IF ~z.ok THEN z
  ELSE ReplayOp([z EXCEPT !.s = IF e.op = "rename" THEN Record(Record(@, e.p), e.q)
                                ELSE Record(@, e.p)], e, up)

\* up: the blobs that the replay needs can be fetched.
Replay(o, l, up) ==
  LET after[k \in 0 .. Len(l)] ==
        IF k = 0 THEN [v |-> NewVfs(o), s |-> NewStaging, ok |-> TRUE]
        ELSE ReplayEntry(after[k - 1], l[k], up)
  IN after[Len(l)]

-----------------------------------------------------------------------------
\* Building the commit's trees (rebuild_git_objects).

\* 1. Staged files that still exist become blobs.
WithBlobs(v, s) ==
  [v EXCEPT !.node = [i \in DOMAIN v.node |->
     IF Staged(s, i) /\ Alive(v, i) /\ v.node[i].nm \notin Apple
     THEN [v.node[i] EXCEPT !.o = Blob(s.file[i])] ELSE v.node[i]]]

\* Mutant: only the directory of the node itself.
DirtyDirsParentOnly(v, s) ==
  {Root} \cup {v.node[i].up : i \in {j \in DOMAIN s.file \cup s.gone : ~v.node[j].gone}}

\* 2. The directories above staged and deleted nodes, as far as get_node
\* still finds the nodes on the way.
DirtyDirs(v, s) ==
  LET above[j \in DOMAIN v.node] ==
        LET up == v.node[j].up
        IN IF v.node[j].gone THEN {}
           ELSE (IF v.node[j].dir THEN {j} ELSE {}) \cup {up}
                \cup (IF up = Root \/ up = j THEN {} ELSE above[up])
  IN {Root} \cup UNION {above[i] : i \in DOMAIN s.file \cup s.gone}

Sorted(S, Less(_, _)) ==
  [k \in 1 .. Cardinality(S) |-> CHOOSE i \in S : Cardinality({j \in S : Less(j, i)}) = k - 1]

\* Mutant: directories are compared without the trailing '/'.
EntryLessPlain(v, i, j) ==
  LET at(k) == Place[<<v.node[k].nm, FALSE>>]
  IN at(i) < at(j) \/ (at(i) = at(j) /\ i < j)

\* compare_tree_entries: the name of a directory has a '/' at its end.  Equal
\* names keep the order of the list.
EntryLess(v, i, j) ==
  LET at(k) == Place[<<v.node[k].nm, v.node[k].dir>>]
  IN at(i) < at(j) \/ (at(i) = at(j) /\ i < j)

\* Mutant: directories that are not dirty are left out.
RebuildTreeDropsClean(v, s, dirty) ==
  LET tree[d \in DOMAIN v.node] ==
        LET w == Populate(v, d)
            c == Sorted({i \in w.kids[d] : /\ Alive(w, i) /\ i \notin s.gone /\ w.node[i].nm \notin Apple
                                           /\ w.node[i].dir => i \in dirty},
                        LAMBDA i, j : EntryLess(w, i, j))
            oid(i) == IF w.node[i].dir THEN tree[i] ELSE w.node[i].o
        IN Tree(SelectSeq([k \in DOMAIN c |-> [n |-> w.node[c[k]].nm, o |-> oid(c[k])]],
                          LAMBDA x : x.o.t # "none"))
  IN tree[Root]

\* Mutant: Apple metadata is filtered only where blobs are made.
RebuildTreeUnfiltered(v, s, dirty) ==
  LET tree[d \in DOMAIN v.node] ==
        LET w == Populate(v, d)
            c == Sorted({i \in w.kids[d] : Alive(w, i) /\ i \notin s.gone},
                        LAMBDA i, j : EntryLess(w, i, j))
            oid(i) == IF w.node[i].dir /\ i \in dirty THEN tree[i] ELSE w.node[i].o
        IN Tree(SelectSeq([k \in DOMAIN c |-> [n |-> w.node[c[k]].nm, o |-> oid(c[k])]],
                          LAMBDA x : x.o.t # "none"))
  IN tree[Root]

\* 3. rebuild_tree_recursive: directories that are not dirty keep their id,
\* nodes without one are left out.
RebuildTree(v, s, dirty) ==
  LET tree[d \in DOMAIN v.node] ==
        LET w == Populate(v, d)
            c == Sorted({i \in w.kids[d] : Alive(w, i) /\ i \notin s.gone /\ w.node[i].nm \notin Apple},
                        LAMBDA i, j : EntryLess(w, i, j))
            oid(i) == IF w.node[i].dir /\ i \in dirty THEN tree[i] ELSE w.node[i].o
        IN Tree(SelectSeq([k \in DOMAIN c |-> [n |-> w.node[c[k]].nm, o |-> oid(c[k])]],
                          LAMBDA x : x.o.t # "none"))
  IN tree[Root]

Rebuild(r) == RebuildTree(WithBlobs(r.v, r.s), r.s, DirtyDirs(r.v, r.s))

\* The root tree that a commit of log l on tree o gets.
Built(o, l, up) == Rebuild(Replay(o, l, up))

-----------------------------------------------------------------------------
\* Handlers.  A call that the code answers with an error changes at most
\* which directories are populated, as a LOOKUP does.

Idle == [pc |-> "idle"]

Init ==
  /\ base = Base
  /\ live = NewVfs(Base)
  /\ stg = NewStaging
  /\ log = << >>
  /\ job = [h \in Handlers |-> Idle]
  /\ fresh = TRUE
  /\ count = [ops |-> 0, commits |-> 0, boots |-> 0, faults |-> 0]

Start(h, kind) == job[h] = Idle /\ kind \in Calls /\ count.ops < MaxOps

Mishap == count.boots + count.faults < MaxMishaps

Counted == count' = [count EXCEPT !.ops = @ + 1]

\* record_mutation has noted the path in stg; log_mutation comes next.
LogNext(h, e) == job' = [job EXCEPT ![h] = [pc |-> "log", e |-> e]]

\* Kernels of clients see to it that handles are of things that exist, that
\* the name of a new directory is free, that only empty directories are
\* removed or replaced, and that nothing is moved onto or below itself.
Allowed(ok) == Careful => ok

Shown(i) ==
  LET shown[j \in DOMAIN live.node] ==
        /\ Alive(live, j) /\ j \notin stg.gone
        /\ j # Root => shown[live.node[j].up]
  IN shown[i]

\* Directory d is i or below it.
Below(d, i) ==
  LET below[j \in DOMAIN live.node] == j = i \/ (j # Root /\ below[live.node[j].up])
  IN below[d]

EmptyDir(w, i) == Populate(w, i).kids[i] = {}

\* What is at name n of directory d may give way to a file or to a directory.
Replaceable(w, d, n, dir) ==
  LET i == Child(w, d, n)
  IN i # 0 => w.node[i].dir = dir /\ (dir => EmptyDir(w, i))

NfsLookup(d) ==
  /\ CanPopulate(live, d) /\ d \notin DOMAIN live.kids
  /\ live' = Populate(live, d)
  /\ UNCHANGED <<stg, log, base, job, fresh, count>>

\* create and create_exclusive
NfsCreate(h, d, n) ==
  /\ Start(h, "create")
  /\ CanPopulate(live, d)
  /\ Allowed(Shown(d) /\ Replaceable(Populate(live, d), d, n, FALSE))
  /\ LET r == CreateFile(live, d, n)
         p == Append(GetPath(r.v, d), n)
     IN /\ live' = r.v
        /\ stg' = Record(StageNew(stg, r.i), p)
        /\ LogNext(h, [op |-> "create", p |-> p])
  /\ Counted
  /\ UNCHANGED <<log, base, fresh>>

NfsMkdir(h, d, n) ==
  /\ Start(h, "mkdir")
  /\ CanPopulate(live, d)
  /\ Allowed(Shown(d) /\ Child(Populate(live, d), d, n) = 0)
  /\ LET r == Mkdir(live, d, n)
         p == Append(GetPath(r.v, d), n)
     IN /\ live' = r.v
        /\ stg' = Record(stg, p)
        /\ LogNext(h, [op |-> "mkdir", p |-> p])
  /\ Counted
  /\ UNCHANGED <<log, base, fresh>>

NfsRemove(h, d, n) ==
  /\ Start(h, "remove")
  /\ CanPopulate(live, d)
  /\ LET w == Populate(live, d)
         r == RemoveNode(live, d, n)
         p == Append(GetPath(r.v, d), n)
     IN /\ r.i # 0
        /\ Allowed(Shown(d) /\ (w.node[r.i].dir => EmptyDir(w, r.i)))
        /\ live' = r.v
        /\ stg' = Record(MarkDeleted(stg, r.i), p)
        /\ LogNext(h, [op |-> "remove", p |-> p])
  /\ Counted
  /\ UNCHANGED <<log, base, fresh>>

NfsRename(h, d, n, e, m) ==
  /\ Start(h, "rename")
  /\ CanPopulate(live, d) /\ CanPopulate(live, e)
  /\ LET w == Populate(Populate(live, d), e)
         r == Rename(live, d, n, e, m)
         p == Append(GetPath(live, d), n)
         q == Append(GetPath(live, e), m)
     IN /\ r.i # 0
        /\ Allowed(/\ Shown(d) /\ Shown(e) /\ p # q
                   /\ Replaceable(w, e, m, w.node[r.i].dir)
                   /\ ~Below(e, r.i))
        /\ live' = r.v
        /\ stg' = Record(Record(stg, p), q)
        /\ LogNext(h, [op |-> "rename", p |-> p, q |-> q])
  /\ Counted
  /\ UNCHANGED <<log, base, fresh>>

\* Mutant: a directory is taken for a file.
WritableAny(i) == i \notin stg.gone /\ Alive(live, i)

\* The checks of write and setattr.
Writable(i) == i \notin stg.gone /\ Alive(live, i) /\ ~live.node[i].dir

\* The fetch of the base data before a write or a truncation, which is taken
\* only when nothing is staged and is empty when the fetch fails.
Fetch(h, kind, i, off, b) ==
  /\ Start(h, kind)
  /\ Writable(i)
  /\ Allowed(Shown(i))
  /\ \E up \in BOOLEAN :
       /\ up \/ (Mishap /\ ~Staged(stg, i))
       /\ job' = [job EXCEPT ![h] = [pc |-> kind, i |-> i, off |-> off, b |-> b,
                                     init |-> IF Staged(stg, i) THEN << >> ELSE BaseData(live, i, up)]]
       /\ fresh' = (fresh /\ up)
       /\ count' = [count EXCEPT !.ops = @ + 1, !.faults = IF up THEN @ ELSE @ + 1]
  /\ UNCHANGED <<live, stg, log, base>>

NfsWrite(h) ==
  LET j == job[h]  p == GetPath(live, j.i)
  IN /\ j.pc = "write"
     /\ stg' = Record(WriteAt(stg, j.i, j.off, j.b, j.init), p)
     /\ LogNext(h, [op |-> "write", p |-> p, off |-> j.off, b |-> j.b])
     /\ UNCHANGED <<live, log, base, fresh, count>>

NfsSetattr(h) ==
  LET j == job[h]  p == GetPath(live, j.i)
  IN /\ j.pc = "trunc"
     /\ stg' = Record(Truncate(stg, j.i, j.off, j.init), p)
     /\ LogNext(h, [op |-> "trunc", p |-> p, off |-> j.off])
     /\ UNCHANGED <<live, log, base, fresh, count>>

LogMutation(h) ==
  /\ job[h].pc = "log"
  /\ log' = Append(log, job[h].e)
  /\ job' = [job EXCEPT ![h] = Idle]
  /\ UNCHANGED <<live, stg, base, fresh, count>>

-----------------------------------------------------------------------------
\* Replay r gives a new root; without modifications there is no commit.
Publish(r) == r.ok /\ HasModifications(r.s) /\ base' = Rebuild(r)

\* perform_commit under the commit lock.  The served tables keep their nodes
\* and the nodes their object ids; the staging area is emptied.  A replay
\* that fails leaves everything for the next attempt.
Commit ==
  /\ \A h \in Handlers : job[h] = Idle
  /\ count.commits < MaxCommits
  /\ \E up \in BOOLEAN :
       /\ up \/ Mishap
       /\ Publish(Replay(base, log, up))
       /\ count' = [count EXCEPT !.commits = @ + 1, !.faults = IF up THEN @ ELSE @ + 1]
  /\ log' = << >>
  /\ stg' = NewStaging
  /\ fresh' = FALSE
  /\ UNCHANGED <<live, job>>

\* A log can be published and not marked done only when no call was going on.
PublishedLog == /\ log # << >> /\ \A h \in Handlers : job[h] = Idle
                /\ Replay(base, log, TRUE).ok

\* Boot over tree o with the replay r of the log.
Recover(o, r) == r.ok /\ base' = IF HasModifications(r.s) THEN Rebuild(r) ELSE o

\* The process dies and boots again: the log is replayed over the tree of the
\* branch.  When the crash came after the publication of a commit and before
\* the log was marked done, that tree has the log's changes already.
Reboot ==
  /\ Mishap
  /\ \/ Recover(base, Replay(base, log, TRUE))
     \/ PublishedLog /\ \E o \in {Built(base, log, TRUE)} : Recover(o, Replay(o, log, TRUE))
  /\ live' = NewVfs(base')
  /\ log' = << >>
  /\ stg' = NewStaging
  /\ job' = [h \in Handlers |-> Idle]
  /\ fresh' = TRUE
  /\ count' = [count EXCEPT !.boots = @ + 1]

Next ==
  \/ \E d \in DOMAIN live.node : NfsLookup(d)
  \/ \E h \in Handlers :
       \/ \E d \in DOMAIN live.node, n \in Names :
            NfsCreate(h, d, n) \/ NfsMkdir(h, d, n) \/ NfsRemove(h, d, n)
       \/ \E d, e \in DOMAIN live.node, n, m \in Names : NfsRename(h, d, n, e, m)
       \/ \E i \in DOMAIN live.node, off \in Offsets :
            (\E b \in Bytes : Fetch(h, "write", i, off, b)) \/ Fetch(h, "trunc", i, off, 0)
       \/ NfsWrite(h) \/ NfsSetattr(h) \/ LogMutation(h)
  \/ Commit \/ Reboot

Spec == Init /\ [][Next]_vars

-----------------------------------------------------------------------------
\* Names, parents and children in the tables of v match.
InStep(v) ==
  /\ \A x \in DOMAIN v.map :
       LET i == v.map[x]
       IN /\ i \in DOMAIN v.node /\ v.node[i].up = x[1] /\ v.node[i].nm = x[2]
          /\ x[1] \in DOMAIN v.kids /\ i \in v.kids[x[1]]
  /\ \A d \in DOMAIN v.kids : \A i \in v.kids[d] : i \in DOMAIN v.node /\ v.node[i].up = d
  /\ \A i \in DOMAIN v.node : i < v.next

(* The three tables of VfsManager tell one story: a mapped name is that of *)
(* the node, under its parent and among the parent's children; children    *)
(* have the directory as parent; inode numbers are never given twice.      *)
TablesAgree == InStep(live)

(* Every node is below the root: no set of nodes has all its parents among *)
(* itself, also while directories are populated and moved.  Otherwise      *)
(* get_path, which every mutating handler calls, would follow parents for  *)
(* ever.  For clients that move nothing below itself: rename never asks.   *)
TreeIsRooted ==
  \A S \in SUBSET (DOMAIN live.node \ {Root}) :
    S # {} => \E i \in S : live.node[i].up \in DOMAIN live.node \ S

\* What n pages of the listing l, one after the other, give.
Pages(l, size, n) ==
  LET upto[k \in 0 .. n] ==
        IF k = 0 THEN << >>
        ELSE upto[k - 1] \o Page(l, IF k = 1 THEN 0 ELSE Last(upto[k - 1]), size)
  IN upto[n]

\* The children of the listing l, without "." and "..".
ListsOnce(l, size) ==
  LET got == Pages(l, size, Len(l) - 1)
  IN \A k \in 3 .. Len(l) : Cardinality({j \in DOMAIN got : got[j] = l[k]}) = 1

(* Reading a directory page by page gives every child once and comes to an *)
(* end, in pages of two entries or more: at the root "." and ".." have one *)
(* inode, so that a page which ends there is continued after the first of  *)
(* them.                                                                   *)
ReaddirComplete ==
  \A d \in DOMAIN live.kids : Alive(live, d) =>
    \A size \in PageSizes : \A l \in Listings(live, stg, d) : ListsOnce(l, size)

IsPath(p) == p \in Seq(Nat \ {0}) /\ p # << >>

NamesPaths(e) == IsPath(e.p) /\ (e.op = "rename" => IsPath(e.q))

(* Every mutation in the log, and every one that a handler is about to     *)
(* append, names something below the root.  A handler takes the path from  *)
(* get_path after its await, when the node may have been moved or removed; *)
(* a replay splits every path into parent and name.                        *)
LoggedPaths ==
  /\ \A k \in DOMAIN log : NamesPaths(log[k])
  /\ \A h \in Handlers : job[h].pc = "log" => NamesPaths(job[h].e)

ReplayedInStep(r) == InStep(r.v) /\ DOMAIN r.s.file \cup r.s.gone \subseteq DOMAIN r.v.node

(* A replay of the log keeps its own tables in step, through directories   *)
(* made on the way, names used twice and errors that it ignores; and what  *)
(* it staged or deleted are nodes of these tables, where the tree builder  *)
(* looks them up: a write finds the file it just made, a removal the       *)
(* directory it removes from.                                              *)
ReplayInStep == ReplayedInStep(Replay(base, log, TRUE))
====
