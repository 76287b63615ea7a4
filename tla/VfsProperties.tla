---- MODULE VfsProperties ----
(* Properties of VfsCommit. *)
EXTENDS VfsCommit

\* The files of a Git tree below path p, with their content.
RECURSIVE FilesOf(_, _)
FilesOf(o, p) ==
  UNION {LET e == Entries(o)[k]  q == Append(p, e.n)
         IN IF e.o.t = "tree" THEN FilesOf(e.o, q) ELSE {<<q, e.o.c>>} : k \in DOMAIN Entries(o)}

Files(o) == FilesOf(o, << >>)

\* No tree has two entries of one name.
RECURSIVE Canonical(_)
Canonical(o) ==
  LET e == Entries(o)
  IN \A k \in DOMAIN e : Canonical(e[k].o) /\ \A j \in DOMAIN e : e[j].n = e[k].n => j = k

\* Entries are blobs or trees, in the order of Git: that of their names, with
\* a '/' at the end of the name of a tree.
RECURSIVE GitEntries(_)
GitEntries(o) ==
  LET e == Entries(o)
      at(k) == Place[<<e[k].n, e[k].o.t = "tree">>]
  IN \A k \in DOMAIN e : /\ e[k].n \in Names /\ e[k].o.t \in {"blob", "tree"}
                         /\ GitEntries(e[k].o)
                         /\ \A j \in 1 .. k - 1 : at(j) <= at(k)

\* What a client sees below directory d: every file with what a read returns,
\* every directory with a mark that is no content.
DirMark == <<-1>>

RECURSIVE SeenBelow(_, _, _, _)
SeenBelow(v, s, d, p) ==
  LET w == Populate(v, d)
  IN UNION {LET q == Append(p, w.node[i].nm)
            IN IF w.node[i].dir THEN {<<q, DirMark>>} \cup SeenBelow(w, s, i, q)
               ELSE {<<q, Content(w, s, i)>>} :
              i \in {j \in w.kids[d] : Alive(w, j) /\ j \notin s.gone}}

Seen(v, s) == SeenBelow(v, s, Root, << >>)

SeenFiles(v, s) == {x \in Seen(v, s) : x[2] # DirMark}

Clean(p) == \A k \in DOMAIN p : p[k] \notin Apple

Quiet == \A h \in Handlers : job[h] = Idle

-----------------------------------------------------------------------------
\* The commit or reboot of this step emptied the log.
LogConsumed == log # << >> /\ log' = << >>

ShowsLive(r) == r.ok /\ Seen(r.v, r.s) = Seen(live, stg)

(* The replay of the log shows what the clients see: every handler's entry *)
(* makes replay_wal_entries do to the base tree what the handler did to    *)
(* the served tree, by path instead of by inode, and no entry fails.  From *)
(* a boot to the first commit, for clients that check their calls, on a    *)
(* tree without duplicate names.                                           *)
ReplayMatchesLive ==
  fresh /\ Quiet /\ Canonical(base) =>
    ShowsLive(Replay(base, log, TRUE))

BuiltAgainSame(o) == Files(Built(o, log, TRUE)) = Files(o)

(* A log of creations, writes, truncations and removals can be replayed    *)
(* over a tree that has its changes already, as boot does after a crash    *)
(* between the publication of a commit and its done marker.                *)
ReplayTwiceIsOnce ==
  Quiet /\ log # << >> /\ (\A k \in DOMAIN log : log[k].op \notin {"mkdir", "rename"}) =>
    BuiltAgainSame(Built(base, log, TRUE))

(* A commit changes nothing but the paths that its log names (they are     *)
(* what the commit message is made of) and what is below them: the builder *)
(* keeps every other file although it rewrites whole directories.          *)
CommitChangesOnlyLogged ==
  [][LET named == {log[k].p : k \in DOMAIN log} \cup {log[k].q : k \in {j \in DOMAIN log : log[j].op = "rename"}}
         old == Files(base)
         new == Files(base')
     IN base' # base => \A x \in (old \ new) \cup (new \ old) : \E p \in named : IsPrefix(p, x[1])]_vars

\* Staged files of replay r are told apart by a mark before their content.
StagedFiles(r) ==
  {x \in SeenFiles(r.v, [r.s EXCEPT !.file = [i \in DOMAIN @ |-> <<-2>> \o @[i]]]) :
     Head(x[2] \o <<0>>) = -2 /\ Clean(x[1])}

(* Every file that the replay staged and still shows is in the commit's    *)
(* tree with its content, however deep: the builder finds every directory  *)
(* on the way to it.                                                       *)
CommitHasWrites ==
  [][LogConsumed /\ count'.boots = count.boots /\ count'.faults = count.faults =>
       \A x \in StagedFiles(Replay(base, log, TRUE)) : <<x[1], Tail(x[2])>> \in Files(base')]_vars

(* Files with the names of Apple metadata never get into a commit, whether *)
(* they were created, written or renamed to such a name.                   *)
NoAppleCommitted == \A x \in Files(base) : Clean(x[1])

(* The entries of every commit's trees have objects, although new          *)
(* directories have none in the tables, and are in the order of Git, where *)
(* a directory comes as if its name ended in '/', although renames and     *)
(* replays number them in another.  That no name is there twice, which Git *)
(* asks for too, is NamesStayApart.                                        *)
EntriesInGitOrder == base.t = "tree" /\ GitEntries(base)

\* Replayed over tree o, a mkdir of the log meets a name that is taken.
MkdirMeets(o) ==
  \E k \in DOMAIN log :
    /\ log[k].op = "mkdir"
    /\ LookupPath(Replay(o, SubSeq(log, 1, k - 1), TRUE).v, log[k].p).i # 0

(* README: a commit "builds canonical Git trees": none of them has a name  *)
(* twice, through creations, moves onto other entries and removals, with   *)
(* one exception.  VfsManager::mkdir never asks whether the name is taken: *)
(* a mkdir gives a name twice when it is replayed over what a commit did   *)
(* not remove, or again, over a commit that has it already.                *)
NamesStayApart ==
  [][base' # base /\ Canonical(base) /\ ~Canonical(base') =>
       \/ MkdirMeets(base)
       \/ LET once == Built(base, log, TRUE)
          IN count'.boots # count.boots /\ base' # once /\ MkdirMeets(once)]_vars

-----------------------------------------------------------------------------
ReplayedFiles(r) == {x \in SeenFiles(r.v, r.s) : Clean(x[1])}

(* README: the next startup "replays all mutations against the base Git    *)
(* tree": the commit's files are the files that the replay shows.          *)
CommitMatchesReplay ==
  [][LogConsumed => Files(base') = ReplayedFiles(Replay(base, log, TRUE))]_vars

(* README: "Changes are staged ... and immediately visible over NFS": a    *)
(* file that a client wrote reads the same after the commit.               *)
CommitKeepsView ==
  [][LogConsumed /\ live' = live => Seen(live', stg') = Seen(live, stg)]_vars
====
