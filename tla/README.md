# A verification project for git-nfs

git-nfs mounts a Git repository (a bucket of Google Cloud Storage, or an HTTP
remote) over NFS, lets the user edit it, and turns the edits into commits. These
TLA+ modules model the parts whose correctness depends on interleavings, crashes
and failures. TLC checks them on small instances, TLAPS proves the main results
for every instance. `PROJECT.json` lists the runs, the source lines behind every
definition, the hazards and the theorems.

## The system

| Component | State | Operations | Talks to |
|---|---|---|---|
| NFS handlers (`nfs/fs.rs`) | dirty flag, time of the last mutation, commit lock | one task per RPC: lookup, read, write, create, mkdir, remove, rename, setattr, readdir | VFS, staging, WAL, Git engine |
| VFS (`vfs/inode.rs`) | inodes, names, children, object ids | populate, lookup, create, mkdir, remove, rename | Git engine (trees) |
| Staging (`staging/mod.rs`) | staged files, deleted nodes, changed paths | create, write, truncate, mark deleted, reset | local disk |
| WAL (`wal/`) | active sequence and writer; `<N>.log`, `<N>.done`, `<N>.pack`, `<N>.idx` in a bucket or directory | start, log a mutation, finalize, list, lock out, replay, mark done | the store, VFS and staging of its own for the replay |
| Commit cycle (`main.rs`) | root and base commit, timer, stop signal | boot, auto-commit after 30 s, shutdown commit | all of the above |
| Tree builder (`git/builder.rs`) | none | blobs, trees and commit of a replay | VFS, staging |
| GCS storage (`git/gcs_storage.rs`) | pack indexes; packs, refs and info files in the bucket | resolve HEAD, read objects, publish a commit | block cache |
| Caches (`cache/`, `git/mod.rs`) | LRU maps, files, downloads in flight | get or fetch a block, get a blob, prefetch a directory | GCS storage or HTTP client |
| Formats (`git/pack.rs`, `idx.rs`, `tree.rs`, `protocol.rs`) | none | parse and write | - |

What is hard here:

- *Concurrency.* nfsserve runs a task per RPC; the timer, the stop signal and the
  prefetches are further tasks. Handlers hold the commit lock for reading, a
  commit holds it for writing.
- *Crashes.* A commit is a sequence of writes to several stores; the process may
  die between any two, and boot must continue from what it finds.
- *Failure.* Many errors are ignored (`let _ =`, an unreadable marker counts as
  absent), others end a commit half way and are retried a second later.
- *Several servers.* A server that was believed dead may still run.

What makes the parts correct: an acknowledged mutation is never lost, the branch
never loses a mutation, a commit's tree agrees with its parent, a replay builds
what the clients saw, a reader gets the whole object and gets it eventually.

## Modules

| Module | Contents |
|---|---|
| `WalCommit` | the WAL, both backends, boot, auto-commit, shutdown and recovery |
| `WalProperties` | properties of `WalCommit`, the refinement mapping, the inductive invariant |
| `DurableStore` | what the WAL promises: an abstract store with two sets that only grow |
| `WalCommitProofs`, `WalDurabilityProofs`, `WalSafetyProofs` | proofs about `WalCommit` |
| `ObjectCache` | block cache, blob cache and prefetch with shared downloads, and their properties |
| `ObjectCacheProofs` | proofs about `ObjectCache` |
| `Vfs` | the inode tables and the staging area as values, their methods as operators |
| `VfsCommit` | the NFS handlers on `Vfs`, the log, replay, tree builder, commit and reboot; the invariants of tables, tree, listings, logged paths and replays |
| `VfsProofs` | proofs about the inode tables |
| `VfsTreeProofs` | proofs about the shape of the served tree and the pages of readdir |
| `VfsReplayProofs` | proofs about the paths in the log and the tables of a replay |
| `VfsProperties` | properties of `VfsCommit` (recursive over trees, so nothing is proved in it) |
| `GcsPublish` | refs, packs and info files of a GCS repository: boot, publication upload by upload, their properties and the inductive invariant |
| `GcsPublishProofs` | proofs about `GcsPublish` |
| `MCWal`, `MCCache`, `MCVfs`, `MCGcs` | what TLC is run on |

Definitions named as mutants in a comment are wrong variants of the definition
after them. They are used only to see that a property notices the difference.

### WalCommit

A mutation is an element of `Muts`. A commit's tree is the bag of the mutations
applied to it, a log is the set of mutations that decode from it: the properties
only ask where a mutation is. All else is control and is kept.

| State | Code |
|---|---|
| `log[q]` | `<q>.log` and `<q>.done`: entries, broken frame at the end, base commit of the header, sealed (finalized on GCS, read-only locally), owner (generation), done |
| `tree`, `parent`, `head`, `published`, `saved` | commits built; the branch on GCS; the packs in the WAL or the output directory |
| `srv[s].pc` | place in `main`, `perform_commit` and `recover_and_replay_uncommitted` |
| `srv[s].root`, `seq`, `writer`, `dirty` | `current_root_oid` (with `current_base_commit_oid`), `active_seq`, `active_writer`, `has_uncommitted_changes` |
| `srv[s].todo`, `pend` | `uncommitted_seqs` still to mark, the commit that was built |
| `op`, `at`, `accepted` | handler of each mutation: staged (inside the lock), acknowledged, lost; whether the store accepted its append |

`Stage` and `LogMutation` are the two halves of a mutating handler. `Tick` or
`StopSignal`, `LockForCommit`, `Finalize`, `ListAndLockout`, `Replay`, `Publish`,
`MarkDone` and `UploadPack` per log, `Adopt`, `OpenWal` are a commit, one step per
call that changes a store. Boot enters at `ListAndLockout`. Each `...Err` action is
a failing call with what it leaves behind: `AppendErr` a broken frame,
`FinalizeErr` an object sealed or not, `PublishErr` a branch that is already
written, `UploadErr` a log that is done without a pack, `OpenErr` a log without
header. `ListErr` has the two errors that the code ignores. `Crash` clears the
process.

Listing, locking out and looking for done markers are one step: with one server
nothing else writes logs in between, and for the run with two servers fewer
interleavings only make a violation harder to find.

### ObjectCache

A request is a task in `get_or_fetch_block` (a block), `get_blob_arc` (a blob) or
`prefetch_directory_blobs` (a blob, no sharing). `mem`, `disk` and `flight` are the
LRU map, the files and `in_flight`; content is none, part or whole. Taking the
Notify out of the map (`Register`) and calling `notified()` (`Subscribe`) are two
steps, because the lock is released in between, and so are taking the entry out
(`Remove`) and `notify_waiters` (`Notify`). A block's file appears by a rename, a
blob's file is truncated and then written. `Evict` may empty the LRU at any time,
because the other objects that fill it are not represented. The runtime has several
threads, so the steps of tasks interleave freely even between two `await`s.

### Vfs, VfsCommit, VfsProperties

The code has two copies of VFS and staging, the served one and a fresh one for each
replay, so `Vfs` makes them values: `node` (the inodes), `map` (`child_map`), `kids`
(`dir_children`), `next` (`next_inode`); `file`, `gone` and `paths` of the staging area.
An object id is the object itself, a blob with its content or a tree with its
entries: SHA-1 is taken to be injective, and equal ids are then equal objects. Names
are numbers, content is a short sequence of bytes. Git orders the entries of a tree
with a `/` at the end of a directory's name, so one name has two places in that order:
`Place` gives the place of each name as a file and as a directory. Modes, sizes and times
are left out.

`NfsCreate`, `NfsMkdir`, `NfsRemove`, `NfsRename` are a handler up to its append;
`Fetch` and then `NfsWrite` or `NfsSetattr` are the two with an await before their
change; `LogMutation` is the append. `NfsLookup` populates a directory, as lookup and
readdir do. `Listings` and `Page` are what readdir returns: `dir_children` is a list
whose order depends on the renames before, so a listing has the children in any order,
and `PageSizes` are the numbers of entries that clients ask for. `Replay` is
`replay_wal_entries`, arm by arm, with the errors it returns and the ones it ignores; `Rebuild` is `rebuild_git_objects`: blobs, dirty directories,
recursion. `Commit` is `perform_commit`: the replay's tree becomes the base, staging is
emptied, the served nodes stay as they are. `Reboot` replays the log over the base,
or over a tree that has it already when the crash came after the publication.

`Allowed` is what the kernel of an NFS client checks before it calls (`Careful`): that
a new directory's name is free, that a directory to be removed is empty, that
nothing is moved onto or below itself. The code relies on it. Without it a `mkdir`
of a used name gives a tree two entries of that name, a rename onto itself deletes
the file, and a directory moved below itself makes `get_path` run forever.

What a commit writes must be a tree that Git accepts. Two properties say so.
`EntriesInGitOrder`: every entry has an object, and the entries are in Git's order.
`NamesStayApart`: a name is not there twice. This one has an exception, because replaying a
`mkdir` never asks whether the name is taken, and a replay is no careful client. After
a crash between publication and done marker the log is replayed over a commit that
has the directory already; and a file which a commit failed to remove (`vfs_removed`)
is still in the tree when a directory of its name is made later. The property says that
a commit gets a name twice in no other way, and TLC finds it violated without either of the two
exceptions.

### GcsPublish

A commit is a number; `needs` are the commits whose packs hold its objects, `anc` its
history. They differ: a commit's tree is built on the root the server booted from,
its parent is the base in the log's header. The bucket is `packs`, `idxs`, `loose`,
`head`, `refs`, `packed`, `infoRefs`, `infoPacks`.

`refresh_pack_indexes` and `update_server_info` send one `list_objects` request and never
ask for a second page. `FirstPage` is what they get: the first `page` objects in the order
of their names (`PackPlace`, `RefPlace`). The names of packs are hashes, so a new pack may
push an old one off the page. Each commit adds two objects to `objects/pack/` and none
is ever deleted, so a server that commits long enough outgrows the page; then a boot
misses indexes, trees are skipped and packs are not advertised. `PacksListed` and
`RefsListed` say that a listing fits on its page.

`Connect` loads the indexes, `Initialize` resolves the ref and loads commit and trees,
`Build` replays the log, then `OpenObject` and `FillObject` take turns for pack, index,
HEAD, branch, info/refs and objects/info/packs, with `Refresh` in the middle
(`StepAfter` is the order), then `MarkDone` and `AdoptAndOpen`. An appendable object is
visible once it is opened (recovery reads logs that were never finalized), so an
upload first empties its object. `UploadErr`, `FinalizeErr` and `RefreshErr` end a commit,
`Crash` ends the process. Reads whose errors the code ignores are the sets `blind` and
`skipped`. `harm` records what the code cannot make good: an index, HEAD or branch
left empty, and an ignored read error. The properties name what they do not survive:

| Property | Holds |
|---|---|
| `RefsComplete` | always |
| `KeepsCommits` | while `harm = {}`, whatever the listings leave out |
| `Bootable`: indexes parse | unless an index was left empty |
| `Bootable`: HEAD or branch resolves | unless the branch was left empty, HEAD was and there is no `--branch`, or the server stopped between turning HEAD to a new branch and writing that branch |
| `Bootable`: what it resolves to can be read | while `objects/pack/` fits on a page |
| `Cloneable`: info/refs is right | unless a read failed, while `refs/` fits on a page |
| `Cloneable`: the packs are advertised | unless a read failed, while `objects/pack/` fits on a page |
| `TreesLoaded` | while `harm = {}` and `objects/pack/` fits on a page |

The exceptions are faults of the code: TLC finds the property violated without any one
of these conditions.

## Runs

| Run | Question | Result |
|---|---|---|
| `wal_crash` | one server, GCS; two crashes anywhere, one failure of a kind that is retried safely | nothing acknowledged or logged is lost, the branch only grows, commits keep their parents, a clean exit leaves nothing behind, the abstract store is implemented, logged mutations are published |
| `wal_faults` | the same with two failures of any kind | a log is done only after publication; the dirty flag covers the log |
| `wal_zombie` | two servers, no failures | **violated**: a locked-out server commits, opens a new log and is accepted again |
| `wal_saved` | HTTP remote, local WAL, a crash between `<N>.done` and `<N>.pack` | **violated**: acknowledged mutations are in no log and in no pack |
| `cache_shared` | three requests, a block and a blob, a failing download, failing writes, evictions | blocks are downloaded one at a time and never torn; who is subscribed is woken |
| `cache_wakeup` | two requests for a block, no failure | **violated**: the wake-up comes between lookup and subscription, the reader hangs |
| `cache_torn` | two requests for a blob | **violated**: a part of the blob is read while it is written |
| `vfs_commit` | three calls of any kind on a repository with a directory and a file, a commit, a reboot or a failed fetch anywhere | the inode tables agree and every node stays below the root; what is logged names something below the root; a replay keeps its own tables in step and shows what the clients see; replaying creations, writes, truncations and removals twice is replaying them once; a commit has what was written, changes only what was logged, never has Apple metadata, has its entries in Git's order, and has a name twice only by a `mkdir` replayed over a taken name; reading a directory in pages of two or three entries gives every child once, in whatever order they are |
| `vfs_removed` | the committed tree against the replayed one | **violated**: a file removed from a subdirectory stays in the commit |
| `vfs_stale` | what clients see before and after an auto-commit | **violated**: a written file reads as before the write |
| `gcs_publish` | 140 repositories (loose, packed and detached refs, loose objects, new branches, pages of one and of eight objects), three commits, two crashes, failures or ignored errors | nothing is named before it is stored; under the conditions of the table above the branch keeps its commits, a boot gets through, with all trees, and a static clone works when a log is marked done; the inductive invariant of the proofs holds |
| `gcs_default` | no `--branch`, HEAD is not master | **violated**: master is overwritten with a commit of another history |

The seven violations are findings; `PROJECT.json` quotes what the documentation
or a comment says for each.

*Bounds.* Two mutations let one be committed while the other is logged, staged or
lost; four logs (`MaxSeq = 3`) and six commits are more than two crashes, one
failure and a clean commit use up. Two crashes allow a crash during recovery from a
crash. Steps that would exceed a bound are not taken, so the runs say
`CHECK_DEADLOCK FALSE`; a process that has exited may also stay down. Three requests
are a downloader, a waiter and a latecomer. `wal_crash` leaves out the append,
upload and output failures: the code ignores the first one, and after the others a
retry finds the log done, keeps the old root, and the next commit takes published
mutations back. `wal_faults` uses symmetry in the mutations, and checks
invariants only. `vfs_commit` has two names and an Apple name, a directory with
one file of two bytes, one byte value and one offset: three calls make a directory,
a file in it and a write to it, or write, move and remove one file; a write at
offset 1 keeps, replaces or extends content. One commit and one mishap let calls
fall on both sides of it. There is one call at a time: with two handlers the log
may have another order than the changes, and `ReplayMatchesLive` fails for that
reason. That property also leaves out base trees with a name twice
(`NamesStayApart`). The two names are "a" and "a.b", which are in one order as files and in the
other when "a" is a directory. In `gcs_publish` three new commits are a first
attempt, a retry and a commit after it; two mishaps allow a crash during recovery
from a failure. A page of one object cuts off every listing. A page of eight holds the
packs and indexes of the repository and of two new commits; the third commit is too
much for it unless an old commit is loose. New packs come first in the order of names,
so that the old ones are cut off.

*Fairness.* `LiveSpec` of `WalCommit` has weak fairness of the commit task, of the
timer and of the handlers: the tokio runtime polls every task that is ready, and
the timer fires once writes have paused for 30 seconds. Failures, crashes, signals
and boots are not fair. `EventuallyPublished` therefore allows for a process that is
down. `LiveSpec` of `ObjectCache` has weak fairness of every request's next step,
downloads included: they end, well or not.

## Proofs

`WalCommitProofs` proves `TypeCorrect` for every value of the constants.

`WalDurabilityProofs` assumes `SafeSetting`: one server, a GCS repository, any of
the failures except a broken append and a failed upload or output (each of those
breaks a property). Mutations, sequence numbers, commits,
crashes and failures are unbounded. The properties are not inductive. What they
need is `DurabilityInv`, whose parts say: the logs keep what was accepted
(`LogsKeep`); commits are built before they are named (`Built`); done logs are in
the branch (`DoneInHead`); handlers are inside the lock only when no commit runs,
and their log is the current one (`WriterInv`); a running server has at most its
last log uncommitted (`SeqInv`); the work list has every uncommitted log (`TodoInv`);
the commit in hand is the root plus the work list, and the head once it is
published (`PendInv`); and the root lags behind the branch by at most the current
log (`RootInv`). The last part carries the argument: a commit that is retried
after its publication is built on an old root, and loses nothing because what the
root lacks is in a log that is replayed again. From it follow
`LoggedMutationsSurvive`, `BranchOnlyGrows` and the refinement `WalImplementsStore`. `wal_crash` checks the same invariant with TLC.

`ObjectCacheProofs` proves for any set of requests and objects that requests share
one download per block (`BlocksShareOneFetch`) and never see a part of one
(`BlocksNeverTorn`). The invariant adds that block files are whole and that only
blobs are prefetched or written in place. Its core is that a block request which
takes an entry out of the map takes its own.

`WalSafetyProofs` proves five more invariants of the commit cycle, each with an
invariant of its own. The first two hold under every failure of the model; the others
use `DurabilityInv` and `SafeSetting`:

- `FlagCoversLog` (`DirtyCoversLog`) holds for every repository, backend and kind of
  failure, also those that `SafeSetting` leaves out, as long as there is one server
  (`OneServer`). Its `HandlerInv` says that a handler inside the lock has set the flag,
  that the log being written is there and holds entries only under the flag, and that
  a server past boot has the last of all logs, so that the one it opens next is new.
- `DoneAfterPublication` (`DoneLogsPublished`) holds for one server and a GCS repository
  under every failure, also those after which a mutation may be lost. Then the branch
  need not have what a done log holds, because a later commit may have taken it
  back, so the argument cannot go through `DoneInHead`. `PublicationInv` says instead
  that each log on the work list is in the commit in hand before the publication and
  in a published commit after it; published commits keep their trees, and
  `HandlerInv` rules out that a handler appends to a log on the work list.
- `ExitLeavesNothing` (`CleanExitCommitted`): `ExitInv` says that an exited server left
  every log done. Handlers hold the lock until they have appended, so none is left.
- `AcknowledgedSurvives` (`AckedDurable`): `AckInv` says that until a call fails a
  serving process has a log that takes its appends (`CanAppend`), so that an
  acknowledgement is an accepted append.
- `CommitsKeepTheirParent` (`CommitKeepsParent`): `LineageInv` says that the base in each
  log's header is a commit whose mutations the branch has kept (`KeptByBranch`). What
  a recovery builds has all of the branch (`RootInv`, `PendInv`), so it has its parent.

`GcsPublishProofs` proves `PublishInv` of `GcsPublish`, for any branches, setups, page
sizes, orders of names, and numbers of commits and mishaps. Its parts: a step has what it uses (`PcInv`); objects
are uploaded in order and the commit in hand is stored as far as its uploads got
(`ObjectInv`); nothing names a commit that is not stored (`NameInv`); the branches, the
log's base and the commit in hand keep the history (`HistoryInv`); the trees of base
and commit are loaded (`LoadInv`); the info files say what was published (`InfoInv`).
The hard part is `LogInTip`: after a crash the next boot resolves HEAD, but the log it
replays names an older base as parent, and the new commit keeps the trees of both
only because what the old base needs, the tip needs too.
Each part is stated under the conditions that it needs, and no others: `HistoryInv` has one
implication for each kind of `harm`, `LoadInv` and `InfoInv` ask for listings that fit on a
page. `PacksListed` may cease to hold and never holds again, since no step deletes an object
(`PacksListedBefore`); so trees that were loaded while it held are loaded as long as it
holds. That a page which is long enough has every object is `PageHasAll`, about
cardinalities of finite sets.
`PublishTypeCorrect`, `NamedCommitsAreStored` and `MarkedCommitIsCloneable` need no
hypothesis. `BranchesKeepCommits`, `RestartIsBootable` and `MountedTreesAreLoaded` assume
`MountsWritten`: a server started without `--branch` finds HEAD at master. Without it
`gcs_default` shows the history being lost.

`VfsProofs` proves `TablesStayInStep` (`TablesAgree`) for any names, handlers, calls and
bounds, and without the checks of a careful client. `TablesOK` adds the types that the
argument needs and is kept by each method of `VfsManager`: `PopulateOK`,
`CreateFileOK`, `MkdirOK`, `RemoveOK`, `RenameOK`. In `rename` the destination is
removed first, possibly the very node that is then moved, so `CutOff` shows that the
node is under no other name or parent before it is hung up again. `Populate` gives a
name to the last of the entries that have it; that there is a last one is
`GreatestNatural`, from the well-foundedness of the naturals. The theorem has one
hypothesis, that the branch's tree is always in a set `U` of Git objects: the tree builder
is a recursive function over the directories, about which the prover cannot
conclude anything. `vfs_commit` checks it as `EntriesInGitOrder`. Objects of `U` are files
and trees whose entries have a name that is not empty (`GitObjects`).

`VfsTreeProofs` adds, for clients that check their calls (`Careful`) and under the same
hypothesis:

- `EveryNodeBelowRoot` (`TreeIsRooted`). The invariant is `Rooted`: no set of nodes without
  the root has all its parents among itself, parents are nodes, the root is its own
  parent and no child, and only the root has no name. New nodes get an old one as parent (`Grows`), so only rename is
  hard. It populates two directories and removes the destination before it moves the
  node, while the client's check was made on the tables before. `MoveGrounded` carries
  the check over: if the moved node closed a loop, the part of the loop that is not
  below it would have been one before. What is below a node is a recursive function in
  `VfsCommit`; that it has a value is shown by taking the smallest closed set
  (`BelowExists`), not by induction.
- `EveryChildListedOnce` (`ReaddirComplete`), for any page size of two or more and any order
  of the children. A page is named by an inode, so the argument needs that no child has
  the inode of `.` or `..`, which is `Rooted` again (`ChildApart`). `NextPage` says that
  what was read so far has each child up to some entry once and none after it, and that
  a page moves that entry on, also when it is the second of the root's two entries with
  one inode. The recursive definition of `Pages` runs over numbers, where a least
  counterexample takes the place of induction (`StepsExist`, `PagesAre`).

`VfsReplayProofs` goes on to the log and its replay, under the same two hypotheses:

- `LoggedPathsArePaths` (`LoggedPaths`): every logged path has at least one name and no
  empty one. A path is read off the tree by `get_path`, a recursive function over the
  nodes, so the proof needs that it has a value: the smallest relation closed under its
  step has exactly one path for each node, because the tree is rooted (`OnePath`,
  `PathsExist`). A write logs after it has awaited the base content, with other calls in
  between; the node it names is still there, since nodes never leave the table
  (`KeepsNodes`), and is not the root, which stays a directory.
- `ReplayKeepsInStep` (`ReplayInStep`): the tables that a replay of the log builds
  agree, and what it staged or marked deleted are nodes. `ReplayOK` says so after each entry.
  `LookupPath`, `EnsureParentDirs` and `Replay` recurse over numbers, and exist because
  a solution can always be extended by one step (`UpTo`, `WalksExist`, `ReplaysExist`).
  The replay creates the parents of a path and then looks the path up again, which
  populates directories once more. `Trail` says that a successful walk leaves every
  step of itself in the tables, `Keeps` that walks and creations do not take it away, and
  `TrailWalked` that walking it again changes nothing. So a write finds the file that
  it made (`FoundAgain`), and a removal the directory it removes from.

Only model-checked: the liveness properties `EventuallyPublished` and
`SubscribedWakes` (liveness under fairness is out of the prover's reach); the
properties in `VfsProperties`, which compare by recursion the trees that `Replay` and
`RebuildTree` compute; and the violations. The tree builder recurses over
the children of a replayed tree, and has a value only if that tree has no loop. This
is not so for every log: a `mkdir` that is replayed twice gives the branch a name
twice, clients may then move the one directory into the other, and the replay of
that rename finds only one of them. So the hypothesis on the branch's tree cannot
be dropped from the theorems about the served tree.

## Plan

1. *Done:* `WalCommit` with its properties, refinement and proofs; `ObjectCache`
   with its properties and proofs.
2. *Done:* VFS and staging with handlers, replay and tree builder.
3. *Done:* publication to GCS and the boot that follows.
4. *Done:* proofs of every safety invariant that does not compare the trees which
   replay and tree builder compute.
5. *Formats.* Varints, fanout lookup and delta application against reference
   definitions.

## Not modelled

Argument parsing, logging, mounting (calls of external programs) and the
benchmark; the HTTP client, whose exchange is a download that succeeds or fails;
file attributes; the wording of commit messages; the byte
formats (plan, 5); delta chains; `read_range`'s shortcut to a complete local packfile
and the local copies of what is uploaded, which are written in place with errors ignored;
more than one page of logs (the listing of logs is complete in `WalCommit`); tags and
other objects that take up room on a page of `refs/` or `objects/pack/`. A method of `VfsManager` or `StagingStore` is one step, although it takes its locks one after
the other. `GcsPublish` has one server: two are the subject of `wal_zombie`.
