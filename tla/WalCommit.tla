----------------------------- MODULE WalCommit -----------------------------
(***************************************************************************)
(* The durability core of git-nfs: the write-ahead log (src/src/wal), the  *)
(* commit cycle of src/src/main.rs (boot recovery, auto-commit, shutdown)  *)
(* and the mutating NFS handlers as far as they touch either.              *)
(*                                                                         *)
(* Data is abstracted to what the properties tell apart.  A mutation is a  *)
(* member of Muts, issued at most once.  A tree is the bag of mutations    *)
(* applied to it.  A log is the set of the mutations that decode from it.  *)
(* Control is kept: locks, the order of the storage writes, early returns, *)
(* ignored errors, and what a crash leaves behind.                         *)
(***************************************************************************)
EXTENDS Integers, FiniteSets

CONSTANTS
    Servers,     \* server processes that may run against one WAL and repository
    Muts,        \* filesystem mutations the clients will issue
    Backend,     \* "gcs" (GcsRapidWalBackend) or "local" (LocalWalBackend)
    Repo,        \* "gcs" (commits are published) or "http" (packs are only saved)
    Committers,  \* servers whose inactivity timer or stop signal may fire
    Faults,      \* kinds of I/O failure that may happen
    MaxSeq,      \* bound: highest WAL sequence number
    MaxCommits,  \* bound: commits built, the initial one included
    MaxCrashes,  \* bound: process crashes
    MaxFaults    \* bound: I/O failures

FaultKinds == {"append", "finalize", "lockout", "isdone", "recover",
               "publish", "upload", "output", "open"}

(* The WAL of a GCS repository is in a bucket too.                         *)
ASSUME BackendAssumption == /\ Backend \in {"gcs", "local"} /\ Repo \in {"gcs", "http"}
                            /\ Repo = "gcs" => Backend = "gcs"
ASSUME ServerAssumption == /\ Servers # {} /\ Committers \subseteq Servers
                           /\ Faults \subseteq FaultKinds
ASSUME BoundAssumption == /\ MaxSeq \in Nat /\ MaxCommits \in Nat \ {0}
                          /\ MaxCrashes \in Nat /\ MaxFaults \in Nat

VARIABLES
    log,       \* the WAL objects <N>.log and <N>.done, by sequence number
    tree,      \* tree of each commit built
    parent,    \* parent of each commit built
    ncommits,  \* number of commits built
    head,      \* commit the published branch names
    published, \* commits the branch has named
    saved,     \* commits whose pack is in the WAL (<N>.pack) or the output directory
    srv,       \* per server: volatile state of the process
    op,        \* per mutation: progress of its handler
    at,        \* per mutation: the server that handles it
    accepted,  \* mutations whose append and flush returned Ok
    zombies,   \* servers that were running when a later boot locked the logs
    crashes,   \* crashes so far
    faults     \* I/O failures so far

vars == <<log, tree, parent, ncommits, head, published, saved, srv, op, at,
          accepted, zombies, crashes, faults>>

repoVars == <<tree, parent, ncommits, head, published>>
opVars == <<op, at, accepted>>
countVars == <<crashes, faults>>

Seqs == 0 .. MaxSeq
CommitIds == 1 .. MaxCommits
NoCommit == 0
NoWriter == -1

Pcs == {"down", "exit", "list", "replay", "publish", "mark", "upload",
        "adopt", "open", "idle", "lockwait", "finalize"}

(* A log object.  base is the commit its header names (0: no header), torn  *)
(* says that an interrupted append left a broken frame at its end, owner   *)
(* identifies the generation of the object.                                *)
NoLog == [made |-> FALSE, entries |-> {}, torn |-> FALSE, base |-> NoCommit,
          sealed |-> FALSE, owner |-> CHOOSE s \in Servers : TRUE, done |-> FALSE]

Made == {q \in Seqs : log[q].made}

(* A process that is not running: every field of a server is volatile.     *)
Down == [pc |-> "down", mode |-> "boot", root |-> 1, seq |-> 0,
         writer |-> NoWriter, dirty |-> FALSE, todo |-> {}, pend |-> NoCommit]

Init ==
    /\ log = [q \in Seqs |-> NoLog]
    /\ tree = [c \in CommitIds |-> [m \in Muts |-> 0]]
    /\ parent = [c \in CommitIds |-> NoCommit]
    /\ ncommits = 1
    /\ head = 1
    /\ published = {1}
    /\ saved = {}
    /\ srv = [s \in Servers |-> Down]
    /\ op = [m \in Muts |-> "new"]
    /\ at = [m \in Muts |-> CHOOSE s \in Servers : TRUE]
    /\ accepted = {}
    /\ zombies = {}
    /\ crashes = 0
    /\ faults = 0

Fault(k) == /\ k \in Faults
            /\ faults < MaxFaults
            /\ faults' = faults + 1

(* Mutant: an error clears the dirty flag as a success does.               *)
FailedClearsFlag(r) == IF r.mode = "auto"
                       THEN [r EXCEPT !.pc = "idle", !.todo = {}, !.pend = NoCommit,
                                      !.dirty = FALSE]
                       ELSE Down

(* The error return of perform_commit or of boot: the auto-commit task     *)
(* logs it, drops the lock and keeps the dirty flag; boot and shutdown end *)
(* the process.                                                            *)
Failed(r) == IF r.mode = "auto"
             THEN [r EXCEPT !.pc = "idle", !.todo = {}, !.pend = NoCommit]
             ELSE Down

-----------------------------------------------------------------------------
(* The mutating NFS handlers.  A handler holds commit_lock for reading from *)
(* its first line to its return.  Its effect on VFS and staging is not      *)
(* observable through the log, so what is left is the flag and the append. *)

(* Takes the read lock (tokio queues readers behind a waiting writer, so   *)
(* only when no commit waits or runs), applies the change, sets the flag.  *)
Stage(s, m) ==
    /\ srv[s].pc = "idle"
    /\ op[m] = "new"
    /\ op' = [op EXCEPT ![m] = "staged"]
    /\ at' = [at EXCEPT ![m] = s]
    /\ srv' = [srv EXCEPT ![s].dirty = TRUE]
    /\ UNCHANGED <<log, repoVars, saved, accepted, countVars, zombies>>

(* The store accepts an append: a local file through any descriptor that   *)
(* is still open, a GCS object only while it is not finalized and is the   *)
(* generation the writer opened.                                           *)
Accepts(s, q) == \/ Backend = "local"
                 \/ ~log[q].sealed /\ log[q].owner = s

(* log_mutation, then the reply: append and flush when there is a writer,  *)
(* and the client is answered Ok whatever happened.                        *)
LogMutation(s, m) ==
    /\ op[m] = "staged" /\ at[m] = s
    /\ LET q == srv[s].writer IN
       IF q # NoWriter /\ Accepts(s, q)
       THEN /\ log' = [log EXCEPT ![q].entries = IF log[q].torn THEN @ ELSE @ \cup {m}]
            /\ accepted' = accepted \cup {m}
       ELSE UNCHANGED <<log, accepted>>
    /\ op' = [op EXCEPT ![m] = "acked"]
    /\ UNCHANGED <<repoVars, saved, srv, at, countVars, zombies>>

(* The append fails half way: the frame is broken, the reply is still Ok.  *)
AppendErr(s, m) ==
    /\ op[m] = "staged" /\ at[m] = s
    /\ srv[s].writer # NoWriter
    /\ Accepts(s, srv[s].writer)
    /\ Fault("append")
    /\ log' = [log EXCEPT ![srv[s].writer].torn = TRUE]
    /\ op' = [op EXCEPT ![m] = "acked"]
    /\ UNCHANGED <<repoVars, saved, srv, at, accepted, crashes, zombies>>

-----------------------------------------------------------------------------
(* Entering a commit.                                                      *)

(* Mutant: boot starts from the initial commit, not from the branch.       *)
BootAtInitial(s) ==
    /\ srv[s].pc \in {"down", "exit"}
    /\ srv' = [srv EXCEPT ![s] = [Down EXCEPT !.pc = "list"]]
    /\ zombies' = zombies \ {s}
    /\ UNCHANGED <<log, repoVars, saved, opVars, countVars>>

(* initialize: a GCS repository is read at its branch, an HTTP remote at a *)
(* commit this program never moves.                                        *)
Boot(s) ==
    /\ srv[s].pc \in {"down", "exit"}
    /\ srv' = [srv EXCEPT ![s] = [Down EXCEPT !.pc = "list",
                                  !.root = IF Repo = "gcs" THEN head ELSE 1]]
    /\ zombies' = zombies \ {s}
    /\ UNCHANGED <<log, repoVars, saved, opVars, countVars>>

(* Mutant: the flag is cleared when the timer fires, outside the lock.     *)
TickClearsFlag(s) ==
    /\ s \in Committers
    /\ srv[s].pc = "idle"
    /\ srv[s].dirty
    /\ srv' = [srv EXCEPT ![s].pc = "lockwait", ![s].mode = "auto", ![s].dirty = FALSE]
    /\ UNCHANGED <<log, repoVars, saved, opVars, countVars, zombies>>

(* The ticker finds the flag set and the last mutation 30 seconds old.     *)
Tick(s) ==
    /\ s \in Committers
    /\ srv[s].pc = "idle"
    /\ srv[s].dirty
    /\ srv' = [srv EXCEPT ![s].pc = "lockwait", ![s].mode = "auto"]
    /\ UNCHANGED <<log, repoVars, saved, opVars, countVars, zombies>>

(* SIGINT or SIGTERM: main stops the ticker task, unmounts, and asks for   *)
(* the lock.                                                               *)
StopSignal(s) ==
    /\ s \in Committers
    /\ srv[s].pc = "idle"
    /\ srv' = [srv EXCEPT ![s].pc = "lockwait", ![s].mode = "shutdown"]
    /\ UNCHANGED <<log, repoVars, saved, opVars, countVars, zombies>>

(* Mutant: the commit does not wait for the handlers inside the lock.      *)
LockWithoutWaiting(s) ==
    /\ srv[s].pc = "lockwait"
    /\ srv' = [srv EXCEPT ![s].pc = "finalize"]
    /\ UNCHANGED <<log, repoVars, saved, opVars, countVars, zombies>>

(* commit_lock.write() is granted once every handler has returned; the     *)
(* auto-commit looks at the flag again.                                    *)
LockForCommit(s) ==
    /\ srv[s].pc = "lockwait"
    /\ \A m \in Muts : ~(op[m] = "staged" /\ at[m] = s)
    /\ srv' = [srv EXCEPT ![s].pc = IF srv[s].mode = "auto" /\ ~srv[s].dirty
                                    THEN "idle" ELSE "finalize"]
    /\ UNCHANGED <<log, repoVars, saved, opVars, countVars, zombies>>

(* finalize_active_wal: the writer is taken first.  A GCS object is sealed, *)
(* or the call fails because another process sealed or replaced it; a local *)
(* file is only flushed.                                                   *)
Finalize(s) ==
    /\ srv[s].pc = "finalize"
    /\ LET q == srv[s].writer
           r == [srv[s] EXCEPT !.writer = NoWriter] IN
       IF q = NoWriter \/ Accepts(s, q)
       THEN /\ log' = IF q # NoWriter /\ Backend = "gcs"
                      THEN [log EXCEPT ![q].sealed = TRUE] ELSE log
            /\ srv' = [srv EXCEPT ![s] = [r EXCEPT !.pc = "list"]]
       ELSE /\ srv' = [srv EXCEPT ![s] = Failed(r)]
            /\ UNCHANGED log
    /\ UNCHANGED <<repoVars, saved, opVars, countVars, zombies>>

(* The call reports an error, before or after the object was sealed.       *)
FinalizeErr(s) ==
    /\ srv[s].pc = "finalize"
    /\ srv[s].writer # NoWriter
    /\ Fault("finalize")
    /\ \/ UNCHANGED log
       \/ /\ Backend = "gcs" /\ Accepts(s, srv[s].writer)
          /\ log' = [log EXCEPT ![srv[s].writer].sealed = TRUE]
    /\ srv' = [srv EXCEPT ![s] = Failed([srv[s] EXCEPT !.writer = NoWriter])]
    /\ UNCHANGED <<repoVars, saved, opVars, crashes, zombies>>

-----------------------------------------------------------------------------
(* recover_and_replay_uncommitted.                                         *)

(* What follows when recovery returns None: no adoption, a new log unless  *)
(* the process is ending.                                                  *)
AfterNone(r) == IF r.mode = "shutdown" THEN [Down EXCEPT !.pc = "exit"]
                ELSE [r EXCEPT !.pc = "open"]

(* Lockout by a booting server turns the running ones into zombies.        *)
LockedOut(s) == IF srv[s].mode # "boot" THEN zombies
                ELSE zombies \cup {z \in Servers \ {s} : srv[z].pc = "idle"}

Sealing(Q) == [q \in Seqs |-> IF q \in Q THEN [log[q] EXCEPT !.sealed = TRUE]
                              ELSE log[q]]

(* Lists the logs, locks out their writers and finds the ones not done.    *)
(* For a local log sealed means read-only: it stops a later open, not a    *)
(* descriptor that is open.                                                *)
ListAndLockout(s) ==
    /\ srv[s].pc = "list"
    /\ log' = Sealing(Made)
    /\ zombies' = LockedOut(s)
    /\ LET todo == {q \in Made : ~log[q].done} IN
       srv' = [srv EXCEPT ![s] = IF todo = {} THEN AfterNone(srv[s])
                                 ELSE [srv[s] EXCEPT !.pc = "replay", !.todo = todo]]
    /\ UNCHANGED <<repoVars, saved, opVars, countVars>>

(* Both ignored errors of the same step: a lockout that did not seal, and  *)
(* a done marker that could not be read and counts as absent.              *)
ListErr(s) ==
    /\ srv[s].pc = "list"
    /\ zombies' = LockedOut(s)
    /\ \E q \in Made :
       \/ /\ Fault("lockout")
          /\ ~log[q].done
          /\ log' = Sealing(Made \ {q})
          /\ srv' = [srv EXCEPT ![s].pc = "replay",
                                ![s].todo = {p \in Made : ~log[p].done}]
       \/ /\ Fault("isdone")
          /\ Backend = "gcs"
          /\ log[q].done
          /\ log' = Sealing(Made)
          /\ srv' = [srv EXCEPT ![s].pc = "replay",
                                ![s].todo = {q} \cup {p \in Made : ~log[p].done}]
    /\ UNCHANGED <<repoVars, saved, opVars, crashes>>

(* b is the commit the replay is based on: the one named by the header of  *)
(* the last log that has a header, else the commit the server is at.       *)
IsReplayBase(r, b) ==
    LET H == {q \in r.todo : log[q].base # NoCommit} IN
    \/ H = {} /\ b = r.root
    \/ \E q \in H : (\A p \in H : p <= q) /\ b = log[q].base

Replayed(r, m) == Cardinality({q \in r.todo : m \in log[q].entries})

(* Mutant: the commit is built and the logs are marked, publication is     *)
(* forgotten.                                                              *)
ReplayUnpublished(s) ==
    /\ srv[s].pc = "replay"
    /\ ncommits < MaxCommits
    /\ ncommits' = ncommits + 1
    /\ tree' = [tree EXCEPT ![ncommits'] =
                    [m \in Muts |-> tree[srv[s].root][m] + Replayed(srv[s], m)]]
    /\ parent' = [parent EXCEPT ![ncommits'] = srv[s].root]
    /\ srv' = [srv EXCEPT ![s].pend = ncommits', ![s].pc = "mark"]
    /\ UNCHANGED <<log, head, published, saved, opVars, countVars, zombies>>

(* Reads and replays the logs over the tree of root, and builds a commit   *)
(* on the base the headers name, or nothing when no log holds a mutation.  *)
Replay(s) ==
    /\ srv[s].pc = "replay"
    /\ LET r == srv[s] IN
       IF \A q \in r.todo : log[q].entries = {}
       THEN /\ srv' = [srv EXCEPT ![s].pc = "mark", ![s].pend = NoCommit]
            /\ UNCHANGED <<tree, parent, ncommits>>
       ELSE /\ ncommits < MaxCommits
            /\ ncommits' = ncommits + 1
            /\ tree' = [tree EXCEPT ![ncommits'] =
                            [m \in Muts |-> tree[r.root][m] + Replayed(r, m)]]
            /\ \E b \in CommitIds : /\ IsReplayBase(r, b)
                                    /\ parent' = [parent EXCEPT ![ncommits'] = b]
            /\ srv' = [srv EXCEPT ![s].pend = ncommits',
                                  ![s].pc = IF Repo = "gcs" THEN "publish" ELSE "mark"]
    /\ UNCHANGED <<log, head, published, saved, opVars, countVars, zombies>>

(* write_completed_commit: the branch names the commit.                    *)
SetBranch(c) == /\ head' = c
                /\ published' = published \cup {c}

Publish(s) ==
    /\ srv[s].pc = "publish"
    /\ SetBranch(srv[s].pend)
    /\ srv' = [srv EXCEPT ![s].pc = "mark"]
    /\ UNCHANGED <<log, tree, parent, ncommits, saved, opVars, countVars, zombies>>

(* The branch is written and a later part of the publication fails.        *)
PublishErr(s) ==
    /\ srv[s].pc = "publish"
    /\ Fault("publish")
    /\ SetBranch(srv[s].pend)
    /\ srv' = [srv EXCEPT ![s] = Failed(srv[s])]
    /\ UNCHANGED <<log, tree, parent, ncommits, saved, opVars, crashes, zombies>>

(* Any call of the recovery that fails before it changes anything.         *)
RecoverErr(s) ==
    /\ srv[s].pc \in {"list", "replay", "publish", "mark"}
    /\ Fault("recover")
    /\ srv' = [srv EXCEPT ![s] = Failed(srv[s])]
    /\ UNCHANGED <<log, repoVars, saved, opVars, crashes, zombies>>

(* q is the log the marking loop has come to.                              *)
IsNextTodo(r, q) == q \in r.todo /\ \A p \in r.todo : q <= p

(* Mutants: a result of None is adopted; the loop ends after one log.      *)
MarkedAdoptsNone(r, q) ==
    [r EXCEPT !.todo = r.todo \ {q}, !.pc = IF r.todo = {q} THEN "adopt" ELSE "mark"]

MarkedOnlyFirst(r, q) == IF r.pend # NoCommit THEN [r EXCEPT !.todo = {}, !.pc = "adopt"]
                         ELSE AfterNone(r)

(* The step after log q is completely marked.                              *)
Marked(r, q) ==
    LET left == [r EXCEPT !.todo = r.todo \ {q}] IN
    IF left.todo # {} THEN [left EXCEPT !.pc = "mark"]
    ELSE IF r.pend # NoCommit THEN [left EXCEPT !.pc = "adopt"]
    ELSE AfterNone(left)

(* mark_log_done, first part: the <N>.done object.                         *)
MarkDone(s) ==
    /\ srv[s].pc = "mark"
    /\ \E q \in Seqs :
       /\ IsNextTodo(srv[s], q)
       /\ log' = [log EXCEPT ![q].done = TRUE]
       /\ srv' = [srv EXCEPT ![s] = IF srv[s].pend # NoCommit
                                    THEN [srv[s] EXCEPT !.pc = "upload"]
                                    ELSE Marked(srv[s], q)]
    /\ UNCHANGED <<repoVars, saved, opVars, countVars, zombies>>

(* mark_log_done, second part: <N>.pack and <N>.idx.                       *)
UploadPack(s) ==
    /\ srv[s].pc = "upload"
    /\ saved' = saved \cup {srv[s].pend}
    /\ \E q \in Seqs : /\ IsNextTodo(srv[s], q)
                       /\ srv' = [srv EXCEPT ![s] = Marked(srv[s], q)]
    /\ UNCHANGED <<log, repoVars, opVars, countVars, zombies>>

UploadErr(s) ==
    /\ srv[s].pc = "upload"
    /\ Fault("upload")
    /\ srv' = [srv EXCEPT ![s] = Failed(srv[s])]
    /\ UNCHANGED <<log, repoVars, saved, opVars, crashes, zombies>>

-----------------------------------------------------------------------------
(* The rest of perform_commit and of boot.                                 *)

(* Mutant: the new commit does not become the root of the next replay.     *)
AdoptKeepsRoot(s) ==
    /\ srv[s].pc = "adopt"
    /\ saved' = saved \cup {srv[s].pend}
    /\ srv' = [srv EXCEPT ![s] = IF srv[s].mode = "shutdown" THEN [Down EXCEPT !.pc = "exit"]
                                 ELSE [srv[s] EXCEPT !.pc = "open", !.pend = NoCommit]]
    /\ UNCHANGED <<log, repoVars, opVars, countVars, zombies>>

(* Writes the pack to the output directory, hands its objects to the       *)
(* engine and makes the commit the server's root and base.                 *)
Adopt(s) ==
    /\ srv[s].pc = "adopt"
    /\ saved' = saved \cup {srv[s].pend}
    /\ srv' = [srv EXCEPT ![s] = IF srv[s].mode = "shutdown" THEN [Down EXCEPT !.pc = "exit"]
                                 ELSE [srv[s] EXCEPT !.pc = "open", !.root = srv[s].pend,
                                                     !.pend = NoCommit]]
    /\ UNCHANGED <<log, repoVars, opVars, countVars, zombies>>

(* The output files cannot be written, or staging cannot be reset after    *)
(* the commit has become the root.                                         *)
OutputErr(s) ==
    /\ srv[s].pc = "adopt"
    /\ Fault("output")
    /\ \E c \in {srv[s].root, srv[s].pend} :
          srv' = [srv EXCEPT ![s] = Failed([srv[s] EXCEPT !.root = c])]
    /\ UNCHANGED <<log, repoVars, saved, opVars, crashes, zombies>>

(* Mutant: boot reuses the sequence of the last log.                       *)
IsLastSeq(r, q) ==
    IF r.mode = "auto" THEN q = r.seq + 1
    ELSE \/ Made = {} /\ q = 0
         \/ q \in Made /\ \A p \in Made : p <= q

(* q is the next active sequence: the one after the last log listed for a  *)
(* booting server, the one after its own for a running server.             *)
IsNextSeq(r, q) ==
    IF r.mode = "auto" THEN q = r.seq + 1
    ELSE \/ Made = {} /\ q = 0
         \/ \E p \in Made : (\A p2 \in Made : p2 <= p) /\ q = p + 1

(* open_writer and the header.  A name that is taken: a local file is      *)
(* appended to unless it is read-only; a GCS object is replaced or refused.*)
OpenedLog(s, q) ==
    [log[q] EXCEPT !.made = TRUE, !.owner = s,
                   !.base = IF Backend = "local" /\ log[q].torn THEN @ ELSE srv[s].root,
                   !.entries = IF Backend = "gcs" THEN {} ELSE @,
                   !.torn = IF Backend = "gcs" THEN FALSE ELSE @,
                   !.sealed = FALSE]

(* advance_seq and start_active_wal, then Ok: the auto-commit clears the   *)
(* flag under the lock it still holds.                                     *)
OpenWal(s) ==
    /\ srv[s].pc = "open"
    /\ \E q \in Seqs :
       /\ IsNextSeq(srv[s], q)
       /\ ~(Backend = "local" /\ log[q].sealed)
       /\ log' = [log EXCEPT ![q] = OpenedLog(s, q)]
       /\ srv' = [srv EXCEPT ![s] = [srv[s] EXCEPT !.pc = "idle", !.seq = q, !.writer = q,
                                     !.dirty = FALSE, !.mode = "auto"]]
    /\ UNCHANGED <<repoVars, saved, opVars, countVars, zombies>>

(* The open is refused, or the object is made and the header append fails. *)
OpenErr(s) ==
    /\ srv[s].pc = "open"
    /\ \E q \in Seqs :
       /\ IsNextSeq(srv[s], q)
       /\ IF log[q].made THEN /\ Backend = "gcs" \/ log[q].sealed
                              /\ UNCHANGED <<log, faults>>
          ELSE Fault("open") /\ log' \in {log, [log EXCEPT ![q].made = TRUE,
                                                          ![q].owner = s]}
       /\ srv' = [srv EXCEPT ![s] = Failed([srv[s] EXCEPT !.seq = q])]
    /\ UNCHANGED <<repoVars, saved, opVars, crashes, zombies>>

(* The process dies.  Handlers that have not answered never will.          *)
Crash(s) ==
    /\ srv[s].pc \notin {"down", "exit"}
    /\ crashes < MaxCrashes
    /\ crashes' = crashes + 1
    /\ srv' = [srv EXCEPT ![s] = Down]
    /\ op' = [m \in Muts |-> IF op[m] = "staged" /\ at[m] = s THEN "lost" ELSE op[m]]
    /\ UNCHANGED <<log, repoVars, saved, at, accepted, faults, zombies>>

-----------------------------------------------------------------------------
CommitStep(s) ==
    \/ LockForCommit(s) \/ Finalize(s) \/ ListAndLockout(s) \/ Replay(s)
    \/ Publish(s) \/ MarkDone(s) \/ UploadPack(s) \/ Adopt(s) \/ OpenWal(s)

FaultStep(s) ==
    \/ FinalizeErr(s) \/ ListErr(s) \/ RecoverErr(s) \/ PublishErr(s)
    \/ UploadErr(s) \/ OutputErr(s) \/ OpenErr(s)

Next == \E s \in Servers :
    \/ \E m \in Muts : Stage(s, m) \/ LogMutation(s, m) \/ AppendErr(s, m)
    \/ Boot(s) \/ Tick(s) \/ StopSignal(s) \/ Crash(s)
    \/ CommitStep(s) \/ FaultStep(s)

Spec == Init /\ [][Next]_vars

(* The tokio runtime keeps running the tasks that can run: the commit task, *)
(* the ticker once writes pause for 30 seconds, and the handlers.  Nothing *)
(* restarts a process that ended.                                          *)
Fairness == \A s \in Servers :
    /\ WF_vars(CommitStep(s))
    /\ WF_vars(Tick(s))
    /\ \A m \in Muts : WF_vars(LogMutation(s, m))

LiveSpec == Spec /\ Fairness
=============================================================================
