--------------------------- MODULE WalProperties ---------------------------
(***************************************************************************)
(* What the durability core of git-nfs promises: type correctness, the     *)
(* safety and liveness properties, the abstract store it implements, and   *)
(* the inductive invariant that the proofs use.                            *)
(***************************************************************************)
EXTENDS WalCommit

LogRecord == [made : BOOLEAN, entries : SUBSET Muts, torn : BOOLEAN,
              base : 0 .. MaxCommits, sealed : BOOLEAN, owner : Servers, done : BOOLEAN]

ServerRecord == [pc : Pcs, mode : {"boot", "auto", "shutdown"}, root : CommitIds,
                 seq : Seqs, writer : Seqs \cup {NoWriter}, dirty : BOOLEAN,
                 todo : SUBSET Seqs, pend : 0 .. MaxCommits]

RepoOK == /\ tree \in [CommitIds -> [Muts -> Nat]]
          /\ parent \in [CommitIds -> 0 .. MaxCommits]
          /\ ncommits \in CommitIds
          /\ head \in CommitIds
          /\ published \in SUBSET CommitIds

OpsOK == /\ op \in [Muts -> {"new", "staged", "acked", "lost"}]
         /\ at \in [Muts -> Servers]
         /\ accepted \in SUBSET Muts

RestOK == /\ saved \in SUBSET CommitIds
          /\ zombies \in SUBSET Servers
          /\ crashes \in Nat
          /\ faults \in Nat

(* Type correctness of the storage, the processes and the handlers: above  *)
(* all, a step never uses the commit of a recovery that built none.        *)
TypeOK == /\ log \in [Seqs -> LogRecord]
          /\ srv \in [Servers -> ServerRecord]
          /\ RepoOK /\ OpsOK /\ RestOK

InTree(m, c) == tree[c][m] > 0

(* A mutation survives every crash from here on: it waits in a log that    *)
(* recovery will replay, or in a commit that a reader of the repository,   *)
(* or a user who pushes the saved packs, can reach.                        *)
Durable(m) ==
    \/ \E q \in Made : ~log[q].done /\ m \in log[q].entries
    \/ IF Repo = "gcs" THEN InTree(m, head) ELSE \E c \in saved : InTree(m, c)

(* As long as no I/O call has failed, a mutation whose client was told Ok  *)
(* is durable: log_mutation flushes before the handler replies, and        *)
(* recovery marks a log done only after its commit is published.           *)
AckedDurable == faults = 0 => \A m \in Muts : op[m] = "acked" => Durable(m)

(* The same at rest, when every process is down or serves: the next boot   *)
(* finds every acknowledged mutation in a log to replay or in a saved pack.*)
RestingKeepsAcked ==
    (\A s \in Servers : srv[s].pc \in {"down", "exit", "idle"}) => AckedDurable

(* A mutation whose append the store accepted is durable, whoever wrote it *)
(* and whoever replays it.                                                 *)
LoggedDurable == \A m \in accepted : Durable(m)

(* recover_and_replay_uncommitted writes the commit "BEFORE marking WAL    *)
(* done": everything that decodes from a done log is in one commit that    *)
(* the branch has named.                                                   *)
DoneLogsPublished ==
    \A q \in Made : log[q].done =>
        \E c \in published : \A m \in log[q].entries : InTree(m, c)

(* No commit of this program takes back what a published one contains: the *)
(* server's root is always the branch, across failures, retries and boots. *)
HeadOnlyGrows == [][\A m \in Muts : InTree(m, head) => InTree(m, head)']_vars

(* The WAL and the commit cycle implement the abstract store: no step of a *)
(* handler, a commit, a retry, a crash or a boot makes a durable mutation  *)
(* undurable or takes one out of the branch.                               *)
Store == INSTANCE DurableStore
         WITH durable <- {m \in Muts : Durable(m)},
              branch <- {m \in Muts : InTree(m, head)}

ImplementsStore == Store!Spec

(* A commit's tree keeps everything its parent's has: the base its header  *)
(* names and the tree it was replayed on belong together.                  *)
CommitKeepsParent ==
    \A c \in 2 .. ncommits : \A m \in Muts : InTree(m, parent[c]) => InTree(m, c)

(* A server that a later boot has locked out gets no append accepted any   *)
(* more, in its old log or in a new one.                                   *)
ZombiesRejected == [][\A m \in accepted' \ accepted : at[m] \notin zombies]_vars

(* An idle server whose log holds a mutation has its flag set, so the      *)
(* inactivity timer will commit it: the flag is set under the read lock    *)
(* and cleared under the write lock.                                       *)
DirtyCoversLog ==
    \A s \in Servers :
        (srv[s].pc \in {"idle", "lockwait"} /\ srv[s].writer # NoWriter)
            => (log[srv[s].writer].entries # {} => srv[s].dirty)

(* A logged mutation reaches the branch, through retries after failed      *)
(* commits, unless its process dies.                                       *)
EventuallyPublished ==
    \A m \in Muts : (m \in accepted) ~> (InTree(m, head) \/ srv[at[m]].pc = "down")

(* After a clean exit nothing is left to recover: every logged mutation    *)
(* is in the published branch and every log is done.                       *)
CleanExitCommitted ==
    (\A s \in Servers : srv[s].pc = "exit") =>
        /\ \A q \in Made : log[q].done
        /\ \A m \in accepted : InTree(m, head)

-----------------------------------------------------------------------------
(* The inductive invariant behind ImplementsStore, for one server, a GCS   *)
(* repository and the failures that are retried safely.                    *)

Running(r) == r.pc \notin {"down", "exit"}

(* Names never used are empty, no frame is broken, and a mutation the store *)
(* accepted is still in a log.                                             *)
LogsKeep ==
    /\ \A q \in Seqs : /\ ~log[q].torn
                       /\ ~log[q].made => ~log[q].done /\ log[q].entries = {}
    /\ \A m \in accepted : \E q \in Made : m \in log[q].entries

(* No process and no branch names a commit that is not built yet.          *)
Built == /\ head <= ncommits
         /\ \A s \in Servers : srv[s].root <= ncommits /\ srv[s].pend <= ncommits

(* A done log is in the branch.                                            *)
DoneInHead ==
    /\ head \in published
    /\ \A q \in Made : log[q].done => \A m \in log[q].entries : InTree(m, head)

(* Handlers are inside the lock only while no commit runs, and the writer  *)
(* is the current log, not yet done.                                       *)
WriterInv(s) ==
    /\ \A m \in Muts : op[m] = "staged" /\ at[m] = s => srv[s].pc \in {"idle", "lockwait"}
    /\ srv[s].writer # NoWriter =>
          /\ srv[s].pc \in {"idle", "lockwait", "finalize"}
          /\ srv[s].writer = srv[s].seq
          /\ srv[s].seq \in Made /\ ~log[srv[s].seq].done
    /\ srv[s].pc \in {"idle", "lockwait", "finalize"} => srv[s].mode # "boot"

(* A server past boot has one log that may be uncommitted, its last.       *)
SeqInv(s) ==
    Running(srv[s]) /\ srv[s].mode # "boot" =>
        \A q \in Made : q <= srv[s].seq /\ (q # srv[s].seq => log[q].done)

(* During recovery the work list has every uncommitted log, and what is    *)
(* left of it is in the commit being marked.                               *)
TodoInv(s) ==
    /\ srv[s].pc \in {"replay", "publish", "mark", "upload"} =>
          srv[s].todo \subseteq Made /\ \A q \in Made : ~log[q].done => q \in srv[s].todo
    /\ srv[s].pc = "upload" =>
          \A q \in srv[s].todo : (\A p \in srv[s].todo : q <= p) => log[q].done
    /\ srv[s].pc \in {"adopt", "open"} => \A q \in Made : log[q].done

(* The commit in hand is the root plus the work list, and once published   *)
(* it is the head.                                                         *)
PendInv(s) ==
    /\ srv[s].pc = "publish" =>
          \A m \in Muts : InTree(m, srv[s].pend) <=>
              InTree(m, srv[s].root) \/ \E q \in srv[s].todo : m \in log[q].entries
    /\ srv[s].pc \in {"mark", "upload"} =>
          \A q \in srv[s].todo : \A m \in log[q].entries :
              srv[s].pend # NoCommit /\ InTree(m, srv[s].pend)
    /\ srv[s].pc \in {"mark", "upload", "adopt"} /\ srv[s].pend # NoCommit =>
          head = srv[s].pend

(* The root lags behind the branch by at most the current log, which is    *)
(* replayed again as long as it is not done.                               *)
RootInv(s) ==
    LET r == srv[s] IN
    /\ Running(r) => \A m \in Muts : InTree(m, r.root) => InTree(m, head)
    /\ Running(r) /\ r.mode # "boot" =>
          /\ \A q \in Made : q # r.seq => \A m \in log[q].entries : InTree(m, r.root)
          /\ \A m \in Muts : InTree(m, head) =>
                InTree(m, r.root) \/ (r.seq \in Made /\ m \in log[r.seq].entries)
          /\ r.pc \notin {"upload", "adopt"} /\ r.seq \in Made /\ log[r.seq].done =>
                \A m \in log[r.seq].entries : InTree(m, r.root)
          /\ r.pc = "upload" /\ r.seq \in Made /\ log[r.seq].done =>
                \/ \A m \in log[r.seq].entries : InTree(m, r.root)
                \/ \A p \in r.todo : r.seq <= p
    /\ Running(r) /\ r.mode = "boot"
            /\ (r.pc \in {"list", "replay", "publish", "open"} \/ r.pend = NoCommit) =>
          \A m \in Muts : InTree(m, head) <=> InTree(m, r.root)

(* Together: what recovery needs to lose nothing, at every step of every   *)
(* commit, retry and boot.                                                 *)
DurabilityInv ==
    /\ LogsKeep
    /\ Built
    /\ DoneInHead
    /\ \A s \in Servers : /\ WriterInv(s) /\ SeqInv(s) /\ TodoInv(s)
                          /\ PendInv(s) /\ RootInv(s)
=============================================================================
