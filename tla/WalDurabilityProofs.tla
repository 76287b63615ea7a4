------------------------ MODULE WalDurabilityProofs ------------------------
(***************************************************************************)
(* One server, a GCS repository and the failures that are retried safely:  *)
(* the WAL and the commit cycle implement DurableStore.                    *)
(***************************************************************************)
EXTENDS WalCommitProofs

USE DEF CommitIds, NoCommit, NoWriter

(* The setting of the theorems below.                                      *)
SafeSetting == /\ \A s, t \in Servers : s = t
               /\ Repo = "gcs"
               /\ Faults \cap {"append", "upload", "output"} = {}

(* What the invariant sees of the logs and the repository is unchanged.    *)
SameLogs == \A q \in Seqs : /\ log'[q].made = log[q].made /\ log'[q].done = log[q].done
                            /\ log'[q].entries = log[q].entries
                            /\ log'[q].torn = log[q].torn

Frame == SameLogs /\ UNCHANGED <<tree, head, published, accepted>>

SrvInv(s) == WriterInv(s) /\ SeqInv(s) /\ TodoInv(s) /\ PendInv(s) /\ RootInv(s)

(* The invariant without Built, which is proved on its own.                *)
CoreInv == LogsKeep /\ DoneInHead /\ \A s \in Servers : SrvInv(s)

LEMMA SrvInvOf == ASSUME DurabilityInv, NEW s \in Servers PROVE SrvInv(s)
  BY DEF DurabilityInv, SrvInv

LEMMA FrameInv == ASSUME DurabilityInv, Frame PROVE LogsKeep' /\ DoneInHead'
  BY DEF DurabilityInv, Frame, SameLogs, LogsKeep, DoneInHead, Made, InTree

LEMMA Assemble ==
    ASSUME SafeSetting, NEW s \in Servers, LogsKeep', DoneInHead', SrvInv(s)'
    PROVE  CoreInv'
  BY DEF SafeSetting, CoreInv, SrvInv

-----------------------------------------------------------------------------
LEMMA CommitNumbers ==
    ASSUME TypeInv
    PROVE  /\ ncommits \in Int /\ 1 <= ncommits /\ 0 <= ncommits /\ head \in Int
           /\ \A s \in Servers : srv[s].root \in Int /\ srv[s].pend \in Int
  BY BoundAssumption, SrvRec DEF TypeInv, TypeOK, RepoOK, ServerRecord

(* Built: a server's record changes to one that names built commits.       *)
BuiltRec(r) == r.root <= ncommits /\ r.pend <= ncommits

LEMMA FailedBuilt == ASSUME TypeInv, NEW r \in ServerRecord, BuiltRec(r)
                     PROVE  BuiltRec(Failed(r))
<1>1. 1 <= ncommits /\ 0 <= ncommits
  BY CommitNumbers
<1>2. CASE r.mode = "auto"
  <2> DEFINE f == [r EXCEPT !.pc = "idle", !.todo = {}, !.pend = NoCommit]
  <2>1. f.root = r.root /\ f.pend = 0 /\ Failed(r) = f
    BY <1>2 DEF ServerRecord, Failed
  <2> QED
    BY <1>1, <2>1 DEF BuiltRec
<1>3. CASE r.mode # "auto"
  BY <1>1, <1>3 DEF Failed, Down, BuiltRec
<1> QED
  BY <1>2, <1>3

LEMMA AfterNoneBuilt == ASSUME TypeInv, NEW r \in ServerRecord, BuiltRec(r)
                        PROVE  BuiltRec(AfterNone(r))
<1>1. 1 <= ncommits /\ 0 <= ncommits
  BY CommitNumbers
<1>2. CASE r.mode = "shutdown"
  BY <1>1, <1>2 DEF AfterNone, Down, BuiltRec
<1>3. CASE r.mode # "shutdown"
  <2> DEFINE f == [r EXCEPT !.pc = "open"]
  <2>1. f.root = r.root /\ f.pend = r.pend /\ AfterNone(r) = f
    BY <1>3 DEF ServerRecord, AfterNone
  <2> QED
    BY <2>1 DEF BuiltRec
<1> QED
  BY <1>2, <1>3

LEMMA MarkedBuilt == ASSUME TypeInv, NEW r \in ServerRecord, NEW q, BuiltRec(r)
                     PROVE  BuiltRec(Marked(r, q))
<1> DEFINE left == [r EXCEPT !.todo = r.todo \ {q}]
<1>1. left \in ServerRecord /\ left.root = r.root /\ left.pend = r.pend
  BY DEF ServerRecord
<1>2. BuiltRec(left) /\ \A p : BuiltRec([left EXCEPT !.pc = p])
  BY <1>1 DEF BuiltRec, ServerRecord
<1>3. Marked(r, q) \in {[left EXCEPT !.pc = "mark"], [left EXCEPT !.pc = "adopt"], AfterNone(left)}
  BY DEF Marked
<1> HIDE DEF left
<1> QED
  BY <1>1, <1>2, <1>3, AfterNoneBuilt

LEMMA BuiltUpdate ==
    ASSUME TypeInv, Built, NEW s \in Servers, NEW r, BuiltRec(r),
           srv' = [srv EXCEPT ![s] = r], UNCHANGED ncommits, head' \in {head, srv[s].pend}
    PROVE  Built'
  BY DEF TypeInv, TypeOK, Built, BuiltRec

LEMMA NextBuilt == TypeInv /\ Built /\ [Next]_vars => Built'
<1> SUFFICES ASSUME TypeInv, Built, [Next]_vars PROVE Built'
  OBVIOUS
<1>1. \A s \in Servers : srv[s] \in ServerRecord /\ BuiltRec(srv[s])
  BY SrvRec DEF Built, BuiltRec
<1>2. ASSUME NEW s \in Servers, NEW m \in Muts, Stage(s, m) PROVE Built'
  <2>1. BuiltRec([srv[s] EXCEPT !.dirty = TRUE])
    BY <1>1 DEF BuiltRec, ServerRecord
  <2> QED
    BY <1>2, <2>1, BuiltUpdate DEF Stage, repoVars
<1>3. ASSUME NEW s \in Servers, NEW m \in Muts, LogMutation(s, m) \/ AppendErr(s, m)
      PROVE Built'
  BY <1>3 DEF LogMutation, AppendErr, Built, repoVars
<1>4. ASSUME NEW s \in Servers, Boot(s) PROVE Built'
  <2> DEFINE r == [Down EXCEPT !.pc = "list", !.root = IF Repo = "gcs" THEN head ELSE 1]
  <2>1. r.root \in {head, 1} /\ r.pend = 0
    BY DEF Down
  <2>2. BuiltRec(r)
    BY <2>1, CommitNumbers DEF BuiltRec, Built
  <2> HIDE DEF r
  <2>3. srv' = [srv EXCEPT ![s] = r]
    BY <1>4 DEF Boot, r
  <2> QED
    BY <1>4, <2>2, <2>3, BuiltUpdate DEF Boot, repoVars
<1>5. ASSUME NEW s \in Servers, Tick(s) \/ StopSignal(s) PROVE Built'
  <2>1. \A x : BuiltRec([srv[s] EXCEPT !.pc = "lockwait", !.mode = x])
    BY <1>1 DEF BuiltRec, ServerRecord
  <2>2. \E x : srv' = [srv EXCEPT ![s] = [srv[s] EXCEPT !.pc = "lockwait", !.mode = x]]
    BY <1>5 DEF Tick, StopSignal
  <2>3. UNCHANGED <<head, ncommits>>
    BY <1>5 DEF Tick, StopSignal, repoVars
  <2> QED
    BY <2>1, <2>2, <2>3, BuiltUpdate
<1>6. ASSUME NEW s \in Servers, Crash(s) PROVE Built'
  <2>1. BuiltRec(Down)
    BY CommitNumbers DEF BuiltRec, Down
  <2> QED
    BY <1>6, <2>1, BuiltUpdate DEF Crash, repoVars
<1>7. ASSUME NEW s \in Servers, LockForCommit(s) \/ Publish(s) PROVE Built'
  <2>1. \A x : BuiltRec([srv[s] EXCEPT !.pc = x])
    BY <1>1 DEF BuiltRec, ServerRecord
  <2> QED
    BY <1>7, <2>1, BuiltUpdate DEF LockForCommit, Publish, SetBranch, repoVars
<1>8. ASSUME NEW s \in Servers, Finalize(s) \/ FinalizeErr(s) PROVE Built'
  <2> DEFINE w == [srv[s] EXCEPT !.writer = NoWriter]
  <2>1. w \in ServerRecord /\ BuiltRec(w)
    BY <1>1 DEF BuiltRec, ServerRecord
  <2>2. BuiltRec([w EXCEPT !.pc = "list"])
    BY <2>1 DEF BuiltRec, ServerRecord
  <2>3. srv' = [srv EXCEPT ![s] = Failed(w)] \/ srv' = [srv EXCEPT ![s] = [w EXCEPT !.pc = "list"]]
    BY <1>8 DEF Finalize, FinalizeErr
  <2>4. UNCHANGED <<head, ncommits>>
    BY <1>8 DEF Finalize, FinalizeErr, repoVars
  <2> HIDE DEF w
  <2> QED
    BY <2>1, <2>2, <2>3, <2>4, FailedBuilt, BuiltUpdate
<1>9. ASSUME NEW s \in Servers, ListAndLockout(s) \/ ListErr(s) PROVE Built'
  <2>1. \A T : BuiltRec([srv[s] EXCEPT !.pc = "replay", !.todo = T])
    BY <1>1 DEF BuiltRec, ServerRecord
  <2>2. \/ srv' = [srv EXCEPT ![s] = AfterNone(srv[s])]
        \/ \E T : srv' = [srv EXCEPT ![s] = [srv[s] EXCEPT !.pc = "replay", !.todo = T]]
    BY <1>9 DEF ListAndLockout, ListErr
  <2>3. UNCHANGED <<head, ncommits>>
    BY <1>9 DEF ListAndLockout, ListErr, repoVars
  <2> QED
    BY <1>1, <2>1, <2>2, <2>3, AfterNoneBuilt, BuiltUpdate
<1>10. ASSUME NEW s \in Servers, Replay(s) PROVE Built'
  <2>1. CASE \A q \in srv[s].todo : log[q].entries = {}
    <3> DEFINE r == [srv[s] EXCEPT !.pc = "mark", !.pend = NoCommit]
    <3>1. r.root = srv[s].root /\ r.pend = 0
      BY <1>1 DEF ServerRecord
    <3>2. BuiltRec(r)
      BY <1>1, <3>1, CommitNumbers DEF BuiltRec
    <3>3. srv' = [srv EXCEPT ![s] = r] /\ UNCHANGED <<head, ncommits>>
      BY <1>10, <2>1 DEF Replay
    <3> HIDE DEF r
    <3> QED
      BY <3>2, <3>3, BuiltUpdate
  <2>2. CASE ~ \A q \in srv[s].todo : log[q].entries = {}
    <3>1. PICK x : srv' = [srv EXCEPT ![s] = [srv[s] EXCEPT !.pend = ncommits', !.pc = x]]
      BY <1>10, <2>2 DEF Replay
    <3>2. ncommits' = ncommits + 1 /\ head' = head
      BY <1>10, <2>2 DEF Replay
    <3>3. srv'[s].root = srv[s].root /\ srv'[s].pend = ncommits'
      BY <1>1, <3>1 DEF ServerRecord, TypeInv, TypeOK
    <3>4. \A t \in Servers : t # s => srv'[t] = srv[t]
      BY <3>1 DEF TypeInv, TypeOK
    <3> QED
      BY <3>2, <3>3, <3>4, CommitNumbers DEF Built
  <2> QED
    BY <2>1, <2>2
<1>11. ASSUME NEW s \in Servers, MarkDone(s) PROVE Built'
  <2>1. BuiltRec([srv[s] EXCEPT !.pc = "upload"])
    BY <1>1 DEF BuiltRec, ServerRecord
  <2>2. \/ srv' = [srv EXCEPT ![s] = [srv[s] EXCEPT !.pc = "upload"]]
        \/ \E q \in Seqs : srv' = [srv EXCEPT ![s] = Marked(srv[s], q)]
    BY <1>11 DEF MarkDone
  <2>3. UNCHANGED <<head, ncommits>>
    BY <1>11 DEF MarkDone, repoVars
  <2> QED
    BY <1>1, <2>1, <2>2, <2>3, MarkedBuilt, BuiltUpdate
<1>12. ASSUME NEW s \in Servers, UploadPack(s) PROVE Built'
  BY <1>1, <1>12, MarkedBuilt, BuiltUpdate DEF UploadPack, repoVars
<1>13. ASSUME NEW s \in Servers, Adopt(s) PROVE Built'
  <2> DEFINE go == [srv[s] EXCEPT !.pc = "open", !.root = srv[s].pend, !.pend = NoCommit]
  <2>1. go.root = srv[s].pend /\ go.pend = 0
    BY <1>1 DEF ServerRecord
  <2>2. BuiltRec(go) /\ BuiltRec([Down EXCEPT !.pc = "exit"])
    BY <1>1, <2>1, CommitNumbers DEF BuiltRec, Down
  <2> QED
    BY <1>13, <2>2, BuiltUpdate DEF Adopt, repoVars
<1>14. ASSUME NEW s \in Servers, OpenWal(s) PROVE Built'
  <2>1. \A q : BuiltRec([srv[s] EXCEPT !.pc = "idle", !.seq = q, !.writer = q,
                                        !.dirty = FALSE, !.mode = "auto"])
    BY <1>1 DEF BuiltRec, ServerRecord
  <2> QED
    BY <1>14, <2>1, BuiltUpdate DEF OpenWal, repoVars
<1>15. ASSUME NEW s \in Servers, OpenErr(s) PROVE Built'
  <2>1. PICK q \in Seqs : srv' = [srv EXCEPT ![s] = Failed([srv[s] EXCEPT !.seq = q])]
    BY <1>15 DEF OpenErr
  <2>2. [srv[s] EXCEPT !.seq = q] \in ServerRecord /\ BuiltRec([srv[s] EXCEPT !.seq = q])
    BY <1>1 DEF BuiltRec, ServerRecord
  <2> QED
    BY <1>15, <2>1, <2>2, FailedBuilt, BuiltUpdate DEF OpenErr, repoVars
<1>16. ASSUME NEW s \in Servers, RecoverErr(s) \/ PublishErr(s) \/ UploadErr(s) PROVE Built'
  BY <1>1, <1>16, FailedBuilt, BuiltUpdate
     DEF RecoverErr, PublishErr, UploadErr, SetBranch, repoVars
<1>17. ASSUME NEW s \in Servers, OutputErr(s) PROVE Built'
  <2>1. PICK c \in {srv[s].root, srv[s].pend} :
           srv' = [srv EXCEPT ![s] = Failed([srv[s] EXCEPT !.root = c])]
    BY <1>17 DEF OutputErr
  <2> DEFINE w == [srv[s] EXCEPT !.root = c]
  <2>2. c \in CommitIds /\ c <= ncommits
    BY <1>1, <1>17, PendCommit DEF OutputErr, ServerRecord, BuiltRec
  <2>3. w \in ServerRecord /\ w.root = c /\ w.pend = srv[s].pend
    BY <1>1, <2>2 DEF ServerRecord
  <2>4. BuiltRec(w)
    BY <1>1, <2>2, <2>3 DEF BuiltRec
  <2>5. UNCHANGED <<head, ncommits>>
    BY <1>17 DEF OutputErr, repoVars
  <2> HIDE DEF w
  <2>6. srv' = [srv EXCEPT ![s] = Failed(w)]
    BY <2>1 DEF w
  <2> QED
    BY <2>3, <2>4, <2>5, <2>6, FailedBuilt, BuiltUpdate
<1>18. CASE UNCHANGED vars
  BY <1>18 DEF vars, Built
<1> QED
  BY <1>2, <1>3, <1>4, <1>5, <1>6, <1>7, <1>8, <1>9, <1>10, <1>11, <1>12, <1>13,
     <1>14, <1>15, <1>16, <1>17, <1>18 DEF Next, CommitStep, FaultStep

-----------------------------------------------------------------------------
(* One lemma per action: it keeps the invariant.                           *)
LEMMA StageInv ==
    ASSUME SafeSetting, TypeInv, DurabilityInv, NEW s \in Servers, NEW m \in Muts, Stage(s, m)
    PROVE  CoreInv'
<1>1. /\ srv'[s].pc = srv[s].pc /\ srv'[s].mode = srv[s].mode /\ srv'[s].root = srv[s].root
      /\ srv'[s].seq = srv[s].seq /\ srv'[s].writer = srv[s].writer
      /\ srv'[s].todo = srv[s].todo /\ srv'[s].pend = srv[s].pend
  BY SrvRec DEF Stage, ServerRecord, TypeInv, TypeOK
<1>2. Frame
  BY DEF Stage, Frame, SameLogs, repoVars
<1>3. WriterInv(s)'
  BY <1>1, <1>2, SrvInvOf
     DEF Stage, Frame, SameLogs, SrvInv, WriterInv, Made, TypeInv, TypeOK, OpsOK, ServerRecord
<1>4. SeqInv(s)'
  BY <1>1, <1>2, SrvInvOf DEF Frame, SameLogs, SrvInv, SeqInv, Made, Running
<1>5. TodoInv(s)'
  BY <1>1, <1>2, SrvInvOf DEF Frame, SameLogs, SrvInv, TodoInv, Made
<1>6. PendInv(s)'
  BY <1>1, <1>2, SrvInvOf DEF Stage, SrvInv, PendInv, InTree
<1>7. RootInv(s)'
  BY <1>1, <1>2, SrvInvOf DEF Stage, Frame, SameLogs, SrvInv, RootInv, InTree, Made, Running
<1> QED
  BY <1>2, <1>3, <1>4, <1>5, <1>6, <1>7, FrameInv, Assemble DEF SrvInv

LEMMA TickInv ==
    ASSUME SafeSetting, TypeInv, DurabilityInv, NEW s \in Servers, Tick(s)
    PROVE  CoreInv'
<1>1. /\ srv'[s].pc = "lockwait" /\ srv'[s].mode = "auto" /\ srv'[s].root = srv[s].root
      /\ srv'[s].seq = srv[s].seq /\ srv'[s].writer = srv[s].writer
      /\ srv'[s].todo = srv[s].todo /\ srv'[s].pend = srv[s].pend
  BY SrvRec DEF Tick, ServerRecord, TypeInv, TypeOK
<1>2. Frame /\ UNCHANGED <<op, at>>
  BY DEF Tick, Frame, SameLogs, repoVars, opVars
<1>3. srv[s].mode # "boot"
  BY SrvInvOf DEF Tick, SrvInv, WriterInv
<1>4. WriterInv(s)'
  BY <1>1, <1>2, <1>3, SrvInvOf DEF Frame, SameLogs, SrvInv, WriterInv, Made, Tick
<1>5. SeqInv(s)'
  BY <1>1, <1>2, <1>3, SrvInvOf DEF Frame, SameLogs, SrvInv, SeqInv, Made, Running, Tick
<1>6. TodoInv(s)'
  BY <1>1, <1>2, <1>3, SrvInvOf DEF Frame, SameLogs, SrvInv, TodoInv, Made, Tick
<1>7. PendInv(s)'
  BY <1>1, <1>2, <1>3, SrvInvOf DEF Frame, SameLogs, SrvInv, PendInv, InTree, Tick
<1>8. RootInv(s)'
  BY <1>1, <1>2, <1>3, SrvInvOf DEF Frame, SameLogs, SrvInv, RootInv, InTree, Made, Running, Tick
<1> QED
  BY <1>1, <1>2, <1>3, <1>4, <1>5, <1>6, <1>7, <1>8, FrameInv, Assemble DEF SrvInv

LEMMA StopSignalInv ==
    ASSUME SafeSetting, TypeInv, DurabilityInv, NEW s \in Servers, StopSignal(s)
    PROVE  CoreInv'
<1>1. /\ srv'[s].pc = "lockwait" /\ srv'[s].mode = "shutdown" /\ srv'[s].root = srv[s].root
      /\ srv'[s].seq = srv[s].seq /\ srv'[s].writer = srv[s].writer
      /\ srv'[s].todo = srv[s].todo /\ srv'[s].pend = srv[s].pend
  BY SrvRec DEF StopSignal, ServerRecord, TypeInv, TypeOK
<1>2. Frame /\ UNCHANGED <<op, at>>
  BY DEF StopSignal, Frame, SameLogs, repoVars, opVars
<1>3. srv[s].mode # "boot"
  BY SrvInvOf DEF StopSignal, SrvInv, WriterInv
<1>4. WriterInv(s)'
  BY <1>1, <1>2, <1>3, SrvInvOf DEF Frame, SameLogs, SrvInv, WriterInv, Made, StopSignal
<1>5. SeqInv(s)'
  BY <1>1, <1>2, <1>3, SrvInvOf DEF Frame, SameLogs, SrvInv, SeqInv, Made, Running, StopSignal
<1>6. TodoInv(s)'
  BY <1>1, <1>2, <1>3, SrvInvOf DEF Frame, SameLogs, SrvInv, TodoInv, Made, StopSignal
<1>7. PendInv(s)'
  BY <1>1, <1>2, <1>3, SrvInvOf DEF Frame, SameLogs, SrvInv, PendInv, InTree, StopSignal
<1>8. RootInv(s)'
  BY <1>1, <1>2, <1>3, SrvInvOf DEF Frame, SameLogs, SrvInv, RootInv, InTree, Made, Running, StopSignal
<1> QED
  BY <1>1, <1>2, <1>3, <1>4, <1>5, <1>6, <1>7, <1>8, FrameInv, Assemble DEF SrvInv

LEMMA LockForCommitInv ==
    ASSUME SafeSetting, TypeInv, DurabilityInv, NEW s \in Servers, LockForCommit(s)
    PROVE  CoreInv'
<1>1. /\ srv'[s].pc = (IF srv[s].mode = "auto" /\ ~srv[s].dirty THEN "idle" ELSE "finalize") /\ srv'[s].mode = srv[s].mode /\ srv'[s].root = srv[s].root
      /\ srv'[s].seq = srv[s].seq /\ srv'[s].writer = srv[s].writer
      /\ srv'[s].todo = srv[s].todo /\ srv'[s].pend = srv[s].pend
  BY SrvRec DEF LockForCommit, ServerRecord, TypeInv, TypeOK
<1>2. Frame /\ UNCHANGED <<op, at>>
  BY DEF LockForCommit, Frame, SameLogs, repoVars, opVars
<1>3. WriterInv(s)'
  BY <1>1, <1>2, SrvInvOf DEF Frame, SameLogs, SrvInv, WriterInv, Made, LockForCommit
<1>4. SeqInv(s)'
  BY <1>1, <1>2, SrvInvOf DEF Frame, SameLogs, SrvInv, SeqInv, Made, Running, LockForCommit
<1>5. TodoInv(s)'
  BY <1>1, <1>2, SrvInvOf DEF Frame, SameLogs, SrvInv, TodoInv, Made, LockForCommit
<1>6. PendInv(s)'
  BY <1>1, <1>2, SrvInvOf DEF Frame, SameLogs, SrvInv, PendInv, InTree, LockForCommit
<1>7. RootInv(s)'
  BY <1>1, <1>2, SrvInvOf DEF Frame, SameLogs, SrvInv, RootInv, InTree, Made, Running, LockForCommit
<1> QED
  BY <1>1, <1>2, <1>3, <1>4, <1>5, <1>6, <1>7, FrameInv, Assemble DEF SrvInv

LEMMA BootInv ==
    ASSUME SafeSetting, TypeInv, DurabilityInv, NEW s \in Servers, Boot(s)
    PROVE  CoreInv'
<1>1. /\ srv'[s].pc = "list" /\ srv'[s].mode = "boot" /\ srv'[s].root = head
      /\ srv'[s].seq = 0 /\ srv'[s].writer = NoWriter
      /\ srv'[s].todo = {} /\ srv'[s].pend = NoCommit
  BY SrvRec, SafeSetting DEF Boot, Down, SafeSetting, ServerRecord, TypeInv, TypeOK
<1>2. Frame /\ UNCHANGED <<op, at>>
  BY DEF Boot, Frame, SameLogs, repoVars, opVars
<1>3. WriterInv(s)'
  BY <1>1, <1>2, SrvInvOf DEF Frame, SameLogs, SrvInv, WriterInv, Made, Boot
<1>4. SeqInv(s)'
  BY <1>1, <1>2, SrvInvOf DEF Frame, SameLogs, SrvInv, SeqInv, Made, Running, Boot
<1>5. TodoInv(s)'
  BY <1>1, <1>2, SrvInvOf DEF Frame, SameLogs, SrvInv, TodoInv, Made, Boot
<1>6. PendInv(s)'
  BY <1>1, <1>2, SrvInvOf DEF Frame, SameLogs, SrvInv, PendInv, InTree, Boot
<1>7. RootInv(s)'
  BY <1>1, <1>2, SrvInvOf DEF Frame, SameLogs, SrvInv, RootInv, InTree, Made, Running, Boot
<1> QED
  BY <1>1, <1>2, <1>3, <1>4, <1>5, <1>6, <1>7, FrameInv, Assemble DEF SrvInv

(* A server that is not running has nothing to keep.                       *)
LEMMA StoppedInv ==
    ASSUME NEW s \in Servers, srv'[s].pc \in {"down", "exit"}, srv'[s].writer = NoWriter,
           \A m \in Muts : ~(op'[m] = "staged" /\ at'[m] = s)
    PROVE  SrvInv(s)'
  BY DEF SrvInv, WriterInv, SeqInv, TodoInv, PendInv, RootInv, Running

LEMMA CrashInv ==
    ASSUME SafeSetting, TypeInv, DurabilityInv, NEW s \in Servers, Crash(s)
    PROVE  CoreInv'
<1>1. srv'[s].pc = "down" /\ srv'[s].writer = NoWriter
  BY DEF Crash, Down, TypeInv, TypeOK
<1>2. Frame
  BY DEF Crash, Frame, SameLogs, repoVars
<1>3. \A m \in Muts : ~(op'[m] = "staged" /\ at'[m] = s)
  BY DEF Crash
<1> QED
  BY <1>1, <1>2, <1>3, StoppedInv, FrameInv, Assemble

(* No handler is inside once a commit runs.                                *)
LEMMA NoneInside ==
    ASSUME DurabilityInv, NEW s \in Servers, srv[s].pc \notin {"idle", "lockwait"}
    PROVE  \A m \in Muts : ~(op[m] = "staged" /\ at[m] = s)
  BY SrvInvOf DEF SrvInv, WriterInv

(* The error return before any log is marked: a running server is back     *)
(* where it was, without a writer.                                         *)
LEMMA FailInv ==
    ASSUME SafeSetting, TypeInv, DurabilityInv, NEW s \in Servers,
           srv[s].pc \in {"finalize", "list", "replay", "publish", "mark"},
           NEW w \in ServerRecord, w.writer = NoWriter, w.mode = srv[s].mode,
           w.root = srv[s].root, w.seq = srv[s].seq,
           srv' = [srv EXCEPT ![s] = Failed(w)], Frame, UNCHANGED <<op, at>>
    PROVE  CoreInv'
<1>1. srv'[s] = Failed(w)
  BY DEF TypeInv, TypeOK
<1>2. CASE w.mode # "auto"
  BY <1>1, <1>2, NoneInside, StoppedInv, FrameInv, Assemble DEF Failed, Down
<1>3. CASE w.mode = "auto"
  <2>0. Failed(w) = [w EXCEPT !.pc = "idle", !.todo = {}, !.pend = NoCommit]
    BY <1>3 DEF Failed
  <2>1. /\ srv'[s].pc = "idle" /\ srv'[s].mode = "auto" /\ srv'[s].root = srv[s].root
        /\ srv'[s].seq = srv[s].seq /\ srv'[s].writer = NoWriter
    <3> DEFINE f == [w EXCEPT !.pc = "idle", !.todo = {}, !.pend = NoCommit]
    <3>1. /\ f.pc = "idle" /\ f.mode = w.mode /\ f.root = w.root
          /\ f.seq = w.seq /\ f.writer = w.writer
      BY DEF ServerRecord
    <3> QED
      BY <1>1, <1>3, <2>0, <3>1
  <2>2. WriterInv(s)'
    BY <1>3, <2>1 DEF WriterInv
  <2>3. SeqInv(s)'
    BY <1>3, <2>1, SrvInvOf DEF Frame, SameLogs, SrvInv, SeqInv, Made, Running
  <2>4. TodoInv(s)' /\ PendInv(s)'
    BY <2>1 DEF TodoInv, PendInv
  <2>5. RootInv(s)'
    <3>1. Running(srv[s]) /\ srv[s].mode # "boot" /\ srv[s].pc \notin {"upload", "adopt"}
      BY <1>3 DEF Running
    <3> QED
      BY <2>1, <3>1, SrvInvOf DEF Frame, SameLogs, SrvInv, RootInv, InTree, Made
  <2> QED
    BY <2>2, <2>3, <2>4, <2>5, FrameInv, Assemble DEF SrvInv
<1> QED
  BY <1>2, <1>3

LEMMA FinalizeFrame ==
    ASSUME TypeInv, NEW s \in Servers, Finalize(s) \/ FinalizeErr(s)
    PROVE  Frame
<1> DEFINE q == srv[s].writer
<1>1. UNCHANGED log \/ (q # NoWriter /\ log' = [log EXCEPT ![q] = [log[q] EXCEPT !.sealed = TRUE]])
  BY DEF Finalize, FinalizeErr
<1>2. q # NoWriter => q \in Seqs
  BY SrvRec DEF ServerRecord
<1>3. SameLogs
  BY <1>1, <1>2, LogRec DEF SameLogs, LogRecord, TypeInv, TypeOK
<1> QED
  BY <1>3 DEF Finalize, FinalizeErr, Frame, repoVars, opVars

LEMMA FinalizeInv ==
    ASSUME SafeSetting, TypeInv, DurabilityInv, NEW s \in Servers,
           Finalize(s) \/ FinalizeErr(s)
    PROVE  CoreInv'
<1> DEFINE w == [srv[s] EXCEPT !.writer = NoWriter]
<1>1. /\ w \in ServerRecord /\ w.writer = NoWriter /\ w.mode = srv[s].mode
      /\ w.root = srv[s].root /\ w.seq = srv[s].seq /\ w.todo = srv[s].todo
      /\ w.pend = srv[s].pend
  BY SrvRec DEF ServerRecord
<1>2. srv[s].pc = "finalize" /\ UNCHANGED <<op, at>>
  BY DEF Finalize, FinalizeErr, opVars
<1>3. Frame
  BY FinalizeFrame
<1>4. CASE srv' = [srv EXCEPT ![s] = Failed(w)]
  <2> HIDE DEF w
  <2> QED
    BY <1>1, <1>2, <1>3, <1>4, FailInv
<1>5. CASE srv' = [srv EXCEPT ![s] = [w EXCEPT !.pc = "list"]]
  <2>1. /\ srv'[s].pc = "list" /\ srv'[s].mode = srv[s].mode /\ srv'[s].root = srv[s].root
        /\ srv'[s].seq = srv[s].seq /\ srv'[s].writer = NoWriter
    BY <1>1, <1>5 DEF ServerRecord, TypeInv, TypeOK
  <2>2. WriterInv(s)'
    BY <1>2, <2>1, NoneInside DEF WriterInv
  <2>3. SeqInv(s)'
    BY <1>2, <1>3, <2>1, SrvInvOf DEF Frame, SameLogs, SrvInv, SeqInv, Made, Running
  <2>4. TodoInv(s)' /\ PendInv(s)'
    BY <2>1 DEF TodoInv, PendInv
  <2>5. RootInv(s)'
    BY <1>2, <1>3, <2>1, SrvInvOf DEF Frame, SameLogs, SrvInv, WriterInv, RootInv, InTree, Made, Running
  <2> QED
    BY <1>3, <2>2, <2>3, <2>4, <2>5, FrameInv, Assemble DEF SrvInv
<1> QED
  BY <1>4, <1>5 DEF Finalize, FinalizeErr

LEMMA RecoverErrInv ==
    ASSUME SafeSetting, TypeInv, DurabilityInv, NEW s \in Servers, RecoverErr(s)
    PROVE  CoreInv'
<1>1. srv[s] \in ServerRecord /\ srv[s].writer = NoWriter
  BY SrvRec, SrvInvOf DEF RecoverErr, SrvInv, WriterInv
<1>2. Frame /\ UNCHANGED <<op, at>>
  BY DEF RecoverErr, Frame, SameLogs, repoVars, opVars
<1> QED
  BY <1>1, <1>2, FailInv DEF RecoverErr

(* Sealing does not touch what the invariant sees.                         *)
LEMMA SealingSame == ASSUME TypeInv, NEW Q, log' = Sealing(Q) PROVE SameLogs
  BY LogRec DEF SameLogs, Sealing, LogRecord

(* The lists of recovery: every uncommitted log, and perhaps a done one.   *)
LEMMA ListedInv ==
    ASSUME SafeSetting, TypeInv, DurabilityInv, NEW s \in Servers, srv[s].pc = "list",
           NEW T \in SUBSET Made, \A q \in Made : ~log[q].done => q \in T,
           srv' = [srv EXCEPT ![s] = [srv[s] EXCEPT !.pc = "replay", !.todo = T]],
           Frame, UNCHANGED <<op, at>>
    PROVE  CoreInv'
<1>1. /\ srv'[s].pc = "replay" /\ srv'[s].mode = srv[s].mode /\ srv'[s].root = srv[s].root
      /\ srv'[s].seq = srv[s].seq /\ srv'[s].writer = srv[s].writer /\ srv'[s].todo = T
  BY SrvRec DEF ServerRecord, TypeInv, TypeOK
<1>2. WriterInv(s)'
  BY <1>1, NoneInside, SrvInvOf DEF SrvInv, WriterInv
<1>3. SeqInv(s)'
  BY <1>1, SrvInvOf DEF Frame, SameLogs, SrvInv, SeqInv, Made, Running
<1>4. TodoInv(s)'
  BY <1>1 DEF Frame, SameLogs, TodoInv, Made
<1>5. PendInv(s)'
  BY <1>1 DEF PendInv
<1>6. RootInv(s)'
  BY <1>1, SrvInvOf DEF Frame, SameLogs, SrvInv, RootInv, InTree, Made, Running
<1> QED
  BY <1>2, <1>3, <1>4, <1>5, <1>6, FrameInv, Assemble DEF SrvInv

LEMMA ListErrInv ==
    ASSUME SafeSetting, TypeInv, DurabilityInv, NEW s \in Servers, ListErr(s)
    PROVE  CoreInv'
<1>1. PICK q \in Made :
         \/ /\ log' = Sealing(Made \ {q})
            /\ srv' = [srv EXCEPT ![s] = [srv[s] EXCEPT !.pc = "replay",
                                           !.todo = {p \in Made : ~log[p].done}]]
         \/ /\ log' = Sealing(Made)
            /\ srv' = [srv EXCEPT ![s] = [srv[s] EXCEPT !.pc = "replay",
                                           !.todo = {q} \cup {p \in Made : ~log[p].done}]]
  BY DEF ListErr
<1>2. Frame /\ UNCHANGED <<op, at>>
  BY <1>1, SealingSame DEF ListErr, Frame, repoVars, opVars
<1>3. PICK T \in SUBSET Made :
         /\ \A p \in Made : ~log[p].done => p \in T
         /\ srv' = [srv EXCEPT ![s] = [srv[s] EXCEPT !.pc = "replay", !.todo = T]]
  <2>1. CASE srv' = [srv EXCEPT ![s] = [srv[s] EXCEPT !.pc = "replay",
                                           !.todo = {p \in Made : ~log[p].done}]]
    <3> DEFINE U == {p \in Made : ~log[p].done}
    <3>1. U \in SUBSET Made /\ \A p \in Made : ~log[p].done => p \in U
      OBVIOUS
    <3> HIDE DEF U
    <3> QED
      BY <2>1, <3>1 DEF U
  <2>2. CASE srv' = [srv EXCEPT ![s] = [srv[s] EXCEPT !.pc = "replay",
                                           !.todo = {q} \cup {p \in Made : ~log[p].done}]]
    <3> DEFINE U == {q} \cup {p \in Made : ~log[p].done}
    <3>1. U \in SUBSET Made /\ \A p \in Made : ~log[p].done => p \in U
      OBVIOUS
    <3> HIDE DEF U
    <3> QED
      BY <2>2, <3>1 DEF U
  <2> QED
    BY <1>1, <2>1, <2>2
<1>4. srv[s].pc = "list"
  BY DEF ListErr
<1> QED
  BY <1>2, <1>3, <1>4, ListedInv

LEMMA ListAndLockoutInv ==
    ASSUME SafeSetting, TypeInv, DurabilityInv, NEW s \in Servers, ListAndLockout(s)
    PROVE  CoreInv'
<1> DEFINE T == {q \in Made : ~log[q].done}
<1>1. Frame /\ UNCHANGED <<op, at>>
  BY SealingSame DEF ListAndLockout, Frame, repoVars, opVars
<1>2. srv[s].pc = "list" /\ T \in SUBSET Made /\ \A q \in Made : ~log[q].done => q \in T
  BY DEF ListAndLockout
<1>3. srv' = [srv EXCEPT ![s] = IF T = {} THEN AfterNone(srv[s])
                                ELSE [srv[s] EXCEPT !.pc = "replay", !.todo = T]]
  BY DEF ListAndLockout
<1>4. srv[s].writer = NoWriter
  BY <1>2, SrvInvOf DEF SrvInv, WriterInv
<1>5. \A m \in Muts : ~(op'[m] = "staged" /\ at'[m] = s)
  BY <1>1, <1>2, NoneInside
<1> HIDE DEF T
<1>6. CASE T # {}
  BY <1>1, <1>2, <1>3, <1>6, ListedInv
<1>7. CASE T = {} /\ srv[s].mode = "shutdown"
  <2>1. srv'[s].pc = "exit" /\ srv'[s].writer = NoWriter
    BY <1>3, <1>7 DEF AfterNone, Down, TypeInv, TypeOK
  <2> QED
    BY <1>1, <1>5, <2>1, StoppedInv, FrameInv, Assemble
<1>8. CASE T = {} /\ srv[s].mode # "shutdown"
  <2>1. /\ srv'[s].pc = "open" /\ srv'[s].mode = srv[s].mode /\ srv'[s].root = srv[s].root
        /\ srv'[s].seq = srv[s].seq /\ srv'[s].writer = srv[s].writer
    <3>1. srv'[s] = [srv[s] EXCEPT !.pc = "open"]
      BY <1>3, <1>8 DEF AfterNone, TypeInv, TypeOK
    <3> QED
      BY <3>1, SrvRec DEF ServerRecord
  <2>2. WriterInv(s)'
    BY <1>4, <1>5, <2>1 DEF WriterInv
  <2>3. SeqInv(s)'
    BY <1>1, <1>2, <2>1, SrvInvOf DEF Frame, SameLogs, SrvInv, SeqInv, Made, Running
  <2>4. TodoInv(s)'
    BY <1>1, <1>2, <1>8, <2>1 DEF Frame, SameLogs, TodoInv, Made
  <2>5. PendInv(s)'
    BY <2>1 DEF PendInv
  <2>6. RootInv(s)'
    BY <1>1, <1>2, <2>1, SrvInvOf DEF Frame, SameLogs, SrvInv, RootInv, InTree, Made, Running
  <2> QED
    BY <1>1, <2>2, <2>3, <2>4, <2>5, <2>6, FrameInv, Assemble DEF SrvInv
<1> QED
  BY <1>6, <1>7, <1>8

(* A replay that finds nothing builds nothing.                             *)
LEMMA ReplayNoneInv ==
    ASSUME SafeSetting, TypeInv, DurabilityInv, NEW s \in Servers, Replay(s),
           \A q \in srv[s].todo : log[q].entries = {}
    PROVE  CoreInv'
<1>1. Frame /\ UNCHANGED <<op, at>> /\ srv[s].pc = "replay"
  BY DEF Replay, Frame, SameLogs, opVars
<1>2. /\ srv'[s].pc = "mark" /\ srv'[s].mode = srv[s].mode /\ srv'[s].root = srv[s].root
      /\ srv'[s].seq = srv[s].seq /\ srv'[s].writer = srv[s].writer
      /\ srv'[s].todo = srv[s].todo /\ srv'[s].pend = NoCommit
  BY SrvRec DEF Replay, ServerRecord, TypeInv, TypeOK
<1>3. WriterInv(s)'
  BY <1>1, <1>2, NoneInside, SrvInvOf DEF SrvInv, WriterInv
<1>4. SeqInv(s)'
  BY <1>1, <1>2, SrvInvOf DEF Frame, SameLogs, SrvInv, SeqInv, Made, Running
<1>5. TodoInv(s)'
  BY <1>1, <1>2, SrvInvOf DEF Frame, SameLogs, SrvInv, TodoInv, Made
<1>6. PendInv(s)'
  <2>1. srv[s].todo \subseteq Seqs
    BY SrvRec DEF ServerRecord
  <2> QED
    BY <1>1, <1>2, <2>1 DEF Frame, SameLogs, PendInv
<1>7. RootInv(s)'
  BY <1>1, <1>2, SrvInvOf DEF Frame, SameLogs, SrvInv, RootInv, InTree, Made, Running
<1> QED
  BY <1>1, <1>3, <1>4, <1>5, <1>6, <1>7, FrameInv, Assemble DEF SrvInv

(* A replay builds a new commit: the root plus the work list.              *)
LEMMA ReplayCommitInv ==
    ASSUME SafeSetting, TypeInv, DurabilityInv, NEW s \in Servers, Replay(s),
           ~ \A q \in srv[s].todo : log[q].entries = {}
    PROVE  CoreInv'
<1> DEFINE c == ncommits + 1
           r == srv[s]
<1>1. /\ srv'[s].pc = "publish" /\ srv'[s].mode = r.mode /\ srv'[s].root = r.root
      /\ srv'[s].seq = r.seq /\ srv'[s].writer = r.writer
      /\ srv'[s].todo = r.todo /\ srv'[s].pend = c
  <2>1. srv' = [srv EXCEPT ![s] = [r EXCEPT !.pend = c, !.pc = "publish"]]
    BY DEF Replay, SafeSetting
  <2> HIDE DEF c
  <2> QED
    BY <2>1, SrvRec DEF ServerRecord, TypeInv, TypeOK
<1>2. /\ UNCHANGED <<log, head, published, accepted, op, at>> /\ srv[s].pc = "replay"
      /\ tree' = [tree EXCEPT ![c] = [m \in Muts |-> tree[r.root][m] + Replayed(r, m)]]
      /\ ncommits < MaxCommits
  BY DEF Replay, opVars
<1>3. /\ c \in CommitIds /\ r.root \in CommitIds /\ r.root # c /\ head # c
      /\ head \in CommitIds /\ r.todo \subseteq Seqs
  <2>1. r.root \in CommitIds /\ r.todo \subseteq Seqs
    BY SrvRec DEF ServerRecord
  <2>2. head \in CommitIds
    BY DEF TypeInv, TypeOK, RepoOK
  <2> QED
    BY <1>2, <2>1, <2>2, CommitNumbers, BoundAssumption DEF DurabilityInv, Built
<1>4. \A m \in Muts : InTree(m, head)' <=> InTree(m, head)
  BY <1>2, <1>3 DEF InTree, TypeInv, TypeOK, RepoOK
<1>5. \A m \in Muts : tree'[r.root][m] > 0 <=> InTree(m, r.root)
  BY <1>2, <1>3 DEF InTree, TypeInv, TypeOK, RepoOK
<1>6. \A m \in Muts : tree'[c][m] > 0 <=>
          InTree(m, r.root) \/ \E q \in r.todo : m \in log[q].entries
  <2> SUFFICES ASSUME NEW m \in Muts
               PROVE  tree'[c][m] > 0 <=>
                        InTree(m, r.root) \/ \E q \in r.todo : m \in log[q].entries
    OBVIOUS
  <2>1. tree'[c][m] = tree[r.root][m] + Replayed(r, m)
    BY <1>2, <1>3 DEF TypeInv, TypeOK, RepoOK
  <2>2. tree[r.root][m] \in Nat
    BY <1>3 DEF TypeInv, TypeOK, RepoOK
  <2>3. /\ Replayed(r, m) \in Nat
        /\ Replayed(r, m) > 0 <=> \E q \in r.todo : m \in log[q].entries
    BY <1>3, ReplayedNat
  <2> HIDE DEF c, r
  <2> QED
    BY <2>1, <2>2, <2>3 DEF InTree
<1> HIDE DEF c
<1>7. LogsKeep'
  BY <1>2 DEF DurabilityInv, LogsKeep, Made
<1>8. DoneInHead'
  <2>1. \A q \in Made : log[q].entries \subseteq Muts
    BY LogRec DEF Made, LogRecord
  <2> QED
    BY <1>2, <1>4, <2>1 DEF DurabilityInv, DoneInHead, Made
<1>9. WriterInv(s)'
  BY <1>1, <1>2, NoneInside, SrvInvOf DEF SrvInv, WriterInv
<1>10. SeqInv(s)'
  BY <1>1, <1>2, SrvInvOf DEF SrvInv, SeqInv, Made, Running
<1>11. TodoInv(s)'
  BY <1>1, <1>2, SrvInvOf DEF SrvInv, TodoInv, Made
<1>12. PendInv(s)'
  BY <1>1, <1>2, <1>5, <1>6 DEF PendInv, InTree
<1>13. RootInv(s)'
  <2>1. \A q \in Made : log[q].entries \subseteq Muts
    BY LogRec DEF Made, LogRecord
  <2>2. \A m \in Muts : InTree(m, srv[s].root)' <=> InTree(m, srv[s].root)
    BY <1>1, <1>5 DEF InTree
  <2> QED
    BY <1>1, <1>2, <1>4, <2>1, <2>2, SrvInvOf DEF SrvInv, RootInv, Made, Running
<1> QED
  BY <1>7, <1>8, <1>9, <1>10, <1>11, <1>12, <1>13, Assemble DEF SrvInv

(* The entries of logs are mutations.                                      *)
LEMMA EntriesMuts == ASSUME TypeInv PROVE \A q \in Seqs : log[q].entries \subseteq Muts
  BY LogRec DEF LogRecord

(* The branch moves to a commit with everything the old one has, and with  *)
(* nothing but that and the logs on the work list.                         *)
LEMMA PublishGrows ==
    ASSUME TypeInv, DurabilityInv, NEW s \in Servers, srv[s].pc = "publish", NEW m \in Muts
    PROVE  /\ InTree(m, head) => InTree(m, srv[s].pend)
           /\ InTree(m, srv[s].root) => InTree(m, srv[s].pend)
           /\ InTree(m, srv[s].pend) =>
                 InTree(m, head) \/ \E q \in Made : m \in log[q].entries
<1>1. /\ SeqInv(s) /\ TodoInv(s) /\ PendInv(s) /\ RootInv(s) /\ Running(srv[s])
  BY SrvInvOf DEF SrvInv, Running
<1>2. InTree(m, srv[s].pend) <=>
          InTree(m, srv[s].root) \/ \E q \in srv[s].todo : m \in log[q].entries
  BY <1>1 DEF PendInv
<1>3. CASE srv[s].mode = "boot"
  BY <1>1, <1>2, <1>3 DEF RootInv, TodoInv
<1>4. CASE srv[s].mode # "boot"
  <2>1. InTree(m, head) => InTree(m, srv[s].root) \/ (srv[s].seq \in Made /\ m \in log[srv[s].seq].entries)
    BY <1>1, <1>4 DEF RootInv
  <2>2. srv[s].seq \in Made /\ log[srv[s].seq].done /\ m \in log[srv[s].seq].entries
            => InTree(m, srv[s].root)
    BY <1>1, <1>4 DEF RootInv
  <2>3. srv[s].seq \in Made /\ ~log[srv[s].seq].done => srv[s].seq \in srv[s].todo
    BY <1>1 DEF TodoInv
  <2> QED
    BY <1>1, <1>2, <2>1, <2>2, <2>3 DEF RootInv, TodoInv
<1> QED
  BY <1>3, <1>4

LEMMA PublishedInv ==
    ASSUME TypeInv, DurabilityInv, NEW s \in Servers, srv[s].pc = "publish",
           SetBranch(srv[s].pend), UNCHANGED <<log, tree, accepted>>
    PROVE  LogsKeep' /\ DoneInHead'
<1>1. LogsKeep'
  BY DEF DurabilityInv, LogsKeep, Made
<1>2. ASSUME NEW q \in Made, log[q].done, NEW m \in log[q].entries PROVE InTree(m, head)'
  BY <1>2, EntriesMuts, PublishGrows DEF DurabilityInv, DoneInHead, SetBranch, InTree, Made
<1> QED
  BY <1>1, <1>2 DEF DoneInHead, SetBranch, Made

LEMMA PublishInv ==
    ASSUME SafeSetting, TypeInv, DurabilityInv, NEW s \in Servers, Publish(s)
    PROVE  CoreInv'
<1>1. /\ srv'[s].pc = "mark" /\ srv'[s].mode = srv[s].mode /\ srv'[s].root = srv[s].root
      /\ srv'[s].seq = srv[s].seq /\ srv'[s].writer = srv[s].writer
      /\ srv'[s].todo = srv[s].todo /\ srv'[s].pend = srv[s].pend
  BY SrvRec DEF Publish, ServerRecord, TypeInv, TypeOK
<1>2. /\ UNCHANGED <<log, tree, accepted, op, at>> /\ srv[s].pc = "publish"
      /\ SetBranch(srv[s].pend) /\ head' = srv[s].pend
  BY DEF Publish, SetBranch, opVars
<1>3. LogsKeep' /\ DoneInHead'
  BY <1>2, PublishedInv
<1>4. srv[s].pend # NoCommit
  BY <1>2 DEF TypeInv, PendWhenUsed
<1>5. WriterInv(s)'
  BY <1>1, <1>2, NoneInside, SrvInvOf DEF SrvInv, WriterInv
<1>6. SeqInv(s)'
  BY <1>1, <1>2, SrvInvOf DEF SrvInv, SeqInv, Made, Running
<1>7. TodoInv(s)'
  BY <1>1, <1>2, SrvInvOf DEF SrvInv, TodoInv, Made
<1>8. PendInv(s)'
  <2>1. srv[s].todo \subseteq Seqs
    BY SrvRec DEF ServerRecord
  <2> QED
    BY <1>1, <1>2, <1>4, <2>1, EntriesMuts, SrvInvOf DEF SrvInv, PendInv, InTree
<1>9. RootInv(s)'
  <2>1. \A m \in Muts : InTree(m, head)' <=> InTree(m, srv[s].pend)
    BY <1>2 DEF InTree
  <2>2. \A m \in Muts : InTree(m, srv[s].root)' <=> InTree(m, srv[s].root)
    BY <1>1, <1>2 DEF InTree
  <2>3. \A q \in Made : log[q].entries \subseteq Muts
    BY EntriesMuts DEF Made
  <2>4. \A m \in Muts : InTree(m, srv[s].pend) <=>
            InTree(m, srv[s].root) \/ \E q \in srv[s].todo : m \in log[q].entries
    BY <1>2, SrvInvOf DEF SrvInv, PendInv
  <2>5. srv[s].todo \subseteq Made
    BY <1>2, SrvInvOf DEF SrvInv, TodoInv
  <2>6. Running(srv[s]) /\ RootInv(s)
    BY <1>2, SrvInvOf DEF SrvInv, Running
  <2> QED
    BY <1>1, <1>2, <1>4, <2>1, <2>2, <2>3, <2>4, <2>5, <2>6 DEF RootInv, Made, Running
<1> QED
  BY <1>3, <1>5, <1>6, <1>7, <1>8, <1>9, Assemble DEF SrvInv

LEMMA PublishErrInv ==
    ASSUME SafeSetting, TypeInv, DurabilityInv, NEW s \in Servers, PublishErr(s)
    PROVE  CoreInv'
<1>1. /\ UNCHANGED <<log, tree, accepted, op, at>> /\ srv[s].pc = "publish"
      /\ SetBranch(srv[s].pend) /\ head' = srv[s].pend /\ srv'[s] = Failed(srv[s])
  BY DEF PublishErr, SetBranch, opVars, TypeInv, TypeOK
<1>2. LogsKeep' /\ DoneInHead'
  BY <1>1, PublishedInv
<1>3. CASE srv[s].mode # "auto"
  <2>1. srv'[s].pc = "down" /\ srv'[s].writer = NoWriter
    BY <1>1, <1>3 DEF Failed, Down
  <2> QED
    BY <1>1, <1>2, <2>1, NoneInside, StoppedInv, Assemble
<1>4. CASE srv[s].mode = "auto"
  <2>1. /\ srv'[s].pc = "idle" /\ srv'[s].mode = "auto" /\ srv'[s].root = srv[s].root
        /\ srv'[s].seq = srv[s].seq /\ srv'[s].writer = srv[s].writer
    <3>1. srv'[s] = [srv[s] EXCEPT !.pc = "idle", !.todo = {}, !.pend = NoCommit]
      BY <1>1, <1>4 DEF Failed
    <3> QED
      BY <1>4, <3>1, SrvRec DEF ServerRecord
  <2>2. WriterInv(s)'
    BY <1>1, <2>1, SrvInvOf DEF SrvInv, WriterInv
  <2>3. SeqInv(s)'
    BY <1>1, <1>4, <2>1, SrvInvOf DEF SrvInv, SeqInv, Made, Running
  <2>4. TodoInv(s)' /\ PendInv(s)'
    BY <2>1 DEF TodoInv, PendInv
  <2>5. RootInv(s)'
    <3>1. \A m \in Muts : InTree(m, head)' <=> InTree(m, srv[s].pend)
      BY <1>1 DEF InTree
    <3>2. \A m \in Muts : InTree(m, srv[s].root)' <=> InTree(m, srv[s].root)
      BY <1>1, <2>1 DEF InTree
    <3>3. \A q \in Made : log[q].entries \subseteq Muts
      BY EntriesMuts DEF Made
    <3>4. \A m \in Muts : InTree(m, srv[s].pend) <=>
              InTree(m, srv[s].root) \/ \E q \in srv[s].todo : m \in log[q].entries
      BY <1>1, SrvInvOf DEF SrvInv, PendInv
    <3>5. srv[s].todo \subseteq Made
      BY <1>1, SrvInvOf DEF SrvInv, TodoInv
    <3>6. Running(srv[s]) /\ RootInv(s)
      BY <1>1, SrvInvOf DEF SrvInv, Running
    <3> QED
      BY <1>1, <1>4, <2>1, <3>1, <3>2, <3>3, <3>4, <3>5, <3>6 DEF RootInv, Made, Running
  <2> QED
    BY <1>2, <2>2, <2>3, <2>4, <2>5, Assemble DEF SrvInv
<1> QED
  BY <1>3, <1>4

(* The first log of the work list becomes done.                            *)
DoneStep(q) == /\ \A p \in Seqs : /\ log'[p].made = log[p].made
                                  /\ log'[p].entries = log[p].entries
                                  /\ log'[p].torn = log[p].torn
                                  /\ log'[p].done <=> (p = q \/ log[p].done)
               /\ UNCHANGED <<tree, head, published, accepted, op, at>>

LEMMA DoneStepInv ==
    ASSUME TypeInv, DurabilityInv, NEW s \in Servers, srv[s].pc = "mark",
           NEW q \in srv[s].todo, DoneStep(q)
    PROVE  /\ LogsKeep' /\ DoneInHead' /\ Made' = Made /\ q \in Made
           /\ \A m \in Muts : (InTree(m, head)' <=> InTree(m, head))
<1>1. Made' = Made /\ q \in Made /\ srv[s].todo \subseteq Made
  BY SrvInvOf DEF SrvInv, TodoInv, DoneStep, Made
<1>2. LogsKeep'
  BY <1>1 DEF DurabilityInv, LogsKeep, DoneStep, Made
<1>3. \A m \in log[q].entries : InTree(m, head)
  BY SrvInvOf DEF SrvInv, PendInv
<1>4. DoneInHead'
  BY <1>1, <1>3 DEF DurabilityInv, DoneInHead, DoneStep, InTree, Made
<1> QED
  BY <1>1, <1>2, <1>4 DEF DoneStep, InTree

LEMMA MarkDoneInv ==
    ASSUME SafeSetting, TypeInv, DurabilityInv, NEW s \in Servers, MarkDone(s)
    PROVE  CoreInv'
<1>1. PICK q \in Seqs :
         /\ IsNextTodo(srv[s], q)
         /\ log' = [log EXCEPT ![q] = [log[q] EXCEPT !.done = TRUE]]
         /\ srv' = [srv EXCEPT ![s] = IF srv[s].pend # NoCommit
                                      THEN [srv[s] EXCEPT !.pc = "upload"]
                                      ELSE Marked(srv[s], q)]
  BY DEF MarkDone
<1>2. DoneStep(q)
  BY <1>1, LogRec DEF MarkDone, DoneStep, LogRecord, TypeInv, TypeOK, repoVars, opVars
<1>3. /\ srv[s].pc = "mark" /\ q \in srv[s].todo /\ \A p \in srv[s].todo : q <= p
      /\ Running(srv[s])
  BY <1>1 DEF MarkDone, IsNextTodo, Running
<1>4. /\ LogsKeep' /\ DoneInHead' /\ Made' = Made /\ q \in Made
      /\ \A m \in Muts : (InTree(m, head)' <=> InTree(m, head))
  BY <1>2, <1>3, DoneStepInv
<1>5. /\ WriterInv(s) /\ SeqInv(s) /\ TodoInv(s) /\ PendInv(s) /\ RootInv(s)
      /\ srv[s].writer = NoWriter
  BY <1>3, SrvInvOf DEF SrvInv, WriterInv
<1>6. \A m \in Muts : ~(op'[m] = "staged" /\ at'[m] = s)
  BY <1>2, <1>3, NoneInside DEF DoneStep
<1>7. \A p \in Made : log[p].entries \subseteq Muts
  BY EntriesMuts DEF Made
<1>8. Made \subseteq Seqs
  BY DEF Made
<1>9. CASE srv[s].pend # NoCommit
  <2>1. /\ srv'[s].pc = "upload" /\ srv'[s].mode = srv[s].mode /\ srv'[s].root = srv[s].root
        /\ srv'[s].seq = srv[s].seq /\ srv'[s].writer = NoWriter
        /\ srv'[s].todo = srv[s].todo /\ srv'[s].pend = srv[s].pend
    BY <1>1, <1>5, <1>9, SrvRec DEF ServerRecord, TypeInv, TypeOK
  <2>2. WriterInv(s)'
    BY <1>6, <2>1 DEF WriterInv
  <2>3. SeqInv(s)'
    BY <1>2, <1>3, <1>4, <1>5, <1>8, <2>1 DEF SeqInv, DoneStep, Running
  <2>4. TodoInv(s)'
    <3>1. \A p \in srv[s].todo : (\A x \in srv[s].todo : p <= x) => p = q
      BY <1>3, SrvRec DEF ServerRecord, Seqs
    <3> QED
      BY <1>2, <1>3, <1>4, <1>5, <1>8, <2>1, <3>1 DEF TodoInv, DoneStep
  <2>5. PendInv(s)'
    <3>1. srv[s].todo \subseteq Seqs
      BY SrvRec DEF ServerRecord
    <3> QED
      BY <1>2, <1>3, <1>5, <2>1, <3>1 DEF PendInv, DoneStep, InTree
  <2>6. RootInv(s)'
    <3>1. \A m \in Muts : InTree(m, srv[s].root)' <=> InTree(m, srv[s].root)
      BY <1>2, <2>1 DEF InTree, DoneStep
    <3> QED
      BY <1>2, <1>3, <1>4, <1>5, <1>7, <1>8, <1>9, <2>1, <3>1 DEF RootInv, DoneStep, Running
  <2> QED
    BY <1>4, <2>2, <2>3, <2>4, <2>5, <2>6, Assemble DEF SrvInv
<1>10. CASE srv[s].pend = NoCommit
  <2> DEFINE left == [srv[s] EXCEPT !.todo = srv[s].todo \ {q}]
  <2>1. /\ left.pc = srv[s].pc /\ left.mode = srv[s].mode /\ left.root = srv[s].root
        /\ left.seq = srv[s].seq /\ left.writer = NoWriter /\ left.pend = NoCommit
        /\ left.todo = srv[s].todo \ {q} /\ left \in ServerRecord
    BY <1>5, <1>10, SrvRec DEF ServerRecord
  <2>2. srv'[s] = IF left.todo # {} THEN [left EXCEPT !.pc = "mark"] ELSE AfterNone(left)
    BY <1>1, <1>10 DEF Marked, TypeInv, TypeOK
  <2>3. \A p \in srv[s].todo : log[p].entries = {}
    BY <1>3, <1>5, <1>10 DEF PendInv
  <2>4. CASE left.todo = {} /\ srv[s].mode = "shutdown"
    <3>1. srv'[s].pc = "exit" /\ srv'[s].writer = NoWriter
      BY <2>1, <2>2, <2>4 DEF AfterNone, Down
    <3> QED
      BY <1>4, <1>6, <3>1, StoppedInv, Assemble
  <2>5. CASE left.todo # {} \/ srv[s].mode # "shutdown"
    <3>1. PICK x \in {"mark", "open"} : /\ srv'[s] = [left EXCEPT !.pc = x]
                                        /\ x = "open" => left.todo = {}
      BY <2>1, <2>2, <2>5 DEF AfterNone
    <3>2. /\ srv'[s].pc = x /\ srv'[s].mode = srv[s].mode /\ srv'[s].root = srv[s].root
          /\ srv'[s].seq = srv[s].seq /\ srv'[s].writer = NoWriter
          /\ srv'[s].todo = srv[s].todo \ {q} /\ srv'[s].pend = NoCommit
      <4> HIDE DEF left
      <4> QED
        BY <2>1, <3>1 DEF ServerRecord
    <3>3. WriterInv(s)'
      BY <1>6, <3>2 DEF WriterInv
    <3>4. SeqInv(s)'
      BY <1>2, <1>3, <1>4, <1>5, <1>8, <3>2 DEF SeqInv, DoneStep, Running
    <3>5. TodoInv(s)'
      BY <1>2, <1>3, <1>4, <1>5, <1>8, <2>1, <3>1, <3>2 DEF TodoInv, DoneStep
    <3>6. PendInv(s)'
      <4>1. srv[s].todo \subseteq Seqs
        BY SrvRec DEF ServerRecord
      <4> QED
        BY <1>2, <2>3, <3>2, <4>1 DEF PendInv, DoneStep
    <3>7. RootInv(s)'
      <4>1. \A m \in Muts : InTree(m, srv[s].root)' <=> InTree(m, srv[s].root)
        BY <1>2, <3>2 DEF InTree, DoneStep
      <4> QED
        BY <1>2, <1>3, <1>4, <1>5, <1>7, <1>8, <1>10, <2>3, <3>2, <4>1 DEF RootInv, DoneStep, Running
    <3> QED
      BY <1>4, <3>3, <3>4, <3>5, <3>6, <3>7, Assemble DEF SrvInv
  <2> QED
    BY <2>4, <2>5
<1> QED
  BY <1>9, <1>10

LEMMA UploadPackInv ==
    ASSUME SafeSetting, TypeInv, DurabilityInv, NEW s \in Servers, UploadPack(s)
    PROVE  CoreInv'
<1>1. PICK q \in Seqs : IsNextTodo(srv[s], q) /\ srv' = [srv EXCEPT ![s] = Marked(srv[s], q)]
  BY DEF UploadPack
<1>2. Frame /\ UNCHANGED <<log, op, at>> /\ srv[s].pc = "upload" /\ Running(srv[s])
  BY DEF UploadPack, Frame, SameLogs, repoVars, opVars, Running
<1>3. srv[s].pend # NoCommit
  BY <1>2 DEF TypeInv, PendWhenUsed
<1>4. /\ WriterInv(s) /\ SeqInv(s) /\ TodoInv(s) /\ PendInv(s) /\ RootInv(s)
      /\ srv[s].writer = NoWriter
  BY <1>2, SrvInvOf DEF SrvInv, WriterInv
<1>5. q \in srv[s].todo /\ (\A p \in srv[s].todo : q <= p) /\ q \in Made /\ log[q].done
  BY <1>1, <1>2, <1>4 DEF IsNextTodo, TodoInv
<1> DEFINE left == [srv[s] EXCEPT !.todo = srv[s].todo \ {q}]
<1>6. PICK x \in {"mark", "adopt"} : /\ srv'[s] = [left EXCEPT !.pc = x]
                                     /\ x = "adopt" <=> left.todo = {}
  <2>1. srv'[s] = IF left.todo # {} THEN [left EXCEPT !.pc = "mark"]
                  ELSE [left EXCEPT !.pc = "adopt"]
    BY <1>1, <1>3 DEF Marked, TypeInv, TypeOK
  <2> QED
    BY <2>1
<1>7. /\ left.mode = srv[s].mode /\ left.root = srv[s].root
      /\ left.seq = srv[s].seq /\ left.writer = NoWriter /\ left.pend = srv[s].pend
      /\ left.todo = srv[s].todo \ {q} /\ left \in ServerRecord
  BY <1>4, SrvRec DEF ServerRecord
<1>8. /\ srv'[s].pc = x /\ srv'[s].mode = srv[s].mode /\ srv'[s].root = srv[s].root
      /\ srv'[s].seq = srv[s].seq /\ srv'[s].writer = NoWriter
      /\ srv'[s].todo = srv[s].todo \ {q} /\ srv'[s].pend = srv[s].pend
      /\ x = "adopt" <=> srv[s].todo \ {q} = {}
  <2> HIDE DEF left
  <2> QED
    BY <1>6, <1>7 DEF ServerRecord
<1>9. WriterInv(s)'
  BY <1>2, <1>8, NoneInside DEF WriterInv
<1>10. SeqInv(s)'
  BY <1>2, <1>4, <1>8 DEF SeqInv, Made, Running
<1>11. TodoInv(s)'
  BY <1>2, <1>4, <1>5, <1>8 DEF TodoInv, Made
<1>12. PendInv(s)'
  BY <1>2, <1>4, <1>8 DEF PendInv, Frame, InTree
<1>13. RootInv(s)'
  <2>1. \A m \in Muts : /\ InTree(m, srv[s].root)' <=> InTree(m, srv[s].root)
                        /\ InTree(m, head)' <=> InTree(m, head)
    BY <1>2, <1>8 DEF InTree, Frame
  <2>2. \A p \in Made : log[p].entries \subseteq Muts
    BY EntriesMuts DEF Made
  <2>3. ASSUME x = "mark", srv[s].mode # "boot", \A p \in srv[s].todo : srv[s].seq <= p
        PROVE  FALSE
    <3>1. PICK p \in srv[s].todo : p # q
      BY <1>8, <2>3
    <3>2. p \in Made /\ q \in Made
      BY <1>2, <1>4, <1>5 DEF TodoInv
    <3>3. p <= srv[s].seq /\ q <= srv[s].seq /\ srv[s].seq <= p /\ srv[s].seq <= q
      BY <1>2, <1>4, <1>5, <2>3, <3>2 DEF SeqInv
    <3>4. p \in Int /\ q \in Int /\ srv[s].seq \in Int
      BY <3>2, SrvRec, BoundAssumption DEF Made, Seqs, ServerRecord
    <3> QED
      BY <3>1, <3>3, <3>4
  <2> QED
    BY <1>2, <1>3, <1>4, <1>6, <1>8, <2>1, <2>2, <2>3 DEF RootInv, Made, Running
<1> QED
  BY <1>2, <1>9, <1>10, <1>11, <1>12, <1>13, FrameInv, Assemble DEF SrvInv

LEMMA AdoptInv ==
    ASSUME SafeSetting, TypeInv, DurabilityInv, NEW s \in Servers, Adopt(s)
    PROVE  CoreInv'
<1>1. Frame /\ UNCHANGED <<log, op, at>> /\ srv[s].pc = "adopt" /\ Running(srv[s])
  BY DEF Adopt, Frame, SameLogs, repoVars, opVars, Running
<1>2. /\ SeqInv(s) /\ TodoInv(s) /\ PendInv(s) /\ srv[s].writer = NoWriter
  BY <1>1, SrvInvOf DEF SrvInv, WriterInv
<1>3. srv[s].pend # NoCommit
  BY <1>1 DEF TypeInv, PendWhenUsed
<1>4. head = srv[s].pend
  BY <1>1, <1>2, <1>3 DEF PendInv
<1>5. CASE srv[s].mode = "shutdown"
  <2>1. srv'[s].pc = "exit" /\ srv'[s].writer = NoWriter
    BY <1>5 DEF Adopt, Down, TypeInv, TypeOK
  <2> QED
    BY <1>1, <2>1, NoneInside, StoppedInv, FrameInv, Assemble
<1>6. CASE srv[s].mode # "shutdown"
  <2>1. /\ srv'[s].pc = "open" /\ srv'[s].mode = srv[s].mode /\ srv'[s].root = head
        /\ srv'[s].seq = srv[s].seq /\ srv'[s].writer = NoWriter
    <3>1. srv'[s] = [srv[s] EXCEPT !.pc = "open", !.root = srv[s].pend, !.pend = NoCommit]
      BY <1>6 DEF Adopt, TypeInv, TypeOK
    <3> QED
      BY <1>2, <1>4, <3>1, SrvRec DEF ServerRecord
  <2>2. WriterInv(s)'
    BY <1>1, <2>1, NoneInside DEF WriterInv
  <2>3. SeqInv(s)'
    BY <1>1, <1>2, <2>1 DEF SeqInv, Made, Running
  <2>4. TodoInv(s)'
    BY <1>1, <1>2, <2>1 DEF TodoInv, Made
  <2>5. PendInv(s)'
    BY <2>1 DEF PendInv
  <2>6. RootInv(s)'
    <3>1. \A q \in Made : \A m \in log[q].entries : InTree(m, head)
      BY <1>1, <1>2 DEF TodoInv, DurabilityInv, DoneInHead
    <3>2. head' = head /\ srv'[s].root = head /\ tree' = tree
      BY <1>1, <2>1 DEF Frame
    <3> QED
      BY <1>1, <2>1, <3>1, <3>2 DEF RootInv, Made, InTree
  <2> QED
    BY <1>1, <2>2, <2>3, <2>4, <2>5, <2>6, FrameInv, Assemble DEF SrvInv
<1> QED
  BY <1>5, <1>6

(* The next sequence is not in use.                                        *)
LEMMA NextSeqFresh ==
    ASSUME TypeInv, DurabilityInv, NEW s \in Servers, srv[s].pc = "open",
           NEW q \in Seqs, IsNextSeq(srv[s], q)
    PROVE  \A p \in Made : p < q
<1>1. \A p \in Seqs : p \in Int
  BY BoundAssumption DEF Seqs
<1>2. Made \subseteq Seqs /\ srv[s].seq \in Seqs
  BY SrvRec DEF Made, ServerRecord
<1>3. CASE srv[s].mode = "auto"
  <2>1. q = srv[s].seq + 1
    BY <1>3 DEF IsNextSeq
  <2>2. \A p \in Made : p <= srv[s].seq
    BY <1>3, SrvInvOf DEF SrvInv, SeqInv, Running
  <2>3. srv[s].seq \in Int /\ q \in Int /\ \A p \in Made : p \in Int
    BY <1>1, <1>2
  <2> QED
    BY <2>1, <2>2, <2>3
<1>4. CASE srv[s].mode # "auto"
  <2>1. Made = {} \/ \E p \in Made : (\A p2 \in Made : p2 <= p) /\ q = p + 1
    BY <1>4 DEF IsNextSeq
  <2> QED
    BY <1>1, <1>2, <2>1
<1> QED
  BY <1>3, <1>4

(* When a log is to be opened everything logged is in the root, and the    *)
(* root is what the branch has.                                            *)
LEMMA OpenRoot ==
    ASSUME TypeInv, DurabilityInv, NEW s \in Servers, srv[s].pc = "open"
    PROVE  /\ \A q \in Made : log[q].done /\ \A m \in log[q].entries : InTree(m, srv[s].root)
           /\ \A m \in Muts : InTree(m, head) <=> InTree(m, srv[s].root)
<1>1. TodoInv(s) /\ RootInv(s) /\ Running(srv[s])
  BY SrvInvOf DEF SrvInv, Running
<1>2. \A q \in Made : log[q].done /\ \A m \in log[q].entries : InTree(m, head)
  BY <1>1 DEF TodoInv, DurabilityInv, DoneInHead
<1>3. \A q \in Made : log[q].entries \subseteq Muts
  BY EntriesMuts DEF Made
<1>4. \A m \in Muts : InTree(m, head) <=> InTree(m, srv[s].root)
  <2>1. CASE srv[s].mode = "boot"
    BY <1>1, <2>1 DEF RootInv
  <2>2. CASE srv[s].mode # "boot"
    BY <1>1, <1>2, <2>2 DEF RootInv
  <2> QED
    BY <2>1, <2>2
<1> QED
  BY <1>2, <1>3, <1>4

LEMMA FreshEmpty ==
    ASSUME DurabilityInv, NEW q \in Seqs, q \notin Made
    PROVE  log[q].entries = {} /\ ~log[q].torn /\ ~log[q].done
<1>1. LogsKeep /\ ~log[q].made
  BY DEF DurabilityInv, Made
<1> QED
  BY <1>1 DEF LogsKeep

(* A fresh log name is taken, or left alone.                               *)
FreshStep(q) == /\ \A p \in Seqs : p # q => log'[p] = log[p]
                /\ log'[q].entries = {} /\ ~log'[q].torn /\ ~log'[q].done
                /\ UNCHANGED <<tree, head, published, accepted, op, at>>

LEMMA FreshStepInv ==
    ASSUME DurabilityInv, NEW q \in Seqs, q \notin Made, FreshStep(q)
    PROVE  LogsKeep' /\ DoneInHead'
<1>1. LogsKeep'
  BY DEF DurabilityInv, LogsKeep, FreshStep, Made
<1>2. DoneInHead'
  BY DEF DurabilityInv, DoneInHead, FreshStep, Made, InTree
<1> QED
  BY <1>1, <1>2

(* A running server is idle on a new name, with or without a writer.       *)
LEMMA OpenedInv ==
    ASSUME SafeSetting, TypeInv, DurabilityInv, NEW s \in Servers, srv[s].pc = "open",
           NEW q \in Seqs, \A p \in Made : p < q, FreshStep(q),
           srv'[s].pc = "idle", srv'[s].mode = "auto", srv'[s].root = srv[s].root,
           srv'[s].seq = q,
           srv'[s].writer = NoWriter \/ (srv'[s].writer = q /\ log'[q].made)
    PROVE  CoreInv'
<1>1. \A p \in Seqs : p \in Int
  BY BoundAssumption DEF Seqs
<1>2. q \notin Made /\ Made' \subseteq Made \cup {q} /\ Made \subseteq Seqs
  BY <1>1 DEF Made, FreshStep
<1>3. LogsKeep' /\ DoneInHead'
  BY <1>2, FreshStepInv
<1>4. \A m \in Muts : ~(op'[m] = "staged" /\ at'[m] = s)
  BY NoneInside DEF FreshStep
<1>5. WriterInv(s)'
  BY <1>4 DEF WriterInv, FreshStep, Made
<1>6. \A p \in Made : log[p].done /\ \A m \in log[p].entries : InTree(m, srv[s].root)
  BY OpenRoot
<1>7. SeqInv(s)'
  BY <1>1, <1>2, <1>6 DEF SeqInv, FreshStep
<1>8. TodoInv(s)' /\ PendInv(s)'
  BY DEF TodoInv, PendInv
<1>9. RootInv(s)'
  <2>1. \A m \in Muts : InTree(m, head) <=> InTree(m, srv[s].root)
    BY OpenRoot
  <2>2. \A m : /\ InTree(m, head)' <=> InTree(m, head)
               /\ InTree(m, srv[s].root)' <=> InTree(m, srv[s].root)
    BY DEF InTree, FreshStep
  <2> QED
    BY <1>2, <1>6, <2>1, <2>2 DEF RootInv, FreshStep
<1> QED
  BY <1>3, <1>5, <1>7, <1>8, <1>9, Assemble DEF SrvInv

LEMMA OpenWalStep ==
    ASSUME TypeInv, DurabilityInv, NEW s \in Servers, OpenWal(s)
    PROVE  \E q \in Seqs :
              /\ \A p \in Made : p < q
              /\ q \notin Made /\ FreshStep(q) /\ log'[q].made
              /\ srv' = [srv EXCEPT ![s] = [srv[s] EXCEPT !.pc = "idle", !.seq = q, !.writer = q,
                                            !.dirty = FALSE, !.mode = "auto"]]
<1>1. PICK q \in Seqs :
         /\ IsNextSeq(srv[s], q)
         /\ log' = [log EXCEPT ![q] = OpenedLog(s, q)]
         /\ srv' = [srv EXCEPT ![s] = [srv[s] EXCEPT !.pc = "idle", !.seq = q, !.writer = q,
                                       !.dirty = FALSE, !.mode = "auto"]]
  BY DEF OpenWal
<1>2. srv[s].pc = "open" /\ UNCHANGED <<tree, head, published, accepted, op, at>>
  BY DEF OpenWal, repoVars, opVars
<1>3. \A p \in Made : p < q
  BY <1>1, <1>2, NextSeqFresh
<1>4. q \notin Made
  <2>1. q \in Int
    BY BoundAssumption DEF Seqs
  <2> QED
    BY <1>3, <2>1
<1>5. log[q].entries = {} /\ ~log[q].torn /\ ~log[q].done
  BY <1>4, FreshEmpty
<1>6. log'[q].made /\ log'[q].entries = {} /\ ~log'[q].torn /\ ~log'[q].done
  <2>1. log'[q] = OpenedLog(s, q)
    BY <1>1 DEF TypeInv, TypeOK
  <2> QED
    BY <1>5, <2>1, LogRec DEF OpenedLog, LogRecord
<1>7. FreshStep(q)
  BY <1>1, <1>2, <1>6 DEF FreshStep, TypeInv, TypeOK
<1> QED
  BY <1>1, <1>3, <1>4, <1>6, <1>7

LEMMA OpenWalInv ==
    ASSUME SafeSetting, TypeInv, DurabilityInv, NEW s \in Servers, OpenWal(s)
    PROVE  CoreInv'
<1>1. PICK q \in Seqs :
         /\ \A p \in Made : p < q
         /\ FreshStep(q) /\ log'[q].made
         /\ srv' = [srv EXCEPT ![s] = [srv[s] EXCEPT !.pc = "idle", !.seq = q, !.writer = q,
                                       !.dirty = FALSE, !.mode = "auto"]]
  BY OpenWalStep
<1>2. srv[s].pc = "open"
  BY DEF OpenWal
<1>3. /\ srv'[s].pc = "idle" /\ srv'[s].mode = "auto" /\ srv'[s].root = srv[s].root
      /\ srv'[s].seq = q /\ srv'[s].writer = q
  BY <1>1, SrvRec DEF ServerRecord, TypeInv, TypeOK
<1> QED
  BY <1>1, <1>2, <1>3, OpenedInv

LEMMA OpenErrStep ==
    ASSUME TypeInv, DurabilityInv, NEW s \in Servers, OpenErr(s)
    PROVE  \E q \in Seqs :
              /\ \A p \in Made : p < q
              /\ q \notin Made /\ FreshStep(q)
              /\ srv' = [srv EXCEPT ![s] = Failed([srv[s] EXCEPT !.seq = q])]
<1>1. PICK q \in Seqs :
         /\ IsNextSeq(srv[s], q)
         /\ \/ log' = log
            \/ log' = [log EXCEPT ![q] = [log[q] EXCEPT !.made = TRUE, !.owner = s]]
         /\ srv' = [srv EXCEPT ![s] = Failed([srv[s] EXCEPT !.seq = q])]
  BY ZenonT(40) DEF OpenErr
<1>2. srv[s].pc = "open" /\ UNCHANGED <<tree, head, published, accepted, op, at>>
  BY DEF OpenErr, repoVars, opVars
<1>3. \A p \in Made : p < q
  BY <1>1, <1>2, NextSeqFresh
<1>4. q \notin Made
  <2>1. q \in Int
    BY BoundAssumption DEF Seqs
  <2> QED
    BY <1>3, <2>1
<1>5. log[q].entries = {} /\ ~log[q].torn /\ ~log[q].done
  BY <1>4, FreshEmpty
<1>6. log'[q].entries = {} /\ ~log'[q].torn /\ ~log'[q].done
  BY <1>1, <1>5, LogRec DEF LogRecord, TypeInv, TypeOK
<1>7. FreshStep(q)
  BY <1>1, <1>2, <1>6 DEF FreshStep, TypeInv, TypeOK
<1> QED
  BY <1>1, <1>3, <1>4, <1>7

LEMMA OpenErrInv ==
    ASSUME SafeSetting, TypeInv, DurabilityInv, NEW s \in Servers, OpenErr(s)
    PROVE  CoreInv'
<1>1. PICK q \in Seqs :
         /\ \A p \in Made : p < q
         /\ q \notin Made /\ FreshStep(q)
         /\ srv' = [srv EXCEPT ![s] = Failed([srv[s] EXCEPT !.seq = q])]
  BY OpenErrStep
<1>2. srv[s].pc = "open" /\ UNCHANGED <<op, at>>
  BY DEF OpenErr, opVars
<1> DEFINE w == [srv[s] EXCEPT !.seq = q]
<1>8. /\ w \in ServerRecord /\ w.seq = q /\ w.mode = srv[s].mode /\ w.root = srv[s].root
      /\ w.writer = srv[s].writer
  BY SrvRec DEF ServerRecord
<1>9. srv[s].writer = NoWriter
  BY <1>2, SrvInvOf DEF SrvInv, WriterInv
<1>10. srv'[s] = Failed(w)
  BY <1>1 DEF TypeInv, TypeOK
<1> HIDE DEF w
<1>11. CASE w.mode # "auto"
  <2>1. srv'[s].pc = "down" /\ srv'[s].writer = NoWriter
    BY <1>10, <1>11 DEF Failed, Down
  <2>2. \A m \in Muts : ~(op'[m] = "staged" /\ at'[m] = s)
    BY <1>2, NoneInside
  <2> QED
    BY <1>1, <2>1, <2>2, FreshStepInv, StoppedInv, Assemble
<1>12. CASE w.mode = "auto"
  <2>1. srv'[s] = [w EXCEPT !.pc = "idle", !.todo = {}, !.pend = NoCommit]
    BY <1>10, <1>12 DEF Failed
  <2>2. /\ srv'[s].pc = "idle" /\ srv'[s].mode = "auto" /\ srv'[s].root = srv[s].root
        /\ srv'[s].seq = q /\ srv'[s].writer = NoWriter
    BY <1>8, <1>9, <1>12, <2>1 DEF ServerRecord
  <2> QED
    BY <1>1, <1>2, <2>2, OpenedInv
<1> QED
  BY <1>11, <1>12

LEMMA LogMutationInv ==
    ASSUME SafeSetting, TypeInv, DurabilityInv, NEW s \in Servers, NEW m \in Muts,
           LogMutation(s, m)
    PROVE  CoreInv'
<1> DEFINE q == srv[s].writer
<1>1. /\ UNCHANGED <<srv, at, tree, head, published>> /\ op' = [op EXCEPT ![m] = "acked"]
      /\ srv[s].pc \in {"idle", "lockwait"}
  BY SrvInvOf DEF LogMutation, repoVars, SrvInv, WriterInv
<1>2. /\ WriterInv(s) /\ SeqInv(s) /\ RootInv(s) /\ Running(srv[s]) /\ srv[s].mode # "boot"
  BY <1>1, SrvInvOf DEF SrvInv, WriterInv, Running
<1>3. \A x \in Muts : op'[x] = "staged" => op[x] = "staged"
  BY <1>1 DEF TypeInv, TypeOK, OpsOK
<1>4. TodoInv(s)' /\ PendInv(s)'
  BY <1>1 DEF TodoInv, PendInv
<1>5. CASE UNCHANGED <<log, accepted>>
  <2>1. Frame
    BY <1>1, <1>5 DEF Frame, SameLogs
  <2>2. WriterInv(s)'
    BY <1>1, <1>2, <1>3, <1>5 DEF WriterInv, Made
  <2>3. SeqInv(s)' /\ RootInv(s)'
    BY <1>1, <1>2, <1>5 DEF SeqInv, RootInv, Made, InTree, Running
  <2> QED
    BY <1>4, <2>1, <2>2, <2>3, FrameInv, Assemble DEF SrvInv
<1>6. CASE ~UNCHANGED <<log, accepted>>
  <2>1. /\ q # NoWriter /\ accepted' = accepted \cup {m}
        /\ log' = [log EXCEPT ![q] = [log[q] EXCEPT !.entries =
                                        IF log[q].torn THEN @ ELSE @ \cup {m}]]
    BY <1>6 DEF LogMutation
  <2>0. LogsKeep
    BY DEF DurabilityInv
  <2>2. q = srv[s].seq /\ q \in Made /\ ~log[q].done /\ q \in Seqs /\ log[q].made /\ ~log[q].torn
    <3>1. q = srv[s].seq /\ q \in Made /\ ~log[q].done
      BY <1>2, <2>1 DEF WriterInv
    <3>2. q \in Seqs /\ log[q].made
      BY <3>1 DEF Made
    <3>3. ~log[q].torn
      BY <2>0, <3>2 DEF LogsKeep
    <3> QED
      BY <3>1, <3>2, <3>3
  <2>3. /\ \A p \in Seqs : /\ log'[p].made = log[p].made /\ log'[p].done = log[p].done
                           /\ log'[p].torn = log[p].torn
                           /\ p # q => log'[p].entries = log[p].entries
        /\ log'[q].entries = log[q].entries \cup {m}
    BY <2>1, <2>2, LogRec DEF LogRecord, TypeInv, TypeOK
  <2> HIDE DEF q
  <2>4. Made' = Made /\ Made \subseteq Seqs
    BY <2>3 DEF Made
  <2>5. LogsKeep'
    <3>1. \A p \in Seqs : ~log'[p].torn /\ (~log'[p].made => ~log'[p].done /\ log'[p].entries = {})
      BY <2>0, <2>2, <2>3 DEF LogsKeep
    <3>2. \A x \in accepted' : \E p \in Made : x \in log'[p].entries
      BY <2>0, <2>1, <2>2, <2>3, <2>4 DEF LogsKeep
    <3> QED
      BY <2>4, <3>1, <3>2 DEF LogsKeep
  <2>6. DoneInHead'
    BY <1>1, <2>2, <2>3, <2>4 DEF DurabilityInv, DoneInHead, InTree
  <2>7. WriterInv(s)'
    BY <1>1, <1>2, <1>3, <2>3, <2>4 DEF WriterInv
  <2>8. SeqInv(s)'
    BY <1>1, <1>2, <2>3, <2>4 DEF SeqInv
  <2>9. RootInv(s)'
    BY <1>1, <1>2, <2>2, <2>3, <2>4 DEF RootInv, InTree, Running
  <2> QED
    BY <1>4, <2>5, <2>6, <2>7, <2>8, <2>9, Assemble DEF SrvInv
<1> QED
  BY <1>5, <1>6

-----------------------------------------------------------------------------
LEMMA InitDurability == ASSUME SafeSetting, Init PROVE DurabilityInv
<1>1. \A q \in Seqs : /\ ~log[q].made /\ ~log[q].done /\ ~log[q].torn /\ log[q].entries = {}
  BY DEF Init, NoLog
<1>2. LogsKeep /\ DoneInHead
  BY <1>1 DEF Init, LogsKeep, DoneInHead, Made
<1>3. Built
  BY DEF Init, Built, Down
<1>4. ASSUME NEW s \in Servers PROVE SrvInv(s)
  <2>1. /\ srv[s].pc = "down" /\ srv[s].writer = NoWriter /\ \A m \in Muts : op[m] # "staged"
    BY DEF Init, Down
  <2> QED
    BY <2>1 DEF SrvInv, WriterInv, SeqInv, TodoInv, PendInv, RootInv, Running
<1> QED
  BY <1>2, <1>3, <1>4 DEF DurabilityInv, SrvInv

LEMMA NextDurability ==
    ASSUME SafeSetting, TypeInv, DurabilityInv, [Next]_vars
    PROVE  DurabilityInv'
<1>1. Built'
  BY NextBuilt DEF DurabilityInv
<1>2. ASSUME NEW s \in Servers, NEW m \in Muts, Stage(s, m) \/ LogMutation(s, m) PROVE CoreInv'
  BY <1>2, StageInv, LogMutationInv
<1>3. ASSUME NEW s \in Servers, Boot(s) \/ Tick(s) \/ StopSignal(s) \/ Crash(s) PROVE CoreInv'
  BY <1>3, BootInv, TickInv, StopSignalInv, CrashInv
<1>4. ASSUME NEW s \in Servers, CommitStep(s) PROVE CoreInv'
  BY <1>4, LockForCommitInv, FinalizeInv, ListAndLockoutInv, ReplayNoneInv, ReplayCommitInv,
     PublishInv, MarkDoneInv, UploadPackInv, AdoptInv, OpenWalInv DEF CommitStep
<1>5. "append" \notin Faults /\ "upload" \notin Faults /\ "output" \notin Faults
  BY DEF SafeSetting
<1>6. ASSUME NEW s \in Servers, NEW m \in Muts, AppendErr(s, m) PROVE FALSE
  BY <1>5, <1>6 DEF AppendErr, Fault
<1>7. ASSUME NEW s \in Servers, UploadErr(s) \/ OutputErr(s) PROVE FALSE
  BY <1>5, <1>7 DEF UploadErr, OutputErr, Fault
<1>8. ASSUME NEW s \in Servers, FaultStep(s) PROVE CoreInv'
  BY <1>7, <1>8, FinalizeInv, ListErrInv, RecoverErrInv, PublishErrInv, OpenErrInv DEF FaultStep
<1>9. ASSUME UNCHANGED vars PROVE CoreInv'
  <2>1. Frame /\ UNCHANGED <<log, srv, op, at, tree, head>>
    BY <1>9 DEF vars, Frame, SameLogs
  <2>2. ASSUME NEW s \in Servers PROVE SrvInv(s)'
    <3>1. WriterInv(s)'
      BY <2>1, SrvInvOf DEF SrvInv, WriterInv, Made
    <3>2. SeqInv(s)' /\ TodoInv(s)'
      BY <2>1, SrvInvOf DEF SrvInv, SeqInv, TodoInv, Running, Made
    <3>3. PendInv(s)'
      BY <2>1, SrvInvOf DEF SrvInv, PendInv, InTree
    <3>4. RootInv(s)'
      BY <2>1, SrvInvOf DEF SrvInv, RootInv, Running, Made, InTree
    <3> QED
      BY <3>1, <3>2, <3>3, <3>4 DEF SrvInv
  <2> QED
    BY <2>1, <2>2, FrameInv DEF CoreInv, SrvInv
<1>10. CoreInv'
  <2>1. CASE Next
    <3>1. PICK s \in Servers :
             \/ \E m \in Muts : Stage(s, m) \/ LogMutation(s, m) \/ AppendErr(s, m)
             \/ Boot(s) \/ Tick(s) \/ StopSignal(s) \/ Crash(s)
             \/ CommitStep(s) \/ FaultStep(s)
      BY <2>1 DEF Next
    <3> QED
      BY <3>1, <1>2, <1>3, <1>4, <1>6, <1>8
  <2> QED
    BY <1>9, <2>1
<1> QED
  BY <1>1, <1>10 DEF DurabilityInv, CoreInv, SrvInv

(* Every reachable state satisfies the inductive invariant.                *)
THEOREM DurabilityCorrect == ASSUME SafeSetting PROVE Spec => []DurabilityInv
<1>1. Init => TypeInv /\ DurabilityInv
  BY InitTypeInv, InitDurability
<1>2. (TypeInv /\ DurabilityInv) /\ [Next]_vars => (TypeInv /\ DurabilityInv)'
  BY NextTypeInv, NextDurability
<1> QED
  BY <1>1, <1>2, PTL DEF Spec

(* No mutation that the store accepted is ever lost: it waits in a log     *)
(* that recovery will replay or it is in the published branch.             *)
THEOREM LoggedMutationsSurvive == ASSUME SafeSetting PROVE Spec => []LoggedDurable
<1>1. DurabilityInv => LoggedDurable
  <2> SUFFICES ASSUME DurabilityInv, NEW m \in accepted PROVE Durable(m)
    BY DEF LoggedDurable
  <2>1. PICK q \in Made : m \in log[q].entries
    BY DEF DurabilityInv, LogsKeep
  <2>2. CASE log[q].done
    BY <2>1, <2>2 DEF DurabilityInv, DoneInHead, Durable, SafeSetting
  <2>3. CASE ~log[q].done
    BY <2>1, <2>3 DEF Durable
  <2> QED
    BY <2>2, <2>3
<1> QED
  BY <1>1, DurabilityCorrect, PTL

(* Only a publication moves the branch, and only another replay or a       *)
(* publication can change what it holds.                                   *)
LEMMA BranchStep ==
    ASSUME SafeSetting, TypeInv, DurabilityInv, [Next]_vars, NEW m \in Muts
    PROVE  /\ InTree(m, head) => InTree(m, head)'
           /\ InTree(m, head)' => InTree(m, head) \/ \E q \in Made : m \in log[q].entries
<1>1. ASSUME NEW s \in Servers, srv[s].pc = "publish", SetBranch(srv[s].pend), UNCHANGED tree
      PROVE  /\ InTree(m, head) => InTree(m, head)'
             /\ InTree(m, head)' => InTree(m, head) \/ \E q \in Made : m \in log[q].entries
  BY <1>1, PublishGrows DEF SetBranch, InTree
<1>2. ASSUME NEW s \in Servers, Replay(s) PROVE InTree(m, head)' <=> InTree(m, head)
  <2>1. CASE UNCHANGED <<tree, head>>
    BY <2>1 DEF InTree
  <2>2. CASE ~UNCHANGED <<tree, head>>
    <3>1. PICK t : tree' = [tree EXCEPT ![ncommits + 1] = t] /\ head' = head
      BY <1>2, <2>2 DEF Replay
    <3>2. head # ncommits + 1 /\ head \in CommitIds
      BY CommitNumbers DEF DurabilityInv, Built, TypeInv, TypeOK, RepoOK
    <3> QED
      BY <3>1, <3>2 DEF InTree, TypeInv, TypeOK, RepoOK
  <2> QED
    BY <2>1, <2>2
<1>3. ASSUME UNCHANGED <<tree, head>> PROVE InTree(m, head)' <=> InTree(m, head)
  BY <1>3 DEF InTree
<1>4. \/ UNCHANGED <<tree, head>>
      \/ \E s \in Servers : Replay(s)
      \/ \E s \in Servers : srv[s].pc = "publish" /\ SetBranch(srv[s].pend) /\ UNCHANGED tree
  <2>1. ASSUME NEW s \in Servers, NEW x \in Muts,
               Stage(s, x) \/ LogMutation(s, x) \/ AppendErr(s, x)
        PROVE  UNCHANGED <<tree, head>>
    BY <2>1 DEF Stage, LogMutation, AppendErr, repoVars
  <2>2. ASSUME NEW s \in Servers, Boot(s) \/ Tick(s) \/ StopSignal(s) \/ Crash(s)
        PROVE  UNCHANGED <<tree, head>>
    BY <2>2 DEF Boot, Tick, StopSignal, Crash, repoVars
  <2>3. ASSUME NEW s \in Servers, CommitStep(s), ~Replay(s), ~Publish(s)
        PROVE  UNCHANGED <<tree, head>>
    BY <2>3 DEF CommitStep, LockForCommit, Finalize, ListAndLockout, MarkDone, UploadPack,
                Adopt, OpenWal, repoVars
  <2>4. ASSUME NEW s \in Servers, FaultStep(s), ~PublishErr(s) PROVE UNCHANGED <<tree, head>>
    BY <2>4 DEF FaultStep, FinalizeErr, ListErr, RecoverErr, UploadErr, OutputErr, OpenErr, repoVars
  <2>5. ASSUME NEW s \in Servers, Publish(s) \/ PublishErr(s)
        PROVE  srv[s].pc = "publish" /\ SetBranch(srv[s].pend) /\ UNCHANGED tree
    BY <2>5 DEF Publish, PublishErr
  <2>6. CASE UNCHANGED vars
    BY <2>6 DEF vars
  <2> QED
    BY <2>1, <2>2, <2>3, <2>4, <2>5, <2>6 DEF Next
<1> QED
  BY <1>1, <1>2, <1>3, <1>4

(* The branch never loses a mutation, across failures, retries and boots.  *)
THEOREM BranchOnlyGrows == ASSUME SafeSetting PROVE Spec => HeadOnlyGrows
<1>1. TypeInv /\ DurabilityInv /\ [Next]_vars =>
          [\A m \in Muts : InTree(m, head) => InTree(m, head)']_vars
  BY BranchStep
<1>2. Init => TypeInv
  BY InitTypeInv
<1>3. TypeInv /\ [Next]_vars => TypeInv'
  BY NextTypeInv
<1> QED
  BY <1>1, <1>2, <1>3, DurabilityCorrect, PTL DEF Spec, HeadOnlyGrows

-----------------------------------------------------------------------------
(* The refinement.  Under the invariant a mutation is durable exactly when *)
(* some log holds it or the branch has it.                                 *)
Logged(m) == \E q \in Made : m \in log[q].entries

LEMMA DurableIs ==
    ASSUME SafeSetting, DurabilityInv, NEW m \in Muts
    PROVE  Durable(m) <=> Logged(m) \/ InTree(m, head)
  BY DEF SafeSetting, DurabilityInv, DoneInHead, Durable, Logged

LEMMA SameLogged == ASSUME SameLogs PROVE \A m : Logged(m)' <=> Logged(m)
  BY DEF SameLogs, Logged, Made

LEMMA FreshLogged ==
    ASSUME NEW q \in Seqs, q \notin Made, FreshStep(q)
    PROVE  \A m : Logged(m)' <=> Logged(m)
  BY DEF FreshStep, Logged, Made

LEMMA MarkLogged ==
    ASSUME TypeInv, NEW s \in Servers, MarkDone(s)
    PROVE  \A m : Logged(m)' <=> Logged(m)
<1>1. PICK q \in Seqs : log' = [log EXCEPT ![q] = [log[q] EXCEPT !.done = TRUE]]
  BY DEF MarkDone
<1>2. \A p \in Seqs : log'[p].made = log[p].made /\ log'[p].entries = log[p].entries
  BY <1>1, LogRec DEF LogRecord, TypeInv, TypeOK
<1> QED
  BY <1>2 DEF Logged, Made

(* A log takes one mutation, and a mutation is never taken out of one.     *)
LEMMA LoggedStep ==
    ASSUME SafeSetting, TypeInv, DurabilityInv, [Next]_vars
    PROVE  \/ \A m : Logged(m)' <=> Logged(m)
           \/ \E x \in Muts : /\ \A m : Logged(m)' <=> Logged(m) \/ m = x
                              /\ UNCHANGED <<tree, head>>
<1> DEFINE Goal == \/ \A m : Logged(m)' <=> Logged(m)
                   \/ \E x \in Muts : /\ \A m : Logged(m)' <=> Logged(m) \/ m = x
                                      /\ UNCHANGED <<tree, head>>
<1>1. ASSUME UNCHANGED log PROVE Goal
  BY <1>1 DEF Logged, Made
<1>2. ASSUME NEW s \in Servers, NEW x \in Muts, LogMutation(s, x) PROVE Goal
  <2> DEFINE q == srv[s].writer
  <2>1. CASE UNCHANGED log
    BY <1>1, <2>1
  <2>2. CASE ~UNCHANGED log
    <3>1. /\ q # NoWriter /\ UNCHANGED <<tree, head>>
          /\ log' = [log EXCEPT ![q] = [log[q] EXCEPT !.entries =
                                          IF log[q].torn THEN @ ELSE @ \cup {x}]]
      BY <1>2, <2>2 DEF LogMutation, repoVars
    <3>2. q \in Seqs /\ log[q].made /\ ~log[q].torn
      <4>1. q \in Made
        BY <3>1, SrvInvOf DEF SrvInv, WriterInv
      <4>2. LogsKeep
        BY DEF DurabilityInv
      <4> QED
        BY <4>1, <4>2 DEF Made, LogsKeep
    <3>3. /\ \A p \in Seqs : log'[p].made = log[p].made
          /\ \A p \in Seqs : p # q => log'[p].entries = log[p].entries
          /\ log'[q].entries = log[q].entries \cup {x}
      BY <3>1, <3>2, LogRec DEF LogRecord, TypeInv, TypeOK
    <3> HIDE DEF q
    <3>4. \A m : Logged(m)' <=> Logged(m) \/ m = x
      BY <3>2, <3>3 DEF Logged, Made
    <3> QED
      BY <3>1, <3>4
  <2> QED
    BY <2>1, <2>2
<1>3. ASSUME NEW s \in Servers, NEW x \in Muts, Stage(s, x) \/ AppendErr(s, x) PROVE Goal
  <2>1. UNCHANGED log
    BY <1>3 DEF Stage, AppendErr, Fault, SafeSetting
  <2> QED
    BY <1>1, <2>1
<1>4. ASSUME NEW s \in Servers, Boot(s) \/ Tick(s) \/ StopSignal(s) \/ Crash(s) PROVE Goal
  <2>1. UNCHANGED log
    BY <1>4 DEF Boot, Tick, StopSignal, Crash
  <2> QED
    BY <1>1, <2>1
<1>5. ASSUME NEW s \in Servers, CommitStep(s) PROVE Goal
  <2>1. CASE LockForCommit(s) \/ Replay(s) \/ Publish(s) \/ UploadPack(s) \/ Adopt(s)
    <3>1. UNCHANGED log
      BY <2>1 DEF LockForCommit, Replay, Publish, UploadPack, Adopt
    <3> QED
      BY <1>1, <3>1
  <2>2. CASE Finalize(s)
    BY <2>2, FinalizeFrame, SameLogged DEF Frame
  <2>3. CASE ListAndLockout(s)
    BY <2>3, SealingSame, SameLogged DEF ListAndLockout
  <2>4. CASE MarkDone(s)
    BY <2>4, MarkLogged
  <2>5. CASE OpenWal(s)
    BY <2>5, OpenWalStep, FreshLogged
  <2> QED
    BY <1>5, <2>1, <2>2, <2>3, <2>4, <2>5 DEF CommitStep
<1>6. ASSUME NEW s \in Servers, FaultStep(s) PROVE Goal
  <2>1. CASE RecoverErr(s) \/ PublishErr(s) \/ UploadErr(s) \/ OutputErr(s)
    <3>1. UNCHANGED log
      BY <2>1 DEF RecoverErr, PublishErr, UploadErr, OutputErr
    <3> QED
      BY <1>1, <3>1
  <2>2. CASE FinalizeErr(s)
    BY <2>2, FinalizeFrame, SameLogged DEF Frame
  <2>3. CASE ListErr(s)
    BY <2>3, SealingSame, SameLogged DEF ListErr
  <2>4. CASE OpenErr(s)
    BY <2>4, OpenErrStep, FreshLogged
  <2> QED
    BY <1>6, <2>1, <2>2, <2>3, <2>4 DEF FaultStep
<1>7. CASE UNCHANGED vars
  BY <1>1, <1>7 DEF vars
<1>8. CASE Next
  <2>1. PICK s \in Servers :
           \/ \E m \in Muts : Stage(s, m) \/ LogMutation(s, m) \/ AppendErr(s, m)
           \/ Boot(s) \/ Tick(s) \/ StopSignal(s) \/ Crash(s)
           \/ CommitStep(s) \/ FaultStep(s)
    BY <1>8 DEF Next
  <2> HIDE DEF Goal
  <2>2. Goal
    BY <2>1, <1>2, <1>3, <1>4, <1>5, <1>6
  <2> QED
    BY <2>2 DEF Goal
<1> QED
  BY <1>7, <1>8

DurableSet == {m \in Muts : Durable(m)}
BranchSet == {m \in Muts : InTree(m, head)}

LEMMA StoreStep ==
    ASSUME SafeSetting, TypeInv, DurabilityInv, DurabilityInv', [Next]_vars
    PROVE  [Store!Next]_(Store!storeVars)
<1> DEFINE D == DurableSet
           B == BranchSet
<1>1. \A m \in Muts : /\ m \in D <=> Logged(m) \/ m \in B
                      /\ m \in D' <=> Logged(m)' \/ m \in B'
  <2>1. \A m \in Muts : Durable(m) <=> Logged(m) \/ InTree(m, head)
    BY DurableIs
  <2>2. \A m \in Muts : Durable(m)' <=> Logged(m)' \/ InTree(m, head)'
    BY DEF SafeSetting, DurabilityInv, DoneInHead, Durable, Logged
  <2> QED
    BY <2>1, <2>2 DEF DurableSet, BranchSet
<1>2. B \subseteq B' /\ \A m \in B' : m \in B \/ Logged(m)
  BY BranchStep DEF BranchSet, Logged
<1>3. /\ D \subseteq Muts /\ B \subseteq Muts /\ D' \subseteq Muts /\ B' \subseteq Muts
  BY DEF DurableSet, BranchSet
<1>4. CASE \A m : Logged(m)' <=> Logged(m)
  <2>1. D' = D /\ B' \subseteq D
    BY <1>1, <1>2, <1>3, <1>4
  <2>2. Store!Publish
    BY <1>2, <2>1 DEF Store!Publish, DurableSet, BranchSet
  <2> QED
    BY <2>2 DEF Store!Next
<1>5. ASSUME NEW x \in Muts, \A m : Logged(m)' <=> Logged(m) \/ m = x, UNCHANGED <<tree, head>>
      PROVE  [Store!Next]_(Store!storeVars)
  <2>1. B' = B
    BY <1>5 DEF BranchSet, InTree
  <2>2. D' = D \cup {x}
    BY <1>1, <1>3, <1>5, <2>1
  <2>3. CASE x \in D
    <3>1. D' = D
      BY <2>2, <2>3
    <3> QED
      BY <2>1, <3>1 DEF Store!storeVars, DurableSet, BranchSet
  <2>4. CASE x \notin D
    <3>1. Store!Accept(x)
      BY <2>1, <2>2, <2>4 DEF Store!Accept, DurableSet, BranchSet
    <3> QED
      BY <3>1 DEF Store!Next
  <2> QED
    BY <2>3, <2>4
<1> QED
  BY <1>4, <1>5, LoggedStep

(* The WAL and the commit cycle implement the abstract durable store.      *)
THEOREM WalImplementsStore == ASSUME SafeSetting PROVE Spec => ImplementsStore
<1>1. Init => Store!Init
  <2> SUFFICES ASSUME Init PROVE Store!Init
    OBVIOUS
  <2>1. \A q \in Seqs : ~log[q].made
    BY DEF Init, NoLog
  <2>2. \A m \in Muts : ~InTree(m, head)
    BY Zero DEF Init, InTree
  <2>3. \A m \in Muts : ~Durable(m)
    BY <2>1, <2>2 DEF Durable, Made, SafeSetting
  <2> QED
    BY <2>2, <2>3 DEF Store!Init
<1>2. TypeInv /\ DurabilityInv /\ DurabilityInv' /\ [Next]_vars => [Store!Next]_(Store!storeVars)
  BY StoreStep
<1>3. Init => TypeInv
  BY InitTypeInv
<1>4. TypeInv /\ [Next]_vars => TypeInv'
  BY NextTypeInv
<1> QED
  BY <1>1, <1>2, <1>3, <1>4, DurabilityCorrect, PTL DEF Spec, ImplementsStore, Store!Spec

=============================================================================
