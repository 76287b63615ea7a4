-------------------------- MODULE WalSafetyProofs --------------------------
(***************************************************************************)
(* More theorems about the WAL and the commit cycle of one server: the     *)
(* dirty flag covers the log, what was acknowledged is durable, a commit   *)
(* keeps its parent, and a clean exit leaves nothing to recover.           *)
(***************************************************************************)
EXTENDS WalDurabilityProofs

OneServer == \A s, t \in Servers : s = t

-----------------------------------------------------------------------------
(* Handlers and the dirty flag, for any repository, backend and failures.  *)

(* A handler inside the lock has set the flag, the log that is written is  *)
(* there and holds nothing the flag does not cover, and a server past boot *)
(* has the last of all logs.                                               *)
ServeInv(s) ==
    /\ \A m \in Muts : op[m] = "staged" /\ at[m] = s =>
          srv[s].pc \in {"idle", "lockwait"} /\ srv[s].dirty
    /\ srv[s].writer # NoWriter =>
          srv[s].writer \in Made /\ (log[srv[s].writer].entries # {} => srv[s].dirty)
    /\ srv[s].pc \in {"idle", "lockwait"} => srv[s].mode # "boot"
    /\ Running(srv[s]) /\ srv[s].mode # "boot" => \A q \in Made : q <= srv[s].seq

HandlerInv == /\ \A q \in Seqs : ~log[q].made => log[q].entries = {}
              /\ \A s \in Servers : ServeInv(s)

SameEntries == \A q \in Seqs : log'[q].made = log[q].made /\ log'[q].entries = log[q].entries

(* How a record changes in a recovery: the log, its flag and its sequence  *)
(* stay, or the process ends.                                              *)
Serving(r, x) == /\ x.writer \in {r.writer, NoWriter} /\ x.dirty = r.dirty
                 /\ x.seq = r.seq /\ x.mode = r.mode
                 /\ x.pc \in {"idle", "lockwait"} => x.mode = "auto"
Stopped(x) == x.pc \in {"down", "exit"} /\ x.writer = NoWriter

LEMMA DownStopped == Stopped(Down) /\ Stopped([Down EXCEPT !.pc = "exit"])
  BY DEF Stopped, Down

LEMMA FailedServing ==
    ASSUME NEW r \in ServerRecord PROVE Serving(r, Failed(r)) \/ Stopped(Failed(r))
<1>1. CASE r.mode = "auto"
  BY <1>1 DEF Failed, Serving, ServerRecord
<1>2. CASE r.mode # "auto"
  BY <1>2, DownStopped DEF Failed
<1> QED
  BY <1>1, <1>2

LEMMA AfterNoneServing ==
    ASSUME NEW r \in ServerRecord PROVE Serving(r, AfterNone(r)) \/ Stopped(AfterNone(r))
<1>1. CASE r.mode = "shutdown"
  BY <1>1, DownStopped DEF AfterNone
<1>2. CASE r.mode # "shutdown"
  BY <1>2 DEF AfterNone, Serving, ServerRecord
<1> QED
  BY <1>1, <1>2

LEMMA MarkedServing ==
    ASSUME NEW r \in ServerRecord, NEW q PROVE Serving(r, Marked(r, q)) \/ Stopped(Marked(r, q))
<1> DEFINE left == [r EXCEPT !.todo = r.todo \ {q}]
<1>1. /\ left \in ServerRecord /\ left.writer = r.writer /\ left.dirty = r.dirty
      /\ left.seq = r.seq /\ left.mode = r.mode
  BY DEF ServerRecord
<1>2. Marked(r, q) \in {[left EXCEPT !.pc = "mark"], [left EXCEPT !.pc = "adopt"], AfterNone(left)}
  BY DEF Marked
<1> HIDE DEF left
<1>3. \A p \in {"mark", "adopt"} : Serving(r, [left EXCEPT !.pc = p])
  BY <1>1 DEF Serving, ServerRecord
<1>4. Serving(r, AfterNone(left)) \/ Stopped(AfterNone(left))
  BY <1>1, AfterNoneServing DEF Serving
<1> QED
  BY <1>2, <1>3, <1>4

(* A step of a recovery, from the moment the lock is held.                 *)
RecoveryStep(s) ==
    /\ srv[s].pc \notin {"idle", "lockwait", "down", "exit"}
    /\ SameEntries /\ UNCHANGED <<op, at>>
    /\ Serving(srv[s], srv'[s]) \/ Stopped(srv'[s])

LEMMA NewRecord ==
    ASSUME TypeInv, NEW s \in Servers, NEW x, srv' = [srv EXCEPT ![s] = x] PROVE srv'[s] = x
  BY DEF TypeInv, TypeOK

LEMMA FinalizeRecovery ==
    ASSUME TypeInv, NEW s \in Servers, Finalize(s) \/ FinalizeErr(s) PROVE RecoveryStep(s)
<1> DEFINE r == [srv[s] EXCEPT !.writer = NoWriter]
<1>1. srv[s] \in ServerRecord /\ Frame
  BY SrvRec, FinalizeFrame
<1>2. /\ r \in ServerRecord /\ r.writer = NoWriter /\ r.dirty = srv[s].dirty
      /\ r.seq = srv[s].seq /\ r.mode = srv[s].mode
  BY <1>1 DEF ServerRecord
<1>3. srv'[s] = [r EXCEPT !.pc = "list"] \/ srv'[s] = Failed(r)
  BY NewRecord DEF Finalize, FinalizeErr
<1>4. srv[s].pc = "finalize" /\ UNCHANGED <<op, at>>
  BY DEF Finalize, FinalizeErr, opVars
<1> HIDE DEF r
<1>5. Serving(r, [r EXCEPT !.pc = "list"]) /\ (Serving(r, Failed(r)) \/ Stopped(Failed(r)))
  BY <1>2, FailedServing DEF Serving, ServerRecord
<1>6. \A x : Serving(r, x) => Serving(srv[s], x)
  BY <1>2 DEF Serving
<1> QED
  BY <1>1, <1>3, <1>4, <1>5, <1>6 DEF RecoveryStep, SameEntries, Frame, SameLogs

LEMMA ListRecovery ==
    ASSUME TypeInv, NEW s \in Servers, ListAndLockout(s) \/ ListErr(s) PROVE RecoveryStep(s)
<1>1. srv[s] \in ServerRecord
  BY SrvRec
<1>2. \E Q : log' = Sealing(Q)
  BY DEF ListAndLockout, ListErr
<1>3. SameEntries
  BY <1>2, SealingSame DEF SameLogs, SameEntries
<1> DEFINE T == {p \in Made : ~log[p].done}
           R(todo) == [srv[s] EXCEPT !.pc = "replay", !.todo = todo]
<1>4. \A todo : Serving(srv[s], R(todo))
  BY <1>1 DEF Serving, ServerRecord
<1>5. srv[s].pc = "list" /\ UNCHANGED <<op, at>>
  BY DEF ListAndLockout, ListErr, opVars
<1>6. CASE ListAndLockout(s)
  <2>1. srv' = [srv EXCEPT ![s] = IF T = {} THEN AfterNone(srv[s]) ELSE R(T)]
    BY <1>6 DEF ListAndLockout
  <2> HIDE DEF T, R
  <2>2. srv'[s] = AfterNone(srv[s]) \/ srv'[s] = R(T)
    BY <2>1, NewRecord
  <2> QED
    BY <1>1, <1>3, <1>4, <1>5, <2>2, AfterNoneServing DEF RecoveryStep
<1>7. CASE ListErr(s)
  <2>1. \E q \in Made : srv' = [srv EXCEPT ![s] = R(T)] \/ srv' = [srv EXCEPT ![s] = R({q} \cup T)]
    BY <1>7 DEF ListErr
  <2> HIDE DEF T, R
  <2>2. \E todo : srv'[s] = R(todo)
    BY <2>1, NewRecord
  <2> QED
    BY <1>3, <1>4, <1>5, <2>2 DEF RecoveryStep
<1> QED
  BY <1>6, <1>7

LEMMA ReplayRecovery ==
    ASSUME TypeInv, NEW s \in Servers, Replay(s) PROVE RecoveryStep(s)
<1>1. srv[s] \in ServerRecord
  BY SrvRec
<1>2. Serving(srv[s], srv'[s])
  <2>1. CASE \A q \in srv[s].todo : log[q].entries = {}
    <3>1. srv' = [srv EXCEPT ![s] = [srv[s] EXCEPT !.pc = "mark", !.pend = NoCommit]]
      BY <2>1 DEF Replay
    <3> QED
      BY <1>1, <3>1 DEF Serving, ServerRecord, TypeInv, TypeOK
  <2>2. CASE ~ \A q \in srv[s].todo : log[q].entries = {}
    <3> DEFINE p == IF Repo = "gcs" THEN "publish" ELSE "mark"
    <3>1. srv' = [srv EXCEPT ![s] = [srv[s] EXCEPT !.pend = ncommits', !.pc = p]]
      BY <2>2 DEF Replay
    <3>2. p \notin {"idle", "lockwait"}
      OBVIOUS
    <3> HIDE DEF p
    <3> QED
      BY <1>1, <3>1, <3>2 DEF Serving, ServerRecord, TypeInv, TypeOK
  <2> QED
    BY <2>1, <2>2
<1>3. srv[s].pc = "replay" /\ UNCHANGED <<op, at>> /\ SameEntries
  BY DEF Replay, opVars, SameEntries
<1> QED
  BY <1>2, <1>3 DEF RecoveryStep

LEMMA PublishRecovery ==
    ASSUME TypeInv, NEW s \in Servers,
           Publish(s) \/ PublishErr(s) \/ RecoverErr(s) \/ UploadErr(s)
    PROVE  RecoveryStep(s)
<1>1. srv[s] \in ServerRecord
  BY SrvRec
<1>2. srv'[s] = Failed(srv[s]) \/ srv'[s] = [srv[s] EXCEPT !.pc = "mark"]
  BY NewRecord DEF Publish, PublishErr, RecoverErr, UploadErr
<1>3. /\ srv[s].pc \in {"list", "replay", "publish", "mark", "upload"}
      /\ UNCHANGED <<op, at>> /\ SameEntries
  BY DEF Publish, PublishErr, RecoverErr, UploadErr, opVars, SameEntries
<1> QED
  BY <1>1, <1>2, <1>3, FailedServing DEF RecoveryStep, Serving, ServerRecord

LEMMA MarkRecovery ==
    ASSUME TypeInv, NEW s \in Servers, MarkDone(s) \/ UploadPack(s) PROVE RecoveryStep(s)
<1>1. srv[s] \in ServerRecord
  BY SrvRec
<1>2. srv'[s] = [srv[s] EXCEPT !.pc = "upload"] \/ \E q : srv'[s] = Marked(srv[s], q)
  BY NewRecord DEF MarkDone, UploadPack
<1>3. srv[s].pc \in {"mark", "upload"} /\ UNCHANGED <<op, at>>
  BY DEF MarkDone, UploadPack, opVars
<1>4. SameEntries
  <2>1. CASE UploadPack(s)
    BY <2>1 DEF UploadPack, SameEntries
  <2>2. CASE MarkDone(s)
    <3>1. PICK q \in Seqs : log' = [log EXCEPT ![q] = [log[q] EXCEPT !.done = TRUE]]
      BY <2>2 DEF MarkDone
    <3>2. log[q] \in LogRecord
      BY LogRec
    <3>3. /\ [log[q] EXCEPT !.done = TRUE].made = log[q].made
          /\ [log[q] EXCEPT !.done = TRUE].entries = log[q].entries
      BY <3>2 DEF LogRecord
    <3>4. log \in [Seqs -> LogRecord]
      BY DEF TypeInv, TypeOK
    <3> QED
      BY <3>1, <3>3, <3>4 DEF SameEntries
  <2> QED
    BY <2>1, <2>2
<1> QED
  BY <1>1, <1>2, <1>3, <1>4, MarkedServing DEF RecoveryStep, Serving, ServerRecord

LEMMA AdoptRecovery ==
    ASSUME TypeInv, NEW s \in Servers, Adopt(s) \/ OutputErr(s) PROVE RecoveryStep(s)
<1>1. srv[s] \in ServerRecord
  BY SrvRec
<1>2. srv[s].pc = "adopt" /\ UNCHANGED <<op, at>> /\ SameEntries
  BY DEF Adopt, OutputErr, opVars, SameEntries
<1>3. CASE Adopt(s)
  <2>1. \/ srv'[s] = [Down EXCEPT !.pc = "exit"]
        \/ srv'[s] = [srv[s] EXCEPT !.pc = "open", !.root = srv[s].pend, !.pend = NoCommit]
    BY <1>3, NewRecord DEF Adopt
  <2> QED
    BY <1>1, <1>2, <2>1, DownStopped DEF RecoveryStep, Serving, ServerRecord
<1>4. CASE OutputErr(s)
  <2>1. PICK c \in {srv[s].root, srv[s].pend} :
            srv' = [srv EXCEPT ![s] = Failed([srv[s] EXCEPT !.root = c])]
    BY <1>4 DEF OutputErr
  <2> DEFINE r == [srv[s] EXCEPT !.root = c]
  <2>2. c \in CommitIds
    BY <1>1, <1>2, <2>1, PendCommit DEF ServerRecord
  <2>3. /\ r \in ServerRecord /\ r.writer = srv[s].writer /\ r.dirty = srv[s].dirty
        /\ r.seq = srv[s].seq /\ r.mode = srv[s].mode
    BY <1>1, <2>2 DEF ServerRecord
  <2> HIDE DEF r
  <2>4. srv'[s] = Failed(r)
    BY <2>1, NewRecord DEF r
  <2>5. Serving(srv[s], Failed(r)) \/ Stopped(Failed(r))
    BY <2>3, FailedServing DEF Serving
  <2> QED
    BY <1>2, <2>4, <2>5 DEF RecoveryStep
<1> QED
  BY <1>3, <1>4

LEMMA OneServe ==
    ASSUME OneServer, NEW s \in Servers, ServeInv(s)',
           \A q \in Seqs : ~log'[q].made => log'[q].entries = {}
    PROVE  HandlerInv'
  BY DEF OneServer, HandlerInv, ServeInv

LEMMA RecoveryServe ==
    ASSUME OneServer, TypeInv, HandlerInv, NEW s \in Servers, RecoveryStep(s)
    PROVE  HandlerInv'
<1>1. ServeInv(s) /\ Made' = Made /\ SameEntries /\ UNCHANGED <<op, at>> /\ Running(srv[s])
  BY DEF HandlerInv, RecoveryStep, SameEntries, Made, Running
<1>2. \A m \in Muts : ~(op'[m] = "staged" /\ at'[m] = s)
  BY <1>1 DEF RecoveryStep, ServeInv
<1>3. \A q \in Seqs : ~log'[q].made => log'[q].entries = {}
  BY <1>1 DEF HandlerInv, SameEntries
<1>4. CASE Serving(srv[s], srv'[s])
  <2>1. srv'[s].writer # NoWriter =>
           srv'[s].writer \in Made' /\ (log'[srv'[s].writer].entries # {} => srv'[s].dirty)
    BY <1>1, <1>4 DEF Serving, ServeInv, SameEntries, Made
  <2>2. srv'[s].mode # "boot" => \A q \in Made' : q <= srv'[s].seq
    BY <1>1, <1>4 DEF Serving, ServeInv
  <2> QED
    BY <1>2, <1>3, <1>4, <2>1, <2>2, OneServe DEF ServeInv, Running, Serving
<1>5. CASE Stopped(srv'[s])
  BY <1>2, <1>3, <1>5, OneServe DEF Stopped, ServeInv, Running
<1> QED
  BY <1>4, <1>5 DEF RecoveryStep

(* The handlers.                                                           *)
LEMMA StageServe ==
    ASSUME OneServer, TypeInv, HandlerInv, NEW s \in Servers, NEW m \in Muts, Stage(s, m)
    PROVE  HandlerInv'
<1>1. /\ srv'[s].pc = "idle" /\ srv'[s].dirty = TRUE /\ srv'[s].writer = srv[s].writer
      /\ srv'[s].seq = srv[s].seq /\ srv'[s].mode = srv[s].mode
  BY SrvRec DEF Stage, ServerRecord, TypeInv, TypeOK
<1>2. UNCHANGED log /\ Made' = Made /\ srv[s].pc = "idle"
  BY DEF Stage, Made
<1>3. ServeInv(s)
  BY DEF HandlerInv
<1>4. ServeInv(s)'
  BY <1>1, <1>2, <1>3 DEF ServeInv, Running
<1> QED
  BY <1>2, <1>4, OneServe DEF HandlerInv

(* A step of the server that leaves the logs and the handlers alone.       *)
LEMMA LockServe ==
    ASSUME OneServer, TypeInv, HandlerInv, NEW s \in Servers,
           Tick(s) \/ StopSignal(s) \/ LockForCommit(s)
    PROVE  HandlerInv'
<1>1. /\ srv'[s].dirty = srv[s].dirty /\ srv'[s].writer = srv[s].writer
      /\ srv'[s].seq = srv[s].seq
      /\ srv'[s].pc = "lockwait" \/ (srv'[s].pc \in {"idle", "finalize"} /\ LockForCommit(s))
      /\ srv'[s].mode \in {srv[s].mode, "auto", "shutdown"}
      /\ srv[s].pc \in {"idle", "lockwait"}
  <2>1. CASE Tick(s) \/ StopSignal(s)
    BY <2>1, SrvRec DEF Tick, StopSignal, ServerRecord, TypeInv, TypeOK
  <2>2. CASE LockForCommit(s)
    BY <2>2, SrvRec DEF LockForCommit, ServerRecord, TypeInv, TypeOK
  <2> QED
    BY <2>1, <2>2
<1>2. UNCHANGED <<log, op, at>> /\ Made' = Made
  BY DEF Tick, StopSignal, LockForCommit, Made, opVars
<1>3. LockForCommit(s) => \A m \in Muts : ~(op[m] = "staged" /\ at[m] = s)
  BY DEF LockForCommit
<1>4. ServeInv(s) /\ Running(srv[s])
  BY <1>1 DEF HandlerInv, Running
<1>5. srv'[s].mode # "boot" /\ \A q \in Made : q <= srv[s].seq
  BY <1>1, <1>4 DEF ServeInv
<1>6. ServeInv(s)'
  BY <1>1, <1>2, <1>3, <1>4, <1>5 DEF ServeInv
<1> QED
  BY <1>2, <1>6, OneServe DEF HandlerInv

LEMMA BootServe ==
    ASSUME OneServer, TypeInv, HandlerInv, NEW s \in Servers, Boot(s) PROVE HandlerInv'
<1> DEFINE r == [Down EXCEPT !.pc = "list", !.root = IF Repo = "gcs" THEN head ELSE 1]
<1>1. r.pc = "list" /\ r.mode = "boot" /\ r.writer = NoWriter
  BY DEF Down
<1>2. srv' = [srv EXCEPT ![s] = r] /\ UNCHANGED <<log, op, at>> /\ srv[s].pc \in {"down", "exit"}
  BY DEF Boot, opVars
<1> HIDE DEF r
<1>3. srv'[s] = r
  BY <1>2, NewRecord
<1>4. ServeInv(s)
  BY DEF HandlerInv
<1>5. ServeInv(s)'
  BY <1>1, <1>2, <1>3, <1>4 DEF ServeInv
<1> QED
  BY <1>2, <1>5, OneServe DEF HandlerInv

LEMMA CrashServe ==
    ASSUME OneServer, TypeInv, HandlerInv, NEW s \in Servers, Crash(s) PROVE HandlerInv'
<1>1. srv'[s] = Down /\ UNCHANGED log
  BY NewRecord DEF Crash
<1>2. \A m \in Muts : ~(op'[m] = "staged" /\ at'[m] = s)
  BY DEF Crash
<1>3. ServeInv(s)'
  BY <1>1, <1>2 DEF ServeInv, Down, Running
<1> QED
  BY <1>1, <1>3, OneServe DEF HandlerInv

LEMMA LogServe ==
    ASSUME OneServer, TypeInv, HandlerInv, NEW s \in Servers, NEW m \in Muts,
           LogMutation(s, m) \/ AppendErr(s, m)
    PROVE  HandlerInv'
<1>0. log \in [Seqs -> LogRecord] /\ ServeInv(s) /\ srv[s] \in ServerRecord
  BY SrvRec DEF TypeInv, TypeOK, HandlerInv
<1>1. UNCHANGED <<srv, at>> /\ op[m] = "staged" /\ at[m] = s /\ op' = [op EXCEPT ![m] = "acked"]
  BY DEF LogMutation, AppendErr
<1>2. srv[s].dirty /\ srv[s].pc \in {"idle", "lockwait"}
  BY <1>0, <1>1 DEF ServeInv
<1>3. \A x \in Muts : op'[x] = "staged" => op[x] = "staged"
  BY <1>1 DEF TypeInv, TypeOK, OpsOK
<1> DEFINE w == srv[s].writer
<1>4. \/ UNCHANGED log
      \/ w # NoWriter /\ \E e : log' = [log EXCEPT ![w] = [log[w] EXCEPT !.entries = e]]
      \/ w # NoWriter /\ log' = [log EXCEPT ![w] = [log[w] EXCEPT !.torn = TRUE]]
  BY DEF LogMutation, AppendErr
<1>5. w # NoWriter => w \in Made /\ w \in Seqs /\ log[w] \in LogRecord
  BY <1>0 DEF ServeInv, Made
<1>6. /\ \A q \in Seqs : log'[q].made = log[q].made
      /\ \A q \in Seqs : q \notin Made => log'[q].entries = log[q].entries
  <2> HIDE DEF w
  <2>1. w # NoWriter => /\ \A e : [log[w] EXCEPT !.entries = e].made = log[w].made
                        /\ [log[w] EXCEPT !.torn = TRUE].made = log[w].made
    BY <1>5 DEF LogRecord
  <2> QED
    BY <1>0, <1>4, <1>5, <2>1
<1>7. Made' = Made
  BY <1>6 DEF Made
<1>8. ServeInv(s)'
  BY <1>0, <1>1, <1>2, <1>3, <1>5, <1>7 DEF ServeInv
<1>9. \A q \in Seqs : ~log'[q].made => log'[q].entries = {}
  BY <1>6 DEF HandlerInv, Made
<1> QED
  BY <1>8, <1>9, OneServe

(* The next sequence is after all logs.                                    *)
LEMMA NextSeqServe ==
    ASSUME TypeInv, HandlerInv, NEW s \in Servers, srv[s].pc = "open", NEW q \in Seqs,
           IsNextSeq(srv[s], q)
    PROVE  \A p \in Made : p <= q /\ p # q
<1>1. Made \subseteq Seqs /\ Seqs \subseteq Int /\ srv[s].seq \in Seqs
  BY SrvRec, BoundAssumption DEF Made, Seqs, ServerRecord
<1>2. CASE srv[s].mode = "auto"
  <2>1. q = srv[s].seq + 1 /\ \A p \in Made : p <= srv[s].seq
    BY <1>2 DEF IsNextSeq, HandlerInv, ServeInv, Running
  <2>2. ASSUME NEW p \in Made PROVE p <= q /\ p # q
    <3>1. p \in Int /\ srv[s].seq \in Int /\ p <= srv[s].seq
      BY <1>1, <2>1
    <3> QED
      BY <2>1, <3>1
  <2> QED
    BY <2>2
<1>3. CASE srv[s].mode # "auto"
  <2>1. Made = {} \/ \E p \in Made : (\A p2 \in Made : p2 <= p) /\ q = p + 1
    BY <1>3 DEF IsNextSeq
  <2>2. ASSUME NEW x \in Made PROVE x <= q /\ x # q
    <3>1. PICK p \in Made : (\A p2 \in Made : p2 <= p) /\ q = p + 1
      BY <2>1
    <3>2. p \in Int /\ x \in Int /\ x <= p
      BY <1>1, <3>1
    <3> QED
      BY <3>1, <3>2
  <2> QED
    BY <2>2
<1> QED
  BY <1>2, <1>3

LEMMA OpenWalServe ==
    ASSUME OneServer, TypeInv, HandlerInv, NEW s \in Servers, OpenWal(s) PROVE HandlerInv'
<1>0. /\ log \in [Seqs -> LogRecord] /\ ServeInv(s) /\ srv[s] \in ServerRecord
      /\ srv[s].pc = "open" /\ UNCHANGED <<op, at>>
  BY SrvRec DEF TypeInv, TypeOK, HandlerInv, OpenWal, opVars
<1>1. PICK q \in Seqs :
         /\ IsNextSeq(srv[s], q)
         /\ log' = [log EXCEPT ![q] = OpenedLog(s, q)]
         /\ srv' = [srv EXCEPT ![s] = [srv[s] EXCEPT !.pc = "idle", !.seq = q, !.writer = q,
                                       !.dirty = FALSE, !.mode = "auto"]]
  BY DEF OpenWal
<1>2. /\ srv'[s].pc = "idle" /\ srv'[s].seq = q /\ srv'[s].writer = q /\ srv'[s].mode = "auto"
  BY <1>0, <1>1 DEF ServerRecord, TypeInv, TypeOK
<1>3. /\ \A p \in Made : p <= q /\ p # q
  BY <1>0, <1>1, NextSeqServe
<1>4. log[q].entries = {} /\ log[q] \in LogRecord
  BY <1>0, <1>3 DEF HandlerInv, Made
<1>5. log'[q].made /\ log'[q].entries = {}
  BY <1>0, <1>1, <1>4 DEF OpenedLog, LogRecord
<1>6. \A p \in Seqs : p # q => log'[p] = log[p]
  BY <1>0, <1>1
<1>7. Made' = Made \cup {q} /\ q <= q
  BY <1>5, <1>6, BoundAssumption DEF Made, Seqs
<1>8. \A m \in Muts : ~(op'[m] = "staged" /\ at'[m] = s)
  BY <1>0 DEF ServeInv
<1>9. ServeInv(s)'
  BY <1>2, <1>3, <1>5, <1>7, <1>8 DEF ServeInv
<1> QED
  BY <1>5, <1>6, <1>9, OneServe DEF HandlerInv

LEMMA OpenErrServe ==
    ASSUME OneServer, TypeInv, HandlerInv, NEW s \in Servers, OpenErr(s) PROVE HandlerInv'
<1>0. /\ log \in [Seqs -> LogRecord] /\ ServeInv(s) /\ srv[s] \in ServerRecord
      /\ srv[s].pc = "open" /\ UNCHANGED <<op, at>>
  BY SrvRec DEF TypeInv, TypeOK, HandlerInv, OpenErr, opVars
<1>1. PICK q \in Seqs :
         /\ IsNextSeq(srv[s], q)
         /\ \/ UNCHANGED log
            \/ log' = [log EXCEPT ![q] = [log[q] EXCEPT !.made = TRUE, !.owner = s]]
         /\ srv' = [srv EXCEPT ![s] = Failed([srv[s] EXCEPT !.seq = q])]
  BY ZenonT(40) DEF OpenErr
<1>2. \A p \in Made : p <= q /\ p # q
  BY <1>0, <1>1, NextSeqServe
<1> DEFINE r == [srv[s] EXCEPT !.seq = q]
<1>3. /\ r \in ServerRecord /\ r.seq = q /\ r.writer = srv[s].writer /\ r.dirty = srv[s].dirty
      /\ r.mode = srv[s].mode
  BY <1>0 DEF ServerRecord
<1> HIDE DEF r
<1>4. Serving(r, srv'[s]) \/ Stopped(srv'[s])
  <2>1. srv'[s] = Failed(r)
    BY <1>1, NewRecord DEF r
  <2> QED
    BY <1>3, <2>1, FailedServing
<1>5. log[q].entries = {} /\ log[q] \in LogRecord
  BY <1>0, <1>2 DEF HandlerInv, Made
<1>6. /\ \A p \in Seqs : log'[p].entries = log[p].entries
      /\ \A p \in Seqs : p # q => log'[p].made = log[p].made
      /\ \A p \in Seqs : ~log'[p].made => ~log[p].made
  BY <1>0, <1>1, <1>5, ZenonT(40) DEF LogRecord
<1>7. Made \subseteq Made' /\ Made' \subseteq Made \cup {q} /\ q <= q
  BY <1>6, BoundAssumption DEF Made, Seqs
<1>8. \A m \in Muts : ~(op'[m] = "staged" /\ at'[m] = s)
  BY <1>0 DEF ServeInv
<1>9. ServeInv(s)'
  <2>1. CASE Serving(r, srv'[s])
    <3>1. srv'[s].writer # NoWriter => srv'[s].writer = srv[s].writer /\ srv[s].writer \in Seqs
      BY <1>0, <1>3, <2>1 DEF Serving, ServeInv, Made
    <3>2. srv'[s].dirty = srv[s].dirty /\ srv'[s].seq = q
      BY <1>3, <2>1 DEF Serving
    <3>3. srv'[s].pc \in {"idle", "lockwait"} => srv'[s].mode = "auto"
      BY <2>1 DEF Serving
    <3>4. \A p \in Made' : p <= srv'[s].seq
      BY <1>2, <1>7, <3>2
    <3> QED
      BY <1>0, <1>6, <1>7, <1>8, <3>1, <3>2, <3>3, <3>4 DEF ServeInv
  <2>2. CASE Stopped(srv'[s])
    BY <1>8, <2>2 DEF Stopped, ServeInv, Running
  <2> QED
    BY <1>4, <2>1, <2>2
<1> QED
  BY <1>6, <1>9, OneServe DEF HandlerInv

LEMMA NextHandlerInv == ASSUME OneServer, TypeInv, HandlerInv, [Next]_vars PROVE HandlerInv'
<1>1. ASSUME NEW s \in Servers, CommitStep(s), ~LockForCommit(s), ~OpenWal(s) PROVE RecoveryStep(s)
  BY <1>1, FinalizeRecovery, ListRecovery, ReplayRecovery, PublishRecovery, MarkRecovery,
     AdoptRecovery DEF CommitStep
<1>2. ASSUME NEW s \in Servers, FaultStep(s), ~OpenErr(s) PROVE RecoveryStep(s)
  BY <1>2, FinalizeRecovery, ListRecovery, PublishRecovery, AdoptRecovery DEF FaultStep
<1>3. CASE UNCHANGED vars
  BY <1>3 DEF vars, HandlerInv, ServeInv, Made, Running
<1>4. CASE Next
  <2>1. PICK s \in Servers :
           \/ \E m \in Muts : Stage(s, m) \/ LogMutation(s, m) \/ AppendErr(s, m)
           \/ Boot(s) \/ Tick(s) \/ StopSignal(s) \/ Crash(s)
           \/ CommitStep(s) \/ FaultStep(s)
    BY <1>4 DEF Next
  <2> QED
    BY <1>1, <1>2, <2>1, StageServe, LogServe, BootServe, LockServe, CrashServe, OpenWalServe,
       OpenErrServe, RecoveryServe
<1> QED
  BY <1>3, <1>4

(* An idle server whose log holds a mutation has its dirty flag set, so    *)
(* the timer commits it: one server, any repository, backend and failures. *)
THEOREM FlagCoversLog == ASSUME OneServer PROVE Spec => []DirtyCoversLog
<1>1. Init => HandlerInv
  <2> SUFFICES ASSUME Init PROVE HandlerInv
    OBVIOUS
  <2>1. ASSUME NEW s \in Servers PROVE srv[s] = Down
    BY DEF Init
  <2> QED
    BY <2>1 DEF Init, HandlerInv, ServeInv, Down, NoLog, Running
<1>2. TypeInv /\ HandlerInv /\ [Next]_vars => HandlerInv'
  BY NextHandlerInv
<1>3. HandlerInv => DirtyCoversLog
  BY DEF HandlerInv, ServeInv, DirtyCoversLog
<1> QED
  BY <1>1, <1>2, <1>3, InitTypeInv, NextTypeInv, PTL DEF Spec

-----------------------------------------------------------------------------
(* Where each step leaves the server.                                      *)

LEMMA FailedPc == ASSUME TypeInv, NEW r \in ServerRecord PROVE Failed(r).pc \in {"idle", "down"}
  BY FailedType

LEMMA RecoveryPc ==
    ASSUME TypeInv, NEW s \in Servers
    PROVE  /\ ListAndLockout(s) => srv'[s].pc \in {"exit", "open", "replay"}
           /\ Replay(s) => srv'[s].pc \in {"publish", "mark"}
           /\ Publish(s) => srv'[s].pc = "mark"
           /\ MarkDone(s) \/ UploadPack(s) => srv'[s].pc \in {"upload", "mark", "adopt", "exit", "open"}
           /\ Adopt(s) => srv'[s].pc \in {"exit", "open"}
<1>0. srv[s] \in ServerRecord /\ srv \in [Servers -> ServerRecord]
  BY SrvRec DEF TypeInv, TypeOK
<1>1. ASSUME ListAndLockout(s) PROVE srv'[s].pc \in {"exit", "open", "replay"}
  <2>1. \/ srv'[s] = AfterNone(srv[s])
        \/ srv'[s] = [srv[s] EXCEPT !.pc = "replay", !.todo = {q \in Made : ~log[q].done}]
    BY <1>0, <1>1 DEF ListAndLockout
  <2> QED
    BY <1>0, <2>1, AfterNoneType DEF ServerRecord
<1>2. ASSUME Replay(s) PROVE srv'[s].pc \in {"publish", "mark"}
  <2>1. CASE \A q \in srv[s].todo : log[q].entries = {}
    BY <1>0, <1>2, <2>1 DEF Replay, ServerRecord
  <2>2. CASE ~ \A q \in srv[s].todo : log[q].entries = {}
    BY <1>0, <1>2, <2>2 DEF Replay, ServerRecord
  <2> QED
    BY <2>1, <2>2
<1>3. ASSUME Publish(s) PROVE srv'[s].pc = "mark"
  BY <1>0, <1>3 DEF Publish, ServerRecord
<1>4. ASSUME MarkDone(s) \/ UploadPack(s)
      PROVE  srv'[s].pc \in {"upload", "mark", "adopt", "exit", "open"}
  <2>1. srv'[s] = [srv[s] EXCEPT !.pc = "upload"] \/ \E q : srv'[s] = Marked(srv[s], q)
    BY <1>0, <1>4 DEF MarkDone, UploadPack
  <2>2. ASSUME NEW q PROVE Marked(srv[s], q).pc \in {"mark", "adopt", "exit", "open"}
    <3> DEFINE left == [srv[s] EXCEPT !.todo = srv[s].todo \ {q}]
    <3>1. left \in ServerRecord
      BY <1>0 DEF ServerRecord
    <3>2. Marked(srv[s], q) \in {[left EXCEPT !.pc = "mark"], [left EXCEPT !.pc = "adopt"], AfterNone(left)}
      BY DEF Marked
    <3> HIDE DEF left
    <3> QED
      BY <3>1, <3>2, AfterNoneType DEF ServerRecord
  <2> QED
    BY <1>0, <2>1, <2>2 DEF ServerRecord
<1>5. ASSUME Adopt(s) PROVE srv'[s].pc \in {"exit", "open"}
  <2>1. \/ srv'[s] = [Down EXCEPT !.pc = "exit"]
        \/ srv'[s] = [srv[s] EXCEPT !.pc = "open", !.root = srv[s].pend, !.pend = NoCommit]
    BY <1>0, <1>5 DEF Adopt
  <2> QED
    BY <1>0, <2>1 DEF ServerRecord, Down
<1> QED
  BY <1>1, <1>2, <1>3, <1>4, <1>5

LEMMA FaultPc ==
    ASSUME TypeInv, NEW s \in Servers, FaultStep(s)
    PROVE  srv'[s].pc \in {"idle", "down", "replay"}
<1>0. srv[s] \in ServerRecord /\ srv \in [Servers -> ServerRecord]
  BY SrvRec DEF TypeInv, TypeOK
<1>1. CASE FinalizeErr(s)
  <2>1. [srv[s] EXCEPT !.writer = NoWriter] \in ServerRecord
    BY <1>0 DEF ServerRecord
  <2>2. srv'[s] = Failed([srv[s] EXCEPT !.writer = NoWriter])
    BY <1>0, <1>1 DEF FinalizeErr
  <2> QED
    BY <2>1, <2>2, FailedPc
<1>2. CASE ListErr(s)
  <2> DEFINE T == {p \in Made : ~log[p].done}
             R(todo) == [srv[s] EXCEPT !.pc = "replay", !.todo = todo]
  <2>1. \A todo : R(todo).pc = "replay"
    BY <1>0 DEF ServerRecord
  <2>2. \E q \in Made : srv' = [srv EXCEPT ![s] = R(T)] \/ srv' = [srv EXCEPT ![s] = R({q} \cup T)]
    BY <1>2 DEF ListErr
  <2> HIDE DEF T, R
  <2> QED
    BY <1>0, <2>1, <2>2
<1>3. CASE RecoverErr(s) \/ PublishErr(s) \/ UploadErr(s)
  <2>1. srv'[s] = Failed(srv[s])
    BY <1>0, <1>3 DEF RecoverErr, PublishErr, UploadErr
  <2> QED
    BY <1>0, <2>1, FailedPc
<1>4. CASE OutputErr(s)
  <2>1. PICK c \in {srv[s].root, srv[s].pend} : srv'[s] = Failed([srv[s] EXCEPT !.root = c])
    BY <1>0, <1>4 DEF OutputErr
  <2>2. c \in CommitIds
    BY <1>0, <1>4, <2>1, PendCommit DEF ServerRecord, OutputErr
  <2>3. [srv[s] EXCEPT !.root = c] \in ServerRecord
    BY <1>0, <2>2 DEF ServerRecord
  <2> QED
    BY <2>1, <2>3, FailedPc
<1>5. CASE OpenErr(s)
  <2>1. PICK q \in Seqs : srv'[s] = Failed([srv[s] EXCEPT !.seq = q])
    BY <1>0, <1>5 DEF OpenErr
  <2>2. [srv[s] EXCEPT !.seq = q] \in ServerRecord
    BY <1>0 DEF ServerRecord
  <2> QED
    BY <2>1, <2>2, FailedPc
<1> QED
  BY <1>1, <1>2, <1>3, <1>4, <1>5 DEF FaultStep

LEMMA ServingPc ==
    ASSUME TypeInv, NEW s \in Servers
    PROVE  /\ \A m \in Muts : Stage(s, m) => srv'[s].pc = "idle"
           /\ Boot(s) => srv'[s].pc = "list"
           /\ Tick(s) \/ StopSignal(s) => srv'[s].pc = "lockwait"
           /\ LockForCommit(s) => srv'[s].pc \in {"idle", "finalize"}
           /\ Crash(s) => srv'[s].pc = "down"
           /\ Finalize(s) => srv'[s].pc \in {"list", "idle", "down"}
           /\ OpenWal(s) => srv'[s].pc = "idle"
<1>0. srv[s] \in ServerRecord /\ srv \in [Servers -> ServerRecord]
  BY SrvRec DEF TypeInv, TypeOK
<1>1. ASSUME NEW m \in Muts, Stage(s, m) PROVE srv'[s].pc = "idle"
  BY <1>0, <1>1 DEF Stage, ServerRecord
<1>2. ASSUME Boot(s) PROVE srv'[s].pc = "list"
  BY <1>0, <1>2 DEF Boot, Down
<1>3. ASSUME Tick(s) \/ StopSignal(s) PROVE srv'[s].pc = "lockwait"
  BY <1>0, <1>3 DEF Tick, StopSignal, ServerRecord
<1>4. ASSUME LockForCommit(s) PROVE srv'[s].pc \in {"idle", "finalize"}
  BY <1>0, <1>4 DEF LockForCommit, ServerRecord
<1>5. ASSUME Crash(s) PROVE srv'[s].pc = "down"
  BY <1>0, <1>5 DEF Crash, Down
<1>6. ASSUME Finalize(s) PROVE srv'[s].pc \in {"list", "idle", "down"}
  <2> DEFINE r == [srv[s] EXCEPT !.writer = NoWriter]
  <2>1. r \in ServerRecord
    BY <1>0 DEF ServerRecord
  <2>2. srv'[s] = [r EXCEPT !.pc = "list"] \/ srv'[s] = Failed(r)
    BY <1>6, NewRecord DEF Finalize
  <2> HIDE DEF r
  <2> QED
    BY <2>1, <2>2, FailedPc DEF ServerRecord
<1>7. ASSUME OpenWal(s) PROVE srv'[s].pc = "idle"
  <2>1. \E q : srv'[s] = [srv[s] EXCEPT !.pc = "idle", !.seq = q, !.writer = q,
                                        !.dirty = FALSE, !.mode = "auto"]
    BY <1>7, NewRecord DEF OpenWal
  <2> QED
    BY <1>0, <2>1 DEF ServerRecord
<1> QED
  BY <1>1, <1>2, <1>3, <1>4, <1>5, <1>6, <1>7

-----------------------------------------------------------------------------
(* A clean exit.                                                           *)

(* A process that ended with exit status 0 has left every log done.        *)
ExitInv == \A s \in Servers : srv[s].pc = "exit" => \A q \in Made : log[q].done

LEMMA OneExit ==
    ASSUME SafeSetting, NEW s \in Servers, srv'[s].pc = "exit" => \A q \in Made' : log'[q].done
    PROVE  ExitInv'
  BY DEF SafeSetting, ExitInv

LEMMA ListExit ==
    ASSUME SafeSetting, TypeInv, NEW s \in Servers, ListAndLockout(s) PROVE ExitInv'
<1> DEFINE T == {q \in Made : ~log[q].done}
<1>1. SameLogs
  BY SealingSame DEF ListAndLockout
<1>2. CASE T = {}
  BY <1>1, <1>2, OneExit DEF SameLogs, Made
<1>3. CASE T # {}
  <2>1. srv' = [srv EXCEPT ![s] = [srv[s] EXCEPT !.pc = "replay", !.todo = T]]
    BY <1>3 DEF ListAndLockout
  <2> HIDE DEF T
  <2>2. srv'[s] = [srv[s] EXCEPT !.pc = "replay", !.todo = T]
    BY <2>1, NewRecord
  <2>3. srv'[s].pc = "replay"
    BY <2>2, SrvRec DEF ServerRecord
  <2> QED
    BY <2>3, OneExit
<1> QED
  BY <1>2, <1>3

LEMMA MarkedExit ==
    ASSUME TypeInv, NEW r \in ServerRecord, NEW q, Marked(r, q).pc = "exit"
    PROVE  r.pend = NoCommit /\ r.todo \subseteq {q}
<1> DEFINE left == [r EXCEPT !.todo = r.todo \ {q}]
<1>1. left \in ServerRecord /\ left.todo = r.todo \ {q}
  BY DEF ServerRecord
<1>2. \A p \in {"mark", "adopt"} : [left EXCEPT !.pc = p].pc = p
  BY <1>1 DEF ServerRecord
<1>3. Marked(r, q) = IF left.todo # {} THEN [left EXCEPT !.pc = "mark"]
                     ELSE IF r.pend # NoCommit THEN [left EXCEPT !.pc = "adopt"]
                     ELSE AfterNone(left)
  BY DEF Marked
<1> HIDE DEF left
<1> QED
  BY <1>1, <1>2, <1>3

LEMMA MarkExit ==
    ASSUME SafeSetting, TypeInv, DurabilityInv, NEW s \in Servers, MarkDone(s) \/ UploadPack(s)
    PROVE  ExitInv'
<1>0. srv[s] \in ServerRecord /\ log \in [Seqs -> LogRecord]
  BY SrvRec DEF TypeInv, TypeOK
<1> SUFFICES ASSUME srv'[s].pc = "exit", NEW q \in Made' PROVE log'[q].done
  BY OneExit
<1>1. CASE UploadPack(s)
  <2>1. srv[s].pend # NoCommit
    BY <1>1 DEF UploadPack, TypeInv, PendWhenUsed
  <2>2. \E p : srv'[s] = Marked(srv[s], p)
    BY <1>1, NewRecord DEF UploadPack
  <2> QED
    BY <1>0, <2>1, <2>2, MarkedExit
<1>2. CASE MarkDone(s)
  <2>1. PICK p \in Seqs :
           /\ p \in srv[s].todo /\ log' = [log EXCEPT ![p] = [log[p] EXCEPT !.done = TRUE]]
           /\ srv'[s] = [srv[s] EXCEPT !.pc = "upload"] \/ srv'[s] = Marked(srv[s], p)
    BY <1>2, NewRecord DEF MarkDone, IsNextTodo
  <2>2. [srv[s] EXCEPT !.pc = "upload"].pc = "upload"
    BY <1>0 DEF ServerRecord
  <2>3. srv[s].todo \subseteq {p}
    BY <1>0, <2>1, <2>2, MarkedExit
  <2>4. log[p] \in LogRecord
    BY LogRec
  <2>5. /\ [log[p] EXCEPT !.done = TRUE].made = log[p].made
        /\ [log[p] EXCEPT !.done = TRUE].done = TRUE
    BY <2>4 DEF LogRecord
  <2>6. q \in Made /\ (q # p => log'[q] = log[q]) /\ log'[p].done
    BY <1>0, <2>1, <2>5 DEF Made
  <2>7. srv[s].pc = "mark"
    BY <1>2 DEF MarkDone
  <2>8. q # p => log[q].done
    BY <2>3, <2>6, <2>7, SrvInvOf DEF SrvInv, TodoInv
  <2> QED
    BY <2>6, <2>8
<1> QED
  BY <1>1, <1>2

LEMMA NextExitInv ==
    ASSUME SafeSetting, TypeInv, DurabilityInv, ExitInv, [Next]_vars PROVE ExitInv'
<1>1. ASSUME NEW s \in Servers, NEW m \in Muts, LogMutation(s, m) \/ AppendErr(s, m)
      PROVE  ExitInv'
  <2>1. srv[s].pc \in {"idle", "lockwait"}
    BY <1>1, SrvInvOf DEF SrvInv, WriterInv, LogMutation, AppendErr
  <2> QED
    BY <1>1, <2>1, OneExit DEF LogMutation, AppendErr
<1>2. ASSUME NEW s \in Servers, Adopt(s) PROVE ExitInv'
  <2>1. Made' = Made /\ \A q \in Made : log'[q].done
    BY <1>2, SrvInvOf DEF Adopt, SrvInv, TodoInv, Made
  <2> QED
    BY <2>1, OneExit
<1>3. ASSUME NEW s \in Servers, srv'[s].pc # "exit" PROVE ExitInv'
  BY <1>3, OneExit
<1>4. CASE UNCHANGED vars
  BY <1>4 DEF vars, ExitInv, Made
<1>5. ASSUME NEW s \in Servers, CommitStep(s) PROVE ExitInv'
  BY <1>2, <1>3, <1>5, ListExit, MarkExit, RecoveryPc, ServingPc DEF CommitStep
<1>6. ASSUME NEW s \in Servers, FaultStep(s) PROVE ExitInv'
  BY <1>3, <1>6, FaultPc
<1> QED
  BY <1>1, <1>3, <1>4, <1>5, <1>6, ServingPc DEF Next

(* After a clean exit nothing is left to recover: every log is done and    *)
(* every logged mutation is in the published branch, after any crashes and *)
(* retried failures before it.                                             *)
THEOREM ExitLeavesNothing == ASSUME SafeSetting PROVE Spec => []CleanExitCommitted
<1>1. Init => ExitInv
  BY DEF Init, ExitInv, Down
<1>2. TypeInv /\ DurabilityInv /\ ExitInv /\ [Next]_vars => ExitInv'
  BY NextExitInv
<1>3. DurabilityInv /\ ExitInv => CleanExitCommitted
  <2> SUFFICES ASSUME DurabilityInv, ExitInv, \A s \in Servers : srv[s].pc = "exit"
               PROVE  /\ \A q \in Made : log[q].done
                      /\ \A m \in accepted : InTree(m, head)
    BY DEF CleanExitCommitted
  <2>1. \A q \in Made : log[q].done
    BY ServerAssumption DEF ExitInv
  <2> QED
    BY <2>1 DEF DurabilityInv, LogsKeep, DoneInHead
<1> QED
  BY <1>1, <1>2, <1>3, InitTypeInv, NextTypeInv, DurabilityCorrect, PTL DEF Spec

-----------------------------------------------------------------------------
(* Acknowledged mutations.                                                 *)

(* The server has a log open that takes its appends.                       *)
CanAppend(s) == /\ srv[s].writer \in Seqs
                /\ ~log[srv[s].writer].sealed /\ log[srv[s].writer].owner = s

(* Until an I/O call fails, a reply of Ok means an accepted append: a      *)
(* serving process always has a log that takes its appends.                *)
AckInv == faults = 0 =>
    /\ \A m \in Muts : op[m] = "acked" => m \in accepted
    /\ \A s \in Servers : srv[s].pc \in {"idle", "lockwait", "finalize"} => CanAppend(s)

LEMMA SeqNotNone == \A q \in Seqs : q # NoWriter
  BY BoundAssumption DEF Seqs, NoWriter

LEMMA OneAck ==
    ASSUME SafeSetting, NEW s \in Servers,
           \A m \in Muts : op'[m] = "acked" => m \in accepted',
           srv'[s].pc \in {"idle", "lockwait", "finalize"} => CanAppend(s)'
    PROVE  AckInv'
  BY DEF SafeSetting, AckInv, CanAppend

LEMMA FaultAck == ASSUME TypeInv, faults' = faults + 1 PROVE AckInv'
<1>1. faults' # 0
  BY DEF TypeInv, TypeOK, RestOK
<1> QED
  BY <1>1 DEF AckInv

LEMMA FaultsCounted ==
    ASSUME TypeInv, DurabilityInv, NEW s \in Servers, FaultStep(s) PROVE faults' = faults + 1
<1>1. ASSUME OpenErr(s) PROVE faults' = faults + 1
  <2>1. PICK q \in Seqs : IsNextSeq(srv[s], q) /\ (~log[q].made => Fault("open"))
    BY <1>1 DEF OpenErr
  <2>2. \A p \in Made : p < q
    BY <1>1, <2>1, NextSeqFresh DEF OpenErr
  <2>3. q \notin Made
    BY <2>2, BoundAssumption DEF Seqs
  <2> QED
    BY <2>1, <2>3 DEF Made, Fault
<1> QED
  BY <1>1 DEF FaultStep, FinalizeErr, ListErr, RecoverErr, PublishErr, UploadErr, OutputErr, Fault

LEMMA LogAck ==
    ASSUME SafeSetting, TypeInv, DurabilityInv, AckInv, faults = 0,
           NEW s \in Servers, NEW m \in Muts, LogMutation(s, m)
    PROVE  AckInv'
<1> DEFINE q == srv[s].writer
           l == [log[q] EXCEPT !.entries = IF log[q].torn THEN @ ELSE @ \cup {m}]
<1>0. log \in [Seqs -> LogRecord]
  BY DEF TypeInv, TypeOK
<1>1. CanAppend(s)
  BY SrvInvOf DEF SrvInv, WriterInv, LogMutation, AckInv
<1>2. q # NoWriter /\ Accepts(s, q)
  <2>1. q # NoWriter
    BY <1>1, SeqNotNone DEF CanAppend
  <2> QED
    BY <1>1, <2>1 DEF CanAppend, Accepts
<1>3. /\ log' = [log EXCEPT ![q] = l] /\ accepted' = accepted \cup {m}
      /\ op' = [op EXCEPT ![m] = "acked"] /\ UNCHANGED srv
  BY <1>2 DEF LogMutation
<1>4. l.sealed = log[q].sealed /\ l.owner = log[q].owner
  BY <1>0, <1>1 DEF CanAppend, LogRecord
<1> HIDE DEF q, l
<1>5. CanAppend(s)'
  BY <1>0, <1>1, <1>3, <1>4 DEF CanAppend, q
<1>6. \A x \in Muts : op'[x] = "acked" => x \in accepted'
  BY <1>3 DEF AckInv, TypeInv, TypeOK, OpsOK
<1> QED
  BY <1>5, <1>6, OneAck

LEMMA OpenAck ==
    ASSUME SafeSetting, TypeInv, DurabilityInv, AckInv, faults = 0, NEW s \in Servers, OpenWal(s)
    PROVE  AckInv'
<1>0. log \in [Seqs -> LogRecord] /\ srv[s] \in ServerRecord
  BY SrvRec DEF TypeInv, TypeOK
<1>1. PICK q \in Seqs :
         /\ log' = [log EXCEPT ![q] = OpenedLog(s, q)]
         /\ srv'[s] = [srv[s] EXCEPT !.pc = "idle", !.seq = q, !.writer = q,
                                     !.dirty = FALSE, !.mode = "auto"]
  BY NewRecord DEF OpenWal
<1>2. srv'[s].writer = q
  BY <1>0, <1>1 DEF ServerRecord
<1>3. log'[q] = OpenedLog(s, q)
  BY <1>0, <1>1
<1>4. ~OpenedLog(s, q).sealed /\ OpenedLog(s, q).owner = s
  BY <1>0 DEF OpenedLog, LogRecord
<1>5. UNCHANGED <<op, accepted>>
  BY DEF OpenWal, opVars
<1> QED
  BY <1>2, <1>3, <1>4, <1>5, OneAck DEF CanAppend, AckInv

LEMMA FinalizeAck ==
    ASSUME SafeSetting, TypeInv, AckInv, faults = 0, NEW s \in Servers, Finalize(s)
    PROVE  AckInv'
<1> DEFINE r == [srv[s] EXCEPT !.writer = NoWriter]
<1>1. CanAppend(s)
  BY DEF AckInv, Finalize
<1>2. Accepts(s, srv[s].writer)
  BY <1>1 DEF CanAppend, Accepts
<1>3. r \in ServerRecord
  BY SrvRec DEF ServerRecord
<1>4. srv' = [srv EXCEPT ![s] = [r EXCEPT !.pc = "list"]]
  BY <1>2 DEF Finalize
<1> HIDE DEF r
<1>5. srv'[s] = [r EXCEPT !.pc = "list"]
  BY <1>4, NewRecord
<1>6. srv'[s].pc = "list"
  BY <1>3, <1>5 DEF ServerRecord
<1>7. UNCHANGED <<op, accepted>>
  BY DEF Finalize, opVars
<1> QED
  BY <1>6, <1>7, OneAck DEF AckInv

LEMMA ServeAck ==
    ASSUME SafeSetting, TypeInv, AckInv, faults = 0, NEW s \in Servers,
           (\E m \in Muts : Stage(s, m)) \/ Tick(s) \/ StopSignal(s) \/ LockForCommit(s)
    PROVE  AckInv'
<1>0. srv[s] \in ServerRecord /\ srv \in [Servers -> ServerRecord]
  BY SrvRec DEF TypeInv, TypeOK
<1>1. srv[s].pc \in {"idle", "lockwait"} /\ UNCHANGED <<log, accepted>>
  BY DEF Stage, Tick, StopSignal, LockForCommit, opVars
<1>2. srv'[s].writer = srv[s].writer
  <2>1. CASE \E m \in Muts : Stage(s, m)
    BY <1>0, <2>1 DEF Stage, ServerRecord
  <2>2. CASE Tick(s) \/ StopSignal(s) \/ LockForCommit(s)
    BY <1>0, <2>2 DEF Tick, StopSignal, LockForCommit, ServerRecord
  <2> QED
    BY <2>1, <2>2
<1>3. \A x \in Muts : op'[x] = "acked" => op[x] = "acked"
  <2>1. CASE \E m \in Muts : Stage(s, m)
    BY <2>1 DEF Stage, TypeInv, TypeOK, OpsOK
  <2>2. CASE Tick(s) \/ StopSignal(s) \/ LockForCommit(s)
    BY <2>2 DEF Tick, StopSignal, LockForCommit, opVars
  <2> QED
    BY <2>1, <2>2
<1>4. CanAppend(s)
  BY <1>1 DEF AckInv
<1> QED
  BY <1>1, <1>2, <1>3, <1>4, OneAck DEF CanAppend, AckInv

LEMMA NextAckInv ==
    ASSUME SafeSetting, TypeInv, DurabilityInv, AckInv, [Next]_vars PROVE AckInv'
<1>1. ASSUME NEW s \in Servers, FaultStep(s) PROVE AckInv'
  BY <1>1, FaultsCounted, FaultAck
<1>2. ASSUME NEW s \in Servers, NEW m \in Muts, AppendErr(s, m) PROVE AckInv'
  BY <1>2, FaultAck DEF AppendErr, Fault
<1>3. CASE UNCHANGED vars
  BY <1>3 DEF vars, AckInv, CanAppend
<1>4. CASE Next /\ faults = 0
  <2>1. ASSUME NEW s \in Servers, srv'[s].pc \notin {"idle", "lockwait", "finalize"},
               \A x \in Muts : op'[x] = "acked" => op[x] = "acked", UNCHANGED accepted
        PROVE  AckInv'
    BY <1>4, <2>1, OneAck DEF AckInv
  <2>2. ASSUME NEW s \in Servers, Boot(s) \/ Crash(s) PROVE AckInv'
    <3>1. /\ UNCHANGED accepted
          /\ \A x \in Muts : op'[x] = "acked" => op[x] = "acked"
      BY <2>2 DEF Boot, Crash, opVars
    <3> QED
      BY <2>1, <2>2, <3>1, ServingPc
  <2>3. ASSUME NEW s \in Servers, CommitStep(s), ~LockForCommit(s), ~Finalize(s), ~OpenWal(s)
        PROVE  AckInv'
    <3>1. UNCHANGED <<op, accepted>>
      BY <2>3 DEF CommitStep, ListAndLockout, Replay, Publish, MarkDone, UploadPack, Adopt, opVars
    <3>2. srv'[s].pc \in {"exit", "open", "replay", "publish", "mark", "upload", "adopt"}
      BY <2>3, RecoveryPc DEF CommitStep
    <3> QED
      BY <2>1, <3>1, <3>2
  <2>4. ASSUME NEW s \in Servers, CommitStep(s) PROVE AckInv'
    BY <1>4, <2>3, <2>4, ServeAck, FinalizeAck, OpenAck
  <2> QED
    BY <1>1, <1>2, <1>4, <2>2, <2>4, ServeAck, LogAck DEF Next
<1>5. CASE Next /\ faults # 0
  <2>1. faults' \in {faults, faults + 1}
    <3>1. ASSUME NEW s \in Servers, NEW m \in Muts, Stage(s, m) \/ LogMutation(s, m)
          PROVE  faults' = faults
      BY <3>1 DEF Stage, LogMutation, countVars
    <3>2. ASSUME NEW s \in Servers, Boot(s) \/ Tick(s) \/ StopSignal(s) \/ Crash(s) \/ CommitStep(s)
          PROVE  faults' = faults
      BY <3>2 DEF Boot, Tick, StopSignal, Crash, CommitStep, LockForCommit, Finalize,
                  ListAndLockout, Replay, Publish, MarkDone, UploadPack, Adopt, OpenWal, countVars
    <3>3. ASSUME NEW s \in Servers, NEW m \in Muts, AppendErr(s, m) PROVE faults' = faults + 1
      BY <3>3 DEF AppendErr, Fault
    <3> QED
      BY <1>5, <3>1, <3>2, <3>3, FaultsCounted DEF Next
  <2>2. faults' # 0
    BY <1>5, <2>1 DEF TypeInv, TypeOK, RestOK
  <2> QED
    BY <2>2 DEF AckInv
<1> QED
  BY <1>3, <1>4, <1>5

(* As long as no I/O call has failed, a mutation whose client was told Ok  *)
(* is durable, through every crash and boot: log_mutation flushes before   *)
(* the handler replies.                                                    *)
THEOREM AcknowledgedSurvives == ASSUME SafeSetting PROVE Spec => []AckedDurable
<1>1. Init => AckInv
  BY DEF Init, AckInv, Down
<1>2. TypeInv /\ DurabilityInv /\ AckInv /\ [Next]_vars => AckInv'
  BY NextAckInv
<1>3. AckInv /\ LoggedDurable => AckedDurable
  BY DEF AckInv, LoggedDurable, AckedDurable
<1> QED
  BY <1>1, <1>2, <1>3, InitTypeInv, NextTypeInv, DurabilityCorrect, LoggedMutationsSurvive,
     PTL DEF Spec

-----------------------------------------------------------------------------
(* The parent of a commit.                                                 *)

(* b is built and the branch has kept all of it.                           *)
KeptByBranch(b) == b <= ncommits /\ \A m \in Muts : InTree(m, b) => InTree(m, head)

(* A header names a commit the branch has kept, a parent is older than its *)
(* commit, and the commit keeps its tree.                                  *)
LineageInv ==
    /\ \A q \in Seqs : log[q].base # NoCommit => KeptByBranch(log[q].base)
    /\ \A c \in 2 .. ncommits : parent[c] \in 1 .. c - 1
    /\ CommitKeepsParent

SameBases == \A q \in Seqs : log'[q].base = log[q].base

LEMMA OneLogBase ==
    ASSUME TypeInv, NEW q \in Seqs, NEW l, l.base = log[q].base, log' = [log EXCEPT ![q] = l]
    PROVE  SameBases
  BY DEF TypeInv, TypeOK, SameBases

LEMMA FieldBase ==
    ASSUME TypeInv, NEW q \in Seqs, NEW x
    PROVE  /\ [log[q] EXCEPT !.sealed = x].base = log[q].base
           /\ [log[q] EXCEPT !.done = x].base = log[q].base
           /\ [log[q] EXCEPT !.torn = x].base = log[q].base
           /\ [log[q] EXCEPT !.entries = x].base = log[q].base
  BY LogRec DEF LogRecord

LEMMA FieldBases ==
    ASSUME TypeInv, NEW q \in Seqs, NEW x,
           \/ log' = [log EXCEPT ![q] = [log[q] EXCEPT !.sealed = x]]
           \/ log' = [log EXCEPT ![q] = [log[q] EXCEPT !.done = x]]
           \/ log' = [log EXCEPT ![q] = [log[q] EXCEPT !.torn = x]]
           \/ log' = [log EXCEPT ![q] = [log[q] EXCEPT !.entries = x]]
    PROVE  SameBases
<1>1. CASE log' = [log EXCEPT ![q] = [log[q] EXCEPT !.sealed = x]]
  BY <1>1, FieldBase, OneLogBase
<1>2. CASE log' = [log EXCEPT ![q] = [log[q] EXCEPT !.done = x]]
  BY <1>2, FieldBase, OneLogBase
<1>3. CASE log' = [log EXCEPT ![q] = [log[q] EXCEPT !.torn = x]]
  BY <1>3, FieldBase, OneLogBase
<1>4. CASE log' = [log EXCEPT ![q] = [log[q] EXCEPT !.entries = x]]
  BY <1>4, FieldBase, OneLogBase
<1> QED
  BY <1>1, <1>2, <1>3, <1>4

LEMMA WriterSeq ==
    ASSUME TypeInv, NEW s \in Servers, srv[s].writer # NoWriter PROVE srv[s].writer \in Seqs
  BY SrvRec DEF ServerRecord

(* Only a new log gets a base: an old header is never rewritten.           *)
LEMMA BasesStep ==
    ASSUME TypeInv, [Next]_vars, \A s \in Servers : ~OpenWal(s) PROVE SameBases
<1>1. ASSUME UNCHANGED log PROVE SameBases
  BY <1>1 DEF SameBases
<1>2. ASSUME NEW s \in Servers, NEW m \in Muts, LogMutation(s, m) \/ AppendErr(s, m)
      PROVE  SameBases
  <2> DEFINE q == srv[s].writer
  <2>1. \/ UNCHANGED log
        \/ q # NoWriter /\ \E e : log' = [log EXCEPT ![q] = [log[q] EXCEPT !.entries = e]]
        \/ q # NoWriter /\ log' = [log EXCEPT ![q] = [log[q] EXCEPT !.torn = TRUE]]
    BY <1>2 DEF LogMutation, AppendErr
  <2> QED
    BY <1>1, <2>1, WriterSeq, FieldBases
<1>3. ASSUME NEW s \in Servers, Finalize(s) \/ FinalizeErr(s) PROVE SameBases
  <2> DEFINE q == srv[s].writer
  <2>1. \/ UNCHANGED log
        \/ q # NoWriter /\ log' = [log EXCEPT ![q] = [log[q] EXCEPT !.sealed = TRUE]]
    BY <1>3 DEF Finalize, FinalizeErr
  <2> QED
    BY <1>1, <2>1, WriterSeq, FieldBases
<1>4. ASSUME NEW s \in Servers, ListAndLockout(s) \/ ListErr(s) PROVE SameBases
  <2>1. \E Q : log' = Sealing(Q)
    BY <1>4 DEF ListAndLockout, ListErr
  <2> QED
    BY <2>1, FieldBase DEF Sealing, SameBases
<1>5. ASSUME NEW s \in Servers, MarkDone(s) PROVE SameBases
  <2>1. \E q \in Seqs : log' = [log EXCEPT ![q] = [log[q] EXCEPT !.done = TRUE]]
    BY <1>5 DEF MarkDone
  <2> QED
    BY <2>1, FieldBases
<1>6. ASSUME NEW s \in Servers, OpenErr(s) PROVE SameBases
  <2>1. PICK q \in Seqs : \/ UNCHANGED log
                          \/ log' = [log EXCEPT ![q].made = TRUE, ![q].owner = s]
    BY <1>6 DEF OpenErr
  <2> DEFINE l == [log[q] EXCEPT !.made = TRUE, !.owner = s]
  <2>2. l.base = log[q].base
    BY LogRec DEF LogRecord
  <2>3. UNCHANGED log \/ log' = [log EXCEPT ![q] = l]
    BY <2>1 DEF TypeInv, TypeOK
  <2> HIDE DEF l
  <2> QED
    BY <1>1, <2>2, <2>3, OneLogBase
<1>7. ASSUME NEW s \in Servers, CommitStep(s) PROVE SameBases
  <2>1. Replay(s) \/ LockForCommit(s) \/ Publish(s) \/ UploadPack(s) \/ Adopt(s) => UNCHANGED log
    BY DEF Replay, LockForCommit, Publish, UploadPack, Adopt
  <2> QED
    BY <1>1, <1>3, <1>4, <1>5, <1>7, <2>1 DEF CommitStep
<1>8. ASSUME NEW s \in Servers, FaultStep(s) PROVE SameBases
  <2>1. RecoverErr(s) \/ PublishErr(s) \/ UploadErr(s) \/ OutputErr(s) => UNCHANGED log
    BY DEF RecoverErr, PublishErr, UploadErr, OutputErr
  <2> QED
    BY <1>1, <1>3, <1>4, <1>6, <1>8, <2>1 DEF FaultStep
<1>9. ASSUME NEW s \in Servers,
             (\E m \in Muts : Stage(s, m)) \/ Boot(s) \/ Tick(s) \/ StopSignal(s) \/ Crash(s)
      PROVE  UNCHANGED log
  BY <1>9 DEF Stage, Boot, Tick, StopSignal, Crash
<1>10. CASE UNCHANGED vars
  BY <1>1, <1>10 DEF vars
<1> QED
  BY <1>1, <1>2, <1>7, <1>8, <1>9, <1>10 DEF Next

(* Only a replay builds a commit.                                          *)
LEMMA TreesStep ==
    ASSUME [Next]_vars, \A s \in Servers : ~Replay(s)
    PROVE  UNCHANGED <<tree, parent, ncommits>>
<1>1. ASSUME NEW s \in Servers, NEW m \in Muts,
             Stage(s, m) \/ LogMutation(s, m) \/ AppendErr(s, m)
      PROVE  UNCHANGED <<tree, parent, ncommits>>
  BY <1>1 DEF Stage, LogMutation, AppendErr, repoVars
<1>2. ASSUME NEW s \in Servers, Boot(s) \/ Tick(s) \/ StopSignal(s) \/ Crash(s)
      PROVE  UNCHANGED <<tree, parent, ncommits>>
  BY <1>2 DEF Boot, Tick, StopSignal, Crash, repoVars
<1>3. ASSUME NEW s \in Servers, CommitStep(s) PROVE UNCHANGED <<tree, parent, ncommits>>
  BY <1>3 DEF CommitStep, LockForCommit, Finalize, ListAndLockout, Publish, MarkDone, UploadPack,
              Adopt, OpenWal, repoVars
<1>4. ASSUME NEW s \in Servers, FaultStep(s) PROVE UNCHANGED <<tree, parent, ncommits>>
  BY <1>4 DEF FaultStep, FinalizeErr, ListErr, RecoverErr, PublishErr, UploadErr, OutputErr,
              OpenErr, repoVars
<1>5. CASE UNCHANGED vars
  BY <1>5 DEF vars
<1> QED
  BY <1>1, <1>2, <1>3, <1>4, <1>5 DEF Next

LEMMA SameTreesLineage ==
    ASSUME SafeSetting, TypeInv, DurabilityInv, LineageInv, [Next]_vars,
           UNCHANGED <<tree, parent, ncommits>>,
           \A q \in Seqs : log'[q].base # NoCommit =>
               log'[q].base = log[q].base \/ KeptByBranch(log'[q].base)
    PROVE  LineageInv'
<1>1. \A b, m : (tree'[b][m] > 0) <=> (tree[b][m] > 0)
  OBVIOUS
<1>2. \A m \in Muts : InTree(m, head) => InTree(m, head)'
  BY BranchStep
<1>3. \A b : KeptByBranch(b) => b <= ncommits' /\ \A m \in Muts : tree'[b][m] > 0 => InTree(m, head)'
  BY <1>1, <1>2 DEF KeptByBranch, InTree
<1>4. \A q \in Seqs : log'[q].base # NoCommit => KeptByBranch(log'[q].base)
  BY DEF LineageInv
<1>5. CommitKeepsParent'
  BY DEF LineageInv, CommitKeepsParent, InTree
<1> QED
  BY <1>3, <1>4, <1>5 DEF LineageInv, KeptByBranch, InTree

(* What the branch has is in the root or in a log that is replayed.        *)
LEMMA HeadReplayed ==
    ASSUME TypeInv, DurabilityInv, NEW s \in Servers, srv[s].pc = "replay", NEW m \in Muts,
           InTree(m, head)
    PROVE  InTree(m, srv[s].root) \/ \E q \in srv[s].todo : m \in log[q].entries
<1>1. TodoInv(s) /\ RootInv(s) /\ Running(srv[s])
  BY SrvInvOf DEF SrvInv, Running
<1>2. CASE srv[s].mode = "boot"
  BY <1>1, <1>2 DEF RootInv
<1>3. CASE srv[s].mode # "boot"
  <2> DEFINE n == srv[s].seq
  <2>1. InTree(m, srv[s].root) \/ (n \in Made /\ m \in log[n].entries)
    BY <1>1, <1>3 DEF RootInv
  <2>2. n \in Made /\ log[n].done => \A x \in log[n].entries : InTree(x, srv[s].root)
    BY <1>1, <1>3 DEF RootInv
  <2>3. n \in Made /\ ~log[n].done => n \in srv[s].todo
    BY <1>1 DEF TodoInv
  <2> QED
    BY <2>1, <2>2, <2>3
<1> QED
  BY <1>2, <1>3

(* Numbers of commits, old and new.                                        *)
LEMMA NewNumber ==
    ASSUME NEW n \in CommitIds, n < MaxCommits
    PROVE  /\ n + 1 \in CommitIds /\ n \in Nat
           /\ \A b \in CommitIds : b <= n => b # n + 1 /\ b <= n + 1 /\ b \in 1 .. (n + 1) - 1
           /\ \A d \in 2 .. n + 1 : d # n + 1 => d \in 2 .. n /\ d \in CommitIds /\ d <= n
           /\ \A d \in 2 .. n : \A p \in 1 .. d - 1 : p \in CommitIds /\ p <= n
  BY BoundAssumption DEF CommitIds

LEMMA ReplayLineage ==
    ASSUME SafeSetting, TypeInv, DurabilityInv, LineageInv, NEW s \in Servers, Replay(s)
    PROVE  LineageInv'
<1> DEFINE c == ncommits + 1
           r == srv[s]
<1>0. UNCHANGED <<log, head>> /\ srv[s].pc = "replay"
  BY DEF Replay
<1>1. CASE \A q \in r.todo : log[q].entries = {}
  <2>1. UNCHANGED <<tree, parent, ncommits>>
    BY <1>1 DEF Replay
  <2> QED
    BY <1>0, <2>1 DEF LineageInv, KeptByBranch, CommitKeepsParent, InTree
<1>2. CASE ~ \A q \in r.todo : log[q].entries = {}
  <2>1. PICK b \in CommitIds : IsReplayBase(r, b) /\ parent' = [parent EXCEPT ![c] = b]
    BY <1>2 DEF Replay
  <2>2. /\ tree' = [tree EXCEPT ![c] = [m \in Muts |-> tree[r.root][m] + Replayed(r, m)]]
        /\ ncommits < MaxCommits /\ ncommits' = c
    BY <1>2 DEF Replay
  <2>3. /\ c \in CommitIds /\ r.root \in CommitIds /\ r.root <= ncommits /\ r.todo \subseteq Seqs
        /\ head \in CommitIds /\ head # c /\ ncommits \in CommitIds
    <3>1. r.root \in CommitIds /\ r.todo \subseteq Seqs
      BY SrvRec DEF ServerRecord
    <3>2. head \in CommitIds /\ ncommits \in CommitIds
      BY DEF TypeInv, TypeOK, RepoOK
    <3>3. r.root <= ncommits /\ head <= ncommits
      BY DEF DurabilityInv, Built
    <3> QED
      BY <2>2, <3>1, <3>2, <3>3, NewNumber
  <2>4. \A m \in Muts : InTree(m, r.root) => InTree(m, head)
    BY <1>0, SrvInvOf DEF SrvInv, RootInv, Running
  <2>5. KeptByBranch(b)
    <3>1. b = r.root \/ \E q \in r.todo : log[q].base # NoCommit /\ b = log[q].base
      BY <2>1 DEF IsReplayBase
    <3> QED
      BY <2>3, <2>4, <3>1 DEF KeptByBranch, LineageInv
  <2>6. \A m \in Muts : tree'[c][m] = tree[r.root][m] + Replayed(r, m)
    BY <2>2, <2>3 DEF TypeInv, TypeOK, RepoOK
  <2>7. \A d \in CommitIds : d <= ncommits => tree'[d] = tree[d] /\ parent'[d] = parent[d]
    <3>1. \A d \in CommitIds : d <= ncommits => d # c
      BY <2>2, <2>3, NewNumber
    <3> HIDE DEF c, r
    <3> QED
      BY <2>1, <2>2, <3>1 DEF TypeInv, TypeOK, RepoOK
  <2>8. parent'[c] = b
    BY <2>1, <2>3 DEF TypeInv, TypeOK, RepoOK
  <2>9. ASSUME NEW m \in Muts, InTree(m, head) PROVE tree'[c][m] > 0
    <3>1. InTree(m, r.root) \/ \E q \in r.todo : m \in log[q].entries
      BY <1>0, <2>9, HeadReplayed
    <3>2. tree[r.root][m] \in Nat
      BY <2>3 DEF TypeInv, TypeOK, RepoOK
    <3>3. /\ Replayed(r, m) \in Nat
          /\ Replayed(r, m) > 0 <=> \E q \in r.todo : m \in log[q].entries
      BY <2>3, ReplayedNat
    <3>4. tree'[c][m] = tree[r.root][m] + Replayed(r, m)
      BY <2>6
    <3>5. tree[r.root][m] > 0 \/ Replayed(r, m) > 0
      BY <3>1, <3>3 DEF InTree
    <3> HIDE DEF c, r
    <3> QED
      BY <3>2, <3>3, <3>4, <3>5
  <2>10. \A m \in Muts : InTree(m, head)' <=> InTree(m, head)
    <3>1. head <= ncommits
      BY DEF DurabilityInv, Built
    <3> QED
      BY <1>0, <2>3, <2>7, <3>1 DEF InTree
  <2>11. ASSUME NEW q \in Seqs, log[q].base # NoCommit PROVE KeptByBranch(log[q].base)'
    <3>1. KeptByBranch(log[q].base)
      BY <2>11 DEF LineageInv
    <3>2. log[q].base \in CommitIds
      <4>1. log[q].base \in 0 .. MaxCommits
        BY LogRec DEF LogRecord
      <4> QED
        BY <2>11, <4>1, BoundAssumption DEF CommitIds, NoCommit
    <3>3. log[q].base <= ncommits
      BY <3>1 DEF KeptByBranch
    <3>4. log[q].base <= c
      BY <2>2, <3>2, <3>3, <2>3, NewNumber
    <3> HIDE DEF c
    <3> QED
      BY <1>0, <2>2, <2>7, <2>10, <3>1, <3>2, <3>3, <3>4 DEF KeptByBranch, InTree
  <2>12. \A d \in 2 .. c : parent'[d] \in 1 .. d - 1
    <3>1. b \in 1 .. c - 1
      BY <2>2, <2>5, <2>3, NewNumber DEF KeptByBranch
    <3>3. ASSUME NEW d \in 2 .. c, d # c PROVE parent'[d] \in 1 .. d - 1
      <4>1. d \in 2 .. ncommits /\ d \in CommitIds /\ d <= ncommits
        BY <2>2, <3>3, <2>3, NewNumber
      <4> QED
        BY <2>7, <4>1 DEF LineageInv
    <3> HIDE DEF c
    <3> QED
      BY <2>8, <3>1, <3>3
  <2>13. CommitKeepsParent'
    <3> SUFFICES ASSUME NEW d \in 2 .. c, NEW m \in Muts, tree'[parent'[d]][m] > 0
                 PROVE  tree'[d][m] > 0
      BY <2>2 DEF CommitKeepsParent, InTree
    <3>1. CASE d = c
      <4>1. b <= ncommits /\ (tree[b][m] > 0 => InTree(m, head))
        BY <2>5 DEF KeptByBranch, InTree
      <4>2. tree'[b] = tree[b]
        BY <2>7, <4>1
      <4>3. tree'[b][m] > 0
        BY <2>8, <3>1
      <4> QED
        BY <2>9, <3>1, <4>1, <4>2, <4>3
    <3>2. CASE d # c
      <4>1. d \in 2 .. ncommits /\ d \in CommitIds /\ d <= ncommits
        BY <2>2, <3>2, <2>3, NewNumber
      <4>2. parent[d] \in 1 .. d - 1
        BY <4>1 DEF LineageInv
      <4>3. parent[d] \in CommitIds /\ parent[d] <= ncommits
        BY <2>2, <4>1, <4>2, <2>3, NewNumber
      <4>4. tree'[d] = tree[d] /\ parent'[d] = parent[d] /\ tree'[parent[d]] = tree[parent[d]]
        BY <2>7, <4>1, <4>3
      <4>5. tree[parent[d]][m] > 0 => tree[d][m] > 0
        BY <4>1 DEF LineageInv, CommitKeepsParent, InTree
      <4> QED
        BY <4>4, <4>5
    <3> QED
      BY <3>1, <3>2
  <2> QED
    BY <1>0, <2>2, <2>11, <2>12, <2>13 DEF LineageInv
<1> QED
  BY <1>1, <1>2

LEMMA OpenLineage ==
    ASSUME SafeSetting, TypeInv, DurabilityInv, LineageInv, [Next]_vars,
           NEW s \in Servers, OpenWal(s)
    PROVE  LineageInv'
<1>0. log \in [Seqs -> LogRecord]
  BY DEF TypeInv, TypeOK
<1>1. PICK q \in Seqs : log' = [log EXCEPT ![q] = OpenedLog(s, q)]
  BY DEF OpenWal
<1>2. OpenedLog(s, q).base \in {log[q].base, srv[s].root}
  BY <1>0 DEF OpenedLog, LogRecord
<1>3. KeptByBranch(srv[s].root)
  <2>1. srv[s].root <= ncommits
    BY DEF DurabilityInv, Built
  <2>2. \A m \in Muts : InTree(m, srv[s].root) => InTree(m, head)
    BY OpenRoot DEF OpenWal
  <2> QED
    BY <2>1, <2>2 DEF KeptByBranch
<1>4. \A p \in Seqs : log'[p].base = log[p].base \/ log'[p].base = srv[s].root
  BY <1>0, <1>1, <1>2
<1>5. UNCHANGED <<tree, parent, ncommits>>
  BY DEF OpenWal, repoVars
<1> QED
  BY <1>3, <1>4, <1>5, SameTreesLineage

LEMMA NextLineageInv ==
    ASSUME SafeSetting, TypeInv, DurabilityInv, LineageInv, [Next]_vars PROVE LineageInv'
<1>1. CASE \E s \in Servers : Replay(s)
  BY <1>1, ReplayLineage
<1>2. CASE \E s \in Servers : OpenWal(s)
  BY <1>2, OpenLineage
<1>3. CASE \A s \in Servers : ~Replay(s) /\ ~OpenWal(s)
  BY <1>3, BasesStep, TreesStep, SameTreesLineage DEF SameBases
<1> QED
  BY <1>1, <1>2, <1>3

(* A commit's tree keeps everything its parent's has: the base a log's     *)
(* header names and the tree the log is replayed on belong together, also  *)
(* when a boot or a retry replays the logs of an earlier process.          *)
THEOREM CommitsKeepTheirParent == ASSUME SafeSetting PROVE Spec => []CommitKeepsParent
<1>1. Init => LineageInv
  BY DEF Init, LineageInv, NoLog, CommitKeepsParent
<1>2. TypeInv /\ DurabilityInv /\ LineageInv /\ [Next]_vars => LineageInv'
  BY NextLineageInv
<1>3. LineageInv => CommitKeepsParent
  BY DEF LineageInv
<1> QED
  BY <1>1, <1>2, <1>3, InitTypeInv, NextTypeInv, DurabilityCorrect, PTL DEF Spec

-----------------------------------------------------------------------------
(* Publication before the done marker, for every kind of failure.          *)

PublishedIn(q) == \E c \in published : \A m \in log[q].entries : InTree(m, c)

(* A log that is written is not done; the work list of a recovery is in    *)
(* the commit in hand, and once it is marked in a commit of the branch.    *)
PubRec(r) ==
    /\ r.writer # NoWriter => r.pc \in {"idle", "lockwait", "finalize"} /\ ~log[r.writer].done
    /\ r.pc \in {"replay", "publish", "mark", "upload"} => r.todo \subseteq Made
    /\ r.pc = "publish" => \A q \in r.todo : \A m \in log[q].entries : InTree(m, r.pend)
    /\ r.pc \in {"mark", "upload"} => \A q \in r.todo : PublishedIn(q)

PublicationInv ==
    /\ DoneLogsPublished
    /\ 1 \in published /\ \A c \in published : c <= ncommits
    /\ \A q \in Seqs : ~log[q].made => ~log[q].done
    /\ \A s \in Servers : PubRec(srv[s])

(* No step changes the tree of a commit that is built, or takes a commit   *)
(* back out of the branch's history.                                       *)
HistoryKept ==
    /\ \A c \in CommitIds : c <= ncommits => tree'[c] = tree[c]
    /\ published \subseteq published'
    /\ \A c \in published' : c <= ncommits'

LEMMA PublishedStep ==
    ASSUME [Next]_vars
    PROVE  published' = published \/ \E s \in Servers : /\ srv[s].pc = "publish"
                                                        /\ published' = published \cup {srv[s].pend}
<1>1. ASSUME NEW s \in Servers, NEW m \in Muts,
             Stage(s, m) \/ LogMutation(s, m) \/ AppendErr(s, m)
      PROVE  published' = published
  BY <1>1 DEF Stage, LogMutation, AppendErr, repoVars
<1>2. ASSUME NEW s \in Servers, Boot(s) \/ Tick(s) \/ StopSignal(s) \/ Crash(s)
      PROVE  published' = published
  BY <1>2 DEF Boot, Tick, StopSignal, Crash, repoVars
<1>3. ASSUME NEW s \in Servers, CommitStep(s), ~Publish(s) PROVE published' = published
  BY <1>3 DEF CommitStep, LockForCommit, Finalize, ListAndLockout, Replay, MarkDone, UploadPack,
              Adopt, OpenWal, repoVars
<1>4. ASSUME NEW s \in Servers, FaultStep(s), ~PublishErr(s) PROVE published' = published
  BY <1>4 DEF FaultStep, FinalizeErr, ListErr, RecoverErr, UploadErr, OutputErr,
              OpenErr, repoVars
<1>5. CASE UNCHANGED vars
  BY <1>5 DEF vars
<1>6. ASSUME NEW s \in Servers, Publish(s) \/ PublishErr(s)
      PROVE  srv[s].pc = "publish" /\ published' = published \cup {srv[s].pend}
  BY <1>6 DEF Publish, PublishErr, SetBranch
<1> QED
  BY <1>1, <1>2, <1>3, <1>4, <1>5, <1>6 DEF Next

LEMMA HistoryStep ==
    ASSUME TypeInv, Built, PublicationInv, [Next]_vars PROVE HistoryKept
<1>1. ncommits \in CommitIds
  BY DEF TypeInv, TypeOK, RepoOK
<1>2. \/ UNCHANGED <<tree, ncommits>>
      \/ /\ ncommits < MaxCommits /\ ncommits' = ncommits + 1
         /\ \E t : tree' = [tree EXCEPT ![ncommits + 1] = t]
  <2>1. ASSUME NEW s \in Servers, Replay(s)
        PROVE  \/ UNCHANGED <<tree, ncommits>>
               \/ /\ ncommits < MaxCommits /\ ncommits' = ncommits + 1
                  /\ \E t : tree' = [tree EXCEPT ![ncommits + 1] = t]
    BY <2>1 DEF Replay
  <2> QED
    BY <2>1, TreesStep
<1>3. \A c \in CommitIds : c <= ncommits => tree'[c] = tree[c] /\ c <= ncommits'
  <2>1. CASE UNCHANGED <<tree, ncommits>>
    BY <2>1
  <2>2. CASE ncommits < MaxCommits /\ ncommits' = ncommits + 1 /\ \E t : tree' = [tree EXCEPT ![ncommits + 1] = t]
    <3>1. PICK t : tree' = [tree EXCEPT ![ncommits + 1] = t]
      BY <2>2
    <3>2. \A c \in CommitIds : c <= ncommits => c # ncommits + 1 /\ c <= ncommits + 1
      BY <1>1, <2>2, NewNumber
    <3>3. tree \in [CommitIds -> [Muts -> Nat]]
      BY DEF TypeInv, TypeOK, RepoOK
    <3> QED
      BY <2>2, <3>1, <3>2, <3>3
  <2> QED
    BY <1>2, <2>1, <2>2
<1>4. \A c \in published' : c \in CommitIds /\ c <= ncommits
  <2>1. \A c \in published : c \in CommitIds /\ c <= ncommits
    BY DEF TypeInv, TypeOK, RepoOK, PublicationInv
  <2>2. \A s \in Servers : srv[s].pc = "publish" => srv[s].pend \in CommitIds /\ srv[s].pend <= ncommits
    BY PendCommit DEF Built
  <2> QED
    BY <2>1, <2>2, PublishedStep
<1>5. published \subseteq published'
  BY PublishedStep
<1> QED
  BY <1>3, <1>4, <1>5 DEF HistoryKept

(* What was published stays so, in a log that keeps its entries.           *)
LEMMA PublishedStays ==
    ASSUME TypeInv, PublicationInv, HistoryKept, NEW q, PublishedIn(q),
           log'[q].entries = log[q].entries
    PROVE  PublishedIn(q)'
<1>1. PICK c \in published : \A m \in log[q].entries : InTree(m, c)
  BY DEF PublishedIn
<1>2. c \in CommitIds /\ c <= ncommits
  BY DEF TypeInv, TypeOK, RepoOK, PublicationInv
<1>3. tree'[c] = tree[c] /\ c \in published'
  BY <1>2 DEF HistoryKept
<1> QED
  BY <1>1, <1>3 DEF PublishedIn, InTree

LEMMA OnePub ==
    ASSUME OneServer, NEW s \in Servers, TypeInv, PublicationInv, HistoryKept, SameLogs,
           PubRec(srv[s])'
    PROVE  PublicationInv'
<1>1. Made' = Made /\ \A q \in Seqs : log'[q].entries = log[q].entries /\ log'[q].done = log[q].done
  BY DEF SameLogs, Made
<1>2. DoneLogsPublished'
  <2>1. ASSUME NEW q \in Made, log[q].done PROVE PublishedIn(q)'
    BY <1>1, <2>1, PublishedStays DEF PublicationInv, DoneLogsPublished, PublishedIn, Made
  <2> QED
    BY <1>1, <2>1 DEF DoneLogsPublished, PublishedIn, Made
<1>3. \A t \in Servers : PubRec(srv[t])'
  BY DEF OneServer
<1> QED
  BY <1>2, <1>3 DEF PublicationInv, HistoryKept, SameLogs

(* A server that is not in a recovery and writes no log.                   *)
Quiet(x) == x.writer = NoWriter /\ x.pc \notin {"replay", "publish", "mark", "upload"}

LEMMA QuietPub ==
    ASSUME OneServer, NEW s \in Servers, TypeInv, PublicationInv, HistoryKept, SameLogs,
           Quiet(srv'[s])
    PROVE  PublicationInv'
<1>1. PubRec(srv[s])'
  BY DEF Quiet, PubRec
<1> QED
  BY <1>1, OnePub

LEMMA RecoveryWriter ==
    ASSUME PublicationInv, NEW s \in Servers, RecoveryStep(s), srv[s].pc # "finalize"
    PROVE  srv[s].writer = NoWriter /\ srv'[s].writer = NoWriter
<1>1. PubRec(srv[s])
  BY DEF PublicationInv
<1> QED
  BY <1>1 DEF PubRec, RecoveryStep, Serving, Stopped

LEMMA FinalizePub ==
    ASSUME OneServer, TypeInv, PublicationInv, HistoryKept, NEW s \in Servers,
           Finalize(s) \/ FinalizeErr(s)
    PROVE  PublicationInv'
<1> DEFINE r == [srv[s] EXCEPT !.writer = NoWriter]
<1>1. r \in ServerRecord /\ r.writer = NoWriter
  BY SrvRec DEF ServerRecord
<1>2. srv'[s] = [r EXCEPT !.pc = "list"] \/ srv'[s] = Failed(r)
  BY NewRecord DEF Finalize, FinalizeErr
<1> HIDE DEF r
<1>3. Quiet([r EXCEPT !.pc = "list"])
  BY <1>1 DEF ServerRecord, Quiet
<1>4. Quiet(Failed(r))
  BY <1>1, FailedServing, FailedPc DEF Serving, Stopped, Quiet
<1> QED
  BY <1>2, <1>3, <1>4, FinalizeFrame, QuietPub DEF Frame

LEMMA ListPub ==
    ASSUME OneServer, TypeInv, PublicationInv, HistoryKept, NEW s \in Servers,
           ListAndLockout(s) \/ ListErr(s)
    PROVE  PublicationInv'
<1>1. SameLogs
  <2>1. \E Q : log' = Sealing(Q)
    BY DEF ListAndLockout, ListErr
  <2> QED
    BY <2>1, SealingSame
<1>2. Made' = Made
  BY <1>1 DEF SameLogs, Made
<1>3. srv'[s].writer = NoWriter
  BY ListRecovery, RecoveryWriter DEF ListAndLockout, ListErr
<1> DEFINE T == {p \in Made : ~log[p].done}
           R(todo) == [srv[s] EXCEPT !.pc = "replay", !.todo = todo]
<1>4. \A todo : R(todo).pc = "replay" /\ R(todo).todo = todo
  BY SrvRec DEF ServerRecord
<1>5. Quiet(srv'[s]) \/ (srv'[s].pc = "replay" /\ srv'[s].todo \subseteq Made)
  <2>1. CASE ListAndLockout(s)
    <3>1. srv' = [srv EXCEPT ![s] = IF T = {} THEN AfterNone(srv[s]) ELSE R(T)]
      BY <2>1 DEF ListAndLockout
    <3>2. srv'[s] = AfterNone(srv[s]) \/ srv'[s] = R(T)
      BY <3>1, NewRecord
    <3>3. T \subseteq Made
      OBVIOUS
    <3>4. AfterNone(srv[s]).pc \in {"exit", "open"}
      BY AfterNoneType, SrvRec
    <3> HIDE DEF T, R
    <3> QED
      BY <1>3, <1>4, <3>2, <3>3, <3>4 DEF Quiet
  <2>2. CASE ListErr(s)
    <3>1. \E q \in Made : srv' = [srv EXCEPT ![s] = R(T)] \/ srv' = [srv EXCEPT ![s] = R({q} \cup T)]
      BY <2>2 DEF ListErr
    <3>2. T \subseteq Made /\ \A q \in Made : {q} \cup T \subseteq Made
      OBVIOUS
    <3> HIDE DEF T, R
    <3>3. \E todo : todo \subseteq Made /\ srv'[s] = R(todo)
      BY <3>1, <3>2, NewRecord
    <3> QED
      BY <1>4, <3>3
  <2> QED
    BY <2>1, <2>2
<1>6. CASE srv'[s].pc = "replay" /\ srv'[s].todo \subseteq Made
  <2>1. PubRec(srv[s])'
    BY <1>2, <1>3, <1>6 DEF PubRec
  <2> QED
    BY <1>1, <2>1, OnePub
<1> QED
  BY <1>1, <1>5, <1>6, QuietPub

LEMMA ReplayPub ==
    ASSUME OneServer, Repo = "gcs", TypeInv, PublicationInv, HistoryKept, NEW s \in Servers,
           Replay(s)
    PROVE  PublicationInv'
<1> DEFINE r == srv[s]
           c == ncommits + 1
<1>0. /\ r \in ServerRecord /\ r.pc = "replay" /\ UNCHANGED <<log, published>> /\ SameLogs
      /\ Made' = Made /\ r.todo \subseteq Made /\ srv'[s].writer = NoWriter
  <2>1. PubRec(r) /\ r.pc = "replay"
    BY DEF PublicationInv, Replay
  <2> QED
    BY <2>1, SrvRec, ReplayRecovery, RecoveryWriter DEF Replay, SameLogs, Made, PubRec
<1>1. CASE \A q \in r.todo : log[q].entries = {}
  <2>1. srv' = [srv EXCEPT ![s] = [r EXCEPT !.pc = "mark", !.pend = NoCommit]]
    BY <1>1 DEF Replay
  <2>2. srv'[s].pc = "mark" /\ srv'[s].todo = r.todo
    <3>1. srv'[s] = [r EXCEPT !.pc = "mark", !.pend = NoCommit]
      BY <2>1, NewRecord
    <3> QED
      BY <1>0, <3>1 DEF ServerRecord
  <2>3. \A q \in r.todo : PublishedIn(q)'
    BY <1>0, <1>1 DEF PublishedIn, PublicationInv
  <2>4. PubRec(srv[s])'
    BY <1>0, <2>2, <2>3 DEF PubRec
  <2> QED
    BY <1>0, <2>4, OnePub
<1>2. CASE ~ \A q \in r.todo : log[q].entries = {}
  <2>1. /\ tree' = [tree EXCEPT ![c] = [m \in Muts |-> tree[r.root][m] + Replayed(r, m)]]
        /\ ncommits < MaxCommits
        /\ srv' = [srv EXCEPT ![s] = [srv[s] EXCEPT !.pend = c, !.pc = "publish"]]
    BY <1>2 DEF Replay
  <2>2. srv'[s].pc = "publish" /\ srv'[s].todo = r.todo /\ srv'[s].pend = c
    <3> HIDE DEF c
    <3>1. srv'[s] = [r EXCEPT !.pend = c, !.pc = "publish"]
      BY <2>1, NewRecord
    <3> QED
      BY <1>0, <3>1 DEF ServerRecord
  <2>3. c \in CommitIds /\ r.root \in CommitIds /\ r.todo \subseteq Seqs
    <3>1. ncommits \in CommitIds
      BY DEF TypeInv, TypeOK, RepoOK
    <3> QED
      BY <1>0, <2>1, <3>1, NewNumber DEF ServerRecord
  <2>4. ASSUME NEW q \in r.todo, NEW m \in log[q].entries PROVE tree'[c][m] > 0
    <3>1. m \in Muts
      BY <2>3, EntriesMuts
    <3>2. tree[r.root][m] \in Nat
      BY <2>3, <3>1 DEF TypeInv, TypeOK, RepoOK
    <3>3. Replayed(r, m) \in Nat /\ Replayed(r, m) > 0
      BY <2>3, <3>1, ReplayedNat
    <3>4. tree'[c][m] = tree[r.root][m] + Replayed(r, m)
      BY <2>1, <2>3, <3>1 DEF TypeInv, TypeOK, RepoOK
    <3> HIDE DEF c, r
    <3> QED
      BY <3>2, <3>3, <3>4
  <2>5. PubRec(srv[s])'
    BY <1>0, <2>2, <2>4 DEF PubRec, InTree
  <2> QED
    BY <1>0, <2>5, OnePub
<1> QED
  BY <1>1, <1>2

LEMMA PublishPub ==
    ASSUME OneServer, TypeInv, PublicationInv, HistoryKept, NEW s \in Servers, Publish(s)
    PROVE  PublicationInv'
<1> DEFINE r == srv[s]
<1>1. r \in ServerRecord /\ r.pc = "publish" /\ PubRec(r)
  BY SrvRec DEF Publish, PublicationInv
<1>2. srv'[s].pc = "mark" /\ srv'[s].todo = r.todo /\ srv'[s].writer = NoWriter
  <2>1. srv'[s] = [r EXCEPT !.pc = "mark"]
    BY NewRecord DEF Publish
  <2> QED
    BY <1>1, <2>1 DEF ServerRecord, PubRec
<1>3. UNCHANGED <<log, tree>> /\ r.pend \in published' /\ SameLogs /\ Made' = Made
  BY DEF Publish, SetBranch, SameLogs, Made
<1>4. PubRec(srv[s])'
  BY <1>1, <1>2, <1>3 DEF PubRec, PublishedIn, InTree
<1> QED
  BY <1>3, <1>4, OnePub

(* The server ends the recovery, or the process stops.                     *)
LEMMA AbandonPub ==
    ASSUME OneServer, TypeInv, PublicationInv, HistoryKept, NEW s \in Servers,
           RecoverErr(s) \/ PublishErr(s) \/ UploadErr(s) \/ Adopt(s) \/ OutputErr(s)
    PROVE  PublicationInv'
<1>1. UNCHANGED log /\ srv[s].pc # "finalize" /\ RecoveryStep(s)
  BY PublishRecovery, AdoptRecovery DEF RecoverErr, PublishErr, UploadErr, Adopt, OutputErr
<1>2. srv'[s].pc \notin {"replay", "publish", "mark", "upload"}
  <2>1. CASE Adopt(s)
    BY <2>1, RecoveryPc
  <2>2. CASE OutputErr(s)
    <3>0. srv[s] \in ServerRecord
      BY SrvRec
    <3>1. PICK c \in {srv[s].root, srv[s].pend} :
              srv' = [srv EXCEPT ![s] = Failed([srv[s] EXCEPT !.root = c])]
      BY <2>2 DEF OutputErr
    <3>2. c \in CommitIds
      BY <3>0, <2>2, <3>1, PendCommit DEF ServerRecord, OutputErr
    <3>3. [srv[s] EXCEPT !.root = c] \in ServerRecord
      BY <3>0, <3>2 DEF ServerRecord
    <3> QED
      BY <3>1, <3>3, NewRecord, FailedPc
  <2>3. CASE RecoverErr(s) \/ PublishErr(s) \/ UploadErr(s)
    <3>1. srv'[s] = Failed(srv[s])
      BY <2>3, NewRecord DEF RecoverErr, PublishErr, UploadErr
    <3> QED
      BY <3>1, SrvRec, FailedPc
  <2> QED
    BY <2>1, <2>2, <2>3
<1> QED
  BY <1>1, <1>2, RecoveryWriter, QuietPub DEF Quiet, SameLogs

LEMMA MarkedPub ==
    ASSUME NEW r \in ServerRecord, NEW q
    PROVE  \/ Marked(r, q).pc \in {"adopt", "exit", "open"}
           \/ Marked(r, q).pc = "mark" /\ Marked(r, q).todo = r.todo \ {q}
<1> DEFINE left == [r EXCEPT !.todo = r.todo \ {q}]
<1>1. left \in ServerRecord /\ left.todo = r.todo \ {q}
  BY DEF ServerRecord
<1>2. Marked(r, q) \in {[left EXCEPT !.pc = "mark"], [left EXCEPT !.pc = "adopt"], AfterNone(left)}
  BY DEF Marked
<1> HIDE DEF left
<1> QED
  BY <1>1, <1>2, AfterNoneType DEF ServerRecord

LEMMA UploadPub ==
    ASSUME OneServer, TypeInv, PublicationInv, HistoryKept, NEW s \in Servers, UploadPack(s)
    PROVE  PublicationInv'
<1> DEFINE r == srv[s]
<1>1. /\ r \in ServerRecord /\ r.pc = "upload" /\ PubRec(r) /\ UNCHANGED log
      /\ SameLogs /\ Made' = Made
  BY SrvRec DEF UploadPack, PublicationInv, SameLogs, Made
<1>2. srv'[s].writer = NoWriter
  BY <1>1, MarkRecovery, RecoveryWriter
<1>3. \E q : srv'[s] = Marked(r, q)
  BY NewRecord DEF UploadPack
<1>4. Quiet(srv'[s]) \/ (srv'[s].pc = "mark" /\ srv'[s].todo \subseteq r.todo)
  BY <1>1, <1>2, <1>3, MarkedPub DEF Quiet
<1>5. CASE srv'[s].pc = "mark" /\ srv'[s].todo \subseteq r.todo
  <2>1. \A q \in r.todo : PublishedIn(q)'
    BY <1>1, PublishedStays DEF PubRec
  <2>2. PubRec(srv[s])'
    BY <1>1, <1>2, <1>5, <2>1 DEF PubRec
  <2> QED
    BY <1>1, <2>2, OnePub
<1> QED
  BY <1>1, <1>4, <1>5, QuietPub

(* The marker is written for a log that is published.                      *)
LEMMA MarkPub ==
    ASSUME OneServer, TypeInv, PublicationInv, HistoryKept, NEW s \in Servers, MarkDone(s)
    PROVE  PublicationInv'
<1> DEFINE r == srv[s]
<1>1. r \in ServerRecord /\ r.pc = "mark" /\ PubRec(r) /\ log \in [Seqs -> LogRecord]
  BY SrvRec DEF MarkDone, PublicationInv, TypeInv, TypeOK
<1>2. PICK q \in Seqs :
         /\ q \in r.todo /\ log' = [log EXCEPT ![q] = [log[q] EXCEPT !.done = TRUE]]
         /\ srv'[s] = [r EXCEPT !.pc = "upload"] \/ srv'[s] = Marked(r, q)
  BY NewRecord DEF MarkDone, IsNextTodo
<1>3. /\ [log[q] EXCEPT !.done = TRUE].made = log[q].made
      /\ [log[q] EXCEPT !.done = TRUE].entries = log[q].entries
  BY <1>1 DEF LogRecord
<1>4. /\ \A p \in Seqs : log'[p].made = log[p].made /\ log'[p].entries = log[p].entries
      /\ \A p \in Seqs : p # q => log'[p].done = log[p].done
      /\ Made' = Made /\ r.todo \subseteq Made /\ Made \subseteq Seqs
  BY <1>1, <1>2, <1>3 DEF Made, PubRec
<1>5. srv'[s].writer = NoWriter
  BY <1>1, MarkRecovery, RecoveryWriter
<1>6. \A p \in r.todo : PublishedIn(p)'
  BY <1>1, <1>4, PublishedStays DEF PubRec
<1>7. srv'[s].pc \in {"adopt", "exit", "open"} \/ (srv'[s].pc \in {"mark", "upload"} /\ srv'[s].todo \subseteq r.todo)
  <2>1. [r EXCEPT !.pc = "upload"].pc = "upload" /\ [r EXCEPT !.pc = "upload"].todo = r.todo
    BY <1>1 DEF ServerRecord
  <2>2. \/ Marked(r, q).pc \in {"adopt", "exit", "open"}
        \/ Marked(r, q).pc = "mark" /\ Marked(r, q).todo = r.todo \ {q}
    BY <1>1, MarkedPub
  <2>3. CASE srv'[s] = [r EXCEPT !.pc = "upload"]
    BY <2>1, <2>3
  <2>4. CASE srv'[s] = Marked(r, q)
    BY <2>2, <2>4
  <2> QED
    BY <1>2, <2>3, <2>4
<1>8. PubRec(srv[s])'
  BY <1>4, <1>5, <1>6, <1>7 DEF PubRec
<1>9. DoneLogsPublished'
  <2>1. ASSUME NEW p \in Made, log'[p].done PROVE PublishedIn(p)'
    <3>1. CASE p = q
      BY <1>2, <1>6, <3>1
    <3>2. CASE p # q
      BY <1>4, <2>1, <3>2, PublishedStays DEF PublicationInv, DoneLogsPublished, PublishedIn
    <3> QED
      BY <3>1, <3>2
  <2> QED
    BY <1>4, <2>1 DEF DoneLogsPublished, PublishedIn
<1>10. \A p \in Seqs : ~log'[p].made => ~log'[p].done
  BY <1>2, <1>4 DEF PublicationInv, Made
<1>11. \A t \in Servers : PubRec(srv[t])'
  BY <1>8 DEF OneServer
<1> QED
  BY <1>9, <1>10, <1>11 DEF PublicationInv, HistoryKept

(* A log is opened under a name that was never used, and is not done.      *)
LEMMA NewLogPub ==
    ASSUME OneServer, TypeInv, PublicationInv, HistoryKept, NEW s \in Servers, NEW q \in Seqs,
           q \notin Made, \A p \in Seqs : p # q => log'[p] = log[p],
           ~log'[q].done, PubRec(srv[s])'
    PROVE  PublicationInv'
<1>1. \A p \in Made' : log'[p].done => p \in Made /\ log'[p] = log[p]
  BY DEF Made
<1>2. DoneLogsPublished'
  <2>1. ASSUME NEW p \in Made', log'[p].done PROVE PublishedIn(p)'
    BY <1>1, <2>1, PublishedStays DEF PublicationInv, DoneLogsPublished, PublishedIn
  <2> QED
    BY <2>1 DEF DoneLogsPublished, PublishedIn
<1>3. \A p \in Seqs : ~log'[p].made => ~log'[p].done
  BY DEF PublicationInv
<1>4. \A t \in Servers : PubRec(srv[t])'
  BY DEF OneServer
<1> QED
  BY <1>2, <1>3, <1>4 DEF PublicationInv, HistoryKept

LEMMA OpenPub ==
    ASSUME OneServer, TypeInv, HandlerInv, PublicationInv, HistoryKept, NEW s \in Servers,
           OpenWal(s)
    PROVE  PublicationInv'
<1>0. log \in [Seqs -> LogRecord] /\ srv[s] \in ServerRecord /\ srv[s].pc = "open"
  BY SrvRec DEF TypeInv, TypeOK, OpenWal
<1>1. PICK q \in Seqs :
         /\ IsNextSeq(srv[s], q)
         /\ log' = [log EXCEPT ![q] = OpenedLog(s, q)]
         /\ srv' = [srv EXCEPT ![s] = [srv[s] EXCEPT !.pc = "idle", !.seq = q, !.writer = q,
                                       !.dirty = FALSE, !.mode = "auto"]]
  BY DEF OpenWal
<1>2. srv'[s].pc = "idle" /\ srv'[s].writer = q
  BY <1>0, <1>1 DEF ServerRecord, TypeInv, TypeOK
<1>3. q \notin Made /\ ~log[q].done
  BY <1>0, <1>1, NextSeqServe DEF PublicationInv, Made
<1>4. log'[q].done = log[q].done /\ \A p \in Seqs : p # q => log'[p] = log[p]
  BY <1>0, <1>1 DEF OpenedLog, LogRecord
<1>5. PubRec(srv[s])'
  BY <1>2, <1>3, <1>4 DEF PubRec
<1> QED
  BY <1>3, <1>4, <1>5, NewLogPub

LEMMA OpenErrPub ==
    ASSUME OneServer, TypeInv, HandlerInv, PublicationInv, HistoryKept, NEW s \in Servers,
           OpenErr(s)
    PROVE  PublicationInv'
<1>0. /\ log \in [Seqs -> LogRecord] /\ srv[s] \in ServerRecord /\ srv[s].pc = "open"
      /\ PubRec(srv[s])
  BY SrvRec DEF TypeInv, TypeOK, OpenErr, PublicationInv
<1>1. PICK q \in Seqs :
         /\ IsNextSeq(srv[s], q)
         /\ \/ UNCHANGED log
            \/ log' = [log EXCEPT ![q] = [log[q] EXCEPT !.made = TRUE, !.owner = s]]
         /\ srv' = [srv EXCEPT ![s] = Failed([srv[s] EXCEPT !.seq = q])]
  BY ZenonT(40) DEF OpenErr
<1>2. q \notin Made /\ ~log[q].done
  BY <1>0, <1>1, NextSeqServe DEF PublicationInv, Made
<1>3. [log[q] EXCEPT !.made = TRUE, !.owner = s].done = log[q].done
  BY <1>0 DEF LogRecord
<1>4. log'[q].done = log[q].done /\ \A p \in Seqs : p # q => log'[p] = log[p]
  BY <1>0, <1>1, <1>3
<1> DEFINE r == [srv[s] EXCEPT !.seq = q]
<1>5. r \in ServerRecord /\ r.writer = NoWriter
  BY <1>0 DEF ServerRecord, PubRec
<1> HIDE DEF r
<1>6. srv'[s] = Failed(r)
  BY <1>1, NewRecord DEF r
<1>7. srv'[s].writer = NoWriter /\ srv'[s].pc \in {"idle", "down"}
  BY <1>5, <1>6, FailedServing, FailedPc DEF Serving, Stopped
<1>8. PubRec(srv[s])'
  BY <1>7 DEF PubRec
<1> QED
  BY <1>2, <1>4, <1>8, NewLogPub

(* A log that is written is not done, so what it gains need not be         *)
(* published yet.                                                          *)
LEMMA LogPub ==
    ASSUME OneServer, TypeInv, HandlerInv, PublicationInv, HistoryKept,
           NEW s \in Servers, NEW m \in Muts, LogMutation(s, m) \/ AppendErr(s, m)
    PROVE  PublicationInv'
<1> DEFINE w == srv[s].writer
<1>0. /\ log \in [Seqs -> LogRecord] /\ srv[s] \in ServerRecord /\ PubRec(srv[s]) /\ srv' = srv
      /\ srv[s].pc \in {"idle", "lockwait"}
  BY SrvRec DEF TypeInv, TypeOK, LogMutation, AppendErr, PublicationInv, HandlerInv, ServeInv
<1>1. \/ UNCHANGED log
      \/ w # NoWriter /\ \E e : log' = [log EXCEPT ![w] = [log[w] EXCEPT !.entries = e]]
      \/ w # NoWriter /\ log' = [log EXCEPT ![w] = [log[w] EXCEPT !.torn = TRUE]]
  BY DEF LogMutation, AppendErr
<1>2. w # NoWriter => w \in Seqs /\ w \in Made /\ ~log[w].done /\ log[w] \in LogRecord
  BY <1>0, WriterSeq DEF PubRec, HandlerInv, ServeInv
<1>3. \A p \in Seqs : log'[p].made = log[p].made /\ log'[p].done = log[p].done
  <2> HIDE DEF w
  <2>1. w # NoWriter => /\ \A e : /\ [log[w] EXCEPT !.entries = e].made = log[w].made
                                  /\ [log[w] EXCEPT !.entries = e].done = log[w].done
                        /\ [log[w] EXCEPT !.torn = TRUE].made = log[w].made
                        /\ [log[w] EXCEPT !.torn = TRUE].done = log[w].done
    BY <1>2 DEF LogRecord
  <2>2. \/ UNCHANGED log
        \/ /\ w \in Seqs
           /\ \E x : log' = [log EXCEPT ![w] = x] /\ x.made = log[w].made /\ x.done = log[w].done
    BY <1>1, <1>2, <2>1
  <2> QED
    BY <1>0, <2>2
<1>4. \A p \in Seqs : log[p].done => log'[p] = log[p]
  <2> HIDE DEF w
  <2> QED
    BY <1>0, <1>1, <1>2
<1>5. Made' = Made
  BY <1>3 DEF Made
<1>6. DoneLogsPublished'
  <2>1. ASSUME NEW p \in Made, log[p].done PROVE PublishedIn(p)'
    BY <1>4, <2>1, PublishedStays DEF PublicationInv, DoneLogsPublished, PublishedIn, Made
  <2> QED
    BY <1>3, <1>5, <2>1 DEF DoneLogsPublished, PublishedIn, Made
<1>7. PubRec(srv[s])'
  BY <1>0, <1>2, <1>3 DEF PubRec
<1>8. \A t \in Servers : PubRec(srv[t])'
  BY <1>7 DEF OneServer
<1> QED
  BY <1>3, <1>6, <1>8 DEF PublicationInv, HistoryKept

(* Steps that touch neither logs nor repository.                           *)
LEMMA ServePub ==
    ASSUME OneServer, TypeInv, PublicationInv, HistoryKept, NEW s \in Servers,
           \/ \E m \in Muts : Stage(s, m)
           \/ Tick(s) \/ StopSignal(s) \/ LockForCommit(s)
    PROVE  PublicationInv'
<1>0. srv[s] \in ServerRecord /\ PubRec(srv[s]) /\ srv \in [Servers -> ServerRecord]
  BY SrvRec DEF PublicationInv, TypeInv, TypeOK
<1>1. UNCHANGED log /\ SameLogs /\ Made' = Made
  BY DEF Stage, Tick, StopSignal, LockForCommit, SameLogs, Made
<1>2. srv'[s].pc \in {"idle", "lockwait", "finalize"}
  BY ServingPc
<1>3. srv'[s].writer = srv[s].writer /\ srv[s].pc \in {"idle", "lockwait"}
  <2>1. CASE \E m \in Muts : Stage(s, m)
    BY <1>0, <2>1 DEF Stage, ServerRecord
  <2>2. CASE Tick(s) \/ StopSignal(s)
    BY <1>0, <2>2 DEF Tick, StopSignal, ServerRecord
  <2>3. CASE LockForCommit(s)
    BY <1>0, <2>3 DEF LockForCommit, ServerRecord
  <2> QED
    BY <2>1, <2>2, <2>3
<1>4. PubRec(srv[s])'
  BY <1>0, <1>1, <1>2, <1>3 DEF PubRec
<1> QED
  BY <1>1, <1>4, OnePub

LEMMA BootPub ==
    ASSUME OneServer, TypeInv, PublicationInv, HistoryKept, NEW s \in Servers, Boot(s) \/ Crash(s)
    PROVE  PublicationInv'
<1>1. SameLogs
  BY DEF Boot, Crash, SameLogs
<1>2. Quiet(srv'[s])
  <2> DEFINE r == [Down EXCEPT !.pc = "list", !.root = IF Repo = "gcs" THEN head ELSE 1]
  <2>1. Quiet(r) /\ Quiet(Down)
    BY DEF Down, Quiet
  <2>2. srv' = [srv EXCEPT ![s] = r] \/ srv' = [srv EXCEPT ![s] = Down]
    BY DEF Boot, Crash
  <2> HIDE DEF r
  <2>3. srv'[s] = r \/ srv'[s] = Down
    BY <2>2, NewRecord
  <2> QED
    BY <2>1, <2>3
<1> QED
  BY <1>1, <1>2, QuietPub

LEMMA NextPublicationInv ==
    ASSUME OneServer, Repo = "gcs", TypeInv, Built, HandlerInv, PublicationInv, [Next]_vars
    PROVE  PublicationInv'
<1>0. HistoryKept
  BY HistoryStep
<1>1. ASSUME NEW s \in Servers, CommitStep(s) PROVE PublicationInv'
  BY <1>0, <1>1, ServePub, FinalizePub, ListPub, ReplayPub, PublishPub, MarkPub, UploadPub,
     AbandonPub, OpenPub DEF CommitStep
<1>2. ASSUME NEW s \in Servers, FaultStep(s) PROVE PublicationInv'
  BY <1>0, <1>2, FinalizePub, ListPub, AbandonPub, OpenErrPub DEF FaultStep
<1>3. CASE UNCHANGED vars
  BY <1>3 DEF vars, PublicationInv, DoneLogsPublished, PubRec, PublishedIn, InTree, Made
<1>4. CASE Next
  <2>1. PICK s \in Servers :
           \/ \E m \in Muts : Stage(s, m) \/ LogMutation(s, m) \/ AppendErr(s, m)
           \/ Boot(s) \/ Tick(s) \/ StopSignal(s) \/ Crash(s)
           \/ CommitStep(s) \/ FaultStep(s)
    BY <1>4 DEF Next
  <2> QED
    BY <1>0, <1>1, <1>2, <2>1, ServePub, LogPub, BootPub
<1> QED
  BY <1>3, <1>4

(* A log is marked done only after its commit is published, whatever fails *)
(* on the way: with one server and a GCS repository, everything a done log *)
(* holds is in one commit the branch has named, under every I/O failure of *)
(* the model, the ones after which a mutation may be lost included.        *)
THEOREM DoneAfterPublication ==
    ASSUME OneServer, Repo = "gcs" PROVE Spec => []DoneLogsPublished
<1>1. Init => HandlerInv /\ PublicationInv /\ Built
  <2> SUFFICES ASSUME Init PROVE HandlerInv /\ PublicationInv /\ Built
    OBVIOUS
  <2>1. ASSUME NEW s \in Servers PROVE srv[s] = Down
    BY DEF Init
  <2>2. Made = {}
    BY DEF Init, Made, NoLog
  <2>3. HandlerInv
    BY <2>1 DEF Init, HandlerInv, ServeInv, Down, NoLog, Running
  <2>4. PublicationInv
    BY <2>1, <2>2 DEF Init, PublicationInv, DoneLogsPublished, PubRec, Down, NoLog
  <2> QED
    BY <2>1, <2>3, <2>4 DEF Init, Built, Down, NoCommit
<1>2. TypeInv /\ Built /\ HandlerInv /\ PublicationInv /\ [Next]_vars => HandlerInv' /\ PublicationInv'
  BY NextHandlerInv, NextPublicationInv
<1>3. PublicationInv => DoneLogsPublished
  BY DEF PublicationInv
<1> QED
  BY <1>1, <1>2, <1>3, NextBuilt, InitTypeInv, NextTypeInv, PTL DEF Spec
=============================================================================
