-------------------------- MODULE WalCommitProofs --------------------------
(***************************************************************************)
(* Theorems about WalCommit for every set of servers and mutations and     *)
(* every value of the bounds.                                              *)
(***************************************************************************)
EXTENDS WalProperties, FiniteSetTheorems, TLAPS

(* Sequence numbers form a finite set, so counting logs gives a number.    *)
LEMMA ReplayedNat ==
    ASSUME NEW r, r.todo \subseteq Seqs, NEW m
    PROVE  /\ Replayed(r, m) \in Nat
           /\ Replayed(r, m) > 0 <=> \E q \in r.todo : m \in log[q].entries
<1> DEFINE S == {q \in r.todo : m \in log[q].entries}
<1>1. IsFiniteSet(S)
  <2>1. IsFiniteSet(Seqs)
    BY BoundAssumption, FS_Interval, 0 \in Int, MaxSeq \in Int DEF Seqs
  <2> QED
    BY <2>1, FS_Subset, S \subseteq Seqs
<1>2. Cardinality(S) \in Nat
  BY <1>1, FS_CardinalityType
<1>3. Cardinality(S) = 0 <=> S = {}
  BY <1>1, FS_EmptySet
<1> QED
  BY <1>2, <1>3 DEF Replayed

-----------------------------------------------------------------------------
(* A step that uses the commit of a recovery is reached only when there is *)
(* one.                                                                    *)
PendWhenUsed ==
    \A s \in Servers : srv[s].pc \in {"publish", "upload", "adopt"} => srv[s].pend # NoCommit

TypeInv == TypeOK /\ PendWhenUsed

USE DEF CommitIds, NoCommit, NoWriter

LEMMA Zero == 0 \in 0 .. MaxCommits /\ 0 \in Seqs /\ 1 \in CommitIds
  BY BoundAssumption DEF Seqs

LEMMA DownType == Down \in ServerRecord
  BY Zero DEF Down, ServerRecord, Pcs

LEMMA ExitType == [Down EXCEPT !.pc = "exit"] \in ServerRecord
  BY Zero DEF Down, ServerRecord, Pcs

LEMMA FailedType ==
    ASSUME NEW r \in ServerRecord
    PROVE  /\ Failed(r) \in ServerRecord
           /\ Failed(r).pc \in {"idle", "down"}
<1>1. CASE r.mode = "auto"
  BY <1>1, Zero DEF Failed, ServerRecord, Pcs
<1>2. CASE r.mode # "auto"
  BY <1>2, DownType DEF Failed, Down
<1> QED
  BY <1>1, <1>2

LEMMA AfterNoneType ==
    ASSUME NEW r \in ServerRecord
    PROVE  /\ AfterNone(r) \in ServerRecord
           /\ AfterNone(r).pc \in {"exit", "open"}
<1>1. CASE r.mode = "shutdown"
  BY <1>1, ExitType DEF AfterNone, Down
<1>2. CASE r.mode # "shutdown"
  BY <1>2 DEF AfterNone, ServerRecord, Pcs
<1> QED
  BY <1>1, <1>2

LEMMA MarkedType ==
    ASSUME NEW r \in ServerRecord, NEW q
    PROVE  /\ Marked(r, q) \in ServerRecord
           /\ Marked(r, q).pc \notin {"publish", "upload"}
           /\ Marked(r, q).pc = "adopt" => Marked(r, q).pend # NoCommit
<1> DEFINE left == [r EXCEPT !.todo = r.todo \ {q}]
<1>1. left \in ServerRecord /\ left.pend = r.pend
  BY DEF ServerRecord
<1>2. CASE left.todo # {}
  BY <1>1, <1>2 DEF Marked, ServerRecord, Pcs
<1>3. CASE left.todo = {} /\ r.pend # NoCommit
  BY <1>1, <1>3 DEF Marked, ServerRecord, Pcs
<1>4. CASE left.todo = {} /\ r.pend = NoCommit
  BY <1>1, <1>4, AfterNoneType DEF Marked
<1> QED
  BY <1>2, <1>3, <1>4

LEMMA InitTypeInv == Init => TypeInv
<1> SUFFICES ASSUME Init PROVE TypeInv
  OBVIOUS
<1>1. PICK s0 \in Servers : s0 = CHOOSE s \in Servers : TRUE
  BY ServerAssumption
<1>2. NoLog \in LogRecord
  BY <1>1, Zero DEF NoLog, LogRecord
<1>3. TypeOK
  BY <1>1, <1>2, DownType, Zero DEF Init, TypeOK, RepoOK, OpsOK, RestOK
<1>4. PendWhenUsed
  BY DEF Init, PendWhenUsed, Down
<1> QED
  BY <1>3, <1>4 DEF TypeInv

LEMMA SrvRec == ASSUME TypeInv, NEW s \in Servers PROVE srv[s] \in ServerRecord
  BY DEF TypeInv, TypeOK

LEMMA LogRec == ASSUME TypeInv, NEW q \in Seqs PROVE log[q] \in LogRecord
  BY DEF TypeInv, TypeOK

LEMMA SealRec == ASSUME NEW l \in LogRecord PROVE [l EXCEPT !.sealed = TRUE] \in LogRecord
  BY DEF LogRecord

LEMMA SealingType == ASSUME TypeInv, NEW Q PROVE Sealing(Q) \in [Seqs -> LogRecord]
  BY LogRec, SealRec DEF Sealing

(* The parts of the type invariant that an action leaves alone.            *)
LEMMA SameRepo == RepoOK /\ UNCHANGED repoVars => RepoOK'
  BY DEF RepoOK, repoVars

LEMMA SameOps == OpsOK /\ UNCHANGED opVars => OpsOK'
  BY DEF OpsOK, opVars

LEMMA SameRest == RestOK /\ UNCHANGED <<saved, countVars, zombies>> => RestOK'
  BY DEF RestOK, countVars

LEMMA FaultRest == RestOK /\ faults' = faults + 1 /\ UNCHANGED <<saved, crashes, zombies>> => RestOK'
  BY DEF RestOK

(* The record of one server changes to a well-typed one.                   *)
GoodRec(r) == /\ r \in ServerRecord
              /\ r.pc \in {"publish", "upload", "adopt"} => r.pend # NoCommit

LEMMA SrvUpdate ==
    ASSUME TypeInv, NEW s \in Servers, NEW r, GoodRec(r), srv' = [srv EXCEPT ![s] = r],
           log' \in [Seqs -> LogRecord], RepoOK', OpsOK', RestOK'
    PROVE  TypeInv'
  BY DEF TypeInv, TypeOK, PendWhenUsed, GoodRec

LEMMA FailedGood == ASSUME NEW r \in ServerRecord PROVE GoodRec(Failed(r))
  BY FailedType DEF GoodRec

LEMMA MarkedGood == ASSUME NEW r \in ServerRecord, NEW q PROVE GoodRec(Marked(r, q))
  BY MarkedType DEF GoodRec

LEMMA PendCommit ==
    ASSUME TypeInv, NEW s \in Servers, srv[s].pc \in {"publish", "upload", "adopt"}
    PROVE  srv[s].pend \in CommitIds
  BY SrvRec DEF ServerRecord, TypeInv, PendWhenUsed

LEMMA NextTypeInv == TypeInv /\ [Next]_vars => TypeInv'
<1> SUFFICES ASSUME TypeInv, [Next]_vars PROVE TypeInv'
  OBVIOUS
<1>0. /\ log \in [Seqs -> LogRecord] /\ srv \in [Servers -> ServerRecord]
      /\ RepoOK /\ OpsOK /\ RestOK
  BY DEF TypeInv, TypeOK
<1>1. ASSUME NEW s \in Servers, NEW m \in Muts, Stage(s, m) PROVE TypeInv'
  <2> DEFINE r == [srv[s] EXCEPT !.dirty = TRUE]
  <2>1. srv' = [srv EXCEPT ![s] = r]
    BY <1>1 DEF Stage
  <2>2. GoodRec(r)
    BY <1>1, SrvRec DEF Stage, GoodRec, ServerRecord
  <2>3. OpsOK'
    BY <1>0, <1>1 DEF Stage, OpsOK
  <2> QED
    BY <1>0, <1>1, <2>1, <2>2, <2>3, SrvUpdate, SameRepo, SameRest DEF Stage
<1>2. ASSUME NEW s \in Servers, NEW m \in Muts, LogMutation(s, m) PROVE TypeInv'
  <2> DEFINE q == srv[s].writer
             l == [log[q] EXCEPT !.entries = IF log[q].torn THEN @ ELSE @ \cup {m}]
  <2>1. q # NoWriter => q \in Seqs
    BY SrvRec DEF ServerRecord
  <2>2. log[q] \in LogRecord => l \in LogRecord
    BY DEF LogRecord
  <2>3. UNCHANGED log \/ (q # NoWriter /\ log' = [log EXCEPT ![q] = l])
    BY <1>2 DEF LogMutation
  <2>4. log' \in [Seqs -> LogRecord]
    BY <1>0, <2>1, <2>2, <2>3
  <2>5. OpsOK'
    BY <1>0, <1>2 DEF LogMutation, OpsOK
  <2>6. RepoOK' /\ RestOK' /\ UNCHANGED srv
    BY <1>0, <1>2, SameRepo, SameRest DEF LogMutation
  <2> QED
    BY <2>4, <2>5, <2>6 DEF TypeInv, TypeOK, PendWhenUsed
<1>3. ASSUME NEW s \in Servers, NEW m \in Muts, AppendErr(s, m) PROVE TypeInv'
  <2> DEFINE q == srv[s].writer
             l == [log[q] EXCEPT !.torn = TRUE]
  <2>1. q \in Seqs
    BY <1>3, SrvRec DEF AppendErr, ServerRecord
  <2>2. log[q] \in LogRecord => l \in LogRecord
    BY DEF LogRecord
  <2>3. log' = [log EXCEPT ![q] = l]
    BY <1>3 DEF AppendErr
  <2>4. log' \in [Seqs -> LogRecord]
    BY <1>0, <2>1, <2>2, <2>3
  <2>5. OpsOK'
    BY <1>0, <1>3 DEF AppendErr, OpsOK
  <2>6. RepoOK' /\ RestOK' /\ UNCHANGED srv
    BY <1>0, <1>3, SameRepo, FaultRest DEF AppendErr, Fault
  <2> QED
    BY <2>4, <2>5, <2>6 DEF TypeInv, TypeOK, PendWhenUsed
<1>4. ASSUME NEW s \in Servers, Boot(s) PROVE TypeInv'
  <2> DEFINE r == [Down EXCEPT !.pc = "list", !.root = IF Repo = "gcs" THEN head ELSE 1]
  <2>1. srv' = [srv EXCEPT ![s] = r]
    BY <1>4 DEF Boot
  <2>2. GoodRec(r)
    BY <1>0, Zero DEF RepoOK, GoodRec, Down, ServerRecord, Pcs
  <2>3. RestOK'
    BY <1>0, <1>4 DEF Boot, RestOK, countVars
  <2> QED
    BY <1>0, <1>4, <2>1, <2>2, <2>3, SrvUpdate, SameRepo, SameOps DEF Boot
<1>5. ASSUME NEW s \in Servers, Tick(s) PROVE TypeInv'
  <2> DEFINE r == [srv[s] EXCEPT !.pc = "lockwait", !.mode = "auto"]
  <2>1. srv' = [srv EXCEPT ![s] = r]
    BY <1>5 DEF Tick
  <2>2. GoodRec(r)
    BY SrvRec DEF GoodRec, ServerRecord, Pcs
  <2> QED
    BY <1>0, <1>5, <2>1, <2>2, SrvUpdate, SameRepo, SameOps, SameRest DEF Tick
<1>6. ASSUME NEW s \in Servers, StopSignal(s) PROVE TypeInv'
  <2> DEFINE r == [srv[s] EXCEPT !.pc = "lockwait", !.mode = "shutdown"]
  <2>1. srv' = [srv EXCEPT ![s] = r]
    BY <1>6 DEF StopSignal
  <2>2. GoodRec(r)
    BY SrvRec DEF GoodRec, ServerRecord, Pcs
  <2> QED
    BY <1>0, <1>6, <2>1, <2>2, SrvUpdate, SameRepo, SameOps, SameRest DEF StopSignal
<1>7. ASSUME NEW s \in Servers, Crash(s) PROVE TypeInv'
  <2>1. GoodRec(Down)
    BY DownType DEF GoodRec, Down
  <2>2. OpsOK'
    BY <1>0, <1>7 DEF Crash, OpsOK
  <2>3. RestOK'
    BY <1>0, <1>7 DEF Crash, RestOK
  <2> QED
    BY <1>0, <1>7, <2>1, <2>2, <2>3, SrvUpdate, SameRepo DEF Crash
<1>8. ASSUME NEW s \in Servers, LockForCommit(s) PROVE TypeInv'
  <2> DEFINE r == [srv[s] EXCEPT !.pc = IF srv[s].mode = "auto" /\ ~srv[s].dirty
                                    THEN "idle" ELSE "finalize"]
  <2>1. srv' = [srv EXCEPT ![s] = r]
    BY <1>8 DEF LockForCommit
  <2>2. GoodRec(r)
    BY SrvRec DEF GoodRec, ServerRecord, Pcs
  <2> QED
    BY <1>0, <1>8, <2>1, <2>2, SrvUpdate, SameRepo, SameOps, SameRest DEF LockForCommit
<1>9. ASSUME NEW s \in Servers, Finalize(s) PROVE TypeInv'
  <2> DEFINE q == srv[s].writer
             w == [srv[s] EXCEPT !.writer = NoWriter]
             r == IF q = NoWriter \/ Accepts(s, q) THEN [w EXCEPT !.pc = "list"] ELSE Failed(w)
  <2>1. srv' = [srv EXCEPT ![s] = r]
    BY <1>9 DEF Finalize
  <2>2. w \in ServerRecord
    BY SrvRec DEF ServerRecord
  <2>3. GoodRec([w EXCEPT !.pc = "list"])
    BY <2>2 DEF GoodRec, ServerRecord, Pcs
  <2>4. GoodRec(r)
    BY <2>2, <2>3, FailedGood
  <2>5. q # NoWriter => q \in Seqs
    BY SrvRec DEF ServerRecord
  <2>6. \/ UNCHANGED log
        \/ q # NoWriter /\ log' = [log EXCEPT ![q] = [log[q] EXCEPT !.sealed = TRUE]]
    BY <1>9 DEF Finalize
  <2>7. log' \in [Seqs -> LogRecord]
    BY <1>0, <2>5, <2>6, LogRec, SealRec
  <2> QED
    BY <1>0, <1>9, <2>1, <2>4, <2>7, SrvUpdate, SameRepo, SameOps, SameRest DEF Finalize
<1>10. ASSUME NEW s \in Servers, ListAndLockout(s) PROVE TypeInv'
  <2> DEFINE todo == {q \in Made : ~log[q].done}
             go == [srv[s] EXCEPT !.pc = "replay", !.todo = todo]
             r == IF todo = {} THEN AfterNone(srv[s]) ELSE go
  <2>1. srv' = [srv EXCEPT ![s] = r]
    BY <1>10 DEF ListAndLockout
  <2>2. go \in ServerRecord /\ go.pc = "replay"
    BY SrvRec DEF ServerRecord, Pcs, Made
  <2>3. GoodRec(r)
    BY <2>2, SrvRec, AfterNoneType DEF GoodRec
  <2>4. log' \in [Seqs -> LogRecord]
    BY <1>10, SealingType DEF ListAndLockout
  <2>5. RestOK'
    BY <1>0, <1>10 DEF ListAndLockout, LockedOut, RestOK, countVars
  <2> QED
    BY <1>0, <1>10, <2>1, <2>3, <2>4, <2>5, SrvUpdate, SameRepo, SameOps DEF ListAndLockout
<1>11. ASSUME NEW s \in Servers, Replay(s) PROVE TypeInv'
  <2>1. CASE \A q \in srv[s].todo : log[q].entries = {}
    <3> DEFINE r == [srv[s] EXCEPT !.pc = "mark", !.pend = NoCommit]
    <3>1. srv' = [srv EXCEPT ![s] = r]
      BY <1>11, <2>1 DEF Replay
    <3>2. GoodRec(r)
      BY SrvRec, Zero DEF GoodRec, ServerRecord, Pcs
    <3>3. UNCHANGED repoVars
      BY <1>11, <2>1 DEF Replay, repoVars
    <3> QED
      BY <1>0, <1>11, <3>1, <3>2, <3>3, SrvUpdate, SameRepo, SameOps, SameRest DEF Replay
  <2>2. CASE ~(\A q \in srv[s].todo : log[q].entries = {})
    <3> DEFINE c == ncommits + 1
               t == [m \in Muts |-> tree[srv[s].root][m] + Replayed(srv[s], m)]
               r == [srv[s] EXCEPT !.pend = c, !.pc = IF Repo = "gcs" THEN "publish" ELSE "mark"]
    <3>1. /\ ncommits < MaxCommits
          /\ ncommits' = c
          /\ srv' = [srv EXCEPT ![s] = r]
          /\ tree' = [tree EXCEPT ![c] = t]
      BY <1>11, <2>2 DEF Replay
    <3>2. c \in CommitIds /\ c \in 0 .. MaxCommits /\ c # 0
      BY <1>0, <3>1, BoundAssumption DEF RepoOK
    <3>3. PICK b \in CommitIds : parent' = [parent EXCEPT ![c] = b]
      BY <1>11, <2>2, <3>1 DEF Replay
    <3>4. r \in ServerRecord
      <4> HIDE DEF c
      <4> QED
        BY <3>2, SrvRec DEF ServerRecord, Pcs
    <3>5. r.pend = c
      BY SrvRec DEF ServerRecord
    <3>6. GoodRec(r)
      BY <3>2, <3>4, <3>5 DEF GoodRec
    <3>7. t \in [Muts -> Nat]
      <4>1. srv[s].todo \subseteq Seqs /\ srv[s].root \in CommitIds
        BY SrvRec DEF ServerRecord
      <4>2. \A m \in Muts : Replayed(srv[s], m) \in Nat
        BY <4>1, ReplayedNat
      <4>3. \A m \in Muts : tree[srv[s].root][m] \in Nat
        BY <1>0, <4>1 DEF RepoOK
      <4> QED
        BY <4>2, <4>3
    <3>8. RepoOK'
      <4> HIDE DEF c, t
      <4> QED
        BY <1>0, <1>11, <3>1, <3>2, <3>3, <3>7 DEF RepoOK, Replay
    <3> QED
      BY <1>0, <1>11, <3>1, <3>6, <3>8, SrvUpdate, SameOps, SameRest DEF Replay
  <2> QED
    BY <2>1, <2>2
<1>12. ASSUME NEW s \in Servers, Publish(s) PROVE TypeInv'
  <2> DEFINE r == [srv[s] EXCEPT !.pc = "mark"]
  <2>1. srv' = [srv EXCEPT ![s] = r]
    BY <1>12 DEF Publish
  <2>2. GoodRec(r)
    BY SrvRec DEF GoodRec, ServerRecord, Pcs
  <2>3. RepoOK'
    BY <1>0, <1>12, PendCommit DEF Publish, SetBranch, RepoOK
  <2> QED
    BY <1>0, <1>12, <2>1, <2>2, <2>3, SrvUpdate, SameOps, SameRest DEF Publish
<1>13. ASSUME NEW s \in Servers, MarkDone(s) PROVE TypeInv'
  <2>1. PICK q \in Seqs :
           /\ log' = [log EXCEPT ![q] = [log[q] EXCEPT !.done = TRUE]]
           /\ srv' = [srv EXCEPT ![s] = IF srv[s].pend # NoCommit
                                        THEN [srv[s] EXCEPT !.pc = "upload"]
                                        ELSE Marked(srv[s], q)]
    BY <1>13 DEF MarkDone
  <2>2. srv[s].pend # NoCommit => GoodRec([srv[s] EXCEPT !.pc = "upload"])
    BY SrvRec DEF GoodRec, ServerRecord, Pcs
  <2>3. GoodRec(IF srv[s].pend # NoCommit THEN [srv[s] EXCEPT !.pc = "upload"]
                ELSE Marked(srv[s], q))
    BY <2>2, SrvRec, MarkedGood
  <2>4. log[q] \in LogRecord => [log[q] EXCEPT !.done = TRUE] \in LogRecord
    BY DEF LogRecord
  <2>5. log' \in [Seqs -> LogRecord]
    BY <1>0, <2>1, <2>4
  <2> QED
    BY <1>0, <1>13, <2>1, <2>3, <2>5, SrvUpdate, SameRepo, SameOps, SameRest DEF MarkDone
<1>14. ASSUME NEW s \in Servers, UploadPack(s) PROVE TypeInv'
  <2>1. PICK q \in Seqs : srv' = [srv EXCEPT ![s] = Marked(srv[s], q)]
    BY <1>14 DEF UploadPack
  <2>2. GoodRec(Marked(srv[s], q))
    BY SrvRec, MarkedGood
  <2>3. RestOK'
    BY <1>0, <1>14, PendCommit DEF UploadPack, RestOK, countVars
  <2> QED
    BY <1>0, <1>14, <2>1, <2>2, <2>3, SrvUpdate, SameRepo, SameOps DEF UploadPack
<1>15. ASSUME NEW s \in Servers, Adopt(s) PROVE TypeInv'
  <2> DEFINE go == [srv[s] EXCEPT !.pc = "open", !.root = srv[s].pend, !.pend = NoCommit]
             r == IF srv[s].mode = "shutdown" THEN [Down EXCEPT !.pc = "exit"] ELSE go
  <2>1. srv' = [srv EXCEPT ![s] = r]
    BY <1>15 DEF Adopt
  <2>2. srv[s].pend \in CommitIds
    BY <1>15, PendCommit DEF Adopt
  <2>3. go \in ServerRecord /\ go.pc = "open"
    BY <2>2, SrvRec, Zero DEF ServerRecord, Pcs
  <2>4. GoodRec(r)
    BY <2>3, ExitType DEF Down, GoodRec
  <2>5. RestOK'
    BY <1>0, <1>15, <2>2 DEF Adopt, RestOK, countVars
  <2> QED
    BY <1>0, <1>15, <2>1, <2>4, <2>5, SrvUpdate, SameRepo, SameOps DEF Adopt
<1>16. ASSUME NEW s \in Servers, OpenWal(s) PROVE TypeInv'
  <2>1. PICK q \in Seqs :
           /\ log' = [log EXCEPT ![q] = OpenedLog(s, q)]
           /\ srv' = [srv EXCEPT ![s] = [srv[s] EXCEPT !.pc = "idle", !.seq = q, !.writer = q,
                                         !.dirty = FALSE, !.mode = "auto"]]
    BY <1>16 DEF OpenWal
  <2>2. GoodRec([srv[s] EXCEPT !.pc = "idle", !.seq = q, !.writer = q,
                               !.dirty = FALSE, !.mode = "auto"])
    BY SrvRec DEF GoodRec, ServerRecord, Pcs
  <2>3. srv[s].root \in 0 .. MaxCommits
    BY SrvRec DEF ServerRecord
  <2>4. log[q] \in LogRecord => OpenedLog(s, q) \in LogRecord
    BY <2>3 DEF OpenedLog, LogRecord
  <2>5. log' \in [Seqs -> LogRecord]
    BY <1>0, <2>1, <2>4
  <2> QED
    BY <1>0, <1>16, <2>1, <2>2, <2>5, SrvUpdate, SameRepo, SameOps, SameRest DEF OpenWal
<1>17. ASSUME NEW s \in Servers, FaultStep(s) PROVE TypeInv'
  <2> USE DEF Fault
  <2>1. CASE FinalizeErr(s)
    <3>1. [srv[s] EXCEPT !.writer = NoWriter] \in ServerRecord
      BY SrvRec DEF ServerRecord
    <3>2. \A q \in Seqs : [log[q] EXCEPT !.sealed = TRUE] \in LogRecord
      BY <1>0 DEF LogRecord
    <3>3. log' \in [Seqs -> LogRecord]
      BY <1>0, <2>1, <3>2 DEF FinalizeErr
    <3> QED
      BY <1>0, <2>1, <3>1, <3>3, FailedGood, SrvUpdate, SameRepo, SameOps, FaultRest
         DEF FinalizeErr
  <2>2. CASE ListErr(s)
    <3>1. PICK Q \in SUBSET Made, T \in SUBSET Made :
             /\ log' = Sealing(Q)
             /\ srv' = [srv EXCEPT ![s] = [srv[s] EXCEPT !.pc = "replay", !.todo = T]]
             /\ faults' = faults + 1
      <4>1. PICK q \in Made :
               \/ /\ log' = Sealing(Made \ {q})
                  /\ srv' = [srv EXCEPT ![s] = [srv[s] EXCEPT !.pc = "replay",
                                                 !.todo = {p \in Made : ~log[p].done}]]
               \/ /\ log' = Sealing(Made)
                  /\ srv' = [srv EXCEPT ![s] = [srv[s] EXCEPT !.pc = "replay",
                                                 !.todo = {q} \cup {p \in Made : ~log[p].done}]]
        BY <2>2 DEF ListErr
      <4>2. /\ Made \ {q} \in SUBSET Made /\ Made \in SUBSET Made
            /\ {p \in Made : ~log[p].done} \in SUBSET Made
            /\ {q} \cup {p \in Made : ~log[p].done} \in SUBSET Made
        OBVIOUS
      <4>3. faults' = faults + 1
        BY <2>2 DEF ListErr
      <4> QED
        BY <4>1, <4>2, <4>3
    <3>2. GoodRec([srv[s] EXCEPT !.pc = "replay", !.todo = T])
      BY SrvRec DEF GoodRec, ServerRecord, Pcs, Made
    <3>3. log' \in [Seqs -> LogRecord]
      BY <3>1, SealingType
    <3>4. RestOK'
      BY <1>0, <2>2, <3>1 DEF ListErr, LockedOut, RestOK
    <3> QED
      BY <1>0, <2>2, <3>1, <3>2, <3>3, <3>4, SrvUpdate, SameRepo, SameOps DEF ListErr
  <2>3. CASE RecoverErr(s)
    BY <1>0, <2>3, SrvRec, FailedGood, SrvUpdate, SameRepo, SameOps, FaultRest DEF RecoverErr
  <2>4. CASE PublishErr(s)
    <3>1. RepoOK'
      BY <1>0, <2>4, PendCommit DEF PublishErr, SetBranch, RepoOK
    <3> QED
      BY <1>0, <2>4, <3>1, SrvRec, FailedGood, SrvUpdate, SameOps, FaultRest DEF PublishErr
  <2>5. CASE UploadErr(s)
    BY <1>0, <2>5, SrvRec, FailedGood, SrvUpdate, SameRepo, SameOps, FaultRest DEF UploadErr
  <2>6. CASE OutputErr(s)
    <3>1. PICK c \in {srv[s].root, srv[s].pend} :
             srv' = [srv EXCEPT ![s] = Failed([srv[s] EXCEPT !.root = c])]
      BY <2>6 DEF OutputErr
    <3>2. c \in CommitIds
      BY <2>6, PendCommit, SrvRec DEF OutputErr, ServerRecord
    <3>3. [srv[s] EXCEPT !.root = c] \in ServerRecord
      BY <3>2, SrvRec DEF ServerRecord
    <3> QED
      BY <1>0, <2>6, <3>1, <3>3, FailedGood, SrvUpdate, SameRepo, SameOps, FaultRest DEF OutputErr
  <2>7. CASE OpenErr(s)
    <3>1. PICK q \in Seqs :
             /\ \/ log' = log
                \/ log' = [log EXCEPT ![q] = [log[q] EXCEPT !.made = TRUE, !.owner = s]]
             /\ srv' = [srv EXCEPT ![s] = Failed([srv[s] EXCEPT !.seq = q])]
             /\ faults' = faults \/ faults' = faults + 1
      BY <2>7, ZenonT(40) DEF OpenErr
    <3>2. [srv[s] EXCEPT !.seq = q] \in ServerRecord
      BY SrvRec DEF ServerRecord
    <3>3. log[q] \in LogRecord => [log[q] EXCEPT !.made = TRUE, !.owner = s] \in LogRecord
      BY DEF LogRecord
    <3>4. log' \in [Seqs -> LogRecord]
      BY <1>0, <3>1, <3>3
    <3>5. RestOK'
      BY <1>0, <2>7, <3>1 DEF OpenErr, RestOK
    <3> QED
      BY <1>0, <2>7, <3>1, <3>2, <3>4, <3>5, FailedGood, SrvUpdate, SameRepo, SameOps DEF OpenErr
  <2> QED
    BY <1>17, <2>1, <2>2, <2>3, <2>4, <2>5, <2>6, <2>7 DEF FaultStep
<1>18. CASE UNCHANGED vars
  <2>1. RepoOK' /\ OpsOK' /\ RestOK'
    BY <1>0, <1>18, SameRepo, SameOps, SameRest DEF vars, repoVars, opVars, countVars
  <2> QED
    BY <1>0, <1>18, <2>1 DEF vars, TypeInv, TypeOK, PendWhenUsed
<1> QED
  BY <1>1, <1>2, <1>3, <1>4, <1>5, <1>6, <1>7, <1>8, <1>9,
     <1>10, <1>11, <1>12, <1>13, <1>14, <1>15, <1>16, <1>17, <1>18 DEF Next, CommitStep

(* Every reachable state is well typed.                                    *)
THEOREM TypeCorrect == Spec => []TypeOK
<1>1. TypeInv => TypeOK
  BY DEF TypeInv
<1> QED
  BY <1>1, InitTypeInv, NextTypeInv, PTL DEF Spec
=============================================================================
