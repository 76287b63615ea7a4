-------------------------- MODULE GcsPublishProofs --------------------------
(***************************************************************************)
(* Theorems about GcsPublish for any branches, repositories and bounds.    *)
(***************************************************************************)
EXTENDS GcsPublish, FiniteSetTheorems, TLAPS

USE DEF NoCommit

ServerType == [pc : Pcs, mode : {"boot", "auto"}, opened : BOOLEAN,
               base : 0 .. MaxCommits, commit : 0 .. MaxCommits,
               indexes : SUBSET CommitIds, known : SUBSET CommitIds]

TypeInv == TypeOK /\ PcInv

LEMMA CommitNumbers ==
    /\ Old \subseteq CommitIds
    /\ 0 \in 0 .. MaxCommits /\ CommitIds \subseteq 0 .. MaxCommits
    /\ \A c \in 0 .. MaxCommits : c # 0 => c \in CommitIds
    /\ 2 \in CommitIds
  BY GcsBoundAssumption DEF CommitIds, Old

LEMMA TargetBranch == ASSUME TypeOK PROVE Target \in Branches
  BY BranchAssumption DEF TypeOK, Target

LEMMA DownType == Down \in ServerType
  BY CommitNumbers DEF Down, ServerType, Pcs

LEMMA RefType == ASSUME TypeOK, NEW b \in Branches, NEW blind PROVE RefOf(b, blind) \in 0 .. MaxCommits
  BY CommitNumbers DEF TypeOK, RefOf

LEMMA HeadType == ASSUME TypeOK, NEW blind PROVE ResolveHead(blind) \in 0 .. MaxCommits
<1>1. arg # NoBranch => RefOf(arg, blind) \in 0 .. MaxCommits
  BY RefType DEF TypeOK
<1>2. head.ref # NoBranch => RefOf(head.ref, blind) \in 0 .. MaxCommits
  BY RefType DEF TypeOK
<1>3. head.oid \in 0 .. MaxCommits
  BY DEF TypeOK
<1> QED
  BY <1>1, <1>2, <1>3, CommitNumbers DEF ResolveHead

-----------------------------------------------------------------------------
(* Listings.                                                               *)

(* A listing that fits on a page is complete.                              *)
LEMMA PageHasAll ==
    ASSUME page \in Nat, NEW S, IsFiniteSet(S), Cardinality(S) <= page, NEW at \in [S -> Nat]
    PROVE  FirstPage(S, at) = S
<1>1. ASSUME NEW x \in S PROVE Cardinality({y \in S : at[y] < at[x]}) < page
  <2> DEFINE before == {y \in S : at[y] < at[x]}
  <2>1. before \in SUBSET (S \ {x})
    OBVIOUS
  <2>2. IsFiniteSet(S \ {x}) /\ Cardinality(S \ {x}) = Cardinality(S) - 1
    BY FS_RemoveElement
  <2>3. IsFiniteSet(before) /\ Cardinality(before) <= Cardinality(S \ {x})
    BY <2>1, <2>2, FS_Subset
  <2>4. Cardinality(before) \in Nat /\ Cardinality(S) \in Nat
    BY <2>3, FS_CardinalityType
  <2> QED
    BY <2>2, <2>3, <2>4
<1> QED
  BY <1>1 DEF FirstPage

LEMMA PackNamesFinite == IsFiniteSet(PackNames)
<1>1. IsFiniteSet(CommitIds)
  BY FS_Interval, GcsBoundAssumption DEF CommitIds
<1>2. IsFiniteSet({"idx", "pack"})
  <2>1. IsFiniteSet({"idx"} \cup {"pack"}) /\ {"idx"} \cup {"pack"} = {"idx", "pack"}
    BY FS_Singleton, FS_Union
  <2> QED
    BY <2>1
<1> QED
  BY <1>1, <1>2, FS_Product DEF PackNames

LEMMA PackObjectsFinite == IsFiniteSet(PackObjects) /\ PackAt \in [PackNames -> Nat]
<1>1. PackObjects \in SUBSET PackNames
  BY DEF PackObjects
<1>2. PackAt \in [PackNames -> Nat]
  BY PlaceAssumption DEF PackAt, PackNames
<1> QED
  BY <1>1, <1>2, PackNamesFinite, FS_Subset

LEMMA AllListed ==
    ASSUME TypeOK, PacksListed
    PROVE  /\ Listed("idx") = {c \in CommitIds : idxs[c] # "none"}
           /\ Listed("pack") = {c \in CommitIds : packs[c] # "none"}
<1>1. PackAt \in [PackNames -> Nat] /\ IsFiniteSet(PackObjects) /\ PackObjects \subseteq PackNames
  BY PackObjectsFinite DEF PackObjects
<1> DEFINE at == [o \in PackObjects |-> PackAt[o]]
<1>2. at \in [PackObjects -> Nat]
  BY <1>1
<1>3. FirstPage(PackObjects, at) = PackObjects
  BY <1>1, <1>2, PageHasAll DEF TypeOK, PacksListed
<1>4. FirstPage(PackObjects, PackAt) = FirstPage(PackObjects, at)
  BY DEF FirstPage
<1>5. \A c \in CommitIds : /\ <<c, "idx">> \in PackObjects <=> idxs[c] # "none"
                           /\ <<c, "pack">> \in PackObjects <=> packs[c] # "none"
  BY DEF PackObjects, PackNames
<1> QED
  BY <1>3, <1>4, <1>5 DEF Listed

LEMMA AllRefsListed ==
    ASSUME TypeOK, RefsListed PROVE FirstPage(LooseRefs, RefPlace) = LooseRefs
<1>1. IsFiniteSet(LooseRefs)
  BY BranchAssumption, FS_Subset DEF LooseRefs
<1> DEFINE at == [b \in LooseRefs |-> RefPlace[b]]
<1>2. at \in [LooseRefs -> Nat]
  BY PlaceAssumption DEF LooseRefs
<1>3. FirstPage(LooseRefs, at) = LooseRefs
  BY <1>1, <1>2, PageHasAll DEF TypeOK, RefsListed
<1>4. FirstPage(LooseRefs, RefPlace) = FirstPage(LooseRefs, at)
  BY DEF FirstPage
<1> QED
  BY <1>3, <1>4

-----------------------------------------------------------------------------
(* Type correctness.                                                       *)

LEMMA InitTypeInv == Init => TypeInv
<1> SUFFICES ASSUME Init PROVE TypeInv
  OBVIOUS
<1>1. PICK s \in Setups :
        /\ arg = s.arg /\ page = s.page /\ loose = s.loose /\ head = s.head
        /\ refs = s.refs /\ packed = s.packed
        /\ packs = [c \in CommitIds |-> IF c \in Old \ s.loose THEN "whole" ELSE "none"]
        /\ idxs = packs
        /\ infoRefs = [b \in Branches |-> RefOf(b, {})]
        /\ infoPacks = Old \ s.loose
        /\ ncommits = 2
        /\ needs = [c \in CommitIds |-> IF c \in Old THEN 1 .. c ELSE {}]
        /\ anc = needs
        /\ hdr = NoCommit /\ edited = FALSE
        /\ kept = {k \in [branch : Branches, commit : Old] : k.commit = RefOf(k.branch, {})}
        /\ srv = Down
        /\ harm = {} /\ mishaps = 0
  BY DEF Init
<1>2. /\ s.arg \in Branches \cup {NoBranch}
      /\ s.head \in [ref : Branches \cup {NoBranch}, oid : Old \cup {NoCommit}]
      /\ s.refs \in [Branches -> Old \cup {NoCommit}]
      /\ s.packed \in [Branches -> Old \cup {NoCommit}]
      /\ s.loose \subseteq Old /\ s.page \in Nat \ {0}
  BY SetupAssumption
<1>3. Old \cup {NoCommit} \subseteq 0 .. MaxCommits
  BY CommitNumbers
<1>4. /\ head \in [ref : Branches \cup {NoBranch}, oid : 0 .. MaxCommits]
      /\ refs \in [Branches -> 0 .. MaxCommits]
      /\ packed \in [Branches -> 0 .. MaxCommits]
  BY <1>1, <1>2, <1>3
<1>5. infoRefs \in [Branches -> 0 .. MaxCommits]
  BY <1>1, <1>4 DEF RefOf
<1>6. needs \in [CommitIds -> SUBSET CommitIds]
  BY <1>1, GcsBoundAssumption DEF CommitIds, Old
<1>7. kept \subseteq [branch : Branches, commit : CommitIds]
  BY <1>1, CommitNumbers
<1>8. TypeOK
  <2>1. loose \subseteq CommitIds /\ infoPacks \subseteq CommitIds
    BY <1>1, <1>2, CommitNumbers
  <2>2. mishaps \in 0 .. MaxMishaps
    BY <1>1, GcsBoundAssumption
  <2>3. srv \in ServerType
    BY <1>1, DownType
  <2> QED
    BY <1>1, <1>2, <1>4, <1>5, <1>6, <1>7, <2>1, <2>2, <2>3, CommitNumbers DEF TypeOK, ServerType
<1>9. PcInv
  BY <1>1 DEF PcInv, Down, Uploads
<1> QED
  BY <1>8, <1>9 DEF TypeInv

(* What a step that leaves the repository, the history or the log alone    *)
(* keeps of the types.                                                     *)
RepoType ==
    /\ packs \in [CommitIds -> {"none", "cut", "whole"}]
    /\ idxs \in [CommitIds -> {"none", "cut", "whole"}]
    /\ head \in [ref : Branches \cup {NoBranch}, oid : 0 .. MaxCommits]
    /\ refs \in [Branches -> 0 .. MaxCommits]
    /\ infoRefs \in [Branches -> 0 .. MaxCommits]
    /\ infoPacks \subseteq CommitIds

FixedType ==
    /\ arg \in Branches \cup {NoBranch}
    /\ page \in Nat \ {0}
    /\ loose \subseteq CommitIds
    /\ packed \in [Branches -> 0 .. MaxCommits]

HistoryType ==
    /\ ncommits \in CommitIds
    /\ needs \in [CommitIds -> SUBSET CommitIds]
    /\ anc \in [CommitIds -> SUBSET CommitIds]

LogType ==
    /\ hdr \in 0 .. MaxCommits
    /\ edited \in BOOLEAN
    /\ kept \subseteq [branch : Branches, commit : CommitIds]

HarmType == harm \subseteq {"idx", "head", "ref", "read"} /\ mishaps \in 0 .. MaxMishaps

LEMMA TypeParts ==
    TypeOK <=> RepoType /\ FixedType /\ HistoryType /\ LogType /\ HarmType /\ srv \in ServerType
  BY DEF TypeOK, RepoType, FixedType, HistoryType, LogType, HarmType, ServerType

LEMMA TypePartsNext ==
    TypeOK' <=> RepoType' /\ FixedType' /\ HistoryType' /\ LogType' /\ HarmType' /\ (srv \in ServerType)'
  BY DEF TypeOK, RepoType, FixedType, HistoryType, LogType, HarmType, ServerType

LEMMA SameTypes ==
    ASSUME TypeOK
    PROVE  /\ UNCHANGED repoVars => RepoType'
           /\ UNCHANGED fixedVars => FixedType'
           /\ UNCHANGED historyVars => HistoryType'
           /\ UNCHANGED logVars => LogType'
           /\ UNCHANGED <<harm, mishaps>> => HarmType'
  BY TypeParts DEF RepoType, FixedType, HistoryType, LogType, HarmType,
                   repoVars, fixedVars, historyVars, logVars

LEMMA SameServerType == (srv \in ServerType)' <=> srv' \in ServerType
  BY DEF ServerType

LEMMA MishapType == ASSUME TypeOK, Mishap PROVE mishaps' \in 0 .. MaxMishaps
  BY GcsBoundAssumption DEF TypeOK, Mishap

LEMMA IgnoredReadsType == ASSUME TypeOK, NEW blind, IgnoredReads(blind) PROVE HarmType'
  BY MishapType DEF TypeOK, IgnoredReads, HarmType

LEMMA LeftEmptyType ==
    ASSUME TypeOK, Mishap, harm' = harm \cup LeftEmpty \/ harm' = harm PROVE HarmType'
  BY MishapType DEF TypeOK, LeftEmpty, HarmType

LEMMA FailedFields ==
    ASSUME TypeOK
    PROVE  /\ Failed \in ServerType
           /\ Failed.pc \in {"idle", "down"} /\ ~Failed.opened /\ Failed.commit = NoCommit
           /\ srv.mode = "auto" => /\ Failed.pc = "idle" /\ Failed.base = srv.base
                                   /\ Failed.known = srv.known
           /\ srv.mode # "auto" => Failed = Down
<1>1. srv \in ServerType
  BY TypeParts
<1>2. CASE srv.mode = "auto"
  BY <1>1, <1>2, CommitNumbers DEF Failed, ServerType, Pcs
<1>3. CASE srv.mode # "auto"
  BY <1>3, DownType DEF Failed, Down
<1> QED
  BY <1>2, <1>3

(* One upload keeps the types.                                             *)
LEMMA UploadType ==
    ASSUME TypeInv, srv.pc \in Uploads, NEW full \in BOOLEAN, NEW blind, Upload(full, blind)
    PROVE  RepoType' /\ FixedType' /\ HistoryType' /\ LogType'
<1>1. TypeOK /\ srv.commit \in CommitIds
  BY CommitNumbers DEF TypeInv, TypeOK, PcInv
<1>2. Target \in Branches
  BY <1>1, TargetBranch
<1>3. RepoType /\ srv \in ServerType
  BY <1>1, TypeParts
<1>4. packs' \in [CommitIds -> {"none", "cut", "whole"}] /\ idxs' \in [CommitIds -> {"none", "cut", "whole"}]
  BY <1>1, <1>3 DEF Upload, RepoType, Cell
<1>5. head' \in [ref : Branches \cup {NoBranch}, oid : 0 .. MaxCommits]
  BY <1>2, <1>3, CommitNumbers DEF Upload, RepoType
<1>6. refs' \in [Branches -> 0 .. MaxCommits]
  BY <1>1, <1>2, <1>3, CommitNumbers DEF Upload, RepoType
<1>7. infoRefs' \in [Branches -> 0 .. MaxCommits]
  <2>1. CollectedRefs(blind) \in [Branches -> 0 .. MaxCommits]
    BY <1>1, RefType, CommitNumbers DEF CollectedRefs
  <2> QED
    BY <1>3, <2>1, CommitNumbers DEF Upload, RepoType
<1>8. infoPacks' \subseteq CommitIds
  BY <1>3 DEF Upload, RepoType, CollectedPacks, Listed, ServerType
<1> QED
  BY <1>1, <1>4, <1>5, <1>6, <1>7, <1>8, SameTypes DEF RepoType, Upload

-----------------------------------------------------------------------------
(* The server's record after each action.                                  *)

LEMMA ConnectFields ==
    ASSUME TypeOK, Connect
    PROVE  /\ srv' \in ServerType /\ srv'.pc = "resolve" /\ srv'.opened = FALSE
           /\ srv'.commit = NoCommit /\ srv'.base = NoCommit
           /\ srv'.indexes = LoadIndexes({}) /\ srv'.known = {}
<1>1. LoadIndexes({}) \subseteq CommitIds
  BY DEF LoadIndexes, Listed
<1> QED
  BY <1>1, CommitNumbers DEF Connect, Down, ServerType, Pcs

LEMMA InitializeFields ==
    ASSUME TypeOK, NEW blind \in SUBSET {"loose", "packed", "tree"}, Initialize(blind)
    PROVE  /\ srv' \in ServerType
           /\ \/ srv' = Down
              \/ /\ srv'.pc = "recover" /\ srv'.opened = srv.opened /\ srv'.commit = srv.commit
                 /\ srv'.base = ResolveHead(blind \ {"tree"}) /\ srv'.base # NoCommit
                 /\ blind = {} => srv'.known = needs[srv'.base] \cap Readable(srv.indexes)
<1> DEFINE c == ResolveHead(blind \ {"tree"})
           readable == Readable(srv.indexes)
<1>1. c \in 0 .. MaxCommits
  BY HeadType
<1>2. CASE c # NoCommit /\ c \in readable
  <2>1. PICK skipped \in SUBSET (needs[c] \ {c}) :
              /\ (skipped # {}) <=> ("tree" \in blind)
              /\ srv' = [srv EXCEPT !.pc = "recover", !.base = c,
                                    !.known = (needs[c] \cap readable) \ skipped]
    BY <1>2 DEF Initialize
  <2> DEFINE k == (needs[c] \cap readable) \ skipped
  <2>2. srv \in ServerType /\ k \in SUBSET CommitIds
    BY <1>1, <1>2, CommitNumbers, TypeParts DEF HistoryType
  <2>3. blind = {} => k = needs[c] \cap readable
    BY <2>1
  <2> HIDE DEF k, c, readable
  <2>4. srv' = [srv EXCEPT !.pc = "recover", !.base = c, !.known = k]
    BY <2>1 DEF k
  <2>5. /\ srv' \in ServerType /\ srv'.pc = "recover" /\ srv'.opened = srv.opened
        /\ srv'.commit = srv.commit /\ srv'.base = c /\ srv'.known = k
    BY <1>1, <2>2, <2>4 DEF ServerType, Pcs
  <2> QED
    BY <1>2, <2>3, <2>5 DEF c, readable
<1>3. CASE ~(c # NoCommit /\ c \in readable)
  BY <1>3, DownType DEF Initialize
<1> QED
  BY <1>2, <1>3

LEMMA NothingToRecoverFields ==
    ASSUME TypeOK, NothingToRecover
    PROVE  /\ srv' \in ServerType /\ srv'.pc = "open" /\ srv'.opened = srv.opened
           /\ srv'.commit = srv.commit /\ srv'.base = srv.base /\ srv'.known = srv.known
  BY TypeParts DEF NothingToRecover, ServerType, Pcs

LEMMA BuildFields ==
    ASSUME TypeOK, Build
    PROVE  /\ srv' \in ServerType /\ srv'.pc = "pack" /\ srv'.opened = srv.opened
           /\ srv'.commit = ncommits + 1 /\ srv'.base = srv.base /\ srv'.known = srv.known
           /\ ncommits + 1 \in CommitIds
<1>1. ncommits + 1 \in CommitIds /\ ncommits + 1 \in 0 .. MaxCommits
  BY GcsBoundAssumption, SMTT(30) DEF TypeOK, Build, CommitIds
<1> DEFINE c == ncommits + 1
<1>2. srv' = [srv EXCEPT !.pc = "pack", !.commit = c] /\ srv \in ServerType
  BY TypeParts DEF Build
<1>3. c \in 0 .. MaxCommits
  BY <1>1
<1> HIDE DEF c
<1>4. /\ srv' \in ServerType /\ srv'.pc = "pack" /\ srv'.opened = srv.opened
      /\ srv'.commit = c /\ srv'.base = srv.base /\ srv'.known = srv.known
  BY <1>2, <1>3 DEF ServerType, Pcs, Uploads
<1> QED
  BY <1>1, <1>4 DEF c

LEMMA OpenObjectFields ==
    ASSUME TypeOK, OpenObject
    PROVE  /\ srv' \in ServerType /\ srv'.pc = srv.pc /\ srv'.opened = TRUE
           /\ srv'.commit = srv.commit /\ srv'.base = srv.base /\ srv'.known = srv.known
           /\ srv'.indexes = srv.indexes
  BY TypeParts DEF OpenObject, ServerType

LEMMA FillObjectFields ==
    ASSUME TypeOK, NEW blind, FillObject(blind)
    PROVE  /\ srv' \in ServerType /\ srv'.pc = StepAfter[srv.pc] /\ srv'.opened = FALSE
           /\ srv'.commit = srv.commit /\ srv'.base = srv.base /\ srv'.known = srv.known
           /\ srv.pc \in Uploads
           /\ StepAfter[srv.pc] \in {"idx", "head", "ref", "refresh", "infopacks", "mark"}
<1>1. srv.pc \in Uploads /\ StepAfter[srv.pc] \in {"idx", "head", "ref", "refresh", "infopacks", "mark"}
  BY DEF FillObject, Uploads, StepAfter
<1> DEFINE p == StepAfter[srv.pc]
<1>2. p \in Pcs
  BY <1>1 DEF Pcs, Uploads
<1>3. srv' = [srv EXCEPT !.opened = FALSE, !.pc = p] /\ srv \in ServerType
  BY TypeParts DEF FillObject
<1> HIDE DEF p
<1>4. /\ srv' \in ServerType /\ srv'.pc = p /\ srv'.opened = FALSE
      /\ srv'.commit = srv.commit /\ srv'.base = srv.base /\ srv'.known = srv.known
  BY <1>2, <1>3 DEF ServerType
<1> QED
  BY <1>1, <1>4 DEF p

LEMMA RefreshFields ==
    ASSUME TypeOK, Refresh
    PROVE  /\ srv' \in ServerType
           /\ \/ srv' = Failed
              \/ /\ srv'.pc = "inforefs" /\ srv'.opened = srv.opened
                 /\ srv'.commit = srv.commit /\ srv'.base = srv.base /\ srv'.known = srv.known
<1>1. LoadIndexes(srv.indexes) \subseteq CommitIds /\ srv \in ServerType
  BY TypeParts DEF LoadIndexes, Listed, ServerType
<1>2. CASE IndexesParse(srv.indexes)
  <2>1. srv' = [srv EXCEPT !.indexes = LoadIndexes(srv.indexes), !.pc = "inforefs"]
    BY <1>2 DEF Refresh, StepAfter
  <2> QED
    BY <1>1, <2>1 DEF ServerType, Pcs, Uploads
<1>3. CASE ~IndexesParse(srv.indexes)
  BY <1>3, FailedFields DEF Refresh
<1> QED
  BY <1>2, <1>3

LEMMA MarkDoneFields ==
    ASSUME TypeOK, MarkDone
    PROVE  /\ srv' \in ServerType /\ srv'.pc = "open" /\ srv'.opened = srv.opened
           /\ srv'.commit = srv.commit /\ srv'.base = srv.base /\ srv'.known = srv.known
  BY TypeParts DEF MarkDone, ServerType, Pcs

LEMMA AdoptFields ==
    ASSUME TypeOK, AdoptAndOpen, srv.base # NoCommit
    PROVE  /\ NewBase \in CommitIds
           /\ srv' \in ServerType /\ srv'.pc = "idle" /\ srv'.opened = srv.opened
           /\ srv'.commit = NoCommit /\ srv'.base = NewBase /\ srv'.known = srv.known \cup {NewBase}
<1>1. NewBase \in CommitIds /\ NewBase \in 0 .. MaxCommits /\ srv \in ServerType
  BY CommitNumbers, TypeParts DEF NewBase, ServerType
<1> QED
  BY <1>1, CommitNumbers DEF AdoptAndOpen, ServerType, Pcs

LEMMA DownFields ==
    /\ Down.pc = "down" /\ Down.opened = FALSE /\ Down.commit = NoCommit /\ Down.base = NoCommit
  BY DEF Down

(* A record without an open object, that is down or idle.                  *)
LEMMA StoppedPcInv ==
    ASSUME TypeInv, UNCHANGED <<hdr, edited>>,
           srv' = Down \/ (srv' = Failed /\ (srv.mode = "auto" => srv.base # NoCommit /\ edited))
    PROVE  PcInv'
<1>1. CASE srv' = Down
  BY <1>1, DownFields DEF TypeInv, PcInv, Uploads
<1>2. CASE srv' = Failed /\ srv.mode = "auto" /\ srv.base # NoCommit /\ edited
  <2>1. /\ srv'.pc = "idle" /\ ~srv'.opened /\ srv'.commit = NoCommit /\ srv'.base # NoCommit
    BY <1>2, FailedFields DEF TypeInv
  <2> QED
    BY <1>2, <2>1 DEF TypeInv, PcInv, Uploads
<1>3. CASE srv' = Failed /\ srv.mode # "auto"
  BY <1>1, <1>3, FailedFields DEF TypeInv
<1> QED
  BY <1>1, <1>2, <1>3

LEMMA NextTypeInv == TypeInv /\ [Next]_vars => TypeInv'
<1> SUFFICES ASSUME TypeInv, [Next]_vars PROVE TypeInv'
  OBVIOUS
<1>0. /\ TypeOK /\ PcInv /\ RepoType /\ FixedType /\ HistoryType /\ LogType /\ HarmType
      /\ srv \in ServerType
  BY TypeParts DEF TypeInv
<1>1. CASE Connect
  <2>1. TypeOK'
    BY <1>0, <1>1, ConnectFields, SameTypes, TypePartsNext, SameServerType DEF Connect
  <2>2. PcInv'
    BY <1>0, <1>1, ConnectFields DEF Connect, PcInv, Uploads, logVars
  <2> QED
    BY <2>1, <2>2 DEF TypeInv
<1>2. ASSUME NEW blind \in SUBSET {"loose", "packed", "tree"}, Initialize(blind) PROVE TypeInv'
  <2>1. TypeOK'
    BY <1>0, <1>2, InitializeFields, SameTypes, IgnoredReadsType, TypePartsNext, SameServerType
       DEF Initialize
  <2>2. PcInv'
    BY <1>0, <1>2, InitializeFields, StoppedPcInv DEF Initialize, PcInv, Uploads, logVars
  <2> QED
    BY <2>1, <2>2 DEF TypeInv
<1>3. CASE NothingToRecover
  <2>1. LogType'
    BY <1>0, <1>3, CommitNumbers DEF NothingToRecover, LogType
  <2>2. TypeOK'
    BY <1>0, <1>3, <2>1, NothingToRecoverFields, SameTypes, TypePartsNext, SameServerType
       DEF NothingToRecover
  <2>3. PcInv'
    BY <1>0, <1>3, NothingToRecoverFields DEF NothingToRecover, PcInv, Uploads
  <2> QED
    BY <2>2, <2>3 DEF TypeInv
<1>4. CASE Build
  <2>1. /\ hdr \in CommitIds /\ srv.base \in CommitIds
    BY <1>0, <1>4, CommitNumbers DEF Build, PcInv, LogType, ServerType
  <2>2. ncommits + 1 \in CommitIds
    BY <1>0, <1>4, BuildFields
  <2> DEFINE c == ncommits + 1
  <2>3. /\ ncommits' = c
        /\ needs' = [needs EXCEPT ![c] = {c} \cup needs[srv.base] \cup needs[hdr]]
        /\ anc' = [anc EXCEPT ![c] = {c} \cup anc[hdr]]
    BY <1>4 DEF Build
  <2>4. HistoryType'
    <3> HIDE DEF c
    <3> QED
      BY <1>0, <2>1, <2>2, <2>3 DEF HistoryType, c
  <2>5. TypeOK'
    BY <1>0, <1>4, <2>4, BuildFields, SameTypes, TypePartsNext, SameServerType DEF Build
  <2>6. PcInv'
    <3>1. c # 0
      BY <2>2 DEF CommitIds
    <3>2. srv'.commit = c /\ srv'.pc = "pack" /\ srv'.opened = srv.opened /\ srv'.base = srv.base
      BY <1>0, <1>4, BuildFields
    <3> HIDE DEF c
    <3> QED
      BY <1>0, <1>4, <3>1, <3>2 DEF Build, PcInv, Uploads, logVars
  <2> QED
    BY <2>5, <2>6 DEF TypeInv
<1>5. CASE OpenObject
  <2>1. RepoType' /\ FixedType' /\ HistoryType' /\ LogType'
    BY <1>5, UploadType DEF OpenObject
  <2>2. TypeOK'
    BY <1>0, <1>5, <2>1, OpenObjectFields, SameTypes, TypePartsNext, SameServerType DEF OpenObject
  <2>3. PcInv'
    BY <1>0, <1>5, OpenObjectFields DEF OpenObject, Upload, PcInv, Uploads, logVars
  <2> QED
    BY <2>2, <2>3 DEF TypeInv
<1>6. ASSUME NEW blind, FillObject(blind) PROVE TypeInv'
  <2>1. RepoType' /\ FixedType' /\ HistoryType' /\ LogType'
    BY <1>6, UploadType DEF FillObject
  <2>2. TypeOK'
    BY <1>0, <1>6, <2>1, FillObjectFields, IgnoredReadsType, TypePartsNext, SameServerType
       DEF FillObject
  <2>3. UNCHANGED <<hdr, edited>>
    BY <1>6 DEF FillObject, Upload, logVars
  <2>4. PcInv'
    BY <1>0, <1>6, <2>3, FillObjectFields DEF PcInv, Uploads
  <2> QED
    BY <2>2, <2>4 DEF TypeInv
<1>7. CASE UploadErr
  <2>1. TypeOK'
    BY <1>0, <1>7, FailedFields, SameTypes, LeftEmptyType, TypePartsNext, SameServerType DEF UploadErr
  <2>2. PcInv'
    BY <1>0, <1>7, StoppedPcInv DEF UploadErr, PcInv, Uploads, logVars
  <2> QED
    BY <2>1, <2>2 DEF TypeInv
<1>8. CASE FinalizeErr
  <2>1. RepoType' /\ FixedType' /\ HistoryType' /\ LogType'
    BY <1>8, UploadType DEF FinalizeErr
  <2>2. TypeOK'
    BY <1>0, <1>8, <2>1, FailedFields, LeftEmptyType, TypePartsNext, SameServerType DEF FinalizeErr
  <2>3. PcInv'
    BY <1>0, <1>8, StoppedPcInv DEF FinalizeErr, Upload, PcInv, Uploads, logVars
  <2> QED
    BY <2>2, <2>3 DEF TypeInv
<1>9. CASE Refresh
  <2>1. TypeOK'
    BY <1>0, <1>9, RefreshFields, SameTypes, TypePartsNext, SameServerType DEF Refresh
  <2>2. PcInv'
    BY <1>0, <1>9, RefreshFields, StoppedPcInv DEF Refresh, PcInv, Uploads, logVars
  <2> QED
    BY <2>1, <2>2 DEF TypeInv
<1>10. CASE RefreshErr
  <2>1. TypeOK'
    BY <1>0, <1>10, FailedFields, SameTypes, LeftEmptyType, TypePartsNext, SameServerType DEF RefreshErr
  <2>2. PcInv'
    BY <1>0, <1>10, StoppedPcInv DEF RefreshErr, PcInv, Uploads, logVars
  <2> QED
    BY <2>1, <2>2 DEF TypeInv
<1>11. CASE MarkDone
  <2>1. LogType'
    <3>1. srv.commit \in CommitIds /\ Target \in Branches
      BY <1>0, <1>11, CommitNumbers, TargetBranch DEF MarkDone, PcInv, ServerType
    <3> DEFINE k == [branch |-> Target, commit |-> srv.commit]
    <3>2. k \in [branch : Branches, commit : CommitIds]
      BY <3>1
    <3>3. kept' = kept \cup {k} /\ hdr' = 0 /\ edited' = FALSE
      BY <1>11 DEF MarkDone
    <3> HIDE DEF k
    <3> QED
      BY <1>0, <3>2, <3>3, CommitNumbers DEF LogType
  <2>2. TypeOK'
    BY <1>0, <1>11, <2>1, MarkDoneFields, SameTypes, TypePartsNext, SameServerType DEF MarkDone
  <2>3. PcInv'
    BY <1>0, <1>11, MarkDoneFields DEF MarkDone, PcInv, Uploads
  <2> QED
    BY <2>2, <2>3 DEF TypeInv
<1>12. CASE AdoptAndOpen
  <2>1. srv.base # NoCommit
    BY <1>0, <1>12 DEF AdoptAndOpen, PcInv
  <2>2. LogType'
    BY <1>0, <1>12, <2>1, AdoptFields, CommitNumbers DEF AdoptAndOpen, LogType
  <2>3. TypeOK'
    BY <1>0, <1>12, <2>1, <2>2, AdoptFields, SameTypes, TypePartsNext, SameServerType DEF AdoptAndOpen
  <2>4. NewBase # NoCommit
    BY <2>1 DEF NewBase
  <2>5. PcInv'
    BY <1>0, <1>12, <2>1, <2>4, AdoptFields DEF AdoptAndOpen, PcInv, Uploads
  <2> QED
    BY <2>3, <2>5 DEF TypeInv
<1>13. CASE Edit
  <2>1. LogType' /\ srv' \in ServerType
    BY <1>0, <1>13 DEF Edit, LogType
  <2>2. TypeOK'
    BY <1>0, <1>13, <2>1, SameTypes, TypePartsNext, SameServerType DEF Edit
  <2>3. PcInv'
    BY <1>0, <1>13 DEF Edit, PcInv
  <2> QED
    BY <2>2, <2>3 DEF TypeInv
<1>14. CASE Crash
  <2>1. TypeOK'
    BY <1>0, <1>14, DownType, SameTypes, LeftEmptyType, TypePartsNext, SameServerType DEF Crash
  <2>2. PcInv'
    BY <1>0, <1>14, StoppedPcInv DEF Crash, logVars
  <2> QED
    BY <2>1, <2>2 DEF TypeInv
<1>15. CASE UNCHANGED vars
  <2>1. TypeOK'
    BY <1>0, <1>15, SameTypes, TypePartsNext, SameServerType
       DEF vars, repoVars, fixedVars, historyVars, logVars
  <2>2. PcInv'
    BY <1>0, <1>15 DEF vars, PcInv
  <2> QED
    BY <2>1, <2>2 DEF TypeInv
<1> QED
  BY <1>1, <1>2, <1>3, <1>4, <1>5, <1>6, <1>7, <1>8, <1>9, <1>10, <1>11, <1>12, <1>13,
     <1>14, <1>15 DEF Next

(* Every reachable state is well typed: above all, no step of a            *)
(* publication uses a commit, a base or a log header that is not there.    *)
THEOREM PublishTypeCorrect == Spec => []TypeOK
<1>1. TypeInv => TypeOK
  BY DEF TypeInv
<1> QED
  BY <1>1, InitTypeInv, NextTypeInv, PTL DEF Spec

-----------------------------------------------------------------------------
(* Nothing that is stored is lost, and nothing that is named is missing.   *)

StoreInv == ObjectInv /\ NameInv

LEMMA CommitInts ==
    ASSUME TypeOK
    PROVE  /\ ncommits \in Int /\ 1 <= ncommits /\ hdr \in Int
           /\ srv.commit \in Int /\ srv.base \in Int
           /\ \A c \in 0 .. MaxCommits : c \in Int /\ (c # 0 => 1 <= c)
           /\ \A c \in CommitIds : c \in Int /\ c # 0
  BY DEF TypeOK, CommitIds

(* Only the pack and the index of the commit in hand are written, before   *)
(* both are there.                                                         *)
LEMMA UploadStored ==
    ASSUME TypeInv, ObjectInv, srv.pc \in Uploads, NEW full \in BOOLEAN, NEW blind,
           Upload(full, blind)
    PROVE  Stored \subseteq Stored'
<1>1. srv.commit \in CommitIds /\ RepoType
  BY CommitNumbers, TypeParts DEF TypeInv, TypeOK, PcInv
<1>2. ASSUME NEW c \in CommitIds, packs[c] = "whole", idxs[c] = "whole"
      PROVE  packs'[c] = "whole" /\ idxs'[c] = "whole"
  <2>1. CASE srv.pc = "pack"
    BY <1>1, <1>2, <2>1 DEF Upload, ObjectInv, RepoType
  <2>2. CASE srv.pc = "idx"
    BY <1>1, <1>2, <2>2 DEF Upload, ObjectInv, RepoType
  <2>3. CASE srv.pc \notin {"pack", "idx"}
    BY <1>2, <2>3 DEF Upload
  <2> QED
    BY <2>1, <2>2, <2>3
<1>3. loose' = loose
  BY DEF Upload, fixedVars
<1> QED
  BY <1>2, <1>3 DEF Stored

LEMMA SameStored == ASSUME UNCHANGED <<repoVars, fixedVars>> PROVE Stored' = Stored
  BY DEF Stored, repoVars, fixedVars

LEMMA BuildHistory ==
    ASSUME TypeInv, Build
    PROVE  /\ ncommits' = ncommits + 1
           /\ hdr \in CommitIds /\ srv.base \in CommitIds /\ ncommits + 1 \in CommitIds
           /\ \A c \in CommitIds : c <= ncommits => needs'[c] = needs[c] /\ anc'[c] = anc[c]
           /\ needs'[ncommits + 1] = {ncommits + 1} \cup needs[srv.base] \cup needs[hdr]
           /\ anc'[ncommits + 1] = {ncommits + 1} \cup anc[hdr]
<1> DEFINE d == ncommits + 1
<1>1. /\ TypeOK /\ hdr \in CommitIds /\ srv.base \in CommitIds
  BY CommitNumbers, TypeParts DEF Build, TypeInv, PcInv, LogType, ServerType
<1>2. d \in CommitIds
  BY <1>1, BuildFields
<1>3. \A c \in CommitIds : c <= ncommits => c # d
  BY <1>1, CommitInts
<1>4. /\ ncommits' = d
      /\ needs' = [needs EXCEPT ![d] = {d} \cup needs[srv.base] \cup needs[hdr]]
      /\ anc' = [anc EXCEPT ![d] = {d} \cup anc[hdr]]
  BY DEF Build
<1>5. needs \in [CommitIds -> SUBSET CommitIds] /\ anc \in [CommitIds -> SUBSET CommitIds]
  BY <1>1, TypeParts DEF HistoryType
<1> HIDE DEF d
<1>6. /\ \A c \in CommitIds : c <= ncommits => needs'[c] = needs[c] /\ anc'[c] = anc[c]
      /\ needs'[d] = {d} \cup needs[srv.base] \cup needs[hdr]
      /\ anc'[d] = {d} \cup anc[hdr]
  BY <1>2, <1>3, <1>4, <1>5
<1> QED
  BY <1>1, <1>2, <1>4, <1>6 DEF d

(* What every step does to the history and to the store.                   *)
Grows ==
    /\ Stored \subseteq Stored' /\ ncommits <= ncommits'
    /\ \A c \in CommitIds : c <= ncommits => needs'[c] = needs[c] /\ anc'[c] = anc[c]

LEMMA StoreGrows == ASSUME TypeInv, ObjectInv, [Next]_vars PROVE Grows
<1>0. ncommits \in Int
  BY CommitInts DEF TypeInv
<1>1. ASSUME UNCHANGED historyVars, UNCHANGED <<repoVars, fixedVars>> PROVE Grows
  BY <1>0, <1>1, SameStored DEF historyVars, Grows
<1>2. ASSUME NEW full \in BOOLEAN, NEW blind, Upload(full, blind), srv.pc \in Uploads PROVE Grows
  BY <1>0, <1>2, UploadStored DEF Upload, historyVars, Grows
<1>3. CASE Build
  <2>1. Stored' = Stored
    BY <1>3, SameStored DEF Build
  <2> QED
    BY <1>0, <1>3, <2>1, BuildHistory DEF Grows
<1>4. CASE OpenObject \/ FinalizeErr
  BY <1>2, <1>4 DEF OpenObject, FinalizeErr
<1>5. ASSUME NEW blind, FillObject(blind) PROVE Grows
  BY <1>2, <1>5 DEF FillObject
<1>6. ASSUME NEW blind, Initialize(blind) PROVE Grows
  BY <1>1, <1>6 DEF Initialize
<1>7. CASE Connect \/ NothingToRecover \/ UploadErr \/ Refresh \/ RefreshErr \/ MarkDone
           \/ AdoptAndOpen \/ Edit \/ Crash
  BY <1>1, <1>7 DEF Connect, NothingToRecover, UploadErr, Refresh, RefreshErr, MarkDone,
                    AdoptAndOpen, Edit, Crash
<1>8. CASE UNCHANGED vars
  BY <1>1, <1>8 DEF vars, repoVars, fixedVars, historyVars
<1> QED
  BY <1>3, <1>4, <1>5, <1>6, <1>7, <1>8 DEF Next

LEMMA CompleteStays ==
    ASSUME TypeInv, ObjectInv, [Next]_vars, NEW c \in 0 .. MaxCommits, Complete(c)
    PROVE  c # 0 => c <= ncommits' /\ needs'[c] \subseteq Stored'
<1>1. c # 0 => c \in CommitIds
  BY CommitNumbers
<1>2. c \in Int /\ ncommits \in Int /\ ncommits' \in Int
  BY CommitInts, NextTypeInv, TypePartsNext DEF TypeInv, HistoryType, CommitIds
<1> QED
  BY <1>1, <1>2, StoreGrows DEF Complete, Grows

(* ObjectInv: the objects, and the commit in hand.                         *)
CellInv == \A c \in CommitIds : /\ c > ncommits => packs[c] = "none"
                                /\ idxs[c] # "none" => packs[c] = "whole"
                                /\ c <= ncommits => c \in anc[c]

HandInv ==
    /\ srv.commit <= ncommits
    /\ srv.commit # NoCommit => needs[srv.commit] \subseteq Stored \cup {srv.commit}
    /\ srv.pc = "pack" => idxs[srv.commit] = "none"
    /\ srv.pc = "idx" => /\ packs[srv.commit] = "whole"
                         /\ idxs[srv.commit] = IF srv.opened THEN "cut" ELSE "none"
    /\ srv.pc \in {"head", "ref", "refresh", "inforefs", "infopacks", "mark", "open"} =>
          Complete(srv.commit)

LEMMA ObjectParts == /\ ObjectInv <=> CellInv /\ HandInv
                     /\ ObjectInv' <=> CellInv' /\ HandInv'
  BY DEF ObjectInv, CellInv, HandInv

LEMMA UploadCells ==
    ASSUME TypeInv, ObjectInv, srv.pc \in Uploads, NEW full \in BOOLEAN, NEW blind,
           Upload(full, blind)
    PROVE  CellInv'
<1>1. srv.commit \in CommitIds /\ RepoType /\ ncommits \in Int /\ srv.commit \in Int
  BY CommitNumbers, TypeParts, CommitInts DEF TypeInv, TypeOK, PcInv
<1>2. UNCHANGED <<ncommits, anc>> /\ CellInv /\ srv.commit <= ncommits
  BY ObjectParts DEF Upload, historyVars, HandInv
<1>3. \A c \in CommitIds : c > ncommits => c # srv.commit
  BY <1>1, <1>2 DEF CommitIds
<1>4. CASE srv.pc = "pack"
  <2>1. idxs[srv.commit] = "none" /\ idxs' = idxs /\ packs' = [packs EXCEPT ![srv.commit] = Cell(full)]
    BY <1>4 DEF ObjectInv, Upload
  <2> QED
    BY <1>1, <1>2, <1>3, <2>1 DEF CellInv, RepoType
<1>5. CASE srv.pc = "idx"
  <2>1. packs[srv.commit] = "whole" /\ packs' = packs /\ idxs' = [idxs EXCEPT ![srv.commit] = Cell(full)]
    BY <1>5 DEF ObjectInv, Upload
  <2> QED
    BY <1>1, <1>2, <2>1 DEF CellInv, RepoType
<1>6. CASE srv.pc \notin {"pack", "idx"}
  BY <1>2, <1>6 DEF CellInv, Upload
<1> QED
  BY <1>4, <1>5, <1>6

LEMMA NextCells == ASSUME TypeInv, ObjectInv, [Next]_vars PROVE CellInv'
<1>0. CellInv
  BY ObjectParts
<1>1. ASSUME UNCHANGED historyVars, UNCHANGED repoVars PROVE CellInv'
  BY <1>0, <1>1 DEF CellInv, historyVars, repoVars
<1>2. CASE Build
  <2>1. UNCHANGED <<packs, idxs>> /\ ncommits \in Int /\ ncommits' = ncommits + 1
    BY <1>2, CommitInts DEF Build, repoVars, TypeInv
  <2>2. ASSUME NEW c \in CommitIds
        PROVE  /\ c \in Int /\ (c > ncommits' => c > ncommits)
               /\ c <= ncommits' => c <= ncommits \/ c = ncommits + 1
    BY <2>1 DEF CommitIds
  <2>3. ASSUME NEW c \in CommitIds, c <= ncommits' PROVE c \in anc'[c]
    <3>1. CASE c <= ncommits
      BY <1>0, <1>2, <3>1, BuildHistory DEF CellInv
    <3>2. CASE c = ncommits + 1
      BY <1>2, <3>2, BuildHistory
    <3> QED
      BY <2>2, <2>3, <3>1, <3>2
  <2> QED
    BY <1>0, <2>1, <2>2, <2>3 DEF CellInv
<1>3. CASE OpenObject \/ FinalizeErr
  BY <1>3, UploadCells DEF OpenObject, FinalizeErr
<1>4. ASSUME NEW blind, FillObject(blind) PROVE CellInv'
  BY <1>4, UploadCells DEF FillObject
<1>5. ASSUME NEW blind, Initialize(blind) PROVE CellInv'
  BY <1>1, <1>5 DEF Initialize
<1>6. CASE Connect \/ NothingToRecover \/ UploadErr \/ Refresh \/ RefreshErr \/ MarkDone
           \/ AdoptAndOpen \/ Edit \/ Crash
  BY <1>1, <1>6 DEF Connect, NothingToRecover, UploadErr, Refresh, RefreshErr, MarkDone,
                    AdoptAndOpen, Edit, Crash
<1>7. CASE UNCHANGED vars
  BY <1>1, <1>7 DEF vars, repoVars, historyVars
<1> QED
  BY <1>2, <1>3, <1>4, <1>5, <1>6, <1>7 DEF Next

(* A server without a commit in hand.                                      *)
LEMMA NoHand ==
    ASSUME TypeInv, TypeInv', srv'.commit = NoCommit, srv'.pc \notin {"pack", "idx"}
    PROVE  HandInv'
<1>1. 0 <= ncommits'
  BY TypePartsNext DEF TypeInv, HistoryType, CommitIds
<1> QED
  BY <1>1 DEF HandInv, Complete

LEMMA StoppedHand ==
    ASSUME TypeInv, TypeInv', srv' = Down \/ srv' = Failed
    PROVE  HandInv'
  BY NoHand, DownFields, FailedFields DEF TypeInv

(* A step that keeps the commit and writes no object.                      *)
LEMMA SameHand ==
    ASSUME TypeInv, ObjectInv, [Next]_vars, srv'.commit = srv.commit,
           srv'.pc \in {srv.pc, "open", "inforefs", "idle"},
           srv'.pc \in {"pack", "idx"} => UNCHANGED <<idxs, packs>> /\ srv'.opened = srv.opened,
           srv'.pc \in {"open", "inforefs"} => Complete(srv.commit)
    PROVE  HandInv'
<1>1. HandInv /\ TypeOK /\ Grows
  BY ObjectParts, StoreGrows DEF TypeInv
<1>2. srv.commit \in 0 .. MaxCommits /\ (srv.commit # 0 => srv.commit \in CommitIds)
  BY <1>1, CommitNumbers DEF TypeOK
<1>3. Complete(srv.commit) => Complete(srv.commit)'
  BY <1>2, CompleteStays DEF Complete
<1>4. srv'.commit <= ncommits'
  BY <1>1, CommitInts, NextTypeInv, TypePartsNext DEF TypeInv, Grows, HandInv, HistoryType, CommitIds
<1>5. srv.commit # 0 => needs'[srv.commit] \subseteq Stored' \cup {srv.commit}
  BY <1>1, <1>2 DEF Grows, HandInv
<1> QED
  BY <1>1, <1>3, <1>4, <1>5 DEF HandInv

LEMMA BuildHand == ASSUME TypeInv, ObjectInv, NameInv, Build PROVE HandInv'
<1> DEFINE c == ncommits + 1
<1>1. /\ srv'.commit = c /\ srv'.pc = "pack" /\ ncommits' = c /\ c \in CommitIds
      /\ needs'[c] = {c} \cup needs[srv.base] \cup needs[hdr] /\ UNCHANGED idxs
      /\ hdr \in CommitIds /\ srv.base \in CommitIds
  BY BuildFields, BuildHistory DEF TypeInv, Build, repoVars
<1>2. Stored' = Stored
  BY SameStored DEF Build
<1>3. needs[srv.base] \subseteq Stored /\ needs[hdr] \subseteq Stored
  BY <1>1, CommitInts DEF NameInv, Complete, TypeInv
<1>4. idxs[c] = "none" /\ c <= c
  BY <1>1, ObjectParts, CommitInts DEF CellInv, TypeInv
<1> HIDE DEF c
<1> QED
  BY <1>1, <1>2, <1>3, <1>4 DEF HandInv

LEMMA OpenHand == ASSUME TypeInv, ObjectInv, [Next]_vars, OpenObject PROVE HandInv'
<1>1. /\ srv'.commit = srv.commit /\ srv'.pc = srv.pc /\ srv'.opened = TRUE
      /\ srv.commit \in CommitIds /\ RepoType /\ srv.pc \in Uploads
  BY OpenObjectFields, CommitNumbers, TypeParts DEF TypeInv, PcInv, OpenObject, TypeOK
<1>2. HandInv /\ TypeOK /\ Grows /\ srv.commit <= ncommits
  BY ObjectParts, StoreGrows DEF TypeInv, HandInv
<1>3. Complete(srv.commit) => Complete(srv.commit)'
  BY <1>1, CompleteStays, CommitNumbers DEF Complete
<1>4. srv'.commit <= ncommits'
  BY <1>1, <1>2 DEF OpenObject, Upload, historyVars
<1>5. needs'[srv.commit] \subseteq Stored' \cup {srv.commit}
  BY <1>1, <1>2, CommitInts DEF Grows, HandInv
<1>6. srv.pc = "pack" => idxs'[srv.commit] = "none"
  BY <1>2 DEF OpenObject, Upload, HandInv
<1>7. srv.pc = "idx" => packs'[srv.commit] = "whole" /\ idxs'[srv.commit] = "cut"
  BY <1>1, <1>2 DEF OpenObject, Upload, HandInv, RepoType, Cell
<1> QED
  BY <1>1, <1>2, <1>3, <1>4, <1>5, <1>6, <1>7 DEF HandInv

LEMMA FillHand == ASSUME TypeInv, ObjectInv, [Next]_vars, NEW blind, FillObject(blind) PROVE HandInv'
<1>1. /\ srv'.commit = srv.commit /\ srv'.pc = StepAfter[srv.pc] /\ srv'.opened = FALSE
      /\ srv.commit \in CommitIds /\ RepoType /\ srv.pc \in Uploads
  BY FillObjectFields, CommitNumbers, TypeParts DEF TypeInv, PcInv, TypeOK
<1>2. HandInv /\ TypeOK /\ Grows /\ srv.commit <= ncommits
  BY ObjectParts, StoreGrows DEF TypeInv, HandInv
<1>3. Complete(srv.commit) => Complete(srv.commit)'
  BY <1>1, CompleteStays, CommitNumbers DEF Complete
<1>4. srv'.commit <= ncommits'
  BY <1>1, <1>2 DEF FillObject, Upload, historyVars
<1>5. needs'[srv.commit] \subseteq Stored' \cup {srv.commit}
  BY <1>1, <1>2, CommitInts DEF Grows, HandInv
<1>6. CASE srv.pc = "pack"
  <2>1. srv'.pc = "idx"
    BY <1>1, <1>6 DEF StepAfter
  <2>2. packs'[srv.commit] = "whole" /\ idxs'[srv.commit] = "none"
    BY <1>1, <1>2, <1>6 DEF FillObject, Upload, Cell, HandInv, RepoType
  <2> QED
    BY <1>1, <1>4, <1>5, <2>1, <2>2 DEF HandInv
<1>7. CASE srv.pc = "idx"
  <2>1. srv'.pc = "head"
    BY <1>1, <1>7 DEF StepAfter
  <2>2. packs'[srv.commit] = "whole" /\ idxs'[srv.commit] = "whole"
    BY <1>1, <1>2, <1>7 DEF FillObject, Upload, Cell, HandInv, RepoType
  <2>3. srv.commit \in Stored'
    BY <1>1, <2>2 DEF Stored
  <2>4. Complete(srv.commit)'
    BY <1>1, <1>4, <1>5, <2>3 DEF Complete
  <2> QED
    BY <1>1, <1>4, <1>5, <2>1, <2>4 DEF HandInv
<1>8. CASE srv.pc \in {"head", "ref", "inforefs", "infopacks"}
  <2>1. srv'.pc \in {"ref", "refresh", "infopacks", "mark"}
    BY <1>1, <1>8 DEF StepAfter
  <2>2. Complete(srv.commit)'
    BY <1>2, <1>3, <1>8 DEF HandInv
  <2> QED
    BY <1>1, <1>4, <1>5, <2>1, <2>2 DEF HandInv
<1> QED
  BY <1>1, <1>6, <1>7, <1>8 DEF Uploads

LEMMA NextHand == ASSUME TypeInv, StoreInv, [Next]_vars PROVE HandInv'
<1>0. ObjectInv /\ NameInv /\ HandInv /\ PcInv /\ TypeOK
  BY ObjectParts DEF StoreInv, TypeInv
<1>1. TypeInv'
  BY NextTypeInv
<1>2. CASE Connect
  BY <1>0, <1>1, <1>2, ConnectFields, NoHand
<1>3. ASSUME NEW blind \in SUBSET {"loose", "packed", "tree"}, Initialize(blind) PROVE HandInv'
  <2>1. srv.commit = NoCommit
    BY <1>0, <1>3 DEF Initialize, PcInv
  <2> QED
    BY <1>0, <1>1, <1>3, <2>1, InitializeFields, NoHand, StoppedHand
<1>4. CASE NothingToRecover
  <2>1. srv.commit = NoCommit
    BY <1>0, <1>4 DEF NothingToRecover, PcInv
  <2> QED
    BY <1>0, <1>1, <1>4, <2>1, NothingToRecoverFields, NoHand
<1>5. CASE UploadErr \/ FinalizeErr \/ RefreshErr \/ Crash
  BY <1>1, <1>5, StoppedHand DEF UploadErr, FinalizeErr, RefreshErr, Crash
<1>6. CASE Refresh
  <2>1. CASE srv' = Failed
    BY <1>1, <2>1, StoppedHand
  <2>2. CASE srv' # Failed
    <3>1. Complete(srv.commit)
      BY <1>0, <1>6 DEF Refresh, HandInv
    <3> QED
      BY <1>0, <1>6, <2>2, <3>1, RefreshFields, SameHand
  <2> QED
    BY <2>1, <2>2
<1>7. CASE MarkDone
  <2>1. Complete(srv.commit)
    BY <1>0, <1>7 DEF MarkDone, HandInv
  <2> QED
    BY <1>0, <1>7, <2>1, MarkDoneFields, SameHand
<1>8. CASE AdoptAndOpen
  BY <1>0, <1>1, <1>8, AdoptFields, NoHand DEF AdoptAndOpen, PcInv
<1>9. CASE Edit \/ UNCHANGED vars
  <2>1. UNCHANGED <<srv, packs, idxs>>
    BY <1>9 DEF Edit, vars, repoVars
  <2>2. srv.pc \in {"open", "inforefs"} => Complete(srv.commit)
    BY <1>0 DEF HandInv
  <2> QED
    BY <1>0, <2>1, <2>2, SameHand
<1> QED
  BY <1>0, <1>2, <1>3, <1>4, <1>5, <1>6, <1>7, <1>8, <1>9, BuildHand, OpenHand, FillHand DEF Next

LEMMA NextObjectInv == ASSUME TypeInv, StoreInv, [Next]_vars PROVE ObjectInv'
  BY NextHand, NextCells, ObjectParts DEF StoreInv

(* A commit that is complete after the step.                               *)
Lasting(c) == c # NoCommit => c <= ncommits' /\ needs'[c] \subseteq Stored'

LEMMA NameInvNext ==
    ASSUME \A b \in Branches : Lasting(refs'[b]) /\ Lasting(packed'[b]) /\ Lasting(infoRefs'[b]),
           Lasting(head'.oid), Lasting(hdr'), Lasting(srv'.base)
    PROVE  NameInv'
  BY DEF Lasting, NameInv, Complete

(* What is complete stays so: all that has a name, all that reading a      *)
(* name gives, and a commit whose pack and index are uploaded.             *)
LEMMA NamesLast ==
    ASSUME TypeInv, StoreInv, [Next]_vars
    PROVE  /\ \A b \in Branches : Lasting(refs[b]) /\ Lasting(packed[b]) /\ Lasting(infoRefs[b])
           /\ Lasting(head.oid) /\ Lasting(hdr) /\ Lasting(srv.base) /\ Lasting(NoCommit)
           /\ srv.pc \in {"head", "ref", "refresh", "inforefs", "infopacks", "mark", "open"} =>
                 Lasting(srv.commit)
           /\ \A blind : \A b \in Branches : Lasting(RefOf(b, blind))
           /\ \A blind : Lasting(ResolveHead(blind))
<1>0. TypeOK /\ ObjectInv /\ NameInv /\ HandInv
  BY ObjectParts DEF TypeInv, StoreInv
<1>1. ASSUME NEW c \in 0 .. MaxCommits, Complete(c) PROVE Lasting(c)
  BY <1>0, <1>1, CompleteStays DEF Lasting
<1>2. /\ \A b \in Branches : /\ refs[b] \in 0 .. MaxCommits /\ packed[b] \in 0 .. MaxCommits
                             /\ infoRefs[b] \in 0 .. MaxCommits
      /\ head.oid \in 0 .. MaxCommits /\ hdr \in 0 .. MaxCommits
      /\ srv.base \in 0 .. MaxCommits /\ srv.commit \in 0 .. MaxCommits
  BY <1>0 DEF TypeOK
<1>3. \A b \in Branches : Lasting(refs[b]) /\ Lasting(packed[b]) /\ Lasting(infoRefs[b])
  BY <1>0, <1>1, <1>2 DEF NameInv
<1>4. Lasting(head.oid) /\ Lasting(hdr) /\ Lasting(srv.base) /\ Lasting(NoCommit)
  BY <1>0, <1>1, <1>2 DEF NameInv, Lasting
<1>5. srv.pc \in {"head", "ref", "refresh", "inforefs", "infopacks", "mark", "open"} =>
         Lasting(srv.commit)
  BY <1>0, <1>1, <1>2 DEF HandInv
<1>6. \A blind : \A b \in Branches : Lasting(RefOf(b, blind))
  BY <1>3, <1>4 DEF RefOf
<1>7. \A blind : Lasting(ResolveHead(blind))
  BY <1>0, <1>4, <1>6 DEF ResolveHead, TypeOK
<1> QED
  BY <1>3, <1>4, <1>5, <1>6, <1>7

(* The names in the repository after one upload.                           *)
LEMMA UploadNames ==
    ASSUME TypeInv, StoreInv, [Next]_vars, srv.pc \in Uploads, NEW full \in BOOLEAN, NEW blind,
           Upload(full, blind)
    PROVE  /\ \A b \in Branches : Lasting(refs'[b]) /\ Lasting(packed'[b]) /\ Lasting(infoRefs'[b])
           /\ Lasting(head'.oid) /\ Lasting(hdr')
<1>1. TypeOK /\ RepoType /\ Target \in Branches
  BY TypeParts, TargetBranch DEF TypeInv
<1>2. UNCHANGED <<packed, hdr>>
  BY DEF Upload, fixedVars, logVars
<1>3. \A b \in Branches : Lasting(refs'[b])
  <2>1. CASE srv.pc = "ref"
    <3>1. refs' = [refs EXCEPT ![Target] = IF full THEN srv.commit ELSE NoCommit]
      BY <2>1 DEF Upload
    <3>2. Lasting(srv.commit) /\ Lasting(NoCommit) /\ \A b \in Branches : Lasting(refs[b])
      BY <2>1, NamesLast
    <3> QED
      BY <1>1, <3>1, <3>2 DEF RepoType
  <2>2. CASE srv.pc # "ref"
    BY <2>2, NamesLast DEF Upload
  <2> QED
    BY <2>1, <2>2
<1>4. \A b \in Branches : Lasting(infoRefs'[b])
  <2>1. CASE srv.pc = "inforefs"
    <3>1. infoRefs' = IF full THEN CollectedRefs(blind) ELSE [b \in Branches |-> NoCommit]
      BY <2>1 DEF Upload
    <3>2. /\ Lasting(srv.commit) /\ Lasting(NoCommit)
          /\ \A bl : \A b \in Branches : Lasting(RefOf(b, bl))
      BY <2>1, NamesLast
    <3>3. ASSUME NEW b \in Branches PROVE Lasting(CollectedRefs(blind)[b])
      <4>1. PICK bl : CollectedRefs(blind)[b] = IF b = Target THEN srv.commit ELSE RefOf(b, bl)
        BY DEF CollectedRefs
      <4> QED
        BY <3>2, <4>1
    <3>4. ASSUME NEW b \in Branches PROVE Lasting([d \in Branches |-> NoCommit][b])
      BY <3>2
    <3> QED
      BY <3>1, <3>3, <3>4
  <2>2. CASE srv.pc # "inforefs"
    BY <2>2, NamesLast DEF Upload
  <2> QED
    BY <2>1, <2>2
<1>5. Lasting(head'.oid)
  BY NamesLast DEF Upload
<1> QED
  BY <1>2, <1>3, <1>4, <1>5, NamesLast

LEMMA NextNameInv == ASSUME TypeInv, StoreInv, [Next]_vars PROVE NameInv'
<1>0. TypeOK /\ PcInv /\ HandInv
  BY ObjectParts DEF StoreInv, TypeInv
<1>1. UNCHANGED <<repoVars, fixedVars>> =>
        /\ \A b \in Branches : Lasting(refs'[b]) /\ Lasting(packed'[b]) /\ Lasting(infoRefs'[b])
        /\ Lasting(head'.oid)
  BY NamesLast DEF repoVars, fixedVars
<1>2. UNCHANGED logVars => Lasting(hdr')
  BY NamesLast DEF logVars
<1>3. srv' \in {Down, Failed} => Lasting(srv'.base)
  BY <1>0, NamesLast, DownFields, FailedFields
<1>4. CASE Connect
  BY <1>0, <1>1, <1>2, <1>4, NamesLast, NameInvNext, ConnectFields DEF Connect
<1>5. ASSUME NEW blind \in SUBSET {"loose", "packed", "tree"}, Initialize(blind) PROVE NameInv'
  <2>1. UNCHANGED <<repoVars, fixedVars, logVars>>
    BY <1>5 DEF Initialize
  <2>2. Lasting(ResolveHead(blind \ {"tree"}))
    BY NamesLast
  <2>3. Lasting(srv'.base)
    BY <1>0, <1>3, <1>5, <2>2, InitializeFields
  <2> QED
    BY <1>1, <1>2, <2>1, <2>3, NameInvNext
<1>6. CASE NothingToRecover
  BY <1>0, <1>1, <1>6, NamesLast, NameInvNext, NothingToRecoverFields DEF NothingToRecover
<1>7. CASE Build
  BY <1>0, <1>1, <1>2, <1>7, NamesLast, NameInvNext, BuildFields DEF Build
<1>8. CASE OpenObject
  BY <1>0, <1>8, UploadNames, NamesLast, NameInvNext, OpenObjectFields DEF OpenObject
<1>9. ASSUME NEW blind, FillObject(blind) PROVE NameInv'
  BY <1>0, <1>9, UploadNames, NamesLast, NameInvNext, FillObjectFields DEF FillObject
<1>10. CASE FinalizeErr
  BY <1>3, <1>10, UploadNames, NameInvNext DEF FinalizeErr
<1>11. CASE UploadErr \/ RefreshErr \/ Crash
  BY <1>1, <1>2, <1>3, <1>11, NameInvNext DEF UploadErr, RefreshErr, Crash
<1>12. CASE Refresh
  BY <1>0, <1>1, <1>2, <1>3, <1>12, NamesLast, NameInvNext, RefreshFields DEF Refresh
<1>13. CASE MarkDone
  BY <1>0, <1>1, <1>13, NamesLast, NameInvNext, MarkDoneFields DEF MarkDone
<1>14. CASE AdoptAndOpen
  <2>1. Lasting(NewBase) /\ srv.base # NoCommit
    BY <1>0, <1>14, NamesLast DEF AdoptAndOpen, NewBase, PcInv
  <2> QED
    BY <1>0, <1>1, <1>14, <2>1, NameInvNext, AdoptFields DEF AdoptAndOpen
<1>15. CASE Edit
  BY <1>1, <1>15, NamesLast, NameInvNext DEF Edit
<1>16. CASE UNCHANGED vars
  BY <1>16, NamesLast, NameInvNext DEF vars
<1> QED
  BY <1>4, <1>5, <1>6, <1>7, <1>8, <1>9, <1>10, <1>11, <1>12, <1>13, <1>14, <1>15, <1>16 DEF Next

LEMMA InitStoreInv == Init => StoreInv
<1> SUFFICES ASSUME Init PROVE StoreInv
  OBVIOUS
<1>1. PICK s \in Setups :
        /\ loose = s.loose /\ head = s.head /\ refs = s.refs /\ packed = s.packed
        /\ packs = [c \in CommitIds |-> IF c \in Old \ s.loose THEN "whole" ELSE "none"]
        /\ idxs = packs
        /\ infoRefs = [b \in Branches |-> RefOf(b, {})]
        /\ ncommits = 2
        /\ needs = [c \in CommitIds |-> IF c \in Old THEN 1 .. c ELSE {}]
        /\ anc = needs /\ hdr = NoCommit /\ srv = Down
  BY DEF Init
<1>2. /\ s.head \in [ref : Branches \cup {NoBranch}, oid : Old \cup {NoCommit}]
      /\ s.refs \in [Branches -> Old \cup {NoCommit}]
      /\ s.packed \in [Branches -> Old \cup {NoCommit}]
  BY SetupAssumption
<1>3. Old \subseteq Stored
  BY <1>1, CommitNumbers DEF Stored
<1>4. ASSUME NEW c \in Old \cup {NoCommit} PROVE Complete(c)
  BY <1>1, <1>3, CommitNumbers DEF Complete, Old
<1>5. \A b \in Branches : RefOf(b, {}) \in Old \cup {NoCommit}
  BY <1>1, <1>2 DEF RefOf
<1>6. NameInv
  BY <1>1, <1>2, <1>4, <1>5, DownFields DEF NameInv
<1>7. CellInv
  BY <1>1 DEF CellInv, CommitIds, Old
<1>8. HandInv
  BY <1>1, DownFields DEF HandInv
<1> QED
  BY <1>6, <1>7, <1>8, ObjectParts DEF StoreInv

LEMMA StoreInvariant == Spec => [](TypeInv /\ StoreInv)
<1>1. TypeInv /\ StoreInv /\ [Next]_vars => TypeInv' /\ StoreInv'
  BY NextTypeInv, NextObjectInv, NextNameInv DEF StoreInv
<1> QED
  BY <1>1, InitTypeInv, InitStoreInv, PTL DEF Spec

(* Every commit that HEAD, a branch, packed-refs or info/refs names is     *)
(* stored with all the objects it needs, in every state, for every         *)
(* repository, argument and number of crashes and failures: the order of   *)
(* the uploads of write_completed_commit suffices.                         *)
THEOREM NamedCommitsAreStored == Spec => []RefsComplete
<1>1. NameInv => RefsComplete
  BY DEF NameInv, Complete, RefsComplete
<1> QED
  BY <1>1, StoreInvariant, PTL DEF StoreInv

-----------------------------------------------------------------------------
(* The info files.                                                         *)

LEMMA HarmStays == ASSUME [Next]_vars PROVE harm \subseteq harm'
  BY DEF Next, vars, Connect, Initialize, NothingToRecover, Build, OpenObject, FillObject,
         UploadErr, FinalizeErr, Refresh, RefreshErr, MarkDone, AdoptAndOpen, Edit, Crash,
         IgnoredReads

LEMMA NoIgnoredReads ==
    ASSUME NEW blind, IgnoredReads(blind), "read" \notin harm' PROVE blind = {}
  BY DEF IgnoredReads

LEMMA SameRefs ==
    /\ UNCHANGED fixedVars => Target' = Target
    /\ UNCHANGED <<refs, fixedVars>> =>
          (\A b, blind : RefOf(b, blind)' = RefOf(b, blind)) /\ RefsListed' = RefsListed
  BY DEF Target, RefOf, RefsListed, LooseRefs, fixedVars

LEMMA SamePacks ==
    UNCHANGED <<packs, idxs, fixedVars>> =>
        /\ PacksListed' = PacksListed
        /\ Listed("pack")' = Listed("pack") /\ LoadIndexes({})' = LoadIndexes({})
  BY DEF PacksListed, LoadIndexes, Listed, FirstPage, PackObjects, fixedVars

(* No branch is written in a step that is not an upload of a ref.          *)
LEMMA SameInfo ==
    ASSUME InfoInv, [Next]_vars, UNCHANGED <<refs, infoRefs, infoPacks, packs, idxs, fixedVars>>,
           srv'.commit = srv.commit,
           srv'.pc = srv.pc \/ <<srv.pc, srv'.pc>> \in {<<"mark", "open">>, <<"refresh", "inforefs">>}
    PROVE  InfoInv'
<1>1. /\ Target' = Target /\ RefsListed' = RefsListed /\ PacksListed' = PacksListed
      /\ \A b : RefOf(b, {})' = RefOf(b, {})
  BY SameRefs, SamePacks
<1> QED
  BY <1>1, HarmStays DEF InfoInv

LEMMA NoInfo ==
    ASSUME srv'.pc \notin {"refresh", "inforefs", "infopacks", "mark"},
           srv'.pc = "open" => srv'.commit = NoCommit
    PROVE  InfoInv'
  BY DEF InfoInv

LEMMA OpenInfo == ASSUME TypeInv, InfoInv, [Next]_vars, OpenObject PROVE InfoInv'
<1>1. srv'.pc = srv.pc /\ srv'.commit = srv.commit /\ srv.pc \in Uploads
  BY OpenObjectFields DEF TypeInv, OpenObject
<1>2. UNCHANGED fixedVars /\ Target' = Target
  BY SameRefs DEF OpenObject, Upload
<1>3. srv.pc \in {"inforefs", "infopacks"} => UNCHANGED <<refs, packs>>
  BY DEF OpenObject, Upload
<1>4. srv.pc = "infopacks" => /\ UNCHANGED infoRefs /\ RefsListed' = RefsListed
                             /\ \A b : RefOf(b, {})' = RefOf(b, {})
  BY <1>2, <1>3, SameRefs DEF OpenObject, Upload
<1> QED
  BY <1>1, <1>2, <1>3, <1>4, HarmStays DEF InfoInv, Uploads

LEMMA FillInfo ==
    ASSUME TypeInv, InfoInv, [Next]_vars, NEW blind, FillObject(blind) PROVE InfoInv'
<1>1. /\ srv'.pc = StepAfter[srv.pc] /\ srv'.commit = srv.commit /\ srv.pc \in Uploads
      /\ srv.commit # NoCommit /\ TypeOK /\ RepoType
  BY FillObjectFields, TypeParts DEF TypeInv, PcInv
<1>2. UNCHANGED fixedVars /\ Target' = Target /\ Target \in Branches
  BY <1>1, SameRefs, TargetBranch DEF FillObject, Upload
<1>3. "read" \notin harm' => blind = {}
  BY NoIgnoredReads DEF FillObject
<1>4. CASE srv.pc \in {"pack", "idx", "head"}
  BY <1>1, <1>4, NoInfo DEF StepAfter
<1>5. CASE srv.pc = "ref"
  <2>1. refs'[Target] = srv.commit
    BY <1>1, <1>2, <1>5 DEF FillObject, Upload, RepoType
  <2>2. srv'.pc = "refresh"
    BY <1>1, <1>5 DEF StepAfter
  <2> QED
    BY <1>1, <1>2, <2>1, <2>2 DEF InfoInv
<1>6. CASE srv.pc = "inforefs"
  <2>1. /\ srv'.pc = "infopacks" /\ UNCHANGED refs /\ infoRefs' = CollectedRefs(blind)
        /\ refs[Target] = srv.commit
    BY <1>1, <1>6 DEF StepAfter, FillObject, Upload, InfoInv
  <2>2. RefsListed' = RefsListed /\ \A b : RefOf(b, {})' = RefOf(b, {})
    BY <1>2, <2>1, SameRefs
  <2>3. RefOf(Target, {}) = srv.commit
    BY <1>1, <2>1 DEF RefOf
  <2>4. RefsListed => CollectedRefs({}) = [b \in Branches |-> RefOf(b, {})]
    <3>1. RefsListed => FirstPage(LooseRefs, RefPlace) = LooseRefs
      BY <1>1, AllRefsListed
    <3>2. \A b \in Branches : b \notin LooseRefs => RefOf(b, {} \cup {"loose"}) = RefOf(b, {})
      BY DEF LooseRefs, RefOf
    <3> QED
      BY <2>3, <3>1, <3>2 DEF CollectedRefs, RefOf
  <2> QED
    BY <1>1, <1>2, <1>3, <2>1, <2>2, <2>4 DEF InfoInv
<1>7. CASE srv.pc = "infopacks"
  <2>1. /\ srv'.pc = "mark" /\ UNCHANGED <<refs, infoRefs, packs, idxs>>
        /\ infoPacks' = CollectedPacks(blind)
    BY <1>1, <1>7 DEF StepAfter, FillObject, Upload
  <2>2. /\ RefsListed' = RefsListed /\ PacksListed' = PacksListed
        /\ \A b : RefOf(b, {})' = RefOf(b, {})
    BY <1>2, <2>1, SameRefs, SamePacks
  <2>3. PacksListed => {c \in CommitIds : packs[c] = "whole"} \subseteq CollectedPacks({})
    BY <1>1, AllListed DEF CollectedPacks
  <2> QED
    BY <1>1, <1>2, <1>3, <1>7, <2>1, <2>2, <2>3, HarmStays DEF InfoInv
<1> QED
  BY <1>1, <1>4, <1>5, <1>6, <1>7 DEF Uploads

LEMMA NextInfoInv == ASSUME TypeInv, InfoInv, [Next]_vars PROVE InfoInv'
<1>0. TypeOK /\ PcInv
  BY DEF TypeInv
<1>1. CASE Connect
  BY <1>0, <1>1, ConnectFields, NoInfo
<1>2. ASSUME NEW blind \in SUBSET {"loose", "packed", "tree"}, Initialize(blind) PROVE InfoInv'
  BY <1>0, <1>2, InitializeFields, DownFields, NoInfo
<1>3. CASE NothingToRecover
  BY <1>0, <1>3, NothingToRecoverFields, NoInfo DEF NothingToRecover, PcInv
<1>4. CASE Build
  BY <1>0, <1>4, BuildFields, NoInfo
<1>5. CASE UploadErr \/ FinalizeErr \/ RefreshErr \/ Crash
  BY <1>0, <1>5, FailedFields, DownFields, NoInfo DEF UploadErr, FinalizeErr, RefreshErr, Crash
<1>6. CASE Refresh
  <2>1. CASE srv' = Failed
    BY <1>0, <2>1, FailedFields, NoInfo
  <2>2. CASE srv' # Failed
    BY <1>0, <1>6, <2>2, RefreshFields, SameInfo DEF Refresh, repoVars
  <2> QED
    BY <2>1, <2>2
<1>7. CASE MarkDone
  BY <1>0, <1>7, MarkDoneFields, SameInfo DEF MarkDone, repoVars
<1>8. CASE AdoptAndOpen
  BY <1>0, <1>8, AdoptFields, NoInfo DEF AdoptAndOpen, PcInv
<1>9. CASE Edit \/ UNCHANGED vars
  BY <1>9, SameInfo DEF Edit, vars, repoVars, fixedVars
<1> QED
  BY <1>1, <1>2, <1>3, <1>4, <1>5, <1>6, <1>7, <1>8, <1>9, OpenInfo, FillInfo DEF Next

LEMMA InfoInvariant == Spec => []InfoInv
<1>1. Init => InfoInv
  BY DownFields DEF Init, InfoInv
<1>2. TypeInv /\ InfoInv /\ [Next]_vars => InfoInv'
  BY NextInfoInv
<1> QED
  BY <1>1, <1>2, StoreInvariant, PTL DEF Spec

(* When the logs of a commit are marked and no read failed unnoticed,      *)
(* info/refs says what every branch is if refs/ fits on a page, and        *)
(* objects/info/packs lists every pack that what is advertised needs if    *)
(* objects/pack/ does: update_server_info then serves a static clone, for  *)
(* any page size, also after uploads that were left empty.                 *)
THEOREM MarkedCommitIsCloneable == Spec => []Cloneable
<1>1. ASSUME TypeInv, StoreInv, InfoInv PROVE Cloneable
  <2>1. SUFFICES ASSUME srv.pc = "mark", "read" \notin harm, NEW b \in Branches
                 PROVE  /\ RefsListed => infoRefs[b] = RefOf(b, {})
                        /\ PacksListed /\ infoRefs[b] # NoCommit =>
                              needs[infoRefs[b]] \subseteq (infoPacks \cap Stored) \cup loose
    BY DEF Cloneable
  <2>2. RefsListed => infoRefs[b] = RefOf(b, {})
    BY <1>1, <2>1 DEF InfoInv
  <2>3. infoRefs[b] # NoCommit => needs[infoRefs[b]] \subseteq Stored
    BY <1>1 DEF StoreInv, NameInv, Complete
  <2>4. PacksListed => Stored \subseteq (infoPacks \cap Stored) \cup loose
    BY <1>1, <2>1 DEF Stored, InfoInv
  <2> QED
    BY <2>2, <2>3, <2>4
<1> QED
  BY <1>1, StoreInvariant, InfoInvariant, PTL

-----------------------------------------------------------------------------
(* The history of the branches and the trees that are loaded, for servers  *)
(* that write the branch they mount: --branch is given, or HEAD names      *)
(* Master.                                                                 *)

MountsWritten == \A s \in Setups : s.arg # NoBranch \/ s.head.ref = Master

BaseInv == TypeInv /\ StoreInv /\ InfoInv

LEMMA BaseParts ==
    BaseInv => /\ TypeInv /\ TypeOK /\ PcInv /\ StoreInv /\ ObjectInv /\ NameInv /\ InfoInv
               /\ CellInv /\ HandInv /\ RepoType /\ FixedType /\ HistoryType /\ LogType
               /\ srv \in ServerType /\ Target \in Branches
  BY ObjectParts, TypeParts, TargetBranch DEF BaseInv, TypeInv, StoreInv

(* What a step that does not leave p empty may do to the repository:       *)
(* nothing, begin an upload, or end one.                                   *)
QuietFor(p) ==
    /\ UNCHANGED <<repoVars, fixedVars>>
    /\ Writing(p)' <=> Writing(p)
    /\ p = "idx" /\ Writing(p) => srv'.commit = srv.commit

QuietStep == QuietFor("idx") /\ QuietFor("head") /\ QuietFor("ref")

FullStep(blind) == srv.pc \in Uploads /\ srv.opened /\ Upload(TRUE, blind) /\ ~srv'.opened

LEMMA NotWritingQuiet ==
    ASSUME NEW p, UNCHANGED <<repoVars, fixedVars>>, ~srv'.opened, ~Writing(p)
    PROVE  QuietFor(p)
  BY DEF QuietFor, Writing

LEMMA ClosedQuiet ==
    ASSUME NEW p, UNCHANGED <<repoVars, fixedVars>>, ~srv'.opened, ~srv.opened
    PROVE  QuietFor(p)
  BY DEF QuietFor, Writing

LEMMA StepKindsFor ==
    ASSUME TypeInv, [Next]_vars, NEW p \in {"idx", "head", "ref"}, p \notin harm'
    PROVE  QuietFor(p) \/ OpenObject \/ \E blind : FullStep(blind)
<1>0. TypeOK /\ PcInv /\ (srv.opened => srv.pc \in Uploads)
  BY DEF TypeInv, PcInv
<1>1. CASE Connect
  BY <1>0, <1>1, ConnectFields, ClosedQuiet DEF Connect, Uploads
<1>2. ASSUME NEW blind \in SUBSET {"loose", "packed", "tree"}, Initialize(blind) PROVE QuietFor(p)
  <2>1. ~srv.opened /\ UNCHANGED <<repoVars, fixedVars>>
    BY <1>0, <1>2 DEF Initialize, Uploads
  <2> QED
    BY <1>0, <1>2, <2>1, InitializeFields, DownFields, ClosedQuiet
<1>3. CASE NothingToRecover
  BY <1>0, <1>3, NothingToRecoverFields, ClosedQuiet DEF NothingToRecover, Uploads
<1>4. CASE Build
  BY <1>0, <1>4, BuildFields, ClosedQuiet DEF Build, Uploads
<1>5. ASSUME NEW blind, FillObject(blind) PROVE FullStep(blind)
  BY <1>0, <1>5, FillObjectFields DEF FillObject, FullStep
<1>6. CASE FinalizeErr
  BY <1>0, <1>6, FailedFields DEF FinalizeErr, FullStep
<1>7. CASE UploadErr \/ Crash
  <2>1. p \notin LeftEmpty /\ ~srv'.opened /\ UNCHANGED <<repoVars, fixedVars>>
    BY <1>0, <1>7, FailedFields, DownFields DEF UploadErr, Crash
  <2>2. ~Writing(p)
    BY <2>1 DEF LeftEmpty, Writing
  <2> QED
    BY <2>1, <2>2, NotWritingQuiet
<1>8. CASE Refresh
  BY <1>0, <1>8, RefreshFields, FailedFields, ClosedQuiet DEF Refresh, Uploads
<1>9. CASE RefreshErr
  BY <1>0, <1>9, FailedFields, ClosedQuiet DEF RefreshErr, Uploads
<1>10. CASE MarkDone
  BY <1>0, <1>10, MarkDoneFields, ClosedQuiet DEF MarkDone, Uploads
<1>11. CASE AdoptAndOpen
  BY <1>0, <1>11, AdoptFields, ClosedQuiet DEF AdoptAndOpen, Uploads, PcInv
<1>12. CASE Edit
  BY <1>0, <1>12, ClosedQuiet DEF Edit, Uploads
<1>13. CASE UNCHANGED vars
  BY <1>13 DEF vars, QuietFor, Writing, repoVars, fixedVars
<1> QED
  BY <1>1, <1>2, <1>3, <1>4, <1>5, <1>6, <1>7, <1>8, <1>9, <1>10, <1>11, <1>12, <1>13 DEF Next

LEMMA StepKinds ==
    ASSUME TypeInv, [Next]_vars, harm' = {}
    PROVE  QuietStep \/ OpenObject \/ \E blind : FullStep(blind)
  BY StepKindsFor DEF QuietStep

LEMMA OpenWriting ==
    ASSUME TypeOK, OpenObject
    PROVE  \A p : Writing(p)' <=> srv.pc = p
  BY OpenObjectFields DEF Writing

LEMMA FullWriting == ASSUME NEW blind, FullStep(blind) PROVE \A p : ~Writing(p)'
  BY DEF FullStep, Writing

(* The log, the commit in hand and what is kept, unless a commit is built, *)
(* marked or adopted.                                                      *)
PlainStep ==
    /\ UNCHANGED <<kept, historyVars, fixedVars>>
    /\ hdr' \in {hdr, NoCommit}
    /\ srv'.commit \in {srv.commit, NoCommit}
    /\ srv'.commit # NoCommit => srv'.known = srv.known

LEMMA LogSteps ==
    ASSUME TypeInv, [Next]_vars
    PROVE  Build \/ MarkDone \/ AdoptAndOpen \/ PlainStep
<1>0. TypeOK /\ PcInv
  BY DEF TypeInv
<1>1. CASE Connect
  BY <1>0, <1>1, ConnectFields DEF Connect, PlainStep, logVars
<1>2. ASSUME NEW blind \in SUBSET {"loose", "packed", "tree"}, Initialize(blind) PROVE PlainStep
  <2>1. srv.commit = NoCommit /\ UNCHANGED <<fixedVars, historyVars, logVars>>
    BY <1>0, <1>2 DEF Initialize, PcInv
  <2>2. srv'.commit = NoCommit
    BY <1>0, <1>2, <2>1, InitializeFields, DownFields
  <2> QED
    BY <2>1, <2>2 DEF PlainStep, logVars
<1>3. CASE NothingToRecover
  BY <1>0, <1>3, NothingToRecoverFields DEF NothingToRecover, PlainStep
<1>4. CASE OpenObject
  BY <1>0, <1>4, OpenObjectFields DEF OpenObject, Upload, PlainStep, logVars
<1>5. ASSUME NEW blind, FillObject(blind) PROVE PlainStep
  BY <1>0, <1>5, FillObjectFields DEF FillObject, Upload, PlainStep, logVars
<1>6. CASE FinalizeErr
  BY <1>0, <1>6, FailedFields DEF FinalizeErr, Upload, PlainStep, logVars
<1>7. CASE UploadErr \/ Crash \/ RefreshErr
  BY <1>0, <1>7, FailedFields, DownFields DEF UploadErr, Crash, RefreshErr, PlainStep, logVars
<1>8. CASE Refresh
  BY <1>0, <1>8, RefreshFields, FailedFields DEF Refresh, PlainStep, logVars
<1>9. CASE Edit \/ UNCHANGED vars
  BY <1>9 DEF Edit, vars, PlainStep, historyVars, fixedVars
<1> QED
  BY <1>1, <1>2, <1>3, <1>4, <1>5, <1>6, <1>7, <1>8, <1>9 DEF Next

(* What has a name or is in hand keeps its history.                        *)
Fixed(c) == c # NoCommit => /\ c \in CommitIds /\ c <= ncommits
                            /\ needs'[c] = needs[c] /\ anc'[c] = anc[c]

LEMMA NamedFixed ==
    ASSUME BaseInv, [Next]_vars
    PROVE  /\ \A b \in Branches : Fixed(RefOf(b, {}))
           /\ Fixed(ResolveHead({})) /\ Fixed(hdr) /\ Fixed(srv.base) /\ Fixed(srv.commit)
<1>0. TypeOK /\ ObjectInv /\ NameInv /\ HandInv /\ TypeInv
  BY BaseParts
<1>1. ASSUME NEW c \in 0 .. MaxCommits, c # NoCommit => c <= ncommits PROVE Fixed(c)
  BY <1>0, <1>1, StoreGrows, CommitNumbers DEF Fixed, Grows
<1>2. \A b \in Branches : RefOf(b, {}) # NoCommit => RefOf(b, {}) <= ncommits
  BY <1>0 DEF NameInv, Complete, RefOf
<1>3. ResolveHead({}) # NoCommit => ResolveHead({}) <= ncommits
  BY <1>0, <1>2 DEF NameInv, Complete, ResolveHead, TypeOK
<1>4. /\ hdr # NoCommit => hdr <= ncommits
      /\ srv.base # NoCommit => srv.base <= ncommits
      /\ srv.commit # NoCommit => srv.commit <= ncommits
  BY <1>0 DEF NameInv, Complete, HandInv
<1>5. hdr \in 0 .. MaxCommits /\ srv.base \in 0 .. MaxCommits /\ srv.commit \in 0 .. MaxCommits
  BY <1>0 DEF TypeOK
<1>6. \A b \in Branches : Fixed(RefOf(b, {}))
  BY <1>0, <1>1, <1>2, RefType
<1>7. Fixed(ResolveHead({}))
  BY <1>0, <1>1, <1>3, HeadType
<1> QED
  BY <1>1, <1>4, <1>5, <1>6, <1>7

(* HEAD, once the target branch exists.                                    *)
LEMMA HeadIsTip ==
    ASSUME arg = NoBranch => head.ref = Master, Tip # NoCommit
    PROVE  ResolveHead({}) = Tip
  BY BranchAssumption DEF ResolveHead, Tip, Target

LEMMA SameHead ==
    ASSUME UNCHANGED <<head, refs, fixedVars>>
    PROVE  /\ Target' = Target /\ Tip' = Tip /\ ResolveHead({})' = ResolveHead({})
           /\ \A b : RefOf(b, {})' = RefOf(b, {})
<1>1. Target' = Target /\ \A b : RefOf(b, {})' = RefOf(b, {})
  BY SameRefs
<1>2. Tip' = RefOf(Target, {})'
  BY DEF Tip
<1>3. RefOf(Target, {})' = RefOf(Target, {})
  BY DEF RefOf, Target, fixedVars
<1>4. ResolveHead({})' = ResolveHead({})
  BY DEF ResolveHead, RefOf, fixedVars
<1> QED
  BY <1>1, <1>2, <1>3, <1>4 DEF Tip

LEMMA NextHeadIsTarget ==
    ASSUME TypeInv, [Next]_vars, "head" \notin harm', HeadIsTarget PROVE HeadIsTarget'
<1>0. TypeOK
  BY DEF TypeInv
<1>1. CASE QuietFor("head")
  BY <1>1 DEF QuietFor, HeadIsTarget, repoVars, fixedVars
<1>2. CASE OpenObject
  <2>1. UNCHANGED arg /\ (srv.pc # "head" => UNCHANGED head)
    BY <1>2 DEF OpenObject, Upload, fixedVars
  <2>2. srv.pc # "head" => ~Writing("head")
    BY DEF Writing
  <2> QED
    BY <1>0, <1>2, <2>1, <2>2, OpenWriting DEF HeadIsTarget
<1>3. ASSUME NEW blind, FullStep(blind) PROVE HeadIsTarget'
  <2>1. UNCHANGED arg /\ (srv.pc # "head" => UNCHANGED head /\ ~Writing("head"))
    BY <1>3 DEF FullStep, Upload, fixedVars, Writing
  <2>2. srv.pc = "head" => head'.ref = Target
    BY <1>3 DEF FullStep, Upload
  <2> QED
    BY <2>1, <2>2 DEF HeadIsTarget, Target
<1> QED
  BY <1>1, <1>2, <1>3, StepKindsFor

LEMMA NextOneCutIndex ==
    ASSUME BaseInv, [Next]_vars, "idx" \notin harm', OneCutIndex PROVE OneCutIndex'
<1>0. TypeOK /\ RepoType /\ TypeInv
  BY BaseParts
<1>1. CASE QuietFor("idx")
  BY <1>1 DEF QuietFor, OneCutIndex, repoVars
<1>2. CASE OpenObject
  <2>1. srv'.commit = srv.commit /\ srv.commit \in CommitIds
    BY <1>0, <1>2, OpenObjectFields, CommitNumbers DEF OpenObject, TypeInv, PcInv, TypeOK
  <2>2. CASE srv.pc = "idx"
    <3>1. idxs' = [idxs EXCEPT ![srv.commit] = Cell(FALSE)]
      BY <1>2, <2>2 DEF OpenObject, Upload
    <3>2. ~Writing("idx") /\ Writing("idx")'
      BY <1>0, <1>2, <2>2, OpenWriting DEF OpenObject, Writing
    <3> QED
      BY <1>0, <2>1, <3>1, <3>2 DEF OneCutIndex, RepoType
  <2>3. CASE srv.pc # "idx"
    BY <1>2, <2>3 DEF OpenObject, Upload, OneCutIndex, Writing
  <2> QED
    BY <2>2, <2>3
<1>3. ASSUME NEW blind, FullStep(blind) PROVE OneCutIndex'
  <2>1. srv.commit \in CommitIds
    BY <1>0, <1>3, CommitNumbers DEF FullStep, TypeInv, PcInv, TypeOK
  <2>2. CASE srv.pc = "idx"
    BY <1>0, <1>3, <2>1, <2>2 DEF FullStep, Upload, OneCutIndex, RepoType, Cell
  <2>3. CASE srv.pc # "idx"
    BY <1>3, <2>3 DEF FullStep, Upload, OneCutIndex, Writing
  <2> QED
    BY <2>2, <2>3
<1> QED
  BY <1>0, <1>1, <1>2, <1>3, StepKindsFor

(* What a branch has of one thing it must keep.                            *)
BranchHas(b, c) == RefOf(b, {}) # NoCommit /\ c \in anc[RefOf(b, {})]

LEMMA BranchHasStays ==
    ASSUME BaseInv, [Next]_vars, NEW b \in Branches, NEW c, BranchHas(b, c),
           RefOf(b, {})' = RefOf(b, {})
    PROVE  BranchHas(b, c)'
<1>1. Fixed(RefOf(b, {}))
  BY NamedFixed
<1>2. anc'[RefOf(b, {})'] = anc[RefOf(b, {})]
  BY <1>1 DEF Fixed, BranchHas
<1> QED
  BY <1>2 DEF BranchHas

(* The target branch is the commit in hand once its ref is written.        *)
LEMMA RefWritten ==
    ASSUME BaseInv, NEW blind, FullStep(blind), srv.pc = "ref"
    PROVE  /\ refs'[Target] = srv.commit /\ srv.commit # NoCommit
           /\ \A b \in Branches : b # Target => refs'[b] = refs[b]
           /\ UNCHANGED fixedVars /\ UNCHANGED historyVars /\ UNCHANGED <<hdr, kept, head>>
<1>1. RepoType /\ Target \in Branches /\ srv.commit # NoCommit
  BY BaseParts DEF PcInv, Uploads
<1>2. refs' = [refs EXCEPT ![Target] = srv.commit]
  BY DEF FullStep, Upload
<1> QED
  BY <1>1, <1>2 DEF RepoType, FullStep, Upload, logVars

LEMMA OldBranchesKeep ==
    ASSUME BaseInv, [Next]_vars, harm' = {}, BranchesKeep, HandKeeps, NEW k \in kept,
           k.branch # Target \/ ~Writing("ref")'
    PROVE  BranchHas(k.branch, k.commit)'
<1>0. /\ TypeOK /\ RepoType /\ TypeInv /\ Target \in Branches
      /\ k.branch \in Branches /\ k.commit \in CommitIds
  BY BaseParts DEF LogType
<1>1. k.branch # Target \/ ~Writing("ref") => BranchHas(k.branch, k.commit)
  BY DEF BranchesKeep, BranchHas
<1>2. CASE QuietStep
  <2>1. RefOf(k.branch, {})' = RefOf(k.branch, {})
    BY <1>2, SameRefs DEF QuietStep, QuietFor, repoVars
  <2>2. k.branch # Target \/ ~Writing("ref")
    BY <1>2 DEF QuietStep, QuietFor
  <2> QED
    BY <1>0, <1>1, <2>1, <2>2, BranchHasStays
<1>3. CASE OpenObject
  <2>1. k.branch # Target \/ srv.pc # "ref"
    BY <1>0, <1>3, OpenWriting
  <2>2. BranchHas(k.branch, k.commit)
    BY <1>1, <2>1 DEF Writing
  <2>3. refs'[k.branch] = refs[k.branch] /\ UNCHANGED fixedVars
    BY <1>0, <1>3, <2>1 DEF OpenObject, Upload, RepoType
  <2>4. RefOf(k.branch, {})' = RefOf(k.branch, {})
    BY <2>3 DEF RefOf, fixedVars
  <2> QED
    BY <1>0, <2>2, <2>4, BranchHasStays
<1>4. ASSUME NEW blind, FullStep(blind), srv.pc = "ref", k.branch = Target
      PROVE  BranchHas(k.branch, k.commit)'
  <2>1. /\ refs'[Target] = srv.commit /\ srv.commit # NoCommit /\ UNCHANGED anc
    BY <1>4, RefWritten DEF historyVars
  <2>2. RefOf(k.branch, {})' = srv.commit
    BY <1>4, <2>1 DEF RefOf
  <2>3. k.commit \in anc[srv.commit]
    BY <1>4, <2>1 DEF HandKeeps, KeepsTarget
  <2> QED
    BY <2>1, <2>2, <2>3 DEF BranchHas
<1>5. ASSUME NEW blind, FullStep(blind), srv.pc # "ref" \/ k.branch # Target
      PROVE  BranchHas(k.branch, k.commit)'
  <2>1. refs'[k.branch] = refs[k.branch] /\ UNCHANGED fixedVars
    BY <1>0, <1>5, RefWritten DEF FullStep, Upload
  <2>2. RefOf(k.branch, {})' = RefOf(k.branch, {})
    BY <2>1 DEF RefOf, fixedVars
  <2>3. BranchHas(k.branch, k.commit)
    BY <1>1, <1>5 DEF Writing
  <2> QED
    BY <1>0, <2>2, <2>3, BranchHasStays
<1> QED
  BY <1>0, <1>2, <1>3, <1>4, <1>5, StepKinds

LEMMA NextBranchesKeep ==
    ASSUME BaseInv, [Next]_vars, harm' = {}, BranchesKeep, HandKeeps PROVE BranchesKeep'
<1>0. TypeInv
  BY BaseParts
<1>1. Target' = Target
  BY <1>0, LogSteps, SameRefs DEF Build, MarkDone, AdoptAndOpen, PlainStep
<1>2. CASE kept' = kept
  BY <1>1, <1>2, OldBranchesKeep DEF BranchesKeep, BranchHas
<1>3. CASE MarkDone
  <2>1. /\ srv.commit # NoCommit /\ srv.commit \in CommitIds /\ srv.commit <= ncommits
        /\ refs[Target] = srv.commit /\ srv.commit \in anc[srv.commit]
    BY <1>3, BaseParts, CommitNumbers DEF MarkDone, PcInv, InfoInv, HandInv, CellInv, ServerType
  <2>2. PICK new : new = [branch |-> Target, commit |-> srv.commit]
    OBVIOUS
  <2>3. UNCHANGED <<refs, anc>> /\ kept' = kept \cup {new}
    BY <1>3, <2>2 DEF MarkDone, repoVars, historyVars
  <2>4. new.branch = Target /\ new.commit = srv.commit
    BY <2>2
  <2>5. RefOf(new.branch, {})' = srv.commit
    BY <2>1, <2>3, <2>4 DEF RefOf
  <2>6. BranchHas(new.branch, new.commit)'
    BY <2>1, <2>3, <2>4, <2>5 DEF BranchHas
  <2>7. ASSUME NEW k \in kept', k.branch # Target \/ ~Writing("ref")'
        PROVE  BranchHas(k.branch, k.commit)'
    BY <2>3, <2>6, <2>7, OldBranchesKeep
  <2> QED
    BY <1>1, <2>7 DEF BranchesKeep, BranchHas
<1>4. kept' = kept \/ MarkDone
  BY <1>0, LogSteps DEF Build, AdoptAndOpen, PlainStep, logVars
<1> QED
  BY <1>2, <1>3, <1>4

LEMMA OldBranchesStay ==
    ASSUME BaseInv, [Next]_vars, "ref" \notin harm', BranchesStay, NEW k \in kept,
           k.branch # Target \/ ~Writing("ref")'
    PROVE  RefOf(k.branch, {})' # NoCommit
<1>0. TypeOK /\ RepoType /\ TypeInv /\ k.branch \in Branches
  BY BaseParts DEF LogType
<1>1. k.branch # Target \/ ~Writing("ref") => RefOf(k.branch, {}) # NoCommit
  BY DEF BranchesStay
<1>2. CASE QuietFor("ref")
  <2>1. RefOf(k.branch, {})' = RefOf(k.branch, {})
    BY <1>2, SameRefs DEF QuietFor, repoVars
  <2>2. k.branch # Target \/ ~Writing("ref")
    BY <1>2 DEF QuietFor
  <2> QED
    BY <1>1, <2>1, <2>2
<1>3. CASE OpenObject
  <2>1. k.branch # Target \/ srv.pc # "ref"
    BY <1>0, <1>3, OpenWriting
  <2>2. refs'[k.branch] = refs[k.branch] /\ UNCHANGED fixedVars
    BY <1>0, <1>3, <2>1 DEF OpenObject, Upload, RepoType
  <2>3. RefOf(k.branch, {})' = RefOf(k.branch, {})
    BY <2>2 DEF RefOf, fixedVars
  <2> QED
    BY <1>1, <2>1, <2>3 DEF Writing
<1>4. ASSUME NEW blind, FullStep(blind), srv.pc = "ref", k.branch = Target
      PROVE  RefOf(k.branch, {})' # NoCommit
  BY <1>4, RefWritten DEF RefOf
<1>5. ASSUME NEW blind, FullStep(blind), srv.pc # "ref" \/ k.branch # Target
      PROVE  RefOf(k.branch, {})' # NoCommit
  <2>1. refs'[k.branch] = refs[k.branch] /\ UNCHANGED fixedVars
    BY <1>0, <1>5, RefWritten DEF FullStep, Upload
  <2>2. RefOf(k.branch, {})' = RefOf(k.branch, {})
    BY <2>1 DEF RefOf, fixedVars
  <2> QED
    BY <1>1, <1>5, <2>2 DEF Writing
<1> QED
  BY <1>0, <1>2, <1>3, <1>4, <1>5, StepKindsFor

LEMMA NextBranchesStay ==
    ASSUME BaseInv, [Next]_vars, "ref" \notin harm', BranchesStay PROVE BranchesStay'
<1>0. TypeInv
  BY BaseParts
<1>1. Target' = Target
  BY <1>0, LogSteps, SameRefs DEF Build, MarkDone, AdoptAndOpen, PlainStep
<1>2. CASE kept' = kept
  BY <1>1, <1>2, OldBranchesStay DEF BranchesStay
<1>3. CASE MarkDone
  <2>1. srv.commit # NoCommit /\ refs[Target] = srv.commit
    BY <1>3, BaseParts DEF MarkDone, PcInv, InfoInv
  <2>2. PICK new : new = [branch |-> Target, commit |-> srv.commit]
    OBVIOUS
  <2>3. UNCHANGED refs /\ kept' = kept \cup {new} /\ new.branch = Target
    BY <1>3, <2>2 DEF MarkDone, repoVars
  <2>4. RefOf(new.branch, {})' # NoCommit
    BY <2>1, <2>3 DEF RefOf
  <2>5. ASSUME NEW k \in kept', k.branch # Target \/ ~Writing("ref")'
        PROVE  RefOf(k.branch, {})' # NoCommit
    BY <2>3, <2>4, <2>5, OldBranchesStay
  <2> QED
    BY <1>1, <2>5 DEF BranchesStay
<1>4. kept' = kept \/ MarkDone
  BY <1>0, LogSteps DEF Build, AdoptAndOpen, PlainStep, logVars
<1> QED
  BY <1>2, <1>3, <1>4

(* What a boot resolves has all that the target branch must keep.          *)
LEMMA ResolvedKeeps ==
    ASSUME HeadIsTarget, BranchesKeep, ~srv.opened
    PROVE  KeepsTarget(ResolveHead({}))
<1>1. SUFFICES ASSUME NEW k \in kept, k.branch = Target PROVE k.commit \in anc[ResolveHead({})]
  BY DEF KeepsTarget
<1>2. Tip # NoCommit /\ k.commit \in anc[Tip]
  BY <1>1 DEF BranchesKeep, Writing, Tip
<1>3. ResolveHead({}) = Tip
  BY <1>2, HeadIsTip DEF HeadIsTarget, Writing
<1> QED
  BY <1>2, <1>3

LEMMA NextHandKeeps ==
    ASSUME BaseInv, [Next]_vars, harm = {}, HeadIsTarget, BranchesKeep, HandKeeps, BootBase
    PROVE  HandKeeps'
<1>0. TypeInv /\ TypeOK /\ PcInv /\ LogType
  BY BaseParts
<1>1. UNCHANGED fixedVars /\ Target' = Target
  BY <1>0, LogSteps, SameRefs DEF Build, MarkDone, AdoptAndOpen, PlainStep
<1>2. CASE PlainStep
  <2>1. hdr' # NoCommit => KeepsTarget(hdr)'
    BY <1>1, <1>2, NamedFixed DEF PlainStep, HandKeeps, KeepsTarget, Fixed
  <2>2. srv'.commit # NoCommit => KeepsTarget(srv.commit)'
    BY <1>1, <1>2, NamedFixed DEF PlainStep, HandKeeps, KeepsTarget, Fixed
  <2> QED
    BY <2>1, <2>2 DEF HandKeeps
<1>3. CASE Build
  <2>1. /\ srv'.commit = ncommits + 1 /\ anc'[ncommits + 1] = {ncommits + 1} \cup anc[hdr]
        /\ hdr \in CommitIds /\ UNCHANGED <<hdr, kept>>
    BY <1>0, <1>3, BuildFields, BuildHistory DEF Build, logVars
  <2>2. KeepsTarget(hdr) /\ anc'[hdr] = anc[hdr]
    BY <1>0, <2>1, NamedFixed, CommitInts DEF HandKeeps, Fixed
  <2>3. KeepsTarget(hdr)'
    BY <1>1, <2>1, <2>2 DEF KeepsTarget
  <2>4. anc[hdr] \subseteq anc'[srv'.commit]
    BY <2>1
  <2>5. KeepsTarget(srv.commit)'
    BY <1>1, <2>1, <2>2, <2>4 DEF KeepsTarget
  <2> QED
    BY <2>3, <2>5 DEF HandKeeps
<1>4. CASE MarkDone
  <2>1. /\ srv.commit # NoCommit /\ srv.commit \in anc[srv.commit] /\ KeepsTarget(srv.commit)
    BY <1>4, BaseParts, CommitNumbers DEF MarkDone, PcInv, HandInv, CellInv, ServerType, HandKeeps
  <2>2. PICK new : new = [branch |-> Target, commit |-> srv.commit]
    OBVIOUS
  <2>3. new.commit = srv.commit
    BY <2>2
  <2>4. UNCHANGED anc /\ kept' = kept \cup {new} /\ hdr' = NoCommit /\ srv'.commit = srv.commit
    BY <1>0, <1>4, <2>2, MarkDoneFields DEF MarkDone, historyVars
  <2>5. KeepsTarget(srv.commit)'
    BY <1>1, <2>1, <2>3, <2>4 DEF KeepsTarget
  <2> QED
    BY <2>4, <2>5 DEF HandKeeps
<1>5. CASE AdoptAndOpen
  <2>1. srv.pc = "open" /\ ~srv.opened /\ srv.base # NoCommit
    BY <1>0, <1>5 DEF AdoptAndOpen, PcInv, Uploads
  <2>2. srv.commit = NoCommit => KeepsTarget(srv.base)
    BY <2>1, ResolvedKeeps DEF BootBase
  <2>3. KeepsTarget(NewBase)
    BY <2>2 DEF NewBase, HandKeeps
  <2>4. Fixed(NewBase) /\ NewBase # NoCommit
    BY <2>1, NamedFixed DEF NewBase
  <2>5. hdr' = NewBase /\ kept' = kept /\ srv'.commit = NoCommit
    BY <1>0, <1>5, <2>1, AdoptFields DEF AdoptAndOpen
  <2>6. KeepsTarget(hdr)'
    BY <1>1, <2>3, <2>4, <2>5 DEF KeepsTarget, Fixed
  <2> QED
    BY <2>5, <2>6 DEF HandKeeps
<1> QED
  BY <1>0, <1>2, <1>3, <1>4, <1>5, LogSteps

LEMMA NextBootBase ==
    ASSUME BaseInv, [Next]_vars, harm' = {}, BootBase PROVE BootBase'
<1>0. TypeInv /\ TypeOK /\ PcInv
  BY BaseParts
<1>1. CASE Connect
  <2>1. UNCHANGED <<packs, idxs, fixedVars>> /\ srv'.pc = "resolve" /\ srv'.indexes = LoadIndexes({})
    BY <1>0, <1>1, ConnectFields DEF Connect, repoVars
  <2> QED
    BY <2>1, SamePacks DEF BootBase
<1>2. ASSUME NEW blind \in SUBSET {"loose", "packed", "tree"}, Initialize(blind) PROVE BootBase'
  <2>1. blind = {} /\ UNCHANGED <<head, refs, fixedVars>>
    BY <1>2, NoIgnoredReads DEF Initialize, repoVars
  <2>2. ResolveHead({})' = ResolveHead({}) /\ blind \ {"tree"} = {}
    BY <2>1, SameHead
  <2>3. srv' = Down \/ (srv'.pc = "recover" /\ srv'.base = ResolveHead({}))
    BY <1>0, <1>2, <2>2, InitializeFields
  <2> QED
    BY <2>2, <2>3, DownFields DEF BootBase
<1>3. CASE NothingToRecover
  <2>1. UNCHANGED <<head, refs, fixedVars>> /\ srv.commit = NoCommit
    BY <1>0, <1>3 DEF NothingToRecover, repoVars, PcInv
  <2> QED
    BY <1>0, <1>3, <2>1, SameHead, NothingToRecoverFields DEF BootBase, NothingToRecover
<1>4. CASE UNCHANGED vars
  <2>1. UNCHANGED <<head, refs, fixedVars, packs, idxs, srv>>
    BY <1>4 DEF vars, fixedVars
  <2> QED
    BY <2>1, SameHead, SamePacks DEF BootBase
<1>5. ASSUME srv'.pc \notin {"resolve", "recover"}, srv'.pc = "open" => srv'.commit # NoCommit
      PROVE  BootBase'
  BY <1>5 DEF BootBase
<1>6. CASE Build
  BY <1>0, <1>5, <1>6, BuildFields
<1>7. CASE OpenObject
  BY <1>0, <1>5, <1>7, OpenObjectFields DEF OpenObject, Uploads
<1>8. ASSUME NEW blind, FillObject(blind) PROVE BootBase'
  BY <1>0, <1>5, <1>8, FillObjectFields
<1>9. CASE UploadErr \/ FinalizeErr \/ RefreshErr \/ Crash
  BY <1>0, <1>5, <1>9, FailedFields, DownFields DEF UploadErr, FinalizeErr, RefreshErr, Crash
<1>10. CASE Refresh
  BY <1>0, <1>5, <1>10, RefreshFields, FailedFields
<1>11. CASE MarkDone
  BY <1>0, <1>5, <1>11, MarkDoneFields DEF MarkDone, PcInv
<1>12. CASE AdoptAndOpen
  BY <1>0, <1>5, <1>12, AdoptFields DEF AdoptAndOpen, PcInv
<1>13. CASE Edit
  BY <1>5, <1>13 DEF Edit
<1> QED
  BY <1>1, <1>2, <1>3, <1>4, <1>6, <1>7, <1>8, <1>9, <1>10, <1>11, <1>12, <1>13 DEF Next

(* A log whose base is not replaced.                                       *)
LEMMA LogInTipPlain ==
    ASSUME BaseInv, [Next]_vars, harm' = {}, HeadIsTarget, LogInTip, LogInHand,
           hdr' \in {hdr, NoCommit}
    PROVE  LogInTip'
<1>0. TypeOK /\ RepoType /\ TypeInv /\ PcInv /\ Target \in Branches
  BY BaseParts
<1>1. Fixed(hdr) /\ Fixed(Tip) /\ Fixed(ResolveHead({}))
  BY <1>0, NamedFixed DEF Tip
<1> SUFFICES ASSUME hdr' # NoCommit, ~Writing("ref")'
             PROVE  /\ Tip' # NoCommit => needs'[hdr] \subseteq needs'[Tip']
                    /\ ~Writing("head")' /\ ResolveHead({})' # NoCommit =>
                          needs'[hdr] \subseteq needs'[ResolveHead({})']
  BY DEF LogInTip
<1>2. hdr' = hdr /\ hdr # NoCommit /\ needs'[hdr] = needs[hdr]
  BY <1>1 DEF Fixed
<1>3. CASE QuietStep
  <2>1. UNCHANGED <<head, refs, fixedVars>>
    BY <1>3 DEF QuietStep, QuietFor, repoVars
  <2>2. Tip' = Tip /\ ResolveHead({})' = ResolveHead({})
    BY <2>1, SameHead
  <2>3. ~Writing("ref") /\ (Writing("head")' <=> Writing("head"))
    BY <1>3 DEF QuietStep, QuietFor
  <2> QED
    BY <1>1, <1>2, <2>2, <2>3 DEF LogInTip, Fixed
<1>4. CASE OpenObject
  <2>1. srv.pc # "ref" /\ (~Writing("head")' <=> srv.pc # "head") /\ ~Writing("ref") /\ ~Writing("head")
    BY <1>0, <1>4, OpenWriting DEF Writing, OpenObject
  <2>2. UNCHANGED <<refs, fixedVars>> /\ (srv.pc # "head" => UNCHANGED head)
    BY <1>4, <2>1 DEF OpenObject, Upload
  <2>3. Tip' = Tip
    BY <2>2 DEF Tip, RefOf, Target, fixedVars
  <2>4. srv.pc # "head" => ResolveHead({})' = ResolveHead({})
    BY <2>2, SameHead
  <2> QED
    BY <1>1, <1>2, <2>1, <2>3, <2>4 DEF LogInTip, Fixed
<1>5. ASSUME NEW blind, FullStep(blind), srv.pc \notin {"head", "ref"}
      PROVE  /\ Tip' # NoCommit => needs'[hdr] \subseteq needs'[Tip']
             /\ ResolveHead({})' # NoCommit => needs'[hdr] \subseteq needs'[ResolveHead({})']
  <2>1. UNCHANGED <<head, refs, fixedVars>> /\ ~Writing("ref") /\ ~Writing("head")
    BY <1>5 DEF FullStep, Upload, Writing
  <2>2. Tip' = Tip /\ ResolveHead({})' = ResolveHead({})
    BY <2>1, SameHead
  <2> QED
    BY <1>1, <1>2, <2>1, <2>2 DEF LogInTip, Fixed
<1>6. ASSUME NEW blind, FullStep(blind), srv.pc = "head"
      PROVE  /\ Tip' # NoCommit => needs'[hdr] \subseteq needs'[Tip']
             /\ ResolveHead({})' # NoCommit => needs'[hdr] \subseteq needs'[ResolveHead({})']
  <2>1. /\ UNCHANGED <<refs, fixedVars>> /\ ~Writing("ref")
        /\ head' = [ref |-> Target, oid |-> NoCommit]
    BY <1>6 DEF FullStep, Upload, Writing
  <2>2. Tip' = Tip /\ Target' = Target /\ Target # NoBranch
    BY <1>0, <2>1, BranchAssumption DEF Tip, RefOf, Target, fixedVars
  <2>3. ResolveHead({})' = Tip
    BY <2>1, <2>2 DEF ResolveHead, RefOf, Tip, Target, fixedVars
  <2> QED
    BY <1>1, <1>2, <2>1, <2>2, <2>3 DEF LogInTip, Fixed
<1>7. ASSUME NEW blind, FullStep(blind), srv.pc = "ref"
      PROVE  /\ Tip' # NoCommit => needs'[hdr] \subseteq needs'[Tip']
             /\ ResolveHead({})' # NoCommit => needs'[hdr] \subseteq needs'[ResolveHead({})']
  <2>1. /\ refs'[Target] = srv.commit /\ srv.commit # NoCommit
        /\ UNCHANGED <<fixedVars, needs, head>>
    BY <1>7, RefWritten DEF historyVars
  <2>2. Target' = Target /\ Tip' = srv.commit
    BY <2>1 DEF Tip, RefOf, Target, fixedVars
  <2>3. arg = NoBranch => head.ref = Master
    BY <1>7 DEF HeadIsTarget, Writing
  <2>4. ResolveHead({})' = srv.commit
    BY <2>1, <2>3, BranchAssumption DEF ResolveHead, RefOf, Target, fixedVars
  <2> QED
    BY <1>2, <2>1, <2>2, <2>4 DEF LogInHand
<1> QED
  BY <1>0, <1>3, <1>4, <1>5, <1>6, <1>7, StepKinds

LEMMA NextLogInTip ==
    ASSUME BaseInv, [Next]_vars, harm' = {}, HeadIsTarget, BootBase, LogInTip, LogInHand
    PROVE  LogInTip'
<1>0. TypeOK /\ TypeInv /\ PcInv /\ Target \in Branches /\ InfoInv
  BY BaseParts
<1>1. CASE AdoptAndOpen
  <2>1. /\ srv.pc = "open" /\ ~srv.opened /\ srv.base # NoCommit
        /\ UNCHANGED <<head, refs, fixedVars, needs>>
    BY <1>0, <1>1 DEF AdoptAndOpen, PcInv, Uploads, repoVars, historyVars
  <2>2. Tip' = Tip /\ ResolveHead({})' = ResolveHead({}) /\ hdr' = NewBase
    BY <1>1, <2>1, SameHead DEF AdoptAndOpen
  <2>3. Tip # NoCommit => ResolveHead({}) = Tip
    BY <2>1, HeadIsTip DEF HeadIsTarget, Writing
  <2>4. srv.commit # NoCommit => Tip = srv.commit
    BY <1>0, <2>1 DEF InfoInv, Tip, RefOf
  <2>5. NewBase = ResolveHead({})
    BY <2>1, <2>3, <2>4 DEF NewBase, BootBase
  <2> QED
    BY <2>1, <2>2, <2>3, <2>5 DEF LogInTip
<1>2. CASE ~AdoptAndOpen
  <2>1. hdr' \in {hdr, NoCommit}
    BY <1>0, <1>2, LogSteps DEF Build, MarkDone, PlainStep, logVars
  <2> QED
    BY <2>1, LogInTipPlain
<1> QED
  BY <1>1, <1>2

LEMMA NextLogInHand ==
    ASSUME BaseInv, [Next]_vars, LogInHand PROVE LogInHand'
<1>0. TypeInv /\ TypeOK /\ PcInv
  BY BaseParts
<1>1. CASE Build
  <2>1. /\ UNCHANGED hdr /\ srv'.commit = ncommits + 1 /\ hdr \in CommitIds
        /\ needs'[ncommits + 1] = {ncommits + 1} \cup needs[srv.base] \cup needs[hdr]
    BY <1>0, <1>1, BuildFields, BuildHistory DEF Build, logVars
  <2>2. needs'[hdr] = needs[hdr]
    BY <1>0, <2>1, NamedFixed, CommitInts DEF Fixed
  <2>3. needs'[hdr'] \subseteq needs'[srv'.commit]
    BY <2>1, <2>2
  <2> QED
    BY <2>3 DEF LogInHand
<1>2. CASE MarkDone
  BY <1>2 DEF MarkDone, LogInHand
<1>3. CASE AdoptAndOpen
  BY <1>0, <1>3, AdoptFields DEF AdoptAndOpen, LogInHand, PcInv
<1>4. CASE PlainStep
  BY <1>4 DEF PlainStep, LogInHand, historyVars
<1> QED
  BY <1>0, <1>1, <1>2, <1>3, <1>4, LogSteps

LEMMA NextCommitLoaded ==
    ASSUME BaseInv, [Next]_vars, CommitLoaded, BaseLoaded PROVE CommitLoaded'
<1>0. TypeInv /\ TypeOK /\ PcInv
  BY BaseParts
<1>1. CASE Build
  <2>1. /\ srv.pc \in {"recover", "idle"} /\ UNCHANGED hdr /\ srv'.known = srv.known
        /\ srv'.commit = ncommits + 1 /\ hdr \in CommitIds
        /\ needs'[ncommits + 1] = {ncommits + 1} \cup needs[srv.base] \cup needs[hdr]
    BY <1>0, <1>1, BuildFields, BuildHistory DEF Build, logVars
  <2>2. needs[srv.base] \subseteq srv.known /\ needs[hdr] \subseteq srv.known
    BY <1>0, <2>1, CommitInts DEF BaseLoaded
  <2>3. needs'[srv'.commit] \subseteq srv'.known \cup {srv'.commit}
    BY <2>1, <2>2
  <2> QED
    BY <2>3 DEF CommitLoaded
<1>2. CASE MarkDone
  BY <1>0, <1>2, MarkDoneFields DEF MarkDone, CommitLoaded, historyVars
<1>3. CASE AdoptAndOpen
  BY <1>0, <1>3, AdoptFields DEF AdoptAndOpen, CommitLoaded, PcInv
<1>4. CASE PlainStep
  <2>1. srv'.commit # NoCommit => srv'.commit = srv.commit /\ srv'.known = srv.known
    BY <1>4 DEF PlainStep
  <2>2. needs' = needs
    BY <1>4 DEF PlainStep, historyVars
  <2> QED
    BY <2>1, <2>2 DEF CommitLoaded
<1> QED
  BY <1>0, <1>1, <1>2, <1>3, <1>4, LogSteps

(* With every index listed, everything that is stored can be read.         *)
LEMMA StoredReadable ==
    ASSUME CellInv, TypeOK, PacksListed PROVE Stored \subseteq Readable(LoadIndexes({}))
<1>1. LoadIndexes({}) = {c \in CommitIds : idxs[c] # "none"}
  BY AllListed DEF LoadIndexes
<1> QED
  BY <1>1 DEF CellInv, TypeOK, Stored, Readable

(* No object is ever deleted, so what fits on a page now always did.       *)
LEMMA PacksListedBefore == ASSUME TypeInv, [Next]_vars, PacksListed' PROVE PacksListed
<1>0. TypeOK /\ RepoType
  BY TypeParts DEF TypeInv
<1>1. /\ \A c \in CommitIds : /\ packs[c] # "none" => packs'[c] # "none"
                              /\ idxs[c] # "none" => idxs'[c] # "none"
      /\ page' = page
  <2>1. CASE OpenObject \/ FinalizeErr \/ \E blind : FillObject(blind)
    <3>1. PICK full, blind : Upload(full, blind) /\ srv.pc \in Uploads
      BY <2>1 DEF OpenObject, FinalizeErr, FillObject
    <3>2. page' = page
      BY <3>1 DEF Upload, fixedVars
    <3>3. \A c \in CommitIds : /\ packs[c] # "none" => packs'[c] # "none"
                               /\ idxs[c] # "none" => idxs'[c] # "none"
      BY <1>0, <3>1 DEF Upload, RepoType, Cell
    <3> QED
      BY <3>2, <3>3
  <2>2. CASE UNCHANGED <<repoVars, fixedVars>>
    BY <2>2 DEF repoVars, fixedVars
  <2>3. \/ OpenObject \/ FinalizeErr \/ \E blind : FillObject(blind)
        \/ UNCHANGED <<repoVars, fixedVars>>
    BY DEF Next, vars, Connect, Initialize, NothingToRecover, Build, UploadErr, Refresh,
           RefreshErr, MarkDone, AdoptAndOpen, Edit, Crash, repoVars, fixedVars
  <2> QED
    BY <2>1, <2>2, <2>3
<1>2. PackObjects \subseteq PackObjects'
  BY <1>1 DEF PackObjects, PackNames
<1>3. IsFiniteSet(PackObjects')
  <2>1. IsFiniteSet(PackNames) /\ PackObjects' \in SUBSET PackNames
    BY PackNamesFinite DEF PackObjects
  <2> QED
    BY <2>1, FS_Subset
<1>4. Cardinality(PackObjects) <= Cardinality(PackObjects')
  BY <1>2, <1>3, FS_Subset
<1>5. Cardinality(PackObjects) \in Nat /\ Cardinality(PackObjects') \in Nat /\ page \in Nat
  BY <1>0, <1>3, PackObjectsFinite, FS_CardinalityType DEF TypeOK
<1>6. Cardinality(PackObjects') <= page
  BY <1>1 DEF PacksListed
<1> QED
  BY <1>4, <1>5, <1>6 DEF PacksListed

LEMMA NextBaseLoaded ==
    ASSUME BaseInv, [Next]_vars, harm' = {}, PacksListed, BootBase, LogInTip, CommitLoaded,
           BaseLoaded
    PROVE  BaseLoaded'
<1>0. TypeInv /\ TypeOK /\ PcInv /\ CellInv /\ NameInv
  BY BaseParts
<1>1. ASSUME srv'.pc \in {"down", "resolve"} PROVE BaseLoaded'
  BY <1>1 DEF BaseLoaded
<1>2. ASSUME srv.pc \notin {"down", "resolve"}, srv'.base = srv.base, srv'.known = srv.known,
             hdr' \in {hdr, NoCommit}
      PROVE  BaseLoaded'
  <2>1. srv.base # NoCommit /\ Fixed(srv.base) /\ Fixed(hdr)
    BY <1>0, <1>2, NamedFixed DEF PcInv
  <2>2. needs'[srv.base] = needs[srv.base] /\ (hdr # NoCommit => needs'[hdr] = needs[hdr])
    BY <2>1 DEF Fixed
  <2> QED
    BY <1>2, <2>2 DEF BaseLoaded
<1>3. CASE Connect
  BY <1>0, <1>1, <1>3, ConnectFields
<1>4. ASSUME NEW blind \in SUBSET {"loose", "packed", "tree"}, Initialize(blind) PROVE BaseLoaded'
  <2>1. blind = {} /\ UNCHANGED <<hdr, needs>> /\ srv.pc = "resolve"
    BY <1>4, NoIgnoredReads DEF Initialize, logVars, historyVars
  <2>2. CASE srv' = Down
    BY <1>1, <2>2, DownFields
  <2>3. CASE srv' # Down
    <3>1. /\ srv'.base = ResolveHead({}) /\ srv'.base # NoCommit
          /\ srv'.known = needs[srv'.base] \cap Readable(srv.indexes)
      <4>1. blind \ {"tree"} = {}
        BY <2>1
      <4> QED
        BY <1>0, <1>4, <2>1, <2>3, <4>1, InitializeFields
    <3>2. needs[ResolveHead({})] \subseteq Stored
      <4>1. \A b \in Branches : Complete(RefOf(b, {}))
        BY <1>0 DEF NameInv, RefOf, Complete
      <4>2. Complete(ResolveHead({}))
        BY <1>0, <4>1 DEF NameInv, ResolveHead, TypeOK
      <4> QED
        BY <3>1, <4>2 DEF Complete
    <3>3. Stored \subseteq Readable(srv.indexes)
      BY <1>0, <2>1, StoredReadable DEF BootBase
    <3>4. srv'.known = needs[srv'.base]
      BY <3>1, <3>2, <3>3
    <3>5. ~Writing("ref") /\ ~Writing("head")
      BY <2>1 DEF Writing
    <3>6. hdr # NoCommit => needs[hdr] \subseteq needs[srv'.base]
      BY <3>1, <3>5 DEF LogInTip
    <3> QED
      BY <2>1, <3>4, <3>6 DEF BaseLoaded
  <2> QED
    BY <2>2, <2>3
<1>5. CASE NothingToRecover
  BY <1>0, <1>2, <1>5, NothingToRecoverFields DEF NothingToRecover
<1>6. CASE Build
  BY <1>0, <1>2, <1>6, BuildFields DEF Build, logVars
<1>7. CASE OpenObject
  BY <1>0, <1>2, <1>7, OpenObjectFields DEF OpenObject, Upload, Uploads, logVars
<1>8. ASSUME NEW blind, FillObject(blind) PROVE BaseLoaded'
  BY <1>0, <1>2, <1>8, FillObjectFields DEF FillObject, Upload, Uploads, logVars
<1>9. ASSUME srv' \in {Failed, Down}, UNCHANGED logVars, srv.pc \notin {"down", "resolve"} \/ srv' = Down
      PROVE  BaseLoaded'
  <2>1. CASE srv' = Down
    BY <1>1, <2>1, DownFields
  <2>2. CASE srv' = Failed /\ srv.mode = "auto" /\ srv' # Down
    BY <1>0, <1>2, <1>9, <2>2, FailedFields DEF logVars
  <2> QED
    BY <1>0, <1>9, <2>1, <2>2, FailedFields
<1>10. CASE UploadErr \/ FinalizeErr \/ RefreshErr \/ Crash
  BY <1>9, <1>10 DEF UploadErr, FinalizeErr, RefreshErr, Crash, Upload, Uploads
<1>11. CASE Refresh
  <2>1. CASE srv' = Failed
    BY <1>9, <1>11, <2>1 DEF Refresh
  <2>2. CASE srv' # Failed
    BY <1>0, <1>2, <1>11, <2>2, RefreshFields DEF Refresh, logVars
  <2> QED
    BY <2>1, <2>2
<1>12. CASE MarkDone
  BY <1>0, <1>2, <1>12, MarkDoneFields DEF MarkDone
<1>13. CASE AdoptAndOpen
  <2>1. /\ srv.pc = "open" /\ srv.base # NoCommit /\ hdr' = NewBase /\ UNCHANGED needs
        /\ srv'.base = NewBase /\ srv'.known = srv.known \cup {NewBase}
    BY <1>0, <1>13, AdoptFields DEF AdoptAndOpen, PcInv, historyVars
  <2>2. needs[NewBase] \subseteq srv.known \cup {NewBase}
    BY <2>1 DEF NewBase, CommitLoaded, BaseLoaded
  <2> QED
    BY <2>1, <2>2 DEF BaseLoaded
<1>14. CASE Edit
  BY <1>2, <1>14 DEF Edit
<1>15. CASE UNCHANGED vars
  BY <1>1, <1>2, <1>15 DEF vars
<1> QED
  BY <1>3, <1>4, <1>5, <1>6, <1>7, <1>8, <1>10, <1>11, <1>12, <1>13, <1>14, <1>15 DEF Next

LEMMA InitHistory == ASSUME MountsWritten, Init PROVE HistoryInv /\ LoadInv
<1>1. PICK s \in Setups :
        /\ arg = s.arg /\ head = s.head /\ refs = s.refs /\ packed = s.packed
        /\ packs = [c \in CommitIds |-> IF c \in Old \ s.loose THEN "whole" ELSE "none"]
        /\ idxs = packs
        /\ needs = [c \in CommitIds |-> IF c \in Old THEN 1 .. c ELSE {}]
        /\ anc = needs /\ hdr = NoCommit /\ srv = Down
        /\ kept = {k \in [branch : Branches, commit : Old] : k.commit = RefOf(k.branch, {})}
  BY DEF Init
<1>2. HeadIsTarget
  BY <1>1 DEF MountsWritten, HeadIsTarget
<1>3. OneCutIndex
  BY <1>1 DEF OneCutIndex
<1>4. BranchesKeep
  <2>1. SUFFICES ASSUME NEW k \in kept
                 PROVE  RefOf(k.branch, {}) # NoCommit /\ k.commit \in anc[RefOf(k.branch, {})]
    BY DEF BranchesKeep
  <2>2. k.commit \in Old /\ k.commit = RefOf(k.branch, {})
    BY <1>1, <2>1
  <2>3. k.commit # 0 /\ k.commit \in anc[k.commit]
    BY <1>1, <2>2, CommitNumbers DEF Old
  <2> QED
    BY <2>2, <2>3
<1>5. HandKeeps /\ BootBase /\ LogInTip /\ LogInHand /\ CommitLoaded /\ BaseLoaded
  BY <1>1, DownFields DEF HandKeeps, BootBase, LogInTip, LogInHand, CommitLoaded, BaseLoaded
<1>6. BranchesStay
  BY <1>4 DEF BranchesKeep, BranchesStay
<1> QED
  BY <1>2, <1>3, <1>4, <1>5, <1>6 DEF HistoryInv, LoadInv

LEMMA NextHistory ==
    ASSUME BaseInv, HistoryInv, LoadInv, [Next]_vars PROVE HistoryInv' /\ LoadInv'
<1>0. TypeInv /\ harm \subseteq harm'
  BY BaseParts, HarmStays
<1>1. "idx" \notin harm' => OneCutIndex'
  BY <1>0, NextOneCutIndex DEF HistoryInv
<1>2. "head" \notin harm' => HeadIsTarget'
  BY <1>0, NextHeadIsTarget DEF HistoryInv
<1>3. "ref" \notin harm' => BranchesStay'
  BY <1>0, NextBranchesStay DEF HistoryInv
<1>4. ASSUME harm' = {}
      PROVE  /\ BranchesKeep' /\ HandKeeps' /\ BootBase' /\ LogInTip' /\ LogInHand'
             /\ PacksListed' => CommitLoaded' /\ BaseLoaded'
  <2>1. harm = {}
    BY <1>0, <1>4
  <2>2. /\ HeadIsTarget /\ BranchesKeep /\ HandKeeps /\ BootBase /\ LogInTip /\ LogInHand
        /\ PacksListed => CommitLoaded /\ BaseLoaded
    BY <2>1 DEF HistoryInv, LoadInv
  <2>3. PacksListed' => PacksListed
    BY <1>0, PacksListedBefore
  <2> QED
    BY <1>4, <2>1, <2>2, <2>3, NextBranchesKeep, NextHandKeeps, NextBootBase, NextLogInTip,
       NextLogInHand, NextCommitLoaded, NextBaseLoaded
<1> QED
  BY <1>1, <1>2, <1>3, <1>4 DEF HistoryInv, LoadInv

(* The whole invariant, for servers that write the branch they mount:      *)
(* nothing is named before it is stored, whatever happens; the branches    *)
(* keep their history, a boot finds its way and the trees are loaded, each *)
(* under the conditions that its part names.                               *)
THEOREM PublishInvariant == ASSUME MountsWritten PROVE Spec => []PublishInv
<1>1. Init => HistoryInv /\ LoadInv
  BY InitHistory
<1>2. BaseInv /\ HistoryInv /\ LoadInv /\ [Next]_vars => HistoryInv' /\ LoadInv'
  BY NextHistory
<1>3. TypeInv /\ StoreInv /\ InfoInv => BaseInv
  BY DEF BaseInv
<1>4. BaseInv /\ HistoryInv /\ LoadInv => PublishInv
  BY BaseParts DEF PublishInv
<1> QED
  BY <1>1, <1>2, <1>3, <1>4, StoreInvariant, InfoInvariant, PTL DEF Spec

(* A branch never loses a commit that it had or whose log was marked done, *)
(* through crashes, failed uploads, listings that are cut off and retries  *)
(* that start from the older base of a log, as long as no index, HEAD or   *)
(* branch was left empty and no read failed unnoticed.                     *)
THEOREM BranchesKeepCommits == ASSUME MountsWritten PROVE Spec => []KeepsCommits
<1>1. PublishInv => KeepsCommits
  BY DEF PublishInv, HistoryInv, BranchesKeep, KeepsCommits, Writing
<1> QED
  BY <1>1, PublishInvariant, PTL

(* In every state, so wherever the last server stopped: the indexes parse  *)
(* unless one was left empty; resolve_head finds a commit unless the       *)
(* branch was left empty, or HEAD was and no branch was asked for, or HEAD *)
(* names a new branch before its first commit; and what it finds can be    *)
(* read with all it needs, as long as objects/pack/ fits on a page.        *)
THEOREM RestartIsBootable == ASSUME MountsWritten PROVE Spec => []Bootable
<1>1. ASSUME TypeInv, StoreInv, PublishInv PROVE Bootable
  <2>0. TypeOK /\ NameInv /\ CellInv /\ Target \in Branches
    BY <1>1, TargetBranch, ObjectParts DEF TypeInv, StoreInv
  <2>1. Intact("idx") => IndexesParse({})
    BY <1>1 DEF PublishInv, HistoryInv, OneCutIndex, Intact, IndexesParse, Listed
  <2>2. ASSUME Intact("ref"), BranchInPlace PROVE ResolveHead({}) # NoCommit
    <3>1. \A b : Exists(b) => RefOf(b, {}) # NoCommit /\ b \in Branches
      BY <1>1, <2>0, <2>2 DEF PublishInv, HistoryInv, BranchesStay, Intact, Exists, TypeOK
    <3>2. CASE Exists(Target) /\ arg # NoBranch
      BY <3>1, <3>2 DEF Target, ResolveHead
    <3>3. CASE Exists(Target) /\ arg = NoBranch /\ Intact("head")
      <4>1. head.ref = Master
        BY <1>1, <3>3 DEF PublishInv, HistoryInv, HeadIsTarget, Intact
      <4> QED
        BY <3>1, <3>3, <4>1, BranchAssumption DEF Target, ResolveHead
    <3>4. CASE head.ref # Target /\ Exists(head.ref)
      BY <3>1, <3>4, BranchAssumption DEF ResolveHead
    <3>5. CASE head.ref = NoBranch /\ head.oid # NoCommit
      BY <3>5 DEF ResolveHead
    <3> QED
      BY <2>2, <3>2, <3>3, <3>4, <3>5 DEF BranchInPlace
  <2>3. ASSUME PacksListed, ResolveHead({}) # NoCommit
        PROVE  needs[ResolveHead({})] \subseteq Readable(LoadIndexes({}))
    <3>1. Complete(ResolveHead({}))
      <4>1. \A b \in Branches : Complete(RefOf(b, {}))
        BY <2>0 DEF NameInv, RefOf, Complete
      <4> QED
        BY <2>0, <4>1 DEF NameInv, ResolveHead, TypeOK
    <3>2. Stored \subseteq Readable(LoadIndexes({}))
      BY <2>0, <2>3, StoredReadable
    <3> QED
      BY <2>3, <3>1, <3>2 DEF Complete
  <2> QED
    BY <2>1, <2>2, <2>3 DEF Bootable
<1> QED
  BY <1>1, PublishInvariant, StoreInvariant, PTL

(* A server that replays a log or serves clients has loaded every tree of  *)
(* its base and of the commit its log names, as long as objects/pack/ fits *)
(* on a page, no index, HEAD or branch was left empty and no read failed   *)
(* unnoticed.                                                              *)
THEOREM MountedTreesAreLoaded == ASSUME MountsWritten PROVE Spec => []TreesLoaded
<1>1. PublishInv => TreesLoaded
  BY DEF PublishInv, LoadInv, BaseLoaded, TreesLoaded
<1> QED
  BY <1>1, PublishInvariant, PTL
=============================================================================
