----------------------------- MODULE GcsPublish -----------------------------
(***************************************************************************)
(* Publication of commits to a repository in a GCS bucket and what a boot  *)
(* finds there: src/src/git/gcs_storage.rs and GitEngine::initialize.  The *)
(* uploads of write_completed_commit are separate steps, and each of them  *)
(* opens an object, which is then empty, before it fills it.               *)
(*                                                                         *)
(* A commit is a number.  Its objects are its own pack or loose objects,   *)
(* and those of the commits in needs: the ancestors, and the commit its    *)
(* tree was built on.  The log is the commit its header names and whether  *)
(* it holds edits; WalCommit has the rest of it.                           *)
(*                                                                         *)
(* The server lists objects/pack/ and refs/ with one request and never     *)
(* asks for a second page: what is not on the first one does not exist.    *)
(***************************************************************************)
EXTENDS Integers, FiniteSets

CONSTANTS
    Branches,   \* names of branches
    Master,     \* the branch that is written when no --branch is given
    NoBranch,   \* no --branch argument; a HEAD that is not symbolic
    Setups,     \* repositories, arguments and page sizes the server may start with
    PackPlace,  \* place of pack-<c> in the order of names
    RefPlace,   \* place of refs/heads/<b> in it
    MaxCommits, \* bound: commits, the two of the repository included
    MaxMishaps  \* bound: crashes, failing uploads and failing reads

CommitIds == 1 .. MaxCommits
NoCommit == 0
Old == 1 .. 2      \* commits of the repository before the server writes to it

ASSUME BranchAssumption ==
    Master \in Branches /\ NoBranch \notin Branches /\ IsFiniteSet(Branches)
ASSUME PlaceAssumption ==
    /\ PackPlace \in [CommitIds -> Nat] /\ RefPlace \in [Branches -> Nat]
    /\ \A c, d \in CommitIds : PackPlace[c] = PackPlace[d] => c = d
    /\ \A b, d \in Branches : RefPlace[b] = RefPlace[d] => b = d
ASSUME GcsBoundAssumption == MaxCommits \in Nat /\ MaxCommits >= 2 /\ MaxMishaps \in Nat
(* An empty loose ref and a missing one are read alike, so both are         *)
(* NoCommit; so are an empty HEAD and one that names nothing.              *)
ASSUME SetupAssumption ==
    Setups \subseteq [arg : Branches \cup {NoBranch},
                      head : [ref : Branches \cup {NoBranch}, oid : Old \cup {NoCommit}],
                      refs : [Branches -> Old \cup {NoCommit}],
                      packed : [Branches -> Old \cup {NoCommit}],
                      loose : SUBSET Old,
                      page : Nat \ {0}]

VARIABLES
    arg,       \* --branch
    page,      \* objects on a page of a listing
    packs,     \* objects/pack/pack-<c>.pack: "none", "cut" (an empty object) or "whole"
    idxs,      \* objects/pack/pack-<c>.idx
    loose,     \* commits whose objects are loose
    head,      \* HEAD: a symbolic ref, or a commit
    refs,      \* refs/heads/<b>
    packed,    \* packed-refs
    infoRefs,  \* info/refs
    infoPacks, \* objects/info/packs
    ncommits,  \* commits built
    needs,     \* commits whose objects a commit uses
    anc,       \* ancestors of a commit, itself included
    hdr,       \* base commit in the header of the log that is not done, or NoCommit
    edited,    \* that log holds mutations
    kept,      \* what a branch must keep: commits it had, and those whose logs are done
    srv,       \* the server process
    harm,      \* objects left empty, and reads whose failure was ignored
    mishaps    \* mishaps so far

vars == <<arg, page, packs, idxs, loose, head, refs, packed, infoRefs, infoPacks,
          ncommits, needs, anc, hdr, edited, kept, srv, harm, mishaps>>

repoVars == <<packs, idxs, head, refs, infoRefs, infoPacks>>
fixedVars == <<arg, page, loose, packed>>
historyVars == <<ncommits, needs, anc>>
logVars == <<hdr, edited, kept>>

Uploads == {"pack", "idx", "head", "ref", "inforefs", "infopacks"}
Pcs == Uploads \cup {"down", "resolve", "recover", "refresh", "mark", "open", "idle"}

Down == [pc |-> "down", mode |-> "boot", opened |-> FALSE, base |-> NoCommit,
         commit |-> NoCommit, indexes |-> {}, known |-> {}]

-----------------------------------------------------------------------------
(* Reading the repository.                                                 *)

Target == IF arg = NoBranch THEN Master ELSE arg

(* The loose ref, else lookup_packed_ref.  blind: the reads that fail,     *)
(* which is taken for absence.                                             *)
RefOf(b, blind) ==
    IF refs[b] # NoCommit /\ "loose" \notin blind THEN refs[b]
    ELSE IF "packed" \in blind THEN NoCommit ELSE packed[b]

(* Mutant: a symbolic HEAD is looked up among the loose refs only.         *)
ResolveHeadLoose(blind) ==
    LET asked == IF arg = NoBranch THEN NoCommit ELSE RefOf(arg, blind)
    IN IF asked # NoCommit THEN asked
       ELSE IF head.ref # NoBranch THEN refs[head.ref]
       ELSE head.oid

(* resolve_head: the branch that was asked for, else HEAD, symbolic or     *)
(* detached.  NoCommit is its error.                                       *)
ResolveHead(blind) ==
    LET asked == IF arg = NoBranch THEN NoCommit ELSE RefOf(arg, blind)
    IN IF asked # NoCommit THEN asked
       ELSE IF head.ref # NoBranch THEN RefOf(head.ref, blind)
       ELSE head.oid

(* list_objects without a page token: the first objects in the order of    *)
(* their names.                                                            *)
FirstPage(S, at) == {x \in S : Cardinality({y \in S : at[y] < at[x]}) < page}

PackNames == CommitIds \X {"idx", "pack"}
PackAt == [o \in PackNames |-> 2 * PackPlace[o[1]] + (IF o[2] = "idx" THEN 0 ELSE 1)]
PackObjects == {o \in PackNames : (IF o[2] = "idx" THEN idxs ELSE packs)[o[1]] # "none"}

(* Commits whose index, or whose pack, is in a listing of objects/pack/.   *)
Listed(kind) == {c \in CommitIds : <<c, kind>> \in FirstPage(PackObjects, PackAt)}

LooseRefs == {b \in Branches : refs[b] # NoCommit}

(* PackIndex::parse fails on an empty index.                               *)
IndexesParse(loaded) == \A c \in Listed("idx") \ loaded : idxs[c] # "cut"

(* Mutant: only the index of the newest commit is loaded.                  *)
NewestIndex(loaded) == loaded \cup (Listed("idx") \cap {ncommits})

(* refresh_pack_indexes: the listed indexes that are not loaded yet.       *)
LoadIndexes(loaded) == loaded \cup Listed("idx")

(* read_object_raw: a pack whose index is loaded, else a loose object.     *)
Readable(indexes) == {c \in indexes : packs[c] = "whole"} \cup (loose \ indexes)

-----------------------------------------------------------------------------
Init ==
    \E s \in Setups :
        /\ arg = s.arg /\ page = s.page /\ loose = s.loose /\ head = s.head
        /\ refs = s.refs /\ packed = s.packed
        /\ packs = [c \in CommitIds |-> IF c \in Old \ s.loose THEN "whole" ELSE "none"]
        /\ idxs = packs
        /\ infoRefs = [b \in Branches |-> RefOf(b, {})]
        /\ infoPacks = Old \ s.loose
        /\ ncommits = 2
        /\ needs = [c \in CommitIds |-> IF c \in Old THEN 1 .. c ELSE {}]
        /\ anc = needs
        /\ hdr = NoCommit /\ edited = FALSE
        /\ kept = {k \in [branch : Branches, commit : Old] :
                      k.commit = RefOf(k.branch, {})}
        /\ srv = Down
        /\ harm = {} /\ mishaps = 0

Mishap == mishaps < MaxMishaps /\ mishaps' = mishaps + 1

(* Reads that fail without an error: none, or a mishap.                    *)
IgnoredReads(blind) ==
    IF blind = {} THEN UNCHANGED <<harm, mishaps>>
    ELSE Mishap /\ harm' = harm \cup {"read"}

(* The error return of a commit: auto-commit tries again, boot ends.       *)
Failed == IF srv.mode = "auto"
          THEN [srv EXCEPT !.pc = "idle", !.opened = FALSE, !.commit = NoCommit]
          ELSE Down

-----------------------------------------------------------------------------
(* Boot.                                                                   *)

(* GcsGitStorage::new lists and loads the indexes.                         *)
Connect ==
    /\ srv.pc = "down"
    /\ IndexesParse({})
    /\ srv' = [Down EXCEPT !.pc = "resolve", !.indexes = LoadIndexes({})]
    /\ UNCHANGED <<fixedVars, repoVars, historyVars, logVars, harm, mishaps>>

(* initialize: the commit must be readable; trees are loaded in waves, and *)
(* a tree that cannot be read is skipped.                                  *)
Initialize(blind) ==
    LET c == ResolveHead(blind \ {"tree"})
        readable == Readable(srv.indexes)
    IN /\ srv.pc = "resolve"
       /\ IF c # NoCommit /\ c \in readable
          THEN \E skipped \in SUBSET (needs[c] \ {c}) :
                 /\ (skipped # {}) <=> ("tree" \in blind)
                 /\ srv' = [srv EXCEPT !.pc = "recover", !.base = c,
                                       !.known = (needs[c] \cap readable) \ skipped]
          ELSE srv' = Down
       /\ IgnoredReads(blind)
       /\ UNCHANGED <<fixedVars, repoVars, historyVars, logVars>>

(* A log without mutations is marked done with an empty commit.            *)
NothingToRecover ==
    /\ srv.pc = "recover" /\ ~edited
    /\ hdr' = NoCommit
    /\ srv' = [srv EXCEPT !.pc = "open"]
    /\ UNCHANGED <<fixedVars, repoVars, historyVars, edited, kept, harm, mishaps>>

(* A replay of the log over the server's tree, by boot or by a commit.     *)
(* The parent is the base that the log's header names.                     *)
Build ==
    /\ srv.pc \in {"recover", "idle"} /\ edited
    /\ ncommits < MaxCommits
    /\ LET c == ncommits + 1 IN
       /\ ncommits' = c
       /\ needs' = [needs EXCEPT ![c] = {c} \cup needs[srv.base] \cup needs[hdr]]
       /\ anc' = [anc EXCEPT ![c] = {c} \cup anc[hdr]]
       /\ srv' = [srv EXCEPT !.pc = "pack", !.commit = c]
    /\ UNCHANGED <<fixedVars, repoVars, logVars, harm, mishaps>>

-----------------------------------------------------------------------------
(* write_completed_commit and update_server_info.                          *)

(* Mutant: the branch is written before the index.                         *)
RefBeforeIdx ==
    [pack |-> "head", head |-> "ref", ref |-> "idx", idx |-> "refresh",
     refresh |-> "inforefs", inforefs |-> "infopacks", infopacks |-> "mark"]

(* The order of the uploads.                                               *)
StepAfter ==
    [pack |-> "idx", idx |-> "head", head |-> "ref", ref |-> "refresh",
     refresh |-> "inforefs", inforefs |-> "infopacks", infopacks |-> "mark"]

Cell(full) == IF full THEN "whole" ELSE "cut"

(* Mutant: packed-refs override the loose refs.                            *)
PackedOverrides(blind) ==
    [b \in Branches |-> IF b = Target THEN srv.commit
                        ELSE IF packed[b] # NoCommit THEN packed[b] ELSE refs[b]]

(* The refs of update_server_info: packed-refs, overridden by the loose    *)
(* refs that are listed, and the target branch whatever was read.          *)
CollectedRefs(blind) ==
    LET listed == FirstPage(LooseRefs, RefPlace)
    IN [b \in Branches |-> IF b = Target THEN srv.commit
                           ELSE RefOf(b, blind \cup (IF b \in listed THEN {} ELSE {"loose"}))]

(* The packs of update_server_info: those with a loaded index and those    *)
(* that are listed, complete or not.                                       *)
CollectedPacks(blind) ==
    srv.indexes \cup (IF "list" \in blind THEN {} ELSE Listed("pack"))

(* One upload of write_rapid_object: the object is created empty, or has   *)
(* its content.  blind: reads for this upload that failed and are ignored. *)
Upload(full, blind) ==
    LET c == srv.commit IN
    /\ packs' = IF srv.pc = "pack" THEN [packs EXCEPT ![c] = Cell(full)] ELSE packs
    /\ idxs' = IF srv.pc = "idx" THEN [idxs EXCEPT ![c] = Cell(full)] ELSE idxs
    /\ head' = IF srv.pc = "head"
               THEN [ref |-> IF full THEN Target ELSE NoBranch, oid |-> NoCommit]
               ELSE head
    /\ refs' = IF srv.pc = "ref"
               THEN [refs EXCEPT ![Target] = IF full THEN c ELSE NoCommit]
               ELSE refs
    /\ infoRefs' = IF srv.pc = "inforefs"
                   THEN IF full THEN CollectedRefs(blind)
                        ELSE [b \in Branches |-> NoCommit]
                   ELSE infoRefs
    /\ infoPacks' = IF srv.pc = "infopacks"
                    THEN IF full THEN CollectedPacks(blind) ELSE {}
                    ELSE infoPacks
    /\ UNCHANGED <<fixedVars, historyVars, logVars>>

OpenObject ==
    /\ srv.pc \in Uploads /\ ~srv.opened
    /\ Upload(FALSE, {})
    /\ srv' = [srv EXCEPT !.opened = TRUE]
    /\ UNCHANGED <<harm, mishaps>>

(* What was read for this upload: only the info files depend on reads.     *)
Blind == IF srv.pc = "inforefs" THEN SUBSET {"packed", "loose"}
         ELSE IF srv.pc = "infopacks" THEN SUBSET {"list"} ELSE {{}}

FillObject(blind) ==
    /\ srv.pc \in Uploads /\ srv.opened
    /\ blind \in Blind
    /\ Upload(TRUE, blind)
    /\ srv' = [srv EXCEPT !.opened = FALSE, !.pc = StepAfter[srv.pc]]
    /\ IgnoredReads(blind)

(* An object that is left empty and that a boot reads.                     *)
LeftEmpty == IF srv.opened /\ srv.pc \in {"idx", "head", "ref"} THEN {srv.pc} ELSE {}

(* Opening or appending fails: the commit ends with an error.              *)
UploadErr ==
    /\ srv.pc \in Uploads
    /\ Mishap
    /\ harm' = harm \cup LeftEmpty
    /\ srv' = Failed
    /\ UNCHANGED <<fixedVars, repoVars, historyVars, logVars>>

(* Finalizing fails after the content was flushed.                         *)
FinalizeErr ==
    /\ srv.pc \in Uploads /\ srv.opened
    /\ Upload(TRUE, {})
    /\ Mishap
    /\ srv' = Failed
    /\ UNCHANGED harm

(* refresh_pack_indexes at the end of a commit: fails when an index does   *)
(* not parse, and may fail to read one.                                    *)
Refresh ==
    /\ srv.pc = "refresh"
    /\ srv' = IF IndexesParse(srv.indexes)
              THEN [srv EXCEPT !.indexes = LoadIndexes(srv.indexes), !.pc = StepAfter[srv.pc]]
              ELSE Failed
    /\ UNCHANGED <<fixedVars, repoVars, historyVars, logVars, harm, mishaps>>

RefreshErr ==
    /\ srv.pc = "refresh"
    /\ Mishap
    /\ srv' = Failed
    /\ UNCHANGED <<fixedVars, repoVars, historyVars, logVars, harm>>

-----------------------------------------------------------------------------
(* The log and the process.                                                *)

(* mark_log_done for the logs of the commit.                               *)
MarkDone ==
    /\ srv.pc = "mark"
    /\ hdr' = NoCommit /\ edited' = FALSE
    /\ kept' = kept \cup {[branch |-> Target, commit |-> srv.commit]}
    /\ srv' = [srv EXCEPT !.pc = "open"]
    /\ UNCHANGED <<fixedVars, repoVars, historyVars, harm, mishaps>>

(* Mutant: a boot that recovered nothing adopts the absent commit.         *)
AdoptAlways == srv.commit

(* Mutant: the new log names the old base.                                 *)
OldBase == srv.base

(* apply_recovered_objects: the base is the commit, if one was built.      *)
NewBase == IF srv.commit = NoCommit THEN srv.base ELSE srv.commit

(* The commit is adopted, and a new log is opened with the new base.       *)
AdoptAndOpen ==
    /\ srv.pc = "open"
    /\ hdr' = NewBase
    /\ srv' = [srv EXCEPT !.pc = "idle", !.mode = "auto", !.base = NewBase,
                          !.known = @ \cup {NewBase}, !.commit = NoCommit]
    /\ UNCHANGED <<fixedVars, repoVars, historyVars, edited, kept, harm, mishaps>>

(* A client changes a file.                                                *)
Edit ==
    /\ srv.pc = "idle" /\ ~edited
    /\ edited' = TRUE
    /\ UNCHANGED <<fixedVars, repoVars, historyVars, hdr, kept, srv, harm, mishaps>>

Crash ==
    /\ srv.pc # "down"
    /\ Mishap
    /\ harm' = harm \cup LeftEmpty
    /\ srv' = Down
    /\ UNCHANGED <<fixedVars, repoVars, historyVars, logVars>>

Next ==
    \/ Connect
    \/ \E blind \in SUBSET {"loose", "packed", "tree"} : Initialize(blind)
    \/ NothingToRecover \/ Build
    \/ OpenObject
    \/ \E blind \in SUBSET {"loose", "packed", "list"} : FillObject(blind)
    \/ UploadErr \/ FinalizeErr
    \/ Refresh \/ RefreshErr
    \/ MarkDone \/ AdoptAndOpen
    \/ Edit \/ Crash

Spec == Init /\ [][Next]_vars

-----------------------------------------------------------------------------
(* Properties.                                                             *)

(* Every object fits on the first page of its listing.                     *)
PacksListed == Cardinality(PackObjects) <= page
RefsListed == Cardinality(LooseRefs) <= page

(* Object p is being written; it is neither that nor was ever left empty.  *)
Writing(p) == srv.opened /\ srv.pc = p
Intact(p) == p \notin harm /\ ~Writing(p)

Stored == {c \in CommitIds : packs[c] = "whole" /\ idxs[c] = "whole"} \cup loose

(* Every commit that HEAD, a branch, packed-refs or info/refs names can be *)
(* read with all it needs, whatever failed before: write_completed_commit  *)
(* uploads pack and index before it touches a ref, and the base of a       *)
(* commit was itself named by a ref.                                       *)
RefsComplete ==
    LET named == {refs[b] : b \in Branches} \cup {packed[b] : b \in Branches}
                 \cup {infoRefs[b] : b \in Branches} \cup {head.oid}
    IN \A c \in named \ {NoCommit} : needs[c] \subseteq Stored

(* As long as no index, HEAD or branch was left empty and no read failed   *)
(* unnoticed, a branch keeps in its history the commits it had, and every  *)
(* commit whose logs were marked done: through crashes, failed uploads,    *)
(* listings that are cut off and retries that name an older base.  A       *)
(* retried commit may drop the commit of an attempt that was not marked.   *)
KeepsCommits ==
    ~srv.opened /\ harm = {} =>
        \A k \in kept : LET c == RefOf(k.branch, {})
                        IN c # NoCommit /\ k.commit \in anc[c]

Exists(b) == \E k \in kept : k.branch = b

(* A branch for resolve_head to find: the one that is written, by its name *)
(* or through HEAD; or, until the first commit to a new branch turns HEAD  *)
(* to it, what HEAD was before.                                            *)
BranchInPlace ==
    \/ Exists(Target) /\ (arg # NoBranch \/ Intact("head"))
    \/ head.ref # Target /\ Exists(head.ref)
    \/ head.ref = NoBranch /\ head.oid # NoCommit

(* What a boot would find in this state.  GcsGitStorage::new gets through  *)
(* unless an index was left empty.  resolve_head gives a commit, although  *)
(* HEAD is rewritten first, unless the branch was left empty, or HEAD was  *)
(* and there is no --branch, or HEAD names a new branch that is not there  *)
(* yet: the server stopped between the two uploads.  And initialize finds  *)
(* all that the commit needs, whatever was left empty, as long as          *)
(* objects/pack/ fits on a page.                                           *)
Bootable ==
    /\ Intact("idx") => IndexesParse({})
    /\ Intact("ref") /\ BranchInPlace => ResolveHead({}) # NoCommit
    /\ PacksListed /\ ResolveHead({}) # NoCommit =>
          needs[ResolveHead({})] \subseteq Readable(LoadIndexes({}))

(* When the logs of a commit are about to be marked, a static HTTP clone   *)
(* works: info/refs advertises what each branch is, as long as refs/ fits  *)
(* on a page, and objects/info/packs lists the packs that what is          *)
(* advertised needs, as long as objects/pack/ does.  Unless a read failed  *)
(* unnoticed.                                                              *)
Cloneable ==
    srv.pc = "mark" /\ "read" \notin harm =>
        \A b \in Branches :
            /\ RefsListed => infoRefs[b] = RefOf(b, {})
            /\ PacksListed /\ infoRefs[b] # NoCommit =>
                  needs[infoRefs[b]] \subseteq (infoPacks \cap Stored) \cup loose

(* A server that replays a log or serves clients has loaded every tree of  *)
(* its base commit and of the commit that the log names, which may be an   *)
(* older one: initialize skips a tree that no loaded index has.  As long   *)
(* as objects/pack/ fits on a page, no index, HEAD or branch was left      *)
(* empty and no read failed unnoticed.                                     *)
TreesLoaded ==
    srv.pc \in {"recover", "idle"} /\ harm = {} /\ PacksListed =>
        /\ needs[srv.base] \subseteq srv.known
        /\ hdr # NoCommit => needs[hdr] \subseteq srv.known

-----------------------------------------------------------------------------
(* Types of the variables.                                                 *)
TypeOK ==
    /\ arg \in Branches \cup {NoBranch}
    /\ page \in Nat \ {0}
    /\ packs \in [CommitIds -> {"none", "cut", "whole"}]
    /\ idxs \in [CommitIds -> {"none", "cut", "whole"}]
    /\ loose \subseteq CommitIds
    /\ head \in [ref : Branches \cup {NoBranch}, oid : 0 .. MaxCommits]
    /\ refs \in [Branches -> 0 .. MaxCommits]
    /\ packed \in [Branches -> 0 .. MaxCommits]
    /\ infoRefs \in [Branches -> 0 .. MaxCommits]
    /\ infoPacks \subseteq CommitIds
    /\ ncommits \in CommitIds
    /\ needs \in [CommitIds -> SUBSET CommitIds]
    /\ anc \in [CommitIds -> SUBSET CommitIds]
    /\ hdr \in 0 .. MaxCommits
    /\ edited \in BOOLEAN
    /\ kept \subseteq [branch : Branches, commit : CommitIds]
    /\ srv \in [pc : Pcs, mode : {"boot", "auto"}, opened : BOOLEAN,
                base : 0 .. MaxCommits, commit : 0 .. MaxCommits,
                indexes : SUBSET CommitIds, known : SUBSET CommitIds]
    /\ harm \subseteq {"idx", "head", "ref", "read"}
    /\ mishaps \in 0 .. MaxMishaps

-----------------------------------------------------------------------------
(* The inductive invariant behind the properties above.                    *)

(* Where the process may stop decides what it holds: a base once it has    *)
(* resolved one, a commit and a log while it publishes.                    *)
PcInv ==
    /\ srv.opened => srv.pc \in Uploads
    /\ srv.pc \notin {"down", "resolve"} => srv.base # NoCommit
    /\ srv.pc \in Uploads \cup {"refresh", "mark"} => srv.commit # NoCommit /\ edited
    /\ srv.pc \in {"down", "resolve", "recover", "idle"} => srv.commit = NoCommit
    /\ edited \/ srv.pc = "idle" => hdr # NoCommit

(* A commit that is built, and stored with all it needs.                   *)
Complete(c) == c # NoCommit => c <= ncommits /\ needs[c] \subseteq Stored

(* Objects are uploaded in their order and never twice, and the commit in  *)
(* hand is stored as far as its uploads got.                               *)
ObjectInv ==
    /\ \A c \in CommitIds : /\ c > ncommits => packs[c] = "none"
                            /\ idxs[c] # "none" => packs[c] = "whole"
                            /\ c <= ncommits => c \in anc[c]
    /\ srv.commit <= ncommits
    /\ srv.commit # NoCommit => needs[srv.commit] \subseteq Stored \cup {srv.commit}
    /\ srv.pc = "pack" => idxs[srv.commit] = "none"
    /\ srv.pc = "idx" => /\ packs[srv.commit] = "whole"
                        /\ idxs[srv.commit] = IF srv.opened THEN "cut" ELSE "none"
    /\ srv.pc \in {"head", "ref", "refresh", "inforefs", "infopacks", "mark", "open"} =>
          Complete(srv.commit)

(* Nothing names a commit that is not complete.                            *)
NameInv ==
    /\ \A b \in Branches : Complete(refs[b]) /\ Complete(packed[b]) /\ Complete(infoRefs[b])
    /\ Complete(head.oid) /\ Complete(hdr) /\ Complete(srv.base)

(* The target branch, which is empty while it is being written.            *)
Tip == RefOf(Target, {})

(* Commit c has in its history all that the target branch must keep.       *)
KeepsTarget(c) == \A k \in kept : k.branch = Target => k.commit \in anc[c]

(* HEAD is the target when no branch was given.                            *)
HeadIsTarget == arg = NoBranch /\ ~Writing("head") => head.ref = Master

(* The only index that does not parse is the one being written.            *)
OneCutIndex == \A c \in CommitIds : idxs[c] = "cut" => Writing("idx") /\ c = srv.commit

(* The branches have what they must keep, ...                              *)
BranchesKeep ==
    \A k \in kept : k.branch # Target \/ ~Writing("ref") =>
        RefOf(k.branch, {}) # NoCommit /\ k.commit \in anc[RefOf(k.branch, {})]

(* ... and so do the base of the log and the commit in hand.               *)
HandKeeps ==
    /\ hdr # NoCommit => KeepsTarget(hdr)
    /\ srv.commit # NoCommit => KeepsTarget(srv.commit)

(* No branch is lost unless it was left empty.                             *)
BranchesStay ==
    \A k \in kept : k.branch # Target \/ ~Writing("ref") => RefOf(k.branch, {}) # NoCommit

(* Each part holds as long as nothing happened that it does not survive.   *)
HistoryInv ==
    /\ "idx" \notin harm => OneCutIndex
    /\ "head" \notin harm => HeadIsTarget
    /\ "ref" \notin harm => BranchesStay
    /\ harm = {} => BranchesKeep /\ HandKeeps

(* A boot has the listed indexes, and its base is what HEAD resolves to    *)
(* until it has built a commit.                                            *)
BootBase ==
    /\ srv.pc = "resolve" => srv.indexes = LoadIndexes({})
    /\ srv.pc \in {"recover", "open"} /\ srv.commit = NoCommit => srv.base = ResolveHead({})

(* What the log's base needs, the next boot loads: the target branch and   *)
(* what HEAD resolves to need it too.                                      *)
LogInTip ==
    hdr # NoCommit /\ ~Writing("ref") =>
        /\ Tip # NoCommit => needs[hdr] \subseteq needs[Tip]
        /\ ~Writing("head") /\ ResolveHead({}) # NoCommit => needs[hdr] \subseteq needs[ResolveHead({})]

(* The commit in hand needs what the log's base needs.                     *)
LogInHand == srv.commit # NoCommit /\ hdr # NoCommit => needs[hdr] \subseteq needs[srv.commit]

(* The trees of the commit in hand are loaded, ...                         *)
CommitLoaded == srv.commit # NoCommit => needs[srv.commit] \subseteq srv.known \cup {srv.commit}

(* ... and so are those of the server's base and of the log's.             *)
BaseLoaded ==
    srv.pc \notin {"down", "resolve"} =>
        /\ needs[srv.base] \subseteq srv.known
        /\ hdr # NoCommit => needs[hdr] \subseteq srv.known

LoadInv ==
    harm = {} => /\ BootBase /\ LogInTip /\ LogInHand
                 /\ PacksListed => CommitLoaded /\ BaseLoaded

(* The info files have what was published, as far as it was listed.        *)
InfoInv ==
    /\ srv.pc \in {"refresh", "inforefs", "infopacks", "mark", "open"}
            /\ srv.commit # NoCommit => refs[Target] = srv.commit
    /\ "read" \notin harm =>
        /\ srv.pc \in {"infopacks", "mark"} /\ RefsListed =>
              infoRefs = [b \in Branches |-> RefOf(b, {})]
        /\ srv.pc = "mark" /\ PacksListed => {c \in CommitIds : packs[c] = "whole"} \subseteq infoPacks

(* Together: what a boot, a reader and the next commit rely on, wherever   *)
(* the server stopped.                                                     *)
PublishInv == PcInv /\ ObjectInv /\ NameInv /\ HistoryInv /\ LoadInv /\ InfoInv
=============================================================================
