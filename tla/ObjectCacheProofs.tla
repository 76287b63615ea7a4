------------------------- MODULE ObjectCacheProofs -------------------------
(***************************************************************************)
(* ObjectCache for every set of requests and objects: requests for a block *)
(* share one download, and no request gets a part of a block.              *)
(***************************************************************************)
EXTENDS ObjectCache, TLAPS

ReqRecord == [pc : Pcs, key : Keys, prefetch : BOOLEAN,
              held : Reqs \cup {NoReq}, got : Content]

(* Only blobs are prefetched or written in place.                          *)
BlobPaths == \A r \in Reqs : req[r].prefetch \/ req[r].pc = "writing" => Key(r) \in BlobKeys

BlockFilesWhole == \A k \in BlockKeys : disk[k] # "part"

CacheInv == /\ TypeOK /\ BlobPaths /\ BlockFilesWhole
            /\ OneFetchPerBlock /\ BlocksWhole

USE DEF Key, Fetching

LEMMA ReqRec == ASSUME TypeOK, NEW r \in Reqs PROVE req[r] \in ReqRecord /\ Key(r) \in Keys
  BY DEF TypeOK, ReqRecord

(* A step that changes the pc, and perhaps the Notify or the content, of   *)
(* one request.                                                            *)
Moves(r, p, h, c) ==
    /\ req' \in [Reqs -> ReqRecord]
    /\ \A w \in Reqs \ {r} : req'[w] = req[w]
    /\ req'[r].pc = p /\ req'[r].key = req[r].key /\ req'[r].prefetch = req[r].prefetch
    /\ req'[r].held = h /\ req'[r].got = c

LEMMA MovesPc ==
    ASSUME TypeOK, NEW r \in Reqs, NEW p \in Pcs, Goto(r, p)
    PROVE  Moves(r, p, req[r].held, req[r].got)
<1>1. req[r] \in ReqRecord
  BY ReqRec
<1> QED
  BY <1>1 DEF TypeOK, Moves, ReqRecord, Goto

LEMMA MovesGot ==
    ASSUME TypeOK, NEW r \in Reqs, NEW p \in Pcs, NEW c \in Content,
           req' = [req EXCEPT ![r] = [req[r] EXCEPT !.pc = p, !.got = c]]
    PROVE  Moves(r, p, req[r].held, c)
<1>1. req[r] \in ReqRecord
  BY ReqRec
<1> QED
  BY <1>1 DEF TypeOK, Moves, ReqRecord

LEMMA MovesHeld ==
    ASSUME TypeOK, NEW r \in Reqs, NEW p \in Pcs, NEW h \in Reqs \cup {NoReq},
           req' = [req EXCEPT ![r] = [req[r] EXCEPT !.pc = p, !.held = h]]
    PROVE  Moves(r, p, h, req[r].got)
<1>1. req[r] \in ReqRecord
  BY ReqRec
<1> QED
  BY <1>1 DEF TypeOK, Moves, ReqRecord

(* Such a step keeps the invariant when the request is allowed the new pc  *)
(* and the content.                                                        *)
LEMMA MoveInv ==
    ASSUME CacheInv, NEW r \in Reqs, NEW p, NEW h, NEW c, Moves(r, p, h, c),
           mem' \in [Keys -> Content], disk' \in [Keys -> Content],
           flight' \in [Keys -> Reqs \cup {NoReq}], fails' \in 0 .. MaxFails,
           p \in {"hold", "wait"} => h # NoReq,
           p = "writing" => Key(r) \in BlobKeys,
           \A k \in BlockKeys : mem'[k] # "part" /\ disk'[k] # "part",
           Key(r) \in BlockKeys => c # "part",
           \A w \in Reqs \ {r} : Fetching(w) /\ Key(w) \in BlockKeys => flight'[Key(w)] = w,
           Key(r) \in BlockKeys /\ p \in {"fetch", "write", "writing", "cache", "remove"}
               => flight'[Key(r)] = r
    PROVE  CacheInv'
<1>1. TypeOK'
  BY DEF CacheInv, TypeOK, Moves, ReqRecord
<1>2. BlobPaths'
  BY DEF CacheInv, BlobPaths, Moves
<1>3. BlockFilesWhole'
  BY DEF BlockFilesWhole
<1>4. OneFetchPerBlock'
  BY DEF CacheInv, OneFetchPerBlock, Moves
<1>5. BlocksWhole'
  BY DEF CacheInv, BlocksWhole, WholeIn, Moves
<1> QED
  BY <1>1, <1>2, <1>3, <1>4, <1>5 DEF CacheInv

(* Requests other than the one that moves keep their entries when the map  *)
(* does not change.                                                        *)
LEMMA OthersKeep ==
    ASSUME CacheInv, NEW r \in Reqs, flight' = flight
    PROVE  \A w \in Reqs \ {r} : Fetching(w) /\ Key(w) \in BlockKeys => flight'[Key(w)] = w
  BY DEF CacheInv, OneFetchPerBlock

LEMMA InitCache == Init => CacheInv
<1> SUFFICES ASSUME Init PROVE CacheInv
  OBVIOUS
<1>1. /\ \A r \in Reqs : /\ req[r].pc = "mem" /\ req[r].key \in Keys
                         /\ req[r].held = NoReq /\ req[r].got = "none"
                         /\ req[r].prefetch => req[r].key \in BlobKeys
      /\ req \in [Reqs -> ReqRecord]
  BY DEF Init, ReqRecord, Pcs, Content
<1>2. TypeOK
  BY <1>1, FailAssumption DEF Init, TypeOK, ReqRecord, Content
<1>3. BlobPaths
  BY <1>1 DEF BlobPaths
<1>4. BlockFilesWhole /\ OneFetchPerBlock /\ BlocksWhole
  BY <1>1 DEF Init, Keys, BlockFilesWhole, OneFetchPerBlock, BlocksWhole, WholeIn
<1> QED
  BY <1>2, <1>3, <1>4 DEF CacheInv

(* What the invariant says of the request that moves, in one place.        *)
LEMMA RequestFacts ==
    ASSUME CacheInv, NEW r \in Reqs
    PROVE  /\ req[r] \in ReqRecord
           /\ Key(r) \in Keys
           /\ req[r].got \in Content /\ req[r].held \in Reqs \cup {NoReq}
           /\ mem \in [Keys -> Content] /\ disk \in [Keys -> Content]
           /\ flight \in [Keys -> Reqs \cup {NoReq}] /\ fails \in 0 .. MaxFails
           /\ mem[Key(r)] \in Content /\ disk[Key(r)] \in Content
           /\ flight[Key(r)] \in Reqs \cup {NoReq}
           /\ req[r].pc \in {"hold", "wait"} => req[r].held # NoReq
           /\ req[r].prefetch \/ req[r].pc = "writing" => Key(r) \in BlobKeys
           /\ \A k \in BlockKeys : mem[k] # "part" /\ disk[k] # "part"
           /\ Key(r) \in BlockKeys => req[r].got # "part"
           /\ Key(r) \in BlockKeys /\ Fetching(r) => flight[Key(r)] = r
           /\ Key(r) \in BlockKeys <=> Key(r) \notin BlobKeys
<1>1. req[r] \in ReqRecord /\ Key(r) \in Keys
  BY ReqRec DEF CacheInv
<1>2. Key(r) \in BlockKeys <=> Key(r) \notin BlobKeys
  BY <1>1, KeyAssumption DEF Keys
<1> QED
  BY <1>1, <1>2
     DEF CacheInv, TypeOK, BlobPaths, BlockFilesWhole, OneFetchPerBlock, BlocksWhole,
         WholeIn, ReqRecord

USE DEF Pcs, Content

(* The steps that read the caches and change only the request.             *)
LEMMA ReadSteps ==
    ASSUME CacheInv, NEW r \in Reqs,
           \/ CheckMem(r) \/ CheckDisk(r) \/ Subscribe(r) \/ RecheckMem(r) \/ RecheckDisk(r)
    PROVE  CacheInv'
<1> USE RequestFacts
<1>0. TypeOK /\ UNCHANGED <<mem, disk, flight, fails>>
  BY DEF CacheInv, CheckMem, CheckDisk, Subscribe, RecheckMem, RecheckDisk
<1> DEFINE Free == {"disk", "register", "wait", "put", "done", "redisk"}
<1>1. ASSUME NEW p \in Free, NEW c \in Content, Moves(r, p, req[r].held, c),
             Key(r) \in BlockKeys => c # "part", p = "wait" => req[r].held # NoReq
      PROVE  CacheInv'
  BY <1>0, <1>1, MoveInv, OthersKeep
<1>2. ASSUME NEW p, Key(r) \in BlobKeys, p = "fetch", Goto(r, p)
      PROVE  CacheInv'
  BY <1>0, <1>2, MovesPc, MoveInv, OthersKeep
<1>3. ASSUME NEW p \in Free, Goto(r, p), p = "wait" => req[r].held # NoReq
      PROVE  CacheInv'
  BY <1>0, <1>1, <1>3, MovesPc
<1>4. ASSUME NEW p \in {"put", "done"}, NEW c \in Content, Key(r) \in BlockKeys => c # "part",
             req' = [req EXCEPT ![r] = [req[r] EXCEPT !.pc = p, !.got = c]]
      PROVE  CacheInv'
  BY <1>0, <1>1, <1>4, MovesGot
<1>5. CASE CheckMem(r)
  BY <1>3, <1>4, <1>5, ZenonT(40) DEF CheckMem, Return
<1>6. CASE CheckDisk(r)
  BY <1>2, <1>3, <1>4, <1>6 DEF CheckDisk
<1>7. CASE Subscribe(r)
  BY <1>3, <1>7 DEF Subscribe
<1>8. CASE RecheckMem(r)
  BY <1>3, <1>4, <1>8, ZenonT(40) DEF RecheckMem, Return
<1>9. CASE RecheckDisk(r)
  BY <1>2, <1>3, <1>4, <1>9 DEF RecheckDisk
<1> QED
  BY <1>5, <1>6, <1>7, <1>8, <1>9

(* Joining the downloads in flight: an entry is left only where there was  *)
(* none, so nobody else downloads that block.                              *)
LEMMA RegisterStep == ASSUME CacheInv, NEW r \in Reqs, Register(r) PROVE CacheInv'
<1> USE RequestFacts
<1>0. TypeOK /\ UNCHANGED <<mem, disk, fails>>
  BY DEF CacheInv, Register
<1>1. CASE flight[Key(r)] = NoReq
  <2>1. /\ flight' = [flight EXCEPT ![Key(r)] = r]
        /\ Moves(r, "fetch", req[r].held, req[r].got)
    BY <1>0, <1>1, MovesPc DEF Register
  <2>2. ASSUME NEW w \in Reqs \ {r}, Fetching(w), Key(w) \in BlockKeys
        PROVE  flight'[Key(w)] = w
    <3>1. flight[Key(w)] = w /\ Key(w) \in Keys
      BY <2>2 DEF CacheInv, OneFetchPerBlock, Keys
    <3>2. Key(w) # Key(r)
      BY <3>1, <1>1, ReqAssumption
    <3> QED
      BY <2>1, <3>1, <3>2
  <2> QED
    BY <1>0, <2>1, <2>2, MoveInv
<1>2. CASE flight[Key(r)] # NoReq
  <2>1. flight' = flight /\ Moves(r, "hold", flight[Key(r)], req[r].got)
    BY <1>0, <1>2, MovesHeld DEF Register
  <2> QED
    BY <1>0, <1>2, <2>1, MoveInv, OthersKeep
<1> QED
  BY <1>1, <1>2

(* The steps of the request that downloads, until it leaves the map.       *)
LEMMA PutReadStep == ASSUME CacheInv, NEW r \in Reqs, PutRead(r) PROVE CacheInv'
<1> USE RequestFacts
<1>0. TypeOK /\ UNCHANGED <<disk, flight, fails>>
  BY DEF CacheInv, PutRead
<1>1. Moves(r, "done", req[r].held, req[r].got)
  BY <1>0, MovesPc DEF PutRead
<1>2. mem' \in [Keys -> Content] /\ \A k \in BlockKeys : mem'[k] # "part"
  BY DEF PutRead, Put, Keys
<1> QED
  BY <1>0, <1>1, <1>2, MoveInv, OthersKeep

LEMMA FetchOkStep == ASSUME CacheInv, NEW r \in Reqs, FetchOk(r) PROVE CacheInv'
<1> USE RequestFacts
<1>0. TypeOK /\ UNCHANGED <<disk, flight, fails>> /\ req[r].pc = "fetch"
  BY DEF CacheInv, FetchOk
<1>1. Moves(r, "write", req[r].held, "whole")
  BY <1>0, MovesGot DEF FetchOk
<1>2. mem' \in [Keys -> Content] /\ \A k \in BlockKeys : mem'[k] # "part"
  BY DEF FetchOk, Put, Keys
<1> QED
  BY <1>0, <1>1, <1>2, MoveInv, OthersKeep

LEMMA FetchErrStep == ASSUME CacheInv, NEW r \in Reqs, FetchErr(r) PROVE CacheInv'
<1> USE RequestFacts
<1>0. TypeOK /\ UNCHANGED <<mem, disk, flight>> /\ req[r].pc = "fetch"
  BY DEF CacheInv, FetchErr
<1>1. PICK p \in {"done", "remove"} : Moves(r, p, req[r].held, req[r].got)
  BY <1>0, MovesPc DEF FetchErr
<1>2. fails' \in 0 .. MaxFails
  BY FailAssumption DEF FetchErr
<1> QED
  BY <1>0, <1>1, <1>2, MoveInv, OthersKeep

LEMMA WriteSteps ==
    ASSUME CacheInv, NEW r \in Reqs, WriteDisk(r) \/ FinishWrite(r)
    PROVE  CacheInv'
<1> USE RequestFacts
<1>0. TypeOK /\ UNCHANGED <<mem, flight, fails>> /\ req[r].pc \in {"write", "writing"}
  BY DEF CacheInv, WriteDisk, FinishWrite
<1>1. disk' \in [Keys -> Content] /\ \A k \in BlockKeys : disk'[k] # "part"
  BY KeyAssumption DEF WriteDisk, FinishWrite, Keys
<1>2. \/ Moves(r, "writing", req[r].held, req[r].got) /\ Key(r) \in BlobKeys
      \/ \E p \in {"cache", "done", "remove"} : Moves(r, p, req[r].held, req[r].got)
  BY <1>0, MovesPc DEF WriteDisk, FinishWrite, AfterWrite
<1> QED
  BY <1>0, <1>1, <1>2, MoveInv, OthersKeep

LEMMA CacheBlockStep == ASSUME CacheInv, NEW r \in Reqs, CacheBlock(r) PROVE CacheInv'
<1> USE RequestFacts
<1>0. TypeOK /\ UNCHANGED <<disk, flight, fails>> /\ req[r].pc = "cache"
  BY DEF CacheInv, CacheBlock
<1>1. Moves(r, "remove", req[r].held, req[r].got)
  BY <1>0, MovesPc DEF CacheBlock
<1>2. mem' \in [Keys -> Content] /\ \A k \in BlockKeys : mem'[k] # "part"
  BY DEF CacheBlock, Put, Keys
<1> QED
  BY <1>0, <1>1, <1>2, MoveInv, OthersKeep

(* The entry that a block request takes out is its own, so no other        *)
(* request loses one.                                                      *)
LEMMA RemoveStep == ASSUME CacheInv, NEW r \in Reqs, Remove(r) PROVE CacheInv'
<1> USE RequestFacts
<1>0. TypeOK /\ UNCHANGED <<mem, disk, fails>> /\ req[r].pc = "remove"
  BY DEF CacheInv, Remove
<1>1. Moves(r, "notify", flight[Key(r)], req[r].got)
  BY <1>0, MovesHeld DEF Remove
<1>2. ASSUME NEW w \in Reqs \ {r}, Fetching(w), Key(w) \in BlockKeys
      PROVE  flight'[Key(w)] = w
  <2>1. flight[Key(w)] = w /\ Key(w) \in Keys
    BY <1>2 DEF CacheInv, OneFetchPerBlock, Keys
  <2>2. Key(w) # Key(r)
    BY <1>0, <1>2, <2>1
  <2> QED
    BY <2>1, <2>2 DEF Remove
<1>3. flight' \in [Keys -> Reqs \cup {NoReq}]
  BY DEF Remove
<1> QED
  BY <1>0, <1>1, <1>2, <1>3, MoveInv

(* Waking touches the pc of the sleepers only, and none of them downloads. *)
LEMMA NotifyStep == ASSUME CacheInv, NEW r \in Reqs, Notify(r) PROVE CacheInv'
<1>0. UNCHANGED <<mem, disk, flight, fails>> /\ TypeOK
  BY DEF CacheInv, Notify
<1>1. ASSUME NEW w \in Reqs
      PROVE  /\ req'[w] \in ReqRecord
             /\ req'[w].key = req[w].key /\ req'[w].prefetch = req[w].prefetch
             /\ req'[w].held = req[w].held /\ req'[w].got = req[w].got
             /\ \/ req'[w].pc = req[w].pc
                \/ req'[w].pc \in {"done", "failed", "woken"}
  <2>1. req[w] \in ReqRecord /\ req[r] \in ReqRecord
    BY <1>0, ReqRec
  <2> QED
    BY <2>1 DEF Notify, ReqRecord
<1>2. req' \in [Reqs -> ReqRecord]
  BY <1>1 DEF Notify
<1>3. TypeOK'
  BY <1>0, <1>1, <1>2 DEF TypeOK, ReqRecord
<1>4. BlobPaths' /\ BlockFilesWhole' /\ OneFetchPerBlock' /\ BlocksWhole'
  BY <1>0, <1>1 DEF CacheInv, BlobPaths, BlockFilesWhole, OneFetchPerBlock, BlocksWhole, WholeIn
<1> QED
  BY <1>3, <1>4 DEF CacheInv

LEMMA EvictStep == ASSUME CacheInv, NEW k \in Keys, Evict(k) PROVE CacheInv'
  BY DEF Evict, Put, CacheInv, TypeOK, BlobPaths, BlockFilesWhole, OneFetchPerBlock,
         BlocksWhole, WholeIn, Keys

LEMMA NextCache == CacheInv /\ [Next]_vars => CacheInv'
<1> SUFFICES ASSUME CacheInv, [Next]_vars PROVE CacheInv'
  OBVIOUS
<1>1. CASE UNCHANGED vars
  BY <1>1 DEF vars, CacheInv, TypeOK, BlobPaths, BlockFilesWhole, OneFetchPerBlock,
              BlocksWhole, WholeIn
<1>2. CASE \E k \in Keys : Evict(k)
  BY <1>2, EvictStep
<1>3. ASSUME NEW r \in Reqs, Step(r) PROVE CacheInv'
  BY <1>3, ReadSteps, RegisterStep, PutReadStep, FetchOkStep, FetchErrStep, WriteSteps,
     CacheBlockStep, RemoveStep, NotifyStep DEF Step
<1> QED
  BY <1>1, <1>2, <1>3 DEF Next

(* The invariant of the read path holds in every reachable state.          *)
LEMMA CacheInvariant == Spec => []CacheInv
  BY InitCache, NextCache, PTL DEF Spec

(* Type correctness of the read path, get_or_fetch_block and get_blob_arc: *)
(* a request waits only on a Notify that a request created.                *)
THEOREM CacheTypeCorrect == Spec => []TypeOK
<1>1. CacheInv => TypeOK
  BY DEF CacheInv
<1> QED
  BY <1>1, CacheInvariant, PTL

(* get_or_fetch_block: any number of concurrent requests for a block       *)
(* download it one at a time, each under its own entry of in_flight.       *)
THEOREM BlocksShareOneFetch == Spec => []OneFetchPerBlock
<1>1. CacheInv => OneFetchPerBlock
  BY DEF CacheInv
<1> QED
  BY <1>1, CacheInvariant, PTL

(* get_or_fetch_block: no request is given, and no cache holds, a part of  *)
(* a block, whatever writes and downloads fail or overlap.                 *)
THEOREM BlocksNeverTorn == Spec => []BlocksWhole
<1>1. CacheInv => BlocksWhole
  BY DEF CacheInv
<1> QED
  BY <1>1, CacheInvariant, PTL
=============================================================================
