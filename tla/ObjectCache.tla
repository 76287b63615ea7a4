---------------------------- MODULE ObjectCache ----------------------------
(***************************************************************************)
(* The read path of git-nfs: two caches in front of the remote repository, *)
(* each with an LRU map in memory, files on disk and a map of downloads in *)
(* flight that concurrent requests are meant to share.  BlockCache (blocks *)
(* of packfiles, src/src/cache/block.rs) and GitEngine::get_blob_arc       *)
(* (blobs, src/src/git/mod.rs) use the same protocol with different        *)
(* details; prefetch_directory_blobs fills the blob cache beside it.       *)
(*                                                                         *)
(* A request reads or prefetches one object.  Content is abstracted to     *)
(* whole or part: a file that is being written, or whose writing failed,   *)
(* has a part of it.  A Notify is named by the request that created it.    *)
(***************************************************************************)
EXTENDS Integers

CONSTANTS
    Reqs,         \* requests
    NoReq,        \* no request
    BlockKeys,    \* blocks of packfiles
    BlobKeys,     \* blobs
    MaxFails      \* bound: downloads that fail

ASSUME ReqAssumption == NoReq \notin Reqs
ASSUME KeyAssumption == BlockKeys \cap BlobKeys = {}
ASSUME FailAssumption == MaxFails \in Nat

VARIABLES
    mem,     \* per object: its content in memory
    disk,    \* per object: the content of its file
    flight,  \* per object: the Notify of the download in flight
    req,     \* per request: its progress
    fails    \* downloads that failed so far

vars == <<mem, disk, flight, req, fails>>

Keys == BlockKeys \cup BlobKeys
Content == {"none", "part", "whole"}
Pcs == {"mem", "disk", "register", "hold", "wait", "woken", "redisk", "put",
        "fetch", "write", "writing", "cache", "remove", "notify", "done", "failed"}

Init ==
    /\ mem = [k \in Keys |-> "none"]
    /\ disk = [k \in Keys |-> "none"]
    /\ flight = [k \in Keys |-> NoReq]
    /\ req \in [Reqs -> [pc : {"mem"}, key : Keys, prefetch : BOOLEAN,
                         held : {NoReq}, got : {"none"}]]
    /\ \A r \in Reqs : req[r].prefetch => req[r].key \in BlobKeys
    /\ fails = 0

Key(r) == req[r].key
Goto(r, p) == req' = [req EXCEPT ![r].pc = p]
Return(r, c) == req' = [req EXCEPT ![r].pc = "done", ![r].got = c]

Put(k, c) == mem' = [mem EXCEPT ![k] = c]

(* The LRU map is full and requests for other objects, or a directory that *)
(* is prefetched, push this one out.                                       *)
Evict(k) ==
    /\ mem[k] # "none"
    /\ Put(k, "none")
    /\ UNCHANGED <<disk, flight, req, fails>>

(* A prefetch wants only what neither memory nor disk has.                 *)
CheckMem(r) ==
    /\ req[r].pc = "mem"
    /\ IF mem[Key(r)] = "none" THEN Goto(r, "disk")
       ELSE IF req[r].prefetch THEN Goto(r, "done")
       ELSE Return(r, mem[Key(r)])
    /\ UNCHANGED <<mem, disk, flight, fails>>

CheckDisk(r) ==
    /\ req[r].pc = "disk"
    /\ IF req[r].prefetch
       THEN Goto(r, IF disk[Key(r)] = "none" THEN "fetch" ELSE "done")
       ELSE IF disk[Key(r)] = "none" THEN Goto(r, "register")
       ELSE req' = [req EXCEPT ![r].pc = "put", ![r].got = disk[Key(r)]]
    /\ UNCHANGED <<mem, disk, flight, fails>>

(* What was read from the disk goes to memory and to the caller.           *)
PutRead(r) ==
    /\ req[r].pc = "put"
    /\ Put(Key(r), req[r].got)
    /\ Goto(r, "done")
    /\ UNCHANGED <<disk, flight, fails>>

-----------------------------------------------------------------------------
(* Sharing a download.                                                     *)

(* Mutant: the request waits without looking whether there is an entry.    *)
RegisterAlwaysWaits(r) ==
    /\ req[r].pc = "register"
    /\ req' = [req EXCEPT ![r].pc = "hold", ![r].held = flight[Key(r)]]
    /\ UNCHANGED <<mem, disk, flight, fails>>

(* Under the lock of the map: take the Notify that is there, or leave one. *)
Register(r) ==
    /\ req[r].pc = "register"
    /\ IF flight[Key(r)] = NoReq
       THEN flight' = [flight EXCEPT ![Key(r)] = r] /\ Goto(r, "fetch")
       ELSE /\ req' = [req EXCEPT ![r].pc = "hold", ![r].held = flight[Key(r)]]
            /\ UNCHANGED flight
    /\ UNCHANGED <<mem, disk, fails>>

(* notified(), after the lock is released: only a notify_waiters from here *)
(* on is heard.                                                            *)
Subscribe(r) ==
    /\ req[r].pc = "hold"
    /\ Goto(r, "wait")
    /\ UNCHANGED <<mem, disk, flight, fails>>

RecheckMem(r) ==
    /\ req[r].pc = "woken"
    /\ IF mem[Key(r)] = "none" THEN Goto(r, "redisk") ELSE Return(r, mem[Key(r)])
    /\ UNCHANGED <<mem, disk, flight, fails>>

(* Mutant: a woken block request downloads without an entry in the map.    *)
FetchUnregistered(r) ==
    /\ req[r].pc = "redisk"
    /\ IF disk[Key(r)] # "none"
       THEN req' = [req EXCEPT ![r].pc = "put", ![r].got = disk[Key(r)]]
       ELSE Goto(r, "fetch")
    /\ UNCHANGED <<mem, disk, flight, fails>>

(* Nothing there: a block request starts over at the map, a blob request   *)
(* goes on to download without an entry in the map.                        *)
RecheckDisk(r) ==
    /\ req[r].pc = "redisk"
    /\ IF disk[Key(r)] # "none"
       THEN req' = [req EXCEPT ![r].pc = "put", ![r].got = disk[Key(r)]]
       ELSE Goto(r, IF Key(r) \in BlockKeys THEN "register" ELSE "fetch")
    /\ UNCHANGED <<mem, disk, flight, fails>>

-----------------------------------------------------------------------------
(* Downloading.                                                            *)

(* The remote answers.  A blob goes to memory first, a block to disk.      *)
FetchOk(r) ==
    /\ req[r].pc = "fetch"
    /\ req' = [req EXCEPT ![r].pc = "write", ![r].got = "whole"]
    /\ IF Key(r) \in BlobKeys THEN Put(Key(r), "whole") ELSE UNCHANGED mem
    /\ UNCHANGED <<disk, flight, fails>>

(* Mutant: an error leaves without waking the others.                      *)
FailSilently(r) ==
    /\ req[r].pc = "fetch"
    /\ fails < MaxFails
    /\ fails' = fails + 1
    /\ Goto(r, "failed")
    /\ UNCHANGED <<mem, disk, flight>>

FetchErr(r) ==
    /\ req[r].pc = "fetch"
    /\ fails < MaxFails
    /\ fails' = fails + 1
    /\ Goto(r, IF req[r].prefetch THEN "done" ELSE "remove")
    /\ UNCHANGED <<mem, disk, flight>>

(* Mutant: the block is written in place.                                  *)
WriteInPlace(r) ==
    /\ req[r].pc = "write"
    /\ disk' = [disk EXCEPT ![Key(r)] = "part"]
    /\ Goto(r, "writing")
    /\ UNCHANGED <<mem, flight, fails>>

AfterWrite(r) == IF req[r].prefetch THEN "done" ELSE "remove"

(* A block is written to a temporary file and renamed, all or nothing; a   *)
(* blob is written in place, beginning with a truncation, or its file does *)
(* not open.  Errors are ignored.                                          *)
WriteDisk(r) ==
    /\ req[r].pc = "write"
    /\ \/ /\ Key(r) \in BlockKeys
          /\ disk' \in {disk, [disk EXCEPT ![Key(r)] = "whole"]}
          /\ Goto(r, "cache")
       \/ /\ Key(r) \in BlobKeys
          /\ disk' = [disk EXCEPT ![Key(r)] = "part"]
          /\ Goto(r, "writing")
       \/ /\ Key(r) \in BlobKeys
          /\ disk' = disk
          /\ Goto(r, AfterWrite(r))
    /\ UNCHANGED <<mem, flight, fails>>

FinishWrite(r) ==
    /\ req[r].pc = "writing"
    /\ disk' \in {disk, [disk EXCEPT ![Key(r)] = "whole"]}
    /\ Goto(r, AfterWrite(r))
    /\ UNCHANGED <<mem, flight, fails>>

CacheBlock(r) ==
    /\ req[r].pc = "cache"
    /\ Put(Key(r), "whole")
    /\ Goto(r, "remove")
    /\ UNCHANGED <<disk, flight, fails>>

(* The entry of the object, whoever left it, is taken out under the lock.  *)
Remove(r) ==
    /\ req[r].pc = "remove"
    /\ flight' = [flight EXCEPT ![Key(r)] = NoReq]
    /\ req' = [req EXCEPT ![r].pc = "notify", ![r].held = flight[Key(r)]]
    /\ UNCHANGED <<mem, disk, fails>>

(* notify_waiters, and the result of the download to the caller.           *)
Woken(r) == {w \in Reqs : /\ req[r].held # NoReq
                          /\ req[w].pc = "wait" /\ req[w].held = req[r].held}

Notify(r) ==
    /\ req[r].pc = "notify"
    /\ req' = [w \in Reqs |->
                 IF w = r THEN [req[r] EXCEPT !.pc = IF req[r].got = "none" THEN "failed"
                                                     ELSE "done"]
                 ELSE IF w \in Woken(r) THEN [req[w] EXCEPT !.pc = "woken"]
                 ELSE req[w]]
    /\ UNCHANGED <<mem, disk, flight, fails>>

-----------------------------------------------------------------------------
Step(r) ==
    \/ CheckMem(r) \/ CheckDisk(r) \/ PutRead(r) \/ Register(r) \/ Subscribe(r)
    \/ RecheckMem(r) \/ RecheckDisk(r) \/ FetchOk(r) \/ FetchErr(r)
    \/ WriteDisk(r) \/ FinishWrite(r) \/ CacheBlock(r) \/ Remove(r) \/ Notify(r)

Next == (\E r \in Reqs : Step(r)) \/ (\E k \in Keys : Evict(k))

Spec == Init /\ [][Next]_vars

(* Every task of the tokio runtime that can go on does, and a download     *)
(* ends, well or not.                                                      *)
LiveSpec == Spec /\ \A r \in Reqs : WF_vars(Step(r))

-----------------------------------------------------------------------------
(* Type correctness: a request waits or wakes others only through a Notify *)
(* that some request created.                                              *)
TypeOK ==
    /\ mem \in [Keys -> Content]
    /\ disk \in [Keys -> Content]
    /\ flight \in [Keys -> Reqs \cup {NoReq}]
    /\ req \in [Reqs -> [pc : Pcs, key : Keys, prefetch : BOOLEAN,
                         held : Reqs \cup {NoReq}, got : Content]]
    /\ fails \in 0 .. MaxFails
    /\ \A r \in Reqs : req[r].pc \in {"hold", "wait"} => req[r].held # NoReq

Fetching(r) == req[r].pc \in {"fetch", "write", "writing", "cache", "remove"}

(* At any time at most one request downloads a block, and the entry in the *)
(* map is its own: waiting, waking, failing and retrying never let a       *)
(* second one in or take away another's entry.                             *)
OneFetchPerBlock ==
    \A r \in Reqs : Fetching(r) /\ Key(r) \in BlockKeys => flight[Key(r)] = r

WholeIn(K) == /\ \A k \in K : mem[k] # "part"
              /\ \A r \in Reqs : Key(r) \in K => req[r].got # "part"

(* A block is read from disk only when it is complete, whatever writes     *)
(* overlap or fail: the file appears by a rename.                          *)
BlocksWhole == WholeIn(BlockKeys)

(* get_blob_arc returns the content of the blob, and caches nothing else.  *)
BlobsWhole == WholeIn(BlobKeys)

(* A request that waits on a download that is still in the map is woken,   *)
(* by its success and by its failure.                                      *)
SubscribedWakes ==
    \A r \in Reqs : (req[r].pc = "wait" /\ flight[Key(r)] = req[r].held)
                        ~> (req[r].pc # "wait")

(* Every request ends, with the object or with an error.                   *)
RequestsReturn == \A r \in Reqs : <>(req[r].pc \in {"done", "failed"})
=============================================================================
