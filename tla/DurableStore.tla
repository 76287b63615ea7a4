---------------------------- MODULE DurableStore ----------------------------
(***************************************************************************)
(* What the write-ahead log and the commit cycle promise together: a       *)
(* mutation that has become durable stays durable, and the published       *)
(* branch only ever gains mutations, all of them durable ones.  Logs,      *)
(* processes, crashes and retries do not appear.                           *)
(***************************************************************************)
CONSTANT Muts

VARIABLES durable,  \* mutations no crash can lose any more
          branch    \* mutations in the tree the branch names

storeVars == <<durable, branch>>

Init == durable = {} /\ branch = {}

(* A log takes a mutation.                                                 *)
Accept(m) == /\ m \notin durable
             /\ durable' = durable \cup {m}
             /\ UNCHANGED branch

(* A commit makes some durable mutations visible to readers of the branch. *)
Publish == /\ branch' \in SUBSET durable
           /\ branch \subseteq branch'
           /\ UNCHANGED durable

Next == Publish \/ \E m \in Muts : Accept(m)

Spec == Init /\ [][Next]_storeVars
=============================================================================
