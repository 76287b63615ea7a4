------------------------------- MODULE MCGcs -------------------------------
(* Small repositories for TLC: two commits, the branch Master and another  *)
(* one, loose and packed.                                                  *)
EXTENDS GcsPublish

CONSTANT Other

Symbolic(b) == [ref |-> b, oid |-> NoCommit]
Detached(c) == [ref |-> NoBranch, oid |-> c]
Refs(m, o) == [b \in Branches |-> IF b = Master THEN m ELSE o]

(* The branch that is mounted is the branch that is written.               *)
MCSetups ==
    {s \in [arg : {NoBranch, Master, Other},
            head : {Symbolic(Master), Detached(2)},
            refs : {Refs(2, 0), Refs(2, 1), Refs(0, 0)},
            packed : {Refs(0, 0), Refs(2, 0), Refs(1, 0)},
            loose : {{}, {2}},
            page : {1, 8}] :
        /\ s.refs[Master] # NoCommit \/ s.packed[Master] = 2
        /\ s.arg # NoBranch \/ s.head = Symbolic(Master)}

(* HEAD names another branch than Master, and there is no --branch.        *)
MCDefaultSetups ==
    {[arg |-> NoBranch, head |-> Symbolic(Other), refs |-> Refs(2, 1),
      packed |-> Refs(0, 0), loose |-> {}, page |-> 8]}

(* The names of new packs come first.                                      *)
MCPackPlace == [c \in CommitIds |-> MaxCommits - c]
MCRefPlace == [b \in Branches |-> IF b = Master THEN 0 ELSE 1]
=============================================================================
