------------------------------ MODULE MCCache ------------------------------
(* Small instances of ObjectCache. *)
EXTENDS ObjectCache
=============================================================================
