---- MODULE MCVfs ----
(* What TLC is run on: a directory with a file in it.  Name 1 is "a", name 2
   "a.b", and 9 ".DS_Store". *)
EXTENDS VfsProperties

MCBase == Tree(<< [n |-> 1, o |-> Tree(<< [n |-> 1, o |-> Blob(<<1, 1>>)] >>)] >>)

\* ".DS_Store" < "a" < "a.b" < "a.b/" < "a/": as a directory, "a" comes after "a.b".
MCPlace ==
  [x \in Names \X BOOLEAN |->
     CASE x[1] = 9 -> IF x[2] THEN 2 ELSE 1
       [] x[1] = 1 -> IF x[2] THEN 6 ELSE 3
       [] x[1] = 2 -> IF x[2] THEN 5 ELSE 4]
====
