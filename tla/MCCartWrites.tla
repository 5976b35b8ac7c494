---------------------------- MODULE MCCartWrites ----------------------------
(* Small instances of CartWrites for TLC. *)
EXTENDS CartWrites, TLC

CONSTANTS t1, t2, t3

\* A negative quantity is one the schema CartItemAdd lets through.
AnyCall ==
  [op : {"view", "remove", "clear", "order", "wishes", "wish", "unwish", "move"}, quantity : {0}]
    \union [op : {"add"}, quantity : {0, 1, -1, 3}]
    \union [op : {"update"}, quantity : {0, 1, 2, 3}]

Symmetry == Permutations(Calls)
=============================================================================
