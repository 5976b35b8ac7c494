---------------------------- MODULE MCUniqueRows ----------------------------
(* A small instance of UniqueRows for TLC. *)
EXTENDS UniqueRows, TLC

Symmetry == Permutations(Calls) \union Permutations(Keys)
=============================================================================
