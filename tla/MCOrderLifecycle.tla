-------------------------- MODULE MCOrderLifecycle --------------------------
(* Small instances of OrderLifecycle for TLC. *)
EXTENDS OrderLifecycle, TLC

CONSTANTS c1, u1, s1, s2, d1, d2

\* Calls of one kind are told apart by their state only.
Symmetry == Permutations(Updates) \union Permutations(Submits) \union Permutations(Decisions)
=============================================================================
