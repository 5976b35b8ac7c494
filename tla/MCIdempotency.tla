---------------------------- MODULE MCIdempotency ----------------------------
(* Small instances of Idempotency for TLC. *)
EXTENDS Idempotency, TLC

CONSTANTS r1, r2, r3, k1, k2, b1, b2

\* No action chooses among requests, keys or bodies by anything but their state.
Symmetry == Permutations(Requests) \union Permutations(Keys) \union Permutations(Bodies)
=============================================================================
