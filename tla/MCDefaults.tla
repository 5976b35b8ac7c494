----------------------------- MODULE MCDefaults -----------------------------
(* A small instance of Defaults for TLC. *)
EXTENDS Defaults

CONSTANTS t1, t2, t3, b1, k1, k2

\* The first call confirms the object of the row that may already be there
\* again, the other two a second one.
SharedKeys == [r \in Ids |-> IF r \in {b1, t1} THEN k1 ELSE k2]
=============================================================================
