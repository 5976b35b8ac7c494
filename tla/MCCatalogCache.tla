--------------------------- MODULE MCCatalogCache ---------------------------
(* Small instances of CatalogCache for TLC. *)
EXTENDS CatalogCache, TLC

CONSTANTS a1, a2, w1, w2, n1

\* Threads and writes are chosen by their state only.
Symmetry == Permutations(Readers) \union Permutations(Writes)
=============================================================================
