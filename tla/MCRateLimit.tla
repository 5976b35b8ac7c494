----------------------------- MODULE MCRateLimit -----------------------------
(* Small instances of RateLimit for TLC. *)
EXTENDS RateLimit, TLC

CONSTANTS a1, a2, a3, ip1, ip2, account, w1

\* Logins to one account from two addresses.
Logins == {<<ip1, account>>, <<ip2, account>>}

\* One budget alone.
OneKey == {<<account>>}

Symmetry == Permutations(Calls) \union Permutations(Keys \intersect {ip1, ip2})
=============================================================================
