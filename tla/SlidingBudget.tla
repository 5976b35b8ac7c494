---------------------------- MODULE SlidingBudget ----------------------------
(***************************************************************************)
(* A budget of attempts with no counters in it: of any Limit + 1 attempts  *)
(* granted on one key, the last comes at least a Window after the first.   *)
(***************************************************************************)
EXTENDS Naturals, Sequences

CONSTANTS Keys, Limit, Window

VARIABLES
  now,
  granted   \* the times of the attempts granted on each key, in order

vars == <<now, granted>>

Init ==
  /\ now = 0
  /\ granted = [k \in Keys |-> <<>>]

Affordable(k) ==
  \/ Len(granted[k]) < Limit
  \/ granted[k][Len(granted[k]) + 1 - Limit] + Window <= now

Grant(k) ==
  /\ Affordable(k)
  /\ granted' = [granted EXCEPT ![k] = Append(@, now)]
  /\ UNCHANGED now

Tick == now' = now + 1 /\ UNCHANGED granted

Next == Tick \/ \E k \in Keys : Grant(k)

Spec == Init /\ [][Next]_vars
=============================================================================
