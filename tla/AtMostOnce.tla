------------------------------ MODULE AtMostOnce ------------------------------
(***************************************************************************)
(* What an Idempotency-Key promises, idempotency_service.py:9-14 and       *)
(* 25-30, with no rows, steps or faults: a call has an effect only when    *)
(* none stands for its key, and every call that is answered with a result, *)
(* the first or a retry, is told the effect that stands for its key and    *)
(* body.  An effect stands until its time is over; only one that nobody    *)
(* has been told of may be disowned before.                                *)
(***************************************************************************)
CONSTANTS
  Calls,  \* the calls, which also name the effect they may have
  Keys,
  Bodies,
  None

VARIABLES
  key, body,  \* what each call carries
  effects,    \* the calls that have had their effect
  lapsed,     \* effects whose time is over
  disowned,   \* effects whose call was told that it had failed
  told        \* the effect each call was answered with

vars == <<key, body, effects, lapsed, disowned, told>>

Stands(e) == e \in effects \ (lapsed \union disowned)

Init ==
  /\ key \in [Calls -> Keys]
  /\ body \in [Calls -> Bodies]
  /\ effects = {} /\ lapsed = {} /\ disowned = {}
  /\ told = [c \in Calls |-> None]

Perform(c) ==
  /\ c \notin effects /\ told[c] = None
  /\ ~\E e \in effects : Stands(e) /\ key[e] = key[c]
  /\ effects' = effects \union {c}
  /\ UNCHANGED <<key, body, lapsed, disowned, told>>

Tell(c, e) ==
  /\ told[c] = None
  /\ Stands(e) /\ key[e] = key[c] /\ body[e] = body[c]
  /\ told' = [told EXCEPT ![c] = e]
  /\ UNCHANGED <<key, body, effects, lapsed, disowned>>

Disown(e) ==
  /\ Stands(e)
  /\ \A c \in Calls : told[c] # e
  /\ disowned' = disowned \union {e}
  /\ UNCHANGED <<key, body, effects, lapsed, told>>

Lapse(K) ==
  /\ lapsed' = lapsed \union {e \in effects : key[e] \in K}
  /\ UNCHANGED <<key, body, effects, disowned, told>>

Next ==
  \/ \E c \in Calls : Perform(c) \/ Disown(c)
  \/ \E c, e \in Calls : Tell(c, e)
  \/ \E K \in SUBSET Keys : Lapse(K)

Spec == Init /\ [][Next]_vars

\* At most one effect stands for a key.
OneStands == \A e, f \in effects : Stands(e) /\ Stands(f) /\ key[e] = key[f] => e = f

\* What a call was told is an effect of its key and body that nobody disowned.
Backed ==
  \A c \in Calls : told[c] # None =>
    /\ told[c] \in effects \ disowned
    /\ key[told[c]] = key[c] /\ body[told[c]] = body[c]

\* Any two calls answered for one key were told the same effect, whenever each
\* was answered, unless one of the two effects has lapsed.
Agreed ==
  \A c, d \in Calls :
    /\ key[c] = key[d] /\ told[c] # None /\ told[d] # None
    /\ {told[c], told[d]} \intersect lapsed = {}
    => told[c] = told[d]
=============================================================================
