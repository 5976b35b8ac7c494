----------------------------- MODULE Idempotency -----------------------------
(***************************************************************************)
(* POST /orders with an Idempotency-Key: idempotency_service around one    *)
(* user's checkouts.  The unique index is per (user, endpoint, key), so    *)
(* the rows of different users never meet and one user is enough.          *)
(*                                                                         *)
(* One action is one transaction of the handler.  place_order itself is    *)
(* two of its steps only, loading the cart and committing the order; what  *)
(* happens in between is module Checkout.                                  *)
(***************************************************************************)
EXTENDS Naturals, FiniteSets

CONSTANTS
  Requests,  \* the calls that carry a key, retries included
  Keys,      \* Idempotency-Key values
  Bodies,    \* request bodies, as their fingerprints tell them apart
  None       \* the absence of an order or of a body

ASSUME NoneAssumption == None \notin Requests \union Bodies

VARIABLES
  row,       \* the idempotency_keys row of each key, NoRow without one
  orders,    \* the requests whose order is committed
  cartFull,  \* whether the user's cart has items
  pc,        \* where each request is in the handler
  key, body, \* what the request carries
  reply,     \* the order a replayed response shows
  swept      \* history: orders whose key's row the sweep deleted

call == <<key, body>>
vars == <<row, orders, cartFull, pc, key, body, reply, swept>>

Rows  == [status : {"none", "in_progress", "completed"},
          body : Bodies \union {None},
          order : Requests \union {None},   \* the order in the stored response
          expired : BOOLEAN]                \* expires_at has passed
NoRow == [status |-> "none", body |-> None, order |-> None, expired |-> FALSE]

PCs == {"start",      \* not begun
        "conflict",   \* the INSERT hit the unique index, the row is read next
        "working",    \* owns the key, place_order begins
        "placing",    \* place_order has loaded a cart with items
        "committed",  \* the order is committed, db.refresh next
        "completing", \* place_order has returned
        "releasing",  \* place_order has raised
        "created", "replayed", "conflict409", "mismatch422",
        "released",   \* answered with an error, the reservation deleted
        "error",      \* answered with an error, the row as it was
        "crashed"}    \* the worker died, nobody answered

Holding == {"working", "placing", "committed", "completing", "releasing"}
Running == Holding \union {"conflict"}
Holder(r, k) == key[r] = k /\ pc[r] \in Holding

Goto(r, where) == pc' = [pc EXCEPT ![r] = where]

Init ==
  /\ row = [k \in Keys |-> NoRow]
  /\ orders = {}
  /\ cartFull \in BOOLEAN
  /\ pc = [r \in Requests |-> "start"]
  /\ key \in [Requests -> Keys]
  /\ body \in [Requests -> Bodies]
  /\ reply = [r \in Requests |-> None]
  /\ swept = {}

-----------------------------------------------------------------------------
(* reserve                                                                 *)

\* INSERT and COMMIT of the reservation, which the unique index accepts.
Reserve(r) ==
  /\ pc[r] = "start"
  /\ row[key[r]].status = "none"
  /\ row' = [row EXCEPT ![key[r]] =
       [status |-> "in_progress", body |-> body[r], order |-> None, expired |-> FALSE]]
  /\ Goto(r, "working")
  /\ UNCHANGED <<orders, cartFull, call, reply, swept>>

InsertConflicts(r) ==
  /\ pc[r] = "start"
  /\ row[key[r]].status # "none"
  /\ Goto(r, "conflict")
  /\ UNCHANGED <<row, orders, cartFull, call, reply, swept>>

\* Seeded bug: a caller whose conflict has gone believes it owns the key.
RowGoneProceeds(r) ==
  /\ pc[r] = "conflict"
  /\ row[key[r]].status = "none"
  /\ Goto(r, "working")
  /\ UNCHANGED <<row, orders, cartFull, call, reply, swept>>

\* After the rollback the row is read afresh: it may have gone ...
RowGone(r) ==
  /\ pc[r] = "conflict"
  /\ row[key[r]].status = "none"
  /\ Goto(r, "conflict409")
  /\ UNCHANGED <<row, orders, cartFull, call, reply, swept>>

\* Seeded bug: a retry takes over a reservation that is still in progress.
BusyTakenOver(r) ==
  /\ pc[r] = "conflict"
  /\ row[key[r]].status = "in_progress"
  /\ row[key[r]].body = body[r]
  /\ Goto(r, "working")
  /\ UNCHANGED <<row, orders, cartFull, call, reply, swept>>

\* ... or be another's, whatever its state was when the INSERT failed.
Busy(r) ==
  /\ pc[r] = "conflict"
  /\ row[key[r]].status = "in_progress"
  /\ row[key[r]].body = body[r]
  /\ Goto(r, "conflict409")
  /\ UNCHANGED <<row, orders, cartFull, call, reply, swept>>

OtherBody(r) ==
  /\ pc[r] = "conflict"
  /\ row[key[r]].status # "none"
  /\ row[key[r]].body # body[r]
  /\ Goto(r, "mismatch422")
  /\ UNCHANGED <<row, orders, cartFull, call, reply, swept>>

\* Seeded bug: the stored response is replayed before the bodies are compared.
ReplayAnyBody(r) ==
  /\ pc[r] = "conflict"
  /\ row[key[r]].status = "completed"
  /\ reply' = [reply EXCEPT ![r] = row[key[r]].order]
  /\ Goto(r, "replayed")
  /\ UNCHANGED <<row, orders, cartFull, call, swept>>

Replay(r) ==
  /\ pc[r] = "conflict"
  /\ row[key[r]].status = "completed"
  /\ row[key[r]].body = body[r]
  /\ reply' = [reply EXCEPT ![r] = row[key[r]].order]
  /\ Goto(r, "replayed")
  /\ UNCHANGED <<row, orders, cartFull, call, swept>>

-----------------------------------------------------------------------------
(* place_order                                                             *)

LoadCart(r) ==
  /\ pc[r] = "working"
  /\ cartFull
  /\ Goto(r, "placing")
  /\ UNCHANGED <<row, orders, cartFull, call, reply, swept>>

\* Any exception before the commit: an empty cart, a bad address, no stock, a
\* refused coupon, a database error.
RaiseBeforeCommit(r) ==
  /\ pc[r] \in {"working", "placing"}
  /\ Goto(r, "releasing")
  /\ UNCHANGED <<row, orders, cartFull, call, reply, swept>>

CommitOrder(r) ==
  /\ pc[r] = "placing"
  /\ orders' = orders \union {r}
  /\ cartFull' = FALSE
  /\ Goto(r, "committed")
  /\ UNCHANGED <<row, call, reply, swept>>

\* With the order committed, db.refresh may find no free connection in the
\* pool, and the reload of a low-stock variant may find its row deleted.
RaiseAfterCommit(r) ==
  /\ pc[r] = "committed"
  /\ Goto(r, "releasing")
  /\ UNCHANGED <<row, orders, cartFull, call, reply, swept>>

Return(r) ==
  /\ pc[r] = "committed"
  /\ Goto(r, "completing")
  /\ UNCHANGED <<row, orders, cartFull, call, reply, swept>>

-----------------------------------------------------------------------------
(* complete and release                                                    *)

Complete(r) ==
  /\ pc[r] = "completing"
  /\ row' = [row EXCEPT ![key[r]] =
       IF @.status = "none" THEN @ ELSE [@ EXCEPT !.status = "completed", !.order = r]]
  /\ Goto(r, "created")
  /\ UNCHANGED <<orders, cartFull, call, reply, swept>>

\* Serialising the response or the UPDATE fails: outside the try block.
CompleteFails(r) ==
  /\ pc[r] = "completing"
  /\ Goto(r, "error")
  /\ UNCHANGED <<row, orders, cartFull, call, reply, swept>>

Release(r) ==
  /\ pc[r] = "releasing"
  /\ row' = [row EXCEPT ![key[r]] = IF @.status = "in_progress" THEN NoRow ELSE @]
  /\ Goto(r, "released")
  /\ UNCHANGED <<orders, cartFull, call, reply, swept>>

\* release() swallows its own failure.
ReleaseFails(r) ==
  /\ pc[r] = "releasing"
  /\ Goto(r, "error")
  /\ UNCHANGED <<row, orders, cartFull, call, reply, swept>>

-----------------------------------------------------------------------------
(* Faults, time and the shopper                                            *)

Crash(r) ==
  /\ pc[r] \in Running
  /\ Goto(r, "crashed")
  /\ UNCHANGED <<row, orders, cartFull, call, reply, swept>>

\* expires_at passes.  It lies hours after the reservation, and no handler
\* that holds the key runs that long.
Expire(k) ==
  /\ row[k].status # "none"
  /\ ~row[k].expired
  /\ ~\E r \in Requests : Holder(r, k)
  /\ row' = [row EXCEPT ![k].expired = TRUE]
  /\ UNCHANGED <<orders, cartFull, pc, call, reply, swept>>

\* Seeded bugs: the sweep spares unfinished rows; it ignores expires_at.
Finished(k) == row[k].expired /\ row[k].status = "completed"
Stored(k)   == row[k].status = "completed"

Expired(k) == row[k].expired

PurgeExpired ==
  /\ \E k \in Keys : Expired(k)
  /\ row' = [k \in Keys |-> IF Expired(k) THEN NoRow ELSE row[k]]
  /\ swept' = swept \union {r \in orders : Expired(key[r])}
  /\ UNCHANGED <<orders, cartFull, pc, call, reply>>

FillCart ==
  /\ ~cartFull
  /\ cartFull' = TRUE
  /\ UNCHANGED <<row, orders, pc, call, reply, swept>>

Handle(r) ==
  \/ InsertConflicts(r) \/ RowGone(r) \/ Busy(r) \/ OtherBody(r) \/ Replay(r)
  \/ LoadCart(r) \/ RaiseBeforeCommit(r) \/ CommitOrder(r)
  \/ RaiseAfterCommit(r) \/ Return(r)
  \/ Complete(r) \/ CompleteFails(r) \/ Release(r) \/ ReleaseFails(r)

Next ==
  \/ \E r \in Requests : Reserve(r) \/ Handle(r) \/ Crash(r)
  \/ \E k \in Keys : Expire(k)
  \/ PurgeExpired
  \/ FillCart

Spec == Init /\ [][Next]_vars

\* A thread goes on with the call it has begun; time passes; the daily sweep
\* of docs/OPERATIONS.md runs.
Fairness ==
  /\ \A r \in Requests : WF_vars(Handle(r) /\ pc[r] # "start")
  /\ \A k \in Keys : WF_vars(Expire(k))
  /\ WF_vars(PurgeExpired)

FairSpec == Spec /\ Fairness
-----------------------------------------------------------------------------
(* Properties                                                              *)

\* Every variable keeps its type, and a row shows a response exactly when it is
\* completed.
TypeOK ==
  /\ row \in [Keys -> Rows]
  /\ \A k \in Keys : row[k].status = "completed" <=> row[k].order # None
  /\ orders \subseteq Requests
  /\ cartFull \in BOOLEAN
  /\ pc \in [Requests -> PCs]
  /\ key \in [Requests -> Keys]
  /\ body \in [Requests -> Bodies]
  /\ reply \in [Requests -> Requests \union {None}]
  /\ swept \subseteq orders

\* The unique index lets one call at a time run place_order for a key.
SingleRunner ==
  \A k \in Keys : \A r1, r2 \in Requests : Holder(r1, k) /\ Holder(r2, k) => r1 = r2

\* The orders whose call raised after the commit, so that release() dropped
\* the reservation that stood for them.
Disowned == {r \in orders : pc[r] = "released"}

\* The orders that stand for their key.
Kept == orders \ (swept \union Disowned)

\* Through crashes, failed releases and concurrent retries, a key has a second
\* order only after the sweep forgot the first or a late exception disowned it.
OneEffectPerKey ==
  \A r1, r2 \in Kept : key[r1] = key[r2] => r1 = r2

\* A replayed response shows an order that was committed under the same key by
\* a call with the same body.
ReplayFaithful ==
  \A r \in Requests :
    pc[r] = "replayed" => \E o \in orders : /\ reply[r] = o
                                           /\ key[o] = key[r] /\ body[o] = body[r]

\* A stored response stays what it is until it expires: no other call with the
\* key overwrites or deletes it.
CompletedKept ==
  [][\A k \in Keys : row[k].status = "completed" /\ ~row[k].expired
       => row'[k].status = "completed" /\ row'[k].order = row[k].order]_vars

\* A reservation left behind by a crash or a failed release does not claim its
\* key for ever.
ClaimEnds ==
  \A k \in Keys : row[k].status = "in_progress" ~> row[k].status # "in_progress"

\* What a call was told: its own order or the one in the stored response.
Told == [r \in Requests |-> IF pc[r] = "created" THEN r ELSE reply[r]]

Once == INSTANCE AtMostOnce WITH Calls <- Requests, effects <- orders, lapsed <- swept,
                                 disowned <- Disowned, told <- Told

\* idempotency_service.py:9-14, step by step and through every fault: an order
\* is placed only for a key for which none stands, a 201 and a replay both show
\* the one that stands, and it stops standing only by the sweep or by a release
\* before anybody was shown it.
AtMostOnceSpec == Once!Spec

\* Two calls with one key that were both answered with an order, by a 201 or a
\* replay and at any time, were shown the same order, unless the sweep has
\* forgotten one that was shown.
AnswersAgree == Once!Agreed

\* idempotency_service.py:9-11: "the server promises that a given key produces
\* at most one side effect" - while its row has not been swept.
OneOrderPerKey == \A r1, r2 \in orders \ swept : key[r1] = key[r2] => r1 = r2
=============================================================================
