------------------------------ MODULE Checkout ------------------------------
(***************************************************************************)
(* order_service.place_order run by several requests at once, each in a    *)
(* SQLAlchemy session of its own on a READ COMMITTED database, beside the  *)
(* shoppers' cart endpoints and the admin's variant and coupon endpoints.  *)
(*                                                                         *)
(* One action is one SQL statement of the handler, or the stretch of       *)
(* memory-only code between two statements.  What a session has loaded     *)
(* stays in its identity map: lines, seen and seenUsed are those copies.   *)
(* Requests is the set of checkout calls of a run, each made once.         *)
(***************************************************************************)
EXTENDS Integers, FiniteSets, FiniteSetsExt

CONSTANTS
  Requests,     \* the POST /orders calls
  Users,        \* the shoppers
  Variants,     \* product variants, named by their position in id order
  Coupons,      \* rows of the coupons table
  NoCoupon,     \* a call with no coupon_code
  NoLimit,      \* max_uses IS NULL
  NoRequest,    \* the owner of a row lock nobody holds
  InitStock,    \* stock_quantity of each variant at the start
  MaxUses,      \* max_uses of each coupon
  MinOrder,     \* min_order_amount of each coupon, 0 when it has none
  Price,        \* price of each variant, in whole currency units
  MaxQty,       \* bound: the largest cart quantity explored
  RestockLevels,\* bound: the stock levels an admin writes, of either sign
  Shoppers,     \* bound: the users who call the cart endpoints meanwhile
  Deletable,    \* bound: the variants an admin deletes
  Toggled       \* bound: the coupons that are switched off and on

ASSUME IdsAssumption     == Variants \subseteq Nat
ASSUME StockAssumption   == InitStock \in [Variants -> Int]
ASSUME CouponAssumption  == /\ MaxUses \in [Coupons -> Nat \union {NoLimit}]
                            /\ MinOrder \in [Coupons -> Nat]
                            /\ Price \in [Variants -> Nat]
                            /\ NoCoupon \notin Coupons
                            /\ NoLimit \notin Int
ASSUME OwnerAssumption   == NoRequest \notin Requests /\ IsFiniteSet(Requests)
ASSUME BoundsAssumption  == /\ MaxQty \in Nat \ {0}
                            /\ RestockLevels \subseteq Int
                            /\ Shoppers \subseteq Users
                            /\ Deletable \subseteq Variants
                            /\ Toggled \subseteq Coupons

VARIABLES
  stock,     \* product_variants.stock_quantity
  live,      \* the variants whose row exists
  cart,      \* cart_items: quantity of each variant in each cart, 0 = no row
  used,      \* coupons.used_count
  usable,    \* coupons that exist, are active and have not expired
  orders,    \* the requests whose order row is committed
  rowLock,   \* the transaction holding FOR UPDATE on a variant's row
  pc,        \* where each request is in place_order
  user,      \* who makes the request
  code,      \* the coupon the request names
  lines,     \* session copy of cart.items
  seen,      \* session copy of each variant's stock_quantity
  seenUsed,  \* session copy of the coupon's used_count
  shelf,     \* history: the units really left, every order subtracted once
  overtaken  \* history: variants another transaction wrote after r read them

db      == <<stock, live, cart, used, usable, orders>>
session == <<user, code, lines, seen, seenUsed>>
history == <<shelf, overtaken>>
vars    == <<stock, live, cart, used, usable, orders, rowLock, pc,
             user, code, lines, seen, seenUsed, shelf, overtaken>>

Quantities == [Variants -> Nat]
EmptyCart  == [v \in Variants |-> 0]

PCs == {"start",     \* not begun
        "variants",  \* cart.items loaded, their variants next
        "locking",   \* inside SELECT ... FOR UPDATE
        "coupon",    \* stock checked, validate_coupon next
        "write",     \* INSERT, UPDATEs, cart clear and COMMIT next
        "respond",   \* committed, db.refresh(order) next
        "placed",    \* 201
        "rejected",  \* 4xx
        "failed"}    \* 500, or the worker died

Ended == {"placed", "rejected", "failed"}
Active(r) == pc[r] \notin Ended \union {"start"}

Items(r)    == {v \in Variants : lines[r][v] > 0}
Subtotal(r) == MapThenSumSet(LAMBDA v : Price[v] * lines[r][v], Items(r))
Held(r)     == {v \in Variants : rowLock[v] = r}

\* The rows FOR UPDATE still has to lock: a row deleted meanwhile drops out.
Wanted(r) == (Items(r) \intersect live) \ Held(r)

\* A rollback or the end of the session gives back every row lock.
ReleaseLocks(r) ==
  rowLock' = [v \in Variants |-> IF rowLock[v] = r THEN NoRequest ELSE rowLock[v]]

End(r, how) ==
  /\ pc' = [pc EXCEPT ![r] = how]
  /\ ReleaseLocks(r)

\* The history variable: a write to the variants in W overtakes every other
\* request that holds a copy of them.
Overtake(W, writer) ==
  overtaken' = [r \in Requests |->
     IF r # writer /\ pc[r] \in {"locking", "coupon", "write"}
     THEN overtaken[r] \union (W \intersect Items(r))
     ELSE overtaken[r]]

Init ==
  /\ stock = InitStock
  /\ live = Variants
  /\ cart \in [Users -> [Variants -> 0..MaxQty]]
  /\ used = [c \in Coupons |-> 0]
  /\ usable = Coupons
  /\ orders = {}
  /\ rowLock = [v \in Variants |-> NoRequest]
  /\ pc = [r \in Requests |-> "start"]
  /\ user \in [Requests -> Users]
  /\ code \in [Requests -> Coupons \union {NoCoupon}]
  /\ lines = [r \in Requests |-> EmptyCart]
  /\ seen = [r \in Requests |-> EmptyCart]
  /\ seenUsed = [r \in Requests |-> 0]
  /\ shelf = InitStock
  /\ overtaken = [r \in Requests |-> {}]

-----------------------------------------------------------------------------
(* place_order                                                             *)

AddressNotFound(r) ==
  /\ pc[r] = "start"
  /\ End(r, "rejected")
  /\ UNCHANGED <<db, session, history>>

LoadCart(r) ==
  /\ pc[r] = "start"
  /\ cart[user[r]] # EmptyCart
  /\ lines' = [lines EXCEPT ![r] = cart[user[r]]]
  /\ pc' = [pc EXCEPT ![r] = "variants"]
  /\ UNCHANGED <<db, rowLock, user, code, seen, seenUsed, history>>

CartIsEmpty(r) ==
  /\ pc[r] = "start"
  /\ cart[user[r]] = EmptyCart
  /\ End(r, "rejected")
  /\ UNCHANGED <<db, session, history>>

\* The selectin load of CartItem.variant: stock_quantity enters the identity
\* map here, before any lock is taken.
LoadVariants(r) ==
  /\ pc[r] = "variants"
  /\ seen' = [seen EXCEPT ![r] = [v \in Variants |-> IF v \in Items(r) THEN stock[v] ELSE 0]]
  /\ pc' = [pc EXCEPT ![r] = "locking"]
  /\ UNCHANGED <<db, rowLock, user, code, lines, seenUsed, history>>

\* Seeded bug: without ORDER BY the rows are locked in any order.
LockAnyNext(r) ==
  /\ pc[r] = "locking"
  /\ \E v \in Wanted(r) : /\ rowLock[v] = NoRequest
                         /\ rowLock' = [rowLock EXCEPT ![v] = r]
  /\ UNCHANGED <<db, pc, session, history>>

\* FOR UPDATE ... ORDER BY id: the next row in id order, once it is free.  The
\* row it returns does not refresh the copy already in the identity map.
LockNext(r) ==
  /\ pc[r] = "locking"
  /\ \E v \in Wanted(r) :
       /\ \A w \in Wanted(r) : v <= w
       /\ rowLock[v] = NoRequest
       /\ rowLock' = [rowLock EXCEPT ![v] = r]
  /\ UNCHANGED <<db, pc, session, history>>

\* Seeded bug: the stock check is dropped.
RowsFound(r) == Items(r) \subseteq Held(r)

InStock(r) == \A v \in Items(r) : v \in Held(r) /\ lines[r][v] <= seen[r][v]

\* Seeded bug: the rejected session keeps its transaction open.
StockRejectedLeaky(r) ==
  /\ pc[r] = "locking"
  /\ Wanted(r) = {}
  /\ ~InStock(r)
  /\ pc' = [pc EXCEPT ![r] = "rejected"]
  /\ UNCHANGED <<db, rowLock, session, history>>

StockRejected(r) ==
  /\ pc[r] = "locking"
  /\ Wanted(r) = {}
  /\ ~InStock(r)
  /\ End(r, "rejected")
  /\ UNCHANGED <<db, session, history>>

\* Seeded bug: a commit inside the handler gives the locks back early.
StockAcceptedUnlocked(r) ==
  /\ pc[r] = "locking"
  /\ Wanted(r) = {}
  /\ InStock(r)
  /\ End(r, IF code[r] = NoCoupon THEN "write" ELSE "coupon")
  /\ UNCHANGED <<db, session, history>>

StockAccepted(r) ==
  /\ pc[r] = "locking"
  /\ Wanted(r) = {}
  /\ InStock(r)
  /\ pc' = [pc EXCEPT ![r] = IF code[r] = NoCoupon THEN "write" ELSE "coupon"]
  /\ UNCHANGED <<db, rowLock, session, history>>

\* Seeded bug: the limit is compared with <= .
CouponAcceptedOnceMore(r) ==
  LET c == code[r]
  IN  /\ c \in usable
      /\ MaxUses[c] # NoLimit => used[c] <= MaxUses[c]
      /\ Subtotal(r) >= MinOrder[c]

CouponAccepted(r) ==
  LET c == code[r]
  IN  /\ c \in usable
      /\ MaxUses[c] # NoLimit => used[c] < MaxUses[c]
      /\ Subtotal(r) >= MinOrder[c]

\* validate_coupon: an ordinary read, so no lock is taken on the coupon.
ReadCoupon(r) ==
  /\ pc[r] = "coupon"
  /\ CouponAccepted(r)
  /\ seenUsed' = [seenUsed EXCEPT ![r] = used[code[r]]]
  /\ pc' = [pc EXCEPT ![r] = "write"]
  /\ UNCHANGED <<db, rowLock, user, code, lines, seen, history>>

CouponRejected(r) ==
  /\ pc[r] = "coupon"
  /\ ~CouponAccepted(r)
  /\ End(r, "rejected")
  /\ UNCHANGED <<db, session, history>>

\* Seeded bug: the quantity is taken twice.
TakenTwice(r) ==
  [v \in Variants |-> IF v \in Items(r) THEN seen[r][v] - 2 * lines[r][v] ELSE stock[v]]

\* variant.stock_quantity -= item.quantity, on the session's copy.
StockWritten(r) ==
  [v \in Variants |-> IF v \in Items(r) THEN seen[r][v] - lines[r][v] ELSE stock[v]]

\* The INSERTs, the absolute UPDATEs flushed from the session's copies, the
\* cart clear and COMMIT.  Nobody sees them apart: each row written stays
\* locked until the commit.  clear_cart deletes every row the cart has now,
\* whatever the session's copy holds.
Commit(r) ==
  /\ pc[r] = "write"
  /\ stock' = StockWritten(r)
  /\ used' = [c \in Coupons |-> IF c = code[r] THEN seenUsed[r] + 1 ELSE used[c]]
  /\ cart' = [cart EXCEPT ![user[r]] = EmptyCart]
  /\ orders' = orders \union {r}
  /\ shelf' = [v \in Variants |-> shelf[v] - lines[r][v]]
  /\ End(r, "respond")
  /\ Overtake(Items(r), r)
  /\ UNCHANGED <<live, usable, session>>

Respond(r) ==
  /\ pc[r] = "respond"
  /\ End(r, "placed")
  /\ UNCHANGED <<db, session, history>>

\* A database error, a pool timeout or the death of the worker: the open
\* transaction is rolled back, and a committed order stays.
Fail(r) ==
  /\ Active(r)
  /\ End(r, "failed")
  /\ UNCHANGED <<db, session, history>>

-----------------------------------------------------------------------------
(* cart_service.  A new row's foreign-key check waits for FOR UPDATE.      *)

AddItem(u, v, q) ==
  /\ v \in live
  /\ stock[v] >= q
  /\ cart[u][v] + q <= MaxQty
  /\ cart[u][v] = 0 => rowLock[v] = NoRequest
  /\ cart' = [cart EXCEPT ![u][v] = @ + q]
  /\ UNCHANGED <<stock, live, used, usable, orders, rowLock, pc, session, history>>

UpdateItem(u, v, q) ==
  /\ cart[u][v] > 0
  /\ q > 0 => stock[v] >= q
  /\ cart' = [cart EXCEPT ![u][v] = q]
  /\ UNCHANGED <<stock, live, used, usable, orders, rowLock, pc, session, history>>

RemoveItem(u, v) == UpdateItem(u, v, 0)

ClearCart(u) ==
  /\ cart[u] # EmptyCart
  /\ cart' = [cart EXCEPT ![u] = EmptyCart]
  /\ UNCHANGED <<stock, live, used, usable, orders, rowLock, pc, session, history>>

-----------------------------------------------------------------------------
(* Admin endpoints.  A variant's row cannot be written while it is locked. *)

\* update_variant writes any int its schema admits; the level counts anew what is
\* really there, so the history starts again from it.
SetStock(v, n) ==
  /\ v \in live
  /\ rowLock[v] = NoRequest
  /\ stock' = [stock EXCEPT ![v] = n]
  /\ shelf' = [shelf EXCEPT ![v] = n]
  /\ Overtake({v}, NoRequest)
  /\ UNCHANGED <<live, cart, used, usable, orders, rowLock, pc, session>>

\* The ORM nulls cart_items.variant_id first, which NOT NULL refuses: a variant
\* sitting in a cart cannot be deleted.
DeleteVariant(v) ==
  /\ v \in live
  /\ rowLock[v] = NoRequest
  /\ \A u \in Users : cart[u][v] = 0
  /\ live' = live \ {v}
  /\ UNCHANGED <<stock, cart, used, usable, orders, rowLock, pc, session, history>>

\* update_coupon and delete_coupon, and the clock passing expires_at.
SetUsable(c) ==
  /\ usable' = IF c \in usable THEN usable \ {c} ELSE usable \union {c}
  /\ UNCHANGED <<stock, live, cart, used, orders, rowLock, pc, session, history>>

-----------------------------------------------------------------------------
PlaceOrder(r) ==
  \/ LoadCart(r) \/ CartIsEmpty(r) \/ LoadVariants(r) \/ LockNext(r)
  \/ StockRejected(r) \/ StockAccepted(r)
  \/ ReadCoupon(r) \/ CouponRejected(r) \/ Commit(r) \/ Respond(r)

CartOp(u) ==
  \/ \E v \in Variants, q \in 1..MaxQty : AddItem(u, v, q) \/ UpdateItem(u, v, q)
  \/ \E v \in Variants : RemoveItem(u, v)
  \/ ClearCart(u)

AdminOp ==
  \/ \E v \in Variants, n \in RestockLevels : SetStock(v, n)
  \/ \E v \in Deletable : DeleteVariant(v)
  \/ \E c \in Toggled : SetUsable(c)

Next ==
  \/ \E r \in Requests : PlaceOrder(r) \/ AddressNotFound(r) \/ Fail(r)
  \/ \E u \in Shoppers : CartOp(u)
  \/ AdminOp

Spec == Init /\ [][Next]_vars

\* A worker thread keeps executing the request it has begun.
Fairness == \A r \in Requests : WF_vars(PlaceOrder(r) /\ pc[r] # "start")

FairSpec == Spec /\ Fairness
-----------------------------------------------------------------------------
(* Properties                                                              *)

\* Every variable keeps its type; an admin may write a negative stock level.
TypeOK ==
  /\ stock \in [Variants -> Int]
  /\ live \subseteq Variants
  /\ cart \in [Users -> Quantities]
  /\ used \in [Coupons -> Nat]
  /\ usable \subseteq Coupons
  /\ orders \subseteq Requests
  /\ rowLock \in [Variants -> Requests \union {NoRequest}]
  /\ pc \in [Requests -> PCs]
  /\ user \in [Requests -> Users]
  /\ code \in [Requests -> Coupons \union {NoCoupon}]
  /\ lines \in [Requests -> Quantities]
  /\ seen \in [Requests -> [Variants -> Int]]
  /\ seenUsed \in [Requests -> Nat]
  /\ shelf \in [Variants -> Int]
  /\ overtaken \in [Requests -> SUBSET Variants]

Locked == {"coupon", "write"}   \* past the stock check, before the commit

\* place_order checks stock against its own copy and writes copy - quantity: no
\* order leaves a variant it sells below zero, whatever interleaves and whatever
\* levels the admins write meanwhile.
LevelLeft == \A r \in orders' \ orders : \A v \in Items(r) : stock'[v] >= 0
NeverSoldBelowZero == [][LevelLeft]_vars

\* FOR UPDATE keeps two checkouts that share a variant out of the stretch
\* between the stock check and the commit, and both hold all their rows there.
ExclusiveRows ==
  /\ \A r \in Requests : pc[r] \in Locked => Items(r) \subseteq Held(r)
  /\ \A r1, r2 \in Requests :
       r1 # r2 /\ pc[r1] \in Locked /\ pc[r2] \in Locked
         => Items(r1) \intersect Items(r2) = {}

\* Locking in id order: no set of checkouts waits in a circle for each other.
WaitsFor(r1, r2) ==
  /\ pc[r1] = "locking"
  /\ \E v \in Wanted(r1) : /\ \A w \in Wanted(r1) : v <= w
                           /\ rowLock[v] = r2
NoWaitCycle ==
  \A S \in SUBSET Requests : (\A r1 \in S : \E r2 \in S : WaitsFor(r1, r2)) => S = {}

\* stock_quantity departs from the units really left only where an order was
\* committed from a copy that another transaction had overtaken meanwhile.
LedgerExact ==
  \A v \in Variants :
    stock[v] # shelf[v] => \E r \in orders : v \in Items(r) /\ v \in overtaken[r]

\* While no admin writes stock, lost decrements are the only damage: the column
\* may promise units that are gone, and never hides units that are there.
NoUnitHidden == \A v \in Variants : stock[v] >= shelf[v]

\* The orders that redeemed coupon c.
Redeemed(c) == {r \in orders : code[r] = c}

\* The counter of a coupon never passes its limit nor counts a redemption that
\* did not happen.
UsedCountSound ==
  \A c \in Coupons : /\ MaxUses[c] # NoLimit => used[c] <= MaxUses[c]
                     /\ used[c] <= Cardinality(Redeemed(c))

\* The coupon is read under the variants' locks, so redemptions that all
\* contain one common variant are counted exactly and respect the limit.
SharedVariantCeiling ==
  \A c \in Coupons :
    (\E v \in Variants : \A r \in Redeemed(c) : v \in Items(r))
      => /\ used[c] = Cardinality(Redeemed(c))
         /\ MaxUses[c] # NoLimit => Cardinality(Redeemed(c)) <= MaxUses[c]

\* Every checkout that has begun is answered: no request waits for ever for a
\* row lock.
EveryCallAnswered == \A r \in Requests : Active(r) ~> pc[r] \in Ended

\* docs/adr/0001: "Overselling is impossible for concurrent checkouts within a
\* single Postgres instance."
NoOversell == \A v \in Variants : shelf[v] >= 0
=============================================================================
