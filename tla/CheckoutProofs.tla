--------------------------- MODULE CheckoutProofs ---------------------------
(***************************************************************************)
(* Theorems about Checkout, for any number of requests, users, variants    *)
(* and coupons.                                                            *)
(***************************************************************************)
EXTENDS Checkout, FiniteSetTheorems, WellFoundedInduction, TLAPS

Assumptions == /\ Variants \subseteq Nat
               /\ InitStock \in [Variants -> Int]
               /\ MaxUses \in [Coupons -> Nat \union {NoLimit}]
               /\ NoLimit \notin Int
               /\ NoCoupon \notin Coupons
               /\ NoRequest \notin Requests
               /\ IsFiniteSet(Requests)
               /\ MaxQty \in Nat \ {0}
               /\ RestockLevels \subseteq Int
               /\ Shoppers \subseteq Users
               /\ Deletable \subseteq Variants
               /\ Toggled \subseteq Coupons

\* The named assumptions on the constants, as one fact.
LEMMA AssumptionsHold == Assumptions
  BY IdsAssumption, StockAssumption, CouponAssumption, OwnerAssumption,
     BoundsAssumption DEF Assumptions

\* The initial state is well typed.
LEMMA InitTypeOK == Init => TypeOK
  BY AssumptionsHold DEF Assumptions, Init, TypeOK, EmptyCart, Quantities, PCs

\* Each step of place_order preserves the types.
LEMMA PlaceOrderTypeOK ==
  ASSUME TypeOK, NEW r \in Requests, PlaceOrder(r) \/ AddressNotFound(r) \/ Fail(r)
  PROVE  TypeOK'
  <1> USE AssumptionsHold DEF Assumptions, TypeOK, db, session, history, PCs, Quantities
  <1>1. CASE LoadCart(r)
    BY <1>1 DEF LoadCart
  <1>2. CASE CartIsEmpty(r)
    BY <1>2 DEF CartIsEmpty, End, ReleaseLocks
  <1>3. CASE LoadVariants(r)
    BY <1>3 DEF LoadVariants
  <1>4. CASE LockNext(r)
    BY <1>4 DEF LockNext, Wanted, Items
  <1>5. CASE StockRejected(r)
    BY <1>5 DEF StockRejected, End, ReleaseLocks
  <1>6. CASE StockAccepted(r)
    BY <1>6 DEF StockAccepted
  <1>7. CASE ReadCoupon(r)
    BY <1>7 DEF ReadCoupon, CouponAccepted
  <1>8. CASE CouponRejected(r)
    BY <1>8 DEF CouponRejected, End, ReleaseLocks
  <1>9. CASE Commit(r)
    BY <1>9 DEF Commit, StockWritten, EmptyCart, End, ReleaseLocks, Overtake, Items
  <1>10. CASE Respond(r)
    BY <1>10 DEF Respond, End, ReleaseLocks
  <1>11. CASE AddressNotFound(r)
    BY <1>11 DEF AddressNotFound, End, ReleaseLocks
  <1>12. CASE Fail(r)
    BY <1>12 DEF Fail, End, ReleaseLocks
  <1>13. QED
    BY <1>1, <1>2, <1>3, <1>4, <1>5, <1>6, <1>7, <1>8, <1>9, <1>10, <1>11, <1>12
       DEF PlaceOrder

\* Each cart endpoint and each admin endpoint preserves the types.
LEMMA EndpointsTypeOK ==
  ASSUME TypeOK, (\E u \in Shoppers : CartOp(u)) \/ AdminOp
  PROVE  TypeOK'
  <1> USE AssumptionsHold DEF Assumptions, TypeOK, db, session, history, Quantities
  <1>1. ASSUME NEW u \in Shoppers, NEW v \in Variants, NEW q \in 1..MaxQty, AddItem(u, v, q)
        PROVE  TypeOK'
    BY <1>1 DEF AddItem
  <1>2. ASSUME NEW u \in Shoppers, NEW v \in Variants, NEW q \in 0..MaxQty, UpdateItem(u, v, q)
        PROVE  TypeOK'
    BY <1>2 DEF UpdateItem
  <1>3. ASSUME NEW u \in Shoppers, ClearCart(u)
        PROVE  TypeOK'
    BY <1>3 DEF ClearCart, EmptyCart
  <1>4. ASSUME NEW v \in Variants, NEW n \in RestockLevels, SetStock(v, n)
        PROVE  TypeOK'
    BY <1>4 DEF SetStock, Overtake, Items
  <1>5. ASSUME NEW v \in Deletable, DeleteVariant(v)
        PROVE  TypeOK'
    BY <1>5 DEF DeleteVariant
  <1>6. ASSUME NEW c \in Toggled, SetUsable(c)
        PROVE  TypeOK'
    BY <1>6 DEF SetUsable
  <1>7. QED
    BY <1>1, <1>2, <1>3, <1>4, <1>5, <1>6 DEF CartOp, RemoveItem, AdminOp

\* Every reachable state is well typed, whatever the shop's size.
THEOREM Typing == Spec => []TypeOK
  <1>1. TypeOK /\ [Next]_vars => TypeOK'
    <2> SUFFICES ASSUME TypeOK, [Next]_vars PROVE TypeOK'
      OBVIOUS
    <2>1. CASE UNCHANGED vars
      BY <2>1 DEF TypeOK, vars
    <2>2. CASE Next
      BY <2>2, PlaceOrderTypeOK, EndpointsTypeOK DEF Next
    <2>3. QED
      BY <2>1, <2>2
  <1>2. QED
    BY InitTypeOK, <1>1, PTL DEF Spec

-----------------------------------------------------------------------------
(* The inductive invariant.  Reading holds while a request works from its  *)
(* copies; BeforeLocks while it cannot own a row.                          *)

Reading     == {"locking", "coupon", "write"}
BeforeLocks == {"start", "variants", "respond", "placed", "rejected", "failed"}

\* Past the check, the copies suffice and the rows are locked.
CopiesInv == \A r \in Requests : pc[r] \in Locked => InStock(r)

\* A committed request is past its commit; locks are owned only in between,
\* and are taken in ascending order.
ProgressInv ==
  /\ \A r \in orders : pc[r] \in {"respond", "placed", "failed"}
  /\ \A r \in Requests : pc[r] \in BeforeLocks => Held(r) = {}
  /\ \A r \in Requests : pc[r] = "locking" =>
       \A h \in Held(r), w \in Wanted(r) : h < w

\* A copy nobody overtook still equals the column.
LedgerInv ==
  /\ LedgerExact
  /\ \A r \in Requests : pc[r] \in Reading =>
       \A v \in Items(r) \ overtaken[r] : seen[r][v] = stock[v]

\* Without restocks a copy is never below what is really left.
NothingHiddenInv ==
  /\ NoUnitHidden
  /\ \A r \in Requests : pc[r] \in Reading =>
       \A v \in Items(r) : seen[r][v] >= shelf[v]

\* A copy of a coupon's counter passed the limit check, never overstates, and
\* is current for a request that shares a variant with every redemption.
Shared(c, v) == \A r \in Redeemed(c) : v \in Items(r)
CouponInv ==
  /\ UsedCountSound
  /\ IsFiniteSet(orders)
  /\ \A c \in Coupons, v \in Variants : Shared(c, v) => used[c] = Cardinality(Redeemed(c))
  /\ \A r \in Requests : pc[r] = "coupon" => code[r] \in Coupons
  /\ \A r \in Requests : pc[r] = "write" /\ code[r] \in Coupons =>
       /\ MaxUses[code[r]] # NoLimit => seenUsed[r] < MaxUses[code[r]]
       /\ seenUsed[r] <= Cardinality(Redeemed(code[r]))
       /\ \A v \in Items(r) : Shared(code[r], v) => seenUsed[r] = used[code[r]]

\* The endpoints other than checkout leave every session alone.
LEMMA EndpointsFrame ==
  ASSUME TypeOK, (\E u \in Shoppers : CartOp(u)) \/ AdminOp
  PROVE  /\ UNCHANGED <<pc, rowLock, orders, used, user, code, lines, seen, seenUsed>>
         /\ live' \subseteq live
  BY DEF CartOp, AddItem, UpdateItem, RemoveItem, ClearCart, AdminOp, SetStock,
         DeleteVariant, SetUsable, session, history

\* A request ends without writing anything: rolled back, rejected or answered.
Quit(r) ==
  \/ AddressNotFound(r) \/ CartIsEmpty(r) \/ StockRejected(r) \/ CouponRejected(r)
  \/ Respond(r) \/ Fail(r)

\* A request that ends frees its locks and touches nothing else.
LEMMA QuitFrame ==
  ASSUME TypeOK, NEW r \in Requests, Quit(r)
  PROVE  /\ UNCHANGED <<stock, live, cart, used, usable, orders, user, code, lines,
                        seen, seenUsed, shelf, overtaken>>
         /\ pc'[r] \in {"placed", "rejected", "failed"}
         /\ pc'[r] = "rejected" => pc[r] \in {"start", "locking", "coupon"}
         /\ Held(r)' = {}
         /\ \A q \in Requests \ {r} : pc'[q] = pc[q] /\ Held(q)' = Held(q)
  <1>1. PICK how \in Ended : /\ End(r, how)
                             /\ UNCHANGED <<db, session, history>>
                             /\ how = "rejected" => pc[r] \in {"start", "locking", "coupon"}
    BY DEF Quit, AddressNotFound, CartIsEmpty, StockRejected, CouponRejected, Respond,
           Fail, Ended
  <1>2. pc' = [pc EXCEPT ![r] = how]
    BY <1>1 DEF End
  <1>3. Held(r)' = {} /\ \A q \in Requests \ {r} : Held(q)' = Held(q)
    BY <1>1, AssumptionsHold DEF End, ReleaseLocks, Held, TypeOK, Assumptions
  <1>4. QED
    BY <1>1, <1>2, <1>3 DEF TypeOK, Ended, db, session, history

-----------------------------------------------------------------------------
(* Locks and progress                                                      *)

LEMMA InitProgress == Init => ProgressInv
  BY AssumptionsHold DEF Assumptions, Init, ProgressInv, BeforeLocks, Held

\* Every step keeps who holds which locks.
LEMMA NextProgress ==
  ASSUME TypeOK, ProgressInv, [Next]_vars
  PROVE  ProgressInv'
  <1> USE AssumptionsHold
      DEF Assumptions, TypeOK, ProgressInv, BeforeLocks, Held, Wanted, Items,
          db, session, history
  <1>1. CASE UNCHANGED vars
    BY <1>1 DEF vars
  <1>2. CASE (\E u \in Shoppers : CartOp(u)) \/ AdminOp
    BY <1>2, EndpointsFrame
  <1>3. ASSUME NEW r \in Requests, PlaceOrder(r) \/ AddressNotFound(r) \/ Fail(r)
        PROVE  ProgressInv'
    <2>1. CASE LoadCart(r)
      BY <2>1 DEF LoadCart
    <2>2. CASE LoadVariants(r)
      BY <2>2 DEF LoadVariants
    <2>3. CASE LockNext(r)
      BY <2>3 DEF LockNext
    <2>4. CASE StockAccepted(r)
      BY <2>4 DEF StockAccepted
    <2>5. CASE ReadCoupon(r)
      BY <2>5 DEF ReadCoupon
    <2>6. CASE Commit(r)
      BY <2>6 DEF Commit, End, ReleaseLocks
    <2>7. CASE Quit(r)
      <3> HIDE DEF Held, TypeOK, Assumptions
      <3>1. \A q \in orders' : pc'[q] \in {"respond", "placed", "failed"}
        BY <2>7, QuitFrame DEF TypeOK
      <3>2. \A q \in Requests : pc'[q] \in BeforeLocks => Held(q)' = {}
        BY <2>7, QuitFrame
      <3>3. ASSUME NEW q \in Requests, pc'[q] = "locking"
            PROVE  \A h \in Held(q)', w \in Wanted(q)' : h < w
        <4>1. q # r
          BY <2>7, <3>3, QuitFrame
        <4>2. Held(q)' = Held(q) /\ Wanted(q)' = Wanted(q) /\ pc[q] = "locking"
          BY <2>7, <3>3, <4>1, QuitFrame
        <4>3. QED
          BY <4>2
      <3>4. QED
        BY <3>1, <3>2, <3>3
    <2>8. QED
      BY <1>3, <2>1, <2>2, <2>3, <2>4, <2>5, <2>6, <2>7 DEF PlaceOrder, Quit
  <1>4. QED
    BY <1>1, <1>2, <1>3 DEF Next

-----------------------------------------------------------------------------
(* Stock                                                                   *)

LEMMA InitCopies == Init => CopiesInv
  BY AssumptionsHold DEF Assumptions, Init, CopiesInv, Locked

\* Every step keeps the copies sufficient.
LEMMA NextCopies ==
  ASSUME TypeOK, CopiesInv, [Next]_vars
  PROVE  CopiesInv'
  <1> USE AssumptionsHold
      DEF Assumptions, TypeOK, CopiesInv, Locked, InStock,
          Held, Items, Quantities, db, session, history
  <1>1. CASE UNCHANGED vars
    BY <1>1 DEF vars
  <1>2. CASE (\E u \in Shoppers : CartOp(u)) \/ AdminOp
    BY <1>2, EndpointsFrame
  <1>3. ASSUME NEW r \in Requests, PlaceOrder(r) \/ AddressNotFound(r) \/ Fail(r)
        PROVE  CopiesInv'
    <2>1. CASE LoadCart(r)
      BY <2>1 DEF LoadCart
    <2>2. CASE LoadVariants(r)
      BY <2>2 DEF LoadVariants
    <2>3. CASE LockNext(r)
      <3>1. PICK w \in Variants : rowLock[w] = NoRequest /\ rowLock' = [rowLock EXCEPT ![w] = r]
        BY <2>3 DEF LockNext, Wanted
      <3>2. \A q \in Requests : \A v \in Held(q) : v \in Held(q)'
        BY <3>1
      <3>3. UNCHANGED <<pc, lines, seen>>
        BY <2>3 DEF LockNext
      <3>4. QED
        BY <3>2, <3>3
    <2>4. CASE StockAccepted(r)
      BY <2>4 DEF StockAccepted
    <2>5. CASE ReadCoupon(r)
      BY <2>5 DEF ReadCoupon
    <2>6. CASE Commit(r)
      <3>1. /\ pc' = [pc EXCEPT ![r] = "respond"] /\ ReleaseLocks(r)
            /\ UNCHANGED <<lines, seen>>
        BY <2>6 DEF Commit, End
      <3>2. ASSUME NEW q \in Requests, pc'[q] \in Locked
            PROVE  InStock(q)'
        <4>1. q # r /\ pc[q] \in Locked
          BY <3>1, <3>2
        <4>2. InStock(q) /\ Items(q)' = Items(q)
          BY <3>1, <4>1
        <4>3. \A v \in Held(q) : v \in Held(q)'
          BY <3>1, <4>1 DEF ReleaseLocks
        <4>4. QED
          BY <3>1, <4>2, <4>3
      <3>3. QED
        BY <3>2
    <2>7. CASE Quit(r)
      BY <2>7, QuitFrame
    <2>8. QED
      BY <1>3, <2>1, <2>2, <2>3, <2>4, <2>5, <2>6, <2>7 DEF PlaceOrder, Quit
  <1>4. QED
    BY <1>1, <1>2, <1>3 DEF Next

\* Orders are committed by Commit alone.
LEMMA OrdersGrow ==
  ASSUME Next, NEW r \in orders' \ orders
  PROVE  r \in Requests /\ Commit(r)
  <1>1. (\E u \in Shoppers : CartOp(u)) \/ AdminOp => orders' = orders
    BY DEF CartOp, AddItem, UpdateItem, RemoveItem, ClearCart, AdminOp, SetStock,
           DeleteVariant, SetUsable
  <1>2. PICK q \in Requests : PlaceOrder(q) \/ AddressNotFound(q) \/ Fail(q)
    BY <1>1 DEF Next
  <1>3. orders' = orders \/ Commit(q)
    BY <1>2 DEF PlaceOrder, AddressNotFound, Fail, LoadCart, CartIsEmpty, LoadVariants,
                LockNext, StockAccepted, StockRejected, ReadCoupon, CouponRejected, Respond, db
  <1>4. Commit(q) /\ r = q
    BY <1>3 DEF Commit
  <1>5. QED
    BY <1>4

\* A commit leaves at least nothing of what it sells.
LEMMA CommitCovered ==
  ASSUME TypeOK, CopiesInv, NEW r \in Requests, Commit(r), NEW v \in Items(r)
  PROVE  stock'[v] >= 0
  <1>1. pc[r] = "write" /\ stock' = StockWritten(r) /\ v \in Variants
    BY DEF Commit, Items
  <1>2. lines[r][v] <= seen[r][v]
    BY <1>1 DEF CopiesInv, Locked, InStock
  <1>3. lines[r][v] \in Nat /\ seen[r][v] \in Int
    BY <1>1 DEF TypeOK, Quantities
  <1>4. stock'[v] = seen[r][v] - lines[r][v]
    BY <1>1 DEF StockWritten
  <1>5. QED
    BY <1>2, <1>3, <1>4

\* No order takes what it sells below zero, however the checkouts, the carts and the
\* admins interleave and whatever levels these write, negative ones too: the check
\* and the decrement use one and the same copy (order_service.py:67-70,137).
THEOREM StockTheorem == Spec => NeverSoldBelowZero
  <1>1. TypeOK /\ CopiesInv /\ [Next]_vars => [LevelLeft]_vars
    BY OrdersGrow, CommitCovered DEF LevelLeft
  <1>2. Spec => []CopiesInv
    BY InitCopies, NextCopies, Typing, PTL DEF Spec
  <1>3. QED
    BY <1>1, <1>2, Typing, PTL DEF Spec, NeverSoldBelowZero

\* Between the stock check and the commit a checkout owns all its variants'
\* rows, and no other checkout of one of them is in that stretch.
THEOREM ExclusiveTheorem == Spec => []ExclusiveRows
  <1>1. Spec => []CopiesInv
    BY InitCopies, NextCopies, Typing, PTL DEF Spec
  <1>2. TypeOK /\ CopiesInv => ExclusiveRows
    BY DEF TypeOK, CopiesInv, ExclusiveRows, InStock, Held, Items
  <1>3. QED
    BY <1>1, <1>2, Typing, PTL

-----------------------------------------------------------------------------
(* The stock ledger                                                        *)

LEMMA InitLedger == Init => LedgerInv
  BY AssumptionsHold DEF Assumptions, Init, LedgerInv, LedgerExact, Reading

\* The session copies and history of a request only change while it reads.
LEMMA NextLedger ==
  ASSUME TypeOK, ProgressInv, LedgerInv, [Next]_vars
  PROVE  LedgerInv'
  <1> USE DEF LedgerInv, LedgerExact, Reading, Items
  <1>1. CASE UNCHANGED vars
    BY <1>1 DEF vars
  <1>2. ASSUME NEW w \in Variants, NEW n \in RestockLevels, SetStock(w, n)
        PROVE  LedgerInv'
    <2>1. \A v \in Variants \ {w} : stock'[v] = stock[v] /\ shelf'[v] = shelf[v]
      BY <1>2 DEF SetStock, TypeOK
    <2>2. stock'[w] = shelf'[w]
      BY <1>2 DEF SetStock, TypeOK
    <2>3. UNCHANGED <<lines, seen, pc, orders>>
      BY <1>2 DEF SetStock, session
    <2>4. \A q \in Requests : overtaken[q] \subseteq overtaken'[q]
      BY <1>2 DEF SetStock, Overtake, TypeOK
    <2>5. \A q \in Requests : pc[q] \in Reading /\ w \in Items(q) => w \in overtaken'[q]
      BY <1>2, AssumptionsHold DEF SetStock, Overtake, TypeOK, Assumptions
    <2>6. LedgerExact'
      BY <2>1, <2>2, <2>3, <2>4 DEF TypeOK
    <2>7. QED
      BY <2>1, <2>3, <2>4, <2>5, <2>6
  <1>3. CASE /\ UNCHANGED <<stock, shelf, overtaken, orders, lines, seen, pc>>
    BY <1>3
  <1>4. ASSUME NEW r \in Requests, PlaceOrder(r) \/ AddressNotFound(r) \/ Fail(r)
        PROVE  LedgerInv'
    <2>1. CASE LoadCart(r)
      <3>1. r \notin orders
        BY <2>1 DEF LoadCart, ProgressInv
      <3>2. UNCHANGED <<stock, shelf, overtaken, orders, seen>>
        BY <2>1 DEF LoadCart, db, history
      <3>3. pc'[r] \notin Reading /\ \A q \in Requests \ {r} : pc'[q] = pc[q] /\ lines'[q] = lines[q]
        BY <2>1 DEF LoadCart, TypeOK
      <3>4. QED
        BY <3>1, <3>2, <3>3 DEF TypeOK
    <2>2. CASE LoadVariants(r)
      BY <2>2 DEF LoadVariants, TypeOK, db, history
    <2>3. CASE LockNext(r) \/ StockAccepted(r) \/ ReadCoupon(r)
      BY <2>3 DEF LockNext, StockAccepted, ReadCoupon, TypeOK, db, session, history
    <2>4. CASE Commit(r)
      <3>1. /\ stock' = StockWritten(r)
            /\ shelf' = [v \in Variants |-> shelf[v] - lines[r][v]]
            /\ orders' = orders \union {r}
            /\ UNCHANGED <<lines, seen>>
            /\ pc[r] = "write"
        BY <2>4 DEF Commit, session
      <3>2. pc' = [pc EXCEPT ![r] = "respond"]
        BY <2>4 DEF Commit, End
      <3>3. /\ overtaken'[r] = overtaken[r]
            /\ \A q \in Requests : overtaken[q] \subseteq overtaken'[q]
            /\ \A q \in Requests \ {r} : pc[q] \in Reading =>
                 overtaken'[q] = overtaken[q] \union (Items(r) \intersect Items(q))
        BY <2>4 DEF Commit, Overtake, TypeOK
      <3>4. \A v \in Variants \ Items(r) : stock'[v] = stock[v] /\ shelf'[v] = shelf[v]
        BY <3>1 DEF StockWritten, TypeOK, Quantities
      <3>5. \A v \in Items(r) \ overtaken[r] :
              stock'[v] = stock[v] - lines[r][v] /\ shelf'[v] = shelf[v] - lines[r][v]
        BY <3>1 DEF StockWritten
      <3>6. LedgerExact'
        BY <3>1, <3>3, <3>4, <3>5 DEF TypeOK, Quantities
      <3>7. ASSUME NEW q \in Requests, pc'[q] \in Reading, NEW v \in Items(q) \ overtaken'[q]
            PROVE  seen[q][v] = stock'[v]
        <4>1. q # r /\ pc[q] \in Reading
          BY <3>2, <3>7 DEF TypeOK
        <4>2. v \notin Items(r) /\ v \notin overtaken[q]
          BY <3>3, <3>7, <4>1
        <4>3. QED
          BY <3>4, <3>7, <4>1, <4>2
      <3>8. QED
        BY <3>1, <3>6, <3>7
    <2>5. CASE Quit(r)
      BY <2>5, QuitFrame
    <2>6. QED
      BY <1>4, <2>1, <2>2, <2>3, <2>4, <2>5 DEF PlaceOrder, Quit
  <1>5. QED
    <2>1. (\E u \in Shoppers : CartOp(u)) => UNCHANGED <<stock, shelf, overtaken, orders, lines, seen, pc>>
      BY DEF CartOp, AddItem, UpdateItem, RemoveItem, ClearCart, session, history
    <2>2. AdminOp => \/ UNCHANGED <<stock, shelf, overtaken, orders, lines, seen, pc>>
                     \/ \E w \in Variants, n \in RestockLevels : SetStock(w, n)
      BY DEF AdminOp, DeleteVariant, SetUsable, session, history
    <2>3. QED
      BY <1>1, <1>2, <1>3, <1>4, <2>1, <2>2 DEF Next

\* The ledger breaks only through an overtaken copy: if no committed checkout
\* was overtaken on a variant, its stock_quantity is exactly what is left.
THEOREM LedgerTheorem == Spec => []LedgerExact
  <1>1. Spec => [](ProgressInv /\ LedgerInv)
    BY InitProgress, InitLedger, NextProgress, NextLedger, Typing, PTL DEF Spec
  <1>2. LedgerInv => LedgerExact
    BY DEF LedgerInv
  <1>3. QED
    BY <1>1, <1>2, PTL

\* Whoever sells more of v than is left is himself, or comes after, an order for v
\* that was committed from a copy another transaction had overtaken.
OversellsFromCopies ==
  \A r \in orders' \ orders : \A v \in Items(r) :
    shelf'[v] < 0 => \E q \in orders' : v \in Items(q)' /\ v \in overtaken'[q]

\* A variant is oversold only where a copy of its stock was overtaken before an order
\* for it was committed (order_service.py:53-97): without that, the row locks do what
\* docs/adr/0001 says of them, whatever levels the admins write.
THEOREM OversoldTheorem == Spec => [][OversellsFromCopies]_vars
  <1>1. ASSUME TypeOK, TypeOK', CopiesInv, LedgerExact', Next,
               NEW r \in orders' \ orders, NEW v \in Items(r), shelf'[v] < 0
        PROVE  \E q \in orders' : v \in Items(q)' /\ v \in overtaken'[q]
    <2>1. v \in Variants /\ stock'[v] >= 0
      BY <1>1, OrdersGrow, CommitCovered DEF Items
    <2>2. stock'[v] \in Int /\ shelf'[v] \in Int
      BY <1>1, <2>1 DEF TypeOK
    <2>3. stock'[v] # shelf'[v]
      BY <1>1, <2>1, <2>2
    <2>4. QED
      BY <1>1, <2>1, <2>3 DEF LedgerExact
  <1>2. TypeOK /\ TypeOK' /\ CopiesInv /\ LedgerExact' /\ [Next]_vars => [OversellsFromCopies]_vars
    BY <1>1 DEF OversellsFromCopies
  <1>3. Spec => []CopiesInv
    BY InitCopies, NextCopies, Typing, PTL DEF Spec
  <1>4. QED
    BY <1>2, <1>3, Typing, LedgerTheorem, PTL DEF Spec

\* A row that r has locked is not written by anybody else until r is through.
LockedKept ==
  \A r \in Requests, v \in Variants :
    v \in Held(r) /\ v \notin overtaken[r] => v \notin overtaken'[r]

\* Whoever commits takes from what nobody wrote since he read it exactly what he
\* sells, and finds it there.
TakesExactly ==
  \A r \in Requests : Commit(r) =>
    \A v \in Items(r) \ overtaken[r] :
      lines[r][v] <= stock[v] /\ stock'[v] = stock[v] - lines[r][v]

\* A copy is overtaken only between LoadVariants and the lock on its row: from
\* then on FOR UPDATE protects it.  A checkout that read the stock again under its
\* locks (populate_existing) could not be overtaken (order_service.py:53-60).
THEOREM LockedKeptTheorem == Spec => [][LockedKept]_vars
  <1>1. ASSUME TypeOK, ProgressInv, CopiesInv, Next, NEW r \in Requests, NEW v \in Variants,
               v \in Held(r), v \notin overtaken[r]
        PROVE  v \notin overtaken'[r]
    <2>1. ASSUME NEW w \in Variants, NEW n \in RestockLevels, SetStock(w, n)
          PROVE  v \notin overtaken'[r]
      <3>1. w # v
        BY <1>1, <2>1, AssumptionsHold DEF SetStock, Held, Assumptions
      <3>2. QED
        BY <1>1, <2>1, <3>1 DEF SetStock, Overtake, TypeOK
    <2>2. ASSUME NEW q \in Requests, Commit(q) PROVE v \notin overtaken'[r]
      <3>1. CASE q = r
        BY <1>1, <2>2, <3>1 DEF Commit, Overtake, TypeOK
      <3>2. CASE q # r
        <4>1. v \notin Items(q)
          <5>1. Items(q) \subseteq Held(q)
            BY <1>1, <2>2 DEF Commit, CopiesInv, InStock, Locked, TypeOK, Held, Items
          <5>2. v \notin Held(q)
            BY <1>1, <3>2 DEF Held
          <5>3. QED
            BY <5>1, <5>2
        <4>2. QED
          BY <1>1, <2>2, <3>2, <4>1 DEF Commit, Overtake, TypeOK
      <3>3. QED
        BY <3>1, <3>2
    <2>3. CASE UNCHANGED overtaken
      BY <1>1, <2>3
    <2>4. QED
      <3>1. (\E u \in Shoppers : CartOp(u)) => UNCHANGED overtaken
        BY DEF CartOp, AddItem, UpdateItem, RemoveItem, ClearCart, session, history
      <3>2. AdminOp => \/ UNCHANGED overtaken
                       \/ \E w \in Variants, n \in RestockLevels : SetStock(w, n)
        BY DEF AdminOp, DeleteVariant, SetUsable, session, history
      <3>3. ASSUME NEW q \in Requests, PlaceOrder(q) \/ AddressNotFound(q) \/ Fail(q)
            PROVE  UNCHANGED overtaken \/ Commit(q)
        BY <3>3 DEF PlaceOrder, AddressNotFound, Fail, LoadCart, CartIsEmpty, LoadVariants,
                    LockNext, StockAccepted, StockRejected, ReadCoupon, CouponRejected, Respond,
                    session, history
      <3>4. QED
        BY <1>1, <2>1, <2>2, <2>3, <3>1, <3>2, <3>3 DEF Next
  <1>2. TypeOK /\ ProgressInv /\ CopiesInv /\ [Next]_vars => [LockedKept]_vars
    BY <1>1 DEF LockedKept
  <1>3. Spec => [](ProgressInv /\ CopiesInv)
    BY InitProgress, NextProgress, InitCopies, NextCopies, Typing, PTL DEF Spec
  <1>4. QED
    BY <1>2, <1>3, Typing, PTL DEF Spec

\* Unless overtaken, an order is what place_order would do alone at its commit:
\* the level it checked and writes over is the row's (order_service.py:67-70,137).
THEOREM CommitTheorem == Spec => [][TakesExactly]_vars
  <1>1. ASSUME TypeOK, CopiesInv, LedgerInv, NEW r \in Requests, Commit(r),
               NEW v \in Items(r) \ overtaken[r]
        PROVE  lines[r][v] <= stock[v] /\ stock'[v] = stock[v] - lines[r][v]
    <2>1. pc[r] = "write" /\ stock'[v] = seen[r][v] - lines[r][v]
      BY <1>1 DEF Commit, StockWritten, Items
    <2>2. seen[r][v] = stock[v]
      BY <1>1, <2>1 DEF LedgerInv, Reading, Items
    <2>3. lines[r][v] <= seen[r][v]
      BY <1>1, <2>1 DEF CopiesInv, Locked, InStock, Items, TypeOK, Quantities
    <2>4. QED
      BY <2>1, <2>2, <2>3
  <1>2. TypeOK /\ CopiesInv /\ LedgerInv /\ [Next]_vars => [TakesExactly]_vars
    BY <1>1 DEF TakesExactly
  <1>3. Spec => [](CopiesInv /\ LedgerInv)
    BY InitCopies, NextCopies, InitProgress, InitLedger, NextProgress, NextLedger, Typing, PTL
       DEF Spec
  <1>4. QED
    BY <1>2, <1>3, Typing, PTL DEF Spec

-----------------------------------------------------------------------------
(* No restocks: nothing is hidden                                          *)

LEMMA InitNothingHidden == Init => NothingHiddenInv
  BY AssumptionsHold DEF Assumptions, Init, NothingHiddenInv, NoUnitHidden, Reading

\* Every step keeps the column at or above the units left.
LEMMA NextNothingHidden ==
  ASSUME RestockLevels = {}, TypeOK, NothingHiddenInv, [Next]_vars
  PROVE  NothingHiddenInv'
  <1> USE DEF NothingHiddenInv, NoUnitHidden, Reading, Items
  <1>1. CASE /\ UNCHANGED <<stock, shelf, lines, seen, pc>>
    BY <1>1
  <1>2. ASSUME NEW r \in Requests, PlaceOrder(r) \/ AddressNotFound(r) \/ Fail(r)
        PROVE  NothingHiddenInv'
    <2>1. CASE LoadCart(r)
      BY <2>1 DEF LoadCart, TypeOK, db, history
    <2>2. CASE LoadVariants(r)
      BY <2>2 DEF LoadVariants, TypeOK, db, history
    <2>3. CASE LockNext(r) \/ StockAccepted(r) \/ ReadCoupon(r)
      BY <2>3 DEF LockNext, StockAccepted, ReadCoupon, TypeOK, db, session, history
    <2>4. CASE Commit(r)
      <3>1. /\ stock' = StockWritten(r)
            /\ shelf' = [v \in Variants |-> shelf[v] - lines[r][v]]
            /\ UNCHANGED <<lines, seen>>
            /\ pc[r] = "write"
            /\ pc' = [pc EXCEPT ![r] = "respond"]
        BY <2>4 DEF Commit, End, session
      <3>2. \A v \in Variants : stock'[v] >= shelf'[v]
        BY <3>1 DEF StockWritten, TypeOK, Quantities
      <3>3. \A v \in Variants : shelf'[v] <= shelf[v]
        BY <3>1 DEF TypeOK, Quantities
      <3>4. ASSUME NEW q \in Requests, pc'[q] \in Reading, NEW v \in Items(q)
            PROVE  seen[q][v] >= shelf'[v]
        <4>1. pc[q] \in Reading
          BY <3>1, <3>4 DEF TypeOK
        <4>2. /\ seen[q][v] \in Int /\ shelf[v] \in Int /\ shelf'[v] \in Int
              /\ seen[q][v] >= shelf[v] /\ shelf'[v] <= shelf[v]
          BY <3>1, <3>3, <3>4, <4>1 DEF TypeOK, Quantities
        <4>3. QED
          BY <4>2
      <3>5. QED
        BY <3>1, <3>2, <3>4
    <2>5. CASE Quit(r)
      BY <2>5, QuitFrame
    <2>6. QED
      BY <1>2, <2>1, <2>2, <2>3, <2>4, <2>5 DEF PlaceOrder, Quit
  <1>3. QED
    <2>1. (\E u \in Shoppers : CartOp(u)) => UNCHANGED <<stock, shelf, lines, seen, pc>>
      BY DEF CartOp, AddItem, UpdateItem, RemoveItem, ClearCart, session, history
    <2>2. AdminOp => UNCHANGED <<stock, shelf, lines, seen, pc>>
      BY DEF AdminOp, DeleteVariant, SetUsable, session, history
    <2>3. UNCHANGED vars => UNCHANGED <<stock, shelf, lines, seen, pc>>
      BY DEF vars
    <2>4. QED
      BY <1>1, <1>2, <2>1, <2>2, <2>3 DEF Next

\* While no admin writes stock, overtaken checkouts can only leave the column
\* too high: no unit that is really left is ever hidden from the shoppers.
THEOREM NothingHiddenTheorem ==
  ASSUME RestockLevels = {}
  PROVE  Spec => []NoUnitHidden
  <1>1. TypeOK /\ NothingHiddenInv /\ [Next]_vars => NothingHiddenInv'
    BY NextNothingHidden
  <1>2. NothingHiddenInv => NoUnitHidden
    BY DEF NothingHiddenInv
  <1>3. QED
    BY InitNothingHidden, <1>1, <1>2, Typing, PTL DEF Spec

-----------------------------------------------------------------------------
(* Ordered locking                                                         *)

\* The row r is waiting for is the least it still wants; whoever holds it and
\* waits itself, waits for a greater one.
LEMMA WaitsAscend ==
  ASSUME TypeOK, ProgressInv, NEW a \in Requests, NEW b \in Requests,
         NEW v \in Wanted(a), rowLock[v] = b, pc[b] = "locking",
         NEW w \in Wanted(b)
  PROVE  v < w
  BY DEF TypeOK, ProgressInv, Wanted, Held, Items

\* Row locks taken in id order cannot form a wait cycle among any number of
\* checkouts.
THEOREM NoWaitCycleTheorem == Spec => []NoWaitCycle
  <1>1. ASSUME TypeOK, ProgressInv PROVE NoWaitCycle
    <2> SUFFICES ASSUME NEW S \in SUBSET Requests, S # {},
                        \A a \in S : \E b \in S : WaitsFor(a, b)
                 PROVE  FALSE
      BY DEF NoWaitCycle
    <2> DEFINE Next1(a) == CHOOSE v \in Wanted(a) : \A w \in Wanted(a) : v <= w
               Above(a) == {b \in S : Next1(a) < Next1(b)}
               Sizes    == {Cardinality(Above(a)) : a \in S}
    <2>1. \A a \in S : /\ pc[a] = "locking"
                       /\ Next1(a) \in Wanted(a) /\ Next1(a) \in Nat
                       /\ \E b \in S : rowLock[Next1(a)] = b
      <3> SUFFICES ASSUME NEW a \in S
                   PROVE  /\ pc[a] = "locking"
                          /\ Next1(a) \in Wanted(a) /\ Next1(a) \in Nat
                          /\ \E b \in S : rowLock[Next1(a)] = b
        OBVIOUS
      <3>1. PICK b \in S : WaitsFor(a, b)
        OBVIOUS
      <3>2. PICK v \in Wanted(a) : (\A w \in Wanted(a) : v <= w) /\ rowLock[v] = b
        BY <3>1 DEF WaitsFor
      <3>3. Next1(a) \in Wanted(a) /\ \A w \in Wanted(a) : Next1(a) <= w
        BY <3>2
      <3>4. Wanted(a) \subseteq Nat
        BY AssumptionsHold DEF Wanted, Items, Assumptions
      <3>5. Next1(a) = v
        BY <3>2, <3>3, <3>4
      <3>6. QED
        BY <3>1, <3>2, <3>3, <3>4, <3>5 DEF WaitsFor
    <2>2. \A a \in S : \E b \in S : Next1(a) < Next1(b)
      <3> SUFFICES ASSUME NEW a \in S PROVE \E b \in S : Next1(a) < Next1(b)
        OBVIOUS
      <3>1. PICK b \in S : rowLock[Next1(a)] = b
        BY <2>1
      <3>2. Next1(a) \in Wanted(a) /\ Next1(b) \in Wanted(b) /\ pc[b] = "locking"
        BY <2>1
      <3> HIDE DEF Next1
      <3>3. Next1(a) < Next1(b)
        BY <1>1, <3>1, <3>2, WaitsAscend
      <3>4. QED
        BY <3>3
    <2> HIDE DEF Next1
    <2>3. IsFiniteSet(S)
      BY FS_Subset, AssumptionsHold DEF Assumptions
    <2>4. \A a \in S : IsFiniteSet(Above(a)) /\ Cardinality(Above(a)) \in Nat
      BY <2>3, FS_Subset, FS_CardinalityType
    <2>5. Sizes \subseteq Nat /\ Sizes # {}
      BY <2>4
    <2>6. PICK n \in Sizes : \A m \in Sizes : ~(<<m, n>> \in OpToRel(<, Nat))
      <3> HIDE DEF Sizes
      <3>1. QED
        BY <2>5, WFMin, NatLessThanWellFounded
    <2>7. PICK a \in S : n = Cardinality(Above(a))
      BY <2>6
    <2>8. PICK b \in S : Next1(a) < Next1(b)
      BY <2>2
    <2>9. Above(b) \subseteq Above(a) /\ b \in Above(a) /\ b \notin Above(b)
      BY <2>1, <2>8
    <2>10. Cardinality(Above(b)) < Cardinality(Above(a))
      <3>1. Above(b) \in SUBSET Above(a) /\ Above(b) # Above(a)
        BY <2>9
      <3> HIDE DEF Above
      <3>2. QED
        BY <2>4, <3>1, FS_Subset
    <2>11. <<Cardinality(Above(b)), n>> \in OpToRel(<, Nat)
      BY <2>4, <2>7, <2>10 DEF OpToRel
    <2>12. QED
      BY <2>6, <2>11
  <1>2. Spec => []ProgressInv
    BY InitProgress, NextProgress, Typing, PTL DEF Spec
  <1>3. QED
    BY <1>1, <1>2, Typing, PTL

-----------------------------------------------------------------------------
(* Progress, as far as it can be said without ENABLED and fairness         *)

\* place_order cannot go on: the next row it has to lock is another's.
Stuck(r) ==
  /\ pc[r] = "locking" /\ Wanted(r) # {}
  /\ \A v \in Wanted(r) : (\A w \in Wanted(r) : v <= w) => rowLock[v] # NoRequest

\* While checkouts are under way, one of them can go on.
SomeoneCanGoOn == (\E r \in Requests : Active(r)) => \E r \in Requests : Active(r) /\ ~Stuck(r)

\* A set of naturals has a least member.
LEMMA LeastExists ==
  ASSUME NEW W, W \subseteq Nat, W # {}
  PROVE  \E v \in W : \A w \in W : v <= w
  <1>1. PICK v \in W : \A w \in W : ~(<<w, v>> \in OpToRel(<, Nat))
    BY WFMin, NatLessThanWellFounded
  <1>2. \A w \in W : ~(w < v)
    BY <1>1 DEF OpToRel
  <1>3. QED
    BY <1>2

\* Every stuck checkout waits for one that is under way.
LEMMA StuckWaits ==
  ASSUME TypeOK, ProgressInv, NEW r \in Requests, Stuck(r)
  PROVE  \E q \in Requests : Active(q) /\ WaitsFor(r, q)
  <1>1. Wanted(r) \subseteq Nat /\ Wanted(r) \subseteq Variants
    BY AssumptionsHold DEF Wanted, Items, Assumptions
  <1>2. PICK v \in Wanted(r) : \A w \in Wanted(r) : v <= w
    BY <1>1, LeastExists DEF Stuck
  <1>3. rowLock[v] \in Requests
    BY <1>1, <1>2 DEF Stuck, TypeOK
  <1>4. v \in Held(rowLock[v])
    BY <1>1, <1>3 DEF Held
  <1>5. Active(rowLock[v])
    BY <1>3, <1>4 DEF ProgressInv, BeforeLocks, Active, Ended
  <1>6. QED
    BY <1>2, <1>3, <1>5 DEF WaitsFor, Stuck

\* However many checkouts contend for however many rows, they never all wait.
THEOREM GoesOnTheorem == Spec => []SomeoneCanGoOn
  <1>1. ASSUME TypeOK, ProgressInv, NoWaitCycle PROVE SomeoneCanGoOn
    <2> SUFFICES ASSUME NEW q \in Requests, Active(q),
                        \A r \in Requests : Active(r) => Stuck(r)
                 PROVE  FALSE
      BY DEF SomeoneCanGoOn
    <2> DEFINE S == {r \in Requests : Active(r)}
    <2>1. \A a \in S : \E b \in S : WaitsFor(a, b)
      BY <1>1, StuckWaits
    <2>2. QED
      BY <1>1, <2>1 DEF NoWaitCycle
  <1>2. Spec => []ProgressInv
    BY InitProgress, NextProgress, Typing, PTL DEF Spec
  <1>3. QED
    BY <1>1, <1>2, NoWaitCycleTheorem, Typing, PTL

Phase(where) ==
  CASE where = "start"    -> 0
    [] where = "variants" -> 1
    [] where = "locking"  -> 2
    [] where = "coupon"   -> 3
    [] where = "write"    -> 4
    [] where = "respond"  -> 5
    [] OTHER              -> 6

\* A checkout reaches a later phase, or has fewer rows left to lock.
Advances(r) ==
  \/ Phase(pc[r]) < Phase(pc'[r])
  \/ pc'[r] = pc[r] /\ Wanted(r)' \subseteq Wanted(r) /\ Wanted(r)' # Wanted(r)

\* Nothing anybody does sets a checkout back.
Keeps(r) == Active(r) /\ ~Advances(r) => pc'[r] = pc[r] /\ Wanted(r)' \subseteq Wanted(r)

StepsAhead == \A r \in Requests : (PlaceOrder(r) => Advances(r)) /\ Keeps(r)

\* What another request does leaves q where it is.
LEMMA OthersStay ==
  ASSUME TypeOK, NEW r \in Requests, PlaceOrder(r) \/ AddressNotFound(r) \/ Fail(r),
         NEW q \in Requests \ {r}
  PROVE  pc'[q] = pc[q] /\ Wanted(q)' = Wanted(q)
  <1> USE AssumptionsHold DEF Assumptions, TypeOK, Wanted, Held, Items, db, session, history
  <1>1. CASE LoadCart(r)
    BY <1>1 DEF LoadCart
  <1>2. CASE LoadVariants(r)
    BY <1>2 DEF LoadVariants
  <1>3. CASE LockNext(r)
    BY <1>3 DEF LockNext
  <1>4. CASE StockAccepted(r)
    BY <1>4 DEF StockAccepted
  <1>5. CASE ReadCoupon(r)
    BY <1>5 DEF ReadCoupon
  <1>6. CASE Commit(r)
    BY <1>6 DEF Commit, End, ReleaseLocks
  <1>7. CASE Quit(r)
    <2> HIDE DEF Assumptions, TypeOK, Held
    <2>1. QED
      BY <1>7, QuitFrame
  <1>8. QED
    BY <1>1, <1>2, <1>3, <1>4, <1>5, <1>6, <1>7 DEF PlaceOrder, Quit

\* Each step of place_order brings it closer to its end.
LEMMA OwnAdvances ==
  ASSUME TypeOK, NEW r \in Requests, PlaceOrder(r) \/ AddressNotFound(r) \/ Fail(r)
  PROVE  Advances(r)
  <1> USE DEF TypeOK
  <1>1. CASE LoadCart(r)
    BY <1>1 DEF LoadCart, Advances, Phase
  <1>2. CASE LoadVariants(r)
    BY <1>2 DEF LoadVariants, Advances, Phase
  <1>3. CASE LockNext(r)
    <2>1. PICK v \in Wanted(r) : rowLock' = [rowLock EXCEPT ![v] = r]
      BY <1>3 DEF LockNext
    <2>2. v \in Variants /\ lines' = lines /\ live' = live /\ pc' = pc
      BY <1>3 DEF LockNext, Wanted, Items, db, session
    <2>3. Held(r)' = Held(r) \union {v}
      BY <2>1, <2>2 DEF Held
    <2>4. Wanted(r)' = Wanted(r) \ {v}
      BY <2>2, <2>3 DEF Wanted, Items
    <2>5. QED
      BY <2>2, <2>4 DEF Advances
  <1>4. CASE StockAccepted(r)
    BY <1>4 DEF StockAccepted, Advances, Phase
  <1>5. CASE ReadCoupon(r)
    BY <1>5 DEF ReadCoupon, Advances, Phase
  <1>6. CASE Commit(r)
    BY <1>6 DEF Commit, End, Advances, Phase
  <1>7. CASE Quit(r)
    <2>1. pc'[r] \in {"placed", "rejected", "failed"}
      BY <1>7, QuitFrame
    <2>2. pc[r] \in PCs \ Ended
      BY <1>7 DEF Quit, AddressNotFound, CartIsEmpty, StockRejected, CouponRejected, Respond,
         Fail, Active, Ended, PCs
    <2>3. QED
      BY <2>1, <2>2 DEF Advances, Phase, PCs, Ended
  <1>8. QED
    BY <1>1, <1>2, <1>3, <1>4, <1>5, <1>6, <1>7 DEF PlaceOrder, Quit

\* Every step of place_order, of which there are as many as the cart has lines
\* and six more, comes closer to the answer, and no other call, endpoint or
\* failure sets a checkout back.  With GoesOnTheorem, this is what the liveness
\* of checkout rests on besides fairness.
THEOREM AdvanceTheorem == Spec => [][StepsAhead]_vars
  <1>1. ASSUME TypeOK, Next PROVE StepsAhead
    <2>1. CASE (\E u \in Shoppers : CartOp(u)) \/ AdminOp
      <3>1. /\ UNCHANGED <<pc, rowLock, lines>> /\ live' \subseteq live
        BY <1>1, <2>1, EndpointsFrame
      <3>2. \A r \in Requests : Keeps(r)
        BY <3>1 DEF Keeps, Wanted, Held, Items
      <3>3. \A r \in Requests : PlaceOrder(r) => Advances(r)
        BY <1>1, OwnAdvances
      <3>4. QED
        BY <3>2, <3>3 DEF StepsAhead
    <2>2. ASSUME NEW r \in Requests, PlaceOrder(r) \/ AddressNotFound(r) \/ Fail(r)
          PROVE  StepsAhead
      <3>1. Advances(r)
        BY <1>1, <2>2, OwnAdvances
      <3>2. \A q \in Requests \ {r} : Keeps(q)
        BY <1>1, <2>2, OthersStay DEF Keeps
      <3>3. \A q \in Requests : PlaceOrder(q) => Advances(q)
        BY <1>1, OwnAdvances
      <3>4. QED
        BY <3>1, <3>2, <3>3 DEF StepsAhead, Keeps
    <2>3. QED
      BY <1>1, <2>1, <2>2 DEF Next
  <1>2. QED
    BY <1>1, Typing, PTL DEF Spec

-----------------------------------------------------------------------------
(* Coupons                                                                 *)

LEMMA InitCoupon == Init => CouponInv
  <1> SUFFICES ASSUME Init PROVE CouponInv
    OBVIOUS
  <1>1. \A c \in Coupons : Redeemed(c) = {}
    BY DEF Init, Redeemed
  <1>2. IsFiniteSet(orders) /\ \A c \in Coupons : Cardinality(Redeemed(c)) = 0
    BY <1>1, FS_EmptySet DEF Init
  <1>3. UsedCountSound
    BY <1>2, AssumptionsHold DEF Init, UsedCountSound, Assumptions
  <1>4. QED
    BY <1>2, <1>3 DEF Init, CouponInv

\* Each coupon's redemptions are finitely many.
LEMMA RedeemedFinite ==
  ASSUME IsFiniteSet(orders)
  PROVE  \A c : IsFiniteSet(Redeemed(c)) /\ Cardinality(Redeemed(c)) \in Nat
  <1>1. \A c : Redeemed(c) \in SUBSET orders
    BY DEF Redeemed
  <1>2. QED
    BY <1>1, FS_Subset, FS_CardinalityType

\* A step that commits nothing and loads no counter or cart keeps the coupons.
LEMMA CouponFrame ==
  ASSUME CouponInv, UNCHANGED <<orders, used, code, lines, seenUsed>>,
         \A q \in Requests : pc'[q] = "coupon" => code[q] \in Coupons,
         \A q \in Requests : pc'[q] = "write" /\ code[q] \in Coupons => pc[q] = "write"
  PROVE  CouponInv'
  BY DEF CouponInv, UsedCountSound, Shared, Redeemed, Items

\* Every step keeps the counters sound.
LEMMA NextCoupon ==
  ASSUME TypeOK, CopiesInv, ProgressInv, CouponInv, [Next]_vars
  PROVE  CouponInv'
  <1>1. ASSUME UNCHANGED <<orders, used, code, lines, seenUsed, pc>> PROVE CouponInv'
    BY <1>1, CouponFrame DEF CouponInv
  <1>2. ASSUME NEW r \in Requests, PlaceOrder(r) \/ AddressNotFound(r) \/ Fail(r)
        PROVE  CouponInv'
    <2>1. CASE LoadCart(r)
      <3>1. /\ UNCHANGED <<orders, used, code, seenUsed>>
            /\ r \notin orders
            /\ pc'[r] = "variants"
            /\ \A q \in Requests \ {r} : pc'[q] = pc[q] /\ lines'[q] = lines[q]
        BY <2>1 DEF LoadCart, ProgressInv, TypeOK, db
      <3>2. \A c : Redeemed(c)' = Redeemed(c)
        BY <3>1 DEF Redeemed
      <3>3. \A q \in Requests \ {r} : Items(q)' = Items(q)
        BY <3>1 DEF Items
      <3>4. \A c : Redeemed(c) \subseteq Requests \ {r}
        BY <3>1 DEF Redeemed, TypeOK
      <3>5. \A c, v : Shared(c, v)' <=> Shared(c, v)
        BY <3>2, <3>3, <3>4 DEF Shared
      <3>6. QED
        BY <3>1, <3>2, <3>3, <3>5 DEF CouponInv, UsedCountSound
    <2>2. CASE LoadVariants(r) \/ LockNext(r)
      BY <2>2, CouponFrame DEF CouponInv, LoadVariants, LockNext, TypeOK, db, session
    <2>3. CASE StockAccepted(r)
      <3>1. /\ UNCHANGED <<orders, used, code, lines, seenUsed>>
            /\ pc' = [pc EXCEPT ![r] = IF code[r] = NoCoupon THEN "write" ELSE "coupon"]
        BY <2>3 DEF StockAccepted, db, session
      <3>2. NoCoupon \notin Coupons
        BY AssumptionsHold DEF Assumptions
      <3>3. \A q \in Requests : pc'[q] = "coupon" => code'[q] \in Coupons
        BY <3>1, <3>2 DEF CouponInv, TypeOK
      <3>4. \A q \in Requests : pc'[q] = "write" /\ code'[q] \in Coupons => pc[q] = "write"
        BY <3>1, <3>2 DEF TypeOK
      <3>5. QED
        BY <3>1, <3>3, <3>4, CouponFrame
    <2>4. CASE ReadCoupon(r)
      <3>1. /\ UNCHANGED <<orders, used, code, lines>>
            /\ pc[r] = "coupon"
            /\ pc' = [pc EXCEPT ![r] = "write"]
            /\ seenUsed' = [seenUsed EXCEPT ![r] = used[code[r]]]
            /\ MaxUses[code[r]] # NoLimit => used[code[r]] < MaxUses[code[r]]
        BY <2>4 DEF ReadCoupon, CouponAccepted, db
      <3>2. \A c : Redeemed(c)' = Redeemed(c)
        BY <3>1 DEF Redeemed
      <3>3. \A q : Items(q)' = Items(q)
        BY <3>1 DEF Items
      <3>4. \A c, v : Shared(c, v)' <=> Shared(c, v)
        BY <3>1, <3>2, <3>3 DEF Shared
      <3>5. \A q \in Requests \ {r} : pc'[q] = pc[q] /\ seenUsed'[q] = seenUsed[q]
        BY <3>1 DEF TypeOK
      <3>6. pc'[r] = "write" /\ seenUsed'[r] = used[code[r]]
        BY <3>1 DEF TypeOK
      <3>7. QED
        BY <3>1, <3>2, <3>3, <3>4, <3>5, <3>6 DEF CouponInv, UsedCountSound
    <2>5. CASE Commit(r)
      <3>1. /\ orders' = orders \union {r} /\ r \notin orders
            /\ used' = [c \in Coupons |-> IF c = code[r] THEN seenUsed[r] + 1 ELSE used[c]]
            /\ UNCHANGED <<code, lines, seenUsed>>
            /\ pc[r] = "write"
            /\ pc' = [pc EXCEPT ![r] = "respond"]
        BY <2>5 DEF Commit, End, session, ProgressInv
      <3>2. /\ pc'[r] = "respond"
            /\ \A q \in Requests \ {r} : pc'[q] = pc[q]
        BY <3>1 DEF TypeOK
      <3>3. \A q : Items(q)' = Items(q)
        BY <3>1 DEF Items
      <3>4. IsFiniteSet(orders) /\ IsFiniteSet(orders')
        BY <3>1, FS_AddElement DEF CouponInv
      <3>5. \A c : c # code[r] => Redeemed(c)' = Redeemed(c)
        BY <3>1 DEF Redeemed
      <3>6. /\ Redeemed(code[r])' = Redeemed(code[r]) \union {r}
            /\ r \notin Redeemed(code[r])
        BY <3>1 DEF Redeemed
      <3>7. Cardinality(Redeemed(code[r]))' = Cardinality(Redeemed(code[r])) + 1
        BY <3>4, <3>6, RedeemedFinite, FS_AddElement
      <3>8. \A c, v : Shared(c, v)' => Shared(c, v)
        BY <3>1, <3>3, <3>5, <3>6 DEF Shared
      <3>9. \A v : Shared(code[r], v)' => v \in Items(r)
        BY <3>3, <3>6 DEF Shared
      <3>10. \A c : Cardinality(Redeemed(c)) \in Nat
        BY <3>4, RedeemedFinite
      <3>11. \A c \in Coupons : c # code[r] => used'[c] = used[c]
        BY <3>1 DEF TypeOK
      <3>12. code[r] \in Coupons => used'[code[r]] = seenUsed[r] + 1
        BY <3>1
      <3>13. UsedCountSound'
        <4> SUFFICES ASSUME NEW c \in Coupons
                     PROVE  /\ MaxUses[c] # NoLimit => used'[c] <= MaxUses[c]
                            /\ used'[c] <= Cardinality(Redeemed(c))'
          BY DEF UsedCountSound
        <4>1. CASE c # code[r]
          BY <3>5, <3>11, <4>1 DEF CouponInv, UsedCountSound
        <4>2. CASE c = code[r]
          <5>1. /\ MaxUses[c] # NoLimit => seenUsed[r] < MaxUses[c]
                /\ seenUsed[r] <= Cardinality(Redeemed(c))
            BY <3>1, <4>2 DEF CouponInv
          <5>2. seenUsed[r] \in Nat /\ MaxUses[c] \in Nat \union {NoLimit}
            BY AssumptionsHold DEF TypeOK, Assumptions
          <5>3. used'[c] = seenUsed[r] + 1 /\ Cardinality(Redeemed(c))' = Cardinality(Redeemed(c)) + 1
            BY <3>1, <3>7, <3>12, <4>2
          <5>4. QED
            BY <3>10, <5>1, <5>2, <5>3
        <4>3. QED
          BY <4>1, <4>2
      <3>14. ASSUME NEW c \in Coupons, NEW v \in Variants, Shared(c, v)'
             PROVE  used'[c] = Cardinality(Redeemed(c))'
        <4>1. CASE c # code[r]
          BY <3>5, <3>8, <3>11, <3>14, <4>1 DEF CouponInv
        <4>2. CASE c = code[r]
          <5>1. Shared(c, v) /\ v \in Items(r)
            BY <3>1, <3>8, <3>9, <3>14, <4>2
          <5>2. seenUsed[r] = used[c] /\ used[c] = Cardinality(Redeemed(c))
            BY <3>1, <4>2, <5>1 DEF CouponInv
          <5>3. QED
            BY <3>1, <3>7, <3>12, <4>2, <5>2
        <4>3. QED
          BY <4>1, <4>2
      <3>15. ASSUME NEW q \in Requests, pc'[q] = "write", code[q] \in Coupons
             PROVE  /\ MaxUses[code[q]] # NoLimit => seenUsed[q] < MaxUses[code[q]]
                    /\ seenUsed[q] <= Cardinality(Redeemed(code[q]))'
                    /\ \A v \in Items(q) : Shared(code[q], v)' => seenUsed[q] = used'[code[q]]
        <4>1. q # r /\ pc[q] = "write"
          BY <3>2, <3>15
        <4>2. Items(q) \intersect Items(r) = {}
          BY <3>1, <4>1 DEF TypeOK, CopiesInv, InStock, Locked, Held
        <4>3. /\ MaxUses[code[q]] # NoLimit => seenUsed[q] < MaxUses[code[q]]
              /\ seenUsed[q] <= Cardinality(Redeemed(code[q]))
              /\ \A v \in Items(q) : Shared(code[q], v) => seenUsed[q] = used[code[q]]
          BY <3>15, <4>1 DEF CouponInv
        <4>4. seenUsed[q] \in Nat
          BY DEF TypeOK
        <4>5. CASE code[q] = code[r]
          BY <3>1, <3>7, <3>9, <3>10, <4>2, <4>3, <4>4, <4>5
        <4>6. CASE code[q] # code[r]
          BY <3>1, <3>5, <3>8, <3>11, <3>15, <4>3, <4>6
        <4>7. QED
          BY <4>5, <4>6
      <3>16. \A q \in Requests : pc'[q] = "coupon" => code'[q] \in Coupons
        BY <3>1, <3>2 DEF CouponInv
      <3>17. QED
        BY <3>1, <3>3, <3>4, <3>13, <3>14, <3>15, <3>16 DEF CouponInv
    <2>6. CASE Quit(r)
      BY <2>6, QuitFrame, CouponFrame DEF CouponInv
    <2>7. QED
      BY <1>2, <2>1, <2>2, <2>3, <2>4, <2>5, <2>6 DEF PlaceOrder, Quit
  <1>3. QED
    BY <1>1, <1>2, EndpointsFrame DEF Next, vars

\* A coupon's counter stays within its limit and never counts a redemption
\* that did not happen.
THEOREM UsedCountTheorem == Spec => []UsedCountSound
  <1>1. Spec => []CouponInv
    BY InitCopies, NextCopies, InitProgress, NextProgress, InitCoupon, NextCoupon,
       Typing, PTL DEF Spec
  <1>2. CouponInv => UsedCountSound
    BY DEF CouponInv
  <1>3. QED
    BY <1>1, <1>2, PTL

\* Redemptions that share a variant are counted exactly and within the limit.
THEOREM SharedVariantTheorem == Spec => []SharedVariantCeiling
  <1>1. Spec => []CouponInv
    BY InitCopies, NextCopies, InitProgress, NextProgress, InitCoupon, NextCoupon,
       Typing, PTL DEF Spec
  <1>2. CouponInv => SharedVariantCeiling
    BY DEF CouponInv, SharedVariantCeiling, UsedCountSound, Shared
  <1>3. QED
    BY <1>1, <1>2, PTL
=============================================================================
