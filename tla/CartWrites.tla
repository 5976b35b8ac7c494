----------------------------- MODULE CartWrites -----------------------------
(***************************************************************************)
(* One customer's cart and wishlist under calls that overlap: two browser  *)
(* tabs, a double click, a phone beside them.  Every call reads in one     *)
(* statement and writes in another, in a session of its own and without a  *)
(* lock; only the unique constraints and the row ids keep calls apart.     *)
(*                                                                         *)
(* The cart has one line, of one variant, and the wishlist one item, of    *)
(* that variant's product.  A line or an item that is deleted and added    *)
(* again is another row with another id; an id is named after the call     *)
(* that inserted the row.                                                  *)
(***************************************************************************)
EXTENDS Integers, FiniteSets

CONSTANTS
  Calls,
  Asks,    \* bound: what a call may ask, [op, quantity]
  Stock,   \* the variant's stock_quantity
  Before,  \* the id of a row that was there before the calls
  None

Ops == {"view", "add", "update", "remove", "clear", "order",
        "wishes", "wish", "unwish", "move"}

ASSUME AsksAssumption == Asks \subseteq [op : Ops, quantity : Int]
ASSUME StockAssumption == Stock \in Nat
ASSUME NamesAssumption == Before \notin Calls /\ None \notin Calls /\ Before # None

VARIABLES
  lists,    \* which of the customer's carts and wishlists rows exist
  line,     \* the cart_items row: id and quantity, or NoLine
  wished,   \* the id of the wishlist_items row, or None
  ask,      \* what each call asks
  target,   \* the row id a client took from an earlier response
  pc,
  hand,     \* the session's copy of the cart line
  owed,     \* history: the quantity the answered calls add up to
  blurred,  \* history: since the line was last set, a call wrote over another
  crossed,  \* history: calls overtaken by a commit since they read
  moved     \* history: which item each answered move-to-cart moved

vars == <<lists, line, wished, ask, target, pc, hand, owed, blurred, crossed, moved>>

tables  == <<lists, line, wished>>
ledgers == <<owed, blurred, moved>>

NoLine == [id |-> None, quantity |-> 0]
Ids == Calls \union {Before}
Lines == [id : Ids, quantity : Int]

WishOps == {"wishes", "wish", "unwish", "move"}
Reading == {"wishlist", "wish", "cart", "line"}
Exposed == {"newWishlist", "newCart", "write"}
Ended   == {"done", "refused", "error", "failed"}

Op(c) == ask[c].op
Quantity(c) == IF Op(c) = "move" THEN 1 ELSE ask[c].quantity

Goto(c, where) == pc' = [pc EXCEPT ![c] = where]

\* The step changes a row that x has read and is about to act on: the list it
\* has not found, its copy of the line, the item it saw or did not see.
Overtaken(x) ==
  \/ pc[x] = "newCart" /\ "cart" \in lists' \ lists
  \/ pc[x] = "newWishlist" /\ "wishlist" \in lists' \ lists
  \/ pc[x] \in {"line", "write"} /\ Op(x) \notin {"wish", "unwish"} /\ line' # line
  \/ pc[x] = "write" /\ Op(x) = "wish" /\ wished' # wished
  \/ pc[x] \in {"cart", "newCart", "line", "write"} /\ Op(x) = "move" /\ wished' # wished

Overtakes(c) == crossed' = crossed \union {x \in Calls \ {c} : Overtaken(x)}

Init ==
  /\ lists \in SUBSET {"cart", "wishlist"}
  /\ line \in {NoLine} \union {[id |-> Before, quantity |-> 1]}
  /\ line # NoLine => "cart" \in lists
  /\ wished \in {None, Before}
  /\ wished # None => "wishlist" \in lists
  /\ ask \in [Calls -> Asks]
  /\ target = [c \in Calls |-> None]
  /\ pc = [c \in Calls |-> "start"]
  /\ hand = [c \in Calls |-> NoLine]
  /\ owed = line.quantity
  /\ blurred = FALSE
  /\ crossed = {}
  /\ moved = {}

-----------------------------------------------------------------------------
(* The client                                                              *)

\* A request that names a row uses an id the client was shown before.
Look(c) ==
  /\ pc[c] = "start" /\ target[c] = None
  /\ \/ Op(c) \in {"update", "remove"} /\ line # NoLine
        /\ target' = [target EXCEPT ![c] = line.id]
     \/ Op(c) \in {"unwish", "move"} /\ wished # None
        /\ target' = [target EXCEPT ![c] = wished]
  /\ UNCHANGED <<tables, ask, pc, hand, ledgers, crossed>>

\* add_item looks at the variant first.
Begin(c) ==
  /\ pc[c] = "start"
  /\ Op(c) \in {"update", "remove", "unwish", "move"} => target[c] # None
  /\ Goto(c, IF Op(c) \in WishOps THEN "wishlist"
             ELSE IF Op(c) = "add" /\ Stock < Quantity(c) THEN "refused" ELSE "cart")
  /\ UNCHANGED <<tables, ask, target, hand, ledgers, crossed>>

-----------------------------------------------------------------------------
(* get_or_create_cart, get_or_create_wishlist                              *)

\* What follows once the list is there.
After(c, list) ==
  IF list = "wishlist"
    THEN IF Op(c) = "wishes" THEN "done" ELSE "wish"
    ELSE CASE Op(c) = "view"  -> "done"
           [] Op(c) = "clear" -> "write"
           [] Op(c) = "order" -> IF line = NoLine \/ Stock < line.quantity THEN "refused"
                                 ELSE "write"
           [] OTHER           -> "line"

\* A cart is loaded with its items; a wishlist is not.  Whatever was read before
\* the cart no longer matters, except to move-to-cart.
FindList(c, list) ==
  /\ pc[c] = list
  /\ Goto(c, IF list \in lists THEN After(c, list)
             ELSE IF list = "cart" THEN "newCart" ELSE "newWishlist")
  /\ hand' = IF list = "cart" THEN [hand EXCEPT ![c] = line] ELSE hand
  /\ crossed' = IF Op(c) = "move" THEN crossed ELSE crossed \ {c}
  /\ UNCHANGED <<tables, ask, target, ledgers>>

\* The row is unique per user: whoever comes second gets an IntegrityError,
\* which nothing catches.  The new row is read back.
CreateList(c, list) ==
  /\ pc[c] = IF list = "cart" THEN "newCart" ELSE "newWishlist"
  /\ Goto(c, IF list \in lists THEN "error" ELSE list)
  /\ lists' = lists \union {list}
  /\ UNCHANGED <<line, wished, ask, target, hand, ledgers>>
  /\ Overtakes(c)

-----------------------------------------------------------------------------
(* Reading the row                                                         *)

\* Seeded bug: add_to_wishlist does not look for the product first.
ReadWishAdds(c) ==
  /\ pc[c] = "wish"
  /\ Goto(c, CASE Op(c) = "wish"   -> "write"
               [] Op(c) = "unwish" -> IF wished = target[c] THEN "write" ELSE "refused"
               [] OTHER            -> IF wished = target[c] /\ Stock > 0 THEN "cart" ELSE "refused")
  /\ UNCHANGED <<tables, ask, target, hand, ledgers, crossed>>

\* "Already in wishlist", "Item not found", "No available variant in stock".
ReadWish(c) ==
  /\ pc[c] = "wish"
  /\ Goto(c, CASE Op(c) = "wish"   -> IF wished = None THEN "write" ELSE "refused"
               [] Op(c) = "unwish" -> IF wished = target[c] THEN "write" ELSE "refused"
               [] OTHER            -> IF wished = target[c] /\ Stock > 0 THEN "cart" ELSE "refused")
  /\ UNCHANGED <<tables, ask, target, hand, ledgers, crossed>>

\* By variant for add and move, by id for update and remove.  A row the session
\* has loaded with the cart keeps the quantity it had then.
ReadLine(c) ==
  /\ pc[c] = "line"
  /\ hand' = [hand EXCEPT ![c] = IF line.id = @.id THEN @ ELSE line]
  /\ crossed' = IF line.id = hand[c].id \/ Op(c) = "move" THEN crossed ELSE crossed \ {c}
  /\ Goto(c, IF CASE Op(c) = "remove" -> line.id = target[c]
                  [] Op(c) = "update" -> line.id = target[c] /\ Quantity(c) <= Stock
                  [] OTHER            -> TRUE
             THEN "write" ELSE "refused")
  /\ UNCHANGED <<tables, ask, target, ledgers>>

-----------------------------------------------------------------------------
(* The writes                                                              *)

Answer(c) ==
  /\ Goto(c, "done")
  /\ UNCHANGED <<lists, ask, target, hand>>
  /\ Overtakes(c)

\* A unique index refused the INSERT, or an UPDATE found its row gone
\* (StaleDataError): the transaction is rolled back and the answer is a 500.
Raise(c) ==
  /\ Goto(c, "error")
  /\ UNCHANGED <<tables, ask, target, hand, ledgers, crossed>>

\* What an add leaves in the line, NoLine when it cannot be written.
\* Seeded bug: the copy's quantity is replaced.
SummedSet(c) ==
  IF hand[c] = NoLine
    THEN IF line = NoLine THEN [id |-> c, quantity |-> Quantity(c)] ELSE NoLine
    ELSE IF line.id = hand[c].id THEN [line EXCEPT !.quantity = Quantity(c)] ELSE NoLine

Summed(c) ==
  IF hand[c] = NoLine
    THEN IF line = NoLine THEN [id |-> c, quantity |-> Quantity(c)] ELSE NoLine
    ELSE IF line.id = hand[c].id
           THEN [line EXCEPT !.quantity = hand[c].quantity + Quantity(c)] ELSE NoLine

\* No UPDATE is sent for nothing, an INSERT is.
WriteAdd(c) ==
  /\ pc[c] = "write" /\ Op(c) = "add"
  /\ \/ /\ Quantity(c) = 0 /\ hand[c] # NoLine
        /\ UNCHANGED <<line, wished, ledgers>>
        /\ Answer(c)
     \/ /\ Quantity(c) # 0 \/ hand[c] = NoLine
        /\ Summed(c) # NoLine
        /\ line' = Summed(c)
        /\ owed' = owed + Quantity(c)
        /\ blurred' = (blurred \/ c \in crossed)
        /\ UNCHANGED <<wished, moved>>
        /\ Answer(c)
     \/ /\ Quantity(c) # 0 \/ hand[c] = NoLine
        /\ Summed(c) = NoLine
        /\ Raise(c)

\* Seeded bug: the wishlist item stays.
WriteMoveKeeps(c) ==
  /\ pc[c] = "write" /\ Op(c) = "move"
  /\ \/ /\ Summed(c) # NoLine
        /\ line' = Summed(c)
        /\ owed' = owed + 1
        /\ blurred' = (blurred \/ c \in crossed)
        /\ moved' = moved \union {[item |-> target[c], by |-> c]}
        /\ UNCHANGED wished
        /\ Answer(c)
     \/ /\ Summed(c) = NoLine
        /\ Raise(c)

\* The line and the wishlist item in one transaction.  The DELETE of an item
\* that is gone only warns, except that a copy that expired when the cart was
\* created has to be loaded again first.
WriteMove(c) ==
  /\ pc[c] = "write" /\ Op(c) = "move"
  /\ \/ /\ Summed(c) # NoLine
        /\ line' = Summed(c)
        /\ wished' = IF wished = target[c] THEN None ELSE wished
        /\ owed' = owed + 1
        /\ blurred' = (blurred \/ c \in crossed)
        /\ moved' = moved \union {[item |-> target[c], by |-> c]}
        /\ Answer(c)
     \/ /\ Summed(c) = NoLine \/ wished # target[c]
        /\ Raise(c)

\* Seeded bug: only less than nothing removes the line.
RemovesBelow(c) == Op(c) = "remove" \/ (Op(c) = "update" /\ Quantity(c) < 0)

\* remove_item, and update_item with nothing left.
Removes(c) == Op(c) = "remove" \/ (Op(c) = "update" /\ Quantity(c) <= 0)

\* No UPDATE is sent when the copy already shows the quantity asked for.
WriteUpdate(c) ==
  /\ pc[c] = "write" /\ Op(c) = "update" /\ ~Removes(c)
  /\ \/ /\ Quantity(c) = hand[c].quantity
        /\ line' = line
        /\ owed' = Quantity(c)
        /\ blurred' = (blurred \/ c \in crossed)
        /\ UNCHANGED <<wished, moved>>
        /\ Answer(c)
     \/ /\ Quantity(c) # hand[c].quantity /\ line.id = target[c]
        /\ line' = [line EXCEPT !.quantity = Quantity(c)]
        /\ owed' = Quantity(c)
        /\ blurred' = FALSE
        /\ UNCHANGED <<wished, moved>>
        /\ Answer(c)
     \/ /\ Quantity(c) # hand[c].quantity /\ line.id # target[c]
        /\ Raise(c)

\* A DELETE by id of a row that is gone only warns.
WriteRemove(c) ==
  /\ pc[c] = "write" /\ Removes(c)
  /\ IF line.id = target[c]
       THEN line' = NoLine /\ owed' = 0 /\ blurred' = FALSE
       ELSE UNCHANGED <<line, owed, blurred>>
  /\ UNCHANGED <<wished, moved>>
  /\ Answer(c)

WriteClear(c) ==
  /\ pc[c] = "write" /\ Op(c) = "clear"
  /\ line' = NoLine
  /\ owed' = 0
  /\ blurred' = FALSE
  /\ UNCHANGED <<wished, moved>>
  /\ Answer(c)

\* The order takes the line it has loaded and clears the cart by its id,
\* whatever is in it by now.
WriteOrder(c) ==
  /\ pc[c] = "write" /\ Op(c) = "order"
  /\ line' = NoLine
  /\ owed' = owed - hand[c].quantity
  /\ blurred' = (blurred \/ c \in crossed)
  /\ UNCHANGED <<wished, moved>>
  /\ Answer(c)

WriteWish(c) ==
  /\ pc[c] = "write" /\ Op(c) \in {"wish", "unwish"}
  /\ \/ /\ Op(c) = "wish" /\ wished = None
        /\ wished' = c
        /\ UNCHANGED <<line, ledgers>>
        /\ Answer(c)
     \/ /\ Op(c) = "wish" /\ wished # None
        /\ Raise(c)
     \/ /\ Op(c) = "unwish"
        /\ wished' = IF wished = target[c] THEN None ELSE wished
        /\ UNCHANGED <<line, ledgers>>
        /\ Answer(c)

\* The worker or the connection dies: nothing of the transaction stays.
Fail(c) ==
  /\ pc[c] \in Reading \union Exposed
  /\ Goto(c, "failed")
  /\ UNCHANGED <<tables, ask, target, hand, ledgers, crossed>>

Next == \E c \in Calls :
  \/ Look(c) \/ Begin(c)
  \/ \E list \in {"cart", "wishlist"} : FindList(c, list) \/ CreateList(c, list)
  \/ ReadWish(c) \/ ReadLine(c)
  \/ WriteAdd(c) \/ WriteMove(c) \/ WriteUpdate(c) \/ WriteRemove(c)
  \/ WriteClear(c) \/ WriteOrder(c) \/ WriteWish(c)
  \/ Fail(c)

Spec == Init /\ [][Next]_vars
-----------------------------------------------------------------------------
(* Properties                                                              *)

\* Every variable keeps its type, and rows hang on the lists that hold them.
TypeOK ==
  /\ lists \subseteq {"cart", "wishlist"}
  /\ line \in Lines \union {NoLine}
  /\ line # NoLine => "cart" \in lists
  /\ wished \in Ids \union {None}
  /\ wished # None => "wishlist" \in lists
  /\ ask \in [Calls -> Asks]
  /\ target \in [Calls -> Ids \union {None}]
  /\ pc \in [Calls -> {"start"} \union Reading \union Exposed \union Ended]
  /\ hand \in [Calls -> Lines \union {NoLine}]
  /\ owed \in Int
  /\ blurred \in BOOLEAN
  /\ crossed \subseteq Calls
  /\ moved \subseteq [item : Ids, by : Calls]

\* The cart holds what the answered calls add up to, one after the other, from
\* the last time the line was set or deleted on, unless a call overtaken by
\* another has been answered since: no add is lost, doubled or wiped otherwise.
CartExact == ~blurred => line.quantity = owed

\* CartItemAdd.quantity has no lower bound, so a line can shrink to nothing or
\* less and stay.  Only an answered add of less than one does that: no overlap
\* of updates, removals, moves, orders and lost adds leaves such a line.
LineForCause ==
  line # NoLine /\ line.quantity < 1 =>
    \E c \in Calls : Op(c) = "add" /\ Quantity(c) < 1 /\ pc[c] = "done"

\* A customer whose requests do not overlap never meets an uncaught error of a
\* unique constraint or a vanished row.
ErrorCrossed == \A c \in Calls : pc[c] = "error" => c \in crossed

\* A wishlist item is moved to the cart at most once, unless the moves overlap.
MovedOnce ==
  \A x, y \in moved : x # y /\ x.item = y.item => {x.by, y.by} \intersect crossed # {}
=============================================================================
