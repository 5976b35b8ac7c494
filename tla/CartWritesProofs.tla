-------------------------- MODULE CartWritesProofs --------------------------
(***************************************************************************)
(* The properties of CartWrites for any number of calls, any quantities    *)
(* and any stock.                                                          *)
(***************************************************************************)
EXTENDS CartWrites, TLAPS

\* What a call that has come this far knows for certain.
Placed(c) ==
  /\ pc[c] # "start" /\ Op(c) \in {"update", "remove", "unwish", "move"} => target[c] # None
  /\ pc[c] \in {"wishlist", "newWishlist"} => Op(c) \in WishOps
  /\ pc[c] = "wish" => Op(c) \in {"wish", "unwish", "move"}
  /\ pc[c] \in {"cart", "newCart", "line"} => Op(c) \notin {"wishes", "wish", "unwish"}
  /\ pc[c] = "line" \/ (pc[c] = "write" /\ Op(c) \notin {"wish", "unwish"}) => "cart" \in lists
  /\ pc[c] = "wish" \/ (pc[c] = "write" /\ Op(c) \in {"wish", "unwish"}) => "wishlist" \in lists
  /\ pc[c] = "write" /\ Op(c) = "update" => hand[c].id = target[c]

\* What it knows as long as nobody has overtaken it.
Fresh(c) ==
  c \notin crossed =>
    /\ pc[c] = "line" => hand[c] = line
    /\ pc[c] = "write" /\ Op(c) \in {"add", "move", "update", "remove", "order"} => hand[c] = line
    /\ pc[c] = "newCart" => "cart" \notin lists
    /\ pc[c] = "newWishlist" => "wishlist" \notin lists
    /\ pc[c] = "write" /\ Op(c) = "wish" => wished = None
    /\ pc[c] \in {"cart", "newCart", "line", "write"} /\ Op(c) = "move" => wished = target[c]

\* The row was inserted: its id is not inserted again.
Settled(place, id) == id = Before \/ (id \in Calls /\ place[id] = "done")

WishedOK ==
  /\ wished # None => Settled(pc, wished)
  /\ \A c \in Calls : Op(c) \in {"unwish", "move"} /\ target[c] # None => Settled(pc, target[c])
  /\ \A x \in moved : pc[x.by] = "done" /\ x.item # wished /\ Settled(pc, x.item)

CartInv ==
  /\ TypeOK
  /\ \A c \in Calls : Placed(c) /\ Fresh(c)
  /\ WishedOK
  /\ CartExact
  /\ ErrorCrossed
  /\ MovedOnce

Write(c) ==
  \/ WriteAdd(c) \/ WriteMove(c) \/ WriteUpdate(c) \/ WriteRemove(c)
  \/ WriteClear(c) \/ WriteOrder(c) \/ WriteWish(c)

Step(c) ==
  \/ Look(c) \/ Begin(c)
  \/ \E list \in {"cart", "wishlist"} : FindList(c, list) \/ CreateList(c, list)
  \/ ReadWish(c) \/ ReadLine(c)
  \/ Write(c)
  \/ Fail(c)

\* What a step of c leaves to the others.
Frame(c) ==
  /\ ask' = ask
  /\ pc[c] \notin Ended
  /\ lists \subseteq lists'
  /\ \A x \in Calls \ {c} : pc'[x] = pc[x] /\ hand'[x] = hand[x] /\ target'[x] = target[x]
  /\ crossed \ {c} \subseteq crossed' /\ crossed' \subseteq Calls
  /\ \A x \in Calls \ {c} : x \notin crossed' => ~Overtaken(x)

-----------------------------------------------------------------------------
(* Typing                                                                  *)

LEMMA NoneApart == None \notin Ids /\ Before \in Ids /\ Calls \subseteq Ids
BY NamesAssumption DEF Ids

\* What a call asks is an operation and an amount.
LEMMA AskTyped ==
  ASSUME TypeOK, NEW c \in Calls
  PROVE  Op(c) \in Ops /\ ask[c].quantity \in Int /\ Quantity(c) \in Int
<1>1. ask[c] \in [op : Ops, quantity : Int]
  BY AsksAssumption DEF TypeOK
<1> QED
  BY <1>1 DEF Op, Quantity

\* What an add leaves is a line; it cannot be written only over a row that has
\* come or gone since the copy was taken.
LEMMA SummedTyped ==
  ASSUME TypeOK, NEW c \in Calls
  PROVE  /\ Summed(c) \in Lines \union {NoLine}
         /\ hand[c] = line =>
              Summed(c) # NoLine /\ Summed(c).quantity = line.quantity + Quantity(c)
<1>1. Quantity(c) \in Int /\ None \notin Ids /\ c \in Ids
  BY AskTyped, NoneApart
<1>2. line \in Lines \union {NoLine} /\ hand[c] \in Lines \union {NoLine}
  BY DEF TypeOK
<1>3. NoLine \notin Lines /\ NoLine.quantity = 0 /\ NoLine.id = None
  BY <1>1 DEF NoLine, Lines
<1>4. CASE hand[c] = NoLine
  <2>1. Summed(c) = IF line = NoLine THEN [id |-> c, quantity |-> Quantity(c)] ELSE NoLine
    BY <1>4 DEF Summed
  <2>2. [id |-> c, quantity |-> Quantity(c)] \in Lines
    BY <1>1 DEF Lines
  <2> QED
    BY <1>1, <1>3, <1>4, <2>1, <2>2
<1>5. CASE hand[c] # NoLine
  <2>1. Summed(c) = IF line.id = hand[c].id
                      THEN [line EXCEPT !.quantity = hand[c].quantity + Quantity(c)] ELSE NoLine
    BY <1>5 DEF Summed
  <2>2. hand[c] \in Lines /\ hand[c].id # None
    BY <1>1, <1>2, <1>5 DEF Lines
  <2>3. line.id = hand[c].id => line \in Lines
    BY <1>2, <1>3, <2>2
  <2>4. line \in Lines =>
          /\ [line EXCEPT !.quantity = hand[c].quantity + Quantity(c)] \in Lines
          /\ [line EXCEPT !.quantity = hand[c].quantity + Quantity(c)].quantity
               = hand[c].quantity + Quantity(c)
    BY <1>1, <2>2 DEF Lines
  <2> QED
    BY <1>3, <2>1, <2>2, <2>3, <2>4
<1> QED
  BY <1>4, <1>5

\* A step that changes no row misleads nobody, one that does overtakes whom it
\* could have misled.
LEMMA Undisturbed ==
  ASSUME UNCHANGED tables
  PROVE  \A x \in Calls : ~Overtaken(x)
BY DEF tables, Overtaken

LEMMA OvertakenTyped ==
  ASSUME TypeOK, NEW c \in Calls, Overtakes(c)
  PROVE  /\ crossed \subseteq crossed' /\ crossed' \subseteq Calls
         /\ \A x \in Calls \ {c} : x \notin crossed' => ~Overtaken(x)
BY DEF TypeOK, Overtakes

\* A call that answers or fails is done with its copies.
LEMMA WriteTyped ==
  ASSUME TypeOK, NEW c \in Calls, Write(c)
  PROVE  /\ pc[c] = "write"
         /\ UNCHANGED <<lists, ask, target, hand>>
         /\ \/ pc' = [pc EXCEPT ![c] = "done"] /\ Overtakes(c)
            \/ pc' = [pc EXCEPT ![c] = "error"] /\ UNCHANGED <<tables, ledgers, crossed>>
<1> USE DEF Answer, Raise, Goto, tables
<1>1. CASE WriteAdd(c)
  BY <1>1 DEF WriteAdd
<1>2. CASE WriteMove(c)
  BY <1>2 DEF WriteMove
<1>3. CASE WriteUpdate(c)
  BY <1>3 DEF WriteUpdate
<1>4. CASE WriteRemove(c)
  BY <1>4 DEF WriteRemove
<1>5. CASE WriteClear(c) \/ WriteOrder(c)
  BY <1>5 DEF WriteClear, WriteOrder
<1>6. CASE WriteWish(c)
  BY <1>6 DEF WriteWish
<1> QED
  BY <1>1, <1>2, <1>3, <1>4, <1>5, <1>6 DEF Write

\* Steps change one call, and what they change in the tables they overtake.
LEMMA Framed ==
  ASSUME CartInv, NEW c \in Calls, Step(c)
  PROVE  Frame(c)
<1>1. TypeOK
  BY DEF CartInv
<1>2. /\ pc \in [Calls -> {"start"} \union Reading \union Exposed \union Ended]
      /\ hand \in [Calls -> Lines \union {NoLine}]
      /\ target \in [Calls -> Ids \union {None}]
      /\ crossed \subseteq Calls
  BY <1>1 DEF TypeOK
<1>3. CASE Look(c)
  BY Undisturbed, <1>2, <1>3 DEF Look, Frame, tables, Ended
<1>4. CASE Begin(c)
  BY Undisturbed, <1>2, <1>4 DEF Begin, Goto, Frame, tables, Ended
<1>5. ASSUME NEW list \in {"cart", "wishlist"}, FindList(c, list)
      PROVE  Frame(c)
  <2>1. pc[c] \notin Ended /\ UNCHANGED <<lists, ask, target, line, wished>>
    BY <1>5 DEF FindList, Ended, tables
  <2>4. \A x \in Calls : ~Overtaken(x)
    BY <1>5, Undisturbed DEF FindList
  <2>2. crossed' = crossed \/ crossed' = crossed \ {c}
    BY <1>5 DEF FindList
  <2>3. \A x \in Calls \ {c} : pc'[x] = pc[x] /\ hand'[x] = hand[x]
    BY <1>2, <1>5 DEF FindList, Goto
  <2> QED
    BY <1>2, <2>1, <2>2, <2>3, <2>4 DEF Frame
<1>6. ASSUME NEW list \in {"cart", "wishlist"}, CreateList(c, list)
      PROVE  Frame(c)
  <2>1. /\ pc[c] \notin Ended /\ lists \subseteq lists' /\ UNCHANGED <<ask, target, hand>>
        /\ Overtakes(c)
    BY <1>6 DEF CreateList, Ended
  <2>2. \A x \in Calls \ {c} : pc'[x] = pc[x]
    BY <1>2, <1>6 DEF CreateList, Goto
  <2> QED
    BY <1>1, <2>1, <2>2, OvertakenTyped DEF Frame
<1>7. CASE ReadWish(c)
  BY Undisturbed, <1>2, <1>7 DEF ReadWish, Goto, Frame, tables, Ended
<1>8. CASE ReadLine(c)
  BY Undisturbed, <1>2, <1>8 DEF ReadLine, Goto, Frame, tables, Ended
<1>9. CASE Write(c)
  <2>1. pc[c] = "write" /\ UNCHANGED <<lists, ask, target, hand>>
    BY <1>1, <1>9, WriteTyped
  <2>2. pc' = [pc EXCEPT ![c] = "done"] \/ pc' = [pc EXCEPT ![c] = "error"]
    BY <1>1, <1>9, WriteTyped
  <2>3. Overtakes(c) \/ UNCHANGED <<tables, crossed>>
    BY <1>1, <1>9, WriteTyped
  <2>4. \A x \in Calls \ {c} : pc'[x] = pc[x]
    BY <1>2, <2>2
  <2>5. /\ crossed \subseteq crossed' /\ crossed' \subseteq Calls
        /\ \A x \in Calls \ {c} : x \notin crossed' => ~Overtaken(x)
    BY <1>1, <1>2, <2>3, OvertakenTyped, Undisturbed
  <2> QED
    BY <2>1, <2>4, <2>5 DEF Frame, Ended
<1>10. CASE Fail(c)
  BY Undisturbed, <1>2, <1>10 DEF Fail, Goto, Frame, tables, Ended, Reading, Exposed
<1> QED
  BY <1>3, <1>4, <1>5, <1>6, <1>7, <1>8, <1>9, <1>10 DEF Step

\* The history of overtaken writes stays a flag.
LEMMA BlurTyped ==
  ASSUME CartInv, NEW c \in Calls, Step(c)
  PROVE  blurred' \in BOOLEAN
<1>1. blurred \in BOOLEAN
  BY DEF CartInv, TypeOK
<1>2. blurred' = blurred \/ blurred' = FALSE \/ blurred' = (blurred \/ c \in crossed)
  BY DEF Step, Write, Look, Begin, FindList, CreateList, ReadWish, ReadLine, WriteAdd, WriteMove,
         WriteUpdate, WriteRemove, WriteClear, WriteOrder, WriteWish, Fail, Raise, ledgers
<1>3. (blurred \/ c \in crossed) \in BOOLEAN
  BY Zenon
<1> QED
  BY <1>1, <1>2, <1>3

\* What the step does to the rows, by what kind of step it is.
LEMMA RowsTyped ==
  ASSUME CartInv, NEW c \in Calls, Step(c)
  PROVE  /\ line' \in Lines \union {NoLine}
         /\ line' # NoLine => "cart" \in lists'
         /\ wished' \in Ids \union {None}
         /\ wished' # None => "wishlist" \in lists'
         /\ owed' \in Int
         /\ moved' \subseteq [item : Ids, by : Calls]
<1>1. TypeOK /\ Placed(c)
  BY DEF CartInv
<1>2. /\ line \in Lines \union {NoLine} /\ (line # NoLine => "cart" \in lists)
      /\ wished \in Ids \union {None} /\ (wished # None => "wishlist" \in lists)
      /\ owed \in Int /\ moved \subseteq [item : Ids, by : Calls]
      /\ hand[c] \in Lines \union {NoLine} /\ target[c] \in Ids \union {None}
  BY <1>1 DEF TypeOK
<1>3. /\ Quantity(c) \in Int /\ None \notin Ids /\ c \in Ids
      /\ Summed(c) \in Lines \union {NoLine} /\ hand[c].quantity \in Int
  BY <1>1, <1>2, AskTyped, NoneApart, SummedTyped DEF Lines, NoLine
<1>4. CASE UNCHANGED <<line, wished, owed, moved>> /\ lists \subseteq lists'
  BY <1>2, <1>4
<1>5. CASE Write(c)
  <2>1. pc[c] = "write" /\ lists' = lists
    BY <1>1, <1>5, WriteTyped
  <2>2. /\ Op(c) \notin {"wish", "unwish"} => "cart" \in lists
        /\ Op(c) = "wish" => "wishlist" \in lists
        /\ Op(c) \in {"update", "remove", "move"} => target[c] \in Ids
    BY <1>1, <1>2, <2>1 DEF Placed
  <2>3. CASE UNCHANGED <<tables, ledgers>>
    BY <1>4, <2>3 DEF tables, ledgers
  <2>4. CASE WriteAdd(c)
    <3>1. \/ /\ line' = Summed(c) /\ owed' = owed + Quantity(c)
             /\ UNCHANGED <<wished, moved>>
          \/ UNCHANGED <<line, wished, owed, moved>>
      BY <2>4 DEF WriteAdd, Raise, tables, ledgers
    <3>2. Op(c) = "add"
      BY <2>4 DEF WriteAdd
    <3> QED
      BY <1>2, <1>3, <2>1, <2>2, <2>3, <3>1, <3>2
  <2>5. CASE WriteMove(c)
    <3>1. \/ /\ line' = Summed(c) /\ owed' = owed + 1
             /\ wished' = IF wished = target[c] THEN None ELSE wished
             /\ moved' = moved \union {[item |-> target[c], by |-> c]}
          \/ UNCHANGED <<tables, ledgers>>
      BY <2>5 DEF WriteMove, Raise
    <3>2. Op(c) = "move"
      BY <2>5 DEF WriteMove
    <3>3. [item |-> target[c], by |-> c] \in [item : Ids, by : Calls]
      BY <2>2, <3>2
    <3> QED
      BY <1>2, <1>3, <2>1, <2>2, <2>3, <3>1, <3>2, <3>3
  <2>6. CASE WriteUpdate(c)
    <3>1. Op(c) = "update" /\ wished' = wished /\ moved' = moved
      BY <2>6 DEF WriteUpdate, Raise, tables, ledgers
    <3>2. \/ line' = line /\ owed' = Quantity(c)
          \/ /\ line.id = target[c] /\ line' = [line EXCEPT !.quantity = Quantity(c)]
             /\ owed' = Quantity(c)
          \/ UNCHANGED <<tables, ledgers>>
      BY <2>6 DEF WriteUpdate, Raise
    <3>3. line.id = target[c] => [line EXCEPT !.quantity = Quantity(c)] \in Lines
      BY <1>2, <1>3, <2>2, <3>1 DEF Lines, NoLine
    <3> QED
      BY <1>2, <1>3, <2>1, <2>2, <2>3, <3>1, <3>2, <3>3
  <2>7. CASE WriteRemove(c) \/ WriteClear(c)
    <3>1. /\ line' = line \/ line' = NoLine
          /\ owed' = owed \/ owed' = 0
          /\ UNCHANGED <<wished, moved>>
      BY <2>7 DEF WriteRemove, WriteClear
    <3> QED
      BY <1>2, <2>1, <3>1
  <2>9. CASE WriteOrder(c)
    BY <1>2, <1>3, <2>1, <2>9 DEF WriteOrder
  <2>10. CASE WriteWish(c)
    <3>1. /\ line' = line /\ UNCHANGED ledgers
          /\ wished' = wished \/ wished' = None \/ (wished' = c /\ Op(c) = "wish")
      BY <2>10 DEF WriteWish, Raise, tables
    <3> QED
      BY <1>2, <1>3, <2>1, <2>2, <3>1 DEF ledgers
  <2> QED
    BY <1>5, <2>4, <2>5, <2>6, <2>7, <2>9, <2>10 DEF Write
<1>6. CASE Look(c) \/ Begin(c) \/ ReadWish(c) \/ ReadLine(c) \/ Fail(c)
  <2>1. UNCHANGED <<lists, line, wished, owed, moved>>
    BY <1>6 DEF Look, Begin, ReadWish, ReadLine, Fail, tables, ledgers
  <2> QED
    BY <1>4, <2>1
<1>7. CASE \E list \in {"cart", "wishlist"} : FindList(c, list) \/ CreateList(c, list)
  <2>1. UNCHANGED <<line, wished, owed, moved>> /\ lists \subseteq lists'
    BY <1>7 DEF FindList, CreateList, tables, ledgers
  <2> QED
    BY <1>4, <2>1
<1> QED
  BY <1>5, <1>6, <1>7 DEF Step

\* Where calls are and what they have read keep their types.
LEMMA ControlTyped ==
  ASSUME CartInv, NEW c \in Calls, Step(c)
  PROVE  /\ pc' \in [Calls -> {"start"} \union Reading \union Exposed \union Ended]
         /\ hand' \in [Calls -> Lines \union {NoLine}]
         /\ target' \in [Calls -> Ids \union {None}]
         /\ lists' \subseteq {"cart", "wishlist"}
<1>1. TypeOK
  BY DEF CartInv
<1>2. /\ pc \in [Calls -> {"start"} \union Reading \union Exposed \union Ended]
      /\ hand \in [Calls -> Lines \union {NoLine}]
      /\ target \in [Calls -> Ids \union {None}]
      /\ line \in Lines \union {NoLine} /\ (line # NoLine => line.id \in Ids)
      /\ wished \in Ids \union {None}
      /\ lists \subseteq {"cart", "wishlist"}
  BY <1>1 DEF TypeOK, Lines
<1> DEFINE Places == {"start"} \union Reading \union Exposed \union Ended
<1>3. /\ {"wishlist", "newWishlist", "wish", "cart", "newCart", "line", "write",
           "done", "refused", "error", "failed"} \subseteq Places
      /\ \A list \in {"cart", "wishlist"} : After(c, list) \in Places
  BY DEF Reading, Exposed, Ended, After
<1>4. CASE Look(c)
  BY <1>2, <1>4 DEF Look, tables
<1>5. CASE Begin(c)
  BY <1>2, <1>3, <1>5 DEF Begin, Goto, tables
<1>6. ASSUME NEW list \in {"cart", "wishlist"}, FindList(c, list)
      PROVE  /\ pc' \in [Calls -> Places] /\ hand' \in [Calls -> Lines \union {NoLine}]
             /\ UNCHANGED <<target, lists>>
  <2>1. pc' \in [Calls -> Places]
    BY <1>2, <1>3, <1>6 DEF FindList, Goto
  <2>2. hand' \in [Calls -> Lines \union {NoLine}]
    BY <1>2, <1>6 DEF FindList
  <2> QED
    BY <1>6, <2>1, <2>2 DEF FindList, tables
<1>7. ASSUME NEW list \in {"cart", "wishlist"}, CreateList(c, list)
      PROVE  /\ pc' \in [Calls -> Places] /\ UNCHANGED <<target, hand>>
             /\ lists' \subseteq {"cart", "wishlist"}
  BY <1>2, <1>3, <1>7 DEF CreateList, Goto
<1>8. CASE ReadWish(c)
  BY <1>2, <1>3, <1>8 DEF ReadWish, Goto, tables
<1>9. CASE ReadLine(c)
  <2>1. pc' \in [Calls -> Places]
    BY <1>2, <1>3, <1>9 DEF ReadLine, Goto
  <2>2. hand' \in [Calls -> Lines \union {NoLine}]
    BY <1>2, <1>9 DEF ReadLine
  <2> QED
    BY <1>2, <1>9, <2>1, <2>2 DEF ReadLine, tables
<1>10. CASE Write(c)
  BY <1>1, <1>2, <1>3, <1>10, WriteTyped
<1>11. CASE Fail(c)
  BY <1>2, <1>3, <1>11 DEF Fail, Goto, tables
<1> QED
  BY <1>2, <1>4, <1>5, <1>6, <1>7, <1>8, <1>9, <1>10, <1>11 DEF Step

\* Every step preserves the types.
LEMMA Typed ==
  ASSUME CartInv, NEW c \in Calls, Step(c)
  PROVE  TypeOK'
<1>1. ask' \in [Calls -> Asks] /\ crossed' \subseteq Calls
  BY Framed DEF Frame, CartInv, TypeOK
<1> QED
  BY <1>1, RowsTyped, BlurTyped, ControlTyped DEF TypeOK

-----------------------------------------------------------------------------
(* What the calls know                                                     *)

LEMMA OthersKeep ==
  ASSUME CartInv, NEW c \in Calls, Frame(c), NEW x \in Calls \ {c}
  PROVE  Placed(x)' /\ Fresh(x)'
<1>1. /\ pc'[x] = pc[x] /\ hand'[x] = hand[x] /\ target'[x] = target[x] /\ ask' = ask
      /\ lists \subseteq lists'
      /\ x \notin crossed' => ~Overtaken(x)
      /\ x \notin crossed' => x \notin crossed
  BY DEF Frame
<1>2. Placed(x) /\ Fresh(x)
  BY DEF CartInv
<1>3. Placed(x)'
  BY <1>1, <1>2 DEF Placed, Op
<1>4. Op(x)' = Op(x)
  BY <1>1 DEF Op
<1>5. Fresh(x)'
  BY <1>1, <1>2, <1>4 DEF Fresh, Placed, Overtaken
<1> QED
  BY <1>3, <1>5

\* What c itself knows after its step, by the kind of step.
LEMMA OwnReads ==
  ASSUME CartInv, NEW c \in Calls,
         Look(c) \/ Begin(c) \/ ReadWish(c) \/ ReadLine(c) \/ Fail(c)
  PROVE  Placed(c)' /\ Fresh(c)'
<1>1. TypeOK /\ Placed(c) /\ Fresh(c)
  BY DEF CartInv
<1>2. /\ c \in DOMAIN pc /\ c \in DOMAIN hand /\ c \in DOMAIN target
      /\ wished \in Ids \union {None} /\ line \in Lines \union {NoLine}
      /\ None \notin Ids
  BY <1>1, NoneApart DEF TypeOK
<1>3. Op(c) \in Ops
  BY <1>1, AskTyped
<1>4. CASE Look(c)
  <2>1. /\ pc[c] = "start" /\ UNCHANGED <<lists, line, wished, ask, pc, hand, crossed>>
    BY <1>4 DEF Look, tables
  <2> QED
    BY <1>1, <2>1 DEF Placed, Fresh, Op
<1>5. CASE Begin(c)
  <2>1. /\ pc[c] = "start" /\ UNCHANGED <<lists, line, wished, ask, target, hand, crossed>>
        /\ Op(c) \in {"update", "remove", "unwish", "move"} => target[c] # None
        /\ pc'[c] = IF Op(c) \in WishOps THEN "wishlist"
                    ELSE IF Op(c) = "add" /\ Stock < Quantity(c) THEN "refused" ELSE "cart"
    BY <1>2, <1>5 DEF Begin, Goto, tables
  <2> QED
    BY <2>1 DEF Placed, Fresh, Op, WishOps
<1>6. CASE ReadWish(c)
  <2>1. /\ pc[c] = "wish" /\ UNCHANGED <<lists, line, wished, ask, target, hand, crossed>>
        /\ pc'[c] = CASE Op(c) = "wish"   -> IF wished = None THEN "write" ELSE "refused"
                      [] Op(c) = "unwish" -> IF wished = target[c] THEN "write" ELSE "refused"
                      [] OTHER -> IF wished = target[c] /\ Stock > 0 THEN "cart" ELSE "refused"
    BY <1>2, <1>6 DEF ReadWish, Goto, tables
  <2>2. \/ Op(c) = "wish" /\ wished = None /\ pc'[c] = "write"
        \/ Op(c) = "unwish" /\ pc'[c] = "write"
        \/ Op(c) = "move" /\ wished = target[c] /\ pc'[c] = "cart"
        \/ pc'[c] = "refused"
    BY <1>1, <2>1 DEF Placed
  <2> QED
    BY <1>1, <2>1, <2>2 DEF Placed, Fresh, Op
<1>7. CASE ReadLine(c)
  <2>1. /\ pc[c] = "line" /\ UNCHANGED <<lists, line, wished, ask, target>>
        /\ hand'[c] = IF line.id = hand[c].id THEN hand[c] ELSE line
        /\ line.id = hand[c].id \/ Op(c) = "move" => crossed' = crossed
        /\ pc'[c] = "write" \/ pc'[c] = "refused"
        /\ pc'[c] = "write" /\ Op(c) = "update" => line.id = target[c]
    BY <1>2, <1>7 DEF ReadLine, Goto, tables
  <2>2. /\ Op(c) \notin {"wish", "unwish"} /\ "cart" \in lists
        /\ Op(c) \in {"update", "remove", "unwish", "move"} => target[c] # None
    BY <1>1, <2>1 DEF Placed
  <2>3. Placed(c)'
    BY <2>1, <2>2 DEF Placed, Op
  <2>4. Fresh(c)'
    BY <1>1, <2>1, <2>2 DEF Fresh, Op
  <2> QED
    BY <2>3, <2>4
<1>8. CASE Fail(c)
  <2>1. /\ pc'[c] = "failed" /\ pc[c] # "start" /\ UNCHANGED <<ask, target>>
    BY <1>2, <1>8 DEF Fail, Goto, Reading, Exposed
  <2> QED
    BY <1>1, <2>1 DEF Placed, Fresh, Op
<1> QED
  BY <1>4, <1>5, <1>6, <1>7, <1>8

\* After looking up or creating a list, the call stands on an existing one.
LEMMA OwnLists ==
  ASSUME CartInv, NEW c \in Calls, NEW list \in {"cart", "wishlist"},
         FindList(c, list) \/ CreateList(c, list)
  PROVE  Placed(c)' /\ Fresh(c)'
<1>1. TypeOK /\ Placed(c) /\ Fresh(c) /\ Op(c) \in Ops
  BY AskTyped DEF CartInv
<1>2. c \in DOMAIN pc /\ c \in DOMAIN hand
  BY <1>1 DEF TypeOK
<1>3. CASE FindList(c, list)
  <2>1. /\ pc[c] = list /\ UNCHANGED <<lists, line, wished, ask, target>>
        /\ pc'[c] = IF list \in lists THEN After(c, list)
                    ELSE IF list = "cart" THEN "newCart" ELSE "newWishlist"
        /\ hand'[c] = IF list = "cart" THEN line ELSE hand[c]
        /\ Op(c) = "move" => crossed' = crossed
    BY <1>2, <1>3 DEF FindList, Goto, tables
  <2>2. Op(c) \in {"update", "remove", "unwish", "move"} => target[c] # None
    BY <1>1, <2>1 DEF Placed
  <2>3. CASE list = "wishlist"
    <3>1. /\ Op(c) \in WishOps
          /\ pc'[c] = IF list \in lists THEN IF Op(c) = "wishes" THEN "done" ELSE "wish"
                      ELSE "newWishlist"
      BY <1>1, <2>1, <2>3 DEF Placed, After
    <3> QED
      BY <2>1, <2>2, <2>3, <3>1 DEF Placed, Fresh, Op, WishOps
  <2>4. CASE list = "cart"
    <3>1. /\ Op(c) \notin {"wishes", "wish", "unwish"} /\ hand'[c] = line
      BY <1>1, <2>1, <2>4 DEF Placed
    <3>2. \/ "cart" \in lists /\ pc'[c] \in {"done", "refused"}
          \/ "cart" \in lists /\ pc'[c] = "write" /\ Op(c) \in {"clear", "order"}
          \/ "cart" \in lists /\ pc'[c] = "line"
          \/ "cart" \notin lists /\ pc'[c] = "newCart"
      BY <2>1, <2>4 DEF After
    <3>3. Placed(c)'
      BY <2>1, <2>2, <3>1, <3>2 DEF Placed, Op
    <3>4. Fresh(c)'
      BY <1>1, <2>1, <2>4, <3>1, <3>2 DEF Fresh, Op
    <3> QED
      BY <3>3, <3>4
  <2> QED
    BY <2>3, <2>4
<1>4. CASE CreateList(c, list)
  <2>1. /\ pc[c] = IF list = "cart" THEN "newCart" ELSE "newWishlist"
        /\ pc'[c] = IF list \in lists THEN "error" ELSE list
        /\ UNCHANGED <<line, wished, ask, target, hand>>
        /\ Overtakes(c)
    BY <1>2, <1>4 DEF CreateList, Goto
  <2>2. crossed \subseteq crossed'
    BY <1>1, <2>1, OvertakenTyped
  <2>3. Placed(c)'
    BY <1>1, <2>1 DEF Placed, Op
  <2>4. Fresh(c)'
    BY <1>1, <2>1, <2>2 DEF Fresh, Op
  <2> QED
    BY <2>3, <2>4
<1> QED
  BY <1>3, <1>4

\* Every step leaves all calls with lists that exist and copies that are fresh.
LEMMA Known ==
  ASSUME CartInv, NEW c \in Calls, Step(c)
  PROVE  \A x \in Calls : Placed(x)' /\ Fresh(x)'
<1>1. ASSUME NEW x \in Calls \ {c}
      PROVE  Placed(x)' /\ Fresh(x)'
  BY Framed, OthersKeep
<1>2. Placed(c)' /\ Fresh(c)'
  <2>1. CASE Write(c)
    <3>1. TypeOK /\ Placed(c)
      BY DEF CartInv
    <3>2. /\ pc[c] = "write" /\ UNCHANGED <<ask, target>>
          /\ pc'[c] \in {"done", "error"}
      BY <2>1, <3>1, WriteTyped DEF TypeOK
    <3> QED
      BY <3>1, <3>2 DEF Placed, Fresh, Op
  <2> QED
    BY <2>1, OwnReads, OwnLists DEF Step
<1> QED
  BY <1>1, <1>2

-----------------------------------------------------------------------------
(* The cart's quantity                                                     *)

LEMMA Exact ==
  ASSUME CartInv, NEW c \in Calls, Step(c)
  PROVE  CartExact'
<1>1. TypeOK /\ CartExact /\ Placed(c) /\ Fresh(c)
  BY DEF CartInv
<1>2. /\ line \in Lines \union {NoLine} /\ owed \in Int /\ NoLine.quantity = 0
      /\ line.quantity \in Int
  BY <1>1 DEF TypeOK, Lines, NoLine
<1>3. Quantity(c) \in Int
  BY <1>1, AskTyped
<1>4. CASE UNCHANGED <<line, owed>> /\ (blurred' \/ blurred' = blurred)
  BY <1>1, <1>4 DEF CartExact
<1>5. CASE line' = NoLine /\ owed' = 0
  BY <1>2, <1>5 DEF CartExact
<1>6. CASE line' = Summed(c) /\ owed' = owed + Quantity(c) /\ (~blurred' => ~blurred /\ c \notin crossed)
           /\ pc[c] = "write" /\ Op(c) \in {"add", "move"}
  <2>1. c \notin crossed => hand[c] = line
    BY <1>1, <1>6 DEF Fresh
  <2>2. c \notin crossed => Summed(c).quantity = line.quantity + Quantity(c)
    BY <1>1, <2>1, SummedTyped
  <2> QED
    BY <1>1, <1>6, <2>2 DEF CartExact
<1>7. CASE Write(c)
  <2>1. CASE UNCHANGED <<tables, ledgers>>
    BY <1>4, <2>1 DEF tables, ledgers
  <2>2. CASE WriteAdd(c)
    BY <1>4, <1>6, <2>1, <2>2 DEF WriteAdd, Raise, ledgers
  <2>3. CASE WriteMove(c)
    BY <1>6, <2>1, <2>3 DEF WriteMove, Raise, Quantity
  <2>4. CASE WriteUpdate(c)
    <3>1. pc[c] = "write" /\ Op(c) = "update"
      BY <2>4 DEF WriteUpdate
    <3>2. CASE line' = line /\ Quantity(c) = hand[c].quantity /\ owed' = Quantity(c)
               /\ (~blurred' => c \notin crossed)
      BY <1>1, <3>1, <3>2 DEF Fresh, CartExact
    <3>3. CASE line.id = target[c] /\ line' = [line EXCEPT !.quantity = Quantity(c)]
               /\ owed' = Quantity(c)
      <4>1. line'.quantity = Quantity(c)
        BY <1>2, <3>3 DEF Lines, NoLine
      <4> QED
        BY <3>3, <4>1 DEF CartExact
    <3> QED
      BY <2>1, <2>4, <3>2, <3>3 DEF WriteUpdate, Raise
  <2>5. CASE WriteRemove(c)
    BY <1>4, <1>5, <2>5 DEF WriteRemove
  <2>6. CASE WriteClear(c)
    BY <1>5, <2>6 DEF WriteClear
  <2>7. CASE WriteOrder(c)
    <3>1. /\ pc[c] = "write" /\ Op(c) = "order" /\ line' = NoLine
          /\ owed' = owed - hand[c].quantity
          /\ ~blurred' => ~blurred /\ c \notin crossed
      BY <2>7 DEF WriteOrder
    <3>2. c \notin crossed => hand[c] = line
      BY <1>1, <3>1 DEF Fresh
    <3> QED
      BY <1>1, <1>2, <3>1, <3>2 DEF CartExact
  <2>8. CASE WriteWish(c)
    BY <1>4, <2>1, <2>8 DEF WriteWish, Raise, ledgers
  <2> QED
    BY <1>7, <2>2, <2>3, <2>4, <2>5, <2>6, <2>7, <2>8 DEF Write
<1>8. CASE Look(c) \/ Begin(c) \/ ReadWish(c) \/ ReadLine(c) \/ Fail(c)
  BY <1>4, <1>8 DEF Look, Begin, ReadWish, ReadLine, Fail, tables, ledgers
<1>9. CASE \E list \in {"cart", "wishlist"} : FindList(c, list) \/ CreateList(c, list)
  BY <1>4, <1>9 DEF FindList, CreateList, tables, ledgers
<1> QED
  BY <1>7, <1>8, <1>9 DEF Step

-----------------------------------------------------------------------------
(* Uncaught errors                                                         *)

LEMMA Errors ==
  ASSUME CartInv, NEW c \in Calls, Step(c)
  PROVE  ErrorCrossed'
<1>1. TypeOK /\ ErrorCrossed /\ Placed(c) /\ Fresh(c) /\ Frame(c)
  BY Framed DEF CartInv
<1>2. \A x \in Calls \ {c} : pc'[x] = "error" => x \in crossed'
  BY <1>1 DEF Frame, ErrorCrossed
<1>3. c \in DOMAIN pc
  BY <1>1 DEF TypeOK
<1>4. pc'[c] = "error" => c \in crossed'
  <2>1. CASE Write(c)
    <3>1. CASE c \in crossed
      <4>1. crossed \subseteq crossed'
        BY <1>1, <2>1, WriteTyped, OvertakenTyped
      <4> QED
        BY <3>1, <4>1
    <3>2. CASE c \notin crossed
      <4>1. /\ pc[c] = "write"
            /\ Op(c) \in {"add", "move", "update"} => hand[c] = line
            /\ Op(c) = "wish" => wished = None
            /\ Op(c) = "move" => wished = target[c]
            /\ Op(c) = "update" => hand[c].id = target[c]
        BY <1>1, <2>1, <3>2, WriteTyped DEF Fresh, Placed
      <4>2. Op(c) \in {"add", "move"} => Summed(c) # NoLine
        BY <1>1, <4>1, SummedTyped
      <4>3. pc'[c] = "done"
        <5>1. CASE WriteAdd(c)
          BY <1>3, <4>2, <5>1 DEF WriteAdd, Answer, Goto
        <5>2. CASE WriteMove(c)
          BY <1>3, <4>1, <4>2, <5>2 DEF WriteMove, Answer, Goto
        <5>3. CASE WriteUpdate(c)
          BY <1>3, <4>1, <5>3 DEF WriteUpdate, Answer, Goto
        <5>4. CASE WriteRemove(c) \/ WriteClear(c) \/ WriteOrder(c)
          BY <1>3, <5>4 DEF WriteRemove, WriteClear, WriteOrder, Answer, Goto
        <5>5. CASE WriteWish(c)
          BY <1>3, <4>1, <5>5 DEF WriteWish, Answer, Goto
        <5> QED
          BY <2>1, <5>1, <5>2, <5>3, <5>4, <5>5 DEF Write
      <4> QED
        BY <4>3
    <3> QED
      BY <3>1, <3>2
  <2>2. ASSUME NEW list \in {"cart", "wishlist"}, CreateList(c, list)
        PROVE  pc'[c] = "error" => c \in crossed'
    <3>1. /\ pc[c] = IF list = "cart" THEN "newCart" ELSE "newWishlist"
          /\ pc'[c] = IF list \in lists THEN "error" ELSE list
          /\ Overtakes(c)
      BY <1>3, <2>2 DEF CreateList, Goto
    <3>2. crossed \subseteq crossed'
      BY <1>1, <3>1, OvertakenTyped
    <3> QED
      BY <1>1, <3>1, <3>2 DEF Fresh
  <2>3. ASSUME NEW list \in {"cart", "wishlist"}, FindList(c, list)
        PROVE  pc'[c] # "error"
    <3>1. pc'[c] = IF list \in lists THEN After(c, list)
                   ELSE IF list = "cart" THEN "newCart" ELSE "newWishlist"
      BY <1>3, <2>3 DEF FindList, Goto
    <3> QED
      BY <3>1 DEF After
  <2>4. Look(c) => pc'[c] # "error"
    BY DEF Look
  <2>5. Begin(c) \/ ReadWish(c) \/ ReadLine(c) \/ Fail(c) => pc'[c] # "error"
    BY <1>3 DEF Begin, ReadWish, ReadLine, Fail, Goto
  <2> QED
    BY <2>1, <2>2, <2>3, <2>4, <2>5 DEF Step
<1> QED
  BY <1>2, <1>4 DEF ErrorCrossed

-----------------------------------------------------------------------------
(* Moves                                                                   *)

LEMMA Moves ==
  ASSUME CartInv, NEW c \in Calls, Step(c)
  PROVE  WishedOK' /\ MovedOnce'
<1>1. TypeOK /\ WishedOK /\ MovedOnce /\ Placed(c) /\ Fresh(c) /\ Frame(c)
  BY Framed DEF CartInv
<1>2. /\ c \in DOMAIN pc /\ c \in DOMAIN target /\ pc[c] # "done"
      /\ \A x \in moved : x.by \in Calls /\ x.item \in Ids
      /\ None \notin Ids
  BY <1>1, NoneApart DEF TypeOK, Frame, Ended
<1>3. \A id : Settled(pc, id) => Settled(pc', id)
  BY <1>1, <1>2 DEF Settled, Frame
<1>4. \A x \in moved : pc'[x.by] = "done" /\ x.by # c
  BY <1>1, <1>2 DEF WishedOK, Frame
<1>5. \A x, y \in moved : x # y /\ x.item = y.item => {x.by, y.by} \intersect crossed' # {}
  BY <1>1, <1>2, <1>4 DEF MovedOnce, Frame
<1>6. \A x \in Calls : Op(x)' = Op(x)
  BY <1>1 DEF Op, Frame
<1>7. \A x \in Calls : Op(x) \in {"unwish", "move"} /\ target'[x] # None => Settled(pc', target'[x])
  <2>1. \A x \in Calls \ {c} : target'[x] = target[x]
    BY <1>1 DEF Frame
  <2>2. Op(c) \in {"unwish", "move"} => target'[c] = target[c] \/ target'[c] = wished
    <3>1. CASE Look(c)
      BY <1>2, <3>1 DEF Look
    <3>2. CASE ~Look(c)
      BY <3>2, <1>1, WriteTyped DEF Step, Begin, FindList, CreateList, ReadWish, ReadLine, Fail
    <3> QED
      BY <3>1, <3>2
  <2> QED
    BY <1>1, <1>3, <2>1, <2>2 DEF WishedOK
<1>8. CASE moved' = moved /\ (wished' = wished \/ wished' = None)
  <2>1. \A x \in moved : x.item # wished'
    BY <1>1, <1>2, <1>8 DEF WishedOK
  <2>2. wished' # None => Settled(pc', wished')
    BY <1>1, <1>3, <1>8 DEF WishedOK
  <2>3. WishedOK'
    BY <1>1, <1>3, <1>4, <1>6, <1>7, <1>8, <2>1, <2>2 DEF WishedOK
  <2> QED
    BY <1>5, <1>8, <2>3 DEF MovedOnce
<1>9. CASE moved' = moved /\ wished' = c /\ pc'[c] = "done"
  <2>1. \A x \in moved : x.item # c
    BY <1>1, <1>2, NamesAssumption DEF WishedOK, Settled
  <2>2. Settled(pc', c)
    BY <1>9 DEF Settled
  <2>3. WishedOK'
    BY <1>1, <1>3, <1>4, <1>6, <1>7, <1>9, <2>1, <2>2 DEF WishedOK
  <2> QED
    BY <1>5, <1>9, <2>3 DEF MovedOnce
<1>10. CASE /\ WriteMove(c) /\ moved' = moved \union {[item |-> target[c], by |-> c]}
            /\ wished' = (IF wished = target[c] THEN None ELSE wished) /\ pc'[c] = "done"
            /\ crossed \subseteq crossed'
  <2> DEFINE new == [item |-> target[c], by |-> c]
  <2>1. pc[c] = "write" /\ Op(c) = "move" /\ target[c] # None
    BY <1>1, <1>10 DEF WriteMove, Placed
  <2>2. Settled(pc, target[c]) /\ target[c] # wished'
    BY <1>1, <1>10, <2>1 DEF WishedOK
  <2>3. \A x \in moved : x.item # wished'
    BY <1>1, <1>2, <1>10 DEF WishedOK
  <2>4. \A x \in moved : x.item = target[c] => c \in crossed
    BY <1>1, <2>1 DEF WishedOK, Fresh
  <2>5. wished' # None => Settled(pc', wished')
    BY <1>1, <1>3, <1>10 DEF WishedOK
  <2>6. \A x \in moved' : pc'[x.by] = "done" /\ x.item # wished' /\ Settled(pc', x.item)
    BY <1>1, <1>3, <1>4, <1>10, <2>2, <2>3 DEF WishedOK
  <2>7. WishedOK'
    BY <1>6, <1>7, <2>5, <2>6 DEF WishedOK
  <2>8. MovedOnce'
    BY <1>5, <1>10, <2>4 DEF MovedOnce
  <2> QED
    BY <2>7, <2>8
<1>11. CASE Write(c)
  <2>1. CASE WriteMove(c)
    <3>1. \/ UNCHANGED <<tables, ledgers>>
          \/ /\ moved' = moved \union {[item |-> target[c], by |-> c]}
             /\ wished' = IF wished = target[c] THEN None ELSE wished
             /\ pc'[c] = "done" /\ Overtakes(c)
      BY <1>2, <2>1 DEF WriteMove, Raise, Answer, Goto
    <3> QED
      BY <1>1, <1>8, <1>10, <2>1, <3>1, OvertakenTyped DEF tables, ledgers
  <2>2. CASE WriteWish(c)
    <3>1. /\ moved' = moved
          /\ wished' = wished \/ wished' = None \/ (wished' = c /\ pc'[c] = "done")
      BY <1>2, <2>2 DEF WriteWish, Raise, Answer, Goto, tables, ledgers
    <3> QED
      BY <1>8, <1>9, <3>1
  <2>3. CASE WriteAdd(c) \/ WriteUpdate(c) \/ WriteRemove(c) \/ WriteClear(c) \/ WriteOrder(c)
    <3>1. moved' = moved /\ wished' = wished
      BY <2>3 DEF WriteAdd, WriteUpdate, WriteRemove, WriteClear, WriteOrder, Raise, tables, ledgers
    <3> QED
      BY <1>8, <3>1
  <2> QED
    BY <1>11, <2>1, <2>2, <2>3 DEF Write
<1>12. CASE Look(c) \/ Begin(c) \/ ReadWish(c) \/ ReadLine(c) \/ Fail(c)
  <2>1. moved' = moved /\ wished' = wished
    BY <1>12 DEF Look, Begin, ReadWish, ReadLine, Fail, tables, ledgers
  <2> QED
    BY <1>8, <2>1
<1>13. CASE \E list \in {"cart", "wishlist"} : FindList(c, list) \/ CreateList(c, list)
  <2>1. moved' = moved /\ wished' = wished
    BY <1>13 DEF FindList, CreateList, tables, ledgers
  <2> QED
    BY <1>8, <2>1
<1> QED
  BY <1>11, <1>12, <1>13 DEF Step

-----------------------------------------------------------------------------
(* The theorems                                                            *)

\* Every call knows what it has read, and that is enough for the rest.
THEOREM Invariance == Spec => []CartInv
<1>1. Init => CartInv
  <2> SUFFICES ASSUME Init PROVE CartInv
    OBVIOUS
  <2>1. TypeOK
    <3>1. /\ [id |-> Before, quantity |-> 1] \in Lines /\ NoLine.quantity = 0
          /\ Before \in Ids
      BY NoneApart DEF Lines, NoLine
    <3>2. line \in Lines \union {NoLine} /\ owed \in Int
      BY <3>1 DEF Init, Lines
    <3> QED
      BY <3>1, <3>2 DEF Init, TypeOK
  <2>2. \A c \in Calls : pc[c] = "start" /\ target[c] = None
    BY DEF Init
  <2>3. \A c \in Calls : Placed(c) /\ Fresh(c)
    BY <2>2 DEF Placed, Fresh
  <2>4. WishedOK
    BY <2>2 DEF WishedOK, Init, Settled
  <2>5. CartExact /\ ErrorCrossed /\ MovedOnce
    BY <2>2 DEF CartExact, ErrorCrossed, MovedOnce, Init
  <2> QED
    BY <2>1, <2>3, <2>4, <2>5 DEF CartInv
<1>2. CartInv /\ [Next]_vars => CartInv'
  <2> SUFFICES ASSUME CartInv, [Next]_vars PROVE CartInv'
    OBVIOUS
  <2>1. ASSUME NEW c \in Calls, Step(c)
        PROVE  CartInv'
    BY <2>1, Typed, Known, Moves, Exact, Errors DEF CartInv
  <2>2. CASE UNCHANGED vars
    BY <2>2 DEF vars, CartInv, TypeOK, Placed, Fresh, WishedOK, Settled, CartExact, ErrorCrossed,
                MovedOnce, Op
  <2> QED
    BY <2>1, <2>2 DEF Next, Step, Write
<1> QED
  BY <1>1, <1>2, PTL DEF Spec

\* Rows hang on the lists that hold them, whatever the calls.
THEOREM TypingTheorem == Spec => []TypeOK
BY Invariance, PTL DEF CartInv

\* No add, move, update, removal or order is lost, doubled or undone unless a
\* call was overtaken between its read and its write (cart_service.py:37-90).
THEOREM ExactTheorem == Spec => []CartExact
BY Invariance, PTL DEF CartInv

\* Unique constraints and vanished rows are met by overtaken calls only.
THEOREM ErrorTheorem == Spec => []ErrorCrossed
BY Invariance, PTL DEF CartInv

\* A wishlist item reaches the cart once, unless moves of it overlap
\* (routers/wishlist.py:58-84).
THEOREM MovedTheorem == Spec => []MovedOnce
BY Invariance, PTL DEF CartInv

-----------------------------------------------------------------------------
(* Lines of nothing                                                        *)

\* An add of less than one has been answered.
LessAdded == \E c \in Calls : Op(c) = "add" /\ Quantity(c) < 1 /\ pc[c] = "done"

\* Neither the line nor a copy of it has come down to nothing otherwise.
LineInv ==
  /\ LineForCause
  /\ \A c \in Calls : hand[c] # NoLine /\ hand[c].quantity < 1 => LessAdded

\* What an add or a move of at least one leaves counts at least one.
LEMMA SummedPositive ==
  ASSUME TypeOK, LineInv, ~LessAdded, NEW c \in Calls, Quantity(c) >= 1, Summed(c) # NoLine
  PROVE  Summed(c).quantity >= 1
<1>1. Quantity(c) \in Int
  BY AskTyped
<1>2. line \in Lines \union {NoLine} /\ hand[c] \in Lines \union {NoLine}
  BY DEF TypeOK
<1>3. CASE hand[c] = NoLine
  BY <1>1, <1>3 DEF Summed
<1>4. CASE hand[c] # NoLine
  <2>1. hand[c] \in Lines /\ hand[c].quantity \in Int /\ hand[c].id # None
    BY <1>2, <1>4, NoneApart DEF Lines
  <2>2. hand[c].quantity >= 1
    BY <1>4, <2>1 DEF LineInv
  <2>3. line.id = hand[c].id /\ Summed(c) = [line EXCEPT !.quantity = hand[c].quantity + Quantity(c)]
    BY <1>4 DEF Summed
  <2>4. line \in Lines
    BY <1>2, <2>1, <2>3 DEF NoLine
  <2>5. Summed(c).quantity = hand[c].quantity + Quantity(c)
    BY <2>3, <2>4 DEF Lines
  <2> QED
    BY <1>1, <2>1, <2>2, <2>5
<1> QED
  BY <1>3, <1>4

\* A write leaves the line, no line, or one that counts at least one, unless it
\* answers an add of less.
LEMMA WritePositive ==
  ASSUME TypeOK, LineInv, ~LessAdded, NEW c \in Calls, Write(c),
         ~(Op(c) = "add" /\ Quantity(c) < 1 /\ pc'[c] = "done")
  PROVE  line' = line \/ line' = NoLine \/ line'.quantity >= 1
<1>1. Quantity(c) \in Int /\ c \in DOMAIN pc /\ line \in Lines \union {NoLine}
  BY AskTyped DEF TypeOK
<1>2. CASE WriteAdd(c)
  <2>1. line' = line \/ (line' = Summed(c) /\ Summed(c) # NoLine /\ pc'[c] = "done")
    BY <1>1, <1>2 DEF WriteAdd, Answer, Raise, Goto, tables
  <2>2. Op(c) = "add"
    BY <1>2 DEF WriteAdd
  <2> QED
    BY <1>1, <2>1, <2>2, SummedPositive
<1>3. CASE WriteMove(c)
  <2>1. Quantity(c) = 1
    BY <1>3 DEF WriteMove, Quantity
  <2>2. line' = line \/ (line' = Summed(c) /\ Summed(c) # NoLine)
    BY <1>3 DEF WriteMove, Raise, tables
  <2> QED
    BY <2>1, <2>2, SummedPositive
<1>4. CASE WriteUpdate(c)
  <2>1. Op(c) = "update" /\ ~Removes(c)
    BY <1>4 DEF WriteUpdate
  <2>2. Quantity(c) >= 1
    BY <1>1, <2>1 DEF Removes
  <2>3. line' = line \/ line' = [line EXCEPT !.quantity = Quantity(c)]
    BY <1>4 DEF WriteUpdate, Raise, tables
  <2>4. [line EXCEPT !.quantity = Quantity(c)].quantity = Quantity(c)
    BY <1>1 DEF Lines, NoLine
  <2> QED
    BY <2>2, <2>3, <2>4
<1>5. CASE WriteRemove(c) \/ WriteClear(c) \/ WriteOrder(c) \/ WriteWish(c)
  BY <1>5 DEF WriteRemove, WriteClear, WriteOrder, WriteWish, Raise, ledgers, tables
<1> QED
  BY <1>2, <1>3, <1>4, <1>5 DEF Write

LEMMA LineKept ==
  ASSUME CartInv, LineInv, NEW c \in Calls, Step(c)
  PROVE  LineInv'
<1>1. TypeOK /\ Frame(c) /\ TypeOK'
  BY Framed, Typed DEF CartInv
<1>2. LessAdded => LessAdded'
  BY <1>1 DEF LessAdded, Frame, Op, Quantity, Ended
<1>3. CASE LessAdded
  BY <1>2, <1>3 DEF LineInv, LineForCause, LessAdded
<1>4. CASE ~LessAdded
  <2>1. \A x \in Calls : hand'[x] = hand[x] \/ hand'[x] = line
    <3>1. CASE Write(c)
      BY <1>1, <3>1, WriteTyped
    <3>2. CASE ~Write(c)
      BY <1>1, <3>2 DEF Step, Look, Begin, FindList, CreateList, ReadWish, ReadLine, Fail, TypeOK
    <3> QED
      BY <3>1, <3>2
  <2>2. \A x \in Calls : hand'[x] = NoLine \/ ~(hand'[x].quantity < 1)
    BY <1>4, <2>1 DEF LineInv, LineForCause, LessAdded
  <2>3. LessAdded' \/ line' = line \/ line' = NoLine \/ line'.quantity >= 1
    <3>1. CASE Write(c) /\ ~(Op(c) = "add" /\ Quantity(c) < 1 /\ pc'[c] = "done")
      BY <1>1, <1>4, <3>1, WritePositive
    <3>2. CASE Op(c) = "add" /\ Quantity(c) < 1 /\ pc'[c] = "done"
      BY <1>1, <3>2 DEF LessAdded, Frame, Op, Quantity
    <3>3. CASE ~Write(c)
      BY <3>3 DEF Step, Look, Begin, FindList, CreateList, ReadWish, ReadLine, Fail, tables
    <3> QED
      BY <3>1, <3>2, <3>3
  <2>4. LessAdded' \/ line' = NoLine \/ ~(line'.quantity < 1)
    <3>1. line' # NoLine => line'.quantity \in Int
      BY <1>1 DEF TypeOK, Lines
    <3> QED
      BY <1>4, <2>3, <3>1 DEF LineInv, LineForCause, LessAdded
  <2> QED
    BY <2>2, <2>4 DEF LineInv, LineForCause, LessAdded
<1> QED
  BY <1>3, <1>4

\* A cart line of nothing or less is always the work of an answered add of less
\* than one (schemas/cart.py:10), never of an overlap.
THEOREM LineTheorem == Spec => []LineForCause
<1>1. Init => LineInv
  <2> SUFFICES ASSUME Init PROVE LineInv
    OBVIOUS
  <2>1. line # NoLine => line.quantity = 1
    BY DEF Init
  <2> QED
    BY <2>1 DEF Init, LineInv, LineForCause
<1>2. CartInv /\ LineInv /\ [Next]_vars => LineInv'
  <2> SUFFICES ASSUME CartInv, LineInv, [Next]_vars PROVE LineInv'
    OBVIOUS
  <2>1. ASSUME NEW c \in Calls, Step(c)
        PROVE  LineInv'
    BY <2>1, LineKept
  <2>2. CASE UNCHANGED vars
    BY <2>2 DEF vars, LineInv, LineForCause, LessAdded, Op, Quantity
  <2> QED
    BY <2>1, <2>2 DEF Next, Step, Write
<1>3. LineInv => LineForCause
  BY DEF LineInv
<1> QED
  BY <1>1, <1>2, <1>3, Invariance, PTL DEF Spec
=============================================================================
