-------------------------- MODULE UniqueRowsProofs --------------------------
(***************************************************************************)
(* The properties of UniqueRows for any number of calls, rows and keys.    *)
(***************************************************************************)
EXTENDS UniqueRows, TLAPS

Loaded    == {"again", "check", "write"}
Committed == {"refresh", "record", "respond"}
OnKey(c)  == Op(c) \in {"create", "rename"}

\* The column c asks for, in the copy.
CopyColumn(c) == IF OnKey(c) THEN copy[c].key ELSE copy[c].data

\* Which row a call is about.
NamesOK(c) ==
  /\ target[c] = None => pc[c] \in {"load", "failed"}
  /\ Op(c) = "create" => target[c] = c /\ pc[c] \notin {"load", "again"}
  /\ pc[c] \in {"load"} \union Loaded => key[c] = None
  /\ Op(c) \in {"create", "delete"} => was[c] = None
  /\ pc[c] = "record" => Op(c) # "change"
  /\ pc[c] \in {"refresh", "respond"} => Op(c) # "delete"

\* The copy of a call nobody crossed is the row.
CopyOK(c) ==
  Op(c) # "create" /\ pc[c] \in Loaded =>
    /\ copy[c].key # None
    /\ Op(c) = "change" => copy[c].data = ask[c].old
    /\ c \notin crossed =>
         /\ Exists(target[c])
         /\ Op(c) # "delete" => CopyColumn(c) = Column(c, target[c])
         /\ Op(c) = "rename" => copy[c].slug = slug[target[c]]

\* A call that writes a key writes a free one, unless it was crossed or never checked.
KeyOK(c) ==
  /\ pc[c] = "write" /\ c \notin crossed
  /\ \/ Op(c) = "create"
     \/ Op(c) = "rename" /\ kind \notin Unchecked /\ ask[c].key # copy[c].key
  => KeyFree(c, ask[c].key)

\* What the commit of a call nobody crossed has done.
ResultOK(c) ==
  Op(c) # "delete" /\ pc[c] \in Committed /\ c \notin crossed =>
    /\ Exists(target[c])
    /\ Op(c) \in {"rename", "set"} => was[c] = CopyColumn(c)
    /\ Op(c) = "toggle" => became[c] = Flip(was[c]) /\ was[c] \in Data
    /\ Op(c) \in {"hide", "bulk"} => became[c] = ask[c].data /\ was[c] \in Data
    /\ pc[c] = "refresh" => became[c] = Column(c, target[c])
    /\ pc[c] # "refresh" /\ Op(c) \notin {"hide", "bulk"} => fresh[c] = became[c]

TrailOK(c) ==
  trail[c] # None =>
    /\ pc[c] \in {"respond", "done", "error", "failed"}
    /\ c \notin crossed =>
         /\ Op(c) # "delete" => trail[c].after = became[c]
         /\ \/ trail[c].before = was[c]
            \/ Op(c) \in {"hide", "bulk"} /\ was[c] = became[c]

CallOK(c) ==
  NamesOK(c) /\ CopyOK(c) /\ KeyOK(c) /\ ResultOK(c) /\ TrailOK(c)

RowsInv == TypeOK /\ \A c \in Calls : CallOK(c)

Writes(c) == Insert(c) \/ Rename(c) \/ Set(c) \/ Delete(c)

Quiet(c) ==
  \/ Look(c) \/ Load(c) \/ Forbidden(c) \/ LoadAgain(c) \/ Check(c)
  \/ Refresh(c) \/ Record(c) \/ Respond(c) \/ Fail(c)

Step(c) == Quiet(c) \/ Writes(c)

\* What a step of c leaves to another call x.
LeavesOther(x) ==
  /\ pc'[x] = pc[x] /\ target'[x] = target[x] /\ copy'[x] = copy[x]
  /\ fresh'[x] = fresh[x] /\ trail'[x] = trail[x]
  /\ was'[x] = was[x] /\ became'[x] = became[x]

\* What a step leaves to a call x it does not cross.
SparesRow(x) ==
  target[x] \in Ids /\ x \notin crossed' =>
    /\ pc[x] \in Loaded \union Committed /\ key'[target[x]] = None => ~Exists(target[x])
    /\ pc[x] \in Loaded \union {"refresh"} /\ Op(x) # "delete" =>
         IF OnKey(x) THEN key'[target[x]] = key[target[x]] /\ slug'[target[x]] = slug[target[x]]
                     ELSE data'[target[x]] = data[target[x]]

\* Key k stays free for x.
SparesKey(x) ==
  pc[x] = "write" /\ x \notin crossed' /\ OnKey(x) =>
    \A r \in Ids \ {target[x]} : key'[r] = ask[x].key => key[r] = ask[x].key

Frame(c) ==
  /\ kind' = kind /\ ask' = ask
  /\ crossed \subseteq crossed' /\ crossed' \subseteq Calls
  /\ \A x \in Calls \ {c} :
       LeavesOther(x) /\ SparesRow(x) /\ SparesKey(x) /\ (key[x] = None => key'[x] = None)

-----------------------------------------------------------------------------
(* Typing                                                                  *)

LEMMA AskTyped ==
  ASSUME TypeOK, NEW c \in Calls
  PROVE  /\ OnKey(c) => ask[c].key \in Keys /\ ask[c].key # None
         /\ ask[c].data \in Data /\ ask[c].old \in Data
         /\ ask[c].slug \in Slugs \union {None}
         /\ Op(c) = "delete" => ask[c].fit
         /\ Op(c) \in {"create", "rename", "set", "toggle", "change", "hide", "bulk", "delete"}
         /\ Op(c) = "change" => kind = "password"
         /\ Op(c) \in {"hide", "bulk"} => kind = "listed"
<1>1. ask[c] \in Asks /\ Op(c) \in Offers(kind) /\ kind \in Kinds
  BY DEF TypeOK, Formed
<1>2. Op(c) = "change" => kind = "password"
  BY <1>1 DEF Offers, Kinds
<1>3. Op(c) \in {"hide", "bulk"} => kind = "listed"
  BY <1>1 DEF Offers, Kinds
<1> QED
  BY <1>1, <1>2, <1>3, NamesAssumption DEF Asks, Op, Data, OnKey

\* Reads and checks leave rows and histories alone.
LEMMA QuietRows ==
  ASSUME NEW c \in Calls, Quiet(c)
  PROVE  UNCHANGED <<kind, ask, key, slug, data, was, became, crossed>>
BY DEF Quiet, Look, Load, Forbidden, LoadAgain, Check, Refresh, Record, Respond, Fail,
       request, rows, history

\* Writes leave requests, copies and entries alone.
LEMMA WritesRequest ==
  ASSUME NEW c \in Calls, Writes(c)
  PROVE  UNCHANGED <<kind, ask, target, copy, fresh, trail>> /\ pc[c] = "write"
BY DEF Writes, Insert, Rename, Set, Delete, request

\* A write puts a value of the column.
LEMMA ValueTyped ==
  ASSUME TypeOK, NEW c \in Calls
  PROVE  Value(c) \in Data
BY AskTyped DEF Value, Flip, Data

\* Every step preserves the types.
LEMMA Typed ==
  ASSUME RowsInv, NEW c \in Calls, Step(c)
  PROVE  TypeOK'
<1>1. TypeOK /\ NamesOK(c)
  BY DEF RowsInv, CallOK
<1>2. Calls \subseteq Ids
  BY DEF Ids
<1>3. CASE Quiet(c)
  <2>1. UNCHANGED <<kind, ask, key, slug, data, was, became, crossed>>
    BY <1>3, QuietRows
  <2>2. target' \in [Calls -> Ids \union {None}]
    BY <1>1, <1>3 DEF TypeOK, Quiet, Look, Load, Forbidden, LoadAgain, Check, Refresh, Record,
                      Respond, Fail, request
  <2>3. pc' \in [Calls -> Running \union Ended]
    <3>1. CASE Look(c) \/ Forbidden(c) \/ LoadAgain(c) \/ Check(c) \/ Fail(c)
      BY <1>1, <3>1 DEF TypeOK, Look, Forbidden, LoadAgain, Check, Fail, Goto, Running, Ended
    <3>2. CASE Load(c) \/ Refresh(c)
      BY <1>1, <3>2 DEF TypeOK, Load, Refresh, Goto, Running, Ended
    <3>3. CASE Record(c) \/ Respond(c)
      BY <1>1, <3>3 DEF TypeOK, Record, Respond, Goto, Running, Ended
    <3> QED
      BY <1>3, <3>1, <3>2, <3>3 DEF Quiet
  <2>4. copy' \in [Calls -> [key : Keys \union {None}, slug : Slugs \union {None}, data : Data]]
    <3>1. CASE Load(c)
      <4>1. target[c] \in Ids
        BY <1>1, <3>1 DEF TypeOK, Load
      <4>2. /\ key[target[c]] \in Keys \union {None} /\ data[target[c]] \in Data
            /\ slug[target[c]] \in Slugs \union {None}
        BY <1>1, <4>1 DEF TypeOK
      <4> QED
        BY <1>1, <3>1, <4>2 DEF TypeOK, Load
    <3>2. CASE ~Load(c)
      BY <1>1, <1>3, <3>2 DEF TypeOK, Quiet, Look, Forbidden, LoadAgain, Check, Refresh, Record,
                              Respond, Fail
    <3> QED
      BY <3>1, <3>2
  <2>5. fresh' \in [Calls -> Values]
    <3>1. CASE Refresh(c)
      <4>1. target[c] \in Ids
        BY <1>1, <3>1 DEF TypeOK, Refresh, NamesOK
      <4>2. Column(c, target[c]) \in Values
        BY <1>1, <4>1 DEF TypeOK, Column, Values
      <4> QED
        BY <1>1, <3>1, <4>2 DEF TypeOK, Refresh
    <3>2. CASE ~Refresh(c)
      BY <1>1, <1>3, <3>2 DEF TypeOK, Quiet, Look, Forbidden, LoadAgain, Check, Load, Record,
                              Respond, Fail
    <3> QED
      BY <3>1, <3>2
  <2>6. trail' \in [Calls -> [before : Values, after : Values] \union {None}]
    <3>1. Entry(c) \in [before : Values, after : Values]
      <4>1. /\ fresh[c] \in Values /\ copy[c].key \in Values /\ copy[c].data \in Values
            /\ ask[c].data \in Data /\ None \in Values
        BY <1>1, AskTyped DEF TypeOK, Values
      <4>2. Flip(fresh[c]) \in Values /\ Flip(ask[c].data) \in Values /\ ask[c].data \in Values
        BY <4>1 DEF Flip, Values, Data
      <4> QED
        BY <4>1, <4>2 DEF Entry
    <3>2. CASE Record(c)
      BY <1>1, <3>1, <3>2 DEF TypeOK, Record
    <3>3. CASE ~Record(c)
      BY <1>1, <1>3, <3>3 DEF TypeOK, Quiet, Look, Forbidden, LoadAgain, Check, Load, Refresh,
                              Respond, Fail
    <3> QED
      BY <3>2, <3>3
  <2> QED
    BY <1>1, <2>1, <2>2, <2>3, <2>4, <2>5, <2>6 DEF TypeOK, Formed, Op
<1>4. CASE Writes(c)
  <2>1. UNCHANGED <<kind, ask, target, copy, fresh, trail>> /\ pc[c] = "write"
    BY <1>4, WritesRequest
  <2>2. target[c] \in Ids
    BY <1>1, <2>1 DEF NamesOK, TypeOK
  <2>3. pc' \in [Calls -> Running \union Ended]
    BY <1>1, <1>4 DEF TypeOK, Writes, Insert, Rename, Set, Delete, Goto, After, Running, Ended
  <2>4. key' \in [Ids -> Keys \union {None}]
    <3>1. OnKey(c) => ask[c].key \in Keys
      BY <1>1, AskTyped
    <3>2. key \in [Ids -> Keys \union {None}]
      BY <1>1 DEF TypeOK
    <3>3. CASE Insert(c)
      BY <1>2, <3>1, <3>2, <3>3 DEF Insert, rows, OnKey
    <3>4. CASE Rename(c)
      BY <2>2, <3>1, <3>2, <3>4 DEF Rename, OnKey
    <3>5. CASE Set(c) \/ Delete(c)
      BY <3>2, <3>5 DEF Set, Delete
    <3> QED
      BY <1>4, <3>3, <3>4, <3>5 DEF Writes
  <2>5. data' \in [Ids -> Data]
    <3>1. NewData \in Data /\ Value(c) \in Data
      BY <1>1, ValueTyped DEF NewData, Data
    <3> QED
      BY <1>1, <1>2, <1>4, <2>2, <3>1 DEF TypeOK, Writes, Insert, Rename, Set, Delete, rows
  <2>6. was' \in [Calls -> Values] /\ became' \in [Calls -> Values]
    <3>1. key[target[c]] \in Values /\ data[target[c]] \in Values
      BY <1>1, <2>2 DEF TypeOK, Values
    <3>2. key'[target[c]] \in Values /\ data'[target[c]] \in Values
      BY <2>2, <2>4, <2>5 DEF Values
    <3>3. Op(c) = "create" => ask[c].key \in Values
      BY <1>1, AskTyped DEF Values, OnKey
    <3> QED
      BY <1>1, <1>4, <3>1, <3>2, <3>3 DEF TypeOK, Writes, Insert, Rename, Set, Delete
  <2>7. crossed' \subseteq Calls
    BY <1>1, <1>4 DEF TypeOK, Writes, Insert, Rename, Set, Delete, Missing
  <2>8. ASSUME kind \notin Unindexed, NEW r \in Ids, NEW s \in Ids, r # s, key'[r] = key'[s]
        PROVE  key'[r] = None
    <3>1. CASE key' = key
      BY <1>1, <2>8, <3>1 DEF TypeOK
    <3>2. CASE key' = [key EXCEPT ![target[c]] = None]
      BY <1>1, <2>2, <2>8, <3>2 DEF TypeOK
    <3>3. CASE key' = [key EXCEPT ![target[c]] = ask[c].key] /\ KeyFree(c, ask[c].key)
      BY <1>1, <2>2, <2>8, <3>3 DEF TypeOK, KeyFree
    <3>4. Rename(c) => \/ key' = key
                       \/ key' = [key EXCEPT ![target[c]] = ask[c].key] /\ KeyFree(c, ask[c].key)
      BY <1>1, <2>2 DEF TypeOK, Rename, Accepted
    <3> QED
      BY <1>1, <1>4, <3>1, <3>2, <3>3, <3>4 DEF Writes, Insert, Set, Delete, NamesOK, rows
  <2>9. slug' \in [Ids -> Slugs \union {None}]
    <3>1. ask[c].slug \in Slugs \union {None}
      BY <1>1, AskTyped
    <3> QED
      BY <1>1, <1>2, <1>4, <2>2, <3>1 DEF TypeOK, Writes, Insert, Rename, Set, Delete, rows
  <2>10. ASSUME NEW r \in Ids, NEW s \in Ids, r # s, slug'[r] = slug'[s]
         PROVE  slug'[r] = None
    <3>1. CASE slug' = slug
      BY <1>1, <2>10, <3>1 DEF TypeOK
    <3>2. CASE slug' = [slug EXCEPT ![target[c]] = None]
      BY <1>1, <2>2, <2>10, <3>2 DEF TypeOK
    <3>3. CASE slug' = [slug EXCEPT ![target[c]] = ask[c].slug] /\ SlugFree(c)
      BY <1>1, <2>2, <2>10, <3>3 DEF TypeOK, SlugFree
    <3>4. Rename(c) => \/ slug' = slug
                       \/ slug' = [slug EXCEPT ![target[c]] = ask[c].slug] /\ SlugFree(c)
      BY <1>1, <2>2 DEF TypeOK, Rename, Accepted
    <3> QED
      BY <1>1, <1>4, <3>1, <3>2, <3>3, <3>4 DEF Writes, Insert, Set, Delete, NamesOK, rows
  <2> QED
    BY <1>1, <2>1, <2>3, <2>4, <2>5, <2>6, <2>7, <2>8, <2>9, <2>10 DEF TypeOK, Formed, Op
<1> QED
  BY <1>3, <1>4 DEF Step

-----------------------------------------------------------------------------
(* What a step leaves to the others                                        *)

LEMMA InsertSpares ==
  ASSUME RowsInv, NEW c \in Calls, Insert(c), NEW x \in Calls, x # c
  PROVE  SparesRow(x) /\ SparesKey(x) /\ (key[x] = None => key'[x] = None)
<1>1. /\ TypeOK /\ NamesOK(c) /\ CopyOK(x) /\ ResultOK(x)
      /\ pc[c] = "write" /\ Op(c) = "create"
  BY DEF RowsInv, CallOK, Insert
<1>2. /\ target[c] = c /\ key[c] = None /\ c \in Ids /\ x \in Ids
      /\ ask[c].key # None /\ crossed \subseteq Calls
  BY <1>1, AskTyped DEF NamesOK, Loaded, Ids, OnKey, TypeOK
<1>3. CASE UNCHANGED rows
  BY <1>3 DEF SparesRow, SparesKey, Exists, rows
<1>4. CASE /\ key' = [key EXCEPT ![c] = ask[c].key]
           /\ slug' = [slug EXCEPT ![c] = ask[c].slug]
           /\ data' = [data EXCEPT ![c] = NewData]
           /\ crossed' = crossed \union Missing(c, c, "key", ask[c].key)
  <2>1. /\ key \in [Ids -> Keys \union {None}] /\ data \in [Ids -> Data]
        /\ slug \in [Ids -> Slugs \union {None}]
    BY <1>1 DEF TypeOK
  <2>2. ASSUME x \notin crossed', target[x] = c, pc[x] \in Loaded \union {"refresh"},
               Op(x) # "delete"
        PROVE  FALSE
    <3>1. ~("key" \in Uses(x))
      BY <1>4, <2>2 DEF Missing, Loaded
    <3>2. ~OnKey(x) /\ x \notin crossed
      BY <1>4, <2>2, <3>1 DEF Uses, OnKey
    <3>3. Exists(target[x])
      BY <1>1, <2>2, <3>2 DEF CopyOK, ResultOK, Loaded, Committed, OnKey
    <3> QED
      BY <1>2, <2>2, <3>3 DEF Exists
  <2>3. SparesRow(x)
    BY <1>2, <1>4, <2>1, <2>2 DEF SparesRow, Exists
  <2>4. SparesKey(x)
    BY <1>2, <1>4, <2>1 DEF SparesKey, Missing, OnKey
  <2>5. key[x] = None => key'[x] = None
    BY <1>2, <1>4, <2>1
  <2> QED
    BY <2>3, <2>4, <2>5
<1> QED
  BY <1>3, <1>4 DEF Insert

\* A rename spares the rows and keys of the calls it does not cross.
LEMMA RenameSpares ==
  ASSUME RowsInv, NEW c \in Calls, Rename(c), NEW x \in Calls, x # c
  PROVE  SparesRow(x) /\ SparesKey(x) /\ (key[x] = None => key'[x] = None)
<1>1. /\ TypeOK /\ NamesOK(c) /\ pc[c] = "write" /\ Op(c) = "rename" /\ data' = data
  BY DEF RowsInv, CallOK, Rename
<1>2. /\ target[c] \in Ids /\ ask[c].key # None /\ crossed \subseteq Calls
      /\ x \in Ids /\ key \in [Ids -> Keys \union {None}]
      /\ slug \in [Ids -> Slugs \union {None}]
  BY <1>1, AskTyped DEF NamesOK, OnKey, TypeOK, Ids
<1>3. CASE UNCHANGED <<key, slug>>
  BY <1>1, <1>3 DEF SparesRow, SparesKey, Exists
<1>4. CASE /\ Exists(target[c])
           /\ key' = [key EXCEPT ![target[c]] = IF Renames(c) THEN ask[c].key ELSE @]
           /\ slug' = [slug EXCEPT ![target[c]] = IF Reslugs(c) THEN ask[c].slug ELSE @]
           /\ crossed' = crossed \union Missing(c, target[c], "key", ask[c].key)
  <2>1. SparesRow(x)
    BY <1>1, <1>2, <1>4 DEF SparesRow, Exists, Missing, Uses, OnKey, Loaded
  <2>2. SparesKey(x)
    BY <1>2, <1>4 DEF SparesKey, Missing, OnKey
  <2>3. key[x] = None => key'[x] = None
    BY <1>2, <1>4 DEF Exists
  <2> QED
    BY <2>1, <2>2, <2>3
<1> QED
  BY <1>3, <1>4 DEF Rename, Accepted

\* So does an update.
LEMMA SetSpares ==
  ASSUME RowsInv, NEW c \in Calls, Set(c), NEW x \in Calls, x # c
  PROVE  SparesRow(x) /\ SparesKey(x) /\ (key[x] = None => key'[x] = None)
<1>1. TypeOK /\ NamesOK(c) /\ pc[c] = "write" /\ key' = key /\ slug' = slug
  BY DEF RowsInv, CallOK, Set
<1>2. target[c] \in Ids /\ data \in [Ids -> Data]
  BY <1>1 DEF NamesOK, TypeOK
<1>3. SparesKey(x) /\ (key[x] = None => key'[x] = None)
  BY <1>1 DEF SparesKey
<1>4. CASE data' = data
  BY <1>1, <1>3, <1>4 DEF SparesRow, Exists
<1>5. CASE /\ data' = [data EXCEPT ![target[c]] = Value(c)]
           /\ crossed' = crossed \union
                IF Value(c) = data[target[c]] THEN {} ELSE Missing(c, target[c], "data", None)
  <2>1. CASE Value(c) = data[target[c]]
    BY <1>1, <1>2, <1>3, <1>5, <2>1 DEF SparesRow, Exists
  <2>2. CASE Value(c) # data[target[c]]
    <3>1. ASSUME target[x] = target[c], x \notin crossed', pc[x] \in Loaded \union {"refresh"},
                 Op(x) # "delete"
          PROVE  OnKey(x)
      BY <1>5, <2>2, <3>1 DEF Missing, Uses, OnKey, Loaded
    <3> QED
      BY <1>1, <1>2, <1>3, <1>5, <3>1 DEF SparesRow, Exists
  <2> QED
    BY <2>1, <2>2
<1> QED
  BY <1>4, <1>5 DEF Set

\* And a deletion.
LEMMA DeleteSpares ==
  ASSUME RowsInv, NEW c \in Calls, Delete(c), NEW x \in Calls, x # c
  PROVE  SparesRow(x) /\ SparesKey(x) /\ (key[x] = None => key'[x] = None)
<1>1. TypeOK /\ NamesOK(c) /\ pc[c] = "write" /\ Op(c) = "delete" /\ data' = data
  BY DEF RowsInv, CallOK, Delete
<1>2. /\ target[c] \in Ids /\ x \in Ids /\ key \in [Ids -> Keys \union {None}]
      /\ OnKey(x) => ask[x].key # None
  BY <1>1, AskTyped DEF NamesOK, TypeOK, Ids
<1>3. CASE UNCHANGED <<key, slug>>
  BY <1>1, <1>3 DEF SparesRow, SparesKey, Exists
<1>4. CASE /\ key' = [key EXCEPT ![target[c]] = None]
           /\ slug' = [slug EXCEPT ![target[c]] = None]
           /\ crossed' = crossed \union
                {y \in Calls \ {c} : target[y] = target[c] /\ pc[y] \in Running \ {"load"}}
  <2>1. SparesRow(x)
    BY <1>1, <1>2, <1>4 DEF SparesRow, Exists, Running, Loaded, Committed, TypeOK
  <2>2. SparesKey(x)
    BY <1>2, <1>4 DEF SparesKey
  <2>3. key[x] = None => key'[x] = None
    BY <1>2, <1>4
  <2> QED
    BY <2>1, <2>2, <2>3
<1> QED
  BY <1>3, <1>4 DEF Delete

\* Steps change one call, and spare what the uncrossed others rely on.
LEMMA Framed ==
  ASSUME RowsInv, NEW c \in Calls, Step(c)
  PROVE  Frame(c)
<1>1. TypeOK
  BY DEF RowsInv
<1>2. kind' = kind /\ ask' = ask
  BY QuietRows, WritesRequest DEF Step
<1>3. crossed' \subseteq Calls
  BY Typed DEF TypeOK
<1>4. crossed \subseteq crossed'
  <2>1. CASE Quiet(c)
    BY <2>1, QuietRows
  <2>2. CASE Writes(c)
    BY <2>2 DEF Writes, Insert, Rename, Set, Delete
  <2> QED
    BY <2>1, <2>2 DEF Step
<1>5. ASSUME NEW x \in Calls, x # c
      PROVE  LeavesOther(x)
  <2>1. CASE Look(c) \/ Load(c) \/ Forbidden(c)
    BY <1>1, <1>5, <2>1 DEF TypeOK, LeavesOther, Look, Load, Forbidden, Goto, request, history
  <2>2. CASE LoadAgain(c) \/ Check(c) \/ Respond(c) \/ Fail(c)
    BY <1>1, <1>5, <2>2 DEF TypeOK, LeavesOther, LoadAgain, Check, Respond, Fail, Goto, request,
                            history
  <2>3. CASE Refresh(c) \/ Record(c)
    BY <1>1, <1>5, <2>3 DEF TypeOK, LeavesOther, Refresh, Record, Goto, request, history
  <2>4. CASE Insert(c) \/ Delete(c)
    BY <1>1, <1>5, <2>4 DEF TypeOK, LeavesOther, Insert, Delete, Goto, request
  <2>5. CASE Rename(c) \/ Set(c)
    BY <1>1, <1>5, <2>5 DEF TypeOK, LeavesOther, Rename, Set, Goto, request
  <2> QED
    BY <2>1, <2>2, <2>3, <2>4, <2>5 DEF Step, Quiet, Writes
<1>6. ASSUME NEW x \in Calls, x # c
      PROVE  SparesRow(x) /\ SparesKey(x) /\ (key[x] = None => key'[x] = None)
  <2>1. CASE Quiet(c)
    BY <2>1, QuietRows DEF SparesRow, SparesKey, Exists
  <2> QED
    BY <1>6, <2>1, InsertSpares, RenameSpares, SetSpares, DeleteSpares DEF Step, Writes
<1> QED
  BY <1>2, <1>3, <1>4, <1>5, <1>6 DEF Frame

\* What is spared is enough for a call to keep its knowledge.
LEMMA OtherKept ==
  ASSUME RowsInv, NEW c \in Calls, Frame(c), NEW x \in Calls, x # c
  PROVE  CallOK(x)'
<1>1. TypeOK /\ CallOK(x)
  BY DEF RowsInv
<1>2. /\ LeavesOther(x) /\ SparesRow(x) /\ SparesKey(x) /\ (key[x] = None => key'[x] = None)
      /\ kind' = kind /\ ask' = ask /\ crossed \subseteq crossed'
      /\ Op(x)' = Op(x) /\ OnKey(x)' = OnKey(x)
  BY DEF Frame, Op, OnKey
<1>3. NamesOK(x)'
  BY <1>1, <1>2 DEF CallOK, NamesOK, LeavesOther
<1>4. pc[x] \in Loaded \union Committed => target[x] \in Ids
  BY <1>1 DEF CallOK, NamesOK, TypeOK, Loaded, Committed
<1>5. CopyOK(x)'
  <2> SUFFICES ASSUME Op(x) # "create", pc[x] \in Loaded
               PROVE  /\ copy'[x].key # None
                      /\ Op(x) = "change" => copy'[x].data = ask'[x].old
                      /\ x \notin crossed' =>
                           /\ Exists(target[x])'
                           /\ Op(x) # "delete" => CopyColumn(x)' = Column(x, target[x])'
                           /\ Op(x) = "rename" => copy'[x].slug = slug'[target'[x]]
    BY <1>2 DEF CopyOK, LeavesOther
  <2>1. ASSUME x \notin crossed'
        PROVE  /\ Exists(target[x])'
               /\ Op(x) # "delete" => CopyColumn(x)' = Column(x, target[x])'
               /\ Op(x) = "rename" => copy'[x].slug = slug'[target'[x]]
    BY <1>1, <1>2, <1>4, <2>1
       DEF CallOK, CopyOK, SparesRow, LeavesOther, Exists, CopyColumn, Column, OnKey
  <2> QED
    BY <1>1, <1>2, <2>1 DEF CallOK, CopyOK, LeavesOther
<1>6. KeyOK(x)'
  BY <1>1, <1>2 DEF CallOK, KeyOK, SparesKey, LeavesOther, KeyFree, OnKey
<1>7. ResultOK(x)'
  BY <1>1, <1>2, <1>4 DEF CallOK, ResultOK, SparesRow, LeavesOther, Exists, CopyColumn, Column,
                          OnKey, Committed
<1>8. TrailOK(x)'
  BY <1>1, <1>2 DEF CallOK, TrailOK, LeavesOther
<1> QED
  BY <1>3, <1>5, <1>6, <1>7, <1>8 DEF CallOK

-----------------------------------------------------------------------------
(* What a step does to its own call                                        *)

LEMMA LookKept ==
  ASSUME RowsInv, NEW c \in Calls, Look(c)
  PROVE  CallOK(c)'
<1>1. TypeOK /\ CallOK(c) /\ kind' = kind /\ ask' = ask
  BY DEF RowsInv, Look
<1>2. /\ pc' = pc /\ pc[c] = "load" /\ key' = key /\ was' = was /\ trail' = trail
      /\ crossed' = crossed /\ Op(c)' = Op(c)
  BY <1>1 DEF Look, rows, history, Op
<1>3. NamesOK(c)'
  BY <1>1, <1>2 DEF CallOK, NamesOK
<1>4. CopyOK(c)' /\ KeyOK(c)' /\ ResultOK(c)' /\ TrailOK(c)'
  BY <1>1, <1>2 DEF CallOK, CopyOK, KeyOK, ResultOK, TrailOK, Loaded, Committed
<1> QED
  BY <1>3, <1>4 DEF CallOK

\* A load begins what a call knows.
LEMMA LoadKept ==
  ASSUME RowsInv, NEW c \in Calls, Load(c)
  PROVE  CallOK(c)'
<1>1. /\ TypeOK /\ CallOK(c) /\ pc[c] = "load" /\ target[c] \in Ids /\ target[c] # None
      /\ kind' = kind /\ ask' = ask /\ target' = target
      /\ key' = key /\ slug' = slug /\ data' = data
      /\ was' = was /\ became' = became /\ trail' = trail /\ crossed' = crossed
      /\ Op(c)' = Op(c) /\ OnKey(c)' = OnKey(c)
  BY DEF RowsInv, Load, TypeOK, request, rows, history, Op, OnKey
<1>2. /\ copy'[c] = [key  |-> key[target[c]], slug |-> slug[target[c]],
                      data |-> data[target[c]]]
      /\ pc'[c] \in {"refused", "again", "check", "write"}
      /\ pc'[c] # "refused" =>
           Exists(target[c]) /\ (Op(c) = "change" => data[target[c]] = ask[c].old)
      /\ pc'[c] = "write" /\ Op(c) = "rename" /\ kind \notin Unchecked =>
           ask[c].key = key[target[c]]
  BY <1>1 DEF Load, Goto, TypeOK
<1>3. Op(c) # "create"
  BY <1>1 DEF CallOK, NamesOK
<1>4. NamesOK(c)' /\ ResultOK(c)' /\ TrailOK(c)'
  BY <1>1, <1>2, <1>3
     DEF CallOK, NamesOK, ResultOK, TrailOK, Loaded, Committed
<1>5. CopyOK(c)'
  BY <1>1, <1>2 DEF CopyOK, Exists, CopyColumn, Column, OnKey, Loaded
<1>6. KeyOK(c)'
  BY <1>1, <1>2, <1>3 DEF KeyOK
<1> QED
  BY <1>4, <1>5, <1>6 DEF CallOK

\* Checks only narrow it.
LEMMA ChecksKept ==
  ASSUME RowsInv, NEW c \in Calls, Forbidden(c) \/ LoadAgain(c) \/ Check(c) \/ Fail(c)
  PROVE  CallOK(c)'
<1>1. /\ TypeOK /\ CallOK(c) /\ kind' = kind /\ ask' = ask /\ target' = target
      /\ key' = key /\ slug' = slug /\ data' = data /\ copy' = copy /\ fresh' = fresh
      /\ was' = was /\ became' = became /\ trail' = trail /\ crossed' = crossed
      /\ Op(c)' = Op(c) /\ OnKey(c)' = OnKey(c)
  BY DEF RowsInv, Forbidden, LoadAgain, Check, Fail, request, rows, history, Op, OnKey
<1>2. \/ pc'[c] \in {"refused", "failed"} /\ (pc'[c] = "failed" \/ target[c] # None)
      \/ pc[c] \in {"again", "check"} /\ pc'[c] \in {"check", "write"}
  BY <1>1 DEF Forbidden, LoadAgain, Check, Fail, Goto, TypeOK, CallOK, NamesOK
<1>3. ASSUME pc[c] = "again", pc'[c] = "write"
      PROVE  Op(c) = "rename" => ask[c].key = copy[c].key
  BY <1>1, <1>3 DEF Forbidden, LoadAgain, Check, Fail, Goto, TypeOK
<1>4. ASSUME pc[c] = "check", pc'[c] = "write"
      PROVE  \A r \in Ids : key[r] # ask[c].key
  BY <1>1, <1>4 DEF Forbidden, LoadAgain, Check, Fail, Goto, TypeOK
<1>5. trail[c] # None => pc'[c] = "failed"
  BY <1>1 DEF Forbidden, LoadAgain, Check, Fail, Goto, TypeOK, CallOK, TrailOK
<1>6. NamesOK(c)' /\ CopyOK(c)' /\ ResultOK(c)' /\ TrailOK(c)'
  BY <1>1, <1>2, <1>5
     DEF CallOK, NamesOK, CopyOK, ResultOK, TrailOK, Loaded, Committed, Exists,
         CopyColumn, Column, OnKey
<1>7. KeyOK(c)'
  <2> SUFFICES ASSUME pc'[c] = "write", c \notin crossed,
                      \/ Op(c) = "create"
                      \/ Op(c) = "rename" /\ kind \notin Unchecked /\ ask[c].key # copy[c].key
               PROVE  KeyFree(c, ask[c].key)'
    BY <1>1 DEF KeyOK
  <2>1. pc[c] \in {"again", "check"}
    BY <1>2
  <2>2. CASE pc[c] = "check"
    BY <1>1, <1>4, <2>2 DEF KeyFree
  <2>3. CASE pc[c] = "again"
    BY <1>1, <1>3, <2>3 DEF CallOK, NamesOK
  <2> QED
    BY <2>1, <2>2, <2>3
<1> QED
  BY <1>6, <1>7 DEF CallOK

\* A refresh finds what the commit left, unless the call was crossed.
LEMMA RefreshKept ==
  ASSUME RowsInv, NEW c \in Calls, Refresh(c)
  PROVE  CallOK(c)'
<1>1. /\ TypeOK /\ CallOK(c) /\ kind' = kind /\ ask' = ask /\ target' = target
      /\ key' = key /\ data' = data /\ copy' = copy
      /\ was' = was /\ became' = became /\ trail' = trail /\ crossed' = crossed
      /\ Op(c)' = Op(c) /\ OnKey(c)' = OnKey(c) /\ pc[c] = "refresh"
  BY DEF RowsInv, Refresh, request, rows, history, Op, OnKey
<1>2. /\ fresh'[c] = Column(c, target[c])
      /\ pc'[c] \in {"error", "record", "done"}
      /\ pc'[c] = "error" <=> ~Exists(target[c])
      /\ pc'[c] = "record" => Audited(c)
  BY <1>1 DEF Refresh, Goto, TypeOK
<1>3. Op(c) = "change" => ~Audited(c)
  BY <1>1, AskTyped DEF Audited
<1>4. trail[c] = None
  BY <1>1 DEF CallOK, TrailOK
<1>5. NamesOK(c)' /\ CopyOK(c)' /\ KeyOK(c)' /\ TrailOK(c)'
  BY <1>1, <1>2, <1>3, <1>4 DEF CallOK, NamesOK, CopyOK, KeyOK, TrailOK, Loaded
<1>6. ResultOK(c)'
  BY <1>1, <1>2 DEF CallOK, ResultOK, Committed, CopyColumn, Column, OnKey, Exists
<1> QED
  BY <1>5, <1>6 DEF CallOK

\* The entry is made of the copies the call has.
LEMMA RecordKept ==
  ASSUME RowsInv, NEW c \in Calls, Record(c)
  PROVE  CallOK(c)'
<1>1. /\ TypeOK /\ CallOK(c) /\ kind' = kind /\ ask' = ask /\ target' = target
      /\ key' = key /\ data' = data /\ copy' = copy /\ fresh' = fresh
      /\ was' = was /\ became' = became /\ crossed' = crossed
      /\ Op(c)' = Op(c) /\ OnKey(c)' = OnKey(c) /\ pc[c] = "record"
  BY DEF RowsInv, Record, request, rows, history, Op, OnKey
<1>2. /\ pc'[c] \in {"done", "respond"} /\ (trail'[c] = Entry(c) \/ trail'[c] = trail[c])
      /\ pc'[c] = "respond" => Op(c) # "delete"
  BY <1>1 DEF Record, Goto, TypeOK
<1>3. trail[c] = None
  BY <1>1 DEF CallOK, TrailOK
<1>4. NamesOK(c)' /\ CopyOK(c)' /\ KeyOK(c)'
  BY <1>1, <1>2 DEF CallOK, NamesOK, CopyOK, KeyOK, Loaded
<1>5. ResultOK(c)'
  BY <1>1, <1>2 DEF CallOK, ResultOK, Committed, CopyColumn, Column, OnKey, Exists
<1>6. ASSUME trail'[c] = Entry(c), c \notin crossed
      PROVE  /\ Op(c) # "delete" => Entry(c).after = became[c]
             /\ \/ Entry(c).before = was[c]
                \/ Op(c) \in {"hide", "bulk"} /\ was[c] = became[c]
  <2>1. Op(c) = "delete" => was[c] = None
    BY <1>1 DEF CallOK, NamesOK
  <2>2. Op(c) = "create" => was[c] = None
    BY <1>1 DEF CallOK, NamesOK
  <2>3. Op(c) # "delete" =>
          /\ Op(c) \in {"rename", "set"} => was[c] = CopyColumn(c)
          /\ Op(c) = "toggle" => became[c] = Flip(was[c]) /\ was[c] \in Data
          /\ Op(c) \in {"hide", "bulk"} => became[c] = ask[c].data /\ was[c] \in Data
          /\ Op(c) \notin {"hide", "bulk"} => fresh[c] = became[c]
    BY <1>1, <1>6 DEF CallOK, ResultOK, Committed
  <2>4. Op(c) \in {"create", "rename", "set", "toggle", "hide", "bulk", "delete"}
    BY <1>1, AskTyped DEF CallOK, NamesOK
  <2>5. CASE Op(c) \in {"create", "delete"}
    BY <2>1, <2>2, <2>3, <2>5 DEF Entry
  <2>6. CASE Op(c) \in {"rename", "set"}
    BY <2>3, <2>6 DEF Entry, CopyColumn, OnKey
  <2>7. CASE Op(c) = "toggle"
    BY <2>3, <2>7 DEF Entry, Flip, Data
  <2>8. CASE Op(c) \in {"hide", "bulk"}
    BY <2>3, <2>8, AskTyped, <1>1 DEF Entry, Flip, Data
  <2> QED
    BY <2>4, <2>5, <2>6, <2>7, <2>8
<1>7. TrailOK(c)'
  BY <1>1, <1>2, <1>3, <1>6 DEF TrailOK
<1> QED
  BY <1>4, <1>5, <1>7 DEF CallOK

\* The answer ends the call.
LEMMA RespondKept ==
  ASSUME RowsInv, NEW c \in Calls, Respond(c)
  PROVE  CallOK(c)'
<1>1. /\ TypeOK /\ CallOK(c) /\ kind' = kind /\ ask' = ask /\ target' = target
      /\ key' = key /\ data' = data /\ copy' = copy /\ trail' = trail
      /\ was' = was /\ became' = became /\ crossed' = crossed
      /\ Op(c)' = Op(c) /\ pc[c] = "respond"
  BY DEF RowsInv, Respond, request, rows, history, Op
<1>2. pc'[c] \in {"error", "done"} /\ (pc'[c] = "error" => ~Exists(target[c]))
  BY <1>1 DEF Respond, Goto, TypeOK
<1>3. NamesOK(c)' /\ CopyOK(c)' /\ KeyOK(c)' /\ TrailOK(c)' /\ ResultOK(c)'
  BY <1>1, <1>2 DEF CallOK, NamesOK, CopyOK, KeyOK, TrailOK, ResultOK, Loaded, Committed
<1> QED
  BY <1>3 DEF CallOK

\* An insert is what the call would do alone, unless crossed.
LEMMA InsertKept ==
  ASSUME RowsInv, NEW c \in Calls, Insert(c)
  PROVE  CallOK(c)'
<1>1. /\ TypeOK /\ CallOK(c) /\ kind' = kind /\ ask' = ask /\ target' = target
      /\ copy' = copy /\ trail' = trail /\ was' = was
      /\ Op(c)' = Op(c) /\ OnKey(c)' = OnKey(c) /\ pc[c] = "write" /\ Op(c) = "create"
  BY DEF RowsInv, Insert, request, Op, OnKey
<1>2. /\ target[c] = c /\ c \in Ids /\ trail[c] = None /\ was[c] = None
      /\ ask[c].key # None /\ c \notin Missing(c, c, "key", ask[c].key)
  BY <1>1, AskTyped DEF CallOK, NamesOK, TrailOK, Ids, OnKey, Missing
<1>3. /\ pc'[c] \in {"refresh", "error"}
      /\ pc'[c] = "refresh" => key'[c] = ask[c].key /\ became'[c] = ask[c].key
      /\ c \in crossed' <=> c \in crossed
  BY <1>1, <1>2 DEF Insert, Goto, TypeOK
<1>4. NamesOK(c)' /\ CopyOK(c)' /\ KeyOK(c)' /\ TrailOK(c)'
  BY <1>1, <1>2, <1>3, NamesAssumption DEF NamesOK, CopyOK, KeyOK, TrailOK, Loaded
<1>5. ResultOK(c)'
  BY <1>1, <1>2, <1>3 DEF ResultOK, Committed, Column, Exists
<1> QED
  BY <1>4, <1>5 DEF CallOK

\* So is a rename.
LEMMA RenameKept ==
  ASSUME RowsInv, NEW c \in Calls, Rename(c)
  PROVE  CallOK(c)'
<1>1. /\ TypeOK /\ CallOK(c) /\ kind' = kind /\ ask' = ask /\ target' = target
      /\ copy' = copy /\ trail' = trail /\ data' = data
      /\ Op(c)' = Op(c) /\ OnKey(c)' = OnKey(c) /\ OnKey(c)
      /\ pc[c] = "write" /\ Op(c) = "rename"
      /\ was'[c] = key[target[c]] /\ became'[c] = key'[target[c]]
  BY DEF RowsInv, Rename, request, Op, OnKey, TypeOK
<1>2. /\ target[c] \in Ids /\ trail[c] = None /\ ask[c].key # None
      /\ c \notin crossed => Exists(target[c]) /\ copy[c].key = key[target[c]]
  BY <1>1, AskTyped DEF CallOK, NamesOK, TrailOK, CopyOK, TypeOK, CopyColumn, Column, Loaded
<1>3. /\ pc'[c] \in {"refresh", "error"}
      /\ pc'[c] = "refresh" => \/ key' = key
                               \/ key'[target[c]] = ask[c].key
      /\ c \in crossed' <=> c \in crossed
  BY <1>1, <1>2 DEF Rename, Goto, TypeOK, Missing
<1>4. NamesOK(c)' /\ CopyOK(c)' /\ KeyOK(c)' /\ TrailOK(c)'
  BY <1>1, <1>2, <1>3, NamesAssumption DEF NamesOK, CopyOK, KeyOK, TrailOK, Loaded
<1>5. ResultOK(c)'
  BY <1>1, <1>2, <1>3 DEF ResultOK, Committed, Column, CopyColumn, Exists
<1> QED
  BY <1>4, <1>5 DEF CallOK

\* So is an update.
LEMMA SetKept ==
  ASSUME RowsInv, NEW c \in Calls, Set(c)
  PROVE  CallOK(c)'
<1>1. /\ TypeOK /\ CallOK(c) /\ kind' = kind /\ ask' = ask /\ target' = target
      /\ copy' = copy /\ trail' = trail /\ key' = key
      /\ Op(c)' = Op(c) /\ OnKey(c)' = OnKey(c) /\ ~OnKey(c)
      /\ pc[c] = "write" /\ Op(c) \in {"set", "toggle", "change", "hide", "bulk"}
      /\ was'[c] = data[target[c]] /\ became'[c] = data'[target[c]]
  BY DEF RowsInv, Set, request, Op, OnKey, TypeOK
<1>2. /\ target[c] \in Ids /\ trail[c] = None /\ data[target[c]] \in Data
      /\ c \notin crossed => Exists(target[c]) /\ copy[c].data = data[target[c]]
  BY <1>1 DEF CallOK, NamesOK, TrailOK, CopyOK, TypeOK, CopyColumn, Column, Loaded
<1>3. /\ pc'[c] \in {After(c), "error"}
      /\ pc'[c] # "error" => \/ data'[target[c]] = Value(c)
                             \/ data' = data /\ Value(c) = copy[c].data
      /\ c \in crossed' <=> c \in crossed
  BY <1>1, <1>2 DEF Set, Goto, TypeOK, Missing, After
<1>4. /\ After(c) \in {"refresh", "record", "done"}
      /\ After(c) = "record" => Op(c) # "change"
      /\ After(c) = "record" => Op(c) \in {"hide", "bulk"}
  <2>1. Op(c) = "change" => ~Audited(c)
    BY <1>1, AskTyped DEF Audited
  <2> QED
    BY <1>1, <2>1 DEF After
<1>5. NamesOK(c)' /\ CopyOK(c)' /\ KeyOK(c)' /\ TrailOK(c)'
  BY <1>1, <1>2, <1>3, <1>4, NamesAssumption DEF NamesOK, CopyOK, KeyOK, TrailOK, Loaded
<1>6. ResultOK(c)'
  <2> SUFFICES ASSUME pc'[c] \in Committed, c \notin crossed
               PROVE  /\ Exists(target[c])
                      /\ Op(c) = "set" => data[target[c]] = copy[c].data
                      /\ Op(c) = "toggle" => data'[target[c]] = Flip(data[target[c]])
                      /\ Op(c) \in {"hide", "bulk"} => data'[target[c]] = ask[c].data
    BY <1>1, <1>2, <1>3, <1>4 DEF ResultOK, Committed, Column, CopyColumn, Exists
  <2>1. data'[target[c]] = Value(c)
    BY <1>2, <1>3 DEF Committed
  <2> QED
    BY <1>1, <1>2, <2>1 DEF Value
<1> QED
  BY <1>5, <1>6 DEF CallOK

\* And a deletion.
LEMMA DeleteKept ==
  ASSUME RowsInv, NEW c \in Calls, Delete(c)
  PROVE  CallOK(c)'
<1>1. /\ TypeOK /\ CallOK(c) /\ kind' = kind /\ ask' = ask /\ target' = target
      /\ copy' = copy /\ trail' = trail /\ was' = was
      /\ Op(c)' = Op(c) /\ OnKey(c)' = OnKey(c) /\ pc[c] = "write" /\ Op(c) = "delete"
  BY DEF RowsInv, Delete, request, Op, OnKey
<1>2. target[c] \in Ids /\ trail[c] = None
  BY <1>1 DEF CallOK, NamesOK, TrailOK, TypeOK
<1>3. /\ pc'[c] \in {"record", "done", "error"}
      /\ pc'[c] = "error" => kind = "variant" /\ target[c] \in Carted
  BY <1>1 DEF Delete, Goto, TypeOK, After
<1>4. NamesOK(c)' /\ CopyOK(c)' /\ KeyOK(c)' /\ TrailOK(c)' /\ ResultOK(c)'
  BY <1>1, <1>2, <1>3
     DEF CallOK, NamesOK, CopyOK, KeyOK, TrailOK, ResultOK, Loaded
<1> QED
  BY <1>4 DEF CallOK

-----------------------------------------------------------------------------
(* What an uncrossed commit does                                           *)

LEMMA AloneStep ==
  ASSUME RowsInv, NEW c \in Calls, Step(c), Commits(c), c \notin crossed
  PROVE  Permitted(c) /\ Effect(c)
<1>1. /\ TypeOK /\ CallOK(c) /\ pc[c] = "write" /\ pc'[c] \in {"refresh", "record", "done"}
      /\ kind' = kind
  BY Framed DEF RowsInv, Commits, Frame
<1>2. Writes(c)
  <2>1. ~(Look(c) \/ Load(c) \/ Forbidden(c) \/ LoadAgain(c) \/ Check(c)
          \/ Refresh(c) \/ Record(c) \/ Respond(c))
    BY <1>1 DEF Look, Load, Forbidden, LoadAgain, Check, Refresh, Record, Respond
  <2>2. ~Fail(c)
    BY <1>1 DEF Fail, Goto, TypeOK
  <2> QED
    BY <2>1, <2>2 DEF Step, Quiet
<1>3. /\ target[c] \in Ids /\ key \in [Ids -> Keys \union {None}] /\ data \in [Ids -> Data]
      /\ slug \in [Ids -> Slugs \union {None}]
      /\ Op(c) # "create" => Exists(target[c])
  BY <1>1 DEF CallOK, NamesOK, CopyOK, TypeOK, Loaded
<1>4. CASE Insert(c)
  BY <1>1, <1>4 DEF Insert, Goto, TypeOK, Permitted, Effect
<1>5. CASE Rename(c)
  <2>1. /\ copy[c].key = key[target[c]] /\ copy[c].slug = slug[target[c]]
        /\ Op(c) = "rename" /\ data' = data
    BY <1>1, <1>5 DEF Rename, CallOK, CopyOK, Loaded, CopyColumn, Column, OnKey
  <2>2. /\ key' = [key EXCEPT ![target[c]] = ask[c].key]
        /\ slug' = [slug EXCEPT ![target[c]] = ask[c].slug]
    BY <1>1, <1>3, <1>5, <2>1 DEF Rename, Renames, Reslugs, Goto, TypeOK
  <2>3. ask[c].fit /\ (Renames(c) => KeyFree(c, ask[c].key)) /\ (Reslugs(c) => SlugFree(c))
    BY <1>1, <1>5 DEF Rename, Accepted, Goto, TypeOK
  <2>4. ~Renames(c) => KeyFree(c, ask[c].key)
    BY <1>1, <1>3, <2>1 DEF TypeOK, KeyFree, Exists, Renames
  <2>5. ~Reslugs(c) => SlugFree(c)
    BY <1>1, <1>3, <2>1 DEF TypeOK, SlugFree, Reslugs
  <2> QED
    BY <1>3, <2>1, <2>2, <2>3, <2>4, <2>5 DEF Permitted, Effect
<1>6. CASE Set(c)
  <2>1. /\ copy[c].data = data[target[c]] /\ UNCHANGED <<key, slug>>
        /\ Op(c) \in {"set", "toggle", "change", "hide", "bulk"}
        /\ Op(c) = "change" => data[target[c]] = ask[c].old
    BY <1>1, <1>6 DEF Set, CallOK, CopyOK, Loaded, CopyColumn, Column, OnKey
  <2>2. data' = [data EXCEPT ![target[c]] = Value(c)] /\ ask[c].fit
    BY <1>1, <1>3, <1>6, <2>1 DEF Set, Goto, TypeOK
  <2> QED
    BY <1>3, <2>1, <2>2 DEF Permitted, Effect, Value
<1>7. CASE Delete(c)
  BY <1>1, <1>3, <1>7, AskTyped DEF Delete, Goto, TypeOK, Permitted, Effect
<1> QED
  BY <1>2, <1>4, <1>5, <1>6, <1>7 DEF Writes

-----------------------------------------------------------------------------
(* The theorems                                                            *)

\* Every call knows its row and its key unless it was crossed.
THEOREM Invariance == Spec => []RowsInv
<1>1. Init => RowsInv
  <2> SUFFICES ASSUME Init PROVE RowsInv
    OBVIOUS
  <2>1. TypeOK
    <3>1. /\ target \in [Calls -> Ids \union {None}]
          /\ pc \in [Calls -> Running \union Ended]
      BY DEF Init, Ids, FirstStep, Running
    <3>2. copy \in [Calls -> [key : Keys \union {None}, slug : Slugs \union {None}, data : Data]]
      BY DEF Init, Data
    <3>3. kind \notin Unindexed =>
            \A r, s \in Ids : r # s /\ key[r] = key[s] => key[r] = None
      BY DEF Init, Ids
    <3>4. \A r, s \in Ids : r # s /\ slug[r] = slug[s] => slug[r] = None
      BY DEF Init, Ids
    <3> QED
      BY <3>1, <3>2, <3>3, <3>4 DEF Init, TypeOK, Values
  <2>2. ASSUME NEW c \in Calls
        PROVE  CallOK(c)
    <3>1. /\ pc[c] = FirstStep(c) /\ target[c] = IF Op(c) = "create" THEN c ELSE None
          /\ key[c] = None /\ was[c] = None /\ trail[c] = None /\ c \in Ids /\ crossed = {}
      BY DEF Init, Ids
    <3>2. c # None
      BY <3>1, NamesAssumption
    <3>3. NamesOK(c) /\ CopyOK(c) /\ ResultOK(c) /\ TrailOK(c)
      BY <3>1, <3>2 DEF NamesOK, CopyOK, ResultOK, TrailOK, FirstStep, Loaded, Committed
    <3>4. KeyOK(c)
      BY <3>1 DEF KeyOK, KeyFree, FirstStep
    <3> QED
      BY <3>3, <3>4 DEF CallOK
  <2> QED
    BY <2>1, <2>2 DEF RowsInv
<1>2. RowsInv /\ [Next]_vars => RowsInv'
  <2> SUFFICES ASSUME RowsInv, [Next]_vars PROVE RowsInv'
    OBVIOUS
  <2>1. ASSUME NEW c \in Calls, Step(c)
        PROVE  RowsInv'
    <3>1. TypeOK'
      BY <2>1, Typed
    <3>2. CallOK(c)'
      BY <2>1, LookKept, LoadKept, ChecksKept, RefreshKept, RecordKept, RespondKept,
         InsertKept, RenameKept, SetKept, DeleteKept DEF Step, Quiet, Writes
    <3>3. ASSUME NEW x \in Calls, x # c
          PROVE  CallOK(x)'
      BY <2>1, <3>3, Framed, OtherKept
    <3> QED
      BY <3>1, <3>2, <3>3 DEF RowsInv
  <2>2. CASE UNCHANGED vars
    <3>1. TypeOK'
      BY <2>2 DEF vars, RowsInv, TypeOK, Formed, Op
    <3>2. ASSUME NEW c \in Calls
          PROVE  CallOK(c)'
      BY <2>2, <3>2 DEF vars, RowsInv, CallOK, NamesOK, CopyOK, KeyOK, ResultOK, TrailOK,
                        Exists, CopyColumn, Column, OnKey, KeyFree, Op
    <3> QED
      BY <3>1, <3>2 DEF RowsInv
  <2> QED
    BY <2>1, <2>2 DEF Next, Step, Quiet, Writes
<1> QED
  BY <1>1, <1>2, PTL DEF Spec

\* The unique columns stay unique, whatever the calls (models/user.py, review.py,
\* category.py, tag.py, coupon.py, product.py).
THEOREM TypingTheorem == Spec => []TypeOK
<1>1. RowsInv => TypeOK
  BY DEF RowsInv
<1> QED
  BY <1>1, Invariance, PTL

\* An uncrossed call fails for a cause of its own, or not at all.
LEMMA ErrorStep ==
  ASSUME RowsInv, NEW c \in Calls, Step(c), Errs(c), c \notin crossed
  PROVE  LoneCause(c)
<1>1. /\ TypeOK /\ CallOK(c) /\ pc[c] # "error" /\ pc'[c] = "error" /\ c \in DOMAIN pc
  BY DEF RowsInv, Errs, TypeOK
<1>2. CASE Refresh(c) \/ Respond(c)
  <2>1. ~Exists(target[c]) /\ pc[c] \in {"refresh", "respond"}
    BY <1>1, <1>2 DEF Refresh, Respond, Goto
  <2> QED
    BY <1>1, <2>1 DEF CallOK, NamesOK, ResultOK, Committed
<1>3. CASE Quiet(c) /\ ~Refresh(c) /\ ~Respond(c)
  BY <1>1, <1>3 DEF Quiet, Look, Load, Forbidden, LoadAgain, Check, Record, Fail, Goto
<1>4. CASE Insert(c)
  <2>1. /\ pc[c] = "write" /\ Op(c) = "create"
        /\ ~(ask[c].fit /\ KeyFree(c, ask[c].key) /\ SlugFree(c))
    BY <1>1, <1>4 DEF Insert, Goto
  <2>2. KeyFree(c, ask[c].key)
    BY <1>1, <2>1 DEF CallOK, KeyOK
  <2> QED
    BY <2>1, <2>2 DEF LoneCause
<1>5. CASE Rename(c)
  <2>1. pc[c] = "write" /\ Op(c) = "rename" /\ ~Accepted(c)
    BY <1>1, <1>5 DEF Rename, Goto
  <2>2. Exists(target[c])
    BY <1>1, <2>1 DEF CallOK, CopyOK, Loaded
  <2>3. Renames(c) /\ kind \notin Unchecked => KeyFree(c, ask[c].key)
    BY <1>1, <2>1 DEF CallOK, KeyOK, Renames
  <2> QED
    BY <2>1, <2>2, <2>3 DEF Accepted, LoneCause
<1>6. CASE Set(c)
  <2>1. /\ pc[c] = "write" /\ Op(c) \in {"set", "toggle", "change", "hide", "bulk"}
        /\ ~ask[c].fit \/ ~Exists(target[c])
    BY <1>1, <1>6 DEF Set, Goto, After
  <2>2. Exists(target[c])
    BY <1>1, <2>1 DEF CallOK, CopyOK, Loaded
  <2> QED
    BY <2>1, <2>2 DEF LoneCause
<1>7. CASE Delete(c)
  BY <1>1, <1>7 DEF Delete, Goto, After, LoneCause
<1> QED
  BY <1>2, <1>3, <1>4, <1>5, <1>6, <1>7 DEF Step, Writes

\* Whatever the calls, a 500 has a cause its own request and the table show, or another
\* call has come between two of its steps (dependencies.py:13-18 rolls it back).
THEOREM ErrorTheorem == Spec => ErrorForCause
<1>1. RowsInv /\ [Next]_vars => [ErrsForCause]_vars
  <2> SUFFICES ASSUME RowsInv, Next, NEW c \in Calls, Errs(c), c \notin crossed
               PROVE  LoneCause(c)
    BY DEF ErrsForCause
  <2>1. PICK x \in Calls : Step(x)
    BY DEF Next, Step, Quiet, Writes
  <2>2. CASE x = c
    BY <2>1, <2>2, ErrorStep
  <2>3. CASE x # c
    <3>1. pc'[c] = pc[c]
      BY <2>1, <2>3, Framed DEF Frame, LeavesOther
    <3> QED
      BY <3>1 DEF Errs
  <2> QED
    BY <2>2, <2>3
<1> QED
  BY <1>1, Invariance, PTL DEF Spec, ErrorForCause

\* An audit entry is exact unless its call was crossed (services/audit_service.py).
THEOREM EntryTheorem == Spec => []EntryExact
<1>1. RowsInv => EntryExact
  BY DEF RowsInv, CallOK, TrailOK, EntryExact
<1> QED
  BY <1>1, Invariance, PTL

\* A commit that nobody crossed is atomic with what its handler has read and checked.
THEOREM AloneTheorem == Spec => AtOnce
<1>1. RowsInv /\ [Next]_vars => [CommitsAlone]_vars
  <2> SUFFICES ASSUME RowsInv, Next, NEW c \in Calls, Commits(c), c \notin crossed
               PROVE  Permitted(c) /\ Effect(c)
    BY DEF CommitsAlone
  <2>1. PICK x \in Calls : Step(x)
    BY DEF Next, Step, Quiet, Writes
  <2>2. CASE x = c
    BY <2>1, <2>2, AloneStep
  <2>3. CASE x # c
    <3>1. pc'[c] = pc[c]
      BY <2>1, <2>3, Framed DEF Frame, LeavesOther
    <3> QED
      BY <3>1 DEF Commits
  <2> QED
    BY <2>2, <2>3
<1> QED
  BY <1>1, Invariance, PTL DEF Spec, AtOnce

-----------------------------------------------------------------------------
(* Errors                                                                  *)

\* A call that another one names has inserted its row.
Named(x) == target[x] \in Calls \ {x} => pc[target[x]] \notin {"load"} \union Loaded

\* Nothing is noted before the commit.
Unnoted(x) == pc[x] \in {"load"} \union Loaded => became[x] = None /\ was[x] = None

Harmless(x) == pc[x] = "error" => ~Exists(target[x]) \/ became[x] = was[x]

ErrorInv == \A x \in Calls : Named(x) /\ Unnoted(x) /\ Harmless(x)

\* A row that comes is the row of the call that inserts it.
LEMMA NewRow ==
  ASSUME TypeOK, NEW c \in Calls, Step(c), NEW r \in Ids, ~Exists(r), Exists(r)'
  PROVE  r = c /\ Insert(c)
<1>1. key \in [Ids -> Keys \union {None}]
  BY DEF TypeOK
<1>2. key'[r] # key[r]
  BY DEF Exists
<1>3. CASE Quiet(c)
  BY <1>2, <1>3, QuietRows
<1>4. CASE Insert(c)
  BY <1>1, <1>2, <1>4 DEF Insert, rows
<1>5. CASE Rename(c)
  BY <1>1, <1>2, <1>5 DEF Rename, Accepted, Exists
<1>6. CASE Set(c)
  BY <1>2, <1>6 DEF Set
<1>7. CASE Delete(c)
  BY <1>1, <1>2, <1>7 DEF Delete, Exists
<1> QED
  BY <1>3, <1>4, <1>5, <1>6, <1>7 DEF Step, Writes

\* A call does not go back behind its commit.
LEMMA Onward ==
  ASSUME TypeOK, NEW c \in Calls, Step(c), pc'[c] \in {"load"} \union Loaded
  PROVE  pc[c] \in {"load"} \union Loaded
<1>1. c \in DOMAIN pc
  BY DEF TypeOK
<1>2. CASE Look(c) \/ Load(c) \/ Forbidden(c) \/ LoadAgain(c) \/ Check(c)
  BY <1>2 DEF Look, Load, Forbidden, LoadAgain, Check, Loaded
<1>3. CASE Refresh(c) \/ Record(c) \/ Respond(c) \/ Fail(c)
  BY <1>1, <1>3 DEF Refresh, Record, Respond, Fail, Goto, Loaded
<1>4. CASE Writes(c)
  BY <1>4, WritesRequest DEF Loaded
<1> QED
  BY <1>2, <1>3, <1>4 DEF Step, Quiet

\* What the other calls do keeps a call's errors harmless: a row that is gone
\* stays away.
LEMMA OthersHarmless ==
  ASSUME RowsInv, ErrorInv, NEW c \in Calls, Step(c), NEW x \in Calls \ {c}
  PROVE  Named(x)' /\ Unnoted(x)' /\ Harmless(x)'
<1>1. TypeOK /\ LeavesOther(x) /\ \A y \in Calls \ {c} : pc'[y] = pc[y]
  BY Framed DEF RowsInv, Frame, LeavesOther
<1>2. Named(x) /\ Unnoted(x) /\ Harmless(x)
  BY DEF ErrorInv
<1>3. Named(x)'
  BY <1>1, <1>2, Onward DEF Named, LeavesOther
<1>4. Unnoted(x)'
  BY <1>1, <1>2 DEF Unnoted, LeavesOther
<1>5. Harmless(x)'
  <2> SUFFICES ASSUME pc[x] = "error", ~Exists(target[x]), key'[target[x]] # None
               PROVE  FALSE
    BY <1>1, <1>2 DEF Harmless, LeavesOther, Exists
  <2>1. target[x] \in Ids
    BY <1>1 DEF RowsInv, CallOK, NamesOK, TypeOK
  <2>2. target[x] = c /\ Insert(c)
    BY <1>1, <2>1, NewRow DEF Exists
  <2>3. pc[c] = "write"
    BY <2>2 DEF Insert
  <2> QED
    BY <1>2, <2>2, <2>3 DEF Named, Loaded
<1> QED
  BY <1>3, <1>4, <1>5

\* A call's own error either wrote nothing or found its row gone.
LEMMA OwnHarmless ==
  ASSUME RowsInv, ErrorInv, NEW c \in Calls, Step(c)
  PROVE  Named(c)' /\ Unnoted(c)' /\ Harmless(c)'
<1>1. TypeOK /\ NamesOK(c) /\ Named(c) /\ Unnoted(c)
  BY DEF RowsInv, CallOK, ErrorInv
<1>2. /\ c \in DOMAIN pc /\ c \in DOMAIN was /\ c \in DOMAIN became /\ c \in DOMAIN target
      /\ \A y \in Calls \ {c} : pc'[y] = pc[y]
  BY <1>1, Framed DEF TypeOK, Frame, LeavesOther
<1>3. Named(c)'
  <2>1. CASE Look(c)
    <3>1. PICK r \in Ids : Exists(r) /\ target' = [target EXCEPT ![c] = r]
      BY <2>1 DEF Look
    <3>2. r \in Calls \ {c} => pc[r] \notin {"load"} \union Loaded
      BY <3>1 DEF RowsInv, CallOK, NamesOK, Exists
    <3> QED
      BY <1>2, <3>1, <3>2 DEF Named
  <2>2. CASE ~Look(c)
    <3>1. target' = target
      BY <2>2, WritesRequest DEF Step, Quiet, Load, Forbidden, LoadAgain, Check, Refresh, Record,
                                 Respond, Fail, request
    <3> QED
      BY <1>1, <1>2, <3>1 DEF Named
  <2> QED
    BY <2>1, <2>2
<1>4. CASE Quiet(c)
  <2>1. UNCHANGED <<key, was, became>>
    BY <1>4, QuietRows
  <2>2. Unnoted(c)'
    BY <1>1, <1>4, <2>1, Onward DEF Unnoted, Step
  <2>3. pc'[c] = "error" => ~Exists(target[c]) /\ target' = target
    <3>1. CASE Refresh(c) \/ Respond(c)
      BY <1>2, <3>1 DEF Refresh, Respond, Goto, request
    <3>2. CASE ~Refresh(c) /\ ~Respond(c)
      <4>1. pc'[c] # "error"
        BY <1>2, <1>4, <3>2 DEF Quiet, Look, Load, Forbidden, LoadAgain, Check, Record, Fail, Goto
      <4> QED
        BY <4>1
    <3> QED
      BY <3>1, <3>2
  <2> QED
    BY <1>3, <2>1, <2>2, <2>3 DEF Harmless, Exists
<1>5. CASE Writes(c)
  <2>1. pc[c] = "write" /\ target' = target
    BY <1>5, WritesRequest
  <2>2. became[c] = None /\ was[c] = None
    BY <1>1, <2>1 DEF Unnoted, Loaded
  <2>3. Unnoted(c)'
    <3>1. pc'[c] \in {"refresh", "record", "done", "error"}
      BY <1>2, <1>5 DEF Writes, Insert, Rename, Set, Delete, Goto, After
    <3> QED
      BY <3>1 DEF Unnoted, Loaded
  <2>4. pc'[c] = "error" => became'[c] = was'[c]
    <3>1. CASE Insert(c)
      BY <1>2, <2>2, <3>1 DEF Insert, Goto
    <3>2. CASE Rename(c)
      BY <1>2, <3>2 DEF Rename, Goto
    <3>3. CASE Set(c)
      BY <1>2, <3>3 DEF Set, Goto, After
    <3>4. CASE Delete(c)
      BY <2>2, <3>4 DEF Delete
    <3> QED
      BY <1>5, <3>1, <3>2, <3>3, <3>4 DEF Writes
  <2> QED
    BY <1>3, <2>3, <2>4 DEF Harmless
<1> QED
  BY <1>4, <1>5 DEF Step

\* A 500 leaves nothing of its call's change behind, however the calls interleave
\* (dependencies.py:13-18, services/audit_service.py:102-157).
THEOREM NothingTheorem == Spec => []ErrorLeavesNothing
<1>1. Init => ErrorInv
  <2> SUFFICES ASSUME Init, NEW x \in Calls PROVE Named(x) /\ Unnoted(x) /\ Harmless(x)
    BY DEF ErrorInv
  <2>1. /\ pc[x] = FirstStep(x) /\ was[x] = None /\ became[x] = None
        /\ target[x] = IF Op(x) = "create" THEN x ELSE None
    BY DEF Init
  <2> QED
    BY <2>1, NamesAssumption DEF Named, Unnoted, Harmless, Ids, FirstStep
<1>2. RowsInv /\ ErrorInv /\ [Next]_vars => ErrorInv'
  <2> SUFFICES ASSUME RowsInv, ErrorInv, [Next]_vars, NEW x \in Calls
               PROVE  Named(x)' /\ Unnoted(x)' /\ Harmless(x)'
    BY DEF ErrorInv
  <2>1. ASSUME NEW c \in Calls, Step(c)
        PROVE  Named(x)' /\ Unnoted(x)' /\ Harmless(x)'
    BY <2>1, OthersHarmless, OwnHarmless
  <2>2. CASE UNCHANGED vars
    BY <2>2 DEF vars, ErrorInv, Named, Unnoted, Harmless, Exists
  <2> QED
    BY <2>1, <2>2 DEF Next, Step, Quiet, Writes
<1>3. ErrorInv => ErrorLeavesNothing
  BY DEF ErrorInv, Harmless, ErrorLeavesNothing
<1> QED
  BY <1>1, <1>2, <1>3, Invariance, PTL DEF Spec
=============================================================================
