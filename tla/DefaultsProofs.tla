--------------------------- MODULE DefaultsProofs ---------------------------
(***************************************************************************)
(* The safety properties of Defaults for any number of calls and rows.     *)
(***************************************************************************)
EXTENDS Defaults, TLAPS

\* A row is named after the call that has inserted it; nobody knows its id before.
RowsOK ==
  /\ \A c \in Calls : pc[c] # "done" => ~Exists(c)
  /\ \A c \in Calls : target[c] \in Calls => pc[target[c]] = "done"
  /\ \A c \in Calls : seen[c] \intersect Calls \subseteq {x \in Calls : pc[x] = "done"}

\* A call that clears holds some, and when it has cleared exactly those of the rows it
\* saw that are left; its own target is among them, unless that is gone.
Cleared(c) == Wants(c) /\ pc[c] \in {"find", "write"}

LocksOK(c) ==
  /\ pc[c] # "start" /\ Op(c) # "create" => target[c] # None
  /\ pc[c] = "clear" => held[c] \subseteq {r \in seen[c] : Exists(r)}
  /\ pc[c] # "clear" => held[c] = IF Cleared(c) THEN {r \in seen[c] : Exists(r)} ELSE {}
  /\ (pc[c] = "clear" \/ Cleared(c)) /\ Op(c) # "create" /\ Exists(target[c]) =>
       target[c] \in seen[c]
  /\ pc[c] \in {"snapshot", "clear", "find"} => Wants(c)
  /\ pc[c] = "purge" => Op(c) = "delete"
  /\ pc[c] = "load" => Op(c) # "create"

\* What a call that is not crossed knows.
Sees(c) ==
  c \notin crossed =>
    /\ Wants(c) /\ pc[c] \in {"clear", "find", "write"} =>
         \A r \in Ids : row[r] = "default" => r \in seen[c]
    /\ Op(c) = "update" /\ ask[c].flag = "false" /\ pc[c] = "write" =>
         (row[target[c]] = "default" => copy[c] = "default")

BucketOK ==
  /\ \A k \in uploaded \ objects : \E c \in purged : Key[target[c]] = k
  /\ \A c \in purged : /\ pc[c] \in {"write", "failed", "done"} /\ Op(c) = "delete"
                       /\ target[c] # None
                       /\ pc[c] = "done" => ~Exists(target[c])

DefaultInv ==
  /\ TypeOK
  /\ RowsOK
  /\ \A c \in Calls : LocksOK(c) /\ Sees(c)
  /\ BucketOK
  /\ OneDefault

Step(c) == Look(c) \/ Begin(c) \/ Proceed(c) \/ Fail(c)

\* An upload changes the bucket alone.
LEMMA UploadFrame ==
  ASSUME NEW k \in Late, Upload(k)
  PROVE  /\ UNCHANGED <<kind, row, ask, target, pc, seen, held, copy, crossed, mixed, purged>>
         /\ objects' = objects \union {k} /\ uploaded' = uploaded \union {k}
  BY DEF Upload, request

\* What a step of c leaves to the others.
RowsFrame(c) ==
  /\ crossed \subseteq crossed' /\ crossed' \subseteq Calls
  /\ \A r \in Ids : row'[r] # row[r] => FreeFor(c, r)
  /\ \A r \in Ids : ~Exists(r) /\ row'[r] # "absent" => r = c /\ pc'[c] = "done"
  /\ \A r \in Ids : row'[r] = "default" /\ row[r] # "default" =>
        \A x \in Calls \ {c} : Behind(x, r) => x \in crossed'

Frame(c) ==
  /\ UNCHANGED <<kind, ask>>
  /\ pc[c] \notin Ended
  /\ \A x \in Calls \ {c} : /\ pc'[x] = pc[x] /\ held'[x] = held[x] /\ seen'[x] = seen[x]
                            /\ copy'[x] = copy[x] /\ target'[x] = target[x]
  /\ RowsFrame(c)

-----------------------------------------------------------------------------
(* Typing                                                                  *)

LEMMA AskTyped ==
  ASSUME TypeOK, NEW c \in Calls
  PROVE  /\ Op(c) \in {"create", "update", "set", "delete"}
         /\ Op(c) = "delete" => ~Wants(c)
         /\ Op(c) = "set" => Wants(c)
         /\ ask[c].flag = "false" /\ Op(c) = "update" => ~Wants(c)
<1>1. ask[c] \in Asks
  BY DEF TypeOK
<1> QED
  BY <1>1 DEF Asks, Op, Wants

\* The steps that write rows.
Writes(c) == Insert(c) \/ Choose(c) \/ Amend(c) \/ DeleteRow(c)

\* Only the four writing steps touch rows or crossings.
LEMMA QuietStep ==
  ASSUME NEW c \in Calls, Step(c), ~Writes(c)
  PROVE  UNCHANGED <<row, mixed, crossed>>
BY DEF Step, Proceed, Writes, Look, Begin, Load, Snapshot, Clear, Find, Purge, Fail

\* A row that changes is locked by nobody else, a row that comes is the call's
\* own, and whoever does not see a new default is crossed.
LEMMA RowsFramed ==
  ASSUME DefaultInv, NEW c \in Calls, Step(c)
  PROVE  RowsFrame(c)
<1>1. TypeOK /\ RowsOK /\ LocksOK(c)
  BY DEF DefaultInv
<1>2. /\ row \in [Ids -> Flags] /\ target \in [Calls -> Ids \union {None}]
      /\ held \in [Calls -> SUBSET Ids] /\ crossed \subseteq Calls
      /\ \A x \in Calls \ {c} : held[c] \intersect held[x] = {}
      /\ Calls \subseteq Ids
  BY <1>1 DEF TypeOK, Ids
<1>3. \A r \in Ids : ~Exists(r) => FreeFor(c, r)
  <2>1. \A x \in Calls : \A r \in held[x] : Exists(r)
    <3> SUFFICES ASSUME NEW x \in Calls, NEW r \in held[x] PROVE Exists(r)
      OBVIOUS
    <3> QED
      BY DEF DefaultInv, LocksOK
  <2> QED
    BY <2>1 DEF FreeFor
<1>4. ASSUME NEW s \in Ids, MakeDefault(c, s), FreeFor(c, s),
             Exists(s) \/ (s = c /\ pc'[c] = "done")
      PROVE  RowsFrame(c)
  <2>1. /\ row' = [r \in Ids |-> IF r = s THEN "default"
                                ELSE IF r \in held[c] THEN "plain" ELSE row[r]]
        /\ crossed' = crossed \union {x \in Calls \ {c} : Behind(x, s)}
    BY <1>4 DEF MakeDefault
  <2>2. \A r \in held[c] : Exists(r) /\ FreeFor(c, r)
    BY <1>1, <1>2 DEF LocksOK, FreeFor
  <2>3. crossed \subseteq crossed' /\ crossed' \subseteq Calls
    BY <1>2, <2>1
  <2>4. \A r \in Ids : row'[r] # row[r] => FreeFor(c, r)
    BY <1>4, <2>1, <2>2
  <2>5. \A r \in Ids : ~Exists(r) /\ row'[r] # "absent" => r = c /\ pc'[c] = "done"
    BY <1>4, <2>1, <2>2 DEF Exists
  <2>6. \A r \in Ids : row'[r] = "default" /\ row[r] # "default" => r = s
    BY <2>1
  <2>7. \A x \in Calls \ {c} : Behind(x, s) => x \in crossed'
    BY <2>1
  <2> QED
    BY <2>3, <2>4, <2>5, <2>6, <2>7 DEF RowsFrame
<1>5. CASE UNCHANGED <<row, crossed>>
  BY <1>2, <1>5 DEF RowsFrame, Exists
<1>6. CASE Insert(c)
  <2>1. pc'[c] = "done" /\ ~Exists(c)
    BY <1>1, <1>6 DEF Insert, Goto, RowsOK, TypeOK
  <2>2. CASE MakeDefault(c, c)
    BY <1>2, <1>3, <1>4, <2>1, <2>2
  <2>3. CASE row' = [row EXCEPT ![c] = "plain"] /\ crossed' = crossed
    BY <1>2, <1>3, <2>1, <2>3 DEF RowsFrame, Exists
  <2> QED
    BY <1>6, <2>2, <2>3 DEF Insert
<1>7. CASE Choose(c)
  <2>1. target[c] \in Ids /\ FreeFor(c, target[c])
    BY <1>1, <1>2, <1>7 DEF Choose, LocksOK
  <2> QED
    BY <1>4, <1>5, <1>7, <2>1 DEF Choose
<1>8. CASE Amend(c) \/ DeleteRow(c)
  <2>1. target[c] \in Ids /\ FreeFor(c, target[c]) /\ crossed' = crossed
    BY <1>1, <1>2, <1>8 DEF Amend, DeleteRow, LocksOK
  <2>2. \/ row' = row
        \/ row' = [row EXCEPT ![target[c]] = "plain"] /\ Exists(target[c])
        \/ row' = [row EXCEPT ![target[c]] = "absent"]
    BY <1>8 DEF Amend, DeleteRow
  <2> QED
    BY <1>2, <2>1, <2>2 DEF RowsFrame, Exists
<1> QED
  BY <1>5, <1>6, <1>7, <1>8, QuietStep DEF Writes

\* Steps change one call, and rows only where no other call holds a lock.
LEMMA Framed ==
  ASSUME DefaultInv, NEW c \in Calls, Step(c)
  PROVE  Frame(c)
<1>1. TypeOK
  BY DEF DefaultInv
<1>2. /\ target \in [Calls -> Ids \union {None}]
      /\ pc \in [Calls -> {"start"} \union Running \union Ended]
      /\ seen \in [Calls -> SUBSET Ids] /\ held \in [Calls -> SUBSET Ids]
      /\ copy \in [Calls -> Flags]
  BY <1>1 DEF TypeOK
<1>3. UNCHANGED <<kind, ask>> /\ pc[c] \notin Ended
  BY DEF Step, Proceed, Look, Begin, Load, Snapshot, Clear, Find, Insert, Choose, Amend, Purge,
         DeleteRow, Fail, request, Ended, Running
<1>4. \A x \in Calls \ {c} : /\ pc'[x] = pc[x] /\ held'[x] = held[x] /\ seen'[x] = seen[x]
                             /\ copy'[x] = copy[x] /\ target'[x] = target[x]
  <2>1. CASE Look(c) \/ Begin(c) \/ Load(c)
    BY <1>2, <2>1 DEF Look, Begin, Load, Goto, request
  <2>2. CASE Snapshot(c) \/ Clear(c) \/ Find(c)
    BY <1>2, <2>2 DEF Snapshot, Clear, LockRow, Find, Goto, Release, request
  <2>3. CASE Insert(c) \/ Choose(c)
    BY <1>2, <2>3 DEF Insert, Choose, Goto, Release, request
  <2>4. CASE Amend(c) \/ Purge(c) \/ DeleteRow(c) \/ Fail(c)
    BY <1>2, <2>4 DEF Amend, Purge, DeleteRow, Fail, Goto, Release, request
  <2> QED
    BY <2>1, <2>2, <2>3, <2>4 DEF Step, Proceed
<1> QED
  BY <1>3, <1>4, RowsFramed DEF Frame

\* The history of a crossed choice stays a flag.
LEMMA MixedTyped ==
  ASSUME DefaultInv, NEW c \in Calls, Step(c)
  PROVE  mixed' \in BOOLEAN
<1>1. mixed \in BOOLEAN
  BY DEF DefaultInv, TypeOK
<1>2. mixed' = mixed \/ mixed' = (c \in crossed)
  <2>1. CASE Writes(c)
    BY <2>1, Zenon DEF Writes, Insert, Choose, Amend, DeleteRow, MakeDefault
  <2>2. CASE ~Writes(c)
    <3>1. mixed' = mixed
      BY <2>2, QuietStep
    <3> QED
      BY <3>1, Zenon
  <2> QED
    BY <2>1, <2>2, Zenon
<1>3. (c \in crossed) \in BOOLEAN
  OBVIOUS
<1> QED
  BY <1>1, <1>2, <1>3, Zenon

\* Every step preserves the types.
LEMMA Typed ==
  ASSUME DefaultInv, NEW c \in Calls, Step(c)
  PROVE  TypeOK'
<1>1. TypeOK /\ LocksOK(c) /\ Frame(c) /\ (Op(c) = "create" => pc[c] # "load")
  BY Framed DEF DefaultInv, LocksOK
<1>2. /\ row \in [Ids -> Flags] /\ target \in [Calls -> Ids \union {None}]
      /\ pc \in [Calls -> {"start"} \union Running \union Ended]
      /\ seen \in [Calls -> SUBSET Ids] /\ held \in [Calls -> SUBSET Ids]
      /\ copy \in [Calls -> Flags] /\ Calls \subseteq Ids
      /\ objects \subseteq uploaded /\ uploaded \subseteq Keys /\ purged \subseteq Calls
  BY <1>1 DEF TypeOK, Ids
<1>3. {"absent", "plain", "default"} \subseteq Flags
  BY DEF Flags
<1> DEFINE Places == {"start"} \union Running \union Ended
<1>4. {"load", "snapshot", "clear", "find", "purge", "write", "done", "refused", "error",
       "failed"} \subseteq Places
  BY DEF Running, Ended
<1>5. row' \in [Ids -> Flags]
  <2>1. ASSUME NEW s, MakeDefault(c, s)
        PROVE  row' \in [Ids -> Flags]
    BY <1>2, <1>3, <2>1 DEF MakeDefault
  <2> QED
    BY <1>2, <1>3, <2>1, QuietStep DEF Writes, Insert, Choose, Amend, DeleteRow
<1>6. pc' \in [Calls -> Places]
  <2>1. CASE Look(c) \/ Begin(c) \/ Load(c) \/ Snapshot(c)
    BY <1>2, <1>4, <2>1 DEF Look, Begin, Load, Snapshot, Goto
  <2>2. CASE Clear(c) \/ Find(c) \/ Insert(c) \/ Choose(c)
    BY <1>2, <1>4, <2>2 DEF Clear, LockRow, Find, Insert, Choose, Goto
  <2>3. CASE Amend(c) \/ Purge(c) \/ DeleteRow(c) \/ Fail(c)
    BY <1>2, <1>4, <2>3 DEF Amend, Purge, DeleteRow, Fail, Goto
  <2> QED
    BY <2>1, <2>2, <2>3 DEF Step, Proceed
<1>7. target' \in [Calls -> Ids \union {None}] /\ copy' \in [Calls -> Flags]
  <2>1. CASE Look(c)
    BY <1>2, <2>1 DEF Look
  <2>2. CASE Load(c)
    <3>1. target[c] \in Ids
      BY <1>1, <1>2, <2>2 DEF Load, LocksOK
    <3> QED
      BY <1>2, <2>2, <3>1 DEF Load, request
  <2>3. CASE ~Look(c) /\ ~Load(c)
    <3>1. UNCHANGED <<target, copy>>
      BY <2>3 DEF Step, Proceed, Begin, Snapshot, Clear, Find, Insert, Choose, Amend, Purge,
                  DeleteRow, Fail, request
    <3> QED
      BY <1>2, <3>1
  <2> QED
    BY <2>1, <2>2, <2>3
<1>8. seen' \in [Calls -> SUBSET Ids]
  BY <1>2 DEF Step, Proceed, Look, Begin, Load, Snapshot, Clear, Find, Insert, Choose, Amend, Purge,
              DeleteRow, Fail
<1>9. /\ held' \in [Calls -> SUBSET Ids]
      /\ \A x, y \in Calls : x # y => held'[x] \intersect held'[y] = {}
  <2>1. held' = held \/ held' = [held EXCEPT ![c] = {}] \/ LockRow(c)
    BY DEF Step, Proceed, Look, Begin, Load, Snapshot, Clear, Find, Insert, Choose, Amend, Purge,
           DeleteRow, Fail, Release
  <2>2. CASE held' = held \/ held' = [held EXCEPT ![c] = {}]
    BY <1>1, <1>2, <2>2 DEF TypeOK
  <2>3. CASE LockRow(c)
    <3>1. PICK r \in Unlocked(c) : FreeFor(c, r) /\ held' = [held EXCEPT ![c] = @ \union {r}]
      BY <2>3 DEF LockRow
    <3>2. r \in Ids /\ \A x \in Calls \ {c} : r \notin held[x]
      BY <1>2, <3>1 DEF Unlocked, FreeFor
    <3>3. \A x, y \in Calls : x # y => held[x] \intersect held[y] = {}
      BY <1>1 DEF TypeOK
    <3> QED
      BY <1>2, <3>1, <3>2, <3>3
  <2> QED
    BY <2>1, <2>2, <2>3
<1>10. objects' \subseteq uploaded' /\ uploaded' \subseteq Keys /\ purged' \subseteq Calls
  BY <1>2 DEF Step, Proceed, Look, Begin, Load, Snapshot, Clear, Find, Insert, Choose, Amend, Purge,
              DeleteRow, Fail, bucket
<1>11. kind' \in Kinds /\ ask' \in [Calls -> Asks] /\ crossed' \subseteq Calls
  BY <1>1 DEF Frame, RowsFrame, TypeOK
<1> QED
  BY <1>5, <1>6, <1>7, <1>8, <1>9, <1>10, <1>11, MixedTyped DEF TypeOK

-----------------------------------------------------------------------------
(* Rows, locks and what a call sees                                        *)

LEMMA RowsKept ==
  ASSUME DefaultInv, NEW c \in Calls, Step(c)
  PROVE  RowsOK'
<1>1. TypeOK /\ RowsOK /\ Frame(c)
  BY Framed DEF DefaultInv
<1>2. Calls \subseteq Ids /\ c \in DOMAIN target /\ c \in DOMAIN seen
  BY <1>1 DEF Ids, TypeOK
<1>3. \A x \in Calls : pc[x] = "done" => pc'[x] = "done"
  BY <1>1 DEF Frame, Ended
<1>4. \A x \in Calls : pc'[x] # "done" => row'[x] = "absent"
  BY <1>1, <1>2 DEF Frame, RowsFrame, RowsOK, Exists, Ended
<1>5. \A x \in Calls : target'[x] \in Calls => pc'[target'[x]] = "done"
  <2>1. CASE Look(c)
    <3>1. PICK r \in Ids : Exists(r) /\ target' = [target EXCEPT ![c] = r]
      BY <2>1 DEF Look
    <3>2. r \in Calls => pc[r] = "done"
      BY <1>1, <3>1 DEF RowsOK
    <3> QED
      BY <1>1, <1>2, <1>3, <3>1, <3>2 DEF RowsOK
  <2>2. CASE ~Look(c)
    <3>1. target' = target
      BY <2>2 DEF Step, Proceed, Begin, Load, Snapshot, Clear, Find, Insert, Choose, Amend, Purge,
                  DeleteRow, Fail, request
    <3> QED
      BY <1>1, <1>3, <3>1 DEF RowsOK
  <2> QED
    BY <2>1, <2>2
<1>6. \A x \in Calls : seen'[x] \intersect Calls \subseteq {y \in Calls : pc'[y] = "done"}
  <2>1. CASE Snapshot(c)
    <3>1. seen' = [seen EXCEPT ![c] = {r \in Ids : Exists(r)}]
      BY <2>1 DEF Snapshot
    <3>2. \A y \in Calls : Exists(y) => pc[y] = "done"
      BY <1>1 DEF RowsOK
    <3> QED
      BY <1>1, <1>2, <1>3, <3>1, <3>2 DEF RowsOK
  <2>2. CASE ~Snapshot(c)
    <3>1. seen' = seen
      BY <2>2 DEF Step, Proceed, Look, Begin, Load, Clear, Find, Insert, Choose, Amend, Purge,
                  DeleteRow, Fail
    <3> QED
      BY <1>1, <1>3, <3>1 DEF RowsOK
  <2> QED
    BY <2>1, <2>2
<1> QED
  BY <1>4, <1>5, <1>6 DEF RowsOK, Exists

\* A row that somebody has named or seen and that is gone stays away: its id is not
\* given again.
LEMMA GoneForGood ==
  ASSUME DefaultInv, NEW c \in Calls, Step(c), NEW x \in Calls, NEW r \in Ids,
         r \in seen[x] \/ r = target[x], Exists(r)'
  PROVE  Exists(r)
<1>1. RowsOK /\ Frame(c)
  BY Framed DEF DefaultInv
<1>2. r = c => pc[c] = "done"
  BY <1>1 DEF RowsOK
<1> QED
  BY <1>1, <1>2 DEF Frame, RowsFrame, Exists, Ended

\* What a call holds and sees survives the steps of the others.
LEMMA OthersKeep ==
  ASSUME DefaultInv, NEW c \in Calls, Step(c), Frame(c), NEW x \in Calls \ {c}
  PROVE  LocksOK(x)' /\ Sees(x)'
<1>1. TypeOK /\ RowsOK /\ LocksOK(x) /\ Sees(x)
  BY DEF DefaultInv
<1>2. /\ pc'[x] = pc[x] /\ held'[x] = held[x] /\ seen'[x] = seen[x]
      /\ copy'[x] = copy[x] /\ target'[x] = target[x] /\ ask' = ask
      /\ seen[x] \subseteq Ids /\ target[x] \in Ids \union {None}
  BY <1>1 DEF Frame, TypeOK
<1>3. LocksOK(x)'
  <2>1. Cleared(x)' = Cleared(x)
    BY <1>2 DEF Cleared, Wants, Op
  <2>2. \A r \in held[x] : Exists(r)' <=> Exists(r)
    BY <1>1, <1>2 DEF Frame, RowsFrame, FreeFor, Exists, TypeOK
  <2>3. \A r \in seen[x] : Exists(r)' => Exists(r)
    BY <1>2, GoneForGood
  <2>4. pc[x] = "clear" => held'[x] \subseteq {r \in seen'[x] : Exists(r)'}
    BY <1>1, <1>2, <2>2 DEF LocksOK
  <2>5. pc[x] # "clear" => held'[x] = IF Cleared(x)' THEN {r \in seen'[x] : Exists(r)'} ELSE {}
    BY <1>1, <1>2, <2>1, <2>2, <2>3 DEF LocksOK
  <2>6. /\ pc[x] = "clear" \/ Cleared(x)
        /\ Op(x) # "create"
        /\ Exists(target[x])'
        => target[x] \in seen[x]
    <3> SUFFICES ASSUME pc[x] = "clear" \/ Cleared(x), Op(x) # "create", Exists(target[x])'
                 PROVE  target[x] \in seen[x]
      OBVIOUS
    <3>1. target[x] \in Ids
      BY <1>1, <1>2 DEF LocksOK, Cleared
    <3>2. Exists(target[x])
      BY <1>2, <3>1, GoneForGood DEF Exists
    <3> QED
      BY <1>1, <3>2 DEF LocksOK
  <2>7. (Exists(target[x]))' <=> row'[target[x]] # "absent"
    BY <1>2 DEF Exists
  <2> QED
    BY <1>1, <1>2, <2>1, <2>4, <2>5, <2>6 DEF LocksOK, Exists, Op, Wants
<1>4. Sees(x)'
  <2> SUFFICES ASSUME x \notin crossed'
               PROVE  /\ Wants(x) /\ pc[x] \in {"clear", "find", "write"} =>
                           \A r \in Ids : row'[r] = "default" => r \in seen[x]
                      /\ Op(x) = "update" /\ ask[x].flag = "false" /\ pc[x] = "write" =>
                           (row'[target[x]] = "default" => copy[x] = "default")
    BY <1>2 DEF Sees, Wants, Op
  <2>1. x \notin crossed
    BY DEF Frame, RowsFrame
  <2>2. \A r \in Ids : row'[r] = "default" => row[r] = "default" \/ ~Behind(x, r)
    BY DEF Frame, RowsFrame
  <2>3. pc[x] = "write" /\ Op(x) = "update" => target[x] \in Ids
    BY <1>1, <1>2 DEF LocksOK
  <2> QED
    BY <1>1, <2>1, <2>2, <2>3 DEF Sees, Behind
<1> QED
  BY <1>3, <1>4

\* A call keeps track of its own locks and of what it has seen.
LEMMA OwnKept ==
  ASSUME DefaultInv, NEW c \in Calls, Step(c)
  PROVE  LocksOK(c)' /\ Sees(c)'
<1>1. TypeOK /\ LocksOK(c) /\ Sees(c)
  BY DEF DefaultInv
<1>2. /\ c \in DOMAIN pc /\ c \in DOMAIN held /\ c \in DOMAIN seen /\ c \in DOMAIN copy
      /\ seen[c] \subseteq Ids
  BY <1>1 DEF TypeOK
<1>3. /\ Op(c) \in {"create", "update", "set", "delete"}
      /\ Op(c) = "delete" => ~Wants(c)
      /\ ask[c].flag = "false" /\ Op(c) = "update" => ~Wants(c)
  BY <1>1, AskTyped
<1>4. ask' = ask /\ pc[c] \notin Ended
  BY Framed DEF Frame
<1>5. CASE Look(c)
  <2>1. pc[c] = "start" /\ UNCHANGED <<row, pc, seen, held, copy, crossed>>
    BY <1>5 DEF Look
  <2> QED
    BY <1>1, <1>4, <2>1 DEF LocksOK, Sees, Cleared, Exists, Wants, Op
<1>6. CASE Begin(c) \/ Load(c)
  <2>1. /\ UNCHANGED <<row, seen, held, crossed, target>>
        /\ Op(c) # "create" => target[c] # None
        /\ pc[c] \in {"start", "load"}
    BY <1>1, <1>6 DEF Begin, Load, request, LocksOK
  <2>2. \/ pc'[c] = "refused" \/ (pc'[c] = "load" /\ Op(c) # "create")
        \/ pc'[c] = "snapshot" /\ Wants(c)
        \/ pc'[c] = "purge" /\ Op(c) = "delete"
        \/ pc'[c] = "write" /\ ~Wants(c) /\ (Op(c) # "update" \/ copy'[c] = row[target[c]])
    BY <1>2, <1>3, <1>6 DEF Begin, Load, Goto
  <2>3. held[c] = {}
    BY <1>1, <2>1 DEF LocksOK, Cleared
  <2>4. LocksOK(c)'
    BY <1>4, <2>1, <2>2, <2>3 DEF LocksOK, Cleared, Wants, Op
  <2>5. Sees(c)'
    BY <1>3, <1>4, <2>1, <2>2 DEF Sees, Wants, Op
  <2> QED
    BY <2>4, <2>5
<1>7. CASE Snapshot(c)
  <2>1. /\ pc[c] = "snapshot" /\ pc'[c] = "clear" /\ UNCHANGED <<row, held, crossed, target>>
        /\ seen'[c] = {r \in Ids : Exists(r)}
        /\ Op(c) # "create" => target[c] \in Ids
    BY <1>1, <1>2, <1>7 DEF Snapshot, Goto, request, LocksOK, TypeOK
  <2>2. Wants(c) /\ held[c] = {}
    BY <1>1, <2>1 DEF LocksOK, Cleared
  <2> QED
    BY <1>1, <1>4, <2>1, <2>2 DEF LocksOK, Sees, Cleared, Exists, Wants, Op
<1>8. CASE Clear(c)
  <2>1. pc[c] = "clear" /\ UNCHANGED <<row, seen, crossed, target>>
    BY <1>8 DEF Clear, request
  <2>2. Wants(c) /\ held[c] \subseteq {r \in seen[c] : Exists(r)}
    BY <1>1, <2>1 DEF LocksOK
  <2>3. CASE LockRow(c)
    <3>1. /\ pc'[c] = "clear"
          /\ held'[c] \subseteq {r \in seen[c] : Exists(r)}
      BY <1>2, <2>1, <2>2, <2>3 DEF LockRow, Unlocked
    <3>2. LocksOK(c)'
      BY <1>1, <1>4, <2>1, <2>2, <3>1 DEF LocksOK, Cleared, Exists, Wants, Op
    <3> QED
      BY <1>1, <1>3, <1>4, <2>1, <2>2, <3>1, <3>2 DEF Sees, Wants, Op
  <2>4. CASE ~LockRow(c)
    <3>1. /\ pc'[c] \in {"find", "write"}
          /\ held'[c] = {r \in seen[c] : Exists(r)}
      BY <1>2, <1>8, <2>2, <2>4 DEF Clear, Unlocked, Goto
    <3>2. LocksOK(c)'
      BY <1>1, <1>4, <2>1, <2>2, <3>1 DEF LocksOK, Cleared, Exists, Wants, Op
    <3> QED
      BY <1>1, <1>3, <1>4, <2>1, <2>2, <3>1, <3>2 DEF Sees, Wants, Op
  <2> QED
    BY <2>3, <2>4
<1>9. CASE Find(c)
  <2>1. /\ pc[c] = "find" /\ UNCHANGED <<row, seen, crossed, target>>
        /\ \/ pc'[c] = "write" /\ held'[c] = held[c]
           \/ pc'[c] = "refused" /\ held'[c] = {}
    BY <1>2, <1>9 DEF Find, Goto, Release, request
  <2>2. Wants(c)
    BY <1>1, <2>1 DEF LocksOK
  <2>3. LocksOK(c)'
    BY <1>1, <1>4, <2>1, <2>2 DEF LocksOK, Cleared, Exists, Wants, Op
  <2>4. Sees(c)'
    BY <1>1, <1>3, <1>4, <2>1, <2>2 DEF Sees, Wants, Op
  <2> QED
    BY <2>3, <2>4
<1>10. CASE Purge(c)
  <2>1. /\ pc[c] = "purge" /\ pc'[c] = "write" /\ UNCHANGED <<row, seen, held, crossed, target>>
    BY <1>2, <1>10 DEF Purge, Goto, request
  <2>2. Op(c) = "delete" /\ ~Wants(c) /\ held[c] = {}
    BY <1>1, <1>3, <2>1 DEF LocksOK, Cleared
  <2> QED
    BY <1>1, <1>4, <2>1, <2>2 DEF LocksOK, Sees, Cleared, Wants, Op
<1>11. CASE Insert(c) \/ Choose(c) \/ Amend(c) \/ DeleteRow(c) \/ Fail(c)
  <2>1. pc'[c] \in Ended /\ target' = target /\ pc[c] # "start"
    BY <1>2, <1>11 DEF Insert, Choose, Amend, DeleteRow, Fail, Goto, request, Ended, Running
  <2>2. held'[c] = {}
    <3>1. CASE Amend(c) \/ DeleteRow(c)
      BY <1>1, <1>3, <3>1 DEF Amend, DeleteRow, LocksOK, Cleared
    <3>2. CASE Insert(c) \/ Choose(c) \/ Fail(c)
      BY <1>2, <3>2 DEF Insert, Choose, Fail, Release
    <3> QED
      BY <1>11, <3>1, <3>2
  <2> QED
    BY <1>1, <1>4, <2>1, <2>2 DEF LocksOK, Sees, Cleared, Ended, Op
<1> QED
  BY <1>5, <1>6, <1>7, <1>8, <1>9, <1>10, <1>11 DEF Step, Proceed

\* Every step keeps locks and views for all calls.
LEMMA Kept ==
  ASSUME DefaultInv, NEW c \in Calls, Step(c)
  PROVE  \A x \in Calls : LocksOK(x)' /\ Sees(x)'
<1>1. ASSUME NEW x \in Calls \ {c}
      PROVE  LocksOK(x)' /\ Sees(x)'
  BY Framed, OthersKeep
<1> QED
  BY <1>1, OwnKept

-----------------------------------------------------------------------------
(* The bucket                                                              *)

LEMMA BucketKept ==
  ASSUME DefaultInv, NEW c \in Calls, Step(c)
  PROVE  BucketOK'
<1>1. TypeOK /\ RowsOK /\ BucketOK /\ LocksOK(c) /\ Frame(c)
  BY Framed DEF DefaultInv
<1>2. /\ c \in DOMAIN pc /\ purged \subseteq Calls /\ ask' = ask
      /\ \A x \in Calls : target[x] \in Ids \union {None}
      /\ row \in [Ids -> Flags] /\ c \in Ids
  BY <1>1 DEF TypeOK, Frame, Ids
<1>3. \A x \in Calls : target[x] # None => target'[x] = target[x]
  <2>1. Look(c) => target[c] = None
    BY DEF Look
  <2>2. ~Look(c) => target' = target
    BY DEF Step, Proceed, Begin, Load, Snapshot, Clear, Find, Insert, Choose, Amend, Purge,
           DeleteRow, Fail, request
  <2> QED
    BY <1>1, <2>1, <2>2 DEF Frame
<1>4. \A x \in purged : target[x] \in Ids /\ target'[x] = target[x]
  BY <1>1, <1>2, <1>3 DEF BucketOK
<1>5. \A x \in Calls : target[x] \in Ids /\ row[target[x]] = "absent" => row'[target[x]] = "absent"
  <2> SUFFICES ASSUME NEW x \in Calls, target[x] \in Ids, row[target[x]] = "absent",
                      row'[target[x]] # "absent"
               PROVE  FALSE
    OBVIOUS
  <2>1. target[x] = c
    BY <1>1 DEF Frame, RowsFrame, Exists
  <2>2. pc[c] = "done"
    BY <1>1, <2>1 DEF RowsOK
  <2> QED
    BY <1>1, <2>2 DEF Frame, Ended
<1>6. \A x \in purged \ {c} : /\ pc'[x] \in {"write", "failed", "done"} /\ Op(x)' = "delete"
                              /\ target'[x] # None
                              /\ pc'[x] = "done" => row'[target'[x]] = "absent"
  BY <1>1, <1>2, <1>4, <1>5 DEF BucketOK, Frame, Op, Exists
<1>7. CASE Purge(c)
  <2>1. /\ objects' = objects \ {Key[target[c]]} /\ purged' = purged \union {c}
        /\ uploaded' = uploaded
        /\ pc[c] = "purge" /\ pc'[c] = "write" /\ target' = target
    BY <1>2, <1>7 DEF Purge, Goto, request
  <2>2. Op(c) = "delete" /\ target[c] # None
    BY <1>1, <2>1 DEF LocksOK
  <2>3. \A k \in uploaded' \ objects' : \E x \in purged' : Key[target'[x]] = k
    BY <1>1, <2>1 DEF BucketOK
  <2>4. \A x \in purged' : /\ pc'[x] \in {"write", "failed", "done"} /\ Op(x)' = "delete"
                           /\ target'[x] # None
                           /\ pc'[x] = "done" => row'[target'[x]] = "absent"
    BY <1>2, <1>6, <2>1, <2>2 DEF Op
  <2> QED
    BY <2>3, <2>4 DEF BucketOK, Exists, Op
<1>8. CASE ~Purge(c)
  <2>1. objects' = objects /\ purged' = purged /\ uploaded' = uploaded
    BY <1>8 DEF Step, Proceed, Look, Begin, Load, Snapshot, Clear, Find, Insert, Choose, Amend,
                DeleteRow, Fail, bucket
  <2>2. ASSUME c \in purged
        PROVE  /\ pc'[c] \in {"write", "failed", "done"} /\ Op(c)' = "delete"
               /\ target'[c] # None
               /\ pc'[c] = "done" => row'[target'[c]] = "absent"
    <3>1. pc[c] = "write" /\ Op(c) = "delete" /\ target[c] # None /\ ~Wants(c)
      BY <1>1, <1>2, <2>2, AskTyped DEF BucketOK, Frame, Ended
    <3>2. DeleteRow(c) \/ Fail(c)
      BY <3>1 DEF Step, Proceed, Look, Begin, Load, Snapshot, Clear, Find, Insert, Choose, Amend,
                  Purge
    <3>3. CASE DeleteRow(c)
      BY <1>2, <1>4, <2>2, <3>1, <3>3 DEF DeleteRow, Goto, Op
    <3>4. CASE Fail(c)
      BY <1>2, <1>4, <2>2, <3>1, <3>4 DEF Fail, Goto, Op
    <3> QED
      BY <3>2, <3>3, <3>4
  <2>3. \A k \in uploaded' \ objects' : \E x \in purged' : Key[target'[x]] = k
    BY <1>1, <1>4, <2>1 DEF BucketOK
  <2> QED
    BY <1>6, <2>1, <2>2, <2>3 DEF BucketOK, Exists, Op
<1> QED
  BY <1>7, <1>8

\* The invariant says which rows may lack their object.
LEMMA ServedWhile ==
  ASSUME DefaultInv
  PROVE  ImageServed
<1> SUFFICES ASSUME NEW r \in Ids, kind = "image", Exists(r), Key[r] \in uploaded \ objects
             PROVE  \E c \in purged : /\ Key[target[c]] = Key[r]
                                      /\ target[c] = r => pc[c] \in {"write", "failed"}
  BY DEF ImageServed
<1>1. PICK c \in purged : Key[target[c]] = Key[r]
  BY DEF DefaultInv, BucketOK
<1> QED
  BY <1>1 DEF DefaultInv, BucketOK

-----------------------------------------------------------------------------
(* The default                                                             *)

\* A call that has cleared, and is not crossed, leaves only its own default.
LEMMA OnlyOwn ==
  ASSUME DefaultInv, NEW c \in Calls, NEW s, MakeDefault(c, s), Wants(c), pc[c] = "write",
         c \notin crossed
  PROVE  \A r \in Ids : row'[r] = "default" => r = s
<1>1. held[c] = {r \in seen[c] : Exists(r)}
  BY DEF DefaultInv, LocksOK, Cleared
<1>2. \A r \in Ids : row[r] = "default" => r \in held[c]
  BY <1>1 DEF DefaultInv, Sees, Exists
<1> QED
  BY <1>2 DEF MakeDefault

\* No step leaves a second default unless the choice was crossed.
LEMMA OneKept ==
  ASSUME DefaultInv, NEW c \in Calls, Step(c)
  PROVE  OneDefault'
<1>1. OneDefault /\ row \in [Ids -> Flags]
  BY DEF DefaultInv, TypeOK
<1>2. ASSUME mixed' = mixed, \A r \in Ids : row'[r] = "default" => row[r] = "default"
      PROVE  OneDefault'
  BY <1>1, <1>2 DEF OneDefault
<1>3. ASSUME NEW s, MakeDefault(c, s), Wants(c), pc[c] = "write"
      PROVE  OneDefault'
  <2>1. CASE c \in crossed
    BY <1>3, <2>1 DEF MakeDefault, OneDefault
  <2>2. CASE c \notin crossed
    BY <1>3, <2>2, OnlyOwn DEF OneDefault
  <2> QED
    BY <2>1, <2>2
<1>4. CASE Insert(c)
  BY <1>1, <1>2, <1>3, <1>4 DEF Insert
<1>5. CASE Choose(c)
  BY <1>2, <1>3, <1>5 DEF Choose
<1>6. CASE Amend(c) \/ DeleteRow(c)
  BY <1>1, <1>2, <1>6 DEF Amend, DeleteRow
<1>7. CASE ~Writes(c)
  BY <1>2, <1>7, QuietStep
<1> QED
  BY <1>4, <1>5, <1>6, <1>7 DEF Writes

\* No step takes the last default away but those that may.
LEMMA LeavesKept ==
  ASSUME DefaultInv, NEW c \in Calls, Step(c)
  PROVE  LeavesDefault
<1> SUFFICES ASSUME NEW r \in Ids, row[r] = "default", \A x \in Ids : row'[x] # "default"
             PROVE  /\ pc[c] = "write" /\ pc'[c] = "done" /\ ~Wants(c)
                    /\ row[target[c]] = "default"
  BY DEF LeavesDefault
<1>1. /\ row \in [Ids -> Flags] /\ c \in DOMAIN pc /\ c \in Ids
      /\ Op(c) = "delete" => ~Wants(c)
      /\ target[c] \in Ids \union {None} /\ LocksOK(c)
  BY AskTyped DEF DefaultInv, TypeOK, Ids
<1>2. ~MakeDefault(c, c)
  BY <1>1 DEF MakeDefault
<1>3. Writes(c)
  BY QuietStep
<1>4. CASE Insert(c)
  <2>1. row' = [row EXCEPT ![c] = "plain"]
    BY <1>2, <1>4 DEF Insert
  <2>2. row[c] = "absent"
    BY <1>4 DEF Insert, DefaultInv, RowsOK, Exists
  <2> QED
    BY <1>1, <2>1, <2>2
<1>5. CASE Choose(c)
  <2>1. target[c] \in Ids
    BY <1>1, <1>5 DEF Choose, LocksOK
  <2> QED
    BY <1>1, <1>5, <2>1 DEF Choose, MakeDefault
<1>6. CASE Amend(c)
  <2>1. Exists(target[c]) /\ row' = [row EXCEPT ![target[c]] = "plain"]
    BY <1>6 DEF Amend
  <2> QED
    BY <1>1, <1>6, <2>1 DEF Amend, Goto
<1>7. CASE DeleteRow(c)
  BY <1>1, <1>7 DEF DeleteRow, Goto
<1> QED
  BY <1>3, <1>4, <1>5, <1>6, <1>7 DEF Writes

\* Switching off works unless the flag was set behind the call.
LEMMA SwitchesKept ==
  ASSUME DefaultInv, NEW c \in Calls, Step(c)
  PROVE  SwitchesOff
<1> SUFFICES ASSUME NEW x \in Calls, pc[x] = "write", pc'[x] = "done", Op(x) = "update",
                    ask[x].flag = "false", x \notin crossed
             PROVE  row'[target[x]] = "plain"
  BY DEF SwitchesOff
<1>1. x = c
  BY Framed DEF Frame
<1>2. /\ TypeOK /\ LocksOK(c) /\ Sees(c) /\ ~Wants(c)
      /\ row \in [Ids -> Flags] /\ c \in DOMAIN pc
  BY <1>1, AskTyped DEF DefaultInv, TypeOK
<1>3. target[c] \in Ids
  BY <1>1, <1>2 DEF LocksOK, TypeOK
<1>4. Amend(c)
  BY <1>1, <1>2 DEF Step, Proceed, Look, Begin, Load, Snapshot, Clear, Find, Insert, Choose, Purge,
                    DeleteRow, Fail, Goto
<1>5. Exists(target[c])
  BY <1>1, <1>2, <1>4 DEF Amend, Goto
<1>6. row[target[c]] = "default" => copy[c] = "default"
  BY <1>1, <1>2 DEF Sees
<1>7. row[target[c]] \in {"plain", "default"}
  BY <1>2, <1>3, <1>5 DEF Exists, Flags
<1> QED
  BY <1>1, <1>2, <1>3, <1>4, <1>5, <1>6, <1>7 DEF Amend

-----------------------------------------------------------------------------
(* The theorems                                                            *)

\* Whoever has cleared holds every row it saw, and sees every default there is
\* unless it is crossed.
THEOREM Invariance == Spec => []DefaultInv
<1>1. Init => DefaultInv
  <2> SUFFICES ASSUME Init PROVE DefaultInv
    OBVIOUS
  <2>1. \A c \in Calls : /\ pc[c] = "start" /\ target[c] = None /\ seen[c] = {} /\ held[c] = {}
                         /\ row[c] = "absent"
    BY DEF Init
  <2>2. TypeOK
    BY KeyAssumption DEF Init, TypeOK, Flags
  <2>3. None \notin Calls
    BY NamesAssumption DEF Ids
  <2>4. RowsOK /\ BucketOK
    BY <2>1, <2>3 DEF RowsOK, BucketOK, Exists, Init
  <2>5. \A c \in Calls : LocksOK(c) /\ Sees(c)
    BY <2>1 DEF LocksOK, Sees, Cleared
  <2>6. OneDefault
    <3>1. \A r \in Ids : row[r] = "default" => r \in Before
      BY <2>1 DEF Ids
    <3> QED
      BY <3>1 DEF OneDefault, Init
  <2> QED
    BY <2>2, <2>4, <2>5, <2>6 DEF DefaultInv
<1>2. DefaultInv /\ [Next]_vars => DefaultInv'
  <2> SUFFICES ASSUME DefaultInv, [Next]_vars PROVE DefaultInv'
    OBVIOUS
  <2>1. ASSUME NEW c \in Calls, Step(c)
        PROVE  DefaultInv'
    BY <2>1, Typed, RowsKept, Kept, BucketKept, OneKept DEF DefaultInv
  <2>2. CASE UNCHANGED vars
    BY <2>2 DEF vars, DefaultInv, TypeOK, RowsOK, LocksOK, Sees, BucketOK, OneDefault, Cleared,
                Exists, Wants, Op
  <2>3. ASSUME NEW k \in Late, Upload(k)
        PROVE  DefaultInv'
    <3>1. TypeOK'
      BY <2>3, UploadFrame, KeyAssumption DEF DefaultInv, TypeOK
    <3>2. BucketOK'
      BY <2>3, UploadFrame DEF DefaultInv, BucketOK, Exists, Op
    <3> QED
      BY <2>3, <3>1, <3>2, UploadFrame
         DEF DefaultInv, RowsOK, LocksOK, Sees, OneDefault, Cleared, Exists, Wants, Op
  <2> QED
    BY <2>1, <2>2, <2>3 DEF Next, Step
<1> QED
  BY <1>1, <1>2, PTL DEF Spec

\* No two calls lock one row, whatever the calls.
THEOREM TypingTheorem == Spec => []TypeOK
BY Invariance, PTL DEF DefaultInv

\* One default address, one primary image, unless the last choice was crossed
\* (routers/addresses.py:18-70, routers/products.py:278-308).
THEOREM OneTheorem == Spec => []OneDefault
BY Invariance, PTL DEF DefaultInv

\* A listed image whose object was uploaded has it, or a deletion explains why not
\* (routers/products.py:311-319).
THEOREM ServedTheorem == Spec => []ImageServed
<1>1. DefaultInv => ImageServed
  BY ServedWhile
<1> QED
  BY <1>1, Invariance, PTL

\* The clear and the choice are one step to everybody else.
THEOREM KeptTheorem == Spec => DefaultKept
<1>1. DefaultInv /\ [Next]_vars => [LeavesDefault]_vars
  <2> SUFFICES ASSUME DefaultInv, Next
               PROVE  LeavesDefault
    OBVIOUS
  <2>1. ASSUME NEW k \in Late, Upload(k)
        PROVE  LeavesDefault
    BY <2>1, UploadFrame DEF LeavesDefault
  <2> QED
    BY <2>1, LeavesKept DEF Next, Step
<1> QED
  BY <1>1, Invariance, PTL DEF Spec, DefaultKept

\* update_address takes what it was sent, unless its copy was overtaken.
THEOREM UnsetTheorem == Spec => UnsetTaken
<1>1. DefaultInv /\ [Next]_vars => [SwitchesOff]_vars
  <2> SUFFICES ASSUME DefaultInv, Next
               PROVE  SwitchesOff
    OBVIOUS
  <2>1. ASSUME NEW k \in Late, Upload(k)
        PROVE  SwitchesOff
    BY <2>1, UploadFrame DEF SwitchesOff
  <2> QED
    BY <2>1, SwitchesKept DEF Next, Step
<1> QED
  BY <1>1, Invariance, PTL DEF Spec, UnsetTaken

-----------------------------------------------------------------------------
(* Waiting                                                                 *)

\* A call past its clear holds the row it writes, if that is left; a call that has not
\* cleared holds nothing.  So whoever waits to write holds nothing.
LEMMA WritersEmptyHanded ==
  ASSUME DefaultInv, NEW x \in Calls, NEW y \in Calls, WaitsFor(x, y), pc[x] # "clear"
  PROVE  held[x] = {}
<1>1. LocksOK(x) /\ LocksOK(y) /\ held[x] \intersect held[y] = {}
  BY DEF DefaultInv, TypeOK, WaitsFor
<1>2. pc[x] = "write" /\ Op(x) # "create" /\ target[x] \in held[y]
  BY DEF WaitsFor
<1>3. Exists(target[x])
  BY <1>1, <1>2 DEF LocksOK
<1>4. ~Cleared(x)
  <2> SUFFICES ASSUME Cleared(x) PROVE FALSE
    OBVIOUS
  <2>1. target[x] \in held[x]
    BY <1>1, <1>2, <1>3 DEF LocksOK
  <2> QED
    BY <1>1, <1>2, <2>1
<1> QED
  BY <1>1, <1>2, <1>4 DEF LocksOK

\* Whoever is waited for and waits, waits for a row of its clear.
LEMMA ChainsOfClears ==
  ASSUME DefaultInv, NEW x \in Calls, NEW y \in Calls, NEW z \in Calls,
         WaitsFor(x, y), WaitsFor(y, z)
  PROVE  pc[y] = "clear"
<1>1. held[y] # {}
  BY DEF WaitsFor
<1> QED
  BY <1>1, WritersEmptyHanded

\* For any number of calls and rows, a deadlock is one of clears that have met
\* half-way (addresses.py:18-70, products.py:278-308).
THEOREM DeadlockTheorem == Spec => []OnlyClearsDeadlock
<1>1. DefaultInv => OnlyClearsDeadlock
  <2> SUFFICES ASSUME DefaultInv, NEW S \in SUBSET Calls, Circle(S), NEW x \in S
               PROVE  \E y \in S : WaitsFor(x, y) /\ pc[y] = "clear"
    BY DEF OnlyClearsDeadlock
  <2>1. PICK y \in S : WaitsFor(x, y)
    BY DEF Circle
  <2>2. PICK z \in S : WaitsFor(y, z)
    BY DEF Circle
  <2> QED
    BY <2>1, <2>2, ChainsOfClears
<1> QED
  BY <1>1, Invariance, PTL

\* A running call that can take no step before another one has ended.
Stuck(x) ==
  \/ pc[x] = "clear" /\ Unlocked(x) # {} /\ \A r \in Unlocked(x) : ~FreeFor(x, r)
  \/ pc[x] = "write" /\ Op(x) # "create" /\ ~FreeFor(x, target[x])

\* While calls are under way, one of them can go on, or clears have deadlocked, and the
\* database parts them.
SomeoneCanGoOn ==
  (\E x \in Calls : pc[x] \in Running) =>
    \/ \E x \in Calls : pc[x] \in Running /\ ~Stuck(x)
    \/ \E S \in SUBSET {x \in Calls : pc[x] = "clear"} : Circle(S)

\* Calls are never left all waiting without a circle of clears for the database to part,
\* however many there are and whichever rows they want.
THEOREM GoesOnTheorem == Spec => []SomeoneCanGoOn
<1>1. ASSUME DefaultInv PROVE SomeoneCanGoOn
  <2> SUFFICES ASSUME NEW a \in Calls, pc[a] \in Running,
                      \A x \in Calls : pc[x] \in Running => Stuck(x)
               PROVE  \E S \in SUBSET {x \in Calls : pc[x] = "clear"} : Circle(S)
    BY DEF SomeoneCanGoOn
  <2>1. ASSUME NEW x \in Calls, pc[x] \in Running
        PROVE  \E y \in Calls : WaitsFor(x, y) /\ pc[y] \in Running
    <3>1. PICK y \in Calls : WaitsFor(x, y)
      BY <2>1 DEF Stuck, WaitsFor, FreeFor
    <3>2. LocksOK(y) /\ held[y] # {} /\ pc[y] \in {"start"} \union Running \union Ended
      BY <1>1, <3>1 DEF DefaultInv, TypeOK, WaitsFor
    <3>3. pc[y] \in {"clear", "find", "write"}
      BY <3>2 DEF LocksOK, Cleared
    <3> QED
      BY <3>1, <3>3 DEF Running
  <2> DEFINE S == {x \in Calls : pc[x] = "clear"}
  <2>2. ASSUME NEW x \in Calls, pc[x] \in Running
        PROVE  \E y \in S : WaitsFor(x, y)
    <3>1. PICK y \in Calls : WaitsFor(x, y) /\ pc[y] \in Running
      BY <2>1, <2>2
    <3>2. PICK z \in Calls : WaitsFor(y, z)
      BY <2>1, <3>1
    <3> QED
      BY <1>1, <3>1, <3>2, ChainsOfClears
  <2>3. \A x \in S : pc[x] \in Running
    BY DEF Running
  <2>4. Circle(S)
    BY <2>2, <2>3 DEF Circle
  <2> QED
    BY <2>4
<1> QED
  BY <1>1, Invariance, PTL

\* The statements in the order in which any handler sends them.
Position ==
  [start |-> 1, load |-> 2, snapshot |-> 3, clear |-> 4, find |-> 5, purge |-> 6, write |-> 7]

Later(p, q) == {p, q} \subseteq DOMAIN Position /\ Position[p] < Position[q]

\* The client learns the id it names, the call's clear has one row less to lock, the
\* call comes to a later statement, or it ends.
Forward(c) ==
  \/ pc[c] = "start" /\ pc'[c] = "start" /\ target[c] = None /\ target'[c] # None
  \/ /\ pc[c] = "clear" /\ pc'[c] = "clear"
     /\ Unlocked(c)' \subseteq Unlocked(c) /\ Unlocked(c)' # Unlocked(c)
  \/ Later(pc[c], pc'[c])
  \/ pc[c] \notin Ended /\ pc'[c] \in Ended

\* Where a call has come to is kept, and a clear gets no new rows to lock.
Stays(x) ==
  /\ pc'[x] = pc[x] /\ target'[x] = target[x]
  /\ pc[x] = "clear" => Unlocked(x)' \subseteq Unlocked(x)

\* One call gets forward at a time, or none when the browser uploads an object, and the
\* others stay where they are.
StepsOn ==
  \/ \E c \in Calls : Forward(c) /\ \A x \in Calls \ {c} : Stays(x)
  \/ \A x \in Calls : Stays(x)

\* The others stay.
LEMMA OthersStay ==
  ASSUME DefaultInv, NEW c \in Calls, Step(c), NEW x \in Calls \ {c}
  PROVE  Stays(x)
<1>1. Frame(c) /\ seen[x] \subseteq Ids
  BY Framed DEF DefaultInv, TypeOK
<1>2. \A r \in seen[x] : Exists(r)' => Exists(r)
  BY <1>1, GoneForGood
<1>3. Unlocked(x)' \subseteq Unlocked(x)
  BY <1>1, <1>2 DEF Frame, Unlocked
<1> QED
  BY <1>1, <1>3 DEF Frame, Stays

\* No call is set back, by itself or by others: with GoesOnTheorem, what
\* EveryCallAnswered needs besides fairness.
THEOREM AdvanceTheorem == Spec => [][StepsOn]_vars
<1>1. ASSUME DefaultInv, NEW c \in Calls, Step(c)
      PROVE  Forward(c)
  <2>1. Frame(c) /\ pc \in [Calls -> {"start"} \union Running \union Ended]
    BY <1>1, Framed DEF DefaultInv, TypeOK
  <2>2. CASE Look(c)
    <3>1. target \in [Calls -> Ids \union {None}] /\ None \notin Ids
      BY <1>1, NamesAssumption DEF DefaultInv, TypeOK
    <3> QED
      BY <2>1, <2>2, <3>1 DEF Look, Forward
  <2>3. CASE Begin(c)
    BY <2>1, <2>3 DEF Begin, Forward, Later, Position, Goto, Frame, Running, Ended
  <2>4. CASE Load(c)
    BY <2>1, <2>4 DEF Load, Forward, Later, Position, Goto, Frame, Ended, Running
  <2>5. CASE Snapshot(c)
    BY <2>1, <2>5 DEF Snapshot, Forward, Later, Position, Goto, Frame, Ended, Running
  <2>6. CASE Clear(c)
    <3>1. CASE LockRow(c)
      <4>1. /\ held \in [Calls -> SUBSET Ids]
            /\ UNCHANGED <<row, seen, pc>> /\ pc[c] = "clear"
        BY <1>1, <2>6, <3>1 DEF DefaultInv, TypeOK, Clear, LockRow
      <4>2. PICK r \in Unlocked(c) : held' = [held EXCEPT ![c] = @ \union {r}]
        BY <3>1 DEF LockRow
      <4>3. Unlocked(c)' = Unlocked(c) \ {r}
        BY <4>1, <4>2 DEF Unlocked, Exists
      <4> QED
        BY <4>1, <4>2, <4>3 DEF Forward
    <3>2. CASE ~LockRow(c)
      BY <2>1, <2>6, <3>2 DEF Clear, Forward, Later, Position, Goto, Frame, Ended, Running
    <3> QED
      BY <3>1, <3>2
  <2>7. CASE Find(c)
    BY <2>1, <2>7 DEF Find, Forward, Later, Position, Goto, Frame, Ended, Running
  <2>8. CASE Purge(c)
    BY <2>1, <2>8 DEF Purge, Forward, Later, Position, Goto, Frame, Ended, Running
  <2>9. CASE Insert(c) \/ Choose(c) \/ Amend(c) \/ DeleteRow(c) \/ Fail(c)
    BY <2>1, <2>9 DEF Insert, Choose, Amend, DeleteRow, Fail, Forward, Goto, Frame, Ended, Running
  <2> QED
    BY <1>1, <2>1, <2>2, <2>3, <2>4, <2>5, <2>6, <2>7, <2>8, <2>9 DEF Step, Proceed, Frame
<1>2. DefaultInv /\ [Next]_vars => [StepsOn]_vars
  <2> SUFFICES ASSUME DefaultInv, Next
               PROVE  StepsOn
    OBVIOUS
  <2>1. ASSUME NEW k \in Late, Upload(k)
        PROVE  StepsOn
    BY <2>1, UploadFrame DEF StepsOn, Stays, Unlocked, Exists
  <2> QED
    BY <1>1, <2>1, OthersStay DEF Next, Step, StepsOn
<1> QED
  BY <1>2, Invariance, PTL DEF Spec
=============================================================================
