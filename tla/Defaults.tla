------------------------------ MODULE Defaults ------------------------------
(***************************************************************************)
(* One default among the rows of an owner: the default address of a        *)
(* customer, the primary image of a product.  Both are chosen by an UPDATE *)
(* that clears the flag of all rows, followed by the write of one row, in  *)
(* one transaction.  The UPDATE locks the rows it sees one after the       *)
(* other, and sees no row committed after it has started; calls that wait  *)
(* in a circle for each other's rows are parted by the database.           *)
(*                                                                         *)
(* A row read again after the commit, for the answer, is left out: it      *)
(* changes nothing.                                                        *)
(*                                                                         *)
(* An image row names an object in the bucket.  The browser puts it there, *)
(* before or after the row or never, as confirm_image lists any key it is  *)
(* given; delete_image removes it before the row.  Nothing keeps two rows  *)
(* from naming one object.                                                 *)
(***************************************************************************)
EXTENDS Integers, FiniteSets

CONSTANTS
  Calls,
  Before,  \* ids of rows that may be there before the calls
  Keys,    \* s3_key values
  Key,     \* the s3_key each image row has or will get
  Late,    \* bound: the keys that are uploaded while the calls run, if at all
  None


\* A row inserted by a call is named after it.
Ids == Calls \union Before

ASSUME NamesAssumption == Calls \intersect Before = {} /\ None \notin Ids
ASSUME KeyAssumption == Key \in [Ids -> Keys] /\ Late \subseteq Keys

Flags == {"absent", "plain", "default"}
Kinds == {"address", "image"}
Asks  == [op : {"create"}, flag : {"true", "false"}]
           \union [op : {"update"}, flag : {"true", "false", "unset"}]
           \union [op : {"set", "delete"}, flag : {"unset"}]

VARIABLES
  kind,     \* what the rows are
  row,      \* the committed rows
  objects,  \* the keys the bucket has an object for
  ask,
  target,   \* the row id a client took from an earlier response
  pc,
  seen,     \* the rows that were there when a call's UPDATE started
  held,     \* the rows it has cleared so far, and locks until it ends
  copy,     \* the flag update_address has loaded
  crossed,  \* history: calls some row became the default behind the back of
  mixed,    \* history: the last call to choose a default was one of them
  uploaded, \* history: the keys the bucket had an object for at some time
  purged    \* history: calls that removed an object

vars == <<kind, row, objects, ask, target, pc, seen, held, copy, crossed, mixed, uploaded, purged>>

request == <<kind, ask, target>>
bucket  == <<objects, uploaded, purged>>

Op(c) == ask[c].op
Wants(c) == Op(c) = "set" \/ ask[c].flag = "true"

Exists(r) == row[r] # "absent"
FreeFor(c, r) == \A x \in Calls \ {c} : r \notin held[x]
Running == {"load", "snapshot", "clear", "find", "purge", "write"}
Ended   == {"done", "refused", "error", "failed"}

Goto(c, where) == pc' = [pc EXCEPT ![c] = where]
Release(c) == held' = [held EXCEPT ![c] = {}]

Init ==
  /\ kind \in Kinds
  /\ row \in [Ids -> Flags]
  /\ \A c \in Calls : row[c] = "absent"
  /\ \A r, s \in Before : row[r] = "default" /\ row[s] = "default" => r = s
  /\ objects = IF kind = "image" THEN Keys \ Late ELSE {}
  /\ uploaded = objects
  /\ ask \in [Calls -> Asks]
  /\ kind = "image" => \A c \in Calls : Op(c) # "update"
  /\ target = [c \in Calls |-> None]
  /\ pc = [c \in Calls |-> "start"]
  /\ seen = [c \in Calls |-> {}]
  /\ held = [c \in Calls |-> {}]
  /\ copy = [c \in Calls |-> "absent"]
  /\ crossed = {}
  /\ mixed = FALSE
  /\ purged = {}

-----------------------------------------------------------------------------
(* Reading                                                                 *)

Look(c) ==
  /\ pc[c] = "start" /\ target[c] = None /\ Op(c) # "create"
  /\ \E r \in Ids : Exists(r) /\ target' = [target EXCEPT ![c] = r]
  /\ UNCHANGED <<kind, row, bucket, ask, pc, seen, held, copy, crossed, mixed>>

Begin(c) ==
  /\ pc[c] = "start"
  /\ Op(c) # "create" => target[c] # None
  /\ Goto(c, IF Op(c) \in {"update", "delete"} THEN "load"
             ELSE IF Wants(c) THEN "snapshot" ELSE "write")
  /\ UNCHANGED <<request, row, bucket, seen, held, copy, crossed, mixed>>

\* update_address, delete_address and delete_image look for the row first.
Load(c) ==
  /\ pc[c] = "load"
  /\ copy' = [copy EXCEPT ![c] = row[target[c]]]
  /\ Goto(c, IF ~Exists(target[c]) THEN "refused"
             ELSE IF Wants(c) THEN "snapshot"
             ELSE IF Op(c) = "delete" /\ kind = "image" THEN "purge" ELSE "write")
  /\ UNCHANGED <<request, row, bucket, seen, held, crossed, mixed>>

-----------------------------------------------------------------------------
(* Clearing                                                                *)

\* The UPDATE's snapshot.
Snapshot(c) ==
  /\ pc[c] = "snapshot"
  /\ seen' = [seen EXCEPT ![c] = {r \in Ids : Exists(r)}]
  /\ Goto(c, "clear")
  /\ UNCHANGED <<request, row, bucket, held, copy, crossed, mixed>>

\* The rows the UPDATE has still to lock; one deleted meanwhile drops out.
Unlocked(c) == {r \in seen[c] : Exists(r)} \ held[c]

\* In whichever order its scan meets them.
LockRow(c) ==
  /\ \E r \in Unlocked(c) : FreeFor(c, r) /\ held' = [held EXCEPT ![c] = @ \union {r}]
  /\ UNCHANGED pc

\* Seeded bug: rows locked by others are skipped.
ClearSkipping(c) ==
  /\ pc[c] = "clear"
  /\ \/ LockRow(c)
     \/ /\ \A r \in Unlocked(c) : ~FreeFor(c, r)
        /\ Goto(c, IF Op(c) = "set" THEN "find" ELSE "write")
        /\ UNCHANGED held
  /\ UNCHANGED <<request, row, bucket, seen, copy, crossed, mixed>>

\* Seeded bug: the clear is committed on its own.
ClearCommits(c) ==
  /\ pc[c] = "clear"
  /\ \/ LockRow(c) /\ UNCHANGED row
     \/ /\ Unlocked(c) = {}
        /\ row' = [r \in Ids |-> IF r \in held[c] THEN "plain" ELSE row[r]]
        /\ Goto(c, IF Op(c) = "set" THEN "find" ELSE "write")
        /\ Release(c)
  /\ UNCHANGED <<request, bucket, seen, copy, crossed, mixed>>

\* The UPDATE locks row after row, waiting where another call holds one, and is
\* through when it has all.
Clear(c) ==
  /\ pc[c] = "clear"
  /\ \/ LockRow(c)
     \/ /\ Unlocked(c) = {}
        /\ Goto(c, IF Op(c) = "set" THEN "find" ELSE "write")
        /\ UNCHANGED held
  /\ UNCHANGED <<request, row, bucket, seen, copy, crossed, mixed>>

\* set_default and set_primary_image look for the row only now; a 404 closes
\* the session, which undoes the clear.
Find(c) ==
  /\ pc[c] = "find"
  /\ \/ Exists(target[c]) /\ Goto(c, "write") /\ UNCHANGED held
     \/ ~Exists(target[c]) /\ Goto(c, "refused") /\ Release(c)
  /\ UNCHANGED <<request, row, bucket, seen, copy, crossed, mixed>>

-----------------------------------------------------------------------------
(* Writing                                                                 *)

\* Whoever clears without having seen r, or has loaded r's flag to switch it
\* off, is crossed when r becomes the default.
Behind(x, r) ==
  \/ Wants(x) /\ pc[x] \in {"clear", "find", "write"} /\ r \notin seen[x]
  \/ ask[x].flag = "false" /\ Op(x) = "update" /\ pc[x] = "write" /\ r = target[x]

\* Seeded bug: the rows that were cleared are not written.
MakeDefaultOnly(c, r) ==
  /\ row' = [row EXCEPT ![r] = "default"]
  /\ crossed' = crossed \union {x \in Calls \ {c} : Behind(x, r)}
  /\ mixed' = (c \in crossed)

\* The commit that makes r the default, and every row c has cleared a plain one.
MakeDefault(c, r) ==
  /\ row' = [s \in Ids |-> IF s = r THEN "default"
                           ELSE IF s \in held[c] THEN "plain" ELSE row[s]]
  /\ crossed' = crossed \union {x \in Calls \ {c} : Behind(x, r)}
  /\ mixed' = (c \in crossed)

\* Seeded bug: the transaction stays open.
InsertKeepsLocks(c) ==
  /\ pc[c] = "write" /\ Op(c) = "create"
  /\ \/ Wants(c) /\ MakeDefault(c, c)
     \/ ~Wants(c) /\ row' = [row EXCEPT ![c] = "plain"] /\ UNCHANGED <<crossed, mixed>>
  /\ Goto(c, "done")
  /\ UNCHANGED <<request, bucket, seen, held, copy>>

Insert(c) ==
  /\ pc[c] = "write" /\ Op(c) = "create"
  /\ \/ Wants(c) /\ MakeDefault(c, c)
     \/ ~Wants(c) /\ row' = [row EXCEPT ![c] = "plain"] /\ UNCHANGED <<crossed, mixed>>
  /\ Goto(c, "done")
  /\ Release(c)
  /\ UNCHANGED <<request, bucket, seen, copy>>

\* An UPDATE of a row that is gone raises StaleDataError.
Choose(c) ==
  /\ pc[c] = "write" /\ Op(c) \in {"set", "update"} /\ Wants(c)
  /\ FreeFor(c, target[c])
  /\ \/ Exists(target[c]) /\ MakeDefault(c, target[c]) /\ Goto(c, "done")
     \/ ~Exists(target[c]) /\ UNCHANGED <<row, crossed, mixed>> /\ Goto(c, "error")
  /\ Release(c)
  /\ UNCHANGED <<request, bucket, seen, copy>>

\* Seeded bug: only values that are true are set.
AmendTruthy(c) ==
  /\ pc[c] = "write" /\ Op(c) = "update" /\ ~Wants(c)
  /\ FreeFor(c, target[c])
  /\ Goto(c, IF Exists(target[c]) THEN "done" ELSE "error")
  /\ UNCHANGED <<request, row, bucket, seen, held, copy, crossed, mixed>>

\* Only what differs from the copy is written.
Amend(c) ==
  /\ pc[c] = "write" /\ Op(c) = "update" /\ ~Wants(c)
  /\ FreeFor(c, target[c])
  /\ row' = IF Exists(target[c]) /\ ask[c].flag = "false" /\ copy[c] = "default"
              THEN [row EXCEPT ![target[c]] = "plain"] ELSE row
  /\ Goto(c, IF Exists(target[c]) THEN "done" ELSE "error")
  /\ UNCHANGED <<request, bucket, seen, held, copy, crossed, mixed>>

\* The image's object goes first, in the bucket and for good.
Purge(c) ==
  /\ pc[c] = "purge"
  /\ objects' = objects \ {Key[target[c]]}
  /\ purged' = purged \union {c}
  /\ Goto(c, "write")
  /\ UNCHANGED <<request, row, uploaded, seen, held, copy, crossed, mixed>>

\* Seeded bug: the DELETE is not committed.
DeleteRowLazy(c) ==
  /\ pc[c] = "write" /\ Op(c) = "delete"
  /\ FreeFor(c, target[c])
  /\ Goto(c, "done")
  /\ UNCHANGED <<request, row, bucket, seen, held, copy, crossed, mixed>>

\* The DELETE of a row that is gone only warns.
DeleteRow(c) ==
  /\ pc[c] = "write" /\ Op(c) = "delete"
  /\ FreeFor(c, target[c])
  /\ row' = [row EXCEPT ![target[c]] = "absent"]
  /\ Goto(c, "done")
  /\ UNCHANGED <<request, bucket, seen, held, copy, crossed, mixed>>

\* The browser's PUT to the URL that get_upload_url has signed.
Upload(k) ==
  /\ kind = "image" /\ k \notin objects
  /\ objects' = objects \union {k}
  /\ uploaded' = uploaded \union {k}
  /\ UNCHANGED <<request, row, pc, seen, held, copy, crossed, mixed, purged>>

\* The worker dies, the bucket or the database answers with an error: the
\* transaction is rolled back, the object stays removed.
Fail(c) ==
  /\ pc[c] \in Running
  /\ Goto(c, "failed")
  /\ Release(c)
  /\ UNCHANGED <<request, row, bucket, seen, copy, crossed, mixed>>

Proceed(c) ==
  \/ Load(c) \/ Snapshot(c) \/ Clear(c) \/ Find(c)
  \/ Insert(c) \/ Choose(c) \/ Amend(c) \/ Purge(c) \/ DeleteRow(c)

Next ==
  \/ \E c \in Calls : Look(c) \/ Begin(c) \/ Proceed(c) \/ Fail(c)
  \/ \E k \in Late : Upload(k)

\* y holds a row that the statement of x needs.
WaitsFor(x, y) ==
  /\ x # y
  /\ \/ pc[x] = "clear" /\ Unlocked(x) \intersect held[y] # {}
     \/ pc[x] = "write" /\ Op(x) # "create" /\ target[x] \in held[y]

\* Calls none of which can go on before another of them has ended.
Circle(S) == S # {} /\ \A x \in S : \E y \in S : WaitsFor(x, y)

\* The database finds a circle and ends one of those that are waited for.
PartCircle ==
  \E S \in SUBSET Calls : Circle(S) /\ \E x, y \in S : WaitsFor(x, y) /\ Fail(y)

\* A request that has begun is worked off: its thread runs, and the database
\* grants a lock that is free and parts those who wait in a circle.
Fairness == (\A c \in Calls : WF_vars(Proceed(c))) /\ WF_vars(PartCircle)

Spec == Init /\ [][Next]_vars /\ Fairness
-----------------------------------------------------------------------------
(* Properties                                                              *)

\* Every variable keeps its type, and no two calls lock one row.
TypeOK ==
  /\ kind \in Kinds
  /\ row \in [Ids -> Flags]
  /\ objects \subseteq uploaded
  /\ uploaded \subseteq Keys
  /\ ask \in [Calls -> Asks]
  /\ target \in [Calls -> Ids \union {None}]
  /\ pc \in [Calls -> {"start"} \union Running \union Ended]
  /\ seen \in [Calls -> SUBSET Ids]
  /\ held \in [Calls -> SUBSET Ids]
  /\ \A x, y \in Calls : x # y => held[x] \intersect held[y] = {}
  /\ copy \in [Calls -> Flags]
  /\ crossed \subseteq Calls
  /\ mixed \in BOOLEAN
  /\ purged \subseteq Calls

\* There is at most one default, unless the last call to choose one had cleared
\* the rows it saw while another row was becoming the default.
OneDefault ==
  ~mixed => \A r, s \in Ids : row[r] = "default" /\ row[s] = "default" => r = s

LeavesDefault ==
  (\E r \in Ids : row[r] = "default") /\ (\A r \in Ids : row'[r] # "default")
    => \E c \in Calls : /\ pc[c] = "write" /\ pc'[c] = "done" /\ ~Wants(c)
                        /\ row[target[c]] = "default"

\* Only a call that deletes the default or switches it off leaves the owner
\* without one: a 404, an error or a crash on the way to another default does not.
DefaultKept == [][LeavesDefault]_vars

SwitchesOff ==
  \A c \in Calls :
    pc[c] = "write" /\ pc'[c] = "done" /\ Op(c) = "update" /\ ask[c].flag = "false"
      => row'[target[c]] = "plain" \/ c \in crossed

\* Whoever switches an address's flag off has switched it off, unless it became
\* the default in between.
UnsetTaken == [][SwitchesOff]_vars

\* An image that is listed and whose object was uploaded and is gone is being
\* deleted, or its deletion failed half-way, or a row that was deleted, or whose
\* deletion failed, named the same object.
ImageServed ==
  \A r \in Ids :
    kind = "image" /\ Exists(r) /\ Key[r] \in uploaded \ objects =>
      \E c \in purged : Key[target[c]] = Key[r] /\ (target[c] = r => pc[c] \in {"write", "failed"})

\* Calls that deadlock wait for clears that have met half-way, and for nobody else:
\* although a call goes on to write a row after its clear has locked others, and rows
\* come and go in between, no circle passes through a write.
OnlyClearsDeadlock ==
  \A S \in SUBSET Calls :
    Circle(S) => \A x \in S : \E y \in S : WaitsFor(x, y) /\ pc[y] = "clear"

\* Every request that has begun comes to an end: no lock outlives its call, and
\* clears that deadlock are parted.
EveryCallAnswered == \A c \in Calls : pc[c] \in Running ~> pc[c] \in Ended
=============================================================================
