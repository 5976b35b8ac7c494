----------------------------- MODULE UniqueRows -----------------------------
(***************************************************************************)
(* The handlers that create and edit a row of their own: accounts, reviews,*)
(* categories and tags, coupons, variants, products.  Each loads the row,  *)
(* checks what it has loaded, commits, reads the row back and, when an     *)
(* administrator called it, commits an audit entry.  There are no locks:   *)
(* what a check has seen may be gone at the commit.                        *)
(*                                                                         *)
(* A row has the column its table keeps unique (e-mail, user and product,  *)
(* name, code, SKU) and one other; categories and tags also keep a slug    *)
(* unique, which no handler checks.  Columns no handler relates are kinds  *)
(* of their own: is_active and the password of an account, is_featured and *)
(* is_active of a product.                                                 *)
(***************************************************************************)
EXTENDS Integers, FiniteSets

CONSTANTS
  Calls,
  Before,  \* ids of rows that may be there before the calls
  Keys,
  Slugs,
  Carted,  \* variants that sit in a cart
  MaxUnfit,  \* bound: how many calls may have a body that cannot be written
  None

\* A row inserted by a call is named after it.
Ids == Calls \union Before

ASSUME NamesAssumption == Calls \intersect Before = {} /\ None \notin Ids \union Keys \union Slugs

Data == {"on", "off"}
Flip(d) == IF d = "on" THEN "off" ELSE "on"

Kinds     == {"user", "password", "review", "category", "coupon", "variant",
              "featured", "listed"}
Unindexed == {"password", "featured", "listed"}
Unchecked == {"category", "coupon"}

Offers(k) ==
  CASE k = "user"     -> {"create", "rename", "set"}
    [] k = "password" -> {"change"}
    [] k = "review"   -> {"create", "set", "delete"}
    [] k = "category" -> {"create", "rename", "delete"}
    [] k = "coupon"   -> {"create", "rename", "set", "delete"}
    [] k = "variant"  -> {"create", "rename", "set", "delete"}
    [] k = "featured" -> {"create", "set", "toggle"}
    [] k = "listed"   -> {"set", "hide", "bulk"}

\* A body is fit when what it names besides is there (the product of a review, the
\* category of a product) and no column refuses its values.
Asks == [op : {"create", "rename"}, key : Keys, slug : Slugs \union {None},
         data : {"on"}, old : {"on"}, fit : BOOLEAN]
          \union [op : {"set"}, key : {None}, slug : {None},
                  data : Data, old : {"on"}, fit : BOOLEAN]
          \union [op : {"change"}, key : {None}, slug : {None},
                  data : Data, old : Data, fit : BOOLEAN]
          \union [op : {"bulk"}, key : {None}, slug : {None},
                  data : Data, old : {"on"}, fit : {TRUE}]
          \union [op : {"hide"}, key : {None}, slug : {None},
                  data : {"off"}, old : {"on"}, fit : {TRUE}]
          \union [op : {"toggle", "delete"}, key : {None}, slug : {None},
                  data : {"on"}, old : {"on"}, fit : {TRUE}]

VARIABLES
  kind,     \* the table, or the column of it
  key,      \* the unique column of each row, None where there is no row
  slug,     \* the other unique column, of categories and tags
  data,     \* the column that is not unique
  ask,
  target,   \* the row id a client took from an earlier response
  pc,
  copy,     \* the row as the session has loaded it
  fresh,    \* the column a call asks for, as read back after its commit
  trail,    \* the audit entry of each call
  was,      \* history: that column right before the commit of a call
  became,   \*          and right after it
  crossed   \* history: calls whose row or key another call changed meanwhile

vars == <<kind, key, slug, data, ask, target, pc, copy, fresh, trail, was, became, crossed>>

rows    == <<key, slug, data>>
request == <<kind, ask, target>>
history == <<was, became, crossed>>

Op(c) == ask[c].op
Exists(r) == key[r] # None
Running == {"load", "again", "check", "write", "refresh", "record", "respond"}
Ended   == {"done", "refused", "error", "failed"}

Goto(c, where) == pc' = [pc EXCEPT ![c] = where]

\* A new account is active, a new review waits for approval.
NewData == IF kind \in {"review", "featured"} THEN "off" ELSE "on"

Audited(c) ==
  \/ kind \in {"coupon", "variant", "featured", "listed"}
  \/ kind = "user" /\ Op(c) = "set"

\* What the table says about the body: only categories and tags have slugs, and
\* (de)activating an account takes no body.  A rename that leaves a column out is one
\* that names what it will load.
Formed(c) ==
  /\ Op(c) \in Offers(kind)
  /\ ask[c].slug # None <=> kind = "category" /\ Op(c) \in {"create", "rename"}
  /\ kind = "user" /\ Op(c) = "set" => ask[c].fit

\* The column of row r that c asks for.
Column(c, r) == IF Op(c) \in {"create", "rename"} THEN key[r] ELSE data[r]

\* Creating starts with the check, which products do without.
FirstStep(c) ==
  IF Op(c) # "create" THEN "load" ELSE IF kind \in Unindexed THEN "write" ELSE "check"

Init ==
  /\ kind \in Kinds
  /\ key \in [Ids -> Keys \union {None}]
  /\ \A c \in Calls : key[c] = None
  /\ kind \notin Unindexed =>
       \A r, s \in Before : r # s /\ key[r] = key[s] => key[r] = None
  /\ slug \in [Ids -> Slugs \union {None}]
  /\ \A r \in Ids : slug[r] # None <=> kind = "category" /\ key[r] # None
  /\ \A r, s \in Before : r # s /\ slug[r] = slug[s] => slug[r] = None
  /\ data \in [Ids -> Data]
  /\ \A r \in Ids : key[r] = None => data[r] = "on"
  /\ ask \in [Calls -> Asks]
  /\ \A c \in Calls : Formed(c)
  /\ Cardinality({c \in Calls : ~ask[c].fit}) =< MaxUnfit
  /\ target = [c \in Calls |-> IF Op(c) = "create" THEN c ELSE None]
  /\ pc = [c \in Calls |-> FirstStep(c)]
  /\ copy = [c \in Calls |-> [key |-> None, slug |-> None, data |-> "on"]]
  /\ fresh = [c \in Calls |-> None]
  /\ trail = [c \in Calls |-> None]
  /\ was = [c \in Calls |-> None]
  /\ became = [c \in Calls |-> None]
  /\ crossed = {}

-----------------------------------------------------------------------------
(* Reading and checking                                                    *)

Look(c) ==
  /\ pc[c] = "load" /\ target[c] = None
  /\ \E r \in Ids : Exists(r) /\ target' = [target EXCEPT ![c] = r]
  /\ UNCHANGED <<kind, ask, rows, pc, copy, fresh, trail, history>>

\* Only an active account may rename itself, and a new password takes the old one.
Load(c) ==
  /\ pc[c] = "load" /\ target[c] # None
  /\ copy' = [copy EXCEPT ![c] = [key  |-> key[target[c]], slug |-> slug[target[c]],
                                   data |-> data[target[c]]]]
  /\ Goto(c, IF \/ ~Exists(target[c])
                \/ kind = "user" /\ Op(c) = "rename" /\ data[target[c]] = "off"
                \/ Op(c) = "change" /\ data[target[c]] # ask[c].old
               THEN "refused"
             ELSE IF kind = "variant" THEN "again"
             ELSE IF Op(c) = "rename" /\ kind \notin Unchecked /\ ask[c].key # key[target[c]]
               THEN "check"
             ELSE "write")
  /\ UNCHANGED <<request, rows, fresh, trail, history>>

\* Somebody else's review is not edited or deleted.
Forbidden(c) ==
  /\ pc[c] = "load" /\ target[c] # None /\ kind = "review"
  /\ Goto(c, "refused")
  /\ UNCHANGED <<request, rows, copy, fresh, trail, history>>

\* The router has loaded the variant, the service looks for it once more; the
\* session keeps its first copy.
LoadAgain(c) ==
  /\ pc[c] = "again"
  /\ Goto(c, IF ~Exists(target[c]) THEN "refused"
             ELSE IF Op(c) = "rename" /\ ask[c].key # copy[c].key THEN "check"
             ELSE "write")
  /\ UNCHANGED <<request, rows, copy, fresh, trail, history>>

\* Seeded bug: a rename is checked, a creation is not.
CheckRenameOnly(c) ==
  /\ pc[c] = "check"
  /\ Goto(c, IF Op(c) = "rename" /\ \E r \in Ids : key[r] = ask[c].key
             THEN "refused" ELSE "write")
  /\ UNCHANGED <<request, rows, copy, fresh, trail, history>>

Check(c) ==
  /\ pc[c] = "check"
  /\ Goto(c, IF \E r \in Ids : key[r] = ask[c].key THEN "refused" ELSE "write")
  /\ UNCHANGED <<request, rows, copy, fresh, trail, history>>

-----------------------------------------------------------------------------
(* Committing                                                              *)

\* The unique indexes let c write k, and the slug it asks for.
KeyFree(c, k) == kind \in Unindexed \/ \A r \in Ids \ {target[c]} : key[r] # k
SlugFree(c)   == ask[c].slug = None \/ \A r \in Ids \ {target[c]} : slug[r] # ask[c].slug

\* Which columns of its row a call depends on; the slug goes with the key.
Uses(c) == CASE Op(c) \in {"create", "rename"} -> {"key"}
             [] Op(c) = "delete" -> {}
             [] OTHER -> {"data"}

\* Calls that miss a change of column f of row r, or that key k is taken.
Missing(c, r, f, k) ==
  {x \in Calls \ {c} :
     \/ target[x] = r /\ f \in Uses(x) /\ pc[x] \in {"again", "check", "write", "refresh"}
     \/ pc[x] = "write" /\ f = "key" /\ Op(x) \in {"create", "rename"} /\ ask[x].key = k}

\* Where a call goes after its commit: the handlers that return nothing do not
\* read the row again.
After(c) ==
  IF Op(c) \notin {"hide", "bulk", "delete", "change"} THEN "refresh"
  ELSE IF Audited(c) THEN "record" ELSE "done"

Insert(c) ==
  /\ pc[c] = "write" /\ Op(c) = "create"
  /\ \/ /\ ask[c].fit /\ KeyFree(c, ask[c].key) /\ SlugFree(c)
        /\ key' = [key EXCEPT ![c] = ask[c].key]
        /\ slug' = [slug EXCEPT ![c] = ask[c].slug]
        /\ data' = [data EXCEPT ![c] = NewData]
        /\ crossed' = crossed \union Missing(c, c, "key", ask[c].key)
        /\ became' = [became EXCEPT ![c] = ask[c].key]
        /\ Goto(c, "refresh")
     \/ /\ ~(ask[c].fit /\ KeyFree(c, ask[c].key) /\ SlugFree(c))
        /\ Goto(c, "error")
        /\ UNCHANGED <<rows, became, crossed>>
  /\ UNCHANGED <<request, copy, fresh, trail, was>>

\* An UPDATE names only what differs from the copy; without one, nothing is sent.
Renames(c) == ask[c].key # copy[c].key
Reslugs(c) == ask[c].slug # copy[c].slug

Accepted(c) ==
  /\ ask[c].fit /\ Exists(target[c])
  /\ Renames(c) => KeyFree(c, ask[c].key)
  /\ Reslugs(c) => SlugFree(c)

Rename(c) ==
  /\ pc[c] = "write" /\ Op(c) = "rename"
  /\ \/ /\ (Renames(c) \/ Reslugs(c)) /\ Accepted(c)
        /\ key' = [key EXCEPT ![target[c]] = IF Renames(c) THEN ask[c].key ELSE @]
        /\ slug' = [slug EXCEPT ![target[c]] = IF Reslugs(c) THEN ask[c].slug ELSE @]
        /\ crossed' = crossed \union Missing(c, target[c], "key", ask[c].key)
        /\ Goto(c, "refresh")
     \/ /\ (Renames(c) \/ Reslugs(c) \/ ~ask[c].fit) /\ ~Accepted(c)
        /\ Goto(c, "error")
        /\ UNCHANGED <<key, slug, crossed>>
     \/ /\ ~Renames(c) /\ ~Reslugs(c) /\ ask[c].fit
        /\ Goto(c, "refresh")
        /\ UNCHANGED <<key, slug, crossed>>
  /\ was' = [was EXCEPT ![c] = key[target[c]]]
  /\ became' = [became EXCEPT ![c] = key'[target[c]]]
  /\ UNCHANGED <<request, data, copy, fresh, trail>>

\* The value the other column is set to.
Value(c) == IF Op(c) = "toggle" THEN Flip(copy[c].data) ELSE ask[c].data

\* Seeded bug: the whole row is written back.
SetWhole(c) ==
  /\ pc[c] = "write" /\ Op(c) \in {"set", "toggle", "change", "hide", "bulk"}
  /\ \/ /\ Exists(target[c])
        /\ data' = [data EXCEPT ![target[c]] = Value(c)]
        /\ key' = [key EXCEPT ![target[c]] = copy[c].key]
        /\ crossed' = crossed \union
             IF Value(c) = data[target[c]] THEN {} ELSE Missing(c, target[c], "data", None)
        /\ Goto(c, After(c))
     \/ /\ ~Exists(target[c])
        /\ Goto(c, "error")
        /\ UNCHANGED <<key, data, crossed>>
  /\ was' = [was EXCEPT ![c] = data[target[c]]]
  /\ became' = [became EXCEPT ![c] = data'[target[c]]]
  /\ UNCHANGED <<request, slug, copy, fresh, trail>>

Set(c) ==
  /\ pc[c] = "write" /\ Op(c) \in {"set", "toggle", "change", "hide", "bulk"}
  /\ \/ /\ ask[c].fit /\ Value(c) # copy[c].data /\ Exists(target[c])
        /\ data' = [data EXCEPT ![target[c]] = Value(c)]
        /\ crossed' = crossed \union
             IF Value(c) = data[target[c]] THEN {} ELSE Missing(c, target[c], "data", None)
        /\ Goto(c, After(c))
     \/ /\ ~ask[c].fit \/ (Value(c) # copy[c].data /\ ~Exists(target[c]))
        /\ Goto(c, "error")
        /\ UNCHANGED <<data, crossed>>
     \/ /\ ask[c].fit /\ Value(c) = copy[c].data
        /\ Goto(c, After(c))
        /\ UNCHANGED <<data, crossed>>
  /\ was' = [was EXCEPT ![c] = data[target[c]]]
  /\ became' = [became EXCEPT ![c] = data'[target[c]]]
  /\ UNCHANGED <<request, key, slug, copy, fresh, trail>>

\* The DELETE of a row that is gone only warns.  A variant in a cart cannot be
\* deleted: the session nulls a column that may not be null.
Delete(c) ==
  /\ pc[c] = "write" /\ Op(c) = "delete"
  /\ \/ /\ ~(kind = "variant" /\ target[c] \in Carted)
        /\ key' = [key EXCEPT ![target[c]] = None]
        /\ slug' = [slug EXCEPT ![target[c]] = None]
        /\ crossed' = crossed \union
             {x \in Calls \ {c} : target[x] = target[c] /\ pc[x] \in Running \ {"load"}}
        /\ Goto(c, After(c))
     \/ /\ kind = "variant" /\ target[c] \in Carted
        /\ Goto(c, "error")
        /\ UNCHANGED <<key, slug, crossed>>
  /\ UNCHANGED <<request, data, copy, fresh, trail, was, became>>

-----------------------------------------------------------------------------
(* Answering                                                               *)

\* Seeded bug: the row is not read again.
RefreshNot(c) ==
  /\ pc[c] = "refresh"
  /\ fresh' = [fresh EXCEPT ![c] = IF Op(c) \in {"create", "rename"} THEN copy[c].key
                                   ELSE copy[c].data]
  /\ Goto(c, IF Audited(c) THEN "record" ELSE "done")
  /\ UNCHANGED <<request, rows, copy, trail, history>>

\* A row that cannot be read again is an error, after the commit.
Refresh(c) ==
  /\ pc[c] = "refresh"
  /\ fresh' = [fresh EXCEPT ![c] = Column(c, target[c])]
  /\ Goto(c, IF ~Exists(target[c]) THEN "error" ELSE IF Audited(c) THEN "record" ELSE "done")
  /\ UNCHANGED <<request, rows, copy, trail, history>>

\* What the entry says the call has changed.  delete_product and the bulk calls
\* do not look at what was there, toggle_featured infers it.
Entry(c) ==
  CASE Op(c) = "create"           -> [before |-> None, after |-> fresh[c]]
    [] Op(c) = "rename"           -> [before |-> copy[c].key, after |-> fresh[c]]
    [] Op(c) = "set"              -> [before |-> copy[c].data, after |-> fresh[c]]
    [] Op(c) = "toggle"           -> [before |-> Flip(fresh[c]), after |-> fresh[c]]
    [] Op(c) \in {"hide", "bulk"} -> [before |-> Flip(ask[c].data), after |-> ask[c].data]
    [] OTHER                      -> [before |-> None, after |-> None]

\* Seeded bug: a failure of record() is not swallowed.
RecordRaises(c) ==
  /\ pc[c] = "record"
  /\ \/ trail' = [trail EXCEPT ![c] = Entry(c)] /\ Goto(c, "respond")
     \/ UNCHANGED trail /\ Goto(c, "error")
  /\ UNCHANGED <<request, rows, copy, fresh, history>>

\* record() has its own transaction and swallows its failure.
Record(c) ==
  /\ pc[c] = "record"
  /\ \/ trail' = [trail EXCEPT ![c] = Entry(c)]
     \/ UNCHANGED trail
  /\ Goto(c, IF Op(c) \in {"hide", "bulk", "delete"} THEN "done" ELSE "respond")
  /\ UNCHANGED <<request, rows, copy, fresh, history>>

\* That transaction has expired the row, so the response reads it once more.
Respond(c) ==
  /\ pc[c] = "respond"
  /\ Goto(c, IF Exists(target[c]) THEN "done" ELSE "error")
  /\ UNCHANGED <<request, rows, copy, fresh, trail, history>>

\* The worker dies, or the database does not answer.
Fail(c) ==
  /\ pc[c] \in Running
  /\ Goto(c, "failed")
  /\ UNCHANGED <<request, rows, copy, fresh, trail, history>>

Next ==
  \E c \in Calls :
    \/ Look(c) \/ Load(c) \/ Forbidden(c) \/ LoadAgain(c) \/ Check(c)
    \/ Insert(c) \/ Rename(c) \/ Set(c) \/ Delete(c)
    \/ Refresh(c) \/ Record(c) \/ Respond(c) \/ Fail(c)

Spec == Init /\ [][Next]_vars

-----------------------------------------------------------------------------
(* Properties                                                              *)

\* Whatever a column holds.
Values == Keys \union Data \union {None}

\* Every variable keeps its type, and no two rows of a table share its key.
TypeOK ==
  /\ kind \in Kinds
  /\ key \in [Ids -> Keys \union {None}]
  /\ slug \in [Ids -> Slugs \union {None}]
  /\ data \in [Ids -> Data]
  /\ kind \notin Unindexed => \A r, s \in Ids : r # s /\ key[r] = key[s] => key[r] = None
  /\ \A r, s \in Ids : r # s /\ slug[r] = slug[s] => slug[r] = None
  /\ ask \in [Calls -> Asks]
  /\ \A c \in Calls : Formed(c)
  /\ target \in [Calls -> Ids \union {None}]
  /\ pc \in [Calls -> Running \union Ended]
  /\ copy \in [Calls -> [key : Keys \union {None}, slug : Slugs \union {None}, data : Data]]
  /\ fresh \in [Calls -> Values]
  /\ trail \in [Calls -> [before : Values, after : Values] \union {None}]
  /\ was \in [Calls -> Values]
  /\ became \in [Calls -> Values]
  /\ crossed \subseteq Calls

\* What makes a call fail without the help of others: categories, tags and coupons are
\* renamed, and slugs written, without a look at who has them; a body that cannot be
\* written is found out at the commit; a variant in a cart is not deleted.
LoneCause(c) ==
  \/ Op(c) = "rename" /\ kind \in Unchecked /\ ~KeyFree(c, ask[c].key)
  \/ ~SlugFree(c)
  \/ ~ask[c].fit
  \/ Op(c) = "delete" /\ kind = "variant" /\ target[c] \in Carted

Errs(c) == pc[c] # "error" /\ pc'[c] = "error"

ErrsForCause == \A c \in Calls : Errs(c) => c \in crossed \/ LoneCause(c)

\* Apart from these, an error needs another call that changed the row or took the key
\* between two steps of this one: every check that is made holds until the commit,
\* and every row that was loaded stays, unless somebody else commits in between.
ErrorForCause == [][ErrsForCause]_vars

\* Whoever gets a 500 has changed nothing, or a row that somebody else has deleted
\* since: the request can be sent again.  (Only a crash may hide a commit.)
ErrorLeavesNothing ==
  \A c \in Calls :
    pc[c] = "error" => ~Exists(target[c]) \/ became[c] = was[c]

\* What a call would do to the rows if it ran alone, and when it might.
Effect(c) ==
  CASE Op(c) = "create" ->
         /\ key' = [key EXCEPT ![c] = ask[c].key]
         /\ slug' = [slug EXCEPT ![c] = ask[c].slug]
         /\ data' = [data EXCEPT ![c] = NewData]
    [] Op(c) = "rename" ->
         /\ key' = [key EXCEPT ![target[c]] = ask[c].key]
         /\ slug' = [slug EXCEPT ![target[c]] = ask[c].slug]
         /\ data' = data
    [] Op(c) = "toggle" ->
         /\ UNCHANGED <<key, slug>>
         /\ data' = [data EXCEPT ![target[c]] = Flip(data[target[c]])]
    [] Op(c) = "delete" ->
         /\ key' = [key EXCEPT ![target[c]] = None]
         /\ slug' = [slug EXCEPT ![target[c]] = None]
         /\ data' = data
    [] OTHER ->
         /\ UNCHANGED <<key, slug>>
         /\ data' = [data EXCEPT ![target[c]] = ask[c].data]

Permitted(c) ==
  /\ Op(c) # "create" => Exists(target[c])
  /\ Op(c) = "change" => data[target[c]] = ask[c].old
  /\ Op(c) \in {"create", "rename"} => KeyFree(c, ask[c].key) /\ SlugFree(c)
  /\ ask[c].fit

Commits(c) == pc[c] = "write" /\ pc'[c] \in {"refresh", "record", "done"}

CommitsAlone ==
  \A c \in Calls : Commits(c) /\ c \notin crossed => Permitted(c) /\ Effect(c)

\* A commit that nobody crossed does what the call would do alone at that moment,
\* checks included: in particular no toggle is lost, no edit of one column undoes
\* an edit of the other, and a password yields only to the one that knows it.
AtOnce == [][CommitsAlone]_vars

\* The entry of a call nobody crossed says what its commit changed.  Only deleting
\* a product and the bulk calls may claim a change that was none.
EntryExact ==
  \A c \in Calls :
    trail[c] # None /\ c \notin crossed =>
      /\ Op(c) # "delete" => trail[c].after = became[c]
      /\ \/ trail[c].before = was[c]
         \/ Op(c) \in {"hide", "bulk"} /\ was[c] = became[c]
=============================================================================
