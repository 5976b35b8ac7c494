----------------------------- MODULE CatalogCache -----------------------------
(***************************************************************************)
(* core/cache.py between the public catalogue endpoints and the admin      *)
(* endpoints: one cached response, the namespace version its key carries,  *)
(* and the database (or its replica) behind it.  Keys of different         *)
(* responses share nothing but the version, so one response is enough.     *)
(*                                                                         *)
(* Content is the number of catalogue writes it shows.  A loader runs      *)
(* several SELECTs; its content is what the first of them saw.  One action *)
(* is one Redis command or pipeline, or one database transaction.          *)
(***************************************************************************)
EXTENDS Naturals, FiniteSets

CONSTANTS
  Readers,     \* worker threads serving the public catalogue endpoints
  Writes,      \* admin product and variant writes, each made once
  Renames,     \* admin category and tag writes, each made once
  Replicated,  \* whether DATABASE_REPLICA_URL is set
  RedisFails,  \* whether any other Redis command may fail
  VersionLost  \* whether the version counter may be evicted or its read fail

ASSUME WritesAssumption == Writes \intersect Renames = {}
ASSUME FaultsAssumption == {Replicated, RedisFails, VersionLost} \subseteq BOOLEAN

VARIABLES
  db,        \* catalogue writes committed on the primary
  replica,   \* catalogue writes the replica has applied
  version,   \* Redis: catalog:version, 0 when the key is missing
  entries,   \* Redis: the cached response, [ver, val] for each version
  rpc,       \* where each reader is
  ver,       \* the version in the reader's key
  val,       \* the content the reader has
  wpc,       \* where each write is
  wrote,     \* the content its commit made
  bumped,    \* history: the newest content the version was bumped for
  floor,     \* history: bumped when the read began
  astray     \* history: the counter was lost or a key built without it, or a
             \* loader read a replica that lacked a write announced before

vars == <<db, replica, version, entries, rpc, ver, val, wpc, wrote,
          bumped, floor, astray>>

Admins == Writes \union Renames

NewestOf(m, n) == IF m > n THEN m ELSE n

\* _version(): a missing counter reads as 1.
Version == IF version = 0 THEN 1 ELSE version

Cached(v) == {e \in entries : e.ver = v}

Init ==
  /\ db = 0 /\ replica = 0
  /\ version = 0
  /\ entries = {}
  /\ rpc = [r \in Readers |-> "start"]
  /\ ver = [r \in Readers |-> 1]
  /\ val = [r \in Readers |-> 0]
  /\ wpc = [w \in Admins |-> "start"]
  /\ wrote = [w \in Admins |-> 0]
  /\ bumped = 0
  /\ floor = [r \in Readers |-> 0]
  /\ astray = FALSE

-----------------------------------------------------------------------------
(* A catalogue read: build_key, then get_or_set.                           *)

Begin(r, v) ==
  /\ rpc[r] = "start"
  /\ ver' = [ver EXCEPT ![r] = v]
  /\ rpc' = [rpc EXCEPT ![r] = "keyed"]
  /\ floor' = [floor EXCEPT ![r] = bumped]
  /\ UNCHANGED <<db, replica, version, entries, val, wpc, wrote, bumped>>

BuildKey(r) == Begin(r, Version) /\ UNCHANGED astray

\* The fallback is this process's local counter, which stays at 1 while the
\* process has a client.
BuildKeyFails(r) ==
  /\ VersionLost
  /\ Begin(r, 1)
  /\ astray' = (astray \/ Version # 1)

Answer(r, content) ==
  /\ val' = [val EXCEPT ![r] = content]
  /\ rpc' = [rpc EXCEPT ![r] = "answered"]

Hit(r) ==
  /\ rpc[r] = "keyed"
  /\ \E e \in Cached(ver[r]) : Answer(r, e.val)
  /\ UNCHANGED <<db, replica, version, entries, ver, wpc, wrote, bumped, floor, astray>>

Miss(r) ==
  /\ rpc[r] = "keyed"
  /\ Cached(ver[r]) = {}
  /\ rpc' = [rpc EXCEPT ![r] = "missed"]
  /\ UNCHANGED <<db, replica, version, entries, ver, val, wpc, wrote, bumped, floor, astray>>

\* Seeded bug: the failed read is not caught and the request dies with a 500.
LookupRaises(r) ==
  /\ RedisFails
  /\ rpc[r] = "keyed"
  /\ rpc' = [rpc EXCEPT ![r] = "failed"]
  /\ UNCHANGED <<db, replica, version, entries, ver, val, wpc, wrote, bumped, floor, astray>>

\* A failed GET, or a process with no client: the loader's value is returned
\* and not stored.
LookupFails(r) ==
  /\ RedisFails
  /\ rpc[r] = "keyed"
  /\ rpc' = [rpc EXCEPT ![r] = "bypass"]
  /\ UNCHANGED <<db, replica, version, entries, ver, val, wpc, wrote, bumped, floor, astray>>

Source == IF Replicated THEN replica ELSE db

Load(r) ==
  /\ rpc[r] \in {"missed", "bypass"}
  /\ IF rpc[r] = "bypass"
     THEN Answer(r, Source)
     ELSE /\ val' = [val EXCEPT ![r] = Source]
          /\ rpc' = [rpc EXCEPT ![r] = "loaded"]
  /\ astray' = (astray \/ Source < bumped)
  /\ UNCHANGED <<db, replica, version, entries, ver, wpc, wrote, bumped, floor>>

\* Seeded bug: the version is read when the response is stored, not before.
StoreUnderNewest(r) ==
  /\ rpc[r] = "loaded"
  /\ entries' = (entries \ Cached(Version)) \union {[ver |-> Version, val |-> val[r]]}
  /\ rpc' = [rpc EXCEPT ![r] = "answered"]
  /\ UNCHANGED <<db, replica, version, ver, val, wpc, wrote, bumped, floor, astray>>

\* SETEX, under the key built before the load.
Store(r) ==
  /\ rpc[r] = "loaded"
  /\ entries' = (entries \ Cached(ver[r])) \union {[ver |-> ver[r], val |-> val[r]]}
  /\ rpc' = [rpc EXCEPT ![r] = "answered"]
  /\ UNCHANGED <<db, replica, version, ver, val, wpc, wrote, bumped, floor, astray>>

StoreFails(r) ==
  /\ RedisFails
  /\ rpc[r] = "loaded"
  /\ rpc' = [rpc EXCEPT ![r] = "answered"]
  /\ UNCHANGED <<db, replica, version, entries, ver, val, wpc, wrote, bumped, floor, astray>>

\* The thread forgets the request it has answered.
NextRequest(r) ==
  /\ rpc[r] = "answered"
  /\ rpc' = [rpc EXCEPT ![r] = "start"]
  /\ ver' = [ver EXCEPT ![r] = 1]
  /\ val' = [val EXCEPT ![r] = 0]
  /\ floor' = [floor EXCEPT ![r] = 0]
  /\ UNCHANGED <<db, replica, version, entries, wpc, wrote, bumped, astray>>

-----------------------------------------------------------------------------
(* An admin write: the commit, the audit entry, then invalidate().         *)

CommitWrite(w) ==
  /\ wpc[w] = "start"
  /\ db' = db + 1
  /\ wrote' = [wrote EXCEPT ![w] = db']
  /\ wpc' = [wpc EXCEPT ![w] = "committed"]
  /\ UNCHANGED <<replica, version, entries, rpc, ver, val, bumped, floor, astray>>

Finish(w) == wpc' = [wpc EXCEPT ![w] = "returned"]

\* SET NX 1 and INCR in one MULTI.
Invalidate(w) ==
  /\ w \in Writes /\ wpc[w] = "committed"
  /\ version' = Version + 1
  /\ bumped' = NewestOf(bumped, wrote[w])
  /\ Finish(w)
  /\ UNCHANGED <<db, replica, entries, rpc, ver, val, wrote, floor, astray>>

\* The failure is logged and the admin's call succeeds.  The same in a process
\* that started while Redis was away: it bumps only its local counter.
InvalidateFails(w) ==
  /\ RedisFails
  /\ w \in Writes /\ wpc[w] = "committed"
  /\ Finish(w)
  /\ UNCHANGED <<db, replica, version, entries, rpc, ver, val, wrote, bumped, floor, astray>>

\* Category and tag handlers do not call invalidate().
RenameReturns(w) ==
  /\ w \in Renames /\ wpc[w] = "committed"
  /\ Finish(w)
  /\ UNCHANGED <<db, replica, version, entries, rpc, ver, val, wrote, bumped, floor, astray>>

\* The worker dies between the commit and invalidate().
CrashWrite(w) ==
  /\ wpc[w] = "committed"
  /\ wpc' = [wpc EXCEPT ![w] = "crashed"]
  /\ UNCHANGED <<db, replica, version, entries, rpc, ver, val, wrote, bumped, floor, astray>>

-----------------------------------------------------------------------------
(* Redis and the replica                                                   *)

\* Seeded bug: a response is stored without a TTL; only orphans get dropped.
ExpireOrphan(e) ==
  /\ e.ver # Version
  /\ entries' = entries \ {e}
  /\ UNCHANGED <<db, replica, version, rpc, ver, val, wpc, wrote, bumped, floor, astray>>

\* The TTL runs out, or Redis evicts the entry.
Expire(e) ==
  /\ entries' = entries \ {e}
  /\ UNCHANGED <<db, replica, version, rpc, ver, val, wpc, wrote, bumped, floor, astray>>

LoseVersion ==
  /\ VersionLost
  /\ version > 0
  /\ version' = 0
  /\ astray' = TRUE
  /\ UNCHANGED <<db, replica, entries, rpc, ver, val, wpc, wrote, bumped, floor>>

Replicate ==
  /\ Replicated
  /\ replica < db
  /\ replica' = replica + 1
  /\ UNCHANGED <<db, version, entries, rpc, ver, val, wpc, wrote, bumped, floor, astray>>

-----------------------------------------------------------------------------
ReadStep(r) ==
  \/ Hit(r) \/ Miss(r) \/ LookupFails(r) \/ Load(r) \/ Store(r) \/ StoreFails(r)

WriteStep(w) ==
  CommitWrite(w) \/ Invalidate(w) \/ InvalidateFails(w) \/ RenameReturns(w) \/ CrashWrite(w)

Next ==
  \/ \E r \in Readers : BuildKey(r) \/ BuildKeyFails(r) \/ ReadStep(r) \/ NextRequest(r)
  \/ \E w \in Admins : WriteStep(w)
  \/ \E e \in entries : Expire(e)
  \/ LoseVersion
  \/ Replicate

Spec == Init /\ [][Next]_vars

\* A thread goes on with the request it serves, every entry has a TTL, and the
\* replica applies what it is sent.
Fairness ==
  /\ \A r \in Readers : WF_vars(ReadStep(r))
  /\ \A v \in 1..(Cardinality(Writes) + 1) : WF_vars(\E e \in Cached(v) : Expire(e))
  /\ WF_vars(Replicate)

FairSpec == Spec /\ Fairness
-----------------------------------------------------------------------------
(* Properties                                                              *)

\* Every variable keeps its type, and a version has one cached response.
TypeOK ==
  /\ db \in Nat /\ replica \in Nat /\ version \in Nat
  /\ bumped \in Nat /\ astray \in BOOLEAN
  /\ entries \subseteq [ver : Nat, val : Nat]
  /\ \A e, f \in entries : e.ver = f.ver => e = f
  /\ rpc \in [Readers -> {"start", "keyed", "missed", "bypass", "loaded", "answered"}]
  /\ ver \in [Readers -> Nat]
  /\ val \in [Readers -> Nat]
  /\ wpc \in [Admins -> {"start", "committed", "returned", "crashed"}]
  /\ wrote \in [Admins -> Nat]
  /\ floor \in [Readers -> Nat]

\* docs/adr/0004: after the INCR every entry of the old version is unreachable.
\* A read that begins after the version was bumped for a write shows that
\* write, whichever loads and stores were under way, and even when other
\* writes' invalidations failed or their workers died.  What breaks this is
\* the loss of the counter and a loader behind the invalidation, nothing else.
BumpedIsSeen ==
  ~astray => \A r \in Readers : rpc[r] = "answered" => val[r] >= floor[r]

\* docs/adr/0004: "A cache failure is not an outage" - every read that begins
\* is answered, whatever Redis does.
EveryReadAnswered == \A r \in Readers : rpc[r] = "keyed" ~> rpc[r] = "answered"

\* Whatever failed, was lost or lagged, and though category and tag edits do
\* not invalidate, the cache ends up with nothing but the current catalogue
\* once the writes cease: staleness is bounded by the TTL.
CacheHeals == <>[](\A e \in entries : e.val = db)
=============================================================================
