-------------------------- MODULE CatalogCacheProofs --------------------------
(***************************************************************************)
(* What the version counter guarantees, for any number of readers and      *)
(* writes: as long as the counter is not lost and no loader reads behind   *)
(* an invalidation, no read that begins after a bump misses the write it   *)
(* was made for.                                                           *)
(***************************************************************************)
EXTENDS CatalogCache, TLAPS

Busy(r) == rpc[r] \in {"keyed", "missed", "bypass", "loaded"}

\* Nothing is announced or expected that is not committed.
BoundsInv ==
  /\ bumped <= db
  /\ \A w \in Admins : wrote[w] <= db
  /\ \A r \in Readers : floor[r] <= bumped

\* Versions in use are not ahead of the counter, and under the current one
\* everything is as new as the last bump.
CurrentInv ==
  /\ \A e \in entries : e.ver <= Version /\ (e.ver = Version => e.val >= bumped)
  /\ \A r \in Readers : Busy(r) =>
       ver[r] <= Version /\ (ver[r] = Version => floor[r] = bumped)

\* Reads that share a version began after the same bump, and what they may hit
\* or store is no older than that.
SharedInv ==
  /\ \A r, q \in Readers : Busy(r) /\ Busy(q) /\ ver[r] = ver[q] => floor[r] = floor[q]
  /\ \A r \in Readers, e \in entries : Busy(r) /\ e.ver = ver[r] => e.val >= floor[r]
  /\ \A r \in Readers : rpc[r] = "loaded" => val[r] >= floor[r]

Seen == \A r \in Readers : rpc[r] = "answered" => val[r] >= floor[r]

CacheInv == TypeOK /\ BoundsInv /\ CurrentInv /\ SharedInv /\ Seen

\* Once the counter is lost nothing but the types is left.
FaultInv == TypeOK /\ (~astray => CacheInv)

\* Before the first request nothing is announced and nobody is busy.
LEMMA Initially == Init => CacheInv
<1> SUFFICES ASSUME Init PROVE CacheInv
  OBVIOUS
<1>1. TypeOK
  BY DEF Init, TypeOK
<1>2. BoundsInv /\ CurrentInv /\ SharedInv /\ Seen
  BY DEF Init, BoundsInv, CurrentInv, SharedInv, Seen, Busy
<1> QED
  BY <1>1, <1>2 DEF CacheInv

\* A read that begins takes the current version and the last bump together.
LEMMA BeginStep ==
  ASSUME NEW r \in Readers, CacheInv, TypeOK', Begin(r, Version)
  PROVE  CacheInv'
<1> USE DEF CacheInv, Begin
<1>0. /\ UNCHANGED <<db, version, entries, val, wrote, bumped>>
      /\ Version' = Version
  BY DEF Version
<1>1. \A q \in Readers :
        /\ rpc'[q] = IF q = r THEN "keyed" ELSE rpc[q]
        /\ ver'[q] = IF q = r THEN Version ELSE ver[q]
        /\ floor'[q] = IF q = r THEN bumped ELSE floor[q]
        /\ Busy(q)' <=> q = r \/ Busy(q)
  BY DEF TypeOK, Busy
<1> HIDE DEF Begin
<1>3. BoundsInv'
  BY <1>0, <1>1 DEF BoundsInv, TypeOK
<1>4. CurrentInv'
  <2>1. Version \in Nat
    BY DEF TypeOK, Version
  <2> QED
    BY <1>0, <1>1, <2>1 DEF CurrentInv
<1>5. SharedInv'
  <2>1. \A q, p \in Readers : Busy(q)' /\ Busy(p)' /\ ver'[q] = ver'[p] => floor'[q] = floor'[p]
    BY <1>1 DEF SharedInv, CurrentInv
  <2>2. \A q \in Readers, e \in entries : Busy(q)' /\ e.ver = ver'[q] => e.val >= floor'[q]
    BY <1>1 DEF SharedInv, CurrentInv
  <2>3. \A q \in Readers : rpc'[q] = "loaded" => val[q] >= floor'[q]
    BY <1>1 DEF SharedInv
  <2> QED
    BY <1>0, <2>1, <2>2, <2>3 DEF SharedInv
<1>6. Seen'
  BY <1>0, <1>1 DEF Seen
<1> QED
  BY <1>3, <1>4, <1>5, <1>6

\* A step that leaves Redis, the versions and the promises alone may move a
\* reader on, with a value that is new enough.
LEMMA ReaderMoves ==
  ASSUME NEW r \in Readers, NEW where, NEW content \in Nat, CacheInv,
         UNCHANGED <<db, version, entries, ver, wrote, bumped, floor>>, TypeOK',
         rpc' = [rpc EXCEPT ![r] = where], val' = [val EXCEPT ![r] = content],
         where \in {"missed", "bypass", "loaded", "answered"},
         where \in {"missed", "bypass", "loaded"} => Busy(r),
         where \in {"loaded", "answered"} => content >= floor[r]
  PROVE  CacheInv'
<1> USE DEF CacheInv
<1>0. Version' = Version
  BY DEF Version
<1>1. \A q \in Readers :
        /\ rpc'[q] = IF q = r THEN where ELSE rpc[q]
        /\ val'[q] = IF q = r THEN content ELSE val[q]
        /\ Busy(q)' => Busy(q)
  BY DEF TypeOK, Busy
<1>3. BoundsInv'
  BY DEF BoundsInv
<1>4. CurrentInv'
  BY <1>0, <1>1 DEF CurrentInv
<1>5. SharedInv'
  BY <1>1 DEF SharedInv
<1>6. Seen'
  BY <1>1 DEF Seen
<1> QED
  BY <1>3, <1>4, <1>5, <1>6

\* A load takes content no older than the last bump.
LEMMA LoadStep ==
  ASSUME NEW r \in Readers, CacheInv, TypeOK', ~astray', Load(r)
  PROVE  CacheInv'
<1>0. ~(Source < bumped)
  BY Zenon DEF Load
<1>1. Source \in Nat /\ Source >= floor[r]
  BY <1>0 DEF CacheInv, TypeOK, BoundsInv, Source
<1>2. CASE rpc[r] = "bypass"
  BY <1>1, <1>2, ReaderMoves DEF Load, Answer
<1>3. CASE rpc[r] = "missed"
  BY <1>1, <1>3, ReaderMoves DEF Load, Busy
<1> QED
  BY <1>2, <1>3 DEF Load

\* A hit serves a reader of the version it asked for.
LEMMA HitStep ==
  ASSUME NEW r \in Readers, CacheInv, TypeOK', Hit(r)
  PROVE  CacheInv'
<1>1. PICK e \in Cached(ver[r]) : Answer(r, e.val)
  BY DEF Hit
<1>2. e.val \in Nat /\ e.val >= floor[r]
  BY DEF Cached, CacheInv, TypeOK, SharedInv, Hit, Busy
<1> QED
  BY <1>1, <1>2, ReaderMoves DEF Hit, Answer

\* A stored response serves the readers that hold the same version, and they
\* began after the same bump.
LEMMA StoreStep ==
  ASSUME NEW r \in Readers, CacheInv, TypeOK', Store(r)
  PROVE  CacheInv'
<1> USE DEF CacheInv, Store
<1> DEFINE new == [ver |-> ver[r], val |-> val[r]]
<1>0. /\ Version' = Version /\ Busy(r)
      /\ UNCHANGED <<db, version, ver, val, wrote, bumped, floor>>
  BY DEF Version, Busy
<1>1. \A q \in Readers : /\ rpc'[q] = IF q = r THEN "answered" ELSE rpc[q]
                         /\ Busy(q)' => Busy(q)
  BY DEF TypeOK, Busy
<1>2. \A e \in entries' : e = new \/ (e \in entries /\ e.ver # ver[r])
  BY DEF Cached
<1>3. new.ver = ver[r] /\ new.val = val[r] /\ new \in [ver : Nat, val : Nat]
  BY DEF TypeOK
<1> HIDE DEF Store, new
<1>5. BoundsInv'
  BY <1>0 DEF BoundsInv
<1>6. val[r] >= floor[r]
  BY DEF SharedInv, Store
<1>7. CurrentInv'
  BY <1>0, <1>1, <1>2, <1>3, <1>6 DEF CurrentInv
<1>8. SharedInv'
  <2>1. \A q \in Readers, e \in entries' : Busy(q)' /\ e.ver = ver[q] => e.val >= floor[q]
    BY <1>0, <1>1, <1>2, <1>3, <1>6 DEF SharedInv
  <2> QED
    BY <1>0, <1>1, <2>1 DEF SharedInv
<1>9. Seen'
  BY <1>0, <1>1, <1>6 DEF Seen
<1> QED
  BY <1>5, <1>7, <1>8, <1>9

\* The bump moves the counter past every version in use.
LEMMA InvalidateStep ==
  ASSUME NEW w \in Admins, CacheInv, TypeOK', Invalidate(w)
  PROVE  CacheInv'
<1> USE DEF CacheInv, Invalidate, Finish
<1>0. /\ UNCHANGED <<db, entries, rpc, ver, val, wrote, floor>>
      /\ Version \in Nat /\ Version' = Version + 1
      /\ \A q \in Readers : Busy(q)' <=> Busy(q)
  BY DEF Version, Busy, TypeOK
<1>1. bumped' \in Nat /\ bumped' >= bumped /\ bumped' <= db
  BY DEF NewestOf, TypeOK, BoundsInv
<1> HIDE DEF Invalidate, Finish
<1>3. BoundsInv'
  BY <1>0, <1>1 DEF BoundsInv, TypeOK
<1>4. CurrentInv'
  BY <1>0 DEF CurrentInv, TypeOK
<1>5. SharedInv' /\ Seen'
  BY <1>0 DEF SharedInv, Seen
<1> QED
  BY <1>3, <1>4, <1>5

\* A commit is ahead of the counter until it is announced.
LEMMA CommitWriteStep ==
  ASSUME NEW w \in Admins, CacheInv, TypeOK', CommitWrite(w)
  PROVE  CacheInv'
<1> USE DEF CacheInv, CommitWrite
<1>0. /\ UNCHANGED <<version, entries, rpc, ver, val, bumped, floor>>
      /\ db \in Nat /\ db' = db + 1
      /\ Version' = Version
      /\ \A q \in Readers : Busy(q)' <=> Busy(q)
  BY DEF Version, Busy, TypeOK
<1>1. TypeOK'
  BY <1>0 DEF TypeOK
<1>2. \A v \in Admins : wrote'[v] = IF v = w THEN db + 1 ELSE wrote[v]
  BY <1>0 DEF TypeOK
<1>3. BoundsInv'
  BY <1>0, <1>2 DEF BoundsInv, TypeOK
<1>4. CurrentInv' /\ SharedInv' /\ Seen'
  BY <1>0 DEF CurrentInv, SharedInv, Seen
<1> QED
  BY <1>1, <1>3, <1>4

\* The ends of an admin call that do not bump the version.
LEMMA ReturnStep ==
  ASSUME NEW w \in Admins, CacheInv, TypeOK',
         InvalidateFails(w) \/ RenameReturns(w) \/ CrashWrite(w)
  PROVE  CacheInv'
<1> USE DEF CacheInv, InvalidateFails, RenameReturns, CrashWrite, Finish
<1>0. /\ UNCHANGED <<db, version, entries, rpc, ver, val, wrote, bumped, floor>>
      /\ Version' = Version
      /\ \A q \in Readers : Busy(q)' <=> Busy(q)
  BY DEF Version, Busy
<1>1. TypeOK'
  BY DEF TypeOK, NewestOf
<1>2. BoundsInv' /\ CurrentInv' /\ SharedInv' /\ Seen'
  BY <1>0 DEF BoundsInv, CurrentInv, SharedInv, Seen
<1> QED
  BY <1>1, <1>2

\* An entry that expires takes nothing else with it.
LEMMA ExpireStep ==
  ASSUME NEW e \in entries, CacheInv, TypeOK', Expire(e)
  PROVE  CacheInv'
<1> USE DEF CacheInv, Expire
<1>0. /\ UNCHANGED <<db, version, rpc, ver, val, wrote, bumped, floor>>
      /\ Version' = Version /\ entries' \subseteq entries
      /\ \A q \in Readers : Busy(q)' <=> Busy(q)
  BY DEF Version, Busy
<1>1. TypeOK'
  BY DEF TypeOK
<1>2. BoundsInv' /\ CurrentInv' /\ SharedInv' /\ Seen'
  BY <1>0 DEF BoundsInv, CurrentInv, SharedInv, Seen
<1> QED
  BY <1>1, <1>2

\* A thread that starts over expects nothing.
LEMMA NextRequestStep ==
  ASSUME NEW r \in Readers, CacheInv, TypeOK', NextRequest(r)
  PROVE  CacheInv'
<1> USE DEF CacheInv, NextRequest
<1>1. \A q \in Readers :
        /\ rpc'[q] = IF q = r THEN "start" ELSE rpc[q]
        /\ q # r => ver'[q] = ver[q] /\ val'[q] = val[q]
        /\ floor'[q] = IF q = r THEN 0 ELSE floor[q]
        /\ Busy(q)' <=> q # r /\ Busy(q)
  BY DEF TypeOK, Busy
<1>2. Version' = Version
  BY DEF Version
<1>3. BoundsInv'
  BY <1>1 DEF BoundsInv, TypeOK
<1>4. CurrentInv'
  BY <1>1, <1>2 DEF CurrentInv
<1>5. SharedInv'
  BY <1>1 DEF SharedInv
<1>6. Seen'
  BY <1>1 DEF Seen
<1> QED
  BY <1>3, <1>4, <1>5, <1>6

\* Every step keeps the types, faults included.
LEMMA TypeStep == TypeOK /\ [Next]_vars => TypeOK'
<1> SUFFICES ASSUME TypeOK, [Next]_vars PROVE TypeOK'
  OBVIOUS
<1>0. Version \in Nat /\ Source \in Nat
  BY DEF TypeOK, Version, Source
<1>1. ASSUME NEW r \in Readers, BuildKey(r) \/ BuildKeyFails(r) PROVE TypeOK'
  <2>1. astray' \in BOOLEAN
    BY <1>1, Zenon DEF TypeOK, BuildKey, BuildKeyFails
  <2>2. Begin(r, Version) \/ Begin(r, 1)
    BY <1>1 DEF BuildKey, BuildKeyFails
  <2> QED
    BY <1>0, <2>1, <2>2 DEF TypeOK, Begin
<1>2. ASSUME NEW r \in Readers, Hit(r) PROVE TypeOK'
  BY <1>2 DEF TypeOK, Hit, Cached, Answer
<1>3. ASSUME NEW r \in Readers, Miss(r) \/ LookupFails(r) \/ StoreFails(r) \/ NextRequest(r)
      PROVE  TypeOK'
  BY <1>3 DEF TypeOK, Miss, LookupFails, StoreFails, NextRequest
<1>4. ASSUME NEW r \in Readers, Load(r) PROVE TypeOK'
  <2>1. astray' \in BOOLEAN
    BY <1>4, Zenon DEF TypeOK, Load
  <2> QED
    BY <1>0, <1>4, <2>1 DEF TypeOK, Load, Answer
<1>5. ASSUME NEW r \in Readers, Store(r) PROVE TypeOK'
  <2> DEFINE new == [ver |-> ver[r], val |-> val[r]]
  <2>1. new.ver = ver[r] /\ new \in [ver : Nat, val : Nat]
    BY DEF TypeOK
  <2>2. \A e \in entries' : e = new \/ (e \in entries /\ e.ver # ver[r])
    BY <1>5 DEF Store, Cached
  <2> HIDE DEF new
  <2>3. entries' \subseteq [ver : Nat, val : Nat]
    BY <2>1, <2>2 DEF TypeOK
  <2>4. \A e, f \in entries' : e.ver = f.ver => e = f
    BY <2>1, <2>2 DEF TypeOK
  <2> QED
    BY <1>5, <2>3, <2>4 DEF TypeOK, Store
<1>6. ASSUME NEW w \in Admins, CommitWrite(w) PROVE TypeOK'
  BY <1>6 DEF TypeOK, CommitWrite
<1>7. ASSUME NEW w \in Admins, Invalidate(w) PROVE TypeOK'
  BY <1>0, <1>7 DEF TypeOK, Invalidate, Finish, NewestOf
<1>8. ASSUME NEW w \in Admins, InvalidateFails(w) \/ RenameReturns(w) \/ CrashWrite(w)
      PROVE  TypeOK'
  BY <1>8 DEF TypeOK, InvalidateFails, RenameReturns, CrashWrite, Finish
<1>9. ASSUME NEW e \in entries, Expire(e) PROVE TypeOK'
  BY <1>9 DEF TypeOK, Expire
<1>10. CASE LoseVersion
  <2>1. astray' \in BOOLEAN
    BY <1>10, Zenon DEF LoseVersion
  <2> QED
    BY <1>10, <2>1 DEF TypeOK, LoseVersion
<1>12. CASE Replicate
  BY <1>12 DEF TypeOK, Replicate
<1>11. CASE UNCHANGED vars
  BY <1>11 DEF TypeOK, vars
<1> QED
  BY <1>1, <1>2, <1>3, <1>4, <1>5, <1>6, <1>7, <1>8, <1>9, <1>10, <1>11, <1>12
     DEF Next, ReadStep, WriteStep

\* A step after which the counter is still sound began with a sound one.
LEMMA Step ==
  ASSUME FaultInv, [Next]_vars
  PROVE  FaultInv'
<1>0. TypeOK'
  BY TypeStep DEF FaultInv
<1> SUFFICES ASSUME ~astray' PROVE CacheInv'
  BY <1>0 DEF FaultInv
<1>a. CacheInv /\ ~LoseVersion
  <2>1. ~astray
    BY DEF FaultInv, TypeOK, Next, vars, BuildKey, BuildKeyFails, ReadStep, Hit, Miss, LookupFails,
       Load, Store, StoreFails, NextRequest, WriteStep, CommitWrite, Invalidate,
       InvalidateFails, RenameReturns, CrashWrite, Expire, LoseVersion, Replicate
  <2> QED
    BY <2>1 DEF FaultInv, LoseVersion
<1> USE <1>0, <1>a
<1>1. ASSUME NEW r \in Readers, BuildKey(r) \/ BuildKeyFails(r) PROVE CacheInv'
  <2>1. Begin(r, Version)
    BY <1>1 DEF BuildKey, BuildKeyFails
  <2> QED
    BY <2>1, BeginStep
<1>2. ASSUME NEW r \in Readers, ReadStep(r) PROVE CacheInv'
  <2> val[r] \in Nat /\ val = [val EXCEPT ![r] = val[r]]
    BY DEF CacheInv, TypeOK
  <2> rpc[r] = "loaded" => val[r] >= floor[r]
    BY DEF CacheInv, SharedInv
  <2>1. CASE Hit(r)
    BY <2>1, HitStep
  <2>2. CASE Miss(r)
    BY <2>2, ReaderMoves DEF Miss, Busy
  <2>3. CASE LookupFails(r)
    BY <2>3, ReaderMoves DEF LookupFails, Busy
  <2>4. CASE Load(r)
    BY <2>4, LoadStep
  <2>5. CASE Store(r)
    BY <2>5, StoreStep
  <2>6. CASE StoreFails(r)
    BY <2>6, ReaderMoves DEF StoreFails
  <2> QED
    BY <1>2, <2>1, <2>2, <2>3, <2>4, <2>5, <2>6 DEF ReadStep
<1>3. ASSUME NEW r \in Readers, NextRequest(r) PROVE CacheInv'
  BY <1>3, NextRequestStep
<1>4. ASSUME NEW w \in Admins, WriteStep(w) PROVE CacheInv'
  BY <1>4, CommitWriteStep, InvalidateStep, ReturnStep DEF WriteStep
<1>5. ASSUME NEW e \in entries, Expire(e) PROVE CacheInv'
  BY <1>5, ExpireStep
<1>6. CASE UNCHANGED vars \/ Replicate
  BY <1>6 DEF vars, Replicate, CacheInv, BoundsInv, CurrentInv, SharedInv, Seen,
     Busy, Version
<1> QED
  BY <1>1, <1>2, <1>3, <1>4, <1>5, <1>6 DEF Next

\* Every variable keeps its type and a version has one cached response.
THEOREM TypingTheorem == Spec => []TypeOK
<1>1. Init => TypeOK
  BY Initially DEF CacheInv
<1> QED
  BY <1>1, TypeStep, PTL DEF Spec

\* While the version counter is neither evicted nor unreadable and no loader
\* reads a replica behind an invalidation, a read that begins after a bump
\* shows the write it was made for, however many reads, writes, failed
\* commands and crashes interleave.
THEOREM BumpedTheorem == Spec => []BumpedIsSeen
<1>1. Init => FaultInv
  BY Initially DEF FaultInv, CacheInv
<1>2. FaultInv /\ [Next]_vars => FaultInv'
  BY Step
<1>3. FaultInv => BumpedIsSeen
  BY DEF FaultInv, CacheInv, Seen, BumpedIsSeen
<1> QED
  BY <1>1, <1>2, <1>3, PTL DEF Spec

-----------------------------------------------------------------------------
(* Healing                                                                 *)

\* Whatever is lost, lags or fails, nobody has seen or cached what is not committed.
OnlyCommitted ==
  /\ replica <= db
  /\ \A e \in entries : e.val <= db
  /\ \A r \in Readers : val[r] <= db

\* The database, the cache and the loads under way all show the same catalogue.
Healed ==
  /\ Source = db
  /\ \A e \in entries : e.val = db
  /\ \A r \in Readers : rpc[r] = "loaded" => val[r] = db

\* What each kind of step does to contents.
LEMMA ReadFrame ==
  ASSUME TypeOK, NEW r \in Readers, ReadStep(r)
  PROVE  /\ UNCHANGED <<db, replica>>
         /\ \A q \in Readers \ {r} : val'[q] = val[q] /\ rpc'[q] = rpc[q]
         /\ val'[r] \in {val[r], Source} \union {e.val : e \in entries}
         /\ rpc'[r] = "loaded" => val'[r] = Source
         /\ \A e \in entries' : e \in entries \/ (rpc[r] = "loaded" /\ e.val = val[r])
<1> USE DEF TypeOK
<1>1. CASE Hit(r)
  <2>1. PICK e \in entries : val' = [val EXCEPT ![r] = e.val] /\ rpc' = [rpc EXCEPT ![r] = "answered"]
    BY <1>1 DEF Hit, Answer, Cached
  <2>2. UNCHANGED <<db, replica, entries>>
    BY <1>1 DEF Hit
  <2>3. val'[r] = e.val /\ rpc'[r] # "loaded"
    BY <2>1
  <2> QED
    BY <2>1, <2>2, <2>3
<1>2. CASE Miss(r) \/ LookupFails(r) \/ StoreFails(r)
  BY <1>2 DEF Miss, LookupFails, StoreFails
<1>3. CASE Load(r)
  BY <1>3 DEF Load, Answer
<1>4. CASE Store(r)
  <2>1. \A e \in entries' : e \in entries \/ e = [ver |-> ver[r], val |-> val[r]]
    BY <1>4 DEF Store
  <2>2. rpc[r] = "loaded" /\ UNCHANGED <<db, replica, val>> /\ rpc' = [rpc EXCEPT ![r] = "answered"]
    BY <1>4 DEF Store
  <2> QED
    BY <2>1, <2>2
<1> QED
  BY <1>1, <1>2, <1>3, <1>4 DEF ReadStep

\* The other steps add no entry and give no reader anything to store.
LEMMA OtherFrame ==
  ASSUME TypeOK,
         \/ \E r \in Readers : BuildKey(r) \/ BuildKeyFails(r) \/ NextRequest(r)
         \/ \E w \in Admins : WriteStep(w)
         \/ \E e \in entries : Expire(e)
         \/ LoseVersion \/ Replicate \/ UNCHANGED vars
  PROVE  /\ db' \in {db, db + 1}
         /\ replica' = replica \/ (Replicated /\ replica < db /\ replica' = replica + 1 /\ db' = db)
         /\ entries' \subseteq entries
         /\ \A r \in Readers : /\ val'[r] \in {0, val[r]}
                               /\ rpc'[r] = "loaded" => rpc[r] = "loaded" /\ val'[r] = val[r]
<1> USE DEF TypeOK
<1>1. ASSUME NEW r \in Readers, BuildKey(r) \/ BuildKeyFails(r) \/ NextRequest(r)
      PROVE  /\ UNCHANGED <<db, replica, entries>>
             /\ \A q \in Readers : /\ val'[q] \in {0, val[q]}
                                   /\ rpc'[q] = "loaded" => rpc[q] = "loaded" /\ val'[q] = val[q]
  BY <1>1 DEF BuildKey, BuildKeyFails, Begin, NextRequest
<1>2. ASSUME NEW w \in Admins, WriteStep(w)
      PROVE  db' \in {db, db + 1} /\ UNCHANGED <<replica, entries, val, rpc>>
  BY <1>2 DEF WriteStep, CommitWrite, Invalidate, InvalidateFails, RenameReturns, CrashWrite
<1>3. ASSUME NEW e \in entries, Expire(e)
      PROVE  UNCHANGED <<db, replica, val, rpc>> /\ entries' \subseteq entries
  BY <1>3 DEF Expire
<1>4. LoseVersion \/ UNCHANGED vars => UNCHANGED <<db, replica, entries, val, rpc>>
  BY DEF LoseVersion, vars
<1>5. Replicate => /\ UNCHANGED <<db, entries, val, rpc>>
                   /\ Replicated /\ replica < db /\ replica' = replica + 1
  BY DEF Replicate
<1> QED
  BY <1>1, <1>2, <1>3, <1>4, <1>5

\* A step reads committed contents and caches what was read.
LEMMA CommittedStep == TypeOK /\ OnlyCommitted /\ [Next]_vars => OnlyCommitted'
<1> SUFFICES ASSUME TypeOK, OnlyCommitted, [Next]_vars PROVE OnlyCommitted'
  OBVIOUS
<1>0. db \in Nat /\ replica \in Nat /\ Source <= db /\ \A r \in Readers : val[r] \in Nat
  BY DEF TypeOK, OnlyCommitted, Source
<1>1. ASSUME NEW r \in Readers, ReadStep(r) PROVE OnlyCommitted'
  BY <1>0, <1>1, ReadFrame DEF OnlyCommitted
<1>2. CASE ~\E r \in Readers : ReadStep(r)
  <2>1. /\ db' \in {db, db + 1}
        /\ replica' = replica \/ (replica < db /\ replica' = replica + 1 /\ db' = db)
        /\ entries' \subseteq entries
        /\ \A r \in Readers : val'[r] \in {0, val[r]}
    BY <1>2, OtherFrame DEF Next
  <2>2. \A e \in entries : e.val \in Nat
    BY DEF TypeOK
  <2> QED
    BY <1>0, <2>1, <2>2 DEF OnlyCommitted
<1> QED
  BY <1>1, <1>2

\* Readers and the cache show nothing but committed catalogues, through every loss,
\* lag and failure of Redis (cache.py:139-161, dependencies.py:36).
THEOREM CommittedTheorem == Spec => []OnlyCommitted
<1>1. Init => OnlyCommitted
  BY DEF Init, OnlyCommitted
<1> QED
  BY <1>1, CommittedStep, TypingTheorem, PTL DEF Spec

\* Once the cache, the replica and the loads under way are at the current catalogue
\* they stay there until the next commit: whatever fails, no step brings back what is
\* old.  This is the safety half of CacheHeals, and of docs/adr/0004's bound.
THEOREM HealedTheorem == Spec => [][Healed /\ db' = db => Healed']_vars
<1>1. ASSUME TypeOK, OnlyCommitted, Healed, Next, db' = db PROVE Healed'
  <2>0. db \in Nat /\ replica \in Nat
    BY <1>1 DEF TypeOK
  <2>1. ASSUME NEW r \in Readers, ReadStep(r) PROVE Healed'
    <3>1. Source' = Source
      BY <1>1, <2>1, ReadFrame DEF Source
    <3> QED
      BY <1>1, <2>1, <3>1, ReadFrame DEF Healed
  <2>2. CASE ~\E r \in Readers : ReadStep(r)
    <3>1. /\ replica' = replica \/ (Replicated /\ replica < db)
          /\ entries' \subseteq entries
          /\ \A r \in Readers : rpc'[r] = "loaded" => rpc[r] = "loaded" /\ val'[r] = val[r]
      BY <1>1, <2>2, OtherFrame DEF Next
    <3>2. Source' = db
      BY <1>1, <2>0, <3>1 DEF Source, Healed
    <3> QED
      BY <1>1, <3>1, <3>2 DEF Healed
  <2> QED
    BY <2>1, <2>2
<1>2. TypeOK /\ OnlyCommitted /\ [Next]_vars => [Healed /\ db' = db => Healed']_vars
  BY <1>1
<1> QED
  BY <1>2, CommittedTheorem, TypingTheorem, PTL DEF Spec
=============================================================================
