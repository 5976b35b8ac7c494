-------------------------- MODULE IdempotencyProofs --------------------------
(***************************************************************************)
(* Theorems about Idempotency for any number of calls, keys and bodies,    *)
(* with every fault the model has.  All follow from one inductive          *)
(* invariant: whoever runs place_order for a key owns the unfinished row   *)
(* of that key, alone, and an order nobody forgot keeps a row alive.       *)
(***************************************************************************)
EXTENDS Idempotency, TLAPS

\* A call with the key reserved has its own row, alone.
OwnerInv ==
  /\ \A r \in Requests : pc[r] \in Holding =>
       /\ row[key[r]].status = "in_progress"
       /\ row[key[r]].body = body[r]
       /\ ~row[key[r]].expired
  /\ SingleRunner

\* Which calls have an order.
EffectInv ==
  /\ \A r \in Requests : pc[r] \in {"start", "conflict", "working", "placing",
                                    "replayed", "conflict409", "mismatch422"} => r \notin orders
  /\ \A r \in Requests : pc[r] \in {"committed", "completing", "created"} => r \in orders

\* An order that stands for its key keeps the row, and no other call runs.
KeptInv ==
  \A o \in Kept : /\ row[key[o]].status # "none"
                  /\ \A r \in Requests : Holder(r, key[o]) => r = o

\* A stored response is that of an order with this key and body.
StoredInv ==
  \A k \in Keys : row[k].status = "completed" =>
     /\ row[k].order \in orders
     /\ key[row[k].order] = k
     /\ body[row[k].order] = row[k].body

IdemInv == TypeOK /\ OwnerInv /\ EffectInv /\ KeptInv /\ OneEffectPerKey /\ StoredInv /\ ReplayFaithful

\* At the start there is no row, no order and no holder.
LEMMA Initially == Init => IdemInv
<1> SUFFICES ASSUME Init PROVE IdemInv
  OBVIOUS
<1>1. TypeOK
  BY DEF Init, TypeOK, Rows, NoRow, PCs
<1>2. OwnerInv /\ EffectInv /\ KeptInv /\ OneEffectPerKey /\ StoredInv /\ ReplayFaithful
  BY DEF Init, OwnerInv, SingleRunner, Holder, Holding, EffectInv, KeptInv, Kept,
         OneEffectPerKey, StoredInv, NoRow, ReplayFaithful
<1> QED
  BY <1>1, <1>2 DEF IdemInv

\* A step that only moves one call, neither into place_order nor out through a
\* replay or a release, keeps the invariant.
LEMMA Moving ==
  ASSUME NEW r \in Requests, NEW where \in PCs, IdemInv,
         Goto(r, where), UNCHANGED <<row, orders, key, body, reply, swept>>,
         cartFull' \in BOOLEAN,
         where \in Holding => pc[r] \in Holding,
         where \notin {"replayed", "released"}, pc[r] # "released",
         where \in {"start", "conflict", "working", "placing",
                    "conflict409", "mismatch422"} => r \notin orders,
         where \in {"committed", "completing", "created"} => r \in orders
  PROVE  IdemInv'
<1> USE DEF IdemInv, Goto
<1>1. TypeOK'
  BY DEF TypeOK
<1>2. \A q \in Requests : pc'[q] = IF q = r THEN where ELSE pc[q]
  BY DEF TypeOK
<1>3. \A q \in Requests, k \in Keys : Holder(q, k)' => Holder(q, k)
  BY <1>2 DEF Holder
<1>4. Disowned' = Disowned
  BY <1>2 DEF Disowned, TypeOK
<1>5. Kept' = Kept
  BY <1>4 DEF Kept
<1>6. OwnerInv'
  <2>1. SingleRunner'
    BY <1>3 DEF OwnerInv, SingleRunner
  <2>2. QED
    BY <1>2, <2>1 DEF OwnerInv
<1>7. EffectInv'
  BY <1>2 DEF EffectInv
<1>8. KeptInv'
  BY <1>3, <1>5 DEF KeptInv, TypeOK, Kept
<1>9. OneEffectPerKey'
  BY <1>5 DEF OneEffectPerKey
<1>10. StoredInv'
  BY DEF StoredInv
<1>11. ReplayFaithful'
  BY <1>2 DEF ReplayFaithful
<1> QED
  BY <1>1, <1>6, <1>7, <1>8, <1>9, <1>10, <1>11

\* A reservation makes its caller the only runner of the key.
LEMMA ReserveStep ==
  ASSUME NEW r \in Requests, IdemInv, Reserve(r)
  PROVE  IdemInv'
<1> USE DEF IdemInv, Reserve, Goto
<1> DEFINE k == key[r]
<1>0. /\ k \in Keys
      /\ r \notin orders
      /\ UNCHANGED <<orders, cartFull, key, body, reply, swept>>
  BY DEF TypeOK, EffectInv, call
<1>1. \A q \in Requests : pc'[q] = IF q = r THEN "working" ELSE pc[q]
  BY DEF TypeOK
<1>2. \A j \in Keys : row'[j] =
        IF j = k THEN [status |-> "in_progress", body |-> body[r], order |-> None, expired |-> FALSE]
        ELSE row[j]
  BY DEF TypeOK
<1>3. TypeOK'
  <2>1. row' \in [Keys -> Rows]
    BY <1>0 DEF TypeOK, Rows
  <2>2. \A j \in Keys : row'[j].status = "completed" <=> row'[j].order # None
    BY <1>2 DEF TypeOK
  <2>3. pc' \in [Requests -> PCs]
    BY DEF TypeOK, PCs
  <2> QED
    BY <1>0, <2>1, <2>2, <2>3 DEF TypeOK
<1>4. \A q \in Requests : pc[q] \in Holding => key[q] # k
  BY DEF OwnerInv
<1>5. OwnerInv'
  <2>1. SingleRunner'
    BY <1>0, <1>1, <1>4 DEF OwnerInv, SingleRunner, Holder
  <2>2. \A q \in Requests : pc'[q] \in Holding =>
          /\ row'[key[q]].status = "in_progress"
          /\ row'[key[q]].body = body[q]
          /\ ~row'[key[q]].expired
    BY <1>0, <1>1, <1>2, <1>4 DEF OwnerInv, TypeOK
  <2> QED
    BY <1>0, <2>1, <2>2 DEF OwnerInv
<1>6. EffectInv'
  BY <1>0, <1>1 DEF EffectInv
<1>7. Disowned' = Disowned /\ Kept' = Kept
  BY <1>0, <1>1 DEF Disowned, Kept, TypeOK
<1>8. \A o \in Kept : key[o] # k
  BY DEF KeptInv
<1>9. KeptInv'
  BY <1>0, <1>1, <1>2, <1>7, <1>8 DEF KeptInv, TypeOK, Kept, Holder
<1>10. OneEffectPerKey'
  BY <1>0, <1>7 DEF OneEffectPerKey
<1>11. StoredInv'
  BY <1>0, <1>2 DEF StoredInv, TypeOK
<1>12. ReplayFaithful'
  BY <1>0, <1>1 DEF ReplayFaithful
<1> QED
  BY <1>3, <1>5, <1>6, <1>9, <1>10, <1>11, <1>12

\* A replay is told the order in the completed row.
LEMMA ReplayStep ==
  ASSUME NEW r \in Requests, IdemInv, Replay(r)
  PROVE  IdemInv'
<1> USE DEF IdemInv, Replay, Goto
<1> DEFINE o == row[key[r]].order
<1>0. /\ UNCHANGED <<row, orders, cartFull, key, body, swept>>
      /\ key[r] \in Keys /\ r \notin orders
  BY DEF TypeOK, call, EffectInv
<1>1. \A q \in Requests : pc'[q] = IF q = r THEN "replayed" ELSE pc[q]
  BY DEF TypeOK
<1>2. o \in orders /\ key[o] = key[r] /\ body[o] = body[r]
  BY <1>0 DEF StoredInv
<1>3. \A q \in Requests : reply'[q] = IF q = r THEN o ELSE reply[q]
  BY DEF TypeOK
<1>4. TypeOK'
  BY <1>0, <1>2 DEF TypeOK, PCs
<1>5. \A q \in Requests : pc'[q] \in Holding => pc[q] \in Holding
  BY <1>1 DEF Holding
<1>6. Disowned' = Disowned /\ Kept' = Kept
  BY <1>0, <1>1 DEF Disowned, Kept, TypeOK
<1>7. OwnerInv'
  <2>1. SingleRunner'
    BY <1>0, <1>5 DEF OwnerInv, SingleRunner, Holder
  <2> QED
    BY <1>0, <1>5, <2>1 DEF OwnerInv
<1>8. EffectInv'
  BY <1>0, <1>1 DEF EffectInv
<1>9. KeptInv'
  BY <1>0, <1>5, <1>6 DEF KeptInv, Holder
<1>10. OneEffectPerKey' /\ StoredInv'
  BY <1>0, <1>6 DEF OneEffectPerKey, StoredInv
<1>11. ReplayFaithful'
  BY <1>0, <1>1, <1>2, <1>3 DEF ReplayFaithful
<1> QED
  BY <1>4, <1>7, <1>8, <1>9, <1>10, <1>11

\* The one step that adds an order: its call is the only one that runs for the
\* key, and had another order stood for the key, nobody would run.
LEMMA CommitOrderStep ==
  ASSUME NEW r \in Requests, IdemInv, CommitOrder(r)
  PROVE  IdemInv'
<1> USE DEF IdemInv, CommitOrder, Goto
<1>0. /\ UNCHANGED <<row, key, body, reply, swept>>
      /\ cartFull' \in BOOLEAN
      /\ key[r] \in Keys /\ r \notin orders /\ Holder(r, key[r])
  BY DEF TypeOK, call, EffectInv, Holder, Holding
<1>1. \A q \in Requests : pc'[q] = IF q = r THEN "committed" ELSE pc[q]
  BY DEF TypeOK
<1>2. TypeOK'
  BY <1>0 DEF TypeOK, PCs
<1>3. \A q \in Requests : pc'[q] \in Holding <=> pc[q] \in Holding
  BY <1>1 DEF Holding
<1>4. Disowned' = Disowned /\ Kept' \subseteq Kept \union {r}
  BY <1>0, <1>1 DEF Disowned, Kept, TypeOK
<1>5. OwnerInv'
  <2>1. SingleRunner'
    BY <1>0, <1>3 DEF OwnerInv, SingleRunner, Holder
  <2> QED
    BY <1>0, <1>3, <2>1 DEF OwnerInv
<1>6. EffectInv'
  BY <1>0, <1>1 DEF EffectInv
<1>7. \A o \in Kept : key[o] # key[r]
  BY <1>0 DEF KeptInv, Kept
<1>8. KeptInv'
  <2> SUFFICES ASSUME NEW o \in Kept'
               PROVE  /\ row[key[o]].status # "none"
                      /\ \A q \in Requests : Holder(q, key[o])' => q = o
    BY <1>0 DEF KeptInv
  <2>1. CASE o \in Kept
    BY <1>0, <1>3, <2>1 DEF KeptInv, Holder
  <2>2. CASE o = r
    BY <1>0, <1>3, <2>2 DEF OwnerInv, SingleRunner, Holder
  <2> QED
    BY <1>4, <2>1, <2>2
<1>9. OneEffectPerKey'
  BY <1>0, <1>4, <1>7 DEF OneEffectPerKey, Kept
<1>10. StoredInv' /\ ReplayFaithful'
  BY <1>0, <1>1 DEF StoredInv, ReplayFaithful
<1> QED
  BY <1>2, <1>5, <1>6, <1>8, <1>9, <1>10

\* What complete() makes of a row.
LEMMA CompletedRow ==
  ASSUME NEW x \in Rows, NEW r \in Requests, NEW y,
         y = [x EXCEPT !.status = "completed", !.order = r]
  PROVE  y.status = "completed" /\ y.order = r /\ y.body = x.body /\ y \in Rows
  BY DEF Rows

\* Completing stores the runner's own order.
LEMMA CompleteStep ==
  ASSUME NEW r \in Requests, IdemInv, Complete(r)
  PROVE  IdemInv'
<1> USE DEF IdemInv, Complete, Goto
<1> DEFINE k == key[r]
<1>0. /\ UNCHANGED <<orders, cartFull, key, body, reply, swept>>
      /\ k \in Keys /\ r \in orders /\ Holder(r, k)
      /\ row[k].status = "in_progress" /\ row[k].body = body[r]
  BY DEF TypeOK, call, EffectInv, Holder, Holding, OwnerInv
<1>1. \A q \in Requests : pc'[q] = IF q = r THEN "created" ELSE pc[q]
  BY DEF TypeOK
<1>2. \A j \in Keys : row'[j] =
        IF j = k THEN [row[k] EXCEPT !.status = "completed", !.order = r] ELSE row[j]
  BY <1>0 DEF TypeOK
<1>3. /\ row'[k].status = "completed" /\ row'[k].order = r /\ row'[k].body = row[k].body
      /\ row'[k] \in Rows
  <2>1. row[k] \in Rows
    BY <1>0 DEF TypeOK
  <2>2. row'[k] = [row[k] EXCEPT !.status = "completed", !.order = r]
    BY <1>0, <1>2
  <2> QED
    BY <2>1, <2>2, CompletedRow
<1>4. TypeOK'
  <2>1. row' \in [Keys -> Rows]
    BY <1>2, <1>3 DEF TypeOK
  <2>2. \A j \in Keys : row'[j].status = "completed" <=> row'[j].order # None
    BY <1>0, <1>2, <1>3, NoneAssumption DEF TypeOK
  <2>3. pc' \in [Requests -> PCs]
    BY DEF TypeOK, PCs
  <2> QED
    BY <1>0, <2>1, <2>2, <2>3 DEF TypeOK
<1>5. \A q \in Requests : pc'[q] \in Holding => pc[q] \in Holding /\ key[q] # k
  BY <1>0, <1>1 DEF Holding, OwnerInv, SingleRunner, Holder
<1>6. Disowned' = Disowned /\ Kept' = Kept
  BY <1>0, <1>1 DEF Disowned, Kept, TypeOK
<1>7. OwnerInv'
  <2>1. SingleRunner'
    BY <1>0, <1>5 DEF OwnerInv, SingleRunner, Holder
  <2> QED
    BY <1>0, <1>2, <1>5, <2>1 DEF OwnerInv, TypeOK
<1>8. EffectInv'
  BY <1>0, <1>1 DEF EffectInv
<1>9. KeptInv'
  BY <1>0, <1>2, <1>3, <1>5, <1>6 DEF KeptInv, Holder, TypeOK, Kept
<1>10. OneEffectPerKey'
  BY <1>0, <1>6 DEF OneEffectPerKey
<1>11. StoredInv'
  BY <1>0, <1>2, <1>3 DEF StoredInv
<1>12. ReplayFaithful'
  BY <1>0, <1>1 DEF ReplayFaithful
<1> QED
  BY <1>4, <1>7, <1>8, <1>9, <1>10, <1>11, <1>12

\* release() forgets the key: no order may be left standing for it.
LEMMA ReleaseStep ==
  ASSUME NEW r \in Requests, IdemInv, Release(r)
  PROVE  IdemInv'
<1> USE DEF IdemInv, Release, Goto
<1> DEFINE k == key[r]
<1>0. /\ UNCHANGED <<orders, cartFull, key, body, reply, swept>>
      /\ k \in Keys /\ Holder(r, k) /\ row[k].status = "in_progress"
  BY DEF TypeOK, call, Holder, Holding, OwnerInv
<1>1. \A q \in Requests : pc'[q] = IF q = r THEN "released" ELSE pc[q]
  BY DEF TypeOK
<1>2. \A j \in Keys : row'[j] = IF j = k THEN NoRow ELSE row[j]
  BY <1>0 DEF TypeOK
<1>3. TypeOK'
  <2>1. row' \in [Keys -> Rows]
    BY <1>0 DEF TypeOK, Rows, NoRow
  <2>2. \A j \in Keys : row'[j].status = "completed" <=> row'[j].order # None
    BY <1>2 DEF TypeOK, NoRow
  <2>3. pc' \in [Requests -> PCs]
    BY DEF TypeOK, PCs
  <2> QED
    BY <1>0, <2>1, <2>2, <2>3 DEF TypeOK
<1>4. \A q \in Requests : pc'[q] \in Holding => pc[q] \in Holding /\ key[q] # k
  BY <1>0, <1>1 DEF Holding, OwnerInv, SingleRunner, Holder
<1>5. Kept' \subseteq Kept \ {r}
  BY <1>0, <1>1 DEF Disowned, Kept, TypeOK
<1>6. OwnerInv'
  <2>1. SingleRunner'
    BY <1>0, <1>4 DEF OwnerInv, SingleRunner, Holder
  <2> QED
    BY <1>0, <1>2, <1>4, <2>1 DEF OwnerInv, TypeOK
<1>7. EffectInv'
  BY <1>0, <1>1 DEF EffectInv
<1>8. \A o \in Kept' : o \in Kept /\ key[o] \in Keys /\ key[o] # k
  BY <1>0, <1>5 DEF KeptInv, Kept, TypeOK
<1>9. KeptInv'
  BY <1>0, <1>2, <1>4, <1>8 DEF KeptInv, Holder
<1>10. OneEffectPerKey'
  BY <1>0, <1>8 DEF OneEffectPerKey, Kept
<1>11. StoredInv'
  BY <1>0, <1>2 DEF StoredInv, NoRow
<1>12. ReplayFaithful'
  BY <1>0, <1>1 DEF ReplayFaithful
<1> QED
  BY <1>3, <1>6, <1>7, <1>9, <1>10, <1>11, <1>12

\* Expiry forgets a key without a second runner.
LEMMA ExpireStep ==
  ASSUME NEW k \in Keys, IdemInv, Expire(k)
  PROVE  IdemInv'
<1> USE DEF IdemInv, Expire
<1>0. UNCHANGED <<orders, cartFull, pc, key, body, reply, swept>>
  BY DEF call
<1>1. \A j \in Keys : /\ row'[j].status = row[j].status
                     /\ row'[j].body = row[j].body
                     /\ row'[j].order = row[j].order
                     /\ j # k => row'[j].expired = row[j].expired
  BY DEF TypeOK, Rows
<1>2. TypeOK'
  <2>1. row[k] \in Rows /\ row \in [Keys -> Rows]
    BY DEF TypeOK
  <2>2. [row[k] EXCEPT !.expired = TRUE] \in Rows
    BY <2>1 DEF Rows
  <2>3. row' \in [Keys -> Rows]
    BY <2>1, <2>2
  <2> QED
    BY <1>0, <1>1, <2>3 DEF TypeOK
<1>3. Disowned' = Disowned /\ Kept' = Kept
  BY <1>0 DEF Disowned, Kept
<1>4. OwnerInv'
  BY <1>0, <1>1 DEF OwnerInv, SingleRunner, Holder, TypeOK
<1>5. EffectInv' /\ ReplayFaithful'
  BY <1>0 DEF EffectInv, ReplayFaithful
<1>6. KeptInv' /\ OneEffectPerKey'
  <2>1. \A o \in Kept : key[o] \in Keys
    BY DEF Kept, TypeOK
  <2> QED
    BY <1>0, <1>1, <1>3, <2>1 DEF KeptInv, OneEffectPerKey, Holder
<1>7. StoredInv'
  BY <1>0, <1>1 DEF StoredInv
<1> QED
  BY <1>2, <1>4, <1>5, <1>6, <1>7

\* The sweep deletes only rows that have expired.
LEMMA PurgeStep ==
  ASSUME IdemInv, PurgeExpired
  PROVE  IdemInv'
<1> USE DEF IdemInv, PurgeExpired, Expired
<1>0. UNCHANGED <<orders, cartFull, pc, key, body, reply>>
  BY DEF call
<1>1. \A j \in Keys : row'[j] = IF row[j].expired THEN NoRow ELSE row[j]
  OBVIOUS
<1>2. TypeOK'
  <2>1. row' \in [Keys -> Rows]
    BY DEF TypeOK, Rows, NoRow
  <2>2. \A j \in Keys : row'[j].status = "completed" <=> row'[j].order # None
    BY <1>1 DEF TypeOK, NoRow
  <2> QED
    BY <1>0, <2>1, <2>2 DEF TypeOK
<1>3. Disowned' = Disowned
  BY <1>0 DEF Disowned
<1>4. \A o \in Kept' : o \in Kept /\ key[o] \in Keys /\ ~row[key[o]].expired
  BY <1>0, <1>3 DEF Kept, TypeOK
<1>5. OwnerInv'
  BY <1>0, <1>1 DEF OwnerInv, SingleRunner, Holder, TypeOK
<1>6. EffectInv' /\ ReplayFaithful'
  BY <1>0 DEF EffectInv, ReplayFaithful
<1>7. KeptInv' /\ OneEffectPerKey'
  BY <1>0, <1>1, <1>4 DEF KeptInv, OneEffectPerKey, Holder, Kept
<1>8. StoredInv'
  BY <1>0, <1>1 DEF StoredInv, NoRow
<1> QED
  BY <1>2, <1>5, <1>6, <1>7, <1>8

\* Every step preserves the invariant.
LEMMA Step == IdemInv /\ [Next]_vars => IdemInv'
<1> SUFFICES ASSUME IdemInv, [Next]_vars PROVE IdemInv'
  OBVIOUS
<1>1. ASSUME NEW r \in Requests, Reserve(r) PROVE IdemInv'
  BY <1>1, ReserveStep
<1>2. ASSUME NEW r \in Requests, Handle(r) PROVE IdemInv'
  <2> pc[r] \in {"start", "conflict", "working", "placing"} => r \notin orders
    BY DEF IdemInv, EffectInv
  <2> pc[r] \in {"committed", "completing"} => r \in orders
    BY DEF IdemInv, EffectInv
  <2> cartFull \in BOOLEAN
    BY DEF IdemInv, TypeOK
  <2> USE DEF Holding, PCs, call
  <2>1. CASE InsertConflicts(r)
    BY <2>1, Moving DEF InsertConflicts
  <2>2. CASE RowGone(r)
    BY <2>2, Moving DEF RowGone
  <2>3. CASE Busy(r)
    BY <2>3, Moving DEF Busy
  <2>4. CASE OtherBody(r)
    BY <2>4, Moving DEF OtherBody
  <2>5. CASE Replay(r)
    BY <2>5, ReplayStep
  <2>6. CASE LoadCart(r)
    BY <2>6, Moving DEF LoadCart
  <2>7. CASE RaiseBeforeCommit(r)
    BY <2>7, Moving DEF RaiseBeforeCommit
  <2>8. CASE CommitOrder(r)
    BY <2>8, CommitOrderStep
  <2>9. CASE RaiseAfterCommit(r)
    BY <2>9, Moving DEF RaiseAfterCommit
  <2>10. CASE Return(r)
    BY <2>10, Moving DEF Return
  <2>11. CASE Complete(r)
    BY <2>11, CompleteStep
  <2>12. CASE CompleteFails(r)
    BY <2>12, Moving DEF CompleteFails
  <2>13. CASE Release(r)
    BY <2>13, ReleaseStep
  <2>14. CASE ReleaseFails(r)
    BY <2>14, Moving DEF ReleaseFails
  <2> QED
    BY <1>2, <2>1, <2>2, <2>3, <2>4, <2>5, <2>6, <2>7, <2>8, <2>9, <2>10, <2>11,
       <2>12, <2>13, <2>14 DEF Handle
<1>3. ASSUME NEW r \in Requests, Crash(r) PROVE IdemInv'
  <2> cartFull \in BOOLEAN
    BY DEF IdemInv, TypeOK
  <2> QED
    BY <1>3, Moving DEF Crash, call, Running, Holding, PCs
<1>4. ASSUME NEW k \in Keys, Expire(k) PROVE IdemInv'
  BY <1>4, ExpireStep
<1>5. CASE PurgeExpired
  BY <1>5, PurgeStep
<1>6. CASE FillCart
  BY <1>6 DEF FillCart, call, IdemInv, TypeOK, OwnerInv, EffectInv, KeptInv, Kept, Disowned,
     OneEffectPerKey, StoredInv, ReplayFaithful, SingleRunner, Holder
<1>7. CASE UNCHANGED vars
  BY <1>7 DEF vars, IdemInv, TypeOK, OwnerInv, EffectInv, KeptInv, Kept, Disowned,
     OneEffectPerKey, StoredInv, ReplayFaithful, SingleRunner, Holder
<1> QED
  BY <1>1, <1>2, <1>3, <1>4, <1>5, <1>6, <1>7 DEF Next

\* A runner owns the unfinished row of its key alone, and stored responses are
\* orders of their key and body.
THEOREM Invariance == Spec => []IdemInv
  BY Initially, Step, PTL DEF Spec

\* A completed row shows a response and no other row does, whatever happens.
THEOREM TypingTheorem == Spec => []TypeOK
<1>1. IdemInv => TypeOK
  BY DEF IdemInv
<1> QED
  BY Invariance, <1>1, PTL

\* However many retries race, one call at a time runs place_order for a key.
THEOREM SingleRunnerTheorem == Spec => []SingleRunner
<1>1. IdemInv => SingleRunner
  BY DEF IdemInv, OwnerInv
<1> QED
  BY Invariance, <1>1, PTL

\* A key never has two orders that both still stand for it: the promise of
\* idempotency_service, with its two exceptions spelled out.
THEOREM OneEffectTheorem == Spec => []OneEffectPerKey
<1>1. IdemInv => OneEffectPerKey
  BY DEF IdemInv
<1> QED
  BY Invariance, <1>1, PTL

\* A replay never shows another key's order, nor one of another body.
THEOREM ReplayTheorem == Spec => []ReplayFaithful
<1>1. IdemInv => ReplayFaithful
  BY DEF IdemInv
<1> QED
  BY Invariance, <1>1, PTL

\* No step overwrites or deletes a stored response that has not expired.
THEOREM CompletedKeptTheorem == Spec => CompletedKept
<1> DEFINE Keeps == \A k \in Keys : row[k].status = "completed" /\ ~row[k].expired
       => row'[k].status = "completed" /\ row'[k].order = row[k].order
<1>1. IdemInv /\ [Next]_vars => [Keeps]_vars
  <2> SUFFICES ASSUME IdemInv, Next, NEW k \in Keys,
                      row[k].status = "completed", ~row[k].expired
               PROVE  row'[k].status = "completed" /\ row'[k].order = row[k].order
    BY DEF vars
  <2> row \in [Keys -> Rows] /\ key \in [Requests -> Keys]
    BY DEF IdemInv, TypeOK
  <2> \A r \in Requests : pc[r] \in Holding => row[key[r]].status = "in_progress"
    BY DEF IdemInv, OwnerInv
  <2>1. ASSUME NEW r \in Requests, Reserve(r) PROVE row'[k] = row[k]
    BY <2>1 DEF Reserve
  <2>2. ASSUME NEW r \in Requests, Handle(r) PROVE row'[k] = row[k]
    BY <2>2 DEF Handle, InsertConflicts, RowGone, Busy, OtherBody, Replay, LoadCart,
       RaiseBeforeCommit, CommitOrder, RaiseAfterCommit, Return, Complete,
       CompleteFails, Release, ReleaseFails, Holding
  <2>3. ASSUME NEW r \in Requests, Crash(r) PROVE row'[k] = row[k]
    BY <2>3 DEF Crash
  <2>4. ASSUME NEW j \in Keys, Expire(j)
        PROVE  row'[k].status = row[k].status /\ row'[k].order = row[k].order
    BY <2>4 DEF Expire, Rows
  <2>5. CASE PurgeExpired
    BY <2>5 DEF PurgeExpired, Expired
  <2>6. CASE FillCart
    BY <2>6 DEF FillCart
  <2> QED
    BY <2>1, <2>2, <2>3, <2>4, <2>5, <2>6 DEF Next
<1> QED
  BY Invariance, <1>1, PTL DEF Spec, CompletedKept
-----------------------------------------------------------------------------
(* The refinement of AtMostOnce.                                           *)

\* A running call's order has not lapsed, a stored response and a reply show an
\* order whose own call was answered with it, and only a replay sets a reply.
StandInv ==
  /\ \A r \in Requests : pc[r] \in Holding => r \notin swept
  /\ \A k \in Keys : row[k].status = "completed" =>
       row[k].order \in Kept /\ pc[row[k].order] = "created"
  /\ \A r \in Requests : reply[r] # None => pc[r] = "replayed" /\ pc[reply[r]] = "created"

\* Whatever leaves the rows and the forgotten orders alone keeps them standing.
LEMMA StandMoves ==
  ASSUME IdemInv, StandInv, NEW r \in Requests, NEW where,
         Goto(r, where), where # "released", pc[r] \notin {"released", "replayed", "created"},
         where \in Holding => r \notin swept,
         UNCHANGED <<row, key, swept>>, orders \subseteq orders', reply' = reply
  PROVE  StandInv'
<1>1. \A q \in Requests : pc'[q] = IF q = r THEN where ELSE pc[q]
  BY DEF IdemInv, TypeOK, Goto
<1>2. Kept \subseteq Kept' /\ Kept \subseteq Requests
  BY <1>1 DEF Kept, Disowned, IdemInv, TypeOK
<1>3. \A q \in Requests : reply[q] \in Requests \union {None}
  BY DEF IdemInv, TypeOK
<1>4. \A q \in Requests : pc[q] = "created" => pc'[q] = "created"
  BY <1>1
<1>5. reply[r] = None
  BY DEF StandInv
<1> QED
  BY <1>1, <1>2, <1>3, <1>4, <1>5 DEF StandInv

\* A replay shows what the row shows, an order its own call was answered with.
LEMMA StandReplays ==
  ASSUME IdemInv, StandInv, NEW r \in Requests, Replay(r)
  PROVE  StandInv'
<1>1. /\ pc[r] = "conflict" /\ row[key[r]].status = "completed" /\ key[r] \in Keys
      /\ UNCHANGED <<row, orders, key, swept>>
  BY DEF Replay, call, IdemInv, TypeOK
<1>2. \A q \in Requests : pc'[q] = IF q = r THEN "replayed" ELSE pc[q]
  BY DEF Replay, IdemInv, TypeOK, Goto
<1>3. \A q \in Requests : reply'[q] = IF q = r THEN row[key[r]].order ELSE reply[q]
  BY DEF Replay, IdemInv, TypeOK
<1>4. Kept' = Kept /\ Kept \subseteq Requests
  BY <1>1, <1>2 DEF Kept, Disowned, IdemInv, TypeOK
<1>5. \A q \in Requests : pc[q] = "created" => pc'[q] = "created"
  BY <1>1, <1>2
<1>6. row[key[r]].order \in Requests /\ pc[row[key[r]].order] = "created"
  BY <1>1, <1>4 DEF StandInv
<1>7. \A q \in Requests : reply[q] \in Requests \union {None}
  BY DEF IdemInv, TypeOK
<1> QED
  BY <1>1, <1>2, <1>3, <1>4, <1>5, <1>6, <1>7 DEF StandInv, Holding

\* Every step keeps track of the order that stands for a key.
LEMMA StandStep == IdemInv /\ StandInv /\ [Next]_vars => StandInv'
<1> SUFFICES ASSUME IdemInv, StandInv, [Next]_vars PROVE StandInv'
  OBVIOUS
<1> USE DEF call
<1>0. /\ row \in [Keys -> Rows] /\ key \in [Requests -> Keys]
      /\ pc \in [Requests -> PCs] /\ reply \in [Requests -> Requests \union {None}]
      /\ swept \subseteq orders /\ Kept \subseteq Requests
  BY DEF IdemInv, TypeOK, Kept
<1>1. ASSUME NEW r \in Requests, Reserve(r) PROVE StandInv'
  <2>1. \A q \in Requests : pc'[q] = IF q = r THEN "working" ELSE pc[q]
    BY <1>0, <1>1 DEF Reserve, Goto
  <2>2. r \notin orders /\ r \notin swept /\ pc[r] = "start"
    BY <1>0, <1>1 DEF Reserve, IdemInv, EffectInv
  <2>3. Disowned' = Disowned
    BY <1>0, <1>1, <2>1, <2>2 DEF Disowned, Reserve, IdemInv, TypeOK
  <2>4. Kept' = Kept
    BY <1>1, <2>3 DEF Kept, Reserve
  <2>5. \A k \in Keys : row'[k].status = "completed" => row'[k] = row[k]
    BY <1>0, <1>1 DEF Reserve
  <2>6. reply[r] = None /\ UNCHANGED <<reply, swept>>
    BY <1>1 DEF StandInv, Reserve
  <2>7. \A q \in Requests : pc[q] = "created" => pc'[q] = "created"
    BY <2>1, <2>2
  <2> QED
    BY <1>0, <2>1, <2>2, <2>4, <2>5, <2>6, <2>7 DEF StandInv
<1>2. ASSUME NEW r \in Requests, Handle(r) PROVE StandInv'
  <2> USE <1>0 DEF Holding
  <2>1. CASE InsertConflicts(r) \/ RowGone(r) \/ Busy(r) \/ OtherBody(r)
    BY <2>1, StandMoves DEF InsertConflicts, RowGone, Busy, OtherBody
  <2>2. CASE LoadCart(r) \/ RaiseBeforeCommit(r) \/ RaiseAfterCommit(r) \/ Return(r)
    <3>1. r \notin swept
      BY <2>2 DEF StandInv, LoadCart, RaiseBeforeCommit, RaiseAfterCommit, Return
    <3> QED
      BY <2>2, <3>1, StandMoves DEF LoadCart, RaiseBeforeCommit, RaiseAfterCommit, Return
  <2>3. CASE CommitOrder(r)
    <3>1. r \notin swept
      BY <2>3 DEF StandInv, CommitOrder
    <3> QED
      BY <2>3, <3>1, StandMoves DEF CommitOrder
  <2>4. CASE CompleteFails(r) \/ ReleaseFails(r)
    BY <2>4, StandMoves DEF CompleteFails, ReleaseFails
  <2>5. CASE Complete(r)
    <3>1. \A q \in Requests : pc'[q] = IF q = r THEN "created" ELSE pc[q]
      BY <2>5 DEF Complete, Goto
    <3>2. UNCHANGED <<orders, key, reply, swept>> /\ reply[r] = None
      BY <2>5 DEF Complete, StandInv
    <3>3. Kept' = Kept
      BY <2>5, <3>1, <3>2 DEF Kept, Disowned, Complete, IdemInv, TypeOK
    <3>4. r \in Kept
      BY <2>5 DEF Kept, Disowned, Complete, StandInv, IdemInv, EffectInv
    <3>5. \A k \in Keys : row'[k].status = "completed" => row'[k].order \in {row[k].order, r}
                            /\ (row'[k].order # r => row[k].status = "completed")
      <4> SUFFICES ASSUME NEW k \in Keys, row'[k].status = "completed"
                   PROVE  row'[k] = row[k] \/ row'[k].order = r
        BY DEF Rows
      <4>1. CASE k # key[r]
        BY <2>5, <4>1 DEF Complete
      <4>2. CASE k = key[r]
        <5>1. row'[k] = row[k] \/ row'[k] = [row[k] EXCEPT !.status = "completed", !.order = r]
          BY <2>5, <4>2 DEF Complete
        <5>2. row[k] \in Rows
          BY <1>0
        <5>3. [row[k] EXCEPT !.status = "completed", !.order = r].order = r
          BY <5>2 DEF Rows
        <5> QED
          BY <5>1, <5>3
      <4> QED
        BY <4>1, <4>2
    <3>6. \A k \in Keys : row'[k].status = "completed" =>
            row'[k].order \in Kept' /\ pc'[row'[k].order] = "created"
      BY <3>1, <3>3, <3>4, <3>5 DEF StandInv
    <3> QED
      BY <3>1, <3>2, <3>6 DEF StandInv
  <2>6. CASE Release(r)
    <3>1. \A q \in Requests : pc'[q] = IF q = r THEN "released" ELSE pc[q]
      BY <2>6 DEF Release, Goto
    <3>2. UNCHANGED <<orders, key, reply, swept>> /\ reply[r] = None /\ pc[r] = "releasing"
      BY <2>6 DEF Release, StandInv
    <3>3. Kept \ {r} \subseteq Kept'
      BY <3>1, <3>2 DEF Kept, Disowned, IdemInv, TypeOK
    <3>4. row[key[r]].status = "in_progress"
      BY <2>6 DEF Release, IdemInv, OwnerInv
    <3>5. \A k \in Keys : row'[k].status = "completed" => row'[k] = row[k] /\ k # key[r]
      BY <2>6, <3>4 DEF Release, NoRow
    <3>6. \A k \in Keys : row'[k].status = "completed" => row'[k].order # r
      BY <3>2, <3>5 DEF StandInv
    <3>7. \A q \in Requests : pc[q] = "created" => pc'[q] = "created"
      BY <3>1, <3>2
    <3> QED
      BY <3>1, <3>2, <3>3, <3>5, <3>6, <3>7 DEF StandInv
  <2> QED
    BY <1>2, <2>1, <2>2, <2>3, <2>4, <2>5, <2>6, StandReplays DEF Handle
<1>3. ASSUME NEW r \in Requests, Crash(r) PROVE StandInv'
  BY <1>3, StandMoves DEF Crash, Running, Holding
<1>4. ASSUME NEW k \in Keys, Expire(k) PROVE StandInv'
  <2>1. \A j \in Keys : row'[j].status = row[j].status /\ row'[j].order = row[j].order
    BY <1>0, <1>4 DEF Expire, Rows
  <2>2. Kept' = Kept
    BY <1>4 DEF Expire, Kept, Disowned
  <2> QED
    BY <1>4, <2>1, <2>2 DEF StandInv, Expire
<1>5. CASE PurgeExpired
  <2>1. \A q \in Requests : q \in swept' => q \in swept \/ row[key[q]].expired
    BY <1>5 DEF PurgeExpired, Expired
  <2>2. \A k \in Keys : row'[k].status = "completed" => row'[k] = row[k] /\ ~row[k].expired
    BY <1>5 DEF PurgeExpired, Expired, NoRow
  <2>3. \A o \in Kept : ~row[key[o]].expired => o \in Kept'
    BY <1>0, <1>5, <2>1 DEF PurgeExpired, Kept, Disowned, IdemInv, TypeOK
  <2>4. \A k \in Keys : row'[k].status = "completed" => row'[k].order \in Kept'
    BY <2>2, <2>3 DEF StandInv, IdemInv, StoredInv
  <2>5. \A q \in Requests : pc[q] \in Holding => q \notin swept'
    BY <2>1 DEF StandInv, IdemInv, OwnerInv
  <2> QED
    BY <1>5, <2>2, <2>4, <2>5 DEF PurgeExpired, StandInv
<1>6. CASE FillCart \/ UNCHANGED vars
  BY <1>6 DEF FillCart, vars, StandInv, Kept, Disowned
<1> QED
  BY <1>1, <1>2, <1>3, <1>4, <1>5, <1>6 DEF Next

\* The orders that stand in AtMostOnce are the orders nobody forgot, and while
\* a call runs for a key only its own order can be one.
LEMMA StandsIsKept == \A o : Once!Stands(o) <=> o \in Kept
BY DEF Once!Stands, Kept

LEMMA RunningStands ==
  ASSUME IdemInv, NEW r \in Requests, pc[r] \in Holding, NEW o \in Kept, key[o] = key[r]
  PROVE  o = r
BY DEF IdemInv, KeptInv, Holder

\* Every step is a step of AtMostOnce or changes nothing of it.
LEMMA OnceStep == IdemInv /\ StandInv /\ [Next]_vars => [Once!Next]_Once!vars
<1> SUFFICES ASSUME IdemInv, StandInv, [Next]_vars
             PROVE  Once!Next \/ UNCHANGED <<key, body, orders, swept, Disowned, Told>>
  BY DEF Once!vars
<1> USE DEF call
<1>0. /\ row \in [Keys -> Rows] /\ key \in [Requests -> Keys] /\ pc \in [Requests -> PCs]
      /\ orders \subseteq Requests /\ swept \subseteq orders
      /\ reply \in [Requests -> Requests \union {None}]
      /\ None \notin Requests
  BY NoneAssumption DEF IdemInv, TypeOK
<1>1. ASSUME NEW r \in Requests, NEW where, Goto(r, where), where \notin {"released", "created"},
             pc[r] \notin {"released", "created"}, reply' = reply
      PROVE  /\ Told' = Told
             /\ orders' \subseteq orders \union {r} => Disowned' \subseteq Disowned
             /\ orders \subseteq orders' => Disowned \subseteq Disowned'
  <2>1. \A q \in Requests : pc'[q] = IF q = r THEN where ELSE pc[q]
    BY <1>0, <1>1 DEF Goto
  <2>2. Told' = Told
    BY <1>1, <2>1 DEF Told
  <2> QED
    BY <1>0, <1>1, <2>1, <2>2 DEF Disowned
<1>2. ASSUME NEW r \in Requests, NEW where, Goto(r, where), where \notin {"released", "created"},
             pc[r] \notin {"released", "created"}, UNCHANGED <<key, body, orders, swept, reply>>
      PROVE  UNCHANGED <<key, body, orders, swept, Disowned, Told>>
  <2>1. Told' = Told /\ Disowned' \subseteq Disowned /\ Disowned \subseteq Disowned'
    BY <1>1, <1>2
  <2> QED
    BY <1>2, <2>1
<1>3. ASSUME NEW r \in Requests, Reserve(r) \/ Crash(r)
      PROVE  UNCHANGED <<key, body, orders, swept, Disowned, Told>>
  BY <1>2, <1>3 DEF Reserve, Crash, Running, Holding
<1>4. ASSUME NEW r \in Requests, Handle(r)
      PROVE  Once!Next \/ UNCHANGED <<key, body, orders, swept, Disowned, Told>>
  <2>1. CASE InsertConflicts(r) \/ RowGone(r) \/ Busy(r) \/ OtherBody(r)
    BY <2>1, <1>2 DEF InsertConflicts, RowGone, Busy, OtherBody
  <2>2. CASE LoadCart(r) \/ RaiseBeforeCommit(r) \/ RaiseAfterCommit(r) \/ Return(r)
    BY <2>2, <1>2 DEF LoadCart, RaiseBeforeCommit, RaiseAfterCommit, Return
  <2>3. CASE CompleteFails(r) \/ ReleaseFails(r)
    BY <2>3, <1>2 DEF CompleteFails, ReleaseFails
  <2>4. CASE CommitOrder(r)
    <3>1. /\ UNCHANGED <<key, body, reply, swept>> /\ orders' = orders \union {r}
          /\ pc[r] = "placing" /\ reply[r] = None /\ r \notin orders /\ Goto(r, "committed")
      BY <2>4 DEF CommitOrder, StandInv, IdemInv, EffectInv
    <3>2. Told' = Told /\ Disowned' \subseteq Disowned /\ Disowned \subseteq Disowned'
      BY <1>1, <3>1
    <3>3. ~\E e \in orders : Once!Stands(e) /\ key[e] = key[r]
      BY <3>1, RunningStands, StandsIsKept DEF Kept, Holding
    <3>4. Told[r] = None
      BY <3>1 DEF Told
    <3> QED
      BY <3>1, <3>2, <3>3, <3>4 DEF Once!Next, Once!Perform
  <2>5. CASE Complete(r)
    <3>1. \A q \in Requests : pc'[q] = IF q = r THEN "created" ELSE pc[q]
      BY <1>0, <2>5 DEF Complete, Goto
    <3>2. /\ UNCHANGED <<orders, key, body, reply, swept>> /\ pc[r] = "completing"
          /\ r \notin swept /\ reply[r] = None /\ r \in orders
      BY <2>5 DEF Complete, StandInv, Holding, IdemInv, EffectInv
    <3>3. Disowned' = Disowned /\ Once!Stands(r)
      BY <1>0, <3>1, <3>2 DEF Disowned, Once!Stands
    <3>4. Told[r] = None /\ Told' = [Told EXCEPT ![r] = r]
      BY <3>1, <3>2 DEF Told
    <3> QED
      BY <3>2, <3>3, <3>4 DEF Once!Next, Once!Tell
  <2>6. CASE Replay(r)
    <3> DEFINE o == row[key[r]].order
    <3>1. \A q \in Requests : pc'[q] = IF q = r THEN "replayed" ELSE pc[q]
      BY <1>0, <2>6 DEF Replay, Goto
    <3>2. /\ UNCHANGED <<orders, key, body, swept>> /\ pc[r] = "conflict"
          /\ reply' = [reply EXCEPT ![r] = o] /\ reply[r] = None
          /\ row[key[r]].status = "completed" /\ row[key[r]].body = body[r]
      BY <2>6 DEF Replay, StandInv
    <3>3. Disowned' = Disowned
      BY <1>0, <3>1, <3>2 DEF Disowned
    <3>4. o \in Kept /\ o \in Requests /\ key[o] = key[r] /\ body[o] = body[r]
      BY <1>0, <3>2 DEF StandInv, IdemInv, StoredInv
    <3>5. Told[r] = None /\ Told' = [Told EXCEPT ![r] = o]
      BY <1>0, <3>1, <3>2 DEF Told
    <3>6. Once!Tell(r, o)
      BY <3>2, <3>3, <3>4, <3>5, StandsIsKept DEF Once!Tell
    <3> QED
      BY <3>4, <3>6 DEF Once!Next
  <2>7. CASE Release(r)
    <3>1. \A q \in Requests : pc'[q] = IF q = r THEN "released" ELSE pc[q]
      BY <1>0, <2>7 DEF Release, Goto
    <3>2. UNCHANGED <<orders, key, body, reply, swept>> /\ pc[r] = "releasing" /\ r \notin swept
      BY <2>7 DEF Release, StandInv, Holding
    <3>3. Told' = Told
      BY <3>1, <3>2 DEF Told
    <3>4. CASE r \notin orders
      BY <1>0, <3>1, <3>2, <3>3, <3>4 DEF Disowned
    <3>5. CASE r \in orders
      <4>1. Disowned' = Disowned \union {r} /\ Once!Stands(r)
        BY <1>0, <3>1, <3>2, <3>5 DEF Disowned, Once!Stands
      <4>2. \A q \in Requests : Told[q] # r
        BY <1>0, <3>2 DEF Told, StandInv
      <4> QED
        BY <3>2, <3>3, <4>1, <4>2 DEF Once!Next, Once!Disown
    <3> QED
      BY <3>4, <3>5
  <2> QED
    BY <1>4, <2>1, <2>2, <2>3, <2>4, <2>5, <2>6, <2>7 DEF Handle
<1>5. CASE PurgeExpired
  <2> DEFINE K == {k \in Keys : row[k].expired}
  <2>1. UNCHANGED <<orders, key, body, reply, pc>>
    BY <1>5 DEF PurgeExpired
  <2>2. swept' = swept \union {e \in orders : key[e] \in K}
    BY <1>0, <1>5 DEF PurgeExpired, Expired
  <2>3. Told' = Told /\ Disowned' = Disowned
    BY <2>1 DEF Told, Disowned
  <2>4. Once!Lapse(K)
    BY <2>1, <2>2, <2>3 DEF Once!Lapse
  <2> QED
    BY <2>4 DEF Once!Next
<1>6. CASE FillCart \/ UNCHANGED vars \/ \E k \in Keys : Expire(k)
  <2>1. UNCHANGED <<orders, key, body, reply, pc, swept>>
    BY <1>6 DEF FillCart, vars, Expire
  <2> QED
    BY <2>1 DEF Told, Disowned
<1> QED
  BY <1>3, <1>4, <1>5, <1>6 DEF Next

\* Before the first call nothing stands and nobody was told anything.
LEMMA OnceInit == Init => Once!Init /\ StandInv
<1> SUFFICES ASSUME Init PROVE Once!Init /\ StandInv
  OBVIOUS
<1>1. Once!Init
  BY DEF Init, Once!Init, Told, Disowned
<1>2. StandInv
  BY DEF Init, StandInv, Holding, NoRow
<1> QED
  BY <1>1, <1>2

\* The service implements AtMostOnce: through crashes, lost releases, expiry
\* and sweeps, every step is a step of the abstract promise or none at all.
THEOREM AtMostOnceTheorem == Spec => AtMostOnceSpec
<1>1. Init => IdemInv /\ StandInv /\ Once!Init
  BY Initially, OnceInit
<1>2. IdemInv /\ StandInv /\ [Next]_vars => IdemInv' /\ StandInv'
  BY Step, StandStep
<1>3. IdemInv /\ StandInv /\ [Next]_vars => [Once!Next]_Once!vars
  BY OnceStep
<1> QED
  BY <1>1, <1>2, <1>3, PTL DEF Spec, AtMostOnceSpec, Once!Spec

-----------------------------------------------------------------------------
(* What follows from AtMostOnce alone.                                     *)

PromiseInv ==
  /\ orders \subseteq Requests
  /\ Told \in [Requests -> Requests \union {None}]
  /\ Once!OneStands /\ Once!Backed

\* Whatever implements AtMostOnce has one standing effect per key, and backs
\* what it told.
LEMMA PromiseStep == PromiseInv /\ [Once!Next]_Once!vars => PromiseInv'
<1> SUFFICES ASSUME PromiseInv, [Once!Next]_Once!vars PROVE PromiseInv'
  OBVIOUS
<1> USE DEF PromiseInv, Once!OneStands, Once!Backed, Once!Stands
<1>1. ASSUME NEW c \in Requests, Once!Perform(c) PROVE PromiseInv'
  BY <1>1 DEF Once!Perform
<1>2. ASSUME NEW c \in Requests, Once!Disown(c) PROVE PromiseInv'
  BY <1>2 DEF Once!Disown
<1>3. ASSUME NEW c \in Requests, NEW e \in Requests, Once!Tell(c, e) PROVE PromiseInv'
  BY <1>3 DEF Once!Tell
<1>4. ASSUME NEW K \in SUBSET Keys, Once!Lapse(K) PROVE PromiseInv'
  BY <1>4 DEF Once!Lapse
<1>5. CASE UNCHANGED Once!vars
  BY <1>5 DEF Once!vars
<1> QED
  BY <1>1, <1>2, <1>3, <1>4, <1>5 DEF Once!Next

\* Calls with one key that were answered with an order were shown the same one,
\* unless the sweep forgot one that was shown (idempotency_service.py:9-14).
THEOREM AgreeTheorem == Spec => []AnswersAgree
<1>1. Once!Init => PromiseInv
  BY DEF Once!Init, PromiseInv, Once!OneStands, Once!Backed
<1>2. PromiseInv => AnswersAgree
  BY DEF PromiseInv, AnswersAgree, Once!Agreed, Once!OneStands, Once!Backed, Once!Stands
<1>3. PromiseInv /\ [Once!Next]_Once!vars => PromiseInv'
  BY PromiseStep
<1> QED
  BY <1>1, <1>2, <1>3, AtMostOnceTheorem, PTL DEF AtMostOnceSpec, Once!Spec
=============================================================================
