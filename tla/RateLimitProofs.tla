--------------------------- MODULE RateLimitProofs ---------------------------
(***************************************************************************)
(* The budgets for any number of calls, keys and workers, any limit and    *)
(* window, and any loss of Redis's replies.                                *)
(***************************************************************************)
EXTENDS RateLimit, FiniteSetTheorems, TLAPS

\* The grants g fall into those at least a Window old and at most Limit others,
\* which the counter, at count until the time until, still counts.
Kept(g, count, until, time) ==
  /\ until <= time + Window
  /\ \A i \in 1 .. Len(g) : g[i] + Window <= until
  /\ \E n \in 0 .. Len(g) : /\ Len(g) - n <= count
                            /\ Len(g) - n <= Limit
                            /\ \A i \in 1 .. n : g[i] + Window <= time

\* The counter counts the last of the hits h, each within a Window of the one
\* before.
Chained(h, count, until) ==
  /\ count <= Len(h)
  /\ IF count > 0 THEN until = h[Len(h)] + Window ELSE until = 0
  /\ \A i \in 1 .. Len(h) - 1 : i > Len(h) - count => h[i + 1] < h[i] + Window

RedisOK(k) ==
  /\ Kept(granted[k], counter[k].count, counter[k].until, now)
  /\ Chained(hits[k], counter[k].count, counter[k].until)

\* What a thread will write over the entry l of a key whose attempts g a worker
\* let through, when no other thread writes it.
HandKept(g, l, h, time) ==
  \/ /\ l.count > 0
     /\ h.started = l.started /\ h.count = l.count + 1
  \/ /\ h.count = 1 /\ h.started <= time
     /\ l.count = 0 \/ l.started + Window <= h.started
     /\ \A i \in 1 .. Len(g) : g[i] <= h.started

\* The attempts let through are those of windows before the last one, those of
\* the last one, and those of the present window.
Windows(g, l) ==
  \E n \in 0 .. Len(g) : \E m \in 0 .. n :
    /\ n - m <= Limit
    /\ Len(g) - n <= l.count
    /\ Len(g) - n <= Limit
    /\ \A i \in 1 .. m : g[i] + Window <= l.started
    /\ \A i \in 1 .. n : g[i] <= l.started

Twice(g) ==
  \A i \in 1 .. Len(g), j \in 1 .. Len(g) : j = i + 2 * Limit => g[i] + Window <= g[j]

LocalKept(g, l, time) ==
  /\ l.started <= time
  /\ l.count = 0 => g = <<>>
  /\ \A i \in 1 .. Len(g) : g[i] <= time
  /\ Windows(g, l)
  /\ Twice(g)

WritesTo(c, w, k) == pc[c] = "write" /\ worker[c] = w /\ chain[c][at[c] + 1] = k

LocalOK(w, k) ==
  /\ LocalKept(passed[w][k], locals[w][k], now)
  /\ \A c \in Calls : WritesTo(c, w, k) => HandKept(passed[w][k], locals[w][k], hand[c], now)

LocalInv == \A w \in Workers, k \in Keys : k \notin raced[w] => LocalOK(w, k)

RateInv ==
  /\ TypeOK
  /\ \A k \in Keys : RedisOK(k)
  /\ LocalInv

-----------------------------------------------------------------------------
(* Typing                                                                  *)

LEMMA KeyOfCall ==
  ASSUME TypeOK, NEW c \in Calls, at[c] < Len(chain[c])
  PROVE  chain[c][at[c] + 1] \in Keys /\ Len(chain[c]) \in Nat
<1>1. chain[c] \in Seq(Keys) /\ at[c] \in Nat
  BY ChainsAssumption DEF TypeOK
<1>2. Len(chain[c]) \in Nat
  BY <1>1
<1>3. at[c] + 1 \in 1 .. Len(chain[c])
  BY <1>1, <1>2
<1> QED
  BY <1>1, <1>2, <1>3

\* Judge moves the call it is given and no other.
LEMMA JudgeTyped ==
  ASSUME TypeOK, NEW c \in Calls, at[c] < Len(chain[c]), NEW count \in Nat, Judge(c, count),
         UNCHANGED chain
  PROVE  /\ at' \in [Calls -> Nat]
         /\ pc' \in [Calls -> {"check", "local", "write", "served", "refused"}]
         /\ \A d \in Calls : d # c => pc'[d] = pc[d] /\ at'[d] = at[d]
         /\ pc'[c] \in {"check", "served", "refused"}
         /\ pc'[c] = "served" => at'[c] = Len(chain[c])
         /\ pc'[c] = "refused" <=> count > Limit
<1>1. /\ at \in [Calls -> Nat]
      /\ pc \in [Calls -> {"check", "local", "write", "served", "refused"}]
  BY DEF TypeOK
<1>2. CASE count > Limit
  <2>1. pc' = [pc EXCEPT ![c] = "refused"] /\ at' = at
    BY <1>2, BudgetAssumption DEF Judge
  <2> QED
    BY <1>1, <1>2, <2>1
<1>3. CASE count <= Limit
  <2>1. /\ at' = [at EXCEPT ![c] = @ + 1]
        /\ pc' = [pc EXCEPT ![c] = IF at[c] + 1 = Len(chain[c]) THEN "served" ELSE "check"]
        /\ ~(count > Limit)
    BY <1>3, BudgetAssumption DEF Judge
  <2> QED
    BY <1>1, <2>1
<1> QED
  BY <1>2, <1>3, BudgetAssumption

\* Charging a key counts and records one hit, of this key only.
LEMMA ChargeTyped ==
  ASSUME TypeOK, NEW k \in Keys, Charge(k)
  PROVE  /\ counter' \in [Keys -> [count : Nat, until : Nat]]
         /\ hits' \in [Keys -> Seq(Nat)]
         /\ CountedNow(k) \in Nat
         /\ counter'[k] = [count |-> CountedNow(k), until |-> now + Window]
         /\ hits'[k] = Append(hits[k], now)
         /\ \A x \in Keys : x # k => counter'[x] = counter[x] /\ hits'[x] = hits[x]
<1>1. CountedNow(k) \in Nat /\ now + Window \in Nat
  BY BudgetAssumption DEF CountedNow, TypeOK
<1>2. Append(hits[k], now) \in Seq(Nat)
  BY DEF TypeOK
<1> QED
  BY <1>1, <1>2 DEF Charge, TypeOK

\* The initial state is well typed.
LEMMA TypeInit == Init => TypeOK
<1> SUFFICES ASSUME Init PROVE TypeOK
  OBVIOUS
<1>1. <<>> \in Seq(Nat)
  OBVIOUS
<1>2. [count |-> 0, until |-> 0] \in [count : Nat, until : Nat]
      /\ [started |-> 0, count |-> 0] \in [started : Nat, count : Nat]
  OBVIOUS
<1> QED
  BY <1>1, <1>2 DEF Init, TypeOK

\* Every step preserves the types.
LEMMA TypeStep == TypeOK /\ [Next]_vars => TypeOK'
<1> SUFFICES ASSUME TypeOK, [Next]_vars PROVE TypeOK'
  OBVIOUS
<1>1. ASSUME NEW c \in Calls, NEW k \in Keys, HitRedis(c, k) PROVE TypeOK'
  <2>1. at[c] < Len(chain[c]) /\ Charge(k) /\ Judge(c, CountedNow(k))
        /\ UNCHANGED <<now, failures, fixed, inWorkers>>
    BY <1>1 DEF HitRedis, Checks
  <2>2. granted' \in [Keys -> Seq(Nat)]
    <3>1. Append(granted[k], now) \in Seq(Nat)
      BY DEF TypeOK
    <3> QED
      BY <1>1, <3>1 DEF HitRedis, TypeOK
  <2>3. \A d \in Calls : pc'[d] \in {"local", "write"} => at'[d] < Len(chain[d])
    BY <2>1, ChargeTyped, JudgeTyped DEF TypeOK, fixed
  <2>4. \A d \in Calls : pc'[d] = "served" => at'[d] = Len(chain[d])
    BY <2>1, ChargeTyped, JudgeTyped DEF TypeOK, fixed
  <2>5. at' \in [Calls -> Nat] /\ pc' \in [Calls -> {"check", "local", "write", "served", "refused"}]
    BY <2>1, ChargeTyped, JudgeTyped DEF fixed
  <2>6. counter' \in [Keys -> [count : Nat, until : Nat]] /\ hits' \in [Keys -> Seq(Nat)]
    BY <2>1, ChargeTyped
  <2> QED
    BY <2>1, <2>2, <2>3, <2>4, <2>5, <2>6 DEF TypeOK, fixed, inWorkers
<1>2. ASSUME NEW c \in Calls, NEW k \in Keys, RedisGone(c, k) PROVE TypeOK'
  <2>1. counter' \in [Keys -> [count : Nat, until : Nat]] /\ hits' \in [Keys -> Seq(Nat)]
    BY <1>2, ChargeTyped DEF RedisGone, TypeOK
  <2>2. /\ pc' = [pc EXCEPT ![c] = "local"] /\ at[c] < Len(chain[c])
        /\ failures' = failures + 1
        /\ UNCHANGED <<now, fixed, at, granted, inWorkers>>
    BY <1>2 DEF RedisGone, Checks
  <2>3. /\ pc' \in [Calls -> {"check", "local", "write", "served", "refused"}]
        /\ \A d \in Calls : d # c => pc'[d] = pc[d]
        /\ pc'[c] = "local"
    BY <2>2 DEF TypeOK
  <2>4. \A d \in Calls : /\ pc'[d] \in {"local", "write"} => at'[d] < Len(chain'[d])
                         /\ pc'[d] = "served" => at'[d] = Len(chain'[d])
    BY <2>2, <2>3 DEF TypeOK, fixed
  <2>5. /\ granted' \in [Keys -> Seq(Nat)] /\ passed' \in [Workers -> [Keys -> Seq(Nat)]]
        /\ raced' \in [Workers -> SUBSET Keys]
        /\ hand' \in [Calls -> [started : Nat, count : Nat]]
        /\ locals' \in [Workers -> [Keys -> [started : Nat, count : Nat]]]
    BY <2>2 DEF TypeOK, inWorkers
  <2>6. /\ chain' \in [Calls -> Chains] /\ worker' \in [Calls -> Workers]
        /\ now' \in Nat /\ failures' \in Nat /\ at' \in [Calls -> Nat]
    BY <2>2 DEF TypeOK, fixed
  <2> QED
    BY <2>1, <2>3, <2>4, <2>5, <2>6 DEF TypeOK
<1>3. ASSUME NEW c \in Calls, ReadLocal(c) PROVE TypeOK'
  <2>1. at[c] < Len(chain[c]) /\ worker[c] \in Workers
    BY <1>3 DEF ReadLocal, TypeOK
  <2>2. hand' \in [Calls -> [started : Nat, count : Nat]]
    <3> DEFINE mine == locals[worker[c]][chain[c][at[c] + 1]]
    <3>1. chain[c][at[c] + 1] \in Keys
      BY <2>1, KeyOfCall
    <3>2. mine \in [started : Nat, count : Nat] /\ now \in Nat
      BY <2>1, <3>1 DEF TypeOK
    <3>3. [mine EXCEPT !.count = @ + 1] \in [started : Nat, count : Nat]
          /\ [started |-> now, count |-> 1] \in [started : Nat, count : Nat]
      BY <3>2
    <3> QED
      BY <1>3, <3>3 DEF ReadLocal, TypeOK
  <2>3. /\ pc' = [pc EXCEPT ![c] = "write"]
        /\ UNCHANGED <<now, failures, fixed, at, redis, locals, passed, raced>>
    BY <1>3 DEF ReadLocal
  <2>4. /\ pc' \in [Calls -> {"check", "local", "write", "served", "refused"}]
        /\ \A d \in Calls : d # c => pc'[d] = pc[d]
        /\ pc'[c] = "write"
    BY <2>3 DEF TypeOK
  <2>5. \A d \in Calls : /\ pc'[d] \in {"local", "write"} => at'[d] < Len(chain'[d])
                         /\ pc'[d] = "served" => at'[d] = Len(chain'[d])
    BY <2>1, <2>3, <2>4 DEF TypeOK, fixed
  <2>6. /\ TypeOK!1' /\ counter' \in [Keys -> [count : Nat, until : Nat]]
        /\ granted' \in [Keys -> Seq(Nat)] /\ hits' \in [Keys -> Seq(Nat)]
        /\ passed' \in [Workers -> [Keys -> Seq(Nat)]]
    BY <2>3 DEF TypeOK, redis
  <2> QED
    BY <2>2, <2>3, <2>4, <2>5, <2>6 DEF TypeOK, fixed
<1>4. ASSUME NEW c \in Calls, WriteLocal(c) PROVE TypeOK'
  <2> DEFINE w == worker[c]
             k == chain[c][at[c] + 1]
  <2>1. w \in Workers /\ k \in Keys /\ at[c] < Len(chain[c]) /\ hand[c].count \in Nat
    BY <1>4, KeyOfCall DEF WriteLocal, TypeOK
  <2>2. Judge(c, hand[c].count) /\ UNCHANGED <<now, failures, fixed, redis, hand>>
    BY <1>4 DEF WriteLocal
  <2>3. locals' \in [Workers -> [Keys -> [started : Nat, count : Nat]]]
    BY <1>4, <2>1 DEF WriteLocal, TypeOK
  <2>4. passed' \in [Workers -> [Keys -> Seq(Nat)]]
    <3>1. Append(passed[w][k], now) \in Seq(Nat)
      BY <2>1 DEF TypeOK
    <3> QED
      BY <1>4, <2>1, <3>1 DEF WriteLocal, TypeOK
  <2>5. raced' \in [Workers -> SUBSET Keys]
    BY <1>4, <2>1 DEF WriteLocal, TypeOK
  <2>6. \A d \in Calls : /\ pc'[d] \in {"local", "write"} => at'[d] < Len(chain[d])
                         /\ pc'[d] = "served" => at'[d] = Len(chain[d])
    BY <2>1, <2>2, JudgeTyped DEF TypeOK, fixed
  <2>7. at' \in [Calls -> Nat] /\ pc' \in [Calls -> {"check", "local", "write", "served", "refused"}]
    BY <2>1, <2>2, JudgeTyped DEF fixed
  <2> QED
    BY <2>2, <2>3, <2>4, <2>5, <2>6, <2>7 DEF TypeOK, fixed, redis
<1>5. CASE Tick
  BY <1>5 DEF Tick, TypeOK, fixed, redis, inWorkers
<1>6. CASE UNCHANGED vars
  BY <1>6 DEF vars, TypeOK
<1> QED
  BY <1>1, <1>2, <1>3, <1>4, <1>5, <1>6 DEF Next

-----------------------------------------------------------------------------
(* Redis                                                                   *)

LEMMA SeqFacts ==
  ASSUME NEW s \in Seq(Nat)
  PROVE  /\ Len(s) \in Nat
         /\ \A i \in 1 .. Len(s) : s[i] \in Nat
  OBVIOUS

\* What Append adds and keeps.
LEMMA AppendFacts ==
  ASSUME NEW s \in Seq(Nat), NEW e \in Nat
  PROVE  /\ Len(Append(s, e)) = Len(s) + 1
         /\ Append(s, e)[Len(s) + 1] = e
         /\ \A i \in 1 .. Len(s) : Append(s, e)[i] = s[i]
  OBVIOUS

\* The counters and histories of one key have their types.
LEMMA KeyTyped ==
  ASSUME TypeOK, NEW k \in Keys
  PROVE  /\ granted[k] \in Seq(Nat) /\ hits[k] \in Seq(Nat)
         /\ counter[k].count \in Nat /\ counter[k].until \in Nat
         /\ now \in Nat /\ Window \in Nat \ {0} /\ Limit \in Nat \ {0}
<1>1. /\ granted \in [Keys -> Seq(Nat)] /\ hits \in [Keys -> Seq(Nat)]
      /\ counter \in [Keys -> [count : Nat, until : Nat]] /\ now \in Nat
  BY DEF TypeOK
<1> QED
  BY <1>1, BudgetAssumption

\* The count after one more hit.
Bumped(count, until, time) == IF time < until THEN count + 1 ELSE 1

\* A hit keeps the counter's account of its own hits.
LEMMA ChargeChained ==
  ASSUME NEW h \in Seq(Nat), NEW count \in Nat, NEW until \in Nat, NEW time \in Nat,
         Chained(h, count, until)
  PROVE  Chained(Append(h, time), Bumped(count, until, time), time + Window)
<1> DEFINE e == Append(h, time)
           cn == Bumped(count, until, time)
<1>1. Len(h) \in Nat /\ Window \in Nat /\ \A i \in 1 .. Len(h) : h[i] \in Nat
  BY SeqFacts, BudgetAssumption
<1>2. /\ Len(e) = Len(h) + 1 /\ e[Len(h) + 1] = time
      /\ \A i \in 1 .. Len(h) : e[i] = h[i]
  BY AppendFacts
<1> HIDE DEF e
<1>3. cn \in 1 .. Len(h) + 1
  BY <1>1 DEF Bumped, Chained
<1>4. ASSUME NEW i \in 1 .. Len(h), i > Len(h) + 1 - cn
      PROVE  e[i + 1] < e[i] + Window
  <2>1. time < until /\ cn = count + 1
    BY <1>1, <1>4 DEF Bumped
  <2>2. CASE i = Len(h)
    <3>1. until = h[Len(h)] + Window
      BY <1>1, <2>1 DEF Chained
    <3> QED
      BY <1>1, <1>2, <2>1, <2>2, <3>1
  <2>3. CASE i < Len(h)
    <3>1. i \in 1 .. Len(h) - 1 /\ i > Len(h) - count
      BY <1>1, <1>4, <2>1, <2>3
    <3>2. h[i + 1] < h[i] + Window
      BY <3>1 DEF Chained
    <3>3. i + 1 \in 1 .. Len(h)
      BY <1>1, <3>1
    <3> QED
      BY <1>2, <3>2, <3>3
  <2> QED
    BY <1>1, <2>2, <2>3
<1> HIDE DEF cn
<1>5. Chained(e, cn, time + Window)
  BY <1>1, <1>2, <1>3, <1>4 DEF Chained
<1> QED
  BY <1>5 DEF e, cn

\* A charge that lets nobody through leaves the budget kept.
LEMMA ChargeKeeps ==
  ASSUME NEW g \in Seq(Nat), NEW count \in Nat, NEW until \in Nat, NEW time \in Nat,
         Kept(g, count, until, time)
  PROVE  Kept(g, Bumped(count, until, time), time + Window, time)
<1>1. /\ Len(g) \in Nat /\ Window \in Nat /\ Limit \in Nat
      /\ \A i \in 1 .. Len(g) : g[i] \in Nat
  BY SeqFacts, BudgetAssumption
<1>2. \A i \in 1 .. Len(g) : g[i] + Window <= time + Window
  BY <1>1 DEF Kept
<1>3. CASE time < until
  <2>1. PICK n \in 0 .. Len(g) : /\ Len(g) - n <= count /\ Len(g) - n <= Limit
                                /\ \A i \in 1 .. n : g[i] + Window <= time
    BY DEF Kept
  <2>2. Len(g) - n <= count + 1
    BY <1>1, <2>1
  <2> QED
    BY <1>1, <1>2, <1>3, <2>1, <2>2 DEF Kept, Bumped
<1>4. CASE ~(time < until)
  <2>1. \A i \in 1 .. Len(g) : g[i] + Window <= time
    BY <1>1, <1>4 DEF Kept
  <2>2. Len(g) \in 0 .. Len(g) /\ Len(g) - Len(g) = 0
    BY <1>1
  <2> QED
    BY <1>1, <1>2, <1>4, <2>1, <2>2 DEF Kept, Bumped
<1> QED
  BY <1>3, <1>4

\* A counted attempt is affordable, and leaves the budget kept.
LEMMA GrantKeeps ==
  ASSUME NEW g \in Seq(Nat), NEW count \in Nat, NEW until \in Nat, NEW time \in Nat,
         Kept(g, count, until, time), Bumped(count, until, time) <= Limit
  PROVE  /\ Kept(Append(g, time), Bumped(count, until, time), time + Window, time)
         /\ Len(g) < Limit \/ g[Len(g) + 1 - Limit] + Window <= time
<1> DEFINE e == Append(g, time)
           cn == Bumped(count, until, time)
<1>1. /\ Len(g) \in Nat /\ Window \in Nat /\ Limit \in Nat \ {0}
      /\ \A i \in 1 .. Len(g) : g[i] \in Nat
  BY SeqFacts, BudgetAssumption
<1>2. /\ Len(e) = Len(g) + 1 /\ e[Len(g) + 1] = time
      /\ \A i \in 1 .. Len(g) : e[i] = g[i]
  BY AppendFacts
<1> HIDE DEF e
<1>3. \E n \in 0 .. Len(g) : /\ Len(g) + 1 - n <= cn
                             /\ \A i \in 1 .. n : g[i] + Window <= time
  <2>1. CASE time < until
    <3>1. PICK n \in 0 .. Len(g) : /\ Len(g) - n <= count
                                  /\ \A i \in 1 .. n : g[i] + Window <= time
      BY DEF Kept
    <3>2. Len(g) + 1 - n <= count + 1
      BY <1>1, <3>1
    <3> QED
      BY <2>1, <3>1, <3>2 DEF Bumped
  <2>2. CASE ~(time < until)
    <3>1. \A i \in 1 .. Len(g) : g[i] + Window <= time
      BY <1>1, <2>2 DEF Kept
    <3>2. Len(g) \in 0 .. Len(g) /\ Len(g) + 1 - Len(g) = 1
      BY <1>1
    <3> QED
      BY <1>1, <2>2, <3>1, <3>2 DEF Bumped
  <2> QED
    BY <2>1, <2>2
<1>4. PICK n \in 0 .. Len(g) : /\ Len(g) + 1 - n <= cn
                              /\ \A i \in 1 .. n : g[i] + Window <= time
  BY <1>3
<1>5. cn \in Nat /\ cn <= Limit
  BY DEF Bumped
<1> HIDE DEF cn
<1>6. Len(g) < Limit \/ g[Len(g) + 1 - Limit] + Window <= time
  <2>1. CASE Len(g) >= Limit
    <3>1. Len(g) + 1 - Limit \in 1 .. n
      BY <1>1, <1>4, <1>5, <2>1
    <3> QED
      BY <1>4, <3>1
  <2> QED
    BY <1>1, <2>1
<1>7. Kept(e, cn, time + Window, time)
  <2>1. ASSUME NEW i \in 1 .. Len(g) + 1 PROVE e[i] + Window <= time + Window
    <3>1. CASE i = Len(g) + 1
      BY <1>1, <1>2, <3>1
    <3>2. CASE i \in 1 .. Len(g)
      <4>1. e[i] = g[i] /\ g[i] \in Nat
        BY <1>1, <1>2, <3>2
      <4>2. g[i] + Window <= until /\ until <= time + Window
        BY <3>2 DEF Kept
      <4> QED
        BY <1>1, <4>1, <4>2
    <3> QED
      BY <1>1, <3>1, <3>2
  <2>2. n \in 0 .. Len(g) + 1 /\ \A i \in 1 .. n : i \in 1 .. Len(g)
    BY <1>1, <1>4
  <2>4. \A i \in 1 .. n : e[i] + Window <= time
    BY <1>2, <1>4, <2>2
  <2>3. Len(g) + 1 - n <= Limit
    BY <1>1, <1>4, <1>5
  <2> QED
    BY <1>1, <1>2, <1>4, <2>1, <2>2, <2>3, <2>4 DEF Kept
<1> QED
  BY <1>6, <1>7 DEF e, cn

-----------------------------------------------------------------------------
(* The workers' own counters                                               *)

Entries == [started : Nat, count : Nat]

\* An attempt of the window that is open.
LEMMA WriteOpen ==
  ASSUME NEW g \in Seq(Nat), NEW l \in Entries, NEW h \in Entries, NEW time \in Nat,
         LocalKept(g, l, time), l.count > 0, h.started = l.started, h.count = l.count + 1,
         h.count <= Limit
  PROVE  LocalKept(Append(g, time), h, time)
<1> DEFINE e == Append(g, time)
<1>1. /\ Len(g) \in Nat /\ Window \in Nat /\ Limit \in Nat \ {0}
      /\ \A i \in 1 .. Len(g) : g[i] \in Nat
      /\ l.count \in Nat /\ l.started \in Nat
  BY SeqFacts, BudgetAssumption DEF Entries
<1>2. /\ Len(e) = Len(g) + 1 /\ e[Len(g) + 1] = time
      /\ \A i \in 1 .. Len(g) : e[i] = g[i]
  BY AppendFacts
<1> HIDE DEF e
<1>3. PICK n \in 0 .. Len(g) : \E m \in 0 .. n :
        /\ n - m <= Limit /\ Len(g) - n <= l.count /\ Len(g) - n <= Limit
        /\ \A i \in 1 .. m : g[i] + Window <= l.started
        /\ \A i \in 1 .. n : g[i] <= l.started
  BY DEF LocalKept, Windows
<1>4. PICK m \in 0 .. n :
        /\ n - m <= Limit /\ Len(g) - n <= l.count
        /\ \A i \in 1 .. m : g[i] + Window <= l.started
        /\ \A i \in 1 .. n : g[i] <= l.started
  BY <1>3
<1>5. n \in 0 .. Len(e) /\ \A i \in 1 .. n : i \in 1 .. Len(g)
  BY <1>1, <1>2
<1>6. Windows(e, h)
  <2>1. Len(e) - n <= h.count /\ Len(e) - n <= Limit
    BY <1>1, <1>2, <1>4
  <2>2. \A i \in 1 .. m : i \in 1 .. n
    BY <1>1
  <2>3. \A i \in 1 .. m : e[i] + Window <= h.started
    BY <1>2, <1>4, <1>5, <2>2
  <2>4. \A i \in 1 .. n : e[i] <= h.started
    BY <1>2, <1>4, <1>5
  <2> QED
    BY <1>4, <1>5, <2>1, <2>3, <2>4 DEF Windows
<1>20. \A x \in 1 .. Len(e) : x = Len(g) + 1 \/ x \in 1 .. Len(g)
  BY <1>1, <1>2
<1>7. Twice(e)
  <2> SUFFICES ASSUME NEW i \in 1 .. Len(e), NEW j \in 1 .. Len(e), j = i + 2 * Limit
               PROVE  e[i] + Window <= e[j]
    BY DEF Twice
  <2>1. CASE j = Len(g) + 1
    <3>1. i \in 1 .. m /\ i \in 1 .. Len(g)
      BY <1>1, <1>2, <1>4, <2>1
    <3>2. g[i] + Window <= l.started /\ l.started <= time
      BY <1>4, <3>1 DEF LocalKept
    <3>3. e[i] = g[i] /\ e[j] = time /\ g[i] \in Nat
      BY <1>1, <1>2, <2>1, <3>1
    <3> QED
      BY <1>1, <3>2, <3>3
  <2>2. CASE j # Len(g) + 1
    <3>1. j \in 1 .. Len(g)
      BY <1>20, <2>2
    <3>2. i <= j
      <4>1. i \in Nat /\ Limit \in Nat
        BY <1>1, <1>2
      <4> QED
        BY <4>1
    <3>3. i \in 1 .. Len(g)
      BY <1>1, <3>1, <3>2
    <3>4. g[i] + Window <= g[j]
      BY <3>1, <3>3 DEF LocalKept, Twice
    <3> QED
      BY <1>2, <3>1, <3>3, <3>4
  <2> QED
    BY <2>1, <2>2
<1>8. ASSUME NEW i \in 1 .. Len(e) PROVE e[i] <= time
  <2>1. CASE i = Len(g) + 1
    BY <1>2, <2>1
  <2>2. CASE i # Len(g) + 1
    <3>1. i \in 1 .. Len(g)
      BY <1>1, <1>2, <2>2
    <3> QED
      BY <1>2, <3>1 DEF LocalKept
  <2> QED
    BY <2>1, <2>2
<1>9. LocalKept(e, h, time)
  BY <1>1, <1>6, <1>7, <1>8 DEF LocalKept
<1> QED
  BY <1>9 DEF e

\* The attempt that begins a window.
LEMMA WriteFresh ==
  ASSUME NEW g \in Seq(Nat), NEW l \in Entries, NEW h \in Entries, NEW time \in Nat,
         LocalKept(g, l, time), h.count = 1, h.started <= time,
         l.count = 0 \/ l.started + Window <= h.started,
         \A i \in 1 .. Len(g) : g[i] <= h.started
  PROVE  LocalKept(Append(g, time), h, time)
<1> DEFINE e == Append(g, time)
<1>1. /\ Len(g) \in Nat /\ Window \in Nat /\ Limit \in Nat \ {0}
      /\ \A i \in 1 .. Len(g) : g[i] \in Nat
      /\ l.count \in Nat /\ l.started \in Nat /\ h.started \in Nat
  BY SeqFacts, BudgetAssumption DEF Entries
<1>2. /\ Len(e) = Len(g) + 1 /\ e[Len(g) + 1] = time
      /\ \A i \in 1 .. Len(g) : e[i] = g[i]
  BY AppendFacts
<1> HIDE DEF e
<1>3. PICK n \in 0 .. Len(g) :
        /\ Len(g) - n <= Limit
        /\ \A i \in 1 .. n : g[i] <= l.started
  BY DEF LocalKept, Windows
<1>4. ASSUME NEW i \in 1 .. n PROVE g[i] + Window <= h.started
  <2>1. i \in 1 .. Len(g) /\ Len(g) > 0
    BY <1>1
  <2>2. l.count # 0
    BY <2>1 DEF LocalKept
  <2>3. g[i] \in Nat /\ g[i] <= l.started /\ l.started + Window <= h.started
    BY <1>1, <1>3, <2>1, <2>2
  <2> QED
    BY <1>1, <2>3
<1>5. Windows(e, h)
  <2>1. Len(g) \in 0 .. Len(e) /\ n \in 0 .. Len(g) /\ Len(e) - Len(g) = 1
    BY <1>1, <1>2
  <2>2. \A i \in 1 .. n : e[i] + Window <= h.started
    <3>1. \A i \in 1 .. n : i \in 1 .. Len(g)
      BY <1>1
    <3> QED
      BY <1>2, <1>4, <3>1
  <2>3. \A i \in 1 .. Len(g) : e[i] <= h.started
    BY <1>2
  <2>4. Len(g) - n <= Limit /\ Len(e) - Len(g) <= h.count /\ Len(e) - Len(g) <= Limit
    BY <1>1, <1>3, <2>1
  <2> QED
    BY <2>1, <2>2, <2>3, <2>4 DEF Windows
<1>20. \A x \in 1 .. Len(e) : x = Len(g) + 1 \/ x \in 1 .. Len(g)
  BY <1>1, <1>2
<1>6. Twice(e)
  <2> SUFFICES ASSUME NEW i \in 1 .. Len(e), NEW j \in 1 .. Len(e), j = i + 2 * Limit
               PROVE  e[i] + Window <= e[j]
    BY DEF Twice
  <2>1. CASE j = Len(g) + 1
    <3>1. i \in 1 .. n /\ i \in 1 .. Len(g)
      BY <1>1, <1>2, <1>3, <2>1
    <3>2. g[i] + Window <= h.started
      BY <1>4, <3>1
    <3>3. e[i] = g[i] /\ e[j] = time /\ g[i] \in Nat
      BY <1>1, <1>2, <2>1, <3>1
    <3> QED
      BY <1>1, <3>2, <3>3
  <2>2. CASE j # Len(g) + 1
    <3>1. j \in 1 .. Len(g)
      BY <1>20, <2>2
    <3>2. i <= j
      <4>1. i \in Nat /\ Limit \in Nat
        BY <1>1, <1>2
      <4> QED
        BY <4>1
    <3>3. i \in 1 .. Len(g)
      BY <1>1, <3>1, <3>2
    <3>4. g[i] + Window <= g[j]
      BY <3>1, <3>3 DEF LocalKept, Twice
    <3> QED
      BY <1>2, <3>1, <3>3, <3>4
  <2> QED
    BY <2>1, <2>2
<1>7. ASSUME NEW i \in 1 .. Len(e) PROVE e[i] <= time
  <2>1. CASE i = Len(g) + 1
    BY <1>2, <2>1
  <2>2. CASE i # Len(g) + 1
    <3>1. i \in 1 .. Len(g)
      BY <1>1, <1>2, <2>2
    <3> QED
      BY <1>2, <3>1 DEF LocalKept
  <2> QED
    BY <2>1, <2>2
<1>8. LocalKept(e, h, time)
  BY <1>1, <1>5, <1>6, <1>7 DEF LocalKept
<1> QED
  BY <1>8 DEF e

\* A refused attempt is counted in the open window.
LEMMA WriteRefused ==
  ASSUME NEW g \in Seq(Nat), NEW l \in Entries, NEW h \in Entries, NEW time \in Nat,
         LocalKept(g, l, time), HandKept(g, l, h, time), h.count > Limit
  PROVE  LocalKept(g, h, time)
<1>1. /\ Len(g) \in Nat /\ Limit \in Nat \ {0} /\ l.count \in Nat
  BY SeqFacts, BudgetAssumption DEF Entries
<1>2. l.count > 0 /\ h.started = l.started /\ h.count = l.count + 1
  BY <1>1 DEF HandKept
<1>3. Windows(g, h)
  <2>1. PICK n \in 0 .. Len(g) : \E m \in 0 .. n :
          /\ n - m <= Limit /\ Len(g) - n <= l.count /\ Len(g) - n <= Limit
          /\ \A i \in 1 .. m : g[i] + Window <= l.started
          /\ \A i \in 1 .. n : g[i] <= l.started
    BY DEF LocalKept, Windows
  <2>2. Len(g) - n <= h.count
    BY <1>1, <1>2, <2>1
  <2> QED
    BY <1>2, <2>1, <2>2 DEF Windows
<1> QED
  BY <1>1, <1>2, <1>3 DEF LocalKept

-----------------------------------------------------------------------------
(* The steps                                                               *)

LEMMA Initially == Init => RateInv
<1> SUFFICES ASSUME Init PROVE RateInv
  OBVIOUS
<1>1. TypeOK
  BY TypeInit
<1>2. ASSUME NEW k \in Keys PROVE RedisOK(k)
  <2>1. granted[k] = <<>> /\ hits[k] = <<>> /\ counter[k].count = 0 /\ counter[k].until = 0
        /\ now = 0
    BY DEF Init
  <2> QED
    BY <2>1, BudgetAssumption DEF RedisOK, Kept, Chained
<1>3. ASSUME NEW w \in Workers, NEW k \in Keys PROVE LocalOK(w, k)
  <2>1. /\ passed[w][k] = <<>> /\ locals[w][k].count = 0 /\ locals[w][k].started = 0
        /\ now = 0 /\ \A c \in Calls : pc[c] # "write"
    BY DEF Init
  <2>2. Windows(passed[w][k], locals[w][k])
    <3>1. Len(passed[w][k]) = 0 /\ Limit \in Nat
      BY <2>1, BudgetAssumption
    <3>2. 0 \in 0 .. 0 /\ 0 - 0 = 0
      OBVIOUS
    <3>3. \A i \in 1 .. 0 : FALSE
      OBVIOUS
    <3> QED
      BY <2>1, <3>1, <3>2, <3>3 DEF Windows
  <2> QED
    BY <2>1, <2>2 DEF LocalOK, LocalKept, Twice, WritesTo
<1> QED
  BY <1>1, <1>2, <1>3 DEF RateInv, LocalInv

\* The count after a hit depends on count, expiry and clock alone.
LEMMA BumpedIs == ASSUME NEW k \in Keys
                  PROVE  CountedNow(k) = Bumped(counter[k].count, counter[k].until, now)
  BY DEF CountedNow, Bumped

\* Every step keeps Redis's counters and their histories together.
LEMMA RedisKeeps ==
  ASSUME TypeOK, \A k \in Keys : RedisOK(k), [Next]_vars
  PROVE  \A k \in Keys : RedisOK(k)'
<1>1. ASSUME NEW k \in Keys, UNCHANGED <<redis, now>> PROVE RedisOK(k)'
  BY <1>1 DEF RedisOK, redis
<1>2. ASSUME NEW k \in Keys, Charge(k), UNCHANGED now,
             \/ UNCHANGED granted
             \/ CountedNow(k) <= Limit /\ granted' = [granted EXCEPT ![k] = Append(@, now)]
      PROVE  \A x \in Keys : RedisOK(x)'
  <2> DEFINE cn == Bumped(counter[k].count, counter[k].until, now)
  <2>1. /\ counter'[k].count = cn /\ counter'[k].until = now + Window
        /\ hits'[k] = Append(hits[k], now)
        /\ \A x \in Keys \ {k} : counter'[x] = counter[x] /\ hits'[x] = hits[x]
    <3>1. counter'[k] = [count |-> CountedNow(k), until |-> now + Window]
      BY <1>2, ChargeTyped
    <3>2. CountedNow(k) = cn
      BY BumpedIs
    <3> QED
      BY <1>2, <3>1, <3>2, ChargeTyped
  <2>2. Chained(Append(hits[k], now), cn, now + Window)
    <3>1. Chained(hits[k], counter[k].count, counter[k].until)
      BY DEF RedisOK
    <3>2. /\ hits[k] \in Seq(Nat) /\ counter[k].count \in Nat
          /\ counter[k].until \in Nat /\ now \in Nat
      BY KeyTyped
    <3> QED
      BY <3>1, <3>2, ChargeChained
  <2>3. granted \in [Keys -> Seq(Nat)]
    BY DEF TypeOK
  <2>4. ASSUME UNCHANGED granted PROVE Kept(granted'[k], cn, now + Window, now)
    BY <2>4, KeyTyped, ChargeKeeps DEF RedisOK
  <2>5. ASSUME CountedNow(k) <= Limit, granted' = [granted EXCEPT ![k] = Append(@, now)]
        PROVE  Kept(granted'[k], cn, now + Window, now)
    <3>1. granted'[k] = Append(granted[k], now)
      BY <2>3, <2>5
    <3>2. cn <= Limit
      BY <2>5, BumpedIs
    <3> QED
      BY <3>1, <3>2, KeyTyped, GrantKeeps DEF RedisOK
  <2>6. \A x \in Keys \ {k} : granted'[x] = granted[x]
    BY <1>2, <2>3
  <2>7. RedisOK(k)'
    BY <1>2, <2>1, <2>2, <2>4, <2>5 DEF RedisOK
  <2> HIDE DEF cn
  <2> QED
    BY <1>2, <2>1, <2>6, <2>7 DEF RedisOK
<1>3. ASSUME NEW c \in Calls, NEW k \in Keys, HitRedis(c, k)
      PROVE  \A x \in Keys : RedisOK(x)'
  BY <1>2, <1>3 DEF HitRedis
<1>4. ASSUME NEW c \in Calls, NEW k \in Keys, RedisGone(c, k)
      PROVE  \A x \in Keys : RedisOK(x)'
  BY <1>1, <1>2, <1>4 DEF RedisGone, redis
<1>5. ASSUME NEW c \in Calls, ReadLocal(c) \/ WriteLocal(c) PROVE \A x \in Keys : RedisOK(x)'
  BY <1>1, <1>5 DEF ReadLocal, WriteLocal
<1>6. ASSUME Tick, NEW k \in Keys PROVE RedisOK(k)'
  <2>1. /\ granted' = granted /\ hits' = hits /\ counter' = counter
        /\ now' = now + 1
    BY <1>6 DEF Tick, redis
  <2>2. /\ Len(granted[k]) \in Nat /\ \A i \in 1 .. Len(granted[k]) : granted[k][i] \in Nat
        /\ now \in Nat /\ Window \in Nat /\ counter[k].until \in Nat
    BY KeyTyped, SeqFacts
  <2>3. PICK n \in 0 .. Len(granted[k]) :
          /\ Len(granted[k]) - n <= counter[k].count
          /\ Len(granted[k]) - n <= Limit
          /\ \A i \in 1 .. n : granted[k][i] + Window <= now
    BY DEF RedisOK, Kept
  <2>4. ASSUME NEW i \in 1 .. n PROVE granted[k][i] + Window <= now + 1
    <3>1. i \in 1 .. Len(granted[k]) /\ granted[k][i] + Window <= now
      BY <2>2, <2>3
    <3>2. granted[k][i] \in Nat
      BY <2>2, <3>1
    <3> QED
      BY <2>2, <3>1, <3>2
  <2>5. counter[k].until <= now + 1 + Window
    BY <2>2 DEF RedisOK, Kept
  <2> QED
    BY <2>1, <2>3, <2>4, <2>5 DEF RedisOK, Kept
<1>7. CASE UNCHANGED vars
  BY <1>1, <1>7 DEF vars, redis
<1> QED
  BY <1>3, <1>4, <1>5, <1>6, <1>7 DEF Next

\* Each entry of a worker stays right: only WriteLocal changes it, and whoever
\* else was between read and write has marked the key as raced.
LEMMA LocalKeeps ==
  ASSUME TypeOK, TypeOK', LocalInv, [Next]_vars
  PROVE  LocalInv'
<1>1. ASSUME UNCHANGED <<locals, passed, raced, hand, fixed>>, now <= now', now' \in Nat,
             \A c \in Calls : pc'[c] = "write" => pc[c] = "write" /\ at'[c] = at[c]
      PROVE  LocalInv'
  <2> SUFFICES ASSUME NEW w \in Workers, NEW k \in Keys, k \notin raced[w] PROVE LocalOK(w, k)'
    BY <1>1 DEF LocalInv
  <2>1. LocalOK(w, k) /\ passed[w][k] \in Seq(Nat) /\ locals[w][k] \in Entries /\ now \in Nat
    BY DEF LocalInv, TypeOK, Entries
  <2>2. LocalKept(passed[w][k], locals[w][k], now')
    <3>1. \A i \in 1 .. Len(passed[w][k]) : passed[w][k][i] \in Nat
      BY <2>1, SeqFacts
    <3>2. locals[w][k].started \in Nat
      BY <2>1 DEF Entries
    <3> QED
      BY <1>1, <2>1, <3>1, <3>2 DEF LocalOK, LocalKept
  <2>3. ASSUME NEW c \in Calls, WritesTo(c, w, k)'
        PROVE  HandKept(passed[w][k], locals[w][k], hand[c], now')
    <3>1. WritesTo(c, w, k)
      BY <1>1, <2>3 DEF WritesTo, fixed
    <3>2. HandKept(passed[w][k], locals[w][k], hand[c], now)
      BY <2>1, <3>1 DEF LocalOK
    <3>3. hand[c].started \in Nat
      BY DEF TypeOK
    <3> QED
      BY <1>1, <2>1, <3>2, <3>3 DEF HandKept
  <2> QED
    BY <1>1, <2>2, <2>3 DEF LocalOK
<1>2. ASSUME NEW c \in Calls, NEW k \in Keys, HitRedis(c, k) PROVE LocalInv'
  <2>1. \A d \in Calls : pc'[d] = "write" => pc[d] = "write" /\ at'[d] = at[d]
    BY <1>2, JudgeTyped, ChargeTyped DEF HitRedis, Checks, fixed
  <2>2. now' = now /\ now \in Nat
    BY <1>2 DEF HitRedis, TypeOK
  <2> QED
    BY <1>1, <1>2, <2>1, <2>2 DEF HitRedis, inWorkers
<1>3. ASSUME NEW c \in Calls, NEW k \in Keys, RedisGone(c, k) PROVE LocalInv'
  <2>1. \A d \in Calls : pc'[d] = "write" => pc[d] = "write" /\ at'[d] = at[d]
    BY <1>3 DEF RedisGone, TypeOK
  <2>2. now' = now /\ now \in Nat
    BY <1>3 DEF RedisGone, TypeOK
  <2> QED
    BY <1>1, <1>3, <2>1, <2>2 DEF RedisGone, inWorkers
<1>4. CASE Tick
  <2>1. now \in Nat /\ now' = now + 1 /\ pc' = pc /\ at' = at
    BY <1>4 DEF Tick, TypeOK
  <2>2. now <= now' /\ now' \in Nat
    BY <2>1
  <2> QED
    BY <1>1, <1>4, <2>1, <2>2 DEF Tick, inWorkers
<1>5. CASE UNCHANGED vars
  <2>1. now <= now' /\ now' \in Nat
    BY <1>5 DEF vars, TypeOK
  <2> QED
    BY <1>1, <1>5, <2>1 DEF vars, fixed
<1>6. ASSUME NEW c \in Calls, ReadLocal(c) PROVE LocalInv'
  <2> SUFFICES ASSUME NEW w \in Workers, NEW k \in Keys, k \notin raced[w] PROVE LocalOK(w, k)'
    BY <1>6 DEF LocalInv, ReadLocal
  <2>1. /\ pc[c] = "local" /\ pc' = [pc EXCEPT ![c] = "write"]
        /\ UNCHANGED <<now, at, locals, passed, chain, worker>>
    BY <1>6 DEF ReadLocal, fixed
  <2>2. LocalOK(w, k)
    BY DEF LocalInv
  <2>3. ASSUME NEW d \in Calls, WritesTo(d, w, k)', d # c
        PROVE  HandKept(passed[w][k], locals[w][k], hand'[d], now)
    <3>1. WritesTo(d, w, k) /\ hand'[d] = hand[d]
      BY <1>6, <2>1, <2>3 DEF WritesTo, ReadLocal, TypeOK
    <3> QED
      BY <2>2, <3>1 DEF LocalOK
  <2>4. ASSUME WritesTo(c, w, k)'
        PROVE  HandKept(passed[w][k], locals[w][k], hand'[c], now)
    <3> DEFINE l == locals[w][k]
    <3>1. worker[c] = w /\ chain[c][at[c] + 1] = k
      BY <2>1, <2>4 DEF WritesTo
    <3>2. l \in Entries /\ now \in Nat
      BY DEF TypeOK, Entries
    <3>3. hand'[c] = IF l.count = 0 \/ now >= l.started + Window
                       THEN [started |-> now, count |-> 1]
                       ELSE [l EXCEPT !.count = @ + 1]
      BY <1>6, <3>1 DEF ReadLocal, TypeOK
    <3>4. LocalKept(passed[w][k], l, now)
      BY <2>2 DEF LocalOK
    <3>5. CASE l.count = 0 \/ now >= l.started + Window
      <4>1. hand'[c].started = now /\ hand'[c].count = 1
        BY <3>3, <3>5
      <4> QED
        BY <3>2, <3>4, <3>5, <4>1, BudgetAssumption DEF HandKept, LocalKept, Entries
    <3>6. CASE ~(l.count = 0 \/ now >= l.started + Window)
      <4>1. hand'[c].started = l.started /\ hand'[c].count = l.count + 1
        BY <3>2, <3>3, <3>6 DEF Entries
      <4>2. l.count > 0
        BY <3>2, <3>6 DEF Entries
      <4> QED
        BY <4>1, <4>2 DEF HandKept
    <3> QED
      BY <3>5, <3>6
  <2> QED
    BY <2>1, <2>2, <2>3, <2>4 DEF LocalOK
<1>7. ASSUME NEW c \in Calls, WriteLocal(c) PROVE LocalInv'
  <2> DEFINE w0 == worker[c]
             k0 == chain[c][at[c] + 1]
  <2>1. /\ pc[c] = "write" /\ Judge(c, hand[c].count) /\ at[c] < Len(chain[c])
        /\ UNCHANGED <<now, chain, worker, hand>>
        /\ w0 \in Workers /\ k0 \in Keys /\ hand[c].count \in Nat
    BY <1>7, KeyOfCall DEF WriteLocal, TypeOK, fixed
  <2>2. /\ \A d \in Calls : d # c => pc'[d] = pc[d] /\ at'[d] = at[d]
        /\ pc'[c] # "write"
    BY <2>1, JudgeTyped
  <2>3. \A w \in Workers : raced[w] \subseteq raced'[w]
    BY <1>7 DEF WriteLocal, TypeOK
  <2> SUFFICES ASSUME NEW w \in Workers, NEW k \in Keys, k \notin raced'[w] PROVE LocalOK(w, k)'
    BY DEF LocalInv
  <2>4. LocalOK(w, k)
    BY <2>3 DEF LocalInv
  <2>5. CASE w = w0 /\ k = k0
    <3> DEFINE g == passed[w][k]
               l == locals[w][k]
               h == hand[c]
    <3>1. \A d \in Calls : ~WritesTo(d, w, k)'
      <4>1. \A d \in Calls \ {c} : ~WritesTo(d, w, k)
        BY <1>7, <2>1, <2>5 DEF WriteLocal, WritesTo, TypeOK
      <4> QED
        BY <2>1, <2>2, <4>1 DEF WritesTo
    <3>2. g \in Seq(Nat) /\ l \in Entries /\ h \in Entries /\ now \in Nat
      BY DEF TypeOK, Entries
    <3>3. LocalKept(g, l, now) /\ HandKept(g, l, h, now)
      BY <2>1, <2>4, <2>5 DEF LocalOK, WritesTo
    <3>4. locals'[w][k] = h
      BY <1>7, <2>1, <2>5 DEF WriteLocal, TypeOK
    <3>5. passed'[w][k] = IF h.count <= Limit THEN Append(g, now) ELSE g
      BY <1>7, <2>1, <2>5 DEF WriteLocal, TypeOK
    <3>6. LocalKept(passed'[w][k], h, now)
      <4>1. CASE h.count <= Limit
        BY <3>2, <3>3, <3>5, <4>1, WriteOpen, WriteFresh DEF HandKept
      <4>2. CASE h.count > Limit
        BY <3>2, <3>3, <3>5, <4>2, WriteRefused, BudgetAssumption DEF Entries
      <4> QED
        BY <3>2, <4>1, <4>2, BudgetAssumption DEF Entries
    <3> QED
      BY <2>1, <3>1, <3>4, <3>6 DEF LocalOK
  <2>6. CASE ~(w = w0 /\ k = k0)
    <3>1. locals'[w][k] = locals[w][k] /\ passed'[w][k] = passed[w][k]
      BY <1>7, <2>1, <2>6 DEF WriteLocal, TypeOK
    <3>2. \A d \in Calls : WritesTo(d, w, k)' => WritesTo(d, w, k)
      BY <2>1, <2>2 DEF WritesTo
    <3> QED
      BY <2>1, <2>4, <3>1, <3>2 DEF LocalOK
  <2> QED
    BY <2>5, <2>6
<1> QED
  BY <1>2, <1>3, <1>4, <1>5, <1>6, <1>7 DEF Next

\* Redis's counters agree with the histories of hits and grants, and so do the
\* workers' own unless two threads raced.
THEOREM Invariance == Spec => []RateInv
<1>1. RateInv /\ [Next]_vars => RateInv'
  BY TypeStep, RedisKeeps, LocalKeeps DEF RateInv
<1> QED
  BY <1>1, Initially, PTL DEF Spec

\* Counters, windows and histories keep their types, and a call is served only
\* when all of its keys have let it through.
THEOREM TypingTheorem == Spec => []TypeOK
<1>1. RateInv => TypeOK
  BY DEF RateInv
<1> QED
  BY <1>1, Invariance, PTL

\* A worker cut off from Redis lets at most twice the limit through in any
\* window, unless its threads have counted the key at once.
THEOREM LocalTheorem == Spec => []LocalBudget
<1>1. RateInv => LocalBudget
  BY DEF RateInv, LocalInv, LocalOK, LocalKept, Twice, LocalBudget
<1> QED
  BY <1>1, Invariance, PTL

\* Redis's counters implement the sliding budget.
THEOREM BudgetTheorem == Spec => SlidingBudgetSpec
<1>1. Init => Budget!Init
  BY DEF Init, Budget!Init
<1>2. ASSUME RateInv, [Next]_vars PROVE [Budget!Next]_(Budget!vars)
  <2>1. ASSUME NEW c \in Calls, NEW k \in Keys, HitRedis(c, k)
        PROVE  [Budget!Next]_(Budget!vars)
    <3>1. CASE CountedNow(k) <= Limit
      <4>1. granted' = [granted EXCEPT ![k] = Append(@, now)] /\ UNCHANGED now
        BY <2>1, <3>1 DEF HitRedis
      <4>2. Budget!Affordable(k)
        <5>1. /\ Kept(granted[k], counter[k].count, counter[k].until, now)
              /\ Bumped(counter[k].count, counter[k].until, now) <= Limit
          BY <1>2, <3>1, BumpedIs DEF RateInv, RedisOK
        <5>2. \/ Len(granted[k]) < Limit
              \/ granted[k][Len(granted[k]) + 1 - Limit] + Window <= now
          BY <1>2, <5>1, KeyTyped, GrantKeeps DEF RateInv
        <5> QED
          BY <5>2 DEF Budget!Affordable
      <4> QED
        BY <4>1, <4>2 DEF Budget!Next, Budget!Grant
    <3>2. CASE ~(CountedNow(k) <= Limit)
      BY <2>1, <3>2 DEF HitRedis, Budget!vars
    <3> QED
      BY <3>1, <3>2
  <2>2. ASSUME NEW c \in Calls, NEW k \in Keys, RedisGone(c, k) PROVE UNCHANGED Budget!vars
    BY <2>2 DEF RedisGone, Budget!vars
  <2>3. ASSUME NEW c \in Calls, ReadLocal(c) \/ WriteLocal(c) PROVE UNCHANGED Budget!vars
    BY <2>3 DEF ReadLocal, WriteLocal, redis, Budget!vars
  <2>4. CASE Tick
    BY <2>4 DEF Tick, redis, Budget!Next, Budget!Tick
  <2>5. CASE UNCHANGED vars
    BY <2>5 DEF vars, Budget!vars
  <2> QED
    BY <1>2, <2>1, <2>2, <2>3, <2>4, <2>5 DEF Next
<1> QED
  BY <1>1, <1>2, Invariance, PTL DEF Spec, SlidingBudgetSpec, Budget!Spec

\* A call that Redis refuses follows Limit others of its key, each less than a
\* Window after the one before.
THEOREM CauseTheorem == Spec => RefusedForCause
<1>1. ASSUME RateInv, NEW c \in Calls, NEW k \in Keys, HitRedis(c, k), CountedNow(k) > Limit
      PROVE  /\ Len(hits'[k]) > Limit
             /\ \A i \in Len(hits'[k]) - Limit .. Len(hits'[k]) - 1 :
                  hits'[k][i + 1] < hits'[k][i] + Window
  <2>1. TypeOK /\ RedisOK(k) /\ Charge(k)
    BY <1>1 DEF RateInv, HitRedis
  <2>2. Chained(hits'[k], CountedNow(k), now + Window) /\ hits'[k] \in Seq(Nat)
    <3>1. Chained(Append(hits[k], now), CountedNow(k), now + Window)
      BY <2>1, KeyTyped, ChargeChained, BumpedIs DEF RedisOK
    <3> QED
      BY <2>1, <3>1, ChargeTyped
  <2>3. Len(hits'[k]) \in Nat /\ CountedNow(k) \in Nat /\ Limit \in Nat \ {0}
    BY <2>1, <2>2, SeqFacts, ChargeTyped, BudgetAssumption
  <2>4. CountedNow(k) <= Len(hits'[k])
    BY <2>2 DEF Chained
  <2>5. ASSUME NEW i \in Len(hits'[k]) - Limit .. Len(hits'[k]) - 1
        PROVE  hits'[k][i + 1] < hits'[k][i] + Window
    <3>1. i \in 1 .. Len(hits'[k]) - 1 /\ i > Len(hits'[k]) - CountedNow(k)
      BY <1>1, <2>3, <2>4
    <3> QED
      BY <2>2, <3>1 DEF Chained
  <2> QED
    BY <1>1, <2>3, <2>4, <2>5
<1>2. ASSUME RateInv, Next, NEW c \in Calls, pc[c] = "check", pc'[c] = "refused"
      PROVE  \E k \in Keys : HitRedis(c, k) /\ CountedNow(k) > Limit /\ k = chain[c][at[c] + 1]
  <2>0. TypeOK
    BY <1>2 DEF RateInv
  <2>1. ASSUME NEW d \in Calls, NEW k \in Keys, HitRedis(d, k)
        PROVE  d = c /\ CountedNow(k) > Limit /\ k = chain[c][at[c] + 1]
    BY <1>2, <2>0, <2>1, JudgeTyped, ChargeTyped DEF HitRedis, Checks, fixed
  <2>2. ASSUME NEW d \in Calls, NEW k \in Keys, RedisGone(d, k) PROVE FALSE
    BY <1>2, <2>0, <2>2 DEF RedisGone, TypeOK
  <2>3. ASSUME NEW d \in Calls, ReadLocal(d) PROVE FALSE
    BY <1>2, <2>0, <2>3 DEF ReadLocal, TypeOK
  <2>4. ASSUME NEW d \in Calls, WriteLocal(d) PROVE FALSE
    <3>1. at[d] < Len(chain[d]) /\ hand[d].count \in Nat /\ pc[d] = "write"
          /\ Judge(d, hand[d].count) /\ UNCHANGED chain
      BY <2>0, <2>4 DEF WriteLocal, TypeOK, fixed
    <3> QED
      BY <1>2, <2>0, <3>1, JudgeTyped
  <2>5. ~Tick
    BY <1>2 DEF Tick
  <2> QED
    BY <1>2, <2>1, <2>2, <2>3, <2>4, <2>5 DEF Next
<1>3. RateInv /\ [Next]_vars
        => [\A c \in Calls : pc[c] = "check" /\ pc'[c] = "refused"
              => LET k == chain[c][at[c] + 1]
                     h == hits'[k]
                 IN /\ Len(h) > Limit
                    /\ \A i \in Len(h) - Limit .. Len(h) - 1 : h[i + 1] < h[i] + Window]_vars
  <2> SUFFICES ASSUME RateInv, Next, NEW c \in Calls, pc[c] = "check", pc'[c] = "refused"
               PROVE  LET k == chain[c][at[c] + 1]
                          h == hits'[k]
                      IN /\ Len(h) > Limit
                         /\ \A i \in Len(h) - Limit .. Len(h) - 1 : h[i + 1] < h[i] + Window
    OBVIOUS
  <2>1. PICK k \in Keys : HitRedis(c, k) /\ CountedNow(k) > Limit /\ k = chain[c][at[c] + 1]
    BY <1>2
  <2> QED
    BY <1>1, <2>1
<1> QED
  BY <1>3, Invariance, PTL DEF Spec, RefusedForCause

-----------------------------------------------------------------------------
(* The budgets counted                                                     *)

\* Times in order, none of them to come.
Ordered(g, time) ==
  /\ \A i \in 1 .. Len(g) : g[i] <= time
  /\ \A i, j \in 1 .. Len(g) : i <= j => g[i] <= g[j]

\* Of any n + 1 of the times the last is a Window after the first.
Spread(g, n) == \A i, j \in 1 .. Len(g) : j = i + n => g[i] + Window <= g[j]

\* How many of the times fall within the Window that begins at t.
InWindow(g, t) == Cardinality({i \in 1 .. Len(g) : t <= g[i] /\ g[i] < t + Window})

\* What RATE_LIMIT_*_MAX bounds, in whichever Window one counts: the attempts on a
\* key that Redis lets through, and twice as many for each worker on its own.
WindowBudget ==
  \A k \in Keys, t \in Nat :
    /\ InWindow(granted[k], t) <= Limit
    /\ \A w \in Workers : k \notin raced[w] => InWindow(passed[w][k], t) <= 2 * Limit

\* Times spread by n put no more than n into a Window.
LEMMA SpreadCounts ==
  ASSUME NEW g \in Seq(Nat), NEW n \in Nat \ {0}, NEW t \in Nat, NEW time \in Nat,
         Ordered(g, time), Spread(g, n)
  PROVE  InWindow(g, t) <= n
<1> DEFINE S == {i \in 1 .. Len(g) : t <= g[i] /\ g[i] < t + Window}
<1>1. /\ Len(g) \in Nat /\ Window \in Nat /\ n \in Nat /\ t \in Nat
      /\ \A i \in 1 .. Len(g) : g[i] \in Nat
  BY SeqFacts, BudgetAssumption
<1>0. n \in Nat /\ n > 0
  OBVIOUS
<1>2. CASE S = {}
  <2>1. Cardinality(S) = 0
    BY <1>2, FS_EmptySet
  <2> QED
    BY <1>0, <2>1 DEF InWindow
<1>3. CASE S # {}
  <2>1. PICK m \in S : \A i \in S : ~(<<i, m>> \in OpToRel(<, Nat))
    <3>1. S \subseteq Nat
      BY <1>1
    <3> QED
      BY <1>3, <3>1, WFMin, NatLessThanWellFounded
  <2>2. m \in 1 .. Len(g) /\ t <= g[m]
    OBVIOUS
  <2>3. ASSUME NEW i \in S PROVE m <= i
    <3>1. m \in Nat /\ i \in Nat
      BY <1>1
    <3>2. ~(i < m)
      BY <2>1, <3>1 DEF OpToRel
    <3> QED
      BY <3>1, <3>2
  <2>4. ASSUME NEW i \in S PROVE i \in m .. m + n - 1
    <3>1. i \in 1 .. Len(g) /\ g[i] < t + Window /\ m <= i
      BY <2>3
    <3>2. ASSUME i >= m + n PROVE FALSE
      <4>1. m + n \in 1 .. Len(g)
        BY <1>1, <2>2, <3>1, <3>2
      <4>2. g[m] + Window <= g[m + n]
        BY <2>2, <4>1 DEF Spread
      <4>3. g[m + n] <= g[i]
        BY <3>1, <3>2, <4>1 DEF Ordered
      <4>4. {g[m], g[m + n], g[i]} \subseteq Nat
        BY <1>1, <2>2, <3>1, <4>1
      <4>5. \A a, b, d, u, w \in Nat : a + w <= b /\ b <= d /\ d < u + w => ~(u <= a)
        OBVIOUS
      <4>6. g[m] \in Nat /\ g[m + n] \in Nat /\ g[i] \in Nat /\ t \in Nat /\ Window \in Nat
        BY <1>1, <4>4
      <4> QED
        BY ONLY <2>2, <3>1, <4>2, <4>3, <4>5, <4>6
    <3> QED
      BY <1>0, <1>1, <2>2, <3>1, <3>2
  <2>5. S \in SUBSET (m .. m + n - 1)
    BY <2>4
  <2>6. IsFiniteSet(m .. m + n - 1) /\ Cardinality(m .. m + n - 1) = n
    <3> DEFINE l == m + n - 1
    <3>1. m \in Int /\ l \in Int /\ ~(m > l) /\ l - m + 1 = n
      BY <1>0, <2>2
    <3> HIDE DEF l
    <3>2. IsFiniteSet(m .. l) /\ Cardinality(m .. l) = IF m > l THEN 0 ELSE l - m + 1
      BY ONLY <3>1, FS_Interval
    <3>3. IsFiniteSet(m .. l) /\ Cardinality(m .. l) = n
      BY ONLY <3>1, <3>2
    <3> QED
      BY <3>3 DEF l
  <2>7. Cardinality(S) <= Cardinality(m .. m + n - 1)
    BY <2>5, <2>6, FS_Subset
  <2> QED
    BY <2>6, <2>7 DEF InWindow
<1> QED
  BY <1>2, <1>3

\* An attempt let through now comes after all others.
LEMMA AppendOrdered ==
  ASSUME NEW g \in Seq(Nat), NEW time \in Nat, Ordered(g, time)
  PROVE  Ordered(Append(g, time), time)
<1>1. /\ Len(g) \in Nat /\ Len(Append(g, time)) = Len(g) + 1
      /\ Append(g, time)[Len(g) + 1] = time
      /\ \A i \in 1 .. Len(g) : Append(g, time)[i] = g[i] /\ g[i] \in Nat
  BY SeqFacts, AppendFacts
<1>2. ASSUME NEW i \in 1 .. Len(g) + 1, i \notin 1 .. Len(g) PROVE i = Len(g) + 1
  BY <1>1, <1>2
<1> QED
  BY <1>1, <1>2 DEF Ordered

\* ... and is a Window after the one n before it, if that is what let it through.
LEMMA AppendSpread ==
  ASSUME NEW g \in Seq(Nat), NEW time \in Nat, NEW n \in Nat \ {0}, Spread(g, n),
         Len(g) < n \/ g[Len(g) + 1 - n] + Window <= time
  PROVE  Spread(Append(g, time), n)
<1>1. /\ Len(g) \in Nat /\ Len(Append(g, time)) = Len(g) + 1
      /\ Append(g, time)[Len(g) + 1] = time
      /\ \A i \in 1 .. Len(g) : Append(g, time)[i] = g[i] /\ g[i] \in Nat
  BY SeqFacts, AppendFacts
<1> SUFFICES ASSUME NEW i \in 1 .. Len(g) + 1, NEW j \in 1 .. Len(g) + 1, j = i + n
             PROVE  Append(g, time)[i] + Window <= Append(g, time)[j]
  BY <1>1 DEF Spread
<1>2. i \in 1 .. Len(g)
  BY <1>1
<1>3. CASE j \in 1 .. Len(g)
  BY <1>1, <1>2, <1>3 DEF Spread
<1>4. CASE j \notin 1 .. Len(g)
  <2>1. j = Len(g) + 1
    <3>1. \A l, x \in Nat : x \in 1 .. l + 1 /\ x \notin 1 .. l => x = l + 1
      OBVIOUS
    <3>2. Len(g) \in Nat /\ j \in Nat /\ j \in 1 .. Len(g) + 1
      BY <1>1
    <3> QED
      BY ONLY <1>4, <3>1, <3>2
  <2>2. i = Len(g) + 1 - n /\ ~(Len(g) < n)
    BY <1>1, <1>2, <2>1
  <2> QED
    BY <1>1, <1>2, <2>1, <2>2
<1> QED
  BY <1>3, <1>4

\* The grants of SlidingBudget.
GrantsInv ==
  /\ now \in Nat
  /\ granted \in [Keys -> Seq(Nat)]
  /\ \A k \in Keys : Ordered(granted[k], now) /\ Spread(granted[k], Limit)

\* Whatever implements SlidingBudget grants in order, and no more than it says.
LEMMA GrantsStep == GrantsInv /\ [Budget!Next]_(Budget!vars) => GrantsInv'
<1> SUFFICES ASSUME GrantsInv, [Budget!Next]_(Budget!vars) PROVE GrantsInv'
  OBVIOUS
<1> USE DEF GrantsInv
<1>1. ASSUME NEW k \in Keys, Budget!Grant(k) PROVE GrantsInv'
  <2>1. /\ granted' = [granted EXCEPT ![k] = Append(granted[k], now)] /\ now' = now
        /\ Len(granted[k]) < Limit \/ granted[k][Len(granted[k]) + 1 - Limit] + Window <= now
    BY <1>1 DEF Budget!Grant, Budget!Affordable
  <2>2. granted[k] \in Seq(Nat) /\ Append(granted[k], now) \in Seq(Nat)
    OBVIOUS
  <2>3. Ordered(Append(granted[k], now), now)
    BY <2>2, AppendOrdered
  <2>4. Spread(Append(granted[k], now), Limit)
    BY <2>1, <2>2, AppendSpread, BudgetAssumption
  <2>5. \A x \in Keys : granted'[x] = IF x = k THEN Append(granted[k], now) ELSE granted[x]
    BY <2>1
  <2> QED
    BY <2>1, <2>2, <2>3, <2>4, <2>5
<1>2. CASE Budget!Tick
  <2>1. now' = now + 1 /\ granted' = granted
    BY <1>2 DEF Budget!Tick
  <2>2. ASSUME NEW k \in Keys PROVE Ordered(granted'[k], now') /\ Spread(granted'[k], Limit)
    <3>1. granted[k] \in Seq(Nat)
      OBVIOUS
    <3> QED
      BY <2>1, <3>1, SeqFacts DEF Ordered
  <2> QED
    BY <2>1, <2>2
<1>3. CASE UNCHANGED Budget!vars
  BY <1>3 DEF Budget!vars
<1> QED
  BY <1>1, <1>2, <1>3 DEF Budget!Next

PassedOrdered == \A w \in Workers, k \in Keys : Ordered(passed[w][k], now)

\* Workers let attempts through in the order of time, whatever they count.
LEMMA PassedStep ==
  ASSUME TypeOK, PassedOrdered, [Next]_vars PROVE PassedOrdered'
<1>0. now \in Nat /\ passed \in [Workers -> [Keys -> Seq(Nat)]]
  BY DEF TypeOK
<1>1. CASE UNCHANGED <<now, passed>>
  BY <1>1 DEF PassedOrdered
<1>2. CASE Tick
  <2>1. now' = now + 1 /\ passed' = passed
    BY <1>2 DEF Tick, inWorkers
  <2>2. ASSUME NEW w \in Workers, NEW k \in Keys PROVE Ordered(passed[w][k], now + 1)
    <3>1. passed[w][k] \in Seq(Nat) /\ Ordered(passed[w][k], now)
      BY <1>0 DEF PassedOrdered
    <3> QED
      BY <1>0, <3>1, SeqFacts DEF Ordered
  <2> QED
    BY <2>1, <2>2 DEF PassedOrdered
<1>3. ASSUME NEW c \in Calls, WriteLocal(c) PROVE PassedOrdered'
  <2>1. now' = now
    BY <1>3 DEF WriteLocal
  <2>2. ASSUME NEW w \in Workers, NEW k \in Keys
        PROVE  passed'[w][k] = passed[w][k] \/ passed'[w][k] = Append(passed[w][k], now)
    BY <1>0, <1>3 DEF WriteLocal
  <2>3. ASSUME NEW w \in Workers, NEW k \in Keys PROVE Ordered(passed'[w][k], now)
    <3>1. passed[w][k] \in Seq(Nat) /\ Ordered(passed[w][k], now)
      BY <1>0 DEF PassedOrdered
    <3> QED
      BY <1>0, <2>2, <3>1, AppendOrdered
  <2> QED
    BY <2>1, <2>3 DEF PassedOrdered
<1> QED
  BY <1>1, <1>2, <1>3 DEF Next, HitRedis, RedisGone, ReadLocal, inWorkers, vars

\* In every Window, Redis lets at most Limit attempts on a key through, and a worker
\* that counts on its own at most twice as many unless two of its threads raced.
THEOREM WindowTheorem == Spec => []WindowBudget
<1>1. Spec => []GrantsInv
  <2>1. Budget!Init => GrantsInv
    BY DEF Budget!Init, GrantsInv, Ordered, Spread
  <2> QED
    BY <2>1, GrantsStep, BudgetTheorem, PTL DEF SlidingBudgetSpec, Budget!Spec
<1>2. Init => PassedOrdered
  BY DEF Init, PassedOrdered, Ordered
<1>3. RateInv /\ PassedOrdered /\ [Next]_vars => PassedOrdered'
  BY PassedStep DEF RateInv
<1>4. ASSUME RateInv, GrantsInv, PassedOrdered PROVE WindowBudget
  <2>1. ASSUME NEW k \in Keys, NEW t \in Nat PROVE InWindow(granted[k], t) <= Limit
    BY <1>4, SpreadCounts, BudgetAssumption DEF GrantsInv
  <2>2. ASSUME NEW k \in Keys, NEW t \in Nat, NEW w \in Workers, k \notin raced[w]
        PROVE  InWindow(passed[w][k], t) <= 2 * Limit
    <3>1. passed[w][k] \in Seq(Nat) /\ now \in Nat /\ Ordered(passed[w][k], now)
      BY <1>4 DEF RateInv, TypeOK, PassedOrdered
    <3>2. Spread(passed[w][k], 2 * Limit)
      BY <1>4, <2>2 DEF RateInv, LocalInv, LocalOK, LocalKept, Twice, Spread
    <3>3. 2 * Limit \in Nat \ {0}
      BY BudgetAssumption
    <3> QED
      BY <3>1, <3>2, <3>3, SpreadCounts
  <2> QED
    BY <2>1, <2>2 DEF WindowBudget
<1> QED
  BY <1>1, <1>2, <1>3, <1>4, Invariance, PTL DEF Spec
=============================================================================
