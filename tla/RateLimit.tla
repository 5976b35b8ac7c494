------------------------------ MODULE RateLimit ------------------------------
(***************************************************************************)
(* The attempt budgets of core/rate_limit.py in front of login, register   *)
(* and change_password.  A call is charged on its keys one after the other *)
(* (login: its IP, then its account) and stops at the first that refuses.  *)
(* A key is counted in Redis, one INCR + EXPIRE transaction, or, when that *)
(* fails, in the worker's own dictionary, read and written without a lock  *)
(* by the threads that serve the worker's calls.                           *)
(***************************************************************************)
EXTENDS Naturals, Sequences, FiniteSets

CONSTANTS
  Calls,       \* requests to the three endpoints
  Keys,        \* ratelimit:{scope}:{identity}
  Chains,      \* bound: the sequences of keys a call is charged on
  Workers,     \* API processes
  Limit,       \* RATE_LIMIT_*_MAX
  Window,      \* RATE_LIMIT_*_WINDOW
  MaxTime,     \* bound: when the clock stops
  MaxFailures  \* bound: how often Redis is out of reach or its reply lost

ASSUME BudgetAssumption == Limit \in Nat \ {0} /\ Window \in Nat \ {0} /\ MaxTime \in Nat
ASSUME ChainsAssumption == Chains \subseteq Seq(Keys)

VARIABLES
  now,
  failures, \* how often Redis has failed
  counter,  \* Redis: the count of each key and when it expires
  locals,   \* _local_counters of each worker: window start and count
  chain,    \* the keys of a call
  worker,   \* the process that serves it
  at,       \* how many of its keys have let it through
  pc,       \* where each call is
  hand,     \* what _hit_local has read and will write back
  granted,  \* history: when Redis's count let an attempt through, by key
  hits,     \* history: when a key was charged in Redis, let through or not
  passed,   \* history: when a worker's count let an attempt through, by key
  raced     \* history: keys two threads of a worker have counted at once

vars == <<now, failures, counter, locals, chain, worker, at, pc, hand, granted, hits,
          passed, raced>>

fixed == <<chain, worker>>
redis == <<counter, granted, hits>>
inWorkers == <<locals, hand, passed, raced>>

Init ==
  /\ now = 0
  /\ failures = 0
  /\ counter = [k \in Keys |-> [count |-> 0, until |-> 0]]
  /\ locals = [w \in Workers |-> [k \in Keys |-> [started |-> 0, count |-> 0]]]
  /\ chain \in [Calls -> Chains]
  /\ worker \in [Calls -> Workers]
  /\ at = [c \in Calls |-> 0]
  /\ pc = [c \in Calls |-> "check"]
  /\ hand = [c \in Calls |-> [started |-> 0, count |-> 0]]
  /\ granted = [k \in Keys |-> <<>>]
  /\ hits = [k \in Keys |-> <<>>]
  /\ passed = [w \in Workers |-> [k \in Keys |-> <<>>]]
  /\ raced = [w \in Workers |-> {}]

Checks(c, k) ==
  /\ pc[c] = "check"
  /\ at[c] < Len(chain[c])
  /\ k = chain[c][at[c] + 1]

\* check: count > limit is a 429; otherwise the next key, or the endpoint.
Judge(c, count) ==
  \/ /\ count > Limit
     /\ pc' = [pc EXCEPT ![c] = "refused"]
     /\ UNCHANGED at
  \/ /\ count <= Limit
     /\ at' = [at EXCEPT ![c] = @ + 1]
     /\ pc' = [pc EXCEPT ![c] = IF at[c] + 1 = Len(chain[c]) THEN "served" ELSE "check"]

\* What INCR returns: one more than a counter that Redis still holds, else 1.
CountedNow(k) == IF now < counter[k].until THEN counter[k].count + 1 ELSE 1

\* Seeded bug: only INCR is sent, so the counter never expires.
ChargeForever(k) ==
  /\ counter' = [counter EXCEPT ![k] = [count |-> CountedNow(k), until |-> MaxTime + Window]]
  /\ hits' = [hits EXCEPT ![k] = Append(@, now)]

\* INCR and EXPIRE in one transaction: each hit begins the window anew.
Charge(k) ==
  /\ counter' = [counter EXCEPT ![k] = [count |-> CountedNow(k), until |-> now + Window]]
  /\ hits' = [hits EXCEPT ![k] = Append(@, now)]

\* Seeded bug: the count is compared with the limit before this hit.
HitRedisLate(c, k) ==
  /\ Checks(c, k)
  /\ Charge(k)
  /\ Judge(c, CountedNow(k) - 1)
  /\ granted' = IF CountedNow(k) <= Limit + 1
                  THEN [granted EXCEPT ![k] = Append(@, now)] ELSE granted
  /\ UNCHANGED <<now, failures, fixed, inWorkers>>

HitRedis(c, k) ==
  /\ Checks(c, k)
  /\ Charge(k)
  /\ Judge(c, CountedNow(k))
  /\ granted' = IF CountedNow(k) <= Limit THEN [granted EXCEPT ![k] = Append(@, now)] ELSE granted
  /\ UNCHANGED <<now, failures, fixed, inWorkers>>

\* No client, no connection, or the reply lost after the key was charged: the
\* call is counted by its worker instead.
RedisGone(c, k) ==
  /\ failures < MaxFailures
  /\ failures' = failures + 1
  /\ Checks(c, k)
  /\ Charge(k) \/ UNCHANGED <<counter, hits>>
  /\ pc' = [pc EXCEPT ![c] = "local"]
  /\ UNCHANGED <<now, fixed, at, granted, inWorkers>>

\* Seeded bug: the count of an open window is written back as it was read.
ReadLocalUncounted(c) ==
  /\ pc[c] = "local"
  /\ LET mine == locals[worker[c]][chain[c][at[c] + 1]]
     IN hand' = [hand EXCEPT ![c] =
          IF mine.count = 0 \/ now >= mine.started + Window
            THEN [started |-> now, count |-> 1] ELSE mine]
  /\ pc' = [pc EXCEPT ![c] = "write"]
  /\ UNCHANGED <<now, failures, fixed, at, redis, locals, passed, raced>>

\* _hit_local reads the clock and the dictionary ...
ReadLocal(c) ==
  /\ pc[c] = "local"
  /\ LET mine == locals[worker[c]][chain[c][at[c] + 1]]
     IN hand' = [hand EXCEPT ![c] =
          IF mine.count = 0 \/ now >= mine.started + Window
            THEN [started |-> now, count |-> 1]
            ELSE [mine EXCEPT !.count = @ + 1]]
  /\ pc' = [pc EXCEPT ![c] = "write"]
  /\ UNCHANGED <<now, failures, fixed, at, redis, locals, passed, raced>>

\* ... and writes back what it has made of them.  Whoever else is between the
\* two steps on this key will overwrite it.
WriteLocal(c) ==
  LET w == worker[c]
      k == chain[c][at[c] + 1]
  IN /\ pc[c] = "write"
     /\ locals' = [locals EXCEPT ![w][k] = hand[c]]
     /\ Judge(c, hand[c].count)
     /\ passed' = IF hand[c].count <= Limit THEN [passed EXCEPT ![w][k] = Append(@, now)]
                                            ELSE passed
     /\ raced' = [raced EXCEPT ![w] = @ \union
          {x \in {k} : \E d \in Calls \ {c} : pc[d] = "write" /\ worker[d] = w
                                             /\ chain[d][at[d] + 1] = k}]
     /\ UNCHANGED <<now, failures, fixed, redis, hand>>

Tick ==
  /\ now < MaxTime
  /\ now' = now + 1
  /\ UNCHANGED <<failures, fixed, at, pc, redis, inWorkers>>

Next ==
  \/ \E c \in Calls, k \in Keys : HitRedis(c, k) \/ RedisGone(c, k)
  \/ \E c \in Calls : ReadLocal(c) \/ WriteLocal(c)
  \/ Tick

Spec == Init /\ [][Next]_vars
-----------------------------------------------------------------------------
(* Properties                                                              *)

\* Every variable keeps its type, and the endpoint serves a call that all of
\* its keys have let through.
TypeOK ==
  /\ now \in Nat /\ failures \in Nat
  /\ counter \in [Keys -> [count : Nat, until : Nat]]
  /\ locals \in [Workers -> [Keys -> [started : Nat, count : Nat]]]
  /\ chain \in [Calls -> Chains]
  /\ worker \in [Calls -> Workers]
  /\ at \in [Calls -> Nat]
  /\ pc \in [Calls -> {"check", "local", "write", "served", "refused"}]
  /\ \A c \in Calls : pc[c] \in {"local", "write"} => at[c] < Len(chain[c])
  /\ \A c \in Calls : pc[c] = "served" => at[c] = Len(chain[c])
  /\ hand \in [Calls -> [started : Nat, count : Nat]]
  /\ granted \in [Keys -> Seq(Nat)]
  /\ hits \in [Keys -> Seq(Nat)]
  /\ passed \in [Workers -> [Keys -> Seq(Nat)]]
  /\ raced \in [Workers -> SUBSET Keys]

Budget == INSTANCE SlidingBudget

\* Counted in Redis, an account's or an IP's attempts keep to the budget over
\* every stretch of time, not only over the counter's windows, and whatever
\* replies were lost.
SlidingBudgetSpec == Budget!Spec

\* Cut off from Redis, a worker lets no more than twice the limit through on a
\* key in any Window (rate_limit.py:14), unless two of its threads have counted
\* the key at once.
LocalBudget ==
  \A w \in Workers, k \in Keys : k \notin raced[w] =>
    LET g == passed[w][k]
    IN \A i \in 1 .. Len(g), j \in 1 .. Len(g) : j = i + 2 * Limit => g[i] + Window <= g[j]

\* Redis refuses a call only when Limit attempts on the key came before it,
\* each of the last ones less than a Window after the one before: whoever waits
\* for the Retry-After of a refusal is not refused for older attempts.
RefusedForCause ==
  [][\A c \in Calls : pc[c] = "check" /\ pc'[c] = "refused"
       => LET k == chain[c][at[c] + 1]
              h == hits'[k]
          IN /\ Len(h) > Limit
             /\ \A i \in Len(h) - Limit .. Len(h) - 1 : h[i + 1] < h[i] + Window]_vars

\* rate_limit.py:13: "The window is fixed rather than sliding": whoever is
\* refused has had Limit attempts let through within the Window that ends now.
FixedWindow ==
  [][\A c \in Calls : pc[c] = "check" /\ pc'[c] = "refused"
       => LET g == granted[chain[c][at[c] + 1]]
          IN Cardinality({i \in 1 .. Len(g) : now < g[i] + Window}) >= Limit]_vars
=============================================================================
