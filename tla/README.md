# A TLA+ model of easy-commerce

easy-commerce is a web shop: a FastAPI service over PostgreSQL, with an optional
Redis and an optional read replica, and a React front end. This directory models
the parts of the service whose correctness depends on what runs beside them, checks
them with TLC on small instances and proves their main invariants with TLAPS for
every size. Paths below are relative to `packages/api/app/` unless they say otherwise.

    tlc -workers 2 -config CheckoutShop.cfg MCCheckout.tla     # a run
    tlapm CheckoutProofs.tla                                   # a proof module

`PROJECT.json` lists the runs, the source lines of every definition, the seeded bugs
each property is tested with, the disagreements found, the hazards and the theorems.

## 1. The system

Handlers are synchronous functions in a thread pool, in several worker processes.
Each request has its own SQLAlchemy session (`get_db`), without autoflush, on a READ
COMMITTED database. So the unit of interleaving is the SQL statement, and what a
session has loaded stays in its identity map until a refresh or a commit: most of the
hazards below are copies that outlive what they were copied from.

| Component | State | Operations | Interacts with | What is hard | What makes it correct |
|---|---|---|---|---|---|
| Checkout (`order_service.place_order`, `coupon_service`) | variants' stock, orders, coupon counters, row locks | one handler, about ten statements | cart, coupons, admin stock edits, idempotency | copies older than the lock, lock order, one transaction for everything | stock and order agree; no deadlock; every call answered; the ceiling of a coupon |
| Cart (`cart_service`) | cart and its items | add, update, remove, clear | checkout clears it | read-modify-write without locks; lazy creation | no lost edits; at most one row per variant |
| Idempotency (`idempotency_service`) | `idempotency_keys` rows | reserve, complete, release, sweep | wraps checkout | retries during and after the call, crashes, expiry | one effect per key; faithful replays; keys are freed |
| Order lifecycle, returns (`routers/orders`) | order and return statuses | cancel, set status, submit, approve, reject | audit log | unlocked check-then-write, dropped UPDATEs | statuses change as documented |
| Audit log (`audit_service`) | append-only entries | record | after every admin change | second transaction, may fail | entries say what their call did |
| Catalogue cache (`core/cache`) | version counter and entries in Redis | build_key, get_or_set, invalidate | catalogue readers, admin writes, replica | late stores, lost counters, Redis failures | no read misses a bumped write; always answered; heals |
| Replica routing (`get_read_db`) | replica's lag | choose the session | cache loaders | lag | staleness ends |
| Product administration | products, variants | CRUD, SKU, stock, featured and active flags, bulk edits | checkout, cache, audit log | absolute stock writes, check-then-insert of a SKU, negated copies | unique SKUs; a commit nobody crossed does what it would do alone |
| Images | rows and objects in the bucket | confirm, choose the primary, delete | products | clear-then-set; the object goes before the row | one primary image; an uploaded object that is listed stays until its row is deleted |
| Categories, tags | names and slugs | CRUD | embedded in cached products | no invalidation; unchecked renames and slugs | staleness ends; unique names and slugs |
| Rate limiting (`core/rate_limit`) | counters per scope and caller | check | login, registration, password change | window re-armed per hit, lost replies, local fallback without a lock | a budget over every stretch of time; no refusal without cause |
| Addresses | rows per user, one default | CRUD, set default | checkout | clear-then-set, rows the UPDATE cannot see | one default, never lost on the way to another |
| Wishlist | a list and its items per user | add, remove, move to cart | cart | lazy creation, double moves | an item is moved once |
| Reviews | one per user and product | create, edit, moderate, delete | products | check-then-insert | one review per user and product |
| Users and authentication | accounts | register, log in, change password, (de)activate | everything | check-then-insert of an e-mail, dropped UPDATEs | no two accounts per e-mail; a password yields only to the one that knows it |
| Notifications, analytics, observability, schemas, web shop, scripts | none that matters here | | | | |

## 2. The modules

| Module | Models | Composed with |
|---|---|---|
| `Checkout` | `place_order` in parallel with the cart, variant and coupon endpoints | |
| `Idempotency` | `POST /orders` with a key, `place_order` reduced to the points where it can raise or commit | implements `AtMostOnce` |
| `AtMostOnce` | what an Idempotency-Key promises, without rows or faults | |
| `CatalogCache` | catalogue readers, admin writes, Redis, the replica | |
| `OrderLifecycle` | the handlers after checkout, with audit entries | |
| `RateLimit` | the budgets in front of login, registration and password change | implements `SlidingBudget` |
| `SlidingBudget` | a budget over every stretch of time, without counters | |
| `CartWrites` | the cart and wishlist endpoints and the cart's share of checkout, statement by statement | |
| `Defaults` | the default address and the primary image, images in the bucket | |
| `UniqueRows` | accounts, reviews, categories, tags, coupons, variants, products: check, then commit, then audit | |
| `MC…` | small sets, symmetry | EXTENDS its module |
| `…Proofs` | the theorems | EXTENDS its module and TLAPS |

The modules share no variables: where components meet, each module has as much of the
other as the question needs. `Checkout` has the cart as single steps, `CartWrites` has
the order as a read and a write; `Idempotency` has `place_order` as three steps, and
`CatalogCache` and `UniqueRows` see the same admin handlers from two sides.

Definitions named in comments as *seeded bugs* belong to no specification: each is a
plausible mistake that replaces the definition after it, to show that some property
would notice.

History variables say what happened rather than what is stored. Several properties
have the form "X, unless the call was *crossed*": the code takes no lock between a
check and its commit, so the strongest thing that holds is that nothing goes wrong
unless another call committed in that gap and changed what the call depends on.
`crossed` records exactly those calls, and the seeded bugs show what the property
catches besides them.

### Checkout

A request walks `start → variants → locking → coupon → write → respond → placed`, or
ends `rejected` (4xx) or `failed` (500 or death of the worker). `lines`, `seen` and
`seenUsed` are the session's copies of the cart, the stock and the coupon counter.
`LoadVariants` is the selectin load of `CartItem.variant`, which precedes the locking
query; because that query has no `populate_existing()`, it does not renew `seen`, and
`LockNext` changes only `rowLock`. Locks are taken one row at a time in id order, as
PostgreSQL does for an ordered `FOR UPDATE`. `Commit` joins the INSERTs, the flushed
UPDATEs, the cart's DELETE and COMMIT, since rows written stay locked until then and
nothing else is visible. The cart and admin endpoints are single steps; their waits
for row locks are guards. Deleting a variant that sits in a cart is refused, since the
ORM nulls a NOT NULL column first.

`shelf` has each order subtracted once, and `overtaken[r]` collects variants written
by somebody else after `r` copied them. Neither the column nor the admin schemas have a
lower bound, so `InitStock` and the levels admins write (`SetStock`, `RestockLevels`) are
any integers. What an admin writes is an absolute count and `shelf` starts anew from it:
that a checkout overwrites an admin's count shows as a difference of the two, that an
admin's count disregards an order does not.

Abstractions: quantities of cart lines are at least 1; `max_uses`, `min_order_amount`
and prices are constant; the discount amount is left out, as no guard depends on it;
an inactive product is not looked at, as `place_order` does not look either.

### Idempotency

A row is `none`, `in_progress` or `completed`, with the body's fingerprint, the order
in the stored response and whether `expires_at` has passed. Between `Reserve` (the
unique index decides) and `Complete` or `Release`, `place_order` is three steps: load
the cart, commit the order, refresh. It may raise before the commit and after it; the
router's `except` treats both alike. `Crash` leaves the row as it is; `Expire` and
`PurgeExpired` free it. One user and one endpoint suffice, as keys are scoped by both.
A reservation outlives every handler (24 hours against seconds), so `complete()` never
finds its row gone. `reserve()` does not look at `expires_at`: until the sweep has deleted
it, an expired row still refuses or replays, in the code and here, and no property says
otherwise.

`AtMostOnce` has the key and body of each call, who has had an effect, which effects
have lapsed or were disowned, and what each call was told; an effect stands while it
has done neither. The mapping (`Once` in `Idempotency`) takes the committed orders as
effects, those the sweep or expiry has forgotten as lapsed, those whose key was released
after the commit as disowned (the disagreement `idempotency_promise` shows), and as told
the order in a call's replay or response. Only an effect nobody was told of may be
disowned. From this alone follows that all who are answered are told the same
(`Agreed`, `AnswersAgree` in `Idempotency`).

### CatalogCache

Content is a number, the count of catalogue writes it shows. One cached response is
enough: different responses share nothing but the version. A loader's content is what
its first SELECT saw. `RedisFails`, `VersionLost` and `Replicated` switch the faults
on. A process that started without Redis is covered by `LookupFails` and
`InvalidateFails`. `BuildKeyFails` uses version 1, the local counter of a process that
has a client, since only processes without one increment theirs. `astray` records the
two things that may break `BumpedIsSeen`: a version counter that was lost or could
not be read, and a loader on a replica behind an announced write.

### OrderLifecycle

One order. Each handler is read, write, refresh, audit entry; `crossed` collects the
calls during which another call committed, and `did[c]` is the change that `c`'s commit
really made. The ORM sends no UPDATE for a column that equals the session's copy; that
is why `CommitUpdate` and `CommitDecision` compare with copies, not rows. An entry is
lost when `record()` fails or the worker dies. Rows other than the order's status and
the requests' status, and mails, are left out.

### RateLimit

A call is charged on a chain of keys (`chain`: login counts its IP, then its account)
and stops at the first that refuses (`Judge`). `HitRedis` is one INCR + EXPIRE
transaction; EXPIRE renews the window on every hit, refused ones too (`Charge`).
`RedisGone` is a missing client, a failed command or a reply lost after the commit, so
it may charge the counter and still fall back. The fallback, `ReadLocal` and
`WriteLocal`, is a read and a write of a dictionary shared by the threads of a worker.
`granted`, `hits` and `passed` are the times of what happened; `raced` the local keys
that two threads have counted at once, where nothing is promised.

`SlidingBudget` states that of any `Limit + 1` attempts granted on one key the last
comes a `Window` after the first; the mapping is the identity on `now` and `granted`.

### CartWrites

One customer, one line in the cart, one wishlist item. `FindList` and `CreateList` are
the lazy creation of cart and wishlist with their unique constraint; `ReadWish` and
`ReadLine` the loads; the `Write…` actions the commits, each by the session's copy
(`hand`): an UPDATE writes the copy plus the quantity, a DELETE goes by id, an UPDATE
of a row that is gone raises StaleDataError, and an INSERT beside another one meets
the constraint; the last two end as a 500 (`Raise`). A line loaded with the cart keeps
its quantity in the identity map, which is why `ReadLine` may use an older copy.
`WriteOrder` is checkout's part: it takes the line it has loaded and deletes by cart id
whatever is there. Ids of rows are never reused; a client names a row by an id it was
shown before (`Look`). A call is crossed when another one commits a change of the cart
line or of the wishlist item it has read (`Overtaken`). Quantities to add have no lower
bound in the schema and none here.

`owed` is what the answered calls add up to since the line was last set or deleted;
`blurred` says that a crossed call was answered since.

### Defaults

Rows of one owner with the flag `default` or `plain`. `Snapshot` fixes the rows an
UPDATE sees; `Clear` then locks them one by one in any order (`LockRow`), waiting while
another call holds the row, and keeps the locks (`held`) until the call ends. Two clears
may meet half-way. `WaitsFor` says who waits for whom, and a `Circle` of waits is parted by
the database, which ends one of the calls (`PartCircle`). `Insert`, `Choose` and `Amend`
commit; the flag is written only where it differs from the copy. `Find` comes after the
clear, as in the code, and its 404 undoes it. `Purge` removes the object from the bucket
before `DeleteRow`. `Fail` is a crash, an error of bucket or database, or the end of a
deadlock.

`get_upload_url` only signs a key and `confirm_image` lists any key it is given, so a
listed image may never have had an object. The keys in `Late` are put into the bucket by
the browser (`Upload`) while the calls run, or never; the others were there before.
`uploaded` remembers which keys had an object, and `ImageServed` is about those only.

Abstraction: the read after the commit is left out, as it changes nothing.

### UniqueRows

`kind` picks the table, or the column of it: an account's `is_active` and its password
are two kinds, since no handler relates them, and so are a product's `is_featured` and
`is_active`. A row has `key`, the unique column that is checked (None for no row), `slug`,
a second one that only categories and tags have and no handler checks, and `data`, a
column that is not unique. A call loads (`Load`, `LoadAgain` for variants), checks what it has loaded
(`Check`, `Forbidden`), commits (`Insert`, `Rename`, `Set`, `Delete`), reads back
(`Refresh`), records (`Record`) and answers (`Respond`), each step with its own ways
out; an UPDATE names only what differs from the copy. `Offers` says which operations a
kind has. A body may name what is not there (the product of a review, the category of a
product) or a value a column refuses (null, a number too large): such a body is not `fit`,
and the call that carries it gets as far as its commit, or to the hashing of a password,
and ends as a 500. `LoneCause` lists all that makes a call fail without another one's help.
The constants admit any number of calls, rows and keys.

Abstractions: one column besides the unique ones; a rename that leaves a column out is one
that names the value it will load; a bulk call touches one row; a reference that another
call deletes before the commit counts as one that is not there; deleting a category does
not null the category of its products, which no guard reads.

## 3. The runs

| Run | Instance | Shows |
|---|---|---|
| `checkout_shop` | 2 requests, 2 users (one shopping), 2 variants with 2 units each, an admin who writes -1, one variant deletable, one single-use coupon switched on and off | row locks exclude (`ExclusiveRows`), the coupon counter is sound and exact for orders sharing a variant, no order takes a level below zero, and levels differ from the units left only through an overtaken copy |
| `checkout_rush` | 3 requests, 2 users, 2 variants with 1 unit each, one deletable, fair | no wait cycle, every call answered, no hidden unit |
| `checkout_oversell` | 2 requests for the last unit | **violation** of ADR 0001: both are accepted |
| `idempotency_retries` | 3 calls, one key, 2 bodies, all faults, fair | one runner, one standing order, faithful replays, one answer for all who are answered, stored responses kept, reservations end, and every step is one of `AtMostOnce` |
| `idempotency_promise` | 2 calls, one key | **violation** of "at most one side effect": an exception after the commit frees the key |
| `cache_faults` | 2 readers, 1 product write, 1 category write, a lagging replica, Redis failing, the version counter lost, fair | a read that begins after a bump shows the write unless the counter or the replica went astray; every read is answered; the cache heals |
| `order_calls` | 1 cancellation, 1 update to shipped or delivered, 2 return requests, 2 decisions | returns only after delivery; cancellations, approvals and audit entries wrong only when crossed; a verdict overturned only by a decision that had read it or was crossed |
| `rate_limits` | 3 logins to 1 account from 2 addresses, 1 worker, limit 1, window 2, clock up to 2, up to 3 Redis failures | Redis keeps to a sliding budget, a worker on its own to twice the limit, and Redis refuses only for recent attempts |
| `rate_window` | 3 attempts on one key, clock up to 4 | **violation** of "fixed rather than sliding": every hit begins the window anew |
| `cart_calls` | 3 calls of one customer, any of 10 kinds, stock 2, quantities 0, 1, -1 and 3 added or 0 to 3 set, with and without a cart, line, wishlist and item before | the cart adds up, only an add of less than one leaves a line below one, and errors and double moves need an overlap |
| `default_calls` | 3 calls, 1 row before, 2 keys, one of them uploaded meanwhile or never, addresses and images, fair | one default unless a new one came behind a clear, never a lost one; uploaded images keep their objects; whoever deadlocks waits for a clear; every call answered |
| `admin_calls` | 3 calls, at most one with a body that is not fit, 1 row before (in a cart, if a variant), 2 keys, 2 slugs, all 8 kinds | errors without a cause in the request, wrong entries and changes a call would not make alone need an overlap; a 500 has changed nothing that is still there |

The type invariant of every module (`TypeOK`, which includes the uniqueness of keys in
`UniqueRows` and of lock holders in `Defaults`) is proved (section 4) and not checked
again by a run.

Bounds. The races need two parties on one row, and a third to overtake one of them; two
variants are the least for lock order and for coupons without a shared row. One unit
per variant in `checkout_rush` gives an order, a refusal and a request that waits for
either. Three calls on a key are a first try, its retry and a latecomer after the
sweep; two bodies tell a retry from a misuse. Two readers are needed for a late store
seen by somebody else. In `rate_limits` the clock reaches one Window, so a counter
expires and a second grant happens, and three failures let every call fall back. In
`cart_calls`, 3 is more than the stock, and 0 and -1 are quantities `CartItemAdd` admits.
In `order_calls`, two requests and two decisions let a decision be about one request while
the other changes, and two decisions about one request race.
Three calls and a row that was there are, in the last two runs, two that
race and one that creates, deletes or renames what they race for (for three that clear, a
circle of two and one that waits for it); two keys and two slugs let a name be free or
taken. In `checkout_shop` an order of each request finds stock until the admin's -1, and
two units are what one that disregards the check would take below zero with. Runs that may stop (all calls made) set `CHECK_DEADLOCK FALSE`.
Symmetry is used only where the instance treats the permuted values alike and no
liveness is checked.

Fairness. A worker thread goes on with the request it has begun (weak fairness of its
handler's steps, not of its beginning, and never of a fault). PostgreSQL grants a free
row lock, and its deadlock detector ends one call of a circle that waits. Redis entries have a TTL, so they expire. The replica applies the log. The
daily sweep of `docs/OPERATIONS.md` runs and `expires_at` passes. No other fairness is
assumed; in particular nothing makes a customer retry or fill a cart.

### Disagreements found

Three have a run that shows them:

1. *Overselling.* The stock check uses a copy older than the lock (`order_service.py:53`).
   `LedgerExact` shows that this is the only way stock goes wrong.
2. *At most one effect per key.* `except Exception` covers what follows the commit
   (`routers/orders.py:76`). `OneEffectPerKey` shows it to be the only way besides expiry.
3. *A fixed window.* EXPIRE is sent with every hit (`core/rate_limit.py:58`), so the
   window slides with each attempt. `SlidingBudgetSpec` shows that the budget only
   gets stricter, `RefusedForCause` whom it turns away.

Others were met on the way; a property says how far the code falls short, or the
model takes the step as the code does:

4. *Coupon ceiling.* The counter is read without a lock (`coupon_service.py:34`). Only
   orders without a common variant slip through: `SharedVariantCeiling`.
5. *Any admin write invalidates.* Category and tag handlers do not; their changes are
   seen after the next product edit or the TTL (`CacheHeals`).
6. *Cancellation of pending orders only.* The check is on an unlocked copy
   (`CancelCrossed`).
7. *Approval returns the order.* The assignment may send no UPDATE (`ApprovalCrossed`).
8. *A decided return request can be decided again*, although `CASE_STUDY.md:179` draws
   the decision as final; of two that read it pending, the second wins (`VerdictKept`).
9. *`submit_return` validates neither items nor quantities*, although
   `CASE_STUDY.md:177-178` says the server does.
10. *Set-default "atomically clears the previous default"* (`CASE_STUDY.md:133`), but not
    one that is created or chosen while it clears (`OneDefault`).
11. *Entries "record the diff"*, but `delete_product` and the bulk calls claim a change
    without looking, and `user.deactivated` may say `after: true` (`EntryExact`).
12. *Slugs are unique and categories and tags in use protected, every mutation invalidates
    and writes an entry* (`CASE_STUDY.md:190-194`, of products, images, categories and
    tags). A taken slug is a 500 (`LoneCause`), deletion is not refused, category and tag
    handlers neither invalidate nor record, and image handlers record nothing.

## 4. The proofs

All theorems hold for any constants satisfying the named assumptions. Most of these say
that constants are sets, numbers or functions between them, that ids of different things
differ and that None is none of them. Those that say more: in `Checkout`, `Variants
\subseteq Nat`, as a variant is named by its position in the order of ids, which is how the
locks are taken; there are finitely many `Requests`; a line has a quantity of at least 1
(`MaxQty`), while levels of stock are any integers, but limits of coupons, minimal amounts
and prices are naturals. In `CartWrites` the stock is a natural. In `RateLimit`, limit and
window are at least 1 and every chain is finite. In `Defaults`, each row has one key.

| Module | Theorems | Inductive invariant |
|---|---|---|
| `CheckoutProofs` | `Typing`, `StockTheorem`, `ExclusiveTheorem`, `LedgerTheorem`, `NothingHiddenTheorem`, `NoWaitCycleTheorem`, `OversoldTheorem`, `LockedKeptTheorem`, `CommitTheorem`, `GoesOnTheorem`, `AdvanceTheorem`, `UsedCountTheorem`, `SharedVariantTheorem` | `ProgressInv` (who owns which locks when, in ascending order), `CopiesInv` (copies suffice past the check), `LedgerInv` (an uncrossed copy equals the column), `CouponInv` |
| `IdempotencyProofs` | `TypingTheorem`, `SingleRunnerTheorem`, `OneEffectTheorem`, `ReplayTheorem`, `CompletedKeptTheorem`, `AtMostOnceTheorem`, `AgreeTheorem` | `IdemInv`: a runner owns the unfinished row of its key alone; an order nobody forgot keeps a row alive; a stored response is an order of that key and body. `StandInv`: a stored response or reply shows an order whose own call was answered with it. `AgreeTheorem` needs only the abstract specification |
| `CatalogCacheProofs` | `TypingTheorem`, `BumpedTheorem`, `CommittedTheorem`, `HealedTheorem` | `FaultInv`: the types, and unless the cache went astray `CacheInv`: nothing is ahead of the counter; what carries the current version is as new as the last bump; readers sharing a version share a floor. `OnlyCommitted`: no content is ahead of the primary, so what is current cannot be replaced by what is old |
| `OrderLifecycleProofs` | `OrderTyping`, `DeliveryTheorem`, `AuditTheorem`, `CancelTheorem`, `ApprovalTheorem`, `VerdictTheorem` | `OrderInv`: what an uncrossed call has read is still there, and then is what it did. `UnsentInv`: a return request that was not submitted yet does not exist |
| `RateLimitProofs` | `TypingTheorem`, `BudgetTheorem`, `LocalTheorem`, `CauseTheorem`, `WindowTheorem` | `RateInv`: the live counter counts the latest hits, which chain to its expiry, and the grants among them; the same for a worker's entry and what its thread will write. `GrantsInv` (grants come in order, and spread by the limit) needs only `SlidingBudget` |
| `CartWritesProofs` | `TypingTheorem`, `ExactTheorem`, `ErrorTheorem`, `MovedTheorem`, `LineTheorem` | `CartInv`: where a call stands (`Placed`), and that its copy is the row unless it was crossed (`Fresh`). `LineInv`: the line and all copies of it are at least 1 unless an add of less was answered |
| `DefaultsProofs` | `TypingTheorem`, `OneTheorem`, `ServedTheorem`, `KeptTheorem`, `UnsetTheorem`, `DeadlockTheorem`, `GoesOnTheorem`, `AdvanceTheorem` | `DefaultInv`: who clears holds some, and who has cleared all, of what it saw of the rows that are left, its own target included (`LocksOK`), and has seen every default unless crossed (`Sees`); ids are fresh (`RowsOK`); objects that were uploaded are gone only by a purge (`BucketOK`) |
| `UniqueRowsProofs` | `TypingTheorem`, `ErrorTheorem`, `EntryTheorem`, `AloneTheorem`, `NothingTheorem` | `RowsInv`: what each call knows of its row, of its key, of its commit and of its entry unless crossed (`CallOK`). `ErrorInv`: nothing is noted before the commit, and a row that is gone stays away |

Why strengthening is needed: `LedgerExact` says nothing about requests that have not
committed, and a step could take them anywhere; `LedgerInv` ties each copy to the
column unless it was overtaken, using the locks of `ProgressInv` to show that nobody
writes under a lock. `NoWaitCycle` follows without induction over cycles: a waiter
waits for a row above all it holds, so the highest awaited row in a cycle would be
held by somebody waiting for a higher one. `BumpedIsSeen` is about readers that have
answered; what makes it inductive is the relation between versions and floors. In
`OrderInv`, a commit crosses everybody who has read and not finished, so only the
committing call is left to answer for. `OneDefault` holds although locks do not cover
rows that are created later: a row can become a default only behind a call that is
then crossed. `OnlyClearsDeadlock` holds because a call that goes on to write a row holds
nothing, or that row among the others: its clear has locked it, unless it is gone.

The last three modules share an argument. A frame lemma says what a step of one call
leaves to the others: it changes nothing another call relies on without crossing it.
With that, the invariant is kept for the others at once, and each action has to be
looked at only for the call that takes it. The two refinements are proved step by
step: initial states map to initial states, and each action to one abstract action or
to a stutter.

Several theorems go beyond what a run checks. `OversoldTheorem`, `LockedKeptTheorem` and
`CommitTheorem` say together what the overselling of section 3 is and is not: only an
order with an overtaken copy oversells, a copy is overtaken only before its row is
locked, and all else is taken as if the checkout ran alone at its commit. Reading the
stock again under the locks would close the gap. `WindowTheorem` counts the attempts of
a window, which `SlidingBudget` only orders. `AtMostOnce` and `SlidingBudget` are used
that way, too: `AgreeTheorem` and half of `WindowTheorem` are proved of the abstract
specification and hold in the detailed one by refinement.

Only model-checked: every liveness property (`EveryCallAnswered` of `Checkout` and of
`Defaults`, `ClaimEnds`, `EveryReadAnswered`, `CacheHeals`), since fairness and ENABLED
are beyond the prover, and the violations, which are counterexamples. For both
`EveryCallAnswered` the safety half is proved: somebody can always go on (the two
`GoesOnTheorem`s, in `Defaults` up to a circle of clears that the database parts), and
every step brings its call nearer to its end and sets nobody back (the two
`AdvanceTheorem`s). Of `CacheHeals` the "stays" is proved (`HealedTheorem`).

## 5. Not modelled

Whole components: notifications and e-mail (best effort after the response), analytics
(read-only SQL), logging, metrics, request ids and the other middleware, `main` and the
settings, schemas, the web shop (no state of its own, no idempotency key), migrations,
seeding, scripts and dashboards. They keep no state whose correctness depends on an
order of steps.

Inside modelled components:

- the line items of a return request, which the code stores and never reads;
- the arithmetic of discounts and totals, on which no later step depends;
- the tag list of a product (two edits that add or remove the same tag at once end as a
  500 for one of them), and the category a product loses with its category;
- bodies that a library refuses before the first statement, such as a password to verify
  that holds a NUL;
- `RATE_LIMIT_ENABLED` off, which skips everything, and a Redis that restarts empty;
- changes of a coupon's value and limit during a checkout;
- calls without a key, which may be delivered twice, as `routers/orders.py:44-46`
  intends;
- a guarantee that every change has its audit entry: `audit_service.py:146` accepts the
  loss, and the models take that step (`AuditFails`, `Record`);
- negative quantities in `Checkout`: `CartItemAdd` admits them (`CartWrites` adds -1),
  and an order of such a line would add to the stock;
- null for a NOT NULL column, which some schemas let through to a 500 at the commit, outside
  of `UniqueRows`.
