---------------------------- MODULE OrderLifecycle ----------------------------
(***************************************************************************)
(* One order after checkout: the customer's cancellation and return        *)
(* requests, the admin's status updates and return decisions, and the      *)
(* audit entries of the admin's calls.  Every handler reads first and      *)
(* writes later without a lock, each in a session of its own.              *)
(*                                                                         *)
(* One action is one statement that other sessions can see or that sees    *)
(* them: a read, a commit, the refresh after it, the audit entry's commit. *)
(***************************************************************************)
EXTENDS Naturals, FiniteSets

CONSTANTS
  Cancels,    \* DELETE /orders/{id}
  Updates,    \* PATCH /orders/admin/{id}/status
  Submits,    \* POST /orders/{id}/returns; each makes one return request
  Decisions,  \* PATCH /orders/admin/returns/{id}/approve or reject
  Targets,    \* bound: the statuses an admin asks for
  NoReturn    \* a decision that has not loaded its return request

Calls == Cancels \union Updates \union Submits \union Decisions

Statuses == {"pending", "processing", "shipped", "delivered", "cancelled", "returned"}
Verdicts == {"approved", "rejected"}

ASSUME TargetsAssumption == Targets \subseteq Statuses
ASSUME CallsAssumption ==
  /\ NoReturn \notin Submits
  /\ Cancels \intersect (Updates \union Submits \union Decisions) = {}
  /\ Updates \intersect (Submits \union Decisions) = {}
  /\ Submits \intersect Decisions = {}

VARIABLES
  status,   \* orders.status
  return,   \* return_requests.status of each submitted request, else "none"
  log,      \* audit_logs: who, before and after
  pc,       \* where each call is
  wants,    \* the status an update asks for, the verdict of a decision
  about,    \* the return request of a decision
  seen,     \* session copy of orders.status
  before,   \* what the call will report as the state before its change
  after,    \* what db.refresh showed it after the commit
  delivered,\* history: the order has been delivered at some time
  crossed,  \* history: calls during which another changed a row they had read
  did       \* history: the change the call's own commit made

copies  == <<about, seen, before, after>>
history == <<delivered, crossed, did>>
vars == <<status, return, log, pc, wants, about, seen, before, after,
          delivered, crossed, did>>

Waiting == {"previous", "order", "loaded", "committed", "refreshed"}
Ended   == {"done", "refused", "failed"}

Goto(c, where) == pc' = [pc EXCEPT ![c] = where]

\* The call ends and its session is closed: its copies are gone.
End(c, how) ==
  /\ Goto(c, how)
  /\ seen' = [seen EXCEPT ![c] = "pending"]
  /\ before' = [before EXCEPT ![c] = "pending"]
  /\ after' = [after EXCEPT ![c] = "pending"]

\* The step changes a row x has read and still relies on: the order it checked
\* or copied, the return request it decides.
Overtaken(x) ==
  \/ /\ status' # status
     /\ \/ x \in Cancels /\ pc[x] = "loaded"
        \/ x \in Updates /\ pc[x] \in {"previous", "loaded", "committed"}
        \/ x \in Decisions /\ pc[x] = "loaded" /\ wants[x] = "approved"
  \/ /\ x \in Decisions /\ pc[x] \in {"order", "loaded", "committed"}
     /\ return'[about[x]] # return[about[x]]

\* The history of a commit by c that takes the thing it is about from old to new.
Commits(c, old, new) ==
  /\ Goto(c, "committed")
  /\ crossed' = crossed \union {x \in Calls \ {c} : Overtaken(x)}
  /\ did' = [did EXCEPT ![c] = <<old, new>>]
  /\ delivered' = (delivered \/ status' = "delivered")

Init ==
  /\ status = "pending"
  /\ return = [s \in Submits |-> "none"]
  /\ log = {}
  /\ pc = [c \in Calls |-> "start"]
  /\ wants \in {w \in [Updates \union Decisions -> Targets \union Verdicts] :
                  /\ \A u \in Updates : w[u] \in Targets
                  /\ \A d \in Decisions : w[d] \in Verdicts}
  /\ about = [d \in Decisions |-> NoReturn]
  /\ seen = [c \in Calls |-> "pending"]
  /\ before = [c \in Calls |-> "pending"]
  /\ after = [c \in Calls |-> "pending"]
  /\ delivered = FALSE
  /\ crossed = {}
  /\ did = [c \in Calls |-> <<>>]

-----------------------------------------------------------------------------
(* cancel_order                                                            *)

\* Seeded bug: the status check is dropped.
LoadAnyToCancel(c) ==
  /\ c \in Cancels /\ pc[c] = "start"
  /\ Goto(c, "loaded")
  /\ UNCHANGED <<status, return, log, wants, copies, history>>

LoadToCancel(c) ==
  /\ c \in Cancels /\ pc[c] = "start"
  /\ Goto(c, IF status = "pending" THEN "loaded" ELSE "refused")
  /\ UNCHANGED <<status, return, log, wants, copies, history>>

\* UPDATE orders SET status by id alone: the copy was checked, not the row.
CommitCancel(c) ==
  /\ c \in Cancels /\ pc[c] = "loaded"
  /\ status' = "cancelled"
  /\ UNCHANGED <<return, log, wants, copies>>
  /\ Commits(c, status, "cancelled")

-----------------------------------------------------------------------------
(* admin_update_status                                                     *)

ReadPrevious(u) ==
  /\ u \in Updates /\ pc[u] = "start"
  /\ before' = [before EXCEPT ![u] = status]
  /\ Goto(u, "previous")
  /\ UNCHANGED <<status, return, log, wants, about, seen, after, history>>

LoadToUpdate(u) ==
  /\ u \in Updates /\ pc[u] = "previous"
  /\ seen' = [seen EXCEPT ![u] = status]
  /\ Goto(u, "loaded")
  /\ UNCHANGED <<status, return, log, wants, about, before, after, history>>

\* The ORM sends an UPDATE only when the new status differs from its copy.
CommitUpdate(u) ==
  /\ u \in Updates /\ pc[u] = "loaded"
  /\ status' = IF wants[u] # seen[u] THEN wants[u] ELSE status
  /\ UNCHANGED <<return, log, wants, copies>>
  /\ Commits(u, status, status')

-----------------------------------------------------------------------------
(* submit_return                                                           *)

\* Seeded bug: any order may be returned.
LoadAnyToReturn(s) ==
  /\ s \in Submits /\ pc[s] = "start"
  /\ Goto(s, "loaded")
  /\ UNCHANGED <<status, return, log, wants, copies, history>>

LoadToReturn(s) ==
  /\ s \in Submits /\ pc[s] = "start"
  /\ Goto(s, IF status = "delivered" THEN "loaded" ELSE "refused")
  /\ UNCHANGED <<status, return, log, wants, copies, history>>

CommitReturn(s) ==
  /\ s \in Submits /\ pc[s] = "loaded"
  /\ return' = [return EXCEPT ![s] = "pending"]
  /\ UNCHANGED <<status, log, wants, copies>>
  /\ Commits(s, "none", "pending")

-----------------------------------------------------------------------------
(* approve_return and reject_return.  Neither asks whether the request is  *)
(* still pending.                                                          *)

\* Seeded bug: the request is taken to be pending.
LoadReturnPending(d) ==
  /\ d \in Decisions /\ pc[d] = "start"
  /\ \E s \in Submits :
       /\ return[s] # "none"
       /\ about' = [about EXCEPT ![d] = s]
  /\ before' = [before EXCEPT ![d] = "pending"]
  /\ Goto(d, IF wants[d] = "approved" THEN "order" ELSE "loaded")
  /\ UNCHANGED <<status, return, log, wants, seen, after, history>>

LoadReturn(d) ==
  /\ d \in Decisions /\ pc[d] = "start"
  /\ \E s \in Submits :
       /\ return[s] # "none"
       /\ about' = [about EXCEPT ![d] = s]
       /\ before' = [before EXCEPT ![d] = return[s]]
  /\ Goto(d, IF wants[d] = "approved" THEN "order" ELSE "loaded")
  /\ UNCHANGED <<status, return, log, wants, seen, after, history>>

\* rr.order, loaded lazily when approve_return touches it.
LoadItsOrder(d) ==
  /\ d \in Decisions /\ pc[d] = "order"
  /\ seen' = [seen EXCEPT ![d] = status]
  /\ Goto(d, "loaded")
  /\ UNCHANGED <<status, return, log, wants, about, before, after, history>>

\* Seeded bug: the decision is recorded and the order's status forgotten.
CommitVerdictOnly(d) ==
  /\ d \in Decisions /\ pc[d] = "loaded"
  /\ return' = [return EXCEPT ![about[d]] = IF before[d] # wants[d] THEN wants[d] ELSE @]
  /\ UNCHANGED <<status, log, wants, copies>>
  /\ Commits(d, return[about[d]], return'[about[d]])

\* Both rows in one transaction, each only where it differs from the copy.
CommitDecision(d) ==
  /\ d \in Decisions /\ pc[d] = "loaded"
  /\ return' = [return EXCEPT ![about[d]] = IF before[d] # wants[d] THEN wants[d] ELSE @]
  /\ status' = IF wants[d] = "approved" /\ seen[d] # "returned" THEN "returned" ELSE status
  /\ Commits(d, return[about[d]], return'[about[d]])
  /\ UNCHANGED <<log, wants, copies>>

-----------------------------------------------------------------------------
(* After the commit                                                        *)

\* The customer's handlers answer once db.refresh has reloaded the row.
Answer(c) ==
  /\ c \in Cancels \union Submits /\ pc[c] = "committed"
  /\ End(c, "done")
  /\ UNCHANGED <<status, return, log, wants, about, history>>

\* Seeded bug: the entry is built from the session's copy, without db.refresh.
RefreshSkipped(c) ==
  /\ c \in Updates \union Decisions /\ pc[c] = "committed"
  /\ after' = [after EXCEPT ![c] = before[c]]
  /\ Goto(c, "refreshed")
  /\ UNCHANGED <<status, return, log, wants, about, seen, before, history>>

Refresh(c) ==
  /\ c \in Updates \union Decisions /\ pc[c] = "committed"
  /\ after' = [after EXCEPT ![c] = IF c \in Decisions THEN return[about[c]] ELSE status]
  /\ Goto(c, "refreshed")
  /\ UNCHANGED <<status, return, log, wants, about, seen, before, history>>

Audit(c) ==
  /\ pc[c] = "refreshed"
  /\ log' = log \union {[by |-> c, before |-> before[c], after |-> after[c]]}
  /\ End(c, "done")
  /\ UNCHANGED <<status, return, wants, about, history>>

\* audit_service.record swallows a failure and the call succeeds.
AuditFails(c) ==
  /\ pc[c] = "refreshed"
  /\ End(c, "done")
  /\ UNCHANGED <<status, return, log, wants, about, history>>

\* A database error or the death of the worker; a commit stays.
Fail(c) ==
  /\ pc[c] \in Waiting
  /\ End(c, "failed")
  /\ UNCHANGED <<status, return, log, wants, about, history>>

Next == \E c \in Calls :
  \/ LoadToCancel(c) \/ CommitCancel(c)
  \/ ReadPrevious(c) \/ LoadToUpdate(c) \/ CommitUpdate(c)
  \/ LoadToReturn(c) \/ CommitReturn(c)
  \/ LoadReturn(c) \/ LoadItsOrder(c) \/ CommitDecision(c)
  \/ Answer(c) \/ Refresh(c) \/ Audit(c) \/ AuditFails(c) \/ Fail(c)

Spec == Init /\ [][Next]_vars
-----------------------------------------------------------------------------
(* Properties                                                              *)

\* Every variable keeps its type.
TypeOK ==
  /\ status \in Statuses
  /\ return \in [Submits -> {"none", "pending"} \union Verdicts]
  /\ \A e \in log : e.by \in Updates \union Decisions
  /\ pc \in [Calls -> {"start"} \union Waiting \union Ended]
  /\ about \in [Decisions -> Submits \union {NoReturn}]
  /\ \A d \in Decisions : pc[d] \in Waiting => about[d] \in Submits
  /\ seen \in [Calls -> Statuses]
  /\ before \in [Calls -> Statuses \union Verdicts]
  /\ after \in [Calls -> Statuses \union Verdicts]
  /\ crossed \subseteq Calls

\* A return request exists only for an order that had been delivered, however
\* its status has changed since or changed while the request was submitted.
ReturnedAfterDelivery == (\E s \in Submits : return[s] # "none") => delivered

\* A customer cancels an order that is not pending only when another call
\* changed its status between the check and the write.
CancelCrossed ==
  [][\A c \in Cancels : pc[c] = "loaded" /\ pc'[c] = "committed"
       => status = "pending" \/ c \in crossed]_vars

\* An audit entry tells exactly the change its call committed, unless another
\* call changed the same row in the meantime: a decision is not disturbed by
\* what happens to the order or to its other return requests.
AuditExact ==
  \A e \in log : e.by \notin crossed => did[e.by] = <<e.before, e.after>>

\* An approved return leaves its order "returned" (CASE_STUDY.md:180), unless
\* another call changed the order or the request between the approval's reads
\* and its write: then the ORM may find nothing to change in its copy and send
\* no UPDATE.
ApprovalCrossed ==
  [][\A d \in Decisions :
       pc[d] = "loaded" /\ pc'[d] = "committed" /\ wants[d] = "approved"
         => status' = "returned" \/ d \in crossed]_vars

\* CASE_STUDY.md:179 draws approved and rejected as final.  In the code a verdict
\* can be overturned, but only by a decision on the same request, which has read
\* it, unless another decision came between its read and its write: then the
\* second of two decisions on a pending request silently wins.
VerdictKept ==
  [][\A s \in Submits :
       return[s] \in Verdicts /\ return'[s] # return[s] =>
         \E d \in Decisions : /\ pc[d] = "loaded" /\ pc'[d] = "committed"
                              /\ about[d] = s /\ return'[s] = wants[d]
                              /\ before[d] = return[s] \/ d \in crossed]_vars
=============================================================================
