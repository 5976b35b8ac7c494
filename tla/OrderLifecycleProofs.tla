------------------------ MODULE OrderLifecycleProofs ------------------------
(***************************************************************************)
(* What holds of an order after checkout for any number of calls of every  *)
(* kind, although no handler locks the row it read: the whole of it rests  *)
(* on "crossed", which names the calls whose rows another call changed.    *)
(***************************************************************************)
EXTENDS OrderLifecycle, TLAPS

Audited == Updates \union Decisions

Typed ==
  /\ TypeOK
  /\ wants \in [Audited -> Targets \union Verdicts]
  /\ delivered \in BOOLEAN
  /\ DOMAIN did = Calls
  /\ \A c \in Calls : pc[c] = "refreshed" => c \in Audited
  /\ \A d \in Decisions : pc[d] \in Waiting => return[about[d]] # "none"
  /\ \A u \in Updates : wants[u] \in Targets
  /\ \A d \in Decisions : wants[d] \in Verdicts

\* Whoever has seen a delivered order, or acts on one, has history behind it.
DeliveryInv ==
  /\ status = "delivered" => delivered
  /\ \A s \in Submits : pc[s] = "loaded" => delivered
  /\ ReturnedAfterDelivery

\* A cancellation's check still holds unless it was crossed.
CancelInv == \A c \in Cancels : pc[c] = "loaded" => status = "pending" \/ c \in crossed

\* What an uncrossed audited call has read is what is there, and then what it did.
Faithful(c) ==
  /\ c \in Updates =>
       /\ pc[c] \in {"previous", "loaded"} => before[c] = status
       /\ pc[c] = "loaded" => seen[c] = status
       /\ pc[c] = "committed" => did[c] = <<before[c], status>>
  /\ c \in Decisions =>
       /\ pc[c] \in {"order", "loaded"} => before[c] = return[about[c]]
       /\ pc[c] = "loaded" /\ wants[c] = "approved" => seen[c] = status
       /\ pc[c] = "committed" => did[c] = <<before[c], return[about[c]]>>
  /\ pc[c] = "refreshed" => did[c] = <<before[c], after[c]>>

ReportInv == \A c \in Calls : c \notin crossed => Faithful(c)

LogInv == AuditExact /\ \A e \in log : pc[e.by] = "done"

OrderInv == Typed /\ DeliveryInv /\ CancelInv /\ ReportInv /\ LogInv

\* Before the first call nothing is read, written or logged.
LEMMA Initially == Init => OrderInv
<1> SUFFICES ASSUME Init PROVE OrderInv
  OBVIOUS
<1>1. TypeOK
  BY DEF Init, TypeOK, Statuses, Ended, Waiting, Calls
<1>2. Typed
  BY <1>1 DEF Init, Typed, Audited, Waiting, Calls
<1>3. DeliveryInv /\ CancelInv /\ LogInv
  BY DEF Init, DeliveryInv, ReturnedAfterDelivery, CancelInv, LogInv, AuditExact, Calls
<1>4. ReportInv
  BY DEF Init, ReportInv, Faithful
<1> QED
  BY <1>2, <1>3, <1>4 DEF OrderInv

\* A step that only moves one call on, with new copies in its session, keeps
\* the invariant when what the call now holds is right.
LEMMA Moves ==
  ASSUME OrderInv, NEW c \in Calls, NEW where \in {"start"} \union Waiting \union Ended,
         NEW sv \in Statuses, NEW bv \in Statuses \union Verdicts,
         NEW av \in Statuses \union Verdicts,
         UNCHANGED <<status, return, log, wants, history>>,
         pc' = [pc EXCEPT ![c] = where],
         seen' = [seen EXCEPT ![c] = sv],
         before' = [before EXCEPT ![c] = bv],
         after' = [after EXCEPT ![c] = av],
         about' \in [Decisions -> Submits \union {NoReturn}],
         \A d \in Decisions \ {c} : about'[d] = about[d],
         pc[c] # "done",
         where = "refreshed" => c \in Audited,
         c \in Decisions /\ where \in Waiting
           => about'[c] \in Submits /\ return[about'[c]] # "none",
         c \in Submits /\ where = "loaded" => delivered,
         c \in Cancels /\ where = "loaded" => status = "pending",
         c \notin crossed => Faithful(c)'
  PROVE  OrderInv'
<1> USE DEF OrderInv, history
<1>1. \A x \in Calls :
        /\ pc'[x] = IF x = c THEN where ELSE pc[x]
        /\ seen'[x] = IF x = c THEN sv ELSE seen[x]
        /\ before'[x] = IF x = c THEN bv ELSE before[x]
        /\ after'[x] = IF x = c THEN av ELSE after[x]
  BY DEF Typed, TypeOK
<1>2. TypeOK'
  <2>1. pc' \in [Calls -> {"start"} \union Waiting \union Ended]
    BY DEF Typed, TypeOK
  <2>2. seen' \in [Calls -> Statuses] /\ before' \in [Calls -> Statuses \union Verdicts]
        /\ after' \in [Calls -> Statuses \union Verdicts]
    BY DEF Typed, TypeOK
  <2>3. \A d \in Decisions : pc'[d] \in Waiting => about'[d] \in Submits
    BY <1>1 DEF Typed, TypeOK, Calls
  <2> QED
    BY <2>1, <2>2, <2>3 DEF Typed, TypeOK
<1>3. Typed'
  <2>1. \A d \in Decisions : pc'[d] \in Waiting => return[about'[d]] # "none"
    BY <1>1 DEF Typed, Calls
  <2>2. \A x \in Calls : pc'[x] = "refreshed" => x \in Audited
    BY <1>1 DEF Typed
  <2> QED
    BY <1>2, <2>1, <2>2 DEF Typed
<1>4. DeliveryInv'
  BY <1>1 DEF DeliveryInv, ReturnedAfterDelivery, Calls
<1>5. CancelInv'
  BY <1>1 DEF CancelInv, Calls
<1>6. ReportInv'
  <2> SUFFICES ASSUME NEW x \in Calls, x # c, x \notin crossed PROVE Faithful(x)'
    BY DEF ReportInv
  <2>1. Faithful(x)
    BY DEF ReportInv
  <2>2. /\ pc'[x] = pc[x] /\ seen'[x] = seen[x] /\ before'[x] = before[x]
        /\ after'[x] = after[x] /\ did'[x] = did[x]
        /\ x \in Decisions => about'[x] = about[x]
    BY <1>1
  <2> QED
    BY <2>1, <2>2 DEF Faithful
<1>7. LogInv'
  BY <1>1 DEF LogInv, AuditExact, Typed, TypeOK, Calls
<1> QED
  BY <1>3, <1>4, <1>5, <1>6, <1>7

\* A commit crosses every call that relies on a row it changes: what the others
\* have read is still there, and only the committing call itself has something
\* new to answer for.
LEMMA CommitStep ==
  ASSUME OrderInv, NEW c \in Calls, pc[c] = "loaded", NEW old, NEW new,
         Commits(c, old, new), UNCHANGED <<log, wants, copies>>,
         status' \in Statuses,
         return' \in [Submits -> {"none", "pending"} \union Verdicts],
         \A s \in Submits : return[s] # "none" => return'[s] # "none",
         (\E s \in Submits : return'[s] # "none") => delivered,
         c \notin crossed => Faithful(c)'
  PROVE  OrderInv'
<1> USE DEF OrderInv, copies
<1>1. \A x \in Calls : pc'[x] = IF x = c THEN "committed" ELSE pc[x]
  BY DEF Commits, Goto, Typed, TypeOK
<1>2. \A x \in Calls : x # c => did'[x] = did[x]
  BY DEF Commits, Typed
<1>3. crossed' = crossed \union {x \in Calls \ {c} : Overtaken(x)}
  BY DEF Commits
<1>4. delivered' = (delivered \/ status' = "delivered")
  BY DEF Commits
<1>5. TypeOK'
  <2>1. pc' \in [Calls -> {"start"} \union Waiting \union Ended]
    BY DEF Commits, Goto, Typed, TypeOK, Waiting
  <2>2. \A d \in Decisions : pc'[d] \in Waiting => about'[d] \in Submits
    BY <1>1 DEF Typed, TypeOK, Calls, Waiting
  <2>3. crossed' \subseteq Calls
    BY <1>3 DEF Typed, TypeOK
  <2> QED
    BY <2>1, <2>2, <2>3 DEF Typed, TypeOK
<1>6. Typed'
  <2>1. DOMAIN did' = Calls
    BY DEF Commits, Typed
  <2>2. \A d \in Decisions : pc'[d] \in Waiting => return'[about'[d]] # "none"
    BY <1>1 DEF Typed, TypeOK, Calls, Waiting
  <2>3. \A x \in Calls : pc'[x] = "refreshed" => x \in Audited
    BY <1>1 DEF Typed
  <2>4. delivered' \in BOOLEAN
    BY <1>4 DEF Typed
  <2> QED
    BY <1>5, <2>1, <2>2, <2>3, <2>4 DEF Typed
<1>7. DeliveryInv'
  BY <1>1, <1>4 DEF DeliveryInv, ReturnedAfterDelivery, Calls
<1>8. CancelInv'
  <2> SUFFICES ASSUME NEW x \in Cancels, pc'[x] = "loaded", x \notin crossed'
               PROVE  status' = "pending"
    BY DEF CancelInv
  <2>1. x \in Calls /\ x # c /\ pc[x] = "loaded" /\ x \notin crossed /\ ~Overtaken(x)
    BY <1>1, <1>3 DEF Calls
  <2> QED
    BY <2>1 DEF CancelInv, Overtaken
<1>9. ReportInv'
  <2> SUFFICES ASSUME NEW x \in Calls, x # c, x \notin crossed' PROVE Faithful(x)'
    BY <1>3 DEF ReportInv
  <2>1. /\ pc'[x] = pc[x] /\ did'[x] = did[x] /\ UNCHANGED <<about, seen, before, after, wants>>
        /\ Faithful(x) /\ ~Overtaken(x)
    BY <1>1, <1>2, <1>3 DEF ReportInv
  <2> QED
    BY <2>1 DEF Faithful, Overtaken
<1>10. LogInv'
  BY <1>1, <1>2, <1>3 DEF LogInv, AuditExact, Typed, TypeOK, Calls
<1> QED
  BY <1>6, <1>7, <1>8, <1>9, <1>10

-----------------------------------------------------------------------------
(* The reads                                                               *)

\* A call that ends leaves nothing to answer for but its log entry.
LEMMA EndStep ==
  ASSUME OrderInv, NEW c \in Calls, NEW how \in Ended, End(c, how), pc[c] # "done",
         UNCHANGED <<status, return, log, wants, about, history>>
  PROVE  OrderInv'
<1>1. "pending" \in Statuses
  BY DEF Statuses
<1>2. pc'[c] = how
  BY DEF End, Goto, OrderInv, Typed, TypeOK
<1>3. Faithful(c)'
  BY <1>2 DEF Faithful, Ended
<1>4. about' \in [Decisions -> Submits \union {NoReturn}]
  BY DEF OrderInv, Typed, TypeOK
<1>5. how \notin Waiting /\ how # "refreshed" /\ how # "loaded"
  BY DEF Ended, Waiting
<1> QED
  BY <1>1, <1>3, <1>4, <1>5, Moves DEF End, Goto, history

\* The checks of cancel_order and submit_return, which copy nothing the call
\* will report.
LEMMA CheckStep ==
  ASSUME OrderInv, NEW c \in Calls, LoadToCancel(c) \/ LoadToReturn(c)
  PROVE  OrderInv'
<1> DEFINE where == pc'[c]
<1>1. pc[c] = "start" /\ c \notin Updates /\ c \notin Decisions
  BY CallsAssumption DEF LoadToCancel, LoadToReturn
<1>2. pc' = [pc EXCEPT ![c] = where] /\ where \in {"loaded", "refused"}
  BY DEF LoadToCancel, LoadToReturn, Goto, OrderInv, Typed, TypeOK
<1>3. /\ seen' = [seen EXCEPT ![c] = seen[c]] /\ seen[c] \in Statuses
      /\ before' = [before EXCEPT ![c] = before[c]] /\ before[c] \in Statuses \union Verdicts
      /\ after' = [after EXCEPT ![c] = after[c]] /\ after[c] \in Statuses \union Verdicts
      /\ about' = about /\ about \in [Decisions -> Submits \union {NoReturn}]
      /\ UNCHANGED <<status, return, log, wants, history>>
  BY DEF LoadToCancel, LoadToReturn, OrderInv, Typed, TypeOK, copies, history
<1>4. c \in Submits /\ where = "loaded" => delivered
  BY <1>2, CallsAssumption DEF LoadToCancel, LoadToReturn, Goto, OrderInv, DeliveryInv, Typed, TypeOK
<1>5. c \in Cancels /\ where = "loaded" => status = "pending"
  BY <1>2, CallsAssumption DEF LoadToCancel, LoadToReturn, Goto, OrderInv, Typed, TypeOK
<1>6. Faithful(c)'
  BY <1>1, <1>2 DEF Faithful
<1>7. where \in {"start"} \union Waiting \union Ended
  BY <1>2 DEF Waiting, Ended
<1> HIDE DEF where
<1> QED
  BY <1>1, <1>2, <1>3, <1>4, <1>5, <1>6, <1>7, Moves

\* What a call has just read is there.
LEMMA PreviousStep ==
  ASSUME OrderInv, NEW c \in Calls, ReadPrevious(c)
  PROVE  OrderInv'
<1>1. /\ c \in Updates /\ c \notin Cancels /\ c \notin Submits /\ c \notin Decisions
      /\ pc[c] = "start" /\ pc' = [pc EXCEPT ![c] = "previous"]
  BY CallsAssumption DEF ReadPrevious, Goto
<1>2. /\ seen' = [seen EXCEPT ![c] = seen[c]] /\ seen[c] \in Statuses
      /\ before' = [before EXCEPT ![c] = status] /\ status \in Statuses
      /\ after' = [after EXCEPT ![c] = after[c]] /\ after[c] \in Statuses \union Verdicts
      /\ about' = about /\ about \in [Decisions -> Submits \union {NoReturn}]
      /\ UNCHANGED <<status, return, log, wants, history>>
  BY DEF ReadPrevious, OrderInv, Typed, TypeOK, history
<1>3. Faithful(c)'
  BY <1>1, <1>2 DEF Faithful, OrderInv, Typed, TypeOK
<1>4. "previous" \in Waiting
  BY DEF Waiting
<1> QED
  BY <1>1, <1>2, <1>3, <1>4, Moves

\* The second read renews the copy or crosses the call.
LEMMA LoadToUpdateStep ==
  ASSUME OrderInv, NEW c \in Calls, LoadToUpdate(c)
  PROVE  OrderInv'
<1>1. /\ c \in Updates /\ c \notin Cancels /\ c \notin Submits /\ c \notin Decisions
      /\ pc[c] = "previous" /\ pc' = [pc EXCEPT ![c] = "loaded"]
  BY CallsAssumption DEF LoadToUpdate, Goto
<1>2. /\ seen' = [seen EXCEPT ![c] = status] /\ status \in Statuses
      /\ before' = [before EXCEPT ![c] = before[c]] /\ before[c] \in Statuses \union Verdicts
      /\ after' = [after EXCEPT ![c] = after[c]] /\ after[c] \in Statuses \union Verdicts
      /\ about' = about /\ about \in [Decisions -> Submits \union {NoReturn}]
      /\ UNCHANGED <<status, return, log, wants, history>>
  BY DEF LoadToUpdate, OrderInv, Typed, TypeOK, history
<1>3. c \notin crossed => before[c] = status
  BY <1>1 DEF OrderInv, ReportInv, Faithful
<1>4. c \notin crossed => Faithful(c)'
  BY <1>1, <1>2, <1>3 DEF Faithful, OrderInv, Typed, TypeOK
<1>5. "loaded" \in Waiting
  BY DEF Waiting
<1> QED
  BY <1>1, <1>2, <1>4, <1>5, Moves

\* A decision begins with the request as it is.
LEMMA LoadReturnStep ==
  ASSUME OrderInv, NEW c \in Calls, LoadReturn(c)
  PROVE  OrderInv'
<1> DEFINE where == IF wants[c] = "approved" THEN "order" ELSE "loaded"
<1>1. /\ c \in Decisions /\ c \notin Cancels /\ c \notin Submits /\ c \notin Updates
      /\ pc[c] = "start" /\ pc' = [pc EXCEPT ![c] = where]
  BY CallsAssumption DEF LoadReturn, Goto
<1>2. PICK s \in Submits : /\ return[s] # "none"
                           /\ about' = [about EXCEPT ![c] = s]
                           /\ before' = [before EXCEPT ![c] = return[s]]
  BY DEF LoadReturn
<1>3. return[s] \in Statuses \union Verdicts
  BY <1>2 DEF OrderInv, Typed, TypeOK, Statuses
<1>4. /\ seen' = [seen EXCEPT ![c] = seen[c]] /\ seen[c] \in Statuses
      /\ after' = [after EXCEPT ![c] = after[c]] /\ after[c] \in Statuses \union Verdicts
      /\ UNCHANGED <<status, return, log, wants, history>>
  BY DEF LoadReturn, OrderInv, Typed, TypeOK, history
<1>5. /\ about' \in [Decisions -> Submits \union {NoReturn}] /\ about'[c] = s
      /\ \A d \in Decisions \ {c} : about'[d] = about[d]
  BY <1>1, <1>2 DEF OrderInv, Typed, TypeOK
<1>6. Faithful(c)'
  <2>1. pc'[c] \in {"order", "loaded"} /\ before'[c] = return'[about'[c]]
    BY <1>1, <1>2, <1>4, <1>5 DEF OrderInv, Typed, TypeOK
  <2>2. pc'[c] = where /\ wants' = wants
    BY <1>1, <1>4 DEF OrderInv, Typed, TypeOK
  <2> QED
    BY <1>1, <2>1, <2>2 DEF Faithful
<1>7. where \in Waiting /\ where # "refreshed"
  BY DEF Waiting
<1> HIDE DEF where
<1> QED
  BY <1>1, <1>2, <1>3, <1>4, <1>5, <1>6, <1>7, Moves

\* A decision then loads the order as it is.
LEMMA LoadItsOrderStep ==
  ASSUME OrderInv, NEW c \in Calls, LoadItsOrder(c)
  PROVE  OrderInv'
<1>1. /\ c \in Decisions /\ c \notin Cancels /\ c \notin Submits /\ c \notin Updates
      /\ pc[c] = "order" /\ pc' = [pc EXCEPT ![c] = "loaded"]
  BY CallsAssumption DEF LoadItsOrder, Goto
<1>2. /\ seen' = [seen EXCEPT ![c] = status] /\ status \in Statuses
      /\ before' = [before EXCEPT ![c] = before[c]] /\ before[c] \in Statuses \union Verdicts
      /\ after' = [after EXCEPT ![c] = after[c]] /\ after[c] \in Statuses \union Verdicts
      /\ about' = about /\ about \in [Decisions -> Submits \union {NoReturn}]
      /\ UNCHANGED <<status, return, log, wants, history>>
  BY DEF LoadItsOrder, OrderInv, Typed, TypeOK, history
<1>3. about[c] \in Submits /\ return[about[c]] # "none"
  BY <1>1 DEF OrderInv, Typed, TypeOK, Waiting
<1>4. c \notin crossed => before[c] = return[about[c]]
  BY <1>1 DEF OrderInv, ReportInv, Faithful
<1>5. c \notin crossed => Faithful(c)'
  BY <1>1, <1>2, <1>4 DEF Faithful, OrderInv, Typed, TypeOK
<1>6. "loaded" \in Waiting
  BY DEF Waiting
<1> QED
  BY <1>1, <1>2, <1>3, <1>5, <1>6, Moves

\* A refresh reads what the call did, unless it was crossed.
LEMMA RefreshStep ==
  ASSUME OrderInv, NEW c \in Calls, Refresh(c)
  PROVE  OrderInv'
<1> DEFINE shown == IF c \in Decisions THEN return[about[c]] ELSE status
<1>1. /\ c \in Audited /\ c \notin Cancels /\ c \notin Submits
      /\ pc[c] = "committed" /\ pc' = [pc EXCEPT ![c] = "refreshed"]
  BY CallsAssumption DEF Refresh, Goto, Audited
<1>2. c \in Decisions => about[c] \in Submits /\ return[about[c]] # "none"
  BY <1>1 DEF OrderInv, Typed, TypeOK, Waiting
<1>3. shown \in Statuses \union Verdicts
  BY <1>2 DEF OrderInv, Typed, TypeOK, Statuses
<1>4. /\ seen' = [seen EXCEPT ![c] = seen[c]] /\ seen[c] \in Statuses
      /\ before' = [before EXCEPT ![c] = before[c]] /\ before[c] \in Statuses \union Verdicts
      /\ after' = [after EXCEPT ![c] = shown]
      /\ about' = about /\ about \in [Decisions -> Submits \union {NoReturn}]
      /\ UNCHANGED <<status, return, log, wants, history>>
  BY DEF Refresh, OrderInv, Typed, TypeOK, history
<1>5. c \notin crossed => did[c] = <<before[c], shown>>
  BY <1>1, CallsAssumption DEF OrderInv, ReportInv, Faithful, Audited
<1>6. c \notin crossed => Faithful(c)'
  BY <1>1, <1>4, <1>5 DEF Faithful, OrderInv, Typed, TypeOK, history
<1>7. "refreshed" \in Waiting
  BY DEF Waiting
<1> HIDE DEF shown
<1> QED
  BY <1>1, <1>2, <1>3, <1>4, <1>6, <1>7, Moves

-----------------------------------------------------------------------------
(* The writes                                                              *)

\* An order that a return request exists for has been delivered already.
LEMMA CancelStep ==
  ASSUME OrderInv, NEW c \in Calls, CommitCancel(c)
  PROVE  OrderInv'
<1>1. c \notin Updates /\ c \notin Decisions /\ pc[c] = "loaded"
  BY CallsAssumption DEF CommitCancel
<1>2. status' \in Statuses /\ return' = return
  BY DEF CommitCancel, Statuses
<1>3. pc'[c] = "committed"
  BY DEF CommitCancel, Commits, Goto, OrderInv, Typed, TypeOK
<1>4. Faithful(c)'
  BY <1>1, <1>3 DEF Faithful
<1>5. Commits(c, status, "cancelled") /\ UNCHANGED <<log, wants, copies>>
  BY DEF CommitCancel
<1> QED
  BY <1>1, <1>2, <1>4, <1>5, CommitStep DEF OrderInv, Typed, TypeOK, DeliveryInv,
     ReturnedAfterDelivery

\* The copy an uncrossed update compares with is the row, so what it reports
\* as the change is the change.
LEMMA UpdateStep ==
  ASSUME OrderInv, NEW c \in Calls, CommitUpdate(c)
  PROVE  OrderInv'
<1>1. c \in Updates /\ c \notin Decisions /\ pc[c] = "loaded"
  BY CallsAssumption DEF CommitUpdate
<1>2. status' \in Statuses /\ return' = return
  BY <1>1, TargetsAssumption DEF CommitUpdate, OrderInv, Typed, TypeOK
<1>3. pc'[c] = "committed" /\ did'[c] = <<status, status'>> /\ before' = before
  BY DEF CommitUpdate, Commits, Goto, OrderInv, Typed, TypeOK, copies
<1>4. c \notin crossed => before[c] = status
  BY <1>1 DEF OrderInv, ReportInv, Faithful
<1>5. c \notin crossed => Faithful(c)'
  BY <1>1, <1>3, <1>4 DEF Faithful
<1>6. Commits(c, status, status') /\ UNCHANGED <<log, wants, copies>>
  BY DEF CommitUpdate
<1> QED
  BY <1>1, <1>2, <1>5, <1>6, CommitStep DEF OrderInv, Typed, TypeOK, DeliveryInv,
     ReturnedAfterDelivery

\* A return request is added to an order that was delivered.
LEMMA ReturnStep ==
  ASSUME OrderInv, NEW c \in Calls, CommitReturn(c)
  PROVE  OrderInv'
<1>1. c \in Submits /\ c \notin Updates /\ c \notin Decisions /\ pc[c] = "loaded"
  BY CallsAssumption DEF CommitReturn
<1>2. /\ return' \in [Submits -> {"none", "pending"} \union Verdicts]
      /\ \A s \in Submits : return[s] # "none" => return'[s] # "none"
  BY <1>1 DEF CommitReturn, OrderInv, Typed, TypeOK
<1>3. status' \in Statuses /\ delivered
  BY <1>1 DEF CommitReturn, OrderInv, Typed, TypeOK, DeliveryInv
<1>4. pc'[c] = "committed"
  BY DEF CommitReturn, Commits, Goto, OrderInv, Typed, TypeOK
<1>5. Faithful(c)'
  BY <1>1, <1>4 DEF Faithful
<1>6. Commits(c, "none", "pending") /\ UNCHANGED <<log, wants, copies>>
  BY DEF CommitReturn
<1> QED
  BY <1>1, <1>2, <1>3, <1>5, <1>6, CommitStep

\* A decision writes only what differs from its copies.
LEMMA DecisionStep ==
  ASSUME OrderInv, NEW c \in Calls, CommitDecision(c)
  PROVE  OrderInv'
<1> DEFINE s == about[c]
<1>1. c \in Decisions /\ c \notin Updates /\ pc[c] = "loaded"
  BY CallsAssumption DEF CommitDecision
<1>2. s \in Submits /\ return[s] # "none" /\ wants[c] \in Verdicts
  BY <1>1 DEF OrderInv, Typed, TypeOK, Waiting
<1>3. return' = [return EXCEPT ![s] = IF before[c] # wants[c] THEN wants[c] ELSE @]
  BY DEF CommitDecision
<1>4. /\ return' \in [Submits -> {"none", "pending"} \union Verdicts]
      /\ \A x \in Submits : return[x] # "none" => return'[x] # "none"
  BY <1>2, <1>3 DEF OrderInv, Typed, TypeOK, Verdicts
<1>5. status' \in Statuses /\ delivered
  BY <1>2 DEF CommitDecision, OrderInv, Typed, TypeOK, Statuses, DeliveryInv,
     ReturnedAfterDelivery
<1>6. /\ pc'[c] = "committed" /\ did'[c] = <<return[s], return'[s]>>
      /\ before' = before /\ about' = about
  BY DEF CommitDecision, Commits, Goto, OrderInv, Typed, TypeOK, copies
<1>7. c \notin crossed => before[c] = return[s]
  BY <1>1 DEF OrderInv, ReportInv, Faithful
<1>8. c \notin crossed => Faithful(c)'
  BY <1>1, <1>6, <1>7 DEF Faithful
<1>9. Commits(c, return[s], return'[s]) /\ UNCHANGED <<log, wants, copies>>
  BY DEF CommitDecision
<1> HIDE DEF s
<1> QED
  BY <1>1, <1>4, <1>5, <1>8, <1>9, CommitStep

\* The entry shows what the call holds, and the call ends with it.
LEMMA AuditStep ==
  ASSUME OrderInv, NEW c \in Calls, Audit(c)
  PROVE  OrderInv'
<1> DEFINE entry == [by |-> c, before |-> before[c], after |-> after[c]]
<1> USE DEF OrderInv
<1>1. /\ pc[c] = "refreshed" /\ c \in Audited
      /\ log' = log \union {entry}
      /\ UNCHANGED <<status, return, wants, about, history>>
      /\ End(c, "done")
  BY DEF Audit, Typed
<1>2. /\ pc' \in [Calls -> {"start"} \union Waiting \union Ended]
      /\ \A x \in Calls : pc'[x] = IF x = c THEN "done" ELSE pc[x]
  BY <1>1 DEF End, Goto, Typed, TypeOK, Ended
<1>3. /\ seen' \in [Calls -> Statuses]
      /\ before' \in [Calls -> Statuses \union Verdicts]
      /\ after' \in [Calls -> Statuses \union Verdicts]
      /\ \A x \in Calls \ {c} : seen'[x] = seen[x] /\ before'[x] = before[x]
                                /\ after'[x] = after[x]
  BY <1>1 DEF End, Typed, TypeOK, Statuses
<1>4. c \notin crossed => did[c] = <<before[c], after[c]>>
  BY <1>1 DEF ReportInv, Faithful
<1>5. Typed'
  BY <1>1, <1>2, <1>3 DEF Typed, TypeOK, Audited, Calls, history, Waiting
<1>6. DeliveryInv' /\ CancelInv'
  BY <1>1, <1>2 DEF DeliveryInv, ReturnedAfterDelivery, CancelInv, Calls, history
<1>7. ReportInv'
  <2> SUFFICES ASSUME NEW x \in Calls, x \notin crossed PROVE Faithful(x)'
    BY <1>1 DEF ReportInv, history
  <2>1. CASE x = c
    BY <1>2, <2>1 DEF Faithful
  <2>2. CASE x # c
    BY <1>1, <1>2, <1>3, <2>2 DEF ReportInv, Faithful, history
  <2> QED
    BY <2>1, <2>2
<1>8. LogInv'
  <2>1. \A e \in log' : pc'[e.by] = "done"
    BY <1>1, <1>2 DEF LogInv, Typed, TypeOK, Calls
  <2>2. \A e \in log' : e.by \notin crossed => did[e.by] = <<e.before, e.after>>
    BY <1>1, <1>4 DEF LogInv, AuditExact
  <2> QED
    BY <1>1, <2>1, <2>2 DEF LogInv, AuditExact, history
<1> QED
  BY <1>5, <1>6, <1>7, <1>8

\* Every step preserves the invariant.
LEMMA StepKeeps == OrderInv /\ [Next]_vars => OrderInv'
<1> SUFFICES ASSUME OrderInv, [Next]_vars PROVE OrderInv'
  OBVIOUS
<1>1. CASE UNCHANGED vars
  BY <1>1 DEF vars, OrderInv, Typed, TypeOK, DeliveryInv, ReturnedAfterDelivery, CancelInv,
     ReportInv, Faithful, LogInv, AuditExact
<1>2. CASE Next
  <2> SUFFICES ASSUME NEW c \in Calls,
        \/ LoadToCancel(c) \/ CommitCancel(c)
        \/ ReadPrevious(c) \/ LoadToUpdate(c) \/ CommitUpdate(c)
        \/ LoadToReturn(c) \/ CommitReturn(c)
        \/ LoadReturn(c) \/ LoadItsOrder(c) \/ CommitDecision(c)
        \/ Answer(c) \/ Refresh(c) \/ Audit(c) \/ AuditFails(c) \/ Fail(c)
      PROVE OrderInv'
    BY <1>2 DEF Next
  <2>1. CASE LoadToCancel(c) \/ LoadToReturn(c)
    BY <2>1, CheckStep
  <2>2. CASE CommitCancel(c)
    BY <2>2, CancelStep
  <2>3. CASE ReadPrevious(c)
    BY <2>3, PreviousStep
  <2>4. CASE LoadToUpdate(c)
    BY <2>4, LoadToUpdateStep
  <2>5. CASE CommitUpdate(c)
    BY <2>5, UpdateStep
  <2>6. CASE CommitReturn(c)
    BY <2>6, ReturnStep
  <2>7. CASE LoadReturn(c)
    BY <2>7, LoadReturnStep
  <2>8. CASE LoadItsOrder(c)
    BY <2>8, LoadItsOrderStep
  <2>9. CASE CommitDecision(c)
    BY <2>9, DecisionStep
  <2>10. CASE Refresh(c)
    BY <2>10, RefreshStep
  <2>11. CASE Audit(c)
    BY <2>11, AuditStep
  <2>12. CASE Answer(c) \/ AuditFails(c) \/ Fail(c)
    BY <2>12, EndStep DEF Answer, AuditFails, Fail, Ended, Waiting
  <2> QED
    BY <2>1, <2>2, <2>3, <2>4, <2>5, <2>6, <2>7, <2>8, <2>9, <2>10, <2>11, <2>12
<1> QED
  BY <1>1, <1>2

\* What an uncrossed call has read is still there, and then is what it did.
THEOREM Invariance == Spec => []OrderInv
  BY Initially, StepKeeps, PTL DEF Spec

\* Every variable of the order's life after checkout keeps its type.
THEOREM OrderTyping == Spec => []TypeOK
<1>1. OrderInv => TypeOK
  BY DEF OrderInv, Typed
<1> QED
  BY <1>1, Invariance, PTL

\* A return request exists only for an order that had been delivered, although
\* submit_return checks a copy that any other call may overtake.
THEOREM DeliveryTheorem == Spec => []ReturnedAfterDelivery
<1>1. OrderInv => ReturnedAfterDelivery
  BY DEF OrderInv, DeliveryInv
<1> QED
  BY <1>1, Invariance, PTL

\* An audit entry tells its call's own change unless another call changed the
\* same row between the call's first read and its refresh.
THEOREM AuditTheorem == Spec => []AuditExact
<1>1. OrderInv => AuditExact
  BY DEF OrderInv, LogInv
<1> QED
  BY <1>1, Invariance, PTL

\* A cancellation writes over a status other than pending only when another
\* call changed it between the check and the write.
THEOREM CancelTheorem == Spec => CancelCrossed
<1>1. OrderInv /\ [Next]_vars
        => [\A c \in Cancels : pc[c] = "loaded" /\ pc'[c] = "committed"
              => status = "pending" \/ c \in crossed]_vars
  BY DEF OrderInv, CancelInv
<1> QED
  BY <1>1, Invariance, PTL DEF Spec, CancelCrossed

\* Only a decision's own commit takes it from its reads to its refresh.
LEMMA DecisionCommits ==
  ASSUME OrderInv, NEW d \in Decisions, Next, pc[d] = "loaded", pc'[d] = "committed"
  PROVE  CommitDecision(d)
<1>1. d \notin Cancels /\ d \notin Updates /\ d \notin Submits /\ d \in Calls
  BY CallsAssumption DEF Calls
<1>2. pc \in [Calls -> {"start"} \union Waiting \union Ended]
  BY DEF OrderInv, Typed, TypeOK
<1>3. PICK c \in Calls :
        \/ LoadToCancel(c) \/ CommitCancel(c)
        \/ ReadPrevious(c) \/ LoadToUpdate(c) \/ CommitUpdate(c)
        \/ LoadToReturn(c) \/ CommitReturn(c)
        \/ LoadReturn(c) \/ LoadItsOrder(c) \/ CommitDecision(c)
        \/ Answer(c) \/ Refresh(c) \/ Audit(c) \/ AuditFails(c) \/ Fail(c)
  BY DEF Next
<1>4. \E where : pc' = [pc EXCEPT ![c] = where]
  BY <1>3 DEF LoadToCancel, CommitCancel, ReadPrevious, LoadToUpdate, CommitUpdate,
     LoadToReturn, CommitReturn, LoadReturn, LoadItsOrder, CommitDecision, Answer,
     Refresh, Audit, AuditFails, Fail, End, Goto, Commits
<1>5. c = d
  BY <1>2, <1>4
<1> QED
  BY <1>1, <1>2, <1>3, <1>5 DEF LoadToCancel, CommitCancel, ReadPrevious, LoadToUpdate,
     CommitUpdate, LoadToReturn, CommitReturn, LoadReturn, LoadItsOrder, Answer,
     Refresh, Audit, AuditFails, Fail, End, Goto, Ended

\* An approval leaves its order returned unless another call changed the order
\* or the request between its reads and its write.
THEOREM ApprovalTheorem == Spec => ApprovalCrossed
<1>1. ASSUME OrderInv, NEW d \in Decisions, CommitDecision(d), wants[d] = "approved",
             d \notin crossed
      PROVE  status' = "returned"
  <2>1. Faithful(d)
    BY <1>1 DEF OrderInv, ReportInv, Calls
  <2>2. seen[d] = status
    BY <1>1, <2>1 DEF Faithful, CommitDecision
  <2> QED
    BY <1>1, <2>2 DEF CommitDecision
<1>3. OrderInv /\ [Next]_vars
        => [\A d \in Decisions :
              pc[d] = "loaded" /\ pc'[d] = "committed" /\ wants[d] = "approved"
                => status' = "returned" \/ d \in crossed]_vars
  BY <1>1, DecisionCommits DEF vars
<1> QED
  BY <1>3, Invariance, PTL DEF Spec, ApprovalCrossed

\* A return request that has not been submitted yet does not exist.
UnsentInv ==
  \A s \in Submits : pc[s] \in {"start", "loaded"} => return[s] = "none"

\* No step but a submission and a decision writes a return request.
LEMMA ReturnsKept ==
  ASSUME OrderInv, NEW c \in Calls,
         \/ LoadToCancel(c) \/ CommitCancel(c)
         \/ ReadPrevious(c) \/ LoadToUpdate(c) \/ CommitUpdate(c)
         \/ LoadToReturn(c) \/ LoadReturn(c) \/ LoadItsOrder(c)
         \/ Answer(c) \/ Refresh(c) \/ Audit(c) \/ AuditFails(c) \/ Fail(c)
  PROVE  return' = return
BY DEF LoadToCancel, CommitCancel, ReadPrevious, LoadToUpdate, CommitUpdate, LoadToReturn,
       LoadReturn, LoadItsOrder, Answer, Refresh, Audit, AuditFails, Fail

\* A step that changes a request submits it or decides it.
LEMMA WhoWritesReturns ==
  ASSUME OrderInv, Next, NEW s \in Submits, return'[s] # return[s]
  PROVE  \/ CommitReturn(s)
         \/ \E d \in Decisions : CommitDecision(d) /\ about[d] = s
<1>1. PICK c \in Calls : CommitReturn(c) \/ CommitDecision(c)
  BY ReturnsKept DEF Next
<1>2. CASE CommitReturn(c)
  BY <1>2 DEF CommitReturn, OrderInv, Typed, TypeOK
<1>3. CASE CommitDecision(c)
  BY <1>3 DEF CommitDecision, OrderInv, Typed, TypeOK
<1> QED
  BY <1>1, <1>2, <1>3

LEMMA UnsentKept == OrderInv /\ UnsentInv /\ [Next]_vars => UnsentInv'
<1> SUFFICES ASSUME OrderInv, UnsentInv, [Next]_vars,
                    NEW s \in Submits, pc'[s] \in {"start", "loaded"}
             PROVE  return'[s] = "none"
  BY DEF UnsentInv
<1>1. CASE UNCHANGED vars
  BY <1>1 DEF vars, UnsentInv
<1>2. CASE Next
  <2>1. s \in Calls /\ s \notin Cancels \union Updates \union Decisions
    BY CallsAssumption DEF Calls
  <2>2. pc \in [Calls -> {"start"} \union Waiting \union Ended]
    BY DEF OrderInv, Typed, TypeOK
  <2>3. PICK c \in Calls :
        \/ LoadToCancel(c) \/ CommitCancel(c)
        \/ ReadPrevious(c) \/ LoadToUpdate(c) \/ CommitUpdate(c)
        \/ LoadToReturn(c) \/ CommitReturn(c)
        \/ LoadReturn(c) \/ LoadItsOrder(c) \/ CommitDecision(c)
        \/ Answer(c) \/ Refresh(c) \/ Audit(c) \/ AuditFails(c) \/ Fail(c)
    BY <1>2 DEF Next
  <2>4. pc[s] \in {"start", "loaded"}
    <3>1. CASE c = s
      BY <2>1, <2>2, <2>3, <3>1 DEF LoadToCancel, CommitCancel, ReadPrevious, LoadToUpdate,
         CommitUpdate, LoadToReturn, CommitReturn, LoadReturn, LoadItsOrder, CommitDecision,
         Answer, Refresh, Audit, AuditFails, Fail, End, Goto, Commits, Ended
    <3>2. CASE c # s
      <4>1. \E where : pc' = [pc EXCEPT ![c] = where]
        BY <2>3 DEF LoadToCancel, CommitCancel, ReadPrevious, LoadToUpdate, CommitUpdate,
           LoadToReturn, CommitReturn, LoadReturn, LoadItsOrder, CommitDecision, Answer,
           Refresh, Audit, AuditFails, Fail, End, Goto, Commits
      <4> QED
        BY <2>1, <2>2, <3>2, <4>1
    <3> QED
      BY <3>1, <3>2
  <2>5. return[s] = "none"
    BY <2>4 DEF UnsentInv
  <2>6. ~CommitReturn(s)
    BY <2>1, <2>2 DEF CommitReturn, Commits, Goto
  <2>7. ASSUME NEW d \in Decisions, CommitDecision(d) PROVE about[d] # s
    BY <2>5, <2>7 DEF CommitDecision, OrderInv, Typed, Waiting
  <2> QED
    BY <1>2, <2>5, <2>6, <2>7, WhoWritesReturns
<1> QED
  BY <1>1, <1>2

\* A verdict is overturned only by a decision on the same request that has read
\* it, unless another call changed the request between its read and its write.
THEOREM VerdictTheorem == Spec => VerdictKept
<1>1. Init => UnsentInv
  BY DEF Init, UnsentInv
<1>2. ASSUME OrderInv, UnsentInv, Next, NEW s \in Submits,
             return[s] \in Verdicts, return'[s] # return[s]
      PROVE  \E d \in Decisions : /\ pc[d] = "loaded" /\ pc'[d] = "committed"
                                  /\ about[d] = s /\ return'[s] = wants[d]
                                  /\ before[d] = return[s] \/ d \in crossed
  <2>1. ~CommitReturn(s)
    BY <1>2 DEF CommitReturn, UnsentInv, Verdicts
  <2>2. PICK d \in Decisions : CommitDecision(d) /\ about[d] = s
    BY <1>2, <2>1, WhoWritesReturns
  <2>3. d \in Calls /\ pc \in [Calls -> {"start"} \union Waiting \union Ended]
        /\ return \in [Submits -> {"none", "pending"} \union Verdicts]
    BY <1>2 DEF Calls, OrderInv, Typed, TypeOK
  <2>4. pc[d] = "loaded" /\ pc'[d] = "committed"
    BY <2>2, <2>3 DEF CommitDecision, Commits, Goto
  <2>5. return'[s] = wants[d]
    BY <1>2, <2>2, <2>3 DEF CommitDecision
  <2>6. before[d] = return[s] \/ d \in crossed
    BY <1>2, <2>2, <2>3, <2>4 DEF OrderInv, ReportInv, Faithful
  <2> QED
    BY <2>2, <2>4, <2>5, <2>6
<1>3. OrderInv /\ UnsentInv /\ [Next]_vars
        => [\A s \in Submits :
              return[s] \in Verdicts /\ return'[s] # return[s] =>
                \E d \in Decisions : /\ pc[d] = "loaded" /\ pc'[d] = "committed"
                                     /\ about[d] = s /\ return'[s] = wants[d]
                                     /\ before[d] = return[s] \/ d \in crossed]_vars
  BY <1>2 DEF vars
<1> QED
  BY <1>1, <1>3, UnsentKept, Invariance, PTL DEF Spec, VerdictKept
=============================================================================
