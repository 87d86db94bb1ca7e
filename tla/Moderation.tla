----------------------------- MODULE Moderation -----------------------------
(***************************************************************************)
(* Reports about one courier, from intake to the courier's standing.  The  *)
(* transactional outbox with its leases, the delivery of reports to        *)
(* CrowdSource, the webhook that records its decisions, and the worker     *)
(* that enforces a decision and answers the report.                        *)
(*                                                                         *)
(* CrowdSource (external) merges every report about the courier into one   *)
(* case, and revises its decision on the case: revision 1, 2, ...  Every   *)
(* revision arrives as an event of its own, delivered any number of times  *)
(* and in any order.                                                       *)
(***************************************************************************)
EXTENDS EnforcementPlan, Naturals, FiniteSets

CONSTANTS
  Reports,       \* reports about the courier, one per reporter
  Workers,       \* API tasks running the outbox dispatcher
  Receivers,     \* webhook requests that can be in progress at once
  Decisions,     \* the decisions CrowdSource may take
  Malformed,     \* a payload that does not satisfy the published contract
  NoOne,         \* no worker
  Mode,          \* config.crowdSource.enforcementMode
  MaxRevisions,  \* bound: decisions on the case
  MaxAttempts,   \* MAX_RETRYABLE_ATTEMPTS
  MaxFaults      \* bound: database calls that fail, leases that run out under a worker
                 \* still at work, and tasks and webhook requests that die

Revisions == 1 .. MaxRevisions
\* An outbox row is known by its subject: a report to submit (report.submit),
\* or the revision an event carries (decision.apply).
Rows == Reports \cup Revisions

ASSUME DecisionsAreDecisions == Decisions \subseteq Decision \cup {Malformed}
ASSUME ModeIsAMode   == Mode \in {"observe", "manual", "automatic"}
ASSUME NamesDiffer   == /\ Reports \cap Nat = {}
                        /\ Malformed \notin Decision /\ NoOne \notin Workers
ASSUME BoundsOfModeration ==
  MaxRevisions \in Nat /\ MaxAttempts \in Nat /\ MaxFaults \in Nat

VARIABLES
  report,     \* the reports rows
  outbox,     \* the moderation_outboxes rows
  event,      \* the moderation_events rows, one per revision
  enforced,   \* the moderation_enforcements rows: what became of each action
  courier,    \* courier_profiles.status
  filed,      \* the reports CrowdSource has accepted (external)
  decided,    \* the decision CrowdSource took at each revision (external)
  worker,     \* what each dispatcher is in the middle of
  receiver,   \* the revision each webhook request is handling, 0 for none
  faults      \* what went wrong so far

vars == <<report, outbox, event, enforced, courier, filed, decided, worker,
          receiver, faults>>

-----------------------------------------------------------------------------
(* Types *)

Report == [status   : {"none", "pending", "resolved", "dismissed", "reviewed"},
           local    : {"none", "queued", "submitted", "delivery_failed", "closed"},
           caseKnown : BOOLEAN,      \* crowdSourceCaseId is stored
           revision : 0 .. MaxRevisions]

\* "live" is whether lease_until is still ahead.
OutboxRow == [status   : {"none", "pending", "processing", "processed", "dead_letter"},
              owner    : Workers \cup {NoOne}, live : BOOLEAN, attempts : Nat]

\* An enforcement row is claimed by its insert; "done" says that what became of
\* its effect is noted.  "effects" is how often the effect was performed or decided
\* against, and "unheard" (history) how often performed without the worker hearing.
Enforcement == [row : {"none", "claimed", "done"}, effects : Nat, unheard : Nat]

Labels == {"idle", "read", "submitted", "refused", "unanswered", "find", "plan", "effect",
           "record", "undo", "done", "failed", "rejected"}

Worker == [at : Labels, row : Rows \cup {0}, rep : Reports \cup {NoOne},
           todo : SUBSET Action, act : Action]
Idle   == [at |-> "idle", row |-> 0, rep |-> NoOne, todo |-> {}, act |-> "none"]

TypeOK ==
  /\ report   \in [Reports -> Report]
  /\ outbox   \in [Rows -> OutboxRow]
  /\ event    \in [Revisions -> {"none", "claimed", "queued"}]
  /\ enforced \in [Revisions \X Action -> Enforcement]
  /\ courier  \in {"active", "suspended"}
  /\ filed \subseteq Reports
  /\ \E n \in 0 .. MaxRevisions : decided \in [1 .. n -> Decisions]
  /\ worker   \in [Workers -> Worker]
  /\ receiver \in [Receivers -> 0 .. MaxRevisions]
  /\ faults   \in 0 .. MaxFaults

Init ==
  /\ report   = [r \in Reports |-> [status |-> "none", local |-> "none",
                                    caseKnown |-> FALSE, revision |-> 0]]
  /\ outbox   = [e \in Rows |-> [status |-> "none", owner |-> NoOne,
                                 live |-> FALSE, attempts |-> 0]]
  /\ event    = [n \in Revisions |-> "none"]
  /\ enforced = [na \in Revisions \X Action |-> [row |-> "none", effects |-> 0,
                                                 unheard |-> 0]]
  /\ courier  = "active"
  /\ filed    = {}
  /\ decided  = [n \in {} |-> Malformed]
  /\ worker   = [w \in Workers |-> Idle]
  /\ receiver = [x \in Receivers |-> 0]
  /\ faults   = 0

At(w, label)   == worker[w].at = label
Goto(w, label) == worker' = [worker EXCEPT ![w].at = label]
Fault          == faults < MaxFaults /\ faults' = faults + 1

-----------------------------------------------------------------------------
(* Intake, CrowdSource and the webhook *)

\* enqueueModerationOutboxRow: on conflict do nothing.
Enqueue(e) ==
  outbox' = [outbox EXCEPT ![e].status = IF @ = "none" THEN "pending" ELSE @]

\* The report and the promise to deliver it, in one transaction.
CreateReport(r) ==
  /\ report[r].status = "none"
  /\ report' = [report EXCEPT ![r].status = "pending", ![r].local = "queued"]
  /\ Enqueue(r)
  /\ UNCHANGED <<event, enforced, courier, filed, decided, worker, receiver, faults>>

\* CrowdSource decides, or revises what it decided.
Decide(d) ==
  LET n == Cardinality(DOMAIN decided) IN
  /\ filed # {} /\ n < MaxRevisions
  /\ decided' = [m \in 1 .. n + 1 |-> IF m = n + 1 THEN d ELSE decided[m]]
  /\ UNCHANGED <<report, outbox, event, enforced, courier, filed, worker,
                 receiver, faults>>

\* The claim is the insert of the event's row; a duplicate finds the row and is
\* answered at once.
ReceiveEvent(x, n) ==
  /\ receiver[x] = 0 /\ n \in DOMAIN decided
  /\ event[n] = "none"
  /\ event' = [event EXCEPT ![n] = "claimed"]
  /\ receiver' = [receiver EXCEPT ![x] = n]
  /\ UNCHANGED <<report, outbox, enforced, courier, filed, decided, worker, faults>>

\* The event's row is completed and the work queued, in one transaction.
RecordDecisionEvent(x) ==
  /\ receiver[x] # 0
  /\ event' = [event EXCEPT ![receiver[x]] = "queued"]
  /\ Enqueue(receiver[x])
  /\ receiver' = [receiver EXCEPT ![x] = 0]
  /\ UNCHANGED <<report, enforced, courier, filed, decided, worker, faults>>

ReleaseEvent(x) ==
  /\ receiver[x] # 0 /\ Fault
  /\ event' = [event EXCEPT ![receiver[x]] = "none"]
  /\ receiver' = [receiver EXCEPT ![x] = 0]
  /\ UNCHANGED <<report, outbox, enforced, courier, filed, decided, worker>>

-----------------------------------------------------------------------------
(* The outbox *)

\* Mutant: nobody reclaims the row of a dead worker.
DueWhenPending(e) == outbox[e].status = "pending"

Due(e) == \/ outbox[e].status = "pending"
          \/ outbox[e].status = "processing" /\ ~ outbox[e].live

ClaimRow(w, e) ==
  /\ At(w, "idle") /\ Due(e)
  /\ outbox' = [outbox EXCEPT ![e] = [status |-> "processing", owner |-> w,
                                      live |-> TRUE, attempts |-> @.attempts + 1]]
  /\ worker' = [worker EXCEPT ![w].row = e,
                              ![w].at = IF e \in Reports THEN "read" ELSE "find"]
  /\ UNCHANGED <<report, event, enforced, courier, filed, decided, receiver, faults>>

\* Mutant: the update looks at the id alone.
OwnedById(w, e) == outbox[e].status # "none"

OwnedLease(w, e) ==
  outbox[e].status = "processing" /\ outbox[e].owner = w /\ outbox[e].live

Working(w, e) == worker[w].row = e /\ outbox[e].owner = w

\* The heartbeat renews a live lease, so under a live worker it lapses only when
\* the worker is held up for a whole lease.
LeaseLapses(e) ==
  /\ outbox[e].status = "processing" /\ outbox[e].live
  /\ outbox' = [outbox EXCEPT ![e].live = FALSE]
  /\ IF \E w \in Workers : Working(w, e)
     THEN Fault ELSE UNCHANGED faults
  /\ UNCHANGED <<report, event, enforced, courier, filed, decided, worker,
                 receiver>>

\* A worker whose lease is gone, or may be gone because a renewal threw, writes
\* nothing; else the row takes the given status.
Settle(w, status) ==
  LET e == worker[w].row IN
  /\ \/ /\ OwnedLease(w, e)
        /\ outbox' = [outbox EXCEPT ![e].status = status, ![e].owner = NoOne,
                                    ![e].live = FALSE]
        /\ UNCHANGED faults
     \/ OwnedLease(w, e) /\ Fault /\ UNCHANGED outbox
     \/ ~ OwnedLease(w, e) /\ UNCHANGED <<outbox, faults>>
  /\ worker' = [worker EXCEPT ![w] = Idle]
  /\ UNCHANGED <<report, event, enforced, courier, filed, decided, receiver>>

CompleteRow(w) == At(w, "done") /\ Settle(w, "processed")

FailRow(w) ==
  \/ At(w, "rejected") /\ Settle(w, "dead_letter")
  \/ At(w, "failed") /\ Settle(w, IF outbox[worker[w].row].attempts >= MaxAttempts
                                  THEN "dead_letter" ELSE "pending")

\* Mutant: the error is logged and swallowed.
HandlerSwallows(w) ==
  /\ worker[w].at \in {"read", "find", "plan"}
  /\ Fault
  /\ Goto(w, "done")
  /\ UNCHANGED <<report, outbox, event, enforced, courier, filed, decided, receiver>>

\* A database call that throws, or no client: nothing was written.
HandlerThrows(w) ==
  /\ worker[w].at \in {"read", "find", "plan"}
  /\ Fault
  /\ Goto(w, "failed")
  /\ UNCHANGED <<report, outbox, event, enforced, courier, filed, decided,
                 receiver>>

-----------------------------------------------------------------------------
(* report.submit *)

\* What was reported may be gone by now, or not be loaded, which is the same.
CloseReport(w) ==
  /\ At(w, "read")
  /\ report' = [report EXCEPT ![worker[w].row].local = "closed"]
  /\ Goto(w, "done")
  /\ UNCHANGED <<outbox, event, enforced, courier, filed, decided, receiver, faults>>

\* CrowdSource knows a report by its externalReportId, and may refuse it for
\* good.  A call that is not answered may have arrived all the same; CrowdSource
\* may be down for as long as there are attempts.
CreateAtCrowdSource(w) ==
  /\ At(w, "read")
  /\ \/ filed' = filed \cup {worker[w].row} /\ Goto(w, "submitted")
     \/ filed' = filed /\ Goto(w, "refused")
     \/ filed' \in {filed, filed \cup {worker[w].row}} /\ Goto(w, "unanswered")
  /\ UNCHANGED <<report, outbox, event, enforced, courier, decided, receiver, faults>>

MarkReportSubmitted(w) ==
  /\ At(w, "submitted")
  /\ report' = [report EXCEPT ![worker[w].row].local = "submitted",
                              ![worker[w].row].caseKnown = TRUE]
  /\ Goto(w, "done")
  /\ UNCHANGED <<outbox, event, enforced, courier, filed, decided, receiver, faults>>

MarkReportDeliveryFailed(w) ==
  /\ worker[w].at \in {"refused", "unanswered"}
  /\ report' = [report EXCEPT ![worker[w].row].local = "delivery_failed"]
  /\ Goto(w, IF At(w, "refused") THEN "rejected" ELSE "failed")
  /\ UNCHANGED <<outbox, event, enforced, courier, filed, decided, receiver, faults>>

-----------------------------------------------------------------------------
(* decision.apply *)

\* One of the reports that hold the case id, in no particular order; none at all
\* completes the row.
FindReport(w) ==
  LET d == decided[worker[w].row]
      holders == {r \in Reports : report[r].caseKnown} IN
  /\ At(w, "find")
  /\ \/ d = Malformed /\ Goto(w, "rejected")
     \/ d # Malformed /\ holders = {} /\ Goto(w, "done")
     \/ /\ d # Malformed
        /\ \E r \in holders :
             worker' = [worker EXCEPT ![w].at = "plan", ![w].rep = r,
                                      ![w].todo = PlanEnforcement(d, "courier")]
  /\ UNCHANGED <<report, outbox, event, enforced, courier, filed, decided,
                 receiver, faults>>

\* Mutant: the insert has no unique index behind it.
ClaimEnforcementAgain(w, a) ==
  /\ At(w, "plan") /\ a \in worker[w].todo
  /\ enforced' = [enforced EXCEPT ![<<worker[w].row, a>>].row = "claimed"]
  /\ worker' = [worker EXCEPT ![w].at = "effect", ![w].act = a, ![w].todo = @ \ {a}]
  /\ UNCHANGED <<report, outbox, event, courier, filed, decided, receiver, faults>>

\* The insert of the enforcement row is its claim; a row that exists already
\* means that the action was handled.  An insert that throws may have been made.
ClaimEnforcement(w, a) ==
  LET n == worker[w].row
      claims == enforced' = [enforced EXCEPT ![<<n, a>>].row = "claimed"] IN
  /\ At(w, "plan") /\ a \in worker[w].todo
  /\ \/ /\ enforced[<<n, a>>].row = "none" /\ claims /\ UNCHANGED faults
        /\ worker' = [worker EXCEPT ![w].at = "effect", ![w].act = a,
                                    ![w].todo = @ \ {a}]
     \/ /\ enforced[<<n, a>>].row = "none" /\ claims /\ Fault
        /\ Goto(w, "failed")
     \/ /\ enforced[<<n, a>>].row # "none"
        /\ worker' = [worker EXCEPT ![w].todo = @ \ {a}]
        /\ UNCHANGED <<enforced, faults>>
  /\ UNCHANGED <<report, outbox, event, courier, filed, decided, receiver>>

Applicable == CASE Mode = "observe"   -> {}
                [] Mode = "manual"    -> {"reinstate_courier"}
                [] Mode = "automatic" -> {"suspend_courier", "reinstate_courier"}

\* suspendCourier changes a profile that is not suspended, and reinstateCourier
\* one that is.
Standing(a) == IF a \notin Applicable THEN courier
               ELSE IF a = "suspend_courier" THEN "suspended" ELSE "active"

\* The effect is an update of its own.  One that throws may have been made all the
\* same: the worker never hears of it.
PerformEffect(w) ==
  LET a  == worker[w].act
      na == <<worker[w].row, a>> IN
  /\ At(w, "effect")
  /\ \/ /\ enforced' = [enforced EXCEPT ![na].effects = @ + 1]
        /\ courier' = Standing(a)
        /\ Goto(w, "record") /\ UNCHANGED faults
     \/ /\ a \in Applicable /\ Fault /\ Goto(w, "undo")
        /\ UNCHANGED <<enforced, courier>>
     \/ /\ a \in Applicable /\ Fault /\ Goto(w, "undo")
        /\ enforced' = [enforced EXCEPT ![na].effects = @ + 1, ![na].unheard = @ + 1]
        /\ courier' = Standing(a)
  /\ UNCHANGED <<report, outbox, event, filed, decided, receiver>>

\* The note of it in the row is the next statement, outside the try: when it
\* throws the claim stays.
RecordEffect(w) ==
  LET noted == [enforced EXCEPT ![<<worker[w].row, worker[w].act>>].row = "done"] IN
  /\ At(w, "record")
  /\ \/ enforced' = noted /\ Goto(w, "plan") /\ UNCHANGED faults
     \/ enforced' \in {enforced, noted} /\ Fault /\ Goto(w, "failed")
  /\ UNCHANGED <<report, outbox, event, courier, filed, decided, receiver>>

\* The effect threw: the claim is deleted, so that a retry takes it again; if that
\* throws too it may stay.
DeleteEnforcement(w) ==
  LET freed == [enforced EXCEPT ![<<worker[w].row, worker[w].act>>].row = "none"] IN
  /\ At(w, "undo")
  /\ \/ enforced' = freed /\ UNCHANGED faults
     \/ enforced' \in {enforced, freed} /\ Fault
  /\ Goto(w, "failed")
  /\ UNCHANGED <<report, outbox, event, courier, filed, decided, receiver>>

Answer(r, n) ==
  [report EXCEPT ![r].status   = LegacyStatusForOutcome(decided[n].outcome),
                 ![r].local    = LocalStatusForDecision(decided[n]),
                 ![r].revision = n]

\* Mutant: a late revision is applied like any other.
ApplyDecisionUnguarded(w) ==
  /\ At(w, "plan") /\ worker[w].todo = {}
  /\ report' = Answer(worker[w].rep, worker[w].row)
  /\ Goto(w, "done")
  /\ UNCHANGED <<outbox, event, enforced, courier, filed, decided, receiver, faults>>

\* The report takes the answer unless it has a newer one.
ApplyDecisionToReport(w) ==
  LET n == worker[w].row
      r == worker[w].rep IN
  /\ At(w, "plan") /\ worker[w].todo = {}
  /\ report' = IF report[r].revision < n THEN Answer(r, n) ELSE report
  /\ Goto(w, "done")
  /\ UNCHANGED <<outbox, event, enforced, courier, filed, decided, receiver, faults>>

-----------------------------------------------------------------------------

\* A task dies: a dispatcher leaves its row leased, a webhook its event claimed.
Die ==
  /\ Fault
  /\ \/ \E w \in Workers : /\ ~ At(w, "idle")
                           /\ worker' = [worker EXCEPT ![w] = Idle]
                           /\ UNCHANGED receiver
     \/ \E x \in Receivers : /\ receiver[x] # 0
                             /\ receiver' = [receiver EXCEPT ![x] = 0]
                             /\ UNCHANGED worker
  /\ UNCHANGED <<report, outbox, event, enforced, courier, filed, decided>>

DispatcherStep(w) ==
  \/ \E e \in Rows : ClaimRow(w, e)
  \/ CompleteRow(w) \/ FailRow(w) \/ HandlerThrows(w)
  \/ CloseReport(w) \/ CreateAtCrowdSource(w)
  \/ MarkReportSubmitted(w) \/ MarkReportDeliveryFailed(w)
  \/ FindReport(w) \/ (\E a \in Action : ClaimEnforcement(w, a))
  \/ PerformEffect(w) \/ RecordEffect(w) \/ DeleteEnforcement(w)
  \/ ApplyDecisionToReport(w)

ReceiverStep(x) ==
  \/ \E n \in Revisions : ReceiveEvent(x, n)
  \/ RecordDecisionEvent(x) \/ ReleaseEvent(x)

Next ==
  \/ \E r \in Reports : CreateReport(r)
  \/ \E d \in Decisions : Decide(d)
  \/ \E x \in Receivers : ReceiverStep(x)
  \/ \E w \in Workers : DispatcherStep(w)
  \/ \E e \in Rows : LeaseLapses(e)
  \/ Die

\* The dispatcher polls on an interval in every task and a lease runs out by
\* the clock; CrowdSource and the reporters owe nothing.
Fairness ==
  /\ \A w \in Workers : WF_vars(DispatcherStep(w))
  /\ \A e \in Rows : WF_vars(LeaseLapses(e))

Spec     == Init /\ [][Next]_vars
LiveSpec == Spec /\ Fairness

-----------------------------------------------------------------------------
(* Properties *)

\* An action of a revision is carried out at most once: not again by a second
\* worker that took over the row, by a retry, nor after a crash.  Only an update
\* that was made while the worker heard an error is made again, once for each.
\* Guards applyEnforcementPlan and claimModerationEnforcement.
OneEffectPerAction ==
  \A na \in Revisions \X Action : enforced[na].effects <= 1 + enforced[na].unheard

\* A report keeps the newest answer it was given: no delivery, redelivery or
\* late revision takes it back to an earlier verdict, and a verdict changes
\* only with the revision.  Guards applyDecisionToReport.
AnswersOnlyMoveForward ==
  [][\A r \in Reports :
       /\ report'[r].revision >= report[r].revision
       /\ report[r].status \notin {"none", report'[r].status} =>
            /\ report'[r].revision > report[r].revision
            /\ report'[r].status =
                 LegacyStatusForOutcome(decided[report'[r].revision].outcome)]_vars

\* A report that says "queued" is owed its delivery: its row is still to be
\* delivered, or stopped where an operator sees it, and never lost or completed.
\* Guards createReport and deliverReportOutboxEvent.
QueuedMeansOwed ==
  \A r \in Reports :
    report[r].local = "queued" =>
      outbox[r].status \in {"pending", "processing", "dead_letter"}

\* What is settled stays settled: a worker that lost its lease and comes back
\* late, to complete or to fail, never reopens or overturns a row that another
\* has settled since.  Guards ownedLease.
SettledRowsStaySettled ==
  [][\A e \in Rows : outbox[e].status \in {"processed", "dead_letter"} =>
       outbox'[e].status = outbox[e].status]_vars

\* Every row is processed or dead-lettered in the end, whatever fails and
\* whoever dies: leases of the dead run out and another worker takes over.
\* Guards the dispatcher, claimModerationOutboxRow and failModerationOutboxEvent.
EveryRowSettles ==
  \A e \in Rows :
    outbox[e].status # "none" ~> outbox[e].status \in {"processed", "dead_letter"}

-----------------------------------------------------------------------------
(* What the code says of itself *)

\* The newest revision found no violation and was enforced, and no work is left:
\* the courier is not suspended.  The webhook's comment says that the
\* enforcement service reverses what the superseded revision did.
ClearedCourierIsReinstated ==
  LET n == Cardinality(DOMAIN decided) IN
  /\ n > 0 /\ decided[n] # Malformed /\ decided[n].outcome = "no_violation"
  /\ \A m \in 1 .. n : outbox[m].status = "processed"
  /\ \A w \in Workers : At(w, "idle")
  /\ enforced[<<n, "reinstate_courier">>].row = "done"
  => courier = "active"
=============================================================================
