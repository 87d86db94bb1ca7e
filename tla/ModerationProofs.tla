-------------------------- MODULE ModerationProofs --------------------------
(***************************************************************************)
(* What holds of Moderation for every set of reports, workers, decisions   *)
(* and revisions, proved with TLAPS.                                       *)
(***************************************************************************)
EXTENDS Moderation, FiniteSetTheorems, TLAPS

-----------------------------------------------------------------------------
(* Typing.  A step reads the row and the report its worker remembers; which *)
(* kind of row that is depends on the label.                                *)

Delivering == {"read", "submitted", "refused", "unanswered"}
Enforcing  == {"plan", "effect", "record", "undo"}

\* What a worker remembers at its label.
Handling ==
  {k \in Worker :
     /\ k.at # "idle" => k.row \in Rows
     /\ k.at \in Delivering => k.row \in Reports
     /\ k.at \in Enforcing \cup {"find"} => k.row \in Revisions
     /\ k.at \in Enforcing => k.rep \in Reports}

TypeInv == TypeOK /\ worker \in [Workers -> Handling]

\* A revision is no report: the two kinds of row are told apart.
LEMMA RowsDiffer == Reports \cap Revisions = {} /\ Revisions \subseteq Nat /\ 0 \notin Rows
  BY NamesDiffer, BoundsOfModeration DEF Rows, Revisions

LEMMA ZeroTyped == 0 \in 0 .. MaxRevisions
  BY BoundsOfModeration

LEMMA IdleTyped == Idle \in Handling
  BY DEF Idle, Handling, Worker, Labels, Action, Delivering, Enforcing

\* The plan asks for actions the enforcement table has a row for.
LEMMA PlanTyped ==
  ASSUME NEW d
  PROVE  PlanEnforcement(d, "courier") \subseteq Action
<1>1. PlanForOutcome(d, "courier") \subseteq Action
  BY DEF PlanForOutcome, SeverityFallback, Action
<1>2. \A r : ActionFor(r, "courier") \in Action
  BY DEF ActionFor, CourierAction, Action
<1>3. \A s \in SUBSET Action : Collapse(WithReinstateForNoViolation(d, "courier", s))
                                 \in SUBSET Action
  BY DEF Collapse, WithReinstateForNoViolation, Action
<1> QED BY <1>1, <1>2, <1>3 DEF PlanEnforcement

\* A worker's step leaves the memory of every other worker alone.
LEMMA BecomeTyped ==
  ASSUME worker \in [Workers -> Handling], NEW w \in Workers, NEW k \in Handling,
         worker' = [worker EXCEPT ![w] = k]
  PROVE  worker' \in [Workers -> Worker] /\ worker' \in [Workers -> Handling]
  BY DEF Handling

\* An answer is one of the verdicts, for the report and under the revision given.
LEMMA AnswerTyped ==
  ASSUME report \in [Reports -> Report], NEW r \in Reports, NEW n \in 0 .. MaxRevisions
  PROVE  Answer(r, n) \in [Reports -> Report]
<1> DEFINE st == LegacyStatusForOutcome(decided[n].outcome)
           lo == LocalStatusForDecision(decided[n])
<1>1. st \in {"resolved", "dismissed", "reviewed"}
  BY DEF LegacyStatusForOutcome
<1>2. lo \in {"closed", "submitted"}
  BY DEF LocalStatusForDecision
<1> DEFINE new == [report[r] EXCEPT !.status = st, !.local = lo, !.revision = n]
<1>3. Answer(r, n) = [report EXCEPT ![r] = new]
  BY DEF Answer
<1>4. new \in Report
  <2> HIDE DEF st, lo
  <2> QED BY <1>1, <1>2 DEF Report
<1> HIDE DEF new
<1> QED BY <1>3, <1>4

\* What an answer changes of the reports.
LEMMA AnswerSays ==
  ASSUME report \in [Reports -> Report], NEW r \in Reports, NEW n
  PROVE  /\ Answer(r, n)[r].status = LegacyStatusForOutcome(decided[n].outcome)
         /\ Answer(r, n)[r].status # "none"
         /\ Answer(r, n)[r].local # "queued"
         /\ Answer(r, n)[r].revision = n
         /\ \A q \in Reports : q # r => Answer(r, n)[q] = report[q]
<1> DEFINE st == LegacyStatusForOutcome(decided[n].outcome)
           lo == LocalStatusForDecision(decided[n])
<1>1. st # "none" /\ lo # "queued"
  BY DEF LegacyStatusForOutcome, LocalStatusForDecision
<1>2. Answer(r, n) = [report EXCEPT ![r].status = st, ![r].local = lo, ![r].revision = n]
  BY DEF Answer
<1> HIDE DEF st, lo
<1>3. /\ Answer(r, n)[r].status = st /\ Answer(r, n)[r].local = lo
      /\ Answer(r, n)[r].revision = n
      /\ \A q \in Reports : q # r => Answer(r, n)[q] = report[q]
  BY <1>2 DEF Report
<1> QED BY <1>1, <1>3 DEF st

\* Going to a label that needs no more than the worker has.
LEMMA GotoTyped ==
  ASSUME worker \in [Workers -> Handling], NEW w \in Workers, NEW l \in Labels,
         ~ At(w, "idle"),
         l \in Delivering => worker[w].row \in Reports,
         l \in Enforcing \cup {"find"} => worker[w].row \in Revisions,
         l \in Enforcing => worker[w].rep \in Reports,
         Goto(w, l)
  PROVE  /\ worker' \in [Workers -> Worker]
         /\ worker' \in [Workers -> Handling]
  BY DEF Goto, At, Handling, Worker

LEMMA InitTyped == Init => TypeInv
<1> SUFFICES ASSUME Init PROVE TypeInv
  OBVIOUS
<1>1. worker \in [Workers -> Handling] /\ worker \in [Workers -> Worker]
  BY IdleTyped DEF Init, Handling
<1>2. report \in [Reports -> Report] /\ receiver \in [Receivers -> 0 .. MaxRevisions]
  BY BoundsOfModeration DEF Init, Report
<1>3. /\ outbox \in [Rows -> OutboxRow]
      /\ event \in [Revisions -> {"none", "claimed", "queued"}]
  BY DEF Init, OutboxRow
<1>4. enforced \in [Revisions \X Action -> Enforcement]
  BY DEF Init, Enforcement
<1>5. decided \in [1 .. 0 -> Decisions]
  <2>1. 1 .. 0 = {}
    OBVIOUS
  <2> QED BY <2>1 DEF Init
<1>6. filed \subseteq Reports /\ courier \in {"active", "suspended"}
      /\ faults \in 0 .. MaxFaults
  BY BoundsOfModeration DEF Init
<1>7. \E n \in 0 .. MaxRevisions : decided \in [1 .. n -> Decisions]
  BY <1>5, ZeroTyped
<1> QED BY <1>1, <1>2, <1>3, <1>4, <1>6, <1>7 DEF TypeInv, TypeOK

\* The decisions are numbered 1, 2, ... without a gap.
LEMMA DecideTyped ==
  ASSUME TypeInv, NEW d \in Decisions, Decide(d)
  PROVE  \E n \in 0 .. MaxRevisions : decided' \in [1 .. n -> Decisions]
<1>1. PICK n \in 0 .. MaxRevisions : decided \in [1 .. n -> Decisions]
  BY DEF TypeInv, TypeOK
<1>2. DOMAIN decided = 1 .. n /\ Cardinality(1 .. n) = n
  BY <1>1, FS_Interval, BoundsOfModeration
<1>3. n + 1 \in 0 .. MaxRevisions
  BY <1>1, <1>2, BoundsOfModeration DEF Decide
<1>4. decided' = [m \in 1 .. n + 1 |-> IF m = n + 1 THEN d ELSE decided[m]]
  BY <1>2 DEF Decide
<1>5. decided' \in [1 .. n + 1 -> Decisions]
  BY <1>1, <1>4
<1> QED BY <1>3, <1>5

LEMMA FaultTyped == faults \in 0 .. MaxFaults /\ Fault => faults' \in 0 .. MaxFaults
  BY BoundsOfModeration DEF Fault

\* Queueing keeps the rows and every status but "none".
LEMMA EnqueueTyped ==
  ASSUME outbox \in [Rows -> OutboxRow], NEW e \in Rows, Enqueue(e)
  PROVE  /\ outbox' \in [Rows -> OutboxRow]
         /\ outbox'[e].status # "none"
         /\ \A f \in Rows : /\ f # e => outbox'[f] = outbox[f]
                            /\ outbox[f].status # "none" => outbox'[f] = outbox[f]
<1> DEFINE st == IF outbox[e].status = "none" THEN "pending" ELSE outbox[e].status
<1>1. st \in {"none", "pending", "processing", "processed", "dead_letter"} /\ st # "none"
  BY DEF OutboxRow
<1>2. outbox' = [outbox EXCEPT ![e].status = st]
  BY DEF Enqueue
<1>3. outbox[e].status # "none" => st = outbox[e].status
  OBVIOUS
<1> HIDE DEF st
<1> QED BY <1>1, <1>2, <1>3 DEF OutboxRow

\* A report that is written as far as its two statuses go is a report.
LEMMA ReportTyped ==
  ASSUME report \in [Reports -> Report], NEW r \in Reports,
         NEW local \in {"queued", "submitted", "delivery_failed", "closed"}
  PROVE  /\ [report EXCEPT ![r].local = local] \in [Reports -> Report]
         /\ [report EXCEPT ![r].status = "pending", ![r].local = local]
              \in [Reports -> Report]
<1>1. PICK old \in Report : old = report[r]
  OBVIOUS
<1>2. /\ [old EXCEPT !.local = local] \in Report
      /\ [old EXCEPT !.status = "pending", !.local = local] \in Report
  BY DEF Report
<1> QED BY <1>1, <1>2

\* The steps of the reporters, of CrowdSource and of the webhook.
LEMMA IntakeTyped ==
  ASSUME TypeInv,
         \/ \E r \in Reports : CreateReport(r)
         \/ \E d \in Decisions : Decide(d)
         \/ \E x \in Receivers : ReceiverStep(x)
  PROVE  TypeInv'
<1> USE DEF TypeInv, TypeOK
<1>1. ASSUME NEW r \in Reports, CreateReport(r)
      PROVE  TypeInv'
  <2>1. report' \in [Reports -> Report]
    BY <1>1, ReportTyped DEF CreateReport
  <2>2. outbox' \in [Rows -> OutboxRow]
    BY <1>1, EnqueueTyped DEF CreateReport, Rows
  <2> QED BY <1>1, <2>1, <2>2 DEF CreateReport
<1>2. ASSUME NEW d \in Decisions, Decide(d)
      PROVE  TypeInv'
  <2>1. \E n \in 0 .. MaxRevisions : decided' \in [1 .. n -> Decisions]
    BY <1>2, DecideTyped
  <2> QED BY <1>2, <2>1 DEF Decide
<1>3. ASSUME NEW x \in Receivers, NEW n \in Revisions, ReceiveEvent(x, n)
      PROVE  TypeInv'
  BY <1>3 DEF ReceiveEvent, Revisions
<1>4. ASSUME NEW x \in Receivers, RecordDecisionEvent(x)
      PROVE  TypeInv'
  <2>1. receiver[x] \in Revisions
    BY <1>4, BoundsOfModeration DEF RecordDecisionEvent, Revisions
  <2>2. outbox' \in [Rows -> OutboxRow]
    BY <1>4, <2>1, EnqueueTyped DEF RecordDecisionEvent, Rows
  <2>3. /\ event' \in [Revisions -> {"none", "claimed", "queued"}]
        /\ receiver' \in [Receivers -> 0 .. MaxRevisions]
    BY <1>4, ZeroTyped DEF RecordDecisionEvent
  <2> QED BY <1>4, <2>2, <2>3 DEF RecordDecisionEvent
<1>5. ASSUME NEW x \in Receivers, ReleaseEvent(x)
      PROVE  TypeInv'
  <2>1. /\ event' \in [Revisions -> {"none", "claimed", "queued"}]
        /\ receiver' \in [Receivers -> 0 .. MaxRevisions]
    BY <1>5, ZeroTyped DEF ReleaseEvent
  <2>2. faults' \in 0 .. MaxFaults
    BY <1>5, FaultTyped DEF ReleaseEvent
  <2> QED BY <1>5, <2>1, <2>2 DEF ReleaseEvent
<1> QED BY <1>1, <1>2, <1>3, <1>4, <1>5 DEF ReceiverStep

\* The steps that move an outbox row.
LEMMA OutboxTyped ==
  ASSUME TypeInv, NEW w \in Workers,
         (\E e \in Rows : ClaimRow(w, e)) \/ CompleteRow(w) \/ FailRow(w)
  PROVE  TypeInv'
<1> USE DEF TypeInv, TypeOK
<1>1. ASSUME NEW e \in Rows, ClaimRow(w, e)
      PROVE  TypeInv'
  <2>1. outbox[e].attempts + 1 \in Nat
    BY DEF OutboxRow
  <2>2. outbox' \in [Rows -> OutboxRow]
    BY <1>1, <2>1 DEF ClaimRow, OutboxRow
  <2> DEFINE k == [worker[w] EXCEPT !.row = e,
                                    !.at = IF e \in Reports THEN "read" ELSE "find"]
  <2>3. k \in Handling
    <3>1. worker[w] \in Worker /\ e \in Rows \cup {0}
      BY DEF Handling
    <3>2. e \in Reports \/ e \in Revisions
      BY DEF Rows
    <3>3. k \in Worker
      BY <3>1 DEF Worker, Labels
    <3> QED BY <3>1, <3>2, <3>3 DEF Handling, Delivering, Enforcing, Worker
  <2>4. worker' = [worker EXCEPT ![w] = k]
    BY <1>1 DEF ClaimRow
  <2>5. worker' \in [Workers -> Worker] /\ worker' \in [Workers -> Handling]
    <3> HIDE DEF k
    <3> QED BY <2>3, <2>4, BecomeTyped
  <2> QED BY <1>1, <2>2, <2>5 DEF ClaimRow
<1>2. ASSUME NEW status \in {"processed", "dead_letter", "pending"}, Settle(w, status),
             ~ At(w, "idle")
      PROVE  TypeInv'
  <2>1. worker' \in [Workers -> Handling] /\ worker' \in [Workers -> Worker]
    BY <1>2, IdleTyped DEF Settle, Handling
  <2>2. worker[w].row \in Rows
    BY <1>2 DEF At, Handling
  <2>3. outbox' \in [Rows -> OutboxRow]
    <3> DEFINE e == worker[w].row
    <3> DEFINE row == [outbox[e] EXCEPT !.status = status, !.owner = NoOne,
                                        !.live = FALSE]
    <3>1. outbox' = [outbox EXCEPT ![e] = row] \/ outbox' = outbox
      BY <1>2 DEF Settle
    <3>2. PICK old \in OutboxRow : old = outbox[e]
      BY <2>2
    <3>3. [old EXCEPT !.status = status, !.owner = NoOne, !.live = FALSE] \in OutboxRow
      BY <3>2 DEF OutboxRow
    <3>4. row \in OutboxRow
      BY <3>2, <3>3
    <3> HIDE DEF row
    <3> QED BY <2>2, <3>1, <3>4
  <2>4. faults' \in 0 .. MaxFaults
    BY <1>2, FaultTyped DEF Settle
  <2> QED BY <1>2, <2>1, <2>3, <2>4 DEF Settle
<1> QED BY <1>1, <1>2 DEF CompleteRow, FailRow, At

\* The steps of a delivery.
LEMMA DeliveryTyped ==
  ASSUME TypeInv, NEW w \in Workers,
         \/ HandlerThrows(w) \/ CloseReport(w) \/ CreateAtCrowdSource(w)
         \/ MarkReportSubmitted(w) \/ MarkReportDeliveryFailed(w)
  PROVE  TypeInv'
<1> USE DEF TypeInv, TypeOK
<1>1. worker[w] \in Handling
  OBVIOUS
<1>2. ASSUME HandlerThrows(w)
      PROVE  TypeInv'
  <2>1. worker' \in [Workers -> Worker] /\ worker' \in [Workers -> Handling]
    BY <1>1, <1>2, GotoTyped DEF HandlerThrows, At, Labels, Delivering, Enforcing
  <2>2. faults' \in 0 .. MaxFaults
    BY <1>2, FaultTyped DEF HandlerThrows
  <2> QED BY <1>2, <2>1, <2>2 DEF HandlerThrows
<1>3. ASSUME CloseReport(w)
      PROVE  TypeInv'
  <2>1. worker' \in [Workers -> Worker] /\ worker' \in [Workers -> Handling]
    BY <1>1, <1>3, GotoTyped DEF CloseReport, At, Labels, Delivering, Enforcing
  <2>2. report' \in [Reports -> Report]
    <3>1. worker[w].row \in Reports
      BY <1>1, <1>3 DEF CloseReport, At, Handling, Delivering
    <3> QED BY <1>3, <3>1, ReportTyped DEF CloseReport
  <2> QED BY <1>3, <2>1, <2>2 DEF CloseReport
<1>4. ASSUME CreateAtCrowdSource(w)
      PROVE  TypeInv'
  <2>1. worker[w].row \in Reports /\ ~ At(w, "idle")
    BY <1>1, <1>4 DEF CreateAtCrowdSource, At, Handling, Delivering
  <2>2. \E l \in {"submitted", "refused", "unanswered"} : Goto(w, l)
    BY <1>4 DEF CreateAtCrowdSource
  <2>3. worker' \in [Workers -> Worker] /\ worker' \in [Workers -> Handling]
    BY <2>1, <2>2, GotoTyped DEF Labels, Delivering, Enforcing
  <2>4. faults' \in 0 .. MaxFaults /\ filed' \subseteq Reports
    BY <1>4, <2>1, FaultTyped DEF CreateAtCrowdSource
  <2> QED BY <1>4, <2>3, <2>4 DEF CreateAtCrowdSource
<1>5. ASSUME MarkReportSubmitted(w)
      PROVE  TypeInv'
  <2>1. worker' \in [Workers -> Worker] /\ worker' \in [Workers -> Handling]
    BY <1>1, <1>5, GotoTyped DEF MarkReportSubmitted, At, Labels, Delivering, Enforcing
  <2>2. report' \in [Reports -> Report]
    <3> DEFINE r == worker[w].row
               new == [report[r] EXCEPT !.local = "submitted", !.caseKnown = TRUE]
    <3>1. r \in Reports
      BY <1>1, <1>5 DEF MarkReportSubmitted, At, Handling, Delivering
    <3>2. report' = [report EXCEPT ![r] = new]
      BY <1>5 DEF MarkReportSubmitted
    <3>3. report[r] \in Report
      BY <3>1
    <3>4. new \in Report
      <4> HIDE DEF r, TypeInv, TypeOK
      <4> QED BY <3>3 DEF Report
    <3> HIDE DEF new
    <3> QED BY <3>1, <3>2, <3>4
  <2> QED BY <1>5, <2>1, <2>2 DEF MarkReportSubmitted
<1>6. ASSUME MarkReportDeliveryFailed(w)
      PROVE  TypeInv'
  <2>1. ~ At(w, "idle") /\ \E l \in {"rejected", "failed"} : Goto(w, l)
    BY <1>6 DEF MarkReportDeliveryFailed, At
  <2>2. worker' \in [Workers -> Worker] /\ worker' \in [Workers -> Handling]
    BY <1>1, <2>1, GotoTyped DEF Labels, Delivering, Enforcing
  <2>3. report' \in [Reports -> Report]
    <3>1. worker[w].row \in Reports
      BY <1>1, <1>6 DEF MarkReportDeliveryFailed, Handling, Delivering
    <3> QED BY <1>6, <3>1, ReportTyped DEF MarkReportDeliveryFailed
  <2> QED BY <1>6, <2>2, <2>3 DEF MarkReportDeliveryFailed
<1> QED BY <1>2, <1>3, <1>4, <1>5, <1>6

\* A new status leaves an enforcement an enforcement.
LEMMA EnforcementRowTyped ==
  ASSUME NEW S, NEW e \in [S -> Enforcement], NEW k, NEW v \in {"none", "done"}
  PROVE  [e EXCEPT ![k].row = v] \in [S -> Enforcement]
<1> DEFINE new == [e[k] EXCEPT !.row = v]
<1>1. k \in S => new \in Enforcement
  BY DEF Enforcement
<1>2. [e EXCEPT ![k].row = v] = [e EXCEPT ![k] = new]
  OBVIOUS
<1> HIDE DEF new
<1> QED BY <1>1, <1>2

\* The steps that enforce a decision and answer the report.
LEMMA DecisionTyped ==
  ASSUME TypeInv, NEW w \in Workers,
         \/ FindReport(w) \/ (\E a \in Action : ClaimEnforcement(w, a))
         \/ PerformEffect(w) \/ RecordEffect(w) \/ DeleteEnforcement(w)
         \/ ApplyDecisionToReport(w)
  PROVE  TypeInv'
<1> USE DEF TypeInv, TypeOK
<1>1. worker[w] \in Handling
  OBVIOUS
<1>2. ASSUME FindReport(w)
      PROVE  TypeInv'
  <2>1. CASE Goto(w, "rejected") \/ Goto(w, "done")
    <3>1. worker' \in [Workers -> Worker] /\ worker' \in [Workers -> Handling]
      BY <1>1, <1>2, <2>1, GotoTyped DEF FindReport, At, Labels, Delivering, Enforcing
    <3> QED BY <1>2, <3>1 DEF FindReport
  <2>2. ASSUME NEW r \in Reports, NEW todo \in SUBSET Action,
               worker' = [worker EXCEPT ![w].at = "plan", ![w].rep = r, ![w].todo = todo]
        PROVE  TypeInv'
    <3> DEFINE k == [worker[w] EXCEPT !.at = "plan", !.rep = r, !.todo = todo]
    <3>1. worker[w] \in Worker /\ worker[w].row \in Revisions /\ At(w, "find")
      BY <1>1, <1>2 DEF FindReport, At, Handling
    <3>2. k \in Handling
      BY <3>1 DEF Handling, Worker, Labels, Rows, Delivering, Enforcing
    <3>3. worker' = [worker EXCEPT ![w] = k]
      BY <2>2
    <3>4. worker' \in [Workers -> Worker] /\ worker' \in [Workers -> Handling]
      <4> HIDE DEF k
      <4> QED BY <3>2, <3>3, BecomeTyped
    <3> QED BY <1>2, <3>4 DEF FindReport
  <2> QED BY <1>2, <2>1, <2>2, PlanTyped DEF FindReport
<1>3. ASSUME NEW a \in Action, ClaimEnforcement(w, a)
      PROVE  TypeInv'
  <2>1. /\ worker[w] \in Worker /\ worker[w].at = "plan"
        /\ worker[w].row \in Revisions /\ worker[w].rep \in Reports
    BY <1>1, <1>3 DEF ClaimEnforcement, At, Handling, Enforcing
  <2> DEFINE claims == [worker[w] EXCEPT !.at = "effect", !.act = a, !.todo = @ \ {a}]
             skips  == [worker[w] EXCEPT !.todo = @ \ {a}]
  <2>2. claims \in Handling /\ skips \in Handling
    BY <2>1 DEF Handling, Worker, Labels, Rows, Delivering, Enforcing
  <2>3. \/ worker' = [worker EXCEPT ![w] = claims] \/ worker' = [worker EXCEPT ![w] = skips]
        \/ Goto(w, "failed")
    BY <1>3 DEF ClaimEnforcement
  <2>4. worker' \in [Workers -> Worker] /\ worker' \in [Workers -> Handling]
    <3> HIDE DEF claims, skips
    <3>1. CASE Goto(w, "failed")
      BY <2>1, <3>1, GotoTyped DEF At, Labels, Delivering, Enforcing
    <3> QED BY <2>2, <2>3, <3>1, BecomeTyped
  <2>6. faults' \in 0 .. MaxFaults
    BY <1>3, FaultTyped DEF ClaimEnforcement
  <2>5. enforced' \in [Revisions \X Action -> Enforcement]
    <3> DEFINE na  == <<worker[w].row, a>>
               new == [enforced[na] EXCEPT !.row = "claimed"]
    <3>1. na \in Revisions \X Action
      BY <2>1
    <3>2. enforced' = [enforced EXCEPT ![na] = new] \/ enforced' = enforced
      BY <1>3 DEF ClaimEnforcement
    <3>3. enforced[na] \in Enforcement
      BY <3>1
    <3>4. new \in Enforcement
      <4> HIDE DEF na, TypeInv, TypeOK
      <4> QED BY <3>3 DEF Enforcement
    <3> HIDE DEF na, new
    <3> QED BY <3>1, <3>2, <3>4
  <2> QED BY <1>3, <2>4, <2>5, <2>6 DEF ClaimEnforcement
<1>4. ASSUME PerformEffect(w)
      PROVE  TypeInv'
  <2>1. /\ worker[w].at = "effect" /\ worker[w].row \in Revisions
        /\ worker[w].rep \in Reports /\ worker[w].act \in Action
    BY <1>1, <1>4 DEF PerformEffect, At, Handling, Enforcing, Worker
  <2>2. \E l \in {"record", "undo"} : Goto(w, l)
    BY <1>4 DEF PerformEffect
  <2>3. worker' \in [Workers -> Worker] /\ worker' \in [Workers -> Handling]
    BY <2>1, <2>2, GotoTyped DEF At, Labels, Delivering, Enforcing
  <2>4. enforced' \in [Revisions \X Action -> Enforcement]
    <3> DEFINE na  == <<worker[w].row, worker[w].act>>
               done == [enforced[na] EXCEPT !.effects = @ + 1]
               new  == [enforced[na] EXCEPT !.effects = @ + 1, !.unheard = @ + 1]
    <3>1. na \in Revisions \X Action
      BY <2>1
    <3>2. \/ enforced' = [enforced EXCEPT ![na] = done]
          \/ enforced' = [enforced EXCEPT ![na] = new] \/ enforced' = enforced
      BY <1>4 DEF PerformEffect
    <3>3. enforced[na] \in Enforcement
      BY <3>1
    <3>4. done \in Enforcement /\ new \in Enforcement
      <4> HIDE DEF na, TypeInv, TypeOK
      <4> DEFINE was == enforced[na]
      <4>1. was.effects + 1 \in Nat /\ was.unheard + 1 \in Nat
        BY <3>3 DEF Enforcement
      <4>2. /\ done = [was EXCEPT !.effects = was.effects + 1]
            /\ new = [was EXCEPT !.effects = was.effects + 1, !.unheard = was.unheard + 1]
        OBVIOUS
      <4> HIDE DEF new, done, was
      <4> QED BY <3>3, <4>1, <4>2 DEF Enforcement, was
    <3> HIDE DEF na, done, new
    <3> QED BY <3>1, <3>2, <3>4
  <2>5. faults' \in 0 .. MaxFaults /\ courier' \in {"active", "suspended"}
    BY <1>4, FaultTyped DEF PerformEffect, Standing
  <2> QED BY <1>4, <2>3, <2>4, <2>5 DEF PerformEffect
<1>5. ASSUME RecordEffect(w) \/ DeleteEnforcement(w)
      PROVE  TypeInv'
  <2>1. \E l \in {"plan", "failed"} : Goto(w, l)
    BY <1>5 DEF RecordEffect, DeleteEnforcement
  <2>2. /\ worker[w].at \in {"record", "undo"} /\ worker[w].row \in Revisions
        /\ worker[w].rep \in Reports
    BY <1>1, <1>5 DEF RecordEffect, DeleteEnforcement, At, Handling, Enforcing
  <2>3. worker' \in [Workers -> Worker] /\ worker' \in [Workers -> Handling]
    BY <2>1, <2>2, GotoTyped DEF At, Labels, Delivering, Enforcing
  <2>4. enforced' \in [Revisions \X Action -> Enforcement]
    <3> DEFINE na == <<worker[w].row, worker[w].act>>
    <3>1. \/ enforced' = [enforced EXCEPT ![na].row = "done"]
          \/ enforced' = [enforced EXCEPT ![na].row = "none"] \/ enforced' = enforced
      BY <1>5 DEF RecordEffect, DeleteEnforcement
    <3>2. enforced \in [Revisions \X Action -> Enforcement]
      OBVIOUS
    <3> HIDE DEF na, TypeInv, TypeOK
    <3>3. /\ [enforced EXCEPT ![na].row = "done"] \in [Revisions \X Action -> Enforcement]
          /\ [enforced EXCEPT ![na].row = "none"] \in [Revisions \X Action -> Enforcement]
      BY <3>2, EnforcementRowTyped
    <3> QED BY <3>1, <3>2, <3>3
  <2>5. faults' \in 0 .. MaxFaults
    BY <1>5, FaultTyped DEF RecordEffect, DeleteEnforcement
  <2> QED BY <1>5, <2>3, <2>4, <2>5 DEF RecordEffect, DeleteEnforcement
<1>6. ASSUME ApplyDecisionToReport(w)
      PROVE  TypeInv'
  <2>1. worker' \in [Workers -> Worker] /\ worker' \in [Workers -> Handling]
    BY <1>1, <1>6, GotoTyped DEF ApplyDecisionToReport, At, Labels, Delivering, Enforcing
  <2>2. worker[w].row \in 0 .. MaxRevisions
    BY <1>1, <1>6 DEF ApplyDecisionToReport, At, Handling, Enforcing, Revisions
  <2>3. report' \in [Reports -> Report]
    <3>1. worker[w].rep \in Reports
      BY <1>1, <1>6 DEF ApplyDecisionToReport, At, Handling, Enforcing
    <3> QED BY <1>6, <2>2, <3>1, AnswerTyped DEF ApplyDecisionToReport
  <2> QED BY <1>6, <2>1, <2>3 DEF ApplyDecisionToReport
<1> QED BY <1>2, <1>3, <1>4, <1>5, <1>6
LEMMA NextTyped == TypeInv /\ [Next]_vars => TypeInv'
<1> SUFFICES ASSUME TypeInv, [Next]_vars PROVE TypeInv'
  OBVIOUS
<1>1. ASSUME NEW e \in Rows, LeaseLapses(e)
      PROVE  TypeInv'
  <2>1. outbox' \in [Rows -> OutboxRow]
    <3>1. outbox \in [Rows -> OutboxRow]
      BY DEF TypeInv, TypeOK
    <3>2. outbox' = [outbox EXCEPT ![e].live = FALSE]
      BY <1>1 DEF LeaseLapses
    <3> QED BY <3>1, <3>2 DEF OutboxRow
  <2>2. faults' \in 0 .. MaxFaults
    BY <1>1, FaultTyped DEF LeaseLapses, TypeInv, TypeOK
  <2> QED BY <1>1, <2>1, <2>2 DEF LeaseLapses, TypeInv, TypeOK
<1>2. ASSUME Die
      PROVE  TypeInv'
  <2>1. faults' \in 0 .. MaxFaults /\ receiver' \in [Receivers -> 0 .. MaxRevisions]
    BY <1>2, FaultTyped, ZeroTyped DEF Die, TypeInv, TypeOK
  <2>2. worker' \in [Workers -> Worker] /\ worker' \in [Workers -> Handling]
    BY <1>2, IdleTyped, BecomeTyped DEF Die, TypeInv, TypeOK
  <2> QED BY <1>2, <2>1, <2>2 DEF Die, TypeInv, TypeOK
<1>3. CASE UNCHANGED vars
  BY <1>3 DEF vars, TypeInv, TypeOK
<1> QED BY <1>1, <1>2, <1>3, IntakeTyped, OutboxTyped, DeliveryTyped, DecisionTyped
        DEF Next, DispatcherStep

\* Whatever is interleaved, lost or retried, the rows and the workers hold only
\* what the tables and the dispatcher have a value for.
THEOREM TypeCorrect == Spec => []TypeOK
<1>1. Spec => []TypeInv
  BY InitTyped, NextTyped, PTL DEF Spec
<1>2. TypeInv => TypeOK
  BY DEF TypeInv
<1> QED BY <1>1, <1>2, PTL


-----------------------------------------------------------------------------
(* One effect per action.  Who holds the claim of an action is alone with   *)
(* it: the row is "claimed" as long as a worker is at its effect, the note   *)
(* of it or the undoing, and before the effect nothing was done that a       *)
(* worker had heard of.                                                      *)

Holds(w, na) ==
  worker[w].at \in {"effect", "record", "undo"} /\ na = <<worker[w].row, worker[w].act>>

EffectInv ==
  \A na \in Revisions \X Action :
    /\ enforced[na].effects <= 1 + enforced[na].unheard
    /\ enforced[na].row = "none" => enforced[na].effects = enforced[na].unheard
    /\ \A w \in Workers : Holds(w, na) =>
         /\ enforced[na].row = "claimed"
         /\ worker[w].at # "record" => enforced[na].effects = enforced[na].unheard
    /\ \A v, w \in Workers : Holds(v, na) /\ Holds(w, na) => v = w

\* Where no row changes, it is enough that nobody comes to hold an action.
LEMMA EffectKept ==
  ASSUME EffectInv, UNCHANGED enforced,
         \A w \in Workers : \A na \in Revisions \X Action :
           Holds(w, na)' => Holds(w, na) /\ worker'[w].at = worker[w].at
  PROVE  EffectInv'
  BY DEF EffectInv

\* A worker that goes to a label where nothing is held.
LEMMA LetsGo ==
  ASSUME worker \in [Workers -> Handling], NEW w \in Workers,
         \/ worker' = [worker EXCEPT ![w] = Idle]
         \/ \E l \in Labels \ {"effect", "record", "undo"} : Goto(w, l)
         \/ UNCHANGED worker
  PROVE  \A v \in Workers : \A na \in Revisions \X Action :
           Holds(v, na)' => Holds(v, na) /\ worker'[v].at = worker[v].at
  BY DEF Holds, Goto, Idle, Handling, Worker

\* The claim of an action: only who finds no row takes it.
LEMMA ClaimKeepsEffects ==
  ASSUME TypeInv, EffectInv, NEW w \in Workers, NEW a \in Action, ClaimEnforcement(w, a)
  PROVE  EffectInv'
<1> DEFINE n == worker[w].row
<1>1. worker[w].at = "plan" /\ <<n, a>> \in Revisions \X Action
  BY DEF TypeInv, Handling, Enforcing, ClaimEnforcement, At
<1>2. worker \in [Workers -> Handling] /\ enforced \in [Revisions \X Action -> Enforcement]
  BY DEF TypeInv, TypeOK
<1>3. CASE enforced[<<n, a>>].row # "none"
  <2>1. /\ worker' = [worker EXCEPT ![w].todo = @ \ {a}] /\ UNCHANGED enforced
    BY <1>3 DEF ClaimEnforcement
  <2>2. \A v \in Workers : \A na \in Revisions \X Action :
          Holds(v, na)' => Holds(v, na) /\ worker'[v].at = worker[v].at
    BY <1>2, <2>1 DEF Holds, Handling, Worker
  <2> QED BY <2>1, <2>2, EffectKept
<1>4. CASE /\ enforced[<<n, a>>].row = "none"
           /\ worker' = [worker EXCEPT ![w].at = "effect", ![w].act = a, ![w].todo = @ \ {a}]
  <2> DEFINE na == <<n, a>>
  <2>1. /\ enforced' = [enforced EXCEPT ![na].row = "claimed"]
        /\ worker' = [worker EXCEPT ![w].at = "effect", ![w].act = a, ![w].todo = @ \ {a}]
    BY <1>4 DEF ClaimEnforcement
  <2>2. /\ \A v \in Workers : v # w => worker'[v] = worker[v]
        /\ worker'[w].at = "effect" /\ worker'[w].row = n /\ worker'[w].act = a
    BY <1>2, <2>1 DEF Handling, Worker
  <2>3. \A v \in Workers : \A nb \in Revisions \X Action :
          Holds(v, nb)' <=> Holds(v, nb) \/ (v = w /\ nb = na)
    BY <1>1, <2>2 DEF Holds
  <2>4. \A v \in Workers : ~ Holds(v, na)
    BY <1>1, <1>4 DEF EffectInv
  <2>5. /\ \A nb \in Revisions \X Action : nb # na => enforced'[nb] = enforced[nb]
        /\ enforced'[na].row = "claimed" /\ enforced'[na].effects = enforced'[na].unheard
        /\ enforced'[na].unheard \in Nat
    BY <1>1, <1>2, <1>4, <2>1 DEF EffectInv, Enforcement
  <2> HIDE DEF na
  <2>6. ASSUME NEW nb \in Revisions \X Action
        PROVE  /\ enforced'[nb].effects <= 1 + enforced'[nb].unheard
               /\ enforced'[nb].row = "none" => enforced'[nb].effects = enforced'[nb].unheard
    <3>1. CASE nb = na
      BY <2>5, <3>1
    <3>2. CASE nb # na
      BY <2>5, <3>2 DEF EffectInv
    <3> QED BY <3>1, <3>2
  <2>7. ASSUME NEW v \in Workers, NEW nb \in Revisions \X Action, Holds(v, nb)'
        PROVE  /\ enforced'[nb].row = "claimed"
               /\ worker'[v].at # "record" => enforced'[nb].effects = enforced'[nb].unheard
               /\ nb = na => v = w
    <3>1. CASE nb = na
      BY <2>3, <2>4, <2>5, <2>7, <3>1
    <3>2. CASE nb # na
      <4>1. Holds(v, nb) /\ enforced'[nb] = enforced[nb]
        BY <2>3, <2>5, <2>7, <3>2
      <4>2. v # w
        BY <1>1, <4>1 DEF Holds
      <4> QED BY <2>2, <3>2, <4>1, <4>2 DEF EffectInv
    <3> QED BY <3>1, <3>2
  <2>8. ASSUME NEW v \in Workers, NEW u \in Workers, NEW nb \in Revisions \X Action,
               Holds(v, nb)', Holds(u, nb)'
        PROVE  v = u
    <3>1. CASE nb = na
      BY <2>7, <2>8, <3>1
    <3>2. CASE nb # na
      BY <2>3, <2>8, <3>2 DEF EffectInv
    <3> QED BY <3>1, <3>2
  <2> QED BY <2>6, <2>7, <2>8 DEF EffectInv
<1>5. CASE enforced[<<n, a>>].row = "none" /\ Goto(w, "failed")
  <2> DEFINE na == <<n, a>>
  <2>1. enforced' = [enforced EXCEPT ![na].row = "claimed"]
    BY <1>5 DEF ClaimEnforcement
  <2>2. \A v \in Workers : \A nb \in Revisions \X Action :
          Holds(v, nb)' => Holds(v, nb) /\ worker'[v].at = worker[v].at
    BY <1>2, <1>5, LetsGo DEF Labels
  <2>4. \A v \in Workers : ~ Holds(v, na)
    BY <1>1, <1>5 DEF EffectInv
  <2>5. /\ \A nb \in Revisions \X Action : nb # na => enforced'[nb] = enforced[nb]
        /\ enforced'[na].row = "claimed" /\ enforced'[na].effects = enforced'[na].unheard
        /\ enforced'[na].unheard \in Nat
    BY <1>1, <1>2, <1>5, <2>1 DEF EffectInv, Enforcement
  <2> HIDE DEF na
  <2> QED BY <2>2, <2>4, <2>5 DEF EffectInv
<1> QED BY <1>3, <1>4, <1>5 DEF ClaimEnforcement

\* The effect, its failure, the note and the undoing: the holder is alone, so that
\* the row it settles or gives back is nobody else's.
LEMMA HolderKeepsEffects ==
  ASSUME TypeInv, EffectInv, NEW w \in Workers,
         PerformEffect(w) \/ RecordEffect(w) \/ DeleteEnforcement(w)
  PROVE  EffectInv'
<1>1. /\ worker[w].at \in {"effect", "record", "undo"}
      /\ worker[w].row \in Revisions /\ worker[w].act \in Action
  BY DEF TypeInv, Handling, Enforcing, PerformEffect, RecordEffect, DeleteEnforcement, At,
         Worker
<1>0. PICK na \in Revisions \X Action : na = <<worker[w].row, worker[w].act>>
  BY <1>1
<1>2. worker \in [Workers -> Handling] /\ enforced \in [Revisions \X Action -> Enforcement]
  BY DEF TypeInv, TypeOK
<1>3. Holds(w, na) /\ \A v \in Workers : Holds(v, na) => v = w
  BY <1>0, <1>1 DEF Holds, EffectInv
<1>4. /\ enforced[na].row = "claimed" /\ enforced[na].effects <= 1 + enforced[na].unheard
      /\ worker[w].at # "record" => enforced[na].effects = enforced[na].unheard
      /\ enforced[na].effects \in Nat /\ enforced[na].unheard \in Nat
  BY <1>2, <1>3 DEF EffectInv, Enforcement
<1>5. ASSUME NEW l \in {"plan", "record", "undo", "failed"}, Goto(w, l),
             \A nb \in Revisions \X Action : nb # na => enforced'[nb] = enforced[nb],
             enforced'[na].effects <= 1 + enforced'[na].unheard,
             enforced'[na].row = "none" => enforced'[na].effects = enforced'[na].unheard,
             l \in {"record", "undo"} => enforced'[na].row = "claimed",
             l = "undo" => enforced'[na].effects = enforced'[na].unheard
      PROVE  EffectInv'
  <2>1. /\ \A v \in Workers : v # w => worker'[v] = worker[v]
        /\ worker'[w].at = l /\ worker'[w].row = worker[w].row
        /\ worker'[w].act = worker[w].act
    BY <1>2, <1>5 DEF Goto, Handling, Worker
  <2>2. ASSUME NEW v \in Workers, NEW nb \in Revisions \X Action, Holds(v, nb)'
        PROVE  Holds(v, nb) /\ (v = w => nb = na /\ l \in {"record", "undo"})
    BY <1>0, <1>1, <2>1, <2>2 DEF Holds
  <2>3. \A v \in Workers : v # w => ~ Holds(v, na)'
    BY <1>3, <2>2
  <2>4. ASSUME NEW v \in Workers, NEW nb \in Revisions \X Action, Holds(v, nb)'
        PROVE  /\ enforced'[nb].row = "claimed"
               /\ worker'[v].at # "record" => enforced'[nb].effects = enforced'[nb].unheard
    <3>1. CASE v = w
      BY <1>5, <2>1, <2>2, <2>4, <3>1
    <3>2. CASE v # w
      <4>1. nb # na /\ Holds(v, nb) /\ worker'[v] = worker[v]
        BY <2>1, <2>2, <2>3, <2>4, <3>2
      <4> QED BY <1>5, <4>1 DEF EffectInv
    <3> QED BY <3>1, <3>2
  <2>5. \A nb \in Revisions \X Action :
          /\ enforced'[nb].effects <= 1 + enforced'[nb].unheard
          /\ enforced'[nb].row = "none" => enforced'[nb].effects = enforced'[nb].unheard
          /\ \A v, u \in Workers : Holds(v, nb)' /\ Holds(u, nb)' => v = u
    BY <1>5, <2>2 DEF EffectInv
  <2> QED BY <2>4, <2>5 DEF EffectInv
<1>6. CASE PerformEffect(w)
  <2>1. worker[w].at = "effect"
    BY <1>6 DEF PerformEffect, At
  <2>2. \/ enforced' = [enforced EXCEPT ![na].effects = @ + 1] /\ Goto(w, "record")
        \/ enforced' = enforced /\ Goto(w, "undo")
        \/ /\ enforced' = [enforced EXCEPT ![na].effects = @ + 1, ![na].unheard = @ + 1]
           /\ Goto(w, "undo")
    BY <1>0, <1>6 DEF PerformEffect
  <2>3. CASE enforced' = [enforced EXCEPT ![na].effects = @ + 1] /\ Goto(w, "record")
    <3>1. /\ \A nb \in Revisions \X Action : nb # na => enforced'[nb] = enforced[nb]
          /\ enforced'[na].row = "claimed"
          /\ enforced'[na].effects = enforced[na].effects + 1
          /\ enforced'[na].unheard = enforced[na].unheard
      BY <1>2, <1>4, <2>3 DEF Enforcement
    <3> QED BY <1>4, <1>5, <2>1, <2>3, <3>1
  <2>4. CASE enforced' = enforced /\ Goto(w, "undo")
    BY <1>4, <1>5, <2>1, <2>4
  <2>5. CASE /\ enforced' = [enforced EXCEPT ![na].effects = @ + 1, ![na].unheard = @ + 1]
             /\ Goto(w, "undo")
    <3>1. /\ \A nb \in Revisions \X Action : nb # na => enforced'[nb] = enforced[nb]
          /\ enforced'[na].row = "claimed"
          /\ enforced'[na].effects = enforced[na].effects + 1
          /\ enforced'[na].unheard = enforced[na].unheard + 1
      BY <1>2, <1>4, <2>5 DEF Enforcement
    <3>2. /\ enforced'[na].effects = enforced'[na].unheard
          /\ enforced'[na].effects <= 1 + enforced'[na].unheard
      BY <1>4, <2>1, <3>1
    <3> QED BY <1>5, <2>5, <3>1, <3>2
  <2> QED BY <2>2, <2>3, <2>4, <2>5
<1>7. ASSUME NEW st \in {"done", "none"}, enforced' = [enforced EXCEPT ![na].row = st],
             NEW l \in {"plan", "failed"}, Goto(w, l), st = "none" => worker[w].at = "undo"
      PROVE  EffectInv'
  <2>1. /\ \A nb \in Revisions \X Action : nb # na => enforced'[nb] = enforced[nb]
        /\ enforced'[na].row = st
        /\ enforced'[na].effects = enforced[na].effects
        /\ enforced'[na].unheard = enforced[na].unheard
    BY <1>2, <1>7 DEF Enforcement
  <2> QED BY <1>4, <1>5, <1>7, <2>1
<1>8. CASE enforced' = enforced /\ Goto(w, "failed")
  BY <1>4, <1>5, <1>8
<1>9. CASE RecordEffect(w)
  BY <1>0, <1>7, <1>8, <1>9 DEF RecordEffect
<1>10. CASE DeleteEnforcement(w)
  BY <1>0, <1>7, <1>8, <1>10 DEF DeleteEnforcement, At
<1> QED BY <1>6, <1>9, <1>10

LEMMA EffectStep ==
  ASSUME TypeInv, EffectInv, [Next]_vars
  PROVE  EffectInv'
<1>1. worker \in [Workers -> Handling]
  BY DEF TypeInv
<1>2. ASSUME NEW w \in Workers, UNCHANGED enforced,
             \/ worker' = [worker EXCEPT ![w] = Idle]
             \/ \E l \in Labels \ {"effect", "record", "undo"} : Goto(w, l)
             \/ UNCHANGED worker
      PROVE  EffectInv'
  BY <1>1, <1>2, LetsGo, EffectKept
<1>3. ASSUME UNCHANGED <<worker, enforced>>
      PROVE  EffectInv'
  BY <1>3, EffectKept DEF Holds
<1>4. ASSUME NEW w \in Workers, NEW e \in Rows, ClaimRow(w, e)
      PROVE  EffectInv'
  <2>1. \A v \in Workers : \A na \in Revisions \X Action :
          Holds(v, na)' => Holds(v, na) /\ worker'[v].at = worker[v].at
    BY <1>1, <1>4 DEF ClaimRow, Holds, Handling, Worker
  <2> QED BY <1>4, <2>1, EffectKept DEF ClaimRow
<1>5. ASSUME NEW w \in Workers, FindReport(w)
      PROVE  EffectInv'
  <2>1. \A v \in Workers : \A na \in Revisions \X Action :
          Holds(v, na)' => Holds(v, na) /\ worker'[v].at = worker[v].at
    <3>1. /\ \A v \in Workers : v # w => worker'[v] = worker[v]
          /\ worker'[w].at \in {"rejected", "done", "plan"}
      <4>1. \/ \E l \in {"rejected", "done"} : worker' = [worker EXCEPT ![w].at = l]
            \/ \E r \in Reports : \E t :
                 worker' = [worker EXCEPT ![w].at = "plan", ![w].rep = r, ![w].todo = t]
        BY <1>5 DEF FindReport, Goto
      <4>2. worker \in [Workers -> Worker]
        BY <1>1 DEF Handling
      <4> QED BY <4>1, <4>2, ZenonT(40) DEF Worker
    <3> QED BY <3>1 DEF Holds
  <2> QED BY <1>5, <2>1, EffectKept DEF FindReport
<1>6. ASSUME NEW w \in Workers,
             \/ CompleteRow(w) \/ FailRow(w) \/ HandlerThrows(w) \/ CloseReport(w)
             \/ CreateAtCrowdSource(w) \/ MarkReportSubmitted(w)
             \/ MarkReportDeliveryFailed(w) \/ ApplyDecisionToReport(w)
      PROVE  EffectInv'
  <2>1. UNCHANGED enforced
    BY <1>6 DEF CompleteRow, FailRow, Settle, HandlerThrows, CloseReport,
                CreateAtCrowdSource, MarkReportSubmitted, MarkReportDeliveryFailed,
                ApplyDecisionToReport
  <2>2. \/ worker' = [worker EXCEPT ![w] = Idle]
        \/ \E l \in {"done", "failed", "rejected", "submitted", "refused", "unanswered"} :
             Goto(w, l)
    BY <1>6 DEF CompleteRow, FailRow, Settle, HandlerThrows, CloseReport,
                CreateAtCrowdSource, MarkReportSubmitted, MarkReportDeliveryFailed,
                ApplyDecisionToReport
  <2> QED BY <1>2, <2>1, <2>2 DEF Labels
<1>7. CASE \/ \E r \in Reports : CreateReport(r)
           \/ \E d \in Decisions : Decide(d)
           \/ \E x \in Receivers : ReceiverStep(x)
           \/ \E e \in Rows : LeaseLapses(e)
           \/ UNCHANGED vars
  BY <1>3, <1>7 DEF CreateReport, Decide, ReceiverStep, ReceiveEvent,
                    RecordDecisionEvent, ReleaseEvent, LeaseLapses, vars
<1>8. CASE Die
  BY <1>2, <1>3, <1>8 DEF Die
<1> QED BY <1>4, <1>5, <1>6, <1>7, <1>8, ClaimKeepsEffects, HolderKeepsEffects
        DEF Next, DispatcherStep

\* No revision has an action's effect twice on the courier, whatever number of
\* workers take over the row, retry it or die over it, but for the updates that
\* were made while the worker heard an error.
THEOREM OneEffect == Spec => []OneEffectPerAction
<1>1. Init => EffectInv
  BY DEF Init, EffectInv, Holds, Idle
<1>2. TypeInv /\ EffectInv /\ [Next]_vars => EffectInv'
  BY EffectStep
<1>3. EffectInv => OneEffectPerAction
  BY DEF EffectInv, OneEffectPerAction
<1> QED BY <1>1, <1>2, <1>3, InitTyped, NextTyped, PTL DEF Spec

-----------------------------------------------------------------------------
(* What is owed.  A report's row exists from its intake on, and a worker    *)
(* that is done with it has taken the report out of "queued".               *)

OwedInv ==
  /\ QueuedMeansOwed
  /\ \A r \in Reports : report[r].status = "none" => outbox[r].status = "none"
  /\ \A w \in Workers : worker[w].row \in Reports =>
       /\ report[worker[w].row].status # "none"
       /\ At(w, "done") => report[worker[w].row].local # "queued"

\* A step that leaves the reports and the rows of the reports alone.
LEMMA OwedKept ==
  ASSUME OwedInv, UNCHANGED report,
         \A r \in Reports : outbox'[r] = outbox[r],
         \A w \in Workers : worker'[w].row \in Reports =>
           /\ worker'[w].row = worker[w].row
           /\ At(w, "done")' => At(w, "done")
  PROVE  OwedInv'
  BY DEF OwedInv, QueuedMeansOwed

\* Intake queues the report and its row together; an event's row is no report's.
LEMMA IntakeOwes ==
  ASSUME TypeInv, OwedInv,
         \/ \E r \in Reports : CreateReport(r)
         \/ \E d \in Decisions : Decide(d)
         \/ \E x \in Receivers : ReceiverStep(x)
  PROVE  OwedInv'
<1>1. ASSUME NEW r \in Reports, CreateReport(r)
      PROVE  OwedInv'
  <2>1. /\ report'[r].status = "pending" /\ report'[r].local = "queued"
        /\ \A q \in Reports : q # r => report'[q] = report[q]
    BY <1>1 DEF CreateReport, TypeInv, TypeOK, Report
  <2>2. outbox[r].status = "none" /\ \A w \in Workers : worker[w].row # r
    BY <1>1 DEF CreateReport, OwedInv
  <2>3. /\ outbox'[r].status = "pending"
        /\ \A q \in Reports : q # r => outbox'[q] = outbox[q]
    BY <1>1, <2>2 DEF CreateReport, Enqueue, TypeInv, TypeOK, OutboxRow, Rows
  <2>4. UNCHANGED worker
    BY <1>1 DEF CreateReport
  <2> QED BY <2>1, <2>2, <2>3, <2>4 DEF OwedInv, QueuedMeansOwed, At
<1>2. ASSUME NEW x \in Receivers, RecordDecisionEvent(x)
      PROVE  OwedInv'
  <2>1. receiver[x] \notin Reports
    BY <1>2, NamesDiffer, BoundsOfModeration DEF TypeInv, TypeOK
  <2>2. \A r \in Reports : outbox'[r] = outbox[r]
    BY <1>2, <2>1 DEF RecordDecisionEvent, Enqueue, TypeInv, TypeOK, Rows
  <2> QED BY <1>2, <2>2, OwedKept DEF RecordDecisionEvent, At
<1>3. CASE UNCHANGED <<report, outbox, worker>>
  BY <1>3, OwedKept DEF At
<1> QED BY <1>1, <1>2, <1>3 DEF Decide, ReceiverStep, ReceiveEvent, ReleaseEvent

\* The dispatcher: only a worker that is done with a row completes it.
LEMMA OutboxOwes ==
  ASSUME TypeInv, OwedInv, NEW w \in Workers,
         (\E e \in Rows : ClaimRow(w, e)) \/ CompleteRow(w) \/ FailRow(w)
  PROVE  OwedInv'
<1>1. /\ worker \in [Workers -> Handling] /\ outbox \in [Rows -> OutboxRow]
      /\ Reports \subseteq Rows
  BY DEF TypeInv, TypeOK, Rows
<1>2. ASSUME NEW e \in Rows, ClaimRow(w, e)
      PROVE  OwedInv'
  <2>1. /\ \A v \in Workers : v # w => worker'[v] = worker[v]
        /\ worker'[w].row = e /\ worker'[w].at # "done"
    <3>1. worker \in [Workers -> Worker]
      BY <1>1 DEF Handling
    <3> QED BY <1>2, <3>1 DEF ClaimRow, Worker
  <2>2. outbox[e].status # "none"
    BY <1>2 DEF ClaimRow, Due
  <2>3. /\ outbox'[e].status = "processing"
        /\ \A f \in Rows : f # e => outbox'[f] = outbox[f]
    BY <1>1, <1>2 DEF ClaimRow
  <2>4. UNCHANGED report
    BY <1>2 DEF ClaimRow
  <2> QED BY <1>1, <2>1, <2>2, <2>3, <2>4 DEF OwedInv, QueuedMeansOwed, At
<1>3. ASSUME NEW status \in {"processed", "dead_letter", "pending"}, Settle(w, status),
             status = "processed" => At(w, "done"), ~ At(w, "idle")
      PROVE  OwedInv'
  <2> DEFINE e == worker[w].row
  <2>1. e \in Rows
    BY <1>1, <1>3 DEF Handling, At
  <2>2. /\ \A f \in Rows : f # e => outbox'[f] = outbox[f]
        /\ outbox'[e] = outbox[e] \/ outbox'[e].status = status
    BY <1>1, <1>3, <2>1 DEF Settle, OutboxRow
  <2>3. /\ \A v \in Workers : v # w => worker'[v] = worker[v]
        /\ worker'[w].row = 0 /\ worker'[w].at = "idle"
    BY <1>1, <1>3 DEF Settle, Idle
  <2>4. UNCHANGED report /\ 0 \notin Reports
    BY <1>3, RowsDiffer DEF Settle, Rows
  <2>5. \A r \in Reports : \/ outbox'[r] = outbox[r]
                           \/ r = e /\ outbox'[r].status = status
    <3> HIDE DEF e
    <3>1. Reports \subseteq Rows
      BY <1>1
    <3> QED BY <2>1, <2>2, <3>1
  <2>6. e \in Reports => report[e].status # "none"
    BY DEF OwedInv
  <2>7. e \in Reports /\ status = "processed" => report[e].local # "queued"
    BY <1>3 DEF OwedInv
  <2> HIDE DEF e
  <2> QED BY <2>3, <2>4, <2>5, <2>6, <2>7 DEF OwedInv, QueuedMeansOwed, At
<1> QED BY <1>2, <1>3 DEF CompleteRow, FailRow, At

\* The handlers: whatever a delivery comes to, the report says so before its
\* worker is done.
LEMMA HandlersOwe ==
  ASSUME TypeInv, OwedInv, NEW w \in Workers,
         \/ HandlerThrows(w) \/ CloseReport(w) \/ CreateAtCrowdSource(w)
         \/ MarkReportSubmitted(w) \/ MarkReportDeliveryFailed(w)
         \/ FindReport(w) \/ (\E a \in Action : ClaimEnforcement(w, a))
         \/ PerformEffect(w) \/ RecordEffect(w) \/ DeleteEnforcement(w)
         \/ ApplyDecisionToReport(w)
  PROVE  OwedInv'
<1>1. /\ worker \in [Workers -> Worker] /\ worker[w] \in Handling
      /\ report \in [Reports -> Report]
  BY DEF TypeInv, TypeOK
<1>2. /\ UNCHANGED outbox
      /\ \A v \in Workers : v # w => worker'[v] = worker[v]
      /\ worker'[w].row = worker[w].row
  <2>1. UNCHANGED outbox
    BY DEF HandlerThrows, CloseReport, CreateAtCrowdSource, MarkReportSubmitted,
           MarkReportDeliveryFailed, FindReport, ClaimEnforcement, PerformEffect,
           RecordEffect, DeleteEnforcement, ApplyDecisionToReport
  <2>2. CASE \E l : Goto(w, l)
    BY <1>1, <2>1, <2>2 DEF Goto, Worker
  <2>3. CASE FindReport(w)
    <3>1. \/ \E l : Goto(w, l)
          \/ \E r \in Reports : \E t :
                  worker' = [worker EXCEPT ![w].at = "plan", ![w].rep = r, ![w].todo = t]
      BY <2>3 DEF FindReport
    <3>2. CASE \E r \in Reports : \E t :
                 worker' = [worker EXCEPT ![w].at = "plan", ![w].rep = r, ![w].todo = t]
      BY <1>1, <2>1, <3>2 DEF Worker
    <3> QED BY <2>2, <3>1, <3>2
  <2>4. CASE \E a \in Action : ClaimEnforcement(w, a)
    <3>1. \E a \in Action :
            \/ worker' = [worker EXCEPT ![w].at = "effect", ![w].act = a,
                                        ![w].todo = @ \ {a}]
            \/ worker' = [worker EXCEPT ![w].todo = @ \ {a}]
            \/ worker' = [worker EXCEPT ![w].at = "failed"]
      BY <2>4 DEF ClaimEnforcement, Goto
    <3> QED BY <1>1, <2>1, <3>1 DEF Worker
  <2> QED BY <2>2, <2>3, <2>4
          DEF HandlerThrows, CloseReport, CreateAtCrowdSource, MarkReportSubmitted,
              MarkReportDeliveryFailed, PerformEffect, RecordEffect, DeleteEnforcement,
              ApplyDecisionToReport
<1>3. CASE worker[w].row \in Reports
  <2>1. CASE UNCHANGED report /\ ~ At(w, "done")'
    BY <1>2, <2>1 DEF OwedInv, QueuedMeansOwed, At
  <2>2. ASSUME NEW r \in Reports, r = worker[w].row,
               report'[r].status = report[r].status, report'[r].local # "queued",
               \A q \in Reports : q # r => report'[q] = report[q]
        PROVE  OwedInv'
    BY <1>2, <2>2 DEF OwedInv, QueuedMeansOwed, At
  <2>3. CASE CloseReport(w) \/ MarkReportSubmitted(w) \/ MarkReportDeliveryFailed(w)
    <3> DEFINE r == worker[w].row
    <3>1. /\ report'[r].status = report[r].status /\ report'[r].local # "queued"
          /\ \A q \in Reports : q # r => report'[q] = report[q]
      BY <1>1, <1>3, <2>3 DEF CloseReport, MarkReportSubmitted, MarkReportDeliveryFailed,
                              Report
    <3> QED BY <1>3, <2>2, <3>1
  <2>4. CASE HandlerThrows(w) \/ CreateAtCrowdSource(w)
    BY <1>1, <2>1, <2>4 DEF HandlerThrows, CreateAtCrowdSource, Goto, At, Worker
  <2>5. worker[w].at \notin {"find", "plan", "effect", "record", "undo"}
    BY <1>1, <1>3, RowsDiffer DEF Handling, Enforcing
  <2> QED BY <2>3, <2>4, <2>5
          DEF FindReport, ClaimEnforcement, PerformEffect, RecordEffect, DeleteEnforcement,
              ApplyDecisionToReport, At
<1>4. CASE worker[w].row \notin Reports
  <2>1. CASE UNCHANGED report
    BY <1>2, <1>4, <2>1 DEF OwedInv, QueuedMeansOwed, At
  <2>2. CASE ApplyDecisionToReport(w) /\ ~ UNCHANGED report
    <3> DEFINE r == worker[w].rep
    <3>1. r \in Reports /\ report' = Answer(r, worker[w].row)
      BY <1>1, <2>2 DEF ApplyDecisionToReport, At, Handling, Enforcing
    <3>2. /\ report'[r].status # "none" /\ report'[r].local # "queued"
          /\ \A q \in Reports : q # r => report'[q] = report[q]
      BY <1>1, <3>1, AnswerSays
    <3> HIDE DEF r
    <3> QED BY <1>2, <1>4, <3>1, <3>2 DEF OwedInv, QueuedMeansOwed, At
  <2>3. worker[w].at \notin Delivering
    BY <1>1, <1>4 DEF Handling
  <2> QED BY <2>1, <2>2, <2>3
          DEF HandlerThrows, CloseReport, CreateAtCrowdSource, MarkReportSubmitted,
              MarkReportDeliveryFailed, FindReport, ClaimEnforcement, PerformEffect,
              RecordEffect, DeleteEnforcement, At, Delivering
<1> QED BY <1>3, <1>4

LEMMA OwedStep ==
  ASSUME TypeInv, OwedInv, [Next]_vars
  PROVE  OwedInv'
<1>1. ASSUME NEW e \in Rows, LeaseLapses(e)
      PROVE  OwedInv'
  <2>1. \A r \in Reports : outbox'[r].status = outbox[r].status
    BY <1>1 DEF LeaseLapses, TypeInv, TypeOK, OutboxRow, Rows
  <2> QED BY <1>1, <2>1 DEF LeaseLapses, OwedInv, QueuedMeansOwed, At
<1>2. CASE Die
  <2>1. UNCHANGED <<report, outbox>>
    BY <1>2 DEF Die
  <2>2. \A w \in Workers : \/ worker'[w] = worker[w]
                           \/ worker'[w].row = 0
    BY <1>2 DEF Die, Idle, TypeInv, TypeOK
  <2> QED BY <2>1, <2>2, RowsDiffer, OwedKept DEF At, Rows
<1>3. CASE UNCHANGED vars
  BY <1>3, OwedKept DEF vars, At
<1> QED BY <1>1, <1>2, <1>3, IntakeOwes, OutboxOwes, HandlersOwe
        DEF Next, DispatcherStep

\* A report that says "queued" still has its row to be delivered or looked at.
THEOREM QueuedIsOwed == Spec => []QueuedMeansOwed
<1>1. Init => OwedInv
  BY RowsDiffer DEF Init, OwedInv, QueuedMeansOwed, Idle, Rows
<1>2. TypeInv /\ OwedInv /\ [Next]_vars => OwedInv'
  BY OwedStep
<1>3. OwedInv => QueuedMeansOwed
  BY DEF OwedInv
<1> QED BY <1>1, <1>2, <1>3, InitTyped, NextTyped, PTL DEF Spec

-----------------------------------------------------------------------------
(* What a step may not do *)

\* Only the owner of a live lease settles a row, and only from "processing".
LEMMA SettledStep ==
  ASSUME TypeInv, [Next]_vars, NEW e \in Rows,
         outbox[e].status \in {"processed", "dead_letter"}
  PROVE  outbox'[e].status = outbox[e].status
<1>1. outbox \in [Rows -> OutboxRow]
  BY DEF TypeInv, TypeOK
<1>2. ASSUME NEW f \in Rows, Enqueue(f)
      PROVE  outbox'[e].status = outbox[e].status
  BY <1>1, <1>2, EnqueueTyped
<1>3. ASSUME NEW w \in Workers, NEW f \in Rows, ClaimRow(w, f)
      PROVE  outbox'[e].status = outbox[e].status
  <2>1. e # f
    BY <1>3 DEF ClaimRow, Due
  <2> QED BY <1>1, <1>3, <2>1 DEF ClaimRow
<1>4. ASSUME NEW w \in Workers, NEW status, Settle(w, status)
      PROVE  outbox'[e].status = outbox[e].status
  <2>1. CASE e = worker[w].row
    BY <1>4, <2>1 DEF Settle, OwnedLease
  <2>2. CASE e # worker[w].row
    BY <1>1, <1>4, <2>2 DEF Settle
  <2> QED BY <2>1, <2>2
<1>5. ASSUME NEW f \in Rows, LeaseLapses(f)
      PROVE  outbox'[e].status = outbox[e].status
  BY <1>1, <1>5 DEF LeaseLapses, OutboxRow
<1>6. ASSUME NEW x \in Receivers, RecordDecisionEvent(x)
      PROVE  outbox'[e].status = outbox[e].status
  <2>1. receiver[x] \in Rows
    BY <1>6, BoundsOfModeration DEF RecordDecisionEvent, TypeInv, TypeOK, Rows, Revisions
  <2> QED BY <1>2, <1>6, <2>1 DEF RecordDecisionEvent
<1>7. ASSUME NEW r \in Reports, CreateReport(r)
      PROVE  outbox'[e].status = outbox[e].status
  <2>1. Enqueue(r) /\ r \in Rows
    BY <1>7 DEF CreateReport, Rows
  <2> QED BY <1>2, <2>1
<1>8. CASE UNCHANGED outbox
  BY <1>8
<1> QED BY <1>3, <1>4, <1>5, <1>6, <1>7, <1>8, ZenonT(40)
        DEF Next, vars, Decide, ReceiverStep, ReceiveEvent, ReleaseEvent, DispatcherStep,
            CompleteRow, FailRow, HandlerThrows, CloseReport, CreateAtCrowdSource,
            MarkReportSubmitted, MarkReportDeliveryFailed, FindReport, ClaimEnforcement,
            PerformEffect, RecordEffect, DeleteEnforcement, ApplyDecisionToReport, Die

\* A worker that comes back late with a row another settled does not move it.
THEOREM SettledStays == Spec => SettledRowsStaySettled
<1>1. TypeInv /\ [Next]_vars =>
        [\A e \in Rows : outbox[e].status \in {"processed", "dead_letter"} =>
           outbox'[e].status = outbox[e].status]_vars
  BY SettledStep
<1> QED BY <1>1, InitTyped, NextTyped, PTL DEF Spec, SettledRowsStaySettled

\* An answer is written by ApplyDecisionToReport alone, over an older one.
LEMMA AnswerStep ==
  ASSUME TypeInv, [Next]_vars, NEW r \in Reports
  PROVE  /\ report'[r].revision >= report[r].revision
         /\ report[r].status \notin {"none", report'[r].status} =>
              /\ report'[r].revision > report[r].revision
              /\ report'[r].status =
                   LegacyStatusForOutcome(decided[report'[r].revision].outcome)
<1> DEFINE Forward ==
      /\ report'[r].revision >= report[r].revision
      /\ report[r].status \notin {"none", report'[r].status} =>
           /\ report'[r].revision > report[r].revision
           /\ report'[r].status =
                LegacyStatusForOutcome(decided[report'[r].revision].outcome)
<1>1. report \in [Reports -> Report] /\ report[r].revision \in Int
  <2>1. report \in [Reports -> Report]
    BY DEF TypeInv, TypeOK
  <2> QED BY <2>1 DEF Report
<1>2. ASSUME /\ report'[r].revision = report[r].revision
             /\ report[r].status \in {"none", report'[r].status}
      PROVE  Forward
  BY <1>1, <1>2
<1>3. ASSUME NEW w \in Workers, ApplyDecisionToReport(w)
      PROVE  Forward
  <2> DEFINE n == worker[w].row
             q == worker[w].rep
  <2>1. n \in Int /\ q \in Reports
    <3>1. worker[w] \in Handling /\ worker[w].at = "plan" /\ Revisions \subseteq Int
      BY <1>3, RowsDiffer DEF ApplyDecisionToReport, At, TypeInv
    <3> QED BY <3>1 DEF Handling, Enforcing
  <2>2. CASE report' = report
    BY <1>2, <2>2
  <2>3. CASE report' = Answer(q, n) /\ report[q].revision < n
    <3>1. CASE q = r
      <4>1. /\ report'[r].status = LegacyStatusForOutcome(decided[n].outcome)
            /\ report'[r].revision = n
        BY <1>1, <2>1, <2>3, <3>1, AnswerSays
      <4> HIDE DEF n, q
      <4> QED BY <1>1, <2>1, <2>3, <3>1, <4>1
    <3>2. CASE q # r
      <4>1. report'[r] = report[r]
        BY <1>1, <2>1, <2>3, <3>2, AnswerSays
      <4> QED BY <1>2, <4>1
    <3> QED BY <3>1, <3>2
  <2> QED BY <1>3, <2>2, <2>3 DEF ApplyDecisionToReport
<1>4. ASSUME NEW w \in Workers,
             CloseReport(w) \/ MarkReportSubmitted(w) \/ MarkReportDeliveryFailed(w)
      PROVE  Forward
  <2>1. /\ report'[r].revision = report[r].revision
        /\ report'[r].status = report[r].status
    BY <1>1, <1>4
       DEF CloseReport, MarkReportSubmitted, MarkReportDeliveryFailed, Report
  <2> QED BY <1>2, <2>1
<1>5. ASSUME NEW q \in Reports, CreateReport(q)
      PROVE  Forward
  <2>1. /\ report'[r].revision = report[r].revision
        /\ report[r].status \in {"none", report'[r].status}
    BY <1>1, <1>5 DEF CreateReport, Report
  <2> QED BY <1>2, <2>1
<1>6. ASSUME UNCHANGED report
      PROVE  Forward
  BY <1>2, <1>6
<1> HIDE DEF Forward
<1>7. Forward
  <2>1. ASSUME NEW w \in Workers, DispatcherStep(w)
        PROVE  Forward
    <3>1. CASE (\E e \in Rows : ClaimRow(w, e)) \/ CompleteRow(w) \/ FailRow(w)
               \/ HandlerThrows(w) \/ CreateAtCrowdSource(w)
      BY <1>6, <3>1 DEF ClaimRow, CompleteRow, FailRow, Settle, HandlerThrows,
                        CreateAtCrowdSource
    <3>2. CASE FindReport(w) \/ (\E a \in Action : ClaimEnforcement(w, a))
               \/ PerformEffect(w) \/ RecordEffect(w) \/ DeleteEnforcement(w)
      BY <1>6, <3>2 DEF FindReport, ClaimEnforcement, PerformEffect, RecordEffect,
                        DeleteEnforcement
    <3> QED BY <1>3, <1>4, <2>1, <3>1, <3>2 DEF DispatcherStep
  <2>2. CASE \/ \E d \in Decisions : Decide(d)
             \/ \E x \in Receivers : ReceiverStep(x)
             \/ \E e \in Rows : LeaseLapses(e)
             \/ Die
             \/ UNCHANGED vars
    BY <1>6, <2>2 DEF Decide, ReceiverStep, ReceiveEvent, RecordDecisionEvent,
                      ReleaseEvent, LeaseLapses, Die, vars
  <2> QED BY <1>5, <2>1, <2>2 DEF Next
<1> QED BY <1>7 DEF Forward

\* No delivery, redelivery or late revision takes a report back to an older answer.
THEOREM AnswersMoveForward == Spec => AnswersOnlyMoveForward
<1>1. TypeInv /\ [Next]_vars =>
        [\A r \in Reports :
           /\ report'[r].revision >= report[r].revision
           /\ report[r].status \notin {"none", report'[r].status} =>
                /\ report'[r].revision > report[r].revision
                /\ report'[r].status =
                     LegacyStatusForOutcome(decided[report'[r].revision].outcome)]_vars
  BY AnswerStep
<1> QED BY <1>1, InitTyped, NextTyped, PTL DEF Spec, AnswersOnlyMoveForward

-----------------------------------------------------------------------------
(* What a plan may ask for *)

\* Collapsing drops what another action absorbs, and leaves something to do.
LEMMA CollapseIsCoherent ==
  ASSUME NEW S \in SUBSET Action, S # {}
  PROVE  /\ Collapse(S) \subseteq S /\ Collapse(S) # {}
         /\ ~ {"suspend_courier", "reinstate_courier"} \subseteq Collapse(S)
         /\ "none" \in Collapse(S) => Collapse(S) = {"none"}
         /\ "suspend_courier" \in S => "suspend_courier" \in Collapse(S)
         /\ "reinstate_courier" \in S /\ "suspend_courier" \notin S =>
              "reinstate_courier" \in Collapse(S)
<1> DEFINE kept == IF "suspend_courier" \in S THEN S \ {"reinstate_courier"} ELSE S
<1>1. Collapse(S) = IF kept = {"none"} THEN kept ELSE kept \ {"none"}
  BY DEF Collapse
<1>2. kept \subseteq S /\ kept # {}
  OBVIOUS
<1>3. /\ ~ {"suspend_courier", "reinstate_courier"} \subseteq kept
      /\ "suspend_courier" \in S => "suspend_courier" \in kept
      /\ "reinstate_courier" \in S /\ "suspend_courier" \notin S =>
           "reinstate_courier" \in kept
  OBVIOUS
<1> HIDE DEF kept
<1>4. kept # {"none"} => kept \ {"none"} # {}
  BY <1>2
<1> QED BY <1>1, <1>2, <1>3, <1>4

\* Whatever is decided, the plan asks for something, never for a suspension and a
\* reinstatement at once, and "none" only alone; it leaves alone whoever is not a
\* courier, and a courier who is cleared is reinstated, unless a recommendation
\* in the same decision says to stop them.  About planEnforcement.
THEOREM PlanIsCoherent ==
  ASSUME NEW d \in Decision, NEW target \in EnforcementTargetType
  PROVE  LET plan == PlanEnforcement(d, target) IN
         /\ plan \subseteq Action /\ plan # {}
         /\ ~ {"suspend_courier", "reinstate_courier"} \subseteq plan
         /\ "none" \in plan => plan = {"none"}
         /\ target # "courier" => plan \subseteq {"manual_review", "none"}
         /\ target = "courier" /\ d.outcome = "no_violation" =>
              \/ "reinstate_courier" \in plan
              \/ "suspend_courier" \in plan /\ d.recommended \cap Stopping # {}
<1> DEFINE plan  == PlanEnforcement(d, target)
           asked == {ActionFor(r, target) : r \in d.recommended}
           all   == WithReinstateForNoViolation(d, target, asked)
<1>1. CASE d.recommended = {}
  <2>1. plan = PlanForOutcome(d, target)
    BY <1>1 DEF PlanEnforcement
  <2>2. \/ plan = {"manual_review"} \/ plan = {"none"}
        \/ plan = {"suspend_courier"} /\ target = "courier" /\ d.outcome = "violation"
        \/ plan = {"reinstate_courier"} /\ target = "courier"
    BY <2>1 DEF PlanForOutcome, SeverityFallback, Decision, Outcome
  <2>3. target = "courier" /\ d.outcome = "no_violation" => plan = {"reinstate_courier"}
    BY <2>1 DEF PlanForOutcome
  <2> QED BY <2>2, <2>3 DEF Action
<1>2. CASE d.recommended # {}
  <2>1. plan = Collapse(all)
    BY <1>2 DEF PlanEnforcement
  <2>2. /\ asked \subseteq Action /\ asked # {}
        /\ target # "courier" => asked \subseteq {"manual_review", "none"}
        /\ "suspend_courier" \in asked => d.recommended \cap Stopping # {}
    BY <1>2 DEF ActionFor, CourierAction, NonCourierAction, Action
  <2>3. /\ all \subseteq Action /\ all # {}
        /\ target # "courier" => all = asked
        /\ "suspend_courier" \in all => "suspend_courier" \in asked
        /\ target = "courier" /\ d.outcome = "no_violation" => "reinstate_courier" \in all
    <3> HIDE DEF asked
    <3> QED BY <2>2 DEF WithReinstateForNoViolation, Action
  <2> HIDE DEF all, asked, plan
  <2>4. /\ plan \subseteq all /\ plan # {}
        /\ ~ {"suspend_courier", "reinstate_courier"} \subseteq plan
        /\ "none" \in plan => plan = {"none"}
        /\ "suspend_courier" \in all => "suspend_courier" \in plan
        /\ "reinstate_courier" \in all /\ "suspend_courier" \notin all =>
             "reinstate_courier" \in plan
    BY <2>1, <2>3, CollapseIsCoherent
  <2>5. plan \subseteq Action /\ (target # "courier" => plan \subseteq {"manual_review", "none"})
    BY <2>2, <2>3, <2>4
  <2>6. target = "courier" /\ d.outcome = "no_violation" =>
          \/ "reinstate_courier" \in plan
          \/ "suspend_courier" \in plan /\ d.recommended \cap Stopping # {}
    BY <2>2, <2>3, <2>4
  <2> QED BY <2>4, <2>5, <2>6 DEF plan
<1> QED BY <1>1, <1>2
=============================================================================
