--------------------------- MODULE EnforcementPlan ---------------------------
(***************************************************************************)
(* What Moovo does about a moderation decision.  A pure table from the     *)
(* decision and the kind of its target to the set of actions to carry out; *)
(* the order of the actions and the reasons given for them are left out.   *)
(***************************************************************************)

\* The recommendations that stop an actor, and those that ask for nothing.
Stopping  == {"remove", "remove_or_restrict", "hide", "suspend_user"}
Permitting == {"allow", "no_action", "no_global_effect"}

\* Recommendations for which Moovo has no lever: a human is told.
ForAHuman == {"label", "allow_with_label", "age_gate", "reduce_distribution",
              "freeze_transaction", "request_changes", "request_more_context",
              "hold", "local_manual_review", "keep_restricted_temporarily",
              "escalate", "specialist_queue", "legal_queue", "safety_queue"}

RecommendedAction == Stopping \cup Permitting \cup ForAHuman \cup {"restore"}

Severity == {"low", "medium", "high", "critical"}

Outcome == {"violation", "no_violation", "insufficient_context", "inconclusive",
            "escalated", "content_unavailable", "duplicate", "unrecognised"}

Action == {"suspend_courier", "reinstate_courier", "manual_review", "none"}

EnforcementTargetType == {"courier", "customer", "delivery"}

\* "provisional" also stands for a superseded decision: neither is terminal.
Decision == [outcome     : Outcome,
             status      : {"final", "corrected", "provisional"},
             recommended : SUBSET RecommendedAction,
             findings    : SUBSET Severity]

-----------------------------------------------------------------------------

CourierAction(recommended) ==
  IF recommended \in Stopping THEN "suspend_courier"
  ELSE IF recommended \in Permitting THEN "none"
  ELSE IF recommended = "restore" THEN "reinstate_courier"
  ELSE "manual_review"

NonCourierAction(recommended) ==
  IF recommended \in Permitting THEN "none" ELSE "manual_review"

ActionFor(recommended, target) ==
  IF target = "courier" THEN CourierAction(recommended)
                        ELSE NonCourierAction(recommended)

\* The highest severity among the findings suspends when it is exactly "high".
SeverityFallback(findings) ==
  IF "high" \in findings /\ "critical" \notin findings
  THEN "suspend_courier" ELSE "manual_review"

WithReinstateForNoViolation(decision, target, actions) ==
  IF decision.outcome = "no_violation" /\ target = "courier"
  THEN actions \cup {"reinstate_courier"} ELSE actions

\* A suspension absorbs a reinstatement; "none" stands only alone.
Collapse(actions) ==
  LET kept == IF "suspend_courier" \in actions
              THEN actions \ {"reinstate_courier"} ELSE actions
  IN  IF kept = {"none"} THEN kept ELSE kept \ {"none"}

PlanForOutcome(decision, target) ==
  CASE decision.outcome = "violation" ->
         {IF target = "courier" THEN SeverityFallback(decision.findings)
                                ELSE "manual_review"}
    [] decision.outcome = "no_violation" ->
         {IF target = "courier" THEN "reinstate_courier" ELSE "none"}
    [] decision.outcome \in {"content_unavailable", "duplicate"} -> {"none"}
    [] OTHER -> {"manual_review"}

PlanEnforcement(decision, target) ==
  IF decision.recommended = {} THEN PlanForOutcome(decision, target)
  ELSE Collapse(WithReinstateForNoViolation(decision, target,
                  {ActionFor(r, target) : r \in decision.recommended}))

-----------------------------------------------------------------------------
(* The two status axes of a report whose case has been decided *)

LegacyStatusForOutcome(outcome) ==
  CASE outcome = "violation"    -> "resolved"
    [] outcome = "no_violation" -> "dismissed"
    [] OTHER                    -> "reviewed"

\* Mutant: the two axes are swapped.
LegacyStatusForDecision(decision) == LegacyStatusForOutcome(decision.outcome)

LocalStatusForDecision(decision) ==
  IF decision.status \in {"final", "corrected"} THEN "closed" ELSE "submitted"

=============================================================================
