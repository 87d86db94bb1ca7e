---------------------------- MODULE BookingProofs ----------------------------
(***************************************************************************)
(* What holds of Booking for every set of quotes, keys, requests and       *)
(* reconcilers, and that it implements Fulfilment, proved with TLAPS.      *)
(***************************************************************************)
EXTENDS Booking, TLAPS

-----------------------------------------------------------------------------
(* Typing.  What a task holds depends on where it stands: the claim of a   *)
(* carrier operation, that of a courier's booking, or a request of its own *)
(* that has not been claimed.                                              *)

CarrierClaim == [op : Ops, quote : CarrierQuotes, key : Keys \cup {None}]
CourierClaim == [op : {0}, quote : CourierQuotes, key : Keys \cup {None}]
OwnClaim     == [op : {0}, quote : CarrierQuotes, key : Keys \cup {None}]

\* The task is about an operation of the carrier.
Carrying(st) ==
  \/ st.at \in {"call", "reply", "rejected", "lookup", "release"}
  \/ st.at = "commit" /\ st.claim.op # 0

Fits(t, st) ==
  /\ Carrying(st) => st.claim \in CarrierClaim
  /\ st.at = "commit" /\ st.claim.op = 0 => st.claim \in CourierClaim
  /\ \/ st.at = "claim"
     \/ t \in Requests /\ st.at \in {"reconcile", "take", "lookup", "release", "retake"}
     => st.own \in OwnClaim
  /\ st.at \in {"claim", "retake"} => t \in Requests

AttemptFits ==
  /\ attempt.status = "none" => attempt.claim = NoClaim
  /\ attempt.status \in {"unknown", "failed"} => attempt.claim \in CarrierClaim

CarrierFits ==
  \A n \in Ops : carrier[n].status # "none" => carrier[n].quote \in CarrierQuotes

TypeInv ==
  /\ TypeOK
  /\ \A t \in Tasks : Fits(t, task[t])
  /\ AttemptFits /\ CarrierFits

\* A task's step leaves the others alone.
LEMMA BecomeTyped ==
  ASSUME TypeInv, NEW t \in Tasks, NEW st \in TaskOf(BookingLabels), Fits(t, st),
         Become(t, st)
  PROVE  /\ task' \in [Tasks -> TaskOf(BookingLabels)]
         /\ \A u \in Tasks : Fits(u, task'[u])
         /\ \A u \in Tasks : u # t => task'[u] = task[u]
         /\ task'[t] = st
<1>1. task \in [Tasks -> TaskOf(BookingLabels)] /\ \A u \in Tasks : Fits(u, task[u])
  BY DEF TypeInv, TypeOK
<1>2. /\ task' \in [Tasks -> TaskOf(BookingLabels)]
      /\ \A u \in Tasks : u # t => task'[u] = task[u]
      /\ task'[t] = st
  BY <1>1 DEF Become
<1> QED BY <1>1, <1>2

LEMMA ClaimsDiffer ==
  /\ CarrierClaim \cup CourierClaim \cup OwnClaim \cup {NoClaim} \subseteq Claim
  /\ \A c \in CarrierClaim : c.op \in Ops /\ c.op \in Nat /\ c.op # 0
                             /\ c.quote \in CarrierQuotes
  /\ \A c \in CourierClaim : c.op = 0 /\ c.quote \in CourierQuotes
  /\ CarrierClaim \cup CourierClaim \subseteq Job
  BY BoundsAreCounts
     DEF CarrierClaim, CourierClaim, OwnClaim, NoClaim, Claim, Job, Ops, Quotes

LEMMA IdleTyped ==
  /\ Idle \in TaskOf(BookingLabels) /\ \A t : Fits(t, Idle)
  /\ ~ Carrying(Idle) /\ Idle.at = "idle"
  BY ClaimsDiffer DEF Idle, TaskOf, BookingLabels, Fits, Carrying

\* Where a step leads a task that keeps what it holds.
LEMMA GotoTyped ==
  ASSUME TypeInv, NEW t \in Tasks, NEW label \in BookingLabels, Goto(t, label),
         Fits(t, [task[t] EXCEPT !.at = label])
  PROVE  /\ task' \in [Tasks -> TaskOf(BookingLabels)]
         /\ \A u \in Tasks : Fits(u, task'[u])
         /\ \A u \in Tasks : u # t => task'[u] = task[u]
         /\ task'[t] = [task[t] EXCEPT !.at = label]
<1> DEFINE st == [task[t] EXCEPT !.at = label]
<1>1. task[t] \in TaskOf(BookingLabels)
  BY DEF TypeInv, TypeOK
<1>2. st \in TaskOf(BookingLabels)
  BY <1>1 DEF TaskOf
<1>3. Become(t, st) /\ Fits(t, st)
  BY DEF Goto
<1> HIDE DEF st
<1>4. /\ task' \in [Tasks -> TaskOf(BookingLabels)]
      /\ \A u \in Tasks : Fits(u, task'[u])
      /\ \A u \in Tasks : u # t => task'[u] = task[u]
      /\ task'[t] = st
  BY <1>2, <1>3, BecomeTyped
<1> QED BY <1>4 DEF st

LEMMA FinishTyped ==
  ASSUME TypeInv, NEW t \in Tasks, Finish(t)
  PROVE  /\ task' \in [Tasks -> TaskOf(BookingLabels)]
         /\ \A u \in Tasks : Fits(u, task'[u])
         /\ \A u \in Tasks : u # t => task'[u] = task[u]
         /\ task'[t] = Idle
  BY IdleTyped, BecomeTyped DEF Finish

LEMMA HoldTyped ==
  ASSUME TypeInv, NEW t \in Tasks, NEW label \in {"call", "commit"}, NEW c,
         c \in CarrierClaim \/ (label = "commit" /\ c \in CourierClaim),
         Hold(t, label, c)
  PROVE  /\ task' \in [Tasks -> TaskOf(BookingLabels)]
         /\ \A u \in Tasks : Fits(u, task'[u])
         /\ \A u \in Tasks : u # t => task'[u] = task[u]
         /\ task'[t].at = label /\ task'[t].claim = c
<1> DEFINE st == [Idle EXCEPT !.at = label, !.claim = c]
<1>1. c \in Claim /\ NoClaim \in Claim
  BY ClaimsDiffer
<1>2. st.at = label /\ st.claim = c /\ st.own = NoClaim
  BY DEF Idle
<1>3. st \in TaskOf(BookingLabels)
  BY <1>1, IdleTyped DEF TaskOf, BookingLabels
<1>4. Fits(t, st) /\ st.at = label /\ st.claim = c
  BY <1>2, ClaimsDiffer DEF Fits, Carrying
<1>5. Become(t, st)
  BY DEF Hold
<1> HIDE DEF st
<1> QED BY <1>3, <1>4, <1>5, BecomeTyped

LEMMA AfterFailureTyped ==
  ASSUME TypeInv, NEW t \in Tasks, AfterFailure(t), task[t].at \in {"reconcile", "release"}
  PROVE  /\ task' \in [Tasks -> TaskOf(BookingLabels)]
         /\ \A u \in Tasks : Fits(u, task'[u])
         /\ \A u \in Tasks : u # t => task'[u] = task[u]
         /\ ~ Carrying(task'[t]) /\ task'[t].at \in {"idle", "retake"}
<1>1. CASE t \in Requests
  <2> DEFINE st == [task[t] EXCEPT !.at = "retake", !.claim = NoClaim]
  <2>1. task[t] \in TaskOf(BookingLabels) /\ Fits(t, task[t])
    BY DEF TypeInv, TypeOK
  <2>2. st \in TaskOf(BookingLabels)
    BY <2>1, ClaimsDiffer DEF TaskOf, BookingLabels
  <2>3. st.at = "retake" /\ st.own = task[t].own
    BY <2>1 DEF TaskOf
  <2>4. Fits(t, st) /\ ~ Carrying(st)
    BY <1>1, <2>1, <2>3 DEF Fits, Carrying
  <2>5. Become(t, st)
    BY <1>1 DEF AfterFailure
  <2> HIDE DEF st
  <2> QED BY <2>2, <2>3, <2>4, <2>5, BecomeTyped
<1>2. CASE t \notin Requests
  BY <1>2, FinishTyped, IdleTyped DEF AfterFailure
<1> QED BY <1>1, <1>2

LEMMA InitTyped == Init => TypeInv
<1> SUFFICES ASSUME Init PROVE TypeInv
  OBVIOUS
<1>1. 0 \in 0 .. MaxCrashes /\ NoClaim \in Claim
  BY BoundsAreCounts, ClaimsDiffer
<1>2. TypeOK
  BY <1>1, IdleTyped DEF Init, TypeOK, Shipment, QuoteStatus, Attempt, Operation
<1> QED BY <1>2, IdleTyped DEF Init, TypeInv, AttemptFits, CarrierFits

\* What markAttemptFailed may write.
LEMMA MarkTyped ==
  ASSUME TypeInv, NEW n, MarkAttemptFailed(n)
  PROVE  /\ attempt' \in Attempt /\ AttemptFits' /\ attempt'.claim = attempt.claim
         /\ \/ attempt' = attempt
            \/ /\ attempt.status = "unknown" /\ attempt.claim.op = n
               /\ attempt'.status = "failed" /\ ~ attempt'.old
<1>1. attempt \in Attempt /\ AttemptFits
  BY DEF TypeInv, TypeOK
<1>2. CASE attempt' = attempt
  BY <1>1, <1>2 DEF AttemptFits
<1>3. CASE /\ attempt.status = "unknown" /\ attempt.claim.op = n
           /\ attempt' = [attempt EXCEPT !.status = "failed", !.old = FALSE]
  <2>1. /\ attempt' \in Attempt /\ attempt'.claim = attempt.claim
        /\ attempt'.status = "failed" /\ ~ attempt'.old
    BY <1>1, <1>3 DEF Attempt
  <2> QED BY <1>1, <1>3, <2>1 DEF AttemptFits
<1> QED BY <1>2, <1>3 DEF MarkAttemptFailed

\* The claim of a request, taken under an operation of its own.
LEMMA ClaimedTyped ==
  ASSUME NEW own \in OwnClaim, NEW n \in Ops
  PROVE  /\ [own EXCEPT !.op = n] \in CarrierClaim
         /\ Claimed([own EXCEPT !.op = n]) \in Attempt
         /\ [own EXCEPT !.op = n].op = n
<1> DEFINE c == [own EXCEPT !.op = n]
<1>1. c \in CarrierClaim /\ c.op = n
  BY DEF OwnClaim, CarrierClaim
<1>2. c \in Claim
  BY <1>1, ClaimsDiffer
<1> HIDE DEF c
<1>3. Claimed(c) \in Attempt
  BY <1>2 DEF Claimed, Attempt
<1> QED BY <1>1, <1>3 DEF c

\* The transaction of the job: it writes nothing, or it appends the claim as a
\* job and completes the attempt under the claim's price.
LEMMA WriteTyped ==
  ASSUME TypeInv, NEW c \in CarrierClaim \cup CourierClaim, NEW row \in Attempt,
         WriteJob(c, row)
  PROVE  /\ shipment' \in Shipment /\ quote' \in [Quotes -> QuoteStatus]
         /\ attempt' \in Attempt /\ jobs' \in Seq(Job) /\ AttemptFits'
         /\ \/ UNCHANGED <<jobs, quote, shipment, attempt>> /\ WithKey(c.key) # {}
            \/ /\ WithKey(c.key) = {}
               /\ jobs' = Append(jobs, c)
               /\ attempt'.status = "completed" /\ ~ attempt'.old
               /\ attempt'.claim = [row.claim EXCEPT !.quote = c.quote]
<1>1. /\ shipment \in Shipment /\ quote \in [Quotes -> QuoteStatus]
      /\ attempt \in Attempt /\ jobs \in Seq(Job) /\ AttemptFits
  BY DEF TypeInv, TypeOK
<1>2. CASE WithKey(c.key) # {}
  BY <1>1, <1>2 DEF WriteJob, AttemptFits
<1>3. CASE WithKey(c.key) = {}
  <2>1. c \in Job /\ c.quote \in Quotes /\ Len(jobs) + 1 \in Nat /\ row.claim \in Claim
    BY <1>1, ClaimsDiffer DEF Quotes, Attempt
  <2>2. jobs' = Append(jobs, c) /\ jobs' \in Seq(Job)
    BY <1>1, <1>3, <2>1, SMTT(30) DEF WriteJob
  <2>3. shipment' \in Shipment
    BY <1>3, <2>1 DEF WriteJob, Shipment
  <2>4. quote' \in [Quotes -> QuoteStatus]
    <3>1. quote' = [quote EXCEPT ![c.quote] =
                      IF @ \in {"active", "selected"} THEN "selected" ELSE @]
      BY <1>3 DEF WriteJob
    <3> QED BY <1>1, <2>1, <3>1 DEF QuoteStatus
  <2> DEFINE k == [row.claim EXCEPT !.quote = c.quote]
  <2>5. attempt' = [row EXCEPT !.status = "completed", !.claim = k,
                               !.job = Len(jobs) + 1, !.old = FALSE]
    BY <1>3 DEF WriteJob, Attempt
  <2>7. k \in Claim
    BY <2>1 DEF Claim
  <2>8. /\ attempt' \in Attempt /\ attempt'.status = "completed"
        /\ ~ attempt'.old /\ attempt'.claim = k
    <3> HIDE DEF k
    <3> QED BY <2>1, <2>5, <2>7 DEF Attempt
  <2>9. AttemptFits'
    <3> HIDE DEF k
    <3> QED BY <2>8 DEF AttemptFits
  <2> QED BY <1>3, <2>2, <2>3, <2>4, <2>8, <2>9
<1> QED BY <1>2, <1>3

\* The steps of a task, the row or the operation they write.
LEMMA StepTyped ==
  ASSUME TypeInv, NEW t \in Tasks,
         BookingStep(t) \/ TickStarts(t) \/ CancelRead(t) \/ CreateShipment(t) \/ Die(t)
  PROVE  TypeInv'
<1>a. /\ task[t] \in TaskOf(BookingLabels) /\ Fits(t, task[t])
      /\ task[t].own \in Claim /\ task[t].claim \in Claim
  BY DEF TypeInv, TypeOK, TaskOf
<1>b. TypeOK /\ AttemptFits /\ CarrierFits
  BY DEF TypeInv
<1> USE DEF TypeInv, TypeOK
<1>1. CASE QuoteShipment(t)
  <2>1. task' \in [Tasks -> TaskOf(BookingLabels)] /\ \A u \in Tasks : Fits(u, task'[u])
    BY <1>1, FinishTyped DEF QuoteShipment
  <2>2. PICK c \in CourierQuotes : LandQuotes(c)
    BY <1>1 DEF QuoteShipment
  <2>3. quote' \in [Quotes -> QuoteStatus] /\ shipment' \in Shipment
    BY <2>2 DEF LandQuotes, QuoteStatus, Shipment
  <2> QED BY <1>1, <2>1, <2>3 DEF QuoteShipment, AttemptFits, CarrierFits
<1>2. CASE CancelWrite(t)
  <2>1. task' \in [Tasks -> TaskOf(BookingLabels)] /\ \A u \in Tasks : Fits(u, task'[u])
    BY <1>2, FinishTyped DEF CancelWrite
  <2>2. shipment' \in Shipment
    BY <1>2 DEF CancelWrite, Shipment
  <2> QED BY <1>2, <2>1, <2>2 DEF CancelWrite, AttemptFits, CarrierFits
<1>3. CASE InsertClaim(t)
  <2>1. task[t].at = "claim" /\ task[t].own \in OwnClaim /\ t \in Requests
    BY <1>3, <1>a DEF InsertClaim, At, Fits
  <2>2. CASE attempt.status = "none" /\ task[t].own.key \notin ForeignKeys
    <3> DEFINE c == [task[t].own EXCEPT !.op = 1]
    <3>1. c \in CarrierClaim /\ Claimed(c) \in Attempt
      <4>1. 1 \in Ops
        BY BoundsAreCounts DEF Ops
      <4> QED BY <2>1, <4>1, ClaimedTyped
    <3>2. attempt' = Claimed(c) /\ Hold(t, "call", c)
      BY <1>3, <2>2 DEF InsertClaim
    <3> HIDE DEF c
    <3>3. task' \in [Tasks -> TaskOf(BookingLabels)] /\ \A u \in Tasks : Fits(u, task'[u])
      BY <3>1, <3>2, HoldTyped
    <3>4. attempt' \in Attempt /\ AttemptFits'
      BY <3>1, <3>2 DEF AttemptFits, Claimed
    <3> QED BY <1>3, <3>3, <3>4 DEF InsertClaim, CarrierFits
  <2>3. CASE ~ (attempt.status = "none" /\ task[t].own.key \notin ForeignKeys)
    <3>1. /\ Goto(t, "reconcile") /\ attempt' = attempt
          /\ Fits(t, [task[t] EXCEPT !.at = "reconcile"])
      BY <1>3, <1>a, <2>1, <2>3 DEF InsertClaim, Fits, Carrying, TaskOf
    <3>2. task' \in [Tasks -> TaskOf(BookingLabels)] /\ \A u \in Tasks : Fits(u, task'[u])
      BY <3>1, GotoTyped DEF BookingLabels
    <3> QED BY <1>3, <3>1, <3>2 DEF InsertClaim, AttemptFits, CarrierFits
  <2> QED BY <2>2, <2>3
<1>4. CASE RetakeClaim(t)
  <2>1. task[t].at = "retake" /\ task[t].own \in OwnClaim
    BY <1>4, <1>a DEF RetakeClaim, At, Fits
  <2>2. CASE attempt.status = "failed" /\ task[t].own.key \notin ForeignKeys
    <3> DEFINE n == attempt.claim.op + 1
               c == [task[t].own EXCEPT !.op = n]
    <3>1. n \in Ops
      <4>1. attempt.claim.op \in Ops /\ attempt.claim.op < MaxAttempts
        BY <1>4, <2>2, <1>b, ClaimsDiffer DEF RetakeClaim, AttemptFits
      <4> QED BY <4>1, BoundsAreCounts DEF Ops
    <3>2. c \in CarrierClaim /\ Claimed(c) \in Attempt
      <4> HIDE DEF n
      <4> QED BY <2>1, <3>1, ClaimedTyped
    <3>3. attempt' = Claimed(c) /\ Hold(t, "call", c)
      BY <1>4, <2>2 DEF RetakeClaim
    <3> HIDE DEF c
    <3>4. task' \in [Tasks -> TaskOf(BookingLabels)] /\ \A u \in Tasks : Fits(u, task'[u])
      BY <3>2, <3>3, HoldTyped
    <3>5. attempt' \in Attempt /\ AttemptFits'
      BY <3>2, <3>3 DEF AttemptFits, Claimed
    <3> QED BY <1>4, <3>4, <3>5 DEF RetakeClaim, CarrierFits
  <2>3. CASE ~ (attempt.status = "failed" /\ task[t].own.key \notin ForeignKeys)
    <3>1. Finish(t) /\ attempt' = attempt
      BY <1>4, <2>3 DEF RetakeClaim
    <3>2. task' \in [Tasks -> TaskOf(BookingLabels)] /\ \A u \in Tasks : Fits(u, task'[u])
      BY <3>1, FinishTyped
    <3> QED BY <1>4, <3>1, <3>2 DEF RetakeClaim, AttemptFits, CarrierFits
  <2> QED BY <2>2, <2>3
<1>5. CASE CallCarrier(t)
  <2>1. task[t].claim \in CarrierClaim
    BY <1>5, <1>a DEF CallCarrier, At, Fits, Carrying
  <2>2. Goto(t, "reply") /\ Fits(t, [task[t] EXCEPT !.at = "reply"])
    BY <1>5, <1>a DEF CallCarrier, At, Fits, Carrying, TaskOf
  <2>3. task' \in [Tasks -> TaskOf(BookingLabels)] /\ \A u \in Tasks : Fits(u, task'[u])
    BY <2>2, GotoTyped DEF BookingLabels
  <2>4. [status |-> "sent", quote |-> task[t].claim.quote] \in Operation
    BY <2>1, ClaimsDiffer DEF Operation, Quotes
  <2>5. carrier' \in [Ops -> Operation] /\ CarrierFits'
    BY <1>5, <2>1, <2>4, ClaimsDiffer DEF CallCarrier, CarrierFits
  <2> QED BY <1>5, <2>3, <2>5 DEF CallCarrier, AttemptFits
<1>6. CASE CarrierReplies(t)
  <2>1. \/ Goto(t, "commit") \/ Goto(t, "rejected") \/ Finish(t)
    BY <1>6 DEF CarrierReplies
  <2>2. /\ Fits(t, [task[t] EXCEPT !.at = "commit"])
        /\ Fits(t, [task[t] EXCEPT !.at = "rejected"])
    BY <1>6, <1>a, ClaimsDiffer DEF CarrierReplies, At, Fits, Carrying, TaskOf
  <2>3. task' \in [Tasks -> TaskOf(BookingLabels)] /\ \A u \in Tasks : Fits(u, task'[u])
    BY <2>1, <2>2, GotoTyped, FinishTyped DEF BookingLabels
  <2> QED BY <1>6, <2>3 DEF CarrierReplies, AttemptFits, CarrierFits
<1>7. CASE ReleaseRejected(t)
  <2>1. task' \in [Tasks -> TaskOf(BookingLabels)] /\ \A u \in Tasks : Fits(u, task'[u])
    BY <1>7, FinishTyped DEF ReleaseRejected
  <2>2. attempt' \in Attempt /\ AttemptFits'
    BY <1>7, MarkTyped DEF ReleaseRejected
  <2> QED BY <1>7, <2>1, <2>2 DEF ReleaseRejected, CarrierFits
<1>8. CASE ReadAttempt(t)
  <2>1. \/ Goto(t, "take") \/ AfterFailure(t) \/ Finish(t)
    BY <1>8 DEF ReadAttempt
  <2>2. Fits(t, [task[t] EXCEPT !.at = "take"]) /\ task[t].at = "reconcile"
    BY <1>8, <1>a DEF ReadAttempt, At, Fits, Carrying, TaskOf
  <2>3. task' \in [Tasks -> TaskOf(BookingLabels)] /\ \A u \in Tasks : Fits(u, task'[u])
    BY <2>1, <2>2, GotoTyped, AfterFailureTyped, FinishTyped DEF BookingLabels
  <2> QED BY <1>8, <2>3 DEF ReadAttempt, AttemptFits, CarrierFits
<1>9. CASE TakeLookup(t)
  <2>1. CASE attempt.status = "unknown" /\ attempt.old
    <3> DEFINE st == [task[t] EXCEPT !.at = "lookup", !.claim = attempt.claim]
    <3>1. attempt.claim \in CarrierClaim /\ attempt.claim \in Claim
      BY <1>b, <2>1, ClaimsDiffer DEF AttemptFits
    <3>2. /\ st \in TaskOf(BookingLabels)
          /\ st.at = "lookup" /\ st.own = task[t].own /\ st.claim = attempt.claim
      BY <1>a, <3>1 DEF TaskOf, BookingLabels
    <3>3. Become(t, st) /\ attempt' = [attempt EXCEPT !.old = FALSE]
      BY <1>9, <2>1 DEF TakeLookup
    <3> HIDE DEF st
    <3>4. Fits(t, st)
      BY <1>9, <1>a, <3>1, <3>2 DEF TakeLookup, At, Fits, Carrying
    <3>5. task' \in [Tasks -> TaskOf(BookingLabels)] /\ \A u \in Tasks : Fits(u, task'[u])
      BY <3>2, <3>3, <3>4, BecomeTyped
    <3>6. attempt' \in Attempt /\ AttemptFits'
      BY <1>b, <3>3 DEF Attempt, AttemptFits
    <3> QED BY <1>9, <3>5, <3>6 DEF TakeLookup, CarrierFits
  <2>2. CASE ~ (attempt.status = "unknown" /\ attempt.old)
    <3>1. Finish(t) /\ attempt' = attempt
      BY <1>9, <2>2 DEF TakeLookup
    <3>2. task' \in [Tasks -> TaskOf(BookingLabels)] /\ \A u \in Tasks : Fits(u, task'[u])
      BY <3>1, FinishTyped
    <3> QED BY <1>9, <3>1, <3>2 DEF TakeLookup, AttemptFits, CarrierFits
  <2> QED BY <2>1, <2>2
<1>10. CASE LookupFails(t)
  <2>1. task' \in [Tasks -> TaskOf(BookingLabels)] /\ \A u \in Tasks : Fits(u, task'[u])
    BY <1>10, FinishTyped DEF LookupFails
  <2> QED BY <1>10, <2>1 DEF LookupFails, AttemptFits, CarrierFits
<1>11. CASE LookupAnswers(t)
  <2>1. task[t].claim \in CarrierClaim
    BY <1>11, <1>a DEF LookupAnswers, At, Fits, Carrying
  <2>2. Fits(t, [task[t] EXCEPT !.at = "release"])
    BY <1>11, <1>a DEF LookupAnswers, At, Fits, Carrying, TaskOf
  <2>3. \/ Hold(t, "commit", task[t].claim)
        \/ Goto(t, "release")
    BY <1>11 DEF LookupAnswers
  <2>4. task' \in [Tasks -> TaskOf(BookingLabels)] /\ \A u \in Tasks : Fits(u, task'[u])
    BY <2>1, <2>2, <2>3, HoldTyped, GotoTyped DEF BookingLabels
  <2> QED BY <1>11, <2>4 DEF LookupAnswers, AttemptFits, CarrierFits
<1>12. CASE ReleaseUnbooked(t)
  <2>1. task' \in [Tasks -> TaskOf(BookingLabels)] /\ \A u \in Tasks : Fits(u, task'[u])
    BY <1>12, AfterFailureTyped DEF ReleaseUnbooked, At
  <2>2. attempt' \in Attempt /\ AttemptFits'
    BY <1>12, MarkTyped DEF ReleaseUnbooked
  <2> QED BY <1>12, <2>1, <2>2 DEF ReleaseUnbooked, CarrierFits
<1>13. CASE RefuseInProgress(t)
  <2>1. task' \in [Tasks -> TaskOf(BookingLabels)] /\ \A u \in Tasks : Fits(u, task'[u])
    BY <1>13, FinishTyped DEF RefuseInProgress
  <2> QED BY <1>13, <2>1 DEF RefuseInProgress, AttemptFits, CarrierFits
<1>14. CASE TickStarts(t)
  <2>1. Goto(t, "reconcile") /\ Fits(t, [task[t] EXCEPT !.at = "reconcile"])
    BY <1>14, <1>a, TasksDiffer DEF TickStarts, At, Fits, Carrying, TaskOf
  <2>2. task' \in [Tasks -> TaskOf(BookingLabels)] /\ \A u \in Tasks : Fits(u, task'[u])
    BY <2>1, GotoTyped DEF BookingLabels
  <2> QED BY <1>14, <2>2 DEF TickStarts, AttemptFits, CarrierFits
<1>15. CASE CancelRead(t)
  <2>1. Goto(t, "cancel") /\ Fits(t, [task[t] EXCEPT !.at = "cancel"])
    BY <1>15, <1>a DEF CancelRead, At, Fits, Carrying, TaskOf
  <2>2. task' \in [Tasks -> TaskOf(BookingLabels)] /\ \A u \in Tasks : Fits(u, task'[u])
    BY <2>1, GotoTyped DEF BookingLabels
  <2> QED BY <1>15, <2>2 DEF CancelRead, AttemptFits, CarrierFits
<1>16. CASE CreateShipment(t)
  <2>1. Goto(t, "quotes") /\ Fits(t, [task[t] EXCEPT !.at = "quotes"])
    BY <1>16, <1>a DEF CreateShipment, At, Fits, Carrying, TaskOf
  <2>2. task' \in [Tasks -> TaskOf(BookingLabels)] /\ \A u \in Tasks : Fits(u, task'[u])
    BY <2>1, GotoTyped DEF BookingLabels
  <2>3. shipment' \in Shipment
    BY <1>16 DEF CreateShipment, Shipment
  <2> QED BY <1>16, <2>2, <2>3 DEF CreateShipment, AttemptFits, CarrierFits
<1>17. CASE Die(t)
  <2>1. task' \in [Tasks -> TaskOf(BookingLabels)] /\ \A u \in Tasks : Fits(u, task'[u])
    BY <1>17, FinishTyped DEF Die
  <2>2. crashes' \in 0 .. MaxCrashes
    BY <1>17, BoundsAreCounts DEF Die
  <2> QED BY <1>17, <2>1, <2>2 DEF Die, AttemptFits, CarrierFits
<1>18. CASE CommitCarrier(t)
  <2>1. task' \in [Tasks -> TaskOf(BookingLabels)] /\ \A u \in Tasks : Fits(u, task'[u])
    BY <1>18, FinishTyped DEF CommitCarrier
  <2>2. /\ attempt' \in Attempt /\ AttemptFits' /\ jobs' \in Seq(Job)
        /\ shipment' \in Shipment /\ quote' \in [Quotes -> QuoteStatus]
    BY <1>18, <1>a, WriteTyped DEF CommitCarrier, At, Fits, Carrying
  <2> QED BY <1>18, <2>1, <2>2 DEF CommitCarrier, CarrierFits
<1>19. CASE CommitCourier(t)
  <2>1. task' \in [Tasks -> TaskOf(BookingLabels)] /\ \A u \in Tasks : Fits(u, task'[u])
    BY <1>19, FinishTyped DEF CommitCourier
  <2>2. CASE Admitted(task[t].claim) /\ WriteJob(task[t].claim, Claimed(task[t].claim))
    <3>1. /\ attempt' \in Attempt /\ AttemptFits' /\ jobs' \in Seq(Job)
          /\ shipment' \in Shipment /\ quote' \in [Quotes -> QuoteStatus]
      <4>1. task[t].claim \in CourierClaim
        BY <1>19, <1>a DEF CommitCourier, At, Fits
      <4>2. Claimed(task[t].claim) \in Attempt
        BY <1>a DEF Claimed, Attempt
      <4> QED BY <2>2, <4>1, <4>2, WriteTyped
    <3> QED BY <1>19, <2>1, <3>1 DEF CommitCourier, CarrierFits
  <2>3. CASE UNCHANGED <<shipment, quote, attempt, jobs>>
    BY <1>19, <2>1, <2>3 DEF CommitCourier, AttemptFits, CarrierFits
  <2> QED BY <1>19, <2>2, <2>3 DEF CommitCourier
<1> QED BY <1>1, <1>2, <1>3, <1>4, <1>5, <1>6, <1>7, <1>8, <1>9, <1>10, <1>11, <1>12,
           <1>13, <1>14, <1>15, <1>16, <1>17, <1>18, <1>19 DEF BookingStep

\* Every step keeps the types.
LEMMA NextTyped == TypeInv /\ [Next]_vars => TypeInv'
<1> SUFFICES ASSUME TypeInv, [Next]_vars PROVE TypeInv'
  OBVIOUS
<1> USE DEF TypeInv, TypeOK
<1>1. ASSUME NEW t \in Tasks,
             BookingStep(t) \/ TickStarts(t) \/ CancelRead(t) \/ CreateShipment(t) \/ Die(t)
      PROVE  TypeInv'
  BY <1>1, StepTyped
<1>2. ASSUME NEW t \in Tasks, NEW q \in Quotes, NEW k \in Keys \cup {None}, Book(t, q, k)
      PROVE  TypeInv'
  <2> DEFINE c == [op |-> 0, quote |-> q, key |-> k]
  <2>1. CASE q \in CourierQuotes
    <3>1. c \in CourierClaim /\ Hold(t, "commit", c)
      BY <1>2, <2>1 DEF Book, CourierClaim
    <3> HIDE DEF c
    <3>2. task' \in [Tasks -> TaskOf(BookingLabels)] /\ \A u \in Tasks : Fits(u, task'[u])
      BY <3>1, HoldTyped
    <3> QED BY <1>2, <3>2 DEF Book, AttemptFits, CarrierFits
  <2>2. CASE q \notin CourierQuotes
    <3> DEFINE st == [Idle EXCEPT !.at = "claim", !.own = c]
    <3>1. c \in OwnClaim /\ Become(t, st) /\ t \in Requests
      BY <1>2, <2>2 DEF Book, OwnClaim, Quotes
    <3> HIDE DEF c
    <3>2. st \in TaskOf(BookingLabels) /\ st.at = "claim" /\ st.own = c
      BY <3>1, IdleTyped, ClaimsDiffer DEF TaskOf, BookingLabels
    <3> HIDE DEF st
    <3>3. Fits(t, st)
      BY <3>1, <3>2 DEF Fits, Carrying
    <3>4. task' \in [Tasks -> TaskOf(BookingLabels)] /\ \A u \in Tasks : Fits(u, task'[u])
      BY <3>1, <3>2, <3>3, BecomeTyped
    <3> QED BY <1>2, <3>4 DEF Book, AttemptFits, CarrierFits
  <2> QED BY <2>1, <2>2
<1>3. ASSUME NEW q \in Quotes, LapseQuote(q)
      PROVE  TypeInv'
  BY <1>3 DEF LapseQuote, QuoteStatus, AttemptFits, CarrierFits
<1>4. ASSUME NEW n \in Ops, CarrierDecides(n)
      PROVE  TypeInv'
  <2>1. carrier[n] \in Operation
    OBVIOUS
  <2>2. PICK s \in {"booked", "refused"} : carrier' = [carrier EXCEPT ![n].status = s]
    BY <1>4 DEF CarrierDecides
  <2>3. carrier' \in [Ops -> Operation]
    BY <2>1, <2>2 DEF Operation
  <2>4. CarrierFits'
    BY <1>4, <2>1, <2>2 DEF CarrierDecides, CarrierFits, Operation
  <2> QED BY <1>4, <2>3, <2>4 DEF CarrierDecides, AttemptFits
<1>5. CASE ClaimGrowsOld
  <2>1. attempt' \in Attempt /\ AttemptFits'
    BY <1>5 DEF ClaimGrowsOld, Attempt, AttemptFits
  <2> QED BY <1>5, <2>1 DEF ClaimGrowsOld, CarrierFits
<1>6. CASE UNCHANGED vars
  BY <1>6 DEF vars, AttemptFits, CarrierFits
<1> QED BY <1>1, <1>2, <1>3, <1>4, <1>5, <1>6 DEF Next, Underway, BookDirectly

\* Every row and every local keeps its type, and the attempt's status is one the
\* schema's CHECK knows, whatever a request or the reconciler marks it.
THEOREM TypeCorrect == Spec => []TypeOK
<1>1. Spec => []TypeInv
  BY InitTyped, NextTyped, PTL DEF Spec
<1>2. TypeInv => TypeOK
  BY DEF TypeInv
<1> QED BY <1>1, <1>2, PTL

-----------------------------------------------------------------------------
(* The operations.  An operation the carrier may still take, or has taken, *)
(* is the one the claim names, and the claim is not released: nothing that *)
(* has been given up on can become a parcel.                               *)

Calling(n) == \E t \in Tasks : At(t, "call") /\ task[t].claim.op = n
Pending(n) == carrier[n].status = "sent" \/ Calling(n)
Live(n)    == carrier[n].status = "booked" \/ Pending(n)

Sound(st) ==
  Carrying(st) =>
    /\ st.claim.op <= attempt.claim.op
    /\ st.claim.op = attempt.claim.op => st.claim = attempt.claim
    /\ st.at = "call"     => carrier[st.claim.op].status = "none"
    /\ st.at = "reply"    => carrier[st.claim.op].status # "none"
    /\ st.at = "rejected" => carrier[st.claim.op].status = "refused"
    /\ st.at = "lookup"   => ~ Pending(st.claim.op)
    /\ st.at = "release"  => ~ Live(st.claim.op)
    /\ st.at = "commit"   => carrier[st.claim.op].status = "booked"

OneCaller == \A t, u \in Tasks : At(t, "call") /\ At(u, "call") => t = u

LiveIsClaimed ==
  \A n \in Ops : Live(n) => n = attempt.claim.op /\ attempt.status # "failed"

LaterUntouched == \A n \in Ops : n > attempt.claim.op => carrier[n].status = "none"

PriceIsClaimed ==
  attempt.claim.op # 0 /\ carrier[attempt.claim.op].status # "none"
    => carrier[attempt.claim.op].quote = attempt.claim.quote

OldIsOver == attempt.old => attempt.status = "unknown" /\ ~ Pending(attempt.claim.op)

\* A completed claim is a courier's or a carrier's.
CompletedFits ==
  attempt.status = "completed" => attempt.claim \in CarrierClaim \cup CourierClaim

OpInv == /\ \A t \in Tasks : Sound(task[t])
         /\ OneCaller /\ LiveIsClaimed /\ LaterUntouched /\ PriceIsClaimed /\ OldIsOver
         /\ CompletedFits

\* Every job is the claim's, once it is completed, and has the carrier's parcel.
JobInv ==
  /\ \A i \in DOMAIN jobs : jobs[i] = attempt.claim
  /\ jobs # <<>> =>
       /\ attempt.status = "completed"
       /\ attempt.claim.op # 0 => carrier[attempt.claim.op].status = "booked"
  /\ OneJobPerKeyedShipment

LEMMA InitSound == Init => OpInv /\ JobInv
<1> SUFFICES ASSUME Init PROVE OpInv /\ JobInv
  OBVIOUS
<1>1. \A t \in Tasks : task[t] = Idle
  BY DEF Init
<1>2. \A t \in Tasks : ~ Carrying(task[t]) /\ ~ At(t, "call")
  BY <1>1, IdleTyped DEF At
<1>3. \A n \in Ops : carrier[n].status = "none" /\ ~ Live(n)
  BY <1>2 DEF Init, Live, Pending, Calling
<1>4. attempt.claim.op = 0 /\ ~ attempt.old /\ attempt.status = "none"
  BY DEF Init, NoClaim
<1>5. OpInv
  BY <1>2, <1>3, <1>4
     DEF OpInv, Sound, OneCaller, LiveIsClaimed, LaterUntouched, PriceIsClaimed,
         OldIsOver, CompletedFits
<1>6. JobInv
  BY DEF Init, JobInv, OneJobPerKeyedShipment
<1> QED BY <1>5, <1>6

\* An operation of the carrier that is claimed is a number.
LEMMA OpsCount ==
  ASSUME TypeInv
  PROVE  /\ attempt.claim.op \in Nat
         /\ \A t \in Tasks : Carrying(task[t]) =>
              /\ task[t].claim.op \in Ops /\ task[t].claim.op \in Nat
              /\ task[t].claim.op # 0
         /\ \A n \in Ops : n \in Nat /\ n # 0
         /\ attempt.status = "none" => attempt.claim.op = 0
         /\ attempt.status \in {"unknown", "failed"} => attempt.claim.op \in Ops
<1>1. attempt.claim \in Claim
  BY DEF TypeInv, TypeOK, Attempt
<1>2. \A n \in Ops : n \in Nat /\ n # 0
  BY BoundsAreCounts DEF Ops
<1> QED BY <1>1, <1>2, ClaimsDiffer
        DEF TypeInv, Fits, AttemptFits, Claim, NoClaim

\* A task that calls nobody: the calls in flight are the others'.
LEMMA NoNewCall ==
  ASSUME NEW t \in Tasks, task'[t].at # "call",
         \A u \in Tasks : u # t => task'[u] = task[u]
  PROVE  /\ \A u \in Tasks : At(u, "call")' => u # t /\ At(u, "call")
         /\ \A n : Calling(n)' => Calling(n)
         /\ OneCaller => OneCaller'
  BY DEF At, Calling, OneCaller

\* A step of one task that leaves the claim and the carrier alone.
LEMMA TaskStepSound ==
  ASSUME TypeInv, OpInv, JobInv, NEW t \in Tasks, task'[t].at # "call",
         \A u \in Tasks : u # t => task'[u] = task[u],
         Sound(task'[t]), carrier' = carrier, jobs' = jobs,
         attempt'.claim = attempt.claim, attempt'.status = attempt.status,
         attempt'.old => attempt.old
  PROVE  OpInv' /\ JobInv'
<1>1. /\ \A n : Calling(n)' => Calling(n)
      /\ \A n : Pending(n)' => Pending(n)
      /\ \A n : Live(n)' => Live(n)
      /\ OneCaller'
  BY NoNewCall DEF Pending, Live, OpInv
<1>2. ASSUME NEW u \in Tasks
      PROVE  Sound(task[u])'
  <2>1. Sound(task'[u])
    BY DEF OpInv
  <2> QED BY <1>1, <2>1 DEF Sound
<1>3. OpInv'
  BY <1>1, <1>2
     DEF OpInv, LiveIsClaimed, LaterUntouched, PriceIsClaimed, OldIsOver, CompletedFits
<1> QED BY <1>3 DEF JobInv, OneJobPerKeyedShipment

\* A step of no task that keeps the tasks, the claim and the carrier.
LEMMA RestSound ==
  ASSUME TypeInv, OpInv, JobInv, task' = task,
         attempt' = attempt, carrier' = carrier, jobs' = jobs
  PROVE  OpInv' /\ JobInv'
  BY ZenonT(40)
     DEF OpInv, JobInv, Sound, OneCaller, LiveIsClaimed, LaterUntouched, PriceIsClaimed,
         OldIsOver, CompletedFits, OneJobPerKeyedShipment, Live, Pending, Calling, At

\* A new claim is under an operation nobody has touched: the one before it, if
\* there was one, is released, and nothing of it is alive.
LEMMA NewClaimSound ==
  ASSUME TypeInv, OpInv, JobInv, NEW t \in Tasks, NEW c \in CarrierClaim,
         attempt.claim.op < c.op, attempt.status \in {"none", "failed"},
         attempt' = Claimed(c), carrier' = carrier, jobs' = jobs,
         \A u \in Tasks : u # t => task'[u] = task[u],
         task'[t].at = "call", task'[t].claim = c
  PROVE  OpInv' /\ JobInv'
<1>1. /\ attempt'.claim = c /\ attempt'.status = "unknown" /\ ~ attempt'.old
      /\ c.op \in Ops /\ c.op \in Nat /\ attempt.claim.op \in Nat
  BY OpsCount, ClaimsDiffer DEF Claimed
<1>2. \A n \in Ops : ~ Live(n)
  <2>1. CASE attempt.status = "failed"
    BY <2>1 DEF OpInv, LiveIsClaimed
  <2>2. CASE attempt.status = "none"
    BY <2>2, OpsCount DEF OpInv, LiveIsClaimed
  <2> QED BY <2>1, <2>2
<1>3. \A u \in Tasks : ~ At(u, "call")
  BY <1>2, OpsCount DEF Live, Pending, Calling, At, Carrying
<1>4. /\ carrier[c.op].status = "none"
      /\ \A n \in Ops : n > c.op => carrier[n].status = "none"
  BY <1>1, OpsCount DEF OpInv, LaterUntouched
<1>5. \A u \in Tasks : At(u, "call")' => u = t
  BY <1>3 DEF At
<1>6. \A n \in Ops : Live(n)' => n = c.op
  BY <1>2, <1>5 DEF Live, Pending, Calling
<1>7. ASSUME NEW u \in Tasks, u # t
      PROVE  Sound(task[u])'
  <2>1. Sound(task[u]) /\ task'[u] = task[u] /\ task[u].at # "call"
    BY <1>3, <1>7 DEF OpInv, At
  <2>2. Carrying(task[u]) => task[u].claim.op < c.op /\ task[u].claim.op \in Ops
    BY <1>1, <2>1, OpsCount DEF Sound
  <2>3. \A n \in Ops : n < c.op => ~ Live(n)' /\ ~ Pending(n)'
    BY <1>1, <1>6, OpsCount DEF Live
  <2> QED BY <1>1, <2>1, <2>2, <2>3, OpsCount DEF Sound
<1>8. Sound(task[t])'
  BY <1>1, <1>4 DEF Sound
<1>9. OpInv'
  BY <1>1, <1>4, <1>5, <1>6, <1>7, <1>8
     DEF OpInv, OneCaller, LiveIsClaimed, LaterUntouched, PriceIsClaimed, OldIsOver,
         CompletedFits
<1>10. JobInv'
  <2>1. jobs = <<>>
    BY DEF JobInv
  <2> QED BY <2>1 DEF JobInv, OneJobPerKeyedShipment
<1> QED BY <1>9, <1>10

\* Releasing a claim whose operation is dead.
LEMMA ReleaseSound ==
  ASSUME TypeInv, OpInv, JobInv, NEW t \in Tasks, NEW n \in Ops, ~ Live(n),
         MarkAttemptFailed(n), ~ Carrying(task'[t]),
         \A u \in Tasks : u # t => task'[u] = task[u],
         carrier' = carrier, jobs' = jobs
  PROVE  OpInv' /\ JobInv'
<1>1. /\ attempt'.claim = attempt.claim
      /\ \/ attempt' = attempt
         \/ /\ attempt.status = "unknown" /\ attempt.claim.op = n
            /\ attempt'.status = "failed" /\ ~ attempt'.old
  BY MarkTyped
<1>2. task'[t].at # "call"
  BY DEF Carrying
<1>3. /\ \A m : Pending(m)' => Pending(m)
      /\ \A m : Live(m)' => Live(m)
      /\ OneCaller'
  BY <1>2, NoNewCall DEF Pending, Live, OpInv
<1>4. ASSUME NEW u \in Tasks
      PROVE  Sound(task[u])'
  <2>1. Sound(task'[u])
    BY DEF OpInv, Sound
  <2> QED BY <1>1, <1>3, <2>1 DEF Sound
<1>5. LiveIsClaimed'
  BY <1>1, <1>3 DEF OpInv, LiveIsClaimed
<1>6. OpInv'
  BY <1>1, <1>3, <1>4, <1>5
     DEF OpInv, LaterUntouched, PriceIsClaimed, OldIsOver, CompletedFits
<1>7. JobInv'
  BY <1>1 DEF JobInv, OneJobPerKeyedShipment
<1> QED BY <1>6, <1>7

\* The carrier is called: the operation is sent, under the price it was claimed at.
LEMMA CallSound ==
  ASSUME TypeInv, OpInv, JobInv, NEW t \in Tasks, CallCarrier(t)
  PROVE  OpInv' /\ JobInv'
<1> DEFINE c == task[t].claim
<1>1. /\ task[t] \in TaskOf(BookingLabels) /\ task[t].at = "call" /\ At(t, "call")
      /\ c \in CarrierClaim /\ Sound(task[t]) /\ Carrying(task[t])
  BY DEF TypeInv, TypeOK, CallCarrier, At, Fits, Carrying, OpInv
<1>2. /\ c.op \in Ops /\ c.op # 0 /\ c.op \in Nat /\ attempt.claim.op \in Nat
      /\ carrier[c.op].status = "none" /\ Live(c.op)
  BY <1>1, OpsCount DEF Sound, Live, Pending, Calling
<1>3. c.op = attempt.claim.op /\ attempt.status # "failed" /\ c = attempt.claim
  BY <1>1, <1>2 DEF OpInv, LiveIsClaimed, Sound
<1>4. /\ attempt' = attempt /\ jobs' = jobs
      /\ \A u \in Tasks : u # t => task'[u] = task[u]
      /\ task'[t].at = "reply" /\ task'[t].claim = c
      /\ \A n \in Ops : n # c.op => carrier'[n] = carrier[n]
      /\ carrier'[c.op].status = "sent" /\ carrier'[c.op].quote = c.quote
  <2>1. /\ Goto(t, "reply") /\ task \in [Tasks -> TaskOf(BookingLabels)]
        /\ carrier \in [Ops -> Operation]
    BY DEF CallCarrier, TypeInv, TypeOK
  <2>2. \A u \in Tasks : u # t => task'[u] = task[u]
    BY <2>1 DEF Goto, Become
  <2>3. task'[t].at = "reply" /\ task'[t].claim = c
    BY <2>1 DEF Goto, Become, TaskOf
  <2>4. /\ \A n \in Ops : n # c.op => carrier'[n] = carrier[n]
        /\ carrier'[c.op].status = "sent" /\ carrier'[c.op].quote = c.quote
    BY <1>2, <2>1 DEF CallCarrier
  <2> QED BY <2>2, <2>3, <2>4 DEF CallCarrier
<1>5. \A u \in Tasks : ~ At(u, "call")'
  BY <1>1, <1>4 DEF At, OpInv, OneCaller
<1>6. \A n \in Ops : Live(n)' => n = c.op
  BY <1>3, <1>4, <1>5 DEF Live, Pending, Calling, OpInv, LiveIsClaimed
<1>7. ASSUME NEW u \in Tasks, u # t
      PROVE  Sound(task[u])'
  <2>1. Sound(task[u]) /\ task'[u] = task[u] /\ task[u].at # "call"
    BY <1>1, <1>4, <1>7 DEF OpInv, OneCaller, At
  <2>2. Carrying(task[u]) => task[u].claim.op \in Ops
    BY OpsCount
  <2>3. Carrying(task[u]) => task[u].claim.op # c.op
    <3>1. Carrying(task[u]) /\ task[u].claim.op = c.op
            => task[u].at \notin {"reply", "rejected", "commit", "lookup", "release"}
      BY <1>1, <1>2, <2>1 DEF Sound, Pending, Live, Calling
    <3> QED BY <2>1, <3>1 DEF Carrying
  <2>4. \A n \in Ops : n # c.op => (carrier'[n] = carrier[n] /\ ~ Live(n)' /\ ~ Pending(n)')
    BY <1>4, <1>6 DEF Live
  <2> QED BY <1>4, <2>1, <2>2, <2>3, <2>4 DEF Sound
<1>8. Sound(task[t])'
  BY <1>1, <1>2, <1>3, <1>4 DEF Sound
<1>9. ~ attempt.old
  BY <1>1, <1>3 DEF OpInv, OldIsOver, Pending, Calling
<1>10. OpInv'
  BY <1>2, <1>3, <1>4, <1>5, <1>6, <1>7, <1>8, <1>9
     DEF OpInv, OneCaller, LiveIsClaimed, LaterUntouched, PriceIsClaimed, OldIsOver,
         CompletedFits
<1>11. jobs = <<>>
  BY <1>2, <1>3 DEF JobInv
<1>12. JobInv'
  BY <1>4, <1>11 DEF JobInv, OneJobPerKeyedShipment
<1> QED BY <1>10, <1>12

\* The carrier takes an operation that was sent, or refuses it.
LEMMA DecisionSound ==
  ASSUME TypeInv, OpInv, JobInv, NEW n \in Ops, CarrierDecides(n)
  PROVE  OpInv' /\ JobInv'
<1>1. /\ task' = task /\ attempt' = attempt /\ jobs' = jobs
      /\ carrier[n].status = "sent"
      /\ \A m \in Ops : m # n => carrier'[m] = carrier[m]
      /\ carrier'[n].status \in {"booked", "refused"}
      /\ carrier'[n].quote = carrier[n].quote
  <2>1. carrier \in [Ops -> Operation] /\ carrier[n] \in Operation
    BY DEF TypeInv, TypeOK
  <2>2. PICK s \in {"booked", "refused"} : carrier' = [carrier EXCEPT ![n].status = s]
    BY DEF CarrierDecides
  <2>3. /\ \A m \in Ops : m # n => carrier'[m] = carrier[m]
        /\ carrier'[n].status = s /\ carrier'[n].quote = carrier[n].quote
    BY <2>1, <2>2 DEF Operation
  <2> QED BY <2>3 DEF CarrierDecides
<1>2. /\ \A m : Calling(m)' <=> Calling(m)
      /\ \A u \in Tasks : At(u, "call")' <=> At(u, "call")
  BY <1>1 DEF Calling, At
<1>3. \A m \in Ops : (Live(m)' => Live(m)) /\ (Pending(m)' => Pending(m))
  BY <1>1, <1>2 DEF Live, Pending
<1>4. n = attempt.claim.op /\ attempt.status # "failed" /\ Pending(n)
  BY <1>1 DEF OpInv, LiveIsClaimed, Live, Pending
<1>5. ASSUME NEW u \in Tasks
      PROVE  Sound(task[u])'
  <2>1. Sound(task[u]) /\ task'[u] = task[u]
    BY <1>1 DEF OpInv
  <2>2. Carrying(task[u]) => task[u].claim.op \in Ops
    BY OpsCount
  <2>3. CASE Carrying(task[u]) /\ task[u].claim.op = n
    BY <1>1, <1>4, <2>1, <2>3 DEF Sound, Live
  <2>4. CASE ~ (Carrying(task[u]) /\ task[u].claim.op = n)
    BY <1>1, <1>3, <2>1, <2>2, <2>4 DEF Sound
  <2> QED BY <2>3, <2>4
<1>6. OldIsOver'
  BY <1>1, <1>4 DEF OpInv, OldIsOver
<1>7. LaterUntouched' /\ PriceIsClaimed'
  BY <1>1, <1>4, OpsCount DEF OpInv, LaterUntouched, PriceIsClaimed
<1>8. OpInv'
  BY <1>1, <1>2, <1>3, <1>5, <1>6, <1>7
     DEF OpInv, OneCaller, LiveIsClaimed, CompletedFits
<1>9. jobs = <<>>
  BY <1>1, <1>4, OpsCount DEF JobInv
<1>10. JobInv'
  BY <1>1, <1>9 DEF JobInv, OneJobPerKeyedShipment
<1> QED BY <1>8, <1>10

\* A claim grows old: its call is over.
LEMMA OldSound ==
  ASSUME TypeInv, OpInv, JobInv, ClaimGrowsOld
  PROVE  OpInv' /\ JobInv'
<1>1. /\ attempt'.claim = attempt.claim /\ attempt'.status = attempt.status
      /\ attempt.status = "unknown"
      /\ task' = task /\ carrier' = carrier /\ jobs' = jobs
      /\ ~ Pending(attempt.claim.op)
  BY ZenonT(40) DEF ClaimGrowsOld, TypeInv, TypeOK, Attempt, Pending, Calling
<1>2. OpInv'
  <2>1. \A n \in Ops : Pending(n)' <=> Pending(n)
    BY <1>1 DEF Pending, Calling, At
  <2>2. \A t \in Tasks : Sound(task[t])'
    <3>1. ASSUME NEW t \in Tasks, Carrying(task[t])
          PROVE  Sound(task[t])'
      <4>1. task[t].claim.op \in Ops /\ Sound(task[t])
        BY <3>1, OpsCount DEF OpInv
      <4> QED BY <1>1, <2>1, <3>1, <4>1 DEF Sound, Live
    <3> QED BY <1>1, <3>1 DEF Sound
  <2>3. OneCaller' /\ LiveIsClaimed' /\ LaterUntouched'
    BY <1>1, <2>1 DEF OpInv, OneCaller, LiveIsClaimed, LaterUntouched, Live, At
  <2>4. PriceIsClaimed' /\ CompletedFits'
    BY <1>1 DEF OpInv, PriceIsClaimed, CompletedFits
  <2>5. OldIsOver'
    BY <1>1 DEF OldIsOver, Pending, Calling, At
  <2> QED BY <2>2, <2>3, <2>4, <2>5 DEF OpInv
<1> QED BY <1>1, <1>2 DEF JobInv, OneJobPerKeyedShipment

\* A job is appended that says what the completed claim says.
LEMMA JobSound ==
  ASSUME TypeInv, OpInv, JobInv, NEW t \in Tasks, ~ Carrying(task'[t]),
         \A u \in Tasks : u # t => task'[u] = task[u],
         attempt'.claim = task[t].claim, attempt'.status = "completed", ~ attempt'.old,
         WithKey(task[t].claim.key) = {}, jobs' = Append(jobs, task[t].claim),
         task[t].claim \in CarrierClaim \cup CourierClaim,
         carrier' = carrier,
         \/ attempt.status = "none" /\ task[t].claim.op = 0
         \/ task[t].claim = attempt.claim /\ carrier[attempt.claim.op].status = "booked"
  PROVE  OpInv' /\ JobInv'
<1> DEFINE c == task[t].claim
<1>1. task'[t].at # "call"
  BY DEF Carrying
<1>2. /\ \A m : Pending(m)' => Pending(m)
      /\ \A m : Live(m)' => Live(m)
      /\ OneCaller'
  BY <1>1, NoNewCall DEF Pending, Live, OpInv
<1>3. attempt.claim.op = c.op
  BY OpsCount
<1>4. ASSUME NEW u \in Tasks
      PROVE  Sound(task[u])'
  <2>1. CASE ~ Carrying(task[u])' \/ u = t
    BY <2>1 DEF Sound
  <2>2. CASE Carrying(task[u]) /\ task'[u] = task[u]
    <3>1. task[u].claim.op \in Ops /\ task[u].claim.op # 0 /\ Sound(task[u])
      BY <2>2, OpsCount DEF OpInv
    <3>2. task[u].claim.op <= attempt.claim.op
      BY <2>2, <3>1 DEF Sound
    <3>3. attempt.status # "none"
      BY <3>1, <3>2, OpsCount DEF Ops
    <3>4. attempt'.claim = attempt.claim
      BY <3>3
    <3> QED BY <1>2, <2>2, <3>1, <3>4 DEF Sound
  <2> QED BY <2>1, <2>2 DEF Carrying
<1>5. LiveIsClaimed' /\ LaterUntouched'
  BY <1>2, <1>3 DEF OpInv, LiveIsClaimed, LaterUntouched
<1>6. PriceIsClaimed'
  BY OpsCount DEF OpInv, PriceIsClaimed
<1>7. OpInv'
  BY <1>2, <1>4, <1>5, <1>6 DEF OpInv, OldIsOver, CompletedFits
<1>8. jobs \in Seq(Job) /\ c \in Job /\ attempt.claim.op \in Nat
  BY ClaimsDiffer, OpsCount DEF TypeInv, TypeOK
<1>9. \A i \in DOMAIN jobs : jobs[i] = c
  BY DEF JobInv
<1>10. /\ DOMAIN jobs' = 1 .. Len(jobs) + 1
       /\ \A i \in DOMAIN jobs' : jobs'[i] = c
       /\ jobs' # <<>>
  BY <1>8, <1>9
<1>11. OneJobPerKeyedShipment'
  <2>1. jobs # <<>> => c.key = None
    BY <1>8, <1>9 DEF WithKey
  <2>2. CASE jobs = <<>>
    BY <1>10, <2>2 DEF OneJobPerKeyedShipment
  <2>3. CASE jobs # <<>>
    BY <1>10, <2>1, <2>3 DEF OneJobPerKeyedShipment
  <2> QED BY <2>2, <2>3
<1>12. JobInv'
  BY <1>3, <1>10, <1>11 DEF JobInv
<1> QED BY <1>7, <1>12

\* The steps of a task.
LEMMA StepSound ==
  ASSUME TypeInv, OpInv, JobInv, NEW t \in Tasks,
         BookingStep(t) \/ TickStarts(t) \/ CancelRead(t) \/ CreateShipment(t) \/ Die(t)
  PROVE  OpInv' /\ JobInv'
<1>a. /\ task \in [Tasks -> TaskOf(BookingLabels)] /\ task[t] \in TaskOf(BookingLabels)
      /\ Fits(t, task[t]) /\ Sound(task[t])
  BY DEF TypeInv, TypeOK, OpInv
<1>b. \A st : ~ Carrying(st) => Sound(st) /\ st.at # "call"
  BY DEF Sound, Carrying
<1>i. ~ Carrying(Idle)
  BY IdleTyped
<1>1. CASE QuoteShipment(t)
  <2>1. /\ \A u \in Tasks : u # t => task'[u] = task[u]
        /\ ~ Carrying(task'[t])
    BY <1>1, <1>i, FinishTyped DEF QuoteShipment
  <2> QED BY <1>1, <2>1, <1>b, TaskStepSound DEF QuoteShipment
<1>2. CASE CancelWrite(t)
  <2>1. /\ \A u \in Tasks : u # t => task'[u] = task[u]
        /\ ~ Carrying(task'[t])
    BY <1>2, <1>i, FinishTyped DEF CancelWrite
  <2> QED BY <1>2, <2>1, <1>b, TaskStepSound DEF CancelWrite
<1>3. CASE InsertClaim(t)
  <2>1. CASE attempt.status = "none" /\ task[t].own.key \notin ForeignKeys
    <3> DEFINE c == [task[t].own EXCEPT !.op = 1]
    <3>1. /\ 1 \in Ops /\ task[t].own \in OwnClaim
      BY <1>3, <1>a, BoundsAreCounts DEF InsertClaim, At, Fits, Ops
    <3>2. c \in CarrierClaim /\ c.op = 1
      BY <3>1, ClaimedTyped
    <3>3. /\ attempt' = Claimed(c) /\ Hold(t, "call", c)
          /\ carrier' = carrier /\ jobs' = jobs
      BY <1>3, <2>1 DEF InsertClaim
    <3> HIDE DEF c
    <3>4. /\ \A u \in Tasks : u # t => task'[u] = task[u]
          /\ task'[t].at = "call" /\ task'[t].claim = c
      BY <3>2, <3>3, HoldTyped
    <3>5. attempt.claim.op < c.op
      BY <2>1, <3>2, OpsCount
    <3> QED BY <2>1, <3>2, <3>3, <3>4, <3>5, NewClaimSound
  <2>2. CASE ~ (attempt.status = "none" /\ task[t].own.key \notin ForeignKeys)
    <3>1. /\ Goto(t, "reconcile") /\ attempt' = attempt
          /\ carrier' = carrier /\ jobs' = jobs
      BY <1>3, <2>2 DEF InsertClaim
    <3>2. \A u \in Tasks : u # t => task'[u] = task[u]
      BY <3>1, <1>a DEF Goto, Become
    <3>3. task'[t].at = "reconcile"
      BY <3>1, <1>a DEF Goto, Become, TaskOf
    <3>4. ~ Carrying(task'[t])
      BY <3>3 DEF Carrying
    <3> QED BY <3>1, <3>2, <3>4, <1>b, TaskStepSound
  <2> QED BY <2>1, <2>2
<1>4. CASE RetakeClaim(t)
  <2>1. CASE attempt.status = "failed" /\ task[t].own.key \notin ForeignKeys
    <3> DEFINE n == attempt.claim.op + 1
               c == [task[t].own EXCEPT !.op = n]
    <3>1. /\ task[t].own \in OwnClaim /\ t \in Requests
          /\ attempt.claim.op < MaxAttempts /\ attempt.claim.op \in Ops
      BY <1>4, <1>a, <2>1, OpsCount DEF RetakeClaim, At, Fits
    <3>2. n \in Ops /\ attempt.claim.op < n
      BY <3>1, BoundsAreCounts DEF Ops
    <3>3. c \in CarrierClaim /\ c.op = n
      <4> HIDE DEF n
      <4> QED BY <3>1, <3>2, ClaimedTyped
    <3>4. /\ attempt' = Claimed(c) /\ Hold(t, "call", c)
          /\ carrier' = carrier /\ jobs' = jobs
      BY <1>4, <2>1 DEF RetakeClaim
    <3> HIDE DEF c, n
    <3>5. /\ \A u \in Tasks : u # t => task'[u] = task[u]
          /\ task'[t].at = "call" /\ task'[t].claim = c
      BY <3>3, <3>4, HoldTyped
    <3> QED BY <2>1, <3>2, <3>3, <3>4, <3>5, NewClaimSound
  <2>2. CASE ~ (attempt.status = "failed" /\ task[t].own.key \notin ForeignKeys)
    <3>1. Finish(t) /\ attempt' = attempt /\ carrier' = carrier /\ jobs' = jobs
      BY <1>4, <2>2 DEF RetakeClaim
    <3>2. /\ \A u \in Tasks : u # t => task'[u] = task[u]
          /\ ~ Carrying(task'[t])
      BY <3>1, <1>i, FinishTyped
    <3> QED BY <3>1, <3>2, <1>b, TaskStepSound
  <2> QED BY <2>1, <2>2
<1>5. CASE CallCarrier(t)
  BY <1>5, CallSound
<1>6. CASE CarrierReplies(t)
  <2>1. /\ attempt' = attempt /\ carrier' = carrier /\ jobs' = jobs
        /\ \A u \in Tasks : u # t => task'[u] = task[u]
    BY <1>6, <1>a DEF CarrierReplies, Goto, Finish, Become
  <2>2. \/ Finish(t)
        \/ Goto(t, "commit") /\ carrier[task[t].claim.op].status = "booked"
        \/ Goto(t, "rejected") /\ carrier[task[t].claim.op].status = "refused"
    BY <1>6 DEF CarrierReplies
  <2>3. CASE Finish(t)
    <3>1. ~ Carrying(task'[t])
      BY <2>3, <1>i, FinishTyped
    <3> QED BY <2>1, <3>1, <1>b, TaskStepSound
  <2>4. ASSUME NEW label \in {"commit", "rejected"}, Goto(t, label),
               label = "commit" => carrier[task[t].claim.op].status = "booked",
               label = "rejected" => carrier[task[t].claim.op].status = "refused"
        PROVE  OpInv' /\ JobInv'
    <3>1. task'[t].at = label /\ task'[t].claim = task[t].claim
      BY <2>4, <1>a DEF Goto, Become, TaskOf
    <3>2. Carrying(task[t])
      BY <1>6 DEF CarrierReplies, At, Carrying
    <3>3. Sound(task'[t]) /\ task'[t].at # "call"
      BY <1>a, <2>4, <3>1, <3>2 DEF Sound
    <3> QED BY <2>1, <3>3, TaskStepSound
  <2> QED BY <2>2, <2>3, <2>4
<1>7. CASE ReleaseRejected(t)
  <2> DEFINE n == task[t].claim.op
  <2>1. Carrying(task[t]) /\ task[t].at = "rejected"
    BY <1>7 DEF ReleaseRejected, At, Carrying
  <2>2. n \in Ops /\ carrier[n].status = "refused"
    BY <1>a, <2>1, OpsCount DEF Sound
  <2>3. ~ Calling(n)
    BY <2>2 DEF Calling, OpInv, Sound, At, Carrying
  <2>4. ~ Live(n)
    BY <2>2, <2>3 DEF Live, Pending
  <2>5. /\ \A u \in Tasks : u # t => task'[u] = task[u]
        /\ ~ Carrying(task'[t])
    BY <1>7, <1>i, FinishTyped DEF ReleaseRejected
  <2>6. MarkAttemptFailed(n) /\ carrier' = carrier /\ jobs' = jobs
    BY <1>7 DEF ReleaseRejected
  <2> HIDE DEF n
  <2> QED BY <2>2, <2>4, <2>5, <2>6, ReleaseSound
<1>8. CASE ReadAttempt(t)
  <2>1. CASE Goto(t, "take")
    <3>1. \A u \in Tasks : u # t => task'[u] = task[u]
      BY <2>1, <1>a DEF Goto, Become
    <3>2. task'[t].at = "take"
      BY <2>1, <1>a DEF Goto, Become, TaskOf
    <3>3. ~ Carrying(task'[t])
      BY <3>2 DEF Carrying
    <3> QED BY <1>8, <3>1, <3>3, <1>b, TaskStepSound DEF ReadAttempt
  <2>2. CASE AfterFailure(t) \/ Finish(t)
    <3>1. /\ \A u \in Tasks : u # t => task'[u] = task[u]
          /\ ~ Carrying(task'[t])
      BY <1>8, <2>2, <1>i, AfterFailureTyped, FinishTyped DEF ReadAttempt, At
    <3> QED BY <1>8, <3>1, <1>b, TaskStepSound DEF ReadAttempt
  <2> QED BY <1>8, <2>1, <2>2 DEF ReadAttempt
<1>9. CASE TakeLookup(t)
  <2>1. CASE attempt.status = "unknown" /\ attempt.old
    <3>1. /\ attempt' = [attempt EXCEPT !.old = FALSE]
          /\ Become(t, [task[t] EXCEPT !.at = "lookup", !.claim = attempt.claim])
          /\ carrier' = carrier /\ jobs' = jobs
      BY <1>9, <2>1 DEF TakeLookup
    <3>2. /\ attempt'.claim = attempt.claim /\ attempt'.status = attempt.status
          /\ ~ attempt'.old
      BY <3>1 DEF TypeInv, TypeOK, Attempt
    <3>3. \A u \in Tasks : u # t => task'[u] = task[u]
      BY <3>1, <1>a DEF Become
    <3>4. task'[t].at = "lookup" /\ task'[t].claim = attempt.claim
      BY <3>1, <1>a DEF Become, TaskOf
    <3>5. ~ Pending(attempt.claim.op) /\ attempt.claim.op \in Nat
      BY <2>1, OpsCount DEF OpInv, OldIsOver
    <3>6. Sound(task'[t]) /\ task'[t].at # "call"
      BY <3>4, <3>5 DEF Sound
    <3> QED BY <3>1, <3>2, <3>3, <3>6, TaskStepSound
  <2>2. CASE ~ (attempt.status = "unknown" /\ attempt.old)
    <3>1. Finish(t) /\ attempt' = attempt /\ carrier' = carrier /\ jobs' = jobs
      BY <1>9, <2>2 DEF TakeLookup
    <3>2. /\ \A u \in Tasks : u # t => task'[u] = task[u]
          /\ ~ Carrying(task'[t])
      BY <3>1, <1>i, FinishTyped
    <3> QED BY <3>1, <3>2, <1>b, TaskStepSound
  <2> QED BY <2>1, <2>2
<1>10. CASE LookupFails(t)
  <2>1. /\ \A u \in Tasks : u # t => task'[u] = task[u]
        /\ ~ Carrying(task'[t])
    BY <1>10, <1>i, FinishTyped DEF LookupFails
  <2> QED BY <1>10, <2>1, <1>b, TaskStepSound DEF LookupFails
<1>11. CASE LookupAnswers(t)
  <2> DEFINE c == task[t].claim
  <2>1. /\ Carrying(task[t]) /\ task[t].at = "lookup"
        /\ attempt' = attempt /\ carrier' = carrier /\ jobs' = jobs
    BY <1>11 DEF LookupAnswers, At, Carrying
  <2>2. c \in CarrierClaim /\ ~ Pending(c.op) /\ c.op <= attempt.claim.op
        /\ (c.op = attempt.claim.op => c = attempt.claim)
    BY <1>a, <2>1 DEF Fits, Sound
  <2>3. CASE carrier[c.op].status = "booked"
    <3>1. Hold(t, "commit", c)
      BY <1>11, <2>3 DEF LookupAnswers
    <3> HIDE DEF c
    <3>2. /\ \A u \in Tasks : u # t => task'[u] = task[u]
          /\ task'[t].at = "commit" /\ task'[t].claim = c
      BY <2>2, <3>1, HoldTyped
    <3>3. Sound(task'[t]) /\ task'[t].at # "call"
      BY <2>2, <2>3, <3>2 DEF Sound
    <3> QED BY <2>1, <3>2, <3>3, TaskStepSound
  <2>4. CASE carrier[c.op].status # "booked"
    <3>1. Goto(t, "release")
      BY <1>11, <2>4 DEF LookupAnswers
    <3>2. \A u \in Tasks : u # t => task'[u] = task[u]
      BY <3>1, <1>a DEF Goto, Become
    <3>3. task'[t].at = "release" /\ task'[t].claim = c
      BY <3>1, <1>a DEF Goto, Become, TaskOf
    <3>4. Sound(task'[t]) /\ task'[t].at # "call"
      BY <2>2, <2>4, <3>3 DEF Sound, Live
    <3> QED BY <2>1, <3>2, <3>4, TaskStepSound
  <2> QED BY <2>3, <2>4
<1>12. CASE ReleaseUnbooked(t)
  <2> DEFINE n == task[t].claim.op
  <2>1. Carrying(task[t]) /\ task[t].at = "release"
    BY <1>12 DEF ReleaseUnbooked, At, Carrying
  <2>2. n \in Ops /\ ~ Live(n)
    BY <1>a, <2>1, OpsCount DEF Sound
  <2>3. /\ \A u \in Tasks : u # t => task'[u] = task[u]
        /\ ~ Carrying(task'[t])
    BY <1>12, <2>1, AfterFailureTyped DEF ReleaseUnbooked
  <2>4. MarkAttemptFailed(n) /\ carrier' = carrier /\ jobs' = jobs
    BY <1>12 DEF ReleaseUnbooked
  <2> HIDE DEF n
  <2> QED BY <2>2, <2>3, <2>4, ReleaseSound
<1>13. CASE RefuseInProgress(t)
  <2>1. /\ \A u \in Tasks : u # t => task'[u] = task[u]
        /\ ~ Carrying(task'[t])
    BY <1>13, <1>i, FinishTyped DEF RefuseInProgress
  <2> QED BY <1>13, <2>1, <1>b, TaskStepSound DEF RefuseInProgress
<1>14. CASE TickStarts(t)
  <2>1. \A u \in Tasks : u # t => task'[u] = task[u]
    BY <1>14, <1>a DEF TickStarts, Goto, Become
  <2>2. task'[t].at = "reconcile"
    BY <1>14, <1>a DEF TickStarts, Goto, Become, TaskOf
  <2>3. ~ Carrying(task'[t])
    BY <2>2 DEF Carrying
  <2> QED BY <1>14, <2>1, <2>3, <1>b, TaskStepSound DEF TickStarts
<1>15. CASE CancelRead(t)
  <2>1. \A u \in Tasks : u # t => task'[u] = task[u]
    BY <1>15, <1>a DEF CancelRead, Goto, Become
  <2>2. task'[t].at = "cancel"
    BY <1>15, <1>a DEF CancelRead, Goto, Become, TaskOf
  <2>3. ~ Carrying(task'[t])
    BY <2>2 DEF Carrying
  <2> QED BY <1>15, <2>1, <2>3, <1>b, TaskStepSound DEF CancelRead
<1>16. CASE CreateShipment(t)
  <2>1. \A u \in Tasks : u # t => task'[u] = task[u]
    BY <1>16, <1>a DEF CreateShipment, Goto, Become
  <2>2. task'[t].at = "quotes"
    BY <1>16, <1>a DEF CreateShipment, Goto, Become, TaskOf
  <2>3. ~ Carrying(task'[t])
    BY <2>2 DEF Carrying
  <2> QED BY <1>16, <2>1, <2>3, <1>b, TaskStepSound DEF CreateShipment
<1>17. CASE Die(t)
  <2>1. /\ \A u \in Tasks : u # t => task'[u] = task[u]
        /\ ~ Carrying(task'[t])
    BY <1>17, <1>i, FinishTyped DEF Die
  <2> QED BY <1>17, <2>1, <1>b, TaskStepSound DEF Die
<1>18. CASE CommitCarrier(t)
  <2>1. /\ \A u \in Tasks : u # t => task'[u] = task[u]
        /\ ~ Carrying(task'[t])
    BY <1>18, <1>i, FinishTyped DEF CommitCarrier
  <2>2. Carrying(task[t]) /\ task[t].at = "commit" /\ task[t].claim \in CarrierClaim
    BY <1>18, <1>a DEF CommitCarrier, At, Fits, Carrying
  <2>3. carrier[task[t].claim.op].status = "booked" /\ task[t].claim.op \in Ops
    BY <1>a, <2>2, OpsCount DEF Sound
  <2>4. task[t].claim = attempt.claim
    BY <1>a, <2>2, <2>3 DEF Live, OpInv, LiveIsClaimed, Sound
  <2>5. WriteJob(task[t].claim, attempt) /\ carrier' = carrier
    BY <1>18 DEF CommitCarrier
  <2>6. /\ attempt \in Attempt
        /\ \/ UNCHANGED <<jobs, quote, shipment, attempt>>
           \/ /\ WithKey(task[t].claim.key) = {}
              /\ jobs' = Append(jobs, task[t].claim)
              /\ attempt'.status = "completed" /\ ~ attempt'.old
              /\ attempt'.claim = [attempt.claim EXCEPT !.quote = task[t].claim.quote]
    <3>1. attempt \in Attempt
      BY DEF TypeInv, TypeOK
    <3> QED BY <2>2, <2>5, <3>1, WriteTyped
  <2>7. [attempt.claim EXCEPT !.quote = task[t].claim.quote] = task[t].claim
    BY <2>2, <2>4 DEF CarrierClaim
  <2>8. CASE UNCHANGED <<jobs, quote, shipment, attempt>>
    BY <2>1, <2>5, <2>8, <1>b, TaskStepSound
  <2>9. CASE ~ UNCHANGED <<jobs, quote, shipment, attempt>>
    BY <2>1, <2>2, <2>3, <2>4, <2>5, <2>6, <2>7, <2>9, JobSound
  <2> QED BY <2>8, <2>9
<1>19. CASE CommitCourier(t)
  <2>1. /\ \A u \in Tasks : u # t => task'[u] = task[u]
        /\ ~ Carrying(task'[t]) /\ carrier' = carrier
    BY <1>19, <1>i, FinishTyped DEF CommitCourier
  <2>2. CASE UNCHANGED <<shipment, quote, attempt, jobs>>
    BY <2>1, <2>2, <1>b, TaskStepSound
  <2>3. CASE Admitted(task[t].claim) /\ WriteJob(task[t].claim, Claimed(task[t].claim))
    <3> DEFINE c == task[t].claim
    <3>1. c \in CourierClaim /\ c.op = 0 /\ attempt.status = "none"
      BY <1>19, <1>a, <2>3 DEF CommitCourier, At, Fits, Admitted
    <3>2. Claimed(c) \in Attempt /\ Claimed(c).claim = c
      BY <3>1, ClaimsDiffer DEF Claimed, Attempt
    <3>3. \/ UNCHANGED <<jobs, quote, shipment, attempt>>
          \/ /\ WithKey(c.key) = {} /\ jobs' = Append(jobs, c)
             /\ attempt'.status = "completed" /\ ~ attempt'.old
             /\ attempt'.claim = [Claimed(c).claim EXCEPT !.quote = c.quote]
      BY <2>3, <3>1, <3>2, WriteTyped
    <3>4. [Claimed(c).claim EXCEPT !.quote = c.quote] = c
      BY <3>1, <3>2 DEF CourierClaim
    <3> QED BY <2>1, <2>2, <3>1, <3>3, <3>4, JobSound
  <2> QED BY <1>19, <2>2, <2>3 DEF CommitCourier
<1> QED BY <1>1, <1>2, <1>3, <1>4, <1>5, <1>6, <1>7, <1>8, <1>9, <1>10, <1>11, <1>12,
           <1>13, <1>14, <1>15, <1>16, <1>17, <1>18, <1>19 DEF BookingStep

\* Every step keeps the operations and the jobs sound.
LEMMA NextSound == TypeInv /\ OpInv /\ JobInv /\ [Next]_vars => OpInv' /\ JobInv'
<1> SUFFICES ASSUME TypeInv, OpInv, JobInv, [Next]_vars PROVE OpInv' /\ JobInv'
  OBVIOUS
<1>1. ASSUME NEW t \in Tasks,
             BookingStep(t) \/ TickStarts(t) \/ CancelRead(t) \/ CreateShipment(t) \/ Die(t)
      PROVE  OpInv' /\ JobInv'
  BY <1>1, StepSound
<1>2. ASSUME NEW t \in Tasks, NEW q \in Quotes, NEW k \in Keys \cup {None}, Book(t, q, k)
      PROVE  OpInv' /\ JobInv'
  <2> DEFINE c == [op |-> 0, quote |-> q, key |-> k]
  <2>1. /\ \/ Hold(t, "commit", c)
           \/ Become(t, [Idle EXCEPT !.at = "claim", !.own = c])
        /\ attempt' = attempt /\ carrier' = carrier /\ jobs' = jobs
    BY <1>2 DEF Book
  <2>2. c.op = 0
    OBVIOUS
  <2> HIDE DEF c
  <2>3. \A u \in Tasks : u # t => task'[u] = task[u]
    BY <2>1, ZenonT(40) DEF TypeInv, TypeOK, Hold, Become
  <2>4. ~ Carrying(task'[t])
    BY <2>1, <2>2, ZenonT(40) DEF TypeInv, TypeOK, Hold, Become, Carrying, Idle
  <2>5. Sound(task'[t]) /\ task'[t].at # "call"
    BY <2>4 DEF Sound, Carrying
  <2> QED BY <2>1, <2>3, <2>5, TaskStepSound
<1>3. ASSUME NEW q \in Quotes, LapseQuote(q)
      PROVE  OpInv' /\ JobInv'
  BY <1>3, RestSound DEF LapseQuote
<1>4. ASSUME NEW n \in Ops, CarrierDecides(n)
      PROVE  OpInv' /\ JobInv'
  BY <1>4, DecisionSound
<1>5. CASE ClaimGrowsOld
  BY <1>5, OldSound
<1>6. CASE UNCHANGED vars
  BY <1>6, RestSound DEF vars
<1> QED BY <1>1, <1>2, <1>3, <1>4, <1>5, <1>6 DEF Next, Underway, BookDirectly

LEMMA BookingSound == Spec => [](TypeInv /\ OpInv /\ JobInv)
  BY InitTyped, NextTyped, InitSound, NextSound, PTL DEF Spec

\* However many requests and ticks claim, retry, look up and release, the
\* carrier never holds two parcels for the shipment.
THEOREM AtMostOneParcel == Spec => []OneParcel
<1>1. OpInv => OneParcel
  BY DEF OpInv, LiveIsClaimed, Live, OneParcel
<1> QED BY <1>1, BookingSound, PTL

\* A late reply and the reconciler may both commit: with a key, the shipment
\* has one job all the same.
THEOREM OneKeyedJob == Spec => []OneJobPerKeyedShipment
<1>1. JobInv => OneJobPerKeyedShipment
  BY DEF JobInv
<1> QED BY <1>1, BookingSound, PTL

-----------------------------------------------------------------------------
(* The refinement: every step of Booking contracts, lets a carrier take the  *)
(* parcel, or leaves both as they are.                                       *)

Parcels == {[op |-> n, quote |-> carrier[n].quote] :
              n \in {m \in Ops : carrier[m].status = "booked"}}

\* Nothing is taken and nothing contracted.
Same == Parcels' = Parcels /\ jobs' = jobs

LEMMA SameUnchanged == Same => [F!Next]_<<Parcels, jobs>>
  BY DEF Same

\* The carrier takes the parcel: it is the first, and nothing is contracted.
LEMMA TakingRefines ==
  ASSUME TypeInv, OpInv, JobInv, NEW n \in Ops, CarrierDecides(n)
  PROVE  [F!Next]_<<Parcels, jobs>>
<1>1. /\ jobs' = jobs /\ carrier[n].status = "sent"
      /\ \A m \in Ops : m # n => carrier'[m] = carrier[m]
      /\ carrier'[n].status \in {"booked", "refused"}
      /\ carrier'[n].quote = carrier[n].quote
  <2>1. carrier \in [Ops -> Operation] /\ carrier[n] \in Operation
    BY DEF TypeInv, TypeOK
  <2>2. PICK s \in {"booked", "refused"} : carrier' = [carrier EXCEPT ![n].status = s]
    BY DEF CarrierDecides
  <2>3. /\ \A m \in Ops : m # n => carrier'[m] = carrier[m]
        /\ carrier'[n].status = s /\ carrier'[n].quote = carrier[n].quote
    BY <2>1, <2>2 DEF Operation
  <2> QED BY <2>3 DEF CarrierDecides
<1>2. \A m \in Ops : carrier[m].status # "booked"
  BY <1>1 DEF OpInv, LiveIsClaimed, Live, Pending
<1>3. jobs = <<>>
  BY <1>1, <1>2, OpsCount DEF OpInv, LiveIsClaimed, Live, Pending, JobInv
<1>4. Parcels = {}
  BY <1>2 DEF Parcels
<1>5. CASE carrier'[n].status = "refused"
  <2>1. \A m \in Ops : carrier'[m].status # "booked"
    BY <1>1, <1>2, <1>5
  <2>2. Parcels' = {}
    BY <2>1 DEF Parcels
  <2> QED BY <1>1, <1>4, <2>2, SameUnchanged DEF Same
<1>6. CASE carrier'[n].status = "booked"
  <2>1. \A m \in Ops : carrier'[m].status = "booked" <=> m = n
    BY <1>1, <1>2, <1>6
  <2>2. Parcels' = {[op |-> n, quote |-> carrier[n].quote]}
    BY <1>1, <2>1 DEF Parcels
  <2>3. PICK p \in [op : Ops, quote : CarrierQuotes] :
          p = [op |-> n, quote |-> carrier[n].quote]
    BY <1>1 DEF TypeInv, CarrierFits
  <2>4. F!CarrierTakes(p)
    BY <1>1, <1>3, <1>4, <2>2, <2>3 DEF F!CarrierTakes, Parcels
  <2>5. F!Next
    BY <2>3, <2>4 DEF F!Next
  <2> QED BY <2>5
<1> QED BY <1>1, <1>5, <1>6

\* A call sends an operation, and takes no parcel.
LEMMA CallRefines ==
  ASSUME TypeInv, OpInv, NEW t \in Tasks, CallCarrier(t)
  PROVE  Same
<1> DEFINE n == task[t].claim.op
<1>1. /\ Carrying(task[t]) /\ task[t].at = "call" /\ n \in Ops
      /\ carrier[n].status = "none"
  BY OpsCount DEF CallCarrier, At, Carrying, OpInv, Sound
<1>2. /\ carrier' = [carrier EXCEPT ![n] =
                       [status |-> "sent", quote |-> task[t].claim.quote]]
      /\ carrier \in [Ops -> Operation] /\ jobs' = jobs
  BY DEF CallCarrier, TypeInv, TypeOK
<1> HIDE DEF n
<1>3. \A m \in Ops : /\ carrier'[m].status = "booked" <=> carrier[m].status = "booked"
                     /\ carrier[m].status = "booked" => carrier'[m] = carrier[m]
  BY <1>1, <1>2
<1>4. Parcels' = Parcels
  BY <1>3 DEF Parcels
<1> QED BY <1>2, <1>4 DEF Same

\* A job is the contract of its operation and price, under its key.
LEMMA JobIsContract ==
  ASSUME NEW c \in Job
  PROVE  c = F!Contract([op |-> c.op, quote |-> c.quote], c.key)
  BY DEF Job, F!Contract

\* The transaction of a carrier's booking contracts the parcel that is held.
LEMMA CarrierRefines ==
  ASSUME TypeInv, OpInv, JobInv, NEW t \in Tasks, CommitCarrier(t)
  PROVE  [F!Next]_<<Parcels, jobs>>
<1> DEFINE c == task[t].claim
           p == [op |-> c.op, quote |-> c.quote]
<1>1. /\ Carrying(task[t]) /\ task[t].at = "commit" /\ c \in CarrierClaim
      /\ Sound(task[t]) /\ c \in Job
  BY ClaimsDiffer DEF CommitCarrier, At, Fits, Carrying, TypeInv, OpInv
<1>2. carrier[c.op].status = "booked" /\ c.op \in Ops /\ c.op # 0
  BY <1>1, OpsCount DEF Sound
<1>3. c = attempt.claim
  BY <1>1, <1>2 DEF Live, OpInv, LiveIsClaimed, Sound
<1>4. carrier[c.op].quote = c.quote
  BY <1>2, <1>3 DEF OpInv, PriceIsClaimed
<1>5. p \in Parcels
  BY <1>2, <1>4 DEF Parcels
<1>6. carrier' = carrier /\ Parcels' = Parcels
  BY DEF CommitCarrier, Parcels
<1>7. CASE jobs' = jobs
  BY <1>6, <1>7, SameUnchanged DEF Same
<1>8. PICK b \in [op : Ops, quote : CarrierQuotes] : b = p
  BY <1>1, <1>2, ClaimsDiffer
<1>9. c = F!Contract(b, c.key) /\ c.key \in Keys \cup {None}
  BY <1>1, <1>8, JobIsContract DEF Job
<1>10. CASE WithKey(c.key) = {} /\ jobs' = Append(jobs, c)
  <2>1. CASE jobs = <<>>
    <3>1. jobs' = <<c>>
      BY <1>10, <2>1
    <3>2. F!ContractCarrier(b, c.key)
      BY <1>5, <1>6, <1>8, <1>9, <2>1, <3>1 DEF F!ContractCarrier, Parcels
    <3>3. F!Next
      BY <1>8, <1>9, <3>2 DEF F!Next
    <3> QED BY <3>3
  <2>2. CASE jobs # <<>>
    <3>1. 1 \in DOMAIN jobs /\ jobs[1] = c
      BY <1>3, <2>2 DEF TypeInv, TypeOK, JobInv
    <3>2. c.key = None
      BY <1>10, <3>1 DEF WithKey
    <3>3. F!ContractAgain(b)
      BY <1>5, <1>6, <1>8, <1>9, <1>10, <2>2, <3>1, <3>2 DEF F!ContractAgain, Parcels
    <3>4. F!Next
      BY <1>8, <3>3 DEF F!Next
    <3> QED BY <3>4
  <2> QED BY <2>1, <2>2
<1> QED BY <1>7, <1>10 DEF CommitCarrier, WriteJob

\* A courier's booking contracts when no carrier was ever asked.
LEMMA CourierRefines ==
  ASSUME TypeInv, OpInv, JobInv, NEW t \in Tasks, CommitCourier(t)
  PROVE  [F!Next]_<<Parcels, jobs>>
<1> DEFINE c == task[t].claim
           p == [op |-> c.op, quote |-> c.quote]
<1>1. carrier' = carrier /\ Parcels' = Parcels
  BY DEF CommitCourier, Parcels
<1>2. CASE jobs' = jobs
  BY <1>1, <1>2, SameUnchanged DEF Same
<1>3. CASE attempt.status = "none" /\ jobs' = Append(jobs, c)
  <2>1. c \in CourierClaim /\ c \in Job /\ c.op = 0 /\ c.quote \in CourierQuotes
    BY ClaimsDiffer DEF CommitCourier, At, Fits, TypeInv
  <2>2. \A n \in Ops : carrier[n].status = "none"
    BY <1>3, OpsCount DEF OpInv, LaterUntouched, Ops
  <2>3. jobs = <<>>
    BY <1>3 DEF JobInv
  <2>4. Parcels = {} /\ jobs' = <<c>>
    BY <1>3, <2>2, <2>3 DEF Parcels
  <2>5. PICK b \in [op : {0}, quote : CourierQuotes] : b = p
    BY <2>1
  <2>6. c = F!Contract(b, c.key) /\ c.key \in Keys \cup {None}
    BY <2>1, <2>5, JobIsContract DEF Job
  <2>7. F!ContractCourier(b, c.key)
    BY <1>1, <2>3, <2>4, <2>5, <2>6 DEF F!ContractCourier, Parcels
  <2>8. F!Next
    BY <2>5, <2>6, <2>7 DEF F!Next
  <2> QED BY <2>8
<1> QED BY <1>2, <1>3 DEF CommitCourier, WriteJob, Admitted

\* Every other step leaves the carrier and the jobs alone.
LEMMA StepRefines ==
  TypeInv /\ OpInv /\ JobInv /\ [Next]_vars => [F!Next]_<<Parcels, jobs>>
<1> SUFFICES ASSUME TypeInv, OpInv, JobInv, [Next]_vars
             PROVE  [F!Next]_<<Parcels, jobs>>
  OBVIOUS
<1>1. CASE carrier' = carrier /\ jobs' = jobs
  BY <1>1, SameUnchanged DEF Same, Parcels
<1>2. ASSUME NEW n \in Ops, CarrierDecides(n)
      PROVE  [F!Next]_<<Parcels, jobs>>
  BY <1>2, TakingRefines
<1>3. ASSUME NEW t \in Tasks,
             CallCarrier(t) \/ CommitCarrier(t) \/ CommitCourier(t)
      PROVE  [F!Next]_<<Parcels, jobs>>
  BY <1>3, CallRefines, SameUnchanged, CarrierRefines, CourierRefines
<1>4. \/ carrier' = carrier /\ jobs' = jobs
      \/ \E n \in Ops : CarrierDecides(n)
      \/ \E t \in Tasks : CallCarrier(t) \/ CommitCarrier(t) \/ CommitCourier(t)
  BY ZenonT(40)
     DEF Next, Underway, BookingStep, BookDirectly, QuoteShipment, CancelWrite,
         InsertClaim, RetakeClaim, CarrierReplies, ReleaseRejected, ReadAttempt,
         TakeLookup, LookupFails, LookupAnswers, ReleaseUnbooked, RefuseInProgress,
         TickStarts, CancelRead, LapseQuote, ClaimGrowsOld, CreateShipment, Book, Die,
         vars
<1> QED BY <1>1, <1>2, <1>3, <1>4

\* Booking implements Fulfilment, whatever is retried, looked up, released or
\* lost: every job is with a courier or with the carrier that holds the one
\* parcel, at the price that parcel was booked at, and only a carrier's parcel
\* booked without a key has more than one.
THEOREM BookingFulfils == Spec => ImplementsFulfilment
<1>1. Init => F!Init
  <2> SUFFICES ASSUME Init PROVE F!Init
    OBVIOUS
  <2>1. \A n \in Ops : carrier[n].status = "none"
    BY DEF Init
  <2>2. Parcels = {} /\ jobs = <<>>
    BY <2>1 DEF Init, Parcels
  <2> QED BY <2>2 DEF F!Init, Parcels
<1>2. TypeInv /\ OpInv /\ JobInv /\ [Next]_vars => [F!Next]_<<Parcels, jobs>>
  BY StepRefines
<1> QED
  BY <1>1, <1>2, BookingSound, PTL DEF Spec, ImplementsFulfilment, F!Spec, Parcels
=============================================================================
