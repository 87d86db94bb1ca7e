------------------------------- MODULE Booking -------------------------------
(***************************************************************************)
(* Booking one shipment into one job: the quotes, the durable claim taken  *)
(* before a carrier is called, the carrier call whose reply may be lost,   *)
(* the reconciler that asks the carrier by operation id, and the one       *)
(* transaction that writes the job.                                        *)
(*                                                                         *)
(* Every row here is keyed by the shipment, so the module follows a single *)
(* one.  Other shipments appear only through ForeignKeys, the idempotency  *)
(* keys they already hold.                                                 *)
(***************************************************************************)
EXTENDS Naturals, Sequences, FiniteSets

CONSTANTS
  CourierQuotes,   \* ids of quotes priced for a Moovo courier
  CarrierQuotes,   \* ids of quotes from external providers
  Keys,            \* idempotency keys a sender may send with a booking
  ForeignKeys,     \* those of Keys that another shipment's booking holds
  None,            \* no quote, no key
  Requests,        \* HTTP requests that can be in progress at once
  Reconcilers,     \* API tasks running the booking reconciler
  MaxAttempts,     \* bound: carrier operations tried for the shipment
  MaxCrashes       \* bound: requests and ticks that die part-way

Quotes == CourierQuotes \cup CarrierQuotes
Tasks  == Requests \cup Reconcilers
Ops    == 1 .. MaxAttempts

ASSUME QuotesDiffer    == /\ CourierQuotes \cap CarrierQuotes = {}
                          /\ None \notin Quotes \cup Keys
ASSUME TasksDiffer     == Requests \cap Reconcilers = {}
ASSUME KeysOfOthers    == ForeignKeys \subseteq Keys
ASSUME BoundsAreCounts == MaxAttempts \in Nat \ {0} /\ MaxCrashes \in Nat

VARIABLES
  shipment,  \* the shipments row: its status and the job it points at
  quote,     \* the quotes rows
  attempt,   \* the shipment_booking_attempts row
  carrier,   \* what the carrier did with each operation id (external)
  jobs,      \* the jobs rows of this shipment, in the order they were inserted
  task,      \* what each request and reconciler tick is in the middle of
  crashes    \* tasks that died so far

vars == <<shipment, quote, attempt, carrier, jobs, task, crashes>>

-----------------------------------------------------------------------------
(* Types *)

\* A job is known by its place in "jobs"; 0 is no job.
Shipment == [status : {"none", "quoting", "quoted", "booked", "cancelled"},
             job    : Nat]

\* A lapsed quote and a reaped one are alike: neither can be booked.
QuoteStatus == {"none", "active", "selected", "lapsed"}

\* What one booking is made under.  Operation 0 is a Moovo-courier booking,
\* which calls no carrier.
Claim   == [op : Nat, quote : Quotes \cup {None}, key : Keys \cup {None}]
NoClaim == [op |-> 0, quote |-> None, key |-> None]

\* "old" is whether updated_at is further back than bookingReconcileAfterMs.
Attempt == [status : {"none", "unknown", "failed", "completed"},
            claim  : Claim, job : Nat, old : BOOLEAN]

Operation == [status : {"none", "sent", "booked", "refused"},
              quote  : Quotes \cup {None}]

Job == [op : Nat, quote : Quotes, key : Keys \cup {None}]

BookingLabels == {"idle", "quotes", "cancel", "claim", "reconcile", "take",
                  "lookup", "release", "retake", "call", "reply", "rejected",
                  "commit"}

\* "own" is what a request asked for, as long as it may still claim it; "claim"
\* what it books under or looks up.
TaskOf(labels) == [at : labels, own : Claim, claim : Claim]
Idle == [at |-> "idle", own |-> NoClaim, claim |-> NoClaim]

At(t, label)         == task[t].at = label
Become(t, st)        == task' = [task EXCEPT ![t] = st]
Goto(t, label)       == Become(t, [task[t] EXCEPT !.at = label])
Hold(t, label, c)    == Become(t, [Idle EXCEPT !.at = label, !.claim = c])
Finish(t)            == Become(t, Idle)

\* What markAttemptFailed or a lookup leaves a task to do: a request goes on to
\* book again, a reconciler's tick is over.
AfterFailure(t) ==
  IF t \in Requests
  THEN Become(t, [task[t] EXCEPT !.at = "retake", !.claim = NoClaim])
  ELSE Finish(t)

Init ==
  /\ shipment = [status |-> "none", job |-> 0]
  /\ quote    = [q \in Quotes |-> "none"]
  /\ attempt  = [status |-> "none", claim |-> NoClaim, job |-> 0, old |-> FALSE]
  /\ carrier  = [n \in Ops |-> [status |-> "none", quote |-> None]]
  /\ jobs     = <<>>
  /\ task     = [t \in Tasks |-> Idle]
  /\ crashes  = 0

-----------------------------------------------------------------------------
(* The shipment and its quotes *)

CreateShipment(t) ==
  /\ At(t, "idle") /\ t \in Requests
  /\ shipment.status = "none"
  /\ shipment' = [shipment EXCEPT !.status = "quoting"]
  /\ Goto(t, "quotes")
  /\ UNCHANGED <<quote, attempt, carrier, jobs, crashes>>

\* The end of the fan-out: one courier quote and the carriers' quotes are
\* inserted and the shipment is flipped, in one transaction.
LandQuotes(c) ==
  /\ quote[c] = "none"
  /\ quote' = [q \in Quotes |-> IF q = c \/ (q \in CarrierQuotes /\ quote[q] = "none")
                                THEN "active" ELSE quote[q]]
  /\ shipment' = [shipment EXCEPT !.status = IF @ = "quoting" THEN "quoted" ELSE @]

QuoteShipment(t) ==
  /\ At(t, "quotes")
  /\ \E c \in CourierQuotes : LandQuotes(c)
  /\ Finish(t)
  /\ UNCHANGED <<attempt, carrier, jobs, crashes>>

LapseQuote(q) ==
  /\ quote[q] \in {"active", "selected"}
  /\ quote' = [quote EXCEPT ![q] = "lapsed"]
  /\ UNCHANGED <<shipment, attempt, carrier, jobs, task, crashes>>

\* cancel reads the status and refuses, and only then writes: two statements.
CancelRead(t) ==
  /\ At(t, "idle") /\ t \in Requests
  /\ shipment.status \in {"quoting", "quoted"}
  /\ Goto(t, "cancel")
  /\ UNCHANGED <<shipment, quote, attempt, carrier, jobs, crashes>>

CancelWrite(t) ==
  /\ At(t, "cancel")
  /\ shipment' = [shipment EXCEPT !.status = "cancelled"]
  /\ Finish(t)
  /\ UNCHANGED <<quote, attempt, carrier, jobs, crashes>>

-----------------------------------------------------------------------------
(* bookShipment, up to the claim *)

Bookable(q) ==
  /\ ~ (shipment.status = "booked" /\ shipment.job # 0)
  /\ shipment.status \notin {"none", "cancelled"}
  /\ quote[q] = "active"

\* The reads before any effect.  A key of another shipment gets this far when
\* that shipment's job is not there yet.
Book(t, q, k) ==
  /\ At(t, "idle") /\ t \in Requests
  /\ Bookable(q)
  /\ LET c == [op |-> 0, quote |-> q, key |-> k]
     IN IF q \in CourierQuotes
        THEN Hold(t, "commit", c)
        ELSE Become(t, [Idle EXCEPT !.at = "claim", !.own = c])
  /\ UNCHANGED <<shipment, quote, attempt, carrier, jobs, crashes>>

\* The row, as the claim "c" leaves it.
Claimed(c) == [status |-> "unknown", claim |-> c, job |-> 0, old |-> FALSE]

\* INSERT ... ON CONFLICT DO NOTHING: the conflict may be on the shipment or on
\* the key.
InsertClaim(t) ==
  /\ At(t, "claim")
  /\ IF attempt.status = "none" /\ task[t].own.key \notin ForeignKeys
     THEN LET c == [task[t].own EXCEPT !.op = 1]
          IN attempt' = Claimed(c) /\ Hold(t, "call", c)
     ELSE UNCHANGED attempt /\ Goto(t, "reconcile")
  /\ UNCHANGED <<shipment, quote, carrier, jobs, crashes>>

\* A claim known to have failed is taken again under the next operation id.
RetakeClaim(t) ==
  /\ At(t, "retake")
  /\ IF attempt.status = "failed" /\ task[t].own.key \notin ForeignKeys
     THEN /\ attempt.claim.op < MaxAttempts
          /\ LET c == [task[t].own EXCEPT !.op = attempt.claim.op + 1]
             IN attempt' = Claimed(c) /\ Hold(t, "call", c)
     ELSE UNCHANGED attempt /\ Finish(t)
  /\ UNCHANGED <<shipment, quote, carrier, jobs, crashes>>

-----------------------------------------------------------------------------
(* The carrier call *)

CallCarrier(t) ==
  /\ At(t, "call")
  /\ carrier' = [carrier EXCEPT ![task[t].claim.op] =
                   [status |-> "sent", quote |-> task[t].claim.quote]]
  /\ Goto(t, "reply")
  /\ UNCHANGED <<shipment, quote, attempt, jobs, crashes>>

CarrierDecides(n) ==
  /\ carrier[n].status = "sent"
  /\ \E s \in {"booked", "refused"} : carrier' = [carrier EXCEPT ![n].status = s]
  /\ UNCHANGED <<shipment, quote, attempt, jobs, task, crashes>>

\* The reply arrives, or it is lost and the request ends with the claim unknown.
CarrierReplies(t) ==
  /\ At(t, "reply")
  /\ \/ /\ carrier[task[t].claim.op].status = "booked"
        /\ Goto(t, "commit")
     \/ /\ carrier[task[t].claim.op].status = "refused"
        /\ Goto(t, "rejected")
     \/ Finish(t)
  /\ UNCHANGED <<shipment, quote, attempt, carrier, jobs, crashes>>

\* Mutant: the carrier's own word is stored, which the column does not allow.
MarkAttemptRefused(n) ==
  attempt' = IF attempt.status = "unknown" /\ attempt.claim.op = n
             THEN [attempt EXCEPT !.status = "refused", !.old = FALSE]
             ELSE attempt

\* markAttemptFailed, guarded on the operation it is about.
MarkAttemptFailed(n) ==
  attempt' = IF attempt.status = "unknown" /\ attempt.claim.op = n
             THEN [attempt EXCEPT !.status = "failed", !.old = FALSE]
             ELSE attempt

ReleaseRejected(t) ==
  /\ At(t, "rejected")
  /\ MarkAttemptFailed(task[t].claim.op)
  /\ Finish(t)
  /\ UNCHANGED <<shipment, quote, carrier, jobs, crashes>>

-----------------------------------------------------------------------------
(* reconcileExternalBooking, by a retrying sender or by the reconciler *)

\* Mutant: the tick lists the attempts that failed instead of the unknown ones.
TickListsFailed(t) ==
  /\ At(t, "idle") /\ t \in Reconcilers
  /\ attempt.status = "failed" /\ attempt.old
  /\ Goto(t, "reconcile")
  /\ UNCHANGED <<shipment, quote, attempt, carrier, jobs, crashes>>

\* listUnknownBookingShipments.
TickStarts(t) ==
  /\ At(t, "idle") /\ t \in Reconcilers
  /\ attempt.status = "unknown" /\ attempt.old
  /\ Goto(t, "reconcile")
  /\ UNCHANGED <<shipment, quote, attempt, carrier, jobs, crashes>>

ReadAttempt(t) ==
  /\ At(t, "reconcile")
  /\ \/ attempt.status = "unknown" /\ Goto(t, "take")
     \/ attempt.status = "failed" /\ AfterFailure(t)
     \/ attempt.status \in {"none", "completed"} /\ Finish(t)
  /\ UNCHANGED <<shipment, quote, attempt, carrier, jobs, crashes>>

\* Mutant: the booking found is committed at the price of the request that asked.
TakeLookupAtOwnPrice(t) ==
  /\ At(t, "take")
  /\ IF attempt.status = "unknown" /\ attempt.old
     THEN /\ attempt' = [attempt EXCEPT !.old = FALSE]
          /\ Become(t, [task[t] EXCEPT
                          !.at = "lookup",
                          !.claim = [attempt.claim EXCEPT
                                       !.quote = IF t \in Requests
                                                 THEN task[t].own.quote ELSE @]])
     ELSE UNCHANGED attempt /\ Finish(t)
  /\ UNCHANGED <<shipment, quote, carrier, jobs, crashes>>

\* The compare-and-swap on updated_at: one asker per window.
TakeLookup(t) ==
  /\ At(t, "take")
  /\ IF attempt.status = "unknown" /\ attempt.old
     THEN /\ attempt' = [attempt EXCEPT !.old = FALSE]
          /\ Become(t, [task[t] EXCEPT !.at = "lookup", !.claim = attempt.claim])
     ELSE UNCHANGED attempt /\ Finish(t)
  /\ UNCHANGED <<shipment, quote, carrier, jobs, crashes>>

\* Mutant: a carrier that cannot answer is taken to hold nothing.
LookupFailsAsNone(t) ==
  /\ At(t, "lookup")
  /\ Goto(t, "release")
  /\ UNCHANGED <<shipment, quote, attempt, carrier, jobs, crashes>>

\* A carrier that cannot answer leaves the claim for the next window.
LookupFails(t) ==
  /\ At(t, "lookup")
  /\ Finish(t)
  /\ UNCHANGED <<shipment, quote, attempt, carrier, jobs, crashes>>

LookupAnswers(t) ==
  /\ At(t, "lookup")
  /\ IF carrier[task[t].claim.op].status = "booked"
     THEN Hold(t, "commit", task[t].claim)
     ELSE Goto(t, "release")
  /\ UNCHANGED <<shipment, quote, attempt, carrier, jobs, crashes>>

ReleaseUnbooked(t) ==
  /\ At(t, "release")
  /\ MarkAttemptFailed(task[t].claim.op)
  /\ AfterFailure(t)
  /\ UNCHANGED <<shipment, quote, carrier, jobs, crashes>>

\* Time passes.  bookingReconcileAfterMs is "far longer than any carrier call
\* takes": a claim grows old only once its call is over.
ClaimGrowsOld ==
  /\ attempt.status = "unknown" /\ ~ attempt.old
  /\ carrier[attempt.claim.op].status # "sent"
  /\ \A t \in Tasks : At(t, "call") => task[t].claim.op # attempt.claim.op
  /\ attempt' = [attempt EXCEPT !.old = TRUE]
  /\ UNCHANGED <<shipment, quote, carrier, jobs, task, crashes>>

-----------------------------------------------------------------------------
(* commitBooking *)

WithKey(k) == {i \in DOMAIN jobs : k # None /\ jobs[i].key = k}

\* Mutant: the insert does not name the key's index as its arbiter.
WriteJobAlways(c, row) ==
  /\ jobs' = Append(jobs, c)
  /\ quote' = [quote EXCEPT ![c.quote] =
                 IF @ \in {"active", "selected"} THEN "selected" ELSE @]
  /\ shipment' = [status |-> "booked", job |-> Len(jobs) + 1]
  /\ attempt' = [row EXCEPT !.status = "completed", !.claim.quote = c.quote,
                            !.job = Len(jobs) + 1, !.old = FALSE]

\* The job, the selected quote, the booked shipment and the completed claim.
\* A job of the same key cancels the insert, and the booking converges on it.
WriteJob(c, row) ==
  IF WithKey(c.key) # {}
  THEN UNCHANGED <<jobs, quote, shipment, attempt>>
  ELSE /\ jobs' = Append(jobs, c)
       /\ quote' = [quote EXCEPT ![c.quote] =
                      IF @ \in {"active", "selected"} THEN "selected" ELSE @]
       /\ shipment' = [status |-> "booked", job |-> Len(jobs) + 1]
       /\ attempt' = [row EXCEPT !.status = "completed", !.claim.quote = c.quote,
                                 !.job = Len(jobs) + 1, !.old = FALSE]

CommitCarrier(t) ==
  /\ At(t, "commit") /\ task[t].claim.op # 0
  /\ WriteJob(task[t].claim, attempt)
  /\ Finish(t)
  /\ UNCHANGED <<carrier, crashes>>

\* A Moovo-courier booking inserts its claim in the transaction of the job.  A
\* claim that is already there either has its job, or refuses the booking.
Admitted(c) == attempt.status = "none" /\ c.key \notin ForeignKeys

RefuseInProgress(t) ==
  /\ At(t, "commit") /\ task[t].claim.op = 0
  /\ ~ Admitted(task[t].claim) /\ attempt.job = 0
  /\ Finish(t)
  /\ UNCHANGED <<shipment, quote, attempt, carrier, jobs, crashes>>

CommitCourier(t) ==
  /\ At(t, "commit") /\ task[t].claim.op = 0
  /\ \/ /\ Admitted(task[t].claim)
        /\ WriteJob(task[t].claim, Claimed(task[t].claim))
     \/ /\ ~ Admitted(task[t].claim) /\ attempt.job # 0
        /\ UNCHANGED <<shipment, quote, attempt, jobs>>
  /\ Finish(t)
  /\ UNCHANGED <<carrier, crashes>>

-----------------------------------------------------------------------------
\* The process dies, or the database refuses its next statement.
Die(t) ==
  /\ ~ At(t, "idle") /\ crashes < MaxCrashes
  /\ crashes' = crashes + 1
  /\ Finish(t)
  /\ UNCHANGED <<shipment, quote, attempt, carrier, jobs>>

BookingStep(t) ==
  \/ QuoteShipment(t)   \/ CancelWrite(t)
  \/ InsertClaim(t)     \/ RetakeClaim(t)
  \/ CallCarrier(t)     \/ CarrierReplies(t)  \/ ReleaseRejected(t)
  \/ ReadAttempt(t)     \/ TakeLookup(t)
  \/ LookupFails(t)     \/ LookupAnswers(t)   \/ ReleaseUnbooked(t)
  \/ CommitCarrier(t)   \/ CommitCourier(t)   \/ RefuseInProgress(t)

\* What happens to a shipment whoever books it: steps under way, its
\* cancellation by the sender, the reconciler, the carrier and the clock.
Underway ==
  \/ \E t \in Tasks : BookingStep(t) \/ TickStarts(t) \/ CancelRead(t)
  \/ \E q \in Quotes : LapseQuote(q)
  \/ \E n \in Ops : CarrierDecides(n)
  \/ ClaimGrowsOld

BookDirectly(t) == \E q \in Quotes, k \in Keys \cup {None} : Book(t, q, k)

Next == \/ Underway
        \/ \E t \in Tasks : CreateShipment(t) \/ BookDirectly(t) \/ Die(t)

\* Requests and ticks run on once started; the timer ticks; time passes; and a
\* carrier that is asked again and again sooner or later answers.
Fairness ==
  /\ \A t \in Tasks : WF_vars(BookingStep(t))
  /\ \A t \in Reconcilers : WF_vars(TickStarts(t))
  /\ \A n \in Ops : WF_vars(CarrierDecides(n))
  /\ WF_vars(ClaimGrowsOld)
  /\ SF_vars(\E t \in Tasks : LookupAnswers(t))

Spec     == Init /\ [][Next]_vars
LiveSpec == Spec /\ Fairness

-----------------------------------------------------------------------------
(* Properties *)

\* Every row, and every local of a request or tick, has the shape its columns
\* and variables allow; the attempt's status is one the schema's CHECK knows.
TypeOK ==
  /\ shipment \in Shipment
  /\ quote \in [Quotes -> QuoteStatus]
  /\ attempt \in Attempt
  /\ carrier \in [Ops -> Operation]
  /\ jobs \in Seq(Job)
  /\ task \in [Tasks -> TaskOf(BookingLabels)]
  /\ crashes \in 0 .. MaxCrashes

\* However many requests and ticks claim, retry, look up and release, the
\* carrier never holds two parcels for the shipment.
OneParcel ==
  \A m, n \in Ops :
    carrier[m].status = "booked" /\ carrier[n].status = "booked" => m = n

\* A late reply and the reconciler may both commit the booking; with a key the
\* second insert is cancelled, so two jobs of the shipment are both keyless.
\* (Two of those there can be: bookShipment's "exactly ONE job" wants a key.)
\* Guards commitBooking and the unique key of insertJobIfAbsent.
OneJobPerKeyedShipment ==
  \A i, j \in DOMAIN jobs : i # j => jobs[i].key = None /\ jobs[j].key = None

\* A parcel the carrier holds becomes a job, even when its reply was lost and
\* the request that sent it is gone: the reconciler finds it.
EveryParcelGetsItsJob ==
  \A n \in Ops :
    carrier[n].status = "booked" ~> \E i \in DOMAIN jobs : jobs[i].op = n

\* The contract of Fulfilment: parcels are the carrier's bookings, and the
\* contracts are the jobs, one for each row.
F == INSTANCE Fulfilment WITH
       Carriers  <- [op : Ops, quote : CarrierQuotes],
       Couriers  <- [op : {0}, quote : CourierQuotes],
       parcels   <- {[op |-> n, quote |-> carrier[n].quote] :
                       n \in {m \in Ops : carrier[m].status = "booked"}},
       contracts <- jobs

\* Booking, with its claims, retries and reconciliation, implements Fulfilment:
\* every job of a shipment is with a courier or with the carrier that holds its
\* parcel, at the price that parcel was booked at, and there is one job of it,
\* or several of one carrier's parcel that was booked without a key.
ImplementsFulfilment == F!Spec
=============================================================================
