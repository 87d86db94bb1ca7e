------------------------------ MODULE Dispatch ------------------------------
(***************************************************************************)
(* Real-time dispatch of Moovo-courier jobs: the offer waves, the race to  *)
(* accept, the courier-driven legs, cancellation, the offer-expiry sweep,  *)
(* and the couriers' availability and suspension.                          *)
(*                                                                         *)
(* The state is the PostgreSQL rows every API task shares.  The code runs  *)
(* each SQL statement outside an explicit transaction as its own commit,   *)
(* so a handler is a process that takes one step per statement and can be  *)
(* overtaken, or die, between any two of them.                             *)
(***************************************************************************)
EXTENDS Naturals, Sequences, FiniteSets

CONSTANTS
  Jobs,        \* Moovo-courier jobs (external-provider jobs are not dispatched)
  Couriers,    \* courier accounts
  Offers,      \* ids of job_offers rows; no id is ever used twice
  Handlers,    \* HTTP requests that can be in progress at once
  Sweepers,    \* maintenance workers that can run the offer sweep at once
  Sender,      \* the account that booked, as the actor of a status event
  None,        \* no courier, no offer, no actor
  WaveSize,    \* config.dispatch.waveSize
  MaxWaves,    \* config.dispatch.maxWaves
  MaxCrashes,  \* bound: handlers that may die part-way in one behaviour
  MaxShifts    \* bound: changes of courier availability in one behaviour

ASSUME ActorsDiffer ==
  /\ None \notin Couriers \cup Jobs \cup Offers \cup {Sender}
  /\ Sender \notin Couriers
ASSUME ProcessesDiffer == Handlers \cap Sweepers = {}
ASSUME LimitsAreCounts ==
  /\ WaveSize \in Nat /\ MaxWaves \in Nat
  /\ MaxCrashes \in Nat /\ MaxShifts \in Nat

VARIABLES
  status,    \* jobs.status, "unbooked" before the row exists
  courier,   \* jobs.courierOxyUserId
  attempts,  \* jobs.dispatchAttempts
  clear,     \* isPaymentClearForDispatch: nothing to pay, or payment secured
  trail,     \* job_status_events of the job, oldest first
  pointer,   \* tracked_parcels.status of the job's pointer row
  offer,     \* the job_offers rows
  standing,  \* courier_profiles.status
  online,    \* courier_profiles.onlineStatus
  rate,      \* courier_profiles.acceptanceRate, as the offers it counted
  task,      \* what each handler and sweeper is in the middle of
  crashes,   \* handlers that died so far
  shifts     \* changes of courier availability so far

jobVars     == <<status, courier, attempts, clear, trail, pointer>>
courierVars == <<standing, online, rate>>
bounds      == <<crashes, shifts>>
vars        == <<jobVars, offer, courierVars, task, bounds>>

Tasks == Handlers \cup Sweepers

-----------------------------------------------------------------------------
(* Types *)

JobStatus == {"requested", "offered", "accepted", "picked_up", "in_transit",
              "delivered", "cancelled"}
AwaitingCourier == {"requested", "offered"}
Terminal        == {"delivered", "cancelled"}

\* The allowed transitions, as pairs.
JOB_TRANSITIONS ==
  {<<"requested", "offered">>,    <<"requested", "accepted">>,
   <<"requested", "cancelled">>,  <<"offered", "accepted">>,
   <<"offered", "cancelled">>,    <<"offered", "requested">>,
   <<"accepted", "picked_up">>,   <<"accepted", "cancelled">>,
   <<"picked_up", "in_transit">>, <<"picked_up", "cancelled">>,
   <<"in_transit", "delivered">>, <<"in_transit", "cancelled">>}

\* The legs a courier drives: pickup, startTransit, deliver and their scans.
CourierLegs == {<<"accepted", "picked_up">>, <<"picked_up", "in_transit">>,
                <<"in_transit", "delivered">>}

TrackingStatus == {"pending", "info_received", "in_transit",
                   "out_for_delivery", "delivered", "cancelled"}

Tracking(s) ==
  CASE s \in AwaitingCourier -> "pending"
    [] s = "accepted"        -> "info_received"
    [] s = "picked_up"       -> "in_transit"
    [] s = "in_transit"      -> "out_for_delivery"
    [] s = "delivered"       -> "delivered"
    [] s = "cancelled"       -> "cancelled"

Event == [status : JobStatus, by : Couriers \cup {Sender, None}]

\* "none" before the row is inserted.  An offer is fresh until its deadline,
\* then lapsed, and purged once the expiry sweep has deleted the row: only
\* the id and how the offer ended are remembered of a purged one.
OfferRow == [status  : {"none", "offered", "accepted", "superseded", "expired"},
             age     : {"fresh", "lapsed", "purged"},
             job     : Jobs \cup {None},
             courier : Couriers \cup {None}]

NoOffer == [status |-> "none", age |-> "fresh", job |-> None, courier |-> None]

Labels == {"idle",
           "dispatchRead", "dispatchExclude", "dispatchSelect",
           "dispatchRecord", "dispatchMove", "dispatchInsert",
           "acceptCas", "acceptLost", "acceptMark", "acceptSupersede",
           "acceptBusy", "acceptCount", "acceptRate", "cancelSupersede",
           "mirror",
           "sweepList", "sweepNext", "sweepAccepted", "sweepReread",
           "sweepCancel", "sweepSupersede"}

\* The offers an acceptance rate is made of: what was accepted of what ended.
Counts   == [accepted : SUBSET Offers, resolved : SUBSET Offers]
NoCounts == [accepted |-> {}, resolved |-> {}]

\* The local variables of a running handler.  "todo" is what is left of the
\* sweep's candidate list, each job with the attempts it was listed with.
TaskState == [at         : Labels,
              job        : Jobs \cup {None},
              courier    : Couriers \cup {None},
              offer      : Offers \cup {None},
              seen       : JobStatus \cup {"unbooked"},
              wave       : Nat,
              excluded   : SUBSET Couriers,
              candidates : SUBSET Couriers,
              counts     : Counts,
              todo       : SUBSET [job : Jobs, attempts : Nat]]

Idle == [at |-> "idle", job |-> None, courier |-> None, offer |-> None,
         seen |-> "unbooked", wave |-> 0, excluded |-> {}, candidates |-> {},
         counts |-> NoCounts, todo |-> {}]

-----------------------------------------------------------------------------
(* Rows and statements *)

Visible(o) == offer[o].status # "none" /\ offer[o].age # "purged"

OffersInStatus(j, s) ==
  {o \in Offers : Visible(o) /\ offer[o].job = j /\ offer[o].status = s}

\* findDispatchCandidates, without the geography: distance, freshness of the
\* ping and vehicle capability may drop any courier from the result.
DispatchPool == {c \in Couriers : online[c] = "online" /\ standing[c] = "active"}

SetOfferStatus(o, s) ==
  offer' = [offer EXCEPT ![o].status = IF Visible(o) THEN s ELSE @]

SupersedeLiveOffers(j, except) ==
  offer' = [o \in Offers |->
              IF o \in OffersInStatus(j, "offered") \ {except}
              THEN [offer[o] EXCEPT !.status = "superseded"]
              ELSE offer[o]]

\* Mutant: the UPDATE is keyed by the id only, not by the status that was read.
TransitionUnguarded(j, from, to, by) ==
  /\ <<from, to>> \in JOB_TRANSITIONS
  /\ status' = [status EXCEPT ![j] = to]
  /\ trail'  = [trail EXCEPT ![j] = Append(@, [status |-> to, by |-> by])]

\* casJobStatus and insertJobStatusEvent, in one transaction.
Transition(j, from, to, by) ==
  /\ status[j] = from
  /\ <<from, to>> \in JOB_TRANSITIONS
  /\ status' = [status EXCEPT ![j] = to]
  /\ trail'  = [trail EXCEPT ![j] = Append(@, [status |-> to, by |-> by])]

At(t, label)  == task[t].at = label
Become(t, st) == task' = [task EXCEPT ![t] = st]
Goto(t, label) == Become(t, [task[t] EXCEPT !.at = label])

\* A handler is done; a sweep goes on to the rest of its list.
Resume(t) ==
  Become(t, IF task[t].todo = {}
            THEN Idle
            ELSE [Idle EXCEPT !.at = "sweepNext", !.todo = task[t].todo])

Init ==
  /\ status   = [j \in Jobs |-> "unbooked"]
  /\ courier  = [j \in Jobs |-> None]
  /\ attempts = [j \in Jobs |-> 0]
  /\ clear    = [j \in Jobs |-> FALSE]
  /\ trail    = [j \in Jobs |-> <<>>]
  /\ pointer  = [j \in Jobs |-> "pending"]
  /\ offer    = [o \in Offers |-> NoOffer]
  /\ standing \in [Couriers -> {"pending", "active"}]
  /\ online   \in [Couriers -> {"offline", "online"}]
  /\ rate     = [c \in Couriers |-> NoCounts]
  /\ task     = [t \in Tasks |-> Idle]
  /\ crashes  = 0
  /\ shifts   = 0

-----------------------------------------------------------------------------
(* Booking a Moovo-courier shipment: the job, its first status event and its  *)
(* tracker pointer commit together, then the same request dispatches it.     *)

Book(t, j) ==
  /\ At(t, "idle")
  /\ status[j] = "unbooked"
  /\ status' = [status EXCEPT ![j] = "requested"]
  /\ trail'  = [trail EXCEPT
                  ![j] = <<[status |-> "requested", by |-> Sender]>>]
  /\ \E paid \in BOOLEAN : clear' = [clear EXCEPT ![j] = paid]
  /\ pointer' = [pointer EXCEPT ![j] = Tracking("requested")]
  /\ Become(t, [Idle EXCEPT !.at = "dispatchRead", !.job = j])
  /\ UNCHANGED <<courier, attempts, offer, courierVars, bounds>>

-----------------------------------------------------------------------------
(* dispatchJob: one wave of offers *)

\* Mutant: the payment gate is left to the callers.
DispatchReadUnpaid(t) ==
  LET j == task[t].job IN
  /\ At(t, "dispatchRead")
  /\ IF status[j] \in AwaitingCourier
     THEN Become(t, [task[t] EXCEPT !.at   = "dispatchExclude",
                                    !.seen = status[j],
                                    !.wave = attempts[j] + 1])
     ELSE Resume(t)
  /\ UNCHANGED <<jobVars, offer, courierVars, bounds>>

DispatchRead(t) ==
  LET j == task[t].job IN
  /\ At(t, "dispatchRead")
  /\ \/ /\ status[j] \in AwaitingCourier /\ clear[j]
        /\ Become(t, [task[t] EXCEPT !.at   = "dispatchExclude",
                                     !.seen = status[j],
                                     !.wave = attempts[j] + 1])
     \/ /\ ~(status[j] \in AwaitingCourier /\ clear[j])
        /\ Resume(t)
  /\ UNCHANGED <<jobVars, offer, courierVars, bounds>>

\* The assigned courier is excluded too, but a job read as requested or
\* offered has none.
DispatchExclude(t) ==
  /\ At(t, "dispatchExclude")
  /\ Become(t, [task[t] EXCEPT
                  !.at       = "dispatchSelect",
                  !.excluded = {offer[o].courier :
                                  o \in OffersInStatus(task[t].job, "offered")}])
  /\ UNCHANGED <<jobVars, offer, courierVars, bounds>>

DispatchSelect(t) ==
  /\ At(t, "dispatchSelect")
  /\ \E nearby \in SUBSET (DispatchPool \ task[t].excluded) :
       /\ Cardinality(nearby) <= WaveSize
       /\ Become(t, [task[t] EXCEPT !.at         = "dispatchRecord",
                                    !.candidates = nearby])
  /\ UNCHANGED <<jobVars, offer, courierVars, bounds>>

\* Mutant: a wave that finds nobody returns before it is recorded.
DispatchRecordFound(t) ==
  /\ At(t, "dispatchRecord")
  /\ IF task[t].candidates = {}
     THEN Resume(t) /\ UNCHANGED attempts
     ELSE /\ attempts' = [attempts EXCEPT ![task[t].job] = task[t].wave]
          /\ Goto(t, IF task[t].seen = "requested" THEN "dispatchMove"
                                                   ELSE "dispatchInsert")
  /\ UNCHANGED <<status, courier, clear, trail, pointer, offer, courierVars,
                 bounds>>

\* The wave counts even when it found nobody.
DispatchRecord(t) ==
  /\ At(t, "dispatchRecord")
  /\ attempts' = [attempts EXCEPT ![task[t].job] = task[t].wave]
  /\ \/ task[t].candidates = {} /\ Resume(t)
     \/ /\ task[t].candidates # {}
        /\ Goto(t, IF task[t].seen = "requested" THEN "dispatchMove"
                                                 ELSE "dispatchInsert")
  /\ UNCHANGED <<status, courier, clear, trail, pointer, offer, courierVars,
                 bounds>>

\* The first wave moves the job; losing that race abandons the wave.
DispatchMove(t) ==
  LET j == task[t].job IN
  /\ At(t, "dispatchMove")
  /\ \/ /\ Transition(j, "requested", "offered", None)
        /\ Goto(t, "dispatchInsert")
     \/ /\ status[j] # "requested"
        /\ Resume(t)
        /\ UNCHANGED <<status, trail>>
  /\ UNCHANGED <<courier, attempts, clear, pointer, offer, courierVars, bounds>>

\* One offer per candidate, each its own commit; one that fails is skipped.
DispatchInsert(t) ==
  /\ At(t, "dispatchInsert")
  /\ \E c \in task[t].candidates :
       /\ \/ \E o \in Offers :
               /\ offer[o].status = "none"
               /\ offer' = [offer EXCEPT
                              ![o] = [status |-> "offered", age |-> "fresh",
                                      job |-> task[t].job, courier |-> c]]
          \/ UNCHANGED offer
       /\ \/ task[t].candidates = {c} /\ Resume(t)
          \/ /\ task[t].candidates # {c}
             /\ Become(t, [task[t] EXCEPT !.candidates = @ \ {c}])
  /\ UNCHANGED <<jobVars, courierVars, bounds>>

-----------------------------------------------------------------------------
(* accept *)

\* The offer gate.  The job's payment gate is passed on the same read.
AcceptFind(t, o) ==
  /\ At(t, "idle")
  /\ Visible(o) /\ offer[o].status = "offered"
  /\ clear[offer[o].job]
  /\ Become(t, [Idle EXCEPT !.at      = "acceptCas",
                            !.job     = offer[o].job,
                            !.courier = offer[o].courier,
                            !.offer   = o])
  /\ UNCHANGED <<jobVars, offer, courierVars, bounds>>

\* Mutant: the accept writes the row it read, whatever became of it since.
AcceptWinAnyway(t) ==
  LET j == task[t].job
      c == task[t].courier
  IN
  /\ At(t, "acceptCas")
  /\ status'  = [status EXCEPT ![j] = "accepted"]
  /\ trail'   = [trail EXCEPT ![j] = Append(@, [status |-> "accepted", by |-> c])]
  /\ courier' = [courier EXCEPT ![j] = c]
  /\ Goto(t, "acceptMark")
  /\ UNCHANGED <<attempts, clear, pointer, offer, courierVars, bounds>>

\* casJobAccepted: the status and the assignment in one UPDATE.
AcceptWin(t) ==
  LET j == task[t].job
      c == task[t].courier
  IN
  /\ At(t, "acceptCas")
  /\ Transition(j, "offered", "accepted", c)
  /\ courier' = [courier EXCEPT ![j] = c]
  /\ Goto(t, "acceptMark")
  /\ UNCHANGED <<attempts, clear, pointer, offer, courierVars, bounds>>

\* Mutant: the result of the CAS is not looked at.
AcceptLoseUnnoticed(t) ==
  /\ At(t, "acceptCas")
  /\ status[task[t].job] # "offered"
  /\ Goto(t, "acceptMark")
  /\ UNCHANGED <<jobVars, offer, courierVars, bounds>>

AcceptLose(t) ==
  /\ At(t, "acceptCas")
  /\ status[task[t].job] # "offered"
  /\ Goto(t, "acceptLost")
  /\ UNCHANGED <<jobVars, offer, courierVars, bounds>>

AcceptLost(t) ==
  /\ At(t, "acceptLost")
  /\ SetOfferStatus(task[t].offer, "superseded")
  /\ Become(t, Idle)
  /\ UNCHANGED <<jobVars, courierVars, bounds>>

AcceptMark(t) ==
  /\ At(t, "acceptMark")
  /\ SetOfferStatus(task[t].offer, "accepted")
  /\ Goto(t, "acceptSupersede")
  /\ UNCHANGED <<jobVars, courierVars, bounds>>

AcceptSupersede(t) ==
  /\ At(t, "acceptSupersede")
  /\ SupersedeLiveOffers(task[t].job, task[t].offer)
  /\ Goto(t, "acceptBusy")
  /\ UNCHANGED <<jobVars, courierVars, bounds>>

\* markCourierOnJob
AcceptBusy(t) ==
  /\ At(t, "acceptBusy")
  /\ online' = [online EXCEPT ![task[t].courier] = "on_job"]
  /\ Goto(t, "acceptCount")
  /\ UNCHANGED <<jobVars, offer, standing, rate, bounds>>

\* Of these rows, the courier's that ended, and those that were accepted.
Outcomes(c, rows) ==
  [accepted |-> {o \in rows : /\ offer[o].courier = c
                              /\ offer[o].status = "accepted"},
   resolved |-> {o \in rows : /\ offer[o].courier = c
                              /\ offer[o].status # "offered"}]

\* recomputeAcceptanceRate, best effort: it ends when nothing counts or the read fails.
AcceptCount(t) ==
  LET counts == Outcomes(task[t].courier, {o \in Offers : Visible(o)}) IN
  /\ At(t, "acceptCount")
  /\ \/ /\ counts.resolved # {}
        /\ Become(t, [task[t] EXCEPT !.at = "acceptRate", !.counts = counts])
     \/ Become(t, [task[t] EXCEPT !.at = "mirror", !.seen = "accepted"])
  /\ UNCHANGED <<jobVars, offer, courierVars, bounds>>

\* What was counted is written, however old it is by now.
AcceptRate(t) ==
  /\ At(t, "acceptRate")
  /\ \/ rate' = [rate EXCEPT ![task[t].courier] = task[t].counts]
     \/ UNCHANGED rate
  /\ Become(t, [task[t] EXCEPT !.at = "mirror", !.seen = "accepted",
                               !.counts = NoCounts])
  /\ UNCHANGED <<jobVars, offer, standing, online, bounds>>

-----------------------------------------------------------------------------
(* The courier's legs, and cancellation by either party.  Each handler reads *)
(* the job, checks it, and moves it with a CAS on the status it read, so the *)
(* read and the CAS that succeeds are one step.                              *)

\* pickup, startTransit, deliver and both legs of scanJob.
Advance(t, j, leg) ==
  /\ At(t, "idle")
  /\ courier[j] # None
  /\ Transition(j, leg[1], leg[2], courier[j])
  /\ Become(t, [Idle EXCEPT !.at = "mirror", !.job = j, !.seen = leg[2]])
  /\ UNCHANGED <<courier, attempts, clear, pointer, offer, courierVars, bounds>>

Cancel(t, j, party) ==
  /\ At(t, "idle")
  /\ party \in {Sender, courier[j]} \ {None}
  /\ status[j] # "unbooked"
  /\ Transition(j, status[j], "cancelled", party)
  /\ Become(t, [Idle EXCEPT !.at = "cancelSupersede", !.job = j,
                            !.seen = "cancelled"])
  /\ UNCHANGED <<courier, attempts, clear, pointer, offer, courierVars, bounds>>

CancelSupersede(t) ==
  /\ At(t, "cancelSupersede")
  /\ SupersedeLiveOffers(task[t].job, None)
  /\ Goto(t, "mirror")
  /\ UNCHANGED <<jobVars, courierVars, bounds>>

\* Mutant: the job's own status is written, without the mapping.
MirrorRaw(t) ==
  /\ At(t, "mirror")
  /\ pointer' = [pointer EXCEPT ![task[t].job] = task[t].seen]
  /\ Become(t, Idle)
  /\ UNCHANGED <<status, courier, attempts, clear, trail, offer, courierVars,
                 bounds>>

\* emitJobStatus ends by copying the status onto the tracker's pointer row.
Mirror(t) ==
  /\ At(t, "mirror")
  /\ pointer' = [pointer EXCEPT ![task[t].job] = Tracking(task[t].seen)]
  /\ Become(t, Idle)
  /\ UNCHANGED <<status, courier, attempts, clear, trail, offer, courierVars,
                 bounds>>

-----------------------------------------------------------------------------
(* handleExpireOffers: the repeatable sweep *)

\* Mutant: only the offers of jobs that still look for a courier are expired.
SweepExpireAwaiting(t) ==
  /\ At(t, "idle")
  /\ offer' = [o \in Offers |->
                 IF /\ Visible(o) /\ offer[o].age = "lapsed"
                    /\ offer[o].status = "offered"
                    /\ status[offer[o].job] \in AwaitingCourier
                 THEN [offer[o] EXCEPT !.status = "expired"]
                 ELSE offer[o]]
  /\ Goto(t, "sweepList")
  /\ UNCHANGED <<jobVars, courierVars, bounds>>

\* expireLapsedOffers
SweepExpire(t) ==
  /\ At(t, "idle")
  /\ offer' = [o \in Offers |->
                 IF /\ Visible(o) /\ offer[o].age = "lapsed"
                    /\ offer[o].status = "offered"
                 THEN [offer[o] EXCEPT !.status = "expired"]
                 ELSE offer[o]]
  /\ Goto(t, "sweepList")
  /\ UNCHANGED <<jobVars, courierVars, bounds>>

\* listJobsAwaitingCourier
SweepList(t) ==
  LET awaiting == {j \in Jobs : status[j] \in AwaitingCourier /\ clear[j]} IN
  /\ At(t, "sweepList")
  /\ Become(t, IF awaiting = {}
               THEN Idle
               ELSE [Idle EXCEPT
                       !.at   = "sweepNext",
                       !.todo = {[job |-> j, attempts |-> attempts[j]] :
                                   j \in awaiting}])
  /\ UNCHANGED <<jobVars, offer, courierVars, bounds>>

\* Take the next job of the list; skip one that still has a live offer.
SweepNext(t) ==
  /\ At(t, "sweepNext")
  /\ \E listed \in task[t].todo :
       LET rest == task[t].todo \ {listed}
           live == OffersInStatus(listed.job, "offered") # {}
       IN Become(t, IF live /\ rest = {}
                    THEN Idle
                    ELSE [Idle EXCEPT
                            !.at   = IF live THEN "sweepNext" ELSE "sweepAccepted",
                            !.job  = IF live THEN None ELSE listed.job,
                            !.wave = IF live THEN 0 ELSE listed.attempts,
                            !.todo = rest])
  /\ UNCHANGED <<jobVars, offer, courierVars, bounds>>

\* Mutant: one wave too many before the sweep gives up.
SweepAcceptedLate(t) ==
  LET taken == OffersInStatus(task[t].job, "accepted") # {}
      spent == task[t].wave > MaxWaves
  IN
  /\ At(t, "sweepAccepted")
  /\ \/ taken /\ Resume(t)
     \/ ~taken /\ ~spent /\ Goto(t, "dispatchRead")
     \/ ~taken /\ spent  /\ Goto(t, "sweepReread")
  /\ UNCHANGED <<jobVars, offer, courierVars, bounds>>

\* Skip a job with an accepted offer; otherwise dispatch another wave, or give
\* up on a job that was LISTED with all of its waves spent.
SweepAccepted(t) ==
  LET taken == OffersInStatus(task[t].job, "accepted") # {}
      spent == task[t].wave >= MaxWaves
  IN
  /\ At(t, "sweepAccepted")
  /\ \/ taken /\ Resume(t)
     \/ ~taken /\ ~spent /\ Goto(t, "dispatchRead")
     \/ ~taken /\ spent  /\ Goto(t, "sweepReread")
  /\ UNCHANGED <<jobVars, offer, courierVars, bounds>>

\* cancelNoCourier reads the job again before it cancels.
SweepReread(t) ==
  LET j == task[t].job IN
  /\ At(t, "sweepReread")
  /\ \/ status[j] \in Terminal /\ Resume(t)
     \/ /\ status[j] \notin Terminal
        /\ Become(t, [task[t] EXCEPT !.at = "sweepCancel", !.seen = status[j]])
  /\ UNCHANGED <<jobVars, offer, courierVars, bounds>>

\* A lost CAS throws; the sweep logs it and goes on.
SweepCancel(t) ==
  LET j == task[t].job IN
  /\ At(t, "sweepCancel")
  /\ \/ /\ Transition(j, task[t].seen, "cancelled", None)
        /\ Goto(t, "sweepSupersede")
     \/ /\ status[j] # task[t].seen
        /\ Resume(t)
        /\ UNCHANGED <<status, trail>>
  /\ UNCHANGED <<courier, attempts, clear, pointer, offer, courierVars, bounds>>

SweepSupersede(t) ==
  /\ At(t, "sweepSupersede")
  /\ SupersedeLiveOffers(task[t].job, None)
  /\ Resume(t)
  /\ UNCHANGED <<jobVars, courierVars, bounds>>

-----------------------------------------------------------------------------
(* Couriers.  A call that leaves the profile as it is is not a step.         *)

Shift ==
  /\ shifts < MaxShifts
  /\ shifts' = shifts + 1
  /\ UNCHANGED <<jobVars, offer, rate, task, crashes>>

\* Mutant: the suspension is not part of the upsert.
GoOnlineUnchecked(c) ==
  /\ online[c] # "online"
  /\ online' = [online EXCEPT ![c] = "online"]
  /\ UNCHANGED standing
  /\ Shift

\* setCourierOnlineIfPermitted: the refusal is part of the upsert.
GoOnline(c) ==
  /\ standing[c] # "suspended"
  /\ online[c] # "online"
  /\ online' = [online EXCEPT ![c] = "online"]
  /\ UNCHANGED standing
  /\ Shift

GoOffline(c) ==
  /\ online[c] # "offline"
  /\ online' = [online EXCEPT ![c] = "offline"]
  /\ UNCHANGED standing
  /\ Shift

SuspendCourier(c) ==
  /\ standing[c] # "suspended"
  /\ standing' = [standing EXCEPT ![c] = "suspended"]
  /\ online'   = [online EXCEPT ![c] = "offline"]
  /\ Shift

ReinstateCourier(c) ==
  /\ standing[c] = "suspended"
  /\ standing' = [standing EXCEPT ![c] = "active"]
  /\ UNCHANGED online
  /\ Shift

-----------------------------------------------------------------------------
(* Time and failure *)

\* The offer's deadline passes; no statement is needed for that.
OfferLapses(o) ==
  /\ Visible(o) /\ offer[o].age = "fresh"
  /\ offer' = [offer EXCEPT ![o].age = "lapsed"]
  /\ UNCHANGED <<jobVars, courierVars, task, bounds>>

\* The hourly expiry sweep deletes lapsed rows, whatever their status.
PurgeOffer(o) ==
  /\ Visible(o) /\ offer[o].age = "lapsed"
  /\ offer' = [offer EXCEPT ![o].age = "purged"]
  /\ UNCHANGED <<jobVars, courierVars, task, bounds>>

\* A process dies, or a statement fails, between two steps of a handler.
Crash(t) ==
  /\ ~At(t, "idle")
  /\ crashes < MaxCrashes
  /\ crashes' = crashes + 1
  /\ Become(t, Idle)
  /\ UNCHANGED <<jobVars, offer, courierVars, shifts>>

-----------------------------------------------------------------------------

DispatchStep(t) ==
  \/ DispatchRead(t)   \/ DispatchExclude(t) \/ DispatchSelect(t)
  \/ DispatchRecord(t) \/ DispatchMove(t)    \/ DispatchInsert(t)

AcceptStep(t) ==
  \/ AcceptWin(t)       \/ AcceptLose(t) \/ AcceptLost(t) \/ AcceptMark(t)
  \/ AcceptSupersede(t) \/ AcceptBusy(t) \/ AcceptCount(t) \/ AcceptRate(t)

SweepStep(t) ==
  \/ SweepList(t)   \/ SweepNext(t)   \/ SweepAccepted(t)
  \/ SweepReread(t) \/ SweepCancel(t) \/ SweepSupersede(t)

\* The next statement of whatever t is in the middle of.
TaskStep(t) ==
  \/ DispatchStep(t)    \/ AcceptStep(t) \/ SweepStep(t)
  \/ CancelSupersede(t) \/ Mirror(t)

Request(t) ==
  \/ \E j \in Jobs : Book(t, j)
  \/ \E o \in Offers : AcceptFind(t, o)
  \/ \E j \in Jobs, leg \in CourierLegs : Advance(t, j, leg)
  \/ \E j \in Jobs, party \in Couriers \cup {Sender} : Cancel(t, j, party)

CourierStep(c) ==
  GoOnline(c) \/ GoOffline(c) \/ SuspendCourier(c) \/ ReinstateCourier(c)

Next ==
  \/ \E t \in Tasks : TaskStep(t) \/ Crash(t)
  \/ \E t \in Handlers : Request(t)
  \/ \E t \in Sweepers : SweepExpire(t)
  \/ \E c \in Couriers : CourierStep(c)
  \/ \E o \in Offers : OfferLapses(o) \/ PurgeOffer(o)

Spec == Init /\ [][Next]_vars

\* A statement that is issued is executed, a deadline passes, and the
\* repeatable sweep is run again and again.  No request is ever owed.
Fairness ==
  /\ \A t \in Tasks : WF_vars(TaskStep(t))
  /\ \A t \in Sweepers : WF_vars(SweepExpire(t))
  /\ \A o \in Offers : WF_vars(OfferLapses(o))

FairSpec == Spec /\ Fairness

-----------------------------------------------------------------------------
(* What must hold *)

TypeOK ==
  /\ status   \in [Jobs -> JobStatus \cup {"unbooked"}]
  /\ courier  \in [Jobs -> Couriers \cup {None}]
  /\ attempts \in [Jobs -> Nat]
  /\ clear    \in [Jobs -> BOOLEAN]
  /\ trail    \in [Jobs -> Seq(Event)]
  /\ pointer  \in [Jobs -> TrackingStatus]
  /\ offer    \in [Offers -> OfferRow]
  /\ standing \in [Couriers -> {"pending", "active", "suspended"}]
  /\ online   \in [Couriers -> {"offline", "online", "on_job"}]
  /\ rate     \in [Couriers -> Counts]
  /\ task     \in [Tasks -> TaskState]
  /\ crashes  \in Nat
  /\ shifts   \in Nat

\* The audit trail of a booked job is a walk through the allowed transitions
\* from its booking to the status the job has now: no transition without its
\* entry, no entry without its transition, whatever raced or died.
TrailTellsTheStory ==
  \A j \in Jobs :
    LET n == Len(trail[j]) IN
    IF status[j] = "unbooked"
    THEN n = 0
    ELSE /\ n > 0
         /\ trail[j][1].status = "requested"
         /\ trail[j][n].status = status[j]
         /\ \A i \in 1..(n - 1) :
              <<trail[j][i].status, trail[j][i + 1].status>> \in JOB_TRANSITIONS

\* A job has a courier exactly when somebody's accept is on its trail, the
\* courier is that one, and only that courier ever drove one of its legs.
CourierIsTheOneWhoAccepted ==
  \A j \in Jobs :
    /\ courier[j] # None =>
         \E i \in 1..Len(trail[j]) : trail[j][i].status = "accepted"
    /\ \A i \in 1..Len(trail[j]) :
         trail[j][i].status \in {"accepted", "picked_up", "in_transit", "delivered"}
           => trail[j][i].by = courier[j] /\ courier[j] # None

\* No two couriers are told that they won: an offer that reads as accepted is
\* the winner's own.  setOfferStatus is not guarded, so this rests on the CAS.
AcceptedOfferIsTheWinners ==
  \A o \in Offers :
    offer[o].status = "accepted" =>
      /\ offer[o].courier = courier[offer[o].job]
      /\ offer[o].courier # None

\* No courier is sent for a job nobody has paid for: unpaid jobs are not
\* offered, spend no wave and are not given up on.
NoDispatchBeforePayment ==
  \A j \in Jobs :
    ~clear[j] =>
      /\ \A o \in Offers : offer[o].job # j
      /\ attempts[j] = 0
      /\ status[j] \notin {"offered", "accepted", "picked_up", "in_transit",
                           "delivered"}
      /\ \A i \in 1..Len(trail[j]) : trail[j][i].by # None

\* A suspension cannot be stepped over by going online again, in any order of
\* the two; only finishing an accept can change a suspended courier's
\* availability to anything but offline.
SuspendedIsNeverOnline ==
  \A c \in Couriers : standing[c] = "suspended" => online[c] # "online"

\* The wave counter is read in one statement, checked in another and written in
\* a third.  With sweeps that do not overlap, the booking's own first wave is the
\* only one that can run alongside a sweep's, and it costs one wave at most.
AtMostOneExtraWave == \A j \in Jobs : attempts[j] <= MaxWaves + 1

\* Every job that is clear to dispatch ends up with a courier or cancelled.
\* It is never left waiting, whatever waves, accepts and crashes overlapped.
NoJobWaitsForever ==
  \A j \in Jobs :
    (status[j] \in AwaitingCourier /\ clear[j])
      ~> (status[j] \notin AwaitingCourier)

\* A wave that was overtaken by an accept or a cancellation still inserts its
\* offers.  No offer stays open for ever, on whatever job it was made.
NoOfferStaysOpen ==
  \A o \in Offers :
    (Visible(o) /\ offer[o].status = "offered")
      ~> ~(Visible(o) /\ offer[o].status = "offered")

-----------------------------------------------------------------------------
(* Dispatch implements the job's contract. *)

Phase == [j \in Jobs |-> IF status[j] \in AwaitingCourier THEN "open"
                                                          ELSE status[j]]

Contract == INSTANCE JobLifecycle WITH phase <- Phase, holder <- courier

\* Offers, waves, sweeps and crashes can do nothing to a job that its contract
\* does not allow: one courier takes it, keeps it, and drives the legs in order.
ImplementsJobLifecycle == Contract!Spec

-----------------------------------------------------------------------------
(* What a comment says of the code, and it does not do: a run refutes it. *)

\* dispatch-handlers.ts: cancelNoCourier cancels "a job that exhausted its
\* dispatch waves with no taker", and reads the job again because it "may have
\* been accepted".
NoTakerMeansNoTaker ==
  \A j \in Jobs :
    \A i \in 1..Len(trail[j]) :
      trail[j][i] = [status |-> "cancelled", by |-> None] => courier[j] = None
=============================================================================
