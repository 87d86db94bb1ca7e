# Verification of Moovo in TLA+

Moovo is a courier platform: an Express API on PostgreSQL, with BullMQ on Redis
for background work and Socket.IO for live updates, and apps for senders,
couriers, fleets and public tracking. A marketplace (listings, carts, orders,
reviews) runs in the same backend. Everything that keeps state is under
`src/packages/backend/src/`; paths below are relative to it.

Several requests and background workers run at once against the same rows. Most
handlers are a sequence of statements that each commit on their own; only a few
places open a transaction. What can go wrong is therefore between two
statements, and that is what the modules here are about.

## Inventory

| Component | State | Operations | Interacts with |
|---|---|---|---|
| Dispatch (`services/dispatch.service.ts`, `queue/dispatch-handlers.ts`) | `job_offers`, `jobs.dispatchAttempts` | `dispatchJob`, `handleExpireOffers`, `cancelNoCourier` | jobs, couriers, scheduler |
| Job lifecycle (`services/job.service.ts`) | `jobs`, `job_status_events` | `commitBooking`, `transition`, `accept`, `pickup`, `startTransit`, `deliver`, `scanJob`, `cancel` | offers, couriers, tracker pointer |
| Courier availability (`services/courier-profile.service.ts`, `db/fleet/courierProfileRepository.ts`) | `courier_profiles.status`, `onlineStatus`, `acceptanceRate` | `goOnline`, `goOffline`, `suspendCourier`, `reinstateCourier`, `markCourierOnJob` | dispatch, moderation |
| Tracker pointer (`services/tracking/job-pointer.service.ts`) | the job's `tracked_parcels` row | `createJobPointer`, `mirrorJobStatus` | jobs |
| Expiry sweep (`db/expiry.ts`) | deletes lapsed rows of many tables | one timer, hourly | offers, quotes, parcels, notifications |
| External bookings (`services/job.service.ts`, `services/booking-reconciler.ts`) | `shipment_booking_attempts` | `claimExternalBooking`, `markAttemptFailed`, `reconcileExternalBooking` | carriers, jobs, shipments |
| Shipments and quotes (`services/shipment.service.ts`, `services/quote.service.ts`) | `shipments`, `quotes` | create, quote, select, book, cancel | carriers, bookings |
| Material transports (`services/material-transports/`) | `material_transports` | create, quote, authorize, book, cancel | shipments, bookings, the donation service |
| Moderation outbox (`services/moderation/moderation-outbox.service.ts`) | `moderation_outboxes` leases and attempts | claim, renew, complete, release | the review service |
| Moderation decisions (`services/moderation/`) | reports, events, enforcements | deliver, receive, decide, enforce | couriers |
| Orders, checkout, inventory (`services/checkout.service.ts`, `order.service.ts`, `inventory.service.ts`) | `orders`, `listing_variants` stock, Redis claims | reserve, commit, release, restock, checkout, transition | cart, workers |
| Parcel tracking (`services/tracking/`) | `tracked_parcels`, checkpoints, subscriptions | poll, webhook, track, untrack, retention | carriers |
| File references (`services/files/`, `db/files/`, migration 0011) | `file_reference_syncs` outbox, its schedule, receipts and takedown actions | enqueue by trigger, claim, add or remove, complete, reconcile, take down, put back | Oxy |
| Cart, reviews, stores, catalog, companies, vehicles, notifications, numbers, rates | rows of their own | create, update, delete | little |

How they interact: by calls inside one request (booking dispatches the job it
created), by shared rows (a suspension changes who dispatch finds), by the
repeatable jobs of `queue/scheduler.ts`, and by webhooks from carriers and from
the review service. Nothing but the database orders them.

What is hard, and what makes each part correct:

* *Dispatch and jobs.* Couriers race to accept, the sender cancels, and the sweep
  re-dispatches or gives up on the basis of what it read earlier. One courier per
  job, a trail that is the truth, no courier for an unpaid job, no job that waits
  for ever.
* *Availability.* Several writers of one column, some guarded. A suspension must
  not be undone by going online.
* *External bookings.* A carrier's answer can be lost or late. One shipment, one
  job, one parcel.
* *Material transports.* Leases and an approval that can expire under a booking.
  Nobody pays for what was not approved, and what was booked is not cancelled.
* *Moderation.* At-least-once delivery, revisions out of order, a crash between a
  claim and its effect. The latest decision is the one in force.
* *Checkout and inventory.* Stock is moved outside the order's transaction. Units are conserved.
* *Tracking.* Leases, counters computed from stale reads. What is due is asked about,
  nothing is counted twice.
* *Files.* An outbox, a nightly inventory and a stream of events from outside, each
  of which may be old when it acts. Both sides come to agree.

`PROJECT.json` lists every component with its status, and every hazard with the
line where it bites and the properties that would catch it.

## Modules

| Module | What it is | Checked by |
|---|---|---|
| `JobLifecycle` | The contract of a delivery job, abstractly: open until one courier takes it or it is withdrawn, then held by that courier through its legs. | `MCDispatch` |
| `Dispatch` | Jobs, offers, couriers, the request handlers and the sweep, one step per statement. Implements `JobLifecycle`. | `MCDispatch` |
| `DispatchProofs`, `DispatchSafety` | Of `Dispatch`: the typing invariant; the safety theorems, the bound on waves and the refinement. | TLAPS |
| `Fulfilment` | What booking promises of one shipment, abstractly: contracted once, with a courier or with the carrier that holds its parcel; except that a carrier's parcel booked without a key may be contracted again. | `MCBooking` |
| `Booking` | One shipment: quotes, the claim of an external booking, a carrier whose replies may be lost, the reconciler. Implements `Fulfilment`. | `MCBooking` |
| `BookingProofs` | Of `Booking`: typing, one parcel, one keyed job, the refinement. | TLAPS |
| `MaterialTransport` | A donated transport over `Booking`: quoting lease, authorization, booking, take-over, cancellation. Extends `Booking`. | `MCMaterialTransport` |
| `MaterialTransportProofs` | Of `MaterialTransport`: all four of its properties. | TLAPS |
| `EnforcementPlan` | The pure rules from a decision to a plan of enforcement and to a report's statuses. | `MCModeration` |
| `Moderation` | Reports, the outbox under leases, the webhook, the decision worker, enforcement on one courier. | `MCModeration` |
| `ModerationProofs` | Of `Moderation`: typing, and all of its properties but the liveness one; what a plan of `EnforcementPlan` may ask for. | TLAPS |
| `Checkout` | Stock, carts, idempotency keys, checkouts, transitions of orders, the sweep of unpaid ones. | `MCCheckout` |
| `CheckoutProofs` | Of `Checkout`: typing, one order per key, the conservation of stock. | TLAPS |
| `ParcelTracking` | A shared parcel: subscribers, the poller's lease, snapshots, the carrier's pushes, the reconciliation of the counter. | `MCParcelTracking` |
| `ParcelTrackingProofs` | Of `ParcelTracking`: typing, one poll at a time, no checkpoint counted twice. | TLAPS |
| `FileReferences` | The reference outbox, the nightly reconciliation, and takedowns and restorations by Oxy's events. | `MCFileReferences` |
| `FileReferencesProofs` | Of `FileReferences`: typing, and all of its properties but the liveness one. | TLAPS |

All detailed modules follow the same conventions. Every statement that commits on
its own is a step; the statements of one `transaction` are one step. What a
handler carries from one statement to the next is kept in a record per process
(`task`, `request`, `worker`, `writer`), whose `at` says where it is. A death drops
that record and leaves the rows alone. A lease is *live* until it lapses: under
nobody that works on it for free, under a worker that is merely slow at the cost of
one fault. `MaxCrashes` and `MaxFaults` bound deaths, failing calls and such
lapses, once and for all. Mutated forms stand before the definition they are a
mutant of; no other definition uses them. Some modules have a *history variable*
(`twice`, `stranded`, `overtaken`, the counters of an enforcement): no step looks at
it, and a property uses it to name exactly what it excuses.

### Dispatch: state

| Variable | Code |
|---|---|
| `status`, `courier`, `attempts` | `jobs.status`, `courierOxyUserId`, `dispatchAttempts` |
| `clear` | `isPaymentClearForDispatch`: the total is zero, or the payment is authorized or paid. Nothing writes it after the booking. |
| `trail` | `job_status_events` of the job, in order |
| `pointer` | `tracked_parcels.status` of the job's pointer row |
| `offer` | `job_offers`: status, job, courier, and whether the deadline has passed or the row was deleted |
| `standing`, `online`, `rate` | `courier_profiles` |
| `task` | for each handler and sweeper: where it is, and the local variables it carries from one statement to the next |

A process is *idle* until it starts a request or a sweep. Every statement that
commits on its own is a step; statements inside one `transaction` are one step.
A read and the compare-and-swap on what it read are one step where nothing else
is read or written in between (`cancel`, the courier's legs): a swap that fails
writes nothing and ends the handler. Between two steps anything else may happen,
and `Crash` drops the process there. Crash also stands for a statement that
throws: no handler cleans up after one, and `handleExpireOffers`, which goes on
with the next job, is then a sweep that ends early and runs again.

### Dispatch: actions

| Action | Code |
|---|---|
| `Book` | `commitBooking` for a Moovo-courier shipment: job, first event and pointer in one transaction, then `dispatchJob` in the same request |
| `DispatchRead` .. `DispatchInsert` | `dispatchJob`: read the job, read the exclusions, find candidates, write the wave, move the job on its first wave, insert the offers one by one (each may fail) |
| `AcceptFind`, `AcceptWin`, `AcceptLose`, `AcceptLost`, `AcceptMark`, `AcceptSupersede`, `AcceptBusy`, `AcceptCount`, `AcceptRate` | `accept`, statement by statement, the count of outcomes and the write of the rate included |
| `Advance` | `pickup`, `startTransit`, `deliver` and both legs of `scanJob` |
| `Cancel`, `CancelSupersede` | `cancel` by the sender or the assigned courier |
| `Mirror` | the pointer update that `emitJobStatus` ends with |
| `SweepExpire` .. `SweepSupersede` | `handleExpireOffers` and `cancelNoCourier` |
| `GoOnline`, `GoOffline`, `SuspendCourier`, `ReinstateCourier` | the guarded and unguarded updates of `courier_profiles` |
| `OfferLapses`, `PurgeOffer` | an offer's deadline passes; the hourly expiry sweep deletes the row |

Left out: geography and vehicle capability (any subset of the online, active
couriers may be found, up to the wave size), money, QR codes, proof of delivery,
location pings, sockets and notifications. Jobs carried by an external provider
are never dispatched and are not in `Jobs`.

`Init` has couriers pending or active, offline or online: a row starts pending
and offline, and both other values are reached by the calls that precede a
booking. The bounds are `MaxCrashes` (processes that die), `MaxShifts` (changes
of availability), and the finite set `Offers` (an insert with no id left is the
insert that fails).

### Booking: state and actions

| Variable | Code |
|---|---|
| `shipment`, `quote` | the `shipments` row (status, job) and its `quotes` |
| `attempt` | the one `shipment_booking_attempts` row: operation id, quote, key, status, job, and whether it is older than the reconciler's patience |
| `carrier` | external: what the carrier did with each operation id, and whether the original call is still open |
| `jobs` | the `jobs` rows of the shipment, with key, quote and operation |
| `task` | requests and reconciler ticks |

| Action | Code |
|---|---|
| `CreateShipment`, `LandQuotes`, `QuoteShipment`, `LapseQuote` | creation and quoting with the fan-out; the expiry sweep |
| `CancelRead`, `CancelWrite` | `cancelShipment`, whose update is unguarded |
| `Book`, `InsertClaim`, `RetakeClaim`, `RefuseInProgress` | the entry of `bookShipment`, `claimExternalBooking`, and the refusal when a claim stands |
| `CallCarrier`, `CarrierDecides`, `CarrierReplies`, `MarkAttemptFailed`, `ReleaseRejected` | the carrier's call, its decision, and its reply: booked, refused, or lost |
| `TakeLookup`, `LookupAnswers`, `LookupFails`, `ReleaseUnbooked` | `reconcileExternalBooking`, from a sender's retry or from the reconciler |
| `TickStarts`, `ReadAttempt`, `ClaimGrowsOld` | the reconciler's list of claims to look at |
| `CommitCarrier`, `CommitCourier` | `commitBooking` |

`ClaimGrowsOld` has a guard: a claim is taken for stale only when the carrier has
decided about it. That is what `config/index.ts:224-230` requires of the
configured ages, not something the code enforces. The wave that follows the commit
of a Moovo-courier job belongs to `Dispatch`. `ForeignKeys` are idempotency keys
already used on other shipments.

`Fulfilment`'s `contracts` are the `jobs` rows themselves, in the order in which they
were inserted, each with its operation, price and key: two rows are two contracts,
however equal. `ContractAgain` is the one way to a second, and says under which
conditions the code gets there: the parcel is with a carrier, and neither commit has
a key.

### MaterialTransport: state and actions

`transport` is the `material_transports` row, `fresh` the tasks whose copy of
`updated_at` is still the row's. The actions are `CreateTransport`, the quoting
sequence (`ReadForQuotes` .. `ReleaseQuoting`), `Authorize`, the booking sequence
(`ReadForBooking`, `Recover`, `ClaimBooking`, `CommitTransport`, `MarkBooked`,
`MarkUnknown`), `CancelTransport` and `TransportGrowsOld`, the thirty seconds after
which a booking is taken over. They are composed with `Booking`'s own actions over
the same shipment.

### Moderation: state and actions

| Variable | Code |
|---|---|
| `report` | `reports`: local state, answer, revision, case |
| `outbox` | `moderation_outboxes`: one row per report to deliver and per revision to handle |
| `event` | `moderation_events`, one per revision |
| `enforced`, `courier` | `moderation_enforcements`, with two counters of history: how often the effect was made, and how often of those the worker heard an error; the courier's status |
| `filed`, `decided` | external: reports CrowdSource has, decisions it took |

The actions are intake (`CreateReport`), the webhook (`ReceiveEvent`,
`RecordDecisionEvent`, `ReleaseEvent`), the dispatcher (`ClaimRow`, `CompleteRow`,
`HandlerThrows`, `LeaseLapses`), the delivery (`CreateAtCrowdSource`,
`MarkReportSubmitted`, `MarkReportDeliveryFailed`, `CloseReport`) and the decision
(`FindReport`, `ClaimEnforcement`, `PerformEffect`, `RecordEffect`,
`DeleteEnforcement`, `ApplyDecisionToReport`). What a decision leads to is computed by
`EnforcementPlan`. The claim of an enforcement, the courier's update, and the note of
it in the claimed row are three statements. Each may throw, with what it wrote
committed or not; only the second is inside the `try` that releases the claim.
CrowdSource may be down for as long as there are attempts: an unanswered call is no
fault.

### Checkout: state and actions

| Variable | Code |
|---|---|
| `available`, `committed` | the counters of `listing_variants` |
| `order`, `cart` | `orders` with their lines; `carts` |
| `redis` | the claim of an idempotency key: pending, a group, or nothing (Redis may be down or forget) |
| `request`, `actor` | checkouts; clerks and sweepers that move orders |
| `twice` | history: the units that a rollback released although their order stands |

`ClaimKey` .. `ClearCart` are `checkout`, with `OutOfStock`, `ReserveThrows`,
`KeyConflict`, `InsertThrows`, `RollbackLine` and `RolledBack` its ways out.
`ReserveThrows` is a reservation that fails before the stock is touched or, as a
fault, after it: `syncListingFacets` follows the update, and the unit it took is in no
list that the rollback goes through. `Throwing` says which inserts may throw.
`ReadOrder`, `SwapStatus`, `SwapLost` and `ApplyEffect` are `transition` with its
stock effects, for payments, cancellations, deliveries, refunds and the sweep.

### ParcelTracking: state and actions

`parcel` is the `tracked_parcels` row, `stored` its checkpoints, `watching` the
subscriptions, `pushed` the webhook events already recorded; `carrier` says how many
checkpoints the carrier knows. `stranded` is history: the due time of a parcel that
people watch was cleared by a reconciliation, by a request that had read the parcel
earlier, or by a poll whose copy of the row was out of date. Requests
`LookupParcel`, `Track`, `Untrack` and refresh, each counting subscribers before it
writes; tasks `ClaimDueParcel`, `Fetch`, then `RecordFailure`, `RecordNotFound` or `ApplySnapshot`, and
`ReconcileFind` .. `ReconcileWrite`. `Push` is the carrier's webhook. An answer
with no checkpoint in it is either "not found" or a number the carrier knows and has
not scanned; `Fetch` leaves both open. `Toll` is a bound: a death, or a lease that
lapses under a poll, costs as much as that many failed calls, so that the run has
either of them or two failures in a row, the first of which backs off and the second
gives up.

### FileReferences: state and actions

| Variable | Code |
|---|---|
| `slot` | the files a row shows |
| `sync`, `night` | `file_reference_syncs` (generation, lease), `file_reference_reconciliations` |
| `handled`, `cleared`, `answered` | `file_event_receipts`; `file_takedown_actions` |
| `held`, `refused`, `barred`, `file`, `issued` | external: Oxy's references, what it last refused, the files Moovo may not reference, the files, its events |
| `overtaken` | history: the uses that Oxy has wrong because what it was told last was old: an inventory read before a write, or a worker that had lost its row |

| Action | Code |
|---|---|
| `CheckFiles`, `WriteRow` | an edit: `assertFilesAttachable`, then the write, whose trigger (`Rewrite`) enqueues what changed |
| `ClaimSync`, `EntityUsesFile`, `Tell`, `TellFails`, `Settle` | one row of `runFileReferenceSyncBatch` |
| `StartNight`, `ReadPage`, `Reconcile`, `ReconcileFails`, `FinishNight`, `NightFalls` | `runDueReconciliation`: the claim of the schedule, the inventory page by page, the call, the next night |
| `TakeDown`, `PutBack` | `handleFileEvent`, each in one transaction with its receipt |

A batch is a number of rows that share one call; each is modelled on its own. Between
two pages of an inventory rows may be written and told. Oxy's events are `blocked`,
`unblocked`, `deleted` and `lost`; those that `handleFileEvent` only records change
nothing. A reconciliation is never a dry run (`config/index.ts:376-377`, off by
default): with it on, nothing here converges, as is its purpose.

## Runs

Eight runs pass; between them they fire every action and every disjunct of the
next-state relations.

| Run | Instance | Shows |
|---|---|---|
| `DispatchRace` | 1 job, 2 couriers, 2 offers, 2 handlers, 1 crash, 2 shifts of availability | one winner, who is the courier; the accepted offers are the winner's; a suspension is not undone by going online |
| `DispatchSweep` | 1 job, paid for or not, 1 courier, 2 offers, 1 handler, 1 sweeper, 1 crash, with fairness | typing; no dispatch before payment; the trail; at most one wave more than the limit; the refinement of `JobLifecycle`; no job waits for ever, no offer stays open |
| `Booking` | 1 courier quote, 2 carrier quotes, 2 keys (one of them taken elsewhere) or none, 1 request at a time beside 1 reconciler, 2 operation ids, 1 crash | one parcel; one job per keyed shipment; every parcel gets its job; the refinement of `Fulfilment` |
| `MaterialTransport` | 2 courier quotes, 1 carrier quote, 2 requests, 1 crash | the job is the one that was authorized, a cancelled transport has none, a booked one has its job, and a live authorization is not dropped |
| `Moderation` | 1 report, 2 revisions (one suspends, its correction clears; either may be malformed), 2 dispatchers, 1 webhook request, 2 attempts per row with CrowdSource up or down, 1 fault | one effect per action, a queued report is owed, answers only move forward, settled rows stay settled, every row settles |
| `Checkout` | 2 sellers with a variant each, 1 buyer, 2 checkouts under one key, one whose first insert may throw and one whose second may, 1 clerk, 1 sweeper, 1 fault | stock is invented by rollbacks beside a standing order only, it adds up otherwise without a fault, a key orders once per seller, unpaid units come back |
| `ParcelTracking` | 2 users, 2 requests, 2 pollers, 1 push, 2 failed calls (one backs off, two give up) or 1 death or 1 lapse | one poll at a time while leases hold, no checkpoint counted twice, due parcels are shown, the subscriber count comes right |
| `FileReferences` | 1 row of 1 file that it shows or not and that may be barred, 1 edit, 2 workers, 2 events, 1 fault, any number of nights | every change is owed or was overtaken, a takedown finds every use it can know of, an unblock answers what the block cleared, Oxy comes to agree |

Why these bounds are enough to be interesting. Two couriers are the smallest race,
and two offers let both hold one, or one hold two; a handler beside a sweeper lets a
request overtake the sweep at each of its steps; one crash reaches every point
between two statements; two shifts allow a suspension and a return online around it.
Two operation ids let a second claim meet the late reply of the first.
Two revisions are the smallest correction, two attempts the least that a retry and a
dead letter need, two sellers the smallest checkout that can fail half-way, two
tasks the smallest race for a lease, and one fault lets a lease lapse under a worker that goes on. Bounds that leave a case out: with one file
a slot never fills up, so that the full slot of `Restored`, like the search of
Moovo's own art in `Candidates`, is modelled and not exercised; in `Booking` the
requests do not overlap each other, only the reconciler (`MaterialTransport`, which
extends it, has two); `Checkout` has one buyer, whose two requests share the key. The
theorems about these modules have none of these limits.

Deadlock is not checked where the system may come to rest: requests end, stock is
sold, and the outside world need not go on. In the runs with a sweeper of
`Dispatch` it is checked, since the sweep always runs again.

### What the code says of itself, and does not do

Four runs each refute one sentence. They are recorded as findings in
`PROJECT.json`, with the sentence and its line.

| Run | The sentence | What happens |
|---|---|---|
| `NoTaker` | the sweep cancels a job with no taker, and re-reads it because it may have been accepted (`queue/dispatch-handlers.ts:51-56`) | the re-read lets an accepted job through, and it is cancelled under its courier |
| `ClearedCourier` | a correction reverses what the superseded revision did (`routes/crowdsource-webhook.ts:97-99`) | handled after its correction, the first decision is enforced all the same, and the cleared courier stays suspended |
| `StockInvented` | a second release "is stock invented out of nothing" and is avoided (`services/checkout.service.ts:319-325`) | when a later group's insert throws, the units of an order that stands are released, and once more when it is cancelled |
| `StrandedParcel` | a parcel whose counter is wrong is "recounted and re-armed", or it would be "watched, and silently never updated" (`services/tracking/tracking-poll.dispatcher.ts:136-138`) | the recount writes the due time as null: two people begin to track a new parcel at once, the counter is wrong, and the parcel they watch is never asked about again |

Further sentences the models contradict, noted for whoever works on that code. They
have no run, and `PROJECT.json` does not list them as findings:

* *Dispatch.* An expired offer is still accepted (`accept` looks at the status, not
  at the deadline); two overlapping waves may offer one courier the same job twice;
  `cancelNoCourier` leaves the tracker pointer behind; a repeated accept marks the
  winner's own offer superseded; the acceptance rate drifts as offers are purged;
  an overlapping wave exceeds `maxWaves` by one, which `AtMostOneExtraWave` bounds.
* *Booking.* `job.service.ts:4-5` and `:222` say "exactly ONE job", and
  `db/schema/transport.ts:247` "exactly one job per booked shipment". `commitBooking`
  does not look whether the claim it commits still stands, and no index is unique on a
  job's shipment, only on its key: a carrier booking made without a key, whose reply is
  late and which the reconciler has committed meanwhile, has two jobs.
  `Fulfilment` has this as `ContractAgain`, so that `ImplementsFulfilment` says that
  there is no other way to it. And after the carrier has refused, the failed claim
  stays, and a booking of the shipment with a Moovo courier is refused as in progress
  from then on.
* *Moderation.* `moderation-enforcement.service.ts:196-200` releases the claim of an
  effect that threw, because keeping it "would mark the action permanently done without
  it ever having happened". It is so marked all the same when the worker dies between
  the claim and the effect, or when the release throws in its turn: the retry finds
  the row and skips the action. `OneEffectPerAction` is about the other side, that
  what happened is not repeated.
* *Tracking.* `tracking.service.ts:454-455` expects of the reconciliation to catch "a
  parcel left unscheduled"; it looks at the counter only. A poll also writes the due
  time from a copy of the row that may be old. `DueParcelsAreShown` excuses both
  (`stranded`), and nothing else.
* *Files.* `file-events.service.ts:5-9` says that a blocked or deleted file is
  "CLEARED from every Moovo row that shows it". A use that left the outbox between
  the event and its handling (Oxy took it, or answered `not_found`), or that Oxy was
  made to forget by old news, is in neither place that is searched. The smallest case
  needs no failure: the event is issued while a new use waits in the outbox, a worker
  tells Oxy of it, and only then is the event handled.
  `TakedownFindsEveryUse` names these uses and says that no other escapes. An unblock
  that is handled after a delete puts back what the earlier block had cleared
  (`fileTakedownRepository.ts:282`: "a deleted file never comes back"), and a block
  that is handled after its unblock is not undone; `ClearingsAreAnswered` is about
  events handled in order.

## Fairness

Nothing a person, a carrier or another service does is assumed to happen, and
deaths and failures are never fair. A step that was begun goes on (weak fairness of
the process's steps: a statement that was issued is executed), and what a timer
repeats is repeated. In particular:

| Specification | Assumes | Why |
|---|---|---|
| `Dispatch!FairSpec` | begun handlers go on, the offer sweep runs again, deadlines pass | `queue/scheduler.ts` repeats the sweep. With Redis disabled nothing schedules it, and `NoJobWaitsForever` is not promised |
| `Booking!LiveSpec` | begun requests and ticks go on; ticks start; claims grow old; a carrier that was called decides; and lookups that are made again and again are answered once (strong) | `booking-reconciler.ts` is a timer; a carrier that never answers leaves the booking unknown for ever |
| `Moderation!LiveSpec` | dispatchers claim and go on; leases run out | the dispatcher is a timer on every task |
| `Checkout!LiveSpec` | begun checkouts and transitions go on; the sweep of unpaid orders runs | `queue/scheduler.ts` |
| `ParcelTracking!LiveSpec` | begun requests go on; the pollers poll, and reconcile again and again (strong: a poller may always be busy when it is due); leases run out | the dispatcher polls and reconciles on one timer |
| `FileReferences!LiveSpec` | workers that began go on; what is due again and again is claimed (strong, for the same reason); leases run out and nights fall | each tick drains the outbox and then looks at the schedule |

`AtMostOneExtraWave` and the liveness of `DispatchSweep` have one sweeper. That is one process
running the maintenance worker: its concurrency is 1 (`queue/constants.ts`), so a
sweep does not overlap itself (`queue/scheduler.ts:7-9`). With more than one
such process sweeps can overlap, and waves be added by each. The theorem on that
property assumes one sweeper (`OneSweeper`); the other theorems about `Dispatch`
do not.

## Proofs

TLAPS proves every invariant and every action property of the passing runs, and both
refinements, for every value of the constants. A theorem `Spec => []P` is always
the same three steps: an invariant that implies `P` holds initially, no step
breaks it, and temporal logic does the rest. TLC checked each such invariant on a
small instance of its component before it was proved.

| Module | Theorem | States (for every behaviour of the specification) |
|---|---|---|
| `DispatchProofs` | `TypeCorrect` | `TypeOK` |
| `DispatchSafety` | `TrailIsFaithful` | `TrailTellsTheStory` |
| | `OneCourierPerJob` | `CourierIsTheOneWhoAccepted` |
| | `AcceptedOffersAreTheWinners` | `AcceptedOfferIsTheWinners` |
| | `SuspensionHolds` | `SuspendedIsNeverOnline` |
| | `NobodySentBeforePayment` | `NoDispatchBeforePayment` |
| | `AtMostOneMore` | `AtMostOneExtraWave`, if `OneSweeper` |
| | `DispatchImplementsJobLifecycle` | `ImplementsJobLifecycle` |
| `BookingProofs` | `TypeCorrect` | `TypeOK` |
| | `AtMostOneParcel` | `OneParcel` |
| | `OneKeyedJob` | `OneJobPerKeyedShipment` |
| | `BookingFulfils` | `ImplementsFulfilment` |
| `MaterialTransportProofs` | `CancelledHasNoJob` | `CancelledTransportHasNoJob` |
| | `JobIsAuthorized` | `JobIsTheAuthorizedOne` |
| | `BookedHasItsJob` | `BookedTransportHasItsJob` |
| | `ConsentStands` | `LiveConsentStands` |
| `ModerationProofs` | `TypeCorrect` | `TypeOK` |
| | `OneEffect` | `OneEffectPerAction` |
| | `QueuedIsOwed` | `QueuedMeansOwed` |
| | `SettledStays` | `SettledRowsStaySettled` |
| | `AnswersMoveForward` | `AnswersOnlyMoveForward` |
| | `PlanIsCoherent` | of `EnforcementPlan`, for every decision: see below |
| `CheckoutProofs` | `TypeCorrect` | `TypeOK` |
| | `OneOrder` | `OneOrderPerKey` |
| | `NoUnitInvented` | `OnlyRollbacksInvent` |
| | `StockAdds` | `StockAddsUp` |
| `ParcelTrackingProofs` | `TypeCorrect` | `TypeOK` |
| | `OnePoller` | `OnePollAtATime` |
| | `CountedOnce` | `NoCheckpointIsCountedTwice` |
| `FileReferencesProofs` | `TypeCorrect` | `TypeOK` |
| | `ChangesAreOwed` | `EveryChangeIsOwed` |
| | `TakedownFinds` | `TakedownFindsEveryUse` |
| | `ClearingsAnswered` | `ClearingsAreAnswered` |

### Assumptions

The named `ASSUME`s of the modules, which TLC evaluates on every run: names that stand
for different things are different (`ActorsDiffer`, `TasksDiffer`, ...), limits
are natural numbers, and the tables a model is given (decisions, carts, the
carrier's journey) are tables of that kind. Four say more:

* `TransportKeyIsOurs`: the key of a transport's booking has not been used on another
  shipment. The service derives it from the transport's id.
* `UsersCanBeCounted`, `ShopIsFinite`, and slots in `FileReferences` that hold a finite
  set: what is counted with `Cardinality` is finite.
* `CartLinesDiffer`: no variant is in a cart twice, by the unique index
  `cart_items_cart_variant_key` (`db/schema/commerce.ts:44`).

One theorem has a hypothesis beside the specification: `OneSweeper`, for the bound on
waves, says that one process runs the sweep. The stock theorems need none: they
hold for any inserts that throw, any number of buyers and any sharing of keys
among them. (`orders_idempotency_key_key` is unique over all buyers, while the
claim in Redis is per buyer: two buyers of one key whose carts differ are one more way to a
rollback beside an order that stands, which `twice` counts like any other.)

### Dispatch

* *Typing.* `TypeOK` is not inductive: a step reads the job, the offer and the
  status its handler remembers. `TypeInv` adds that a handler has them at the
  labels where it uses them (`Remembering`), and that a row that was inserted
  names its job and courier (`OffersAreFilled`).
* *Classification.* Some thirty actions touch jobs, offers and the stage of an
  accept in only a few ways. `JobSteps`, `OfferSteps`, `AcceptStages`,
  `PaidStages` and `AttemptSteps` say which, once; every later proof splits on
  those few cases.
* *Trail.* Inductive together with typing: a transition appends the status it
  moves to, from the status that is last on the trail.
* *Courier.* Strengthened by: a job that still waits, or was never booked, has no
  courier. A job is accepted from `offered` only, so never twice.
* *Accepted offers.* `setOfferStatus` is unguarded, so the invariant speaks of the
  handlers as well: one that is about to mark its offer accepted holds an offer of
  the job's own courier. The courier of a job never changes after that.
* *Payment.* Strengthened by: a handler inside a wave, an accept or a sweep works
  on a job that is clear. No statement changes `clear`.
* *Waves* (`WaveInv`). Besides the sweep, only the booking's own request begins a wave,
  once, before any other is counted. While it has not recorded its wave, the count
  is within the limit and no count the sweep has listed is behind; once
  it has, a listed count is one behind at most. The sweep begins a wave only for a
  count below the limit, so that what it writes is within the limit, and what it
  is overtaken by is one above.
* *Refinement.* A job step is one of the abstract actions, every other step leaves
  `Phase` and `courier` alone.

### Booking and MaterialTransport

* *Typing* (`TypeInv`). A request or a tick that carries a claim carries one whose
  parts fit together (`AttemptFits`, `CarrierFits`): a carrier's operation with a
  carrier's quote, or no operation with a courier's.
* *One parcel* (`OpInv`). An operation is *live* when the carrier has booked it, has
  it open, or is about to be called for it. Every live operation is the standing
  claim's, and that claim is not `failed`; numbers above the standing claim's
  are untouched. `Sound` says, label by label, what a task may rely on: one that
  releases a claim knows the operation is not live, one that commits knows the
  carrier has booked it.
* *One keyed job* (`JobInv`). Every job row is the standing claim's, and then the
  claim is completed.
* *Refinement.* A step lets the carrier take a parcel (nothing is contracted and no
  other parcel is held), contracts (the parcel, or a courier's quote without one),
  contracts a keyless parcel once more, or leaves both as they are. By `JobInv` a second
  row is the first one's equal; by the key's index neither has a key.
* *Transports* (`TransportInv`). A shipment belongs to a transport from its creation,
  or never, so that the invariant is a disjunction: before the row exists,
  `Booking`'s typing with nothing done to a shipment that is not there; afterwards
  `OursInv`, where nobody is ever on the way to a carrier and the job, the
  attempt, the shipment and the row agree on whether it is booked. `Current` is why
  a compare-and-swap that wins is right: a task whose copy of the row is current
  still sees the statuses that it decided on, and no live authorization.

### Moderation

* *Typing.* What a worker holds at each label (`Handling`).
* *One effect* (`EffectInv`). Leases lapse, so that two workers can handle one
  decision at once; the claim of the enforcement has one holder all the same, its
  row is `claimed` as long as that holder is at work, and until the holder has made
  the update, as many effects were made as errors were heard about one.
* *Owed* (`OwedInv`). A report has its outbox row from its intake on, and a worker that
  is about to complete that row has taken the report out of `queued`.
* *Action properties.* Every write to a row asks for the lease or for
  a claimable status; every write of an answer is the guarded one.
* *Plans* (`PlanIsCoherent`). No state is involved: whatever is decided, a plan asks for
  something, never for a suspension and a reinstatement at once, and "none" only
  alone; it leaves alone whoever is not a courier; and a cleared courier is
  reinstated, unless a recommendation of the same decision says to stop them
  (`CollapseIsCoherent`).

### Checkout

* *Typing* (`TypeInv`). `Fits` says how far a checkout has come: the first `k` lines
  reserved, then all of them; the orders that exist are those of `made`, the first
  seller's among them.
* *Orders* (`OrderInv`). A running checkout knows its orders, and whoever has made one
  has made that of its first seller. The unique key does the rest.
* *Stock* (`StockInv`). A unit is for sale, held by a checkout, in a standing order, or
  about to be given back by a transition: `Balance` adds these up, as cardinalities
  of the checkouts, orders and actors that account for a unit of the variant, less
  what was released `twice`, and never exceeds the stock. Without a fault it equals
  the stock, and the commitments (with `twice` added back) are what is held, unpaid, or
  being settled (`Due`). Each step moves one member from one of these sets to another.
  A rollback of a line whose order stands moves none: it raises the counter for sale
  and `twice` together.

### ParcelTracking

* *One poll* (`LeaseInv`). Until a lease runs out under a poll, whoever polls is the
  row's owner and its lease is live; a claim needs that nobody's is.
* *The count* (`TotalInv`). `checkpoint_count` is never above what is stored, and
  neither is the count in any copy in flight. A poll writes its copy plus what it
  has added, which were not stored before: it can fall behind, not ahead.

### FileReferences

* *Owed* (`OwedInv`). A worker that owns the row it works on is *faithful* as long as
  its generation is the row's: what it asked is what the rows say now, and what it told
  Oxy is so; a row that was written since has a higher generation, and is not
  deleted. Every use is in the outbox, or settled, refused or overtaken. A worker that
  lost its row and a reconciliation may make Oxy wrong about a use; that is what
  makes it overtaken, until Oxy is right about it again. What the owner of the row
  tells needs no excuse, for its row is there until it has told the last of it.
* *Takedowns.* An action property, from the same invariant: a use that is not among the
  candidates is not in the outbox, so that it is settled, refused or overtaken; if it is
  settled Oxy holds it, and did not when the event was issued.
* *Clearings* (`HistoryInv`, `ClearedInv`). A file that is live was unblocked after its
  last block, and a deleted file stays deleted; while the events are handled in order, a
  clearing that is not answered has no unblock behind it.

### Only model-checked

Liveness under fairness, which is out of the prover's reach: `NoJobWaitsForever`,
`NoOfferStaysOpen`, `EveryParcelGetsItsJob`, `EveryRowSettles`,
`NoUnitStaysReserved`, `DueParcelsAreShown`, `CountComesRight` and
`OxyComesToAgree`. None of the modules declares a `RECURSIVE` operator.

## Not modelled

* *Of modelled components.* Dispatch: geography, capability, QR codes and proof of
  delivery. Booking: prices and the wave that follows a commit. Material transports:
  who may call what, and parsing. Moderation: events the webhook only
  acknowledges, reports about customers and deliveries (nothing is enforced), the
  sender's own retry schedule. Checkout: untracked variants, quantities above one,
  `setAvailable`, edits of a cart, the time to live of a Redis key (a key may be
  forgotten at any time instead), coupons, shipping and sales counts. Tracking: the
  carrier budget, announcements, moving subscriptions between parcels, the retention
  purge, parcels that only link to the carrier. Files: the order in a gallery,
  ownership of files, the import of category art.
* *Components.* The vehicle capability cache, courier companies, reviews and their
  aggregates, stores, the catalogue and its search, carts as such, notifications,
  number sequences, exchange rates: rows written by one statement each, or output
  that nothing else depends on. HTTP parsing, authentication and the user interfaces,
  which are most of the repository's lines, keep no protocol to get wrong.

## Plan

1. Done: `JobLifecycle`, `Dispatch` with its proofs, `Fulfilment`, `Booking`,
   `MaterialTransport`, `EnforcementPlan`, `Moderation`, `Checkout`,
   `ParcelTracking`, `FileReferences`.
2. Done: the proofs of every safety property, action property and refinement above.
3. Next: the composition of `Moderation` with `Dispatch` over the courier's status, so
   that an enforcement races with a return online; a cart that is edited between two
   checkouts.
