--------------------------- MODULE ParcelTracking ---------------------------
(***************************************************************************)
(* One parcel of an outside carrier, shared by everybody who tracks it: the*)
(* row that is both the parcel and the poller's work item, the people who  *)
(* subscribe to it, and the tasks that claim it under a lease, ask the     *)
(* carrier and write back what it said.                                    *)
(*                                                                         *)
(* The carrier's checkpoints are numbered in the order they happened, so   *)
(* one number stands for a checkpoint, its time and the status it brings.  *)
(* A due time is either set or not: how far away it is only delays a claim.*)
(***************************************************************************)
EXTENDS Naturals, Sequences, FiniteSets

CONSTANTS
  Users,        \* the Oxy users
  Requests,     \* requests to track, untrack or refresh the parcel, one each
  Tasks,        \* the processes that run the poll dispatcher
  Pushes,       \* the carrier's webhook deliveries
  None,         \* no user, no task
  Journey,      \* the status each of the carrier's checkpoints brings
  MaxFailures,  \* config.tracking.maxConsecutiveFailures
  MaxNotFound,  \* config.tracking.maxNotFoundStreak
  MaxFaults,    \* bound: calls that fail, tasks that die, leases that lapse under
                \* a live task
  Toll          \* bound: for how many failed calls a death or such a lapse counts

Terminal == {"delivered", "returned", "expired", "cancelled"}
Status   == Terminal \cup {"pending", "info_received", "in_transit", "out_for_delivery",
                         "available_for_pickup", "failed_attempt", "exception"}

ASSUME JourneyIsOne      == Journey \in Seq(Status) /\ Journey # <<>>
ASSUME NoneIsNobody      == None \notin Users \cup Tasks
ASSUME UsersCanBeCounted == IsFiniteSet(Users)
ASSUME TrackingIsBounded ==
  {MaxFailures, MaxNotFound, Toll} \subseteq Nat \ {0} /\ MaxFaults \in Nat

VARIABLES
  carrier,   \* how many checkpoints the carrier knows of; none: the number is unknown
  parcel,    \* the tracked_parcels row
  stored,    \* its tracking_checkpoints rows
  watching,  \* its tracked_parcel_subscriptions rows: the users who track it
  pushed,    \* the tracking_webhook_events rows
  request,   \* what each request is in the middle of
  task,      \* what each task is in the middle of
  stranded,  \* history: the due time of a watched parcel was cleared on old news
  faults, lapses  \* what has gone wrong so far

bounds == <<stranded, faults, lapses>>
vars == <<carrier, parcel, stored, watching, pushed, request, task, bounds>>

-----------------------------------------------------------------------------

Parcel == [status : Status \cup {"none"}, mode : {"poll", "webhook", "manual"},
           count : 0 .. Cardinality(Users), due : BOOLEAN,
           owner : Tasks \cup {None}, live : BOOLEAN, last : 0 .. Len(Journey),
           total : Nat, failures : Nat, notFound : 0 .. MaxNotFound]

RequestState ==
  [at : {"idle", "track", "untrack", "refresh", "recount", "done"},
   user : Users \cup {None}, count : 0 .. Cardinality(Users), due : BOOLEAN]

\* "row" is the row as the claim returned it, "said" what the carrier answered
\* (0: not found).
Task == [at : {"idle", "claimed", "answered", "refused", "recount", "counted"},
         row : Parcel, said : 0 .. Len(Journey), count : 0 .. Cardinality(Users)]

NoRow == [status |-> "none", mode |-> "poll", count |-> 0, due |-> FALSE, owner |-> None,
          live |-> FALSE, last |-> 0, total |-> 0, failures |-> 0, notFound |-> 0]
NewRow    == [NoRow EXCEPT !.status = "pending"]
Unstarted == [at |-> "idle", user |-> None, count |-> 0, due |-> FALSE]
Resting   == [at |-> "idle", row |-> NoRow, said |-> 0, count |-> 0]

TypeOK ==
  /\ carrier   \in 0 .. Len(Journey)
  /\ parcel    \in Parcel
  /\ stored    \subseteq 1 .. Len(Journey)
  /\ watching  \subseteq Users
  /\ pushed    \subseteq Pushes
  /\ request   \in [Requests -> RequestState]
  /\ task      \in [Tasks -> Task]
  /\ stranded  \in BOOLEAN
  /\ {faults, lapses} \subseteq 0 .. MaxFaults

Init ==
  /\ carrier   = 0
  /\ parcel    = NoRow
  /\ stored    = {}
  /\ watching  = {}
  /\ pushed    = {}
  /\ request   = [r \in Requests |-> Unstarted]
  /\ task      = [t \in Tasks |-> Resting]
  /\ stranded  = FALSE
  /\ faults = 0 /\ lapses = 0

Exists == parcel.status # "none"

Fault(n) == /\ faults + lapses + n <= MaxFaults /\ faults' = faults + n
            /\ UNCHANGED <<stranded, lapses>>

\* nextPollAt: whether the parcel is asked about again.
NextPoll(status, mode, count) == mode # "manual" /\ status \notin Terminal /\ count > 0

\* The last statement of refreshSubscriberCount.
Refresh(count, due) == parcel' = [parcel EXCEPT !.count = count, !.due = due]

\* People watch it, there is news to come, and it is not asked about again.
Stranded == watching # {} /\ NextPoll(parcel.status, parcel.mode, 1) /\ ~ parcel.due

Strands(blind) == stranded' = (stranded \/ (blind /\ Stranded'))

CarrierScans ==
  /\ carrier < Len(Journey)
  /\ carrier' = carrier + 1
  /\ UNCHANGED <<parcel, stored, watching, pushed, request, task, bounds>>

-----------------------------------------------------------------------------
(* The people: a request is a transaction, which sees its own writes and what *)
(* was committed when each of its statements began; the update of the parcel  *)
(* row comes last, and holds the row until the commit.                        *)

LookupParcel ==
  /\ ~ Exists
  /\ parcel' = NewRow
  /\ UNCHANGED <<carrier, stored, watching, pushed, request, task, bounds>>

\* The first to track the parcel creates it: who else wants to waits at the
\* unique index until the transaction is over.
TrackNew(r, u) ==
  /\ request[r].at = "idle" /\ ~ Exists
  /\ parcel' = [NewRow EXCEPT !.count = 1, !.due = TRUE]
  /\ watching' = {u}
  /\ request' = [request EXCEPT ![r].at = "done"]
  /\ UNCHANGED <<carrier, stored, pushed, task, bounds>>

\* findOrCreateParcel, subscribeIfAbsent and the count: two reads, of the row and
\* of the subscriptions, are one step, as only the second meets other writers.
TrackCount(r, u) ==
  /\ request[r].at = "idle" /\ Exists
  /\ request' = [request EXCEPT
       ![r] = [at |-> "track", user |-> u, count |-> Cardinality(watching \cup {u}),
               due |-> NextPoll(parcel.status, parcel.mode, 1)]]
  /\ UNCHANGED <<carrier, parcel, stored, watching, pushed, task, bounds>>

Track(r) ==
  LET u == request[r].user IN
  /\ request[r].at = "track"
  /\ Refresh(request[r].count, request[r].due)
  /\ watching' = watching \cup {u}
  /\ request' = [request EXCEPT ![r] = [Unstarted EXCEPT !.at = "done"]]
  /\ UNCHANGED <<carrier, stored, pushed, task, faults, lapses>>
  /\ Strands(TRUE)

\* deleteSubscription and the first count.
UntrackCount(r, u) ==
  /\ request[r].at = "idle" /\ u \in watching
  /\ request' = [request EXCEPT
       ![r] = [Unstarted EXCEPT !.at = "untrack", !.user = u,
                                !.count = Cardinality(watching \ {u})]]
  /\ UNCHANGED <<carrier, parcel, stored, watching, pushed, task, bounds>>

\* The first update holds the row, so that what follows it is one step: with
\* watchers left the parcel is counted a second time and armed again.
Untrack(r) ==
  LET u    == request[r].user
      left == request[r].count IN
  /\ request[r].at = "untrack"
  /\ IF left > 0 THEN Refresh(Cardinality(watching \ {u}),
                              NextPoll(parcel.status, parcel.mode, left))
                 ELSE Refresh(0, FALSE)
  /\ watching' = watching \ {u}
  /\ request' = [request EXCEPT ![r] = [Unstarted EXCEPT !.at = "done"]]
  /\ UNCHANGED <<carrier, stored, pushed, task, bounds>>

\* requestRefresh is no transaction: the subscription is read, the subscriptions
\* are counted, and the row is written.  What it read last may be too recent.
RefreshRead(r, u) ==
  /\ request[r].at = "idle" /\ u \in watching
  /\ request' = [request EXCEPT ![r].at = "refresh"]
  /\ UNCHANGED <<carrier, parcel, stored, watching, pushed, task, bounds>>

RefreshCount(r) ==
  /\ request[r].at = "refresh"
  /\ request' = [request EXCEPT ![r].at = "recount", ![r].count = Cardinality(watching)]
  /\ UNCHANGED <<carrier, parcel, stored, watching, pushed, task, bounds>>

RefreshWrite(r) ==
  /\ request[r].at = "recount"
  /\ Refresh(request[r].count, TRUE)
  /\ request' = [request EXCEPT ![r] = [Unstarted EXCEPT !.at = "done"]]
  /\ UNCHANGED <<carrier, stored, watching, pushed, task, bounds>>

RequestStep(r) ==
  \/ \E u \in Users : \/ TrackNew(r, u) \/ TrackCount(r, u)
                      \/ UntrackCount(r, u) \/ RefreshRead(r, u)
  \/ Track(r) \/ Untrack(r) \/ RefreshCount(r) \/ RefreshWrite(r)

\* The webhook claims the delivery and schedules the parcel, in one transaction;
\* a delivery that is already claimed changes nothing.
Push(p) ==
  /\ p \notin pushed
  /\ pushed' = pushed \cup {p}
  /\ parcel' = IF Exists THEN [parcel EXCEPT !.mode = "webhook", !.due = TRUE] ELSE parcel
  /\ UNCHANGED <<carrier, stored, watching, request, task, bounds>>

-----------------------------------------------------------------------------
(* The poll dispatcher *)

\* What a poll uses of the row the claim returned.
AsPolled(row) == [row EXCEPT !.due = FALSE, !.owner = None, !.live = FALSE, !.last = 0]

\* Mutant: a lapsed lease is never reclaimed.
LeasedToNobody == parcel.owner = None

\* Mutant: the lease is not looked at.
AnyLease == TRUE

Unleased == ~ parcel.live

\* Only parcels whose carrier has a fetching adapter in this very process are
\* claimed, so that the poll never misses its adapter.
ClaimDueParcel(t) ==
  /\ task[t].at = "idle" /\ Exists /\ parcel.due /\ Unleased
  /\ parcel' = [parcel EXCEPT !.owner = t, !.live = TRUE]
  /\ task' = [task EXCEPT ![t].at = "claimed", ![t].row = AsPolled(parcel)]
  /\ UNCHANGED <<carrier, stored, watching, pushed, request, bounds>>

Fetch(t) ==
  /\ task[t].at = "claimed"
  /\ \/ /\ task' = [task EXCEPT ![t].at = "answered", ![t].said = carrier]
        /\ UNCHANGED bounds
     \/ Fault(1) /\ task' = [task EXCEPT ![t].at = "refused"]
  /\ UNCHANGED <<carrier, parcel, stored, watching, pushed, request>>

\* Whoever holds the lease by now, the row is written and the lease dropped.
Unlease(row) == [row EXCEPT !.owner = None, !.live = FALSE]

RecordFailure(t) ==
  LET exhausted == task[t].row.failures + 1 >= MaxFailures IN
  /\ task[t].at = "refused"
  /\ parcel' = Unlease([parcel EXCEPT !.failures = @ + 1, !.due = ~ exhausted,
                                      !.mode = IF exhausted THEN "manual" ELSE @])
  /\ task' = [task EXCEPT ![t] = Resting]
  /\ UNCHANGED <<carrier, stored, watching, pushed, request, bounds>>

\* Somebody wrote the parcel since the poll was handed its copy.
Overtaken(row) == AsPolled(parcel) # row

\* The number is given up on after a streak, once it is old enough.  The streak
\* is only compared with MaxNotFound, and is not counted any further.
RecordNotFound(t) ==
  LET row  == task[t].row
      streak(n) == IF n < MaxNotFound THEN n + 1 ELSE n IN
  /\ task[t].at = "answered" /\ task[t].said = 0
  /\ \E expired \in {FALSE, row.notFound + 1 >= MaxNotFound} :
       parcel' = Unlease([parcel EXCEPT
         !.notFound = streak(@), !.failures = 0,
         !.status = IF expired THEN "expired" ELSE @,
         !.due = ~ expired /\ NextPoll(row.status, row.mode, row.count)])
  /\ task' = [task EXCEPT ![t] = Resting]
  /\ UNCHANGED <<carrier, stored, watching, pushed, request, faults, lapses>>
  /\ Strands(Overtaken(row))

\* Mutant: every checkpoint of the answer is counted as a new one.
CountAll(new, said) == said

CountNew(new, said) == Cardinality(new)

\* The carrier may know the number and have no checkpoint of it yet.
Reported(said) == IF said = 0 THEN "info_received" ELSE Journey[said]

\* The checkpoints and the row in one transaction; a parcel that has said
\* nothing new for long enough is taken for finished.
ApplySnapshot(t) ==
  LET row  == task[t].row
      said == task[t].said
      new  == 1 .. said \ stored IN
  /\ task[t].at = "answered"
  /\ stored' = stored \cup new
  /\ \E status \in {Reported(said)} \cup
                   IF Reported(said) = "delivered" THEN {} ELSE {"expired"} :
       parcel' = Unlease([parcel EXCEPT
         !.status = status, !.last = said, !.failures = 0, !.notFound = 0,
         !.total = row.total + CountNew(new, said),
         !.due = NextPoll(status, row.mode, row.count)])
  /\ task' = [task EXCEPT ![t] = Resting]
  /\ UNCHANGED <<carrier, watching, pushed, request, faults, lapses>>
  /\ Strands(Overtaken(row))

\* Mutant: only a counter that is too high is found.
TooHigh == parcel.count > Cardinality(watching)

CountDiffers == parcel.count # Cardinality(watching)

\* reconcile: a parcel whose counter disagrees with its subscriptions is
\* recounted, three statements of their own, and its due time cleared.
ReconcileFind(t) ==
  /\ task[t].at = "idle" /\ Exists
  /\ CountDiffers
  /\ task' = [task EXCEPT ![t].at = "recount"]
  /\ UNCHANGED <<carrier, parcel, stored, watching, pushed, request, bounds>>

ReconcileCount(t) ==
  /\ task[t].at = "recount"
  /\ task' = [task EXCEPT ![t].at = "counted", ![t].count = Cardinality(watching)]
  /\ UNCHANGED <<carrier, parcel, stored, watching, pushed, request, bounds>>

\* Mutant: the counter is adjusted where it should be set.
ReconcileAdds(t) ==
  /\ task[t].at = "counted"
  /\ Refresh(parcel.count + task[t].count, FALSE)
  /\ task' = [task EXCEPT ![t] = Resting]
  /\ UNCHANGED <<carrier, stored, watching, pushed, request, faults, lapses>>
  /\ Strands(TRUE)

ReconcileWrite(t) ==
  /\ task[t].at = "counted"
  /\ Refresh(task[t].count, FALSE)
  /\ task' = [task EXCEPT ![t] = Resting]
  /\ UNCHANGED <<carrier, stored, watching, pushed, request, faults, lapses>>
  /\ Strands(TRUE)

TaskStep(t) ==
  \/ ClaimDueParcel(t) \/ Fetch(t)
  \/ RecordFailure(t) \/ RecordNotFound(t) \/ ApplySnapshot(t)
  \/ ReconcileFind(t) \/ ReconcileCount(t) \/ ReconcileWrite(t)

Polling(t) == task[t].at \in {"claimed", "answered", "refused"}

\* The lease of a dead task runs out; that of a live one only when its
\* heartbeats are held up, and the task polls on all the same.
LeaseLapses ==
  /\ parcel.owner # None /\ parcel.live
  /\ parcel' = [parcel EXCEPT !.live = FALSE]
  /\ IF Polling(parcel.owner)
     THEN /\ faults + lapses + Toll <= MaxFaults /\ lapses' = lapses + Toll
          /\ UNCHANGED <<stranded, faults>>
     ELSE UNCHANGED bounds
  /\ UNCHANGED <<carrier, stored, watching, pushed, request, task>>

\* A request that dies has written nothing, and is as good as never sent.
Die ==
  /\ Fault(Toll)
  /\ \E t \in Tasks : task[t].at # "idle" /\ task' = [task EXCEPT ![t] = Resting]
  /\ UNCHANGED <<carrier, parcel, stored, watching, pushed, request>>

Next ==
  \/ CarrierScans \/ LookupParcel \/ LeaseLapses \/ Die
  \/ \E r \in Requests : RequestStep(r)
  \/ \E p \in Pushes : Push(p)
  \/ \E t \in Tasks : TaskStep(t)

\* A request that has begun goes on, leases run out, and the dispatchers tick:
\* whatever they poll, every twentieth tick reconciles.
Fairness ==
  /\ \A r \in Requests : WF_vars(request[r].at # "idle" /\ RequestStep(r))
  /\ \A t \in Tasks : WF_vars(TaskStep(t)) /\ SF_vars(ReconcileFind(t))
  /\ WF_vars(LeaseLapses /\ UNCHANGED lapses)

Spec     == Init /\ [][Next]_vars
LiveSpec == Spec /\ Fairness

-----------------------------------------------------------------------------
(* Properties *)

\* Unless a lease ran out under a task that was still polling, one task at a
\* time polls the parcel: no failure, release or death hands it to two.
\* Guards claimDueParcel and the releases of the lease.
OnePollAtATime ==
  lapses = 0 => \A t, u \in Tasks : Polling(t) /\ Polling(u) => t = u

\* checkpoint_count never says there are more checkpoints than are stored, even
\* when two tasks write one parcel's answers back over each other.
\* Guards ingestCheckpoints and the count applySnapshot computes from it.
NoCheckpointIsCountedTwice == parcel.total <= Cardinality(stored)

\* A parcel that is due is asked about until its last checkpoint is shown: polls
\* fail and back off, tasks die and leases lapse, but it never stays claimed by
\* nobody.  It may stop being due for four reasons only: nobody watches it, it is
\* over, its carrier is given up on, or it was stranded: a reconciliation, or a
\* write with an old copy of the row, cleared the due time of a watched parcel.
\* Guards the leases, every release of one, and the due times the requests write.
DueParcelsAreShown ==
  (parcel.due /\ carrier = Len(Journey))
    ~> \/ parcel.last = Len(Journey)
       \/ /\ ~ parcel.due
          /\ \/ watching = {} \/ parcel.status \in Terminal
             \/ parcel.mode = "manual" \/ stranded

\* A parcel that people watch never goes unasked about for ever: the
\* reconciliation recounts it and arms it again, says tracking-poll.dispatcher.ts.
\* It does not: refreshSubscriberCount is called there with no due time.
WatchedParcelsAreAskedAbout == []<> ~ Stranded

\* However requests and reconciliations overlap, the counter comes to agree with
\* the subscriptions once people stop coming and going: the parcel is recounted,
\* if not armed again.
\* Guards refreshSubscriberCount, which counts outside any lock, and reconcile.
CountComesRight == <>[](parcel.count = Cardinality(watching))
=============================================================================
