------------------------ MODULE ParcelTrackingProofs ------------------------
(***************************************************************************)
(* What holds of ParcelTracking for every set of users, requests and tasks *)
(* and every journey of the parcel, proved with TLAPS.                     *)
(***************************************************************************)
EXTENDS ParcelTracking, FiniteSetTheorems, TLAPS

-----------------------------------------------------------------------------
(* Typing.  A request on its way to a write knows its user. *)

Asking == {k \in RequestState : k.at \in {"track", "untrack"} => k.user \in Users}

TypeInv == TypeOK /\ request \in [Requests -> Asking]

Counts == 0 .. Cardinality(Users)

LEMMA UsersAreFinite == IsFiniteSet(Users) /\ Cardinality(Users) \in Nat
  BY UsersCanBeCounted, FS_CardinalityType

\* Subscriptions can always be counted.
LEMMA WatchersCounted == \A W \in SUBSET Users : Cardinality(W) \in Counts
<1> SUFFICES ASSUME NEW W \in SUBSET Users PROVE Cardinality(W) \in Counts
  OBVIOUS
<1>1. IsFiniteSet(W) /\ Cardinality(W) <= Cardinality(Users)
  BY UsersAreFinite, FS_Subset
<1>2. Cardinality(W) \in Nat
  BY <1>1, FS_CardinalityType
<1> QED BY <1>1, <1>2, UsersAreFinite DEF Counts

\* The journey's end, and the bounds.
LEMMA Bounds ==
  /\ Len(Journey) \in Nat \ {0} /\ \A n \in 1 .. Len(Journey) : Journey[n] \in Status
  /\ MaxFailures \in Nat \ {0} /\ MaxNotFound \in Nat \ {0} /\ MaxFaults \in Nat
  /\ Toll \in Nat \ {0}
  BY JourneyIsOne, TrackingIsBounded

LEMMA NoRowTyped ==
  /\ NoRow \in Parcel /\ NewRow \in Parcel
  /\ NewRow.status # "none" /\ NewRow.total = 0 /\ NewRow.count = 0
<1>1. /\ 0 \in 0 .. Cardinality(Users) /\ 0 \in 0 .. Len(Journey) /\ 0 \in 0 .. MaxNotFound
  BY UsersAreFinite, Bounds
<1> QED BY <1>1 DEF NoRow, NewRow, Parcel, Status

\* refreshSubscriberCount writes the counter and the due time.
LEMMA RefreshTyped ==
  ASSUME NEW p \in Parcel, NEW count \in Counts, NEW due \in BOOLEAN
  PROVE  LET q == [p EXCEPT !.count = count, !.due = due] IN
         /\ q \in Parcel /\ q.status = p.status /\ q.owner = p.owner
         /\ q.live = p.live /\ q.total = p.total
  BY DEF Parcel, Counts

\* A release leaves a row that nobody leases.
LEMMA UnleaseTyped ==
  ASSUME NEW p \in Parcel
  PROVE  /\ Unlease(p) \in Parcel /\ ~ Unlease(p).live
         /\ Unlease(p).status = p.status /\ Unlease(p).total = p.total
  BY DEF Unlease, Parcel

LEMMA AsPolledTyped ==
  ASSUME NEW p \in Parcel
  PROVE  AsPolled(p) \in Parcel /\ AsPolled(p).total = p.total
<1>1. 0 \in 0 .. Len(Journey)
  BY Bounds
<1> QED BY <1>1 DEF AsPolled, Parcel

\* The row a claim leases.
LEMMA LeaseTyped ==
  ASSUME NEW p \in Parcel, NEW t \in Tasks
  PROVE  LET q == [p EXCEPT !.owner = t, !.live = TRUE] IN
         /\ q \in Parcel /\ q.owner = t /\ q.live
         /\ q.status = p.status /\ q.total = p.total
  BY DEF Parcel

\* The row whose lease runs out.
LEMMA LapseTyped ==
  ASSUME NEW p \in Parcel
  PROVE  LET q == [p EXCEPT !.live = FALSE] IN
         q \in Parcel /\ q.status = p.status /\ q.total = p.total
  BY DEF Parcel

\* A push schedules the parcel.
LEMMA PushTyped ==
  ASSUME NEW p \in Parcel
  PROVE  LET q == [p EXCEPT !.mode = "webhook", !.due = TRUE] IN
         /\ q \in Parcel /\ q.status = p.status /\ q.owner = p.owner
         /\ q.live = p.live /\ q.total = p.total
  BY DEF Parcel

LEMMA RestingTyped == Resting \in Task
<1>1. 0 \in 0 .. Cardinality(Users) /\ 0 \in 0 .. Len(Journey)
  BY UsersAreFinite, Bounds
<1> QED BY <1>1, NoRowTyped DEF Resting, Task

LEMMA UnstartedTyped ==
  /\ Unstarted \in Asking
  /\ [Unstarted EXCEPT !.at = "done"] \in Asking
<1>1. 0 \in 0 .. Cardinality(Users)
  BY UsersAreFinite
<1> QED BY <1>1 DEF Unstarted, Asking, RequestState

LEMMA NextPollBoolean == \A s, m, c : NextPoll(s, m, c) \in BOOLEAN
  BY DEF NextPoll

LEMMA FaultTyped ==
  ASSUME {faults, lapses} \subseteq 0 .. MaxFaults, NEW n \in Nat, Fault(n)
  PROVE  /\ {faults', lapses'} \subseteq 0 .. MaxFaults
         /\ lapses' = lapses /\ stranded' = stranded
  BY Bounds DEF Fault

LEMMA StrandsTyped ==
  ASSUME NEW blind, Strands(blind)
  PROVE  stranded' \in BOOLEAN
<1>1. stranded' = (stranded \/ (blind /\ Stranded'))
  BY DEF Strands
<1>2. (stranded \/ (blind /\ Stranded')) \in BOOLEAN
  OBVIOUS
<1> QED BY <1>1, <1>2, Zenon

LEMMA InitTyped == Init => TypeInv
<1>1. {0} \subseteq 0 .. MaxFaults /\ 0 \in 0 .. Len(Journey)
  BY Bounds
<1> QED BY <1>1, NoRowTyped, RestingTyped, UnstartedTyped DEF Init, TypeInv, TypeOK, Asking

\* A request's step leaves the others alone.
LEMMA RequestTyped ==
  ASSUME request \in [Requests -> Asking], NEW r \in Requests, NEW k \in Asking,
         request' = [request EXCEPT ![r] = k]
  PROVE  request' \in [Requests -> Asking] /\ request' \in [Requests -> RequestState]
  BY DEF Asking

\* The steps of the people.
LEMMA PeopleTyped ==
  ASSUME TypeInv, NEW r \in Requests, RequestStep(r)
  PROVE  TypeInv'
<1> USE DEF TypeInv, TypeOK
<1>1. request[r] \in Asking /\ request[r] \in RequestState
  OBVIOUS
<1>2. ASSUME NEW u \in Users, TrackNew(r, u)
      PROVE  TypeInv'
  <2>1. request' \in [Requests -> Asking] /\ request' \in [Requests -> RequestState]
    <3> DEFINE k == [request[r] EXCEPT !.at = "done"]
    <3>1. k \in Asking
      BY <1>1 DEF Asking, RequestState
    <3>2. request' = [request EXCEPT ![r] = k]
      BY <1>2 DEF TrackNew
    <3> HIDE DEF k
    <3> QED BY <3>1, <3>2, RequestTyped
  <2>2. 1 \in Counts
    <3>1. Cardinality({u}) = 1
      BY FS_Singleton
    <3> QED BY <3>1, WatchersCounted
  <2>3. parcel' \in Parcel
    BY <1>2, <2>2, NoRowTyped, RefreshTyped DEF TrackNew
  <2> QED BY <1>2, <2>1, <2>3 DEF TrackNew, bounds
<1>3. ASSUME NEW u \in Users, TrackCount(r, u)
      PROVE  TypeInv'
  <2>1. PICK due \in BOOLEAN : due = NextPoll(parcel.status, parcel.mode, 1)
    BY NextPollBoolean
  <2> DEFINE k == [at |-> "track", user |-> u, count |-> Cardinality(watching \cup {u}),
                   due |-> due]
  <2>2. Cardinality(watching \cup {u}) \in Counts
    BY WatchersCounted
  <2>3. k \in Asking
    BY <2>2 DEF Asking, RequestState, Counts
  <2>4. request' = [request EXCEPT ![r] = k]
    BY <1>3, <2>1 DEF TrackCount
  <2>5. request' \in [Requests -> Asking] /\ request' \in [Requests -> RequestState]
    <3> HIDE DEF k
    <3> QED BY <2>3, <2>4, RequestTyped
  <2> QED BY <1>3, <2>5 DEF TrackCount, bounds
<1>4. CASE Track(r)
  <2>1. /\ request[r].user \in Users
        /\ request[r].count \in Counts /\ request[r].due \in BOOLEAN
    BY <1>1, <1>4 DEF Track, Asking, RequestState, Counts
  <2>2. request' \in [Requests -> Asking] /\ request' \in [Requests -> RequestState]
    BY <1>4, UnstartedTyped, RequestTyped DEF Track
  <2>3. parcel' \in Parcel
    BY <1>4, <2>1, RefreshTyped DEF Track, Refresh
  <2>4. stranded' \in BOOLEAN
    BY <1>4, StrandsTyped DEF Track
  <2> QED BY <1>4, <2>1, <2>2, <2>3, <2>4 DEF Track
<1>5. ASSUME NEW u \in Users, UntrackCount(r, u)
      PROVE  TypeInv'
  <2> DEFINE k == [Unstarted EXCEPT !.at = "untrack", !.user = u,
                                    !.count = Cardinality(watching \ {u})]
  <2>1. Cardinality(watching \ {u}) \in Counts
    BY WatchersCounted
  <2>2. k \in Asking
    BY <2>1, UnstartedTyped DEF Asking, RequestState, Counts
  <2>3. request' = [request EXCEPT ![r] = k]
    BY <1>5 DEF UntrackCount
  <2>4. request' \in [Requests -> Asking] /\ request' \in [Requests -> RequestState]
    <3> HIDE DEF k
    <3> QED BY <2>2, <2>3, RequestTyped
  <2> QED BY <1>5, <2>4 DEF UntrackCount, bounds
<1>6. CASE Untrack(r)
  <2>1. request' \in [Requests -> Asking] /\ request' \in [Requests -> RequestState]
    BY <1>6, UnstartedTyped, RequestTyped DEF Untrack
  <2>2. Cardinality(watching \ {request[r].user}) \in Counts /\ 0 \in Counts
    BY WatchersCounted, UsersAreFinite DEF Counts
  <2>3. PICK due \in BOOLEAN : due = NextPoll(parcel.status, parcel.mode, request[r].count)
    BY NextPollBoolean
  <2>4. parcel' \in Parcel
    <3>1. CASE request[r].count > 0
      <4>1. parcel' = [parcel EXCEPT !.count = Cardinality(watching \ {request[r].user}),
                                     !.due = due]
        BY <1>6, <2>3, <3>1 DEF Untrack, Refresh
      <4> QED BY <2>2, <4>1, RefreshTyped
    <3>2. CASE ~ (request[r].count > 0)
      <4>1. parcel' = [parcel EXCEPT !.count = 0, !.due = FALSE]
        BY <1>6, <3>2 DEF Untrack, Refresh
      <4> QED BY <2>2, <4>1, RefreshTyped
    <3> QED BY <3>1, <3>2
  <2> QED BY <1>6, <2>1, <2>4 DEF Untrack, bounds
<1>7. ASSUME NEW u \in Users, RefreshRead(r, u)
      PROVE  TypeInv'
  <2> DEFINE k == [request[r] EXCEPT !.at = "refresh"]
  <2>1. k \in Asking /\ request' = [request EXCEPT ![r] = k]
    BY <1>1, <1>7 DEF RefreshRead, Asking, RequestState
  <2>2. request' \in [Requests -> Asking] /\ request' \in [Requests -> RequestState]
    <3> HIDE DEF k
    <3> QED BY <2>1, RequestTyped
  <2> QED BY <1>7, <2>2 DEF RefreshRead, bounds
<1>8. CASE RefreshCount(r)
  <2> DEFINE k == [request[r] EXCEPT !.at = "recount", !.count = Cardinality(watching)]
  <2>1. Cardinality(watching) \in Counts
    BY WatchersCounted
  <2>2. k \in Asking /\ request' = [request EXCEPT ![r] = k]
    BY <1>1, <1>8, <2>1 DEF RefreshCount, Asking, RequestState, Counts
  <2>3. request' \in [Requests -> Asking] /\ request' \in [Requests -> RequestState]
    <3> HIDE DEF k
    <3> QED BY <2>2, RequestTyped
  <2> QED BY <1>8, <2>3 DEF RefreshCount, bounds
<1>9. CASE RefreshWrite(r)
  <2>1. request[r].count \in Counts
    BY <1>1 DEF RequestState, Counts
  <2>2. request' \in [Requests -> Asking] /\ request' \in [Requests -> RequestState]
    BY <1>9, UnstartedTyped, RequestTyped DEF RefreshWrite
  <2>3. parcel' \in Parcel
    BY <1>9, <2>1, RefreshTyped DEF RefreshWrite, Refresh
  <2> QED BY <1>9, <2>2, <2>3 DEF RefreshWrite, bounds
<1> QED BY <1>2, <1>3, <1>4, <1>5, <1>6, <1>7, <1>8, <1>9 DEF RequestStep

\* The dispatcher's steps: the row a poll writes, and the task it leaves.
LEMMA TaskTyped ==
  ASSUME task \in [Tasks -> Task], NEW t \in Tasks, NEW k \in Task,
         task' = [task EXCEPT ![t] = k]
  PROVE  task' \in [Tasks -> Task]
  OBVIOUS

LEMMA FailureTyped ==
  ASSUME NEW p \in Parcel, NEW exhausted \in BOOLEAN
  PROVE  LET q == [p EXCEPT !.failures = @ + 1, !.due = ~ exhausted,
                            !.mode = IF exhausted THEN "manual" ELSE @] IN
         q \in Parcel /\ q.status = p.status /\ q.total = p.total
<1> DEFINE q == [p EXCEPT !.failures = @ + 1, !.due = ~ exhausted,
                          !.mode = IF exhausted THEN "manual" ELSE @]
<1>1. p.failures + 1 \in Nat /\ p.mode \in {"poll", "webhook", "manual"}
  BY DEF Parcel
<1>2. PICK due \in BOOLEAN : due = ~ exhausted
  OBVIOUS
<1>3. PICK mode \in {"poll", "webhook", "manual"} :
        mode = IF exhausted THEN "manual" ELSE p.mode
  BY <1>1
<1>4. q = [p EXCEPT !.failures = p.failures + 1, !.due = due, !.mode = mode]
  BY <1>2, <1>3 DEF Parcel
<1> HIDE DEF q
<1>5. q \in Parcel /\ q.status = p.status /\ q.total = p.total
  BY <1>1, <1>4 DEF Parcel
<1> QED BY <1>5 DEF q

\* What a poll stores is the carrier's, and can be counted.
LEMMA NewCounted ==
  ASSUME NEW S \in SUBSET (1 .. Len(Journey)), NEW said \in 0 .. Len(Journey)
  PROVE  /\ S \cup (1 .. said \ S) \subseteq 1 .. Len(Journey)
         /\ IsFiniteSet(S) /\ Cardinality(S) \in Nat
         /\ Cardinality(1 .. said \ S) \in Nat
         /\ Cardinality(S \cup (1 .. said \ S)) = Cardinality(S) + Cardinality(1 .. said \ S)
<1>1. S \cup (1 .. said \ S) \subseteq 1 .. Len(Journey)
  BY Bounds
<1>2. IsFiniteSet(1 .. Len(Journey))
  BY Bounds, FS_Interval
<1>3. IsFiniteSet(S) /\ IsFiniteSet(1 .. said \ S)
  BY <1>1, <1>2, FS_Subset
<1>4. Cardinality(S) \in Nat /\ Cardinality(1 .. said \ S) \in Nat
  BY <1>3, FS_CardinalityType
<1>5. S \cap (1 .. said \ S) = {} /\ Cardinality({}) = 0
  BY FS_EmptySet
<1>6. Cardinality(S \cup (1 .. said \ S))
        = Cardinality(S) + Cardinality(1 .. said \ S) - Cardinality(S \cap (1 .. said \ S))
  BY <1>3, FS_Union
<1>7. Cardinality(S \cap (1 .. said \ S)) = 0
  BY <1>5, Zenon
<1>8. Cardinality(S \cup (1 .. said \ S)) = Cardinality(S) + Cardinality(1 .. said \ S)
  BY <1>4, <1>6, <1>7
<1> QED BY <1>1, <1>3, <1>4, <1>8

\* The number is not known to the carrier: the row keeps its checkpoints.
LEMMA NotFoundWrites ==
  ASSUME TypeOK, NEW t \in Tasks, RecordNotFound(t)
  PROVE  /\ parcel' \in Parcel /\ ~ parcel'.live /\ parcel'.total = parcel.total
         /\ parcel.status # "none" => parcel'.status # "none"
<1> DEFINE row == task[t].row
           n   == IF parcel.notFound < MaxNotFound THEN parcel.notFound + 1
                                                   ELSE parcel.notFound
<1>1. PICK e \in {FALSE, row.notFound + 1 >= MaxNotFound} :
        parcel' = Unlease([parcel EXCEPT
          !.notFound = n, !.failures = 0,
          !.status = IF e THEN "expired" ELSE @,
          !.due = ~ e /\ NextPoll(row.status, row.mode, row.count)])
  BY DEF RecordNotFound
<1>2. PICK due \in BOOLEAN : due = (~ e /\ NextPoll(row.status, row.mode, row.count))
  OBVIOUS
<1>3. parcel.notFound \in 0 .. MaxNotFound /\ parcel.status \in Status \cup {"none"}
  BY DEF TypeOK, Parcel
<1>4. PICK m \in 0 .. MaxNotFound : m = n
  BY <1>3, Bounds
<1>5. PICK status \in Status \cup {"none"} : status = IF e THEN "expired" ELSE parcel.status
  BY <1>3 DEF Status, Terminal
<1> DEFINE q == [parcel EXCEPT !.notFound = m, !.failures = 0,
                               !.status = status, !.due = due]
<1>6. q \in Parcel /\ q.status = status /\ q.total = parcel.total
  <2>1. parcel \in Parcel /\ 0 \in Nat
    BY DEF TypeOK
  <2> QED BY <2>1 DEF Parcel
<1>7. parcel' = Unlease(q)
  BY <1>1, <1>2, <1>4, <1>5 DEF TypeOK, Parcel
<1> HIDE DEF q
<1> QED BY <1>5, <1>6, <1>7, UnleaseTyped

\* The answer: what was new is stored and counted on top of the claim's count.
LEMMA SnapshotWrites ==
  ASSUME TypeOK, NEW t \in Tasks, ApplySnapshot(t)
  PROVE  /\ stored' \subseteq 1 .. Len(Journey)
         /\ parcel' \in Parcel /\ ~ parcel'.live /\ parcel'.status # "none"
         /\ Cardinality(stored) \in Nat /\ Cardinality(stored') \in Nat
         /\ Cardinality(stored) <= Cardinality(stored')
         /\ task[t].row.total <= Cardinality(stored)
              => parcel'.total <= Cardinality(stored')
<1> DEFINE row  == task[t].row
           said == task[t].said
           new  == 1 .. said \ stored
<1>1. said \in 0 .. Len(Journey) /\ row.total \in Nat
  <2>1. task[t] \in Task
    BY DEF TypeOK, ApplySnapshot
  <2>2. row \in Parcel /\ said \in 0 .. Len(Journey)
    BY <2>1 DEF Task
  <2> QED BY <2>2 DEF Parcel
<1>2. stored' = stored \cup new
  BY DEF ApplySnapshot
<1>3. /\ stored \cup new \subseteq 1 .. Len(Journey)
      /\ Cardinality(stored) \in Nat /\ Cardinality(new) \in Nat
      /\ Cardinality(stored \cup new) = Cardinality(stored) + Cardinality(new)
  BY <1>1, NewCounted DEF TypeOK
<1>4. PICK status \in {Reported(said)} \cup
                      IF Reported(said) = "delivered" THEN {} ELSE {"expired"} :
        parcel' = Unlease([parcel EXCEPT
          !.status = status, !.last = said, !.failures = 0, !.notFound = 0,
          !.total = row.total + CountNew(new, said),
          !.due = NextPoll(status, row.mode, row.count)])
  BY DEF ApplySnapshot
<1>5. status \in Status /\ status # "none"
  <2>1. Reported(said) \in Status
    <3>1. CASE said = 0
      BY <3>1 DEF Reported, Status
    <3>2. CASE said # 0
      <4>1. said \in 1 .. Len(Journey)
        BY <1>1, <3>2, Bounds
      <4> QED BY <3>2, <4>1, Bounds DEF Reported
    <3> QED BY <3>1, <3>2
  <2>2. "expired" \in Status /\ "none" \notin Status
    BY DEF Status, Terminal
  <2> QED BY <1>4, <2>1, <2>2
<1>6. PICK due \in BOOLEAN : due = NextPoll(status, row.mode, row.count)
  BY NextPollBoolean
<1>7. PICK total \in Nat : total = row.total + Cardinality(new)
  BY <1>1, <1>3
<1> DEFINE q == [parcel EXCEPT !.status = status, !.last = said, !.failures = 0,
                               !.notFound = 0, !.total = total, !.due = due]
<1>8. q \in Parcel /\ q.status = status /\ q.total = total
  <2>1. parcel \in Parcel /\ 0 \in Nat /\ 0 \in 0 .. MaxNotFound
    BY Bounds DEF TypeOK
  <2> HIDE DEF said
  <2> QED BY <1>1, <1>5, <2>1 DEF Parcel
<1>9. parcel' = Unlease(q)
  BY <1>4, <1>6, <1>7 DEF CountNew
<1>10. parcel' \in Parcel /\ ~ parcel'.live /\ parcel'.status # "none" /\ parcel'.total = total
  <2> HIDE DEF q
  <2> QED BY <1>5, <1>8, <1>9, UnleaseTyped
<1>11. /\ Cardinality(stored') \in Nat /\ Cardinality(stored) <= Cardinality(stored')
       /\ row.total <= Cardinality(stored) => total <= Cardinality(stored')
  <2>1. Cardinality(stored') = Cardinality(stored) + Cardinality(new)
    BY <1>2, <1>3
  <2>2. /\ Cardinality(stored) \in Nat /\ Cardinality(new) \in Nat
        /\ row.total \in Nat /\ total = row.total + Cardinality(new)
    BY <1>1, <1>3, <1>7
  <2> HIDE DEF new, row
  <2> QED BY <2>1, <2>2
<1> QED BY <1>2, <1>3, <1>10, <1>11

\* The steps of the dispatcher.
LEMMA DispatcherTyped ==
  ASSUME TypeInv, NEW t \in Tasks, TaskStep(t)
  PROVE  TypeInv'
<1> USE DEF TypeInv, TypeOK
<1>1. task[t] \in Task /\ task[t].row \in Parcel /\ task[t].said \in 0 .. Len(Journey)
  BY DEF Task
<1>2. CASE ClaimDueParcel(t)
  <2> DEFINE k == [task[t] EXCEPT !.at = "claimed", !.row = AsPolled(parcel)]
  <2>1. k \in Task /\ task' = [task EXCEPT ![t] = k]
    BY <1>1, <1>2, AsPolledTyped DEF ClaimDueParcel, Task
  <2>2. task' \in [Tasks -> Task]
    <3> HIDE DEF k
    <3> QED BY <2>1, TaskTyped
  <2>3. parcel' \in Parcel
    BY <1>2, LeaseTyped DEF ClaimDueParcel
  <2> QED BY <1>2, <2>2, <2>3 DEF ClaimDueParcel, bounds
<1>3. CASE Fetch(t)
  <2>1. task' \in [Tasks -> Task]
    <3>1. CASE task' = [task EXCEPT ![t].at = "answered", ![t].said = carrier]
      <4> DEFINE k == [task[t] EXCEPT !.at = "answered", !.said = carrier]
      <4>1. k \in Task /\ task' = [task EXCEPT ![t] = k]
        BY <1>1, <3>1 DEF Task
      <4> HIDE DEF k
      <4> QED BY <4>1, TaskTyped
    <3>2. CASE task' = [task EXCEPT ![t].at = "refused"]
      <4> DEFINE k == [task[t] EXCEPT !.at = "refused"]
      <4>1. k \in Task /\ task' = [task EXCEPT ![t] = k]
        BY <1>1, <3>2 DEF Task
      <4> HIDE DEF k
      <4> QED BY <4>1, TaskTyped
    <3> QED BY <1>3, <3>1, <3>2 DEF Fetch
  <2>2. {faults', lapses'} \subseteq 0 .. MaxFaults
    BY <1>3, FaultTyped DEF Fetch, bounds
  <2>3. stranded' = stranded
    BY <1>3 DEF Fetch, Fault, bounds
  <2> QED BY <1>3, <2>1, <2>2, <2>3 DEF Fetch
<1>4. CASE RecordFailure(t)
  <2> DEFINE exhausted == task[t].row.failures + 1 >= MaxFailures
  <2>1. PICK e \in BOOLEAN : e = exhausted
    <3>1. exhausted \in BOOLEAN
      BY <1>1, Bounds DEF Parcel
    <3> HIDE DEF exhausted
    <3> QED BY <3>1
  <2>2. parcel' = Unlease([parcel EXCEPT !.failures = @ + 1, !.due = ~ e,
                                         !.mode = IF e THEN "manual" ELSE @])
    BY <1>4, <2>1 DEF RecordFailure
  <2>3. parcel' \in Parcel
    BY <2>2, FailureTyped, UnleaseTyped
  <2>4. task' \in [Tasks -> Task]
    BY <1>4, RestingTyped, TaskTyped DEF RecordFailure
  <2> QED BY <1>4, <2>3, <2>4 DEF RecordFailure, bounds
<1>5. CASE RecordNotFound(t)
  <2>1. parcel' \in Parcel
    BY <1>5, NotFoundWrites DEF RecordNotFound
  <2>2. task' \in [Tasks -> Task]
    BY <1>5, RestingTyped, TaskTyped DEF RecordNotFound
  <2>3. stranded' \in BOOLEAN
    BY <1>5, StrandsTyped DEF RecordNotFound
  <2> QED BY <1>5, <2>1, <2>2, <2>3 DEF RecordNotFound
<1>6. CASE ApplySnapshot(t)
  <2>1. stored' \subseteq 1 .. Len(Journey) /\ parcel' \in Parcel
    BY <1>6, SnapshotWrites
  <2>2. task' \in [Tasks -> Task]
    BY <1>6, RestingTyped, TaskTyped DEF ApplySnapshot
  <2>3. stranded' \in BOOLEAN
    BY <1>6, StrandsTyped DEF ApplySnapshot
  <2> QED BY <1>6, <2>1, <2>2, <2>3 DEF ApplySnapshot
<1>7. CASE ReconcileFind(t)
  <2> DEFINE k == [task[t] EXCEPT !.at = "recount"]
  <2>1. k \in Task /\ task' = [task EXCEPT ![t] = k]
    BY <1>1, <1>7 DEF ReconcileFind, Task
  <2>2. task' \in [Tasks -> Task]
    <3> HIDE DEF k
    <3> QED BY <2>1, TaskTyped
  <2> QED BY <1>7, <2>2 DEF ReconcileFind, bounds
<1>8. CASE ReconcileCount(t)
  <2> DEFINE k == [task[t] EXCEPT !.at = "counted", !.count = Cardinality(watching)]
  <2>1. Cardinality(watching) \in 0 .. Cardinality(Users)
    BY WatchersCounted DEF Counts
  <2>2. k \in Task /\ task' = [task EXCEPT ![t] = k]
    BY <1>1, <1>8, <2>1 DEF ReconcileCount, Task
  <2>3. task' \in [Tasks -> Task]
    <3> HIDE DEF k
    <3> QED BY <2>2, TaskTyped
  <2> QED BY <1>8, <2>3 DEF ReconcileCount, bounds
<1>9. CASE ReconcileWrite(t)
  <2>1. task[t].count \in Counts
    BY <1>1 DEF Task, Counts
  <2>2. parcel' \in Parcel
    BY <1>9, <2>1, RefreshTyped DEF ReconcileWrite, Refresh
  <2>3. task' \in [Tasks -> Task]
    BY <1>9, RestingTyped, TaskTyped DEF ReconcileWrite
  <2>4. stranded' \in BOOLEAN
    BY <1>9, StrandsTyped DEF ReconcileWrite
  <2> QED BY <1>9, <2>2, <2>3, <2>4 DEF ReconcileWrite
<1> QED BY <1>2, <1>3, <1>4, <1>5, <1>6, <1>7, <1>8, <1>9 DEF TaskStep

\* Every step keeps the types.
LEMMA NextTyped == TypeInv /\ [Next]_vars => TypeInv'
<1> SUFFICES ASSUME TypeInv, [Next]_vars PROVE TypeInv'
  OBVIOUS
<1> USE DEF TypeInv, TypeOK
<1>1. CASE CarrierScans
  <2>1. carrier' \in 0 .. Len(Journey)
    BY <1>1, Bounds DEF CarrierScans
  <2> QED BY <1>1, <2>1 DEF CarrierScans, bounds
<1>2. CASE LookupParcel
  BY <1>2, NoRowTyped DEF LookupParcel, bounds
<1>3. CASE LeaseLapses
  <2>1. parcel' \in Parcel
    BY <1>3, LapseTyped DEF LeaseLapses
  <2>2. {faults', lapses'} \subseteq 0 .. MaxFaults /\ stranded' = stranded
    <3>1. CASE UNCHANGED bounds
      BY <3>1 DEF bounds
    <3>2. CASE /\ faults + lapses + Toll <= MaxFaults /\ lapses' = lapses + Toll
               /\ UNCHANGED <<stranded, faults>>
      BY <3>2, Bounds
    <3> QED BY <1>3, <3>1, <3>2 DEF LeaseLapses
  <2> QED BY <1>3, <2>1, <2>2 DEF LeaseLapses
<1>4. CASE Die
  <2>1. {faults', lapses'} \subseteq 0 .. MaxFaults /\ stranded' = stranded
    BY <1>4, Bounds, FaultTyped DEF Die
  <2>2. task' \in [Tasks -> Task]
    BY <1>4, RestingTyped, TaskTyped DEF Die
  <2> QED BY <1>4, <2>1, <2>2 DEF Die
<1>5. ASSUME NEW r \in Requests, RequestStep(r)
      PROVE  TypeInv'
  BY <1>5, PeopleTyped
<1>6. ASSUME NEW p \in Pushes, Push(p)
      PROVE  TypeInv'
  <2>1. parcel' \in Parcel
    BY <1>6, PushTyped DEF Push
  <2> QED BY <1>6, <2>1 DEF Push, bounds
<1>7. ASSUME NEW t \in Tasks, TaskStep(t)
      PROVE  TypeInv'
  BY <1>7, DispatcherTyped
<1>8. CASE UNCHANGED vars
  BY <1>8 DEF vars, bounds
<1> QED BY <1>1, <1>2, <1>3, <1>4, <1>5, <1>6, <1>7, <1>8 DEF Next

\* Every variable keeps its type: a count of watchers or of checkpoints never
\* leaves its range, whatever the writes cross.
THEOREM TypeCorrect == Spec => []TypeOK
<1>1. Spec => []TypeInv
  BY InitTyped, NextTyped, PTL DEF Spec
<1>2. TypeInv => TypeOK
  BY DEF TypeInv
<1> QED BY <1>1, <1>2, PTL

-----------------------------------------------------------------------------
(* The lease.  As long as none has run out under a poll, the row names the   *)
(* one task that polls; a parcel that is not there is polled by nobody.      *)

LeaseInv ==
  /\ \A t \in Tasks : Polling(t) => Exists
  /\ lapses = 0 => \A t \in Tasks : Polling(t) => parcel.owner = t /\ parcel.live

\* checkpoint_count is written back as it was claimed, plus what was new: it can
\* fall behind what is stored, and so can the copies in flight.
TotalInv ==
  /\ parcel.total <= Cardinality(stored)
  /\ \A t \in Tasks : Polling(t) => task[t].row.total <= Cardinality(stored)

LEMMA InitLeased == Init => LeaseInv /\ TotalInv
<1>1. Cardinality({}) = 0
  BY FS_EmptySet
<1> QED BY <1>1 DEF Init, LeaseInv, TotalInv, Polling, Resting, NoRow

\* A step that leaves the row's life, the lease and the tasks alone.
LEMMA LeaseKept ==
  ASSUME LeaseInv, lapses' = lapses,
         \A t \in Tasks : Polling(t)' => Polling(t),
         parcel'.status = parcel.status, parcel'.owner = parcel.owner,
         parcel'.live = parcel.live
  PROVE  LeaseInv'
  BY DEF LeaseInv, Exists

\* The steps of the people, and the pushes, keep what the row names and counts.
LEMMA PeopleKeepLeases ==
  ASSUME TypeInv, NEW r \in Requests, RequestStep(r), LeaseInv, TotalInv
  PROVE  LeaseInv' /\ TotalInv'
<1> USE DEF TypeInv, TypeOK
<1>1. /\ \A t \in Tasks : Polling(t)' = Polling(t)
      /\ task' = task /\ stored' = stored /\ lapses' = lapses
  BY DEF RequestStep, TrackNew, TrackCount, UntrackCount, RefreshRead, Track, Untrack,
         RefreshCount, RefreshWrite, Polling, bounds
<1>2. CASE parcel' = parcel
  BY <1>1, <1>2 DEF LeaseInv, TotalInv, Exists, Polling
<1>3. ASSUME NEW count \in Counts, NEW due \in BOOLEAN, Refresh(count, due)
      PROVE  LeaseInv' /\ TotalInv'
  <2>1. /\ parcel'.status = parcel.status /\ parcel'.owner = parcel.owner
        /\ parcel'.live = parcel.live /\ parcel'.total = parcel.total
    <3>1. parcel \in Parcel /\ parcel' = [parcel EXCEPT !.count = count, !.due = due]
      BY <1>3 DEF Refresh
    <3> HIDE DEF TypeInv, TypeOK
    <3> QED BY <3>1, RefreshTyped
  <2> QED BY <1>1, <2>1, LeaseKept DEF TotalInv, Polling
<1>4. ASSUME NEW u \in Users, TrackNew(r, u)
      PROVE  LeaseInv' /\ TotalInv'
  <2>1. \A t \in Tasks : ~ Polling(t)
    BY <1>4 DEF TrackNew, LeaseInv
  <2>2. parcel'.total = 0
    BY <1>4 DEF TrackNew, NewRow, NoRow
  <2>3. Cardinality(stored) \in Nat
    BY NewCounted, Bounds
  <2> QED BY <1>1, <2>1, <2>2, <2>3 DEF LeaseInv, TotalInv
<1>5. request[r] \in Asking /\ request[r].count \in Counts /\ request[r].due \in BOOLEAN
  BY DEF Asking, RequestState, Counts
<1>6. CASE Track(r)
  BY <1>3, <1>5, <1>6 DEF Track
<1>7. CASE Untrack(r)
  <2>1. Cardinality(watching \ {request[r].user}) \in Counts /\ 0 \in Counts
    BY WatchersCounted, UsersAreFinite DEF Counts
  <2>2. PICK due \in BOOLEAN : due = NextPoll(parcel.status, parcel.mode, request[r].count)
    BY NextPollBoolean
  <2>3. CASE request[r].count > 0
    BY <1>3, <1>7, <2>1, <2>2, <2>3 DEF Untrack
  <2>4. CASE ~ (request[r].count > 0)
    BY <1>3, <1>7, <2>1, <2>4 DEF Untrack
  <2> QED BY <2>3, <2>4
<1>8. CASE RefreshWrite(r)
  BY <1>3, <1>5, <1>8 DEF RefreshWrite
<1>9. CASE \/ \E u \in Users : TrackCount(r, u) \/ UntrackCount(r, u) \/ RefreshRead(r, u)
           \/ RefreshCount(r)
  BY <1>2, <1>9 DEF TrackCount, UntrackCount, RefreshRead, RefreshCount
<1> QED BY <1>4, <1>6, <1>7, <1>8, <1>9 DEF RequestStep

\* A task whose poll ends: the lease is dropped, and as long as none ran out
\* under a poll nobody else was polling.
LEMMA PollEnds ==
  ASSUME TypeInv, LeaseInv, NEW t \in Tasks, Polling(t),
         task' = [task EXCEPT ![t] = Resting], lapses' = lapses,
         Exists'
  PROVE  LeaseInv'
<1>1. \A w \in Tasks : Polling(w)' => w # t /\ Polling(w)
  BY DEF Polling, Resting, TypeInv, TypeOK
<1>2. ASSUME lapses = 0, NEW w \in Tasks, Polling(w)
      PROVE  w = t
  BY <1>2 DEF LeaseInv
<1> QED BY <1>1, <1>2 DEF LeaseInv

\* The steps of the dispatcher.
LEMMA DispatcherKeepsLeases ==
  ASSUME TypeInv, NEW t \in Tasks, TaskStep(t), LeaseInv, TotalInv
  PROVE  LeaseInv' /\ TotalInv'
<1> USE DEF TypeInv, TypeOK
<1>1. task[t] \in Task /\ parcel \in Parcel /\ Cardinality(stored) \in Nat
  BY NewCounted, Bounds
<1>2. ASSUME task' = [task EXCEPT ![t] = Resting]
      PROVE  \A w \in Tasks : Polling(w)' => w # t /\ Polling(w) /\ task'[w] = task[w]
  BY <1>2 DEF Polling, Resting
<1>3. CASE ClaimDueParcel(t)
  <2>1. /\ parcel'.owner = t /\ parcel'.live
        /\ parcel'.status = parcel.status /\ parcel'.total = parcel.total
    BY <1>3, LeaseTyped DEF ClaimDueParcel
  <2>2. /\ \A w \in Tasks : w # t => task'[w] = task[w]
        /\ task'[t].at = "claimed" /\ task'[t].row = AsPolled(parcel)
        /\ stored' = stored /\ lapses' = lapses
        /\ Exists /\ ~ parcel.live
    BY <1>1, <1>3 DEF ClaimDueParcel, Unleased, bounds, Task
  <2>3. lapses = 0 => \A w \in Tasks : ~ Polling(w)
    BY <2>2 DEF LeaseInv
  <2>4. \A w \in Tasks : w # t => (Polling(w)' = Polling(w))
    BY <2>2 DEF Polling
  <2>5. LeaseInv'
    BY <2>1, <2>2, <2>3, <2>4 DEF LeaseInv, Exists
  <2>6. task'[t].row.total <= Cardinality(stored)
    BY <1>1, <2>2, AsPolledTyped DEF TotalInv
  <2>7. TotalInv'
    BY <2>1, <2>2, <2>4, <2>6 DEF TotalInv
  <2> QED BY <2>5, <2>7
<1>4. CASE Fetch(t)
  <2>1. /\ \A w \in Tasks : w # t => task'[w] = task[w]
        /\ task'[t].row = task[t].row /\ task[t].at = "claimed"
        /\ parcel' = parcel /\ stored' = stored /\ lapses' = lapses
    BY <1>1, <1>4 DEF Fetch, Fault, bounds, Task
  <2>2. \A w \in Tasks : Polling(w)' => Polling(w)
    BY <2>1 DEF Polling
  <2>3. \A w \in Tasks : task'[w].row = task[w].row
    BY <2>1
  <2>4. TotalInv'
    BY <2>1, <2>2, <2>3 DEF TotalInv
  <2> QED BY <2>1, <2>2, <2>4, LeaseKept
<1>5. CASE RecordFailure(t)
  <2>1. PICK e \in BOOLEAN : e = (task[t].row.failures + 1 >= MaxFailures)
    <3>1. (task[t].row.failures + 1 >= MaxFailures) \in BOOLEAN
      BY <1>1, Bounds DEF Task, Parcel
    <3> QED BY <3>1
  <2>2. parcel' = Unlease([parcel EXCEPT !.failures = @ + 1, !.due = ~ e,
                                         !.mode = IF e THEN "manual" ELSE @])
    BY <1>5, <2>1 DEF RecordFailure
  <2>3. parcel'.status = parcel.status /\ parcel'.total = parcel.total
    <3> DEFINE q == [parcel EXCEPT !.failures = @ + 1, !.due = ~ e,
                                   !.mode = IF e THEN "manual" ELSE @]
    <3>1. q \in Parcel /\ q.status = parcel.status /\ q.total = parcel.total
      BY <1>1, FailureTyped
    <3> HIDE DEF q
    <3>2. parcel' = Unlease(q)
      BY <2>2 DEF q
    <3> QED BY <3>1, <3>2, UnleaseTyped
  <2>4. /\ Polling(t) /\ task' = [task EXCEPT ![t] = Resting]
        /\ stored' = stored /\ lapses' = lapses
    BY <1>5 DEF RecordFailure, Polling, bounds
  <2>5. Exists'
    BY <2>3, <2>4 DEF LeaseInv, Exists
  <2>6. LeaseInv'
    BY <2>4, <2>5, PollEnds
  <2>7. TotalInv'
    BY <1>2, <2>3, <2>4 DEF TotalInv
  <2> QED BY <2>6, <2>7
<1>6. CASE RecordNotFound(t)
  <2>1. /\ parcel'.total = parcel.total
        /\ parcel.status # "none" => parcel'.status # "none"
    BY <1>6, NotFoundWrites
  <2>2. /\ Polling(t) /\ task' = [task EXCEPT ![t] = Resting]
        /\ stored' = stored /\ lapses' = lapses
    BY <1>6 DEF RecordNotFound, Polling, bounds
  <2>3. Exists'
    BY <2>1, <2>2 DEF LeaseInv, Exists
  <2>4. LeaseInv'
    BY <2>2, <2>3, PollEnds
  <2>5. TotalInv'
    BY <1>2, <2>1, <2>2 DEF TotalInv
  <2> QED BY <2>4, <2>5
<1>7. CASE ApplySnapshot(t)
  <2>1. /\ parcel'.status # "none" /\ Cardinality(stored) <= Cardinality(stored')
        /\ Cardinality(stored') \in Nat
        /\ task[t].row.total <= Cardinality(stored)
             => parcel'.total <= Cardinality(stored')
    BY <1>7, SnapshotWrites
  <2>2. Polling(t) /\ task' = [task EXCEPT ![t] = Resting] /\ lapses' = lapses
    BY <1>7 DEF ApplySnapshot, Polling, bounds
  <2>3. Exists'
    BY <2>1 DEF Exists
  <2>4. LeaseInv'
    BY <2>2, <2>3, PollEnds
  <2>5. ASSUME NEW w \in Tasks, Polling(w)'
        PROVE  task'[w].row.total <= Cardinality(stored')
    <3>1. Polling(w) /\ task'[w] = task[w]
      BY <1>2, <2>2, <2>5
    <3>2. task[w].row.total \in Nat /\ task[w].row.total <= Cardinality(stored)
      BY <3>1 DEF TotalInv, Task, Parcel
    <3> QED BY <1>1, <2>1, <3>1, <3>2
  <2>6. parcel'.total <= Cardinality(stored')
    BY <2>1, <2>2 DEF TotalInv
  <2>7. TotalInv'
    BY <2>5, <2>6 DEF TotalInv
  <2> QED BY <2>4, <2>7
<1>8. CASE ReconcileFind(t) \/ ReconcileCount(t)
  <2>1. /\ parcel' = parcel /\ stored' = stored /\ lapses' = lapses
        /\ \A w \in Tasks : w # t => task'[w] = task[w]
        /\ task'[t].at \in {"recount", "counted"}
    BY <1>1, <1>8 DEF ReconcileFind, ReconcileCount, bounds, Task
  <2>2. \A w \in Tasks : Polling(w)' => Polling(w) /\ task'[w] = task[w]
    BY <2>1 DEF Polling
  <2>3. TotalInv'
    BY <2>1, <2>2 DEF TotalInv
  <2> QED BY <2>1, <2>2, <2>3, LeaseKept
<1>9. CASE ReconcileWrite(t)
  <2>1. task[t].count \in Counts
    BY <1>1 DEF Task, Counts
  <2>2. /\ parcel'.status = parcel.status /\ parcel'.owner = parcel.owner
        /\ parcel'.live = parcel.live /\ parcel'.total = parcel.total
    BY <1>1, <1>9, <2>1, RefreshTyped DEF ReconcileWrite, Refresh
  <2>3. /\ task' = [task EXCEPT ![t] = Resting]
        /\ stored' = stored /\ lapses' = lapses
    BY <1>9 DEF ReconcileWrite, bounds
  <2>4. TotalInv'
    BY <1>2, <2>2, <2>3 DEF TotalInv
  <2> QED BY <1>2, <2>2, <2>3, <2>4, LeaseKept
<1> QED BY <1>3, <1>4, <1>5, <1>6, <1>7, <1>8, <1>9 DEF TaskStep

\* Every step keeps both.
LEMMA NextKeepsLeases ==
  TypeInv /\ LeaseInv /\ TotalInv /\ [Next]_vars => LeaseInv' /\ TotalInv'
<1> SUFFICES ASSUME TypeInv, LeaseInv, TotalInv, [Next]_vars PROVE LeaseInv' /\ TotalInv'
  OBVIOUS
<1>1. parcel \in Parcel /\ task \in [Tasks -> Task] /\ Cardinality(stored) \in Nat
  BY NewCounted, Bounds DEF TypeInv, TypeOK
<1>2. CASE CarrierScans \/ UNCHANGED vars
  BY <1>2 DEF CarrierScans, vars, bounds, LeaseInv, TotalInv, Polling, Exists
<1>3. CASE LookupParcel
  <2>1. /\ parcel'.total = 0 /\ task' = task /\ stored' = stored /\ lapses' = lapses
        /\ \A t \in Tasks : ~ Polling(t)
    BY <1>3 DEF LookupParcel, NewRow, NoRow, bounds, LeaseInv
  <2> QED BY <1>1, <2>1 DEF LeaseInv, TotalInv, Polling
<1>4. CASE LeaseLapses
  <2>1. /\ parcel'.status = parcel.status /\ parcel'.total = parcel.total
        /\ task' = task /\ stored' = stored
    BY <1>1, <1>4, LapseTyped DEF LeaseLapses
  <2>2. TotalInv' /\ \A t \in Tasks : Polling(t)' => Exists'
    BY <2>1 DEF LeaseInv, TotalInv, Polling, Exists
  <2>3. CASE Polling(parcel.owner)
    <3>1. lapses' # 0
      BY <1>4, <2>3, Bounds DEF LeaseLapses, TypeInv, TypeOK
    <3> QED BY <2>2, <3>1 DEF LeaseInv
  <2>4. CASE ~ Polling(parcel.owner)
    <3>1. lapses' = lapses
      BY <1>4, <2>4 DEF LeaseLapses, bounds
    <3>2. lapses = 0 => \A t \in Tasks : ~ Polling(t)
      BY <2>4 DEF LeaseInv
    <3> QED BY <2>1, <2>2, <3>1, <3>2 DEF LeaseInv, Polling
  <2> QED BY <2>3, <2>4
<1>5. CASE Die
  <2>1. PICK t \in Tasks : task' = [task EXCEPT ![t] = Resting]
    BY <1>5 DEF Die
  <2>2. \A w \in Tasks : Polling(w)' => Polling(w) /\ task'[w] = task[w]
    BY <1>1, <2>1 DEF Polling, Resting
  <2>3. parcel' = parcel /\ stored' = stored /\ lapses' = lapses
    BY <1>5 DEF Die, Fault
  <2>4. TotalInv'
    BY <2>2, <2>3 DEF TotalInv
  <2> QED BY <2>2, <2>3, <2>4, LeaseKept
<1>6. ASSUME NEW r \in Requests, RequestStep(r)
      PROVE  LeaseInv' /\ TotalInv'
  BY <1>6, PeopleKeepLeases
<1>7. ASSUME NEW p \in Pushes, Push(p)
      PROVE  LeaseInv' /\ TotalInv'
  <2>1. /\ parcel'.status = parcel.status /\ parcel'.owner = parcel.owner
        /\ parcel'.live = parcel.live /\ parcel'.total = parcel.total
    BY <1>1, <1>7, PushTyped DEF Push
  <2>2. task' = task /\ stored' = stored /\ lapses' = lapses
    BY <1>7 DEF Push, bounds
  <2> QED BY <2>1, <2>2, LeaseKept DEF TotalInv, Polling
<1>8. ASSUME NEW t \in Tasks, TaskStep(t)
      PROVE  LeaseInv' /\ TotalInv'
  BY <1>8, DispatcherKeepsLeases
<1> QED BY <1>2, <1>3, <1>4, <1>5, <1>6, <1>7, <1>8 DEF Next

LEMMA LeasesHold == Spec => [](TypeInv /\ LeaseInv /\ TotalInv)
  BY InitTyped, NextTyped, InitLeased, NextKeepsLeases, PTL DEF Spec

\* Unless a lease ran out under a task that was still polling, one task at a
\* time polls the parcel, for any number of tasks, failures and deaths:
\* claimDueParcel and every release of the lease.
THEOREM OnePoller == Spec => []OnePollAtATime
<1>1. LeaseInv => OnePollAtATime
  BY DEF LeaseInv, OnePollAtATime
<1> QED BY <1>1, LeasesHold, PTL

\* checkpoint_count never exceeds the checkpoints that are stored, whichever
\* answers are written over each other: ingestCheckpoints and applySnapshot.
THEOREM CountedOnce == Spec => []NoCheckpointIsCountedTwice
<1>1. TotalInv => NoCheckpointIsCountedTwice
  BY DEF TotalInv, NoCheckpointIsCountedTwice
<1> QED BY <1>1, LeasesHold, PTL
=============================================================================
