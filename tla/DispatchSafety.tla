--------------------------- MODULE DispatchSafety ---------------------------
(***************************************************************************)
(* The safety properties of Dispatch and its refinement of JobLifecycle,   *)
(* proved with TLAPS on top of the typing of DispatchProofs.               *)
(***************************************************************************)
EXTENDS DispatchProofs, SequenceTheorems

-----------------------------------------------------------------------------
(* What a step can do to a job: most statements touch no job's status, and   *)
(* the ones that do book it, assign it, or move it along.                    *)

JobsUntouched == UNCHANGED <<status, courier, clear, trail>>

Booked(j) ==
  /\ status[j] = "unbooked"
  /\ status' = [status EXCEPT ![j] = "requested"]
  /\ trail'  = [trail EXCEPT ![j] = <<[status |-> "requested", by |-> Sender]>>]
  /\ \E paid \in BOOLEAN : clear' = [clear EXCEPT ![j] = paid]
  /\ UNCHANGED courier

Taken(t, j, c) ==
  /\ At(t, "acceptCas") /\ task[t].job = j /\ task[t].courier = c
  /\ Transition(j, "offered", "accepted", c)
  /\ courier' = [courier EXCEPT ![j] = c]
  /\ UNCHANGED clear

Driven == {"picked_up", "in_transit", "delivered"}

Moved(j, from, to, by) ==
  /\ Transition(j, from, to, by)
  /\ to # "accepted"
  /\ to \in Driven => by = courier[j] /\ by # None
  /\ by = None => \E t \in Tasks : /\ task[t].at \in {"dispatchMove", "sweepCancel"}
                                   /\ task[t].job = j
  /\ to = "offered" => by = None
  /\ UNCHANGED <<courier, clear>>

JobStep ==
  \/ JobsUntouched
  \/ \E j \in Jobs : Booked(j)
  \/ \E t \in Tasks, j \in Jobs, c \in Couriers : Taken(t, j, c)
  \/ \E j \in Jobs, from \in JobStatus, to \in JobStatus,
        by \in Couriers \cup {Sender, None} : Moved(j, from, to, by)

LEMMA JobSteps ==
  ASSUME TypeInv, [Next]_vars
  PROVE  JobStep
<1>a. task \in [Tasks -> Remembering]
  BY DEF TypeInv
<1>1. ASSUME NEW t \in Tasks, DispatchStep(t)
      PROVE  JobStep
  <2>1. CASE DispatchMove(t)
    <3>1. CASE UNCHANGED <<status, trail>>
      BY <2>1, <3>1 DEF DispatchMove, JobStep, JobsUntouched
    <3>2. CASE Transition(task[t].job, "requested", "offered", None)
      <4>1. task[t].job \in Jobs /\ At(t, "dispatchMove")
        BY <2>1, <1>a DEF DispatchMove, At, Remembering
      <4>2. Moved(task[t].job, "requested", "offered", None)
        BY <2>1, <3>2, <4>1 DEF DispatchMove, Moved, Driven, At
      <4> QED BY <4>1, <4>2 DEF JobStep, JobStatus
    <3> QED BY <2>1, <3>1, <3>2 DEF DispatchMove
  <2>2. CASE ~DispatchMove(t)
    BY <1>1, <2>2 DEF DispatchStep, DispatchRead, DispatchExclude, DispatchSelect,
       DispatchRecord, DispatchInsert, JobStep, JobsUntouched, jobVars
  <2> QED BY <2>1, <2>2
<1>2. ASSUME NEW t \in Tasks, AcceptStep(t)
      PROVE  JobStep
  <2>1. CASE AcceptWin(t)
    <3>1. task[t].job \in Jobs /\ task[t].courier \in Couriers
      BY <2>1, <1>a DEF AcceptWin, At, Remembering, HoldsAnOffer
    <3>2. Taken(t, task[t].job, task[t].courier)
      BY <2>1 DEF AcceptWin, Taken
    <3> QED BY <3>1, <3>2 DEF JobStep
  <2>2. CASE ~AcceptWin(t)
    BY <1>2, <2>2 DEF AcceptStep, AcceptLose, AcceptLost, AcceptMark,
       AcceptSupersede, AcceptBusy, AcceptCount, AcceptRate, JobStep,
       JobsUntouched, jobVars
  <2> QED BY <2>1, <2>2
<1>3. ASSUME NEW t \in Tasks, SweepStep(t)
      PROVE  JobStep
  <2>1. CASE SweepCancel(t)
    <3>1. CASE UNCHANGED <<status, trail>>
      BY <2>1, <3>1 DEF SweepCancel, JobStep, JobsUntouched
    <3>2. CASE Transition(task[t].job, task[t].seen, "cancelled", None)
      <4>1. task[t].job \in Jobs /\ At(t, "sweepCancel")
        BY <2>1, <1>a DEF SweepCancel, At, Remembering
      <4>2. task[t].seen \in JobStatus
        BY <3>2, <4>1, TransitionTyped DEF TypeInv
      <4>3. Moved(task[t].job, task[t].seen, "cancelled", None)
        BY <2>1, <3>2, <4>1 DEF SweepCancel, Moved, Driven, At
      <4> QED BY <4>1, <4>2, <4>3 DEF JobStep, JobStatus
    <3> QED BY <2>1, <3>1, <3>2 DEF SweepCancel
  <2>2. CASE ~SweepCancel(t)
    BY <1>3, <2>2 DEF SweepStep, SweepList, SweepNext, SweepAccepted, SweepReread,
       SweepSupersede, JobStep, JobsUntouched, jobVars
  <2> QED BY <2>1, <2>2
<1>4. ASSUME NEW t \in Tasks, CancelSupersede(t) \/ Mirror(t) \/ SweepExpire(t)
      PROVE  JobStep
  BY <1>4 DEF CancelSupersede, Mirror, SweepExpire, JobStep, JobsUntouched, jobVars
<1>5. ASSUME NEW t \in Handlers, Request(t)
      PROVE  JobStep
  <2>1. ASSUME NEW j \in Jobs, Book(t, j)
        PROVE  JobStep
    BY <2>1 DEF Book, Booked, JobStep
  <2>2. ASSUME NEW o \in Offers, AcceptFind(t, o)
        PROVE  JobStep
    BY <2>2 DEF AcceptFind, JobStep, JobsUntouched, jobVars
  <2>3. ASSUME NEW j \in Jobs, NEW leg \in CourierLegs, Advance(t, j, leg)
        PROVE  JobStep
    <3>1. courier[j] \in Couriers /\ courier[j] # None
      BY <2>3 DEF Advance, TypeInv, TypeOK
    <3>2. leg[1] \in JobStatus /\ leg[2] \in JobStatus
      BY DEF CourierLegs, JobStatus
    <3>3. leg[2] # "accepted" /\ leg[2] # "offered"
      BY DEF CourierLegs
    <3>4. Moved(j, leg[1], leg[2], courier[j])
      BY <2>3, <3>1, <3>3 DEF Advance, Moved
    <3> QED BY <3>1, <3>2, <3>4 DEF JobStep
  <2>4. ASSUME NEW j \in Jobs, NEW party \in Couriers \cup {Sender},
               Cancel(t, j, party)
        PROVE  JobStep
    <3>1. status[j] \in JobStatus
      BY <2>4, TransitionTyped DEF Cancel, TypeInv
    <3>2. Moved(j, status[j], "cancelled", party)
      BY <2>4 DEF Cancel, Moved, Driven
    <3> QED BY <3>1, <3>2 DEF JobStep, JobStatus
  <2> QED BY <1>5, <2>1, <2>2, <2>3, <2>4 DEF Request
<1>6. ASSUME NEW c \in Couriers, CourierStep(c)
      PROVE  JobStep
  BY <1>6 DEF CourierStep, GoOnline, GoOffline, SuspendCourier, ReinstateCourier,
              Shift, JobStep, JobsUntouched, jobVars
<1>7. ASSUME NEW o \in Offers, OfferLapses(o) \/ PurgeOffer(o)
      PROVE  JobStep
  BY <1>7 DEF OfferLapses, PurgeOffer, JobStep, JobsUntouched, jobVars
<1>8. ASSUME NEW t \in Tasks, Crash(t)
      PROVE  JobStep
  BY <1>8 DEF Crash, JobStep, JobsUntouched, jobVars
<1>9. CASE UNCHANGED vars
  BY <1>9 DEF vars, jobVars, JobStep, JobsUntouched
<1> QED
  BY <1>1, <1>2, <1>3, <1>4, <1>5, <1>6, <1>7, <1>8, <1>9
  DEF Next, TaskStep, Tasks

-----------------------------------------------------------------------------
(* The audit trail *)

LEMMA TrailAppend ==
  ASSUME NEW s \in Seq(Event), NEW e \in Event
  PROVE  /\ Len(Append(s, e)) = Len(s) + 1
         /\ \A i \in 1..Len(s) : Append(s, e)[i] = s[i]
         /\ Append(s, e)[Len(s) + 1] = e
  OBVIOUS

\* What one CAS does to the trail of its job.
LEMMA TrailTransition ==
  ASSUME TypeInv, NEW j \in Jobs, NEW from, NEW to,
         NEW by \in Couriers \cup {Sender, None}, Transition(j, from, to, by)
  PROVE  /\ Len(trail'[j]) = Len(trail[j]) + 1
         /\ \A i \in 1..Len(trail[j]) : trail'[j][i] = trail[j][i]
         /\ trail'[j][Len(trail[j]) + 1] = [status |-> to, by |-> by]
         /\ \A k \in Jobs \ {j} : trail'[k] = trail[k] /\ status'[k] = status[k]
         /\ status'[j] = to
         /\ to \in JobStatus
<1>1. trail[j] \in Seq(Event) /\ trail \in [Jobs -> Seq(Event)]
  BY DEF TypeInv, TypeOK
<1>2. [status |-> to, by |-> by] \in Event /\ to \in JobStatus
  BY TransitionTyped DEF TypeInv, Event
<1>3. trail'[j] = Append(trail[j], [status |-> to, by |-> by])
  BY <1>1 DEF Transition
<1>4. \A k \in Jobs \ {j} : trail'[k] = trail[k] /\ status'[k] = status[k]
  BY DEF Transition, TypeInv, TypeOK
<1>5. status'[j] = to
  BY DEF Transition, TypeInv, TypeOK
<1> HIDE DEF Transition
<1> QED BY <1>1, <1>2, <1>3, <1>4, <1>5, TrailAppend

\* ... and to the rows of every other job.
LEMMA TransitionElsewhere ==
  ASSUME TypeInv, NEW j \in Jobs, NEW from, NEW to, NEW by,
         Transition(j, from, to, by), NEW k \in Jobs, k # j
  PROVE  trail'[k] = trail[k] /\ status'[k] = status[k]
  BY DEF Transition, TypeInv, TypeOK

\* The trail of one job, as TrailTellsTheStory has it.
Story(j) ==
  LET n == Len(trail[j]) IN
  IF status[j] = "unbooked"
  THEN n = 0
  ELSE /\ n > 0
       /\ trail[j][1].status = "requested"
       /\ trail[j][n].status = status[j]
       /\ \A i \in 1..(n - 1) :
            <<trail[j][i].status, trail[j][i + 1].status>> \in JOB_TRANSITIONS

LEMMA StoryTransition ==
  ASSUME TypeInv, NEW j \in Jobs, NEW from, NEW to,
         NEW by \in Couriers \cup {Sender, None}, Transition(j, from, to, by),
         Story(j)
  PROVE  Story(j)'
<1> DEFINE n == Len(trail[j])
<1>1. /\ from = status[j] /\ <<from, to>> \in JOB_TRANSITIONS
      /\ status[j] # "unbooked"
  BY DEF Transition, JOB_TRANSITIONS
<1>2. n \in Nat /\ n > 0 /\ trail[j][1].status = "requested"
      /\ trail[j][n].status = from
      /\ \A i \in 1..(n - 1) :
           <<trail[j][i].status, trail[j][i + 1].status>> \in JOB_TRANSITIONS
  <2>1. trail[j] \in Seq(Event)
    BY DEF TypeInv, TypeOK
  <2> QED BY <1>1, <2>1 DEF Story
<1>3. /\ Len(trail'[j]) = n + 1
      /\ \A i \in 1..n : trail'[j][i] = trail[j][i]
      /\ trail'[j][n + 1].status = to
      /\ status'[j] = to /\ to # "unbooked"
  <2>1. /\ Len(trail'[j]) = n + 1
        /\ \A i \in 1..n : trail'[j][i] = trail[j][i]
        /\ trail'[j][n + 1] = [status |-> to, by |-> by]
        /\ status'[j] = to /\ to \in JobStatus
    BY TrailTransition
  <2> QED BY <2>1 DEF JobStatus
<1>4. ASSUME NEW i \in 1..n
      PROVE  <<trail'[j][i].status, trail'[j][i + 1].status>> \in JOB_TRANSITIONS
  <2>1. CASE i = n
    <3>1. trail'[j][i].status = from
      BY <1>2, <1>3, <2>1
    <3>2. trail'[j][i + 1].status = to
      BY <1>3, <2>1
    <3> QED BY <1>1, <3>1, <3>2
  <2>2. CASE i # n
    <3>1. i \in 1..(n - 1) /\ i + 1 \in 1..n
      BY <1>2, <2>2
    <3>2. trail'[j][i] = trail[j][i] /\ trail'[j][i + 1] = trail[j][i + 1]
      BY <1>3, <3>1
    <3> QED BY <1>2, <3>1, <3>2
  <2> QED BY <2>1, <2>2
<1> HIDE DEF n
<1> QED BY <1>2, <1>3, <1>4 DEF Story

\* No transition without its audit entry and no entry without its transition,
\* for any number of racing and dying handlers: the trail of a booked job walks
\* the allowed transitions from its booking to the status it has.
THEOREM TrailIsFaithful == Spec => []TrailTellsTheStory
<1>1. TrailTellsTheStory <=> \A j \in Jobs : Story(j)
  BY DEF TrailTellsTheStory, Story
<1>2. Init => TrailTellsTheStory
  BY DEF Init, TrailTellsTheStory
<1>3. TypeInv /\ TrailTellsTheStory /\ [Next]_vars => TrailTellsTheStory'
  <2> SUFFICES ASSUME TypeInv, \A j \in Jobs : Story(j), [Next]_vars,
                      NEW k \in Jobs
               PROVE  Story(k)'
    BY <1>1 DEF TrailTellsTheStory, Story
  <2>1. CASE JobsUntouched
    BY <2>1 DEF JobsUntouched, Story
  <2>2. ASSUME NEW j \in Jobs, Booked(j)
        PROVE  Story(k)'
    <3>1. CASE k = j
      <4>1. /\ trail'[j] = <<[status |-> "requested", by |-> Sender]>>
            /\ status'[j] = "requested"
        BY <2>2 DEF Booked, TypeInv, TypeOK
      <4> QED BY <3>1, <4>1 DEF Story
    <3>2. CASE k # j
      <4>1. trail'[k] = trail[k] /\ status'[k] = status[k]
        BY <2>2, <3>2 DEF Booked, TypeInv, TypeOK
      <4> QED BY <4>1 DEF Story
    <3> QED BY <3>1, <3>2
  <2>3. ASSUME NEW j \in Jobs, NEW from, NEW to,
               NEW by \in Couriers \cup {Sender, None}, Transition(j, from, to, by)
        PROVE  Story(k)'
    <3>1. CASE k = j
      BY <2>3, <3>1, StoryTransition
    <3>2. CASE k # j
      <4>1. trail'[k] = trail[k] /\ status'[k] = status[k]
        BY <2>3, <3>2, TransitionElsewhere
      <4> QED BY <4>1 DEF Story
    <3> QED BY <3>1, <3>2
  <2> QED
    BY <2>1, <2>2, <2>3, JobSteps DEF JobStep, Taken, Moved
<1> QED
  BY <1>2, <1>3, InitTyped, StepTyped, PTL DEF Spec

-----------------------------------------------------------------------------
(* The courier of a job *)

Held == {"accepted", "picked_up", "in_transit", "delivered"}

\* CourierIsTheOneWhoAccepted, of one job.
Accountable(j) ==
  /\ courier[j] # None =>
       \E i \in 1..Len(trail[j]) : trail[j][i].status = "accepted"
  /\ \A i \in 1..Len(trail[j]) :
       trail[j][i].status \in Held => trail[j][i].by = courier[j] /\ courier[j] # None

\* A job that is still looking for a courier has none: an accept that wins is
\* the first one on the trail.
Unassigned(j) ==
  status[j] \in AwaitingCourier \cup {"unbooked"} => courier[j] = None

CourierInv == \A j \in Jobs : Accountable(j) /\ Unassigned(j)

LEMMA CourierStep_Taken ==
  ASSUME TypeInv, NEW j \in Jobs, NEW c \in Couriers, NEW t \in Tasks,
         Taken(t, j, c), Accountable(j), Unassigned(j)
  PROVE  Accountable(j)' /\ Unassigned(j)'
<1> DEFINE n == Len(trail[j])
<1>1. Transition(j, "offered", "accepted", c)
  BY DEF Taken
<1>2. /\ Len(trail'[j]) = n + 1
      /\ \A i \in 1..n : trail'[j][i] = trail[j][i]
      /\ trail'[j][n + 1] = [status |-> "accepted", by |-> c]
      /\ status'[j] = "accepted"
  BY <1>1, TrailTransition
<1>3. courier[j] = None
  BY <1>1 DEF Unassigned, Transition, AwaitingCourier
<1>4. courier'[j] = c /\ c # None
  BY ActorsDiffer DEF Taken, TypeInv, TypeOK
<1>5. \A i \in 1..n : trail[j][i].status \notin Held
  BY <1>3 DEF Accountable
<1>6. n \in Nat
  BY DEF TypeInv, TypeOK
<1>7. Accountable(j)'
  <2>1. trail'[j][n + 1].status = "accepted" /\ trail'[j][n + 1].by = c
    BY <1>2
  <2>2. \A i \in 1..Len(trail'[j]) :
          trail'[j][i].status \in Held => trail'[j][i].by = c
    <3> SUFFICES ASSUME NEW i \in 1..(n + 1), trail'[j][i].status \in Held
                 PROVE  trail'[j][i].by = c
      BY <1>2
    <3>1. i = n + 1
      BY <1>2, <1>5, <1>6
    <3> QED BY <3>1, <2>1
  <2>3. n + 1 \in 1..Len(trail'[j])
    BY <1>2, <1>6
  <2> QED BY <2>1, <2>2, <2>3, <1>4 DEF Accountable
<1>8. Unassigned(j)'
  BY <1>2 DEF Unassigned, AwaitingCourier
<1> QED BY <1>7, <1>8

LEMMA CourierStep_Moved ==
  ASSUME TypeInv, NEW j \in Jobs, NEW from, NEW to,
         NEW by \in Couriers \cup {Sender, None}, Moved(j, from, to, by),
         Accountable(j), Unassigned(j)
  PROVE  Accountable(j)' /\ Unassigned(j)'
<1> DEFINE n == Len(trail[j])
<1>1. Transition(j, from, to, by)
  BY DEF Moved
<1>2. /\ Len(trail'[j]) = n + 1
      /\ \A i \in 1..n : trail'[j][i] = trail[j][i]
      /\ trail'[j][n + 1] = [status |-> to, by |-> by]
      /\ status'[j] = to
  BY <1>1, TrailTransition
<1>3. courier' = courier
  BY DEF Moved
<1>4. to \in Held => by = courier[j] /\ courier[j] # None
  BY DEF Moved, Held, Driven
<1>5. n \in Nat
  BY DEF TypeInv, TypeOK
<1>6. Accountable(j)'
  <2>1. trail'[j][n + 1].status = to /\ trail'[j][n + 1].by = by
    BY <1>2
  <2>2. ASSUME NEW i \in 1..(n + 1), trail'[j][i].status \in Held
        PROVE  trail'[j][i].by = courier[j] /\ courier[j] # None
    <3>1. CASE i = n + 1
      BY <3>1, <2>1, <2>2, <1>4
    <3>2. CASE i # n + 1
      BY <3>2, <2>2, <1>2, <1>5 DEF Accountable
    <3> QED BY <3>1, <3>2
  <2>3. ASSUME courier[j] # None
        PROVE  \E i \in 1..(n + 1) : trail'[j][i].status = "accepted"
    BY <2>3, <1>2, <1>5 DEF Accountable
  <2> QED BY <2>2, <2>3, <1>2, <1>3 DEF Accountable
<1>7. Unassigned(j)'
  BY <1>1, <1>2, <1>3 DEF Unassigned, Transition, JOB_TRANSITIONS, AwaitingCourier
<1> QED BY <1>6, <1>7

LEMMA CourierInvariant == Spec => []CourierInv
<1>1. Init => CourierInv
  BY DEF Init, CourierInv, Accountable, Unassigned
<1>2. TypeInv /\ CourierInv /\ [Next]_vars => CourierInv'
  <2> SUFFICES ASSUME TypeInv, CourierInv, [Next]_vars, NEW k \in Jobs
               PROVE  Accountable(k)' /\ Unassigned(k)'
    BY DEF CourierInv
  <2>a. Accountable(k) /\ Unassigned(k)
    BY DEF CourierInv
  <2>b. ASSUME trail'[k] = trail[k], status'[k] = status[k], courier'[k] = courier[k]
        PROVE  Accountable(k)' /\ Unassigned(k)'
    BY <2>a, <2>b DEF Accountable, Unassigned
  <2>1. CASE JobsUntouched
    BY <2>1, <2>b DEF JobsUntouched
  <2>2. ASSUME NEW j \in Jobs, Booked(j)
        PROVE  Accountable(k)' /\ Unassigned(k)'
    <3>1. CASE k = j
      <4>1. /\ trail'[k] = <<[status |-> "requested", by |-> Sender]>>
            /\ courier'[k] = courier[k] /\ status[k] = "unbooked"
        BY <2>2, <3>1 DEF Booked, TypeInv, TypeOK
      <4>2. courier[k] = None
        BY <4>1, <2>a DEF Unassigned
      <4>3. Len(trail'[k]) = 1 /\ trail'[k][1].status = "requested"
        BY <4>1
      <4> QED BY <4>1, <4>2, <4>3 DEF Accountable, Unassigned, Held
    <3>2. CASE k # j
      <4>1. trail'[k] = trail[k] /\ status'[k] = status[k] /\ courier'[k] = courier[k]
        BY <2>2, <3>2 DEF Booked, TypeInv, TypeOK
      <4> QED BY <4>1, <2>b
    <3> QED BY <3>1, <3>2
  <2>3. ASSUME NEW t \in Tasks, NEW j \in Jobs, NEW c \in Couriers, Taken(t, j, c)
        PROVE  Accountable(k)' /\ Unassigned(k)'
    <3>1. CASE k = j
      BY <2>3, <3>1, <2>a, CourierStep_Taken
    <3>2. CASE k # j
      <4>1. Transition(j, "offered", "accepted", c) /\ courier'[k] = courier[k]
        BY <2>3, <3>2 DEF Taken, TypeInv, TypeOK
      <4>2. trail'[k] = trail[k] /\ status'[k] = status[k]
        BY <4>1, <3>2, TransitionElsewhere
      <4> QED BY <4>1, <4>2, <2>b
    <3> QED BY <3>1, <3>2
  <2>4. ASSUME NEW j \in Jobs, NEW from \in JobStatus, NEW to \in JobStatus,
               NEW by \in Couriers \cup {Sender, None}, Moved(j, from, to, by)
        PROVE  Accountable(k)' /\ Unassigned(k)'
    <3>1. CASE k = j
      BY <2>4, <3>1, <2>a, CourierStep_Moved
    <3>2. CASE k # j
      <4>1. trail'[k] = trail[k] /\ status'[k] = status[k]
        BY <2>4, <3>2, TransitionElsewhere DEF Moved
      <4>2. courier'[k] = courier[k]
        BY <2>4 DEF Moved
      <4> QED BY <4>1, <4>2, <2>b
    <3> QED BY <3>1, <3>2
  <2> QED BY <2>1, <2>2, <2>3, <2>4, JobSteps DEF JobStep
<1> QED BY <1>1, <1>2, InitTyped, StepTyped, PTL DEF Spec

\* Whoever accepted a job is its courier, and the only one who ever drove a leg
\* of it: the CAS of casJobAccepted assigns in the statement that wins.
THEOREM OneCourierPerJob == Spec => []CourierIsTheOneWhoAccepted
<1>1. CourierInv => CourierIsTheOneWhoAccepted
  BY DEF CourierInv, Accountable, CourierIsTheOneWhoAccepted, Held
<1> QED BY <1>1, CourierInvariant, PTL

-----------------------------------------------------------------------------
(* What a step can do to an offer *)

Marking(t, p) == At(t, "acceptMark") /\ task[t].offer = p

Ended(p) ==
  /\ offer[p].status # "none"
  /\ offer'[p].status \in {"superseded", "expired"}

Kept(p) ==
  /\ offer'[p].job = offer[p].job
  /\ offer'[p].courier = offer[p].courier
  /\ \/ offer'[p].status = offer[p].status
     \/ Ended(p)
     \/ /\ offer[p].status # "none" /\ offer'[p].status = "accepted"
        /\ \E t \in Tasks : Marking(t, p)

Made(p) ==
  /\ offer[p].status = "none" /\ offer'[p].status = "offered"
  /\ \E t \in Tasks : At(t, "dispatchInsert") /\ offer'[p].job = task[t].job

LEMMA RowUpdate ==
  ASSUME NEW row \in OfferRow, NEW s
  PROVE  /\ [row EXCEPT !.status = s].status = s
         /\ [row EXCEPT !.status = s].job = row.job
         /\ [row EXCEPT !.status = s].courier = row.courier
         /\ [row EXCEPT !.age = s].status = row.status
         /\ [row EXCEPT !.age = s].job = row.job
         /\ [row EXCEPT !.age = s].courier = row.courier
  BY DEF OfferRow

LEMMA SupersedeKeeps ==
  ASSUME TypeInv, NEW j, NEW except, SupersedeLiveOffers(j, except),
         NEW p \in Offers
  PROVE  Kept(p)
<1>1. offer[p] \in OfferRow
  BY DEF TypeInv, TypeOK
<1>2. CASE p \in OffersInStatus(j, "offered") \ {except}
  <2>1. offer'[p] = [offer[p] EXCEPT !.status = "superseded"]
    BY <1>2 DEF SupersedeLiveOffers
  <2>2. offer[p].status = "offered"
    BY <1>2 DEF OffersInStatus
  <2> QED BY <1>1, <2>1, <2>2, RowUpdate DEF Kept, Ended
<1>3. CASE p \notin OffersInStatus(j, "offered") \ {except}
  BY <1>3 DEF SupersedeLiveOffers, Kept
<1> QED BY <1>2, <1>3

LEMMA SetStatusKeeps ==
  ASSUME TypeInv, NEW o \in Offers, NEW s, SetOfferStatus(o, s), NEW p \in Offers
  PROVE  /\ offer'[p].job = offer[p].job
         /\ offer'[p].courier = offer[p].courier
         /\ \/ offer'[p].status = offer[p].status
            \/ p = o /\ offer[p].status # "none" /\ offer'[p].status = s
<1>1. offer[p] \in OfferRow /\ offer \in [Offers -> OfferRow]
  BY DEF TypeInv, TypeOK
<1>2. CASE p # o
  BY <1>1, <1>2 DEF SetOfferStatus
<1>3. CASE p = o /\ Visible(o)
  <2>1. offer'[p] = [offer[p] EXCEPT !.status = s]
    BY <1>1, <1>3 DEF SetOfferStatus
  <2> QED BY <1>1, <1>3, <2>1, RowUpdate DEF Visible
<1>4. CASE p = o /\ ~Visible(o)
  <2>1. offer'[p] = [offer[p] EXCEPT !.status = offer[p].status]
    BY <1>1, <1>4 DEF SetOfferStatus
  <2> QED BY <1>1, <2>1, RowUpdate
<1> QED BY <1>2, <1>3, <1>4

LEMMA OfferSteps ==
  ASSUME TypeInv, [Next]_vars, NEW p \in Offers
  PROVE  Kept(p) \/ Made(p)
<1>a. task \in [Tasks -> Remembering] /\ offer \in [Offers -> OfferRow]
  BY DEF TypeInv, TypeOK
<1>b. ASSUME UNCHANGED offer PROVE Kept(p)
  BY <1>b DEF Kept
<1>1. ASSUME NEW t \in Tasks, DispatchStep(t)
      PROVE  Kept(p) \/ Made(p)
  <2>1. CASE DispatchInsert(t)
    <3>1. PICK c \in task[t].candidates :
            \/ \E o \in Offers :
                 /\ offer[o].status = "none"
                 /\ offer' = [offer EXCEPT
                                ![o] = [status |-> "offered", age |-> "fresh",
                                        job |-> task[t].job, courier |-> c]]
            \/ UNCHANGED offer
      BY <2>1 DEF DispatchInsert
    <3> DEFINE row == [status |-> "offered", age |-> "fresh",
                       job |-> task[t].job, courier |-> c]
    <3>2. /\ row.status = "offered" /\ row.job = task[t].job
          /\ At(t, "dispatchInsert")
      BY <2>1 DEF DispatchInsert
    <3>3. ASSUME NEW o \in Offers, offer[o].status = "none",
                 offer' = [offer EXCEPT ![o] = row]
          PROVE  Kept(p) \/ Made(p)
      <4>1. offer'[p] = IF p = o THEN row ELSE offer[p]
        BY <1>a, <3>3
      <4> HIDE DEF row
      <4> QED BY <3>2, <3>3, <4>1 DEF Kept, Made
    <3> QED BY <1>b, <3>1, <3>3
  <2>2. CASE ~DispatchInsert(t)
    BY <1>1, <1>b, <2>2 DEF DispatchStep, DispatchRead, DispatchExclude,
       DispatchSelect, DispatchRecord, DispatchMove
  <2> QED BY <2>1, <2>2
<1>2. ASSUME NEW t \in Tasks, AcceptStep(t)
      PROVE  Kept(p)
  <2>1. CASE AcceptLost(t) \/ AcceptMark(t)
    <3>1. task[t].offer \in Offers
      BY <1>a, <2>1 DEF AcceptLost, AcceptMark, At, Remembering, HoldsAnOffer
    <3>2. CASE AcceptLost(t)
      BY <3>1, <3>2, SetStatusKeeps DEF AcceptLost, Kept, Ended
    <3>3. CASE AcceptMark(t)
      BY <3>1, <3>3, SetStatusKeeps DEF AcceptMark, Kept, Marking
    <3> QED BY <2>1, <3>2, <3>3
  <2>2. CASE AcceptSupersede(t)
    BY <2>2, SupersedeKeeps DEF AcceptSupersede
  <2>3. CASE ~(AcceptLost(t) \/ AcceptMark(t) \/ AcceptSupersede(t))
    BY <1>2, <1>b, <2>3 DEF AcceptStep, AcceptWin, AcceptLose, AcceptBusy, AcceptCount,
                                 AcceptRate
  <2> QED BY <2>1, <2>2, <2>3
<1>3. ASSUME NEW t \in Tasks, SweepStep(t)
      PROVE  Kept(p)
  <2>1. CASE SweepSupersede(t)
    BY <2>1, SupersedeKeeps DEF SweepSupersede
  <2>2. CASE ~SweepSupersede(t)
    BY <1>3, <1>b, <2>2 DEF SweepStep, SweepList, SweepNext, SweepAccepted,
       SweepReread, SweepCancel
  <2> QED BY <2>1, <2>2
<1>4. ASSUME NEW t \in Tasks, CancelSupersede(t) \/ Mirror(t)
      PROVE  Kept(p)
  BY <1>4, <1>b, SupersedeKeeps DEF CancelSupersede, Mirror
<1>5. ASSUME NEW t \in Tasks, SweepExpire(t)
      PROVE  Kept(p)
  <2>1. \/ offer'[p] = offer[p]
        \/ /\ offer[p].status = "offered"
           /\ offer'[p] = [offer[p] EXCEPT !.status = "expired"]
    BY <1>5 DEF SweepExpire
  <2>2. CASE offer'[p] = offer[p]
    BY <2>2 DEF Kept
  <2>3. CASE /\ offer[p].status = "offered"
             /\ offer'[p] = [offer[p] EXCEPT !.status = "expired"]
    <3>1. /\ offer'[p].status = "expired" /\ offer'[p].job = offer[p].job
          /\ offer'[p].courier = offer[p].courier
      BY <2>3, <1>a, RowUpdate
    <3> QED BY <2>3, <3>1 DEF Kept, Ended
  <2> QED BY <2>1, <2>2, <2>3
<1>6. ASSUME NEW t \in Handlers, Request(t)
      PROVE  Kept(p)
  BY <1>6, <1>b DEF Request, Book, AcceptFind, Advance, Cancel
<1>7. ASSUME NEW c \in Couriers, CourierStep(c)
      PROVE  Kept(p)
  BY <1>7, <1>b DEF CourierStep, GoOnline, GoOffline, SuspendCourier,
                    ReinstateCourier, Shift
<1>8. ASSUME NEW o \in Offers, OfferLapses(o) \/ PurgeOffer(o)
      PROVE  Kept(p)
  <2>1. \E age : offer' = [offer EXCEPT ![o] = [offer[o] EXCEPT !.age = age]]
    BY <1>8, <1>a DEF OfferLapses, PurgeOffer
  <2>2. \/ offer'[p] = offer[p]
        \/ \E age : offer'[p] = [offer[p] EXCEPT !.age = age]
    BY <2>1, <1>a
  <2>3. /\ offer'[p].status = offer[p].status /\ offer'[p].job = offer[p].job
        /\ offer'[p].courier = offer[p].courier
    <3>1. offer[p] \in OfferRow
      BY <1>a
    <3>2. ASSUME NEW age, offer'[p] = [offer[p] EXCEPT !.age = age]
          PROVE  /\ offer'[p].status = offer[p].status
                 /\ offer'[p].job = offer[p].job
                 /\ offer'[p].courier = offer[p].courier
      BY <3>1, <3>2, RowUpdate
    <3> QED BY <2>2, <3>2
  <2> QED BY <2>3 DEF Kept
<1>9. ASSUME NEW t \in Tasks, Crash(t)
      PROVE  Kept(p)
  BY <1>9, <1>b DEF Crash
<1>10. CASE UNCHANGED vars
  BY <1>10, <1>b DEF vars
<1> QED
  BY <1>1, <1>2, <1>3, <1>4, <1>5, <1>6, <1>7, <1>8, <1>9, <1>10
  DEF Next, TaskStep, Tasks

-----------------------------------------------------------------------------
(* Accepted offers *)

\* What a handler in the middle of an accept was the step before.
AcceptGoesOn(u) ==
  /\ task[u].at \in HoldsAnOffer
  /\ task'[u].job = task[u].job
  /\ task'[u].courier = task[u].courier
  /\ task'[u].offer = task[u].offer

AcceptBegins(u) ==
  \E o \in Offers : /\ offer[o].status # "none"
                    /\ task'[u].offer = o
                    /\ task'[u].job = offer[o].job
                    /\ task'[u].courier = offer[o].courier
                    /\ task'[u].at = "acceptCas"

AcceptStage(u) ==
  task'[u].at \in HoldsAnOffer =>
    /\ AcceptGoesOn(u) \/ AcceptBegins(u)
    /\ task'[u].at = "acceptMark" =>
         task'[u] = task[u] \/ Taken(u, task'[u].job, task'[u].courier)

LEMMA BecomeElsewhere ==
  ASSUME task \in [Tasks -> Remembering], NEW t \in Tasks, NEW st, Become(t, st)
  PROVE  /\ task'[t] = st
         /\ \A u \in Tasks \ {t} : task'[u] = task[u]
  BY DEF Become

LEMMA ResumeElsewhere ==
  ASSUME task \in [Tasks -> Remembering], NEW t \in Tasks, Resume(t)
  PROVE  /\ task'[t].at \in {"idle", "sweepNext"}
         /\ task'[t].todo \subseteq task[t].todo
         /\ \A u \in Tasks \ {t} : task'[u] = task[u]
<1> DEFINE rest == [Idle EXCEPT !.at = "sweepNext", !.todo = task[t].todo]
<1>1. rest.at = "sweepNext" /\ rest.todo = task[t].todo
  BY DEF Idle
<1>2. Idle.at = "idle" /\ Idle.todo = {}
  BY DEF Idle
<1>3. Become(t, Idle) \/ Become(t, rest)
  BY DEF Resume
<1> HIDE DEF rest
<1> QED BY <1>1, <1>2, <1>3, BecomeElsewhere

LEMMA GotoElsewhere ==
  ASSUME task \in [Tasks -> Remembering], NEW t \in Tasks, NEW label, Goto(t, label)
  PROVE  /\ task'[t].at = label
         /\ task'[t].job = task[t].job
         /\ task'[t].courier = task[t].courier
         /\ task'[t].offer = task[t].offer
         /\ task'[t].todo = task[t].todo
         /\ \A u \in Tasks \ {t} : task'[u] = task[u]
<1>1. task[t] \in TaskState
  BY DEF Remembering
<1>2. /\ [task[t] EXCEPT !.at = label].at = label
      /\ [task[t] EXCEPT !.at = label].job = task[t].job
      /\ [task[t] EXCEPT !.at = label].courier = task[t].courier
      /\ [task[t] EXCEPT !.at = label].offer = task[t].offer
      /\ [task[t] EXCEPT !.at = label].todo = task[t].todo
  BY <1>1 DEF TaskState
<1>3. Become(t, [task[t] EXCEPT !.at = label])
  BY DEF Goto
<1> QED BY <1>2, <1>3, BecomeElsewhere

LEMMA AcceptStages ==
  ASSUME TypeInv, [Next]_vars, NEW u \in Tasks
  PROVE  AcceptStage(u)
<1>a. task \in [Tasks -> Remembering] /\ \A t \in Tasks : task[t] \in TaskState
  BY DEF TypeInv, Remembering
<1>b. ASSUME task'[u] = task[u] PROVE AcceptStage(u)
  BY <1>b DEF AcceptStage, AcceptGoesOn
<1>c. ASSUME task'[u].at \notin HoldsAnOffer PROVE AcceptStage(u)
  BY <1>c DEF AcceptStage
<1>1. ASSUME NEW t \in Tasks, DispatchStep(t)
      PROVE  AcceptStage(u)
  <2>1. /\ task'[t].at \notin HoldsAnOffer
        /\ \A v \in Tasks \ {t} : task'[v] = task[v]
    <3>1. CASE DispatchRead(t)
      <4> DEFINE st == [task[t] EXCEPT !.at   = "dispatchExclude",
                                       !.seen = status[task[t].job],
                                       !.wave = attempts[task[t].job] + 1]
      <4>1. st.at = "dispatchExclude"
        BY <1>a DEF TaskState
      <4>2. Become(t, st) \/ Resume(t)
        BY <3>1 DEF DispatchRead
      <4> HIDE DEF st
      <4> QED
        BY <1>a, <4>1, <4>2, BecomeElsewhere, ResumeElsewhere DEF HoldsAnOffer
    <3>2. CASE DispatchExclude(t)
      <4> DEFINE holding == {offer[o].courier :
                               o \in OffersInStatus(task[t].job, "offered")}
                 st == [task[t] EXCEPT !.at       = "dispatchSelect",
                                       !.excluded = holding]
      <4>1. Become(t, st)
        BY <3>2 DEF DispatchExclude
      <4> HIDE DEF holding
      <4>2. st.at = "dispatchSelect"
        BY <1>a DEF TaskState
      <4> HIDE DEF st
      <4> QED BY <1>a, <4>1, <4>2, BecomeElsewhere DEF HoldsAnOffer
    <3>3. CASE DispatchSelect(t)
      <4>1. PICK nearby : Become(t, [task[t] EXCEPT !.at         = "dispatchRecord",
                                                    !.candidates = nearby])
        BY <3>3 DEF DispatchSelect
      <4> DEFINE st == [task[t] EXCEPT !.at         = "dispatchRecord",
                                       !.candidates = nearby]
      <4>2. st.at = "dispatchRecord"
        BY <1>a DEF TaskState
      <4>3. Become(t, st)
        BY <4>1
      <4> HIDE DEF st
      <4> QED BY <1>a, <4>2, <4>3, BecomeElsewhere DEF HoldsAnOffer
    <3>4. CASE DispatchRecord(t)
      BY <1>a, <3>4, GotoElsewhere, ResumeElsewhere DEF DispatchRecord, HoldsAnOffer
    <3>5. CASE DispatchMove(t)
      BY <1>a, <3>5, GotoElsewhere, ResumeElsewhere DEF DispatchMove, HoldsAnOffer
    <3>6. CASE DispatchInsert(t)
      <4>1. PICK c : Resume(t) \/ Become(t, [task[t] EXCEPT !.candidates = @ \ {c}])
        BY <3>6 DEF DispatchInsert
      <4>2. [task[t] EXCEPT !.candidates = @ \ {c}].at = "dispatchInsert"
        BY <1>a, <3>6 DEF DispatchInsert, At, TaskState
      <4> QED
        BY <1>a, <4>1, <4>2, BecomeElsewhere, ResumeElsewhere DEF HoldsAnOffer
    <3> QED BY <1>1, <3>1, <3>2, <3>3, <3>4, <3>5, <3>6 DEF DispatchStep
  <2> QED BY <2>1, <1>b, <1>c
<1>2. ASSUME NEW t \in Tasks, AcceptStep(t)
      PROVE  AcceptStage(u)
  <2>1. task[t].at \in HoldsAnOffer
    BY <1>2 DEF AcceptStep, AcceptWin, AcceptLose, AcceptLost, AcceptMark,
       AcceptSupersede, AcceptBusy, AcceptCount, AcceptRate, At, HoldsAnOffer
  <2>2. CASE AcceptWin(t)
    <3>1. CASE u = t
      <4>1. /\ task'[u].at = "acceptMark" /\ task'[u].job = task[u].job
            /\ task'[u].courier = task[u].courier
            /\ task'[u].offer = task[u].offer
        BY <1>a, <2>2, <3>1, GotoElsewhere DEF AcceptWin
      <4>2. Taken(u, task[u].job, task[u].courier)
        BY <2>2, <3>1 DEF AcceptWin, Taken
      <4> QED BY <2>1, <3>1, <4>1, <4>2 DEF AcceptStage, AcceptGoesOn
    <3>2. CASE u # t
      BY <1>a, <1>b, <2>2, <3>2, GotoElsewhere DEF AcceptWin
    <3> QED BY <3>1, <3>2
  <2>3. CASE \E label \in {"acceptLost", "acceptSupersede", "acceptBusy",
                           "acceptCount"} : Goto(t, label)
    <3>1. CASE u = t
      <4>1. /\ task'[u].at # "acceptMark" /\ task'[u].job = task[u].job
            /\ task'[u].courier = task[u].courier
            /\ task'[u].offer = task[u].offer
        BY <1>a, <2>3, <3>1, GotoElsewhere
      <4> QED BY <2>1, <3>1, <4>1 DEF AcceptStage, AcceptGoesOn
    <3>2. CASE u # t
      BY <1>a, <1>b, <2>3, <3>2, GotoElsewhere
    <3> QED BY <3>1, <3>2
  <2>4. CASE AcceptLost(t)
    <3>1. Idle.at \notin HoldsAnOffer
      BY DEF Idle, HoldsAnOffer
    <3> QED BY <1>a, <1>b, <1>c, <2>4, <3>1, BecomeElsewhere DEF AcceptLost
  <2>5. CASE AcceptCount(t)
    <3> DEFINE counts == Outcomes(task[t].courier, {o \in Offers : Visible(o)})
               counted == [task[t] EXCEPT !.at = "acceptRate", !.counts = counts]
               st == [task[t] EXCEPT !.at = "mirror", !.seen = "accepted"]
    <3>1. /\ counted.at = "acceptRate" /\ counted.job = task[t].job
          /\ counted.courier = task[t].courier /\ counted.offer = task[t].offer
      BY <1>a DEF TaskState
    <3>2. st.at \notin HoldsAnOffer
      BY <1>a DEF TaskState, HoldsAnOffer
    <3>3. Become(t, counted) \/ Become(t, st)
      BY <2>5 DEF AcceptCount
    <3> HIDE DEF counts, counted, st
    <3>4. CASE Become(t, st)
      BY <1>a, <1>b, <1>c, <3>2, <3>4, BecomeElsewhere
    <3>5. CASE Become(t, counted)
      <4>1. CASE u = t
        <5>1. task'[u] = counted
          BY <1>a, <3>5, <4>1, BecomeElsewhere
        <5>2. /\ task'[u].at # "acceptMark" /\ task'[u].job = task[u].job
              /\ task'[u].courier = task[u].courier
              /\ task'[u].offer = task[u].offer
          BY <3>1, <4>1, <5>1
        <5> QED BY <2>1, <4>1, <5>2 DEF AcceptStage, AcceptGoesOn
      <4>2. CASE u # t
        BY <1>a, <1>b, <3>5, <4>2, BecomeElsewhere
      <4> QED BY <4>1, <4>2
    <3> QED BY <3>3, <3>4, <3>5
  <2>6. CASE AcceptRate(t)
    <3> DEFINE st == [task[t] EXCEPT !.at = "mirror", !.seen = "accepted",
                                     !.counts = NoCounts]
    <3>1. st.at \notin HoldsAnOffer
      BY <1>a DEF TaskState, HoldsAnOffer
    <3>2. Become(t, st)
      BY <2>6 DEF AcceptRate
    <3> HIDE DEF st
    <3> QED BY <1>a, <1>b, <1>c, <3>1, <3>2, BecomeElsewhere
  <2> QED
    BY <1>2, <2>2, <2>3, <2>4, <2>5, <2>6
    DEF AcceptStep, AcceptLose, AcceptMark, AcceptSupersede, AcceptBusy
<1>3. ASSUME NEW t \in Tasks, SweepStep(t) \/ CancelSupersede(t) \/ Mirror(t)
                                \/ SweepExpire(t) \/ Crash(t)
      PROVE  AcceptStage(u)
  <2>a. Idle.at \notin HoldsAnOffer
    BY DEF Idle, HoldsAnOffer
  <2>1. /\ task'[t].at \notin HoldsAnOffer
        /\ \A v \in Tasks \ {t} : task'[v] = task[v]
    <3>1. CASE SweepList(t)
      <4>1. PICK listed : \/ Become(t, Idle)
                          \/ Become(t, [Idle EXCEPT !.at = "sweepNext",
                                                    !.todo = listed])
        BY <3>1 DEF SweepList
      <4> DEFINE st == [Idle EXCEPT !.at = "sweepNext", !.todo = listed]
      <4>2. st.at = "sweepNext"
        BY DEF Idle
      <4>3. Become(t, Idle) \/ Become(t, st)
        BY <4>1
      <4> HIDE DEF st
      <4> QED BY <1>a, <2>a, <4>2, <4>3, BecomeElsewhere DEF HoldsAnOffer
    <3>2. CASE SweepNext(t)
      <4>1. PICK listed \in task[t].todo :
              LET rest == task[t].todo \ {listed}
                  live == OffersInStatus(listed.job, "offered") # {}
              IN Become(t, IF live /\ rest = {}
                           THEN Idle
                           ELSE [Idle EXCEPT
                                   !.at   = IF live THEN "sweepNext" ELSE "sweepAccepted",
                                   !.job  = IF live THEN None ELSE listed.job,
                                   !.wave = IF live THEN 0 ELSE listed.attempts,
                                   !.todo = rest])
        BY <3>2 DEF SweepNext
      <4> DEFINE rest == task[t].todo \ {listed}
                 skip == [Idle EXCEPT !.at = "sweepNext", !.job = None,
                                      !.wave = 0, !.todo = rest]
                 take == [Idle EXCEPT !.at = "sweepAccepted", !.job = listed.job,
                                      !.wave = listed.attempts, !.todo = rest]
      <4>2. skip.at = "sweepNext" /\ take.at = "sweepAccepted"
        BY DEF Idle
      <4>3. Become(t, Idle) \/ Become(t, skip) \/ Become(t, take)
        BY <4>1
      <4> HIDE DEF skip, take
      <4> QED BY <1>a, <2>a, <4>2, <4>3, BecomeElsewhere DEF HoldsAnOffer
    <3>3. CASE SweepAccepted(t)
      BY <1>a, <3>3, GotoElsewhere, ResumeElsewhere DEF SweepAccepted, HoldsAnOffer
    <3>4. CASE SweepReread(t)
      <4> DEFINE st == [task[t] EXCEPT !.at = "sweepCancel",
                                       !.seen = status[task[t].job]]
      <4>1. st.at = "sweepCancel"
        BY <1>a DEF TaskState
      <4>2. Become(t, st) \/ Resume(t)
        BY <3>4 DEF SweepReread
      <4> HIDE DEF st
      <4> QED
        BY <1>a, <4>1, <4>2, BecomeElsewhere, ResumeElsewhere DEF HoldsAnOffer
    <3>5. CASE SweepCancel(t)
      BY <1>a, <3>5, GotoElsewhere, ResumeElsewhere DEF SweepCancel, HoldsAnOffer
    <3>6. CASE SweepSupersede(t)
      BY <1>a, <3>6, ResumeElsewhere DEF SweepSupersede, HoldsAnOffer
    <3>7. CASE CancelSupersede(t)
      BY <1>a, <3>7, GotoElsewhere DEF CancelSupersede, HoldsAnOffer
    <3>8. CASE Mirror(t) \/ Crash(t)
      BY <1>a, <2>a, <3>8, BecomeElsewhere DEF Mirror, Crash
    <3>9. CASE SweepExpire(t)
      BY <1>a, <3>9, GotoElsewhere DEF SweepExpire, HoldsAnOffer
    <3> QED
      BY <1>3, <3>1, <3>2, <3>3, <3>4, <3>5, <3>6, <3>7, <3>8, <3>9 DEF SweepStep
  <2> QED BY <2>1, <1>b, <1>c
<1>4. ASSUME NEW t \in Handlers, Request(t)
      PROVE  AcceptStage(u)
  <2>t. t \in Tasks
    BY DEF Tasks
  <2>1. ASSUME NEW o \in Offers, AcceptFind(t, o)
        PROVE  AcceptStage(u)
    <3> DEFINE st == [Idle EXCEPT !.at      = "acceptCas",
                                  !.job     = offer[o].job,
                                  !.courier = offer[o].courier,
                                  !.offer   = o]
    <3>1. /\ st.at = "acceptCas" /\ st.job = offer[o].job
          /\ st.courier = offer[o].courier /\ st.offer = o
      BY DEF Idle
    <3>2. Become(t, st) /\ offer[o].status # "none"
      BY <2>1 DEF AcceptFind
    <3> HIDE DEF st
    <3>3. CASE u = t
      <4>1. task'[u] = st
        BY <2>t, <1>a, <3>2, <3>3, BecomeElsewhere
      <4>2. AcceptBegins(u)
        BY <3>1, <3>2, <4>1 DEF AcceptBegins
      <4> QED BY <3>1, <4>1, <4>2 DEF AcceptStage
    <3>4. CASE u # t
      BY <2>t, <1>a, <1>b, <3>2, <3>4, BecomeElsewhere
    <3> QED BY <3>3, <3>4
  <2>2. ASSUME ~\E o \in Offers : AcceptFind(t, o)
        PROVE  AcceptStage(u)
    <3>1. /\ task'[t].at \notin HoldsAnOffer
          /\ \A v \in Tasks \ {t} : task'[v] = task[v]
      <4>1. ASSUME NEW j \in Jobs, Book(t, j)
            PROVE  /\ task'[t].at \notin HoldsAnOffer
                   /\ \A v \in Tasks \ {t} : task'[v] = task[v]
        <5> DEFINE st == [Idle EXCEPT !.at = "dispatchRead", !.job = j]
        <5>1. st.at = "dispatchRead"
          BY DEF Idle
        <5>2. Become(t, st)
          BY <4>1 DEF Book
        <5> HIDE DEF st
        <5> QED BY <2>t, <1>a, <5>1, <5>2, BecomeElsewhere DEF HoldsAnOffer
      <4>2. ASSUME NEW j \in Jobs, NEW leg \in CourierLegs, Advance(t, j, leg)
            PROVE  /\ task'[t].at \notin HoldsAnOffer
                   /\ \A v \in Tasks \ {t} : task'[v] = task[v]
        <5> DEFINE st == [Idle EXCEPT !.at = "mirror", !.job = j, !.seen = leg[2]]
        <5>1. st.at = "mirror"
          BY DEF Idle
        <5>2. Become(t, st)
          BY <4>2 DEF Advance
        <5> HIDE DEF st
        <5> QED BY <2>t, <1>a, <5>1, <5>2, BecomeElsewhere DEF HoldsAnOffer
      <4>3. ASSUME NEW j \in Jobs, NEW party \in Couriers \cup {Sender},
                   Cancel(t, j, party)
            PROVE  /\ task'[t].at \notin HoldsAnOffer
                   /\ \A v \in Tasks \ {t} : task'[v] = task[v]
        <5> DEFINE st == [Idle EXCEPT !.at = "cancelSupersede", !.job = j,
                                      !.seen = "cancelled"]
        <5>1. st.at = "cancelSupersede"
          BY DEF Idle
        <5>2. Become(t, st)
          BY <4>3 DEF Cancel
        <5> HIDE DEF st
        <5> QED BY <2>t, <1>a, <5>1, <5>2, BecomeElsewhere DEF HoldsAnOffer
      <4> QED BY <1>4, <2>2, <4>1, <4>2, <4>3 DEF Request
    <3> QED BY <3>1, <1>b, <1>c
  <2> QED BY <2>1, <2>2
<1>5. ASSUME task' = task PROVE AcceptStage(u)
  BY <1>5, <1>b
<1> QED
  BY <1>1, <1>2, <1>3, <1>4, <1>5
  DEF Next, TaskStep, Tasks, CourierStep, GoOnline, GoOffline, SuspendCourier,
      ReinstateCourier, Shift, OfferLapses, PurgeOffer, vars

\* The offer a handler holds is its courier's own, for its own job; and between
\* winning the CAS and marking the offer, the job is that courier's.
HeldOfferIsOwn(u) ==
  /\ task[u].at \in HoldsAnOffer =>
       /\ offer[task[u].offer].status # "none"
       /\ offer[task[u].offer].job = task[u].job
       /\ offer[task[u].offer].courier = task[u].courier
  /\ task[u].at = "acceptMark" => courier[task[u].job] = task[u].courier

AcceptInv ==
  /\ AcceptedOfferIsTheWinners
  /\ \A u \in Tasks : HeldOfferIsOwn(u)

\* A job's courier is assigned once.
LEMMA CourierStays ==
  ASSUME TypeInv, CourierInv, [Next]_vars, NEW k \in Jobs, courier[k] # None
  PROVE  courier'[k] = courier[k]
<1>1. CASE UNCHANGED courier
  BY <1>1
<1>2. ASSUME NEW t \in Tasks, NEW j \in Jobs, NEW c \in Couriers, Taken(t, j, c)
      PROVE  courier'[k] = courier[k]
  <2>1. courier[j] = None
    BY <1>2 DEF Taken, Transition, CourierInv, Unassigned, AwaitingCourier
  <2> QED BY <1>2, <2>1 DEF Taken, TypeInv, TypeOK
<1> QED
  BY <1>1, <1>2, JobSteps DEF JobStep, JobsUntouched, Booked, Moved

LEMMA AcceptInvariant == Spec => []AcceptInv
<1>1. Init => AcceptInv
  BY DEF Init, AcceptInv, AcceptedOfferIsTheWinners, HeldOfferIsOwn, NoOffer,
         Idle, HoldsAnOffer
<1>2. TypeInv /\ CourierInv /\ AcceptInv /\ [Next]_vars => AcceptInv'
  <2> SUFFICES ASSUME TypeInv, CourierInv, AcceptInv, [Next]_vars
               PROVE  AcceptInv'
    OBVIOUS
  <2>a. /\ task \in [Tasks -> Remembering] /\ OffersAreFilled
        /\ courier \in [Jobs -> Couriers \cup {None}]
        /\ offer \in [Offers -> OfferRow]
    BY DEF TypeInv, TypeOK
  <2>b. TypeInv'
    BY StepTyped
  <2>c. task' \in [Tasks -> Remembering]
    BY <2>b DEF TypeInv
  <2>1. ASSUME NEW p \in Offers, offer'[p].status = "accepted"
        PROVE  /\ offer'[p].courier = courier'[offer'[p].job]
               /\ offer'[p].courier # None
    <3>1. Kept(p)
      BY <2>1, OfferSteps DEF Made
    <3>2. /\ offer[p].status # "none"
          /\ offer'[p].job = offer[p].job /\ offer'[p].courier = offer[p].courier
      BY <2>1, <3>1 DEF Kept, Ended
    <3>3. offer[p].job \in Jobs /\ offer[p].courier \in Couriers
      BY <2>a, <3>2 DEF OffersAreFilled
    <3>4. offer[p].courier = courier[offer[p].job]
      <4>1. CASE offer[p].status = "accepted"
        BY <4>1 DEF AcceptInv, AcceptedOfferIsTheWinners
      <4>2. ASSUME NEW t \in Tasks, Marking(t, p)
            PROVE  offer[p].courier = courier[offer[p].job]
        BY <4>2 DEF Marking, At, AcceptInv, HeldOfferIsOwn, HoldsAnOffer
      <4> QED BY <2>1, <3>1, <4>1, <4>2 DEF Kept, Ended
    <3>5. courier[offer[p].job] # None
      BY <3>3, <3>4, ActorsDiffer
    <3> QED BY <3>2, <3>3, <3>4, <3>5, CourierStays
  <2>2. ASSUME NEW u \in Tasks, task'[u].at \in HoldsAnOffer
        PROVE  /\ offer'[task'[u].offer].status # "none"
               /\ offer'[task'[u].offer].job = task'[u].job
               /\ offer'[task'[u].offer].courier = task'[u].courier
    <3> DEFINE o == task'[u].offer
    <3>1. o \in Offers
      BY <2>2, <2>c DEF Remembering
    <3>2. /\ offer[o].status # "none"
          /\ offer[o].job = task'[u].job
          /\ offer[o].courier = task'[u].courier
      BY <2>2, AcceptStages
      DEF AcceptStage, AcceptGoesOn, AcceptBegins, AcceptInv, HeldOfferIsOwn
    <3>3. Kept(o)
      BY <3>1, <3>2, OfferSteps DEF Made
    <3> QED BY <3>2, <3>3 DEF Kept, Ended
  <2>3. ASSUME NEW u \in Tasks, task'[u].at = "acceptMark"
        PROVE  courier'[task'[u].job] = task'[u].courier
    <3>1. task'[u].job \in Jobs /\ task'[u].courier \in Couriers
      BY <2>3, <2>c DEF Remembering, HoldsAnOffer
    <3>2. CASE Taken(u, task'[u].job, task'[u].courier)
      BY <2>a, <3>1, <3>2 DEF Taken
    <3>3. CASE task'[u] = task[u]
      <4>1. courier[task[u].job] = task[u].courier
        BY <2>3, <3>3 DEF AcceptInv, HeldOfferIsOwn
      <4> QED BY <3>1, <3>3, <4>1, CourierStays, ActorsDiffer
    <3> QED BY <2>3, <3>2, <3>3, AcceptStages DEF AcceptStage, HoldsAnOffer
  <2> QED
    BY <2>1, <2>2, <2>3 DEF AcceptInv, AcceptedOfferIsTheWinners, HeldOfferIsOwn
<1> QED
  BY <1>1, <1>2, InitTyped, StepTyped, CourierInvariant, TypeInvariant, PTL DEF Spec

\* At most one courier is ever told of having won a job, although the statement
\* that says so, setOfferStatus, checks nothing: every handler that reaches it
\* holds its courier's own offer for a job whose CAS that courier won.
THEOREM AcceptedOffersAreTheWinners == Spec => []AcceptedOfferIsTheWinners
<1>1. AcceptInv => AcceptedOfferIsTheWinners
  BY DEF AcceptInv
<1> QED BY <1>1, AcceptInvariant, PTL

-----------------------------------------------------------------------------
(* Suspension *)

\* In no order of suspensions, reinstatements, calls to go online and accepts is
\* a suspended courier online: each writer of the row checks or resets the other
\* column in the statement that writes its own.
THEOREM SuspensionHolds == Spec => []SuspendedIsNeverOnline
<1> DEFINE Inv == \A c \in Couriers : standing[c] = "suspended" => online[c] # "online"
<1>1. Init => Inv
  BY DEF Init
<1>2. TypeInv /\ Inv /\ [Next]_vars => Inv'
  <2> SUFFICES ASSUME TypeInv, Inv, [Next]_vars PROVE Inv'
    OBVIOUS
  <2>a. /\ standing \in [Couriers -> {"pending", "active", "suspended"}]
        /\ online \in [Couriers -> {"offline", "online", "on_job"}]
    BY DEF TypeInv, TypeOK
  <2>1. ASSUME NEW c \in Couriers, CourierStep(c)
        PROVE  Inv'
    BY <2>a, <2>1 DEF CourierStep, GoOnline, GoOffline, SuspendCourier,
                      ReinstateCourier
  <2>2. ASSUME NEW t \in Tasks, AcceptBusy(t)
        PROVE  Inv'
    BY <2>a, <2>2 DEF AcceptBusy
  <2>3. CASE UNCHANGED <<standing, online>>
    BY <2>3
  <2>4. ASSUME NEW t \in Tasks, TaskStep(t), ~AcceptBusy(t)
        PROVE  UNCHANGED <<standing, online>>
    <3>1. CASE DispatchStep(t)
      BY <3>1 DEF DispatchStep, DispatchRead, DispatchExclude, DispatchSelect,
         DispatchRecord, DispatchMove, DispatchInsert, courierVars
    <3>2. CASE AcceptStep(t)
      BY <2>4, <3>2 DEF AcceptStep, AcceptWin, AcceptLose, AcceptLost, AcceptMark,
         AcceptSupersede, AcceptCount, AcceptRate, courierVars
    <3>3. CASE SweepStep(t)
      BY <3>3 DEF SweepStep, SweepList, SweepNext, SweepAccepted, SweepReread,
         SweepCancel, SweepSupersede, courierVars
    <3>4. CASE CancelSupersede(t) \/ Mirror(t)
      BY <3>4 DEF CancelSupersede, Mirror, courierVars
    <3> QED BY <2>4, <3>1, <3>2, <3>3, <3>4 DEF TaskStep
  <2>5. ASSUME NEW t, Request(t) \/ SweepExpire(t) \/ Crash(t)
        PROVE  UNCHANGED <<standing, online>>
    BY <2>5 DEF Request, Book, AcceptFind, Advance, Cancel, SweepExpire, Crash,
       courierVars
  <2>6. ASSUME NEW o, OfferLapses(o) \/ PurgeOffer(o)
        PROVE  UNCHANGED <<standing, online>>
    BY <2>6 DEF OfferLapses, PurgeOffer, courierVars
  <2>7. CASE UNCHANGED vars
    BY <2>3, <2>7 DEF vars, courierVars
  <2> QED
    BY <2>1, <2>2, <2>3, <2>4, <2>5, <2>6, <2>7 DEF Next
<1>3. Inv <=> SuspendedIsNeverOnline
  BY DEF SuspendedIsNeverOnline
<1> QED BY <1>1, <1>2, <1>3, TypeInvariant, PTL DEF Spec

-----------------------------------------------------------------------------
(* Refinement *)

\* The jobs of Dispatch keep the contract of JobLifecycle: a step of any handler,
\* sweep or crash is a step of the contract or touches no job's phase or courier.
THEOREM DispatchImplementsJobLifecycle == Spec => ImplementsJobLifecycle
<1>1. Init => Contract!Init
  BY DEF Init, Contract!Init, Phase, AwaitingCourier
<1>2. TypeInv /\ [Next]_vars => [Contract!Next]_(Contract!vars)
  <2> SUFFICES ASSUME TypeInv, [Next]_vars
               PROVE  Contract!Next \/ UNCHANGED Contract!vars
    OBVIOUS
  <2>a. status \in [Jobs -> JobStatus \cup {"unbooked"}]
    BY DEF TypeInv, TypeOK
  <2>1. CASE JobsUntouched
    BY <2>1 DEF JobsUntouched, Contract!vars, Phase
  <2>2. ASSUME NEW j \in Jobs, Booked(j)
        PROVE  Contract!Next
    <3>1. Contract!Open(j)
      BY <2>2, <2>a DEF Booked, Contract!Open, Phase, AwaitingCourier
    <3> QED BY <3>1 DEF Contract!Next
  <2>3. ASSUME NEW t \in Tasks, NEW j \in Jobs, NEW c \in Couriers, Taken(t, j, c)
        PROVE  Contract!Next
    <3>1. Contract!Take(j, c)
      BY <2>3, <2>a DEF Taken, Transition, Contract!Take, Phase, AwaitingCourier
    <3> QED BY <3>1 DEF Contract!Next
  <2>4. ASSUME NEW j \in Jobs, NEW from \in JobStatus, NEW to \in JobStatus,
               NEW by, Moved(j, from, to, by)
        PROVE  Contract!Next \/ UNCHANGED Contract!vars
    <3>a. /\ status[j] = from /\ status' = [status EXCEPT ![j] = to]
          /\ <<from, to>> \in JOB_TRANSITIONS /\ to # "accepted"
          /\ courier' = courier
      BY <2>4 DEF Moved, Transition
    <3>1. CASE to \in AwaitingCourier
      <4>1. from \in AwaitingCourier
        BY <3>a, <3>1 DEF JOB_TRANSITIONS, AwaitingCourier
      <4> QED BY <2>a, <3>a, <3>1, <4>1 DEF Phase, Contract!vars
    <3>2. CASE to \in Driven
      <4>1. <<from, to>> \in Contract!Legs /\ from \notin AwaitingCourier
        BY <3>a, <3>2 DEF JOB_TRANSITIONS, Driven, Contract!Legs, AwaitingCourier
      <4>2. Phase' = [Phase EXCEPT ![j] = to]
        BY <2>a, <3>a, <3>2 DEF Phase, Driven, AwaitingCourier
      <4>3. Phase[j] = from
        BY <3>a, <4>1 DEF Phase
      <4>4. Contract!Move(j)
        BY <3>a, <4>1, <4>2, <4>3 DEF Contract!Move
      <4> QED BY <4>4 DEF Contract!Next
    <3>3. CASE to = "cancelled"
      <4>1. Phase' = [Phase EXCEPT ![j] = "cancelled"]
        BY <2>a, <3>a, <3>3 DEF Phase, AwaitingCourier
      <4>2. Phase[j] \in {"open", "accepted", "picked_up", "in_transit"}
        BY <3>a, <3>3 DEF Phase, JOB_TRANSITIONS, AwaitingCourier
      <4>3. Contract!Withdraw(j)
        BY <3>a, <4>1, <4>2 DEF Contract!Withdraw
      <4> QED BY <4>3 DEF Contract!Next
    <3> QED
      BY <3>a, <3>1, <3>2, <3>3 DEF JOB_TRANSITIONS, AwaitingCourier, Driven
  <2> QED BY <2>1, <2>2, <2>3, <2>4, JobSteps DEF JobStep
<1> QED
  BY <1>1, <1>2, TypeInvariant, PTL DEF Spec, ImplementsJobLifecycle, Contract!Spec

-----------------------------------------------------------------------------
(* Payment *)

\* The labels a handler only reaches past a payment check of the job.
Paid == {"dispatchExclude", "dispatchSelect", "dispatchRecord", "dispatchMove",
         "dispatchInsert", "acceptCas", "sweepAccepted", "sweepReread",
         "sweepCancel"}

PaidTask(u) ==
  /\ task[u].at \in Paid => clear[task[u].job]
  /\ \A listed \in task[u].todo : clear[listed.job]

\* What u remembers after the step is about jobs that were paid for before it.
StillPaid(u) ==
  /\ task'[u].at \in Paid => clear[task'[u].job]
  /\ \A listed \in task'[u].todo : clear[listed.job]

LEMMA PaidStages ==
  ASSUME TypeInv, \A u \in Tasks : PaidTask(u), [Next]_vars, NEW u \in Tasks
  PROVE  StillPaid(u)
<1>a. task \in [Tasks -> Remembering] /\ \A t \in Tasks : task[t] \in TaskState
  BY DEF TypeInv, Remembering
<1>b. ASSUME task'[u] = task[u] PROVE StillPaid(u)
  BY <1>b DEF StillPaid, PaidTask
<1>i. Idle.at \notin Paid /\ Idle.todo = {}
  BY DEF Idle, Paid
<1>r. ASSUME NEW t \in Tasks, Resume(t)
      PROVE  StillPaid(u)
  BY <1>a, <1>b, <1>r, ResumeElsewhere DEF StillPaid, PaidTask, Paid
<1>g. ASSUME NEW t \in Tasks, NEW label, Goto(t, label),
             label \in Paid => clear[task[t].job]
      PROVE  StillPaid(u)
  BY <1>a, <1>b, <1>g, GotoElsewhere DEF StillPaid, PaidTask
<1>s. ASSUME NEW t \in Tasks, NEW st, Become(t, st),
             st.at \in Paid => clear[st.job],
             \A listed \in st.todo : clear[listed.job]
      PROVE  StillPaid(u)
  <2>1. task'[t] = st /\ \A v \in Tasks \ {t} : task'[v] = task[v]
    BY <1>a, <1>s, BecomeElsewhere
  <2>2. CASE u = t
    BY <1>s, <2>1, <2>2 DEF StillPaid
  <2>3. CASE u # t
    BY <1>b, <2>1, <2>3
  <2> QED BY <2>2, <2>3
<1>1. ASSUME NEW t \in Tasks, DispatchStep(t)
      PROVE  StillPaid(u)
  <2>a. \A listed \in task[t].todo : clear[listed.job]
    BY DEF PaidTask
  <2>1. CASE DispatchRead(t)
    <3> DEFINE st == [task[t] EXCEPT !.at   = "dispatchExclude",
                                     !.seen = status[task[t].job],
                                     !.wave = attempts[task[t].job] + 1]
    <3>1. st.job = task[t].job /\ st.todo = task[t].todo
      BY <1>a DEF TaskState
    <3>2. (Become(t, st) /\ clear[task[t].job]) \/ Resume(t)
      BY <2>1 DEF DispatchRead
    <3> HIDE DEF st
    <3> QED BY <1>r, <1>s, <2>a, <3>1, <3>2
  <2>2. CASE DispatchExclude(t)
    <3> DEFINE holding == {offer[o].courier :
                             o \in OffersInStatus(task[t].job, "offered")}
               st == [task[t] EXCEPT !.at       = "dispatchSelect",
                                     !.excluded = holding]
    <3>1. Become(t, st)
      BY <2>2 DEF DispatchExclude
    <3> HIDE DEF holding
    <3>2. st.job = task[t].job /\ st.todo = task[t].todo
      BY <1>a DEF TaskState
    <3>3. clear[task[t].job]
      BY <2>2 DEF DispatchExclude, At, PaidTask, Paid
    <3> HIDE DEF st
    <3> QED BY <1>s, <2>a, <3>1, <3>2, <3>3
  <2>3. CASE DispatchSelect(t)
    <3>1. PICK nearby : Become(t, [task[t] EXCEPT !.at         = "dispatchRecord",
                                                  !.candidates = nearby])
      BY <2>3 DEF DispatchSelect
    <3> DEFINE st == [task[t] EXCEPT !.at         = "dispatchRecord",
                                     !.candidates = nearby]
    <3>2. st.job = task[t].job /\ st.todo = task[t].todo
      BY <1>a DEF TaskState
    <3>3. clear[task[t].job]
      BY <2>3 DEF DispatchSelect, At, PaidTask, Paid
    <3>4. Become(t, st)
      BY <3>1
    <3> HIDE DEF st
    <3> QED BY <1>s, <2>a, <3>2, <3>3, <3>4
  <2>4. CASE DispatchRecord(t) \/ DispatchMove(t)
    <3>1. clear[task[t].job]
      BY <2>4 DEF DispatchRecord, DispatchMove, At, PaidTask, Paid
    <3>2. Resume(t) \/ \E label : Goto(t, label)
      BY <2>4 DEF DispatchRecord, DispatchMove
    <3> QED BY <1>g, <1>r, <3>1, <3>2
  <2>5. CASE DispatchInsert(t)
    <3>1. PICK c : Resume(t) \/ Become(t, [task[t] EXCEPT !.candidates = @ \ {c}])
      BY <2>5 DEF DispatchInsert
    <3> DEFINE st == [task[t] EXCEPT !.candidates = @ \ {c}]
    <3>2. st.job = task[t].job /\ st.todo = task[t].todo
      BY <1>a DEF TaskState
    <3>3. clear[task[t].job]
      BY <2>5 DEF DispatchInsert, At, PaidTask, Paid
    <3>4. Resume(t) \/ Become(t, st)
      BY <3>1
    <3> HIDE DEF st
    <3> QED BY <1>r, <1>s, <2>a, <3>2, <3>3, <3>4
  <2> QED BY <1>1, <2>1, <2>2, <2>3, <2>4, <2>5 DEF DispatchStep
<1>2. ASSUME NEW t \in Tasks, AcceptStep(t)
      PROVE  StillPaid(u)
  <2>1. CASE AcceptRate(t)
    <3> DEFINE st == [task[t] EXCEPT !.at = "mirror", !.seen = "accepted",
                                     !.counts = NoCounts]
    <3>1. st.at \notin Paid /\ st.todo = task[t].todo
      BY <1>a DEF TaskState, Paid
    <3>2. Become(t, st)
      BY <2>1 DEF AcceptRate
    <3> HIDE DEF st
    <3> QED BY <1>s, <3>1, <3>2 DEF PaidTask
  <2>2. CASE AcceptLost(t)
    BY <1>i, <1>s, <2>2 DEF AcceptLost
  <2>3. CASE AcceptCount(t)
    <3> DEFINE counts == Outcomes(task[t].courier, {o \in Offers : Visible(o)})
               counted == [task[t] EXCEPT !.at = "acceptRate", !.counts = counts]
               st == [task[t] EXCEPT !.at = "mirror", !.seen = "accepted"]
    <3>1. /\ counted.at \notin Paid /\ counted.todo = task[t].todo
          /\ st.at \notin Paid /\ st.todo = task[t].todo
      BY <1>a DEF TaskState, Paid
    <3>2. Become(t, counted) \/ Become(t, st)
      BY <2>3 DEF AcceptCount
    <3> HIDE DEF counts, counted, st
    <3> QED BY <1>s, <3>1, <3>2 DEF PaidTask
  <2>4. CASE ~AcceptRate(t) /\ ~AcceptLost(t) /\ ~AcceptCount(t)
    <3>1. \E label \in {"acceptMark", "acceptLost", "acceptSupersede",
                        "acceptBusy", "acceptCount"} : Goto(t, label)
      BY <1>2, <2>4 DEF AcceptStep, AcceptWin, AcceptLose, AcceptMark,
                        AcceptSupersede, AcceptBusy
    <3> QED BY <1>g, <3>1 DEF Paid
  <2> QED BY <2>1, <2>2, <2>3, <2>4
<1>3. ASSUME NEW t \in Tasks, SweepStep(t)
      PROVE  StillPaid(u)
  <2>1. CASE SweepList(t)
    <3> DEFINE listed == {[job |-> i, attempts |-> attempts[i]] :
                            i \in {k \in Jobs : /\ status[k] \in AwaitingCourier
                                                /\ clear[k]}}
               st == [Idle EXCEPT !.at = "sweepNext", !.todo = listed]
    <3>1. Become(t, Idle) \/ Become(t, st)
      BY <2>1 DEF SweepList
    <3>2. \A e \in listed : clear[e.job]
      OBVIOUS
    <3> HIDE DEF listed
    <3>3. st.at \notin Paid /\ st.todo = listed
      BY DEF Idle, Paid
    <3> HIDE DEF st
    <3> QED BY <1>i, <1>s, <3>1, <3>2, <3>3
  <2>2. CASE SweepNext(t)
    <3>1. PICK listed \in task[t].todo :
            LET rest == task[t].todo \ {listed}
                live == OffersInStatus(listed.job, "offered") # {}
            IN Become(t, IF live /\ rest = {}
                         THEN Idle
                         ELSE [Idle EXCEPT
                                 !.at   = IF live THEN "sweepNext" ELSE "sweepAccepted",
                                 !.job  = IF live THEN None ELSE listed.job,
                                 !.wave = IF live THEN 0 ELSE listed.attempts,
                                 !.todo = rest])
      BY <2>2 DEF SweepNext
    <3> DEFINE rest == task[t].todo \ {listed}
               skip == [Idle EXCEPT !.at = "sweepNext", !.job = None, !.wave = 0,
                                    !.todo = rest]
               take == [Idle EXCEPT !.at = "sweepAccepted", !.job = listed.job,
                                    !.wave = listed.attempts, !.todo = rest]
    <3>2. Become(t, Idle) \/ Become(t, skip) \/ Become(t, take)
      BY <3>1
    <3>3. clear[listed.job] /\ \A e \in rest : clear[e.job]
      BY DEF PaidTask
    <3> HIDE DEF rest
    <3>4. /\ skip.at \notin Paid /\ skip.todo = rest
          /\ take.job = listed.job /\ take.todo = rest
      BY DEF Idle, Paid
    <3> HIDE DEF skip, take
    <3> QED BY <1>i, <1>s, <3>2, <3>3, <3>4
  <2>3. CASE SweepReread(t)
    <3> DEFINE st == [task[t] EXCEPT !.at = "sweepCancel",
                                     !.seen = status[task[t].job]]
    <3>1. st.job = task[t].job /\ st.todo = task[t].todo
      BY <1>a DEF TaskState
    <3>2. Become(t, st) \/ Resume(t)
      BY <2>3 DEF SweepReread
    <3>3. /\ clear[task[t].job]
          /\ \A listed \in task[t].todo : clear[listed.job]
      BY <2>3 DEF SweepReread, At, PaidTask, Paid
    <3> HIDE DEF st
    <3> QED BY <1>r, <1>s, <3>1, <3>2, <3>3
  <2>4. CASE SweepAccepted(t) \/ SweepCancel(t)
    <3>1. clear[task[t].job]
      BY <2>4 DEF SweepAccepted, SweepCancel, At, PaidTask, Paid
    <3>2. Resume(t) \/ \E label : Goto(t, label)
      BY <2>4 DEF SweepAccepted, SweepCancel
    <3> QED BY <1>g, <1>r, <3>1, <3>2
  <2>5. CASE SweepSupersede(t)
    BY <1>r, <2>5 DEF SweepSupersede
  <2> QED BY <1>3, <2>1, <2>2, <2>3, <2>4, <2>5 DEF SweepStep
<1>4. ASSUME NEW t \in Tasks,
             CancelSupersede(t) \/ Mirror(t) \/ SweepExpire(t) \/ Crash(t)
      PROVE  StillPaid(u)
  <2>1. \/ Goto(t, "mirror") \/ Goto(t, "sweepList")
        \/ Become(t, Idle)
    BY <1>4 DEF CancelSupersede, Mirror, SweepExpire, Crash
  <2> QED BY <1>g, <1>i, <1>s, <2>1 DEF Paid
<1>5. ASSUME NEW t \in Handlers, Request(t)
      PROVE  StillPaid(u)
  <2>t. t \in Tasks
    BY DEF Tasks
  <2>1. ASSUME NEW o \in Offers, AcceptFind(t, o)
        PROVE  StillPaid(u)
    <3> DEFINE st == [Idle EXCEPT !.at      = "acceptCas",
                                  !.job     = offer[o].job,
                                  !.courier = offer[o].courier,
                                  !.offer   = o]
    <3>1. st.job = offer[o].job /\ st.todo = {}
      BY DEF Idle
    <3>2. Become(t, st) /\ clear[offer[o].job]
      BY <2>1 DEF AcceptFind
    <3> HIDE DEF st
    <3> QED BY <1>s, <2>t, <3>1, <3>2
  <2>2. ASSUME NEW j \in Jobs, Book(t, j)
        PROVE  StillPaid(u)
    <3> DEFINE st == [Idle EXCEPT !.at = "dispatchRead", !.job = j]
    <3>1. st.at \notin Paid /\ st.todo = {}
      BY DEF Idle, Paid
    <3>2. Become(t, st)
      BY <2>2 DEF Book
    <3> HIDE DEF st
    <3> QED BY <1>s, <2>t, <3>1, <3>2
  <2>3. ASSUME NEW j \in Jobs, NEW leg \in CourierLegs, Advance(t, j, leg)
        PROVE  StillPaid(u)
    <3> DEFINE st == [Idle EXCEPT !.at = "mirror", !.job = j, !.seen = leg[2]]
    <3>1. st.at \notin Paid /\ st.todo = {}
      BY DEF Idle, Paid
    <3>2. Become(t, st)
      BY <2>3 DEF Advance
    <3> HIDE DEF st
    <3> QED BY <1>s, <2>t, <3>1, <3>2
  <2>4. ASSUME NEW j \in Jobs, NEW party, Cancel(t, j, party)
        PROVE  StillPaid(u)
    <3> DEFINE st == [Idle EXCEPT !.at = "cancelSupersede", !.job = j,
                                  !.seen = "cancelled"]
    <3>1. st.at \notin Paid /\ st.todo = {}
      BY DEF Idle, Paid
    <3>2. Become(t, st)
      BY <2>4 DEF Cancel
    <3> HIDE DEF st
    <3> QED BY <1>s, <2>t, <3>1, <3>2
  <2> QED BY <1>5, <2>1, <2>2, <2>3, <2>4 DEF Request
<1>6. ASSUME task' = task PROVE StillPaid(u)
  BY <1>6, <1>b
<1> QED
  BY <1>1, <1>2, <1>3, <1>4, <1>5, <1>6
  DEF Next, TaskStep, Tasks, CourierStep, GoOnline, GoOffline, SuspendCourier,
      ReinstateCourier, Shift, OfferLapses, PurgeOffer, vars

LEMMA AttemptSteps ==
  ASSUME TypeInv, [Next]_vars, NEW k \in Jobs
  PROVE  \/ attempts'[k] = attempts[k]
         \/ \E t \in Tasks : At(t, "dispatchRecord") /\ task[t].job = k
<1>1. ASSUME NEW t \in Tasks, DispatchRecord(t)
      PROVE  \/ attempts'[k] = attempts[k]
             \/ At(t, "dispatchRecord") /\ task[t].job = k
  BY <1>1 DEF DispatchRecord, TypeInv, TypeOK
<1>2. ASSUME NEW t \in Tasks, TaskStep(t), ~DispatchRecord(t)
      PROVE  attempts' = attempts
  <2>1. CASE DispatchStep(t)
    BY <1>2, <2>1 DEF DispatchStep, DispatchRead, DispatchExclude, DispatchSelect,
       DispatchMove, DispatchInsert, jobVars
  <2>2. CASE AcceptStep(t)
    BY <2>2 DEF AcceptStep, AcceptWin, AcceptLose, AcceptLost, AcceptMark,
       AcceptSupersede, AcceptBusy, AcceptCount, AcceptRate, jobVars
  <2>3. CASE SweepStep(t)
    BY <2>3 DEF SweepStep, SweepList, SweepNext, SweepAccepted, SweepReread,
       SweepCancel, SweepSupersede, jobVars
  <2>4. CASE CancelSupersede(t) \/ Mirror(t)
    BY <2>4 DEF CancelSupersede, Mirror, jobVars
  <2> QED BY <1>2, <2>1, <2>2, <2>3, <2>4 DEF TaskStep
<1>3. ASSUME NEW t, Request(t) \/ SweepExpire(t) \/ Crash(t)
      PROVE  attempts' = attempts
  BY <1>3 DEF Request, Book, AcceptFind, Advance, Cancel, SweepExpire, Crash, jobVars
<1>4. ASSUME NEW c, CourierStep(c)
      PROVE  attempts' = attempts
  BY <1>4 DEF CourierStep, GoOnline, GoOffline, SuspendCourier, ReinstateCourier,
              Shift, jobVars
<1>5. ASSUME NEW o, OfferLapses(o) \/ PurgeOffer(o)
      PROVE  attempts' = attempts
  BY <1>5 DEF OfferLapses, PurgeOffer, jobVars
<1>6. CASE UNCHANGED vars
  BY <1>6 DEF vars, jobVars
<1> QED BY <1>1, <1>2, <1>3, <1>4, <1>5, <1>6 DEF Next

\* NoDispatchBeforePayment, of one job.
NobodySent(j) ==
  /\ status[j] \notin {"offered", "accepted", "picked_up", "in_transit", "delivered"}
  /\ \A i \in 1..Len(trail[j]) : trail[j][i].by # None

Untouched(j) ==
  ~clear[j] =>
    /\ \A o \in Offers : offer[o].job # j
    /\ attempts[j] = 0
    /\ NobodySent(j)

PaidInv ==
  /\ \A j \in Jobs : Untouched(j)
  /\ \A j \in Jobs : status[j] = "unbooked" => ~clear[j]
  /\ \A u \in Tasks : PaidTask(u)

LEMMA ClearStays ==
  ASSUME TypeInv, PaidInv, [Next]_vars, NEW k \in Jobs
  PROVE  /\ clear[k] => clear'[k]
         /\ status'[k] = "unbooked" => ~clear'[k]
<1>a. /\ clear \in [Jobs -> BOOLEAN]
      /\ status \in [Jobs -> JobStatus \cup {"unbooked"}]
      /\ status[k] = "unbooked" => ~clear[k]
  BY DEF TypeInv, TypeOK, PaidInv
<1>1. CASE JobsUntouched
  BY <1>1, <1>a DEF JobsUntouched
<1>2. ASSUME NEW j \in Jobs, Booked(j)
      PROVE  /\ clear[k] => clear'[k]
             /\ status'[k] = "unbooked" => ~clear'[k]
  <2>1. CASE k = j
    BY <1>2, <1>a, <2>1 DEF Booked
  <2>2. CASE k # j
    <3>1. clear'[k] = clear[k] /\ status'[k] = status[k]
      BY <1>2, <1>a, <2>2 DEF Booked
    <3> QED BY <1>a, <3>1
  <2> QED BY <2>1, <2>2
<1>3. ASSUME NEW j \in Jobs, NEW from, NEW to, NEW by,
             Transition(j, from, to, by), UNCHANGED clear
      PROVE  /\ clear[k] => clear'[k]
             /\ status'[k] = "unbooked" => ~clear'[k]
  <2>1. to # "unbooked"
    BY <1>3 DEF Transition, JOB_TRANSITIONS
  <2> QED BY <1>3, <1>a, <2>1 DEF Transition
<1> QED BY <1>1, <1>2, <1>3, JobSteps DEF JobStep, Taken, Moved

LEMMA UntouchedStep ==
  ASSUME TypeInv, PaidInv, [Next]_vars, NEW k \in Jobs
  PROVE  Untouched(k)'
<1> SUFFICES ASSUME ~clear'[k]
             PROVE  /\ \A o \in Offers : offer'[o].job # k
                    /\ attempts'[k] = 0
                    /\ NobodySent(k)'
  BY DEF Untouched
<1>a. ~clear[k]
  BY ClearStays
<1>b. /\ \A o \in Offers : offer[o].job # k
      /\ attempts[k] = 0
      /\ NobodySent(k)
  BY <1>a DEF PaidInv, Untouched
<1>c. \A t \in Tasks : task[t].at \in Paid => task[t].job # k
  BY <1>a DEF PaidInv, PaidTask
<1>1. ASSUME NEW o \in Offers
      PROVE  offer'[o].job # k
  BY <1>b, <1>c, OfferSteps DEF Kept, Made, At, Paid
<1>2. attempts'[k] = 0
  BY <1>b, <1>c, AttemptSteps DEF At, Paid
<1>3. NobodySent(k)'
  <2>a. ASSUME status'[k] = status[k], trail'[k] = trail[k]
        PROVE  NobodySent(k)'
    BY <1>b, <2>a DEF NobodySent
  <2>1. CASE JobsUntouched
    BY <2>1, <2>a DEF JobsUntouched
  <2>2. ASSUME NEW j \in Jobs, Booked(j)
        PROVE  NobodySent(k)'
    <3>1. CASE k = j
      <4>1. /\ trail'[k] = <<[status |-> "requested", by |-> Sender]>>
            /\ status'[k] = "requested"
        BY <2>2, <3>1 DEF Booked, TypeInv, TypeOK
      <4>2. Len(trail'[k]) = 1 /\ trail'[k][1].by = Sender
        BY <4>1
      <4> QED BY <4>1, <4>2, ActorsDiffer DEF NobodySent
    <3>2. CASE k # j
      <4>1. trail'[k] = trail[k] /\ status'[k] = status[k]
        BY <2>2, <3>2 DEF Booked, TypeInv, TypeOK
      <4> QED BY <4>1, <2>a
    <3> QED BY <3>1, <3>2
  <2>3. ASSUME NEW t \in Tasks, NEW j \in Jobs, NEW c \in Couriers, Taken(t, j, c)
        PROVE  NobodySent(k)'
    <3>1. k # j
      BY <1>c, <2>3 DEF Taken, At, Paid
    <3>2. trail'[k] = trail[k] /\ status'[k] = status[k]
      BY <2>3, <3>1, TransitionElsewhere DEF Taken
    <3> QED BY <3>2, <2>a
  <2>4. ASSUME NEW j \in Jobs, NEW from \in JobStatus, NEW to \in JobStatus,
               NEW by \in Couriers \cup {Sender, None}, Moved(j, from, to, by)
        PROVE  NobodySent(k)'
    <3>t. Transition(j, from, to, by)
      BY <2>4 DEF Moved
    <3>1. CASE k # j
      BY <3>1, <3>t, <2>a, TransitionElsewhere
    <3>2. CASE k = j
      <4>1. by # None /\ to # "offered"
        BY <1>c, <2>4, <3>2 DEF Moved, Paid
      <4>2. to \notin {"offered", "accepted", "picked_up", "in_transit", "delivered"}
        BY <1>b, <2>4, <3>t, <3>2, <4>1
        DEF Moved, Transition, JOB_TRANSITIONS, NobodySent
      <4> DEFINE n == Len(trail[k])
      <4>3. /\ Len(trail'[k]) = n + 1
            /\ \A i \in 1..n : trail'[k][i] = trail[k][i]
            /\ trail'[k][n + 1] = [status |-> to, by |-> by]
            /\ status'[k] = to
        BY <3>t, <3>2, TrailTransition
      <4>4. n \in Nat
        BY DEF TypeInv, TypeOK
      <4>5. ASSUME NEW i \in 1..(n + 1)
            PROVE  trail'[k][i].by # None
        <5>1. trail'[k][n + 1].by = by
          BY <4>3
        <5>2. CASE i = n + 1
          BY <4>1, <5>1, <5>2
        <5>3. CASE i # n + 1
          <6>1. i \in 1..n
            BY <4>4, <5>3
          <6>2. trail'[k][i] = trail[k][i]
            BY <4>3, <6>1
          <6> QED BY <1>b, <6>1, <6>2 DEF NobodySent
        <5> QED BY <5>2, <5>3
      <4> QED BY <4>2, <4>3, <4>5 DEF NobodySent
    <3> QED BY <3>1, <3>2
  <2> QED BY <2>1, <2>2, <2>3, <2>4, JobSteps DEF JobStep
<1> QED BY <1>1, <1>2, <1>3

\* No courier is ever sent for a job that is not clear to dispatch: every label
\* behind which a statement could do so is behind a payment check of its job, and
\* a job that was clear once stays clear.
THEOREM NobodySentBeforePayment == Spec => []NoDispatchBeforePayment
<1>1. Init => PaidInv
  <2> SUFFICES ASSUME Init PROVE PaidInv
    OBVIOUS
  <2>1. \A j \in Jobs : Untouched(j)
    BY ActorsDiffer DEF Init, Untouched, NobodySent, NoOffer
  <2>2. \A u \in Tasks : PaidTask(u)
    BY DEF Init, PaidTask, Paid, Idle
  <2> QED BY <2>1, <2>2 DEF Init, PaidInv
<1>2. TypeInv /\ PaidInv /\ [Next]_vars => PaidInv'
  <2> SUFFICES ASSUME TypeInv, PaidInv, [Next]_vars PROVE PaidInv'
    OBVIOUS
  <2>1. \A j \in Jobs : Untouched(j)'
    BY UntouchedStep
  <2>2. \A j \in Jobs : status'[j] = "unbooked" => ~clear'[j]
    BY ClearStays
  <2>3. ASSUME NEW u \in Tasks
        PROVE  PaidTask(u)'
    <3>1. StillPaid(u)
      BY PaidStages DEF PaidInv
    <3>2. /\ task'[u].at \in Paid => task'[u].job \in Jobs
          /\ \A listed \in task'[u].todo : listed.job \in Jobs
      BY StepTyped DEF TypeInv, Remembering, TaskState, Paid
    <3> QED BY <3>1, <3>2, ClearStays DEF StillPaid, PaidTask
  <2> QED BY <2>1, <2>2, <2>3 DEF PaidInv
<1>3. PaidInv => NoDispatchBeforePayment
  BY DEF PaidInv, Untouched, NobodySent, NoDispatchBeforePayment
<1> QED BY <1>1, <1>2, <1>3, TypeInvariant, PTL DEF Spec

-----------------------------------------------------------------------------
(* How many waves *)

InWave      == {"dispatchExclude", "dispatchSelect", "dispatchRecord"}
Unrecorded  == InWave \cup {"dispatchRead"}
AtJob       == Unrecorded \cup {"sweepAccepted"}
SweepLabels == {"sweepList", "sweepNext", "sweepAccepted", "sweepReread",
                "sweepCancel", "sweepSupersede"}

\* A booking is about to record the first wave of the job.
Opens(j) == \E h \in Handlers : task[h].at \in Unrecorded /\ task[h].job = j

\* A count the sweep has listed is one wave behind at most, and only once the
\* booking's own wave is recorded.
Listed(j, n) == attempts[j] <= n + 1 /\ (Opens(j) => attempts[j] <= n)

Counted(j) ==
  /\ attempts[j] <= MaxWaves + 1
  /\ Opens(j) => attempts[j] <= MaxWaves
  /\ status[j] = "unbooked" => attempts[j] = 0

\* What a request, a sweep, and either of them remember.
HandlerFits(k) ==
  /\ k.todo = {} /\ k.at \notin SweepLabels
  /\ k.at \in InWave => k.wave <= attempts[k.job] + 1

SweeperFits(k) ==
  /\ \A x, y \in k.todo : x.job = y.job => x = y
  /\ \A x \in k.todo : Listed(x.job, x.attempts)
  /\ k.at \in AtJob => \A x \in k.todo : x.job # k.job
  /\ k.at \in {"sweepAccepted", "dispatchRead"} => Listed(k.job, k.wave)
  /\ k.at = "dispatchRead" => k.wave < MaxWaves
  /\ k.at \in InWave => /\ k.wave <= MaxWaves + 1
                        /\ Opens(k.job) => attempts[k.job] <= k.wave /\ k.wave <= MaxWaves

OfBooked(k) ==
  /\ k.at \in AtJob => status[k.job] # "unbooked"
  /\ \A x \in k.todo : status[x.job] # "unbooked"

WaveInv ==
  /\ \A j \in Jobs : Counted(j)
  /\ \A h \in Handlers : HandlerFits(task[h])
  /\ \A g, h \in Handlers :
       task[g].at \in Unrecorded /\ task[h].at \in Unrecorded /\ task[g].job = task[h].job
         => g = h
  /\ \A s \in Sweepers : SweeperFits(task[s])
  /\ \A t \in Tasks : OfBooked(task[t])

\* One process runs the sweep, one at a time.
OneSweeper == \A s, u \in Sweepers : s = u

\* No wave is recorded, no job is booked, and only t moves.
Unrecording(t) ==
  /\ attempts' = attempts
  /\ \A j \in Jobs : status'[j] = "unbooked" => status[j] = "unbooked"
  /\ \A u \in Tasks \ {t} : task'[u] = task[u]

\* What t remembers after the step fits, and it has begun no first wave.
GoesOn(t) ==
  /\ t \in Handlers =>
       /\ HandlerFits(task'[t])
       /\ task'[t].at \in Unrecorded =>
            task[t].at \in Unrecorded /\ task'[t].job = task[t].job
  /\ t \in Sweepers => SweeperFits(task'[t])
  /\ OfBooked(task'[t])

LEMMA TaskTyped ==
  ASSUME TypeInv, NEW t \in Tasks
  PROVE  /\ task[t] \in TaskState
         /\ task[t].at \in AtJob => task[t].job \in Jobs
         /\ \A x \in task[t].todo : x.job \in Jobs /\ x.attempts \in Nat
         /\ task[t].wave \in Nat /\ attempts \in [Jobs -> Nat]
<1>1. task[t] \in Remembering /\ attempts \in [Jobs -> Nat]
  BY DEF TypeInv, TypeOK
<1>2. task[t] \in TaskState /\ (task[t].at \in AtJob => task[t].job \in Jobs)
  BY <1>1 DEF Remembering, AtJob, Unrecorded, InWave
<1>3. task[t].todo \subseteq [job : Jobs, attempts : Nat] /\ task[t].wave \in Nat
  BY <1>2 DEF TaskState
<1> QED BY <1>1, <1>2, <1>3

LEMMA WaveKeeps ==
  ASSUME TypeInv, TypeInv', WaveInv, NEW t \in Tasks, Unrecording(t), GoesOn(t)
  PROVE  WaveInv'
<1>1. /\ Handlers \subseteq Tasks /\ Sweepers \subseteq Tasks
      /\ \A u \in Tasks \ {t} : task'[u] = task[u]
      /\ attempts' = attempts
      /\ \A j \in Jobs : status'[j] = "unbooked" => status[j] = "unbooked"
  BY DEF Tasks, Unrecording
<1>2. \A h \in Handlers : task'[h].at \in Unrecorded =>
        task[h].at \in Unrecorded /\ task'[h].job = task[h].job
  BY <1>1 DEF GoesOn
<1>3. \A j : Opens(j)' => Opens(j)
  BY <1>2 DEF Opens
<1>4. ASSUME NEW u \in Tasks
      PROVE  /\ task'[u].at \in AtJob => task'[u].job \in Jobs
             /\ \A x \in task'[u].todo : x.job \in Jobs
  <2>1. task'[u] \in Remembering
    BY DEF TypeInv
  <2> QED BY <2>1 DEF Remembering, TaskState, AtJob, Unrecorded, InWave
<1>5. \A j \in Jobs : Counted(j)'
  BY <1>1, <1>3 DEF WaveInv, Counted
<1>6. ASSUME NEW h \in Handlers
      PROVE  HandlerFits(task[h])'
  <2>1. HandlerFits(task'[h])
    BY <1>1 DEF WaveInv, GoesOn
  <2> QED BY <1>1, <2>1 DEF HandlerFits
<1>7. \A g, h \in Handlers :
        task'[g].at \in Unrecorded /\ task'[h].at \in Unrecorded /\ task'[g].job = task'[h].job
          => g = h
  BY <1>2 DEF WaveInv
<1>8. ASSUME NEW s \in Sweepers
      PROVE  SweeperFits(task[s])'
  <2>1. SweeperFits(task'[s])
    BY <1>1 DEF WaveInv, GoesOn
  <2>2. ASSUME NEW j, NEW n, Listed(j, n)
        PROVE  attempts'[j] <= n + 1 /\ (Opens(j)' => attempts'[j] <= n)
    BY <1>1, <1>3, <2>2 DEF Listed
  <2>3. /\ \A x \in task'[s].todo : Listed(x.job, x.attempts)'
        /\ task'[s].at \in {"sweepAccepted", "dispatchRead"} =>
             Listed(task[s].job, task[s].wave)'
    BY <2>1, <2>2 DEF SweeperFits, Listed
  <2>4. task'[s].at \in InWave =>
          (Opens(task[s].job)' => attempts'[task'[s].job] <= task'[s].wave
                                  /\ task'[s].wave <= MaxWaves)
    BY <1>1, <1>3, <2>1 DEF SweeperFits
  <2> QED BY <2>1, <2>3, <2>4 DEF SweeperFits
<1>9. ASSUME NEW u \in Tasks
      PROVE  OfBooked(task[u])'
  <2>1. OfBooked(task'[u])
    BY <1>1 DEF WaveInv, GoesOn
  <2> QED BY <1>1, <1>4, <2>1 DEF OfBooked
<1> QED BY <1>5, <1>6, <1>7, <1>8, <1>9 DEF WaveInv

\* Leaving a wave, with the rest of the list or less.
LEMMA WaveLeaves ==
  ASSUME TypeInv, TypeInv', WaveInv, NEW t \in Tasks, Unrecording(t),
         task'[t].at \notin AtJob, task'[t].todo \subseteq task[t].todo,
         t \in Handlers => task'[t].at \notin SweepLabels
  PROVE  WaveInv'
<1>1. GoesOn(t)
  <2>1. ASSUME t \in Handlers
        PROVE  HandlerFits(task'[t]) /\ task'[t].at \notin Unrecorded
    BY <2>1 DEF WaveInv, HandlerFits, AtJob, Unrecorded
  <2>2. ASSUME t \in Sweepers
        PROVE  SweeperFits(task'[t])
    BY <2>2 DEF WaveInv, SweeperFits, AtJob, Unrecorded
  <2>3. OfBooked(task'[t])
    BY DEF WaveInv, OfBooked
  <2> QED BY <2>1, <2>2, <2>3 DEF GoesOn
<1> QED BY <1>1, WaveKeeps

LEMMA BookedStays ==
  ASSUME TypeInv, [Next]_vars, NEW j \in Jobs, status'[j] = "unbooked"
  PROVE  status[j] = "unbooked"
<1>1. status \in [Jobs -> JobStatus \cup {"unbooked"}]
  BY DEF TypeInv, TypeOK
<1>2. ASSUME NEW k \in Jobs, NEW from, NEW to, NEW by, Transition(k, from, to, by)
      PROVE  status[j] = "unbooked"
  <2>1. to # "unbooked"
    BY <1>2 DEF Transition, JOB_TRANSITIONS
  <2> QED BY <1>1, <1>2, <2>1 DEF Transition
<1> QED BY <1>1, <1>2, JobSteps DEF JobStep, JobsUntouched, Booked, Taken, Moved

\* A wave, up to its record.
LEMMA WaveDispatchStep ==
  ASSUME TypeInv, TypeInv', WaveInv, [Next]_vars, NEW t \in Tasks, DispatchStep(t),
         ~ DispatchRecord(t)
  PROVE  WaveInv'
<1>a. task \in [Tasks -> Remembering] /\ task[t] \in TaskState
  BY DEF TypeInv, Remembering
<1>b. attempts' = attempts
  BY DEF DispatchStep, DispatchRead, DispatchExclude, DispatchSelect, DispatchMove,
         DispatchInsert, jobVars
<1>r. ASSUME Resume(t)
      PROVE  WaveInv'
  <2>1. /\ task'[t].at \in {"idle", "sweepNext"} /\ task'[t].todo \subseteq task[t].todo
        /\ \A u \in Tasks \ {t} : task'[u] = task[u]
    BY <1>a, <1>r, ResumeElsewhere
  <2>2. t \in Handlers => task'[t].at \notin SweepLabels
    BY <1>a, <1>r DEF Resume, Become, WaveInv, HandlerFits, Idle, SweepLabels
  <2>3. Unrecording(t)
    BY <1>b, <2>1, BookedStays DEF Unrecording
  <2>4. task'[t].at \notin AtJob
    BY <2>1 DEF AtJob, Unrecorded, InWave
  <2> QED BY <2>1, <2>2, <2>3, <2>4, WaveLeaves
<1>s. ASSUME NEW k, Become(t, k)
      PROVE  Unrecording(t) /\ task'[t] = k
  BY <1>a, <1>b, <1>s, BecomeElsewhere, BookedStays DEF Unrecording
\* On to the next label of the wave.
<1>w. ASSUME NEW k, Become(t, k), k.at \in InWave, task[t].at \in InWave,
             k.job = task[t].job, k.wave = task[t].wave, k.todo = task[t].todo
      PROVE  WaveInv'
  <2>1. Unrecording(t) /\ task'[t] = k
    BY <1>s, <1>w
  <2>2. HandlerFits(task[t]) => HandlerFits(k)
    BY <1>w DEF HandlerFits, SweepLabels, InWave
  <2>3. SweeperFits(task[t]) => SweeperFits(k)
    BY <1>w DEF SweeperFits, AtJob, Unrecorded, InWave
  <2>4. OfBooked(task[t]) => OfBooked(k)
    BY <1>w DEF OfBooked, AtJob, Unrecorded
  <2>5. GoesOn(t)
    BY <1>w, <2>1, <2>2, <2>3, <2>4 DEF GoesOn, WaveInv, Unrecorded
  <2> QED BY <2>1, <2>5, WaveKeeps
<1>1. CASE DispatchRead(t)
  <2> DEFINE k == [task[t] EXCEPT !.at   = "dispatchExclude",
                                  !.seen = status[task[t].job],
                                  !.wave = attempts[task[t].job] + 1]
  <2>1. /\ k.at = "dispatchExclude" /\ k.job = task[t].job /\ k.todo = task[t].todo
        /\ k.wave = attempts[task[t].job] + 1
    BY <1>a DEF TaskState
  <2>2. At(t, "dispatchRead") /\ (Become(t, k) \/ Resume(t))
    BY <1>1 DEF DispatchRead
  <2> HIDE DEF k
  <2>3. ASSUME Become(t, k)
        PROVE  WaveInv'
    <3>1. Unrecording(t) /\ task'[t] = k
      BY <1>s, <2>3
    <3>2. task[t].job \in Jobs /\ attempts[task[t].job] \in Nat /\ task[t].wave \in Nat
      BY <2>2, TaskTyped DEF At, AtJob, Unrecorded
    <3>3. HandlerFits(task[t]) => HandlerFits(k)
      BY <2>1, <3>2 DEF HandlerFits, SweepLabels
    <3>4. SweeperFits(task[t]) => SweeperFits(k)
      <4> SUFFICES ASSUME SweeperFits(task[t])
                   PROVE  SweeperFits(k)
        OBVIOUS
      <4>1. Listed(task[t].job, task[t].wave) /\ task[t].wave < MaxWaves
        BY <2>2 DEF SweeperFits, At
      <4>2. /\ k.wave <= MaxWaves + 1
            /\ Opens(k.job) => attempts[k.job] <= k.wave /\ k.wave <= MaxWaves
        BY <2>1, <3>2, <4>1, LimitsAreCounts DEF Listed
      <4>3. k.at \notin {"sweepAccepted", "dispatchRead"}
        BY <2>1
      <4>4. \A x \in k.todo : x.job # k.job
        BY <2>1, <2>2 DEF SweeperFits, At, AtJob, Unrecorded
      <4> QED BY <2>1, <4>2, <4>3, <4>4 DEF SweeperFits
    <3>5. OfBooked(task[t]) => OfBooked(k)
      BY <2>1, <2>2 DEF OfBooked, At, AtJob, Unrecorded
    <3>6. GoesOn(t)
      BY <2>1, <2>2, <3>1, <3>3, <3>4, <3>5 DEF GoesOn, WaveInv, Unrecorded, At
    <3> QED BY <3>1, <3>6, WaveKeeps
  <2> QED BY <1>r, <2>2, <2>3
<1>2. CASE DispatchExclude(t)
  <2> DEFINE k == [task[t] EXCEPT
                    !.at       = "dispatchSelect",
                    !.excluded = {offer[o].courier :
                                    o \in OffersInStatus(task[t].job, "offered")}]
  <2>1. /\ k.at = "dispatchSelect" /\ k.job = task[t].job /\ k.todo = task[t].todo
        /\ k.wave = task[t].wave
    BY <1>a DEF TaskState
  <2>2. Become(t, k) /\ task[t].at = "dispatchExclude"
    BY <1>2 DEF DispatchExclude, At
  <2> HIDE DEF k
  <2> QED BY <1>w, <2>1, <2>2 DEF InWave
<1>3. CASE DispatchSelect(t)
  <2>1. PICK nearby : Become(t, [task[t] EXCEPT !.at = "dispatchRecord", !.candidates = nearby])
    BY <1>3 DEF DispatchSelect
  <2> DEFINE k == [task[t] EXCEPT !.at = "dispatchRecord", !.candidates = nearby]
  <2>2. /\ k.at = "dispatchRecord" /\ k.job = task[t].job /\ k.todo = task[t].todo
        /\ k.wave = task[t].wave
    BY <1>a DEF TaskState
  <2>3. Become(t, k) /\ task[t].at = "dispatchSelect"
    BY <1>3, <2>1 DEF DispatchSelect, At
  <2> HIDE DEF k
  <2> QED BY <1>w, <2>2, <2>3 DEF InWave
<1>4. ASSUME NEW k, Become(t, k), k.at = "dispatchInsert", k.todo = task[t].todo
      PROVE  WaveInv'
  BY <1>s, <1>4, WaveLeaves DEF AtJob, Unrecorded, InWave, SweepLabels
<1>5. CASE DispatchMove(t)
  <2> DEFINE k == [task[t] EXCEPT !.at = "dispatchInsert"]
  <2>1. k.at = "dispatchInsert" /\ k.todo = task[t].todo
    BY <1>a DEF TaskState
  <2>2. Become(t, k) \/ Resume(t)
    BY <1>5 DEF DispatchMove, Goto
  <2> HIDE DEF k
  <2> QED BY <1>r, <1>4, <2>1, <2>2
<1>6. CASE DispatchInsert(t)
  <2>1. PICK c : \/ Resume(t)
                 \/ Become(t, [task[t] EXCEPT !.candidates = task[t].candidates \ {c}])
    BY <1>6 DEF DispatchInsert
  <2> DEFINE k == [task[t] EXCEPT !.candidates = task[t].candidates \ {c}]
  <2>2. k.at = "dispatchInsert" /\ k.todo = task[t].todo
    BY <1>a, <1>6 DEF TaskState, DispatchInsert, At
  <2>3. Resume(t) \/ Become(t, k)
    BY <2>1
  <2> HIDE DEF k
  <2> QED BY <1>r, <1>4, <2>2, <2>3
<1> QED BY <1>1, <1>2, <1>3, <1>5, <1>6 DEF DispatchStep

\* A step that leaves for a label outside the waves.
LEMMA WaveOutside ==
  ASSUME TypeInv, TypeInv', WaveInv, [Next]_vars, NEW t \in Tasks, attempts' = attempts,
         NEW k, Become(t, k), k.at \notin AtJob, k.todo \subseteq task[t].todo,
         k.at \in SweepLabels => t \in Sweepers
  PROVE  WaveInv'
<1>1. task \in [Tasks -> Remembering]
  BY DEF TypeInv
<1>2. Unrecording(t) /\ task'[t] = k
  BY <1>1, BecomeElsewhere, BookedStays DEF Unrecording
<1> QED BY <1>2, WaveLeaves, ProcessesDiffer

LEMMA WaveResume ==
  ASSUME TypeInv, TypeInv', WaveInv, [Next]_vars, NEW t \in Tasks, attempts' = attempts,
         Resume(t)
  PROVE  WaveInv'
<1> DEFINE rest == [Idle EXCEPT !.at = "sweepNext", !.todo = task[t].todo]
<1>1. rest.at = "sweepNext" /\ rest.todo = task[t].todo /\ Idle.at = "idle" /\ Idle.todo = {}
  BY DEF Idle
<1>2. Become(t, Idle) \/ (Become(t, rest) /\ task[t].todo # {})
  BY DEF Resume
<1> HIDE DEF rest
<1>3. task[t].todo # {} => t \in Sweepers
  BY DEF WaveInv, HandlerFits, Tasks
<1>4. "idle" \notin AtJob \cup SweepLabels /\ "sweepNext" \notin AtJob
  BY DEF AtJob, Unrecorded, InWave, SweepLabels
<1> QED BY <1>1, <1>2, <1>3, <1>4, WaveOutside

LEMMA WaveGoto ==
  ASSUME TypeInv, TypeInv', WaveInv, [Next]_vars, NEW t \in Tasks, attempts' = attempts,
         NEW label, Goto(t, label), label \notin AtJob, label \in SweepLabels => t \in Sweepers
  PROVE  WaveInv'
<1> DEFINE k == [task[t] EXCEPT !.at = label]
<1>1. k.at = label /\ k.todo = task[t].todo
  BY TaskTyped DEF TaskState
<1>2. Become(t, k)
  BY DEF Goto
<1> HIDE DEF k
<1> QED BY <1>1, <1>2, WaveOutside

\* The sweep takes its list, takes a job of it, and decides to go for a wave.
LEMMA WaveSweepStep ==
  ASSUME TypeInv, TypeInv', WaveInv, [Next]_vars, NEW t \in Tasks, SweepStep(t)
  PROVE  WaveInv'
<1>a. task \in [Tasks -> Remembering] /\ task[t] \in TaskState /\ attempts \in [Jobs -> Nat]
  BY DEF TypeInv, TypeOK, Remembering
<1>b. attempts' = attempts
  BY DEF SweepStep, SweepList, SweepNext, SweepAccepted, SweepReread, SweepCancel,
         SweepSupersede, jobVars
<1>c. t \in Sweepers /\ t \notin Handlers /\ task[t].at \in SweepLabels
  <2>1. task[t].at \in SweepLabels
    BY DEF SweepStep, SweepList, SweepNext, SweepAccepted, SweepReread, SweepCancel,
           SweepSupersede, At, SweepLabels
  <2> QED BY <2>1, ProcessesDiffer DEF WaveInv, HandlerFits, Tasks
<1>d. SweeperFits(task[t]) /\ OfBooked(task[t])
  BY <1>c DEF WaveInv
<1>s. ASSUME NEW k, Become(t, k), SweeperFits(k), OfBooked(k)
      PROVE  WaveInv'
  <2>1. Unrecording(t) /\ task'[t] = k
    BY <1>a, <1>b, <1>s, BecomeElsewhere, BookedStays DEF Unrecording
  <2>2. GoesOn(t)
    BY <1>c, <1>s, <2>1 DEF GoesOn
  <2> QED BY <2>1, <2>2, WaveKeeps
<1>i. Idle.at = "idle" /\ Idle.todo = {}
  BY DEF Idle
<1>j. ASSUME Become(t, Idle)
      PROVE  WaveInv'
  BY <1>b, <1>i, <1>j, WaveOutside DEF AtJob, Unrecorded, InWave, SweepLabels
<1>1. CASE SweepList(t)
  <2> DEFINE awaiting == {j \in Jobs : status[j] \in AwaitingCourier /\ clear[j]}
             todo == {[job |-> j, attempts |-> attempts[j]] : j \in awaiting}
             k == [Idle EXCEPT !.at = "sweepNext", !.todo = todo]
  <2>1. k.at = "sweepNext" /\ k.todo = todo
    BY DEF Idle
  <2>2. Become(t, Idle) \/ Become(t, k)
    BY <1>1 DEF SweepList
  <2>3. \A x \in todo : /\ x.job \in Jobs /\ x.attempts = attempts[x.job]
                        /\ status[x.job] # "unbooked"
    BY DEF AwaitingCourier
  <2>4. \A x, y \in todo : x.job = y.job => x = y
    OBVIOUS
  <2> HIDE DEF k, todo
  <2>5. SweeperFits(k) /\ OfBooked(k)
    <3>1. \A x \in todo : Listed(x.job, x.attempts)
      BY <1>a, <2>3 DEF Listed
    <3>2. k.at \notin AtJob
      BY <2>1 DEF AtJob, Unrecorded, InWave
    <3> QED BY <2>1, <2>3, <2>4, <3>1, <3>2 DEF SweeperFits, OfBooked, AtJob, Unrecorded
  <2> QED BY <1>s, <1>j, <2>2, <2>5
<1>2. CASE SweepNext(t)
  <2>1. PICK listed \in task[t].todo :
          LET rest == task[t].todo \ {listed}
              live == OffersInStatus(listed.job, "offered") # {}
          IN Become(t, IF live /\ rest = {}
                       THEN Idle
                       ELSE [Idle EXCEPT
                               !.at   = IF live THEN "sweepNext" ELSE "sweepAccepted",
                               !.job  = IF live THEN None ELSE listed.job,
                               !.wave = IF live THEN 0 ELSE listed.attempts,
                               !.todo = rest])
    BY <1>2 DEF SweepNext
  <2> DEFINE rest == task[t].todo \ {listed}
             skip == [Idle EXCEPT !.at = "sweepNext", !.job = None, !.wave = 0, !.todo = rest]
             take == [Idle EXCEPT !.at = "sweepAccepted", !.job = listed.job,
                                  !.wave = listed.attempts, !.todo = rest]
  <2>2. Become(t, Idle) \/ Become(t, skip) \/ Become(t, take)
    BY <2>1
  <2>3. /\ skip.at = "sweepNext" /\ skip.todo = rest
        /\ take.at = "sweepAccepted" /\ take.job = listed.job
        /\ take.wave = listed.attempts /\ take.todo = rest
    BY DEF Idle
  <2>4. rest \subseteq task[t].todo /\ listed \notin rest
    OBVIOUS
  <2> HIDE DEF rest, skip, take
  <2>5. CASE Become(t, skip)
    BY <1>b, <1>c, <2>3, <2>4, <2>5, WaveOutside DEF AtJob, Unrecorded, InWave
  <2>6. CASE Become(t, take)
    <3>1. SweeperFits(take)
      <4>1. \A x \in rest : x.job # take.job
        BY <1>d, <2>3, <2>4 DEF SweeperFits
      <4>2. Listed(take.job, take.wave)
        BY <1>d, <2>3 DEF SweeperFits
      <4>3. take.at \notin InWave /\ take.at # "dispatchRead"
        BY <2>3 DEF InWave
      <4>4. /\ \A x, y \in rest : x.job = y.job => x = y
            /\ \A x \in rest : Listed(x.job, x.attempts)
        BY <1>d, <2>4 DEF SweeperFits
      <4> QED BY <2>3, <4>1, <4>2, <4>3, <4>4 DEF SweeperFits
    <3>2. OfBooked(take)
      BY <1>d, <2>3, <2>4 DEF OfBooked
    <3> QED BY <1>s, <2>6, <3>1, <3>2
  <2> QED BY <1>j, <2>2, <2>5, <2>6
<1>3. CASE SweepAccepted(t)
  <2>1. CASE Goto(t, "dispatchRead") /\ ~ (task[t].wave >= MaxWaves)
    <3> DEFINE k == [task[t] EXCEPT !.at = "dispatchRead"]
    <3>1. /\ k.at = "dispatchRead" /\ k.job = task[t].job /\ k.todo = task[t].todo
          /\ k.wave = task[t].wave
      BY <1>a DEF TaskState
    <3>2. Become(t, k) /\ task[t].at = "sweepAccepted"
      BY <1>3, <2>1 DEF Goto, SweepAccepted, At
    <3> HIDE DEF k
    <3>3. k.wave < MaxWaves
      BY <2>1, <3>1, TaskTyped, LimitsAreCounts
    <3>4. SweeperFits(k)
      BY <1>d, <3>1, <3>2, <3>3 DEF SweeperFits, AtJob, Unrecorded, InWave
    <3>5. OfBooked(k)
      BY <1>d, <3>1, <3>2 DEF OfBooked, AtJob, Unrecorded
    <3> QED BY <1>s, <3>2, <3>4, <3>5
  <2>2. CASE Resume(t)
    BY <1>b, <2>2, WaveResume
  <2>3. CASE Goto(t, "sweepReread")
    BY <1>b, <1>c, <2>3, WaveGoto DEF AtJob, Unrecorded, InWave
  <2> QED BY <1>3, <2>1, <2>2, <2>3 DEF SweepAccepted
<1>4. CASE SweepReread(t)
  <2> DEFINE k == [task[t] EXCEPT !.at = "sweepCancel", !.seen = status[task[t].job]]
  <2>1. k.at = "sweepCancel" /\ k.todo = task[t].todo
    BY <1>a DEF TaskState
  <2>2. Resume(t) \/ Become(t, k)
    BY <1>4 DEF SweepReread
  <2> HIDE DEF k
  <2>3. CASE Become(t, k)
    BY <1>b, <1>c, <2>1, <2>3, WaveOutside DEF AtJob, Unrecorded, InWave
  <2> QED BY <1>b, <2>2, <2>3, WaveResume
<1>5. CASE SweepCancel(t)
  <2>1. Resume(t) \/ Goto(t, "sweepSupersede")
    BY <1>5 DEF SweepCancel
  <2>2. CASE Goto(t, "sweepSupersede")
    BY <1>b, <1>c, <2>2, WaveGoto DEF AtJob, Unrecorded, InWave
  <2> QED BY <1>b, <2>1, <2>2, WaveResume
<1>6. CASE SweepSupersede(t)
  <2>1. Resume(t)
    BY <1>6 DEF SweepSupersede
  <2> QED BY <1>b, <2>1, WaveResume
<1> QED BY <1>1, <1>2, <1>3, <1>4, <1>5, <1>6 DEF SweepStep

\* Accepts, cancellations and deaths have nothing to do with waves.
LEMMA WaveOtherStep ==
  ASSUME TypeInv, TypeInv', WaveInv, [Next]_vars, NEW t \in Tasks,
         \/ AcceptStep(t) \/ CancelSupersede(t) \/ Mirror(t) \/ Crash(t)
         \/ t \in Handlers /\ \E o \in Offers : AcceptFind(t, o)
         \/ t \in Handlers /\ \E j \in Jobs, leg \in CourierLegs : Advance(t, j, leg)
         \/ t \in Handlers /\ \E j \in Jobs, party \in Couriers \cup {Sender} : Cancel(t, j, party)
         \/ t \in Sweepers /\ SweepExpire(t)
  PROVE  WaveInv'
<1>a. attempts' = attempts
  BY DEF AcceptStep, AcceptWin, AcceptLose, AcceptLost, AcceptMark, AcceptSupersede,
         AcceptBusy, AcceptCount, AcceptRate, CancelSupersede, Mirror, Crash, AcceptFind,
         Advance, Cancel, SweepExpire, jobVars
<1>b. task[t] \in TaskState
  BY TaskTyped
<1>o. \A label \in {"idle", "acceptCas", "acceptLost", "acceptMark", "acceptSupersede",
                    "acceptBusy", "acceptCount", "acceptRate", "cancelSupersede", "mirror"} :
        label \notin AtJob /\ label \notin SweepLabels
  BY DEF AtJob, Unrecorded, InWave, SweepLabels
<1>s. ASSUME NEW k, Become(t, k),
             k.at \in {"idle", "acceptCas", "acceptLost", "acceptMark", "acceptSupersede",
                       "acceptBusy", "acceptCount", "acceptRate", "cancelSupersede",
                       "mirror"},
             k.todo \subseteq task[t].todo
      PROVE  WaveInv'
  BY <1>a, <1>o, <1>s, WaveOutside
<1>g. ASSUME NEW label \in {"acceptLost", "acceptMark", "acceptSupersede", "acceptBusy",
                            "acceptCount", "mirror"}, Goto(t, label)
      PROVE  WaveInv'
  BY <1>a, <1>o, <1>g, WaveGoto
<1>i. Idle.at = "idle" /\ Idle.todo = {}
  BY DEF Idle
<1>j. ASSUME Become(t, Idle)
      PROVE  WaveInv'
  BY <1>i, <1>j, <1>s
<1>1. CASE AcceptStep(t) /\ ~ AcceptRate(t) /\ ~ AcceptCount(t)
  <2>1. \/ Goto(t, "acceptMark") \/ Goto(t, "acceptLost") \/ Goto(t, "acceptSupersede")
        \/ Goto(t, "acceptBusy") \/ Goto(t, "acceptCount") \/ Become(t, Idle)
    BY <1>1 DEF AcceptStep, AcceptWin, AcceptLose, AcceptLost, AcceptMark, AcceptSupersede,
                AcceptBusy
  <2> QED BY <1>g, <1>j, <2>1
<1>2. CASE AcceptCount(t) \/ AcceptRate(t)
  <2> DEFINE counts == Outcomes(task[t].courier, {o \in Offers : Visible(o)})
             counted == [task[t] EXCEPT !.at = "acceptRate", !.counts = counts]
             k == [task[t] EXCEPT !.at = "mirror", !.seen = "accepted"]
             done == [task[t] EXCEPT !.at = "mirror", !.seen = "accepted",
                                     !.counts = NoCounts]
  <2>1. /\ counted.at = "acceptRate" /\ counted.todo = task[t].todo
        /\ k.at = "mirror" /\ k.todo = task[t].todo
        /\ done.at = "mirror" /\ done.todo = task[t].todo
    BY <1>b DEF TaskState
  <2>2. Become(t, counted) \/ Become(t, k) \/ Become(t, done)
    BY <1>2 DEF AcceptCount, AcceptRate
  <2> HIDE DEF counts, counted, k, done
  <2> QED BY <1>s, <2>1, <2>2
<1>3. CASE CancelSupersede(t) \/ Mirror(t) \/ Crash(t)
  <2>1. Goto(t, "mirror") \/ Become(t, Idle)
    BY <1>3 DEF CancelSupersede, Mirror, Crash
  <2> QED BY <1>g, <1>j, <2>1
<1>4. CASE \E o \in Offers : AcceptFind(t, o)
  <2>1. PICK o \in Offers : AcceptFind(t, o)
    BY <1>4
  <2> DEFINE k == [Idle EXCEPT !.at = "acceptCas", !.job = offer[o].job,
                               !.courier = offer[o].courier, !.offer = o]
  <2>2. k.at = "acceptCas" /\ k.todo = {}
    BY DEF Idle
  <2>3. Become(t, k)
    BY <2>1 DEF AcceptFind
  <2> HIDE DEF k
  <2> QED BY <1>s, <2>2, <2>3
<1>5. CASE \E j \in Jobs, leg \in CourierLegs : Advance(t, j, leg)
  <2>1. PICK j \in Jobs, leg \in CourierLegs : Advance(t, j, leg)
    BY <1>5
  <2> DEFINE k == [Idle EXCEPT !.at = "mirror", !.job = j, !.seen = leg[2]]
  <2>2. k.at = "mirror" /\ k.todo = {}
    BY DEF Idle
  <2>3. Become(t, k)
    BY <2>1 DEF Advance
  <2> HIDE DEF k
  <2> QED BY <1>s, <2>2, <2>3
<1>6. CASE \E j \in Jobs, party \in Couriers \cup {Sender} : Cancel(t, j, party)
  <2>1. PICK j \in Jobs, party \in Couriers \cup {Sender} : Cancel(t, j, party)
    BY <1>6
  <2> DEFINE k == [Idle EXCEPT !.at = "cancelSupersede", !.job = j, !.seen = "cancelled"]
  <2>2. k.at = "cancelSupersede" /\ k.todo = {}
    BY DEF Idle
  <2>3. Become(t, k)
    BY <2>1 DEF Cancel
  <2> HIDE DEF k
  <2> QED BY <1>s, <2>2, <2>3
<1>7. CASE t \in Sweepers /\ SweepExpire(t)
  <2>1. Goto(t, "sweepList")
    BY <1>7 DEF SweepExpire
  <2> QED BY <1>7, <1>a, <2>1, WaveGoto DEF AtJob, Unrecorded, InWave
<1> QED BY <1>1, <1>2, <1>3, <1>4, <1>5, <1>6, <1>7

\* A booking begins the first wave of its job; nobody knew of the job before.
LEMMA WaveBook ==
  ASSUME TypeInv, TypeInv', WaveInv, NEW t \in Handlers, NEW j \in Jobs, Book(t, j)
  PROVE  WaveInv'
<1> DEFINE k == [Idle EXCEPT !.at = "dispatchRead", !.job = j]
<1>1. k.at = "dispatchRead" /\ k.job = j /\ k.todo = {}
  BY DEF Idle
<1>2. Become(t, k)
  BY DEF Book
<1> HIDE DEF k
<1>3. /\ t \in Tasks /\ t \notin Sweepers /\ Handlers \subseteq Tasks /\ Sweepers \subseteq Tasks
      /\ task'[t] = k /\ \A u \in Tasks \ {t} : task'[u] = task[u]
  BY <1>2, ProcessesDiffer, BecomeElsewhere DEF Tasks, TypeInv
<1>4. /\ status \in [Jobs -> JobStatus \cup {"unbooked"}] /\ attempts \in [Jobs -> Nat]
      /\ status[j] = "unbooked" /\ status' = [status EXCEPT ![j] = "requested"]
      /\ attempts' = attempts /\ attempts[j] = 0
  BY DEF TypeInv, TypeOK, Book, WaveInv, Counted
<1>5. \A i \in Jobs : i # j /\ Opens(i)' => Opens(i)
  BY <1>1, <1>3 DEF Opens
<1>6. \A u \in Tasks : /\ task[u].at \in AtJob => task[u].job \in Jobs \ {j}
                       /\ \A x \in task[u].todo : x.job \in Jobs \ {j}
  BY <1>4, TaskTyped DEF WaveInv, OfBooked
<1>7. ASSUME NEW i \in Jobs
      PROVE  Counted(i)'
  <2>1. Counted(i)
    BY DEF WaveInv
  <2>2. CASE i = j
    BY <1>4, <2>2, LimitsAreCounts DEF Counted
  <2>3. CASE i # j
    BY <1>4, <1>5, <2>1, <2>3 DEF Counted
  <2> QED BY <2>2, <2>3
<1>8. ASSUME NEW h \in Handlers
      PROVE  HandlerFits(task[h])'
  <2>1. CASE h = t
    BY <1>1, <1>3, <2>1 DEF HandlerFits, SweepLabels, InWave
  <2>2. CASE h # t
    BY <1>3, <1>4, <2>2 DEF WaveInv, HandlerFits
  <2> QED BY <2>1, <2>2
<1>9. \A g, h \in Handlers :
        task'[g].at \in Unrecorded /\ task'[h].at \in Unrecorded /\ task'[g].job = task'[h].job
          => g = h
  BY <1>1, <1>3, <1>6 DEF WaveInv, AtJob
<1>10. ASSUME NEW s \in Sweepers
       PROVE  SweeperFits(task[s])'
  <2>1. SweeperFits(task[s]) /\ task'[s] = task[s] /\ s \in Tasks
    BY <1>3 DEF WaveInv
  <2>2. ASSUME NEW i \in Jobs \ {j}, NEW n, Listed(i, n)
        PROVE  attempts'[i] <= n + 1 /\ (Opens(i)' => attempts'[i] <= n)
    BY <1>4, <1>5, <2>2 DEF Listed
  <2>3. /\ \A x \in task'[s].todo : Listed(x.job, x.attempts)'
        /\ task'[s].at \in {"sweepAccepted", "dispatchRead"} =>
             Listed(task[s].job, task[s].wave)'
    BY <1>6, <2>1, <2>2 DEF SweeperFits, Listed, AtJob, Unrecorded
  <2>4. task'[s].at \in InWave =>
          (Opens(task[s].job)' => attempts'[task'[s].job] <= task'[s].wave
                                  /\ task'[s].wave <= MaxWaves)
    <3> SUFFICES ASSUME task[s].at \in InWave
                 PROVE  Opens(task[s].job)' => attempts[task[s].job] <= task[s].wave
                                               /\ task[s].wave <= MaxWaves
      BY <1>4, <2>1
    <3>1. PICK i : i = task[s].job
      OBVIOUS
    <3>2. i \in Jobs \ {j} /\ (Opens(i) => attempts[i] <= task[s].wave /\ task[s].wave <= MaxWaves)
      BY <1>6, <2>1, <3>1 DEF SweeperFits, AtJob, Unrecorded
    <3>3. Opens(i)' => Opens(i)
      BY <1>5, <3>2
    <3>4. task'[s].job = i
      BY <2>1, <3>1
    <3> QED BY <3>1, <3>2, <3>3, <3>4
  <2> QED BY <2>1, <2>3, <2>4 DEF SweeperFits
<1>11. ASSUME NEW u \in Tasks
       PROVE  OfBooked(task[u])'
  <2>1. CASE u = t
    BY <1>1, <1>3, <1>4, <2>1 DEF OfBooked
  <2>2. CASE u # t
    BY <1>3, <1>4, <1>6, <2>2 DEF WaveInv, OfBooked
  <2> QED BY <2>1, <2>2
<1> QED BY <1>7, <1>8, <1>9, <1>10, <1>11 DEF WaveInv

\* A recorded wave is one more than was read: of the sweep's waves no more than
\* the limit before the booking's own is recorded, and one more after it.
LEMMA WaveRecord ==
  ASSUME TypeInv, TypeInv', WaveInv, OneSweeper, [Next]_vars, NEW t \in Tasks, DispatchRecord(t)
  PROVE  WaveInv'
<1>0. PICK j, w : j = task[t].job /\ w = task[t].wave
  OBVIOUS
<1>1. /\ task \in [Tasks -> Remembering] /\ attempts \in [Jobs -> Nat]
      /\ task[t].at = "dispatchRecord" /\ j \in Jobs /\ w \in Nat
      /\ attempts' = [attempts EXCEPT ![j] = w]
      /\ Handlers \subseteq Tasks /\ Sweepers \subseteq Tasks /\ status[j] # "unbooked"
  <2>1. task[t].at = "dispatchRecord" /\ attempts' = [attempts EXCEPT ![j] = w]
    BY <1>0 DEF DispatchRecord, At
  <2> QED
    BY <1>0, <2>1, TaskTyped
    DEF TypeInv, TypeOK, Tasks, WaveInv, OfBooked, AtJob, Unrecorded, InWave
<1>2. /\ task'[t].at \notin AtJob /\ task'[t].todo \subseteq task[t].todo
      /\ t \in Handlers => task'[t].at \notin SweepLabels
      /\ \A u \in Tasks \ {t} : task'[u] = task[u]
  <2>1. CASE Resume(t)
    <3>1. t \in Handlers => task[t].todo = {}
      BY DEF WaveInv, HandlerFits
    <3>2. t \in Handlers => task'[t].at = "idle"
      BY <1>1, <2>1, <3>1 DEF Resume, Become, Idle
    <3> QED BY <1>1, <2>1, <3>2, ResumeElsewhere DEF AtJob, Unrecorded, InWave, SweepLabels
  <2>2. CASE \E label \in {"dispatchMove", "dispatchInsert"} : Goto(t, label)
    BY <1>1, <2>2, GotoElsewhere DEF AtJob, Unrecorded, InWave, SweepLabels
  <2>3. Resume(t) \/ Goto(t, "dispatchMove") \/ Goto(t, "dispatchInsert")
    BY DEF DispatchRecord
  <2> QED BY <2>1, <2>2, <2>3
<1>3. /\ attempts'[j] = w /\ \A i \in Jobs \ {j} : attempts'[i] = attempts[i]
      /\ \A u \in Tasks : task[u].at \in AtJob => task[u].job \in Jobs
      /\ \A u \in Tasks : \A x \in task[u].todo : x.job \in Jobs /\ x.attempts \in Nat
      /\ \A u \in Tasks : task[u].wave \in Nat
  BY <1>1, TaskTyped
<1>4. \A i : Opens(i)' => Opens(i)
  BY <1>1, <1>2 DEF Opens, AtJob
<1>5. t \in Handlers => ~ Opens(j)' /\ Opens(j) /\ w <= attempts[j] + 1
  <2>1. t \in Handlers => w <= attempts[j] + 1
    BY <1>0, <1>1 DEF WaveInv, HandlerFits, InWave
  <2>2. t \in Handlers => Opens(j)
    BY <1>0, <1>1 DEF Opens, Unrecorded, InWave
  <2>3. ASSUME t \in Handlers, NEW h \in Handlers, task'[h].at \in Unrecorded, task'[h].job = j
        PROVE  FALSE
    <3>1. h # t
      BY <1>2, <2>3 DEF AtJob
    <3>2. task[h].at \in Unrecorded /\ task[h].job = j
      BY <1>1, <1>2, <2>3, <3>1
    <3>3. task[t].at \in Unrecorded /\ task[t].job = j
      BY <1>0, <1>1 DEF Unrecorded, InWave
    <3> QED BY <2>3, <3>1, <3>2, <3>3 DEF WaveInv
  <2> QED BY <2>1, <2>2, <2>3 DEF Opens
<1>6. t \in Sweepers => /\ w <= MaxWaves + 1
                        /\ Opens(j) => attempts[j] <= w /\ w <= MaxWaves
  BY <1>0, <1>1 DEF WaveInv, SweeperFits, InWave
<1>7. ASSUME NEW i \in Jobs
      PROVE  Counted(i)'
  <2>1. Counted(i)
    BY DEF WaveInv
  <2>2. CASE i # j
    <3>1. attempts'[i] = attempts[i] /\ (Opens(i)' => Opens(i))
      BY <1>3, <1>4, <2>2
    <3>2. status'[i] = "unbooked" => status[i] = "unbooked"
      BY BookedStays
    <3> QED BY <2>1, <3>1, <3>2 DEF Counted
  <2>3. CASE i = j
    <3>1. status'[j] # "unbooked"
      BY <1>1, BookedStays
    <3>2. attempts[j] \in Nat /\ MaxWaves \in Nat
      BY <1>1, LimitsAreCounts
    <3>3. CASE t \in Handlers
      <4>1. w <= MaxWaves + 1
        BY <1>1, <1>5, <2>1, <2>3, <3>2, <3>3 DEF Counted
      <4> QED BY <1>3, <1>5, <2>3, <3>1, <3>3, <4>1 DEF Counted
    <3>4. CASE t \in Sweepers
      <4>1. w <= MaxWaves + 1 /\ (Opens(j)' => w <= MaxWaves)
        BY <1>4, <1>6, <3>4
      <4> QED BY <1>3, <2>3, <3>1, <4>1 DEF Counted
    <3> QED BY <3>3, <3>4 DEF Tasks
  <2> QED BY <2>2, <2>3
<1>8. ASSUME NEW h \in Handlers
      PROVE  HandlerFits(task[h])'
  <2>1. CASE h = t
    BY <1>2, <2>1 DEF WaveInv, HandlerFits, AtJob, Unrecorded
  <2>2. CASE h # t
    <3>1. HandlerFits(task[h]) /\ task'[h] = task[h]
      BY <1>1, <1>2, <2>2 DEF WaveInv
    <3>2. ASSUME task[h].at \in InWave
          PROVE  task[h].wave <= attempts'[task[h].job] + 1
      <4>1. task[h].wave <= attempts[task[h].job] + 1
        BY <3>1, <3>2 DEF HandlerFits
      <4>2. CASE task[h].job # j
        BY <1>1, <1>3, <3>2, <4>1, <4>2 DEF AtJob, Unrecorded
      <4>3. CASE task[h].job = j
        <5>1. t \notin Handlers
          BY <1>0, <1>1, <2>2, <3>2, <4>3 DEF WaveInv, Unrecorded, InWave
        <5>2. t \in Sweepers /\ Opens(j)
          BY <3>2, <4>3, <5>1 DEF Tasks, Opens, Unrecorded
        <5>3. attempts[j] <= w /\ task[h].wave \in Nat /\ attempts[j] \in Nat
          BY <1>1, <1>3, <1>6, <5>2
        <5> QED BY <1>1, <1>3, <4>1, <4>3, <5>3
      <4> QED BY <4>2, <4>3
    <3> QED BY <3>1, <3>2 DEF HandlerFits
  <2> QED BY <2>1, <2>2
<1>9. \A g, h \in Handlers :
        task'[g].at \in Unrecorded /\ task'[h].at \in Unrecorded /\ task'[g].job = task'[h].job
          => g = h
  BY <1>1, <1>2 DEF WaveInv, AtJob
<1>10. ASSUME NEW s \in Sweepers
       PROVE  SweeperFits(task[s])'
  <2>1. SweeperFits(task[s])
    BY DEF WaveInv
  <2>2. ASSUME NEW i \in Jobs, NEW n \in Nat, Listed(i, n), i # j \/ t \in Handlers
        PROVE  attempts'[i] <= n + 1 /\ (Opens(i)' => attempts'[i] <= n)
    <3>1. CASE i # j
      BY <1>3, <1>4, <2>2, <3>1 DEF Listed
    <3>2. CASE i = j
      BY <1>1, <1>3, <1>5, <2>2, <3>2 DEF Listed
    <3> QED BY <3>1, <3>2
  <2>3. CASE s = t
    <3>1. \A x \in task[s].todo : x.job # j
      BY <1>0, <1>1, <2>1, <2>3 DEF SweeperFits, AtJob, Unrecorded, InWave
    <3>2. \A x \in task'[s].todo : Listed(x.job, x.attempts)'
      BY <1>1, <1>2, <1>3, <2>1, <2>2, <2>3, <3>1 DEF SweeperFits, Listed
    <3> QED BY <1>2, <2>1, <2>3, <3>2 DEF SweeperFits, AtJob, Unrecorded
  <2>4. CASE s # t
    <3>1. t \in Handlers /\ task'[s] = task[s]
      BY <1>1, <1>2, <2>4 DEF OneSweeper, Tasks
    <3>2. /\ \A x \in task'[s].todo : Listed(x.job, x.attempts)'
          /\ task'[s].at \in {"sweepAccepted", "dispatchRead"} =>
               Listed(task[s].job, task[s].wave)'
      BY <1>1, <1>3, <2>1, <2>2, <3>1 DEF SweeperFits, Listed, AtJob, Unrecorded
    <3>3. task'[s].at \in InWave =>
            (Opens(task[s].job)' => attempts'[task'[s].job] <= task'[s].wave
                                    /\ task'[s].wave <= MaxWaves)
      <4> SUFFICES ASSUME task[s].at \in InWave
                   PROVE  Opens(task[s].job)' => attempts'[task[s].job] <= task[s].wave
                                                 /\ task[s].wave <= MaxWaves
        BY <3>1
      <4>1. PICK i : i = task[s].job
        OBVIOUS
      <4>2. i \in Jobs /\ (Opens(i) => attempts[i] <= task[s].wave /\ task[s].wave <= MaxWaves)
        BY <1>1, <1>3, <2>1, <4>1 DEF SweeperFits, AtJob, Unrecorded
      <4>3. Opens(i)' => Opens(i) /\ attempts'[i] = attempts[i]
        BY <1>3, <1>4, <1>5, <3>1, <4>2
      <4>4. task'[s].job = i
        BY <3>1, <4>1
      <4> QED BY <4>1, <4>2, <4>3, <4>4
    <3> QED BY <2>1, <3>1, <3>2, <3>3 DEF SweeperFits
  <2> QED BY <2>3, <2>4
<1>11. ASSUME NEW u \in Tasks
       PROVE  OfBooked(task[u])'
  <2>1. OfBooked(task[u])
    BY DEF WaveInv
  <2>2. CASE u = t
    BY <1>2, <1>3, <2>1, <2>2, BookedStays DEF OfBooked
  <2>3. CASE u # t
    BY <1>2, <1>3, <2>1, <2>3, BookedStays DEF OfBooked
  <2> QED BY <2>2, <2>3
<1> QED BY <1>7, <1>8, <1>9, <1>10, <1>11 DEF WaveInv

\* The counter passes the limit by one wave at most, as long as the sweep runs in
\* one process: only the wave a booking begins can run beside the sweep's.
THEOREM AtMostOneMore == OneSweeper => (Spec => []AtMostOneExtraWave)
<1> SUFFICES ASSUME OneSweeper
             PROVE  Spec => []AtMostOneExtraWave
  OBVIOUS
<1>1. Init => WaveInv
  <2> SUFFICES ASSUME Init PROVE WaveInv
    OBVIOUS
  <2>1. \A t \in Tasks : task[t] = Idle
    BY DEF Init
  <2>2. /\ Idle.at = "idle" /\ Idle.todo = {}
        /\ "idle" \notin AtJob \cup SweepLabels \cup InWave \cup Unrecorded
    BY DEF Idle, AtJob, SweepLabels, InWave, Unrecorded
  <2>3. \A j \in Jobs : Counted(j)
    BY <2>1, <2>2, LimitsAreCounts DEF Init, Counted, Opens, Tasks
  <2>4. HandlerFits(Idle) /\ SweeperFits(Idle) /\ OfBooked(Idle)
    BY <2>2 DEF HandlerFits, SweeperFits, OfBooked
  <2> QED BY <2>1, <2>2, <2>3, <2>4 DEF WaveInv, Tasks
<1>2. TypeInv /\ WaveInv /\ [Next]_vars => WaveInv'
  <2> SUFFICES ASSUME TypeInv, WaveInv, [Next]_vars PROVE WaveInv'
    OBVIOUS
  <2>0. TypeInv'
    BY StepTyped
  <2>1. ASSUME NEW t \in Tasks, TaskStep(t) \/ Crash(t)
        PROVE  WaveInv'
    BY <2>0, <2>1, WaveDispatchStep, WaveRecord, WaveSweepStep, WaveOtherStep DEF TaskStep
  <2>2. ASSUME NEW t \in Handlers, Request(t)
        PROVE  WaveInv'
    BY <2>0, <2>2, WaveBook, WaveOtherStep DEF Request, Tasks
  <2>3. ASSUME NEW t \in Sweepers, SweepExpire(t)
        PROVE  WaveInv'
    BY <2>0, <2>3, WaveOtherStep DEF Tasks
  <2>4. CASE UNCHANGED <<jobVars, task>>
    BY <2>4 DEF jobVars, WaveInv, Counted, HandlerFits, SweeperFits, Listed, OfBooked, Opens
  <2>5. ASSUME NEW c \in Couriers, CourierStep(c)
        PROVE  UNCHANGED <<jobVars, task>>
    BY <2>5 DEF CourierStep, GoOnline, GoOffline, SuspendCourier, ReinstateCourier, Shift
  <2>6. ASSUME NEW o \in Offers, OfferLapses(o) \/ PurgeOffer(o)
        PROVE  UNCHANGED <<jobVars, task>>
    BY <2>6 DEF OfferLapses, PurgeOffer
  <2>7. CASE UNCHANGED vars
    BY <2>4, <2>7 DEF vars
  <2> QED BY <2>1, <2>2, <2>3, <2>4, <2>5, <2>6, <2>7 DEF Next
<1>3. WaveInv => AtMostOneExtraWave
  BY DEF WaveInv, Counted, AtMostOneExtraWave
<1> QED BY <1>1, <1>2, <1>3, TypeInvariant, PTL DEF Spec
=============================================================================
