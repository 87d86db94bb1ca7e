--------------------------- MODULE DispatchProofs ---------------------------
(***************************************************************************)
(* What holds of Dispatch for every set of jobs, couriers, offers and      *)
(* processes, proved with TLAPS.                                           *)
(***************************************************************************)
EXTENDS Dispatch, TLAPS

-----------------------------------------------------------------------------
(* Typing.  TypeOK is not inductive as it stands: a step reads the job, the  *)
(* offer and the status its handler remembers, and they are only there at    *)
(* the labels where the handler has got that far.                            *)

HoldsAnOffer == {"acceptCas", "acceptLost", "acceptMark", "acceptSupersede",
                 "acceptBusy", "acceptCount", "acceptRate"}

\* What a handler remembers at its label.
Remembering ==
  {k \in TaskState :
     /\ k.at \notin {"idle", "sweepList", "sweepNext"} => k.job \in Jobs
     /\ k.at \in HoldsAnOffer => k.courier \in Couriers /\ k.offer \in Offers
     /\ k.at \in {"cancelSupersede", "mirror"} => k.seen \in JobStatus}

\* An inserted row names its job and its courier.
OffersAreFilled ==
  \A o \in Offers : offer[o].status # "none" =>
    offer[o].job \in Jobs /\ offer[o].courier \in Couriers

TypeInv ==
  /\ TypeOK
  /\ task \in [Tasks -> Remembering]
  /\ OffersAreFilled

\* A handler's step leaves the memory of every other handler alone.
LEMMA BecomeTyped ==
  ASSUME task \in [Tasks -> Remembering], NEW t \in Tasks,
         NEW st \in Remembering, Become(t, st)
  PROVE  /\ task' \in [Tasks -> TaskState]
         /\ task' \in [Tasks -> Remembering]
         /\ task'[t] = st
  BY DEF Become, Remembering

LEMMA NoCountsTyped == NoCounts \in Counts
  BY DEF NoCounts, Counts

LEMMA IdleTyped == Idle \in Remembering
  BY NoCountsTyped DEF Idle, Remembering, TaskState, Labels, HoldsAnOffer

\* Resume goes back to idle or to the rest of the sweep's list.
LEMMA ResumeTyped ==
  ASSUME task \in [Tasks -> Remembering], NEW t \in Tasks, Resume(t)
  PROVE  /\ task' \in [Tasks -> TaskState]
         /\ task' \in [Tasks -> Remembering]
<1> DEFINE rest == [Idle EXCEPT !.at = "sweepNext", !.todo = task[t].todo]
<1>1. rest \in Remembering
  BY NoCountsTyped DEF Idle, Remembering, TaskState, Labels, HoldsAnOffer
<1>2. \/ Become(t, Idle)
      \/ Become(t, rest)
  BY DEF Resume
<1>3. CASE Become(t, Idle)
  <2> HIDE DEF rest
  <2> QED BY <1>3, IdleTyped, BecomeTyped
<1>4. CASE Become(t, rest)
  <2> HIDE DEF rest
  <2> QED BY <1>1, <1>4, BecomeTyped
<1> QED BY <1>2, <1>3, <1>4

LEMMA GotoTyped ==
  ASSUME task \in [Tasks -> Remembering], NEW t \in Tasks,
         NEW label \in Labels, Goto(t, label),
         label \notin {"idle", "sweepList", "sweepNext"} => task[t].job \in Jobs,
         label \in HoldsAnOffer =>
           task[t].courier \in Couriers /\ task[t].offer \in Offers,
         label \in {"cancelSupersede", "mirror"} => task[t].seen \in JobStatus
  PROVE  /\ task' \in [Tasks -> TaskState]
         /\ task' \in [Tasks -> Remembering]
<1> DEFINE st == [task[t] EXCEPT !.at = label]
<1>1. st \in Remembering
  BY DEF Remembering, TaskState
<1>2. Become(t, st)
  BY DEF Goto
<1> HIDE DEF st
<1> QED BY <1>1, <1>2, BecomeTyped

\* At most labels a handler only needs its job.
LEMMA JobIsEnough ==
  ASSUME NEW k \in TaskState, k.job \in Jobs,
         k.at \notin HoldsAnOffer \cup {"cancelSupersede", "mirror"}
  PROVE  k \in Remembering
  BY DEF Remembering

\* A statement that only reads.
LEMMA ReadTyped ==
  ASSUME TypeInv, NEW t \in Tasks, NEW st \in Remembering,
         Become(t, st) \/ Resume(t),
         UNCHANGED <<jobVars, offer, courierVars, bounds>>
  PROVE  TypeInv'
<1>1. task' \in [Tasks -> TaskState] /\ task' \in [Tasks -> Remembering]
  BY BecomeTyped, ResumeTyped DEF TypeInv
<1> QED
  BY <1>1 DEF TypeInv, TypeOK, OffersAreFilled, jobVars, courierVars, bounds

LEMMA TransitionTyped ==
  ASSUME TypeOK, NEW j \in Jobs, NEW from, NEW to,
         NEW by \in Couriers \cup {Sender, None}, Transition(j, from, to, by)
  PROVE  /\ from \in JobStatus /\ to \in JobStatus
         /\ status' \in [Jobs -> JobStatus \cup {"unbooked"}]
         /\ trail' \in [Jobs -> Seq(Event)]
<1>1. from \in JobStatus /\ to \in JobStatus
  BY DEF Transition, JOB_TRANSITIONS, JobStatus
<1>2. [status |-> to, by |-> by] \in Event
  BY <1>1 DEF Event
<1>3. Append(trail[j], [status |-> to, by |-> by]) \in Seq(Event)
  BY <1>2 DEF TypeOK
<1> QED BY <1>1, <1>3 DEF Transition, TypeOK

\* The statements of dispatchJob.
LEMMA DispatchStepTyped ==
  ASSUME TypeInv, NEW t \in Tasks, DispatchStep(t)
  PROVE  TypeInv'
<1> DEFINE j == task[t].job
<1>a. /\ task \in [Tasks -> Remembering]
      /\ task[t] \in Remembering
  BY DEF TypeInv
<1>k. task[t] \in TaskState
  BY <1>a DEF Remembering
<1>b. j \in Jobs
  BY <1>a DEF DispatchStep, DispatchRead, DispatchExclude, DispatchSelect,
              DispatchRecord, DispatchMove, DispatchInsert, At, Remembering
<1>1. CASE DispatchRead(t)
  <2> DEFINE seen == status[j]
             wave == attempts[j] + 1
             st == [task[t] EXCEPT !.at = "dispatchExclude", !.seen = seen,
                                   !.wave = wave]
  <2>0. seen \in JobStatus \cup {"unbooked"} /\ wave \in Nat
    BY <1>b DEF TypeInv, TypeOK
  <2>1. st \in Remembering
    <3> HIDE DEF seen, wave
    <3>1. st \in TaskState
      BY <1>k, <2>0, Zenon DEF TaskState, Labels
    <3>2. st.at = "dispatchExclude" /\ st.job = j
      BY <1>k DEF TaskState
    <3> HIDE DEF st
    <3> QED BY <1>b, <3>1, <3>2, JobIsEnough DEF HoldsAnOffer
  <2>2. Become(t, st) \/ Resume(t)
    BY <1>1 DEF DispatchRead
  <2>3. UNCHANGED <<jobVars, offer, courierVars, bounds>>
    BY <1>1 DEF DispatchRead
  <2> HIDE DEF st
  <2> QED BY <2>1, <2>2, <2>3, ReadTyped
<1>2. CASE DispatchExclude(t)
  <2> DEFINE holding == {offer[o].courier : o \in OffersInStatus(j, "offered")}
             st == [task[t] EXCEPT !.at = "dispatchSelect", !.excluded = holding]
  <2>1. holding \subseteq Couriers
    BY DEF TypeInv, OffersAreFilled, OffersInStatus, Visible
  <2>2. st \in Remembering
    <3> HIDE DEF holding
    <3>1. st \in TaskState
      BY <1>k, <2>1 DEF TaskState, Labels
    <3>2. st.at = "dispatchSelect" /\ st.job = j
      BY <1>k DEF TaskState
    <3> HIDE DEF st
    <3> QED BY <1>b, <3>1, <3>2, JobIsEnough DEF HoldsAnOffer
  <2>3. Become(t, st)
    BY <1>2 DEF DispatchExclude
  <2>4. UNCHANGED <<jobVars, offer, courierVars, bounds>>
    BY <1>2 DEF DispatchExclude
  <2> HIDE DEF st
  <2> QED BY <2>2, <2>3, <2>4, ReadTyped
<1>3. CASE DispatchSelect(t)
  <2>1. PICK nearby \in SUBSET (DispatchPool \ task[t].excluded) :
          Become(t, [task[t] EXCEPT !.at         = "dispatchRecord",
                                    !.candidates = nearby])
    BY <1>3 DEF DispatchSelect
  <2> DEFINE st == [task[t] EXCEPT !.at = "dispatchRecord", !.candidates = nearby]
  <2>2. st \in Remembering
    <3>0. nearby \subseteq Couriers
      BY DEF DispatchPool
    <3>1. st \in TaskState
      BY <1>k, <3>0 DEF TaskState, Labels
    <3>2. st.at = "dispatchRecord" /\ st.job = j
      BY <1>k DEF TaskState
    <3> HIDE DEF st
    <3> QED BY <1>b, <3>1, <3>2, JobIsEnough DEF HoldsAnOffer
  <2>3. Become(t, st)
    BY <2>1
  <2>4. UNCHANGED <<jobVars, offer, courierVars, bounds>>
    BY <1>3 DEF DispatchSelect
  <2> HIDE DEF st
  <2> QED BY <2>2, <2>3, <2>4, ReadTyped
<1>4. CASE DispatchRecord(t)
  <2>1. attempts' \in [Jobs -> Nat]
    BY <1>4, <1>a, <1>b DEF DispatchRecord, TypeInv, TypeOK, Remembering, TaskState
  <2>2. \/ Resume(t)
        \/ \E label \in {"dispatchMove", "dispatchInsert"} : Goto(t, label)
    BY <1>4 DEF DispatchRecord
  <2>3. task' \in [Tasks -> TaskState] /\ task' \in [Tasks -> Remembering]
    BY <2>2, <1>a, <1>b, ResumeTyped, GotoTyped DEF Labels, HoldsAnOffer
  <2> QED
    BY <1>4, <2>1, <2>3
    DEF DispatchRecord, TypeInv, TypeOK, OffersAreFilled, courierVars, bounds
<1>5. CASE DispatchMove(t)
  <2>1. \/ Transition(j, "requested", "offered", None)
        \/ UNCHANGED <<status, trail>>
    BY <1>5 DEF DispatchMove
  <2>2. /\ status' \in [Jobs -> JobStatus \cup {"unbooked"}]
        /\ trail' \in [Jobs -> Seq(Event)]
    BY <2>1, <1>b, TransitionTyped DEF TypeInv, TypeOK
  <2>3. Goto(t, "dispatchInsert") \/ Resume(t)
    BY <1>5 DEF DispatchMove
  <2>4. task' \in [Tasks -> TaskState] /\ task' \in [Tasks -> Remembering]
    BY <2>3, <1>a, <1>b, ResumeTyped, GotoTyped DEF Labels, HoldsAnOffer
  <2> QED
    BY <1>5, <2>2, <2>4
    DEF DispatchMove, TypeInv, TypeOK, OffersAreFilled, courierVars, bounds
<1>6. CASE DispatchInsert(t)
  <2>1. PICK c \in task[t].candidates :
          /\ \/ \E o \in Offers :
                  /\ offer[o].status = "none"
                  /\ offer' = [offer EXCEPT
                                 ![o] = [status |-> "offered", age |-> "fresh",
                                         job |-> j, courier |-> c]]
             \/ UNCHANGED offer
          /\ \/ Resume(t)
             \/ Become(t, [task[t] EXCEPT !.candidates = @ \ {c}])
    BY <1>6 DEF DispatchInsert
  <2>2. c \in Couriers
    BY <1>a DEF Remembering, TaskState
  <2>3. offer' \in [Offers -> OfferRow] /\ OffersAreFilled'
    <3> DEFINE row == [status |-> "offered", age |-> "fresh", job |-> j,
                       courier |-> c]
    <3>1. row \in OfferRow /\ row.job \in Jobs /\ row.courier \in Couriers
      BY <2>2, <1>b DEF OfferRow
    <3>2. \/ UNCHANGED offer
          \/ \E o \in Offers : offer' = [offer EXCEPT ![o] = row]
      BY <2>1
    <3> HIDE DEF row
    <3> QED BY <3>1, <3>2 DEF TypeInv, TypeOK, OffersAreFilled
  <2> DEFINE st == [task[t] EXCEPT !.candidates = @ \ {c}]
  <2>4. st \in Remembering
    BY <1>a DEF Remembering, TaskState
  <2>5. Resume(t) \/ Become(t, st)
    BY <2>1
  <2>6. task' \in [Tasks -> TaskState] /\ task' \in [Tasks -> Remembering]
    <3> HIDE DEF st
    <3> QED BY <2>4, <2>5, <1>a, BecomeTyped, ResumeTyped
  <2> QED
    BY <1>6, <2>3, <2>6
    DEF DispatchInsert, TypeInv, TypeOK, jobVars, courierVars, bounds
<1> QED
  BY <1>1, <1>2, <1>3, <1>4, <1>5, <1>6 DEF DispatchStep

\* The UPDATEs of offer rows change their status or their age only.
LEMMA SetOfferStatusTyped ==
  ASSUME TypeInv, NEW o, NEW s \in {"accepted", "superseded"},
         SetOfferStatus(o, s)
  PROVE  offer' \in [Offers -> OfferRow] /\ OffersAreFilled'
<1>1. offer \in [Offers -> OfferRow]
  BY DEF TypeInv, TypeOK
<1>2. ASSUME NEW row \in OfferRow, NEW x \in {s, row.status}
      PROVE  /\ [row EXCEPT !.status = x] \in OfferRow
             /\ [row EXCEPT !.status = x].job = row.job
             /\ [row EXCEPT !.status = x].courier = row.courier
  BY DEF OfferRow
<1>3. offer' \in [Offers -> OfferRow]
  <2>1. CASE Visible(o)
    BY <1>1, <1>2, <2>1 DEF SetOfferStatus
  <2>2. CASE ~Visible(o)
    BY <1>1, <1>2, <2>2 DEF SetOfferStatus
  <2> QED BY <2>1, <2>2
<1>4. \A p \in Offers : /\ offer'[p].status # "none" => offer[p].status # "none"
                        /\ offer'[p].job = offer[p].job
                        /\ offer'[p].courier = offer[p].courier
  BY <1>1, <1>2 DEF SetOfferStatus, Visible, OfferRow
<1> QED BY <1>3, <1>4 DEF TypeInv, OffersAreFilled

LEMMA SupersedeTyped ==
  ASSUME TypeInv, NEW j, NEW except, SupersedeLiveOffers(j, except)
  PROVE  offer' \in [Offers -> OfferRow] /\ OffersAreFilled'
<1>1. offer \in [Offers -> OfferRow]
  BY DEF TypeInv, TypeOK
<1>2. ASSUME NEW row \in OfferRow
      PROVE  /\ [row EXCEPT !.status = "superseded"] \in OfferRow
             /\ [row EXCEPT !.status = "superseded"].job = row.job
             /\ [row EXCEPT !.status = "superseded"].courier = row.courier
  BY DEF OfferRow
<1>3. offer' \in [Offers -> OfferRow]
  BY <1>1, <1>2 DEF SupersedeLiveOffers
<1>4. \A p \in Offers : /\ offer'[p].status # "none" => offer[p].status # "none"
                        /\ offer'[p].job = offer[p].job
                        /\ offer'[p].courier = offer[p].courier
  BY <1>1, <1>2 DEF SupersedeLiveOffers, OffersInStatus
<1> QED BY <1>3, <1>4 DEF TypeInv, OffersAreFilled

\* The statements of accept.
LEMMA AcceptStepTyped ==
  ASSUME TypeInv, NEW t \in Tasks, AcceptStep(t)
  PROVE  TypeInv'
<1> DEFINE j == task[t].job
           c == task[t].courier
<1>a. /\ task \in [Tasks -> Remembering]
      /\ task[t] \in Remembering
  BY DEF TypeInv
<1>b. j \in Jobs /\ c \in Couriers /\ task[t].offer \in Offers
  BY <1>a DEF AcceptStep, AcceptWin, AcceptLose, AcceptLost, AcceptMark,
              AcceptSupersede, AcceptBusy, AcceptCount, AcceptRate, At,
              Remembering, HoldsAnOffer
<1>1. CASE AcceptWin(t)
  <2>1. Transition(j, "offered", "accepted", c) /\ Goto(t, "acceptMark")
    BY <1>1 DEF AcceptWin
  <2>2. /\ status' \in [Jobs -> JobStatus \cup {"unbooked"}]
        /\ trail' \in [Jobs -> Seq(Event)]
    BY <2>1, <1>b, TransitionTyped DEF TypeInv
  <2>3. courier' \in [Jobs -> Couriers \cup {None}]
    BY <1>1, <1>b DEF AcceptWin, TypeInv, TypeOK
  <2>4. task' \in [Tasks -> TaskState] /\ task' \in [Tasks -> Remembering]
    BY <2>1, <1>a, <1>b, GotoTyped DEF Labels, HoldsAnOffer
  <2> QED
    BY <1>1, <2>2, <2>3, <2>4
    DEF AcceptWin, TypeInv, TypeOK, OffersAreFilled, courierVars, bounds
<1>2. CASE AcceptLose(t)
  <2>1. task' \in [Tasks -> TaskState] /\ task' \in [Tasks -> Remembering]
    BY <1>2, <1>a, <1>b, GotoTyped DEF AcceptLose, Labels, HoldsAnOffer
  <2> QED
    BY <1>2, <2>1
    DEF AcceptLose, TypeInv, TypeOK, OffersAreFilled, jobVars, courierVars, bounds
<1>3. CASE AcceptLost(t)
  <2>1. offer' \in [Offers -> OfferRow] /\ OffersAreFilled'
    BY <1>3, SetOfferStatusTyped DEF AcceptLost
  <2>2. task' \in [Tasks -> TaskState] /\ task' \in [Tasks -> Remembering]
    BY <1>3, <1>a, IdleTyped, BecomeTyped DEF AcceptLost
  <2> QED
    BY <1>3, <2>1, <2>2
    DEF AcceptLost, TypeInv, TypeOK, jobVars, courierVars, bounds
<1>4. CASE AcceptMark(t)
  <2>1. offer' \in [Offers -> OfferRow] /\ OffersAreFilled'
    BY <1>4, SetOfferStatusTyped DEF AcceptMark
  <2>2. task' \in [Tasks -> TaskState] /\ task' \in [Tasks -> Remembering]
    BY <1>4, <1>a, <1>b, GotoTyped DEF AcceptMark, Labels, HoldsAnOffer
  <2> QED
    BY <1>4, <2>1, <2>2
    DEF AcceptMark, TypeInv, TypeOK, jobVars, courierVars, bounds
<1>5. CASE AcceptSupersede(t)
  <2>1. offer' \in [Offers -> OfferRow] /\ OffersAreFilled'
    BY <1>5, SupersedeTyped DEF AcceptSupersede
  <2>2. task' \in [Tasks -> TaskState] /\ task' \in [Tasks -> Remembering]
    BY <1>5, <1>a, <1>b, GotoTyped DEF AcceptSupersede, Labels, HoldsAnOffer
  <2> QED
    BY <1>5, <2>1, <2>2
    DEF AcceptSupersede, TypeInv, TypeOK, jobVars, courierVars, bounds
<1>6. CASE AcceptBusy(t)
  <2>1. online' \in [Couriers -> {"offline", "online", "on_job"}]
    BY <1>6 DEF AcceptBusy, TypeInv, TypeOK
  <2>2. task' \in [Tasks -> TaskState] /\ task' \in [Tasks -> Remembering]
    BY <1>6, <1>a, <1>b, GotoTyped DEF AcceptBusy, Labels, HoldsAnOffer
  <2> QED
    BY <1>6, <2>1, <2>2
    DEF AcceptBusy, TypeInv, TypeOK, OffersAreFilled, jobVars, bounds
<1>7. CASE AcceptCount(t)
  <2> DEFINE counts == Outcomes(c, {o \in Offers : Visible(o)})
             counted == [task[t] EXCEPT !.at = "acceptRate", !.counts = counts]
             st == [task[t] EXCEPT !.at = "mirror", !.seen = "accepted"]
  <2>1. counts \in Counts
    BY DEF Outcomes, Counts
  <2>2. counted \in Remembering
    <3> HIDE DEF counts
    <3> QED BY <2>1, <1>a, <1>b DEF Remembering, TaskState, Labels, HoldsAnOffer
  <2>3. st \in Remembering
    BY <1>a, <1>b DEF Remembering, TaskState, Labels, HoldsAnOffer, JobStatus
  <2>4. Become(t, counted) \/ Become(t, st)
    BY <1>7 DEF AcceptCount
  <2>5. UNCHANGED <<jobVars, offer, courierVars, bounds>>
    BY <1>7 DEF AcceptCount
  <2> HIDE DEF counted, st
  <2> QED BY <2>2, <2>3, <2>4, <2>5, ReadTyped
<1>8. CASE AcceptRate(t)
  <2> DEFINE st == [task[t] EXCEPT !.at = "mirror", !.seen = "accepted",
                                   !.counts = NoCounts]
  <2>1. task[t].counts \in Counts
    BY <1>a DEF Remembering, TaskState
  <2>2. rate' \in [Couriers -> Counts]
    BY <1>8, <2>1 DEF AcceptRate, TypeInv, TypeOK
  <2>3. st \in Remembering
    BY <1>a, <1>b, NoCountsTyped
    DEF Remembering, TaskState, Labels, HoldsAnOffer, JobStatus
  <2>4. Become(t, st)
    BY <1>8 DEF AcceptRate
  <2>5. task' \in [Tasks -> TaskState] /\ task' \in [Tasks -> Remembering]
    <3> HIDE DEF st
    <3> QED BY <2>3, <2>4, <1>a, BecomeTyped
  <2> QED
    BY <1>8, <2>2, <2>5
    DEF AcceptRate, TypeInv, TypeOK, OffersAreFilled, jobVars, bounds
<1> QED
  BY <1>1, <1>2, <1>3, <1>4, <1>5, <1>6, <1>7, <1>8 DEF AcceptStep

\* The statements of the sweep after its first.
LEMMA SweepStepTyped ==
  ASSUME TypeInv, NEW t \in Tasks, SweepStep(t)
  PROVE  TypeInv'
<1> DEFINE j == task[t].job
<1>a. /\ task \in [Tasks -> Remembering]
      /\ task[t] \in Remembering
  BY DEF TypeInv
<1>1. CASE SweepList(t)
  <2> DEFINE listed == {[job |-> i, attempts |-> attempts[i]] :
                          i \in {k \in Jobs : /\ status[k] \in AwaitingCourier
                                              /\ clear[k]}}
             st == [Idle EXCEPT !.at = "sweepNext", !.todo = listed]
  <2>1. listed \in SUBSET [job : Jobs, attempts : Nat]
    BY DEF TypeInv, TypeOK
  <2>2. st \in Remembering
    <3> HIDE DEF listed
    <3> QED BY <2>1, NoCountsTyped DEF Idle, Remembering, TaskState, Labels, HoldsAnOffer
  <2>3. Become(t, Idle) \/ Become(t, st)
    BY <1>1 DEF SweepList
  <2>4. UNCHANGED <<jobVars, offer, courierVars, bounds>>
    BY <1>1 DEF SweepList
  <2> HIDE DEF st
  <2> QED BY <2>2, <2>3, <2>4, IdleTyped, ReadTyped
<1>2. CASE SweepNext(t)
  <2>1. PICK listed \in task[t].todo :
          LET rest == task[t].todo \ {listed}
              live == OffersInStatus(listed.job, "offered") # {}
          IN Become(t, IF live /\ rest = {}
                       THEN Idle
                       ELSE [Idle EXCEPT
                               !.at   = IF live THEN "sweepNext" ELSE "sweepAccepted",
                               !.job  = IF live THEN None ELSE listed.job,
                               !.wave = IF live THEN 0 ELSE listed.attempts,
                               !.todo = rest])
    BY <1>2 DEF SweepNext
  <2> DEFINE rest == task[t].todo \ {listed}
             skip == [Idle EXCEPT !.at = "sweepNext", !.job = None, !.wave = 0,
                                  !.todo = rest]
             take == [Idle EXCEPT !.at = "sweepAccepted", !.job = listed.job,
                                  !.wave = listed.attempts, !.todo = rest]
  <2>2. /\ rest \in SUBSET [job : Jobs, attempts : Nat]
        /\ listed.job \in Jobs /\ listed.attempts \in Nat
    BY <1>a DEF Remembering, TaskState
  <2>3. skip \in Remembering /\ take \in Remembering
    <3> HIDE DEF rest
    <3> QED BY <2>2, NoCountsTyped DEF Idle, Remembering, TaskState, Labels, HoldsAnOffer
  <2>4. Become(t, Idle) \/ Become(t, skip) \/ Become(t, take)
    BY <2>1
  <2>5. UNCHANGED <<jobVars, offer, courierVars, bounds>>
    BY <1>2 DEF SweepNext
  <2> HIDE DEF skip, take
  <2> QED BY <2>3, <2>4, <2>5, IdleTyped, ReadTyped
<1>3. CASE SweepAccepted(t)
  <2>1. j \in Jobs
    BY <1>3, <1>a DEF SweepAccepted, At, Remembering
  <2>2. \/ Resume(t)
        \/ \E label \in {"dispatchRead", "sweepReread"} : Goto(t, label)
    BY <1>3 DEF SweepAccepted
  <2>3. task' \in [Tasks -> TaskState] /\ task' \in [Tasks -> Remembering]
    BY <2>1, <2>2, <1>a, ResumeTyped, GotoTyped DEF Labels, HoldsAnOffer
  <2> QED
    BY <1>3, <2>3
    DEF SweepAccepted, TypeInv, TypeOK, OffersAreFilled, jobVars, courierVars,
        bounds
<1>4. CASE SweepReread(t)
  <2> DEFINE st == [task[t] EXCEPT !.at = "sweepCancel", !.seen = status[j]]
  <2>1. j \in Jobs /\ status[j] \in JobStatus \cup {"unbooked"}
    BY <1>4, <1>a DEF SweepReread, At, Remembering, TypeInv, TypeOK
  <2>2. st \in Remembering
    BY <2>1, <1>a, ZenonT(40) DEF Remembering, TaskState, Labels, HoldsAnOffer
  <2>3. Resume(t) \/ Become(t, st)
    BY <1>4 DEF SweepReread
  <2>4. UNCHANGED <<jobVars, offer, courierVars, bounds>>
    BY <1>4 DEF SweepReread
  <2> HIDE DEF st
  <2> QED BY <2>2, <2>3, <2>4, ReadTyped
<1>5. CASE SweepCancel(t)
  <2>1. j \in Jobs
    BY <1>5, <1>a DEF SweepCancel, At, Remembering
  <2>2. \/ Transition(j, task[t].seen, "cancelled", None)
        \/ UNCHANGED <<status, trail>>
    BY <1>5 DEF SweepCancel
  <2>3. /\ status' \in [Jobs -> JobStatus \cup {"unbooked"}]
        /\ trail' \in [Jobs -> Seq(Event)]
    BY <2>1, <2>2, TransitionTyped DEF TypeInv, TypeOK
  <2>4. Goto(t, "sweepSupersede") \/ Resume(t)
    BY <1>5 DEF SweepCancel
  <2>5. task' \in [Tasks -> TaskState] /\ task' \in [Tasks -> Remembering]
    BY <2>1, <2>4, <1>a, ResumeTyped, GotoTyped DEF Labels, HoldsAnOffer
  <2> QED
    BY <1>5, <2>3, <2>5
    DEF SweepCancel, TypeInv, TypeOK, OffersAreFilled, courierVars, bounds
<1>6. CASE SweepSupersede(t)
  <2>1. offer' \in [Offers -> OfferRow] /\ OffersAreFilled'
    BY <1>6, SupersedeTyped DEF SweepSupersede
  <2>2. task' \in [Tasks -> TaskState] /\ task' \in [Tasks -> Remembering]
    BY <1>6, <1>a, ResumeTyped DEF SweepSupersede
  <2> QED
    BY <1>6, <2>1, <2>2
    DEF SweepSupersede, TypeInv, TypeOK, jobVars, courierVars, bounds
<1> QED
  BY <1>1, <1>2, <1>3, <1>4, <1>5, <1>6 DEF SweepStep

\* The last statements of a handler.
LEMMA ClosingStepTyped ==
  ASSUME TypeInv, NEW t \in Tasks, CancelSupersede(t) \/ Mirror(t)
  PROVE  TypeInv'
<1> DEFINE j == task[t].job
<1>a. /\ task \in [Tasks -> Remembering]
      /\ task[t] \in Remembering
  BY DEF TypeInv
<1>1. CASE CancelSupersede(t)
  <2>1. offer' \in [Offers -> OfferRow] /\ OffersAreFilled'
    BY <1>1, SupersedeTyped DEF CancelSupersede
  <2>2. j \in Jobs
    BY <1>1, <1>a DEF CancelSupersede, At, Remembering
  <2>3. task[t].seen \in JobStatus
    BY <1>1, <1>a DEF CancelSupersede, At, Remembering
  <2>4. task' \in [Tasks -> TaskState] /\ task' \in [Tasks -> Remembering]
    BY <1>1, <2>2, <2>3, <1>a, GotoTyped DEF CancelSupersede, Labels, HoldsAnOffer
  <2> QED
    BY <1>1, <2>1, <2>4
    DEF CancelSupersede, TypeInv, TypeOK, jobVars, courierVars, bounds
<1>2. CASE Mirror(t)
  <2>1. task[t].seen \in JobStatus
    BY <1>2, <1>a DEF Mirror, At, Remembering
  <2>2. Tracking(task[t].seen) \in TrackingStatus
    BY <2>1 DEF Tracking, TrackingStatus, JobStatus, AwaitingCourier
  <2>3. pointer' \in [Jobs -> TrackingStatus]
    BY <1>2, <2>2 DEF Mirror, TypeInv, TypeOK
  <2>4. task' \in [Tasks -> TaskState] /\ task' \in [Tasks -> Remembering]
    BY <1>2, <1>a, IdleTyped, BecomeTyped DEF Mirror
  <2> QED
    BY <1>2, <2>3, <2>4
    DEF Mirror, TypeInv, TypeOK, OffersAreFilled, courierVars, bounds
<1> QED BY <1>1, <1>2

\* The requests' first statements, and the sweep's.
LEMMA OpeningStepTyped ==
  ASSUME TypeInv, NEW t \in Tasks, Request(t) \/ SweepExpire(t)
  PROVE  TypeInv'
<1>a. /\ task \in [Tasks -> Remembering]
      /\ task[t] \in Remembering
  BY DEF TypeInv
<1>1. ASSUME NEW j \in Jobs, Book(t, j)
      PROVE  TypeInv'
  <2> DEFINE st == [Idle EXCEPT !.at = "dispatchRead", !.job = j]
  <2>1. /\ status' \in [Jobs -> JobStatus \cup {"unbooked"}]
        /\ clear' \in [Jobs -> BOOLEAN]
        /\ pointer' \in [Jobs -> TrackingStatus]
    BY <1>1 DEF Book, TypeInv, TypeOK, JobStatus, Tracking, TrackingStatus,
                AwaitingCourier
  <2>2. trail' \in [Jobs -> Seq(Event)]
    <3>1. [status |-> "requested", by |-> Sender] \in Event
      BY DEF Event, JobStatus
    <3>2. <<[status |-> "requested", by |-> Sender]>> \in Seq(Event)
      BY <3>1
    <3> QED BY <1>1, <3>2 DEF Book, TypeInv, TypeOK
  <2>3. st \in Remembering
    BY NoCountsTyped DEF Idle, Remembering, TaskState, Labels, HoldsAnOffer
  <2>4. Become(t, st)
    BY <1>1 DEF Book
  <2>5. task' \in [Tasks -> TaskState] /\ task' \in [Tasks -> Remembering]
    <3> HIDE DEF st
    <3> QED BY <2>3, <2>4, <1>a, BecomeTyped
  <2> QED
    BY <1>1, <2>1, <2>2, <2>5
    DEF Book, TypeInv, TypeOK, OffersAreFilled, courierVars, bounds
<1>2. ASSUME NEW o \in Offers, AcceptFind(t, o)
      PROVE  TypeInv'
  <2> DEFINE st == [Idle EXCEPT !.at      = "acceptCas",
                                !.job     = offer[o].job,
                                !.courier = offer[o].courier,
                                !.offer   = o]
  <2>1. offer[o].job \in Jobs /\ offer[o].courier \in Couriers
    BY <1>2 DEF AcceptFind, TypeInv, OffersAreFilled
  <2>2. st \in Remembering
    BY <2>1, NoCountsTyped DEF Idle, Remembering, TaskState, Labels, HoldsAnOffer
  <2>3. Become(t, st) /\ UNCHANGED <<jobVars, offer, courierVars, bounds>>
    BY <1>2 DEF AcceptFind
  <2> HIDE DEF st
  <2> QED BY <2>2, <2>3, ReadTyped
<1>3. ASSUME NEW j \in Jobs, NEW leg \in CourierLegs, Advance(t, j, leg)
      PROVE  TypeInv'
  <2> DEFINE st == [Idle EXCEPT !.at = "mirror", !.job = j, !.seen = leg[2]]
  <2>1. /\ leg[2] \in JobStatus
        /\ status' \in [Jobs -> JobStatus \cup {"unbooked"}]
        /\ trail' \in [Jobs -> Seq(Event)]
    <3>1. courier[j] \in Couriers
      BY <1>3 DEF Advance, TypeInv, TypeOK
    <3> QED BY <1>3, <3>1, TransitionTyped DEF Advance, TypeInv
  <2>2. st \in Remembering
    BY <2>1, NoCountsTyped DEF Idle, Remembering, TaskState, Labels, HoldsAnOffer
  <2>3. Become(t, st)
    BY <1>3 DEF Advance
  <2>4. task' \in [Tasks -> TaskState] /\ task' \in [Tasks -> Remembering]
    <3> HIDE DEF st
    <3> QED BY <2>2, <2>3, <1>a, BecomeTyped
  <2> QED
    BY <1>3, <2>1, <2>4
    DEF Advance, TypeInv, TypeOK, OffersAreFilled, courierVars, bounds
<1>4. ASSUME NEW j \in Jobs, NEW party \in Couriers \cup {Sender},
             Cancel(t, j, party)
      PROVE  TypeInv'
  <2> DEFINE st == [Idle EXCEPT !.at = "cancelSupersede", !.job = j,
                                !.seen = "cancelled"]
  <2>1. /\ status' \in [Jobs -> JobStatus \cup {"unbooked"}]
        /\ trail' \in [Jobs -> Seq(Event)]
    BY <1>4, TransitionTyped DEF Cancel, TypeInv
  <2>2. st \in Remembering
    BY NoCountsTyped DEF Idle, Remembering, TaskState, Labels, HoldsAnOffer, JobStatus
  <2>3. Become(t, st)
    BY <1>4 DEF Cancel
  <2>4. task' \in [Tasks -> TaskState] /\ task' \in [Tasks -> Remembering]
    <3> HIDE DEF st
    <3> QED BY <2>2, <2>3, <1>a, BecomeTyped
  <2> QED
    BY <1>4, <2>1, <2>4
    DEF Cancel, TypeInv, TypeOK, OffersAreFilled, courierVars, bounds
<1>5. ASSUME SweepExpire(t)
      PROVE  TypeInv'
  <2>1. offer \in [Offers -> OfferRow]
    BY DEF TypeInv, TypeOK
  <2>2. ASSUME NEW row \in OfferRow
        PROVE  /\ [row EXCEPT !.status = "expired"] \in OfferRow
               /\ [row EXCEPT !.status = "expired"].job = row.job
               /\ [row EXCEPT !.status = "expired"].courier = row.courier
    BY DEF OfferRow
  <2>3. offer' \in [Offers -> OfferRow]
    BY <1>5, <2>1, <2>2 DEF SweepExpire
  <2>4. \A p \in Offers : /\ offer'[p].status # "none" => offer[p].status # "none"
                          /\ offer'[p].job = offer[p].job
                          /\ offer'[p].courier = offer[p].courier
    BY <1>5, <2>1, <2>2 DEF SweepExpire
  <2>5. task' \in [Tasks -> TaskState] /\ task' \in [Tasks -> Remembering]
    BY <1>5, <1>a, GotoTyped DEF SweepExpire, Labels, HoldsAnOffer
  <2> QED
    BY <1>5, <2>3, <2>4, <2>5
    DEF SweepExpire, TypeInv, TypeOK, OffersAreFilled, jobVars, courierVars,
        bounds
<1> QED
  BY <1>1, <1>2, <1>3, <1>4, <1>5 DEF Request

\* Couriers, deadlines, deletions and deaths.
LEMMA OutsideStepTyped ==
  ASSUME TypeInv,
         \/ \E c \in Couriers : CourierStep(c)
         \/ \E o \in Offers : OfferLapses(o) \/ PurgeOffer(o)
         \/ \E t \in Tasks : Crash(t)
  PROVE  TypeInv'
<1>1. ASSUME NEW c \in Couriers, CourierStep(c)
      PROVE  TypeInv'
  <2>1. /\ standing' \in [Couriers -> {"pending", "active", "suspended"}]
        /\ online' \in [Couriers -> {"offline", "online", "on_job"}]
    BY <1>1 DEF CourierStep, GoOnline, GoOffline, SuspendCourier,
                ReinstateCourier, TypeInv, TypeOK
  <2>2. shifts' \in Nat /\ UNCHANGED <<jobVars, offer, rate, task, crashes>>
    BY <1>1 DEF CourierStep, GoOnline, GoOffline, SuspendCourier,
                ReinstateCourier, Shift, TypeInv, TypeOK
  <2> QED
    BY <2>1, <2>2 DEF TypeInv, TypeOK, OffersAreFilled, jobVars
<1>2. ASSUME NEW o \in Offers, OfferLapses(o) \/ PurgeOffer(o)
      PROVE  TypeInv'
  <2>1. offer \in [Offers -> OfferRow]
    BY DEF TypeInv, TypeOK
  <2>2. ASSUME NEW row \in OfferRow, NEW age \in {"lapsed", "purged"}
        PROVE  /\ [row EXCEPT !.age = age] \in OfferRow
               /\ [row EXCEPT !.age = age].job = row.job
               /\ [row EXCEPT !.age = age].courier = row.courier
               /\ [row EXCEPT !.age = age].status = row.status
    BY DEF OfferRow
  <2>3. PICK age \in {"lapsed", "purged"} : offer' = [offer EXCEPT ![o].age = age]
    BY <1>2 DEF OfferLapses, PurgeOffer
  <2>4. offer' \in [Offers -> OfferRow] /\ OffersAreFilled'
    <3> DEFINE row == [offer[o] EXCEPT !.age = age]
    <3>1. /\ row \in OfferRow /\ row.job = offer[o].job
          /\ row.courier = offer[o].courier /\ row.status = offer[o].status
      BY <2>1, <2>2
    <3>2. offer' = [offer EXCEPT ![o] = row]
      BY <2>1, <2>3
    <3> HIDE DEF row
    <3> QED BY <2>1, <3>1, <3>2 DEF TypeInv, OffersAreFilled
  <2>5. UNCHANGED <<jobVars, courierVars, task, bounds>>
    BY <1>2 DEF OfferLapses, PurgeOffer
  <2> QED
    BY <2>4, <2>5 DEF TypeInv, TypeOK, jobVars, courierVars, bounds
<1>3. ASSUME NEW t \in Tasks, Crash(t)
      PROVE  TypeInv'
  <2>1. task' \in [Tasks -> TaskState] /\ task' \in [Tasks -> Remembering]
    BY <1>3, IdleTyped, BecomeTyped DEF Crash, TypeInv
  <2> QED
    BY <1>3, <2>1
    DEF Crash, TypeInv, TypeOK, OffersAreFilled, jobVars, courierVars
<1> QED BY <1>1, <1>2, <1>3

LEMMA InitTyped == Init => TypeInv
<1> SUFFICES ASSUME Init PROVE TypeInv
  OBVIOUS
<1>1. task \in [Tasks -> TaskState] /\ task \in [Tasks -> Remembering]
  BY IdleTyped DEF Init, Remembering
<1>2. offer \in [Offers -> OfferRow] /\ OffersAreFilled
  BY DEF Init, NoOffer, OfferRow, OffersAreFilled
<1>3. trail \in [Jobs -> Seq(Event)]
  BY DEF Init
<1>4. rate \in [Couriers -> Counts]
  BY NoCountsTyped DEF Init
<1> QED
  BY <1>1, <1>2, <1>3, <1>4 DEF Init, TypeInv, TypeOK, TrackingStatus

LEMMA StepTyped == TypeInv /\ [Next]_vars => TypeInv'
<1> SUFFICES ASSUME TypeInv, [Next]_vars PROVE TypeInv'
  OBVIOUS
<1>1. ASSUME NEW t \in Tasks, TaskStep(t)
      PROVE  TypeInv'
  BY <1>1, DispatchStepTyped, AcceptStepTyped, SweepStepTyped, ClosingStepTyped
  DEF TaskStep
<1>2. ASSUME NEW t \in Handlers, Request(t)
      PROVE  TypeInv'
  BY <1>2, OpeningStepTyped DEF Tasks
<1>3. ASSUME NEW t \in Sweepers, SweepExpire(t)
      PROVE  TypeInv'
  BY <1>3, OpeningStepTyped DEF Tasks
<1>4. CASE UNCHANGED vars
  BY <1>4
  DEF vars, jobVars, courierVars, bounds, TypeInv, TypeOK, OffersAreFilled
<1> QED
  BY <1>1, <1>2, <1>3, <1>4, OutsideStepTyped DEF Next

\* The inductive strengthening of TypeOK.
LEMMA TypeInvariant == Spec => []TypeInv
  BY InitTyped, StepTyped, PTL DEF Spec

\* Every variable keeps its type, and no statement of any handler ever reads a
\* job, an offer or a status that the handler has not got yet.
THEOREM TypeCorrect == Spec => []TypeOK
<1>1. TypeInv => TypeOK
  BY DEF TypeInv
<1> QED BY <1>1, TypeInvariant, PTL
=============================================================================
