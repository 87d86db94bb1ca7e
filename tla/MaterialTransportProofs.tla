------------------------ MODULE MaterialTransportProofs ------------------------
(***************************************************************************)
(* What holds of MaterialTransport for every set of quotes, keys, requests *)
(* and reconcilers, proved with TLAPS.                                     *)
(***************************************************************************)
EXTENDS MaterialTransport, BookingProofs

-----------------------------------------------------------------------------
(* A shipment is a transport's from the start, or never: before the row is   *)
(* there, Booking's own invariant holds, and a shipment that is not there    *)
(* has left no trace.                                                        *)

Untouched ==
  shipment.status = "none" =>
    /\ shipment.job = 0 /\ jobs = <<>> /\ attempt.status = "none" /\ attempt.job = 0
    /\ \A q \in Quotes : quote[q] = "none"
    /\ \A n \in Ops : carrier[n].status = "none"
    /\ \A t \in Tasks : At(t, "idle")

NoTransport == transport = [status |-> "none", quote |-> None, old |-> FALSE] /\ fresh = {}

-----------------------------------------------------------------------------
(* Once the row is there nobody books but the transport: no claim on a       *)
(* carrier, and no task on its way to one.                                   *)

OurLabels == {"idle", "cancel", "tQuotes", "tQuoted", "tQuoteFailed", "tClaim",
              "tAuthorize", "tRecover", "tBook", "tReads", "tCommit", "tBooked",
              "tUnknown"}

TransportStatus == {"quoting", "quoted", "authorized", "booking",
                    "booking_unknown", "booked", "cancelled"}

TransportRow == [status : TransportStatus, quote : CourierQuotes \cup {None}, old : BOOLEAN]

OurTypes ==
  /\ task \in [Tasks -> TaskOf(OurLabels)]
  /\ shipment \in Shipment /\ shipment.status # "none"
  /\ quote \in [Quotes -> QuoteStatus]
  /\ jobs \in Seq(Job) /\ attempt \in Attempt
  /\ transport \in TransportRow /\ fresh \subseteq Tasks
  /\ \A n \in Ops : carrier[n].status = "none"

\* A quote that was authorized once was there, and stays lapsed once it has.
Offered == transport.quote # None => quote[transport.quote] # "none"

\* The job, the claim, the shipment and the row agree on whether it is booked.
JobIsOurs ==
  /\ attempt.status \in {"none", "completed"}
  /\ attempt.status = "none" <=> jobs = <<>>
  /\ attempt.job = 0 <=> jobs = <<>>
  /\ shipment.status = "booked" => jobs # <<>>
  /\ transport.status = "booked" <=> jobs # <<>>
  /\ jobs # <<>> =>
       Len(jobs) = 1 /\ jobs[1].op = 0 /\ jobs[1].quote = transport.quote

Holds(st) ==
  /\ st.at = "tAuthorize" =>
       st.claim.quote \in CourierQuotes /\ quote[st.claim.quote] # "none"
  /\ st.at \in {"tRecover", "tBook", "tReads", "tCommit"} => st.claim.op = 0
  /\ st.at = "tBooked" => jobs # <<>>

\* Whose copy of the row is current: what it was read for still holds of it.
Current(t) ==
  \/ /\ At(t, "tClaim")
     /\ transport.status \in {"quoting", "quoted", "authorized"}
     /\ transport.quote # None => ~ Unexpired(transport.quote)
  \/ /\ At(t, "tRecover")
     /\ transport.status \in {"booking", "booking_unknown"}

OursInv ==
  /\ OurTypes /\ Offered /\ JobIsOurs
  /\ \A t \in Tasks : Holds(task[t])
  /\ \A t \in fresh : Current(t)

BeforeInv    == TypeInv /\ Untouched /\ NoTransport
TransportInv == BeforeInv \/ OursInv

-----------------------------------------------------------------------------
(* Before the row is there *)

\* A shipment that is there stays there.
LEMMA ShipmentStays ==
  ASSUME TypeInv, [Next]_vars, shipment.status # "none"
  PROVE  shipment'.status # "none"
<1>1. shipment \in Shipment
  BY DEF TypeInv, TypeOK
<1>2. ASSUME NEW c \in CourierQuotes, LandQuotes(c)
      PROVE  shipment'.status # "none"
  BY <1>1, <1>2 DEF LandQuotes, Shipment
<1>3. ASSUME NEW c, NEW row, WriteJob(c, row)
      PROVE  shipment'.status # "none"
  BY <1>3 DEF WriteJob
<1>4. CASE \E t \in Tasks : CancelWrite(t)
  BY <1>1, <1>4 DEF CancelWrite, Shipment
<1>5. \/ shipment' = shipment
      \/ \E c \in CourierQuotes : LandQuotes(c)
      \/ \E c, row : WriteJob(c, row)
      \/ \E t \in Tasks : CancelWrite(t)
  BY DEF Next, Underway, BookingStep, BookDirectly, QuoteShipment,
         InsertClaim, RetakeClaim, CallCarrier, CarrierReplies, ReleaseRejected,
         ReadAttempt, TakeLookup, LookupFails, LookupAnswers, ReleaseUnbooked,
         RefuseInProgress, CommitCarrier, CommitCourier, TickStarts, CancelRead,
         LapseQuote, CarrierDecides, ClaimGrowsOld, CreateShipment, Book, Die, vars
<1> QED BY <1>2, <1>3, <1>4, <1>5

\* Where there is no shipment, only its creation does anything.
LEMMA NothingHappens ==
  ASSUME TypeInv, Untouched, [Next]_vars, shipment.status = "none"
  PROVE  (\E t \in Tasks : CreateShipment(t)) \/ UNCHANGED vars
<1>1. ASSUME NEW t \in Tasks
      PROVE  ~ BookingStep(t) /\ ~ TickStarts(t) /\ ~ CancelRead(t) /\ ~ Die(t)
  <2>1. task[t].at = "idle" /\ attempt.status = "none"
    BY DEF Untouched, At
  <2> QED
    BY <2>1
       DEF At, BookingStep, QuoteShipment, CancelWrite, InsertClaim, RetakeClaim,
           CallCarrier, CarrierReplies, ReleaseRejected, ReadAttempt, TakeLookup,
           LookupFails, LookupAnswers, ReleaseUnbooked, RefuseInProgress,
           CommitCarrier, CommitCourier, TickStarts, CancelRead, Die
<1>2. ASSUME NEW t \in Tasks
      PROVE  ~ BookDirectly(t)
  BY DEF BookDirectly, Book, Bookable
<1>3. /\ \A q \in Quotes : ~ LapseQuote(q)
      /\ \A n \in Ops : ~ CarrierDecides(n)
      /\ ~ ClaimGrowsOld
  BY DEF Untouched, LapseQuote, CarrierDecides, ClaimGrowsOld
<1> QED BY <1>1, <1>2, <1>3 DEF Next, Underway

LEMMA UntouchedKept ==
  ASSUME TypeInv, Untouched, [Next]_vars
  PROVE  Untouched'
<1>1. CASE shipment.status # "none"
  BY <1>1, ShipmentStays DEF Untouched
<1>2. CASE UNCHANGED vars
  BY <1>2 DEF vars, Untouched, At
<1>3. ASSUME NEW t \in Tasks, CreateShipment(t)
      PROVE  Untouched'
  <2>1. shipment'.status = "quoting"
    BY <1>3 DEF CreateShipment, TypeInv, TypeOK, Shipment
  <2> QED BY <2>1 DEF Untouched
<1> QED BY <1>1, <1>2, <1>3, NothingHappens

-----------------------------------------------------------------------------
(* Once it is there: a task's step leaves the others alone. *)

OthersKeep(t) ==
  /\ task' \in [Tasks -> TaskOf(OurLabels)]
  /\ \A u \in Tasks : u # t => task'[u] = task[u]

LEMMA OurGoto ==
  ASSUME OurTypes, NEW t \in Tasks, NEW label \in OurLabels, Goto(t, label)
  PROVE  OthersKeep(t) /\ task'[t].at = label /\ task'[t].claim = task[t].claim
<1> DEFINE st == [task[t] EXCEPT !.at = label]
<1>1. task \in [Tasks -> TaskOf(OurLabels)]
  BY DEF OurTypes
<1>2. st \in TaskOf(OurLabels) /\ st.at = label /\ st.claim = task[t].claim
  BY <1>1 DEF TaskOf
<1>3. task' = [task EXCEPT ![t] = st]
  BY DEF Goto, Become
<1> HIDE DEF st
<1> QED BY <1>1, <1>2, <1>3 DEF OthersKeep

LEMMA OurFinish ==
  ASSUME OurTypes, NEW t \in Tasks, Finish(t)
  PROVE  OthersKeep(t) /\ task'[t].at = "idle"
<1>1. Idle \in TaskOf(OurLabels) /\ Idle.at = "idle"
  BY ClaimsDiffer DEF Idle, TaskOf, OurLabels
<1>2. task \in [Tasks -> TaskOf(OurLabels)] /\ task' = [task EXCEPT ![t] = Idle]
  BY DEF OurTypes, Finish, Become
<1> QED BY <1>1, <1>2 DEF OthersKeep

LEMMA OurHold ==
  ASSUME OurTypes, NEW t \in Tasks, NEW label \in OurLabels, NEW c \in Claim,
         Hold(t, label, c)
  PROVE  OthersKeep(t) /\ task'[t].at = label /\ task'[t].claim = c
<1> DEFINE st == [Idle EXCEPT !.at = label, !.claim = c]
<1>1. st \in TaskOf(OurLabels) /\ st.at = label /\ st.claim = c
  BY ClaimsDiffer DEF Idle, TaskOf, OurLabels
<1>2. task \in [Tasks -> TaskOf(OurLabels)] /\ task' = [task EXCEPT ![t] = st]
  BY DEF OurTypes, Hold, Become
<1> HIDE DEF st
<1> QED BY <1>1, <1>2 DEF OthersKeep

\* Quotes only ever go from being offered to having lapsed.
QuotesAge ==
  /\ quote' \in [Quotes -> QuoteStatus]
  /\ \A q \in Quotes : quote[q] # "none" =>
       quote'[q] # "none" /\ (~ Unexpired(q) => quote'[q] \notin {"active", "selected"})

LEMMA LandingAges ==
  ASSUME quote \in [Quotes -> QuoteStatus], NEW c \in CourierQuotes, LandQuotes(c)
  PROVE  QuotesAge
  BY DEF LandQuotes, QuotesAge, QuoteStatus, Unexpired

LEMMA KeptQuotesAge ==
  ASSUME quote \in [Quotes -> QuoteStatus], quote' = quote
  PROVE  QuotesAge
  BY DEF QuotesAge, Unexpired

\* A step of one task that writes no job.
LEMMA OurStep ==
  ASSUME OursInv, NEW t \in Tasks, OthersKeep(t), QuotesAge,
         shipment' \in Shipment, shipment'.status # "none",
         shipment'.status = "booked" => shipment.status = "booked",
         jobs' = jobs, attempt' = attempt, carrier' = carrier,
         transport' \in TransportRow, fresh' \subseteq Tasks,
         transport'.status = "booked" <=> transport.status = "booked",
         jobs # <<>> => transport'.quote = transport.quote,
         Offered', Holds(task[t])', \A u \in fresh' : Current(u)'
  PROVE  OursInv'
<1>1. OurTypes'
  BY DEF OursInv, OurTypes, OthersKeep, QuotesAge
<1>2. JobIsOurs'
  BY DEF OursInv, JobIsOurs
<1>3. ASSUME NEW u \in Tasks, u # t
      PROVE  Holds(task[u])'
  <2>1. Holds(task[u]) /\ task'[u] = task[u]
    BY <1>3 DEF OursInv, OthersKeep
  <2> QED BY <2>1 DEF Holds, QuotesAge, Quotes
<1> QED BY <1>1, <1>2, <1>3 DEF OursInv

\* As long as the row stands, its copies stay current.
LEMMA CopiesStay ==
  ASSUME OursInv, NEW t \in Tasks, OthersKeep(t), QuotesAge,
         transport'.status = transport.status, transport'.quote = transport.quote,
         NEW u \in fresh, u # t
  PROVE  Current(u)'
<1>1. Current(u) /\ u \in Tasks /\ task'[u] = task[u]
  BY DEF OursInv, OurTypes, OthersKeep
<1>2. transport.quote # None =>
        (~ Unexpired(transport.quote) => ~ Unexpired(transport.quote)')
  <2>1. transport.quote # None =>
          transport.quote \in Quotes /\ quote[transport.quote] # "none"
    BY DEF OursInv, OurTypes, Offered, TransportRow, Quotes
  <2> QED BY <2>1 DEF QuotesAge, Unexpired
<1> QED BY <1>1, <1>2 DEF Current, At

LEMMA OfferedStays ==
  ASSUME OursInv, QuotesAge, transport'.quote = transport.quote
  PROVE  Offered'
<1>1. transport.quote # None => transport.quote \in Quotes /\ quote[transport.quote] # "none"
  BY DEF OursInv, OurTypes, Offered, TransportRow, Quotes
<1> QED BY <1>1 DEF Offered, QuotesAge

\* A step that leaves the row alone.
LEMMA ReadingStep ==
  ASSUME OursInv, NEW t \in Tasks, OthersKeep(t), QuotesAge,
         shipment' \in Shipment, shipment'.status # "none",
         shipment'.status = "booked" => shipment.status = "booked",
         jobs' = jobs, attempt' = attempt, carrier' = carrier, transport' = transport,
         Holds(task[t])',
         \/ fresh' \subseteq fresh \ {t}
         \/ fresh' = fresh /\ ~ Current(t)
         \/ fresh' = fresh \cup {t} /\ Current(t)'
  PROVE  OursInv'
<1>1. Offered'
  BY OfferedStays
<1>2. transport' \in TransportRow /\ fresh' \subseteq Tasks
  BY DEF OursInv, OurTypes
<1>3. \A u \in fresh' : Current(u)'
  <2>1. t \in fresh => Current(t)
    BY DEF OursInv
  <2>2. \A u \in fresh' : u # t => u \in fresh
    OBVIOUS
  <2>3. \A u \in fresh' : u # t => Current(u)'
    BY <2>2, CopiesStay
  <2>4. t \in fresh' => Current(t)'
    BY <2>1
  <2> QED BY <2>3, <2>4
<1> QED BY <1>1, <1>2, <1>3, OurStep

\* An UPDATE of the row: nobody's copy is current any more.
LEMMA UpdateStep ==
  ASSUME OursInv, NEW t \in Tasks, OthersKeep(t), NEW row \in TransportRow, Update(row),
         UNCHANGED <<shipment, quote, jobs, attempt, carrier>>,
         row.status = "booked" <=> transport.status = "booked",
         jobs # <<>> => row.quote = transport.quote,
         row.quote # None => quote[row.quote] # "none",
         Holds(task[t])'
  PROVE  OursInv'
<1>1. transport' = row /\ fresh' = {}
  BY DEF Update
<1>2. QuotesAge /\ Offered'
  BY <1>1, KeptQuotesAge DEF OursInv, OurTypes, Offered
<1>3. /\ shipment' \in Shipment /\ shipment'.status # "none"
      /\ shipment'.status = "booked" => shipment.status = "booked"
  BY DEF OursInv, OurTypes
<1> QED BY <1>1, <1>2, <1>3, OurStep

\* A status other than booked, set on a row that is not booked.
LEMMA StatusSet ==
  ASSUME OursInv, NEW t \in Tasks, OthersKeep(t), NEW s \in TransportStatus, s # "booked",
         transport.status # "booked", SetStatus(s),
         UNCHANGED <<shipment, quote, jobs, attempt, carrier>>,
         Holds(task[t])'
  PROVE  OursInv'
<1> DEFINE row == [transport EXCEPT !.status = s, !.old = FALSE]
<1>1. /\ row \in TransportRow /\ row.status = s /\ row.quote = transport.quote
      /\ Update(row)
  BY DEF OursInv, OurTypes, TransportRow, SetStatus
<1>2. transport.quote # None => quote[transport.quote] # "none"
  BY DEF OursInv, Offered
<1> HIDE DEF row
<1> QED BY <1>1, <1>2, UpdateStep

\* A guarded update of the status: it happens, or the row stays.
LEMMA StatusMoves ==
  ASSUME OursInv, NEW t \in Tasks, OthersKeep(t), NEW s \in TransportStatus, s # "booked",
         NEW from, "booked" \notin from, SetStatusFrom(from, s),
         UNCHANGED <<shipment, quote, jobs, attempt, carrier>>,
         Holds(task[t])', ~ Current(t)
  PROVE  OursInv'
<1>1. CASE transport.status \in from
  <2>1. SetStatus(s) /\ transport.status # "booked"
    BY <1>1 DEF SetStatusFrom
  <2> QED BY <2>1, StatusSet
<1>2. CASE transport.status \notin from
  <2>1. transport' = transport /\ fresh' = fresh
    BY <1>2 DEF SetStatusFrom, transportVars
  <2>2. /\ QuotesAge /\ shipment' \in Shipment /\ shipment'.status # "none"
        /\ shipment'.status = "booked" => shipment.status = "booked"
    BY KeptQuotesAge DEF OursInv, OurTypes
  <2> QED BY <2>1, <2>2, ReadingStep
<1> QED BY <1>1, <1>2

\* A task at a label it reads at holds no current copy.
LEMMA NotCurrent ==
  ASSUME NEW t \in Tasks, task[t].at \notin {"tClaim", "tRecover"}
  PROVE  ~ Current(t)
  BY DEF Current, At

\* What of Booking still happens.
LEMMA UnderwayKeepsOurs ==
  ASSUME OursInv, Underway, UNCHANGED transportVars
  PROVE  OursInv'
<1> USE DEF OursInv
<1>0. OurTypes /\ QuoteStatus = {"none", "active", "selected", "lapsed"}
  BY DEF QuoteStatus
<1>1. ASSUME NEW t \in Tasks
      PROVE  /\ task[t].at \in OurLabels
             /\ BookingStep(t) => CancelWrite(t)
             /\ ~ TickStarts(t)
  <2>1. task[t].at \in OurLabels
    BY DEF OurTypes, TaskOf
  <2>2. BookingStep(t) => CancelWrite(t)
    BY <2>1
       DEF OurLabels, At, BookingStep, QuoteShipment, InsertClaim, RetakeClaim,
           CallCarrier, CarrierReplies, ReleaseRejected, ReadAttempt, TakeLookup,
           LookupFails, LookupAnswers, ReleaseUnbooked, RefuseInProgress,
           CommitCarrier, CommitCourier
  <2>3. ~ TickStarts(t)
    BY DEF TickStarts, JobIsOurs
  <2> QED BY <2>1, <2>2, <2>3
<1>2. (\A n \in Ops : ~ CarrierDecides(n)) /\ ~ ClaimGrowsOld
  BY DEF CarrierDecides, ClaimGrowsOld, OurTypes, JobIsOurs
<1>3. ASSUME NEW t \in Tasks, CancelWrite(t)
      PROVE  OursInv'
  <2>1. OthersKeep(t) /\ task'[t].at = "idle" /\ task[t].at = "cancel"
    BY <1>0, <1>3, OurFinish DEF CancelWrite, At
  <2>2. QuotesAge /\ ~ Current(t)
    BY <1>0, <1>3, <2>1, KeptQuotesAge, NotCurrent DEF CancelWrite, OurTypes
  <2>3. Holds(task[t])'
    BY <2>1 DEF Holds
  <2>4. shipment' \in Shipment /\ shipment'.status = "cancelled"
    BY <1>3 DEF CancelWrite, OurTypes, Shipment
  <2>5. /\ jobs' = jobs /\ attempt' = attempt /\ carrier' = carrier
        /\ transport' = transport /\ fresh' = fresh
    BY <1>3 DEF CancelWrite, transportVars
  <2> HIDE DEF OursInv
  <2> QED BY <2>1, <2>2, <2>3, <2>4, <2>5, ReadingStep
<1>4. ASSUME NEW t \in Tasks, CancelRead(t)
      PROVE  OursInv'
  <2>1. OthersKeep(t) /\ task'[t].at = "cancel" /\ task[t].at = "idle"
    BY <1>0, <1>4, OurGoto DEF CancelRead, At, OurLabels
  <2>2. QuotesAge /\ ~ Current(t)
    BY <1>0, <1>4, <2>1, KeptQuotesAge, NotCurrent DEF CancelRead, OurTypes
  <2>3. Holds(task[t])'
    BY <2>1 DEF Holds
  <2>4. /\ shipment' \in Shipment /\ shipment'.status # "none" /\ shipment' = shipment
        /\ jobs' = jobs /\ attempt' = attempt /\ carrier' = carrier
        /\ transport' = transport /\ fresh' = fresh
    BY <1>4 DEF CancelRead, transportVars, OurTypes
  <2> HIDE DEF OursInv
  <2> QED BY <2>1, <2>2, <2>3, <2>4, ReadingStep
<1>5. ASSUME NEW q \in Quotes, LapseQuote(q)
      PROVE  OursInv'
  <2>1. /\ task' = task /\ shipment' = shipment /\ jobs' = jobs /\ attempt' = attempt
        /\ carrier' = carrier /\ transport' = transport /\ fresh' = fresh
    BY <1>5 DEF LapseQuote, transportVars
  <2>2. /\ quote' \in [Quotes -> QuoteStatus]
        /\ \A r \in Quotes : quote[r] # "none" => quote'[r] # "none"
        /\ \A r \in Quotes : ~ Unexpired(r) => ~ Unexpired(r)'
    BY <1>0, <1>5 DEF LapseQuote, OurTypes, Unexpired
  <2>3. /\ transport.quote # None => transport.quote \in Quotes
        /\ \A t \in Tasks : task[t].claim.quote \in CourierQuotes
                              => task[t].claim.quote \in Quotes
    BY DEF OurTypes, TransportRow, Quotes
  <2>4. OurTypes' /\ Offered' /\ JobIsOurs'
    BY <2>1, <2>2, <2>3 DEF OurTypes, Offered, JobIsOurs
  <2>5. \A t \in Tasks : Holds(task[t])'
    BY <2>1, <2>2, <2>3 DEF Holds
  <2>6. ~ Unexpired(transport.quote) /\ transport.quote # None
          => ~ Unexpired(transport.quote)'
    BY <2>1, <2>2, <2>3 DEF Unexpired
  <2>7. \A t \in fresh' : Current(t)'
    BY <2>1, <2>6 DEF Current, At
  <2> QED BY <2>4, <2>5, <2>7
<1> QED BY <1>1, <1>2, <1>3, <1>4, <1>5 DEF Underway

\* createTransport makes the shipment its own.
LEMMA CreationIsOurs ==
  ASSUME TypeInv, Untouched, NoTransport, NEW t \in Tasks, CreateTransport(t)
  PROVE  OursInv'
<1>1. /\ shipment.status = "none" /\ task \in [Tasks -> TaskOf(BookingLabels)]
      /\ \A u \in Tasks : task[u].at = "idle"
      /\ attempt \in Attempt /\ jobs \in Seq(Job) /\ quote \in [Quotes -> QuoteStatus]
      /\ jobs = <<>> /\ attempt.status = "none" /\ attempt.job = 0
      /\ \A n \in Ops : carrier[n].status = "none"
  BY DEF CreateTransport, Untouched, TypeInv, TypeOK, At
<1>2. /\ UNCHANGED <<quote, rest>> /\ Goto(t, "tQuotes") /\ fresh' = {}
      /\ transport' = [transport EXCEPT !.status = "quoting", !.old = FALSE]
  BY DEF CreateTransport, SetStatus, Update
<1>3. shipment' \in Shipment /\ shipment'.status = "quoting"
  BY DEF CreateTransport, TypeInv, TypeOK, Shipment
<1>4. transport' \in TransportRow /\ transport'.status = "quoting" /\ transport'.quote = None
  BY <1>2 DEF NoTransport, TransportRow, TransportStatus
<1>5. task \in [Tasks -> TaskOf(OurLabels)]
  <2>1. \A u \in Tasks : task[u] \in TaskOf(OurLabels)
    BY <1>1 DEF TaskOf, OurLabels
  <2> QED BY <1>1, <2>1
<1>6. /\ task' \in [Tasks -> TaskOf(OurLabels)]
      /\ \A u \in Tasks : task'[u].at \in {"idle", "tQuotes"}
  <2> DEFINE st == [task[t] EXCEPT !.at = "tQuotes"]
  <2>1. st \in TaskOf(OurLabels) /\ st.at = "tQuotes"
    BY <1>5 DEF TaskOf, OurLabels
  <2>2. task' = [task EXCEPT ![t] = st]
    BY <1>2 DEF Goto, Become
  <2> HIDE DEF st
  <2> QED BY <1>1, <1>5, <2>1, <2>2
<1>7. OurTypes'
  BY <1>1, <1>2, <1>3, <1>4, <1>6 DEF OurTypes, rest
<1>8. Offered' /\ JobIsOurs'
  BY <1>1, <1>2, <1>3, <1>4 DEF Offered, JobIsOurs, rest
<1>9. \A u \in Tasks : Holds(task[u])'
  BY <1>6 DEF Holds
<1> QED BY <1>2, <1>7, <1>8, <1>9 DEF OursInv

\* The lease on quoting, and the authorization.
LEMMA QuotingKeepsOurs ==
  ASSUME OursInv, NEW t \in Tasks,
         \/ ReadForQuotes(t) \/ ClaimQuoting(t) \/ RunQuotes(t) \/ MarkQuoted(t)
         \/ ReleaseQuoting(t) \/ Authorize(t) \/ CancelTransport(t)
         \/ \E q \in CourierQuotes : ReadForAuthorization(t, q)
  PROVE  OursInv'
<1>0. /\ OurTypes /\ JobIsOurs /\ Offered /\ Holds(task[t])
      /\ transport \in TransportRow /\ quote \in [Quotes -> QuoteStatus]
      /\ shipment \in Shipment /\ shipment.status # "none"
      /\ t \in fresh => Current(t)
  BY DEF OursInv, OurTypes
<1>1. CASE ReadForQuotes(t)
  <2>1. task[t].at = "idle" /\ ~ Current(t) /\ t \notin fresh
    BY <1>0, <1>1, NotCurrent DEF ReadForQuotes, At
  <2>2. /\ UNCHANGED <<shipment, quote, jobs, attempt, carrier, transport>>
        /\ QuotesAge
    BY <1>0, <1>1, KeptQuotesAge DEF ReadForQuotes, rest
  <2>3. CASE Goto(t, "tQuoted") /\ UNCHANGED fresh
    <3>1. OthersKeep(t) /\ task'[t].at = "tQuoted"
      BY <1>0, <2>3, OurGoto DEF OurLabels
    <3>2. Holds(task[t])'
      BY <3>1 DEF Holds
    <3> QED BY <1>0, <2>1, <2>2, <2>3, <3>1, <3>2, ReadingStep
  <2>4. CASE /\ ~ \E q \in CourierQuotes : Unexpired(q)
             /\ Goto(t, "tClaim") /\ fresh' = fresh \cup {t}
    <3>1. OthersKeep(t) /\ task'[t].at = "tClaim"
      BY <1>0, <2>4, OurGoto DEF OurLabels
    <3>2. Holds(task[t])'
      BY <3>1 DEF Holds
    <3>3. transport.quote # None => ~ Unexpired(transport.quote)
      BY <1>0, <2>4 DEF TransportRow
    <3>4. transport'.quote # None => ~ Unexpired(transport.quote)'
      BY <2>2, <3>3 DEF Unexpired
    <3>5. Current(t)'
      BY <1>1, <2>2, <3>1, <3>4 DEF Current, At, ReadForQuotes
    <3> QED BY <1>0, <2>2, <2>4, <3>1, <3>2, <3>5, ReadingStep
  <2> QED BY <1>1, <2>3, <2>4 DEF ReadForQuotes
<1>2. CASE ClaimQuoting(t)
  <2>1. UNCHANGED <<shipment, quote, jobs, attempt, carrier>> /\ task[t].at = "tClaim"
    BY <1>2 DEF ClaimQuoting, rest, At
  <2>2. CASE t \in fresh
    <3> DEFINE row == [status |-> "quoting", quote |-> None, old |-> FALSE]
    <3>1. row \in TransportRow /\ row.status = "quoting" /\ row.quote = None
      BY DEF TransportRow, TransportStatus
    <3>2. Update(row) /\ Goto(t, "tQuotes")
      BY <1>2, <2>2 DEF ClaimQuoting
    <3>3. transport.status # "booked"
      BY <1>0, <2>1, <2>2 DEF Current, At
    <3> HIDE DEF row
    <3>4. OthersKeep(t) /\ task'[t].at = "tQuotes"
      BY <1>0, <3>2, OurGoto DEF OurLabels
    <3>5. Holds(task[t])'
      BY <3>4 DEF Holds
    <3>6. jobs = <<>>
      BY <1>0, <3>3 DEF JobIsOurs
    <3> QED BY <2>1, <3>1, <3>2, <3>3, <3>4, <3>5, <3>6, UpdateStep
  <2>3. CASE t \notin fresh
    <3>1. Finish(t) /\ transport' = transport /\ fresh' = fresh
      BY <1>2, <2>3 DEF ClaimQuoting, transportVars
    <3>2. OthersKeep(t) /\ task'[t].at = "idle"
      BY <1>0, <3>1, OurFinish
    <3>3. Holds(task[t])' /\ QuotesAge
      BY <1>0, <2>1, <3>2, KeptQuotesAge DEF Holds
    <3>4. fresh' \subseteq fresh \ {t}
      BY <2>3, <3>1
    <3> QED BY <1>0, <2>1, <3>1, <3>2, <3>3, <3>4, ReadingStep
  <2> QED BY <2>2, <2>3
<1>3. CASE RunQuotes(t)
  <2>1. /\ UNCHANGED <<jobs, attempt, carrier, transport, fresh>>
        /\ task[t].at = "tQuotes" /\ ~ Current(t)
    BY <1>3, NotCurrent DEF RunQuotes, rest, transportVars, At
  <2>2. PICK label \in {"tQuoted", "tQuoteFailed"} : Goto(t, label)
    BY <1>3 DEF RunQuotes
  <2>3. OthersKeep(t) /\ task'[t].at = label
    BY <1>0, <2>2, OurGoto DEF OurLabels
  <2>4. Holds(task[t])'
    BY <2>3 DEF Holds
  <2>5. \/ \E c \in CourierQuotes : LandQuotes(c)
        \/ quote' = quote /\ shipment' = shipment
    BY <1>3 DEF RunQuotes
  <2>6. QuotesAge
    BY <1>0, <2>5, LandingAges, KeptQuotesAge
  <2>7. /\ shipment' \in Shipment /\ shipment'.status # "none"
        /\ shipment'.status = "booked" => shipment.status = "booked"
    BY <1>0, <2>5 DEF LandQuotes, Shipment
  <2> QED BY <2>1, <2>3, <2>4, <2>6, <2>7, ReadingStep
<1>4. CASE MarkQuoted(t)
  <2>1. UNCHANGED <<shipment, quote, jobs, attempt, carrier>> /\ task[t].at = "tQuoted"
    BY <1>4 DEF MarkQuoted, rest, At
  <2>2. OthersKeep(t) /\ task'[t].at = "idle"
    BY <1>0, <1>4, OurFinish DEF MarkQuoted
  <2>3. Holds(task[t])'
    BY <2>2 DEF Holds
  <2>4. ~ Current(t)
    BY <2>1, NotCurrent
  <2>5. SetStatusFrom({"quoting"}, "quoted")
    BY <1>4 DEF MarkQuoted
  <2>6. "quoted" \in TransportStatus /\ "quoted" # "booked" /\ "booked" \notin {"quoting"}
    BY DEF TransportStatus
  <2> QED BY <2>1, <2>2, <2>3, <2>4, <2>5, <2>6, StatusMoves
<1>5. CASE ReleaseQuoting(t)
  <2>1. /\ UNCHANGED <<shipment, quote, jobs, attempt, carrier>>
        /\ task[t].at = "tQuoteFailed" /\ ~ Current(t)
    BY <1>5, NotCurrent DEF ReleaseQuoting, rest, At
  <2>2. OthersKeep(t) /\ task'[t].at = "idle"
    BY <1>0, <1>5, OurFinish DEF ReleaseQuoting
  <2>3. Holds(task[t])' /\ QuotesAge
    BY <1>0, <2>1, <2>2, KeptQuotesAge DEF Holds
  <2>4. CASE transport.status = "quoting"
    <3> DEFINE row == [transport EXCEPT !.old = TRUE]
    <3>1. /\ row \in TransportRow /\ row.status = transport.status
          /\ row.quote = transport.quote
      BY <1>0 DEF TransportRow
    <3>2. Update(row)
      BY <1>5, <2>4 DEF ReleaseQuoting
    <3> HIDE DEF row
    <3> QED BY <1>0, <2>1, <2>2, <2>3, <3>1, <3>2, UpdateStep DEF Offered
  <2>5. CASE transport.status # "quoting"
    <3>1. transport' = transport /\ fresh' = fresh
      BY <1>5, <2>5 DEF ReleaseQuoting, transportVars
    <3> QED BY <1>0, <2>1, <2>2, <2>3, <3>1, ReadingStep
  <2> QED BY <2>4, <2>5
<1>6. CASE Authorize(t)
  <2>1. /\ UNCHANGED <<shipment, quote, jobs, attempt, carrier>>
        /\ task[t].at = "tAuthorize" /\ ~ Current(t)
    BY <1>6, NotCurrent DEF Authorize, rest, At
  <2>2. OthersKeep(t) /\ task'[t].at = "idle"
    BY <1>0, <1>6, OurFinish DEF Authorize
  <2>3. Holds(task[t])' /\ QuotesAge
    BY <1>0, <2>1, <2>2, KeptQuotesAge DEF Holds
  <2>4. CASE transport.status = "quoted"
    <3> DEFINE row == [status |-> "authorized", quote |-> Holding(t), old |-> FALSE]
    <3>1. Holding(t) \in CourierQuotes /\ quote[Holding(t)] # "none"
      BY <1>0, <2>1 DEF Holds, Holding
    <3>2. row \in TransportRow /\ row.status = "authorized" /\ row.quote = Holding(t)
      BY <3>1 DEF TransportRow, TransportStatus
    <3>3. Update(row) /\ jobs = <<>>
      BY <1>0, <1>6, <2>4 DEF Authorize, JobIsOurs
    <3> HIDE DEF row
    <3> QED BY <2>1, <2>2, <2>3, <2>4, <3>1, <3>2, <3>3, UpdateStep
  <2>5. CASE transport.status # "quoted"
    <3>1. transport' = transport /\ fresh' = fresh
      BY <1>6, <2>5 DEF Authorize, transportVars
    <3> QED BY <1>0, <2>1, <2>2, <2>3, <3>1, ReadingStep
  <2> QED BY <2>4, <2>5
<1>7. CASE CancelTransport(t)
  <2>1. /\ UNCHANGED <<shipment, quote, jobs, attempt, carrier>>
        /\ transport.status # "booked" /\ SetStatus("cancelled")
    BY <1>7 DEF CancelTransport, rest
  <2>2. OthersKeep(t) /\ task'[t].at = "cancel"
    BY <1>0, <1>7, OurGoto DEF CancelTransport, OurLabels
  <2>3. Holds(task[t])'
    BY <2>2 DEF Holds
  <2> QED BY <1>0, <2>1, <2>2, <2>3, StatusSet DEF TransportStatus
<1>8. ASSUME NEW q \in CourierQuotes, ReadForAuthorization(t, q)
      PROVE  OursInv'
  <2> DEFINE c == [NoClaim EXCEPT !.quote = q]
  <2>1. c \in Claim /\ c.quote = q
    BY ClaimsDiffer DEF Claim, NoClaim, Quotes
  <2>2. /\ UNCHANGED <<shipment, quote, jobs, attempt, carrier, transport, fresh>>
        /\ task[t].at = "idle" /\ quote[q] = "active" /\ Hold(t, "tAuthorize", c)
        /\ ~ Current(t)
    BY <1>8, NotCurrent DEF ReadForAuthorization, rest, transportVars, At
  <2> HIDE DEF c
  <2>3. OthersKeep(t) /\ task'[t].at = "tAuthorize" /\ task'[t].claim = c
    BY <1>0, <2>1, <2>2, OurHold DEF OurLabels
  <2>4. Holds(task[t])' /\ QuotesAge
    BY <1>0, <2>1, <2>2, <2>3, KeptQuotesAge DEF Holds
  <2> QED BY <1>0, <2>2, <2>3, <2>4, ReadingStep
<1> QED BY <1>1, <1>2, <1>3, <1>4, <1>5, <1>6, <1>7, <1>8

\* The booking, from reading the row to its commit and what follows it.
LEMMA SpendingKeepsOurs ==
  ASSUME OursInv, NEW t \in Tasks,
         \/ ReadForBooking(t) \/ Recover(t) \/ ClaimBooking(t) \/ BookShipmentReads(t)
         \/ MarkBooked(t) \/ MarkUnknown(t)
  PROVE  OursInv'
<1>0. /\ OurTypes /\ JobIsOurs /\ Offered /\ Holds(task[t])
      /\ transport \in TransportRow /\ quote \in [Quotes -> QuoteStatus]
      /\ shipment \in Shipment /\ shipment.status # "none"
      /\ t \in fresh => Current(t)
  BY DEF OursInv, OurTypes
<1>a. (quote' = quote => QuotesAge) /\ (task[t].at \notin {"tClaim", "tRecover"} => ~ Current(t))
  BY <1>0, KeptQuotesAge, NotCurrent
<1>1. CASE ReadForBooking(t)
  <2> DEFINE c == [NoClaim EXCEPT !.quote = transport.quote, !.key = TransportKey]
  <2>1. c \in Claim /\ c.op = 0
    BY <1>0, ClaimsDiffer, TransportKeyIsOurs DEF Claim, NoClaim, Quotes, TransportRow
  <2>2. /\ UNCHANGED <<shipment, quote, jobs, attempt, carrier, transport>>
        /\ ~ Current(t) /\ QuotesAge
    BY <1>1, <1>a DEF ReadForBooking, rest, At
  <2>3. \/ /\ transport.status \in {"booking", "booking_unknown"}
           /\ Hold(t, "tRecover", c) /\ fresh' = fresh \cup {t}
        \/ Hold(t, "tBook", c) /\ fresh' = fresh
    BY <1>1 DEF ReadForBooking
  <2> HIDE DEF c
  <2>4. CASE /\ transport.status \in {"booking", "booking_unknown"}
             /\ Hold(t, "tRecover", c) /\ fresh' = fresh \cup {t}
    <3>1. OthersKeep(t) /\ task'[t].at = "tRecover" /\ task'[t].claim = c
      BY <1>0, <2>1, <2>4, OurHold DEF OurLabels
    <3>2. Holds(task[t])'
      BY <2>1, <3>1 DEF Holds
    <3>3. Current(t)'
      BY <2>2, <2>4, <3>1 DEF Current, At
    <3> QED BY <1>0, <2>2, <2>4, <3>1, <3>2, <3>3, ReadingStep
  <2>5. CASE Hold(t, "tBook", c) /\ fresh' = fresh
    <3>1. OthersKeep(t) /\ task'[t].at = "tBook" /\ task'[t].claim = c
      BY <1>0, <2>1, <2>5, OurHold DEF OurLabels
    <3>2. Holds(task[t])'
      BY <2>1, <3>1 DEF Holds
    <3> QED BY <1>0, <2>2, <2>5, <3>1, <3>2, ReadingStep
  <2> QED BY <2>3, <2>4, <2>5
<1>2. CASE Recover(t)
  <2>1. UNCHANGED <<shipment, quote, jobs, attempt, carrier>> /\ task[t].at = "tRecover"
    BY <1>2 DEF Recover, rest, At
  <2>2. /\ OthersKeep(t)
        /\ \/ task'[t].at = "idle"
           \/ task'[t].at = "tBook" /\ task'[t].claim = task[t].claim
    <3>1. CASE Goto(t, "tBook")
      BY <1>0, <3>1, OurGoto DEF OurLabels
    <3>2. CASE Finish(t)
      <4>1. OthersKeep(t) /\ task'[t].at = "idle"
        BY <1>0, <3>2, OurFinish
      <4> QED BY <4>1
    <3> QED BY <1>2, <3>1, <3>2 DEF Recover
  <2>3. Holds(task[t])'
    BY <1>0, <2>1, <2>2 DEF Holds
  <2>4. CASE t \in fresh
    <3>1. SetStatus("authorized")
      BY <1>2, <2>4 DEF Recover
    <3>2. transport.status # "booked"
      BY <1>0, <2>1, <2>4 DEF Current, At
    <3>3. "authorized" \in TransportStatus
      BY DEF TransportStatus
    <3> QED BY <2>1, <2>2, <2>3, <3>1, <3>2, <3>3, StatusSet
  <2>5. CASE t \notin fresh
    <3>1. transport' = transport /\ fresh' \subseteq fresh \ {t}
      BY <1>2, <2>5 DEF Recover, transportVars
    <3> QED BY <1>0, <1>a, <2>1, <2>2, <2>3, <3>1, ReadingStep
  <2> QED BY <2>4, <2>5
<1>3. CASE ClaimBooking(t)
  <2>1. UNCHANGED <<shipment, quote, jobs, attempt, carrier>> /\ task[t].at = "tBook"
    BY <1>3 DEF ClaimBooking, rest, At
  <2>2. /\ OthersKeep(t)
        /\ \/ task'[t].at = "idle"
           \/ task'[t].at = "tReads" /\ task'[t].claim = task[t].claim
    <3>1. CASE Goto(t, "tReads")
      BY <1>0, <3>1, OurGoto DEF OurLabels
    <3>2. CASE Finish(t)
      <4>1. OthersKeep(t) /\ task'[t].at = "idle"
        BY <1>0, <3>2, OurFinish
      <4> QED BY <4>1
    <3> QED BY <1>3, <3>1, <3>2 DEF ClaimBooking
  <2>3. Holds(task[t])' /\ ~ Current(t)
    BY <1>0, <1>a, <2>1, <2>2 DEF Holds
  <2>4. SetStatusFrom({"authorized"}, "booking")
    BY <1>3 DEF ClaimBooking
  <2>5. /\ "booking" \in TransportStatus /\ "booking" # "booked"
        /\ "booked" \notin {"authorized"}
    BY DEF TransportStatus
  <2> QED BY <2>1, <2>2, <2>3, <2>4, <2>5, StatusMoves
<1>4. CASE BookShipmentReads(t)
  <2>1. /\ UNCHANGED <<shipment, quote, jobs, attempt, carrier, transport, fresh>>
        /\ task[t].at = "tReads"
    BY <1>4 DEF BookShipmentReads, rest, transportVars, At
  <2>2. PICK label \in {"tBooked", "tCommit", "tUnknown"} :
          Goto(t, label) /\ (label = "tBooked" => shipment.status = "booked")
    BY <1>4 DEF BookShipmentReads
  <2>3. OthersKeep(t) /\ task'[t].at = label /\ task'[t].claim = task[t].claim
    BY <1>0, <2>2, OurGoto DEF OurLabels
  <2>4. label = "tBooked" => jobs # <<>>
    BY <1>0, <2>2 DEF JobIsOurs
  <2>5. Holds(task[t])'
    BY <1>0, <2>1, <2>3, <2>4 DEF Holds
  <2> QED BY <1>0, <1>a, <2>1, <2>3, <2>5, ReadingStep
<1>5. CASE MarkBooked(t)
  <2>1. UNCHANGED <<shipment, quote, jobs, attempt, carrier>> /\ task[t].at = "tBooked"
    BY <1>5 DEF MarkBooked, rest, At
  <2>2. OthersKeep(t) /\ task'[t].at = "idle"
    BY <1>0, <1>5, OurFinish DEF MarkBooked
  <2>3. Holds(task[t])' /\ transport.status = "booked"
    BY <1>0, <2>1, <2>2 DEF Holds, JobIsOurs
  <2> DEFINE row == [transport EXCEPT !.status = "booked", !.old = FALSE]
  <2>4. row \in TransportRow /\ row.status = "booked" /\ row.quote = transport.quote
    BY <1>0 DEF TransportRow, TransportStatus
  <2>5. Update(row)
    BY <1>5 DEF MarkBooked, SetStatus
  <2> HIDE DEF row
  <2> QED BY <1>0, <2>1, <2>2, <2>3, <2>4, <2>5, UpdateStep DEF Offered
<1>6. CASE MarkUnknown(t)
  <2>1. UNCHANGED <<shipment, quote, jobs, attempt, carrier>> /\ task[t].at = "tUnknown"
    BY <1>6 DEF MarkUnknown, rest, At
  <2>2. OthersKeep(t) /\ task'[t].at = "idle"
    BY <1>0, <1>6, OurFinish DEF MarkUnknown
  <2>3. Holds(task[t])' /\ ~ Current(t)
    BY <1>a, <2>1, <2>2 DEF Holds
  <2>4. SetStatusFrom({"booking"}, "booking_unknown")
    BY <1>6 DEF MarkUnknown
  <2>5. /\ "booking_unknown" \in TransportStatus /\ "booking_unknown" # "booked"
        /\ "booked" \notin {"booking"}
    BY DEF TransportStatus
  <2> QED BY <2>1, <2>2, <2>3, <2>4, <2>5, StatusMoves
<1> QED BY <1>1, <1>2, <1>3, <1>4, <1>5, <1>6

\* The commit: one job, of the quote the row names, written with the row.
LEMMA CommitKeepsOurs ==
  ASSUME OursInv, NEW t \in Tasks, CommitTransport(t)
  PROVE  OursInv'
<1>0. /\ OurTypes /\ JobIsOurs /\ Offered /\ Holds(task[t])
      /\ transport \in TransportRow /\ quote \in [Quotes -> QuoteStatus]
      /\ task \in [Tasks -> TaskOf(OurLabels)]
      /\ shipment \in Shipment /\ shipment.status # "none"
      /\ task[t].at = "tCommit" /\ carrier' = carrier
  BY DEF OursInv, OurTypes, CommitTransport, At
<1>1. CASE /\ Fenced(t) /\ attempt.status = "none"
           /\ WriteJob(task[t].claim, Claimed(task[t].claim))
           /\ SetStatus("booked") /\ Goto(t, "tBooked")
  <2>1. OthersKeep(t) /\ task'[t].at = "tBooked" /\ task'[t].claim = task[t].claim
    BY <1>0, <1>1, OurGoto DEF OurLabels
  <2>2. /\ transport' = [transport EXCEPT !.status = "booked", !.old = FALSE]
        /\ fresh' = {}
    BY <1>1 DEF SetStatus, Update
  <2>3. /\ transport' \in TransportRow /\ transport'.status = "booked"
        /\ transport'.quote = transport.quote
    BY <1>0, <2>2 DEF TransportRow, TransportStatus
  <2>4. PICK c \in Claim : c = task[t].claim
    BY <1>0 DEF TaskOf
  <2>5. c.op = 0 /\ c.quote = transport.quote /\ c.quote \in CourierQuotes
    BY <1>0, <1>1, <2>4 DEF Holds, Fenced, Holding, Authorized, TransportRow
  <2>6. c \in Job
    BY <2>4, <2>5 DEF Claim, Job, Quotes
  <2>7. jobs = <<>> /\ WithKey(c.key) = {}
    BY <1>0, <1>1 DEF JobIsOurs, WithKey
  <2>8. /\ jobs' = Append(jobs, c)
        /\ quote' = [quote EXCEPT ![c.quote] =
                       IF @ \in {"active", "selected"} THEN "selected" ELSE @]
        /\ shipment' = [status |-> "booked", job |-> Len(jobs) + 1]
        /\ attempt' = [Claimed(c) EXCEPT !.status = "completed", !.claim.quote = c.quote,
                                         !.job = Len(jobs) + 1, !.old = FALSE]
    BY <1>1, <2>4, <2>7 DEF WriteJob
  <2>9. jobs' = <<c>> /\ jobs' \in Seq(Job) /\ Len(jobs') = 1 /\ jobs'[1] = c /\ jobs' # <<>>
    BY <2>6, <2>7, <2>8
  <2>10. /\ shipment' \in Shipment /\ shipment'.status = "booked"
         /\ attempt' \in Attempt /\ attempt'.status = "completed" /\ attempt'.job = 1
    <3>1. Len(jobs) + 1 = 1
      BY <2>7
    <3>2. shipment' = [status |-> "booked", job |-> 1]
      BY <2>8, <3>1
    <3>3. [c EXCEPT !.quote = c.quote] = c
      BY <2>4 DEF Claim
    <3>4. attempt' = [status |-> "completed", claim |-> [c EXCEPT !.quote = c.quote],
                      job |-> 1, old |-> FALSE]
      <4> DEFINE row == [status |-> "unknown", claim |-> c, job |-> 0, old |-> FALSE]
      <4>1. attempt' = [row EXCEPT !.status = "completed", !.claim.quote = c.quote,
                                   !.job = 1, !.old = FALSE]
        BY <2>8, <3>1 DEF Claimed
      <4> QED BY <4>1
    <3> QED BY <2>4, <3>2, <3>3, <3>4 DEF Shipment, Attempt
  <2>11. /\ quote' \in [Quotes -> QuoteStatus]
         /\ \A q \in Quotes : quote[q] # "none" => quote'[q] # "none"
    BY <1>0, <2>8 DEF QuoteStatus
  <2>12. OurTypes'
    BY <1>0, <2>1, <2>2, <2>3, <2>9, <2>10, <2>11 DEF OurTypes, OthersKeep
  <2>13. JobIsOurs'
    BY <2>3, <2>5, <2>9, <2>10 DEF JobIsOurs
  <2>14. Offered'
    BY <1>0, <2>3, <2>11 DEF Offered, TransportRow, Quotes
  <2>15. ASSUME NEW u \in Tasks
         PROVE  Holds(task[u])'
    <3>1. CASE u = t
      BY <2>1, <2>9, <3>1 DEF Holds
    <3>2. CASE u # t
      <4>1. Holds(task[u]) /\ task'[u] = task[u]
        BY <2>1, <3>2 DEF OursInv, OthersKeep
      <4> QED BY <2>9, <2>11, <4>1 DEF Holds, Quotes
    <3> QED BY <3>1, <3>2
  <2> QED BY <2>2, <2>12, <2>13, <2>14, <2>15 DEF OursInv
<1>2. CASE /\ \/ Goto(t, "tBooked") /\ attempt.job # 0
              \/ Goto(t, "tUnknown")
           /\ UNCHANGED <<jobs, quote, shipment, attempt, transportVars>>
  <2>1. PICK label \in {"tBooked", "tUnknown"} :
          Goto(t, label) /\ (label = "tBooked" => attempt.job # 0)
    BY <1>2
  <2>2. OthersKeep(t) /\ task'[t].at = label
    BY <1>0, <2>1, OurGoto DEF OurLabels
  <2>3. label = "tBooked" => jobs # <<>>
    BY <1>0, <2>1 DEF JobIsOurs
  <2>4. /\ jobs' = jobs /\ quote' = quote /\ shipment' = shipment /\ attempt' = attempt
        /\ transport' = transport /\ fresh' = fresh
    BY <1>2 DEF transportVars
  <2>5. Holds(task[t])' /\ QuotesAge /\ ~ Current(t)
    BY <1>0, <2>2, <2>3, <2>4, KeptQuotesAge, NotCurrent DEF Holds
  <2> QED BY <1>0, <2>2, <2>4, <2>5, ReadingStep
<1> QED BY <1>1, <1>2 DEF CommitTransport

\* A task that dies takes its copy of the row with it.
LEMMA DeathKeepsOurs ==
  ASSUME OursInv, NEW t \in Tasks, Die(t), fresh' = fresh \ {t}, transport' = transport
  PROVE  OursInv'
<1>1. OurTypes /\ UNCHANGED <<shipment, quote, attempt, carrier, jobs>> /\ Finish(t)
  BY DEF OursInv, Die
<1>2. OthersKeep(t) /\ task'[t].at = "idle"
  BY <1>1, OurFinish
<1>3. Holds(task[t])' /\ QuotesAge
  BY <1>1, <1>2, KeptQuotesAge DEF Holds, OurTypes
<1>4. /\ shipment' \in Shipment /\ shipment'.status # "none"
      /\ shipment'.status = "booked" => shipment.status = "booked"
  BY <1>1 DEF OurTypes
<1> QED BY <1>1, <1>2, <1>3, <1>4, ReadingStep

LEMMA GrowingOldKeepsOurs ==
  ASSUME OursInv, TransportGrowsOld
  PROVE  OursInv'
<1>1. /\ UNCHANGED <<shipment, quote, attempt, carrier, jobs, task, fresh>>
      /\ transport' = [transport EXCEPT !.old = TRUE] /\ transport \in TransportRow
  BY DEF OursInv, OurTypes, TransportGrowsOld, vars
<1>2. /\ transport' \in TransportRow /\ transport'.status = transport.status
      /\ transport'.quote = transport.quote
  BY <1>1 DEF TransportRow
<1>3. OurTypes' /\ Offered' /\ JobIsOurs'
  BY <1>1, <1>2 DEF OursInv, OurTypes, Offered, JobIsOurs
<1>4. \A t \in Tasks : Holds(task[t])'
  BY <1>1 DEF OursInv, Holds
<1>5. \A t \in fresh' : Current(t)'
  BY <1>1, <1>2 DEF OursInv, Current, At, Unexpired
<1> QED BY <1>3, <1>4, <1>5 DEF OursInv

\* Nobody else books, and there is one row.
LEMMA OursStays ==
  ASSUME OursInv, [TransportNext]_allVars
  PROVE  OursInv'
<1>0. transport.status # "none"
  BY DEF OursInv, OurTypes, TransportRow, TransportStatus
<1>1. CASE Underway /\ UNCHANGED transportVars
  BY <1>1, UnderwayKeepsOurs
<1>2. ASSUME NEW t \in Tasks
      PROVE  /\ ~ CreateShipment(t) /\ ~ CreateTransport(t)
             /\ ~ (transport.status = "none" /\ BookDirectly(t) /\ UNCHANGED transportVars)
  <2>1. shipment.status # "none"
    BY DEF OursInv, OurTypes
  <2> QED BY <2>1, <1>0 DEF CreateShipment, CreateTransport
<1>3. ASSUME NEW t \in Tasks, Die(t), fresh' = fresh \ {t}, UNCHANGED transport
      PROVE  OursInv'
  BY <1>3, DeathKeepsOurs
<1>4. ASSUME NEW t \in Tasks,
             \/ TransportStep(t) \/ ReadForQuotes(t) \/ ReadForBooking(t)
             \/ CancelTransport(t)
             \/ \E q \in CourierQuotes : ReadForAuthorization(t, q)
      PROVE  OursInv'
  BY <1>4, QuotingKeepsOurs, SpendingKeepsOurs, CommitKeepsOurs DEF TransportStep
<1>5. CASE TransportGrowsOld
  BY <1>5, GrowingOldKeepsOurs
<1>6. CASE UNCHANGED allVars
  BY <1>6 DEF allVars, vars, transportVars, OursInv, OurTypes, Offered, JobIsOurs,
              Holds, Current, At, Unexpired
<1> QED BY <1>1, <1>2, <1>3, <1>4, <1>5, <1>6 DEF TransportNext

\* Without a row only its creation, and what Booking does without it, can happen.
LEMMA BeforeStays ==
  ASSUME BeforeInv, [TransportNext]_allVars
  PROVE  TransportInv'
<1>0. /\ TypeInv /\ Untouched /\ NoTransport /\ transport.status = "none" /\ fresh = {}
      /\ \A t \in Tasks : task[t].at \in BookingLabels
  BY DEF BeforeInv, NoTransport, TypeInv, TypeOK, TaskOf
<1>1. CASE [Next]_vars /\ UNCHANGED transportVars
  <2>1. TypeInv' /\ Untouched'
    BY <1>0, <1>1, NextTyped, UntouchedKept
  <2>2. NoTransport'
    BY <1>0, <1>1 DEF NoTransport, transportVars
  <2> QED BY <2>1, <2>2 DEF BeforeInv, TransportInv
<1>2. ASSUME NEW t \in Tasks, CreateTransport(t)
      PROVE  TransportInv'
  BY <1>0, <1>2, CreationIsOurs DEF TransportInv
<1>3. ASSUME NEW t \in Tasks
      PROVE  /\ ~ TransportStep(t) /\ ~ ReadForQuotes(t) /\ ~ ReadForBooking(t)
             /\ ~ CancelTransport(t)
             /\ ~ \E q \in CourierQuotes : ReadForAuthorization(t, q)
  <2>1. ~ TransportStep(t)
    BY <1>0
       DEF BookingLabels, At, TransportStep, ClaimQuoting, RunQuotes, MarkQuoted,
           ReleaseQuoting, Authorize, Recover, ClaimBooking, BookShipmentReads,
           CommitTransport, MarkBooked, MarkUnknown
  <2>2. /\ ~ ReadForQuotes(t) /\ ~ CancelTransport(t)
        /\ ~ \E q \in CourierQuotes : ReadForAuthorization(t, q)
    BY <1>0 DEF ReadForQuotes, CancelTransport, ReadForAuthorization
  <2>3. ~ ReadForBooking(t)
    BY <1>0 DEF ReadForBooking
  <2> QED BY <2>1, <2>2, <2>3
<1>4. ~ TransportGrowsOld
  BY <1>0 DEF TransportGrowsOld
<1>5. ASSUME NEW t \in Tasks, Die(t), fresh' = fresh \ {t}, UNCHANGED transport
      PROVE  [Next]_vars /\ UNCHANGED transportVars
  BY <1>0, <1>5 DEF Next, transportVars
<1>6. ASSUME UNCHANGED allVars
      PROVE  [Next]_vars /\ UNCHANGED transportVars
  BY <1>6 DEF allVars, transportVars
<1>7. ASSUME TransportNext
      PROVE  \/ [Next]_vars /\ UNCHANGED transportVars
             \/ \E t \in Tasks : CreateTransport(t)
  <2>1. Underway \/ (\E t \in Tasks : CreateShipment(t) \/ BookDirectly(t)) => Next
    BY DEF Next
  <2> QED BY <1>3, <1>4, <1>5, <1>7, <2>1 DEF TransportNext
<1> QED BY <1>1, <1>2, <1>6, <1>7

LEMMA InitBefore == InitTransport => TransportInv
<1> SUFFICES ASSUME InitTransport PROVE BeforeInv
  BY DEF TransportInv
<1>1. TypeInv /\ NoTransport
  BY InitTyped DEF InitTransport, NoTransport
<1>2. Untouched
  BY DEF InitTransport, Init, Untouched, At, Idle
<1> QED BY <1>1, <1>2 DEF BeforeInv

LEMMA TransportSound == TransportSpec => []TransportInv
<1>1. TransportInv /\ [TransportNext]_allVars => TransportInv'
  BY OursStays, BeforeStays DEF TransportInv
<1> QED BY <1>1, InitBefore, PTL DEF TransportSpec

-----------------------------------------------------------------------------
(* What a transport promises *)

\* cancelTransport and a booking that outlived its lease never both succeed:
\* a cancelled request has no job.
THEOREM CancelledHasNoJob == TransportSpec => []CancelledTransportHasNoJob
<1>1. TransportInv => CancelledTransportHasNoJob
  BY DEF TransportInv, BeforeInv, NoTransport, OursInv, JobIsOurs,
         CancelledTransportHasNoJob
<1> QED BY <1>1, TransportSound, PTL

\* However many bookings are taken over, the transport's job is one, by a Moovo
\* courier, of the quote the payer's standing authorization names.
THEOREM JobIsAuthorized == TransportSpec => []JobIsTheAuthorizedOne
<1>1. TransportInv => JobIsTheAuthorizedOne
  BY DEF TransportInv, BeforeInv, NoTransport, OursInv, JobIsOurs,
         JobIsTheAuthorizedOne
<1> QED BY <1>1, TransportSound, PTL

\* A request says booked exactly when its job exists, whatever earlier bookings
\* of it report afterwards.
THEOREM BookedHasItsJob == TransportSpec => []BookedTransportHasItsJob
<1>1. OursInv => transport.status # "none"
  BY DEF OursInv, OurTypes, TransportRow, TransportStatus
<1>2. TransportInv => BookedTransportHasItsJob
  BY <1>1 DEF TransportInv, BeforeInv, NoTransport, OursInv, JobIsOurs,
              BookedTransportHasItsJob
<1> QED BY <1>2, TransportSound, PTL

\* Only a booking spends an authorization that has not expired, and only its
\* cancellation drops it: the swap on updated_at refuses a request for new quotes
\* that read the row before the payer consented.
THEOREM ConsentStands == TransportSpec => LiveConsentStands
<1> DEFINE Stands == transport.status = "authorized" /\ Authorized /\ transport' # transport
                       => transport'.status \in {"booking", "cancelled"}
<1>1. TransportInv /\ [TransportNext]_allVars => Stands
  <2> SUFFICES ASSUME TransportInv, [TransportNext]_allVars,
                      transport.status = "authorized", Authorized,
                      transport' # transport
               PROVE  transport'.status \in {"booking", "cancelled"}
    OBVIOUS
  <2>1. /\ OursInv /\ OurTypes /\ JobIsOurs /\ jobs = <<>> /\ shipment.status # "none"
        /\ transport \in TransportRow
    BY DEF TransportInv, BeforeInv, NoTransport, OursInv, OurTypes, JobIsOurs
  <2>2. PICK t \in Tasks :
          \/ ClaimQuoting(t) \/ MarkQuoted(t) \/ ReleaseQuoting(t) \/ Authorize(t)
          \/ Recover(t) \/ ClaimBooking(t) \/ CommitTransport(t) \/ MarkBooked(t)
          \/ MarkUnknown(t) \/ CancelTransport(t)
    BY <2>1 DEF TransportNext, TransportStep, TransportGrowsOld, transportVars, allVars,
                CreateTransport, RunQuotes, BookShipmentReads, ReadForQuotes,
                ReadForBooking, ReadForAuthorization
  <2>3. t \in fresh => Current(t)
    BY <2>1 DEF OursInv
  <2>4. ~ ClaimQuoting(t)
    BY <2>1, <2>3 DEF ClaimQuoting, Current, At, Authorized, transportVars
  <2>5. ~ Recover(t)
    BY <2>1, <2>3 DEF Recover, Current, At, transportVars
  <2>6. ~ MarkBooked(t)
    BY <2>1 DEF MarkBooked, OursInv, Holds, At
  <2>7. ~ MarkQuoted(t) /\ ~ MarkUnknown(t)
    BY DEF MarkQuoted, MarkUnknown, SetStatusFrom, transportVars
  <2>8. ~ ReleaseQuoting(t) /\ ~ Authorize(t)
    BY DEF ReleaseQuoting, Authorize, transportVars
  <2>9. ~ CommitTransport(t)
    BY DEF CommitTransport, Fenced, transportVars
  <2> QED BY <2>1, <2>2, <2>4, <2>5, <2>6, <2>7, <2>8, <2>9
          DEF ClaimBooking, CancelTransport, SetStatusFrom, SetStatus, Update, TransportRow
<1> QED BY <1>1, TransportSound, PTL DEF TransportSpec, LiveConsentStands
=============================================================================
