-------------------------- MODULE MaterialTransport --------------------------
(***************************************************************************)
(* Transport of a donated material: a request row on top of a shipment,    *)
(* with a lease on quoting it, the payer's authorization of one quote, and *)
(* the booking that spends it.  It composes with Booking: the shipment,    *)
(* its quotes and its job are Booking's, and the sender may still cancel   *)
(* the shipment directly.                                                  *)
(***************************************************************************)
EXTENDS Booking

CONSTANT TransportKey    \* material_<id>, the key of every booking it makes

ASSUME TransportKeyIsOurs == TransportKey \in Keys \ ForeignKeys

VARIABLES
  transport,  \* the material_transports row
  fresh       \* tasks that read the row and whose updated_at is still the row's

transportVars == <<transport, fresh>>
allVars       == <<vars, transportVars>>
rest          == <<attempt, carrier, jobs, crashes>>

\* Of the transport row, "quote" is authorizedQuoteId (the authorization expires with
\* the quote, so its deadline is not kept apart), and "old" is updated_at more than 30
\* seconds ago.

Unexpired(q) == quote[q] \in {"active", "selected"}
Authorized   == transport.quote # None /\ Unexpired(transport.quote)
Holding(t)   == task[t].claim.quote

\* Every UPDATE moves updated_at, so nobody's copy of the row is current any more.
Update(row) == transport' = row /\ fresh' = {}
SetStatus(s) == Update([transport EXCEPT !.status = s, !.old = FALSE])

\* UPDATE ... WHERE status IN (from).
SetStatusFrom(from, s) ==
  IF transport.status \in from THEN SetStatus(s) ELSE UNCHANGED transportVars

InitTransport ==
  /\ Init
  /\ transport = [status |-> "none", quote |-> None, old |-> FALSE]
  /\ fresh     = {}

-----------------------------------------------------------------------------
(* createTransport and the quote lease *)

CreateTransport(t) ==
  /\ At(t, "idle") /\ t \in Requests
  /\ shipment.status = "none"
  /\ shipment' = [shipment EXCEPT !.status = "quoting"]
  /\ SetStatus("quoting")
  /\ Goto(t, "tQuotes")
  /\ UNCHANGED <<quote, rest>>

\* ensureQuoted, up to its decision.  A courier quote that can still be booked
\* only needs the row to say so; a lease taken in the last 30 seconds stands.
ReadForQuotes(t) ==
  /\ At(t, "idle") /\ t \in Requests
  /\ transport.status \in {"quoting", "quoted", "authorized"}
  /\ IF \E q \in CourierQuotes : Unexpired(q)
     THEN /\ transport.status = "quoting"
          /\ Goto(t, "tQuoted") /\ UNCHANGED fresh
     ELSE /\ transport.status = "quoting" => transport.old
          /\ Goto(t, "tClaim") /\ fresh' = fresh \cup {t}
  /\ UNCHANGED <<shipment, quote, rest, transport>>

\* Mutant: the lease is taken by status, not by the updated_at that was read.
ClaimQuotingByStatus(t) ==
  /\ At(t, "tClaim")
  /\ IF transport.status \in {"quoting", "quoted", "authorized"}
     THEN /\ Update([status |-> "quoting", quote |-> None, old |-> FALSE])
          /\ Goto(t, "tQuotes")
     ELSE UNCHANGED transportVars /\ Finish(t)
  /\ UNCHANGED <<shipment, quote, rest>>

\* The compare-and-swap on updated_at takes the lease and drops the authorization.
ClaimQuoting(t) ==
  /\ At(t, "tClaim")
  /\ IF t \in fresh
     THEN /\ Update([status |-> "quoting", quote |-> None, old |-> FALSE])
          /\ Goto(t, "tQuotes")
     ELSE UNCHANGED transportVars /\ Finish(t)
  /\ UNCHANGED <<shipment, quote, rest>>

RunQuotes(t) ==
  /\ At(t, "tQuotes")
  /\ \/ (\E c \in CourierQuotes : LandQuotes(c)) /\ Goto(t, "tQuoted")
     \/ UNCHANGED <<quote, shipment>> /\ Goto(t, "tQuoteFailed")
  /\ UNCHANGED <<rest, transportVars>>

MarkQuoted(t) ==
  /\ At(t, "tQuoted")
  /\ SetStatusFrom({"quoting"}, "quoted")
  /\ Finish(t)
  /\ UNCHANGED <<shipment, quote, rest>>

\* A failed fan-out gives the lease back at once, by dating it to the epoch.
ReleaseQuoting(t) ==
  /\ At(t, "tQuoteFailed")
  /\ IF transport.status = "quoting"
     THEN Update([transport EXCEPT !.old = TRUE])
     ELSE UNCHANGED transportVars
  /\ Finish(t)
  /\ UNCHANGED <<shipment, quote, rest>>

-----------------------------------------------------------------------------
(* authorizeTransport *)

ReadForAuthorization(t, q) ==
  /\ At(t, "idle") /\ t \in Requests
  /\ transport.status = "quoted" /\ quote[q] = "active"
  /\ Hold(t, "tAuthorize", [NoClaim EXCEPT !.quote = q])
  /\ UNCHANGED <<shipment, quote, rest, transportVars>>

Authorize(t) ==
  /\ At(t, "tAuthorize")
  /\ IF transport.status = "quoted"
     THEN Update([status |-> "authorized", quote |-> Holding(t), old |-> FALSE])
     ELSE UNCHANGED transportVars
  /\ Finish(t)
  /\ UNCHANGED <<shipment, quote, rest>>

-----------------------------------------------------------------------------
(* bookTransport *)

\* An earlier booking that has been out for 30 seconds is taken over.
ReadForBooking(t) ==
  /\ At(t, "idle") /\ t \in Requests
  /\ shipment.job = 0
  /\ LET c == [NoClaim EXCEPT !.quote = transport.quote, !.key = TransportKey]
     IN \/ /\ transport.status \in {"booking", "booking_unknown"} /\ transport.old
           /\ Hold(t, "tRecover", c) /\ fresh' = fresh \cup {t}
        \/ /\ transport.status = "authorized" /\ Authorized
           /\ Hold(t, "tBook", c) /\ UNCHANGED fresh
  /\ UNCHANGED <<shipment, quote, rest, transport>>

Recover(t) ==
  /\ At(t, "tRecover")
  /\ IF t \in fresh
     THEN /\ SetStatus("authorized")
          /\ IF Authorized THEN Goto(t, "tBook") ELSE Finish(t)
     ELSE UNCHANGED transportVars /\ Finish(t)
  /\ UNCHANGED <<shipment, quote, rest>>

ClaimBooking(t) ==
  /\ At(t, "tBook")
  /\ IF transport.status = "authorized" THEN Goto(t, "tReads") ELSE Finish(t)
  /\ SetStatusFrom({"authorized"}, "booking")
  /\ UNCHANGED <<shipment, quote, rest>>

\* Mutant: the fence looks at the status, not at which quote was authorized.
FencedByStatus(t) == transport.status = "booking" /\ Authorized

\* What bookShipment reads, and the transaction of its commit reads again.
Fenced(t) == transport.status = "booking" /\ transport.quote = Holding(t) /\ Authorized

BookShipmentReads(t) ==
  /\ At(t, "tReads")
  /\ IF shipment.status = "booked" THEN Goto(t, "tBooked")
     ELSE IF Bookable(Holding(t)) /\ Fenced(t) THEN Goto(t, "tCommit")
     ELSE Goto(t, "tUnknown")
  /\ UNCHANGED <<shipment, quote, rest, transportVars>>

\* Mutant: the transaction trusts what was read before it.
CommitUnfenced(t) ==
  /\ At(t, "tCommit")
  /\ \/ /\ attempt.status = "none"
        /\ WriteJob(task[t].claim, Claimed(task[t].claim))
        /\ UNCHANGED transportVars /\ Goto(t, "tBooked")
     \/ /\ attempt.job # 0 /\ Goto(t, "tBooked")
        /\ UNCHANGED <<jobs, quote, shipment, attempt, transportVars>>
  /\ UNCHANGED <<carrier, crashes>>

\* The row is locked for the transaction, which marks it booked with its job.
CommitTransport(t) ==
  /\ At(t, "tCommit")
  /\ \/ /\ Fenced(t) /\ attempt.status = "none"
        /\ WriteJob(task[t].claim, Claimed(task[t].claim))
        /\ SetStatus("booked") /\ Goto(t, "tBooked")
     \/ /\ Fenced(t) /\ attempt.job # 0 /\ Goto(t, "tBooked")
        /\ UNCHANGED <<jobs, quote, shipment, attempt, transportVars>>
     \/ /\ ~ (Fenced(t) /\ (attempt.status = "none" \/ attempt.job # 0))
        /\ Goto(t, "tUnknown")
        /\ UNCHANGED <<jobs, quote, shipment, attempt, transportVars>>
  /\ UNCHANGED <<carrier, crashes>>

MarkBooked(t) ==
  /\ At(t, "tBooked")
  /\ SetStatus("booked")
  /\ Finish(t)
  /\ UNCHANGED <<shipment, quote, rest>>

\* Mutant: a failed booking marks the row whatever has become of it.
MarkUnknownAnyway(t) ==
  /\ At(t, "tUnknown")
  /\ SetStatus("booking_unknown")
  /\ Finish(t)
  /\ UNCHANGED <<shipment, quote, rest>>

\* Guarded on the status only: it may be a later booking's.
MarkUnknown(t) ==
  /\ At(t, "tUnknown")
  /\ SetStatusFrom({"booking"}, "booking_unknown")
  /\ Finish(t)
  /\ UNCHANGED <<shipment, quote, rest>>

\* cancelTransport; its second statement cancels the shipment, whatever it is.
CancelTransport(t) ==
  /\ At(t, "idle") /\ t \in Requests
  /\ transport.status \in {"quoting", "quoted", "authorized"}
  /\ SetStatus("cancelled")
  /\ Goto(t, "cancel")
  /\ UNCHANGED <<shipment, quote, rest>>

-----------------------------------------------------------------------------
TransportGrowsOld ==
  /\ transport.status \in {"quoting", "booking", "booking_unknown"}
  /\ ~ transport.old
  /\ transport' = [transport EXCEPT !.old = TRUE]
  /\ UNCHANGED <<vars, fresh>>

TransportStep(t) ==
  \/ ClaimQuoting(t) \/ RunQuotes(t) \/ MarkQuoted(t) \/ ReleaseQuoting(t)
  \/ Authorize(t)
  \/ Recover(t) \/ ClaimBooking(t) \/ BookShipmentReads(t)
  \/ CommitTransport(t) \/ MarkBooked(t) \/ MarkUnknown(t)

\* bookShipment refuses a caller who is not the transport's own booking.
TransportNext ==
  \/ Underway /\ UNCHANGED transportVars
  \/ \E t \in Tasks : CreateShipment(t) /\ UNCHANGED transportVars
  \/ \E t \in Tasks : /\ transport.status = "none"
                      /\ BookDirectly(t) /\ UNCHANGED transportVars
  \/ \E t \in Tasks : Die(t) /\ fresh' = fresh \ {t} /\ UNCHANGED transport
  \/ \E t \in Tasks : \/ TransportStep(t)  \/ CreateTransport(t)
                      \/ ReadForQuotes(t)  \/ ReadForBooking(t)
                      \/ CancelTransport(t)
                      \/ \E q \in CourierQuotes : ReadForAuthorization(t, q)
  \/ TransportGrowsOld

TransportSpec == InitTransport /\ [][TransportNext]_allVars

-----------------------------------------------------------------------------
(* Properties *)

\* cancelTransport and a booking that outlived its lease never both succeed:
\* the commit looks at the row again under a lock.
CancelledTransportHasNoJob == transport.status = "cancelled" => jobs = <<>>

\* What is delivered is the quote the payer's standing authorization names, by a
\* Moovo courier and once, however many bookings were taken over on the way.
JobIsTheAuthorizedOne ==
  transport.status # "none" /\ jobs # <<>>
    => /\ Len(jobs) = 1
       /\ jobs[1].op = 0 /\ jobs[1].quote = transport.quote

\* The request says booked exactly when its job exists: a late failure of an
\* earlier booking does not overwrite it, and none is marked booked without one.
BookedTransportHasItsJob ==
  transport.status = "booked" <=> transport.status # "none" /\ jobs # <<>>

\* An authorization that has not expired is spent by a booking or cancelled,
\* never dropped by a request for new quotes that read the row earlier.
LiveConsentStands ==
  [][transport.status = "authorized" /\ Authorized /\ transport' # transport
       => transport'.status \in {"booking", "cancelled"}]_allVars
=============================================================================
