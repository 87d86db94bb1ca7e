--------------------------- MODULE FileReferences ---------------------------
(***************************************************************************)
(* Which of Oxy's files Moovo's rows show, and how both sides are kept in   *)
(* step. A trigger puts every use that a write changed into an outbox, in   *)
(* the write's own transaction; workers claim its rows under a lease, look  *)
(* again, and tell Oxy; once a night the whole inventory is reconciled; and *)
(* Oxy's events take a file down from the rows that show it, or put it back.*)
(*                                                                          *)
(* A row has one slot for files, of Cap places; the order of a gallery's    *)
(* pictures is left out. All rows are of one entity type, which has one     *)
(* schedule row. A backoff only delays a claim. config.files.reconcileDryRun*)
(* is at its default: a reconciliation changes what Oxy holds.              *)
(***************************************************************************)
EXTENDS Naturals, Sequences, FiniteSets, Functions

CONSTANTS
  Entities,   \* Moovo's rows that can show a file
  Curated,    \* those of them that are Moovo's own art
  Files,      \* Oxy's files
  Art,        \* those of them that the Moovo application owns
  Cap,        \* how many files a slot holds
  Writers,    \* the requests that edit a row
  Workers,    \* the processes that run the reference dispatcher
  None,       \* no worker
  MaxWrites,  \* bound: edits of a row
  MaxEvents,  \* bound: events of Oxy's
  MaxFaults   \* bound: calls that fail, workers that die, leases that lapse under
              \* a live worker

ASSUME SomeAreCurated  == Curated \subseteq Entities /\ Art \subseteq Files
ASSUME NoneIsNoWorker  == None \notin Workers
ASSUME FilesAreBounded ==
  Cap \in Nat \ {0} /\ {MaxWrites, MaxEvents, MaxFaults} \subseteq Nat

VARIABLES
  slot,      \* the files each row shows
  sync,      \* the file_reference_syncs rows; generation 0: there is none
  night,     \* the file_reference_reconciliations row
  handled,   \* the file_event_receipts, in the order they were written
  cleared,   \* the file_takedown_actions: <<event, row>> of every clearing ...
  answered,  \* ... and those of them an unblock has answered
  writer,    \* what each request is about to write
  worker,    \* what each worker is in the middle of
  held,      \* Oxy: the uses it holds a reference for
  refused,   \* Oxy: the uses it last answered "not_found" about
  barred,    \* Oxy: the files that are not Moovo's to reference
  file,      \* Oxy: what became of each file
  issued,    \* Oxy: its events, in order
  overtaken, \* history: the uses that Oxy has wrong by news that were old
  writes, faults  \* what has been edited, and has gone wrong, so far

moovo  == <<slot, sync, handled, cleared, answered>>
oxy    == <<held, refused, barred, file, issued, overtaken>>
bounds == <<writes, faults>>
vars   == <<moovo, night, writer, worker, oxy, bounds>>

-----------------------------------------------------------------------------

Uses   == Entities \X Files
Events == 1 .. MaxEvents

Row   == [gen : Nat, owner : Workers \cup {None}, live : BOOLEAN]
Night == [due : BOOLEAN, owner : Workers \cup {None}, live : BOOLEAN]
Event == [type : {"blocked", "unblocked", "deleted", "lost"}, file : Files,
          references : SUBSET Entities]

\* What a slot can hold.
Slot == {S \in SUBSET Files : IsFiniteSet(S) /\ Cardinality(S) <= Cap}

\* An edit replaces the whole column of one row.
Idle == [row |-> None, files |-> {}]
Edit == [row : Entities, files : Slot] \cup {Idle}

\* "use" and "gen" are the claimed outbox row, "inventory" the uses streamed to Oxy,
\* "left" the rows that are yet to be read for it.
Resting == [at |-> "idle", use |-> <<>>, gen |-> 0, add |-> FALSE,
            inventory |-> {}, left |-> {}]
Worker  == [at : {"idle", "claimed", "asked", "told", "failed",
                  "streaming", "reconciled"},
            use : Uses \cup {<<>>}, gen : Nat, add : BOOLEAN,
            inventory : SUBSET Uses, left : SUBSET Entities]

NoRow == [gen |-> 0, owner |-> None, live |-> FALSE]

TypeOK ==
  /\ slot     \in [Entities -> Slot]
  /\ sync     \in [Uses -> Row]
  /\ night    \in Night
  /\ handled  \in Seq(Events)
  /\ cleared  \subseteq Events \X Entities
  /\ answered \subseteq cleared
  /\ writer   \in [Writers -> Edit]
  /\ worker   \in [Workers -> Worker]
  /\ held \subseteq Uses /\ refused \subseteq Uses /\ overtaken \subseteq Uses
  /\ barred   \subseteq Files
  /\ file     \in [Files -> {"live", "blocked", "deleted"}]
  /\ issued   \in Seq(Event)
  /\ writes   \in 0 .. MaxWrites
  /\ faults   \in 0 .. MaxFaults

\* moovo_entity_file_ids: what the rows use, told by the rows themselves.
Used(shown) == {u \in Uses : u[2] \in shown[u[1]]}

\* Some rows may show files that Oxy has long been told of, and has accepted unless
\* they are not Moovo's to reference.
Init ==
  /\ slot     \in [Entities -> Slot]
  /\ barred   \in SUBSET Files
  /\ held     = {u \in Used(slot) : u[2] \notin barred}
  /\ refused  = Used(slot) \ held
  /\ overtaken = {}
  /\ sync     = [u \in Uses |-> NoRow]
  /\ night    = [due |-> TRUE, owner |-> None, live |-> FALSE]
  /\ handled  = <<>>
  /\ cleared  = {} /\ answered = {}
  /\ writer   = [p \in Writers |-> Idle]
  /\ worker   = [w \in Workers |-> Resting]
  /\ file     = [f \in Files |-> "live"]
  /\ issued   = <<>>
  /\ writes = 0 /\ faults = 0

Exists(u) == sync[u].gen > 0

Fault == faults < MaxFaults /\ faults' = faults + 1 /\ UNCHANGED writes

\* The trigger: a use that a write changed is asked about (again), in the same
\* transaction; a worker that holds the row keeps its lease.
Enqueued(row) == [row EXCEPT !.gen = @ + 1]

Rewrite(shown) ==
  /\ slot' = shown
  /\ sync' = [u \in Uses |-> IF (u \in Used(shown)) # (u \in Used(slot))
                             THEN Enqueued(sync[u]) ELSE sync[u]]

-----------------------------------------------------------------------------
(* The people who edit rows. *)

\* assertFilesAttachable: a file the row does not already show must be active.
CheckFiles(p) ==
  /\ writer[p] = Idle /\ writes < MaxWrites
  /\ \E e \in Entities : \E S \in Slot \ {slot[e]} :
       /\ \A f \in S \ slot[e] : file[f] = "live"
       /\ writer' = [writer EXCEPT ![p] = [row |-> e, files |-> S]]
  /\ writes' = writes + 1
  /\ UNCHANGED <<moovo, night, worker, oxy, faults>>

WriteRow(p) ==
  /\ writer[p] # Idle
  /\ Rewrite([slot EXCEPT ![writer[p].row] = writer[p].files])
  /\ writer' = [writer EXCEPT ![p] = Idle]
  /\ UNCHANGED <<handled, cleared, answered, night, worker, oxy, bounds>>

-----------------------------------------------------------------------------
(* The outbox: claim, look again, tell Oxy, settle the row. *)

Now(w, at) == worker' = [worker EXCEPT ![w].at = at]
Rest(w)    == worker' = [worker EXCEPT ![w] = Resting]
SetSync(u, row) == sync' = [sync EXCEPT ![u] = row]

ClaimSync(w, u) ==
  /\ worker[w].at = "idle"
  /\ Exists(u) /\ ~sync[u].live
  /\ SetSync(u, [sync[u] EXCEPT !.owner = w, !.live = TRUE])
  /\ worker' = [worker EXCEPT ![w].at = "claimed", ![w].use = u, ![w].gen = sync[u].gen]
  /\ UNCHANGED <<slot, handled, cleared, answered, night, writer, oxy, bounds>>

EntityUsesFile(w) ==
  /\ worker[w].at = "claimed"
  /\ worker' = [worker EXCEPT ![w].at = "asked",
                              ![w].add = worker[w].use \in Used(slot)]
  /\ UNCHANGED <<moovo, night, writer, oxy, bounds>>

\* What Moovo may reference, and can be served.
Welcome(f) == file[f] = "live" /\ f \notin barred

\* Oxy refuses to add a file that is gone, or that is not Moovo's to reference; of a
\* blocked one nothing is said.
Accepts(f) == CASE Welcome(f) -> {TRUE}
                [] file[f] = "deleted" \/ f \in barred -> {FALSE}
                [] OTHER -> BOOLEAN

OxyTakes(w) ==
  LET u == worker[w].use IN
  IF ~worker[w].add THEN held' = held \ {u} /\ refused' = refused \ {u}
  ELSE \E accepted \in Accepts(u[2]) :
         IF accepted THEN held' = held \cup {u} /\ refused' = refused \ {u}
                     ELSE refused' = refused \cup {u} /\ UNCHANGED held

\* What Oxy holds that no row uses, and what it lacks and has not refused.
Wrong(hold, refuse) == (hold \ Used(slot)) \cup (Used(slot) \ (hold \cup refuse))

\* The history of what Oxy was told too late. What the worker that holds a use's
\* outbox row ("own") tells Oxy is never counted: its row is there to be told again.
TooLate(own) ==
  overtaken' = (Wrong(held', refused') \ own) \ (Wrong(held, refused) \ overtaken)

Own(w) == {u \in {worker[w].use} : sync[u].owner = w}

Tell(w) ==
  /\ worker[w].at = "asked"
  /\ OxyTakes(w)
  /\ Now(w, "told")
  /\ TooLate(Own(w))
  /\ UNCHANGED <<moovo, night, writer, barred, file, issued, bounds>>

\* The call fails, and Oxy may have done what it was asked all the same.
TellFails(w) ==
  /\ worker[w].at = "asked"
  /\ Fault
  /\ OxyTakes(w) \/ UNCHANGED <<held, refused>>
  /\ Now(w, "failed")
  /\ TooLate(Own(w))
  /\ UNCHANGED <<moovo, night, writer, barred, file, issued>>

Released(row, w) ==
  IF row.owner = w THEN [row EXCEPT !.owner = None, !.live = FALSE] ELSE row

\* Mutant: the row goes whatever was asked since the claim.
CompletedAnyway(row, w) == IF row.owner = w THEN NoRow ELSE row

\* completeFileReferenceSync: the row goes only if nothing was asked since the claim.
Completed(row, w) ==
  IF row.owner = w /\ row.gen = worker[w].gen THEN NoRow ELSE Released(row, w)

Settle(w) ==
  LET u == worker[w].use IN
  /\ \/ worker[w].at = "told"   /\ SetSync(u, Completed(sync[u], w))
     \/ worker[w].at = "failed" /\ SetSync(u, Released(sync[u], w))
  /\ Rest(w)
  /\ UNCHANGED <<slot, handled, cleared, answered, night, writer, oxy, bounds>>

-----------------------------------------------------------------------------
(* The nightly reconciliation. *)

NightFalls ==
  /\ ~night.due
  /\ night' = [night EXCEPT !.due = TRUE]
  /\ UNCHANGED <<moovo, writer, worker, oxy, bounds>>

\* The claim of the schedule row.
StartNight(w) ==
  /\ worker[w].at = "idle"
  /\ night.due /\ ~night.live
  /\ night' = [night EXCEPT !.owner = w, !.live = TRUE]
  /\ worker' = [worker EXCEPT ![w].at = "streaming", ![w].left = Entities]
  /\ UNCHANGED <<moovo, writer, oxy, bounds>>

\* listEntityFilePage: the inventory is read a page of rows at a time.
ReadPage(w) ==
  /\ worker[w].at = "streaming"
  /\ \E page \in SUBSET worker[w].left \ {{}} :
       worker' = [worker EXCEPT ![w].left = @ \ page,
                                ![w].inventory = @ \cup {u \in Used(slot) : u[1] \in page}]
  /\ UNCHANGED <<moovo, night, writer, oxy, bounds>>

\* Mutant: Oxy is sent what is used, and nothing is removed.
ReconciledAdds(inventory) == held \cup {u \in inventory : Welcome(u[2])}

\* Oxy adds what is missing and removes what is not in the inventory.
Reconciled(inventory) ==
  (held \cap inventory) \cup {u \in inventory : Welcome(u[2])}

Reconcile(w) ==
  /\ worker[w].at = "streaming" /\ worker[w].left = {}
  /\ held' = Reconciled(worker[w].inventory)
  /\ worker' = [worker EXCEPT ![w] = [Resting EXCEPT !.at = "reconciled"]]
  /\ UNCHANGED <<moovo, night, writer, refused, barred, file, issued, bounds>>
  /\ TooLate({})

\* A page cannot be read or the call fails; Oxy may have had the whole inventory.
ReconcileFails(w) ==
  /\ worker[w].at = "streaming"
  /\ Fault
  /\ \/ UNCHANGED held
     \/ worker[w].left = {} /\ held' = Reconciled(worker[w].inventory)
  /\ worker' = [worker EXCEPT ![w] = [Resting EXCEPT !.at = "reconciled"]]
  /\ UNCHANGED <<moovo, night, writer, refused, barred, file, issued>>
  /\ TooLate({})

\* finishReconciliation: the next run is tonight's or, after an error, an hour away.
FinishNight(w) ==
  /\ worker[w].at = "reconciled"
  /\ night' = IF night.owner # w THEN night
              ELSE [night EXCEPT !.owner = None, !.live = FALSE, !.due = FALSE]
  /\ Rest(w)
  /\ UNCHANGED <<moovo, writer, oxy, bounds>>

-----------------------------------------------------------------------------
(* What goes wrong with the workers. *)

Die(w) ==
  /\ worker[w].at # "idle"
  /\ Fault
  /\ Rest(w)
  /\ UNCHANGED <<moovo, night, writer, oxy>>

\* A lease runs out: under nobody, for free; under a worker that is slow, as a fault.
Lapse(busy) == IF busy THEN Fault ELSE UNCHANGED bounds

SyncLapses(u) ==
  /\ sync[u].live
  /\ Lapse(worker[sync[u].owner].use = u)
  /\ SetSync(u, [sync[u] EXCEPT !.live = FALSE])
  /\ UNCHANGED <<slot, handled, cleared, answered, night, writer, worker, oxy>>

NightLapses ==
  /\ night.live
  /\ Lapse(worker[night.owner].at \in {"streaming", "reconciled"})
  /\ night' = [night EXCEPT !.live = FALSE]
  /\ UNCHANGED <<moovo, writer, worker, oxy>>

-----------------------------------------------------------------------------
(* Oxy's events, which are delivered at least once and in any order. *)

\* "lost": the bytes are gone for good.
Becomes == [blocked |-> "blocked", unblocked |-> "live",
            deleted |-> "deleted", lost |-> "deleted"]
Before  == [blocked |-> {"live"}, unblocked |-> {"blocked"},
            deleted |-> {"live", "blocked"}, lost |-> {"live", "blocked"}]

\* CLEARING_EVENTS
Clearing == {"blocked", "deleted", "lost"}

\* The event lists the references Oxy holds when it is issued.
IssueEvent(type, f) ==
  /\ Len(issued) < MaxEvents
  /\ file[f] \in Before[type]
  /\ file' = [file EXCEPT ![f] = Becomes[type]]
  /\ issued' = Append(issued, [type |-> type, file |-> f,
                               references |-> {e \in Entities : <<e, f>> \in held}])
  /\ UNCHANGED <<moovo, night, writer, worker, held, refused, barred, overtaken, bounds>>

Pending(f) == {e \in Entities : Exists(<<e, f>>)}

\* Mutant: only what Oxy knows of is looked at.
CandidatesTold(event) == event.references

\* Where a file can be: the references of the event, the outbox, and Moovo's own art.
Candidates(event) ==
  event.references \cup Pending(event.file)
    \cup IF event.file \in Art THEN {e \in Curated : event.file \in slot[e]} ELSE {}

ClaimReceipt(i) == i \notin Range(handled) /\ handled' = Append(handled, i)

\* Mutant: a delivery is applied without asking for its receipt.
TakeDownAgain(i) ==
  LET f   == issued[i].file
      hit == {e \in Candidates(issued[i]) : f \in slot[e]}
  IN
  /\ issued[i].type \in Clearing
  /\ handled' = IF i \in Range(handled) THEN handled ELSE Append(handled, i)
  /\ Rewrite([e \in Entities |-> IF e \in hit THEN slot[e] \ {f} ELSE slot[e]])
  /\ cleared' = cleared \cup ({i} \X hit)
  /\ answered' = answered \ ({i} \X hit)
  /\ UNCHANGED <<night, writer, worker, oxy, bounds>>

TakeDown(i) ==
  LET f   == issued[i].file
      hit == {e \in Candidates(issued[i]) : f \in slot[e]}
  IN
  /\ issued[i].type \in Clearing
  /\ ClaimReceipt(i)
  /\ Rewrite([e \in Entities |-> IF e \in hit THEN slot[e] \ {f} ELSE slot[e]])
  /\ cleared' = cleared \cup ({i} \X hit)
  /\ UNCHANGED <<answered, night, writer, worker, oxy, bounds>>

\* Mutant: what the block's event named, whether it was cleared or not.
OpenNamed(f) ==
  {c \in Events \X Entities :
     /\ c[1] \in DOMAIN issued /\ c \notin answered
     /\ issued[c[1]].type = "blocked" /\ issued[c[1]].file = f
     /\ c[2] \in issued[c[1]].references}

\* What a block has cleared and nothing has answered yet.
Open(f) ==
  {c \in cleared \ answered : issued[c[1]].type = "blocked" /\ issued[c[1]].file = f}

\* restoreSlot: a slot that is full, or shows the file, is left as it is.
Restored(e, f) == IF Cardinality(slot[e]) < Cap THEN slot[e] \cup {f} ELSE slot[e]

PutBack(i) ==
  LET f == issued[i].file IN
  /\ issued[i].type = "unblocked"
  /\ ClaimReceipt(i)
  /\ Rewrite([e \in Entities |-> IF \E c \in Open(f) : c[2] = e
                                 THEN Restored(e, f) ELSE slot[e]])
  /\ answered' = answered \cup Open(f)
  /\ UNCHANGED <<cleared, night, writer, worker, oxy, bounds>>

-----------------------------------------------------------------------------

WorkerStep(w) ==
  \/ EntityUsesFile(w) \/ Tell(w) \/ Settle(w)
  \/ ReadPage(w) \/ Reconcile(w) \/ FinishNight(w)

Next ==
  \/ \E p \in Writers : CheckFiles(p) \/ WriteRow(p)
  \/ \E w \in Workers :
       \/ WorkerStep(w) \/ StartNight(w)
       \/ TellFails(w) \/ ReconcileFails(w) \/ Die(w)
       \/ \E u \in Uses : ClaimSync(w, u)
  \/ NightFalls \/ NightLapses
  \/ \E u \in Uses : SyncLapses(u)
  \/ \E type \in DOMAIN Becomes : \E f \in Files : IssueEvent(type, f)
  \/ \E i \in DOMAIN issued : TakeDown(i) \/ PutBack(i)

Spec == Init /\ [][Next]_vars

\* A worker that has begun goes on; every tick drains the outbox and then looks at
\* the schedule, so that what is due again and again is claimed; leases run out and
\* nights fall. Nobody has to edit a row, and Oxy has to send nothing.
Fairness ==
  /\ \A w \in Workers : WF_vars(WorkerStep(w))
  /\ \A u \in Uses : /\ SF_vars(\E w \in Workers : ClaimSync(w, u))
                     /\ WF_vars(SyncLapses(u))
  /\ SF_vars(\E w \in Workers : StartNight(w))
  /\ WF_vars(NightFalls) /\ WF_vars(NightLapses)

LiveSpec == Spec /\ Fairness

-----------------------------------------------------------------------------
(* Properties *)

\* A use that Oxy does not know of, or knows of although it is over, is still in the
\* outbox. Two kinds escape: an add that Oxy refused, and a use about which the last
\* that changed Oxy's mind was old: an inventory read before a write whose outbox row
\* was settled since, or a worker that had lost its row to a later one.
\* Guards the triggers, the generation and completeFileReferenceSync.
EveryChangeIsOwed ==
  \A u \in Uses \ overtaken :
    /\ u \in held \ Used(slot) => Exists(u)
    /\ u \in Used(slot) \ held => Exists(u) \/ u \in refused

\* A block, a delete or a loss that is handled leaves no row showing the file but the
\* uses that Oxy was told of after it had issued the event, those it had refused, and
\* those it had lost to old news. The code promises more: "CLEARED from every Moovo row
\* that shows it" (file-events.service.ts:6), which these three escape.
\* Guards the search for candidates in handleFileEvent.
TakedownFindsEveryUse ==
  [][\A i \in DOMAIN issued : TakeDown(i) =>
       \A e \in Entities : issued[i].file \in slot'[e] =>
         LET u == <<e, issued[i].file>> IN
         u \in refused \cup overtaken \/ (u \in held /\ e \notin issued[i].references)]_vars

\* Once every event has been handled, in the order they were issued, nothing that a
\* block has cleared is left unanswered for a file that is live again.
\* Guards the receipts and restoreFileToEntities.
ClearingsAreAnswered ==
  handled = [i \in DOMAIN issued |-> i] =>
    \A c \in cleared : file[issued[c[1]].file] = "live" => c \in answered

\* Whatever was lost on the way, Oxy comes to hold a reference for exactly the uses
\* of every file that is live and Moovo's to reference.
\* Guards the leases, the outbox and reconcileFileReferences together.
OxyComesToAgree ==
  <>[](\A u \in Uses : Welcome(u[2]) => (u \in held <=> u \in Used(slot)))
=============================================================================
