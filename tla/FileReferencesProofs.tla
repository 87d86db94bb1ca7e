------------------------ MODULE FileReferencesProofs ------------------------
(***************************************************************************)
(* What holds of FileReferences for every set of rows, files, writers and  *)
(* workers, proved with TLAPS.                                             *)
(***************************************************************************)
EXTENDS FileReferences, FiniteSetTheorems, TLAPS

-----------------------------------------------------------------------------
(* Typing.  A worker knows its outbox row from the claim to its settlement, *)
(* a use is no empty tuple, and no event has a number beyond the bound.     *)

OnARow == {"claimed", "asked", "told", "failed"}

\* What a worker remembers at its label.
Holding ==
  {k \in Worker : /\ k.at \in OnARow => k.use \in Uses /\ k.gen > 0
                  /\ k.at \notin OnARow => k.use = <<>>}

TypeInv ==
  /\ TypeOK
  /\ worker \in [Workers -> Holding]
  /\ Len(issued) <= MaxEvents
  /\ \A u \in Uses : sync[u].live => sync[u].owner \in Workers

\* A use is no empty tuple: a worker at rest is on no row.
LEMMA UsesArePairs == <<>> \notin Uses
  BY DEF Uses

LEMMA RestingTyped == Resting \in Holding
  BY DEF Resting, Holding, Worker, OnARow

\* A worker's step leaves the memory of every other worker alone.
LEMMA BecomeTyped ==
  ASSUME worker \in [Workers -> Holding], NEW w \in Workers, NEW k \in Holding,
         worker' = [worker EXCEPT ![w] = k]
  PROVE  worker' \in [Workers -> Worker] /\ worker' \in [Workers -> Holding]
  BY DEF Holding

\* A slot stays a slot when a file leaves it, and when one is put back.
LEMMA SlotsStaySlots ==
  ASSUME NEW S \in Slot, NEW f \in Files
  PROVE  /\ S \ {f} \in Slot
         /\ Cardinality(S) < Cap => S \cup {f} \in Slot
<1>1. /\ IsFiniteSet(S) /\ Cardinality(S) \in Nat /\ Cardinality(S) <= Cap
      /\ S \subseteq Files /\ Cap \in Nat
  BY FS_CardinalityType, FilesAreBounded DEF Slot
<1>2. /\ IsFiniteSet(S \ {f})
      /\ Cardinality(S \ {f}) = IF f \in S THEN Cardinality(S) - 1 ELSE Cardinality(S)
  BY <1>1, FS_RemoveElement
<1>3. /\ IsFiniteSet(S \cup {f})
      /\ Cardinality(S \cup {f}) = IF f \in S THEN Cardinality(S) ELSE Cardinality(S) + 1
  BY <1>1, FS_AddElement
<1>4. Cardinality(S \ {f}) <= Cap
  BY <1>1, <1>2
<1>5. Cardinality(S) < Cap => Cardinality(S \cup {f}) <= Cap
  BY <1>1, <1>3
<1> QED BY <1>1, <1>2, <1>3, <1>4, <1>5 DEF Slot

\* The trigger keeps the leases, counts every change, and queues what it counts.
LEMMA RewriteSays ==
  ASSUME sync \in [Uses -> Row], NEW shown, Rewrite(shown)
  PROVE  /\ slot' = shown
         /\ sync' \in [Uses -> Row]
         /\ \A u \in Uses :
              /\ sync'[u].owner = sync[u].owner /\ sync'[u].live = sync[u].live
              /\ \/ /\ sync'[u].gen = sync[u].gen
                    /\ u \in Used(slot)' <=> u \in Used(slot)
                 \/ sync'[u].gen = sync[u].gen + 1
<1>1. ASSUME NEW u \in Uses
      PROVE  /\ Enqueued(sync[u]) \in Row
             /\ Enqueued(sync[u]).owner = sync[u].owner
             /\ Enqueued(sync[u]).live = sync[u].live
             /\ Enqueued(sync[u]).gen = sync[u].gen + 1
  <2>1. sync[u] \in Row
    OBVIOUS
  <2>2. sync[u].gen + 1 \in Nat
    BY <2>1 DEF Row
  <2> QED BY <2>1, <2>2 DEF Enqueued, Row
<1>2. /\ sync' = [u \in Uses |-> IF (u \in Used(shown)) # (u \in Used(slot))
                                THEN Enqueued(sync[u]) ELSE sync[u]]
      /\ slot' = shown
  BY DEF Rewrite
<1>3. Used(slot)' = Used(shown)
  BY <1>2 DEF Used
<1>4. \A u \in Uses : sync'[u] = IF (u \in Used(shown)) # (u \in Used(slot))
                                THEN Enqueued(sync[u]) ELSE sync[u]
  BY <1>2
<1>5. sync' \in [Uses -> Row]
  BY <1>1, <1>2
<1> HIDE DEF Enqueued
<1> QED BY <1>1, <1>2, <1>3, <1>4, <1>5

LEMMA InitTyped == Init => TypeInv
<1> SUFFICES ASSUME Init PROVE TypeInv
  OBVIOUS
<1>1. worker \in [Workers -> Holding] /\ worker \in [Workers -> Worker]
  BY RestingTyped DEF Init, Holding
<1>2. /\ sync \in [Uses -> Row] /\ \A u \in Uses : ~ sync[u].live
  BY DEF Init, NoRow, Row
<1>3. night \in Night
  BY DEF Init, Night
<1>4. handled \in Seq(Events) /\ issued \in Seq(Event) /\ Len(issued) = 0
  BY DEF Init
<1>5. writer \in [Writers -> Edit] /\ file \in [Files -> {"live", "blocked", "deleted"}]
  BY DEF Init, Edit
<1>6. held \subseteq Uses /\ refused \subseteq Uses /\ barred \subseteq Files
  BY DEF Init, Used
<1>7. /\ writes \in 0 .. MaxWrites /\ faults \in 0 .. MaxFaults
      /\ Len(issued) <= MaxEvents
  BY <1>4, FilesAreBounded DEF Init
<1> QED BY <1>1, <1>2, <1>3, <1>4, <1>5, <1>6, <1>7 DEF Init, TypeInv, TypeOK

LEMMA FaultTyped ==
  ASSUME faults \in 0 .. MaxFaults, writes \in 0 .. MaxWrites,
         \/ Fault
         \/ \E busy : Lapse(busy)
         \/ UNCHANGED bounds
  PROVE  faults' \in 0 .. MaxFaults /\ writes' \in 0 .. MaxWrites
  BY FilesAreBounded DEF Fault, Lapse, bounds

\* The history names uses.
LEMMA TooLateTyped ==
  ASSUME NEW own, TooLate(own), held' \subseteq Uses
  PROVE  overtaken' \subseteq Uses
<1>1. Used(slot) \subseteq Uses
  BY DEF Used
<1> QED BY <1>1 DEF TooLate, Wrong

\* The edits.
LEMMA WritersTyped ==
  ASSUME TypeInv, NEW p \in Writers, CheckFiles(p) \/ WriteRow(p)
  PROVE  TypeInv'
<1> USE DEF TypeInv, TypeOK
<1>1. CASE CheckFiles(p)
  <2>1. writer' \in [Writers -> Edit]
    BY <1>1 DEF CheckFiles, Edit
  <2>2. writes' \in 0 .. MaxWrites
    BY <1>1, FilesAreBounded DEF CheckFiles
  <2> QED BY <1>1, <2>1, <2>2 DEF CheckFiles, moovo, oxy
<1>2. CASE WriteRow(p)
  <2>1. writer[p].row \in Entities /\ writer[p].files \in Slot
    BY <1>2 DEF WriteRow, Edit
  <2>2. /\ sync' \in [Uses -> Row]
        /\ slot' = [slot EXCEPT ![writer[p].row] = writer[p].files]
        /\ \A u \in Uses : sync'[u].live => sync'[u].owner \in Workers
    BY <1>2, RewriteSays DEF WriteRow
  <2>3. slot' \in [Entities -> Slot]
    BY <2>1, <2>2
  <2>4. writer' \in [Writers -> Edit]
    BY <1>2 DEF WriteRow, Edit
  <2> QED BY <1>2, <2>2, <2>3, <2>4 DEF WriteRow, oxy, bounds
<1> QED BY <1>1, <1>2

\* The steps of a worker on its outbox row.
LEMMA OutboxTyped ==
  ASSUME TypeInv, NEW w \in Workers,
         \/ \E u \in Uses : ClaimSync(w, u)
         \/ EntityUsesFile(w) \/ Tell(w) \/ TellFails(w) \/ Settle(w)
  PROVE  TypeInv'
<1> USE DEF TypeInv, TypeOK
<1>1. worker[w] \in Holding /\ worker[w] \in Worker
  OBVIOUS
<1>2. ASSUME NEW u \in Uses, ClaimSync(w, u)
      PROVE  TypeInv'
  <2> DEFINE k == [worker[w] EXCEPT !.at = "claimed", !.use = u, !.gen = sync[u].gen]
             row == [sync[u] EXCEPT !.owner = w, !.live = TRUE]
  <2>1. sync[u].gen \in Nat /\ sync[u].gen > 0 /\ sync[u] \in Row
    BY <1>2 DEF ClaimSync, Exists, Row
  <2>2. k \in Holding
    <3>1. u \in Uses \cup {<<>>}
      OBVIOUS
    <3> HIDE DEF TypeInv, TypeOK
    <3>2. k \in Worker
      BY <1>1, <2>1, <3>1 DEF Worker
    <3>3. k.at = "claimed" /\ k.use = u /\ k.gen = sync[u].gen
      BY <1>1 DEF Worker
    <3> HIDE DEF k
    <3> QED BY <2>1, <3>2, <3>3 DEF Holding, OnARow
  <2>3. row \in Row /\ row.owner = w
    <3> HIDE DEF TypeInv, TypeOK
    <3> QED BY <2>1 DEF Row
  <2>4. worker' = [worker EXCEPT ![w] = k] /\ sync' = [sync EXCEPT ![u] = row]
    BY <1>2 DEF ClaimSync, SetSync
  <2>5. worker' \in [Workers -> Worker] /\ worker' \in [Workers -> Holding]
    <3> HIDE DEF k
    <3> QED BY <2>2, <2>4, BecomeTyped
  <2>6. /\ sync' \in [Uses -> Row]
        /\ \A v \in Uses : sync'[v].live => sync'[v].owner \in Workers
    <3> HIDE DEF row
    <3> QED BY <2>3, <2>4
  <2> QED BY <1>2, <2>5, <2>6 DEF ClaimSync, oxy, bounds
<1>3. ASSUME EntityUsesFile(w)
      PROVE  TypeInv'
  <2>0. PICK add \in BOOLEAN : add <=> worker[w].use \in Used(slot)
    OBVIOUS
  <2> DEFINE k == [worker[w] EXCEPT !.at = "asked", !.add = add]
  <2>1. worker[w].at = "claimed" /\ worker' = [worker EXCEPT ![w] = k]
    BY <1>3, <2>0 DEF EntityUsesFile
  <2>2. k \in Holding
    BY <1>1, <2>1 DEF Holding, Worker, OnARow
  <2>3. worker' \in [Workers -> Worker] /\ worker' \in [Workers -> Holding]
    <3> HIDE DEF k
    <3> QED BY <2>1, <2>2, BecomeTyped
  <2> QED BY <1>3, <2>3 DEF EntityUsesFile, moovo, oxy, bounds
<1>4. ASSUME NEW l \in {"told", "failed"}, Now(w, l), worker[w].at = "asked"
      PROVE  worker' \in [Workers -> Worker] /\ worker' \in [Workers -> Holding]
  <2> DEFINE k == [worker[w] EXCEPT !.at = l]
  <2>1. k \in Holding
    BY <1>1, <1>4 DEF Holding, Worker, OnARow
  <2>2. worker' = [worker EXCEPT ![w] = k]
    BY <1>4 DEF Now
  <2> HIDE DEF k
  <2> QED BY <2>1, <2>2, BecomeTyped
<1>5. ASSUME OxyTakes(w), worker[w].at = "asked"
      PROVE  held' \subseteq Uses /\ refused' \subseteq Uses
  <2>1. worker[w].use \in Uses
    BY <1>1, <1>5 DEF Holding, OnARow
  <2> QED BY <1>5, <2>1 DEF OxyTakes
<1>6. CASE Tell(w)
  <2>1. held' \subseteq Uses /\ refused' \subseteq Uses
    BY <1>5, <1>6 DEF Tell
  <2>2. worker' \in [Workers -> Worker] /\ worker' \in [Workers -> Holding]
    BY <1>4, <1>6 DEF Tell
  <2>3. overtaken' \subseteq Uses
    BY <1>6, <2>1, TooLateTyped DEF Tell
  <2> QED BY <1>6, <2>1, <2>2, <2>3 DEF Tell, moovo, bounds
<1>7. CASE TellFails(w)
  <2>1. faults' \in 0 .. MaxFaults /\ writes' \in 0 .. MaxWrites
    BY <1>7, FaultTyped DEF TellFails
  <2>2. held' \subseteq Uses /\ refused' \subseteq Uses
    BY <1>5, <1>7 DEF TellFails
  <2>3. worker' \in [Workers -> Worker] /\ worker' \in [Workers -> Holding]
    BY <1>4, <1>7 DEF TellFails
  <2>4. overtaken' \subseteq Uses
    BY <1>7, <2>2, TooLateTyped DEF TellFails
  <2> QED BY <1>7, <2>1, <2>2, <2>3, <2>4 DEF TellFails, moovo
<1>8. CASE Settle(w)
  <2> DEFINE u == worker[w].use
  <2>1. u \in Uses
    BY <1>1, <1>8 DEF Settle, Holding, OnARow
  <2>2. worker' \in [Workers -> Worker] /\ worker' \in [Workers -> Holding]
    BY <1>8, RestingTyped, BecomeTyped DEF Settle, Rest
  <2>3. PICK row \in {NoRow, sync[u], [sync[u] EXCEPT !.owner = None, !.live = FALSE]} :
          sync' = [sync EXCEPT ![u] = row]
    BY <1>8 DEF Settle, SetSync, Completed, Released
  <2>4. row \in Row /\ (row.live => row.owner \in Workers)
    <3>1. sync[u] \in Row /\ (sync[u].live => sync[u].owner \in Workers)
      BY <2>1
    <3> HIDE DEF u, TypeInv, TypeOK
    <3>2. CASE row = NoRow
      BY <3>2 DEF NoRow, Row
    <3>3. CASE row = [sync[u] EXCEPT !.owner = None, !.live = FALSE]
      BY <3>1, <3>3 DEF Row
    <3> QED BY <2>3, <3>1, <3>2, <3>3
  <2>5. /\ sync' \in [Uses -> Row]
        /\ \A v \in Uses : sync'[v].live => sync'[v].owner \in Workers
    BY <2>1, <2>3, <2>4
  <2> QED BY <1>8, <2>2, <2>5 DEF Settle, oxy, bounds
<1> QED BY <1>2, <1>3, <1>6, <1>7, <1>8

\* The nightly run.
LEMMA NightTyped ==
  ASSUME TypeInv, NEW w \in Workers,
         \/ StartNight(w) \/ ReadPage(w) \/ Reconcile(w)
         \/ ReconcileFails(w) \/ FinishNight(w)
  PROVE  TypeInv'
<1> USE DEF TypeInv, TypeOK
<1>1. worker[w] \in Holding /\ worker[w] \in Worker /\ night \in Night
  OBVIOUS
<1>2. CASE StartNight(w)
  <2> DEFINE k == [worker[w] EXCEPT !.at = "streaming", !.left = Entities]
             n == [night EXCEPT !.owner = w, !.live = TRUE]
  <2>1. worker[w].at = "idle"
    BY <1>2 DEF StartNight
  <2>2. k \in Holding
    BY <1>1, <2>1 DEF Holding, Worker, OnARow
  <2>3. n \in Night
    <3> HIDE DEF TypeInv, TypeOK
    <3> QED BY <1>1 DEF Night
  <2>4. worker' = [worker EXCEPT ![w] = k] /\ night' = n
    BY <1>2 DEF StartNight
  <2>5. worker' \in [Workers -> Worker] /\ worker' \in [Workers -> Holding]
    <3> HIDE DEF k, n
    <3> QED BY <2>2, <2>4, BecomeTyped
  <2> HIDE DEF k, n
  <2> QED BY <1>2, <2>3, <2>4, <2>5 DEF StartNight, moovo, oxy, bounds
<1>3. CASE Reconcile(w) \/ ReconcileFails(w)
  <2> DEFINE k == [Resting EXCEPT !.at = "reconciled"]
  <2>1. k \in Holding
    BY DEF Resting, Holding, Worker, OnARow
  <2>2. worker' = [worker EXCEPT ![w] = k]
    BY <1>3 DEF Reconcile, ReconcileFails
  <2>3. worker' \in [Workers -> Worker] /\ worker' \in [Workers -> Holding]
    <3> HIDE DEF k
    <3> QED BY <2>1, <2>2, BecomeTyped
  <2>4. worker[w].inventory \subseteq Uses
    BY <1>1 DEF Worker
  <2>5. held' \subseteq Uses
    BY <1>3, <2>4 DEF Reconcile, ReconcileFails, Reconciled
  <2>6. faults' \in 0 .. MaxFaults /\ writes' \in 0 .. MaxWrites
    BY <1>3, FaultTyped DEF Reconcile, ReconcileFails
  <2>7. overtaken' \subseteq Uses
    BY <1>3, <2>5, TooLateTyped DEF Reconcile, ReconcileFails
  <2> QED BY <1>3, <2>3, <2>5, <2>6, <2>7 DEF Reconcile, ReconcileFails, moovo
<1>4. CASE FinishNight(w)
  <2> DEFINE n == [night EXCEPT !.owner = None, !.live = FALSE, !.due = FALSE]
  <2>1. n \in Night
    <3> HIDE DEF TypeInv, TypeOK
    <3> QED BY <1>1 DEF Night
  <2>2. night' = night \/ night' = n
    BY <1>4 DEF FinishNight
  <2>3. worker' \in [Workers -> Worker] /\ worker' \in [Workers -> Holding]
    BY <1>4, RestingTyped, BecomeTyped DEF FinishNight, Rest
  <2> HIDE DEF n
  <2> QED BY <1>4, <2>1, <2>2, <2>3 DEF FinishNight, moovo, oxy, bounds
<1>5. CASE ReadPage(w)
  <2>1. PICK page \in SUBSET worker[w].left :
          worker' = [worker EXCEPT
                       ![w].left = @ \ page,
                       ![w].inventory = @ \cup {u \in Used(slot) : u[1] \in page}]
    BY <1>5 DEF ReadPage
  <2> DEFINE read == {u \in Used(slot) : u[1] \in page}
             k == [worker[w] EXCEPT !.left = worker[w].left \ page,
                                    !.inventory = worker[w].inventory \cup read]
  <2>2. read \subseteq Uses
    BY DEF Used
  <2>3. k \in Holding
    <3> HIDE DEF read, TypeInv, TypeOK
    <3> QED BY <1>1, <2>2 DEF Holding, Worker
  <2>4. worker' = [worker EXCEPT ![w] = k]
    BY <2>1
  <2>5. worker' \in [Workers -> Worker] /\ worker' \in [Workers -> Holding]
    <3> HIDE DEF k
    <3> QED BY <2>3, <2>4, BecomeTyped
  <2> QED BY <1>5, <2>5 DEF ReadPage, moovo, oxy, bounds
<1> QED BY <1>2, <1>3, <1>4, <1>5

\* What goes wrong, and Oxy's events.
LEMMA EventsTyped ==
  ASSUME TypeInv,
         \/ \E w \in Workers : Die(w)
         \/ \E u \in Uses : SyncLapses(u)
         \/ \E type \in DOMAIN Becomes : \E f \in Files : IssueEvent(type, f)
         \/ \E i \in DOMAIN issued : TakeDown(i) \/ PutBack(i)
  PROVE  TypeInv'
<1> USE DEF TypeInv, TypeOK
<1>1. ASSUME NEW w \in Workers, Die(w)
      PROVE  TypeInv'
  <2>1. worker' \in [Workers -> Worker] /\ worker' \in [Workers -> Holding]
    BY <1>1, RestingTyped, BecomeTyped DEF Die, Rest
  <2>2. faults' \in 0 .. MaxFaults /\ writes' \in 0 .. MaxWrites
    BY <1>1, FaultTyped DEF Die
  <2> QED BY <1>1, <2>1, <2>2 DEF Die, moovo, oxy
<1>2. ASSUME NEW u \in Uses, SyncLapses(u)
      PROVE  TypeInv'
  <2> DEFINE row == [sync[u] EXCEPT !.live = FALSE]
  <2>1. row \in Row /\ ~ row.live
    <3>1. sync[u] \in Row
      OBVIOUS
    <3> HIDE DEF TypeInv, TypeOK
    <3> QED BY <3>1 DEF Row
  <2>2. sync' = [sync EXCEPT ![u] = row]
    BY <1>2 DEF SyncLapses, SetSync
  <2>3. faults' \in 0 .. MaxFaults /\ writes' \in 0 .. MaxWrites
    BY <1>2, FaultTyped DEF SyncLapses
  <2> HIDE DEF row
  <2>4. /\ sync' \in [Uses -> Row]
        /\ \A v \in Uses : sync'[v].live => sync'[v].owner \in Workers
    BY <2>1, <2>2
  <2> QED BY <1>2, <2>3, <2>4 DEF SyncLapses, oxy
<1>3. ASSUME NEW type \in DOMAIN Becomes, NEW f \in Files, IssueEvent(type, f)
      PROVE  TypeInv'
  <2> DEFINE ev == [type |-> type, file |-> f,
                    references |-> {e \in Entities : <<e, f>> \in held}]
  <2>1. /\ type \in {"blocked", "unblocked", "deleted", "lost"}
        /\ Becomes[type] \in {"live", "blocked", "deleted"}
    BY DEF Becomes
  <2>2. ev \in Event
    BY <2>1 DEF Event
  <2>3. issued' = Append(issued, ev) /\ Len(issued) < MaxEvents
    BY <1>3 DEF IssueEvent
  <2>4. /\ issued' \in Seq(Event) /\ Len(issued') <= MaxEvents
    <3> HIDE DEF ev
    <3> QED BY <2>2, <2>3, FilesAreBounded
  <2>5. file' \in [Files -> {"live", "blocked", "deleted"}]
    BY <1>3, <2>1 DEF IssueEvent
  <2> QED BY <1>3, <2>4, <2>5 DEF IssueEvent, moovo, bounds
<1>4. ASSUME NEW i \in DOMAIN issued, NEW shown \in [Entities -> Slot], Rewrite(shown),
             ClaimReceipt(i), UNCHANGED <<night, writer, worker, oxy, bounds>>,
             cleared' \subseteq Events \X Entities, answered' \subseteq cleared'
      PROVE  TypeInv'
  <2>1. i \in Events
    BY FilesAreBounded DEF Events
  <2>2. handled' \in Seq(Events)
    BY <1>4, <2>1 DEF ClaimReceipt
  <2>3. /\ sync' \in [Uses -> Row] /\ slot' \in [Entities -> Slot]
        /\ \A u \in Uses : sync'[u].live => sync'[u].owner \in Workers
    BY <1>4, RewriteSays
  <2> QED BY <1>4, <2>2, <2>3 DEF oxy, bounds
<1>5. ASSUME NEW i \in DOMAIN issued
      PROVE  /\ issued[i].file \in Files /\ i \in Events
             /\ issued[i].references \subseteq Entities
  <2>1. issued[i] \in Event /\ i \in 1 .. Len(issued)
    OBVIOUS
  <2> HIDE DEF TypeOK
  <2> QED BY <2>1, FilesAreBounded DEF Event, Events
<1>6. ASSUME NEW i \in DOMAIN issued, TakeDown(i)
      PROVE  TypeInv'
  <2> DEFINE f     == issued[i].file
             hit   == {e \in Candidates(issued[i]) : f \in slot[e]}
             shown == [e \in Entities |-> IF e \in hit THEN slot[e] \ {f} ELSE slot[e]]
  <2>1. shown \in [Entities -> Slot]
    BY <1>5, SlotsStaySlots
  <2>3. hit \subseteq Entities
    BY <1>5, SomeAreCurated DEF Candidates, Pending
  <2>4. cleared' = cleared \cup ({i} \X hit) /\ Rewrite(shown) /\ UNCHANGED answered
    BY <1>6 DEF TakeDown
  <2>5. cleared' \subseteq Events \X Entities /\ answered' \subseteq cleared'
    BY <1>5, <2>3, <2>4
  <2> HIDE DEF shown, hit
  <2> QED BY <1>4, <1>6, <2>1, <2>4, <2>5 DEF TakeDown
<1>7. ASSUME NEW i \in DOMAIN issued, PutBack(i)
      PROVE  TypeInv'
  <2> DEFINE f     == issued[i].file
             shown == [e \in Entities |-> IF \E c \in Open(f) : c[2] = e
                                          THEN Restored(e, f) ELSE slot[e]]
  <2>1. shown \in [Entities -> Slot]
    BY <1>5, SlotsStaySlots DEF Restored
  <2>2. answered' = answered \cup Open(f) /\ Rewrite(shown) /\ UNCHANGED cleared
    BY <1>7 DEF PutBack
  <2>3. cleared' \subseteq Events \X Entities /\ answered' \subseteq cleared'
    BY <2>2 DEF Open
  <2> HIDE DEF shown
  <2> QED BY <1>4, <1>7, <2>1, <2>2, <2>3 DEF PutBack
<1> QED BY <1>1, <1>2, <1>3, <1>6, <1>7

LEMMA NextTyped == TypeInv /\ [Next]_vars => TypeInv'
<1> SUFFICES ASSUME TypeInv, [Next]_vars PROVE TypeInv'
  OBVIOUS
<1>1. CASE UNCHANGED vars
  BY <1>1 DEF vars, moovo, oxy, bounds, TypeInv, TypeOK, Used
<1>2. ASSUME NightFalls \/ NightLapses
      PROVE  TypeInv'
  <2> USE DEF TypeInv, TypeOK
  <2>1. night \in Night
    OBVIOUS
  <2>2. night' \in Night
    <3> HIDE DEF TypeInv, TypeOK
    <3> QED BY <1>2, <2>1 DEF NightFalls, NightLapses, Night
  <2>3. faults' \in 0 .. MaxFaults /\ writes' \in 0 .. MaxWrites
    BY <1>2, FaultTyped DEF NightFalls, NightLapses
  <2> QED BY <1>2, <2>2, <2>3 DEF NightFalls, NightLapses, moovo, oxy
<1> QED BY <1>1, <1>2, WritersTyped, OutboxTyped, NightTyped, EventsTyped
        DEF Next, WorkerStep

\* Slots hold no more than they may, receipts and clearings name events that were
\* issued, and an answer is always to a clearing, whatever is edited, lost or late.
THEOREM TypeCorrect == Spec => []TypeOK
<1>1. Spec => []TypeInv
  BY InitTyped, NextTyped, PTL DEF Spec
<1>2. TypeInv => TypeOK
  BY DEF TypeInv
<1> QED BY <1>1, <1>2, PTL

-----------------------------------------------------------------------------
(* What is owed.  A worker that still owns the row it is on, and from whose *)
(* claim on nothing was asked, has told Oxy what the rows say, unless       *)
(* somebody with older news spoke to Oxy after it.                          *)

Settled(u) == /\ u \in held => u \in Used(slot)
              /\ u \in Used(slot) => u \in held \cup refused

Excused(u) == Settled(u) \/ u \in overtaken

\* What is asked of a worker on a row of its own.
Faithful(w) ==
  LET u == worker[w].use IN
  /\ sync[u].gen >= worker[w].gen
  /\ sync[u].gen = worker[w].gen =>
       /\ worker[w].at = "asked" => (worker[w].add <=> u \in Used(slot))
       /\ worker[w].at = "told"  => Excused(u)

OwnsItsRow(w) == worker[w].at \in OnARow /\ sync[worker[w].use].owner = w

OwedInv ==
  /\ \A w \in Workers : OwnsItsRow(w) => Faithful(w)
  /\ \A u \in Uses : Excused(u) \/ Exists(u)

\* What the steps below read of the typing.
LEMMA OwedTypes ==
  ASSUME TypeInv
  PROVE  /\ sync \in [Uses -> Row] /\ worker \in [Workers -> Worker]
         /\ \A u \in Uses : sync[u].gen \in Nat
         /\ \A w \in Workers :
              /\ worker[w].gen \in Nat
              /\ worker[w].at \in OnARow => worker[w].use \in Uses /\ worker[w].gen > 0
              /\ worker[w].at \notin OnARow => worker[w].use = <<>>
<1>1. sync \in [Uses -> Row] /\ worker \in [Workers -> Holding]
  BY DEF TypeInv, TypeOK
<1> QED BY <1>1 DEF Row, Holding, Worker

\* A worker that is where it was, on a row that is as it was, is as faithful as it was.
LEMMA StillFaithful ==
  ASSUME OwedInv, NEW w \in Workers, worker[w].at \in OnARow, worker'[w] = worker[w],
         NEW u, u = worker[w].use, sync'[u].owner = w =>
           /\ sync'[u].owner = sync[u].owner /\ sync'[u].gen = sync[u].gen
           /\ u \in Used(slot)' <=> u \in Used(slot)
           /\ Excused(u) => Excused(u)'
  PROVE  OwnsItsRow(w)' => Faithful(w)'
<1>1. OwnsItsRow(w) => Faithful(w)
  BY DEF OwedInv
<1>2. sync'[u].owner = w => /\ sync[u].gen >= worker[w].gen
                            /\ sync[u].gen = worker[w].gen =>
                                 /\ worker[w].at = "asked" =>
                                      (worker[w].add <=> u \in Used(slot))
                                 /\ worker[w].at = "told" => Excused(u)
  BY <1>1 DEF OwnsItsRow, Faithful
<1>3. ASSUME OwnsItsRow(w)'
      PROVE  Faithful(w)'
  <2>1. sync'[u].owner = w
    BY <1>3 DEF OwnsItsRow
  <2>2. PICK x : x = u /\ x = worker[w].use /\ x = worker'[w].use
    OBVIOUS
  <2>3. worker[w].at = "told" /\ sync[u].gen = worker[w].gen => Excused(u)'
    BY <1>2, <2>1
  <2>4. worker[w].at = "told" /\ sync[u].gen = worker[w].gen => Excused(worker[w].use)'
    BY <2>3 DEF Excused, Settled
  <2> QED BY <1>2, <2>1, <2>4 DEF Faithful
<1> QED BY <1>3

\* Nobody comes to a row, and nothing that the rows, the outbox or Oxy say changes.
LEMMA OwedKept ==
  ASSUME OwedInv, UNCHANGED <<slot, sync, held, refused, overtaken>>,
         \A w \in Workers : worker'[w] = worker[w] \/ worker'[w].at \notin OnARow
  PROVE  OwedInv'
<1>1. Used(slot)' = Used(slot)
  BY DEF Used
<1> QED BY <1>1 DEF OwedInv, OwnsItsRow, Faithful, Excused, Settled, Exists, OnARow

\* A write is counted by the trigger: a worker that asked before it is told apart.
LEMMA RewriteOwes ==
  ASSUME TypeInv, OwedInv, NEW shown, Rewrite(shown),
         UNCHANGED <<worker, held, refused, overtaken>>
  PROVE  OwedInv'
<1>1. \A u \in Uses :
        /\ sync'[u].owner = sync[u].owner
        /\ \/ /\ sync'[u].gen = sync[u].gen
              /\ u \in Used(slot)' <=> u \in Used(slot)
           \/ sync'[u].gen = sync[u].gen + 1
  BY OwedTypes, RewriteSays
<1>2. /\ \A u \in Uses : sync[u].gen \in Nat
      /\ \A w \in Workers :
           /\ worker[w].gen \in Nat
           /\ worker[w].at \in OnARow => worker[w].use \in Uses
  BY OwedTypes
<1>3. ASSUME NEW w \in Workers, OwnsItsRow(w)'
      PROVE  Faithful(w)'
  <2>1. OwnsItsRow(w) /\ worker[w].use \in Uses
    BY <1>1, <1>2, <1>3 DEF OwnsItsRow
  <2>2. Faithful(w)
    BY <2>1 DEF OwedInv
  <2> QED BY <1>1, <1>2, <2>1, <2>2 DEF Faithful, Excused, Settled
<1>4. ASSUME NEW u \in Uses
      PROVE  Excused(u)' \/ Exists(u)'
  BY <1>1, <1>2 DEF OwedInv, Excused, Settled, Exists
<1> QED BY <1>3, <1>4 DEF OwedInv

\* A claim takes the row from whoever was on it.
LEMMA ClaimOwes ==
  ASSUME TypeInv, OwedInv, NEW w \in Workers, NEW u \in Uses, ClaimSync(w, u)
  PROVE  OwedInv'
<1>1. /\ sync \in [Uses -> Row] /\ worker \in [Workers -> Worker]
      /\ \A v \in Workers : worker[v].at \in OnARow => worker[v].use \in Uses
      /\ sync[u].gen \in Nat
  BY OwedTypes
<1>2. /\ \A v \in Workers : v # w => worker'[v] = worker[v]
      /\ worker'[w].at = "claimed" /\ worker'[w].use = u /\ worker'[w].gen = sync[u].gen
  BY <1>1 DEF ClaimSync, Worker
<1>3. /\ \A x \in Uses : x # u => sync'[x] = sync[x]
      /\ sync'[u].owner = w /\ sync'[u].gen = sync[u].gen
  BY <1>1 DEF ClaimSync, SetSync, Row
<1>4. Used(slot)' = Used(slot) /\ UNCHANGED <<held, refused, overtaken>>
  BY DEF ClaimSync, Used, oxy
<1>5. \A x \in Uses : (Excused(x)' <=> Excused(x)) /\ (Exists(x)' <=> Exists(x))
  BY <1>3, <1>4 DEF Excused, Settled, Exists
<1>6. ASSUME NEW v \in Workers, OwnsItsRow(v)'
      PROVE  Faithful(v)'
  <2>1. CASE v = w
    BY <1>1, <1>2, <1>3, <2>1 DEF Faithful
  <2>2. CASE v # w
    <3>1. worker'[v] = worker[v] /\ worker[v].at \in OnARow /\ worker[v].use \in Uses
      BY <1>1, <1>2, <1>6, <2>2 DEF OwnsItsRow
    <3>2. PICK x \in Uses : x = worker[v].use
      BY <3>1
    <3>3. sync'[x].owner = v => sync'[x] = sync[x]
      BY <1>3, <2>2
    <3> QED BY <1>4, <1>5, <1>6, <3>1, <3>2, <3>3, StillFaithful
  <2> QED BY <2>1, <2>2
<1> QED BY <1>5, <1>6 DEF OwedInv

\* Looking again: what the worker is about to tell is what the rows say now.
LEMMA LookOwes ==
  ASSUME TypeInv, OwedInv, NEW w \in Workers, EntityUsesFile(w)
  PROVE  OwedInv'
<1>1. /\ worker \in [Workers -> Worker]
      /\ worker[w].at = "claimed" /\ worker[w].use \in Uses
  BY OwedTypes DEF EntityUsesFile, OnARow
<1>2. /\ \A v \in Workers : v # w => worker'[v] = worker[v]
      /\ worker'[w].at = "asked" /\ worker'[w].use = worker[w].use
      /\ worker'[w].gen = worker[w].gen
      /\ worker'[w].add <=> worker[w].use \in Used(slot)
  BY <1>1 DEF EntityUsesFile, Worker
<1>3. UNCHANGED <<slot, sync, held, refused, overtaken>> /\ Used(slot)' = Used(slot)
  BY DEF EntityUsesFile, moovo, oxy, Used
<1> QED BY <1>1, <1>2, <1>3
        DEF OwedInv, OwnsItsRow, Faithful, Excused, Settled, Exists, OnARow

\* The history misses nothing but what a row's own worker says.
LEMMA TooLateSays ==
  ASSUME NEW own, TooLate(own), UNCHANGED slot, NEW u, u \notin own, Excused(u)
  PROVE  Excused(u)'
<1>1. Used(slot)' = Used(slot)
  BY DEF Used
<1>2. u \in Wrong(held, refused) <=> ~ Settled(u)
  BY DEF Wrong, Settled
<1>3. u \in Wrong(held', refused') <=> ~ Settled(u)'
  BY <1>1 DEF Wrong, Settled
<1> QED BY <1>2, <1>3 DEF TooLate, Excused

\* Telling Oxy: a worker that owns its row still has it; another leaves a trace.
LEMMA TellOwes ==
  ASSUME TypeInv, OwedInv, NEW w \in Workers, Tell(w) \/ TellFails(w)
  PROVE  OwedInv'
<1>0. PICK u \in Uses : u = worker[w].use
  BY OwedTypes DEF Tell, TellFails, OnARow
<1>1. /\ worker \in [Workers -> Worker]
      /\ worker[w].at = "asked" /\ worker[w].use = u
      /\ worker[w].gen > 0 /\ worker[w].gen \in Nat /\ sync[u].gen \in Nat
      /\ \A v \in Workers : worker[v].at \in OnARow => worker[v].use \in Uses
  BY <1>0, OwedTypes DEF Tell, TellFails, OnARow
<1>2. /\ \A v \in Workers : v # w => worker'[v] = worker[v]
      /\ worker'[w].use = u /\ worker'[w].gen = worker[w].gen
      /\ worker'[w].at \in {"told", "failed"}
      /\ worker'[w].at = "told" => OxyTakes(w)
  BY <1>1 DEF Tell, TellFails, Now, Worker
<1>3. UNCHANGED <<slot, sync>> /\ Used(slot)' = Used(slot)
  BY DEF Tell, TellFails, moovo, Used
<1>4. TooLate(Own(w))
  BY DEF Tell, TellFails
<1>5. /\ u \in Own(w) <=> sync[u].owner = w
      /\ \A x : x # u => x \notin Own(w)
  BY <1>1 DEF Own
<1>6. OxyTakes(w) => IF worker[w].add THEN u \in held' \cup refused' ELSE u \notin held'
  BY <1>1 DEF OxyTakes
<1>7. sync[u].owner = w =>
        /\ sync[u].gen >= worker[w].gen
        /\ sync[u].gen = worker[w].gen => (worker[w].add <=> u \in Used(slot))
  BY <1>1 DEF OwedInv, OwnsItsRow, Faithful, OnARow
<1>8. ASSUME NEW x, x # u \/ sync[u].owner # w, Excused(x)
      PROVE  Excused(x)'
  <2>1. x \notin Own(w)
    BY <1>5, <1>8
  <2> QED BY <1>3, <1>4, <1>8, <2>1, TooLateSays
<1>9. ASSUME NEW x \in Uses
      PROVE  Excused(x)' \/ Exists(x)'
  <2>1. CASE x = u /\ sync[u].owner = w
    BY <1>1, <1>3, <1>7, <2>1 DEF Exists
  <2>2. CASE x # u \/ sync[u].owner # w
    BY <1>3, <1>8, <2>2 DEF OwedInv, Exists
  <2> QED BY <2>1, <2>2
<1>10. ASSUME NEW v \in Workers, OwnsItsRow(v)'
       PROVE  Faithful(v)'
  <2>1. CASE v = w
    <3>1. sync[u].owner = w
      BY <1>2, <1>3, <1>10, <2>1 DEF OwnsItsRow
    <3>2. /\ worker'[w].at = "told" /\ sync[u].gen = worker[w].gen => Settled(u)'
      BY <1>2, <1>3, <1>6, <1>7, <3>1 DEF Settled
    <3> QED BY <1>2, <1>3, <1>7, <2>1, <3>1, <3>2 DEF Faithful, Excused, Settled
  <2>2. CASE v # w
    <3>1. worker'[v] = worker[v] /\ worker[v].at \in OnARow /\ worker[v].use \in Uses
      BY <1>1, <1>2, <1>10, <2>2 DEF OwnsItsRow
    <3>2. PICK x \in Uses : x = worker[v].use
      BY <3>1
    <3>3. sync'[x].owner = v => x # u \/ sync[u].owner # w
      BY <1>3, <2>2
    <3> QED BY <1>3, <1>8, <1>10, <3>1, <3>2, <3>3, StillFaithful
  <2> QED BY <2>1, <2>2
<1> QED BY <1>9, <1>10 DEF OwedInv

\* The row goes only if Oxy was told what the rows say; else it stays.
LEMMA SettleOwes ==
  ASSUME TypeInv, OwedInv, NEW w \in Workers, Settle(w)
  PROVE  OwedInv'
<1>0. PICK u \in Uses : u = worker[w].use
  BY OwedTypes DEF Settle, OnARow
<1>1. /\ worker \in [Workers -> Worker] /\ sync \in [Uses -> Row]
      /\ worker[w].at \in OnARow /\ sync[u] \in Row
      /\ \A v \in Workers : worker[v].at \in OnARow => worker[v].use \in Uses
  BY <1>0, OwedTypes DEF Settle, OnARow
<1>2. /\ \A v \in Workers : v # w => worker'[v] = worker[v]
      /\ worker'[w].at = "idle"
  BY <1>1 DEF Settle, Rest, Resting
<1>3. /\ UNCHANGED <<slot, held, refused, overtaken>> /\ Used(slot)' = Used(slot)
      /\ \A x \in Uses : x # u => sync'[x] = sync[x]
  BY <1>0, <1>1 DEF Settle, SetSync, oxy, Used
<1>4. /\ \/ sync'[u].gen = sync[u].gen
         \/ /\ worker[w].at = "told" /\ worker[w].gen = sync[u].gen
            /\ sync[u].owner = w
      /\ sync'[u].owner = None \/ sync'[u] = sync[u]
  <2>1. /\ Released(sync[u], w).gen = sync[u].gen
        /\ Released(sync[u], w).owner = None \/ Released(sync[u], w) = sync[u]
    BY <1>1 DEF Released, Row
  <2>2. /\ \/ Completed(sync[u], w).gen = sync[u].gen
           \/ worker[w].gen = sync[u].gen /\ sync[u].owner = w
        /\ Completed(sync[u], w).owner = None \/ Completed(sync[u], w) = sync[u]
    BY <2>1 DEF Completed, NoRow
  <2>3. \/ worker[w].at = "told" /\ sync'[u] = Completed(sync[u], w)
        \/ sync'[u] = Released(sync[u], w)
    <3> HIDE DEF Completed, Released
    <3> QED BY <1>0, <1>1 DEF Settle, SetSync
  <2> QED BY <2>1, <2>2, <2>3
<1>5. \A x : Excused(x)' <=> Excused(x)
  BY <1>3 DEF Excused, Settled
<1>6. ASSUME NEW x \in Uses
      PROVE  Excused(x)' \/ Exists(x)'
  <2>1. CASE sync'[x].gen = sync[x].gen
    BY <1>5, <2>1 DEF OwedInv, Exists
  <2>2. CASE sync'[x].gen # sync[x].gen
    <3>1. /\ x = u /\ worker[w].at = "told" /\ worker[w].gen = sync[u].gen
          /\ sync[u].owner = w
      BY <1>3, <1>4, <2>2
    <3>2. Excused(worker[w].use)
      BY <1>0, <1>1, <3>1 DEF OwedInv, OwnsItsRow, Faithful
    <3> QED BY <1>0, <1>5, <3>1, <3>2
  <2> QED BY <2>1, <2>2
<1>7. ASSUME NEW v \in Workers, OwnsItsRow(v)'
      PROVE  Faithful(v)'
  <2>1. /\ v # w /\ worker'[v] = worker[v]
        /\ worker[v].at \in OnARow /\ worker[v].use \in Uses
    BY <1>1, <1>2, <1>7 DEF OwnsItsRow, OnARow
  <2>2. PICK x \in Uses : x = worker[v].use
    BY <2>1
  <2>3. sync'[x].owner = v => sync'[x] = sync[x]
    BY <1>3, <1>4, NoneIsNoWorker
  <2> QED BY <1>3, <1>5, <1>7, <2>1, <2>2, <2>3, StillFaithful
<1> QED BY <1>6, <1>7 DEF OwedInv

\* A lease that runs out leaves the row to its owner until another claims it.
LEMMA SyncLapseOwes ==
  ASSUME TypeInv, OwedInv, NEW u \in Uses, SyncLapses(u)
  PROVE  OwedInv'
<1>1. sync \in [Uses -> Row]
      /\ \A v \in Workers : worker[v].at \in OnARow => worker[v].use \in Uses
  BY OwedTypes
<1>2. UNCHANGED <<slot, worker, held, refused, overtaken>> /\ Used(slot)' = Used(slot)
  BY DEF SyncLapses, oxy, Used
<1>3. \A x \in Uses : sync'[x].owner = sync[x].owner /\ sync'[x].gen = sync[x].gen
  BY <1>1 DEF SyncLapses, SetSync, Row
<1> QED BY <1>1, <1>2, <1>3
        DEF OwedInv, OwnsItsRow, Faithful, Excused, Settled, Exists

\* What Oxy is told from an inventory, old or not, is in the history.
LEMMA ReconcileOwes ==
  ASSUME TypeInv, OwedInv, NEW w \in Workers, Reconcile(w) \/ ReconcileFails(w)
  PROVE  OwedInv'
<1>1. worker \in [Workers -> Worker]
  BY OwedTypes
<1>2. \A v \in Workers : worker'[v] = worker[v] \/ worker'[v].at = "reconciled"
  BY <1>1 DEF Reconcile, ReconcileFails, Resting
<1>3. UNCHANGED <<slot, sync>> /\ Used(slot)' = Used(slot)
  BY DEF Reconcile, ReconcileFails, moovo, Used
<1>4. \A x : Excused(x) => Excused(x)'
  BY <1>3, TooLateSays DEF Reconcile, ReconcileFails
<1>5. ASSUME NEW v \in Workers, OwnsItsRow(v)'
      PROVE  Faithful(v)'
  <2>1. worker'[v] = worker[v] /\ worker[v].at \in OnARow
    BY <1>2, <1>5 DEF OwnsItsRow, OnARow
  <2>2. PICK x : x = worker[v].use
    OBVIOUS
  <2> QED BY <1>3, <1>4, <1>5, <2>1, <2>2, StillFaithful
<1> QED BY <1>3, <1>4, <1>5 DEF OwedInv, Exists

LEMMA OwedStep ==
  ASSUME TypeInv, OwedInv, [Next]_vars
  PROVE  OwedInv'
<1>1. worker \in [Workers -> Worker]
  BY DEF TypeInv, TypeOK
<1>2. ASSUME NEW p \in Writers, CheckFiles(p)
      PROVE  OwedInv'
  BY <1>2, OwedKept DEF CheckFiles, moovo, oxy
<1>3. ASSUME NEW p \in Writers, WriteRow(p)
      PROVE  OwedInv'
  BY <1>3, RewriteOwes DEF WriteRow, oxy
<1>4. ASSUME NEW w \in Workers, StartNight(w) \/ ReadPage(w)
      PROVE  OwedInv'
  <2>1. \A v \in Workers : v # w => worker'[v] = worker[v]
    BY <1>1, <1>4 DEF StartNight, ReadPage
  <2>2. worker[w] \in Worker
    BY <1>1
  <2>3. worker'[w].at = "streaming"
    <3>1. CASE StartNight(w)
      BY <1>1, <2>2, <3>1 DEF StartNight, Worker
    <3>2. CASE ReadPage(w)
      <4>1. PICK page \in SUBSET worker[w].left :
              worker' = [worker EXCEPT
                           ![w].left = @ \ page,
                           ![w].inventory = @ \cup {u \in Used(slot) : u[1] \in page}]
        BY <3>2 DEF ReadPage
      <4> DEFINE read == {u \in Used(slot) : u[1] \in page}
                 k == [worker[w] EXCEPT !.left = worker[w].left \ page,
                                        !.inventory = worker[w].inventory \cup read]
      <4>2. worker'[w] = k
        BY <1>1, <4>1
      <4>3. k.at = worker[w].at
        <5> HIDE DEF read
        <5> QED BY <2>2 DEF Worker
      <4> HIDE DEF k
      <4> QED BY <3>2, <4>2, <4>3 DEF ReadPage
    <3> QED BY <1>4, <3>1, <3>2
  <2> QED BY <1>4, <2>1, <2>3, OwedKept DEF StartNight, ReadPage, moovo, oxy, OnARow
<1>5. ASSUME NEW w \in Workers, FinishNight(w) \/ Die(w)
      PROVE  OwedInv'
  <2>1. \A v \in Workers : worker'[v] = worker[v] \/ worker'[v].at = "idle"
    BY <1>1, <1>5 DEF FinishNight, Die, Rest, Resting
  <2> QED BY <1>5, <2>1, OwedKept DEF FinishNight, Die, moovo, oxy, OnARow
<1>6. CASE NightFalls \/ NightLapses \/ UNCHANGED vars
  BY <1>6, OwedKept DEF NightFalls, NightLapses, vars, moovo, oxy
<1>7. ASSUME NEW type, NEW f \in Files, IssueEvent(type, f)
      PROVE  OwedInv'
  BY <1>7, OwedKept DEF IssueEvent, moovo
<1>8. ASSUME NEW i \in DOMAIN issued, TakeDown(i) \/ PutBack(i)
      PROVE  OwedInv'
  BY <1>8, RewriteOwes DEF TakeDown, PutBack, oxy
<1> QED BY <1>2, <1>3, <1>4, <1>5, <1>6, <1>7, <1>8, ClaimOwes, LookOwes, TellOwes,
           SettleOwes, SyncLapseOwes, ReconcileOwes
        DEF Next, WorkerStep

LEMMA OwedInvariant == Spec => [](TypeInv /\ OwedInv)
<1>1. Init => OwedInv
  BY DEF Init, OwedInv, OwnsItsRow, Excused, Settled, Resting, OnARow
<1>2. TypeInv /\ OwedInv /\ [Next]_vars => OwedInv'
  BY OwedStep
<1> QED BY <1>1, <1>2, InitTyped, NextTyped, PTL DEF Spec

\* No use that Oxy has wrong is forgotten, whatever was written while a worker was
\* telling Oxy about it, whatever failed, died or lapsed, and through every
\* reconciliation: its row is in the outbox, or Oxy refused it, or the last that
\* changed Oxy's mind about it was older than the rows.
THEOREM ChangesAreOwed == Spec => []EveryChangeIsOwed
<1>1. OwedInv => EveryChangeIsOwed
  BY DEF OwedInv, EveryChangeIsOwed, Excused, Settled
<1> QED BY <1>1, OwedInvariant, PTL

\* What a takedown overlooks is neither in its event nor in the outbox: Oxy was told
\* of it since, or refused it, or was told of its end too late.
LEMMA TakedownStep ==
  ASSUME TypeInv, OwedInv, NEW i \in DOMAIN issued, TakeDown(i),
         NEW e \in Entities, issued[i].file \in slot'[e]
  PROVE  LET u == <<e, issued[i].file>> IN
         u \in refused \cup overtaken \/ (u \in held /\ e \notin issued[i].references)
<1> DEFINE f   == issued[i].file
           u   == <<e, f>>
           hit == {x \in Candidates(issued[i]) : f \in slot[x]}
<1>1. f \in Files
  <2>1. issued[i] \in Event
    BY DEF TypeInv, TypeOK
  <2> QED BY <2>1 DEF Event
<1>2. slot' = [x \in Entities |-> IF x \in hit THEN slot[x] \ {f} ELSE slot[x]]
  BY DEF TakeDown, Rewrite
<1>3. f \in slot[e] /\ e \notin Candidates(issued[i])
  BY <1>2
<1>4. e \notin issued[i].references /\ ~ Exists(u)
  BY <1>3 DEF Candidates, Pending
<1>5. u \in Uses /\ u \in Used(slot)
  BY <1>1, <1>3 DEF Uses, Used
<1>6. Excused(u)
  BY <1>4, <1>5 DEF OwedInv
<1> QED BY <1>4, <1>5, <1>6 DEF Excused, Settled

\* A takedown, whenever it comes, finds every use that Oxy named or is still owed the
\* news of; what it can miss is named, and is what TakedownFindsEveryUse excepts.
THEOREM TakedownFinds == Spec => TakedownFindsEveryUse
<1>1. TypeInv /\ OwedInv =>
        [\A i \in DOMAIN issued : TakeDown(i) =>
           \A e \in Entities : issued[i].file \in slot'[e] =>
             LET u == <<e, issued[i].file>> IN
             u \in refused \cup overtaken \/ (u \in held /\ e \notin issued[i].references)]_vars
  BY TakedownStep
<1> QED BY <1>1, OwedInvariant, PTL DEF TakedownFindsEveryUse

-----------------------------------------------------------------------------
(* What was cleared.  A file that is live again was unblocked after its     *)
(* last block, and a deleted one stays deleted; while the events come in    *)
(* the order they were issued, an unblock answers all it finds.             *)

HistoryInv ==
  \A i \in DOMAIN issued :
    LET f == issued[i].file IN
    /\ issued[i].type \in {"deleted", "lost"} => file[f] = "deleted"
    /\ issued[i].type = "blocked" /\ file[f] = "live" =>
         \E j \in DOMAIN issued : /\ j > i /\ issued[j].file = f
                                  /\ issued[j].type = "unblocked"

InOrder == \A i \in 1 .. Len(handled) : handled[i] = i

ClearedInv ==
  /\ Range(handled) \subseteq DOMAIN issued
  /\ \A c \in cleared : /\ c[1] \in DOMAIN issued
                        /\ issued[c[1]].type \in Clearing
  /\ InOrder =>
       \A c \in cleared \ answered : issued[c[1]].type = "blocked" =>
         \A j \in 1 .. Len(handled) :
           j > c[1] /\ issued[j].file = issued[c[1]].file =>
             issued[j].type # "unblocked"

\* What the steps below read of the typing.
LEMMA HistoryTypes ==
  ASSUME TypeInv
  PROVE  /\ issued \in Seq(Event) /\ handled \in Seq(Events)
         /\ Len(issued) \in Nat /\ Len(handled) \in Nat
         /\ DOMAIN issued = 1 .. Len(issued) /\ DOMAIN handled = 1 .. Len(handled)
         /\ file \in [Files -> {"live", "blocked", "deleted"}]
         /\ \A i \in DOMAIN issued : issued[i].file \in Files
<1>1. issued \in Seq(Event) /\ handled \in Seq(Events)
  BY DEF TypeInv, TypeOK
<1>2. \A i \in DOMAIN issued : issued[i] \in Event
  BY <1>1
<1>3. \A i \in DOMAIN issued : issued[i].file \in Files
  BY <1>2 DEF Event
<1> QED BY <1>1, <1>3 DEF TypeInv, TypeOK

\* An event is put after those before it.
LEMMA IssueSays ==
  ASSUME TypeInv, NEW type \in DOMAIN Becomes, NEW f \in Files, IssueEvent(type, f)
  PROVE  LET n == Len(issued) + 1 IN
         /\ DOMAIN issued' = 1 .. n /\ DOMAIN issued = 1 .. Len(issued)
         /\ Len(issued) \in Nat
         /\ \A i \in DOMAIN issued : issued'[i] = issued[i]
         /\ issued'[n].type = type /\ issued'[n].file = f
<1> DEFINE ev == [type |-> type, file |-> f,
                  references |-> {e \in Entities : <<e, f>> \in held}]
<1>1. issued' = Append(issued, ev) /\ ev.type = type /\ ev.file = f
  BY DEF IssueEvent
<1>2. issued \in Seq(Event)
  BY HistoryTypes
<1> HIDE DEF ev
<1> QED BY <1>1, <1>2

\* What becomes of the file is what its events say.
LEMMA IssueKeepsHistory ==
  ASSUME TypeInv, HistoryInv, NEW type \in DOMAIN Becomes, NEW f \in Files,
         IssueEvent(type, f)
  PROVE  HistoryInv'
<1> DEFINE n == Len(issued) + 1
<1>1. /\ DOMAIN issued' = 1 .. n /\ DOMAIN issued = 1 .. Len(issued)
      /\ Len(issued) \in Nat
      /\ \A i \in DOMAIN issued : issued'[i] = issued[i]
      /\ issued'[n].type = type /\ issued'[n].file = f
  BY IssueSays
<1>2. /\ file[f] # "deleted" /\ file'[f] = Becomes[type]
      /\ \A g \in Files : g # f => file'[g] = file[g]
      /\ Becomes[type] = "live" => type = "unblocked"
      /\ type \in {"deleted", "lost"} => Becomes[type] = "deleted"
  BY HistoryTypes DEF IssueEvent, Before, Becomes
<1>3. ASSUME NEW i \in DOMAIN issued', issued'[i].type \in {"deleted", "lost"}
      PROVE  file'[issued'[i].file] = "deleted"
  <2>1. CASE i = n
    BY <1>1, <1>2, <1>3, <2>1
  <2>2. CASE i # n
    <3>1. i \in DOMAIN issued /\ issued[i].file \in Files
      BY <1>1, <2>2, HistoryTypes
    <3>2. issued[i].type \in {"deleted", "lost"} /\ issued'[i].file = issued[i].file
      BY <1>1, <1>3, <3>1
    <3> QED BY <1>2, <3>1, <3>2 DEF HistoryInv
  <2> QED BY <2>1, <2>2
<1>4. ASSUME NEW i \in DOMAIN issued', issued'[i].type = "blocked",
             file'[issued'[i].file] = "live"
      PROVE  \E j \in DOMAIN issued' : /\ j > i /\ issued'[j].file = issued'[i].file
                                       /\ issued'[j].type = "unblocked"
  <2>1. i # n
    BY <1>1, <1>2, <1>4
  <2>2. i \in DOMAIN issued /\ issued'[i] = issued[i] /\ issued[i].file \in Files
    BY <1>1, <2>1, HistoryTypes
  <2>3. CASE issued[i].file = f
    <3>1. n \in DOMAIN issued' /\ n > i /\ type = "unblocked"
      BY <1>1, <1>2, <1>4, <2>2, <2>3
    <3> HIDE DEF n
    <3> QED BY <1>1, <2>2, <2>3, <3>1
  <2>4. CASE issued[i].file # f
    <3>1. file[issued[i].file] = "live"
      BY <1>2, <1>4, <2>2, <2>4
    <3>2. PICK j \in DOMAIN issued : /\ j > i /\ issued[j].file = issued[i].file
                                     /\ issued[j].type = "unblocked"
      BY <1>4, <2>2, <3>1 DEF HistoryInv
    <3>3. j \in DOMAIN issued' /\ issued'[j] = issued[j]
      BY <1>1
    <3> QED BY <2>2, <3>2, <3>3
  <2> QED BY <2>3, <2>4
<1> HIDE DEF n
<1> QED BY <1>3, <1>4 DEF HistoryInv

\* A receipt that is written in order is the next one.
LEMMA ReceiptSays ==
  ASSUME TypeInv, NEW i \in Nat, ClaimReceipt(i)
  PROVE  LET k == Len(handled) + 1 IN
         /\ Len(handled') = k /\ Len(handled) \in Nat
         /\ Range(handled') = Range(handled) \cup {i}
         /\ InOrder' => InOrder /\ i = k
<1> DEFINE k == Len(handled) + 1
<1>1. handled \in Seq(Events) /\ handled' = Append(handled, i)
  BY DEF TypeInv, TypeOK, ClaimReceipt
<1>2. /\ Len(handled') = k /\ Len(handled) \in Nat /\ handled'[k] = i
      /\ \A j \in 1 .. Len(handled) : handled'[j] = handled[j]
      /\ DOMAIN handled' = 1 .. k /\ DOMAIN handled = 1 .. Len(handled)
  BY <1>1
<1>3. Range(handled') = Range(handled) \cup {i}
  <2>1. ASSUME NEW x \in Range(handled')
        PROVE  x \in Range(handled) \cup {i}
    <3>1. PICK j \in 1 .. k : x = handled'[j]
      BY <1>2 DEF Range
    <3>2. j = k \/ j \in 1 .. Len(handled)
      BY <1>2
    <3> QED BY <1>2, <3>1, <3>2 DEF Range
  <2>2. ASSUME NEW x \in Range(handled) \cup {i}
        PROVE  x \in Range(handled')
    <3>1. k \in 1 .. k /\ 1 .. Len(handled) \subseteq 1 .. k
      BY <1>2
    <3> HIDE DEF k
    <3> QED BY <1>2, <3>1 DEF Range
  <2> QED BY <2>1, <2>2
<1>4. InOrder' => InOrder /\ i = k
  <2>1. 1 .. Len(handled) \subseteq 1 .. k /\ k \in 1 .. k
    BY <1>2
  <2> HIDE DEF k
  <2> QED BY <1>2, <2>1 DEF InOrder
<1> QED BY <1>2, <1>3, <1>4

\* A takedown clears under its own event, the newest of those handled in order.
LEMMA TakeDownClears ==
  ASSUME TypeInv, ClearedInv, NEW i \in DOMAIN issued, TakeDown(i)
  PROVE  ClearedInv'
<1>1. /\ i \in Nat /\ issued[i].type \in Clearing
      /\ UNCHANGED <<issued, answered>>
  BY HistoryTypes DEF TakeDown, oxy
<1>2. \A c \in cleared' : c \in cleared \/ c[1] = i
  BY DEF TakeDown
<1>3. /\ Len(handled') = Len(handled) + 1 /\ Len(handled) \in Nat
      /\ Range(handled') = Range(handled) \cup {i}
      /\ InOrder' => InOrder /\ i = Len(handled) + 1
  BY <1>1, ReceiptSays DEF TakeDown
<1>4. Range(handled') \subseteq DOMAIN issued'
  BY <1>1, <1>3 DEF ClearedInv
<1>5. \A c \in cleared' : c[1] \in DOMAIN issued /\ issued[c[1]].type \in Clearing
  BY <1>1, <1>2 DEF ClearedInv
<1>6. ASSUME InOrder', NEW c \in cleared' \ answered', issued[c[1]].type = "blocked",
             NEW j \in 1 .. Len(handled'), j > c[1], issued[j].file = issued[c[1]].file
      PROVE  issued[j].type # "unblocked"
  <2>1. CASE j = i
    BY <1>1, <2>1 DEF Clearing
  <2>2. CASE j # i
    <3>1. j \in 1 .. Len(handled) /\ c[1] # i
      BY <1>3, <1>6, <2>2
    <3>2. c \in cleared \ answered
      BY <1>1, <1>2, <1>6, <3>1
    <3> QED BY <1>3, <1>6, <3>1, <3>2 DEF ClearedInv
  <2> QED BY <2>1, <2>2
<1> QED BY <1>1, <1>4, <1>5, <1>6 DEF ClearedInv

\* An unblock answers every open clearing of its file.
LEMMA PutBackAnswers ==
  ASSUME TypeInv, ClearedInv, NEW i \in DOMAIN issued, PutBack(i)
  PROVE  ClearedInv'
<1>1. i \in Nat /\ UNCHANGED <<issued, cleared>>
  BY HistoryTypes DEF PutBack, oxy
<1>2. answered' = answered \cup Open(issued[i].file)
  BY DEF PutBack
<1>3. /\ Len(handled') = Len(handled) + 1 /\ Len(handled) \in Nat
      /\ Range(handled') = Range(handled) \cup {i}
      /\ InOrder' => InOrder /\ i = Len(handled) + 1
  BY <1>1, ReceiptSays DEF PutBack
<1>4. Range(handled') \subseteq DOMAIN issued'
  BY <1>1, <1>3 DEF ClearedInv
<1>5. ASSUME InOrder', NEW c \in cleared' \ answered', issued[c[1]].type = "blocked",
             NEW j \in 1 .. Len(handled'), j > c[1], issued[j].file = issued[c[1]].file
      PROVE  issued[j].type # "unblocked"
  <2>1. c \in cleared \ answered /\ issued[c[1]].file # issued[i].file
    BY <1>1, <1>2, <1>5 DEF Open
  <2>2. j \in 1 .. Len(handled)
    BY <1>3, <1>5, <2>1
  <2> QED BY <1>3, <1>5, <2>1, <2>2 DEF ClearedInv
<1> QED BY <1>1, <1>4, <1>5 DEF ClearedInv

LEMMA IssueKeepsClearings ==
  ASSUME TypeInv, ClearedInv, NEW type \in DOMAIN Becomes, NEW f \in Files,
         IssueEvent(type, f)
  PROVE  ClearedInv'
<1>1. /\ DOMAIN issued \subseteq DOMAIN issued'
      /\ \A i \in DOMAIN issued : issued'[i] = issued[i]
  BY IssueSays
<1>2. UNCHANGED <<handled, cleared, answered>>
  BY DEF IssueEvent, moovo
<1>3. InOrder => 1 .. Len(handled) \subseteq DOMAIN issued
  BY HistoryTypes DEF InOrder, ClearedInv, Range
<1> QED BY <1>1, <1>2, <1>3 DEF ClearedInv, InOrder

LEMMA ClearedStep ==
  ASSUME TypeInv, HistoryInv, ClearedInv, [Next]_vars
  PROVE  HistoryInv' /\ ClearedInv'
<1>1. ASSUME NEW i \in DOMAIN issued, TakeDown(i) \/ PutBack(i)
      PROVE  HistoryInv' /\ ClearedInv'
  <2>1. UNCHANGED <<issued, file>>
    BY <1>1 DEF TakeDown, PutBack, oxy
  <2> QED BY <1>1, <2>1, TakeDownClears, PutBackAnswers DEF HistoryInv
<1>2. CASE UNCHANGED <<issued, file, handled, cleared, answered>>
  BY <1>2 DEF HistoryInv, ClearedInv, InOrder
<1>3. ASSUME NEW p \in Writers, CheckFiles(p) \/ WriteRow(p)
      PROVE  UNCHANGED <<issued, file, handled, cleared, answered>>
  BY <1>3 DEF CheckFiles, WriteRow, moovo, oxy
<1>4. ASSUME NEW w \in Workers,
             \/ \E u \in Uses : ClaimSync(w, u)
             \/ EntityUsesFile(w) \/ Tell(w) \/ TellFails(w) \/ Settle(w) \/ Die(w)
      PROVE  UNCHANGED <<issued, file, handled, cleared, answered>>
  BY <1>4 DEF ClaimSync, EntityUsesFile, Tell, TellFails, Settle, Die, moovo, oxy
<1>5. ASSUME NEW w \in Workers,
             \/ StartNight(w) \/ ReadPage(w) \/ Reconcile(w)
             \/ ReconcileFails(w) \/ FinishNight(w)
      PROVE  UNCHANGED <<issued, file, handled, cleared, answered>>
  BY <1>5 DEF StartNight, ReadPage, Reconcile, ReconcileFails, FinishNight, moovo, oxy
<1>6. CASE NightFalls \/ NightLapses \/ (\E u \in Uses : SyncLapses(u)) \/ UNCHANGED vars
  BY <1>2, <1>6 DEF NightFalls, NightLapses, SyncLapses, vars, moovo, oxy
<1> QED BY <1>1, <1>2, <1>3, <1>4, <1>5, <1>6, IssueKeepsHistory, IssueKeepsClearings
        DEF Next, WorkerStep

\* A live file that was blocked was unblocked since, and that unblock, handled in
\* its turn, answered the clearing.
LEMMA AllAnswered == TypeInv /\ HistoryInv /\ ClearedInv => ClearingsAreAnswered
<1> SUFFICES ASSUME TypeInv, HistoryInv, ClearedInv,
                    handled = [i \in DOMAIN issued |-> i],
                    NEW c \in cleared, file[issued[c[1]].file] = "live"
             PROVE  c \in answered
  BY DEF ClearingsAreAnswered
<1>1. InOrder /\ 1 .. Len(handled) = DOMAIN issued
  BY HistoryTypes DEF InOrder
<1>2. c[1] \in DOMAIN issued /\ issued[c[1]].type = "blocked"
  BY DEF ClearedInv, HistoryInv, Clearing
<1>3. PICK j \in DOMAIN issued : /\ j > c[1] /\ issued[j].file = issued[c[1]].file
                                 /\ issued[j].type = "unblocked"
  BY <1>2 DEF HistoryInv
<1> QED BY <1>1, <1>2, <1>3 DEF ClearedInv

\* Events handled in the order they were issued leave no clearing unanswered for a
\* file that is live again.
THEOREM ClearingsAnswered == Spec => []ClearingsAreAnswered
<1>1. Init => HistoryInv /\ ClearedInv
  BY DEF Init, HistoryInv, ClearedInv, Range
<1>2. TypeInv /\ HistoryInv /\ ClearedInv /\ [Next]_vars => HistoryInv' /\ ClearedInv'
  BY ClearedStep
<1> QED BY <1>1, <1>2, InitTyped, NextTyped, AllAnswered, PTL DEF Spec
=============================================================================
