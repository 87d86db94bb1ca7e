---------------------------- MODULE JobLifecycle ----------------------------
(***************************************************************************)
(* What a delivery job promises its sender and its courier, with no offer, *)
(* sweep, retry or crash in sight: a job is open until one courier takes   *)
(* it or it is withdrawn; whoever took it holds it for ever; it moves      *)
(* through its legs in order; and nothing follows delivery or withdrawal.  *)
(* Dispatch.tla is the detailed specification that implements this one.    *)
(***************************************************************************)

CONSTANTS Jobs, Couriers, None

VARIABLES
  phase,    \* phase[j]: where the job is
  holder    \* holder[j]: the courier who took it, or None

vars == <<phase, holder>>

Phases == {"unbooked", "open", "accepted", "picked_up", "in_transit",
           "delivered", "cancelled"}

Legs == {<<"accepted", "picked_up">>,
         <<"picked_up", "in_transit">>,
         <<"in_transit", "delivered">>}

Init ==
  /\ phase  = [j \in Jobs |-> "unbooked"]
  /\ holder = [j \in Jobs |-> None]

Open(j) ==
  /\ phase[j] = "unbooked"
  /\ phase' = [phase EXCEPT ![j] = "open"]
  /\ UNCHANGED holder

Take(j, c) ==
  /\ phase[j] = "open"
  /\ phase'  = [phase EXCEPT ![j] = "accepted"]
  /\ holder' = [holder EXCEPT ![j] = c]

Move(j) ==
  \E leg \in Legs :
    /\ phase[j] = leg[1]
    /\ phase' = [phase EXCEPT ![j] = leg[2]]
    /\ UNCHANGED holder

Withdraw(j) ==
  /\ phase[j] \in {"open", "accepted", "picked_up", "in_transit"}
  /\ phase' = [phase EXCEPT ![j] = "cancelled"]
  /\ UNCHANGED holder

Next ==
  \E j \in Jobs :
    \/ Open(j)
    \/ \E c \in Couriers : Take(j, c)
    \/ Move(j)
    \/ Withdraw(j)

Spec == Init /\ [][Next]_vars
=============================================================================
