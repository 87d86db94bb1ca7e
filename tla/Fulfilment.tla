------------------------------ MODULE Fulfilment ------------------------------
(***************************************************************************)
(* What booking promises of one shipment, without saying how: it is        *)
(* contracted either with a Moovo courier or with the one carrier that     *)
(* holds its parcel, at the price it was booked at, and once; except that  *)
(* a carrier's parcel booked without a key may be contracted again, in     *)
(* the same terms.                                                         *)
(***************************************************************************)
EXTENDS Sequences

CONSTANTS
  Carriers,   \* the bookings a carrier may take: an operation and a price
  Couriers,   \* the bookings a Moovo courier may take
  Keys,       \* the keys a contract may be made under
  None        \* no key

VARIABLES
  parcels,    \* the bookings carriers hold
  contracts   \* the bookings the sender is charged for, in order

Contract(p, k) == [op |-> p.op, quote |-> p.quote, key |-> k]

CarrierTakes(p) ==
  /\ parcels = {} /\ contracts = <<>>
  /\ parcels' = {p}
  /\ UNCHANGED contracts

ContractCarrier(p, k) ==
  /\ p \in parcels /\ contracts = <<>>
  /\ contracts' = <<Contract(p, k)>>
  /\ UNCHANGED parcels

ContractCourier(p, k) ==
  /\ parcels = {} /\ contracts = <<>>
  /\ contracts' = <<Contract(p, k)>>
  /\ UNCHANGED parcels

ContractAgain(p) ==
  /\ p \in parcels
  /\ contracts # <<>> /\ contracts[1] = Contract(p, None)
  /\ contracts' = Append(contracts, Contract(p, None))
  /\ UNCHANGED parcels

Init == parcels = {} /\ contracts = <<>>

Next ==
  \/ \E p \in Carriers : \/ CarrierTakes(p) \/ ContractAgain(p)
                         \/ \E k \in Keys \cup {None} : ContractCarrier(p, k)
  \/ \E p \in Couriers : \E k \in Keys \cup {None} : ContractCourier(p, k)

Spec == Init /\ [][Next]_<<parcels, contracts>>
=============================================================================
