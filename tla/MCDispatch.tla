----------------------------- MODULE MCDispatch -----------------------------
(* Small instances of Dispatch for TLC. *)
EXTENDS Dispatch, TLC

Symmetry == Permutations(Couriers) \cup Permutations(Offers)
              \cup Permutations(Handlers) \cup Permutations(Jobs)
=============================================================================
