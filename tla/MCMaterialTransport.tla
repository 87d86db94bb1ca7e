------------------------ MODULE MCMaterialTransport ------------------------
(* TLC's definitions for MaterialTransport, composed with Booking. *)
EXTENDS MaterialTransport, TLC

\* Requests are interchangeable, and so are the prices of a Moovo courier.
Symmetry == Permutations(Requests) \cup Permutations(CourierQuotes)
=============================================================================
