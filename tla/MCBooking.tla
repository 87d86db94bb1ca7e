----------------------------- MODULE MCBooking -----------------------------
(* TLC's instance of Booking: the constants are in the .cfg files. *)
EXTENDS Booking, TLC
=============================================================================
