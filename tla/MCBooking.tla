------------------------------ MODULE MCBooking -------------------------------
(***************************************************************************)
(* Instances of Booking for TLC.  The grid has two slots; staff book across  *)
(* both.                                                                   *)
(***************************************************************************)
EXTENDS Booking, TLC

TwoSlots == {{1}, {2}}
Straddling == {{1, 2}}
Interchangeable == Permutations(Sessions) \cup Permutations(Submissions)
=============================================================================
