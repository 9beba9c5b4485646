---------------------------- MODULE MCShiftRequests ----------------------------
(***************************************************************************)
(* Instances of ShiftRequests for TLC.                                     *)
(***************************************************************************)
EXTENDS ShiftRequests, TLC

Symmetric == Permutations(Sessions) \cup Permutations(Users) \cup Permutations(Slots)
                 \cup Permutations(Shifts) \cup Permutations(Requests)
=============================================================================
