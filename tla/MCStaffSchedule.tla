---------------------------- MODULE MCStaffSchedule ----------------------------
(***************************************************************************)
(* Instances of StaffSchedule for TLC.                                     *)
(***************************************************************************)
EXTENDS StaffSchedule, TLC

Symmetric == Permutations(Sessions) \cup Permutations(Users) \cup Permutations(Slots)
                 \cup Permutations(Entries)
=============================================================================
