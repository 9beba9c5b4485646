---------------------------- MODULE MCVoiceFallback ----------------------------
(***************************************************************************)
(* Instances of VoiceFallback for TLC.                                     *)
(***************************************************************************)
EXTENDS VoiceFallback, TLC

\* Workers and representatives are interchangeable (safety runs only).
Alike == Permutations(Workers) \cup Permutations(Reps)
=============================================================================
