------------------------- MODULE MCEngagementStore -------------------------
(***************************************************************************)
(* Small instances of EngagementStore for TLC.  Requests, student ids and   *)
(* emails are interchangeable; processes too.                               *)
(***************************************************************************)
EXTENDS EngagementStore, TLC

Symmetry == Permutations(Requests) \cup Permutations(Processes)
            \cup Permutations(StudentIds) \cup Permutations(Emails)
=============================================================================
