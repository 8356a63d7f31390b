---------------------------- MODULE MCResponses ----------------------------
(***************************************************************************)
(* Small instances of Responses for TLC.  Users are interchangeable, and so *)
(* are the requests.                                                        *)
(***************************************************************************)
EXTENDS Responses, TLC

Symmetry == Permutations(Requests) \cup Permutations(Users)
=============================================================================
