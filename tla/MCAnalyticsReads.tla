-------------------------- MODULE MCAnalyticsReads --------------------------
(***************************************************************************)
(* Small instances of AnalyticsReads for TLC.                               *)
(***************************************************************************)
EXTENDS AnalyticsReads

TwoScores == {1, 2}
=============================================================================
