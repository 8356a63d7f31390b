------------------------------ MODULE MCPaging ------------------------------
(***************************************************************************)
(* Small instances of Paging for TLC, with pages of two rows.               *)
(***************************************************************************)
EXTENDS Paging

SmallTimes == 1 .. 2
=============================================================================
