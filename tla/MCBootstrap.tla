---------------------------- MODULE MCBootstrap ----------------------------
(***************************************************************************)
(* Small instances of Bootstrap for TLC: servers seed with DEMO_SEED, 42,   *)
(* the script with 7.                                                       *)
(***************************************************************************)
EXTENDS Bootstrap

DemoAccounts == <<"demo", "analyst", "admin">>
Seeds == [a \in Actors |-> IF a \in Starters THEN "42" ELSE "7"]
=============================================================================
