----------------------------- MODULE MCHistory -----------------------------
(***************************************************************************)
(* Small instances of History for TLC: half-day ticks, offsets of half a    *)
(* day, a type of low and two of high weight.                               *)
(***************************************************************************)
EXTENDS History

\* 0.5^(days / 14) to four places, tick by tick.
HalfLife == [n \in 0 .. 6 |->
    CASE n = 0 -> 10000 [] n = 1 -> 9755 [] n = 2 -> 9517 [] n = 3 -> 9284
      [] n = 4 -> 9057 [] n = 5 -> 8836 [] n = 6 -> 8620]

EastAndUtc == {0, 1}
=============================================================================
