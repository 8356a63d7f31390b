----------------------------- MODULE Timestamps -----------------------------
(***************************************************************************)
(* The times clients send: a wall clock reading with an offset from UTC, or *)
(* without one (naive).  What the validators, the databases and the         *)
(* repositories do to them; on the way out every time is an instant.        *)
(* Instants, readings and offsets count ticks, DayLength of them a day.     *)
(***************************************************************************)
EXTENDS Integers

CONSTANTS Offsets,    \* offsets clients use
          Naive,      \* no offset
          DayLength   \* ticks in a day

ASSUME TimeAssumption ==
    /\ Offsets \subseteq Int /\ 0 \in Offsets /\ Naive \notin Int
    /\ DayLength \in Nat \ {0}

Time == [wall : Int, zone : Offsets \cup {Naive}]

\* datetime.now(UTC)
UtcTime(n) == [wall |-> n, zone |-> 0]

\* A naive time is taken for UTC; an aware one is converted.
as_utc(t) == IF t.zone = Naive THEN t.wall ELSE t.wall - t.zone

\* Python orders two aware times by their instants and two naive ones by
\* their readings; ordering one of each raises TypeError.
Comparable(s, t) == s.zone = Naive <=> t.zone = Naive

\* What reading the column again gives.  SQLite keeps the reading alone;
\* PostgreSQL keeps the instant, a naive time being one of the server's zone
\* (UTC), and returns it in UTC.
Stored(t, sqlite) ==
    IF sqlite THEN [wall |-> t.wall, zone |-> Naive] ELSE UtcTime(as_utc(t))

Date(n) == n \div DayLength
=============================================================================
