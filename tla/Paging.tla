------------------------------- MODULE Paging -------------------------------
(***************************************************************************)
(* The list endpoints under concurrent creates.  A client walks the pages   *)
(* of one collection, the way tests/test_analytics.py does; each page is    *)
(* two SELECTs of _paginate, a count and a slice, each of which sees the    *)
(* rows committed when it runs, while other requests commit rows in         *)
(* between (EngagementStore has the details of those).                      *)
(*                                                                          *)
(* newestFirst tells the collection: FALSE is GET /students, ordered by     *)
(* id; TRUE is GET /sessions and GET /events, newest first and then by id   *)
(* downwards, with times the clients choose.  singleWriter is as in         *)
(* EngagementStore: on SQLite rows are committed in the order of their      *)
(* keys, on PostgreSQL in any order.                                        *)
(***************************************************************************)
EXTENDS Integers, FiniteSets

CONSTANTS PageSize,     \* per_page
          Times,        \* the times of rows
          MaxRows       \* bound: the largest primary key

ASSUME PagingAssumption ==
    /\ PageSize \in Nat \ {0} /\ MaxRows \in Nat \ {0} /\ Times \subseteq Nat

VARIABLES newestFirst, singleWriter,   \* chosen once
          rows,   \* the committed rows; match: the filters select the row
          phase,  \* where the walk is: idle, count, items or done
          page,   \* the page being fetched
          total,  \* the total of the latest page
          base,   \* the rows the walk could select when it began
          seen,   \* the rows the walk has been given
          twice   \* the rows it has been given more than once

setting == <<newestFirst, singleWriter>>
vars == <<setting, rows, phase, page, total, base, seen, twice>>

Row == [pk : 1 .. MaxRows, time : Times, match : BOOLEAN]

Selected == {w \in rows : w.match}

\* v is listed before w.
Precedes(v, w) ==
    IF newestFirst
    THEN v.time > w.time \/ (v.time = w.time /\ v.pk > w.pk)
    ELSE v.pk < w.pk

Position(w) == Cardinality({v \in Selected : Precedes(v, w)})

\* Fault: the first page is number zero.
SliceFromZero(n) ==
    {w \in Selected : n * PageSize <= Position(w)
                      /\ Position(w) < (n + 1) * PageSize}

\* Fault: a page reaches one row too far.
SliceTooLong(n) ==
    {w \in Selected : (n - 1) * PageSize <= Position(w)
                      /\ Position(w) <= n * PageSize}

\* LIMIT page_size OFFSET (page - 1) * page_size.
Slice(n) ==
    {w \in Selected : (n - 1) * PageSize <= Position(w)
                      /\ Position(w) < n * PageSize}

\* Fault: a last page that is not full is not counted.
PagesRoundedDown(t) == t \div PageSize

\* Page.pages: the number of pages that t rows fill.
Pages(t) == (t + PageSize - 1) \div PageSize

-----------------------------------------------------------------------------
Init ==
    /\ newestFirst \in BOOLEAN /\ singleWriter \in BOOLEAN
    /\ rows = {} /\ phase = "idle" /\ page = 1 /\ total = 0
    /\ base = {} /\ seen = {} /\ twice = {}

\* A create commits.  It takes a key no committed row has: the next one on
\* SQLite, any that its sequence gave it before on PostgreSQL.
Commit ==
    /\ \E w \in Row :
          /\ IF singleWriter
             THEN w.pk = Cardinality(rows) + 1
             ELSE \A v \in rows : v.pk # w.pk
          /\ rows' = rows \cup {w}
    /\ UNCHANGED <<setting, phase, page, total, base, seen, twice>>

\* The client asks for page 1.
Begin ==
    /\ phase = "idle"
    /\ phase' = "count" /\ base' = Selected
    /\ UNCHANGED <<setting, rows, page, total, seen, twice>>

\* The first SELECT of _paginate.
Count ==
    /\ phase = "count"
    /\ total' = Cardinality(Selected) /\ phase' = "items"
    /\ UNCHANGED <<setting, rows, page, base, seen, twice>>

\* The second; with the response the client stops at the last page it knows
\* of, or asks for the next.
Items ==
    /\ phase = "items"
    /\ seen' = seen \cup Slice(page)
    /\ twice' = twice \cup (seen \cap Slice(page))
    /\ IF page >= Pages(total)
       THEN phase' = "done" /\ UNCHANGED page
       ELSE phase' = "count" /\ page' = page + 1
    /\ UNCHANGED <<setting, rows, total, base>>

Done == phase = "done" /\ UNCHANGED vars

Next == Begin \/ Count \/ Items \/ Commit \/ Done

Spec == Init /\ [][Next]_vars

-----------------------------------------------------------------------------
\* Properties

\* A walk over the students of a SQLite database, where every later row is
\* listed behind the earlier ones, gives no row twice, and when it is finished
\* has given every row that was committed when it began.
WalkIsComplete ==
    singleWriter /\ ~newestFirst =>
        twice = {} /\ (phase = "done" => base \subseteq seen)

\* In any collection, on any database: rows are only missed behind the last
\* page, because the total of that page was counted before its items were
\* read.  A walk that ends when its total still is the number of rows has
\* been given every row it began with.
MissedOnlyByStaleTotal ==
    [][Items /\ phase' = "done" /\ total = Cardinality(Selected)
       => base \subseteq seen']_vars

\* The walk never leaves a row behind it: before page n is read, all rows it
\* began with that it has not been given are listed from page n onwards.
NeverLeftBehind ==
    phase \in {"count", "items"} =>
        \A w \in base \ seen : Position(w) >= (page - 1) * PageSize
=============================================================================
