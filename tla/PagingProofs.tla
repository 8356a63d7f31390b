---------------------------- MODULE PagingProofs ----------------------------
(***************************************************************************)
(* Proofs about Paging, for pages of any size, any times and any number of  *)
(* rows.                                                                    *)
(***************************************************************************)
EXTENDS Paging, FiniteSetTheorems, TLAPS

TypeOK ==
    /\ newestFirst \in BOOLEAN /\ singleWriter \in BOOLEAN
    /\ rows \subseteq Row /\ IsFiniteSet(rows)
    /\ phase \in {"idle", "count", "items", "done"}
    /\ page \in Nat \ {0} /\ total \in Nat

\* The walk only knows rows that it could select.
WalkKnowsRows ==
    /\ base \subseteq Selected /\ seen \subseteq Selected
    /\ phase = "idle" => page = 1 /\ seen = {} /\ twice = {}

\* The students of a SQLite database.
InOrder == singleWriter /\ ~newestFirst

\* What a walk over these does not lose: every key is at most the number of
\* rows, so the next one is behind; what has been given is listed before the
\* page to fetch; and the total covers what the walk began with.
OrderedWalk ==
    InOrder =>
        /\ \A v \in rows : v.pk <= Cardinality(rows)
        /\ phase \in {"count", "items"} =>
              \A w \in seen : Position(w) < (page - 1) * PageSize
        /\ phase = "items" => \A w \in base : Position(w) < total

IInv ==
    TypeOK /\ WalkKnowsRows /\ NeverLeftBehind /\ OrderedWalk /\ WalkIsComplete
-----------------------------------------------------------------------------
\* Arithmetic of pages

\* As many pages as Pages says hold all the rows.
LEMMA PagesSuffice ==
    ASSUME NEW t \in Nat, NEW n \in Nat, n >= Pages(t)
    PROVE  n * PageSize >= t
<1> DEFINE q == (t + PageSize - 1) \div PageSize
           m == (t + PageSize - 1) % PageSize
<1>1. PageSize \in Nat \ {0}
  BY PagingAssumption
<1>2. /\ q \in Nat /\ m \in 0 .. PageSize - 1
      /\ t + PageSize - 1 = q * PageSize + m
  BY <1>1
<1>3. q * PageSize >= t
  BY <1>1, <1>2
<1>4. n * PageSize >= q * PageSize
  BY <1>1, <1>2 DEF Pages
<1>5. n * PageSize \in Nat /\ q * PageSize \in Nat
  BY <1>1, <1>2
<1>6. QED
  BY <1>3, <1>4, <1>5

\* Where pages begin.
LEMMA PageBounds ==
    ASSUME NEW n \in Nat \ {0}
    PROVE  /\ (n - 1) * PageSize \in Nat /\ n * PageSize \in Nat
           /\ (n - 1) * PageSize = n * PageSize - PageSize
           /\ (n + 1) - 1 = n /\ n + 1 \in Nat \ {0}
BY PagingAssumption

-----------------------------------------------------------------------------
\* Positions

Before(w) == {v \in Selected : Precedes(v, w)}

\* A finite set is larger than a part of it that leaves an element out.
LEMMA PartIsSmaller ==
    ASSUME NEW S, IsFiniteSet(S), NEW w \in S, NEW B \in SUBSET (S \ {w})
    PROVE  /\ IsFiniteSet(B) /\ Cardinality(B) \in Nat
           /\ Cardinality(S) \in Nat /\ Cardinality(B) < Cardinality(S)
<1>1. /\ IsFiniteSet(S \ {w}) /\ Cardinality(S \ {w}) = Cardinality(S) - 1
  BY FS_RemoveElement
<1>2. IsFiniteSet(B) /\ Cardinality(B) <= Cardinality(S \ {w})
  BY <1>1, FS_Subset
<1>3. Cardinality(B) \in Nat /\ Cardinality(S) \in Nat
  BY <1>2, FS_CardinalityType
<1>4. QED
  BY <1>1, <1>2, <1>3

LEMMA RowTypes ==
    ASSUME NEW w \in Row
    PROVE  w.pk \in 1 .. MaxRows /\ w.pk \in Int /\ w.time \in Int
<1>1. w.pk \in 1 .. MaxRows /\ w.time \in Times
  BY DEF Row
<1>2. Times \subseteq Nat /\ MaxRows \in Nat
  BY PagingAssumption
<1>3. w.time \in Int
  <2>1. \A n \in Times : n \in Int
    BY <1>2
  <2>2. QED
    BY <1>1, <2>1, Zenon
<1>4. w.pk \in Int
  BY <1>1, <1>2
<1>5. QED
  BY <1>1, <1>3, <1>4

\* The rows listed before a row are some of the others.
LEMMA PositionFacts ==
    ASSUME TypeOK, NEW w \in Selected
    PROVE  /\ IsFiniteSet(Selected) /\ Cardinality(Selected) \in Nat
           /\ IsFiniteSet(Before(w))
           /\ Position(w) = Cardinality(Before(w)) /\ Position(w) \in Nat
           /\ Position(w) < Cardinality(Selected)
<1>1. IsFiniteSet(Selected)
  BY FS_Subset DEF TypeOK, Selected
<1>2. w.pk \in Int /\ w.time \in Int
  BY RowTypes DEF TypeOK, Selected
<1>3. Before(w) \in SUBSET (Selected \ {w})
  BY <1>2 DEF Before, Precedes
<1>4. QED
  BY <1>1, <1>3, PartIsSmaller DEF Position, Before

\* A commit leaves the rows and adds one.
LEMMA CommitAdds ==
    ASSUME TypeOK, Commit
    PROVE  /\ TypeOK' /\ rows \subseteq rows' /\ Selected \subseteq Selected'
           /\ UNCHANGED <<newestFirst, singleWriter, phase, page, total, base,
                          seen, twice>>
<1>1. PICK w \in Row : rows' = rows \cup {w}
  BY DEF Commit
<1>2. IsFiniteSet(rows')
  BY <1>1, FS_AddElement DEF TypeOK
<1>3. UNCHANGED <<newestFirst, singleWriter, phase, page, total, base,
                  seen, twice>>
  BY DEF Commit, setting
<1>4. QED
  BY <1>1, <1>2, <1>3 DEF TypeOK, Selected

\* A commit never moves a row towards the front of the list.
LEMMA CommitMovesBack ==
    ASSUME TypeOK, Commit, NEW w \in Selected
    PROVE  Position(w)' >= Position(w)
<1>1. TypeOK' /\ w \in Selected'
  BY CommitAdds
<1>2. newestFirst' = newestFirst /\ Selected \subseteq Selected'
  BY CommitAdds
<1>3. Before(w) \subseteq Before(w)'
  BY <1>2 DEF Before, Precedes
<1>4. Position(w) = Cardinality(Before(w)) /\ Position(w) \in Nat
  BY PositionFacts
<1>5. IsFiniteSet(Before(w)')
  BY <1>1, FS_Subset DEF Before, Selected, TypeOK
<1>6. Position(w)' = Cardinality(Before(w)')
  BY DEF Position, Before
<1>7. /\ Cardinality(Before(w)) <= Cardinality(Before(w)')
      /\ Cardinality(Before(w)') \in Nat
  BY <1>3, <1>5, FS_Subset, FS_CardinalityType
<1>8. QED
  BY <1>4, <1>6, <1>7

\* Where rows are listed and committed in the order of their keys, it does
\* not move a row at all.
LEMMA CommitBehind ==
    ASSUME IInv, Commit, InOrder, NEW w \in Selected
    PROVE  Position(w)' = Position(w)
<1>1. PICK x \in Row : x.pk = Cardinality(rows) + 1 /\ rows' = rows \cup {x}
  BY DEF Commit, InOrder
<1>2. Cardinality(rows) \in Nat
  BY FS_CardinalityType DEF IInv, TypeOK
<1>3. w.pk \in Int /\ w.pk <= Cardinality(rows)
  BY RowTypes DEF IInv, TypeOK, OrderedWalk, Selected
<1>4. ~(x.pk < w.pk)
  BY <1>1, <1>2, <1>3
<1>5. newestFirst' = newestFirst /\ ~newestFirst
  BY CommitAdds DEF IInv, InOrder
<1>6. {v \in Selected : Precedes(v, w)}' = {v \in Selected : Precedes(v, w)}
  BY <1>1, <1>4, <1>5 DEF Selected, Precedes
<1>7. QED
  BY <1>6 DEF Position

-----------------------------------------------------------------------------
\* The invariant

LEMMA InvInit == Init => IInv
<1> SUFFICES ASSUME Init
             PROVE  IInv
  OBVIOUS
<1>1. IsFiniteSet(rows) /\ rows = {}
  BY FS_EmptySet DEF Init
<1>2. TypeOK /\ WalkKnowsRows
  BY <1>1 DEF Init, TypeOK, WalkKnowsRows
<1>3. NeverLeftBehind /\ OrderedWalk /\ WalkIsComplete
  BY <1>1 DEF Init, NeverLeftBehind, OrderedWalk, WalkIsComplete
<1>4. QED
  BY <1>2, <1>3 DEF IInv

LEMMA CommitKeeps ==
    ASSUME IInv, Commit
    PROVE  IInv'
<1>1. /\ TypeOK' /\ rows \subseteq rows' /\ Selected \subseteq Selected'
      /\ UNCHANGED <<newestFirst, singleWriter, phase, page, total, base,
                     seen, twice>>
  BY CommitAdds DEF IInv
<1>2. WalkKnowsRows'
  BY <1>1 DEF IInv, WalkKnowsRows
<1>3. WalkIsComplete'
  BY <1>1 DEF IInv, WalkIsComplete
<1>4. NeverLeftBehind'
  <2> SUFFICES ASSUME phase \in {"count", "items"}, NEW w \in base \ seen
               PROVE  Position(w)' >= (page - 1) * PageSize
    BY <1>1 DEF NeverLeftBehind
  <2>1. w \in Selected /\ w \in Selected'
    BY <1>1 DEF IInv, WalkKnowsRows
  <2>2. Position(w)' >= Position(w) /\ Position(w) >= (page - 1) * PageSize
    BY <2>1, CommitMovesBack DEF IInv, NeverLeftBehind
  <2>3. Position(w) \in Nat /\ (page - 1) * PageSize \in Nat
    BY <2>1, PositionFacts, PageBounds DEF IInv, TypeOK
  <2>4. Position(w)' \in Nat
    BY <1>1, <2>1, PartIsSmaller, FS_Subset, FS_CardinalityType
       DEF Position, Selected, TypeOK
  <2>5. QED
    BY <2>2, <2>3, <2>4
<1>5. OrderedWalk'
  <2> SUFFICES ASSUME InOrder
               PROVE  /\ \A v \in rows' : v.pk <= Cardinality(rows')
                      /\ phase \in {"count", "items"} =>
                            \A w \in seen : Position(w)' < (page - 1) * PageSize
                      /\ phase = "items" => \A w \in base : Position(w)' < total
    BY <1>1 DEF OrderedWalk, InOrder
  <2>1. PICK x \in Row : x.pk = Cardinality(rows) + 1 /\ rows' = rows \cup {x}
    BY DEF Commit, InOrder
  <2>2. Cardinality(rows) \in Nat
    BY FS_CardinalityType DEF IInv, TypeOK
  <2>3. \A v \in rows : v.pk \in Int /\ v.pk <= Cardinality(rows)
    BY RowTypes DEF IInv, TypeOK, OrderedWalk
  <2>4. x \notin rows
    BY <2>1, <2>2, <2>3
  <2>5. Cardinality(rows') = Cardinality(rows) + 1
    BY <2>1, <2>4, FS_AddElement DEF IInv, TypeOK
  <2>6. \A v \in rows' : v.pk <= Cardinality(rows')
    BY <2>1, <2>2, <2>3, <2>5
  <2>7. \A w \in Selected : Position(w)' = Position(w)
    BY CommitBehind
  <2>8. QED
    BY <2>6, <2>7 DEF IInv, WalkKnowsRows, OrderedWalk
<1>6. QED
  BY <1>1, <1>2, <1>3, <1>4, <1>5 DEF IInv

\* The first page is read with nothing given and nothing before it.
LEMMA BeginKeeps ==
    ASSUME IInv, Begin
    PROVE  IInv'
<1>1. /\ UNCHANGED <<newestFirst, singleWriter, rows, page, total, seen, twice>>
      /\ phase = "idle" /\ phase' = "count" /\ base' = Selected
  BY DEF Begin, setting
<1>2. page = 1 /\ seen = {} /\ twice = {}
  BY <1>1 DEF IInv, WalkKnowsRows
<1>3. Selected' = Selected /\ \A w : Position(w)' = Position(w)
  BY <1>1 DEF Selected, Position, Precedes
<1>4. TypeOK' /\ WalkKnowsRows'
  BY <1>1, <1>2, <1>3 DEF IInv, TypeOK, WalkKnowsRows
<1>5. NeverLeftBehind'
  <2>1. \A w \in Selected : Position(w) \in Nat
    BY PositionFacts DEF IInv
  <2>2. (page - 1) * PageSize = 0
    BY <1>2, PagingAssumption
  <2>3. QED
    BY <1>1, <1>3, <2>1, <2>2 DEF NeverLeftBehind
<1>6. OrderedWalk' /\ WalkIsComplete'
  BY <1>1, <1>2 DEF IInv, OrderedWalk, WalkIsComplete, InOrder
<1>7. QED
  BY <1>4, <1>5, <1>6 DEF IInv

\* The total counts all the rows there are, those the walk began with too.
LEMMA CountKeeps ==
    ASSUME IInv, Count
    PROVE  IInv'
<1>1. /\ UNCHANGED <<newestFirst, singleWriter, rows, page, base, seen, twice>>
      /\ phase = "count" /\ phase' = "items" /\ total' = Cardinality(Selected)
  BY DEF Count, setting
<1>2. Selected' = Selected /\ \A w : Position(w)' = Position(w)
  BY <1>1 DEF Selected, Position, Precedes
<1>3. Cardinality(Selected) \in Nat
  BY FS_Subset, FS_CardinalityType DEF IInv, TypeOK, Selected
<1>4. TypeOK' /\ WalkKnowsRows'
  BY <1>1, <1>2, <1>3 DEF IInv, TypeOK, WalkKnowsRows
<1>5. NeverLeftBehind'
  BY <1>1, <1>2 DEF IInv, NeverLeftBehind
<1>6. \A w \in base : Position(w) < Cardinality(Selected)
  BY PositionFacts DEF IInv, WalkKnowsRows
<1>7. OrderedWalk' /\ WalkIsComplete'
  BY <1>1, <1>2, <1>6 DEF IInv, OrderedWalk, WalkIsComplete, InOrder
<1>8. QED
  BY <1>4, <1>5, <1>7 DEF IInv

\* A row the walk lacks after a page is listed behind that page.
LEMMA LackedIsBehind ==
    ASSUME IInv, phase = "items", NEW w \in base \ (seen \cup Slice(page))
    PROVE  Position(w) >= page * PageSize
<1>1. w \in Selected /\ Position(w) >= (page - 1) * PageSize
  BY DEF IInv, WalkKnowsRows, NeverLeftBehind
<1>2. ~(Position(w) < page * PageSize)
  BY <1>1 DEF Slice
<1>3. Position(w) \in Nat /\ page * PageSize \in Nat
  BY <1>1, PositionFacts, PageBounds DEF IInv, TypeOK
<1>4. QED
  BY <1>2, <1>3

LEMMA ItemsKeeps ==
    ASSUME IInv, Items
    PROVE  IInv'
<1>1. /\ UNCHANGED <<newestFirst, singleWriter, rows, total, base>>
      /\ phase = "items" /\ seen' = seen \cup Slice(page)
      /\ twice' = twice \cup (seen \cap Slice(page))
  BY DEF Items, setting
<1>2. \/ page >= Pages(total) /\ phase' = "done" /\ page' = page
      \/ phase' = "count" /\ page' = page + 1
  BY DEF Items
<1>3. page \in Nat \ {0} /\ page + 1 \in Nat \ {0} /\ (page + 1) - 1 = page
  BY PageBounds DEF IInv, TypeOK
<1>4. Selected' = Selected /\ \A w : Position(w)' = Position(w)
  BY <1>1 DEF Selected, Position, Precedes
<1>5. TypeOK' /\ WalkKnowsRows'
  BY <1>1, <1>2, <1>3, <1>4 DEF IInv, TypeOK, WalkKnowsRows, Slice
<1>6. NeverLeftBehind'
  BY <1>1, <1>2, <1>3, <1>4, LackedIsBehind DEF NeverLeftBehind
<1>7. ASSUME InOrder
      PROVE  OrderedWalk' /\ WalkIsComplete'
  <2>1. \A w \in seen : Position(w) < (page - 1) * PageSize /\ Position(w) \in Nat
    BY <1>1, <1>7, PositionFacts DEF IInv, OrderedWalk, WalkKnowsRows
  <2>2. /\ (page - 1) * PageSize \in Nat /\ page * PageSize \in Nat
        /\ (page - 1) * PageSize <= page * PageSize
    BY <1>3, PageBounds, PagingAssumption
  <2>3. seen \cap Slice(page) = {}
    BY <2>1, <2>2 DEF Slice
  <2>4. twice' = {}
    BY <1>1, <1>7, <2>3 DEF IInv, WalkIsComplete, InOrder
  <2>5. \A w \in seen' : Position(w) < page * PageSize
    BY <1>1, <2>1, <2>2 DEF Slice
  <2>6. OrderedWalk'
    BY <1>1, <1>2, <1>3, <1>4, <1>7, <2>5 DEF IInv, OrderedWalk, InOrder
  <2>7. ASSUME phase' = "done"
        PROVE  base' \subseteq seen'
    <3> SUFFICES ASSUME NEW w \in base \ (seen \cup Slice(page))
                 PROVE  FALSE
      BY <1>1
    <3>1. Position(w) >= page * PageSize /\ Position(w) < total
      BY <1>1, <1>7, LackedIsBehind DEF IInv, OrderedWalk
    <3>2. page * PageSize >= total
      BY <1>2, <1>3, <2>7, PagesSuffice DEF IInv, TypeOK
    <3>3. Position(w) \in Nat /\ total \in Nat
      BY PositionFacts DEF IInv, TypeOK, WalkKnowsRows
    <3>4. QED
      BY <2>2, <3>1, <3>2, <3>3
  <2>8. QED
    BY <2>4, <2>6, <2>7 DEF WalkIsComplete
<1>8. ASSUME ~InOrder
      PROVE  OrderedWalk' /\ WalkIsComplete'
  BY <1>1, <1>8 DEF OrderedWalk, WalkIsComplete, InOrder
<1>9. QED
  BY <1>5, <1>6, <1>7, <1>8 DEF IInv

LEMMA InvStep == IInv /\ [Next]_vars => IInv'
<1> SUFFICES ASSUME IInv, [Next]_vars
             PROVE  IInv'
  OBVIOUS
<1>1. ASSUME UNCHANGED vars
      PROVE  IInv'
  BY <1>1 DEF vars, setting, IInv, TypeOK, WalkKnowsRows, NeverLeftBehind,
     OrderedWalk, WalkIsComplete, InOrder, Selected, Position, Precedes
<1>2. QED
  BY <1>1, BeginKeeps, CountKeeps, ItemsKeeps, CommitKeeps DEF Next, Done

-----------------------------------------------------------------------------
\* What a walk has been given, and what it will still find, in every state.
THEOREM Invariance == Spec => []IInv
BY InvInit, InvStep, PTL DEF Spec

\* Whatever other requests commit, on either database and in either order,
\* no row a walk began with ends up before the page it reads next.
THEOREM NothingLeftBehind == Spec => []NeverLeftBehind
<1>1. IInv => NeverLeftBehind
  BY DEF IInv
<1>2. QED
  BY Invariance, <1>1, PTL

\* A walk over the students of a SQLite database gives every row once.
THEOREM WalkCompletes == Spec => []WalkIsComplete
<1>1. IInv => WalkIsComplete
  BY DEF IInv
<1>2. QED
  BY Invariance, <1>1, PTL

\* Anywhere else a walk misses a row only if its last total was stale.
THEOREM OnlyStaleTotalsMiss == Spec => MissedOnlyByStaleTotal
<1>1. IInv /\ [Next]_vars =>
        [Items /\ phase' = "done" /\ total = Cardinality(Selected)
         => base \subseteq seen']_vars
  <2> SUFFICES ASSUME IInv, Items, phase' = "done",
                      total = Cardinality(Selected),
                      NEW w \in base \ seen'
               PROVE  FALSE
    OBVIOUS
  <2>1. /\ phase = "items" /\ seen' = seen \cup Slice(page)
        /\ page >= Pages(total)
    BY DEF Items
  <2>2. Position(w) >= page * PageSize
    BY <2>1, LackedIsBehind
  <2>3. /\ Position(w) < total /\ Position(w) \in Nat /\ total \in Nat
        /\ page \in Nat \ {0}
    BY PositionFacts DEF IInv, WalkKnowsRows, TypeOK
  <2>4. page * PageSize >= total /\ page * PageSize \in Nat
    BY <2>1, <2>3, PagesSuffice, PageBounds
  <2>5. QED
    BY <2>2, <2>3, <2>4
<1>2. QED
  BY Invariance, <1>1, PTL DEF Spec, MissedOnlyByStaleTotal
=============================================================================
