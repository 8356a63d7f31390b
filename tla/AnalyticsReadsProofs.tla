------------------------ MODULE AnalyticsReadsProofs ------------------------
(***************************************************************************)
(* Proofs about AnalyticsReads, for any number of students, sessions and    *)
(* events and any scores.                                                   *)
(***************************************************************************)
EXTENDS AnalyticsReads, Sums

Places == {"idle", "students", "sessions", "events", "minutes", "score",
           "summary", "student", "list", "count", "activity", "scored",
           "missing"}

Counts == [students : Nat, sessions : Nat, events : Nat]

\* The means there can be; of the sums nothing is said.
Means == {Mean(S) : S \in SUBSET Event} \cup {<<0, 0>>}

TypeOK ==
    /\ students \subseteq Student /\ IsFiniteSet(students)
    /\ sessions \subseteq Session /\ IsFiniteSet(sessions)
    /\ events \subseteq Event /\ IsFiniteSet(events)
    /\ at \in Places
    /\ got \in [students : Nat, sessions : Nat, events : Nat, score : Means,
                list : SUBSET Event]
    /\ began \in Counts

\* The tables only grow while a request runs.
BeganBefore ==
    /\ began.students <= Cardinality(Active)
    /\ began.sessions <= Cardinality(sessions)
    /\ began.events <= Cardinality(events)

\* What a summary has counted lies between then and now.
CountsFit ==
    /\ at \in {"sessions", "events", "minutes", "score", "summary"} =>
          got.students \in began.students .. Cardinality(Active)
    /\ at \in {"events", "minutes", "score", "summary"} =>
          got.sessions \in began.sessions .. Cardinality(sessions)
    /\ at \in {"minutes", "score", "summary"} =>
          got.events \in began.events .. Cardinality(events)

\* The events a score is computed from stay events of the student.
ListFits == at = "count" => got.list \subseteq EventsOf(whom)

\* Once the sessions are counted, neither side changes.
ScoredFits ==
    at \in {"activity", "scored"} =>
        Cardinality({e.session : e \in got.list}) <= got.sessions

IInv ==
    TypeOK /\ BeganBefore /\ CountsFit /\ MeanCoversTotal /\ ListFits /\ ScoredFits
-----------------------------------------------------------------------------
\* The next SELECT.
LEMMA NextSelects ==
    /\ After["students"] = "sessions" /\ After["sessions"] = "events"
    /\ After["events"] = "minutes" /\ After["minutes"] = "score"
    /\ After["score"] = "summary" /\ After["student"] = "list"
    /\ After["list"] = "count" /\ After["count"] = "activity"
    /\ After["activity"] = "scored"
BY DEF After

\* The size of the tables is a number.
LEMMA Sizes ==
    ASSUME TypeOK
    PROVE  /\ IsFiniteSet(Active) /\ Cardinality(Active) \in Nat
           /\ Cardinality(sessions) \in Nat /\ Cardinality(events) \in Nat
<1>1. IsFiniteSet(Active)
  BY FS_Subset DEF TypeOK, Active
<1>2. QED
  BY <1>1, FS_CardinalityType DEF TypeOK

\* As many rows are chosen from as there are different values of a column.
LEMMA ColumnIsSmaller ==
    ASSUME NEW S, IsFiniteSet(S)
    PROVE  LET T == {s.pk : s \in S}
           IN  IsFiniteSet(T) /\ Cardinality(T) <= Cardinality(S)
<1> DEFINE T == {s.pk : s \in S}
           f == [s \in S |-> s.pk]
<1>1. f \in Surjection(S, T)
  BY DEF Surjection
<1>2. QED
  BY <1>1, FS_Surjection

\* The sessions of any events of a student are among the student's sessions.
LEMMA SessionsOfEvents ==
    ASSUME TypeOK, NEW k, NEW E \in SUBSET EventsOf(k)
    PROVE  /\ IsFiniteSet(SessionsOf(k)) /\ Cardinality(SessionsOf(k)) \in Nat
           /\ IsFiniteSet({e.session : e \in E})
           /\ Cardinality({e.session : e \in E}) <= Cardinality(SessionsOf(k))
<1> DEFINE T == {s.pk : s \in SessionsOf(k)}
           U == {e.session : e \in E}
<1>1. IsFiniteSet(SessionsOf(k))
  BY FS_Subset DEF TypeOK, SessionsOf
<1>2. IsFiniteSet(T) /\ Cardinality(T) <= Cardinality(SessionsOf(k))
  BY <1>1, ColumnIsSmaller
<1>3. U \subseteq T
  BY DEF EventsOf
<1>4. IsFiniteSet(U) /\ Cardinality(U) <= Cardinality(T)
  BY <1>2, <1>3, FS_Subset
<1>5. /\ Cardinality(SessionsOf(k)) \in Nat /\ Cardinality(T) \in Nat
      /\ Cardinality(U) \in Nat
  BY <1>1, <1>2, <1>4, FS_CardinalityType
<1>6. QED
  BY <1>1, <1>2, <1>4, <1>5

\* A row more in a finite set of rows.
LEMMA OneMore ==
    ASSUME NEW S, IsFiniteSet(S), NEW x
    PROVE  /\ IsFiniteSet(S \cup {x}) /\ S \subseteq S \cup {x}
           /\ Cardinality(S) \in Nat /\ Cardinality(S \cup {x}) \in Nat
           /\ Cardinality(S) <= Cardinality(S \cup {x})
<1>1. IsFiniteSet(S \cup {x})
  BY FS_AddElement
<1>2. QED
  BY <1>1, FS_Subset, FS_CardinalityType

-----------------------------------------------------------------------------
\* The invariant

LEMMA InvInit == Init => IInv
<1> SUFFICES ASSUME Init
             PROVE  IInv
  OBVIOUS
<1>1. /\ students = {} /\ sessions = {} /\ events = {} /\ at = "idle"
      /\ got = Nothing /\ began = NoRows
  BY DEF Init
<1>2. IsFiniteSet({}) /\ Cardinality({}) = 0
  BY FS_EmptySet
<1>3. TypeOK
  BY <1>1, <1>2 DEF TypeOK, Places, Counts, Means, Nothing, NoRows
<1>4. Active = {}
  BY <1>1 DEF Active
<1>5. BeganBefore
  BY <1>1, <1>2, <1>4 DEF BeganBefore, NoRows
<1>6. CountsFit /\ MeanCoversTotal /\ ListFits /\ ScoredFits
  BY <1>1 DEF CountsFit, MeanCoversTotal, ListFits, ScoredFits
<1>7. QED
  BY <1>3, <1>5, <1>6 DEF IInv

\* A step that leaves the request alone and lets the tables grow keeps it.
LEMMA GrowthKeeps ==
    ASSUME IInv, TypeOK', UNCHANGED <<at, whom, got, began>>,
           students \subseteq students', sessions \subseteq sessions',
           events \subseteq events'
    PROVE  IInv'
<1>1. Active \subseteq Active' /\ IsFiniteSet(Active')
  <2>1. Active \subseteq Active'
    BY DEF Active
  <2>2. Active' \subseteq students' /\ IsFiniteSet(students')
    BY DEF TypeOK, Active
  <2>3. QED
    BY <2>1, <2>2, FS_Subset
<1>2. /\ Cardinality(Active) \in Nat /\ Cardinality(Active') \in Nat
      /\ Cardinality(Active) <= Cardinality(Active')
  BY <1>1, FS_Subset, FS_CardinalityType
<1>3. /\ Cardinality(sessions) \in Nat /\ Cardinality(sessions') \in Nat
      /\ Cardinality(sessions) <= Cardinality(sessions')
  BY FS_Subset, FS_CardinalityType DEF TypeOK
<1>4. /\ Cardinality(events) \in Nat /\ Cardinality(events') \in Nat
      /\ Cardinality(events) <= Cardinality(events')
  BY FS_Subset, FS_CardinalityType DEF TypeOK
<1>5. /\ began.students \in Nat /\ began.sessions \in Nat /\ began.events \in Nat
      /\ got.students \in Nat /\ got.sessions \in Nat /\ got.events \in Nat
  BY DEF IInv, TypeOK, Counts
<1>6. BeganBefore'
  BY <1>2, <1>3, <1>4, <1>5 DEF IInv, BeganBefore
<1>7. CountsFit'
  BY <1>2, <1>3, <1>4, <1>5 DEF IInv, CountsFit
<1>8. ListFits'
  BY DEF IInv, ListFits, EventsOf, SessionsOf
<1>9. MeanCoversTotal' /\ ScoredFits'
  BY DEF IInv, MeanCoversTotal, ScoredFits
<1>10. QED
  BY <1>6, <1>7, <1>8, <1>9 DEF IInv

LEMMA CommitKeeps ==
    ASSUME IInv, CommitStudent \/ CommitSession \/ CommitEvent
    PROVE  IInv'
<1>1. CASE CommitStudent
  <2>1. PICK x \in Student : students' = students \cup {x}
    BY <1>1 DEF CommitStudent, Fresh, Student
  <2>2. IsFiniteSet(students')
    BY <2>1, OneMore DEF IInv, TypeOK
  <2>3. TypeOK'
    BY <1>1, <2>1, <2>2 DEF IInv, TypeOK, CommitStudent
  <2>4. QED
    BY <1>1, <2>1, <2>3, GrowthKeeps DEF CommitStudent
<1>2. CASE CommitSession
  <2>1. PICK x \in Session : sessions' = sessions \cup {x}
    BY <1>2 DEF CommitSession, Fresh, Session, IInv, TypeOK, Student
  <2>2. IsFiniteSet(sessions')
    BY <2>1, OneMore DEF IInv, TypeOK
  <2>3. TypeOK'
    BY <1>2, <2>1, <2>2 DEF IInv, TypeOK, CommitSession
  <2>4. QED
    BY <1>2, <2>1, <2>3, GrowthKeeps DEF CommitSession
<1>3. CASE CommitEvent
  <2>1. PICK x \in Event : events' = events \cup {x}
    BY <1>3 DEF CommitEvent, Fresh, Event, IInv, TypeOK, Session
  <2>2. IsFiniteSet(events')
    BY <2>1, OneMore DEF IInv, TypeOK
  <2>3. TypeOK'
    BY <1>3, <2>1, <2>2 DEF IInv, TypeOK, CommitEvent
  <2>4. QED
    BY <1>3, <2>1, <2>3, GrowthKeeps DEF CommitEvent
<1>4. QED
  BY <1>1, <1>2, <1>3

\* The numbers a request begins with are those of the tables.
LEMMA BeginKeeps ==
    ASSUME IInv, NEW first \in {"students", "student"}, Begin(first)
    PROVE  IInv'
<1>1. /\ at' = first /\ UNCHANGED <<students, sessions, events, got>>
      /\ began' = [students |-> Cardinality(Active),
                   sessions |-> Cardinality(sessions),
                   events |-> Cardinality(events)]
  BY DEF Begin, tables
<1>2. Active' = Active
  BY <1>1 DEF Active
<1>3. TypeOK'
  BY <1>1, Sizes DEF IInv, TypeOK, Places, Counts
<1>4. BeganBefore'
  BY <1>1, <1>2, Sizes DEF IInv, BeganBefore
<1>5. CountsFit' /\ MeanCoversTotal' /\ ListFits' /\ ScoredFits'
  BY <1>1 DEF CountsFit, MeanCoversTotal, ListFits, ScoredFits
<1>6. QED
  BY <1>3, <1>4, <1>5 DEF IInv

\* Each SELECT returns something of what is committed when it runs.
LEMMA SummarySelects ==
    ASSUME IInv, CountStudents \/ CountSessions \/ CountEvents \/ MeanMinutes
                 \/ MeanScore
    PROVE  IInv'
<1>1. UNCHANGED <<students, sessions, events, whom, began>> /\ Active' = Active
  BY DEF CountStudents, CountSessions, CountEvents, MeanMinutes, MeanScore,
     Select, tables, Active
<1>2. BeganBefore'
  BY <1>1 DEF IInv, BeganBefore
<1>3. CASE CountStudents
  <2>1. /\ at' = "sessions"
        /\ got' = [got EXCEPT !.students = Cardinality(Active)]
    BY <1>3, NextSelects DEF CountStudents, Select
  <2>2. TypeOK'
    BY <1>1, <2>1, Sizes DEF IInv, TypeOK, Places
  <2>3. CountsFit'
    BY <1>1, <2>1, Sizes DEF IInv, TypeOK, CountsFit, BeganBefore, Counts
  <2>4. MeanCoversTotal' /\ ListFits' /\ ScoredFits'
    BY <2>1 DEF MeanCoversTotal, ListFits, ScoredFits
  <2>5. QED
    BY <1>2, <2>2, <2>3, <2>4 DEF IInv
<1>4. CASE CountSessions
  <2>1. /\ at = "sessions" /\ at' = "events"
        /\ got' = [got EXCEPT !.sessions = Cardinality(sessions)]
    BY <1>4, NextSelects DEF CountSessions, Select
  <2>2. TypeOK'
    BY <1>1, <2>1, Sizes DEF IInv, TypeOK, Places
  <2>3. CountsFit'
    BY <1>1, <2>1, Sizes DEF IInv, TypeOK, CountsFit, BeganBefore, Counts
  <2>4. MeanCoversTotal' /\ ListFits' /\ ScoredFits'
    BY <2>1 DEF MeanCoversTotal, ListFits, ScoredFits
  <2>5. QED
    BY <1>2, <2>2, <2>3, <2>4 DEF IInv
<1>5. CASE CountEvents
  <2>1. /\ at = "events" /\ at' = "minutes"
        /\ got' = [got EXCEPT !.events = Cardinality(events)]
    BY <1>5, NextSelects DEF CountEvents, Select
  <2>2. TypeOK'
    BY <1>1, <2>1, Sizes DEF IInv, TypeOK, Places
  <2>3. CountsFit'
    BY <1>1, <2>1, Sizes DEF IInv, TypeOK, CountsFit, BeganBefore, Counts
  <2>4. MeanCoversTotal' /\ ListFits' /\ ScoredFits'
    BY <2>1 DEF MeanCoversTotal, ListFits, ScoredFits
  <2>5. QED
    BY <1>2, <2>2, <2>3, <2>4 DEF IInv
<1>6. CASE MeanMinutes
  <2>1. at = "minutes" /\ at' = "score" /\ got' = got
    BY <1>6, NextSelects DEF MeanMinutes
  <2>2. TypeOK'
    BY <1>1, <2>1 DEF IInv, TypeOK, Places
  <2>3. CountsFit'
    BY <1>1, <2>1 DEF IInv, CountsFit
  <2>4. MeanCoversTotal' /\ ListFits' /\ ScoredFits'
    BY <2>1 DEF MeanCoversTotal, ListFits, ScoredFits
  <2>5. QED
    BY <1>2, <2>2, <2>3, <2>4 DEF IInv
<1>7. CASE MeanScore
  <2>1. /\ at = "score" /\ at' = "summary"
        /\ got' = [got EXCEPT !.score = Mean(events)]
    BY <1>7, NextSelects DEF MeanScore, Select
  <2>2. Mean(events) \in Means /\ Mean(events)[2] = Cardinality(events)
    BY DEF IInv, TypeOK, Means, Mean
  <2>3. TypeOK'
    BY <1>1, <2>1, <2>2 DEF IInv, TypeOK, Places
  <2>4. CountsFit'
    BY <1>1, <2>1 DEF IInv, TypeOK, CountsFit
  <2>5. got.events \in Nat /\ got.events <= Cardinality(events)
    BY <2>1, Sizes DEF IInv, TypeOK, CountsFit, Counts
  <2>6. got'.score = Mean(events) /\ got'.events = got.events
    BY <2>1 DEF IInv, TypeOK
  <2>7. MeanCoversTotal'
    BY <2>2, <2>5, <2>6, Sizes DEF IInv, MeanCoversTotal
  <2>8. ListFits' /\ ScoredFits'
    BY <2>1 DEF ListFits, ScoredFits
  <2>9. QED
    BY <1>2, <2>3, <2>4, <2>7, <2>8 DEF IInv
<1>8. QED
  BY <1>3, <1>4, <1>5, <1>6, <1>7

LEMMA ScoreSelects ==
    ASSUME IInv, FindStudent \/ ListEvents \/ CountSessionsOf \/ CountEventsOf
    PROVE  IInv'
<1>1. /\ UNCHANGED <<students, sessions, events, whom, began>>
      /\ Active' = Active /\ EventsOf(whom)' = EventsOf(whom)
  BY DEF FindStudent, ListEvents, CountSessionsOf, CountEventsOf,
     Select, tables, Active, EventsOf, SessionsOf
<1>2. BeganBefore'
  BY <1>1 DEF IInv, BeganBefore
<1>3. CASE FindStudent
  <2>1. at' \in {"list", "missing"} /\ got' = got
    BY <1>3, NextSelects DEF FindStudent
  <2>2. TypeOK'
    BY <1>1, <2>1 DEF IInv, TypeOK, Places
  <2>3. CountsFit' /\ MeanCoversTotal' /\ ListFits' /\ ScoredFits'
    BY <2>1 DEF CountsFit, MeanCoversTotal, ListFits, ScoredFits
  <2>4. QED
    BY <1>2, <2>2, <2>3 DEF IInv
<1>4. CASE ListEvents
  <2>1. at' = "count" /\ got' = [got EXCEPT !.list = EventsOf(whom)]
    BY <1>4, NextSelects DEF ListEvents, Select
  <2>2. EventsOf(whom) \subseteq Event
    BY DEF IInv, TypeOK, EventsOf
  <2>3. TypeOK'
    BY <1>1, <2>1, <2>2 DEF IInv, TypeOK, Places
  <2>4. ListFits'
    BY <1>1, <2>1 DEF IInv, TypeOK, ListFits
  <2>5. CountsFit' /\ MeanCoversTotal' /\ ScoredFits'
    BY <2>1 DEF CountsFit, MeanCoversTotal, ScoredFits
  <2>6. QED
    BY <1>2, <2>3, <2>4, <2>5 DEF IInv
<1>5. CASE CountSessionsOf
  <2>1. /\ at = "count" /\ at' = "activity"
        /\ got' = [got EXCEPT !.sessions = Cardinality(SessionsOf(whom))]
    BY <1>5, NextSelects DEF CountSessionsOf, Select
  <2>2. got.list \in SUBSET EventsOf(whom)
    BY <2>1 DEF IInv, ListFits
  <2>3. /\ Cardinality(SessionsOf(whom)) \in Nat
        /\ Cardinality({e.session : e \in got.list})
             <= Cardinality(SessionsOf(whom))
    BY <2>2, SessionsOfEvents DEF IInv
  <2>4. TypeOK'
    BY <1>1, <2>1, <2>3 DEF IInv, TypeOK, Places
  <2>5. /\ got'.list = got.list
        /\ got'.sessions = Cardinality(SessionsOf(whom))
    BY <2>1 DEF IInv, TypeOK
  <2>6. ScoredFits'
    BY <2>3, <2>5 DEF ScoredFits
  <2>7. CountsFit' /\ MeanCoversTotal' /\ ListFits'
    BY <2>1 DEF CountsFit, MeanCoversTotal, ListFits
  <2>8. QED
    BY <1>2, <2>4, <2>6, <2>7 DEF IInv
<1>6. CASE CountEventsOf
  <2>1. /\ at = "activity" /\ at' = "scored"
        /\ got' = [got EXCEPT !.events = Cardinality(EventsOf(whom))]
    BY <1>6, NextSelects DEF CountEventsOf, Select
  <2>2. EventsOf(whom) \subseteq events
    BY DEF EventsOf
  <2>3. Cardinality(EventsOf(whom)) \in Nat
    BY <2>2, FS_Subset, FS_CardinalityType DEF IInv, TypeOK
  <2>4. TypeOK'
    BY <1>1, <2>1, <2>3 DEF IInv, TypeOK, Places
  <2>5. got'.list = got.list /\ got'.sessions = got.sessions
    BY <2>1 DEF IInv, TypeOK
  <2>6. ScoredFits'
    BY <2>1, <2>5 DEF IInv, ScoredFits
  <2>7. CountsFit' /\ MeanCoversTotal' /\ ListFits'
    BY <2>1 DEF CountsFit, MeanCoversTotal, ListFits
  <2>8. QED
    BY <1>2, <2>4, <2>6, <2>7 DEF IInv
<1>7. QED
  BY <1>3, <1>4, <1>5, <1>6

LEMMA RespondKeeps ==
    ASSUME IInv, Respond
    PROVE  IInv'
<1>1. /\ UNCHANGED <<students, sessions, events>> /\ at' = "idle"
      /\ got' = Nothing /\ began' = NoRows /\ Active' = Active
  BY DEF Respond, tables, Active
<1>2. TypeOK'
  BY <1>1 DEF IInv, TypeOK, Places, Counts, Means, Nothing, NoRows
<1>3. BeganBefore'
  BY <1>1, Sizes DEF IInv, BeganBefore, NoRows
<1>4. CountsFit' /\ MeanCoversTotal' /\ ListFits' /\ ScoredFits'
  BY <1>1 DEF CountsFit, MeanCoversTotal, ListFits, ScoredFits
<1>5. QED
  BY <1>2, <1>3, <1>4 DEF IInv

LEMMA InvStep == IInv /\ [Next]_vars => IInv'
<1> SUFFICES ASSUME IInv, [Next]_vars
             PROVE  IInv'
  OBVIOUS
<1>1. ASSUME UNCHANGED vars
      PROVE  IInv'
  <2>1. TypeOK'
    BY <1>1 DEF IInv, TypeOK, vars, tables
  <2>2. QED
    BY <1>1, <2>1, GrowthKeeps DEF vars, tables
<1>2. QED
  BY <1>1, CommitKeeps, BeginKeeps, SummarySelects, ScoreSelects, RespondKeeps
     DEF Next, BeginSummary, BeginScore

-----------------------------------------------------------------------------
\* The types, and what the SELECTs of a request so far say of each other.
THEOREM Invariance == Spec => []IInv
BY InvInit, InvStep, PTL DEF Spec

\* Each total of a summary is one its table had during the request.
THEOREM TotalsFit == Spec => []TotalsOfTheRequest
<1>1. IInv => TotalsOfTheRequest
  BY DEF IInv, CountsFit, TotalsOfTheRequest
<1>2. QED
  BY Invariance, <1>1, PTL

\* The mean score of a summary covers the events it counts.
THEOREM MeanFits == Spec => []MeanCoversTotal
<1>1. IInv => MeanCoversTotal
  BY DEF IInv
<1>2. QED
  BY Invariance, <1>1, PTL

\* A score counts a session for each of which it has an event.
THEOREM ScoreFits == Spec => []ScoreCountsFit
<1>1. IInv => ScoreCountsFit
  BY DEF IInv, ScoredFits, ScoreCountsFit
<1>2. QED
  BY Invariance, <1>1, PTL

-----------------------------------------------------------------------------
\* The ranking

\* Students keep the keys they were given.
Keyed == \A s, t \in students : s.pk = t.pk => s = t

LEMMA KeysStand == Spec => []Keyed
<1>1. Init => Keyed
  BY DEF Init, Keyed
<1>2. Keyed /\ [Next]_vars => Keyed'
  <2> SUFFICES ASSUME Keyed, [Next]_vars
               PROVE  Keyed'
    OBVIOUS
  <2>1. CASE CommitStudent
    BY <2>1 DEF CommitStudent, Fresh, Keyed
  <2>2. CASE UNCHANGED students
    BY <2>2 DEF Keyed
  <2>3. QED
    BY <2>1, <2>2
       DEF Next, vars, tables, CommitSession, CommitEvent, BeginSummary, BeginScore,
           Begin, CountStudents, CountSessions, CountEvents, MeanMinutes, MeanScore,
           FindStudent, ListEvents, CountSessionsOf, CountEventsOf, Select, Respond
<1>3. QED
  BY <1>1, <1>2, PTL DEF Spec

\* The sum of a mean is that of the scores.
LEMMA MeanIs ==
    ASSUME NEW S, IsFiniteSet(S)
    PROVE  Mean(S) = <<Total([e \in S |-> e.score], S), Cardinality(S)>>
<1> DEFINE f == [e \in S |-> e.score]
           Adds(g) == g = [s \in SUBSET S |->
                              IF s = {} THEN 0
                              ELSE (CHOOSE x \in s : TRUE).score
                                       + g[s \ {CHOOSE x \in s : TRUE}]]
           G == CHOOSE g : Adds(g)
<1>1. Mean(S) = <<G[S], Cardinality(S)>>
  BY DEF Mean, MapThenSumSet, MapThenFoldSet
<1>2. ASSUME NEW g
      PROVE  Adds(g) <=> SumsUp(g, f, S)
  <2>1. \A s \in SUBSET S : s # {} => f[Chosen(s)] = Chosen(s).score
    BY DEF Chosen
  <2>2. [s \in SUBSET S |-> IF s = {} THEN 0
                            ELSE Chosen(s).score + g[s \ {Chosen(s)}]]
        = [s \in SUBSET S |-> IF s = {} THEN 0
                              ELSE f[Chosen(s)] + g[s \ {Chosen(s)}]]
    <3> HIDE DEF f
    <3>1. QED
      BY <2>1
  <2> HIDE DEF f
  <2>3. QED
    BY <2>2 DEF SumsUp, Chosen
<1>3. \E g : SumsUp(g, f, S)
  BY SumsExist
<1>4. SumsUp(G, f, S)
  <2> HIDE DEF f, Adds
  <2>1. \E g : Adds(g)
    BY <1>2, <1>3
  <2>2. Adds(G)
    BY <2>1
  <2>3. QED
    BY <1>2, <2>2
<1>5. Total(f, S) = G[S]
  <2> HIDE DEF f, G
  <2>1. QED
    BY <1>4, TotalIs
<1>6. QED
  BY <1>1, <1>5

LEMMA MeanTypes ==
    ASSUME TypeOK, NEW s \in Ranked
    PROVE  MeanOf(s)[1] \in Nat /\ MeanOf(s)[2] \in Nat \ {0}
<1> DEFINE E == EventsOf(s.pk)
<1>1. IsFiniteSet(E) /\ E # {} /\ E \subseteq Event
  BY FS_Subset DEF TypeOK, EventsOf, Ranked
<1>2. \A e \in E : e.score \in Nat
  BY <1>1, ReadsAssumption DEF Event
<1>3. Cardinality(E) \in Nat \ {0}
  BY <1>1, FS_CardinalityType, FS_EmptySet
<1>4. Total([e \in E |-> e.score], E) \in Nat
  <2> DEFINE f == [e \in E |-> e.score]
  <2>1. \A e \in E : f[e] \in Nat
    BY <1>2
  <2> HIDE DEF f, E
  <2>2. Total(f, E) \in Nat
    BY <1>1, <2>1, TotalType
  <2>3. QED
    BY <2>2 DEF f
<1>5. MeanOf(s) = <<Total([e \in E |-> e.score], E), Cardinality(E)>>
  BY <1>1, MeanIs DEF MeanOf
<1>6. QED
  BY <1>3, <1>4, <1>5

\* A product keeps the order of what is multiplied by a positive number.
LEMMA TimesKeeps ==
    ASSUME NEW x \in Nat, NEW y \in Nat, NEW k \in Nat \ {0}
    PROVE  /\ x > y <=> x * k > y * k
           /\ x * k \in Nat /\ y * k \in Nat
OBVIOUS

\* Quotients compared crosswise: a / p against b / q, and b / q against c / r.
LEMMA Crosswise ==
    ASSUME NEW a \in Nat, NEW b \in Nat, NEW c \in Nat,
           NEW p \in Nat \ {0}, NEW q \in Nat \ {0}, NEW r \in Nat \ {0}
    PROVE  /\ a * q > b * p /\ ~(c * q > b * r) => a * r > c * p
           /\ ~(b * p > a * q) /\ b * r > c * q => a * r > c * p
           /\ ~(b * p > a * q) /\ ~(c * q > b * r) => ~(c * p > a * r)
<1>1. /\ a * q \in Nat /\ b * p \in Nat /\ c * q \in Nat /\ b * r \in Nat
      /\ a * r \in Nat /\ c * p \in Nat
  OBVIOUS
<1>2. /\ a * q > b * p <=> (a * q) * r > (b * p) * r
      /\ b * p > a * q <=> (b * p) * r > (a * q) * r
      /\ c * q > b * r <=> (c * q) * p > (b * r) * p
      /\ b * r > c * q <=> (b * r) * p > (c * q) * p
      /\ a * r > c * p <=> (a * r) * q > (c * p) * q
      /\ c * p > a * r <=> (c * p) * q > (a * r) * q
  BY <1>1, TimesKeeps
<1>3. /\ (a * q) * r = (a * r) * q /\ (b * p) * r = (b * r) * p
      /\ (c * q) * p = (c * p) * q
  OBVIOUS
<1>4. (a * r) * q \in Nat /\ (b * r) * p \in Nat /\ (c * p) * q \in Nat
  BY <1>1, TimesKeeps
<1> DEFINE x == (a * r) * q
           y == (b * r) * p
           z == (c * p) * q
<1>5. /\ a * q > b * p <=> x > y
      /\ b * p > a * q <=> y > x
      /\ c * q > b * r <=> z > y
      /\ b * r > c * q <=> y > z
      /\ a * r > c * p <=> x > z
      /\ c * p > a * r <=> z > x
      /\ x \in Nat /\ y \in Nat /\ z \in Nat
  BY <1>2, <1>3, <1>4
<1> HIDE DEF x, y, z
<1>6. QED
  BY <1>5

\* Of a finite set in a strict order, where ahead[t] are those before t, the
\* first n are n, or all there are.
LEMMA FirstOnes ==
    ASSUME NEW R, IsFiniteSet(R), NEW ahead \in [R -> SUBSET R], NEW n \in Nat,
           \A s \in R : s \notin ahead[s],
           \A s, t, u \in R : s \in ahead[t] /\ t \in ahead[u] => s \in ahead[u],
           \A s, t \in R : s # t => s \in ahead[t] \/ t \in ahead[s],
           NEW T \in SUBSET R, \A t \in R : t \in T <=> Cardinality(ahead[t]) < n
    PROVE  /\ IsFiniteSet(T)
           /\ Cardinality(T) = IF n <= Cardinality(R) THEN n ELSE Cardinality(R)
<1> DEFINE rank(t) == Cardinality(ahead[t])
           N == Cardinality(R)
           f == [t \in R |-> rank(t)]
           m == IF n <= N THEN n ELSE N
           g == [t \in T |-> f[t]]
<1>1. N \in Nat
  BY FS_CardinalityType
<1>2. ASSUME NEW t \in R
      PROVE  IsFiniteSet(ahead[t]) /\ rank(t) \in Nat /\ rank(t) < N
  <2>1. t \notin ahead[t] /\ ahead[t] \subseteq R
    OBVIOUS
  <2>2. IsFiniteSet(ahead[t]) /\ IsFiniteSet(ahead[t] \cup {t})
    BY <2>1, FS_Subset, FS_AddElement
  <2>3. rank(t) \in Nat /\ Cardinality(ahead[t] \cup {t}) = rank(t) + 1
    BY <2>1, <2>2, FS_AddElement, FS_CardinalityType
  <2>4. ahead[t] \cup {t} \subseteq R
    BY <2>1
  <2>5. Cardinality(ahead[t] \cup {t}) <= N
    BY <2>4, FS_Subset
  <2> HIDE DEF rank, N
  <2>6. QED
    BY <1>1, <2>2, <2>3, <2>5
<1>3. ASSUME NEW s \in R, NEW t \in R, s \in ahead[t]
      PROVE  rank(s) < rank(t)
  <2>1. s \notin ahead[s] /\ ahead[s] \cup {s} \subseteq ahead[t]
    BY <1>3
  <2>2. IsFiniteSet(ahead[s]) /\ IsFiniteSet(ahead[t])
    BY <1>2
  <2>3. Cardinality(ahead[s] \cup {s}) = rank(s) + 1
    BY <2>1, <2>2, FS_AddElement
  <2>4. Cardinality(ahead[s] \cup {s}) <= rank(t)
    BY <2>1, <2>2, FS_Subset
  <2>5. rank(s) \in Nat /\ rank(t) \in Nat
    BY <1>2
  <2> HIDE DEF rank
  <2>6. QED
    BY <2>3, <2>4, <2>5
<1>4. f \in Injection(R, 0 .. N - 1)
  <2>1. \A t \in R : rank(t) \in 0 .. N - 1
    <3> SUFFICES ASSUME NEW t \in R
                 PROVE  rank(t) \in 0 .. N - 1
      OBVIOUS
    <3>1. rank(t) \in Nat /\ rank(t) < N
      BY <1>2
    <3> HIDE DEF rank, N
    <3>2. QED
      BY <1>1, <3>1
  <2>2. \A s, t \in R : rank(s) = rank(t) => s = t
    <3>1. ASSUME NEW s \in R, NEW t \in R, rank(s) = rank(t), s # t
          PROVE  FALSE
      <4>1. s \in ahead[t] \/ t \in ahead[s]
        BY <3>1
      <4>2. rank(s) < rank(t) \/ rank(t) < rank(s)
        BY <1>3, <4>1
      <4>3. rank(s) \in Nat /\ rank(t) \in Nat
        BY <1>2
      <4> HIDE DEF rank
      <4>4. QED
        BY <3>1, <4>2, <4>3
    <3>2. QED
      BY <3>1
  <2> HIDE DEF rank, N
  <2>3. QED
    BY <2>1, <2>2 DEF Injection, IsInjective
<1>5. f \in Surjection(R, 0 .. N - 1)
  <2>1. IsFiniteSet(0 .. N - 1) /\ Cardinality(0 .. N - 1) = N
    <3> HIDE DEF N
    <3>1. QED
      BY <1>1, FS_Interval
  <2> HIDE DEF f
  <2>2. QED
    BY <1>4, <2>1, FS_Injection
<1>6. m \in Nat /\ m <= N /\ m <= n
  <2> HIDE DEF N
  <2>1. QED
    BY <1>1
<1>7. \A t \in T : t \in R /\ f[t] \in 0 .. m - 1
  <2>1. \A t \in T : t \in R /\ f[t] = rank(t) /\ rank(t) < n
    OBVIOUS
  <2>2. \A t \in R : rank(t) \in Nat /\ rank(t) < N
    BY <1>2
  <2> HIDE DEF rank, f, N
  <2>3. QED
    BY <1>1, <1>6, <2>1, <2>2
<1>8. \A k \in 0 .. m - 1 : \E t \in T : f[t] = k
  <2> SUFFICES ASSUME NEW k \in 0 .. m - 1
               PROVE  \E t \in T : f[t] = k
    OBVIOUS
  <2>1. k \in 0 .. N - 1 /\ k < n
    <3> HIDE DEF m, N
    <3>1. QED
      BY <1>1, <1>6
  <2>2. PICK t \in R : f[t] = k
    <3> HIDE DEF f, N, m
    <3>1. QED
      BY <1>5, <2>1 DEF Surjection
  <2>3. rank(t) = k
    BY <2>2
  <2>4. t \in T
    BY <2>1, <2>3
  <2>5. QED
    BY <2>2, <2>4
<1>9. g \in Bijection(T, 0 .. m - 1)
  <2>1. \A s, t \in T : f[s] = f[t] => s = t
    <3> HIDE DEF f, N
    <3>1. QED
      BY <1>4, <1>7 DEF Injection, IsInjective
  <2> HIDE DEF f, m
  <2>2. QED
    BY <1>7, <1>8, <2>1 DEF Bijection, Injection, Surjection, IsInjective
<1>10. IsFiniteSet(T)
  BY FS_Subset
<1>11. Cardinality(T) = Cardinality(0 .. m - 1)
  <2> HIDE DEF g, m
  <2>1. QED
    BY <1>9, <1>10, FS_Bijection DEF ExistsBijection
<1>12. Cardinality(0 .. m - 1) = m
  <2> HIDE DEF m
  <2>1. QED
    BY <1>6, FS_Interval
<1>13. QED
  BY <1>10, <1>11, <1>12

\* The ranking is a strict order of the students who have events.
LEMMA RankingOrders ==
    ASSUME TypeOK, Keyed
    PROVE  /\ \A s \in Ranked : ~Outranks(s, s)
           /\ \A s, t, u \in Ranked :
                 Outranks(s, t) /\ Outranks(t, u) => Outranks(s, u)
           /\ \A s, t \in Ranked : s # t => Outranks(s, t) \/ Outranks(t, s)
<1>1. \A s \in Ranked : s \in students /\ s.pk \in Nat
  BY ReadsAssumption DEF TypeOK, Ranked, Student
<1>2. ASSUME NEW s \in Ranked
      PROVE  ~Above(MeanOf(s), MeanOf(s))
  <2>1. MeanOf(s)[1] * MeanOf(s)[2] \in Nat
    BY MeanTypes
  <2>2. QED
    BY <2>1 DEF Above
<1>3. ASSUME NEW s \in Ranked, NEW t \in Ranked
      PROVE  ~(Above(MeanOf(s), MeanOf(t)) /\ Above(MeanOf(t), MeanOf(s)))
  <2>1. /\ MeanOf(s)[1] * MeanOf(t)[2] \in Nat
        /\ MeanOf(t)[1] * MeanOf(s)[2] \in Nat
    BY MeanTypes
  <2>2. QED
    BY <2>1 DEF Above
<1>4. ASSUME NEW s \in Ranked, NEW t \in Ranked, NEW u \in Ranked
      PROVE  LET x == MeanOf(s)  y == MeanOf(t)  z == MeanOf(u)
             IN  /\ Above(x, y) /\ ~Above(z, y) => Above(x, z)
                 /\ ~Above(y, x) /\ Above(y, z) => Above(x, z)
                 /\ ~Above(y, x) /\ ~Above(z, y) => ~Above(z, x)
  <2>1. /\ MeanOf(s)[1] \in Nat /\ MeanOf(s)[2] \in Nat \ {0}
        /\ MeanOf(t)[1] \in Nat /\ MeanOf(t)[2] \in Nat \ {0}
        /\ MeanOf(u)[1] \in Nat /\ MeanOf(u)[2] \in Nat \ {0}
    BY MeanTypes
  <2> DEFINE a == MeanOf(s)[1]
             b == MeanOf(t)[1]
             c == MeanOf(u)[1]
             p == MeanOf(s)[2]
             q == MeanOf(t)[2]
             r == MeanOf(u)[2]
  <2>2. /\ a * q > b * p /\ ~(c * q > b * r) => a * r > c * p
        /\ ~(b * p > a * q) /\ b * r > c * q => a * r > c * p
        /\ ~(b * p > a * q) /\ ~(c * q > b * r) => ~(c * p > a * r)
    <3>1. /\ a \in Nat /\ b \in Nat /\ c \in Nat
          /\ p \in Nat \ {0} /\ q \in Nat \ {0} /\ r \in Nat \ {0}
      BY <2>1
    <3> HIDE DEF a, b, c, p, q, r
    <3>2. QED
      BY <3>1, Crosswise
  <2>3. QED
    BY <2>2 DEF Above
<1>5. ASSUME NEW s \in Ranked, NEW t \in Ranked, s # t
      PROVE  s.pk < t.pk \/ t.pk < s.pk
  BY <1>1, <1>5 DEF Keyed
<1>6. \A s \in Ranked : ~Outranks(s, s)
  BY <1>1, <1>2 DEF Outranks
<1>7. \A s, t \in Ranked : s # t => Outranks(s, t) \/ Outranks(t, s)
  BY <1>5 DEF Outranks
<1>8. ASSUME NEW s \in Ranked, NEW t \in Ranked, NEW u \in Ranked,
             Outranks(s, t), Outranks(t, u)
      PROVE  Outranks(s, u)
  <2> DEFINE x == MeanOf(s)
             y == MeanOf(t)
             z == MeanOf(u)
  <2>1. /\ Above(x, y) /\ ~Above(z, y) => Above(x, z)
        /\ ~Above(y, x) /\ Above(y, z) => Above(x, z)
        /\ ~Above(y, x) /\ ~Above(z, y) => ~Above(z, x)
        /\ Above(y, z) => ~Above(z, y)
    BY <1>3, <1>4
  <2>2. /\ Above(x, y) \/ (~Above(y, x) /\ s.pk < t.pk)
        /\ Above(y, z) \/ (~Above(z, y) /\ t.pk < u.pk)
    BY <1>8 DEF Outranks
  <2>3. s.pk < t.pk /\ t.pk < u.pk => s.pk < u.pk
    BY <1>1
  <2>4. Above(x, z) \/ (~Above(z, x) /\ s.pk < u.pk)
    <3> HIDE DEF x, y, z
    <3>1. QED
      BY <2>1, <2>2, <2>3
  <2>5. QED
    BY <2>4 DEF Outranks
<1>9. QED
  BY <1>6, <1>7, <1>8

\* The students of a top list.
Top(n) == {t \in Ranked : Cardinality({u \in Ranked : Outranks(u, t)}) < n}
Line(s) == [student |-> s.pk, mean |-> MeanOf(s),
            session_count |-> Cardinality({e.session : e \in EventsOf(s.pk)})]

LEMMA TopSize ==
    ASSUME TypeOK, Keyed, NEW n \in Nat
    PROVE  /\ IsFiniteSet(Top(n)) /\ Cardinality(Ranked) \in Nat
           /\ Cardinality(Top(n)) = IF n <= Cardinality(Ranked) THEN n
                                    ELSE Cardinality(Ranked)
<1> DEFINE ahead == [t \in Ranked |-> {u \in Ranked : Outranks(u, t)}]
<1>1. IsFiniteSet(Ranked)
  BY FS_Subset DEF TypeOK, Ranked
<1>2. /\ ahead \in [Ranked -> SUBSET Ranked]
      /\ \A s, t \in Ranked : s \in ahead[t] <=> Outranks(s, t)
  OBVIOUS
<1>3. Top(n) \in SUBSET Ranked
  BY DEF Top
<1>4. \A t \in Ranked : t \in Top(n) <=> Cardinality(ahead[t]) < n
  BY DEF Top
<1> HIDE DEF ahead
<1>5. /\ \A s \in Ranked : s \notin ahead[s]
      /\ \A s, t, u \in Ranked : s \in ahead[t] /\ t \in ahead[u] => s \in ahead[u]
      /\ \A s, t \in Ranked : s # t => s \in ahead[t] \/ t \in ahead[s]
  BY <1>2, RankingOrders
<1>6. /\ IsFiniteSet(Top(n))
      /\ Cardinality(Top(n)) = IF n <= Cardinality(Ranked) THEN n
                               ELSE Cardinality(Ranked)
  BY <1>1, <1>2, <1>3, <1>4, <1>5, FirstOnes
<1>7. QED
  BY <1>1, <1>6, FS_CardinalityType

\* A top list has the length asked for or names all who have events, a longer
\* one continues it, and nobody is given more sessions than there are.
THEOREM RankingIsRight == Spec => []RankingFits
<1>1. IInv /\ Keyed => RankingFits
  <2> SUFFICES ASSUME IInv, Keyed, NEW n \in 1 .. MaxLimit
               PROVE  /\ Cardinality(TopStudents(n)) = Min({n, Cardinality(Ranked)})
                      /\ n > 1 => TopStudents(n - 1) \subseteq TopStudents(n)
                      /\ \A r \in TopStudents(n) :
                            r.session_count \in 1 .. Cardinality(SessionsOf(r.student))
    BY DEF RankingFits
  <2>1. TypeOK /\ n \in Nat /\ n - 1 \in Nat
    BY ReadsAssumption DEF IInv
  <2>2. \A k : TopStudents(k) = {Line(s) : s \in Top(k)}
    BY DEF TopStudents, Top, Line
  <2>3. Cardinality(TopStudents(n)) = Cardinality(Top(n))
    <3> DEFINE f == [s \in Top(n) |-> Line(s)]
    <3>1. \A s, t \in Top(n) : Line(s) = Line(t) => s = t
      BY DEF Top, Ranked, Line, Keyed
    <3>2. f \in Bijection(Top(n), TopStudents(n))
      BY <2>2, <3>1 DEF Bijection, Injection, Surjection, IsInjective
    <3> HIDE DEF f
    <3>3. QED
      BY <2>1, <3>2, TopSize, FS_Bijection DEF ExistsBijection
  <2>4. Cardinality(TopStudents(n)) = Min({n, Cardinality(Ranked)})
    <3> DEFINE N == Cardinality(Ranked)
    <3>1. N \in Nat /\ Cardinality(Top(n)) = IF n <= N THEN n ELSE N
      BY <2>1, TopSize
    <3> HIDE DEF N
    <3>2. Min({n, N}) = IF n <= N THEN n ELSE N
      BY <2>1, <3>1 DEF Min
    <3>3. QED
      BY <2>3, <3>1, <3>2 DEF N
  <2>5. Top(n - 1) \subseteq Top(n)
    <3>1. ASSUME NEW t \in Top(n - 1)
          PROVE  t \in Top(n)
      <4> DEFINE k == Cardinality({u \in Ranked : Outranks(u, t)})
      <4>1. k \in Nat
        <5>1. IsFiniteSet({u \in Ranked : Outranks(u, t)})
          BY <2>1, FS_Subset DEF TypeOK, Ranked
        <5>2. QED
          BY <5>1, FS_CardinalityType
      <4>2. t \in Ranked /\ k < n - 1
        BY DEF Top
      <4>3. k < n
        <5> HIDE DEF k
        <5>1. QED
          BY <2>1, <4>1, <4>2
      <4>4. QED
        BY <4>2, <4>3 DEF Top
    <3>2. QED
      BY <3>1
  <2>6. ASSUME NEW s \in Top(n)
        PROVE  Line(s).session_count \in 1 .. Cardinality(SessionsOf(Line(s).student))
    <3> DEFINE E == EventsOf(s.pk)
               U == {e.session : e \in E}
    <3>1. E # {}
      BY DEF Top, Ranked
    <3>2. U # {}
      BY <3>1
    <3>3. /\ Cardinality(SessionsOf(s.pk)) \in Nat /\ IsFiniteSet(U)
          /\ Cardinality(U) <= Cardinality(SessionsOf(s.pk))
      BY <2>1, SessionsOfEvents
    <3>4. Line(s).session_count = Cardinality(U) /\ Line(s).student = s.pk
      BY DEF Line
    <3> HIDE DEF U
    <3>5. Cardinality(U) \in Nat /\ Cardinality(U) # 0
      BY <3>2, <3>3, FS_CardinalityType, FS_EmptySet
    <3>6. QED
      BY <3>3, <3>4, <3>5
  <2>7. QED
    BY <2>2, <2>4, <2>5, <2>6
<1>2. QED
  BY Invariance, KeysStand, <1>1, PTL
=============================================================================
