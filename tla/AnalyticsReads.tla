--------------------------- MODULE AnalyticsReads ---------------------------
(***************************************************************************)
(* GET /analytics/summary, /analytics/students/{id}/score and               *)
(* /analytics/top-students while other requests commit students, sessions   *)
(* and events.  The first takes five SELECTs and the second four; each sees *)
(* what is committed when it runs, and between two of them anything may     *)
(* commit.  The third is one SELECT.                                        *)
(*                                                                          *)
(* A mean is a pair, the sum and the number of its terms; rounding is left  *)
(* out.                                                                     *)
(***************************************************************************)
EXTENDS Integers, FiniteSets, FiniteSetsExt

CONSTANTS StudentPks, SessionPks, EventPks,   \* bounds: the primary keys
          Scores,
          MaxLimit      \* bound: the largest limit asked of top-students

ASSUME ReadsAssumption ==
    /\ StudentPks \subseteq Nat \ {0} /\ SessionPks \subseteq Nat \ {0}
    /\ EventPks \subseteq Nat \ {0}
    /\ Scores \subseteq Nat /\ MaxLimit \in Nat \ {0}

VARIABLES students, sessions, events,  \* the committed rows
          at,     \* the SELECT the request is before, or idle
          whom,   \* the student whose score is asked for, or 0
          got,    \* what the SELECTs so far have returned
          began   \* the numbers of rows when the request began

tables == <<students, sessions, events>>
vars == <<tables, at, whom, got, began>>

Student == [pk : StudentPks, active : BOOLEAN]
Session == [pk : SessionPks, student : StudentPks]
Event == [pk : EventPks, session : SessionPks, score : Scores]

\* avg ignores NULL; an average over no rows is NULL, and "or 0.0" makes it 0.
Mean(S) == <<MapThenSumSet(LAMBDA e : e.score, S), Cardinality(S)>>

NoRows == [students |-> 0, sessions |-> 0, events |-> 0]
Nothing == [students |-> 0, sessions |-> 0, events |-> 0,
            score |-> <<0, 0>>, list |-> {}]

Active == {s \in students : s.active}
SessionsOf(k) == {s \in sessions : s.student = k}

\* The JOIN of the events and their sessions, for one student.
EventsOf(k) == {e \in events : \E s \in SessionsOf(k) : s.pk = e.session}

-----------------------------------------------------------------------------
\* Commits of other requests; a child's parent is committed (EngagementStore).

Fresh(pks, rows) == {k \in pks : \A w \in rows : w.pk # k}

CommitStudent ==
    /\ \E k \in Fresh(StudentPks, students), a \in BOOLEAN :
          students' = students \cup {[pk |-> k, active |-> a]}
    /\ UNCHANGED <<sessions, events, at, whom, got, began>>

CommitSession ==
    /\ \E k \in Fresh(SessionPks, sessions), s \in students :
          sessions' = sessions \cup {[pk |-> k, student |-> s.pk]}
    /\ UNCHANGED <<students, events, at, whom, got, began>>

CommitEvent ==
    /\ \E k \in Fresh(EventPks, events), s \in sessions, c \in Scores :
          events' = events \cup {[pk |-> k, session |-> s.pk, score |-> c]}
    /\ UNCHANGED <<students, sessions, at, whom, got, began>>

-----------------------------------------------------------------------------
\* The order of the SELECTs.  Faults: the mean score is read before the events
\* are counted; a student's sessions are counted before the events are listed.
AfterScoreFirst ==
    [students |-> "sessions", sessions |-> "score", score |-> "events",
     events |-> "minutes", minutes |-> "summary",
     student |-> "list", list |-> "count", count |-> "activity",
     activity |-> "scored"]
AfterCountFirst ==
    [students |-> "sessions", sessions |-> "events", events |-> "minutes",
     minutes |-> "score", score |-> "summary",
     student |-> "count", count |-> "list", list |-> "activity",
     activity |-> "scored"]

After ==
    [students |-> "sessions", sessions |-> "events", events |-> "minutes",
     minutes |-> "score", score |-> "summary",
     student |-> "list", list |-> "count", count |-> "activity",
     activity |-> "scored"]

\* One of them: what it returns goes to got.
Select(here, field, value) ==
    /\ at = here
    /\ got' = [got EXCEPT ![field] = value]
    /\ at' = After[here]
    /\ UNCHANGED <<tables, whom, began>>

Begin(first) ==
    /\ at = "idle"
    /\ at' = first
    /\ began' = [students |-> Cardinality(Active),
                 sessions |-> Cardinality(sessions),
                 events |-> Cardinality(events)]
    /\ UNCHANGED <<tables, got>>

\* SqlAlchemyAnalyticsRepository.summary
BeginSummary == Begin("students") /\ UNCHANGED whom

CountStudents == Select("students", "students", Cardinality(Active))

CountSessions == Select("sessions", "sessions", Cardinality(sessions))

\* Fault: the count is that of a JOIN, grouped.
CountEventfulSessions ==
    Select("events", "events",
           Cardinality({s \in sessions : \E e \in events : e.session = s.pk}))

CountEvents == Select("events", "events", Cardinality(events))

\* The mean duration; no property is about its value.
MeanMinutes ==
    /\ at = "minutes" /\ at' = After[at]
    /\ UNCHANGED <<tables, whom, got, began>>

MeanScore == Select("score", "score", Mean(events))

\* AnalyticsService.student_score
BeginScore ==
    /\ Begin("student")
    /\ \E k \in StudentPks : whom' = k

FindStudent ==
    /\ at = "student"
    /\ at' = IF \E s \in students : s.pk = whom THEN After[at] ELSE "missing"
    /\ UNCHANGED <<tables, whom, got, began>>

ListEvents == Select("list", "list", EventsOf(whom))

\* student_activity: the sessions, then the events again, of which
\* score_student is told nothing.
CountSessionsOf ==
    Select("count", "sessions", Cardinality(SessionsOf(whom)))

CountEventsOf ==
    Select("activity", "events", Cardinality(EventsOf(whom)))

\* The response is sent, or the 404.
Respond ==
    /\ at \in {"summary", "scored", "missing"}
    /\ at' = "idle" /\ got' = Nothing /\ began' = NoRows /\ whom' = 0
    /\ UNCHANGED tables

Init ==
    /\ students = {} /\ sessions = {} /\ events = {}
    /\ at = "idle" /\ got = Nothing /\ began = NoRows
    /\ whom = 0

Next ==
    \/ CommitStudent \/ CommitSession \/ CommitEvent
    \/ BeginSummary \/ CountStudents \/ CountSessions \/ CountEvents
    \/ MeanMinutes \/ MeanScore
    \/ BeginScore \/ FindStudent \/ ListEvents \/ CountSessionsOf
    \/ CountEventsOf \/ Respond

Spec == Init /\ [][Next]_vars

-----------------------------------------------------------------------------
\* GET /analytics/top-students: students who have events, by mean score

Ranked == {s \in students : EventsOf(s.pk) # {}}
MeanOf(s) == Mean(EventsOf(s.pk))
Above(m, n) == m[1] * n[2] > n[1] * m[2]

\* Fault: equal means are left in any order.
OutranksByMean(s, t) == ~Above(MeanOf(t), MeanOf(s)) /\ s # t

\* s is listed before t.
Outranks(s, t) ==
    \/ Above(MeanOf(s), MeanOf(t))
    \/ ~Above(MeanOf(t), MeanOf(s)) /\ s.pk < t.pk

TopStudents(limit) ==
    {[student |-> s.pk, mean |-> MeanOf(s),
      session_count |-> Cardinality({e.session : e \in EventsOf(s.pk)})] :
        s \in {t \in Ranked :
                  Cardinality({u \in Ranked : Outranks(u, t)}) < limit}}

-----------------------------------------------------------------------------
\* Properties

\* The totals of a summary may be of different moments, but each is the size
\* its collection had at some moment of the request.
TotalsOfTheRequest ==
    at = "summary" =>
        /\ got.students \in began.students .. Cardinality(Active)
        /\ got.sessions \in began.sessions .. Cardinality(sessions)
        /\ got.events \in began.events .. Cardinality(events)

\* A summary that counts events never shows the 0.0 of an empty mean: its
\* mean score covers at least the events it counts.
MeanCoversTotal == at = "summary" => got.score[2] >= got.events

\* The events behind a student's score are of no more sessions than the score
\* reports.
ScoreCountsFit ==
    at = "scored" =>
        Cardinality({e.session : e \in got.list}) <= got.sessions

\* top-students lists as many students as it is asked for, if there are as
\* many with events; a longer list continues a shorter one; and no student
\* is given more sessions than there are.
RankingFits ==
    \A n \in 1 .. MaxLimit :
        /\ Cardinality(TopStudents(n)) = Min({n, Cardinality(Ranked)})
        /\ n > 1 => TopStudents(n - 1) \subseteq TopStudents(n)
        /\ \A r \in TopStudents(n) :
              r.session_count \in 1 .. Cardinality(SessionsOf(r.student))
=============================================================================
