------------------------------ MODULE History ------------------------------
(***************************************************************************)
(* What one student's history becomes on its way through the API: POST      *)
(* /sessions and POST /events as far as times, durations and scores go, and *)
(* what GET /sessions, GET /events, GET /analytics/engagement-trend and GET *)
(* /analytics/students/{id}/score make of the stored rows as time passes.   *)
(* (Who may post, parents, keys and commits are EngagementStore's.)         *)
(***************************************************************************)
EXTENDS Scoring, Sequences, Timestamps

CONSTANTS Types,     \* event types clients post
          Scores,    \* engagement_score clients post
          Walls,     \* clock readings clients send
          Windows,   \* values of days asked of the trend
          MaxTime,   \* bound: the clock stops there
          MaxPosts,  \* bound: rows posted
          NoTime     \* an optional time left out

ASSUME HistoryAssumption ==
    /\ Types \subseteq EventType /\ Scores \subseteq 0 .. One
    /\ Walls \subseteq Int
    /\ MaxTime \in Nat /\ MaxPosts \in Nat /\ Windows \subseteq Nat \ {0}

VARIABLES sqlite,    \* the database is SQLite, else PostgreSQL
          now,       \* the clock
          sessions,  \* the session rows, with what their POST said of them
          events,    \* the event rows, likewise, in the order of their keys
          status     \* the status of the last POST

vars == <<sqlite, now, sessions, events, status>>

Input == [wall : Walls, zone : Offsets \cup {Naive}]

\* A time on its way: told by the 201 and kept for later reads.
Through(t) == [sent |-> t, told |-> as_utc(t), kept |-> Stored(t, sqlite)]

Refuse(code) == status' = code /\ UNCHANGED <<sessions, events>>

\* SessionCreate._end_after_start, once the two compare.
EndAfterStart(start, end) ==
    end = NoTime \/ as_utc(end) > as_utc(start)

\* Fault: the duration is taken between the readings.
DurationOfReadings(start, end) == end.wall - start.wall

\* The service subtracts times that compare: the distance of the instants
\* (its rounding to a tenth of a minute is left out).
Duration(start, end) == as_utc(end) - as_utc(start)

PostSession(start, end) ==
    /\ Len(sessions) + Len(events) < MaxPosts
    /\ IF end # NoTime /\ ~Comparable(start, end) THEN Refuse(500)
       ELSE IF ~EndAfterStart(start, end) THEN Refuse(422)
       ELSE /\ sessions' = Append(sessions,
                  [start |-> Through(start),
                   end |-> IF end = NoTime THEN NoTime ELSE Through(end),
                   duration |-> IF end = NoTime THEN NoTime
                                ELSE Duration(start, end)])
            /\ status' = 201 /\ UNCHANGED events
    /\ UNCHANGED <<sqlite, now>>

PostEvent(type, score, time) ==
    /\ Len(sessions) + Len(events) < MaxPosts
    /\ LET t == IF time = NoTime THEN UtcTime(now) ELSE time
       IN  events' = Append(events,
               [type |-> type, score |-> score, timestamp |-> Through(t)])
    /\ status' = 201 /\ UNCHANGED <<sqlite, now, sessions>>

Tick ==
    /\ now < MaxTime /\ now' = now + 1
    /\ UNCHANGED <<sqlite, sessions, events, status>>

-----------------------------------------------------------------------------
\* Reads

\* Every response gives the times of a row like this.
Read(x) == as_utc(x.kept)

\* list_for_student, as the scorer takes them.
Scored == [i \in DOMAIN events |-> [type |-> events[i].type,
                                   score |-> events[i].score,
                                   at |-> Read(events[i].timestamp)]]

\* The query compares and groups what is kept: the UTC time on PostgreSQL
\* (its sessions are in UTC), the reading on SQLite.
KeptAt(i) == events[i].timestamp.kept.wall

Cutoff(days) == now - days * DayLength

\* Faults: what lies ahead is left out; days are the client's.
InWindowSoFar(days) == {i \in DOMAIN events : KeptAt(i) \in Cutoff(days) .. now}
DayOfClient(i) == Date(events[i].timestamp.sent.wall)

InWindow(days) == {i \in DOMAIN events : KeptAt(i) >= Cutoff(days)}
DayOf(i) == Date(KeptAt(i))

\* A point of the trend over the events is.
Point(is) == [avg_score |-> Over(MapThenSumSet(LAMBDA i : events[i].score, is),
                                 Cardinality(is)),
              event_count |-> Cardinality(is)]

engagement_trend(days) ==
    [d \in {DayOf(i) : i \in InWindow(days)} |->
        Point({i \in InWindow(days) : DayOf(i) = d})]

-----------------------------------------------------------------------------

Init ==
    /\ sqlite \in BOOLEAN /\ now = 0
    /\ sessions = <<>> /\ events = <<>> /\ status = 0

Next ==
    \/ Tick
    \/ \E start \in Input, end \in Input \cup {NoTime} : PostSession(start, end)
    \/ \E type \in Types, score \in Scores, time \in Input \cup {NoTime} :
          PostEvent(type, score, time)

Spec == Init /\ [][Next]_vars
-----------------------------------------------------------------------------
\* Properties

\* SQLite has dropped an offset of this time.
OffsetLost(x) == sqlite /\ x.sent.zone \notin {0, Naive}

\* Every read of a row gives the times its 201 gave, and the duration of a
\* session, worked out once when it was posted, is the positive distance
\* between the times read, whatever mix of offsets a client sent; except
\* where SQLite has dropped an offset.
ReadsConfirmAnswers ==
    /\ \A i \in DOMAIN sessions :
          LET s == sessions[i]
          IN  /\ ~OffsetLost(s.start) => Read(s.start) = s.start.told
              /\ s.end # NoTime /\ ~OffsetLost(s.start) /\ ~OffsetLost(s.end) =>
                    /\ Read(s.end) = s.end.told
                    /\ s.duration = Read(s.end) - Read(s.start)
                    /\ s.duration > 0
    /\ \A i \in DOMAIN events : LET x == events[i].timestamp
                              IN  ~OffsetLost(x) => Read(x) = x.told

\* An event at least as good as the student's quality so far, of whatever
\* type and time, never lowers the composite, however many there were.
GoodEventNeverHurts ==
    [][/\ Len(events') > Len(events)
       /\ AtLeast(Over(events'[Len(events')].score, 1),
                  quality_component(Scored))
       => AtLeast(composite(Scored', now'), composite(Scored, now))]_vars

\* With no new event the composite never rises: an event dated ahead counts
\* as one of now until its time has come.
TimeNeverHelps ==
    [][events' = events =>
        AtLeast(composite(Scored, now), composite(Scored', now'))]_vars

\* A student is never shown under a band that the score shown beside it does
\* not call for, but for a score that rounding has lifted onto a threshold:
\* that one is shown with the band below.
BandFitsScore ==
    LET shown == score_student(Scored, now)
        below(b) == ~AtLeast(composite(Scored, now), Over(Threshold[b], 1))
    IN  /\ shown.score >= Threshold[shown.band]
        /\ \A b \in Band : Threshold[b] > Threshold[shown.band] =>
              shown.score < Threshold[b]
                  \/ (shown.score = Threshold[b] /\ below(b))

\* A point of the trend sums up just the events that GET /events lists under
\* its day, those before the cutoff left out, and no listed event after the
\* cutoff is without a point.
TrendCountsWhatIsListed ==
    \A days \in Windows :
        LET at(i) == Read(events[i].timestamp)
            due == {i \in DOMAIN events : at(i) >= Cutoff(days)}
            trend == engagement_trend(days)
        IN  /\ DOMAIN trend = {Date(at(i)) : i \in due}
            /\ \A d \in DOMAIN trend :
                  trend[d] = Point({i \in due : Date(at(i)) = d})

\* As time passes, the trend only loses, and only from the day the cutoff is
\* in: every later day stays as it was shown.
TrendOnlyAges ==
    [][events' = events =>
        \A days \in Windows :
            LET trend == engagement_trend(days)
                next == engagement_trend(days)'
            IN  /\ DOMAIN next \subseteq DOMAIN trend
                /\ \A d \in DOMAIN trend :
                      \/ d \in DOMAIN next /\ next[d] = trend[d]
                      \/ d <= Date(Cutoff(days)')]_vars

\* A session GET /sessions shows never ends before it starts (the message of
\* app/application/dto.py:115: end_time must be after start_time).
EndsAfterStart ==
    \A i \in DOMAIN sessions :
        LET s == sessions[i]
        IN  s.end # NoTime => Read(s.end) > Read(s.start)
=============================================================================
