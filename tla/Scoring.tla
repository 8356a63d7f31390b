------------------------------ MODULE Scoring ------------------------------
(***************************************************************************)
(* app/application/scoring.py: the composite engagement score of a student. *)
(* It is pure.  The events are a function whose values have a type, a score *)
(* and the instant at.                                                      *)
(*                                                                          *)
(* A score, a component or a threshold x is the integer One * x; weights    *)
(* are in tenths.  Quotients stay exact, as a numerator over a positive     *)
(* denominator: only what a response shows is rounded, to One parts.        *)
(***************************************************************************)
EXTENDS Integers, FiniteSets, FiniteSetsExt

CONSTANTS MaxAge,   \* bound: older events decay no further
          Decay     \* Decay[n]: what n ticks of age leave of One

One == 10000

EVENT_WEIGHTS ==
    [page_view |-> 4, resource_download |-> 5, video_watch |-> 6,
     quiz_attempt |-> 9, lab_exercise |-> 10, discussion_post |-> 11,
     peer_review |-> 12, assignment_submit |-> 13]

EventType == DOMAIN EVENT_WEIGHTS
HIGH_VALUE_TYPES ==
    EventType \ {"page_view", "resource_download", "video_watch"}

QUALITY_WEIGHT == 6
BREADTH_WEIGHT == 2
RECENCY_WEIGHT == 2

Band == {"high", "moderate", "at-risk", "disengaged"}
Threshold == [b \in Band |-> CASE b = "high" -> 7500
                               [] b = "moderate" -> 5000
                               [] b = "at-risk" -> 2500
                               [] b = "disengaged" -> 0]

\* math.pow(0.5, days / 14.0) is One now and falls with age.
ASSUME DecayAssumption ==
    /\ MaxAge \in Nat
    /\ Decay \in [0 .. MaxAge -> 0 .. One]
    /\ Decay[0] = One
    /\ \A m, n \in 0 .. MaxAge : m <= n => Decay[n] <= Decay[m]

Over(n, d) == [num |-> n, den |-> d]

\* q is at least p.
AtLeast(q, p) == q.num * p.den >= p.num * q.den

-----------------------------------------------------------------------------
quality_component(events) ==
    IF DOMAIN events = {} THEN Over(0, 1)
    ELSE Over(MapThenSumSet(LAMBDA i : EVENT_WEIGHTS[events[i].type]
                                           * events[i].score, DOMAIN events),
              MapThenSumSet(LAMBDA i : EVENT_WEIGHTS[events[i].type],
                            DOMAIN events))

\* Fault: the share of the student's types that have a high value.
ShareOfOwnTypes(events) ==
    LET types == {events[i].type : i \in DOMAIN events}
    IN  IF types = {} THEN 0
        ELSE (One * Cardinality(types \cap HIGH_VALUE_TYPES))
                 \div Cardinality(types)

breadth_component(events) ==
    LET distinct == {events[i].type : i \in DOMAIN events} \cap HIGH_VALUE_TYPES
    IN  (One * Cardinality(distinct)) \div Cardinality(HIGH_VALUE_TYPES)

\* Fault: an event that lies ahead counts by its distance.
RecencyOfDistance(events, now) ==
    IF DOMAIN events = {} THEN 0
    ELSE LET age == now - Max({events[i].at : i \in DOMAIN events})
         IN  Decay[Min({MaxAge, IF age < 0 THEN -age ELSE age})]

recency_component(events, now) ==
    IF DOMAIN events = {} THEN 0
    ELSE LET last == Max({events[i].at : i \in DOMAIN events})
         IN  Decay[Min({MaxAge, Max({0, now - last})})]

composite(events, now) ==
    LET q == quality_component(events)
    IN  Over(QUALITY_WEIGHT * q.num
               + q.den * (BREADTH_WEIGHT * breadth_component(events)
                          + RECENCY_WEIGHT * recency_component(events, now)),
             10 * q.den)

\* round(x, 4)
Rounded(x) == (2 * x.num + x.den) \div (2 * x.den)

\* Fault: the thresholds are exceeded, not met.
BandAbove(x) ==
    CHOOSE b \in Band :
        /\ x.num > Threshold[b] * x.den \/ b = "disengaged"
        /\ \A c \in Band : x.num > Threshold[c] * x.den
                               => Threshold[c] <= Threshold[b]

\* The band with the largest threshold the score reaches.
band_for(x) ==
    CHOOSE b \in Band :
        /\ x.num >= Threshold[b] * x.den
        /\ \A c \in Band : x.num >= Threshold[c] * x.den
                               => Threshold[c] <= Threshold[b]

score_student(events, now) ==
    [score |-> Rounded(composite(events, now)),
     band |-> band_for(composite(events, now)),
     event_count |-> Cardinality(DOMAIN events)]
=============================================================================
