--------------------------- MODULE HistoryProofs ---------------------------
(***************************************************************************)
(* Proofs about History, for any offsets, readings, types, scores, windows  *)
(* and number of rows, on either database.                                  *)
(***************************************************************************)
EXTENDS History, SequenceTheorems, Sums

Row == [sent : Time, told : Int, kept : Time]

SessionRow == [start : Row, end : Row \cup {NoTime}, duration : Int \cup {NoTime}]
EventRow == [type : EventType, score : 0 .. One, timestamp : Row]

TypeOK ==
    /\ sqlite \in BOOLEAN /\ now \in Nat
    /\ sessions \in Seq(SessionRow) /\ events \in Seq(EventRow)

\* What is kept of a time came from what was sent of it.
Honest(x) == x = Through(x.sent)

\* A session row is what the service made of times that have passed the
\* validator: it compared them and found the end after the start.
Worked(s) ==
    /\ Honest(s.start)
    /\ s.end # NoTime =>
          /\ Honest(s.end)
          /\ s.duration = as_utc(s.end.sent) - as_utc(s.start.sent)
          /\ s.duration > 0

IInv ==
    /\ TypeOK
    /\ \A i \in DOMAIN sessions : Worked(sessions[i])
    /\ \A i \in DOMAIN events : Honest(events[i].timestamp)
-----------------------------------------------------------------------------
\* Times

\* An instant is a number, and what is kept of a time is one of a zone that
\* reads it back as it stands.
LEMMA TimesAreNumbers ==
    ASSUME NEW t \in Time, TypeOK
    PROVE  /\ as_utc(t) \in Int /\ Stored(t, sqlite) \in Time
           /\ as_utc(Stored(t, sqlite)) = Stored(t, sqlite).wall
           /\ ~sqlite \/ t.zone \in {0, Naive} =>
                 as_utc(Stored(t, sqlite)) = as_utc(t)
<1>1. /\ t.wall \in Int /\ t.zone \in Offsets \cup {Naive}
      /\ Offsets \subseteq Int /\ 0 \in Offsets /\ Naive \notin Int
  BY TimeAssumption DEF Time
<1>2. as_utc(t) \in Int
  <2>1. CASE t.zone = Naive
    BY <1>1, <2>1 DEF as_utc
  <2>2. CASE t.zone # Naive
    <3>1. t.zone \in Int /\ t.wall \in Int
      BY <1>1, <2>2
    <3>2. as_utc(t) = t.wall - t.zone
      BY <2>2 DEF as_utc
    <3>3. QED
      BY <3>1, <3>2
  <2>3. QED
    BY <2>1, <2>2
<1>3. CASE sqlite
  <2>1. Stored(t, sqlite) = [wall |-> t.wall, zone |-> Naive]
    BY <1>3 DEF Stored
  <2>2. t.zone \in {0, Naive} => as_utc(t) = t.wall
    <3>1. t.zone = Naive => as_utc(t) = t.wall
      BY DEF as_utc
    <3>2. t.zone = 0 => as_utc(t) = t.wall
      BY <1>1 DEF as_utc
    <3>3. QED
      BY <3>1, <3>2
  <2>3. \A r : r.zone = Naive => as_utc(r) = r.wall
    BY DEF as_utc
  <2> DEFINE r == Stored(t, sqlite)
  <2>4. r.wall = t.wall /\ r.zone = Naive
    BY <2>1
  <2>5. r \in Time
    BY <1>1, <2>1 DEF Time
  <2>6. as_utc(r) = r.wall /\ as_utc(r) = t.wall
    BY <2>3, <2>4
  <2>7. QED
    BY <1>2, <1>3, <2>2, <2>5, <2>6
<1>4. CASE ~sqlite
  <2> DEFINE n == as_utc(t)
  <2>1. Stored(t, sqlite) = [wall |-> n, zone |-> 0]
    BY <1>4 DEF Stored, UtcTime
  <2> HIDE DEF n
  <2>2. n \in Int
    BY <1>2 DEF n
  <2>3. as_utc([wall |-> n, zone |-> 0]) = n
    BY <1>1, <2>2 DEF as_utc
  <2>4. QED
    BY <1>1, <2>1, <2>2, <2>3 DEF n, Time
<1>5. QED
  BY <1>3, <1>4

\* A time on its way is a row's, and honest.
LEMMA ThroughIsHonest ==
    ASSUME NEW t \in Time, TypeOK
    PROVE  Through(t) \in Row /\ Honest(Through(t)) /\ Through(t).sent = t
BY TimesAreNumbers DEF Through, Row, Honest

\* What the trend's query compares is what GET /events gives.
LEMMA KeptIsRead ==
    ASSUME IInv, NEW i \in DOMAIN events
    PROVE  /\ KeptAt(i) \in Int
           /\ Read(events[i].timestamp) = KeptAt(i)
<1> DEFINE x == events[i].timestamp
<1>1. /\ x \in Row /\ x = Through(x.sent)
  <2>1. events[i] \in EventRow
    BY ElementOfSeq DEF IInv, TypeOK
  <2>2. QED
    BY <2>1 DEF IInv, Honest, EventRow
<1>2. x.sent \in Time /\ x.kept = Stored(x.sent, sqlite)
  <2>1. Through(x.sent).kept = Stored(x.sent, sqlite)
    BY DEF Through
  <2>2. QED
    BY <1>1, <2>1 DEF Row
<1>3. as_utc(x.kept) = x.kept.wall
  BY <1>2, TimesAreNumbers DEF IInv
<1>4. x.kept.wall \in Int
  BY <1>1 DEF Row, Time
<1>5. QED
  BY <1>3, <1>4 DEF KeptAt, Read
-----------------------------------------------------------------------------
\* The invariant

LEMMA InvInit == Init => IInv
BY DEF Init, IInv, TypeOK

\* A row added at the end, as good as the rows before it.
LEMMA AppendedRow ==
    ASSUME NEW R, NEW q \in Seq(R), NEW x \in R
    PROVE  /\ Append(q, x) \in Seq(R)
           /\ Len(Append(q, x)) = Len(q) + 1
           /\ DOMAIN Append(q, x) = DOMAIN q \cup {Len(q) + 1}
           /\ Append(q, x)[Len(q) + 1] = x
           /\ \A i \in DOMAIN q : /\ Append(q, x)[i] = q[i]
                                  /\ i # Len(q) + 1
<1>1. /\ Append(q, x) \in Seq(R) /\ Len(Append(q, x)) = Len(q) + 1
      /\ \A i \in 1 .. Len(q) : Append(q, x)[i] = q[i]
      /\ Append(q, x)[Len(q) + 1] = x
  BY AppendProperties
<1>2. DOMAIN q = 1 .. Len(q) /\ Len(q) \in Nat
  BY LenProperties
<1>3. DOMAIN Append(q, x) = 1 .. Len(q) + 1
  BY <1>1, LenProperties
<1>4. 1 .. Len(q) + 1 = (1 .. Len(q)) \cup {Len(q) + 1}
  BY <1>2
<1>5. QED
  BY <1>1, <1>2, <1>3, <1>4

LEMMA InputsAreTimes == Input \subseteq Time
BY HistoryAssumption DEF Input, Time

\* Nothing already kept changes with the clock.
LEMMA SameRows ==
    ASSUME IInv, UNCHANGED <<sqlite, sessions, events>>, now' \in Nat
    PROVE  IInv'
<1>1. \A t : Through(t)' = Through(t)
  BY DEF Through
<1>2. QED
  BY <1>1 DEF IInv, TypeOK, Worked, Honest

LEMMA PostSessionKeeps ==
    ASSUME IInv, NEW start \in Input, NEW end \in Input \cup {NoTime},
           PostSession(start, end)
    PROVE  IInv'
<1>1. TypeOK /\ UNCHANGED <<sqlite, now>>
  BY DEF IInv, PostSession
<1>2. CASE UNCHANGED <<sessions, events>>
  BY <1>1, <1>2, SameRows DEF TypeOK
<1>3. CASE ~UNCHANGED <<sessions, events>>
  <2> DEFINE last == IF end = NoTime THEN NoTime ELSE Through(end)
             long == IF end = NoTime THEN NoTime ELSE Duration(start, end)
             row == [start |-> Through(start), end |-> last, duration |-> long]
  <2>1. /\ sessions' = Append(sessions, row) /\ UNCHANGED events
        /\ EndAfterStart(start, end)
    BY <1>3 DEF PostSession, Refuse
  <2>2. /\ start \in Time /\ Through(start) \in Row /\ Honest(Through(start))
        /\ Through(start).sent = start /\ as_utc(start) \in Int
    BY <1>1, InputsAreTimes, ThroughIsHonest, TimesAreNumbers
  <2>3. row \in SessionRow /\ Worked(row)
    <3>1. CASE end = NoTime
      <4>1. row = [start |-> Through(start), end |-> NoTime, duration |-> NoTime]
        BY <3>1
      <4>2. QED
        BY <4>1, <2>2 DEF SessionRow, Worked
    <3>2. CASE end # NoTime
      <4>1. /\ end \in Time /\ Through(end) \in Row /\ Honest(Through(end))
            /\ Through(end).sent = end /\ as_utc(end) \in Int
        BY <1>1, <3>2, InputsAreTimes, ThroughIsHonest, TimesAreNumbers
      <4>2. as_utc(end) > as_utc(start)
        BY <3>2, <2>1 DEF EndAfterStart
      <4> DEFINE d == as_utc(end) - as_utc(start)
      <4>3. row = [start |-> Through(start), end |-> Through(end), duration |-> d]
        BY <3>2 DEF Duration
      <4>4. d \in Int /\ d > 0
        BY <2>2, <4>1, <4>2
      <4>5. row \in SessionRow
        BY <2>2, <4>1, <4>3, <4>4 DEF SessionRow
      <4>6. row.start = Through(start) /\ row.end = Through(end) /\ row.duration = d
        BY <4>3
      <4> HIDE DEF row
      <4>7. Worked(row)
        BY <2>2, <4>1, <4>4, <4>6 DEF Worked
      <4>8. QED
        BY <4>5, <4>7
    <3>3. QED
      BY <3>1, <3>2
  <2> HIDE DEF row
  <2>4. /\ sessions' \in Seq(SessionRow)
        /\ DOMAIN sessions' = DOMAIN sessions \cup {Len(sessions) + 1}
        /\ sessions'[Len(sessions) + 1] = row
        /\ \A i \in DOMAIN sessions : sessions'[i] = sessions[i]
    BY <1>1, <2>1, <2>3, AppendedRow DEF TypeOK
  <2>5. \A i \in DOMAIN sessions' : Worked(sessions'[i])
    BY <2>3, <2>4 DEF IInv
  <2>6. \A t : Through(t)' = Through(t)
    BY <1>1 DEF Through
  <2>7. (\A i \in DOMAIN sessions : Worked(sessions[i]))'
    BY <2>5, <2>6 DEF Worked, Honest
  <2>8. (\A i \in DOMAIN events : Honest(events[i].timestamp))'
    BY <2>1, <2>6 DEF IInv, Honest
  <2>9. TypeOK'
    BY <1>1, <2>1, <2>4 DEF TypeOK
  <2>10. QED
    BY <2>7, <2>8, <2>9 DEF IInv
<1>4. QED
  BY <1>2, <1>3

\* POST /events adds an honest row at the end.
LEMMA EventAdded ==
    ASSUME IInv, NEW type \in Types, NEW score \in Scores,
           NEW time \in Input \cup {NoTime}, PostEvent(type, score, time)
    PROVE  \E row \in EventRow :
              /\ events' = Append(events, row) /\ Honest(row.timestamp)
              /\ UNCHANGED <<sqlite, now, sessions>>
<1> DEFINE t == IF time = NoTime THEN UtcTime(now) ELSE time
           row == [type |-> type, score |-> score, timestamp |-> Through(t)]
<1>1. TypeOK /\ events' = Append(events, row) /\ UNCHANGED <<sqlite, now, sessions>>
  BY DEF IInv, PostEvent
<1>2. UtcTime(now) \in Time
  BY <1>1, TimeAssumption DEF TypeOK, UtcTime, Time
<1>3. t \in Time
  BY <1>2, InputsAreTimes
<1> HIDE DEF t
<1>4. Through(t) \in Row /\ Honest(Through(t))
  BY <1>1, <1>3, ThroughIsHonest
<1>5. type \in EventType /\ score \in 0 .. One
  BY HistoryAssumption
<1>6. row \in EventRow /\ row.timestamp = Through(t)
  BY <1>4, <1>5 DEF EventRow
<1>7. QED
  BY <1>1, <1>4, <1>6

LEMMA PostEventKeeps ==
    ASSUME IInv, NEW type \in Types, NEW score \in Scores,
           NEW time \in Input \cup {NoTime}, PostEvent(type, score, time)
    PROVE  IInv'
<1>1. PICK row \in EventRow :
         /\ events' = Append(events, row) /\ Honest(row.timestamp)
         /\ UNCHANGED <<sqlite, now, sessions>>
  BY EventAdded
<1>2. /\ events' \in Seq(EventRow)
      /\ DOMAIN events' = DOMAIN events \cup {Len(events) + 1}
      /\ events'[Len(events) + 1] = row
      /\ \A i \in DOMAIN events : events'[i] = events[i]
  BY <1>1, AppendedRow DEF IInv, TypeOK
<1>3. \A t : Through(t)' = Through(t)
  BY <1>1 DEF Through
<1>4. \A i \in DOMAIN events' : Honest(events'[i].timestamp)
  BY <1>1, <1>2 DEF IInv
<1>5. (\A i \in DOMAIN events : Honest(events[i].timestamp))'
  BY <1>3, <1>4 DEF Honest
<1>6. (\A i \in DOMAIN sessions : Worked(sessions[i]))'
  BY <1>1, <1>3 DEF IInv, Worked, Honest
<1>7. TypeOK'
  BY <1>1, <1>2 DEF IInv, TypeOK
<1>8. QED
  BY <1>5, <1>6, <1>7 DEF IInv

LEMMA InvNext == IInv /\ [Next]_vars => IInv'
<1> SUFFICES ASSUME IInv, [Next]_vars
             PROVE  IInv'
  OBVIOUS
<1>1. CASE Tick
  BY <1>1, SameRows DEF Tick, IInv, TypeOK
<1>2. ASSUME NEW start \in Input, NEW end \in Input \cup {NoTime},
             PostSession(start, end)
      PROVE  IInv'
  BY <1>2, PostSessionKeeps
<1>3. ASSUME NEW type \in Types, NEW score \in Scores,
             NEW time \in Input \cup {NoTime}, PostEvent(type, score, time)
      PROVE  IInv'
  BY <1>3, PostEventKeeps
<1>4. CASE UNCHANGED vars
  BY <1>4, SameRows DEF vars, IInv, TypeOK
<1>5. QED
  BY <1>1, <1>2, <1>3, <1>4 DEF Next

\* Whatever is posted, each row keeps what its POST made of it.
THEOREM Invariance == Spec => []IInv
<1>1. QED
  BY InvInit, InvNext, PTL DEF Spec
-----------------------------------------------------------------------------
\* Reads

\* A time whose offset the database has not lost reads as it was told.
LEMMA ReadIsTold ==
    ASSUME TypeOK, NEW x \in Row, Honest(x), ~OffsetLost(x)
    PROVE  Read(x) = x.told /\ Read(x) = as_utc(x.sent)
<1>1. x.sent \in Time
  BY DEF Row
<1>2. /\ x.told = as_utc(x.sent) /\ x.kept = Stored(x.sent, sqlite)
  <2>1. /\ Through(x.sent).told = as_utc(x.sent)
        /\ Through(x.sent).kept = Stored(x.sent, sqlite)
    BY DEF Through
  <2>2. QED
    BY <2>1 DEF Honest
<1>3. ~sqlite \/ x.sent.zone \in {0, Naive}
  BY DEF OffsetLost
<1>4. as_utc(Stored(x.sent, sqlite)) = as_utc(x.sent)
  BY <1>1, <1>3, TimesAreNumbers
<1>5. QED
  BY <1>2, <1>4 DEF Read

LEMMA ReadsConfirm == IInv => ReadsConfirmAnswers
<1> SUFFICES ASSUME IInv
             PROVE  ReadsConfirmAnswers
  OBVIOUS
<1>1. ASSUME NEW i \in DOMAIN sessions
      PROVE  LET s == sessions[i]
             IN  /\ ~OffsetLost(s.start) => Read(s.start) = s.start.told
                 /\ s.end # NoTime /\ ~OffsetLost(s.start) /\ ~OffsetLost(s.end) =>
                       /\ Read(s.end) = s.end.told
                       /\ s.duration = Read(s.end) - Read(s.start)
                       /\ s.duration > 0
  <2> DEFINE s == sessions[i]
  <2>1. s \in SessionRow
    BY ElementOfSeq DEF IInv, TypeOK
  <2>2. Worked(s) /\ TypeOK
    BY DEF IInv
  <2> HIDE DEF s
  <2>3. s.start \in Row /\ (s.end # NoTime => s.end \in Row)
    BY <2>1 DEF SessionRow
  <2>4. ~OffsetLost(s.start) =>
           Read(s.start) = s.start.told /\ Read(s.start) = as_utc(s.start.sent)
    BY <2>2, <2>3, ReadIsTold DEF Worked
  <2>5. s.end # NoTime /\ ~OffsetLost(s.end) =>
           Read(s.end) = s.end.told /\ Read(s.end) = as_utc(s.end.sent)
    BY <2>2, <2>3, ReadIsTold DEF Worked
  <2>6. QED
    BY <2>2, <2>4, <2>5 DEF s, Worked
<1>2. ASSUME NEW i \in DOMAIN events, ~OffsetLost(events[i].timestamp)
      PROVE  Read(events[i].timestamp) = events[i].timestamp.told
  <2>1. events[i].timestamp \in Row
    <3>1. events[i] \in EventRow
      BY ElementOfSeq DEF IInv, TypeOK
    <3>2. QED
      BY <3>1 DEF EventRow
  <2>2. QED
    BY <1>2, <2>1, ReadIsTold DEF IInv
<1>3. QED
  BY <1>1, <1>2 DEF ReadsConfirmAnswers

\* Every read of a row gives the times its 201 gave, and a duration that is
\* the positive distance between them, but where SQLite drops an offset.
THEOREM AnswersConfirmed == Spec => []ReadsConfirmAnswers
<1>1. QED
  BY Invariance, ReadsConfirm, PTL
-----------------------------------------------------------------------------
\* The trend

\* The days come in the order of their times.
LEMMA DatesAreOrdered ==
    ASSUME NEW m \in Int, NEW n \in Int, m <= n
    PROVE  Date(m) \in Int /\ Date(m) <= Date(n)
<1> DEFINE a == m \div DayLength
           b == n \div DayLength
<1>1. DayLength \in Nat /\ DayLength > 0
  BY TimeAssumption
<1>2. /\ a \in Int /\ DayLength * a <= m /\ m < DayLength * (a + 1)
      /\ b \in Int /\ DayLength * b <= n /\ n < DayLength * (b + 1)
  BY <1>1
<1> HIDE DEF a, b
<1>3. ASSUME a > b
      PROVE  FALSE
  <2>1. a >= b + 1
    BY <1>2, <1>3
  <2>2. DayLength * a >= DayLength * (b + 1)
    BY <1>1, <1>2, <2>1
  <2>3. QED
    BY <1>1, <1>2, <2>2
<1>4. QED
  BY <1>2, <1>3 DEF a, b, Date

LEMMA TrendCounts == IInv => TrendCountsWhatIsListed
<1> SUFFICES ASSUME IInv, NEW days \in Windows
             PROVE  LET at(i) == Read(events[i].timestamp)
                        due == {i \in DOMAIN events : at(i) >= Cutoff(days)}
                        trend == engagement_trend(days)
                    IN  /\ DOMAIN trend = {Date(at(i)) : i \in due}
                        /\ \A d \in DOMAIN trend :
                              trend[d] = Point({i \in due : Date(at(i)) = d})
  BY DEF TrendCountsWhatIsListed
<1> DEFINE at(i) == Read(events[i].timestamp)
           due == {i \in DOMAIN events : at(i) >= Cutoff(days)}
<1>1. \A i \in DOMAIN events : at(i) = KeptAt(i)
  BY KeptIsRead
<1>2. due = InWindow(days)
  BY <1>1 DEF InWindow
<1>3. \A i \in due : Date(at(i)) = DayOf(i)
  BY <1>1 DEF DayOf
<1> HIDE DEF at, due
<1>4. {Date(at(i)) : i \in due} = {DayOf(i) : i \in due}
  BY <1>3
<1>5. \A d : {i \in due : Date(at(i)) = d} = {i \in due : DayOf(i) = d}
  BY <1>3
<1>6. /\ DOMAIN engagement_trend(days) = {DayOf(i) : i \in due}
      /\ \A d \in {DayOf(i) : i \in due} :
            engagement_trend(days)[d] = Point({i \in due : DayOf(i) = d})
  BY <1>2 DEF engagement_trend
<1>7. /\ DOMAIN engagement_trend(days) = {Date(at(i)) : i \in due}
      /\ \A d \in DOMAIN engagement_trend(days) :
            engagement_trend(days)[d] = Point({i \in due : Date(at(i)) = d})
  BY <1>4, <1>5, <1>6
<1>8. QED
  BY <1>7 DEF at, due

\* The trend sums up just what the list of events shows of its days.
THEOREM TrendIsTheList == Spec => []TrendCountsWhatIsListed
<1>1. QED
  BY Invariance, TrendCounts, PTL

\* The trend over the same events with a later cutoff.
LEMMA TrendAges ==
    ASSUME IInv, NEW c \in Int, NEW e \in Int, c <= e
    PROVE  LET W == {i \in DOMAIN events : KeptAt(i) >= c}
               X == {i \in DOMAIN events : KeptAt(i) >= e}
               trend == [d \in {DayOf(i) : i \in W} |->
                            Point({i \in W : DayOf(i) = d})]
               next == [d \in {DayOf(i) : i \in X} |->
                            Point({i \in X : DayOf(i) = d})]
           IN  /\ DOMAIN next \subseteq DOMAIN trend
               /\ \A d \in DOMAIN trend :
                     \/ d \in DOMAIN next /\ next[d] = trend[d]
                     \/ d <= Date(e)
<1> DEFINE W == {i \in DOMAIN events : KeptAt(i) >= c}
           X == {i \in DOMAIN events : KeptAt(i) >= e}
           trend == [d \in {DayOf(i) : i \in W} |-> Point({i \in W : DayOf(i) = d})]
           next == [d \in {DayOf(i) : i \in X} |-> Point({i \in X : DayOf(i) = d})]
<1>1. \A i \in DOMAIN events : KeptAt(i) \in Int /\ DayOf(i) = Date(KeptAt(i))
  BY KeptIsRead DEF DayOf
<1>2. X \subseteq W
  BY <1>1
<1>3. ASSUME NEW i \in W, i \notin X
      PROVE  DayOf(i) <= Date(e)
  <2>1. KeptAt(i) \in Int /\ KeptAt(i) <= e /\ DayOf(i) = Date(KeptAt(i))
    BY <1>1, <1>3
  <2>2. QED
    BY <2>1, DatesAreOrdered
<1> HIDE DEF W, X
<1>4. ASSUME NEW d \in DOMAIN trend, ~(d <= Date(e))
      PROVE  d \in DOMAIN next /\ next[d] = trend[d]
  <2>1. {i \in W : DayOf(i) = d} = {i \in X : DayOf(i) = d}
    BY <1>2, <1>3, <1>4
  <2>2. PICK i \in W : DayOf(i) = d
    BY <1>4
  <2>3. d \in DOMAIN next
    BY <2>1, <2>2
  <2>4. next[d] = Point({j \in X : DayOf(j) = d})
    BY <2>3
  <2>5. trend[d] = Point({j \in W : DayOf(j) = d})
    BY <1>4
  <2>6. QED
    BY <2>1, <2>3, <2>4, <2>5
<1>5. DOMAIN next \subseteq DOMAIN trend
  BY <1>2
<1>6. QED
  BY <1>4, <1>5 DEF W, X

LEMMA ClockOnlyRises ==
    ASSUME IInv, [Next]_vars
    PROVE  now' \in Int /\ now <= now'
<1>1. now \in Nat
  BY DEF IInv, TypeOK
<1>2. now' = now \/ now' = now + 1
  BY DEF Next, Tick, PostSession, PostEvent, vars
<1>3. QED
  BY <1>1, <1>2

\* The trend over the events ev since c.
TrendOf(ev, c) ==
    LET W == {i \in DOMAIN ev : ev[i].timestamp.kept.wall >= c}
        day(i) == Date(ev[i].timestamp.kept.wall)
        at(d) == {i \in W : day(i) = d}
    IN  [d \in {day(i) : i \in W} |->
            [avg_score |-> Over(MapThenSumSet(LAMBDA i : ev[i].score, at(d)),
                                Cardinality(at(d))),
             event_count |-> Cardinality(at(d))]]

\* The trend before and after a step, from what it is taken from.
LEMMA TrendThenAndNow ==
    ASSUME NEW days
    PROVE  /\ engagement_trend(days) = TrendOf(events, now - days * DayLength)
           /\ engagement_trend(days)' = TrendOf(events', now' - days * DayLength)
<1>1. engagement_trend(days) = TrendOf(events, now - days * DayLength)
  BY DEF TrendOf, Cutoff, engagement_trend, InWindow, KeptAt, DayOf, Point
<1>2. engagement_trend(days)' = TrendOf(events', now' - days * DayLength)
  BY DEF TrendOf, Cutoff, engagement_trend, InWindow, KeptAt, DayOf, Point,
         Over, MapThenSumSet, MapThenFoldSet
<1>3. QED
  BY <1>1, <1>2

LEMMA TrendStep ==
    ASSUME IInv, [Next]_vars, events' = events, NEW days \in Windows
    PROVE  LET trend == engagement_trend(days)
               next == engagement_trend(days)'
           IN  /\ DOMAIN next \subseteq DOMAIN trend
               /\ \A d \in DOMAIN trend :
                     \/ d \in DOMAIN next /\ next[d] = trend[d]
                     \/ d <= Date(Cutoff(days)')
<1> DEFINE c == now - days * DayLength
           e == now' - days * DayLength
           W == {i \in DOMAIN events : KeptAt(i) >= c}
           X == {i \in DOMAIN events : KeptAt(i) >= e}
           trend == [d \in {DayOf(i) : i \in W} |-> Point({i \in W : DayOf(i) = d})]
           next == [d \in {DayOf(i) : i \in X} |-> Point({i \in X : DayOf(i) = d})]
<1>1. now \in Int /\ now' \in Int /\ now <= now'
  BY ClockOnlyRises DEF IInv, TypeOK
<1>2. days * DayLength \in Int
  BY TimeAssumption, HistoryAssumption
<1>3. c \in Int /\ e \in Int /\ c <= e
  BY <1>1, <1>2
<1>4. /\ DOMAIN next \subseteq DOMAIN trend
      /\ \A d \in DOMAIN trend : \/ d \in DOMAIN next /\ next[d] = trend[d]
                                 \/ d <= Date(e)
  <2> HIDE DEF c, e
  <2>1. QED
    BY <1>3, TrendAges
<1>5. engagement_trend(days) = trend
  BY DEF engagement_trend, InWindow, Cutoff
<1>6. engagement_trend(days)' = next
  <2>1. engagement_trend(days)' = TrendOf(events, e)
    BY TrendThenAndNow
  <2>2. next = TrendOf(events, e)
    BY DEF TrendOf, KeptAt, DayOf, Point
  <2>3. QED
    BY <2>1, <2>2
<1>7. Cutoff(days)' = e
  BY DEF Cutoff
<1> HIDE DEF trend, next, e
<1>8. QED
  BY <1>4, <1>5, <1>6, <1>7

\* As time passes, the trend loses points only up to the day of its cutoff.
THEOREM TrendFades == Spec => TrendOnlyAges
<1>1. IInv /\ [Next]_vars =>
        [events' = events =>
            \A days \in Windows :
                LET trend == engagement_trend(days)
                    next == engagement_trend(days)'
                IN  /\ DOMAIN next \subseteq DOMAIN trend
                    /\ \A d \in DOMAIN trend :
                          \/ d \in DOMAIN next /\ next[d] = trend[d]
                          \/ d <= Date(Cutoff(days)')]_vars
  BY TrendStep
<1>2. QED
  BY Invariance, <1>1, PTL DEF Spec, TrendOnlyAges
-----------------------------------------------------------------------------
\* Scores

ScoredRow == [type : EventType, score : 0 .. One, at : Int]

\* The events of a student, as the scorer takes them.
Histories(I) == [I -> ScoredRow]

Weights(E) == [i \in DOMAIN E |-> EVENT_WEIGHTS[E[i].type]]
Worths(E) == [i \in DOMAIN E |-> EVENT_WEIGHTS[E[i].type] * E[i].score]

LEMMA WeightsCount == \A t \in EventType : EVENT_WEIGHTS[t] \in Nat \ {0}
BY DEF EventType, EVENT_WEIGHTS

\* The sums of quality_component are totals, taken in the order MapThenSumSet
\* takes the events in.
LEMMA WeightsAddUp ==
    ASSUME NEW I, IsFiniteSet(I), NEW E \in Histories(I)
    PROVE  MapThenSumSet(LAMBDA i : EVENT_WEIGHTS[E[i].type], I)
               = Total(Weights(E), I)
<1> DEFINE f == Weights(E)
           W == EVENT_WEIGHTS
           Adds(g) == g = [s \in SUBSET I |->
                              IF s = {} THEN 0
                              ELSE W[E[CHOOSE x \in s : TRUE].type]
                                       + g[s \ {CHOOSE x \in s : TRUE}]]
           G == CHOOSE g : Adds(g)
<1>1. MapThenSumSet(LAMBDA i : EVENT_WEIGHTS[E[i].type], I) = G[I]
  BY DEF MapThenSumSet, MapThenFoldSet
<1> HIDE DEF W
<1>2. ASSUME NEW g
      PROVE  Adds(g) <=> SumsUp(g, f, I)
  <2>1. \A s \in SUBSET I : s # {} => f[Chosen(s)] = W[E[Chosen(s)].type]
    BY DEF Chosen, Weights, Histories, W
  <2>2. [s \in SUBSET I |-> IF s = {} THEN 0
                            ELSE W[E[Chosen(s)].type] + g[s \ {Chosen(s)}]]
        = [s \in SUBSET I |-> IF s = {} THEN 0
                              ELSE f[Chosen(s)] + g[s \ {Chosen(s)}]]
    <3> HIDE DEF f
    <3>1. QED
      BY <2>1
  <2> HIDE DEF f
  <2>3. QED
    BY <2>2 DEF SumsUp, Chosen
<1>3. \E g : SumsUp(g, f, I)
  BY SumsExist
<1>4. SumsUp(G, f, I)
  <2> HIDE DEF f, Adds
  <2>1. \E g : Adds(g)
    BY <1>2, <1>3
  <2>2. Adds(G)
    BY <2>1
  <2>3. QED
    BY <1>2, <2>2
<1>5. Total(f, I) = G[I]
  <2> HIDE DEF f, G
  <2>1. QED
    BY <1>4, TotalIs
<1>6. QED
  BY <1>1, <1>5

LEMMA WorthsAddUp ==
    ASSUME NEW I, IsFiniteSet(I), NEW E \in Histories(I)
    PROVE  MapThenSumSet(LAMBDA i : EVENT_WEIGHTS[E[i].type] * E[i].score, I)
               = Total(Worths(E), I)
<1> DEFINE f == Worths(E)
           W == EVENT_WEIGHTS
           Adds(g) == g = [s \in SUBSET I |->
                              IF s = {} THEN 0
                              ELSE W[E[CHOOSE x \in s : TRUE].type]
                                           * E[CHOOSE x \in s : TRUE].score
                                       + g[s \ {CHOOSE x \in s : TRUE}]]
           G == CHOOSE g : Adds(g)
<1>1. MapThenSumSet(LAMBDA i : EVENT_WEIGHTS[E[i].type] * E[i].score, I) = G[I]
  BY DEF MapThenSumSet, MapThenFoldSet
<1> HIDE DEF W
<1>2. ASSUME NEW g
      PROVE  Adds(g) <=> SumsUp(g, f, I)
  <2> DEFINE w(s) == W[E[Chosen(s)].type] * E[Chosen(s)].score
  <2>1. \A s \in SUBSET I : s # {} => f[Chosen(s)] = w(s)
    BY DEF Chosen, Worths, Histories, W
  <2>2. [s \in SUBSET I |-> IF s = {} THEN 0 ELSE w(s) + g[s \ {Chosen(s)}]]
        = [s \in SUBSET I |-> IF s = {} THEN 0
                              ELSE f[Chosen(s)] + g[s \ {Chosen(s)}]]
    <3> HIDE DEF f, w
    <3>1. QED
      BY <2>1
  <2> HIDE DEF f
  <2>3. QED
    BY <2>2 DEF SumsUp, Chosen
<1>3. \E g : SumsUp(g, f, I)
  BY SumsExist
<1>4. SumsUp(G, f, I)
  <2> HIDE DEF f, Adds
  <2>1. \E g : Adds(g)
    BY <1>2, <1>3
  <2>2. Adds(G)
    BY <2>1
  <2>3. QED
    BY <1>2, <2>2
<1>5. Total(f, I) = G[I]
  <2> HIDE DEF f, G
  <2>1. QED
    BY <1>4, TotalIs
<1>6. QED
  BY <1>1, <1>5

LEMMA RowsWeigh ==
    ASSUME NEW I, NEW E \in Histories(I), NEW i \in I
    PROVE  /\ Weights(E)[i] = EVENT_WEIGHTS[E[i].type]
           /\ Worths(E)[i] = EVENT_WEIGHTS[E[i].type] * E[i].score
           /\ EVENT_WEIGHTS[E[i].type] \in Nat \ {0}
           /\ E[i].score \in Nat /\ E[i].at \in Int /\ E[i].type \in EventType
           /\ Worths(E)[i] \in Nat
<1>1. /\ DOMAIN E = I /\ E[i] \in ScoredRow
  BY DEF Histories
<1>2. E[i].score \in Nat /\ E[i].at \in Int /\ E[i].type \in EventType
  <2>1. /\ E[i].score \in 0 .. One /\ E[i].at \in Int
        /\ E[i].type \in EventType
    BY <1>1 DEF ScoredRow
  <2>2. 0 .. One \subseteq Nat
    BY DEF One
  <2>3. QED
    BY <2>1, <2>2, Zenon
<1>3. EVENT_WEIGHTS[E[i].type] \in Nat \ {0}
  BY <1>2, WeightsCount
<1>4. /\ Weights(E)[i] = EVENT_WEIGHTS[E[i].type]
      /\ Worths(E)[i] = EVENT_WEIGHTS[E[i].type] * E[i].score
  BY <1>1 DEF Weights, Worths
<1> DEFINE w == EVENT_WEIGHTS[E[i].type]
<1> HIDE DEF w
<1>5. w * E[i].score \in Nat
  BY <1>2, <1>3 DEF w
<1>6. QED
  BY <1>2, <1>3, <1>4, <1>5 DEF w

\* The quality is a quotient of natural numbers; of no events it is 0 / 1.
LEMMA QualityIs ==
    ASSUME NEW I, IsFiniteSet(I), NEW E \in Histories(I)
    PROVE  /\ quality_component(E).num \in Nat
           /\ quality_component(E).den \in Nat \ {0}
           /\ I = {} => quality_component(E) = Over(0, 1)
           /\ I # {} => quality_component(E) = Over(Total(Worths(E), I),
                                                    Total(Weights(E), I))
<1>1. DOMAIN E = I
  BY DEF Histories
<1>2. CASE I = {}
  <2>1. quality_component(E) = Over(0, 1)
    BY <1>1, <1>2 DEF quality_component
  <2>2. QED
    BY <1>2, <2>1 DEF Over
<1>3. CASE I # {}
  <2>1. quality_component(E) = Over(Total(Worths(E), I), Total(Weights(E), I))
    <3>1. quality_component(E) =
             Over(MapThenSumSet(LAMBDA i : EVENT_WEIGHTS[E[i].type] * E[i].score, I),
                  MapThenSumSet(LAMBDA i : EVENT_WEIGHTS[E[i].type], I))
      BY <1>1, <1>3 DEF quality_component, MapThenSumSet, MapThenFoldSet
    <3>2. QED
      BY <3>1, WeightsAddUp, WorthsAddUp
  <2>2. Total(Worths(E), I) \in Nat
    <3>1. \A i \in I : Worths(E)[i] \in Nat
      BY RowsWeigh
    <3>2. QED
      BY <3>1, TotalType
  <2>3. Total(Weights(E), I) \in Nat \ {0}
    <3>1. \A i \in I : Weights(E)[i] \in Nat \ {0}
      BY RowsWeigh
    <3>2. QED
      BY <1>3, <3>1, TotalPositive
  <2>4. QED
    BY <1>3, <2>1, <2>2, <2>3 DEF Over
<1>4. QED
  BY <1>2, <1>3

TypesOf(E) == {E[i].type : i \in DOMAIN E}
TimesOf(E) == {E[i].at : i \in DOMAIN E}

LEMMA HighTypes ==
    IsFiniteSet(HIGH_VALUE_TYPES) /\ Cardinality(HIGH_VALUE_TYPES) \in Nat \ {0}
<1> DEFINE H == HIGH_VALUE_TYPES
<1>1. H = {"quiz_attempt", "lab_exercise", "discussion_post", "peer_review",
           "assignment_submit"}
  BY DEF HIGH_VALUE_TYPES, EventType, EVENT_WEIGHTS
<1>2. IsFiniteSet({}) /\ H # {}
  BY <1>1, FS_EmptySet
<1>3. IsFiniteSet(H)
  <2>1. H = (((({} \cup {"quiz_attempt"}) \cup {"lab_exercise"})
                \cup {"discussion_post"}) \cup {"peer_review"})
                \cup {"assignment_submit"}
    BY <1>1
  <2> HIDE DEF H
  <2>2. QED
    BY <1>2, <2>1, FS_AddElement
<1> HIDE DEF H
<1>4. Cardinality(H) \in Nat \ {0}
  BY <1>2, <1>3, FS_EmptySet, FS_CardinalityType
<1>5. QED
  BY <1>3, <1>4 DEF H

\* More types never make a history narrower.
LEMMA BreadthGrows ==
    ASSUME NEW E, NEW F, TypesOf(E) \subseteq TypesOf(F)
    PROVE  /\ breadth_component(E) \in Nat
           /\ breadth_component(E) <= breadth_component(F)
           /\ TypesOf(E) = {} => breadth_component(E) = 0
<1> DEFINE H == HIGH_VALUE_TYPES
           T == TypesOf(E) \cap H
           U == TypesOf(F) \cap H
           t == Cardinality(T)
           u == Cardinality(U)
           n == Cardinality(H)
<1>1. IsFiniteSet(H) /\ n \in Nat \ {0}
  BY HighTypes
<1>2. T \subseteq U /\ U \subseteq H
  OBVIOUS
<1>3. breadth_component(E) = (One * t) \div n /\ breadth_component(F) = (One * u) \div n
  BY DEF breadth_component, TypesOf
<1>4. TypesOf(E) = {} => t = 0
  BY FS_EmptySet
<1> HIDE DEF H, T, U
<1>5. IsFiniteSet(U) /\ IsFiniteSet(T)
  BY <1>1, <1>2, FS_Subset
<1>6. t \in Nat /\ u \in Nat /\ t <= u
  BY <1>2, <1>5, FS_CardinalityType, FS_Subset
<1> HIDE DEF t, u, n
<1>7. One * t \in Nat /\ One * u \in Nat /\ One * t <= One * u /\ (t = 0 => One * t = 0)
  BY <1>6 DEF One
<1> DEFINE a == One * t
           b == One * u
<1>8. a \in Nat /\ b \in Nat /\ a <= b
  BY <1>7
<1> HIDE DEF a, b
<1>9. a \div n <= b \div n
  BY <1>1, <1>8, QuotientGrows
<1>10. a \div n \in Nat /\ (a = 0 => a \div n = 0)
  BY <1>1, <1>8
<1>11. QED
  BY <1>3, <1>4, <1>7, <1>9, <1>10 DEF a, b

\* The age an event is taken to have, k ticks after its time.
AgeAfter(k) == Min({MaxAge, Max({0, k})})

LEMMA AgesGrow ==
    ASSUME NEW k \in Int, NEW l \in Int, k <= l
    PROVE  /\ AgeAfter(k) \in 0 .. MaxAge
           /\ AgeAfter(k) <= AgeAfter(l)
<1>1. \A x \in Int : Max({0, x}) = IF x >= 0 THEN x ELSE 0
  <2> SUFFICES ASSUME NEW x \in Int
               PROVE  Max({0, x}) = IF x >= 0 THEN x ELSE 0
    OBVIOUS
  <2> DEFINE m == IF x >= 0 THEN x ELSE 0
  <2>1. m \in {0, x} /\ \A y \in {0, x} : m >= y
    OBVIOUS
  <2>2. \A p \in {0, x} : (\A y \in {0, x} : p >= y) => p = m
    OBVIOUS
  <2> HIDE DEF m
  <2>3. (CHOOSE p \in {0, x} : \A y \in {0, x} : p >= y) = m
    BY <2>1, <2>2
  <2>4. QED
    BY <2>3 DEF Max, m
<1>2. \A x \in Int : Min({MaxAge, x}) = IF x <= MaxAge THEN x ELSE MaxAge
  <2> SUFFICES ASSUME NEW x \in Int
               PROVE  Min({MaxAge, x}) = IF x <= MaxAge THEN x ELSE MaxAge
    OBVIOUS
  <2> DEFINE m == IF x <= MaxAge THEN x ELSE MaxAge
  <2>1. MaxAge \in Int
    BY DecayAssumption
  <2>2. m \in {MaxAge, x} /\ \A y \in {MaxAge, x} : m <= y
    BY <2>1
  <2>3. \A p \in {MaxAge, x} : (\A y \in {MaxAge, x} : p <= y) => p = m
    BY <2>1
  <2> HIDE DEF m
  <2>4. (CHOOSE p \in {MaxAge, x} : \A y \in {MaxAge, x} : p <= y) = m
    BY <2>2, <2>3
  <2>5. QED
    BY <2>4 DEF Min, m
<1> DEFINE p == Max({0, k})
           q == Max({0, l})
<1>3. p \in Nat /\ q \in Nat /\ p <= q
  BY <1>1
<1> HIDE DEF p, q
<1>4. /\ Min({MaxAge, p}) = IF p <= MaxAge THEN p ELSE MaxAge
      /\ Min({MaxAge, q}) = IF q <= MaxAge THEN q ELSE MaxAge
  BY <1>2, <1>3
<1>5. QED
  BY <1>3, <1>4, DecayAssumption DEF AgeAfter, p, q

\* The recency of events up to the time last.
LEMMA RecencyIs ==
    ASSUME NEW I, IsFiniteSet(I), I # {}, NEW E \in Histories(I), NEW t \in Int
    PROVE  \E last \in TimesOf(E) :
              /\ \A x \in TimesOf(E) : x \in Int /\ last >= x
              /\ recency_component(E, t) = Decay[AgeAfter(t - last)]
<1> DEFINE S == TimesOf(E)
<1>1. DOMAIN E = I
  BY DEF Histories
<1>2. S \in SUBSET Int /\ S # {}
  BY <1>1, RowsWeigh DEF TimesOf
<1>3. IsFiniteSet(S)
  <2> DEFINE at == [i \in I |-> E[i].at]
  <2>1. S = {at[i] : i \in I}
    BY <1>1 DEF TimesOf
  <2> HIDE DEF at
  <2>2. at \in [I -> S]
    BY <1>1, <2>1 DEF at, TimesOf
  <2>3. at \in Surjection(I, S)
    BY <2>1, <2>2 DEF Surjection
  <2> HIDE DEF S
  <2>4. QED
    BY <2>3, FS_Surjection
<1>4. recency_component(E, t) = Decay[AgeAfter(t - Max(S))]
  BY <1>1 DEF recency_component, TimesOf, AgeAfter
<1>5. Max(S) \in S /\ \A x \in S : Max(S) >= x
  <2> HIDE DEF S
  <2>1. \E m \in S : \A x \in S : m >= x
    BY <1>2, <1>3, GreatestOf
  <2> DEFINE Last(m) == \A x \in S : m >= x
  <2>2. \E m \in S : Last(m)
    BY <2>1
  <2> HIDE DEF Last
  <2>3. (CHOOSE m \in S : Last(m)) \in S /\ Last(CHOOSE m \in S : Last(m))
    BY <2>2
  <2>4. QED
    BY <2>3 DEF Last, Max
<1>6. QED
  BY <1>2, <1>4, <1>5

\* Recency falls as time passes and rises with later events.
LEMMA RecencyMoves ==
    ASSUME NEW I, IsFiniteSet(I), NEW E \in Histories(I),
           NEW J, IsFiniteSet(J), NEW F \in Histories(J),
           TimesOf(E) \subseteq TimesOf(F),
           NEW t \in Int, NEW u \in Int, u <= t
    PROVE  /\ recency_component(E, t) \in Nat
           /\ recency_component(E, t) <= recency_component(F, u)
           /\ I = {} => recency_component(E, t) = 0
<1>1. DOMAIN E = I /\ DOMAIN F = J
  BY DEF Histories
<1>2. \A n \in 0 .. MaxAge : Decay[n] \in Nat
  <2>1. 0 .. One \subseteq Nat
    BY DEF One
  <2>2. \A n \in 0 .. MaxAge : Decay[n] \in 0 .. One
    BY DecayAssumption
  <2>3. QED
    BY <2>1, <2>2, Zenon
<1>3. J # {} => recency_component(F, u) \in Nat
  <2> SUFFICES ASSUME J # {}
               PROVE  recency_component(F, u) \in Nat
    OBVIOUS
  <2>1. PICK last \in TimesOf(F) :
           /\ last \in Int
           /\ recency_component(F, u) = Decay[AgeAfter(u - last)]
    BY RecencyIs
  <2>2. AgeAfter(u - last) \in 0 .. MaxAge
    BY <2>1, AgesGrow
  <2>3. QED
    BY <1>2, <2>1, <2>2
<1>4. CASE I = {}
  <2>1. recency_component(E, t) = 0
    BY <1>1, <1>4 DEF recency_component
  <2>2. J = {} => recency_component(F, u) = 0
    BY <1>1 DEF recency_component
  <2>3. QED
    BY <1>3, <2>1, <2>2
<1>5. CASE I # {}
  <2>1. J # {}
    BY <1>1, <1>5 DEF TimesOf
  <2>2. PICK l \in TimesOf(E) :
           /\ l \in Int
           /\ recency_component(E, t) = Decay[AgeAfter(t - l)]
    BY <1>5, RecencyIs
  <2>3. PICK m \in TimesOf(F) :
           /\ \A x \in TimesOf(F) : x \in Int /\ m >= x
           /\ recency_component(F, u) = Decay[AgeAfter(u - m)]
    BY <2>1, RecencyIs
  <2>4. l \in Int /\ m \in Int /\ u - m <= t - l
    BY <2>2, <2>3
  <2> DEFINE a == AgeAfter(u - m)
             b == AgeAfter(t - l)
  <2>5. a \in 0 .. MaxAge /\ b \in 0 .. MaxAge /\ a <= b
    BY <2>4, AgesGrow
  <2> HIDE DEF a, b
  <2>6. Decay[b] <= Decay[a] /\ Decay[b] \in Nat
    BY <1>2, <2>5, DecayAssumption
  <2>7. QED
    BY <1>5, <2>2, <2>3, <2>6 DEF a, b
<1>6. QED
  BY <1>4, <1>5

\* The parts of a composite score.
LEMMA CompositeIs ==
    ASSUME NEW I, IsFiniteSet(I), NEW E \in Histories(I), NEW t \in Int
    PROVE  \E n \in Nat, d \in Nat \ {0}, k \in Nat :
              /\ quality_component(E) = Over(n, d)
              /\ k = 2 * breadth_component(E) + 2 * recency_component(E, t)
              /\ composite(E, t) = Over(6 * n + d * k, 10 * d)
              /\ I = {} => n = 0 /\ d = 1 /\ k = 0
<1> DEFINE q == quality_component(E)
           n == q.num
           d == q.den
           b == breadth_component(E)
           r == recency_component(E, t)
<1>1. n \in Nat /\ d \in Nat \ {0} /\ (I = {} => n = 0 /\ d = 1)
  BY QualityIs DEF Over
<1>2. q = Over(n, d)
  BY QualityIs DEF Over
<1>3. b \in Nat /\ (I = {} => b = 0)
  <2>1. I = {} => TypesOf(E) = {}
    BY DEF TypesOf, Histories
  <2>2. QED
    BY <2>1, BreadthGrows
<1>4. r \in Nat /\ (I = {} => r = 0)
  BY RecencyMoves
<1>5. composite(E, t) = Over(6 * n + d * (2 * b + 2 * r), 10 * d)
  BY DEF composite, QUALITY_WEIGHT, BREADTH_WEIGHT, RECENCY_WEIGHT
<1> HIDE DEF q, n, d, b, r
<1>6. 2 * b + 2 * r \in Nat /\ (I = {} => 2 * b + 2 * r = 0)
  BY <1>3, <1>4
<1>7. QED
  BY <1>1, <1>2, <1>5, <1>6 DEF q, b, r

\* With the same quality, more breadth and recency make no lower score.
LEMMA MoreOnTop ==
    ASSUME NEW n \in Nat, NEW d \in Nat \ {0}, NEW k \in Nat, NEW l \in Nat, k <= l
    PROVE  AtLeast(Over(6 * n + d * l, 10 * d), Over(6 * n + d * k, 10 * d))
<1>1. d * k \in Nat /\ d * l \in Nat /\ d * k <= d * l
  BY TimesGrows
<1> DEFINE x == 6 * n + d * k
           y == 6 * n + d * l
           e == 10 * d
<1>2. x \in Nat /\ y \in Nat /\ x <= y /\ e \in Nat
  BY <1>1
<1> HIDE DEF x, y, e
<1>3. e * x <= e * y /\ e * x = x * e /\ e * y = y * e
  BY <1>2, TimesGrows
<1>4. AtLeast(Over(y, e), Over(x, e))
  BY <1>2, <1>3 DEF AtLeast, Over
<1>5. QED
  BY <1>4 DEF x, y, e

\* An event of the weight w and the score s added to a quality n / d.
LEMMA GoodOnTop ==
    ASSUME NEW n \in Nat, NEW d \in Nat \ {0}, NEW k \in Nat, NEW l \in Nat, k <= l,
           NEW w \in Nat, NEW s \in Nat, s * d >= n
    PROVE  AtLeast(Over(6 * (w * s + n) + (w + d) * l, 10 * (w + d)),
                   Over(6 * n + d * k, 10 * d))
<1> DEFINE e == w + d
           x == 6 * n + d * k
           y == 6 * (w * s + n) + e * l
<1>1. e \in Nat /\ w * s \in Nat /\ e * l \in Nat /\ d * k \in Nat
  OBVIOUS
<1>2. x \in Nat /\ y \in Nat
  BY <1>1
<1>3. y * d >= x * e
  <2> DEFINE sd == s * d
             wn == w * n
             nd == n * d
  <2>1. w * n <= w * sd /\ w * n \in Nat /\ w * sd \in Nat
    BY TimesGrows
  <2>2. w * sd = (w * s) * d
    OBVIOUS
  <2> DEFINE ed == e * d
  <2>3. ed \in Nat /\ ed * k <= ed * l /\ ed * k \in Nat /\ ed * l \in Nat
    BY <1>1, TimesGrows
  <2>4. (e * l) * d = ed * l /\ (d * k) * e = ed * k
    BY <1>1
  <2>5. y * d = 6 * ((w * s) * d) + 6 * nd + ed * l
    <3>1. y * d = (6 * (w * s) + 6 * n) * d + (e * l) * d
      BY <1>1
    <3> HIDE DEF e
    <3>2. (6 * (w * s) + 6 * n) * d = 6 * ((w * s) * d) + 6 * (n * d)
      OBVIOUS
    <3>3. QED
      BY <2>4, <3>1, <3>2
  <2>6. x * e = 6 * wn + 6 * nd + ed * k
    <3>1. x * e = (6 * n) * e + (d * k) * e
      BY <1>1
    <3>2. (6 * n) * e = 6 * (w * n) + 6 * (n * d)
      OBVIOUS
    <3>3. QED
      BY <2>4, <3>1, <3>2
  <2>7. nd \in Nat
    OBVIOUS
  <2> DEFINE p == (w * s) * d
             f == ed * l
             g == ed * k
  <2>8. wn <= p /\ wn \in Nat /\ p \in Nat /\ f \in Nat /\ g \in Nat /\ g <= f
    BY <2>1, <2>2, <2>3
  <2>9. y * d = 6 * p + 6 * nd + f /\ x * e = 6 * wn + 6 * nd + g
    BY <2>5, <2>6
  <2> HIDE DEF p, f, g, wn, nd, x, y, e
  <2>10. QED
    BY <2>7, <2>8, <2>9
<1> HIDE DEF e, x, y
<1>4. y * (10 * d) = 10 * (y * d) /\ x * (10 * e) = 10 * (x * e)
      /\ y * d \in Nat /\ x * e \in Nat
  BY <1>1, <1>2
<1>5. y * (10 * d) >= x * (10 * e)
  BY <1>3, <1>4
<1>6. AtLeast(Over(y, 10 * e), Over(x, 10 * d))
  BY <1>5 DEF AtLeast, Over
<1>7. QED
  BY <1>6 DEF x, y, e

\* No history scores more later.
LEMMA ScoreFades ==
    ASSUME NEW I, IsFiniteSet(I), NEW E \in Histories(I),
           NEW t \in Int, NEW u \in Int, t <= u
    PROVE  AtLeast(composite(E, t), composite(E, u))
<1>1. PICK n \in Nat, d \in Nat \ {0}, k \in Nat :
         /\ quality_component(E) = Over(n, d)
         /\ k = 2 * breadth_component(E) + 2 * recency_component(E, t)
         /\ composite(E, t) = Over(6 * n + d * k, 10 * d)
         /\ I = {} => n = 0 /\ d = 1 /\ k = 0
  BY CompositeIs, Zenon
<1>2. PICK m \in Nat, e \in Nat \ {0}, l \in Nat :
         /\ quality_component(E) = Over(m, e)
         /\ l = 2 * breadth_component(E) + 2 * recency_component(E, u)
         /\ composite(E, u) = Over(6 * m + e * l, 10 * e)
         /\ I = {} => m = 0 /\ e = 1 /\ l = 0
  BY CompositeIs, Zenon
<1>3. m = n /\ e = d
  BY <1>1, <1>2 DEF Over
<1> DEFINE b == breadth_component(E)
           r == recency_component(E, t)
           v == recency_component(E, u)
<1>4. b \in Nat /\ r \in Nat /\ v \in Nat /\ v <= r
  BY BreadthGrows, RecencyMoves
<1>5. k = 2 * b + 2 * r /\ l = 2 * b + 2 * v
  BY <1>1, <1>2
<1> HIDE DEF b, r, v
<1>6. l <= k
  BY <1>4, <1>5
<1>7. composite(E, u) = Over(6 * n + d * l, 10 * d)
  BY <1>2, <1>3
<1>8. AtLeast(Over(6 * n + d * k, 10 * d), Over(6 * n + d * l, 10 * d))
  BY <1>6, MoreOnTop
<1>9. QED
  BY <1>1, <1>7, <1>8

\* One more event, at least as good as the quality before it, makes no lower
\* score.
LEMMA GoodEventScores ==
    ASSUME NEW I, IsFiniteSet(I), NEW E \in Histories(I), NEW j, j \notin I,
           NEW F \in Histories(I \cup {j}), \A i \in I : F[i] = E[i],
           NEW t \in Int, AtLeast(Over(F[j].score, 1), quality_component(E))
    PROVE  AtLeast(composite(F, t), composite(E, t))
<1> DEFINE J == I \cup {j}
           w == EVENT_WEIGHTS[F[j].type]
           s == F[j].score
<1>1. IsFiniteSet(J) /\ J # {} /\ F \in Histories(J) /\ DOMAIN E = I /\ DOMAIN F = J
  BY FS_AddElement DEF Histories
<1>2. w \in Nat \ {0} /\ s \in Nat
  BY RowsWeigh
<1>3. PICK n \in Nat, d \in Nat \ {0}, k \in Nat :
         /\ quality_component(E) = Over(n, d)
         /\ k = 2 * breadth_component(E) + 2 * recency_component(E, t)
         /\ composite(E, t) = Over(6 * n + d * k, 10 * d)
         /\ I = {} => n = 0 /\ d = 1 /\ k = 0
  BY CompositeIs, Zenon
<1>4. PICK m \in Nat, e \in Nat \ {0}, l \in Nat :
         /\ quality_component(F) = Over(m, e)
         /\ l = 2 * breadth_component(F) + 2 * recency_component(F, t)
         /\ composite(F, t) = Over(6 * m + e * l, 10 * e)
         /\ J = {} => m = 0 /\ e = 1 /\ l = 0
  <2>1. IsFiniteSet(J) /\ F \in Histories(J)
    BY <1>1
  <2> HIDE DEF J
  <2>2. QED
    BY <2>1, CompositeIs, Zenon
<1>5. k <= l
  <2>1. TypesOf(E) \subseteq TypesOf(F) /\ TimesOf(E) \subseteq TimesOf(F)
    BY <1>1 DEF TypesOf, TimesOf
  <2> DEFINE b == breadth_component(E)
             c == breadth_component(F)
             r == recency_component(E, t)
             v == recency_component(F, t)
  <2>2. b \in Nat /\ c \in Nat /\ b <= c
    BY <2>1, BreadthGrows
  <2>3. r \in Nat /\ r <= v
    BY <1>1, <2>1, RecencyMoves
  <2>4. v \in Nat
    BY <1>1, RecencyMoves
  <2>5. k = 2 * b + 2 * r /\ l = 2 * c + 2 * v
    BY <1>3, <1>4
  <2> HIDE DEF b, c, r, v
  <2>6. QED
    BY <2>2, <2>3, <2>4, <2>5
<1>6. s * d >= n
  <2>1. Over(s, 1).num * Over(n, d).den >= Over(n, d).num * Over(s, 1).den
    BY <1>3 DEF AtLeast
  <2>2. /\ Over(s, 1).num = s /\ Over(s, 1).den = 1
        /\ Over(n, d).num = n /\ Over(n, d).den = d
    BY DEF Over
  <2> HIDE DEF s
  <2>3. QED
    BY <2>1, <2>2
<1>7. CASE I = {}
  <2>1. 6 * n + d * k = 0 /\ 10 * d = 10
    BY <1>3, <1>7
  <2>2. 6 * m + e * l \in Nat /\ 10 * e \in Nat
    BY <1>4
  <2> DEFINE x == 6 * m + e * l
             y == 10 * e
  <2>3. x \in Nat /\ y \in Nat
    BY <2>2
  <2> HIDE DEF x, y
  <2>4. AtLeast(Over(x, y), Over(0, 10))
    BY <2>3 DEF AtLeast, Over
  <2>5. QED
    BY <1>3, <1>4, <2>1, <2>4 DEF x, y
<1>8. CASE I # {}
  <2>1. n = Total(Worths(E), I) /\ d = Total(Weights(E), I)
    BY <1>3, <1>8, QualityIs DEF Over
  <2>2. m = Total(Worths(F), J) /\ e = Total(Weights(F), J)
    BY <1>1, <1>4, QualityIs DEF Over
  <2>3. \A i \in I : /\ Worths(F)[i] = Worths(E)[i]
                     /\ Weights(F)[i] = Weights(E)[i]
    BY RowsWeigh
  <2>4. /\ Worths(F)[j] = w * s /\ Weights(F)[j] = w
        /\ \A i \in J : Worths(F)[i] \in Int /\ Weights(F)[i] \in Int
    BY RowsWeigh
  <2>5. /\ Total(Worths(F), J) = w * s + Total(Worths(F), I)
        /\ Total(Weights(F), J) = w + Total(Weights(F), I)
    BY <2>4, TotalAdd
  <2>6. /\ Total(Worths(F), I) = Total(Worths(E), I)
        /\ Total(Weights(F), I) = Total(Weights(E), I)
    BY <2>3, TotalSame
  <2>7. m = w * s + n /\ e = w + d
    BY <2>1, <2>2, <2>5, <2>6
  <2> HIDE DEF w, s
  <2>8. AtLeast(Over(6 * (w * s + n) + (w + d) * l, 10 * (w + d)),
                Over(6 * n + d * k, 10 * d))
    BY <1>2, <1>5, <1>6, GoodOnTop
  <2>9. QED
    BY <1>3, <1>4, <2>7, <2>8
<1>9. QED
  BY <1>7, <1>8

\* The rows of events make a history.
ScoredOf(ev) == [i \in DOMAIN ev |-> [type |-> ev[i].type, score |-> ev[i].score,
                                      at |-> as_utc(ev[i].timestamp.kept)]]

LEMMA ScoredThenAndNow ==
    Scored = ScoredOf(events) /\ Scored' = ScoredOf(events')
<1>1. Scored = ScoredOf(events)
  BY DEF Scored, ScoredOf, Read
<1>2. Scored' = ScoredOf(events')
  BY DEF Scored, ScoredOf, Read
<1>3. QED
  BY <1>1, <1>2

LEMMA RowsAreScored ==
    ASSUME TypeOK, NEW ev \in Seq(EventRow)
    PROVE  /\ ScoredOf(ev) \in Histories(DOMAIN ev)
           /\ IsFiniteSet(DOMAIN ev)
           /\ \A i \in DOMAIN ev : ScoredOf(ev)[i].score = ev[i].score
<1>1. DOMAIN ev = 1 .. Len(ev) /\ Len(ev) \in Nat
  BY LenProperties
<1>2. IsFiniteSet(DOMAIN ev)
  BY <1>1, FS_Interval
<1>3. ASSUME NEW i \in DOMAIN ev
      PROVE  /\ ev[i].type \in EventType /\ ev[i].score \in 0 .. One
             /\ as_utc(ev[i].timestamp.kept) \in Int
  <2>1. ev[i] \in EventRow
    BY ElementOfSeq
  <2> DEFINE r == ev[i]
  <2> HIDE DEF r
  <2>2. r \in EventRow
    BY <2>1 DEF r
  <2>3. r.type \in EventType /\ r.score \in 0 .. One /\ r.timestamp.kept \in Time
    BY <2>2 DEF EventRow, Row
  <2>4. as_utc(r.timestamp.kept) \in Int
    BY <2>3, TimesAreNumbers
  <2>5. QED
    BY <2>3, <2>4 DEF r
<1>4. QED
  BY <1>2, <1>3 DEF ScoredOf, Histories, ScoredRow

LEMMA TimeStep ==
    ASSUME IInv, [Next]_vars, events' = events
    PROVE  AtLeast(composite(Scored, now), composite(Scored', now'))
<1>1. now \in Int /\ now' \in Int /\ now <= now'
  BY ClockOnlyRises DEF IInv, TypeOK
<1>2. TypeOK /\ events \in Seq(EventRow)
  BY DEF IInv, TypeOK
<1> DEFINE E == ScoredOf(events)
           I == DOMAIN events
<1>3. E \in Histories(I) /\ IsFiniteSet(I)
  BY <1>2, RowsAreScored
<1>4. Scored = E /\ Scored' = E
  BY ScoredThenAndNow
<1> HIDE DEF E, I
<1>5. AtLeast(composite(E, now), composite(E, now'))
  BY <1>1, <1>3, ScoreFades
<1>6. QED
  BY <1>4, <1>5

\* With no new event the composite score never rises.
THEOREM TimeBringsNothing == Spec => TimeNeverHelps
<1>1. IInv /\ [Next]_vars =>
        [events' = events =>
            AtLeast(composite(Scored, now), composite(Scored', now'))]_vars
  BY TimeStep
<1>2. QED
  BY Invariance, <1>1, PTL DEF Spec, TimeNeverHelps

LEMMA GoodEventStep ==
    ASSUME IInv, [Next]_vars, Len(events') > Len(events),
           AtLeast(Over(events'[Len(events')].score, 1), quality_component(Scored))
    PROVE  AtLeast(composite(Scored', now'), composite(Scored, now))
<1>1. TypeOK /\ events \in Seq(EventRow) /\ now \in Int
  BY DEF IInv, TypeOK
<1>2. events' # events
  <2>1. Len(events) \in Nat
    BY <1>1, LenProperties
  <2>2. QED
    BY <2>1
<1>3. PICK type \in Types, score \in Scores, time \in Input \cup {NoTime} :
         PostEvent(type, score, time)
  BY <1>2 DEF Next, vars, Tick, PostSession, Refuse
<1>4. PICK row \in EventRow :
         /\ events' = Append(events, row) /\ Honest(row.timestamp)
         /\ UNCHANGED <<sqlite, now, sessions>>
  BY <1>3, EventAdded
<1> DEFINE j == Len(events) + 1
           I == DOMAIN events
           E == ScoredOf(events)
           F == ScoredOf(events')
<1>5. /\ events' \in Seq(EventRow) /\ Len(events') = j
      /\ DOMAIN events' = I \cup {j} /\ j \notin I
      /\ \A i \in I : events'[i] = events[i]
  <2>1. j \notin 1 .. Len(events)
    BY <1>1, LenProperties
  <2>2. QED
    BY <1>1, <1>4, <2>1, AppendedRow, LenProperties
<1>6. /\ E \in Histories(I) /\ IsFiniteSet(I) /\ F \in Histories(I \cup {j})
      /\ F[j].score = events'[j].score
  BY <1>1, <1>5, RowsAreScored
<1>7. \A i \in I : F[i] = E[i]
  BY <1>5 DEF ScoredOf
<1>8. Scored = E /\ Scored' = F /\ now' = now
  BY <1>4, ScoredThenAndNow
<1>9. AtLeast(Over(F[j].score, 1), quality_component(E))
  BY <1>5, <1>6, <1>8
<1> HIDE DEF E, F, I, j
<1>10. AtLeast(composite(F, now), composite(E, now))
  BY <1>1, <1>5, <1>6, <1>7, <1>9, GoodEventScores
<1>11. QED
  BY <1>8, <1>10

\* An event at least as good as the quality before it never lowers the
\* composite score, whatever its type and time.
THEOREM GoodEventsHelp == Spec => GoodEventNeverHurts
<1>1. IInv /\ [Next]_vars =>
        [/\ Len(events') > Len(events)
         /\ AtLeast(Over(events'[Len(events')].score, 1),
                    quality_component(Scored))
         => AtLeast(composite(Scored', now'), composite(Scored, now))]_vars
  BY GoodEventStep
<1>2. QED
  BY Invariance, <1>1, PTL DEF Spec, GoodEventNeverHurts
-----------------------------------------------------------------------------
\* Bands

LEMMA ThresholdsAre ==
    /\ Threshold["high"] = 7500 /\ Threshold["moderate"] = 5000
    /\ Threshold["at-risk"] = 2500 /\ Threshold["disengaged"] = 0
BY DEF Threshold, Band

\* The band of a score is the highest whose threshold it reaches.
LEMMA BandIs ==
    ASSUME NEW n \in Nat, NEW d \in Nat \ {0}
    PROVE  LET b == band_for(Over(n, d))
           IN  /\ b \in Band /\ n >= Threshold[b] * d
               /\ \A c \in Band : n >= Threshold[c] * d
                                      => Threshold[c] <= Threshold[b]
<1> DEFINE Fits(b) == /\ n >= Threshold[b] * d
                      /\ \A c \in Band : n >= Threshold[c] * d
                                             => Threshold[c] <= Threshold[b]
<1>1. \E b \in Band : Fits(b)
  <2>1. CASE n >= 7500 * d
    BY <2>1, ThresholdsAre DEF Band
  <2>2. CASE n >= 5000 * d /\ ~(n >= 7500 * d)
    BY <2>2, ThresholdsAre DEF Band
  <2>3. CASE n >= 2500 * d /\ ~(n >= 5000 * d) /\ ~(n >= 7500 * d)
    BY <2>3, ThresholdsAre DEF Band
  <2>4. CASE ~(n >= 2500 * d) /\ ~(n >= 5000 * d) /\ ~(n >= 7500 * d)
    BY <2>4, ThresholdsAre DEF Band
  <2>5. QED
    BY <2>1, <2>2, <2>3, <2>4
<1>2. band_for(Over(n, d)) = CHOOSE b \in Band : Fits(b)
  BY DEF band_for, Over
<1>3. (CHOOSE b \in Band : Fits(b)) \in Band /\ Fits(CHOOSE b \in Band : Fits(b))
  <2> HIDE DEF Fits
  <2>1. QED
    BY <1>1
<1>4. QED
  BY <1>2, <1>3

\* What a score is rounded to, against a threshold.
LEMMA RoundedAt ==
    ASSUME NEW n \in Nat, NEW d \in Nat \ {0}, NEW t \in Nat
    PROVE  /\ Rounded(Over(n, d)) \in Int
           /\ n >= t * d => Rounded(Over(n, d)) >= t
           /\ n < t * d => Rounded(Over(n, d)) <= t
<1> DEFINE a == 2 * n + d
           e == 2 * d
           r == a \div e
<1>1. a \in Nat /\ e \in Nat \ {0} /\ r \in Int
  OBVIOUS
<1>2. Rounded(Over(n, d)) = r
  BY DEF Rounded, Over
<1>3. e * t = 2 * (t * d) /\ e * (t + 1) = 2 * (t * d) + e /\ t * d \in Nat
  OBVIOUS
<1>4. e * t <= a <=> t <= r
  <2> HIDE DEF a, e
  <2>1. QED
    BY <1>1, LargestQuotient DEF r
<1>5. e * (t + 1) <= a <=> t + 1 <= r
  <2> HIDE DEF a, e
  <2>1. QED
    BY <1>1, LargestQuotient DEF r
<1> DEFINE td == t * d
<1>6. td \in Nat /\ (2 * td <= a <=> t <= r) /\ (2 * td + e <= a <=> t + 1 <= r)
  BY <1>3, <1>4, <1>5
<1>7. r \in Int
  BY <1>1
<1> HIDE DEF td, r
<1>8. (n >= td => r >= t) /\ (n < td => r <= t)
  BY <1>6, <1>7
<1>9. QED
  BY <1>2, <1>7, <1>8 DEF td

LEMMA BandsFit == IInv => BandFitsScore
<1> SUFFICES ASSUME IInv
             PROVE  BandFitsScore
  OBVIOUS
<1>1. Scored \in Histories(DOMAIN events) /\ IsFiniteSet(DOMAIN events) /\ now \in Int
  BY ScoredThenAndNow, RowsAreScored DEF IInv, TypeOK
<1> DEFINE x == composite(Scored, now)
<1>2. PICK n \in Nat, d \in Nat \ {0} : x = Over(n, d)
  <2>1. PICK m \in Nat, e \in Nat \ {0}, k \in Nat :
           /\ quality_component(Scored) = Over(m, e)
           /\ k = 2 * breadth_component(Scored) + 2 * recency_component(Scored, now)
           /\ x = Over(6 * m + e * k, 10 * e)
           /\ DOMAIN events = {} => m = 0 /\ e = 1 /\ k = 0
    BY <1>1, CompositeIs, Zenon
  <2>2. 6 * m + e * k \in Nat /\ 10 * e \in Nat \ {0}
    BY <2>1
  <2>3. QED
    BY <2>1, <2>2, Zenon
<1> HIDE DEF x
<1> DEFINE b == band_for(x)
           s == Rounded(x)
<1>3. /\ b \in Band /\ n >= Threshold[b] * d
      /\ \A c \in Band : n >= Threshold[c] * d => Threshold[c] <= Threshold[b]
  BY <1>2, BandIs
<1>4. \A c \in Band : Threshold[c] \in Nat
  BY ThresholdsAre DEF Band
<1>5. s \in Int /\ s >= Threshold[b]
  BY <1>2, <1>3, <1>4, RoundedAt
<1> HIDE DEF b, s
<1>6. ASSUME NEW c \in Band, Threshold[c] > Threshold[b]
      PROVE  s < Threshold[c]
                \/ (s = Threshold[c] /\ ~AtLeast(x, Over(Threshold[c], 1)))
  <2> DEFINE t == Threshold[c]
  <2>1. t \in Nat /\ Threshold[b] \in Nat /\ t * d \in Nat
    BY <1>3, <1>4
  <2>2. ~(n >= t * d)
    BY <1>3, <1>6, <2>1
  <2>3. n < t * d
    BY <2>1, <2>2
  <2>4. s <= t
    <3> HIDE DEF t
    <3>1. QED
      BY <1>2, <2>1, <2>3, RoundedAt DEF s
  <2>5. ~AtLeast(x, Over(t, 1))
    <3> HIDE DEF t
    <3>1. AtLeast(x, Over(t, 1)) <=> n * 1 >= t * d
      BY <1>2 DEF AtLeast, Over
    <3>2. QED
      BY <2>2, <3>1
  <2>6. QED
    BY <1>5, <2>1, <2>4, <2>5
<1>7. /\ score_student(Scored, now).score = s
      /\ score_student(Scored, now).band = b
  BY DEF score_student, x, b, s
<1>8. QED
  BY <1>5, <1>6, <1>7 DEF BandFitsScore, x

\* A score is shown under the band it calls for.
THEOREM BandIsFair == Spec => []BandFitsScore
<1>1. QED
  BY Invariance, BandsFit, PTL
-----------------------------------------------------------------------------
\* Bounds

\* What scoring.py clamps to [0, 1], the three components and the composite,
\* is within it before it is clamped: the clamps, which the model leaves out,
\* never hide a score that is out of range.
NothingToClamp ==
    LET inUnit(x) == 0 <= x.num /\ x.num <= One * x.den
    IN  /\ inUnit(quality_component(Scored))
        /\ inUnit(Over(breadth_component(Scored), 1))
        /\ inUnit(Over(recency_component(Scored, now), 1))
        /\ inUnit(composite(Scored, now))

LEMMA QualityFits ==
    ASSUME NEW I, IsFiniteSet(I), NEW E \in Histories(I)
    PROVE  quality_component(E).num <= One * quality_component(E).den
<1>1. CASE I = {}
  BY <1>1, QualityIs DEF Over, One
<1>2. CASE I # {}
  <2>1. quality_component(E) = Over(Total(Worths(E), I), Total(Weights(E), I))
    BY <1>2, QualityIs
  <2>2. ASSUME NEW i \in I
        PROVE  /\ Worths(E)[i] \in Int /\ Weights(E)[i] \in Int
               /\ Worths(E)[i] <= One * Weights(E)[i]
    <3> DEFINE w == EVENT_WEIGHTS[E[i].type]
               s == E[i].score
    <3>1. w \in Nat /\ s \in Nat /\ Worths(E)[i] = w * s /\ Weights(E)[i] = w
      BY RowsWeigh
    <3>2. s <= 10000
      <4>1. E[i] \in ScoredRow
        BY DEF Histories
      <4>2. E[i].score \in 0 .. One
        BY <4>1 DEF ScoredRow
      <4>3. E[i].score <= One
        BY <4>2
      <4>4. One = 10000
        BY DEF One
      <4>5. QED
        BY <4>3, <4>4
    <3> HIDE DEF w, s
    <3>3. w * s <= w * 10000 /\ w * s \in Int
      BY <3>1, <3>2, TimesGrows
    <3>4. QED
      BY <3>1, <3>3 DEF One
  <2>3. One \in Nat
    BY DEF One
  <2>4. Total(Worths(E), I) <= One * Total(Weights(E), I)
    <3> HIDE DEF One
    <3>1. QED
      BY <2>2, <2>3, TotalAtMost
  <2>5. QED
    BY <2>1, <2>4 DEF Over
<1>3. QED
  BY <1>1, <1>2

LEMMA BreadthFits ==
    ASSUME NEW E
    PROVE  breadth_component(E) <= One
<1> DEFINE H == HIGH_VALUE_TYPES
           T == TypesOf(E) \cap H
           t == Cardinality(T)
           n == Cardinality(H)
<1>1. IsFiniteSet(H) /\ n \in Nat \ {0}
  BY HighTypes
<1>2. T \subseteq H
  OBVIOUS
<1>3. breadth_component(E) = (One * t) \div n
  BY DEF breadth_component, TypesOf
<1> HIDE DEF H, T
<1>4. t \in Nat /\ t <= n
  BY <1>1, <1>2, FS_CardinalityType, FS_Subset
<1> HIDE DEF t, n
<1>5. One * t <= One * n /\ One * t \in Int
  BY <1>1, <1>4 DEF One
<1> DEFINE a == One * t
           b == One * n
<1>6. a \in Int /\ b \in Int /\ a <= b /\ b \div n = One
  <2>1. One * n = n * One /\ One \in Nat
    BY <1>1 DEF One
  <2>2. One * n \in Int
    BY <1>1 DEF One
  <2>3. (One * n) \div n = One
    <3> DEFINE q == b \div n
    <3>1. b \in Int /\ b = n * One
      BY <2>1, <2>2
    <3>2. n * One <= b /\ ~(n * (One + 1) <= b)
      BY <1>1, <2>1, <3>1
    <3> HIDE DEF b
    <3>3. q \in Int /\ (n * One <= b <=> One <= q) /\ (n * (One + 1) <= b <=> One + 1 <= q)
      BY <1>1, <2>1, <3>1, LargestQuotient
    <3> HIDE DEF q
    <3>4. q = One
      BY <2>1, <3>2, <3>3
    <3>5. QED
      BY <3>4 DEF q, b
  <2>4. QED
    BY <1>5, <2>2, <2>3
<1> HIDE DEF a, b
<1>7. a \div n <= b \div n
  BY <1>1, <1>6, QuotientGrows
<1>8. QED
  BY <1>3, <1>6, <1>7 DEF a

LEMMA RecencyFits ==
    ASSUME NEW I, IsFiniteSet(I), NEW E \in Histories(I), NEW t \in Int
    PROVE  recency_component(E, t) <= One
<1>1. CASE I = {}
  BY <1>1 DEF recency_component, Histories, One
<1>2. CASE I # {}
  <2>1. PICK last \in TimesOf(E) :
           /\ \A x \in TimesOf(E) : x \in Int /\ last >= x
           /\ recency_component(E, t) = Decay[AgeAfter(t - last)]
    BY <1>2, RecencyIs
  <2>2. AgeAfter(t - last) \in 0 .. MaxAge
    BY <2>1, AgesGrow
  <2>3. Decay[AgeAfter(t - last)] \in 0 .. One
    BY <2>2, DecayAssumption
  <2>4. QED
    BY <2>1, <2>3
<1>3. QED
  BY <1>1, <1>2

\* The composite of components that are in [0, 1] is.
LEMMA WeightedFits ==
    ASSUME NEW n \in Nat, NEW d \in Nat \ {0}, NEW b \in Nat, NEW r \in Nat,
           n <= One * d, b <= One, r <= One
    PROVE  /\ 6 * n + d * (2 * b + 2 * r) \in Nat
           /\ 6 * n + d * (2 * b + 2 * r) <= One * (10 * d)
<1> DEFINE k == 2 * b + 2 * r
<1>1. k \in Nat /\ k <= 40000
  BY DEF One
<1> HIDE DEF k
<1>2. d * k <= d * 40000 /\ d * k \in Nat
  BY <1>1, TimesGrows
<1>3. 6 * n + d * k \in Nat /\ 6 * n + d * k <= 10000 * (10 * d)
  BY <1>2 DEF One
<1>4. QED
  BY <1>3 DEF k, One

LEMMA NothingClamped == IInv => NothingToClamp
<1> SUFFICES ASSUME IInv
             PROVE  NothingToClamp
  OBVIOUS
<1> DEFINE E == Scored
           I == DOMAIN events
           n == quality_component(E).num
           d == quality_component(E).den
           b == breadth_component(E)
           r == recency_component(E, now)
<1>1. E \in Histories(I) /\ IsFiniteSet(I) /\ now \in Int
  BY ScoredThenAndNow, RowsAreScored DEF IInv, TypeOK
<1>2. n \in Nat /\ d \in Nat \ {0} /\ n <= One * d
  <2> HIDE DEF E, I
  <2>1. QED
    BY <1>1, QualityIs, QualityFits
<1>3. b \in Nat /\ b <= One
  <2> HIDE DEF E
  <2>1. QED
    BY BreadthGrows, BreadthFits
<1>4. r \in Nat /\ r <= One
  <2> HIDE DEF E, I
  <2>1. QED
    BY <1>1, RecencyMoves, RecencyFits
<1>5. composite(E, now) = Over(6 * n + d * (2 * b + 2 * r), 10 * d)
  BY DEF composite, QUALITY_WEIGHT, BREADTH_WEIGHT, RECENCY_WEIGHT
<1> HIDE DEF E, n, d, b, r
<1>6. /\ 6 * n + d * (2 * b + 2 * r) \in Nat
      /\ 6 * n + d * (2 * b + 2 * r) <= One * (10 * d)
  BY <1>2, <1>3, <1>4, WeightedFits
<1>7. /\ 0 <= n /\ n <= One * d /\ 0 <= b /\ b <= One * 1 /\ 0 <= r /\ r <= One * 1
  BY <1>2, <1>3, <1>4 DEF One
<1>8. /\ 0 <= composite(E, now).num
      /\ composite(E, now).num <= One * composite(E, now).den
  <2> DEFINE x == 6 * n + d * (2 * b + 2 * r)
  <2>1. x \in Nat /\ x <= One * (10 * d)
    BY <1>6
  <2> HIDE DEF x
  <2>2. 0 <= x
    BY <2>1
  <2>3. composite(E, now).num = x /\ composite(E, now).den = 10 * d
    BY <1>5 DEF x, Over
  <2>4. QED
    BY <2>1, <2>2, <2>3
<1>9. QED
  BY <1>7, <1>8 DEF NothingToClamp, E, n, d, b, r, Over

\* The clamps of the scorer never act: whatever the history, the components
\* and the composite are in [0, 1] before they are clamped.
THEOREM ClampsAreIdle == Spec => []NothingToClamp
<1>1. QED
  BY Invariance, NothingClamped, PTL
=============================================================================
