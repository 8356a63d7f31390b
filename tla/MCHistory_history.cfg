\* Two rows, any mix of zones, on either database.
CONSTANTS
    Offsets <- EastAndUtc
    Naive = Naive
    NoTime = NoTime
    DayLength = 2
    Types = {"page_view", "quiz_attempt", "assignment_submit"}
    Scores = {0, 5000, 9166, 10000}
    Walls = {0, 1, 3}
    Windows = {1, 2}
    MaxTime = 4
    MaxPosts = 2
    MaxAge = 6
    Decay <- HalfLife
SPECIFICATION Spec
INVARIANTS
    ReadsConfirmAnswers
    BandFitsScore
    TrendCountsWhatIsListed
PROPERTIES
    GoodEventNeverHurts
    TimeNeverHelps
    TrendOnlyAges
\* The clock and the posts are bounded.
CHECK_DEADLOCK FALSE
