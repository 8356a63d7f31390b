\* app/application/dto.py:115: an end time is after the start time.
CONSTANTS
    Offsets <- EastAndUtc
    Naive = Naive
    NoTime = NoTime
    DayLength = 2
    Types = {"quiz_attempt"}
    Scores = {5000}
    Walls = {0, 1, 2}
    Windows = {1}
    MaxTime = 1
    MaxPosts = 1
    MaxAge = 6
    Decay <- HalfLife
SPECIFICATION Spec
INVARIANT EndsAfterStart
\* The clock and the posts are bounded.
CHECK_DEADLOCK FALSE
