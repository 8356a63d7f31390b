\* summary and student_score between commits.
CONSTANTS
    StudentPks = {1, 2}
    SessionPks = {1, 2}
    EventPks = {1, 2}
    Scores <- TwoScores
    MaxLimit = 3
SPECIFICATION Spec
INVARIANTS
    TotalsOfTheRequest
    MeanCoversTotal
    ScoreCountsFit
    RankingFits
