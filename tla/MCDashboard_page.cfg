\* A page of two loads and a later call, with a restart.
CONSTANTS
    Replicas = 1
    Logins <- MCCalls
    Users = {demo}
    Configured = FALSE
    Second = 1
    Life = 1
    Window = 1
    Limit = 2
    MaxSkew = 0
    MaxTime = 2
    MaxStarts = 2
    NoToken = NoToken
    NoUser = NoUser
    Pages = {g1}
    Loads = {a, b}
    Later = {w}
SPECIFICATION FairSpec
INVARIANTS
    PillTellsTheTruth
    PagesWithinLimit
PROPERTIES
    PageSettles
\* A user may stop asking, and the clock stops at MaxTime.
CHECK_DEADLOCK FALSE
