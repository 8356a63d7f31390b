\* Two replicas with a common key, whose clocks may differ by half a second.
CONSTANTS
    Replicas = 2
    Logins = {l1, l2}
    Users = {demo}
    Configured = TRUE
    Second = 2
    Life = 2
    Window = 2
    Limit = 1
    MaxSkew = 1
    MaxTime = 6
    MaxStarts = 3
    NoToken = NoToken
    NoUser = NoUser
SPECIFICATION Spec
SYMMETRY Symmetry
INVARIANTS
    AcceptedInLife
    RefusedOnlyWhenDue
    WindowHolds
    DeactivationCatchesUp
\* Everything ends when the clock stops.
CHECK_DEADLOCK FALSE
