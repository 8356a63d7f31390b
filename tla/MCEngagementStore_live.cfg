\* Liveness on either database: on PostgreSQL an INSERT has no timeout.  No
\* symmetry: it is not sound for liveness.
CONSTANTS
    Requests = {r1, r2, r3}
    Processes = {p1}
    StudentIds = {s1}
    Emails = {e1}
    CallerRoles = {"analyst"}
    MaxPk = 3
    NoRequest = NoRequest
SPECIFICATION FairSpec
PROPERTIES
    EveryRequestEnds
    AcknowledgedSettles
