\* Three requests, two replicas, either database.
CONSTANTS
    Requests = {r1, r2, r3}
    Processes = {p1, p2}
    StudentIds = {s1, s2}
    Emails = {e1, e2}
    CallerRoles = {"viewer", "analyst"}
    MaxPk = 3
    NoRequest = NoRequest
SYMMETRY Symmetry
SPECIFICATION Spec
INVARIANTS
    UniqueKeys
    ReferentialIntegrity
    RowsAreAcknowledged
    OneWinner
    IInv
    MeantParent
PROPERTY ImplementsRegistry
