\* AUDIT.md, B8: duplicates return 409.
CONSTANTS
    Requests = {r1, r2}
    Processes = {p1}
    StudentIds = {s1, s2}
    Emails = {e1, e2}
    CallerRoles = {"analyst"}
    MaxPk = 2
    NoRequest = NoRequest
SPECIFICATION Spec
INVARIANT DuplicateIs409
