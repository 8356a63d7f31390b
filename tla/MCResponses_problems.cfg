\* Two requests, which may share a supplied id, of two users.
CONSTANTS
    Requests = {r1, r2}
    Supplied = {i1}
    Users = {u1, u2}
    NoId = NoId
    NoUser = NoUser
SYMMETRY Symmetry
SPECIFICATION Spec
INVARIANT
    ErrorsAreProblems
