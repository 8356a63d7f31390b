\* Three requests, which may share a supplied id, of two users.
CONSTANTS
    Requests = {r1, r2, r3}
    Supplied = {i1}
    Users = {u1, u2}
    NoId = NoId
    NoUser = NoUser
SYMMETRY Symmetry
SPECIFICATION Spec
INVARIANTS
    ResponsesAreTraceable
    LinesNameTheCaller
    AnswerAndLogAgree
