-------------------------- MODULE ResponsesProofs --------------------------
(***************************************************************************)
(* Proofs about Responses, for any number of requests, supplied ids and     *)
(* users.                                                                   *)
(***************************************************************************)
EXTENDS Responses, FiniteSetTheorems, TLAPS

Places == {"idle", "routed", "authorized", "issued", "started", "answered",
           "raised", "ended"}

Identity == [id : Ids \cup {NoId}, user : Users \cup {NoUser}]

Response == [status : Int, header : Ids \cup {NoId}, body : Ids \cup {NoId},
             secured : BOOLEAN]

Line == [what : {"request_completed", "request_failed", "unhandled_exception"},
         id : Ids \cup {NoId}, user : Users \cup {NoUser}, status : Int]

TypeOK ==
    /\ limiter \in BOOLEAN
    /\ pc \in [Requests -> Places]
    /\ ctx \in [Requests -> Identity]
    /\ state \in [Requests -> Identity]
    /\ sent \in [Requests -> SUBSET Response]
    /\ log \in [Requests -> SUBSET Line]
    /\ logins \subseteq Requests

\* A failure of such a request names nobody.
Nameless(r) == limiter \/ r \in logins

\* The context a request logs in.
Context(r) ==
    /\ ctx[r].id = state[r].id
    /\ ctx[r].user = IF Nameless(r) THEN NoUser ELSE state[r].user
    /\ pc[r] # "idle" => state[r].id # NoId
    /\ At(r, {"idle", "routed"}) => r \notin logins /\ state[r].user = NoUser

\* A response that has the id of its request.
Traceable(r, x) ==
    /\ x.header = state[r].id
    /\ x.body # NoId => x.body = state[r].id

\* One response that passed both middlewares.
Secured(r) == \E x \in Response : sent[r] = {x} /\ Traceable(r, x) /\ x.secured

Entry(r, what, user, status) ==
    [what |-> what, id |-> state[r].id, user |-> user, status |-> status]

Completed(r, status) == Entry(r, "request_completed", state[r].user, status)

Failure(r, what) ==
    Entry(r, what, IF Nameless(r) THEN NoUser ELSE state[r].user, 0)

\* What has left and been logged, by how far the request is.
Story(r) ==
    /\ At(r, {"idle", "routed", "authorized", "issued"}) => sent[r] = {} /\ log[r] = {}
    /\ At(r, {"started", "answered"}) => Secured(r) /\ log[r] = {}
    /\ At(r, {"raised"}) =>
          /\ sent[r] = {} \/ Secured(r)
          /\ log[r] = {Failure(r, "request_failed")}
    /\ At(r, {"ended"}) =>
          \/ \E x \in Response :
                /\ sent[r] = {x} /\ Traceable(r, x) /\ x.secured
                /\ log[r] = {Completed(r, x.status)}
          \/ \E x \in Response :
                /\ sent[r] = {x} /\ Traceable(r, x)
                /\ x.secured \/ x.status = 500
                /\ log[r] = {Failure(r, "request_failed"),
                             Failure(r, "unhandled_exception")}

IInv == TypeOK /\ \A r \in Requests : Context(r) /\ Story(r)
-----------------------------------------------------------------------------
\* The ids are ids, and the identity of nobody is an identity.
LEMMA IdFacts ==
    /\ NoId \notin Ids
    /\ \A r \in Requests : Minted(r) \in Ids
    /\ Supplied \subseteq Ids
    /\ Nothing \in Identity
BY ResponseAssumption DEF Ids, Identity, Nothing

\* The problem document of a request has its id in the header and the body.
LEMMA ProblemFields ==
    ASSUME TypeOK, NEW r \in Requests, NEW code \in Int
    PROVE  LET x == problem_response(r, code)
           IN  /\ x \in Response /\ x.status = code
               /\ x.header = state[r].id /\ x.body = state[r].id
<1>1. Plain(code) \in Response /\ Plain(code).status = code
  BY DEF Plain, Response
<1>2. state[r].id \in Ids \cup {NoId}
  BY DEF TypeOK, Identity
<1>3. QED
  BY <1>1, <1>2 DEF problem_response, Response

\* A request that a step does not touch keeps its part of the invariant.
LEMMA Untouched ==
    ASSUME NEW q \in Requests, Context(q), Story(q), limiter' = limiter,
           pc'[q] = pc[q], ctx'[q] = ctx[q], state'[q] = state[q],
           sent'[q] = sent[q], log'[q] = log[q],
           q \in logins' <=> q \in logins
    PROVE  Context(q)' /\ Story(q)'
BY DEF Context, Story, At, Secured, Traceable, Completed, Failure, Entry,
       Nameless

\* A step of one request is all that happens to the others.
LEMMA OneAtATime ==
    ASSUME TypeOK', NEW r \in Requests, Context(r)', Story(r)',
           \A q \in Requests : Context(q) /\ Story(q),
           limiter' = limiter,
           \A q \in Requests \ {r} :
               /\ pc'[q] = pc[q] /\ ctx'[q] = ctx[q] /\ state'[q] = state[q]
               /\ sent'[q] = sent[q] /\ log'[q] = log[q]
               /\ q \in logins' <=> q \in logins
    PROVE  IInv'
<1>1. ASSUME NEW q \in Requests \ {r}
      PROVE  Context(q)' /\ Story(q)'
  BY <1>1, Untouched
<1>2. QED
  BY <1>1 DEF IInv

LEMMA InvInit == Init => IInv
<1> SUFFICES ASSUME Init
             PROVE  IInv
  OBVIOUS
<1>1. TypeOK
  BY IdFacts DEF Init, TypeOK, Places
<1>2. ASSUME NEW r \in Requests
      PROVE  Context(r) /\ Story(r)
  BY DEF Init, Context, Story, At, Nothing, Nameless
<1>3. QED
  BY <1>1, <1>2 DEF IInv

\* The context of a task may be inherited, but it is cleared before the id of
\* the new request is bound.
LEMMA ArriveKeeps ==
    ASSUME IInv, NEW r \in Requests, Arrive(r)
    PROVE  IInv'
<1>1. PICK id \in Ids :
         /\ \E inherited : ctx' = [ctx EXCEPT ![r] = Bound(inherited, id)]
         /\ state' = [state EXCEPT ![r] = [id |-> id, user |-> NoUser]]
  BY IdFacts DEF Arrive
<1>2. ctx' = [ctx EXCEPT ![r] = [id |-> id, user |-> NoUser]]
  BY <1>1 DEF Bound, Nothing
<1>3. [id |-> id, user |-> NoUser] \in Identity
  BY DEF Identity
<1>4. TypeOK'
  BY <1>1, <1>2, <1>3 DEF IInv, TypeOK, Arrive, Go, Places
<1>5. Context(r)' /\ Story(r)'
  BY <1>1, <1>2, IdFacts
     DEF IInv, TypeOK, Context, Story, At, Arrive, Go, Nameless
<1>6. QED
  BY <1>1, <1>2, <1>4, <1>5, OneAtATime DEF IInv, TypeOK, Arrive, Go

\* Every response that leaves through the middlewares has the id of its
\* request and the security headers.
LEMMA SendKeeps ==
    ASSUME IInv, NEW r \in Requests, At(r, {"routed", "authorized", "issued"}),
           NEW x \in Response, Send(r, x),
           x.body \in {NoId, state[r].id},
           NEW place \in {"started", "answered"}, Go(r, place),
           UNCHANGED <<limiter, ctx, state, log, logins>>
    PROVE  IInv'
<1> DEFINE y == [x EXCEPT !.header = state[r].id, !.secured = TRUE]
<1>1. y \in Response /\ y.header = state[r].id /\ y.secured
      /\ y.body = x.body /\ y.status = x.status
  BY DEF Response, IInv, TypeOK, Identity
<1>2. sent' = [sent EXCEPT ![r] = {y}]
  BY DEF Send
<1>3. TypeOK'
  BY <1>1, <1>2 DEF IInv, TypeOK, Go, Places
<1>4. sent'[r] = {y} /\ pc'[r] = place
  BY <1>2 DEF IInv, TypeOK, Go
<1>5. Traceable(r, y)'
  BY <1>1 DEF Traceable
<1>6. Secured(r)'
  BY <1>1, <1>4, <1>5 DEF Secured
<1>7. Context(r)' /\ log'[r] = {}
  BY <1>4 DEF IInv, Context, Story, At, Nameless
<1>8. Context(r)' /\ Story(r)'
  BY <1>4, <1>6, <1>7 DEF Story, At
<1>9. QED
  BY <1>2, <1>3, <1>8, OneAtATime DEF IInv, TypeOK, Go

\* The user is bound in the state of the request and, without the limiter's
\* second task, in the context that its lines are logged in.
LEMMA AuthenticateKeeps ==
    ASSUME IInv, NEW r \in Requests, Authenticate(r)
    PROVE  IInv'
<1>1. PICK u \in Users :
         /\ state' = [state EXCEPT ![r].user = u]
         /\ ctx' = IF limiter THEN ctx ELSE [ctx EXCEPT ![r].user = u]
  BY DEF Authenticate
<1>2. TypeOK'
  BY <1>1 DEF IInv, TypeOK, Authenticate, Go, Places, Identity
<1>3. Context(r)' /\ Story(r)'
  BY <1>1
     DEF IInv, TypeOK, Identity, Context, Story, At, Authenticate, Go, Nameless
<1>4. QED
  BY <1>1, <1>2, <1>3, OneAtATime DEF IInv, TypeOK, Authenticate, Go

\* A login leaves the context without a user, as it found it.
LEMMA IssueTokenKeeps ==
    ASSUME IInv, NEW r \in Requests, IssueToken(r)
    PROVE  IInv'
<1>1. PICK u \in Users : state' = [state EXCEPT ![r].user = u]
  BY DEF IssueToken
<1>2. TypeOK'
  BY <1>1 DEF IInv, TypeOK, IssueToken, Go, Places, Identity
<1>3. ctx[r].user = NoUser
  BY DEF IInv, Context, IssueToken, At
<1>4. r \in logins' /\ pc'[r] = "issued" /\ ctx' = ctx /\ sent' = sent /\ log' = log
  BY DEF IInv, TypeOK, IssueToken, Go
<1>5. Context(r)' /\ Story(r)'
  BY <1>1, <1>3, <1>4
     DEF IInv, TypeOK, Identity, Context, Story, At, IssueToken, Nameless
<1>6. QED
  BY <1>1, <1>2, <1>5, OneAtATime DEF IInv, TypeOK, IssueToken, Go

\* The access line has the status of the response that left.
LEMMA RequestCompletedKeeps ==
    ASSUME IInv, NEW r \in Requests, RequestCompleted(r)
    PROVE  IInv'
<1>1. PICK x \in Response : sent[r] = {x} /\ Traceable(r, x) /\ x.secured
  BY DEF IInv, Story, RequestCompleted, At, Secured
<1>2. (CHOOSE z \in sent[r] : TRUE) = x
  BY <1>1
<1>3. log' = [log EXCEPT ![r] = {Completed(r, x.status)}]
  BY <1>1, <1>2
     DEF IInv, TypeOK, Story, Context, RequestCompleted, At, Log, Completed, Entry
<1>4. Completed(r, x.status) \in Line
  BY <1>1 DEF IInv, TypeOK, Identity, Line, Response, Completed, Entry
<1>5. TypeOK'
  BY <1>3, <1>4 DEF IInv, TypeOK, RequestCompleted, Go, Places
<1>6. Context(r)' /\ Story(r)'
  BY <1>1, <1>3
     DEF IInv, TypeOK, Context, Story, At, RequestCompleted, Go, Traceable,
         Completed, Entry, Nameless
<1>7. QED
  BY <1>3, <1>5, <1>6, OneAtATime DEF IInv, TypeOK, RequestCompleted, Go

\* A failure is logged under the id of the request before anything else is.
LEMMA RequestFailedKeeps ==
    ASSUME IInv, NEW r \in Requests, RequestFailed(r)
    PROVE  IInv'
<1>1. log' = [log EXCEPT ![r] = {Failure(r, "request_failed")}]
  BY DEF IInv, TypeOK, Story, Context, RequestFailed, At, Log, Failure, Entry
<1>2. Failure(r, "request_failed") \in Line
  BY DEF IInv, TypeOK, Identity, Line, Failure, Entry
<1>3. TypeOK'
  BY <1>1, <1>2 DEF IInv, TypeOK, RequestFailed, Go, Places
<1>4. Context(r)' /\ Story(r)'
  BY <1>1
     DEF IInv, TypeOK, Context, Story, At, RequestFailed, Go, Secured,
         Traceable, Failure, Entry, Nameless
<1>5. QED
  BY <1>1, <1>3, <1>4, OneAtATime DEF IInv, TypeOK, RequestFailed, Go

\* The catch-all handler answers with the id of the request, unless a
\* response, which has it too, left before the exception.
LEMMA UnhandledKeeps ==
    ASSUME IInv, NEW r \in Requests, Unhandled(r)
    PROVE  IInv'
<1>1. log' = [log EXCEPT ![r] = {Failure(r, "request_failed"),
                                 Failure(r, "unhandled_exception")}]
  <2>1. log[r] = {Failure(r, "request_failed")}
    BY DEF IInv, Story, Unhandled, At
  <2>2. [what |-> "unhandled_exception", id |-> ctx[r].id,
         user |-> ctx[r].user, status |-> 0] = Failure(r, "unhandled_exception")
    BY DEF IInv, Context, Failure, Entry
  <2>3. log' = [log EXCEPT ![r] = log[r] \cup {Failure(r, "unhandled_exception")}]
    BY <2>2 DEF Unhandled, Log, IInv, TypeOK
  <2>4. QED
    BY <2>1, <2>3
<1>2. /\ Failure(r, "request_failed") \in Line
      /\ Failure(r, "unhandled_exception") \in Line
  BY DEF IInv, TypeOK, Identity, Line, Failure, Entry
<1>3. PICK x \in Response :
         /\ sent' = [sent EXCEPT ![r] = {x}] /\ Traceable(r, x)
         /\ x.secured \/ x.status = 500
  <2>1. CASE sent[r] = {}
    <3> DEFINE x == problem_response(r, 500)
    <3>1. x \in Response /\ x.header = state[r].id /\ x.body = state[r].id
          /\ x.status = 500
      BY ProblemFields DEF IInv
    <3>2. state[r].id # NoId
      BY DEF IInv, Context, Unhandled, At
    <3>3. Traceable(r, x)
      BY <3>1, <3>2 DEF Traceable
    <3>4. sent' = [sent EXCEPT ![r] = {x}]
      BY <2>1 DEF Unhandled, IInv, TypeOK
    <3>5. QED
      BY <3>1, <3>3, <3>4
  <2>2. CASE sent[r] # {}
    <3>1. Secured(r)
      BY <2>2 DEF IInv, Story, Unhandled, At
    <3>2. PICK x \in Response :
             sent[r] = {x} /\ Traceable(r, x) /\ x.secured
      BY <3>1 DEF Secured
    <3>3. sent' = [sent EXCEPT ![r] = {x}]
      BY <2>2, <3>2 DEF Unhandled, IInv, TypeOK
    <3>4. QED
      BY <3>2, <3>3
  <2>3. QED
    BY <2>1, <2>2
<1>4. TypeOK'
  BY <1>1, <1>2, <1>3 DEF IInv, TypeOK, Unhandled, Go, Places
<1>5. Context(r)' /\ pc'[r] = "ended"
  BY DEF IInv, TypeOK, Context, At, Unhandled, Go, Nameless
<1>6. log'[r] = {Failure(r, "request_failed")', Failure(r, "unhandled_exception")'}
  BY <1>1 DEF IInv, TypeOK, Unhandled, Failure, Entry, Nameless
<1>7. sent'[r] = {x} /\ Traceable(r, x)'
  BY <1>3 DEF IInv, TypeOK, Unhandled, Traceable
<1>8. Context(r)' /\ Story(r)'
  BY <1>3, <1>5, <1>6, <1>7 DEF Story, At
<1>9. QED
  BY <1>1, <1>3, <1>4, <1>8, OneAtATime DEF IInv, TypeOK, Unhandled, Go

\* Every step preserves the invariant.
LEMMA InvStep == IInv /\ [Next]_vars => IInv'
<1> SUFFICES ASSUME IInv, [Next]_vars
             PROVE  IInv'
  OBVIOUS
<1>1. ASSUME NEW r \in Requests, AnsweredOnTheWay(r)
      PROVE  IInv'
  <2>1. PICK code \in {200, 400} \cup (IF limiter THEN {429} ELSE {}) :
           Send(r, Plain(code))
    BY <1>1 DEF AnsweredOnTheWay
  <2>2. Plain(code) \in Response /\ Plain(code).body = NoId
    BY <2>1 DEF Plain, Response
  <2>3. QED
    BY <1>1, <2>1, <2>2, SendKeeps DEF AnsweredOnTheWay, At
<1>2. ASSUME NEW r \in Requests, Problem(r)
      PROVE  IInv'
  <2>1. PICK code \in {401, 403, 404, 405, 409, 422, 429} :
           Send(r, problem_response(r, code))
    BY <1>2 DEF Problem
  <2>2. state[r].id \in Ids
    BY <1>2 DEF IInv, TypeOK, Identity, Context, Problem, At
  <2>3. /\ problem_response(r, code) \in Response
        /\ problem_response(r, code).body = state[r].id
    BY ProblemFields DEF IInv
  <2>4. QED
    BY <1>2, <2>1, <2>2, <2>3, IdFacts, SendKeeps DEF Problem, At
<1>3. ASSUME NEW r \in Requests, Succeed(r)
      PROVE  IInv'
  <2>1. PICK code \in {200, 400, 416} : Send(r, Plain(code))
    BY <1>3 DEF Succeed
  <2>2. Plain(code) \in Response /\ Plain(code).body = NoId
    BY DEF Plain, Response
  <2>3. QED
    BY <1>3, <2>1, <2>2, SendKeeps DEF Succeed
<1>4. ASSUME NEW r \in Requests, LeaveScopes(r)
      PROVE  IInv'
  <2>1. TypeOK'
    BY <1>4 DEF IInv, TypeOK, LeaveScopes, Go, Places
  <2>2. Context(r)' /\ Story(r)'
    BY <1>4
       DEF IInv, TypeOK, Context, Story, At, LeaveScopes, Go, Secured,
           Traceable, Nameless
  <2>3. QED
    BY <1>4, <2>1, <2>2, OneAtATime DEF IInv, TypeOK, LeaveScopes, Go
<1>5. ASSUME UNCHANGED vars
      PROVE  IInv'
  <2>1. TypeOK'
    BY <1>5 DEF IInv, TypeOK, vars
  <2>2. QED
    BY <1>5, <2>1, Untouched DEF IInv, vars
<1>6. QED
  BY <1>1, <1>2, <1>3, <1>4, <1>5, ArriveKeeps, AuthenticateKeeps,
     IssueTokenKeeps, RequestCompletedKeeps, RequestFailedKeeps, UnhandledKeeps
     DEF Next, Done

-----------------------------------------------------------------------------
\* In every reachable state what left and what was logged for a request is
\* what the place it has reached implies.
THEOREM Invariance == Spec => []IInv
<1>1. QED
  BY InvInit, InvStep, PTL DEF Spec

\* The invariant gives the three properties of the runs.
LEMMA InvGivesTrace == IInv => ResponsesAreTraceable
<1> SUFFICES ASSUME IInv, NEW r \in Requests
             PROVE  /\ \A l \in log[r] : l.id = state[r].id
                    /\ \A x \in sent[r] : Traceable(r, x)
  BY DEF ResponsesAreTraceable, Traceable
<1>1. \A what, user, status : Entry(r, what, user, status).id = state[r].id
  BY DEF Entry
<1>2. \A l \in log[r] : l.id = state[r].id
  BY <1>1 DEF IInv, TypeOK, Places, Story, At, Completed, Failure
<1>3. \A x \in sent[r] : Traceable(r, x)
  BY DEF IInv, TypeOK, Places, Story, At, Secured
<1>4. QED
  BY <1>2, <1>3

LEMMA InvGivesCaller == IInv => LinesNameTheCaller
<1> SUFFICES ASSUME IInv, NEW r \in Requests, NEW l \in log[r]
             PROVE  l.user = IF l.what # "request_completed" /\ Nameless(r)
                             THEN NoUser ELSE state[r].user
  BY DEF LinesNameTheCaller, Nameless
<1>1. \/ \E n : l = Completed(r, n)
      \/ l \in {Failure(r, "request_failed"), Failure(r, "unhandled_exception")}
  BY DEF IInv, TypeOK, Places, Story, At
<1>2. QED
  BY <1>1 DEF Completed, Failure, Entry

LEMMA InvGivesAgreement == IInv => AnswerAndLogAgree
<1> SUFFICES ASSUME IInv, NEW r \in Requests, At(r, {"ended"})
             PROVE  LET access == LinesOf(r, {"request_completed", "request_failed"})
                        failed == LinesOf(r, {"request_failed"}) # {}
                    IN  /\ Cardinality(sent[r]) = 1 /\ Cardinality(access) = 1
                        /\ failed <=> LinesOf(r, {"unhandled_exception"}) # {}
                        /\ \A x \in sent[r] :
                              /\ ~failed => \A l \in access : l.status = x.status
                              /\ x.secured \/ (failed /\ x.status = 500)
  BY DEF AnswerAndLogAgree
<1>1. CASE \E x \in Response :
              /\ sent[r] = {x} /\ x.secured
              /\ log[r] = {Completed(r, x.status)}
  <2>1. PICK x \in Response :
              sent[r] = {x} /\ x.secured /\ log[r] = {Completed(r, x.status)}
    BY <1>1
  <2>2. /\ Completed(r, x.status).what = "request_completed"
        /\ Completed(r, x.status).status = x.status
    BY DEF Completed, Entry
  <2>3. /\ LinesOf(r, {"request_completed", "request_failed"})
             = {Completed(r, x.status)}
        /\ LinesOf(r, {"request_failed"}) = {}
        /\ LinesOf(r, {"unhandled_exception"}) = {}
    BY <2>1, <2>2 DEF LinesOf
  <2>4. /\ Cardinality(sent[r]) = 1
        /\ Cardinality({Completed(r, x.status)}) = 1
    BY <2>1, FS_Singleton
  <2>5. QED
    BY <2>1, <2>2, <2>3, <2>4
<1>2. CASE \E x \in Response :
              /\ sent[r] = {x}
              /\ x.secured \/ x.status = 500
              /\ log[r] = {Failure(r, "request_failed"),
                           Failure(r, "unhandled_exception")}
  <2>1. PICK x \in Response :
              /\ sent[r] = {x}
              /\ x.secured \/ x.status = 500
              /\ log[r] = {Failure(r, "request_failed"),
                           Failure(r, "unhandled_exception")}
    BY <1>2
  <2>2. /\ Failure(r, "request_failed").what = "request_failed"
        /\ Failure(r, "unhandled_exception").what = "unhandled_exception"
    BY DEF Failure, Entry
  <2>3. /\ LinesOf(r, {"request_completed", "request_failed"})
             = {Failure(r, "request_failed")}
        /\ LinesOf(r, {"request_failed"}) # {}
        /\ LinesOf(r, {"unhandled_exception"}) # {}
    BY <2>1, <2>2 DEF LinesOf
  <2>4. Cardinality(sent[r]) = 1
    BY <2>1, FS_Singleton
  <2>5. Cardinality({Failure(r, "request_failed")}) = 1
    BY FS_Singleton
  <2>6. QED
    BY <2>1, <2>3, <2>4, <2>5
<1>3. QED
  BY <1>1, <1>2 DEF IInv, Story, At

\* Every response, from whatever layer, and every line of a request carry
\* the id the middleware gave the request; a problem document carries it too.
THEOREM Traceability == Spec => []ResponsesAreTraceable
BY Invariance, InvGivesTrace, PTL

\* The lines of a request name its own caller or nobody, whatever context its
\* task inherited from another request: a failure names nobody in a login and,
\* with the limiter on, in any request.
THEOREM NoForeignNames == Spec => []LinesNameTheCaller
BY Invariance, InvGivesCaller, PTL

\* A request that has ended was answered once and logged once.
THEOREM OneAnswerOneLine == Spec => []AnswerAndLogAgree
BY Invariance, InvGivesAgreement, PTL
=============================================================================
