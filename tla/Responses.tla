----------------------------- MODULE Responses -----------------------------
(***************************************************************************)
(* One response and its log lines per request: the middleware stack that    *)
(* app/main.py builds, the error handlers of app/adapters/api/errors.py,    *)
(* and the identity that get_current_user and issue_token leave.  From the  *)
(* outside in:                                                              *)
(*   the catch-all handler, RequestContextMiddleware, SecurityHeaders-      *)
(*   Middleware, CORS, the rate limiter when it is on, the other handlers,  *)
(*   the route and, after its response, the end of its session scope.       *)
(* The requests of a process interleave.  Each runs in a task with its own  *)
(* copy of the log context, taken where the task was made: a request that   *)
(* was pipelined is made in the task of the one before it.  The limiter     *)
(* runs what is inside it in a second task, whose bindings stay there.      *)
(* What a route does is left out, and so are the buckets of the limiter.    *)
(***************************************************************************)
EXTENDS FiniteSets, Integers

CONSTANTS Requests,  \* the requests
          Supplied,  \* plausible values of X-Request-ID clients send
          Users,     \* whom tokens name
          NoId,      \* no X-Request-ID, or one of an implausible length
          NoUser     \* nobody

\* uuid4 gives an id nobody else has.
Minted(r) == <<"uuid", r>>
Ids == Supplied \cup {Minted(r) : r \in Requests}

ASSUME ResponseAssumption == NoId \notin Ids /\ NoUser \notin Users

VARIABLES limiter,  \* settings.rate_limit_enabled
          pc,       \* pc[r]: how far r is
          ctx,      \* ctx[r]: what the log context of r's task binds
          state,    \* state[r]: scope["state"]
          sent,     \* sent[r]: the response that left, as a set of at most one
          log,      \* log[r]: the lines logged for r
          logins    \* the requests that have been given a token

vars == <<limiter, pc, ctx, state, sent, log, logins>>

Nothing == [id |-> NoId, user |-> NoUser]

At(r, places) == pc[r] \in places
Go(r, place) == pc' = [pc EXCEPT ![r] = place]

\* A line carries the context it is logged in, but for a user it names.
Log(r, what, user, status) ==
    log' = [log EXCEPT ![r] = @ \cup
               {[what |-> what, id |-> ctx[r].id, user |-> user, status |-> status]}]

-----------------------------------------------------------------------------
\* Responses

Plain(code) == [status |-> code, header |-> NoId, body |-> NoId, secured |-> FALSE]

\* Fault: the header is left to the middleware.
problem_response_bare(r, code) ==
    [Plain(code) EXCEPT !.body = state[r].id]

problem_response(r, code) ==
    [Plain(code) EXCEPT !.body = state[r].id, !.header = state[r].id]

\* The send wrappers of the two middlewares of this code.
Send(r, response) ==
    sent' = [sent EXCEPT ![r] =
                {[response EXCEPT !.header = state[r].id, !.secured = TRUE]}]

\* Fault: the context is not cleared.
BoundOver(inherited, id) == [inherited EXCEPT !.id = id]

Bound(inherited, id) == [Nothing EXCEPT !.id = id]

\* RequestContextMiddleware, up to its call of the app.
Arrive(r) ==
    /\ At(r, {"idle"})
    /\ \E header \in Supplied \cup {NoId},
          inherited \in {Nothing} \cup {ctx[q] : q \in Requests \ {r}} :
          LET request_id == IF header = NoId THEN Minted(r) ELSE header
          IN  /\ ctx' = [ctx EXCEPT ![r] = Bound(inherited, request_id)]
              /\ state' = [state EXCEPT ![r] =
                              [id |-> request_id, user |-> NoUser]]
    /\ Go(r, "routed") /\ UNCHANGED <<limiter, sent, log, logins>>

\* CORS answers a preflight itself; the limiter answers in its own format,
\* since it does not call a handler that is asynchronous.
AnsweredOnTheWay(r) ==
    /\ At(r, {"routed"})
    /\ \E code \in {200, 400} \cup (IF limiter THEN {429} ELSE {}) :
          Send(r, Plain(code))
    /\ Go(r, "answered") /\ UNCHANGED <<limiter, ctx, state, log, logins>>

\* get_current_user with a good token.
Authenticate(r) ==
    /\ At(r, {"routed"})
    /\ \E u \in Users :
          /\ state' = [state EXCEPT ![r].user = u]
          /\ ctx' = IF limiter THEN ctx ELSE [ctx EXCEPT ![r].user = u]
    /\ Go(r, "authorized") /\ UNCHANGED <<limiter, sent, log, logins>>

\* issue_token with a good password: the name goes to the state alone.
IssueToken(r) ==
    /\ At(r, {"routed"})
    /\ \E u \in Users : state' = [state EXCEPT ![r].user = u]
    /\ logins' = logins \cup {r}
    /\ Go(r, "issued") /\ UNCHANGED <<limiter, ctx, sent, log>>

\* A domain error, a validation error or an HTTPException, and its handler;
\* one after the response is an exception like any other.
Problem(r) ==
    /\ At(r, {"routed", "authorized"})
    /\ \E code \in IF pc[r] = "routed" THEN {401, 404, 405, 422, 429}
                   ELSE {403, 404, 409, 422} :
          Send(r, problem_response(r, code))
    /\ Go(r, "answered") /\ UNCHANGED <<limiter, ctx, state, log, logins>>

\* The route returns; its scopes are left after the response.  A file, which
\* anybody may have, answers a bad Range header itself.
Succeed(r) ==
    /\ At(r, {"routed", "authorized", "issued"})
    /\ \E code \in {200} \cup (IF pc[r] = "routed" THEN {400, 416} ELSE {}) :
          Send(r, Plain(code))
    /\ Go(r, "started") /\ UNCHANGED <<limiter, ctx, state, log, logins>>

LeaveScopes(r) ==
    At(r, {"started"}) /\ Go(r, "answered")
    /\ UNCHANGED <<limiter, ctx, state, sent, log, logins>>

RequestCompleted(r) ==
    /\ At(r, {"answered"})
    /\ Log(r, "request_completed", state[r].user,
           IF sent[r] = {} THEN 500 ELSE (CHOOSE x \in sent[r] : TRUE).status)
    /\ Go(r, "ended") /\ UNCHANGED <<limiter, ctx, state, sent, logins>>

\* Fault: the exception is not raised again.
RequestFailedQuietly(r) ==
    /\ At(r, {"routed", "authorized", "issued", "started"})
    /\ Log(r, "request_failed", ctx[r].user, 0)
    /\ Go(r, "answered") /\ UNCHANGED <<limiter, ctx, state, sent, logins>>

\* Any other exception, the commit's too, passes RequestContextMiddleware.
RequestFailed(r) ==
    /\ At(r, {"routed", "authorized", "issued", "started"})
    /\ Log(r, "request_failed", ctx[r].user, 0)
    /\ Go(r, "raised") /\ UNCHANGED <<limiter, ctx, state, sent, logins>>

\* The catch-all handler is called outside all the others; its response goes
\* straight to the server, unless one has started.
Unhandled(r) ==
    /\ At(r, {"raised"})
    /\ Log(r, "unhandled_exception", ctx[r].user, 0)
    /\ sent' = [sent EXCEPT ![r] = IF @ # {} THEN @
                                  ELSE {problem_response(r, 500)}]
    /\ Go(r, "ended") /\ UNCHANGED <<limiter, ctx, state, logins>>

-----------------------------------------------------------------------------
Init ==
    /\ limiter \in BOOLEAN
    /\ pc = [r \in Requests |-> "idle"]
    /\ ctx = [r \in Requests |-> Nothing]
    /\ state = [r \in Requests |-> Nothing]
    /\ sent = [r \in Requests |-> {}]
    /\ log = [r \in Requests |-> {}]
    /\ logins = {}

Done == (\A r \in Requests : At(r, {"ended"})) /\ UNCHANGED vars

Next ==
    \/ \E r \in Requests :
          \/ Arrive(r) \/ AnsweredOnTheWay(r) \/ Authenticate(r)
          \/ IssueToken(r) \/ Problem(r) \/ Succeed(r) \/ LeaveScopes(r)
          \/ RequestCompleted(r) \/ RequestFailed(r) \/ Unhandled(r)
    \/ Done

Spec == Init /\ [][Next]_vars
-----------------------------------------------------------------------------
\* Properties

LinesOf(r, kinds) == {l \in log[r] : l.what \in kinds}

\* Whatever layer a response comes from, its X-Request-ID is the id under
\* which every line of the request is logged, and so is the request_id of a
\* problem document.
ResponsesAreTraceable ==
    \A r \in Requests :
        /\ \A l \in log[r] : l.id = state[r].id
        /\ \A x \in sent[r] : /\ x.header = state[r].id
                              /\ x.body # NoId => x.body = state[r].id

\* "Errors are always application/problem+json (RFC 9457) and always carry the
\* request_id" (app/main.py); "Nothing may escape as an unformatted response"
\* (app/adapters/api/errors.py).
ErrorsAreProblems ==
    \A r \in Requests : \A x \in sent[r] :
        x.status >= 400 => x.body = state[r].id

\* No line names the user of another request, even when the task inherited
\* that one's context.  The access line names the caller; a failure names
\* the caller whose token was checked, but not behind the limiter, whose task
\* keeps the binding, and nobody in a login, which binds nothing.
LinesNameTheCaller ==
    \A r \in Requests : \A l \in log[r] :
        l.user = IF l.what # "request_completed" /\ (limiter \/ r \in logins)
                 THEN NoUser ELSE state[r].user

\* A request that has ended was answered once and has one access line: the
\* status that left, or a failure, which one unhandled_exception follows.
\* Every response but the catch-all's 500 has the security headers.
AnswerAndLogAgree ==
    \A r \in Requests : At(r, {"ended"}) =>
        LET access == LinesOf(r, {"request_completed", "request_failed"})
            failed == LinesOf(r, {"request_failed"}) # {}
        IN  /\ Cardinality(sent[r]) = 1 /\ Cardinality(access) = 1
            /\ failed <=> LinesOf(r, {"unhandled_exception"}) # {}
            /\ \A x \in sent[r] :
                  /\ ~failed => \A l \in access : l.status = x.status
                  /\ x.secured \/ (failed /\ x.status = 500)
=============================================================================
