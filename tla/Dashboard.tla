----------------------------- MODULE Dashboard -----------------------------
(***************************************************************************)
(* Dashboard pages over AccessTokens: a page loads its figures by several   *)
(* calls at once, each of which logs in for itself while the page has no    *)
(* token, and later calls (steps of the tour, the write it demonstrates)    *)
(* use the token the page remembers.                                        *)
(*                                                                          *)
(* A call is a pair of its page and its purpose, and the login it may make  *)
(* has its name.  The demo account exists, is active, and has the password  *)
(* the server hands out.  The role of its token, and so the 403 of a write  *)
(* that carries a good token, are in EngagementStore.                       *)
(***************************************************************************)
EXTENDS AccessTokens

CONSTANTS Pages,   \* page loads, in one tab or several
          Loads,   \* what a page fetches when it is opened
          Later    \* what the user asks of it afterwards

Calls == Pages \X (Loads \cup Later)

ASSUME DashboardAssumption ==
    /\ Logins = Calls /\ Loads \cap Later = {}
    /\ Loads # {} /\ IsFiniteSet(Loads)

VARIABLES page,    \* page[g]: what the page's pill says, or closed
          cache,   \* cache[g]: accessToken, in the page's memory
          call,    \* call[c]: the fetch c is in, or how it ended
          bearer   \* bearer[c]: the token c carries

pageVars == <<page, cache, call, bearer>>
vars == <<tokenVars, pageVars>>

Page(c) == c[1]
LoadsOf(g) == {g} \X Loads

-----------------------------------------------------------------------------
\* How a call ends.  A page is up when all its loads are done (Promise.all),
\* and gives up with the first that fails; the others go on.

Call(c, next) == call' = [call EXCEPT ![c] = next]

\* Fault: with the first that is done.
DoneAny(c) ==
    /\ Call(c, "done")
    /\ page' = [page EXCEPT ![Page(c)] =
                   IF @ = "checking" /\ c \in LoadsOf(Page(c)) THEN "ok" ELSE @]
    /\ UNCHANGED <<cache, bearer>>

Done(c) ==
    /\ Call(c, "done")
    /\ page' = [page EXCEPT ![Page(c)] =
                   IF /\ @ = "checking"
                      /\ \A d \in LoadsOf(Page(c)) \ {c} : call[d] = "done"
                   THEN "ok" ELSE @]
    /\ UNCHANGED <<cache, bearer>>

\* Fault: nobody hears of it.
FailedUnheard(c) ==
    /\ Call(c, "failed")
    /\ UNCHANGED <<page, cache, bearer>>

Failed(c) ==
    /\ Call(c, "failed")
    /\ page' = [page EXCEPT ![Page(c)] = IF @ = "checking" THEN "error" ELSE @]
    /\ UNCHANGED <<cache, bearer>>

-----------------------------------------------------------------------------
\* The page

\* No load finds a token: each has run up to its first await before any login
\* ends.
Open(g) ==
    /\ page[g] = "closed"
    /\ page' = [page EXCEPT ![g] = "checking"]
    /\ call' = [c \in Calls |-> IF c \in LoadsOf(g) THEN "creds" ELSE call[c]]
    /\ UNCHANGED <<tokenVars, cache, bearer>>

\* The listeners are registered when the loads are done or one has failed.
Press(c) ==
    /\ c[2] \in Later /\ call[c] = "none" /\ page[Page(c)] \in {"ok", "error"}
    /\ IF cache[Page(c)] = NoToken
       THEN Call(c, "creds") /\ UNCHANGED bearer
       ELSE Call(c, "get") /\ bearer' = [bearer EXCEPT ![c] = cache[Page(c)]]
    /\ UNCHANGED <<tokenVars, page, cache>>

\* The answer of GET /demo-credentials; the token is not looked for again.
Credentials(c) ==
    /\ call[c] = "creds" /\ Call(c, "login")
    /\ UNCHANGED <<tokenVars, page, cache, bearer>>

SendLogin(c) ==
    /\ call[c] = "login" /\ \E p \in Processes : Hit(c, p)
    /\ UNCHANGED pageVars

TakeToken(c) ==
    /\ call[c] = "login" /\ login[c] = "issued"
    /\ cache' = [cache EXCEPT ![Page(c)] = token[c]]
    /\ bearer' = [bearer EXCEPT ![c] = token[c]]
    /\ Call(c, "get")
    /\ UNCHANGED <<tokenVars, page>>

LoginFailed(c) ==
    /\ call[c] = "login" /\ login[c] \in Refusals
    /\ Failed(c)
    /\ UNCHANGED tokenVars

\* Any replica may get the request.
Answer(c) ==
    /\ call[c] = "get"
    /\ \E p \in Processes :
          IF Accepts(p, bearer[c]) THEN Done(c) ELSE Failed(c)
    /\ UNCHANGED tokenVars

NetworkFails(c) ==
    /\ call[c] \in {"creds", "login", "get"}
    /\ Failed(c)
    /\ UNCHANGED tokenVars

-----------------------------------------------------------------------------
Init ==
    /\ TokensInit
    /\ page = [g \in Pages |-> "closed"]
    /\ cache = [g \in Pages |-> NoToken]
    /\ call = [c \in Calls |-> "none"]
    /\ bearer = [c \in Calls |-> NoToken]

Serve(c) == (Lookup(c) \/ Issue(c)) /\ UNCHANGED pageVars

Advance(c) ==
    \/ Credentials(c) \/ SendLogin(c) \/ Serve(c)
    \/ TakeToken(c) \/ LoginFailed(c) \/ Answer(c)

DashboardNext ==
    \/ \E g \in Pages : Open(g)
    \/ \E c \in Calls : Press(c) \/ Advance(c) \/ NetworkFails(c)
    \/ (Tick \/ \E p \in Processes : Restart(p)) /\ UNCHANGED pageVars

DashboardSpec == Init /\ [][DashboardNext]_vars

\* The server answers, and the browser goes on with the answer.
FairSpec == DashboardSpec /\ \A c \in Calls : WF_vars(Advance(c))

-----------------------------------------------------------------------------
\* Properties

\* "Connected" is shown when, and only when, every figure has been loaded, and
\* an error only for a load that failed.
PillTellsTheTruth ==
    \A g \in Pages :
        /\ page[g] = "ok" <=> \A c \in LoadsOf(g) : call[c] = "done"
        /\ page[g] = "error" <=> \E c \in LoadsOf(g) : call[c] = "failed"

\* Pages whose logins the limiter has room for all together never meet a 429,
\* unless someone goes on with a page that has failed.
PagesWithinLimit ==
    (\E c \in Calls : login[c] = "limited") =>
        \/ Cardinality({g \in Pages : page[g] # "closed"}) * Cardinality(Loads)
              > Limit
        \/ \E c \in Pages \X Later : login[c] # "idle"

\* An opened page ends up connected or with an error, also when a login of it
\* is limited or lost with its process.
PageSettles ==
    \A g \in Pages : page[g] = "checking" ~> page[g] \in {"ok", "error"}
=============================================================================
