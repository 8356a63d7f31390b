---------------------------- MODULE AccessTokens ----------------------------
(***************************************************************************)
(* Logins at POST /auth/token and what becomes of the tokens they issue:    *)
(* server processes, each with a signing secret and a moving-window limiter *)
(* in its memory; a login whose handler may be interleaved with others, with *)
(* the clock and with restarts; and the check every other request makes of  *)
(* the token it carries.                                                    *)
(*                                                                          *)
(* Time is counted in ticks, Second of them to a second; a JWT counts whole *)
(* seconds.  A process's clock is up to MaxSkew ticks ahead.  All clients   *)
(* share one address, the limiter's key.  Bodies of the wrong form, which   *)
(* are counted like wrong passwords, are not told apart from them.          *)
(***************************************************************************)
EXTENDS Integers, Sequences, FiniteSets

CONSTANTS Replicas,       \* the number of processes
          Logins, Users,  \* login requests; the accounts they may name
          Configured,     \* JWT_SECRET_KEY is set
          Second, Life, Window, Limit,
          MaxSkew,
          MaxTime, MaxStarts,   \* bounds: the last tick, the last start
          NoToken, NoUser       \* NoUser: a username without an account

Processes == 1 .. Replicas

ASSUME TokensAssumption ==
    /\ Replicas \in Nat \ {0} /\ Second \in Nat \ {0} /\ Life \in Nat \ {0}
    /\ Window \in Nat \ {0} /\ Limit \in Nat \ {0}
    /\ MaxSkew \in Nat /\ MaxTime \in Nat /\ MaxStarts \in Nat
    /\ Configured \in BOOLEAN /\ NoUser \notin Users

VARIABLES now,
          skew,      \* skew[p]: how far p's clock is ahead
          starts,    \* how many times a process has started
          secret,    \* secret[p]: the secret p signs and verifies with
          hits,      \* hits[p]: when p's limiter admitted a login
          active,    \* active[u]: the account u is active
          off,       \* history: off[u]: when it was deactivated
          login,     \* login[r]: the step r's handler is before, or the end
          at,        \* at[r]: the process that has r
          who,       \* who[r]: the account r has found
          read,      \* history: when it did
          token      \* token[r]: the token issued to r: the claims user, iat,
                     \* exp, the secret; history: read as above, issued

server == <<skew, starts, secret, hits>>
accounts == <<active, off>>
request == <<login, at, who, read, token>>
tokenVars == <<now, server, accounts, request>>

Refusals == {"limited", "refused", "lost"}

-----------------------------------------------------------------------------
Clock(p) == now + skew[p]
Whole(t) == t \div Second

\* Without a configured key each start draws a key of its own.  (Outside demo
\* mode, local and ci, Settings refuses to start without one.)
SecretOf(n) == IF Configured THEN 0 ELSE n

\* Faults: rounded up; a second short.
ExpiryRoundedUp(t) == Whole(t + Life * Second + Second - 1)
ExpiryShort(t) == Whole(t + (Life - 1) * Second)

Expiry(t) == Whole(t + Life * Second)

\* decode_access_token: the signature, iat and nbf, and exp.
Accepts(p, t) ==
    /\ t.secret = secret[p]
    /\ t.iat * Second <= Clock(p)
    /\ Clock(p) < t.exp * Second

\* Fault: windows that begin at multiples of Window.
AdmitsFixed(p) ==
    Cardinality({i \in DOMAIN hits[p] :
                    hits[p][i] \div Window = now \div Window}) < Limit

\* Fault: off by one.
AdmitsOneLess(p) ==
    Cardinality({i \in DOMAIN hits[p] : hits[p][i] >= now - Window})
        < Limit - 1

\* The moving window of the limiter: a refused attempt is not recorded.
Admits(p) ==
    Cardinality({i \in DOMAIN hits[p] : hits[p][i] >= now - Window}) < Limit

-----------------------------------------------------------------------------
\* A login

Step(r, next) == login' = [login EXCEPT ![r] = next]

\* The limiter is asked before anything else.
Hit(r, p) ==
    /\ login[r] = "idle"
    /\ at' = [at EXCEPT ![r] = p]
    /\ IF Admits(p)
       THEN hits' = [hits EXCEPT ![p] = Append(@, now)] /\ Step(r, "lookup")
       ELSE Step(r, "limited") /\ UNCHANGED hits
    /\ UNCHANGED <<now, skew, starts, secret, accounts, who, read, token>>

\* Fault: a deactivated account is not refused.
LookupAny(r) ==
    /\ login[r] = "lookup" /\ Step(r, "verify")
    /\ \E u \in Users : who' = [who EXCEPT ![r] = u]
    /\ read' = [read EXCEPT ![r] = now]
    /\ UNCHANGED <<now, server, accounts, at, token>>

\* get_by_username; whether the account is active is decided, after the
\* password, on what it reads here.
Lookup(r) ==
    /\ login[r] = "lookup" /\ Step(r, "verify")
    /\ \E u \in Users : active[u] /\ who' = [who EXCEPT ![r] = u]
    /\ read' = [read EXCEPT ![r] = now]
    /\ UNCHANGED <<now, server, accounts, at, token>>

\* No such account, a deactivated one, or, verify_password having taken its
\* time, a wrong password.
Refuse(r) ==
    /\ login[r] \in {"lookup", "verify"} /\ Step(r, "refused")
    /\ UNCHANGED <<now, server, accounts, at, who, read, token>>

\* verify_password, then create_access_token.
Issue(r) ==
    /\ login[r] = "verify" /\ Step(r, "issued")
    /\ LET t == Clock(at[r]) IN
       token' = [token EXCEPT ![r] =
                    [user |-> who[r], secret |-> secret[at[r]],
                     iat |-> Whole(t), exp |-> Expiry(t),
                     read |-> read[r], issued |-> now]]
    /\ UNCHANGED <<now, server, accounts, at, who, read>>

-----------------------------------------------------------------------------
\* Around it

Tick ==
    /\ now < MaxTime /\ now' = now + 1
    /\ UNCHANGED <<server, accounts, request>>

\* A process stops and is started again: its memory is gone, and with it the
\* requests it had.
Restart(p) ==
    /\ starts < MaxStarts /\ starts' = starts + 1
    /\ secret' = [secret EXCEPT ![p] = SecretOf(starts + 1)]
    /\ hits' = [hits EXCEPT ![p] = <<>>]
    /\ login' = [r \in Logins |->
                    IF at[r] = p /\ login[r] \in {"lookup", "verify"}
                    THEN "lost" ELSE login[r]]
    /\ UNCHANGED <<now, skew, accounts, at, who, read, token>>

\* Somebody clears is_active in the database.
Deactivate(u) ==
    /\ active[u]
    /\ active' = [active EXCEPT ![u] = FALSE]
    /\ off' = [off EXCEPT ![u] = now]
    /\ UNCHANGED <<now, server, request>>

Handle(r) == Lookup(r) \/ Refuse(r) \/ Issue(r)

TokensInit ==
    /\ now = 0 /\ skew \in [Processes -> 0 .. MaxSkew]
    /\ starts = Replicas
    /\ secret = [p \in Processes |-> SecretOf(p)]
    /\ hits = [p \in Processes |-> <<>>]
    /\ active = [u \in Users |-> TRUE] /\ off = [u \in Users |-> 0]
    /\ login = [r \in Logins |-> "idle"]
    /\ at = [r \in Logins |-> 1] /\ who = [r \in Logins |-> NoUser]
    /\ read = [r \in Logins |-> 0]
    /\ token = [r \in Logins |-> NoToken]

Next ==
    \/ \E r \in Logins : (\E p \in Processes : Hit(r, p)) \/ Handle(r)
    \/ Tick
    \/ \E p \in Processes : Restart(p)
    \/ \E u \in Users : Deactivate(u)

Spec == TokensInit /\ [][Next]_tokenVars

-----------------------------------------------------------------------------
\* Properties

Issued == {r \in Logins : token[r] # NoToken}
Age(t) == now - t.issued

\* Nobody accepts a token beyond the expires_in seconds that were promised for
\* it, give or take the skew of the clocks.
AcceptedInLife ==
    \A r \in Issued, p \in Processes :
        Accepts(p, token[r]) => Age(token[r]) < Life * Second + MaxSkew

\* A process that shares the secret refuses a token only in the last second of
\* its life, or later, or (iat lies ahead) before the clocks have caught up.
RefusedOnlyWhenDue ==
    \A r \in Issued, p \in Processes :
        /\ token[r].secret = secret[p] /\ ~Accepts(p, token[r])
        => \/ Age(token[r]) > (Life - 1) * Second - MaxSkew
           \/ Age(token[r]) < MaxSkew

\* However the attempts of an address are spread and interleaved, no stretch
\* of Window ticks has more than Limit that a process admitted since it
\* started.
WindowHolds ==
    \A p \in Processes : \A i \in DOMAIN hits[p] :
        Cardinality({j \in DOMAIN hits[p] :
                        hits[p][j] \in hits[p][i] - Window .. hits[p][i]})
            <= Limit

\* The token of a deactivated account is only accepted if its login had read
\* the account before, and only for the rest of its life.
DeactivationCatchesUp ==
    \A r \in Issued, p \in Processes :
        LET u == token[r].user IN
        Accepts(p, token[r]) /\ ~active[u] => token[r].read <= off[u]
=============================================================================
