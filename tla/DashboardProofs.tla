-------------------------- MODULE DashboardProofs --------------------------
(***************************************************************************)
(* Proofs about AccessTokens, for any number of processes, logins, users,   *)
(* ticks and starts, and any lifetime, window, limit and skew; and about    *)
(* Dashboard, which adds the pages to it, for any number of pages, loads,   *)
(* later calls, processes and restarts.                                     *)
(***************************************************************************)
EXTENDS Dashboard, FiniteSetTheorems, TLAPS

-----------------------------------------------------------------------------
\* AccessTokens

Places == {"idle", "lookup", "verify", "issued"} \cup Refusals

Token == [user : Users, secret : Nat, iat : Nat, exp : Nat, read : Nat,
          issued : Nat]

TypeOK ==
    /\ now \in Nat /\ skew \in [Processes -> 0 .. MaxSkew]
    /\ starts \in Nat /\ secret \in [Processes -> Nat]
    /\ hits \in [Processes -> Seq(Nat)]
    /\ active \in [Users -> BOOLEAN] /\ off \in [Users -> Nat]
    /\ login \in [Logins -> Places] /\ at \in [Logins -> Processes]
    /\ who \in [Logins -> Users \cup {NoUser}] /\ read \in [Logins -> Nat]
    /\ token \in [Logins -> Token \cup {NoToken}]

\* A token has the claims that some clock within the skew gives it.
ClaimsFit ==
    \A r \in Issued :
        \E d \in 0 .. MaxSkew :
            /\ token[r].iat = Whole(token[r].issued + d)
            /\ token[r].exp = Expiry(token[r].issued + d)

\* No hit is recorded ahead of time.
HitsArePast == \A p \in Processes : \A i \in DOMAIN hits[p] : hits[p][i] <= now

\* A login that is about to issue a token, or has, read its account while
\* that was active.
ReadWhileActive ==
    \A r \in Logins :
        /\ read[r] <= now
        /\ login[r] = "verify" =>
              who[r] \in Users /\ (~active[who[r]] => read[r] <= off[who[r]])
        /\ r \in Issued =>
              LET u == token[r].user IN
              token[r].read <= now /\ (~active[u] => token[r].read <= off[u])

IInv == TypeOK /\ ClaimsFit /\ HitsArePast /\ WindowHolds /\ ReadWhileActive
-----------------------------------------------------------------------------
\* Time

\* Rounding down to whole seconds loses less than a second.
LEMMA WholeSeconds ==
    ASSUME NEW t \in Nat
    PROVE  /\ Whole(t) \in Nat /\ Whole(t) * Second \in Nat
           /\ Whole(t) * Second <= t /\ t < Whole(t) * Second + Second
<1>1. Second \in Nat \ {0}
  BY TokensAssumption
<1> DEFINE q == t \div Second
           m == t % Second
<1>2. q \in Nat /\ m \in 0 .. Second - 1 /\ t = q * Second + m
  BY <1>1
<1>3. q * Second \in Nat
  BY <1>1, <1>2
<1>4. QED
  BY <1>1, <1>2, <1>3 DEF Whole

LEMMA LifeTimes ==
    /\ Life * Second \in Nat /\ Second \in Nat \ {0} /\ MaxSkew \in Nat
    /\ (Life - 1) * Second = Life * Second - Second
BY TokensAssumption

\* What a login is told of the end of its token, with a clock that is d ahead.
LEMMA Claims ==
    ASSUME NEW t \in Nat, NEW d \in 0 .. MaxSkew
    PROVE  /\ Whole(t + d) \in Nat /\ Expiry(t + d) \in Nat
           /\ Whole(t + d) * Second \in Nat /\ Expiry(t + d) * Second \in Nat
           /\ Whole(t + d) * Second <= t + d
           /\ Expiry(t + d) * Second <= t + d + Life * Second
           /\ Expiry(t + d) * Second > t + d + (Life - 1) * Second
<1>1. t + d \in Nat /\ t + d + Life * Second \in Nat
  BY LifeTimes
<1>2. /\ Whole(t + d) \in Nat /\ Whole(t + d) * Second \in Nat
      /\ Whole(t + d) * Second <= t + d
  BY <1>1, WholeSeconds
<1>3. /\ Whole(t + d + Life * Second) \in Nat
      /\ Whole(t + d + Life * Second) * Second \in Nat
      /\ Whole(t + d + Life * Second) * Second <= t + d + Life * Second
      /\ t + d + Life * Second < Whole(t + d + Life * Second) * Second + Second
  BY <1>1, WholeSeconds
<1>4. QED
  BY <1>1, <1>2, <1>3, LifeTimes DEF Expiry

-----------------------------------------------------------------------------
\* The window

\* The hits at places of h for which a time is recent.
InWindow(h, low, high) == {j \in DOMAIN h : h[j] \in low .. high}

\* A hit that Admits lets in completes no window of more than Limit hits,
\* wherever that window ends.
LEMMA HitFits ==
    ASSUME NEW h \in Seq(Nat), NEW t \in Nat, \A i \in DOMAIN h : h[i] <= t,
           Cardinality({i \in DOMAIN h : h[i] >= t - Window}) < Limit,
           \A i \in DOMAIN h :
               Cardinality(InWindow(h, h[i] - Window, h[i])) <= Limit,
           NEW i \in DOMAIN Append(h, t)
    PROVE  Cardinality(InWindow(Append(h, t), Append(h, t)[i] - Window,
                                Append(h, t)[i])) <= Limit
<1> DEFINE g == Append(h, t)
           n == Len(h) + 1
           recent == {j \in DOMAIN h : h[j] >= t - Window}
<1>1. /\ Len(h) \in Nat /\ DOMAIN h = 1 .. Len(h) /\ DOMAIN g = 1 .. n
      /\ g[n] = t /\ \A j \in DOMAIN h : g[j] = h[j] /\ h[j] \in Nat
  OBVIOUS
<1>2. Window \in Nat /\ Limit \in Nat
  BY TokensAssumption
<1>3. IsFiniteSet(DOMAIN h) /\ recent \subseteq DOMAIN h /\ IsFiniteSet(recent)
  <2>1. IsFiniteSet(DOMAIN h)
    BY <1>1, FS_Interval
  <2>2. recent \subseteq DOMAIN h
    OBVIOUS
  <2>3. QED
    BY <2>1, <2>2, FS_Subset
<1>4. /\ IsFiniteSet(recent \cup {n})
      /\ Cardinality(recent \cup {n}) = Cardinality(recent) + 1
      /\ Cardinality(recent) \in Nat
  <2>1. n \notin recent
    BY <1>1
  <2>2. Cardinality(recent) \in Nat
    BY <1>3, FS_CardinalityType
  <2>3. QED
    BY <1>3, <2>1, <2>2, FS_AddElement
<1>5. CASE g[i] = t
  <2>1. InWindow(g, t - Window, t) \subseteq recent \cup {n}
    BY <1>1 DEF InWindow
  <2>2. Cardinality(InWindow(g, t - Window, t)) <= Cardinality(recent \cup {n})
    BY <1>4, <2>1, FS_Subset
  <2>3. Cardinality(InWindow(g, t - Window, t)) \in Nat
    BY <1>4, <2>1, FS_Subset, FS_CardinalityType
  <2>4. QED
    BY <1>2, <1>4, <1>5, <2>2, <2>3
<1>6. CASE g[i] # t
  <2>1. i \in DOMAIN h /\ g[i] = h[i] /\ h[i] < t /\ h[i] \in Nat
    BY <1>1, <1>6
  <2>2. InWindow(g, h[i] - Window, h[i]) = InWindow(h, h[i] - Window, h[i])
    BY <1>1, <1>2, <2>1 DEF InWindow
  <2>3. QED
    BY <2>1, <2>2
<1>7. QED
  BY <1>5, <1>6

LEMMA WindowIsInWindow ==
    WindowHolds <=>
        \A p \in Processes : \A i \in DOMAIN hits[p] :
            Cardinality(InWindow(hits[p], hits[p][i] - Window, hits[p][i])) <= Limit
BY DEF WindowHolds, InWindow

-----------------------------------------------------------------------------
\* The invariant

LEMMA InvInit == TokensInit => IInv
<1> SUFFICES ASSUME TokensInit
             PROVE  IInv
  OBVIOUS
<1>1. TypeOK
  <2>1. Processes \subseteq Nat /\ 1 \in Processes
    BY TokensAssumption DEF Processes
  <2>2. secret \in [Processes -> Nat]
    BY <2>1 DEF TokensInit, SecretOf
  <2>3. hits \in [Processes -> Seq(Nat)]
    BY DEF TokensInit
  <2>4. QED
    BY <2>1, <2>2, <2>3, TokensAssumption DEF TokensInit, TypeOK, Places
<1>2. Issued = {} /\ \A p \in Processes : DOMAIN hits[p] = {}
  BY DEF TokensInit, Issued
<1>3. ClaimsFit /\ HitsArePast /\ WindowHolds /\ ReadWhileActive
  BY <1>2 DEF TokensInit, ClaimsFit, HitsArePast, WindowHolds, ReadWhileActive
<1>4. QED
  BY <1>1, <1>3 DEF IInv

LEMMA HitKeeps ==
    ASSUME IInv, NEW r \in Logins, NEW p \in Processes, Hit(r, p)
    PROVE  IInv'
<1>1. /\ UNCHANGED <<now, skew, starts, secret, active, off, who, read, token>>
      /\ at' = [at EXCEPT ![r] = p]
      /\ \/ Admits(p) /\ hits' = [hits EXCEPT ![p] = Append(@, now)]
         \/ hits' = hits
      /\ \E next \in {"lookup", "limited"} : login' = [login EXCEPT ![r] = next]
  BY DEF Hit, Step, accounts
<1>2. TypeOK'
  <2>1. hits' \in [Processes -> Seq(Nat)]
    <3>1. hits[p] \in Seq(Nat) /\ now \in Nat
      BY DEF IInv, TypeOK
    <3>2. Append(hits[p], now) \in Seq(Nat)
      BY <3>1
    <3>3. QED
      BY <1>1, <3>2 DEF IInv, TypeOK
  <2>2. login' \in [Logins -> Places]
    BY <1>1 DEF IInv, TypeOK, Places, Refusals
  <2>3. QED
    BY <1>1, <2>1, <2>2 DEF IInv, TypeOK
<1>3. ClaimsFit'
  BY <1>1 DEF IInv, ClaimsFit, Issued
<1>4. ReadWhileActive'
  BY <1>1 DEF IInv, TypeOK, ReadWhileActive, Issued
<1>5. HitsArePast' /\ WindowHolds'
  <2>1. CASE hits' = hits
    BY <1>1, <2>1 DEF IInv, HitsArePast, WindowHolds
  <2>2. CASE Admits(p) /\ hits' = [hits EXCEPT ![p] = Append(@, now)]
    <3>1. /\ hits[p] \in Seq(Nat) /\ now \in Nat
          /\ \A i \in DOMAIN hits[p] : hits[p][i] <= now
      BY DEF IInv, TypeOK, HitsArePast
    <3>2. ASSUME NEW i \in DOMAIN Append(hits[p], now)
          PROVE  Append(hits[p], now)[i] <= now
      BY <3>1
    <3>3. ASSUME NEW i \in DOMAIN Append(hits[p], now)
          PROVE  Cardinality(InWindow(Append(hits[p], now),
                                      Append(hits[p], now)[i] - Window,
                                      Append(hits[p], now)[i])) <= Limit
      BY <2>2, <3>1, HitFits, WindowIsInWindow DEF IInv, Admits
    <3>4. \A q \in Processes :
             hits'[q] = IF q = p THEN Append(hits[p], now) ELSE hits[q]
      BY <2>2 DEF IInv, TypeOK
    <3>5. HitsArePast'
      BY <1>1, <3>2, <3>4 DEF IInv, HitsArePast
    <3>6. WindowHolds'
      BY <3>3, <3>4 DEF IInv, WindowHolds, InWindow
    <3>7. QED
      BY <3>5, <3>6
  <2>3. QED
    BY <1>1, <2>1, <2>2
<1>6. QED
  BY <1>2, <1>3, <1>4, <1>5 DEF IInv

\* What the limiters and the tokens keep when they are not written.
LEMMA HitsUntouched ==
    ASSUME HitsArePast, WindowHolds, UNCHANGED <<now, hits>>
    PROVE  HitsArePast' /\ WindowHolds'
BY DEF HitsArePast, WindowHolds

LEMMA TokensUntouched ==
    ASSUME ClaimsFit, UNCHANGED token
    PROVE  ClaimsFit'
BY DEF ClaimsFit, Issued

\* The account is active when it is read.
LEMMA LookupKeeps ==
    ASSUME IInv, NEW r \in Logins, Lookup(r)
    PROVE  IInv'
<1>1. PICK u \in Users : active[u] /\ who' = [who EXCEPT ![r] = u]
  BY DEF Lookup
<1>2. /\ UNCHANGED <<now, skew, starts, secret, hits, active, off, at, token>>
      /\ login' = [login EXCEPT ![r] = "verify"]
      /\ read' = [read EXCEPT ![r] = now]
  BY DEF Lookup, Step, server, accounts
<1>3. TypeOK'
  BY <1>1, <1>2 DEF IInv, TypeOK, Places
<1>4. ReadWhileActive'
  BY <1>1, <1>2 DEF IInv, TypeOK, ReadWhileActive, Issued
<1>5. QED
  BY <1>2, <1>3, <1>4, HitsUntouched, TokensUntouched DEF IInv

LEMMA RefuseKeeps ==
    ASSUME IInv, NEW r \in Logins, Refuse(r)
    PROVE  IInv'
<1>1. /\ UNCHANGED <<now, skew, starts, secret, hits, active, off, at, who,
                     read, token>>
      /\ login' = [login EXCEPT ![r] = "refused"]
  BY DEF Refuse, Step, server, accounts
<1>2. TypeOK'
  BY <1>1 DEF IInv, TypeOK, Places, Refusals
<1>3. ReadWhileActive'
  BY <1>1 DEF IInv, TypeOK, ReadWhileActive, Issued
<1>4. QED
  BY <1>1, <1>2, <1>3, HitsUntouched, TokensUntouched DEF IInv

\* The claims are those of the clock of the process that has the login.
LEMMA IssueKeeps ==
    ASSUME IInv, NEW r \in Logins, Issue(r)
    PROVE  IInv'
<1> DEFINE d == skew[at[r]]
           t == [user |-> who[r], secret |-> secret[at[r]],
                 iat |-> Whole(now + d), exp |-> Expiry(now + d),
                 read |-> read[r], issued |-> now]
<1>1. /\ UNCHANGED <<now, skew, starts, secret, hits, active, off, at, who, read>>
      /\ login[r] = "verify" /\ login' = [login EXCEPT ![r] = "issued"]
      /\ token' = [token EXCEPT ![r] = t]
  BY DEF Issue, Step, server, accounts, Clock
<1>2. at[r] \in Processes /\ d \in 0 .. MaxSkew /\ who[r] \in Users /\ now \in Nat
  BY <1>1 DEF IInv, TypeOK, ReadWhileActive
<1>3. Whole(now + d) \in Nat /\ Expiry(now + d) \in Nat
  BY <1>2, Claims
<1>4. t \in Token
  BY <1>2, <1>3 DEF IInv, TypeOK, Token
<1>5. TypeOK'
  BY <1>1, <1>4 DEF IInv, TypeOK, Places
<1>6. \A q \in Logins : token'[q] = IF q = r THEN t ELSE token[q]
  BY <1>1 DEF IInv, TypeOK
<1>7. ClaimsFit'
  BY <1>2, <1>6 DEF IInv, ClaimsFit, Issued
<1>8. ReadWhileActive'
  BY <1>1, <1>6 DEF IInv, TypeOK, Places, ReadWhileActive, Issued
<1>9. QED
  BY <1>1, <1>5, <1>7, <1>8, HitsUntouched DEF IInv

LEMMA TickKeeps ==
    ASSUME IInv, Tick
    PROVE  IInv'
<1>1. /\ now' = now + 1 /\ now \in Nat
      /\ UNCHANGED <<skew, starts, secret, hits, active, off, login, at, who,
                     read, token>>
  BY DEF Tick, server, accounts, request, IInv, TypeOK
<1>2. TypeOK'
  BY <1>1 DEF IInv, TypeOK
<1>3. WindowHolds'
  BY <1>1 DEF IInv, WindowHolds
<1>4. HitsArePast'
  <2>1. \A p \in Processes : \A i \in DOMAIN hits[p] : hits[p][i] \in Nat
    BY DEF IInv, TypeOK
  <2>2. QED
    BY <1>1, <2>1 DEF IInv, HitsArePast
<1>5. ReadWhileActive'
  <2>1. \A r \in Logins : read[r] \in Nat /\ (r \in Issued => token[r].read \in Nat)
    BY DEF IInv, TypeOK, Issued, Token
  <2>2. QED
    BY <1>1, <2>1 DEF IInv, ReadWhileActive, Issued
<1>6. QED
  BY <1>1, <1>2, <1>3, <1>4, <1>5, TokensUntouched DEF IInv

\* The limiter of a process that has started again knows of no hits.
LEMMA RestartKeeps ==
    ASSUME IInv, NEW p \in Processes, Restart(p)
    PROVE  IInv'
<1>1. /\ UNCHANGED <<now, skew, active, off, at, who, read, token>>
      /\ starts' = starts + 1
      /\ secret' = [secret EXCEPT ![p] = SecretOf(starts + 1)]
      /\ hits' = [hits EXCEPT ![p] = <<>>]
      /\ login' \in [Logins -> Places]
      /\ \A r \in Logins : login'[r] \in {login[r], "lost"}
  BY DEF Restart, accounts, IInv, TypeOK, Places, Refusals
<1>2. TypeOK'
  BY <1>1 DEF IInv, TypeOK, SecretOf
<1>3. \A q \in Processes : hits'[q] = IF q = p THEN <<>> ELSE hits[q]
  BY <1>1 DEF IInv, TypeOK
<1>4. HitsArePast' /\ WindowHolds'
  <2>1. DOMAIN hits'[p] = {} /\ \A q \in Processes \ {p} : hits'[q] = hits[q]
    BY <1>3
  <2>2. HitsArePast'
    BY <1>1, <2>1 DEF IInv, HitsArePast
  <2>3. ASSUME NEW q \in Processes, NEW i \in DOMAIN hits'[q]
        PROVE  Cardinality({j \in DOMAIN hits'[q] :
                    hits'[q][j] \in hits'[q][i] - Window .. hits'[q][i]}) <= Limit
    <3>1. q # p /\ hits'[q] = hits[q]
      BY <2>1, <2>3
    <3>2. QED
      BY <2>3, <3>1 DEF IInv, WindowHolds
  <2>4. QED
    BY <2>2, <2>3 DEF WindowHolds
<1>5. ReadWhileActive'
  BY <1>1 DEF IInv, ReadWhileActive, Issued
<1>6. QED
  BY <1>1, <1>2, <1>4, <1>5, TokensUntouched DEF IInv

\* An account is deactivated after whatever has read it.
LEMMA DeactivateKeeps ==
    ASSUME IInv, NEW u \in Users, Deactivate(u)
    PROVE  IInv'
<1>1. /\ UNCHANGED <<now, skew, starts, secret, hits, login, at, who, read, token>>
      /\ active' = [active EXCEPT ![u] = FALSE] /\ off' = [off EXCEPT ![u] = now]
  BY DEF Deactivate, server, request
<1>2. TypeOK'
  BY <1>1 DEF IInv, TypeOK
<1>3. \A v \in Users :
         /\ off'[v] = IF v = u THEN now ELSE off[v]
         /\ v # u => active'[v] = active[v]
  BY <1>1 DEF IInv, TypeOK
<1>4. \A r \in Issued : token[r].user \in Users
  BY DEF IInv, TypeOK, Issued, Token
<1>5. ASSUME NEW v \in Users, NEW n, n <= now, ~active[v] => n <= off[v]
      PROVE  ~active'[v] => n <= off'[v]
  BY <1>3, <1>5
<1>6. ReadWhileActive'
  <2> SUFFICES ASSUME NEW r \in Logins
               PROVE  /\ login[r] = "verify" =>
                            (~active'[who[r]] => read[r] <= off'[who[r]])
                      /\ r \in Issued =>
                            (~active'[token[r].user] =>
                                token[r].read <= off'[token[r].user])
    BY <1>1 DEF IInv, ReadWhileActive, Issued
  <2>1. ASSUME login[r] = "verify"
        PROVE  ~active'[who[r]] => read[r] <= off'[who[r]]
    BY <1>5, <2>1 DEF IInv, ReadWhileActive
  <2>2. ASSUME r \in Issued
        PROVE  ~active'[token[r].user] => token[r].read <= off'[token[r].user]
    BY <1>4, <1>5, <2>2 DEF IInv, ReadWhileActive
  <2>3. QED
    BY <2>1, <2>2
<1>7. QED
  BY <1>1, <1>2, <1>6, HitsUntouched, TokensUntouched DEF IInv

LEMMA InvStep == IInv /\ [Next]_tokenVars => IInv'
<1> SUFFICES ASSUME IInv, [Next]_tokenVars
             PROVE  IInv'
  OBVIOUS
<1>1. ASSUME UNCHANGED tokenVars
      PROVE  IInv'
  <2>1. UNCHANGED <<now, skew, starts, secret, hits, active, off, login, at,
                    who, read, token>>
    BY <1>1 DEF tokenVars, server, accounts, request
  <2>2. TypeOK'
    BY <2>1 DEF IInv, TypeOK
  <2>3. ReadWhileActive'
    BY <2>1 DEF IInv, ReadWhileActive, Issued
  <2>4. QED
    BY <2>1, <2>2, <2>3, HitsUntouched, TokensUntouched DEF IInv
<1>2. QED
  BY <1>1, HitKeeps, LookupKeeps, RefuseKeeps, IssueKeeps, TickKeeps,
     RestartKeeps, DeactivateKeeps DEF Next, Handle

-----------------------------------------------------------------------------
\* The types, the claims, the windows and what logins had read, in every state.
THEOREM Invariance == Spec => []IInv
BY InvInit, InvStep, PTL DEF Spec

\* No process accepts a token for longer than its life and the skew.
THEOREM TokensExpire == Spec => []AcceptedInLife
<1>1. IInv => AcceptedInLife
  <2> SUFFICES ASSUME IInv, NEW r \in Issued, NEW p \in Processes,
                      Accepts(p, token[r])
               PROVE  Age(token[r]) < Life * Second + MaxSkew
    BY DEF AcceptedInLife
  <2>1. token[r].issued \in Nat /\ now \in Nat /\ skew[p] \in 0 .. MaxSkew
    BY DEF IInv, TypeOK, Issued, Token
  <2>2. PICK d \in 0 .. MaxSkew : token[r].exp = Expiry(token[r].issued + d)
    BY DEF IInv, ClaimsFit
  <2>3. now + skew[p] < token[r].exp * Second
    BY DEF Accepts, Clock
  <2>4. /\ token[r].exp * Second <= token[r].issued + d + Life * Second
        /\ token[r].exp * Second \in Nat
    BY <2>1, <2>2, Claims
  <2>5. QED
    BY <2>1, <2>3, <2>4, LifeTimes DEF Age
<1>2. QED
  BY Invariance, <1>1, PTL

\* A process with the secret refuses a token only at the ends of its life.
THEOREM TokensLast == Spec => []RefusedOnlyWhenDue
<1>1. IInv => RefusedOnlyWhenDue
  <2> SUFFICES ASSUME IInv, NEW r \in Issued, NEW p \in Processes,
                      token[r].secret = secret[p], ~Accepts(p, token[r])
               PROVE  \/ Age(token[r]) > (Life - 1) * Second - MaxSkew
                      \/ Age(token[r]) < MaxSkew
    BY DEF RefusedOnlyWhenDue
  <2>1. token[r].issued \in Nat /\ now \in Nat /\ skew[p] \in 0 .. MaxSkew
    BY DEF IInv, TypeOK, Issued, Token
  <2>2. PICK d \in 0 .. MaxSkew :
           /\ token[r].iat = Whole(token[r].issued + d)
           /\ token[r].exp = Expiry(token[r].issued + d)
    BY DEF IInv, ClaimsFit
  <2>3. /\ token[r].iat * Second \in Nat /\ token[r].exp * Second \in Nat
        /\ token[r].iat * Second <= token[r].issued + d
        /\ token[r].exp * Second > token[r].issued + d + (Life - 1) * Second
    BY <2>1, <2>2, Claims
  <2>4. \/ ~(token[r].iat * Second <= now + skew[p])
        \/ ~(now + skew[p] < token[r].exp * Second)
    BY DEF Accepts, Clock
  <2>5. QED
    BY <2>1, <2>3, <2>4, LifeTimes DEF Age
<1>2. QED
  BY Invariance, <1>1, PTL

\* The moving window of a process is never exceeded.
THEOREM WindowKept == Spec => []WindowHolds
<1>1. IInv => WindowHolds
  BY DEF IInv
<1>2. QED
  BY Invariance, <1>1, PTL

\* A deactivated account is only let in on what a login had read before.
THEOREM DeactivationHolds == Spec => []DeactivationCatchesUp
<1>1. IInv => DeactivationCatchesUp
  BY DEF IInv, ReadWhileActive, DeactivationCatchesUp, Issued
<1>2. QED
  BY Invariance, <1>1, PTL
-----------------------------------------------------------------------------
\* Dashboard

CallTypes ==
    /\ page \in [Pages -> {"closed", "checking", "ok", "error"}]
    /\ call \in [Calls -> {"none", "creds", "login", "get", "done", "failed"}]

\* The loads of a page begin with it, the later calls when they are over, and
\* only calls that have begun log in.
CallsBegin ==
    /\ \A g \in Pages : \A c \in LoadsOf(g) :
          page[g] = "closed" <=> call[c] = "none"
    /\ \A c \in Pages \X Later :
          call[c] # "none" => page[Page(c)] \in {"ok", "error"}
    /\ \A c \in Calls : login[c] # "idle" => call[c] # "none"

PageInv == CallTypes /\ CallsBegin /\ PillTellsTheTruth

\* The logins that a limiter has let in, and the pages that have loads.
LetIn == {c \in Calls : login[c] \notin {"idle", "limited"}}
Opened == {g \in Pages : page[g] # "closed"}

\* No limiter remembers more hits than there were logins let in.
HitsCounted ==
    /\ IsFiniteSet(LetIn) /\ IsFiniteSet(Opened)
    /\ \A p \in Processes : Len(hits[p]) <= Cardinality(LetIn)

DInv == IInv /\ PageInv /\ HitsCounted /\ PagesWithinLimit
-----------------------------------------------------------------------------
\* The pages and the tokens

\* To the servers, the pages are clients who log in: every step is one of
\* AccessTokens or does not concern it.
LEMMA PagesLogIn == DashboardNext => Next \/ UNCHANGED tokenVars
<1> SUFFICES ASSUME DashboardNext
             PROVE  Next \/ UNCHANGED tokenVars
  OBVIOUS
<1>1. ASSUME NEW c \in Calls, SendLogin(c) \/ Serve(c)
      PROVE  Next
  BY <1>1, DashboardAssumption DEF SendLogin, Serve, Next, Handle
<1>2. ASSUME NEW c \in Calls,
             Press(c) \/ Credentials(c) \/ TakeToken(c) \/ LoginFailed(c)
               \/ Answer(c) \/ NetworkFails(c)
      PROVE  UNCHANGED tokenVars
  BY <1>2 DEF Press, Credentials, TakeToken, LoginFailed, Answer, NetworkFails
<1>3. ASSUME NEW g \in Pages, Open(g)
      PROVE  UNCHANGED tokenVars
  BY <1>3 DEF Open
<1>4. CASE Tick \/ \E p \in Processes : Restart(p)
  BY <1>4 DEF Next
<1>5. QED
  BY <1>1, <1>2, <1>3, <1>4 DEF DashboardNext, Advance

\* So what is proved about AccessTokens holds under the dashboard's pages.
THEOREM PagesAreClients == DashboardSpec => Spec
<1>1. Init => TokensInit
  BY DEF Init
<1>2. [DashboardNext]_vars => [Next]_tokenVars
  BY PagesLogIn DEF vars
<1>3. QED
  BY <1>1, <1>2, PTL DEF DashboardSpec, Spec
-----------------------------------------------------------------------------
\* The pill

\* What a call is, and what a load is.
LEMMA CallFacts ==
    /\ \A c \in Calls : Page(c) \in Pages /\ c \in Logins
    /\ \A g \in Pages : LoadsOf(g) \subseteq Calls /\ LoadsOf(g) # {}
    /\ \A g \in Pages : \A c \in LoadsOf(g) : Page(c) = g /\ c[2] \notin Later
    /\ \A c \in Calls : c \in LoadsOf(Page(c)) \/ c \in Pages \X Later
    /\ \A c \in Pages \X Later : c \in Calls /\ \A g \in Pages : c \notin LoadsOf(g)
<1>1. \A c \in Calls : c[1] \in Pages /\ c[2] \in Loads \cup Later
                         /\ c = <<c[1], c[2]>>
  BY DEF Calls
<1>2. \A g \in Pages : \A c : c \in LoadsOf(g) <=>
         c \in Calls /\ c[1] = g /\ c[2] \in Loads
  BY DEF Calls, LoadsOf
<1>3. \A g \in Pages : LoadsOf(g) # {}
  <2>1. PICK a \in Loads : TRUE
    BY DashboardAssumption
  <2>2. \A g \in Pages : <<g, a>> \in LoadsOf(g)
    BY DEF LoadsOf
  <2>3. QED
    BY <2>2
<1>4. \A c \in Calls : c[2] \notin Loads => c \in Pages \X Later
  BY DEF Calls
<1>5. Logins = Calls /\ Loads \cap Later = {}
  BY DashboardAssumption
<1>6. \A c \in Pages \X Later : c \in Calls /\ c[2] \notin Loads
  BY <1>5 DEF Calls
<1>7. QED
  <2>1. \A c \in Calls : Page(c) \in Pages /\ c \in Logins
    BY <1>1, <1>5 DEF Page
  <2>2. \A g \in Pages : LoadsOf(g) \subseteq Calls /\ LoadsOf(g) # {}
    BY <1>2, <1>3
  <2>3. \A g \in Pages : \A c \in LoadsOf(g) : Page(c) = g /\ c[2] \notin Later
    BY <1>2, <1>5 DEF Page
  <2>4. \A c \in Calls : c \in LoadsOf(Page(c)) \/ c \in Pages \X Later
    BY <1>1, <1>2, <1>4 DEF Page
  <2>5. \A c \in Pages \X Later : c \in Calls /\ \A g \in Pages : c \notin LoadsOf(g)
    BY <1>2, <1>6
  <2>6. QED
    BY <2>1, <2>2, <2>3, <2>4, <2>5

\* The order in which the loads of a page end does not matter: the last one
\* done connects it, the first one failed gives it up.
LEMMA DoneKeeps ==
    ASSUME PageInv, NEW c \in Calls, call[c] \in {"creds", "login", "get"},
           Done(c), UNCHANGED login
    PROVE  PageInv'
<1> DEFINE g == Page(c)
           all == \A d \in LoadsOf(g) \ {c} : call[d] = "done"
<1>1. /\ call' = [call EXCEPT ![c] = "done"]
      /\ page' = [page EXCEPT ![g] =
                     IF page[g] = "checking" /\ all THEN "ok" ELSE page[g]]
  BY DEF Done, Call
<1>2. CallTypes'
  BY <1>1, CallFacts DEF PageInv, CallTypes
<1>3. /\ g \in Pages
      /\ \A d \in Calls : call'[d] = IF d = c THEN "done" ELSE call[d]
      /\ \A h \in Pages : page'[h] = IF h = g /\ page[g] = "checking" /\ all
                                     THEN "ok" ELSE page[h]
  BY <1>1, CallFacts DEF PageInv, CallTypes
<1>4. CallsBegin'
  BY <1>3, CallFacts DEF PageInv, CallsBegin
<1>5. ASSUME NEW h \in Pages
      PROVE  /\ page'[h] = "ok" <=> \A d \in LoadsOf(h) : call'[d] = "done"
             /\ page'[h] = "error" <=> \E d \in LoadsOf(h) : call'[d] = "failed"
  <2>1. /\ page[h] = "ok" <=> \A d \in LoadsOf(h) : call[d] = "done"
        /\ page[h] = "error" <=> \E d \in LoadsOf(h) : call[d] = "failed"
        /\ LoadsOf(h) \subseteq Calls
    BY CallFacts DEF PageInv, PillTellsTheTruth
  <2>2. CASE c \notin LoadsOf(h)
    <3>1. \A d \in LoadsOf(h) : call'[d] = call[d]
      BY <1>3, <2>1, <2>2
    <3>2. page'[h] = page[h]
      <4>1. CASE h = g
        <5>1. \A f \in LoadsOf(g) \ {c} : f \in LoadsOf(h)
          BY <4>1
        <5>2. page[g] = "checking" => ~all
          BY <2>1, <2>2, <4>1
        <5>3. QED
          BY <1>3, <5>2
      <4>2. QED
        BY <1>3, <4>1
    <3>3. QED
      BY <2>1, <3>1, <3>2
  <2>3. CASE c \in LoadsOf(h)
    <3>1. h = g
      BY <2>3, CallFacts
    <3>2. page[h] # "ok" /\ page[h] # "closed"
      BY <2>1, <2>3 DEF PageInv, CallsBegin
    <3>3. page[h] \in {"checking", "error"}
      BY <3>2 DEF PageInv, CallTypes
    <3>4. all <=> \A d \in LoadsOf(h) : call'[d] = "done"
      BY <1>3, <2>1, <2>3, <3>1
    <3>5. (\E d \in LoadsOf(h) : call'[d] = "failed")
            <=> \E d \in LoadsOf(h) : call[d] = "failed"
      BY <1>3, <2>1
    <3>6. page[h] = "error" => ~all
      BY <1>3, <2>1, <3>4, <3>5
    <3>7. page'[h] = IF page[h] = "checking" /\ all THEN "ok" ELSE page[h]
      BY <1>3, <3>1
    <3>8. QED
      BY <2>1, <3>3, <3>4, <3>5, <3>6, <3>7
  <2>4. QED
    BY <2>2, <2>3
<1>6. QED
  BY <1>2, <1>4, <1>5 DEF PageInv, PillTellsTheTruth

LEMMA FailedKeeps ==
    ASSUME PageInv, NEW c \in Calls, call[c] \in {"creds", "login", "get"},
           Failed(c), UNCHANGED login
    PROVE  PageInv'
<1> DEFINE g == Page(c)
<1>1. /\ call' = [call EXCEPT ![c] = "failed"]
      /\ page' = [page EXCEPT ![g] =
                     IF page[g] = "checking" THEN "error" ELSE page[g]]
  BY DEF Failed, Call
<1>2. CallTypes'
  BY <1>1, CallFacts DEF PageInv, CallTypes
<1>3. /\ g \in Pages
      /\ \A d \in Calls : call'[d] = IF d = c THEN "failed" ELSE call[d]
      /\ \A h \in Pages : page'[h] = IF h = g /\ page[g] = "checking"
                                     THEN "error" ELSE page[h]
  BY <1>1, CallFacts DEF PageInv, CallTypes
<1>4. CallsBegin'
  BY <1>3, CallFacts DEF PageInv, CallsBegin
<1>5. ASSUME NEW h \in Pages
      PROVE  /\ page'[h] = "ok" <=> \A d \in LoadsOf(h) : call'[d] = "done"
             /\ page'[h] = "error" <=> \E d \in LoadsOf(h) : call'[d] = "failed"
  <2>1. /\ page[h] = "ok" <=> \A d \in LoadsOf(h) : call[d] = "done"
        /\ page[h] = "error" <=> \E d \in LoadsOf(h) : call[d] = "failed"
        /\ LoadsOf(h) \subseteq Calls
    BY CallFacts DEF PageInv, PillTellsTheTruth
  <2>2. CASE c \notin LoadsOf(h)
    <3>1. \A d \in LoadsOf(h) : call'[d] = call[d]
      BY <1>3, <2>1, <2>2
    <3>2. page'[h] = page[h]
      <4>1. CASE h = g
        <5>1. c \in Pages \X Later
          BY <2>2, <4>1, CallFacts
        <5>2. page[g] # "checking"
          BY <5>1 DEF PageInv, CallsBegin
        <5>3. QED
          BY <1>3, <5>2
      <4>2. QED
        BY <1>3, <4>1
    <3>3. QED
      BY <2>1, <3>1, <3>2
  <2>3. CASE c \in LoadsOf(h)
    <3>1. h = g
      BY <2>3, CallFacts
    <3>2. page[h] # "ok" /\ page[h] # "closed"
      BY <2>1, <2>3 DEF PageInv, CallsBegin
    <3>3. page[h] \in {"checking", "error"}
      BY <3>2 DEF PageInv, CallTypes
    <3>4. call'[c] = "failed" /\ page'[h] = "error"
      BY <1>3, <3>1, <3>3
    <3>5. QED
      BY <2>3, <3>4
  <2>4. QED
    BY <2>2, <2>3
<1>6. QED
  BY <1>2, <1>4, <1>5 DEF PageInv, PillTellsTheTruth
\* All loads of a page start with it.
LEMMA OpenKeeps ==
    ASSUME PageInv, NEW g \in Pages, Open(g)
    PROVE  PageInv'
<1>1. /\ page[g] = "closed" /\ page' = [page EXCEPT ![g] = "checking"]
      /\ call' = [c \in Calls |-> IF c \in LoadsOf(g) THEN "creds" ELSE call[c]]
      /\ login' = login
  BY DEF Open, tokenVars, request
<1>2. CallTypes'
  BY <1>1 DEF PageInv, CallTypes
<1>3. \A h \in Pages : page'[h] = IF h = g THEN "checking" ELSE page[h]
  BY <1>1 DEF PageInv, CallTypes
<1>4. \A h \in Pages \ {g} : \A c \in LoadsOf(h) :
         c \in Calls /\ c \notin LoadsOf(g) /\ call'[c] = call[c]
  BY <1>1, CallFacts
<1>5. \A c \in LoadsOf(g) : c \in Calls /\ call'[c] = "creds"
  BY <1>1, CallFacts
<1>6. CallsBegin'
  <2>1. \A h \in Pages : \A c \in LoadsOf(h) :
           page'[h] = "closed" <=> call'[c] = "none"
    BY <1>3, <1>4, <1>5 DEF PageInv, CallsBegin
  <2>2. ASSUME NEW c \in Pages \X Later, call'[c] # "none"
        PROVE  page'[Page(c)] \in {"ok", "error"}
    <3>1. call'[c] = call[c] /\ Page(c) \in Pages
      BY <1>1, CallFacts
    <3>2. page[Page(c)] \in {"ok", "error"}
      BY <2>2, <3>1 DEF PageInv, CallsBegin
    <3>3. QED
      BY <1>1, <1>3, <3>1, <3>2
  <2>3. \A c \in Calls : login'[c] # "idle" => call'[c] # "none"
    BY <1>1 DEF PageInv, CallsBegin
  <2>4. QED
    BY <2>1, <2>2, <2>3 DEF CallsBegin
<1>7. PillTellsTheTruth'
  <2>1. ASSUME NEW h \in Pages, h # g
        PROVE  /\ page'[h] = "ok" <=> \A c \in LoadsOf(h) : call'[c] = "done"
               /\ page'[h] = "error" <=> \E c \in LoadsOf(h) : call'[c] = "failed"
    BY <1>3, <1>4, <2>1 DEF PageInv, PillTellsTheTruth
  <2>2. /\ page'[g] = "ok" <=> \A c \in LoadsOf(g) : call'[c] = "done"
        /\ page'[g] = "error" <=> \E c \in LoadsOf(g) : call'[c] = "failed"
    <3>1. PICK c \in LoadsOf(g) : TRUE
      BY CallFacts
    <3>2. QED
      BY <1>3, <1>5, <3>1
  <2>3. QED
    BY <2>1, <2>2 DEF PillTellsTheTruth
<1>8. QED
  BY <1>2, <1>6, <1>7 DEF PageInv

\* A call that goes on, or a later one that begins, changes no pill.
LEMMA GoingOnKeeps ==
    ASSUME PageInv, NEW c \in Calls, NEW next \in {"creds", "login", "get"},
           Call(c, next), UNCHANGED <<page, login>>,
           \/ call[c] \in {"creds", "login", "get"}
           \/ c \in Pages \X Later /\ page[Page(c)] \in {"ok", "error"}
    PROVE  PageInv'
<1>1. CallTypes'
  BY DEF PageInv, CallTypes, Call
<1>2. \A d \in Calls : call'[d] = IF d = c THEN next ELSE call[d]
  BY DEF PageInv, CallTypes, Call
<1>3. \A h \in Pages : \A d \in LoadsOf(h) :
         /\ call'[d] = "done" <=> call[d] = "done"
         /\ call'[d] = "failed" <=> call[d] = "failed"
         /\ call'[d] = "none" <=> call[d] = "none"
  BY <1>2, CallFacts
<1>4. CallsBegin'
  <2>1. \A d \in Pages \X Later : d \in Calls
    BY CallFacts
  <2>2. \A d \in Pages \X Later :
           call'[d] # "none" => page'[Page(d)] \in {"ok", "error"}
    BY <1>2, <2>1 DEF PageInv, CallsBegin
  <2>3. \A d \in Calls : login'[d] # "idle" => call'[d] # "none"
    BY <1>2 DEF PageInv, CallsBegin
  <2>4. QED
    BY <1>3, <2>2, <2>3 DEF PageInv, CallsBegin
<1>5. PillTellsTheTruth'
  BY <1>3 DEF PageInv, PillTellsTheTruth
<1>6. QED
  BY <1>1, <1>4, <1>5 DEF PageInv

\* What the servers do is not seen before an answer.
LEMMA ServersKeep ==
    ASSUME PageInv, UNCHANGED <<page, call>>,
           \A c \in Calls : login'[c] # "idle" => login[c] # "idle" \/ call[c] = "login"
    PROVE  PageInv'
BY DEF PageInv, CallTypes, CallsBegin, PillTellsTheTruth

LEMMA PageStep ==
    ASSUME IInv, PageInv, [DashboardNext]_vars
    PROVE  PageInv'
<1>1. ASSUME NEW c \in Calls, Press(c)
      PROVE  PageInv'
  <2>1. c \in Pages \X Later /\ UNCHANGED <<page, login>>
    BY <1>1, CallFacts DEF Press, tokenVars, request, Calls
  <2>2. QED
    BY <1>1, <2>1, GoingOnKeeps DEF Press
<1>2. ASSUME NEW c \in Calls, Credentials(c) \/ TakeToken(c)
      PROVE  PageInv'
  BY <1>2, GoingOnKeeps DEF Credentials, TakeToken, tokenVars, request
<1>3. ASSUME NEW c \in Calls, SendLogin(c) \/ Serve(c)
      PROVE  PageInv'
  <2>1. UNCHANGED <<page, call>>
    BY <1>3 DEF SendLogin, Serve, pageVars
  <2>2. ASSUME NEW d \in Calls, login'[d] # "idle"
        PROVE  login[d] # "idle" \/ call[d] = "login"
    <3>1. \/ call[c] = "login" /\ \E next : login' = [login EXCEPT ![c] = next]
          \/ login[c] # "idle" /\ \E next : login' = [login EXCEPT ![c] = next]
      BY <1>3 DEF SendLogin, Serve, Hit, Lookup, Issue, Step
    <3>2. QED
      BY <2>2, <3>1, CallFacts DEF IInv, TypeOK
  <2>3. QED
    BY <2>1, <2>2, ServersKeep
<1>4. ASSUME NEW c \in Calls, LoginFailed(c) \/ Answer(c) \/ NetworkFails(c)
      PROVE  PageInv'
  <2>1. UNCHANGED login /\ call[c] \in {"creds", "login", "get"}
        /\ (Done(c) \/ Failed(c))
    BY <1>4 DEF LoginFailed, Answer, NetworkFails, tokenVars, request
  <2>2. QED
    BY <2>1, DoneKeeps, FailedKeeps
<1>5. ASSUME Tick \/ \E p \in Processes : Restart(p), UNCHANGED pageVars
      PROVE  PageInv'
  <2>1. \A d \in Calls : login'[d] # "idle" => login[d] # "idle"
    BY <1>5, CallFacts DEF Tick, Restart, request
  <2>2. QED
    BY <1>5, <2>1, ServersKeep DEF pageVars
<1>6. ASSUME UNCHANGED vars
      PROVE  PageInv'
  BY <1>6, ServersKeep DEF vars, tokenVars, request, pageVars
<1>7. QED
  BY <1>1, <1>2, <1>3, <1>4, <1>5, <1>6, OpenKeeps DEF DashboardNext, Advance
-----------------------------------------------------------------------------
\* The limit

\* A page has a call for each load.
LEMMA CallsOfPages ==
    ASSUME NEW S, IsFiniteSet(S)
    PROVE  /\ IsFiniteSet(S \X Loads) /\ Cardinality(Loads) \in Nat
           /\ Cardinality(S) \in Nat
           /\ Cardinality(S \X Loads) = Cardinality(S) * Cardinality(Loads)
BY DashboardAssumption, FS_Product, FS_CardinalityType

LEMMA IntervalSize ==
    ASSUME NEW n \in Nat
    PROVE  IsFiniteSet(1 .. n) /\ Cardinality(1 .. n) = n
<1>1. CASE n = 0
  BY <1>1, FS_Interval
<1>2. CASE n > 0
  BY <1>2, FS_Interval
<1>3. QED
  BY <1>1, <1>2

\* A login that is refused comes after Limit others, all but the later calls
\* of which are loads of open pages.
LEMMA LimitedMeansFull ==
    ASSUME IInv, PageInv, HitsCounted, NEW c \in Calls, NEW p \in Processes,
           login[c] = "idle", call[c] = "login", ~Admits(p),
           \A d \in Pages \X Later : login[d] = "idle", c \notin Pages \X Later
    PROVE  Cardinality(Opened) * Cardinality(Loads) > Limit
<1> DEFINE recent == {i \in DOMAIN hits[p] : hits[p][i] >= now - Window}
<1>1. hits[p] \in Seq(Nat) /\ Limit \in Nat
  BY TokensAssumption DEF IInv, TypeOK
<1>2. Cardinality(recent) <= Len(hits[p]) /\ Cardinality(recent) \in Nat
  <2>1. Len(hits[p]) \in Nat /\ DOMAIN hits[p] = 1 .. Len(hits[p])
    BY <1>1
  <2>2. /\ IsFiniteSet(1 .. Len(hits[p]))
        /\ Cardinality(1 .. Len(hits[p])) = Len(hits[p])
    BY <2>1, IntervalSize
  <2>3. recent \subseteq 1 .. Len(hits[p])
    BY <2>1
  <2>4. QED
    BY <2>2, <2>3, FS_Subset, FS_CardinalityType
<1>3. Limit <= Cardinality(recent)
  BY <1>1, <1>2 DEF Admits
<1>4. /\ c \notin LetIn /\ IsFiniteSet(LetIn \cup {c})
      /\ Cardinality(LetIn \cup {c}) = Cardinality(LetIn) + 1
      /\ Cardinality(LetIn) \in Nat
  BY FS_AddElement, FS_CardinalityType DEF HitsCounted, LetIn
<1>5. LetIn \cup {c} \subseteq Opened \X Loads
  <2> SUFFICES ASSUME NEW d \in LetIn \cup {c}
               PROVE  d \in Opened \X Loads
    OBVIOUS
  <2>1. d \in Calls /\ d \notin Pages \X Later /\ call[d] # "none"
    BY DEF LetIn, PageInv, CallsBegin
  <2>2. Page(d) \in Pages /\ d \in LoadsOf(Page(d))
    BY <2>1, CallFacts
  <2>3. Page(d) \in Opened
    BY <2>1, <2>2 DEF PageInv, CallsBegin, Opened
  <2>4. QED
    BY <2>2, <2>3 DEF LoadsOf
<1>6. Cardinality(LetIn \cup {c}) <= Cardinality(Opened \X Loads)
  BY <1>5, CallsOfPages, FS_Subset DEF HitsCounted
<1>7. Cardinality(Opened \X Loads) = Cardinality(Opened) * Cardinality(Loads)
      /\ Cardinality(Opened \X Loads) \in Nat
  BY CallsOfPages, FS_CardinalityType DEF HitsCounted
<1>8. Len(hits[p]) <= Cardinality(LetIn) /\ Len(hits[p]) \in Nat
  BY <1>1 DEF HitsCounted
<1>9. QED
  BY <1>1, <1>2, <1>3, <1>4, <1>6, <1>7, <1>8

\* Pages stay open.
LEMMA PagesStayOpen ==
    ASSUME PageInv, PageInv', HitsCounted, [DashboardNext]_vars
    PROVE  /\ Opened \subseteq Opened' /\ IsFiniteSet(Opened')
           /\ Cardinality(Opened) * Cardinality(Loads)
                <= Cardinality(Opened') * Cardinality(Loads)
           /\ Cardinality(Opened) * Cardinality(Loads) \in Nat
           /\ Cardinality(Opened') * Cardinality(Loads) \in Nat
<1>1. \/ \E g \in Pages : Opened' = Opened \cup {g}
      \/ Opened' = Opened
  <2>1. ASSUME NEW g \in Pages, Open(g)
        PROVE  Opened' = Opened \cup {g}
    BY <2>1 DEF Open, Opened, PageInv, CallTypes
  <2>2. ASSUME NEW c \in Calls, Done(c) \/ Failed(c)
        PROVE  Opened' = Opened
    BY <2>2 DEF Done, Failed, Opened, PageInv, CallTypes
  <2>3. ASSUME page' = page
        PROVE  Opened' = Opened
    BY <2>3 DEF Opened
  <2>4. QED
    BY <2>1, <2>2, <2>3 DEF DashboardNext, Advance, Press, Credentials,
       SendLogin, Serve, TakeToken, LoginFailed, Answer, NetworkFails, vars,
       pageVars
<1>2. Opened \subseteq Opened' /\ IsFiniteSet(Opened')
  BY <1>1, FS_AddElement DEF HitsCounted
<1>3. /\ Cardinality(Opened) <= Cardinality(Opened')
      /\ Cardinality(Opened) \in Nat /\ Cardinality(Opened') \in Nat
      /\ Cardinality(Loads) \in Nat
  BY <1>2, FS_Subset, FS_CardinalityType, DashboardAssumption
<1>4. QED
  BY <1>2, <1>3

\* What a step means to the logins: one is let in, and hit, or it is limited,
\* or the ones that were let in stay so.
LEMMA LoginStep ==
    ASSUME IInv, PageInv, [DashboardNext]_vars
    PROVE  \/ \E c \in Calls, p \in Processes :
                 /\ login[c] = "idle" /\ Admits(p)
                 /\ hits' = [hits EXCEPT ![p] = Append(hits[p], now)]
                 /\ login' = [login EXCEPT ![c] = "lookup"]
           \/ \E c \in Calls, p \in Processes :
                 /\ login[c] = "idle" /\ call[c] = "login" /\ ~Admits(p)
                 /\ hits' = hits
                 /\ login' = [login EXCEPT ![c] = "limited"]
           \/ /\ \A p \in Processes : hits'[p] = hits[p] \/ hits'[p] = <<>>
              /\ \A c \in Calls :
                    \/ login'[c] = login[c]
                    \/ /\ login[c] \notin {"idle", "limited"}
                       /\ login'[c] \notin {"idle", "limited"}
<1>1. ASSUME NEW c \in Calls, SendLogin(c)
      PROVE  \E p \in Processes :
                /\ login[c] = "idle" /\ call[c] = "login"
                /\ \/ /\ Admits(p)
                      /\ hits' = [hits EXCEPT ![p] = Append(hits[p], now)]
                      /\ login' = [login EXCEPT ![c] = "lookup"]
                   \/ /\ ~Admits(p) /\ hits' = hits
                      /\ login' = [login EXCEPT ![c] = "limited"]
  BY <1>1 DEF SendLogin, Hit, Step
<1>2. ASSUME NEW c \in Calls, Serve(c)
      PROVE  /\ hits' = hits
             /\ \A d \in Calls :
                    \/ login'[d] = login[d]
                    \/ /\ login[d] \notin {"idle", "limited"}
                       /\ login'[d] \notin {"idle", "limited"}
  BY <1>2, CallFacts DEF Serve, Lookup, Issue, Step, server, IInv, TypeOK
<1>3. ASSUME NEW p \in Processes, Restart(p)
      PROVE  /\ \A q \in Processes : hits'[q] = hits[q] \/ hits'[q] = <<>>
             /\ \A d \in Calls :
                    \/ login'[d] = login[d]
                    \/ /\ login[d] \notin {"idle", "limited"}
                       /\ login'[d] \notin {"idle", "limited"}
  BY <1>3, CallFacts DEF Restart, IInv, TypeOK
<1>4. ASSUME UNCHANGED <<hits, login>>
      PROVE  /\ \A q \in Processes : hits'[q] = hits[q]
             /\ \A d \in Calls : login'[d] = login[d]
  BY <1>4
<1>5. QED
  BY <1>1, <1>2, <1>3, <1>4
     DEF DashboardNext, Advance, Open, Press, Credentials, TakeToken,
         LoginFailed, Answer, NetworkFails, Tick, vars, tokenVars, server, request

LEMMA HitsStep ==
    ASSUME DInv, PageInv', [DashboardNext]_vars
    PROVE  HitsCounted' /\ PagesWithinLimit'
<1>1. /\ IsFiniteSet(LetIn) /\ IsFiniteSet(Opened') /\ Opened \subseteq Opened'
      /\ Cardinality(LetIn) \in Nat
      /\ Cardinality(Opened) * Cardinality(Loads)
           <= Cardinality(Opened') * Cardinality(Loads)
      /\ Cardinality(Opened) * Cardinality(Loads) \in Nat
      /\ Cardinality(Opened') * Cardinality(Loads) \in Nat
  BY PagesStayOpen, FS_CardinalityType DEF DInv, HitsCounted
<1>2. /\ Limit \in Nat /\ Pages \X Later \subseteq Calls /\ Calls = Logins
      /\ \A p \in Processes : hits[p] \in Seq(Nat) /\ Len(hits[p]) \in Nat
      /\ login \in [Calls -> Places]
  BY TokensAssumption, DashboardAssumption, CallFacts DEF DInv, IInv, TypeOK
<1>3. PagesWithinLimit <=>
         ((\E c \in Calls : login[c] = "limited") =>
             \/ Cardinality(Opened) * Cardinality(Loads) > Limit
             \/ \E c \in Pages \X Later : login[c] # "idle")
  BY DEF PagesWithinLimit, Opened
<1>4. PagesWithinLimit' <=>
         ((\E c \in Calls : login'[c] = "limited") =>
             \/ Cardinality(Opened') * Cardinality(Loads) > Limit
             \/ \E c \in Pages \X Later : login'[c] # "idle")
  BY DEF PagesWithinLimit, Opened
<1>5. CASE \E c \in Calls, p \in Processes :
                 /\ login[c] = "idle" /\ Admits(p)
                 /\ hits' = [hits EXCEPT ![p] = Append(hits[p], now)]
                 /\ login' = [login EXCEPT ![c] = "lookup"]
  <2>1. PICK c \in Calls, p \in Processes :
                 /\ login[c] = "idle"
                 /\ hits' = [hits EXCEPT ![p] = Append(hits[p], now)]
                 /\ login' = [login EXCEPT ![c] = "lookup"]
    BY <1>5
  <2>2. LetIn' = LetIn \cup {c} /\ c \notin LetIn
    BY <1>2, <2>1 DEF LetIn
  <2>3. IsFiniteSet(LetIn') /\ Cardinality(LetIn') = Cardinality(LetIn) + 1
    BY <1>1, <2>2, FS_AddElement
  <2>4. \A q \in Processes :
           hits'[q] = IF q = p THEN Append(hits[p], now) ELSE hits[q]
    BY <2>1 DEF DInv, IInv, TypeOK
  <2>5. \A q \in Processes : Len(hits'[q]) <= Cardinality(LetIn) + 1
    <3>1. Len(Append(hits[p], now)) = Len(hits[p]) + 1
      BY <1>2 DEF DInv, IInv, TypeOK
    <3>2. \A q \in Processes : Len(hits[q]) <= Cardinality(LetIn)
      BY DEF DInv, HitsCounted
    <3>3. Len(hits'[p]) <= Cardinality(LetIn) + 1
      <4>1. hits'[p] = Append(hits[p], now)
        BY <2>4
      <4>2. Len(hits'[p]) = Len(hits[p]) + 1
        BY <3>1, <4>1
      <4>3. Len(hits[p]) \in Nat /\ Len(hits[p]) <= Cardinality(LetIn)
        BY <1>2, <3>2
      <4>4. QED
        BY <1>1, <4>2, <4>3
    <3>4. ASSUME NEW q \in Processes, q # p
          PROVE  Len(hits'[q]) <= Cardinality(LetIn) + 1
      <4>1. hits'[q] = hits[q]
        BY <2>4, <3>4
      <4>2. Len(hits[q]) \in Nat /\ Len(hits[q]) <= Cardinality(LetIn)
        BY <1>2, <3>2
      <4>3. QED
        BY <1>1, <4>1, <4>2
    <3>5. QED
      BY <3>3, <3>4
  <2>6. HitsCounted'
    BY <1>1, <2>3, <2>5 DEF HitsCounted
  <2>7. /\ \A d \in Calls : login'[d] = "limited" => login[d] = "limited"
        /\ \A d \in Calls : login[d] # "idle" => login'[d] # "idle"
    BY <1>2, <2>1
  <2>8. PagesWithinLimit'
    BY <1>1, <1>2, <1>3, <1>4, <2>7 DEF DInv
  <2>9. QED
    BY <2>6, <2>8
<1>6. CASE \E c \in Calls, p \in Processes :
                 /\ login[c] = "idle" /\ call[c] = "login" /\ ~Admits(p)
                 /\ hits' = hits
                 /\ login' = [login EXCEPT ![c] = "limited"]
  <2>1. PICK c \in Calls, p \in Processes :
                 /\ login[c] = "idle" /\ call[c] = "login" /\ ~Admits(p)
                 /\ hits' = hits
                 /\ login' = [login EXCEPT ![c] = "limited"]
    BY <1>6
  <2>2. LetIn' = LetIn
    BY <1>2, <2>1 DEF LetIn
  <2>3. HitsCounted'
    BY <1>1, <2>1, <2>2 DEF DInv, HitsCounted
  <2>4. \A d \in Calls : login'[d] = IF d = c THEN "limited" ELSE login[d]
    BY <1>2, <2>1
  <2>5. CASE \E d \in Pages \X Later : login'[d] # "idle"
    BY <1>4, <2>3, <2>5
  <2>6. CASE \A d \in Pages \X Later : login'[d] = "idle"
    <3>1. c \notin Pages \X Later /\ \A d \in Pages \X Later : login[d] = "idle"
      BY <1>2, <2>4, <2>6
    <3>2. Cardinality(Opened) * Cardinality(Loads) > Limit
      BY <2>1, <3>1, LimitedMeansFull DEF DInv
    <3>3. QED
      BY <1>1, <1>2, <1>4, <2>3, <3>2
  <2>7. QED
    BY <2>5, <2>6
<1>7. CASE /\ \A p \in Processes : hits'[p] = hits[p] \/ hits'[p] = <<>>
           /\ \A c \in Calls :
                 \/ login'[c] = login[c]
                 \/ /\ login[c] \notin {"idle", "limited"}
                    /\ login'[c] \notin {"idle", "limited"}
  <2>1. LetIn' = LetIn
    BY <1>7 DEF LetIn
  <2>2. Len(<<>>) = 0
    OBVIOUS
  <2>3. \A p \in Processes : Len(hits'[p]) <= Cardinality(LetIn)
    BY <1>1, <1>7, <2>2 DEF DInv, HitsCounted
  <2>4. HitsCounted'
    BY <1>1, <2>1, <2>3 DEF HitsCounted
  <2>5. PagesWithinLimit'
    BY <1>1, <1>2, <1>3, <1>4, <1>7 DEF DInv
  <2>6. QED
    BY <2>4, <2>5
<1>8. QED
  BY <1>5, <1>6, <1>7, LoginStep DEF DInv

-----------------------------------------------------------------------------
\* Conclusions

LEMMA DashboardInit == Init => DInv
<1> SUFFICES ASSUME Init
             PROVE  DInv
  OBVIOUS
<1>1. IInv
  BY InvInit DEF Init
<1>2. PageInv
  BY CallFacts DEF Init, TokensInit, PageInv, CallTypes, CallsBegin,
     PillTellsTheTruth
<1>3. LetIn = {} /\ Opened = {}
  BY DashboardAssumption DEF Init, TokensInit, LetIn, Opened
<1>4. HitsCounted
  <2>1. IsFiniteSet({}) /\ Cardinality({}) = 0
    BY FS_EmptySet
  <2>2. \A p \in Processes : Len(hits[p]) = 0
    BY DEF Init, TokensInit
  <2>3. QED
    BY <1>3, <2>1, <2>2 DEF HitsCounted
<1>5. PagesWithinLimit
  BY DashboardAssumption DEF Init, TokensInit, PagesWithinLimit
<1>6. QED
  BY <1>1, <1>2, <1>4, <1>5 DEF DInv

LEMMA DashboardStep == DInv /\ [DashboardNext]_vars => DInv'
<1> SUFFICES ASSUME DInv, [DashboardNext]_vars
             PROVE  DInv'
  OBVIOUS
<1>1. IInv'
  BY InvStep, PagesLogIn DEF DInv, vars
<1>2. PageInv'
  BY PageStep DEF DInv
<1>3. QED
  BY <1>1, <1>2, HitsStep DEF DInv

\* The pages, their calls and the limiters' hits, in every state.
THEOREM DashboardInvariance == DashboardSpec => []DInv
BY DashboardInit, DashboardStep, PTL DEF DashboardSpec

\* A page is shown connected, or failed, exactly when its loads say so.
THEOREM PillIsTrue == DashboardSpec => []PillTellsTheTruth
<1>1. DInv => PillTellsTheTruth
  BY DEF DInv, PageInv
<1>2. QED
  BY DashboardInvariance, <1>1, PTL

\* As many pages as the limit has room for meet no 429.
THEOREM LimitIsEnough == DashboardSpec => []PagesWithinLimit
<1>1. DInv => PagesWithinLimit
  BY DEF DInv
<1>2. QED
  BY DashboardInvariance, <1>1, PTL
=============================================================================
