# A verification project for the student-engagement API

TLA+ models of the student-engagement API (a FastAPI service with a SQLAlchemy
async persistence layer, SQLite in development and PostgreSQL in production,
and a small browser dashboard), TLC configurations that check them on small
instances, and TLAPS proofs, for every instance, of all the safety and action
properties that are checked.

Paths below are relative to the repository, `app/application/services.py` and
so on.

## The system

### Components, state, operations

| component | state | operations | what makes it correct |
|---|---|---|---|
| Write path: routers, services, repositories (`routers/{students,sessions,events}.py`, `services.py`, `repositories.py`) | the rows of `students`, `learning_sessions`, `engagement_events`; a coroutine per request | `create_student`, `create_session`, `create_event`, `get_student` | unique keys hold under concurrent creates; a child has its parent; what was acknowledged is what is stored |
| Request session (`infrastructure/db.py`, `adapters/api/deps.py`) | one transaction per request | open, commit on leaving the dependency, roll back when the commit raises | a request is all or nothing, also when the process dies |
| Paginated lists (`repositories.py` `_paginate`, `entities.py` `Page`) | none of its own; two SELECTs over the tables | count, then one slice | a client walking the pages sees every row, once |
| Role checks (`deps.py`, `entities.py` `Role`) | the role of a token | allow or 403 | a read role never writes |
| Tokens and accounts (`infrastructure/security.py`, `settings.py`, `routers/auth.py`) | the process's signing secret, accounts in `users` | login, decode, refuse | a token is accepted only while valid, by a process that shares the secret |
| Credential limiter (`adapters/api/ratelimit.py`) | a deque of attempt times per address | admit or 429 | never more than the limit in a window |
| Dashboard client (`static/js/`) | a token cache per role | login on demand, fetch, retry | shows data after a load; does not exhaust the limiter |
| Bootstrap (`infrastructure/seed.py`, `scripts/seed.py`, `main.py` lifespan) | rows of every table | create tables, demo users, demo data | one set of demo accounts and data, however often and concurrently it runs |
| Analytics reads (`repositories.py`, `services.py`) | none; up to five SELECTs | `summary`, `student_score`, ... | figures that fit one another |
| Scoring (`application/scoring.py`) | none; pure functions | components, composite, band | in bounds, monotone, the band fits the score |
| Validation and timestamps (`application/dto.py`, `repositories.py` `_as_utc`) | none of its own; times as the database kept them | accept, or 422; normalise on the way out | what was accepted is what is read later |
| Errors and middleware (`errors.py`, `middleware.py`, `main.py`) | a correlation id and a log context per request | map outcomes to problem+json, log | each outcome has its documented status; response and log carry one id and agree |
| Legacy routes, health, logging, pages, charts | none | delegate, render | nothing of their own |

### How they interact

A request enters the middleware, then a router, whose dependencies give it a
role, a database session and a service. The service calls repositories; each
repository call is an `await` on the database, and at each `await` the event
loop may run any other request of the process. Other processes (replicas, the
seed script) share nothing with this one but the database. The session commits
when its dependency is left. With the pinned FastAPI (0.141.1) that is after the
response has been sent.

### What is hard here

* Every check is one SELECT and every write a later INSERT: whatever other
  requests commit in between is not seen by the check.
* The acknowledgement comes before the commit, so a commit that fails, a
  process that dies, or a follow-up request that is quick meets a row that was
  promised and is not there.
* SQLite and PostgreSQL differ in what makes an INSERT wait, in whether waiting
  can fail, and in whether a lost key is handed out again.
* `get_db` runs `session_scope` with `async for`. An exception of a handler
  reaches `get_db`, not the `try` inside `session_scope`, so the explicit
  `rollback()` there only runs when the commit itself raises. After a failed
  flush SQLAlchemy has already rolled back, and closing the session drops what
  is left; the net effect is the one modelled.
* A page is two SELECTs, and a walk is many requests.
* Clients choose the times of their rows, with any offset or none; the two
  databases keep different things of them.
* The stack of middlewares, handlers and tasks decides which of them an answer
  passes, and what the log knows at that moment.

`PROJECT.json` lists each hazard at its line with the properties that would
notice it going wrong.

## The modules

| module | what it is |
|---|---|
| `Schema` | the shared vocabulary: roles, operations, tables, which table an operation reads and writes, when two students clash |
| `Registry` | the abstract specification: a client asks, and gets an answer; a row that was acknowledged may be published, whole, once |
| `EngagementStore` | the handlers of the write path, one step per `await`, over the database |
| `EngagementStoreProofs` | theorems about `EngagementStore` |
| `MCEngagementStore` | symmetry for TLC |
| `Paging` | `_paginate` and a client that walks the pages while rows are being committed |
| `MCPaging` | small instances, with pages of two rows |
| `PagingProofs`, `BootstrapProofs`, `AnalyticsReadsProofs`, `HistoryProofs`, `ResponsesProofs` | theorems about the module of that name |
| `DashboardProofs` | theorems about `AccessTokens` and about `Dashboard` |
| `Sums` | lemmas about sums over finite sets, greatest elements and quotients, for the proofs about means and scores |
| `Bootstrap`, `MCBootstrap` | startup hooks and runs of the seed script over an empty or used database, statement by statement |
| `AnalyticsReads`, `MCAnalyticsReads` | the SELECTs of `summary` and `student_score` between commits, and the ranking of `top-students` |
| `AccessTokens`, `MCAccessTokens` | logins, the limiter, tokens, clocks and restarts of several processes |
| `Dashboard`, `MCDashboard` | pages in a browser, composed with `AccessTokens` by `EXTENDS` |
| `Scoring` | the functions of `scoring.py`, over exact fractions |
| `Timestamps` | times with and without offsets: comparing, storing, reading |
| `History`, `MCHistory` | one student's sessions and events as they are posted and read while time passes, composed of `Scoring` and `Timestamps` |
| `Responses`, `MCResponses` | the middleware stack, the error handlers and the log, for requests that interleave |

A definition marked *Fault* is the definition that follows it with a plausible
bug. No specification uses one. They show that each property can fail: with the
faulty definition in the other's place TLC finds the property violated
(`PROJECT.json`, "mutants").

### EngagementStore and the code

| model | code |
|---|---|
| `req[r]` | the request's operation, caller role and body, the process that took it, and (history) which acknowledgements had named its target when it was sent |
| `pc[r]` | the `await` the handler's coroutine is before |
| `outcome[r]` | the exception or result the handler ends in; `HttpStatus` is what `errors.py` makes of it |
| `pk[r]` | the key the flushed row was given |
| `table[t]` | the committed rows |
| `seq[t]` | PostgreSQL's sequence of the `id` column |
| `Forbid` | `require_role` in `deps.py` |
| `CheckStudentId`, `CheckEmail` | the two SELECTs of `StudentService.create_student` |
| `CheckStudent`, `CheckSession` | the parent lookups of `create_session`, `create_event` |
| `Insert`, `InsertFails`, `LockTimeout` | `add` and `flush` in the repositories; success, a violated constraint, SQLite's busy timeout |
| `Respond` | the route returns and the 201 leaves |
| `Commit`, `CommitFails` | leaving `session_scope` |
| `Crash(p)` | a process dies and its transactions go with it |

The databases are external and modelled from what the code relies on. A SELECT
sees what is committed when it runs: PostgreSQL's default is READ COMMITTED, and
on SQLite the driver starts a transaction only at the first write, so the
SELECTs before it run in autocommit. On SQLite an INSERT takes the only write
lock, and a key is one more than the table's largest. On PostgreSQL an INSERT
that has the unique key of an uncommitted row waits until that row's
transaction ends, and a key comes from a sequence, which a rollback does not
turn back. A blocked INSERT is modelled as not yet issued. In PostgreSQL it has
already drawn its key and may hold an entry in one unique index while it waits
for another. As a transaction has a single INSERT and all of them visit the
indexes in the same order, this makes no cycle of waits, and no property
depends on when the key was drawn.

`CommitFails` is a commit that raises with nothing stored. A commit that
raises although the database has made it durable (the connection breaks in
between) is, for everything a client or the database can see, `Commit`, since
the response is long gone.

### Paging and the code

A client asks for page 1, 2, ... until the `pages` it was last told. Each page is
two steps, `Count` and `Items`, and commits happen anywhere. `newestFirst`
(chosen once, in `Init`) distinguishes the event and
session lists (`timestamp` or `start_time` descending, then `id` descending, where
the times are chosen by the clients) from the student list (`id` ascending). On SQLite rows are committed in the
order of their keys, on PostgreSQL in any order. The filters of a list are the
field `match`. `MaxRows` bounds the keys, and so the length of a walk.

### Bootstrap and the code

| model | code |
|---|---|
| `Starters`, `Scripts` | runs of `lifespan` with `DEMO_MODE` on; runs of `scripts/seed.py` |
| `LookDrop`, `Drop`, `Look`, `Create`, `Index`, `SchemaDone` | `drop_all` and `create_all` inside `create_schema`'s transaction |
| `made`, `bare` | the tables there are, and those of them without their indexes |
| `SkipAccount`, `MissAccount`, `AddAccount` | the loop of `ensure_demo_users` |
| `Ask`, `NeedNotAsk`, `IsEmpty`, `SeedStudents`, `SeedSessions`, `SeedEvents` | `is_empty` and `seed_demo_data` |
| `Commit` | the one commit of `bootstrap_demo`, and of the script |
| `Fail`, `LockTimeout`, `Deadlock`, `Crash` | the ways a run ends early |

SQLite's driver begins a transaction only at an INSERT, so each CREATE and DROP
commits by itself and a `--reset` is visible, and survives a crash, half done.
On PostgreSQL they belong to the transaction; a DROP waits for whoever has used
the table, and the database breaks circles of waits. `create_all` asks the
catalogue once per table, which is one `Look` here: what it finds can be stale
by the time of the CREATE in either form.

A column with `unique=True, index=True` gets no constraint in its CREATE TABLE
but a CREATE UNIQUE INDEX after it. On SQLite that is a second commit, so others
meet a table that is still `bare`, and a crash leaves it so: `create_all` passes
over a table that exists, its indexes included. One `Index` stands for all the
indexes of a table; a crash between two of them leaves what a crash before the
first leaves, as far as each unique column is concerned. In a `bare` table an
INSERT violates nothing, a CREATE UNIQUE INDEX fails over rows that are doubled,
and `scalar_one_or_none` fails on an account that is (`"multiple"`). On
PostgreSQL nobody sees a table before the transaction that makes it with its
indexes has committed. `EngagementStore` and the others begin with a schema that
has its indexes, as every start that was not cut off leaves it.

The rows that one `add_all` inserts
are one row, under the key that makes a second such call violate a unique
column. Different random seeds are taken not to produce the same `student_id`.
SQLAlchemy flushes a pending account before the SELECT for the next
(`autoflush`), so accounts are inserted one at a time. `InCircle` finds circles
of up to three, which is all there are among the actors that may wait. A commit
that raises is `Crash` or `LockTimeout` for everybody else. PostgreSQL's queue
of lock requests is left out: a request blocked behind another blocked one is
one that has not been issued.

### AnalyticsReads and the code

Each SELECT of `SqlAlchemyAnalyticsRepository.summary`, `student_activity` and
`list_for_student` is an action, and other requests' rows are committed between
them, parents first (`ReferentialIntegrity` of `EngagementStore`). Nothing is a
snapshot: PostgreSQL runs at READ COMMITTED, and SQLite reads in autocommit. A
mean is a pair, the sum and the number of its terms. `engagement_trend` is in
`History`; `sessions_by_course`, one aggregate SELECT, is not modelled.

### AccessTokens, Dashboard and the code

| model | code |
|---|---|
| `secret[p]`, `SecretOf` | `jwt_secret_key`, from the environment or drawn once per process (`get_settings` is cached) |
| `Hit`, `Admits` | `auth_rate_limit`, the first thing a login meets; the moving window of `limits`, in the memory of the process |
| `Lookup`, `Refuse`, `Issue` | `AuthService.authenticate`: the SELECT, the bcrypt comparison, `create_access_token` |
| `Expiry`, `Accepts` | `int(expire.timestamp())`; PyJWT's checks of the signature, `iat`/`nbf` and `exp` in `decode_access_token` |
| `Restart` | a machine stopped and started (both deployment files do), with the logins it had |
| `Deactivate` | an operator's UPDATE: no operation of the API changes an account |
| `Open` | `init` of `dashboard.js`: all loads reach their first `await`, `fetch('/demo-credentials')`, before any token is there |
| `Press` | a later call: a step of the tour, or the write it demonstrates |
| `Credentials`, `SendLogin`, `TakeToken`, `LoginFailed` | `login()` of `api.js` |
| `Answer` | the response of an `apiGet`; a replica is chosen for each request |
| `Done`, `Failed` | `Promise.all` in `init` |

A page is a tab from its load to its reload, with an empty `accessToken`. The
limiter's key is the client's address, and all clients of the model share one.
The global bucket of slowapi (120 a minute) is left out. `Refuse` may happen to
any login in `AccessTokens`; `Dashboard` leaves it out, since a page logs in with
what the server has just handed it. (If a demo password is changed in the
environment after the first start, `ensure_demo_users` keeps the old one, and
every page gets a 401. That is a matter of configuration and not modelled.)

### Scoring, Timestamps, History and the code

| model | code |
|---|---|
| `quality_component`, `breadth_component`, `recency_component`, `band_for`, `score_student` | the functions of `scoring.py` of these names |
| `composite`, `Rounded` | the sum inside `score_student`, `round(x, 4)` |
| `Stored(t, sqlite)` | a `DateTime(timezone=True)` column: SQLite's driver formats a time without its offset, PostgreSQL keeps the instant |
| `as_utc` | `_as_utc` of `repositories.py` |
| `Comparable`, `EndAfterStart` | `SessionCreate._end_after_start`; times of which one has no offset do not compare, which is a `TypeError` and a 500 |
| `PostSession`, `PostEvent` | validation, the service's derived duration or default time, the row, and the 201, made of the row still in memory |
| `Through(t)` | what was sent, what the 201 tells, what is kept |
| `engagement_trend(days)` | the one SELECT of the trend; a point keeps its mean as a fraction |
| `Scored` | `list_for_student`, as `student_score` passes it on |

Scores and components are integers in parts of 10000, quotients are pairs that
are compared by cross-multiplying, so nothing is rounded but what a response
rounds. Floating-point error is left out; breadth is a fifth of 10000 at most
five times, so its quotient is exact too. `clamp` never acts and is left out:
all components and the composite are between 0 and 1 without it
(`NothingToClamp`, which is proved for every history). The half-life is the
constant `Decay`; what is assumed of it, `DecayAssumption`, is that it starts
at 1 and falls. A tick is half a day in the runs. Who may post, missing
parents, and commits that fail are `EngagementStore`'s.

PostgreSQL's `date()` and its naive times are those of the server's time zone,
which is taken to be UTC.

### Responses and the code

| model | code |
|---|---|
| `Arrive` | `RequestContextMiddleware` up to its call of the app |
| `AnsweredOnTheWay` | CORS answering a preflight; slowapi's middleware refusing |
| `Authenticate` | `get_current_user` with a good token: the user goes to the scope's state and the log context |
| `IssueToken` | `issue_token` with a good password: the user goes to the scope's state alone |
| `Problem` | a `DomainError`, `RequestValidationError`, `HTTPException` and its handler |
| `Succeed`, `LeaveScopes` | the route's response, a file's own 400 or 416 for a bad `Range` included, then the exits of its dependencies |
| `Send` | the two `send_wrapper`s |
| `RequestCompleted`, `RequestFailed` | the two ways out of `RequestContextMiddleware` |
| `Unhandled` | the catch-all handler, which Starlette calls in the outermost layer, around all middlewares |
| `ctx[r]`, `Log` | the context variables of the task, and `merge_contextvars` |
| `state[r]` | `scope["state"]` |
| `logins` | (history) the requests that were given a token |

`Arrive` lets a request inherit the context of any other: that of a pipelined
one is a copy of the context of the task that has read it. `limiter` is
`rate_limit_enabled`; with it on, slowapi's middleware runs what is inside it in
a second task. A handler that is `async` is not called by that middleware, so
its own 429 is not a problem document. An exception after the response has
started is `RequestFailed` at `started`. Of the log the model has the lines
that describe a request; one logged twice with the same content is one element.

## The runs

| run | instance | shows |
|---|---|---|
| `store` | 3 requests, 2 processes, 2 student ids, 2 emails, 2 roles, either database | unique keys, present parents, nothing stored that was not acknowledged, one winner, the parent that was meant (PostgreSQL), the inductive invariant, and the implementation of `Registry` |
| `store_live` | 3 requests, 1 process, no symmetry, one id and email, either database | every request ends, and every acknowledged row is committed or lost with its transaction |
| `store_duplicate` | 2 requests | violated: a duplicate student can be answered 500 |
| `paging_walk` | 5 rows, pages of 2; either kind of collection, on either database | a walk over an append-only order is complete: it misses nothing and sees nothing twice; any walk leaves no row behind it, and misses one only when a page's total was stale |
| `bootstrap` | 2 starts, 1 script with another seed, with or without `--reset`, on either database | whatever fails or dies, data and accounts are there once, whole; a process is only up over a ready database; no circle of waits; half a reset orphans no row; on PostgreSQL starts repair what a script left; everyone ends |
| `analytics_reads` | 2 students, sessions, events, 2 scores | what the figures of one response have to do with one another, whatever is committed between its SELECTs; a ranking without gaps |
| `tokens` | 2 replicas with a common key and clocks that differ, 2 logins, a limit of 1, one restart | life of a token to within its last second and the skew; deactivation; the moving window, through a restart |
| `dashboard` | a page of 2 loads, 1 later call, a restart, a limit of 2 | the pill fits the loads; 429 only when the logins exceed the limit; a page settles |
| `history` | 2 rows, 3 types, 4 scores, 3 clock readings, offsets 0, half a day and none, a clock that runs for 2 days, either database | reads confirm what the 201 said, and a duration is the distance of the times shown, but where SQLite has dropped an offset; a good event never lowers the score, waiting never raises it, the band fits it; the trend sums up what the list shows, and only ages |
| `history_offsets` | the same with 1 row | violated: a session shown to end before it starts |
| `responses` | 3 requests, 2 users, 1 id that clients share, limiter on or off | one id throughout; no line names another request's user, and which lines name the request's own; one response and one access line, which agree |
| `responses_problems` | 2 requests | violated: errors that are no problem documents |

The database is a variable that never changes (`singleWriter`, in `History`
`sqlite`), and so are the kind of collection (`newestFirst`), the scripts that were
given `--reset` (`reset`) and the limiter's setting (`limiter`): one run covers
all combinations, and a theorem speaks of all of them.
`--force` is the choice between `Refuse` and `Start` on PostgreSQL.

### Bounds

Three requests are what the chains need: a student, its session and its event;
or two creates that clash and a third that builds on the loser. Two values of
each key are one more than a clash needs, and let a student clash with two
others on different columns. Two roles are one that may write and one that may
only read. `MaxPk` is the number of requests, and a request draws at most one
key, so the bound never cuts a behaviour off. Two processes let one die while
the other lives. `Paging` bounds the rows of the collection, and with them the
length of a walk: up to three pages of two, the last full or half full, on either
database, over either kind of collection.

`Bootstrap` needs two starts for a race and a script for another seed; a third
start only repeats what the second sees. It has the three accounts of the code,
the tables of the code, and no bound but the number of actors. Two starts and a script are also
one to leave `users` without its index and two to race over it. Starting again
after a failure is another actor.

In `AnalyticsReads` two rows of each table are one to be there before a SELECT
and one to come between two of them; a request is followed by another, so
that the first sees empty tables and a later one does not.

In `AccessTokens` a token's fate does not depend on other logins, so one login is
enough for its life; the limiter needs one login more than its limit, which is 1.
Two ticks to a second let a login fall inside a second. `MaxTime` reaches beyond
the life of a token issued late, and `MaxStarts` allows one restart. `Dashboard`
has two loads for the four of the code, with the limit scaled from ten to one
page's worth, so that the call that follows a failed page exceeds it, as the
third page within a minute does in the code.

In `History` two rows are what every property needs: two events for a quotient
of two terms, a day of two, or one event that joins another; a session with its
two times. Half a day is the smallest offset that moves a time to another day
with two ticks to a day. The scores are the ends, the middle, with which a fresh
`page_view` makes 0.6 * 0.5 + 0.2 and meets a threshold exactly, and 9166, with
which it makes 0.74996 and is shown as 0.75. The clock goes on for
two days, twice the shorter window. In `Responses` three requests allow two
that have inherited from one another, and a third; a supplied id that two
clients share is the worst case for tracing.

Runs with a clock end when it stops, hence `CHECK_DEADLOCK FALSE`.

`Quiet` lets a run whose requests have all ended stutter explicitly, so that
deadlock checking is on: a state where some request waits and nothing can move
would be reported.

### Fairness

`FairSpec` has weak fairness of each handler by itself: the event loop resumes
every coroutine whose `await` is over, and the database answers every statement
that is not blocked. Nothing is assumed of clients (`Receive`) or of crashes.
Weak fairness is enough for a blocked INSERT because what it waits for is
itself fair to end: on SQLite it either times out or gets the lock, on
PostgreSQL the blocker commits, fails or is dropped. With three requests TLC
covers both. No lock scheduler is modelled as fair between waiters: a writer
starved by an unending stream of others does not show in a bounded number of
requests, and is bounded in reality by the busy timeout or the statement's own.

`Bootstrap`'s `FairSpec` is weak fairness of each actor's `Advance`: a started
process or script goes on, and PostgreSQL breaks a circle of waits by failing
one on it. `Start` and `Crash` are not fair. `Dashboard`'s is weak fairness of
each call: the server answers, and the browser resumes the function that awaits
the answer. The network may fail a call but need not, and neither the user nor
the clock has to move.

## What is proved

Every invariant and every action property that a passing run checks is also a
theorem, for every value of the constants that the named assumptions admit, and
so are two implementations of one specification by another. What is left to TLC
is at the end of this section.

### The write path: `EngagementStoreProofs`

For any number of requests, processes, ids and emails, on both databases:

| theorem | statement |
|---|---|
| `Invariance` | `Spec => []IInv` |
| `TypeCorrect`, `KeysAreUnique`, `ParentsExist`, `OnlyAcknowledgedRows`, `AtMostOneWinner`, `ParentCheckIsEnough` | `TypeOK`, the safety properties of the run `store`, and `ParentCheckSuffices`: a create whose parent check passed cannot fail on the foreign key |
| `ParentIsMeant` | `MeantParent`, which says something of PostgreSQL only |
| `Refinement` | `Spec` implements `Registry` |

The only assumption is `StoreAssumption`: `MaxPk` is a natural number, roles are
roles, and `NoRequest` is no request.

None of the safety properties is inductive. `UniqueKeys` is
kept by a commit only because the row being committed was checked against the
table at its INSERT, and has fitted it ever since; that is `PendingFits`. It
says of each row flushed and not committed that it violates no constraint
against what is committed and that no other such row clashes with it: on SQLite
because there is no other, on PostgreSQL because `WaitsFor` kept one of the two
from being inserted. `PendingFits` survives another request's commit because
that request's row was itself pending and did not clash. Primary keys need
`KeysGivenOnce` on PostgreSQL (the sequence is above every key given). Foreign
keys and `ParentCheckSuffices` need `ParentStays`: nothing deletes rows, so a
parent that was seen is there at the INSERT. `MeantParent` follows from
`KeysGivenOnce`, `RowsAreAcknowledged` and `ToldIsTrue`, and fails on SQLite,
where the row id of a lost row is handed out again; there a session may hang on
a student its client never meant. `Refinement` uses `IInv` at each step: a
refusal in the code must be one that `Registry` allows, so its reason must be
true of the committed rows.

### Startup and seeding: `BootstrapProofs`

For any number of starts and script runs, any accounts and any seeds, on both
databases:

| theorem | statement |
|---|---|
| `WhereActorsAre`, `TablesStand`, `DataStand`, `AloneStands` | the four layers of the inductive invariant |
| `NothingIsOrphaned`, `DataAreWhole` | `NoOrphans`, `AllOrNothing` |
| `StartupRepairs` | `StartupRepairsOnPostgreSQL`, an action property |
| `UpIsReady`, `LosersFindItDone`, `SeedingHappensOnce` | `UpMeansReady`, `LoserFindsItDone`, `SeededOnce` |
| `NobodyDeadlocks` | `NoDeadlock` |

`BootstrapAssumption` says that starts and scripts are different and that there
is one of either, that no client is one, and that the accounts are a sequence
without repetitions, which is not empty.

The invariant is built in layers, each proved with the ones before it.
`PlaceInv` says of each actor by itself what it has planned, used and inserted
when it is before a statement. `TableInv` says how far the tables of one actor
fit another's: on PostgreSQL they are there or not all together, and who drops
them keeps everybody apart from them; on a file without a `--reset` they appear
in their order, and nobody meets one missing that it has counted on. `DataInv`
adds that the accounts an actor has passed are there, or among its own rows, so
that a set of data is committed with all of them, and that who finds nothing to
seed has found students. `AloneInv`, for the runs without a `--reset`, has the
core of `SeededOnce`: who seeds has inserted every account itself, so of two
that would both seed, one waits for the other's account or fails on it; hence
no account is twice there, uncommitted ones counted, once `users` has its index
(`KeysApart`; without it they can be, see the findings), and
whoever fails on a unique column, or on an account found twice, does so against
rows that came with everything else (`ErrorFits`). That the data are seeded once
even while `users` and `students` have no index rests on files having one writer
(`OneWriter`): who seeds has inserted all the accounts itself
(`SeederHasAccounts`), has held the write lock since, and so has asked for
students that nobody else could add (`SeederIsFirst`).
`SomeSurvive` is what the second half of `LoserFindsItDone` needs:
of those who create tables side by side on a file, one meets none that another
has made. `NobodyDeadlocks` rests on a measure: whoever is waited for has fewer
tables or accounts left to see to than who waits (`WaitsGoDown`), because all go
through them in one order and nobody inserts anything else before the accounts.

### Tokens and pages: `DashboardProofs`

For any number of processes, logins, users, restarts, pages and loads, and any
lifetime, window, limit and skew:

| theorem | statement |
|---|---|
| `Invariance`, `TokensExpire`, `TokensLast`, `WindowKept`, `DeactivationHolds` | the properties of the run `tokens` |
| `PagesAreClients` | `DashboardSpec => Spec`: to the servers, pages are clients who log in |
| `DashboardInvariance`, `PillIsTrue`, `LimitIsEnough` | the safety properties of the run `dashboard` |

`TokensAssumption` makes the bounds natural numbers, `DashboardAssumption` the
logins those of the pages, and the loads of a page finite and not empty.

For the life of a token, `ClaimsFit` keeps that its claims are those of some
clock within the skew when it was issued. `WindowHolds` is inductive once no
hit lies ahead (`HitsArePast`): a hit is let in when fewer than the limit lie in
the window that ends with it, and completes no earlier one.
`DeactivationCatchesUp` needs `ReadWhileActive`: a login between its two awaits
has read its account no later than it was deactivated. By `PagesAreClients` all
of that holds of the servers behind the pages. `PagesWithinLimit` needs that a
limiter never remembers more hits than there were logins let in
(`HitsCounted`), of which each load of an opened page makes at most one.

### Lists: `PagingProofs`

For pages of any size, any times, filters and number of rows: `NothingLeftBehind`
(`NeverLeftBehind`), `WalkCompletes` (`WalkIsComplete`) and `OnlyStaleTotalsMiss`
(`MissedOnlyByStaleTotal`, an action property), from `PagingAssumption`. What
makes them inductive is `WalkKnowsRows`, and for the students of SQLite
`OrderedWalk`: the next key is behind all others, so what has been given stays
before the page to fetch, and the total covers what the walk began with.
Positions are cardinalities of sets of rows, and a row committed moves none of
them forward.

### Figures: `AnalyticsReadsProofs`

For any number of students, sessions and events and any scores: `TotalsFit`,
`MeanFits`, `ScoreFits` and `RankingIsRight`, the properties of the run
`analytics_reads`, from `ReadsAssumption`. The invariant keeps, after each
SELECT, what it returned between what was there when the request began and what
is there now. `RankingFits` is a fact about every set of rows in which keys are
keys: means compared crosswise and then by `student_id` are a strict total order
(`RankingOrders`), and the first so many of a strict total order are so many
(`FirstOnes`).

### Times, trend and score: `HistoryProofs`

For any offsets, readings, types, scores, windows, number of rows and falling
decay, on both databases:

| theorem | statement |
|---|---|
| `AnswersConfirmed` | `ReadsConfirmAnswers` |
| `TrendIsTheList`, `TrendFades` | `TrendCountsWhatIsListed`; `TrendOnlyAges`, an action property |
| `TimeBringsNothing`, `GoodEventsHelp` | `TimeNeverHelps`, `GoodEventNeverHurts`, action properties |
| `BandIsFair` | `BandFitsScore` |
| `ClampsAreIdle` | `NothingToClamp`, which no run checks: the model may leave `clamp` out |

The assumptions are `TimeAssumption`, `HistoryAssumption` (the readings are
numbers, the types and scores those that validation admits) and
`DecayAssumption` (the decay starts at 1 and never rises). The invariant is
`Honest`, that what is kept of a time comes from what was sent of it, and
`Worked`, that a session's duration was worked out from instants. With it a
student's events are a function into scored rows, and the rest is about any
such function: an event of the weight w and the score s moves the quality n / d
to (n + w s) / (d + w), and if s is at least n / d the composite does not fall,
since breadth only gains types and recency only later times (`GoodOnTop`,
`BreadthGrows`, `RecencyMoves`). Quality is a quotient of two sums; `Sums` has what is
needed of sums over finite sets: the sum does not depend on the order of its
terms (`TotalRemove`), so a new event adds its term (`TotalAdd`).

A sum is a recursive function, and claims about it call for induction over
finite sets, whose library theorem takes an operator and cannot be used. `Sums`
argues from a smallest counterexample instead: a set of subsets of a finite set
has a member with no other below it (`SmallestOf`, from the library's theorem that
strict inclusion is well founded).

### Answers and log: `ResponsesProofs`

For any number of requests, users and supplied ids, with and without the limiter:
`Traceability`, `NoForeignNames` and `OneAnswerOneLine`, the properties of the run
`responses`, from `ResponseAssumption`. The invariant tells the story of a request
by its place in the stack: what it has sent and logged, and that its context and
its scope have the same id, whatever context its task began with (`Context`,
`Story`). Its context also has the same user, except where it has none: in a
login, and in any request behind the limiter (`Nameless`).

### Left to TLC

* Liveness: `EveryRequestEnds` and `AcknowledgedSettles` (run `store_live`),
  `EveryActorEnds` (`bootstrap`) and `PageSettles` (`dashboard`). Fairness rests
  on ENABLED, which the prover does not handle.
* That the invariants the runs expect to be violated are (`DuplicateIs409`,
  `EndsAfterStart`, `ErrorsAreProblems`): a counterexample is TLC's to find.

## Findings

1. **A concurrent duplicate gets a 500** (`DuplicateIs409`). The uniqueness
   checks and the INSERT are separate statements and nobody catches the
   `IntegrityError`, although `AUDIT.md` (B8) says that duplicates return 409.
   The data stay right (`UniqueKeys`, `OneWinner`).
2. **A session that ends before it starts** (`EndsAfterStart`, SQLite). The
   validator compares instants and the duration is worked out from them, but
   SQLite keeps the readings without their offsets and `_as_utc` relabels them as
   UTC. So a session from 01:00+01:00 to 00:30Z is accepted with a duration of
   30 minutes and read back as 01:00Z to 00:30Z, although `dto.py:115` promises
   "end_time must be after start_time" and `AUDIT.md` (E5) that all timestamps
   are UTC. The 201 itself, made from the row in memory, still has the right
   times. Events move to other days of the trend and other ages of the score
   alike, consistently in all reads (`TrendCountsWhatIsListed`).
3. **Errors that are no problem documents** (`ErrorsAreProblems`). `main.py:45`
   says that errors always are, and `errors.py:84` "Nothing may escape as an
   unformatted response." A file answers a bad `Range` with a plain-text 400 or
   416, CORS a preflight it does not allow with a plain-text 400, and slowapi's
   middleware its 429 with a document of its own. They do carry the
   `X-Request-ID` (`ResponsesAreTraceable`).

Other things do not hold. The models show them, and no run is about them:

* The commit follows the response, so a client that uses the key it was just
  given can be told 404, in the window between `Respond` and `Commit`.
  `tests/test_legacy_and_pages.py:67` does exactly this and expects 201; it runs
  in process, where the window cannot be seen.
* On SQLite a start that dies between CREATE TABLE `users` and its CREATE UNIQUE
  INDEX leaves it for good without the index that alone keeps `username` unique.
  Two later starts at once then both insert the demo accounts, although
  `seed.py:143` says "Create the three demo accounts if they are not already
  present"; `SeededOnce` excepts this by `bare`, and without the exception TLC
  finds it. From then on `scalar_one_or_none` fails every start, and a login
  under those names. The data are still seeded once, and whoever fails, fails
  over a database that is ready (`LoserFindsItDone`).
* With the limiter on, the default, what `get_current_user` binds stays in the
  limiter's inner task, and the two lines of a failed request are logged outside
  it, without its user, where `AUDIT.md` (A7) says "every authenticated request
  logs `user` and `role` alongside the correlation id". The access line of a
  request that does not fail takes the user from the state and is right
  (`LinesNameTheCaller`).
* A start time with an offset and an end time without one are answered 500
  (`PostSession`), where `AUDIT.md` (B2) says of dates that "failures are
  validation errors, not crashes".
* The catch-all's 500 has no security headers (`AnswerAndLogAgree` excepts it);
  `AUDIT.md` (F3) says "on all responses". It does have the `X-Request-ID`,
  because the problem document sets it itself.
* A login that fails after its token was made is logged without its user, also
  without the limiter: `issue_token` binds nothing (`LinesNameTheCaller`).
* On SQLite a `--reset` that stops after its first DROP leaves students without
  events, and no later start seeds them, since it finds students. On
  PostgreSQL, where the DROPs are one transaction, starts do repair it
  (`StartupRepairsOnPostgreSQL`).
* `login()` of `api.js` returns the token it remembers for as long as the page is
  open, so that on a page that outlives its token the tour's 403 is a 401.
* A page's total can differ from the collection its items were cut from (two
  SELECTs); between the two transactions of a `--reset` a start can seed the
  empty tables too; a summary can show an event and no session; replicas
  without a configured `JWT_SECRET_KEY` refuse each other's tokens.
* A score that rounding lifts onto a threshold is shown with the band below it
  (`BandFitsScore` allows that and nothing else).

## What is not modelled

* Titles, details, names and formats: data no property tells apart.
* The connection pool (5 + 10 connections): a request that waits for one is a
  request that has not begun.
* CHECK constraints on values: Pydantic's bounds on the same fields are at
  least as tight, so no INSERT reaches them.
* Issuer and audience of tokens, which never vary, and what fills slowapi's
  global bucket: `Responses` lets it refuse at any time.
* `sessions_by_course`, the tour's texts, health probes, charts.
* Deleting and updating rows: no operation does.
* Legacy routes delegate to the handlers that are modelled and keep no state.

## Plan

Modelled: the write path with its abstract specification, `Paging`, `Bootstrap`,
`AnalyticsReads`, `AccessTokens`, `Dashboard`, `Scoring`, `Timestamps`, `History`
and `Responses`. What is left of the code is listed above. Proved: all their
safety and action properties.

What further proofs could say about the code:

1. `AccessTokens`: two replicas with a common key accept the same tokens but for
   the skew of their clocks, as an action property of a restart.
2. `Registry`: that what it promises is enough for `ReferentialIntegrity` and
   `UniqueKeys` by itself, so that these follow for any implementation of it.
3. The safety halves of the liveness properties: a request that is not at its
   end has a step or waits for one that has.
