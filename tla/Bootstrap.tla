----------------------------- MODULE Bootstrap -----------------------------
(***************************************************************************)
(* How the database comes by its tables, demo accounts and demo data: the   *)
(* startup hooks of server processes (bootstrap_demo) and runs of the seed  *)
(* script, at once, one after another, failing and dying anywhere.          *)
(*                                                                          *)
(* An actor first sees to the tables, in a transaction of their own, then   *)
(* opens a session that does the rest and commits once.  singleWriter is    *)
(* TRUE on SQLite, where each CREATE and DROP commits by itself (the        *)
(* driver begins a transaction only at an INSERT) and one transaction       *)
(* writes at a time; FALSE on PostgreSQL, where CREATE and DROP belong to   *)
(* the transaction, a DROP waits for everyone who has used the table, and   *)
(* the database breaks a circle of waits by failing someone.                *)
(*                                                                          *)
(* A column declared unique and indexed is kept unique by an index alone,   *)
(* which CREATE INDEX makes after CREATE TABLE.  One step stands for all    *)
(* the indexes of a table.  No later start makes up for a missing one:      *)
(* create_all passes over a table that exists, and its indexes with it.     *)
(*                                                                          *)
(* The rows one call inserts are a single row here, under the key that      *)
(* makes a second such call violate a unique column: an account's name, or  *)
(* the random seed, which determines the student ids.  Different seeds are  *)
(* taken not to collide.  "Fault" marks definitions as in EngagementStore.  *)
(***************************************************************************)
EXTENDS Integers, Sequences

CONSTANTS Starters,     \* starts of a server process, each with DEMO_MODE on
          Scripts,      \* runs of scripts/seed.py
          Accounts,     \* the demo accounts, in order
          Seed,         \* Seed[a]: the random seed of actor a
          Client        \* marks a student that a request created

Actors == Starters \cup Scripts
Order == <<"users", "students", "sessions", "events">>
Tables == {Order[i] : i \in 1 .. 4}
Names == {Accounts[i] : i \in 1 .. Len(Accounts)}
Keys == Names \cup {Seed[a] : a \in Actors} \cup {Client}
Row == [by : Actors \cup {Client}, key : Keys]

ASSUME BootstrapAssumption ==
    /\ Starters \cap Scripts = {} /\ Actors # {} /\ Client \notin Actors
    /\ Accounts \in Seq(Names) /\ Accounts # <<>>
    /\ \A i, j \in 1 .. Len(Accounts) : Accounts[i] = Accounts[j] => i = j

VARIABLES singleWriter,  \* the database; it and reset never change
          reset,         \* the scripts with --reset
          pc,     \* pc[a]: the statement a is before, or how a ended
          plan,   \* plan[a]: the tables or accounts a still has to see to
          made,   \* the tables that exist
          bare,   \* those of them that are without their indexes
          rows,   \* rows[t]: the committed rows of t
          mine,   \* mine[a][t]: the rows a has inserted and not committed
          used,   \* used[a]: the tables a's transaction has read or written
          new,    \* new[a], gone[a]: those it has created, and dropped,
          gone,   \*   without having committed
          error   \* error[a]: what a failed with

own == <<mine, used, new, gone>>
setting == <<singleWriter, reset>>
tables == <<made, bare>>
vars == <<setting, pc, plan, tables, rows, own, error>>

Ended == {"up", "failed", "dead", "refused"}
Inserts == {"add", "students", "sessions", "events"}
Statements == {"account", "empty"} \cup Inserts

NoRows == [t \in Tables |-> {}]

\* The table a's next statement reads or writes, the key of the row it adds.
Target(a) ==
    CASE pc[a] \in {"account", "add"} -> "users"
      [] pc[a] \in {"empty", "students"} -> "students"
      [] pc[a] \in {"drop", "create", "index"} -> Head(plan[a])
      [] OTHER -> pc[a]
KeyOf(a) == IF pc[a] = "add" THEN Head(plan[a]) ELSE Seed[a]

Unique == {"users", "students"}

\* The tables of the set S in order; the other way round.
Only(t, S) == IF t \in S THEN <<t>> ELSE <<>>
InOrder(S) == Only("users", S) \o Only("students", S) \o Only("sessions", S)
                  \o Only("events", S)
Reversed(S) == Only("events", S) \o Only("sessions", S) \o Only("students", S)
                   \o Only("users", S)

-----------------------------------------------------------------------------
\* Database

Writes(a) ==
    \/ pc[a] \in Inserts \cup {"index"}
    \/ pc[a] \in {"drop", "create"} /\ plan[a] # <<>>
Pending(a) == \E t \in Tables : mine[a][t] # {}

\* a's next statement has to wait for the end of b's transaction.
WaitsFor(a, b) ==
    /\ a # b
    /\ IF singleWriter
       THEN Writes(a) /\ Pending(b)
       ELSE \/ /\ pc[a] = "drop" /\ plan[a] # <<>>
               /\ Target(a) \in used[b] \cup gone[b]
            \/ pc[a] = "create" /\ plan[a] # <<>> /\ Target(a) \in new[b]
            \/ pc[a] \in Statements /\ Target(a) \in gone[b]
            \/ /\ pc[a] \in Inserts /\ Target(a) \in Unique
               /\ \E w \in mine[b][Target(a)] : w.key = KeyOf(a)

Blocked(a) == \E b \in Actors : WaitsFor(a, b)

\* a is on a circle of waits.
InCircle(a) ==
    \E b \in Actors : /\ WaitsFor(a, b)
                      /\ \/ WaitsFor(b, a)
                         \/ \E c \in Actors : WaitsFor(b, c) /\ WaitsFor(c, a)

\* The keys that more than one row of t has.
Doubled(t) ==
    {k \in Keys : \E v, w \in rows[t] : v # w /\ v.key = k /\ w.key = k}

\* What a's next statement fails with.  An account is asked for with
\* scalar_one_or_none, which does not put up with two of a name.
ErrorOf(a) ==
    CASE \/ /\ pc[a] = "create" /\ plan[a] # <<>>
            /\ Target(a) \in made \ gone[a]
         \/ pc[a] = "index" /\ Target(a) \in made \ bare -> "exists"
      [] /\ \/ pc[a] = "drop" /\ plan[a] # <<>>
            \/ pc[a] \in Statements \cup {"index"}
         /\ Target(a) \notin made -> "missing"
      [] \/ /\ pc[a] \in Inserts /\ Target(a) \in Unique \ bare
            /\ \E w \in rows[Target(a)] : w.key = KeyOf(a)
         \/ /\ pc[a] = "index" /\ Target(a) \in Unique
            /\ Doubled(Target(a)) # {} -> "unique"
      [] /\ pc[a] = "account" /\ plan[a] # <<>>
         /\ Head(plan[a]) \in Doubled("users") -> "multiple"
      [] OTHER -> "none"

Runs(a) == ~Blocked(a) /\ ErrorOf(a) = "none"

Go(a, next) == pc' = [pc EXCEPT ![a] = next]
Plan(a, what) == plan' = [plan EXCEPT ![a] = what]
Touch(a) == used' = [used EXCEPT ![a] = @ \cup {Target(a)}]

\* a's transaction is over.
Release(a) ==
    /\ mine' = [mine EXCEPT ![a] = NoRows]
    /\ used' = [used EXCEPT ![a] = {}]
    /\ new' = [new EXCEPT ![a] = {}]
    /\ gone' = [gone EXCEPT ![a] = {}]

\* Fault: its connection is not closed.
AbandonHolds(a, how, why) ==
    /\ Go(a, how) /\ error' = [error EXCEPT ![a] = why]
    /\ Plan(a, <<>>)
    /\ UNCHANGED <<tables, rows, own>>

\* It is rolled back and a ends.
Abandon(a, how, why) ==
    /\ Go(a, how) /\ error' = [error EXCEPT ![a] = why]
    /\ Plan(a, <<>>) /\ Release(a)
    /\ UNCHANGED <<tables, rows>>

-----------------------------------------------------------------------------
\* The tables: create_schema

Start(a) ==
    /\ pc[a] = "off"
    /\ Go(a, IF a \in reset THEN "look_drop" ELSE "look")
    /\ UNCHANGED <<plan, tables, rows, own, error>>

\* A script without --force keeps off any other database than SQLite.
Refuse(a) ==
    /\ pc[a] = "off" /\ a \in Scripts /\ ~singleWriter
    /\ Go(a, "refused")
    /\ UNCHANGED <<plan, tables, rows, own, error>>

\* drop_all and create_all first ask the catalogue which tables there are.
LookDrop(a) ==
    /\ pc[a] = "look_drop"
    /\ Plan(a, Reversed(made)) /\ Go(a, "drop")
    /\ UNCHANGED <<tables, rows, own, error>>

Look(a) ==
    /\ \/ pc[a] = "look"
       \/ pc[a] = "drop" /\ plan[a] = <<>>
    /\ Plan(a, InOrder(Tables \ (made \ gone[a]))) /\ Go(a, "create")
    /\ UNCHANGED <<tables, rows, own, error>>

\* Fault: foreign keys without ON DELETE CASCADE.
CascadeNot(t) == {t}

\* SQLite deletes the rows first, and what refers to them by ON DELETE CASCADE.
Cascade(t) ==
    CASE t = "students" -> {"students", "sessions", "events"}
      [] t = "sessions" -> {"sessions", "events"}
      [] OTHER -> {t}

Drop(a) ==
    /\ pc[a] = "drop" /\ plan[a] # <<>> /\ Runs(a)
    /\ Plan(a, Tail(plan[a]))
    /\ IF singleWriter
       THEN /\ made' = made \ {Target(a)} /\ bare' = bare \ {Target(a)}
            /\ rows' = [t \in Tables |->
                           IF t \in Cascade(Target(a)) THEN {} ELSE rows[t]]
            /\ UNCHANGED gone
       ELSE /\ gone' = [gone EXCEPT ![a] = @ \cup {Target(a)}]
            /\ UNCHANGED <<tables, rows>>
    /\ UNCHANGED <<pc, mine, used, new, error>>

\* A table, on PostgreSQL with its indexes, which nobody sees apart from it.
Create(a) ==
    /\ pc[a] = "create" /\ plan[a] # <<>> /\ Runs(a)
    /\ IF singleWriter
       THEN /\ made' = made \cup {Target(a)} /\ bare' = bare \cup {Target(a)}
            /\ Go(a, "index") /\ UNCHANGED <<plan, new>>
       ELSE /\ new' = [new EXCEPT ![a] = @ \cup {Target(a)}]
            /\ Plan(a, Tail(plan[a])) /\ UNCHANGED <<pc, tables>>
    /\ UNCHANGED <<rows, mine, used, gone, error>>

\* The indexes of a table of a file.
Index(a) ==
    /\ pc[a] = "index" /\ Runs(a)
    /\ bare' = bare \ {Target(a)}
    /\ Plan(a, Tail(plan[a])) /\ Go(a, "create")
    /\ UNCHANGED <<made, rows, own, error>>

\* Fault: the script sees to the accounts in another order.
SchemaDoneOtherOrder(a) ==
    /\ pc[a] = "create" /\ plan[a] = <<>>
    /\ made' = (made \ gone[a]) \cup new[a] /\ UNCHANGED bare
    /\ rows' = [t \in Tables |-> IF t \in gone[a] THEN {} ELSE rows[t]]
    /\ Release(a) /\ Go(a, "account")
    /\ Plan(a, IF a \in Scripts THEN <<Accounts[2], Accounts[1]>> ELSE Accounts)
    /\ UNCHANGED error

\* The schema's transaction commits; the session begins.
SchemaDone(a) ==
    /\ pc[a] = "create" /\ plan[a] = <<>>
    /\ made' = (made \ gone[a]) \cup new[a] /\ UNCHANGED bare
    /\ rows' = [t \in Tables |-> IF t \in gone[a] THEN {} ELSE rows[t]]
    /\ Release(a) /\ Plan(a, Accounts) /\ Go(a, "account")
    /\ UNCHANGED error

-----------------------------------------------------------------------------
\* The accounts: ensure_demo_users.  Its sessions flush a pending account
\* before the SELECT for the next.

SkipAccount(a) ==
    /\ pc[a] = "account" /\ plan[a] # <<>> /\ Runs(a)
    /\ \E w \in rows["users"] : w.key = Head(plan[a])
    /\ Plan(a, Tail(plan[a])) /\ Touch(a)
    /\ UNCHANGED <<pc, tables, rows, mine, new, gone, error>>

MissAccount(a) ==
    /\ pc[a] = "account" /\ plan[a] # <<>> /\ Runs(a)
    /\ \A w \in rows["users"] : w.key # Head(plan[a])
    /\ Go(a, "add") /\ Touch(a)
    /\ UNCHANGED <<plan, tables, rows, mine, new, gone, error>>

\* An INSERT of a into t succeeds.
Put(a, t) ==
    /\ Runs(a) /\ Touch(a)
    /\ mine' = [mine EXCEPT ![a][t] = @ \cup {[by |-> a, key |-> KeyOf(a)]}]

\* Fault: each account is committed by itself.
AddAccountCommits(a) ==
    /\ pc[a] = "add" /\ Runs(a) /\ Touch(a)
    /\ rows' = [rows EXCEPT !["users"] = @ \cup {[by |-> a, key |-> KeyOf(a)]}]
    /\ Plan(a, Tail(plan[a])) /\ Go(a, "account")
    /\ UNCHANGED <<tables, mine, new, gone, error>>

AddAccount(a) ==
    /\ pc[a] = "add" /\ Put(a, "users")
    /\ Plan(a, Tail(plan[a])) /\ Go(a, "account")
    /\ UNCHANGED <<tables, rows, new, gone, error>>

-----------------------------------------------------------------------------
\* The data: is_empty and seed_demo_data

\* A --reset does not ask.
NeedNotAsk(a) ==
    /\ pc[a] = "account" /\ plan[a] = <<>> /\ a \in reset
    /\ Go(a, "students")
    /\ UNCHANGED <<plan, tables, rows, own, error>>

Ask(a) ==
    /\ pc[a] = "account" /\ plan[a] = <<>> /\ a \notin reset
    /\ Go(a, "empty")
    /\ UNCHANGED <<plan, tables, rows, own, error>>

\* Fault: nobody asks.
IsEmptyAlways(a) ==
    /\ pc[a] = "empty" /\ Runs(a)
    /\ Go(a, "students") /\ Touch(a)
    /\ UNCHANGED <<plan, tables, rows, mine, new, gone, error>>

IsEmpty(a) ==
    /\ pc[a] = "empty" /\ Runs(a)
    /\ Go(a, IF rows["students"] = {} THEN "students" ELSE "commit")
    /\ Touch(a)
    /\ UNCHANGED <<plan, tables, rows, mine, new, gone, error>>

\* Fault: an intermediate commit, as the old seeder had.
SeedStudentsCommits(a) ==
    /\ pc[a] = "students" /\ Runs(a) /\ Touch(a) /\ Go(a, "sessions")
    /\ rows' = [rows EXCEPT !["students"] =
                   @ \cup {[by |-> a, key |-> KeyOf(a)]}]
    /\ UNCHANGED <<plan, tables, mine, new, gone, error>>

SeedStudents(a) ==
    /\ pc[a] = "students" /\ Put(a, "students") /\ Go(a, "sessions")
    /\ UNCHANGED <<plan, tables, rows, new, gone, error>>

SeedSessions(a) ==
    /\ pc[a] = "sessions" /\ Put(a, "sessions") /\ Go(a, "events")
    /\ UNCHANGED <<plan, tables, rows, new, gone, error>>

SeedEvents(a) ==
    /\ pc[a] = "events" /\ Put(a, "events") /\ Go(a, "commit")
    /\ UNCHANGED <<plan, tables, rows, new, gone, error>>

\* Fault: the session is left without a commit.
CommitForgotten(a) ==
    /\ pc[a] = "commit"
    /\ Release(a) /\ Go(a, "up")
    /\ UNCHANGED <<plan, tables, rows, error>>

Commit(a) ==
    /\ pc[a] = "commit"
    /\ rows' = [t \in Tables |-> rows[t] \cup mine[a][t]]
    /\ Release(a) /\ Go(a, "up")
    /\ UNCHANGED <<plan, tables, error>>

-----------------------------------------------------------------------------
\* What goes wrong

\* Nothing catches a database error: the process or the script exits.
Fail(a) ==
    /\ ~Blocked(a) /\ ErrorOf(a) # "none"
    /\ Abandon(a, "failed", ErrorOf(a))

LockTimeout(a) ==
    /\ singleWriter /\ Blocked(a)
    /\ Abandon(a, "failed", "locked")

Deadlock(a) ==
    /\ ~singleWriter /\ InCircle(a)
    /\ Abandon(a, "failed", "deadlock")

Crash(a) ==
    /\ pc[a] \notin Ended \cup {"off"}
    /\ Abandon(a, "dead", "none")

\* A request to a server that is up creates a student (EngagementStore).
Write ==
    /\ \E s \in Starters : pc[s] = "up"
    /\ "students" \in made
    /\ IF singleWriter THEN \A b \in Actors : ~Pending(b)
       ELSE \A b \in Actors : "students" \notin gone[b]
    /\ rows' = [rows EXCEPT !["students"] =
                   @ \cup {[by |-> Client, key |-> Client]}]
    /\ UNCHANGED <<pc, plan, tables, own, error>>

Quiet == (\A a \in Actors : pc[a] \in Ended) /\ UNCHANGED vars

Advance(a) ==
    /\ \/ LookDrop(a) \/ Look(a) \/ Drop(a)
       \/ Create(a) \/ Index(a) \/ SchemaDone(a)
       \/ SkipAccount(a) \/ MissAccount(a) \/ AddAccount(a)
       \/ NeedNotAsk(a) \/ Ask(a) \/ IsEmpty(a)
       \/ SeedStudents(a) \/ SeedSessions(a) \/ SeedEvents(a) \/ Commit(a)
       \/ Fail(a) \/ LockTimeout(a) \/ Deadlock(a)
    /\ UNCHANGED setting

Init ==
    /\ singleWriter \in BOOLEAN
    /\ reset \in SUBSET Scripts
    /\ pc = [a \in Actors |-> "off"]
    /\ plan = [a \in Actors |-> <<>>]
    /\ made = {} /\ bare = {} /\ rows = NoRows
    /\ mine = [a \in Actors |-> NoRows]
    /\ used = [a \in Actors |-> {}]
    /\ new = [a \in Actors |-> {}] /\ gone = [a \in Actors |-> {}]
    /\ error = [a \in Actors |-> "none"]

Next ==
    \/ \E a \in Actors : Advance(a)
    \/ /\ \/ \E a \in Actors : Start(a) \/ Refuse(a) \/ Crash(a)
          \/ Write \/ Quiet
       /\ UNCHANGED setting

Spec == Init /\ [][Next]_vars

\* A started actor goes on: the database answers, or breaks the circle.
FairSpec == Spec /\ \A a \in Actors : WF_vars(Advance(a))

-----------------------------------------------------------------------------
\* Properties

NoReset == reset = {}
Seeded(t) == {w \in rows[t] : w.by # Client}

\* Demo data are there whole or not at all, with every demo account, and no
\* table has rows and does not exist; except where a --reset on SQLite has
\* dropped some of the tables.
AllOrNothing ==
    NoReset \/ ~singleWriter =>
        /\ Seeded("students") = rows["sessions"]
        /\ rows["sessions"] = rows["events"]
        /\ rows["events"] # {} => Names = {w.key : w \in rows["users"]}
        /\ \A t \in Tables : rows[t] # {} => t \in made

\* Whatever a --reset drops under others' feet, no session or event is left
\* without what it belongs to.
NoOrphans ==
    rows["events"] \subseteq rows["sessions"]
    /\ rows["sessions"] \subseteq rows["students"]

\* Without a --reset, however many starts and scripts with whatever seeds run
\* at once, the data are seeded at most once, and an account has one row once
\* the index of its table is there.  A start that dies before it makes that
\* index leaves a file whose accounts two others can create twice.
SeededOnce ==
    NoReset => /\ \A v, w \in Seeded("students") : v = w
               /\ "users" \notin bare => Doubled("users") = {}

Ready ==
    /\ made = Tables /\ Names = {w.key : w \in rows["users"]}
    /\ \A t \in Tables \ {"users"} : rows[t] # {}

\* Without a --reset, a process is only up over a database that is ready.
UpMeansReady == NoReset => \A a \in Actors : pc[a] = "up" => Ready

\* Without a --reset, a start fails on a unique column, or on an account that
\* is there twice, only when another has got everything done, and starts that
\* get in one another's way never fail all of them.
LoserFindsItDone ==
    NoReset =>
        /\ \A a \in Actors : error[a] \in {"unique", "multiple"} => Ready
        /\ \E a \in Actors : pc[a] # "failed" \/ error[a] \in {"none", "locked"}

\* Without a --reset no circle of waits comes about.
NoDeadlock == NoReset => \A a \in Actors : error[a] # "deadlock"

\* Every start and every script run ends, up or not.
EveryActorEnds ==
    \A a \in Actors : pc[a] \in {"look", "look_drop"} ~> pc[a] \in Ended

\* A server that comes up while no script is at work and the tables are there
\* does so over accounts and data, unless a client's student was there first.
Repairs ==
    \A s \in Starters :
        /\ pc[s] # "up" /\ pc'[s] = "up"
        /\ made = Tables /\ \A x \in Scripts : pc[x] \in Ended
        => Ready' \/ Seeded("students") # rows["students"]

\* "The startup hook must create the schema, the demo users and the data"
\* (tests/test_legacy_and_pages.py).  On PostgreSQL it does, whatever a script
\* has left behind: a --reset that stops leaves the old tables.  On SQLite it
\* can leave a table dropped, and others that no later start fills again.
StartupRepairsOnPostgreSQL == [][~singleWriter => Repairs]_vars
=============================================================================
