-------------------------- MODULE EngagementStore --------------------------
(***************************************************************************)
(* The write path of the student-engagement API: the handlers of            *)
(*   POST /students, POST /sessions, POST /events  and  GET /students/{id}  *)
(* of one or more server processes, interleaved at every await, over one    *)
(* database.  A handler is a coroutine: it checks the caller's role, runs   *)
(* its service (one SELECT per check), flushes its INSERT, answers, and     *)
(* only then leaves the request's session scope, which commits.             *)
(*                                                                          *)
(* singleWriter says which database the deployment has.  TRUE is SQLite: an *)
(* INSERT takes the one write lock until its transaction ends, a writer     *)
(* that waits too long gets an error, and a key is one more than the        *)
(* largest in the table.  FALSE is PostgreSQL at READ COMMITTED: an INSERT  *)
(* waits for uncommitted rows with one of its unique keys, and a key comes  *)
(* from a sequence.  Either way a SELECT sees what is committed as it runs. *)
(*                                                                          *)
(* A definition marked "Fault" is a version of the one below it with a      *)
(* plausible bug; no specification uses it, the runs must notice it.        *)
(***************************************************************************)
EXTENDS Integers, Schema

CONSTANTS Requests,     \* the requests clients send
          Processes,    \* server processes (replicas)
          StudentIds,   \* values of student_id
          Emails,       \* values of email
          CallerRoles,  \* roles of the callers
          MaxPk,        \* bound: the largest primary key handed out
          NoRequest     \* not sent yet

Pk == 1 .. MaxPk

StudentData == [student_id : StudentIds, email : Emails]
LookupData == [parent : Pk]

\* What a client can call, and the request a process works on: told is the
\* set of requests whose 201 had named the target when this one was sent.
Call == [op : {"create_student"}, role : CallerRoles, data : StudentData]
        \cup [op : Lookups, role : CallerRoles, data : LookupData]
Request == [op : {"create_student"}, role : CallerRoles, data : StudentData,
            host : Processes, told : SUBSET Requests]
           \cup [op : Lookups, role : CallerRoles, data : LookupData,
                 host : Processes, told : SUBSET Requests]

ASSUME StoreAssumption ==
    /\ MaxPk \in Nat
    /\ CallerRoles \subseteq Role
    /\ NoRequest \notin Request

VARIABLES req,      \* req[r]: the request r, or NoRequest
          pc,       \* pc[r]: how far the handler of r is
          outcome,  \* outcome[r]: what the handler decided to answer
          pk,       \* pk[r]: the key given to the row r inserted, or 0
          table,    \* table[t]: the committed rows of t
          seq,      \* seq[t]: PostgreSQL's sequence, the last key it gave
          singleWriter  \* TRUE on SQLite, FALSE on PostgreSQL

vars == <<req, pc, outcome, pk, table, seq, singleWriter>>

\* Where a handler can be: before the await named (received: before the
\* first), or done: closed, failed (its commit raised), lost (process died).
Working == {"received", "check_email", "flush", "respond", "commit"}
Ended == {"closed", "failed", "lost"}

Outcome == {"none", "created", "ok", "forbidden", "not_found", "conflict",
            "integrity_error", "locked"}

\* The status the error handlers give an outcome.
HttpStatus == [created |-> 201, ok |-> 200, forbidden |-> 403,
               not_found |-> 404, conflict |-> 409,
               integrity_error |-> 500, locked |-> 500]

Row == [pk : Pk, by : Requests, data : StudentData \cup LookupData]
RowOf(r) == [pk |-> pk[r], by |-> r, data |-> req[r].data]

-----------------------------------------------------------------------------
\* Database

\* Fault: READ UNCOMMITTED, flushed rows of others are seen.
VisibleDirty(t) ==
    table[t] \cup {RowOf(q) : q \in {l \in Requests :
        pc[l] \in {"respond", "commit"} /\ TableOf[req[l].op] = t}}

\* The rows a SELECT of any request returns from.
Visible(t) == table[t]

\* Faults: the locks end with the answer; they outlive a failed commit.
HoldsTillAnswer(r) == pc[r] = "respond"
HoldsAfterFailure(r) == pc[r] \in {"respond", "commit", "failed"}

\* r has flushed an INSERT that is not committed yet.
Holds(r) == pc[r] \in {"respond", "commit"}

\* An INSERT of r has to wait for q's transaction to end.
WaitsFor(r, q) ==
    /\ q # r /\ Holds(q)
    /\ \/ singleWriter
       \/ /\ req[r].op = "create_student" /\ req[q].op = "create_student"
          /\ SameKey(req[r].data, req[q].data)

Blocked(r) == \E q \in Requests : WaitsFor(r, q)

\* Fault: the parent of an event is looked up among the students.
TargetAmongStudents(r) ==
    \E w \in Visible("students") : w.pk = req[r].data.parent

TargetExists(r) ==
    \E w \in Visible(TargetOf[req[r].op]) : w.pk = req[r].data.parent

\* Fault: the email column is not unique.
ViolatesIdOnly(r) ==
    IF req[r].op = "create_student"
    THEN \E w \in table["students"] :
            w.data.student_id = req[r].data.student_id
    ELSE ~TargetExists(r)

\* The unique constraints of students, the foreign keys of the other two.
Violates(r) ==
    IF req[r].op = "create_student"
    THEN \E w \in table["students"] : SameKey(w.data, req[r].data)
    ELSE ~TargetExists(r)

\* Fault: PostgreSQL keys computed from the table, as SQLite's are.
NextPkFromTable(t, n) ==
    /\ \A w \in table[t] : w.pk < n
    /\ n = 1 \/ \E w \in table[t] : w.pk = n - 1

\* n is the key the database gives the next row inserted into t.
NextPk(t, n) ==
    IF singleWriter
    THEN /\ \A w \in table[t] : w.pk < n
         /\ n = 1 \/ \E w \in table[t] : w.pk = n - 1
    ELSE n = seq[t] + 1

\* A sequence keeps the keys it gave, whatever becomes of the INSERT.
Advance(t, n) ==
    seq' = IF singleWriter THEN seq ELSE [seq EXCEPT ![t] = n]

-----------------------------------------------------------------------------
\* Handlers

Go(r, next) == pc' = [pc EXCEPT ![r] = next]
Decide(r, what) == outcome' = [outcome EXCEPT ![r] = what]

\* The handler ends with nothing written: it raises and an error handler
\* answers, or it is a read.  Its session closes with nothing to undo.
Answer(r, what) ==
    /\ Decide(r, what) /\ Go(r, "closed")
    /\ UNCHANGED <<req, pk, table, seq>>

Admitted(r, op) ==
    pc[r] = "received" /\ req[r].op = op /\ req[r].role \in Permitted(op)

\* The requests whose acknowledgement tells a client the target of call c.
Told(c) ==
    IF c.op = "create_student" THEN {}
    ELSE {q \in Requests : /\ outcome[q] = "created"
                           /\ TableOf[req[q].op] = TargetOf[c.op]
                           /\ pk[q] = c.data.parent}

Receive(r) ==
    /\ pc[r] = "idle"
    /\ \E c \in Call, p \in Processes :
          req' = [req EXCEPT ![r] = [op |-> c.op, role |-> c.role,
                     data |-> c.data, host |-> p, told |-> Told(c)]]
    /\ Go(r, "received")
    /\ UNCHANGED <<outcome, pk, table, seq>>

Forbid(r) ==
    /\ pc[r] = "received" /\ req[r].role \notin Permitted(req[r].op)
    /\ Answer(r, "forbidden")

\* StudentService.create_student, its first SELECT and its second.
CheckStudentId(r) ==
    /\ Admitted(r, "create_student")
    /\ IF \E w \in Visible("students") :
             w.data.student_id = req[r].data.student_id
       THEN Answer(r, "conflict")
       ELSE Go(r, "check_email") /\ UNCHANGED <<req, outcome, pk, table, seq>>

CheckEmail(r) ==
    /\ pc[r] = "check_email"
    /\ IF \E w \in Visible("students") : w.data.email = req[r].data.email
       THEN Answer(r, "conflict")
       ELSE Go(r, "flush") /\ UNCHANGED <<req, outcome, pk, table, seq>>

\* Fault: the parent is left to the foreign key.
CheckNoStudent(r) ==
    /\ Admitted(r, "create_session")
    /\ Go(r, "flush") /\ UNCHANGED <<req, outcome, pk, table, seq>>

\* SessionService.create_session: the student must exist.
CheckStudent(r) ==
    /\ Admitted(r, "create_session")
    /\ IF TargetExists(r)
       THEN Go(r, "flush") /\ UNCHANGED <<req, outcome, pk, table, seq>>
       ELSE Answer(r, "not_found")

\* EventService.create_event: the session must exist.
CheckSession(r) ==
    /\ Admitted(r, "create_event")
    /\ IF TargetExists(r)
       THEN Go(r, "flush") /\ UNCHANGED <<req, outcome, pk, table, seq>>
       ELSE Answer(r, "not_found")

\* StudentService.get_student.
GetStudent(r) ==
    /\ Admitted(r, "get_student")
    /\ Answer(r, IF TargetExists(r) THEN "ok" ELSE "not_found")

\* The repository's add and flush: the INSERT runs, and holds its locks.
Insert(r) ==
    /\ pc[r] = "flush" /\ ~Blocked(r) /\ ~Violates(r)
    /\ \E n \in Pk :
          /\ NextPk(TableOf[req[r].op], n)
          /\ pk' = [pk EXCEPT ![r] = n]
          /\ Advance(TableOf[req[r].op], n)
    /\ Go(r, "respond")
    /\ UNCHANGED <<req, outcome, table>>

\* The INSERT breaks a constraint; nothing catches the IntegrityError, so
\* flush rolls back and the catch-all handler answers.
InsertFails(r) ==
    /\ pc[r] = "flush" /\ ~Blocked(r) /\ Violates(r)
    /\ \E n \in Pk :
          /\ NextPk(TableOf[req[r].op], n)
          /\ Advance(TableOf[req[r].op], n)
    /\ Decide(r, "integrity_error") /\ Go(r, "closed")
    /\ UNCHANGED <<req, pk, table>>

\* SQLite gives up waiting for the write lock.
LockTimeout(r) ==
    /\ pc[r] = "flush" /\ singleWriter /\ Blocked(r)
    /\ Answer(r, "locked")

\* The route returns; its 201 leaves before the session scope is left.
Respond(r) ==
    /\ pc[r] = "respond"
    /\ Decide(r, "created") /\ Go(r, "commit")
    /\ UNCHANGED <<req, pk, table, seq>>

\* Faults: the scope ends without a commit; a failing commit leaves its row.
CommitForgotten(r) ==
    /\ pc[r] = "commit"
    /\ Go(r, "closed")
    /\ UNCHANGED <<req, outcome, pk, table, seq>>
CommitFailsHalfway(r) ==
    /\ pc[r] = "commit"
    /\ table' = [table EXCEPT ![TableOf[req[r].op]] = @ \cup {RowOf(r)}]
    /\ Go(r, "failed")
    /\ UNCHANGED <<req, outcome, pk, seq>>

\* session_scope: commit, or the rollback when the commit raises.
Commit(r) ==
    /\ pc[r] = "commit"
    /\ table' = [table EXCEPT ![TableOf[req[r].op]] = @ \cup {RowOf(r)}]
    /\ Go(r, "closed")
    /\ UNCHANGED <<req, outcome, pk, seq>>

CommitFails(r) ==
    /\ pc[r] = "commit"
    /\ Go(r, "failed")
    /\ UNCHANGED <<req, outcome, pk, table, seq>>

\* A process dies with its requests; the database drops their transactions.
Crash(p) ==
    LET dies(r) == pc[r] \in Working /\ req[r].host = p
    IN  /\ \E r \in Requests : dies(r)
        /\ pc' = [r \in Requests |-> IF dies(r) THEN "lost" ELSE pc[r]]
        /\ UNCHANGED <<req, outcome, pk, table, seq>>

\* Every request of the run has ended.
Quiet == (\A r \in Requests : pc[r] \in Ended) /\ UNCHANGED vars

-----------------------------------------------------------------------------
Handle(r) ==
    /\ \/ Forbid(r) \/ CheckStudentId(r) \/ CheckEmail(r)
       \/ CheckStudent(r) \/ CheckSession(r) \/ GetStudent(r)
       \/ Insert(r) \/ InsertFails(r) \/ LockTimeout(r)
       \/ Respond(r) \/ Commit(r) \/ CommitFails(r)
    /\ UNCHANGED singleWriter

Init ==
    /\ req = [r \in Requests |-> NoRequest]
    /\ pc = [r \in Requests |-> "idle"]
    /\ outcome = [r \in Requests |-> "none"]
    /\ pk = [r \in Requests |-> 0]
    /\ table = [t \in Tables |-> {}]
    /\ seq = [t \in Tables |-> 0]
    /\ singleWriter \in BOOLEAN

Next ==
    \/ \E r \in Requests : Handle(r)
    \/ /\ \/ \E r \in Requests : Receive(r)
          \/ \E p \in Processes : Crash(p)
       /\ UNCHANGED singleWriter
    \/ Quiet

Spec == Init /\ [][Next]_vars

\* The event loop resumes every coroutine whose await has finished, and the
\* database answers every statement; nothing makes clients send or processes
\* die.
FairSpec == Spec /\ \A r \in Requests : WF_vars(Handle(r))
-----------------------------------------------------------------------------
\* Properties

TypeOK ==
    /\ req \in [Requests -> Request \cup {NoRequest}]
    /\ pc \in [Requests -> {"idle"} \cup Working \cup Ended]
    /\ outcome \in [Requests -> Outcome]
    /\ pk \in [Requests -> 0 .. MaxPk]
    /\ table \in [Tables -> SUBSET Row]
    /\ seq \in [Tables -> Nat]
    /\ singleWriter \in BOOLEAN

\* No two committed rows of a table share the primary key, and no two
\* students share student_id or email, however the checks of two
\* create_student handlers and their INSERTs interleave.
UniqueKeys ==
    \A t \in Tables : \A v, w \in table[t] :
        v # w => /\ v.pk # w.pk
                 /\ t = "students" => ~SameKey(v.data, w.data)

\* Every committed session belongs to a committed student, every event to a
\* committed session: no create links to a row whose transaction then dies.
ReferentialIntegrity ==
    /\ \A w \in table["sessions"] :
          \E v \in table["students"] : v.pk = w.data.parent
    /\ \A w \in table["events"] :
          \E v \in table["sessions"] : v.pk = w.data.parent

\* A committed row is exactly what one acknowledged request asked for under
\* the key its 201 named; a request that was refused, or failed, or whose
\* process died before the commit, left nothing; none left two rows.
RowsAreAcknowledged ==
    \A t \in Tables : \A w \in table[t] :
        /\ outcome[w.by] = "created" /\ pc[w.by] = "closed"
        /\ TableOf[req[w.by].op] = t
        /\ w = RowOf(w.by)

\* Of two create_student requests for one student_id or email that were both
\* answered 201, one has lost its row: its commit raised or its process died.
OneWinner ==
    \A r, q \in Requests :
        /\ r # q /\ outcome[r] = "created" /\ outcome[q] = "created"
        /\ req[r].op = "create_student" /\ req[q].op = "create_student"
        /\ SameKey(req[r].data, req[q].data)
        => \E l \in {r, q} : pc[l] \in {"failed", "lost"}

\* A create_session or create_event whose parent check passed never fails on
\* the foreign key: the only constraint a 500 can come from is a student's
\* unique key.
ParentCheckSuffices ==
    \A r \in Requests :
        outcome[r] = "integrity_error" => req[r].op = "create_student"

\* A committed session or event hangs on the very row a 201 had named to its
\* client, even when that 201's own commit had failed.  PostgreSQL's
\* sequences give this; SQLite hands a lost row's key out again.
MeantParent ==
    ~singleWriter =>
        \A t \in {"sessions", "events"} : \A w \in table[t] :
            \A q \in req[w.by].told :
                \A v \in table[TargetOf[req[w.by].op]] :
                    v.pk = w.data.parent => v.by = q

\* A duplicate is refused with 409 (AUDIT.md, B8), so no create_student ends
\* in a 500 because its student_id or email is taken.
DuplicateIs409 ==
    \A r \in Requests :
        /\ req[r] # NoRequest /\ req[r].op = "create_student"
        /\ pc[r] = "closed" /\ outcome[r] # "created"
        /\ outcome[r] \notin {"forbidden", "locked"}
        => HttpStatus[outcome[r]] = 409

\* Every request a process has taken up ends, whatever locks it meets.
EveryRequestEnds ==
    \A r \in Requests : pc[r] = "received" ~> pc[r] \in Ended

\* An acknowledged row gets into its table, or its transaction is lost with
\* a failed commit or a dead process: no lock keeps it pending for ever.
AcknowledgedSettles ==
    \A r \in Requests :
        outcome[r] = "created" ~>
            \/ pc[r] \in {"failed", "lost"}
            \/ \E t \in Tables : \E w \in table[t] : w.by = r

\* The handlers implement the abstract registry: what is asked and answered
\* is the same, and the key counts as named once the 201 is sent.
Abstract == INSTANCE Registry WITH
    ask <- req,
    answer <- outcome,
    id <- [r \in Requests |-> IF outcome[r] = "created" THEN pk[r] ELSE 0]

\* Each step of the handlers is one registry step or none: a row appears
\* whole, once, at the commit, and no refusal gives a false reason.
ImplementsRegistry == Abstract!Spec
-----------------------------------------------------------------------------
\* The inductive invariant behind the safety properties

\* What a handler has done so far follows from where it is.
Progress ==
    \A r \in Requests :
        /\ pc[r] = "idle" <=> req[r] = NoRequest
        /\ pc[r] = "check_email" => req[r].op = "create_student"
        /\ pc[r] \in {"flush", "respond", "commit"} => req[r].op \in Creates
        /\ pc[r] \in {"idle", "received", "check_email", "flush"} =>
               outcome[r] = "none" /\ pk[r] = 0
        /\ pc[r] = "respond" => outcome[r] = "none"
        /\ pc[r] = "commit" => outcome[r] = "created"
        /\ Holds(r) \/ outcome[r] = "created" =>
               req[r].op \in Creates /\ pk[r] \in Pk

\* A row that is flushed and not committed still fits the table it goes to:
\* nothing committed, and no other such row, clashes with it.
PendingFits ==
    \A r \in Requests : Holds(r) =>
        /\ ~Violates(r)
        /\ \A w \in table[TableOf[req[r].op]] : w.pk # pk[r]
        /\ \A q \in Requests \ {r} : Holds(q) =>
              /\ ~singleWriter
              /\ TableOf[req[q].op] = TableOf[req[r].op] => pk[q] # pk[r]
              /\ ~WaitsFor(r, q)

\* A parent that was found when a handler looked is there at the INSERT.
ParentStays ==
    \A r \in Requests :
        pc[r] = "flush" /\ req[r].op \in Lookups => TargetExists(r)

\* PostgreSQL never gives one key of a table to two requests.
KeysGivenOnce ==
    ~singleWriter =>
        \A r \in Requests : pk[r] # 0 =>
            /\ req[r] # NoRequest /\ req[r].op \in Creates
            /\ pk[r] <= seq[TableOf[req[r].op]]
            /\ \A q \in Requests \ {r} :
                  pk[q] # 0 /\ TableOf[req[q].op] = TableOf[req[r].op]
                  => pk[q] # pk[r]

\* A request whose handler ran to its end with a 201 has its row.
AcknowledgedIsKept ==
    \A r \in Requests :
        pc[r] = "closed" /\ outcome[r] = "created" =>
            RowOf(r) \in table[TableOf[req[r].op]]

\* What a client was told when it sent its request stays so.
ToldIsTrue ==
    \A r \in Requests : req[r] # NoRequest =>
        \A q \in req[r].told :
            /\ req[r].op \in Lookups /\ outcome[q] = "created"
            /\ TableOf[req[q].op] = TargetOf[req[r].op]
            /\ pk[q] = req[r].data.parent

\* Together they hold initially and every step keeps them.
IInv ==
    /\ TypeOK /\ Progress /\ PendingFits /\ ParentStays /\ KeysGivenOnce
    /\ AcknowledgedIsKept /\ ToldIsTrue
    /\ RowsAreAcknowledged /\ UniqueKeys /\ ReferentialIntegrity
    /\ ParentCheckSuffices
=============================================================================
