----------------------- MODULE EngagementStoreProofs -----------------------
(***************************************************************************)
(* Proofs about EngagementStore, for any number of requests, processes,     *)
(* student ids, emails and keys, on SQLite and on PostgreSQL.               *)
(***************************************************************************)
EXTENDS EngagementStore, TLAPS

\* The tables the operations write and look in.
LEMMA Operations ==
    /\ Creates = {"create_student", "create_session", "create_event"}
    /\ Lookups = {"create_session", "create_event", "get_student"}
    /\ TableOf["create_student"] = "students"
    /\ TableOf["create_session"] = "sessions"
    /\ TableOf["create_event"] = "events"
    /\ TargetOf["create_session"] = "students"
    /\ TargetOf["create_event"] = "sessions"
    /\ TargetOf["get_student"] = "students"
BY DEF Creates, Lookups, TableOf, TargetOf

\* What a request is, field by field.
LEMMA RequestFields ==
    ASSUME NEW q \in Request
    PROVE  /\ q.op \in Creates \cup Lookups
           /\ q.op = "create_student" => q.data \in StudentData
           /\ q.op # "create_student" => q.op \in Lookups /\ q.data \in LookupData
           /\ q.data \in StudentData \cup LookupData
           /\ q.told \in SUBSET Requests
           /\ q.host \in Processes
BY Operations DEF Request

\* The record Receive builds from a call is a request.
LEMMA CallMakesRequest ==
    ASSUME NEW c \in Call, NEW p \in Processes
    PROVE  [op |-> c.op, role |-> c.role, data |-> c.data, host |-> p,
            told |-> Told(c)] \in Request
<1>1. Told(c) \in SUBSET Requests
  BY DEF Told
<1>2. CASE c \in [op : {"create_student"}, role : CallerRoles,
                  data : StudentData]
  BY <1>1, <1>2 DEF Request
<1>3. CASE c \in [op : Lookups, role : CallerRoles, data : LookupData]
  BY <1>1, <1>3 DEF Request
<1>4. QED
  BY <1>2, <1>3 DEF Call

-----------------------------------------------------------------------------
\* Type correctness

LEMMA TypeInit == Init => TypeOK
BY StoreAssumption DEF Init, TypeOK, Outcome

\* TypeOK needs no other invariant: the domains of the variables close under
\* every step, once a create is known to write a table (Progress).
LEMMA TypeStep ==
    ASSUME TypeOK, Progress, [Next]_vars
    PROVE  TypeOK'
<1> USE StoreAssumption, Operations
<1>0. singleWriter' \in BOOLEAN
  BY DEF Next, Handle, Quiet, vars, TypeOK
<1>1. ASSUME NEW r \in Requests, Receive(r)
      PROVE  TypeOK'
  <2>1. PICK c \in Call, p \in Processes :
          req' = [req EXCEPT ![r] = [op |-> c.op, role |-> c.role,
                     data |-> c.data, host |-> p, told |-> Told(c)]]
    BY <1>1 DEF Receive
  <2>2. req' \in [Requests -> Request \cup {NoRequest}]
    BY <2>1, CallMakesRequest DEF TypeOK
  <2>3. QED
    BY <1>0, <1>1, <2>2 DEF Receive, Go, TypeOK, Working
<1>2. ASSUME NEW r \in Requests, NEW what \in Outcome, Answer(r, what)
      PROVE  TypeOK'
  BY <1>0, <1>2 DEF Answer, Decide, Go, TypeOK, Ended
<1>3. ASSUME NEW r \in Requests, NEW next \in Working, Go(r, next),
             UNCHANGED <<req, outcome, pk, table, seq>>
      PROVE  TypeOK'
  BY <1>0, <1>3 DEF Go, TypeOK
<1>4. ASSUME NEW t \in Tables, NEW n \in Pk, Advance(t, n)
      PROVE  TypeOK => seq' \in [Tables -> Nat]
  BY <1>4 DEF Advance, TypeOK, Pk
<1>5. ASSUME NEW r \in Requests, Insert(r)
      PROVE  TypeOK'
  <2>1. TableOf[req[r].op] \in Tables
    BY <1>5 DEF Insert, Progress, Tables
  <2>2. QED
    BY <1>0, <1>5, <1>4, <2>1 DEF Insert, Go, TypeOK, Working, Pk
<1>6. ASSUME NEW r \in Requests, InsertFails(r)
      PROVE  TypeOK'
  <2>1. TableOf[req[r].op] \in Tables
    BY <1>6 DEF InsertFails, Progress, Tables
  <2>2. QED
    BY <1>0, <1>6, <1>4, <2>1 DEF InsertFails, Go, Decide, TypeOK, Ended, Outcome
<1>7. ASSUME NEW r \in Requests, Respond(r)
      PROVE  TypeOK'
  BY <1>0, <1>7 DEF Respond, Go, Decide, TypeOK, Working, Outcome
<1>8. ASSUME NEW r \in Requests, Commit(r)
      PROVE  TypeOK'
  <2>1. req[r] \in Request /\ pk[r] \in Pk
    BY <1>8 DEF Commit, Progress, TypeOK, Holds
  <2>2. RowOf(r) \in Row
    BY <2>1, RequestFields DEF RowOf, Row
  <2>3. QED
    BY <1>0, <1>8, <2>2 DEF Commit, Go, TypeOK, Ended
<1>9. ASSUME NEW r \in Requests, CommitFails(r)
      PROVE  TypeOK'
  BY <1>0, <1>9 DEF CommitFails, Go, TypeOK, Ended
<1>10. ASSUME NEW p \in Processes, Crash(p)
       PROVE  TypeOK'
  BY <1>0, <1>10 DEF Crash, TypeOK, Ended
<1>11. ASSUME UNCHANGED vars
       PROVE  TypeOK'
  BY <1>11 DEF vars, TypeOK
<1>12. ASSUME NEW r \in Requests, Handle(r)
       PROVE  TypeOK'
  <2>1. CASE Forbid(r)
    BY <2>1, <1>2 DEF Forbid, Outcome
  <2>2. CASE CheckStudentId(r)
    BY <2>2, <1>2, <1>3 DEF CheckStudentId, Outcome, Working
  <2>3. CASE CheckEmail(r)
    BY <2>3, <1>2, <1>3 DEF CheckEmail, Outcome, Working
  <2>4. CASE CheckStudent(r)
    BY <2>4, <1>2, <1>3 DEF CheckStudent, Outcome, Working
  <2>5. CASE CheckSession(r)
    BY <2>5, <1>2, <1>3 DEF CheckSession, Outcome, Working
  <2>6. CASE GetStudent(r)
    BY <2>6, <1>2 DEF GetStudent, Outcome
  <2>7. CASE LockTimeout(r)
    BY <2>7, <1>2 DEF LockTimeout, Outcome
  <2>8. QED
    BY <1>12, <1>5, <1>6, <1>7, <1>8, <1>9,
       <2>1, <2>2, <2>3, <2>4, <2>5, <2>6, <2>7 DEF Handle
<1>13. QED
  BY <1>1, <1>10, <1>11, <1>12 DEF Next, Quiet
-----------------------------------------------------------------------------
\* The inductive invariant

LEMMA InvInit == Init => IInv
<1> USE DEF Init
<1>1. Init => TypeOK
  BY TypeInit
<1>2. Init => Progress /\ PendingFits /\ ParentStays
  BY DEF Progress, PendingFits, ParentStays, Holds
<1>3. Init => KeysGivenOnce /\ AcknowledgedIsKept /\ ToldIsTrue
  BY DEF KeysGivenOnce, AcknowledgedIsKept, ToldIsTrue
<1>4. Init => RowsAreAcknowledged /\ UniqueKeys /\ ReferentialIntegrity
  BY DEF RowsAreAcknowledged, UniqueKeys, ReferentialIntegrity, Tables
<1>5. Init => ParentCheckSuffices
  BY DEF ParentCheckSuffices
<1>6. QED
  BY <1>1, <1>2, <1>3, <1>4, <1>5 DEF IInv

\* A request that arrives holds nothing, and what it was told is true now.
LEMMA ReceiveKeeps ==
    ASSUME IInv, TypeOK', NEW r \in Requests, Receive(r),
           UNCHANGED singleWriter
    PROVE  IInv'
<1> USE Operations, StoreAssumption
<1>1. PICK c \in Call, p \in Processes :
        req' = [req EXCEPT ![r] = [op |-> c.op, role |-> c.role,
                   data |-> c.data, host |-> p, told |-> Told(c)]]
  BY DEF Receive
<1>2. /\ req'[r] \in Request /\ req'[r] # NoRequest
      /\ req'[r].op = c.op /\ req'[r].data = c.data /\ req'[r].told = Told(c)
  BY <1>1, CallMakesRequest DEF IInv, TypeOK
<1>3. \A q \in Requests \ {r} : req'[q] = req[q] /\ pc'[q] = pc[q]
  BY <1>1 DEF Receive, Go, IInv, TypeOK
<1>4. /\ pc[r] = "idle" /\ pc'[r] = "received" /\ outcome[r] = "none"
      /\ pk[r] = 0 /\ req[r] = NoRequest
  BY DEF Receive, Go, IInv, TypeOK, Progress
<1>5. UNCHANGED <<outcome, pk, table, seq>>
  BY DEF Receive
<1>6. Progress'
  BY <1>2, <1>3, <1>4, <1>5 DEF IInv, Progress, Holds
<1>7. PendingFits'
  BY <1>3, <1>4, <1>5
     DEF IInv, PendingFits, Holds, Violates, WaitsFor, TargetExists, Visible
<1>8. ParentStays' /\ KeysGivenOnce'
  BY <1>3, <1>4, <1>5
     DEF IInv, ParentStays, KeysGivenOnce, TargetExists, Visible
<1>9. AcknowledgedIsKept'
  BY <1>3, <1>4, <1>5 DEF IInv, AcknowledgedIsKept, RowOf
<1>10. ToldIsTrue'
  <2>1. \A q \in Told(c) : /\ q \in Requests \ {r} /\ c.op \in Lookups
                           /\ outcome[q] = "created"
                           /\ TableOf[req[q].op] = TargetOf[c.op]
                           /\ pk[q] = c.data.parent
    BY <1>4 DEF Told, Call
  <2>2. \A q \in Requests \ {r} : req[q] # NoRequest =>
           \A l \in req[q].told : l \in Requests \ {r}
    BY <1>4, RequestFields DEF IInv, ToldIsTrue, TypeOK
  <2>3. QED
    BY <1>2, <1>3, <1>5, <2>1, <2>2 DEF IInv, ToldIsTrue
<1>11. RowsAreAcknowledged'
  <2>1. \A t \in Tables : \A w \in table[t] : w.by \in Requests \ {r}
    BY <1>4 DEF IInv, RowsAreAcknowledged, TypeOK, Row
  <2>2. QED
    BY <1>3, <1>5, <2>1 DEF IInv, RowsAreAcknowledged, RowOf
<1>12. UniqueKeys' /\ ReferentialIntegrity'
  BY <1>5 DEF IInv, UniqueKeys, ReferentialIntegrity
<1>13. ParentCheckSuffices'
  BY <1>3, <1>4, <1>5 DEF IInv, ParentCheckSuffices
<1>14. QED
  BY <1>6, <1>7, <1>8, <1>9, <1>10, <1>11, <1>12, <1>13 DEF IInv

\* A handler that moves on, or ends without a row, and holds nothing before
\* or after: its checks, its refusals and the INSERT that breaks a
\* constraint.  Only a create_student can end in an integrity error.
LEMMA NothingWritten ==
    ASSUME IInv, TypeOK', NEW r \in Requests,
           pc[r] \in {"received", "check_email", "flush"},
           NEW next \in {"check_email", "flush", "closed"},
           NEW what \in Outcome \ {"created"},
           next = "check_email" => req[r].op = "create_student",
           next = "flush" => req[r].op \in Creates,
           next = "flush" /\ req[r].op \in Lookups => TargetExists(r),
           next # "closed" => what = "none",
           what = "integrity_error" => req[r].op = "create_student",
           Go(r, next), Decide(r, what),
           \A t \in Tables : seq[t] <= seq'[t],
           UNCHANGED <<req, pk, table, singleWriter>>
    PROVE  IInv'
<1> USE Operations, StoreAssumption
<1>1. /\ pc'[r] = next /\ outcome'[r] = what
      /\ outcome[r] = "none" /\ pk[r] = 0 /\ req[r] # NoRequest
  BY DEF Go, Decide, IInv, TypeOK, Progress
<1>2. \A q \in Requests \ {r} : pc'[q] = pc[q] /\ outcome'[q] = outcome[q]
  BY DEF Go, Decide, IInv, TypeOK
<1>3. \A q \in Requests : Holds(q)' <=> Holds(q)
  BY <1>1, <1>2 DEF Holds
<1>4. ~Holds(r)
  BY DEF Holds
<1>5. Progress'
  BY <1>1, <1>2, <1>4 DEF IInv, Progress, Holds
<1>6. PendingFits' /\ ParentStays'
  <2>1. \A q \in Requests : TargetExists(q)' <=> TargetExists(q)
    BY DEF TargetExists, Visible
  <2>2. PendingFits'
    BY <1>3, <2>1 DEF IInv, PendingFits, Violates, WaitsFor
  <2>3. ParentStays'
    BY <1>1, <1>2, <2>1 DEF IInv, ParentStays
  <2>4. QED
    BY <2>2, <2>3
<1>7. KeysGivenOnce'
  <2>1. \A q \in Requests : req[q] # NoRequest /\ req[q].op \in Creates =>
           TableOf[req[q].op] \in Tables
    BY DEF Tables
  <2>2. \A q \in Requests : ~singleWriter /\ pk[q] # 0 =>
           pk[q] <= seq'[TableOf[req[q].op]]
    BY <2>1 DEF IInv, KeysGivenOnce, TypeOK, Pk
  <2>3. QED
    BY <2>2 DEF IInv, KeysGivenOnce
<1>8. AcknowledgedIsKept'
  BY <1>1, <1>2 DEF IInv, AcknowledgedIsKept, RowOf
<1>9. ToldIsTrue'
  <2>1. \A q \in Requests : req[q] # NoRequest =>
           \A l \in req[q].told : l \in Requests \ {r}
    BY <1>1, RequestFields DEF IInv, ToldIsTrue, TypeOK
  <2>2. QED
    BY <1>2, <2>1 DEF IInv, ToldIsTrue
<1>10. RowsAreAcknowledged'
  <2>1. \A t \in Tables : \A w \in table[t] : w.by \in Requests \ {r}
    BY <1>1 DEF IInv, RowsAreAcknowledged, TypeOK, Row
  <2>2. QED
    BY <1>2, <2>1 DEF IInv, RowsAreAcknowledged, RowOf
<1>11. UniqueKeys' /\ ReferentialIntegrity'
  BY DEF IInv, UniqueKeys, ReferentialIntegrity
<1>12. ParentCheckSuffices'
  BY <1>1, <1>2 DEF IInv, ParentCheckSuffices
<1>13. QED
  BY <1>5, <1>6, <1>7, <1>8, <1>9, <1>10, <1>11, <1>12 DEF IInv
\* The flushed row fits what is committed and what others have flushed: the
\* INSERT waited for them, and took a key of its own.
LEMMA InsertKeeps ==
    ASSUME IInv, TypeOK', NEW r \in Requests, Insert(r),
           UNCHANGED singleWriter
    PROVE  IInv'
<1> USE Operations, StoreAssumption
<1> DEFINE T == TableOf[req[r].op]
<1>1. PICK n \in Pk : /\ NextPk(T, n) /\ Advance(T, n)
                     /\ pk' = [pk EXCEPT ![r] = n]
  BY DEF Insert
<1>2. /\ pc[r] = "flush" /\ pc'[r] = "respond" /\ outcome[r] = "none"
      /\ pk[r] = 0 /\ pk'[r] = n /\ n \in Nat /\ n # 0
      /\ req[r] # NoRequest /\ req[r].op \in Creates /\ T \in Tables
  BY <1>1 DEF Insert, Go, IInv, TypeOK, Progress, Pk, Tables
<1>3. \A q \in Requests \ {r} : pc'[q] = pc[q] /\ pk'[q] = pk[q]
  BY <1>1 DEF Insert, Go, IInv, TypeOK
<1>4. UNCHANGED <<req, outcome, table>>
  BY DEF Insert
<1>5. \A q \in Requests \ {r} : Holds(q)' <=> Holds(q)
  BY <1>3 DEF Holds
<1>6. Holds(r)' /\ ~Holds(r)
  BY <1>2 DEF Holds
<1>7. /\ \A q \in Requests : Violates(q)' <=> Violates(q)
      /\ \A q \in Requests : TargetExists(q)' <=> TargetExists(q)
  BY <1>4 DEF Violates, TargetExists, Visible
<1>8. \A q \in Requests \ {r} : Holds(q) => ~singleWriter /\ ~WaitsFor(r, q)
  BY DEF Insert, Blocked, WaitsFor
<1>9. ~singleWriter => /\ n = seq[T] + 1 /\ seq'[T] = n
                       /\ \A t \in Tables \ {T} : seq'[t] = seq[t]
                       /\ seq[T] \in Nat
  BY <1>1, <1>2 DEF NextPk, Advance, IInv, TypeOK
<1>10. \A q \in Requests \ {r} :
          ~singleWriter /\ pk[q] # 0 /\ TableOf[req[q].op] = T => pk[q] < n
  BY <1>9 DEF IInv, KeysGivenOnce, TypeOK
<1>11. \A w \in table[T] : w.pk # n
  <2>1. CASE singleWriter
    BY <1>1, <1>2, <2>1 DEF NextPk, IInv, TypeOK, Row, Pk
  <2>2. CASE ~singleWriter
    <3>1. \A w \in table[T] : /\ w.by \in Requests \ {r} /\ w.pk = pk[w.by]
                              /\ w.pk # 0 /\ TableOf[req[w.by].op] = T
      BY <1>2 DEF IInv, RowsAreAcknowledged, RowOf, TypeOK, Row, Pk
    <3>2. \A w \in table[T] : w.pk < n
      BY <1>10, <2>2, <3>1
    <3>3. QED
      BY <1>2, <3>2
  <2>3. QED
    BY <2>1, <2>2
<1>12. Progress'
  BY <1>1, <1>2, <1>3, <1>4, <1>5 DEF IInv, Progress, Holds
<1>13. PendingFits'
  <2>1. \A p, q \in Requests : WaitsFor(p, q)' <=>
           (q # p /\ Holds(q)' /\ (singleWriter \/
              (req[p].op = "create_student" /\ req[q].op = "create_student"
               /\ SameKey(req[p].data, req[q].data))))
    BY <1>4 DEF WaitsFor
  <2>2. \A q \in Requests \ {r} : Holds(q) => ~WaitsFor(r, q)' /\ ~WaitsFor(q, r)'
    BY <1>5, <1>8, <2>1 DEF WaitsFor, SameKey
  <2>3. \A q \in Requests \ {r} : Holds(q) => pk[q] # 0
    BY DEF IInv, Progress, Pk
  <2>4. \A q \in Requests \ {r} :
           Holds(q) /\ TableOf[req[q].op] = T => pk[q] # n
    BY <1>2, <1>8, <1>10, <2>3 DEF IInv, TypeOK
  <2>5. ~Violates(r)
    BY DEF Insert
  <2>6. \A p, q \in Requests \ {r} : WaitsFor(p, q)' <=> WaitsFor(p, q)
    BY <1>4, <1>5, <2>1 DEF WaitsFor
  <2>7. QED
    BY <1>2, <1>3, <1>4, <1>5, <1>6, <1>7, <1>8, <1>11, <2>2, <2>4, <2>5, <2>6
       DEF IInv, PendingFits
<1>14. ParentStays'
  BY <1>2, <1>3, <1>4, <1>7 DEF IInv, ParentStays
<1>15. KeysGivenOnce'
  <2>1. \A q \in Requests : req[q].op \in Creates => TableOf[req[q].op] \in Tables
    BY DEF Tables
  <2>2. ASSUME ~singleWriter, NEW q \in Requests, pk'[q] # 0
        PROVE  /\ req'[q] # NoRequest /\ req'[q].op \in Creates
               /\ pk'[q] <= seq'[TableOf[req'[q].op]]
    BY <1>2, <1>3, <1>4, <1>9, <1>10, <2>1, <2>2
       DEF IInv, KeysGivenOnce, TypeOK
  <2>3. QED
    BY <1>2, <1>3, <1>4, <1>10, <2>2 DEF IInv, KeysGivenOnce, TypeOK
<1>16. AcknowledgedIsKept'
  BY <1>2, <1>3, <1>4 DEF IInv, AcknowledgedIsKept, RowOf
<1>17. ToldIsTrue'
  <2>1. \A q \in Requests : req[q] # NoRequest =>
           \A l \in req[q].told : l \in Requests \ {r}
    BY <1>2, RequestFields DEF IInv, ToldIsTrue, TypeOK
  <2>2. QED
    BY <1>3, <1>4, <2>1 DEF IInv, ToldIsTrue
<1>18. RowsAreAcknowledged'
  <2>1. \A t \in Tables : \A w \in table[t] : w.by \in Requests \ {r}
    BY <1>2 DEF IInv, RowsAreAcknowledged, TypeOK, Row
  <2>2. QED
    BY <1>3, <1>4, <2>1 DEF IInv, RowsAreAcknowledged, RowOf
<1>19. UniqueKeys' /\ ReferentialIntegrity' /\ ParentCheckSuffices'
  BY <1>4 DEF IInv, UniqueKeys, ReferentialIntegrity, ParentCheckSuffices
<1>20. QED
  BY <1>12, <1>13, <1>14, <1>15, <1>16, <1>17, <1>18, <1>19 DEF IInv
LEMMA RespondKeeps ==
    ASSUME IInv, TypeOK', NEW r \in Requests, Respond(r),
           UNCHANGED singleWriter
    PROVE  IInv'
<1> USE Operations, StoreAssumption
<1>1. /\ pc[r] = "respond" /\ pc'[r] = "commit"
      /\ outcome[r] = "none" /\ outcome'[r] = "created" /\ req[r] # NoRequest
      /\ \A q \in Requests \ {r} : pc'[q] = pc[q] /\ outcome'[q] = outcome[q]
  BY DEF Respond, Go, Decide, IInv, TypeOK, Progress
<1>2. UNCHANGED <<req, pk, table, seq>>
  BY DEF Respond
<1>3. \A q \in Requests : Holds(q)' <=> Holds(q)
  BY <1>1 DEF Holds
<1>4. Progress'
  BY <1>1, <1>2, <1>3 DEF IInv, Progress, Holds
<1>5. PendingFits'
  BY <1>2, <1>3
     DEF IInv, PendingFits, Violates, WaitsFor, TargetExists, Visible
<1>6. ParentStays' /\ KeysGivenOnce'
  BY <1>1, <1>2 DEF IInv, ParentStays, KeysGivenOnce, TargetExists, Visible
<1>7. AcknowledgedIsKept' /\ ParentCheckSuffices'
  BY <1>1, <1>2 DEF IInv, AcknowledgedIsKept, ParentCheckSuffices, RowOf
<1>8. ToldIsTrue'
  <2>1. \A q \in Requests : req[q] # NoRequest =>
           \A l \in req[q].told : l \in Requests \ {r}
    BY <1>1, RequestFields DEF IInv, ToldIsTrue, TypeOK
  <2>2. QED
    BY <1>1, <1>2, <2>1 DEF IInv, ToldIsTrue
<1>9. RowsAreAcknowledged'
  <2>1. \A t \in Tables : \A w \in table[t] : w.by \in Requests \ {r}
    BY <1>1 DEF IInv, RowsAreAcknowledged, TypeOK, Row
  <2>2. QED
    BY <1>1, <1>2, <2>1 DEF IInv, RowsAreAcknowledged, RowOf
<1>10. UniqueKeys' /\ ReferentialIntegrity'
  BY <1>2 DEF IInv, UniqueKeys, ReferentialIntegrity
<1>11. QED
  BY <1>4, <1>5, <1>6, <1>7, <1>8, <1>9, <1>10 DEF IInv

\* Losing transactions, by a failed commit or a dead process, moves handlers
\* to an end that holds nothing and changes nothing else.
LEMMA LossKeeps ==
    ASSUME IInv, TypeOK',
           \A q \in Requests :
               \/ pc'[q] = pc[q]
               \/ /\ pc[q] \in Working /\ pc'[q] \in {"failed", "lost"},
           UNCHANGED <<req, outcome, pk, table, seq, singleWriter>>
    PROVE  IInv'
<1> USE Operations, StoreAssumption
<1>1. \A q \in Requests : Holds(q)' => Holds(q)
  BY DEF Holds
<1>2. \A q \in Requests : pc'[q] # pc[q] =>
         pc[q] \in Working /\ pc'[q] \in {"failed", "lost"}
  OBVIOUS
<1>3. Progress'
  BY <1>2 DEF IInv, Progress, Holds, Working
<1>4. PendingFits'
  <2>1. \A p, q \in Requests : WaitsFor(p, q)' => WaitsFor(p, q)
    BY <1>1 DEF WaitsFor
  <2>2. \A q \in Requests : Violates(q)' <=> Violates(q)
    BY DEF Violates, TargetExists, Visible
  <2>3. QED
    BY <1>1, <2>1, <2>2 DEF IInv, PendingFits
<1>5. ParentStays' /\ KeysGivenOnce'
  BY <1>2 DEF IInv, ParentStays, KeysGivenOnce, TargetExists, Visible
<1>6. AcknowledgedIsKept' /\ ParentCheckSuffices' /\ ToldIsTrue'
  BY <1>2 DEF IInv, AcknowledgedIsKept, ParentCheckSuffices, ToldIsTrue, RowOf
<1>7. RowsAreAcknowledged'
  <2>1. \A t \in Tables : \A w \in table[t] : pc'[w.by] = pc[w.by]
    BY <1>2 DEF IInv, RowsAreAcknowledged, TypeOK, Row, Working
  <2>2. QED
    BY <2>1 DEF IInv, RowsAreAcknowledged, RowOf
<1>8. UniqueKeys' /\ ReferentialIntegrity'
  BY DEF IInv, UniqueKeys, ReferentialIntegrity
<1>9. QED
  BY <1>3, <1>4, <1>5, <1>6, <1>7, <1>8 DEF IInv

\* The commit puts one row into one table; it fits there because it has
\* fitted ever since its INSERT, and every other flushed row still fits.
LEMMA CommitKeeps ==
    ASSUME IInv, TypeOK', NEW r \in Requests, Commit(r),
           UNCHANGED singleWriter
    PROVE  IInv'
<1> USE Operations, StoreAssumption
<1> DEFINE T == TableOf[req[r].op]
<1>1. /\ pc[r] = "commit" /\ pc'[r] = "closed" /\ outcome[r] = "created"
      /\ req[r] # NoRequest /\ req[r] \in Request /\ req[r].op \in Creates
      /\ T \in Tables /\ pk[r] \in Pk /\ pk[r] # 0
      /\ \A q \in Requests \ {r} : pc'[q] = pc[q]
  BY DEF Commit, Go, IInv, TypeOK, Progress, Holds, Tables, Pk
<1>2. UNCHANGED <<req, outcome, pk, seq>>
  BY DEF Commit
<1>3. /\ table'[T] = table[T] \cup {RowOf(r)}
      /\ \A t \in Tables \ {T} : table'[t] = table[t]
  BY <1>1 DEF Commit, IInv, TypeOK
<1>4. RowOf(r).pk = pk[r] /\ RowOf(r).by = r /\ RowOf(r).data = req[r].data
  BY DEF RowOf
<1>5. Holds(r) /\ ~Holds(r)' /\ \A q \in Requests \ {r} : Holds(q)' <=> Holds(q)
  BY <1>1 DEF Holds
<1>6. /\ ~Violates(r)
      /\ \A w \in table[T] : w.pk # pk[r]
  BY <1>5 DEF IInv, PendingFits
<1>7. \A t \in Tables : table[t] \subseteq table'[t]
  BY <1>3
<1>8. \A q \in Requests : req[q] # NoRequest /\ req[q].op \in Lookups =>
         (TargetExists(q) => TargetExists(q)')
  BY <1>2, <1>7 DEF TargetExists, Visible, Tables
<1>9. Progress'
  BY <1>1, <1>2, <1>5 DEF IInv, Progress
<1>10. PendingFits'
  <2>1. SUFFICES ASSUME NEW q \in Requests \ {r}, Holds(q)
                 PROVE  /\ ~Violates(q)'
                        /\ \A w \in table'[TableOf[req[q].op]] : w.pk # pk[q]
                        /\ \A p \in Requests \ {q} : Holds(p)' =>
                              /\ ~singleWriter
                              /\ TableOf[req[p].op] = TableOf[req[q].op]
                                   => pk[p] # pk[q]
                              /\ ~WaitsFor(q, p)'
    BY <1>2, <1>5 DEF PendingFits
  <2>2. /\ req[q] # NoRequest /\ req[q].op \in Creates
        /\ ~singleWriter /\ ~WaitsFor(q, r) /\ ~Violates(q)
        /\ TableOf[req[r].op] = TableOf[req[q].op] => pk[r] # pk[q]
    BY <1>5, <2>1 DEF IInv, PendingFits, Progress, Holds
  <2>3. ~Violates(q)'
    <3>1. CASE req[q].op = "create_student"
      <4>1. \A w \in table["students"] : ~SameKey(w.data, req[q].data)
        BY <2>2, <3>1 DEF Violates
      <4>2. T = "students" => ~SameKey(req[r].data, req[q].data)
        BY <1>1, <1>5, <2>2, <3>1 DEF WaitsFor, SameKey
      <4>3. \A w \in table'["students"] : ~SameKey(w.data, req[q].data)
        BY <1>3, <1>4, <4>1, <4>2 DEF Tables
      <4>4. QED
        BY <1>2, <3>1, <4>3 DEF Violates
    <3>2. CASE req[q].op # "create_student"
      BY <1>2, <1>8, <2>2, <3>2 DEF Violates
    <3>3. QED
      BY <3>1, <3>2
  <2>4. \A w \in table'[TableOf[req[q].op]] : w.pk # pk[q]
    BY <1>3, <1>4, <2>1, <2>2 DEF IInv, PendingFits, Tables
  <2>5. \A p \in Requests \ {q} : WaitsFor(q, p)' => WaitsFor(q, p)
    BY <1>2, <1>5 DEF WaitsFor
  <2>6. QED
    BY <1>2, <1>5, <2>1, <2>3, <2>4, <2>5 DEF IInv, PendingFits
<1>11. ParentStays'
  BY <1>1, <1>2, <1>8 DEF IInv, ParentStays, Progress
<1>12. KeysGivenOnce' /\ ToldIsTrue' /\ ParentCheckSuffices'
  BY <1>2 DEF IInv, KeysGivenOnce, ToldIsTrue, ParentCheckSuffices
<1>13. AcknowledgedIsKept'
  <2>1. \A q \in Requests : RowOf(q)' = RowOf(q)
    BY <1>2 DEF RowOf
  <2>2. \A q \in Requests : outcome[q] = "created" => TableOf[req[q].op] \in Tables
    BY DEF IInv, Progress, Tables
  <2>3. QED
    BY <1>1, <1>2, <1>3, <1>7, <2>1, <2>2 DEF IInv, AcknowledgedIsKept
<1>14. RowsAreAcknowledged'
  <2>1. \A q \in Requests : RowOf(q)' = RowOf(q)
    BY <1>2 DEF RowOf
  <2>2. \A t \in Tables : \A w \in table[t] : w.by \in Requests \ {r}
    BY <1>1 DEF IInv, RowsAreAcknowledged, TypeOK, Row
  <2>3. QED
    BY <1>1, <1>2, <1>3, <1>4, <2>1, <2>2 DEF IInv, RowsAreAcknowledged
<1>15. UniqueKeys'
  <2>1. ASSUME NEW w \in table[T]
        PROVE  /\ w.pk # pk[r]
               /\ T = "students" => ~SameKey(w.data, req[r].data)
                                  /\ ~SameKey(req[r].data, w.data)
    BY <1>1, <1>6, <2>1 DEF Violates, SameKey
  <2>2. QED
    BY <1>1, <1>3, <1>4, <2>1 DEF IInv, UniqueKeys
<1>16. ReferentialIntegrity'
  <2>1. req[r].op \in Lookups =>
          \E v \in table[TargetOf[req[r].op]] : v.pk = req[r].data.parent
    BY <1>6 DEF Violates, TargetExists, Visible
  <2>2. \A w \in table'["sessions"] :
          \E v \in table'["students"] : v.pk = w.data.parent
    <3>1. T = "sessions" => \E v \in table["students"] : v.pk = req[r].data.parent
      BY <1>1, <2>1
    <3>2. \A w \in table["sessions"] :
            \E v \in table["students"] : v.pk = w.data.parent
      BY DEF IInv, ReferentialIntegrity
    <3>3. \A w \in table'["sessions"] : 
               \/ w \in table["sessions"]
               \/ T = "sessions" /\ w = RowOf(r)
      BY <1>3 DEF Tables
    <3>4. table["students"] \subseteq table'["students"]
      BY <1>7 DEF Tables
    <3>5. QED
      BY <1>4, <3>1, <3>2, <3>3, <3>4
  <2>3. \A w \in table'["events"] :
          \E v \in table'["sessions"] : v.pk = w.data.parent
    <3>1. T = "events" => \E v \in table["sessions"] : v.pk = req[r].data.parent
      BY <1>1, <2>1
    <3>2. \A w \in table["events"] :
            \E v \in table["sessions"] : v.pk = w.data.parent
      BY DEF IInv, ReferentialIntegrity
    <3>3. \A w \in table'["events"] : 
               \/ w \in table["events"]
               \/ T = "events" /\ w = RowOf(r)
      BY <1>3 DEF Tables
    <3>4. table["sessions"] \subseteq table'["sessions"]
      BY <1>7 DEF Tables
    <3>5. QED
      BY <1>4, <3>1, <3>2, <3>3, <3>4
  <2>4. QED
    BY <2>2, <2>3 DEF ReferentialIntegrity
<1>17. QED
  BY <1>9, <1>10, <1>11, <1>12, <1>13, <1>14, <1>15, <1>16 DEF IInv
\* A check that passes or refuses, and a refusal, as NothingWritten sees it.
LEMMA CheckKeeps ==
    ASSUME IInv, TypeOK', NEW r \in Requests,
           \/ Forbid(r) \/ CheckStudentId(r) \/ CheckEmail(r)
           \/ CheckStudent(r) \/ CheckSession(r) \/ GetStudent(r)
           \/ LockTimeout(r),
           UNCHANGED singleWriter
    PROVE  IInv'
<1> USE Operations
<1> DEFINE Where == {"received", "check_email", "flush"}
           Refusals == {"ok", "forbidden", "not_found", "conflict", "locked"}
<1>1. ASSUME pc[r] \in Where, NEW what \in Refusals, Answer(r, what)
      PROVE  IInv'
  <2>1. \A t \in Tables : seq[t] <= seq'[t]
    BY <1>1 DEF Answer, IInv, TypeOK
  <2>2. what \in Outcome \ {"created"} /\ what # "integrity_error"
    BY <1>1 DEF Outcome
  <2>3. QED
    BY <1>1, <2>1, <2>2, NothingWritten DEF Answer
<1>2. ASSUME pc[r] \in Where, NEW next \in {"check_email", "flush"},
             next = "check_email" => req[r].op = "create_student",
             next = "flush" => req[r].op \in Creates,
             next = "flush" /\ req[r].op \in Lookups => TargetExists(r),
             Go(r, next), UNCHANGED <<req, outcome, pk, table, seq>>
      PROVE  IInv'
  <2>1. \A t \in Tables : seq[t] <= seq'[t]
    BY <1>2 DEF IInv, TypeOK
  <2>2. Decide(r, "none")
    BY <1>2 DEF Decide, IInv, TypeOK, Progress
  <2>3. "none" \in Outcome \ {"created"}
    BY DEF Outcome
  <2>4. QED
    BY <1>2, <2>1, <2>2, <2>3, NothingWritten
<1>3. CASE Forbid(r)
  BY <1>1, <1>3 DEF Forbid
<1>4. CASE CheckStudentId(r)
  BY <1>1, <1>2, <1>4 DEF CheckStudentId, Admitted
<1>5. CASE CheckEmail(r)
  BY <1>1, <1>2, <1>5 DEF CheckEmail, IInv, Progress
<1>6. CASE CheckStudent(r)
  BY <1>1, <1>2, <1>6 DEF CheckStudent, Admitted
<1>7. CASE CheckSession(r)
  BY <1>1, <1>2, <1>7 DEF CheckSession, Admitted
<1>8. CASE GetStudent(r)
  BY <1>1, <1>8 DEF GetStudent, Admitted
<1>9. CASE LockTimeout(r)
  BY <1>1, <1>9 DEF LockTimeout
<1>10. QED
  BY <1>3, <1>4, <1>5, <1>6, <1>7, <1>8, <1>9

\* The INSERT that breaks a constraint is a student's: a parent stays.
LEMMA InsertFailsKeeps ==
    ASSUME IInv, TypeOK', NEW r \in Requests, InsertFails(r),
           UNCHANGED singleWriter
    PROVE  IInv'
<1> USE Operations
<1>1. pc[r] = "flush" /\ req[r].op \in Creates /\ Violates(r)
  BY DEF InsertFails, IInv, Progress
<1>2. req[r].op = "create_student"
  BY <1>1 DEF Violates, IInv, ParentStays
<1>3. PICK n \in Pk : NextPk("students", n) /\ Advance("students", n)
  BY <1>2 DEF InsertFails
<1>4. \A t \in Tables : seq[t] <= seq'[t]
  BY <1>3, StoreAssumption DEF NextPk, Advance, IInv, TypeOK, Tables
<1>5. "integrity_error" \in Outcome \ {"created"}
  BY DEF Outcome
<1>6. QED
  BY <1>1, <1>2, <1>4, <1>5, NothingWritten DEF InsertFails

LEMMA InvStep == IInv /\ [Next]_vars => IInv'
<1> SUFFICES ASSUME IInv, [Next]_vars PROVE IInv'
  OBVIOUS
<1>1. TypeOK'
  BY TypeStep DEF IInv
<1>2. ASSUME NEW r \in Requests, Handle(r) PROVE IInv'
  <2>0. UNCHANGED singleWriter
    BY <1>2 DEF Handle
  <2>1. CASE CommitFails(r)
    BY <1>1, <2>0, <2>1, LossKeeps DEF CommitFails, Go, IInv, TypeOK, Working
  <2>2. QED
    BY <1>1, <1>2, <2>0, <2>1, CheckKeeps, InsertKeeps, InsertFailsKeeps,
       RespondKeeps, CommitKeeps DEF Handle
<1>3. ASSUME NEW r \in Requests, Receive(r), UNCHANGED singleWriter
      PROVE  IInv'
  BY <1>1, <1>3, ReceiveKeeps
<1>4. ASSUME NEW p \in Processes, Crash(p), UNCHANGED singleWriter
      PROVE  IInv'
  BY <1>1, <1>4, LossKeeps DEF Crash
<1>5. ASSUME UNCHANGED vars PROVE IInv'
  BY <1>1, <1>5, LossKeeps DEF vars
<1>6. QED
  BY <1>2, <1>3, <1>4, <1>5 DEF Next, Quiet

\* The inductive invariant holds in every reachable state.
THEOREM Invariance == Spec => []IInv
<1>1. Init => IInv
  BY InvInit
<1>2. IInv /\ [Next]_vars => IInv'
  BY InvStep
<1>3. QED
  BY <1>1, <1>2, PTL DEF Spec

-----------------------------------------------------------------------------
\* What follows from it

\* Every variable keeps its type under every handler step and every crash.
THEOREM TypeCorrect == Spec => []TypeOK
BY Invariance, PTL DEF IInv

\* However create_student handlers interleave, no two rows share a primary
\* key, a student_id or an email.
THEOREM KeysAreUnique == Spec => []UniqueKeys
BY Invariance, PTL DEF IInv

\* No session or event is ever committed without its parent.
THEOREM ParentsExist == Spec => []ReferentialIntegrity
BY Invariance, PTL DEF IInv

\* Committed rows are those of acknowledged requests, as asked for: what was
\* refused, failed or died left nothing.
THEOREM OnlyAcknowledgedRows == Spec => []RowsAreAcknowledged
BY Invariance, PTL DEF IInv

\* The parent check leaves the unique keys as the only way to a 500.
THEOREM ParentCheckIsEnough == Spec => []ParentCheckSuffices
BY Invariance, PTL DEF IInv

\* Two acknowledged creates of one student: one of them lost its row.
THEOREM AtMostOneWinner == Spec => []OneWinner
<1>1. IInv => OneWinner
  <2>1. SUFFICES ASSUME IInv, NEW r \in Requests, NEW q \in Requests, r # q,
                        outcome[r] = "created", outcome[q] = "created",
                        req[r].op = "create_student",
                        req[q].op = "create_student",
                        SameKey(req[r].data, req[q].data),
                        pc[r] \notin {"failed", "lost"},
                        pc[q] \notin {"failed", "lost"}
                 PROVE  FALSE
    BY DEF OneWinner
  <2>2. \A l \in {r, q} : Holds(l) \/ pc[l] = "closed"
    BY <2>1 DEF IInv, TypeOK, Progress, Holds, Working, Ended
  <2>3. SameKey(req[q].data, req[r].data)
    BY <2>1 DEF SameKey
  <2>4. ASSUME NEW a \in {r, q}, NEW b \in {r, q}, a # b, pc[a] = "closed"
        PROVE  /\ RowOf(a) \in table["students"]
               /\ RowOf(a).data = req[a].data /\ RowOf(a).by = a
    BY <2>1, <2>4, Operations DEF IInv, AcknowledgedIsKept, RowOf
  <2>5. CASE Holds(r) /\ Holds(q)
    BY <2>1, <2>5 DEF IInv, PendingFits, WaitsFor
  <2>6. CASE Holds(r) /\ pc[q] = "closed"
    BY <2>1, <2>3, <2>4, <2>6 DEF IInv, PendingFits, Violates
  <2>7. CASE pc[r] = "closed" /\ Holds(q)
    BY <2>1, <2>4, <2>7 DEF IInv, PendingFits, Violates
  <2>8. CASE pc[r] = "closed" /\ pc[q] = "closed"
    BY <2>1, <2>4, <2>8 DEF IInv, UniqueKeys, Tables
  <2>9. QED
    BY <2>2, <2>5, <2>6, <2>7, <2>8
<1>2. QED
  BY <1>1, Invariance, PTL

\* On PostgreSQL a committed child hangs on the row its client was told of.
THEOREM ParentIsMeant == Spec => []MeantParent
<1>1. IInv => MeantParent
  <2>1. SUFFICES ASSUME IInv, ~singleWriter,
                        NEW t \in {"sessions", "events"}, NEW w \in table[t],
                        NEW q \in req[w.by].told,
                        NEW v \in table[TargetOf[req[w.by].op]],
                        v.pk = w.data.parent
                 PROVE  v.by = q
    BY DEF MeantParent
  <2> DEFINE r == w.by
             T == TargetOf[req[r].op]
  <2>2. /\ r \in Requests /\ req[r] # NoRequest /\ req[r] \in Request
        /\ w.data = req[r].data /\ q \in Requests
    BY <2>1, RequestFields
       DEF IInv, RowsAreAcknowledged, RowOf, TypeOK, Row, Tables, Progress
  <2>3. /\ req[r].op \in Lookups /\ outcome[q] = "created"
        /\ TableOf[req[q].op] = T /\ pk[q] = req[r].data.parent
    BY <2>1, <2>2 DEF IInv, ToldIsTrue
  <2>4. T \in Tables
    BY <2>3, Operations DEF Tables
  <2>5. /\ v.by \in Requests /\ v.pk = pk[v.by] /\ v.pk # 0
        /\ TableOf[req[v.by].op] = T
    BY <2>1, <2>4 DEF IInv, RowsAreAcknowledged, RowOf, TypeOK, Row, Pk
  <2>6. QED
    BY <2>1, <2>2, <2>3, <2>5 DEF IInv, KeysGivenOnce
<1>2. QED
  BY <1>1, Invariance, PTL
-----------------------------------------------------------------------------
\* Refinement

LEMMA RefinesInit == Init => Abstract!Init
<1> SUFFICES ASSUME Init PROVE Abstract!Init
  OBVIOUS
<1>1. [r \in Requests |-> IF outcome[r] = "created" THEN pk[r] ELSE 0]
        = [r \in Requests |-> 0]
  BY DEF Init
<1>2. QED
  BY <1>1 DEF Init, Abstract!Init, Abstract!Tables, Tables

\* A refusal is the registry's, with the reason that holds when it is given.
LEMMA RefinesAnswer ==
    ASSUME IInv, NEW r \in Requests, NEW what, Answer(r, what),
           pc[r] \in {"received", "check_email", "flush"},
           \/ what \in {"forbidden", "locked"}
           \/ /\ what = "conflict" /\ req[r].op = "create_student"
              /\ \E w \in table["students"] : SameKey(w.data, req[r].data)
           \/ what = "not_found" /\ req[r].op \in Lookups /\ ~TargetExists(r)
           \/ what = "ok" /\ req[r].op = "get_student" /\ TargetExists(r)
    PROVE  Abstract!Next
<1> DEFINE id == [q \in Requests |-> IF outcome[q] = "created" THEN pk[q] ELSE 0]
<1>1. outcome[r] = "none" /\ req[r] # NoRequest /\ what # "created"
  BY DEF IInv, Progress
<1>2. id' = id
  BY <1>1 DEF Answer, Decide, IInv, TypeOK
<1>3. Abstract!Open(r)
  BY <1>1 DEF Abstract!Open
<1>4. TargetExists(r) <=> Abstract!TargetExists(r)
  BY DEF TargetExists, Visible, Abstract!TargetExists, TargetOf, Abstract!TargetOf
<1>5. UNCHANGED <<req, table>> /\ outcome' = [outcome EXCEPT ![r] = what]
  BY DEF Answer, Decide
<1>6. CASE what \in {"forbidden", "locked"}
  BY <1>2, <1>3, <1>5, <1>6 DEF Abstract!Refuse, Abstract!Next
<1>7. CASE what = "conflict"
  BY <1>2, <1>3, <1>5, <1>7
     DEF Abstract!Conflict, Abstract!Duplicate, Abstract!Next,
         SameKey, Abstract!SameKey
<1>8. CASE what = "not_found"
  BY <1>2, <1>3, <1>4, <1>5, <1>8
     DEF Abstract!NotFound, Abstract!Next, Lookups, TargetOf,
         Abstract!Lookups, Abstract!TargetOf
<1>9. CASE what = "ok"
  BY <1>2, <1>3, <1>4, <1>5, <1>9 DEF Abstract!Found, Abstract!Next
<1>10. QED
  BY <1>6, <1>7, <1>8, <1>9

LEMMA RefinesStep == IInv /\ [Next]_vars => [Abstract!Next]_Abstract!vars
<1> SUFFICES ASSUME IInv, [Next]_vars PROVE [Abstract!Next]_Abstract!vars
  OBVIOUS
<1> USE Operations
<1> DEFINE id == [q \in Requests |-> IF outcome[q] = "created" THEN pk[q] ELSE 0]
<1>1. ASSUME UNCHANGED <<req, outcome, pk, table>>
      PROVE  UNCHANGED Abstract!vars
  BY <1>1 DEF Abstract!vars
<1>2. ASSUME NEW r \in Requests, Receive(r)
      PROVE  Abstract!Next
  <2>1. req[r] = NoRequest /\ UNCHANGED <<outcome, pk, table>>
    BY <1>2 DEF Receive, IInv, Progress
  <2>2. PICK q \in Request : req' = [req EXCEPT ![r] = q]
    BY <1>2, CallMakesRequest DEF Receive
  <2>3. QED
    BY <2>1, <2>2 DEF Abstract!Ask, Abstract!Next
<1>3. ASSUME NEW r \in Requests, Insert(r)
      PROVE  UNCHANGED Abstract!vars
  <2>1. PICK n \in Pk : pk' = [pk EXCEPT ![r] = n]
    BY <1>3 DEF Insert
  <2>2. outcome[r] = "none" /\ UNCHANGED <<req, outcome, table>>
    BY <1>3 DEF Insert, IInv, Progress
  <2>3. id' = id
    BY <2>1, <2>2 DEF IInv, TypeOK
  <2>4. QED
    BY <2>2, <2>3 DEF Abstract!vars
<1>4. ASSUME NEW r \in Requests, InsertFails(r)
      PROVE  Abstract!Next
  <2>1. /\ outcome[r] = "none" /\ req[r] # NoRequest
        /\ outcome' = [outcome EXCEPT ![r] = "integrity_error"]
        /\ UNCHANGED <<req, pk, table>>
    BY <1>4 DEF InsertFails, Decide, IInv, Progress
  <2>2. id' = id
    BY <2>1 DEF IInv, TypeOK
  <2>3. QED
    BY <2>1, <2>2 DEF Abstract!Refuse, Abstract!Open, Abstract!Next
<1>5. ASSUME NEW r \in Requests, Respond(r)
      PROVE  Abstract!Next
  <2>1. /\ outcome[r] = "none" /\ req[r] # NoRequest /\ pk[r] \in Pk
        /\ req[r].op \in Creates
        /\ outcome' = [outcome EXCEPT ![r] = "created"]
        /\ UNCHANGED <<req, pk, table>>
    BY <1>5 DEF Respond, Decide, IInv, Progress, Holds
  <2>2. id' = [id EXCEPT ![r] = pk[r]]
    BY <2>1 DEF IInv, TypeOK
  <2>3. QED
    BY <2>1, <2>2 DEF Abstract!Acknowledge, Abstract!Open, Abstract!Next,
       Creates, TableOf, Abstract!Creates, Abstract!TableOf
<1>6. ASSUME NEW r \in Requests, Commit(r)
      PROVE  Abstract!Next
  <2>1. /\ outcome[r] = "created" /\ Holds(r) /\ req[r].op \in Creates
        /\ req[r] # NoRequest
        /\ UNCHANGED <<req, outcome, pk>> /\ id[r] = pk[r] /\ id' = id
        /\ table' = [table EXCEPT ![TableOf[req[r].op]] = @ \cup {RowOf(r)}]
    BY <1>6 DEF Commit, IInv, Progress, Holds
  <2>2. TableOf[req[r].op] \in Tables
    BY <2>1 DEF Tables
  <2>3. \A w \in table[TableOf[req[r].op]] : w.pk # id[r] /\ w.by # r
    BY <1>6, <2>1, <2>2 DEF Commit, IInv, PendingFits, RowsAreAcknowledged
  <2>4. ~Violates(r)
    BY <2>1 DEF IInv, PendingFits
  <2>5. Abstract!Insertable(r)
    BY <2>1, <2>3, <2>4
       DEF Violates, TargetExists, Visible, SameKey, TargetOf, TableOf,
           Abstract!Insertable, Abstract!Duplicate, Abstract!TargetExists,
           Abstract!SameKey, Abstract!TargetOf, Abstract!TableOf
  <2>6. QED
    BY <2>1, <2>5
       DEF Abstract!Publish, Abstract!Next, RowOf, Creates, TableOf,
           Abstract!Creates, Abstract!TableOf
<1>7. ASSUME NEW r \in Requests, Handle(r)
      PROVE  [Abstract!Next]_Abstract!vars
  <2>1. CASE Forbid(r)
    BY <2>1, RefinesAnswer DEF Forbid
  <2>2. CASE CheckStudentId(r)
    BY <2>2, <1>1, RefinesAnswer DEF CheckStudentId, Admitted, Visible, SameKey
  <2>3. CASE CheckEmail(r)
    BY <2>3, <1>1, RefinesAnswer
       DEF CheckEmail, Visible, SameKey, IInv, Progress
  <2>4. CASE CheckStudent(r)
    BY <2>4, <1>1, RefinesAnswer DEF CheckStudent, Admitted
  <2>5. CASE CheckSession(r)
    BY <2>5, <1>1, RefinesAnswer DEF CheckSession, Admitted
  <2>6. CASE GetStudent(r)
    BY <2>6, RefinesAnswer DEF GetStudent, Admitted
  <2>7. CASE LockTimeout(r)
    BY <2>7, RefinesAnswer DEF LockTimeout
  <2>8. CASE CommitFails(r)
    BY <2>8, <1>1 DEF CommitFails
  <2>9. QED
    BY <1>3, <1>4, <1>5, <1>6, <1>7, <2>1, <2>2, <2>3, <2>4, <2>5, <2>6,
       <2>7, <2>8 DEF Handle
<1>8. ASSUME NEW p \in Processes, Crash(p)
      PROVE  UNCHANGED Abstract!vars
  BY <1>1, <1>8 DEF Crash
<1>9. ASSUME UNCHANGED vars
      PROVE  UNCHANGED Abstract!vars
  BY <1>1, <1>9 DEF vars
<1>10. QED
  BY <1>2, <1>7, <1>8, <1>9 DEF Next, Quiet

\* Every behaviour of the handlers, their locks and their crashes is one of
\* the registry's: truthful refusals, and rows that appear once and stay.
THEOREM Refinement == Spec => ImplementsRegistry
<1>1. Init => Abstract!Init
  BY RefinesInit
<1>2. IInv /\ [Next]_vars => [Abstract!Next]_Abstract!vars
  BY RefinesStep
<1>3. QED
  BY <1>1, <1>2, Invariance, PTL DEF Spec, ImplementsRegistry, Abstract!Spec
=============================================================================
