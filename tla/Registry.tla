------------------------------ MODULE Registry ------------------------------
(***************************************************************************)
(* What the write endpoints of the student-engagement API promise together, *)
(* with no handlers, locks, sequences or processes: three append-only       *)
(* tables.  A request is asked, then it is either turned away, with a       *)
(* truthful reason, or acknowledged under an id; an acknowledged row may    *)
(* then appear in its table, in one step, once, and never changes or        *)
(* disappears.  EngagementStore implements this specification.              *)
(***************************************************************************)
EXTENDS Integers, Schema

CONSTANTS Requests,   \* the requests clients send
          Request,    \* what a request may ask: records with an op and its data
          Pk,         \* primary keys
          NoRequest   \* not asked yet

VARIABLES ask,        \* ask[r]: what r asks for, or NoRequest
          answer,     \* answer[r]: the outcome r was given, "none" before it
          id,         \* id[r]: the key named in the acknowledgement of r, or 0
          table       \* table[t]: the rows of table t

vars == <<ask, answer, id, table>>

Duplicate(r) == \E w \in table["students"] : SameKey(w.data, ask[r].data)
TargetExists(r) ==
    \E w \in table[TargetOf[ask[r].op]] : w.pk = ask[r].data.parent

\* The constraints of the schema: a fresh primary key, fresh unique columns,
\* an existing parent.
Insertable(r) ==
    /\ \A w \in table[TableOf[ask[r].op]] : w.pk # id[r] /\ w.by # r
    /\ IF ask[r].op = "create_student" THEN ~Duplicate(r) ELSE TargetExists(r)

Init ==
    /\ ask = [r \in Requests |-> NoRequest]
    /\ answer = [r \in Requests |-> "none"]
    /\ id = [r \in Requests |-> 0]
    /\ table = [t \in Tables |-> {}]

Ask(r) ==
    /\ ask[r] = NoRequest
    /\ \E q \in Request : ask' = [ask EXCEPT ![r] = q]
    /\ UNCHANGED <<answer, id, table>>

Open(r) == ask[r] # NoRequest /\ answer[r] = "none"

\* 409 only for a key that is taken, 404 only for a target that is missing,
\* 200 only for one that is there; the other refusals need no reason.
Conflict(r) ==
    /\ Open(r) /\ ask[r].op = "create_student" /\ Duplicate(r)
    /\ answer' = [answer EXCEPT ![r] = "conflict"]
    /\ UNCHANGED <<ask, id, table>>

NotFound(r) ==
    /\ Open(r) /\ ask[r].op \in Lookups /\ ~TargetExists(r)
    /\ answer' = [answer EXCEPT ![r] = "not_found"]
    /\ UNCHANGED <<ask, id, table>>

Found(r) ==
    /\ Open(r) /\ ask[r].op = "get_student" /\ TargetExists(r)
    /\ answer' = [answer EXCEPT ![r] = "ok"]
    /\ UNCHANGED <<ask, id, table>>

Refuse(r) ==
    /\ Open(r)
    /\ \E why \in {"forbidden", "integrity_error", "locked"} :
          answer' = [answer EXCEPT ![r] = why]
    /\ UNCHANGED <<ask, id, table>>

Acknowledge(r) ==
    /\ Open(r) /\ ask[r].op \in Creates
    /\ answer' = [answer EXCEPT ![r] = "created"]
    /\ \E n \in Pk : id' = [id EXCEPT ![r] = n]
    /\ UNCHANGED <<ask, table>>

Publish(r) ==
    /\ answer[r] = "created" /\ ask[r].op \in Creates
    /\ Insertable(r)
    /\ table' = [table EXCEPT ![TableOf[ask[r].op]] =
                    @ \cup {[pk |-> id[r], by |-> r, data |-> ask[r].data]}]
    /\ UNCHANGED <<ask, answer, id>>

Next == \E r \in Requests :
    \/ Ask(r) \/ Conflict(r) \/ NotFound(r) \/ Found(r)
    \/ Refuse(r) \/ Acknowledge(r) \/ Publish(r)

Spec == Init /\ [][Next]_vars
=============================================================================
