------------------------------- MODULE Schema -------------------------------
(***************************************************************************)
(* The vocabulary the modules of the write path share: the tables of        *)
(* app/adapters/persistence/models.py with their unique columns and foreign *)
(* keys, the operations that touch them, and the roles of                   *)
(* app/domain/entities.py that admit a caller to an operation.              *)
(***************************************************************************)

Role == {"viewer", "analyst", "admin"}
WRITE_ROLES == {"analyst", "admin"}
READ_ROLES == Role

Tables == {"students", "sessions", "events"}

\* The table a create writes.
TableOf == [create_student |-> "students", create_session |-> "sessions",
            create_event |-> "events"]

\* The table an operation looks its target up in: the parent of the row a
\* create writes (also its foreign key), or the row a read asks for.
TargetOf == [create_session |-> "students", create_event |-> "sessions",
             get_student |-> "students"]

Creates == DOMAIN TableOf
Lookups == DOMAIN TargetOf

\* Two student rows clash when they share either unique column.
SameKey(d, e) == d.student_id = e.student_id \/ d.email = e.email

\* The roles each route's dependency admits.
Permitted(op) == IF op \in Creates THEN WRITE_ROLES ELSE READ_ROLES
=============================================================================
