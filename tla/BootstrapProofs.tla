-------------------------- MODULE BootstrapProofs --------------------------
(***************************************************************************)
(* Proofs about Bootstrap, for any number of starts and script runs, any    *)
(* accounts and any seeds, on either database.                              *)
(***************************************************************************)
EXTENDS Bootstrap, SequenceTheorems, TLAPS

USE DEF tables

Elems(q) == {q[i] : i \in 1 .. Len(q)}
Distinct(q) == \A i, j \in 1 .. Len(q) : q[i] = q[j] => i = j

\* What is left of q after its first n elements.
Left(q, n) == [i \in 1 .. Len(q) - n |-> q[n + i]]
Tails(q) == {Left(q, n) : n \in 0 .. Len(q)}

KeysOf(S) == {w.key : w \in S}

\* The row a inserts into every table but users.
Own(a) == [by |-> a, key |-> Seed[a]]

InSession == {"account", "add", "empty", "students", "sessions", "events",
              "commit"}
Places == {"off", "look_drop", "look", "drop", "create", "index"}
              \cup InSession \cup Ended
Errors == {"none", "exists", "missing", "unique", "multiple", "locked",
           "deadlock"}

TypeOK ==
    /\ singleWriter \in BOOLEAN /\ reset \subseteq Scripts
    /\ pc \in [Actors -> Places]
    /\ plan \in [Actors -> Seq(Tables \cup Names)]
    /\ made \subseteq Tables /\ bare \subseteq Tables
    /\ rows \in [Tables -> SUBSET Row]
    /\ mine \in [Actors -> [Tables -> SUBSET Row]]
    /\ used \in [Actors -> SUBSET Tables]
    /\ new \in [Actors -> SUBSET Tables] /\ gone \in [Actors -> SUBSET Tables]
    /\ error \in [Actors -> Errors]

\* What a still has to see to: tables, or accounts from some place on.
PlanFits(a) ==
    /\ pc[a] \in {"drop", "create", "index"} => plan[a] \in Seq(Tables)
    /\ pc[a] \in {"account", "add"} => plan[a] \in Tails(Accounts)
    /\ pc[a] \in {"add", "index"} => plan[a] # <<>>
    /\ pc[a] \notin {"drop", "create", "index", "account", "add"} =>
          plan[a] = <<>>

\* A transaction holds what its part of the work calls for, and nothing more.
Holds(a) ==
    /\ pc[a] \notin InSession => mine[a] = NoRows /\ used[a] = {}
    /\ pc[a] \notin {"drop", "create"} \/ singleWriter => gone[a] = {}
    /\ pc[a] # "create" \/ singleWriter => new[a] = {}
    /\ pc[a] \in {"look_drop", "drop"} => a \in reset
    /\ pc[a] = "index" => singleWriter
    /\ pc[a] = "add" \/ (pc[a] \in InSession /\ plan[a] # Accounts) =>
          "users" \in used[a]
    /\ \/ pc[a] \in {"sessions", "events", "commit"}
       \/ pc[a] = "students" /\ a \notin reset
       => "students" \in used[a]

\* What a has inserted by the time it gets to a statement: accounts, then a
\* row of its own in each of the other tables or in none.
MineFits(a) ==
    /\ mine[a]["users"] \subseteq [by : {a}, key : Names]
    /\ mine[a]["students"] =
          IF pc[a] \in {"sessions", "events"} THEN {Own(a)}
          ELSE IF pc[a] = "commit" THEN mine[a]["events"] ELSE {}
    /\ mine[a]["sessions"] =
          IF pc[a] = "events" THEN {Own(a)}
          ELSE IF pc[a] = "commit" THEN mine[a]["events"] ELSE {}
    /\ mine[a]["events"] \in IF pc[a] = "commit" THEN {{}, {Own(a)}} ELSE {{}}

Local(a) == PlanFits(a) /\ Holds(a) /\ MineFits(a)

UsersKnown == rows["users"] \subseteq [by : Actors, key : Names]

PlaceInv == TypeOK /\ UsersKnown /\ \A a \in Actors : Local(a)

\* On PostgreSQL the tables are there or not, all together, and who drops or
\* creates them drops and creates them all.
DropFits(a) ==
    pc[a] = "drop" => \/ gone[a] \cup Elems(plan[a]) = Tables
                      \/ gone[a] = {} /\ plan[a] = <<>>
CreateFits(a) ==
    pc[a] = "create" =>
        \/ /\ gone[a] \in {{}, Tables} /\ plan[a] \in Tails(Order)
           /\ new[a] = Tables \ Elems(plan[a])
        \/ gone[a] = {} /\ plan[a] = <<>> /\ new[a] = {} /\ made = Tables
ServerTables ==
    ~singleWriter => /\ made \in {{}, Tables}
                     /\ \A a \in Actors : DropFits(a) /\ CreateFits(a)

\* There, nobody drops a table under who has used it.
Apart ==
    ~singleWriter => \A a, b \in Actors :
        a # b => (used[a] \cup gone[a]) \cap gone[b] = {}

\* The tables a has still to create: not the one it is indexing.
Ahead(a) == IF pc[a] = "index" THEN Tail(plan[a]) ELSE plan[a]

\* Without a --reset, the tables of a file appear in their order, and who
\* creates them has still to see to all that are missing.
FileTables ==
    singleWriter /\ NoReset =>
        /\ \E q \in Tails(Order) : made = Tables \ Elems(q)
        /\ \A a \in Actors : pc[a] \in {"create", "index"} =>
              Ahead(a) \in Tails(Order) /\ Tables \ made \subseteq Elems(Ahead(a))

\* Unless a --reset on a file drops them, a session finds the tables.
MadeAll ==
    NoReset \/ ~singleWriter =>
        \A a \in Actors : pc[a] \in InSession \cup {"up"} => made = Tables

TableInv == ServerTables /\ Apart /\ FileTables /\ MadeAll

\* No table is emptied under who has used it.
Steady == NoReset \/ ~singleWriter

\* The accounts a session is through with are there, or among its own rows.
Covered(a) ==
    pc[a] \in InSession =>
        Names \ Elems(plan[a]) \subseteq KeysOf(rows["users"] \cup mine[a]["users"])

\* Who has nothing to add to the students has found some.
DataKnown(a) ==
    pc[a] = "commit" /\ mine[a]["students"] = {} => rows["students"] # {}

DataInv ==
    AllOrNothing /\ (Steady => \A a \in Actors : Covered(a) /\ DataKnown(a))
-----------------------------------------------------------------------------
\* Plans

LEMMA FunctionIsSeq ==
    ASSUME NEW S, NEW n \in Nat, NEW f \in [1 .. n -> S]
    PROVE  f \in Seq(S) /\ Len(f) = n
<1>1. f \in Seq(S)
  BY SeqDef
<1>2. DOMAIN f = 1 .. Len(f) /\ Len(f) \in Nat /\ DOMAIN f = 1 .. n
  BY <1>1, LenProperties
<1>3. QED
  BY <1>1, <1>2

LEMMA HeadOfPlan ==
    ASSUME NEW S, NEW q \in Seq(S), q # <<>>
    PROVE  Elems(q) = Elems(Tail(q)) \cup {Head(q)}
<1>1. /\ Len(q) \in Nat \ {0} /\ Head(q) = q[1]
      /\ Len(Tail(q)) = Len(q) - 1
      /\ \A i \in 1 .. Len(Tail(q)) : Tail(q)[i] = q[i + 1]
  BY EmptySeq, HeadTailProperties
<1>2. \A i \in 1 .. Len(q) : i = 1 \/ q[i] = Tail(q)[i - 1]
  BY <1>1
<1>3. ASSUME NEW x \in Elems(q)
      PROVE  x \in Elems(Tail(q)) \cup {Head(q)}
  <2>1. PICK i \in 1 .. Len(q) : x = q[i]
    BY DEF Elems
  <2>2. CASE i # 1
    <3>1. i - 1 \in 1 .. Len(Tail(q))
      BY <1>1, <2>2
    <3>2. QED
      BY <1>2, <2>1, <2>2, <3>1 DEF Elems
  <2>3. QED
    BY <1>1, <2>1, <2>2
<1>4. ASSUME NEW x \in Elems(Tail(q)) \cup {Head(q)}
      PROVE  x \in Elems(q)
  <2>1. CASE x = Head(q)
    <3>1. 1 \in 1 .. Len(q)
      BY <1>1
    <3>2. QED
      BY <1>1, <2>1, <3>1 DEF Elems
  <2>2. CASE x \in Elems(Tail(q))
    <3>1. PICK i \in 1 .. Len(Tail(q)) : x = Tail(q)[i]
      BY <2>2 DEF Elems
    <3>2. i + 1 \in 1 .. Len(q) /\ x = q[i + 1]
      BY <1>1, <3>1
    <3>3. QED
      BY <3>2 DEF Elems
  <2>3. QED
    BY <2>1, <2>2
<1>5. QED
  BY <1>3, <1>4

\* A plan shrinks from its head, and names nothing twice.
LEMMA TailFacts ==
    ASSUME NEW S, NEW s \in Seq(S), Distinct(s), NEW q \in Tails(s)
    PROVE  /\ q \in Seq(S) /\ Len(q) \in Nat /\ Elems(q) \subseteq Elems(s)
           /\ q # <<>> => /\ Tail(q) \in Tails(s)
                          /\ Head(q) \in Elems(q) /\ Head(q) \notin Elems(Tail(q))
                          /\ Elems(q) = Elems(Tail(q)) \cup {Head(q)}
<1>1. Len(s) \in Nat /\ s \in [1 .. Len(s) -> S]
  BY LenProperties
<1>2. PICK n \in 0 .. Len(s) : q = Left(s, n)
  BY DEF Tails
<1>3. /\ q \in [1 .. Len(s) - n -> S] /\ Len(s) - n \in Nat
      /\ \A i \in 1 .. Len(s) - n : q[i] = s[n + i]
  BY <1>1, <1>2 DEF Left
<1>4. q \in Seq(S) /\ Len(q) = Len(s) - n
  BY <1>3, FunctionIsSeq
<1>5. Elems(q) \subseteq Elems(s)
  BY <1>1, <1>3, <1>4 DEF Elems
<1>6. ASSUME q # <<>>
      PROVE  /\ Tail(q) \in Tails(s)
             /\ Head(q) \in Elems(q) /\ Head(q) \notin Elems(Tail(q))
             /\ Elems(q) = Elems(Tail(q)) \cup {Head(q)}
  <2>1. Len(q) > 0
    BY <1>4, <1>6, EmptySeq
  <2>2. /\ Tail(q) \in Seq(S) /\ Len(Tail(q)) = Len(q) - 1
        /\ \A i \in 1 .. Len(Tail(q)) : Tail(q)[i] = q[i + 1]
        /\ Head(q) = q[1]
    BY <1>4, <1>6, HeadTailProperties
  <2>3. Tail(q) = Left(s, n + 1)
    <3> DEFINE r == Left(s, n + 1)
    <3>1. r \in [1 .. Len(q) - 1 -> S]
      BY <1>1, <1>3, <1>4, <2>1 DEF Left
    <3>2. \A i \in 1 .. Len(q) - 1 : r[i] = s[(n + 1) + i]
      BY <1>1, <1>4, <2>1 DEF Left
    <3>3. r \in Seq(S) /\ Len(r) = Len(q) - 1
      BY <3>1, <2>1, <1>4, FunctionIsSeq
    <3>4. \A i \in 1 .. Len(q) - 1 : r[i] = Tail(q)[i]
      BY <1>3, <1>4, <2>2, <3>2
    <3> HIDE DEF r
    <3>5. QED
      BY <2>2, <3>3, <3>4, SeqEqual DEF r
  <2>4. n + 1 \in 0 .. Len(s)
    BY <1>1, <1>4, <2>1
  <2>5. Tail(q) \in Tails(s)
    BY <2>3, <2>4 DEF Tails
  <2>6. Head(q) \in Elems(q)
    BY <1>4, <2>1, <2>2 DEF Elems
  <2>7. Head(q) \notin Elems(Tail(q))
    <3>1. Head(q) = s[n + 1] /\ n + 1 \in 1 .. Len(s)
      BY <1>1, <1>3, <1>4, <2>1, <2>2
    <3>2. ASSUME NEW i \in 1 .. Len(Tail(q))
          PROVE  Tail(q)[i] # Head(q)
      <4>1. i + 1 \in 1 .. Len(s) - n /\ Tail(q)[i] = q[i + 1]
        BY <1>1, <1>4, <2>1, <2>2
      <4>2. q[i + 1] = s[n + (i + 1)]
        BY <1>3, <4>1
      <4>3. n + (i + 1) \in 1 .. Len(s) /\ n + (i + 1) # n + 1
        BY <1>1, <4>1
      <4>4. QED
        BY <3>1, <4>1, <4>2, <4>3 DEF Distinct
    <3>3. QED
      BY <3>2 DEF Elems
  <2>8. Elems(q) = Elems(Tail(q)) \cup {Head(q)}
    BY <1>4, <1>6, HeadOfPlan
  <2>9. QED
    BY <2>5, <2>6, <2>7, <2>8
<1>7. QED
  BY <1>4, <1>5, <1>6, LenProperties

\* Of two who work off the same plan, the one whose next element the other
\* has done has the longer way to go.
LEMMA TailOrder ==
    ASSUME NEW S, NEW s \in Seq(S), NEW q \in Tails(s), NEW r \in Tails(s),
           q # <<>>, Head(q) \notin Elems(r)
    PROVE  Len(r) < Len(q) /\ Len(r) \in Nat /\ Len(q) \in Nat
<1>1. Len(s) \in Nat /\ s \in [1 .. Len(s) -> S]
  BY LenProperties
<1>2. PICK m \in 0 .. Len(s), n \in 0 .. Len(s) : q = Left(s, m) /\ r = Left(s, n)
  BY DEF Tails
<1>3. /\ q \in [1 .. Len(s) - m -> S] /\ \A i \in 1 .. Len(s) - m : q[i] = s[m + i]
      /\ r \in [1 .. Len(s) - n -> S] /\ \A i \in 1 .. Len(s) - n : r[i] = s[n + i]
  BY <1>1, <1>2 DEF Left
<1>4. /\ q \in Seq(S) /\ Len(q) = Len(s) - m
      /\ r \in Seq(S) /\ Len(r) = Len(s) - n
  BY <1>1, <1>3, FunctionIsSeq
<1>5. Len(q) > 0 /\ Head(q) = q[1]
  BY <1>4, EmptySeq, HeadTailProperties
<1>6. Head(q) = s[m + 1]
  BY <1>1, <1>3, <1>4, <1>5
<1>7. ASSUME n <= m
      PROVE  FALSE
  <2>1. m + 1 - n \in 1 .. Len(r) /\ n + (m + 1 - n) = m + 1
    BY <1>1, <1>4, <1>5, <1>7
  <2>2. r[m + 1 - n] = s[m + 1]
    BY <1>3, <1>4, <2>1
  <2>3. QED
    BY <1>6, <2>1, <2>2 DEF Elems
<1>8. QED
  BY <1>1, <1>4, <1>7

\* The plan and what is left of it at both ends.
LEMMA WholeAndNothing ==
    ASSUME NEW S, NEW s \in Seq(S)
    PROVE  s \in Tails(s) /\ <<>> \in Tails(s)
<1>1. Len(s) \in Nat /\ s \in [1 .. Len(s) -> S]
  BY LenProperties
<1>2. s = Left(s, 0)
  BY <1>1 DEF Left
<1>3. <<>> = Left(s, Len(s))
  <2>1. Left(s, Len(s)) = [i \in {} |-> s[Len(s) + i]]
    <3>1. 1 .. Len(s) - Len(s) = {}
      BY <1>1
    <3>2. QED
      BY <3>1 DEF Left
  <2>2. Left(s, Len(s)) \in Seq(S) /\ Len(Left(s, Len(s))) = 0
    <3>1. Left(s, Len(s)) \in [1 .. 0 -> S]
      BY <1>1 DEF Left
    <3>2. QED
      BY <3>1, FunctionIsSeq
  <2>3. QED
    BY <2>2, EmptySeq
<1>4. QED
  BY <1>1, <1>2, <1>3 DEF Tails

LEMMA AccountsFacts ==
    /\ Accounts \in Seq(Names) /\ Distinct(Accounts)
    /\ Elems(Accounts) = Names /\ Names # {}
<1>1. Accounts \in Seq(Names) /\ Accounts # <<>> /\ Distinct(Accounts)
  BY BootstrapAssumption DEF Distinct
<1>2. Elems(Accounts) = Names
  BY DEF Elems, Names
<1>3. Len(Accounts) \in Nat /\ Len(Accounts) # 0
  <2>1. Len(Accounts) \in Nat
    BY <1>1, LenProperties
  <2>2. Len(Accounts) \in Nat \ {0}
    BY <1>1, EmptySeq
  <2>3. QED
    BY <2>2
<1>4. Names # {}
  <2>1. 1 \in 1 .. Len(Accounts)
    BY <1>3
  <2>2. QED
    BY <2>1 DEF Names
<1>5. QED
  BY <1>1, <1>2, <1>4
-----------------------------------------------------------------------------
\* Where an actor is, and what it holds there

LEMMA TablesAre ==
    Tables = {"users", "students", "sessions", "events"}
BY DEF Tables, Order

LEMMA PlansOfTables ==
    ASSUME NEW S
    PROVE  InOrder(S) \in Seq(Tables) /\ Reversed(S) \in Seq(Tables)
<1>1. \A t \in Tables : Only(t, S) \in Seq(Tables)
  BY DEF Only
<1>2. QED
  BY <1>1, TablesAre, ConcatProperties DEF InOrder, Reversed

LEMMA InitPlaces == Init => PlaceInv
<1> SUFFICES ASSUME Init
             PROVE  PlaceInv
  OBVIOUS
<1>1. TypeOK
  BY EmptySeq DEF Init, TypeOK, Places, Errors, NoRows
<1>2. UsersKnown
  BY TablesAre DEF Init, UsersKnown, NoRows
<1>3. ASSUME NEW a \in Actors
      PROVE  Local(a)
  BY <1>3, TablesAre
     DEF Init, Local, PlanFits, Holds, MineFits, InSession, NoRows
<1>4. QED
  BY <1>1, <1>2, <1>3 DEF PlaceInv

\* What an actor does leaves what others hold as it is.
Others(a) ==
    \A b \in Actors \ {a} :
        /\ pc'[b] = pc[b] /\ plan'[b] = plan[b] /\ error'[b] = error[b]
        /\ mine'[b] = mine[b] /\ used'[b] = used[b]
        /\ new'[b] = new[b] /\ gone'[b] = gone[b]

Step(a) == \/ Advance(a)
           \/ (Start(a) \/ Refuse(a) \/ Crash(a)) /\ UNCHANGED setting

LEMMA NextIs ==
    ASSUME Next
    PROVE  \/ \E a \in Actors : Step(a)
           \/ Write /\ UNCHANGED setting
           \/ UNCHANGED vars
<1>1. CASE \E a \in Actors : Advance(a)
  BY <1>1 DEF Step
<1>2. CASE /\ \/ \E a \in Actors : Start(a) \/ Refuse(a) \/ Crash(a)
              \/ Write \/ Quiet
           /\ UNCHANGED setting
  BY <1>2 DEF Step, Quiet
<1>3. QED
  BY <1>1, <1>2 DEF Next

LEMMA OthersStay ==
    ASSUME TypeOK, NEW a \in Actors, Step(a)
    PROVE  Others(a)
<1> USE DEF TypeOK, Others, Go, Plan, Release, Touch, own
<1>1. CASE Start(a) \/ Refuse(a)
  BY <1>1 DEF Start, Refuse
<1>2. CASE Crash(a) \/ Fail(a) \/ LockTimeout(a) \/ Deadlock(a)
  BY <1>2 DEF Crash, Fail, LockTimeout, Deadlock, Abandon
<1>3. CASE LookDrop(a) \/ Look(a)
  BY <1>3 DEF LookDrop, Look
<1>4. CASE Drop(a)
  BY <1>4 DEF Drop
<1>5. CASE Create(a) \/ Index(a)
  BY <1>5 DEF Create, Index
<1>6. CASE SchemaDone(a)
  BY <1>6 DEF SchemaDone
<1>7. CASE SkipAccount(a) \/ MissAccount(a)
  BY <1>7 DEF SkipAccount, MissAccount
<1>8. CASE AddAccount(a)
  BY <1>8 DEF AddAccount, Put
<1>9. CASE NeedNotAsk(a) \/ Ask(a) \/ IsEmpty(a)
  BY <1>9 DEF NeedNotAsk, Ask, IsEmpty
<1>10. CASE SeedStudents(a) \/ SeedSessions(a) \/ SeedEvents(a)
  BY <1>10 DEF SeedStudents, SeedSessions, SeedEvents, Put
<1>11. CASE Commit(a)
  BY <1>11 DEF Commit
<1>12. QED
  BY <1>1, <1>2, <1>3, <1>4, <1>5, <1>6, <1>7, <1>8, <1>9, <1>10, <1>11
     DEF Step, Advance

LEMMA StatementTables ==
    ASSUME TypeOK, NEW a \in Actors, pc[a] \in Statements
    PROVE  Target(a) \in Tables
BY TablesAre DEF Target, Statements, Inserts

\* A row put into a table: of a, under an account's name or its own seed.
LEMMA PutRow ==
    ASSUME TypeOK, NEW a \in Actors, Local(a), pc[a] \in Inserts
    PROVE  LET w == [by |-> a, key |-> KeyOf(a)]
           IN  /\ w \in Row
               /\ pc[a] = "add" => w \in [by : {a}, key : Names]
               /\ pc[a] # "add" => w = Own(a)
<1>1. CASE pc[a] = "add"
  <2>1. KeyOf(a) = Head(plan[a])
    BY <1>1 DEF KeyOf
  <2>2. Head(plan[a]) \in Names
    BY <1>1, AccountsFacts, TailFacts DEF Local, PlanFits
  <2>3. QED
    BY <1>1, <2>1, <2>2 DEF Row, Keys
<1>2. CASE pc[a] # "add"
  BY <1>2 DEF KeyOf, Row, Keys, Own
<1>3. QED
  BY <1>1, <1>2

LEMMA AbandonPlaces ==
    ASSUME PlaceInv, NEW a \in Actors, NEW how \in {"failed", "dead"},
           NEW why \in Errors, Abandon(a, how, why), UNCHANGED setting
    PROVE  TypeOK' /\ UsersKnown' /\ Local(a)'
<1> USE DEF PlaceInv, TypeOK, Abandon, Go, Plan, Release, setting
<1>1. TypeOK'
  BY TablesAre, EmptySeq DEF Places, Ended, NoRows
<1>2. UsersKnown'
  BY DEF UsersKnown
<1>3. Local(a)'
  BY TablesAre DEF Local, PlanFits, Holds, MineFits, InSession, NoRows
<1>4. QED
  BY <1>1, <1>2, <1>3

LEMMA SchemaPlaces ==
    ASSUME PlaceInv, NEW a \in Actors, UNCHANGED setting,
           \/ Start(a) \/ Refuse(a) \/ LookDrop(a) \/ Look(a) \/ Drop(a)
           \/ Create(a) \/ Index(a) \/ SchemaDone(a)
    PROVE  TypeOK' /\ UsersKnown' /\ Local(a)'
<1> USE DEF PlaceInv, TypeOK, Go, Plan, own, setting
<1>1. CASE Start(a) \/ Refuse(a)
  <2>1. TypeOK'
    BY <1>1 DEF Start, Refuse, Places, Ended
  <2>2. UsersKnown'
    BY <1>1 DEF UsersKnown, Start, Refuse
  <2>3. Local(a)'
    <3>1. PlanFits(a)'
      BY <1>1
         DEF Local, PlanFits, InSession, Start, Refuse
    <3>2. Holds(a)'
      BY <1>1
         DEF Local, Holds, InSession, Start, Refuse
    <3>3. MineFits(a)'
      BY <1>1
         DEF Local, MineFits, Start, Refuse
    <3>4. QED
      BY <3>1, <3>2, <3>3 DEF Local
  <2>4. QED
    BY <2>1, <2>2, <2>3
<1>2. CASE LookDrop(a) \/ Look(a)
  <2> DEFINE q == plan'[a]
  <2>1. q \in Seq(Tables)
    BY <1>2, PlansOfTables DEF LookDrop, Look
  <2>2. q \in Seq(Tables \cup Names)
    BY <2>1, SeqMonotonic
  <2>3. plan' = [plan EXCEPT ![a] = q]
    BY <1>2 DEF LookDrop, Look
  <2> HIDE DEF q
  <2>4. TypeOK'
    BY <1>2, <2>2, <2>3 DEF LookDrop, Look, Places
  <2>5. UsersKnown'
    BY <1>2 DEF UsersKnown, LookDrop, Look
  <2>6. plan'[a] = q
    BY <2>3
  <2>7. Local(a)'
    <3>1. PlanFits(a)'
      BY <1>2, <2>1, <2>6
         DEF Local, PlanFits, InSession, LookDrop, Look
    <3>2. Holds(a)'
      BY <1>2, <2>1, <2>6
         DEF Local, Holds, InSession, LookDrop, Look
    <3>3. MineFits(a)'
      BY <1>2, <2>1, <2>6
         DEF Local, MineFits, LookDrop, Look
    <3>4. QED
      BY <3>1, <3>2, <3>3 DEF Local
  <2>8. QED
    BY <2>4, <2>5, <2>7
<1>3. CASE Drop(a) \/ Create(a) \/ Index(a)
  <2>1. /\ plan[a] \in Seq(Tables) /\ plan[a] # <<>>
        /\ plan' = [plan EXCEPT ![a] = Tail(plan[a])]
           \/ (plan' = plan /\ Create(a) /\ singleWriter)
        /\ Target(a) = Head(plan[a])
    BY <1>3 DEF Drop, Create, Index, Local, PlanFits, Target
  <2>2. Tail(plan[a]) \in Seq(Tables) /\ Target(a) \in Tables
    BY <2>1, HeadTailProperties
  <2> DEFINE q == Tail(plan[a])
  <2>3. /\ q \in Seq(Tables) /\ q \in Seq(Tables \cup Names)
        /\ Target(a) \in Tables
    BY <2>2, SeqMonotonic
  <2> HIDE DEF q
  <2>4. \/ plan' = [plan EXCEPT ![a] = q] /\ plan'[a] = q
        \/ plan' = plan /\ Create(a) /\ singleWriter
    BY <2>1 DEF q
  <2>5. rows' \in [Tables -> SUBSET Row] /\ rows'["users"] \subseteq rows["users"]
    <3>1. rows \in [Tables -> SUBSET Row] /\ "users" \in Tables
      BY TablesAre
    <3>2. CASE UNCHANGED rows
      BY <3>1, <3>2
    <3>3. CASE Drop(a) /\ ~UNCHANGED rows
      <4>1. rows' = [u \in Tables |->
                       IF u \in Cascade(Target(a)) THEN {} ELSE rows[u]]
        BY <3>3 DEF Drop
      <4>2. QED
        BY <3>1, <4>1
    <3>4. QED
      BY <1>3, <3>2, <3>3 DEF Create, Index
  <2>6. TypeOK'
    <3>1. plan' \in [Actors -> Seq(Tables \cup Names)]
      BY <2>3, <2>4
    <3>2. CASE Drop(a)
      <4>1. made' \subseteq Tables /\ bare' \subseteq Tables
        BY <3>2 DEF Drop
      <4>2. gone' \in [Actors -> SUBSET Tables]
        <5>1. \/ gone' = gone
              \/ gone' = [gone EXCEPT ![a] = gone[a] \cup {Target(a)}]
          BY <3>2 DEF Drop
        <5>2. gone[a] \cup {Target(a)} \in SUBSET Tables
          BY <2>3
        <5>3. QED
          BY <5>1, <5>2
      <4>3. UNCHANGED <<pc, mine, used, new, error>>
        BY <3>2 DEF Drop
      <4>4. QED
        BY <2>5, <3>1, <4>1, <4>2, <4>3
    <3>3. CASE Create(a)
      <4>1. made' \subseteq Tables /\ bare' \subseteq Tables
        BY <2>3, <3>3 DEF Create
      <4>2. new' \in [Actors -> SUBSET Tables]
        <5>1. \/ new' = new
              \/ new' = [new EXCEPT ![a] = new[a] \cup {Target(a)}]
          BY <3>3 DEF Create
        <5>2. new[a] \cup {Target(a)} \in SUBSET Tables
          BY <2>3
        <5>3. QED
          BY <5>1, <5>2
      <4>3. UNCHANGED <<mine, used, gone, error>>
        BY <3>3 DEF Create
      <4>4. pc' \in [Actors -> Places]
        BY <3>3 DEF Create, Places
      <4>5. QED
        BY <2>5, <3>1, <4>1, <4>2, <4>3, <4>4
    <3>4. CASE Index(a)
      <4>1. made' \subseteq Tables /\ bare' \subseteq Tables
        BY <3>4 DEF Index
      <4>2. UNCHANGED <<mine, used, new, gone, error>>
        BY <3>4 DEF Index
      <4>3. pc' \in [Actors -> Places]
        BY <3>4 DEF Index, Places
      <4>4. QED
        BY <2>5, <3>1, <4>1, <4>2, <4>3
    <3>5. QED
      BY <1>3, <3>2, <3>3, <3>4
  <2>7. UsersKnown'
    BY <2>5 DEF UsersKnown
  <2>8. Local(a)'
    <3>1. CASE Drop(a)
      BY <3>1, <2>3, <2>4, <2>6
         DEF Local, PlanFits, Holds, MineFits, InSession, Drop
    <3>2. CASE Create(a)
      <4>1. PlanFits(a)'
        BY <3>2, <2>1, <2>3, <2>4, <2>6
           DEF Local, PlanFits, InSession, Create
      <4>2. Holds(a)'
        BY <3>2, <2>1, <2>3, <2>4, <2>6
           DEF Local, Holds, InSession, Create
      <4>3. MineFits(a)'
        BY <3>2, <2>1, <2>3, <2>4, <2>6
           DEF Local, MineFits, Create
      <4>4. QED
        BY <4>1, <4>2, <4>3 DEF Local
    <3>3. CASE Index(a)
      BY <3>3, <2>3, <2>4, <2>6
         DEF Local, PlanFits, Holds, MineFits, InSession, Index
    <3>4. QED
      BY <1>3, <3>1, <3>2, <3>3
  <2>9. QED
    BY <2>6, <2>7, <2>8
<1>4. CASE SchemaDone(a)
  <2>1. Accounts \in Tails(Accounts) /\ Accounts \in Seq(Tables \cup Names)
        /\ Accounts # <<>>
    BY AccountsFacts, WholeAndNothing, SeqMonotonic, BootstrapAssumption
  <2>2. rows' \in [Tables -> SUBSET Row] /\ rows'["users"] \subseteq rows["users"]
    BY <1>4, TablesAre DEF SchemaDone
  <2>3. TypeOK'
    BY <1>4, <2>1, <2>2 DEF SchemaDone, Release, Places, InSession, NoRows
  <2>4. UsersKnown'
    BY <2>2 DEF UsersKnown
  <2>5. Local(a)'
    BY <1>4, <2>1, TablesAre
       DEF SchemaDone, Release, Local, PlanFits, Holds, MineFits, InSession, NoRows
  <2>6. QED
    BY <2>3, <2>4, <2>5
<1>5. QED
  BY <1>1, <1>2, <1>3, <1>4

LEMMA AccountPlaces ==
    ASSUME PlaceInv, NEW a \in Actors, UNCHANGED setting,
           \/ SkipAccount(a) \/ MissAccount(a) \/ AddAccount(a)
           \/ NeedNotAsk(a) \/ Ask(a) \/ IsEmpty(a)
    PROVE  TypeOK' /\ UsersKnown' /\ Local(a)'
<1> USE DEF PlaceInv, TypeOK, Go, Plan, Touch, setting, own
<1>1. CASE SkipAccount(a) \/ MissAccount(a) \/ AddAccount(a)
  <2>1. /\ pc[a] \in {"account", "add"} /\ plan[a] \in Tails(Accounts)
        /\ plan[a] # <<>> /\ Target(a) = "users"
    BY <1>1 DEF SkipAccount, MissAccount, AddAccount, Local, PlanFits, Target
  <2> DEFINE q == Tail(plan[a])
  <2>2. q \in Tails(Accounts) /\ q \in Seq(Names)
    BY <2>1, AccountsFacts, TailFacts
  <2>3. q \in Seq(Tables \cup Names)
    BY <2>2, SeqMonotonic
  <2> HIDE DEF q
  <2>4. CASE SkipAccount(a) \/ MissAccount(a)
    <3>1. /\ pc' = [pc EXCEPT ![a] = pc'[a]] /\ pc'[a] \in {"account", "add"}
          /\ plan'[a] \in {q, plan[a]} /\ plan' = [plan EXCEPT ![a] = plan'[a]]
          /\ pc'[a] = "add" => plan'[a] = plan[a]
          /\ used' = [used EXCEPT ![a] = used[a] \cup {"users"}]
          /\ UNCHANGED <<tables, rows, mine, new, gone, error>>
      BY <2>1, <2>4 DEF SkipAccount, MissAccount, q
    <3>2. TypeOK'
      <4>1. pc'[a] \in Places /\ plan'[a] \in Seq(Tables \cup Names)
            /\ "users" \in Tables
        BY <2>3, <3>1, TablesAre DEF Places, InSession
      <4>2. pc' \in [Actors -> Places]
        BY <3>1, <4>1
      <4>3. plan' \in [Actors -> Seq(Tables \cup Names)]
        BY <3>1, <4>1
      <4>4. used' \in [Actors -> SUBSET Tables]
        BY <3>1, <4>1
      <4>5. QED
        BY <3>1, <4>2, <4>3, <4>4
    <3>3. UsersKnown'
      BY <3>1 DEF UsersKnown
    <3>4. Local(a)'
      BY <2>1, <2>2, <3>1 DEF Local, PlanFits, Holds, MineFits, InSession
    <3>5. QED
      BY <3>2, <3>3, <3>4
  <2>5. CASE AddAccount(a)
    <3> DEFINE w == [by |-> a, key |-> KeyOf(a)]
    <3>1. w \in Row /\ w \in [by : {a}, key : Names] /\ pc[a] = "add"
      BY <2>5, PutRow DEF AddAccount, Inserts
    <3>2. /\ pc' = [pc EXCEPT ![a] = "account"] /\ plan' = [plan EXCEPT ![a] = q]
          /\ mine' = [mine EXCEPT ![a]["users"] = mine[a]["users"] \cup {w}]
          /\ used' = [used EXCEPT ![a] = used[a] \cup {"users"}]
          /\ UNCHANGED <<tables, rows, new, gone, error>>
      BY <2>1, <2>5 DEF AddAccount, Put, q
    <3> HIDE DEF w
    <3>3. TypeOK'
      BY <2>3, <3>1, <3>2, TablesAre DEF Places, InSession
    <3>4. UsersKnown'
      BY <3>2 DEF UsersKnown
    <3>5. Local(a)'
      <4>1. /\ mine'[a]["users"] = mine[a]["users"] \cup {w}
            /\ \A u \in Tables \ {"users"} : mine'[a][u] = mine[a][u]
            /\ pc'[a] = "account" /\ plan'[a] = q
            /\ used'[a] = used[a] \cup {"users"}
        BY <3>2, TablesAre
      <4>2. PlanFits(a)'
        BY <2>2, <4>1 DEF PlanFits
      <4>3. Holds(a)'
        BY <3>1, <3>2, <4>1 DEF Local, Holds, InSession
      <4>4. MineFits(a)'
        <5>1. MineFits(a)
          BY DEF Local
        <5>2. QED
          BY <3>1, <4>1, <5>1, TablesAre DEF MineFits
      <4>5. QED
        BY <4>2, <4>3, <4>4 DEF Local
    <3>6. QED
      BY <3>3, <3>4, <3>5
  <2>6. QED
    BY <1>1, <2>4, <2>5
<1>2. CASE NeedNotAsk(a) \/ Ask(a)
  <2>1. TypeOK'
    BY <1>2 DEF NeedNotAsk, Ask, Places, InSession
  <2>2. UsersKnown'
    BY <1>2 DEF UsersKnown, NeedNotAsk, Ask
  <2>3. Accounts # <<>>
    BY BootstrapAssumption
  <2>4. Local(a)'
    <3>1. PlanFits(a)'
      BY <1>2, <2>3
         DEF Local, PlanFits, InSession, NeedNotAsk, Ask
    <3>2. Holds(a)'
      BY <1>2, <2>3
         DEF Local, Holds, InSession, NeedNotAsk, Ask
    <3>3. MineFits(a)'
      BY <1>2, <2>3
         DEF Local, MineFits, NeedNotAsk, Ask
    <3>4. QED
      BY <3>1, <3>2, <3>3 DEF Local
  <2>5. QED
    BY <2>1, <2>2, <2>4
<1>3. CASE IsEmpty(a)
  <2>1. Target(a) = "students"
    BY <1>3 DEF IsEmpty, Target
  <2>2. TypeOK'
    BY <1>3, <2>1, TablesAre DEF IsEmpty, Places, InSession
  <2>3. UsersKnown'
    BY <1>3 DEF UsersKnown, IsEmpty
  <2>4. Local(a)'
    BY <1>3, <2>1 DEF Local, PlanFits, Holds, MineFits, InSession, IsEmpty
  <2>5. QED
    BY <2>2, <2>3, <2>4
<1>4. QED
  BY <1>1, <1>2, <1>3

LEMMA DataPlaces ==
    ASSUME PlaceInv, NEW a \in Actors, UNCHANGED setting,
           SeedStudents(a) \/ SeedSessions(a) \/ SeedEvents(a) \/ Commit(a)
    PROVE  TypeOK' /\ UsersKnown' /\ Local(a)'
<1> USE DEF PlaceInv, TypeOK, Go, Touch, setting
<1>1. CASE SeedStudents(a) \/ SeedSessions(a) \/ SeedEvents(a)
  <2> DEFINE t == Target(a)
  <2>1. /\ t = pc[a] /\ t \in {"students", "sessions", "events"}
        /\ pc' = [pc EXCEPT ![a] = pc'[a]]
        /\ pc'[a] = CASE t = "students" -> "sessions" [] t = "sessions" -> "events"
                      [] OTHER -> "commit"
        /\ used' = [used EXCEPT ![a] = used[a] \cup {t}]
        /\ UNCHANGED <<plan, tables, rows, new, gone, error>>
    BY <1>1 DEF SeedStudents, SeedSessions, SeedEvents, Put, Target
  <2>2. Own(a) \in Row /\ [by |-> a, key |-> KeyOf(a)] = Own(a)
    <3>1. pc[a] \in Inserts /\ pc[a] # "add" /\ Local(a)
      BY <2>1 DEF Inserts
    <3>2. QED
      BY <3>1, PutRow
  <2>3. mine' = [mine EXCEPT ![a][t] = mine[a][t] \cup {Own(a)}]
    BY <1>1, <2>1, <2>2 DEF SeedStudents, SeedSessions, SeedEvents, Put
  <2> HIDE DEF t
  <2>4. TypeOK'
    <3>1. pc'[a] \in Places /\ t \in Tables
      BY <2>1, TablesAre DEF Places, InSession
    <3>2. pc' \in [Actors -> Places]
      BY <2>1, <3>1
    <3>3. used' \in [Actors -> SUBSET Tables]
      BY <2>1, <3>1
    <3>4. mine' \in [Actors -> [Tables -> SUBSET Row]]
      BY <2>2, <2>3, <3>1
    <3>5. QED
      BY <2>1, <3>2, <3>3, <3>4
  <2>5. UsersKnown'
    BY <2>1 DEF UsersKnown
  <2>6. PlanFits(a)' /\ Holds(a)'
    BY <2>1, <2>3 DEF Local, PlanFits, Holds, InSession
  <2>7. MineFits(a)'
    <3>1. /\ mine'[a][t] = mine[a][t] \cup {Own(a)}
          /\ \A u \in Tables \ {t} : mine'[a][u] = mine[a][u]
      BY <2>1, <2>3, TablesAre
    <3>2. Own(a)' = Own(a)
      BY DEF Own
    <3>3. QED
      <4>1. pc'[a] = "sessions" <=> t = "students"
        BY <2>1
      <4>2. pc'[a] = "events" <=> t = "sessions"
        BY <2>1
      <4>3. pc'[a] = "commit" <=> t = "events"
        BY <2>1
      <4>4. MineFits(a)
        BY DEF Local
      <4>5. CASE t = "students"
        BY <2>1, <3>1, <3>2, <4>1, <4>4, <4>5, TablesAre DEF MineFits
      <4>6. CASE t = "sessions"
        BY <2>1, <3>1, <3>2, <4>2, <4>4, <4>6, TablesAre DEF MineFits
      <4>7. CASE t = "events"
        <5>1. /\ mine[a]["students"] = {Own(a)} /\ mine[a]["sessions"] = {Own(a)}
              /\ mine[a]["events"] = {}
          BY <2>1, <4>4, <4>7 DEF MineFits
        <5>2. \A u \in Tables \ {"users"} : mine'[a][u] = {Own(a)}
          BY <3>1, <4>7, <5>1, TablesAre
        <5>3. mine'[a]["users"] = mine[a]["users"]
          BY <3>1, <4>7, TablesAre
        <5>4. QED
          BY <3>2, <4>3, <4>4, <4>7, <5>2, <5>3, TablesAre DEF MineFits
      <4>8. QED
        BY <2>1, <4>5, <4>6, <4>7
  <2>8. QED
    BY <2>4, <2>5, <2>6, <2>7 DEF Local
<1>2. CASE Commit(a)
  <2>1. /\ pc[a] = "commit" /\ pc' = [pc EXCEPT ![a] = "up"]
        /\ rows' = [t \in Tables |-> rows[t] \cup mine[a][t]] /\ Release(a)
        /\ UNCHANGED <<plan, tables, error>>
    BY <1>2 DEF Commit
  <2>2. TypeOK'
    <3>1. rows' \in [Tables -> SUBSET Row]
      BY <2>1
    <3>2. mine' \in [Actors -> [Tables -> SUBSET Row]]
      BY <2>1 DEF Release, NoRows
    <3>3. pc' \in [Actors -> Places]
      BY <2>1 DEF Places, Ended
    <3>4. QED
      BY <2>1, <3>1, <3>2, <3>3 DEF Release
  <2>3. UsersKnown'
    <3>1. rows'["users"] = rows["users"] \cup mine[a]["users"]
      BY <2>1, TablesAre
    <3>2. mine[a]["users"] \subseteq [by : {a}, key : Names]
      BY DEF Local, MineFits
    <3>3. [by : {a}, key : Names] \subseteq [by : Actors, key : Names]
      OBVIOUS
    <3>4. QED
      BY <3>1, <3>2, <3>3 DEF UsersKnown
  <2>4. Local(a)'
    <3>1. /\ mine'[a] = NoRows /\ used'[a] = {} /\ new'[a] = {} /\ gone'[a] = {}
          /\ pc'[a] = "up" /\ plan'[a] = plan[a]
      BY <2>1 DEF Release
    <3>2. plan[a] = <<>>
      BY <2>1 DEF Local, PlanFits
    <3>3. PlanFits(a)' /\ Holds(a)'
      BY <3>1, <3>2 DEF PlanFits, Holds, InSession
    <3>4. MineFits(a)'
      BY <3>1, TablesAre DEF MineFits, NoRows
    <3>5. QED
      BY <3>3, <3>4 DEF Local
  <2>5. QED
    BY <2>2, <2>3, <2>4
<1>3. QED
  BY <1>1, <1>2

LEMMA PlaceStep == PlaceInv /\ [Next]_vars => PlaceInv'
<1> SUFFICES ASSUME PlaceInv, [Next]_vars
             PROVE  PlaceInv'
  OBVIOUS
<1>1. ASSUME NEW a \in Actors, Step(a)
      PROVE  PlaceInv'
  <2>1. UNCHANGED setting /\ Others(a)
    BY <1>1, OthersStay DEF Step, Advance, PlaceInv
  <2>2. TypeOK' /\ UsersKnown' /\ Local(a)'
    <3>1. ErrorOf(a) \in Errors
      BY DEF ErrorOf, Errors
    <3>2. CASE Crash(a) \/ Fail(a) \/ LockTimeout(a) \/ Deadlock(a)
      BY <2>1, <3>1, <3>2, AbandonPlaces
         DEF Crash, Fail, LockTimeout, Deadlock, Errors
    <3>3. QED
      BY <1>1, <2>1, <3>2, SchemaPlaces, AccountPlaces, DataPlaces
         DEF Step, Advance
  <2>3. ASSUME NEW b \in Actors, b # a
        PROVE  Local(b)'
    <3>1. Local(b) /\ UNCHANGED <<reset, singleWriter>>
      BY <2>1 DEF PlaceInv, setting
    <3>2. /\ pc'[b] = pc[b] /\ plan'[b] = plan[b] /\ mine'[b] = mine[b]
          /\ used'[b] = used[b] /\ new'[b] = new[b] /\ gone'[b] = gone[b]
      BY <2>1, <2>3 DEF Others
    <3>3. QED
      BY <3>1, <3>2 DEF Local, PlanFits, Holds, MineFits, Own
  <2>4. QED
    BY <2>2, <2>3 DEF PlaceInv
<1>2. CASE Write /\ UNCHANGED setting
  <2>1. /\ rows' = [rows EXCEPT !["students"] =
                       rows["students"] \cup {[by |-> Client, key |-> Client]}]
        /\ UNCHANGED <<pc, plan, tables, own, error, setting>>
    BY <1>2 DEF Write
  <2>2. [by |-> Client, key |-> Client] \in Row
    BY DEF Row, Keys
  <2>3. TypeOK'
    BY <2>1, <2>2, TablesAre DEF PlaceInv, TypeOK, own, setting
  <2>4. UsersKnown'
    BY <2>1, TablesAre DEF PlaceInv, TypeOK, UsersKnown
  <2>5. ASSUME NEW a \in Actors
        PROVE  Local(a)'
    <3>1. Local(a)
      BY DEF PlaceInv
    <3>2. PlanFits(a)' /\ Holds(a)'
      BY <2>1, <3>1 DEF own, setting, Local, PlanFits, Holds
    <3>3. MineFits(a)'
      BY <2>1, <3>1 DEF own, Local, MineFits, Own
    <3>4. QED
      BY <3>2, <3>3 DEF Local
  <2>6. QED
    BY <2>3, <2>4, <2>5 DEF PlaceInv
<1>3. CASE UNCHANGED vars
  BY <1>3 DEF vars, own, setting, PlaceInv, TypeOK, UsersKnown, Local, PlanFits,
              Holds, MineFits, Own
<1>4. ASSUME Next
      PROVE  \/ \E a \in Actors : Step(a)
             \/ Write /\ UNCHANGED setting
             \/ UNCHANGED vars
  BY <1>4, NextIs
<1>5. QED
  BY <1>1, <1>2, <1>3, <1>4

THEOREM WhereActorsAre == Spec => []PlaceInv
<1>1. QED
  BY InitPlaces, PlaceStep, PTL DEF Spec
-----------------------------------------------------------------------------
\* The tables

LEMMA OrderFacts ==
    /\ Order \in Seq(Tables) /\ Distinct(Order) /\ Elems(Order) = Tables
    /\ Elems(<<>>) = {}
    /\ Tails(Order) = {Order, <<"students", "sessions", "events">>,
                       <<"sessions", "events">>, <<"events">>, <<>>}
<1>1. Order \in Seq(Tables) /\ Len(Order) = 4
  BY TablesAre DEF Order
<1>2. Distinct(Order)
  BY <1>1 DEF Distinct, Order
<1>3. Elems(Order) = Tables /\ Elems(<<>>) = {}
  BY <1>1 DEF Elems, Tables
<1>4. /\ Left(Order, 0) = Order
      /\ Left(Order, 1) = <<"students", "sessions", "events">>
      /\ Left(Order, 2) = <<"sessions", "events">>
      /\ Left(Order, 3) = <<"events">> /\ Left(Order, 4) = <<>>
  BY <1>1 DEF Left, Order
<1>5. 0 .. 4 = {0, 1, 2, 3, 4}
  OBVIOUS
<1>6. QED
  BY <1>1, <1>2, <1>3, <1>4, <1>5 DEF Tails

\* The plan of who creates the tables is what is left of their order.
LEMMA InOrderOfTail ==
    ASSUME NEW q \in Tails(Order)
    PROVE  InOrder(Elems(q)) = q
<1> DEFINE S == Elems(q)
<1>1. Elems(<<"events">>) = {"events"}
  BY DEF Elems
<1>2. Elems(<<"sessions", "events">>) = {"sessions", "events"}
  BY DEF Elems
<1>3. Elems(<<"students", "sessions", "events">>) = {"students", "sessions", "events"}
  BY DEF Elems
<1>4. Elems(Order) = {"users", "students", "sessions", "events"}
  BY OrderFacts, TablesAre
<1> HIDE DEF S
<1>5. CASE q = Order
  <2>1. InOrder(S) = <<"users">> \o <<"students">> \o <<"sessions">> \o <<"events">>
    BY <1>4, <1>5 DEF InOrder, Only, S
  <2>2. QED
    BY <1>5, <2>1 DEF S, Order
<1>6. CASE q = <<"students", "sessions", "events">>
  <2>1. InOrder(S) = <<>> \o <<"students">> \o <<"sessions">> \o <<"events">>
    BY <1>3, <1>6 DEF InOrder, Only, S
  <2>2. QED
    BY <1>6, <2>1 DEF S
<1>7. CASE q = <<"sessions", "events">>
  <2>1. InOrder(S) = <<>> \o <<>> \o <<"sessions">> \o <<"events">>
    BY <1>2, <1>7 DEF InOrder, Only, S
  <2>2. QED
    BY <1>7, <2>1 DEF S
<1>8. CASE q = <<"events">>
  <2>1. InOrder(S) = <<>> \o <<>> \o <<>> \o <<"events">>
    BY <1>1, <1>8 DEF InOrder, Only, S
  <2>2. QED
    BY <1>8, <2>1 DEF S
<1>9. CASE q = <<>>
  <2>1. InOrder(S) = <<>> \o <<>> \o <<>> \o <<>>
    BY OrderFacts, <1>9 DEF InOrder, Only, S
  <2>2. QED
    BY <1>9, <2>1 DEF S
<1>10. QED
  BY <1>5, <1>6, <1>7, <1>8, <1>9, OrderFacts DEF S

LEMMA ReversedOfAll ==
    Reversed({}) = <<>> /\ Elems(Reversed(Tables)) = Tables
<1>1. Reversed({}) = <<>>
  <2>1. Reversed({}) = <<>> \o <<>> \o <<>> \o <<>>
    BY DEF Reversed, Only
  <2>2. QED
    BY <2>1
<1>2. Elems(Reversed(Tables)) = Tables
  <2> DEFINE q == Reversed(Tables)
  <2>1. q = <<"events">> \o <<"sessions">> \o <<"students">> \o <<"users">>
    BY TablesAre DEF Reversed, Only
  <2> HIDE DEF q
  <2>2. /\ Len(q) = 4
        /\ q[1] = "events" /\ q[2] = "sessions" /\ q[3] = "students"
        /\ q[4] = "users"
    BY <2>1
  <2>3. Elems(q) = Tables
    BY <2>2, TablesAre DEF Elems
  <2>4. QED
    BY <2>3 DEF q
<1>3. QED
  BY <1>1, <1>2

LEMMA InitTables == Init => TableInv
<1> SUFFICES ASSUME Init
             PROVE  TableInv
  OBVIOUS
<1>1. /\ \A a \in Actors : pc[a] = "off" /\ used[a] = {} /\ gone[a] = {}
      /\ made = {}
  BY DEF Init
<1>2. Order \in Tails(Order) /\ made = Tables \ Elems(Order)
  BY <1>1, OrderFacts, WholeAndNothing
<1>3. ServerTables /\ Apart
  BY <1>1 DEF ServerTables, Apart, DropFits, CreateFits
<1>4. FileTables /\ MadeAll
  BY <1>1, <1>2 DEF FileTables, MadeAll, InSession
<1>5. QED
  BY <1>3, <1>4 DEF TableInv

\* Who takes a table into use waits for who is dropping it, and who drops one
\* for who has used or is dropping it.
LEMMA RunsApart ==
    ASSUME NEW a \in Actors, NEW b \in Actors, a # b, ~singleWriter, Runs(a)
    PROVE  /\ pc[a] \in Statements => Target(a) \notin gone[b]
           /\ pc[a] = "drop" /\ plan[a] # <<>> =>
                 Target(a) \notin used[b] \cup gone[b]
BY DEF Runs, Blocked, WaitsFor

\* A step that leaves the tables alone and does not go on creating or dropping.
LEMMA TablesLeftAlone ==
    ASSUME PlaceInv, TableInv, NEW a \in Actors, Others(a),
           UNCHANGED <<setting, tables>>,
           pc'[a] \notin {"drop", "create", "index"},
           gone'[a] \subseteq gone[a],
           ~singleWriter => \A b \in Actors \ {a} :
                               used'[a] \cap gone[b] \subseteq used[a],
           pc'[a] \in InSession \cup {"up"} => pc[a] \in InSession \cup {"up"}
    PROVE  TableInv'
<1> USE DEF Others, setting
<1>1. ServerTables'
  <2>1. ASSUME NEW b \in Actors, ~singleWriter
        PROVE  DropFits(b)' /\ CreateFits(b)'
    <3>1. CASE b = a
      BY <3>1 DEF DropFits, CreateFits
    <3>2. CASE b # a
      <4>1. DropFits(b) /\ CreateFits(b)
        BY <2>1 DEF TableInv, ServerTables
      <4>2. /\ pc'[b] = pc[b] /\ plan'[b] = plan[b]
            /\ new'[b] = new[b] /\ gone'[b] = gone[b]
        BY <3>2
      <4>3. QED
        BY <4>1, <4>2 DEF DropFits, CreateFits
    <3>3. QED
      BY <3>1, <3>2
  <2>2. QED
    BY <2>1 DEF TableInv, ServerTables
<1>2. Apart'
  <2> SUFFICES ASSUME ~singleWriter, NEW b \in Actors, NEW c \in Actors, b # c
               PROVE  (used'[b] \cup gone'[b]) \cap gone'[c] = {}
    BY DEF Apart
  <2>1. \A d, e \in Actors : d # e => (used[d] \cup gone[d]) \cap gone[e] = {}
    BY DEF TableInv, Apart
  <2>2. CASE b = a
    BY <2>1, <2>2
  <2>3. CASE b # a
    BY <2>1, <2>3
  <2>4. QED
    BY <2>2, <2>3
<1>3. FileTables'
  BY DEF TableInv, FileTables, Ahead, NoReset
<1>4. MadeAll'
  BY DEF TableInv, MadeAll, NoReset
<1>5. QED
  BY <1>1, <1>2, <1>3, <1>4 DEF TableInv

LEMMA TablesOfSchema ==
    ASSUME PlaceInv, PlaceInv', TableInv, NEW a \in Actors, Step(a),
           LookDrop(a) \/ Look(a) \/ Drop(a)
    PROVE  TableInv'
<1>1. Others(a) /\ UNCHANGED setting /\ TypeOK /\ Local(a)
  BY OthersStay DEF PlaceInv, Step, Advance
<1>2. CASE LookDrop(a)
  <2>1. /\ pc[a] = "look_drop" /\ pc'[a] = "drop" /\ plan'[a] = Reversed(made)
        /\ UNCHANGED <<tables, new, gone, used>>
    BY <1>1, <1>2 DEF LookDrop, TypeOK, Go, Plan, own
  <2>2. gone[a] = {} /\ new[a] = {} /\ a \in reset
    BY <1>1, <2>1 DEF Local, Holds
  <2>3. DropFits(a)' \/ singleWriter
    <3>1. Reversed({}) = <<>> /\ Elems(Reversed(Tables)) = Tables
      BY ReversedOfAll
    <3>2. QED
      BY <2>1, <2>2, <3>1 DEF TableInv, ServerTables, DropFits
  <2>4. ServerTables'
    <3>1. ASSUME NEW b \in Actors, b # a, ~singleWriter
          PROVE  DropFits(b)' /\ CreateFits(b)'
      BY <1>1, <2>1, <3>1 DEF TableInv, ServerTables, Others, DropFits, CreateFits
    <3>2. CreateFits(a)'
      BY <2>1 DEF CreateFits
    <3>3. QED
      BY <1>1, <2>1, <2>3, <3>1, <3>2 DEF TableInv, ServerTables, setting
  <2>5. Apart' /\ FileTables' /\ MadeAll'
    BY <1>1, <2>1, <2>2
       DEF TableInv, Apart, FileTables, Ahead, MadeAll, NoReset, setting, Others,
           InSession
  <2>6. QED
    BY <2>4, <2>5 DEF TableInv
<1>3. CASE Look(a)
  <2> DEFINE q == plan'[a]
  <2>1. /\ pc[a] = "look" \/ (pc[a] = "drop" /\ plan[a] = <<>>)
        /\ pc'[a] = "create" /\ q = InOrder(Tables \ (made \ gone[a]))
        /\ UNCHANGED <<tables, new, gone, used>>
    BY <1>1, <1>3 DEF Look, TypeOK, Go, Plan, own
  <2>2. new[a] = {} /\ (pc[a] = "look" => gone[a] = {})
    BY <1>1, <2>1 DEF Local, Holds
  <2>3. /\ InOrder({}) = <<>> /\ InOrder(Tables) = Order
        /\ Order \in Tails(Order) /\ <<>> \in Tails(Order)
    BY OrderFacts, InOrderOfTail, WholeAndNothing
  <2> HIDE DEF q
  <2>4. CreateFits(a)' \/ singleWriter
    <3> SUFFICES ASSUME ~singleWriter
                 PROVE  CreateFits(a)'
      OBVIOUS
    <3>1. made \in {{}, Tables} /\ gone[a] \in {{}, Tables}
      BY <2>1, <2>2, OrderFacts DEF TableInv, ServerTables, DropFits
    <3>2. CASE made = Tables /\ gone[a] = {}
      <4>1. Tables \ (made \ gone[a]) = {}
        BY <3>2
      <4>2. QED
        BY <2>1, <2>2, <2>3, <3>2, <4>1 DEF CreateFits, q
    <3>3. CASE made = {} \/ gone[a] = Tables
      <4>1. Tables \ (made \ gone[a]) = Tables
        BY <3>1, <3>3
      <4>2. q = Order /\ Tables \ Elems(q) = {}
        BY <2>1, <2>3, <4>1, OrderFacts
      <4>3. QED
        BY <2>1, <2>2, <2>3, <3>1, <4>2 DEF CreateFits, q
    <3>4. QED
      BY <3>1, <3>2, <3>3
  <2>5. ServerTables'
    <3>1. ASSUME NEW b \in Actors, b # a, ~singleWriter
          PROVE  DropFits(b)' /\ CreateFits(b)'
      BY <1>1, <2>1, <3>1 DEF TableInv, ServerTables, Others, DropFits, CreateFits
    <3>2. DropFits(a)'
      BY <2>1 DEF DropFits
    <3>3. QED
      BY <1>1, <2>1, <2>4, <3>1, <3>2 DEF TableInv, ServerTables, setting
  <2>6. FileTables'
    <3> SUFFICES ASSUME singleWriter, NoReset
                 PROVE  FileTables'
      BY <1>1 DEF FileTables, NoReset, setting
    <3>1. PICK p \in Tails(Order) : made = Tables \ Elems(p)
      BY DEF TableInv, FileTables
    <3>2. gone[a] = {}
      BY <1>1 DEF Local, Holds
    <3>3. Elems(p) \subseteq Tables
      BY OrderFacts, TailFacts
    <3>4. Tables \ (made \ gone[a]) = Elems(p)
      BY <3>1, <3>2, <3>3
    <3>5. q = p
      BY <2>1, <3>4, InOrderOfTail
    <3>6. q \in Tails(Order) /\ Tables \ made \subseteq Elems(q)
      BY <3>1, <3>3, <3>5
    <3>7. QED
      BY <1>1, <2>1, <3>1, <3>6 DEF TableInv, FileTables, Ahead, Others, q
  <2>7. Apart' /\ MadeAll'
    BY <1>1, <2>1, <2>2
       DEF TableInv, Apart, MadeAll, NoReset, setting, Others, InSession
  <2>8. QED
    BY <2>5, <2>6, <2>7 DEF TableInv
<1>4. CASE Drop(a)
  <2>1. /\ pc[a] = "drop" /\ pc'[a] = "drop" /\ plan[a] # <<>> /\ Runs(a)
        /\ Target(a) = Head(plan[a]) /\ plan'[a] = Tail(plan[a])
        /\ UNCHANGED <<new, used>>
        /\ ~singleWriter => /\ gone'[a] = gone[a] \cup {Target(a)}
                            /\ UNCHANGED made
    BY <1>1, <1>4 DEF Drop, TypeOK, Plan, Target
  <2>2. a \in reset /\ plan[a] \in Seq(Tables)
    BY <1>1, <2>1 DEF Local, Holds, PlanFits
  <2>3. Elems(plan[a]) = Elems(plan'[a]) \cup {Target(a)}
    BY <2>1, <2>2, HeadOfPlan
  <2>4. ServerTables'
    <3> SUFFICES ASSUME ~singleWriter
                 PROVE  ServerTables'
      BY <1>1 DEF ServerTables, setting
    <3>1. ASSUME NEW b \in Actors, b # a
          PROVE  DropFits(b)' /\ CreateFits(b)'
      BY <1>1, <2>1, <3>1 DEF TableInv, ServerTables, Others, DropFits, CreateFits
    <3>2. DropFits(a)' /\ CreateFits(a)'
      BY <2>1, <2>3 DEF TableInv, ServerTables, DropFits, CreateFits
    <3>3. QED
      BY <1>1, <2>1, <3>1, <3>2 DEF TableInv, ServerTables, setting
  <2>5. Apart'
    <3> SUFFICES ASSUME ~singleWriter, NEW b \in Actors, NEW c \in Actors, b # c
                 PROVE  (used'[b] \cup gone'[b]) \cap gone'[c] = {}
      BY <1>1 DEF Apart, setting
    <3>1. \A d, e \in Actors : d # e => (used[d] \cup gone[d]) \cap gone[e] = {}
      BY DEF TableInv, Apart
    <3>2. \A d \in Actors \ {a} : Target(a) \notin used[d] \cup gone[d]
      BY <2>1, RunsApart
    <3>3. \A d \in Actors \ {a} : gone'[d] = gone[d]
      BY <1>1 DEF Others
    <3>4. used' = used /\ gone'[a] = gone[a] \cup {Target(a)}
      BY <2>1
    <3>5. CASE b = a
      BY <3>1, <3>2, <3>3, <3>4, <3>5
    <3>6. CASE c = a
      BY <3>1, <3>2, <3>3, <3>4, <3>6
    <3>7. CASE b # a /\ c # a
      BY <3>1, <3>3, <3>4, <3>7
    <3>8. QED
      BY <3>5, <3>6, <3>7
  <2>6. FileTables'
    BY <1>1, <2>2 DEF FileTables, NoReset, setting
  <2>7. MadeAll'
    BY <1>1, <2>1, <2>2
       DEF TableInv, MadeAll, NoReset, setting, Others, InSession
  <2>8. QED
    BY <2>4, <2>5, <2>6, <2>7 DEF TableInv
<1>5. QED
  BY <1>2, <1>3, <1>4

\* Two that are left of one order, neither ahead of the other, are the same.
LEMMA SameTail ==
    ASSUME NEW p \in Tails(Order), NEW q \in Tails(Order), p # <<>>,
           Elems(q) \subseteq Elems(p), Head(p) \in Elems(q)
    PROVE  p = q
<1>1. Elems(<<"events">>) = {"events"}
  BY DEF Elems
<1>2. Elems(<<"sessions", "events">>) = {"sessions", "events"}
  BY DEF Elems
<1>3. Elems(<<"students", "sessions", "events">>) = {"students", "sessions", "events"}
  BY DEF Elems
<1>4. Elems(Order) = {"users", "students", "sessions", "events"} /\ Elems(<<>>) = {}
  BY OrderFacts, TablesAre
<1>5. /\ Head(<<"events">>) = "events"
      /\ Head(<<"sessions", "events">>) = "sessions"
      /\ Head(<<"students", "sessions", "events">>) = "students"
      /\ Head(Order) = "users"
  BY DEF Order
<1>6. CASE p = Order
  BY <1>1, <1>2, <1>3, <1>4, <1>5, <1>6, OrderFacts
<1>7. CASE p = <<"students", "sessions", "events">>
  BY <1>1, <1>2, <1>3, <1>4, <1>5, <1>7, OrderFacts
<1>8. CASE p = <<"sessions", "events">>
  BY <1>1, <1>2, <1>3, <1>4, <1>5, <1>8, OrderFacts
<1>9. CASE p = <<"events">>
  BY <1>1, <1>2, <1>3, <1>4, <1>5, <1>9, OrderFacts
<1>10. QED
  BY <1>6, <1>7, <1>8, <1>9, OrderFacts

LEMMA TailOfTables ==
    ASSUME NEW q \in Tails(Order), q # <<>>
    PROVE  /\ Tail(q) \in Tails(Order) /\ Elems(q) \subseteq Tables
           /\ Head(q) \in Tables /\ Head(q) \notin Elems(Tail(q))
           /\ Elems(q) = Elems(Tail(q)) \cup {Head(q)}
BY OrderFacts, TailFacts

\* In a file, only who is the furthest can create the next table.
LEMMA FileIsFilled ==
    ASSUME PlaceInv, TableInv, NEW a \in Actors, Create(a), singleWriter, NoReset
    PROVE  /\ pc'[a] = "index" /\ plan' = plan /\ plan[a] \in Tails(Order)
           /\ made' = Tables \ Elems(Ahead(a)') /\ Ahead(a)' = Tail(plan[a])
           /\ Head(plan[a]) \notin made
<1> DEFINE p == plan[a]
<1>1. TypeOK /\ Local(a)
  BY DEF PlaceInv
<1>2. /\ pc[a] = "create" /\ p # <<>> /\ ErrorOf(a) = "none" /\ Target(a) = Head(p)
      /\ pc'[a] = "index" /\ plan' = plan /\ made' = made \cup {Head(p)}
      /\ Ahead(a)' = Tail(p)
  BY <1>1 DEF Create, TypeOK, Go, Target, Runs, Ahead
<1>3. PICK q \in Tails(Order) : made = Tables \ Elems(q)
  BY DEF TableInv, FileTables
<1>4. p \in Tails(Order) /\ Tables \ made \subseteq Elems(p)
  BY <1>2 DEF TableInv, FileTables, Ahead
<1>5. Head(p) \notin made
  <2>1. gone[a] = {}
    BY <1>1 DEF Local, Holds
  <2>2. ErrorOf(a) # "exists"
    BY <1>2
  <2>3. QED
    BY <1>2, <2>1, <2>2 DEF ErrorOf
<1> HIDE DEF p
<1>6. /\ Elems(p) \subseteq Tables /\ Head(p) \in Tables
      /\ Head(p) \notin Elems(Tail(p)) /\ Elems(p) = Elems(Tail(p)) \cup {Head(p)}
  BY <1>2, <1>4, TailOfTables
<1>7. Elems(q) \subseteq Tables
  BY OrderFacts, TailFacts
<1>8. Elems(q) \subseteq Elems(p) /\ Head(p) \in Elems(q)
  BY <1>3, <1>4, <1>5, <1>6, <1>7
<1>9. q = p
  BY <1>2, <1>4, <1>8, SameTail
<1>10. made' = Tables \ Elems(Tail(p))
  BY <1>2, <1>3, <1>6, <1>9
<1>11. QED
  BY <1>2, <1>4, <1>5, <1>10 DEF p

LEMMA TableIsCreated ==
    ASSUME PlaceInv, TableInv, NEW a \in Actors, Create(a), UNCHANGED setting,
           Others(a)
    PROVE  TableInv'
<1> DEFINE t == Head(plan[a])
<1>1. TypeOK /\ Local(a)
  BY DEF PlaceInv
<1>2. /\ pc[a] = "create" /\ pc'[a] \in {"create", "index"} /\ plan[a] # <<>>
      /\ Runs(a) /\ Target(a) = t /\ UNCHANGED <<gone, used>>
      /\ ~singleWriter => /\ plan'[a] = Tail(plan[a]) /\ pc' = pc
                          /\ new'[a] = new[a] \cup {t} /\ UNCHANGED made
      /\ singleWriter => made' = made \cup {t}
  BY <1>1 DEF Create, TypeOK, Go, Plan, Target
<1> HIDE DEF t
<1>3. plan[a] \in Tails(Order) =>
         /\ Tail(plan[a]) \in Tails(Order) /\ t \in Tables
         /\ t \notin Elems(Tail(plan[a]))
         /\ Elems(plan[a]) = Elems(Tail(plan[a])) \cup {t}
  BY <1>2, TailOfTables DEF t
<1>4. ServerTables'
  <2> SUFFICES ASSUME ~singleWriter
               PROVE  ServerTables'
    BY DEF ServerTables, setting
  <2>1. ASSUME NEW b \in Actors, b # a
        PROVE  DropFits(b)' /\ CreateFits(b)'
    BY <1>2, <2>1 DEF TableInv, ServerTables, Others, DropFits, CreateFits
  <2>2. DropFits(a)' /\ CreateFits(a)'
    <3>1. /\ gone[a] \in {{}, Tables} /\ plan[a] \in Tails(Order)
          /\ new[a] = Tables \ Elems(plan[a])
      BY <1>2 DEF TableInv, ServerTables, CreateFits
    <3>2. new'[a] = Tables \ Elems(plan'[a])
      BY <1>2, <1>3, <3>1
    <3>3. QED
      BY <1>2, <1>3, <3>1, <3>2 DEF DropFits, CreateFits
  <2>3. QED
    BY <1>2, <2>1, <2>2 DEF TableInv, ServerTables, setting
<1>5. FileTables'
  <2> SUFFICES ASSUME singleWriter, NoReset
               PROVE  FileTables'
    BY DEF FileTables, NoReset, setting
  <2>1. /\ plan[a] \in Tails(Order) /\ Ahead(a)' = Tail(plan[a])
        /\ made' = Tables \ Elems(Ahead(a)')
    BY FileIsFilled
  <2>2. Ahead(a)' \in Tails(Order) /\ Tables \ made' \subseteq Elems(Ahead(a)')
    BY <1>3, <2>1
  <2>3. ASSUME NEW b \in Actors, b # a, pc'[b] \in {"create", "index"}
        PROVE  Ahead(b)' \in Tails(Order) /\ Tables \ made' \subseteq Elems(Ahead(b)')
    <3>1. pc'[b] = pc[b] /\ Ahead(b)' = Ahead(b)
      BY <2>3 DEF Others, Ahead
    <3>2. QED
      BY <1>2, <2>3, <3>1 DEF TableInv, FileTables
  <2>4. QED
    BY <2>1, <2>2, <2>3 DEF FileTables
<1>6. Apart'
  BY <1>2 DEF TableInv, Apart, setting
<1>7. MadeAll'
  <2>1. ASSUME NoReset \/ ~singleWriter, NEW b \in Actors,
               pc[b] \in InSession \cup {"up"}
        PROVE  made' = Tables
    <3>1. made = Tables
      BY <2>1 DEF TableInv, MadeAll
    <3>2. CASE ~singleWriter
      BY <1>2, <3>1, <3>2
    <3>3. CASE singleWriter /\ NoReset
      BY <1>2, <1>3, <3>1, <3>3, FileIsFilled DEF TableInv, FileTables
    <3>4. QED
      BY <2>1, <3>2, <3>3
  <2>2. \A b \in Actors : pc'[b] \in InSession \cup {"up"} => pc'[b] = pc[b]
    BY <1>2 DEF Others, InSession
  <2>3. QED
    BY <2>1, <2>2 DEF MadeAll, NoReset, setting
<1>8. QED
  BY <1>4, <1>5, <1>6, <1>7 DEF TableInv

LEMMA TableIsIndexed ==
    ASSUME PlaceInv, TableInv, NEW a \in Actors, Index(a), UNCHANGED setting,
           Others(a)
    PROVE  TableInv'
<1>1. TypeOK /\ Local(a)
  BY DEF PlaceInv
<1>2. /\ pc[a] = "index" /\ pc'[a] = "create" /\ plan'[a] = Tail(plan[a])
      /\ singleWriter /\ UNCHANGED <<made, gone, used>> /\ Ahead(a)' = Ahead(a)
  BY <1>1 DEF Index, TypeOK, Go, Plan, own, Ahead, Local, Holds
<1>3. FileTables'
  <2> SUFFICES ASSUME singleWriter, NoReset
               PROVE  FileTables'
    BY DEF FileTables, NoReset, setting
  <2>1. ASSUME NEW b \in Actors, pc'[b] \in {"create", "index"}
        PROVE  Ahead(b)' = Ahead(b) /\ pc[b] \in {"create", "index"}
    BY <1>2, <2>1 DEF Others, Ahead
  <2>2. QED
    BY <1>2, <2>1 DEF TableInv, FileTables
<1>4. ServerTables' /\ Apart'
  BY <1>2 DEF ServerTables, Apart, setting
<1>5. MadeAll'
  BY <1>2 DEF TableInv, MadeAll, NoReset, setting, Others, InSession
<1>6. QED
  BY <1>3, <1>4, <1>5 DEF TableInv

\* When who has seen to the tables commits, they are all there.
LEMMA TablesAreDone ==
    ASSUME PlaceInv, TableInv, NEW a \in Actors, SchemaDone(a),
           NoReset \/ ~singleWriter
    PROVE  made' = Tables /\ (~singleWriter => gone[a] \in {{}, Tables})
                          /\ (singleWriter => gone[a] = {})
<1>1. /\ pc[a] = "create" /\ plan[a] = <<>>
      /\ made' = (made \ gone[a]) \cup new[a]
  BY DEF SchemaDone
<1>2. made \subseteq Tables /\ Local(a)
  BY DEF PlaceInv, TypeOK
<1>3. CASE ~singleWriter
  <2>1. CreateFits(a)
    BY <1>3 DEF TableInv, ServerTables
  <2>2. QED
    BY <1>1, <1>2, <1>3, <2>1, OrderFacts DEF CreateFits
<1>4. CASE singleWriter
  <2>1. gone[a] = {} /\ new[a] = {}
    BY <1>2, <1>4 DEF Local, Holds
  <2>2. Tables \ made \subseteq {}
    BY <1>1, <1>4, OrderFacts DEF TableInv, FileTables, Ahead
  <2>3. QED
    BY <1>1, <1>2, <1>4, <2>1, <2>2
<1>5. QED
  BY <1>3, <1>4

LEMMA TablesAreKept ==
    ASSUME PlaceInv, TableInv, NEW a \in Actors, SchemaDone(a), UNCHANGED setting,
           Others(a)
    PROVE  TableInv'
<1>1. /\ pc'[a] = "account" /\ used'[a] = {} /\ gone'[a] = {} /\ new'[a] = {}
  BY DEF SchemaDone, Go, Release, PlaceInv, TypeOK
<1>2. ServerTables'
  <2> SUFFICES ASSUME ~singleWriter
               PROVE  ServerTables'
    BY DEF ServerTables, setting
  <2>1. made' = Tables
    BY TablesAreDone
  <2>2. ASSUME NEW b \in Actors, b # a
        PROVE  DropFits(b)' /\ CreateFits(b)'
    BY <2>1, <2>2 DEF TableInv, ServerTables, Others, DropFits, CreateFits
  <2>3. DropFits(a)' /\ CreateFits(a)'
    BY <1>1 DEF DropFits, CreateFits
  <2>4. QED
    BY <2>1, <2>2, <2>3 DEF ServerTables
<1>3. Apart'
  <2> SUFFICES ASSUME ~singleWriter, NEW b \in Actors, NEW c \in Actors, b # c
               PROVE  (used'[b] \cup gone'[b]) \cap gone'[c] = {}
    BY DEF Apart, setting
  <2>1. (used[b] \cup gone[b]) \cap gone[c] = {}
    BY DEF TableInv, Apart
  <2>2. \A d \in Actors \ {a} : used'[d] = used[d] /\ gone'[d] = gone[d]
    BY DEF Others
  <2>3. QED
    BY <1>1, <2>1, <2>2
<1>4. FileTables'
  <2> SUFFICES ASSUME singleWriter, NoReset
               PROVE  FileTables'
    BY DEF FileTables, NoReset, setting
  <2>1. made' = Tables
    BY TablesAreDone
  <2>2. <<>> \in Tails(Order) /\ made' = Tables \ Elems(<<>>)
    BY <2>1, OrderFacts
  <2>3. \A b \in Actors : pc'[b] \in {"create", "index"} =>
           Ahead(b)' \in Tails(Order) /\ Tables \ made' \subseteq Elems(Ahead(b)')
    BY <1>1, <2>1 DEF TableInv, FileTables, Ahead, Others
  <2>4. QED
    BY <2>2, <2>3 DEF FileTables
<1>5. MadeAll'
  BY TablesAreDone DEF MadeAll, NoReset, setting
<1>6. QED
  BY <1>2, <1>3, <1>4, <1>5 DEF TableInv

\* The steps of a session, and of who ends.
SessionStep(a) ==
    \/ SkipAccount(a) \/ MissAccount(a) \/ AddAccount(a) \/ IsEmpty(a)
    \/ SeedStudents(a) \/ SeedSessions(a) \/ SeedEvents(a)
EndStep(a) == Crash(a) \/ Fail(a) \/ LockTimeout(a) \/ Deadlock(a)

LEMMA SessionUses ==
    ASSUME TypeOK, NEW a \in Actors, SessionStep(a)
    PROVE  /\ pc[a] \in Statements /\ Runs(a) /\ pc'[a] \in InSession
           /\ pc[a] \in InSession
           /\ used' = [used EXCEPT ![a] = used[a] \cup {Target(a)}]
           /\ UNCHANGED <<tables, rows, new, gone, error>>
<1> USE DEF TypeOK, Go, Touch, InSession, Statements, Inserts, Put
<1>1. CASE SkipAccount(a) \/ MissAccount(a)
  BY <1>1 DEF SkipAccount, MissAccount
<1>2. CASE AddAccount(a) \/ IsEmpty(a)
  BY <1>2 DEF AddAccount, IsEmpty
<1>3. CASE SeedStudents(a) \/ SeedSessions(a) \/ SeedEvents(a)
  BY <1>3 DEF SeedStudents, SeedSessions, SeedEvents
<1>4. QED
  BY <1>1, <1>2, <1>3 DEF SessionStep

LEMMA EndsEmptyHanded ==
    ASSUME TypeOK, NEW a \in Actors, EndStep(a)
    PROVE  /\ pc'[a] \in {"failed", "dead"} /\ pc' = [pc EXCEPT ![a] = pc'[a]]
           /\ used'[a] = {} /\ new'[a] = {} /\ gone'[a] = {} /\ mine'[a] = NoRows
           /\ plan'[a] = <<>> /\ UNCHANGED <<tables, rows>>
BY DEF EndStep, Crash, Fail, LockTimeout, Deadlock, Abandon, Go, Plan, Release,
       TypeOK

LEMMA TableStep == PlaceInv /\ PlaceInv' /\ TableInv /\ [Next]_vars => TableInv'
<1> SUFFICES ASSUME PlaceInv, PlaceInv', TableInv, [Next]_vars
             PROVE  TableInv'
  OBVIOUS
<1>1. ASSUME NEW a \in Actors, Step(a)
      PROVE  TableInv'
  <2>1. UNCHANGED setting /\ Others(a) /\ TypeOK
    BY <1>1, OthersStay DEF Step, Advance, PlaceInv
  <2>2. CASE LookDrop(a) \/ Look(a) \/ Drop(a)
    BY <1>1, <2>2, TablesOfSchema
  <2>3. CASE Create(a) \/ Index(a)
    BY <2>1, <2>3, TableIsCreated, TableIsIndexed
  <2>4. CASE SchemaDone(a)
    BY <2>1, <2>4, TablesAreKept
  <2>5. CASE Start(a) \/ Refuse(a)
    <3>1. /\ pc'[a] \notin {"drop", "create", "index"} \cup InSession \cup {"up"}
          /\ UNCHANGED <<tables, used, gone>>
      BY <2>1, <2>5 DEF Start, Refuse, Go, TypeOK, own, InSession
    <3>2. QED
      BY <2>1, <3>1, TablesLeftAlone
  <2>6. CASE EndStep(a)
    <3>1. /\ pc'[a] \notin {"drop", "create", "index"} \cup InSession \cup {"up"}
          /\ used'[a] = {} /\ gone'[a] = {} /\ UNCHANGED tables
      BY <2>1, <2>6, EndsEmptyHanded DEF InSession
    <3>2. QED
      BY <2>1, <3>1, TablesLeftAlone
  <2>7. CASE SessionStep(a)
    <3>1. /\ pc[a] \in Statements /\ Runs(a) /\ pc'[a] \in InSession
          /\ pc[a] \in InSession /\ used'[a] = used[a] \cup {Target(a)}
          /\ UNCHANGED <<tables, gone>>
      BY <2>1, <2>7, SessionUses DEF TypeOK
    <3>2. pc'[a] \notin {"drop", "create", "index"}
      BY <3>1 DEF InSession
    <3>3. ASSUME ~singleWriter, NEW b \in Actors \ {a}
          PROVE  used'[a] \cap gone[b] \subseteq used[a]
      BY <3>1, <3>3, RunsApart
    <3>4. QED
      BY <2>1, <3>1, <3>2, <3>3, TablesLeftAlone
  <2>8. CASE NeedNotAsk(a) \/ Ask(a) \/ Commit(a)
    <3>1. /\ pc'[a] \notin {"drop", "create", "index"} /\ pc[a] \in InSession
          /\ used'[a] \subseteq used[a] /\ gone'[a] \subseteq gone[a]
          /\ UNCHANGED tables
      BY <2>1, <2>8
         DEF NeedNotAsk, Ask, Commit, Release, Go, TypeOK, own, InSession
    <3>2. QED
      BY <2>1, <3>1, TablesLeftAlone
  <2>9. QED
    BY <1>1, <2>2, <2>3, <2>4, <2>5, <2>6, <2>7, <2>8
       DEF Step, Advance, SessionStep, EndStep
<1>2. CASE UNCHANGED <<setting, pc, plan, tables, used, new, gone>>
  BY <1>2 DEF setting, TableInv, ServerTables, DropFits, CreateFits, Apart,
              FileTables, Ahead, MadeAll, NoReset
<1>3. QED
  BY <1>1, <1>2, NextIs DEF Write, vars, own

THEOREM TablesStand == Spec => []TableInv
<1>1. QED
  BY WhereActorsAre, InitTables, TableStep, PTL DEF Spec
-----------------------------------------------------------------------------
\* The rows

\* Unless a --reset drops them, there are only ever more tables.
LEMMA MadeGrows ==
    ASSUME PlaceInv, TableInv, Steady, NEW a \in Actors, Step(a)
    PROVE  made \subseteq made'
<1>1. TypeOK /\ Local(a)
  BY DEF PlaceInv
<1>2. CASE EndStep(a)
  BY <1>1, <1>2, EndsEmptyHanded
<1>3. CASE SessionStep(a)
  BY <1>1, <1>3, SessionUses
<1>4. CASE \/ Start(a) \/ Refuse(a) \/ LookDrop(a) \/ Look(a) \/ Create(a)
           \/ Index(a) \/ NeedNotAsk(a) \/ Ask(a) \/ Commit(a)
  BY <1>4 DEF Start, Refuse, LookDrop, Look, Create, Index, NeedNotAsk, Ask, Commit
<1>5. CASE Drop(a)
  <2>1. a \in reset
    BY <1>1, <1>5 DEF Drop, Local, Holds
  <2>2. QED
    BY <1>5, <2>1 DEF Drop, Steady, NoReset
<1>6. CASE SchemaDone(a)
  BY <1>1, <1>6, TablesAreDone DEF Steady, TypeOK
<1>7. QED
  BY <1>2, <1>3, <1>4, <1>5, <1>6 DEF Step, Advance, SessionStep, EndStep

\* What a commit adds.
LEMMA CommitAdds ==
    ASSUME PlaceInv, NEW a \in Actors, Commit(a)
    PROVE  /\ pc[a] = "commit" /\ plan[a] = <<>> /\ UNCHANGED made
           /\ \A t \in Tables : rows'[t] = rows[t] \cup mine[a][t]
           /\ mine[a]["events"] \in {{}, {Own(a)}}
           /\ mine[a]["students"] = mine[a]["events"]
           /\ mine[a]["sessions"] = mine[a]["events"]
           /\ mine[a]["users"] \subseteq [by : {a}, key : Names]
<1>1. Local(a)
  BY DEF PlaceInv
<1>2. pc[a] = "commit"
  BY DEF Commit
<1>3. plan[a] = <<>>
  BY <1>1, <1>2 DEF Local, PlanFits
<1>4. QED
  BY <1>1, <1>2, <1>3 DEF Commit, Local, MineFits

\* What an actor's step may do to the committed rows.
LEMMA RowsChange ==
    ASSUME PlaceInv, TableInv, NEW a \in Actors, Step(a)
    PROVE  \/ UNCHANGED rows
           \/ Commit(a)
           \/ /\ SchemaDone(a) /\ ~singleWriter /\ gone[a] = Tables
              /\ rows' = NoRows
           \/ /\ Drop(a) /\ ~Steady
              /\ rows' = [t \in Tables |->
                             IF t \in Cascade(Target(a)) THEN {} ELSE rows[t]]
<1>1. TypeOK /\ Local(a)
  BY DEF PlaceInv
<1>2. rows \in [Tables -> SUBSET Row]
  BY <1>1 DEF TypeOK
<1>3. CASE EndStep(a)
  BY <1>1, <1>3, EndsEmptyHanded
<1>4. CASE SessionStep(a)
  BY <1>1, <1>4, SessionUses
<1>5. CASE Start(a) \/ Refuse(a) \/ LookDrop(a) \/ Look(a) \/ Create(a)
           \/ Index(a) \/ NeedNotAsk(a) \/ Ask(a)
  BY <1>5 DEF Start, Refuse, LookDrop, Look, Create, Index, NeedNotAsk, Ask
<1>6. CASE Drop(a)
  <2>1. a \in reset
    BY <1>1, <1>6 DEF Drop, Local, Holds
  <2>2. QED
    BY <1>6, <2>1 DEF Drop, Steady, NoReset
<1>7. CASE SchemaDone(a)
  <2>1. rows' = [t \in Tables |-> IF t \in gone[a] THEN {} ELSE rows[t]]
    BY <1>7 DEF SchemaDone
  <2>2. CASE gone[a] = {}
    BY <1>2, <2>1, <2>2
  <2>3. CASE gone[a] = Tables /\ ~singleWriter
    BY <1>7, <2>1, <2>3 DEF NoRows
  <2>4. gone[a] = {} \/ (gone[a] = Tables /\ ~singleWriter)
    <3>1. CASE singleWriter
      BY <1>1, <3>1 DEF Local, Holds
    <3>2. CASE ~singleWriter
      BY <1>7, <3>2, TablesAreDone
    <3>3. QED
      BY <3>1, <3>2
  <2>5. QED
    BY <2>2, <2>3, <2>4
<1>8. QED
  BY <1>3, <1>4, <1>5, <1>6, <1>7 DEF Step, Advance, SessionStep, EndStep

\* A client's student.
LEMMA WriteAdds ==
    ASSUME PlaceInv, Write
    PROVE  /\ UNCHANGED <<pc, plan, tables, mine, used, new, gone, error>>
           /\ rows'["students"] =
                 rows["students"] \cup {[by |-> Client, key |-> Client]}
           /\ \A t \in Tables \ {"students"} : rows'[t] = rows[t]
           /\ "students" \in made /\ \E s \in Starters : pc[s] = "up"
BY TablesAre DEF Write, own, PlaceInv, TypeOK

LEMMA OrphansStep ==
    PlaceInv /\ TableInv /\ NoOrphans /\ [Next]_vars => NoOrphans'
<1> SUFFICES ASSUME PlaceInv, TableInv, NoOrphans, [Next]_vars
             PROVE  NoOrphans'
  OBVIOUS
<1>1. ASSUME NEW a \in Actors, Step(a)
      PROVE  NoOrphans'
  <2>1. CASE Commit(a)
    BY <2>1, CommitAdds, TablesAre DEF NoOrphans
  <2>2. CASE rows' = NoRows
    BY <2>2, TablesAre DEF NoOrphans, NoRows
  <2>3. CASE rows' = [t \in Tables |->
                         IF t \in Cascade(Target(a)) THEN {} ELSE rows[t]]
    BY <2>3, TablesAre DEF NoOrphans, Cascade
  <2>4. QED
    BY <1>1, <2>1, <2>2, <2>3, RowsChange DEF NoOrphans
<1>2. CASE Write
  BY <1>2, WriteAdds, TablesAre DEF NoOrphans
<1>3. CASE UNCHANGED vars
  BY <1>3 DEF vars, NoOrphans
<1>4. QED
  BY <1>1, <1>2, <1>3, NextIs

\* No session or event is ever left without what it belongs to, whatever is
\* dropped under whoever's feet, on either database.
THEOREM NothingIsOrphaned == Spec => []NoOrphans
<1>1. Init => NoOrphans
  BY TablesAre DEF Init, NoRows, NoOrphans
<1>2. QED
  BY <1>1, WhereActorsAre, TablesStand, OrphansStep, PTL DEF Spec

LEMMA InitData == Init => DataInv
<1> SUFFICES ASSUME Init
             PROVE  DataInv
  OBVIOUS
<1>1. \A t \in Tables : rows[t] = {}
  BY DEF Init, NoRows
<1>2. \A a \in Actors : pc[a] = "off"
  BY DEF Init
<1>3. AllOrNothing
  BY <1>1, TablesAre DEF AllOrNothing, Seeded
<1>4. QED
  BY <1>2, <1>3 DEF DataInv, Covered, DataKnown, InSession

\* A commit leaves whole data, with every account.
LEMMA CommitIsWhole ==
    ASSUME PlaceInv, PlaceInv', TableInv, DataInv, Steady,
           NEW a \in Actors, Commit(a)
    PROVE  /\ Seeded("students")' = rows'["sessions"]
           /\ rows'["sessions"] = rows'["events"]
           /\ Names = KeysOf(rows'["users"])
           /\ made' = Tables
           /\ rows'["students"] # {}
<1>1. /\ pc[a] = "commit" /\ plan[a] = <<>> /\ UNCHANGED made
      /\ \A t \in Tables : rows'[t] = rows[t] \cup mine[a][t]
      /\ mine[a]["events"] \in {{}, {Own(a)}}
      /\ mine[a]["students"] = mine[a]["events"]
      /\ mine[a]["sessions"] = mine[a]["events"]
      /\ mine[a]["users"] \subseteq [by : {a}, key : Names]
  BY CommitAdds
<1>2. Seeded("students") = rows["sessions"] /\ rows["sessions"] = rows["events"]
  BY DEF DataInv, AllOrNothing, Steady
<1>3. Own(a).by # Client
  BY BootstrapAssumption DEF Own
<1>4. Seeded("students")' = Seeded("students") \cup mine[a]["students"]
  BY <1>1, <1>3, TablesAre DEF Seeded
<1>5. Names = KeysOf(rows'["users"])
  <2>1. Names \subseteq KeysOf(rows["users"] \cup mine[a]["users"])
    BY <1>1, OrderFacts DEF DataInv, Covered, InSession
  <2>2. rows'["users"] = rows["users"] \cup mine[a]["users"]
    BY <1>1, TablesAre
  <2>3. rows'["users"] \subseteq [by : Actors, key : Names]
    BY DEF PlaceInv, UsersKnown
  <2>4. QED
    BY <2>1, <2>2, <2>3 DEF KeysOf
<1>6. made' = Tables
  BY <1>1 DEF TableInv, MadeAll, Steady, InSession
<1>7. rows'["students"] # {}
  BY <1>1, TablesAre DEF DataInv, DataKnown
<1>8. QED
  BY <1>1, <1>2, <1>4, <1>5, <1>6, <1>7, TablesAre

LEMMA AllOrNothingStep ==
    ASSUME PlaceInv, PlaceInv', TableInv, DataInv, [Next]_vars
    PROVE  AllOrNothing'
<1>1. UNCHANGED setting
  BY DEF Next, Advance, vars
<1> SUFFICES ASSUME Steady
             PROVE  /\ Seeded("students")' = rows'["sessions"]
                    /\ rows'["sessions"] = rows'["events"]
                    /\ rows'["events"] # {} => Names = KeysOf(rows'["users"])
                    /\ \A t \in Tables : rows'[t] # {} => t \in made'
  BY <1>1 DEF AllOrNothing, Steady, NoReset, setting, KeysOf
<1>2. /\ Seeded("students") = rows["sessions"] /\ rows["sessions"] = rows["events"]
      /\ rows["events"] # {} => Names = KeysOf(rows["users"])
      /\ \A t \in Tables : rows[t] # {} => t \in made
  BY DEF DataInv, AllOrNothing, Steady, KeysOf
<1>3. ASSUME NEW a \in Actors, Step(a)
      PROVE  /\ Seeded("students")' = rows'["sessions"]
             /\ rows'["sessions"] = rows'["events"]
             /\ rows'["events"] # {} => Names = KeysOf(rows'["users"])
             /\ \A t \in Tables : rows'[t] # {} => t \in made'
  <2>1. CASE Commit(a)
    BY <2>1, CommitIsWhole
  <2>2. CASE rows' = NoRows
    BY <2>2, TablesAre DEF NoRows, Seeded
  <2>3. CASE UNCHANGED rows
    <3>1. made \subseteq made'
      BY <1>3, MadeGrows
    <3>2. QED
      BY <1>2, <2>3, <3>1 DEF Seeded
  <2>4. QED
    BY <1>3, <2>1, <2>2, <2>3, RowsChange
<1>4. CASE Write
  <2>1. Seeded("students")' = Seeded("students")
    BY <1>4, WriteAdds DEF Seeded
  <2>2. QED
    BY <1>2, <1>4, <2>1, WriteAdds, TablesAre
<1>5. CASE UNCHANGED vars
  BY <1>2, <1>5 DEF vars, Seeded
<1>6. QED
  BY <1>3, <1>4, <1>5, NextIs

LEMMA MoreKeys ==
    ASSUME NEW S, NEW T, S \subseteq T
    PROVE  KeysOf(S) \subseteq KeysOf(T)
BY DEF KeysOf

\* Next to the accounts, a session keeps its plan and the accounts it has added.
LEMMA AccountsOfStep ==
    ASSUME PlaceInv, NEW a \in Actors, Step(a), pc'[a] \in InSession
    PROVE  \/ SchemaDone(a)
           \/ SkipAccount(a) \/ AddAccount(a)
           \/ /\ pc[a] \in InSession /\ plan'[a] = plan[a]
              /\ mine'[a]["users"] = mine[a]["users"]
              /\ ~SchemaDone(a) /\ ~Commit(a)
<1>1. TypeOK
  BY DEF PlaceInv
<1>2. CASE EndStep(a)
  BY <1>1, <1>2, EndsEmptyHanded DEF InSession
<1>3. CASE Start(a) \/ Refuse(a) \/ LookDrop(a) \/ Look(a) \/ Drop(a) \/ Create(a)
           \/ Index(a) \/ Commit(a)
  BY <1>1, <1>3 DEF Start, Refuse, LookDrop, Look, Drop, Create, Index, Commit, Go, TypeOK,
                    InSession
<1>4. CASE MissAccount(a) \/ NeedNotAsk(a) \/ Ask(a) \/ IsEmpty(a)
  BY <1>1, <1>4 DEF MissAccount, NeedNotAsk, Ask, IsEmpty, TypeOK, InSession, own,
                    SchemaDone, Commit
<1>5. CASE SeedStudents(a) \/ SeedSessions(a) \/ SeedEvents(a)
  <2>1. /\ pc[a] \in {"students", "sessions", "events"} /\ plan' = plan
        /\ mine' = [mine EXCEPT ![a][pc[a]] = mine[a][pc[a]]
                       \cup {[by |-> a, key |-> KeyOf(a)]}]
    BY <1>5 DEF SeedStudents, SeedSessions, SeedEvents, Put
  <2>2. mine'[a]["users"] = mine[a]["users"]
    BY <1>1, <2>1, TablesAre DEF TypeOK
  <2>3. QED
    BY <2>1, <2>2 DEF InSession, SchemaDone, Commit
<1>6. QED
  BY <1>2, <1>3, <1>4, <1>5 DEF Step, Advance, EndStep

\* What the next account's statement does to the plan and to a's accounts.
LEMMA AccountDone ==
    ASSUME PlaceInv, NEW a \in Actors, SkipAccount(a) \/ AddAccount(a)
    PROVE  LET n == Head(plan[a])
           IN  /\ pc[a] \in {"account", "add"} /\ pc'[a] = "account"
               /\ plan[a] \in Tails(Accounts) /\ plan[a] # <<>>
               /\ plan'[a] = Tail(plan[a]) /\ UNCHANGED rows
               /\ n \in Names /\ n \notin Elems(plan'[a])
               /\ Elems(plan[a]) = Elems(plan'[a]) \cup {n}
               /\ \/ /\ mine'[a]["users"] = mine[a]["users"]
                     /\ n \in KeysOf(rows["users"])
                  \/ /\ AddAccount(a)
                     /\ mine'[a]["users"] =
                           mine[a]["users"] \cup {[by |-> a, key |-> n]}
<1> DEFINE q == plan[a]
           n == Head(q)
<1>1. TypeOK /\ Local(a)
  BY DEF PlaceInv
<1>2. q \in Tails(Accounts) /\ q # <<>>
  BY <1>1 DEF SkipAccount, AddAccount, Local, PlanFits
<1>3. /\ Tail(q) \in Tails(Accounts) /\ Elems(q) \subseteq Names
      /\ n \in Elems(q) /\ n \notin Elems(Tail(q))
      /\ Elems(q) = Elems(Tail(q)) \cup {n}
  <2> HIDE DEF q
  <2>1. QED
    BY <1>2, AccountsFacts, TailFacts
<1>4. /\ pc[a] \in {"account", "add"} /\ pc'[a] = "account" /\ UNCHANGED rows
      /\ plan'[a] = Tail(q)
  BY <1>1 DEF SkipAccount, AddAccount, TypeOK, Go, Plan
<1>5. CASE SkipAccount(a)
  <2>1. mine' = mine /\ n \in KeysOf(rows["users"])
    BY <1>5 DEF SkipAccount, KeysOf
  <2>2. QED
    BY <1>2, <1>3, <1>4, <2>1
<1>6. CASE AddAccount(a)
  <2>1. KeyOf(a) = n
    BY <1>6 DEF AddAccount, KeyOf
  <2>2. mine'[a]["users"] = mine[a]["users"] \cup {[by |-> a, key |-> n]}
    BY <1>1, <1>6, <2>1, TablesAre DEF AddAccount, Put, TypeOK
  <2>3. QED
    BY <1>2, <1>3, <1>4, <1>6, <2>2
<1>7. QED
  BY <1>5, <1>6

LEMMA CoveredStep ==
    ASSUME PlaceInv, TableInv, DataInv, Steady, NEW a \in Actors, Step(a),
           NEW b \in Actors, pc'[b] \in InSession
    PROVE  Names \ Elems(plan'[b])
               \subseteq KeysOf(rows'["users"] \cup mine'[b]["users"])
<1>1. Others(a) /\ TypeOK
  BY OthersStay DEF PlaceInv
<1>2. CASE b = a /\ SchemaDone(a)
  <2>1. plan'[a] = Accounts
    BY <1>1, <1>2 DEF SchemaDone, Plan, TypeOK
  <2>2. QED
    BY <1>2, <2>1, AccountsFacts
<1>3. CASE b # a
  <2>1. /\ pc[b] \in InSession /\ plan'[b] = plan[b] /\ mine'[b] = mine[b]
    BY <1>1, <1>3 DEF Others
  <2>2. Names \ Elems(plan[b]) \subseteq KeysOf(rows["users"] \cup mine[b]["users"])
    BY <2>1 DEF DataInv, Covered
  <2>3. CASE rows["users"] \subseteq rows'["users"]
    BY <2>1, <2>2, <2>3, MoreKeys
  <2>4. CASE ~singleWriter /\ gone[a] = Tables
    <3>1. used[b] = {}
      BY <1>1, <1>3, <2>4 DEF TableInv, Apart, TypeOK
    <3>2. plan[b] = Accounts
      BY <2>1, <3>1 DEF PlaceInv, Local, Holds
    <3>3. QED
      BY <2>1, <3>2, AccountsFacts
  <2>5. rows["users"] \subseteq rows'["users"] \/ (~singleWriter /\ gone[a] = Tables)
    BY RowsChange, CommitAdds, TablesAre
  <2>6. QED
    BY <2>3, <2>4, <2>5
<1>4. CASE b = a /\ (SkipAccount(a) \/ AddAccount(a))
  <2> DEFINE n == Head(plan[a])
  <2>1. /\ pc[a] \in InSession /\ Elems(plan[a]) = Elems(plan'[a]) \cup {n}
        /\ UNCHANGED rows
        /\ \/ /\ mine'[a]["users"] = mine[a]["users"]
              /\ n \in KeysOf(rows["users"])
           \/ mine'[a]["users"] = mine[a]["users"] \cup {[by |-> a, key |-> n]}
    BY <1>4, AccountDone DEF InSession
  <2> HIDE DEF n
  <2>2. Names \ Elems(plan[a]) \subseteq KeysOf(rows["users"] \cup mine[a]["users"])
    BY <2>1 DEF DataInv, Covered
  <2>3. /\ n \in KeysOf(rows["users"] \cup mine'[a]["users"])
        /\ KeysOf(rows["users"] \cup mine[a]["users"])
              \subseteq KeysOf(rows["users"] \cup mine'[a]["users"])
    BY <2>1 DEF KeysOf
  <2>4. QED
    BY <1>4, <2>1, <2>2, <2>3
<1>5. CASE /\ b = a /\ pc[a] \in InSession /\ plan'[a] = plan[a]
           /\ mine'[a]["users"] = mine[a]["users"] /\ ~SchemaDone(a) /\ ~Commit(a)
  <2>1. UNCHANGED rows
    BY <1>5, RowsChange
  <2>2. QED
    BY <1>5, <2>1 DEF DataInv, Covered
<1>6. QED
  BY <1>2, <1>3, <1>4, <1>5, AccountsOfStep

\* How an actor comes to the commit: its events are in, or it has found
\* students.
LEMMA WhoCommits ==
    ASSUME PlaceInv, NEW a \in Actors, Step(a), pc'[a] = "commit"
    PROVE  \/ IsEmpty(a) /\ rows["students"] # {} /\ UNCHANGED rows
           \/ SeedEvents(a) /\ mine'[a]["students"] # {}
<1>1. TypeOK /\ Local(a)
  BY DEF PlaceInv
<1>2. CASE EndStep(a)
  BY <1>1, <1>2, EndsEmptyHanded
<1>3. CASE IsEmpty(a)
  BY <1>1, <1>3 DEF IsEmpty, Go, TypeOK
<1>4. CASE SeedEvents(a)
  <2>1. mine[a]["students"] = {Own(a)}
    BY <1>1, <1>4 DEF SeedEvents, Local, MineFits
  <2>2. mine'[a]["students"] = mine[a]["students"]
    BY <1>1, <1>4, TablesAre DEF SeedEvents, Put, TypeOK
  <2>3. QED
    BY <1>4, <2>1, <2>2
<1>5. CASE Start(a) \/ Refuse(a) \/ LookDrop(a) \/ Look(a) \/ Drop(a)
           \/ Create(a) \/ Index(a)
  BY <1>1, <1>5 DEF Start, Refuse, LookDrop, Look, Drop, Create, Index, Go, TypeOK
<1>6. CASE SchemaDone(a) \/ SkipAccount(a) \/ MissAccount(a) \/ AddAccount(a)
           \/ NeedNotAsk(a) \/ Ask(a)
  BY <1>1, <1>6 DEF SchemaDone, SkipAccount, MissAccount, AddAccount, NeedNotAsk,
                    Ask, Go, TypeOK
<1>7. CASE SeedStudents(a) \/ SeedSessions(a) \/ Commit(a)
  BY <1>1, <1>7 DEF SeedStudents, SeedSessions, Commit, Go, TypeOK
<1>8. QED
  BY <1>2, <1>3, <1>4, <1>5, <1>6, <1>7 DEF Step, Advance, EndStep

LEMMA WhoComesUp ==
    ASSUME PlaceInv, NEW a \in Actors, Step(a), pc[a] # "up", pc'[a] = "up"
    PROVE  Commit(a)
<1>1. TypeOK
  BY DEF PlaceInv
<1>2. CASE EndStep(a)
  BY <1>1, <1>2, EndsEmptyHanded
<1>3. CASE SessionStep(a)
  BY <1>1, <1>3, SessionUses DEF InSession
<1>4. CASE Start(a) \/ Refuse(a) \/ LookDrop(a) \/ Look(a) \/ Drop(a)
           \/ Create(a) \/ Index(a)
  BY <1>1, <1>4 DEF Start, Refuse, LookDrop, Look, Drop, Create, Index, Go, TypeOK
<1>5. CASE SchemaDone(a) \/ NeedNotAsk(a) \/ Ask(a)
  BY <1>1, <1>5 DEF SchemaDone, NeedNotAsk, Ask, Go, TypeOK
<1>6. QED
  BY <1>2, <1>3, <1>4, <1>5 DEF Step, Advance, SessionStep, EndStep

LEMMA DataKnownStep ==
    ASSUME PlaceInv, TableInv, DataInv, Steady, NEW a \in Actors, Step(a),
           NEW b \in Actors, pc'[b] = "commit", mine'[b]["students"] = {}
    PROVE  rows'["students"] # {}
<1>1. Others(a) /\ TypeOK
  BY OthersStay DEF PlaceInv
<1>2. CASE b = a
  BY <1>2, WhoCommits
<1>3. CASE b # a
  <2>1. pc[b] = "commit" /\ mine[b]["students"] = {}
    BY <1>1, <1>3 DEF Others
  <2>2. rows["students"] # {}
    BY <2>1 DEF DataInv, DataKnown
  <2>3. ~(~singleWriter /\ gone[a] = Tables)
    <3>1. "students" \in used[b]
      BY <2>1 DEF PlaceInv, Local, Holds
    <3>2. QED
      BY <1>3, <3>1, TablesAre DEF TableInv, Apart
  <2>4. QED
    BY <2>2, <2>3, RowsChange, CommitAdds, TablesAre
<1>4. QED
  BY <1>2, <1>3

LEMMA DataStep ==
    PlaceInv /\ PlaceInv' /\ TableInv /\ DataInv /\ [Next]_vars => DataInv'
<1> SUFFICES ASSUME PlaceInv, PlaceInv', TableInv, DataInv, [Next]_vars
             PROVE  DataInv'
  OBVIOUS
<1>1. AllOrNothing'
  BY AllOrNothingStep
<1>2. Steady' = Steady
  BY DEF Next, Advance, vars, setting, Steady, NoReset
<1>3. ASSUME Steady, NEW b \in Actors
      PROVE  Covered(b)' /\ DataKnown(b)'
  <2>1. ASSUME NEW a \in Actors, Step(a)
        PROVE  Covered(b)' /\ DataKnown(b)'
    BY <1>3, <2>1, CoveredStep, DataKnownStep DEF Covered, DataKnown
  <2>2. CASE Write
    <3>1. /\ pc' = pc /\ plan' = plan /\ mine' = mine
          /\ rows'["users"] = rows["users"] /\ rows'["students"] # {}
      BY <2>2, WriteAdds, TablesAre
    <3>2. QED
      BY <1>3, <3>1 DEF DataInv, Covered, DataKnown
  <2>3. CASE UNCHANGED vars
    BY <1>3, <2>3 DEF vars, own, DataInv, Covered, DataKnown
  <2>4. QED
    BY <2>1, <2>2, <2>3, NextIs
<1>4. QED
  BY <1>1, <1>2, <1>3 DEF DataInv

THEOREM DataStand == Spec => []DataInv
<1>1. QED
  BY WhereActorsAre, TablesStand, InitData, DataStep, PTL DEF Spec

\* Demo data and accounts are there whole or not at all, and no table has rows
\* and does not exist, unless a --reset drops the tables of a file.
THEOREM DataAreWhole == Spec => []AllOrNothing
<1>1. DataInv => AllOrNothing
  BY DEF DataInv
<1>2. QED
  BY DataStand, <1>1, PTL

\* On PostgreSQL a server that comes up does so over everything it needs, or
\* over a client's student that was there first.
THEOREM StartupRepairs == Spec => StartupRepairsOnPostgreSQL
<1>1. PlaceInv /\ PlaceInv' /\ TableInv /\ DataInv /\ [Next]_vars
        => [~singleWriter => Repairs]_vars
  <2> SUFFICES ASSUME PlaceInv, PlaceInv', TableInv, DataInv, [Next]_vars,
                      ~singleWriter, NEW s \in Starters, pc[s] # "up",
                      pc'[s] = "up"
               PROVE  Ready' \/ Seeded("students") # rows["students"]
    BY DEF Repairs
  <2>1. s \in Actors
    BY DEF Actors
  <2>2. PICK a \in Actors : Step(a)
    BY NextIs, WriteAdds DEF vars
  <2>3. Commit(s)
    BY <2>1, <2>2, WhoComesUp, OthersStay DEF PlaceInv, Others
  <2>4. /\ Seeded("students")' = rows'["sessions"]
        /\ rows'["sessions"] = rows'["events"]
        /\ Names = KeysOf(rows'["users"])
        /\ made' = Tables
        /\ rows'["students"] # {}
    BY <2>1, <2>3, CommitIsWhole DEF Steady
  <2>5. CASE rows'["sessions"] # {}
    BY <2>4, <2>5, TablesAre DEF Ready, KeysOf
  <2>6. CASE rows'["sessions"] = {}
    <3>1. mine[s]["students"] = {} /\ rows["sessions"] = {}
      BY <2>1, <2>3, <2>6, CommitAdds, TablesAre
    <3>2. Seeded("students") = {}
      BY <3>1 DEF DataInv, AllOrNothing
    <3>3. rows["students"] # {}
      BY <2>1, <2>3, <3>1, CommitAdds DEF DataInv, DataKnown, Steady
    <3>4. QED
      BY <3>2, <3>3
  <2>7. QED
    BY <2>5, <2>6
<1>2. QED
  BY WhereActorsAre, TablesStand, DataStand, <1>1, PTL
     DEF Spec, StartupRepairsOnPostgreSQL
-----------------------------------------------------------------------------
\* Without a --reset

\* Nothing is ever dropped.
NothingGone == \A a \in Actors : gone[a] = {}

\* The accounts a session has added are not those it has still to see to.
Handled(a) ==
    pc[a] \in {"account", "add"} =>
        KeysOf(mine[a]["users"]) \cap Elems(plan[a]) = {}

\* No account has a second row, the uncommitted ones counted, once the index
\* of its table is there.
KeysApart ==
    /\ \A a \in Actors : KeysOf(mine[a]["users"]) \cap KeysOf(rows["users"]) = {}
    /\ \A a, b \in Actors :
          a # b => KeysOf(mine[a]["users"]) \cap KeysOf(mine[b]["users"]) = {}
UsersUnique == "users" \notin bare => KeysApart /\ Doubled("users") = {}

\* A file has one writer at a time; a server's tables come with their indexes.
OneWriter ==
    singleWriter => \A a, b \in Actors : Pending(a) /\ Pending(b) => a = b
BareInFiles == ~singleWriter => bare = {}

\* A table that is being indexed is without its indexes, and one actor's work.
IndexFits ==
    /\ \A a \in Actors : pc[a] = "index" => Head(plan[a]) \in made \cap bare
    /\ \A a, b \in Actors :
          pc[a] = "index" /\ pc[b] = "index" /\ a # b =>
              Head(plan[a]) # Head(plan[b])

\* Who seeds the data has added every account, before there was any row.
Seeds(a) == pc[a] \in {"students", "sessions", "events"} \/ mine[a]["students"] # {}
SeederHasAccounts(a) == Seeds(a) => KeysOf(mine[a]["users"]) = Names
SeederIsFirst(a) == Seeds(a) => rows["students"] = {}

\* The first rows are those of somebody who has come up.
RowsMeanUp == (\E t \in Tables : rows[t] # {}) => \E a \in Actors : pc[a] = "up"

ErrorFits(a) ==
    /\ error[a] \notin {"missing", "deadlock"}
    /\ error[a] \in {"unique", "multiple"} => Ready
    /\ error[a] = "exists" => made # {}

\* Of those who create the tables, one meets none that another has made.
Survives(a) ==
    \/ pc[a] \in {"create", "index"} /\ Elems(Ahead(a)) = Tables \ made
    \/ pc[a] \in InSession \cup {"up", "dead"}
    \/ pc[a] = "failed" /\ error[a] # "exists"
SomeSurvive == made # {} => \E a \in Actors : Survives(a)

AloneInv ==
    NoReset => /\ NothingGone /\ UsersUnique /\ OneWriter /\ BareInFiles
               /\ IndexFits /\ RowsMeanUp /\ SomeSurvive
               /\ \A a \in Actors : pc[a] = "up" => Ready
               /\ \A a \in Actors : Handled(a) /\ SeederHasAccounts(a)
               /\ \A a \in Actors : SeederIsFirst(a) /\ ErrorFits(a)

\* What the lemmas below start from.
Before == PlaceInv /\ PlaceInv' /\ TableInv /\ DataInv /\ AloneInv /\ NoReset

LEMMA NothingIsDropped ==
    ASSUME Before, NEW a \in Actors, Step(a)
    PROVE  NothingGone'
<1>1. TypeOK /\ Local(a) /\ Others(a) /\ NothingGone
  BY OthersStay DEF Before, AloneInv, PlaceInv
<1>2. pc[a] # "drop"
  BY <1>1 DEF Before, NoReset, Local, Holds
<1>3. CASE EndStep(a)
  BY <1>1, <1>3, EndsEmptyHanded DEF Others, NothingGone
<1>4. CASE SessionStep(a)
  BY <1>1, <1>4, SessionUses DEF NothingGone
<1>5. CASE SchemaDone(a) \/ Commit(a)
  BY <1>1, <1>5 DEF SchemaDone, Commit, Release, TypeOK, Others, NothingGone
<1>6. CASE Start(a) \/ Refuse(a) \/ LookDrop(a) \/ Look(a) \/ Create(a)
           \/ Index(a) \/ NeedNotAsk(a) \/ Ask(a)
  BY <1>1, <1>6 DEF Start, Refuse, LookDrop, Look, Create, Index, NeedNotAsk, Ask, own,
                    NothingGone
<1>7. QED
  BY <1>2, <1>3, <1>4, <1>5, <1>6 DEF Step, Advance, SessionStep, EndStep, Drop

\* Tables and indexes are only made.
LEMMA TablesOfStep ==
    ASSUME Before, NEW a \in Actors, Step(a)
    PROVE  \/ UNCHANGED tables /\ pc'[a] # "index"
           \/ /\ Create(a) /\ singleWriter /\ pc'[a] = "index"
              /\ plan' = plan /\ Head(plan[a]) \notin made
              /\ made' = made \cup {Head(plan[a])}
              /\ bare' = bare \cup {Head(plan[a])}
           \/ /\ Index(a) /\ singleWriter /\ pc[a] = "index"
              /\ pc'[a] = "create" /\ made' = made
              /\ bare' = bare \ {Head(plan[a])}
           \/ /\ SchemaDone(a) /\ pc'[a] # "index" /\ bare' = bare
              /\ made \subseteq made' /\ (singleWriter => made' = made)
<1>1. TypeOK /\ Local(a)
  BY DEF Before, PlaceInv
<1>2. CASE EndStep(a)
  BY <1>1, <1>2, EndsEmptyHanded
<1>3. CASE SessionStep(a)
  BY <1>1, <1>3, SessionUses DEF InSession
<1>4. CASE Start(a) \/ Refuse(a) \/ LookDrop(a) \/ Look(a) \/ NeedNotAsk(a)
           \/ Ask(a) \/ Commit(a)
  BY <1>1, <1>4 DEF Start, Refuse, LookDrop, Look, NeedNotAsk, Ask, Commit, Go,
                    TypeOK
<1>5. ~Drop(a)
  BY <1>1 DEF Drop, Local, Holds, Before, NoReset
<1>6. CASE Create(a)
  <2>1. pc[a] = "create" /\ Target(a) = Head(plan[a])
    BY <1>6 DEF Create, Target
  <2>2. CASE singleWriter
    BY <1>1, <1>6, <2>1, <2>2, FileIsFilled DEF Before, Create, Go
  <2>3. CASE ~singleWriter
    BY <1>1, <1>6, <2>1, <2>3 DEF Create
  <2>4. QED
    BY <2>2, <2>3
<1>7. CASE Index(a)
  <2>1. pc[a] = "index" /\ Target(a) = Head(plan[a]) /\ singleWriter
    BY <1>1, <1>7 DEF Index, Target, Local, Holds
  <2>2. QED
    BY <1>1, <1>7, <2>1 DEF Index, Go, TypeOK
<1>8. CASE SchemaDone(a)
  <2>1. made \subseteq made'
    BY <1>8, MadeGrows DEF Before, Steady
  <2>2. singleWriter => gone[a] = {} /\ new[a] = {}
    BY <1>1 DEF Local, Holds
  <2>3. QED
    BY <1>1, <1>8, <2>1, <2>2 DEF SchemaDone, Go, TypeOK
<1>9. QED
  BY <1>2, <1>3, <1>4, <1>5, <1>6, <1>7, <1>8
     DEF Step, Advance, SessionStep, EndStep

LEMMA BareStep ==
    ASSUME Before, NEW a \in Actors, Step(a)
    PROVE  BareInFiles' /\ IndexFits'
<1>1. Others(a) /\ BareInFiles /\ IndexFits /\ UNCHANGED setting
  BY OthersStay DEF Before, AloneInv, PlaceInv, Step, Advance
<1>2. BareInFiles'
  BY <1>1, TablesOfStep DEF BareInFiles, setting
<1>3. ASSUME NEW b \in Actors \ {a}, pc'[b] = "index"
      PROVE  /\ pc[b] = "index" /\ plan'[b] = plan[b]
             /\ Head(plan[b]) \in made \cap bare
             /\ Head(plan'[b]) \in made' \cap bare'
             /\ pc'[a] = "index" => Head(plan'[b]) # Head(plan'[a])
  <2>1. /\ pc[b] = "index" /\ plan'[b] = plan[b]
        /\ Head(plan[b]) \in made \cap bare
    BY <1>1, <1>3 DEF Others, IndexFits
  <2>2. pc[a] = "index" => Head(plan[b]) # Head(plan[a])
    BY <1>1, <2>1 DEF IndexFits
  <2>3. QED
    BY <2>1, <2>2, TablesOfStep
<1>4. ASSUME pc'[a] = "index"
      PROVE  Head(plan'[a]) \in made' \cap bare'
  BY <1>4, TablesOfStep
<1>5. ASSUME NEW b \in Actors, pc'[b] = "index"
      PROVE  Head(plan'[b]) \in made' \cap bare'
  BY <1>3, <1>4, <1>5
<1>6. ASSUME NEW b \in Actors, NEW c \in Actors, b # c,
             pc'[b] = "index", pc'[c] = "index"
      PROVE  Head(plan'[b]) # Head(plan'[c])
  <2>1. CASE b # a /\ c # a
    <3>1. /\ pc[b] = "index" /\ plan'[b] = plan[b]
          /\ pc[c] = "index" /\ plan'[c] = plan[c]
      BY <1>3, <1>6, <2>1
    <3>2. Head(plan[b]) # Head(plan[c])
      BY <1>1, <1>6, <3>1 DEF IndexFits
    <3>3. QED
      BY <3>1, <3>2
  <2>2. QED
    BY <1>3, <1>6, <2>1
<1>7. QED
  BY <1>2, <1>5, <1>6 DEF IndexFits

\* Rows appear when somebody commits, and stay.
LEMMA RowsGrow ==
    ASSUME Before, NEW a \in Actors, Step(a)
    PROVE  /\ UNCHANGED rows \/ Commit(a)
           /\ \A t \in Tables : rows[t] \subseteq rows'[t]
<1>1. gone[a] # Tables /\ Steady
  BY TablesAre DEF Before, AloneInv, NothingGone, Steady
<1>2. UNCHANGED rows \/ Commit(a)
  BY <1>1, RowsChange DEF Before
<1>3. QED
  BY <1>2, CommitAdds DEF Before

LEMMA ReadyStays ==
    ASSUME PlaceInv', Ready, made \subseteq made',
           \A t \in Tables : rows[t] \subseteq rows'[t]
    PROVE  Ready'
<1>1. made' = Tables
  BY DEF Ready, PlaceInv, TypeOK
<1>2. Names \subseteq KeysOf(rows'["users"])
  BY MoreKeys, TablesAre DEF Ready, KeysOf
<1>3. rows'["users"] \subseteq [by : Actors, key : Names]
  BY DEF PlaceInv, UsersKnown
<1>4. KeysOf(rows'["users"]) = Names
  BY <1>2, <1>3 DEF KeysOf
<1>5. QED
  BY <1>1, <1>4 DEF Ready, KeysOf

\* Rows anywhere mean rows everywhere.
LEMMA RowsMeanReady ==
    ASSUME AloneInv, NoReset, NEW t \in Tables, rows[t] # {}
    PROVE  Ready
BY DEF AloneInv, RowsMeanUp

\* Who ends the session well leaves the database ready.
LEMMA CommitMeansReady ==
    ASSUME Before, NEW a \in Actors, Commit(a)
    PROVE  Ready'
<1>1. Steady
  BY DEF Before, Steady
<1>2. /\ rows'["sessions"] = rows'["events"] /\ Names = KeysOf(rows'["users"])
      /\ made' = Tables /\ rows'["students"] # {}
  BY <1>1, CommitIsWhole DEF Before
<1>3. /\ pc[a] = "commit" /\ rows'["sessions"] = rows["sessions"] \cup mine[a]["sessions"]
      /\ mine[a]["sessions"] = mine[a]["students"]
  BY CommitAdds, TablesAre DEF Before
<1>4. rows'["sessions"] # {}
  <2>1. CASE mine[a]["students"] # {}
    BY <1>3, <2>1
  <2>2. CASE mine[a]["students"] = {}
    <3>1. rows["students"] # {}
      BY <1>1, <1>3, <2>2 DEF Before, DataInv, DataKnown
    <3>2. Ready
      BY <3>1, RowsMeanReady, TablesAre DEF Before
    <3>3. QED
      BY <1>3, <3>2, TablesAre DEF Ready
  <2>3. QED
    BY <2>1, <2>2
<1>5. QED
  BY <1>2, <1>4, TablesAre DEF Ready, KeysOf

LEMMA UpStep ==
    ASSUME Before, NEW a \in Actors, Step(a), NEW b \in Actors, pc'[b] = "up"
    PROVE  Ready'
<1>1. CASE pc[b] = "up"
  <2>1. made \subseteq made' /\ \A t \in Tables : rows[t] \subseteq rows'[t]
    BY MadeGrows, RowsGrow DEF Before, Steady
  <2>2. Ready
    BY <1>1 DEF Before, AloneInv
  <2>3. QED
    BY <2>1, <2>2, ReadyStays DEF Before
<1>2. CASE pc[b] # "up"
  <2>1. b = a
    BY <1>2, OthersStay DEF Before, PlaceInv, Others
  <2>2. Commit(a)
    BY <1>2, <2>1, WhoComesUp DEF Before
  <2>3. QED
    BY <2>2, CommitMeansReady
<1>3. QED
  BY <1>1, <1>2

LEMMA EndedStay ==
    ASSUME PlaceInv, NEW a \in Actors, Step(a)
    PROVE  pc[a] \notin Ended
<1> USE DEF Ended
<1>1. CASE Crash(a)
  BY <1>1 DEF Crash
<1>2. CASE Fail(a)
  BY <1>2 DEF Fail, ErrorOf, Statements, Inserts
<1>3. CASE LockTimeout(a) \/ Deadlock(a)
  BY <1>3 DEF LockTimeout, Deadlock, Blocked, InCircle, WaitsFor, Writes,
              Statements, Inserts
<1>4. CASE SessionStep(a)
  BY <1>4, SessionUses DEF PlaceInv, Statements, Inserts
<1>5. CASE Start(a) \/ Refuse(a) \/ LookDrop(a) \/ Look(a) \/ Drop(a) \/ Create(a)
           \/ Index(a) \/ SchemaDone(a) \/ NeedNotAsk(a) \/ Ask(a) \/ Commit(a)
  BY <1>5 DEF Start, Refuse, LookDrop, Look, Drop, Create, Index, SchemaDone, NeedNotAsk,
              Ask, Commit
<1>6. QED
  BY <1>1, <1>2, <1>3, <1>4, <1>5 DEF Step, Advance, SessionStep

LEMMA RowsMeanUpStep ==
    ASSUME Before, NEW a \in Actors, Step(a)
    PROVE  RowsMeanUp'
<1>1. Others(a)
  BY OthersStay DEF Before, PlaceInv
<1>2. CASE Commit(a)
  BY <1>2 DEF Commit, Go, RowsMeanUp, Before, PlaceInv, TypeOK
<1>3. CASE UNCHANGED rows
  <2>1. \A b \in Actors : pc[b] = "up" => pc'[b] = "up"
    BY <1>1, EndedStay DEF Before, Others, Ended
  <2>2. QED
    BY <1>3, <2>1 DEF Before, AloneInv, RowsMeanUp
<1>4. QED
  BY <1>2, <1>3, RowsGrow

\* What an actor's step may do to the accounts among its own rows.
LEMMA OwnAccounts ==
    ASSUME PlaceInv, PlaceInv', NEW a \in Actors, Step(a)
    PROVE  \/ mine'[a]["users"] = mine[a]["users"]
           \/ AddAccount(a) /\ mine'[a]["users"] =
                 mine[a]["users"] \cup {[by |-> a, key |-> Head(plan[a])]}
           \/ mine'[a]["users"] = {}
<1>1. CASE pc'[a] \notin InSession
  BY <1>1, TablesAre DEF PlaceInv, Local, Holds, NoRows
<1>2. CASE SchemaDone(a)
  BY <1>2, TablesAre DEF SchemaDone, Release, NoRows, PlaceInv, TypeOK
<1>3. CASE SkipAccount(a) \/ AddAccount(a)
  BY <1>3, AccountDone
<1>4. QED
  BY <1>1, <1>2, <1>3, AccountsOfStep

LEMMA HandledStep ==
    ASSUME Before, NEW a \in Actors, Step(a), NEW b \in Actors
    PROVE  Handled(b)'
<1>1. Others(a) /\ Handled(b) /\ Local(b) /\ Local(b)' /\ TypeOK
  BY OthersStay DEF Before, AloneInv, PlaceInv
<1> SUFFICES ASSUME pc'[b] \in {"account", "add"}
             PROVE  KeysOf(mine'[b]["users"]) \cap Elems(plan'[b]) = {}
  BY DEF Handled
<1>2. CASE b # a
  BY <1>1, <1>2 DEF Others, Handled
<1>3. CASE b = a /\ SchemaDone(a)
  BY <1>1, <1>3, TablesAre DEF SchemaDone, Release, NoRows, TypeOK, KeysOf
<1>4. CASE b = a /\ (SkipAccount(a) \/ AddAccount(a))
  <2> DEFINE n == Head(plan[a])
  <2>1. /\ pc[a] \in {"account", "add"}
        /\ n \notin Elems(plan'[a]) /\ Elems(plan'[a]) \subseteq Elems(plan[a])
        /\ \/ mine'[a]["users"] = mine[a]["users"]
           \/ mine'[a]["users"] = mine[a]["users"] \cup {[by |-> a, key |-> n]}
    BY <1>4, AccountDone DEF Before
  <2> HIDE DEF n
  <2>2. KeysOf(mine'[a]["users"]) \subseteq KeysOf(mine[a]["users"]) \cup {n}
    BY <2>1 DEF KeysOf
  <2>3. KeysOf(mine[a]["users"]) \cap Elems(plan[a]) = {}
    BY <1>1, <1>4, <2>1 DEF Handled
  <2>4. QED
    BY <1>4, <2>1, <2>2, <2>3
<1>5. CASE /\ b = a /\ plan'[a] = plan[a] /\ mine'[a]["users"] = mine[a]["users"]
           /\ pc[a] \in InSession
  <2>1. CASE pc[a] \in {"account", "add"}
    BY <1>1, <1>5, <2>1 DEF Handled
  <2>2. CASE pc[a] \notin {"account", "add"}
    <3>1. plan[a] = <<>>
      BY <1>1, <1>5, <2>2 DEF Local, PlanFits, InSession
    <3>2. QED
      BY <1>5, <3>1, OrderFacts
  <2>3. QED
    BY <2>1, <2>2
<1>6. QED
  BY <1>2, <1>3, <1>4, <1>5, AccountsOfStep DEF Before, InSession

\* Who begins to write does so at an INSERT that waits for nobody.
LEMMA WhoWrites ==
    ASSUME PlaceInv, NEW a \in Actors, Step(a), Pending(a)', ~Pending(a)
    PROVE  pc[a] \in Inserts /\ ~Blocked(a)
<1>1. TypeOK
  BY DEF PlaceInv
<1>2. CASE AddAccount(a) \/ SeedStudents(a) \/ SeedSessions(a) \/ SeedEvents(a)
  BY <1>2 DEF AddAccount, SeedStudents, SeedSessions, SeedEvents, Put, Runs,
              Inserts
<1>3. CASE EndStep(a) \/ SchemaDone(a) \/ Commit(a)
  <2>1. mine'[a] = NoRows
    BY <1>1, <1>3, EndsEmptyHanded DEF SchemaDone, Commit, Release, TypeOK
  <2>2. QED
    BY <2>1 DEF Pending, NoRows
<1>4. ASSUME mine' = mine
      PROVE  FALSE
  BY <1>4 DEF Pending
<1>5. CASE Start(a) \/ Refuse(a) \/ LookDrop(a) \/ Look(a) \/ Drop(a)
           \/ Create(a) \/ Index(a)
  BY <1>4, <1>5 DEF Start, Refuse, LookDrop, Look, Drop, Create, Index, own
<1>6. CASE SkipAccount(a) \/ MissAccount(a) \/ NeedNotAsk(a) \/ Ask(a)
           \/ IsEmpty(a)
  BY <1>4, <1>6 DEF SkipAccount, MissAccount, NeedNotAsk, Ask, IsEmpty, own
<1>7. QED
  BY <1>2, <1>3, <1>5, <1>6 DEF Step, Advance, EndStep

LEMMA WritersStep ==
    ASSUME Before, NEW a \in Actors, Step(a)
    PROVE  OneWriter'
<1>1. Others(a) /\ OneWriter /\ UNCHANGED setting
  BY OthersStay DEF Before, AloneInv, PlaceInv, Step, Advance
<1>2. \A b \in Actors \ {a} : Pending(b)' = Pending(b)
  BY <1>1 DEF Others, Pending
<1>3. ASSUME singleWriter, Pending(a)', NEW b \in Actors \ {a}
      PROVE  ~Pending(b)
  <2>1. CASE Pending(a)
    BY <1>1, <1>3, <2>1 DEF OneWriter
  <2>2. CASE ~Pending(a)
    <3>1. pc[a] \in Inserts /\ ~Blocked(a)
      BY <1>3, <2>2, WhoWrites DEF Before
    <3>2. QED
      BY <1>3, <3>1 DEF Blocked, WaitsFor, Writes
  <2>3. QED
    BY <2>1, <2>2
<1>4. ASSUME singleWriter, NEW b \in Actors, NEW c \in Actors,
             Pending(b)', Pending(c)'
      PROVE  b = c
  BY <1>1, <1>2, <1>3, <1>4 DEF OneWriter
<1>5. QED
  BY <1>1, <1>4 DEF OneWriter, setting

\* An account is only added where neither the table nor another has it, once
\* its index is there.
LEMMA AddedIsNew ==
    ASSUME PlaceInv, NEW a \in Actors, AddAccount(a), "users" \notin bare
    PROVE  /\ Head(plan[a]) \notin KeysOf(rows["users"])
           /\ \A b \in Actors : b # a => Head(plan[a]) \notin KeysOf(mine[b]["users"])
<1>1. pc[a] = "add" /\ Target(a) = "users" /\ KeyOf(a) = Head(plan[a])
  BY DEF AddAccount, Target, KeyOf
<1>2. ~Blocked(a) /\ ErrorOf(a) = "none"
  BY DEF AddAccount, Put, Runs
<1>3. \A w \in rows["users"] : w.key # Head(plan[a])
  BY <1>1, <1>2 DEF ErrorOf, Inserts, Statements, Unique
<1>4. ASSUME NEW b \in Actors, b # a
      PROVE  \A w \in mine[b]["users"] : w.key # Head(plan[a])
  <2>1. ~WaitsFor(a, b)
    BY <1>2 DEF Blocked
  <2>2. CASE singleWriter
    BY <1>1, <1>4, <2>1, <2>2, TablesAre DEF WaitsFor, Writes, Inserts, Pending
  <2>3. CASE ~singleWriter
    BY <1>1, <1>4, <2>1, <2>3 DEF WaitsFor, Inserts, Unique
  <2>4. QED
    BY <2>2, <2>3
<1>5. QED
  BY <1>3, <1>4 DEF KeysOf

LEMMA KeysStayApart ==
    ASSUME Before, NEW a \in Actors, Step(a), "users" \notin bare
    PROVE  KeysApart'
<1>1. Others(a) /\ TypeOK /\ KeysApart
  BY OthersStay DEF Before, AloneInv, PlaceInv, UsersUnique
<1> DEFINE n == Head(plan[a])
<1>2. \A b \in Actors \ {a} : mine'[b]["users"] = mine[b]["users"]
  BY <1>1 DEF Others
<1>3. CASE UNCHANGED rows /\ mine'[a]["users"] \in {mine[a]["users"], {}}
  BY <1>1, <1>2, <1>3 DEF KeysApart, KeysOf
<1>4. CASE /\ UNCHANGED rows /\ AddAccount(a)
           /\ mine'[a]["users"] = mine[a]["users"] \cup {[by |-> a, key |-> n]}
  <2>1. /\ n \notin KeysOf(rows["users"])
        /\ \A b \in Actors : b # a => n \notin KeysOf(mine[b]["users"])
    BY <1>4, AddedIsNew DEF Before
  <2> HIDE DEF n
  <2>2. KeysOf(mine'[a]["users"]) \subseteq KeysOf(mine[a]["users"]) \cup {n}
    BY <1>4 DEF KeysOf
  <2>3. KeysOf(mine'[a]["users"]) \cap KeysOf(rows["users"]) = {}
    BY <1>1, <2>1, <2>2 DEF KeysApart
  <2>4. ASSUME NEW b \in Actors, b # a
        PROVE  /\ KeysOf(mine'[b]["users"]) = KeysOf(mine[b]["users"])
               /\ KeysOf(mine'[a]["users"]) \cap KeysOf(mine[b]["users"]) = {}
    BY <1>1, <1>2, <2>1, <2>2, <2>4 DEF KeysApart
  <2>5. KeysOf(rows'["users"]) = KeysOf(rows["users"])
    BY <1>4
  <2>6. QED
    BY <1>1, <2>3, <2>4, <2>5 DEF KeysApart
<1>5. CASE Commit(a)
  <2>1. mine'[a]["users"] = {}
    BY <1>1, <1>5, TablesAre DEF Commit, Release, NoRows, TypeOK
  <2>2. rows'["users"] = rows["users"] \cup mine[a]["users"]
    BY <1>5, CommitAdds, TablesAre DEF Before
  <2>3. KeysOf(rows'["users"]) = KeysOf(rows["users"]) \cup KeysOf(mine[a]["users"])
    BY <2>2 DEF KeysOf
  <2>4. KeysOf(mine'[a]["users"]) = {}
    BY <2>1 DEF KeysOf
  <2>5. QED
    BY <1>1, <1>2, <2>3, <2>4 DEF KeysApart
<1>6. AddAccount(a) => UNCHANGED rows
  BY DEF AddAccount
<1>7. QED
  BY <1>3, <1>4, <1>5, <1>6, OwnAccounts, RowsGrow DEF Before

\* No key is doubled where every row has a key of its own.
LEMMA DoubledMeans ==
    ASSUME NEW S, S \subseteq [by : Actors, key : Names]
    PROVE  {k \in Keys : \E v, w \in S : v # w /\ v.key = k /\ w.key = k} = {}
              <=> \A v, w \in S : v.key = w.key => v = w
<1>1. \A v \in S : v.key \in Keys
  BY DEF Keys
<1>2. QED
  BY <1>1

LEMMA UniqueStep ==
    ASSUME Before, NEW a \in Actors, Step(a)
    PROVE  UsersUnique'
<1>1. /\ Others(a) /\ TypeOK /\ Local(a) /\ Local(a)' /\ UsersUnique
      /\ PlaceInv /\ PlaceInv'
  BY OthersStay DEF Before, AloneInv, PlaceInv
<1> SUFFICES ASSUME "users" \notin bare'
             PROVE  KeysApart' /\ Doubled("users")' = {}
  BY DEF UsersUnique
<1>2. CASE "users" \notin bare
  <2>1. KeysApart'
    BY <1>2, KeysStayApart
  <2>2. KeysApart /\ Doubled("users") = {}
    BY <1>1, <1>2 DEF UsersUnique
  <2>3. \A v, w \in rows["users"] : v.key = w.key => v = w
    BY <1>1, <2>2, DoubledMeans DEF Doubled, PlaceInv, UsersKnown
  <2>4. CASE UNCHANGED rows
    BY <2>1, <2>2, <2>4 DEF Doubled
  <2>5. CASE Commit(a)
    <3>1. /\ rows'["users"] = rows["users"] \cup mine[a]["users"]
          /\ mine[a]["users"] \subseteq [by : {a}, key : Names]
      BY <1>1, <2>5, CommitAdds, TablesAre
    <3>2. \A v \in mine[a]["users"], w \in rows["users"] : v.key # w.key
      BY <2>2 DEF KeysApart, KeysOf
    <3>3. \A v, w \in mine[a]["users"] : v.key = w.key => v = w
      BY <3>1
    <3>4. \A v, w \in rows'["users"] : v.key = w.key => v = w
      BY <2>3, <3>1, <3>2, <3>3
    <3>5. QED
      BY <1>1, <2>1, <3>4, DoubledMeans DEF Doubled, PlaceInv, UsersKnown
  <2>6. QED
    BY <2>1, <2>4, <2>5, RowsGrow
<1>3. CASE "users" \in bare
  <2>1. Index(a) /\ singleWriter /\ pc[a] = "index" /\ Head(plan[a]) = "users"
    BY <1>3, TablesOfStep
  <2>2. Target(a) = "users" /\ UNCHANGED rows /\ Runs(a)
    BY <2>1 DEF Index, Target
  <2>3. Doubled("users") = {}
    BY <2>1, <2>2 DEF Runs, ErrorOf, Unique
  <2>4. ASSUME NEW b \in Actors
        PROVE  mine'[b]["users"] = {}
    <3>1. mine' = mine
      BY <2>1 DEF Index, own
    <3>2. CASE b = a
      BY <1>1, <2>1, <3>1, <3>2, TablesAre DEF Local, Holds, InSession, NoRows
    <3>3. CASE b # a
      <4>1. ~Pending(b)
        BY <2>1, <2>2, <3>3 DEF Runs, Blocked, WaitsFor, Writes
      <4>2. QED
        BY <3>1, <4>1, TablesAre DEF Pending
    <3>4. QED
      BY <3>2, <3>3
  <2>5. KeysApart'
    BY <2>4 DEF KeysApart, KeysOf
  <2>6. QED
    BY <2>2, <2>3, <2>5 DEF Doubled
<1>4. QED
  BY <1>2, <1>3

\* How an actor comes to a statement that seeds data.
LEMMA WhoSeeds ==
    ASSUME PlaceInv, NEW a \in Actors, Step(a), a \notin reset,
           pc'[a] \in {"students", "sessions", "events"}
    PROVE  \/ IsEmpty(a) /\ rows["students"] = {} /\ mine' = mine
           \/ /\ pc[a] \in {"students", "sessions"}
              /\ mine'[a]["users"] = mine[a]["users"]
<1>1. TypeOK
  BY DEF PlaceInv
<1>2. CASE EndStep(a)
  BY <1>1, <1>2, EndsEmptyHanded
<1>3. CASE IsEmpty(a)
  BY <1>1, <1>3 DEF IsEmpty, Go, TypeOK
<1>4. CASE SeedStudents(a) \/ SeedSessions(a) \/ SeedEvents(a)
  BY <1>1, <1>4, TablesAre DEF SeedStudents, SeedSessions, SeedEvents, Put, Go, TypeOK
<1>5. CASE NeedNotAsk(a)
  BY <1>5 DEF NeedNotAsk
<1>6. CASE Start(a) \/ Refuse(a) \/ LookDrop(a) \/ Look(a) \/ Drop(a)
           \/ Create(a) \/ Index(a)
  BY <1>1, <1>6 DEF Start, Refuse, LookDrop, Look, Drop, Create, Index, Go, TypeOK
<1>7. CASE SchemaDone(a) \/ SkipAccount(a) \/ MissAccount(a) \/ AddAccount(a)
           \/ Ask(a) \/ Commit(a)
  BY <1>1, <1>7 DEF SchemaDone, SkipAccount, MissAccount, AddAccount, Ask, Commit,
                    Go, TypeOK
<1>8. QED
  BY <1>2, <1>3, <1>4, <1>5, <1>6, <1>7 DEF Step, Advance, EndStep

\* Who seeds has just found no students, or goes on with it.
LEMMA SeedingGoesOn ==
    ASSUME Before, NEW a \in Actors, Step(a), Seeds(a)'
    PROVE  /\ UNCHANGED rows
           /\ \/ IsEmpty(a) /\ rows["students"] = {} /\ mine' = mine
              \/ Seeds(a) /\ mine'[a]["users"] = mine[a]["users"]
<1>1. TypeOK /\ Local(a) /\ Local(a)' /\ a \notin reset
  BY DEF Before, PlaceInv, NoReset
<1>2. ~Commit(a)
  <2> SUFFICES ASSUME Commit(a)
               PROVE  FALSE
    OBVIOUS
  <2>1. pc'[a] = "up" /\ mine'[a] = NoRows
    BY <1>1 DEF Commit, Go, Release, TypeOK
  <2>2. QED
    BY <2>1, TablesAre DEF Seeds, NoRows
<1>3. UNCHANGED rows
  BY <1>2, RowsGrow
<1>4. CASE pc'[a] \in {"students", "sessions", "events"}
  BY <1>1, <1>4, <1>3, WhoSeeds DEF Before, Seeds
<1>5. CASE pc'[a] = "commit"
  <2>1. CASE IsEmpty(a)
    <3>1. pc[a] = "empty" /\ mine' = mine
      BY <2>1 DEF IsEmpty
    <3>2. mine'[a]["students"] = {}
      BY <1>1, <3>1 DEF Local, MineFits
    <3>3. QED
      BY <1>5, <3>2 DEF Seeds
  <2>2. CASE SeedEvents(a)
    <3>1. pc[a] = "events" /\ mine'[a]["users"] = mine[a]["users"]
      BY <1>1, <2>2, TablesAre DEF SeedEvents, Put, TypeOK
    <3>2. QED
      BY <1>3, <3>1 DEF Seeds
  <2>3. QED
    BY <1>5, <2>1, <2>2, WhoCommits DEF Before
<1>6. CASE pc'[a] \notin {"students", "sessions", "events", "commit"}
  BY <1>1, <1>6 DEF Seeds, Local, MineFits
<1>7. QED
  BY <1>3, <1>4, <1>5, <1>6

\* Next to who seeds, nobody has written: in a file it is the writer, and on a
\* server the others would have to have other accounts.
LEMMA SeederIsAlone ==
    ASSUME PlaceInv, AloneInv, NoReset, NEW a \in Actors, NEW b \in Actors,
           a # b, Seeds(a)
    PROVE  mine[b]["users"] = {} /\ mine[b]["students"] = {} /\ ~Seeds(b)
<1>1. /\ KeysOf(mine[a]["users"]) = Names /\ Names # {} /\ Local(b)
      /\ Seeds(b) => KeysOf(mine[b]["users"]) = Names
  BY AccountsFacts DEF PlaceInv, AloneInv, SeederHasAccounts
<1>2. mine[b]["users"] = {}
  <2>1. CASE singleWriter
    <3>1. mine[a]["users"] # {}
      BY <1>1 DEF KeysOf
    <3>2. ~Pending(b)
      BY <2>1, <3>1, TablesAre DEF AloneInv, OneWriter, Pending
    <3>3. QED
      BY <3>2, TablesAre DEF Pending
  <2>2. CASE ~singleWriter
    <3>1. KeysOf(mine[a]["users"]) \cap KeysOf(mine[b]["users"]) = {}
      BY <2>2 DEF AloneInv, BareInFiles, UsersUnique, KeysApart
    <3>2. KeysOf(mine[b]["users"]) \subseteq Names
      BY <1>1 DEF Local, MineFits, KeysOf
    <3>3. KeysOf(mine[b]["users"]) = {}
      BY <1>1, <3>1, <3>2
    <3>4. QED
      BY <3>3 DEF KeysOf
  <2>3. QED
    BY <2>1, <2>2
<1>3. ~Seeds(b)
  BY <1>1, <1>2 DEF KeysOf
<1>4. QED
  BY <1>2, <1>3 DEF Seeds

LEMMA SeederStep ==
    ASSUME Before, NEW a \in Actors, Step(a), NEW b \in Actors, Seeds(b)'
    PROVE  KeysOf(mine'[b]["users"]) = Names /\ rows'["students"] = {}
<1>1. /\ Others(a) /\ TypeOK /\ Local(a)
      /\ SeederHasAccounts(b) /\ SeederIsFirst(b)
  BY OthersStay DEF Before, AloneInv, PlaceInv
<1>2. CASE b # a
  <2>1. Seeds(b) /\ mine'[b] = mine[b]
    BY <1>1, <1>2 DEF Others, Seeds
  <2>2. CASE UNCHANGED rows
    BY <1>1, <2>1, <2>2 DEF SeederHasAccounts, SeederIsFirst
  <2>3. CASE Commit(a)
    <3>1. mine[a]["students"] = {}
      BY <1>2, <2>1, SeederIsAlone DEF Before
    <3>2. rows'["students"] = rows["students"] \cup mine[a]["students"]
      BY <2>3, CommitAdds, TablesAre DEF Before
    <3>3. QED
      BY <1>1, <2>1, <3>1, <3>2 DEF SeederHasAccounts, SeederIsFirst
  <2>4. QED
    BY <2>2, <2>3, RowsGrow
<1>3. CASE b = a
  <2>1. UNCHANGED rows
    BY <1>3, SeedingGoesOn
  <2>2. CASE IsEmpty(a) /\ rows["students"] = {} /\ mine' = mine
    <3>1. pc[a] = "empty" /\ plan[a] = <<>>
      BY <1>1, <2>2 DEF IsEmpty, Local, PlanFits
    <3>2. rows["users"] = {}
      <4>1. ~Ready
        BY <2>2, TablesAre DEF Ready
      <4>2. QED
        BY <4>1, RowsMeanReady, TablesAre DEF Before
    <3>3. Covered(a)
      BY DEF Before, DataInv, Steady
    <3>4. Names \subseteq KeysOf(mine[a]["users"])
      <4>1. Names \ Elems(<<>>)
               \subseteq KeysOf(rows["users"] \cup mine[a]["users"])
        BY <3>1, <3>3 DEF Covered, InSession
      <4>2. rows["users"] \cup mine[a]["users"] = mine[a]["users"]
        BY <3>2
      <4>3. QED
        BY <4>1, <4>2, OrderFacts
    <3>5. KeysOf(mine[a]["users"]) \subseteq Names
      BY <1>1 DEF Local, MineFits, KeysOf
    <3>6. QED
      BY <1>3, <2>1, <2>2, <3>4, <3>5
  <2>3. CASE Seeds(a) /\ mine'[a]["users"] = mine[a]["users"]
    BY <1>1, <1>3, <2>1, <2>3 DEF SeederHasAccounts, SeederIsFirst
  <2>4. QED
    BY <1>3, <2>2, <2>3, SeedingGoesOn
<1>4. QED
  BY <1>2, <1>3

\* Whoever is waited for has less to go: no circle of waits can close.
LEMMA WaitsGoDown ==
    ASSUME PlaceInv, TableInv, AloneInv, NoReset, ~singleWriter,
           NEW a \in Actors, NEW b \in Actors, WaitsFor(a, b)
    PROVE  Len(plan[b]) < Len(plan[a]) /\ Len(plan[a]) \in Nat /\ Len(plan[b]) \in Nat
<1>1. /\ Local(a) /\ Local(b) /\ a # b /\ Handled(b)
      /\ SeederHasAccounts(a) /\ SeederHasAccounts(b)
      /\ gone[b] = {} /\ pc[a] # "drop"
  <2>1. pc[a] # "drop"
    BY DEF PlaceInv, Local, Holds, NoReset
  <2>2. QED
    BY <2>1 DEF PlaceInv, AloneInv, NothingGone, WaitsFor
<1>2. \/ pc[a] = "create" /\ plan[a] # <<>> /\ Target(a) \in new[b]
      \/ /\ pc[a] \in Inserts /\ Target(a) \in Unique
         /\ \E w \in mine[b][Target(a)] : w.key = KeyOf(a)
  BY <1>1 DEF WaitsFor
<1>3. CASE pc[a] = "create" /\ plan[a] # <<>> /\ Target(a) \in new[b]
  <2>1. pc[b] = "create"
    BY <1>1, <1>3 DEF Local, Holds
  <2>2. CreateFits(a) /\ CreateFits(b)
    BY DEF TableInv, ServerTables
  <2>3. /\ plan[a] \in Tails(Order) /\ plan[b] \in Tails(Order)
        /\ new[b] = Tables \ Elems(plan[b])
    BY <1>3, <2>1, <2>2 DEF CreateFits
  <2>4. Head(plan[a]) \notin Elems(plan[b])
    BY <1>3, <2>3 DEF Target
  <2>5. QED
    BY <1>3, <2>3, <2>4, OrderFacts, TailOrder
<1>4. CASE pc[a] = "add" /\ \E w \in mine[b]["users"] : w.key = Head(plan[a])
  <2>1. plan[a] \in Tails(Accounts) /\ plan[a] # <<>>
    BY <1>1, <1>4 DEF Local, PlanFits
  <2>2. Head(plan[a]) \in KeysOf(mine[b]["users"])
    BY <1>4 DEF KeysOf
  <2>3. plan[b] \in Tails(Accounts) /\ Head(plan[a]) \notin Elems(plan[b])
    <3>1. CASE pc[b] \in {"account", "add"}
      BY <1>1, <2>2, <3>1 DEF Local, PlanFits, Handled
    <3>2. CASE pc[b] \in InSession \ {"account", "add"}
      <4>1. plan[b] = <<>>
        BY <1>1, <3>2 DEF Local, PlanFits, InSession
      <4>2. QED
        BY <4>1, AccountsFacts, WholeAndNothing, OrderFacts
    <3>3. CASE pc[b] \notin InSession
      <4>1. mine[b]["users"] = {}
        BY <1>1, <3>3, TablesAre DEF Local, Holds, NoRows
      <4>2. QED
        BY <1>4, <4>1
    <3>4. QED
      BY <3>1, <3>2, <3>3
  <2>4. QED
    BY <2>1, <2>3, AccountsFacts, TailOrder
<1>5. CASE pc[a] = "students" /\ mine[b]["students"] # {}
  <2>1. KeysOf(mine[a]["users"]) = Names /\ KeysOf(mine[b]["users"]) = Names
    BY <1>1, <1>5 DEF SeederHasAccounts, Seeds
  <2>2. KeysOf(mine[a]["users"]) \cap KeysOf(mine[b]["users"]) = {}
    BY <1>1 DEF AloneInv, BareInFiles, UsersUnique, KeysApart
  <2>3. QED
    BY <2>1, <2>2, AccountsFacts
<1>6. pc[a] \in Inserts /\ Target(a) \in Unique =>
         \/ pc[a] = "add" /\ Target(a) = "users" /\ KeyOf(a) = Head(plan[a])
         \/ pc[a] = "students" /\ Target(a) = "students"
  BY DEF Inserts, Unique, Target, KeyOf
<1>7. QED
  BY <1>2, <1>3, <1>4, <1>5, <1>6

LEMMA NoCircle ==
    ASSUME PlaceInv, TableInv, AloneInv, NoReset, NEW a \in Actors
    PROVE  ~Deadlock(a)
<1> SUFFICES ASSUME ~singleWriter, InCircle(a)
             PROVE  FALSE
  BY DEF Deadlock
<1>1. PICK b \in Actors : /\ WaitsFor(a, b)
                          /\ \/ WaitsFor(b, a)
                             \/ \E c \in Actors : WaitsFor(b, c) /\ WaitsFor(c, a)
  BY DEF InCircle
<1>2. Len(plan[b]) < Len(plan[a]) /\ Len(plan[a]) \in Nat /\ Len(plan[b]) \in Nat
  BY <1>1, WaitsGoDown
<1>3. CASE WaitsFor(b, a)
  BY <1>2, <1>3, WaitsGoDown
<1>4. CASE \E c \in Actors : WaitsFor(b, c) /\ WaitsFor(c, a)
  <2>1. PICK c \in Actors : WaitsFor(b, c) /\ WaitsFor(c, a)
    BY <1>4
  <2>2. /\ Len(plan[c]) < Len(plan[b]) /\ Len(plan[c]) \in Nat
        /\ Len(plan[a]) < Len(plan[c])
    BY <2>1, WaitsGoDown
  <2>3. QED
    BY <1>2, <2>2
<1>5. QED
  BY <1>1, <1>3, <1>4

\* What a statement can fail with.
LEMMA ErrorsMean ==
    ASSUME Before, NEW a \in Actors
    PROVE  /\ ErrorOf(a) \in {"none", "exists", "unique", "multiple"}
           /\ ErrorOf(a) = "exists" =>
                 pc[a] = "create" /\ plan[a] # <<>> /\ Head(plan[a]) \in made
           /\ ErrorOf(a) \in {"unique", "multiple"} => Ready
<1>1. Local(a) /\ pc[a] # "drop" /\ TypeOK
  BY DEF Before, PlaceInv, Local, Holds, NoReset
<1>2. pc[a] \in Statements => Target(a) \in made
  <2>1. pc[a] \in Statements => pc[a] \in InSession
    BY DEF Statements, Inserts, InSession
  <2>2. pc[a] \in InSession => made = Tables
    BY DEF Before, TableInv, MadeAll
  <2>3. QED
    BY <1>1, <2>1, <2>2, StatementTables
<1>3. /\ pc[a] \in {"create", "index"} => Target(a) = Head(plan[a])
      /\ pc[a] = "index" => Target(a) \in made \cap bare
  BY DEF Target, Before, AloneInv, IndexFits
<1>4. /\ Target(a) \in Unique /\ rows[Target(a)] # {} => Ready
      /\ Doubled("users") # {} => Ready
  BY RowsMeanReady, TablesAre DEF Before, Unique, Doubled
<1>5. /\ (\E w \in rows[Target(a)] : w.key = KeyOf(a)) => rows[Target(a)] # {}
      /\ Doubled(Target(a)) # {} => rows[Target(a)] # {}
      /\ Head(plan[a]) \in Doubled("users") => Doubled("users") # {}
  BY DEF Doubled
<1>6. QED
  BY <1>1, <1>2, <1>3, <1>4, <1>5 DEF ErrorOf

\* How an actor comes by an error.
LEMMA WhoFails ==
    ASSUME Before, NEW a \in Actors, Step(a)
    PROVE  \/ error'[a] = error[a]
           \/ /\ Fail(a) /\ pc'[a] = "failed" /\ error'[a] = ErrorOf(a)
              /\ UNCHANGED <<tables, rows>>
           \/ LockTimeout(a) /\ pc'[a] = "failed" /\ error'[a] = "locked"
           \/ Crash(a) /\ pc'[a] = "dead" /\ error'[a] = "none"
<1>1. TypeOK
  BY DEF Before, PlaceInv
<1>2. CASE Crash(a) \/ Fail(a) \/ LockTimeout(a)
  BY <1>1, <1>2 DEF Crash, Fail, LockTimeout, Abandon, Go, TypeOK
<1>3. CASE SessionStep(a)
  BY <1>1, <1>3, SessionUses
<1>4. CASE Start(a) \/ Refuse(a) \/ LookDrop(a) \/ Look(a) \/ Drop(a) \/ Create(a)
           \/ Index(a) \/ SchemaDone(a) \/ NeedNotAsk(a) \/ Ask(a) \/ Commit(a)
  BY <1>4 DEF Start, Refuse, LookDrop, Look, Drop, Create, Index, SchemaDone, NeedNotAsk,
              Ask, Commit
<1>5. QED
  BY <1>2, <1>3, <1>4, NoCircle DEF Before, Step, Advance, SessionStep

LEMMA ErrorStep ==
    ASSUME Before, NEW a \in Actors, Step(a), NEW b \in Actors
    PROVE  ErrorFits(b)'
<1>1. Others(a) /\ ErrorFits(b)
  BY OthersStay DEF Before, AloneInv, PlaceInv
<1>2. CASE error'[b] = error[b]
  <2>1. /\ made \subseteq made' /\ \A t \in Tables : rows[t] \subseteq rows'[t]
    BY MadeGrows, RowsGrow DEF Before, Steady
  <2>2. Ready => Ready'
    BY <2>1, ReadyStays DEF Before
  <2>3. QED
    BY <1>1, <1>2, <2>1, <2>2 DEF ErrorFits
<1>3. CASE b = a /\ Fail(a) /\ error'[a] = ErrorOf(a) /\ UNCHANGED <<tables, rows>>
  <2>1. Ready' = Ready
    BY <1>3 DEF Ready
  <2>2. QED
    BY <1>3, <2>1, ErrorsMean DEF ErrorFits
<1>4. CASE b = a /\ error'[a] \in {"locked", "none"}
  BY <1>4 DEF ErrorFits
<1>5. QED
  BY <1>1, <1>2, <1>3, <1>4, WhoFails DEF Others

LEMMA SurviveStep ==
    ASSUME Before, NEW a \in Actors, Step(a), made' # {}
    PROVE  \E m \in Actors : Survives(m)'
<1>1. /\ Others(a) /\ TypeOK /\ gone[a] = {} /\ Local(a)
      /\ singleWriter \/ made \in {{}, Tables}
  BY OthersStay
     DEF Before, AloneInv, PlaceInv, NothingGone, TableInv, ServerTables
<1>2. CASE SchemaDone(a)
  BY <1>1, <1>2 DEF SchemaDone, Go, TypeOK, Survives, InSession
<1>3. CASE Create(a) /\ singleWriter
  <2>1. /\ pc'[a] = "index" /\ plan[a] \in Tails(Order) /\ plan[a] # <<>>
        /\ made' = Tables \ Elems(Ahead(a)') /\ Ahead(a)' = Tail(plan[a])
    BY <1>3, FileIsFilled DEF Before, Create
  <2>2. Elems(Tail(plan[a])) \subseteq Tables
    BY <2>1, TailOfTables
  <2>3. Elems(Ahead(a)') = Tables \ made'
    BY <2>1, <2>2
  <2>4. QED
    BY <2>1, <2>3 DEF Survives
<1>4. CASE ~SchemaDone(a) /\ ~(Create(a) /\ singleWriter)
  <2>1. made' = made
    <3>1. CASE EndStep(a)
      BY <1>1, <3>1, EndsEmptyHanded
    <3>2. CASE SessionStep(a)
      BY <1>1, <3>2, SessionUses
    <3>3. CASE Start(a) \/ Refuse(a) \/ LookDrop(a) \/ Look(a) \/ Create(a)
               \/ Index(a) \/ NeedNotAsk(a) \/ Ask(a) \/ Commit(a)
      BY <1>4, <3>3 DEF Start, Refuse, LookDrop, Look, Create, Index, NeedNotAsk, Ask, Commit
    <3>4. ~Drop(a)
      BY <1>1 DEF Drop, Local, Holds, Before, NoReset
    <3>5. QED
      BY <1>4, <3>1, <3>2, <3>3, <3>4 DEF Step, Advance, SessionStep, EndStep
  <2>2. PICK m \in Actors : Survives(m)
    BY <2>1 DEF Before, AloneInv, SomeSurvive
  <2>3. CASE m # a
    BY <1>1, <2>1, <2>2, <2>3 DEF Survives, Others, Ahead
  <2>4. CASE m = a
    <3>1. \/ pc[a] \in InSession
          \/ pc[a] = "index" /\ Elems(Ahead(a)) = Tables \ made
          \/ pc[a] = "create" /\ Elems(plan[a]) = Tables \ made
      BY <2>2, <2>4, EndedStay DEF Before, Survives, Ended, Ahead
    <3>2. CASE EndStep(a)
      <4>1. ErrorOf(a) # "exists"
        <5>1. CASE pc[a] \in InSession
          BY <5>1, ErrorsMean DEF InSession
        <5>2. CASE pc[a] = "create" /\ Elems(plan[a]) = Tables \ made /\ plan[a] # <<>>
          <6>1. plan[a] \in Seq(Tables)
            BY <1>1, <5>2 DEF Local, PlanFits
          <6>2. Head(plan[a]) \in Elems(plan[a])
            BY <5>2, <6>1, HeadOfPlan
          <6>3. QED
            BY <5>2, <6>2, ErrorsMean
        <5>3. QED
          BY <3>1, <5>1, <5>2, ErrorsMean
      <4>2. ~Deadlock(a)
        BY NoCircle DEF Before
      <4>3. pc'[a] = "dead" \/ (pc'[a] = "failed" /\ error'[a] # "exists")
        BY <1>1, <3>2, <4>1, <4>2
           DEF EndStep, Crash, Fail, LockTimeout, Abandon, Go, TypeOK
      <4>4. QED
        BY <4>3 DEF Survives
    <3>3. CASE pc'[a] \in InSession \cup {"up"}
      BY <3>3 DEF Survives
    <3>4. CASE SessionStep(a) \/ NeedNotAsk(a) \/ Ask(a) \/ Commit(a)
      <4>1. pc'[a] \in InSession \cup {"up"}
        BY <1>1, <3>4, SessionUses
           DEF NeedNotAsk, Ask, Commit, Go, TypeOK, InSession
      <4>2. QED
        BY <3>3, <4>1
    <3>5. ~Create(a)
      <4> SUFFICES ASSUME Create(a), ~singleWriter
                   PROVE  FALSE
        BY <1>4
      <4>1. pc[a] = "create" /\ plan[a] # <<>> /\ Elems(plan[a]) = {}
        BY <1>1, <2>1, <3>1 DEF Create, InSession
      <4>2. plan[a] \in Seq(Tables)
        BY <1>1, <4>1 DEF Local, PlanFits
      <4>3. QED
        BY <4>1, <4>2, HeadOfPlan
    <3>6. CASE Index(a)
      <4>1. pc[a] = "index" /\ pc'[a] = "create" /\ plan'[a] = Tail(plan[a])
        BY <1>1, <3>6 DEF Index, Go, Plan, TypeOK
      <4>2. Elems(Ahead(a)) = Tables \ made /\ Ahead(a)' = Ahead(a)
        BY <3>1, <4>1 DEF Ahead, InSession
      <4>3. QED
        BY <2>1, <4>1, <4>2 DEF Survives
    <3>7. ~(Start(a) \/ Refuse(a) \/ LookDrop(a) \/ Look(a) \/ Drop(a))
      BY <3>1, <1>1
         DEF Start, Refuse, LookDrop, Look, Drop, InSession, Local, Holds, Before,
             NoReset
    <3>8. QED
      BY <1>4, <3>2, <3>4, <3>5, <3>6, <3>7
         DEF Step, Advance, SessionStep, EndStep
  <2>5. QED
    BY <2>3, <2>4
<1>5. QED
  BY <1>2, <1>3, <1>4

LEMMA InitAlone == Init => AloneInv
<1> SUFFICES ASSUME Init
             PROVE  AloneInv
  OBVIOUS
<1>1. \A t \in Tables : rows[t] = {}
  BY DEF Init, NoRows
<1>2. \A a \in Actors : pc[a] = "off" /\ gone[a] = {} /\ error[a] = "none"
  BY DEF Init
<1>3. \A a \in Actors : mine[a]["users"] = {} /\ mine[a]["students"] = {}
  BY TablesAre DEF Init, NoRows
<1>4. NothingGone /\ RowsMeanUp /\ SomeSurvive
  BY <1>1, <1>2 DEF Init, NothingGone, RowsMeanUp, SomeSurvive
<1>5. UsersUnique
  BY <1>1, <1>3, TablesAre DEF UsersUnique, KeysApart, KeysOf, Doubled
<1>6. OneWriter /\ BareInFiles /\ IndexFits
  BY <1>2 DEF Init, OneWriter, Pending, NoRows, BareInFiles, IndexFits
<1>7. \A a \in Actors : /\ Handled(a) /\ SeederHasAccounts(a)
                        /\ SeederIsFirst(a) /\ ErrorFits(a)
  BY <1>2, <1>3 DEF Handled, SeederHasAccounts, SeederIsFirst, Seeds, ErrorFits
<1>8. QED
  BY <1>2, <1>4, <1>5, <1>6, <1>7 DEF AloneInv

LEMMA AloneStep ==
    PlaceInv /\ PlaceInv' /\ TableInv /\ DataInv /\ AloneInv /\ [Next]_vars => AloneInv'
<1> SUFFICES ASSUME Before, [Next]_vars
             PROVE  AloneInv'
  BY DEF Next, Advance, vars, setting, Before, AloneInv, NoReset
<1>1. CASE \E a \in Actors : Step(a)
  <2>1. PICK a \in Actors : Step(a)
    BY <1>1
  <2>2. NothingGone' /\ UsersUnique' /\ RowsMeanUp' /\ SomeSurvive'
    BY <2>1, NothingIsDropped, UniqueStep, RowsMeanUpStep, SurviveStep
       DEF SomeSurvive
  <2>3. OneWriter' /\ BareInFiles' /\ IndexFits'
    BY <2>1, WritersStep, BareStep
  <2>4. ASSUME NEW b \in Actors
        PROVE  /\ (pc[b] = "up" => Ready)' /\ Handled(b)'
               /\ SeederHasAccounts(b)' /\ SeederIsFirst(b)' /\ ErrorFits(b)'
    BY <2>1, UpStep, HandledStep, SeederStep, ErrorStep
       DEF SeederHasAccounts, SeederIsFirst
  <2>5. QED
    BY <2>2, <2>3, <2>4 DEF AloneInv
<1>2. CASE Write
  <2>1. /\ UNCHANGED <<pc, plan, tables, mine, used, new, gone, error>>
        /\ \A t \in Tables \ {"students"} : rows'[t] = rows[t]
        /\ \E s \in Starters : pc[s] = "up"
        /\ \A t \in Tables : rows[t] \subseteq rows'[t]
    BY <1>2, WriteAdds DEF Before
  <2>2. Ready => Ready'
    BY <2>1, ReadyStays DEF Before
  <2>3. RowsMeanUp'
    BY <2>1 DEF RowsMeanUp, Actors
  <2>4. UsersUnique' /\ OneWriter' /\ BareInFiles' /\ IndexFits'
    <3>1. UsersUnique'
      <4>1. UsersUnique /\ rows'["users"] = rows["users"] /\ mine' = mine
            /\ bare' = bare
        BY <2>1, TablesAre DEF Before, AloneInv
      <4>2. Doubled("users")' = Doubled("users")
        BY <4>1 DEF Doubled
      <4>3. KeysApart => KeysApart'
        BY <4>1 DEF KeysApart
      <4>4. QED
        BY <4>1, <4>2, <4>3 DEF UsersUnique
    <3>2. OneWriter' /\ BareInFiles' /\ IndexFits'
      <4>1. UNCHANGED setting
        BY DEF Next, Advance, vars
      <4>2. QED
        BY <2>1, <4>1 DEF setting, Before, AloneInv, OneWriter, Pending,
                          BareInFiles, IndexFits
    <3>3. QED
      BY <3>1, <3>2
  <2>5. \A a \in Actors : /\ Handled(a)' /\ SeederHasAccounts(a)'
                          /\ SeederIsFirst(a)' /\ ErrorFits(a)'
    <3>1. \A a \in Actors : ~Seeds(a)
      <4>1. rows["students"] # {}
        BY <2>1, TablesAre DEF Before, AloneInv, Ready, Actors
      <4>2. QED
        BY <4>1 DEF Before, AloneInv, SeederIsFirst
    <3>2. QED
      BY <2>1, <2>2, <3>1
         DEF Before, AloneInv, Handled, SeederHasAccounts, SeederIsFirst, Seeds,
             ErrorFits
  <2>6. NothingGone' /\ SomeSurvive'
    BY <2>1 DEF Before, AloneInv, NothingGone, SomeSurvive, Survives, Ahead
  <2>7. QED
    BY <2>1, <2>2, <2>3, <2>4, <2>5, <2>6 DEF Before, AloneInv
<1>3. CASE UNCHANGED vars
  <2>1. UNCHANGED <<setting, pc, plan, made, bare, rows, mine, gone, error>>
    BY <1>3 DEF vars, own
  <2>2. /\ NothingGone' /\ UsersUnique' /\ OneWriter' /\ BareInFiles'
        /\ IndexFits' /\ RowsMeanUp' /\ SomeSurvive'
    BY <2>1 DEF setting, Before, AloneInv, NothingGone, UsersUnique, KeysApart,
       Doubled, OneWriter, Pending, BareInFiles, IndexFits, RowsMeanUp,
       SomeSurvive, Survives, Ahead
  <2>3. \A a \in Actors : /\ (pc[a] = "up" => Ready)' /\ Handled(a)'
                          /\ SeederHasAccounts(a)' /\ SeederIsFirst(a)'
                          /\ ErrorFits(a)'
    BY <2>1 DEF Before, AloneInv, Handled, SeederHasAccounts, SeederIsFirst,
       Seeds, ErrorFits, Ready
  <2>4. QED
    BY <2>2, <2>3 DEF AloneInv
<1>4. QED
  BY <1>1, <1>2, <1>3, NextIs

THEOREM AloneStands == Spec => []AloneInv
<1>1. QED
  BY WhereActorsAre, TablesStand, DataStand, InitAlone, AloneStep, PTL DEF Spec

\* Without a --reset, a process is only up over a database that is ready.
THEOREM UpIsReady == Spec => []UpMeansReady
<1>1. AloneInv => UpMeansReady
  BY DEF AloneInv, UpMeansReady
<1>2. QED
  BY AloneStands, <1>1, PTL

\* Without a --reset, no circle of waits comes about, on either database.
THEOREM NobodyDeadlocks == Spec => []NoDeadlock
<1>1. AloneInv => NoDeadlock
  BY DEF AloneInv, NoDeadlock, ErrorFits
<1>2. QED
  BY AloneStands, <1>1, PTL

\* Without a --reset, a start fails on a unique column, or on an account that
\* is there twice, only where another has got everything done, and not every
\* start fails by another's doing.
THEOREM LosersFindItDone == Spec => []LoserFindsItDone
<1>1. AloneInv /\ PlaceInv => LoserFindsItDone
  <2> SUFFICES ASSUME AloneInv, PlaceInv, NoReset,
                      \A a \in Actors :
                         pc[a] = "failed" /\ error[a] \notin {"none", "locked"}
               PROVE  FALSE
    BY DEF AloneInv, ErrorFits, LoserFindsItDone
  <2>1. \A a \in Actors : error[a] \in {"exists", "unique", "multiple"}
    BY DEF PlaceInv, TypeOK, Errors, AloneInv, ErrorFits
  <2>2. ~Ready
    <3>1. \A t \in Tables : rows[t] = {}
      BY DEF AloneInv, RowsMeanUp
    <3>2. QED
      BY <3>1, TablesAre DEF Ready
  <2>3. \A a \in Actors : error[a] = "exists"
    BY <2>1, <2>2 DEF AloneInv, ErrorFits
  <2>4. made # {}
    BY <2>3, BootstrapAssumption DEF AloneInv, ErrorFits, Actors
  <2>5. \E a \in Actors : Survives(a)
    BY <2>4 DEF AloneInv, SomeSurvive
  <2>6. QED
    BY <2>3, <2>5 DEF Survives, InSession
<1>2. QED
  BY AloneStands, WhereActorsAre, <1>1, PTL

\* Without a --reset, the data are seeded at most once, however many seeders
\* run at once, and an account has one row once the index of its table is
\* there.
THEOREM SeedingHappensOnce == Spec => []SeededOnce
<1>1. Init => SeededOnce
  BY TablesAre DEF Init, NoRows, SeededOnce, Seeded, Doubled
<1>2. ASSUME Before, AloneInv', SeededOnce, [Next]_vars
      PROVE  \A v, w \in Seeded("students")' : v = w
  <2>1. \A v, w \in Seeded("students") : v = w
    BY <1>2 DEF Before, SeededOnce
  <2>2. CASE \E a \in Actors : Commit(a)
    <3>1. PICK a \in Actors : Commit(a)
      BY <2>2
    <3>2. /\ rows'["students"] = rows["students"] \cup mine[a]["students"]
          /\ mine[a]["students"] \in {{}, {Own(a)}}
      BY <1>2, <3>1, CommitAdds, TablesAre DEF Before
    <3>3. mine[a]["students"] = {} \/ rows["students"] = {}
      BY <1>2 DEF Before, AloneInv, SeederIsFirst, Seeds
    <3>4. QED
      BY <2>1, <3>2, <3>3 DEF Seeded
  <2>3. CASE Write
    <3>1. rows'["students"] =
             rows["students"] \cup {[by |-> Client, key |-> Client]}
      BY <1>2, <2>3, WriteAdds, TablesAre DEF Before
    <3>2. QED
      BY <2>1, <3>1 DEF Seeded
  <2>4. CASE UNCHANGED rows
    BY <2>1, <2>4 DEF Seeded
  <2>5. QED
    BY <1>2, <2>2, <2>3, <2>4, NextIs, RowsGrow DEF vars
<1>3. /\ PlaceInv /\ PlaceInv' /\ TableInv /\ DataInv /\ AloneInv /\ AloneInv'
      /\ SeededOnce /\ [Next]_vars
      => SeededOnce'
  <2> SUFFICES ASSUME PlaceInv, PlaceInv', TableInv, DataInv, AloneInv,
                      AloneInv', SeededOnce, [Next]_vars, NoReset'
               PROVE  /\ \A v, w \in Seeded("students")' : v = w
                      /\ "users" \notin bare' => Doubled("users")' = {}
    BY DEF SeededOnce
  <2>1. NoReset
    BY DEF Next, Advance, vars, setting, NoReset
  <2>2. UsersUnique'
    BY DEF AloneInv
  <2>3. QED
    BY <1>2, <2>1, <2>2 DEF Before, UsersUnique
<1>4. QED
  BY <1>1, <1>3, WhereActorsAre, TablesStand, DataStand, AloneStands, PTL DEF Spec
=============================================================================
