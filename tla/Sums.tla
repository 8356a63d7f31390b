-------------------------------- MODULE Sums --------------------------------
(***************************************************************************)
(* What the sums of the model (MapThenSumSet) are: the facts about sums     *)
(* over finite sets that the proofs about scores and means rest on.  A      *)
(* recursive function is got at through the smallest set that would         *)
(* contradict the claim.                                                    *)
(***************************************************************************)
EXTENDS Integers, FiniteSets, FiniteSetTheorems, WellFoundedInduction, TLAPS

\* The element that MapThenSumSet takes next.
Chosen(s) == CHOOSE x \in s : TRUE

\* g gives the sums of f over the subsets of S.
SumsUp(g, f, S) ==
    g = [s \in SUBSET S |->
            IF s = {} THEN 0 ELSE f[Chosen(s)] + g[s \ {Chosen(s)}]]

Total(f, S) == (CHOOSE g : SumsUp(g, f, S))[S]

\* Of a collection of subsets of a finite set, one has no other below it.
LEMMA SmallestOf ==
    ASSUME NEW S, IsFiniteSet(S), NEW C \in SUBSET SUBSET S, C # {}
    PROVE  \E T \in C : \A U \in C : U \subseteq T => U = T
<1>1. FiniteSubsetsOf(S) = SUBSET S
  BY FS_FiniteSubsetsOfFinite
<1>2. IsWellFoundedOn(StrictSubsetOrdering(S), SUBSET S)
  BY <1>1, FS_StrictSubsetOrderingWellFounded
<1>3. PICK T \in C : \A U \in C : ~ (<<U, T>> \in StrictSubsetOrdering(S))
  BY <1>2, WFMin
<1>4. \A U \in C : U \subseteq T => U = T
  BY <1>3 DEF StrictSubsetOrdering
<1>5. QED
  BY <1>4

LEMMA ChosenIsIn ==
    ASSUME NEW S, S # {}
    PROVE  Chosen(S) \in S /\ S \ {Chosen(S)} \subseteq S /\ S \ {Chosen(S)} # S
BY DEF Chosen

LEMMA SumsAt ==
    ASSUME NEW S, NEW f, NEW g, SumsUp(g, f, S), NEW s \in SUBSET S
    PROVE  g[s] = IF s = {} THEN 0 ELSE f[Chosen(s)] + g[s \ {Chosen(s)}]
BY DEF SumsUp

\* Functions that agree on a set have the same sums there.
LEMMA SumsAgree ==
    ASSUME NEW S, IsFiniteSet(S), NEW f, NEW h, \A x \in S : f[x] = h[x],
           NEW g, SumsUp(g, f, S), NEW k, SumsUp(k, h, S), NEW s \in SUBSET S
    PROVE  g[s] = k[s]
<1> DEFINE C == {u \in SUBSET S : g[u] # k[u]}
<1>1. ASSUME C # {}
      PROVE  FALSE
  <2>1. PICK T \in C : \A U \in C : U \subseteq T => U = T
    <3>1. C \in SUBSET SUBSET S
      OBVIOUS
    <3> HIDE DEF C
    <3>2. QED
      BY <1>1, <3>1, SmallestOf
  <2>2. T \in SUBSET S /\ g[T] # k[T]
    BY <2>1
  <2>3. g[{}] = 0 /\ k[{}] = 0
    BY SumsAt
  <2>4. T # {}
    BY <2>2, <2>3
  <2> DEFINE p == Chosen(T)
             U == T \ {p}
  <2>5. p \in T /\ U \subseteq T /\ U # T
    BY <2>4, ChosenIsIn
  <2>6. U \in SUBSET S /\ U \notin C
    BY <2>1, <2>2, <2>5
  <2>7. g[U] = k[U]
    BY <2>6
  <2>8. g[T] = f[p] + g[U] /\ k[T] = h[p] + k[U]
    BY <2>2, <2>4, SumsAt
  <2>9. f[p] = h[p]
    BY <2>2, <2>5
  <2>10. QED
    BY <2>2, <2>7, <2>8, <2>9
<1>2. QED
  BY <1>1

LEMMA SumsOfPart ==
    ASSUME NEW S, NEW f, NEW g, SumsUp(g, f, S), NEW T \in SUBSET S
    PROVE  SumsUp([s \in SUBSET T |-> g[s]], f, T)
<1> DEFINE k == [s \in SUBSET T |-> g[s]]
<1>1. ASSUME NEW s \in SUBSET T
      PROVE  k[s] = IF s = {} THEN 0 ELSE f[Chosen(s)] + k[s \ {Chosen(s)}]
  <2>1. s \in SUBSET S /\ s \ {Chosen(s)} \in SUBSET T
    OBVIOUS
  <2>2. g[s] = IF s = {} THEN 0 ELSE f[Chosen(s)] + g[s \ {Chosen(s)}]
    BY <2>1, SumsAt
  <2>3. QED
    BY <2>1, <2>2
<1>2. QED
  BY <1>1 DEF SumsUp

LEMMA SumsExist ==
    ASSUME NEW S, IsFiniteSet(S), NEW f
    PROVE  \E g : SumsUp(g, f, S)
<1> DEFINE C == {u \in SUBSET S : ~\E g : SumsUp(g, f, u)}
<1>1. ASSUME C # {}
      PROVE  FALSE
  <2>1. PICK T \in C : \A U \in C : U \subseteq T => U = T
    <3>1. C \in SUBSET SUBSET S
      OBVIOUS
    <3> HIDE DEF C
    <3>2. QED
      BY <1>1, <3>1, SmallestOf
  <2>2. T \in SUBSET S /\ IsFiniteSet(T) /\ ~\E g : SumsUp(g, f, T)
    BY <2>1, FS_Subset
  <2> DEFINE Of(s) == CHOOSE g : SumsUp(g, f, s)
             At(s) == Of(s)[s]
             g == [s \in SUBSET T |-> IF s = {} THEN 0
                                      ELSE f[Chosen(s)] + At(s \ {Chosen(s)})]
  <2>3. ASSUME NEW s \in SUBSET T, s # T
        PROVE  SumsUp(Of(s), f, s)
    <3>1. s \in SUBSET S /\ s \notin C
      BY <2>1, <2>2, <2>3
    <3>2. \E k : SumsUp(k, f, s)
      BY <3>1
    <3>3. QED
      BY <3>2
  <2>4. ASSUME NEW s \in SUBSET T, s # T
        PROVE  At(s) = g[s]
    <3>1. SumsUp(Of(s), f, s)
      BY <2>3, <2>4
    <3>2. CASE s = {}
      <4>1. At(s) = 0
        BY <3>1, <3>2, SumsAt
      <4>2. QED
        BY <3>2, <4>1
    <3>3. CASE s # {}
      <4> DEFINE u == s \ {Chosen(s)}
      <4>1. u \in SUBSET T /\ u \in SUBSET s /\ u # T /\ IsFiniteSet(u)
        BY <2>2, <2>4, <3>3, FS_Subset
      <4>2. SumsUp(Of(u), f, u)
        BY <2>3, <4>1
      <4>3. SumsUp([x \in SUBSET u |-> Of(s)[x]], f, u)
        <5> HIDE DEF Of, u
        <5>1. QED
          BY <3>1, <4>1, SumsOfPart
      <4>4. Of(u)[u] = [x \in SUBSET u |-> Of(s)[x]][u]
        <5> HIDE DEF Of, u
        <5>1. u \in SUBSET u
          OBVIOUS
        <5>2. QED
          BY <4>1, <4>2, <4>3, <5>1, SumsAgree
      <4>5. At(u) = Of(s)[u]
        BY <4>4
      <4>6. At(s) = f[Chosen(s)] + Of(s)[u]
        <5>1. s \in SUBSET s
          OBVIOUS
        <5> HIDE DEF Of
        <5>2. Of(s)[s] = IF s = {} THEN 0 ELSE f[Chosen(s)] + Of(s)[s \ {Chosen(s)}]
          BY <3>1, <5>1, SumsAt
        <5>3. QED
          BY <3>3, <5>2
      <4>7. g[s] = f[Chosen(s)] + At(u)
        BY <3>3
      <4>8. QED
        BY <4>5, <4>6, <4>7
    <3>4. QED
      BY <3>2, <3>3
  <2>5. ASSUME NEW s \in SUBSET T
        PROVE  g[s] = IF s = {} THEN 0 ELSE f[Chosen(s)] + g[s \ {Chosen(s)}]
    <3>1. CASE s = {}
      BY <3>1
    <3>2. CASE s # {}
      <4>1. s \ {Chosen(s)} \in SUBSET T /\ s \ {Chosen(s)} # T
        BY <3>2, ChosenIsIn
      <4>2. At(s \ {Chosen(s)}) = g[s \ {Chosen(s)}]
        <5> HIDE DEF At, g
        <5>1. QED
          BY <2>4, <4>1
      <4>3. g[s] = f[Chosen(s)] + At(s \ {Chosen(s)})
        <5> HIDE DEF At
        <5>1. QED
          BY <3>2
      <4> HIDE DEF At, g
      <4>4. QED
        BY <3>2, <4>2, <4>3
    <3>3. QED
      BY <3>1, <3>2
  <2>6. g = [s \in SUBSET T |-> IF s = {} THEN 0
                                ELSE f[Chosen(s)] + g[s \ {Chosen(s)}]]
    <3>1. g = [s \in SUBSET T |-> g[s]]
      <4> HIDE DEF At
      <4>1. QED
        OBVIOUS
    <3> HIDE DEF g
    <3>2. QED
      BY <2>5, <3>1
  <2>7. SumsUp(g, f, T)
    <3> HIDE DEF g
    <3>1. QED
      BY <2>6 DEF SumsUp
  <2>8. QED
    BY <2>2, <2>7
<1>2. CASE C = {}
  BY <1>2
<1>3. QED
  BY <1>1, <1>2

\* Any function that sums up f does so as Total does.
LEMMA TotalIs ==
    ASSUME NEW S, IsFiniteSet(S), NEW f, NEW g, SumsUp(g, f, S)
    PROVE  \A T \in SUBSET S : Total(f, T) = g[T]
<1> SUFFICES ASSUME NEW T \in SUBSET S
             PROVE  Total(f, T) = g[T]
  OBVIOUS
<1> DEFINE k == CHOOSE k : SumsUp(k, f, T)
           h == [s \in SUBSET T |-> g[s]]
<1>1. IsFiniteSet(T)
  BY FS_Subset
<1>2. SumsUp(k, f, T)
  BY <1>1, SumsExist
<1>3. SumsUp(h, f, T)
  BY SumsOfPart
<1>4. h[T] = g[T]
  OBVIOUS
<1>5. Total(f, T) = k[T]
  BY DEF Total
<1> HIDE DEF k, h
<1>6. k[T] = h[T]
  BY <1>1, <1>2, <1>3, SumsAgree
<1>7. QED
  BY <1>4, <1>5, <1>6

LEMMA TotalOfNone == ASSUME NEW f PROVE Total(f, {}) = 0
<1>1. PICK g : SumsUp(g, f, {})
  BY SumsExist, FS_EmptySet
<1>2. Total(f, {}) = g[{}]
  BY <1>1, TotalIs, FS_EmptySet
<1>3. QED
  BY <1>1, <1>2, SumsAt

LEMMA TotalOfSome ==
    ASSUME NEW S, IsFiniteSet(S), S # {}, NEW f
    PROVE  Total(f, S) = f[Chosen(S)] + Total(f, S \ {Chosen(S)})
<1>1. PICK g : SumsUp(g, f, S)
  BY SumsExist
<1>2. Total(f, S) = g[S] /\ Total(f, S \ {Chosen(S)}) = g[S \ {Chosen(S)}]
  BY <1>1, TotalIs
<1>3. QED
  BY <1>1, <1>2, SumsAt

\* A sum depends on the values summed up, and is of their kind.
LEMMA TotalSame ==
    ASSUME NEW S, IsFiniteSet(S), NEW f, NEW h, \A x \in S : f[x] = h[x]
    PROVE  Total(f, S) = Total(h, S)
<1>1. PICK g : SumsUp(g, f, S)
  BY SumsExist
<1>2. PICK k : SumsUp(k, h, S)
  BY SumsExist
<1>3. Total(f, S) = g[S] /\ Total(h, S) = k[S]
  BY <1>1, <1>2, TotalIs
<1>4. QED
  BY <1>1, <1>2, <1>3, SumsAgree

LEMMA TotalType ==
    ASSUME NEW S, IsFiniteSet(S), NEW f, NEW N \in {Nat, Int},
           \A x \in S : f[x] \in N
    PROVE  Total(f, S) \in N
<1> DEFINE C == {u \in SUBSET S : Total(f, u) \notin N}
<1>1. ASSUME C # {}
      PROVE  FALSE
  <2>1. PICK T \in C : \A U \in C : U \subseteq T => U = T
    <3>1. C \in SUBSET SUBSET S
      OBVIOUS
    <3> HIDE DEF C
    <3>2. QED
      BY <1>1, <3>1, SmallestOf
  <2>2. T \in SUBSET S /\ IsFiniteSet(T) /\ Total(f, T) \notin N
    BY <2>1, FS_Subset
  <2>3. T # {}
    BY <2>2, TotalOfNone
  <2> DEFINE U == T \ {Chosen(T)}
  <2>4. Chosen(T) \in T /\ U \in SUBSET S /\ U \subseteq T /\ U # T
    BY <2>2, <2>3, ChosenIsIn
  <2>5. Total(f, U) \in N
    BY <2>1, <2>4
  <2>6. Total(f, T) = f[Chosen(T)] + Total(f, U)
    BY <2>2, <2>3, TotalOfSome
  <2>7. f[Chosen(T)] \in N
    BY <2>2, <2>4
  <2> HIDE DEF U, C
  <2>8. QED
    BY <2>2, <2>5, <2>6, <2>7
<1>2. QED
  BY <1>1

\* Any element may be taken first.
LEMMA TotalRemove ==
    ASSUME NEW S, IsFiniteSet(S), NEW f, \A x \in S : f[x] \in Int, NEW y \in S
    PROVE  Total(f, S) = f[y] + Total(f, S \ {y})
<1> DEFINE C == {u \in SUBSET S :
                    \E x \in u : Total(f, u) # f[x] + Total(f, u \ {x})}
<1>1. ASSUME C # {}
      PROVE  FALSE
  <2>1. PICK T \in C : \A U \in C : U \subseteq T => U = T
    <3>1. C \in SUBSET SUBSET S
      OBVIOUS
    <3> HIDE DEF C
    <3>2. QED
      BY <1>1, <3>1, SmallestOf
  <2>2. T \in SUBSET S
    BY <2>1
  <2>3. PICK x \in T : Total(f, T) # f[x] + Total(f, T \ {x})
    BY <2>1
  <2> DEFINE p == Chosen(T)
             V == (T \ {p}) \ {x}
  <2>4. p \in T /\ T # {} /\ IsFiniteSet(T) /\ IsFiniteSet(T \ {x})
    BY <2>2, <2>3, ChosenIsIn, FS_Subset
  <2>5. Total(f, T) = f[p] + Total(f, T \ {p})
    BY <2>4, TotalOfSome
  <2>6. p # x
    BY <2>3, <2>5
  <2>7. Total(f, T \ {p}) = f[x] + Total(f, V)
    <3>1. T \ {p} \in SUBSET S /\ T \ {p} \notin C
      BY <2>1, <2>2, <2>4
    <3>2. QED
      BY <2>3, <2>6, <3>1
  <2>8. Total(f, T \ {x}) = f[p] + Total(f, V)
    <3>1. T \ {x} \in SUBSET S /\ T \ {x} \notin C
      BY <2>1, <2>2, <2>3
    <3>2. (T \ {x}) \ {p} = V
      OBVIOUS
    <3>3. QED
      BY <2>4, <2>6, <3>1, <3>2
  <2>9. f[p] \in Int /\ f[x] \in Int /\ Total(f, V) \in Int
    <3>1. V \in SUBSET S /\ IsFiniteSet(V)
      BY <2>2, FS_Subset
    <3> HIDE DEF V
    <3>2. QED
      BY <2>2, <2>3, <2>4, <3>1, TotalType
  <2> HIDE DEF V, p, C
  <2>10. QED
    BY <2>3, <2>5, <2>7, <2>8, <2>9
<1>2. QED
  BY <1>1

LEMMA TotalAdd ==
    ASSUME NEW S, IsFiniteSet(S), NEW y, y \notin S, NEW f,
           \A x \in S \cup {y} : f[x] \in Int
    PROVE  Total(f, S \cup {y}) = f[y] + Total(f, S)
<1>1. IsFiniteSet(S \cup {y}) /\ y \in S \cup {y} /\ (S \cup {y}) \ {y} = S
  BY FS_AddElement
<1>2. QED
  BY <1>1, TotalRemove

\* A sum of positive numbers is positive.
LEMMA TotalPositive ==
    ASSUME NEW S, IsFiniteSet(S), S # {}, NEW f, \A x \in S : f[x] \in Nat \ {0}
    PROVE  Total(f, S) \in Nat \ {0}
<1> DEFINE y == Chosen(S)
<1>1. y \in S /\ IsFiniteSet(S \ {y})
  BY ChosenIsIn, FS_Subset
<1>2. Total(f, S) = f[y] + Total(f, S \ {y})
  BY TotalOfSome
<1>3. Total(f, S \ {y}) \in Nat
  BY <1>1, TotalType
<1> HIDE DEF y
<1>4. QED
  BY <1>1, <1>2, <1>3

\* Sums keep the order of their terms.
LEMMA TotalAtMost ==
    ASSUME NEW S, IsFiniteSet(S), NEW f, NEW h, NEW k \in Nat,
           \A x \in S : f[x] \in Int /\ h[x] \in Int /\ f[x] <= k * h[x]
    PROVE  Total(f, S) <= k * Total(h, S)
<1> DEFINE C == {u \in SUBSET S : ~(Total(f, u) <= k * Total(h, u))}
<1>1. ASSUME C # {}
      PROVE  FALSE
  <2>1. PICK T \in C : \A U \in C : U \subseteq T => U = T
    <3>1. C \in SUBSET SUBSET S
      OBVIOUS
    <3> HIDE DEF C
    <3>2. QED
      BY <1>1, <3>1, SmallestOf
  <2>2. T \in SUBSET S /\ IsFiniteSet(T) /\ ~(Total(f, T) <= k * Total(h, T))
    BY <2>1, FS_Subset
  <2>3. T # {}
    <3>1. Total(f, {}) = 0 /\ Total(h, {}) = 0
      BY TotalOfNone
    <3>2. QED
      BY <2>2, <3>1
  <2> DEFINE p == Chosen(T)
             U == T \ {p}
  <2>4. p \in T /\ U \in SUBSET S /\ U \subseteq T /\ U # T /\ IsFiniteSet(U)
    BY <2>2, <2>3, ChosenIsIn, FS_Subset
  <2>5. Total(f, U) <= k * Total(h, U)
    BY <2>1, <2>4
  <2>6. Total(f, T) = f[p] + Total(f, U) /\ Total(h, T) = h[p] + Total(h, U)
    BY <2>2, <2>3, TotalOfSome
  <2>7. f[p] \in Int /\ h[p] \in Int /\ f[p] <= k * h[p]
    BY <2>2, <2>4
  <2>8. Total(f, U) \in Int /\ Total(h, U) \in Int
    BY <2>4, TotalType
  <2> DEFINE a == f[p]
             b == h[p]
             c == Total(f, U)
             d == Total(h, U)
  <2>9. a \in Int /\ b \in Int /\ c \in Int /\ d \in Int
        /\ a <= k * b /\ c <= k * d
    BY <2>5, <2>7, <2>8
  <2>10. ~(a + c <= k * (b + d))
    BY <2>2, <2>6
  <2> HIDE DEF a, b, c, d
  <2>11. k * (b + d) = k * b + k * d /\ k * b \in Int /\ k * d \in Int
    BY <2>9
  <2>12. QED
    BY <2>9, <2>10, <2>11
<1>2. QED
  BY <1>1

\* A finite set in a total order has a greatest element.
LEMMA LastOf ==
    ASSUME NEW S, IsFiniteSet(S), S # {}, NEW le,
           \A x \in S, y \in S : <<x, y>> \in le \/ <<y, x>> \in le,
           \A x \in S, y \in S, z \in S :
               <<x, y>> \in le /\ <<y, z>> \in le => <<x, z>> \in le
    PROVE  \E m \in S : \A y \in S : <<y, m>> \in le
<1> DEFINE C == {u \in SUBSET S : u # {} /\ ~\E m \in u : \A y \in u : <<y, m>> \in le}
<1>1. ASSUME C # {}
      PROVE  FALSE
  <2>1. PICK T \in C : \A U \in C : U \subseteq T => U = T
    <3>1. C \in SUBSET SUBSET S
      OBVIOUS
    <3> HIDE DEF C
    <3>2. QED
      BY <1>1, <3>1, SmallestOf
  <2>2. T \in SUBSET S /\ T # {} /\ ~\E m \in T : \A y \in T : <<y, m>> \in le
    BY <2>1
  <2>3. PICK x \in T : TRUE
    BY <2>2
  <2> DEFINE U == T \ {x}
  <2>4. CASE U = {}
    <3>1. \A y \in T : y = x
      BY <2>4
    <3>2. <<x, x>> \in le
      BY <2>2, <2>3
    <3>3. QED
      BY <2>2, <2>3, <3>1, <3>2
  <2>5. CASE U # {}
    <3>1. U \in SUBSET S /\ U \notin C
      <4>1. U \in SUBSET S /\ U \subseteq T /\ U # T
        BY <2>2, <2>3
      <4> HIDE DEF U, C
      <4>2. QED
        BY <2>1, <4>1
    <3>2. PICK m \in U : \A y \in U : <<y, m>> \in le
      BY <2>5, <3>1
    <3>3. x \in S /\ m \in S /\ m \in T /\ <<x, x>> \in le
      BY <2>2, <2>3, <3>2
    <3>4. CASE <<x, m>> \in le
      BY <2>2, <3>2, <3>3, <3>4
    <3>5. CASE <<m, x>> \in le
      <4>1. ASSUME NEW y \in T
            PROVE  <<y, x>> \in le
        <5>1. y = x \/ y \in U
          OBVIOUS
        <5>2. QED
          BY <2>2, <3>2, <3>3, <3>5, <4>1, <5>1
      <4>2. QED
        BY <2>2, <2>3, <4>1
    <3>6. QED
      BY <3>3, <3>4, <3>5
  <2>6. QED
    BY <2>4, <2>5
<1>2. QED
  BY <1>1

\* A finite set of numbers has a greatest.
LEMMA GreatestOf ==
    ASSUME NEW S \in SUBSET Int, IsFiniteSet(S), S # {}
    PROVE  \E m \in S : \A y \in S : m >= y
<1> DEFINE le == {p \in S \X S : p[1] <= p[2]}
<1>1. \A x \in S, y \in S : <<x, y>> \in le <=> x <= y
  OBVIOUS
<1> HIDE DEF le
<1>2. \A x \in S, y \in S : <<x, y>> \in le \/ <<y, x>> \in le
  <2>1. \A x \in S, y \in S : x <= y \/ y <= x
    OBVIOUS
  <2>2. QED
    BY <1>1, <2>1, Zenon
<1>3. \A x \in S, y \in S, z \in S :
          <<x, y>> \in le /\ <<y, z>> \in le => <<x, z>> \in le
  <2>1. \A x \in S, y \in S, z \in S : x <= y /\ y <= z => x <= z
    OBVIOUS
  <2>2. QED
    BY <1>1, <2>1, Zenon
<1>4. IsFiniteSet(S) /\ S # {}
  OBVIOUS
<1>5. PICK m \in S : \A y \in S : <<y, m>> \in le
  BY <1>2, <1>3, <1>4, LastOf, Zenon
<1>6. QED
  BY <1>1, <1>5
-----------------------------------------------------------------------------
\* Quotients

LEMMA Division ==
    ASSUME NEW a \in Int, NEW k \in Nat \ {0}
    PROVE  /\ a \div k \in Int
           /\ k * (a \div k) <= a /\ a < k * (a \div k) + k
OBVIOUS

\* A product grows with what is multiplied.
LEMMA TimesGrows ==
    ASSUME NEW x \in Int, NEW y \in Int, NEW k \in Nat, x <= y
    PROVE  k * x <= k * y /\ k * x \in Int /\ k * y \in Int
OBVIOUS

\* A quotient is the largest number of times that k goes into a.
LEMMA LargestQuotient ==
    ASSUME NEW a \in Int, NEW k \in Nat \ {0}, NEW n \in Int
    PROVE  k * n <= a <=> n <= a \div k
<1> DEFINE q == a \div k
<1>1. q \in Int /\ k * q <= a /\ a < k * q + k
  BY Division
<1> HIDE DEF q
<1>2. k * q \in Int /\ k * n \in Int
  BY <1>1
<1>3. CASE n <= q
  <2>1. k * n <= k * q
    BY <1>1, <1>3, TimesGrows
  <2>2. QED
    BY <1>1, <1>2, <1>3, <2>1
<1>4. CASE q + 1 <= n
  <2>1. k * (q + 1) <= k * n /\ k * (q + 1) = k * q + k
    BY <1>1, <1>4, TimesGrows
  <2>2. QED
    BY <1>1, <1>2, <1>4, <2>1
<1>5. n <= q \/ q + 1 <= n
  BY <1>1
<1>6. QED
  BY <1>3, <1>4, <1>5 DEF q

LEMMA QuotientGrows ==
    ASSUME NEW a \in Int, NEW b \in Int, NEW k \in Nat \ {0}, a <= b
    PROVE  a \div k <= b \div k
<1>1. a \div k \in Int /\ k * (a \div k) <= a /\ k * (a \div k) \in Int
  BY Division
<1>2. k * (a \div k) <= b
  BY <1>1
<1>3. QED
  BY <1>1, <1>2, LargestQuotient
=============================================================================
