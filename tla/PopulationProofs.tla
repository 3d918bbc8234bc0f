--------------------------- MODULE PopulationProofs ---------------------------
(***************************************************************************)
(* What the operations of PopulationOps promise, for any size, comparator  *)
(* and candidates: the members stay sorted and within the size, each is a  *)
(* member or candidate of before, no rank ever gets worse, and as long as  *)
(* looking alike is transitive no two members look alike.                  *)
(***************************************************************************)
EXTENDS PopulationOps, FiniteSetTheorems, NaturalsInduction, TLAPS

-----------------------------------------------------------------------------
(* Ranks in a finite set under a strict total order, a set of pairs.       *)

\* The elements of S before x.
Under(R, S, x) == {y \in S : <<y, x>> \in R}

StrictOrder(R, S) ==
  /\ \A x \in S : <<x, x>> \notin R
  /\ \A x, y, z \in S : <<x, y>> \in R /\ <<y, z>> \in R => <<x, z>> \in R
  /\ \A x, y \in S : x = y \/ <<x, y>> \in R \/ <<y, x>> \in R

\* A nonempty set of finite sets has a member that no other is a part of.
LEMMA SmallestSet ==
  ASSUME NEW S, IsFiniteSet(S), NEW F, F \subseteq SUBSET S, F # {}
  PROVE  \E T \in F : \A U \in F : U \subseteq T => U = T
PROOF
  <1>1. F \subseteq FiniteSubsetsOf(S)  BY FS_FiniteSubsetsOfFinite
  <1>2. PICK T \in F : \A U \in F : ~ (<<U, T>> \in StrictSubsetOrdering(S))
    BY <1>1, FS_StrictSubsetOrderingWellFounded, WFMin, Zenon
  <1>3. ASSUME NEW U \in F, U \subseteq T  PROVE U = T
    BY <1>2, <1>3 DEF StrictSubsetOrdering
  <1> QED  BY <1>3

\* A nonempty finite set has a last element.
LEMMA LastElement ==
  ASSUME NEW S, IsFiniteSet(S), NEW R, StrictOrder(R, S), S # {}
  PROVE  \E x \in S : \A y \in S : y # x => <<y, x>> \in R
PROOF
  <1> DEFINE F == {T \in SUBSET S :
                     T # {} /\ ~\E x \in T : \A y \in T : y # x => <<y, x>> \in R}
  <1>1. SUFFICES ASSUME F # {}  PROVE FALSE
    OBVIOUS
  <1>2. PICK T \in F : \A U \in F : U \subseteq T => U = T
    <2>1. F \subseteq SUBSET S  OBVIOUS
    <2> HIDE DEF F
    <2> QED  BY <1>1, <2>1, SmallestSet
  <1>3. PICK a \in T : TRUE  OBVIOUS
  <1>4. T # {a}  OBVIOUS
  <1>5. PICK b \in T \ {a} : \A y \in T \ {a} : y # b => <<y, b>> \in R
    <2>1. T \ {a} # {} /\ T \ {a} # T  BY <1>3, <1>4
    <2>2. T \ {a} \notin F  BY <1>2, <2>1
    <2> QED  BY <2>1, <2>2
  <1>6. a \in S /\ b \in S /\ a # b  BY <1>3, <1>5
  <1>7. CASE <<a, b>> \in R
    <2>1. \A y \in T : y # b => <<y, b>> \in R  BY <1>5, <1>7
    <2> QED  BY <2>1, <1>5
  <1>8. CASE <<b, a>> \in R
    <2>1. \A y \in T : y # a => <<y, a>> \in R
      <3> SUFFICES ASSUME NEW y \in T, y # a  PROVE <<y, a>> \in R
        OBVIOUS
      <3>1. CASE y = b  BY <3>1, <1>8
      <3>2. CASE y # b  BY <3>2, <1>5, <1>6, <1>8 DEF StrictOrder
      <3> QED  BY <3>1, <3>2
    <2> QED  BY <2>1, <1>3
  <1> QED  BY <1>6, <1>7, <1>8 DEF StrictOrder

\* Every rank below the cardinality is taken.
LEMMA RankIsTaken ==
  ASSUME NEW S, IsFiniteSet(S), NEW R, StrictOrder(R, S),
         NEW i \in 1..Cardinality(S)
  PROVE  \E x \in S : Cardinality(Under(R, S, x)) = i - 1
PROOF
  <1> DEFINE F == {T \in SUBSET S :
                     i \in 1..Cardinality(T)
                     /\ ~\E x \in T : Cardinality(Under(R, T, x)) = i - 1}
  <1>1. SUFFICES ASSUME F # {}  PROVE FALSE
    OBVIOUS
  <1>2. PICK T \in F : \A U \in F : U \subseteq T => U = T
    <2>1. F \subseteq SUBSET S  OBVIOUS
    <2> HIDE DEF F
    <2> QED  BY <1>1, <2>1, SmallestSet
  <1>3. IsFiniteSet(T) /\ T \subseteq S /\ Cardinality(T) \in Nat
    BY FS_Subset, FS_CardinalityType
  <1>4. T # {}  BY FS_EmptySet
  <1>5. StrictOrder(R, T)  BY <1>3 DEF StrictOrder
  <1>6. PICK m \in T : \A y \in T : y # m => <<y, m>> \in R
    BY <1>3, <1>4, <1>5, LastElement
  <1> DEFINE U == T \ {m}
  <1>7. IsFiniteSet(U) /\ Cardinality(U) = Cardinality(T) - 1
    BY <1>3, <1>6, FS_RemoveElement
  <1>8. Under(R, T, m) = U  BY <1>5, <1>6 DEF Under, StrictOrder
  <1>9. i - 1 # Cardinality(U)  BY <1>6, <1>8
  <1>10. i \in 1..Cardinality(U)  BY <1>3, <1>7, <1>9
  <1>11. PICK x \in U : Cardinality(Under(R, U, x)) = i - 1
    <2>1. U \subseteq T /\ U # T  BY <1>6
    <2>2. U \notin F  BY <1>2, <2>1
    <2> QED  BY <2>1, <2>2, <1>10
  <1>12. Under(R, U, x) = Under(R, T, x)
    <2>1. <<m, x>> \notin R  BY <1>5, <1>6, <1>11 DEF StrictOrder
    <2> QED  BY <2>1 DEF Under
  <1> QED  BY <1>11, <1>12

\* An element has fewer elements before it than the elements after it have.
LEMMA RankGrows ==
  ASSUME NEW S, IsFiniteSet(S), NEW R, StrictOrder(R, S),
         NEW x \in S, NEW y \in S, <<x, y>> \in R
  PROVE  /\ Cardinality(Under(R, S, x)) \in Nat
         /\ Cardinality(Under(R, S, y)) \in Nat
         /\ Cardinality(Under(R, S, x)) < Cardinality(Under(R, S, y))
PROOF
  <1>1. Under(R, S, y) \in SUBSET S /\ Under(R, S, x) \in SUBSET Under(R, S, y)
    BY DEF Under, StrictOrder
  <1>2. x \in Under(R, S, y) /\ x \notin Under(R, S, x)
    BY DEF Under, StrictOrder
  <1>3. IsFiniteSet(Under(R, S, y))  BY <1>1, FS_Subset
  <1>4. /\ IsFiniteSet(Under(R, S, x))
        /\ Cardinality(Under(R, S, x)) <= Cardinality(Under(R, S, y))
        /\ Cardinality(Under(R, S, x)) # Cardinality(Under(R, S, y))
    BY <1>1, <1>2, <1>3, FS_Subset
  <1>5. Cardinality(Under(R, S, x)) \in Nat /\ Cardinality(Under(R, S, y)) \in Nat
    BY <1>3, <1>4, FS_CardinalityType
  <1> QED  BY <1>4, <1>5

\* No two elements have the same rank.
LEMMA RankIsUnique ==
  ASSUME NEW S, IsFiniteSet(S), NEW R, StrictOrder(R, S),
         NEW x \in S, NEW y \in S,
         Cardinality(Under(R, S, x)) = Cardinality(Under(R, S, y))
  PROVE  x = y
PROOF
  <1>1. <<x, y>> \notin R  BY RankGrows
  <1>2. <<y, x>> \notin R  BY RankGrows
  <1> QED  BY <1>1, <1>2 DEF StrictOrder

\* A rank is below the cardinality.
LEMMA RankIsBounded ==
  ASSUME NEW S, IsFiniteSet(S), NEW R, StrictOrder(R, S), NEW x \in S
  PROVE  Cardinality(Under(R, S, x)) \in 0..(Cardinality(S) - 1)
PROOF
  <1>1. Under(R, S, x) \in SUBSET S /\ x \notin Under(R, S, x)
    BY DEF Under, StrictOrder
  <1>2. /\ IsFiniteSet(Under(R, S, x))
        /\ Cardinality(Under(R, S, x)) <= Cardinality(S)
        /\ Cardinality(Under(R, S, x)) # Cardinality(S)
    BY <1>1, FS_Subset
  <1>3. Cardinality(Under(R, S, x)) \in Nat /\ Cardinality(S) \in Nat
    BY <1>2, FS_CardinalityType
  <1> QED  BY <1>2, <1>3
-----------------------------------------------------------------------------
(* Numbers and sequences. *)

\* A nonempty set of natural numbers has a least one: what a proof by
\* induction picks as its first counterexample.
LEMMA LeastNumber ==
  ASSUME NEW T \in SUBSET Nat, T # {}
  PROVE  \E n \in T : \A m \in T : n <= m
PROOF
  <1>1. PICK n \in T : \A m \in T : ~ (<<m, n>> \in OpToRel(<, Nat))
    BY NatLessThanWellFounded, WFMin, Zenon
  <1>2. \A m \in T : ~ (m < n)
    BY <1>1, Zenon DEF OpToRel
  <1> QED  BY <1>2

\* A set of positions that has every position before one of its own is an
\* initial segment, and its size says which.
LEMMA Segment ==
  ASSUME NEW n \in Nat, NEW C \in SUBSET (1..n),
         \A i \in C, j \in 1..n : j < i => j \in C
  PROVE  Cardinality(C) \in 0..n /\ C = 1..Cardinality(C)
PROOF
  <1>1. CASE \A k \in 1..n : k \in C
    <2>1. C = 1..n  BY <1>1
    <2>2. Cardinality(C) = n  BY <2>1, FS_Interval
    <2> QED  BY <2>1, <2>2
  <1>2. CASE ~\A k \in 1..n : k \in C
    <2> DEFINE T == {k \in 1..n : k \notin C}
    <2>1. T \in SUBSET Nat /\ T # {}  BY <1>2
    <2>2. PICK k \in T : \A m \in T : k <= m  BY <2>1, LeastNumber
    <2>3. ASSUME NEW j \in 1..n  PROVE j \in C <=> j < k
      BY <2>2
    <2>4. C = 1..(k - 1)
      <3>1. k \in 1..n  BY <2>2
      <3> HIDE DEF T
      <3>2. \A j \in C : j \in 1..(k - 1)  BY <2>3, <3>1
      <3>3. \A j \in 1..(k - 1) : j \in C  BY <2>3, <3>1
      <3> QED  BY <3>2, <3>3
    <2>5. Cardinality(C) = k - 1  BY <2>2, <2>4, FS_Interval
    <2> QED  BY <2>2, <2>4, <2>5
  <1> QED  BY <1>1, <1>2

\* A new element pushes those behind its seat back by one.
LEMMA InsertAtFacts ==
  ASSUME NEW S, NEW s \in Seq(S), NEW p \in 1..(Len(s) + 1), NEW e \in S
  PROVE  /\ InsertAt(s, p, e) \in Seq(S) /\ Len(InsertAt(s, p, e)) = Len(s) + 1
         /\ \A j \in 1..(Len(s) + 1) :
              InsertAt(s, p, e)[j] = IF j < p THEN s[j] ELSE IF j = p THEN e ELSE s[j - 1]
PROOF
  <1> DEFINE a == SubSeq(s, 1, p - 1)
             b == SubSeq(s, p, Len(s))
  <1>1. /\ a \in Seq(S) /\ Len(a) = p - 1 /\ \A j \in 1..(p - 1) : a[j] = s[j]
        /\ b \in Seq(S) /\ Len(b) = Len(s) - p + 1
        /\ \A j \in 1..(Len(s) - p + 1) : b[j] = s[p + j - 1]
    OBVIOUS
  <1> HIDE DEF a, b
  <1>2. InsertAt(s, p, e) = (a \o <<e>>) \o b
    BY DEF InsertAt, a, b
  <1> DEFINE c == Append(a, e)
  <1>3. /\ c \in Seq(S) /\ Len(c) = p
        /\ \A j \in 1..p : c[j] = IF j < p THEN s[j] ELSE e
    <2>1. c \in Seq(S) /\ Len(c) = p  BY <1>1
    <2>2. \A j \in 1..p : c[j] = IF j < p THEN a[j] ELSE e  BY <1>1
    <2> QED  BY <1>1, <2>1, <2>2
  <1>6. a \o <<e>> = c  BY <1>1
  <1> HIDE DEF c
  <1>4. /\ c \o b \in Seq(S) /\ Len(c \o b) = Len(s) + 1
        /\ \A j \in 1..(Len(s) + 1) :
             (c \o b)[j] = IF j <= p THEN c[j] ELSE b[j - p]
    <2>1. c \in Seq(S) /\ Len(c) = p /\ b \in Seq(S) /\ Len(b) = Len(s) - p + 1
      BY <1>1, <1>3
    <2>2. c \o b \in Seq(S) /\ Len(c \o b) = Len(c) + Len(b)  BY <2>1
    <2>3. \A j \in 1..(Len(c) + Len(b)) :
            (c \o b)[j] = IF j <= Len(c) THEN c[j] ELSE b[j - Len(c)]
      BY <2>1
    <2>4. Len(c) + Len(b) = Len(s) + 1  BY <2>1
    <2> QED  BY <2>1, <2>2, <2>3, <2>4
  <1>5. \A j \in 1..(Len(s) + 1) : j > p => b[j - p] = s[j - 1]
    BY <1>1
  <1>7. InsertAt(s, p, e) = c \o b  BY <1>2, <1>6
  <1> SUFFICES ASSUME NEW j \in 1..(Len(s) + 1)
               PROVE  (c \o b)[j] = IF j < p THEN s[j] ELSE IF j = p THEN e ELSE s[j - 1]
    BY <1>4, <1>7
  <1>8. CASE j <= p
    <2>1. j \in 1..p /\ (c \o b)[j] = c[j]  BY <1>4, <1>8
    <2>2. c[j] = IF j < p THEN s[j] ELSE e  BY <1>3, <2>1
    <2> QED  BY <1>8, <2>1, <2>2
  <1>9. CASE j > p  BY <1>4, <1>5, <1>9
  <1>10. j \in Nat /\ p \in Nat
    <2>1. Len(s) \in Nat  OBVIOUS
    <2> QED  BY <2>1
  <1>11. j <= p \/ j > p  BY <1>10
  <1> QED  BY <1>8, <1>9, <1>11

\* Taking an element out pulls those behind it forward.
LEMMA RemoveAtFacts ==
  ASSUME NEW S, NEW s \in Seq(S), NEW p \in DOMAIN s
  PROVE  /\ RemoveAt(s, p) \in Seq(S) /\ Len(RemoveAt(s, p)) = Len(s) - 1
         /\ \A j \in 1..(Len(s) - 1) :
              RemoveAt(s, p)[j] = IF j < p THEN s[j] ELSE s[j + 1]
PROOF
  <1> DEFINE a == SubSeq(s, 1, p - 1)
             b == SubSeq(s, p + 1, Len(s))
  <1>1. /\ a \in Seq(S) /\ Len(a) = p - 1 /\ \A j \in 1..(p - 1) : a[j] = s[j]
        /\ b \in Seq(S) /\ Len(b) = Len(s) - p
        /\ \A j \in 1..(Len(s) - p) : b[j] = s[p + j]
    OBVIOUS
  <1> HIDE DEF a, b
  <1>2. RemoveAt(s, p) = a \o b
    BY DEF RemoveAt, a, b
  <1>3. /\ a \o b \in Seq(S) /\ Len(a \o b) = Len(s) - 1
        /\ \A j \in 1..(Len(s) - 1) : (a \o b)[j] = IF j < p THEN a[j] ELSE b[j - p + 1]
    BY <1>1
  <1>4. \A j \in 1..(Len(s) - 1) : j >= p => b[j - p + 1] = s[j + 1]
    BY <1>1
  <1> QED  BY <1>1, <1>2, <1>3, <1>4

-----------------------------------------------------------------------------
(* Candidates, best first. *)

Candidates == [id : Int, score : Int, shape : Int]
Members == [id : Int, score : Int, shape : Int, looks : Nat]

IdsDiffer(candidates) ==
  /\ candidates \subseteq Candidates /\ IsFiniteSet(candidates)
  /\ \A a, b \in candidates : a.id = b.id => a = b

\* What lists candidates goes through each of them once, best first.
LEMMA SortedFacts ==
  ASSUME NEW C, IdsDiffer(C)
  PROVE  /\ Cardinality(C) \in Nat
         /\ Sorted(C) \in [1..Cardinality(C) -> C]
         /\ Len(Sorted(C)) = Cardinality(C)
         /\ \A a \in C : \E i \in 1..Cardinality(C) : Sorted(C)[i] = a
         /\ \A i, j \in 1..Cardinality(C) :
              i < j => Sorted(C)[i].score >= Sorted(C)[j].score
PROOF
  <1> DEFINE R == {p \in C \X C : p[1] # p[2] /\ Before(p[1], p[2])}
             UpTo(a) == {b \in C : Before(b, a)}
             s == Sorted(C)
  <1>1. IsFiniteSet(C) /\ Cardinality(C) \in Nat
    BY FS_CardinalityType DEF IdsDiffer
  <1>2. \A a \in C : a.id \in Int /\ a.score \in Int
    BY DEF IdsDiffer, Candidates
  <1>3. \A a, b \in C : <<a, b>> \in R <=> a # b /\ Before(a, b)
    OBVIOUS
  <1>4. StrictOrder(R, C)
    <2> HIDE DEF R
    <2>1. \A a, b \in C : a.id = b.id => a = b  BY DEF IdsDiffer
    <2> QED  BY <1>2, <1>3, <2>1 DEF StrictOrder, Before
  <1>5. ASSUME NEW a \in C
        PROVE  Cardinality(UpTo(a)) = Cardinality(Under(R, C, a)) + 1
    <2>1. UpTo(a) = Under(R, C, a) \cup {a}
      <3>1. Before(a, a)  BY <1>2 DEF Before
      <3> QED  BY <1>3, <3>1 DEF Under
    <2>2. a \notin Under(R, C, a)  BY <1>3 DEF Under
    <2>3. IsFiniteSet(Under(R, C, a))
      <3>1. Under(R, C, a) \in SUBSET C  BY DEF Under
      <3> QED  BY <1>1, <3>1, FS_Subset
    <2> HIDE DEF R
    <2> QED  BY <2>1, <2>2, <2>3, FS_AddElement
  <1>6. \A a \in C : Cardinality(Under(R, C, a)) \in 0..(Cardinality(C) - 1)
    <2> HIDE DEF R
    <2> QED  BY <1>1, <1>4, RankIsBounded
  <1>7. ASSUME NEW i \in 1..Cardinality(C)
        PROVE  s[i] \in C /\ Cardinality(UpTo(s[i])) = i
    <2>1. PICK a \in C : Cardinality(Under(R, C, a)) = i - 1
      <3> HIDE DEF R
      <3> QED  BY <1>1, <1>4, RankIsTaken
    <2>2. \E b \in C : Cardinality(UpTo(b)) = i
      <3> HIDE DEF R, UpTo
      <3> QED  BY <1>1, <1>5, <2>1
    <2>3. s[i] = CHOOSE b \in C : Cardinality(UpTo(b)) = i
      BY DEF Sorted
    <2> HIDE DEF s, UpTo
    <2> QED  BY <2>2, <2>3
  <1>8. s \in [1..Cardinality(C) -> C]
    <2>1. DOMAIN s = 1..Cardinality(C) /\ s = [i \in 1..Cardinality(C) |-> s[i]]
      BY DEF Sorted
    <2> HIDE DEF s
    <2> QED  BY <1>7, <2>1
  <1>9. ASSUME NEW a \in C  PROVE \E i \in 1..Cardinality(C) : s[i] = a
    <2> HIDE DEF s, R, UpTo
    <2> DEFINE i == Cardinality(UpTo(a))
    <2>1. i \in 1..Cardinality(C)  BY <1>1, <1>5, <1>6
    <2>2. s[i] \in C /\ Cardinality(UpTo(s[i])) = i  BY <1>7, <2>1
    <2>3. Cardinality(Under(R, C, s[i])) = Cardinality(Under(R, C, a))
      BY <1>5, <1>6, <2>1, <2>2
    <2>4. s[i] = a  BY <1>1, <1>4, <2>2, <2>3, RankIsUnique
    <2> QED  BY <2>1, <2>4
  <1>10. ASSUME NEW i \in 1..Cardinality(C), NEW j \in 1..Cardinality(C), i < j
         PROVE  s[i].score >= s[j].score
    <2> HIDE DEF s
    <2>1. s[i] \in C /\ s[j] \in C /\ s[i] # s[j]
      <3>1. Cardinality(UpTo(s[i])) = i /\ Cardinality(UpTo(s[j])) = j  BY <1>7
      <3> HIDE DEF UpTo
      <3> QED  BY <1>7, <1>10, <3>1
    <2>2. CASE <<s[i], s[j]>> \in R  BY <1>2, <1>3, <2>1, <2>2 DEF Before
    <2>3. CASE <<s[j], s[i]>> \in R
      <3> HIDE DEF R, UpTo
      <3>1. Cardinality(Under(R, C, s[j])) < Cardinality(Under(R, C, s[i]))
        BY <1>1, <1>4, <2>1, <2>3, RankGrows
      <3> QED  BY <1>5, <1>6, <1>7, <1>10, <2>1, <3>1
    <2> QED  BY <1>4, <2>1, <2>2, <2>3 DEF StrictOrder
  <1>11. Len(s) = Cardinality(C)  BY <1>1, <1>8
  <1> QED  BY <1>1, <1>8, <1>9, <1>10, <1>11

-----------------------------------------------------------------------------
(* Seats. *)

Descending(pop) ==
  \A i, j \in DOMAIN pop : i <= j => pop[i].score >= pop[j].score

\* What the fields of members hold.
LEMMA MemberFields ==
  /\ \A m \in Members : m.id \in Int /\ m.score \in Int /\ m.shape \in Int /\ m.looks \in Nat
  /\ \A s \in Seq(Members) : \A i \in DOMAIN s :
       /\ s[i] \in Members /\ s[i].id \in Int /\ s[i].score \in Int
       /\ s[i].shape \in Int /\ s[i].looks \in Nat
PROOF
  <1>1. \A m \in Members : m.id \in Int /\ m.score \in Int /\ m.shape \in Int /\ m.looks \in Nat
    BY DEF Members
  <1>2. \A s \in Seq(Members) : \A i \in DOMAIN s : s[i] \in Members
    OBVIOUS
  <1> QED  BY <1>1, <1>2

\* new is pop with m in seat p, behind all that are as good as m.
InSeat(new, pop, m, p) ==
  /\ p \in 1..(Len(pop) + 1)
  /\ new \in Seq(Members) /\ Len(new) = Len(pop) + 1
  /\ \A j \in 1..(Len(pop) + 1) :
       new[j] = IF j < p THEN pop[j] ELSE IF j = p THEN m ELSE pop[j - 1]
  /\ \A i \in DOMAIN pop : i < p <=> pop[i].score >= m.score
  /\ Descending(new)

\* A member gets the seat behind all that are as good, and the seats stay in
\* order.
LEMMA SeatedFacts ==
  ASSUME NEW pop \in Seq(Members), Descending(pop), NEW m \in Members
  PROVE  \E p : InSeat(Seated(pop, m), pop, m, p)
PROOF
  <1> DEFINE C == {i \in DOMAIN pop : pop[i].score >= m.score}
             p == Cardinality(C) + 1
  <1>1. DOMAIN pop = 1..Len(pop) /\ Len(pop) \in Nat
    OBVIOUS
  <1>2. m.score \in Int /\ \A i \in DOMAIN pop : pop[i].score \in Int
    BY MemberFields
  <1>3. \A i \in C, j \in 1..Len(pop) : j < i => j \in C
    BY <1>1, <1>2 DEF Descending
  <1>4. Cardinality(C) \in 0..Len(pop) /\ C = 1..Cardinality(C)
    <2>1. C \in SUBSET (1..Len(pop))  BY <1>1
    <2> HIDE DEF C
    <2> QED  BY <1>1, <1>3, <2>1, Segment
  <1>5. \A i \in DOMAIN pop : i < p <=> i \in C
    <2> HIDE DEF C
    <2> QED  BY <1>1, <1>4
  <1>6. p \in 1..(Len(pop) + 1)
    <2> HIDE DEF C
    <2> QED  BY <1>1, <1>4
  <1>7. Seated(pop, m) = InsertAt(pop, p, m)  BY DEF Seated
  <1>8. \A i \in DOMAIN pop : i < p <=> pop[i].score >= m.score  BY <1>5
  <1> HIDE DEF p
  <1> DEFINE s == Seated(pop, m)
  <1>9. /\ s \in Seq(Members) /\ Len(s) = Len(pop) + 1
        /\ \A j \in 1..(Len(pop) + 1) :
             s[j] = IF j < p THEN pop[j] ELSE IF j = p THEN m ELSE pop[j - 1]
    <2> DEFINE t == InsertAt(pop, p, m)
    <2>1. t \in Seq(Members) /\ Len(t) = Len(pop) + 1  BY <1>6, InsertAtFacts
    <2>2. \A j \in 1..(Len(pop) + 1) :
            t[j] = IF j < p THEN pop[j] ELSE IF j = p THEN m ELSE pop[j - 1]
      BY <1>6, InsertAtFacts
    <2>3. s = t  BY <1>7
    <2> HIDE DEF s, t
    <2> QED  BY <2>1, <2>2, <2>3
  <1>10. Descending(s)
    <2> HIDE DEF s
    <2> SUFFICES ASSUME NEW i \in 1..(Len(pop) + 1), NEW j \in 1..(Len(pop) + 1), i < j
                 PROVE  s[i].score >= s[j].score
      <3>1. DOMAIN s = 1..(Len(pop) + 1)  BY <1>9
      <3>2. \A k \in DOMAIN s : s[k].score \in Int  BY <1>9, MemberFields
      <3> QED  BY <3>1, <3>2, <1>1 DEF Descending
    <2>1. CASE j < p
      BY <1>1, <1>6, <1>9, <2>1 DEF Descending
    <2>2. CASE j = p
      BY <1>1, <1>6, <1>8, <1>9, <2>2
    <2>3. CASE j > p /\ i = p
      <3>1. j - 1 \in DOMAIN pop /\ ~(j - 1 < p)  BY <1>1, <1>6, <2>3
      <3>2. pop[j - 1].score < m.score  BY <1>2, <1>8, <3>1
      <3> QED  BY <1>2, <1>6, <1>9, <2>3, <3>1, <3>2
    <2>4. CASE j > p /\ i < p
      <3>1. j - 1 \in DOMAIN pop /\ i \in DOMAIN pop /\ i <= j - 1  BY <1>1, <1>6, <2>4
      <3> QED  BY <1>6, <1>9, <2>4, <3>1 DEF Descending
    <2>5. CASE j > p /\ i > p
      <3>1. j - 1 \in DOMAIN pop /\ i - 1 \in DOMAIN pop /\ i - 1 <= j - 1
        BY <1>1, <1>6, <2>5
      <3>2. s[i] = pop[i - 1] /\ s[j] = pop[j - 1]  BY <1>6, <1>9, <2>5
      <3>3. pop[i - 1].score >= pop[j - 1].score  BY <3>1 DEF Descending
      <3> QED  BY <3>2, <3>3
    <2> QED  BY <1>6, <2>1, <2>2, <2>3, <2>4, <2>5
  <1>11. InSeat(s, pop, m, p)  BY <1>6, <1>8, <1>9, <1>10 DEF InSeat
  <1> QED  BY <1>11

\* new is pop where m has come, the member in seat q has left, and those
\* between the two seats have moved back by one.
InsteadOf(new, pop, m, q) ==
  /\ new \in Seq(Members) /\ Len(new) = Len(pop) /\ Descending(new)
  /\ \E p \in 1..q : \A i \in 1..Len(pop) :
       new[i] = IF i < p \/ i > q THEN pop[i] ELSE IF i = p THEN m ELSE pop[i - 1]
  /\ \A i \in DOMAIN pop : i \in DOMAIN new /\ new[i].score >= pop[i].score
  /\ new[1].score >= m.score

\* One member leaves, and a better one comes, or one at least as good for the
\* last.
LEMMA ReplacedFacts ==
  ASSUME NEW pop \in Seq(Members), Descending(pop), NEW m \in Members,
         NEW q \in DOMAIN pop,
         pop[q].score < m.score \/ (q = Len(pop) /\ pop[q].score <= m.score),
         NEW new, new = Seated(RemoveAt(pop, q), m)
  PROVE  InsteadOf(new, pop, m, q)
PROOF
  <1> DEFINE rest == RemoveAt(pop, q)
  <1>1. /\ rest \in Seq(Members) /\ Len(rest) = Len(pop) - 1
        /\ \A j \in 1..(Len(pop) - 1) : rest[j] = IF j < q THEN pop[j] ELSE pop[j + 1]
    BY RemoveAtFacts
  <1>2. new = Seated(rest, m)  OBVIOUS
  <1>3. /\ Len(pop) \in Nat /\ DOMAIN pop = 1..Len(pop) /\ q \in 1..Len(pop)
        /\ DOMAIN rest = 1..(Len(pop) - 1)
    BY <1>1
  <1> HIDE DEF rest
  <1>4. /\ m.score \in Int /\ \A i \in 1..Len(pop) : pop[i].score \in Int
        /\ \A i, j \in 1..Len(pop) : i <= j => pop[i].score >= pop[j].score
    BY <1>3, MemberFields DEF Descending
  <1>5. Descending(rest)
    <2> SUFFICES ASSUME NEW i \in 1..(Len(pop) - 1), NEW j \in 1..(Len(pop) - 1), i <= j
                 PROVE  rest[i].score >= rest[j].score
      BY <1>3 DEF Descending
    <2> DEFINE from(k) == IF k < q THEN k ELSE k + 1
    <2>1. /\ from(i) \in 1..Len(pop) /\ from(j) \in 1..Len(pop) /\ from(i) <= from(j)
          /\ rest[i] = pop[from(i)] /\ rest[j] = pop[from(j)]
      BY <1>1, <1>3
    <2> HIDE DEF from
    <2> QED  BY <1>4, <2>1
  <1>6. PICK p \in 1..Len(pop) :
          /\ new \in Seq(Members) /\ Len(new) = Len(pop)
          /\ \A j \in 1..Len(pop) :
               new[j] = IF j < p THEN rest[j] ELSE IF j = p THEN m ELSE rest[j - 1]
          /\ \A i \in DOMAIN rest : i < p <=> rest[i].score >= m.score
          /\ Descending(new)
    <2>1. PICK p : InSeat(Seated(rest, m), rest, m, p)
      BY <1>1, <1>5, SeatedFacts
    <2>2. InSeat(new, rest, m, p)  BY <1>2, <2>1
    <2>3. Len(rest) + 1 = Len(pop)  BY <1>1, <1>3
    <2> QED  BY <2>2, <2>3 DEF InSeat
  <1>7. p <= q
    <2> SUFFICES ASSUME p > q  PROVE FALSE
      BY <1>3
    <2>1. q \in DOMAIN rest /\ rest[q] = pop[q + 1] /\ q + 1 \in 1..Len(pop)
      BY <1>1, <1>3
    <2>2. rest[q].score >= m.score  BY <1>6, <2>1
    <2> QED  BY <1>3, <1>4, <2>1, <2>2
  <1>8. \A i \in 1..Len(pop) :
          new[i] = IF i < p \/ i > q THEN pop[i] ELSE IF i = p THEN m ELSE pop[i - 1]
    BY <1>1, <1>3, <1>6, <1>7
  <1>9. ASSUME NEW i \in 1..Len(pop)  PROVE new[i].score >= pop[i].score
    <2>1. CASE i < p \/ i > q  BY <1>4, <1>8, <2>1
    <2>2. CASE i > p /\ i <= q
      <3>1. i - 1 \in 1..Len(pop) /\ new[i] = pop[i - 1]  BY <1>3, <1>6, <1>8, <2>2
      <3> QED  BY <1>4, <3>1
    <2>3. CASE i = p /\ p = q  BY <1>4, <1>8, <2>3
    <2>4. CASE i = p /\ p < q
      <3>1. p \in DOMAIN rest /\ rest[p] = pop[p]  BY <1>1, <1>3, <1>6, <2>4
      <3>2. rest[p].score < m.score  BY <1>4, <1>6, <3>1, <1>3
      <3> QED  BY <1>4, <1>8, <2>4, <3>1, <3>2, <1>3
    <2> QED  BY <1>3, <1>6, <1>7, <2>1, <2>2, <2>3, <2>4
  <1>10. new[1].score >= m.score
    <2>1. CASE p = 1  BY <1>3, <1>4, <1>8, <2>1
    <2>2. CASE p > 1
      <3>1. 1 \in DOMAIN rest /\ new[1] = rest[1]  BY <1>3, <1>6, <1>7, <2>2
      <3> QED  BY <1>6, <2>2, <3>1
    <2> QED  BY <1>6, <2>1, <2>2
  <1>11. DOMAIN new = 1..Len(pop)  BY <1>3, <1>6
  <1>12. p \in 1..q  BY <1>3, <1>6, <1>7
  <1> QED  BY <1>3, <1>6, <1>8, <1>9, <1>10, <1>11, <1>12 DEF InsteadOf

-----------------------------------------------------------------------------
(* One candidate comes. *)

Population(pop) ==
  pop \in Seq(Members) /\ Len(pop) <= PopulationSize /\ Descending(pop)

Carries(m, a) == m.id = a.id /\ m.score = a.score /\ m.shape = a.shape

\* The structures of new are those of pop or of a.
Of(new, pop, a) ==
  \A i \in DOMAIN new : Carries(new[i], a) \/ \E k \in DOMAIN pop : Carries(new[i], pop[k])

NoRankWorse(new, pop) ==
  \A i \in DOMAIN pop : i \in DOMAIN new /\ new[i].score >= pop[i].score

\* FirstAlike finds a look-alike, if there is one.
LEMMA FirstAlikeFacts ==
  ASSUME NEW pop \in Seq(Members), NEW a \in Candidates
  PROVE  IF FirstAlike(pop, a) = 0
         THEN \A k \in DOMAIN pop : ~LooksLike(a, pop[k])
         ELSE FirstAlike(pop, a) \in DOMAIN pop /\ LooksLike(a, pop[FirstAlike(pop, a)])
PROOF
  <1> DEFINE alike == {i \in DOMAIN pop : LooksLike(a, pop[i])}
  <1>1. CASE alike = {}
    BY <1>1 DEF FirstAlike
  <1>2. CASE alike # {}
    <2>1. alike \in SUBSET Nat /\ 0 \notin alike  OBVIOUS
    <2>2. \E i \in alike : \A k \in alike : i <= k
      <3> HIDE DEF alike
      <3> QED  BY <1>2, <2>1, LeastNumber
    <2>3. FirstAlike(pop, a) = CHOOSE i \in alike : \A k \in alike : i <= k
      BY <1>2 DEF FirstAlike
    <2>4. FirstAlike(pop, a) \in alike
      <3> HIDE DEF alike
      <3> QED  BY <2>2, <2>3
    <2> QED  BY <2>1, <2>4
  <1> QED  BY <1>1, <1>2

\* A candidate becomes a member like this.
LEMMA MemberFacts ==
  ASSUME NEW a \in Candidates, NEW n \in Nat
  PROVE  Member(a, n) \in Members /\ Carries(Member(a, n), a)
PROOF
  BY DEF Member, Members, Candidates, Carries

\* A rediscovery changes no structure.
LEMMA RediscoveredFacts ==
  ASSUME NEW pop \in Seq(Members), NEW q \in DOMAIN pop
  PROVE  /\ Rediscovered(pop, q) \in Seq(Members)
         /\ DOMAIN Rediscovered(pop, q) = DOMAIN pop
         /\ Len(Rediscovered(pop, q)) = Len(pop)
         /\ \A i \in DOMAIN pop : Carries(Rediscovered(pop, q)[i], pop[i])
PROOF
  <1> DEFINE new == Rediscovered(pop, q)
             m == [pop[q] EXCEPT !.looks = @ + 1]
  <1>1. pop[q] \in Members /\ pop[q].looks + 1 \in Nat  BY MemberFields
  <1>2. m \in Members /\ Carries(m, pop[q])  BY <1>1 DEF Members, Carries
  <1>3. new = [pop EXCEPT ![q] = m]
    BY DEF Rediscovered
  <1> HIDE DEF m
  <1>4. new \in Seq(Members) /\ Len(new) = Len(pop) /\ DOMAIN new = DOMAIN pop
    BY <1>2, <1>3
  <1>5. \A i \in DOMAIN pop : new[i] = IF i = q THEN m ELSE pop[i]  BY <1>3
  <1> QED  BY <1>2, <1>4, <1>5 DEF Carries

\* Taking the last member out is making room.
LEMMA RoomForFacts ==
  ASSUME NEW pop \in Seq(Members), pop # <<>>
  PROVE  /\ Len(pop) \in DOMAIN pop
         /\ RoomFor(pop) = IF Len(pop) = PopulationSize THEN RemoveAt(pop, Len(pop)) ELSE pop
PROOF
  <1>1. Len(pop) \in Nat \ {0} /\ Len(pop) \in DOMAIN pop  OBVIOUS
  <1>2. Front(pop) = RemoveAt(pop, Len(pop))
    <2>1. /\ Front(pop) \in Seq(Members) /\ Len(Front(pop)) = Len(pop) - 1
          /\ \A j \in 1..(Len(pop) - 1) : Front(pop)[j] = pop[j]
      <3> DEFINE n == Len(pop) - 1
      <3>1. n \in Nat /\ n <= Len(pop) /\ Len(pop) \in Nat  BY <1>1
      <3>2. Front(pop) = SubSeq(pop, 1, n)  BY DEF Front
      <3> HIDE DEF n
      <3>3. /\ SubSeq(pop, 1, n) \in Seq(Members) /\ Len(SubSeq(pop, 1, n)) = n
            /\ \A j \in 1..n : SubSeq(pop, 1, n)[j] = pop[j]
        BY <3>1
      <3> QED  BY <3>2, <3>3 DEF n
    <2>2. /\ RemoveAt(pop, Len(pop)) \in Seq(Members)
          /\ Len(RemoveAt(pop, Len(pop))) = Len(pop) - 1
          /\ \A j \in 1..(Len(pop) - 1) : RemoveAt(pop, Len(pop))[j] = pop[j]
      BY <1>1, RemoveAtFacts
    <2> QED  BY <2>1, <2>2
  <1> QED  BY <1>1, <1>2 DEF RoomFor

\* The four ways of a candidate.
LEMMA Ways ==
  ASSUME NEW pop, Population(pop), NEW a \in Candidates, NEW new, new = AddCandidate(pop, a)
  PROVE  \/ pop = <<>> /\ new = <<Member(a, 0)>>
         \/ /\ pop # <<>> /\ new = pop /\ a.score < pop[Len(pop)].score
         \/ /\ pop # <<>> /\ Len(pop) < PopulationSize
            /\ \A k \in DOMAIN pop : ~LooksLike(a, pop[k])
            /\ new = Seated(pop, Member(a, 0))
         \/ \E q \in DOMAIN pop, n \in Nat :
              /\ pop[q].score < a.score \/ (q = Len(pop) /\ pop[q].score <= a.score)
              /\ LooksLike(a, pop[q]) \/ \A k \in DOMAIN pop : ~LooksLike(a, pop[k])
              /\ new = Seated(RemoveAt(pop, q), Member(a, n))
         \/ \E q \in DOMAIN pop : pop[q].score >= a.score /\ new = Rediscovered(pop, q)
PROOF
  <1> DEFINE i == FirstAlike(pop, a)
  <1>1. CASE pop = <<>>
    BY <1>1 DEF AddCandidate
  <1>2. CASE pop # <<>>
    <2>1. /\ pop \in Seq(Members) /\ Len(pop) <= PopulationSize /\ Len(pop) \in Nat
          /\ Len(pop) \in DOMAIN pop /\ a.score \in Int
          /\ \A k \in DOMAIN pop : pop[k].score \in Int /\ pop[k].looks \in Nat
      BY <1>2, MemberFields, RoomForFacts DEF Population, Candidates
    <2>2. Last(pop) = pop[Len(pop)]  BY DEF Last
    <2>3. CASE a.score < pop[Len(pop)].score /\ Len(pop) = PopulationSize
      BY <1>2, <2>2, <2>3 DEF AddCandidate
    <2>4. CASE /\ ~(a.score < pop[Len(pop)].score /\ Len(pop) = PopulationSize)
               /\ i = 0
      <3>1. \A k \in DOMAIN pop : ~LooksLike(a, pop[k])
        BY <2>1, <2>4, FirstAlikeFacts
      <3>2. new = Seated(RoomFor(pop), Member(a, 0))
        BY <1>2, <2>2, <2>4 DEF AddCandidate
      <3>3. CASE Len(pop) = PopulationSize
        <4>1. new = Seated(RemoveAt(pop, Len(pop)), Member(a, 0))
          BY <1>2, <2>1, <3>2, <3>3, RoomForFacts
        <4>2. pop[Len(pop)].score <= a.score  BY <2>1, <2>4, <3>3
        <4> QED  BY <2>1, <3>1, <4>1, <4>2
      <3>4. CASE Len(pop) # PopulationSize
        <4>1. new = Seated(pop, Member(a, 0))
          BY <1>2, <2>1, <3>2, <3>4, RoomForFacts
        <4>2. Len(pop) < PopulationSize  BY <2>1, <3>4, PopulationAssumption
        <4> QED  BY <1>2, <3>1, <4>1, <4>2
      <3> QED  BY <3>3, <3>4
    <2>5. CASE /\ ~(a.score < pop[Len(pop)].score /\ Len(pop) = PopulationSize)
               /\ i # 0
      <3>1. i \in DOMAIN pop /\ LooksLike(a, pop[i])
        BY <2>1, <2>5, FirstAlikeFacts
      <3>2. new = IF Supersedes(pop[i], a)
                  THEN Seated(RemoveAt(pop, i), Member(a, pop[i].looks + 1))
                  ELSE Rediscovered(pop, i)
        BY <1>2, <2>2, <2>5 DEF AddCandidate
      <3> HIDE DEF i
      <3>3. CASE Supersedes(pop[i], a)
        <4>1. pop[i].looks + 1 \in Nat  BY <2>1, <3>1
        <4> QED  BY <3>1, <3>2, <3>3, <4>1 DEF Supersedes
      <3>4. CASE ~Supersedes(pop[i], a)
        BY <2>1, <3>1, <3>2, <3>4 DEF Supersedes
      <3> QED  BY <3>3, <3>4
    <2> QED  BY <2>3, <2>4, <2>5
  <1> QED  BY <1>1, <1>2

\* Every step of an update keeps the population in order and within its size,
\* adds no structure but the candidate's, lets no rank get worse, and leaves
\* the candidate no better than the best member.
LEMMA AddCandidateFacts ==
  ASSUME NEW pop, Population(pop), NEW a \in Candidates, NEW new, new = AddCandidate(pop, a)
  PROVE  /\ Population(new) /\ Of(new, pop, a) /\ NoRankWorse(new, pop)
         /\ 1 \in DOMAIN new /\ new[1].score >= a.score
PROOF
  <1>1. /\ pop \in Seq(Members) /\ Len(pop) \in Nat /\ Len(pop) <= PopulationSize
        /\ Descending(pop) /\ DOMAIN pop = 1..Len(pop) /\ a.score \in Int
        /\ \A k \in DOMAIN pop : pop[k].score \in Int
        /\ \A k \in DOMAIN pop : 1 \in DOMAIN pop /\ pop[1].score >= pop[k].score
    BY MemberFields DEF Population, Candidates, Descending
  <1>2. CASE pop = <<>> /\ new = <<Member(a, 0)>>
    <2>1. Member(a, 0) \in Members /\ Carries(Member(a, 0), a)  BY MemberFacts
    <2>2. new \in Seq(Members) /\ Len(new) = 1 /\ DOMAIN new = {1} /\ new[1] = Member(a, 0)
      <3> DEFINE m == Member(a, 0)
      <3>1. m \in Members /\ new = <<m>>  BY <1>2, <2>1
      <3> HIDE DEF m
      <3>2. new \in Seq(Members) /\ Len(new) = 1 /\ DOMAIN new = {1} /\ new[1] = m
        BY <3>1
      <3> QED  BY <3>2 DEF m
    <2>3. new[1].score = a.score  BY <2>1, <2>2 DEF Carries
    <2>4. Descending(new)  BY <1>1, <2>2, <2>3 DEF Descending
    <2>5. DOMAIN pop = {}  BY <1>2
    <2> QED  BY <1>1, <2>1, <2>2, <2>3, <2>4, <2>5, PopulationAssumption
             DEF Population, Of, NoRankWorse
  <1>3. CASE pop # <<>> /\ new = pop /\ a.score < pop[Len(pop)].score
    <2>1. Len(pop) \in DOMAIN pop  BY <1>1, <1>3, RoomForFacts
    <2>2. pop[1].score >= a.score /\ 1 \in DOMAIN pop  BY <1>1, <1>3, <2>1
    <2> QED  BY <1>1, <1>3, <2>2 DEF Population, Of, NoRankWorse, Carries
  <1>4. CASE /\ pop # <<>> /\ Len(pop) < PopulationSize
             /\ new = Seated(pop, Member(a, 0))
    <2> DEFINE m == Member(a, 0)
    <2>1. m \in Members /\ Carries(m, a) /\ m.score = a.score  BY MemberFacts DEF Carries
    <2> HIDE DEF m
    <2>2. PICK p : InSeat(Seated(pop, m), pop, m, p)
      BY <1>1, <2>1, SeatedFacts
    <2>3. new = Seated(pop, m)  BY <1>4 DEF m
    <2>4. /\ p \in 1..(Len(pop) + 1)
          /\ new \in Seq(Members) /\ Len(new) = Len(pop) + 1
          /\ \A j \in 1..(Len(pop) + 1) :
               new[j] = IF j < p THEN pop[j] ELSE IF j = p THEN m ELSE pop[j - 1]
          /\ \A i \in DOMAIN pop : i < p <=> pop[i].score >= m.score
          /\ Descending(new)
      <3>1. InSeat(new, pop, m, p)  BY <2>2, <2>3
      <3> QED  BY <3>1 DEF InSeat
    <2>5. /\ new \in Seq(Members) /\ DOMAIN new = 1..(Len(pop) + 1)
          /\ Population(new)
      <3>1. new \in Seq(Members) /\ Len(new) = Len(pop) + 1 /\ Descending(new)
        BY <2>4
      <3>2. Len(new) <= PopulationSize
        BY <1>1, <1>4, <3>1, PopulationAssumption
      <3>3. DOMAIN new = 1..(Len(pop) + 1)  BY <1>1, <3>1
      <3> QED  BY <3>1, <3>2, <3>3 DEF Population
    <2>6. Of(new, pop, a)
      <3> SUFFICES ASSUME NEW i \in 1..(Len(pop) + 1)
                   PROVE  Carries(new[i], a) \/ \E k \in DOMAIN pop : Carries(new[i], pop[k])
        BY <2>5 DEF Of
      <3>1. new[i] = m \/ \E k \in 1..Len(pop) : new[i] = pop[k]
        <4>0. /\ Len(pop) \in Nat /\ p \in 1..(Len(pop) + 1)
              /\ new[i] = IF i < p THEN pop[i] ELSE IF i = p THEN m ELSE pop[i - 1]
          BY <1>1, <2>4
        <4>1. CASE i < p
          <5>1. i \in 1..Len(pop) /\ new[i] = pop[i]  BY <4>0, <4>1
          <5> QED  BY <5>1
        <4>2. CASE i = p  BY <4>0, <4>2
        <4>3. CASE i > p
          <5>1. i - 1 \in 1..Len(pop) /\ new[i] = pop[i - 1]  BY <4>0, <4>3
          <5> QED  BY <5>1
        <4> QED  BY <4>0, <4>1, <4>2, <4>3
      <3> QED  BY <1>1, <2>1, <3>1 DEF Carries
    <2>7. NoRankWorse(new, pop)
      <3> SUFFICES ASSUME NEW i \in 1..Len(pop)  PROVE new[i].score >= pop[i].score
        BY <1>1, <2>5 DEF NoRankWorse
      <3>0. /\ Len(pop) \in Nat /\ p \in 1..(Len(pop) + 1) /\ pop[i].score \in Int
            /\ new[i] = IF i < p THEN pop[i] ELSE IF i = p THEN m ELSE pop[i - 1]
            /\ i < p <=> pop[i].score >= m.score
        BY <1>1, <2>4
      <3>1. CASE i < p  BY <3>0, <3>1
      <3>2. CASE i = p  BY <1>1, <2>1, <3>0, <3>2
      <3>3. CASE i > p
        <4>1. i - 1 \in 1..Len(pop) /\ new[i] = pop[i - 1]  BY <3>0, <3>3
        <4> QED  BY <1>1, <4>1 DEF Descending
      <3> QED  BY <3>0, <3>1, <3>2, <3>3
    <2>8. 1 \in DOMAIN new /\ new[1].score >= a.score
      <3>0. /\ Len(pop) \in Nat /\ p \in 1..(Len(pop) + 1) /\ 1 \in DOMAIN new
            /\ new[1] = IF 1 < p THEN pop[1] ELSE IF 1 = p THEN m ELSE pop[1 - 1]
        BY <1>1, <2>4, <2>5
      <3>1. CASE p = 1  BY <1>1, <2>1, <3>0, <3>1
      <3>2. CASE p > 1
        <4>1. 1 \in DOMAIN pop /\ new[1] = pop[1]  BY <1>1, <3>0, <3>2
        <4>2. pop[1].score >= m.score  BY <2>4, <3>2, <4>1
        <4> QED  BY <2>1, <3>0, <4>1, <4>2
      <3> QED  BY <3>0, <3>1, <3>2
    <2> QED  BY <2>5, <2>6, <2>7, <2>8
  <1>5. ASSUME NEW q \in DOMAIN pop, NEW n \in Nat,
               pop[q].score < a.score \/ (q = Len(pop) /\ pop[q].score <= a.score),
               new = Seated(RemoveAt(pop, q), Member(a, n))
        PROVE  /\ Population(new) /\ Of(new, pop, a) /\ NoRankWorse(new, pop)
               /\ 1 \in DOMAIN new /\ new[1].score >= a.score
    <2> DEFINE m == Member(a, n)
    <2>1. m \in Members /\ Carries(m, a) /\ m.score = a.score  BY MemberFacts DEF Carries
    <2>2. new = Seated(RemoveAt(pop, q), m)  BY <1>5
    <2> HIDE DEF m
    <2>3. pop[q].score < m.score \/ (q = Len(pop) /\ pop[q].score <= m.score)
      BY <1>5, <2>1
    <2>4. /\ new \in Seq(Members) /\ Len(new) = Len(pop) /\ Descending(new)
          /\ \E p \in 1..q : \A i \in 1..Len(pop) :
               new[i] = IF i < p \/ i > q THEN pop[i] ELSE IF i = p THEN m ELSE pop[i - 1]
          /\ \A i \in DOMAIN pop : i \in DOMAIN new /\ new[i].score >= pop[i].score
          /\ new[1].score >= m.score
      <3>1. InsteadOf(new, pop, m, q)  BY <1>1, <2>1, <2>2, <2>3, ReplacedFacts
      <3> QED  BY <3>1 DEF InsteadOf
    <2>5. DOMAIN new = 1..Len(pop) /\ 1 \in DOMAIN new  BY <1>1, <2>4
    <2>6. Of(new, pop, a)
      <3> SUFFICES ASSUME NEW i \in 1..Len(pop)
                   PROVE  Carries(new[i], a) \/ \E k \in DOMAIN pop : Carries(new[i], pop[k])
        BY <2>5 DEF Of
      <3>1. new[i] = m \/ \E k \in 1..Len(pop) : new[i] = pop[k]
        <4>1. PICK p \in 1..q :
                new[i] = IF i < p \/ i > q THEN pop[i] ELSE IF i = p THEN m ELSE pop[i - 1]
          BY <1>1, <2>4
        <4>2. CASE i < p \/ i > q  BY <4>1, <4>2
        <4>3. CASE i = p  BY <1>1, <4>1, <4>3
        <4>4. CASE i > p /\ i <= q
          <5>1. i - 1 \in 1..Len(pop) /\ new[i] = pop[i - 1]  BY <1>1, <4>1, <4>4
          <5> QED  BY <5>1
        <4> QED  BY <1>1, <4>1, <4>2, <4>3, <4>4
      <3> QED  BY <1>1, <2>1, <3>1 DEF Carries
    <2> QED  BY <1>1, <2>1, <2>4, <2>5, <2>6 DEF Population, NoRankWorse
  <1>6. ASSUME NEW q \in DOMAIN pop, pop[q].score >= a.score, new = Rediscovered(pop, q)
        PROVE  /\ Population(new) /\ Of(new, pop, a) /\ NoRankWorse(new, pop)
               /\ 1 \in DOMAIN new /\ new[1].score >= a.score
    <2>1. /\ new \in Seq(Members) /\ DOMAIN new = DOMAIN pop /\ Len(new) = Len(pop)
          /\ \A i \in DOMAIN pop : Carries(new[i], pop[i])
      BY <1>1, <1>6, RediscoveredFacts
    <2>2. \A i \in DOMAIN pop : new[i].score = pop[i].score  BY <2>1 DEF Carries
    <2>3. Descending(new)  BY <1>1, <2>1, <2>2 DEF Descending
    <2>4. 1 \in DOMAIN pop /\ pop[1].score >= a.score  BY <1>1, <1>6
    <2> QED  BY <1>1, <2>1, <2>2, <2>3, <2>4 DEF Population, Of, NoRankWorse
  <1> QED  BY <1>2, <1>3, <1>4, <1>5, <1>6, Ways

-----------------------------------------------------------------------------
(* No two members look alike. *)

Near(x, y) == x - y \in -Tolerance..Tolerance

\* Looking alike is an equivalence on these shapes.
Transitive(shapes) ==
  \A x, y, z \in shapes : Near(x, y) /\ Near(y, z) => Near(x, z)

ShapesIn(pop, shapes) == \A i \in DOMAIN pop : pop[i].shape \in shapes

Distinct(pop) == \A i, k \in DOMAIN pop : LooksLike(pop[i], pop[k]) => i = k

\* Nobody looks alike when each comes from another member of before, or is
\* the candidate, whom none of those looks like.
LEMMA DistinctFrom ==
  ASSUME NEW pop \in Seq(Members), NEW new \in Seq(Members), NEW a \in Candidates,
         Distinct(pop),
         NEW from \in [DOMAIN new -> {0} \cup DOMAIN pop],
         \A i, k \in DOMAIN new : from[i] = from[k] => i = k,
         \A i \in DOMAIN new :
           IF from[i] = 0 THEN new[i].shape = a.shape
           ELSE new[i].shape = pop[from[i]].shape /\ ~LooksLike(a, pop[from[i]])
  PROVE  Distinct(new)
PROOF
  <1>1. a.shape \in Int  BY DEF Candidates
  <1>2. \A i \in DOMAIN pop : pop[i].shape \in Int  BY MemberFields
  <1>3. 0 \notin DOMAIN pop  OBVIOUS
  <1> SUFFICES ASSUME NEW i \in DOMAIN new, NEW k \in DOMAIN new,
                      LooksLike(new[i], new[k])
               PROVE  i = k
    BY DEF Distinct
  <1>4. CASE from[i] = 0 /\ from[k] = 0  BY <1>4
  <1>5. CASE from[i] = 0 /\ from[k] # 0
    BY <1>1, <1>2, <1>5, PopulationAssumption DEF LooksLike
  <1>6. CASE from[i] # 0 /\ from[k] = 0
    <2>1. from[i] \in DOMAIN pop  BY <1>6
    <2>2. a.shape - pop[from[i]].shape \in -Tolerance..Tolerance
      BY <1>1, <1>2, <1>6, <2>1, PopulationAssumption DEF LooksLike
    <2> QED  BY <1>6, <2>2 DEF LooksLike
  <1>7. CASE from[i] # 0 /\ from[k] # 0
    <2>1. LooksLike(pop[from[i]], pop[from[k]])  BY <1>7 DEF LooksLike
    <2>2. from[i] \in DOMAIN pop /\ from[k] \in DOMAIN pop  BY <1>7
    <2> QED  BY <2>1, <2>2 DEF Distinct
  <1> QED  BY <1>4, <1>5, <1>6, <1>7

\* A candidate enters with none beside it that it looks like.
LEMMA AddCandidateDistinct ==
  ASSUME NEW pop, Population(pop), NEW a \in Candidates, NEW new, new = AddCandidate(pop, a),
         NEW shapes, Transitive(shapes), ShapesIn(pop, shapes), a.shape \in shapes,
         Distinct(pop)
  PROVE  Distinct(new)
PROOF
  <1>1. /\ pop \in Seq(Members) /\ Len(pop) \in Nat /\ Descending(pop)
        /\ DOMAIN pop = 1..Len(pop) /\ a.shape \in Int
        /\ \A k \in DOMAIN pop : pop[k].shape \in Int
    BY MemberFields DEF Population, Candidates
  <1>2. new \in Seq(Members)
    BY AddCandidateFacts DEF Population
  <1>3. CASE pop = <<>> /\ new = <<Member(a, 0)>>
    BY <1>3 DEF Distinct
  <1>4. CASE new = pop
    BY <1>4
  <1>5. CASE /\ \A k \in DOMAIN pop : ~LooksLike(a, pop[k])
             /\ new = Seated(pop, Member(a, 0))
    <2> DEFINE m == Member(a, 0)
    <2>1. m \in Members /\ m.shape = a.shape  BY MemberFacts DEF Carries
    <2>2. new = Seated(pop, m)  BY <1>5
    <2> HIDE DEF m
    <2>3. PICK p \in 1..(Len(pop) + 1) :
            /\ Len(new) = Len(pop) + 1
            /\ \A j \in 1..(Len(pop) + 1) :
                 new[j] = IF j < p THEN pop[j] ELSE IF j = p THEN m ELSE pop[j - 1]
      <3>1. PICK p : InSeat(Seated(pop, m), pop, m, p)
        BY <1>1, <2>1, SeatedFacts
      <3>2. InSeat(new, pop, m, p)  BY <2>2, <3>1
      <3> QED  BY <3>2 DEF InSeat
    <2> DEFINE from == [j \in 1..(Len(pop) + 1) |->
                          IF j < p THEN j ELSE IF j = p THEN 0 ELSE j - 1]
    <2>4. DOMAIN new = 1..(Len(pop) + 1)  BY <1>1, <1>2, <2>3
    <2>5. from \in [DOMAIN new -> {0} \cup DOMAIN pop]  BY <1>1, <2>4
    <2>6. \A i, k \in DOMAIN new : from[i] = from[k] => i = k  BY <1>1, <2>4
    <2>7. ASSUME NEW i \in DOMAIN new
          PROVE  IF from[i] = 0 THEN new[i].shape = a.shape
                 ELSE new[i].shape = pop[from[i]].shape /\ ~LooksLike(a, pop[from[i]])
      <3>1. from[i] = 0 <=> i = p  BY <1>1, <2>4
      <3>2. new[i] = IF from[i] = 0 THEN m ELSE pop[from[i]]
        BY <1>1, <2>3, <2>4
      <3>3. from[i] # 0 => from[i] \in DOMAIN pop  BY <2>5
      <3> HIDE DEF from
      <3> QED  BY <1>5, <2>1, <3>2, <3>3
    <2> HIDE DEF from
    <2> QED  BY <1>1, <1>2, <2>5, <2>6, <2>7, DistinctFrom
  <1>6. ASSUME NEW q \in DOMAIN pop, NEW n \in Nat,
               pop[q].score < a.score \/ (q = Len(pop) /\ pop[q].score <= a.score),
               LooksLike(a, pop[q]) \/ \A k \in DOMAIN pop : ~LooksLike(a, pop[k]),
               new = Seated(RemoveAt(pop, q), Member(a, n))
        PROVE  Distinct(new)
    <2> DEFINE m == Member(a, n)
    <2>1. m \in Members /\ m.shape = a.shape /\ m.score = a.score
      BY MemberFacts DEF Carries
    <2>2. new = Seated(RemoveAt(pop, q), m)  BY <1>6
    <2> HIDE DEF m
    <2>3. pop[q].score < m.score \/ (q = Len(pop) /\ pop[q].score <= m.score)
      BY <1>6, <2>1
    <2>4. /\ Len(new) = Len(pop)
          /\ \E p \in 1..q : \A i \in 1..Len(pop) :
               new[i] = IF i < p \/ i > q THEN pop[i] ELSE IF i = p THEN m ELSE pop[i - 1]
      <3>1. InsteadOf(new, pop, m, q)  BY <1>1, <2>1, <2>2, <2>3, ReplacedFacts
      <3> QED  BY <3>1 DEF InsteadOf
    <2>5. PICK p \in 1..q : \A i \in 1..Len(pop) :
            new[i] = IF i < p \/ i > q THEN pop[i] ELSE IF i = p THEN m ELSE pop[i - 1]
      BY <2>4
    <2> DEFINE from == [i \in 1..Len(pop) |->
                          IF i < p \/ i > q THEN i ELSE IF i = p THEN 0 ELSE i - 1]
    <2>6. DOMAIN new = 1..Len(pop) /\ q \in 1..Len(pop)  BY <1>1, <1>2, <2>4
    <2>7. from \in [DOMAIN new -> {0} \cup DOMAIN pop]  BY <1>1, <2>6
    <2>8. \A i, k \in DOMAIN new : from[i] = from[k] => i = k  BY <1>1, <2>6
    <2>9. \A i \in DOMAIN new : from[i] # q  BY <1>1, <2>6
    <2>10. \A i \in DOMAIN new : new[i] = IF from[i] = 0 THEN m ELSE pop[from[i]]
      BY <1>1, <2>5, <2>6
    <2> HIDE DEF from
    <2>11. ASSUME NEW k \in DOMAIN pop, k # q  PROVE ~LooksLike(a, pop[k])
      <3> SUFFICES ASSUME LooksLike(a, pop[k])  PROVE FALSE
        OBVIOUS
      <3>1. LooksLike(a, pop[q])  BY <1>6
      <3>2. Near(pop[q].shape, a.shape) /\ Near(a.shape, pop[k].shape)
        BY <1>1, <3>1, PopulationAssumption DEF LooksLike, Near
      <3>3. Near(pop[q].shape, pop[k].shape)
        BY <3>2 DEF Transitive, ShapesIn
      <3> QED  BY <2>11, <3>3 DEF Distinct, LooksLike, Near
    <2>12. ASSUME NEW i \in DOMAIN new
           PROVE  IF from[i] = 0 THEN new[i].shape = a.shape
                  ELSE new[i].shape = pop[from[i]].shape /\ ~LooksLike(a, pop[from[i]])
      <3>1. from[i] # 0 => from[i] \in DOMAIN pop  BY <2>7
      <3> QED  BY <2>1, <2>9, <2>10, <2>11, <3>1
    <2> QED  BY <1>1, <1>2, <2>7, <2>8, <2>12, DistinctFrom
  <1>7. ASSUME NEW q \in DOMAIN pop, new = Rediscovered(pop, q)
        PROVE  Distinct(new)
    <2>1. DOMAIN new = DOMAIN pop /\ \A i \in DOMAIN pop : new[i].shape = pop[i].shape
      BY <1>1, <1>7, RediscoveredFacts DEF Carries
    <2> QED  BY <2>1 DEF Distinct, LooksLike
  <1> QED  BY <1>3, <1>4, <1>5, <1>6, <1>7, Ways

-----------------------------------------------------------------------------
(* One candidate after another. *)

\* The recursion of Stages has a solution, which is what it says.
LEMMA StagesFacts ==
  ASSUME NEW initial, NEW pop, NEW order, Len(order) \in Nat
  PROVE  /\ Stages(initial, pop, order)[0] = pop
         /\ \A n \in 1..Len(order) :
              Stages(initial, pop, order)[n] =
                Entered(initial, Stages(initial, pop, order)[n - 1], order[n])
PROOF
  <1> DEFINE Solves(f, n) ==
               f = [k \in 0..n |-> IF k = 0 THEN pop
                                   ELSE Entered(initial, f[k - 1], order[k])]
             T == {n \in 0..Len(order) : ~\E f : Solves(f, n)}
  <1>1. T = {}
    <2> SUFFICES ASSUME T # {}  PROVE FALSE
      OBVIOUS
    <2>1. PICK n \in T : \A m \in T : n <= m
      <3>1. T \in SUBSET Nat  OBVIOUS
      <3> HIDE DEF T
      <3> QED  BY <3>1, LeastNumber
    <2>2. n \in 0..Len(order) /\ ~\E f : Solves(f, n)  BY <2>1
    <2>3. CASE n = 0
      <3> DEFINE f == [k \in 0..0 |-> pop]
      <3>1. Solves(f, 0)  OBVIOUS
      <3> HIDE DEF f, Solves
      <3> QED  BY <2>2, <2>3, <3>1
    <2>4. CASE n # 0
      <3>1. n - 1 \in 0..Len(order) /\ n - 1 \notin T
        <4>1. n - 1 \in 0..Len(order) /\ ~(n <= n - 1)  BY <2>2, <2>4
        <4> HIDE DEF T
        <4> QED  BY <2>1, <4>1
      <3>2. PICK f : Solves(f, n - 1)
        <4> HIDE DEF Solves
        <4> QED  BY <3>1
      <3> DEFINE g == [k \in 0..n |-> IF k < n THEN f[k]
                                      ELSE Entered(initial, f[n - 1], order[n])]
      <3>3. \A k \in 0..(n - 1) : f[k] = IF k = 0 THEN pop
                                         ELSE Entered(initial, f[k - 1], order[k])
        BY <3>2
      <3>4. ASSUME NEW k \in 0..n
            PROVE  g[k] = IF k = 0 THEN pop ELSE Entered(initial, g[k - 1], order[k])
        <4>1. CASE k = 0
          <5>1. 0 \in 0..(n - 1) /\ 0 \in 0..n /\ 0 < n  BY <2>2, <2>4
          <5>2. g[0] = f[0]  BY <5>1
          <5>3. f[0] = pop  BY <3>3, <5>1
          <5> QED  BY <4>1, <5>2, <5>3
        <4>2. CASE k # 0 /\ k < n
          <5>1. k \in 0..(n - 1) /\ k - 1 \in 0..n /\ k - 1 < n  BY <2>2, <4>2
          <5>2. g[k] = f[k] /\ g[k - 1] = f[k - 1]  BY <4>2, <5>1
          <5> QED  BY <3>3, <4>2, <5>1, <5>2
        <4>3. CASE k = n
          <5>1. n - 1 \in 0..n /\ n - 1 < n  BY <2>2, <2>4
          <5>2. g[n - 1] = f[n - 1]  BY <5>1
          <5>3. g[n] = Entered(initial, f[n - 1], order[n])  BY <2>2
          <5> QED  BY <2>4, <4>3, <5>2, <5>3
        <4> QED  BY <2>2, <4>1, <4>2, <4>3
      <3>5. Solves(g, n)
        <4>1. g = [k \in 0..n |-> g[k]]  OBVIOUS
        <4> HIDE DEF g
        <4> QED  BY <3>4, <4>1
      <3> HIDE DEF g, Solves
      <3> QED  BY <2>2, <3>5
    <2> QED  BY <2>3, <2>4
  <1>2. \E f : Solves(f, Len(order))
    <2> HIDE DEF Solves
    <2> QED  BY <1>1
  <1> DEFINE s == Stages(initial, pop, order)
  <1>3. s = CHOOSE f : Solves(f, Len(order))
    BY DEF Stages
  <1>4. Solves(s, Len(order))
    <2> HIDE DEF Solves, s
    <2> QED  BY <1>2, <1>3
  <1>5. \A n \in 0..Len(order) :
          s[n] = IF n = 0 THEN pop ELSE Entered(initial, s[n - 1], order[n])
    <2> HIDE DEF s
    <2> QED  BY <1>4
  <1> HIDE DEF s, T, Solves
  <1>6. 0 \in 0..Len(order) /\ \A n \in 1..Len(order) : n \in 0..Len(order) /\ n # 0
    OBVIOUS
  <1>7. s[0] = pop /\ \A n \in 1..Len(order) : s[n] = Entered(initial, s[n - 1], order[n])
    BY <1>5, <1>6
  <1> QED  BY <1>7 DEF s

\* The structures of new are those of pop or of candidates.
From(new, pop, candidates) ==
  \A i \in DOMAIN new :
    \/ \E a \in candidates : Carries(new[i], a)
    \/ \E k \in DOMAIN pop : Carries(new[i], pop[k])

\* What the best member of a population is measured against.
NoneBetter(new, a) == 1 \in DOMAIN new /\ new[1].score >= a.score

\* s is what becomes of pop as the candidates come, best first.
GoesThrough(s, initial, pop, C) ==
  /\ s[0] = pop /\ Cardinality(C) \in Nat
  /\ \A n \in 1..Cardinality(C) :
       s[n] = Entered(initial, s[n - 1], Sorted(C)[n]) /\ Sorted(C)[n] \in C

\* The candidates go through Stages one after the other.
LEMMA SortedStages ==
  ASSUME NEW initial, NEW pop, NEW C, IdsDiffer(C)
  PROVE  GoesThrough(Stages(initial, pop, Sorted(C)), initial, pop, C)
PROOF
  <1> DEFINE s == Stages(initial, pop, Sorted(C))
  <1>1. /\ Cardinality(C) \in Nat /\ Len(Sorted(C)) = Cardinality(C)
        /\ Sorted(C) \in [1..Cardinality(C) -> C]
    BY SortedFacts
  <1>2. /\ s[0] = pop
        /\ \A n \in 1..Len(Sorted(C)) : s[n] = Entered(initial, s[n - 1], Sorted(C)[n])
    BY <1>1, StagesFacts
  <1>3. \A n \in 1..Cardinality(C) : Sorted(C)[n] \in C  BY <1>1
  <1>4. \A n \in 1..Cardinality(C) : s[n] = Entered(initial, s[n - 1], Sorted(C)[n])
    <2> HIDE DEF s
    <2> QED  BY <1>1, <1>2
  <1> HIDE DEF s
  <1>5. GoesThrough(s, initial, pop, C)  BY <1>1, <1>2, <1>3, <1>4 DEF GoesThrough
  <1> QED  BY <1>5 DEF s

\* Whatever candidates an update is given, the population stays in order and
\* within its size, no rank of it gets worse, its structures are those of before
\* and of the candidates, and none of these is better than its best member.
THEOREM UpdateImproves ==
  ASSUME NEW pop, Population(pop), NEW C, IdsDiffer(C)
  PROVE  /\ Population(UpdatedWith(pop, C))
         /\ NoRankWorse(UpdatedWith(pop, C), pop)
         /\ From(UpdatedWith(pop, C), pop, C)
         /\ \A a \in C : NoneBetter(UpdatedWith(pop, C), a)
PROOF
  <1> DEFINE N == Cardinality(C)
             order == Sorted(C)
             s == Stages(FALSE, pop, order)
             Holds(n) == /\ Population(s[n]) /\ NoRankWorse(s[n], pop) /\ From(s[n], pop, C)
                         /\ \A i \in 1..n : NoneBetter(s[n], order[i])
             T == {n \in 0..N : ~Holds(n)}
  <1>1. /\ s[0] = pop /\ N \in Nat
        /\ \A n \in 1..N : s[n] = AddCandidate(s[n - 1], order[n]) /\ order[n] \in C
    <2>1. GoesThrough(s, FALSE, pop, C)  BY SortedStages
    <2>2. \A old, a : Entered(FALSE, old, a) = AddCandidate(old, a)  BY DEF Entered
    <2> HIDE DEF s
    <2> QED  BY <2>1, <2>2 DEF GoesThrough
  <1>2. \A a \in C : \E i \in 1..N : order[i] = a  BY SortedFacts
  <1>3. UpdatedWith(pop, C) = s[N]  BY DEF UpdatedWith
  <1>4. \A a \in C : a \in Candidates /\ a.score \in Int  BY DEF IdsDiffer, Candidates
  <1> HIDE DEF s, order, N
  <1>5. T = {}
    <2> SUFFICES ASSUME T # {}  PROVE FALSE
      OBVIOUS
    <2>1. PICK n \in T : \A m \in T : n <= m
      <3>1. T \in SUBSET Nat  BY <1>1
      <3> HIDE DEF T
      <3> QED  BY <3>1, LeastNumber
    <2>2. n \in 0..N /\ ~Holds(n)  BY <2>1
    <2>3. CASE n = 0
      <3>1. \A i \in DOMAIN pop : pop[i].score \in Int
        BY MemberFields DEF Population
      <3>2. Population(s[0]) /\ NoRankWorse(s[0], pop) /\ From(s[0], pop, C)
        BY <1>1, <3>1 DEF NoRankWorse, From, Carries
      <3>3. Holds(0)  BY <3>2
      <3> QED  BY <2>2, <2>3, <3>3
    <2>4. CASE n # 0
      <3>1. n \in 1..N /\ n - 1 \in 0..N /\ n - 1 \notin T
        <4>1. n \in 1..N /\ n - 1 \in 0..N /\ ~(n <= n - 1)  BY <1>1, <2>2, <2>4
        <4> HIDE DEF T
        <4> QED  BY <2>1, <4>1
      <3>2. Holds(n - 1)
        <4> HIDE DEF Holds
        <4> QED  BY <3>1
      <3> DEFINE old == s[n - 1]
                 a == order[n]
                 new == s[n]
      <3>3. /\ new = AddCandidate(old, a) /\ a \in C /\ a \in Candidates
            /\ Population(old) /\ NoRankWorse(old, pop) /\ From(old, pop, C)
            /\ \A i \in 1..(n - 1) : NoneBetter(old, order[i])
        BY <1>1, <1>4, <3>1, <3>2
      <3>4. \A i \in 1..n : order[i].score \in Int /\ (i = n \/ i \in 1..(n - 1))
        BY <1>1, <1>4, <2>2
      <3> HIDE DEF old, new
      <3>5. /\ Population(new) /\ Of(new, old, a) /\ NoRankWorse(new, old)
            /\ 1 \in DOMAIN new /\ new[1].score >= a.score
        BY <3>3, AddCandidateFacts
      <3>6. /\ \A i \in DOMAIN old : old[i].score \in Int
            /\ \A i \in DOMAIN pop : pop[i].score \in Int
            /\ \A i \in DOMAIN new : new[i].score \in Int
        BY <3>3, <3>5, MemberFields DEF Population
      <3>7. NoRankWorse(new, pop)
        BY <3>3, <3>5, <3>6 DEF NoRankWorse
      <3>8. From(new, pop, C)
        BY <3>3, <3>5 DEF From, Of, Carries
      <3>9. ASSUME NEW i \in 1..n  PROVE NoneBetter(new, order[i])
        <4>1. CASE i = n  BY <3>5, <4>1 DEF NoneBetter
        <4>2. CASE i \in 1..(n - 1)
          <5>1. 1 \in DOMAIN old /\ old[1].score >= order[i].score
            BY <3>3, <4>2 DEF NoneBetter
          <5> QED  BY <3>4, <3>5, <3>6, <5>1 DEF NoRankWorse, NoneBetter
        <4> QED  BY <3>4, <4>1, <4>2
      <3>10. Holds(n)  BY <3>5, <3>7, <3>8, <3>9 DEF new
      <3> QED  BY <2>2, <3>10
    <2> QED  BY <2>3, <2>4
  <1>6. Holds(N)
    <2> HIDE DEF Holds
    <2> QED  BY <1>1, <1>5
  <1> QED  BY <1>2, <1>3, <1>6

\* As long as the comparator is transitive on the geometries met, no update
\* seats two members that look alike.
THEOREM UpdateKeepsDistinct ==
  ASSUME NEW pop, Population(pop), NEW C, IdsDiffer(C),
         NEW shapes, Transitive(shapes), ShapesIn(pop, shapes),
         \A a \in C : a.shape \in shapes, Distinct(pop)
  PROVE  Distinct(UpdatedWith(pop, C)) /\ ShapesIn(UpdatedWith(pop, C), shapes)
PROOF
  <1> DEFINE N == Cardinality(C)
             order == Sorted(C)
             s == Stages(FALSE, pop, order)
             Holds(n) == Population(s[n]) /\ Distinct(s[n]) /\ ShapesIn(s[n], shapes)
             T == {n \in 0..N : ~Holds(n)}
  <1>1. /\ s[0] = pop /\ N \in Nat
        /\ \A n \in 1..N : s[n] = AddCandidate(s[n - 1], order[n]) /\ order[n] \in C
    <2>1. GoesThrough(s, FALSE, pop, C)  BY SortedStages
    <2>2. \A old, a : Entered(FALSE, old, a) = AddCandidate(old, a)  BY DEF Entered
    <2> HIDE DEF s
    <2> QED  BY <2>1, <2>2 DEF GoesThrough
  <1>2. UpdatedWith(pop, C) = s[N]  BY DEF UpdatedWith
  <1>3. C \subseteq Candidates  BY DEF IdsDiffer
  <1> HIDE DEF s, order, N
  <1>4. T = {}
    <2> SUFFICES ASSUME T # {}  PROVE FALSE
      OBVIOUS
    <2>1. PICK n \in T : \A m \in T : n <= m
      <3>1. T \in SUBSET Nat  BY <1>1
      <3> HIDE DEF T
      <3> QED  BY <3>1, LeastNumber
    <2>2. n \in 0..N /\ ~Holds(n)  BY <2>1
    <2>3. CASE n = 0
      BY <1>1, <2>2, <2>3
    <2>4. CASE n # 0
      <3>1. n \in 1..N /\ n - 1 \in 0..N /\ n - 1 \notin T
        <4>1. n \in 1..N /\ n - 1 \in 0..N /\ ~(n <= n - 1)  BY <1>1, <2>2, <2>4
        <4> HIDE DEF T
        <4> QED  BY <2>1, <4>1
      <3>2. Holds(n - 1)
        <4> HIDE DEF Holds
        <4> QED  BY <3>1
      <3> DEFINE old == s[n - 1]
                 a == order[n]
                 new == s[n]
      <3>3. /\ new = AddCandidate(old, a) /\ a \in C /\ a \in Candidates /\ a.shape \in shapes
            /\ Population(old) /\ Distinct(old) /\ ShapesIn(old, shapes)
        BY <1>1, <1>3, <3>1, <3>2
      <3> HIDE DEF old, a, new
      <3>4. Distinct(new)  BY <3>3, AddCandidateDistinct
      <3>5. Population(new) /\ Of(new, old, a)  BY <3>3, AddCandidateFacts
      <3>6. ShapesIn(new, shapes)
        BY <3>3, <3>5 DEF ShapesIn, Of, Carries
      <3> QED  BY <2>2, <3>4, <3>5, <3>6 DEF new
    <2> QED  BY <2>3, <2>4
  <1>5. Holds(N)
    <2> HIDE DEF Holds
    <2> QED  BY <1>1, <1>4
  <1> QED  BY <1>2, <1>5

\* A first population is filled from the best candidate down.
LEMMA InitialSeatFacts ==
  ASSUME NEW pop, Population(pop), NEW a \in Candidates, NEW new, new = InitialSeat(pop, a),
         \A i \in DOMAIN pop : pop[i].score >= a.score
  PROVE  /\ Population(new) /\ Of(new, pop, a) /\ NoneBetter(new, a)
         /\ \A i \in DOMAIN pop : i \in DOMAIN new /\ new[i].score = pop[i].score
         /\ \A i \in DOMAIN new : new[i].score >= a.score
         /\ Distinct(pop) => Distinct(new)
PROOF
  <1> DEFINE i == FirstAlike(pop, a)
  <1>1. /\ pop \in Seq(Members) /\ Len(pop) \in Nat /\ Len(pop) <= PopulationSize
        /\ Descending(pop) /\ DOMAIN pop = 1..Len(pop) /\ a.score \in Int /\ a.shape \in Int
        /\ \A k \in DOMAIN pop : pop[k].score \in Int /\ pop[k].shape \in Int
    BY MemberFields DEF Population, Candidates
  <1>2. IF i = 0 THEN \A k \in DOMAIN pop : ~LooksLike(a, pop[k])
        ELSE i \in DOMAIN pop /\ LooksLike(a, pop[i])
    BY <1>1, FirstAlikeFacts
  <1>3. CASE i # 0
    <2>1. i \in DOMAIN pop /\ new = Rediscovered(pop, i)
      BY <1>2, <1>3 DEF InitialSeat
    <2> HIDE DEF i
    <2>2. /\ new \in Seq(Members) /\ DOMAIN new = DOMAIN pop /\ Len(new) = Len(pop)
          /\ \A k \in DOMAIN pop : Carries(new[k], pop[k])
      BY <1>1, <2>1, RediscoveredFacts
    <2>3. \A k \in DOMAIN pop : new[k].score = pop[k].score /\ new[k].shape = pop[k].shape
      BY <2>2 DEF Carries
    <2>4. Population(new)
      BY <1>1, <2>2, <2>3 DEF Population, Descending
    <2>5. Of(new, pop, a)  BY <2>2 DEF Of
    <2>6. NoneBetter(new, a)  BY <1>1, <2>1, <2>2, <2>3 DEF NoneBetter
    <2>7. Distinct(pop) => Distinct(new)
      BY <2>2, <2>3 DEF Distinct, LooksLike
    <2> QED  BY <2>2, <2>3, <2>4, <2>5, <2>6, <2>7
  <1>4. CASE i = 0 /\ Len(pop) < PopulationSize
    <2> DEFINE m == Member(a, 0)
    <2>1. m \in Members /\ m.score = a.score /\ m.shape = a.shape /\ Carries(m, a)
      BY MemberFacts DEF Carries
    <2>2. new = Append(pop, m)  BY <1>4 DEF InitialSeat
    <2>3. \A k \in DOMAIN pop : ~LooksLike(a, pop[k])  BY <1>2, <1>4
    <2> HIDE DEF m, i
    <2>4. /\ new \in Seq(Members) /\ Len(new) = Len(pop) + 1 /\ DOMAIN new = 1..(Len(pop) + 1)
          /\ \A k \in 1..Len(pop) : new[k] = pop[k]
          /\ new[Len(pop) + 1] = m
      BY <1>1, <2>1, <2>2
    <2>5. \A k \in DOMAIN new : k \in DOMAIN pop \/ k = Len(pop) + 1
      BY <1>1, <2>4
    <2>6. Population(new)
      <3>1. Len(new) <= PopulationSize  BY <1>1, <1>4, <2>4, PopulationAssumption
      <3>2. ASSUME NEW j \in DOMAIN new, NEW k \in DOMAIN new, j <= k
            PROVE  new[j].score >= new[k].score
        <4>1. CASE k \in DOMAIN pop
          BY <1>1, <2>4, <2>5, <3>2, <4>1 DEF Descending
        <4>2. CASE k = Len(pop) + 1
          BY <1>1, <2>1, <2>4, <2>5, <4>2
        <4> QED  BY <2>5, <4>1, <4>2
      <3> QED  BY <2>4, <3>1, <3>2 DEF Population, Descending
    <2>7. Of(new, pop, a)
      BY <1>1, <2>1, <2>4, <2>5 DEF Of, Carries
    <2>8. \A k \in DOMAIN new : new[k].score >= a.score
      BY <1>1, <2>1, <2>4, <2>5
    <2>9. NoneBetter(new, a)  BY <1>1, <2>4, <2>8 DEF NoneBetter
    <2>10. \A k \in DOMAIN pop : k \in DOMAIN new /\ new[k].score = pop[k].score
      BY <1>1, <2>4
    <2>11. ASSUME Distinct(pop)  PROVE Distinct(new)
      <3> DEFINE from == [k \in 1..(Len(pop) + 1) |-> IF k = Len(pop) + 1 THEN 0 ELSE k]
      <3>1. from \in [DOMAIN new -> {0} \cup DOMAIN pop]  BY <1>1, <2>4
      <3>2. \A j, k \in DOMAIN new : from[j] = from[k] => j = k  BY <1>1, <2>4
      <3>3. \A k \in DOMAIN new :
              IF from[k] = 0 THEN new[k].shape = a.shape
              ELSE new[k].shape = pop[from[k]].shape /\ ~LooksLike(a, pop[from[k]])
        BY <1>1, <2>1, <2>3, <2>4
      <3> HIDE DEF from
      <3> QED  BY <1>1, <2>4, <2>11, <3>1, <3>2, <3>3, DistinctFrom
    <2> QED  BY <2>6, <2>7, <2>8, <2>9, <2>10, <2>11
  <1>5. CASE i = 0 /\ ~(Len(pop) < PopulationSize)
    <2>1. new = pop  BY <1>5 DEF InitialSeat
    <2>2. 1 \in DOMAIN pop  BY <1>1, <1>5, PopulationAssumption
    <2> QED  BY <1>1, <2>1, <2>2 DEF Of, Carries, NoneBetter, Population
  <1> QED  BY <1>3, <1>4, <1>5

\* A first population is in order and within its size, is made of candidates,
\* seats no two that look alike under whatever comparator, and has the best of
\* the candidates first.
THEOREM InitializedIsAPopulation ==
  ASSUME NEW C, IdsDiffer(C)
  PROVE  /\ Population(Initialized(C)) /\ From(Initialized(C), <<>>, C)
         /\ Distinct(Initialized(C))
         /\ \A a \in C : NoneBetter(Initialized(C), a)
PROOF
  <1> DEFINE N == Cardinality(C)
             order == Sorted(C)
             s == Stages(TRUE, <<>>, order)
             Holds(n) == /\ Population(s[n]) /\ From(s[n], <<>>, C) /\ Distinct(s[n])
                         /\ \A i \in 1..n : NoneBetter(s[n], order[i])
                         /\ n > 0 => \A i \in DOMAIN s[n] : s[n][i].score >= order[n].score
                         /\ n = 0 => s[n] = <<>>
             T == {n \in 0..N : ~Holds(n)}
  <1>1. /\ s[0] = <<>> /\ N \in Nat
        /\ \A n \in 1..N : s[n] = InitialSeat(s[n - 1], order[n]) /\ order[n] \in C
    <2>1. GoesThrough(s, TRUE, <<>>, C)  BY SortedStages
    <2>2. \A old, a : Entered(TRUE, old, a) = InitialSeat(old, a)  BY DEF Entered
    <2> HIDE DEF s
    <2> QED  BY <2>1, <2>2 DEF GoesThrough
  <1>2. /\ \A a \in C : \E i \in 1..N : order[i] = a
        /\ \A i, j \in 1..N : i < j => order[i].score >= order[j].score
    BY SortedFacts
  <1>3. Initialized(C) = s[N]  BY DEF Initialized
  <1>4. \A a \in C : a \in Candidates /\ a.score \in Int  BY DEF IdsDiffer, Candidates
  <1> HIDE DEF s, order, N
  <1>5. T = {}
    <2> SUFFICES ASSUME T # {}  PROVE FALSE
      OBVIOUS
    <2>1. PICK n \in T : \A m \in T : n <= m
      <3>1. T \in SUBSET Nat  BY <1>1
      <3> HIDE DEF T
      <3> QED  BY <3>1, LeastNumber
    <2>2. n \in 0..N /\ ~Holds(n)  BY <2>1
    <2>3. CASE n = 0
      <3>1. <<>> \in Seq(Members) /\ DOMAIN <<>> = {} /\ Len(<<>>) = 0  OBVIOUS
      <3>2. Population(<<>>) /\ From(<<>>, <<>>, C) /\ Distinct(<<>>)
        BY <3>1, PopulationAssumption DEF Population, Descending, From, Distinct
      <3>3. Holds(0)  BY <1>1, <3>2
      <3> QED  BY <2>2, <2>3, <3>3
    <2>4. CASE n # 0
      <3>1. n \in 1..N /\ n - 1 \in 0..N /\ n - 1 \notin T
        <4>1. n \in 1..N /\ n - 1 \in 0..N /\ ~(n <= n - 1)  BY <1>1, <2>2, <2>4
        <4> HIDE DEF T
        <4> QED  BY <2>1, <4>1
      <3>2. Holds(n - 1)
        <4> HIDE DEF Holds
        <4> QED  BY <3>1
      <3> DEFINE old == s[n - 1]
                 a == order[n]
                 new == s[n]
      <3>3. /\ new = InitialSeat(old, a) /\ a \in C /\ a \in Candidates
            /\ Population(old) /\ From(old, <<>>, C) /\ Distinct(old)
            /\ \A i \in 1..(n - 1) : NoneBetter(old, order[i])
            /\ n - 1 > 0 => \A i \in DOMAIN old : old[i].score >= order[n - 1].score
            /\ n - 1 = 0 => old = <<>>
        BY <1>1, <1>4, <3>1, <3>2
      <3>4. /\ \A i \in 1..n : order[i].score \in Int /\ (i = n \/ i \in 1..(n - 1))
            /\ n - 1 > 0 => order[n - 1].score >= a.score
            /\ a.score \in Int
        BY <1>1, <1>2, <1>4, <2>2, <3>1
      <3> HIDE DEF old, new
      <3>5. \A i \in DOMAIN old : old[i].score \in Int
        BY <3>3, MemberFields DEF Population
      <3>6. ASSUME NEW i \in DOMAIN old  PROVE old[i].score >= a.score
        <4>1. n - 1 > 0
          <5>1. n - 1 = 0 => DOMAIN old = {}  BY <3>3
          <5> QED  BY <3>1, <3>6, <5>1
        <4>2. old[i].score >= order[n - 1].score /\ order[n - 1].score >= a.score
          BY <3>3, <3>4, <3>6, <4>1
        <4>3. order[n - 1].score \in Int
          BY <3>1, <3>4, <4>1
        <4> QED  BY <3>4, <3>5, <4>2, <4>3
      <3> HIDE DEF a
      <3>7. /\ Population(new) /\ Of(new, old, a) /\ NoneBetter(new, a)
            /\ \A i \in DOMAIN old : i \in DOMAIN new /\ new[i].score = old[i].score
            /\ \A i \in DOMAIN new : new[i].score >= a.score
            /\ Distinct(new)
        BY <3>3, <3>6, InitialSeatFacts
      <3>8. From(new, <<>>, C)
        BY <3>3, <3>7 DEF From, Of, Carries
      <3>9. ASSUME NEW i \in 1..n  PROVE NoneBetter(new, order[i])
        <4>1. CASE i = n  BY <3>7, <4>1 DEF a
        <4>2. CASE i \in 1..(n - 1)
          BY <3>3, <3>7, <4>2 DEF NoneBetter
        <4> QED  BY <3>4, <4>1, <4>2
      <3>10. Holds(n)  BY <2>4, <3>7, <3>8, <3>9 DEF new, a
      <3> QED  BY <2>2, <3>10
    <2> QED  BY <2>3, <2>4
  <1>6. Holds(N)
    <2> HIDE DEF Holds
    <2> QED  BY <1>1, <1>5
  <1> QED  BY <1>2, <1>3, <1>6
=============================================================================
