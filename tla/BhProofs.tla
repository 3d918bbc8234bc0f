------------------------------ MODULE BhProofs -------------------------------
(***************************************************************************)
(* What basin hopping and simple optimisation return (BasinHopping), for   *)
(* any geometries, energies, comparator and number of hops and of calls.   *)
(*                                                                         *)
(* The inductive invariant is about the rows of the file: a relaxed one    *)
(* carries the energy of its own geometry and, in basin hopping, is marked *)
(* exactly if its geometry fails the gate, whoever had its tags before; a  *)
(* simple call never finds a relaxed row to add to.  What is returned is   *)
(* then a matter of sorting and of comparing neighbouring bins, for which  *)
(* the ranks of PopulationProofs are used.                                 *)
(***************************************************************************)
EXTENDS BasinHopping, PopulationProofs

-----------------------------------------------------------------------------
(* Bins of energy. *)

\* A product with a positive number keeps the order.
LEMMA Factor ==
  ASSUME NEW w \in Nat \ {0}, NEW x \in Int, NEW y \in Int, w * x < w * y
  PROVE  x < y
PROOF
  <1>1. SUFFICES ASSUME y <= x  PROVE w * y <= w * x
    OBVIOUS
  <1>2. x - y \in Nat /\ w * (x - y) \in Nat  BY <1>1
  <1>3. w * x = w * y + w * (x - y)  BY SMT
  <1> QED  BY <1>2, <1>3

\* Numbers that are less than a width apart are in neighbouring bins.
LEMMA Quotients ==
  ASSUME NEW w \in Nat \ {0}, NEW a \in Nat, NEW b \in Nat, a - b < w, b - a < w
  PROVE  /\ a \div w \in Nat /\ b \div w \in Nat
         /\ a \div w - b \div w \in {-1, 0, 1}
PROOF
  <1> DEFINE q == a \div w
             r == b \div w
  <1>1. /\ q \in Nat /\ w * q <= a /\ a < w * (q + 1)
        /\ r \in Nat /\ w * r <= b /\ b < w * (r + 1)
    BY SMT
  <1> HIDE DEF q, r
  <1>2. w * (q + 1) + w = w * (q + 2) /\ w * (r + 1) + w = w * (r + 2)
    BY <1>1, SMT
  <1>3. w * q < w * (r + 2) /\ w * r < w * (q + 2)
    <2>1. w * q \in Int /\ w * r \in Int /\ w * (q + 1) \in Int /\ w * (r + 1) \in Int
      BY <1>1
    <2> QED  BY <1>1, <1>2, <2>1
  <1>4. q < r + 2 /\ r < q + 2
    <2>1. q + 2 \in Int /\ r + 2 \in Int  BY <1>1
    <2> QED  BY <1>1, <1>3, <2>1, Factor
  <1>5. q - r \in {-1, 0, 1}  BY <1>1, <1>4
  <1> QED  BY <1>1, <1>5 DEF q, r

\* A number below the width is in the first bin.
LEMMA FirstBin ==
  ASSUME NEW w \in Nat \ {0}, NEW a \in Nat, a < w
  PROVE  a \div w = 0
  BY SMT

\* Energies within the tolerance are in neighbouring bins: a bin is one and a
\* half tolerances wide, and rounding towards zero doubles the one at zero.
LEMMA BinsAreNear ==
  ASSUME NEW e \in Int, NEW o \in Int, e - o \in (-EnergyTolerance)..EnergyTolerance
  PROVE  BinOf(o) \in BinsToCheck(BinOf(e))
PROOF
  <1> DEFINE w == 3 * EnergyTolerance
  <1>1. EnergyTolerance \in Nat \ {0}  BY BasinHoppingAssumption
  <1>2. w \in Nat \ {0} /\ 2 * EnergyTolerance < w  BY <1>1
  <1>3. 2 * e - 2 * o < w /\ 2 * o - 2 * e < w  BY <1>1
  <1>4. CASE e >= 0 /\ o >= 0
    <2>1. BinOf(e) = (2 * e) \div w /\ BinOf(o) = (2 * o) \div w
      BY <1>4 DEF BinOf
    <2>2. 2 * e \in Nat /\ 2 * o \in Nat  BY <1>4
    <2> HIDE DEF w
    <2>3. /\ BinOf(e) \in Nat /\ BinOf(o) \in Nat
          /\ BinOf(e) - BinOf(o) \in {-1, 0, 1}
      BY <1>2, <1>3, <2>1, <2>2, Quotients
    <2> QED  BY <2>3 DEF BinsToCheck
  <1>5. CASE e < 0 /\ o < 0
    <2>1. BinOf(e) = -(((-2) * e) \div w) /\ BinOf(o) = -(((-2) * o) \div w)
      BY <1>5 DEF BinOf
    <2>2. /\ (-2) * e \in Nat /\ (-2) * o \in Nat
          /\ (-2) * e - (-2) * o < w /\ (-2) * o - (-2) * e < w
      BY <1>3, <1>5
    <2> HIDE DEF w
    <2>3. /\ ((-2) * e) \div w \in Nat /\ ((-2) * o) \div w \in Nat
          /\ ((-2) * e) \div w - ((-2) * o) \div w \in {-1, 0, 1}
      BY <1>2, <2>2, Quotients
    <2> QED  BY <2>1, <2>3 DEF BinsToCheck
  <1>6. CASE e >= 0 /\ o < 0
    <2>1. BinOf(e) = (2 * e) \div w /\ BinOf(o) = -(((-2) * o) \div w)
      BY <1>6 DEF BinOf
    <2>2. 2 * e \in Nat /\ 2 * e < w /\ (-2) * o \in Nat /\ (-2) * o < w
      BY <1>1, <1>6
    <2> HIDE DEF w
    <2>3. (2 * e) \div w = 0 /\ ((-2) * o) \div w = 0  BY <1>2, <2>2, FirstBin
    <2> QED  BY <2>1, <2>3 DEF BinsToCheck
  <1>7. CASE e < 0 /\ o >= 0
    <2>1. BinOf(e) = -(((-2) * e) \div w) /\ BinOf(o) = (2 * o) \div w
      BY <1>7 DEF BinOf
    <2>2. 2 * o \in Nat /\ 2 * o < w /\ (-2) * e \in Nat /\ (-2) * e < w
      BY <1>1, <1>7
    <2> HIDE DEF w
    <2>3. (2 * o) \div w = 0 /\ ((-2) * e) \div w = 0  BY <1>2, <2>2, FirstBin
    <2> QED  BY <2>1, <2>3 DEF BinsToCheck
  <1> QED  BY <1>4, <1>5, <1>6, <1>7

-----------------------------------------------------------------------------
(* The rows of the file, and their minima in ascending order. *)

RowTags == [raw_score : Int \cup {None}, ga_eligible : {"untagged", "yes", "no"}]
DbRows == [gaid : Nat, relaxed : BOOLEAN, tags : RowTags, geo : Geometries \cup {None},
           failed : BOOLEAN]
Score(geo, failed) == IF failed THEN -Penalty ELSE -EnergyOf[geo]

\* A relaxed row has a geometry, and the score of that geometry.
Scored(row) == row.geo \in Geometries /\ row.tags.raw_score = Score(row.geo, row.failed)

RelaxedRows == {row \in DbRows : row.relaxed /\ Scored(row)}
Minima == [energy : Int, row : RelaxedRows]

\* Every minimum is the row it was taken from, with its energy.
LEMMA MinimumFacts ==
  ASSUME NEW row \in RelaxedRows
  PROVE  /\ Energy(row) \in Int /\ Minimum(row) \in Minima
         /\ Minimum(row).energy = Energy(row) /\ Minimum(row).row = row
         /\ Energy(row) = IF row.failed THEN Penalty ELSE EnergyOf[row.geo]
PROOF
  <1>1. Penalty \in Int /\ EnergyOf[row.geo] \in Int
    BY BasinHoppingAssumption DEF RelaxedRows, Scored
  <1>2. Energy(row) = IF row.failed THEN Penalty ELSE EnergyOf[row.geo]
    BY <1>1 DEF RelaxedRows, Scored, Score, Energy
  <1>3. Energy(row) \in Int  BY <1>1, <1>2
  <1> QED  BY <1>2, <1>3 DEF Minimum, Minima

\* The order of the minima is total on the rows that are asked for.
LEMMA AscendingIsAnOrder ==
  ASSUME NEW found \in SUBSET (DOMAIN rows), rows \in Seq(DbRows),
         \A i \in found : rows[i] \in RelaxedRows
  PROVE  LET R == {pr \in found \X found : Ascending(pr[1], pr[2])} IN
         /\ IsFiniteSet(found) /\ Cardinality(found) \in Nat
         /\ StrictOrder(R, found)
         /\ \A i \in found : Under(R, found, i) = {k \in found : Ascending(k, i)}
PROOF
  <1> DEFINE R == {pr \in found \X found : Ascending(pr[1], pr[2])}
  <1>1. IsFiniteSet(found) /\ Cardinality(found) \in Nat
    <2>1. DOMAIN rows = 1..Len(rows) /\ Len(rows) \in Nat  OBVIOUS
    <2>2. IsFiniteSet(1..Len(rows))  BY <2>1, FS_Interval
    <2> QED  BY <2>1, <2>2, FS_Subset, FS_CardinalityType
  <1>2. \A i \in found : i \in Nat /\ Energy(rows[i]) \in Int
    BY MinimumFacts
  <1>3. \A i, k \in found : <<i, k>> \in R <=> Ascending(i, k)  OBVIOUS
  <1>4. \A i \in found : ~Ascending(i, i)  BY <1>2 DEF Ascending
  <1>5. \A i, k, l \in found : Ascending(i, k) /\ Ascending(k, l) => Ascending(i, l)
    BY <1>2 DEF Ascending
  <1>6. \A i, k \in found : i = k \/ Ascending(i, k) \/ Ascending(k, i)
    BY <1>2 DEF Ascending
  <1> HIDE DEF R
  <1>7. StrictOrder(R, found)
    BY <1>3, <1>4, <1>5, <1>6 DEF StrictOrder
  <1>8. \A i \in found : Under(R, found, i) = {k \in found : Ascending(k, i)}
    BY <1>3 DEF Under
  <1> QED  BY <1>1, <1>7, <1>8 DEF R

\* The rows that are asked for, each of them, from the lowest up.
LEMMA ExtractedFacts ==
  ASSUME NEW found \in SUBSET (DOMAIN rows), rows \in Seq(DbRows),
         \A i \in found : rows[i] \in RelaxedRows
  PROVE  LET sorted == Extracted(found) IN
         /\ sorted \in Seq(Minima)
         /\ \A n \in DOMAIN sorted : \E i \in found : sorted[n] = Minimum(rows[i])
         /\ \A i \in found : \E n \in DOMAIN sorted : sorted[n] = Minimum(rows[i])
         /\ \A n, m \in DOMAIN sorted : n < m => sorted[n].energy <= sorted[m].energy
PROOF
  <1> DEFINE R == {pr \in found \X found : Ascending(pr[1], pr[2])}
             place(i) == Cardinality({k \in found : Ascending(k, i)})
             N == Cardinality(found)
             at(n) == CHOOSE i \in found : place(i) = n - 1
             sorted == Extracted(found)
  <1>1. /\ IsFiniteSet(found) /\ N \in Nat /\ StrictOrder(R, found)
        /\ \A i \in found : Cardinality(Under(R, found, i)) = place(i)
    BY AscendingIsAnOrder
  <1>2. sorted = [n \in 1..N |-> Minimum(rows[at(n)])]
    BY DEF Extracted
  <1>3. \A i, k \in found : <<i, k>> \in R <=> Ascending(i, k)  OBVIOUS
  <1> HIDE DEF R, place, N, sorted
  <1>4. \A n \in 1..N : \E i \in found : place(i) = n - 1
    <2> SUFFICES ASSUME NEW n \in 1..N  PROVE \E i \in found : place(i) = n - 1
      OBVIOUS
    <2>1. PICK i \in found : Cardinality(Under(R, found, i)) = n - 1
      BY <1>1, RankIsTaken DEF N
    <2> QED  BY <1>1, <2>1
  <1>5. \A n \in 1..N : at(n) \in found /\ place(at(n)) = n - 1
    BY <1>4
  <1>6. \A i \in found : place(i) \in 0..(N - 1)
    BY <1>1, RankIsBounded DEF N
  <1>7. \A i, k \in found : place(i) = place(k) => i = k
    BY <1>1, RankIsUnique
  <1>8. ASSUME NEW i \in found, NEW k \in found, Ascending(i, k)
        PROVE  place(i) < place(k)
    <2>1. <<i, k>> \in R  BY <1>3, <1>8
    <2>2. Cardinality(Under(R, found, i)) < Cardinality(Under(R, found, k))
      BY <1>1, <2>1, RankGrows
    <2> QED  BY <1>1, <2>2
  <1> HIDE DEF at
  <1>9. \A n \in 1..N : sorted[n] = Minimum(rows[at(n)]) /\ sorted[n] \in Minima
                          /\ sorted[n].energy = Energy(rows[at(n)])
    BY <1>2, <1>5, MinimumFacts
  <1>10. sorted \in Seq(Minima) /\ DOMAIN sorted = 1..N
    <2>1. sorted \in [1..N -> Minima]  BY <1>2, <1>9
    <2> QED  BY <1>1, <2>1
  <1>11. \A n \in DOMAIN sorted : \E i \in found : sorted[n] = Minimum(rows[i])
    BY <1>5, <1>9, <1>10
  <1>12. \A i \in found : \E n \in DOMAIN sorted : sorted[n] = Minimum(rows[i])
    <2> SUFFICES ASSUME NEW i \in found
                 PROVE  \E n \in DOMAIN sorted : sorted[n] = Minimum(rows[i])
      OBVIOUS
    <2>1. PICK p \in 1..N : p - 1 = place(i)
      <3>1. place(i) \in 0..(N - 1) /\ N \in Nat  BY <1>1, <1>6
      <3>2. \A k \in 0..(N - 1) : k + 1 \in 1..N /\ k + 1 - 1 = k  BY <3>1
      <3> QED  BY <3>1, <3>2
    <2>2. at(p) \in found /\ place(at(p)) = place(i)  BY <1>5, <2>1
    <2>3. at(p) = i  BY <1>7, <2>2
    <2> QED  BY <1>9, <1>10, <2>1, <2>3
  <1>13. ASSUME NEW n \in 1..N, NEW m \in 1..N, n < m
         PROVE  sorted[n].energy <= sorted[m].energy
    <2>1. at(n) \in found /\ at(m) \in found /\ place(at(n)) < place(at(m))
      BY <1>1, <1>5, <1>13
    <2>2. ~Ascending(at(m), at(n))
      <3>1. place(at(n)) \in Int /\ place(at(m)) \in Int  BY <1>6, <2>1
      <3> QED  BY <1>8, <2>1, <3>1
    <2>3. Energy(rows[at(n)]) \in Int /\ Energy(rows[at(m)]) \in Int
      BY <2>1, MinimumFacts
    <2>4. Energy(rows[at(n)]) <= Energy(rows[at(m)])  BY <2>2, <2>3 DEF Ascending
    <2> QED  BY <1>9, <2>4
  <1> QED  BY <1>10, <1>11, <1>12, <1>13 DEF sorted

-----------------------------------------------------------------------------
(* Duplicates. *)

\* Looking alike within the tolerance is symmetric, and everything looks like
\* itself; it need not be transitive.
LEMMA SameFacts ==
  ASSUME NEW m \in Minima, NEW o \in Minima
  PROVE  /\ Same(m, m) /\ (Same(m, o) <=> Same(o, m))
         /\ Same(m, o) => BinOf(o.energy) \in BinsToCheck(BinOf(m.energy))
PROOF
  <1>1. m.energy \in Int /\ o.energy \in Int /\ m.row.geo \in Geometries
        /\ o.row.geo \in Geometries
    BY DEF Minima, RelaxedRows, Scored
  <1>2. /\ EnergyTolerance \in Nat
        /\ <<m.row.geo, m.row.geo>> \in Alike
        /\ <<m.row.geo, o.row.geo>> \in Alike <=> <<o.row.geo, m.row.geo>> \in Alike
    BY <1>1, BasinHoppingAssumption
  <1>3. /\ m.energy - m.energy \in (-EnergyTolerance)..EnergyTolerance
        /\ m.energy - o.energy \in (-EnergyTolerance)..EnergyTolerance
             <=> o.energy - m.energy \in (-EnergyTolerance)..EnergyTolerance
    BY <1>1, <1>2
  <1>4. Same(m, o) => BinOf(o.energy) \in BinsToCheck(BinOf(m.energy))
    BY <1>1, BinsAreNear DEF Same
  <1> QED  BY <1>2, <1>3, <1>4 DEF Same

\* The recursion of Unique has a solution, whose last value it is.
LEMMA UniqueIsKept ==
  ASSUME NEW sorted, Len(sorted) \in Nat
  PROVE  \E kept :
           /\ kept[0] = <<>>
           /\ \A n \in 1..Len(sorted) : kept[n] = Joined(kept[n - 1], sorted[n])
           /\ Unique(sorted) = kept[Len(sorted)]
PROOF
  <1> DEFINE N == Len(sorted)
             J(kept, n) == Joined(kept, sorted[n])
             Solves(f, n) == f = [i \in 0..n |-> IF i = 0 THEN <<>> ELSE J(f[i - 1], i)]
             T == {n \in 0..N : ~\E f : Solves(f, n)}
             whole == CHOOSE f : Solves(f, N)
  <1>1. Unique(sorted) = whole[N]
    BY Zenon DEF Unique
  <1> HIDE DEF J, whole, N
  <1>2. T = {}
    <2> SUFFICES ASSUME T # {}  PROVE FALSE
      OBVIOUS
    <2>1. PICK n \in T : \A m \in T : n <= m
      <3>1. T \in SUBSET Nat  OBVIOUS
      <3> HIDE DEF T
      <3> QED  BY <3>1, LeastNumber
    <2>2. n \in 0..N /\ ~\E f : Solves(f, n)  BY <2>1
    <2>3. CASE n = 0
      <3> DEFINE f == [i \in 0..0 |-> <<>>]
      <3>1. Solves(f, 0)  OBVIOUS
      <3> HIDE DEF f, Solves
      <3> QED  BY <2>2, <2>3, <3>1
    <2>4. CASE n # 0
      <3>a. N \in Nat  BY DEF N
      <3>1. n - 1 \in 0..N /\ n - 1 \notin T
        <4>1. n - 1 \in 0..N /\ ~(n <= n - 1)  BY <2>2, <2>4, <3>a
        <4> HIDE DEF T
        <4> QED  BY <2>1, <4>1
      <3>2. PICK f : Solves(f, n - 1)
        <4> HIDE DEF Solves
        <4> QED  BY <3>1
      <3> DEFINE g == [i \in 0..n |-> IF i < n THEN f[i] ELSE J(f[n - 1], n)]
      <3>3. \A i \in 0..(n - 1) : f[i] = IF i = 0 THEN <<>> ELSE J(f[i - 1], i)
        BY <3>2
      <3>4. ASSUME NEW i \in 0..n
            PROVE  g[i] = IF i = 0 THEN <<>> ELSE J(g[i - 1], i)
        <4>1. CASE i = 0
          <5>1. 0 \in 0..(n - 1) /\ 0 \in 0..n /\ 0 < n  BY <2>2, <2>4
          <5>2. g[0] = f[0]  BY <5>1
          <5> QED  BY <4>1, <5>1, <5>2, <3>3
        <4>2. CASE i # 0 /\ i < n
          <5>1. i \in 0..(n - 1) /\ i - 1 \in 0..n /\ i - 1 < n  BY <2>2, <4>2
          <5>2. g[i] = f[i] /\ g[i - 1] = f[i - 1]  BY <4>2, <5>1
          <5> QED  BY <3>3, <4>2, <5>1, <5>2
        <4>3. CASE i = n
          <5>1. n - 1 \in 0..n /\ n - 1 < n  BY <2>2, <2>4
          <5>2. g[n - 1] = f[n - 1]  BY <5>1
          <5>3. g[n] = J(f[n - 1], n)  BY <2>2
          <5> QED  BY <2>4, <4>3, <5>2, <5>3
        <4> QED  BY <2>2, <4>1, <4>2, <4>3
      <3>5. Solves(g, n)
        <4>1. g = [i \in 0..n |-> g[i]]  OBVIOUS
        <4> HIDE DEF g
        <4> QED  BY <3>4, <4>1
      <3> HIDE DEF g, Solves
      <3> QED  BY <2>2, <3>5
    <2> QED  BY <2>3, <2>4
  <1>3. Solves(whole, N)
    <2> HIDE DEF Solves
    <2>1. N \in 0..N  BY DEF N
    <2>2. \E f : Solves(f, N)  BY <1>2, <2>1
    <2> QED  BY <2>2 DEF whole
  <1>4. \A n \in 0..N : whole[n] = IF n = 0 THEN <<>> ELSE J(whole[n - 1], n)
    BY <1>3
  <1> HIDE DEF T, Solves
  <1>5. 0 \in 0..N /\ \A n \in 1..N : n \in 0..N /\ n # 0  BY DEF N
  <1>6. whole[0] = <<>> /\ \A n \in 1..N : whole[n] = J(whole[n - 1], n)
    BY <1>4, <1>5
  <1> QED  BY <1>1, <1>6 DEF J, N

\* What the walk over the minima keeps, after some of them.
KeptOf(kept, sorted, n) ==
  /\ kept \in Seq(Minima)
  /\ \A k \in DOMAIN kept : \E m \in 1..n : kept[k] = sorted[m]
  /\ \A m \in 1..n : \E k \in DOMAIN kept :
       kept[k].energy <= sorted[m].energy /\ Same(kept[k], sorted[m])
  /\ \A i, k \in DOMAIN kept : i < k => ~Same(kept[k], kept[i])

\* One more: it is a duplicate of a lower one, or it is kept.
LEMMA JoinedFacts ==
  ASSUME NEW sorted \in Seq(Minima), NEW n \in 1..Len(sorted),
         \A i, k \in DOMAIN sorted : i < k => sorted[i].energy <= sorted[k].energy,
         NEW kept, KeptOf(kept, sorted, n - 1)
  PROVE  KeptOf(Joined(kept, sorted[n]), sorted, n)
PROOF
  <1> DEFINE m == sorted[n]
             known == \E i \in DOMAIN kept :
                        /\ BinOf(kept[i].energy) \in BinsToCheck(BinOf(m.energy))
                        /\ Same(m, kept[i])
             new == Joined(kept, m)
  <1>1. /\ m \in Minima /\ kept \in Seq(Minima)
        /\ \A k \in DOMAIN kept : kept[k] \in Minima
        /\ \A k \in DOMAIN kept : \E i \in 1..(n - 1) : kept[k] = sorted[i]
        /\ \A i \in 1..(n - 1) : \E k \in DOMAIN kept :
             kept[k].energy <= sorted[i].energy /\ Same(kept[k], sorted[i])
        /\ \A i, k \in DOMAIN kept : i < k => ~Same(kept[k], kept[i])
    BY DEF KeptOf
  <1>2. \A i \in 1..n : i = n \/ i \in 1..(n - 1)  OBVIOUS
  <1>3. \A i \in 1..(n - 1) : i \in 1..n /\ sorted[i].energy <= m.energy
    <2>1. \A i \in 1..(n - 1) : i \in DOMAIN sorted /\ n \in DOMAIN sorted /\ i < n
                                  /\ i \in 1..n
      OBVIOUS
    <2> QED  BY <2>1
  <1>4. CASE known
    <2>1. new = kept  BY <1>4 DEF Joined
    <2>2. PICK i \in DOMAIN kept : Same(m, kept[i])  BY <1>4
    <2>3. kept[i].energy <= m.energy  BY <1>1, <1>3
    <2>4. Same(kept[i], m)  BY <1>1, <2>2, SameFacts
    <2> HIDE DEF m, known, new
    <2>5. \A l \in 1..n : \E k \in DOMAIN kept :
            kept[k].energy <= sorted[l].energy /\ Same(kept[k], sorted[l])
      BY <1>1, <1>2, <2>3, <2>4 DEF m
    <2>6. \A k \in DOMAIN kept : \E l \in 1..n : kept[k] = sorted[l]
      BY <1>1, <1>3
    <2> QED  BY <1>1, <2>1, <2>5, <2>6 DEF KeptOf, new, m
  <1>5. CASE ~known
    <2>1. new = Append(kept, m)  BY <1>5 DEF Joined
    <2>2. \A i \in DOMAIN kept : ~Same(m, kept[i])
      BY <1>1, <1>5, SameFacts
    <2> HIDE DEF m, known, new
    <2>3. /\ new \in Seq(Minima) /\ Len(kept) \in Nat
          /\ DOMAIN new = 1..(Len(kept) + 1) /\ DOMAIN kept = 1..Len(kept)
          /\ new[Len(kept) + 1] = m
          /\ \A k \in DOMAIN kept : k \in DOMAIN new /\ new[k] = kept[k]
      BY <1>1, <2>1
    <2>4. \A k \in DOMAIN new : k = Len(kept) + 1 \/ k \in DOMAIN kept  BY <2>3
    <2>5. \A k \in DOMAIN new : \E l \in 1..n : new[k] = sorted[l]
      <3>1. n \in 1..n /\ m = sorted[n]  BY DEF m
      <3> QED  BY <1>1, <1>3, <2>3, <2>4, <3>1
    <2>6. \A l \in 1..n : \E k \in DOMAIN new :
            new[k].energy <= sorted[l].energy /\ Same(new[k], sorted[l])
      <3>1. ASSUME NEW l \in 1..(n - 1)
            PROVE  \E k \in DOMAIN new :
                     new[k].energy <= sorted[l].energy /\ Same(new[k], sorted[l])
        BY <1>1, <2>3
      <3>2. m.energy <= m.energy /\ Same(m, m) /\ Len(kept) + 1 \in DOMAIN new
        <4>1. m.energy \in Int  BY <1>1 DEF Minima
        <4> QED  BY <1>1, <2>3, <4>1, SameFacts
      <3> QED  BY <1>2, <2>3, <3>1, <3>2 DEF m
    <2>7. \A i, k \in DOMAIN new : i < k => ~Same(new[k], new[i])
      <3> SUFFICES ASSUME NEW i \in DOMAIN new, NEW k \in DOMAIN new, i < k
                   PROVE  ~Same(new[k], new[i])
        OBVIOUS
      <3>1. i \in DOMAIN kept  BY <2>3
      <3>2. CASE k \in DOMAIN kept  BY <1>1, <2>3, <3>1, <3>2
      <3>3. CASE k = Len(kept) + 1  BY <2>2, <2>3, <3>1, <3>3
      <3> QED  BY <2>4, <3>2, <3>3
    <2> QED  BY <2>3, <2>5, <2>6, <2>7 DEF KeptOf, new, m
  <1> QED  BY <1>4, <1>5

\* Of minima in ascending order, Unique keeps one of each look-alike within
\* the tolerance, and no two: to look into the neighbouring bins is enough.
THEOREM UniqueKeepsOne ==
  ASSUME NEW sorted \in Seq(Minima),
         \A i, k \in DOMAIN sorted : i < k => sorted[i].energy <= sorted[k].energy
  PROVE  LET kept == Unique(sorted) IN
         /\ kept \in Seq(Minima)
         /\ \A k \in DOMAIN kept : \E m \in DOMAIN sorted : kept[k] = sorted[m]
         /\ \A m \in DOMAIN sorted : \E k \in DOMAIN kept :
              kept[k].energy <= sorted[m].energy /\ Same(kept[k], sorted[m])
         /\ \A i, k \in DOMAIN kept : i # k => ~Same(kept[i], kept[k])
PROOF
  <1>1. Len(sorted) \in Nat /\ DOMAIN sorted = 1..Len(sorted)  OBVIOUS
  <1>2. PICK kept :
          /\ kept[0] = <<>>
          /\ \A n \in 1..Len(sorted) : kept[n] = Joined(kept[n - 1], sorted[n])
          /\ Unique(sorted) = kept[Len(sorted)]
    BY <1>1, UniqueIsKept
  <1> DEFINE T == {n \in 0..Len(sorted) : ~KeptOf(kept[n], sorted, n)}
  <1>3. T = {}
    <2> SUFFICES ASSUME T # {}  PROVE FALSE
      OBVIOUS
    <2>1. PICK n \in T : \A m \in T : n <= m
      <3>1. T \in SUBSET Nat  OBVIOUS
      <3> HIDE DEF T
      <3> QED  BY <3>1, LeastNumber
    <2>2. n \in 0..Len(sorted) /\ ~KeptOf(kept[n], sorted, n)  BY <2>1
    <2>3. CASE n = 0
      <3>1. kept[n] = <<>>  BY <1>2, <2>3
      <3> QED  BY <2>2, <2>3, <3>1 DEF KeptOf
    <2>4. CASE n # 0
      <3>1. n \in 1..Len(sorted) /\ n - 1 \in 0..Len(sorted) /\ ~(n <= n - 1)
        BY <2>2, <2>4
      <3>2. n - 1 \notin T
        <4> HIDE DEF T
        <4> QED  BY <2>1, <3>1
      <3>3. KeptOf(kept[n - 1], sorted, n - 1)  BY <3>1, <3>2
      <3>4. kept[n] = Joined(kept[n - 1], sorted[n])  BY <1>2, <3>1
      <3> HIDE DEF T
      <3>5. KeptOf(Joined(kept[n - 1], sorted[n]), sorted, n)
        BY <3>1, <3>3, JoinedFacts
      <3> QED  BY <2>2, <3>4, <3>5
    <2> QED  BY <2>3, <2>4
  <1>4. KeptOf(Unique(sorted), sorted, Len(sorted))
    <2>1. Len(sorted) \in 0..Len(sorted)  BY <1>1
    <2> QED  BY <1>2, <1>3, <2>1
  <1> DEFINE u == Unique(sorted)
  <1> HIDE DEF T, u
  <1>5. /\ u \in Seq(Minima) /\ \A k \in DOMAIN u : u[k] \in Minima
        /\ \A k \in DOMAIN u : \E m \in DOMAIN sorted : u[k] = sorted[m]
        /\ \A m \in DOMAIN sorted : \E k \in DOMAIN u :
             u[k].energy <= sorted[m].energy /\ Same(u[k], sorted[m])
        /\ \A i, k \in DOMAIN u : i < k => ~Same(u[k], u[i])
    BY <1>1, <1>4 DEF KeptOf, u
  <1>6. \A i, k \in DOMAIN u : i # k => ~Same(u[i], u[k])
    <2> SUFFICES ASSUME NEW i \in DOMAIN u, NEW k \in DOMAIN u, i # k
                 PROVE  ~Same(u[i], u[k])
      OBVIOUS
    <2>1. i < k \/ k < i  BY <1>5
    <2>2. CASE i < k  BY <1>5, <2>2, SameFacts
    <2>3. CASE k < i  BY <1>5, <2>3
    <2> QED  BY <2>1, <2>2, <2>3
  <1> QED  BY <1>5, <1>6 DEF u

-----------------------------------------------------------------------------
(* The invariant of the calls. *)

BhTypes ==
  /\ algorithm \in {"bh", "simple"}
  /\ pc \in {"idle", "fetch", "seed", "write", "hop", "trial", "judge", "validate",
             "returned"}
  /\ rows \in Seq(DbRows) /\ bag \in RowTags
  /\ pc \in {"seed", "write", "hop", "trial", "judge"} => confid \in Nat

\* A candidate has the number of its row; a relaxed row has the score of its
\* own geometry, and in basin hopping the mark of its own verdict.
RowsAreOwn ==
  \A i \in DOMAIN rows :
    IF rows[i].relaxed
    THEN /\ Scored(rows[i])
         /\ algorithm = "bh" =>
              (rows[i].tags.ga_eligible # "no" <=> rows[i].geo \in Sound)
    ELSE rows[i].gaid = i

\* What was just relaxed is what the tags of the walk are about.
BagIsOwn ==
  pc \in {"write", "judge", "validate"} =>
    /\ last.geo \in Geometries /\ last.failed \in BOOLEAN
    /\ pc # "validate" => bag.raw_score = Score(last.geo, last.failed)

\* A simple call starts from the only row, which it relaxes once.
OnlyOne ==
  /\ pc \in {"hop", "trial", "judge"} => algorithm = "bh"
  /\ pc = "validate" => algorithm = "simple" /\ Len(rows) = 2 /\ rows[2].geo = last.geo
  /\ algorithm = "simple" =>
       /\ Len(rows) \in 0..2
       /\ Len(rows) > 0 => ~rows[1].relaxed
       /\ Len(rows) = 2 => rows[2].relaxed /\ rows[2].gaid = 1
       /\ pc \in {"seed", "write"} => Len(rows) = 1 /\ confid = 1

BhProperties == ReturnedPassedTheGate /\ EnergiesAreOwn /\ FoundIsKeptOnce

BhInv == BhTypes /\ RowsAreOwn /\ BagIsOwn /\ OnlyOne /\ BhProperties

\* What has not been returned breaks nothing.
LEMMA NotReturned == pc' # "returned" => BhProperties'
  BY DEF BhProperties, ReturnedPassedTheGate, EnergiesAreOwn, FoundIsKeptOnce, Returned

\* No call, no row, nothing returned.
LEMMA BhInitInv == Init => BhInv
PROOF
  <1> SUFFICES ASSUME Init  PROVE BhInv
    OBVIOUS
  <1>1. /\ algorithm \in {"bh", "simple"} /\ pc = "idle" /\ rows = <<>> /\ bag = NoTags
    BY DEF Init
  <1>2. NoTags \in RowTags  BY DEF NoTags, RowTags
  <1>3. BhTypes  BY <1>1, <1>2 DEF BhTypes
  <1>4. RowsAreOwn /\ BagIsOwn /\ OnlyOne  BY <1>1 DEF RowsAreOwn, BagIsOwn, OnlyOne
  <1>5. BhProperties
    BY <1>1 DEF BhProperties, ReturnedPassedTheGate, EnergiesAreOwn, FoundIsKeptOnce, Returned
  <1> QED  BY <1>3, <1>4, <1>5 DEF BhInv

\* The file of the call: as it was left, or with a new structure only.
LEMMA SetupKeepsRows == BhInv /\ Setup => BhInv'
PROOF
  <1> SUFFICES ASSUME BhInv, Setup  PROVE BhInv'
    OBVIOUS
  <1> DEFINE first == [gaid |-> 1, relaxed |-> FALSE, tags |-> NoTags, geo |-> None,
                       failed |-> FALSE]
  <1>1. /\ rows' = rows \/ rows' = <<first>>
        /\ pc = "idle" /\ pc' = "fetch" /\ UNCHANGED <<algorithm, bag, confid, last>>
    BY DEF Setup
  <1>2. first \in DbRows /\ first.gaid = 1 /\ first.relaxed = FALSE
    BY DEF DbRows, NoTags, RowTags
  <1> HIDE DEF first
  <1>3. /\ rows \in Seq(DbRows) /\ RowsAreOwn
        /\ algorithm = "simple" => /\ Len(rows) \in 0..2
                                   /\ Len(rows) > 0 => ~rows[1].relaxed
                                   /\ Len(rows) = 2 => rows[2].relaxed /\ rows[2].gaid = 1
    BY DEF BhInv, BhTypes, OnlyOne
  <1>4. rows' \in Seq(DbRows)
    <2>1. <<first>> \in Seq(DbRows)  BY <1>2
    <2> QED  BY <1>1, <1>3, <2>1
  <1>5. RowsAreOwn'
    <2>1. CASE rows' = rows  BY <1>1, <1>3, <2>1 DEF RowsAreOwn
    <2>2. CASE rows' = <<first>>
      <3>1. DOMAIN rows' = {1} /\ rows'[1] = first  BY <2>2
      <3> QED  BY <1>2, <3>1 DEF RowsAreOwn
    <2> QED  BY <1>1, <2>1, <2>2
  <1>6. OnlyOne'
    <2>1. CASE rows' = rows  BY <1>1, <1>3, <2>1 DEF OnlyOne
    <2>2. CASE rows' = <<first>>
      <3>1. Len(rows') = 1 /\ rows'[1] = first  BY <2>2
      <3> QED  BY <1>1, <1>2, <3>1 DEF OnlyOne
    <2> QED  BY <1>1, <2>1, <2>2
  <1>7. BhTypes' /\ BagIsOwn'
    BY <1>1, <1>4 DEF BhInv, BhTypes, BagIsOwn
  <1> QED  BY <1>1, <1>5, <1>6, <1>7, NotReturned DEF BhInv

\* An unrelaxed candidate is a row, which has its number.
LEMMA UnrelaxedFacts ==
  ASSUME BhInv, NEW gaid \in Unrelaxed
  PROVE  /\ gaid \in DOMAIN rows /\ gaid \in Nat
         /\ algorithm = "simple" => Len(rows) = 1 /\ gaid = 1
PROOF
  <1>1. rows \in Seq(DbRows)  BY DEF BhInv, BhTypes
  <1>2. gaid \in DOMAIN rows /\ ~rows[gaid].relaxed
    BY DEF Unrelaxed, BhInv, RowsAreOwn
  <1>3. \A i \in DOMAIN rows : rows[i].relaxed => rows[i].gaid # gaid
    BY DEF Unrelaxed
  <1>4. DOMAIN rows = 1..Len(rows)  BY <1>1
  <1>5. ASSUME algorithm = "simple"  PROVE Len(rows) = 1 /\ gaid = 1
    <2>1. /\ Len(rows) \in 0..2
          /\ Len(rows) > 0 => ~rows[1].relaxed
          /\ Len(rows) = 2 => rows[2].relaxed /\ rows[2].gaid = 1
      BY <1>5 DEF BhInv, OnlyOne
    <2>2. Len(rows) # 0  BY <1>2, <1>4
    <2>3. gaid = 1  BY <1>2, <1>4, <2>1
    <2>4. Len(rows) # 2
      <3>1. Len(rows) = 2 => 2 \in DOMAIN rows  BY <1>4
      <3> QED  BY <1>3, <2>1, <2>3, <3>1
    <2> QED  BY <2>1, <2>2, <2>3, <2>4
  <1> QED  BY <1>2, <1>4, <1>5

\* The candidate is a row of the file, whose tags the walk takes over.
LEMMA FetchKeepsRows == BhInv /\ Fetch => BhInv'
PROOF
  <1> SUFFICES ASSUME BhInv, Fetch  PROVE BhInv'
    OBVIOUS
  <1>1. PICK gaid \in Unrelaxed : confid' = gaid /\ bag' = rows[gaid].tags
    BY DEF Fetch
  <1>2. pc = "fetch" /\ pc' = "seed" /\ UNCHANGED <<algorithm, rows, last>>
    BY DEF Fetch
  <1>3. /\ gaid \in DOMAIN rows /\ gaid \in Nat
        /\ algorithm = "simple" => Len(rows) = 1 /\ gaid = 1
    BY UnrelaxedFacts
  <1>4. bag' \in RowTags
    <2>1. rows[gaid] \in DbRows  BY <1>3 DEF BhInv, BhTypes
    <2>2. \A row \in DbRows : row.tags \in RowTags  BY DEF DbRows
    <2> QED  BY <1>1, <2>1, <2>2
  <1>5. BhTypes'  BY <1>1, <1>2, <1>3, <1>4 DEF BhInv, BhTypes
  <1>6. RowsAreOwn' /\ BagIsOwn' /\ OnlyOne'
    BY <1>1, <1>2, <1>3 DEF BhInv, RowsAreOwn, BagIsOwn, OnlyOne
  <1> QED  BY <1>2, <1>5, <1>6, NotReturned DEF BhInv

\* A relaxation leaves its own energy in the tags of the walk.
LEMMA RelaxedFacts ==
  ASSUME BhInv, NEW geo \in Geometries, NEW failed \in BOOLEAN, Relaxed(geo, failed)
  PROVE  /\ last'.geo = geo /\ last'.failed = failed
         /\ bag' \in RowTags /\ bag'.raw_score = Score(geo, failed)
PROOF
  <1>1. /\ last' = [geo |-> geo, failed |-> failed]
        /\ bag' = [bag EXCEPT !.raw_score = IF failed THEN -Penalty ELSE -EnergyOf[geo]]
    BY DEF Relaxed, EnergyTags
  <1>2. bag \in RowTags  BY DEF BhInv, BhTypes
  <1> DEFINE score == Score(geo, failed)
  <1>3. score \in Int  BY BasinHoppingAssumption DEF Score
  <1>4. bag' = [bag EXCEPT !.raw_score = score]  BY <1>1 DEF Score
  <1> HIDE DEF score
  <1>5. bag' \in RowTags /\ bag'.raw_score = score  BY <1>2, <1>3, <1>4 DEF RowTags
  <1> QED  BY <1>1, <1>5 DEF score

\* A relaxation, of the seed or of a trial, writes no row.
LEMMA RelaxKeepsRows == BhInv /\ (RelaxSeed \/ RelaxTrial) => BhInv'
PROOF
  <1> SUFFICES ASSUME BhInv, RelaxSeed \/ RelaxTrial  PROVE BhInv'
    OBVIOUS
  <1>1. /\ \/ pc = "seed" /\ pc' = "write"
           \/ pc = "trial" /\ pc' = "judge"
        /\ UNCHANGED <<algorithm, rows, confid>>
        /\ \E geo \in Geometries, failed \in BOOLEAN : Relaxed(geo, failed)
    BY DEF RelaxSeed, RelaxTrial
  <1>2. PICK geo \in Geometries, failed \in BOOLEAN : Relaxed(geo, failed)  BY <1>1
  <1>3. /\ last'.geo = geo /\ last'.failed = failed
        /\ bag' \in RowTags /\ bag'.raw_score = Score(geo, failed)
    BY <1>2, RelaxedFacts
  <1>4. BhTypes'  BY <1>1, <1>3 DEF BhInv, BhTypes
  <1>5. RowsAreOwn'  BY <1>1 DEF BhInv, RowsAreOwn
  <1>6. BagIsOwn'  BY <1>1, <1>3 DEF BagIsOwn
  <1>7. OnlyOne'  BY <1>1 DEF BhInv, OnlyOne
  <1> QED  BY <1>1, <1>4, <1>5, <1>6, <1>7, NotReturned DEF BhInv

\* A row that is written leaves those before it as they are.
LEMMA AppendedFacts ==
  ASSUME BhInv, algorithm' = algorithm, NEW row \in DbRows, rows' = Append(rows, row),
         IF row.relaxed
         THEN /\ Scored(row)
              /\ algorithm = "bh" => (row.tags.ga_eligible # "no" <=> row.geo \in Sound)
         ELSE row.gaid = Len(rows) + 1
  PROVE  /\ rows' \in Seq(DbRows) /\ RowsAreOwn'
         /\ Len(rows) \in Nat /\ Len(rows') = Len(rows) + 1
         /\ rows'[Len(rows) + 1] = row
         /\ \A i \in 1..Len(rows) : rows'[i] = rows[i]
PROOF
  <1>1. rows \in Seq(DbRows)  BY DEF BhInv, BhTypes
  <1>2. /\ rows' \in Seq(DbRows) /\ Len(rows) \in Nat /\ Len(rows') = Len(rows) + 1
        /\ rows'[Len(rows) + 1] = row
        /\ \A i \in 1..Len(rows) : rows'[i] = rows[i]
        /\ DOMAIN rows = 1..Len(rows) /\ DOMAIN rows' = 1..(Len(rows) + 1)
    BY <1>1
  <1>3. ASSUME NEW i \in DOMAIN rows'
        PROVE  IF rows'[i].relaxed
               THEN /\ Scored(rows'[i])
                    /\ algorithm = "bh" =>
                         (rows'[i].tags.ga_eligible # "no" <=> rows'[i].geo \in Sound)
               ELSE rows'[i].gaid = i
    <2>1. CASE i \in DOMAIN rows
      <3>1. rows'[i] = rows[i]  BY <1>2, <2>1
      <3> QED  BY <2>1, <3>1 DEF BhInv, RowsAreOwn
    <2>2. CASE i \notin DOMAIN rows
      <3>1. i = Len(rows) + 1  BY <1>2, <2>2
      <3> QED  BY <1>2, <3>1
    <2> QED  BY <2>1, <2>2
  <1>4. RowsAreOwn'  BY <1>3 DEF RowsAreOwn, Scored
  <1> QED  BY <1>2, <1>4

\* The seed is written with its own score and its own mark.
LEMMA WriteSeedKeepsRows == BhInv /\ WriteSeed => BhInv'
PROOF
  <1> SUFFICES ASSUME BhInv, WriteSeed  PROVE BhInv'
    OBVIOUS
  <1>1. /\ pc = "write" /\ algorithm = "bh" /\ pc' = "hop"
        /\ bag' = SeedTags(bag) /\ rows' = Append(rows, RelaxedRow(bag'))
        /\ UNCHANGED <<algorithm, confid, last>>
    BY DEF WriteSeed
  <1>2. /\ last.geo \in Geometries /\ last.failed \in BOOLEAN /\ bag \in RowTags
        /\ bag.raw_score = Score(last.geo, last.failed) /\ confid \in Nat
    BY <1>1 DEF BhInv, BhTypes, BagIsOwn
  <1>3. /\ bag' \in RowTags /\ bag'.raw_score = bag.raw_score
        /\ bag'.ga_eligible # "no" <=> last.geo \in Sound
    BY <1>1, <1>2 DEF SeedTags, RowTags
  <1> DEFINE row == RelaxedRow(bag')
  <1>4. /\ row \in DbRows /\ row.relaxed /\ row.geo = last.geo /\ row.tags = bag'
        /\ row.failed = last.failed
    BY <1>2, <1>3 DEF RelaxedRow, DbRows
  <1> HIDE DEF row
  <1>5. Scored(row)  BY <1>2, <1>3, <1>4 DEF Scored
  <1>6. rows' \in Seq(DbRows) /\ RowsAreOwn'
    <2>1. rows' = Append(rows, row)  BY <1>1 DEF row
    <2> QED  BY <1>1, <1>3, <1>4, <1>5, <2>1, AppendedFacts
  <1>7. BhTypes' /\ BagIsOwn' /\ OnlyOne'
    BY <1>1, <1>3, <1>6 DEF BhInv, BhTypes, BagIsOwn, OnlyOne
  <1> QED  BY <1>1, <1>6, <1>7, NotReturned DEF BhInv

\* A rejected trial leaves the rows and the tags as they are.
LEMMA RejectKeepsRows == BhInv /\ (RejectMove \/ RejectTrial) => BhInv'
PROOF
  <1> SUFFICES ASSUME BhInv, RejectMove \/ RejectTrial  PROVE BhInv'
    OBVIOUS
  <1>1. /\ pc \in {"hop", "judge"} /\ pc' = "hop"
        /\ UNCHANGED <<algorithm, rows, bag, confid, last>>
    BY DEF RejectMove, RejectTrial
  <1>2. BhTypes' /\ RowsAreOwn' /\ BagIsOwn' /\ OnlyOne'
    BY <1>1 DEF BhInv, BhTypes, RowsAreOwn, BagIsOwn, OnlyOne
  <1> QED  BY <1>1, <1>2, NotReturned DEF BhInv

\* The candidate of a trial has the number of its row.
LEMMA InsertTrialKeepsRows == BhInv /\ InsertTrial => BhInv'
PROOF
  <1> SUFFICES ASSUME BhInv, InsertTrial  PROVE BhInv'
    OBVIOUS
  <1>1. /\ pc = "hop" /\ pc' = "trial" /\ rows' = Append(rows, Candidate(bag))
        /\ confid' = Len(rows) + 1 /\ UNCHANGED <<algorithm, bag, last>>
    BY DEF InsertTrial
  <1>2. bag \in RowTags /\ Len(rows) \in Nat /\ algorithm = "bh"
    BY <1>1 DEF BhInv, BhTypes, OnlyOne
  <1> DEFINE row == Candidate(bag)
  <1>3. row \in DbRows /\ row.relaxed = FALSE /\ row.gaid = Len(rows) + 1
    BY <1>2 DEF Candidate, DbRows
  <1> HIDE DEF row
  <1>4. rows' \in Seq(DbRows) /\ RowsAreOwn'
    <2>1. rows' = Append(rows, row)  BY <1>1 DEF row
    <2> QED  BY <1>1, <1>3, <2>1, AppendedFacts
  <1>5. BhTypes' /\ BagIsOwn' /\ OnlyOne'
    BY <1>1, <1>2, <1>4 DEF BhInv, BhTypes, BagIsOwn, OnlyOne
  <1> QED  BY <1>1, <1>4, <1>5, NotReturned DEF BhInv

\* A trial that is kept passed the gate, and loses the mark of its seed.
LEMMA KeepTrialKeepsRows == BhInv /\ KeepTrial => BhInv'
PROOF
  <1> SUFFICES ASSUME BhInv, KeepTrial  PROVE BhInv'
    OBVIOUS
  <1>1. /\ pc = "judge" /\ pc' = "hop" /\ last.geo \in Sound
        /\ bag' = TrialTags(bag) /\ rows' = Append(rows, RelaxedRow(bag'))
        /\ UNCHANGED <<algorithm, confid, last>>
    BY DEF KeepTrial
  <1>2. /\ last.geo \in Geometries /\ last.failed \in BOOLEAN /\ bag \in RowTags
        /\ bag.raw_score = Score(last.geo, last.failed) /\ confid \in Nat
        /\ algorithm = "bh"
    BY <1>1 DEF BhInv, BhTypes, BagIsOwn, OnlyOne
  <1>3. /\ bag' \in RowTags /\ bag'.raw_score = bag.raw_score
        /\ bag'.ga_eligible # "no"
    BY <1>1, <1>2 DEF TrialTags, RowTags
  <1> DEFINE row == RelaxedRow(bag')
  <1>4. /\ row \in DbRows /\ row.relaxed /\ row.geo = last.geo /\ row.tags = bag'
        /\ row.failed = last.failed
    BY <1>2, <1>3 DEF RelaxedRow, DbRows
  <1> HIDE DEF row
  <1>5. Scored(row)  BY <1>2, <1>3, <1>4 DEF Scored
  <1>6. rows' \in Seq(DbRows) /\ RowsAreOwn'
    <2>1. rows' = Append(rows, row)  BY <1>1 DEF row
    <2> QED  BY <1>1, <1>3, <1>4, <1>5, <2>1, AppendedFacts
  <1>7. BhTypes' /\ BagIsOwn' /\ OnlyOne'
    BY <1>1, <1>2, <1>3, <1>6 DEF BhInv, BhTypes, BagIsOwn, OnlyOne
  <1> QED  BY <1>1, <1>6, <1>7, NotReturned DEF BhInv

\* A simple call writes the second row, which is the relaxed first one.
LEMMA WriteSimpleKeepsRows == BhInv /\ WriteSimple => BhInv'
PROOF
  <1> SUFFICES ASSUME BhInv, WriteSimple  PROVE BhInv'
    OBVIOUS
  <1>1. /\ pc = "write" /\ algorithm = "simple" /\ pc' = "validate"
        /\ rows' = Append(rows, RelaxedRow(bag))
        /\ UNCHANGED <<algorithm, bag, confid, last>>
    BY DEF WriteSimple
  <1>2. /\ last.geo \in Geometries /\ last.failed \in BOOLEAN /\ bag \in RowTags
        /\ bag.raw_score = Score(last.geo, last.failed)
        /\ Len(rows) = 1 /\ confid = 1 /\ ~rows[1].relaxed
    BY <1>1 DEF BhInv, BhTypes, BagIsOwn, OnlyOne
  <1> DEFINE row == RelaxedRow(bag)
  <1>3. /\ row \in DbRows /\ row.relaxed /\ row.geo = last.geo /\ row.tags = bag
        /\ row.failed = last.failed /\ row.gaid = 1
    BY <1>2 DEF RelaxedRow, DbRows
  <1> HIDE DEF row
  <1>4. Scored(row)  BY <1>2, <1>3 DEF Scored
  <1>5. /\ rows' \in Seq(DbRows) /\ RowsAreOwn' /\ Len(rows') = 2
        /\ rows'[2] = row /\ rows'[1] = rows[1]
    <2>1. rows' = Append(rows, row)  BY <1>1 DEF row
    <2>2. /\ rows' \in Seq(DbRows) /\ RowsAreOwn' /\ Len(rows') = Len(rows) + 1
          /\ rows'[Len(rows) + 1] = row
          /\ \A i \in 1..Len(rows) : rows'[i] = rows[i]
      BY <1>1, <1>3, <1>4, <2>1, AppendedFacts
    <2> QED  BY <1>2, <2>2
  <1>6. BhTypes' /\ BagIsOwn'
    BY <1>1, <1>2, <1>5 DEF BhInv, BhTypes, BagIsOwn
  <1>7. OnlyOne'  BY <1>1, <1>2, <1>3, <1>5 DEF OnlyOne
  <1> QED  BY <1>1, <1>5, <1>6, <1>7, NotReturned DEF BhInv

\* What a call leaves behind is the file.
LEMMA EndKeepsRows == BhInv /\ End => BhInv'
PROOF
  <1> SUFFICES ASSUME BhInv, End  PROVE BhInv'
    OBVIOUS
  <1>1. pc' = "idle" /\ bag' = NoTags /\ UNCHANGED <<algorithm, rows>>
    BY DEF End
  <1>2. NoTags \in RowTags  BY DEF NoTags, RowTags
  <1>3. BhTypes' /\ RowsAreOwn' /\ BagIsOwn' /\ OnlyOne'
    BY <1>1, <1>2 DEF BhInv, BhTypes, RowsAreOwn, BagIsOwn, OnlyOne
  <1> QED  BY <1>1, <1>3, NotReturned DEF BhInv

-----------------------------------------------------------------------------
(* What is returned. *)

\* A relaxed row of the file is a minimum with its own energy.
LEMMA RelaxedRowFacts ==
  ASSUME BhInv, NEW i \in DOMAIN rows, rows[i].relaxed
  PROVE  /\ rows[i] \in RelaxedRows
         /\ algorithm = "bh" => (rows[i].tags.ga_eligible # "no" <=> rows[i].geo \in Sound)
PROOF
  <1>1. rows \in Seq(DbRows)  BY DEF BhInv, BhTypes
  <1>2. rows[i] \in DbRows  BY <1>1
  <1>3. /\ Scored(rows[i])
        /\ algorithm = "bh" => (rows[i].tags.ga_eligible # "no" <=> rows[i].geo \in Sound)
    BY DEF BhInv, RowsAreOwn
  <1> QED  BY <1>2, <1>3 DEF RelaxedRows

\* Minima that are rows of the file have the energies of their geometries.
LEMMA OwnEnergies ==
  ASSUME BhInv, NEW found \in SUBSET (DOMAIN rows),
         \A i \in found : rows[i].relaxed /\ rows[i].geo \in Sound,
         \A n \in DOMAIN minima' : \E i \in found : minima'[n] = Minimum(rows[i])
  PROVE  ReturnedPassedTheGate' /\ EnergiesAreOwn'
PROOF
  <1>1. ASSUME NEW n \in DOMAIN minima'
        PROVE  /\ minima'[n].row.geo \in Sound
               /\ minima'[n].energy = IF minima'[n].row.failed THEN Penalty
                                      ELSE EnergyOf[minima'[n].row.geo]
    <2>1. PICK i \in found : minima'[n] = Minimum(rows[i])  OBVIOUS
    <2>2. rows[i] \in RelaxedRows /\ rows[i].geo \in Sound  BY RelaxedRowFacts
    <2>3. /\ minima'[n].row = rows[i]
          /\ minima'[n].energy = IF rows[i].failed THEN Penalty ELSE EnergyOf[rows[i].geo]
      BY <2>1, <2>2, MinimumFacts
    <2> QED  BY <2>2, <2>3
  <1> QED  BY <1>1 DEF ReturnedPassedTheGate, EnergiesAreOwn

\* The minima of the whole file: every row but the marked seeds.
LEMMA FinishKeepsOne == BhInv /\ Finish => BhInv'
PROOF
  <1> SUFFICES ASSUME BhInv, Finish  PROVE BhInv'
    OBVIOUS
  <1> DEFINE found == {i \in DOMAIN rows : rows[i].relaxed /\ rows[i].tags.ga_eligible # "no"}
             sorted == Extracted(found)
  <1>1. /\ pc = "hop" /\ pc' = "returned" /\ minima' = Unique(sorted)
        /\ UNCHANGED <<algorithm, rows, bag, confid, last>>
    BY DEF Finish
  <1>2. algorithm = "bh" /\ rows \in Seq(DbRows)
    BY <1>1 DEF BhInv, BhTypes, OnlyOne
  <1>3. /\ found \in SUBSET (DOMAIN rows)
        /\ \A i \in found : rows[i].relaxed /\ rows[i].geo \in Sound
        /\ \A i \in found : rows[i] \in RelaxedRows
        /\ \A i \in DOMAIN rows : rows[i].relaxed /\ rows[i].geo \in Sound => i \in found
    BY <1>2, RelaxedRowFacts
  <1> HIDE DEF found
  <1>4. /\ sorted \in Seq(Minima)
        /\ \A n \in DOMAIN sorted : \E i \in found : sorted[n] = Minimum(rows[i])
        /\ \A i \in found : \E n \in DOMAIN sorted : sorted[n] = Minimum(rows[i])
        /\ \A n, m \in DOMAIN sorted : n < m => sorted[n].energy <= sorted[m].energy
    BY <1>2, <1>3, ExtractedFacts
  <1> HIDE DEF sorted
  <1>5. /\ \A k \in DOMAIN minima' : \E m \in DOMAIN sorted : minima'[k] = sorted[m]
        /\ \A m \in DOMAIN sorted : \E k \in DOMAIN minima' :
             minima'[k].energy <= sorted[m].energy /\ Same(minima'[k], sorted[m])
        /\ \A i, k \in DOMAIN minima' : i # k => ~Same(minima'[i], minima'[k])
    BY <1>1, <1>4, UniqueKeepsOne
  <1>6. \A k \in DOMAIN minima' : \E i \in found : minima'[k] = Minimum(rows[i])
    BY <1>4, <1>5
  <1>7. ReturnedPassedTheGate' /\ EnergiesAreOwn'  BY <1>3, <1>6, OwnEnergies
  <1>8. ASSUME NEW i \in DOMAIN rows, rows[i].relaxed, rows[i].geo \in Sound
        PROVE  \E k \in DOMAIN minima' :
                 minima'[k].energy <= Energy(rows[i]) /\ Same(minima'[k], Minimum(rows[i]))
    <2>1. i \in found  BY <1>3, <1>8
    <2>2. PICK n \in DOMAIN sorted : sorted[n] = Minimum(rows[i])  BY <1>4, <2>1
    <2>3. sorted[n].energy = Energy(rows[i])  BY <1>3, <2>1, <2>2, MinimumFacts
    <2> QED  BY <1>5, <2>2, <2>3
  <1>9. FoundIsKeptOnce'
    BY <1>1, <1>5, <1>8 DEF FoundIsKeptOnce
  <1>10. BhTypes' /\ RowsAreOwn' /\ BagIsOwn' /\ OnlyOne'
    BY <1>1 DEF BhInv, BhTypes, RowsAreOwn, BagIsOwn, OnlyOne
  <1> QED  BY <1>7, <1>9, <1>10 DEF BhInv, BhProperties

\* A simple call returns its only relaxed row, if that passes the gate.
LEMMA ValidateKeepsOne == BhInv /\ Validate => BhInv'
PROOF
  <1> SUFFICES ASSUME BhInv, Validate  PROVE BhInv'
    OBVIOUS
  <1> DEFINE found == {i \in DOMAIN rows : rows[i].relaxed}
             sorted == Extracted(found)
  <1>1. /\ pc = "validate" /\ pc' = "returned"
        /\ minima' = IF last.geo \in Sound THEN sorted ELSE <<>>
        /\ UNCHANGED <<algorithm, rows, bag, confid, last>>
    BY DEF Validate
  <1>2. /\ algorithm = "simple" /\ rows \in Seq(DbRows) /\ Len(rows) = 2
        /\ rows[2].geo = last.geo /\ ~rows[1].relaxed
    <2>1. OnlyOne /\ rows \in Seq(DbRows)  BY DEF BhInv, BhTypes
    <2>2. pc = "validate"  BY <1>1
    <2>3. algorithm = "simple" /\ Len(rows) = 2 /\ rows[2].geo = last.geo
      BY <2>1, <2>2 DEF OnlyOne
    <2>4. Len(rows) > 0  BY <2>3
    <2>5. ~rows[1].relaxed  BY <2>1, <2>3, <2>4 DEF OnlyOne
    <2> QED  BY <2>1, <2>3, <2>5
  <1>3. /\ found \in SUBSET (DOMAIN rows)
        /\ \A i \in found : i = 2 /\ rows[i].relaxed
        /\ \A i \in found : rows[i] \in RelaxedRows
    <2>1. DOMAIN rows = {1, 2}  BY <1>2
    <2>2. \A i \in found : i = 2 /\ rows[i].relaxed  BY <1>2, <2>1
    <2> QED  BY <2>2, RelaxedRowFacts
  <1> HIDE DEF found
  <1>4. \A n \in DOMAIN sorted : \E i \in found : sorted[n] = Minimum(rows[i])
    BY <1>2, <1>3, ExtractedFacts
  <1> HIDE DEF sorted
  <1>5. ReturnedPassedTheGate' /\ EnergiesAreOwn'
    <2>1. CASE last.geo \in Sound
      <3>1. \A i \in found : rows[i].relaxed /\ rows[i].geo \in Sound
        BY <1>2, <1>3, <2>1
      <3>2. minima' = sorted  BY <1>1, <2>1
      <3>3. \A n \in DOMAIN minima' : \E i \in found : minima'[n] = Minimum(rows[i])
        BY <1>4, <3>2
      <3> QED  BY <1>3, <3>1, <3>3, OwnEnergies
    <2>2. CASE last.geo \notin Sound
      <3>1. minima' = <<>>  BY <1>1, <2>2
      <3> QED  BY <3>1 DEF ReturnedPassedTheGate, EnergiesAreOwn
    <2> QED  BY <2>1, <2>2
  <1>6. FoundIsKeptOnce'  BY <1>1, <1>2 DEF FoundIsKeptOnce
  <1>7. BhTypes' /\ RowsAreOwn' /\ BagIsOwn' /\ OnlyOne'
    BY <1>1 DEF BhInv, BhTypes, RowsAreOwn, BagIsOwn, OnlyOne
  <1> QED  BY <1>5, <1>6, <1>7 DEF BhInv, BhProperties

\* Every step of a call keeps the invariant, and so does its death.
LEMMA BhNextKeeps == BhInv /\ [Next]_vars => BhInv'
PROOF
  <1> SUFFICES ASSUME BhInv, [Next]_vars  PROVE BhInv'
    OBVIOUS
  <1>1. CASE Setup  BY <1>1, SetupKeepsRows
  <1>2. CASE Fetch  BY <1>2, FetchKeepsRows
  <1>3. CASE RelaxSeed \/ RelaxTrial  BY <1>3, RelaxKeepsRows
  <1>4. CASE WriteSeed  BY <1>4, WriteSeedKeepsRows
  <1>5. CASE RejectMove \/ RejectTrial  BY <1>5, RejectKeepsRows
  <1>6. CASE InsertTrial  BY <1>6, InsertTrialKeepsRows
  <1>7. CASE KeepTrial  BY <1>7, KeepTrialKeepsRows
  <1>8. CASE Finish  BY <1>8, FinishKeepsOne
  <1>9. CASE WriteSimple  BY <1>9, WriteSimpleKeepsRows
  <1>10. CASE Validate  BY <1>10, ValidateKeepsOne
  <1>11. CASE End  BY <1>11, EndKeepsRows
  <1>12. CASE UNCHANGED vars
    BY <1>12 DEF vars, BhInv, BhTypes, RowsAreOwn, BagIsOwn, OnlyOne, BhProperties,
       ReturnedPassedTheGate, EnergiesAreOwn, FoundIsKeptOnce, Returned
  <1> QED
    BY <1>1, <1>2, <1>3, <1>4, <1>5, <1>6, <1>7, <1>8, <1>9, <1>10, <1>11, <1>12 DEF Next

\* Through any calls on one file, failed and killed ones too, a relaxed row
\* has the energy of its own geometry and the verdict of its own walk.
THEOREM BhInvariance == Spec => []BhInv
PROOF
  <1>1. Init => BhInv  BY BhInitInv
  <1>2. BhInv /\ [Next]_vars => BhInv'  BY BhNextKeeps
  <1> QED  BY <1>1, <1>2, PTL DEF Spec

\* bh_go and simple_go return only what passed the structural gate.
THEOREM MinimaPassedTheGate == Spec => []ReturnedPassedTheGate
PROOF
  <1>1. BhInv => ReturnedPassedTheGate  BY DEF BhInv, BhProperties
  <1> QED  BY <1>1, BhInvariance, PTL

\* A minimum is returned with the energy of its own relaxation, although its
\* tags come from the structure it was moved from.
THEOREM MinimaHaveTheirEnergies == Spec => []EnergiesAreOwn
PROOF
  <1>1. BhInv => EnergiesAreOwn  BY DEF BhInv, BhProperties
  <1> QED  BY <1>1, BhInvariance, PTL

\* bh_go returns one of each sound geometry that any call wrote to the file.
THEOREM NothingFoundIsLost == Spec => []FoundIsKeptOnce
PROOF
  <1>1. BhInv => FoundIsKeptOnce  BY DEF BhInv, BhProperties
  <1> QED  BY <1>1, BhInvariance, PTL
=============================================================================
