----------------------------- MODULE CampaignProofs -----------------------------
(***************************************************************************)
(* Proofs about Campaign, for any number of processes, runs and faults and *)
(* whatever the searches find: what is tagged was a final minimum, what is *)
(* a final minimum gets its tag, what was known comes back, and the folder *)
(* mirrors the final minima.  That the right row is tagged holds of the    *)
(* genetic algorithm only, whose rows carry a final_id of their own.       *)
(***************************************************************************)
EXTENDS Campaign, FiniteSetTheorems, NaturalsInduction, TLAPS

-----------------------------------------------------------------------------
(* The inductive invariant: types, the disk, and each process by itself. *)

Places == Runs \X Nat
Files == [rank : Nat, run : Runs]

\* A row that a database holds.
IsRow(a) == a[1] \in Runs /\ a \in Rows(a[1])

NameOf(f) == [rank |-> f.rank, run |-> f.run]
FileOf(p, i) == [rank |-> i, run |-> finals[p][i][1], row |-> finals[p][i]]

TypeOK ==
  /\ begun \in 0..MaxRuns
  /\ db \in [Runs -> {"none", "file", "stamped"}] /\ found \in [Runs -> Nat]
  /\ pc \in [Processes -> {"idle", "list", "load", "setup", "search", "write",
                           "prune", "tag", "done"}]
  /\ run \in [Processes -> Nat]
  /\ memo \in [Processes -> [Runs -> {"unknown", "yes", "no"}]]
  /\ todo \in [Processes -> SUBSET Runs]
  /\ previous \in [Processes -> SUBSET Places] /\ known \in [Processes -> SUBSET Places]
  /\ finals \in [Processes -> Seq(Places)]
  /\ written \in [Processes -> SUBSET Files] /\ stale \in [Processes -> SUBSET Files]
  /\ missed \in [Processes -> SUBSET Runs] /\ blind \in [Processes -> SUBSET Runs]
  /\ rejected \in [Processes -> SUBSET Places]
  /\ untagged \in [Processes -> SUBSET Runs]
  /\ disturbed = [p \in Processes |-> disturbed[p]]
  /\ tags \subseteq Places /\ IsFiniteSet(tags)
  /\ \A f \in folder : /\ f = [rank |-> f.rank, run |-> f.run, row |-> f.row]
                       /\ f.rank \in Nat /\ f.run \in Runs

\* Tagged rows exist and, where rows have final ids of their own, were final
\* minima; rows are in stamped databases.
DiskFits ==
  /\ \A a \in tags : IsRow(a) /\ (Optimizer = "ga" => a \in chosen)
  /\ \A r \in Runs : found[r] <= Len(Finds[r]) /\ (found[r] > 0 => db[r] = "stamped")

\* What a process holds are rows of databases.
HoldsRows(p) ==
  /\ IsFiniteSet(previous[p]) /\ \A a \in previous[p] : IsRow(a)
  /\ known[p] \subseteq tags
  /\ \A i \in DOMAIN finals[p] : IsRow(finals[p][i]) /\ finals[p][i] \in chosen
  /\ pc[p] # "idle" => run[p] \in Runs
  /\ pc[p] = "search" => db[run[p]] = "stamped"

\* A process that takes a database for a foreign one has seen it busy or
\* without a stamp.
MemoFits(p) == \A r \in Runs : memo[p][r] = "no" => r \in blind[p]

\* Which phases know earlier and final minima.
PhaseFits(p) ==
  /\ pc[p] \in {"idle", "list"} => known[p] = {}
  /\ pc[p] \in {"idle", "list", "load", "setup", "search"} =>
       finals[p] = <<>> /\ written[p] = {} /\ stale[p] = {}

\* Every minimum known when the load began has been or will be read.
LoadFits(p) ==
  pc[p] \in {"load", "setup", "search"} =>
    \A m \in known[p] :
      \/ m[1] \in missed[p] \cup {run[p]}
      \/ m \in previous[p]
      \/ pc[p] = "load" /\ m[1] \in todo[p]

\* What KnownMinimaReturn says of one process.
Better(f, m) == Shape[Of(f)] = Shape[Of(m)] /\ Of(f) <= Of(m)
ReturnFits(p) ==
  pc[p] \in {"write", "prune", "tag", "done"} =>
    \A m \in known[p] :
      \/ m[1] \in missed[p] \cup {run[p]}
      \/ \E i \in DOMAIN finals[p] : Better(finals[p][i], m)
      \/ \E f \in rejected[p] : Better(f, m)

\* Every final minimum has been or will be tagged, where rows have final ids of
\* their own.
TagsFit(p) ==
  Optimizer = "ga" /\ pc[p] \in {"tag", "done"} =>
    \A i \in DOMAIN finals[p] :
      \/ finals[p][i] \in tags
      \/ finals[p][i][1] \in untagged[p] \cup blind[p]
      \/ pc[p] = "tag" /\ finals[p][i][1] \in todo[p]

\* The files written so far, then the files that stay.
WrittenFits(p) ==
  pc[p] = "write" =>
    /\ IsFiniteSet(written[p]) /\ Cardinality(written[p]) <= Len(finals[p])
    /\ written[p] = {Name(p, i) : i \in 1..Cardinality(written[p])}
FolderFits(p) ==
  ~disturbed[p] =>
    /\ pc[p] = "write" =>
         {f \in folder : NameOf(f) \in written[p]} =
           {FileOf(p, i) : i \in 1..Cardinality(written[p])}
    /\ pc[p] = "prune" =>
         {f \in folder : NameOf(f) \notin stale[p]} = {FileOf(p, i) : i \in DOMAIN finals[p]}
    /\ pc[p] \in {"tag", "done"} /\ finals[p] # <<>> =>
         folder = {FileOf(p, i) : i \in DOMAIN finals[p]}

Own(p) ==
  /\ HoldsRows(p) /\ MemoFits(p) /\ PhaseFits(p) /\ LoadFits(p) /\ ReturnFits(p)
  /\ TagsFit(p) /\ WrittenFits(p) /\ FolderFits(p)

IInv == TypeOK /\ DiskFits /\ \A p \in Processes : Own(p)

\* What a step of another process leaves a process.
SameState(p) ==
  /\ pc'[p] = pc[p] /\ run'[p] = run[p] /\ memo'[p] = memo[p] /\ todo'[p] = todo[p]
  /\ previous'[p] = previous[p] /\ known'[p] = known[p] /\ missed'[p] = missed[p]
  /\ finals'[p] = finals[p] /\ written'[p] = written[p] /\ stale'[p] = stale[p]
  /\ rejected'[p] = rejected[p] /\ untagged'[p] = untagged[p] /\ blind'[p] = blind[p]

NoticesFolder(p) ==
  \/ folder' = folder /\ disturbed'[p] = disturbed[p]
  \/ pc[p] \in {"write", "prune", "tag", "done"} => disturbed'[p]

Apart(p) == \A q \in Processes \ {p} : SameState(q) /\ NoticesFolder(q)

\* What no step takes back from the disk.
Grows ==
  /\ tags \subseteq tags' /\ chosen \subseteq chosen'
  /\ \A r \in Runs : found[r] <= found'[r] /\ (db[r] = "stamped" => db'[r] = "stamped")

-----------------------------------------------------------------------------
(* Rows. *)

\* A nonempty set of natural numbers has a least one.
LEMMA LeastNumber ==
  ASSUME NEW T \in SUBSET Nat, T # {}
  PROVE  \E n \in T : \A m \in T : n <= m
PROOF
  <1>1. PICK n \in T : \A m \in T : ~ (<<m, n>> \in OpToRel(<, Nat))
    BY NatLessThanWellFounded, WFMin, Zenon
  <1>2. \A m \in T : ~ (m < n)
    BY <1>1, Zenon DEF OpToRel
  <1> QED  BY <1>2

\* Something is the least by a measure.
LEMMA LeastBy ==
  ASSUME NEW S, S # {}, NEW f \in [S -> Nat]
  PROVE  \E x \in S : \A y \in S : f[x] <= f[y]
PROOF
  <1> DEFINE T == {f[x] : x \in S}
  <1>1. T \in SUBSET Nat /\ T # {}  OBVIOUS
  <1>2. PICK n \in T : \A m \in T : n <= m
    <2> HIDE DEF T
    <2> QED  BY <1>1, LeastNumber
  <1>3. PICK x \in S : n = f[x]  BY <1>2
  <1> QED  BY <1>2, <1>3

\* What a row is made of.
LEMMA RowFacts ==
  ASSUME TypeOK, DiskFits
  PROVE  /\ \A a : IsRow(a) =>
              /\ a \in Places /\ a[1] \in Runs /\ a[1] \in Nat /\ a[2] \in 1..found[a[1]]
              /\ a = <<a[1], a[2]>> /\ Of(a) \in Nat
         /\ \A r \in Runs : /\ IsFiniteSet(Rows(r))
                            /\ \A a \in Rows(r) : IsRow(a) /\ a[1] = r
PROOF
  <1>1. Runs \subseteq Nat /\ found \in [Runs -> Nat]
    BY CampaignAssumption DEF Runs, TypeOK
  <1>2. ASSUME NEW a, IsRow(a)
        PROVE  /\ a \in Places /\ a[1] \in Runs /\ a[1] \in Nat /\ a[2] \in 1..found[a[1]]
               /\ a = <<a[1], a[2]>> /\ Of(a) \in Nat
    <2>1. a[1] \in Runs /\ a \in Rows(a[1])  BY <1>2 DEF IsRow
    <2>2. PICK i \in 1..found[a[1]] : a = <<a[1], i>>  BY <2>1 DEF Rows
    <2>3. a[2] = i /\ i \in Nat  BY <1>1, <2>1, <2>2
    <2>4. Finds[a[1]] \in Seq(Nat) /\ i \in 1..Len(Finds[a[1]])
      BY <1>1, <2>1, <2>2, CampaignAssumption DEF DiskFits
    <2>5. Finds[a[1]][i] \in Nat  BY <2>4
    <2> QED  BY <1>1, <2>1, <2>2, <2>3, <2>5 DEF Places, Of
  <1>3. ASSUME NEW r \in Runs
        PROVE  /\ IsFiniteSet(Rows(r))
               /\ \A a \in Rows(r) : IsRow(a) /\ a[1] = r
    <2>1. IsFiniteSet(1..found[r])  BY <1>1, FS_Interval
    <2> DEFINE f == [i \in 1..found[r] |-> <<r, i>>]
    <2>2. f \in Surjection(1..found[r], Rows(r))  BY DEF Surjection, Rows
    <2>3. IsFiniteSet(Rows(r))
      <3> HIDE DEF f
      <3> QED  BY <2>1, <2>2, FS_Surjection
    <2>4. \A a \in Rows(r) : a[1] = r  BY DEF Rows
    <2> QED  BY <2>3, <2>4 DEF IsRow
  <1> QED  BY <1>2, <1>3

\* Rows stay.
LEMMA RowsStay ==
  ASSUME TypeOK, DiskFits, Grows, found' \in [Runs -> Nat]
  PROVE  \A a : IsRow(a) => IsRow(a)'
PROOF
  <1> SUFFICES ASSUME NEW a, IsRow(a)  PROVE IsRow(a)'
    OBVIOUS
  <1>1. a[1] \in Runs /\ a[2] \in 1..found[a[1]] /\ a = <<a[1], a[2]>>
    BY RowFacts
  <1>2. a[2] \in 1..found'[a[1]]
    BY <1>1 DEF TypeOK, Grows
  <1> QED  BY <1>1, <1>2 DEF IsRow, Rows

\* The lowest look-alike of a candidate is kept.
LEMMA UniqueFacts ==
  ASSUME TypeOK, DiskFits, NEW p \in Processes, HoldsRows(p), pc[p] # "idle"
  PROVE  /\ IsFiniteSet(Candidates(p)) /\ \A a \in Candidates(p) : IsRow(a)
         /\ Unique(p) \subseteq Candidates(p)
         /\ \A m \in Candidates(p) : \E b \in Unique(p) : Better(b, m)
PROOF
  <1>1. run[p] \in Runs /\ run[p] \in Nat  BY CampaignAssumption DEF HoldsRows, Runs
  <1>2. IsFiniteSet(Candidates(p)) /\ \A a \in Candidates(p) : IsRow(a)
    <2>1. IsFiniteSet(Rows(run[p])) /\ \A a \in Rows(run[p]) : IsRow(a)
      BY <1>1, RowFacts
    <2>2. IsFiniteSet(previous[p]) /\ \A a \in previous[p] : IsRow(a)
      BY DEF HoldsRows
    <2>3. IsFiniteSet(previous[p] \cup Rows(run[p]))
      BY <2>1, <2>2, FS_Union
    <2> QED  BY <2>1, <2>2, <2>3 DEF Candidates
  <1>3. Unique(p) \subseteq Candidates(p)  BY DEF Unique
  <1>4. ASSUME NEW m \in Candidates(p)  PROVE \E b \in Unique(p) : Better(b, m)
    <2> DEFINE S1 == {a \in Candidates(p) : Shape[Of(a)] = Shape[Of(m)]}
               f1 == [a \in S1 |-> Of(a)]
               flag(a) == IF a[1] = run[p] THEN 1 ELSE 0
    <2>1. \A a \in Candidates(p) :
            Of(a) \in Nat /\ flag(a) \in Nat /\ a[1] \in Nat /\ a[2] \in Nat
      <3> SUFFICES ASSUME NEW a \in Candidates(p)
                   PROVE  Of(a) \in Nat /\ flag(a) \in Nat /\ a[1] \in Nat /\ a[2] \in Nat
        OBVIOUS
      <3>1. /\ Of(a) \in Nat /\ a[1] \in Runs /\ a[1] \in Nat
            /\ a[2] \in 1..found[a[1]] /\ found[a[1]] \in Nat
        BY <1>2, RowFacts DEF TypeOK
      <3> QED  BY <3>1
    <2> HIDE DEF flag
    <2>2. PICK b1 \in S1 : \A a \in S1 : Of(b1) <= Of(a)
      <3>1. S1 # {} /\ f1 \in [S1 -> Nat]  BY <2>1
      <3>2. \E x \in S1 : \A y \in S1 : f1[x] <= f1[y]
        <4> HIDE DEF S1, f1
        <4> QED  BY <3>1, LeastBy
      <3> QED  BY <3>2
    <2> DEFINE S2 == {a \in S1 : Of(a) = Of(b1)}
               f2 == [a \in S2 |-> flag(a)]
    <2>3. PICK b2 \in S2 : \A a \in S2 : flag(b2) <= flag(a)
      <3>1. S2 # {} /\ f2 \in [S2 -> Nat]  BY <2>1, <2>2
      <3>2. \E x \in S2 : \A y \in S2 : f2[x] <= f2[y]
        <4> HIDE DEF S2, f2
        <4> QED  BY <3>1, LeastBy
      <3> QED  BY <3>2
    <2> DEFINE S3 == {a \in S2 : flag(a) = flag(b2)}
               f3 == [a \in S3 |-> a[1]]
    <2>4. PICK b3 \in S3 : \A a \in S3 : b3[1] <= a[1]
      <3>1. S3 # {} /\ f3 \in [S3 -> Nat]  BY <2>1, <2>3
      <3>2. \E x \in S3 : \A y \in S3 : f3[x] <= f3[y]
        <4> HIDE DEF S3, f3
        <4> QED  BY <3>1, LeastBy
      <3> QED  BY <3>2
    <2> DEFINE S4 == {a \in S3 : a[1] = b3[1]}
               f4 == [a \in S4 |-> a[2]]
    <2>5. PICK b \in S4 : \A a \in S4 : b[2] <= a[2]
      <3>1. S4 # {} /\ f4 \in [S4 -> Nat]  BY <2>1, <2>4
      <3>2. \E x \in S4 : \A y \in S4 : f4[x] <= f4[y]
        <4> HIDE DEF S4, f4
        <4> QED  BY <3>1, LeastBy
      <3> QED  BY <3>2
    <2>6. b \in Candidates(p) /\ Shape[Of(b)] = Shape[Of(m)] /\ Of(b) <= Of(m)
      BY <2>1, <2>2, <2>5
    <2>7. ASSUME NEW a \in Candidates(p), Shape[Of(a)] = Shape[Of(m)], Before(p, a, b)
          PROVE  FALSE
      <3>1. \/ Of(a) < Of(b)
            \/ Of(a) = Of(b) /\ flag(a) < flag(b)
            \/ Of(a) = Of(b) /\ flag(a) = flag(b) /\ a[1] < b[1]
            \/ Of(a) = Of(b) /\ flag(a) = flag(b) /\ a[1] = b[1] /\ a[2] < b[2]
        <4> DEFINE x == Place(p, a)
                   y == Place(p, b)
        <4>1. PICK i \in 1..4 : x[i] < y[i] /\ \A j \in 1..(i - 1) : x[j] = y[j]
          BY <2>7 DEF Before
        <4>2. /\ x[1] = Of(a) /\ x[2] = flag(a) /\ x[3] = a[1] /\ x[4] = a[2]
              /\ y[1] = Of(b) /\ y[2] = flag(b) /\ y[3] = b[1] /\ y[4] = b[2]
          BY DEF Place, flag
        <4> HIDE DEF x, y
        <4>3. i = 1 \/ i = 2 \/ i = 3 \/ i = 4  BY <4>1
        <4>4. CASE i = 1  BY <4>1, <4>2, <4>4
        <4>5. CASE i = 2
          <5>1. 1 \in 1..(i - 1)  BY <4>5
          <5> QED  BY <4>1, <4>2, <4>5, <5>1
        <4>6. CASE i = 3
          <5>1. 1 \in 1..(i - 1) /\ 2 \in 1..(i - 1)  BY <4>6
          <5> QED  BY <4>1, <4>2, <4>6, <5>1
        <4>7. CASE i = 4
          <5>1. 1 \in 1..(i - 1) /\ 2 \in 1..(i - 1) /\ 3 \in 1..(i - 1)  BY <4>7
          <5> QED  BY <4>1, <4>2, <4>7, <5>1
        <4> QED  BY <4>3, <4>4, <4>5, <4>6, <4>7
      <3>2. /\ Of(b) = Of(b1) /\ flag(b) = flag(b2) /\ b[1] = b3[1]
            /\ \A z \in Candidates(p) :
                 Of(z) \in Nat /\ flag(z) \in Nat /\ z[1] \in Nat /\ z[2] \in Nat
            /\ b1 \in Candidates(p) /\ b2 \in Candidates(p) /\ b3 \in Candidates(p)
        BY <2>1, <2>2, <2>3, <2>4, <2>5
      <3>3. a \in S1  BY <2>7
      <3>4. CASE Of(a) < Of(b)
        BY <2>2, <2>6, <2>7, <3>2, <3>3, <3>4
      <3>5. CASE Of(a) = Of(b) /\ flag(a) < flag(b)
        <4>1. a \in S2  BY <3>2, <3>3, <3>5
        <4> QED  BY <2>3, <2>6, <2>7, <3>2, <3>5, <4>1
      <3>6. CASE Of(a) = Of(b) /\ flag(a) = flag(b) /\ a[1] < b[1]
        <4>1. a \in S3  BY <3>2, <3>3, <3>6
        <4> QED  BY <2>4, <2>6, <2>7, <3>2, <3>6, <4>1
      <3>7. CASE Of(a) = Of(b) /\ flag(a) = flag(b) /\ a[1] = b[1] /\ a[2] < b[2]
        <4>1. a \in S4  BY <3>2, <3>3, <3>7
        <4> QED  BY <2>5, <2>6, <2>7, <3>2, <3>7, <4>1
      <3> QED  BY <3>1, <3>4, <3>5, <3>6, <3>7
    <2>8. b \in Unique(p)
      BY <2>6, <2>7 DEF Unique, Shadows
    <2> QED  BY <2>6, <2>8 DEF Better
  <1> QED  BY <1>2, <1>3, <1>4

\* A final_id leads to a row, in the genetic algorithm to the row itself.
LEMMA MatchedFacts ==
  ASSUME TypeOK, DiskFits, NEW a, IsRow(a)
  PROVE  IsRow(Matched(a)) /\ (Optimizer = "ga" => Matched(a) = a)
PROOF
  <1>1. /\ a \in Rows(a[1]) /\ a[1] \in Runs /\ a[2] \in Nat
        /\ \A b \in Rows(a[1]) : IsRow(b) /\ b[1] = a[1] /\ b[2] \in Nat
    <2>1. a[1] \in Runs /\ a \in Rows(a[1]) /\ found \in [Runs -> Nat]
      BY DEF IsRow, TypeOK
    <2>2. \A b : IsRow(b) => b[2] \in Nat
      BY <2>1, RowFacts DEF Places
    <2>3. \A b \in Rows(a[1]) : IsRow(b) /\ b[1] = a[1]  BY <2>1, RowFacts
    <2> QED  BY <2>1, <2>2, <2>3
  <1> DEFINE Same == {b \in Rows(a[1]) : FinalId(b) = FinalId(a)}
             Fits(b) == /\ FinalId(b) = FinalId(a)
                        /\ \A c \in Rows(a[1]) : FinalId(c) = FinalId(a) => b[2] <= c[2]
  <1>2. Matched(a) = CHOOSE b \in Rows(a[1]) : Fits(b)
    BY DEF Matched
  <1>3. PICK b \in Same : \A c \in Same : b[2] <= c[2]
    <2> DEFINE place == [c \in Same |-> c[2]]
    <2>1. Same # {} /\ place \in [Same -> Nat]  BY <1>1
    <2>2. \E x \in Same : \A y \in Same : place[x] <= place[y]
      <3> HIDE DEF Same, place
      <3> QED  BY <2>1, LeastBy
    <2> QED  BY <2>2
  <1>4. b \in Rows(a[1]) /\ Fits(b)  BY <1>3
  <1>5. Optimizer = "ga" => \A c : Fits(c) => c = a
    BY DEF FinalId
  <1> HIDE DEF Fits, Same
  <1>6. Matched(a) \in Rows(a[1]) /\ Fits(Matched(a))  BY <1>2, <1>4
  <1> QED  BY <1>1, <1>5, <1>6

\* A discovery finds every stamped database, or has a reason not to.
LEMMA DiscoverFacts ==
  ASSUME TypeOK, NEW p \in Processes, MemoFits(p), NEW of \in SUBSET Runs, Discover(p, of)
  PROVE  /\ memo' \in [Processes -> [Runs -> {"unknown", "yes", "no"}]]
         /\ todo' \in [Processes -> SUBSET Runs]
         /\ blind' \in [Processes -> SUBSET Runs]
         /\ \A q \in Processes \ {p} : memo'[q] = memo[q] /\ todo'[q] = todo[q] /\ blind'[q] = blind[q]
         /\ blind[p] \subseteq blind'[p]
         /\ \A r \in Runs : memo'[p][r] = "no" => r \in blind'[p]
         /\ \A r \in of : db[r] = "stamped" => r \in todo'[p] \cup blind'[p]
PROOF
  <1>1. PICK hits \in SUBSET (OnDisk \cap of), busy \in SUBSET (OnDisk \cap of) :
          /\ memo' = [memo EXCEPT ![p] = Remembered(p, Merged(hits) \cap of, busy)]
          /\ todo' = [todo EXCEPT ![p] = {r \in Merged(hits) \cap of : memo'[p][r] = "yes"}]
          /\ blind' = [blind EXCEPT ![p] = @ \cup ((OnDisk \cap of) \ Stamped(busy))]
    BY DEF Discover
  <1> DEFINE files == Merged(hits) \cap of
  <1>2. files = OnDisk \cap of /\ OnDisk \subseteq Runs
    BY DEF Merged, OnDisk
  <1>3. /\ memo'[p] = [r \in Runs |->
             IF memo[p][r] # "unknown" \/ r \notin files THEN memo[p][r]
             ELSE IF r \in Stamped(busy) THEN "yes" ELSE "no"]
        /\ \A q \in Processes \ {p} : memo'[q] = memo[q]
        /\ memo' \in [Processes -> [Runs -> {"unknown", "yes", "no"}]]
    <2> HIDE DEF files
    <2>1. \A r \in Runs : memo[p][r] \in {"unknown", "yes", "no"}  BY DEF TypeOK
    <2> DEFINE m == [r \in Runs |->
             IF memo[p][r] # "unknown" \/ r \notin files THEN memo[p][r]
             ELSE IF r \in Stamped(busy) THEN "yes" ELSE "no"]
    <2>2. m \in [Runs -> {"unknown", "yes", "no"}]  BY <2>1
    <2>3. memo' = [memo EXCEPT ![p] = m]  BY <1>1 DEF Remembered, files
    <2> HIDE DEF m
    <2>4. memo'[p] = m  BY <2>3 DEF TypeOK
    <2>5. \A q \in Processes \ {p} : memo'[q] = memo[q]  BY <2>3 DEF TypeOK
    <2>6. memo' \in [Processes -> [Runs -> {"unknown", "yes", "no"}]]
      BY <2>2, <2>3 DEF TypeOK
    <2> QED  BY <2>4, <2>5, <2>6 DEF m
  <1>4. /\ todo'[p] = {r \in files : memo'[p][r] = "yes"}
        /\ \A q \in Processes \ {p} : todo'[q] = todo[q]
        /\ todo' \in [Processes -> SUBSET Runs]
    <2> DEFINE m == {r \in files : memo'[p][r] = "yes"}
    <2>1. m \in SUBSET Runs  BY <1>2
    <2>2. todo' = [todo EXCEPT ![p] = m]  BY <1>1
    <2> HIDE DEF m
    <2>3. todo'[p] = m  BY <2>2 DEF TypeOK
    <2>4. \A q \in Processes \ {p} : todo'[q] = todo[q]  BY <2>2 DEF TypeOK
    <2>5. todo' \in [Processes -> SUBSET Runs]  BY <2>1, <2>2 DEF TypeOK
    <2> QED  BY <2>3, <2>4, <2>5 DEF m
  <1>5. /\ blind'[p] = blind[p] \cup (files \ Stamped(busy))
        /\ \A q \in Processes \ {p} : blind'[q] = blind[q]
        /\ blind' \in [Processes -> SUBSET Runs]
    BY <1>1, <1>2 DEF TypeOK
  <1> HIDE DEF files
  <1>6. \A r \in Runs : memo'[p][r] = "no" => r \in blind'[p]
    <2> SUFFICES ASSUME NEW r \in Runs, memo'[p][r] = "no"  PROVE r \in blind'[p]
      OBVIOUS
    <2>1. memo[p][r] = "no" \/ (r \in files /\ r \notin Stamped(busy))  BY <1>3
    <2> QED  BY <1>5, <2>1 DEF MemoFits
  <1>7. \A r \in of : db[r] = "stamped" => r \in todo'[p] \cup blind'[p]
    <2> SUFFICES ASSUME NEW r \in of, db[r] = "stamped"  PROVE r \in todo'[p] \cup blind'[p]
      OBVIOUS
    <2>1. r \in Runs /\ r \in files  BY <1>2 DEF OnDisk
    <2>2. memo'[p][r] \in {"yes", "no"}
      <3>1. memo[p][r] \in {"unknown", "yes", "no"}  BY <2>1 DEF TypeOK
      <3> QED  BY <1>3, <2>1, <3>1
    <2> QED  BY <1>4, <1>6, <2>1, <2>2
  <1> QED  BY <1>3, <1>4, <1>5, <1>6, <1>7

-----------------------------------------------------------------------------
(* Steps: what one process does leaves the others in order. *)

\* A process that is not the one that steps stays in order.
LEMMA OthersStayFit ==
  ASSUME TypeOK, DiskFits, Grows, found' \in [Runs -> Nat],
         NEW q \in Processes, Own(q), SameState(q), NoticesFolder(q)
  PROVE  Own(q)'
PROOF
  <1>1. \A a : IsRow(a) => IsRow(a)'  BY RowsStay
  <1>2. HoldsRows(q)'
    BY <1>1 DEF Own, HoldsRows, SameState, Grows
  <1>3. MemoFits(q)'  BY DEF Own, MemoFits, SameState
  <1>4. PhaseFits(q)'  BY DEF Own, PhaseFits, SameState
  <1>5. LoadFits(q)'  BY DEF Own, LoadFits, SameState
  <1>6. ReturnFits(q)'
    BY DEF Own, ReturnFits, SameState, Better, Of
  <1>7. TagsFit(q)'  BY DEF Own, TagsFit, SameState, Grows
  <1>8. WrittenFits(q)'
    BY DEF Own, WrittenFits, SameState, Name
  <1>9. FolderFits(q)'
    <2>1. CASE folder' = folder /\ disturbed'[q] = disturbed[q]
      BY <2>1 DEF Own, FolderFits, SameState, FileOf, NameOf
    <2>2. CASE pc[q] \in {"write", "prune", "tag", "done"} => disturbed'[q]
      BY <2>2 DEF FolderFits, SameState
    <2> QED  BY <2>1, <2>2 DEF NoticesFolder
  <1> QED  BY <1>2, <1>3, <1>4, <1>5, <1>6, <1>7, <1>8, <1>9 DEF Own

\* So a step has only the disk and its own process to answer for.
LEMMA OneSteps ==
  ASSUME IInv, NEW p \in Processes, Apart(p), Grows, TypeOK', DiskFits', Own(p)'
  PROVE  IInv'
PROOF
  <1>1. ASSUME NEW q \in Processes  PROVE Own(q)'
    <2>1. CASE q = p  BY <2>1
    <2>2. CASE q # p
      <3>1. Own(q) /\ SameState(q) /\ NoticesFolder(q) /\ TypeOK /\ DiskFits
        BY <2>2 DEF IInv, Apart
      <3>2. found' \in [Runs -> Nat]  BY DEF TypeOK
      <3> QED  BY <3>1, <3>2, OthersStayFit
    <2> QED  BY <2>1, <2>2
  <1> QED  BY <1>1 DEF IInv

-----------------------------------------------------------------------------
(* The invariant, action by action. *)

\* A run begins.
LEMMA BeginKeeps ==
  ASSUME IInv, NEW p \in Processes, Begin(p)
  PROVE  IInv'
PROOF
  <1>1. TypeOK /\ DiskFits /\ Own(p) /\ pc[p] = "idle" /\ MaxRuns \in Nat
    BY CampaignAssumption DEF IInv, Begin
  <1>2. /\ begun' = begun + 1 /\ run' = [run EXCEPT ![p] = begun']
        /\ begun' \in 0..MaxRuns /\ begun' \in Runs /\ begun' \in Nat
    BY <1>1 DEF Begin, TypeOK, Runs
  <1>3. PICK place \in {"setup", "list"} : pc' = [pc EXCEPT ![p] = place]
    BY DEF Begin, GoTo
  <1>4. /\ UNCHANGED <<db, found, tags, folder, memo, todo, previous, known, missed, finals,
                       written, stale, rejected, chosen, untagged, blind, disturbed>>
    BY DEF Begin, loadVars, finalVars
  <1>5. TypeOK'
    BY <1>1, <1>2, <1>3, <1>4 DEF TypeOK
  <1>6. Apart(p) /\ Grows
    BY <1>1, <1>2, <1>3, <1>4 DEF Apart, Grows, SameState, NoticesFolder, TypeOK
  <1>7. DiskFits'
    BY <1>1, <1>4 DEF DiskFits, IsRow, Rows
  <1>8. pc'[p] = place /\ run'[p] = begun'
    BY <1>1, <1>2, <1>3 DEF TypeOK
  <1>9. known[p] = {} /\ finals[p] = <<>> /\ written[p] = {} /\ stale[p] = {}
    BY <1>1 DEF Own, PhaseFits
  <1>10. HoldsRows(p)'
    BY <1>1, <1>2, <1>4, <1>8 DEF Own, HoldsRows, IsRow, Rows
  <1>11. MemoFits(p)' /\ PhaseFits(p)' /\ LoadFits(p)' /\ ReturnFits(p)' /\ TagsFit(p)'
    BY <1>1, <1>4, <1>8, <1>9
       DEF Own, MemoFits, PhaseFits, LoadFits, ReturnFits, TagsFit
  <1>12. WrittenFits(p)' /\ FolderFits(p)'
    BY <1>8 DEF WrittenFits, FolderFits
  <1> QED  BY <1>1, <1>5, <1>6, <1>7, <1>10, <1>11, <1>12, OneSteps DEF Own

\* It lists the databases of the earlier runs.
LEMMA ListKeeps ==
  ASSUME IInv, NEW p \in Processes, List(p)
  PROVE  IInv'
PROOF
  <1>1. TypeOK /\ DiskFits /\ Own(p) /\ pc[p] = "list" /\ run[p] \in Runs
    BY DEF IInv, List, Own, HoldsRows
  <1>2. /\ memo' \in [Processes -> [Runs -> {"unknown", "yes", "no"}]]
        /\ todo' \in [Processes -> SUBSET Runs]
        /\ blind' \in [Processes -> SUBSET Runs]
        /\ \A q \in Processes \ {p} :
             memo'[q] = memo[q] /\ todo'[q] = todo[q] /\ blind'[q] = blind[q]
        /\ \A r \in Runs : memo'[p][r] = "no" => r \in blind'[p]
        /\ \A r \in Runs \ {run[p]} : db[r] = "stamped" => r \in todo'[p] \cup blind'[p]
    <2>1. Discover(p, Runs \ {run[p]}) /\ MemoFits(p)  BY <1>1 DEF List, Own
    <2> QED  BY <1>1, <2>1, DiscoverFacts
  <1>3. /\ known' = [known EXCEPT ![p] = tags] /\ missed' = [missed EXCEPT ![p] = blind'[p]]
        /\ pc' = [pc EXCEPT ![p] = "load"]
        /\ UNCHANGED <<begun, db, found, tags, folder, run, previous, finals, written, stale,
                       rejected, chosen, untagged, disturbed>>
    BY DEF List, GoTo, diskVars, finalVars
  <1>4. TypeOK'
    BY <1>1, <1>2, <1>3 DEF TypeOK
  <1>5. Apart(p) /\ Grows
    BY <1>1, <1>2, <1>3 DEF Apart, Grows, SameState, NoticesFolder, TypeOK
  <1>6. DiskFits'
    BY <1>1, <1>3 DEF DiskFits, IsRow, Rows
  <1>7. pc'[p] = "load" /\ known'[p] = tags /\ missed'[p] = blind'[p]
    BY <1>1, <1>3 DEF TypeOK
  <1>8. HoldsRows(p)'
    BY <1>1, <1>3, <1>7 DEF Own, HoldsRows, IsRow, Rows
  <1>9. MemoFits(p)' /\ PhaseFits(p)' /\ ReturnFits(p)' /\ TagsFit(p)'
    BY <1>1, <1>2, <1>3, <1>7 DEF Own, MemoFits, PhaseFits, ReturnFits, TagsFit
  <1>10. LoadFits(p)'
    <2>1. ASSUME NEW m \in tags
          PROVE  m[1] \in missed'[p] \cup {run[p]} \/ m[1] \in todo'[p]
      <3>1. m[1] \in Runs /\ m[2] \in 1..found[m[1]] /\ found[m[1]] \in Nat
        BY <1>1, RowFacts DEF DiskFits, TypeOK
      <3>2. db[m[1]] = "stamped"  BY <1>1, <3>1 DEF DiskFits
      <3> QED  BY <1>2, <1>7, <3>1, <3>2
    <2> QED  BY <1>3, <1>7, <2>1 DEF LoadFits
  <1>11. WrittenFits(p)' /\ FolderFits(p)'
    BY <1>7 DEF WrittenFits, FolderFits
  <1> QED  BY <1>1, <1>4, <1>5, <1>6, <1>8, <1>9, <1>10, <1>11, OneSteps DEF Own

\* It reads one of them, or cannot.
LEMMA LoadKeeps ==
  ASSUME IInv, NEW p \in Processes, NEW r \in Runs, Load(p, r)
  PROVE  IInv'
PROOF
  <1>1. TypeOK /\ DiskFits /\ Own(p) /\ pc[p] = "load" /\ r \in todo[p]
    BY DEF IInv, Load
  <1>2. /\ todo' = [todo EXCEPT ![p] = @ \ {r}]
        /\ UNCHANGED <<begun, db, found, tags, folder, pc, run, memo, finals, written, stale,
                       rejected, chosen, untagged, known, blind, disturbed>>
    BY DEF Load, diskVars, finalVars
  <1>3. \/ previous' = [previous EXCEPT ![p] = @ \cup FinalRows(r)] /\ missed' = missed
        \/ missed' = [missed EXCEPT ![p] = @ \cup {r}] /\ previous' = previous
    BY DEF Load
  <1>4. FinalRows(r) \subseteq tags /\ IsFiniteSet(FinalRows(r)) /\ FinalRows(r) \subseteq Places
    BY <1>1, FS_Subset DEF FinalRows, TypeOK
  <1>5. TypeOK'
    <2>1. todo' \in [Processes -> SUBSET Runs]
      BY <1>1, <1>2 DEF TypeOK
    <2>2. previous' \in [Processes -> SUBSET Places]
      <3> DEFINE rows == previous[p] \cup FinalRows(r)
      <3>1. rows \in SUBSET Places  BY <1>1, <1>4 DEF TypeOK
      <3>2. previous' = previous \/ previous' = [previous EXCEPT ![p] = rows]  BY <1>3
      <3> HIDE DEF rows
      <3> QED  BY <1>1, <3>1, <3>2 DEF TypeOK
    <2>3. missed' \in [Processes -> SUBSET Runs]
      <3>1. missed' = missed \/ missed' = [missed EXCEPT ![p] = missed[p] \cup {r}]  BY <1>3
      <3> QED  BY <1>1, <3>1 DEF TypeOK
    <2> QED  BY <1>1, <1>2, <2>1, <2>2, <2>3 DEF TypeOK
  <1>6. Apart(p) /\ Grows
    BY <1>1, <1>2, <1>3 DEF Apart, Grows, SameState, NoticesFolder, TypeOK
  <1>7. DiskFits'
    BY <1>1, <1>2 DEF DiskFits, IsRow, Rows
  <1>8. /\ todo'[p] = todo[p] \ {r} /\ previous[p] \subseteq previous'[p]
        /\ missed[p] \subseteq missed'[p]
        /\ previous'[p] \in {previous[p], previous[p] \cup FinalRows(r)}
        /\ FinalRows(r) \subseteq previous'[p] \/ r \in missed'[p]
    BY <1>1, <1>2, <1>3 DEF TypeOK
  <1>9. HoldsRows(p)'
    <2>1. IsFiniteSet(previous'[p])
      <3>1. IsFiniteSet(previous[p]) /\ IsFiniteSet(previous[p] \cup FinalRows(r))
        BY <1>1, <1>4, FS_Union DEF Own, HoldsRows
      <3> QED  BY <1>8, <3>1
    <2>2. \A a \in previous'[p] : IsRow(a)
      BY <1>1, <1>4, <1>8 DEF Own, HoldsRows, DiskFits
    <2> QED  BY <1>1, <1>2, <2>1, <2>2 DEF Own, HoldsRows, IsRow, Rows
  <1>10. MemoFits(p)' /\ PhaseFits(p)' /\ ReturnFits(p)' /\ TagsFit(p)'
    BY <1>1, <1>2 DEF Own, MemoFits, PhaseFits, ReturnFits, TagsFit
  <1>11. LoadFits(p)'
    <2>1. ASSUME NEW m \in known[p]
          PROVE  \/ m[1] \in missed'[p] \cup {run[p]}
                 \/ m \in previous'[p]
                 \/ m[1] \in todo'[p]
      <3>1. \/ m[1] \in missed[p] \cup {run[p]}
            \/ m \in previous[p]
            \/ m[1] \in todo[p]
        BY <1>1 DEF Own, LoadFits
      <3>2. m \in tags /\ IsRow(m)  BY <1>1 DEF Own, HoldsRows, DiskFits
      <3>3. m[1] = r => m \in FinalRows(r)  BY <3>2 DEF IsRow, FinalRows
      <3> QED  BY <1>8, <3>1, <3>3
    <2> QED  BY <1>1, <1>2, <2>1 DEF LoadFits
  <1>12. WrittenFits(p)' /\ FolderFits(p)'
    BY <1>1, <1>2 DEF WrittenFits, FolderFits
  <1> QED  BY <1>1, <1>5, <1>6, <1>7, <1>9, <1>10, <1>11, <1>12, OneSteps DEF Own

\* The steps from one place to the next that only the process itself sees.
LEMMA MovesKeep ==
  ASSUME IInv, NEW p \in Processes, EndLoad(p) \/ EndTag(p)
  PROVE  IInv'
PROOF
  <1>1. /\ TypeOK /\ DiskFits /\ Own(p) /\ todo[p] = {}
        /\ UNCHANGED <<begun, db, found, tags, folder, run, memo, todo, previous, known,
                       missed, finals, written, stale, rejected, chosen, untagged, blind,
                       disturbed>>
    BY DEF IInv, EndLoad, EndTag, diskVars, loadVars, finalVars
  <1>2. PICK place \in {"setup", "done"} :
          /\ pc' = [pc EXCEPT ![p] = place]
          /\ pc[p] = IF place = "setup" THEN "load" ELSE "tag"
    BY DEF EndLoad, EndTag, GoTo
  <1>3. TypeOK'
    BY <1>1, <1>2 DEF TypeOK
  <1>4. Apart(p) /\ Grows
    BY <1>1, <1>2 DEF Apart, Grows, SameState, NoticesFolder, TypeOK
  <1>5. DiskFits'
    BY <1>1 DEF DiskFits, IsRow, Rows
  <1>6. pc'[p] = place
    BY <1>1, <1>2 DEF TypeOK
  <1>7. HoldsRows(p)'
    BY <1>1, <1>2, <1>6 DEF Own, HoldsRows, IsRow, Rows
  <1>8. MemoFits(p)' /\ PhaseFits(p)' /\ LoadFits(p)' /\ TagsFit(p)'
    BY <1>1, <1>2, <1>6 DEF Own, MemoFits, PhaseFits, LoadFits, TagsFit
  <1>9. ReturnFits(p)'
    BY <1>1, <1>2, <1>6 DEF Own, ReturnFits, Better, Of
  <1>10. WrittenFits(p)' /\ FolderFits(p)'
    BY <1>1, <1>2, <1>6 DEF Own, WrittenFits, FolderFits, FileOf, NameOf
  <1> QED  BY <1>1, <1>3, <1>4, <1>5, <1>7, <1>8, <1>9, <1>10, OneSteps DEF Own

\* The database of the run: its file, its stamp, its rows.
LEMMA DatabaseKeeps ==
  ASSUME IInv, NEW p \in Processes, CreateDatabase(p) \/ StampDatabase(p) \/ AddRow(p)
  PROVE  IInv'
PROOF
  <1>1. /\ TypeOK /\ DiskFits /\ Own(p) /\ pc[p] \in {"setup", "search"} /\ run[p] \in Runs
        /\ UNCHANGED <<begun, tags, folder, run, todo, previous, known,
                       missed, finals, written, stale, rejected, chosen, untagged,
                       disturbed>>
    BY DEF IInv, CreateDatabase, StampDatabase, AddRow, loadVars, finalVars, Own, HoldsRows
  <1>2. \/ /\ db[run[p]] # "stamped" /\ db' = [db EXCEPT ![run[p]] = "file"]
           /\ UNCHANGED <<found, pc, memo, blind>>
           /\ pc[p] = "setup"
        \/ /\ db' = [db EXCEPT ![run[p]] = "stamped"]
           /\ memo' = [memo EXCEPT ![p] = Forgotten(p)]
           /\ blind' = [blind EXCEPT ![p] = {}]
           /\ pc' = [pc EXCEPT ![p] = "search"]
           /\ UNCHANGED found
        \/ /\ pc[p] = "search" /\ found[run[p]] < Len(Finds[run[p]])
           /\ found' = [found EXCEPT ![run[p]] = @ + 1]
           /\ UNCHANGED <<db, pc, memo, blind>>
    BY DEF CreateDatabase, StampDatabase, AddRow, GoTo
  <1>3. Forgotten(p) \in [Runs -> {"unknown", "yes", "no"}]
        /\ \A r \in Runs : Forgotten(p)[r] # "no"
    BY DEF Forgotten
  <1>4. TypeOK'
    <2>1. db' \in [Runs -> {"none", "file", "stamped"}]
      <3>1. \/ db' = db \/ db' = [db EXCEPT ![run[p]] = "file"]
            \/ db' = [db EXCEPT ![run[p]] = "stamped"]
        BY <1>2
      <3> QED  BY <1>1, <3>1 DEF TypeOK
    <2>2. found' \in [Runs -> Nat]
      <3> DEFINE n == found[run[p]] + 1
      <3>1. found \in [Runs -> Nat] /\ n \in Nat  BY <1>1 DEF TypeOK
      <3>2. found' = found \/ found' = [found EXCEPT ![run[p]] = n]  BY <1>2
      <3> HIDE DEF n
      <3> QED  BY <1>1, <3>1, <3>2
    <2>3. memo' \in [Processes -> [Runs -> {"unknown", "yes", "no"}]]
      <3> DEFINE none == Forgotten(p)
      <3>1. none \in [Runs -> {"unknown", "yes", "no"}]  BY <1>3
      <3>2. memo' = memo \/ memo' = [memo EXCEPT ![p] = none]  BY <1>2
      <3> HIDE DEF none
      <3> QED  BY <1>1, <3>1, <3>2 DEF TypeOK
    <2>4. blind' \in [Processes -> SUBSET Runs]
      <3>1. blind' = blind \/ blind' = [blind EXCEPT ![p] = {}]  BY <1>2
      <3> QED  BY <1>1, <3>1 DEF TypeOK
    <2>5. pc' \in [Processes -> {"idle", "list", "load", "setup", "search", "write",
                                 "prune", "tag", "done"}]
      <3>1. pc' = pc \/ pc' = [pc EXCEPT ![p] = "search"]  BY <1>2
      <3> QED  BY <1>1, <3>1 DEF TypeOK
    <2> QED  BY <1>1, <2>1, <2>2, <2>3, <2>4, <2>5 DEF TypeOK
  <1>5. Apart(p)
    BY <1>1, <1>2 DEF Apart, SameState, NoticesFolder, TypeOK
  <1>6. Grows
    BY <1>1, <1>2 DEF Grows, TypeOK
  <1>7. \A a : IsRow(a) => IsRow(a)'
    BY <1>1, <1>4, <1>6, RowsStay DEF TypeOK
  <1>8. DiskFits'
    <2>1. \A r \in Runs : found'[r] <= Len(Finds[r])
      <3>1. \A r \in Runs : Len(Finds[r]) \in Nat  BY CampaignAssumption
      <3> QED  BY <1>1, <1>2, <3>1 DEF DiskFits, TypeOK
    <2>2. \A r \in Runs : found'[r] > 0 => db'[r] = "stamped"
      <3>1. pc[p] = "search" => db[run[p]] = "stamped"  BY <1>1 DEF Own, HoldsRows
      <3> QED  BY <1>1, <1>2, <3>1 DEF DiskFits, TypeOK
    <2> QED  BY <1>1, <1>7, <2>1, <2>2 DEF DiskFits
  <1>9. pc'[p] \in {"setup", "search"} /\ (pc'[p] = "search" => db'[run[p]] = "stamped")
    BY <1>1, <1>2 DEF TypeOK, Own, HoldsRows
  <1>10. HoldsRows(p)'
    BY <1>1, <1>7, <1>9 DEF Own, HoldsRows
  <1>11. MemoFits(p)'
    BY <1>1, <1>2, <1>3 DEF Own, MemoFits, TypeOK
  <1>12. PhaseFits(p)' /\ LoadFits(p)' /\ ReturnFits(p)' /\ TagsFit(p)'
    BY <1>1, <1>9 DEF Own, PhaseFits, LoadFits, ReturnFits, TagsFit
  <1>13. WrittenFits(p)' /\ FolderFits(p)'
    BY <1>9 DEF WrittenFits, FolderFits
  <1> QED  BY <1>1, <1>4, <1>5, <1>6, <1>8, <1>10, <1>11, <1>12, <1>13, OneSteps DEF Own

\* The final minima are chosen: the lowest look-alike of every earlier minimum
\* is one of them, or was rejected.
LEMMA SelectKeeps ==
  ASSUME IInv, NEW p \in Processes, Select(p)
  PROVE  IInv'
PROOF
  <1>1. TypeOK /\ DiskFits /\ Own(p) /\ pc[p] \in {"setup", "search"} /\ run[p] \in Runs
    BY DEF IInv, Select, Own, HoldsRows
  <1>2. /\ UNCHANGED <<begun, db, found, tags, folder, run, memo, todo, previous, known,
                       missed, written, stale, untagged, blind, disturbed>>
    BY DEF Select, diskVars, loadVars
  <1>0. PICK valid \in SUBSET Unique(p) : \E sorted \in Sortings(p, valid) :
          /\ finals' = [finals EXCEPT ![p] = sorted]
          /\ rejected' = [rejected EXCEPT ![p] = Unique(p) \ valid]
          /\ chosen' = chosen \cup valid
          /\ pc' = [pc EXCEPT ![p] = IF valid = {} THEN "done" ELSE "write"]
    <2>1. PICK broken \in {{}} \cup {{a} : a \in Unique(p)} :
            LET valid == {a \in Unique(p) \ broken : Of(a) \in Real}
            IN  /\ \E sorted \in Sortings(p, valid) :
                     finals' = [finals EXCEPT ![p] = sorted]
                /\ rejected' = [rejected EXCEPT ![p] = Unique(p) \ valid]
                /\ chosen' = chosen \cup valid
                /\ GoTo(p, IF valid = {} THEN "done" ELSE "write")
      BY DEF Select
    <2> DEFINE good == {a \in Unique(p) \ broken : Of(a) \in Real}
    <2>2. /\ \E sorted \in Sortings(p, good) :
                     finals' = [finals EXCEPT ![p] = sorted]
          /\ rejected' = [rejected EXCEPT ![p] = Unique(p) \ good]
          /\ chosen' = chosen \cup good
          /\ pc' = [pc EXCEPT ![p] = IF good = {} THEN "done" ELSE "write"]
      BY <2>1 DEF GoTo
    <2>3. good \in SUBSET Unique(p)  OBVIOUS
    <2> HIDE DEF good
    <2> QED  BY <2>2, <2>3
  <1>3. PICK sorted \in Sortings(p, valid) :
          /\ finals' = [finals EXCEPT ![p] = sorted]
          /\ rejected' = [rejected EXCEPT ![p] = Unique(p) \ valid]
          /\ chosen' = chosen \cup valid
          /\ pc' = [pc EXCEPT ![p] = IF valid = {} THEN "done" ELSE "write"]
    BY <1>0
  <1>4. /\ IsFiniteSet(Candidates(p)) /\ \A a \in Candidates(p) : IsRow(a)
        /\ Unique(p) \subseteq Candidates(p)
        /\ \A m \in Candidates(p) : \E b \in Unique(p) : Better(b, m)
    <2>1. HoldsRows(p) /\ pc[p] # "idle"  BY <1>1 DEF Own
    <2> QED  BY <1>1, <2>1, UniqueFacts
  <1>5. /\ \A a \in Unique(p) : IsRow(a) /\ a \in Places
        /\ IsFiniteSet(valid) /\ Cardinality(valid) \in Nat
        /\ valid = {} => Cardinality(valid) = 0
    <2>1. IsFiniteSet(valid)  BY <1>3, <1>4, FS_Subset
    <2>2. \A a \in Unique(p) : IsRow(a) /\ a \in Places  BY <1>1, <1>4, RowFacts
    <2> QED  BY <2>1, <2>2, FS_CardinalityType, FS_EmptySet
  <1>6. /\ sorted \in Seq(Places) /\ DOMAIN sorted = 1..Cardinality(valid)
        /\ Len(sorted) = Cardinality(valid)
        /\ \A i \in DOMAIN sorted : sorted[i] \in valid
        /\ \A a \in valid : \E i \in DOMAIN sorted : sorted[i] = a
        /\ valid = {} => sorted = <<>>
    <2>1. sorted \in [1..Cardinality(valid) -> valid] /\ valid \subseteq Places
      BY <1>3, <1>5 DEF Sortings
    <2>2. \A a \in valid : \E i \in DOMAIN sorted : sorted[i] = a
      BY <1>3 DEF Sortings
    <2>3. sorted \in Seq(Places) /\ DOMAIN sorted = 1..Cardinality(valid)
      BY <1>5, <2>1
    <2>4. Len(sorted) = Cardinality(valid)  BY <1>5, <2>3
    <2>5. valid = {} => sorted = <<>>  BY <1>5, <2>3, <2>4
    <2> QED  BY <2>1, <2>2, <2>3, <2>4, <2>5
  <1>7. /\ finals'[p] = sorted /\ rejected'[p] = Unique(p) \ valid
        /\ pc'[p] = IF valid = {} THEN "done" ELSE "write"
    BY <1>1, <1>3 DEF TypeOK
  <1>8. TypeOK'
    <2>1. finals' \in [Processes -> Seq(Places)]
      BY <1>1, <1>3, <1>6 DEF TypeOK
    <2>2. rejected' \in [Processes -> SUBSET Places]
      <3> DEFINE turned == Unique(p) \ valid
      <3>1. turned \in SUBSET Places /\ rejected' = [rejected EXCEPT ![p] = turned]
        BY <1>3, <1>5
      <3> HIDE DEF turned
      <3> QED  BY <1>1, <3>1 DEF TypeOK
    <2>3. pc' \in [Processes -> {"idle", "list", "load", "setup", "search", "write",
                                 "prune", "tag", "done"}]
      BY <1>1, <1>3 DEF TypeOK
    <2> QED  BY <1>1, <1>2, <2>1, <2>2, <2>3 DEF TypeOK
  <1>9. Apart(p) /\ Grows
    BY <1>1, <1>2, <1>3 DEF Apart, Grows, SameState, NoticesFolder, TypeOK
  <1>10. \A a : IsRow(a) <=> IsRow(a)'
    BY <1>2 DEF IsRow, Rows
  <1>11. DiskFits'
    BY <1>1, <1>2, <1>3, <1>10 DEF DiskFits
  <1>12. HoldsRows(p)'
    <2>1. \A i \in DOMAIN finals'[p] : IsRow(finals'[p][i]) /\ finals'[p][i] \in chosen'
      BY <1>3, <1>5, <1>6, <1>7
    <2>2. pc'[p] # "search"  BY <1>7
    <2> QED  BY <1>1, <1>2, <1>10, <2>1, <2>2 DEF Own, HoldsRows
  <1>13. MemoFits(p)' /\ PhaseFits(p)' /\ LoadFits(p)'
    BY <1>1, <1>2, <1>7 DEF Own, MemoFits, PhaseFits, LoadFits
  <1>14. ReturnFits(p)'
    <2>1. ASSUME NEW m \in known[p]
          PROVE  \/ m[1] \in missed[p] \cup {run[p]}
                 \/ \E i \in DOMAIN finals'[p] : Better(finals'[p][i], m)
                 \/ \E f \in rejected'[p] : Better(f, m)
      <3>1. m[1] \in missed[p] \cup {run[p]} \/ m \in previous[p]
        BY <1>1 DEF Own, LoadFits
      <3>2. CASE m \in previous[p]
        <4>1. PICK b \in Unique(p) : Better(b, m)
          BY <1>4, <3>2 DEF Candidates
        <4> QED  BY <1>6, <1>7, <4>1
      <3> QED  BY <3>1, <3>2
    <2>2. \A f, m : Better(f, m)' <=> Better(f, m)
      BY DEF Better, Of
    <2> QED  BY <1>2, <2>1, <2>2 DEF ReturnFits
  <1>15. TagsFit(p)'
    <2>1. pc'[p] \in {"tag", "done"} => DOMAIN finals'[p] = {}
      BY <1>5, <1>6, <1>7
    <2> QED  BY <2>1 DEF TagsFit
  <1>16. written'[p] = {} /\ IsFiniteSet(written'[p]) /\ Cardinality(written'[p]) = 0
    BY <1>1, <1>2, FS_EmptySet DEF Own, PhaseFits
  <1>17. WrittenFits(p)'
    <2>1. Len(finals'[p]) \in Nat  BY <1>5, <1>6, <1>7
    <2>2. 1..Cardinality(written'[p]) = {}  BY <1>16
    <2>3. {Name(p, i)' : i \in 1..Cardinality(written'[p])} = {}  BY <2>2
    <2> QED  BY <1>16, <2>1, <2>3 DEF WrittenFits
  <1>18. FolderFits(p)'
    <2>1. 1..Cardinality(written'[p]) = {}  BY <1>16
    <2>2. {FileOf(p, i)' : i \in 1..Cardinality(written'[p])} = {}  BY <2>1
    <2>3. {f \in folder' : NameOf(f) \in written'[p]} = {}  BY <1>16
    <2>4. pc'[p] = "write" \/ (pc'[p] = "done" /\ finals'[p] = <<>>)  BY <1>6, <1>7
    <2> QED  BY <2>2, <2>3, <2>4 DEF FolderFits, NameOf
  <1> QED
    BY <1>1, <1>8, <1>9, <1>11, <1>12, <1>13, <1>14, <1>15, <1>17, <1>18, OneSteps DEF Own

\* The next file is written.
LEMMA WriteKeeps ==
  ASSUME IInv, NEW p \in Processes, Write(p)
  PROVE  IInv'
PROOF
  <1> DEFINE k == Cardinality(written[p])
             n == Name(p, k + 1)
             file == FileOf(p, k + 1)
  <1>1. TypeOK /\ DiskFits /\ Own(p) /\ pc[p] = "write" /\ k < Len(finals[p])
    BY DEF IInv, Write
  <1>2. /\ folder' = {f \in folder : ~(f.rank = n.rank /\ f.run = n.run)} \cup {file}
        /\ written' = [written EXCEPT ![p] = @ \cup {n}]
        /\ disturbed' = [q \in Processes |->
              disturbed[q] \/ (q # p /\ pc[q] \in {"write", "prune", "tag", "done"})]
        /\ UNCHANGED <<begun, db, found, tags, pc, run, memo, todo, previous, known, missed,
                       finals, stale, rejected, chosen, untagged, blind>>
    BY DEF Write, Disturb, Name, FileOf, loadVars
  <1>3. /\ IsFiniteSet(written[p]) /\ k \in Nat
        /\ written[p] = {Name(p, i) : i \in 1..k}
    BY <1>1, FS_CardinalityType DEF Own, WrittenFits
  <1>4. Len(finals[p]) \in Nat /\ k + 1 \in DOMAIN finals[p] /\ k + 1 \in Nat
    BY <1>1, <1>3 DEF TypeOK
  <1>5. n \in Files /\ n.rank = k + 1 /\ file = [rank |-> n.rank, run |-> n.run, row |-> file.row]
        /\ n = [rank |-> n.rank, run |-> n.run] /\ n.run \in Runs
    <2>1. finals[p][k + 1][1] \in Runs
      BY <1>1, <1>4, RowFacts DEF Own, HoldsRows
    <2> QED  BY <1>4, <2>1 DEF Files, Name, FileOf
  <1>6. n \notin written[p] /\ written[p] \cup {n} = {Name(p, i) : i \in 1..(k + 1)}
    <2>1. \A i \in 1..k : Name(p, i) # n
      BY <1>3 DEF Name
    <2>2. 1..(k + 1) = (1..k) \cup {k + 1}  BY <1>3
    <2> QED  BY <1>3, <2>1, <2>2
  <1>7. /\ written'[p] = written[p] \cup {n} /\ IsFiniteSet(written'[p])
        /\ Cardinality(written'[p]) = k + 1
    <2>1. written'[p] = written[p] \cup {n}  BY <1>1, <1>2 DEF TypeOK
    <2>2. IsFiniteSet(written[p] \cup {n}) /\ Cardinality(written[p] \cup {n}) = k + 1
      BY <1>3, <1>6, FS_AddElement
    <2> QED  BY <2>1, <2>2
  <1>8. TypeOK'
    <2>1. written' \in [Processes -> SUBSET Files]
      <3> DEFINE more == written[p] \cup {n}
      <3>1. more \in SUBSET Files /\ written' = [written EXCEPT ![p] = more]
        BY <1>1, <1>2, <1>5 DEF TypeOK
      <3> HIDE DEF more
      <3> QED  BY <1>1, <3>1 DEF TypeOK
    <2>2. disturbed' = [q \in Processes |-> disturbed'[q]]  BY <1>2
    <2>3. \A f \in folder' : /\ f = [rank |-> f.rank, run |-> f.run, row |-> f.row]
                             /\ f.rank \in Nat /\ f.run \in Runs
      <3>1. file.rank = k + 1 /\ file.run = n.run /\ file.run \in Runs
            /\ file = [rank |-> file.rank, run |-> file.run, row |-> file.row]
        BY <1>5 DEF FileOf, Name
      <3>2. \A f \in folder' : f \in folder \/ f = file  BY <1>2
      <3> HIDE DEF file
      <3> QED  BY <1>1, <1>4, <3>1, <3>2 DEF TypeOK
    <2> QED  BY <1>1, <1>2, <2>1, <2>2, <2>3 DEF TypeOK
  <1>9. Apart(p)
    <2>1. ASSUME NEW q \in Processes \ {p}  PROVE SameState(q) /\ NoticesFolder(q)
      <3>1. written'[q] = written[q]  BY <1>1, <1>2 DEF TypeOK
      <3>2. disturbed'[q] = (disturbed[q] \/ (q # p /\ pc[q] \in {"write", "prune", "tag", "done"}))
        BY <1>2
      <3> QED  BY <1>2, <3>1, <3>2 DEF SameState, NoticesFolder
    <2> QED  BY <2>1 DEF Apart
  <1>10. Grows
    BY <1>1, <1>2 DEF Grows, TypeOK
  <1>11. \A a : IsRow(a) <=> IsRow(a)'
    BY <1>2 DEF IsRow, Rows
  <1>12. DiskFits'
    BY <1>1, <1>2, <1>11 DEF DiskFits
  <1>13. HoldsRows(p)' /\ MemoFits(p)' /\ PhaseFits(p)' /\ LoadFits(p)' /\ TagsFit(p)'
    BY <1>1, <1>2, <1>11 DEF Own, HoldsRows, MemoFits, PhaseFits, LoadFits, TagsFit
  <1>14. ReturnFits(p)'
    BY <1>1, <1>2 DEF Own, ReturnFits, Better, Of
  <1>15. WrittenFits(p)'
    <2>1. \A i : Name(p, i)' = Name(p, i)  BY <1>2 DEF Name
    <2>2. written'[p] = {Name(p, i) : i \in 1..(k + 1)} /\ k + 1 <= Len(finals[p])
      BY <1>1, <1>3, <1>4, <1>6, <1>7
    <2> HIDE DEF n, file
    <2> QED  BY <1>2, <1>7, <2>1, <2>2 DEF WrittenFits
  <1>16. FolderFits(p)'
    <2> SUFFICES ASSUME ~disturbed'[p]
                 PROVE  {f \in folder' : NameOf(f) \in written'[p]} =
                          {FileOf(p, i) : i \in 1..(k + 1)}
      BY <1>1, <1>2, <1>7 DEF FolderFits, FileOf, NameOf
    <2>1. ~disturbed[p]
      <3>1. disturbed'[p] = (disturbed[p] \/ (p # p /\ pc[p] \in {"write", "prune", "tag", "done"}))
        BY <1>2
      <3> QED  BY <3>1
    <2>2. {f \in folder : NameOf(f) \in written[p]} = {FileOf(p, i) : i \in 1..k}
      BY <1>1, <2>1 DEF Own, FolderFits
    <2>3. \A f \in folder : (~(f.rank = n.rank /\ f.run = n.run)) <=> NameOf(f) # n
      BY <1>5 DEF NameOf
    <2>4. NameOf(file) = n  BY DEF NameOf, FileOf, Name
    <2>5. 1..(k + 1) = (1..k) \cup {k + 1}  BY <1>3
    <2>6. {FileOf(p, i) : i \in 1..(k + 1)} = {FileOf(p, i) : i \in 1..k} \cup {file}
      BY <2>5
    <2>7. {f \in folder' : NameOf(f) \in written'[p]} =
            {f \in folder : NameOf(f) \in written[p]} \cup {file}
      <3>1. \A f : f \in folder' <=> (f \in folder /\ NameOf(f) # n) \/ f = file
        BY <1>2, <2>3
      <3> HIDE DEF n, file
      <3> QED  BY <1>6, <1>7, <2>4, <3>1
    <2> QED  BY <2>2, <2>6, <2>7
  <1> QED
    BY <1>1, <1>8, <1>9, <1>10, <1>12, <1>13, <1>14, <1>15, <1>16, OneSteps DEF Own

\* The superseded files are listed: what is not among them is what was written.
LEMMA ListStaleKeeps ==
  ASSUME IInv, NEW p \in Processes, ListStale(p)
  PROVE  IInv'
PROOF
  <1> DEFINE old == Superseded(p)
  <1>1. /\ TypeOK /\ DiskFits /\ Own(p) /\ pc[p] = "write"
        /\ Cardinality(written[p]) = Len(finals[p])
    BY DEF IInv, ListStale
  <1>2. /\ stale' = [stale EXCEPT ![p] = old] /\ pc' = [pc EXCEPT ![p] = "prune"]
        /\ UNCHANGED <<begun, db, found, tags, folder, run, memo, todo, previous, known, missed,
                       finals, written, rejected, chosen, untagged, blind, disturbed>>
    BY DEF ListStale, GoTo, diskVars, loadVars
  <1>3. old \in SUBSET Files
    BY <1>1 DEF Superseded, Names, Files, TypeOK
  <1>4. \A f \in folder : NameOf(f) \notin old <=> NameOf(f) \in written[p]
    BY DEF Superseded, Names, NameOf
  <1> HIDE DEF old
  <1>5. pc'[p] = "prune" /\ stale'[p] = old
    BY <1>1, <1>2 DEF TypeOK
  <1>6. TypeOK'
    BY <1>1, <1>2, <1>3 DEF TypeOK
  <1>7. Apart(p) /\ Grows
    BY <1>1, <1>2 DEF Apart, Grows, SameState, NoticesFolder, TypeOK
  <1>8. \A a : IsRow(a) <=> IsRow(a)'
    BY <1>2 DEF IsRow, Rows
  <1>9. DiskFits'
    BY <1>1, <1>2, <1>8 DEF DiskFits
  <1>10. HoldsRows(p)' /\ MemoFits(p)' /\ PhaseFits(p)' /\ LoadFits(p)' /\ TagsFit(p)'
    BY <1>1, <1>2, <1>5, <1>8 DEF Own, HoldsRows, MemoFits, PhaseFits, LoadFits, TagsFit
  <1>11. ReturnFits(p)'
    BY <1>1, <1>2 DEF Own, ReturnFits, Better, Of
  <1>12. WrittenFits(p)'
    BY <1>5 DEF WrittenFits
  <1>13. FolderFits(p)'
    <2> SUFFICES ASSUME ~disturbed[p]
                 PROVE  {f \in folder : NameOf(f) \notin old} = {FileOf(p, i) : i \in DOMAIN finals[p]}
      BY <1>2, <1>5 DEF FolderFits, FileOf, NameOf
    <2>1. {f \in folder : NameOf(f) \in written[p]} = {FileOf(p, i) : i \in 1..Len(finals[p])}
      BY <1>1 DEF Own, FolderFits
    <2>2. DOMAIN finals[p] = 1..Len(finals[p])  BY <1>1 DEF TypeOK
    <2> QED  BY <1>4, <2>1, <2>2
  <1> QED
    BY <1>1, <1>6, <1>7, <1>9, <1>10, <1>11, <1>12, <1>13, OneSteps DEF Own

\* One of them is removed.
LEMMA UnlinkKeeps ==
  ASSUME IInv, NEW p \in Processes, NEW n \in stale[p], Unlink(p, n)
  PROVE  IInv'
PROOF
  <1>1. TypeOK /\ DiskFits /\ Own(p) /\ pc[p] = "prune" /\ n \in Files
    BY DEF IInv, Unlink, TypeOK
  <1>2. /\ stale' = [stale EXCEPT ![p] = @ \ {n}]
        /\ folder' = {f \in folder : ~(f.rank = n.rank /\ f.run = n.run)}
        /\ disturbed' = [q \in Processes |->
              disturbed[q] \/ (q # p /\ pc[q] \in {"write", "prune", "tag", "done"})]
        /\ UNCHANGED <<begun, db, found, tags, pc, run, memo, todo, previous, known, missed,
                       finals, written, rejected, chosen, untagged, blind>>
    BY DEF Unlink, Disturb, loadVars
  <1>3. stale'[p] = stale[p] \ {n}
    BY <1>1, <1>2 DEF TypeOK
  <1>4. \A f : f \in folder' <=> f \in folder /\ NameOf(f) # n
    BY <1>1, <1>2 DEF NameOf, Files
  <1>5. TypeOK'
    <2>1. stale' \in [Processes -> SUBSET Files]
      <3> DEFINE less == stale[p] \ {n}
      <3>1. less \in SUBSET Files /\ stale' = [stale EXCEPT ![p] = less]
        BY <1>1, <1>2 DEF TypeOK
      <3> HIDE DEF less
      <3> QED  BY <1>1, <3>1 DEF TypeOK
    <2>2. disturbed' = [q \in Processes |-> disturbed'[q]]  BY <1>2
    <2> QED  BY <1>1, <1>2, <1>4, <2>1, <2>2 DEF TypeOK
  <1>6. Apart(p)
    <2>1. ASSUME NEW q \in Processes \ {p}  PROVE SameState(q) /\ NoticesFolder(q)
      <3>1. stale'[q] = stale[q]  BY <1>1, <1>2 DEF TypeOK
      <3>2. disturbed'[q] = (disturbed[q] \/ (q # p /\ pc[q] \in {"write", "prune", "tag", "done"}))
        BY <1>2
      <3> QED  BY <1>2, <3>1, <3>2 DEF SameState, NoticesFolder
    <2> QED  BY <2>1 DEF Apart
  <1>7. Grows
    BY <1>1, <1>2 DEF Grows, TypeOK
  <1>8. \A a : IsRow(a) <=> IsRow(a)'
    BY <1>2 DEF IsRow, Rows
  <1>9. DiskFits'
    BY <1>1, <1>2, <1>8 DEF DiskFits
  <1>10. HoldsRows(p)' /\ MemoFits(p)' /\ PhaseFits(p)' /\ LoadFits(p)' /\ TagsFit(p)'
    BY <1>1, <1>2, <1>8 DEF Own, HoldsRows, MemoFits, PhaseFits, LoadFits, TagsFit
  <1>11. ReturnFits(p)'
    BY <1>1, <1>2 DEF Own, ReturnFits, Better, Of
  <1>12. WrittenFits(p)'
    BY <1>1, <1>2 DEF WrittenFits
  <1>13. FolderFits(p)'
    <2> SUFFICES ASSUME ~disturbed'[p]
                 PROVE  {f \in folder' : NameOf(f) \notin stale'[p]} =
                          {FileOf(p, i) : i \in DOMAIN finals[p]}
      BY <1>1, <1>2 DEF FolderFits, FileOf, NameOf
    <2>1. ~disturbed[p]
      <3>1. disturbed'[p] = (disturbed[p] \/ (p # p /\ pc[p] \in {"write", "prune", "tag", "done"}))
        BY <1>2
      <3> QED  BY <3>1
    <2>2. {f \in folder : NameOf(f) \notin stale[p]} = {FileOf(p, i) : i \in DOMAIN finals[p]}
      BY <1>1, <2>1 DEF Own, FolderFits
    <2>3. {f \in folder' : NameOf(f) \notin stale'[p]} = {f \in folder : NameOf(f) \notin stale[p]}
      BY <1>3, <1>4
    <2> QED  BY <2>2, <2>3
  <1> QED
    BY <1>1, <1>5, <1>6, <1>7, <1>9, <1>10, <1>11, <1>12, <1>13, OneSteps DEF Own

\* The databases of the final minima are looked up: those not found have been
\* seen busy or without a stamp.
LEMMA FindDatabasesKeeps ==
  ASSUME IInv, NEW p \in Processes, FindDatabases(p)
  PROVE  IInv'
PROOF
  <1> DEFINE of == RunsOf(ToSet(finals[p]))
  <1>1. TypeOK /\ DiskFits /\ Own(p) /\ pc[p] = "prune" /\ stale[p] = {}
    BY DEF IInv, FindDatabases
  <1>2. \A i \in DOMAIN finals[p] : /\ finals[p][i][1] \in of
                                    /\ finals[p][i][1] \in Runs
                                    /\ db[finals[p][i][1]] = "stamped"
    <2> SUFFICES ASSUME NEW i \in DOMAIN finals[p]
                 PROVE  /\ finals[p][i][1] \in of
                        /\ finals[p][i][1] \in Runs
                        /\ db[finals[p][i][1]] = "stamped"
      OBVIOUS
    <2> DEFINE a == finals[p][i]
    <2>1. IsRow(a) /\ a \in ToSet(finals[p])  BY <1>1 DEF Own, HoldsRows, ToSet
    <2>2. a[1] \in of  BY <2>1 DEF RunsOf
    <2>3. a[1] \in Runs /\ a[2] \in 1..found[a[1]] /\ found[a[1]] \in Nat
      BY <1>1, <2>1, RowFacts DEF TypeOK
    <2>4. db[a[1]] = "stamped"  BY <1>1, <2>3 DEF DiskFits
    <2> QED  BY <2>2, <2>3, <2>4
  <1>3. of \in SUBSET Runs
    BY <1>2 DEF RunsOf, ToSet
  <1> HIDE DEF of
  <1>4. /\ memo' \in [Processes -> [Runs -> {"unknown", "yes", "no"}]]
        /\ todo' \in [Processes -> SUBSET Runs]
        /\ blind' \in [Processes -> SUBSET Runs]
        /\ \A q \in Processes \ {p} :
             memo'[q] = memo[q] /\ todo'[q] = todo[q] /\ blind'[q] = blind[q]
        /\ \A r \in Runs : memo'[p][r] = "no" => r \in blind'[p]
        /\ \A r \in of : db[r] = "stamped" => r \in todo'[p] \cup blind'[p]
    <2>1. Discover(p, of) /\ MemoFits(p)  BY <1>1 DEF FindDatabases, Own, of
    <2> QED  BY <1>1, <1>3, <2>1, DiscoverFacts
  <1>5. /\ pc' = [pc EXCEPT ![p] = "tag"]
        /\ UNCHANGED <<begun, db, found, tags, folder, run, previous, known, missed, finals,
                       written, stale, rejected, chosen, untagged, disturbed>>
    BY DEF FindDatabases, GoTo, diskVars, loadVars, finalVars
  <1>6. TypeOK'
    BY <1>1, <1>4, <1>5 DEF TypeOK
  <1>7. Apart(p) /\ Grows
    BY <1>1, <1>4, <1>5 DEF Apart, Grows, SameState, NoticesFolder, TypeOK
  <1>8. \A a : IsRow(a) <=> IsRow(a)'
    BY <1>5 DEF IsRow, Rows
  <1>9. DiskFits'
    BY <1>1, <1>5, <1>8 DEF DiskFits
  <1>10. pc'[p] = "tag"
    BY <1>1, <1>5 DEF TypeOK
  <1>11. HoldsRows(p)' /\ MemoFits(p)' /\ PhaseFits(p)' /\ LoadFits(p)' /\ WrittenFits(p)'
    BY <1>1, <1>4, <1>5, <1>8, <1>10
       DEF Own, HoldsRows, MemoFits, PhaseFits, LoadFits, WrittenFits
  <1>12. ReturnFits(p)'
    BY <1>1, <1>5 DEF Own, ReturnFits, Better, Of
  <1>13. TagsFit(p)'
    <2>1. \A i \in DOMAIN finals[p] : finals[p][i][1] \in todo'[p] \cup blind'[p]
      BY <1>2, <1>4
    <2> QED  BY <1>5, <1>10, <2>1 DEF TagsFit
  <1>14. FolderFits(p)'
    <2> SUFFICES ASSUME ~disturbed[p]
                 PROVE  folder = {FileOf(p, i) : i \in DOMAIN finals[p]}
      BY <1>5, <1>10 DEF FolderFits, FileOf
    <2>1. {f \in folder : NameOf(f) \notin stale[p]} = {FileOf(p, i) : i \in DOMAIN finals[p]}
      BY <1>1 DEF Own, FolderFits
    <2> QED  BY <1>1, <2>1
  <1> QED
    BY <1>1, <1>6, <1>7, <1>9, <1>11, <1>12, <1>13, <1>14, OneSteps DEF Own

\* One database is tagged, or fails to be.
LEMMA TagKeeps ==
  ASSUME IInv, NEW p \in Processes, NEW r \in Runs, Tag(p, r)
  PROVE  IInv'
PROOF
  <1> DEFINE own == {f \in ToSet(finals[p]) : f[1] = r}
             rows == {Matched(a) : a \in own}
  <1>1. TypeOK /\ DiskFits /\ Own(p) /\ pc[p] = "tag" /\ r \in todo[p]
    BY DEF IInv, Tag
  <1>2. /\ todo' = [todo EXCEPT ![p] = @ \ {r}]
        /\ UNCHANGED <<begun, db, found, folder, pc, run, memo, previous, known, missed, finals,
                       written, stale, rejected, chosen, blind, disturbed>>
    BY DEF Tag, loadVars
  <1>3. \A a \in own : /\ IsRow(a) /\ a \in chosen /\ IsRow(Matched(a))
                       /\ Matched(a) \in Places /\ (Optimizer = "ga" => Matched(a) = a)
    <2>1. \A a \in own : IsRow(a) /\ a \in chosen
      BY <1>1 DEF Own, HoldsRows, ToSet
    <2> HIDE DEF own
    <2>2. \A a \in own : IsRow(Matched(a)) /\ (Optimizer = "ga" => Matched(a) = a)
      BY <1>1, <2>1, MatchedFacts
    <2>3. \A a \in own : Matched(a) \in Places
      BY <1>1, <2>2, RowFacts
    <2> QED  BY <2>1, <2>2, <2>3
  <1>4. \/ tags' = tags \cup rows /\ untagged' = untagged
        \/ untagged' = [untagged EXCEPT ![p] = @ \cup {r}] /\ tags' = tags
    BY DEF Tag, Tagged
  <1>5. IsFiniteSet(rows)
    <2> DEFINE s == finals[p]
               match == [a \in own |-> Matched(a)]
    <2>1. s \in Seq(Places)  BY <1>1 DEF TypeOK
    <2>2. IsFiniteSet(1..Len(s)) /\ DOMAIN s = 1..Len(s)  BY <2>1, FS_Interval
    <2>3. s \in Surjection(DOMAIN s, ToSet(s))  BY <2>1 DEF Surjection, ToSet
    <2>4. IsFiniteSet(ToSet(s))  BY <2>2, <2>3, FS_Surjection
    <2>5. IsFiniteSet(own)  BY <2>4, FS_Subset
    <2> HIDE DEF own
    <2>6. match \in Surjection(own, rows)  BY DEF Surjection
    <2> HIDE DEF match, rows
    <2> QED  BY <2>5, <2>6, FS_Surjection
  <1>6. /\ \A i \in DOMAIN finals[p] :
             Optimizer = "ga" /\ finals[p][i][1] = r => finals[p][i] \in rows
        /\ \A a \in rows : IsRow(a) /\ a \in Places /\ (Optimizer = "ga" => a \in chosen)
    <2>1. \A i \in DOMAIN finals[p] : finals[p][i][1] = r => finals[p][i] \in own
      BY DEF ToSet
    <2> HIDE DEF own
    <2> QED  BY <1>3, <2>1
  <1> HIDE DEF own
  <1> HIDE DEF rows
  <1>7. TypeOK'
    <2>1. todo' \in [Processes -> SUBSET Runs]  BY <1>1, <1>2 DEF TypeOK
    <2>2. untagged' \in [Processes -> SUBSET Runs]
      <3> DEFINE more == untagged[p] \cup {r}
      <3>1. more \in SUBSET Runs /\ (untagged' = untagged \/ untagged' = [untagged EXCEPT ![p] = more])
        BY <1>1, <1>4 DEF TypeOK
      <3> HIDE DEF more
      <3> QED  BY <1>1, <3>1 DEF TypeOK
    <2>3. tags' \subseteq Places /\ IsFiniteSet(tags')
      <3>1. IsFiniteSet(tags) /\ IsFiniteSet(tags \cup rows)
        BY <1>1, <1>5, FS_Union DEF TypeOK
      <3> QED  BY <1>1, <1>4, <1>6, <3>1 DEF TypeOK
    <2> QED  BY <1>1, <1>2, <2>1, <2>2, <2>3 DEF TypeOK
  <1>8. Apart(p) /\ Grows
    BY <1>1, <1>2, <1>4 DEF Apart, Grows, SameState, NoticesFolder, TypeOK
  <1>9. \A a : IsRow(a) <=> IsRow(a)'
    BY <1>2 DEF IsRow, Rows
  <1>10. DiskFits'
    BY <1>1, <1>2, <1>4, <1>6, <1>9 DEF DiskFits
  <1>11. /\ todo'[p] = todo[p] \ {r} /\ untagged[p] \subseteq untagged'[p]
         /\ rows \subseteq tags' \/ r \in untagged'[p]
    BY <1>1, <1>2, <1>4 DEF TypeOK
  <1>12. HoldsRows(p)'
    BY <1>1, <1>2, <1>8, <1>9 DEF Own, HoldsRows, Grows
  <1>13. MemoFits(p)' /\ PhaseFits(p)' /\ LoadFits(p)' /\ WrittenFits(p)'
    BY <1>1, <1>2 DEF Own, MemoFits, PhaseFits, LoadFits, WrittenFits
  <1>14. ReturnFits(p)'
    BY <1>1, <1>2 DEF Own, ReturnFits, Better, Of
  <1>15. TagsFit(p)'
    <2> SUFFICES ASSUME Optimizer = "ga", NEW i \in DOMAIN finals[p]
                 PROVE  \/ finals[p][i] \in tags'
                        \/ finals[p][i][1] \in untagged'[p] \cup blind[p]
                        \/ finals[p][i][1] \in todo'[p]
      BY <1>1, <1>2 DEF TagsFit
    <2>1. \/ finals[p][i] \in tags
          \/ finals[p][i][1] \in untagged[p] \cup blind[p]
          \/ finals[p][i][1] \in todo[p]
      BY <1>1 DEF Own, TagsFit
    <2> QED  BY <1>6, <1>8, <1>11, <2>1 DEF Grows
  <1>16. FolderFits(p)'
    BY <1>1, <1>2 DEF Own, FolderFits, FileOf, NameOf
  <1> QED
    BY <1>1, <1>7, <1>8, <1>10, <1>12, <1>13, <1>14, <1>15, <1>16, OneSteps DEF Own

\* A run ends, by itself, by an error or by a crash: nothing is left of it.
LEMMA LeaveKeeps ==
  ASSUME IInv, NEW p \in Processes, Return(p) \/ Raise(p) \/ Crash(p)
  PROVE  IInv'
PROOF
  <1>1. TypeOK /\ DiskFits /\ Own(p)
    BY DEF IInv
  <1>2. /\ pc' = [pc EXCEPT ![p] = "idle"]
        /\ todo' = [todo EXCEPT ![p] = {}] /\ previous' = [previous EXCEPT ![p] = {}]
        /\ finals' = [finals EXCEPT ![p] = <<>>]
        /\ written' = [written EXCEPT ![p] = {}] /\ stale' = [stale EXCEPT ![p] = {}]
        /\ known' = [known EXCEPT ![p] = {}] /\ missed' = [missed EXCEPT ![p] = {}]
        /\ rejected' = [rejected EXCEPT ![p] = {}] /\ untagged' = [untagged EXCEPT ![p] = {}]
        /\ disturbed' = [disturbed EXCEPT ![p] = FALSE]
        /\ UNCHANGED <<begun, db, found, tags, folder, run, chosen>>
    BY DEF Return, Raise, Crash, Leave, GoTo, diskVars
  <1>3. \/ UNCHANGED <<memo, blind>>
        \/ memo' = [memo EXCEPT ![p] = Forgotten(p)] /\ blind' = [blind EXCEPT ![p] = {}]
    BY DEF Return, Raise, Crash
  <1>4. Forgotten(p) \in [Runs -> {"unknown", "yes", "no"}]
        /\ \A r \in Runs : Forgotten(p)[r] # "no"
    BY DEF Forgotten
  <1>5. TypeOK'
    <2>1. /\ todo' \in [Processes -> SUBSET Runs]
          /\ previous' \in [Processes -> SUBSET Places] /\ known' \in [Processes -> SUBSET Places]
          /\ written' \in [Processes -> SUBSET Files] /\ stale' \in [Processes -> SUBSET Files]
      BY <1>1, <1>2 DEF TypeOK
    <2>2. /\ finals' \in [Processes -> Seq(Places)]
          /\ missed' \in [Processes -> SUBSET Runs] /\ untagged' \in [Processes -> SUBSET Runs]
          /\ rejected' \in [Processes -> SUBSET Places]
          /\ pc' \in [Processes -> {"idle", "list", "load", "setup", "search", "write",
                                    "prune", "tag", "done"}]
      BY <1>1, <1>2 DEF TypeOK
    <2>3. disturbed' = [q \in Processes |-> disturbed'[q]]
      BY <1>1, <1>2 DEF TypeOK
    <2>4. blind' \in [Processes -> SUBSET Runs]
      <3>1. blind' = blind \/ blind' = [blind EXCEPT ![p] = {}]  BY <1>3
      <3> QED  BY <1>1, <3>1 DEF TypeOK
    <2>5. memo' \in [Processes -> [Runs -> {"unknown", "yes", "no"}]]
      <3> DEFINE none == Forgotten(p)
      <3>1. none \in [Runs -> {"unknown", "yes", "no"}]  BY <1>4
      <3>2. memo' = memo \/ memo' = [memo EXCEPT ![p] = none]  BY <1>3
      <3> HIDE DEF none
      <3> QED  BY <1>1, <3>1, <3>2 DEF TypeOK
    <2> QED  BY <1>1, <1>2, <2>1, <2>2, <2>3, <2>4, <2>5 DEF TypeOK
  <1>6. Apart(p) /\ Grows
    <2>1. ASSUME NEW q \in Processes \ {p}  PROVE SameState(q) /\ NoticesFolder(q)
      <3>1. memo'[q] = memo[q] /\ blind'[q] = blind[q]  BY <1>1, <1>3 DEF TypeOK
      <3>2. /\ pc'[q] = pc[q] /\ todo'[q] = todo[q] /\ previous'[q] = previous[q]
            /\ finals'[q] = finals[q] /\ written'[q] = written[q] /\ stale'[q] = stale[q]
        BY <1>1, <1>2 DEF TypeOK
      <3>3. /\ known'[q] = known[q] /\ missed'[q] = missed[q] /\ rejected'[q] = rejected[q]
            /\ untagged'[q] = untagged[q] /\ disturbed'[q] = disturbed[q]
        BY <1>1, <1>2 DEF TypeOK
      <3> QED  BY <1>2, <3>1, <3>2, <3>3 DEF SameState, NoticesFolder
    <2> QED  BY <1>1, <1>2, <2>1 DEF Apart, Grows, TypeOK
  <1>7. \A a : IsRow(a) <=> IsRow(a)'
    BY <1>2 DEF IsRow, Rows
  <1>8. DiskFits'
    BY <1>1, <1>2, <1>7 DEF DiskFits
  <1>9. /\ pc'[p] = "idle" /\ previous'[p] = {} /\ known'[p] = {} /\ finals'[p] = <<>>
        /\ written'[p] = {} /\ stale'[p] = {}
    BY <1>1, <1>2 DEF TypeOK
  <1>10. HoldsRows(p)'
    BY <1>9, FS_EmptySet DEF HoldsRows
  <1>11. MemoFits(p)'
    BY <1>1, <1>3, <1>4 DEF Own, MemoFits, TypeOK
  <1>12. /\ PhaseFits(p)' /\ LoadFits(p)' /\ ReturnFits(p)' /\ TagsFit(p)' /\ WrittenFits(p)'
         /\ FolderFits(p)'
    BY <1>9 DEF PhaseFits, LoadFits, ReturnFits, TagsFit, WrittenFits, FolderFits
  <1> QED
    BY <1>1, <1>5, <1>6, <1>8, <1>10, <1>11, <1>12, OneSteps DEF Own

-----------------------------------------------------------------------------
(* The theorems. *)

\* At the beginning there is nothing.
LEMMA InitFits == Init => IInv
PROOF
  <1> SUFFICES ASSUME Init  PROVE IInv
    OBVIOUS
  <1>1. 0 \in 0..MaxRuns  BY CampaignAssumption
  <1>2. TypeOK
    BY <1>1, FS_EmptySet DEF Init, TypeOK
  <1>3. DiskFits
    <2>1. \A r \in Runs : Len(Finds[r]) \in Nat  BY CampaignAssumption
    <2> QED  BY <2>1 DEF Init, DiskFits
  <1>4. ASSUME NEW p \in Processes  PROVE Own(p)
    <2>1. /\ pc[p] = "idle" /\ previous[p] = {} /\ known[p] = {} /\ finals[p] = <<>>
          /\ written[p] = {} /\ stale[p] = {}
          /\ \A r \in Runs : memo[p][r] = "unknown"
      BY DEF Init
    <2>2. HoldsRows(p) /\ MemoFits(p)
      BY <2>1, FS_EmptySet DEF HoldsRows, MemoFits
    <2>3. /\ PhaseFits(p) /\ LoadFits(p) /\ ReturnFits(p) /\ TagsFit(p) /\ WrittenFits(p)
          /\ FolderFits(p)
      BY <2>1 DEF PhaseFits, LoadFits, ReturnFits, TagsFit, WrittenFits, FolderFits
    <2> QED  BY <2>2, <2>3 DEF Own
  <1> QED  BY <1>2, <1>3, <1>4 DEF IInv

\* Nothing happens: what is not primed alone decides.
LEMMA StutterKeeps == IInv /\ UNCHANGED vars => IInv'
PROOF
  <1> SUFFICES ASSUME IInv, UNCHANGED vars  PROVE IInv'
    OBVIOUS
  <1>1. /\ begun' = begun /\ db' = db /\ found' = found /\ tags' = tags /\ folder' = folder
        /\ pc' = pc /\ run' = run /\ memo' = memo /\ todo' = todo /\ previous' = previous
        /\ finals' = finals /\ written' = written /\ stale' = stale /\ known' = known
        /\ missed' = missed /\ blind' = blind /\ rejected' = rejected /\ chosen' = chosen
        /\ untagged' = untagged /\ disturbed' = disturbed
    BY DEF vars
  <1>2. TypeOK'  BY <1>1 DEF IInv, TypeOK
  <1>3. DiskFits'  BY <1>1 DEF IInv, DiskFits, IsRow, Rows
  <1>4. ASSUME NEW p \in Processes  PROVE Own(p)'
    <2>1. found' \in [Runs -> Nat] /\ Grows /\ SameState(p) /\ NoticesFolder(p)
      BY <1>1 DEF IInv, TypeOK, Grows, SameState, NoticesFolder
    <2> QED  BY <2>1, OthersStayFit DEF IInv
  <1> QED  BY <1>2, <1>3, <1>4 DEF IInv

\* The invariant holds throughout.
THEOREM CampaignInvariance == Spec => []IInv
PROOF
  <1>1. Init => IInv  BY InitFits
  <1>2. IInv /\ [Next]_vars => IInv'
    <2> SUFFICES ASSUME IInv, [Next]_vars  PROVE IInv'
      OBVIOUS
    <2>1. CASE UNCHANGED vars  BY <2>1, StutterKeeps
    <2>2. CASE Finished  BY <2>2, StutterKeeps DEF Finished
    <2>3. ASSUME NEW p \in Processes,
                 \/ Begin(p) \/ List(p) \/ EndLoad(p)
                 \/ CreateDatabase(p) \/ StampDatabase(p) \/ AddRow(p) \/ Select(p)
                 \/ Write(p) \/ ListStale(p) \/ FindDatabases(p) \/ EndTag(p)
                 \/ Return(p) \/ Raise(p) \/ Crash(p)
          PROVE  IInv'
      BY <2>3, BeginKeeps, ListKeeps, MovesKeep, DatabaseKeeps, SelectKeeps, WriteKeeps,
         ListStaleKeeps, FindDatabasesKeeps, LeaveKeeps
    <2>4. ASSUME NEW p \in Processes, NEW r \in Runs, Load(p, r) \/ Tag(p, r)
          PROVE  IInv'
      BY <2>4, LoadKeeps, TagKeeps
    <2>5. ASSUME NEW p \in Processes, NEW n \in stale[p], Unlink(p, n)
          PROVE  IInv'
      BY <2>5, UnlinkKeeps
    <2> QED  BY <2>1, <2>2, <2>3, <2>4, <2>5 DEF Next
  <1> QED  BY <1>1, <1>2, PTL DEF Spec

\* Every tagged row was a final minimum of some run: true of the genetic
\* algorithm, whose rows carry final ids of their own.  With the ids that basin
\* hopping copies, the wrong row is tagged (CampaignBh).
THEOREM NothingIsTaggedByMistake ==
  ASSUME Optimizer = "ga"
  PROVE  Spec => []TagsAreHonest
PROOF
  <1>1. IInv => TagsAreHonest  BY DEF IInv, DiskFits, TagsAreHonest
  <1> QED  BY <1>1, CampaignInvariance, PTL

\* Every final minimum of a run that returns is tagged, or its database could
\* not be: true of the genetic algorithm, for the same reason.
THEOREM FinalsGetTheirTags ==
  ASSUME Optimizer = "ga"
  PROVE  Spec => []FinalsAreTagged
PROOF
  <1>1. IInv => FinalsAreTagged
    BY DEF IInv, Own, TagsFit, FinalsAreTagged, ToSet
  <1> QED  BY <1>1, CampaignInvariance, PTL

\* What was tagged before a run comes back as one of its final minima or as a
\* look-alike at most as high, rejected ones included.
THEOREM KnownMinimaComeBack == Spec => []KnownMinimaReturn
PROOF
  <1>1. IInv => KnownMinimaReturn
    BY DEF IInv, Own, ReturnFits, Better, KnownMinimaReturn, ToSet
  <1> QED  BY <1>1, CampaignInvariance, PTL

\* A run that nobody disturbed leaves the files of its final minima, each with
\* its own structure, and no other.
THEOREM TheFolderMirrors == Spec => []FolderMirrors
PROOF
  <1>1. IInv => FolderMirrors
    BY DEF IInv, Own, FolderFits, FileOf, FolderMirrors
  <1> QED  BY <1>1, CampaignInvariance, PTL
=============================================================================
