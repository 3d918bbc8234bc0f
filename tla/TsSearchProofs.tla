---------------------------- MODULE TsSearchProofs ----------------------------
(***************************************************************************)
(* Safety of the transition state search: of its campaign (TsSearch), for  *)
(* any minima, databases, searches and crashes, and of the bands it runs   *)
(* (ParallelNeb, SerialNeb), for any pairs, costs and budgets.             *)
(*                                                                         *)
(* The inductive invariant of the campaign ties the result of a pair to    *)
(* the file of that pair: from the moment the loop has passed it, the two  *)
(* are the same unless neither is a success.  That is why a demotion never *)
(* overwrites a result that passes, why only new bands are saved, and why  *)
(* the reports, which are made from the results, agree with the files.     *)
(* TraceInv adds why positions may be trusted: lists of the same minima up *)
(* to some energy have them at the same places (SamePlaces).               *)
(*                                                                         *)
(* The invariant of the bands says that a pair is in one place, a chunk to *)
(* come, the one under way or the results; that every band of a chunk is in*)
(* a batch to come or explained; and how many steps it has made, which is  *)
(* what its stage leaves it.                                               *)
(***************************************************************************)
EXTENDS TsSearch, SerialNeb, FiniteSetTheorems, NaturalsInduction, TLAPS

Statuses == {"open", "success", "failed", "skipped"}
Bands == [status : Statuses, ran : Nat \X Nat, good : BOOLEAN]
MinimumRows == [of : Minima, ts : {FALSE}]
Places == {"idle", "setup", "neb", "gate", "network", "unique", "tag", "done"}

Types ==
  /\ found \subseteq Minima
  /\ disk \in [Runs -> [PairIds -> Bands]]
  /\ runs \in Nat /\ searches \in 0..Searches /\ runs <= searches
  /\ pc \in Places /\ parallel \in BOOLEAN /\ at \in Nat \ {0}
  /\ minima \in Seq(MinimumRows)
  /\ pairs \in Seq(PairIds)
  /\ results \in [DOMAIN pairs -> Bands]

\* The search works in a run directory on distinct pairs of what it loaded.
Selected ==
  /\ DOMAIN pairs # {} => run \in Runs
  /\ \A k \in DOMAIN pairs : pairs[k][1] \in DOMAIN minima /\ pairs[k][2] \in DOMAIN minima
  /\ \A k, l \in DOMAIN pairs : pairs[k] = pairs[l] => k = l

Ahead(k) == pc = "setup" /\ at <= k

SameAsOnDisk(k) ==
  Succeeded(results[k]) \/ Succeeded(disk[run][pairs[k]])
    => results[k] = disk[run][pairs[k]]

Agreement ==
  \A k \in DOMAIN pairs : IF Ahead(k) THEN results[k] = Open ELSE SameAsOnDisk(k)

Gated ==
  /\ pc \in {"network", "unique", "tag", "done"} => \A k \in DOMAIN pairs : ~Rejected(k)
  /\ \A edge \in untagged : edge.good
  /\ AcceptedIsValid

Reported ==
  /\ pc \in {"network", "unique", "tag", "done"} => summary = {pairs[k] : k \in Successes}
  /\ pc \in {"unique", "tag", "done"} => {edge.pair : edge \in network} = summary

IInv == Types /\ Selected /\ Agreement /\ Gated /\ Reported
-----------------------------------------------------------------------------
(* What a search loads and selects. *)

\* A nonempty set of natural numbers has a least one: what a proof by
\* induction picks as its first counterexample.
LEMMA LeastNumber ==
  ASSUME NEW T \in SUBSET Nat, T # {}
  PROVE  \E n \in T : \A m \in T : n <= m
PROOF
  <1>1. PICK n \in T : \A m \in T : ~ (<<m, n>> \in OpToRel(<, Nat))
    BY NatLessThanWellFounded, WFMin, Zenon
  <1>2. \A m \in T : ~ (m < n)
    BY <1>1, Zenon DEF OpToRel
  <1> QED  BY <1>2

\* The loaded list holds minima only, each at most once: it is no longer than the
\* list of all minima, so that its pairs of positions are pairs of positions.
LEMMA ListedRows ==
  ASSUME found \subseteq Minima, NEW rows \in SUBSET Listed, NEW list \in Sortings(rows)
  PROVE  list \in Seq(MinimumRows) /\ Len(list) <= Cardinality(Minima)
PROOF
  <1> DEFINE f == [m \in found |-> [of |-> m, ts |-> FALSE]]
  <1>1. Listed = {[of |-> m, ts |-> FALSE] : m \in found}
    BY DEF Listed, TaggedRows, IsMinimum
  <1>2. IsFiniteSet(found) /\ Cardinality(found) <= Cardinality(Minima)
    BY TsSearchAssumption, FS_Subset
  <1>3. f \in Surjection(found, Listed)
    BY <1>1 DEF Surjection
  <1>4. IsFiniteSet(Listed) /\ Cardinality(Listed) <= Cardinality(found)
    BY <1>2, <1>3, FS_Surjection
  <1>5. /\ Cardinality(Listed) \in Nat /\ Cardinality(found) \in Nat
        /\ Cardinality(Minima) \in Nat
    BY <1>2, <1>4, TsSearchAssumption, FS_CardinalityType
  <1>6. Listed \subseteq MinimumRows
    <2> SUFFICES ASSUME NEW row \in Listed  PROVE row \in MinimumRows
      OBVIOUS
    <2>1. PICK m \in found : row = [of |-> m, ts |-> FALSE]  BY <1>1
    <2> QED  BY <2>1 DEF MinimumRows
  <1>7. /\ IsFiniteSet(rows) /\ Cardinality(rows) <= Cardinality(Listed)
        /\ Cardinality(rows) \in Nat
    BY <1>4, FS_Subset, FS_CardinalityType
  <1>8. list \in [1..Cardinality(rows) -> MinimumRows]
    BY <1>6 DEF Sortings
  <1>9. list \in Seq(MinimumRows) /\ Len(list) = Cardinality(rows)
    BY <1>7, <1>8
  <1> QED  BY <1>2, <1>4, <1>5, <1>7, <1>9

\* What Start leaves: distinct pairs of the list it loaded, nothing optimised.
LEMMA StartFacts ==
  ASSUME IInv, Start
  PROVE  /\ minima' \in Seq(MinimumRows)
         /\ pairs' \in Seq(PairIds)
         /\ \A k \in DOMAIN pairs' :
              pairs'[k][1] \in DOMAIN minima' /\ pairs'[k][2] \in DOMAIN minima'
         /\ \A k, l \in DOMAIN pairs' : pairs'[k] = pairs'[l] => k = l
         /\ results' = [k \in DOMAIN pairs' |-> Open]
         /\ run' \in Runs
PROOF
  <1>1. minima' \in Seq(MinimumRows) /\ Len(minima') <= Cardinality(Minima)
    <2>1. PICK rows \in SUBSET Listed : minima' \in Sortings(rows)  BY DEF Start
    <2> QED  BY <2>1, ListedRows DEF IInv, Types
  <1>2. pairs' \in Selections(minima') /\ results' = [k \in DOMAIN pairs' |-> Open]
    BY DEF Start
  <1> DEFINE P == 1..Len(minima')
  <1>3. PICK n \in 1..MaxPairs : pairs' \in [1..n -> P \X P]
    BY <1>2 DEF Selections
  <1>4. /\ \A k \in DOMAIN pairs' : pairs'[k][1] < pairs'[k][2]
        /\ \A k, l \in DOMAIN pairs' : pairs'[k] = pairs'[l] => k = l
    BY <1>2 DEF Selections
  <1>5. n \in Nat /\ DOMAIN pairs' = 1..n  BY <1>3, TsSearchAssumption
  <1>6. Cardinality(Minima) \in Nat /\ Len(minima') \in Nat
    BY <1>1, TsSearchAssumption, FS_CardinalityType
  <1>7. P \subseteq Positions  BY <1>1, <1>6 DEF Positions
  <1>8. \A k \in 1..n : pairs'[k] \in P \X P /\ pairs'[k] \in PairIds
    BY <1>3, <1>4, <1>5, <1>7 DEF PairIds
  <1>9. pairs' \in [1..n -> PairIds]  BY <1>3, <1>8
  <1>10. pairs' \in Seq(PairIds)  BY <1>5, <1>9
  <1>11. run' \in Runs
    BY TsSearchAssumption DEF Start, IInv, Types, Runs
  <1>12. DOMAIN minima' = P  BY <1>1
  <1> QED  BY <1>1, <1>2, <1>4, <1>5, <1>8, <1>10, <1>11, <1>12

-----------------------------------------------------------------------------
(* The steps that write results, and the others. *)

\* A step that puts one result, and maybe saves one.
LEMMA PutFacts ==
  ASSUME IInv, NEW k \in DOMAIN pairs, NEW band \in Bands
  PROVE  /\ k \in Nat \ {0} /\ pairs[k] \in PairIds /\ run \in Runs
         /\ [results EXCEPT ![k] = band] \in [DOMAIN pairs -> Bands]
         /\ Saved(pairs[k], band) \in [Runs -> [PairIds -> Bands]]
         /\ Saved(pairs[k], band)[run][pairs[k]] = band
         /\ \A l \in DOMAIN pairs \ {k} :
              /\ [results EXCEPT ![k] = band][l] = results[l]
              /\ Saved(pairs[k], band)[run][pairs[l]] = disk[run][pairs[l]]
         /\ \A r \in Runs, p \in PairIds : r # run \/ p # pairs[k] =>
              Saved(pairs[k], band)[r][p] = disk[r][p]
PROOF
  <1>1. k \in Nat \ {0} /\ pairs[k] \in PairIds /\ run \in Runs
    BY DEF IInv, Types, Selected
  <1>2. disk[run] \in [PairIds -> Bands]  BY <1>1 DEF IInv, Types
  <1>3. Saved(pairs[k], band) = [disk EXCEPT ![run] = [@ EXCEPT ![pairs[k]] = band]]
    BY DEF Saved
  <1>4. \A l \in DOMAIN pairs \ {k} : pairs[l] \in PairIds /\ pairs[l] # pairs[k]
    BY DEF IInv, Types, Selected
  <1> QED  BY <1>1, <1>2, <1>3, <1>4 DEF IInv, Types

\* The names of a pair are numbers.
LEMMA NamedType == ASSUME IInv, NEW k \in DOMAIN pairs  PROVE Named(pairs[k]) \in Nat \X Nat
PROOF
  <1>1. minima[pairs[k][1]] \in MinimumRows /\ minima[pairs[k][2]] \in MinimumRows
    BY DEF IInv, Types, Selected
  <1> QED  BY <1>1, TsSearchAssumption DEF Named, MinimumRows

\* What an optimised band leaves: its result and its file are one.
LEMMA OptimisedFacts ==
  ASSUME IInv, NEW k \in DOMAIN pairs, Optimised(k)
  PROVE  /\ \E band \in Bands :
              /\ results' = [results EXCEPT ![k] = band] /\ disk' = Saved(pairs[k], band)
              /\ band.ran = Named(pairs[k])
         /\ UNCHANGED <<found, saddles, network, summary, bounds, search, untagged>>
PROOF
  <1>1. PICK status \in {"success", "failed", "skipped"}, good \in BOOLEAN :
          LET band == [status |-> status, ran |-> Named(pairs[k]), good |-> good] IN
          results' = [results EXCEPT ![k] = band] /\ disk' = Saved(pairs[k], band)
    BY DEF Optimised, Put
  <1>2. [status |-> status, ran |-> Named(pairs[k]), good |-> good] \in Bands
    BY NamedType DEF Bands, Statuses
  <1> QED  BY <1>1, <1>2 DEF Optimised

\* The two bands of a setup that are no optimisation.
LEMMA PlainBands == Open \in Bands /\ Skipped \in Bands /\ ~Succeeded(Open) /\ ~Succeeded(Skipped)
PROOF
  BY DEF Open, Skipped, Bands, Statuses, Succeeded

\* A demoted result is a failure.
LEMMA DemotedFacts ==
  ASSUME IInv, NEW k \in DOMAIN pairs
  PROVE  Demoted(k) \in Bands /\ ~Succeeded(Demoted(k))
PROOF
  <1>1. results[k] \in Bands  BY DEF IInv, Types
  <1> QED  BY <1>1 DEF Demoted, Bands, Statuses, Succeeded

\* The five steps that put a result: where it is saved, the file held no
\* success that passes; where it is not, result and file are already one.  What
\* is a success ran now, between the minima at the positions of its pair, or is
\* the saved one.
LEMMA PutSteps ==
  ASSUME IInv, Resume \/ Skip \/ SerialBand \/ ParallelBand \/ Demote
  PROVE  \E k \in DOMAIN pairs, band \in Bands :
           /\ results' = [results EXCEPT ![k] = band]
           /\ \/ /\ disk' = Saved(pairs[k], band)
                 /\ ~(Succeeded(disk[run][pairs[k]]) /\ disk[run][pairs[k]].good)
              \/ /\ disk' = disk
                 /\ Succeeded(band) \/ Succeeded(disk[run][pairs[k]])
                      => band = disk[run][pairs[k]]
           /\ Succeeded(band) =>
                band.ran = Named(pairs[k]) \/ band = disk[run][pairs[k]]
           /\ IF pc = "setup" THEN k = at /\ at' = at + 1 ELSE at' = at
           /\ pc \in {"setup", "neb", "gate"}
           /\ UNCHANGED <<found, saddles, network, summary, bounds, pc, search, untagged>>
PROOF
  <1> USE DEF disks, bounds, search
  <1>1. CASE Resume
    <2>1. at \in DOMAIN pairs /\ pc = "setup"  BY <1>1 DEF Resume
    <2>2. disk[run][pairs[at]] \in Bands  BY <2>1, PutFacts, PlainBands DEF IInv, Types
    <2> QED  BY <1>1, <2>1, <2>2 DEF Resume, Put
  <1>2. CASE Skip
    <2>1. /\ at \in DOMAIN pairs /\ pc = "setup" /\ ~Succeeded(disk[run][pairs[at]])
          /\ disk' = disk \/ disk' = Saved(pairs[at], Skipped)
      BY <1>2 DEF Skip, Completed
    <2> QED  BY <1>2, <2>1, PlainBands DEF Skip, Put
  <1>3. CASE SerialBand
    <2>1. /\ at \in DOMAIN pairs /\ pc = "setup" /\ ~Succeeded(disk[run][pairs[at]])
          /\ Optimised(at) /\ at' = at + 1 /\ pc' = pc
      BY <1>3 DEF SerialBand, Completed
    <2> QED  BY <2>1, OptimisedFacts
  <1>4. CASE ParallelBand
    <2>1. PICK k \in DOMAIN pairs : results[k] = Open /\ Optimised(k)
      BY <1>4 DEF ParallelBand
    <2>2. pc = "neb" /\ pc' = pc /\ at' = at  BY <1>4 DEF ParallelBand
    <2>3. ~Succeeded(disk[run][pairs[k]])
      BY <2>1, <2>2, PlainBands DEF IInv, Agreement, Ahead, SameAsOnDisk
    <2> QED  BY <2>1, <2>2, <2>3, OptimisedFacts
  <1>5. CASE Demote
    <2>1. PICK k \in DOMAIN pairs :
            /\ Rejected(k)
            /\ results' = [results EXCEPT ![k] = Demoted(k)]
            /\ disk' = Saved(pairs[k], Demoted(k))
      BY <1>5 DEF Demote, Put, Rewritten
    <2>2. pc = "gate"  BY <1>5 DEF Demote
    <2>3. results[k] = disk[run][pairs[k]] /\ ~disk[run][pairs[k]].good
      BY <2>1, <2>2 DEF IInv, Agreement, Ahead, SameAsOnDisk, Rejected
    <2> QED  BY <1>5, <2>1, <2>2, <2>3, DemotedFacts DEF Demote
  <1> QED  BY <1>1, <1>2, <1>3, <1>4, <1>5

\* They preserve the invariant.
LEMMA PutPreserves ==
  ASSUME IInv, Resume \/ Skip \/ SerialBand \/ ParallelBand \/ Demote
  PROVE  IInv'
PROOF
  <1>1. PICK k \in DOMAIN pairs, band \in Bands :
           /\ results' = [results EXCEPT ![k] = band]
           /\ \/ disk' = Saved(pairs[k], band)
              \/ /\ disk' = disk
                 /\ Succeeded(band) \/ Succeeded(disk[run][pairs[k]])
                      => band = disk[run][pairs[k]]
           /\ IF pc = "setup" THEN k = at /\ at' = at + 1 ELSE at' = at
           /\ pc \in {"setup", "neb", "gate"}
           /\ UNCHANGED <<found, saddles, network, summary, bounds, pc, search, untagged>>
    BY PutSteps
  <1>2. UNCHANGED <<runs, searches, crashes, parallel, run, minima, pairs>>
    BY <1>1 DEF bounds, search
  <1>3. Types'
    <2>1. results' \in [DOMAIN pairs -> Bands] /\ disk' \in [Runs -> [PairIds -> Bands]]
      BY <1>1, PutFacts DEF IInv, Types
    <2>2. at' \in Nat \ {0}  BY <1>1 DEF IInv, Types
    <2>3. found' \subseteq Minima /\ pc' \in Places  BY <1>1 DEF IInv, Types
    <2> QED  BY <1>2, <2>1, <2>2, <2>3 DEF IInv, Types
  <1>4. Selected'
    BY <1>2 DEF IInv, Selected
  <1>5. Agreement'
    <2> SUFFICES ASSUME NEW l \in DOMAIN pairs
                 PROVE  IF Ahead(l)' THEN results'[l] = Open ELSE SameAsOnDisk(l)'
      BY <1>2 DEF Agreement
    <2>1. CASE l = k
      <3>1. ~Ahead(l)'
        BY <1>1, <2>1, PutFacts DEF Ahead, IInv, Types
      <3>2. results'[l] = band  BY <1>1, <2>1 DEF IInv, Types
      <3>3. SameAsOnDisk(l)'
        BY <1>1, <1>2, <2>1, <3>2, PutFacts DEF SameAsOnDisk, Succeeded
      <3> QED  BY <3>1, <3>3
    <2>2. CASE l # k
      <3>1. Ahead(l)' <=> Ahead(l)
        <4>1. at \in Nat /\ k \in Nat /\ l \in Nat  BY PutFacts, PlainBands DEF IInv, Types
        <4> QED  BY <1>1, <2>2, <4>1 DEF Ahead
      <3>2. results'[l] = results[l]  BY <1>1, <2>2 DEF IInv, Types
      <3>3. disk'[run][pairs[l]] = disk[run][pairs[l]]
        BY <1>1, <2>2, PutFacts
      <3> QED  BY <1>2, <3>1, <3>2, <3>3 DEF SameAsOnDisk, Succeeded, IInv, Agreement
    <2> QED  BY <2>1, <2>2
  <1>6. Gated'
    BY <1>1 DEF IInv, Gated, AcceptedIsValid
  <1>7. Reported'
    BY <1>1 DEF IInv, Reported
  <1> QED  BY <1>3, <1>4, <1>5, <1>6, <1>7 DEF IInv

\* Start preserves it: nothing is optimised, the list is one of minima.
LEMMA StartPreserves == IInv /\ Start => IInv'
PROOF
  <1> SUFFICES ASSUME IInv, Start  PROVE IInv'
    OBVIOUS
  <1>1. /\ searches < Searches /\ searches' = searches + 1 /\ run' \in 1..(runs + 1)
        /\ runs' = IF run' > runs THEN run' ELSE runs
        /\ parallel' \in BOOLEAN /\ untagged' = {} /\ at' = 1 /\ pc' = "setup"
        /\ UNCHANGED <<found, saddles, disk, network, summary>>
    BY DEF Start, disks
  <1>2. Types'
    <2>1. runs' \in Nat /\ searches' \in 0..Searches /\ runs' <= searches'
      BY <1>1, TsSearchAssumption DEF IInv, Types
    <2>2. results' \in [DOMAIN pairs' -> Bands]  BY StartFacts, PlainBands
    <2>3. pc' \in Places  BY <1>1 DEF Places
    <2> QED  BY <1>1, <2>1, <2>2, <2>3, StartFacts DEF IInv, Types
  <1>3. Selected'
    BY StartFacts DEF Selected
  <1>4. Agreement'
    <2> SUFFICES ASSUME NEW k \in DOMAIN pairs'  PROVE Ahead(k)' /\ results'[k] = Open
      BY DEF Agreement
    <2>1. k \in Nat \ {0}  BY StartFacts
    <2> QED  BY <1>1, <2>1, StartFacts DEF Ahead
  <1>5. Gated'
    BY <1>1 DEF IInv, Gated, AcceptedIsValid
  <1>6. Reported'
    BY <1>1 DEF Reported
  <1> QED  BY <1>2, <1>3, <1>4, <1>5, <1>6 DEF IInv

\* Steps that move on in the setup, or from the setup to the gate.
LEMMA MovePreserves == IInv /\ (Defer \/ AllSetUp \/ BandsDone) => IInv'
PROOF
  <1> SUFFICES ASSUME IInv, Defer \/ AllSetUp \/ BandsDone  PROVE IInv'
    OBVIOUS
  <1>1. /\ UNCHANGED <<found, saddles, disk, network, summary, runs, searches,
                       crashes, parallel, run, minima, pairs, results, untagged>>
        /\ \/ Defer /\ pc = "setup" /\ pc' = pc /\ at' = at + 1 /\ at \in DOMAIN pairs
              /\ ~Succeeded(disk[run][pairs[at]])
           \/ pc = "setup" /\ pc' = "neb" /\ at' = at /\ at \notin DOMAIN pairs
           \/ pc = "neb" /\ pc' = "gate" /\ at' = at
    BY DEF Defer, AllSetUp, BandsDone, Completed, disks, bounds, search
  <1>2. Types'
    <2>1. at' \in Nat \ {0} /\ pc' \in Places  BY <1>1 DEF IInv, Types, Places
    <2> QED  BY <1>1, <2>1 DEF IInv, Types
  <1>3. Selected'
    BY <1>1 DEF IInv, Selected
  <1>4. Agreement'
    <2> SUFFICES ASSUME NEW k \in DOMAIN pairs
                 PROVE  IF Ahead(k)' THEN results'[k] = Open ELSE SameAsOnDisk(k)'
      BY <1>1 DEF Agreement
    <2>1. /\ k \in 1..Len(pairs) /\ DOMAIN pairs = 1..Len(pairs) /\ Len(pairs) \in Nat
          /\ at \in Nat /\ at > 0
      BY DEF IInv, Types
    <2>2. IF Ahead(k) THEN results[k] = Open ELSE SameAsOnDisk(k)
      BY DEF IInv, Agreement
    <2>3. SameAsOnDisk(k)' <=> SameAsOnDisk(k)
      BY <1>1 DEF SameAsOnDisk, Succeeded
    <2>4. CASE Defer
      <3>1. CASE k = at
        BY <1>1, <2>1, <2>2, <2>3, <2>4, <3>1, PlainBands DEF Ahead, SameAsOnDisk, Defer
      <3>2. CASE k # at
        <4>1. Ahead(k)' <=> Ahead(k)  BY <1>1, <2>1, <2>4, <3>2 DEF Ahead, Defer
        <4> QED  BY <1>1, <2>2, <2>3, <4>1
      <3> QED  BY <3>1, <3>2
    <2>5. CASE ~Defer
      <3>1. ~Ahead(k) /\ ~Ahead(k)'  BY <1>1, <2>1, <2>5 DEF Ahead
      <3> QED  BY <2>2, <2>3, <3>1
    <2> QED  BY <2>4, <2>5
  <1>5. Gated'
    BY <1>1 DEF IInv, Gated, AcceptedIsValid
  <1>6. Reported'
    BY <1>1 DEF IInv, Reported
  <1> QED  BY <1>2, <1>3, <1>4, <1>5, <1>6 DEF IInv

\* Steps after the gate, and what happens meanwhile, leave results and files
\* alone.
LEMMA SameAgreement ==
  ASSUME IInv, UNCHANGED <<disk, results, run, minima, pairs, at>>,
         pc' = pc \/ (pc \notin {"idle", "setup"} /\ pc' # "setup")
  PROVE  Selected' /\ Agreement'
PROOF
  <1>1. Selected'  BY DEF IInv, Selected
  <1>2. ASSUME NEW k  PROVE Ahead(k)' <=> Ahead(k)
    BY DEF Ahead
  <1>3. Agreement'
    BY <1>2 DEF IInv, Agreement, SameAsOnDisk, Succeeded
  <1> QED  BY <1>1, <1>3

\* The steps after the gate: what they report are successes that passed it.
LEMMA ReportPreserves ==
  IInv /\ (Summarise \/ SaveNetwork \/ WriteUnique \/ AddRow \/ RowFails \/ Finish) => IInv'
PROOF
  <1> SUFFICES ASSUME IInv,
                      Summarise \/ SaveNetwork \/ WriteUnique \/ AddRow \/ RowFails \/ Finish
               PROVE  IInv'
    OBVIOUS
  <1>1. /\ UNCHANGED <<found, disk, runs, searches, crashes, parallel, run, minima,
                       pairs, results, at>>
        /\ pc \in {"gate", "network", "unique", "tag"}
        /\ pc' \in {"network", "unique", "tag", "done"}
    BY DEF Summarise, SaveNetwork, WriteUnique, AddRow, RowFails, Finish, disks, bounds,
           search
  <1>2. Types'
    BY <1>1 DEF IInv, Types, Places
  <1>3. Selected' /\ Agreement'
    BY <1>1, SameAgreement
  <1>4. \A k \in DOMAIN pairs : ~Rejected(k) /\ (Succeeded(results[k]) => Edge(k).good)
    <2>1. \A k \in DOMAIN pairs : ~Rejected(k)
      BY <1>1 DEF IInv, Gated, Summarise, SaveNetwork, WriteUnique, AddRow, RowFails,
                  Finish
    <2> QED  BY <2>1 DEF Rejected, Edge
  <1>5. \A k \in DOMAIN pairs : ~Rejected(k)'
    BY <1>1, <1>4 DEF Rejected, Succeeded
  <1>6. \A edge \in {Edge(k) : k \in Successes} : edge.good
    BY <1>4 DEF Successes
  <1>7. Gated'
    <2>1. (\A edge \in network' : edge.good) /\ (\A edge \in untagged' : edge.good)
      BY <1>6 DEF IInv, Gated, AcceptedIsValid, Summarise, SaveNetwork, WriteUnique,
                  AddRow, RowFails, Finish, disks
    <2>2. \A row \in saddles' : row.good
      <3>1. CASE AddRow
        <4>1. PICK edge \in untagged, db \in Databases :
                saddles' = saddles \cup
                  {[db |-> db, named |-> edge.named, ran |-> edge.ran, good |-> edge.good]}
          BY <3>1 DEF AddRow
        <4> QED  BY <4>1 DEF IInv, Gated, AcceptedIsValid
      <3>2. CASE ~AddRow
        BY <3>2 DEF IInv, Gated, AcceptedIsValid, Summarise, SaveNetwork, WriteUnique,
                    RowFails, Finish, disks
      <3> QED  BY <3>1, <3>2
    <2> QED  BY <1>1, <1>5, <2>1, <2>2 DEF Gated, AcceptedIsValid
  <1>8. Reported'
    <2>1. Successes' = Successes  BY <1>1 DEF Successes, Succeeded
    <2>2. CASE Summarise
      BY <1>1, <2>1, <2>2 DEF Summarise, Reported
    <2>3. CASE SaveNetwork
      <3>1. network' = {Edge(k) : k \in Successes} /\ summary' = summary
            /\ pc = "network" /\ pc' = "unique"
        BY <2>3 DEF SaveNetwork
      <3>2. \A k \in Successes : Edge(k).pair = pairs[k]  BY DEF Edge
      <3>3. {edge.pair : edge \in network'} = {pairs[k] : k \in Successes}
        BY <3>1, <3>2
      <3> QED  BY <1>1, <2>1, <3>1, <3>3 DEF IInv, Reported
    <2>4. CASE WriteUnique \/ AddRow \/ RowFails \/ Finish
      <3>1. UNCHANGED <<summary, network>> /\ pc \in {"unique", "tag"}
        BY <2>4 DEF WriteUnique, AddRow, RowFails, Finish, disks
      <3> QED  BY <1>1, <2>1, <3>1 DEF IInv, Reported
    <2> QED  BY <2>2, <2>3, <2>4
  <1> QED  BY <1>2, <1>3, <1>7, <1>8 DEF IInv

\* A minimum found meanwhile, a crash and a stuttering step.
LEMMA OtherPreserves == IInv /\ (Optimise \/ Crash \/ UNCHANGED vars) => IInv'
PROOF
  <1>1. ASSUME IInv, Optimise \/ UNCHANGED vars  PROVE IInv'
    <2>1. /\ UNCHANGED <<saddles, disk, network, summary, runs, searches, crashes, pc,
                         parallel, run, minima, pairs, results, at, untagged>>
          /\ found' \subseteq Minima
      BY <1>1 DEF Optimise, vars, disks, bounds, search, IInv, Types
    <2>2. Types'  BY <1>1, <2>1 DEF IInv, Types
    <2>3. Selected' /\ Agreement'
      <3>1. UNCHANGED <<disk, results, run, minima, pairs, at>>  BY <2>1
      <3>2. pc' = pc \/ (pc \notin {"idle", "setup"} /\ pc' # "setup")  BY <2>1
      <3> QED  BY <1>1, <3>1, <3>2, SameAgreement
    <2>4. Gated'
      BY <1>1, <2>1 DEF IInv, Gated, AcceptedIsValid, Rejected, Succeeded
    <2>5. Successes' = Successes  BY <2>1 DEF Successes, Succeeded
    <2>6. Reported'  BY <1>1, <2>1, <2>5 DEF IInv, Reported
    <2> QED  BY <2>2, <2>3, <2>4, <2>6 DEF IInv
  <1>2. ASSUME IInv, Crash  PROVE IInv'
    <2>1. /\ UNCHANGED <<found, saddles, disk, network, summary, runs, searches, parallel>>
          /\ pc' = "idle" /\ minima' = <<>> /\ pairs' = <<>> /\ results' = <<>>
          /\ at' = 1 /\ untagged' = {}
      BY <1>2 DEF Crash, disks
    <2>2. DOMAIN pairs' = {}  BY <2>1
    <2>3. Types'  BY <1>2, <2>1, <2>2 DEF IInv, Types, Places
    <2>4. Selected' /\ Agreement'  BY <2>2 DEF Selected, Agreement
    <2>5. Gated'  BY <1>2, <2>1 DEF IInv, Gated, AcceptedIsValid
    <2>6. Reported'  BY <2>1 DEF Reported
    <2> QED  BY <2>3, <2>4, <2>5, <2>6 DEF IInv
  <1> QED  BY <1>1, <1>2

\* No search has begun and no file is written.
LEMMA InitHolds == Init => IInv
PROOF
  <1> SUFFICES ASSUME Init  PROVE IInv
    OBVIOUS
  <1>1. DOMAIN pairs = {}  BY DEF Init
  <1>2. Types
    <2>1. disk \in [Runs -> [PairIds -> Bands]]  BY PlainBands DEF Init
    <2>2. results \in [DOMAIN pairs -> Bands]  BY <1>1 DEF Init
    <2>3. minima \in Seq(MinimumRows) /\ pairs \in Seq(PairIds)  BY DEF Init
    <2>4. parallel \in BOOLEAN /\ pc \in Places  BY DEF Init, Places
    <2>5. found \subseteq Minima /\ runs \in Nat /\ searches \in 0..Searches
          /\ runs <= searches /\ at \in Nat \ {0}
      BY TsSearchAssumption DEF Init
    <2> QED  BY <2>1, <2>2, <2>3, <2>4, <2>5 DEF Types
  <1>3. Selected /\ Agreement  BY <1>1 DEF Selected, Agreement
  <1>4. Gated /\ Reported  BY DEF Init, Gated, AcceptedIsValid, Reported
  <1> QED  BY <1>2, <1>3, <1>4 DEF IInv

-----------------------------------------------------------------------------
(* The rows trace. *)

Running == pc \notin {"idle", "done"}
Rows(M) == {[of |-> m, ts |-> FALSE] : m \in M}
Loaded == {minima[n].of : n \in DOMAIN minima}

\* What a search under way knows of, or the next one can find.
Seen == IF Running THEN Loaded \cup missed ELSE found

Until(n, M) == {m \in M : m <= n}

\* In every list that has, up to its second endpoint, what was known at first and
\* the endpoints themselves, the pair is at its positions.
Located(p, ran) ==
  \A M \in SUBSET Minima : \A list \in Sortings(Rows(M)) :
    Until(ran[2], M) = Until(ran[2], Known) \cup {ran[1], ran[2]} =>
      /\ p[1] \in DOMAIN list /\ p[2] \in DOMAIN list
      /\ ran = <<list[p[1]].of, list[p[2]].of>>

Traced(p, result) ==
  Succeeded(result) =>
    /\ result.ran[1] < result.ran[2]
    /\ {result.ran[1], result.ran[2]} \subseteq Seen
    /\ Settled(result.ran) => Located(p, result.ran)

Lists ==
  /\ Known \subseteq found /\ missed \subseteq found
  /\ Running => /\ Loaded \subseteq found /\ Known \subseteq Loaded \cup missed
                /\ minima \in Sortings(Rows(Loaded))

TracedFiles == \A r \in Runs, p \in PairIds : Traced(p, disk[r][p])
TracedResults == \A k \in DOMAIN pairs : Traced(pairs[k], results[k])
Names(edge) == Settled(edge.ran) => edge.named = edge.ran
TracedEdges == \A edge \in untagged \cup saddles : Names(edge)

TraceInv == Lists /\ TracedFiles /\ TracedResults /\ TracedEdges

\* A list made of rows has all of them, in strict order.
LEMMA SortedList ==
  ASSUME NEW rows, IsFiniteSet(rows), NEW list \in Sortings(rows),
         \A row \in rows : row.of \in Nat /\ ~row.ts
  PROVE  /\ Cardinality(rows) \in Nat /\ list \in [1..Cardinality(rows) -> rows]
         /\ \A i, j \in DOMAIN list : i < j => list[i].of < list[j].of
         /\ \A row \in rows : \E i \in DOMAIN list : list[i] = row
PROOF
  <1> DEFINE c == Cardinality(rows)
  <1>1. c \in Nat  BY FS_CardinalityType
  <1>2. list \in [1..c -> rows]  BY DEF Sortings
  <1>3. \A i, j \in 1..c : i < j => list[i].of < list[j].of
    BY <1>2 DEF Sortings, Earlier
  <1>4. list \in Injection(1..c, rows)
    <2>1. ASSUME NEW i \in 1..c, NEW j \in 1..c, list[i] = list[j]  PROVE i = j
      <3>1. list[i].of \in Nat /\ list[j].of = list[i].of  BY <1>2, <2>1
      <3>2. ~(i < j) /\ ~(j < i)  BY <1>3, <3>1
      <3> QED  BY <1>1, <3>2
    <2> QED  BY <1>2, <2>1 DEF Injection, IsInjective
  <1>5. IsFiniteSet(1..c) /\ Cardinality(1..c) = c  BY <1>1, FS_Interval
  <1>6. list \in Surjection(1..c, rows)  BY <1>4, <1>5, FS_Injection
  <1>7. \A row \in rows : \E i \in 1..c : list[i] = row  BY <1>6 DEF Surjection
  <1> QED  BY <1>1, <1>2, <1>3, <1>7

\* A list of minima has each of them, by energy.
LEMMA SortedMinima ==
  ASSUME NEW M \in SUBSET Minima, NEW list \in Sortings(Rows(M))
  PROVE  /\ \E c \in Nat : DOMAIN list = 1..c
         /\ \A i, j \in DOMAIN list : i < j => list[i].of < list[j].of
         /\ \A i \in DOMAIN list : list[i].of \in M
         /\ \A m \in M : \E i \in DOMAIN list : list[i].of = m
PROOF
  <1> DEFINE f == [m \in M |-> [of |-> m, ts |-> FALSE]]
  <1>1. IsFiniteSet(M)  BY TsSearchAssumption, FS_Subset
  <1>2. f \in Surjection(M, Rows(M))  BY DEF Surjection, Rows
  <1>3. IsFiniteSet(Rows(M))  BY <1>1, <1>2, FS_Surjection
  <1>4. \A row \in Rows(M) : row.of \in M /\ row.of \in Nat /\ ~row.ts
    BY TsSearchAssumption DEF Rows
  <1>5. \A m \in M : \E row \in Rows(M) : row.of = m
    <2> TAKE m \in M
    <2>1. [of |-> m, ts |-> FALSE] \in Rows(M)  BY DEF Rows
    <2> QED  BY <2>1
  <1> HIDE DEF f
  <1>6. /\ Cardinality(Rows(M)) \in Nat /\ list \in [1..Cardinality(Rows(M)) -> Rows(M)]
        /\ \A i, j \in DOMAIN list : i < j => list[i].of < list[j].of
        /\ \A row \in Rows(M) : \E i \in DOMAIN list : list[i] = row
    BY <1>3, <1>4, SortedList
  <1>7. DOMAIN list = 1..Cardinality(Rows(M))  BY <1>6
  <1>8. \A i \in DOMAIN list : list[i].of \in M  BY <1>4, <1>6
  <1>9. \A m \in M : \E i \in DOMAIN list : list[i].of = m  BY <1>5, <1>6
  <1> QED  BY <1>6, <1>7, <1>8, <1>9

\* Two lists of the same minima up to some energy have them at the same
\* positions.
LEMMA SamePlaces ==
  ASSUME NEW M \in SUBSET Minima, NEW list \in Sortings(Rows(M)),
         NEW N \in SUBSET Minima, NEW other \in Sortings(Rows(N)),
         NEW q \in DOMAIN list, Until(list[q].of, M) = Until(list[q].of, N)
  PROVE  \A i \in DOMAIN list :
           i <= q => i \in DOMAIN other /\ other[i].of = list[i].of
PROOF
  <1>1. PICK c \in Nat : DOMAIN list = 1..c  BY SortedMinima
  <1>2. PICK d \in Nat : DOMAIN other = 1..d  BY SortedMinima
  <1>3. /\ \A i, j \in DOMAIN list : i < j => list[i].of < list[j].of
        /\ \A i \in DOMAIN list : list[i].of \in M
        /\ \A m \in M : \E i \in DOMAIN list : list[i].of = m
    BY SortedMinima
  <1>4. /\ \A i, j \in DOMAIN other : i < j => other[i].of < other[j].of
        /\ \A i \in DOMAIN other : other[i].of \in N
        /\ \A m \in N : \E i \in DOMAIN other : other[i].of = m
    BY SortedMinima
  <1>5. M \subseteq Nat /\ N \subseteq Nat  BY TsSearchAssumption
  <1> DEFINE Same(i) == i \in DOMAIN other /\ other[i].of = list[i].of
             T == {i \in 1..c : i <= q /\ ~Same(i)}
  <1> HIDE DEF Same
  <1> SUFFICES ASSUME T # {}  PROVE FALSE
    BY <1>1 DEF Same
  <1>6. PICK i \in T : \A j \in T : i <= j
    <2>1. T \in SUBSET Nat  OBVIOUS
    <2> HIDE DEF T
    <2> QED  BY <2>1, LeastNumber
  <1>7. i \in 1..c /\ i <= q /\ ~Same(i) /\ q \in 1..c  BY <1>1, <1>6
  <1>8. \A j \in 1..c : j < i => Same(j)
    <2> SUFFICES ASSUME NEW j \in 1..c, j < i, ~Same(j)  PROVE FALSE
      OBVIOUS
    <2>1. j \in T  BY <1>1, <1>7
    <2> QED  BY <1>6, <1>7, <2>1
  <1> HIDE DEF T
  <1>9. list[i].of \in M /\ list[i].of <= list[q].of /\ list[i].of \in Nat /\ list[q].of \in Nat
    <2>1. i \in DOMAIN list /\ q \in DOMAIN list  BY <1>1, <1>7
    <2>2. /\ list[i].of \in M /\ list[q].of \in M
          /\ i < q => list[i].of < list[q].of
      BY <1>3, <2>1
    <2>3. list[i].of \in Nat /\ list[q].of \in Nat  BY <1>5, <2>2
    <2>4. i < q \/ i = q  BY <1>7
    <2> QED  BY <2>2, <2>3, <2>4
  <1>10. list[i].of \in N  BY <1>9 DEF Until
  <1>11. PICK j \in 1..d : other[j].of = list[i].of  BY <1>2, <1>4, <1>10
  <1>12. CASE j < i
    <2>1. j \in 1..c  BY <1>7, <1>12
    <2>2. other[j].of = list[j].of  BY <1>8, <1>12, <2>1 DEF Same
    <2>3. list[j].of < list[i].of  BY <1>1, <1>3, <1>7, <1>12, <2>1
    <2> QED  BY <1>9, <1>11, <2>2, <2>3
  <1>13. CASE j = i
    BY <1>2, <1>7, <1>11, <1>13 DEF Same
  <1>14. CASE j > i
    <2>1. i \in 1..d  BY <1>7, <1>14
    <2>2. other[i].of < list[i].of  BY <1>2, <1>4, <1>11, <1>14, <2>1
    <2>3. other[i].of \in N /\ other[i].of \in Nat  BY <1>2, <1>4, <1>5, <2>1
    <2>4. other[i].of \in M  BY <1>9, <2>2, <2>3 DEF Until
    <2>5. PICK k \in 1..c : list[k].of = other[i].of  BY <1>1, <1>3, <2>4
    <2>6. k < i
      <3>1. i < k \/ i = k => list[i].of <= list[k].of
        BY <1>1, <1>3, <1>7, <1>9, <2>3, <2>5
      <3> QED  BY <1>7, <1>9, <2>2, <2>3, <2>5, <3>1
    <2>7. k \in 1..d /\ other[k].of = list[k].of  BY <1>2, <1>8, <2>5, <2>6 DEF Same
    <2>8. other[k].of < other[i].of  BY <1>2, <1>4, <2>1, <2>6, <2>7
    <2> QED  BY <2>3, <2>5, <2>7, <2>8
  <1> QED  BY <1>7, <1>11, <1>12, <1>13, <1>14

\* The list of a search under way has, up to the endpoints of a settled band,
\* what was known at first and those endpoints.
LEMMA SettledList ==
  ASSUME Types, Lists, Running, NEW ran, ran[1] < ran[2],
         {ran[1], ran[2]} \subseteq Loaded \cup missed, Settled(ran)
  PROVE  Until(ran[2], Loaded) = Until(ran[2], Known) \cup {ran[1], ran[2]}
PROOF
  <1>1. /\ \A m \in found \ Known : m \in {ran[1], ran[2]} \/ m > ran[2]
        /\ \A m \in missed : m > ran[2]
    BY DEF Settled
  <1>2. /\ Known \subseteq found /\ missed \subseteq found /\ Loaded \subseteq found
        /\ Known \subseteq Loaded \cup missed
    BY DEF Lists
  <1>3. found \subseteq Nat  BY TsSearchAssumption DEF Types
  <1>4. ran[1] \in Nat /\ ran[2] \in Nat  BY <1>2, <1>3
  <1>5. ran[1] \in Loaded /\ ran[2] \in Loaded  BY <1>1, <1>2, <1>3, <1>4
  <1>6. \A m \in Loaded : m <= ran[2] => m \in Known \/ m \in {ran[1], ran[2]}
    BY <1>1, <1>2, <1>3, <1>4
  <1>7. \A m \in Known : m <= ran[2] => m \in Loaded
    BY <1>1, <1>2, <1>3, <1>4
  <1>8. ran[1] <= ran[2] /\ ran[2] <= ran[2]  BY <1>4
  <1> QED  BY <1>5, <1>6, <1>7, <1>8 DEF Until

\* A band that a search runs is where it is in the list of that search, in every
\* list that agrees with it that far.
LEMMA BandTraced ==
  ASSUME IInv, TraceInv, Running, NEW k \in DOMAIN pairs, NEW band,
         band.ran = Named(pairs[k])
  PROVE  Traced(pairs[k], band)
PROOF
  <1> DEFINE p == pairs[k]
             n == minima[p[1]].of
             o == minima[p[2]].of
  <1>1. p \in PairIds /\ p[1] \in DOMAIN minima /\ p[2] \in DOMAIN minima
    BY DEF IInv, Types, Selected
  <1>2. Lists /\ Types /\ Loaded \in SUBSET Minima /\ minima \in Sortings(Rows(Loaded))
    BY DEF IInv, Types, TraceInv, Lists
  <1>3. p[1] < p[2]  BY <1>1 DEF PairIds
  <1>4. band.ran = <<n, o>>  BY DEF Named
  <1>5. n \in Loaded /\ o \in Loaded /\ n < o
    BY <1>1, <1>2, <1>3, SortedMinima DEF Loaded
  <1>6. {n, o} \subseteq Seen  BY <1>5 DEF Seen
  <1>7. ASSUME Settled(band.ran)  PROVE Located(p, band.ran)
    <2>1. Until(o, Loaded) = Until(o, Known) \cup {n, o}
      BY <1>2, <1>4, <1>5, <1>7, SettledList
    <2> SUFFICES ASSUME NEW M \in SUBSET Minima, NEW list \in Sortings(Rows(M)),
                        Until(o, M) = Until(o, Known) \cup {n, o}
                 PROVE  /\ p[1] \in DOMAIN list /\ p[2] \in DOMAIN list
                        /\ <<n, o>> = <<list[p[1]].of, list[p[2]].of>>
      BY <1>4 DEF Located
    <2>2. Until(o, Loaded) = Until(o, M)  BY <2>1
    <2>3. \A i \in DOMAIN minima :
            i <= p[2] => i \in DOMAIN list /\ list[i].of = minima[i].of
      BY <1>1, <1>2, <2>2, SamePlaces
    <2>4. p[1] <= p[2] /\ p[2] <= p[2]
      BY <1>1, <1>3, FS_CardinalityType, TsSearchAssumption DEF PairIds, Positions
    <2> QED  BY <1>1, <2>3, <2>4
  <1> QED  BY <1>4, <1>5, <1>6, <1>7 DEF Traced

\* A result that is traced is reported under the names of its endpoints, in
\* whatever search.
LEMMA TracedNamed ==
  ASSUME IInv, TraceInv, Running, NEW k \in DOMAIN pairs, Succeeded(results[k]),
         Settled(results[k].ran)
  PROVE  Named(pairs[k]) = results[k].ran
PROOF
  <1> DEFINE ran == results[k].ran
  <1>1. /\ ran[1] < ran[2] /\ {ran[1], ran[2]} \subseteq Loaded \cup missed
        /\ Located(pairs[k], ran)
    BY DEF TraceInv, TracedResults, Traced, Seen
  <1>2. Lists /\ Types /\ Loaded \in SUBSET Minima /\ minima \in Sortings(Rows(Loaded))
    BY DEF IInv, Types, TraceInv, Lists
  <1>3. Until(ran[2], Loaded) = Until(ran[2], Known) \cup {ran[1], ran[2]}
    BY <1>1, <1>2, SettledList
  <1> QED  BY <1>1, <1>2, <1>3 DEF Located, Named

\* What a step may change without moving anything: minima are found and missed,
\* and a search knows of no fewer.
Grows == found \subseteq found' /\ missed \subseteq missed' /\ Seen \subseteq Seen'

\* What was settled later was so before; what is traced stays so.
LEMMA StillTraced ==
  ASSUME Grows
  PROVE  /\ \A p, result : Traced(p, result) => Traced(p, result)'
         /\ \A edge : Names(edge) => Names(edge)'
PROOF
  <1>1. ASSUME NEW ran, Settled(ran)'  PROVE Settled(ran)
    BY <1>1 DEF Grows, Settled
  <1>2. ASSUME NEW p, NEW result, Traced(p, result)  PROVE Traced(p, result)'
    <2>1. Succeeded(result)' <=> Succeeded(result)  BY DEF Succeeded
    <2>2. Settled(result.ran)' => Settled(result.ran)  BY <1>1
    <2>3. Located(p, result.ran)' <=> Located(p, result.ran)
      BY DEF Located, Sortings, Earlier, Rows, Until
    <2> QED  BY <1>2, <2>1, <2>2, <2>3 DEF Traced, Grows
  <1>3. ASSUME NEW edge, Names(edge)  PROVE Names(edge)'
    <2>1. Settled(edge.ran)' => Settled(edge.ran)  BY <1>1
    <2> QED  BY <1>3, <2>1 DEF Names
  <1> QED  BY <1>2, <1>3

\* Edges and files that were traced are so after a step that grows.
LEMMA TracedAfter ==
  ASSUME Grows
  PROVE  /\ (\A edge \in untagged' \cup saddles' : Names(edge)) => TracedEdges'
         /\ (\A r \in Runs, p \in PairIds : Traced(p, disk'[r][p])) => TracedFiles'
         /\ (\A k \in DOMAIN pairs' : Traced(pairs'[k], results'[k])) => TracedResults'
PROOF
  <1>1. \A p, result : Traced(p, result) => Traced(p, result)'  BY StillTraced
  <1>2. \A edge : Names(edge) => Names(edge)'  BY StillTraced
  <1>3. ASSUME \A edge \in untagged' \cup saddles' : Names(edge)  PROVE TracedEdges'
    BY <1>2, <1>3 DEF TracedEdges
  <1>4. ASSUME \A r \in Runs, p \in PairIds : Traced(p, disk'[r][p])  PROVE TracedFiles'
    <2> SUFFICES ASSUME NEW r \in Runs, NEW p \in PairIds
                 PROVE  Traced(p, disk[r][p])'
      BY DEF TracedFiles, Runs, PairIds, Positions
    <2>1. PICK w : w = disk'[r][p]  OBVIOUS
    <2>2. Traced(p, w)'  BY <1>1, <1>4, <2>1
    <2> QED  BY <2>1, <2>2
  <1>5. ASSUME \A k \in DOMAIN pairs' : Traced(pairs'[k], results'[k])
        PROVE  TracedResults'
    <2> SUFFICES ASSUME NEW k \in DOMAIN pairs'
                 PROVE  Traced(pairs[k], results[k])'
      BY DEF TracedResults
    <2>1. PICK w, p : w = results'[k] /\ p = pairs'[k]  OBVIOUS
    <2>2. Traced(p, w)'  BY <1>1, <1>5, <2>1
    <2> QED  BY <2>1, <2>2
  <1> QED  BY <1>3, <1>4, <1>5

\* The steps that put a result: it is the saved one of its pair, or ran between
\* the minima of its pair in the list of this search.
LEMMA PutTraces ==
  ASSUME IInv, TraceInv, Resume \/ Skip \/ SerialBand \/ ParallelBand \/ Demote
  PROVE  TraceInv'
PROOF
  <1>1. PICK k \in DOMAIN pairs, band \in Bands :
           /\ results' = [results EXCEPT ![k] = band]
           /\ disk' = Saved(pairs[k], band) \/ disk' = disk
           /\ Succeeded(band) =>
                band.ran = Named(pairs[k]) \/ band = disk[run][pairs[k]]
           /\ pc \in {"setup", "neb", "gate"}
           /\ UNCHANGED <<found, saddles, network, summary, bounds, pc, search, untagged>>
    BY PutSteps
  <1>2. UNCHANGED <<parallel, run, minima, pairs, missed>>  BY <1>1 DEF search
  <1>3. Loaded' = Loaded /\ Running /\ Running'  BY <1>1, <1>2 DEF Loaded, Running
  <1>4. Grows  BY <1>1, <1>2, <1>3 DEF Grows, Seen
  <1>5. run \in Runs /\ pairs[k] \in PairIds  BY PutFacts
  <1>6. Traced(pairs[k], band)
    <2>1. CASE ~Succeeded(band)  BY <2>1 DEF Traced
    <2>2. CASE band = disk[run][pairs[k]]  BY <1>5, <2>2 DEF TraceInv, TracedFiles
    <2>3. CASE band.ran = Named(pairs[k])  BY <1>3, <2>3, BandTraced
    <2> QED  BY <1>1, <2>1, <2>2, <2>3
  <1>7. \A l \in DOMAIN pairs' : Traced(pairs'[l], results'[l])
    <2> SUFFICES ASSUME NEW l \in DOMAIN pairs  PROVE Traced(pairs[l], results'[l])
      BY <1>2
    <2>1. results'[l] = IF l = k THEN band ELSE results[l]
      BY <1>1 DEF IInv, Types
    <2>2. Traced(pairs[l], results[l])  BY DEF TraceInv, TracedResults
    <2> QED  BY <1>6, <2>1, <2>2
  <1>8. \A r \in Runs, p \in PairIds : Traced(p, disk'[r][p])
    <2> SUFFICES ASSUME NEW r \in Runs, NEW p \in PairIds  PROVE Traced(p, disk'[r][p])
      OBVIOUS
    <2>1. Traced(p, disk[r][p])  BY DEF TraceInv, TracedFiles
    <2>2. CASE r = run /\ p = pairs[k]
      <3>1. disk'[r][p] = band \/ disk'[r][p] = disk[r][p]  BY <1>1, <2>2, PutFacts
      <3> QED  BY <1>6, <2>1, <2>2, <3>1
    <2>3. CASE r # run \/ p # pairs[k]
      <3>1. disk'[r][p] = disk[r][p]  BY <1>1, <2>3, PutFacts
      <3> QED  BY <2>1, <3>1
    <2> QED  BY <2>2, <2>3
  <1>9. \A edge \in untagged' \cup saddles' : Names(edge)
    BY <1>1 DEF TraceInv, TracedEdges
  <1>10. Lists'  BY <1>1, <1>2, <1>3 DEF TraceInv, Lists, Rows, Sortings, Earlier
  <1> QED  BY <1>4, <1>7, <1>8, <1>9, <1>10, TracedAfter DEF TraceInv

\* The steps that move on, report or find: whatever they name is traced.
LEMMA QuietTraces ==
  ASSUME IInv, TraceInv, UNCHANGED <<disk, minima, pairs, results, missed>>,
         found \subseteq found', Running' => Running,
         \A edge \in untagged' \cup saddles' : Names(edge)
  PROVE  TraceInv'
PROOF
  <1>1. Loaded' = Loaded  BY DEF Loaded
  <1>2. Lists  BY DEF TraceInv
  <1>3. Grows  BY <1>1, <1>2 DEF Grows, Seen, Lists
  <1>4. Lists'  BY <1>1, <1>2 DEF Lists, Rows, Sortings, Earlier
  <1>5. \A k \in DOMAIN pairs' : Traced(pairs'[k], results'[k])
    BY DEF TraceInv, TracedResults
  <1>6. \A r \in Runs, p \in PairIds : Traced(p, disk'[r][p])
    BY DEF TraceInv, TracedFiles
  <1> QED  BY <1>3, <1>4, <1>5, <1>6, TracedAfter DEF TraceInv

\* All steps but those that put a result, begin a search or end one by force.
LEMMA OtherTraces ==
  ASSUME IInv, TraceInv,
         \/ Defer \/ AllSetUp \/ BandsDone \/ Summarise \/ SaveNetwork \/ WriteUnique
         \/ AddRow \/ RowFails \/ Finish \/ Optimise \/ UNCHANGED vars
  PROVE  TraceInv'
PROOF
  <1>1. /\ UNCHANGED <<disk, minima, pairs, results, missed>>
        /\ found \subseteq found' /\ (Running' => Running)
    BY DEF Defer, AllSetUp, BandsDone, Summarise, SaveNetwork, WriteUnique, AddRow,
           RowFails, Finish, Optimise, vars, disks, bounds, search, Running
  <1>2. \A edge \in untagged \cup saddles : Names(edge)
    BY DEF TraceInv, TracedEdges
  <1>3. CASE WriteUnique
    <2>1. untagged' = {Edge(k) : k \in Successes} /\ saddles' = saddles /\ Running
      BY <1>3 DEF WriteUnique, disks, Running
    <2>2. ASSUME NEW k \in Successes  PROVE Names(Edge(k))
      <3>1. k \in DOMAIN pairs /\ Succeeded(results[k])  BY DEF Successes
      <3>2. Settled(results[k].ran) => Named(pairs[k]) = results[k].ran
        BY <2>1, <3>1, TracedNamed
      <3>3. Edge(k).named = Named(pairs[k]) /\ Edge(k).ran = results[k].ran  BY DEF Edge
      <3> QED  BY <3>2, <3>3 DEF Names
    <2>3. \A edge \in untagged' \cup saddles' : Names(edge)  BY <1>2, <2>1, <2>2
    <2> QED  BY <1>1, <2>3, QuietTraces
  <1>4. CASE AddRow
    <2>1. PICK edge \in untagged, db \in Databases :
            /\ saddles' = saddles \cup
                 {[db |-> db, named |-> edge.named, ran |-> edge.ran, good |-> edge.good]}
            /\ untagged' = untagged \ {edge}
      BY <1>4 DEF AddRow
    <2> DEFINE row == [db |-> db, named |-> edge.named, ran |-> edge.ran,
                       good |-> edge.good]
    <2>2. row.named = edge.named /\ row.ran = edge.ran  OBVIOUS
    <2>3. Names(edge)  BY <1>2
    <2>4. Names(row)  BY <2>2, <2>3 DEF Names
    <2>5. \A other \in untagged' \cup saddles' : Names(other)  BY <1>2, <2>1, <2>4
    <2> QED  BY <1>1, <2>5, QuietTraces
  <1>5. CASE ~WriteUnique /\ ~AddRow
    <2>1. untagged' \subseteq untagged /\ saddles' = saddles
      BY <1>5 DEF Defer, AllSetUp, BandsDone, Summarise, SaveNetwork, RowFails, Finish,
                  Optimise, vars, disks
    <2>2. \A edge \in untagged' \cup saddles' : Names(edge)  BY <1>2, <2>1
    <2> QED  BY <1>1, <2>2, QuietTraces
  <1> QED  BY <1>3, <1>4, <1>5

\* A search that dies leaves its files, whose endpoints have been found.
LEMMA CrashTraces == ASSUME IInv, TraceInv, Crash  PROVE TraceInv'
PROOF
  <1>1. /\ UNCHANGED <<found, saddles, disk, missed>> /\ untagged' = {} /\ pairs' = <<>>
        /\ Running /\ ~Running'
    BY DEF Crash, disks, Running
  <1>2. Lists  BY DEF TraceInv
  <1>3. Grows  BY <1>1, <1>2 DEF Grows, Seen, Lists
  <1>4. Lists'  BY <1>1, <1>2 DEF Lists
  <1>5. DOMAIN pairs' = {}  BY <1>1
  <1>6. \A edge \in untagged' \cup saddles' : Names(edge)
    BY <1>1 DEF TraceInv, TracedEdges
  <1>7. \A r \in Runs, p \in PairIds : Traced(p, disk'[r][p])
    BY <1>1 DEF TraceInv, TracedFiles
  <1> QED  BY <1>3, <1>4, <1>5, <1>6, <1>7, TracedAfter DEF TraceInv

\* A search begins with a list of minima; what it leaves out counts as missed,
\* so that no endpoint of a band is lost sight of.
LEMMA StartTraces == ASSUME IInv, TraceInv, Start  PROVE TraceInv'
PROOF
  <1>1. PICK rows \in SUBSET Listed :
          /\ minima' \in Sortings(rows)
          /\ missed' = missed \cup (found \ {row.of : row \in rows})
    BY DEF Start
  <1>2. /\ UNCHANGED <<found, saddles, disk>> /\ untagged' = {}
        /\ ~Running /\ Running'
    BY DEF Start, disks, Running
  <1> DEFINE M == {row.of : row \in rows}
  <1>3. Listed = Rows(found)
    BY DEF Listed, TaggedRows, IsMinimum, Rows
  <1>4. rows = Rows(M) /\ M \subseteq found
    <2>1. \A row \in rows : row.of \in found /\ row = [of |-> row.of, ts |-> FALSE]
      BY <1>3 DEF Rows
    <2> QED  BY <2>1 DEF Rows
  <1>5. M \in SUBSET Minima  BY <1>4 DEF IInv, Types
  <1> HIDE DEF M
  <1>6. minima' \in Sortings(Rows(M))  BY <1>1, <1>4
  <1>7. Loaded' = M
    <2>1. /\ \A i \in DOMAIN minima' : minima'[i].of \in M
          /\ \A m \in M : \E i \in DOMAIN minima' : minima'[i].of = m
      BY <1>5, <1>6, SortedMinima
    <2> QED  BY <2>1 DEF Loaded
  <1>8. Lists  BY DEF TraceInv
  <1>9. missed' = missed \cup (found \ M)  BY <1>1 DEF M
  <1>10. Grows  BY <1>2, <1>7, <1>9 DEF Grows, Seen
  <1>11. Lists'
    BY <1>2, <1>4, <1>6, <1>7, <1>8, <1>9 DEF Lists, Rows, Sortings, Earlier
  <1>12. \A edge \in untagged' \cup saddles' : Names(edge)
    BY <1>2 DEF TraceInv, TracedEdges
  <1>13. \A r \in Runs, p \in PairIds : Traced(p, disk'[r][p])
    BY <1>2 DEF TraceInv, TracedFiles
  <1>14. \A k \in DOMAIN pairs' : Traced(pairs'[k], results'[k])
    <2>1. \A k \in DOMAIN pairs' : results'[k] = Open  BY StartFacts
    <2> QED  BY <2>1, PlainBands DEF Traced
  <1> QED  BY <1>10, <1>11, <1>12, <1>13, <1>14, TracedAfter DEF TraceInv

\* At first there is no result, and no row.
LEMMA InitTraces == Init => TraceInv
PROOF
  <1> SUFFICES ASSUME Init  PROVE TraceInv
    OBVIOUS
  <1>1. Lists  BY DEF Init, Lists, Running
  <1>2. TracedFiles  BY PlainBands DEF Init, TracedFiles, Traced
  <1>3. TracedResults  BY DEF Init, TracedResults
  <1>4. TracedEdges  BY DEF Init, TracedEdges
  <1> QED  BY <1>1, <1>2, <1>3, <1>4 DEF TraceInv
-----------------------------------------------------------------------------
(* The theorems. *)

\* Results and files agree, and what is reported passed the gate, in every
\* reachable state, however many searches share a run directory and die.
THEOREM SearchInvariance == Spec => []IInv
PROOF
  <1>1. IInv /\ [Next]_vars => IInv'
    BY PutPreserves, StartPreserves, MovePreserves, ReportPreserves, OtherPreserves
       DEF Next
  <1> QED  BY InitHolds, <1>1, PTL DEF Spec

\* The gate is not passed by: neither a resumed success nor one of the search
\* itself is reported, or put into a database, unless its structures pass.
THEOREM NothingInvalidIsAccepted == Spec => []AcceptedIsValid
PROOF
  <1>1. IInv => AcceptedIsValid  BY DEF IInv, Gated
  <1> QED  BY <1>1, SearchInvariance, PTL

\* The results, the files of the pairs, the summary and the network of a search
\* that ended have the same successes.
THEOREM OneStory == Spec => []ReportsAgree
PROOF
  <1>1. IInv => ReportsAgree
    <2> SUFFICES ASSUME IInv, pc = "done"
                 PROVE  /\ summary = {pairs[k] : k \in Successes}
                        /\ {edge.pair : edge \in network} = summary
                        /\ \A k \in DOMAIN pairs :
                             Succeeded(results[k]) <=> Succeeded(disk[run][pairs[k]])
      BY DEF ReportsAgree
    <2>1. \A k \in DOMAIN pairs : SameAsOnDisk(k)
      BY DEF IInv, Agreement, Ahead
    <2> QED  BY <2>1 DEF IInv, Reported, SameAsOnDisk
  <1> QED  BY <1>1, SearchInvariance, PTL

\* A band is saved under the positions of its minima in the list of one search
\* and reported from those of another; as long as no minimum that comes before
\* its second endpoint was found since or left out of a list, its row names the
\* minima it ran between, whatever died, resumed or was demoted in between.
THEOREM RowsTraceWhileSettled == Spec => []SettledRowsTrace
PROOF
  <1>1. IInv /\ TraceInv /\ [Next]_vars => TraceInv'
    BY PutTraces, StartTraces, OtherTraces, CrashTraces DEF Next
  <1>2. TraceInv => SettledRowsTrace
    BY DEF TraceInv, TracedEdges, Names, SettledRowsTrace
  <1> QED  BY <1>1, <1>2, InitTraces, SearchInvariance, PTL DEF Spec

\* No step of any search, resumed or not, touches the file of a pair that is
\* done and passes the gate.
THEOREM DoneIsKept == Spec => WorkIsKept
PROOF
  <1> DEFINE Kept == \A r \in Runs, p \in PairIds :
                       Succeeded(disk[r][p]) /\ disk[r][p].good => disk'[r][p] = disk[r][p]
  <1>1. IInv /\ [Next]_vars => Kept
    <2> SUFFICES ASSUME IInv, [Next]_vars, NEW r \in Runs, NEW p \in PairIds,
                        Succeeded(disk[r][p]) /\ disk[r][p].good
                 PROVE  disk'[r][p] = disk[r][p]
      OBVIOUS
    <2>1. CASE Resume \/ Skip \/ SerialBand \/ ParallelBand \/ Demote
      <3>1. PICK k \in DOMAIN pairs, band \in Bands :
              \/ /\ disk' = Saved(pairs[k], band)
                 /\ ~(Succeeded(disk[run][pairs[k]]) /\ disk[run][pairs[k]].good)
              \/ disk' = disk
        BY <2>1, PutSteps
      <3>2. r # run \/ p # pairs[k] => Saved(pairs[k], band)[r][p] = disk[r][p]
        BY PutFacts
      <3> QED  BY <3>1, <3>2
    <2>2. CASE ~(Resume \/ Skip \/ SerialBand \/ ParallelBand \/ Demote)
      <3>1. disk' = disk
        BY <2>2 DEF Next, Start, Defer, AllSetUp, BandsDone, Summarise, SaveNetwork,
                    WriteUnique, AddRow, RowFails, Finish, Optimise, Crash, vars, disks
      <3> QED  BY <3>1
    <2> QED  BY <2>1, <2>2
  <1>2. IInv /\ [Next]_vars => [Kept]_vars  BY <1>1
  <1> QED  BY <1>2, SearchInvariance, PTL DEF Spec, WorkIsKept
-----------------------------------------------------------------------------
(* Chunks of bands. *)

\* The recursion of Filled has a solution, which is what Filled is.
LEMMA FilledFacts ==
  ASSUME NEW bands, NEW costs, Len(costs) \in Nat, NEW budget, NEW cap
  PROVE  LET after == Filled(bands, costs, budget, cap) IN
         /\ after[0] = [chunk |-> 0, atoms |-> 0, size |-> 0]
         /\ \A n \in 1..Len(costs) :
              after[n] = Placed(after[n - 1], n, bands, costs, budget, cap)
PROOF
  <1> DEFINE Zero == [chunk |-> 0, atoms |-> 0, size |-> 0]
             P(last, i) == Placed(last, i, bands, costs, budget, cap)
             Solves(f, n) ==
               f = [i \in 0..n |-> IF i = 0 THEN Zero ELSE P(f[i - 1], i)]
             T == {n \in 0..Len(costs) : ~\E f : Solves(f, n)}
             after == Filled(bands, costs, budget, cap)
  <1>1. after = CHOOSE f : Solves(f, Len(costs))
    BY Zenon DEF Filled
  <1> HIDE DEF P, Zero, after
  <1>2. T = {}
    <2> SUFFICES ASSUME T # {}  PROVE FALSE
      OBVIOUS
    <2>1. PICK n \in T : \A m \in T : n <= m
      <3>1. T \in SUBSET Nat  OBVIOUS
      <3> HIDE DEF T
      <3> QED  BY <3>1, LeastNumber
    <2>2. n \in 0..Len(costs) /\ ~\E f : Solves(f, n)  BY <2>1
    <2>3. CASE n = 0
      <3> DEFINE f == [i \in 0..0 |-> Zero]
      <3>1. Solves(f, 0)  OBVIOUS
      <3> HIDE DEF f, Solves
      <3> QED  BY <2>2, <2>3, <3>1
    <2>4. CASE n # 0
      <3>1. n - 1 \in 0..Len(costs) /\ n - 1 \notin T
        <4>1. n - 1 \in 0..Len(costs) /\ ~(n <= n - 1)  BY <2>2, <2>4
        <4> HIDE DEF T
        <4> QED  BY <2>1, <4>1
      <3>2. PICK f : Solves(f, n - 1)
        <4> HIDE DEF Solves
        <4> QED  BY <3>1
      <3> DEFINE g == [i \in 0..n |-> IF i < n THEN f[i] ELSE P(f[n - 1], n)]
      <3>3. \A i \in 0..(n - 1) : f[i] = IF i = 0 THEN Zero ELSE P(f[i - 1], i)
        BY <3>2
      <3>4. ASSUME NEW i \in 0..n
            PROVE  g[i] = IF i = 0 THEN Zero ELSE P(g[i - 1], i)
        <4>1. CASE i = 0
          <5>1. 0 \in 0..(n - 1) /\ 0 \in 0..n /\ 0 < n  BY <2>2, <2>4
          <5>2. g[0] = f[0]  BY <5>1
          <5> QED  BY <4>1, <5>1, <5>2, <3>3
        <4>2. CASE i # 0 /\ i < n
          <5>1. i \in 0..(n - 1) /\ i - 1 \in 0..n /\ i - 1 < n  BY <2>2, <4>2
          <5>2. g[i] = f[i] /\ g[i - 1] = f[i - 1]  BY <4>2, <5>1
          <5> QED  BY <3>3, <4>2, <5>1, <5>2
        <4>3. CASE i = n
          <5>1. n - 1 \in 0..n /\ n - 1 < n  BY <2>2, <2>4
          <5>2. g[n - 1] = f[n - 1]  BY <5>1
          <5>3. g[n] = P(f[n - 1], n)  BY <2>2
          <5> QED  BY <2>4, <4>3, <5>2, <5>3
        <4> QED  BY <2>2, <4>1, <4>2, <4>3
      <3>5. Solves(g, n)
        <4>1. g = [i \in 0..n |-> g[i]]  OBVIOUS
        <4> HIDE DEF g
        <4> QED  BY <3>4, <4>1
      <3> HIDE DEF g, Solves
      <3> QED  BY <2>2, <3>5
    <2> QED  BY <2>3, <2>4
  <1>3. \E f : Solves(f, Len(costs))
    <2> HIDE DEF Solves
    <2> QED  BY <1>2
  <1>4. Solves(after, Len(costs))
    <2> HIDE DEF Solves
    <2> QED  BY <1>1, <1>3
  <1>5. \A n \in 0..Len(costs) : after[n] = IF n = 0 THEN Zero ELSE P(after[n - 1], n)
    BY <1>4
  <1> HIDE DEF T, Solves
  <1>6. 0 \in 0..Len(costs) /\ \A n \in 1..Len(costs) : n \in 0..Len(costs) /\ n # 0
    OBVIOUS
  <1>7. after[0] = Zero /\ \A n \in 1..Len(costs) : after[n] = P(after[n - 1], n)
    BY <1>5, <1>6
  <1> QED  BY <1>7 DEF P, Zero, after

\* The chunks are numbered from one, in the order of the bands.
LEMMA ChunksAreInOrder ==
  ASSUME NEW bands, NEW costs, Len(costs) \in Nat, NEW budget, NEW cap,
         NEW n \in 0..Len(costs)
  PROVE  LET after == Filled(bands, costs, budget, cap) IN
         /\ after[n].chunk \in Nat
         /\ n \in bands /\ n # 0 => after[n].chunk > 0
         /\ \A k \in 0..n : after[k].chunk \in Nat /\ after[k].chunk <= after[n].chunk
PROOF
  <1> DEFINE after == Filled(bands, costs, budget, cap)
             P(last, i) == Placed(last, i, bands, costs, budget, cap)
             Holds(m) == /\ after[m].chunk \in Nat
                         /\ m \in bands /\ m # 0 => after[m].chunk > 0
                         /\ \A k \in 0..m : /\ after[k].chunk \in Nat
                                            /\ after[k].chunk <= after[m].chunk
             T == {m \in 0..Len(costs) : ~Holds(m)}
  <1>1. after[0].chunk = 0 /\ \A m \in 1..Len(costs) : after[m] = P(after[m - 1], m)
    BY FilledFacts
  <1>2. \A a, i : a.chunk \in Nat =>
          /\ P(a, i).chunk \in Nat /\ a.chunk <= P(a, i).chunk
          /\ i \in bands => P(a, i).chunk > 0
    BY DEF Placed, Opens
  <1> HIDE DEF after, P
  <1>3. T = {}
    <2> SUFFICES ASSUME T # {}  PROVE FALSE
      OBVIOUS
    <2>1. PICK m \in T : \A l \in T : m <= l
      <3>1. T \in SUBSET Nat  OBVIOUS
      <3> HIDE DEF T
      <3> QED  BY <3>1, LeastNumber
    <2>2. m \in 0..Len(costs) /\ ~Holds(m)  BY <2>1
    <2>3. CASE m = 0
      <3>1. \A k \in 0..0 : k = 0  OBVIOUS
      <3> QED  BY <1>1, <2>2, <2>3, <3>1
    <2>4. CASE m # 0
      <3>1. m \in 1..Len(costs) /\ m - 1 \in 0..Len(costs) /\ m - 1 \notin T
        <4>1. m \in 1..Len(costs) /\ m - 1 \in 0..Len(costs) /\ ~(m <= m - 1)
          BY <2>2, <2>4
        <4> HIDE DEF T
        <4> QED  BY <2>1, <4>1
      <3>2. Holds(m - 1)
        <4> HIDE DEF Holds
        <4> QED  BY <3>1
      <3>3. /\ after[m].chunk \in Nat /\ after[m - 1].chunk \in Nat
            /\ after[m - 1].chunk <= after[m].chunk
            /\ m \in bands => after[m].chunk > 0
        BY <1>1, <1>2, <3>1, <3>2
      <3>4. \A k \in 0..m : k = m \/ k \in 0..(m - 1)  BY <3>1
      <3> QED  BY <2>2, <3>2, <3>3, <3>4
    <2> QED  BY <2>3, <2>4
  <1>4. Holds(n)
    <2> HIDE DEF Holds
    <2> QED  BY <1>3
  <1> QED  BY <1>4 DEF after

\* The chunks of some bands: every band is in one of them, and in one only.
THEOREM ChunksPartition ==
  ASSUME NEW costs, Len(costs) \in Nat, NEW bands \in SUBSET (1..Len(costs)),
         NEW budget, NEW cap
  PROVE  LET chunks == ChunkBands(bands, costs, budget, cap) IN
         /\ chunks \in Seq(SUBSET bands)
         /\ \A c, d \in DOMAIN chunks : c # d => chunks[c] \cap chunks[d] = {}
         /\ \A p \in bands : \E c \in DOMAIN chunks : p \in chunks[c]
PROOF
  <1> DEFINE N == Len(costs)
             after == Filled(bands, costs, budget, cap)
             last == after[N].chunk
             chunks == ChunkBands(bands, costs, budget, cap)
  <1>1. chunks = [c \in 1..last |-> {i \in bands : after[i].chunk = c}]
    BY DEF ChunkBands
  <1>2. last \in Nat /\ \A k \in 0..N : after[k].chunk \in Nat /\ after[k].chunk <= last
    <2>1. N \in 0..N  OBVIOUS
    <2> QED  BY <2>1, ChunksAreInOrder
  <1>3. \A i \in bands : after[i].chunk > 0
    <2> SUFFICES ASSUME NEW i \in bands  PROVE after[i].chunk > 0
      OBVIOUS
    <2>1. i \in 0..N /\ i # 0  OBVIOUS
    <2> QED  BY <2>1, ChunksAreInOrder
  <1>4. \A i \in bands : after[i].chunk \in 1..last
    <2>1. \A i \in bands : i \in 0..N  OBVIOUS
    <2> HIDE DEF after, last
    <2> QED  BY <1>2, <1>3, <2>1
  <1> HIDE DEF after, last, chunks
  <1>5. chunks \in [1..last -> SUBSET bands] /\ DOMAIN chunks = 1..last
    BY <1>1
  <1>6. chunks \in Seq(SUBSET bands)  BY <1>2, <1>5
  <1>7. \A c, d \in DOMAIN chunks : c # d => chunks[c] \cap chunks[d] = {}
    BY <1>1
  <1>8. \A p \in bands : \E c \in DOMAIN chunks : p \in chunks[c]
    BY <1>1, <1>4
  <1> QED  BY <1>6, <1>7, <1>8 DEF chunks

\* The cost of a chunk, summed up to each index.
SumsUp(w, part, costs) ==
  /\ \A n \in 0..Len(costs) : w[n] \in Nat
  /\ w[0] = 0
  /\ \A n \in 1..Len(costs) :
       w[n] = IF n \in part THEN w[n - 1] + costs[n] ELSE w[n - 1]

\* What has become of chunk c after the first n indices: nothing yet, or as
\* many bands as counted, of no more atoms than counted; within the cap and,
\* but for a band by itself, within the budget.
ChunkSoFar(a, c, part, weight, budget, cap) ==
  /\ a.chunk \in Nat /\ a.atoms \in Nat /\ a.size \in Nat
  /\ IsFiniteSet(part)
  /\ a.chunk < c => part = {} /\ weight = 0
  /\ a.chunk = c => Cardinality(part) = a.size /\ weight <= a.atoms
  /\ budget > 0 => /\ a.chunk = c => a.atoms <= budget \/ a.size = 1
                   /\ weight <= budget \/ Cardinality(part) = 1
  /\ cap > 0 => Cardinality(part) <= cap

\* One more index.
LEMMA ChunkGrows ==
  ASSUME NEW a, NEW b, NEW c \in Nat \ {0}, NEW part, NEW part2,
         NEW u \in Nat, NEW v \in Nat, NEW budget \in Int, NEW cap \in Int,
         NEW bands, NEW costs, NEW n, costs[n] \in Nat, n \notin part,
         b = Placed(a, n, bands, costs, budget, cap),
         ChunkSoFar(a, c, part, u, budget, cap),
         IF n \in bands /\ b.chunk = c
           THEN part2 = part \cup {n} /\ v = u + costs[n]
           ELSE part2 = part /\ v = u
  PROVE  ChunkSoFar(b, c, part2, v, budget, cap)
PROOF
  <1> USE DEF ChunkSoFar
  <1>1. CASE n \notin bands
    <2>1. b = a /\ part2 = part /\ v = u  BY <1>1 DEF Placed
    <2> QED  BY <2>1
  <1>2. CASE n \in bands
    <2> DEFINE cost == costs[n]
    <2>1. a.chunk \in Nat /\ a.atoms \in Nat /\ a.size \in Nat /\ cost \in Nat
      OBVIOUS
    <2>2. \/ b = [chunk |-> a.chunk + 1, atoms |-> cost, size |-> 1]
          \/ /\ b = [chunk |-> a.chunk + 1, atoms |-> a.atoms + cost, size |-> 1]
             /\ budget > 0 => a.atoms + cost <= budget
             /\ cap > 0
          \/ /\ b = [chunk |-> a.chunk, atoms |-> a.atoms + cost, size |-> a.size + 1]
             /\ budget > 0 => a.atoms + cost <= budget
             /\ cap > 0 => a.size # cap
      BY <1>2, <2>1 DEF Placed, Opens, IsFull
    <2>3. CASE b.chunk # c
      <3>1. part2 = part /\ v = u /\ b.chunk \in Nat /\ b.atoms \in Nat /\ b.size \in Nat
        BY <2>1, <2>2, <2>3
      <3>2. b.chunk < c => a.chunk < c  BY <2>1, <2>2
      <3> QED  BY <2>3, <3>1, <3>2
    <2>4. CASE b.chunk = c /\ a.chunk < c
      <3>1. part = {} /\ u = 0 /\ part2 = {n} /\ v = cost  BY <1>2, <2>4
      <3>2. IsFiniteSet(part2) /\ Cardinality(part2) = 1  BY <3>1, FS_Singleton
      <3>3. /\ b.chunk \in Nat /\ b.atoms \in Nat /\ b.size = 1 /\ cost <= b.atoms
        BY <2>1, <2>2, <2>4
      <3> QED  BY <2>4, <3>1, <3>2, <3>3
    <2>5. CASE b.chunk = c /\ ~(a.chunk < c)
      <3>1. /\ a.chunk = c /\ b.atoms = a.atoms + cost /\ b.size = a.size + 1
            /\ budget > 0 => b.atoms <= budget
            /\ cap > 0 => a.size # cap
        BY <2>1, <2>2, <2>5
      <3>2. part2 = part \cup {n} /\ v = u + cost /\ Cardinality(part) = a.size /\ u <= a.atoms
        BY <1>2, <2>5, <3>1
      <3>3. IsFiniteSet(part2) /\ Cardinality(part2) = b.size
        BY <3>1, <3>2, FS_AddElement
      <3>4. cap > 0 => b.size <= cap  BY <2>1, <3>1, <3>2
      <3>5. v <= b.atoms  BY <2>1, <3>1, <3>2
      <3>6. b.chunk \in Nat /\ b.atoms \in Nat /\ b.size \in Nat  BY <2>1, <2>5, <3>1
      <3>7. budget > 0 => v <= budget  BY <3>1, <3>5, <3>6
      <3> QED  BY <2>5, <3>1, <3>3, <3>4, <3>5, <3>6, <3>7
    <2> QED  BY <2>3, <2>4, <2>5
  <1> QED  BY <1>1, <1>2

\* A chunk of more than one band is within the budget, and no chunk has more
\* bands than the cap: what is allocated at once fits the device if one band
\* does.
THEOREM ChunksFit ==
  ASSUME NEW costs \in Seq(Nat), NEW bands \in SUBSET (1..Len(costs)),
         NEW budget \in Int, NEW cap \in Int,
         NEW c \in DOMAIN ChunkBands(bands, costs, budget, cap),
         NEW w, SumsUp(w, ChunkBands(bands, costs, budget, cap)[c], costs)
  PROVE  LET mine == ChunkBands(bands, costs, budget, cap)[c] IN
         /\ budget > 0 => w[Len(costs)] <= budget \/ Cardinality(mine) = 1
         /\ cap > 0 => Cardinality(mine) <= cap
PROOF
  <1> DEFINE N == Len(costs)
             after == Filled(bands, costs, budget, cap)
             own == ChunkBands(bands, costs, budget, cap)[c]
             part(n) == {i \in own : i <= n}
             Holds(n) == ChunkSoFar(after[n], c, part(n), w[n], budget, cap)
             T == {n \in 0..N : ~Holds(n)}
  <1>1. N \in Nat /\ \A n \in 1..N : costs[n] \in Nat  OBVIOUS
  <1>2. /\ ChunkBands(bands, costs, budget, cap) =
             [d \in 1..after[N].chunk |-> {i \in bands : after[i].chunk = d}]
    BY DEF ChunkBands
  <1>3. c \in 1..after[N].chunk /\ own = {i \in bands : after[i].chunk = c}
    BY <1>2
  <1>4. c \in Nat \ {0} /\ own \subseteq 1..N
    <2>1. N \in 0..N  BY <1>1
    <2>2. after[N].chunk \in Nat  BY <1>1, <2>1, ChunksAreInOrder
    <2>3. bands \subseteq 1..N  OBVIOUS
    <2> HIDE DEF after, own, N
    <2>4. c \in Nat \ {0}  BY <1>3, <2>2
    <2> QED  BY <1>3, <2>3, <2>4
  <1>5. /\ after[0] = [chunk |-> 0, atoms |-> 0, size |-> 0]
        /\ \A n \in 1..N : after[n] = Placed(after[n - 1], n, bands, costs, budget, cap)
    BY <1>1, FilledFacts
  <1> HIDE DEF after, own, N
  <1>6. /\ \A n \in 0..N : w[n] \in Nat
        /\ w[0] = 0
        /\ \A n \in 1..N : w[n] = IF n \in own THEN w[n - 1] + costs[n] ELSE w[n - 1]
    BY DEF SumsUp, own, N
  <1>7. \A i \in own : i \in Nat /\ 0 < i /\ i <= N  BY <1>1, <1>4
  <1>8. T = {}
    <2> SUFFICES ASSUME T # {}  PROVE FALSE
      OBVIOUS
    <2>1. PICK n \in T : \A m \in T : n <= m
      <3>1. T \in SUBSET Nat  BY <1>1
      <3> HIDE DEF T
      <3> QED  BY <3>1, LeastNumber
    <2>2. n \in 0..N /\ ~Holds(n)  BY <2>1
    <2>3. CASE n = 0
      <3>1. part(0) = {}  BY <1>7
      <3>2. IsFiniteSet({}) /\ Cardinality({}) = 0  BY FS_EmptySet
      <3>3. ChunkSoFar([chunk |-> 0, atoms |-> 0, size |-> 0], c, {}, 0, budget, cap)
        BY <1>4, <3>2 DEF ChunkSoFar
      <3> QED  BY <1>5, <1>6, <2>2, <2>3, <3>1, <3>3
    <2>4. CASE n # 0
      <3>1. n \in 1..N /\ n - 1 \in 0..N /\ n - 1 \notin T
        <4>1. n \in 1..N /\ n - 1 \in 0..N /\ ~(n <= n - 1)  BY <1>1, <2>2, <2>4
        <4> HIDE DEF T
        <4> QED  BY <2>1, <4>1
      <3>2. Holds(n - 1)
        <4> HIDE DEF Holds
        <4> QED  BY <3>1
      <3>3. n \in own <=> n \in bands /\ after[n].chunk = c  BY <1>3
      <3>4. n \notin part(n - 1)  BY <1>1, <3>1
      <3>5. IF n \in own THEN part(n) = part(n - 1) \cup {n} ELSE part(n) = part(n - 1)
        <4>1. n \in Nat \ {0}  BY <1>1, <3>1
        <4>2. \A i \in own : i <= n <=> i <= n - 1 \/ i = n  BY <1>7, <4>1
        <4>3. ~(n <= n - 1)  BY <4>1
        <4> QED  BY <4>2, <4>3
      <3>6. w[n] \in Nat /\ w[n - 1] \in Nat /\ costs[n] \in Nat
        BY <1>1, <1>6, <3>1
      <3>7. IF n \in bands /\ after[n].chunk = c
              THEN part(n) = part(n - 1) \cup {n} /\ w[n] = w[n - 1] + costs[n]
              ELSE part(n) = part(n - 1) /\ w[n] = w[n - 1]
        BY <1>6, <3>1, <3>3, <3>5
      <3>8. after[n] = Placed(after[n - 1], n, bands, costs, budget, cap)
        BY <1>5, <3>1
      <3>9. ChunkSoFar(after[n - 1], c, part(n - 1), w[n - 1], budget, cap)  BY <3>2
      <3> DEFINE a == after[n - 1]
                 b == after[n]
                 before == part(n - 1)
                 with == part(n)
                 u == w[n - 1]
                 v == w[n]
      <3> HIDE DEF a, b, before, with, u, v, part
      <3>10. /\ u \in Nat /\ v \in Nat /\ costs[n] \in Nat /\ n \notin before
             /\ b = Placed(a, n, bands, costs, budget, cap)
             /\ ChunkSoFar(a, c, before, u, budget, cap)
        BY <3>4, <3>6, <3>8, <3>9 DEF a, b, before, u, v
      <3>11. IF n \in bands /\ b.chunk = c
               THEN with = before \cup {n} /\ v = u + costs[n]
               ELSE with = before /\ v = u
        BY <3>7 DEF b, before, with, u, v
      <3>12. ChunkSoFar(b, c, with, v, budget, cap)
        BY <1>4, <3>10, <3>11, ChunkGrows
      <3> QED  BY <2>2, <3>12 DEF b, with, v
    <2> QED  BY <2>3, <2>4
  <1>9. Holds(N)
    <2>1. N \in 0..N  BY <1>1
    <2> HIDE DEF Holds
    <2> QED  BY <1>8, <2>1
  <1>10. part(N) = own  BY <1>7
  <1>11. /\ budget > 0 => w[N] <= budget \/ Cardinality(own) = 1
         /\ cap > 0 => Cardinality(own) <= cap
    BY <1>9, <1>10 DEF ChunkSoFar
  <1> QED  BY <1>11 DEF own, N
-----------------------------------------------------------------------------
(* The invariant of the search. *)

Errors ==
  {"none", "invalid", "evaluation", "nonfinite", "step", "unconverged", "unprocessed",
   "refresh", "oom", "endpoint", "absurd", "unreadable", "unclassified", "setup", "run",
   "unread"}
BandSummaries == [converged : BOOLEAN, failed : BOOLEAN, error : Errors, steps : Nat]
PairResults == [status : {"none", "success", "failed", "skipped"},
                converged : BOOLEAN, error : Errors, steps : Nat]

NebTypes ==
  /\ saved \in [Pairs -> PairResults]
  /\ summaries \in [Pairs -> BandSummaries] /\ first \in [Pairs -> BandSummaries]
  /\ kind \in [Pairs -> {"new", "resumed", "skipped", "single", "two"}]
  /\ force \in [Pairs -> {"stale", "low", "high", "nan"}]
  /\ todo \in Seq(SUBSET Pairs) /\ retries \in Seq(SUBSET Pairs)
  /\ chunk \subseteq Pairs /\ call \subseteq Pairs /\ batch \subseteq Pairs
  /\ active \subseteq Pairs /\ climb \subseteq Pairs
  /\ stage \in {"single", "relax", "climb"} /\ count \in Nat

\* A chunk of the parallel search, or a pair of the serial one, is under way.
Batching == phase \in {"step", "close", "closed", "save"}
Solo == phase \in {"run", "judge", "finalize"}
Underway == Batching \/ Solo

\* Nothing is saved before the search but what was found or turned down.
Prepared ==
  /\ phase = "setup" => \A p \in Pairs : saved[p] = NoResult
  /\ phase = "screen" => \A p \in Pairs :
       /\ kind[p] \in {"resumed", "skipped", "single"}
       /\ kind[p] = "single" => saved[p].status = "none"
       /\ saved[p].status = "success" => kind[p] = "resumed"

\* A pair waits in one place, or is under way, or has its result.
OnePlace ==
  phase \in {"chunk", "pair"} \/ Underway =>
    /\ \A i \in DOMAIN todo : \A p \in todo[i] :
         saved[p].status = "none" /\ (Underway => p \notin chunk)
    /\ \A i, k \in DOMAIN todo : i # k => todo[i] \cap todo[k] = {}
    /\ Underway => \A p \in chunk : saved[p].status = "none"

\* Two stages are for budgets that can be halved; the climbing image is on
\* from the start, or for the second one.
Staged ==
  /\ phase = "chunk" \/ Batching =>
       \A i \in DOMAIN todo : \A p \in todo[i] :
         \/ kind[p] = "single" /\ p \in climb
         \/ kind[p] = "two" /\ NebSteps >= 4
  /\ Underway => IF stage = "relax" THEN NebSteps >= 4 ELSE chunk \subseteq climb
  /\ phase \in {"save", "judge", "finalize"} => stage # "relax"

\* A band has converged or says why not.
Explained(p) == summaries[p].converged \/ summaries[p].error # "none"

\* Every band of a chunk is in the running batch, in one to come, or explained.
Covered ==
  Batching =>
    /\ call \subseteq chunk
    /\ stage # "climb" => call = chunk
    /\ \A p \in chunk \ call : ~summaries[p].converged /\ Explained(p)
    /\ \A p \in call :
         \/ phase \in {"step", "close"} /\ p \in batch
         \/ phase # "save" /\ \E i \in DOMAIN retries : p \in retries[i]
         \/ Explained(p)
    /\ phase # "save" =>
         batch \subseteq call /\ \A i \in DOMAIN retries : retries[i] \subseteq call

\* What a summary says of its band, and the bands still stepped.
Stepped ==
  /\ \A p \in Pairs : summaries[p].converged => force[p] = "low"
  /\ Batching => \A p \in chunk :
       summaries[p].converged => summaries[p].steps > 0 /\ ~summaries[p].failed
  /\ phase = "step" =>
       /\ active \subseteq batch
       /\ \A p \in active :
            ~summaries[p].converged /\ ~summaries[p].failed /\ count < BandLimit(p)
  /\ phase \in {"step", "close"} =>
       \A p \in batch : summaries[p].failed => summaries[p].error # "none"

WithinLimits ==
  /\ Underway /\ stage = "climb" => \A p \in chunk : first[p].steps <= NebSteps \div 2
  /\ Batching => \A p \in chunk :
       summaries[p].steps <= IF p \in call THEN BandLimit(p) ELSE NebSteps

\* A pair of the serial search, from its optimizer to its verdict.
Alone ==
  Solo =>
    \E p \in Pairs :
      /\ chunk = {p}
      /\ phase = "run" =>
           /\ ~summaries[p].converged
           /\ summaries[p].steps = IF stage = "climb" THEN first[p].steps ELSE 0
      /\ phase = "judge" => ~summaries[p].converged
      /\ phase \in {"judge", "finalize"} => summaries[p].steps <= NebSteps
      /\ phase = "finalize" => Explained(p)

NebProperties == SuccessIsEarned /\ StepsWithinBudget /\ FailuresSayWhy

NebInv ==
  /\ NebTypes /\ Prepared /\ OnePlace /\ Staged /\ Covered /\ Stepped
  /\ WithinLimits /\ Alone /\ NebProperties

\* Every band may make a step.
LEMMA LimitsArePositive ==
  ASSUME NebTypes, stage = "relax" => NebSteps >= 4,
         stage = "climb" => \A p \in chunk : first[p].steps <= NebSteps \div 2,
         NEW p \in chunk
  PROVE  /\ BandLimit(p) \in Nat \ {0} /\ BandLimit(p) <= NebSteps
         /\ stage = "relax" => BandLimit(p) = NebSteps \div 2
         /\ stage = "climb" => BandLimit(p) + first[p].steps = NebSteps
PROOF
  <1>1. NebSteps \in Nat \ {0}  BY ParallelNebAssumption
  <1>2. first[p].steps \in Nat  BY DEF NebTypes, BandSummaries
  <1>3. CASE stage = "single"  BY <1>1, <1>3 DEF BandLimit
  <1>4. CASE stage = "relax"  BY <1>1, <1>4 DEF BandLimit
  <1>5. CASE stage = "climb"
    <2>1. first[p].steps <= NebSteps \div 2  BY <1>5
    <2>2. BandLimit(p) = ClimbBudget(p)  BY <1>5 DEF BandLimit
    <2> QED  BY <1>1, <1>2, <1>5, <2>1, <2>2 DEF ClimbBudget
  <1> QED  BY <1>3, <1>4, <1>5 DEF NebTypes

\* Nothing has run yet.
LEMMA NebInitInv == NebInit => NebInv
PROOF
  <1> SUFFICES ASSUME NebInit  PROVE NebInv
    OBVIOUS
  <1> USE DEF NebInit
  <1>1. NebTypes
    <2>1. NoResult \in PairResults /\ Fresh \in BandSummaries
      BY DEF NoResult, Fresh, PairResults, BandSummaries, Errors
    <2>2. todo \in Seq(SUBSET Pairs) /\ retries \in Seq(SUBSET Pairs)  OBVIOUS
    <2> QED  BY <2>1, <2>2 DEF NebTypes
  <1>2. Prepared /\ OnePlace /\ Staged /\ Covered /\ WithinLimits /\ Alone
    BY DEF Prepared, OnePlace, Staged, Covered, WithinLimits, Alone, Underway, Batching, Solo
  <1>3. Stepped  BY DEF Stepped, Batching, Fresh
  <1>4. NebProperties
    BY ParallelNebAssumption
    DEF NebProperties, SuccessIsEarned, StepsWithinBudget, FailuresSayWhy, NoResult
  <1> QED  BY <1>1, <1>2, <1>3, <1>4 DEF NebInv

-----------------------------------------------------------------------------
(* Steps of a chunk or pair under way. *)

\* Pairs that wait, and results, are left alone by what happens to a chunk.
LEMMA InnerStep ==
  ASSUME NebInv, Underway, Underway', Batching' => Batching,
         UNCHANGED <<saved, kind, todo, chunk>>, climb \subseteq climb',
         \A p \in Pairs \ chunk : force'[p] = force[p]
  PROVE  /\ Prepared' /\ OnePlace' /\ NebProperties'
         /\ (phase = "chunk" \/ Batching)' =>
              \A i \in DOMAIN todo' : \A p \in todo'[i] :
                \/ kind'[p] = "single" /\ p \in climb'
                \/ kind'[p] = "two" /\ NebSteps >= 4
PROOF
  <1>1. Prepared'  BY DEF Prepared, Underway, Batching, Solo
  <1>2. OnePlace'  BY DEF NebInv, OnePlace
  <1>3. \A p \in Pairs : saved[p].status = "success" => p \notin chunk
    BY DEF NebInv, OnePlace
  <1>4. NebProperties'
    BY <1>3 DEF NebInv, NebProperties, SuccessIsEarned, StepsWithinBudget, FailuresSayWhy
  <1>5. (phase = "chunk" \/ Batching)' => Batching
    BY DEF Underway, Batching, Solo
  <1> QED  BY <1>1, <1>2, <1>4, <1>5 DEF NebInv, Staged

\* Where a band's own summary and the bands of the batch are all that changes,
\* what has to be shown is about them.
LEMMA BatchStep ==
  ASSUME NebInv, phase \in {"step", "close"}, phase' \in {"step", "close", "closed"},
         UNCHANGED <<saved, kind, todo, chunk, call, stage, retries, retrying, batch,
                     first, climb>>,
         summaries' \in [Pairs -> BandSummaries], count' \in Nat, active' \subseteq Pairs,
         force' \in [Pairs -> {"stale", "low", "high", "nan"}],
         \A p \in Pairs \ batch : summaries'[p] = summaries[p] /\ force'[p] = force[p],
         \A p \in batch :
           /\ summaries'[p].converged =>
                force'[p] = "low" /\ summaries'[p].steps > 0 /\ ~summaries'[p].failed
           /\ summaries'[p].steps <= BandLimit(p)
           /\ IF phase' = "closed" THEN Explained(p)'
              ELSE summaries'[p].failed => summaries'[p].error # "none",
         phase' = "step" =>
           /\ active' \subseteq batch
           /\ \A p \in active' :
                ~summaries'[p].converged /\ ~summaries'[p].failed /\ count' < BandLimit(p)
  PROVE  NebInv'
PROOF
  <1>1. /\ Batching /\ Batching' /\ Underway /\ Underway' /\ ~Solo' /\ phase # "save"
    BY DEF Underway, Batching, Solo
  <1>2. batch \subseteq call /\ call \subseteq chunk /\ chunk \subseteq Pairs
    BY <1>1 DEF NebInv, Covered, NebTypes
  <1>3. Prepared' /\ OnePlace' /\ NebProperties' /\ Staged'
    <2>1. \A p \in Pairs \ chunk : force'[p] = force[p]  BY <1>2
    <2>2. phase' \notin {"save", "judge", "finalize"}  OBVIOUS
    <2>3. Underway => IF stage = "relax" THEN NebSteps >= 4 ELSE chunk \subseteq climb
      BY DEF NebInv, Staged
    <2> QED  BY <1>1, <2>1, <2>2, <2>3, InnerStep DEF Staged
  <1>4. NebTypes'  BY <1>2 DEF NebInv, NebTypes
  <1>5. \A p \in Pairs : BandLimit(p)' = BandLimit(p)  BY DEF BandLimit, ClimbBudget
  <1>6. \A p \in Pairs \ batch : Explained(p)' = Explained(p)  BY DEF Explained
  <1>7. Covered'
    <2>1. \A p \in chunk \ call : ~summaries'[p].converged /\ Explained(p)'
      BY <1>1, <1>2, <1>6 DEF NebInv, Covered
    <2>2. ASSUME NEW p \in call
          PROVE  \/ phase' \in {"step", "close"} /\ p \in batch
                 \/ \E i \in DOMAIN retries : p \in retries[i]
                 \/ Explained(p)'
      <3>1. CASE p \in batch  BY <3>1
      <3>2. CASE p \notin batch  BY <1>1, <1>2, <1>6, <3>2 DEF NebInv, Covered
      <3> QED  BY <3>1, <3>2
    <2> QED  BY <1>1, <2>1, <2>2 DEF NebInv, Covered
  <1>8. Stepped'
    <2>1. \A p \in Pairs : summaries'[p].converged => force'[p] = "low"
      BY DEF NebInv, Stepped
    <2>2. \A p \in chunk : summaries'[p].converged =>
            summaries'[p].steps > 0 /\ ~summaries'[p].failed
      BY <1>1, <1>2 DEF NebInv, Stepped
    <2> QED  BY <1>1, <1>2, <1>5, <2>1, <2>2 DEF Stepped
  <1>9. WithinLimits'
    BY <1>1, <1>2, <1>5 DEF NebInv, WithinLimits
  <1>10. Alone'  BY <1>1 DEF Alone
  <1> QED  BY <1>3, <1>4, <1>7, <1>8, <1>9, <1>10 DEF NebInv

\* What is known of the bands of a running batch.
LEMMA InBatch ==
  ASSUME NebInv, phase \in {"step", "close"}
  PROVE  /\ batch \subseteq call /\ call \subseteq chunk /\ chunk \subseteq Pairs
         /\ \A p \in batch :
              /\ BandLimit(p) \in Nat \ {0} /\ summaries[p].steps <= BandLimit(p)
              /\ summaries[p] \in BandSummaries
              /\ summaries[p].converged =>
                   force[p] = "low" /\ summaries[p].steps > 0 /\ ~summaries[p].failed
              /\ summaries[p].failed => summaries[p].error # "none"
         /\ phase = "step" =>
              /\ active \subseteq batch
              /\ \A p \in active :
                   ~summaries[p].converged /\ ~summaries[p].failed /\ count < BandLimit(p)
PROOF
  <1>1. Batching /\ Underway /\ phase # "save"  BY DEF Underway, Batching
  <1>2. batch \subseteq call /\ call \subseteq chunk /\ chunk \subseteq Pairs
    BY <1>1 DEF NebInv, Covered, NebTypes
  <1>3. \A p \in batch : BandLimit(p) \in Nat \ {0}
    BY <1>1, <1>2, LimitsArePositive DEF NebInv, Staged, WithinLimits
  <1>4. \A p \in batch : summaries[p].steps <= BandLimit(p)
    BY <1>1, <1>2 DEF NebInv, WithinLimits
  <1>5. \A p \in batch : summaries[p] \in BandSummaries  BY <1>2 DEF NebInv, NebTypes
  <1> QED  BY <1>1, <1>2, <1>3, <1>4, <1>5 DEF NebInv, Stepped

\* A failed evaluation: every band that was stepped has failed, and says so.
LEMMA EvaluationFailsKeeps == NebInv /\ EvaluationFails => NebInv'
PROOF
  <1> SUFFICES ASSUME NebInv, EvaluationFails  PROVE NebInv'
    OBVIOUS
  <1>1. /\ phase = "step" /\ phase' = "close"
        /\ UNCHANGED <<saved, kind, todo, chunk, call, stage, retries, retrying, batch,
                       active, count, first, climb, force>>
    BY DEF EvaluationFails, chunkVars, batchVars
  <1>2. \A p \in Pairs :
          summaries'[p] = IF p \in active
            THEN [summaries[p] EXCEPT !.failed = TRUE, !.error = "evaluation"]
            ELSE summaries[p]
    BY DEF EvaluationFails
  <1>3. summaries' \in [Pairs -> BandSummaries]
    <2>1. summaries' = [p \in Pairs |-> summaries'[p]]  BY DEF EvaluationFails
    <2>2. ASSUME NEW p \in Pairs  PROVE summaries'[p] \in BandSummaries
      <3>1. summaries[p] \in BandSummaries  BY DEF NebInv, NebTypes
      <3>2. [summaries[p] EXCEPT !.failed = TRUE, !.error = "evaluation"] \in BandSummaries
        BY <3>1 DEF BandSummaries, Errors
      <3> QED  BY <1>2, <3>1, <3>2
    <2> QED  BY <2>1, <2>2
  <1>4. ASSUME NEW p \in batch
        PROVE  /\ summaries'[p].converged => 
                    force'[p] = "low" /\ summaries'[p].steps > 0 /\ ~summaries'[p].failed
               /\ summaries'[p].steps <= BandLimit(p)
               /\ summaries'[p].failed => summaries'[p].error # "none"
    BY <1>1, <1>2, InBatch DEF BandSummaries
  <1>5. \A p \in Pairs \ batch : summaries'[p] = summaries[p]  BY <1>1, <1>2, InBatch
  <1>6. active \subseteq Pairs /\ count \in Nat
        /\ force \in [Pairs -> {"stale", "low", "high", "nan"}]
    BY <1>1, InBatch DEF NebInv, NebTypes
  <1> QED  BY <1>1, <1>3, <1>4, <1>5, <1>6, BatchStep

\* One step of every active band: what converged has a low force, what goes on
\* has steps left.
LEMMA StepKeeps == NebInv /\ Step => NebInv'
PROOF
  <1> SUFFICES ASSUME NebInv, Step  PROVE NebInv'
    OBVIOUS
  <1>1. /\ phase = "step" /\ phase' \in {"step", "close"} /\ count' = count + 1
        /\ UNCHANGED <<saved, kind, todo, chunk, call, stage, retries, retrying, batch,
                       first, climb>>
    BY DEF Step, chunkVars, batchVars
  <1>2. PICK parts \in [active -> Parts] :
          /\ summaries' = [p \in Pairs |->
               IF p \in active THEN After(p, parts[p]) ELSE summaries[p]]
          /\ Move(parts, active)
          /\ active' = {p \in active : parts[p] = "high" /\ count + 1 < BandLimit(p)}
    BY DEF Step
  <1>3. active \subseteq batch /\ batch \subseteq Pairs /\ count \in Nat
    BY <1>1, InBatch DEF NebInv, NebTypes
  <1>4. \A p \in Pairs :
          force'[p] = IF p \notin active THEN force[p]
                      ELSE IF parts[p] \in {"low", "nan"} THEN parts[p] ELSE "stale"
    BY <1>2 DEF Move
  <1>5. force' \in [Pairs -> {"stale", "low", "high", "nan"}]
    <2>1. force' = [p \in Pairs |-> force'[p]]  BY <1>2 DEF Move
    <2>2. \A p \in Pairs : force'[p] \in {"stale", "low", "high", "nan"}
      BY <1>4 DEF NebInv, NebTypes
    <2> QED  BY <2>1, <2>2
  <1>6. ASSUME NEW p \in active
        PROVE  /\ summaries'[p] \in BandSummaries
               /\ summaries'[p].steps <= BandLimit(p)
               /\ summaries'[p].converged => 
                    force'[p] = "low" /\ summaries'[p].steps > 0 /\ ~summaries'[p].failed
               /\ summaries'[p].failed => summaries'[p].error # "none"
               /\ parts[p] = "high" => ~summaries'[p].converged /\ ~summaries'[p].failed
    <2> DEFINE s == [summaries[p] EXCEPT
                       !.steps = IF parts[p] = "unread" THEN @ ELSE count + 1]
    <2>1. /\ ~summaries[p].converged /\ ~summaries[p].failed /\ count < BandLimit(p)
          /\ summaries[p] \in BandSummaries /\ summaries[p].steps <= BandLimit(p)
          /\ BandLimit(p) \in Nat
      BY <1>1, <1>3, InBatch
    <2>2. /\ s \in BandSummaries /\ ~s.converged /\ ~s.failed /\ s.steps <= BandLimit(p)
          /\ parts[p] # "unread" => s.steps > 0
      BY <1>3, <2>1 DEF BandSummaries
    <2>3. summaries'[p] = CASE parts[p] = "low" -> [s EXCEPT !.converged = TRUE]
                            [] parts[p] = "high" -> s
                            [] parts[p] = "nan" -> Fail(s, "nonfinite")
                            [] OTHER -> [s EXCEPT !.failed = TRUE, !.error = "step"]
      BY <1>2, <1>3 DEF After
    <2>4. p \in Pairs  BY <1>3
    <2> HIDE DEF s
    <2>5. CASE parts[p] = "low"
      <3>1. force'[p] = "low"  BY <1>4, <2>4, <2>5
      <3> QED  BY <2>2, <2>3, <2>5, <3>1 DEF BandSummaries
    <2>6. CASE parts[p] = "high"  BY <2>2, <2>3, <2>6
    <2>7. CASE parts[p] = "nan"
      BY <2>2, <2>3, <2>7 DEF BandSummaries, Fail, Errors
    <2>8. CASE parts[p] \notin {"low", "high", "nan"}
      BY <2>2, <2>3, <2>8 DEF BandSummaries, Errors
    <2> QED  BY <2>5, <2>6, <2>7, <2>8
  <1>7. \A p \in Pairs \ active : summaries'[p] = summaries[p] /\ force'[p] = force[p]
    BY <1>2, <1>4
  <1>8. summaries' \in [Pairs -> BandSummaries]
    <2>1. summaries' = [p \in Pairs |-> summaries'[p]]  BY <1>2
    <2>2. \A p \in Pairs : summaries'[p] \in BandSummaries
      BY <1>6, <1>7 DEF NebInv, NebTypes
    <2> QED  BY <2>1, <2>2
  <1>9. \A p \in batch :
          /\ summaries'[p].converged => 
               force'[p] = "low" /\ summaries'[p].steps > 0 /\ ~summaries'[p].failed
          /\ summaries'[p].steps <= BandLimit(p)
          /\ summaries'[p].failed => summaries'[p].error # "none"
    BY <1>1, <1>3, <1>6, <1>7, InBatch
  <1>10. /\ active' \subseteq batch /\ active' \subseteq Pairs /\ count' \in Nat
         /\ \A p \in active' :
              ~summaries'[p].converged /\ ~summaries'[p].failed /\ count' < BandLimit(p)
    BY <1>1, <1>2, <1>3, <1>6
  <1>11. \A p \in Pairs \ batch : summaries'[p] = summaries[p] /\ force'[p] = force[p]
    BY <1>3, <1>7
  <1> QED  BY <1>1, <1>5, <1>8, <1>9, <1>10, <1>11, BatchStep

\* The verdicts on a batch end it: what each of its bands must be given.
LEMMA ClosedKeeps ==
  ASSUME NebInv, phase \in {"step", "close"}, phase' = "closed",
         UNCHANGED <<saved, kind, todo, chunk, call, stage, retries, retrying, batch,
                     active, count, first, climb>>,
         NEW verdicts,
         summaries' = [p \in Pairs |-> IF p \in batch THEN verdicts[p] ELSE summaries[p]],
         force' \in [Pairs -> {"stale", "low", "high", "nan"}],
         \A p \in Pairs \ batch : force'[p] = force[p],
         \A p \in batch :
           /\ verdicts[p] \in BandSummaries
           /\ verdicts[p].converged =>
                force'[p] = "low" /\ verdicts[p].steps > 0 /\ ~verdicts[p].failed
           /\ verdicts[p].steps <= BandLimit(p)
           /\ verdicts[p].converged \/ verdicts[p].error # "none"
  PROVE  NebInv'
PROOF
  <1>1. batch \subseteq Pairs  BY DEF NebInv, NebTypes
  <1>2. \A p \in batch : summaries'[p] = verdicts[p]  BY <1>1
  <1>3. \A p \in Pairs \ batch : summaries'[p] = summaries[p]  OBVIOUS
  <1>4. summaries' \in [Pairs -> BandSummaries]
    <2>1. \A p \in Pairs : summaries'[p] \in BandSummaries
      BY <1>2, <1>3 DEF NebInv, NebTypes
    <2> QED  BY <2>1
  <1>5. \A p \in batch : Explained(p)'  BY <1>2 DEF Explained
  <1>6. count \in Nat /\ active \subseteq Pairs  BY DEF NebInv, NebTypes
  <1> QED  BY <1>2, <1>3, <1>4, <1>5, <1>6, BatchStep

\* The verdict on a band that is not evaluated again.
LEMMA JudgedFacts ==
  ASSUME NebInv, phase = "close", NEW p \in batch
  PROVE  /\ Judged(p) \in BandSummaries
         /\ Judged(p).converged = summaries[p].converged
         /\ Judged(p).failed = summaries[p].failed
         /\ Judged(p).steps = summaries[p].steps
         /\ Judged(p).converged \/ Judged(p).error # "none"
PROOF
  <1>1. /\ summaries[p] \in BandSummaries
        /\ summaries[p].failed => summaries[p].error # "none"
    BY InBatch
  <1> QED  BY <1>1 DEF Judged, BandSummaries, Errors

\* The last evaluation explains every band, and converges none without its force.
LEMMA CloseKeeps == NebInv /\ Close => NebInv'
PROOF
  <1> SUFFICES ASSUME NebInv, Close  PROVE NebInv'
    OBVIOUS
  <1> DEFINE open == {p \in batch : Unsettled(p)}
  <1>1. PICK parts \in [open -> {"low", "high", "nan", "unread"}] :
          /\ Closed([p \in batch |->
               IF p \in open THEN Synced(p, parts[p]) ELSE Judged(p)])
          /\ force' = [p \in Pairs |->
               IF p \in open /\ parts[p] # "unread" THEN parts[p] ELSE force[p]]
    BY DEF Close
  <1> DEFINE verdicts == [p \in batch |->
               IF p \in open THEN Synced(p, parts[p]) ELSE Judged(p)]
  <1>2. /\ phase = "close" /\ phase' = "closed"
        /\ UNCHANGED <<saved, kind, todo, chunk, call, stage, retries, retrying, batch,
                       active, count, first, climb>>
        /\ summaries' = [p \in Pairs |-> IF p \in batch THEN verdicts[p] ELSE summaries[p]]
    BY <1>1 DEF Close, Closed, chunkVars, batchVars
  <1>3. force' \in [Pairs -> {"stale", "low", "high", "nan"}]
    BY <1>1 DEF NebInv, NebTypes
  <1>4. \A p \in Pairs \ batch : force'[p] = force[p]  BY <1>1
  <1>5. ASSUME NEW p \in batch
        PROVE  /\ verdicts[p] \in BandSummaries
               /\ verdicts[p].converged =>
                    force'[p] = "low" /\ verdicts[p].steps > 0 /\ ~verdicts[p].failed
               /\ verdicts[p].steps <= BandLimit(p)
               /\ verdicts[p].converged \/ verdicts[p].error # "none"
    <2> DEFINE j == Judged(p)
    <2>1. /\ j \in BandSummaries /\ j.converged = summaries[p].converged
          /\ j.failed = summaries[p].failed /\ j.steps = summaries[p].steps
          /\ j.converged \/ j.error # "none"
      BY <1>2, JudgedFacts
    <2>2. /\ summaries[p].steps <= BandLimit(p)
          /\ summaries[p].converged =>
               force[p] = "low" /\ summaries[p].steps > 0 /\ ~summaries[p].failed
          /\ p \in Pairs
      BY <1>2, InBatch
    <2>3. CASE p \notin open
      <3>1. verdicts[p] = j /\ force'[p] = force[p]  BY <1>1, <2>2, <2>3
      <3> HIDE DEF verdicts, j, open
      <3> QED  BY <2>1, <2>2, <3>1
    <2>4. CASE p \in open
      <3>1. ~summaries[p].failed /\ ~summaries[p].converged /\ summaries[p].steps > 0
        BY <2>4 DEF Unsettled
      <3>2. verdicts[p] = CASE parts[p] = "low" ->
                                 [j EXCEPT !.converged = TRUE, !.error = "none"]
                            [] parts[p] = "high" -> j
                            [] parts[p] = "nan" -> Fail(j, "nonfinite")
                            [] OTHER -> Fail(j, "step")
        BY <2>4 DEF Synced
      <3>3. parts[p] = "low" => force'[p] = "low"  BY <1>1, <2>2, <2>4
      <3> HIDE DEF verdicts, j, open
      <3>4. CASE parts[p] = "low"  BY <2>1, <2>2, <3>1, <3>2, <3>3, <3>4 DEF BandSummaries, Errors
      <3>5. CASE parts[p] = "high"  BY <2>1, <2>2, <3>1, <3>2, <3>5
      <3>6. CASE parts[p] = "nan"
        BY <2>1, <2>2, <3>2, <3>6 DEF BandSummaries, Errors, Fail
      <3>7. CASE parts[p] \notin {"low", "high", "nan"}
        BY <2>1, <2>2, <3>2, <3>7 DEF BandSummaries, Errors, Fail
      <3> QED  BY <3>4, <3>5, <3>6, <3>7
    <2> QED  BY <2>3, <2>4
  <1> QED
    <2> HIDE DEF verdicts, open
    <2> QED  BY <1>2, <1>3, <1>4, <1>5, ClosedKeeps

\* Without that evaluation, what was not failed fails.
LEMMA RefreshFailsKeeps == NebInv /\ RefreshFails => NebInv'
PROOF
  <1> SUFFICES ASSUME NebInv, RefreshFails  PROVE NebInv'
    OBVIOUS
  <1> DEFINE verdicts == [p \in batch |->
               IF summaries[p].failed THEN summaries[p] ELSE Fail(Judged(p), "refresh")]
  <1>1. /\ phase = "close" /\ phase' = "closed"
        /\ UNCHANGED <<saved, kind, todo, chunk, call, stage, retries, retrying, batch,
                       active, count, first, climb, force>>
        /\ summaries' = [p \in Pairs |-> IF p \in batch THEN verdicts[p] ELSE summaries[p]]
    BY DEF RefreshFails, Closed, chunkVars, batchVars
  <1>2. ASSUME NEW p \in batch
        PROVE  /\ verdicts[p] \in BandSummaries
               /\ verdicts[p].converged =>
                    force[p] = "low" /\ verdicts[p].steps > 0 /\ ~verdicts[p].failed
               /\ verdicts[p].steps <= BandLimit(p)
               /\ verdicts[p].converged \/ verdicts[p].error # "none"
    <2>1. /\ summaries[p] \in BandSummaries /\ summaries[p].steps <= BandLimit(p)
          /\ summaries[p].converged => ~summaries[p].failed
          /\ summaries[p].failed => summaries[p].error # "none"
      BY <1>1, InBatch
    <2>2. CASE summaries[p].failed  BY <2>1, <2>2
    <2>3. CASE ~summaries[p].failed
      <3>1. verdicts[p] = Fail(Judged(p), "refresh")  BY <2>3
      <3>2. Judged(p) \in BandSummaries /\ Judged(p).steps = summaries[p].steps
        BY <1>1, JudgedFacts
      <3> HIDE DEF verdicts
      <3> QED  BY <2>1, <3>1, <3>2 DEF Fail, BandSummaries, Errors
    <2> QED  BY <2>2, <2>3
  <1>3. force \in [Pairs -> {"stale", "low", "high", "nan"}]  BY DEF NebInv, NebTypes
  <1> HIDE DEF verdicts
  <1> QED  BY <1>1, <1>2, <1>3, ClosedKeeps

-----------------------------------------------------------------------------
(* Starting a batch. *)

\* A batch that starts: every other band of the call waits in a retry or is
\* explained, and what is left from an earlier batch is within the limits.
LEMMA StartKeeps ==
  ASSUME NebInv, StartBatch(batch'),
         NebTypes', Prepared', OnePlace', NebProperties', Staged',
         \A p \in Pairs : summaries[p].converged => force'[p] = "low",
         batch' \subseteq call', call' \subseteq chunk', chunk' \subseteq Pairs,
         stage' # "climb" => call' = chunk',
         \A i \in DOMAIN retries' : retries'[i] \subseteq call',
         \A p \in call' \ batch' :
           \/ \E i \in DOMAIN retries' : p \in retries'[i]
           \/ Explained(p),
         \A p \in chunk' \ call' : ~summaries[p].converged /\ Explained(p),
         \A p \in chunk' \ batch' : summaries[p].converged =>
           summaries[p].steps > 0 /\ ~summaries[p].failed,
         stage' = "climb" => \A p \in chunk' : first'[p].steps <= NebSteps \div 2,
         \A p \in chunk' \ batch' :
           summaries[p].steps <= IF p \in call' THEN BandLimit(p)' ELSE NebSteps
  PROVE  NebInv'
PROOF
  <1>1. /\ active' = batch' /\ count' = 0 /\ phase' = "step"
        /\ \A p \in Pairs : summaries'[p] = IF p \in batch' THEN Fresh ELSE summaries[p]
    BY DEF StartBatch
  <1>2. Batching' /\ Underway' /\ ~Solo'  BY <1>1 DEF Underway, Batching, Solo
  <1>3. ~Fresh.converged /\ ~Fresh.failed /\ Fresh.steps = 0  BY DEF Fresh
  <1>4. \A p \in chunk' \ batch' : Explained(p)' = Explained(p)  BY <1>1 DEF Explained
  <1>5. \A p \in batch' : BandLimit(p)' \in Nat \ {0}
    <2> SUFFICES ASSUME NEW p \in batch'  PROVE BandLimit(p)' \in Nat \ {0}
      OBVIOUS
    <2>1. stage' = "relax" => NebSteps >= 4  BY <1>2 DEF Staged
    <2>2. first'[p].steps \in Nat  BY DEF NebTypes, BandSummaries
    <2>3. NebSteps \in Nat \ {0}  BY ParallelNebAssumption
    <2>4. stage' \in {"single", "relax", "climb"}  BY DEF NebTypes
    <2>5. BandLimit(p)' = CASE stage' = "single" -> NebSteps
                            [] stage' = "relax" -> NebSteps \div 2
                            [] OTHER -> IF NebSteps > first'[p].steps
                                          THEN NebSteps - first'[p].steps ELSE 1
      BY DEF BandLimit, ClimbBudget
    <2> QED  BY <2>1, <2>2, <2>3, <2>4, <2>5
  <1>6. Covered'
    <2>1. \A p \in chunk' \ call' : ~summaries'[p].converged /\ Explained(p)'
      BY <1>1, <1>4
    <2>2. \A p \in call' : \/ p \in batch'
                           \/ \E i \in DOMAIN retries' : p \in retries'[i]
                           \/ Explained(p)'
      BY <1>4
    <2> QED  BY <1>1, <2>1, <2>2 DEF Covered
  <1>7. Stepped'
    <2>1. \A p \in Pairs : summaries'[p].converged => force'[p] = "low"
      BY <1>1, <1>3
    <2>2. \A p \in chunk' : summaries'[p].converged =>
            summaries'[p].steps > 0 /\ ~summaries'[p].failed
      BY <1>1, <1>3
    <2>3. \A p \in batch' : ~summaries'[p].converged /\ ~summaries'[p].failed
      BY <1>1, <1>3
    <2> QED  BY <1>1, <1>5, <2>1, <2>2, <2>3 DEF Stepped
  <1>8. WithinLimits'
    <2>1. ASSUME NEW p \in chunk'
          PROVE  summaries'[p].steps <= IF p \in call' THEN BandLimit(p)' ELSE NebSteps
      <3>1. CASE p \in batch'
        <4>1. summaries'[p].steps = 0  BY <1>1, <1>3, <3>1
        <4> QED  BY <1>5, <3>1, <4>1
      <3>2. CASE p \notin batch'  BY <1>1, <3>2
      <3> QED  BY <3>1, <3>2
    <2> QED  BY <1>2, <2>1 DEF WithinLimits
  <1>9. Alone'  BY <1>2 DEF Alone
  <1> QED  BY <1>6, <1>7, <1>8, <1>9 DEF NebInv

\* A sequence that is not empty is its head and its tail.
LEMMA HeadAndTail ==
  ASSUME NEW S, NEW s \in Seq(S), s # <<>>
  PROVE  /\ 1 \in DOMAIN s /\ Head(s) = s[1] /\ Head(s) \in S /\ Tail(s) \in Seq(S)
         /\ \A i \in DOMAIN Tail(s) :
              i + 1 \in DOMAIN s /\ i + 1 # 1 /\ Tail(s)[i] = s[i + 1]
         /\ \A i, k \in DOMAIN Tail(s) : i # k => i + 1 # k + 1
         /\ \A i \in DOMAIN s :
              i = 1 \/ (i - 1 \in DOMAIN Tail(s) /\ Tail(s)[i - 1] = s[i])
  OBVIOUS

\* The next chunk leaves the chunks that wait without it.
LEMMA NextChunkKeeps == NebInv /\ NextChunk => NebInv'
PROOF
  <1> SUFFICES ASSUME NebInv, NextChunk  PROVE NebInv'
    OBVIOUS
  <1>1. /\ phase = "chunk" /\ todo # <<>> /\ phase' = "step"
        /\ chunk' = Head(todo) /\ call' = Head(todo) /\ todo' = Tail(todo)
        /\ stage' = IF \E p \in Head(todo) : kind[p] = "two" THEN "relax" ELSE "single"
        /\ retries' = <<>> /\ StartBatch(Head(todo)) /\ batch' = Head(todo)
        /\ active' = Head(todo) /\ count' = 0
        /\ UNCHANGED <<kind, saved, first, climb, force>>
    BY DEF NextChunk, StartBatch
  <1>2. todo \in Seq(SUBSET Pairs)  BY DEF NebInv, NebTypes
  <1>3. /\ 1 \in DOMAIN todo /\ chunk' = todo[1] /\ chunk' \subseteq Pairs
        /\ todo' \in Seq(SUBSET Pairs)
        /\ \A i \in DOMAIN todo' : i + 1 \in DOMAIN todo /\ i + 1 # 1 /\ todo'[i] = todo[i + 1]
        /\ \A i, k \in DOMAIN todo' : i # k => i + 1 # k + 1
    BY <1>1, <1>2, HeadAndTail
  <1>4. /\ Batching' /\ Underway' /\ ~Underway /\ ~Solo'
    BY <1>1 DEF Underway, Batching, Solo
  <1>5. NebTypes'
    <2>1. summaries' \in [Pairs -> BandSummaries]
      <3>1. Fresh \in BandSummaries  BY DEF Fresh, BandSummaries, Errors
      <3> QED  BY <1>1, <3>1 DEF StartBatch, NebInv, NebTypes
    <2>2. retries' \in Seq(SUBSET Pairs)  BY <1>1
    <2> QED  BY <1>1, <1>3, <2>1, <2>2 DEF NebInv, NebTypes
  <1>6. Prepared'  BY <1>1 DEF Prepared
  <1>7. /\ \A i \in DOMAIN todo : \A p \in todo[i] : saved[p].status = "none"
        /\ \A i, k \in DOMAIN todo : i # k => todo[i] \cap todo[k] = {}
    BY <1>1 DEF NebInv, OnePlace
  <1>8. OnePlace'
    <2>1. \A p \in chunk' : saved'[p].status = "none"  BY <1>1, <1>3, <1>7
    <2>2. \A i \in DOMAIN todo' : \A p \in todo'[i] :
            saved'[p].status = "none" /\ p \notin chunk'
      BY <1>1, <1>3, <1>7
    <2>3. \A i, k \in DOMAIN todo' : i # k => todo'[i] \cap todo'[k] = {}
      BY <1>3, <1>7
    <2> QED  BY <1>4, <2>1, <2>2, <2>3 DEF OnePlace
  <1>9. \A i \in DOMAIN todo : \A p \in todo[i] :
          \/ kind[p] = "single" /\ p \in climb
          \/ kind[p] = "two" /\ NebSteps >= 4
    BY <1>1 DEF NebInv, Staged
  <1>10. Staged'
    <2>1. \A i \in DOMAIN todo' : \A p \in todo'[i] :
            \/ kind'[p] = "single" /\ p \in climb'
            \/ kind'[p] = "two" /\ NebSteps >= 4
      BY <1>1, <1>3, <1>9
    <2>2. IF stage' = "relax" THEN NebSteps >= 4 ELSE chunk' \subseteq climb'
      BY <1>1, <1>3, <1>9
    <2> QED  BY <1>1, <2>1, <2>2 DEF Staged
  <1>11. NebProperties'
    BY <1>1 DEF NebInv, NebProperties, SuccessIsEarned, StepsWithinBudget, FailuresSayWhy
  <1>12. \A p \in Pairs : summaries[p].converged => force'[p] = "low"
    BY <1>1 DEF NebInv, Stepped
  <1>13. StartBatch(batch') /\ \A i \in DOMAIN retries' : FALSE
    BY <1>1 DEF StartBatch
  <1>14. stage' # "climb"  BY <1>1
  <1>15. batch' = call' /\ call' = chunk'  BY <1>1
  <1> QED
    BY <1>3, <1>5, <1>6, <1>8, <1>10, <1>11, <1>12, <1>13, <1>14, <1>15, StartKeeps

\* The smaller chunks of a retry are of the bands of the call, and of them all.
LEMMA HalvedFacts ==
  ASSUME NEW bands \in SUBSET Pairs
  PROVE  /\ Halved(bands, Cost) \in Seq(SUBSET bands)
         /\ \A p \in bands : \E c \in DOMAIN Halved(bands, Cost) : p \in Halved(bands, Cost)[c]
PROOF
  <1> DEFINE half == MapThenSumSet(LAMBDA i : Cost[i], bands) \div 2
             limit == IF half > 1 THEN half ELSE 1
  <1>1. Len(Cost) = NPairs /\ NPairs \in Nat  BY ParallelNebAssumption DEF Pairs
  <1>2. bands \in SUBSET (1..Len(Cost))  BY <1>1 DEF Pairs
  <1>3. Halved(bands, Cost) = ChunkBands(bands, Cost, limit, 0)  BY DEF Halved
  <1> HIDE DEF half, limit
  <1>4. /\ ChunkBands(bands, Cost, limit, 0) \in Seq(SUBSET bands)
        /\ \A p \in bands : \E c \in DOMAIN ChunkBands(bands, Cost, limit, 0) :
             p \in ChunkBands(bands, Cost, limit, 0)[c]
    BY <1>1, <1>2, ChunksPartition
  <1> QED  BY <1>3, <1>4

\* Where memory runs out, the bands before the one that raises may have moved.
LEMMA OutOfMemoryMoves ==
  ASSUME NebInv, OutOfMemory
  PROVE  /\ phase \in {"step", "close"} /\ batch # {}
         /\ UNCHANGED <<kind, saved, todo, chunk, call, stage, first, climb>>
         /\ force' \in [Pairs -> {"stale", "low", "high", "nan"}]
         /\ \A p \in Pairs : summaries[p].converged => force'[p] = "low"
         /\ \A p \in Pairs \ batch : force'[p] = force[p]
PROOF
  <1>1. /\ phase \in {"step", "close"} /\ batch # {}
        /\ UNCHANGED <<kind, saved, todo, chunk, call, stage, first, climb>>
    BY InBatch DEF OutOfMemory
  <1>2. /\ force \in [Pairs -> {"stale", "low", "high", "nan"}]
        /\ \A p \in Pairs : summaries[p].converged => force[p] = "low"
    BY DEF NebInv, NebTypes, Stepped
  <1>3. CASE UNCHANGED force  BY <1>1, <1>2, <1>3
  <1>4. CASE phase = "step" /\ \E raises \in active :
               LET before == {p \in active : p < raises} IN
               \E parts \in [before -> {"low", "high", "nan"}] : Move(parts, before)
    <2>a. PICK raises \in active :
            LET earlier == {p \in active : p < raises} IN
            \E parts \in [earlier -> {"low", "high", "nan"}] : Move(parts, earlier)
      BY <1>4
    <2> DEFINE before == {p \in active : p < raises}
    <2>1. PICK parts \in [before -> {"low", "high", "nan"}] : Move(parts, before)
      BY <2>a
    <2>2. \A p \in Pairs :
            force'[p] = IF p \notin before THEN force[p]
                        ELSE IF parts[p] \in {"low", "nan"} THEN parts[p] ELSE "stale"
      BY <2>1 DEF Move
    <2>3. /\ before \subseteq batch
          /\ \A p \in before : ~summaries[p].converged
      BY <1>4, InBatch
    <2> HIDE DEF before
    <2>4. force' \in [Pairs -> {"stale", "low", "high", "nan"}]
      <3>1. force' = [p \in Pairs |-> force'[p]]  BY <2>1 DEF Move
      <3>2. \A p \in Pairs : force'[p] \in {"stale", "low", "high", "nan"}
        BY <1>2, <2>2
      <3> QED  BY <3>1, <3>2
    <2> QED  BY <1>1, <1>2, <2>2, <2>3, <2>4
  <1> QED  BY <1>3, <1>4 DEF OutOfMemory

\* The chunk again, in smaller ones, which still cover its bands.
LEMMA RetryKeeps == NebInv /\ OutOfMemory /\ Retry => NebInv'
PROOF
  <1> SUFFICES ASSUME NebInv, OutOfMemory, Retry  PROVE NebInv'
    OBVIOUS
  <1> DEFINE halves == Halved(call, Cost)
  <1>1. /\ phase \in {"step", "close"} /\ batch # {}
        /\ UNCHANGED <<kind, saved, todo, chunk, call, stage, first, climb>>
        /\ force' \in [Pairs -> {"stale", "low", "high", "nan"}]
        /\ \A p \in Pairs : summaries[p].converged => force'[p] = "low"
        /\ \A p \in Pairs \ batch : force'[p] = force[p]
    BY OutOfMemoryMoves
  <1>2. batch \subseteq call /\ call \subseteq chunk /\ chunk \subseteq Pairs
    BY <1>1, InBatch
  <1>3. /\ retries' = Tail(halves) /\ StartBatch(Head(halves)) /\ phase' = "step"
        /\ batch' = Head(halves) /\ active' = Head(halves) /\ count' = 0
    BY DEF Retry, StartBatch
  <1>4. /\ halves \in Seq(SUBSET call) /\ halves # <<>>
        /\ \A p \in call : \E c \in DOMAIN halves : p \in halves[c]
    <2>1. /\ halves \in Seq(SUBSET call)
          /\ \A p \in call : \E c \in DOMAIN halves : p \in halves[c]
      <3>1. call \in SUBSET Pairs  BY <1>2
      <3> QED  BY <3>1, HalvedFacts
    <2> HIDE DEF halves
    <2>2. PICK p \in call : TRUE  BY <1>1, <1>2
    <2>3. DOMAIN halves # {}  BY <2>1, <2>2
    <2> QED  BY <2>1, <2>3
  <1> HIDE DEF halves
  <1>5. /\ batch' \subseteq call /\ retries' \in Seq(SUBSET call)
        /\ \A i \in DOMAIN retries' : retries'[i] \subseteq call
        /\ \A p \in call \ batch' : \E i \in DOMAIN retries' : p \in retries'[i]
    <2>1. /\ halves[1] = batch' /\ batch' \subseteq call /\ retries' \in Seq(SUBSET call)
          /\ \A c \in DOMAIN halves : c = 1 \/ 
               (c - 1 \in DOMAIN retries' /\ retries'[c - 1] = halves[c])
      BY <1>3, <1>4, HeadAndTail
    <2>2. \A i \in DOMAIN retries' : retries'[i] \subseteq call  BY <2>1
    <2> QED  BY <1>4, <2>1, <2>2
  <1>6. NebTypes'
    <2>1. summaries' \in [Pairs -> BandSummaries]
      <3>1. Fresh \in BandSummaries  BY DEF Fresh, BandSummaries, Errors
      <3> QED  BY <1>3, <3>1 DEF StartBatch, NebInv, NebTypes
    <2>2. batch' \subseteq Pairs /\ retries' \in Seq(SUBSET Pairs)
      <3>1. SUBSET call \subseteq SUBSET Pairs  BY <1>2
      <3> QED  BY <1>5, <3>1
    <2> QED  BY <1>1, <1>3, <2>1, <2>2 DEF NebInv, NebTypes
  <1>7. /\ Batching /\ Batching' /\ Underway /\ Underway' /\ phase # "save"
    BY <1>1, <1>3 DEF Underway, Batching
  <1>8. Prepared' /\ OnePlace' /\ NebProperties' /\ Staged'
    <2>1. \A p \in Pairs \ chunk : force'[p] = force[p]  BY <1>1, <1>2
    <2>2. Underway => IF stage = "relax" THEN NebSteps >= 4 ELSE chunk \subseteq climb
      BY DEF NebInv, Staged
    <2> QED  BY <1>1, <1>3, <1>7, <2>1, <2>2, InnerStep DEF Staged
  <1>9. /\ stage' # "climb" => call' = chunk'
        /\ \A p \in chunk' \ call' : ~summaries[p].converged /\ Explained(p)
    BY <1>1, <1>7 DEF NebInv, Covered
  <1>10. \A p \in chunk' \ batch' : summaries[p].converged =>
           summaries[p].steps > 0 /\ ~summaries[p].failed
    BY <1>1, <1>7 DEF NebInv, Stepped
  <1>11. \A p \in Pairs : BandLimit(p)' = BandLimit(p)
    BY <1>1 DEF BandLimit, ClimbBudget
  <1>12. /\ stage' = "climb" => \A p \in chunk' : first'[p].steps <= NebSteps \div 2
         /\ \A p \in chunk' \ batch' :
              summaries[p].steps <= IF p \in call' THEN BandLimit(p)' ELSE NebSteps
    BY <1>1, <1>2, <1>7, <1>11 DEF NebInv, WithinLimits
  <1>13. StartBatch(batch')  BY <1>3
  <1>14. /\ call' = call /\ chunk' = chunk  BY <1>1
  <1> QED
    BY <1>1, <1>2, <1>5, <1>6, <1>8, <1>9, <1>10, <1>12, <1>13, <1>14, StartKeeps

\* The bands that ran out of memory twice have failed, with no steps made.
LEMMA GiveUpKeeps == NebInv /\ OutOfMemory /\ GiveUp => NebInv'
PROOF
  <1> SUFFICES ASSUME NebInv, OutOfMemory, GiveUp  PROVE NebInv'
    OBVIOUS
  <1>1. /\ phase \in {"step", "close"} /\ batch # {}
        /\ UNCHANGED <<kind, saved, todo, chunk, call, stage, first, climb>>
        /\ force' \in [Pairs -> {"stale", "low", "high", "nan"}]
        /\ \A p \in Pairs \ batch : force'[p] = force[p]
    BY OutOfMemoryMoves
  <1>2. /\ phase' = "closed" /\ UNCHANGED <<retries, retrying, batch, active, count>>
        /\ summaries' = [p \in Pairs |-> IF p \in batch THEN Fail(Fresh, "oom")
                                         ELSE summaries[p]]
    BY DEF GiveUp, batchVars
  <1> DEFINE verdicts == [p \in batch |-> Fail(Fresh, "oom")]
  <1>3. \A p \in batch :
          /\ verdicts[p] \in BandSummaries /\ ~verdicts[p].converged
          /\ verdicts[p].steps = 0 /\ verdicts[p].error # "none"
    BY DEF Fail, Fresh, BandSummaries, Errors
  <1>4. summaries' = [p \in Pairs |-> IF p \in batch THEN verdicts[p] ELSE summaries[p]]
    BY <1>2
  <1>5. \A p \in batch : BandLimit(p) \in Nat \ {0}  BY <1>1, InBatch
  <1> HIDE DEF verdicts
  <1>6. \A p \in batch : verdicts[p].steps <= BandLimit(p)  BY <1>3, <1>5
  <1> QED  BY <1>1, <1>2, <1>3, <1>4, <1>6, ClosedKeeps

\* The sub-chunks after it are run none the less.
LEMMA NextSubChunkKeeps == NebInv /\ NextSubChunk => NebInv'
PROOF
  <1> SUFFICES ASSUME NebInv, NextSubChunk  PROVE NebInv'
    OBVIOUS
  <1>1. /\ phase = "closed" /\ retries # <<>> /\ phase' = "step"
        /\ retries' = Tail(retries) /\ StartBatch(Head(retries))
        /\ batch' = Head(retries) /\ active' = Head(retries) /\ count' = 0
        /\ UNCHANGED <<kind, saved, todo, chunk, call, stage, first, climb, force>>
    BY DEF NextSubChunk, StartBatch
  <1>2. /\ Batching /\ Batching' /\ Underway /\ Underway' /\ phase # "save"
    BY <1>1 DEF Underway, Batching
  <1>3. call \subseteq chunk /\ chunk \subseteq Pairs
    BY <1>2 DEF NebInv, NebTypes, Covered
  <1>4. retries \in Seq(SUBSET Pairs) /\ \A i \in DOMAIN retries : retries[i] \subseteq call
    BY <1>2 DEF NebInv, NebTypes, Covered
  <1>5. /\ 1 \in DOMAIN retries /\ batch' = retries[1] /\ batch' \subseteq Pairs
        /\ retries' \in Seq(SUBSET Pairs)
        /\ \A i \in DOMAIN retries' : i + 1 \in DOMAIN retries /\ retries'[i] = retries[i + 1]
        /\ \A i \in DOMAIN retries :
             i = 1 \/ (i - 1 \in DOMAIN retries' /\ retries'[i - 1] = retries[i])
    BY <1>1, <1>4, HeadAndTail
  <1>6. NebTypes'
    <2>1. summaries' \in [Pairs -> BandSummaries]
      <3>1. Fresh \in BandSummaries  BY DEF Fresh, BandSummaries, Errors
      <3> QED  BY <1>1, <3>1 DEF StartBatch, NebInv, NebTypes
    <2> QED  BY <1>1, <1>5, <2>1 DEF NebInv, NebTypes
  <1>7. Prepared' /\ OnePlace' /\ NebProperties' /\ Staged'
    <2>1. Underway => IF stage = "relax" THEN NebSteps >= 4 ELSE chunk \subseteq climb
      BY DEF NebInv, Staged
    <2> QED  BY <1>1, <1>2, <2>1, InnerStep DEF Staged
  <1>8. /\ batch' \subseteq call /\ \A i \in DOMAIN retries' : retries'[i] \subseteq call
    BY <1>4, <1>5
  <1>9. \A p \in call \ batch' :
          (\E i \in DOMAIN retries' : p \in retries'[i]) \/ Explained(p)
    <2> SUFFICES ASSUME NEW p \in call \ batch', ~Explained(p)
                 PROVE  \E i \in DOMAIN retries' : p \in retries'[i]
      OBVIOUS
    <2>1. PICK i \in DOMAIN retries : p \in retries[i]
      BY <1>1, <1>2 DEF NebInv, Covered
    <2> QED  BY <1>5, <2>1
  <1>10. /\ stage' # "climb" => call' = chunk'
         /\ \A p \in chunk' \ call' : ~summaries[p].converged /\ Explained(p)
    BY <1>1, <1>2 DEF NebInv, Covered
  <1>11. /\ \A p \in chunk' \ batch' : summaries[p].converged =>
              summaries[p].steps > 0 /\ ~summaries[p].failed
         /\ \A p \in Pairs : summaries[p].converged => force'[p] = "low"
    BY <1>1, <1>2 DEF NebInv, Stepped
  <1>12. \A p \in Pairs : BandLimit(p)' = BandLimit(p)
    BY <1>1 DEF BandLimit, ClimbBudget
  <1>13. /\ stage' = "climb" => \A p \in chunk' : first'[p].steps <= NebSteps \div 2
         /\ \A p \in chunk' \ batch' :
              summaries[p].steps <= IF p \in call' THEN BandLimit(p)' ELSE NebSteps
    BY <1>1, <1>2, <1>3, <1>12 DEF NebInv, WithinLimits
  <1>14. StartBatch(batch') /\ call' = call /\ chunk' = chunk  BY <1>1
  <1> QED
    BY <1>3, <1>6, <1>7, <1>8, <1>9, <1>10, <1>11, <1>13, <1>14, StartKeeps

-----------------------------------------------------------------------------
(* The second stage, and the verdicts. *)

\* The steps of the relaxing stage are set aside before the bands climb.
LEMMA StartClimbKeeps == NebInv /\ StartClimb => NebInv'
PROOF
  <1> SUFFICES ASSUME NebInv, StartClimb  PROVE NebInv'
    OBVIOUS
  <1>1. /\ phase = "closed" /\ retries = <<>> /\ stage = "relax" /\ stage' = "climb"
        /\ climb' = climb \cup chunk /\ call' = {p \in chunk : Eligible(p)}
        /\ first' = [p \in Pairs |-> IF p \in chunk THEN summaries[p] ELSE first[p]]
        /\ UNCHANGED <<kind, saved, todo, chunk, retries, force>>
        /\ \/ phase' = "save" /\ call' = {} /\ UNCHANGED <<batch, active, count, summaries>>
           \/ phase' = "step" /\ StartBatch(call') /\ batch' = call' /\ active' = call'
              /\ count' = 0
    BY DEF StartClimb, StartBatch, batchVars
  <1>2. Batching /\ Batching' /\ Underway /\ Underway' /\ ~Solo'
    BY <1>1 DEF Underway, Batching, Solo
  <1>3. call = chunk /\ chunk \subseteq Pairs /\ NebSteps >= 4 /\ NebSteps \in Nat \ {0}
    BY <1>1, <1>2, ParallelNebAssumption DEF NebInv, NebTypes, Covered, Staged
  <1>4. \A p \in chunk :
          /\ Explained(p) /\ summaries[p] \in BandSummaries
          /\ summaries[p].converged => summaries[p].steps > 0 /\ ~summaries[p].failed
          /\ summaries[p].steps <= NebSteps \div 2
    <2>1. \A p \in chunk : Explained(p)
      BY <1>1, <1>2, <1>3 DEF NebInv, Covered
    <2>2. \A p \in chunk : summaries[p].steps <= BandLimit(p)
      BY <1>2, <1>3 DEF NebInv, WithinLimits
    <2>3. \A p \in chunk : BandLimit(p) = NebSteps \div 2  BY <1>1 DEF BandLimit
    <2> QED  BY <1>2, <1>3, <2>1, <2>2, <2>3 DEF NebInv, NebTypes, Stepped
  <1>5. \A p \in chunk \ call' : ~summaries[p].converged /\ Explained(p)
    BY <1>1, <1>4 DEF Eligible
  <1>6. \A p \in chunk : first'[p].steps <= NebSteps \div 2
    BY <1>1, <1>3, <1>4
  <1>7. \A p \in chunk : summaries[p].steps <= NebSteps
    BY <1>3, <1>4 DEF BandSummaries
  <1>8. NebTypes'
    <2>1. summaries' \in [Pairs -> BandSummaries]
      <3>1. Fresh \in BandSummaries  BY DEF Fresh, BandSummaries, Errors
      <3> QED  BY <1>1, <3>1 DEF StartBatch, NebInv, NebTypes
    <2>2. first' \in [Pairs -> BandSummaries]
      BY <1>1 DEF NebInv, NebTypes
    <2>3. /\ batch' \subseteq Pairs /\ active' \subseteq Pairs /\ count' \in Nat
          /\ call' \subseteq Pairs
      BY <1>1, <1>3 DEF NebInv, NebTypes
    <2> QED  BY <1>1, <2>1, <2>2, <2>3 DEF NebInv, NebTypes
  <1>9. Prepared' /\ OnePlace' /\ NebProperties' /\ Staged'
    <2>1. chunk' \subseteq climb' /\ climb \subseteq climb'  BY <1>1
    <2> QED  BY <1>1, <1>2, <2>1, InnerStep DEF Staged
  <1>10. \A p \in Pairs : summaries[p].converged => force'[p] = "low"
    BY <1>1 DEF NebInv, Stepped
  <1>11. CASE phase' = "step" /\ StartBatch(call') /\ batch' = call'
    <2>1. /\ StartBatch(batch') /\ batch' \subseteq call' /\ call' \subseteq chunk'
          /\ chunk' = chunk /\ stage' = "climb"
          /\ \A i \in DOMAIN retries' : FALSE
      BY <1>1, <1>11
    <2>2. /\ \A p \in chunk' \ call' : ~summaries[p].converged /\ Explained(p)
          /\ \A p \in call' \ batch' : FALSE
          /\ \A p \in chunk' \ batch' : summaries[p].converged =>
               summaries[p].steps > 0 /\ ~summaries[p].failed
          /\ \A p \in chunk' \ batch' :
               summaries[p].steps <= IF p \in call' THEN BandLimit(p)' ELSE NebSteps
      BY <1>4, <1>5, <1>7, <1>11, <2>1
    <2> QED  BY <1>3, <1>6, <1>8, <1>9, <1>10, <2>1, <2>2, StartKeeps
  <1>12. CASE phase' = "save" /\ call' = {} /\ UNCHANGED <<batch, active, count, summaries>>
    <2>1. \A p \in chunk : Explained(p)'  BY <1>4, <1>12 DEF Explained
    <2>2. Covered'  BY <1>1, <1>5, <1>12, <2>1 DEF Covered
    <2>3. Stepped'  BY <1>1, <1>2, <1>4, <1>10, <1>12 DEF Stepped
    <2>4. WithinLimits'  BY <1>1, <1>6, <1>7, <1>12 DEF WithinLimits
    <2>5. Alone'  BY <1>2 DEF Alone
    <2> QED  BY <1>8, <1>9, <2>2, <2>3, <2>4, <2>5 DEF NebInv
  <1> QED  BY <1>1, <1>11, <1>12

\* A chunk that is finished has every band explained.
LEMMA FinishedKeeps == NebInv /\ Finished => NebInv'
PROOF
  <1> SUFFICES ASSUME NebInv, Finished  PROVE NebInv'
    OBVIOUS
  <1>1. /\ phase = "closed" /\ retries = <<>> /\ stage # "relax" /\ phase' = "save"
        /\ UNCHANGED <<kind, saved, todo, chunk, call, stage, retries, retrying, batch,
                       active, count, summaries, first, climb, force>>
    BY DEF Finished, chunkVars, batchVars
  <1>2. Batching /\ Batching' /\ Underway /\ Underway' /\ ~Solo'
    BY <1>1 DEF Underway, Batching, Solo
  <1>3. NebTypes'  BY <1>1 DEF NebInv, NebTypes
  <1>4. Prepared' /\ OnePlace' /\ NebProperties' /\ Staged'
    <2>1. Underway => IF stage = "relax" THEN NebSteps >= 4 ELSE chunk \subseteq climb
      BY DEF NebInv, Staged
    <2> QED  BY <1>1, <1>2, <2>1, InnerStep DEF Staged
  <1>5. \A p \in Pairs : BandLimit(p)' = BandLimit(p) /\ Explained(p)' = Explained(p)
    BY <1>1 DEF BandLimit, ClimbBudget, Explained
  <1>6. Covered'
    <2>1. call \subseteq chunk /\ chunk \subseteq Pairs
      BY <1>2 DEF NebInv, Covered, NebTypes
    <2>2. \A p \in call : Explained(p)  BY <1>1, <1>2 DEF NebInv, Covered
    <2>3. /\ stage # "climb" => call = chunk
          /\ \A p \in chunk \ call : ~summaries[p].converged /\ Explained(p)
      BY <1>2 DEF NebInv, Covered
    <2> QED  BY <1>1, <1>5, <2>1, <2>2, <2>3 DEF Covered
  <1>7. Stepped'  BY <1>1, <1>2 DEF NebInv, Stepped
  <1>8. WithinLimits'
    <2>1. chunk \subseteq Pairs  BY DEF NebInv, NebTypes
    <2> QED  BY <1>1, <1>2, <1>5, <2>1 DEF NebInv, WithinLimits
  <1>9. Alone'  BY <1>2 DEF Alone
  <1> QED  BY <1>3, <1>4, <1>6, <1>7, <1>8, <1>9 DEF NebInv

\* What is saved of a band: a success is earned, the steps are within the
\* budget, a failure is explained.
LEMMA VerdictFacts ==
  ASSUME NebInv, phase = "save", NEW p \in chunk,
         NEW band \in {"saddle", "endpoint", "absurd", "unreadable"}
  PROVE  /\ Verdict(p, band) \in PairResults
         /\ Verdict(p, band).status = "success" => force[p] = "low" /\ p \in climb
         /\ Verdict(p, band).steps <= NebSteps
         /\ Verdict(p, band).status \in {"success", "failed"}
         /\ Verdict(p, band).status = "failed" => Verdict(p, band).error # "none"
PROOF
  <1> DEFINE m == Merged(p)
  <1>1. Batching /\ Underway  BY DEF Underway, Batching
  <1>2. /\ p \in Pairs /\ p \in climb /\ stage # "relax"
        /\ stage # "climb" => call = chunk
    BY <1>1 DEF NebInv, NebTypes, Staged, Covered
  <1>3. /\ summaries[p] \in BandSummaries /\ first[p] \in BandSummaries
        /\ NebSteps \in Nat \ {0}
    BY <1>2, ParallelNebAssumption DEF NebInv, NebTypes
  <1>4. /\ summaries[p].converged => force[p] = "low"
        /\ summaries[p].converged \/ summaries[p].error # "none"
    BY <1>1, <1>2 DEF NebInv, Stepped, Covered, Explained
  <1>5. /\ m \in BandSummaries /\ m.converged = summaries[p].converged
        /\ m.converged \/ m.error # "none"
        /\ m.steps <= NebSteps
    <2>1. CASE stage # "climb" \/ p \notin call
      <3>1. m = summaries[p]  BY <2>1 DEF Merged
      <3>2. summaries[p].steps <= IF p \in call THEN BandLimit(p) ELSE NebSteps
        BY <1>1 DEF NebInv, WithinLimits
      <3>3. stage # "climb" => BandLimit(p) = NebSteps
        BY <1>2 DEF NebInv, NebTypes, BandLimit
      <3>4. m.steps <= NebSteps  BY <1>2, <1>3, <2>1, <3>1, <3>2, <3>3
      <3> QED  BY <1>3, <1>4, <3>1, <3>4
    <2>2. CASE stage = "climb" /\ p \in call
      <3>1. m = [summaries[p] EXCEPT !.steps = first[p].steps + @,
                                     !.error = IF @ # "none" THEN @ ELSE first[p].error]
        BY <2>2 DEF Merged
      <3>2. summaries[p].steps <= BandLimit(p)
        BY <1>1, <2>2 DEF NebInv, WithinLimits
      <3>3. first[p].steps <= NebSteps \div 2 /\ BandLimit(p) + first[p].steps = NebSteps
        BY <1>1, <1>2, <2>2, LimitsArePositive DEF NebInv, WithinLimits, Staged
      <3> DEFINE e == IF summaries[p].error # "none" THEN summaries[p].error
                      ELSE first[p].error
                 n == first[p].steps + summaries[p].steps
      <3>4. /\ m.steps = n /\ m.error = e
            /\ m.converged = summaries[p].converged
            /\ m \in BandSummaries
        <4>1. /\ summaries[p] = [converged |-> summaries[p].converged,
                                 failed |-> summaries[p].failed,
                                 error |-> summaries[p].error, steps |-> summaries[p].steps]
              /\ summaries[p].converged \in BOOLEAN /\ summaries[p].failed \in BOOLEAN
              /\ e \in Errors /\ n \in Nat
          <5>1. summaries[p] \in [converged : BOOLEAN, failed : BOOLEAN, error : Errors,
                                  steps : Nat]
            BY <1>3 DEF BandSummaries
          <5>2. first[p].error \in Errors /\ first[p].steps \in Nat
            BY <1>3 DEF BandSummaries
          <5> QED  BY <5>1, <5>2
        <4>2. m = [converged |-> summaries[p].converged, failed |-> summaries[p].failed,
                   error |-> e, steps |-> n]
          BY <3>1, <4>1
        <4> HIDE DEF m, e, n
        <4> QED  BY <4>1, <4>2 DEF BandSummaries
      <3>5. BandLimit(p) \in Nat
        BY <1>1, <1>2, <2>2, LimitsArePositive DEF NebInv, WithinLimits, Staged
      <3>6. m.steps <= NebSteps
        <4> HIDE DEF m
        <4> QED  BY <1>3, <3>2, <3>3, <3>4, <3>5 DEF BandSummaries
      <3>7. m.converged \/ m.error # "none"
        <4> HIDE DEF m
        <4> QED  BY <1>4, <3>4
      <3> HIDE DEF m
      <3> QED  BY <3>4, <3>6, <3>7
    <2> QED  BY <2>1, <2>2
  <1>6. Unusable(p) => m.error # "none"  BY DEF Unusable
  <1>7. band # "saddle" => band \in Errors  BY DEF Errors
  <1>8. Verdict(p, band) =
          IF Unusable(p) THEN [status |-> "failed", converged |-> FALSE,
                               error |-> m.error, steps |-> m.steps]
          ELSE IF band # "saddle" THEN [status |-> "failed", converged |-> FALSE,
                                        error |-> band, steps |-> m.steps]
          ELSE [status |-> IF m.converged THEN "success" ELSE "failed",
                converged |-> m.converged, error |-> m.error, steps |-> m.steps]
    BY DEF Verdict
  <1> HIDE DEF m
  <1>9. CASE Unusable(p)  BY <1>5, <1>6, <1>8, <1>9 DEF PairResults, BandSummaries
  <1>10. CASE ~Unusable(p) /\ band # "saddle"
    BY <1>5, <1>7, <1>8, <1>10 DEF PairResults, BandSummaries
  <1>11. CASE ~Unusable(p) /\ band = "saddle"
    BY <1>2, <1>4, <1>5, <1>8, <1>11 DEF PairResults, BandSummaries
  <1> QED  BY <1>9, <1>10, <1>11

\* The results of a chunk or a pair are in: it is under way no longer.
LEMMA ReportKeeps ==
  ASSUME NebInv, Underway, phase' \in {"chunk", "pair"}, phase' = "chunk" => Batching,
         UNCHANGED <<kind, todo, chunk, call, stage, retries, batch, active, count,
                     summaries, first, climb, force>>,
         saved' \in [Pairs -> PairResults],
         \A p \in Pairs \ chunk : saved'[p] = saved[p],
         \A p \in chunk :
           /\ saved'[p].status \in {"success", "failed"}
           /\ saved'[p].status = "success" => force[p] = "low" /\ p \in climb
           /\ saved'[p].steps <= NebSteps
           /\ saved'[p].status = "failed" => saved'[p].error # "none"
  PROVE  NebInv'
PROOF
  <1>1. ~Underway' /\ ~Batching' /\ ~Solo'  BY DEF Underway, Batching, Solo
  <1>2. NebTypes'  BY DEF NebInv, NebTypes
  <1>3. Prepared'  BY DEF Prepared
  <1>4. OnePlace'
    <2>1. todo \in Seq(SUBSET Pairs)  BY DEF NebInv, NebTypes
    <2>2. \A i \in DOMAIN todo : \A p \in todo[i] :
            saved[p].status = "none" /\ p \in Pairs \ chunk
      BY <2>1 DEF NebInv, OnePlace
    <2>3. \A i, k \in DOMAIN todo : i # k => todo[i] \cap todo[k] = {}
      BY DEF NebInv, OnePlace
    <2> QED  BY <1>1, <2>2, <2>3 DEF OnePlace
  <1>5. Staged'  BY <1>1 DEF NebInv, Staged
  <1>6. Covered' /\ WithinLimits' /\ Alone'  BY <1>1 DEF Covered, WithinLimits, Alone
  <1>7. Stepped'  BY <1>1 DEF NebInv, Stepped
  <1>8. NebProperties'
    <2>1. \A p \in Pairs \ chunk : saved'[p] = saved[p]  OBVIOUS
    <2> QED  BY <2>1 DEF NebInv, NebProperties, SuccessIsEarned, StepsWithinBudget,
                         FailuresSayWhy
  <1> QED  BY <1>2, <1>3, <1>4, <1>5, <1>6, <1>7, <1>8 DEF NebInv

\* The verdicts on a chunk.
LEMMA SaveKeeps == NebInv /\ Save => NebInv'
PROOF
  <1> SUFFICES ASSUME NebInv, Save  PROVE NebInv'
    OBVIOUS
  <1>1. PICK bands \in [chunk -> {"saddle", "endpoint", "absurd", "unreadable"}] :
          saved' = [p \in Pairs |-> IF p \in chunk THEN Verdict(p, bands[p]) ELSE saved[p]]
    BY DEF Save
  <1>2. /\ phase = "save" /\ phase' = "chunk"
        /\ UNCHANGED <<kind, todo, chunk, call, stage, retries, batch, active, count,
                       summaries, first, climb, force>>
    BY DEF Save, chunkVars, batchVars
  <1>3. Underway /\ Batching  BY <1>2 DEF Underway, Batching
  <1>4. chunk \subseteq Pairs  BY DEF NebInv, NebTypes
  <1>5. \A p \in chunk :
          /\ saved'[p] \in PairResults
          /\ saved'[p].status \in {"success", "failed"}
          /\ saved'[p].status = "success" => force[p] = "low" /\ p \in climb
          /\ saved'[p].steps <= NebSteps
          /\ saved'[p].status = "failed" => saved'[p].error # "none"
    <2> SUFFICES ASSUME NEW p \in chunk
                 PROVE  /\ saved'[p] \in PairResults
                        /\ saved'[p].status \in {"success", "failed"}
                        /\ saved'[p].status = "success" => force[p] = "low" /\ p \in climb
                        /\ saved'[p].steps <= NebSteps
                        /\ saved'[p].status = "failed" => saved'[p].error # "none"
      OBVIOUS
    <2>1. saved'[p] = Verdict(p, bands[p])  BY <1>1, <1>4
    <2>2. bands[p] \in {"saddle", "endpoint", "absurd", "unreadable"}  BY <1>1
    <2> QED  BY <1>2, <2>1, <2>2, VerdictFacts
  <1>6. \A p \in Pairs \ chunk : saved'[p] = saved[p]  BY <1>1
  <1>7. saved' \in [Pairs -> PairResults]
    <2>1. saved' = [p \in Pairs |-> saved'[p]]  BY <1>1
    <2>2. \A p \in Pairs : saved'[p] \in PairResults
      BY <1>5, <1>6 DEF NebInv, NebTypes
    <2> QED  BY <2>1, <2>2
  <1> QED  BY <1>2, <1>3, <1>5, <1>6, <1>7, ReportKeeps

\* The search is over, for whatever reason.
LEMMA OverKeeps ==
  ASSUME NebInv, phase' \in {"done", "raised"},
         UNCHANGED <<kind, saved, todo, chunk, call, stage, retries, batch, active, count,
                     summaries, first, climb, force>>
  PROVE  NebInv'
PROOF
  <1>1. ~Underway' /\ ~Batching' /\ ~Solo'  BY DEF Underway, Batching, Solo
  <1>2. NebTypes'  BY DEF NebInv, NebTypes
  <1>3. Prepared' /\ OnePlace' /\ Staged' /\ Covered' /\ WithinLimits' /\ Alone'
    BY <1>1 DEF Prepared, OnePlace, Staged, Covered, WithinLimits, Alone
  <1>4. Stepped'  BY <1>1 DEF NebInv, Stepped
  <1>5. NebProperties'
    BY DEF NebInv, NebProperties, SuccessIsEarned, StepsWithinBudget, FailuresSayWhy
  <1> QED  BY <1>2, <1>3, <1>4, <1>5 DEF NebInv

-----------------------------------------------------------------------------
(* The parallel search: setting up its chunks. *)

\* What is kept of a completed pair, and of one turned down.
LEMMA ResultTypes ==
  /\ NoResult \in PairResults /\ Resumed \in PairResults /\ SkippedPair \in PairResults
  /\ NoResult.status = "none" /\ NoResult.steps = 0
  /\ Resumed.status = "success" /\ Resumed.steps = 0
  /\ SkippedPair.status = "skipped" /\ SkippedPair.error = "invalid" /\ SkippedPair.steps = 0
  BY DEF NoResult, Resumed, SkippedPair, PairResults, Errors

\* What is kept of a pair that raised.
LEMMA FailedResult ==
  ASSUME NEW why \in Errors, NEW result,
         result = [NoResult EXCEPT !.status = "failed", !.error = why]
  PROVE  /\ result \in PairResults /\ result.status = "failed" /\ result.error = why
         /\ result.steps = 0
  BY DEF NoResult, PairResults

\* Results before any band has run: they are resumed, or say why they are none.
LEMMA SetupKeeps == NebInv /\ Setup => NebInv'
PROOF
  <1> SUFFICES ASSUME NebInv, Setup  PROVE NebInv'
    OBVIOUS
  <1>1. PICK verdict \in [Pairs -> {"resumed", "skipped", "single"}] :
          /\ kind' = verdict
          /\ saved' = [p \in Pairs |-> CASE verdict[p] = "resumed" -> Resumed
                                        [] verdict[p] = "skipped" -> SkippedPair
                                        [] OTHER -> NoResult]
    BY DEF Setup
  <1>2. /\ phase' = "screen"
        /\ UNCHANGED <<todo, chunk, call, stage, retries, batch, active, count,
                       summaries, first, climb, force>>
    BY DEF Setup, chunkVars, batchVars
  <1>3. ~Underway' /\ ~Batching' /\ ~Solo'  BY <1>2 DEF Underway, Batching, Solo
  <1>4. \A p \in Pairs : /\ kind'[p] = "resumed" => saved'[p] = Resumed
                         /\ kind'[p] = "skipped" => saved'[p] = SkippedPair
                         /\ kind'[p] = "single" => saved'[p] = NoResult
                         /\ kind'[p] \in {"resumed", "skipped", "single"}
    BY <1>1
  <1>5. NebTypes'
    <2>1. saved' \in [Pairs -> PairResults]
      <3>1. saved' = [p \in Pairs |-> saved'[p]]  BY <1>1
      <3>2. \A p \in Pairs : saved'[p] \in PairResults  BY <1>4, ResultTypes
      <3> QED  BY <3>1, <3>2
    <2>2. kind' \in [Pairs -> {"new", "resumed", "skipped", "single", "two"}]  BY <1>1
    <2> QED  BY <1>2, <2>1, <2>2 DEF NebInv, NebTypes
  <1>6. Prepared'  BY <1>2, <1>4, ResultTypes DEF Prepared
  <1>7. OnePlace' /\ Staged' /\ Covered' /\ WithinLimits' /\ Alone'
    BY <1>2, <1>3 DEF OnePlace, Staged, Covered, WithinLimits, Alone
  <1>8. Stepped'  BY <1>2, <1>3 DEF NebInv, Stepped
  <1>9. NebProperties'
    <2>1. NebSteps \in Nat  BY ParallelNebAssumption
    <2> QED  BY <1>4, <2>1, ResultTypes
          DEF NebProperties, SuccessIsEarned, StepsWithinBudget, FailuresSayWhy
  <1> QED  BY <1>5, <1>6, <1>7, <1>8, <1>9 DEF NebInv

\* The chunks of one kind: their bands are of that kind, each in one chunk.
LEMMA ChunksOfFacts ==
  ASSUME NEW how, NEW verdict
  PROVE  /\ ChunksOf(how, verdict) \in Seq(SUBSET {p \in Pairs : verdict[p] = how})
         /\ \A c, d \in DOMAIN ChunksOf(how, verdict) :
              c # d => ChunksOf(how, verdict)[c] \cap ChunksOf(how, verdict)[d] = {}
PROOF
  <1> DEFINE bands == {p \in Pairs : verdict[p] = how}
  <1>1. Len(Cost) = NPairs /\ NPairs \in Nat  BY ParallelNebAssumption DEF Pairs
  <1>2. bands \in SUBSET (1..Len(Cost))  BY <1>1 DEF Pairs
  <1>3. ChunksOf(how, verdict) = ChunkBands(bands, Cost, Budget, Cap)  BY DEF ChunksOf
  <1> HIDE DEF bands
  <1>4. /\ ChunkBands(bands, Cost, Budget, Cap) \in Seq(SUBSET bands)
        /\ \A c, d \in DOMAIN ChunkBands(bands, Cost, Budget, Cap) : c # d =>
             ChunkBands(bands, Cost, Budget, Cap)[c]
               \cap ChunkBands(bands, Cost, Budget, Cap)[d] = {}
    BY <1>1, <1>2, ChunksPartition
  <1> QED  BY <1>3, <1>4 DEF bands

\* The chunks of two kinds, one after the other: still each band in one.
LEMMA TwoKinds ==
  ASSUME NEW S, NEW U, S \cap U = {}, NEW s \in Seq(SUBSET S), NEW u \in Seq(SUBSET U),
         \A c, d \in DOMAIN s : c # d => s[c] \cap s[d] = {},
         \A c, d \in DOMAIN u : c # d => u[c] \cap u[d] = {}
  PROVE  /\ s \o u \in Seq(SUBSET (S \cup U))
         /\ \A c, d \in DOMAIN (s \o u) : c # d => (s \o u)[c] \cap (s \o u)[d] = {}
PROOF
  <1>1. /\ s \in Seq(SUBSET (S \cup U)) /\ u \in Seq(SUBSET (S \cup U))
    OBVIOUS
  <1>2. /\ s \o u \in Seq(SUBSET (S \cup U)) /\ Len(s \o u) = Len(s) + Len(u)
        /\ Len(s) \in Nat /\ Len(u) \in Nat
        /\ \A i \in 1..(Len(s) + Len(u)) :
             (s \o u)[i] = IF i <= Len(s) THEN s[i] ELSE u[i - Len(s)]
        /\ DOMAIN (s \o u) = 1..(Len(s) + Len(u))
        /\ DOMAIN s = 1..Len(s) /\ DOMAIN u = 1..Len(u)
    BY <1>1
  <1> DEFINE t == s \o u
  <1> HIDE DEF t
  <1>3. \A i \in 1..(Len(s) + Len(u)) :
          \/ i \in DOMAIN s /\ t[i] = s[i] /\ t[i] \subseteq S
          \/ i - Len(s) \in DOMAIN u /\ t[i] = u[i - Len(s)] /\ t[i] \subseteq U
               /\ i \notin DOMAIN s
    <2> SUFFICES ASSUME NEW i \in 1..(Len(s) + Len(u))
                 PROVE  \/ i \in DOMAIN s /\ t[i] = s[i] /\ t[i] \subseteq S
                        \/ i - Len(s) \in DOMAIN u /\ t[i] = u[i - Len(s)]
                             /\ t[i] \subseteq U /\ i \notin DOMAIN s
      OBVIOUS
    <2>1. t[i] = IF i <= Len(s) THEN s[i] ELSE u[i - Len(s)]  BY <1>2 DEF t
    <2>2. CASE i <= Len(s)
      <3>1. i \in DOMAIN s  BY <1>2, <2>2
      <3> QED  BY <2>1, <2>2, <3>1
    <2>3. CASE ~(i <= Len(s))
      <3>1. i - Len(s) \in DOMAIN u /\ i \notin DOMAIN s  BY <1>2, <2>3
      <3> QED  BY <2>1, <2>3, <3>1
    <2> QED  BY <2>2, <2>3
  <1>4. ASSUME NEW c \in 1..(Len(s) + Len(u)), NEW d \in 1..(Len(s) + Len(u)), c # d
        PROVE  t[c] \cap t[d] = {}
    <2>1. c - Len(s) # d - Len(s)  BY <1>2, <1>4
    <2>2. CASE c \in DOMAIN s /\ t[c] = s[c] /\ t[c] \subseteq S  BY <1>3, <1>4, <2>2
    <2>3. CASE c - Len(s) \in DOMAIN u /\ t[c] = u[c - Len(s)] /\ t[c] \subseteq U
               /\ c \notin DOMAIN s
      BY <1>3, <2>1, <2>3
    <2> QED  BY <1>3, <2>2, <2>3
  <1> QED  BY <1>2, <1>4 DEF t

\* The bands of the chunks have no result, and are of the kind that runs there.
LEMMA ScreenKeeps == NebInv /\ Screen => NebInv'
PROOF
  <1> SUFFICES ASSUME NebInv, Screen  PROVE NebInv'
    OBVIOUS
  <1>1. PICK verdict \in [Unsaved -> {"skipped", "single"} \cup
                                     IF NebSteps >= 4 THEN {"two"} ELSE {}] :
          /\ kind' = [p \in Pairs |-> IF p \in Unsaved THEN verdict[p] ELSE kind[p]]
          /\ saved' = [p \in Pairs |->
               IF p \in Unsaved /\ verdict[p] = "skipped" THEN SkippedPair ELSE saved[p]]
          /\ climb' = {p \in Unsaved : verdict[p] = "single"}
    BY DEF Screen
  <1>2. /\ phase = "screen" /\ phase' = "chunk"
        /\ todo' = ChunksOf("single", kind') \o ChunksOf("two", kind')
        /\ UNCHANGED <<chunk, call, stage, retries, batch, active, count, summaries,
                       first, force>>
    BY DEF Screen, batchVars
  <1>3. ~Underway' /\ ~Batching' /\ ~Solo' /\ ~Underway
    BY <1>2 DEF Underway, Batching, Solo
  <1>4. /\ \A p \in Pairs : /\ kind[p] \in {"resumed", "skipped", "single"}
                            /\ kind[p] = "single" => saved[p].status = "none"
                            /\ saved[p].status = "success" => kind[p] = "resumed"
        /\ Unsaved = {p \in Pairs : kind[p] = "single"}
    BY <1>2 DEF NebInv, Prepared, Unsaved
  <1>5. \A p \in Unsaved : \/ verdict[p] \in {"skipped", "single"}
                           \/ verdict[p] = "two" /\ NebSteps >= 4
    BY <1>1
  <1>6. \A p \in Pairs :
          /\ kind'[p] = "single" => saved'[p].status = "none" /\ p \in climb'
          /\ kind'[p] = "two" => saved'[p].status = "none" /\ NebSteps >= 4
          /\ saved'[p] = SkippedPair \/ saved'[p] = saved[p]
          /\ saved'[p].status = "success" => kind'[p] = "resumed"
          /\ kind'[p] \in {"resumed", "skipped", "single", "two"}
    <2> SUFFICES ASSUME NEW p \in Pairs
                 PROVE  /\ kind'[p] = "single" => saved'[p].status = "none" /\ p \in climb'
                        /\ kind'[p] = "two" => saved'[p].status = "none" /\ NebSteps >= 4
                        /\ saved'[p] = SkippedPair \/ saved'[p] = saved[p]
                        /\ saved'[p].status = "success" => kind'[p] = "resumed"
                        /\ kind'[p] \in {"resumed", "skipped", "single", "two"}
      OBVIOUS
    <2>1. CASE p \in Unsaved  BY <1>1, <1>4, <1>5, <2>1, ResultTypes
    <2>2. CASE p \notin Unsaved  BY <1>1, <1>4, <2>2
    <2> QED  BY <2>1, <2>2
  <1> DEFINE S == {p \in Pairs : kind'[p] = "single"}
             U == {p \in Pairs : kind'[p] = "two"}
  <1>7. /\ todo' \in Seq(SUBSET (S \cup U))
        /\ \A c, d \in DOMAIN todo' : c # d => todo'[c] \cap todo'[d] = {}
    <2>1. /\ ChunksOf("single", kind') \in Seq(SUBSET S)
          /\ \A c, d \in DOMAIN ChunksOf("single", kind') : c # d =>
               ChunksOf("single", kind')[c] \cap ChunksOf("single", kind')[d] = {}
      BY ChunksOfFacts
    <2>2. /\ ChunksOf("two", kind') \in Seq(SUBSET U)
          /\ \A c, d \in DOMAIN ChunksOf("two", kind') : c # d =>
               ChunksOf("two", kind')[c] \cap ChunksOf("two", kind')[d] = {}
      BY ChunksOfFacts
    <2>3. S \cap U = {}  OBVIOUS
    <2> HIDE DEF S, U
    <2> QED  BY <1>2, <2>1, <2>2, <2>3, TwoKinds
  <1>8. \A i \in DOMAIN todo' : \A p \in todo'[i] :
          p \in Pairs /\ kind'[p] \in {"single", "two"}
    BY <1>7
  <1>9. NebTypes'
    <2>1. saved' \in [Pairs -> PairResults]
      <3>1. saved' = [p \in Pairs |-> saved'[p]]  BY <1>1
      <3>2. \A p \in Pairs : saved'[p] \in PairResults
        BY <1>6, ResultTypes DEF NebInv, NebTypes
      <3> QED  BY <3>1, <3>2
    <2>2. kind' \in [Pairs -> {"new", "resumed", "skipped", "single", "two"}]
      <3>1. kind' = [p \in Pairs |-> kind'[p]]  BY <1>1
      <3> QED  BY <1>6, <3>1
    <2>3. todo' \in Seq(SUBSET Pairs)
      <3>1. SUBSET (S \cup U) \subseteq SUBSET Pairs  OBVIOUS
      <3> HIDE DEF S, U
      <3> QED  BY <1>7, <3>1
    <2>4. climb' \subseteq Pairs  BY <1>1, <1>4
    <2> QED  BY <1>2, <2>1, <2>2, <2>3, <2>4 DEF NebInv, NebTypes
  <1>10. Prepared'  BY <1>2 DEF Prepared
  <1>11. OnePlace'
    <2>1. \A i \in DOMAIN todo' : \A p \in todo'[i] : saved'[p].status = "none"
      BY <1>6, <1>8
    <2> QED  BY <1>3, <1>7, <2>1 DEF OnePlace
  <1>12. Staged'
    <2>1. \A i \in DOMAIN todo' : \A p \in todo'[i] :
            \/ kind'[p] = "single" /\ p \in climb'
            \/ kind'[p] = "two" /\ NebSteps >= 4
      BY <1>6, <1>8
    <2> QED  BY <1>2, <1>3, <2>1 DEF Staged
  <1>13. Covered' /\ WithinLimits' /\ Alone'  BY <1>3 DEF Covered, WithinLimits, Alone
  <1>14. Stepped'  BY <1>2, <1>3 DEF NebInv, Stepped
  <1>15. NebProperties'
    <2>1. NebSteps \in Nat  BY ParallelNebAssumption
    <2> QED  BY <1>6, <2>1, ResultTypes
          DEF NebInv, NebProperties, SuccessIsEarned, StepsWithinBudget, FailuresSayWhy
  <1> QED  BY <1>9, <1>10, <1>11, <1>12, <1>13, <1>14, <1>15 DEF NebInv

\* Every step of the parallel search.
LEMMA ParallelKeeps == NebInv /\ ParallelNext => NebInv'
PROOF
  <1> SUFFICES ASSUME NebInv, ParallelNext  PROVE NebInv'
    OBVIOUS
  <1>1. CASE ScreenRaises
    BY <1>1, OverKeeps DEF ScreenRaises, chunkVars, batchVars
  <1>2. CASE AllChunks
    BY <1>2, OverKeeps DEF AllChunks, chunkVars, batchVars
  <1>3. CASE OutOfMemory
    <2>1. Retry \/ GiveUp  BY <1>3 DEF OutOfMemory
    <2> QED  BY <1>3, <2>1, RetryKeeps, GiveUpKeeps
  <1> QED
    BY <1>1, <1>2, <1>3, SetupKeeps, ScreenKeeps, NextChunkKeeps, StepKeeps,
       EvaluationFailsKeeps, CloseKeeps, RefreshFailsKeeps, NextSubChunkKeeps,
       StartClimbKeeps, FinishedKeeps, SaveKeeps
    DEF ParallelNext

-----------------------------------------------------------------------------
(* The serial search. *)

\* Every pair on its own.
LEMMA SeriallyKeeps == NebInv /\ Serially => NebInv'
PROOF
  <1> SUFFICES ASSUME NebInv, Serially  PROVE NebInv'
    OBVIOUS
  <1>1. /\ phase = "setup" /\ phase' = "pair" /\ todo' = [p \in Pairs |-> {p}]
        /\ UNCHANGED <<kind, saved, chunk, call, stage, retries, batch, active, count,
                       summaries, first, climb, force>>
    BY DEF Serially, batchVars
  <1>2. ~Underway' /\ ~Batching' /\ ~Solo'  BY <1>1 DEF Underway, Batching, Solo
  <1>3. todo' \in Seq(SUBSET Pairs)
    <2>1. Pairs = 1..NPairs /\ NPairs \in Nat  BY ParallelNebAssumption DEF Pairs
    <2>2. todo' \in [1..NPairs -> SUBSET Pairs]  BY <1>1, <2>1
    <2> QED  BY <2>1, <2>2
  <1>4. NebTypes'  BY <1>1, <1>3 DEF NebInv, NebTypes
  <1>5. OnePlace'
    <2>1. \A p \in Pairs : saved[p].status = "none"
      BY <1>1, ResultTypes DEF NebInv, Prepared
    <2>2. DOMAIN todo' = Pairs /\ \A i \in Pairs : todo'[i] = {i}  BY <1>1
    <2> QED  BY <1>1, <1>2, <2>1, <2>2 DEF OnePlace
  <1>6. Prepared' /\ Staged' /\ Covered' /\ WithinLimits' /\ Alone'
    BY <1>1, <1>2 DEF Prepared, Staged, Covered, WithinLimits, Alone
  <1>7. Stepped'  BY <1>1, <1>2 DEF NebInv, Stepped
  <1>8. NebProperties'
    BY <1>1 DEF NebInv, NebProperties, SuccessIsEarned, StepsWithinBudget, FailuresSayWhy
  <1> QED  BY <1>4, <1>5, <1>6, <1>7, <1>8 DEF NebInv

\* The pair that is next leaves the others where they are.
LEMMA NextPairFacts ==
  ASSUME NebInv, NEW p \in Pairs, NEW how, NextPair(p, how)
  PROVE  /\ phase = "pair" /\ todo' \in Seq(SUBSET Pairs)
         /\ saved[p].status = "none"
         /\ \A i \in DOMAIN todo' : \A q \in todo'[i] :
              q \in Pairs /\ q # p /\ saved[q].status = "none"
         /\ \A i, k \in DOMAIN todo' : i # k => todo'[i] \cap todo'[k] = {}
         /\ kind' = [kind EXCEPT ![p] = how]
         /\ UNCHANGED <<retries, batch, active, count>>
PROOF
  <1>1. /\ phase = "pair" /\ todo # <<>> /\ p \in Head(todo) /\ todo' = Tail(todo)
        /\ kind' = [kind EXCEPT ![p] = how] /\ UNCHANGED <<retries, batch, active, count>>
    BY DEF NextPair, batchVars
  <1>2. todo \in Seq(SUBSET Pairs)  BY DEF NebInv, NebTypes
  <1>3. /\ 1 \in DOMAIN todo /\ p \in todo[1] /\ todo' \in Seq(SUBSET Pairs)
        /\ \A i \in DOMAIN todo' : i + 1 \in DOMAIN todo /\ i + 1 # 1 /\ todo'[i] = todo[i + 1]
        /\ \A i, k \in DOMAIN todo' : i # k => i + 1 # k + 1
    BY <1>1, <1>2, HeadAndTail
  <1>4. /\ \A i \in DOMAIN todo : \A q \in todo[i] : saved[q].status = "none"
        /\ \A i, k \in DOMAIN todo : i # k => todo[i] \cap todo[k] = {}
    BY <1>1 DEF NebInv, OnePlace
  <1>5. \A i \in DOMAIN todo' : \A q \in todo'[i] :
          q \in Pairs /\ q # p /\ saved[q].status = "none"
    BY <1>2, <1>3, <1>4
  <1>6. \A i, k \in DOMAIN todo' : i # k => todo'[i] \cap todo'[k] = {}
    BY <1>3, <1>4
  <1> QED  BY <1>1, <1>3, <1>4, <1>5, <1>6

\* A pair that has its result without a run.
LEMMA SettleKeeps == ASSUME NEW p \in Pairs  PROVE NebInv /\ Settle(p) => NebInv'
PROOF
  <1> SUFFICES ASSUME NebInv, Settle(p)  PROVE NebInv'
    OBVIOUS
  <1> DEFINE result == saved'[p]
  <1>1. /\ UNCHANGED <<phase, chunk, call, stage, summaries, first, climb, force>>
        /\ \/ NextPair(p, "resumed") /\ Report(p, Resumed)
           \/ NextPair(p, "skipped") /\ Report(p, SkippedPair)
           \/ /\ NextPair(p, "new")
              /\ Report(p, [NoResult EXCEPT !.status = "failed", !.error = "setup"])
    BY DEF Settle
  <1>2. /\ phase = "pair" /\ phase' = "pair" /\ todo' \in Seq(SUBSET Pairs)
        /\ \A i \in DOMAIN todo' : \A q \in todo'[i] :
             q \in Pairs /\ q # p /\ saved[q].status = "none"
        /\ \A i, k \in DOMAIN todo' : i # k => todo'[i] \cap todo'[k] = {}
        /\ UNCHANGED <<retries, batch, active, count>>
    BY <1>1, NextPairFacts
  <1>3. /\ saved' = [saved EXCEPT ![p] = result]
        /\ kind' = [kind EXCEPT ![p] = kind'[p]]
        /\ result \in PairResults /\ result.steps = 0
        /\ kind'[p] \in {"resumed", "skipped", "new"}
        /\ result.status = "success" => kind'[p] = "resumed"
        /\ result.status \in {"failed", "skipped"} => result.error # "none"
    <2>1. saved \in [Pairs -> PairResults] /\ DOMAIN kind = Pairs
      BY DEF NebInv, NebTypes
    <2>2. CASE NextPair(p, "resumed") /\ Report(p, Resumed)
      BY <2>1, <2>2, ResultTypes DEF NextPair, Report
    <2>3. CASE NextPair(p, "skipped") /\ Report(p, SkippedPair)
      BY <2>1, <2>3, ResultTypes DEF NextPair, Report
    <2>4. CASE /\ NextPair(p, "new")
               /\ Report(p, [NoResult EXCEPT !.status = "failed", !.error = "setup"])
      <3>1. result = [NoResult EXCEPT !.status = "failed", !.error = "setup"]
        BY <2>1, <2>4 DEF Report
      <3>2. /\ result \in PairResults /\ result.steps = 0 /\ result.status = "failed"
            /\ result.error = "setup"
        <4>1. "setup" \in Errors  BY DEF Errors
        <4> HIDE DEF result
        <4> QED  BY <3>1, <4>1, FailedResult
      <3>3. saved' = [saved EXCEPT ![p] = result]  BY <2>1, <2>4 DEF Report
      <3>4. kind' = [kind EXCEPT ![p] = "new"]  BY <2>4 DEF NextPair
      <3> HIDE DEF result
      <3> QED  BY <2>1, <3>2, <3>3, <3>4
    <2> QED  BY <1>1, <2>2, <2>3, <2>4
  <1> HIDE DEF result
  <1>4. \A q \in Pairs \ {p} : saved'[q] = saved[q] /\ kind'[q] = kind[q]
    BY <1>3 DEF NebInv, NebTypes
  <1>5. saved'[p] = result  BY <1>3 DEF NebInv, NebTypes
  <1>6. ~Underway' /\ ~Batching' /\ ~Solo'  BY <1>2 DEF Underway, Batching, Solo
  <1>7. NebTypes'
    <2>1. saved' \in [Pairs -> PairResults]  BY <1>3 DEF NebInv, NebTypes
    <2>2. kind' \in [Pairs -> {"new", "resumed", "skipped", "single", "two"}]
      BY <1>3 DEF NebInv, NebTypes
    <2> QED  BY <1>1, <1>2, <2>1, <2>2 DEF NebInv, NebTypes
  <1>8. OnePlace'  BY <1>2, <1>4, <1>6 DEF OnePlace
  <1>9. Prepared' /\ Staged' /\ Covered' /\ WithinLimits' /\ Alone'
    BY <1>2, <1>6 DEF Prepared, Staged, Covered, WithinLimits, Alone
  <1>10. Stepped'  BY <1>1, <1>2, <1>6 DEF NebInv, Stepped
  <1>11. NebProperties'
    <2>1. NebSteps \in Nat  BY ParallelNebAssumption
    <2>2. SuccessIsEarned'  BY <1>1, <1>3, <1>4, <1>5 DEF NebInv, NebProperties, SuccessIsEarned
    <2>3. StepsWithinBudget'
      BY <1>3, <1>4, <1>5, <2>1 DEF NebInv, NebProperties, StepsWithinBudget
    <2>4. FailuresSayWhy'  BY <1>3, <1>4, <1>5 DEF NebInv, NebProperties, FailuresSayWhy
    <2> QED  BY <2>2, <2>3, <2>4 DEF NebProperties
  <1> QED  BY <1>7, <1>8, <1>9, <1>10, <1>11 DEF NebInv

\* A pair whose optimizer starts.
LEMMA LaunchKeeps ==
  ASSUME NEW p \in Pairs, NEW how \in {"single", "two"}
  PROVE  NebInv /\ Launch(p, how) => NebInv'
PROOF
  <1> SUFFICES ASSUME NebInv, Launch(p, how)  PROVE NebInv'
    OBVIOUS
  <1>1. /\ NextPair(p, how) /\ (how = "two" => NebSteps >= 4)
        /\ climb' = IF how = "single" THEN climb \cup {p} ELSE climb
        /\ summaries' = [summaries EXCEPT ![p] = Fresh]
        /\ chunk' = {p} /\ call' = {p}
        /\ stage' = IF how = "two" THEN "relax" ELSE "single"
        /\ phase' = "run" /\ UNCHANGED <<saved, first, force>>
    BY DEF Launch
  <1>2. /\ phase = "pair" /\ todo' \in Seq(SUBSET Pairs) /\ saved[p].status = "none"
        /\ \A i \in DOMAIN todo' : \A q \in todo'[i] :
             q \in Pairs /\ q # p /\ saved[q].status = "none"
        /\ \A i, k \in DOMAIN todo' : i # k => todo'[i] \cap todo'[k] = {}
        /\ kind' = [kind EXCEPT ![p] = how]
        /\ UNCHANGED <<retries, batch, active, count>>
    BY <1>1, NextPairFacts
  <1>3. /\ Underway' /\ ~Batching' /\ Solo'  BY <1>1 DEF Underway, Batching, Solo
  <1>4. /\ Fresh \in BandSummaries /\ ~Fresh.converged /\ Fresh.steps = 0
    BY DEF Fresh, BandSummaries, Errors
  <1>5. /\ summaries'[p] = Fresh
        /\ \A q \in Pairs \ {p} : summaries'[q] = summaries[q] /\ kind'[q] = kind[q]
    BY <1>1, <1>2 DEF NebInv, NebTypes
  <1>6. NebTypes'
    <2>1. summaries' \in [Pairs -> BandSummaries]  BY <1>1, <1>4 DEF NebInv, NebTypes
    <2>2. kind' \in [Pairs -> {"new", "resumed", "skipped", "single", "two"}]
      BY <1>2 DEF NebInv, NebTypes
    <2> QED  BY <1>1, <1>2, <2>1, <2>2 DEF NebInv, NebTypes
  <1>7. OnePlace'  BY <1>1, <1>2, <1>3 DEF OnePlace
  <1>8. Staged'  BY <1>1, <1>3 DEF Staged
  <1>9. Prepared' /\ Covered' /\ WithinLimits'
    BY <1>1, <1>3 DEF Prepared, Covered, WithinLimits
  <1>10. Stepped'  BY <1>1, <1>3, <1>4, <1>5 DEF NebInv, Stepped
  <1>11. Alone'  BY <1>1, <1>4, <1>5 DEF Alone
  <1>12. NebProperties'
    BY <1>1, <1>2, <1>5
    DEF NebInv, NebProperties, SuccessIsEarned, StepsWithinBudget, FailuresSayWhy
  <1> QED  BY <1>6, <1>7, <1>8, <1>9, <1>10, <1>11, <1>12 DEF NebInv

\* The one pair that is under way in the serial search.
LEMMA ThePair ==
  ASSUME NebInv, Solo
  PROVE  /\ pair \in Pairs /\ chunk = {pair} /\ Underway /\ ~Batching
         /\ summaries[pair] \in BandSummaries /\ first[pair] \in BandSummaries
         /\ BandLimit(pair) \in Nat \ {0} /\ BandLimit(pair) <= NebSteps
         /\ stage = "relax" => NebSteps >= 4 /\ BandLimit(pair) = NebSteps \div 2
         /\ stage = "climb" => BandLimit(pair) + first[pair].steps = NebSteps
         /\ stage # "relax" => pair \in climb
         /\ phase = "run" =>
              /\ ~summaries[pair].converged
              /\ summaries[pair].steps = IF stage = "climb" THEN first[pair].steps ELSE 0
         /\ phase = "judge" => ~summaries[pair].converged
         /\ phase \in {"judge", "finalize"} => summaries[pair].steps <= NebSteps
         /\ phase = "finalize" => Explained(pair)
PROOF
  <1>1. Underway /\ ~Batching  BY DEF Underway, Batching, Solo
  <1>2. PICK p \in Pairs :
          /\ chunk = {p}
          /\ phase = "run" =>
               /\ ~summaries[p].converged
               /\ summaries[p].steps = IF stage = "climb" THEN first[p].steps ELSE 0
          /\ phase = "judge" => ~summaries[p].converged
          /\ phase \in {"judge", "finalize"} => summaries[p].steps <= NebSteps
          /\ phase = "finalize" => Explained(p)
    BY DEF NebInv, Alone
  <1>3. pair = p  BY <1>2 DEF pair
  <1>4. /\ BandLimit(p) \in Nat \ {0} /\ BandLimit(p) <= NebSteps
        /\ stage = "relax" => BandLimit(p) = NebSteps \div 2
        /\ stage = "climb" => BandLimit(p) + first[p].steps = NebSteps
    <2>1. /\ NebTypes /\ (stage = "relax" => NebSteps >= 4)
          /\ (stage = "climb" => \A q \in chunk : first[q].steps <= NebSteps \div 2)
          /\ p \in chunk
      BY <1>1, <1>2 DEF NebInv, Staged, WithinLimits
    <2> QED  BY <2>1, LimitsArePositive
  <1>5. summaries[p] \in BandSummaries /\ first[p] \in BandSummaries
    BY DEF NebInv, NebTypes
  <1>6. /\ stage = "relax" => NebSteps >= 4
        /\ stage # "relax" => p \in climb
    BY <1>1, <1>2 DEF NebInv, Staged
  <1> QED  BY <1>1, <1>2, <1>3, <1>4, <1>5, <1>6

\* The relaxing run takes half of the budget, the climbing one what is left.
LEMMA RunKeeps == NebInv /\ Run => NebInv'
PROOF
  <1> SUFFICES ASSUME NebInv, Run  PROVE NebInv'
    OBVIOUS
  <1>1. PICK n \in 0..BandLimit(pair), part \in {"low", "high", "nan"} :
          /\ summaries' = [summaries EXCEPT ![pair].steps = @ + n]
          /\ force' = [force EXCEPT ![pair] = IF stage = "relax" THEN "stale" ELSE part]
    BY DEF Run
  <1>2. /\ phase = "run"
        /\ UNCHANGED <<kind, saved, todo, chunk, call, retries, batch, active, count>>
        /\ \/ /\ stage = "relax" /\ stage' = "climb" /\ climb' = climb \cup {pair}
              /\ first' = [first EXCEPT ![pair] = summaries'[pair]] /\ phase' = "run"
           \/ /\ stage # "relax" /\ phase' = "judge" /\ UNCHANGED <<stage, climb, first>>
    BY DEF Run, batchVars
  <1>3. /\ Solo /\ Underway' /\ ~Batching' /\ Solo'
    BY <1>2 DEF Underway, Batching, Solo
  <1>4. /\ pair \in Pairs /\ chunk = {pair} /\ Underway /\ ~Batching
        /\ summaries[pair] \in BandSummaries /\ first[pair] \in BandSummaries
        /\ BandLimit(pair) \in Nat \ {0} /\ BandLimit(pair) <= NebSteps
        /\ stage = "relax" => NebSteps >= 4 /\ BandLimit(pair) = NebSteps \div 2
        /\ stage = "climb" => BandLimit(pair) + first[pair].steps = NebSteps
        /\ stage # "relax" => pair \in climb
        /\ ~summaries[pair].converged
        /\ summaries[pair].steps = IF stage = "climb" THEN first[pair].steps ELSE 0
    BY <1>2, <1>3, ThePair
  <1>5. /\ summaries'[pair] \in BandSummaries /\ ~summaries'[pair].converged
        /\ summaries'[pair].steps = summaries[pair].steps + n
        /\ \A q \in Pairs \ {pair} : summaries'[q] = summaries[q] /\ force'[q] = force[q]
    <2> DEFINE s == summaries[pair]
    <2>1. summaries \in [Pairs -> BandSummaries] /\ DOMAIN force = Pairs
      BY DEF NebInv, NebTypes
    <2>2. summaries'[pair] = [s EXCEPT !.steps = @ + n]  BY <1>1, <1>4, <2>1
    <2>3. \A q \in Pairs \ {pair} : summaries'[q] = summaries[q] /\ force'[q] = force[q]
      BY <1>1, <2>1
    <2>4. s \in BandSummaries /\ ~s.converged /\ n \in Nat  BY <1>4
    <2> HIDE DEF s
    <2>5. /\ summaries'[pair] \in BandSummaries /\ ~summaries'[pair].converged
          /\ summaries'[pair].steps = s.steps + n
      BY <2>2, <2>4 DEF BandSummaries
    <2> QED  BY <2>3, <2>5 DEF s
  <1>6. NebTypes'
    <2>1. summaries' \in [Pairs -> BandSummaries]
      <3>1. summaries' = [q \in Pairs |-> summaries'[q]]  BY <1>1 DEF NebInv, NebTypes
      <3>2. \A q \in Pairs : summaries'[q] \in BandSummaries
        BY <1>5 DEF NebInv, NebTypes
      <3> QED  BY <3>1, <3>2
    <2>2. force' \in [Pairs -> {"stale", "low", "high", "nan"}]
      BY <1>1 DEF NebInv, NebTypes
    <2>3. first' \in [Pairs -> BandSummaries] /\ climb' \subseteq Pairs
          /\ stage' \in {"single", "relax", "climb"}
      BY <1>2, <1>4, <1>5 DEF NebInv, NebTypes
    <2> QED  BY <1>2, <2>1, <2>2, <2>3 DEF NebInv, NebTypes
  <1>7. Prepared' /\ OnePlace' /\ NebProperties'
    <2>1. climb \subseteq climb'  BY <1>2
    <2>2. \A q \in Pairs \ chunk : force'[q] = force[q]  BY <1>4, <1>5
    <2> QED  BY <1>2, <1>3, <1>4, <2>1, <2>2, InnerStep
  <1>8. Staged' /\ Covered'
    <2>1. stage' # "relax" /\ chunk' \subseteq climb' /\ phase' # "chunk"  BY <1>2, <1>4
    <2> QED  BY <1>3, <2>1 DEF Staged, Covered
  <1>9. Stepped'
    <2>1. \A q \in Pairs : summaries'[q].converged => force'[q] = "low"
      BY <1>5 DEF NebInv, Stepped
    <2> QED  BY <1>2, <1>3, <2>1 DEF Stepped
  <1>10. WithinLimits' /\ Alone'
    <2>1. CASE stage = "relax"
      <3>1. first'[pair] = summaries'[pair] /\ phase' = "run" /\ stage' = "climb"
        BY <1>2, <1>4, <2>1 DEF NebInv, NebTypes
      <3>2. summaries'[pair].steps = n /\ n <= NebSteps \div 2
        BY <1>4, <1>5, <2>1
      <3>3. chunk' = {pair} /\ pair \in Pairs  BY <1>2, <1>4
      <3>4. WithinLimits'  BY <1>3, <3>1, <3>2, <3>3 DEF WithinLimits
      <3>5. Alone'  BY <1>5, <3>1, <3>3 DEF Alone
      <3> QED  BY <3>4, <3>5
    <2>2. CASE stage # "relax"
      <3>1. phase' = "judge" /\ stage' = stage /\ first' = first  BY <1>2, <2>2
      <3>2. summaries'[pair].steps <= NebSteps
        <4>1. first[pair].steps \in Nat /\ NebSteps \in Nat
          BY <1>4, ParallelNebAssumption DEF BandSummaries
        <4> QED  BY <1>4, <1>5, <2>2, <4>1
      <3>3. WithinLimits'
        BY <1>2, <1>3, <1>4, <3>1 DEF NebInv, WithinLimits
      <3>4. Alone'  BY <1>2, <1>4, <1>5, <3>1, <3>2 DEF Alone
      <3> QED  BY <3>3, <3>4
    <2> QED  BY <2>1, <2>2
  <1> QED  BY <1>6, <1>7, <1>8, <1>9, <1>10 DEF NebInv

\* A pair whose run raises has failed, and says so.
LEMMA RunRaisesKeeps == NebInv /\ RunRaises => NebInv'
PROOF
  <1> SUFFICES ASSUME NebInv, RunRaises  PROVE NebInv'
    OBVIOUS
  <1> DEFINE result == [NoResult EXCEPT !.status = "failed", !.error = "run"]
  <1>1. /\ phase = "run" /\ phase' = "pair" /\ saved' = [saved EXCEPT ![pair] = result]
        /\ UNCHANGED <<kind, todo, chunk, call, stage, retries, batch, active, count,
                       summaries, first, climb, force>>
    BY DEF RunRaises, Report, Ended, chunkVars, batchVars
  <1>2. /\ result \in PairResults /\ result.status = "failed" /\ result.error = "run"
        /\ result.steps = 0
    <2>1. "run" \in Errors  BY DEF Errors
    <2> QED  BY <2>1, FailedResult
  <1> HIDE DEF result
  <1>3. Solo  BY <1>1 DEF Solo
  <1>4. pair \in Pairs /\ chunk = {pair} /\ Underway  BY <1>3, ThePair
  <1>5. /\ saved'[pair] = result
        /\ \A p \in Pairs \ chunk : saved'[p] = saved[p]
        /\ saved' \in [Pairs -> PairResults]
    BY <1>1, <1>2, <1>4 DEF NebInv, NebTypes
  <1>6. NebSteps \in Nat  BY ParallelNebAssumption
  <1>7. \A p \in chunk :
          /\ saved'[p].status \in {"success", "failed"}
          /\ saved'[p].status = "success" => force[p] = "low" /\ p \in climb
          /\ saved'[p].steps <= NebSteps
          /\ saved'[p].status = "failed" => saved'[p].error # "none"
    BY <1>2, <1>4, <1>5, <1>6
  <1> QED  BY <1>1, <1>4, <1>5, <1>7, ReportKeeps

\* Convergence is read off the force of the last geometry, or there is an error.
LEMMA JudgeKeeps == NebInv /\ Judge => NebInv'
PROOF
  <1> SUFFICES ASSUME NebInv, Judge  PROVE NebInv'
    OBVIOUS
  <1>1. /\ phase = "judge" /\ phase' = "finalize"
        /\ UNCHANGED <<kind, saved, todo, chunk, call, stage, retries, batch, active,
                       count, first, climb, force>>
        /\ \/ summaries' = [summaries EXCEPT ![pair] =
                IF force[pair] = "low" THEN [@ EXCEPT !.converged = TRUE]
                ELSE [@ EXCEPT !.error = "unconverged"]]
           \/ summaries' = [summaries EXCEPT ![pair].error = "unread"]
    BY DEF Judge, Ended, chunkVars, batchVars
  <1>2. Solo /\ Underway' /\ ~Batching' /\ Solo'  BY <1>1 DEF Underway, Batching, Solo
  <1>3. /\ pair \in Pairs /\ chunk = {pair} /\ Underway /\ ~Batching
        /\ summaries[pair] \in BandSummaries /\ ~summaries[pair].converged
        /\ summaries[pair].steps <= NebSteps
    BY <1>1, <1>2, ThePair
  <1>4. /\ \A q \in Pairs \ {pair} : summaries'[q] = summaries[q]
        /\ summaries'[pair] \in BandSummaries
        /\ summaries'[pair].steps = summaries[pair].steps
        /\ summaries'[pair].converged => force[pair] = "low"
        /\ summaries'[pair].converged \/ summaries'[pair].error # "none"
    <2> DEFINE s == summaries[pair]
               t == summaries'[pair]
    <2>1. DOMAIN summaries = Pairs /\ s \in BandSummaries /\ ~s.converged
      BY <1>3 DEF NebInv, NebTypes
    <2>2. \A q \in Pairs \ {pair} : summaries'[q] = summaries[q]  BY <1>1, <2>1
    <2>3. \/ force[pair] = "low" /\ t = [s EXCEPT !.converged = TRUE]
          \/ t = [s EXCEPT !.error = "unconverged"]
          \/ t = [s EXCEPT !.error = "unread"]
      BY <1>1, <1>3, <2>1
    <2> HIDE DEF s, t
    <2>4. /\ t \in BandSummaries /\ t.steps = s.steps
          /\ t.converged => force[pair] = "low"
          /\ t.converged \/ t.error # "none"
      BY <2>1, <2>3 DEF BandSummaries, Errors
    <2> QED  BY <2>2, <2>4 DEF s, t
  <1>5. NebTypes'
    <2>1. summaries' \in [Pairs -> BandSummaries]
      <3>1. summaries' = [q \in Pairs |-> summaries'[q]]  BY <1>1 DEF NebInv, NebTypes
      <3>2. \A q \in Pairs : summaries'[q] \in BandSummaries
        BY <1>4 DEF NebInv, NebTypes
      <3> QED  BY <3>1, <3>2
    <2> QED  BY <1>1, <2>1 DEF NebInv, NebTypes
  <1>6. Prepared' /\ OnePlace' /\ NebProperties'
    BY <1>1, <1>2, <1>3, InnerStep
  <1>7. Staged' /\ Covered' /\ WithinLimits'
    BY <1>1, <1>2, <1>3 DEF NebInv, Staged, Covered, WithinLimits
  <1>8. Stepped'
    <2>1. \A q \in Pairs : summaries'[q].converged => force'[q] = "low"
      BY <1>1, <1>4 DEF NebInv, Stepped
    <2> QED  BY <1>1, <1>2, <2>1 DEF Stepped
  <1>9. Alone'  BY <1>1, <1>3, <1>4 DEF Alone, Explained
  <1> QED  BY <1>5, <1>6, <1>7, <1>8, <1>9 DEF NebInv

\* The verdict on a pair.
LEMMA FinalizeKeeps == NebInv /\ Finalize => NebInv'
PROOF
  <1> SUFFICES ASSUME NebInv, Finalize  PROVE NebInv'
    OBVIOUS
  <1>1. PICK band \in {"saddle", "endpoint", "absurd", "unreadable", "unclassified"} :
          saved' = [saved EXCEPT ![pair] = SerialVerdict(summaries[pair], band)]
    BY DEF Finalize, Report
  <1>2. /\ phase = "finalize" /\ phase' = "pair"
        /\ UNCHANGED <<kind, todo, chunk, call, stage, retries, batch, active, count,
                       summaries, first, climb, force>>
    BY DEF Finalize, Ended, chunkVars, batchVars
  <1>3. Solo  BY <1>2 DEF Solo
  <1>4. /\ pair \in Pairs /\ chunk = {pair} /\ Underway
        /\ summaries[pair] \in BandSummaries /\ summaries[pair].steps <= NebSteps
        /\ (stage # "relax" => pair \in climb)
        /\ summaries[pair].converged \/ summaries[pair].error # "none"
    BY <1>2, <1>3, ThePair DEF Explained
  <1>5. /\ pair \in climb
        /\ summaries[pair].converged => force[pair] = "low"
    BY <1>2, <1>4 DEF NebInv, Staged, Stepped
  <1> DEFINE result == SerialVerdict(summaries[pair], band)
  <1>6. /\ result \in PairResults /\ result.status \in {"success", "failed"}
        /\ result.status = "success" => force[pair] = "low"
        /\ result.steps <= NebSteps
        /\ result.status = "failed" => result.error # "none"
    <2> DEFINE s == summaries[pair]
    <2>1. /\ s.converged \in BOOLEAN /\ s.error \in Errors /\ s.steps \in Nat
          /\ s.steps <= NebSteps
          /\ s.converged => force[pair] = "low"
          /\ s.converged \/ s.error # "none"
      BY <1>4, <1>5 DEF BandSummaries
    <2>2. band # "saddle" => band \in Errors /\ band # "none"  BY DEF Errors
    <2> HIDE DEF s
    <2>3. CASE band \in {"saddle", "unclassified"} /\ s.converged
      <3>1. SerialVerdict(s, band) =
              [status |-> "success",
               converged |-> s.converged /\ band \notin {"endpoint", "absurd"},
               error |-> IF band = "saddle" THEN s.error ELSE band, steps |-> s.steps]
        BY <2>3 DEF SerialVerdict
      <3> QED  BY <2>1, <2>2, <2>3, <3>1 DEF PairResults, s
    <2>4. CASE ~(band \in {"saddle", "unclassified"} /\ s.converged)
      <3>1. SerialVerdict(s, band) =
              [status |-> "failed",
               converged |-> s.converged /\ band \notin {"endpoint", "absurd"},
               error |-> IF band = "saddle" THEN s.error ELSE band, steps |-> s.steps]
        BY <2>4 DEF SerialVerdict
      <3> QED  BY <2>1, <2>2, <2>4, <3>1 DEF PairResults, s
    <2> QED  BY <2>3, <2>4
  <1> HIDE DEF result
  <1>7. /\ saved'[pair] = result
        /\ \A p \in Pairs \ chunk : saved'[p] = saved[p]
        /\ saved' \in [Pairs -> PairResults]
    BY <1>1, <1>4, <1>6 DEF NebInv, NebTypes, result
  <1>8. \A p \in chunk :
          /\ saved'[p].status \in {"success", "failed"}
          /\ saved'[p].status = "success" => force[p] = "low" /\ p \in climb
          /\ saved'[p].steps <= NebSteps
          /\ saved'[p].status = "failed" => saved'[p].error # "none"
    BY <1>4, <1>5, <1>6, <1>7
  <1> QED  BY <1>2, <1>4, <1>7, <1>8, ReportKeeps

\* Every step of either search, and no step.
LEMMA SearchKeeps == NebInv /\ [SearchNext]_nebVars => NebInv'
PROOF
  <1> SUFFICES ASSUME NebInv, [SearchNext]_nebVars  PROVE NebInv'
    OBVIOUS
  <1>1. CASE AllPairs
    BY <1>1, OverKeeps DEF AllPairs, Ended, chunkVars, batchVars
  <1>2. CASE Escapes
    BY <1>2, OverKeeps DEF Escapes, Ended, chunkVars, batchVars
  <1>3. CASE \E p \in Pairs : Settle(p) \/ Launch(p, "single") \/ Launch(p, "two")
    BY <1>3, SettleKeeps, LaunchKeeps
  <1>4. CASE UNCHANGED nebVars
    BY <1>4 DEF nebVars, NebInv, NebTypes, Prepared, OnePlace, Staged, Covered, Stepped,
      WithinLimits, Alone, NebProperties, SuccessIsEarned, StepsWithinBudget,
      FailuresSayWhy, Underway, Batching, Solo, Explained, BandLimit, ClimbBudget
  <1> QED
    BY <1>1, <1>2, <1>3, <1>4, ParallelKeeps, SeriallyKeeps, RunKeeps, RunRaisesKeeps,
       JudgeKeeps, FinalizeKeeps
    DEF SearchNext
-----------------------------------------------------------------------------
(* What holds of the search. *)

\* The invariant of the search: wherever a pair waits or runs, it has no
\* result, its summary is explained and its steps are within its stage's share.
THEOREM NebInvariance == SearchSpec => []NebInv
PROOF
  <1>1. NebInit => NebInv  BY NebInitInv
  <1>2. NebInv /\ [SearchNext]_nebVars => NebInv'  BY SearchKeeps
  <1> QED  BY <1>1, <1>2, PTL DEF SearchSpec

\* A transition state is reported only for a band whose force is low where the
\* band now is, with its climbing image on: neither the relaxing stage, a
\* chunk that ran out of memory nor a stale force makes one.
THEOREM SuccessesAreEarned == SearchSpec => []SuccessIsEarned
PROOF
  <1>1. NebInv => SuccessIsEarned  BY DEF NebInv, NebProperties
  <1> QED  BY <1>1, NebInvariance, PTL

\* Both stages of a band, and whatever of it was retried, take no more than
\* neb_steps steps.
THEOREM BudgetIsKept == SearchSpec => []StepsWithinBudget
PROOF
  <1>1. NebInv => StepsWithinBudget  BY DEF NebInv, NebProperties
  <1> QED  BY <1>1, NebInvariance, PTL

\* A pair that failed or was skipped says why, whichever exception ended it.
THEOREM FailuresAreExplained == SearchSpec => []FailuresSayWhy
PROOF
  <1>1. NebInv => FailuresSayWhy  BY DEF NebInv, NebProperties
  <1> QED  BY <1>1, NebInvariance, PTL
=============================================================================
