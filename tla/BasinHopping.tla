---------------------------- MODULE BasinHopping -----------------------------
(***************************************************************************)
(* bh_go and simple_go (algorithms/basinhopping_go.py, simple_go.py) on    *)
(* one database file: a call prepares the database, takes a structure that *)
(* is not relaxed yet, walks from it, and returns the minima of the whole  *)
(* file.  A call may fail or be killed at any moment, and the next one may *)
(* find the file as it was left ("clean" is false, or the file could not   *)
(* be removed).                                                            *)
(*                                                                         *)
(* A relaxed structure is one of the Geometries.  ASE copies share their   *)
(* tags: those of the walk are one bag, handed from each structure to the  *)
(* next and written with every row.  What a row's relaxation really gave   *)
(* is kept as history ("failed").                                          *)
(***************************************************************************)
EXTENDS Integers, Sequences, FiniteSets

CONSTANTS
  Geometries,    \* relaxed structures
  EnergyOf,      \* per geometry, its energy in steps of the resolution
  Sound,         \* those that validate_minimum_structure lets pass
  Alike,         \* what the comparator takes for one another (looks_like)
  EnergyTolerance, \* energy_tolerance
  Penalty,       \* PENALTY_ENERGY
  Niter,         \* hops of a walk
  Hot,           \* temperature is above zero
  HighEnergy,    \* the fitness is the energy, not its opposite
  MaxCalls,      \* calls on the file (bound of the model)
  None

ASSUME BasinHoppingAssumption ==
  /\ EnergyOf \in [Geometries -> Int] /\ Sound \subseteq Geometries
  /\ Alike \subseteq Geometries \X Geometries
  /\ \A g, h \in Geometries : <<g, g>> \in Alike /\ (<<g, h>> \in Alike => <<h, g>> \in Alike)
  /\ EnergyTolerance \in Nat \ {0} /\ Penalty \in Nat
  /\ Niter \in Nat \ {0} /\ MaxCalls \in Nat \ {0}
  /\ Hot \in BOOLEAN /\ HighEnergy \in BOOLEAN
  /\ \A g \in Geometries : EnergyOf[g] + EnergyTolerance < Penalty

VARIABLES
  algorithm,  \* "bh" or "simple"
  pc,         \* where the call is
  calls,      \* calls so far
  rows,       \* the database without its template, in the order of writing
  bag,        \* the tags of the walk: raw_score and ga_eligible
  confid,     \* the candidate that is being relaxed
  last,       \* what its relaxation gave: geometry and failed
  fitness,    \* fitness_current
  hops,       \* iterations so far
  minima      \* what the call returned

vars == <<algorithm, pc, calls, rows, bag, confid, last, fitness, hops, minima>>

NoTags == [raw_score |-> None, ga_eligible |-> "untagged"]
Nothing == [geo |-> None, failed |-> FALSE]

Init ==
  /\ algorithm \in {"bh", "simple"} /\ pc = "idle" /\ calls = 0
  /\ rows = <<>> /\ bag = NoTags /\ confid = None /\ last = Nothing
  /\ fitness = None /\ hops = 0 /\ minima = <<>>

-----------------------------------------------------------------------------
(* The database. *)

Candidate(tags) ==
  [gaid |-> Len(rows) + 1, relaxed |-> FALSE, tags |-> tags, geo |-> None, failed |-> FALSE]

\* add_relaxed_step: a row of its own, for the candidate that was relaxed.
RelaxedRow(tags) ==
  [gaid |-> confid, relaxed |-> TRUE, tags |-> tags, geo |-> last.geo, failed |-> last.failed]

\* get_an_unrelaxed_candidate chooses among these.
Unrelaxed ==
  {rows[i].gaid : i \in {k \in DOMAIN rows : ~rows[k].relaxed}}
    \ {rows[i].gaid : i \in {k \in DOMAIN rows : rows[k].relaxed}}

\* setup_database: the structure of the call is written with the template
\* only, hence never into a file that is kept.
Setup ==
  /\ pc = "idle" /\ calls < MaxCalls
  /\ \E kept \in BOOLEAN :
       rows' = IF kept /\ rows # <<>> THEN rows
               ELSE <<[gaid |-> 1, relaxed |-> FALSE, tags |-> NoTags,
                       geo |-> None, failed |-> FALSE]>>
  /\ calls' = calls + 1 /\ pc' = "fetch" /\ minima' = <<>>
  /\ UNCHANGED <<algorithm, bag, confid, last, fitness, hops>>

\* Any of them, as in a set; with none left the call fails.
Fetch ==
  /\ pc = "fetch"
  /\ \E gaid \in Unrelaxed : confid' = gaid /\ bag' = rows[gaid].tags
  /\ pc' = "seed"
  /\ UNCHANGED <<algorithm, calls, rows, last, fitness, hops, minima>>

-----------------------------------------------------------------------------
(* Local relaxation. *)

MutantEnergyTags(tags, geo, failed) ==
  [tags EXCEPT !.raw_score = IF ~failed THEN -EnergyOf[geo]
                             ELSE IF @ = None THEN -Penalty ELSE @]

\* What perform_local_relaxation writes into the tags, whether or not it
\* succeeds: they still hold the raw_score of the structure before.
EnergyTags(tags, geo, failed) ==
  [tags EXCEPT !.raw_score = IF failed THEN -Penalty ELSE -EnergyOf[geo]]

Relaxed(geo, failed) ==
  /\ last' = [geo |-> geo, failed |-> failed]
  /\ bag' = EnergyTags(bag, geo, failed)

Fitness(score) == IF HighEnergy THEN -score ELSE score

RelaxSeed ==
  /\ pc = "seed"
  /\ \E geo \in Geometries, failed \in BOOLEAN : Relaxed(geo, failed)
  /\ pc' = "write"
  /\ UNCHANGED <<algorithm, calls, rows, confid, fitness, hops, minima>>

-----------------------------------------------------------------------------
(* The walk. *)

MutantSeedTags(tags) == [tags EXCEPT !.ga_eligible = "yes"]

\* A seed that fails the gate is walked from, and marked.
SeedTags(tags) ==
  [tags EXCEPT !.ga_eligible = IF last.geo \in Sound THEN "yes" ELSE "no"]

WriteSeed ==
  /\ pc = "write" /\ algorithm = "bh"
  /\ bag' = SeedTags(bag)
  /\ rows' = Append(rows, RelaxedRow(bag'))
  /\ fitness' = Fitness(bag.raw_score) /\ hops' = 0 /\ pc' = "hop"
  /\ UNCHANGED <<algorithm, calls, confid, last, minima>>

\* The displaced structure fails the prefilter or the gate before it is
\* relaxed: nothing of it is kept.
RejectMove ==
  /\ pc = "hop" /\ hops < Niter /\ hops' = hops + 1
  /\ UNCHANGED <<algorithm, pc, calls, rows, bag, confid, last, fitness, minima>>

InsertTrial ==
  /\ pc = "hop" /\ hops < Niter
  /\ rows' = Append(rows, Candidate(bag)) /\ confid' = Len(rows) + 1
  /\ pc' = "trial"
  /\ UNCHANGED <<algorithm, calls, bag, last, fitness, hops, minima>>

RelaxTrial ==
  /\ pc = "trial"
  /\ \E geo \in Geometries, failed \in BOOLEAN : Relaxed(geo, failed)
  /\ pc' = "judge"
  /\ UNCHANGED <<algorithm, calls, rows, confid, fitness, hops, minima>>

\* Its candidate stays in the database, unrelaxed.
RejectTrial ==
  /\ pc = "judge" /\ last.geo \notin Sound
  /\ hops' = hops + 1 /\ pc' = "hop"
  /\ UNCHANGED <<algorithm, calls, rows, bag, confid, last, fitness, minima>>

MutantTrialTags(tags) == tags

\* The tags came from the seed, which may have been invalid.
TrialTags(tags) == [tags EXCEPT !.ga_eligible = "yes"]

\* The Metropolis criterion: better is accepted, worse if it is hot and luck
\* has it; what failed to relax is never worth it.
Accepts(new) ==
  IF new > fitness THEN {TRUE}
  ELSE IF ~Hot \/ fitness - new > Penalty \div 2 THEN {FALSE}
  ELSE IF new = fitness THEN {TRUE} ELSE BOOLEAN

KeepTrial ==
  /\ pc = "judge" /\ last.geo \in Sound
  /\ bag' = TrialTags(bag)
  /\ rows' = Append(rows, RelaxedRow(bag'))
  /\ \E accept \in Accepts(Fitness(bag.raw_score)) :
       fitness' = IF accept THEN Fitness(bag.raw_score) ELSE fitness
  /\ hops' = hops + 1 /\ pc' = "hop"
  /\ UNCHANGED <<algorithm, calls, confid, last, minima>>

-----------------------------------------------------------------------------
(* The minima. *)

\* extract_minima_from_database.
Energy(row) == -row.tags.raw_score
Minimum(row) == [energy |-> Energy(row), row |-> row]

\* The order of the minima: by energy, then as they were written.
Ascending(i, k) ==
  \/ Energy(rows[i]) < Energy(rows[k])
  \/ Energy(rows[i]) = Energy(rows[k]) /\ i < k

\* Of the rows that were asked for, given by their numbers.
Extracted(found) ==
  LET place(i) == Cardinality({k \in found : Ascending(k, i)})
  IN  [n \in 1..Cardinality(found) |->
         Minimum(rows[CHOOSE i \in found : place(i) = n - 1])]

\* get_bin_index: int(energy / (1.5 * tolerance)), towards zero.
BinOf(energy) ==
  IF energy >= 0 THEN (2 * energy) \div (3 * EnergyTolerance)
                 ELSE -(((-2) * energy) \div (3 * EnergyTolerance))

MutantBinsToCheck(bin) == {bin}
BinsToCheck(bin) == {bin - 1, bin, bin + 1}

Same(m, o) ==
  /\ m.energy - o.energy \in (-EnergyTolerance)..EnergyTolerance
  /\ <<m.row.geo, o.row.geo>> \in Alike

\* _check_duplicate_in_energy_bins, and the bin the minimum goes to.
Joined(kept, m) ==
  IF \E i \in DOMAIN kept :
       BinOf(kept[i].energy) \in BinsToCheck(BinOf(m.energy)) /\ Same(m, kept[i])
  THEN kept ELSE Append(kept, m)

\* _find_unique_minima_with_binning, from the lowest up.
Unique(sorted) ==
  LET kept[n \in 0..Len(sorted)] ==
        IF n = 0 THEN <<>> ELSE Joined(kept[n - 1], sorted[n])
  IN  kept[Len(sorted)]

\* All rows of the file, those of earlier calls too, but no marked seed.
Finish ==
  /\ pc = "hop" /\ hops = Niter
  /\ minima' = Unique(Extracted(
       {i \in DOMAIN rows : rows[i].relaxed /\ rows[i].tags.ga_eligible # "no"}))
  /\ pc' = "returned"
  /\ UNCHANGED <<algorithm, calls, rows, bag, confid, last, fitness, hops>>

\* simple_go: one relaxation, written before it is validated.
WriteSimple ==
  /\ pc = "write" /\ algorithm = "simple"
  /\ rows' = Append(rows, RelaxedRow(bag)) /\ pc' = "validate"
  /\ UNCHANGED <<algorithm, calls, bag, confid, last, fitness, hops, minima>>

Validate ==
  /\ pc = "validate"
  /\ minima' = IF last.geo \in Sound
                 THEN Extracted({i \in DOMAIN rows : rows[i].relaxed}) ELSE <<>>
  /\ pc' = "returned"
  /\ UNCHANGED <<algorithm, calls, rows, bag, confid, last, fitness, hops>>

-----------------------------------------------------------------------------
\* The call is over: it has returned, an error ended it, or the process was
\* killed.  What is left of it is the file.
End ==
  /\ pc # "idle" /\ pc' = "idle"
  /\ bag' = NoTags /\ confid' = None /\ last' = Nothing /\ fitness' = None
  /\ hops' = 0 /\ minima' = <<>>
  /\ UNCHANGED <<algorithm, calls, rows>>

Next ==
  \/ Setup \/ Fetch \/ RelaxSeed \/ WriteSeed
  \/ RejectMove \/ InsertTrial \/ RelaxTrial \/ RejectTrial \/ KeepTrial
  \/ Finish \/ WriteSimple \/ Validate \/ End

Spec == Init /\ [][Next]_vars
-----------------------------------------------------------------------------
(* Properties. *)

Returned == pc = "returned"

\* No minimum is returned that did not pass the structural gate, in this call
\* or in an earlier one on the same file: although the walk goes on from a
\* seed that failed it, although simple_go writes before it validates, and
\* although a later call may start from a trial that was turned down.
ReturnedPassedTheGate == Returned => \A i \in DOMAIN minima : minima[i].row.geo \in Sound

\* A minimum has the energy of its own geometry, or the penalty if its
\* relaxation failed; never that of the structure it was moved from, whose
\* tags it carries (the writer computes a raw_score only where there is none).
EnergiesAreOwn ==
  Returned => \A i \in DOMAIN minima :
    minima[i].energy = IF minima[i].row.failed THEN Penalty
                       ELSE EnergyOf[minima[i].row.geo]

\* Basin hopping loses no geometry and returns none twice: every sound
\* structure that was ever relaxed into the file, also from an unsound seed,
\* has a look-alike of about its energy among the minima, and comparing only
\* neighbouring bins of energy finds all duplicates.
FoundIsKeptOnce ==
  Returned /\ algorithm = "bh" =>
    /\ \A i \in DOMAIN rows :
         rows[i].relaxed /\ rows[i].geo \in Sound =>
           \E k \in DOMAIN minima :
             minima[k].energy <= Energy(rows[i]) /\ Same(minima[k], Minimum(rows[i]))
    /\ \A i, k \in DOMAIN minima : i # k => ~Same(minima[i], minima[k])
=============================================================================
