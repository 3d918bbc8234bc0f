---------------------------- MODULE PopulationOps ----------------------------
(***************************************************************************)
(* The operations of the GA population                                     *)
(* (scgo/ase_ga_patches/population.py): at most population_size members,   *)
(* sorted by raw_score, best first, with at most one of several candidates *)
(* that look alike.                                                        *)
(*                                                                         *)
(* A candidate is [id, score, shape]: its confid, its raw_score (minus the *)
(* energy) and a coordinate that stands for its geometry.  The comparator  *)
(* calls two geometries alike when they differ by at most Tolerance; with  *)
(* Tolerance = 0 that is an equivalence, otherwise it is not transitive,   *)
(* like the distance comparators of the code.  A member carries looks_like.*)
(***************************************************************************)
EXTENDS Integers, Sequences, FiniteSets, SequencesExt

CONSTANTS
  PopulationSize,  \* population_size
  Tolerance        \* of the comparator

ASSUME PopulationAssumption ==
  PopulationSize \in Nat \ {0} /\ Tolerance \in Nat

LooksLike(a, b) == a.shape - b.shape \in -Tolerance..Tolerance

\* _population_candidate_sort_key: best first, ties by confid.
MutantLowestFirst(a, b) == a.score < b.score \/ (a.score = b.score /\ a.id <= b.id)
Before(a, b) == a.score > b.score \/ (a.score = b.score /\ a.id <= b.id)

Sorted(candidates) ==
  [i \in 1..Cardinality(candidates) |->
     CHOOSE a \in candidates : Cardinality({b \in candidates : Before(b, a)}) = i]

Member(a, looks) ==
  [id |-> a.id, score |-> a.score, shape |-> a.shape, looks |-> looks]

\* `looks_like` goes up by one.
Rediscovered(pop, i) == [pop EXCEPT ![i].looks = @ + 1]

\* append, then the stable sort with reverse=True: after the equal scores.
Seated(pop, m) ==
  InsertAt(pop, Cardinality({i \in DOMAIN pop : pop[i].score >= m.score}) + 1, m)

\* A look-alike takes the seat only when it is strictly better.
Supersedes(incumbent, a) == incumbent.score < a.score

\* Room is made only when the population is full.
MutantEvictsBest(pop) == IF Len(pop) = PopulationSize THEN Tail(pop) ELSE pop
RoomFor(pop) == IF Len(pop) = PopulationSize THEN Front(pop) ELSE pop

\* The first member a looks like, 0 if there is none.
MutantNobodyAlike(pop, a) == 0
FirstAlike(pop, a) ==
  LET alike == {i \in DOMAIN pop : LooksLike(a, pop[i])}
  IN  IF alike = {} THEN 0
      ELSE CHOOSE i \in alike : \A k \in alike : i <= k

\* __add_candidate__
AddCandidate(pop, a) ==
  LET i == FirstAlike(pop, a)
  IN  IF pop = <<>> THEN <<Member(a, 0)>>
      ELSE IF a.score < Last(pop).score /\ Len(pop) = PopulationSize THEN pop
      ELSE IF i = 0 THEN Seated(RoomFor(pop), Member(a, 0))
      ELSE IF Supersedes(pop[i], a)
        THEN Seated(RemoveAt(pop, i), Member(a, pop[i].looks + 1))
      ELSE Rediscovered(pop, i)

\* __initialize_pop__: one candidate at a time, while there is room a new
\* geometry gets a seat; every look-alike counts as a rediscovery.
InitialSeat(pop, a) ==
  LET i == FirstAlike(pop, a)
  IN  IF i # 0 THEN Rediscovered(pop, i)
      ELSE IF Len(pop) < PopulationSize THEN Append(pop, Member(a, 0))
      ELSE pop

\* The population after each of a sequence of candidates.
Entered(initial, pop, a) ==
  IF initial THEN InitialSeat(pop, a) ELSE AddCandidate(pop, a)

Stages(initial, pop, order) ==
  LET after[n \in 0..Len(order)] ==
        IF n = 0 THEN pop ELSE Entered(initial, after[n - 1], order[n])
  IN  after

Initialized(candidates) ==
  Stages(TRUE, <<>>, Sorted(candidates))[Cardinality(candidates)]

\* update(new_cand): the eligible candidates of a batch, best first.
UpdatedWith(pop, candidates) ==
  Stages(FALSE, pop, Sorted(candidates))[Cardinality(candidates)]
=============================================================================
