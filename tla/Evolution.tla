------------------------------ MODULE Evolution ------------------------------
(***************************************************************************)
(* How the population of ga_go evolves: the processes of OffspringWorkers  *)
(* build children, batches of them are relaxed and committed between their *)
(* jobs, update the population and reward mutation operators               *)
(* (operator_credit, with utils/mutation_weights.py): an eligible mutant   *)
(* is a trial of its operator, one that is new to the population also      *)
(* counts as unique.  What draws operators is a copy of these counts made  *)
(* at the start of the generation.                                         *)
(***************************************************************************)
EXTENDS OffspringWorkers, PopulationOps

CONSTANTS
  Operators,       \* the names of mutation operators
  NoOperator,      \* of a child that is not mutated
  Scores, Shapes,  \* what a relaxation gives
  Batch            \* batch_size of the relaxer

ASSUME CreditAssumption ==
  /\ NoOperator \notin Operators /\ Batch \in Nat \ {0}
  /\ Scores \subseteq Int /\ Shapes \subseteq Int

VARIABLES
  credit,    \* operator_credit: [trials, unique] of every operator
  pending,   \* unrelaxed offspring: their mutation_operator tags
  relaxed,   \* the number of rows committed
  pop,       \* Population.pop
  valid,     \* history: mutants of every operator that passed validation
  shapes     \* history: geometries of the eligible candidates

creditVars == <<credit, pending, relaxed, pop, valid, shapes>>

NoCredit == [trials |-> 0, unique |-> 0]

\* Rows are known by their ids; those of the initial ones are -1 and 0.
AsCandidates(c) ==
  {[id |-> i, score |-> c[i].score, shape |-> c[i].shape] : i \in DOMAIN c}

CInit ==
  /\ Init
  /\ credit = [o \in Operators |-> NoCredit]
  /\ pending = <<>> /\ relaxed = 0 /\ valid = [o \in Operators |-> 0]
  /\ \E c \in [{-1, 0} -> [score : Scores, shape : Shapes]] :
       /\ pop = Initialized(AsCandidates(c))
       /\ shapes = {c[i].shape : i \in DOMAIN c}

\* decay_operator_credit halves both counts.
Decayed == [o \in Operators |-> [trials |-> credit[o].trials \div 2,
                                 unique |-> credit[o].unique \div 2]]
CBeginGeneration ==
  /\ BeginGeneration
  /\ credit' = Decayed
  /\ UNCHANGED <<pending, relaxed, pop, valid, shapes>>

\* A job gives no child, or one that carries the operator that changed it.
CBuild(p) ==
  /\ Len(pop) >= 2 /\ Build(p)
  /\ \/ UNCHANGED pending
     \/ \E o \in Operators \cup {NoOperator} : pending' = Append(pending, o)
  /\ UNCHANGED <<credit, relaxed, pop, valid, shapes>>

-----------------------------------------------------------------------------
(* _commit_relaxed_batch: the rows are written again after a lock error.    *)

\* relaxed_operator_names: how often each operator is among the eligible rows
\* (_eligible_mutation_operator).
Names(rows, eligible) ==
  [o \in Operators |-> Cardinality({i \in eligible : rows[i] = o})]

\* What an attempt finds there of the ones before it: it begins with an empty
\* list.
MutantNamesGoOn(earlier) == earlier
FreshNames(earlier) == [o \in Operators |-> 0]

\* _credit_unique_operators: the members among the candidates of the batch that
\* no look-alike was found of.
IsNew(pool, id) == \E i \in DOMAIN pool : pool[i].id = id /\ pool[i].looks = 0

Credited(names, news) ==
  [o \in Operators |->
     [trials |-> credit[o].trials + names[o],
      unique |-> credit[o].unique + Cardinality(news[o])]]

Commit ==
  /\ pending # <<>> /\ generation > 0
  /\ LET n == IF Len(pending) < Batch THEN Len(pending) ELSE Batch
         rows == SubSeq(pending, 1, n)
     IN \E eligible \in SUBSET (1..n) :
        \E got \in [{relaxed + i : i \in eligible} -> [score : Scores, shape : Shapes]] :
          LET of(o) == {i \in eligible : rows[i] = o}
          IN  /\ pop' = UpdatedWith(pop, AsCandidates(got))
              /\ shapes' = shapes \cup {got[i].shape : i \in DOMAIN got}
              /\ relaxed' = relaxed + n
              /\ valid' = [o \in Operators |-> valid[o] + Cardinality(of(o))]
              /\ pending' = SubSeq(pending, n + 1, Len(pending))
              /\ \E failedAfter \in 0..n :
                   LET found == FreshNames(Names(rows, eligible \cap (1..failedAfter)))
                       added == Names(rows, eligible)
                   IN  credit' = Credited(
                         [o \in Operators |-> found[o] + added[o]],
                         [o \in Operators |-> {i \in of(o) : IsNew(pop', relaxed + i)}])
  /\ UNCHANGED vars

CNext ==
  \/ CBeginGeneration \/ Commit
  \/ \E p \in Processes : CBuild(p)
  \/ (EndGeneration \/ Done \/ \E w \in Workers : Bootstrap(w)) /\ UNCHANGED creditVars

CSpec == CInit /\ [][CNext]_<<vars, creditVars>>

-----------------------------------------------------------------------------
\* Credit is earned by relaxed, valid mutants, each counted once however often
\* its batch was written, and through every halving no operator is credited with
\* more new geometries than trials.
CreditIsEarned ==
  \A o \in Operators :
    /\ credit[o].unique <= credit[o].trials
    /\ credit[o].trials <= valid[o]

\* The geometries found so far fall into classes of look-alikes.
LooksAreTransitive ==
  \A a, b, c \in {[shape |-> s] : s \in shapes} :
    LooksLike(a, b) /\ LooksLike(b, c) => LooksLike(a, c)

\* As long as the comparator is transitive no two members look alike, so that
\* parents are drawn among different geometries.
DistinctMembers ==
  LooksAreTransitive =>
    \A i, k \in DOMAIN pop : LooksLike(pop[i], pop[k]) => i = k

\* Elitism, rank by rank: no batch ever lowers the score at any rank, under
\* whatever comparator.
RankwiseImprovement ==
  [][\A i \in DOMAIN pop : i \in DOMAIN pop' /\ pop'[i].score >= pop[i].score]_pop
=============================================================================
