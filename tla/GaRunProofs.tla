------------------------------ MODULE GaRunProofs ------------------------------
(***************************************************************************)
(* Proofs about GaRun, for every size, batch, device and bound: whatever   *)
(* transactions are rolled back, a candidate has one relaxed row at most,  *)
(* the counts that commits reported and the population agree with the      *)
(* database, a run that returns has relaxed all it inserted, and batches   *)
(* are stored whole (RunLedger).                                           *)
(***************************************************************************)
EXTENDS GaRun, PopulationProofs

-----------------------------------------------------------------------------
(* The inductive invariant. *)

\* The gaids of the wave: none are left when no wave follows.
Waiting ==
  IF phase \in {"await", "writeWave"} /\ wave = None THEN {} ELSE wave

TypeOK ==
  /\ device \in {"cpu", "cuda"}
  /\ phase \in {"insert", "initial", "writeInitial", "generation", "produce",
                "wave", "waveEnd", "await", "relax", "writeWave", "judge",
                "drain", "writeDrain", "extract", "closed", "failed"}
  /\ generation \in Nat /\ inserted \in Nat
  /\ counters.created \in Nat /\ counters.attempts \in Int
  /\ counters = [created |-> counters.created, attempts |-> counters.attempts,
                 misses |-> counters.misses, exhausted |-> counters.exhausted]
  /\ tally.ok \in Nat /\ tally.bad \in Nat /\ tally = [ok |-> tally.ok, bad |-> tally.bad]
  /\ phase # "failed" => Waiting \subseteq Gaids
  /\ flying \subseteq Gaids
  /\ batch \subseteq Gaids /\ staged \subseteq batch
  /\ rows \in [Gaids -> {0, 1}]
  /\ found \in [Gaids -> Relaxed \cup {None}]
  /\ Population(pop)

\* Which phases know a wave, a batch on the GPU, an open transaction.
PhasesFit ==
  /\ phase \in {"insert", "initial", "writeInitial", "generation", "relax",
                "judge", "drain", "writeDrain", "extract", "closed"} =>
       wave = {} /\ flying = {}
  /\ phase = "produce" => wave = {}
  /\ phase = "writeWave" => flying = {}
  /\ phase \in {"produce", "await"} => Pipelined
  /\ ~Pipelined => flying = {} /\ (phase = "writeWave" => wave = {})
  /\ ~Writing => staged = {}
  /\ phase = "insert" => inserted = 0

\* Nothing that waits for its relaxation has a relaxed row, nor does it wait
\* in two places.
WaitingIsUnrelaxed ==
  phase # "failed" =>
    /\ Waiting \cap flying = {}
    /\ \A g \in Waiting \cup flying : rows[g] = 0
    /\ Writing => Waiting \cap batch = {}

\* The transaction: what is staged of the batch, and no more, has its row.
TransactionFits ==
  /\ Writing =>
       /\ \A g \in batch : found[g] \in Relaxed /\ (rows[g] = 1 <=> g \in staged)
       /\ tally.ok = Cardinality({g \in staged : found[g].ok})
  /\ \A g \in Gaids : rows[g] = 1 => found[g] \in Relaxed

\* The eligible rows that no rollback takes back.
Committed == EligibleRows \ staged

\* The phases in which the counts that were reported are complete, and those in
\* which the population stands for the database.
Counted == phase \notin {"writeDrain", "extract", "closed", "failed"}
Evolving == phase \notin {"insert", "initial", "writeInitial", "closed", "failed"}

CountsFit == Counted => eligible = Cardinality(Committed)

PopulationFits ==
  \A i \in DOMAIN pop :
    pop[i].id \in Committed /\ Carries(pop[i], AsCandidate(pop[i].id))

BestFits ==
  Evolving => \A g \in Committed : NoneBetter(pop, AsCandidate(g))

OffspringFit ==
  /\ inserted <= InitialSize + generation * NOffspring
  /\ phase \in {"produce", "wave", "waveEnd", "await", "relax", "writeWave"} =>
       /\ counters.created <= NOffspring
       /\ inserted + NOffspring <=
            InitialSize + generation * NOffspring + counters.created

EndFits ==
  /\ phase = "writeDrain" => \A g \in Gaids : rows[g] = 0 => g \in batch
  /\ phase \in {"extract", "closed"} => \A g \in Gaids : rows[g] = 1
  /\ phase = "closed" => returned = {g \in Gaids : found[g].ok}

IInv ==
  /\ TypeOK /\ PhasesFit /\ WaitingIsUnrelaxed /\ TransactionFits /\ CountsFit
  /\ PopulationFits /\ BestFits /\ OffspringFit /\ EndFits
-----------------------------------------------------------------------------
(* What the operators of GaRun do. *)

\* The constants are numbers, and so is the target of a wave.
LEMMA Sizes ==
  /\ InitialSize \in Nat /\ NOffspring \in Nat \ {0} /\ MaxAttempts \in Nat
  /\ WaveTarget \in Nat
PROOF
  BY GaRunAssumption DEF WaveTarget, Capped

\* What a relaxation gives has a score and a geometry.
LEMMA RelaxedFields ==
  \A r \in Relaxed : r.score \in Int /\ r.shape \in Int
PROOF
  <1> SUFFICES ASSUME NEW r \in Relaxed  PROVE r.score \in Int /\ r.shape \in Int
    OBVIOUS
  <1>1. r \in [score : Int, shape : Int, ok : BOOLEAN]  BY GaRunAssumption
  <1>2. PICK x \in Int, y \in Int, b \in BOOLEAN : r = [score |-> x, shape |-> y, ok |-> b]
    BY <1>1, Zenon
  <1> QED  BY <1>2

\* Sets of gaids are finite.
LEMMA GaidsAreFinite ==
  ASSUME inserted \in Nat
  PROVE  /\ \A S \in SUBSET Gaids : IsFiniteSet(S) /\ Cardinality(S) \in Nat
         /\ \A S, T \in SUBSET Gaids :
              S \cap T = {} => Cardinality(S \cup T) = Cardinality(S) + Cardinality(T)
PROOF
  <1>1. IsFiniteSet(Gaids)  BY FS_Interval DEF Gaids
  <1>2. \A S \in SUBSET Gaids : IsFiniteSet(S) /\ Cardinality(S) \in Nat
    BY <1>1, FS_Subset, FS_CardinalityType
  <1>3. ASSUME NEW S \in SUBSET Gaids, NEW T \in SUBSET Gaids, S \cap T = {}
        PROVE  Cardinality(S \cup T) = Cardinality(S) + Cardinality(T)
    <2>1. /\ IsFiniteSet(S) /\ Cardinality(S) \in Nat
          /\ IsFiniteSet(T) /\ Cardinality(T) \in Nat
      BY <1>2
    <2>2. Cardinality(S \cup T) = Cardinality(S) + Cardinality(T) - Cardinality(S \cap T)
      BY <2>1, FS_Union, Zenon
    <2>3. Cardinality(S \cap T) = 0  BY <1>3, FS_EmptySet, Zenon
    <2> QED  BY <2>1, <2>2, <2>3
  <1> QED  BY <1>2, <1>3

\* A batch of jobs never asks for more than the generation has left to make.
LEMMA JobsFacts ==
  ASSUME TypeOK, wave \subseteq Gaids
  PROVE  JobsTarget \in Int /\ JobsTarget <= NOffspring - counters.created
PROOF
  <1>1. Cardinality(wave) \in Nat  BY GaidsAreFinite DEF TypeOK
  <1> DEFINE a == WaveTarget - Cardinality(wave)
             b == MaxAttempts - counters.attempts
             c == NOffspring - counters.created
  <1>2. a \in Int /\ b \in Int /\ c \in Int  BY <1>1, Sizes DEF TypeOK
  <1>3. JobsTarget = CHOOSE x \in {a, b, c} : \A y \in {a, b, c} : x <= y
    BY DEF JobsTarget, Min
  <1> HIDE DEF a, b, c
  <1>4. \E x \in {a, b, c} : \A y \in {a, b, c} : x <= y  BY <1>2
  <1>5. JobsTarget \in {a, b, c} /\ \A y \in {a, b, c} : JobsTarget <= y
    BY <1>3, <1>4
  <1> QED  BY <1>2, <1>5 DEF c

\* New candidates have no relaxed row; the others keep what they have.
LEMMA InsertFacts ==
  ASSUME TypeOK, NEW n \in Nat, Insert(n)
  PROVE  /\ inserted' = inserted + n /\ inserted' \in Nat
         /\ Gaids \subseteq Gaids'
         /\ rows' \in [Gaids' -> {0, 1}] /\ found' \in [Gaids' -> Relaxed \cup {None}]
         /\ \A g \in Gaids : rows'[g] = rows[g] /\ found'[g] = found[g]
         /\ \A g \in Gaids' \ Gaids : rows'[g] = 0
         /\ EligibleRows' = EligibleRows
PROOF
  <1>1. /\ inserted \in Nat /\ rows \in [Gaids -> {0, 1}]
        /\ found \in [Gaids -> Relaxed \cup {None}]
    BY DEF TypeOK
  <1>2. inserted' = inserted + n /\ inserted' \in Nat /\ Gaids \subseteq Gaids'
    BY <1>1 DEF Insert, Gaids
  <1>3. \A g \in Gaids' : g \in Gaids <=> g <= inserted
    BY <1>1, <1>2 DEF Gaids
  <1>4. /\ rows' = [g \in Gaids' |-> IF g <= inserted THEN rows[g] ELSE 0]
        /\ found' = [g \in Gaids' |-> IF g <= inserted THEN found[g] ELSE None]
    BY DEF Insert, Gaids
  <1>5. rows' \in [Gaids' -> {0, 1}] /\ found' \in [Gaids' -> Relaxed \cup {None}]
    BY <1>1, <1>3, <1>4
  <1>6. /\ \A g \in Gaids : rows'[g] = rows[g] /\ found'[g] = found[g]
        /\ \A g \in Gaids' \ Gaids : rows'[g] = 0
    BY <1>2, <1>3, <1>4
  <1>7. EligibleRows' = EligibleRows
    BY <1>2, <1>6 DEF EligibleRows
  <1> QED  BY <1>2, <1>5, <1>6, <1>7

\* A relaxation touches no candidate that has a relaxed row.
LEMMA RelaxFacts ==
  ASSUME TypeOK, TransactionFits, NEW gaids \in SUBSET Pending, NEW writing, Relax(gaids, writing)
  PROVE  /\ inserted' = inserted /\ rows' = rows /\ batch' = gaids /\ staged' = {}
         /\ tally' = NoTally /\ phase' = writing
         /\ found' \in [Gaids -> Relaxed \cup {None}]
         /\ \A g \in gaids : found'[g] \in Relaxed
         /\ \A g \in Gaids : rows[g] = 1 => found'[g] = found[g] /\ found'[g] \in Relaxed
         /\ EligibleRows' = EligibleRows
         /\ \A g \in EligibleRows : found'[g] = found[g]
PROOF
  <1>1. /\ rows \in [Gaids -> {0, 1}] /\ found \in [Gaids -> Relaxed \cup {None}]
        /\ gaids \subseteq Gaids /\ \A g \in gaids : rows[g] = 0
    BY DEF TypeOK, Pending
  <1>2. /\ inserted' = inserted /\ rows' = rows /\ batch' = gaids /\ staged' = {}
        /\ tally' = NoTally /\ phase' = writing
    BY DEF Relax
  <1>3. PICK r \in [gaids -> Relaxed] :
          found' = [g \in Gaids |-> IF g \in gaids THEN r[g] ELSE found[g]]
    BY DEF Relax
  <1>4. found' \in [Gaids -> Relaxed \cup {None}] /\ \A g \in gaids : found'[g] \in Relaxed
    BY <1>1, <1>3
  <1>5. \A g \in Gaids : rows[g] = 1 => found'[g] = found[g] /\ found'[g] \in Relaxed
    BY <1>1, <1>3 DEF TransactionFits
  <1>6. \A g \in Gaids : rows[g] > 0 <=> rows[g] = 1  BY <1>1
  <1>7. EligibleRows' = EligibleRows /\ \A g \in EligibleRows : found'[g] = found[g]
    BY <1>2, <1>5, <1>6 DEF EligibleRows, Gaids
  <1> QED  BY <1>2, <1>4, <1>5, <1>7

\* A rollback leaves the committed rows, and no others.
LEMMA RolledBackFacts ==
  ASSUME IInv
  PROVE  /\ RolledBack \in [Gaids -> {0, 1}]
         /\ Writing => \A g \in Gaids :
              RolledBack[g] = IF g \in staged THEN 0 ELSE rows[g]
         /\ ~Writing => RolledBack = rows
PROOF
  <1>1. /\ rows \in [Gaids -> {0, 1}] /\ staged \subseteq Gaids
        /\ Writing => \A g \in staged : rows[g] = 1
        /\ ~Writing => staged = {}
    BY DEF IInv, TypeOK, TransactionFits, PhasesFit
  <1>2. Writing => \A g \in Gaids : RolledBack[g] = IF g \in staged THEN 0 ELSE rows[g]
    BY <1>1 DEF RolledBack
  <1>3. ~Writing => RolledBack = rows
    BY <1>1 DEF RolledBack
  <1>4. RolledBack = [g \in Gaids |-> RolledBack[g]]  BY DEF RolledBack
  <1> QED  BY <1>1, <1>2, <1>3, <1>4

\* What is said of the committed rows stays true while they and the population
\* stay as they are.
LEMMA Undisturbed ==
  ASSUME IInv, Committed' = Committed, \A g \in Committed : found'[g] = found[g],
         pop' = pop, eligible' = eligible, Counted' => Counted, Evolving' => Evolving
  PROVE  CountsFit' /\ PopulationFits' /\ BestFits'
PROOF
  <1>1. CountsFit'  BY DEF IInv, CountsFit
  <1>2. PopulationFits'
    BY DEF IInv, PopulationFits, AsCandidate, Carries
  <1>3. BestFits'
    BY DEF IInv, BestFits, AsCandidate, NoneBetter
  <1> QED  BY <1>1, <1>2, <1>3

\* The rows of the database, as finite sets of gaids.
LEMMA CommittedFacts ==
  ASSUME TypeOK, TransactionFits
  PROVE  /\ EligibleRows \subseteq Gaids /\ Committed \subseteq EligibleRows
         /\ \A g \in EligibleRows : /\ rows[g] = 1 /\ found[g] \in Relaxed /\ found[g].ok
                                    /\ found[g].score \in Int /\ found[g].shape \in Int
         /\ \A g \in Gaids : rows[g] = 1 /\ found[g].ok => g \in EligibleRows
PROOF
  <1>1. EligibleRows \subseteq Gaids /\ Committed \subseteq EligibleRows
    BY DEF EligibleRows, Committed
  <1>2. \A g \in EligibleRows : rows[g] = 1 /\ found[g].ok
    BY DEF TypeOK, EligibleRows
  <1>3. \A g \in EligibleRows : found[g] \in Relaxed
    BY <1>1, <1>2 DEF TransactionFits
  <1>4. \A g \in Gaids : rows[g] = 1 /\ found[g].ok => g \in EligibleRows
    BY DEF TypeOK, EligibleRows
  <1> QED  BY <1>1, <1>2, <1>3, <1>4, RelaxedFields

\* The candidates of some gaids are as many, told apart by their ids.
LEMMA CandidatesDiffer ==
  ASSUME inserted \in Nat, NEW S \in SUBSET Gaids,
         \A g \in S : found[g].score \in Int /\ found[g].shape \in Int
  PROVE  IdsDiffer({AsCandidate(g) : g \in S})
PROOF
  <1> DEFINE T == {AsCandidate(g) : g \in S}
             f == [g \in S |-> AsCandidate(g)]
  <1>1. IsFiniteSet(S)  BY GaidsAreFinite
  <1>2. f \in Surjection(S, T)  BY DEF Surjection
  <1>3. IsFiniteSet(T)
    <2> HIDE DEF T, f
    <2> QED  BY <1>1, <1>2, FS_Surjection
  <1>4. ASSUME NEW g \in S
        PROVE  AsCandidate(g) \in Candidates /\ AsCandidate(g).id = g
    <2>1. g \in Int /\ found[g].score \in Int /\ found[g].shape \in Int
      BY DEF Gaids
    <2>2. AsCandidate(g) = [id |-> g, score |-> found[g].score, shape |-> found[g].shape]
      BY DEF AsCandidate
    <2> QED  BY <2>1, <2>2 DEF Candidates
  <1> QED  BY <1>3, <1>4 DEF IdsDiffer

-----------------------------------------------------------------------------
(* The invariant, action by action. *)

\* The first candidates, or none and the run is over.
LEMMA InsertInitialKeeps ==
  ASSUME IInv, InsertInitial, UNCHANGED device
  PROVE  IInv'
PROOF
  <1>1. PICK n \in 0..InitialSize :
          /\ Insert(n)
          /\ phase' = IF n = 0 THEN "closed" ELSE "initial"
          /\ returned' = IF n = 0 THEN {} ELSE returned
    BY DEF InsertInitial
  <1>2. /\ phase = "insert" /\ inserted = 0 /\ wave = {} /\ flying = {} /\ staged = {}
        /\ phase' \in {"closed", "initial"}
        /\ UNCHANGED <<generation, waveVars, flying, writeVars, pop, eligible>>
    BY <1>1 DEF IInv, PhasesFit, InsertInitial, Writing
  <1>3. n \in Nat /\ n <= InitialSize  BY <1>1, Sizes
  <1>4. /\ inserted' = inserted + n /\ inserted' \in Nat /\ Gaids \subseteq Gaids'
        /\ rows' \in [Gaids' -> {0, 1}] /\ found' \in [Gaids' -> Relaxed \cup {None}]
        /\ \A g \in Gaids : rows'[g] = rows[g] /\ found'[g] = found[g]
        /\ \A g \in Gaids' \ Gaids : rows'[g] = 0
        /\ EligibleRows' = EligibleRows
    BY <1>1, <1>3, InsertFacts DEF IInv
  <1>5. Gaids = {}  BY <1>2 DEF Gaids
  <1>6. TypeOK'
    BY <1>2, <1>4 DEF IInv, TypeOK, waveVars, writeVars, Waiting
  <1>7. PhasesFit'
    BY <1>2 DEF PhasesFit, waveVars, writeVars, Writing
  <1>8. WaitingIsUnrelaxed'
    BY <1>2 DEF WaitingIsUnrelaxed, waveVars, Waiting, Writing
  <1>9. TransactionFits'
    BY <1>2, <1>4, <1>5 DEF TransactionFits, Writing
  <1>10. CountsFit' /\ PopulationFits' /\ BestFits'
    <2>1. Committed' = Committed /\ \A g \in Committed : found'[g] = found[g]
      BY <1>2, <1>4 DEF Committed, writeVars, EligibleRows
    <2> QED  BY <1>2, <2>1, Undisturbed DEF Counted, Evolving
  <1>11. OffspringFit'
    BY <1>2, <1>3, <1>4, Sizes DEF OffspringFit, IInv, TypeOK
  <1>12. EndFits'
    <2>1. CASE n = 0
      <3>1. Gaids' = {}  BY <1>2, <1>4, <2>1 DEF Gaids
      <3> QED  BY <1>1, <2>1, <3>1 DEF EndFits
    <2>2. CASE n # 0
      BY <1>1, <2>2 DEF EndFits
    <2> QED  BY <2>1, <2>2
  <1> QED  BY <1>6, <1>7, <1>8, <1>9, <1>10, <1>11, <1>12 DEF IInv

\* A relaxation whose batch is about to be written.
LEMMA RelaxKeeps ==
  ASSUME IInv, NEW gaids \in SUBSET Pending, NEW writing, Relax(gaids, writing),
         \/ writing = "writeInitial" /\ phase = "initial"
         \/ writing = "writeWave" /\ phase = "relax"
         \/ writing = "writeWave" /\ phase = "await" /\ gaids = flying
         \/ writing = "writeDrain" /\ phase = "drain" /\ gaids = Pending,
         flying' = IF phase = "await" THEN {} ELSE flying,
         UNCHANGED <<device, generation, waveVars, pop, eligible>>
  PROVE  IInv'
PROOF
  <1>1. /\ inserted' = inserted /\ rows' = rows /\ batch' = gaids /\ staged' = {}
        /\ tally' = NoTally /\ phase' = writing
        /\ found' \in [Gaids -> Relaxed \cup {None}]
        /\ \A g \in gaids : found'[g] \in Relaxed
        /\ \A g \in Gaids : rows[g] = 1 => found'[g] = found[g] /\ found'[g] \in Relaxed
        /\ EligibleRows' = EligibleRows
        /\ \A g \in EligibleRows : found'[g] = found[g]
    BY RelaxFacts DEF IInv
  <1>2. /\ ~Writing /\ staged = {} /\ phase # "failed" /\ Writing'
        /\ phase' \in {"writeInitial", "writeWave", "writeDrain"}
    BY <1>1 DEF IInv, PhasesFit, Writing
  <1>3. Gaids' = Gaids /\ gaids \subseteq Gaids /\ \A g \in gaids : rows[g] = 0
    BY <1>1 DEF Gaids, Pending
  <1>4. Waiting' = Waiting
    BY <1>1 DEF IInv, PhasesFit, Waiting, waveVars
  <1>5. Waiting \cap gaids = {} /\ Waiting \cap flying = {}
    BY DEF IInv, PhasesFit, WaitingIsUnrelaxed, Waiting
  <1>6. TypeOK'
    BY <1>1, <1>2, <1>3, <1>4 DEF IInv, TypeOK, waveVars, NoTally
  <1>7. PhasesFit'
    BY <1>1, <1>2 DEF IInv, PhasesFit, waveVars, Writing, Pipelined
  <1>8. WaitingIsUnrelaxed'
    BY <1>1, <1>2, <1>4, <1>5 DEF IInv, WaitingIsUnrelaxed
  <1>9. TransactionFits'
    <2>1. {g \in staged' : found'[g].ok} = {}  BY <1>1
    <2>2. tally'.ok = Cardinality({g \in staged' : found'[g].ok})
      BY <1>1, <2>1, FS_EmptySet DEF NoTally
    <2> QED  BY <1>1, <1>2, <1>3, <2>2 DEF TransactionFits
  <1>10. CountsFit' /\ PopulationFits' /\ BestFits'
    <2>1. Committed' = Committed /\ \A g \in Committed : found'[g] = found[g]
      BY <1>1, <1>2 DEF Committed
    <2> QED  BY <1>1, <2>1, Undisturbed DEF Counted, Evolving
  <1>11. OffspringFit'
    BY <1>1, <1>2 DEF IInv, OffspringFit, waveVars
  <1>12. EndFits'
    <2>1. phase' = "writeDrain" => \A g \in Gaids : rows[g] = 0 => g \in gaids
      BY <1>1 DEF Pending
    <2> QED  BY <1>1, <1>2, <1>3, <2>1 DEF EndFits
  <1> QED  BY <1>6, <1>7, <1>8, <1>9, <1>10, <1>11, <1>12 DEF IInv

\* The three paths that read candidates back and relax them, and the wave that
\* comes back from the GPU.
LEMMA BatchesKeep ==
  ASSUME IInv, UNCHANGED device,
         InitialBatch \/ TakeResult \/ (RelaxGeneration /\ phase' # "judge")
                      \/ (Drain /\ phase' # "extract")
  PROVE  IInv'
PROOF
  <1>1. \A cap : Unrelaxed(cap) \subseteq Pending  BY DEF Unrelaxed
  <1>2. Unrelaxed(Unlimited) = Pending  BY DEF Unrelaxed
  <1>3. CASE InitialBatch
    BY <1>1, <1>3, RelaxKeeps DEF InitialBatch
  <1>4. CASE TakeResult
    <2>1. flying \subseteq Pending
      BY <1>4 DEF IInv, TypeOK, WaitingIsUnrelaxed, Pending, TakeResult
    <2> QED  BY <1>4, <2>1, RelaxKeeps DEF TakeResult
  <1>5. CASE RelaxGeneration /\ phase' # "judge"
    <2>1. PICK cap : Relax(Unrelaxed(cap), "writeWave")
      BY <1>5 DEF RelaxGeneration
    <2> QED  BY <1>1, <1>5, <2>1, RelaxKeeps DEF RelaxGeneration
  <1>6. CASE Drain /\ phase' # "extract"
    <2>1. Relax(Unrelaxed(Unlimited), "writeDrain") /\ phase = "drain"
      BY <1>6 DEF Drain
    <2> QED  BY <1>1, <1>2, <1>6, <2>1, RelaxKeeps DEF Drain
  <1> QED  BY <1>3, <1>4, <1>5, <1>6

\* One more row of the open transaction.
LEMMA WriteRowKeeps ==
  ASSUME IInv, WriteRow, UNCHANGED device
  PROVE  IInv'
PROOF
  <1>1. PICK g \in batch \ staged :
          /\ rows' = [rows EXCEPT ![g] = @ + 1]
          /\ staged' = staged \cup {g}
          /\ tally' = IF found[g].ok THEN [tally EXCEPT !.ok = @ + 1]
                                     ELSE [tally EXCEPT !.bad = @ + 1]
    BY DEF WriteRow
  <1>2. /\ Writing /\ phase # "failed"
        /\ UNCHANGED <<phase, generation, waveVars, flying, batch, inserted, found,
                       pop, eligible, returned>>
    BY DEF WriteRow, Writing
  <1>3. /\ TypeOK /\ PhasesFit /\ WaitingIsUnrelaxed /\ TransactionFits
    BY DEF IInv
  <1>4. g \in Gaids /\ g \notin staged /\ rows[g] = 0 /\ found[g] \in Relaxed /\ Gaids' = Gaids
    BY <1>1, <1>2, <1>3 DEF TypeOK, TransactionFits, Gaids
  <1>5. /\ rows' \in [Gaids -> {0, 1}] /\ rows'[g] = 1
        /\ \A h \in Gaids : h # g => rows'[h] = rows[h]
    BY <1>1, <1>3, <1>4 DEF TypeOK
  <1>6. Waiting' = Waiting /\ Writing'
    BY <1>2 DEF Waiting, waveVars, Writing
  <1>7. TypeOK'
    <2>1. /\ tally'.ok \in Nat /\ tally'.bad \in Nat
          /\ tally' = [ok |-> tally'.ok, bad |-> tally'.bad]
      BY <1>1, <1>3 DEF TypeOK
    <2> QED  BY <1>1, <1>2, <1>3, <1>4, <1>5, <1>6, <2>1 DEF TypeOK, waveVars
  <1>8. PhasesFit'
    BY <1>2, <1>3, <1>6 DEF PhasesFit, waveVars, Pipelined
  <1>9. WaitingIsUnrelaxed'
    <2>1. g \notin Waiting /\ g \notin flying
      BY <1>1, <1>2, <1>3 DEF WaitingIsUnrelaxed, PhasesFit, Writing
    <2>2. \A h \in Waiting \cup flying : h \in Gaids /\ h # g /\ rows[h] = 0
      BY <1>2, <1>3, <2>1 DEF TypeOK, WaitingIsUnrelaxed
    <2>3. \A h \in Waiting \cup flying : rows'[h] = 0
      BY <1>5, <2>2
    <2> QED  BY <1>2, <1>3, <1>6, <2>3 DEF WaitingIsUnrelaxed
  <1>10. TransactionFits'
    <2>1. \A h \in batch : h \in Gaids /\ (rows'[h] = 1 <=> h \in staged')
      BY <1>1, <1>2, <1>3, <1>4, <1>5 DEF TransactionFits, TypeOK
    <2>2. \A h \in Gaids : rows'[h] = 1 => found[h] \in Relaxed
      BY <1>3, <1>4, <1>5 DEF TransactionFits
    <2>3. tally'.ok = Cardinality({h \in staged' : found[h].ok})
      <3> DEFINE S == {h \in staged : found[h].ok}
      <3>1. S \subseteq Gaids /\ IsFiniteSet(S) /\ Cardinality(S) \in Nat
        BY <1>3, GaidsAreFinite DEF TypeOK
      <3>2. tally.ok = Cardinality(S) /\ g \notin S
        BY <1>2, <1>3, <1>4 DEF TransactionFits
      <3>3. CASE found[g].ok
        <4>1. {h \in staged' : found[h].ok} = S \cup {g}  BY <1>1, <3>3
        <4>2. tally'.ok = tally.ok + 1  BY <1>1, <1>3, <3>3 DEF TypeOK
        <4> HIDE DEF S
        <4>3. Cardinality(S \cup {g}) = Cardinality(S) + 1
          BY <3>1, <3>2, FS_AddElement
        <4> QED  BY <3>2, <4>1, <4>2, <4>3
      <3>4. CASE ~found[g].ok
        <4>1. {h \in staged' : found[h].ok} = S  BY <1>1, <3>4
        <4>2. tally'.ok = tally.ok  BY <1>1, <1>3, <3>4 DEF TypeOK
        <4> QED  BY <3>2, <4>1, <4>2
      <3> QED  BY <3>3, <3>4
    <2> QED  BY <1>2, <1>3, <1>4, <2>1, <2>2, <2>3 DEF TransactionFits
  <1>11. CountsFit' /\ PopulationFits' /\ BestFits'
    <2>1. \A h \in Gaids : h \in Committed' <=> h \in Committed
      BY <1>1, <1>2, <1>4, <1>5 DEF Committed, EligibleRows
    <2>2. Committed' = Committed
      BY <1>4, <2>1 DEF Committed, EligibleRows
    <2> QED  BY <1>2, <2>2, Undisturbed DEF Counted, Evolving
  <1>12. OffspringFit'
    BY <1>2 DEF IInv, OffspringFit, waveVars
  <1>13. EndFits'
    BY <1>2, <1>4, <1>5 DEF IInv, EndFits, Writing
  <1> QED  BY <1>7, <1>8, <1>9, <1>10, <1>11, <1>12, <1>13 DEF IInv

\* An attempt that is rolled back, to be repeated or given up, and whatever
\* else raises out of the run.
LEMMA RollbackKeeps ==
  ASSUME IInv, UNCHANGED device,
         rows' = IF Writing THEN RolledBack ELSE rows, staged' = {},
         \/ phase' = phase /\ Writing /\ tally' = NoTally
         \/ phase' = "failed" /\ (tally' = NoTally \/ tally' = tally),
         UNCHANGED <<generation, waveVars, flying, batch, inserted, found, pop,
                     eligible, returned>>
  PROVE  IInv'
PROOF
  <1>1. /\ TypeOK /\ PhasesFit /\ WaitingIsUnrelaxed /\ TransactionFits /\ Gaids' = Gaids
        /\ tally' = NoTally \/ tally' = tally
    BY DEF IInv, Gaids
  <1>2. /\ rows' \in [Gaids -> {0, 1}]
        /\ \A g \in Gaids : rows'[g] = IF g \in staged THEN 0 ELSE rows[g]
    BY <1>1, RolledBackFacts DEF TypeOK, PhasesFit
  <1>3. TypeOK'
    BY <1>1, <1>2 DEF TypeOK, waveVars, Waiting, Writing, NoTally
  <1>4. PhasesFit'
    BY <1>1 DEF PhasesFit, waveVars, Pipelined, Writing
  <1>5. WaitingIsUnrelaxed'
    <2>1. ASSUME phase' # "failed"  PROVE Waiting' = Waiting /\ Writing /\ phase # "failed"
      BY <2>1 DEF Waiting, waveVars, Writing
    <2>2. ASSUME phase' # "failed", NEW g \in Waiting \cup flying  PROVE rows'[g] = 0
      BY <1>1, <1>2, <2>1, <2>2 DEF TypeOK, WaitingIsUnrelaxed
    <2> QED  BY <1>1, <2>1, <2>2 DEF WaitingIsUnrelaxed
  <1>6. TransactionFits'
    <2>1. \A g \in Gaids : rows'[g] = 1 => found[g] \in Relaxed
      BY <1>1, <1>2 DEF TransactionFits
    <2>2. ASSUME Writing'
          PROVE  /\ \A g \in batch : found[g] \in Relaxed /\ (rows'[g] = 1 <=> g \in staged')
                 /\ tally'.ok = Cardinality({g \in staged' : found'[g].ok})
      <3>1. Writing /\ tally' = NoTally  BY <2>2 DEF Writing
      <3>2. {g \in staged' : found'[g].ok} = {}  OBVIOUS
      <3>3. tally'.ok = Cardinality({g \in staged' : found'[g].ok})
        BY <3>1, <3>2, FS_EmptySet DEF NoTally
      <3>4. \A g \in batch : found[g] \in Relaxed /\ rows'[g] # 1
        BY <1>1, <1>2, <3>1 DEF TypeOK, TransactionFits
      <3> QED  BY <3>3, <3>4
    <2> QED  BY <1>1, <2>1, <2>2 DEF TransactionFits
  <1>7. CountsFit' /\ PopulationFits' /\ BestFits'
    <2>1. Committed' = Committed
      BY <1>1, <1>2 DEF Committed, EligibleRows
    <2> QED  BY <2>1, Undisturbed DEF Counted, Evolving
  <1>8. OffspringFit'
    BY DEF IInv, OffspringFit, waveVars
  <1>9. EndFits'
    <2>1. phase' = "writeDrain" => \A g \in Gaids : rows'[g] = 0 => g \in batch
      BY <1>1, <1>2 DEF IInv, EndFits, TypeOK
    <2> QED  BY <1>1, <2>1 DEF EndFits, Writing
  <1> QED  BY <1>3, <1>4, <1>5, <1>6, <1>7, <1>8, <1>9 DEF IInv

\* The batch commits, and its eligible structures enter the population.
LEMMA CommitBatchKeeps ==
  ASSUME IInv, CommitBatch, UNCHANGED device
  PROVE  IInv'
PROOF
  <1>1. /\ TypeOK /\ PhasesFit /\ WaitingIsUnrelaxed /\ TransactionFits /\ CountsFit
        /\ PopulationFits /\ BestFits /\ OffspringFit /\ EndFits
    BY DEF IInv
  <1>2. /\ Writing /\ staged = batch /\ flying = {} /\ inserted \in Nat
        /\ phase \in {"writeInitial", "writeWave", "writeDrain"}
    BY <1>1 DEF CommitBatch, PhasesFit, TypeOK, Writing
  <1>3. /\ batch' = {} /\ staged' = {} /\ tally' = NoTally
        /\ eligible' = IF phase = "writeDrain" THEN eligible ELSE eligible + tally.ok
        /\ pop' = IF phase = "writeInitial" THEN pop ELSE UpdatedWith(pop, EligibleOf(batch))
        /\ UNCHANGED <<generation, counters, mark, dbVars, returned>>
        /\ Gaids' = Gaids /\ EligibleRows' = EligibleRows /\ Committed' = EligibleRows
    BY DEF CommitBatch, dbVars, Gaids, EligibleRows, Committed
  <1>4. /\ phase = "writeInitial" => phase' = "initial" /\ UNCHANGED <<wave, flying>>
        /\ phase = "writeDrain" => phase' = "extract" /\ UNCHANGED <<wave, flying>>
        /\ phase = "writeWave" =>
             IF Pipelined
             THEN wave' = {} /\ flying' = Waiting /\ phase' \in {"judge", "produce"}
                  /\ (phase' = "judge" => flying' = {})
             ELSE phase' = "judge" /\ UNCHANGED <<wave, flying>>
    BY DEF CommitBatch, Consider, Waiting
  <1>5. /\ EligibleRows \subseteq Gaids /\ Committed \subseteq EligibleRows
        /\ \A g \in EligibleRows : /\ rows[g] = 1 /\ found[g] \in Relaxed /\ found[g].ok
                                   /\ found[g].score \in Int /\ found[g].shape \in Int
        /\ \A g \in Gaids : rows[g] = 1 /\ found[g].ok => g \in EligibleRows
    BY <1>1, CommittedFacts
  <1> DEFINE new == {g \in staged : found[g].ok}
  <1>6. /\ staged \subseteq Gaids /\ \A g \in staged : rows[g] = 1
        /\ tally.ok = Cardinality(new)
        /\ new \subseteq Gaids /\ EligibleRows = Committed \cup new /\ Committed \cap new = {}
    BY <1>1, <1>2, <1>5 DEF TypeOK, TransactionFits, Committed
  <1>7. EligibleOf(batch) = {AsCandidate(g) : g \in new}
    BY <1>2 DEF EligibleOf
  <1> HIDE DEF new
  <1>8. IdsDiffer(EligibleOf(batch))
    BY <1>2, <1>5, <1>6, <1>7, CandidatesDiffer
  <1>9. phase # "writeInitial" =>
          /\ Population(pop') /\ NoRankWorse(pop', pop)
          /\ From(pop', pop, EligibleOf(batch))
          /\ \A a \in EligibleOf(batch) : NoneBetter(pop', a)
    <2>1. Population(pop)  BY <1>1 DEF TypeOK
    <2>2. /\ Population(UpdatedWith(pop, EligibleOf(batch)))
          /\ NoRankWorse(UpdatedWith(pop, EligibleOf(batch)), pop)
          /\ From(UpdatedWith(pop, EligibleOf(batch)), pop, EligibleOf(batch))
          /\ \A a \in EligibleOf(batch) : NoneBetter(UpdatedWith(pop, EligibleOf(batch)), a)
      BY <1>8, <2>1, UpdateImproves
    <2> QED  BY <1>3, <2>2
  <1>10. /\ phase' \in {"initial", "extract", "judge", "produce"}
         /\ wave' = {} /\ flying' \subseteq Waiting /\ Waiting' = {}
         /\ phase' # "produce" => flying' = {}
         /\ phase' = "produce" => phase = "writeWave" /\ Pipelined
    BY <1>1, <1>2, <1>4 DEF PhasesFit, Waiting
  <1>11. TypeOK'
    <2>1. Population(pop')  BY <1>1, <1>3, <1>9 DEF TypeOK
    <2>2. flying' \subseteq Gaids  BY <1>1, <1>2, <1>10 DEF TypeOK
    <2> QED  BY <1>1, <1>3, <1>10, <2>1, <2>2 DEF TypeOK, dbVars, NoTally
  <1>12. PhasesFit'
    BY <1>1, <1>2, <1>3, <1>10 DEF PhasesFit, Pipelined, Writing
  <1>13. WaitingIsUnrelaxed'
    <2>1. \A g \in flying' : rows[g] = 0
      BY <1>1, <1>2, <1>10 DEF WaitingIsUnrelaxed
    <2> QED  BY <1>3, <1>10, <2>1 DEF WaitingIsUnrelaxed, dbVars, Writing
  <1>14. TransactionFits'
    BY <1>1, <1>3, <1>10 DEF TransactionFits, dbVars, Writing
  <1>15. CountsFit'
    <2>1. Cardinality(EligibleRows) = Cardinality(Committed) + Cardinality(new)
      BY <1>2, <1>5, <1>6, GaidsAreFinite
    <2>2. Counted' => phase # "writeDrain" /\ Counted
      BY <1>2, <1>4 DEF Counted
    <2> QED  BY <1>1, <1>3, <1>6, <2>1, <2>2 DEF CountsFit
  <1>16. \A g \in Gaids : AsCandidate(g)' = AsCandidate(g) /\ AsCandidate(g).id = g
    BY <1>3 DEF AsCandidate, dbVars
  <1>17. PopulationFits'
    <2>1. ASSUME NEW i \in DOMAIN pop', phase # "writeInitial"
          PROVE  /\ pop'[i].id \in EligibleRows
                 /\ Carries(pop'[i], AsCandidate(pop'[i].id))
      <3>1. CASE \E a \in EligibleOf(batch) : Carries(pop'[i], a)
        <4>1. PICK g \in new : Carries(pop'[i], AsCandidate(g))  BY <1>7, <3>1
        <4>2. pop'[i].id = g  BY <1>6, <1>16, <4>1 DEF Carries
        <4> QED  BY <1>6, <4>1, <4>2
      <3>2. CASE \E k \in DOMAIN pop : Carries(pop'[i], pop[k])
        <4>1. PICK k \in DOMAIN pop : Carries(pop'[i], pop[k])  BY <3>2
        <4>2. pop[k].id \in Committed /\ Carries(pop[k], AsCandidate(pop[k].id))
          BY <1>1 DEF PopulationFits
        <4> QED  BY <1>5, <4>1, <4>2 DEF Carries
      <3> QED  BY <1>9, <2>1, <3>1, <3>2 DEF From
    <2>2. ASSUME NEW i \in DOMAIN pop', phase = "writeInitial"
          PROVE  /\ pop'[i].id \in EligibleRows
                 /\ Carries(pop'[i], AsCandidate(pop'[i].id))
      BY <1>1, <1>3, <1>5, <2>2 DEF PopulationFits
    <2>3. \A i \in DOMAIN pop' :
            pop'[i].id \in EligibleRows /\ Carries(pop'[i], AsCandidate(pop'[i].id))
      BY <2>1, <2>2
    <2> QED  BY <1>3, <2>3 DEF PopulationFits, AsCandidate, dbVars
  <1>18. BestFits'
    <2>1. ASSUME Evolving', NEW g \in EligibleRows  PROVE NoneBetter(pop', AsCandidate(g))
      <3>1. phase # "writeInitial" /\ Evolving
        BY <1>2, <1>4, <2>1 DEF Evolving
      <3>2. CASE g \in new
        BY <1>7, <1>9, <3>1, <3>2
      <3>3. CASE g \in Committed
        <4>1. 1 \in DOMAIN pop /\ pop[1].score >= AsCandidate(g).score
          BY <1>1, <3>1, <3>3 DEF BestFits, NoneBetter
        <4>2. 1 \in DOMAIN pop' /\ pop'[1].score >= pop[1].score
          BY <1>9, <3>1, <4>1 DEF NoRankWorse
        <4>3. pop[1].score \in Int /\ pop'[1].score \in Int /\ AsCandidate(g).score \in Int
          BY <1>1, <1>5, <1>9, <3>1, <4>1, <4>2, MemberFields
             DEF TypeOK, Population, AsCandidate
        <4> QED  BY <4>1, <4>2, <4>3 DEF NoneBetter
      <3> QED  BY <1>6, <3>2, <3>3
    <2>2. \A g \in EligibleRows : NoneBetter(pop, AsCandidate(g))' <=> NoneBetter(pop', AsCandidate(g))
      BY <1>5, <1>16 DEF NoneBetter
    <2> QED  BY <1>3, <2>1, <2>2 DEF BestFits
  <1>19. OffspringFit'
    BY <1>1, <1>3, <1>10 DEF OffspringFit, dbVars
  <1>20. EndFits'
    <2>1. phase = "writeDrain" => \A g \in Gaids : rows[g] = 1
      BY <1>1, <1>2, <1>6 DEF EndFits, TypeOK
    <2> QED  BY <1>3, <1>2, <1>4, <1>10, <2>1 DEF EndFits, dbVars
  <1> QED  BY <1>11, <1>12, <1>13, <1>14, <1>15, <1>17, <1>18, <1>19, <1>20 DEF IInv

\* A step of the caller between transactions that reads no batch: what it must
\* see to about the phase, the wave and the counters.
LEMMA ControlKeeps ==
  ASSUME IInv, UNCHANGED <<device, writeVars, dbVars, pop, eligible>>,
         ~Writing, ~Writing', phase \notin {"insert", "initial", "failed"},
         phase' \in {"generation", "produce", "wave", "waveEnd", "await", "relax",
                     "judge", "drain", "extract", "closed"},
         Counted' => Counted, Evolving' => Evolving,
         generation' \in Nat /\ counters'.created \in Nat /\ counters'.attempts \in Int,
         counters' = [created |-> counters'.created, attempts |-> counters'.attempts,
                      misses |-> counters'.misses, exhausted |-> counters'.exhausted],
         Waiting' \subseteq Waiting \cup flying, flying' \subseteq Waiting \cup flying,
         Waiting' \cap flying' = {},
         PhasesFit', OffspringFit', EndFits'
  PROVE  IInv'
PROOF
  <1>1. /\ TypeOK /\ PhasesFit /\ WaitingIsUnrelaxed /\ TransactionFits
        /\ Gaids' = Gaids /\ EligibleRows' = EligibleRows /\ Committed' = Committed
        /\ \A g \in Committed : found'[g] = found[g]
    BY DEF IInv, Gaids, EligibleRows, Committed, dbVars, writeVars
  <1>2. TypeOK'
    BY <1>1 DEF TypeOK, dbVars, writeVars
  <1>3. WaitingIsUnrelaxed'
    BY <1>1 DEF WaitingIsUnrelaxed, dbVars
  <1>4. TransactionFits'
    BY <1>1 DEF TransactionFits, dbVars
  <1>5. CountsFit' /\ PopulationFits' /\ BestFits'
    BY <1>1, Undisturbed
  <1> QED  BY <1>2, <1>3, <1>4, <1>5 DEF IInv

\* The first population comes from all the eligible rows.
LEMMA CreatePopulationKeeps ==
  ASSUME IInv, CreatePopulation, UNCHANGED device
  PROVE  IInv'
PROOF
  <1>1. /\ TypeOK /\ PhasesFit /\ WaitingIsUnrelaxed /\ TransactionFits /\ CountsFit
        /\ OffspringFit /\ inserted \in Nat
    BY DEF IInv, TypeOK
  <1>2. /\ phase = "initial" /\ phase' = "generation"
        /\ pop' = Initialized({AsCandidate(g) : g \in EligibleRows})
        /\ UNCHANGED <<generation, waveVars, flying, writeVars, dbVars, eligible, returned>>
        /\ Gaids' = Gaids /\ EligibleRows' = EligibleRows /\ Committed' = Committed
        /\ wave = {} /\ flying = {} /\ staged = {} /\ ~Writing /\ ~Writing'
    BY <1>1 DEF CreatePopulation, Gaids, EligibleRows, Committed, dbVars, writeVars,
                PhasesFit, Writing
  <1>3. /\ EligibleRows \subseteq Gaids /\ Committed = EligibleRows
        /\ \A g \in EligibleRows : found[g].score \in Int /\ found[g].shape \in Int
    BY <1>1, <1>2, CommittedFacts DEF Committed
  <1> DEFINE C == {AsCandidate(g) : g \in EligibleRows}
  <1>4. IdsDiffer(C)
    BY <1>1, <1>3, CandidatesDiffer
  <1>5. \A g \in Gaids : AsCandidate(g)' = AsCandidate(g) /\ AsCandidate(g).id = g
    BY <1>2 DEF AsCandidate, dbVars
  <1>6. /\ Population(pop') /\ From(pop', <<>>, C) /\ \A a \in C : NoneBetter(pop', a)
    <2> HIDE DEF C
    <2>1. /\ Population(Initialized(C)) /\ From(Initialized(C), <<>>, C)
          /\ \A a \in C : NoneBetter(Initialized(C), a)
      BY <1>4, InitializedIsAPopulation
    <2> QED  BY <1>2, <2>1 DEF C
  <1>7. TypeOK'
    BY <1>1, <1>2, <1>6 DEF TypeOK, waveVars, writeVars, dbVars, Waiting
  <1>8. PhasesFit'
    BY <1>1, <1>2 DEF PhasesFit, waveVars, writeVars, Pipelined
  <1>9. WaitingIsUnrelaxed'
    BY <1>2 DEF WaitingIsUnrelaxed, Waiting, waveVars
  <1>10. TransactionFits'
    BY <1>1, <1>2 DEF TransactionFits, dbVars
  <1>11. CountsFit'
    BY <1>1, <1>2 DEF CountsFit, Counted
  <1>12. PopulationFits'
    <2>1. ASSUME NEW i \in DOMAIN pop'
          PROVE  pop'[i].id \in EligibleRows /\ Carries(pop'[i], AsCandidate(pop'[i].id))
      <3>1. DOMAIN <<>> = {}  OBVIOUS
      <3>2. PICK g \in EligibleRows : Carries(pop'[i], AsCandidate(g))
        BY <1>6, <3>1 DEF From
      <3>3. pop'[i].id = g  BY <1>3, <1>5, <3>2 DEF Carries
      <3> QED  BY <3>2, <3>3
    <2> QED  BY <1>2, <1>3, <2>1 DEF PopulationFits, AsCandidate, dbVars
  <1>13. BestFits'
    <2>1. \A g \in EligibleRows : NoneBetter(pop', AsCandidate(g))  BY <1>6
    <2> QED  BY <1>2, <1>3, <2>1 DEF BestFits, NoneBetter, AsCandidate, dbVars
  <1>14. OffspringFit'
    BY <1>1, <1>2 DEF OffspringFit, dbVars
  <1>15. EndFits'
    BY <1>2 DEF EndFits
  <1> QED  BY <1>7, <1>8, <1>9, <1>10, <1>11, <1>12, <1>13, <1>14, <1>15 DEF IInv

\* The next generation, or the end of the loop.
LEMMA StartGenerationKeeps ==
  ASSUME IInv, StartGeneration, UNCHANGED device
  PROVE  IInv'
PROOF
  <1>1. /\ TypeOK /\ PhasesFit /\ OffspringFit /\ phase = "generation"
        /\ wave = {} /\ flying = {} /\ wave' = {} /\ flying' = {} /\ staged = {}
        /\ counters' = FreshCounters
        /\ UNCHANGED <<writeVars, dbVars, pop, eligible, returned>>
        /\ generation \in Nat /\ inserted \in Nat
    BY DEF IInv, PhasesFit, StartGeneration, Writing, TypeOK
  <1>2. \/ /\ generation' = generation + 1
           /\ phase' = IF Pipelined THEN "produce" ELSE "wave"
        \/ generation' = generation /\ phase' = "drain"
    BY DEF StartGeneration, AfterLoop
  <1>3. ~Writing /\ ~Writing'  BY <1>1, <1>2 DEF Writing
  <1>4. Waiting' = {}  BY <1>1, <1>2 DEF Waiting
  <1>5. PhasesFit'
    BY <1>1, <1>2, <1>3 DEF PhasesFit, Pipelined, writeVars
  <1>6. OffspringFit'
    <2>1. /\ inserted' = inserted /\ counters'.created = 0
          /\ inserted <= InitialSize + generation * NOffspring
      BY <1>1 DEF OffspringFit, dbVars, FreshCounters
    <2>2. InitialSize \in Nat /\ NOffspring \in Nat /\ generation * NOffspring \in Nat
      BY <1>1, Sizes
    <2>3. (generation + 1) * NOffspring = generation * NOffspring + NOffspring
      BY <1>1, <2>2
    <2> QED  BY <1>1, <1>2, <2>1, <2>2, <2>3 DEF OffspringFit
  <1>7. EndFits'
    BY <1>1, <1>2 DEF EndFits
  <1>8. generation' \in Nat  BY <1>1, <1>2
  <1> QED  BY <1>1, <1>2, <1>3, <1>4, <1>5, <1>6, <1>7, <1>8, ControlKeeps
           DEF FreshCounters, Counted, Evolving

\* A wave begins.
LEMMA StartWaveKeeps ==
  ASSUME IInv, StartWave, UNCHANGED device
  PROVE  IInv'
PROOF
  <1>1. /\ TypeOK /\ PhasesFit /\ OffspringFit /\ phase = "produce" /\ phase' = "wave"
        /\ wave' = {} /\ wave = {}
        /\ UNCHANGED <<generation, counters, flying, writeVars, dbVars, pop, eligible,
                       returned>>
    BY DEF IInv, PhasesFit, StartWave
  <1>2. ~Writing /\ ~Writing' /\ Waiting' = {}  BY <1>1 DEF Writing, Waiting
  <1>3. PhasesFit'
    BY <1>1, <1>2 DEF PhasesFit, Pipelined, writeVars
  <1>4. OffspringFit'
    BY <1>1 DEF OffspringFit, dbVars
  <1>5. EndFits'
    BY <1>1 DEF EndFits
  <1> QED  BY <1>1, <1>2, <1>3, <1>4, <1>5, ControlKeeps DEF TypeOK, Counted, Evolving

\* Jobs without parents.
LEMMA NoParentsKeeps ==
  ASSUME IInv, NoParents, UNCHANGED device
  PROVE  IInv'
PROOF
  <1>1. /\ TypeOK /\ PhasesFit /\ OffspringFit /\ phase = "wave" /\ phase' = "wave"
        /\ UNCHANGED <<generation, wave, flying, writeVars, dbVars, pop, eligible,
                       returned>>
    BY DEF IInv, NoParents, WaveOpen
  <1>2. /\ counters'.created = counters.created /\ counters'.attempts = counters.attempts
        /\ counters' = [created |-> counters'.created, attempts |-> counters'.attempts,
                        misses |-> counters'.misses, exhausted |-> counters'.exhausted]
    <2>1. PICK m, x : counters' = [counters EXCEPT !.misses = m, !.exhausted = x]
      BY DEF NoParents
    <2>2. PICK a, b, c, d : counters = [created |-> a, attempts |-> b, misses |-> c, exhausted |-> d]
      BY <1>1 DEF TypeOK
    <2> QED  BY <2>1, <2>2
  <1>3. ~Writing /\ ~Writing' /\ Waiting' = Waiting /\ Waiting \cap flying = {}
    BY <1>1 DEF IInv, Writing, Waiting, WaitingIsUnrelaxed
  <1>4. PhasesFit'
    BY <1>1, <1>3 DEF PhasesFit, Pipelined, writeVars
  <1>5. OffspringFit'
    BY <1>1, <1>2 DEF OffspringFit, dbVars
  <1>6. EndFits'
    BY <1>1 DEF EndFits
  <1> QED  BY <1>1, <1>2, <1>3, <1>4, <1>5, <1>6, ControlKeeps DEF TypeOK, Counted, Evolving

\* The children of a batch of jobs join the wave.
LEMMA BreedKeeps ==
  ASSUME IInv, Breed, UNCHANGED device
  PROVE  IInv'
PROOF
  <1>1. /\ TypeOK /\ PhasesFit /\ WaitingIsUnrelaxed /\ TransactionFits /\ OffspringFit
        /\ phase = "wave" /\ Waiting = wave
        /\ UNCHANGED <<generation, mark, flying, writeVars, pop, eligible, returned>>
        /\ phase' \in {"wave", "waveEnd"}
    BY DEF IInv, Breed, WaveOpen, Waiting
  <1>2. wave \subseteq Gaids /\ inserted \in Nat /\ counters.created \in Nat
        /\ counters.attempts \in Int /\ generation \in Nat
    BY <1>1 DEF TypeOK
  <1>3. PICK n \in 0..JobsTarget :
          /\ Insert(n)
          /\ wave' = wave \cup (inserted + 1)..inserted'
          /\ counters' = [created |-> counters.created + n,
                          attempts |-> counters.attempts + JobsTarget,
                          misses |-> 0, exhausted |-> FALSE]
    BY DEF Breed
  <1>4. JobsTarget \in Int /\ JobsTarget <= NOffspring - counters.created
    BY <1>1, <1>2, JobsFacts
  <1>5. n \in Nat /\ counters.created + n <= NOffspring
    BY <1>2, <1>4, Sizes
  <1>6. /\ inserted' = inserted + n /\ inserted' \in Nat
        /\ Gaids \subseteq Gaids'
        /\ rows' \in [Gaids' -> {0, 1}] /\ found' \in [Gaids' -> Relaxed \cup {None}]
        /\ \A g \in Gaids : rows'[g] = rows[g] /\ found'[g] = found[g]
        /\ \A g \in Gaids' \ Gaids : rows'[g] = 0
        /\ EligibleRows' = EligibleRows
    BY <1>1, <1>3, <1>5, InsertFacts
  <1>7. (inserted + 1)..inserted' = Gaids' \ Gaids
    BY <1>2, <1>5, <1>6 DEF Gaids
  <1>8. ~Writing /\ ~Writing' /\ Waiting' = wave'  BY <1>1 DEF Writing, Waiting
  <1>9. /\ counters'.created = counters.created + n /\ counters'.created \in Nat
        /\ counters'.attempts \in Int
        /\ counters' = [created |-> counters'.created, attempts |-> counters'.attempts,
                        misses |-> counters'.misses, exhausted |-> counters'.exhausted]
    BY <1>2, <1>3, <1>4, <1>5
  <1>10. TypeOK'
    BY <1>1, <1>2, <1>3, <1>6, <1>7, <1>8, <1>9 DEF TypeOK, writeVars
  <1>11. PhasesFit'
    BY <1>1, <1>8 DEF PhasesFit, Pipelined, writeVars
  <1>12. WaitingIsUnrelaxed'
    <2>1. flying \subseteq Gaids /\ wave \cap flying = {} /\ \A g \in wave \cup flying : rows[g] = 0
      BY <1>1 DEF TypeOK, WaitingIsUnrelaxed
    <2>2. wave' \cap flying = {}  BY <1>3, <1>7, <2>1
    <2>3. \A g \in wave' \cup flying : rows'[g] = 0
      BY <1>2, <1>3, <1>6, <1>7, <2>1
    <2> QED  BY <1>1, <1>8, <2>2, <2>3 DEF WaitingIsUnrelaxed
  <1>13. TransactionFits'
    BY <1>1, <1>6, <1>8 DEF TransactionFits
  <1>14. CountsFit' /\ PopulationFits' /\ BestFits'
    <2>1. Committed' = Committed /\ \A g \in Committed : found'[g] = found[g]
      BY <1>1, <1>6 DEF Committed, EligibleRows, writeVars
    <2> QED  BY <1>1, <2>1, Undisturbed DEF Counted, Evolving
  <1>15. OffspringFit'
    <2>1. inserted + NOffspring <= InitialSize + generation * NOffspring + counters.created
      BY <1>1 DEF OffspringFit
    <2>2. InitialSize \in Nat /\ NOffspring \in Nat /\ generation * NOffspring \in Nat
      BY <1>2, Sizes
    <2>3. /\ inserted' + NOffspring <=
               InitialSize + generation * NOffspring + counters'.created
          /\ inserted' <= InitialSize + generation * NOffspring
          /\ counters'.created <= NOffspring
      BY <1>2, <1>5, <1>6, <1>9, <2>1, <2>2
    <2> QED  BY <1>1, <2>3 DEF OffspringFit
  <1>16. EndFits'
    BY <1>1 DEF EndFits
  <1> QED  BY <1>10, <1>11, <1>12, <1>13, <1>14, <1>15, <1>16 DEF IInv

\* A wave, or the production of a generation, is over.
LEMMA EndWaveKeeps ==
  ASSUME IInv, EndWave \/ EndProduction, UNCHANGED device
  PROVE  IInv'
PROOF
  <1>1. /\ TypeOK /\ PhasesFit /\ OffspringFit
        /\ phase \in {"wave", "waveEnd", "produce"}
        /\ UNCHANGED <<generation, counters, writeVars, dbVars, pop, eligible, returned>>
        /\ ~Writing /\ Waiting = wave /\ Waiting \cap flying = {}
    BY DEF IInv, EndWave, EndProduction, Writing, Waiting, WaitingIsUnrelaxed
  <1>2. Delivered \in {wave, None, {}} /\ (phase = "produce" => wave = {} /\ Pipelined)
    BY <1>1 DEF Delivered, PhasesFit
  <1>3. \/ ~Pipelined /\ phase' = "relax" /\ wave' = {} /\ flying' = flying
        \/ /\ Pipelined /\ flying = {} /\ wave' = {} /\ flying' \subseteq wave
           /\ \/ phase' = "judge" /\ flying' = {}
              \/ phase' = "produce"
        \/ /\ Pipelined /\ flying # {} /\ phase' = "await" /\ wave' \in {wave, None, {}}
           /\ flying' = flying
    <2>1. CASE EndWave
      <3>1. CASE ~Pipelined  BY <2>1, <3>1 DEF EndWave
      <3>2. CASE Pipelined /\ flying = {}
        <4>1. Consider(Delivered)  BY <2>1, <3>2 DEF EndWave
        <4> QED  BY <1>2, <3>2, <4>1 DEF Consider
      <3>3. CASE Pipelined /\ flying # {}
        BY <1>2, <2>1, <3>3 DEF EndWave
      <3> QED  BY <3>1, <3>2, <3>3
    <2>2. CASE EndProduction
      <3>1. phase = "produce"  BY <2>2 DEF EndProduction
      <3>2. CASE flying = {}
        <4>1. Consider(None)  BY <2>2, <3>2 DEF EndProduction
        <4> QED  BY <1>2, <3>1, <3>2, <4>1 DEF Consider
      <3>3. CASE flying # {}
        BY <1>2, <2>2, <3>1, <3>3 DEF EndProduction
      <3> QED  BY <3>2, <3>3
    <2> QED  BY <2>1, <2>2
  <1>4. phase' \in {"relax", "judge", "produce", "await"} /\ ~Writing'
    BY <1>3 DEF Writing
  <1>5. /\ Waiting' \subseteq wave /\ flying' \subseteq wave \cup flying
        /\ Waiting' \cap flying' = {}
    BY <1>1, <1>3 DEF Waiting
  <1>6. ~Pipelined => flying = {}  BY <1>1 DEF PhasesFit
  <1>7. PhasesFit'
    BY <1>1, <1>3, <1>4, <1>6 DEF PhasesFit, Pipelined, writeVars
  <1>8. OffspringFit'
    BY <1>1, <1>4 DEF OffspringFit, dbVars
  <1>9. EndFits'
    BY <1>4 DEF EndFits
  <1> QED  BY <1>1, <1>4, <1>5, <1>7, <1>8, <1>9, ControlKeeps DEF TypeOK, Counted, Evolving

\* The verdict on the generation, and what finds nothing to relax.
LEMMA JudgeKeeps ==
  ASSUME IInv, UNCHANGED device,
         Judge \/ (RelaxGeneration /\ phase' = "judge") \/ (Drain /\ phase' = "extract")
  PROVE  IInv'
PROOF
  <1>1. /\ TypeOK /\ PhasesFit /\ OffspringFit /\ phase \in {"judge", "relax", "drain"}
        /\ UNCHANGED <<generation, counters, wave, flying, writeVars, dbVars, pop, eligible,
                       returned>>
        /\ phase' \in {"generation", "judge", "drain", "extract"}
        /\ phase' = "extract" => Pending = {}
    BY DEF IInv, Judge, RelaxGeneration, Drain, Relax, AfterLoop, waveVars
  <1>2. /\ wave = {} /\ flying = {} /\ ~Writing /\ ~Writing' /\ Waiting' = {}
        /\ wave' = {} /\ flying' = {}
    BY <1>1 DEF PhasesFit, Writing, Waiting
  <1>3. PhasesFit'
    BY <1>1, <1>2 DEF PhasesFit, writeVars
  <1>4. OffspringFit'
    BY <1>1 DEF OffspringFit, dbVars
  <1>5. EndFits'
    <2>1. Pending = {} => \A g \in Gaids : rows[g] = 1  BY <1>1 DEF Pending, TypeOK
    <2> QED  BY <1>1, <2>1 DEF EndFits, dbVars, Gaids
  <1> QED  BY <1>1, <1>2, <1>3, <1>4, <1>5, ControlKeeps DEF TypeOK, Counted, Evolving

\* What the run returns.
LEMMA ExtractKeeps ==
  ASSUME IInv, Extract, UNCHANGED device
  PROVE  IInv'
PROOF
  <1>1. /\ TypeOK /\ PhasesFit /\ OffspringFit /\ EndFits
        /\ phase = "extract" /\ phase' = "closed" /\ returned' = EligibleRows
        /\ UNCHANGED <<generation, counters, wave, flying, writeVars, dbVars, pop, eligible>>
    BY DEF IInv, Extract, waveVars
  <1>2. /\ wave = {} /\ flying = {} /\ ~Writing /\ ~Writing' /\ Waiting' = {}
        /\ wave' = {} /\ flying' = {}
    BY <1>1 DEF PhasesFit, Writing, Waiting
  <1>3. PhasesFit'
    BY <1>1, <1>2 DEF PhasesFit, writeVars
  <1>4. OffspringFit'
    BY <1>1 DEF OffspringFit, dbVars
  <1>5. EndFits'
    <2>1. \A g \in Gaids : rows[g] = 1  BY <1>1 DEF EndFits
    <2>2. EligibleRows = {g \in Gaids : found[g].ok}  BY <2>1 DEF EligibleRows
    <2> QED  BY <1>1, <2>1, <2>2 DEF EndFits, dbVars, Gaids
  <1> QED  BY <1>1, <1>2, <1>3, <1>4, <1>5, ControlKeeps DEF TypeOK, Counted, Evolving

-----------------------------------------------------------------------------
(* The theorems. *)

\* A run starts within the invariant, and no step leaves it.
THEOREM GaRunInvariance == Spec => []IInv
PROOF
  <1>1. ASSUME Init  PROVE IInv
    <2>1. Gaids = {}  BY <1>1 DEF Init, Gaids
    <2>2. <<>> \in [{} -> {0, 1}] /\ <<>> \in [{} -> Relaxed \cup {None}]  OBVIOUS
    <2>3. Population(pop)
      <3>1. <<>> \in Seq(Members) /\ Len(<<>>) = 0 /\ DOMAIN <<>> = {}  OBVIOUS
      <3> QED  BY <1>1, <3>1, PopulationAssumption DEF Init, Population, Descending
    <2>4. TypeOK
      <3>1. device \in {"cpu", "cuda"}  BY <1>1, GaRunAssumption DEF Init
      <3> QED  BY <1>1, <2>1, <2>2, <2>3, <3>1
               DEF Init, TypeOK, FreshCounters, NoTally, Waiting
    <2>5. PhasesFit  BY <1>1 DEF Init, PhasesFit, Writing
    <2>6. WaitingIsUnrelaxed  BY <1>1 DEF Init, WaitingIsUnrelaxed, Waiting, Writing
    <2>7. TransactionFits  BY <1>1, <2>1 DEF Init, TransactionFits, Writing
    <2>8. EligibleRows = {} /\ Committed = {} /\ eligible = 0 /\ DOMAIN pop = {}
      BY <1>1, <2>1 DEF Init, EligibleRows, Committed
    <2>9. CountsFit  BY <2>8, FS_EmptySet DEF CountsFit
    <2>10. PopulationFits /\ BestFits  BY <2>8 DEF PopulationFits, BestFits
    <2>11. OffspringFit  BY <1>1, Sizes DEF Init, OffspringFit
    <2>12. EndFits  BY <1>1 DEF Init, EndFits
    <2> QED  BY <2>4, <2>5, <2>6, <2>7, <2>9, <2>10, <2>11, <2>12 DEF IInv
  <1>2. ASSUME IInv, Steps, UNCHANGED device  PROVE IInv'
    <2>1. CASE InsertInitial  BY <1>2, <2>1, InsertInitialKeeps
    <2>2. CASE InitialBatch  BY <1>2, <2>2, BatchesKeep
    <2>3. CASE CreatePopulation  BY <1>2, <2>3, CreatePopulationKeeps
    <2>4. CASE StartGeneration  BY <1>2, <2>4, StartGenerationKeeps
    <2>5. CASE StartWave  BY <1>2, <2>5, StartWaveKeeps
    <2>6. CASE NoParents  BY <1>2, <2>6, NoParentsKeeps
    <2>7. CASE Breed  BY <1>2, <2>7, BreedKeeps
    <2>8. CASE EndWave \/ EndProduction  BY <1>2, <2>8, EndWaveKeeps
    <2>9. CASE TakeResult  BY <1>2, <2>9, BatchesKeep
    <2>10. CASE RelaxGeneration  BY <1>2, <2>10, BatchesKeep, JudgeKeeps
    <2>11. CASE Judge  BY <1>2, <2>11, JudgeKeeps
    <2>12. CASE WriteRow  BY <1>2, <2>12, WriteRowKeeps
    <2>13. CASE WriteLocked
      <3>1. /\ Writing /\ rows' = RolledBack /\ staged' = {} /\ tally' = NoTally
            /\ phase' \in {phase, "failed"}
            /\ UNCHANGED <<generation, waveVars, flying, batch, inserted, found, pop,
                           eligible, returned>>
        BY <2>13 DEF WriteLocked, FreshTally
      <3> QED  BY <1>2, <3>1, RollbackKeeps
    <2>14. CASE CommitBatch  BY <1>2, <2>14, CommitBatchKeeps
    <2>15. CASE Drain  BY <1>2, <2>15, BatchesKeep, JudgeKeeps
    <2>16. CASE Extract  BY <1>2, <2>16, ExtractKeeps
    <2> QED  BY <1>2, <2>1, <2>2, <2>3, <2>4, <2>5, <2>6, <2>7, <2>8, <2>9, <2>10,
                <2>11, <2>12, <2>13, <2>14, <2>15, <2>16 DEF Steps
  <1>3. ASSUME IInv, Raise, UNCHANGED device  PROVE IInv'
    BY <1>3, RollbackKeeps DEF Raise
  <1>4. ASSUME IInv, UNCHANGED vars  PROVE IInv'
    BY <1>4 DEF vars, IInv, TypeOK, PhasesFit, WaitingIsUnrelaxed, TransactionFits,
                CountsFit, PopulationFits, BestFits, OffspringFit, EndFits, Waiting, Gaids,
                Writing, Pipelined, Counted, Evolving, Committed, EligibleRows,
                AsCandidate, NoneBetter, Carries
  <1>5. ASSUME IInv, [Next]_vars  PROVE IInv'
    BY <1>2, <1>3, <1>4, <1>5 DEF Next, Stopped
  <1> QED  BY <1>1, <1>5, PTL DEF Spec

\* However often a batch is written, a candidate has at most one relaxed row.
THEOREM OneRelaxedRow == Spec => []RelaxedOnce
PROOF
  <1>1. IInv => RelaxedOnce  BY DEF IInv, TypeOK, RelaxedOnce
  <1> QED  BY <1>1, GaRunInvariance, PTL

\* The reported counts add up to the rows, whatever was rolled back between.
THEOREM CountsAddUp == Spec => []CountsAreDurable
PROOF
  <1>1. ASSUME IInv  PROVE CountsAreDurable
    <2> SUFFICES ASSUME phase \in {"initial", "generation", "produce", "wave", "waveEnd",
                                   "await", "relax", "judge", "drain"}
                 PROVE  eligible = Cardinality(EligibleRows)
      BY DEF CountsAreDurable
    <2>1. ~Writing /\ Counted  BY DEF Writing, Counted
    <2>2. Committed = EligibleRows  BY <1>1, <2>1 DEF IInv, PhasesFit, Committed
    <2> QED  BY <1>1, <2>1, <2>2 DEF IInv, CountsFit
  <1> QED  BY <1>1, GaRunInvariance, PTL

\* Every parent is a committed, eligible row with the score of that row.
THEOREM ParentsAreCommitted == Spec => []PopulationIsDurable
PROOF
  <1>1. ASSUME IInv  PROVE PopulationIsDurable
    BY <1>1 DEF IInv, PopulationFits, PopulationIsDurable, Committed, Carries, AsCandidate
  <1> QED  BY <1>1, GaRunInvariance, PTL

\* Early stopping compares the best eligible structure of the whole database.
THEOREM BestIsJudged == Spec => []BestIsDurable
PROOF
  <1>1. ASSUME IInv  PROVE BestIsDurable
    <2> SUFFICES ASSUME phase = "judge", NEW g \in EligibleRows
                 PROVE  pop[1].score >= found[g].score
      BY DEF BestIsDurable
    <2>1. Evolving /\ ~Writing  BY DEF Writing, Evolving
    <2>2. g \in Committed  BY <1>1, <2>1 DEF IInv, PhasesFit, Committed
    <2> QED  BY <1>1, <2>1, <2>2 DEF IInv, BestFits, NoneBetter, AsCandidate
  <1> QED  BY <1>1, GaRunInvariance, PTL

\* No generation makes more offspring than asked for, and a run that returns
\* has relaxed every candidate it inserted and returns every eligible one.
THEOREM EverythingIsRelaxed == Spec => []NothingIsLost
PROOF
  <1>1. ASSUME IInv  PROVE NothingIsLost
    BY <1>1 DEF IInv, OffspringFit, EndFits, NothingIsLost
  <1> QED  BY <1>1, GaRunInvariance, PTL

-----------------------------------------------------------------------------
(* The run as its ledger sees it. *)

\* A transaction is never empty and leaves no batch behind, the GPU is waited
\* for only when it is busy, and nothing is a parent before the population is
\* made.
BatchFits ==
  /\ phase = "await" => flying # {}
  /\ Writing => batch # {}
  /\ ~Writing /\ phase # "failed" => batch = {}
  /\ phase \in {"insert", "initial", "writeInitial"} => pop = <<>>

\* While candidates wait for their relaxation, a batch can be read.
LEMMA UnrelaxedTaken ==
  ASSUME inserted \in Nat, Pending # {}, NEW cap \in (Nat \ {0}) \cup {Unlimited}
  PROVE  Unrelaxed(cap) # {}
PROOF
  <1> DEFINE P == Pending
  <1>1. P \in SUBSET Nat /\ P # {}  BY DEF Pending, Gaids
  <1> HIDE DEF P
  <1>2. PICK g \in P : \A h \in P : g <= h  BY <1>1, LeastNumber
  <1>3. {h \in P : h < g} = {}
    <2>1. \A h \in P : ~(h < g)  BY <1>1, <1>2
    <2> QED  BY <2>1
  <1>4. cap = Unlimited \/ Cardinality({h \in P : h < g}) < cap
    BY <1>3, FS_EmptySet, GaRunAssumption
  <1>5. g \in Unrelaxed(cap)  BY <1>4 DEF Unrelaxed, P
  <1> QED  BY <1>5

\* A batch is read while something is pending, or is the one on the GPU.
LEMMA BatchesAreTaken ==
  ASSUME IInv, BatchFits, InitialBatch \/ TakeResult \/ RelaxGeneration \/ Drain
  PROVE  \/ /\ phase' \in {"judge", "extract"} /\ UNCHANGED <<batch, staged, rows>>
         \/ /\ phase' \in {"writeInitial", "writeWave", "writeDrain"}
            /\ phase' = "writeInitial" => phase = "initial"
            /\ batch' # {} /\ batch' \subseteq {g \in Gaids : rows[g] = 0}
            /\ staged' = {} /\ rows' = rows
PROOF
  <1>1. inserted \in Nat /\ \A cap : Unrelaxed(cap) \subseteq {g \in Gaids : rows[g] = 0}
    BY DEF IInv, TypeOK, Unrelaxed, Pending
  <1>2. CASE InitialBatch
    <2>1. BatchSize \in (Nat \ {0}) \cup {Unlimited}  BY GaRunAssumption
    <2>2. Unrelaxed(BatchSize) # {}  BY <1>1, <1>2, <2>1, UnrelaxedTaken DEF InitialBatch
    <2> QED  BY <1>1, <1>2, <2>2 DEF InitialBatch, Relax
  <1>3. CASE TakeResult
    <2>1. flying # {} /\ flying \subseteq {g \in Gaids : rows[g] = 0}
      BY <1>3 DEF TakeResult, BatchFits, IInv, TypeOK, WaitingIsUnrelaxed
    <2> QED  BY <1>3, <2>1 DEF TakeResult, Relax
  <1>4. CASE RelaxGeneration
    <2> DEFINE cap == IF BatchSize = Unlimited THEN Max({NOffspring, PopulationSize})
                                               ELSE BatchSize
    <2>1. \/ phase' = "judge" /\ UNCHANGED <<batch, staged, rows>>
          \/ Unrelaxed(cap) # {} /\ Relax(Unrelaxed(cap), "writeWave")
      BY <1>4 DEF RelaxGeneration, writeVars, dbVars
    <2> HIDE DEF cap
    <2> QED  BY <1>1, <2>1 DEF Relax
  <1>5. CASE Drain
    <2>1. CASE Pending = {}
      BY <1>5, <2>1 DEF Drain, writeVars, dbVars
    <2>2. CASE Pending # {}
      <3>1. Unrelaxed(Unlimited) # {}  BY <1>1, <2>2, UnrelaxedTaken
      <3> QED  BY <1>1, <1>5, <2>2, <3>1 DEF Drain, Relax
    <2> QED  BY <2>1, <2>2
  <1> QED  BY <1>2, <1>3, <1>4, <1>5

\* No step leaves an empty batch to be written, or a batch that is forgotten.
LEMMA BatchFitsKept ==
  ASSUME IInv, BatchFits, [Next]_vars
  PROVE  BatchFits'
PROOF
  <1> USE DEF BatchFits, Writing
  <1>1. CASE InsertInitial  BY <1>1 DEF InsertInitial, writeVars
  <1>2. CASE InitialBatch \/ TakeResult \/ RelaxGeneration \/ Drain
    <2>1. pop' = pop /\ phase \in {"initial", "await", "relax", "drain"}
      BY <1>2 DEF InitialBatch, TakeResult, RelaxGeneration, Drain
    <2> QED  BY <1>2, <2>1, BatchesAreTaken
  <1>3. CASE CreatePopulation  BY <1>3 DEF CreatePopulation, writeVars
  <1>4. CASE StartGeneration  BY <1>4 DEF StartGeneration, AfterLoop, writeVars
  <1>5. CASE StartWave  BY <1>5 DEF StartWave, writeVars
  <1>6. CASE NoParents  BY <1>6 DEF NoParents, WaveOpen, writeVars
  <1>7. CASE Breed  BY <1>7 DEF Breed, WaveOpen, writeVars
  <1>8. CASE EndWave \/ EndProduction
    BY <1>8 DEF EndWave, EndProduction, Consider, writeVars
  <1>9. CASE Judge  BY <1>9 DEF Judge, AfterLoop, writeVars
  <1>10. CASE WriteRow  BY <1>10 DEF WriteRow
  <1>11. CASE WriteLocked  BY <1>11 DEF WriteLocked
  <1>12. CASE CommitBatch  BY <1>12 DEF CommitBatch, Consider
  <1>13. CASE Extract  BY <1>13 DEF Extract, writeVars
  <1>14. CASE Raise  BY <1>14 DEF Raise
  <1>15. CASE UNCHANGED vars  BY <1>15 DEF vars
  <1> QED
    BY <1>1, <1>2, <1>3, <1>4, <1>5, <1>6, <1>7, <1>8, <1>9, <1>10, <1>11, <1>12, <1>13,
       <1>14, <1>15 DEF Next, Steps, Stopped

\* What is durable, gaid by gaid.
DurableRows ==
  /\ Durable = [g \in Gaids |-> Durable[g]]
  /\ \A g \in Gaids : Durable[g] = IF g \in staged THEN 0 ELSE rows[g]

\* They are the rows of the candidates that are not in an open transaction.
LEMMA DurableFacts == IInv => DurableRows
PROOF
  <1> SUFFICES ASSUME IInv  PROVE DurableRows
    OBVIOUS
  <1>1. /\ rows \in [Gaids -> {0, 1}] /\ staged \subseteq batch /\ batch \subseteq Gaids
        /\ ~Writing => staged = {}
        /\ Writing => \A g \in staged : rows[g] = 1
    BY DEF IInv, TypeOK, PhasesFit, TransactionFits
  <1>2. \A g \in Gaids : Durable[g] = IF g \in staged THEN rows[g] - 1 ELSE rows[g]
    BY DEF Durable
  <1>3. \A g \in Gaids : Durable[g] = IF g \in staged THEN 0 ELSE rows[g]
    BY <1>1, <1>2
  <1>4. Durable = [g \in Gaids |-> Durable[g]]  BY DEF Durable
  <1> QED  BY <1>3, <1>4 DEF DurableRows

\* So they are after a step.
LEMMA DurableNext == IInv' => DurableRows'
  BY DurableFacts, PTL

\* Two states with the same gaids have the same durable rows if they have so
\* for each gaid.
LEMMA SameDurable ==
  ASSUME IInv, IInv', Gaids' = Gaids,
         \A g \in Gaids : (IF g \in staged' THEN 0 ELSE rows'[g])
                            = (IF g \in staged THEN 0 ELSE rows[g])
  PROVE  Durable' = Durable
PROOF
  <1>1. \A g \in Gaids : Durable[g] = IF g \in staged THEN 0 ELSE rows[g]
    BY DurableFacts DEF DurableRows
  <1>2. \A g \in Gaids' : Durable'[g] = IF g \in staged' THEN 0 ELSE rows'[g]
    BY DurableNext DEF DurableRows
  <1>3. \A g \in Gaids : Durable'[g] = Durable[g]  BY <1>1, <1>2
  <1>4. Durable = [g \in Gaids |-> Durable[g]] /\ Durable' = [g \in Gaids |-> Durable'[g]]
    BY DEF Durable
  <1> QED  BY <1>3, <1>4

\* Candidates that are inserted have no durable row yet.
LEMMA InsertionImplements ==
  ASSUME IInv, IInv', NEW n \in Nat, Insert(n), phase \in {"insert", "wave"},
         Status = "open", UNCHANGED <<batch, staged, pop>>,
         \/ Status' = "open"
         \/ Status' = "returned" /\ n = 0 /\ phase = "insert" /\ batch = {}
  PROVE  Ledger!RunNext \/ UNCHANGED Ledger!runVars
PROOF
  <1>1. /\ inserted \in Nat /\ inserted' = inserted + n
        /\ rows' = [g \in 1..inserted' |-> IF g <= inserted THEN rows[g] ELSE 0]
        /\ phase = "insert" => inserted = 0
    BY DEF IInv, TypeOK, PhasesFit, Insert
  <1>2. staged = {} /\ staged' = {}  BY DEF IInv, PhasesFit, Writing
  <1>3. Parents' = Parents  BY DEF Parents
  <1>4. \A g \in Gaids : Durable[g] = rows[g]  BY <1>2, DurableFacts DEF DurableRows
  <1>5. \A g \in Gaids' : Durable'[g] = rows'[g]  BY <1>2, DurableNext DEF DurableRows
  <1>6. Gaids = 1..inserted /\ Gaids' = 1..inserted'  BY DEF Gaids
  <1>7. Durable' = [g \in 1..inserted' |-> IF g \in 1..inserted THEN Durable[g] ELSE 0]
    <2>1. \A g \in 1..inserted' :
            Durable'[g] = IF g \in 1..inserted THEN Durable[g] ELSE 0
      BY <1>1, <1>4, <1>5, <1>6
    <2>2. Durable' = [g \in Gaids' |-> Durable'[g]]  BY DEF Durable
    <2> QED  BY <1>6, <2>1, <2>2
  <1>8. CASE n = 0
    <2>1. inserted' = inserted  BY <1>1, <1>8
    <2>2. Durable' = Durable
      <3>1. Gaids' = Gaids /\ \A g \in Gaids : rows'[g] = rows[g]
        BY <1>1, <1>6, <2>1
      <3> QED  BY <1>2, <3>1, SameDurable
    <2>3. CASE Status' = "open"
      BY <1>3, <2>1, <2>2, <2>3 DEF Ledger!runVars
    <2>4. CASE Status' # "open"
      <3>1. 1..inserted = {}  BY <1>1, <2>4
      <3>2. Ledger!Return
        BY <1>3, <2>1, <2>2, <2>4, <3>1 DEF Ledger!Return, Ledger!Candidates
      <3> QED  BY <3>2 DEF Ledger!RunNext
    <2> QED  BY <2>3, <2>4
  <1>9. CASE n # 0
    <2>1. inserted' \in Nat /\ inserted' > inserted  BY <1>1, <1>9
    <2>2. Ledger!InsertMore
      BY <1>3, <1>7, <1>9, <2>1 DEF Ledger!InsertMore, Ledger!Candidates
    <2> QED  BY <2>2 DEF Ledger!RunNext
  <1> QED  BY <1>8, <1>9

\* A batch that is read consists of candidates without a durable row.
LEMMA ReadingImplements ==
  ASSUME IInv, IInv', BatchFits, InitialBatch \/ TakeResult \/ RelaxGeneration \/ Drain
  PROVE  Ledger!RunNext \/ UNCHANGED Ledger!runVars
PROOF
  <1>1. /\ phase \in {"initial", "await", "relax", "drain"} /\ pop' = pop
        /\ inserted' = inserted
    BY DEF InitialBatch, TakeResult, RelaxGeneration, Drain, Relax, dbVars
  <1>2. /\ \/ /\ phase' \in {"judge", "extract"} /\ UNCHANGED <<batch, staged, rows>>
           \/ /\ phase' \in {"writeInitial", "writeWave", "writeDrain"}
              /\ batch' # {} /\ batch' \subseteq {g \in Gaids : rows[g] = 0}
              /\ staged' = {} /\ rows' = rows
    BY BatchesAreTaken
  <1>3. staged = {} /\ staged' = {} /\ batch = {} /\ rows' = rows
    BY <1>1, <1>2 DEF IInv, PhasesFit, BatchFits, Writing
  <1>4. Status = "open" /\ Status' = "open"  BY <1>1, <1>2 DEF Status
  <1>5. Gaids' = Gaids /\ Parents' = Parents  BY <1>1 DEF Gaids, Parents
  <1>6. Durable' = Durable  BY <1>3, <1>5, SameDurable
  <1>7. CASE batch' = batch
    BY <1>1, <1>4, <1>5, <1>6, <1>7 DEF Ledger!runVars
  <1>8. CASE batch' # batch
    <2>1. batch' # {} /\ batch' \subseteq {g \in Gaids : Durable[g] = 0}
      BY <1>2, <1>3, <1>8, DurableFacts DEF DurableRows
    <2>2. Ledger!TakeBatch
      BY <1>1, <1>3, <1>4, <1>5, <1>6, <2>1 DEF Ledger!TakeBatch, Ledger!Candidates, Gaids
    <2> QED  BY <2>2 DEF Ledger!RunNext
  <1> QED  BY <1>7, <1>8

\* The population is made of stored candidates.
LEMMA PopulatingImplements ==
  ASSUME IInv, IInv', BatchFits, CreatePopulation
  PROVE  Ledger!RunNext \/ UNCHANGED Ledger!runVars
PROOF
  <1>1. /\ phase = "initial" /\ phase' = "generation"
        /\ UNCHANGED <<inserted, rows, staged, batch>>
    BY DEF CreatePopulation, writeVars, dbVars
  <1>2. staged = {} /\ batch = {} /\ pop = <<>>
    BY <1>1 DEF IInv, PhasesFit, BatchFits, Writing
  <1>3. Status = "open" /\ Status' = "open"  BY <1>1 DEF Status
  <1>4. Gaids' = Gaids  BY <1>1 DEF Gaids
  <1>5. Durable' = Durable  BY <1>1, <1>4, SameDurable
  <1>6. Parents = {}  BY <1>2 DEF Parents
  <1>7. Parents' \subseteq {g \in Gaids : Durable[g] = 1}
    <2>1. \A i \in DOMAIN pop' : pop'[i].id \in Committed'
      BY DEF IInv, PopulationFits
    <2>2. Committed' \subseteq EligibleRows'  BY DEF Committed
    <2>3. \A g \in EligibleRows' : g \in Gaids /\ rows[g] = 1
      <3>1. rows \in [Gaids -> {0, 1}]  BY DEF IInv, TypeOK
      <3>2. \A g \in EligibleRows' : rows[g] > 0 /\ g \in Gaids
        BY <1>1, <1>4 DEF EligibleRows
      <3> QED  BY <3>1, <3>2
    <2>4. \A g \in Gaids : Durable[g] = rows[g]  BY <1>2, DurableFacts DEF DurableRows
    <2> QED  BY <2>1, <2>2, <2>3, <2>4 DEF Parents
  <1>8. Ledger!FoundPopulation
    BY <1>1, <1>2, <1>3, <1>5, <1>6, <1>7 DEF Ledger!FoundPopulation, Ledger!Candidates, Gaids
  <1> QED  BY <1>8 DEF Ledger!RunNext

\* A row that is written is not durable before its transaction commits, and an
\* attempt that is given up, or an error, leaves what was durable.
LEMMA WritingImplements ==
  ASSUME IInv, IInv', WriteRow \/ WriteLocked \/ Raise
  PROVE  Ledger!RunNext \/ UNCHANGED Ledger!runVars
PROOF
  <1>1. /\ phase \notin {"closed", "failed"} /\ phase' \in {phase, "failed"}
        /\ UNCHANGED <<inserted, batch, pop>>
    BY DEF WriteRow, WriteLocked, Raise, Writing, dbVars
  <1>2. Status = "open" /\ Status' \in {"open", "failed"}  BY <1>1 DEF Status
  <1>3. Gaids' = Gaids /\ Parents' = Parents  BY <1>1 DEF Gaids, Parents
  <1>4. Durable' = Durable
    <2>1. CASE WriteRow
      <3>1. PICK g \in batch \ staged :
               rows' = [rows EXCEPT ![g] = @ + 1] /\ staged' = staged \cup {g}
        BY <2>1 DEF WriteRow
      <3>2. rows[g] = 0 /\ rows \in [Gaids -> {0, 1}]
        BY <2>1, <3>1 DEF WriteRow, IInv, TypeOK, TransactionFits
      <3>3. \A h \in Gaids : (IF h \in staged' THEN 0 ELSE rows'[h])
                               = (IF h \in staged THEN 0 ELSE rows[h])
        BY <3>1, <3>2
      <3> QED  BY <1>3, <3>3, SameDurable
    <2>2. CASE WriteLocked \/ Raise
      <3>1. /\ rows' = IF Writing THEN RolledBack ELSE rows
            /\ staged' = {}
        BY <2>2 DEF WriteLocked, Raise
      <3>2. \A h \in Gaids : (IF h \in staged' THEN 0 ELSE rows'[h])
                               = (IF h \in staged THEN 0 ELSE rows[h])
        BY <3>1, RolledBackFacts DEF IInv, PhasesFit
      <3> QED  BY <1>3, <3>2, SameDurable
    <2> QED  BY <2>1, <2>2
  <1>5. CASE Status' = "open"
    BY <1>1, <1>2, <1>3, <1>4, <1>5 DEF Ledger!runVars
  <1>6. CASE Status' = "failed"
    BY <1>1, <1>2, <1>3, <1>4, <1>6 DEF Ledger!Fail, Ledger!RunNext
  <1> QED  BY <1>2, <1>5, <1>6

\* The eligible structures of a batch are told apart by their ids.
LEMMA EligibleDiffer ==
  ASSUME IInv, Writing
  PROVE  /\ IdsDiffer(EligibleOf(batch))
         /\ \A a \in EligibleOf(batch) : a.id \in batch
PROOF
  <1> DEFINE S == {g \in batch : found[g].ok}
  <1>1. /\ inserted \in Nat /\ S \in SUBSET Gaids
        /\ \A g \in S : found[g] \in Relaxed
    BY DEF IInv, TypeOK, TransactionFits
  <1>2. EligibleOf(batch) = {AsCandidate(g) : g \in S}  BY DEF EligibleOf
  <1>3. \A g \in S : AsCandidate(g).id \in batch  BY DEF AsCandidate
  <1> HIDE DEF S
  <1>4. IdsDiffer(EligibleOf(batch))  BY <1>1, <1>2, RelaxedFields, CandidatesDiffer
  <1> QED  BY <1>2, <1>3, <1>4

\* The commit stores the batch, all of it, and some of it enter the population.
LEMMA CommitImplements ==
  ASSUME IInv, IInv', BatchFits, CommitBatch
  PROVE  Ledger!RunNext \/ UNCHANGED Ledger!runVars
PROOF
  <1>1. /\ phase \in {"writeInitial", "writeWave", "writeDrain"}
        /\ phase' \in {"initial", "extract", "judge", "produce"}
        /\ batch' = {} /\ staged' = {} /\ staged = batch
        /\ UNCHANGED <<inserted, rows>>
        /\ pop' = pop \/ pop' = UpdatedWith(pop, EligibleOf(batch))
    BY DEF CommitBatch, Writing, Consider, dbVars
  <1>2. Writing /\ batch # {}  BY <1>1 DEF Writing, BatchFits
  <1>3. /\ rows \in [Gaids -> {0, 1}] /\ batch \subseteq Gaids
        /\ \A g \in batch : rows[g] = 1
    BY <1>1, <1>2 DEF IInv, TypeOK, TransactionFits
  <1>4. Status = "open" /\ Status' = "open"  BY <1>1 DEF Status
  <1>5. Gaids' = Gaids  BY <1>1 DEF Gaids
  <1>6. Durable' = [g \in Gaids |-> IF g \in batch THEN Durable[g] + 1 ELSE Durable[g]]
    <2>1. \A g \in Gaids : Durable[g] = IF g \in batch THEN 0 ELSE rows[g]
      BY <1>1, DurableFacts DEF DurableRows
    <2>2. \A g \in Gaids' : Durable'[g] = rows'[g]
      BY <1>1, DurableNext DEF DurableRows
    <2>3. \A g \in Gaids :
            Durable'[g] = IF g \in batch THEN Durable[g] + 1 ELSE Durable[g]
      BY <1>1, <1>3, <1>5, <2>1, <2>2
    <2>4. Durable' = [g \in Gaids' |-> Durable'[g]]  BY DEF Durable
    <2> QED  BY <1>5, <2>3, <2>4
  <1>7. Parents' \subseteq Parents \cup batch
    <2>1. CASE pop' = pop  BY <2>1 DEF Parents
    <2>2. CASE pop' = UpdatedWith(pop, EligibleOf(batch))
      <3>1. IdsDiffer(EligibleOf(batch)) /\ \A a \in EligibleOf(batch) : a.id \in batch
        BY <1>2, EligibleDiffer
      <3>2. From(pop', pop, EligibleOf(batch))
        BY <2>2, <3>1, UpdateImproves DEF IInv, TypeOK
      <3> QED  BY <3>1, <3>2 DEF From, Carries, Parents
    <2> QED  BY <1>1, <2>1, <2>2
  <1>8. Ledger!StoreBatch
    BY <1>1, <1>2, <1>4, <1>6, <1>7 DEF Ledger!StoreBatch, Ledger!Candidates, Gaids
  <1> QED  BY <1>8 DEF Ledger!RunNext

\* Every step of the run is a step of the ledger, or one it does not see.
LEMMA StepImplements ==
  ASSUME IInv, IInv', BatchFits, [Next]_vars
  PROVE  Ledger!RunNext \/ UNCHANGED Ledger!runVars
PROOF
  <1>1. CASE InsertInitial
    <2>1. PICK n \in 0..InitialSize :
            /\ Insert(n) /\ phase' = IF n = 0 THEN "closed" ELSE "initial"
      BY <1>1 DEF InsertInitial
    <2>2. phase = "insert" /\ n \in Nat /\ UNCHANGED <<batch, staged, pop>>
      BY <1>1, <2>1, Sizes DEF InsertInitial, writeVars
    <2>3. batch = {}  BY <2>2 DEF BatchFits, Writing
    <2> QED  BY <2>1, <2>2, <2>3, InsertionImplements DEF Status
  <1>2. CASE Breed
    <2>1. PICK n \in 0..JobsTarget : Insert(n) /\ phase' \in {"wave", "waveEnd"}
      BY <1>2 DEF Breed
    <2>2. phase = "wave" /\ UNCHANGED <<batch, staged, pop>>
      BY <1>2 DEF Breed, WaveOpen, writeVars
    <2>3. n \in Nat
      <3>1. wave \subseteq Gaids  BY <2>2 DEF IInv, TypeOK, Waiting
      <3>2. JobsTarget \in Int  BY <3>1, JobsFacts DEF IInv
      <3> QED  BY <2>1, <3>2
    <2> QED  BY <2>1, <2>2, <2>3, InsertionImplements DEF Status
  <1>3. CASE InitialBatch \/ TakeResult \/ RelaxGeneration \/ Drain
    BY <1>3, ReadingImplements
  <1>4. CASE CreatePopulation  BY <1>4, PopulatingImplements
  <1>5. CASE WriteRow \/ WriteLocked \/ Raise  BY <1>5, WritingImplements
  <1>6. CASE CommitBatch  BY <1>6, CommitImplements
  <1>7. CASE Extract
    <2>1. /\ phase = "extract" /\ phase' = "closed"
          /\ UNCHANGED <<inserted, rows, batch, staged, pop>>
      BY <1>7 DEF Extract, writeVars, dbVars
    <2>2. Status = "open" /\ Status' = "returned" /\ batch = {}
      BY <2>1 DEF Status, BatchFits, Writing
    <2>3. Durable' = Durable /\ Parents' = Parents
      BY <2>1, SameDurable DEF Gaids, Parents
    <2>4. \A g \in Gaids : Durable[g] = 1
      <3>1. staged = {} /\ \A g \in Gaids : rows[g] = 1
        BY <2>1 DEF IInv, PhasesFit, EndFits, Writing
      <3> QED  BY <3>1, DurableFacts DEF DurableRows
    <2>5. Ledger!Return
      BY <2>1, <2>2, <2>3, <2>4 DEF Ledger!Return, Ledger!Candidates, Gaids
    <2> QED  BY <2>5 DEF Ledger!RunNext
  <1>8. CASE \/ StartGeneration \/ StartWave \/ NoParents \/ EndWave \/ EndProduction
             \/ Judge \/ UNCHANGED vars
    <2>1. /\ UNCHANGED <<inserted, rows, batch, staged, pop>>
          /\ \/ phase' = phase
             \/ phase \notin {"closed", "failed"} /\ phase' \notin {"closed", "failed"}
      BY <1>8 DEF StartGeneration, StartWave, NoParents, EndWave, EndProduction, Judge,
         Consider, AfterLoop, WaveOpen, writeVars, dbVars, vars
    <2>2. Durable' = Durable  BY <2>1, SameDurable DEF Gaids
    <2>3. Parents' = Parents /\ Status' = Status  BY <2>1 DEF Parents, Status
    <2> QED  BY <2>1, <2>2, <2>3 DEF Ledger!runVars
  <1> QED
    BY <1>1, <1>2, <1>3, <1>4, <1>5, <1>6, <1>7, <1>8 DEF Next, Steps, Stopped

\* Batches are stored whole and once, whatever is retried, rolled back or given
\* up on the way: the run implements its ledger.
THEOREM RunRefinement == Spec => ImplementsLedger
PROOF
  <1>1. Init => Ledger!RunInit
    <2> SUFFICES ASSUME Init  PROVE Ledger!RunInit
      OBVIOUS
    <2>1. /\ inserted = 0 /\ staged = {} /\ rows = <<>> /\ batch = {} /\ pop = <<>>
          /\ phase = "insert"
      BY DEF Init
    <2>2. Gaids = {} /\ Ledger!Candidates = {}  BY <2>1 DEF Gaids, Ledger!Candidates
    <2>3. Durable = [g \in Ledger!Candidates |-> 0]  BY <2>2 DEF Durable
    <2>4. Parents = {} /\ Status = "open"  BY <2>1 DEF Parents, Status
    <2> QED  BY <2>1, <2>3, <2>4 DEF Ledger!RunInit
  <1>2. Init => BatchFits  BY DEF Init, BatchFits, Writing
  <1>3. IInv /\ BatchFits /\ [Next]_vars => BatchFits'  BY BatchFitsKept
  <1>4. IInv /\ IInv' /\ BatchFits /\ [Next]_vars => [Ledger!RunNext]_Ledger!runVars
    BY StepImplements
  <1> QED
    BY <1>1, <1>2, <1>3, <1>4, GaRunInvariance, PTL
       DEF Spec, ImplementsLedger, Ledger!RunSpec
=============================================================================
