------------------------------- MODULE GaRun -------------------------------
(***************************************************************************)
(* One run of ga_go (scgo/algorithms/geneticalgorithm_go_torchsim.py): the *)
(* initial population, the generations of offspring waves, the relaxation  *)
(* and transactional commit of batches, the population, early stopping,    *)
(* and the final drain and read-back.                                      *)
(*                                                                         *)
(* A candidate is its gaid, 1, 2, ... in the order of insertion, which is  *)
(* also the order in which waves and batches, sets here, are written.  All *)
(* of this happens on the caller thread.  In pipeline mode one batch is on *)
(* the GPU (`flying`) while the next wave is built; GpuPipeline models the *)
(* thread and the queues behind that slot.                                 *)
(***************************************************************************)
EXTENDS PopulationOps

CONSTANTS
  InitialSize,   \* structures proposed for the initial population
  NOffspring,    \* n_offspring = ceil(population_size * offspring_fraction)
  BatchSize,     \* batch_size, or Unlimited
  Unlimited,     \* batch_size = None
  Devices,       \* what the relaxer may run on: "cpu", "cuda"
  Niter,         \* generations
  MaxAttempts,   \* max_attempts of a generation
  MaxMisses,     \* max_parent_selection_misses
  MaxRetries,    \* PRESET_HPC.max_retries
  EarlyStopping, \* early_stopping_niter, 0 to disable
  Relaxed,       \* what a relaxation can give: records [score, shape, ok]
  None           \* no wave, no best value, no result

ASSUME GaRunAssumption ==
  /\ {InitialSize, Niter, EarlyStopping} \subseteq Nat
  /\ {NOffspring, MaxAttempts, MaxMisses, MaxRetries} \subseteq Nat \ {0}
  /\ BatchSize \in (Nat \ {0}) \cup {Unlimited} /\ Unlimited \notin Nat
  /\ Devices \subseteq {"cpu", "cuda"}
  /\ Relaxed \subseteq [score : Int, shape : Int, ok : BOOLEAN]

VARIABLES
  device,     \* the device of this run's relaxer
  phase,      \* where the caller is
  generation, \* generations started
  counters,   \* _OffspringWaveState: created, attempts, misses, exhausted
  wave,       \* inserted_total of the wave being built, None: no wave follows
  mark,       \* attempts when the pipeline asked for this wave
  flying,     \* the batch on the GPU, {} when it is idle
  batch,      \* the batch being committed
  staged,     \* its relaxed rows written in the open transaction
  tries,      \* attempts of the write that failed
  tally,      \* successful_count and ineligible_count of this attempt
  inserted,   \* unrelaxed candidates in the database: gaids 1..inserted
  rows,       \* relaxed=1 rows in the database, per gaid
  found,      \* what each relaxed gaid became
  pop,        \* the population
  eligible,   \* sum of the eligible counts that the commits reported
  best, stale,\* early stopping
  returned    \* what ga_go returned: a set of gaids, or None

waveVars == <<counters, wave, mark>>
writeVars == <<batch, staged, tries, tally>>
dbVars == <<inserted, rows, found>>
stopVars == <<best, stale>>
vars == <<device, phase, generation, counters, wave, mark, flying, batch, staged,
          tries, tally, inserted, rows, found, pop, eligible, best, stale,
          returned>>

\* relaxer_supports_cpu_gpu_pipeline, and a batch size to make waves of.
Pipelined == device = "cuda" /\ BatchSize # Unlimited

Capped(n) == IF BatchSize = Unlimited \/ n < BatchSize THEN n ELSE BatchSize

\* resolve_pipeline_chunk, or all the offspring of the generation.
WaveTarget == IF Pipelined THEN Capped(NOffspring) ELSE NOffspring

FreshCounters ==
  [created |-> 0, attempts |-> 0, misses |-> 0, exhausted |-> FALSE]
NoTally == [ok |-> 0, bad |-> 0]

ProductionDone ==
  \/ counters.created >= NOffspring
  \/ counters.attempts >= MaxAttempts
  \/ counters.exhausted

Init ==
  /\ device \in Devices
  /\ phase = "insert" /\ generation = 0
  /\ counters = FreshCounters /\ wave = {} /\ mark = 0
  /\ flying = {}
  /\ batch = {} /\ staged = {} /\ tries = 0 /\ tally = NoTally
  /\ inserted = 0 /\ rows = <<>> /\ found = <<>>
  /\ pop = <<>> /\ eligible = 0
  /\ best = None /\ stale = 0 /\ returned = None

-----------------------------------------------------------------------------
(* The database. *)

\* `with da.c:` inserts n unrelaxed candidates; they get the next gaids.
Insert(n) ==
  /\ inserted' = inserted + n
  /\ rows' = [g \in 1..inserted' |-> IF g <= inserted THEN rows[g] ELSE 0]
  /\ found' = [g \in 1..inserted' |-> IF g <= inserted THEN found[g] ELSE None]

Gaids == 1..inserted

\* The gaids with no relaxed row: a relaxed candidate keeps its relaxed=0 row,
\* so any relaxed row of the gaid excludes it.
Pending == {g \in Gaids : rows[g] = 0}

\* _read_candidate_batch(to_take): the lowest gaids.
Unrelaxed(cap) ==
  {g \in Pending : cap = Unlimited \/ Cardinality({h \in Pending : h < g}) < cap}

AsCandidate(g) ==
  [id |-> g, score |-> found[g].score, shape |-> found[g].shape]

EligibleRows == {g \in Gaids : rows[g] > 0 /\ found[g].ok}

\* eligible_relaxed: the structures of a batch that passed validation.
MutantEveryCandidate(gaids) == {AsCandidate(g) : g \in gaids}
EligibleOf(gaids) == {AsCandidate(g) : g \in {k \in gaids : found[k].ok}}

\* relax_batch gave a result for every structure of a batch; it is written
\* next.  (An exception, or another number of results, is a Raise.)
Relax(gaids, writing) ==
  /\ \E r \in [gaids -> Relaxed] :
       found' = [g \in Gaids |-> IF g \in gaids THEN r[g] ELSE found[g]]
  /\ batch' = gaids
  /\ staged' = {} /\ tries' = 0 /\ tally' = NoTally
  /\ phase' = writing
  /\ UNCHANGED <<inserted, rows>>

Writing == phase \in {"writeInitial", "writeWave", "writeDrain"}

\* Rows of the open transaction are visible in `rows`; a rollback removes them.
MutantKeepsRows == rows
RolledBack == [g \in Gaids |-> IF g \in staged THEN rows[g] - 1 ELSE rows[g]]

\* The counters restart with every attempt of the writer.
MutantTallyGoesOn == tally
FreshTally == NoTally

\* _write_relaxed_candidate of the next structure of the batch.
WriteRow ==
  /\ Writing
  /\ \E g \in batch \ staged :
         /\ \A h \in batch \ staged : g <= h
         /\ rows' = [rows EXCEPT ![g] = @ + 1]
         /\ staged' = staged \cup {g}
         /\ tally' = IF found[g].ok THEN [tally EXCEPT !.ok = @ + 1]
                                    ELSE [tally EXCEPT !.bad = @ + 1]
  /\ UNCHANGED <<phase, generation, waveVars, flying, batch, tries, inserted,
                 found, pop, eligible, stopVars, returned>>

\* A retryable lock error inside the transaction: rollback, and database_retry
\* calls the writer again, or gives up and raises.
WriteLocked ==
  /\ Writing /\ batch \ staged # {}
  /\ rows' = RolledBack /\ staged' = {} /\ tally' = FreshTally
  /\ tries' = tries + 1
  /\ phase' = IF tries + 1 < MaxRetries THEN phase ELSE "failed"
  /\ UNCHANGED <<generation, waveVars, flying, batch, inserted, found, pop,
                 eligible, stopVars, returned>>

\* What the pipeline loop does with the wave it was given.
Consider(w) ==
  /\ wave' = {}
  /\ flying' = IF w = None THEN {} ELSE w
  /\ phase' = IF w = None THEN "judge" ELSE "produce"

\* The transaction of the batch commits; outside the initial phase the eligible
\* structures then enter the population.  A lock at COMMIT is not retried (the
\* ASE connection is still set when the writer is called again): see Raise.
CommitBatch ==
  /\ Writing /\ staged = batch
  /\ batch' = {} /\ staged' = {} /\ tries' = 0 /\ tally' = NoTally
  /\ eligible' = IF phase = "writeDrain" THEN eligible ELSE eligible + tally.ok
  /\ pop' = IF phase = "writeInitial" THEN pop
            ELSE UpdatedWith(pop, EligibleOf(batch))
  /\ \/ phase = "writeInitial" /\ phase' = "initial" /\ UNCHANGED <<wave, flying>>
     \/ phase = "writeDrain" /\ phase' = "extract" /\ UNCHANGED <<wave, flying>>
     \/ /\ phase = "writeWave" /\ ~Pipelined
        /\ phase' = "judge" /\ UNCHANGED <<wave, flying>>
     \/ phase = "writeWave" /\ Pipelined /\ Consider(wave)
  /\ UNCHANGED <<generation, counters, mark, dbVars, stopVars, returned>>

-----------------------------------------------------------------------------
(* The initial population. *)

\* Invalid structures are discarded before the insert; with none left ga_go
\* returns [].
InsertInitial ==
  /\ phase = "insert"
  /\ \E n \in 0..InitialSize :
       /\ Insert(n)
       /\ phase' = IF n = 0 THEN "closed" ELSE "initial"
       /\ returned' = IF n = 0 THEN {} ELSE returned
  /\ UNCHANGED <<generation, waveVars, flying, writeVars, pop, eligible, stopVars>>

InitialBatch ==
  /\ phase = "initial" /\ Pending # {}
  /\ Relax(Unrelaxed(BatchSize), "writeInitial")
  /\ UNCHANGED <<generation, waveVars, flying, pop, eligible, stopVars, returned>>

CreatePopulation ==
  /\ phase = "initial" /\ Pending = {}
  /\ pop' = Initialized({AsCandidate(g) : g \in EligibleRows})
  /\ phase' = "generation"
  /\ UNCHANGED <<generation, waveVars, flying, writeVars, dbVars, eligible,
                 stopVars, returned>>

-----------------------------------------------------------------------------
(* A generation: waves of offspring. *)

\* After the last generation, or once early stopping breaks the loop.
MutantSkipsDrain == "extract"
AfterLoop == "drain"

StartGeneration ==
  /\ phase = "generation"
  /\ IF generation < Niter
       THEN /\ generation' = generation + 1
            /\ phase' = IF Pipelined THEN "produce" ELSE "wave"
       ELSE generation' = generation /\ phase' = AfterLoop
  /\ counters' = FreshCounters /\ wave' = {} /\ mark' = 0
  /\ UNCHANGED <<flying, writeVars, dbVars, pop, eligible, stopVars, returned>>

\* _PipelineGenerationHooks.produce calls _run_offspring_wave.
StartWave ==
  /\ phase = "produce" /\ ~ProductionDone
  /\ phase' = "wave" /\ wave' = {} /\ mark' = counters.attempts
  /\ UNCHANGED <<generation, counters, flying, writeVars, dbVars, pop, eligible,
                 stopVars, returned>>

\* _run_offspring_wave asks for what the wave, the attempts and the generation
\* leave open.
MutantJobsTarget == WaveTarget - Cardinality(wave)
JobsTarget ==
  Min({WaveTarget - Cardinality(wave), MaxAttempts - counters.attempts,
       NOffspring - counters.created})

WaveOpen == phase = "wave" /\ Cardinality(wave) < WaveTarget /\ ~ProductionDone

\* get_two_candidates() gives no pair: every job of the batch is a miss, the
\* loop goes on until the misses are too many.
MutantExhausted(misses) == FALSE
Exhausted(misses) == misses >= MaxMisses
NoParents ==
  /\ WaveOpen /\ Len(pop) < 2
  /\ LET misses == Min({counters.misses + JobsTarget, MaxMisses})
     IN  counters' = [counters EXCEPT !.misses = misses,
                                      !.exhausted = Exhausted(misses)]
  /\ UNCHANGED <<phase, generation, wave, mark, flying, writeVars, dbVars, pop,
                 eligible, stopVars, returned>>

\* A batch of jobs: n children pass, are inserted, and join the wave.  With no
\* child the loop goes on, unless no worker gave a result at all.
Breed ==
  /\ WaveOpen /\ Len(pop) >= 2
  /\ \E n \in 0..JobsTarget :
       /\ Insert(n)
       /\ wave' = wave \cup (inserted + 1)..inserted'
       /\ counters' = [created |-> counters.created + n,
                       attempts |-> counters.attempts + JobsTarget,
                       misses |-> 0, exhausted |-> FALSE]
       /\ \/ phase' = "wave"
          \/ n = 0 /\ phase' = "waveEnd"
  /\ UNCHANGED <<generation, mark, flying, writeVars, pop, eligible, stopVars,
                 returned>>

\* What produce() returns after the wave.
Delivered ==
  IF wave # {} THEN wave
  ELSE IF ProductionDone \/ counters.attempts = mark THEN None ELSE {}

\* The wave is over.  In pipeline mode it is submitted at once, or waits for
\* the result of the wave before it; otherwise the batch is read back.
EndWave ==
  /\ \/ phase = "waveEnd"
     \/ phase = "wave" /\ ~WaveOpen
  /\ IF ~Pipelined THEN phase' = "relax" /\ wave' = {} /\ UNCHANGED flying
     ELSE IF flying = {} THEN Consider(Delivered)
     ELSE phase' = "await" /\ wave' = Delivered /\ UNCHANGED flying
  /\ UNCHANGED <<generation, counters, mark, writeVars, dbVars, pop, eligible,
                 stopVars, returned>>

EndProduction ==
  /\ phase = "produce" /\ ProductionDone
  /\ IF flying = {} THEN Consider(None)
     ELSE phase' = "await" /\ wave' = None /\ UNCHANGED flying
  /\ UNCHANGED <<generation, counters, mark, writeVars, dbVars, pop, eligible,
                 stopVars, returned>>

\* The result of the wave on the GPU.
TakeResult ==
  /\ phase = "await"
  /\ Relax(flying, "writeWave")
  /\ flying' = {}
  /\ UNCHANGED <<generation, waveVars, pop, eligible, stopVars, returned>>

\* _relax_unrelaxed_candidates of the sequential path: at most batch_size, or
\* the larger of the offspring and the population.
RelaxGeneration ==
  /\ phase = "relax"
  /\ LET cap == IF BatchSize = Unlimited THEN Max({NOffspring, PopulationSize})
                                         ELSE BatchSize
     IN  IF Unrelaxed(cap) = {}
           THEN phase' = "judge" /\ UNCHANGED <<writeVars, dbVars>>
           ELSE Relax(Unrelaxed(cap), "writeWave")
  /\ UNCHANGED <<generation, waveVars, flying, pop, eligible, stopVars, returned>>

\* update_early_stopping_state_unified on the best member.
Judge ==
  /\ phase = "judge"
  /\ IF EarlyStopping = 0 \/ pop = <<>>
       THEN phase' = "generation" /\ UNCHANGED stopVars
     ELSE IF best = None \/ pop[1].score > best
       THEN phase' = "generation" /\ best' = pop[1].score /\ stale' = 0
     ELSE /\ stale' = stale + 1 /\ best' = best
          /\ phase' = IF stale' >= EarlyStopping THEN AfterLoop ELSE "generation"
  /\ UNCHANGED <<generation, waveVars, flying, writeVars, dbVars, pop, eligible,
                 returned>>

-----------------------------------------------------------------------------
(* The end of the run. *)

\* _relax_unrelaxed_candidates(force=True) takes the whole backlog.
Drain ==
  /\ phase = "drain"
  /\ IF Pending = {}
       THEN phase' = "extract" /\ UNCHANGED <<writeVars, dbVars>>
       ELSE Relax(Unrelaxed(Unlimited), "writeDrain")
  /\ UNCHANGED <<generation, waveVars, flying, pop, eligible, stopVars, returned>>

\* get_all_relaxed_candidates of this run, the eligible ones.
Extract ==
  /\ phase = "extract"
  /\ returned' = EligibleRows
  /\ phase' = "closed"
  /\ UNCHANGED <<generation, waveVars, flying, writeVars, dbVars, pop, eligible,
                 stopVars>>

\* Whatever raises out of ga_go: the relaxer, a lock at COMMIT, a wave whose
\* workers all failed.  An open transaction is rolled back.
Raise ==
  /\ phase \notin {"closed", "failed"}
  /\ phase' = "failed"
  /\ rows' = IF Writing THEN RolledBack ELSE rows
  /\ staged' = {}
  /\ UNCHANGED <<generation, waveVars, flying, batch, tries, tally, inserted,
                 found, pop, eligible, stopVars, returned>>

Stopped ==
  phase \in {"closed", "failed"} /\ UNCHANGED vars

Steps ==
  \/ InsertInitial \/ InitialBatch \/ CreatePopulation
  \/ StartGeneration \/ StartWave \/ NoParents \/ Breed \/ EndWave
  \/ EndProduction \/ TakeResult \/ RelaxGeneration \/ Judge
  \/ WriteRow \/ WriteLocked \/ CommitBatch
  \/ Drain \/ Extract

Next == (Steps \/ Raise \/ Stopped) /\ UNCHANGED device

Spec == Init /\ [][Next]_vars

\* The caller is one thread that runs; nothing it calls blocks for ever
\* (GpuPipeline: the result of a submitted wave always comes).
FairSpec == Spec /\ WF_vars(Steps /\ UNCHANGED device)

-----------------------------------------------------------------------------
\* Whatever is retried, and whichever path read the candidate, it has at most
\* one relaxed row: what was rolled back is gone when the writer runs again.
RelaxedOnce == \A g \in Gaids : rows[g] <= 1

\* The eligible counts that the commits reported add up to the eligible rows
\* in the database, although attempts of the writer were abandoned half-way.
CountsAreDurable ==
  phase \in {"initial", "generation", "produce", "wave", "waveEnd", "await",
             "relax", "judge", "drain"} =>
    eligible = Cardinality(EligibleRows)

\* A member of the population, hence a parent, is a committed and eligible row:
\* never one of a transaction that may still be rolled back.
PopulationIsDurable ==
  \A i \in DOMAIN pop :
    /\ pop[i].id \in EligibleRows \ staged
    /\ pop[i].score = found[pop[i].id].score

\* The member that early stopping compares is the best eligible structure in
\* the database.
BestIsDurable ==
  phase = "judge" => \A g \in EligibleRows : pop[1].score >= found[g].score

\* No generation makes more offspring than it is asked for, however its waves
\* are cut and refilled; and a run that returns has relaxed every candidate it
\* inserted, the backlog of earlier generations included, and returns every
\* eligible one.
NothingIsLost ==
  /\ inserted <= InitialSize + generation * NOffspring
  /\ phase = "closed" =>
       /\ \A g \in Gaids : rows[g] = 1
       /\ returned = {g \in Gaids : found[g].ok}

\* A generation without parents, with failing workers or rejected children
\* ends, and so does the run.
Terminates == <>(phase \in {"closed", "failed"})

\* What no rollback takes back.
Durable == [g \in Gaids |-> IF g \in staged THEN rows[g] - 1 ELSE rows[g]]
Parents == {pop[i].id : i \in DOMAIN pop}
Status == IF phase = "closed" THEN "returned"
          ELSE IF phase = "failed" THEN "failed" ELSE "open"

Ledger == INSTANCE RunLedger
            WITH stored <- Durable, parents <- Parents, status <- Status

\* A batch is written row by row, by a writer that is rolled back and called
\* again, or gives up; still, to whoever reads what is durable, each batch is
\* stored in one step, whole and once, parents come from stored batches only,
\* and a run returns when every candidate is stored.
ImplementsLedger == Ledger!RunSpec
=============================================================================
