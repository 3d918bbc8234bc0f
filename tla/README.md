# A formal model of SCGO

SCGO searches for the global minima of clusters (free, on surfaces, with
adsorbates) and for the transition states between them. This directory holds
TLA+ modules that model its control: what runs concurrently, what is
transactional, what is retried, what is cached. TLC checks the modules on small
instances and TLAPS proves theorems about them for every instance. Paths below
are under `src/scgo/`.

## Inventory of the system

| Component | State | Operations | Interacts with | Hard behaviours | What makes it correct |
|---|---|---|---|---|---|
| CPU/GPU pipeline (`algorithms/ga_cpu_gpu_pipeline.py`) | two queues, worker thread, `current`, `nxt` | start, submit, wait_result, shutdown, the double-buffered loop | GA driver (callbacks), batch relaxer | two threads; a job failing while the next wave is built; a thread that dies | results are committed for their own wave, in order; one batch on the GPU; nothing left behind; it ends |
| GA driver (`algorithms/geneticalgorithm_go_torchsim.py`) | wave counters, early stopping, the run's database | initial population, offspring waves, batch relax and commit, drain, extraction | population, database, worker processes, pipeline | retried transactions, partial batches, backlog over generations, no parents | a candidate is relaxed once and returned; counts match the database; the run ends |
| Offspring worker processes (same file, `_OFFSPRING_WORKER_STATE`) | per process: operators, epoch, static context | bootstrap, refresh, build, clear | GA driver | pool reused over generations, in-process fallback | no job uses operators of an earlier generation |
| Population (`ase_ga_patches/population.py`) | members sorted by score, rediscovery counts | initialise, update, draw parents | GA driver, comparator | look-alikes, a comparator that is not transitive, equal scores | best structure kept; distinct members; counts real |
| Unified cache (`database/cache.py`) | LRU map, markers of computations in flight | get, set, get_or_compute, clear_namespace | manager, candidate discovery, geometry | threads racing on a key, failing and nested computations, eviction | single flight; no lost wake-up; everyone is answered |
| Retries and transactions (`database/sync.py`, `transactions.py`, `connection.py`) | open transaction, attempt | database_retry, retry_transaction, database_transaction | every writer | lock errors half-way, joining an open transaction | a retried write happens once |
| Discovery, registry, stamp (`database/registry.py`, `discovery.py`, `metadata/db_stamp.py`) | index of files, LRU of registries, memo of stamps | register, find, clear | loaders, several processes | stale index, remembered negative answers | a finished database is found |
| Manager and loaders (`database/manager.py`, `helpers.py`) | cached results with fingerprint and time | load_previous_results, load_reference_structures | cache, discovery | check and use of a cache entry, fingerprint older than the data | what is returned is no older than the files |
| Campaign, final minima (`minima_search/core.py`, `metadata/persist.py`) | XYZ files, tags in databases | run_trials, mark_final_minima_in_db | all runs of one directory | crash between files and tags, concurrent campaigns | files and tags agree |
| Elastic bands (`ts_search/parallel_neb.py`, `find_transition_state`) | bands, failed bands, step counts | chunk, optimise, retry out of memory, refresh | batch relaxer | out of memory half-way, bands failing alone | every band has one verdict |
| Transition state campaign (`ts_search/transition_state_run.py`, `transition_state.py`, `transition_state_io.py`, `ts_network.py`) | selected pairs, saved results, network | select, run, save, resume | minima, NEB | resume after interruption | no pair lost or done twice |
| Basin hopping, simple search (`algorithms/basinhopping_go.py`, `simple_go.py`) | walker, database, tags shared by copies | seed, step, accept, write, extract | database | tags handed on; a call that ends anywhere and a file that is kept | what is returned passed the gate, has its own energy, and is there once |
| Budgets, weights, runners, presets (`utils/`, `runner_*.py`) | parameters | pure computations | all | rounding | totals are respected |
| Structure initialisation (`initialization/`) | scan caches, remembered mtimes, a plan per batch | scan databases, deduplicate, plan, build | databases, unified cache | caches keyed by mtimes read too early or too seldom; rounding of the plan | what is known is offered as a seed; a plan covers its options |
| Batch relaxer (`calculators/torchsim_helpers.py`) | the limits the native batchers keep | relax_batch, recover, halve, reprobe | GA driver, parallel NEB | a device that is full, again and again; a limit from an earlier workload | each structure answered once, in its place; a refusal is a fresh one |
| Surfaces, adsorbates, system types, crossover and mutations, other calculators | geometry | floating point | all | - | out of reach of TLC |

## What is modelled

| Module | Models | Built on |
|---|---|---|
| `WaveLedger` | what a pipelined run promises: waves are produced and committed in order, at most two ahead; it finishes only with nothing outstanding | - |
| `GpuPipeline` (`GpuProofs`) | `run_double_buffered_with_worker` and `GpuRelaxWorker`, reused over generations, shut down by `ga_go` | refines `WaveLedger` |
| `PopulationOps` (`PopulationProofs`) | the operations of the GA population, as operators over sequences | - |
| `OffspringWorkers` (`EvolutionProofs`) | the build state cached in the pool processes and in `ga_go`'s own | - |
| `Evolution` (`EvolutionProofs`) | population, operator credit and offspring over generations | `OffspringWorkers`, `PopulationOps` |
| `RunLedger` | what a run promises about its candidates: each is stored once, a batch as a whole; parents are stored; it returns when all are | - |
| `GaRun` (`MCGaRun`, `GaRunProofs`) | one run of `ga_go` on its database, sequential or pipelined | `PopulationOps`, refines `RunLedger` |
| `BatchRelaxer` (`GpuProofs`) | `relax_batch` on a device whose memory runs out | - |
| `UnifiedCache` (`MCUnifiedCache`, `SeedsProofs`) | the process-wide cache, interleaved at each lock boundary | - |
| `Campaign` (`MCCampaign`, `CampaignProofs`) | `run_trials` in several processes on one searches directory | - |
| `BandChunks`, `ParallelNeb` (`TsSearchProofs`) | chunks of elastic bands, optimised together | - |
| `SerialNeb` (`MCParallelNeb`, `TsSearchProofs`) | the same search with one band after the other | `ParallelNeb` |
| `TsSearch` (`MCTsSearch`, `TsSearchProofs`) | transition state searches of one composition, one after the other | - |
| `StrategyAllocation` | how a batch of initial structures is divided among strategies | - |
| `Seeds` (`MCSeeds`, `SeedsProofs`) | the scan for seeds in earlier databases, its caches, and the plan | `StrategyAllocation` |
| `BasinHopping` (`MCBasinHopping`, `BhProofs`) | basin hopping and simple optimisation, call after call on one database file | - |

### GpuPipeline

The caller's program counter `pc` follows the loop: `produce` (a wave bound to
`current`), `submit`, `overlap` (a wave bound to `nxt` while the job runs),
`wait`, `commit`, and back. `produce_wave` is three actions by what it returns
(a wave, `[]`, `None`). The worker is `idle`, `busy`, `exited` or `died`; it is
put in one step per queue operation. `Raise` stands for any exception of a
callback or an interrupt of the main thread, at every point. `Shutdown` puts
the sentinel behind a submitted job, `Join` waits for the thread. `WorkerFaults`
says what `relax_batch` may do besides returning: `error` (an `Exception`, or a
wrong number of structures), which is answered, and `fatal` (another
`BaseException`), which is not: the thread ends and `wait_result` blocks for
ever. `Terminates` therefore excuses a run whose worker died, and such a run has
a stuttering step of its own.

### PopulationOps, OffspringWorkers and Evolution

A candidate is its id, its score and a coordinate for its geometry; two look
alike when the coordinates differ by at most `Tolerance`. With 0 that is an
equivalence, with 1 it is not transitive, like the comparators of the code.
`Stages` is the population after each of the candidates of a batch, which
`Sorted` lists best first; `Entered` lets one in, into a first population or a
later one.
A build context is its epoch. The parent's state is refreshed at the start and
cleared at the end of a generation; a pool process is bootstrapped once, when
the pool starts it, with the context of the generation that made the pool.
`Evolution` composes the two: jobs of any process give children with the
operator that changed them, and between jobs batches are committed, change the
population and credit operators. A commit that is tried again after a lock error
collects the operators' names anew (`FreshNames`).

### GaRun

`phase` is where the caller is. The database is `inserted` (gaids 1..n, each
with its unrelaxed row), `rows` (relaxed rows per gaid) and `found` (what the
relaxation gave). Wave, batch, batch on the GPU and staged rows are sets of
gaids: the order within a batch is decided by `Sorted`. A batch is written row
by row (`WriteRow`); a lock error (`WriteLocked`) rolls back and retries or
gives up; `CommitBatch` commits and then updates the population, as
`_commit_relaxed_batch` does. On `cuda` a generation is pipelined: `flying` is
the batch on the GPU, of which `GpuPipeline` is the detail. Left out: the
fitness-based variant of early stopping, operator credit (in `Evolution`),
timings, the content of structures.

The run implements `RunLedger`: its stored rows are `Durable`, the rows less
those an open transaction has staged, its parents are the gaids of the
population, and it has returned when `phase` is `closed`. Writing a row and
rolling back are then stutters, and a commit stores the batch.

### BatchRelaxer

A structure is its memory metric. The recursion of `_relax_batch_recovering`
visits parts of the batch from left to right and any exception leaves all of it,
so `work`, the parts still to be visited, is its stack. The scalers of the two
native batchers live as long as the relaxer. `Fail` is the device running out of
memory, a `RuntimeError`, or another exception; which of them count as memory is
decided as `is_cuda_oom_error` does, along `__context__`.

### UnifiedCache

A call in progress is a frame, of depth 1 or 2: the extent of a cluster needs
its hull, a nested `get_or_compute` of another key. `lookup`, `wait`, `claim`,
`compute`, `store`, `signal`, `unmark` are the stretches between two lock
boundaries. Keys that computations need are acyclic and one deep, as in
`geometry_helpers.py` (`CacheAssumption`).

### Campaign

On disk are the runs' databases (absent, a file, or stamped), the final tags of
their rows, and the folder of XYZ files. A process loads what earlier runs
tagged, searches, joins, deduplicates, validates, writes, prunes and tags, one
file, database or row at a time. It dies at any point (`Crash`), meets busy
databases and swallows the errors the code swallows. `memo` is what
`is_scgo_db` remembers in a process; `blind`, `missed`, `untagged` and
`disturbed` record the excuses the properties allow. `Optimizer` tells whether
rows carry an id of their own or, as in basin hopping, that of the seed.

### BandChunks, ParallelNeb and SerialNeb

A band is an index with its number of atoms. Bands are always taken in the order
of their indices, so a chunk is a set of them. `Step` is one fused evaluation and
what follows for each band: converged, moved, not finite, or an error of its
own. `OutOfMemory` retries the chunk once in halves, with bands that have moved;
`StartClimb` is the second stage; `Verdict` is `_finalize_neb_result`. `force`
records where the last force of a band was taken: `stale` once it has moved.
`SerialNeb` adds the actions of `_run_serial_neb_search`: a pair is a chunk of
its own, its optimizer runs once or in two stages, nothing is retried, the error
of one pair does not stop the next, and `SerialVerdict` keeps what finalising had
set when it raised. `Escapes` is an exception of a kind that is not caught.

### TsSearch

Each search loads the final minima, makes pairs of positions in their sorted
list, takes over saved results, runs the rest as serial or parallel bands,
applies the geometry gate, and writes results, summary, network, unique
transition states and their database rows, each a step a crash may come before.
A search works with one of the `Sortings` by energy of what it loaded. That may
lack rows: a database that cannot be read is skipped with a warning
(`ts_search/transition_state_io.py:182`) and look-alikes are dropped
(`transition_state_run.py:1034`), so a list is made of any subset of what is
tagged; the history variable `missed` holds the minima left out. Pairs are known
by their positions in that list, on disk too. `SettledRowsTrace` says when that is
enough: if no minimum below the second endpoint of a band (`Settled`) was found
since or was ever left out, the row names the minima that the band ran between,
whichever search ran, resumed or reported it. `ts_trace` drops that premise.

### StrategyAllocation and Seeds

`Allocated` is `_allocate_initialization_strategies` with what logarithmic
scaling asks for as an argument; scaling by a ratio is integer division.
`Seeds` has two caches (per database, per target), the mtime that is remembered
for good, and searches that write and tag while a scan reads.

### BasinHopping

A call prepares the file (`Setup`: emptied, or kept because `clean` is false or
the file could not be removed), fetches a structure that is not relaxed, walks
from it and extracts the minima of the whole file. ASE copies share their tags,
so those of the walk are one `bag`, which every row is written with. A seed that
fails the structural gate is walked from, but marked. `End` is a call that
returned, failed or was killed, at any point. A relaxed structure is one of
`Geometries`; `failed` is history. `minima` holds row numbers: `Unique` walks
the rows by energy and compares each with what it kept in the same or a
neighbouring bin of energy. Left out: the atoms of a move, the diversity
fitness (the fitness only decides what is accepted), `deduplicate=False`, which
returns every row that passes the gate, and energies that are not finite. The
structure a call fetches is any that is not relaxed, as ASE takes one of a set.

## Runs

| Run | Question | Bounds, and why they are enough |
|---|---|---|
| `pipeline` | Is a result ever taken for another wave, is anything left behind, does the run end as the ledger says? | 3 generations of 4 productive calls, erring and dying worker: reuse of the worker, an error with a wave in hand, a third wave that meets whatever the first left |
| `ga_run` | Are batches stored whole and once (`RunLedger`), is each candidate counted, kept and returned, does the run end? | both devices; 3 offspring, batch of 2 (a backlog), 2 generations, 2 tries of a write |
| `cache` | Single flight, wake-ups, no computation wasted, everyone answered? | 2 threads, 4 calls, an extent and its hull and a key of another namespace, room for one entry: every store evicts |
| `evolution` | Are operators stale, credit undeserved, members alike, ranks ever worse? | one pool process and the parent, 3 generations of 1 job, batches of 2, 2 seats, 3 scores and 3 shapes in a chain of look-alikes |
| `batch_relaxer` | Is every structure answered once and in place, is a refusal fresh, is "out of memory" true? | 3 calls of up to 4 structures of 2 sizes: two levels of halving, limits kept from call to call |
| `campaign` | Are tags, folder and known minima right, under crashes and locks? | 2 processes, 3 runs, 4 structures, 2 faults: the third run meets what two others left |
| `parallel_neb` | In parallel or serially: is a success earned, are steps within budget, does every pair get a verdict? | 2 bands of different size in one chunk that a retry splits, 4 steps (both stages) |
| `ts_search` | Is what is accepted valid, do files agree, do rows name the minima of settled bands, is work kept? | 3 minima, the second known at first, the others found or missed at any time; 2 pairs, 2 searches, 1 crash: a list may gain, lose and regain a minimum below, between and above the endpoints |
| `seeds` | Is what is known offered, does a plan cover it? | 2 databases, 2 targets, 3 scans, 4 writes, 1 read that fails |
| `basin_hopping` | Are returned minima sound, with their own energies, each once, none lost? | both algorithms, 2 calls of 2 hops; 4 geometries: an unsound one, and a chain of look-alikes across a border of energy bins |
| `campaign_bh`, `ts_trace` | violated, see Findings | as the runs above |

Deadlock is checked except in `parallel_neb`, `ts_search`, `ts_trace`, `seeds`
and `basin_hopping`, which stop when the search, or the bound on scans and
writes or on calls, is at its end. The other specifications that end have an explicit stuttering
step in the final state, so that a deadlock elsewhere is found.

Fairness. `GpuPipeline`: weak fairness of the caller and of the worker; both are
operating-system threads, queue operations are not starved, and relaxations and
offspring building take finite time. Exceptions are never owed. `GaRun`: weak
fairness of its single thread. `UnifiedCache`: weak fairness of each frame;
threads run on inside a call, and a new call is never owed. `BatchRelaxer`: weak
fairness of a call in progress. `ParallelNeb` and `SerialNeb`: one thread that
never waits.

## Proofs

`GpuProofs` proves of `GpuPipeline`, for every number of generations and waves
and with every fault allowed: `TypeCorrect`, `ResultsAreNotStale`,
`PipelineLeavesNoBacklog`, `DoubleBuffered`, `WorkerIsJoined`, `CallerIsAnswered`
(the two threads never lock each other out: whenever the caller waits, what it
waits for is there, or the worker can move, or has died), and `Refinement` (the
pipeline implements `WaveLedger`). The first, the third and `CallerIsAnswered`
are not repeated by the run. The only assumption is `PipelineAssumption` on the
constants. None of these invariants is inductive alone: that the result belongs
to the current wave depends on what the two queues hold at every other point of
the loop. The strengthening `IInv` adds `Custody` (for each place of the caller,
where the current wave is: not yet submitted, queued, on the GPU, answered, or
taken) and `Books` (committed waves are 1, 2, ... in order, and the waves in hand
are the next ones). Each action preserves each part in a step of its own;
`Refinement` maps every action to a step of the ledger or a stutter.

Of `UnifiedCache`, `SeedsProofs` proves `SingleFlight`, `MarkersAreOwned`,
`NoLostWakeup` and `NoWastedWork` for any number of threads, keys and calls and
any size of the cache, from `CacheAssumption` alone. They hold together or not
at all. A claim keeps single flight because a marker of 0 means no owner
(`MarkersAreOwned`); removing a marker by key is harmless because nobody else
owns that key (`SingleFlight`); a thread that starts to wait is woken because the
marker it read has an owner, and an owner that is past `ev.set()` has its event
set (the second conjunct of `Wakeups`); and a computation starts only when
neither entry nor computation of the key exists, so that each one but the last
is excused by an error or a removal (`Work`). `Nesting` says that a nested call
has its computation waiting for it. `NoDeadlock` adds that nobody waits in a
circle: from any call in progress, the chain of what it waits for reaches a call
that can go on after two others at most (`WaitingEnds`). It needs `Parts`: what
waits for a nested call waits for a part of its own key, and a part needs none.

Of `BatchRelaxer`, `GpuProofs` proves `AnswersInOrder`, `RefusedByFreshLimit` and
`MemoryIsShort` for batches of any size, any sizes of structures and any device,
from `RelaxerAssumption`. The invariant says that the parts still to be visited
cover what is not answered yet: the first begins after the last answer, each
begins where the one before ends, the last ends the batch, and none is empty
(`Covers`, stated pairwise: a sum over the parts would need an induction).
Replacing the head of a cover by a cover of it leaves a cover
(`CoverReplaced`), and what a failure leaves to be visited is one
(`RetriedCovers`). For `MemoryIsShort` it also says that a retry or a half is in
the hands of a handler, which is there because the device was full.

`PopulationProofs` is about the operators themselves, for any size, comparator
and candidates. `UpdateImproves`: after any batch the population is sorted and
within its size, no rank is worse, its structures are those of before and of
the candidates, and no candidate is better than the best member.
`UpdateKeepsDistinct` has the premise `Transitive` on the geometries met; it is
false without it, as a candidate that looks like two members takes the seat of
one. `InitializedIsAPopulation` needs no such premise: a first population
never lets a member go. The work is in `Ways` (the five outcomes of
`AddCandidate`) and in `SeatedFacts` and `ReplacedFacts` (where everyone sits
afterwards). `SortedFacts` is that a `CHOOSE` by rank lists a finite set
completely and in order.

`EvolutionProofs` takes this from one batch to a whole run, for any number of
processes and generations. `RanksImprove` (the action property
`RankwiseImprovement`) and `MembersStayDistinct` rest on `PopulationInv`;
the latter has the premise that looking alike is transitive on the shapes met so
far. `OperatorsAreFresh` rests on `WorkersInv`: what a process holds
is the context it was given (`Contexts`), and it was loaded in the generation of
the context or later (`Loadings`). `ProcessesAreFresh` says it of
`OffspringWorkers` by itself. `CreditIsEarned` is inductive with its types: a
commit that is tried again counts its batch anew, and halving both numbers keeps
their order.

`GaRunProofs` proves `CountsAreDurable`, `PopulationIsDurable`, `BestIsDurable`
and `NothingIsLost` of a run, on either device, for any sizes, batches,
generations and write attempts, from `GaRunAssumption` and
`PopulationAssumption`, and `RelaxedOnce`, which no run repeats because the
refinement implies it. None is inductive. A relaxed row is not written twice
because a candidate waits in one place only and has no row while it waits
(`WaitingIsUnrelaxed`); a rollback is harmless because what an open transaction
has staged is told apart from what is `Committed` (`TransactionFits`), and
counts and population speak of the latter only (`CountsFit`, `PopulationFits`,
`BestFits`: of these the update is `UpdateImproves`); and that a generation makes
no more offspring than asked for bounds `inserted` from both sides
(`OffspringFit`). `RunRefinement` proves that a run implements `RunLedger`: each
action is a step of the ledger or a stutter (`StepImplements`). `BatchFits` says
that a batch is in hand exactly while it is written, the other parts of the
invariant that it is not stored yet and that what is staged belongs to it;
`NothingIsLost` is what lets the run return.

`TsSearchProofs` proves `AcceptedIsValid`, `ReportsAgree`, `SettledRowsTrace` and
the action property `WorkIsKept`, from `TsSearchAssumption`. The invariant ties
the result of a pair to its file: from the moment the loop has passed the pair,
the two are the same unless neither is a success (`Agreement`). It takes the
distinctness of selected pairs (`Selected`), for a file belongs to a pair. For
`SettledRowsTrace` a second invariant, `TraceInv`, follows a result from the search
that ran it to the row that another search writes: a success on disk or in memory
is `Located`, that is, every list that has up to its second endpoint just what was
known and the endpoints has them at the pair's positions. Such is the list of any
later search as long as the band is settled (`SettledList`), because what was seen
once is either in the list or `missed`. The heart of it is `SamePlaces`: two sorted
lists of the same minima up to some energy agree at all positions up to there.

The same module proves `SuccessIsEarned`, `StepsWithinBudget` and
`FailuresSayWhy` of the bands (`SerialNeb`, hence `ParallelNeb`), for any pairs,
costs, budgets and steps, from `ParallelNebAssumption`. `NebInv` says that a pair
is in one place, a chunk to come, the chunk under way or the results
(`OnePlace`); that every band of the chunk is in a batch to come or already
explained (`Covered`), so that a retry in halves forgets none; that a band has
made no more steps than its stage leaves it (`WithinLimits`); and that a
converged band has made a step and has a low force where it is (`Stepped`). About the
chunks themselves, `ChunksPartition`: every band is in one, and in one only; and
`ChunksFit`: a chunk of more than one band is within the budget of atoms, and no
chunk has more bands than the cap.

`CampaignProofs` proves `KnownMinimaReturn` and `FolderMirrors` for both
optimizers, and `TagsAreHonest` and `FinalsAreTagged` with the hypothesis
`Optimizer = "ga"`: in basin hopping rows share final ids, and the run
`campaign_bh` is the counterexample to the second without it.
`CampaignAssumption` is the only other assumption.
The invariant is a conjunction over the processes (`Own`) and the disk
(`DiskFits`); a step of one process is harmless to another because rows and tags
only grow (`Grows`), and whoever touches the folder sets `disturbed` for
everybody else (`NoticesFolder`). `LoadFits` and `ReturnFits` follow a known
minimum from the list of databases to the final minima, `TagsFit` follows a final
minimum to its tag, `WrittenFits` and `FolderFits` follow the files.

`SeedsProofs` proves, about `StrategyAllocation`, `BatchesCoverOptions`: for any
batch size, options and requests the plan has the size asked for, keeps every
cap, gives every option its slot when there is room, and leaves nothing to
chance that another strategy asked for (through `ScaledFits`, shares rounded
down fit in the whole, and `GuaranteesFit`). About `Seeds` it proves
`PlanCoversOptions` and `KnownMinimaSeed`, from `SeedsAssumption`: a database has
finitely many minima, of integer energies and shapes. What is known of a file is what it
holds as long as it has not changed since it was first met, and this has to be
said of the entries per file (`FileFits`), of the entries per target
(`EntryFits`), of a scan under way, which began before some writes
(`ReadFits`), and of its answer (`PlanFits`). That the lowest minimum of a
formula survives deduplication and the cap is `LowestSurvives`.

`BhProofs` proves `ReturnedPassedTheGate`, `EnergiesAreOwn` and
`FoundIsKeptOnce` for both algorithms, any number of calls and hops, any
geometries and any comparator, from `BasinHoppingAssumption`. Copies
share their tags, so what a row carries could be another's: the invariant
says that a relaxed row has the score of its own geometry and, in basin hopping,
its own mark (`RowsAreOwn`), that the bag has the score of what was just relaxed
when it is about to be written (`BagIsOwn`), and that a simple call never finds
a relaxed row to add to (`OnlyOne`). What is returned follows from the ranks of `SortedFacts`
(`ExtractedFacts`) and from `UniqueKeepsOne`: of what is left out an equal was
kept, and no two that are kept are equal. Comparing neighbouring bins only is
enough because energies within the tolerance are there (`BinsAreNear`), and no
transitivity is needed.

Inductions. The provers take no theorem with an operator as a parameter, so
nothing here cites an induction rule. Where a fact about all stages of a batch,
about all ranks, or about all indices needs one, the proof takes a least
counterexample (`LeastNumber`, `SmallestSet`, from `WFMin`) and refutes it;
`StagesFacts` and `FilledFacts` find a solution of a recursive function that way,
without which nothing is known of the `CHOOSE` it stands for.

Only model-checked: liveness (`Terminates`, `Answered`), which is out of the
prover's reach. Every safety property of a passing run, and every refinement, is
a theorem. What a fold or a sum computes for every input (the cost that a retry
halves, the size of a composition) is not proved; no theorem depends on it, and
`ChunksFit` speaks of any function that sums up the costs.

## Findings

Two have a run in which TLC finds the violation.

- `campaign_bh`: a trial of basin hopping is a copy that keeps the `final_id` of
  the stored seed, and so does every row of the walk; the final tag goes to the
  first row with that id (`algorithms/basinhopping_go.py:129`,
  `metadata/atoms.py:137`).
- `ts_trace`: a saved pair is found again by the positions of its minima; when a
  lower minimum was found meanwhile, or a database could not be read by one of the
  searches, a resumed search takes the saddle of other endpoints
  (`ts_search/transition_state_run.py:312`).

Met while modelling, without a run:

- The mtime that keys a database's candidates ("mtime-based caching",
  `initialization/candidate_discovery.py:111`) is the first one this process saw;
  what is tagged later is never read. A test states the opposite ("Second call
  should see new (final) entry", `tests/initialization/test_init_common.py:1077`).
  `KnownMinimaSeed` therefore has the premise `signature[db] = memo[db]`; without
  it TLC finds the counterexample.
- `bh_go` promises minima "sorted by fitness (highest first) for non-low_energy
  strategies"; the fitness is set after the row is written
  (`basinhopping_go.py:874`, as in `ga_common.py:1943`), so what is read back has
  none and stays in the order of energies.
- A kept file (`clean=False`) does not get the structure of the new call: it
  starts from a trial that was turned down, or fails when none is left, against
  the docstring of `simple_go`. With `high_energy` a failed relaxation has the best
  fitness of all and is always accepted.
- The serial `find_transition_state` keeps `neb_converged` when finalising
  raises, and the status "success" beside an error text when `classify_band`
  does; the parallel path resets both (`parallel_neb.py:866`).
- Every job in a pool process reloads from the second generation on, because the
  context it compares with is that of the generation that made the pool; the
  comment at `geneticalgorithm_go_torchsim.py:329` promises a refresh only when
  the epoch advances. Results are right (`OperatorsAreOfThisGeneration`).
- A mutant that is new to the population but is found again within its own batch
  has `looks_like` 1 and earns no credit, against the docstring of
  `_credit_unique_operators`.
- `is_cuda_oom_error` follows `__context__`, so any `RuntimeError` raised while a
  retry or a half runs ends as "ran out of GPU memory while relaxing one
  structure". After a split `last_batch_relax_steps` has the last half only. One
  structure that does not fit discards the answers of all others. A reset drops
  the caller's own `max_memory_scaler`.
- `load_previous_results` may return `None` when its entry is evicted between
  the two reads (`database/manager.py:187`); a failed read of a database is
  cached as an empty one (`candidate_discovery.py:96`); waiters of
  `templates.py:1615` get an empty list when the leader raises.
- A structure grown from a seed carries the seed's tags: `Atoms.copy()` shares the
  nested `key_value_pairs`, and only `_try_exact_match` gives its copy a bag of its
  own "so it does not leak into the new run's database"
  (`initialization/initializers.py:1284`). `_write_relaxed_candidate` of a GA adds
  its tags to that bag (`geneticalgorithm_go_torchsim.py:613`), which the discovery
  caches hold too, against "copied so callers can mutate them safely"
  (`candidate_discovery.py:460`), and the row of the new run is written with
  `final_unique_minimum` and the `final_id` of the seed. `Campaign` leaves such
  candidates out; basin hopping writes its seed without tags. An exact match
  keeps its `final_id`.
- `_sample_suitable_seed` has a "geometry diversity preference"
  (`initializers.py:832`) but turns down every second seed of the same geometry,
  and counts sampled seeds as tried when their combination fails: slots planned
  for seeds may fall to a random one though some seed could grow.
- Campaigns on one directory prune each other's XYZ files
  (`minima_search/core.py:1326`).
- `tag_unique_ts_in_databases` knows a database by its basename
  (`ts_network.py:178`), which all runs share. A resumed search adds its rows
  again, and resumed results have lost `barrier_forward`, `barrier_reverse` and
  the fidelity fields. `final_unique_ts/` is never pruned.
- "Failures for one composition never abort the whole campaign"
  (`run_transition_state_campaign`), but nothing is caught there.
- `parallel_neb.py`: the refresh after a step loop (488) turns a full device into
  failed bands, where the docstring at 274 promises a retry; a retry starts the
  step budget again; a success keeps the "did not converge" of the first stage;
  an invalid pair of a serial run is not saved as skipped.

## Not modelled

Floating-point geometry, numerics of relaxations and the content of structures:
surfaces, adsorbates and system types, crossover and mutations, comparators,
scoring of pairs, the placement of atoms. Of these only what they decide is in
the models, as a choice of the environment. Logging and timing; parameters and
presets; runners, which assemble parameters. `database_transaction` joining an
open transaction: one connection has one owner at a time in the program. The
registry's index and its list of sixteen: a campaign scans the directories, too.
The manager's fingerprint and shared cache, which one thread uses.

## Plan

Done: the modules and proofs above. Left, in this order:

1. The refinement of `GaRun`'s pipelined generation by `GpuPipeline`.
2. The building of a planned batch, with its fallbacks and threads, and the tags
   that grown seeds hand on.
3. `SCGODatabaseManager` over `UnifiedCache`'s interface.
