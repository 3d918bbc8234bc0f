----------------------------- MODULE GpuPipeline -----------------------------
(***************************************************************************)
(* The CPU/GPU overlap of the TorchSim genetic algorithm                   *)
(* (scgo/algorithms/ga_cpu_gpu_pipeline.py) and its use by ga_go: the      *)
(* caller thread builds waves of offspring and owns the database and the   *)
(* population; one worker thread owns relax_batch.  They share two         *)
(* unbounded FIFO queues.  A wave is a number, in order of insertion.      *)
(***************************************************************************)
EXTENDS Naturals, Sequences

CONSTANTS
  Generations,  \* bound: niter, the generations one worker is reused for
  MaxProduce,   \* bound: calls to produce_wave per generation that progress
  WorkerFaults, \* what relax_batch may do besides returning a full batch
  NoWave,       \* produce_wave() returned None
  EmptyWave,    \* produce_wave() returned []
  STOP          \* the sentinel GpuRelaxWorker._STOP

ASSUME PipelineAssumption ==
  /\ Generations \in Nat
  /\ MaxProduce \in Nat
  /\ WorkerFaults \subseteq {"error", "fatal"}
  /\ NoWave \notin Nat /\ EmptyWave \notin Nat /\ STOP \notin Nat
  /\ NoWave # EmptyWave /\ STOP \notin {NoWave, EmptyWave}

VARIABLES
  pc,         \* where the caller thread is
  raised,     \* an exception is propagating out of ga_go
  generation, \* generations started
  budget,     \* productive calls of produce_wave left in this generation
  inserted,   \* non-empty waves inserted so far, over all generations
  current,    \* the local `current` of run_double_buffered_with_worker
  nxt,        \* its local `nxt`
  result,     \* the GpuRelaxResult taken from the results queue
  committed,  \* the waves handed to commit_result, in order
  jobs,       \* GpuRelaxWorker._jobs
  results,    \* GpuRelaxWorker._results
  thread,     \* the worker thread: "none", "idle", "busy", "exited", "died"
  job         \* the wave the worker is relaxing

callerVars == <<pc, raised, generation, budget, inserted, current, nxt,
                result, committed>>
workerVars == <<jobs, results, thread, job>>
vars == <<pc, raised, generation, budget, inserted, current, nxt, result,
          committed, jobs, results, thread, job>>

NoResult == [wave |-> NoWave, ok |-> FALSE]

Init ==
  /\ pc = "init" /\ raised = FALSE
  /\ generation = 0 /\ budget = 0 /\ inserted = 0
  /\ current = NoWave /\ nxt = NoWave
  /\ result = NoResult /\ committed = <<>>
  /\ jobs = <<>> /\ results = <<>> /\ thread = "none" /\ job = NoWave

-----------------------------------------------------------------------------
(* The caller thread. *)

\* hooks.produce returns None once production_done, so every further call
\* that returns a list has spent attempts of the generation.
MayProgress == budget > 0

\* GpuRelaxWorker.start() is a no-op once the thread exists.
Started == IF thread = "none" THEN "idle" ELSE thread

\* ga_go creates and starts the worker once, before the generation loop.
StartWorker ==
  /\ pc = "init"
  /\ thread' = Started
  /\ pc' = "between"
  /\ UNCHANGED <<raised, generation, budget, inserted, current, nxt, result,
                 committed, jobs, results, job>>

\* The next generation enters run_double_buffered_with_worker.
BeginGeneration ==
  /\ pc = "between" /\ generation < Generations
  /\ generation' = generation + 1
  /\ budget' = MaxProduce
  /\ thread' = Started
  /\ pc' = "produce"
  /\ UNCHANGED <<raised, inserted, current, nxt, result, committed, jobs,
                 results, job>>

\* The loop ran out of generations, or early stopping broke out of it.
EndRun ==
  /\ pc = "between" /\ (generation = Generations \/ generation > 0)
  /\ pc' = "shutdown"
  /\ UNCHANGED <<raised, generation, budget, inserted, current, nxt, result,
                 committed>>
  /\ UNCHANGED workerVars

\* The test of `while current is not None: if not current: ... continue`.
Consider(wave) ==
  CASE wave = NoWave -> "between"
    [] wave = EmptyWave -> "produce"
    [] OTHER -> "submit"

\* After the overlapped production the loop always waits for the result.
MutantSubmitsAhead(wave) == IF wave = NoWave THEN "wait" ELSE "submit"
AfterOverlap(wave) == "wait"

\* The wave is bound to `current` outside the overlap and to `nxt` inside.
Receive(wave) ==
  \/ /\ pc = "produce" /\ current' = wave /\ nxt' = nxt
     /\ pc' = Consider(wave)
  \/ /\ pc = "overlap" /\ nxt' = wave /\ current' = current
     /\ pc' = AfterOverlap(wave)

\* produce_wave() inserted a wave of unrelaxed offspring.
ProduceWave ==
  /\ MayProgress
  /\ Receive(inserted + 1)
  /\ inserted' = inserted + 1
  /\ budget' = budget - 1
  /\ UNCHANGED <<raised, generation, result, committed>>
  /\ UNCHANGED workerVars

\* produce_wave() spent attempts without inserting anything.
ProduceEmpty ==
  /\ MayProgress
  /\ Receive(EmptyWave)
  /\ budget' = budget - 1
  /\ UNCHANGED <<raised, generation, inserted, result, committed>>
  /\ UNCHANGED workerVars

\* production_done, or a wave without any progress.
ProduceNone ==
  /\ Receive(NoWave)
  /\ UNCHANGED <<raised, generation, budget, inserted, result, committed>>
  /\ UNCHANGED workerVars

\* prepare_batch(originals), then worker.submit(job).
Submit ==
  /\ pc = "submit"
  /\ thread # "none"
  /\ jobs' = Append(jobs, current)
  /\ pc' = "overlap"
  /\ UNCHANGED <<raised, generation, budget, inserted, current, nxt, result,
                 committed, results, thread, job>>

\* Nothing in ga_go catches an exception of the pipeline: control goes to its
\* `finally`, the generation loop does not continue with the same worker.
MutantNextGeneration == "between"
AfterFailure == "shutdown"

\* worker.wait_result() blocks until the results queue is not empty.  An
\* error result is raised.
WaitResult ==
  /\ pc = "wait" /\ results # <<>>
  /\ result' = Head(results)
  /\ results' = Tail(results)
  /\ raised' = (raised \/ ~Head(results).ok)
  /\ pc' = IF Head(results).ok THEN "commit" ELSE AfterFailure
  /\ UNCHANGED <<generation, budget, inserted, current, nxt, committed, jobs,
                 thread, job>>

\* The loop variable moves on to the wave built during the overlap.
MutantForgetsNext == current
NextCurrent == nxt

\* commit_result(result) wrote the batch and updated the population.
Commit ==
  /\ pc = "commit"
  /\ committed' = Append(committed, result.wave)
  /\ current' = NextCurrent
  /\ pc' = Consider(NextCurrent)
  /\ UNCHANGED <<raised, generation, budget, inserted, nxt, result>>
  /\ UNCHANGED workerVars

\* produce_wave, prepare_batch, submit or commit_result raises, or a
\* KeyboardInterrupt reaches the caller, which is the main thread.
Raise ==
  /\ pc \notin {"shutdown", "join", "closed"}
  /\ raised' = TRUE
  /\ pc' = AfterFailure
  /\ UNCHANGED <<generation, budget, inserted, current, nxt, result, committed>>
  /\ UNCHANGED workerVars

\* GpuRelaxWorker.shutdown(): nothing to do before start(), otherwise the
\* stop sentinel goes behind whatever was submitted.
Shutdown ==
  /\ pc = "shutdown"
  /\ pc' = IF thread = "none" THEN "closed" ELSE "join"
  /\ jobs' = IF thread = "none" THEN jobs ELSE Append(jobs, STOP)
  /\ UNCHANGED <<raised, generation, budget, inserted, current, nxt, result,
                 committed, results, thread, job>>

\* thread.join() returns when the thread has left _run.
MutantJoinTimesOut == TRUE
ThreadEnded == thread \in {"exited", "died"}

\* thread.join() returned; ga_go then closes the database connection.
Join ==
  /\ pc = "join" /\ ThreadEnded
  /\ thread' = "none"
  /\ pc' = "closed"
  /\ UNCHANGED <<raised, generation, budget, inserted, current, nxt, result,
                 committed, jobs, results, job>>

-----------------------------------------------------------------------------
(* The worker thread, GpuRelaxWorker._run. *)

TakeJob ==
  /\ thread = "idle" /\ jobs # <<>>
  /\ jobs' = Tail(jobs)
  /\ IF Head(jobs) = STOP
       THEN thread' = "exited" /\ job' = job
       ELSE thread' = "busy" /\ job' = Head(jobs)
  /\ UNCHANGED results
  /\ UNCHANGED callerVars

\* Every job but the sentinel is answered, by its structures or its error.
MutantSwallowsError(ok) ==
  IF ok THEN Append(results, [wave |-> job, ok |-> ok]) ELSE results
Answer(ok) == Append(results, [wave |-> job, ok |-> ok])

\* relax_batch returns one structure per original; or it raises an Exception
\* or returns another number of structures, and the error is the result.
PutResult(ok) ==
  /\ thread = "busy"
  /\ ok \/ "error" \in WorkerFaults
  /\ results' = Answer(ok)
  /\ thread' = "idle"
  /\ job' = NoWave
  /\ UNCHANGED jobs
  /\ UNCHANGED callerVars

\* relax_batch raises a BaseException that is no Exception: the handler does
\* not match, the thread ends, and no result is ever put.
Die ==
  /\ thread = "busy" /\ "fatal" \in WorkerFaults
  /\ thread' = "died"
  /\ job' = NoWave
  /\ UNCHANGED <<jobs, results>>
  /\ UNCHANGED callerVars

-----------------------------------------------------------------------------
Produce == ProduceWave \/ ProduceEmpty \/ ProduceNone

CallerRuns ==
  \/ StartWorker \/ BeginGeneration \/ EndRun \/ Produce \/ Submit
  \/ WaitResult \/ Commit \/ Shutdown \/ Join

WorkerRuns == TakeJob \/ (\E ok \in BOOLEAN : PutResult(ok)) \/ Die

Closed == pc = "closed" /\ UNCHANGED vars

Next == CallerRuns \/ Raise \/ WorkerRuns \/ Closed

Spec == Init /\ [][Next]_vars

\* Both are operating-system threads that are never suspended for good; an
\* exception is never owed.
FairSpec == Spec /\ WF_vars(CallerRuns) /\ WF_vars(WorkerRuns)

-----------------------------------------------------------------------------
ResultValues == [wave : Nat \cup {NoWave}, ok : BOOLEAN]

TypeOK ==
  /\ pc \in {"init", "between", "produce", "submit", "overlap", "wait",
             "commit", "shutdown", "join", "closed"}
  /\ raised \in BOOLEAN
  /\ generation \in 0..Generations
  /\ budget \in 0..MaxProduce
  /\ inserted \in Nat
  /\ current \in Nat \cup {NoWave, EmptyWave}
  /\ nxt \in Nat \cup {NoWave, EmptyWave}
  /\ result \in ResultValues
  /\ committed \in Seq(Nat)
  /\ jobs \in Seq(Nat \cup {STOP})
  /\ results \in Seq(ResultValues)
  /\ thread \in {"none", "idle", "busy", "exited", "died"}
  /\ job \in Nat \cup {NoWave}

\* The result that commit_result is about to write is the one of the wave the
\* loop considers current: its structures are written over these originals.
\* What would break it: a result left in the queue by an abandoned wave.
ResultMatchesWave == pc = "commit" => result.ok /\ result.wave = current

\* When a generation of the pipeline returns normally, every wave it inserted
\* is committed and both queues are drained: unlike the sequential path it
\* leaves no unrelaxed offspring behind.
NoBacklog ==
  ~raised /\ pc \in {"between", "shutdown"} =>
    /\ Len(committed) = inserted
    /\ jobs = <<>> /\ results = <<>> /\ thread # "busy"

NoWaveQueued == \A i \in DOMAIN jobs : jobs[i] = STOP

\* Memory of the GPU is sized for one batch: a wave is submitted only when the
\* previous one has been taken back, so at most one is queued, on the GPU or
\* waiting to be committed.
OneInFlight ==
  /\ Len(results) <= 1
  /\ \A i, k \in DOMAIN jobs : jobs[i] # STOP /\ jobs[k] # STOP => i = k
  /\ thread = "busy" => results = <<>> /\ NoWaveQueued
  /\ results # <<>> => NoWaveQueued

\* Once ga_go has closed the database no thread is left behind, none relaxes,
\* and no submitted wave is left in the queue, whatever was in flight when the
\* run ended or failed.
QuietAfterClose ==
  pc = "closed" => thread = "none" /\ job = NoWave /\ NoWaveQueued

\* Every run ends: neither thread waits for the other for ever, also when a
\* job fails while the caller builds the next wave, or when the caller fails
\* while a job is on the GPU.  The one case without an answer in the code is a
\* worker thread killed by something that is no Exception.
Terminates == <>(pc = "closed" \/ thread = "died")

\* The pipeline implements the ledger of waves.
Outcome ==
  IF raised THEN "failed"
  ELSE IF pc \in {"shutdown", "join", "closed"} THEN "finished" ELSE "open"

Ledger == INSTANCE WaveLedger
            WITH produced <- inserted, log <- committed, outcome <- Outcome

ImplementsLedger == Ledger!LedgerSpec
=============================================================================
