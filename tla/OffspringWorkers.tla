--------------------------- MODULE OffspringWorkers ---------------------------
(***************************************************************************)
(* The cached build state (pairing, operators) of the processes that build *)
(* offspring for ga_go (_OFFSPRING_WORKER_STATE in                         *)
(* scgo/algorithms/geneticalgorithm_go_torchsim.py).  The pool is created  *)
(* once and its processes are bootstrapped with the build context of that  *)
(* generation; ga_go's own process refreshes its state every generation,   *)
(* and serves the batches of one job.  A context is its operators_epoch,   *)
(* the generation it was made in, from 1 on.                               *)
(***************************************************************************)
EXTENDS Naturals

CONSTANTS
  Workers,     \* the processes of the ProcessPoolExecutor
  Parent,      \* the process of ga_go
  Generations, \* bound: niter
  MaxJobs      \* bound: offspring jobs of a generation

ASSUME OffspringAssumption ==
  Parent \notin Workers /\ Generations \in Nat /\ MaxJobs \in Nat

Processes == Workers \cup {Parent}

\* _OFFSPRING_WORKER_STATE: the operators_epoch it was loaded with and the
\* epoch of its static_ctx (0 when there is none).
Empty == [epoch |-> 0, ctx |-> 0]

VARIABLES
  generation, \* the current generation, 0 before the first
  running,    \* inside its `try`
  poolCtx,    \* the context in the pool's initargs, 0 before the pool exists
  state,      \* _OFFSPRING_WORKER_STATE of every process
  jobs,       \* jobs built in this generation
  loadedIn,   \* history: the generation in which a process last loaded
  served      \* history: the generation of the last job it built

vars == <<generation, running, poolCtx, state, jobs, loadedIn, served>>

Init ==
  /\ generation = 0 /\ running = FALSE /\ poolCtx = 0 /\ jobs = 0
  /\ state = [p \in Processes |-> Empty]
  /\ loadedIn = [p \in Processes |-> 0]
  /\ served = [p \in Processes |-> 0]

\* _load_offspring_worker_state(ctx): the epoch comes from the context.
Loaded(ctx) == [epoch |-> ctx, ctx |-> ctx]

\* A new generation with its own context; the pool is made when it is first
\* needed; _ensure_offspring_worker_state in this process.  The loop body
\* starts with an empty state, so this always loads.
Ensured(ctx) == IF state[Parent].epoch # ctx THEN Loaded(ctx) ELSE state[Parent]
BeginGeneration ==
  /\ ~running /\ generation < Generations
  /\ generation' = generation + 1 /\ running' = TRUE /\ jobs' = 0
  /\ poolCtx' \in IF poolCtx = 0 THEN {0, generation'} ELSE {poolCtx}
  /\ state' = [state EXCEPT ![Parent] = Ensured(generation')]
  /\ loadedIn' = IF state' = state THEN loadedIn
                 ELSE [loadedIn EXCEPT ![Parent] = generation']
  /\ UNCHANGED served

\* The pool starts a process: _offspring_worker_bootstrap_init(*initargs).
Bootstrap(w) ==
  /\ running /\ poolCtx # 0 /\ state[w] = Empty
  /\ state' = [state EXCEPT ![w] = Loaded(poolCtx)]
  /\ loadedIn' = [loadedIn EXCEPT ![w] = generation]
  /\ UNCHANGED <<generation, running, poolCtx, jobs, served>>

\* The test of _build_offspring_worker: job["operators_epoch"] is that of the
\* current context, what is then loaded is the static_ctx of this process.
MutantComparesContext(p) == state[p].epoch # state[p].ctx
MustReload(p) == state[p].epoch # generation

\* A job runs in a worker of the pool, or here when the batch has one job.
Build(p) ==
  /\ running /\ jobs < MaxJobs /\ state[p] # Empty
  /\ jobs' = jobs + 1
  /\ IF MustReload(p)
       THEN /\ state' = [state EXCEPT ![p] = Loaded(state[p].ctx)]
            /\ loadedIn' = [loadedIn EXCEPT ![p] = generation]
       ELSE UNCHANGED <<state, loadedIn>>
  /\ served' = [served EXCEPT ![p] = generation]
  /\ UNCHANGED <<generation, running, poolCtx>>

\* The `finally` of the generation clears the state of this process only.
EndGeneration ==
  /\ running /\ running' = FALSE
  /\ state' = [state EXCEPT ![Parent] = Empty]
  /\ UNCHANGED <<generation, poolCtx, jobs, loadedIn, served>>

Done == ~running /\ generation = Generations /\ UNCHANGED vars

Next ==
  \/ BeginGeneration \/ EndGeneration \/ Done
  \/ \E w \in Workers : Bootstrap(w)
  \/ \E p \in Processes : Build(p)

Spec == Init /\ [][Next]_vars

-----------------------------------------------------------------------------
\* Operators change while they are used (weights, random generators): no job
\* is built with operators left over from an earlier generation, whichever
\* process builds it and whenever that process was started.
OperatorsAreOfThisGeneration ==
  \A p \in Processes : served[p] # 0 => loadedIn[p] >= served[p]
=============================================================================
