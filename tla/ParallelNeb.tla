---------------------------- MODULE ParallelNeb -----------------------------
(***************************************************************************)
(* run_parallel_neb_search and ParallelNEBBatch (ts_search/                *)
(* parallel_neb.py): nudged elastic bands optimised together on one GPU,   *)
(* in chunks, with out-of-memory retries, a second climbing stage and the  *)
(* verdict on each pair (_finalize_neb_result, transition_state.py).       *)
(*                                                                         *)
(* Every evaluation may run out of memory or fail.  A band's force is      *)
(* "low" (below fmax), "high" or "nan"; it is "stale" once the band has    *)
(* moved.  An error is named, not worded.  neb_climb is set.                *)
(***************************************************************************)
EXTENDS BandChunks

CONSTANTS
  NPairs,    \* pairs of minima
  Cost,      \* per pair, atoms of its band
  Budget,    \* parallel_neb_max_batch_atoms; 0: none
  Cap,       \* parallel_neb_max_bands; 0: none
  NebSteps   \* neb_steps

Pairs == 1..NPairs

ASSUME ParallelNebAssumption ==
  /\ NPairs \in Nat \ {0} /\ NebSteps \in Nat \ {0}
  /\ Cost \in [Pairs -> Nat \ {0}] /\ Budget \in Nat /\ Cap \in Nat

VARIABLES
  phase,     \* where the search is
  kind,      \* per pair: "new", "resumed", "skipped", "single" or "two" stages
  saved,     \* per pair: its result, or NoResult
  todo,      \* chunks still to run, sets of bands
  chunk,     \* the bands of the running chunk
  call,      \* the bands given to _run_chunk_with_oom_retry
  stage,     \* "single", "relax" or "climb"
  retries,   \* sub-chunks of the retry still to run
  retrying,  \* the chunk ran out of memory
  batch,     \* the bands of the running ParallelNEBBatch
  active,    \* active_nebs
  count,     \* step_count
  summaries, \* per band, its summary in this batch
  first,     \* per band, its summary of the relaxing stage
  counted,   \* bands whose _force_calls is above zero
  climb,     \* bands whose climbing image is on
  force      \* per band, the force at its geometry (history)

nebVars == <<phase, kind, saved, todo, chunk, call, stage, retries, retrying, batch,
             active, count, summaries, first, counted, climb, force>>
batchVars == <<batch, active, count>>
chunkVars == <<todo, chunk, call, stage, retries, retrying>>

NoResult == [status |-> "none", converged |-> FALSE, error |-> "none", steps |-> 0]
Fresh == [converged |-> FALSE, failed |-> FALSE, error |-> "none", steps |-> 0]
Fail(s, why) ==
  [s EXCEPT !.converged = FALSE, !.failed = TRUE, !.error = why]

NebInit ==
  /\ phase = "setup" /\ kind = [p \in Pairs |-> "new"]
  /\ saved = [p \in Pairs |-> NoResult]
  /\ todo = <<>> /\ chunk = {} /\ call = {} /\ stage = "single"
  /\ retries = <<>> /\ retrying = FALSE
  /\ batch = {} /\ active = {} /\ count = 0
  /\ summaries = [p \in Pairs |-> Fresh] /\ first = [p \in Pairs |-> Fresh]
  /\ counted = {} /\ climb = {} /\ force = [p \in Pairs |-> "stale"]
-----------------------------------------------------------------------------
(* Setting up the pairs. *)

SkippedPair == [NoResult EXCEPT !.status = "skipped", !.error = "invalid"]
Resumed == [NoResult EXCEPT !.status = "success", !.converged = TRUE]

\* A completed pair is reused, an invalid one is skipped and saved so.
Setup ==
  /\ phase = "setup"
  /\ \E verdict \in [Pairs -> {"resumed", "skipped", "single"}] :
       /\ kind' = verdict
       /\ saved' = [p \in Pairs |-> CASE verdict[p] = "resumed" -> Resumed
                                     [] verdict[p] = "skipped" -> SkippedPair
                                     [] OTHER -> NoResult]
  /\ phase' = "screen"
  /\ UNCHANGED <<chunkVars, batchVars, summaries, first, counted, climb, force>>

Unsaved == {p \in Pairs : kind[p] = "single"}

ChunksOf(how, verdict) == ChunkBands({p \in Pairs : verdict[p] = how}, Cost, Budget, Cap)

\* Energies along the bands: some bands are turned down; two stages need a
\* budget of four steps.
Screen ==
  /\ phase = "screen"
  /\ \E verdict \in [Unsaved -> {"skipped", "single"} \cup
                                IF NebSteps >= 4 THEN {"two"} ELSE {}] :
       /\ kind' = [p \in Pairs |-> IF p \in Unsaved THEN verdict[p] ELSE kind[p]]
       /\ saved' = [p \in Pairs |->
            IF p \in Unsaved /\ verdict[p] = "skipped" THEN SkippedPair ELSE saved[p]]
       /\ climb' = {p \in Unsaved : verdict[p] = "single"}
  /\ todo' = ChunksOf("single", kind') \o ChunksOf("two", kind')
  /\ phase' = "chunk"
  /\ UNCHANGED <<chunk, call, stage, retries, retrying, batchVars, summaries,
                 first, counted, force>>

\* Out of memory also on the retry, or another error: the search ends.
ScreenRaises ==
  /\ phase = "screen" /\ Unsaved # {} /\ phase' = "raised"
  /\ UNCHANGED <<kind, saved, chunkVars, batchVars, summaries, first, counted,
                 climb, force>>
-----------------------------------------------------------------------------
(* One ParallelNEBBatch: run_optimization. *)

StartBatch(bands) ==
  /\ batch' = bands /\ active' = bands /\ count' = 0
  /\ summaries' = [p \in Pairs |-> IF p \in bands THEN Fresh ELSE summaries[p]]
  /\ phase' = "step"

\* neb_stage2_step_budget.
ClimbBudget(p) ==
  IF NebSteps > first[p].steps THEN NebSteps - first[p].steps ELSE 1

MutantBandLimit(p) == CASE stage = "single" -> NebSteps
                        [] stage = "relax" -> NebSteps \div 2
                        [] OTHER -> Max({ClimbBudget(q) : q \in call})

BandLimit(p) == CASE stage = "single" -> NebSteps
                  [] stage = "relax" -> NebSteps \div 2
                  [] OTHER -> ClimbBudget(p)
StepCap == Max({BandLimit(p) : p \in call})

\* The batched evaluation fails, not for memory: all active bands fail.
EvaluationFails ==
  /\ phase = "step" /\ active # {}
  /\ summaries' = [p \in Pairs |-> IF p \in active
                   THEN [summaries[p] EXCEPT !.failed = TRUE, !.error = "evaluation"]
                   ELSE summaries[p]]
  /\ phase' = "close"
  /\ UNCHANGED <<kind, saved, chunkVars, batchVars, first, counted, climb, force>>

\* What a band's own part of a step may do: its force is low, high (and the
\* optimizer moves it) or not finite; reading the force or moving raises.
Parts == {"low", "high", "nan", "unread", "unmoved"}

After(p, part) ==
  LET s == [summaries[p] EXCEPT !.steps = IF part = "unread" THEN @ ELSE count + 1] IN
  CASE part = "low" -> [s EXCEPT !.converged = TRUE]
    [] part = "high" -> s
    [] part = "nan" -> Fail(s, "nonfinite")
    [] OTHER -> [s EXCEPT !.failed = TRUE, !.error = "step"]

Move(parts, moved) ==
  force' = [p \in Pairs |->
    IF p \notin moved THEN force[p]
    ELSE IF parts[p] \in {"low", "nan"} THEN parts[p] ELSE "stale"]

\* Every image of the active bands in one evaluation, then each band.
Step ==
  /\ phase = "step" /\ active # {} /\ count < StepCap
  /\ counted' = counted \cup active
  /\ \E parts \in [active -> Parts] :
       /\ summaries' = [p \in Pairs |->
            IF p \in active THEN After(p, parts[p]) ELSE summaries[p]]
       /\ Move(parts, active)
       /\ active' = {p \in active : parts[p] = "high" /\ count + 1 < BandLimit(p)}
  /\ count' = count + 1
  /\ phase' = IF active' # {} /\ count' < StepCap THEN "step" ELSE "close"
  /\ UNCHANGED <<kind, saved, chunkVars, batch, first, climb>>

MutantJudged(p) == summaries[p]

\* Afterwards: why a band is not done, a last evaluation of all bands that
\* have not failed, and the force where the last step left them.
Judged(p) ==
  IF summaries[p].converged \/ summaries[p].failed THEN summaries[p]
  ELSE [summaries[p] EXCEPT !.error =
          IF summaries[p].steps > 0 THEN "unconverged" ELSE "unprocessed"]

Unsettled(p) == ~summaries[p].failed /\ ~summaries[p].converged /\ summaries[p].steps > 0

Synced(p, part) ==
  CASE part = "low" -> [Judged(p) EXCEPT !.converged = TRUE, !.error = "none"]
    [] part = "high" -> Judged(p)
    [] part = "nan" -> Fail(Judged(p), "nonfinite")
    [] OTHER -> Fail(Judged(p), "step")

Closed(verdicts) ==
  /\ summaries' = [p \in Pairs |-> IF p \in batch THEN verdicts[p] ELSE summaries[p]]
  /\ phase' = "closed"
  /\ UNCHANGED <<kind, saved, chunkVars, batchVars, first, counted, climb>>

Close ==
  /\ phase = "close"
  /\ LET open == {p \in batch : Unsettled(p)} IN
     \E parts \in [open -> {"low", "high", "nan", "unread"}] :
       /\ Closed([p \in batch |->
                    IF p \in open THEN Synced(p, parts[p]) ELSE Judged(p)])
       /\ force' = [p \in Pairs |->
            IF p \in open /\ parts[p] # "unread" THEN parts[p] ELSE force[p]]

\* The last evaluation fails, for whatever reason: no retry.
RefreshFails ==
  /\ phase = "close" /\ \E p \in batch : ~summaries[p].failed
  /\ Closed([p \in batch |->
               IF summaries[p].failed THEN summaries[p] ELSE Fail(Judged(p), "refresh")])
  /\ UNCHANGED force
-----------------------------------------------------------------------------
(* Chunks, and their retry. *)

NextChunk ==
  /\ phase = "chunk" /\ todo # <<>>
  /\ chunk' = Head(todo) /\ call' = Head(todo) /\ todo' = Tail(todo)
  /\ stage' = IF \E p \in Head(todo) : kind[p] = "two" THEN "relax" ELSE "single"
  /\ retries' = <<>> /\ retrying' = FALSE
  /\ StartBatch(Head(todo))
  /\ UNCHANGED <<kind, saved, first, counted, climb, force>>

AllChunks ==
  /\ phase = "chunk" /\ todo = <<>> /\ phase' = "done"
  /\ UNCHANGED <<kind, saved, chunkVars, batchVars, summaries, first, counted,
                 climb, force>>

MutantRetry ==
  /\ ~retrying /\ retrying' = FALSE
  /\ retries' = Tail(Halved(call, Cost))
  /\ StartBatch(Head(Halved(call, Cost)))

\* Out of memory for the first time: the chunk again, in smaller ones.
Retry ==
  /\ ~retrying /\ retrying' = TRUE
  /\ retries' = Tail(Halved(call, Cost))
  /\ StartBatch(Head(Halved(call, Cost)))

\* Again: these bands are given up, the other sub-chunks go on.
GiveUp ==
  /\ retrying /\ phase' = "closed"
  /\ summaries' = [p \in Pairs |->
       IF p \in batch THEN Fail(Fresh, "oom") ELSE summaries[p]]
  /\ UNCHANGED <<retries, retrying, batchVars>>

\* In the evaluation, or while the bands are stepped one by one: those
\* before the one that raises have moved.
OutOfMemory ==
  /\ \/ phase = "step" /\ active # {} /\ UNCHANGED <<counted, force>>
     \/ /\ phase = "step" /\ active # {} /\ count < StepCap
        /\ counted' = counted \cup active
        /\ \E raises \in active :
             LET before == {p \in active : p < raises} IN
             \E parts \in [before -> {"low", "high", "nan"}] : Move(parts, before)
     \/ /\ phase = "close" /\ (\E p \in batch : Unsettled(p))
        /\ UNCHANGED <<counted, force>>
  /\ Retry \/ GiveUp
  /\ UNCHANGED <<kind, saved, todo, chunk, call, stage, first, climb>>

NextSubChunk ==
  /\ phase = "closed" /\ retries # <<>>
  /\ retries' = Tail(retries) /\ StartBatch(Head(retries))
  /\ UNCHANGED <<kind, saved, todo, chunk, call, stage, retrying, first, counted,
                 climb, force>>

\* _stage1_band_climb_eligible.
Eligible(p) == summaries[p].steps > 0 /\ ~summaries[p].failed

\* After the relaxing stage: all bands of the chunk climb, those that may
\* are optimised again.
StartClimb ==
  /\ phase = "closed" /\ retries = <<>> /\ stage = "relax"
  /\ climb' = climb \cup chunk /\ stage' = "climb"
  /\ first' = [p \in Pairs |-> IF p \in chunk THEN summaries[p] ELSE first[p]]
  /\ call' = {p \in chunk : Eligible(p)} /\ retrying' = FALSE
  /\ IF call' = {} THEN phase' = "save" /\ UNCHANGED <<batchVars, summaries>>
     ELSE StartBatch(call')
  /\ UNCHANGED <<kind, saved, todo, chunk, retries, counted, force>>

Finished ==
  /\ phase = "closed" /\ retries = <<>> /\ stage # "relax" /\ phase' = "save"
  /\ UNCHANGED <<kind, saved, chunkVars, batchVars, summaries, first, counted,
                 climb, force>>

MutantMerged(p) ==
  IF stage # "climb" \/ p \notin call THEN summaries[p]
  ELSE [summaries[p] EXCEPT !.steps = first[p].steps + @,
                          !.converged = @ \/ first[p].converged]

\* The climbing stage decides; the steps add up; an earlier error remains
\* where there is no later one.
Merged(p) ==
  IF stage # "climb" \/ p \notin call THEN summaries[p]
  ELSE [summaries[p] EXCEPT !.steps = first[p].steps + @,
                          !.error = IF @ # "none" THEN @ ELSE first[p].error]

\* Nothing to take a verdict from: the band never ran, or its forces are not
\* numbers.
Unusable(p) ==
  \/ Merged(p).error # "none" /\ p \notin counted /\ Merged(p).steps = 0
  \/ Merged(p).error = "nonfinite"

\* _finalize_neb_result: the highest image is an endpoint, the barrier is
\* absurd, or reading the images raises; else convergence decides.
Verdict(p, band) ==
  LET s == Merged(p)
      failed(why) == [status |-> "failed", converged |-> FALSE, error |-> why,
                      steps |-> s.steps] IN
  IF Unusable(p) THEN failed(s.error)
  ELSE IF band # "saddle" THEN failed(band)
  ELSE [status |-> IF s.converged THEN "success" ELSE "failed",
        converged |-> s.converged, error |-> s.error, steps |-> s.steps]

Save ==
  /\ phase = "save" /\ phase' = "chunk"
  /\ \E bands \in [chunk -> {"saddle", "endpoint", "absurd", "unreadable"}] :
       saved' = [p \in Pairs |-> IF p \in chunk THEN Verdict(p, bands[p])
                                 ELSE saved[p]]
  /\ UNCHANGED <<kind, chunkVars, batchVars, summaries, first, counted, climb, force>>
-----------------------------------------------------------------------------
ParallelNext ==
  \/ Setup \/ Screen \/ ScreenRaises
  \/ NextChunk \/ Step \/ EvaluationFails \/ OutOfMemory
  \/ Close \/ RefreshFails \/ NextSubChunk \/ StartClimb \/ Finished
  \/ Save \/ AllChunks

\* One thread, no waiting.
ParallelSpec == NebInit /\ [][ParallelNext]_nebVars /\ WF_nebVars(ParallelNext)
-----------------------------------------------------------------------------
(* Properties. *)

\* A transition state is reported only for a band whose force was low where
\* the band now is, with the climbing image on: neither the relaxing stage,
\* an attempt that ran out of memory, nor a force from before the last move
\* counts.
SuccessIsEarned ==
  \A p \in Pairs : saved[p].status = "success" /\ kind[p] # "resumed" =>
    force[p] = "low" /\ p \in climb

\* What a pair reports as its steps stays within neb_steps, over both stages
\* and whatever was retried (parallel_neb.py:1021, the per-band remainder).
StepsWithinBudget == \A p \in Pairs : saved[p].steps <= NebSteps

\* A pair that was not a success says why.
FailuresSayWhy ==
  \A p \in Pairs : saved[p].status \in {"failed", "skipped"} => saved[p].error # "none"

\* However often memory runs out, the search ends, with every pair reported
\* (or with the error of the screen).
AllReported == \A p \in Pairs : saved[p].status # "none"
Terminates == <>(phase = "raised" \/ (phase = "done" /\ AllReported))
=============================================================================
