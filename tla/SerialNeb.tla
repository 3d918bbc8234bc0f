----------------------------- MODULE SerialNeb ------------------------------
(***************************************************************************)
(* _run_serial_neb_search (transition_state_run.py) and                    *)
(* find_transition_state (transition_state.py): the same search, one band  *)
(* after the other, where use_parallel_neb is off.                         *)
(*                                                                         *)
(* The variables are those of ParallelNeb; a pair is a chunk of its own.   *)
(* An optimizer runs until the force is low or its steps are used up, and  *)
(* any evaluation may raise.                                               *)
(***************************************************************************)
EXTENDS ParallelNeb

Serially ==
  /\ phase = "setup" /\ phase' = "pair"
  /\ todo' = [p \in Pairs |-> {p}]
  /\ UNCHANGED <<kind, saved, chunk, call, stage, retries, retrying, batchVars,
                 summaries, first, counted, climb, force>>

Report(p, result) == saved' = [saved EXCEPT ![p] = result]

NextPair(p, how) ==
  /\ phase = "pair" /\ todo # <<>> /\ p \in Head(todo) /\ todo' = Tail(todo)
  /\ kind' = [kind EXCEPT ![p] = how]
  /\ UNCHANGED <<retries, retrying, batchVars, counted>>

\* Completed by an earlier search; endpoints that are no pair, a path or an
\* energy profile that is turned down; another error before the first step.
Settle(p) ==
  /\ \/ NextPair(p, "resumed") /\ Report(p, Resumed)
     \/ NextPair(p, "skipped") /\ Report(p, SkippedPair)
     \/ /\ NextPair(p, "new")
        /\ Report(p, [NoResult EXCEPT !.status = "failed", !.error = "setup"])
  /\ UNCHANGED <<phase, chunk, call, stage, summaries, first, climb, force>>

\* neb_uses_two_stage_climb: from a budget of four steps on, if the initial
\* energies let it.
Launch(p, how) ==
  /\ how = "two" => NebSteps >= 4
  /\ NextPair(p, how)
  /\ climb' = IF how = "single" THEN climb \cup {p} ELSE climb
  /\ summaries' = [summaries EXCEPT ![p] = Fresh]
  /\ chunk' = {p} /\ call' = chunk'
  /\ stage' = IF how = "two" THEN "relax" ELSE "single"
  /\ phase' = "run"
  /\ UNCHANGED <<saved, first, force>>

pair == CHOOSE p \in chunk : TRUE

\* One run of the optimizer; after the relaxing one the climbing image is on.
\* The springs may change after the force it stopped at (_refresh_springs).
Run ==
  /\ phase = "run"
  /\ \E n \in 0..BandLimit(pair), part \in {"low", "high", "nan"} :
       /\ summaries' = [summaries EXCEPT ![pair].steps = @ + n]
       /\ force' = [force EXCEPT ![pair] = IF stage = "relax" THEN "stale" ELSE part]
  /\ IF stage = "relax"
       THEN /\ stage' = "climb" /\ climb' = climb \cup {pair}
            /\ first' = [first EXCEPT ![pair] = summaries'[pair]] /\ UNCHANGED phase
       ELSE phase' = "judge" /\ UNCHANGED <<stage, climb, first>>
  /\ UNCHANGED <<kind, saved, todo, chunk, call, retries, retrying, batchVars, counted>>

Ended == UNCHANGED <<kind, chunkVars, batchVars, first, counted, climb, force>>

\* Out of memory, too: a pair is not tried again.
RunRaises ==
  /\ phase = "run" /\ phase' = "pair"
  /\ Report(pair, [NoResult EXCEPT !.status = "failed", !.error = "run"])
  /\ UNCHANGED summaries /\ Ended

\* The forces once more; they may not be there to be read.
Judge ==
  /\ phase = "judge" /\ phase' = "finalize"
  /\ summaries' = [summaries EXCEPT ![pair] =
       IF force[pair] = "low" THEN [@ EXCEPT !.converged = TRUE]
       ELSE [@ EXCEPT !.error = "unconverged"]]
     \/ summaries' = [summaries EXCEPT ![pair].error = "unread"]
  /\ UNCHANGED saved /\ Ended

\* _finalize_neb_result.  It raises before it has set a status (as the
\* refresh before it may), or after (classify_band): what it has set stays.
SerialVerdict(s, band) ==
  LET status == IF band \in {"saddle", "unclassified"} /\ s.converged
                  THEN "success" ELSE "failed"
  IN  [status |-> status,
       converged |-> s.converged /\ band \notin {"endpoint", "absurd"},
       error |-> IF band = "saddle" THEN s.error ELSE band,
       steps |-> s.steps]

Finalize ==
  /\ phase = "finalize" /\ phase' = "pair"
  /\ \E band \in {"saddle", "endpoint", "absurd", "unreadable", "unclassified"} :
       Report(pair, SerialVerdict(summaries[pair], band))
  /\ UNCHANGED summaries /\ Ended

AllPairs ==
  /\ phase = "pair" /\ todo = <<>> /\ phase' = "done"
  /\ UNCHANGED <<saved, summaries>> /\ Ended

\* An exception of a kind that nothing here catches.
Escapes ==
  /\ \/ phase \in {"run", "judge", "finalize"}
     \/ phase = "pair" /\ todo # <<>>
  /\ phase' = "raised"
  /\ UNCHANGED <<saved, summaries>> /\ Ended

SearchNext ==
  \/ ParallelNext
  \/ Serially \/ Run \/ RunRaises \/ Judge \/ Finalize \/ AllPairs \/ Escapes
  \/ \E p \in Pairs : Settle(p) \/ Launch(p, "single") \/ Launch(p, "two")

\* One thread that never waits, as in ParallelNeb.
SearchSpec == NebInit /\ [][SearchNext]_nebVars /\ WF_nebVars(SearchNext)
=============================================================================
