---------------------------- MODULE BatchRelaxer ----------------------------
(***************************************************************************)
(* relax_batch of TorchSimBatchRelaxer (calculators/torchsim_helpers.py):  *)
(* a batch of structures is evaluated on a device whose memory may run     *)
(* out.  Each call releases the caches and tries the same batch again,     *)
(* then halves it.  The native batchers remember how much fits (their      *)
(* scaler) from one call to the next; a structure above it raises, and the *)
(* scalers are estimated anew once.                                        *)
(*                                                                         *)
(* A structure is its memory metric.  The recursion of                     *)
(* _relax_batch_recovering visits parts of the batch from left to right,   *)
(* and an exception in a part leaves all of it, so `work`, the parts still *)
(* to be visited, stands for its stack.                                    *)
(***************************************************************************)
EXTENDS Naturals, Sequences, SequencesExt

CONSTANTS
  Sizes,     \* the metrics structures have
  MaxBatch,  \* bound: structures of a call
  MaxCalls,  \* bound: calls of relax_batch over the relaxer's life
  Scalers,   \* what an estimate of the free memory can give
  Given      \* max_memory_scaler: None, or a scaler of the caller's own

Kinds == {"relax", "single-point"}  \* optimize, or static when steps = 0
None == 0

ASSUME RelaxerAssumption ==
  /\ Sizes \subseteq Nat \ {0} /\ Scalers \subseteq Nat \ {0}
  /\ MaxBatch \in Nat \ {0} /\ MaxCalls \in Nat
  /\ Given \in Scalers \cup {None}

\* Kept for the relaxer's life.
VARIABLES
  scaler,   \* max_memory_scaler of the batcher of each kind
  calls
\* One call.
VARIABLES
  place,    \* "idle", "running", "returned" or "raised"
  kind,
  batch,    \* atoms_list
  work,     \* parts to be visited: [first, last, retry], retry = same_batch_retry
  reprobed, \* the part in hand is in _run_with_max_metric_retry's second try
  answers,  \* positions in `batch`, in the order of the answers
  error,    \* what was raised: "value", "runtime" or "memory"
  ranOut,   \* history: the device did run out of memory
  fresh     \* history: the scaler was estimated in this call

callVars == <<place, kind, batch, work, reprobed, answers, error, ranOut, fresh>>
relaxerVars == <<scaler, calls, callVars>>

Part(first, last, retry) == [first |-> first, last |-> last, retry |-> retry]
Positions(part) == [i \in 1..(part.last - part.first + 1) |-> part.first + i - 1]

RelaxerInit ==
  /\ scaler = [k \in Kinds |-> Given] /\ calls = 0
  /\ place = "idle" /\ kind \in Kinds /\ batch = <<>> /\ work = <<>>
  /\ reprobed = FALSE /\ answers = <<>> /\ error = "none"
  /\ ranOut = FALSE /\ fresh = FALSE

Call ==
  /\ place # "running" /\ calls < MaxCalls
  /\ \E n \in 1..MaxBatch : batch' \in [1..n -> Sizes]
  /\ kind' \in Kinds /\ place' = "running" /\ calls' = calls + 1
  /\ work' = <<Part(1, Len(batch'), TRUE)>>
  /\ reprobed' = FALSE /\ answers' = <<>> /\ error' = "none"
  /\ ranOut' = FALSE /\ fresh' = FALSE
  /\ UNCHANGED scaler

-----------------------------------------------------------------------------
(* One evaluation of the part in hand. *)

Hand == Head(work)
TooLarge(limit) == \E i \in Hand.first..Hand.last : batch[i] > limit

\* The limits the batcher may have: its scaler sticks, and is estimated on first
\* use.
Limits == IF scaler[kind] = None THEN Scalers ELSE {scaler[kind]}
Learn(limit) ==
  /\ scaler' = [scaler EXCEPT ![kind] = limit]
  /\ fresh' = (fresh \/ scaler[kind] = None)

Raises(e) == place' = "raised" /\ error' = e

\* The device's memory holds the part.
Evaluate ==
  /\ place = "running"
  /\ \E limit \in Limits : ~TooLarge(limit) /\ Learn(limit)
  /\ answers' = answers \o Positions(Hand)
  /\ work' = Tail(work) /\ reprobed' = FALSE
  /\ place' = IF work' = <<>> THEN "returned" ELSE "running"
  /\ UNCHANGED <<calls, kind, batch, error, ranOut>>

\* _reset_and_reprobe forgets the scalers of both batchers.
MutantResetsOptimize(k) == [scaler EXCEPT !["relax"] = None]
Reset(k) == [j \in Kinds |-> None]

\* "... greater than max_metric", a ValueError, is answered once for each part;
Reprobe ==
  /\ place = "running" /\ ~reprobed /\ \E limit \in Limits : TooLarge(limit)
  /\ scaler' = Reset(kind) /\ reprobed' = TRUE
  /\ UNCHANGED <<calls, place, kind, batch, work, answers, error, ranOut, fresh>>

\* the second time it leaves the call.
Refuse ==
  /\ place = "running" /\ reprobed
  /\ \E limit \in Limits : TooLarge(limit) /\ Learn(limit)
  /\ Raises("value")
  /\ UNCHANGED <<calls, kind, batch, work, reprobed, answers, ranOut>>

-----------------------------------------------------------------------------
(* Recovery. *)

\* The halves, each with a same-batch retry of its own.
MutantHalvesSwapped(part) ==
  LET mid == part.first + (part.last - part.first + 1) \div 2 - 1
  IN  <<Part(mid + 1, part.last, TRUE), Part(part.first, mid, TRUE)>>
Halves(part) ==
  LET mid == part.first + (part.last - part.first + 1) \div 2 - 1
  IN  <<Part(part.first, mid, TRUE), Part(mid + 1, part.last, TRUE)>>

\* What remains to be visited after the part in hand failed for memory.
MutantRetriesAgain(part) ==
  IF part.retry THEN <<part>> ELSE Halves(part)
Retried(part) ==
  IF part.retry THEN <<[part EXCEPT !.retry = FALSE]>> ELSE Halves(part)

\* is_cuda_oom_error follows __context__: what is raised while an error of
\* memory is handled, as every retry and every half is, counts as one.
InHandler == Hand # Part(1, Len(batch), TRUE)
MutantAnyError(e) == e \in {"memory", "runtime"}
OutOfMemory(e) == e = "memory" \/ (e = "runtime" /\ InHandler)

\* The device runs out of memory, or torch_sim raises for another reason (a
\* RuntimeError, or an exception of another type); the estimate may be what
\* fails.
Fail(e) ==
  /\ place = "running"
  /\ \/ UNCHANGED <<scaler, fresh>>
     \/ \E limit \in Limits : ~TooLarge(limit) /\ Learn(limit)
  /\ ranOut' = (ranOut \/ e = "memory")
  /\ reprobed' = FALSE
  /\ IF ~OutOfMemory(e)
       THEN Raises(e) /\ UNCHANGED work
       ELSE IF ~Hand.retry /\ Hand.first = Hand.last
         THEN Raises("memory") /\ UNCHANGED work
         ELSE work' = Retried(Hand) \o Tail(work) /\ UNCHANGED <<place, error>>
  /\ UNCHANGED <<calls, kind, batch, answers>>

Finished == place # "running" /\ calls = MaxCalls /\ UNCHANGED relaxerVars

Attempt ==
  \/ Evaluate \/ Reprobe \/ Refuse
  \/ \E e \in {"memory", "runtime", "other"} : Fail(e)

RelaxerNext == Call \/ Attempt \/ Finished

RelaxerSpec == RelaxerInit /\ [][RelaxerNext]_relaxerVars

\* A call in progress runs on.
FairRelaxerSpec == RelaxerSpec /\ WF_relaxerVars(Attempt)

-----------------------------------------------------------------------------
\* "A list of (energy, atoms) in the same order as the input list": a call that
\* returns answers every structure once and in its place, however often the
\* batch was split.
AnswersInOrder ==
  place = "returned" => answers = [i \in 1..Len(batch) |-> i]

\* A limit estimated on an earlier workload never refuses a batch: the call
\* that is refused has estimated it itself.
RefusedByFreshLimit == place = "raised" /\ error = "value" => fresh

\* A call that reports the device full has seen it full, and has tried the
\* structure it stopped at alone.
MemoryIsShort ==
  place = "raised" /\ error = "memory" =>
    ranOut /\ Hand.first = Hand.last /\ ~Hand.retry

\* However the device behaves, each part is tried twice at most, and the call
\* is answered.
Answered == [](place = "running" => <>(place # "running"))
=============================================================================
