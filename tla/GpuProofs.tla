------------------------------ MODULE GpuProofs ------------------------------
(***************************************************************************)
(* Proofs about the two parts that work for the GPU, each by itself.       *)
(*                                                                         *)
(* GpuPipeline, for any number of generations and waves, and any faults of *)
(* the relaxer.  The inductive invariant says where a wave can be at each  *)
(* place of the caller (Custody) and what the loop's local variables then  *)
(* are (Books).                                                            *)
(*                                                                         *)
(* BatchRelaxer, for batches of any size, any scalers and any number of    *)
(* calls: the parts still to be visited are not empty, adjoin each other,  *)
(* and cover what is not answered yet (Coverage).                          *)
(***************************************************************************)
EXTENDS GpuPipeline, BatchRelaxer, SequenceTheorems, TLAPS

\* The worker, its queues empty and nothing in flight.
Quiet(t) == thread = t /\ jobs = <<>> /\ results = <<>> /\ job = NoWave

\* Wave w was submitted and not taken back.
InFlight(w) ==
  \/ thread = "idle" /\ jobs = <<w>> /\ results = <<>> /\ job = NoWave
  \/ thread = "busy" /\ jobs = <<>> /\ results = <<>> /\ job = w
  \/ /\ thread = "idle" /\ jobs = <<>> /\ job = NoWave
     /\ \E ok \in BOOLEAN : results = <<[wave |-> w, ok |-> ok]>>
  \/ Quiet("died")

\* The sentinel was put behind what was in flight.
Stopping ==
  \/ /\ thread = "idle" /\ results = <<>> /\ job = NoWave
     /\ jobs = <<current, STOP>>
  \/ thread = "idle" /\ jobs = <<STOP>> /\ Len(results) <= 1 /\ job = NoWave
  \/ thread = "busy" /\ jobs = <<STOP>> /\ results = <<>>
  \/ thread = "exited" /\ jobs = <<>> /\ Len(results) <= 1 /\ job = NoWave
  \/ thread = "died" /\ jobs = <<STOP>> /\ results = <<>> /\ job = NoWave

Custody ==
  /\ pc = "init" => Quiet("none")
  /\ pc \in {"between", "produce", "submit", "commit"} => Quiet("idle")
  /\ pc \in {"overlap", "wait"} => InFlight(current)
  /\ pc = "shutdown" =>
       \/ Quiet("idle")
       \/ raised /\ (Quiet("none") \/ (InFlight(current) /\ current \in Nat))
  /\ pc = "join" => Stopping
  /\ pc = "closed" =>
       /\ thread = "none" /\ job = NoWave /\ Len(results) <= 1
       /\ jobs \in {<<>>, <<STOP>>}

Books ==
  /\ raised => pc \in {"shutdown", "join", "closed"}
  /\ \A i \in DOMAIN committed : committed[i] = i
  /\ ~raised /\ pc \notin {"submit", "overlap", "wait", "commit"} =>
       inserted = Len(committed)
  /\ pc \in {"submit", "overlap", "wait", "commit"} =>
       current = Len(committed) + 1
  /\ pc \in {"submit", "overlap"} => inserted = Len(committed) + 1
  /\ pc \in {"wait", "commit"} =>
       \/ nxt \in {NoWave, EmptyWave} /\ inserted = Len(committed) + 1
       \/ nxt = Len(committed) + 2 /\ inserted = Len(committed) + 2
  /\ pc = "commit" => result = [wave |-> current, ok |-> TRUE]

IInv == TypeOK /\ Custody /\ Books
-----------------------------------------------------------------------------
\* Appending to a queue of one element.
LEMMA AppendToOne ==
  ASSUME NEW a, NEW b
  PROVE  Append(<<a>>, b) = <<a, b>>
<1> DEFINE S == {a, b}
<1>1. <<a>> \in Seq(S) /\ <<a, b>> \in Seq(S)
  OBVIOUS
<1>2. Append(<<a>>, b) \in Seq(S) /\ Len(Append(<<a>>, b)) = 2
  BY <1>1
<1>3. Append(<<a>>, b)[1] = a /\ Append(<<a>>, b)[2] = b
  BY <1>1
<1>4. \A i \in 1..2 : i = 1 \/ i = 2
  OBVIOUS
<1>5. \A i \in 1..2 : Append(<<a>>, b)[i] = <<a, b>>[i]
  BY <1>3, <1>4
<1>6. Len(<<a, b>>) = 2
  OBVIOUS
<1> QED
  BY <1>1, <1>2, <1>5, <1>6, SeqEqual

\* A queue with at most one answer in it.
LEMMA AtMostOne ==
  ASSUME NEW queue, NEW w,
         \/ queue = <<>>
         \/ \E ok \in BOOLEAN : queue = <<[wave |-> w, ok |-> ok]>>
  PROVE  Len(queue) <= 1
<1>1. CASE queue = <<>>
  BY <1>1
<1>2. ASSUME NEW ok \in BOOLEAN, queue = <<[wave |-> w, ok |-> ok]>>
      PROVE  Len(queue) <= 1
  <2>1. Len(queue) = 1
    BY <1>2
  <2> QED
    BY <2>1
<1> QED
  BY <1>1, <1>2

LEMMA InitInv == Init => IInv
<1> SUFFICES ASSUME Init PROVE IInv
  OBVIOUS
<1>1. TypeOK
  <2>1. NoResult \in ResultValues
    BY DEF NoResult, ResultValues
  <2>2. /\ generation \in 0..Generations /\ budget \in 0..MaxProduce
        /\ inserted \in Nat
    BY PipelineAssumption DEF PipelineAssumption, Init
  <2>3. /\ committed \in Seq(Nat) /\ jobs \in Seq(Nat \cup {STOP})
        /\ results \in Seq(ResultValues) /\ result \in ResultValues
    BY <2>1 DEF Init
  <2>4. /\ raised \in BOOLEAN
        /\ pc \in {"init", "between", "produce", "submit", "overlap", "wait",
                  "commit", "shutdown", "join", "closed"}
        /\ thread \in {"none", "idle", "busy", "exited", "died"}
        /\ current \in Nat \cup {NoWave, EmptyWave}
        /\ nxt \in Nat \cup {NoWave, EmptyWave}
        /\ job \in Nat \cup {NoWave}
    BY DEF Init
  <2> QED
    BY <2>1, <2>2, <2>3, <2>4 DEF TypeOK
<1>2. Custody
  BY DEF Init, Custody, Quiet
<1>3. Books
  BY DEF Init, Books
<1> QED
  BY <1>1, <1>2, <1>3 DEF IInv

\* Every step keeps the variables of the caller, the queues and the worker in
\* their types.
LEMMA TypeStep == IInv /\ [Next]_vars => TypeOK'
<1> SUFFICES ASSUME IInv, [Next]_vars PROVE TypeOK'
  OBVIOUS
<1> USE PipelineAssumption DEF PipelineAssumption, TypeOK, IInv
<1>1. CASE StartWorker
  BY <1>1 DEF StartWorker, Started
<1>2. CASE BeginGeneration
  BY <1>2 DEF BeginGeneration, Started
<1>3. CASE EndRun
  BY <1>3 DEF EndRun, workerVars
<1>4. CASE ProduceWave
  BY <1>4 DEF ProduceWave, MayProgress, Receive, Consider, AfterOverlap,
              workerVars
<1>5. CASE ProduceEmpty
  BY <1>5 DEF ProduceEmpty, MayProgress, Receive, Consider, AfterOverlap,
              workerVars
<1>6. CASE ProduceNone
  BY <1>6 DEF ProduceNone, Receive, Consider, AfterOverlap, workerVars
<1>7. CASE Submit
  BY <1>7 DEF Submit, Books
<1>8. CASE WaitResult
  <2>1. Head(results) \in ResultValues /\ Tail(results) \in Seq(ResultValues)
    BY <1>8 DEF WaitResult
  <2>2. raised' \in BOOLEAN
    BY <1>8, Zenon DEF WaitResult
  <2> QED
    BY <1>8, <2>1, <2>2 DEF WaitResult, AfterFailure
<1>9. CASE Commit
  <2>1. result.wave = Len(committed) + 1
    BY <1>9 DEF Commit, Books
  <2>2. committed' \in Seq(Nat)
    BY <1>9, <2>1 DEF Commit
  <2> QED
    BY <1>9, <2>2 DEF Commit, NextCurrent, Consider, workerVars
<1>10. CASE Raise
  BY <1>10 DEF Raise, AfterFailure, workerVars
<1>11. CASE Shutdown
  BY <1>11 DEF Shutdown
<1>12. CASE Join
  BY <1>12 DEF Join, ThreadEnded
<1>13. CASE TakeJob
  BY <1>13 DEF TakeJob, callerVars
<1>14. ASSUME NEW ok \in BOOLEAN, PutResult(ok) PROVE TypeOK'
  <2>1. [wave |-> job, ok |-> ok] \in ResultValues
    BY DEF ResultValues
  <2> QED
    BY <1>14, <2>1 DEF PutResult, Answer, callerVars
<1>15. CASE Die
  BY <1>15 DEF Die, callerVars
<1>16. CASE UNCHANGED vars
  BY <1>16 DEF vars
<1> QED
  BY <1>1, <1>2, <1>3, <1>4, <1>5, <1>6, <1>7, <1>8, <1>9, <1>10, <1>11,
     <1>12, <1>13, <1>14, <1>15, <1>16
  DEF Next, CallerRuns, Produce, WorkerRuns, Closed

\* The result taken back is the one of the current wave, and nothing is left.
LEMMA ResultTaken ==
  IInv /\ WaitResult =>
    /\ Quiet("idle")'
    /\ \E ok \in BOOLEAN : Head(results) = [wave |-> current, ok |-> ok]
<1> SUFFICES ASSUME IInv, WaitResult
             PROVE /\ Quiet("idle")'
                   /\ \E ok \in BOOLEAN :
                        Head(results) = [wave |-> current, ok |-> ok]
  OBVIOUS
<1>1. InFlight(current) /\ results # <<>>
  BY DEF IInv, Custody, WaitResult
<1>2. PICK ok \in BOOLEAN : results = <<[wave |-> current, ok |-> ok]>>
  BY <1>1 DEF InFlight, Quiet
<1>3. thread = "idle" /\ jobs = <<>> /\ job = NoWave
  BY <1>1, <1>2 DEF InFlight, Quiet
<1>4. Head(results) = [wave |-> current, ok |-> ok] /\ Tail(results) = <<>>
  BY <1>2
<1> QED
  BY <1>3, <1>4 DEF WaitResult, Quiet

\* A wave is in at most one place, and in none when the caller builds a first
\* wave, submits, commits or leaves the loop normally.
LEMMA CustodyStep == IInv /\ [Next]_vars => Custody'
<1> SUFFICES ASSUME IInv, [Next]_vars PROVE Custody'
  OBVIOUS
<1> USE DEF IInv, Custody, Quiet
<1>1. CASE StartWorker
  BY <1>1 DEF StartWorker, Started
<1>2. CASE BeginGeneration
  BY <1>2 DEF BeginGeneration, Started
<1>3. CASE EndRun
  BY <1>3 DEF EndRun, workerVars
<1>4. CASE ProduceWave
  BY <1>4 DEF ProduceWave, Receive, Consider, AfterOverlap, workerVars, InFlight
<1>5. CASE ProduceEmpty
  BY <1>5 DEF ProduceEmpty, Receive, Consider, AfterOverlap, workerVars, InFlight
<1>6. CASE ProduceNone
  BY <1>6 DEF ProduceNone, Receive, Consider, AfterOverlap, workerVars, InFlight
<1>7. CASE Submit
  BY <1>7 DEF Submit, InFlight
<1>8. CASE WaitResult
  <2>1. /\ Quiet("idle")'
        /\ pc' = "commit" \/ (pc' = "shutdown" /\ raised')
    BY <1>8, ResultTaken DEF WaitResult, AfterFailure
  <2> QED
    BY <2>1
<1>9. CASE Commit
  BY <1>9 DEF Commit, NextCurrent, Consider, workerVars
<1>10. CASE Raise
  BY <1>10 DEF Raise, AfterFailure, workerVars, InFlight, Books, TypeOK
<1>11. CASE Shutdown
  <2>1. CASE Quiet("none")
    BY <1>11, <2>1 DEF Shutdown
  <2>2. CASE Quiet("idle")
    BY <1>11, <2>2 DEF Shutdown, Stopping
  <2>3. CASE InFlight(current)
    <3>1. pc' = "join" /\ jobs' = Append(jobs, STOP)
          /\ UNCHANGED <<current, results, thread, job>>
      BY <1>11, <2>3 DEF Shutdown, InFlight
    <3>2. CASE jobs = <<>>
      <4>1. jobs' = <<STOP>>
        BY <3>1, <3>2
      <4>2. \/ results = <<>>
            \/ \E ok \in BOOLEAN : results = <<[wave |-> current, ok |-> ok]>>
        BY <2>3 DEF InFlight
      <4>3. Len(results) <= 1
        BY <4>2, AtMostOne
      <4>4. \/ thread = "idle" /\ job = NoWave
            \/ thread = "busy" /\ results = <<>>
            \/ thread = "died" /\ results = <<>> /\ job = NoWave
        BY <2>3, <3>2 DEF InFlight
      <4>5. Stopping'
        BY <3>1, <4>1, <4>3, <4>4 DEF Stopping
      <4> QED
        BY <3>1, <4>5
    <3>3. CASE jobs = <<current>>
      <4>1. jobs' = <<current, STOP>>
        BY <3>1, <3>3, AppendToOne
      <4> QED
        BY <2>3, <3>1, <3>3, <4>1 DEF InFlight, Stopping
    <3> QED
      BY <2>3, <3>2, <3>3 DEF InFlight
  <2> QED
    BY <1>11, <2>1, <2>2, <2>3 DEF Shutdown
<1>12. CASE Join
  BY <1>12 DEF Join, ThreadEnded, Stopping
<1>13. CASE TakeJob
  <2>1. thread = "idle" /\ jobs # <<>> /\ UNCHANGED callerVars
        /\ jobs' = Tail(jobs) /\ results' = results
    BY <1>13 DEF TakeJob
  <2>2. CASE pc \in {"overlap", "wait", "shutdown"}
    <3>1. InFlight(current) /\ jobs = <<current>> /\ results = <<>>
      BY <2>1, <2>2 DEF InFlight
    <3>2. current # STOP
      BY <2>2, <3>1, PipelineAssumption DEF PipelineAssumption, TypeOK
    <3>3. jobs' = <<>> /\ job' = current /\ thread' = "busy"
      BY <1>13, <3>1, <3>2 DEF TakeJob
    <3> QED
      BY <2>1, <2>2, <3>1, <3>3 DEF InFlight, callerVars
  <2>3. CASE pc = "join" /\ jobs = <<current, STOP>>
    <3>1. current # STOP
      BY <2>3, PipelineAssumption DEF PipelineAssumption, TypeOK
    <3>2. jobs' = <<STOP>> /\ thread' = "busy"
      BY <1>13, <2>3, <3>1 DEF TakeJob
    <3> QED
      BY <2>1, <2>3, <3>2 DEF Stopping, callerVars
  <2>4. CASE pc = "join" /\ jobs = <<STOP>>
    <3>1. jobs' = <<>> /\ thread' = "exited" /\ job' = job
      BY <1>13, <2>4 DEF TakeJob
    <3> QED
      BY <2>1, <2>4, <3>1 DEF Stopping, callerVars
  <2> QED
    BY <2>1, <2>2, <2>3, <2>4 DEF TypeOK, Stopping
<1>14. ASSUME NEW ok \in BOOLEAN, PutResult(ok) PROVE Custody'
  <2>1. /\ thread = "busy" /\ thread' = "idle" /\ job' = NoWave
        /\ UNCHANGED <<jobs, callerVars>>
        /\ results' = Append(results, [wave |-> job, ok |-> ok])
    BY <1>14 DEF PutResult, Answer
  <2>2. pc \in {"overlap", "wait", "shutdown", "join"} /\ results = <<>>
    BY <2>1 DEF TypeOK, InFlight, Stopping
  <2>3. results' = <<[wave |-> job, ok |-> ok]>>
    BY <2>1, <2>2
  <2>4. CASE pc = "join"
    BY <2>1, <2>3, <2>4 DEF Stopping, callerVars
  <2>5. CASE pc # "join"
    <3>1. InFlight(current) /\ jobs = <<>> /\ job = current
      BY <2>1, <2>2, <2>5 DEF InFlight
    <3>2. InFlight(current)'
      BY <2>1, <2>3, <3>1 DEF InFlight, callerVars
    <3> QED
      BY <2>1, <2>2, <2>5, <3>2 DEF callerVars
  <2> QED
    BY <2>4, <2>5
<1>15. CASE Die
  BY <1>15 DEF Die, callerVars, InFlight, Stopping
<1>16. CASE UNCHANGED vars
  BY <1>16 DEF vars, InFlight, Stopping
<1> QED
  BY <1>1, <1>2, <1>3, <1>4, <1>5, <1>6, <1>7, <1>8, <1>9, <1>10, <1>11,
     <1>12, <1>13, <1>14, <1>15, <1>16
  DEF Next, CallerRuns, Produce, WorkerRuns, Closed

\* The commits are the waves 1, 2, 3, ... and the loop's locals are the next.
LEMMA BooksStep == IInv /\ [Next]_vars => Books'
<1> SUFFICES ASSUME IInv, [Next]_vars PROVE Books'
  OBVIOUS
<1> USE PipelineAssumption DEF PipelineAssumption, IInv, Books, TypeOK
<1>1. CASE StartWorker
  BY <1>1 DEF StartWorker
<1>2. CASE BeginGeneration
  BY <1>2 DEF BeginGeneration
<1>3. CASE EndRun
  BY <1>3 DEF EndRun
<1>4. CASE ProduceWave
  BY <1>4 DEF ProduceWave, Receive, Consider, AfterOverlap
<1>5. CASE ProduceEmpty
  BY <1>5 DEF ProduceEmpty, Receive, Consider, AfterOverlap
<1>6. CASE ProduceNone
  BY <1>6 DEF ProduceNone, Receive, Consider, AfterOverlap
<1>7. CASE Submit
  BY <1>7 DEF Submit
<1>8. CASE WaitResult
  <2>1. PICK ok \in BOOLEAN : Head(results) = [wave |-> current, ok |-> ok]
    BY <1>8, ResultTaken
  <2>2. Head(results).ok = ok /\ raised = FALSE
    BY <1>8, <2>1 DEF WaitResult
  <2>3. CASE ok
    <3>1. raised' = FALSE
      BY <1>8, <2>2, <2>3, Zenon DEF WaitResult
    <3> QED
      BY <1>8, <2>1, <2>3, <3>1 DEF WaitResult
  <2>4. CASE ~ok
    <3>1. raised' = TRUE /\ pc' = "shutdown"
      BY <1>8, <2>2, <2>4, Zenon DEF WaitResult, AfterFailure
    <3> QED
      BY <1>8, <3>1 DEF WaitResult
  <2> QED
    BY <2>3, <2>4
<1>9. CASE Commit
  BY <1>9 DEF Commit, NextCurrent, Consider
<1>10. CASE Raise
  BY <1>10 DEF Raise, AfterFailure
<1>11. CASE Shutdown
  BY <1>11 DEF Shutdown
<1>12. CASE Join
  BY <1>12 DEF Join
<1>13. CASE TakeJob
  BY <1>13 DEF TakeJob, callerVars
<1>14. ASSUME NEW ok \in BOOLEAN, PutResult(ok) PROVE Books'
  BY <1>14 DEF PutResult, callerVars
<1>15. CASE Die
  BY <1>15 DEF Die, callerVars
<1>16. CASE UNCHANGED vars
  BY <1>16 DEF vars
<1> QED
  BY <1>1, <1>2, <1>3, <1>4, <1>5, <1>6, <1>7, <1>8, <1>9, <1>10, <1>11,
     <1>12, <1>13, <1>14, <1>15, <1>16
  DEF Next, CallerRuns, Produce, WorkerRuns, Closed

THEOREM Invariance == Spec => []IInv
<1>1. IInv /\ [Next]_vars => IInv'
  BY TypeStep, CustodyStep, BooksStep DEF IInv
<1> QED
  BY InitInv, <1>1, PTL DEF Spec

\* No commit ever writes the result of one wave over the originals of another,
\* whatever failed before.
THEOREM ResultsAreNotStale == Spec => []ResultMatchesWave
<1>1. IInv => ResultMatchesWave
  BY DEF IInv, Books, ResultMatchesWave
<1> QED
  BY Invariance, <1>1, PTL

\* A generation of the pipeline that returns leaves no offspring unrelaxed.
THEOREM PipelineLeavesNoBacklog == Spec => []NoBacklog
<1>1. IInv => NoBacklog
  BY DEF IInv, Custody, Quiet, Books, NoBacklog
<1> QED
  BY Invariance, <1>1, PTL

\* One batch at a time is queued, on the GPU, or waiting to be committed.
THEOREM DoubleBuffered == Spec => []OneInFlight
<1>1. ASSUME IInv PROVE OneInFlight
  <2>1. \/ results = <<>>
        \/ \E ok \in BOOLEAN : results = <<[wave |-> current, ok |-> ok]>>
        \/ Len(results) <= 1
    BY <1>1 DEF IInv, TypeOK, Custody, InFlight, Stopping, Quiet
  <2>2. Len(results) <= 1
    BY <2>1, AtMostOne
  <2>3. \/ jobs = <<>> \/ jobs = <<STOP>>
        \/ jobs = <<current>> /\ thread # "busy" /\ results = <<>>
        \/ jobs = <<current, STOP>> /\ thread # "busy" /\ results = <<>>
    BY <1>1 DEF IInv, TypeOK, Custody, InFlight, Stopping, Quiet
  <2>4. thread = "busy" => results = <<>>
    BY <1>1 DEF IInv, TypeOK, Custody, InFlight, Stopping, Quiet
  <2>5. CASE jobs = <<>> \/ jobs = <<STOP>>
    BY <2>2, <2>4, <2>5 DEF OneInFlight, NoWaveQueued
  <2>6. CASE /\ jobs = <<current>> \/ jobs = <<current, STOP>>
             /\ thread # "busy" /\ results = <<>>
    <3>1. \A i \in DOMAIN jobs : i = 1 \/ (i = 2 /\ jobs[i] = STOP)
      BY <2>6
    <3> QED
      BY <2>2, <2>6, <3>1 DEF OneInFlight
  <2> QED
    BY <2>3, <2>5, <2>6
<1> QED
  BY Invariance, <1>1, PTL

\* The worker has something to do: a job in its hands, or one in the queue.
WorkerMoves == thread = "busy" \/ (thread = "idle" /\ jobs # <<>>)

\* The caller never waits for an answer, or for the end of the thread, that
\* nobody is going to give: it is there, or the worker has what it takes to
\* come by it.  Only a thread that died leaves wait_result waiting.
NobodyWaitsInVain ==
  /\ pc = "wait" => results # <<>> \/ WorkerMoves \/ thread = "died"
  /\ pc = "join" => ThreadEnded \/ WorkerMoves

\* The two threads and their queues never lock each other out, in the loop or
\* while shutting down.
THEOREM CallerIsAnswered == Spec => []NobodyWaitsInVain
<1>1. ASSUME IInv PROVE NobodyWaitsInVain
  <2>1. pc = "wait" => InFlight(current)
    BY <1>1 DEF IInv, Custody
  <2>2. pc = "join" => Stopping
    BY <1>1 DEF IInv, Custody
  <2>3. InFlight(current) => results # <<>> \/ WorkerMoves \/ thread = "died"
    BY DEF InFlight, Quiet, WorkerMoves
  <2>4. Stopping => ThreadEnded \/ WorkerMoves
    BY DEF Stopping, ThreadEnded, WorkerMoves
  <2> QED
    BY <2>1, <2>2, <2>3, <2>4 DEF NobodyWaitsInVain
<1>2. IInv => NobodyWaitsInVain
  BY <1>1
<1> QED
  BY Invariance, <1>2, PTL

\* Nothing of the worker outlives ga_go.
THEOREM WorkerIsJoined == Spec => []QuietAfterClose
<1>1. IInv => QuietAfterClose
  BY DEF IInv, Custody, QuietAfterClose, NoWaveQueued
<1> QED
  BY Invariance, <1>1, PTL

\* The types of TypeOK hold in every reachable state.
THEOREM TypeCorrect == Spec => []TypeOK
<1>1. IInv => TypeOK
  BY DEF IInv
<1> QED
  BY Invariance, <1>1, PTL

-----------------------------------------------------------------------------
\* The threads and their queues implement the ledger: waves are committed
\* once, in production order, at most two outstanding, and a run ends well only
\* with nothing outstanding.
THEOREM Refinement == Spec => ImplementsLedger
<1>1. Init => Ledger!LedgerInit
  BY DEF Init, Ledger!LedgerInit, Outcome
<1>2. IInv /\ [Next]_vars => [Ledger!LedgerNext]_Ledger!ledgerVars
  <2> SUFFICES ASSUME IInv, [Next]_vars
               PROVE Ledger!LedgerNext \/ UNCHANGED Ledger!ledgerVars
    OBVIOUS
  <2> USE DEF IInv, TypeOK, Books, Outcome
  <2>1. CASE StartWorker \/ BeginGeneration \/ ProduceEmpty \/ ProduceNone
    BY <2>1 DEF StartWorker, BeginGeneration, ProduceEmpty, ProduceNone,
                Receive, Consider, AfterOverlap, Ledger!ledgerVars
  <2>2. CASE ProduceWave
    BY <2>2 DEF ProduceWave, Receive, Consider, AfterOverlap,
                Ledger!LedgerNext, Ledger!ProduceNext
  <2>3. CASE EndRun
    BY <2>3 DEF EndRun, Ledger!LedgerNext, Ledger!Finish
  <2>4. CASE Commit
    BY <2>4 DEF Commit, NextCurrent, Consider, Ledger!LedgerNext,
                Ledger!CommitOldest
  <2>5. CASE WaitResult
    <3>1. raised = FALSE /\ UNCHANGED <<inserted, committed>>
      BY <2>5 DEF WaitResult
    <3>2. \/ raised' = TRUE
          \/ raised' = FALSE /\ pc' = "commit"
      BY <2>5, <3>1, Zenon DEF WaitResult
    <3> QED
      BY <2>5, <3>1, <3>2
      DEF WaitResult, Ledger!LedgerNext, Ledger!Fail, Ledger!ledgerVars
  <2>6. CASE Raise
    BY <2>6 DEF Raise, Ledger!LedgerNext, Ledger!Fail
  <2>7. CASE Submit \/ Shutdown \/ Join
    BY <2>7 DEF Submit, Shutdown, Join, Ledger!ledgerVars
  <2>8. CASE WorkerRuns
    BY <2>8 DEF WorkerRuns, TakeJob, PutResult, Die, callerVars,
                Ledger!ledgerVars
  <2>9. CASE UNCHANGED vars
    BY <2>9 DEF vars, Ledger!ledgerVars
  <2> QED
    BY <2>1, <2>2, <2>3, <2>4, <2>5, <2>6, <2>7, <2>8, <2>9
    DEF Next, CallerRuns, Produce, Closed
<1> QED
  BY <1>1, <1>2, Invariance, PTL DEF Spec, ImplementsLedger, Ledger!LedgerSpec

-----------------------------------------------------------------------------
(* BatchRelaxer: relax_batch, which the worker calls for every wave.        *)

Parts == [first : Nat \ {0}, last : Nat \ {0}, retry : BOOLEAN]

\* The parts of w cover a..z from left to right.
Covers(w, a, z) ==
  /\ w \in Seq(Parts) /\ Len(w) > 0
  /\ w[1].first = a /\ w[Len(w)].last = z
  /\ \A i \in 1..Len(w) : w[i].first <= w[i].last
  /\ \A i \in 1..(Len(w) - 1) : w[i + 1].first = w[i].last + 1
  /\ \A i, j \in 1..Len(w) : i < j => w[i].last < w[j].first

TypeInv ==
  /\ scaler \in [Kinds -> Nat] /\ kind \in Kinds
  /\ place \in {"idle", "running", "returned", "raised"}
  /\ batch \in Seq(Sizes) /\ work \in Seq(Parts) /\ answers \in Seq(Nat)

Coverage ==
  /\ place = "running" =>
       /\ Covers(work, Len(answers) + 1, Len(batch))
       /\ answers = [i \in 1..Len(answers) |-> i]
  /\ place = "returned" => answers = [i \in 1..Len(batch) |-> i]

\* A part that is not the whole batch, or is tried again, is in the hands of an
\* exception handler: the memory has run out before.
Handled == place = "running" /\ InHandler => ranOut

\* The second try of a part estimates the scaler.
Forgotten == place = "running" /\ reprobed => scaler[kind] = None

RelaxerIInv ==
  /\ TypeInv /\ Coverage /\ Handled /\ Forgotten
  /\ RefusedByFreshLimit /\ MemoryIsShort

-----------------------------------------------------------------------------
\* A cover is of something.
LEMMA CoverIsOfSomething ==
  ASSUME NEW w, NEW a \in Nat \ {0}, NEW z \in Nat, Covers(w, a, z)
  PROVE  a <= z
<1> DEFINE n == Len(w)
<1>1. n \in Nat /\ n > 0 /\ 1 \in 1..n /\ n \in 1..n
  BY DEF Covers
<1>2. w[1] \in Parts /\ w[n] \in Parts
  BY <1>1 DEF Covers
<1>3. w[1].first = a /\ w[n].last = z /\ w[1].first <= w[1].last
      /\ w[n].first <= w[n].last
  BY <1>1 DEF Covers
<1>4. CASE n = 1 BY <1>3, <1>4
<1>5. CASE 1 < n
  <2>1. w[1].last < w[n].first BY <1>1, <1>5 DEF Covers
  <2>2. w[1].last \in Nat /\ w[n].first \in Nat BY <1>2 DEF Parts
  <2> QED BY <2>1, <2>2, <1>3
<1>6. \A m \in Nat : m > 0 => m = 1 \/ 1 < m OBVIOUS
<1> QED BY <1>1, <1>4, <1>5, <1>6, Zenon

\* What is left of a cover when its first part is done.
LEMMA CoverTail ==
  ASSUME NEW w, NEW a \in Nat \ {0}, NEW z \in Nat, Covers(w, a, z)
  PROVE  /\ Head(w) = w[1] /\ w[1] \in Parts /\ w[1].first = a
         /\ a <= w[1].last
         /\ Tail(w) = <<>> => w[1].last = z
         /\ Tail(w) # <<>> => Covers(Tail(w), w[1].last + 1, z)
<1>1. w \in Seq(Parts) /\ Len(w) \in Nat /\ Len(w) > 0 BY DEF Covers
<1>2. Head(w) = w[1] /\ w[1] \in Parts /\ w[1].first = a /\ a <= w[1].last
  BY <1>1 DEF Covers
<1>a. Tail(w) \in Seq(Parts) /\ Len(Tail(w)) = Len(w) - 1
  BY <1>1
<1>3. ASSUME Tail(w) = <<>> PROVE w[1].last = z
  <2>3. Len(<<>>) = 0 OBVIOUS
  <2>0. Len(Tail(w)) = 0 BY <1>3, <2>3, Zenon
  <2>1. \A n \in Nat : n - 1 = 0 => n = 1 OBVIOUS
  <2>2. Len(w) = 1 BY <1>1, <1>a, <2>0, <2>1, Zenon
  <2> QED BY <2>2 DEF Covers
<1>4. ASSUME Tail(w) # <<>> PROVE Covers(Tail(w), w[1].last + 1, z)
  <2>1. Tail(w) \in Seq(Parts) /\ Len(Tail(w)) = Len(w) - 1 /\ Len(w) > 1
    BY <1>1, <1>4, <1>a
  <2>2. \A i \in 1..Len(Tail(w)) : Tail(w)[i] = w[i + 1]
    BY <1>1, <2>1
  <2> QED BY <1>1, <2>1, <2>2 DEF Covers
<1> QED BY <1>2, <1>3, <1>4

\* The first part of a cover may be replaced by a cover of its own.
LEMMA CoverReplaced ==
  ASSUME NEW w, NEW a \in Nat \ {0}, NEW z \in Nat, Covers(w, a, z),
         NEW u, Covers(u, a, w[1].last)
  PROVE  Covers(u \o Tail(w), a, z)
<1> DEFINE v == u \o Tail(w)
<1>1. /\ w \in Seq(Parts) /\ Len(w) \in Nat /\ Len(w) > 0
      /\ u \in Seq(Parts) /\ Len(u) \in Nat /\ Len(u) > 0
  BY DEF Covers
<1>2. Tail(w) \in Seq(Parts) /\ Len(Tail(w)) = Len(w) - 1
  BY <1>1
<1>3. \A i \in 1..(Len(w) - 1) : Tail(w)[i] = w[i + 1]
  BY <1>1, <1>2
<1>4. v \in Seq(Parts) /\ Len(v) = Len(u) + Len(w) - 1
  BY <1>1, <1>2
<1>5. \A i \in 1..Len(v) : v[i] = IF i <= Len(u) THEN u[i] ELSE w[i - Len(u) + 1]
  <2> TAKE i \in 1..Len(v)
  <2>1. CASE i <= Len(u) BY <2>1, <1>1, <1>2, <1>4
  <2>2. CASE i > Len(u)
    <3>1. v[i] = Tail(w)[i - Len(u)] BY <2>2, <1>1, <1>2, <1>4
    <3> QED BY <3>1, <2>2, <1>1, <1>3, <1>4
  <2> QED BY <2>1, <2>2, <1>1, <1>4
<1>6. v[1].first = a BY <1>1, <1>4, <1>5 DEF Covers
<1>7. v[Len(v)].last = z
  <2> HIDE DEF v
  <2>0. Len(v) \in 1..Len(v) BY <1>1, <1>4
  <2>1. CASE Len(w) = 1
    <3>1. v[Len(v)] = u[Len(u)] BY <2>0, <2>1, <1>1, <1>4, <1>5
    <3> QED BY <2>1, <3>1 DEF Covers
  <2>2. CASE Len(w) > 1
    <3>1. Len(v) - Len(u) + 1 = Len(w) /\ ~(Len(v) <= Len(u))
      BY <2>2, <1>1, <1>4
    <3>2. v[Len(v)] = w[Len(w)] BY <2>0, <3>1, <1>5
    <3> QED BY <3>2 DEF Covers
  <2>3. \A n \in Nat : n > 0 => n = 1 \/ n > 1 OBVIOUS
  <2>4. Len(w) = 1 \/ Len(w) > 1 BY <1>1, <2>3, Zenon
  <2> QED BY <2>1, <2>2, <2>4
<1>8. \A i \in 1..Len(v) : v[i].first <= v[i].last
  BY <1>1, <1>4, <1>5 DEF Covers
<1>9. ASSUME NEW i \in 1..(Len(v) - 1) PROVE v[i + 1].first = v[i].last + 1
  <2>0. i \in 1..Len(v) /\ i + 1 \in 1..Len(v) BY <1>1, <1>4
  <2>1. CASE i < Len(u)
    BY <2>0, <2>1, <1>1, <1>4, <1>5 DEF Covers
  <2>2. CASE i = Len(u)
    <3>1. v[i] = u[Len(u)] /\ v[i + 1] = w[2] /\ 1 \in 1..(Len(w) - 1)
      BY <2>0, <2>2, <1>1, <1>4, <1>5
    <3>2. w[2].first = w[1].last + 1
      <4>1. w[1 + 1].first = w[1].last + 1 BY <3>1 DEF Covers
      <4>2. 1 + 1 = 2 OBVIOUS
      <4> QED BY <4>1, <4>2
    <3>3. u[Len(u)].last = w[1].last BY DEF Covers
    <3> HIDE DEF v
    <3> QED BY <3>1, <3>2, <3>3
  <2>3. CASE i > Len(u)
    <3> DEFINE j == i - Len(u) + 1
    <3>1. j \in 1..(Len(w) - 1) /\ (i + 1) - Len(u) + 1 = j + 1
      BY <2>0, <2>3, <1>1, <1>4
    <3>2. v[i] = w[j]  BY <2>0, <2>3, <1>1, <1>5
    <3>3. v[i + 1] = w[(i + 1) - Len(u) + 1]  BY <2>0, <2>3, <1>1, <1>5
    <3>4. v[i + 1] = w[j + 1]
      <4> HIDE DEF j, v
      <4> QED  BY <3>1, <3>3
    <3>5. w[j + 1].first = w[j].last + 1  BY <3>1 DEF Covers
    <3> HIDE DEF j, v
    <3> QED BY <3>2, <3>4, <3>5
  <2>4. i < Len(u) \/ i = Len(u) \/ i > Len(u)
    <3> HIDE DEF v
    <3>1. i \in Int /\ Len(u) \in Int  BY <2>0, <1>1
    <3> QED  BY <3>1
  <2> QED BY <2>1, <2>2, <2>3, <2>4
<1>10. ASSUME NEW i \in 1..Len(v), NEW j \in 1..Len(v), i < j
       PROVE  v[i].last < v[j].first
  <2>1. CASE j <= Len(u)
    <3>1. v[i] = u[i] /\ v[j] = u[j] BY <2>1, <1>1, <1>4, <1>5, <1>10
    <3>2. i \in 1..Len(u) /\ j \in 1..Len(u) BY <2>1, <1>1, <1>4, <1>10
    <3> QED BY <3>1, <3>2, <1>10 DEF Covers
  <2>2. CASE i > Len(u)
    <3> DEFINE k == i - Len(u) + 1
               l == j - Len(u) + 1
    <3>1. v[i] = w[k] /\ v[j] = w[l] /\ k \in 1..Len(w) /\ l \in 1..Len(w) /\ k < l
      BY <2>2, <1>1, <1>4, <1>5, <1>10
    <3> HIDE DEF k, l, v
    <3> QED BY <3>1 DEF Covers
  <2>3. CASE i <= Len(u) /\ Len(u) < j
    <3> DEFINE m == Len(u)
               l == j - m + 1
    <3>1. /\ v[i] = u[i] /\ v[j] = w[l] /\ l \in 1..Len(w) /\ 1 < l
          /\ 1 \in 1..Len(w) /\ i \in 1..m /\ m \in 1..m
      BY <2>3, <1>1, <1>4, <1>5, <1>10
    <3> HIDE DEF l, v
    <3>2. w[1].last < w[l].first BY <3>1 DEF Covers
    <3>3. u[i].last <= w[1].last
      <4>1. u[m].last = w[1].last /\ u[m].first <= u[m].last
        BY <3>1 DEF Covers
      <4>2. u[i] \in Parts /\ u[m] \in Parts BY <3>1, <1>1
      <4>3. CASE i = m BY <4>1, <4>2, <4>3 DEF Parts
      <4>4. CASE i < m
        <5>1. u[i].last < u[m].first BY <3>1, <4>4 DEF Covers
        <5> QED BY <5>1, <4>1, <4>2 DEF Parts
      <4>5. i = m \/ i < m BY <3>1, <1>1
      <4> QED BY <4>3, <4>4, <4>5
    <3>4. u[i] \in Parts /\ w[1] \in Parts /\ w[l] \in Parts BY <3>1, <1>1
    <3> QED BY <3>1, <3>2, <3>3, <3>4 DEF Parts
  <2> QED BY <2>1, <2>2, <2>3, <1>1, <1>4
<1>11. v \in Seq(Parts) /\ Len(v) > 0 BY <1>1, <1>4
<1> HIDE DEF v
<1>12. Covers(v, a, z)
  BY <1>6, <1>7, <1>8, <1>9, <1>10, <1>11 DEF Covers
<1> QED BY <1>12 DEF v

\* A part that is tried again, or its halves, cover it.
LEMMA RetriedCovers ==
  ASSUME NEW p \in Parts, p.first <= p.last, p.retry \/ p.first # p.last
  PROVE  Covers(Retried(p), p.first, p.last)
<1>1. CASE p.retry
  <2> DEFINE q == [p EXCEPT !.retry = FALSE]
  <2>1. q \in Parts /\ q.first = p.first /\ q.last = p.last BY DEF Parts
  <2>2. Retried(p) = <<q>> BY <1>1 DEF Retried
  <2> HIDE DEF q
  <2>3. <<q>> \in Seq(Parts) /\ Len(<<q>>) = 1 /\ <<q>>[1] = q BY <2>1
  <2>4. q.first <= q.last BY <2>1
  <2> QED BY <2>1, <2>2, <2>3, <2>4 DEF Covers
<1>2. CASE ~p.retry
  <2> DEFINE mid == p.first + (p.last - p.first + 1) \div 2 - 1
             l == Part(p.first, mid, TRUE)
             r == Part(mid + 1, p.last, TRUE)
  <2>1. mid \in Nat \ {0} /\ p.first <= mid /\ mid < p.last
    <3>1. p.first \in Nat \ {0} /\ p.last \in Nat \ {0} /\ p.first < p.last
      BY <1>2 DEF Parts
    <3> HIDE DEF mid
    <3> QED BY <3>1 DEF mid
  <2>2. l \in Parts /\ r \in Parts /\ l.first = p.first /\ l.last = mid
        /\ r.first = mid + 1 /\ r.last = p.last
    BY <2>1 DEF Parts, Part
  <2>3. Retried(p) = <<l, r>> BY <1>2 DEF Retried, Halves
  <2> HIDE DEF mid, l, r
  <2>4. /\ <<l, r>> \in Seq(Parts) /\ Len(<<l, r>>) = 2
        /\ <<l, r>>[1] = l /\ <<l, r>>[2] = r
    BY <2>2
  <2>5. l.first <= l.last /\ r.first <= r.last
    <3>1. p.last \in Nat BY DEF Parts
    <3>2. mid + 1 <= p.last BY <3>1, <2>1
    <3> QED BY <3>2, <2>1, <2>2
  <2>6. \A i \in 1..2 : i = 1 \/ i = 2 OBVIOUS
  <2>7. \A i \in 1..(2 - 1) : i = 1 OBVIOUS
  <2>8. \A i, j \in 1..2 : i < j => i = 1 /\ j = 2 OBVIOUS
  <2>9. l.last < r.first BY <2>1, <2>2
  <2> QED BY <2>2, <2>3, <2>4, <2>5, <2>6, <2>7, <2>8, <2>9 DEF Covers
<1> QED BY <1>1, <1>2

-----------------------------------------------------------------------------
\* No call, nothing to cover.
LEMMA InitHolds == RelaxerInit => RelaxerIInv
<1> SUFFICES ASSUME RelaxerInit PROVE RelaxerIInv
  OBVIOUS
<1> USE RelaxerAssumption DEF RelaxerInit
<1>1. TypeInv BY DEF TypeInv, Kinds, None
<1>2. Coverage BY DEF Coverage
<1>3. Handled /\ Forgotten BY DEF Handled, Forgotten
<1>4. RefusedByFreshLimit /\ MemoryIsShort BY DEF RefusedByFreshLimit, MemoryIsShort
<1> QED BY <1>1, <1>2, <1>3, <1>4 DEF RelaxerIInv

\* What a running call has in hand.
LEMMA InHand ==
  ASSUME RelaxerIInv, place = "running"
  PROVE  /\ work \in Seq(Parts) /\ Len(work) > 0 /\ Len(answers) \in Nat
         /\ Hand = work[1] /\ Hand \in Parts /\ Hand.first = Len(answers) + 1
         /\ Hand.first <= Hand.last
         /\ Tail(work) = <<>> => Hand.last = Len(batch)
         /\ Tail(work) # <<>> => Covers(Tail(work), Hand.last + 1, Len(batch))
<1>1. Covers(work, Len(answers) + 1, Len(batch))
  BY DEF RelaxerIInv, Coverage
<1>2. Len(answers) \in Nat /\ Len(batch) \in Nat
  BY DEF RelaxerIInv, TypeInv
<1>3. Len(answers) + 1 \in Nat \ {0}
  BY <1>2
<1>4. work \in Seq(Parts) /\ Len(work) > 0
  BY <1>1 DEF Covers
<1> QED BY <1>1, <1>2, <1>3, <1>4, CoverTail DEF Hand

\* A new call.
LEMMA CallPreserves == RelaxerIInv /\ Call => RelaxerIInv'
<1> SUFFICES ASSUME RelaxerIInv, Call PROVE RelaxerIInv'
  OBVIOUS
<1> USE RelaxerAssumption
<1>1. PICK n \in 1..MaxBatch : batch' \in [1..n -> Sizes]
  BY DEF Call
<1>2. n \in Nat /\ n > 0 /\ batch' \in Seq(Sizes) /\ Len(batch') = n
  BY <1>1
<1> DEFINE p == Part(1, n, TRUE)
<1>3. p \in Parts /\ p.first = 1 /\ p.last = n
  BY <1>2 DEF Part, Parts
<1>4. work' = <<p>> /\ place' = "running" /\ answers' = <<>> /\ kind' \in Kinds
      /\ scaler' = scaler /\ reprobed' = FALSE
  BY <1>2 DEF Call
<1> HIDE DEF p
<1>5. <<p>> \in Seq(Parts) /\ Len(<<p>>) = 1 /\ <<p>>[1] = p
  BY <1>3
<1>6. TypeInv'
  BY <1>2, <1>4, <1>5 DEF TypeInv, RelaxerIInv
<1>7. Coverage'
  <2>1. Covers(<<p>>, 1, n) BY <1>2, <1>3, <1>5 DEF Covers
  <2>2. Len(answers') = 0 /\ answers' = [i \in 1..0 |-> i] BY <1>4
  <2> QED BY <2>1, <2>2, <1>2, <1>4 DEF Coverage
<1>8. Handled'
  <2>1. Hand' = p BY <1>4, <1>5 DEF Hand
  <2> QED BY <2>1, <1>2 DEF Handled, InHandler, p
<1>9. Forgotten' /\ RefusedByFreshLimit' /\ MemoryIsShort'
  BY <1>4 DEF Forgotten, RefusedByFreshLimit, MemoryIsShort
<1> QED BY <1>6, <1>7, <1>8, <1>9 DEF RelaxerIInv

\* The part in hand is answered.
LEMMA EvaluatePreserves == RelaxerIInv /\ Evaluate => RelaxerIInv'
<1> SUFFICES ASSUME RelaxerIInv, Evaluate PROVE RelaxerIInv'
  OBVIOUS
<1> USE RelaxerAssumption
<1> DEFINE k == Len(answers)
           q == Positions(Hand)
<1>0. place = "running" BY DEF Evaluate
<1>1. /\ work \in Seq(Parts) /\ Len(work) > 0 /\ k \in Nat
      /\ Hand = work[1] /\ Hand \in Parts /\ Hand.first = k + 1
      /\ Hand.first <= Hand.last
      /\ Tail(work) = <<>> => Hand.last = Len(batch)
      /\ Tail(work) # <<>> => Covers(Tail(work), Hand.last + 1, Len(batch))
  BY <1>0, InHand
<1>2. /\ answers' = answers \o q /\ work' = Tail(work) /\ reprobed' = FALSE
      /\ place' = IF work' = <<>> THEN "returned" ELSE "running"
      /\ batch' = batch /\ kind' = kind /\ ranOut' = ranOut
  BY DEF Evaluate
<1>3. scaler' \in [Kinds -> Nat]
  <2>1. PICK limit \in Limits : Learn(limit) BY DEF Evaluate
  <2>2. limit \in Nat BY <2>1 DEF Limits, RelaxerIInv, TypeInv
  <2> QED BY <2>1, <2>2 DEF Learn, RelaxerIInv, TypeInv
<1>4. /\ answers \in Seq(Nat) /\ answers = [i \in 1..k |-> i]
      /\ batch \in Seq(Sizes) /\ kind \in Kinds /\ Hand.last \in Nat
  BY <1>0, <1>1 DEF RelaxerIInv, TypeInv, Coverage, Parts
<1>5. q \in Seq(Nat) /\ Len(q) = Hand.last - k /\ \A i \in 1..Len(q) : q[i] = k + i
  <2> DEFINE m == Hand.last - Hand.first + 1
  <2>1. m \in Nat /\ m = Hand.last - k BY <1>1, <1>4
  <2>2. q = [i \in 1..m |-> k + i]
    <3>1. \A i \in 1..m : Hand.first + i - 1 = k + i BY <1>1, <2>1
    <3> QED BY <3>1 DEF Positions
  <2> HIDE DEF m, q
  <2>3. \A i \in 1..m : k + i \in Nat BY <2>1, <1>1
  <2>4. q \in [1..m -> Nat] BY <2>2, <2>3
  <2>5. q \in Seq(Nat) /\ Len(q) = m BY <2>1, <2>4
  <2> QED BY <2>1, <2>2, <2>5
<1> HIDE DEF q
<1>6. answers' \in Seq(Nat) /\ Len(answers') = Hand.last
  <2>0. answers \in Seq(Nat) /\ q \in Seq(Nat) BY <1>4, <1>5
  <2>1. answers \o q \in Seq(Nat) /\ Len(answers \o q) = k + Len(q)
    BY <2>0
  <2>2. k + (Hand.last - k) = Hand.last BY <1>1, <1>4
  <2> QED BY <2>1, <2>2, <1>2, <1>5
<1>7. answers' = [i \in 1..Hand.last |-> i]
  <2>1. \A i \in 1..Hand.last : answers'[i] = i
    <3> TAKE i \in 1..Hand.last
    <3>1. CASE i <= k BY <3>1, <1>1, <1>2, <1>4, <1>5
    <3>2. CASE i > k
      <4>1. i - k \in 1..Len(q)  BY <3>2, <1>1, <1>4, <1>5
      <4>2. (answers \o q)[k + (i - k)] = q[i - k]
        <5>1. answers \in Seq(Nat) /\ q \in Seq(Nat) /\ Len(answers) = k
          BY <1>4, <1>5
        <5>2. \A l \in 1..Len(q) : (answers \o q)[k + l] = q[l]
          BY <1>1, <5>1
        <5> QED  BY <4>1, <5>2
      <4>3. k + (i - k) = i  BY <1>1
      <4>4. answers'[i] = q[i - k]  BY <1>2, <4>2, <4>3
      <4> QED BY <4>1, <4>4, <3>2, <1>1, <1>5
    <3> QED BY <3>1, <3>2, <1>1
  <2> QED BY <2>1, <1>6
<1>8. TypeInv'
  <2>1. work' \in Seq(Parts)
    <3>1. CASE Tail(work) = <<>>
      <4>1. <<>> \in Seq(Parts) OBVIOUS
      <4> QED BY <3>1, <4>1, <1>2, Zenon
    <3>2. CASE Tail(work) # <<>> BY <3>2, <1>1, <1>2 DEF Covers
    <3> QED BY <3>1, <3>2
  <2>2. place' \in {"returned", "running"} BY <1>2
  <2> QED BY <2>1, <2>2, <1>2, <1>3, <1>4, <1>6 DEF TypeInv
<1>9. Coverage'
  <2>1. CASE Tail(work) = <<>>
    BY <2>1, <1>1, <1>2, <1>6, <1>7 DEF Coverage
  <2>2. CASE Tail(work) # <<>>
    BY <2>2, <1>1, <1>2, <1>6, <1>7 DEF Coverage
  <2> QED BY <2>1, <2>2
<1>10. Handled'
  <2> SUFFICES ASSUME place' = "running", InHandler', ~ranOut PROVE FALSE
    BY <1>2 DEF Handled
  <2>1. Hand = Part(1, Len(batch), TRUE)
    BY <1>0 DEF RelaxerIInv, Handled, InHandler
  <2>2. Tail(work) # <<>> BY <1>2
  <2>3. Hand.last = Len(batch) BY <2>1 DEF Part
  <2>4. Covers(Tail(work), Len(batch) + 1, Len(batch)) BY <2>2, <2>3, <1>1
  <2>5. Len(batch) \in Nat BY <1>4
  <2>6. Len(batch) + 1 <= Len(batch) BY <2>4, <2>5, CoverIsOfSomething
  <2> QED BY <2>5, <2>6
<1>11. Forgotten' /\ RefusedByFreshLimit' /\ MemoryIsShort'
  BY <1>2 DEF Forgotten, RefusedByFreshLimit, MemoryIsShort
<1> QED BY <1>8, <1>9, <1>10, <1>11 DEF RelaxerIInv

\* A structure is above the limit: the scalers are forgotten, the part is tried
\* again; or the call is refused.
LEMMA ReprobePreserves == RelaxerIInv /\ Reprobe => RelaxerIInv'
<1> SUFFICES ASSUME RelaxerIInv, Reprobe PROVE RelaxerIInv'
  OBVIOUS
<1>1. /\ scaler' = [j \in Kinds |-> None] /\ reprobed' = TRUE
      /\ UNCHANGED <<calls, place, kind, batch, work, answers, error, ranOut, fresh>>
  BY DEF Reprobe, Reset
<1>2. TypeInv' BY <1>1 DEF RelaxerIInv, TypeInv, None
<1>3. Coverage' BY <1>1 DEF RelaxerIInv, Coverage
<1>4. Handled' BY <1>1 DEF RelaxerIInv, Handled, InHandler, Hand
<1>5. Forgotten' BY <1>1 DEF RelaxerIInv, TypeInv, Forgotten
<1>6. RefusedByFreshLimit' /\ MemoryIsShort'
  BY <1>1 DEF RelaxerIInv, RefusedByFreshLimit, MemoryIsShort, Hand
<1> QED BY <1>2, <1>3, <1>4, <1>5, <1>6 DEF RelaxerIInv

LEMMA RefusePreserves == RelaxerIInv /\ Refuse => RelaxerIInv'
<1> SUFFICES ASSUME RelaxerIInv, Refuse PROVE RelaxerIInv'
  OBVIOUS
<1> USE RelaxerAssumption
<1>1. PICK limit \in Limits : Learn(limit) BY DEF Refuse
<1>2. scaler' \in [Kinds -> Nat]
  <2>1. limit \in Nat BY DEF Limits, RelaxerIInv, TypeInv
  <2> QED BY <1>1, <2>1 DEF Learn, RelaxerIInv, TypeInv
<1>3. /\ place' = "raised" /\ error' = "value"
      /\ UNCHANGED <<kind, batch, work, answers>>
  BY DEF Refuse, Raises
<1>4. fresh' BY <1>1 DEF Refuse, Learn, RelaxerIInv, Forgotten
<1>5. TypeInv' BY <1>2, <1>3 DEF RelaxerIInv, TypeInv
<1>6. Coverage' /\ Handled' /\ Forgotten' /\ MemoryIsShort'
  BY <1>3 DEF Coverage, Handled, Forgotten, MemoryIsShort
<1>7. RefusedByFreshLimit' BY <1>4 DEF RefusedByFreshLimit
<1> QED BY <1>5, <1>6, <1>7 DEF RelaxerIInv

\* An evaluation fails: the call raises, or the part is tried again or halved.
LEMMA FailPreserves ==
  ASSUME RelaxerIInv, NEW e \in {"memory", "runtime", "other"}, Fail(e)
  PROVE  RelaxerIInv'
<1> USE RelaxerAssumption
<1>0. place = "running" BY DEF Fail
<1>1. /\ work \in Seq(Parts) /\ Len(work) > 0 /\ Len(answers) \in Nat
      /\ Hand = work[1] /\ Hand \in Parts /\ Hand.first = Len(answers) + 1
      /\ Hand.first <= Hand.last
  BY <1>0, InHand
<1>2. /\ ranOut' = (ranOut \/ e = "memory") /\ reprobed' = FALSE
      /\ UNCHANGED <<kind, batch, answers>>
  BY DEF Fail
<1>3. scaler' \in [Kinds -> Nat]
  <2>1. CASE UNCHANGED <<scaler, fresh>> BY <2>1 DEF RelaxerIInv, TypeInv
  <2>2. CASE \E limit \in Limits : ~TooLarge(limit) /\ Learn(limit)
    <3>1. PICK limit \in Limits : Learn(limit) BY <2>2
    <3>2. limit \in Nat BY DEF Limits, RelaxerIInv, TypeInv
    <3> QED BY <3>1, <3>2 DEF Learn, RelaxerIInv, TypeInv
  <2> QED BY <2>1, <2>2 DEF Fail
<1>4. OutOfMemory(e) => ranOut'
  BY <1>0, <1>2 DEF OutOfMemory, RelaxerIInv, Handled
<1>5. CASE ~OutOfMemory(e)
  <2>1. place' = "raised" /\ error' = e /\ work' = work /\ e # "memory" /\ error' # "value"
    BY <1>5 DEF Fail, Raises, OutOfMemory
  <2>2. TypeInv' BY <1>2, <1>3, <2>1 DEF RelaxerIInv, TypeInv
  <2> QED
    BY <2>1, <2>2 DEF RelaxerIInv, Coverage, Handled, Forgotten, RefusedByFreshLimit,
                      MemoryIsShort
<1>6. CASE OutOfMemory(e) /\ ~Hand.retry /\ Hand.first = Hand.last
  <2>1. place' = "raised" /\ error' = "memory" /\ work' = work
    BY <1>6 DEF Fail, Raises
  <2>2. TypeInv' BY <1>2, <1>3, <2>1 DEF RelaxerIInv, TypeInv
  <2>3. MemoryIsShort' BY <1>4, <1>6, <2>1 DEF MemoryIsShort, Hand
  <2> QED
    BY <2>1, <2>2, <2>3 DEF RelaxerIInv, Coverage, Handled, Forgotten, RefusedByFreshLimit
<1>7. CASE OutOfMemory(e) /\ (Hand.retry \/ Hand.first # Hand.last)
  <2>1. work' = Retried(Hand) \o Tail(work) /\ place' = "running"
    BY <1>0, <1>7 DEF Fail
  <2>2. Covers(work, Len(answers) + 1, Len(batch)) /\ Len(batch) \in Nat
    BY <1>0 DEF RelaxerIInv, TypeInv, Coverage
  <2>3. Covers(Retried(Hand), Len(answers) + 1, work[1].last)
    BY <1>1, <1>7, RetriedCovers
  <2>4. Len(answers) + 1 \in Nat \ {0} BY <1>1
  <2>5. Covers(work', Len(answers) + 1, Len(batch))
    BY <2>1, <2>2, <2>3, <2>4, CoverReplaced
  <2>6. Coverage'
    BY <1>0, <1>2, <2>1, <2>5 DEF RelaxerIInv, Coverage
  <2>7. TypeInv'
    BY <1>2, <1>3, <2>1, <2>5 DEF RelaxerIInv, TypeInv, Covers
  <2>8. Handled' BY <1>4, <1>7 DEF Handled
  <2> QED
    BY <1>2, <2>1, <2>6, <2>7, <2>8 DEF RelaxerIInv, Forgotten, RefusedByFreshLimit,
                                        MemoryIsShort
<1> QED BY <1>5, <1>6, <1>7

\* Nothing happens.
LEMMA StutterPreserves == RelaxerIInv /\ UNCHANGED relaxerVars => RelaxerIInv'
<1> SUFFICES ASSUME RelaxerIInv, UNCHANGED relaxerVars PROVE RelaxerIInv'
  OBVIOUS
<1> USE DEF relaxerVars, callVars
<1>1. TypeInv' /\ Coverage' BY DEF RelaxerIInv, TypeInv, Coverage
<1>2. Handled' /\ Forgotten' BY DEF RelaxerIInv, Handled, Forgotten, InHandler, Hand
<1>3. RefusedByFreshLimit' /\ MemoryIsShort'
  BY DEF RelaxerIInv, RefusedByFreshLimit, MemoryIsShort, Hand
<1> QED BY <1>1, <1>2, <1>3 DEF RelaxerIInv

-----------------------------------------------------------------------------
\* The invariant holds in every reachable state.
THEOREM RelaxerInvariance == RelaxerSpec => []RelaxerIInv
<1>1. ASSUME RelaxerIInv, [RelaxerNext]_relaxerVars PROVE RelaxerIInv'
  <2>1. CASE Call BY <1>1, <2>1, CallPreserves
  <2>2. CASE Evaluate BY <1>1, <2>2, EvaluatePreserves
  <2>3. CASE Reprobe BY <1>1, <2>3, ReprobePreserves
  <2>4. CASE Refuse BY <1>1, <2>4, RefusePreserves
  <2>5. CASE \E e \in {"memory", "runtime", "other"} : Fail(e)
    BY <1>1, <2>5, FailPreserves
  <2>6. CASE UNCHANGED relaxerVars BY <1>1, <2>6, StutterPreserves
  <2> QED BY <1>1, <2>1, <2>2, <2>3, <2>4, <2>5, <2>6 DEF RelaxerNext, Attempt, Finished
<1> QED BY <1>1, InitHolds, PTL DEF RelaxerSpec

\* A call that returns answers every structure of its batch once and in its
\* place, for batches of every size, split as often as memory demands.
THEOREM InOrder == RelaxerSpec => []AnswersInOrder
<1>1. RelaxerIInv => AnswersInOrder BY DEF RelaxerIInv, Coverage, AnswersInOrder
<1> QED BY <1>1, RelaxerInvariance, PTL

\* Only a limit that was estimated in the call refuses its batch.
THEOREM FreshLimit == RelaxerSpec => []RefusedByFreshLimit
<1>1. RelaxerIInv => RefusedByFreshLimit BY DEF RelaxerIInv
<1> QED BY <1>1, RelaxerInvariance, PTL

\* A call that reports the device full has seen it full, and stopped at one
\* structure tried alone.
THEOREM ShortMemory == RelaxerSpec => []MemoryIsShort
<1>1. RelaxerIInv => MemoryIsShort BY DEF RelaxerIInv
<1> QED BY <1>1, RelaxerInvariance, PTL
=============================================================================
