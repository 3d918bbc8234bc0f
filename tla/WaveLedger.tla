----------------------------- MODULE WaveLedger -----------------------------
(***************************************************************************)
(* What the double-buffered pipeline promises to the generation loop: the  *)
(* waves of offspring that were produced are committed one at a time, in   *)
(* the order of their production, none twice; production runs at most two  *)
(* waves ahead of the commits (one wave on the GPU, one being built); and  *)
(* a run ends successfully only when nothing it produced is outstanding.   *)
(* After a failure nothing more is committed.                              *)
(***************************************************************************)
EXTENDS Naturals, Sequences

VARIABLES
  produced,   \* number of non-empty waves produced so far
  log,        \* the committed waves, in the order of their commits
  outcome     \* "open", "finished" or "failed"

ledgerVars == <<produced, log, outcome>>

LedgerInit == produced = 0 /\ log = <<>> /\ outcome = "open"

ProduceNext ==
  /\ outcome = "open"
  /\ produced < Len(log) + 2
  /\ produced' = produced + 1
  /\ UNCHANGED <<log, outcome>>

CommitOldest ==
  /\ outcome = "open"
  /\ Len(log) < produced
  /\ log' = Append(log, Len(log) + 1)
  /\ UNCHANGED <<produced, outcome>>

Finish ==
  /\ outcome = "open"
  /\ Len(log) = produced
  /\ outcome' = "finished"
  /\ UNCHANGED <<produced, log>>

Fail ==
  /\ outcome = "open"
  /\ outcome' = "failed"
  /\ UNCHANGED <<produced, log>>

LedgerNext == ProduceNext \/ CommitOldest \/ Finish \/ Fail

LedgerSpec == LedgerInit /\ [][LedgerNext]_ledgerVars
=============================================================================
