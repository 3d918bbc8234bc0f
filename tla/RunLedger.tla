------------------------------ MODULE RunLedger ------------------------------
(***************************************************************************)
(* What a run of the genetic algorithm promises about its candidates: they *)
(* are relaxed in batches, and a batch is stored as a whole or not at all. *)
(* A candidate is taken into a batch while it has no stored row, so it is  *)
(* stored once; a parent is stored; and the run returns only when every    *)
(* candidate is.  After a failure nothing more is stored.                  *)
(***************************************************************************)
EXTENDS Naturals

VARIABLES
  inserted,   \* the candidates are 1..inserted
  stored,     \* per candidate, its durable relaxed rows
  batch,      \* the candidates that are being stored
  parents,    \* the candidates in the population
  status      \* "open", "returned" or "failed"

runVars == <<inserted, stored, batch, parents, status>>

Candidates == 1..inserted

RunInit ==
  /\ inserted = 0 /\ stored = [g \in Candidates |-> 0]
  /\ batch = {} /\ parents = {} /\ status = "open"

\* More candidates, at any time.
InsertMore ==
  /\ status = "open"
  /\ inserted' \in Nat /\ inserted' > inserted
  /\ stored' = [g \in 1..inserted' |-> IF g \in Candidates THEN stored[g] ELSE 0]
  /\ UNCHANGED <<batch, parents, status>>

TakeBatch ==
  /\ status = "open" /\ batch = {}
  /\ batch' # {} /\ batch' \subseteq {g \in Candidates : stored[g] = 0}
  /\ UNCHANGED <<inserted, stored, parents, status>>

StoreBatch ==
  /\ status = "open" /\ batch # {}
  /\ stored' = [g \in Candidates |-> IF g \in batch THEN stored[g] + 1 ELSE stored[g]]
  /\ batch' = {} /\ parents' \subseteq parents \cup batch
  /\ UNCHANGED <<inserted, status>>

FoundPopulation ==
  /\ status = "open" /\ batch = {} /\ parents = {}
  /\ parents' \subseteq {g \in Candidates : stored[g] = 1}
  /\ UNCHANGED <<inserted, stored, batch, status>>

Return ==
  /\ status = "open" /\ batch = {}
  /\ \A g \in Candidates : stored[g] = 1
  /\ status' = "returned"
  /\ UNCHANGED <<inserted, stored, batch, parents>>

Fail ==
  /\ status = "open" /\ status' = "failed"
  /\ UNCHANGED <<inserted, stored, batch, parents>>

RunNext ==
  InsertMore \/ TakeBatch \/ StoreBatch \/ FoundPopulation \/ Return \/ Fail

RunSpec == RunInit /\ [][RunNext]_runVars
=============================================================================
