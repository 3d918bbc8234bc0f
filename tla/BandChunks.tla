----------------------------- MODULE BandChunks -----------------------------
(***************************************************************************)
(* Chunks of nudged elastic bands that share one fused force batch         *)
(* (ts_search/parallel_neb.py).  A band is an index, costs[band] its atoms *)
(* (images times atoms).  Bands are always taken in the order of their     *)
(* indices, so a chunk is the set of its bands.                            *)
(***************************************************************************)
EXTENDS Integers, Sequences, FiniteSets, FiniteSetsExt

\* The band does not fit what is left of the budget.  No budget: zero or less.
Opens(at, cost, budget) ==
  at.chunk = 0 \/ (budget > 0 /\ at.atoms + cost > budget)

\* The piece of the chunk has as many bands as it may.  No cap: zero or less.
IsFull(at, cap) == cap > 0 /\ at.size = cap

\* What taking the next index makes of the chunk before it: greedy and in order;
\* a band above the budget has a chunk of its own, and one that a cap cuts off
\* goes on in the same share of the budget.
Placed(at, i, bands, costs, budget, cap) ==
  IF i \notin bands THEN at
  ELSE IF Opens(at, costs[i], budget)
    THEN [chunk |-> at.chunk + 1, atoms |-> costs[i], size |-> 1]
  ELSE IF IsFull(at, cap)
    THEN [chunk |-> at.chunk + 1, atoms |-> at.atoms + costs[i], size |-> 1]
  ELSE [chunk |-> at.chunk, atoms |-> at.atoms + costs[i], size |-> at.size + 1]

\* After each index: the chunk its band is in (or the last one before), the
\* atoms counted against the budget, the bands of the chunk.
Filled(bands, costs, budget, cap) ==
  LET after[i \in 0..Len(costs)] ==
        IF i = 0 THEN [chunk |-> 0, atoms |-> 0, size |-> 0]
        ELSE Placed(after[i - 1], i, bands, costs, budget, cap)
  IN  after

ChunkBands(bands, costs, budget, cap) ==
  LET after == Filled(bands, costs, budget, cap)
  IN  [c \in 1..after[Len(costs)].chunk |-> {i \in bands : after[i].chunk = c}]

\* Out of memory: the chunk again, at half its own cost.
Halved(chunk, costs) ==
  LET half == MapThenSumSet(LAMBDA i : costs[i], chunk) \div 2
  IN  ChunkBands(chunk, costs, IF half > 1 THEN half ELSE 1, 0)
=============================================================================
