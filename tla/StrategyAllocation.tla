------------------------- MODULE StrategyAllocation -------------------------
(***************************************************************************)
(* How many of n structures of a batch come from templates, from seeds,    *)
(* from exact matches and from random placement                            *)
(* (scgo/initialization/strategy_allocation.py).                           *)
(*                                                                         *)
(* `options` says how many templates, seed combinations and exact matches  *)
(* there are.  What logarithmic scaling asks for, a real number cut off,   *)
(* is an argument: any natural number per strategy.                        *)
(***************************************************************************)
EXTENDS Integers, FiniteSetsExt

Strategies == {"template", "seed", "exact"}

Total(counts) == counts["template"] + counts["seed"] + counts["exact"]

\* A template is used once, a combination or an exact match at most twice.
Cap(options) ==
  [s \in Strategies |-> IF s = "template" THEN options[s] ELSE 2 * options[s]]

\* _calculate_target_allocations
Targets(raw, options, n) ==
  [s \in Strategies |-> Min({raw[s], n, Cap(options)[s]})]

\* _distribute_remaining: templates first, then seeds, then exact matches.
Distributed(targets, remaining, options) ==
  LET room == [s \in Strategies |-> Max({0, Cap(options)[s] - targets[s]})]
      t == Min({remaining, room["template"]})
      d == Min({remaining - t, room["seed"]})
      x == Min({remaining - t - d, room["exact"]})
  IN  [targets EXCEPT !["template"] = @ + t, !["seed"] = @ + d, !["exact"] = @ + x]

\* int(targets * scale) with scale = part / whole.
Scaled(targets, part, whole) ==
  [s \in Strategies |-> (targets[s] * part) \div whole]

\* What exceeds the guaranteed counts shares the slots they leave.
ScaledExcess(targets, guaranteed, n) ==
  LET excess == [s \in Strategies |-> targets[s] - guaranteed[s]]
      scaled == Scaled(excess, n - Total(guaranteed), Total(excess))
  IN  IF Total(guaranteed) = 0 \/ Total(guaranteed) > n \/ Total(excess) <= 0
        THEN targets
        ELSE [s \in Strategies |-> guaranteed[s] + scaled[s]]

\* Every option gets a slot when there are slots for all of them.
MutantNoGuarantee(options, n) == [s \in Strategies |-> 0]
Guaranteed(options, n) ==
  [s \in Strategies |-> IF n >= Total(options) THEN options[s] ELSE 0]

\* _apply_guarantees
WithGuarantees(targets, options, n) ==
  LET guaranteed == Guaranteed(options, n)
      raised == [s \in Strategies |-> Max({targets[s], guaranteed[s]})]
      once == ScaledExcess(raised, guaranteed, n)
      fitted == IF Total(once) > n THEN Scaled(once, n, Total(raised)) ELSE once
  IN  IF Total(raised) <= n THEN raised
      ELSE Distributed(fitted, n - Total(fitted), options)

\* _generate_allocations_list, as counts.  With n at least the number of
\* templates each is used once, whatever the target says.
Generated(targets, options, n) ==
  LET t == IF n >= options["template"] THEN options["template"] ELSE targets["template"]
      wanted == IF options["seed"] > 0 /\ n >= options["template"] + options["seed"]
                  THEN Max({targets["seed"], options["seed"]})
                  ELSE targets["seed"]
      d == Min({wanted, n - t})
      x == Min({targets["exact"], n - t - d})
  IN  [template |-> t, seed |-> d, exact |-> x, random |-> n - t - d - x]

\* _allocate_initialization_strategies
Allocated(raw, options, n) ==
  Generated(WithGuarantees(Targets(raw, options, n), options, n), options, n)

-----------------------------------------------------------------------------
\* A batch gets as many structures as were asked for, none by a strategy that
\* has no material and none beyond its cap; with room for all options each of
\* them has its slot, and nothing is left to chance while capped strategies
\* that asked for more than the batch have room.
CoversOptions(plan, raw, options, n) ==
  /\ plan["template"] + plan["seed"] + plan["exact"] + plan["random"] = n
  /\ plan["random"] >= 0
  /\ \A s \in Strategies : plan[s] \in 0..Cap(options)[s]
  /\ n >= Total(options) => \A s \in Strategies : plan[s] >= options[s]
  /\ Total(Targets(raw, options, n)) >= n => plan["random"] = 0
=============================================================================
