----------------------------- MODULE SeedsProofs -----------------------------
(***************************************************************************)
(* Proofs about Seeds and StrategyAllocation.  First the allocation, for   *)
(* batches, options and scaled targets of any size: rounding down never    *)
(* exceeds what is to be shared (ScaledFits), targets fit in the batch and *)
(* keep the guarantees (GuaranteesFit), and the list made from them keeps  *)
(* both.  Then the scans, for any databases, targets, writes, evictions    *)
(* and failing reads: what both caches hold is what the databases held, as *)
(* long as their files have not changed since they were first met, and the *)
(* lowest minimum of a formula survives deduplication and the cap.  Last    *)
(* the cache that the threads of the process share, for any number of      *)
(* threads, keys and calls: the frames of a thread are nested; the marker  *)
(* of a key and the frame that owns it determine each other; whoever waits *)
(* waits for an event that is or will be set; every computation but one is *)
(* excused, that one standing for the entry or for a computation that is   *)
(* going to make the entry.  So nobody waits in a circle (NoDeadlock).     *)
(***************************************************************************)
EXTENDS Seeds, UnifiedCache, FiniteSetTheorems, NaturalsInduction, TLAPS

-----------------------------------------------------------------------------
(* The allocation. *)


Counts == [Strategies -> Nat]

\* Smallest and largest of a few integers.
LEMMA MinOfTwo ==
  ASSUME NEW a \in Int, NEW b \in Int
  PROVE  Min({a, b}) = IF a <= b THEN a ELSE b
  BY DEF Min

LEMMA MinOfThree ==
  ASSUME NEW a \in Int, NEW b \in Int, NEW c \in Int
  PROVE  Min({a, b, c}) = IF a <= b /\ a <= c THEN a ELSE IF b <= c THEN b ELSE c
  BY DEF Min

LEMMA MaxOfTwo ==
  ASSUME NEW a \in Int, NEW b \in Int
  PROVE  Max({a, b}) = IF a <= b THEN b ELSE a
  BY DEF Max

\* Counts have three natural numbers, and so has their total.
LEMMA CountsAreNaturals ==
  ASSUME NEW f \in Counts
  PROVE  /\ f["template"] \in Nat /\ f["seed"] \in Nat /\ f["exact"] \in Nat
         /\ Total(f) \in Nat
         /\ Total(f) = f["template"] + f["seed"] + f["exact"]
  BY DEF Counts, Strategies, Total

\* What \div returns.
LEMMA Quotient ==
  ASSUME NEW a \in Nat, NEW w \in Nat, w > 0
  PROVE  a \div w \in Nat /\ w * (a \div w) <= a
  OBVIOUS

\* A share scaled down is not larger than the share.
LEMMA ShareShrinks ==
  ASSUME NEW a \in Nat, NEW p \in Nat, NEW w \in Nat, w > 0, p <= w
  PROVE  (a * p) \div w \in Nat /\ (a * p) \div w <= a
<1> DEFINE q == (a * p) \div w
<1>1. q \in Nat /\ w * q <= a * p
  BY Quotient
<1>2. a * p <= a * w
  OBVIOUS
<1> HIDE DEF q
<1>3. w * q <= w * a
  BY <1>1, <1>2
<1>4. q <= a
  BY <1>1, <1>3
<1> QED BY <1>1, <1>4 DEF q

\* Shares of a whole, scaled down to a part of it, fit in the part.
LEMMA SharesFit ==
  ASSUME NEW a \in Nat, NEW b \in Nat, NEW c \in Nat, NEW p \in Nat,
         NEW x \in Nat, NEW y \in Nat, NEW z \in Nat, NEW w \in Nat,
         w > 0, w = a + b + c, w * x <= a * p, w * y <= b * p, w * z <= c * p
  PROVE  x + y + z <= p
<1>1. w * x + w * y + w * z <= a * p + b * p + c * p
  OBVIOUS
<1>2. w * (x + y + z) <= w * p
  BY <1>1
<1> QED BY <1>2

\* Rounding down: scaled counts do not grow and fit in the part.
LEMMA ScaledFits ==
  ASSUME NEW f \in Counts, NEW part \in Nat, Total(f) > 0, part <= Total(f)
  PROVE  /\ Scaled(f, part, Total(f)) \in Counts
         /\ \A s \in Strategies : Scaled(f, part, Total(f))[s] <= f[s]
         /\ Total(Scaled(f, part, Total(f))) <= part
<1> DEFINE w == Total(f)
           g == Scaled(f, part, w)
<1>1. w \in Nat /\ w > 0 /\ w = f["template"] + f["seed"] + f["exact"]
  BY CountsAreNaturals
<1>2. \A s \in Strategies :
        f[s] \in Nat /\ g[s] \in Nat /\ g[s] <= f[s] /\ w * g[s] <= f[s] * part
  <2> SUFFICES ASSUME NEW s \in Strategies
               PROVE  f[s] \in Nat /\ g[s] \in Nat /\ g[s] <= f[s]
                      /\ w * g[s] <= f[s] * part
    OBVIOUS
  <2>1. f[s] \in Nat
    BY DEF Counts
  <2>2. g[s] = (f[s] * part) \div w
    BY DEF Scaled
  <2> HIDE DEF w, g
  <2>3. f[s] * part \in Nat
    BY <2>1
  <2>4. g[s] \in Nat /\ w * g[s] <= f[s] * part
    BY <1>1, <2>2, <2>3, Quotient
  <2>5. g[s] <= f[s]
    BY <1>1, <2>1, <2>2, ShareShrinks DEF w
  <2> QED BY <2>1, <2>4, <2>5
<1>3. g \in Counts
  BY <1>2 DEF Counts, Scaled
<1> HIDE DEF w, g
<1>4. g["template"] + g["seed"] + g["exact"] <= part
  <2> DEFINE a == f["template"]
             b == f["seed"]
             c == f["exact"]
             x == g["template"]
             y == g["seed"]
             z == g["exact"]
  <2>1. /\ a \in Nat /\ b \in Nat /\ c \in Nat /\ x \in Nat /\ y \in Nat /\ z \in Nat
        /\ w * x <= a * part /\ w * y <= b * part /\ w * z <= c * part
        /\ w = a + b + c
    BY <1>1, <1>2 DEF Strategies
  <2> HIDE DEF a, b, c, x, y, z
  <2>2. x + y + z <= part
    BY <1>1, <2>1, SharesFit
  <2> QED  BY <2>2 DEF x, y, z
<1> QED BY <1>2, <1>3, <1>4 DEF g, w, Total

-----------------------------------------------------------------------------
\* The caps, and what scaling asks for below them.
LEMMA TargetsFit ==
  ASSUME NEW raw \in Counts, NEW options \in Counts, NEW n \in Nat
  PROVE  /\ Cap(options) \in Counts /\ Targets(raw, options, n) \in Counts
         /\ Cap(options)["template"] = options["template"]
         /\ Cap(options)["seed"] = 2 * options["seed"]
         /\ Cap(options)["exact"] = 2 * options["exact"]
         /\ \A s \in Strategies : Targets(raw, options, n)[s] <= Cap(options)[s]
<1>1. Cap(options) \in Counts
  BY DEF Cap, Counts
<1>2. \A s \in Strategies : /\ Targets(raw, options, n)[s] \in Nat
                            /\ Targets(raw, options, n)[s] <= Cap(options)[s]
  <2> SUFFICES ASSUME NEW s \in Strategies
               PROVE  /\ Targets(raw, options, n)[s] \in Nat
                      /\ Targets(raw, options, n)[s] <= Cap(options)[s]
    OBVIOUS
  <2>1. raw[s] \in Nat /\ Cap(options)[s] \in Nat
    BY <1>1 DEF Counts
  <2>2. Targets(raw, options, n)[s] = Min({raw[s], n, Cap(options)[s]})
    BY DEF Targets
  <2> QED BY <2>1, <2>2, MinOfThree
<1>3. Targets(raw, options, n) \in Counts
  BY <1>2 DEF Targets, Counts
<1> QED BY <1>1, <1>2, <1>3 DEF Cap, Strategies

\* A guarantee is a slot per option when there is room for them, and nothing
\* otherwise; either way it fits in the batch and under the caps.
LEMMA GuaranteeFits ==
  ASSUME NEW options \in Counts, NEW n \in Nat
  PROVE  /\ Guaranteed(options, n) \in Counts
         /\ Total(Guaranteed(options, n)) <= n
         /\ \A s \in Strategies : Guaranteed(options, n)[s] <= Cap(options)[s]
         /\ n >= Total(options) =>
              \A s \in Strategies : Guaranteed(options, n)[s] = options[s]
<1>1. Guaranteed(options, n) \in Counts
  BY DEF Guaranteed, Counts
<1>2. \A s \in Strategies : options[s] \in Nat
  BY DEF Counts
<1>3. \A s \in Strategies : Guaranteed(options, n)[s] <= Cap(options)[s]
  BY <1>2 DEF Guaranteed, Cap
<1>4. CASE n >= Total(options)
  BY <1>1, <1>3, <1>4, CountsAreNaturals DEF Guaranteed, Strategies, Total
<1>5. CASE ~(n >= Total(options))
  BY <1>1, <1>3, <1>5 DEF Guaranteed, Strategies, Total
<1> QED BY <1>4, <1>5

\* Scaling the excess keeps the guarantee; with a guarantee to keep, what is
\* left fits in the batch.
LEMMA ExcessFits ==
  ASSUME NEW r \in Counts, NEW g \in Counts, NEW n \in Nat,
         Total(r) > n, Total(g) <= n, \A s \in Strategies : g[s] <= r[s]
  PROVE  /\ ScaledExcess(r, g, n) \in Counts
         /\ \A s \in Strategies : /\ g[s] <= ScaledExcess(r, g, n)[s]
                                  /\ ScaledExcess(r, g, n)[s] <= r[s]
         /\ Total(g) # 0 => Total(ScaledExcess(r, g, n)) <= n
         /\ Total(g) = 0 => ScaledExcess(r, g, n) = r
<1> DEFINE e == [s \in Strategies |-> r[s] - g[s]]
           part == n - Total(g)
           d == Scaled(e, part, Total(e))
<1>1. \A s \in Strategies : r[s] \in Nat /\ g[s] \in Nat
  BY DEF Counts
<1>2. e \in Counts
  BY <1>1 DEF Counts
<1>3. /\ Total(e) = Total(r) - Total(g) /\ part \in Nat
      /\ Total(e) > 0 /\ part <= Total(e)
  <2>1. Total(e) = Total(r) - Total(g)
    BY <1>1 DEF Total, Strategies
  <2>2. Total(r) \in Nat /\ Total(g) \in Nat
    BY CountsAreNaturals
  <2> QED BY <2>1, <2>2
<1>4. /\ d \in Counts /\ \A s \in Strategies : d[s] <= e[s]
      /\ Total(d) <= part
  BY <1>2, <1>3, ScaledFits
<1>5. CASE Total(g) = 0
  BY <1>1, <1>5 DEF ScaledExcess, Counts
<1>6. CASE Total(g) # 0
  <2>1. ScaledExcess(r, g, n) = [s \in Strategies |-> g[s] + d[s]]
    <3>1. ~(Total(g) = 0 \/ Total(g) > n \/ Total(e) <= 0)
      BY <1>3, <1>6, CountsAreNaturals
    <3> QED BY <3>1 DEF ScaledExcess
  <2>2. \A s \in Strategies : d[s] \in Nat /\ e[s] = r[s] - g[s]
    BY <1>4 DEF Counts
  <2> HIDE DEF d, e
  <2>3. ScaledExcess(r, g, n) \in Counts
    BY <1>1, <2>1, <2>2 DEF Counts
  <2>4. \A s \in Strategies : /\ g[s] <= ScaledExcess(r, g, n)[s]
                              /\ ScaledExcess(r, g, n)[s] <= r[s]
    BY <1>1, <1>4, <2>1, <2>2
  <2>5. Total(ScaledExcess(r, g, n)) = Total(g) + Total(d)
    BY <1>1, <2>1, <2>2 DEF Total, Strategies
  <2>6. Total(ScaledExcess(r, g, n)) <= n
    BY <1>4, <2>5, CountsAreNaturals
  <2> QED BY <1>6, <2>3, <2>4, <2>6
<1> QED BY <1>5, <1>6

\* _distribute_remaining fills the batch when the caps allow it.
LEMMA DistributedFills ==
  ASSUME NEW options \in Counts, NEW f \in Counts, NEW n \in Nat,
         Total(f) <= n, n <= Total(Cap(options)), Cap(options) \in Counts,
         \A s \in Strategies : f[s] <= Cap(options)[s]
  PROVE  LET g == Distributed(f, n - Total(f), options)
         IN  /\ g \in Counts /\ Total(g) = n
             /\ \A s \in Strategies : f[s] <= g[s] /\ g[s] <= Cap(options)[s]
<1> DEFINE c == Cap(options)
           left == n - Total(f)
           room == [s \in Strategies |-> Max({0, c[s] - f[s]})]
           t == Min({left, room["template"]})
           d == Min({left - t, room["seed"]})
           x == Min({left - t - d, room["exact"]})
           g == Distributed(f, left, options)
<1>1. g = [f EXCEPT !["template"] = @ + t, !["seed"] = @ + d, !["exact"] = @ + x]
  BY DEF Distributed
<1>2. \A s \in Strategies : f[s] \in Nat /\ c[s] \in Nat
  BY DEF Counts
<1>3. \A s \in Strategies : room[s] = c[s] - f[s] /\ room[s] \in Nat
  BY <1>2, MaxOfTwo
<1>4. left \in Nat /\ Total(f) = f["template"] + f["seed"] + f["exact"]
  BY CountsAreNaturals
<1>5. left <= room["template"] + room["seed"] + room["exact"]
  BY <1>2, <1>3, <1>4 DEF Total, Strategies
<1> HIDE DEF room, left, c
<1>6. t \in Nat /\ t <= left /\ t <= room["template"]
      /\ (t = left \/ t = room["template"])
  BY <1>3, <1>4, MinOfTwo DEF Strategies
<1>7. d \in Nat /\ d <= left - t /\ d <= room["seed"]
      /\ (d = left - t \/ d = room["seed"])
  BY <1>3, <1>4, <1>6, MinOfTwo DEF Strategies
<1>8. x \in Nat /\ x <= left - t - d /\ x <= room["exact"]
      /\ (x = left - t - d \/ x = room["exact"])
  BY <1>3, <1>4, <1>6, <1>7, MinOfTwo DEF Strategies
<1> HIDE DEF t, d, x
<1>9. t + d + x = left
  BY <1>3, <1>4, <1>5, <1>6, <1>7, <1>8 DEF Strategies
<1>10. /\ g["template"] = f["template"] + t /\ g["seed"] = f["seed"] + d
       /\ g["exact"] = f["exact"] + x /\ DOMAIN g = Strategies
  BY <1>1 DEF Counts, Strategies
<1> HIDE DEF g
<1>11. g \in Counts
  <2>1. \A s \in Strategies : g[s] \in Nat
    BY <1>2, <1>6, <1>7, <1>8, <1>10 DEF Strategies
  <2>2. g = [s \in Strategies |-> g[s]]
    BY <1>1 DEF g, Distributed, Counts
  <2> QED BY <2>1, <2>2 DEF Counts
<1>12. Total(g) = n
  BY <1>2, <1>4, <1>6, <1>7, <1>8, <1>9, <1>10 DEF Total, left, Strategies
<1>13. \A s \in Strategies : f[s] <= g[s] /\ g[s] <= c[s]
  BY <1>2, <1>3, <1>6, <1>7, <1>8, <1>10 DEF Strategies
<1> QED BY <1>11, <1>12, <1>13 DEF g, left, c

\* _apply_guarantees: the targets fit in the batch and under the caps, keep
\* the guarantee, and fill a batch that is smaller than what was asked for.
LEMMA GuaranteesFit ==
  ASSUME NEW targets \in Counts, NEW options \in Counts, NEW n \in Nat,
         Cap(options) \in Counts,
         \A s \in Strategies : targets[s] <= Cap(options)[s]
  PROVE  LET w == WithGuarantees(targets, options, n)
         IN  /\ w \in Counts /\ Total(w) <= n
             /\ \A s \in Strategies : /\ Guaranteed(options, n)[s] <= w[s]
                                      /\ w[s] <= Cap(options)[s]
             /\ Total(targets) >= n => Total(w) = n
<1> DEFINE g == Guaranteed(options, n)
           c == Cap(options)
           r == [s \in Strategies |-> Max({targets[s], g[s]})]
           once == ScaledExcess(r, g, n)
           fitted == IF Total(once) > n THEN Scaled(once, n, Total(r)) ELSE once
           w == WithGuarantees(targets, options, n)
<1>1. /\ g \in Counts /\ Total(g) <= n /\ \A s \in Strategies : g[s] <= c[s]
  BY GuaranteeFits
<1>2. \A s \in Strategies : targets[s] \in Nat /\ g[s] \in Nat /\ c[s] \in Nat
  BY <1>1 DEF Counts
<1>3. w = IF Total(r) <= n THEN r ELSE Distributed(fitted, n - Total(fitted), options)
  BY DEF WithGuarantees
<1> HIDE DEF g, c, w
<1>4. \A s \in Strategies :
        /\ r[s] \in Nat /\ targets[s] <= r[s] /\ g[s] <= r[s] /\ r[s] <= c[s]
  BY <1>1, <1>2, MaxOfTwo DEF c
<1>5. r \in Counts
  BY <1>4 DEF Counts
<1> HIDE DEF r
<1>6. Total(targets) \in Nat /\ Total(r) \in Nat /\ Total(c) \in Nat
  BY <1>5, CountsAreNaturals DEF c
<1>7. Total(targets) <= Total(r) /\ Total(r) <= Total(c)
  BY <1>2, <1>4 DEF Total, Strategies
<1>8. CASE Total(r) <= n
  BY <1>3, <1>4, <1>5, <1>6, <1>7, <1>8 DEF w, g, c
<1>9. CASE ~(Total(r) <= n)
  <2>1. Total(r) > n
    BY <1>6, <1>9
  <2>2. /\ once \in Counts
        /\ \A s \in Strategies : g[s] <= once[s] /\ once[s] <= r[s]
        /\ Total(g) # 0 => Total(once) <= n
        /\ Total(g) = 0 => once = r
    BY <1>1, <1>4, <1>5, <2>1, ExcessFits
  <2> HIDE DEF once
  <2>3. /\ fitted \in Counts /\ Total(fitted) <= n
        /\ \A s \in Strategies : g[s] <= fitted[s] /\ fitted[s] <= r[s]
    <3>1. CASE Total(once) > n
      <4>1. Total(g) = 0 /\ once = r
        BY <2>2, <3>1, <1>1, CountsAreNaturals
      <4>2. fitted = Scaled(r, n, Total(r)) /\ Total(r) > 0 /\ n <= Total(r)
        BY <1>6, <2>1, <3>1, <4>1
      <4>3. /\ fitted \in Counts /\ Total(fitted) <= n
            /\ \A s \in Strategies : fitted[s] <= r[s]
        BY <1>5, <4>2, ScaledFits
      <4> HIDE DEF fitted
      <4>4. \A s \in Strategies : fitted[s] \in Nat
        BY <4>3 DEF Counts
      <4>5. \A s \in Strategies : g[s] = 0
        <5>1. /\ g["template"] \in Nat /\ g["seed"] \in Nat /\ g["exact"] \in Nat
              /\ g["template"] + g["seed"] + g["exact"] = 0
          BY <1>1, <4>1, CountsAreNaturals
        <5>2. g["template"] = 0 /\ g["seed"] = 0 /\ g["exact"] = 0
          BY <5>1
        <5> QED BY <5>2 DEF Strategies
      <4> QED BY <4>3, <4>4, <4>5
    <3>2. CASE ~(Total(once) > n)
      BY <2>2, <3>2, CountsAreNaturals
    <3> QED BY <3>1, <3>2
  <2> HIDE DEF fitted
  <2>4. \A s \in Strategies : fitted[s] \in Nat /\ fitted[s] <= c[s]
    BY <1>2, <1>4, <2>3 DEF Counts
  <2>5. n <= Total(c)
    BY <1>6, <1>7, <2>1
  <2>6. /\ w \in Counts /\ Total(w) = n
        /\ \A s \in Strategies : fitted[s] <= w[s] /\ w[s] <= c[s]
    BY <1>3, <1>9, <2>3, <2>4, <2>5, DistributedFills DEF c
  <2>7. \A s \in Strategies : g[s] <= w[s]
    BY <1>2, <2>3, <2>4, <2>6 DEF Counts
  <2> QED BY <2>6, <2>7 DEF w, g, c
<1> QED BY <1>8, <1>9

\* A batch of any size gets all its structures, none by a strategy without
\* material or beyond its cap, a slot for every option when there is room for
\* all, and random structures only where nothing else was asked for
\* (_allocate_initialization_strategies).
THEOREM BatchesCoverOptions ==
  ASSUME NEW raw \in Counts, NEW options \in Counts, NEW n \in Nat
  PROVE  CoversOptions(Allocated(raw, options, n), raw, options, n)
<1> DEFINE targets == Targets(raw, options, n)
           w == WithGuarantees(targets, options, n)
           T == options["template"]
           D == options["seed"]
           X == options["exact"]
           t == IF n >= T THEN T ELSE w["template"]
           wanted == IF D > 0 /\ n >= T + D THEN Max({w["seed"], D}) ELSE w["seed"]
           d == Min({wanted, n - t})
           x == Min({w["exact"], n - t - d})
           plan == Allocated(raw, options, n)
<1>1. /\ targets \in Counts /\ Cap(options) \in Counts
      /\ Cap(options)["template"] = T /\ Cap(options)["seed"] = 2 * D
      /\ Cap(options)["exact"] = 2 * X
      /\ \A s \in Strategies : targets[s] <= Cap(options)[s]
  BY TargetsFit
<1>2. T \in Nat /\ D \in Nat /\ X \in Nat /\ Total(options) = T + D + X
  BY CountsAreNaturals
<1>3. /\ w \in Counts /\ Total(w) <= n
      /\ \A s \in Strategies : /\ Guaranteed(options, n)[s] <= w[s]
                               /\ w[s] <= Cap(options)[s]
      /\ Total(targets) >= n => Total(w) = n
  BY <1>1, GuaranteesFit
<1>4. plan = [template |-> t, seed |-> d, exact |-> x, random |-> n - t - d - x]
  BY DEF Allocated, Generated
<1> HIDE DEF targets, w, T, D, X
<1>5. /\ w["template"] \in Nat /\ w["seed"] \in Nat /\ w["exact"] \in Nat
      /\ Total(w) = w["template"] + w["seed"] + w["exact"]
      /\ w["template"] <= T /\ w["seed"] <= 2 * D /\ w["exact"] <= 2 * X
  BY <1>1, <1>3, CountsAreNaturals DEF Strategies
<1>6. t \in Nat /\ w["template"] <= t /\ t <= T /\ t <= n
  BY <1>2, <1>3, <1>5
<1>7. wanted \in Nat /\ w["seed"] <= wanted /\ wanted <= 2 * D
  BY <1>2, <1>5, MaxOfTwo
<1> HIDE DEF t, wanted
<1>8. d \in Nat /\ d <= wanted /\ d <= n - t /\ (d = wanted \/ d = n - t)
  BY <1>6, <1>7, MinOfTwo
<1> HIDE DEF d
<1>9. x \in Nat /\ x <= w["exact"] /\ x <= n - t - d
      /\ (x = w["exact"] \/ x = n - t - d)
  BY <1>5, <1>6, <1>8, MinOfTwo
<1> HIDE DEF x
<1>10. t + d + x + (n - t - d - x) = n /\ n - t - d - x >= 0
  BY <1>6, <1>8, <1>9
<1>11. t \in 0..T /\ d \in 0..(2 * D) /\ x \in 0..(2 * X)
  BY <1>2, <1>5, <1>6, <1>7, <1>8, <1>9
<1>12. n >= Total(options) => t >= T /\ d >= D /\ x >= X
  <2> SUFFICES ASSUME n >= Total(options)
               PROVE  t >= T /\ d >= D /\ x >= X
    OBVIOUS
  <2>1. w["template"] >= T /\ w["seed"] >= D /\ w["exact"] >= X
    BY <1>2, <1>3, GuaranteeFits DEF Strategies, T, D, X
  <2>2. t = T /\ wanted = w["seed"]
    BY <1>2, <1>5, <2>1, MaxOfTwo DEF t, wanted
  <2>3. n - t - w["seed"] >= w["exact"]
    BY <1>2, <1>3, <1>5, <2>1, <2>2
  <2> QED BY <1>2, <1>5, <1>6, <1>8, <1>9, <2>1, <2>2, <2>3
<1>13. Total(targets) >= n => n - t - d - x = 0
  <2> SUFFICES ASSUME Total(targets) >= n
               PROVE  n - t - d - x = 0
    OBVIOUS
  <2>1. w["template"] + w["seed"] + w["exact"] = n
    BY <1>3, <1>5
  <2> QED BY <1>5, <1>6, <1>7, <1>8, <1>9, <2>1
<1>14. /\ plan["template"] = t /\ plan["seed"] = d /\ plan["exact"] = x
       /\ plan["random"] = n - t - d - x
  BY <1>4
<1> HIDE DEF plan
<1>15. \A s \in Strategies : plan[s] \in 0..Cap(options)[s]
  BY <1>1, <1>11, <1>14 DEF Strategies
<1>16. n >= Total(options) => \A s \in Strategies : plan[s] >= options[s]
  BY <1>12, <1>14 DEF Strategies, T, D, X
<1> QED
  BY <1>10, <1>13, <1>14, <1>15, <1>16 DEF CoversOptions, targets, plan

-----------------------------------------------------------------------------
(* The inductive invariant of the scans. *)

Minimum(m) ==
  /\ m = [comp |-> m.comp, energy |-> m.energy, shape |-> m.shape]
  /\ m.energy \in Int /\ m.shape \in Int

Minima(S) == IsFiniteSet(S) /\ \A m \in S : Minimum(m)

\* Among `some` there is something as low as each of `known` that fits.
Represents(some, known, t) ==
  \A m \in known : Fits(m, t) =>
    \E a \in some : a.comp = m.comp /\ a.energy <= m.energy

TypeOK ==
  /\ mtime \in [Databases -> Nat] /\ memo \in [Databases -> Nat]
  /\ finals = [db \in Databases |-> finals[db]]
  /\ files = [db \in Databases |-> files[db]]
  /\ scans = [t \in Goals |-> scans[t]]
  /\ pc \in {"idle", "read", "plan"}

\* An entry per file is for a file that was met, and is what its database holds
\* until this changes.
FileFits(db) ==
  /\ finals[db] \subseteq Findable[db] /\ memo[db] <= mtime[db]
  /\ files[db] # None =>
       /\ memo[db] # 0 /\ files[db].finals \subseteq Findable[db]
       /\ db \notin failed /\ mtime[db] = memo[db] => files[db].finals = finals[db]

\* An entry per target represents what its databases hold until this changes.
EntryFits(t) ==
  scans[t] # None =>
    /\ Minima(scans[t].answer)
    /\ \A db \in DOMAIN scans[t].signature \ failed :
         /\ db \in Databases /\ memo[db] # 0
         /\ scans[t].signature[db] = memo[db] /\ mtime[db] = memo[db] =>
              Represents(scans[t].answer, finals[db], t)

\* A scan has what the databases it has read held when it began, or they have
\* changed since this process first met them.
ReadFits ==
  pc = "read" =>
    /\ goal \in Goals /\ todo \subseteq DOMAIN signature /\ Minima(gathered)
    /\ \A db \in DOMAIN signature :
         /\ db \in Databases /\ signature[db] \in Nat \ {0} /\ signature[db] <= mtime[db]
         /\ start[db] \subseteq finals[db]
         /\ mtime[db] = signature[db] => finals[db] = start[db]
         /\ db \notin todo => memo[db] # 0
         /\ db \notin failed /\ signature[db] = memo[db] =>
              /\ files[db] # None => start[db] \subseteq files[db].finals
              /\ db \notin todo => \A m \in start[db] : Fits(m, goal) => m \in gathered

\* So does what it returns.
PlanFits ==
  pc = "plan" =>
    /\ Minima(answer)
    /\ \A db \in DOMAIN signature \ failed :
         signature[db] = memo[db] => Represents(answer, start[db], goal)

IInv ==
  /\ TypeOK /\ ReadFits /\ PlanFits
  /\ \A db \in Databases : FileFits(db)
  /\ \A t \in Goals : EntryFits(t)

-----------------------------------------------------------------------------
(* What survives deduplication and the cap. *)

\* Ahead orders minima completely.
LEMMA AheadFacts ==
  ASSUME NEW a, NEW b, NEW c, Minimum(a), Minimum(b), Minimum(c)
  PROVE  /\ Ahead(a, b) \/ Ahead(b, a)
         /\ Ahead(a, a)
         /\ Ahead(a, b) /\ Ahead(b, c) => Ahead(a, c)
         /\ Ahead(a, b) => a.energy <= b.energy
         /\ Ahead(a, b) /\ Ahead(b, a) /\ a.comp = b.comp => a = b
  BY DEF Minimum, Ahead

\* Of finitely many minima one is ahead of all: the one with the fewest ahead.
LEMMA LowestExists ==
  ASSUME NEW B, Minima(B), B # {}
  PROVE  \E a \in B : \A o \in B : Ahead(a, o)
PROOF
  <1> DEFINE Lower(x) == {y \in B : Ahead(y, x)}
             T == {Cardinality(Lower(x)) : x \in B}
  <1>1. \A x \in B : IsFiniteSet(Lower(x)) /\ Cardinality(Lower(x)) \in Nat
    BY FS_Subset, FS_CardinalityType DEF Minima
  <1>2. T \in SUBSET Nat /\ T # {}
    <2> HIDE DEF Lower
    <2> QED  BY <1>1
  <1>3. PICK n \in T : \A m \in T : ~ (<<m, n>> \in OpToRel(<, Nat))
    <2> HIDE DEF T
    <2> QED  BY <1>2, NatLessThanWellFounded, WFMin, Zenon
  <1>4. \A m \in T : ~ (m < n)
    <2> HIDE DEF T
    <2> QED  BY <1>2, <1>3, Zenon DEF OpToRel
  <1>5. PICK a \in B : n = Cardinality(Lower(a))
    OBVIOUS
  <1>6. ASSUME NEW o \in B, ~Ahead(a, o)  PROVE FALSE
    <2>1. Minimum(a) /\ Minimum(o) /\ \A y \in B : Minimum(y)  BY DEF Minima
    <2>2. Ahead(o, a)  BY <1>6, <2>1, AheadFacts
    <2>3. Lower(o) \in SUBSET Lower(a)
      BY <2>1, <2>2, AheadFacts
    <2>4. a \in Lower(a) /\ a \notin Lower(o)
      BY <1>6, <2>1, AheadFacts
    <2>5. Cardinality(Lower(o)) \in T  OBVIOUS
    <2> HIDE DEF Lower, T
    <2>6. Cardinality(Lower(o)) <= Cardinality(Lower(a))
          /\ Cardinality(Lower(o)) # Cardinality(Lower(a))
      BY <1>1, <2>3, <2>4, FS_Subset
    <2> QED  BY <1>1, <1>4, <1>5, <2>5, <2>6
  <1> QED  BY <1>6

\* The lowest minimum of a formula is its own first of a shape in its bin, and
\* the first of those that are left.
LEMMA LowestSurvives ==
  ASSUME NEW B, Minima(B), B # {}, \A a, b \in B : a.comp = b.comp
  PROVE  \E a \in Postprocessed(B) : \A o \in B : a.energy <= o.energy
PROOF
  <1> DEFINE kept == Deduplicated(B)
  <1>1. PICK a \in B : \A o \in B : Ahead(a, o)
    BY LowestExists
  <1>2. a \in kept /\ kept \subseteq B
    BY <1>1 DEF Deduplicated
  <1> HIDE DEF kept
  <1>3. {o \in kept : Ahead(o, a)} = {a}
    <2>1. ASSUME NEW o \in kept, Ahead(o, a)  PROVE o = a
      <3>1. o \in B /\ Minimum(o) /\ Minimum(a) /\ Ahead(a, o) /\ a.comp = o.comp
        BY <1>1, <1>2 DEF Minima
      <3> QED  BY <2>1, <3>1, AheadFacts
    <2>2. Ahead(a, a)  BY <1>1
    <2> QED  BY <1>2, <2>1, <2>2
  <1>4. Cardinality({o \in kept : Ahead(o, a)}) = 1
    BY <1>3, FS_Singleton
  <1>5. a \in Postprocessed(B)
    BY <1>2, <1>4, SeedsAssumption DEF Postprocessed, kept
  <1>6. \A o \in B : a.energy <= o.energy
    BY <1>1, AheadFacts DEF Minima
  <1> QED  BY <1>5, <1>6

\* What a scan returns for what it gathered.
Answers(found) ==
  UNION {Postprocessed({m \in found : m.comp = formula}) : formula \in {m.comp : m \in found}}

\* It is minima that were gathered, and something as low as each of these.
LEMMA AnswerFacts ==
  ASSUME NEW found, Minima(found)
  PROVE  /\ Minima(Answers(found)) /\ Answers(found) \subseteq found
         /\ \A m \in found : \E a \in Answers(found) : a.comp = m.comp /\ a.energy <= m.energy
PROOF
  <1> DEFINE B(formula) == {m \in found : m.comp = formula}
             result == Answers(found)
  <1>0. result = UNION {Postprocessed(B(formula)) : formula \in {m.comp : m \in found}}
    BY DEF Answers
  <1> HIDE DEF result
  <1>1. \A formula : Postprocessed(B(formula)) \subseteq B(formula)
    BY DEF Postprocessed, Deduplicated
  <1>2. result \subseteq found
    <2> SUFFICES ASSUME NEW m \in result  PROVE m \in found
      OBVIOUS
    <2>1. PICK formula : m \in Postprocessed(B(formula))  BY <1>0
    <2>2. m \in B(formula)  BY <1>1, <2>1
    <2> QED  BY <2>2
  <1>3. Minima(result)
    BY <1>2, FS_Subset DEF Minima
  <1>4. ASSUME NEW m \in found
        PROVE  \E a \in result : a.comp = m.comp /\ a.energy <= m.energy
    <2> DEFINE bucket == B(m.comp)
    <2>1. m \in bucket /\ \A a, b \in bucket : a.comp = b.comp  OBVIOUS
    <2>2. Minima(bucket)  BY FS_Subset DEF Minima
    <2>3. Postprocessed(bucket) \subseteq result  BY <1>0
    <2>4. \A a \in Postprocessed(bucket) : a.comp = m.comp  BY <1>1
    <2> HIDE DEF bucket
    <2>5. PICK a \in Postprocessed(bucket) : \A o \in bucket : a.energy <= o.energy
      BY <2>1, <2>2, LowestSurvives
    <2> QED  BY <2>1, <2>3, <2>4, <2>5
  <1> QED  BY <1>2, <1>3, <1>4 DEF result

-----------------------------------------------------------------------------
(* The invariant, action by action. *)

\* A search writes to its database, or tags its final minima: the file is newer
\* than what is known of it.
LEMMA TouchKeeps ==
  ASSUME IInv, NEW db \in Databases, Write(db) \/ TagFinals(db)
  PROVE  IInv'
PROOF
  <1>1. /\ TypeOK /\ ReadFits /\ PlanFits
        /\ \A d \in Databases : FileFits(d) /\ mtime[d] \in Nat /\ memo[d] \in Nat
        /\ \A t \in Goals : EntryFits(t)
    BY DEF IInv, TypeOK
  <1>2. /\ mtime' = [mtime EXCEPT ![db] = @ + 1]
        /\ UNCHANGED <<memo, files, scans, goal, signature, todo, gathered, answer, start, pc,
                       failed>>
    BY DEF Write, TagFinals, Touch, cacheVars, scanVars
  <1>3. PICK more \in SUBSET Findable[db] :
          finals' = [finals EXCEPT ![db] = @ \cup more] \/ (more = {} /\ finals' = finals)
    BY DEF Write, TagFinals
  <1>4. /\ mtime'[db] = mtime[db] + 1 /\ finals[db] \subseteq finals'[db]
        /\ finals'[db] \subseteq Findable[db]
        /\ \A d \in Databases \ {db} : mtime'[d] = mtime[d] /\ finals'[d] = finals[d]
    <2>1. finals[db] \subseteq Findable[db]  BY <1>1 DEF FileFits
    <2>2. mtime'[db] = mtime[db] + 1 /\ \A d \in Databases \ {db} : mtime'[d] = mtime[d]
      BY <1>1, <1>2 DEF TypeOK
    <2>3. CASE finals' = [finals EXCEPT ![db] = @ \cup more]
      <3>1. finals'[db] = finals[db] \cup more
            /\ \A d \in Databases \ {db} : finals'[d] = finals[d]
        BY <1>1, <2>3 DEF TypeOK
      <3> QED  BY <2>1, <2>2, <3>1
    <2>4. CASE finals' = finals  BY <2>1, <2>2, <2>4
    <2> QED  BY <1>3, <2>3, <2>4
  <1>5. TypeOK'
    <2>1. mtime' \in [Databases -> Nat]
      <3> DEFINE later == mtime[db] + 1
      <3>1. later \in Nat /\ mtime' = [mtime EXCEPT ![db] = later]  BY <1>1, <1>2
      <3> HIDE DEF later
      <3> QED  BY <1>1, <3>1 DEF TypeOK
    <2>2. finals' = [d \in Databases |-> finals'[d]]
      BY <1>1, <1>3 DEF TypeOK
    <2> QED  BY <1>1, <1>2, <2>1, <2>2 DEF TypeOK
  <1>6. \A d \in Databases : mtime[d] <= mtime'[d] /\ finals[d] \subseteq finals'[d]
    <2> SUFFICES ASSUME NEW d \in Databases
                 PROVE  mtime[d] <= mtime'[d] /\ finals[d] \subseteq finals'[d]
      OBVIOUS
    <2>1. mtime[d] \in Nat  BY <1>1
    <2> QED  BY <1>4, <2>1
  <1>7. ASSUME NEW d \in Databases  PROVE FileFits(d)'
    <2>1. FileFits(d) /\ mtime[d] \in Nat /\ memo[d] \in Nat  BY <1>1
    <2>2. CASE d = db
      <3>1. memo[d] < mtime'[d]  BY <1>4, <2>1, <2>2 DEF FileFits
      <3> QED  BY <1>2, <1>4, <2>1, <2>2, <3>1 DEF FileFits
    <2>3. CASE d # db
      BY <1>2, <1>4, <2>1, <2>3 DEF FileFits
    <2> QED  BY <2>2, <2>3
  <1>8. ASSUME NEW t \in Goals  PROVE EntryFits(t)'
    <2>1. EntryFits(t)  BY <1>1
    <2>2. ASSUME scans[t] # None, NEW d \in DOMAIN scans[t].signature \ failed
          PROVE  /\ d \in Databases /\ memo[d] # 0
                 /\ scans[t].signature[d] = memo[d] /\ mtime'[d] = memo[d] =>
                      Represents(scans[t].answer, finals'[d], t)
      <3>1. /\ d \in Databases /\ memo[d] # 0
            /\ scans[t].signature[d] = memo[d] /\ mtime[d] = memo[d] =>
                      Represents(scans[t].answer, finals[d], t)
        BY <2>1, <2>2 DEF EntryFits
      <3>2. CASE d = db
        <4>1. mtime'[d] # memo[d]
          BY <1>1, <1>4, <3>2 DEF FileFits
        <4> QED  BY <3>1, <4>1
      <3>3. CASE d # db
        BY <1>4, <3>1, <3>3
      <3> QED  BY <3>2, <3>3
    <2> QED  BY <1>2, <2>1, <2>2 DEF EntryFits
  <1>9. ReadFits'
    <2> SUFFICES ASSUME pc = "read"  PROVE ReadFits'
      BY <1>2 DEF ReadFits
    <2>1. /\ goal \in Goals /\ todo \subseteq DOMAIN signature /\ Minima(gathered)
      BY DEF IInv, ReadFits
    <2>2. ASSUME NEW d \in DOMAIN signature
          PROVE  /\ d \in Databases /\ signature[d] \in Nat \ {0} /\ signature[d] <= mtime'[d]
                 /\ start[d] \subseteq finals'[d]
                 /\ mtime'[d] = signature[d] => finals'[d] = start[d]
                 /\ d \notin todo => memo[d] # 0
                 /\ d \notin failed /\ signature[d] = memo[d] =>
                      /\ files[d] # None => start[d] \subseteq files[d].finals
                      /\ d \notin todo => \A m \in start[d] : Fits(m, goal) => m \in gathered
      <3>1. /\ d \in Databases /\ signature[d] \in Nat \ {0} /\ signature[d] <= mtime[d]
            /\ start[d] \subseteq finals[d]
            /\ mtime[d] = signature[d] => finals[d] = start[d]
            /\ d \notin todo => memo[d] # 0
            /\ d \notin failed /\ signature[d] = memo[d] =>
                 /\ files[d] # None => start[d] \subseteq files[d].finals
                 /\ d \notin todo => \A m \in start[d] : Fits(m, goal) => m \in gathered
        BY <1>1 DEF ReadFits
      <3>2. mtime[d] \in Nat /\ mtime[d] <= mtime'[d] /\ finals[d] \subseteq finals'[d]
        BY <1>1, <1>6, <3>1
      <3>3. mtime'[d] \in Nat  BY <1>5, <3>1 DEF TypeOK
      <3>4. signature[d] <= mtime'[d]  BY <3>1, <3>2, <3>3
      <3>5. mtime'[d] = signature[d] => finals'[d] = start[d]
        <4>1. CASE d = db  BY <1>4, <3>1, <3>2, <4>1
        <4>2. CASE d # db  BY <1>4, <3>1, <4>2
        <4> QED  BY <4>1, <4>2
      <3> QED  BY <3>1, <3>2, <3>4, <3>5
    <2> QED  BY <1>2, <2>1, <2>2 DEF ReadFits
  <1>10. PlanFits'
    BY <1>1, <1>2 DEF PlanFits
  <1> QED  BY <1>5, <1>7, <1>8, <1>9, <1>10 DEF IInv

\* An entry goes: nothing is said of what is not there.
LEMMA EvictKeeps ==
  ASSUME IInv, Evict
  PROVE  IInv'
PROOF
  <1>1. /\ TypeOK /\ ReadFits /\ PlanFits /\ \A d \in Databases : FileFits(d)
        /\ \A t \in Goals : EntryFits(t)
    BY DEF IInv
  <1>2. UNCHANGED <<finals, mtime, memo, goal, signature, todo, gathered, answer, start, pc,
                    failed>>
    BY DEF Evict, envVars, scanVars
  <1>3. /\ files' = [d \in Databases |-> files'[d]] /\ scans' = [t \in Goals |-> scans'[t]]
        /\ \A d \in Databases : files'[d] = files[d] \/ files'[d] = None
        /\ \A t \in Goals : scans'[t] = scans[t] \/ scans'[t] = None
    BY <1>1 DEF Evict, TypeOK
  <1>4. TypeOK'  BY <1>1, <1>2, <1>3 DEF TypeOK
  <1>5. \A d \in Databases : FileFits(d)'  BY <1>1, <1>2, <1>3 DEF FileFits
  <1>6. \A t \in Goals : EntryFits(t)'  BY <1>1, <1>2, <1>3 DEF EntryFits
  <1>7. ReadFits'  BY <1>1, <1>2, <1>3 DEF ReadFits
  <1>8. PlanFits'  BY <1>1, <1>2 DEF PlanFits
  <1> QED  BY <1>4, <1>5, <1>6, <1>7, <1>8 DEF IInv

\* What the signature of a target says of a database.
LEMMA SignatureFacts ==
  ASSUME TypeOK, NEW t, NEW db \in DOMAIN Signature(t)
  PROVE  /\ db \in Databases /\ Signature(t)[db] = mtime[db]
         /\ mtime[db] \in Nat \ {0}
  BY DEF Signature, Concerned, TypeOK

\* The answer to this target is still good.
LEMMA HitKeeps ==
  ASSUME IInv, NEW t \in Goals, Hit(t)
  PROVE  IInv'
PROOF
  <1>1. /\ TypeOK /\ \A d \in Databases : FileFits(d)
        /\ \A u \in Goals : EntryFits(u)
    BY DEF IInv
  <1>2. /\ scans[t] # None /\ scans[t].signature = Signature(t)
        /\ goal' = t /\ signature' = Signature(t) /\ start' = finals
        /\ answer' = scans[t].answer /\ pc' = "plan"
        /\ UNCHANGED <<finals, mtime, memo, files, scans, failed>>
    BY DEF Hit, Begin, IsCurrent, envVars, cacheVars
  <1>3. TypeOK' /\ ReadFits'  BY <1>1, <1>2 DEF TypeOK, ReadFits
  <1>4. \A d \in Databases : FileFits(d)'  BY <1>1, <1>2 DEF FileFits
  <1>5. \A u \in Goals : EntryFits(u)'  BY <1>1, <1>2 DEF EntryFits
  <1>6. PlanFits'
    <2>1. EntryFits(t)  BY <1>1
    <2>2. ASSUME NEW d \in DOMAIN signature' \ failed, signature'[d] = memo[d]
          PROVE  Represents(answer', start'[d], goal')
      <3>1. mtime[d] = memo[d] /\ scans[t].signature[d] = memo[d]
        BY <1>1, <1>2, <2>2, SignatureFacts
      <3> QED  BY <1>2, <2>1, <2>2, <3>1 DEF EntryFits
    <2>3. Minima(answer')  BY <1>2, <2>1 DEF EntryFits
    <2> QED  BY <1>2, <2>2, <2>3 DEF PlanFits
  <1> QED  BY <1>3, <1>4, <1>5, <1>6 DEF IInv

\* A scan begins with nothing read.
LEMMA MissKeeps ==
  ASSUME IInv, NEW t \in Goals, Miss(t)
  PROVE  IInv'
PROOF
  <1>1. /\ TypeOK /\ \A d \in Databases : FileFits(d)
        /\ \A u \in Goals : EntryFits(u)
    BY DEF IInv
  <1>2. /\ goal' = t /\ signature' = Signature(t) /\ start' = finals
        /\ todo' = Concerned(t) /\ gathered' = {} /\ pc' = "read"
        /\ UNCHANGED <<finals, mtime, memo, files, scans, failed>>
    BY DEF Miss, Begin, envVars, cacheVars
  <1>3. TypeOK' /\ PlanFits'  BY <1>1, <1>2 DEF TypeOK, PlanFits
  <1>4. \A d \in Databases : FileFits(d)'  BY <1>1, <1>2 DEF FileFits
  <1>5. \A u \in Goals : EntryFits(u)'  BY <1>1, <1>2 DEF EntryFits
  <1>6. ReadFits'
    <2>1. Minima(gathered')  BY <1>2, FS_EmptySet DEF Minima
    <2>2. todo' = DOMAIN signature'  BY <1>2 DEF Signature
    <2>3. ASSUME NEW d \in DOMAIN signature'
          PROVE  /\ d \in Databases /\ signature'[d] \in Nat \ {0} /\ signature'[d] <= mtime[d]
                 /\ signature'[d] = memo[d] /\ d \notin failed /\ files[d] # None =>
                      start'[d] \subseteq files[d].finals
      <3>1. d \in Databases /\ signature'[d] = mtime[d] /\ mtime[d] \in Nat \ {0}
        BY <1>1, <1>2, SignatureFacts
      <3> QED  BY <1>1, <1>2, <3>1 DEF FileFits
    <2> QED  BY <1>2, <2>1, <2>2, <2>3 DEF ReadFits
  <1> QED  BY <1>3, <1>4, <1>5, <1>6 DEF IInv

\* A database is read, from the cache or from its file: unless the read fails,
\* nothing that it held when the scan began is missing.
LEMMA ReadDbKeeps ==
  ASSUME IInv, NEW db \in Databases, ReadDb(db)
  PROVE  IInv'
PROOF
  <1> DEFINE c == Canonical(db)
             read == {m \in files'[db].finals : Fits(m, goal)}
  <1>1. /\ TypeOK /\ \A d \in Databases : FileFits(d) /\ mtime[d] \in Nat /\ memo[d] \in Nat
        /\ \A t \in Goals : EntryFits(t)
    BY DEF IInv, TypeOK
  <1>2. /\ pc = "read" /\ db \in todo /\ todo' = todo \ {db}
        /\ memo' = [memo EXCEPT ![db] = c] /\ gathered' = gathered \cup read
        /\ UNCHANGED <<finals, mtime, scans, pc, goal, signature, answer, start>>
    BY DEF ReadDb, envVars
  <1>3. /\ goal \in Goals /\ todo \subseteq DOMAIN signature /\ Minima(gathered)
        /\ \A d \in DOMAIN signature :
             /\ d \in Databases /\ signature[d] \in Nat \ {0} /\ signature[d] <= mtime[d]
             /\ start[d] \subseteq finals[d]
             /\ mtime[d] = signature[d] => finals[d] = start[d]
             /\ d \notin todo => memo[d] # 0
             /\ d \notin failed /\ signature[d] = memo[d] =>
                  /\ files[d] # None => start[d] \subseteq files[d].finals
                  /\ d \notin todo => \A m \in start[d] : Fits(m, goal) => m \in gathered
    BY <1>2 DEF IInv, ReadFits
  <1>4. c \in Nat \ {0} /\ c <= mtime[db] /\ (memo[db] # 0 => c = memo[db])
    <2>1. signature[db] \in Nat \ {0} /\ signature[db] <= mtime[db]
      BY <1>2, <1>3
    <2>2. mtime[db] \in Nat \ {0} /\ memo[db] \in Nat /\ memo[db] <= mtime[db]
      BY <1>1, <2>1 DEF FileFits
    <2> QED  BY <2>2 DEF Canonical
  <1>5. \/ files[db] # None /\ files' = files /\ failed' = failed
        \/ /\ files' = [files EXCEPT ![db] = [mtime |-> c, finals |-> finals[db]]]
           /\ failed' = failed
        \/ /\ files' = [files EXCEPT ![db] = [mtime |-> c, finals |-> {}]]
           /\ failed' = failed \cup {db}
    BY DEF ReadDb, IsCached
  <1> HIDE DEF c
  <1>6. memo'[db] = c /\ \A d \in Databases \ {db} : memo'[d] = memo[d]
    BY <1>1, <1>2 DEF TypeOK
  <1>7. /\ files' = [d \in Databases |-> files'[d]] /\ failed \subseteq failed'
        /\ \A d \in Databases \ {db} :
             files'[d] = files[d] /\ (d \in failed' => d \in failed)
    BY <1>1, <1>5 DEF TypeOK
  <1>8. /\ files'[db].finals \subseteq Findable[db]
        /\ db \notin failed' /\ mtime[db] = c => files'[db].finals = finals[db]
        /\ db \notin failed' /\ signature[db] = c => start[db] \subseteq files'[db].finals
    <2>1. FileFits(db)  BY <1>1
    <2>2. CASE files[db] # None /\ files' = files /\ failed' = failed
      <3>1. c = memo[db]  BY <1>4, <2>1, <2>2 DEF FileFits
      <3> QED  BY <1>2, <1>3, <2>1, <2>2, <3>1 DEF FileFits
    <2>3. CASE /\ files' = [files EXCEPT ![db] = [mtime |-> c, finals |-> finals[db]]]
               /\ failed' = failed
      <3>1. files'[db] = [mtime |-> c, finals |-> finals[db]]  BY <1>1, <2>3 DEF TypeOK
      <3>2. files'[db].finals = finals[db]  BY <3>1
      <3> QED  BY <1>2, <1>3, <2>1, <3>2 DEF FileFits
    <2>4. CASE /\ files' = [files EXCEPT ![db] = [mtime |-> c, finals |-> {}]]
               /\ failed' = failed \cup {db}
      <3>1. files'[db] = [mtime |-> c, finals |-> {}]  BY <1>1, <2>4 DEF TypeOK
      <3>2. files'[db].finals = {}  BY <3>1
      <3> QED  BY <2>4, <3>2
    <2> QED  BY <1>5, <2>2, <2>3, <2>4
  <1>9. Minima(gathered')
    <2>1. read \subseteq Findable[db]  BY <1>8
    <2>2. IsFiniteSet(read) /\ \A m \in read : Minimum(m)
      BY <2>1, FS_Subset, SeedsAssumption DEF Minimum
    <2> HIDE DEF read
    <2>3. IsFiniteSet(gathered \cup read)
      BY <1>3, <2>2, FS_Union DEF Minima
    <2> QED  BY <1>2, <1>3, <2>2, <2>3 DEF Minima
  <1>10. \A m \in files'[db].finals : Fits(m, goal) => m \in gathered'
    BY <1>2
  <1>11. gathered \subseteq gathered'  BY <1>2
  <1> HIDE DEF read
  <1>12. TypeOK'
    <2>1. memo' \in [Databases -> Nat]
      BY <1>1, <1>2, <1>4 DEF TypeOK
    <2> QED  BY <1>1, <1>2, <1>7, <2>1 DEF TypeOK
  <1>13. ASSUME NEW d \in Databases  PROVE FileFits(d)'
    <2>1. FileFits(d)  BY <1>1
    <2>2. CASE d = db
      BY <1>2, <1>4, <1>6, <1>8, <2>1, <2>2 DEF FileFits
    <2>3. CASE d # db
      BY <1>2, <1>6, <1>7, <2>1, <2>3 DEF FileFits
    <2> QED  BY <2>2, <2>3
  <1>14. ASSUME NEW t \in Goals  PROVE EntryFits(t)'
    <2>1. EntryFits(t)  BY <1>1
    <2>2. ASSUME scans[t] # None, NEW d \in DOMAIN scans[t].signature \ failed'
          PROVE  /\ d \in Databases /\ memo'[d] # 0
                 /\ scans[t].signature[d] = memo'[d] /\ mtime[d] = memo'[d] =>
                      Represents(scans[t].answer, finals[d], t)
      <3>1. /\ d \in Databases /\ memo[d] # 0
            /\ scans[t].signature[d] = memo[d] /\ mtime[d] = memo[d] =>
                      Represents(scans[t].answer, finals[d], t)
        BY <1>7, <2>1, <2>2 DEF EntryFits
      <3>2. memo'[d] = memo[d]  BY <1>4, <1>6, <3>1
      <3> QED  BY <3>1, <3>2
    <2> QED  BY <1>2, <2>1, <2>2 DEF EntryFits
  <1>15. ReadFits'
    <2>1. todo' \subseteq DOMAIN signature  BY <1>2, <1>3
    <2>2. ASSUME NEW d \in DOMAIN signature
          PROVE  /\ d \in Databases /\ signature[d] \in Nat \ {0} /\ signature[d] <= mtime[d]
                 /\ start[d] \subseteq finals[d]
                 /\ mtime[d] = signature[d] => finals[d] = start[d]
                 /\ d \notin todo' => memo'[d] # 0
                 /\ d \notin failed' /\ signature[d] = memo'[d] =>
                      /\ files'[d] # None => start[d] \subseteq files'[d].finals
                      /\ d \notin todo' => \A m \in start[d] : Fits(m, goal) => m \in gathered'
      <3>1. CASE d = db
        BY <1>3, <1>4, <1>6, <1>8, <1>10, <3>1
      <3>2. CASE d # db
        <4>1. /\ d \in Databases /\ memo'[d] = memo[d] /\ files'[d] = files[d]
              /\ (d \notin todo' => d \notin todo) /\ (d \notin failed' => d \notin failed)
          BY <1>2, <1>3, <1>6, <1>7, <3>2
        <4> QED  BY <1>3, <1>11, <4>1
      <3> QED  BY <3>1, <3>2
    <2> QED  BY <1>2, <1>3, <1>9, <2>1, <2>2 DEF ReadFits
  <1>16. PlanFits'  BY <1>2 DEF PlanFits
  <1> QED  BY <1>12, <1>13, <1>14, <1>15, <1>16 DEF IInv

\* The scan ends: its answer is returned, and remembered for this target.
LEMMA EndScanKeeps ==
  ASSUME IInv, EndScan
  PROVE  IInv'
PROOF
  <1>1. /\ TypeOK /\ \A d \in Databases : FileFits(d)
        /\ \A t \in Goals : EntryFits(t)
    BY DEF IInv
  <1>2. /\ pc = "read" /\ todo = {} /\ pc' = "plan"
        /\ answer' = UNION {Postprocessed({m \in gathered : m.comp = formula}) :
                              formula \in {m.comp : m \in gathered}}
        /\ scans' = [scans EXCEPT ![goal] = [signature |-> signature, answer |-> answer']]
        /\ UNCHANGED <<finals, mtime, memo, files, goal, signature, start, failed>>
    BY DEF EndScan, envVars
  <1>3. /\ goal \in Goals /\ Minima(gathered)
        /\ \A d \in DOMAIN signature :
             /\ d \in Databases
             /\ mtime[d] = signature[d] => finals[d] = start[d]
             /\ memo[d] # 0
             /\ d \notin failed /\ signature[d] = memo[d] =>
                  \A m \in start[d] : Fits(m, goal) => m \in gathered
    BY <1>2 DEF IInv, ReadFits
  <1>4. /\ Minima(answer')
        /\ \A m \in gathered : \E a \in answer' : a.comp = m.comp /\ a.energy <= m.energy
    <2>1. Minima(gathered)  BY <1>3
    <2>2. answer' = Answers(gathered)  BY <1>2 DEF Answers
    <2> QED  BY <2>1, <2>2, AnswerFacts
  <1>5. \A d \in DOMAIN signature \ failed :
          signature[d] = memo[d] => Represents(answer', start[d], goal)
    BY <1>3, <1>4 DEF Represents
  <1>6. TypeOK' /\ ReadFits'  BY <1>1, <1>2 DEF TypeOK, ReadFits
  <1>7. PlanFits'  BY <1>2, <1>4, <1>5 DEF PlanFits
  <1>8. \A d \in Databases : FileFits(d)'  BY <1>1, <1>2 DEF FileFits
  <1>9. ASSUME NEW t \in Goals  PROVE EntryFits(t)'
    <2>1. CASE t = goal
      <3>1. scans'[t] = [signature |-> signature, answer |-> answer']
        BY <1>1, <1>2, <1>3, <2>1 DEF TypeOK
      <3>2. scans'[t].signature = signature /\ scans'[t].answer = answer'  BY <3>1
      <3>3. ASSUME NEW d \in DOMAIN signature \ failed
            PROVE  /\ d \in Databases /\ memo[d] # 0
                   /\ signature[d] = memo[d] /\ mtime[d] = memo[d] =>
                        Represents(answer', finals[d], t)
        BY <1>3, <1>5, <2>1
      <3> QED  BY <1>2, <1>4, <3>2, <3>3 DEF EntryFits
    <2>2. CASE t # goal
      <3>1. scans'[t] = scans[t] /\ EntryFits(t)
        BY <1>1, <1>2, <2>2 DEF TypeOK
      <3> QED  BY <1>2, <3>1 DEF EntryFits
    <2> QED  BY <2>1, <2>2
  <1> QED  BY <1>6, <1>7, <1>8, <1>9 DEF IInv

\* The plan is made, and the scan forgotten.
LEMMA PlanKeeps ==
  ASSUME IInv, Plan
  PROVE  IInv'
PROOF
  <1>1. /\ pc' = "idle" /\ UNCHANGED <<finals, mtime, memo, files, scans, failed>>
    BY DEF Plan, envVars, cacheVars
  <1>2. TypeOK' /\ ReadFits' /\ PlanFits'  BY <1>1 DEF IInv, TypeOK, ReadFits, PlanFits
  <1>3. \A d \in Databases : FileFits(d)'  BY <1>1 DEF IInv, FileFits
  <1>4. \A t \in Goals : EntryFits(t)'  BY <1>1 DEF IInv, EntryFits
  <1> QED  BY <1>2, <1>3, <1>4 DEF IInv

\* The invariant holds throughout.
THEOREM SeedsInvariance == Spec => []IInv
PROOF
  <1>1. Init => IInv
    <2> SUFFICES ASSUME Init  PROVE IInv
      OBVIOUS
    <2>1. TypeOK /\ ReadFits /\ PlanFits  BY DEF Init, TypeOK, ReadFits, PlanFits
    <2>2. \A d \in Databases : FileFits(d)  BY DEF Init, FileFits
    <2>3. \A t \in Goals : EntryFits(t)  BY DEF Init, EntryFits
    <2> QED  BY <2>1, <2>2, <2>3 DEF IInv
  <1>2. IInv /\ [Next]_vars => IInv'
    <2> SUFFICES ASSUME IInv, [Next]_vars  PROVE IInv'
      OBVIOUS
    <2>1. CASE UNCHANGED vars
      <3>1. UNCHANGED <<finals, mtime, memo, files, scans, pc, goal, signature, todo, gathered,
                        answer, start, failed>>
        BY <2>1 DEF vars, envVars, cacheVars, scanVars
      <3>2. TypeOK' /\ ReadFits' /\ PlanFits'
        BY <3>1 DEF IInv, TypeOK, ReadFits, PlanFits
      <3>3. \A d \in Databases : FileFits(d)'  BY <3>1 DEF IInv, FileFits
      <3>4. \A t \in Goals : EntryFits(t)'  BY <3>1 DEF IInv, EntryFits
      <3> QED  BY <3>2, <3>3, <3>4 DEF IInv
    <2>2. CASE \E db \in Databases : Write(db) \/ TagFinals(db) \/ ReadDb(db)
      BY <2>2, TouchKeeps, ReadDbKeeps
    <2>3. CASE \E t \in Goals : Hit(t) \/ Miss(t)
      BY <2>3, HitKeeps, MissKeeps
    <2> QED  BY <2>1, <2>2, <2>3, EvictKeeps, EndScanKeeps, PlanKeeps DEF Next
  <1> QED  BY <1>1, <1>2, PTL DEF Spec

\* What is known is offered as a seed: for every formula that fits the lowest
\* final minimum of each database that could be read and has not changed since
\* this process first met it, whichever cache answers.
THEOREM KnownMinimaAreOffered == Spec => []KnownMinimaSeed
PROOF
  <1>1. IInv => KnownMinimaSeed
    BY DEF IInv, PlanFits, KnownMinimaSeed, Represented, Represents
  <1> QED  BY <1>1, SeedsInvariance, PTL

\* How many templates, combinations and exact matches there are is a number,
\* so the allocation has its guarantees in every plan.
THEOREM PlansCoverOptions == Spec => []PlanCoversOptions
PROOF
  <1>1. IInv => PlanCoversOptions
    <2> SUFFICES ASSUME IInv, pc = "plan", NEW t \in TemplateCounts, NEW n \in BatchSizes,
                        NEW raw \in [Strategies -> RawTargets]
                 PROVE  CoversOptions(Allocated(raw, Options(t), n), raw, Options(t), n)
      BY DEF PlanCoversOptions
    <2> DEFINE suitable == {m \in answer : m.shape \notin Linear}
               exact == {m \in suitable : m.comp = goal}
               rest == suitable \ exact
               formulas == {m.comp : m \in rest}
               formula == [m \in rest |-> m.comp]
    <2>1. IsFiniteSet(answer)  BY DEF IInv, PlanFits, Minima
    <2>2. IsFiniteSet(exact) /\ IsFiniteSet(rest)  BY <2>1, FS_Subset
    <2>3. IsFiniteSet(formulas)
      <3>1. formula \in Surjection(rest, formulas)  BY DEF Surjection
      <3> HIDE DEF rest, formulas, formula
      <3> QED  BY <2>2, <3>1, FS_Surjection
    <2>4. IsFiniteSet(Combinations(formulas, goal))
      <3>1. Combinations(formulas, goal) \in SUBSET (SUBSET formulas)  BY DEF Combinations
      <3> HIDE DEF formulas
      <3>2. IsFiniteSet(SUBSET formulas)  BY <2>3, FS_SUBSET
      <3> QED  BY <3>1, <3>2, FS_Subset
    <2>5. Cardinality(Combinations(formulas, goal)) \in Nat /\ Cardinality(exact) \in Nat
      BY <2>2, <2>4, FS_CardinalityType
    <2>6. Options(t) = [template |-> t, seed |-> Cardinality(Combinations(formulas, goal)),
                        exact |-> Cardinality(exact)]
      BY DEF Options
    <2>7. Options(t) \in Counts
      <3> HIDE DEF exact, formulas
      <3>1. t \in Nat  BY SeedsAssumption
      <3> QED  BY <2>5, <2>6, <3>1 DEF Counts, Strategies
    <2>8. raw \in Counts /\ n \in Nat  BY SeedsAssumption DEF Counts
    <2> QED  BY <2>7, <2>8, BatchesCoverOptions
  <1> QED  BY <1>1, SeedsInvariance, PTL

-----------------------------------------------------------------------------
(* UnifiedCache.                                                            *)

Types ==
  /\ cached \subseteq Keys
  /\ inflight \in [Keys -> 0..events] /\ events \in Nat
  /\ at \in [Frames -> Places]
  /\ key \in [Frames -> Keys \cup {NoKey}]
  /\ \A f \in Frames : at[f] # "idle" => key[f] \in Keys
  /\ event \in [Frames -> 0..events]
  /\ started \in [Keys -> Nat] /\ spoiled \in [Keys -> Nat]

\* A call inside a computation: the computation waits for it.
Nesting == \A f \in Frames : at[Inner(f)] # "idle" => at[Outer(f)] = "nested"

Ownership ==
  /\ SingleFlight
  /\ MarkersAreOwned
  /\ \A f \in Frames : at[f] \in Owning => event[f] # 0

Wakeups ==
  /\ NoLostWakeup
  /\ \A f \in Frames : at[f] = "unmark" => event[f] \in signalled

Computing(k) ==
  \E f \in Frames :
    at[f] \in {"compute", "nested", "resume", "store"} /\ key[f] = k

Work ==
  \A k \in Keys :
    started[k] <= spoiled[k] + (IF k \in cached \/ Computing(k) THEN 1 ELSE 0)

CacheInv == Types /\ Nesting /\ Ownership /\ Wakeups /\ Work

-----------------------------------------------------------------------------
\* The two frames of a thread.
LEMMA FrameFacts ==
  /\ \A f \in Frames :
       /\ Outer(f) \in Frames /\ Inner(f) \in Frames /\ Outer(f) # Inner(f)
       /\ f = Outer(f) \/ f = Inner(f)
       /\ Outer(Outer(f)) = Outer(f) /\ Outer(Inner(f)) = Outer(f)
       /\ Inner(Outer(f)) = Inner(f) /\ Inner(Inner(f)) = Inner(f)
  /\ \A t \in Threads : <<t, 1>> \in Frames /\ Outer(<<t, 1>>) = <<t, 1>>
  BY DEF Frames, Outer, Inner

\* The invariant holds before the first call.
LEMMA InitInv == CacheInit => CacheInv
  BY FrameFacts, CacheAssumption
  DEF CacheInit, CacheInv, Types, Nesting, Ownership, Wakeups, Work, SingleFlight,
      MarkersAreOwned, NoLostWakeup, Computing, Places, Owning, Owing

\* A return leaves types and nesting in order.
LEMMA ReturnedFacts ==
  ASSUME NEW f \in Frames, Types, Nesting, at[f] \notin {"idle", "nested"}
  PROVE  /\ Returned(f) \in [Frames -> Places]
         /\ Returned(f)[f] = "idle"
         /\ \A g \in Frames : g # f =>
              \/ Returned(f)[g] = at[g]
              \/ /\ f = Inner(f) /\ g = Outer(f)
                 /\ at[g] = "nested" /\ Returned(f)[g] = "resume"
  BY FrameFacts DEF Returned, Types, Nesting, Places

\* What storing an entry does: at most one key is lost, and it is excused.
LEMMA InsertFacts ==
  ASSUME Types, NEW k \in Keys, Insert(k)
  PROVE  /\ cached' \subseteq Keys
         /\ spoiled' \in [Keys -> Nat]
         /\ \A j \in Keys : spoiled[j] <= spoiled'[j]
         /\ \A j \in cached \cup {k} :
              j \in cached' \/ spoiled'[j] = spoiled[j] + 1
<1>1. CASE cached' = cached \cup {k} /\ UNCHANGED spoiled
  BY <1>1 DEF Types
<1>2. CASE \E oldest \in cached \cup {k} :
             /\ cached' = (cached \cup {k}) \ {oldest}
             /\ Excuse({oldest})
  <2>1. PICK oldest \in cached \cup {k} :
          /\ cached' = (cached \cup {k}) \ {oldest}
          /\ Excuse({oldest})
    BY <1>2
  <2>2. \A j \in Keys :
          spoiled'[j] = spoiled[j] + (IF j = oldest THEN 1 ELSE 0)
    BY <2>1 DEF Excuse
  <2>3. spoiled' \in [Keys -> Nat]
    BY <2>1 DEF Excuse, Types
  <2>4. QED
    BY <2>1, <2>2, <2>3 DEF Types
<1>3. QED
  BY <1>1, <1>2 DEF Insert

\* The steps, as the proofs below take them one by one.
LEMMA Steps ==
  ASSUME [CacheNext]_unifiedVars
  PROVE  \/ \E t \in Threads, k \in Keys : Get(t, k) \/ Set(t, k) \/ Call(t, k)
         \/ \E t \in Threads, ns \in Namespaces : ClearNamespace(t, ns)
         \/ \E f \in Frames :
              \/ Lookup(f) \/ Wait(f) \/ Claim(f) \/ Nest(f)
              \/ \E ok \in BOOLEAN : EndCompute(f, ok)
              \/ Store(f) \/ Signal(f) \/ Unmark(f)
         \/ UNCHANGED unifiedVars
  BY DEF CacheNext, FrameStep, NewCall, Finished

\* A hit changes the order and returns.
LEMMA HitTypes ==
  ASSUME NEW f \in Frames, Types, Nesting, TakeHit(f),
         at[f] \in {"lookup", "claim"}
  PROVE  Types' /\ Nesting'
<1>1. /\ at' \in [Frames -> Places]
      /\ \A g \in Frames : at'[g] # "idle" => at[g] # "idle"
  BY ReturnedFacts DEF TakeHit, Types
<1>2. Types'
  BY <1>1 DEF Types, TakeHit, flightVars, historyVars
<1>3. Nesting'
  BY ReturnedFacts, FrameFacts DEF TakeHit, Nesting
<1>4. QED
  BY <1>2, <1>3

\* Types and nesting are preserved by every step.
LEMMA TypesStep ==
  ASSUME Types, Nesting, [CacheNext]_unifiedVars
  PROVE  Types' /\ Nesting'
<1>1. ASSUME NEW t \in Threads, NEW k \in Keys, Get(t, k)
      PROVE  Types' /\ Nesting'
  BY <1>1 DEF Get, Types, Nesting, flightVars, historyVars
<1>2. ASSUME NEW t \in Threads, NEW k \in Keys, Set(t, k)
      PROVE  Types' /\ Nesting'
  BY <1>2, InsertFacts DEF Set, Types, Nesting, flightVars
<1>3. ASSUME NEW t \in Threads, NEW k \in Keys, Call(t, k)
      PROVE  Types' /\ Nesting'
  <2>1. Types'
    BY <1>3, FrameFacts
    DEF Call, CountCall, GoesTo, Types, Places, flightVars, historyVars, lruVars
  <2>2. Nesting'
    BY <1>3, FrameFacts DEF Call, CountCall, GoesTo, Types, Nesting
  <2>3. QED
    BY <2>1, <2>2
<1>4. ASSUME NEW t \in Threads, NEW ns \in Namespaces, ClearNamespace(t, ns)
      PROVE  Types' /\ Nesting'
  BY <1>4 DEF ClearNamespace, ClearedMarkers, Excuse, Types, Nesting
<1>5. ASSUME NEW f \in Frames, Lookup(f)
      PROVE  Types' /\ Nesting'
  <2>1. CASE TakeHit(f)
    BY <1>5, <2>1, HitTypes DEF Lookup
  <2>2. CASE ~TakeHit(f)
    <3>1. Types'
      BY <1>5, <2>2 DEF Lookup, GoesTo, Types, Places, flightVars, historyVars, lruVars
    <3>2. Nesting'
      BY <1>5, <2>2, FrameFacts DEF Lookup, GoesTo, Types, Nesting
    <3>3. QED
      BY <3>1, <3>2
  <2>3. QED
    BY <2>1, <2>2
<1>6. ASSUME NEW f \in Frames, Wait(f)
      PROVE  Types' /\ Nesting'
  <2>1. Types'
    BY <1>6 DEF Wait, GoesTo, Types, Places, flightVars, historyVars, lruVars
  <2>2. Nesting'
    BY <1>6, FrameFacts DEF Wait, GoesTo, Types, Nesting
  <2>3. QED
    BY <2>1, <2>2
<1>7. ASSUME NEW f \in Frames, Claim(f)
      PROVE  Types' /\ Nesting'
  <2>1. CASE TakeHit(f)
    BY <1>7, <2>1, HitTypes DEF Claim
  <2>2. CASE ~TakeHit(f)
    <3>1. Nesting'
      BY <1>7, <2>2, FrameFacts DEF Claim, GoesTo, Types, Nesting
    <3>2. CASE TakenNow(key[f])
      BY <1>7, <2>2, <3>1, <3>2
      DEF Claim, GoesTo, Types, Places, flightVars, historyVars, lruVars
    <3>3. CASE ~TakenNow(key[f])
      <4>1. events' \in Nat /\ 0..events \subseteq 0..events' /\ events' \in 0..events'
        BY <1>7, <2>2, <3>3 DEF Claim, Types
      <4>2. key[f] \in Keys
        BY <1>7 DEF Claim, Types
      <4>3. /\ inflight' \in [Keys -> 0..events']
            /\ event' \in [Frames -> 0..events']
        BY <1>7, <2>2, <3>3, <4>1, <4>2 DEF Claim, Types
      <4>4. started' \in [Keys -> Nat]
        BY <1>7, <2>2, <3>3, <4>2 DEF Claim, Types
      <4>5. /\ at' \in [Frames -> Places]
            /\ \A g \in Frames : at'[g] # "idle" => at[g] # "idle"
        BY <1>7, <2>2, <3>3 DEF Claim, GoesTo, Types, Places
      <4>6. QED
        BY <1>7, <2>2, <3>3, <3>1, <4>1, <4>3, <4>4, <4>5
        DEF Claim, Types, historyVars, lruVars
    <3>4. QED
      BY <3>2, <3>3
  <2>3. QED
    BY <2>1, <2>2
<1>8. ASSUME NEW f \in Frames, Nest(f)
      PROVE  Types' /\ Nesting'
  <2>1. Part[key[f]] \in Keys
    BY <1>8, CacheAssumption DEF Nest, Types
  <2>2. Types'
    BY <1>8, <2>1, FrameFacts
    DEF Nest, Types, Places, flightVars, historyVars, lruVars
  <2>3. Nesting'
    BY <1>8, FrameFacts DEF Nest, Types, Nesting
  <2>4. QED
    BY <2>2, <2>3
<1>9. ASSUME NEW f \in Frames, NEW ok \in BOOLEAN, EndCompute(f, ok)
      PROVE  Types' /\ Nesting'
  <2>1. spoiled' \in [Keys -> Nat]
    BY <1>9 DEF EndCompute, Excuse, Types
  <2>2. Types'
    BY <1>9, <2>1
    DEF EndCompute, AfterError, GoesTo, Types, Places, flightVars, lruVars
  <2>3. Nesting'
    BY <1>9, FrameFacts DEF EndCompute, AfterError, GoesTo, Types, Nesting
  <2>4. QED
    BY <2>2, <2>3
<1>10. ASSUME NEW f \in Frames, Store(f)
       PROVE  Types' /\ Nesting'
  <2>1. cached' \subseteq Keys /\ spoiled' \in [Keys -> Nat]
    BY <1>10, InsertFacts DEF Store, Types
  <2>2. Types'
    BY <1>10, <2>1 DEF Store, GoesTo, Types, Places, flightVars
  <2>3. Nesting'
    BY <1>10, FrameFacts DEF Store, GoesTo, Types, Nesting
  <2>4. QED
    BY <2>2, <2>3
<1>11. ASSUME NEW f \in Frames, Signal(f)
       PROVE  Types' /\ Nesting'
  <2>1. Types'
    BY <1>11 DEF Signal, GoesTo, Types, Places, historyVars, lruVars
  <2>2. Nesting'
    BY <1>11, FrameFacts DEF Signal, GoesTo, Types, Nesting
  <2>3. QED
    BY <2>1, <2>2
<1>12. ASSUME NEW f \in Frames, Unmark(f)
       PROVE  Types' /\ Nesting'
  <2>1. /\ at' \in [Frames -> Places]
        /\ \A g \in Frames : at'[g] # "idle" => at[g] # "idle"
    BY <1>12, ReturnedFacts DEF Unmark, Types
  <2>2. Types'
    BY <1>12, <2>1 DEF Unmark, Unmarked, Types, historyVars, lruVars
  <2>3. Nesting'
    BY <1>12, ReturnedFacts, FrameFacts DEF Unmark, Nesting
  <2>4. QED
    BY <2>2, <2>3
<1>13. CASE UNCHANGED unifiedVars
  BY <1>13 DEF unifiedVars, Types, Nesting
<1>14. QED
  BY <1>1, <1>2, <1>3, <1>4, <1>5, <1>6, <1>7, <1>8, <1>9, <1>10, <1>11,
     <1>12, <1>13, Steps

-----------------------------------------------------------------------------
\* Owners and markers only change where a frame claims or unmarks.
LEMMA SameOwners ==
  ASSUME Types, Ownership, inflight' = inflight,
         \A g \in Frames :
           /\ at'[g] \in Owning <=> at[g] \in Owning
           /\ at[g] \in Owning => key'[g] = key[g] /\ event'[g] = event[g]
  PROVE  Ownership'
<1>1. SingleFlight'
  BY DEF Ownership, SingleFlight
<1>2. MarkersAreOwned'
  <2>1. \A g \in Frames : at'[g] \in Owning => inflight'[key'[g]] = event'[g]
    BY DEF Ownership, MarkersAreOwned
  <2>2. ASSUME NEW k \in Keys, inflight'[k] # 0
        PROVE  \E g \in Frames : at'[g] \in Owning /\ key'[g] = k
    <3>1. PICK g \in Frames : at[g] \in Owning /\ key[g] = k
      BY <2>2 DEF Ownership, MarkersAreOwned
    <3>2. QED
      BY <3>1
  <2>3. QED
    BY <2>1, <2>2 DEF MarkersAreOwned
<1>3. QED
  BY <1>1, <1>2 DEF Ownership

\* A claim: the marker was 0, so nobody owned the key.
LEMMA ClaimOwnership ==
  ASSUME Types, Ownership, NEW f \in Frames, at[f] = "claim",
         key[f] \in Keys, inflight[key[f]] = 0,
         inflight' = [inflight EXCEPT ![key[f]] = events + 1],
         event' = [event EXCEPT ![f] = events + 1],
         GoesTo(f, "compute"), key' = key
  PROVE  Ownership'
<1>1. \A g \in Frames : at[g] \in Owning => key[g] # key[f] /\ g # f
  BY DEF Ownership, MarkersAreOwned, Owning
<1>2. \A g \in Frames : at'[g] \in Owning <=> g = f \/ at[g] \in Owning
  BY DEF GoesTo, Types, Owning
<1>3. SingleFlight'
  BY <1>1, <1>2 DEF Ownership, SingleFlight
<1>4. \A g \in Frames : at'[g] \in Owning =>
        inflight'[key'[g]] = event'[g] /\ event'[g] # 0
  <2>1. TAKE g \in Frames
  <2>2. HAVE at'[g] \in Owning
  <2>3. CASE g = f
    BY <2>3 DEF Types
  <2>4. CASE g # f
    <3>1. at[g] \in Owning /\ key[g] # key[f]
      BY <1>1, <1>2, <2>2, <2>4
    <3>2. key[g] \in Keys
      BY <3>1 DEF Types, Owning
    <3>3. QED
      BY <2>4, <3>1, <3>2 DEF Ownership, MarkersAreOwned, Types
  <2>5. QED
    BY <2>3, <2>4
<1>5. ASSUME NEW k \in Keys, inflight'[k] # 0
      PROVE  \E g \in Frames : at'[g] \in Owning /\ key'[g] = k
  <2>1. CASE k = key[f]
    BY <2>1, <1>2
  <2>2. CASE k # key[f]
    <3>1. PICK g \in Frames : at[g] \in Owning /\ key[g] = k
      BY <1>5, <2>2 DEF Ownership, MarkersAreOwned, Types
    <3>2. QED
      BY <3>1, <1>2
  <2>3. QED
    BY <2>1, <2>2
<1>6. QED
  BY <1>3, <1>4, <1>5 DEF Ownership, MarkersAreOwned

\* Removing the marker: it is this frame's own, as nobody else owns the key.
LEMMA UnmarkOwnership ==
  ASSUME Types, Nesting, Ownership, NEW f \in Frames, Unmark(f)
  PROVE  Ownership'
<1>1. key[f] \in Keys
  BY DEF Unmark, Types
<1>2. \A g \in Frames : at'[g] \in Owning <=> g # f /\ at[g] \in Owning
  BY ReturnedFacts DEF Unmark, Owning
<1>3. \A g \in Frames : g # f /\ at[g] \in Owning => key[g] # key[f]
  BY DEF Unmark, Ownership, SingleFlight, Owning
<1>4. SingleFlight'
  BY <1>2 DEF Unmark, Ownership, SingleFlight
<1>5. \A g \in Frames : at'[g] \in Owning =>
        inflight'[key'[g]] = event'[g] /\ event'[g] # 0
  <2>1. TAKE g \in Frames
  <2>2. HAVE at'[g] \in Owning
  <2>3. g # f /\ at[g] \in Owning /\ key[g] # key[f]
    BY <1>2, <1>3, <2>2
  <2>4. key[g] \in Keys
    BY <2>3 DEF Types, Owning
  <2>5. QED
    BY <2>3, <2>4 DEF Unmark, Unmarked, Ownership, MarkersAreOwned, Types
<1>6. ASSUME NEW k \in Keys, inflight'[k] # 0
      PROVE  \E g \in Frames : at'[g] \in Owning /\ key'[g] = k
  <2>1. k # key[f] /\ inflight[k] # 0
    BY <1>6, <1>1 DEF Unmark, Unmarked, Types
  <2>2. PICK g \in Frames : at[g] \in Owning /\ key[g] = k
    BY <2>1 DEF Ownership, MarkersAreOwned
  <2>3. QED
    BY <2>1, <2>2, <1>2 DEF Unmark
<1>7. QED
  BY <1>4, <1>5, <1>6 DEF Ownership, MarkersAreOwned

\* Markers and owners determine each other after every step.
LEMMA OwnershipStep ==
  ASSUME Types, Nesting, Ownership, [CacheNext]_unifiedVars
  PROVE  Ownership'
<1>1. ASSUME NEW t \in Threads, NEW k \in Keys, Get(t, k) \/ Set(t, k)
      PROVE  Ownership'
  BY <1>1, SameOwners DEF Get, Set, flightVars
<1>2. ASSUME NEW t \in Threads, NEW k \in Keys, Call(t, k)
      PROVE  Ownership'
  BY <1>2, SameOwners, FrameFacts
  DEF Call, CountCall, GoesTo, flightVars, Types, Owning
<1>3. ASSUME NEW t \in Threads, NEW ns \in Namespaces, ClearNamespace(t, ns)
      PROVE  Ownership'
  BY <1>3, SameOwners DEF ClearNamespace, ClearedMarkers
<1>4. ASSUME NEW f \in Frames, TakeHit(f), at[f] \in {"lookup", "claim"}
      PROVE  Ownership'
  <2>1. \A g \in Frames : at'[g] \in Owning <=> at[g] \in Owning
    BY <1>4, ReturnedFacts DEF TakeHit, Owning
  <2>2. QED
    BY <1>4, <2>1, SameOwners DEF TakeHit, flightVars
<1>5. ASSUME NEW f \in Frames, Lookup(f), ~TakeHit(f)
      PROVE  Ownership'
  BY <1>5, SameOwners DEF Lookup, GoesTo, flightVars, Types, Owning
<1>6. ASSUME NEW f \in Frames, Wait(f)
      PROVE  Ownership'
  BY <1>6, SameOwners DEF Wait, GoesTo, flightVars, Types, Owning
<1>7. ASSUME NEW f \in Frames, Claim(f), ~TakeHit(f)
      PROVE  Ownership'
  <2>1. CASE TakenNow(key[f])
    BY <1>7, <2>1, SameOwners DEF Claim, GoesTo, flightVars, Types, Owning
  <2>2. CASE ~TakenNow(key[f])
    <3>1. key[f] \in Keys
      BY <1>7 DEF Claim, Types
    <3>2. QED
      BY <1>7, <2>2, <3>1, ClaimOwnership DEF Claim, TakenNow
  <2>3. QED
    BY <2>1, <2>2
<1>8. ASSUME NEW f \in Frames, Nest(f)
      PROVE  Ownership'
  <2>1. at[Inner(f)] = "idle"
    BY <1>8, FrameFacts DEF Nest, Nesting
  <2>2. \A g \in Frames :
          /\ at'[g] \in Owning <=> at[g] \in Owning
          /\ at[g] \in Owning => key'[g] = key[g] /\ event'[g] = event[g]
    BY <1>8, <2>1, FrameFacts DEF Nest, Types, Owning
  <2>3. QED
    BY <1>8, <2>2, SameOwners DEF Nest, flightVars
<1>9. ASSUME NEW f \in Frames, NEW ok \in BOOLEAN, EndCompute(f, ok)
      PROVE  Ownership'
  BY <1>9, SameOwners DEF EndCompute, AfterError, GoesTo, flightVars, Types, Owning
<1>10. ASSUME NEW f \in Frames, Store(f)
       PROVE  Ownership'
  BY <1>10, SameOwners DEF Store, GoesTo, flightVars, Types, Owning
<1>11. ASSUME NEW f \in Frames, Signal(f)
       PROVE  Ownership'
  BY <1>11, SameOwners DEF Signal, GoesTo, Types, Owning
<1>12. CASE UNCHANGED unifiedVars
  BY <1>12, SameOwners DEF unifiedVars
<1>13. ASSUME NEW f \in Frames, Lookup(f) \/ Claim(f)
       PROVE  Ownership'
  BY <1>13, <1>4, <1>5, <1>7 DEF Lookup, Claim
<1>14. QED
  BY <1>1, <1>2, <1>3, <1>6, <1>8, <1>9, <1>10, <1>11, <1>12, <1>13,
     UnmarkOwnership, Steps

-----------------------------------------------------------------------------
\* Nobody starts to wait, and whoever still had to set an event has to, or did.
LEMMA SameWakeups ==
  ASSUME Types, Wakeups, signalled \subseteq signalled',
         \A g \in Frames :
           /\ at'[g] = "wait" =>
                at[g] = "wait" /\ event'[g] = event[g] /\ key'[g] = key[g]
           /\ at[g] \in Owing =>
                /\ event'[g] = event[g] /\ key'[g] = key[g]
                /\ at'[g] \in Owing \/ event[g] \in signalled'
           /\ at'[g] = "unmark" => event'[g] \in signalled'
  PROVE  Wakeups'
<1>1. ASSUME NEW f \in Frames, at'[f] = "wait"
      PROVE  \/ event'[f] \in signalled'
             \/ \E g \in Frames :
                  at'[g] \in Owing /\ event'[g] = event'[f] /\ key'[g] = key'[f]
  <2>1. at[f] = "wait" /\ event'[f] = event[f] /\ key'[f] = key[f]
    BY <1>1
  <2>2. CASE event[f] \in signalled
    BY <2>1, <2>2
  <2>3. ASSUME NEW g \in Frames,
               at[g] \in Owing, event[g] = event[f], key[g] = key[f]
        PROVE  \/ event'[f] \in signalled'
               \/ at'[g] \in Owing /\ event'[g] = event'[f] /\ key'[g] = key'[f]
    BY <2>1, <2>3
  <2>4. QED
    BY <2>1, <2>2, <2>3 DEF Wakeups, NoLostWakeup
<1>2. QED
  BY <1>1 DEF Wakeups, NoLostWakeup

\* A thread that starts to wait finds an owner behind the marker; if that one
\* is past ev.set(), the event is set.
LEMMA LookupWakeups ==
  ASSUME Types, Ownership, Wakeups, NEW f \in Frames, at[f] = "lookup",
         inflight[key[f]] # 0, event' = [event EXCEPT ![f] = inflight[key[f]]],
         GoesTo(f, "wait"), key' = key, signalled' = signalled
  PROVE  Wakeups'
<1>1. key[f] \in Keys
  BY DEF Types
<1>2. PICK h \in Frames : at[h] \in Owning /\ key[h] = key[f]
  BY <1>1 DEF Ownership, MarkersAreOwned
<1>3. event[h] = inflight[key[f]] /\ h # f
  BY <1>2 DEF Ownership, MarkersAreOwned, Owning
<1>4. \A g \in Frames : g # f => at'[g] = at[g] /\ event'[g] = event[g]
  BY DEF GoesTo, Types
<1>5. at'[f] = "wait" /\ event'[f] = event[h]
  BY <1>3 DEF GoesTo, Types
<1>6. \/ event'[f] \in signalled'
      \/ at'[h] \in Owing /\ event'[h] = event'[f] /\ key'[h] = key'[f]
  <2>1. CASE at[h] = "unmark"
    BY <2>1, <1>5 DEF Wakeups
  <2>2. CASE at[h] # "unmark"
    BY <2>2, <1>2, <1>3, <1>4, <1>5 DEF Owing
  <2>3. QED
    BY <2>1, <2>2
<1>7. ASSUME NEW e \in Frames, at'[e] = "wait", e # f
      PROVE  \/ event'[e] \in signalled'
             \/ \E g \in Frames :
                  at'[g] \in Owing /\ event'[g] = event'[e] /\ key'[g] = key'[e]
  <2>1. CASE event[e] \in signalled
    BY <2>1, <1>4, <1>7
  <2>2. ASSUME NEW g \in Frames,
               at[g] \in Owing, event[g] = event[e], key[g] = key[e]
        PROVE  at'[g] \in Owing /\ event'[g] = event'[e] /\ key'[g] = key'[e]
    BY <2>2, <1>4, <1>7 DEF Owing, Owning
  <2>3. at[e] = "wait"
    BY <1>4, <1>7
  <2>4. QED
    BY <2>1, <2>2, <2>3 DEF Wakeups, NoLostWakeup
<1>8. \A g \in Frames : at'[g] = "unmark" => event'[g] \in signalled'
  BY <1>4, <1>5 DEF Wakeups
<1>9. QED
  BY <1>2, <1>5, <1>6, <1>7, <1>8 DEF Wakeups, NoLostWakeup

\* No step loses a wake-up.
LEMMA WakeupsStep ==
  ASSUME Types, Nesting, Ownership, Wakeups, [CacheNext]_unifiedVars
  PROVE  Wakeups'
<1>1. ASSUME NEW t \in Threads, NEW k \in Keys, Get(t, k) \/ Set(t, k)
      PROVE  Wakeups'
  BY <1>1, SameWakeups DEF Get, Set, flightVars, Wakeups
<1>2. ASSUME NEW t \in Threads, NEW k \in Keys, Call(t, k)
      PROVE  Wakeups'
  BY <1>2, SameWakeups, FrameFacts
  DEF Call, CountCall, GoesTo, flightVars, Types, Owing, Owning, Wakeups
<1>3. ASSUME NEW t \in Threads, NEW ns \in Namespaces, ClearNamespace(t, ns)
      PROVE  Wakeups'
  BY <1>3, SameWakeups DEF ClearNamespace, Wakeups
<1>4. ASSUME NEW f \in Frames, TakeHit(f), at[f] \in {"lookup", "claim"}
      PROVE  Wakeups'
  BY <1>4, ReturnedFacts, SameWakeups DEF TakeHit, flightVars, Owing, Owning, Wakeups
<1>5. ASSUME NEW f \in Frames, Lookup(f), ~TakeHit(f)
      PROVE  Wakeups'
  <2>1. CASE inflight[key[f]] # 0
    BY <1>5, <2>1, LookupWakeups DEF Lookup, flightVars
  <2>2. CASE inflight[key[f]] = 0
    BY <1>5, <2>2, SameWakeups
    DEF Lookup, GoesTo, flightVars, Types, Owing, Owning, Wakeups
  <2>3. QED
    BY <2>1, <2>2
<1>6. ASSUME NEW f \in Frames, Wait(f)
      PROVE  Wakeups'
  BY <1>6, SameWakeups DEF Wait, GoesTo, flightVars, Types, Owing, Owning, Wakeups
<1>7. ASSUME NEW f \in Frames, Claim(f), ~TakeHit(f)
      PROVE  Wakeups'
  BY <1>7, SameWakeups DEF Claim, GoesTo, flightVars, Types, Owing, Owning, Wakeups
<1>8. ASSUME NEW f \in Frames, Nest(f)
      PROVE  Wakeups'
  <2>1. at[Inner(f)] = "idle"
    BY <1>8, FrameFacts DEF Nest, Nesting
  <2>2. QED
    BY <1>8, <2>1, FrameFacts, SameWakeups
    DEF Nest, flightVars, Types, Owing, Owning, Wakeups
<1>9. ASSUME NEW f \in Frames, NEW ok \in BOOLEAN, EndCompute(f, ok)
      PROVE  Wakeups'
  BY <1>9, SameWakeups
  DEF EndCompute, AfterError, GoesTo, flightVars, Types, Owing, Owning, Wakeups
<1>10. ASSUME NEW f \in Frames, Store(f)
       PROVE  Wakeups'
  BY <1>10, SameWakeups
  DEF Store, GoesTo, flightVars, Types, Owing, Owning, Wakeups
<1>11. ASSUME NEW f \in Frames, Signal(f)
       PROVE  Wakeups'
  BY <1>11, SameWakeups DEF Signal, GoesTo, Types, Owing, Owning, Wakeups
<1>12. ASSUME NEW f \in Frames, Unmark(f)
       PROVE  Wakeups'
  BY <1>12, ReturnedFacts, SameWakeups DEF Unmark, Owing, Owning, Wakeups
<1>13. CASE UNCHANGED unifiedVars
  BY <1>13, SameWakeups DEF unifiedVars, Wakeups
<1>14. ASSUME NEW f \in Frames, Lookup(f) \/ Claim(f)
       PROVE  Wakeups'
  BY <1>14, <1>4, <1>5, <1>7 DEF Lookup, Claim
<1>15. QED
  BY <1>1, <1>2, <1>3, <1>6, <1>8, <1>9, <1>10, <1>11, <1>12, <1>13, <1>14,
     Steps

-----------------------------------------------------------------------------
Busy == {"compute", "nested", "resume", "store"}

\* No computation starts, and one that is lost, or an entry that is, is excused.
LEMMA SameWork ==
  ASSUME Types, Types', Work, started' = started,
         \A k \in Keys : spoiled[k] <= spoiled'[k],
         \A k \in Keys : k \in cached \/ Computing(k) =>
           k \in cached' \/ Computing(k)' \/ spoiled'[k] > spoiled[k]
  PROVE  Work'
<1>1. ASSUME NEW k \in Keys
      PROVE  started'[k] <= spoiled'[k]
                + (IF k \in cached' \/ Computing(k)' THEN 1 ELSE 0)
  <2>1. /\ started[k] \in Nat /\ spoiled[k] \in Nat /\ spoiled'[k] \in Nat
        /\ spoiled[k] <= spoiled'[k] /\ started'[k] = started[k]
    BY DEF Types
  <2>2. started[k] <= spoiled[k]
                + (IF k \in cached \/ Computing(k) THEN 1 ELSE 0)
    BY DEF Work
  <2>3. k \in cached \/ Computing(k) =>
          k \in cached' \/ Computing(k)' \/ spoiled'[k] > spoiled[k]
    OBVIOUS
  <2>4. QED
    BY <2>1, <2>2, <2>3
<1>2. QED
  BY <1>1 DEF Work

\* Every computation but one per key is excused after every step.
LEMMA WorkStep ==
  ASSUME Types, Types', Nesting, Ownership, Work, [CacheNext]_unifiedVars
  PROVE  Work'
<1> DEFINE StaysBusy(g) == at[g] \in Busy => at'[g] \in Busy /\ key'[g] = key[g]
<1>a. ASSUME \A g \in Frames : StaysBusy(g), started' = started,
             \A k \in Keys : spoiled[k] <= spoiled'[k],
             \A k \in cached : k \in cached' \/ spoiled'[k] > spoiled[k]
      PROVE  Work'
  <2>1. \A k \in Keys : Computing(k) => Computing(k)'
    BY <1>a DEF Computing, Busy
  <2>2. QED
    BY <1>a, <2>1, SameWork DEF Types
<1>b. ASSUME \A g \in Frames : StaysBusy(g), UNCHANGED <<started, spoiled, cached>>
      PROVE  Work'
  BY <1>a, <1>b DEF Types
<1>1. ASSUME NEW t \in Threads, NEW k \in Keys, Get(t, k)
      PROVE  Work'
  BY <1>1, <1>b DEF Get, historyVars
<1>2. ASSUME NEW t \in Threads, NEW k \in Keys, Set(t, k)
      PROVE  Work'
  <2>1. \A j \in cached : j \in cached' \/ spoiled'[j] > spoiled[j]
    BY <1>2, InsertFacts DEF Set, Types
  <2>2. \A j \in Keys : spoiled[j] <= spoiled'[j]
    BY <1>2, InsertFacts DEF Set
  <2>3. QED
    BY <1>2, <1>a, <2>1, <2>2 DEF Set
<1>3. ASSUME NEW t \in Threads, NEW k \in Keys, Call(t, k)
      PROVE  Work'
  BY <1>3, <1>b, FrameFacts
  DEF Call, CountCall, GoesTo, lruVars, historyVars, Types, Busy
<1>4. ASSUME NEW t \in Threads, NEW ns \in Namespaces, ClearNamespace(t, ns)
      PROVE  Work'
  <2>1. \A k \in Keys :
          spoiled'[k] = spoiled[k]
            + (IF k \in {j \in cached : NamespaceOf[j] = ns} THEN 1 ELSE 0)
    BY <1>4 DEF ClearNamespace, Excuse
  <2>2. \A k \in Keys : spoiled[k] <= spoiled'[k]
    BY <2>1 DEF Types
  <2>3. \A k \in cached : k \in cached' \/ spoiled'[k] > spoiled[k]
    BY <1>4, <2>1 DEF ClearNamespace, Types
  <2>4. QED
    BY <1>4, <1>a, <2>2, <2>3 DEF ClearNamespace
<1>5. ASSUME NEW f \in Frames, TakeHit(f), at[f] \in {"lookup", "claim"}
      PROVE  Work'
  BY <1>5, <1>b, ReturnedFacts DEF TakeHit, historyVars, Busy
<1>6. ASSUME NEW f \in Frames, Lookup(f), ~TakeHit(f)
      PROVE  Work'
  BY <1>6, <1>b DEF Lookup, GoesTo, lruVars, historyVars, Types, Busy
<1>7. ASSUME NEW f \in Frames, Wait(f)
      PROVE  Work'
  BY <1>7, <1>b DEF Wait, GoesTo, lruVars, historyVars, Types, Busy
<1>8. ASSUME NEW f \in Frames, Claim(f), ~TakeHit(f)
      PROVE  Work'
  <2>1. CASE TakenNow(key[f])
    BY <1>8, <2>1, <1>b DEF Claim, GoesTo, lruVars, historyVars, Types, Busy
  <2>2. CASE ~TakenNow(key[f])
    <3>1. key[f] \in Keys /\ key[f] \notin cached /\ at[f] = "claim"
      BY <1>8, <2>2 DEF Claim, HitNow, Types
    <3>2. ~Computing(key[f])
      BY <2>2 DEF TakenNow, Computing, Ownership, MarkersAreOwned, Owning
    <3>3. at'[f] = "compute" /\ key'[f] = key[f]
      BY <1>8, <2>2 DEF Claim, GoesTo, Types
    <3>4. \A k \in Keys : Computing(k) => Computing(k)'
      BY <1>8, <2>2, <3>1 DEF Claim, GoesTo, Computing, Types
    <3>5. \A k \in Keys :
            started'[k] = started[k] + (IF k = key[f] THEN 1 ELSE 0)
      BY <1>8, <2>2, <3>1 DEF Claim, Types
    <3>6. cached' = cached /\ spoiled' = spoiled
      BY <1>8, <2>2 DEF Claim, lruVars
    <3>7. ASSUME NEW k \in Keys
          PROVE  started'[k] <= spoiled'[k]
                    + (IF k \in cached' \/ Computing(k)' THEN 1 ELSE 0)
      <4>1. /\ started[k] \in Nat /\ spoiled[k] \in Nat
            /\ started[k] <= spoiled[k]
                 + (IF k \in cached \/ Computing(k) THEN 1 ELSE 0)
        BY DEF Types, Work
      <4>2. CASE k = key[f]
        <5>1. ~Computing(k) /\ Computing(k)'
          BY <4>2, <3>2, <3>3 DEF Computing
        <5>2. started[k] <= spoiled[k]
          BY <4>1, <4>2, <5>1, <3>1
        <5>3. QED
          BY <4>1, <4>2, <5>1, <5>2, <3>5, <3>6
      <4>3. CASE k # key[f]
        BY <4>1, <4>3, <3>4, <3>5, <3>6
      <4>4. QED
        BY <4>2, <4>3
    <3>8. QED
      BY <3>7 DEF Work
  <2>3. QED
    BY <2>1, <2>2
<1>9. ASSUME NEW f \in Frames, Nest(f)
      PROVE  Work'
  <2>1. at[Inner(f)] = "idle"
    BY <1>9, FrameFacts DEF Nest, Nesting
  <2>2. QED
    BY <1>9, <2>1, <1>b, FrameFacts DEF Nest, lruVars, historyVars, Types, Busy
<1>10. ASSUME NEW f \in Frames, EndCompute(f, TRUE)
       PROVE  Work'
  BY <1>10, <1>b DEF EndCompute, GoesTo, lruVars, Types, Busy
<1>11. ASSUME NEW f \in Frames, EndCompute(f, FALSE)
       PROVE  Work'
  <2>1. \A k \in Keys :
          spoiled'[k] = spoiled[k] + (IF k = key[f] THEN 1 ELSE 0)
    BY <1>11 DEF EndCompute, Excuse
  <2>2. \A g \in Frames \ {f} : at'[g] = at[g] /\ key'[g] = key[g]
    BY <1>11 DEF EndCompute, GoesTo, Types
  <2>3. \A k \in Keys : spoiled[k] <= spoiled'[k]
    BY <2>1 DEF Types
  <2>4. \A k \in Keys : Computing(k) => Computing(k)' \/ spoiled'[k] > spoiled[k]
    BY <2>1, <2>2 DEF Computing, Types
  <2>5. QED
    BY <1>11, <2>3, <2>4, SameWork DEF EndCompute, lruVars
<1>12. ASSUME NEW f \in Frames, Store(f)
       PROVE  Work'
  <2>1. key[f] \in Keys /\ \A g \in Frames \ {f} : at'[g] = at[g] /\ key'[g] = key[g]
    BY <1>12 DEF Store, GoesTo, Types
  <2>2. /\ \A k \in Keys : spoiled[k] <= spoiled'[k]
        /\ \A k \in cached \cup {key[f]} : k \in cached' \/ spoiled'[k] = spoiled[k] + 1
    BY <1>12, <2>1, InsertFacts DEF Store
  <2>3. \A k \in Keys : k \in cached \cup {key[f]} => k \in cached' \/ spoiled'[k] > spoiled[k]
    BY <2>2 DEF Types
  <2>4. \A k \in Keys : Computing(k) => k = key[f] \/ Computing(k)'
    BY <2>1 DEF Computing
  <2>5. QED
    BY <1>12, <2>2, <2>3, <2>4, SameWork DEF Store
<1>13. ASSUME NEW f \in Frames, Signal(f)
       PROVE  Work'
  BY <1>13, <1>b DEF Signal, GoesTo, lruVars, historyVars, Types, Busy
<1>14. ASSUME NEW f \in Frames, Unmark(f)
       PROVE  Work'
  BY <1>14, <1>b, ReturnedFacts DEF Unmark, lruVars, historyVars, Busy
<1>15. CASE UNCHANGED unifiedVars
  BY <1>15, <1>b DEF unifiedVars
<1>16. ASSUME NEW f \in Frames, Lookup(f) \/ Claim(f)
       PROVE  Work'
  BY <1>16, <1>5, <1>6, <1>8 DEF Lookup, Claim
<1>17. ASSUME NEW f \in Frames, NEW ok \in BOOLEAN, EndCompute(f, ok)
       PROVE  Work'
  BY <1>17, <1>10, <1>11
<1>18. QED
  BY <1>1, <1>2, <1>3, <1>4, <1>7, <1>9, <1>12, <1>13, <1>14, <1>15, <1>16,
     <1>17, Steps

-----------------------------------------------------------------------------
\* The invariant holds in every state, for any threads, keys and calls.
THEOREM CacheInvariance == CacheSpec => []CacheInv
<1>1. CacheInv /\ [CacheNext]_unifiedVars => CacheInv'
  BY TypesStep, OwnershipStep, WakeupsStep, WorkStep DEF CacheInv
<1>2. QED
  BY <1>1, InitInv, PTL DEF CacheSpec

\* get_or_compute computes a key at most once at a time.
THEOREM OneFlightPerKey == CacheSpec => []SingleFlight
<1>1. CacheInv => SingleFlight
  BY DEF CacheInv, Ownership
<1>2. QED
  BY <1>1, CacheInvariance, PTL

\* _inflight holds the events of the computations in progress and nothing else.
THEOREM MarkersOwned == CacheSpec => []MarkersAreOwned
<1>1. CacheInv => MarkersAreOwned
  BY DEF CacheInv, Ownership
<1>2. QED
  BY <1>1, CacheInvariance, PTL

\* Whoever waits, waits for an event that is set or that an owner of the same
\* key is going to set: inflight_ev.wait() cannot hang on a forgotten event.
THEOREM NoWakeupIsLost == CacheSpec => []NoLostWakeup
<1>1. CacheInv => NoLostWakeup
  BY DEF CacheInv, Wakeups
<1>2. QED
  BY <1>1, CacheInvariance, PTL

\* A key is computed again only after an error, an eviction or a clear.
THEOREM NothingComputedInVain == CacheSpec => []NoWastedWork
<1>1. ASSUME CacheInv, NEW k \in Keys
      PROVE  started[k] <= spoiled[k] + 1
  <2>1. /\ started[k] \in Nat /\ spoiled[k] \in Nat
        /\ started[k] <= spoiled[k]
             + (IF k \in cached \/ Computing(k) THEN 1 ELSE 0)
    BY <1>1 DEF CacheInv, Types, Work
  <2>2. QED
    BY <2>1
<1>2. CacheInv => NoWastedWork
  BY <1>1 DEF NoWastedWork
<1>3. QED
  BY <1>2, CacheInvariance, PTL

-----------------------------------------------------------------------------
(* Nobody waits in a circle. *)

\* Who is in the middle of something, and for whom the others wait: for the
\* event of a computation, or for the call nested in their own.
Runs(f) ==
  /\ at[f] \notin {"idle", "nested"}
  /\ at[f] = "wait" => event[f] \in signalled
WaitsFor(f, g) ==
  \/ /\ at[f] = "wait" /\ event[f] \notin signalled
     /\ at[g] \in Owing /\ event[g] = event[f] /\ key[g] = key[f]
  \/ at[f] = "nested" /\ g = Inner(f)

\* A computation that waits for a nested call waits for the part it needs.
Parts ==
  \A f \in Frames : at[f] = "nested" =>
    /\ f = Outer(f) /\ at[Inner(f)] # "idle"
    /\ Part[key[f]] # NoKey /\ key[Inner(f)] = Part[key[f]]

\* Whoever is in a call runs, or waits for somebody who does, through two
\* others at most: the one that computes its key, and the call nested there.
RunsSoon(f) == Runs(f) \/ \E g \in Frames : WaitsFor(f, g) /\ Runs(g)
WaitingEnds ==
  \A f \in Frames : at[f] # "idle" =>
    \/ RunsSoon(f)
    \/ \E g \in Frames :
         /\ WaitsFor(f, g)
         /\ RunsSoon(g) \/ \E h \in Frames : WaitsFor(g, h) /\ RunsSoon(h)

\* A computation goes on as soon as its nested call is over.
LEMMA PartsKept ==
  ASSUME CacheInv, Parts, [CacheNext]_unifiedVars
  PROVE  Parts'
PROOF
  <1>1. at \in [Frames -> Places] /\ key \in [Frames -> Keys \cup {NoKey}]
    BY DEF CacheInv, Types
  <1>2. CASE \/ \E t \in Threads, k \in Keys : Get(t, k) \/ Set(t, k)
             \/ \E t \in Threads, ns \in Namespaces : ClearNamespace(t, ns)
             \/ UNCHANGED unifiedVars
    <2>1. UNCHANGED <<at, key>>
      BY <1>2 DEF Get, Set, ClearNamespace, unifiedVars
    <2> QED  BY <2>1 DEF Parts
  <1>3. ASSUME NEW t \in Threads, NEW k \in Keys, Call(t, k)  PROVE Parts'
    <2> DEFINE f == <<t, 1>>
    <2>1. /\ f \in Frames /\ f = Outer(f) /\ at[f] = "idle"
          /\ at' = [at EXCEPT ![f] = "lookup"] /\ key' = [key EXCEPT ![f] = k]
      BY <1>3, FrameFacts DEF Call, CountCall, GoesTo
    <2> HIDE DEF f
    <2>2. \A g \in Frames : at'[g] = "nested" => g # f /\ Inner(g) # f /\ at[g] = "nested"
      BY <1>1, <2>1, FrameFacts
    <2> QED  BY <1>1, <2>1, <2>2, FrameFacts DEF Parts
  <1>4. ASSUME NEW f \in Frames, Lookup(f) \/ Claim(f) \/ Unmark(f)  PROVE Parts'
    <2>1. /\ at[f] \in {"lookup", "claim", "unmark"} /\ key' = key
          /\ \/ at' = Returned(f)
             \/ \E place \in Places \ {"idle", "nested"} : at' = [at EXCEPT ![f] = place]
      BY <1>4 DEF Lookup, Claim, Unmark, TakeHit, GoesTo, Places
    <2>2. CASE at' = Returned(f)
      <3>1. /\ at'[f] = "idle"
            /\ \A g \in Frames : g # f =>
                 \/ at'[g] = at[g]
                 \/ /\ f = Inner(f) /\ g = Outer(f)
                    /\ at[g] = "nested" /\ at'[g] = "resume"
        BY <2>1, <2>2, ReturnedFacts DEF CacheInv
      <3>2. f = Inner(f) => at'[Outer(f)] = "resume"
        <4>1. f = Inner(f) => Outer(f) \in Frames /\ Outer(f) # f  BY FrameFacts
        <4>2. f = Inner(f) => at[Outer(f)] = "nested"
          BY <2>1, FrameFacts DEF CacheInv, Nesting
        <4> QED  BY <1>1, <2>2, <4>1, <4>2 DEF Returned
      <3> SUFFICES ASSUME NEW g \in Frames, at'[g] = "nested"
                   PROVE  /\ g = Outer(g) /\ at'[Inner(g)] # "idle"
                          /\ Part[key[g]] # NoKey /\ key[Inner(g)] = Part[key[g]]
        BY <2>1 DEF Parts
      <3>3. at[g] = "nested" /\ g # f  BY <3>1
      <3>4. /\ g = Outer(g) /\ at[Inner(g)] # "idle" /\ Inner(g) \in Frames
            /\ Part[key[g]] # NoKey /\ key[Inner(g)] = Part[key[g]]
        BY <3>3, FrameFacts DEF Parts
      <3>5. Inner(g) # f
        <4>1. Inner(g) = f => f = Inner(f) /\ Outer(f) = g  BY <3>4, FrameFacts
        <4> QED  BY <3>2, <4>1
      <3> QED  BY <3>1, <3>4, <3>5
    <2>3. CASE \E place \in Places \ {"idle", "nested"} : at' = [at EXCEPT ![f] = place]
      BY <1>1, <2>1, <2>3, FrameFacts DEF Parts
    <2> QED  BY <2>1, <2>2, <2>3
  <1>5. ASSUME NEW f \in Frames,
               Wait(f) \/ Store(f) \/ Signal(f) \/ \E ok \in BOOLEAN : EndCompute(f, ok)
        PROVE  Parts'
    <2>1. /\ key' = key
          /\ \E place \in Places \ {"idle", "nested"} : at' = [at EXCEPT ![f] = place]
      BY <1>5 DEF Wait, Store, Signal, EndCompute, AfterError, GoesTo, Places
    <2> QED  BY <1>1, <2>1, FrameFacts DEF Parts
  <1>6. ASSUME NEW f \in Frames, Nest(f)  PROVE Parts'
    <2>1. /\ f = Outer(f) /\ at[f] = "compute" /\ Part[key[f]] # NoKey
          /\ at' = [at EXCEPT ![f] = "nested", ![Inner(f)] = "lookup"]
          /\ key' = [key EXCEPT ![Inner(f)] = Part[key[f]]]
      BY <1>6 DEF Nest
    <2> DEFINE i == Inner(f)
    <2>2. i \in Frames /\ i # f /\ i = Inner(i) /\ i # Outer(i)  BY <2>1, FrameFacts
    <2>3. /\ at'[f] = "nested" /\ at'[i] = "lookup" /\ key'[f] = key[f]
          /\ key'[i] = Part[key[f]]
          /\ \A g \in Frames : g # f /\ g # i => at'[g] = at[g] /\ key'[g] = key[g]
      BY <1>1, <2>1, <2>2
    <2>4. ASSUME NEW g \in Frames, at'[g] = "nested", g # f
          PROVE  /\ at[g] = "nested" /\ g = Outer(g) /\ key'[g] = key[g]
                 /\ at'[Inner(g)] = at[Inner(g)] /\ key'[Inner(g)] = key[Inner(g)]
      <3>1. g # i /\ at[g] = "nested" /\ key'[g] = key[g]  BY <2>3, <2>4
      <3>2. g = Outer(g)  BY <3>1 DEF Parts
      <3>3. Inner(g) \in Frames /\ Inner(g) # f /\ Inner(g) # i
        BY <2>1, <2>4, <3>2, FrameFacts
      <3> QED  BY <2>3, <3>1, <3>2, <3>3
    <2>5. ASSUME NEW g \in Frames, at'[g] = "nested", g # f
          PROVE  /\ g = Outer(g) /\ at'[Inner(g)] # "idle"
                 /\ Part[key'[g]] # NoKey /\ key'[Inner(g)] = Part[key'[g]]
      <3>1. /\ g = Outer(g) /\ at[Inner(g)] # "idle"
            /\ Part[key[g]] # NoKey /\ key[Inner(g)] = Part[key[g]]
        BY <2>4, <2>5 DEF Parts
      <3> QED  BY <2>4, <2>5, <3>1
    <2>6. /\ f = Outer(f) /\ at'[Inner(f)] # "idle"
          /\ Part[key'[f]] # NoKey /\ key'[Inner(f)] = Part[key'[f]]
      BY <2>1, <2>3
    <2> HIDE DEF i
    <2> QED  BY <2>5, <2>6 DEF Parts
  <1> QED  BY <1>2, <1>3, <1>4, <1>5, <1>6, Steps

\* A part needs no part: who computes one, runs.
LEMMA PartsRunSoon ==
  ASSUME CacheInv, Parts, NEW f \in Frames, at[f] # "idle", Part[key[f]] = NoKey
  PROVE  RunsSoon(f)
PROOF
  <1>1. at[f] # "nested"  BY DEF Parts
  <1>2. CASE at[f] = "wait" /\ event[f] \notin signalled
    <2>1. PICK g \in Frames : at[g] \in Owing /\ event[g] = event[f] /\ key[g] = key[f]
      BY <1>2 DEF CacheInv, Wakeups, NoLostWakeup
    <2>2. at[g] # "nested"  BY <2>1 DEF Parts
    <2>3. Runs(g)  BY <2>1, <2>2 DEF Runs, Owing, Owning
    <2> QED  BY <1>2, <2>1, <2>3 DEF RunsSoon, WaitsFor
  <1> QED  BY <1>1, <1>2 DEF RunsSoon, Runs

\* A computation with a nested call is one wait away from such a part.
LEMMA NestedWaits ==
  ASSUME CacheInv, Parts, NEW f \in Frames, at[f] = "nested"
  PROVE  \E h \in Frames : WaitsFor(f, h) /\ RunsSoon(h)
PROOF
  <1> DEFINE i == Inner(f)
  <1>1. /\ i \in Frames /\ at[i] # "idle" /\ Part[key[f]] # NoKey
        /\ key[i] = Part[key[f]]
    BY FrameFacts DEF Parts
  <1>2. key[f] \in Keys  BY DEF CacheInv, Types
  <1>3. Part[key[i]] = NoKey  BY <1>1, <1>2, CacheAssumption
  <1>4. WaitsFor(f, i)  BY DEF WaitsFor
  <1> HIDE DEF i
  <1> QED  BY <1>1, <1>3, <1>4, PartsRunSoon

\* There is no deadlock among the calls, for any number of threads: whoever
\* waits, waits in the end for a call that can go on.
THEOREM NoDeadlock == CacheSpec => []WaitingEnds
PROOF
  <1>1. CacheInit => Parts  BY DEF CacheInit, Parts
  <1>2. CacheInv /\ Parts /\ [CacheNext]_unifiedVars => Parts'  BY PartsKept
  <1>3. ASSUME CacheInv, Parts  PROVE WaitingEnds
    <2> SUFFICES ASSUME NEW f \in Frames, at[f] # "idle", ~RunsSoon(f)
                 PROVE  \E g \in Frames :
                          /\ WaitsFor(f, g)
                          /\ RunsSoon(g) \/ \E h \in Frames : WaitsFor(g, h) /\ RunsSoon(h)
      BY DEF WaitingEnds
    <2>1. CASE at[f] = "nested"  BY <1>3, <2>1, NestedWaits
    <2>2. CASE at[f] # "nested"
      <3>1. at[f] = "wait" /\ event[f] \notin signalled
        BY <2>2 DEF RunsSoon, Runs
      <3>2. PICK g \in Frames : at[g] \in Owing /\ event[g] = event[f] /\ key[g] = key[f]
        BY <1>3, <3>1 DEF CacheInv, Wakeups, NoLostWakeup
      <3>3. WaitsFor(f, g)  BY <3>1, <3>2 DEF WaitsFor
      <3>4. CASE at[g] = "nested"  BY <1>3, <3>3, <3>4, NestedWaits
      <3>5. CASE at[g] # "nested"
        <4>1. Runs(g)  BY <3>2, <3>5 DEF Runs, Owing, Owning
        <4> QED  BY <3>3, <4>1 DEF RunsSoon
      <3> QED  BY <3>4, <3>5
    <2> QED  BY <2>1, <2>2
  <1> QED  BY <1>1, <1>2, <1>3, CacheInvariance, PTL DEF CacheSpec
=============================================================================
