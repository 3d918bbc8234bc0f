------------------------------- MODULE Seeds -------------------------------
(***************************************************************************)
(* How a batch of initial structures finds its material: the scan of       *)
(* earlier searches' databases for final minima that fit in the target     *)
(* composition (initialization/candidate_discovery.py), its two caches,    *)
(* and the plan made from what it finds (plan_batch_initialization,        *)
(* initialization/initializers.py).                                        *)
(*                                                                         *)
(* One process scans, one thread at a time.  Searches, of this process     *)
(* between its scans or of others at any time, write relaxed rows to their *)
(* databases and tag the final ones when they end; every write changes the *)
(* file's mtime.  A scan passes over rows without the tag, so a database   *)
(* is its final minima.  Entries with the same minimum are one.  The scan  *)
(* cache is a target's last entry: older signatures never come back.  The  *)
(* test of its entries for a lost tag is left out: the tag is never taken  *)
(* from an entry.  (_try_exact_match gives its copy tags of its own first; *)
(* a grown seed shares the entry's, to which a search only adds.)          *)
(***************************************************************************)
EXTENDS StrategyAllocation, FiniteSets, Functions

CONSTANTS
  Databases,
  PathComposition, \* composition in the path of a database, per element
  Findable,        \* the minima a search in it may find, [comp, energy, shape]
  Linear,          \* shapes that are no seed (_classify_seed_geometry)
  Goals,           \* target compositions, of more than two atoms
  MaxPerFormula,   \* _MAX_CANDIDATES_PER_FORMULA
  EnergyBins,      \* bins of deduplicate_seed_candidates, 100 in the code
  MaxWrites,       \* bound: writes to the databases
  MaxScans,        \* bound: scans
  MaxFaults,       \* bound: databases that cannot be read
  TemplateCounts,  \* how many templates there may be
  BatchSizes,      \* n_structures
  RawTargets,      \* what logarithmic scaling may ask for
  None

ASSUME SeedsAssumption ==
  /\ MaxPerFormula \in Nat \ {0} /\ EnergyBins \in Nat \ {0}
  /\ {MaxWrites, MaxScans, MaxFaults} \subseteq Nat
  /\ TemplateCounts \cup RawTargets \subseteq Nat /\ BatchSizes \subseteq Nat \ {0}
  /\ \A db \in Databases :
       /\ IsFiniteSet(Findable[db])
       /\ \A m \in Findable[db] :
            /\ m = [comp |-> m.comp, energy |-> m.energy, shape |-> m.shape]
            /\ m.energy \in Int /\ m.shape \in Int

VARIABLES
  finals,    \* per database, its minima tagged final_unique_minimum
  mtime,     \* of the file, 0 while there is none
  memo,      \* _DB_CANONICAL_MTIME, 0 when the database is not in it
  files,     \* cache "db_candidates": its last entry per database
  scans,     \* cache "composition": its last entry per target
  pc,        \* "idle", "read" or "plan"
  goal,      \* the target of the current scan
  signature, \* mtimes of the databases it concerns
  todo,      \* databases to read
  gathered,  \* minima found so far
  answer,    \* the minima it returns, in both tiers
  count,     \* scans so far
  faults,    \* reads that failed
  start,     \* history: finals when the scan began
  failed     \* history: databases a read of which has failed

envVars == <<finals, mtime>>
cacheVars == <<memo, files, scans>>
scanVars == <<goal, signature, todo, gathered, answer, start>>
vars == <<envVars, cacheVars, scanVars, pc, count, faults, failed>>

Size(comp) == FoldFunction(LAMBDA x, y : x + y, 0, comp)

\* is_composition_subset
Within(comp, target) == \A e \in DOMAIN comp : comp[e] <= target[e]

Fits(m, target) ==
  m.comp = target \/ (Size(m.comp) < Size(target) /\ Within(m.comp, target))

Init ==
  /\ finals = [db \in Databases |-> {}]
  /\ mtime = [db \in Databases |-> 0] /\ memo = mtime
  /\ files = [db \in Databases |-> None]
  /\ scans = [t \in Goals |-> None]
  /\ pc = "idle" /\ goal = None /\ signature = <<>> /\ todo = {}
  /\ gathered = {} /\ answer = {}
  /\ count = 0 /\ faults = 0 /\ start = finals /\ failed = {}

-----------------------------------------------------------------------------
\* The searches.

Touch(db) ==
  /\ FoldFunction(+, 0, mtime) < MaxWrites
  /\ mtime' = [mtime EXCEPT ![db] = @ + 1]
  /\ UNCHANGED <<cacheVars, scanVars, pc, count, faults, failed>>

\* A search opens a database or writes relaxed candidates to it.
Write(db) == Touch(db) /\ UNCHANGED finals

\* A search ends and tags its final minima in one transaction.
TagFinals(db) ==
  /\ mtime[db] > 0 /\ Touch(db)
  /\ \E chosen \in SUBSET (Findable[db] \ finals[db]) :
       chosen # {} /\ finals' = [finals EXCEPT ![db] = @ \cup chosen]

\* The process-wide cache is full and drops an entry.
Evict ==
  /\ \/ /\ \E db \in Databases : files[db] # None /\ files' = [files EXCEPT ![db] = None]
        /\ UNCHANGED scans
     \/ /\ \E t \in Goals : scans[t] # None /\ scans' = [scans EXCEPT ![t] = None]
        /\ UNCHANGED files
  /\ UNCHANGED <<envVars, memo, scanVars, pc, count, faults, failed>>

-----------------------------------------------------------------------------
\* The scan, _discover_all_candidates.

\* The glob finds the files there are; their paths say which concern t.
Concerned(t) == {db \in Databases : mtime[db] > 0 /\ Within(PathComposition[db], t)}

\* _compute_files_signature
Signature(t) == [db \in Concerned(t) |-> mtime[db]]

\* An entry of the composition cache is for one set of files, as they were.
MutantAnyFiles(entry, t) == entry # None
IsCurrent(entry, t) == entry # None /\ entry.signature = Signature(t)

Begin(t) ==
  /\ pc = "idle" /\ count < MaxScans /\ count' = count + 1
  /\ goal' = t /\ signature' = Signature(t) /\ start' = finals
  /\ UNCHANGED <<envVars, cacheVars, faults, failed>>

Hit(t) ==
  /\ IsCurrent(scans[t], t)
  /\ Begin(t)
  /\ answer' = scans[t].answer /\ pc' = "plan"
  /\ UNCHANGED <<todo, gathered>>

Miss(t) ==
  /\ ~IsCurrent(scans[t], t)
  /\ Begin(t)
  /\ todo' = Concerned(t) /\ gathered' = {} /\ answer' = {} /\ pc' = "read"

\* The mtime that keys a database's candidates is the first one seen.
Canonical(db) == IF memo[db] = 0 THEN mtime[db] ELSE memo[db]

IsCached(db) == files[db] # None /\ files[db].mtime = Canonical(db)

\* _load_db_candidates: a read that fails is no candidates, and is cached.
ReadDb(db) ==
  /\ pc = "read" /\ db \in todo
  /\ todo' = todo \ {db}
  /\ memo' = [memo EXCEPT ![db] = Canonical(db)]
  /\ \/ /\ IsCached(db)
        /\ UNCHANGED <<files, faults, failed>>
     \/ /\ ~IsCached(db)
        /\ files' = [files EXCEPT ![db] =
             [mtime |-> Canonical(db), finals |-> finals[db]]]
        /\ UNCHANGED <<faults, failed>>
     \/ /\ ~IsCached(db) /\ faults < MaxFaults
        /\ files' = [files EXCEPT ![db] =
             [mtime |-> Canonical(db), finals |-> {}]]
        /\ faults' = faults + 1 /\ failed' = failed \cup {db}
  /\ gathered' = gathered \cup {m \in files'[db].finals : Fits(m, goal)}
  /\ UNCHANGED <<envVars, scans, pc, goal, signature, answer, count, start>>

Ahead(m, o) ==
  m.energy < o.energy \/ (m.energy = o.energy /\ m.shape <= o.shape)

\* round(energy / energy_bin), where the bin is a fraction of the range.
Bin(m, bucket) ==
  LET range == Max({o.energy : o \in bucket}) - Min({o.energy : o \in bucket})
  IN  IF range = 0 THEN 0
      ELSE (2 * EnergyBins * m.energy + range) \div (2 * range)

\* deduplicate_seed_candidates: the first of a shape in its energy bin.
Deduplicated(bucket) ==
  {m \in bucket : \A o \in bucket :
     o.shape = m.shape /\ Bin(o, bucket) = Bin(m, bucket) => Ahead(m, o)}

\* _postprocess_candidate_bucket
Postprocessed(bucket) ==
  LET kept == Deduplicated(bucket)
  IN  {m \in kept : Cardinality({o \in kept : Ahead(o, m)}) <= MaxPerFormula}

EndScan ==
  /\ pc = "read" /\ todo = {}
  /\ answer' = UNION {Postprocessed({m \in gathered : m.comp = formula}) :
                        formula \in {m.comp : m \in gathered}}
  /\ scans' = [scans EXCEPT ![goal] = [signature |-> signature, answer |-> answer']]
  /\ gathered' = {} /\ pc' = "plan"
  /\ UNCHANGED <<envVars, memo, files, goal, signature, todo, start, count,
                 faults, failed>>

-----------------------------------------------------------------------------
\* The plan.

\* _find_valid_seed_combinations: up to three formulas that fit together.
Combinations(formulas, target) ==
  {combo \in SUBSET formulas :
     /\ Cardinality(combo) \in 1..3
     /\ \A e \in DOMAIN target :
          MapThenSumSet(LAMBDA comp : comp[e], combo) <= target[e]}

\* What is left after _filter_candidates_by_geometry, as options of a plan
\* that has t templates.
Options(t) ==
  LET suitable == {m \in answer : m.shape \notin Linear}
      exact == {m \in suitable : m.comp = goal}
  IN  [template |-> t,
       seed |-> Cardinality(Combinations({m.comp : m \in suitable \ exact}, goal)),
       exact |-> Cardinality(exact)]

\* plan_batch_initialization in smart mode: its allocations are Allocated for
\* these options; the structures are built from them.
Plan ==
  /\ pc = "plan" /\ pc' = "idle"
  /\ goal' = None /\ signature' = <<>> /\ answer' = {}
  /\ start' = [db \in Databases |-> {}]
  /\ UNCHANGED <<envVars, cacheVars, todo, gathered, count, faults, failed>>

Next ==
  \/ \E db \in Databases : Write(db) \/ TagFinals(db) \/ ReadDb(db)
  \/ Evict
  \/ \E t \in Goals : Hit(t) \/ Miss(t)
  \/ EndScan
  \/ Plan

Spec == Init /\ [][Next]_vars

-----------------------------------------------------------------------------
\* The answer holds something as low as every final minimum of a database.
Represented(db) ==
  \A m \in start[db] : Fits(m, goal) =>
    \E a \in answer : a.comp = m.comp /\ a.energy <= m.energy

\* What is known is offered as a seed, through both caches, deduplication and
\* the cap: for every formula the lowest final minimum of each database that
\* could always be read and has not changed since this process first met it.
KnownMinimaSeed ==
  pc = "plan" =>
    \A db \in DOMAIN signature \ failed :
      signature[db] = memo[db] => Represented(db)

\* The plan of a batch covers what was found.
PlanCoversOptions ==
  pc = "plan" =>
    \A t \in TemplateCounts :
      LET options == Options(t)
      IN  \A n \in BatchSizes, raw \in [Strategies -> RawTargets] :
            CoversOptions(Allocated(raw, options, n), raw, options, n)
=============================================================================
