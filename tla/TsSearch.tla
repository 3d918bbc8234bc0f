------------------------------ MODULE TsSearch ------------------------------
(***************************************************************************)
(* run_transition_state_search (ts_search/transition_state_run.py) on one  *)
(* composition, search after search: the final minima are loaded and       *)
(* paired, each pair's band is optimised and saved under the pair's        *)
(* positions in that list, a geometry gate turns successes down, and       *)
(* reports and database rows are written.  Between searches, and during    *)
(* them, global optimisations find minima; a search may die and its run be *)
(* resumed (run_id).                                                       *)
(*                                                                         *)
(* The system is a supported deposit, with the gate.  A band is what its   *)
(* result says: its verdict, the minima it ran between and whether its     *)
(* structures pass the gate.  A search that finds no pair returns at once  *)
(* and is left out.  Nothing reads the report files back.                  *)
(***************************************************************************)
EXTENDS Integers, Sequences, FiniteSets

CONSTANTS
  Minima,    \* minima of the system, numbered by energy, the lowest first
  Known,     \* those found before the first search
  Home,      \* per minimum, the database that holds it
  BaseName,  \* per database, its basename
  MaxPairs,  \* max_pairs
  Searches,  \* bound: searches
  Crashes    \* bound: searches that die

ASSUME TsSearchAssumption ==
  /\ Minima \subseteq Nat /\ IsFiniteSet(Minima) /\ Known \subseteq Minima
  /\ MaxPairs \in Nat /\ Searches \in Nat /\ Crashes \in Nat

VARIABLES
  found,     \* minima tagged final in their database
  saddles,   \* rows of transition states in the databases
  disk,      \* per run and pair id, the saved result
  network,   \* edges in ts_network_metadata.json
  summary,   \* pair ids that results_summary.json calls a success
  runs,      \* run directories made so far
  searches,  \* searches begun
  crashes,   \* searches that died
  pc,        \* where the running search is
  parallel,  \* use_parallel_neb
  run,       \* its run directory
  minima,    \* the rows it loaded, by energy
  pairs,     \* the pairs it selected, as positions in minima
  results,   \* per pair, its result
  missed,    \* history: minima that were found and left out of a list
  at,        \* the pair of the first pass over them
  untagged   \* edges still to be added to a database

disks == <<found, saddles, disk, network, summary>>
bounds == <<runs, searches, crashes>>
search == <<parallel, run, minima, pairs, missed>>
vars == <<disks, bounds, pc, search, results, at, untagged>>

Runs == 1..Searches
Positions == 1..Cardinality(Minima)
PairIds == {p \in Positions \X Positions : p[1] < p[2]}

Open == [status |-> "open", ran |-> <<0, 0>>, good |-> FALSE]
Skipped == [Open EXCEPT !.status = "skipped"]
Succeeded(result) == result.status = "success"

Init ==
  /\ found = Known /\ saddles = {} /\ network = {} /\ summary = {}
  /\ disk = [r \in Runs |-> [p \in PairIds |-> Open]]
  /\ runs = 0 /\ searches = 0 /\ crashes = 0
  /\ pc = "idle" /\ parallel = FALSE /\ run = 0 /\ minima = <<>>
  /\ pairs = <<>> /\ missed = {} /\ results = <<>> /\ at = 1 /\ untagged = {}
-----------------------------------------------------------------------------
(* Loading and pairing. *)

\* Every image of a band is a copy of its reactant, tags included: the row
\* of a transition state says it is a final minimum, too.
TaggedRows ==
  {[of |-> m, ts |-> FALSE] : m \in found} \cup
  {[of |-> row.ran[1], ts |-> TRUE] : row \in saddles}

\* exclude_transition_states.
IsMinimum(row) == ~row.ts

\* By energy.
Earlier(a, b) == a.of < b.of \/ (a.of = b.of /\ ~a.ts /\ b.ts)

MutantSortings(rows) ==
  {list \in [1..Cardinality(rows) -> rows] :
     \A i, j \in DOMAIN list : i # j => list[i] # list[j]}

Sortings(rows) ==
  {list \in [1..Cardinality(rows) -> rows] :
     \A i, j \in DOMAIN list : i < j => Earlier(list[i], list[j])}

Listed == {row \in TaggedRows : IsMinimum(row)}

\* Positions to connect, best first: what is near in energy and alike is up
\* to the structures.
Selections(list) ==
  {s \in UNION {[1..n -> (1..Len(list)) \X (1..Len(list))] : n \in 1..MaxPairs} :
     /\ \A k \in DOMAIN s : s[k][1] < s[k][2]
     /\ \A k, l \in DOMAIN s : s[k] = s[l] => k = l}

\* In a new run directory, or resuming an old one.  Of what is listed, rows are
\* left out: of a database that cannot be read (a warning), or like another.
Start ==
  /\ pc \in {"idle", "done"} /\ searches < Searches
  /\ searches' = searches + 1
  /\ run' \in 1..(runs + 1) /\ runs' = IF run' > runs THEN run' ELSE runs
  /\ parallel' \in BOOLEAN
  /\ \E rows \in SUBSET Listed :
       /\ minima' \in Sortings(rows)
       /\ missed' = missed \cup (found \ {row.of : row \in rows})
  /\ pairs' \in Selections(minima')
  /\ results' = [k \in DOMAIN pairs' |-> Open]
  /\ untagged' = {} /\ at' = 1
  /\ pc' = "setup"
  /\ UNCHANGED <<disks, crashes>>

Named(p) == <<minima[p[1]].of, minima[p[2]].of>>
-----------------------------------------------------------------------------
(* The pairs. *)

MutantCompleted(result) == FALSE

\* load_completed_neb_result.
Completed(result) == Succeeded(result)

Saved(p, result) == [disk EXCEPT ![run][p] = result]
Put(k, result) == results' = [results EXCEPT ![k] = result]

\* In their order: a pair that is on disk is not optimised again.
Resume ==
  /\ pc = "setup" /\ at \in DOMAIN pairs /\ Completed(disk[run][pairs[at]])
  /\ Put(at, disk[run][pairs[at]])
  /\ at' = at + 1
  /\ UNCHANGED <<disks, bounds, pc, search, untagged>>

\* Endpoints that do not fit the system: only the parallel search saves that.
Skip ==
  /\ pc = "setup" /\ at \in DOMAIN pairs /\ ~Completed(disk[run][pairs[at]])
  /\ Put(at, Skipped)
  /\ disk' = IF parallel THEN Saved(pairs[at], Skipped) ELSE disk
  /\ at' = at + 1
  /\ UNCHANGED <<found, saddles, network, summary, bounds, pc, search, untagged>>

\* The parallel search sets up all bands before it optimises any.
Defer ==
  /\ pc = "setup" /\ parallel
  /\ at \in DOMAIN pairs /\ ~Completed(disk[run][pairs[at]])
  /\ at' = at + 1
  /\ UNCHANGED <<disks, bounds, pc, search, results, untagged>>

AllSetUp ==
  /\ pc = "setup" /\ at \notin DOMAIN pairs /\ pc' = "neb"
  /\ UNCHANGED <<disks, bounds, search, results, at, untagged>>

\* What a band may come to, and its metadata, written last and at once.
Optimised(k) ==
  /\ \E status \in {"success", "failed", "skipped"}, good \in BOOLEAN :
       LET result == [status |-> status, ran |-> Named(pairs[k]), good |-> good] IN
       /\ status = "success" \/ ~good
       /\ Put(k, result) /\ disk' = Saved(pairs[k], result)
  /\ UNCHANGED <<found, saddles, network, summary, bounds, search, untagged>>

\* find_transition_state, pair after pair.
SerialBand ==
  /\ pc = "setup" /\ ~parallel
  /\ at \in DOMAIN pairs /\ ~Completed(disk[run][pairs[at]])
  /\ Optimised(at) /\ at' = at + 1
  /\ UNCHANGED pc

\* run_parallel_neb_search saves a band when its chunk is done.
ParallelBand ==
  /\ pc = "neb" /\ (\E k \in DOMAIN pairs : results[k] = Open /\ Optimised(k))
  /\ UNCHANGED <<pc, at>>

BandsDone ==
  /\ pc = "neb" /\ (\A k \in DOMAIN pairs : results[k] # Open) /\ pc' = "gate"
  /\ UNCHANGED <<disks, bounds, search, results, at, untagged>>
-----------------------------------------------------------------------------
(* The gate, the reports and the databases. *)

MutantRejected(k) ==
  /\ Succeeded(results[k]) /\ ~results[k].good
  /\ \A l \in DOMAIN pairs : l < k => Succeeded(results[l])

\* A structure of a success fails the checks of supported deposits.
Rejected(k) == Succeeded(results[k]) /\ ~results[k].good

Demoted(k) == [results[k] EXCEPT !.status = "failed"]

MutantRewritten(k) == disk

\* Also on disk, that it is not resumed.
Rewritten(k) == Saved(pairs[k], Demoted(k))

Demote ==
  /\ pc = "gate"
  /\ \E k \in DOMAIN pairs :
       /\ Rejected(k) /\ \A l \in DOMAIN pairs : Rejected(l) => k <= l
       /\ Put(k, Demoted(k)) /\ disk' = Rewritten(k)
  /\ UNCHANGED <<found, saddles, network, summary, bounds, pc, search, at, untagged>>

Successes == {k \in DOMAIN pairs : Succeeded(results[k])}

\* save_transition_state_results.
Summarise ==
  /\ pc = "gate" /\ (\A k \in DOMAIN pairs : ~Rejected(k)) /\ pc' = "network"
  /\ summary' = {pairs[k] : k \in Successes}
  /\ UNCHANGED <<found, saddles, disk, network, bounds, search, results, at, untagged>>

\* An edge names the minima at its positions in the list of this search.
Edge(k) == [pair |-> pairs[k], named |-> Named(pairs[k]), ran |-> results[k].ran,
            good |-> results[k].good]

\* save_ts_network_metadata.
SaveNetwork ==
  /\ pc = "network" /\ pc' = "unique"
  /\ network' = {Edge(k) : k \in Successes}
  /\ UNCHANGED <<found, saddles, disk, summary, bounds, search, results, at, untagged>>

\* write_final_unique_ts: whatever is merged, every pair keeps its edge.
WriteUnique ==
  /\ pc = "unique" /\ pc' = "tag"
  /\ untagged' = {Edge(k) : k \in Successes}
  /\ UNCHANGED <<disks, bounds, search, results, at>>

Databases == {Home[m] : m \in found}

\* Looked up by the basename that the reactant names: which database of that
\* basename is up to the order of the directories.
Chosen(edge) == {db \in Databases : BaseName[db] = BaseName[Home[edge.named[1]]]}

\* add_ts_to_database.
AddRow ==
  /\ pc = "tag"
  /\ \E edge \in untagged, db \in Databases :
       /\ db \in Chosen(edge)
       /\ saddles' = saddles \cup
            {[db |-> db, named |-> edge.named, ran |-> edge.ran, good |-> edge.good]}
       /\ untagged' = untagged \ {edge}
  /\ UNCHANGED <<found, disk, network, summary, bounds, pc, search, results, at>>

\* The database stays locked over all retries: a warning.
RowFails ==
  /\ pc = "tag"
  /\ \E edge \in untagged : untagged' = untagged \ {edge}
  /\ UNCHANGED <<disks, bounds, pc, search, results, at>>

Finish ==
  /\ pc = "tag" /\ untagged = {} /\ pc' = "done"
  /\ UNCHANGED <<disks, bounds, search, results, at, untagged>>
-----------------------------------------------------------------------------
(* What happens meanwhile. *)

\* A global optimisation tags another final minimum.
Optimise ==
  /\ \E m \in Minima \ found : found' = found \cup {m}
  /\ UNCHANGED <<saddles, disk, network, summary, bounds, pc, search, results, at,
                 untagged>>

\* The process dies, or an error (out of memory in the screen, a file that
\* cannot be written) ends the search.
Crash ==
  /\ pc \notin {"idle", "done"} /\ crashes < Crashes
  /\ crashes' = crashes + 1
  /\ pc' = "idle" /\ minima' = <<>> /\ pairs' = <<>> /\ results' = <<>>
  /\ at' = 1 /\ untagged' = {}
  /\ UNCHANGED <<disks, runs, searches, parallel, run, missed>>

Next ==
  \/ Start \/ Resume \/ Skip \/ Defer \/ AllSetUp \/ SerialBand \/ ParallelBand
  \/ BandsDone \/ Demote \/ Summarise \/ SaveNetwork \/ WriteUnique \/ AddRow
  \/ RowFails \/ Finish \/ Optimise \/ Crash

Spec == Init /\ [][Next]_vars
-----------------------------------------------------------------------------
(* Properties. *)

\* What the search reports and what goes into the databases has passed the
\* gate, also when the result was loaded from a search that died before its
\* own gate.
AcceptedIsValid == \A edge \in network \cup saddles : edge.good

\* A search that ends leaves one story: its results, the files of its pairs,
\* the summary and the network have the same successes.
ReportsAgree ==
  pc = "done" =>
    /\ summary = {pairs[k] : k \in Successes}
    /\ {edge.pair : edge \in network} = summary
    /\ \A k \in DOMAIN pairs :
         Succeeded(results[k]) <=> Succeeded(disk[run][pairs[k]])

\* Nothing was found since that comes before the endpoints of the band, or
\* between them, and every list had all that does: positions did not shift.
Settled(ran) ==
  /\ \A m \in found \ Known : m \in {ran[1], ran[2]} \/ m > ran[2]
  /\ \A m \in missed : m > ran[2]

\* A saved pair is known by its positions in the list of minima, which each
\* search makes anew, while minima are found and while the databases get rows of
\* transition states that carry the tags of a minimum.  Still, as long as the
\* endpoints of a band are settled, whatever search runs it, dies, resumes it
\* or reports it, its row names the minima that it ran between.
SettledRowsTrace == \A row \in saddles : Settled(row.ran) => row.named = row.ran

\* However often a run dies and is resumed, a pair that is done and passes
\* the gate is not optimised again.
WorkIsKept ==
  [][\A r \in Runs, p \in PairIds :
       Succeeded(disk[r][p]) /\ disk[r][p].good => disk'[r][p] = disk[r][p]]_vars

\* "TS rows can be traced back to the exact GO minima used for the NEB pair"
\* (ts_network.py:90): what a row names is what its band ran between.
RowsTraceToTheirMinima == \A row \in saddles : row.named = row.ran
=============================================================================
