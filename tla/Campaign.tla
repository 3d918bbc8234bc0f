------------------------------ MODULE Campaign ------------------------------
(***************************************************************************)
(* Campaigns on one searches directory: run_trials (minima_search/core.py) *)
(* in several processes, each with a sequence of runs.  A run loads the    *)
(* final minima of earlier runs, searches, joins and deduplicates both,    *)
(* validates, writes final_unique_minima/*.xyz, prunes stale files, and    *)
(* tags the rows of its final minima in the databases.                     *)
(*                                                                         *)
(* A structure is a number, its energy rank; Shape gives its class under   *)
(* the comparator (look-alikes within the energy tolerance), Real tells    *)
(* whether it passes the structural gate and the Hessian.  A row is        *)
(* <<run, position>>.  Runs are numbered in the order they begin: their    *)
(* ids are timestamps.                                                     *)
(***************************************************************************)
EXTENDS Naturals, Sequences, FiniteSets, SequencesExt

CONSTANTS
  Processes,
  MaxRuns,    \* bound: runs over all processes
  Finds,      \* per run, the structures its search relaxes, in order
  Shape,      \* per structure, its class under the comparator
  Real,       \* the structures that pass validation
  Optimizer,  \* "ga" or "bh"
  MaxFaults   \* bound: busy databases, failing writes and validations, crashes

Runs == 1..MaxRuns

ASSUME CampaignAssumption ==
  /\ MaxRuns \in Nat /\ MaxFaults \in Nat
  /\ Finds \in [Runs -> Seq(Nat)]
  /\ Real \subseteq Nat
  /\ Optimizer \in {"ga", "bh"}

VARIABLES
  \* On disk.
  begun,     \* runs begun: directories with metadata.json
  db,        \* per run, its database: "none", "file" or "stamped"
  found,     \* per run, how many rows its database holds
  tags,      \* rows with final_unique_minimum
  folder,    \* final_unique_minima: [rank, run] -> row, as a set of records
  \* Per process.
  pc,        \* where its run_trials is
  run,       \* its run
  memo,      \* _scgo_database_cache: runs -> "unknown", "yes" or "no"
  todo,      \* runs whose databases are still to be read, or tagged
  previous,  \* previous_minima, as a set of rows
  finals,    \* final_minima
  written,   \* XYZ files written so far
  stale,     \* XYZ files still to be removed
  \* History.
  faults,    \* faults so far
  known,     \* rows tagged when the load began
  missed,    \* runs the load had a reason not to read
  blind,     \* runs seen busy or without a stamp since p last stamped one
  rejected,  \* candidates that validation turned down
  chosen,    \* rows that were final minima of some run
  untagged,  \* runs whose database failed to be tagged
  disturbed  \* another process wrote or removed XYZ files meanwhile

diskVars == <<begun, db, found, tags, folder>>
loadVars == <<previous, known, missed>>
finalVars == <<finals, written, stale, rejected, chosen, untagged>>
vars == <<begun, db, found, tags, folder, pc, run, memo, todo, previous,
          finals, written, stale, faults, known, missed, blind, rejected,
          chosen, untagged, disturbed>>

Of(row) == Finds[row[1]][row[2]]
Rows(r) == {<<r, i>> : i \in 1..found[r]}

Init ==
  /\ begun = 0 /\ tags = {} /\ folder = {} /\ faults = 0 /\ chosen = {}
  /\ db = [r \in Runs |-> "none"] /\ found = [r \in Runs |-> 0]
  /\ pc = [p \in Processes |-> "idle"] /\ run = [p \in Processes |-> 0]
  /\ memo = [p \in Processes |-> [r \in Runs |-> "unknown"]]
  /\ todo = [p \in Processes |-> {}] /\ previous = [p \in Processes |-> {}]
  /\ finals = [p \in Processes |-> <<>>] /\ written = [p \in Processes |-> {}]
  /\ stale = [p \in Processes |-> {}]
  /\ known = [p \in Processes |-> {}] /\ missed = [p \in Processes |-> {}]
  /\ blind = [p \in Processes |-> {}] /\ rejected = [p \in Processes |-> {}]
  /\ untagged = [p \in Processes |-> {}]
  /\ disturbed = [p \in Processes |-> FALSE]

GoTo(p, place) == pc' = [pc EXCEPT ![p] = place]
Fault == faults < MaxFaults /\ faults' = faults + 1

-----------------------------------------------------------------------------
(* Discovery: which files are SCGO databases. *)

OnDisk == {r \in Runs : db[r] # "none"}

\* DatabaseDiscovery.find_databases: what the registry has, merged with a scan
\* of the run directories.
MutantFromRegistry(hits) == hits
Merged(hits) == hits \cup OnDisk

\* get_db_stamp: a busy file (0.1 s) looks like one without a stamp.
Stamped(busy) == {r \in Runs : db[r] = "stamped"} \ busy

\* is_scgo_db on each of the files; the answers are remembered.
Remembered(p, files, busy) ==
  [r \in Runs |-> IF memo[p][r] # "unknown" \/ r \notin files THEN memo[p][r]
                  ELSE IF r \in Stamped(busy) THEN "yes" ELSE "no"]

\* A discovery by p among the databases of `of`, some of them busy: the runs
\* found.  The registry has those that this process has set up, unless it was
\* evicted; any part of the files stands for that.
Discover(p, of) ==
  \E hits \in SUBSET (OnDisk \cap of), busy \in SUBSET (OnDisk \cap of) :
    /\ busy # {} => faults < MaxFaults
    /\ faults' = faults + (IF busy = {} THEN 0 ELSE 1)
    /\ LET files == Merged(hits) \cap of
       IN  /\ memo' = [memo EXCEPT ![p] = Remembered(p, files, busy)]
           /\ todo' = [todo EXCEPT ![p] = {r \in files : memo'[p][r] = "yes"}]
    /\ blind' = [blind EXCEPT ![p] = @ \cup ((OnDisk \cap of) \ Stamped(busy))]

-----------------------------------------------------------------------------
(* Begin, and load the final minima of earlier runs. *)

\* ensure_run_id, the directories, metadata.json.
Begin(p) ==
  /\ pc[p] = "idle" /\ begun < MaxRuns
  /\ begun' = begun + 1 /\ run' = [run EXCEPT ![p] = begun']
  /\ \E clean \in BOOLEAN : GoTo(p, IF clean THEN "setup" ELSE "list")
  /\ UNCHANGED <<db, found, tags, folder, memo, todo, loadVars, finalVars,
                 faults, blind, disturbed>>

\* load_previous_run_results lists the databases of the other runs.
List(p) ==
  /\ pc[p] = "list"
  /\ Discover(p, Runs \ {run[p]})
  /\ known' = [known EXCEPT ![p] = tags]
  /\ missed' = [missed EXCEPT ![p] = blind'[p]]
  /\ GoTo(p, "load")
  /\ UNCHANGED <<diskVars, run, previous, finalVars, disturbed>>

\* extract_minima_from_database_file: the relaxed rows with the tag.  A database
\* that stays locked is skipped.
FinalRows(r) == Rows(r) \cap tags
Load(p, r) ==
  /\ pc[p] = "load" /\ r \in todo[p]
  /\ \/ previous' = [previous EXCEPT ![p] = @ \cup FinalRows(r)]
        /\ UNCHANGED <<faults, missed>>
     \/ Fault /\ missed' = [missed EXCEPT ![p] = @ \cup {r}]
        /\ UNCHANGED previous
  /\ todo' = [todo EXCEPT ![p] = @ \ {r}]
  /\ UNCHANGED <<diskVars, pc, run, memo, finalVars, known, blind, disturbed>>

EndLoad(p) ==
  /\ pc[p] = "load" /\ todo[p] = {}
  /\ GoTo(p, "setup")
  /\ UNCHANGED <<diskVars, run, memo, todo, loadVars, finalVars, faults, blind,
                 disturbed>>

-----------------------------------------------------------------------------
(* The search. *)

\* setup_database creates the file with the template row,
CreateDatabase(p) ==
  /\ pc[p] = "setup" /\ db[run[p]] = "none"
  /\ db' = [db EXCEPT ![run[p]] = "file"]
  /\ UNCHANGED <<begun, found, tags, folder, pc, run, memo, todo, loadVars,
                 finalVars, faults, blind, disturbed>>

\* and stamps it: this process forgets what it knew of all files.
MutantKeepsMemo(p) == memo[p]
Forgotten(p) == [r \in Runs |-> "unknown"]
StampDatabase(p) ==
  /\ pc[p] = "setup" /\ db[run[p]] = "file"
  /\ db' = [db EXCEPT ![run[p]] = "stamped"]
  /\ memo' = [memo EXCEPT ![p] = Forgotten(p)]
  /\ blind' = [blind EXCEPT ![p] = {}]
  /\ GoTo(p, "search")
  /\ UNCHANGED <<begun, found, tags, folder, run, todo, loadVars, finalVars,
                 faults, disturbed>>

\* A relaxed, eligible row is committed.
AddRow(p) ==
  /\ pc[p] = "search" /\ found[run[p]] < Len(Finds[run[p]])
  /\ found' = [found EXCEPT ![run[p]] = @ + 1]
  /\ UNCHANGED <<begun, db, tags, folder, pc, run, memo, todo, loadVars,
                 finalVars, faults, blind, disturbed>>

\* The final_id stored with a row: add_relaxed_step computes it, unless the
\* structure already carries one.  A GA candidate does not (candidates grown
\* from a seed of another composition are left out: they bring the tags of the
\* seed); a basin hopping trial is a copy of the current structure,
\* key_value_pairs included, and carries the one of the seed.
FinalId(row) == IF Optimizer = "bh" THEN <<row[1], 1>> ELSE row

-----------------------------------------------------------------------------
(* The final minima: earlier and current ones, deduplicated, validated. *)

Candidates(p) == previous[p] \cup Rows(run[p])

\* Where the stable sort by energy puts a candidate: the earlier minima come
\* before the current ones of the same energy.
Place(p, a) ==
  <<Of(a), IF a[1] = run[p] THEN 1 ELSE 0, a[1], a[2]>>

Before(p, a, b) ==
  LET x == Place(p, a)
      y == Place(p, b)
  IN  \E i \in 1..4 : x[i] < y[i] /\ \A j \in 1..(i - 1) : x[j] = y[j]

\* filter_unique_minima keeps the lowest of each class.
Shadows(p, a, b) == Before(p, a, b) /\ Shape[Of(a)] = Shape[Of(b)]
Unique(p) == {a \in Candidates(p) : ~\E b \in Candidates(p) : Shadows(p, b, a)}

\* What the sort gives.
Sortings(p, rows) ==
  {s \in [1..Cardinality(rows) -> rows] :
     /\ \A a \in rows : \E i \in DOMAIN s : s[i] = a
     /\ \A i, j \in DOMAIN s : i < j => Before(p, s[i], s[j])}

\* The search returned.  One of the candidates may fail its validation for an
\* error instead of its shape.
Select(p) ==
  /\ pc[p] \in {"setup", "search"}
  /\ pc[p] = "setup" => db[run[p]] = "none"
  /\ \E broken \in {{}} \cup {{a} : a \in Unique(p)} :
       /\ IF broken = {} THEN UNCHANGED faults ELSE Fault
       /\ LET valid == {a \in Unique(p) \ broken : Of(a) \in Real}
          IN  /\ \E sorted \in Sortings(p, valid) :
                   finals' = [finals EXCEPT ![p] = sorted]
              /\ rejected' = [rejected EXCEPT ![p] = Unique(p) \ valid]
              /\ chosen' = chosen \cup valid
              /\ GoTo(p, IF valid = {} THEN "done" ELSE "write")
  /\ UNCHANGED <<diskVars, run, memo, todo, loadVars, written, stale, untagged,
                 blind, disturbed>>

-----------------------------------------------------------------------------
(* The folder of final minima. *)

\* Processes between their first XYZ file and their end notice a change.
Disturb(p) ==
  disturbed' = [q \in Processes |->
                  disturbed[q] \/ (q # p /\ pc[q] \in {"write", "prune", "tag", "done"})]

\* A file is named by rank and run of its structure.
Name(p, i) == [rank |-> i, run |-> finals[p][i][1]]
Names == {[rank |-> f.rank, run |-> f.run] : f \in folder}

Write(p) ==
  /\ pc[p] = "write" /\ Cardinality(written[p]) < Len(finals[p])
  /\ LET i == Cardinality(written[p]) + 1
         n == Name(p, i)
     IN  /\ folder' = {f \in folder : ~(f.rank = n.rank /\ f.run = n.run)}
                        \cup {[rank |-> n.rank, run |-> n.run, row |-> finals[p][i]]}
         /\ written' = [written EXCEPT ![p] = @ \cup {n}]
  /\ Disturb(p)
  /\ UNCHANGED <<begun, db, found, tags, pc, run, memo, todo, loadVars, finals,
                 stale, rejected, chosen, untagged, faults, blind>>

\* The glob for superseded files, after the last one is written.
MutantNothingStale(p) == {}
Superseded(p) == Names \ written[p]
ListStale(p) ==
  /\ pc[p] = "write" /\ Cardinality(written[p]) = Len(finals[p])
  /\ stale' = [stale EXCEPT ![p] = Superseded(p)]
  /\ GoTo(p, "prune")
  /\ UNCHANGED <<diskVars, run, memo, todo, loadVars, finals, written, rejected,
                 chosen, untagged, faults, blind, disturbed>>

\* unlink(missing_ok=True)
Unlink(p, n) ==
  /\ pc[p] = "prune" /\ n \in stale[p]
  /\ stale' = [stale EXCEPT ![p] = @ \ {n}]
  /\ folder' = {f \in folder : ~(f.rank = n.rank /\ f.run = n.run)}
  /\ Disturb(p)
  /\ UNCHANGED <<begun, db, found, tags, pc, run, memo, todo, loadVars, finals,
                 written, rejected, chosen, untagged, faults, blind>>

-----------------------------------------------------------------------------
(* Tags in the databases. *)

RunsOf(rows) == {row[1] : row \in rows}

\* mark_final_minima_in_db first looks for the databases of all final minima,
FindDatabases(p) ==
  /\ pc[p] = "prune" /\ stale[p] = {}
  /\ Discover(p, RunsOf(ToSet(finals[p])))
  /\ GoTo(p, "tag")
  /\ UNCHANGED <<diskVars, run, loadVars, finalVars, disturbed>>

\* _match_row_by_stored_final_id: the first relaxed row with that id.
MutantFirstRow(row) == <<row[1], 1>>
Matched(row) ==
  CHOOSE a \in Rows(row[1]) :
    /\ FinalId(a) = FinalId(row)
    /\ \A b \in Rows(row[1]) : FinalId(b) = FinalId(row) => a[2] <= b[2]

\* then tags one database after the other, each in a transaction of its own;
\* the error of one is logged and the others go on.
Tagged(rows) == tags \cup rows
Tag(p, r) ==
  /\ pc[p] = "tag" /\ r \in todo[p]
  /\ \/ /\ tags' = Tagged({Matched(a) : a \in {f \in ToSet(finals[p]) : f[1] = r}})
        /\ UNCHANGED <<faults, untagged>>
     \/ Fault /\ untagged' = [untagged EXCEPT ![p] = @ \cup {r}] /\ UNCHANGED tags
  /\ todo' = [todo EXCEPT ![p] = @ \ {r}]
  /\ UNCHANGED <<begun, db, found, folder, pc, run, memo, loadVars, finals,
                 written, stale, rejected, chosen, blind, disturbed>>

EndTag(p) ==
  /\ pc[p] = "tag" /\ todo[p] = {}
  /\ GoTo(p, "done")
  /\ UNCHANGED <<diskVars, run, memo, todo, loadVars, finalVars, faults, blind,
                 disturbed>>

-----------------------------------------------------------------------------
\* run_trials is over: nothing of its state is left, on disk all of it is.
Leave(p) ==
  /\ GoTo(p, "idle")
  /\ todo' = [todo EXCEPT ![p] = {}] /\ previous' = [previous EXCEPT ![p] = {}]
  /\ finals' = [finals EXCEPT ![p] = <<>>]
  /\ written' = [written EXCEPT ![p] = {}] /\ stale' = [stale EXCEPT ![p] = {}]
  /\ known' = [known EXCEPT ![p] = {}] /\ missed' = [missed EXCEPT ![p] = {}]
  /\ rejected' = [rejected EXCEPT ![p] = {}]
  /\ untagged' = [untagged EXCEPT ![p] = {}]
  /\ disturbed' = [disturbed EXCEPT ![p] = FALSE]
  /\ UNCHANGED <<diskVars, run, chosen>>

\* It returns, and the process may begin another run.
Return(p) ==
  /\ pc[p] = "done" /\ Leave(p)
  /\ UNCHANGED <<memo, faults, blind>>

\* The search raises, or a structure is refused before its file is written: the
\* process lives on.
Raise(p) ==
  /\ pc[p] \in {"setup", "search", "write"} /\ Fault /\ Leave(p)
  /\ UNCHANGED <<memo, blind>>

\* The process dies, wherever it is, and a new one takes its place.
Crash(p) ==
  /\ pc[p] # "idle" /\ Fault /\ Leave(p)
  /\ memo' = [memo EXCEPT ![p] = Forgotten(p)]
  /\ blind' = [blind EXCEPT ![p] = {}]

Finished ==
  /\ begun = MaxRuns /\ \A p \in Processes : pc[p] = "idle"
  /\ UNCHANGED vars

Next ==
  \/ \E p \in Processes :
       \/ Begin(p) \/ List(p) \/ EndLoad(p)
       \/ CreateDatabase(p) \/ StampDatabase(p) \/ AddRow(p) \/ Select(p)
       \/ Write(p) \/ ListStale(p) \/ FindDatabases(p) \/ EndTag(p)
       \/ Return(p) \/ Raise(p) \/ Crash(p)
       \/ \E r \in Runs : Load(p, r) \/ Tag(p, r)
       \/ \E n \in stale[p] : Unlink(p, n)
  \/ Finished

Spec == Init /\ [][Next]_vars

-----------------------------------------------------------------------------
\* The rows of final minima that carry the tag were final minima of a run: no
\* row is tagged by mistake, and what later runs load is what earlier ones
\* reported.
TagsAreHonest == tags \subseteq chosen

\* A run that returns has tagged every one of its final minima, those of earlier
\* runs included, apart from databases that were busy or taken for foreign.
FinalsAreTagged ==
  \A p \in Processes : pc[p] = "done" =>
    \A f \in ToSet(finals[p]) : f \in tags \/ f[1] \in untagged[p] \cup blind[p]

\* What was known is not forgotten: for every minimum tagged when the run began
\* to load, its final minima hold a look-alike at most as high, unless the
\* lowest look-alike failed validation (duplicates are dropped before it), or
\* the database was locked, or was seen busy or without a stamp by this process
\* after it last set up one of its own.
KnownMinimaReturn ==
  \A p \in Processes : pc[p] \in {"write", "prune", "tag", "done"} =>
    \A m \in known[p] :
      \/ m[1] \in missed[p] \cup {run[p]}
      \/ \E f \in ToSet(finals[p]) : Shape[Of(f)] = Shape[Of(m)] /\ Of(f) <= Of(m)
      \/ \E f \in rejected[p] : Shape[Of(f)] = Shape[Of(m)] /\ Of(f) <= Of(m)

\* "The folder mirrors the deduplicated final set": a run that nobody disturbed
\* leaves exactly its final minima, each file with the structure it is named
\* for, also after crashes half-way through earlier runs.
FolderMirrors ==
  \A p \in Processes :
    pc[p] \in {"tag", "done"} /\ finals[p] # <<>> /\ ~disturbed[p] =>
      folder = {[rank |-> i, run |-> finals[p][i][1], row |-> finals[p][i]] :
                  i \in DOMAIN finals[p]}
=============================================================================
