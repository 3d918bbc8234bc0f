--------------------------- MODULE EvolutionProofs ---------------------------
(***************************************************************************)
(* Proofs about OffspringWorkers and Evolution, for any processes,         *)
(* operators, scores, shapes and batches.  What the population promises of *)
(* one batch (PopulationProofs) becomes a property of the whole run.       *)
(***************************************************************************)
EXTENDS Evolution, PopulationProofs

-----------------------------------------------------------------------------
(* The processes. *)

WorkerTypes ==
  /\ generation \in Nat /\ running \in BOOLEAN /\ poolCtx \in Nat
  /\ state \in [Processes -> [epoch : Nat, ctx : Nat]]
  /\ loadedIn \in [Processes -> Nat] /\ served \in [Processes -> Nat]

\* What a process holds is the context it was given: this process that of the
\* generation, a worker that of the pool.
Contexts ==
  /\ poolCtx <= generation
  /\ state[Parent] = IF running THEN Loaded(generation) ELSE Empty
  /\ \A w \in Workers : state[w] \in {Empty, Loaded(poolCtx)}

\* A context was loaded in its generation or later, and jobs are built after
\* loading.
Loadings ==
  \A p \in Processes :
    /\ loadedIn[p] <= generation
    /\ state[p].epoch <= loadedIn[p] /\ served[p] <= loadedIn[p]

WorkersInv == WorkerTypes /\ Contexts /\ Loadings

\* Nothing is loaded at first.
LEMMA WorkersInit == Init => WorkersInv
PROOF
  <1> SUFFICES ASSUME Init  PROVE WorkersInv
    OBVIOUS
  <1>1. Empty \in [epoch : Nat, ctx : Nat] /\ Empty.epoch = 0
    BY DEF Empty
  <1>2. Parent \in Processes /\ Workers \subseteq Processes
    BY DEF Processes
  <1>3. WorkerTypes  BY <1>1 DEF Init, WorkerTypes
  <1>4. Contexts  BY <1>2 DEF Init, Contexts
  <1>5. Loadings  BY <1>1 DEF Init, Loadings
  <1> QED  BY <1>3, <1>4, <1>5 DEF WorkersInv

\* A generation begins.
LEMMA BeginWorkers == WorkersInv /\ BeginGeneration => WorkersInv'
PROOF
  <1> SUFFICES ASSUME WorkersInv, BeginGeneration  PROVE WorkersInv'
    OBVIOUS
  <1> DEFINE g == generation + 1
  <1>1. /\ generation' = g /\ running' = TRUE /\ ~running
        /\ poolCtx' \in IF poolCtx = 0 THEN {0, g} ELSE {poolCtx}
        /\ state' = [state EXCEPT ![Parent] = Ensured(g)]
        /\ loadedIn' = IF state' = state THEN loadedIn
                       ELSE [loadedIn EXCEPT ![Parent] = g]
        /\ served' = served
    BY DEF BeginGeneration
  <1>2. WorkerTypes /\ Contexts /\ Loadings /\ g \in Nat /\ g # 0 /\ generation < g
    BY DEF WorkersInv, WorkerTypes
  <1>3. Parent \in Processes /\ Workers \subseteq Processes /\ Parent \notin Workers
    BY OffspringAssumption DEF OffspringAssumption, Processes
  <1>4. Loaded(g) \in [epoch : Nat, ctx : Nat] /\ Loaded(g).epoch = g /\ Empty.epoch = 0
    BY <1>2 DEF Loaded, Empty
  <1>5. Ensured(g) = Loaded(g)
    BY <1>1, <1>2, <1>4 DEF Ensured, Contexts
  <1>6. state'[Parent] = Loaded(g) /\ \A w \in Workers : state'[w] = state[w]
    BY <1>1, <1>2, <1>3, <1>5 DEF WorkerTypes
  <1>7. state' # state
    BY <1>1, <1>2, <1>4, <1>6 DEF Contexts
  <1>8. loadedIn' = [loadedIn EXCEPT ![Parent] = g]
    BY <1>1, <1>7
  <1>9. WorkerTypes'
    BY <1>1, <1>2, <1>4, <1>5, <1>8 DEF WorkerTypes
  <1>10. Contexts'
    <2>1. poolCtx' <= g /\ poolCtx' \in Nat  BY <1>1, <1>2 DEF Contexts, WorkerTypes
    <2>2. \A w \in Workers : state'[w] \in {Empty, Loaded(poolCtx')}
      BY <1>1, <1>2, <1>6 DEF Contexts, Empty, Loaded
    <2> QED  BY <1>1, <1>6, <2>1, <2>2 DEF Contexts
  <1>11. Loadings'
    <2> SUFFICES ASSUME NEW p \in Processes
                 PROVE  /\ loadedIn'[p] <= g
                        /\ state'[p].epoch <= loadedIn'[p] /\ served[p] <= loadedIn'[p]
      BY <1>1 DEF Loadings
    <2>1. /\ loadedIn[p] \in Nat /\ served[p] \in Nat /\ generation \in Nat
          /\ loadedIn[p] <= generation /\ served[p] <= loadedIn[p]
          /\ state[p].epoch <= loadedIn[p]
      BY <1>2 DEF WorkerTypes, Loadings
    <2>2. CASE p = Parent
      BY <2>1, <2>2, <1>2, <1>4, <1>6, <1>8 DEF WorkerTypes
    <2>3. CASE p # Parent
      <3>1. loadedIn'[p] = loadedIn[p] /\ state'[p] = state[p]
        BY <2>3, <1>1, <1>2, <1>8 DEF WorkerTypes
      <3> QED  BY <2>1, <3>1, <1>2
    <2> QED  BY <2>2, <2>3
  <1> QED  BY <1>9, <1>10, <1>11 DEF WorkersInv

\* The pool starts a process.
LEMMA BootstrapWorkers ==
  ASSUME WorkersInv, NEW w \in Workers, Bootstrap(w)  PROVE WorkersInv'
PROOF
  <1>1. /\ state' = [state EXCEPT ![w] = Loaded(poolCtx)]
        /\ loadedIn' = [loadedIn EXCEPT ![w] = generation]
        /\ UNCHANGED <<generation, running, poolCtx, served>>
    BY DEF Bootstrap
  <1>2. WorkerTypes /\ Contexts /\ Loadings  BY DEF WorkersInv
  <1>3. Parent \in Processes /\ Workers \subseteq Processes /\ Parent \notin Workers
    BY OffspringAssumption DEF OffspringAssumption, Processes
  <1>4. Loaded(poolCtx) \in [epoch : Nat, ctx : Nat] /\ Loaded(poolCtx).epoch = poolCtx
    BY <1>2 DEF Loaded, WorkerTypes
  <1>5. WorkerTypes'  BY <1>1, <1>2, <1>4 DEF WorkerTypes
  <1>6. Contexts'  BY <1>1, <1>2, <1>3 DEF Contexts, WorkerTypes
  <1>7. Loadings'
    <2> SUFFICES ASSUME NEW p \in Processes
                 PROVE  /\ loadedIn'[p] <= generation
                        /\ state'[p].epoch <= loadedIn'[p] /\ served[p] <= loadedIn'[p]
      BY <1>1 DEF Loadings
    <2>1. /\ loadedIn[p] \in Nat /\ served[p] \in Nat /\ generation \in Nat
          /\ loadedIn[p] <= generation /\ served[p] <= loadedIn[p]
          /\ state[p].epoch <= loadedIn[p]
      BY <1>2 DEF WorkerTypes, Loadings
    <2>2. CASE p = w
      <3>1. loadedIn'[p] = generation /\ state'[p] = Loaded(poolCtx)
        BY <2>2, <1>1, <1>2, <1>3 DEF WorkerTypes
      <3> QED  BY <2>1, <3>1, <1>2, <1>4 DEF Contexts
    <2>3. CASE p # w
      <3>1. loadedIn'[p] = loadedIn[p] /\ state'[p] = state[p]
        BY <2>3, <1>1, <1>2 DEF WorkerTypes
      <3> QED  BY <2>1, <3>1
    <2> QED  BY <2>2, <2>3
  <1> QED  BY <1>5, <1>6, <1>7 DEF WorkersInv

\* A process builds a job; it loads its context once more if that is of another
\* generation.
LEMMA BuildWorkers ==
  ASSUME WorkersInv, NEW p \in Processes, Build(p)  PROVE WorkersInv'
PROOF
  <1>1. /\ running /\ served' = [served EXCEPT ![p] = generation]
        /\ UNCHANGED <<generation, running, poolCtx>>
        /\ IF MustReload(p)
             THEN /\ state' = [state EXCEPT ![p] = Loaded(state[p].ctx)]
                  /\ loadedIn' = [loadedIn EXCEPT ![p] = generation]
             ELSE UNCHANGED <<state, loadedIn>>
    BY DEF Build
  <1>2. WorkerTypes /\ Contexts /\ Loadings  BY DEF WorkersInv
  <1>3. Processes = Workers \cup {Parent}  BY DEF Processes
  <1>4. state[p] = Loaded(state[p].ctx)
    BY <1>2, <1>3 DEF Contexts, Loaded, Empty
  <1>5. state' = state
    <2>1. [state EXCEPT ![p] = state[p]] = state  BY <1>2 DEF WorkerTypes
    <2> QED  BY <1>1, <1>4, <2>1
  <1>6. loadedIn' \in [Processes -> Nat] /\ served' \in [Processes -> Nat]
    BY <1>1, <1>2 DEF WorkerTypes
  <1>7. loadedIn'[p] = generation
    <2>1. CASE MustReload(p)  BY <2>1, <1>1, <1>2 DEF WorkerTypes
    <2>2. CASE ~MustReload(p)
      <3>1. state[p].epoch = generation /\ loadedIn' = loadedIn
        BY <2>2, <1>1 DEF MustReload
      <3> QED  BY <3>1, <1>2 DEF WorkerTypes, Loadings
    <2> QED  BY <2>1, <2>2
  <1>8. Loadings'
    <2> SUFFICES ASSUME NEW q \in Processes
                 PROVE  /\ loadedIn'[q] <= generation
                        /\ state[q].epoch <= loadedIn'[q] /\ served'[q] <= loadedIn'[q]
      BY <1>1, <1>5 DEF Loadings
    <2>1. /\ loadedIn[q] \in Nat /\ served[q] \in Nat /\ generation \in Nat
          /\ loadedIn[q] <= generation /\ served[q] <= loadedIn[q]
          /\ state[q].epoch <= loadedIn[q] /\ state[q].epoch \in Nat
      BY <1>2 DEF WorkerTypes, Loadings
    <2>2. CASE q = p
      <3>1. served'[q] = generation  BY <2>2, <1>1, <1>2 DEF WorkerTypes
      <3> QED  BY <2>1, <2>2, <3>1, <1>7
    <2>3. CASE q # p
      <3>1. loadedIn'[q] = loadedIn[q] /\ served'[q] = served[q]
        BY <2>3, <1>1, <1>2 DEF WorkerTypes
      <3> QED  BY <2>1, <3>1
    <2> QED  BY <2>2, <2>3
  <1> QED  BY <1>1, <1>2, <1>5, <1>6, <1>8 DEF WorkersInv, WorkerTypes, Contexts

\* A generation ends: this process forgets.
LEMMA EndWorkers == WorkersInv /\ EndGeneration => WorkersInv'
PROOF
  <1> SUFFICES ASSUME WorkersInv, EndGeneration  PROVE WorkersInv'
    OBVIOUS
  <1>1. /\ running' = FALSE /\ state' = [state EXCEPT ![Parent] = Empty]
        /\ UNCHANGED <<generation, poolCtx, loadedIn, served>>
    BY DEF EndGeneration
  <1>2. WorkerTypes /\ Contexts /\ Loadings  BY DEF WorkersInv
  <1>3. Parent \in Processes /\ Workers \subseteq Processes /\ Parent \notin Workers
    BY OffspringAssumption DEF OffspringAssumption, Processes
  <1>4. Empty \in [epoch : Nat, ctx : Nat] /\ Empty.epoch = 0  BY DEF Empty
  <1>5. WorkerTypes'  BY <1>1, <1>2, <1>4 DEF WorkerTypes
  <1>6. Contexts'  BY <1>1, <1>2, <1>3 DEF Contexts, WorkerTypes
  <1>7. Loadings'
    <2> SUFFICES ASSUME NEW p \in Processes  PROVE state'[p].epoch <= loadedIn[p]
      BY <1>1, <1>2 DEF Loadings
    <2>1. loadedIn[p] \in Nat /\ state[p].epoch <= loadedIn[p]
      BY <1>2 DEF WorkerTypes, Loadings
    <2>2. state'[p] = IF p = Parent THEN Empty ELSE state[p]
      BY <1>1, <1>2 DEF WorkerTypes
    <2> QED  BY <2>1, <2>2, <1>4
  <1> QED  BY <1>5, <1>6, <1>7 DEF WorkersInv

\* Nothing happens to the processes.
LEMMA StillWorkers == WorkersInv /\ UNCHANGED vars => WorkersInv'
PROOF
  BY DEF vars, WorkersInv, WorkerTypes, Contexts, Loadings

LEMMA WorkersStep == WorkersInv /\ [Next]_vars => WorkersInv'
PROOF
  <1> SUFFICES ASSUME WorkersInv, [Next]_vars  PROVE WorkersInv'
    OBVIOUS
  <1>1. CASE BeginGeneration  BY <1>1, BeginWorkers
  <1>2. CASE EndGeneration  BY <1>2, EndWorkers
  <1>3. CASE \E w \in Workers : Bootstrap(w)  BY <1>3, BootstrapWorkers
  <1>4. CASE \E p \in Processes : Build(p)  BY <1>4, BuildWorkers
  <1>5. CASE UNCHANGED vars  BY <1>5, StillWorkers
  <1> QED  BY <1>1, <1>2, <1>3, <1>4, <1>5 DEF Next, Done

LEMMA WorkersFresh == WorkersInv => OperatorsAreOfThisGeneration
PROOF
  BY DEF WorkersInv, WorkerTypes, Loadings, OperatorsAreOfThisGeneration

\* Every job is built with operators loaded in its generation, in whatever
\* process, by the processes alone ...
THEOREM ProcessesAreFresh == Spec => []OperatorsAreOfThisGeneration
PROOF
  <1>1. Init => WorkersInv  BY WorkersInit
  <1>2. WorkersInv /\ [Next]_vars => WorkersInv'  BY WorkersStep
  <1>3. WorkersInv => OperatorsAreOfThisGeneration  BY WorkersFresh
  <1> QED  BY <1>1, <1>2, <1>3, PTL DEF Spec

\* ... and in the evolution they work for.
THEOREM OperatorsAreFresh == CSpec => []OperatorsAreOfThisGeneration
PROOF
  <1>1. CInit => WorkersInv  BY WorkersInit DEF CInit
  <1>2. WorkersInv /\ [CNext]_<<vars, creditVars>> => WorkersInv'
    <2> SUFFICES ASSUME WorkersInv, [CNext]_<<vars, creditVars>>  PROVE WorkersInv'
      OBVIOUS
    <2>1. [Next]_vars
      BY DEF CNext, Next, CBeginGeneration, CBuild, Commit
    <2> QED  BY <2>1, WorkersStep
  <1>3. WorkersInv => OperatorsAreOfThisGeneration  BY WorkersFresh
  <1> QED  BY <1>1, <1>2, <1>3, PTL DEF CSpec

-----------------------------------------------------------------------------
(* Credit. *)

CreditTypes ==
  /\ credit \in [Operators -> [trials : Nat, unique : Nat]]
  /\ pending \in Seq(Operators \cup {NoOperator})
  /\ relaxed \in Nat /\ valid \in [Operators -> Nat]

CreditInv == CreditTypes /\ CreditIsEarned

LEMMA CreditInit == CInit => CreditInv
PROOF
  <1> SUFFICES ASSUME CInit  PROVE CreditInv
    OBVIOUS
  <1>1. NoCredit \in [trials : Nat, unique : Nat]
        /\ NoCredit.trials = 0 /\ NoCredit.unique = 0
    BY DEF NoCredit
  <1>2. CreditTypes  BY <1>1 DEF CInit, CreditTypes
  <1>3. CreditIsEarned  BY <1>1 DEF CInit, CreditIsEarned
  <1> QED  BY <1>2, <1>3 DEF CreditInv

\* Halving keeps the order.
LEMMA HalvesInOrder ==
  ASSUME NEW m \in Nat, NEW n \in Nat, m <= n
  PROVE  m \div 2 \in Nat /\ m \div 2 <= n \div 2 /\ n \div 2 <= n
PROOF
  OBVIOUS

\* The counts are halved at the beginning of a generation.
LEMMA DecayKeepsOrder == CreditInv /\ CBeginGeneration => CreditInv'
PROOF
  <1> SUFFICES ASSUME CreditInv, CBeginGeneration  PROVE CreditInv'
    OBVIOUS
  <1>1. credit' = Decayed /\ UNCHANGED <<pending, relaxed, valid>>
    BY DEF CBeginGeneration
  <1>2. CreditTypes /\ CreditIsEarned  BY DEF CreditInv
  <1>3. ASSUME NEW o \in Operators
        PROVE  /\ Decayed[o] \in [trials : Nat, unique : Nat]
               /\ Decayed[o].unique <= Decayed[o].trials /\ Decayed[o].trials <= valid[o]
    <2> DEFINE t == credit[o].trials
               u == credit[o].unique
    <2>1. t \in Nat /\ u \in Nat /\ valid[o] \in Nat /\ u <= t /\ t <= valid[o]
      BY <1>2 DEF CreditTypes, CreditIsEarned
    <2>2. Decayed[o].trials = t \div 2 /\ Decayed[o].unique = u \div 2
          /\ Decayed[o] = [trials |-> t \div 2, unique |-> u \div 2]
      BY DEF Decayed
    <2> HIDE DEF t, u
    <2>3. t \div 2 \in Nat /\ u \div 2 \in Nat /\ u \div 2 <= t \div 2 /\ t \div 2 <= t
      BY <2>1, HalvesInOrder
    <2> QED  BY <2>1, <2>2, <2>3
  <1>4. Decayed \in [Operators -> [trials : Nat, unique : Nat]]
    <2>1. Decayed = [o \in Operators |-> Decayed[o]]  BY DEF Decayed
    <2> HIDE DEF Decayed
    <2> QED  BY <1>3, <2>1
  <1>5. CreditTypes'  BY <1>1, <1>2, <1>4 DEF CreditTypes
  <1>6. CreditIsEarned'  BY <1>1, <1>3 DEF CreditIsEarned
  <1> QED  BY <1>5, <1>6 DEF CreditInv

LEMMA BuildKeepsCredit ==
  ASSUME CreditInv, NEW p \in Processes, CBuild(p)  PROVE CreditInv'
PROOF
  <1>1. UNCHANGED <<credit, relaxed, valid>>  BY DEF CBuild
  <1>2. pending' \in Seq(Operators \cup {NoOperator})
    <2>1. pending \in Seq(Operators \cup {NoOperator})  BY DEF CreditInv, CreditTypes
    <2>2. CASE UNCHANGED pending  BY <2>1, <2>2
    <2>3. ASSUME NEW o \in Operators \cup {NoOperator}, pending' = Append(pending, o)
          PROVE  pending' \in Seq(Operators \cup {NoOperator})
      BY <2>1, <2>3
    <2> QED  BY <2>2, <2>3 DEF CBuild
  <1> QED  BY <1>1, <1>2 DEF CreditInv, CreditTypes, CreditIsEarned

-----------------------------------------------------------------------------
(* One batch. *)

\* How many rows a batch takes.
Taken == IF Len(pending) < Batch THEN Len(pending) ELSE Batch

\* A batch: its rows, which of them are eligible and what they became.
Batches(rows, eligible, got) ==
  /\ rows = SubSeq(pending, 1, Taken) /\ eligible \in SUBSET (1..Taken)
  /\ got \in [{relaxed + i : i \in eligible} -> [score : Scores, shape : Shapes]]

Tagged(rows, eligible, o) == {i \in eligible : rows[i] = o}

\* What Commit does, without its local names.
Commits(rows, eligible, got) ==
  /\ Batches(rows, eligible, got)
  /\ pop' = UpdatedWith(pop, AsCandidates(got))
  /\ shapes' = shapes \cup {got[i].shape : i \in DOMAIN got}
  /\ relaxed' = relaxed + Taken
  /\ valid' = [o \in Operators |-> valid[o] + Cardinality(Tagged(rows, eligible, o))]
  /\ pending' = SubSeq(pending, Taken + 1, Len(pending))
  /\ credit' = [o \in Operators |->
       [trials |-> credit[o].trials + Cardinality(Tagged(rows, eligible, o)),
        unique |-> credit[o].unique
                     + Cardinality({i \in Tagged(rows, eligible, o) :
                                      IsNew(pop', relaxed + i)})]]

\* What a batch has in hand.
LEMMA BatchFacts ==
  ASSUME CreditTypes, NEW rows, NEW eligible, NEW got, Batches(rows, eligible, got)
  PROVE  /\ Taken \in Nat /\ Taken <= Len(pending)
         /\ eligible \subseteq Int /\ IsFiniteSet(eligible)
         /\ \A T \in SUBSET eligible :
              /\ IsFiniteSet(T) /\ Cardinality(T) \in Nat
              /\ \A U \in SUBSET T : Cardinality(U) <= Cardinality(T)
PROOF
  <1>1. Taken \in Nat /\ Taken <= Len(pending)
    BY CreditAssumption DEF CreditAssumption, CreditTypes, Taken
  <1>2. eligible \subseteq 1..Taken  BY DEF Batches
  <1>3. IsFiniteSet(1..Taken)  BY <1>1, FS_Interval
  <1>4. \A T \in SUBSET eligible : IsFiniteSet(T) /\ Cardinality(T) \in Nat
    BY <1>2, <1>3, FS_Subset, FS_CardinalityType
  <1>5. \A T \in SUBSET eligible : \A U \in SUBSET T : Cardinality(U) <= Cardinality(T)
    BY <1>4, FS_Subset
  <1>6. eligible \in SUBSET eligible  OBVIOUS
  <1> QED  BY <1>1, <1>2, <1>4, <1>5, <1>6

\* A batch that was written before, up to a lock error, is counted once.
LEMMA CommitOnce ==
  ASSUME CreditTypes, Commit  PROVE \E rows, eligible, got : Commits(rows, eligible, got)
PROOF
  <1> DEFINE rows == SubSeq(pending, 1, Taken)
             of(e, o) == {i \in e : rows[i] = o}
  <1>1. PICK eligible \in SUBSET (1..Taken) :
          \E got \in [{relaxed + i : i \in eligible} -> [score : Scores, shape : Shapes]] :
            /\ pop' = UpdatedWith(pop, AsCandidates(got))
            /\ shapes' = shapes \cup {got[i].shape : i \in DOMAIN got}
            /\ relaxed' = relaxed + Taken
            /\ valid' = [o \in Operators |-> valid[o] + Cardinality(of(eligible, o))]
            /\ pending' = SubSeq(pending, Taken + 1, Len(pending))
            /\ \E failedAfter \in 0..Taken :
                 LET found == FreshNames(Names(rows, eligible \cap (1..failedAfter)))
                     added == Names(rows, eligible)
                 IN  credit' = Credited(
                       [o \in Operators |-> found[o] + added[o]],
                       [o \in Operators |-> {i \in of(eligible, o) : IsNew(pop', relaxed + i)}])
    BY Zenon DEF Commit, Taken
  <1>2. PICK got \in [{relaxed + i : i \in eligible} -> [score : Scores, shape : Shapes]] :
            /\ pop' = UpdatedWith(pop, AsCandidates(got))
            /\ shapes' = shapes \cup {got[i].shape : i \in DOMAIN got}
            /\ relaxed' = relaxed + Taken
            /\ valid' = [o \in Operators |-> valid[o] + Cardinality(of(eligible, o))]
            /\ pending' = SubSeq(pending, Taken + 1, Len(pending))
            /\ \E failedAfter \in 0..Taken :
                 LET found == FreshNames(Names(rows, eligible \cap (1..failedAfter)))
                     added == Names(rows, eligible)
                 IN  credit' = Credited(
                       [o \in Operators |-> found[o] + added[o]],
                       [o \in Operators |-> {i \in of(eligible, o) : IsNew(pop', relaxed + i)}])
    BY <1>1
  <1>3. PICK failedAfter \in 0..Taken :
          LET found == FreshNames(Names(rows, eligible \cap (1..failedAfter)))
              added == Names(rows, eligible)
          IN  credit' = Credited(
                [o \in Operators |-> found[o] + added[o]],
                [o \in Operators |-> {i \in of(eligible, o) : IsNew(pop', relaxed + i)}])
    BY <1>2
  <1>4. Batches(rows, eligible, got)  BY <1>2 DEF Batches
  <1>5. ASSUME NEW o \in Operators
        PROVE  FreshNames(Names(rows, eligible \cap (1..failedAfter)))[o] + Names(rows, eligible)[o]
                 = Cardinality(Tagged(rows, eligible, o))
    <2>1. Names(rows, eligible)[o] = Cardinality(Tagged(rows, eligible, o))
      BY DEF Names, Tagged
    <2>2. Tagged(rows, eligible, o) \in SUBSET eligible  BY DEF Tagged
    <2>3. Cardinality(Tagged(rows, eligible, o)) \in Nat  BY <1>4, <2>2, BatchFacts
    <2>4. FreshNames(Names(rows, eligible \cap (1..failedAfter)))[o] = 0  BY DEF FreshNames
    <2> HIDE DEF rows
    <2> QED  BY <2>1, <2>3, <2>4
  <1>6. credit' = [o \in Operators |->
          [trials |-> credit[o].trials + Cardinality(Tagged(rows, eligible, o)),
           unique |-> credit[o].unique
                        + Cardinality({i \in Tagged(rows, eligible, o) :
                                         IsNew(pop', relaxed + i)})]]
    <2>1. \A o \in Operators : of(eligible, o) = Tagged(rows, eligible, o)  BY DEF Tagged
    <2> HIDE DEF rows, of
    <2> QED  BY <1>3, <1>5, <2>1, Zenon DEF Credited
  <1>7. \A o \in Operators : of(eligible, o) = Tagged(rows, eligible, o)  BY DEF Tagged
  <1>8. valid' = [o \in Operators |-> valid[o] + Cardinality(Tagged(rows, eligible, o))]
    <2> HIDE DEF rows, of
    <2> QED  BY <1>2, <1>7
  <1>9. Commits(rows, eligible, got)
    <2> HIDE DEF rows
    <2> QED  BY <1>2, <1>4, <1>6, <1>8, Zenon DEF Commits
  <1> QED  BY <1>9

\* A mutant is credited when it is valid, and as unique only then.
LEMMA CommitKeepsCredit == CreditInv /\ Commit => CreditInv'
PROOF
  <1> SUFFICES ASSUME CreditInv, Commit  PROVE CreditInv'
    OBVIOUS
  <1>1. CreditTypes /\ CreditIsEarned  BY DEF CreditInv
  <1>2. PICK rows, eligible, got : Commits(rows, eligible, got)
    BY <1>1, CommitOnce
  <1>3. Batches(rows, eligible, got)  BY <1>2 DEF Commits
  <1> DEFINE new(o) == {i \in Tagged(rows, eligible, o) : IsNew(pop', relaxed + i)}
             n(o) == Cardinality(Tagged(rows, eligible, o))
             u(o) == Cardinality(new(o))
  <1>4. ASSUME NEW o \in Operators  PROVE n(o) \in Nat /\ u(o) \in Nat /\ u(o) <= n(o)
    <2>1. Tagged(rows, eligible, o) \in SUBSET eligible /\ new(o) \in SUBSET Tagged(rows, eligible, o)
      BY DEF Tagged
    <2>2. new(o) \in SUBSET eligible  BY <2>1
    <2> HIDE DEF new
    <2> QED  BY <1>1, <1>3, <2>1, <2>2, BatchFacts
  <1>5. /\ valid' = [o \in Operators |-> valid[o] + n(o)]
        /\ credit' = [o \in Operators |-> [trials |-> credit[o].trials + n(o),
                                           unique |-> credit[o].unique + u(o)]]
    BY <1>2 DEF Commits
  <1> HIDE DEF n, u
  <1>6. ASSUME NEW o \in Operators
        PROVE  /\ valid'[o] \in Nat /\ credit'[o] \in [trials : Nat, unique : Nat]
               /\ credit'[o].unique <= credit'[o].trials /\ credit'[o].trials <= valid'[o]
    <2>1. /\ credit[o].trials \in Nat /\ credit[o].unique \in Nat /\ valid[o] \in Nat
          /\ credit[o].unique <= credit[o].trials /\ credit[o].trials <= valid[o]
      BY <1>1 DEF CreditTypes, CreditIsEarned
    <2>2. /\ credit'[o].trials = credit[o].trials + n(o)
          /\ credit'[o].unique = credit[o].unique + u(o)
          /\ valid'[o] = valid[o] + n(o)
          /\ credit'[o] = [trials |-> credit[o].trials + n(o),
                          unique |-> credit[o].unique + u(o)]
      BY <1>5
    <2> QED  BY <1>4, <2>1, <2>2
  <1>7. CreditTypes'
    <2>1. credit' \in [Operators -> [trials : Nat, unique : Nat]]
      BY <1>4, <1>5, <1>1 DEF CreditTypes
    <2>2. valid' \in [Operators -> Nat]  BY <1>4, <1>5, <1>1 DEF CreditTypes
    <2>3. Taken \in Nat /\ Taken <= Len(pending)  BY <1>1, <1>3, BatchFacts
    <2>4. relaxed' = relaxed + Taken /\ pending' = SubSeq(pending, Taken + 1, Len(pending))
      BY <1>2 DEF Commits
    <2>5. relaxed' \in Nat  BY <2>3, <2>4, <1>1 DEF CreditTypes
    <2>6. pending' \in Seq(Operators \cup {NoOperator})
      BY <2>3, <2>4, <1>1 DEF CreditTypes
    <2> QED  BY <2>1, <2>2, <2>5, <2>6 DEF CreditTypes
  <1>8. CreditIsEarned'  BY <1>6 DEF CreditIsEarned
  <1> QED  BY <1>7, <1>8 DEF CreditInv

LEMMA CreditStep == CreditInv /\ [CNext]_<<vars, creditVars>> => CreditInv'
PROOF
  <1> SUFFICES ASSUME CreditInv, [CNext]_<<vars, creditVars>>  PROVE CreditInv'
    OBVIOUS
  <1>1. CASE CBeginGeneration  BY <1>1, DecayKeepsOrder
  <1>2. CASE \E p \in Processes : CBuild(p)  BY <1>2, BuildKeepsCredit
  <1>3. CASE Commit  BY <1>3, CommitKeepsCredit
  <1>4. CASE UNCHANGED creditVars
    BY <1>4 DEF creditVars, CreditInv, CreditTypes, CreditIsEarned
  <1> QED  BY <1>1, <1>2, <1>3, <1>4 DEF CNext

\* Operators are credited only with valid mutants, each counted once through
\* every retry and halving, and never with more new geometries than trials.
THEOREM CreditEarned == CSpec => []CreditIsEarned
PROOF
  <1>1. CInit => CreditInv  BY CreditInit
  <1>2. CreditInv /\ [CNext]_<<vars, creditVars>> => CreditInv'  BY CreditStep
  <1>3. CreditInv => CreditIsEarned  BY DEF CreditInv
  <1> QED  BY <1>1, <1>2, <1>3, PTL DEF CSpec

-----------------------------------------------------------------------------
(* The population. *)

PopulationInv ==
  /\ Population(pop) /\ ShapesIn(pop, shapes)
  /\ Transitive(shapes) => Distinct(pop)

\* Rows are told apart by their numbers, whatever became of them.
LEMMA RowsDiffer ==
  ASSUME NEW ids, ids \subseteq Int, IsFiniteSet(ids),
         NEW c \in [ids -> [score : Scores, shape : Shapes]]
  PROVE  /\ IdsDiffer(AsCandidates(c))
         /\ \A a \in AsCandidates(c) : a.shape \in {c[i].shape : i \in DOMAIN c}
PROOF
  <1> DEFINE row(i) == [id |-> i, score |-> c[i].score, shape |-> c[i].shape]
  <1>1. AsCandidates(c) = {row(i) : i \in ids}  BY DEF AsCandidates
  <1>2. \A i \in ids : /\ row(i) \in Candidates /\ row(i).id = i
                       /\ row(i).shape = c[i].shape
    BY CreditAssumption DEF CreditAssumption, Candidates
  <1>3. IsFiniteSet({row(i) : i \in ids})
    <2>1. IsFiniteSet({row(i) : i \in ids}) /\ Cardinality({row(i) : i \in ids}) <= Cardinality(ids)
      <3> DEFINE f == [i \in ids |-> row(i)]
      <3>1. f \in Surjection(ids, {row(i) : i \in ids})
        BY DEF Surjection
      <3> HIDE DEF f
      <3> QED  BY <3>1, FS_Surjection
    <2> QED  BY <2>1
  <1> HIDE DEF row
  <1>4. IdsDiffer(AsCandidates(c))  BY <1>1, <1>2, <1>3 DEF IdsDiffer
  <1>5. \A a \in AsCandidates(c) : a.shape \in {c[i].shape : i \in DOMAIN c}
    BY <1>1, <1>2
  <1> QED  BY <1>4, <1>5

\* Fewer shapes are transitive when more are.
LEMMA FewerShapes ==
  ASSUME NEW few, NEW many, few \subseteq many, Transitive(many)
  PROVE  Transitive(few)
PROOF
  BY DEF Transitive

LEMMA PopulationInit == CInit => PopulationInv
PROOF
  <1> SUFFICES ASSUME CInit  PROVE PopulationInv
    OBVIOUS
  <1>1. PICK c \in [{-1, 0} -> [score : Scores, shape : Shapes]] :
          /\ pop = Initialized(AsCandidates(c))
          /\ shapes = {c[i].shape : i \in DOMAIN c}
    BY DEF CInit
  <1>2. {-1, 0} \subseteq Int /\ IsFiniteSet({-1, 0})
    <2>1. IsFiniteSet({-1}) /\ {-1, 0} = {-1} \cup {0}  BY FS_Singleton
    <2> QED  BY <2>1, FS_AddElement
  <1>3. /\ IdsDiffer(AsCandidates(c))
        /\ \A a \in AsCandidates(c) : a.shape \in shapes
    BY <1>1, <1>2, RowsDiffer
  <1>4. /\ Population(pop) /\ From(pop, <<>>, AsCandidates(c)) /\ Distinct(pop)
    BY <1>1, <1>3, InitializedIsAPopulation
  <1>5. ShapesIn(pop, shapes)
    <2> SUFFICES ASSUME NEW i \in DOMAIN pop  PROVE pop[i].shape \in shapes
      BY DEF ShapesIn
    <2>1. DOMAIN <<>> = {}  OBVIOUS
    <2>2. \E a \in AsCandidates(c) : Carries(pop[i], a)
      BY <1>4, <2>1 DEF From
    <2> QED  BY <2>2, <1>3 DEF Carries
  <1> QED  BY <1>4, <1>5 DEF PopulationInv

\* A batch: no rank gets worse, and while looks are transitive nobody looks
\* like somebody else.
LEMMA CommitKeepsPopulation ==
  ASSUME CreditTypes, PopulationInv, Commit
  PROVE  PopulationInv' /\ NoRankWorse(pop', pop)
PROOF
  <1>1. PICK rows, eligible, got : Commits(rows, eligible, got)
    BY CommitOnce
  <1> DEFINE ids == {relaxed + i : i \in eligible}
             C == AsCandidates(got)
  <1>2. /\ got \in [ids -> [score : Scores, shape : Shapes]]
        /\ pop' = UpdatedWith(pop, C)
        /\ shapes' = shapes \cup {got[i].shape : i \in DOMAIN got}
    BY <1>1 DEF Commits, Batches
  <1>3. eligible \subseteq Int /\ IsFiniteSet(eligible)
    BY <1>1, BatchFacts DEF Commits
  <1>4. ids \subseteq Int /\ IsFiniteSet(ids)
    <2>1. relaxed \in Int  BY DEF CreditTypes
    <2>2. ids \subseteq Int  BY <1>3, <2>1
    <2> DEFINE f == [i \in eligible |-> relaxed + i]
    <2>3. f \in Surjection(eligible, ids)  BY DEF Surjection
    <2> HIDE DEF f, ids
    <2> QED  BY <1>3, <2>2, <2>3, FS_Surjection
  <1> HIDE DEF ids
  <1>5. IdsDiffer(C) /\ \A a \in C : a.shape \in shapes'
    <2>1. IdsDiffer(C) /\ \A a \in C : a.shape \in {got[i].shape : i \in DOMAIN got}
      BY <1>2, <1>4, RowsDiffer
    <2> QED  BY <1>2, <2>1
  <1> HIDE DEF C
  <1>6. Population(pop) /\ ShapesIn(pop, shapes')
    BY <1>2 DEF PopulationInv, ShapesIn
  <1>7. Population(pop') /\ NoRankWorse(pop', pop) /\ From(pop', pop, C)
    BY <1>2, <1>5, <1>6, UpdateImproves
  <1>8. ShapesIn(pop', shapes')
    <2> SUFFICES ASSUME NEW i \in DOMAIN pop'  PROVE pop'[i].shape \in shapes'
      BY DEF ShapesIn
    <2>1. CASE \E a \in C : Carries(pop'[i], a)
      BY <2>1, <1>5 DEF Carries
    <2>2. CASE \E k \in DOMAIN pop : Carries(pop'[i], pop[k])
      BY <2>2, <1>6 DEF Carries, ShapesIn
    <2> QED  BY <1>7, <2>1, <2>2 DEF From
  <1>9. ASSUME Transitive(shapes')  PROVE Distinct(pop')
    <2>1. Transitive(shapes)  BY <1>2, <1>9, FewerShapes
    <2>2. Distinct(pop)  BY <2>1 DEF PopulationInv
    <2> QED  BY <1>2, <1>5, <1>6, <1>9, <2>2, UpdateKeepsDistinct
  <1> QED  BY <1>7, <1>8, <1>9 DEF PopulationInv

\* Nothing else touches the population.
LEMMA PopulationKept ==
  [CNext]_<<vars, creditVars>> => Commit \/ UNCHANGED <<pop, shapes>>
PROOF
  BY DEF CNext, CBeginGeneration, CBuild, creditVars

LEMMA PopulationStep ==
  CreditInv /\ PopulationInv /\ [CNext]_<<vars, creditVars>> => PopulationInv'
PROOF
  <1> SUFFICES ASSUME CreditInv, PopulationInv, [CNext]_<<vars, creditVars>>
               PROVE  PopulationInv'
    OBVIOUS
  <1>1. CASE Commit  BY <1>1, CommitKeepsPopulation DEF CreditInv
  <1>2. CASE UNCHANGED <<pop, shapes>>
    <2>1. pop' = pop /\ shapes' = shapes  BY <1>2
    <2> QED  BY <2>1 DEF PopulationInv
  <1> QED  BY <1>1, <1>2, PopulationKept

\* What the comparator says of geometries, it says of their coordinates.
LEMMA DistinctWhenTransitive == PopulationInv => DistinctMembers
PROOF
  <1> SUFFICES ASSUME PopulationInv, LooksAreTransitive
               PROVE  \A i, k \in DOMAIN pop : LooksLike(pop[i], pop[k]) => i = k
    BY DEF DistinctMembers
  <1>1. Transitive(shapes)
    <2> SUFFICES ASSUME NEW x \in shapes, NEW y \in shapes, NEW z \in shapes,
                        Near(x, y), Near(y, z)
                 PROVE  Near(x, z)
      BY DEF Transitive
    <2> DEFINE S == {[shape |-> s] : s \in shapes}
               g(s) == [shape |-> s]
    <2>1. g(x) \in S /\ g(y) \in S /\ g(z) \in S  OBVIOUS
    <2>2. \A s, t : LooksLike(g(s), g(t)) <=> Near(s, t)  BY DEF LooksLike, Near
    <2>3. \A a, b, c \in S : LooksLike(a, b) /\ LooksLike(b, c) => LooksLike(a, c)
      BY DEF LooksAreTransitive
    <2> HIDE DEF S, g
    <2> QED  BY <2>1, <2>2, <2>3
  <1>2. Distinct(pop)  BY <1>1 DEF PopulationInv
  <1> QED  BY <1>2 DEF Distinct

\* While the comparator is transitive on the geometries met, no two members
\* look alike, after any number of batches.
THEOREM MembersStayDistinct == CSpec => []DistinctMembers
PROOF
  <1>1. CInit => CreditInv /\ PopulationInv  BY CreditInit, PopulationInit
  <1>2. CreditInv /\ PopulationInv /\ [CNext]_<<vars, creditVars>>
          => CreditInv' /\ PopulationInv'
    BY CreditStep, PopulationStep
  <1>3. PopulationInv => DistinctMembers  BY DistinctWhenTransitive
  <1> QED  BY <1>1, <1>2, <1>3, PTL DEF CSpec

\* No step of a run lowers the score at any rank of the population, under
\* whatever comparator.
THEOREM RanksImprove == CSpec => RankwiseImprovement
PROOF
  <1>1. CInit => CreditInv /\ PopulationInv  BY CreditInit, PopulationInit
  <1>2. CreditInv /\ PopulationInv /\ [CNext]_<<vars, creditVars>>
          => CreditInv' /\ PopulationInv'
    BY CreditStep, PopulationStep
  <1>3. CreditInv /\ PopulationInv /\ [CNext]_<<vars, creditVars>>
          => [\A i \in DOMAIN pop : i \in DOMAIN pop' /\ pop'[i].score >= pop[i].score]_pop
    <2> SUFFICES ASSUME CreditInv, PopulationInv, [CNext]_<<vars, creditVars>>, pop' # pop
                 PROVE  \A i \in DOMAIN pop : i \in DOMAIN pop' /\ pop'[i].score >= pop[i].score
      OBVIOUS
    <2>1. Commit  BY PopulationKept
    <2>2. NoRankWorse(pop', pop)  BY <2>1, CommitKeepsPopulation DEF CreditInv
    <2> QED  BY <2>2 DEF NoRankWorse
  <1> QED  BY <1>1, <1>2, <1>3, PTL DEF CSpec, RankwiseImprovement
=============================================================================
