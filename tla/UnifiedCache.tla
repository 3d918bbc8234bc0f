----------------------------- MODULE UnifiedCache -----------------------------
(***************************************************************************)
(* UnifiedCache (scgo/database/cache.py): one LRU map over all namespaces, *)
(* shared by the threads that build structures, with a single flight per   *)
(* key in get_or_compute.  The lock makes each block under it one step;    *)
(* everything between two blocks interleaves.  Values are not modelled:    *)
(* no step looks at one.                                                   *)
(*                                                                         *)
(* The compute function may call get_or_compute again: the extent of a     *)
(* cluster needs its hull (initialization/geometry_helpers.py).  A call in *)
(* progress is a frame <<t, depth>>: the call thread t made, or the one    *)
(* made from inside its compute function.                                  *)
(***************************************************************************)
EXTENDS Naturals, FiniteSets

CONSTANTS
  Threads, Namespaces, Keys,
  NamespaceOf,  \* the first half of a cache key
  Part,         \* the key a computation may need in turn, or NoKey
  NoKey,
  MaxSize,      \* max_size
  MaxCalls      \* bound: calls over the run

ASSUME CacheAssumption ==
  /\ NamespaceOf \in [Keys -> Namespaces]
  /\ Part \in [Keys -> Keys \cup {NoKey}] /\ NoKey \notin Keys
  /\ \A k \in Keys : Part[k] # NoKey => Part[Part[k]] = NoKey
  /\ MaxSize \in Nat \ {0}
  /\ MaxCalls \in Nat

Frames == Threads \X {1, 2}
Outer(f) == <<f[1], 1>>
Inner(f) == <<f[1], 2>>

VARIABLES
  cached,    \* the keys of _cache
  since,     \* its order: the cached keys used after this one
  inflight,  \* _inflight: the event of a key being computed, or 0
  events,    \* Events created so far; they are numbered
  signalled, \* the Events that are set
  at, key, event, \* per frame: where it is, its cache_key, ev or inflight_ev
  calls,     \* calls made
  started,   \* history: computations started, per key
  spoiled    \* history: computations that raised and entries removed, per key

lruVars == <<cached, since>>
flightVars == <<inflight, events, signalled>>
historyVars == <<started, spoiled>>
unifiedVars == <<cached, since, inflight, events, signalled, at, key, event, calls,
                 started, spoiled>>

CacheInit ==
  /\ cached = {} /\ since = [k \in Keys |-> {}]
  /\ inflight = [k \in Keys |-> 0] /\ events = 0 /\ signalled = {}
  /\ at = [f \in Frames |-> "idle"]
  /\ key = [f \in Frames |-> NoKey]
  /\ event = [f \in Frames |-> 0]
  /\ calls = 0
  /\ started = [k \in Keys |-> 0] /\ spoiled = [k \in Keys |-> 0]

-----------------------------------------------------------------------------
\* move_to_end(k), with k in the map.
Touched(k) ==
  [j \in Keys |-> IF j \in cached \ {k} THEN since[j] \cup {k} ELSE {}]

Without(order, keys) ==
  [j \in Keys |-> IF j \in keys THEN {} ELSE order[j] \ keys]

\* One more computation of each of these keys is excused.
Excuse(keys) ==
  spoiled' = [k \in Keys |-> spoiled[k] + (IF k \in keys THEN 1 ELSE 0)]

\* _cache[k] = value, then popitem(last=False) when over the limit.
OverLimit(n) == n > MaxSize
Insert(k) ==
  LET filled == cached \cup {k}
  IN  \/ /\ ~OverLimit(Cardinality(filled))
         /\ cached' = filled /\ since' = Touched(k)
         /\ UNCHANGED spoiled
      \/ /\ OverLimit(Cardinality(filled))
         /\ \E oldest \in filled :
              /\ Touched(k)[oldest] = filled \ {oldest}
              /\ cached' = filled \ {oldest}
              /\ since' = Without(Touched(k), {oldest})
              /\ Excuse({oldest})

\* get_or_compute returns or raises: the thread is back in the caller, or in
\* the compute function that made the call (which may catch the exception).
Returned(f) ==
  IF f = Inner(f) THEN [at EXCEPT ![f] = "idle", ![Outer(f)] = "resume"]
  ELSE [at EXCEPT ![f] = "idle"]

GoesTo(f, place) == at' = [at EXCEPT ![f] = place]

CountCall(t) ==
  /\ at[<<t, 1>>] = "idle" /\ calls < MaxCalls
  /\ calls' = calls + 1

-----------------------------------------------------------------------------
\* get(k)
Get(t, k) ==
  /\ CountCall(t)
  /\ since' = IF k \in cached THEN Touched(k) ELSE since
  /\ UNCHANGED <<cached, flightVars, at, key, event, historyVars>>

\* set(k, value)
Set(t, k) ==
  /\ CountCall(t)
  /\ Insert(k)
  /\ UNCHANGED <<flightVars, at, key, event, started>>

\* clear_namespace(ns) leaves _inflight alone.
ClearedMarkers(ns) == inflight
ClearNamespace(t, ns) ==
  /\ CountCall(t)
  /\ LET removed == {k \in cached : NamespaceOf[k] = ns}
     IN  cached' = cached \ removed /\ since' = Without(since, removed)
         /\ Excuse(removed)
  /\ inflight' = ClearedMarkers(ns)
  /\ UNCHANGED <<events, signalled, at, key, event, started>>

\* get_or_compute(k, compute_func) begins.
Call(t, k) ==
  /\ CountCall(t)
  /\ GoesTo(<<t, 1>>, "lookup")
  /\ key' = [key EXCEPT ![<<t, 1>>] = k]
  /\ UNCHANGED <<lruVars, flightVars, event, historyVars>>

TakeHit(f) ==
  /\ since' = Touched(key[f])
  /\ at' = Returned(f)
  /\ UNCHANGED <<cached, flightVars, key, event, calls, historyVars>>

\* The fast path, under the lock: a hit, or the event of whoever computes it.
Lookup(f) ==
  /\ at[f] = "lookup"
  /\ \/ key[f] \in cached /\ TakeHit(f)
     \/ /\ key[f] \notin cached
        /\ event' = [event EXCEPT ![f] = inflight[key[f]]]
        /\ GoesTo(f, IF inflight[key[f]] # 0 THEN "wait" ELSE "claim")
        /\ UNCHANGED <<lruVars, flightVars, key, calls, historyVars>>

\* inflight_ev.wait()
Wait(f) ==
  /\ at[f] = "wait" /\ event[f] \in signalled
  /\ GoesTo(f, "lookup")
  /\ UNCHANGED <<lruVars, flightVars, key, event, calls, historyVars>>

\* The second block under the lock: hit, go back and wait, or become the one
\* that computes.
MutantNoSecondHit(k) == FALSE
HitNow(k) == k \in cached
MutantNoSecondLook(k) == FALSE
TakenNow(k) == inflight[k] # 0
Claim(f) ==
  /\ at[f] = "claim"
  /\ \/ HitNow(key[f]) /\ TakeHit(f)
     \/ /\ ~HitNow(key[f]) /\ TakenNow(key[f])
        /\ GoesTo(f, "lookup")
        /\ UNCHANGED <<lruVars, flightVars, key, event, calls, historyVars>>
     \/ /\ ~HitNow(key[f]) /\ ~TakenNow(key[f])
        /\ events' = events + 1
        /\ event' = [event EXCEPT ![f] = events']
        /\ inflight' = [inflight EXCEPT ![key[f]] = events']
        /\ GoesTo(f, "compute")
        /\ started' = [started EXCEPT ![key[f]] = @ + 1]
        /\ UNCHANGED <<lruVars, signalled, key, calls, spoiled>>

\* The compute function calls get_or_compute for the part it needs.
Nest(f) ==
  /\ f = Outer(f) /\ at[f] = "compute" /\ Part[key[f]] # NoKey
  /\ at' = [at EXCEPT ![f] = "nested", ![Inner(f)] = "lookup"]
  /\ key' = [key EXCEPT ![Inner(f)] = Part[key[f]]]
  /\ UNCHANGED <<lruVars, flightVars, event, calls, historyVars>>

\* compute_func() returns a value, or raises: then `finally` is next.
MutantLeavesOnError == "idle"
AfterError == "signal"
EndCompute(f, ok) ==
  /\ at[f] \in {"compute", "resume"}
  /\ IF ok THEN GoesTo(f, "store") /\ UNCHANGED spoiled
           ELSE GoesTo(f, AfterError) /\ Excuse({key[f]})
  /\ UNCHANGED <<lruVars, flightVars, key, event, calls, started>>

Store(f) ==
  /\ at[f] = "store"
  /\ Insert(key[f])
  /\ GoesTo(f, "signal")
  /\ UNCHANGED <<flightVars, key, event, calls, started>>

\* ev.set() comes before the marker is removed, outside the lock.
Signal(f) ==
  /\ at[f] = "signal"
  /\ signalled' = signalled \cup {event[f]}
  /\ GoesTo(f, "unmark")
  /\ UNCHANGED <<lruVars, inflight, events, key, event, calls, historyVars>>

MutantKeepsMarker(k) == inflight
Unmarked(k) == [inflight EXCEPT ![k] = 0]
Unmark(f) ==
  /\ at[f] = "unmark"
  /\ inflight' = Unmarked(key[f])
  /\ at' = Returned(f)
  /\ UNCHANGED <<lruVars, events, signalled, key, event, calls, historyVars>>

-----------------------------------------------------------------------------
FrameStep(f) ==
  \/ Lookup(f) \/ Wait(f) \/ Claim(f) \/ Nest(f)
  \/ \E ok \in BOOLEAN : EndCompute(f, ok)
  \/ Store(f) \/ Signal(f) \/ Unmark(f)

NewCall(t) ==
  \/ \E k \in Keys : Get(t, k) \/ Set(t, k) \/ Call(t, k)
  \/ \E ns \in Namespaces : ClearNamespace(t, ns)

Finished ==
  /\ calls = MaxCalls /\ \A f \in Frames : at[f] = "idle"
  /\ UNCHANGED unifiedVars

CacheNext ==
  \/ \E f \in Frames : FrameStep(f)
  \/ \E t \in Threads : NewCall(t)
  \/ Finished

CacheSpec == CacheInit /\ [][CacheNext]_unifiedVars

\* A thread inside a call runs on: hulls are computed in finite time.
FairCacheSpec == CacheSpec /\ \A f \in Frames : WF_unifiedVars(FrameStep(f))

-----------------------------------------------------------------------------
Places == {"idle", "lookup", "wait", "claim", "compute", "nested", "resume",
           "store", "signal", "unmark"}

\* The places where a frame owns the marker of its key, and those where it
\* still has to set its event.
Owning == {"compute", "nested", "resume", "store", "signal", "unmark"}
Owing == Owning \ {"unmark"}

CacheTypeOK ==
  /\ cached \subseteq Keys /\ Cardinality(cached) <= MaxSize
  /\ since \in [Keys -> SUBSET cached]
  /\ \A j, k \in cached : j # k => (j \in since[k] <=> k \notin since[j])
  /\ \A k \in Keys : k \notin since[k]
  /\ inflight \in [Keys -> 0..events] /\ events \in Nat
  /\ signalled \subseteq 1..events
  /\ at \in [Frames -> Places]
  /\ key \in [Frames -> Keys \cup {NoKey}]
  /\ \A f \in Frames : at[f] # "idle" => key[f] \in Keys
  /\ event \in [Frames -> 0..events]
  /\ calls \in 0..MaxCalls
  /\ started \in [Keys -> Nat] /\ spoiled \in [Keys -> Nat]

\* The promise of get_or_compute under concurrency: a key is computed by at
\* most one call at a time, also when the entry is evicted, the namespace is
\* cleared, or the computation raises while others wait.
SingleFlight ==
  \A f, g \in Frames :
    at[f] \in Owning /\ at[g] \in Owning /\ key[f] = key[g] => f = g

\* No marker outlives its computation, and no call removes the marker that
\* another one relies on (the marker is removed by key, not by identity).
MarkersAreOwned ==
  /\ \A f \in Frames : at[f] \in Owning => inflight[key[f]] = event[f]
  /\ \A k \in Keys : inflight[k] # 0 =>
       \E f \in Frames : at[f] \in Owning /\ key[f] = k

\* No lost wake-up: whoever waits, waits for an event that is set already, or
\* that a call still computing this very key is going to set.
NoLostWakeup ==
  \A f \in Frames : at[f] = "wait" =>
    \/ event[f] \in signalled
    \/ \E g \in Frames :
         at[g] \in Owing /\ event[g] = event[f] /\ key[g] = key[f]

\* "Avoids duplicate computation": a key is computed again only when an
\* earlier computation raised or its entry was evicted or cleared.
NoWastedWork == \A k \in Keys : started[k] <= spoiled[k] + 1

\* Every call returns: waiting threads, also those that spin between ev.set()
\* and the removal of the marker, and calls nested in a computation.
Answered == \A f \in Frames : at[f] # "idle" ~> at[f] = "idle"
=============================================================================
