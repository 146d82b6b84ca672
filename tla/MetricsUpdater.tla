--------------------------- MODULE MetricsUpdater ---------------------------
(***************************************************************************)
(* The goroutine that publishes how many nodes are in which state, beside  *)
(* the reconciler, which is here the lifecycle it implements.              *)
(*                                                                         *)
(* NodeStateCache.GetAll copies the cache under its lock, but the entries  *)
(* are pointers: their State is read afterwards without the lock, while    *)
(* the handlers assign it.  A State is a string of two words, so that a    *)
(* read may find one word from before an assignment and one from after it, *)
(* and then no state at all.  An entry that is deleted meanwhile keeps the *)
(* state it had.                                                           *)
(***************************************************************************)
EXTENDS NodeLifecycle, FiniteSets, Sequences

CONSTANT MaxMoves  \* bound: changes of a state in a behaviour

ASSUME NodesAssumption == IsFiniteSet(Nodes)
ASSUME MaxMovesAssumption == MaxMoves \in Nat

VARIABLES
  at,      \* "waiting" for the ticker, "reading" entries, "publishing"
  held,    \* copied entries: "live" when still in the cache, or what they kept
  todo,    \* entries still to be read
  load,    \* the first word of a State: of which entry, and from which state
  counts,  \* unverified, verifying, verified and failed of this update
  next,    \* the gauge to be set next
  gauges,  \* what a scrape of the metrics finds
  seen,    \* states every node has had since the entries were copied
  moves    \* changes of a state left

updater == <<at, held, todo, load, counts, next, gauges>>
metricsVars == <<vars, updater, seen, moves>>

Kinds == <<"unverified", "verifying", "verified", "failed">>
KindSet == {Kinds[i] : i \in DOMAIN Kinds}

(* The switch of updateAggregateMetrics; a deleting node is not counted.   *)
Kind(state) == IF state \in {"pending", "in_progress"} THEN "verifying" ELSE state

NoLoad == [entry |-> {}, state |-> "none"]
Zero == [kind \in KindSet |-> 0]

-----------------------------------------------------------------------------
MetricsInit ==
  /\ Init
  /\ at = "waiting"
  /\ held = [n \in Nodes |-> "none"]
  /\ todo = {}
  /\ load = NoLoad
  /\ counts = Zero
  /\ next = 1
  /\ gauges = Zero
  /\ seen = [n \in Nodes |-> {}]
  /\ moves = MaxMoves

GetAll_KeepsCounts ==
  /\ at = "waiting"
  /\ at' = "reading"
  /\ held' = [n \in Nodes |-> IF phase[n] = "none" THEN "none" ELSE "live"]
  /\ todo' = {n \in Nodes : phase[n] # "none"}
  /\ seen' = [n \in Nodes |-> {phase[n]}]
  /\ UNCHANGED <<vars, load, counts, next, gauges, moves>>

(* At the start and on every tick: the entries there are, under the lock.  *)
GetAll ==
  /\ at = "waiting"
  /\ at' = "reading"
  /\ held' = [n \in Nodes |-> IF phase[n] = "none" THEN "none" ELSE "live"]
  /\ todo' = {n \in Nodes : phase[n] # "none"}
  /\ counts' = Zero
  /\ seen' = [n \in Nodes |-> {phase[n]}]
  /\ UNCHANGED <<vars, load, next, gauges, moves>>

EntryState(n) == IF held[n] = "live" THEN phase[n] ELSE held[n]

LoadFirstWord(n) ==
  /\ at = "reading" /\ load = NoLoad
  /\ n \in todo
  /\ load' = [entry |-> {n}, state |-> EntryState(n)]
  /\ UNCHANGED <<vars, at, held, todo, counts, next, gauges, seen, moves>>

CountEntry_NotTakenOff(n) ==
  /\ at = "reading" /\ load.entry = {n}
  /\ IF load.state = EntryState(n) /\ Kind(load.state) \in KindSet
     THEN counts' = [counts EXCEPT ![Kind(load.state)] = @ + 1]
     ELSE UNCHANGED counts
  /\ load' = NoLoad
  /\ UNCHANGED <<vars, at, held, todo, next, gauges, seen, moves>>

(* The second word, and the switch: a torn State is in no case of it.      *)
CountEntry(n) ==
  /\ at = "reading" /\ load.entry = {n}
  /\ IF load.state = EntryState(n) /\ Kind(load.state) \in KindSet
     THEN counts' = [counts EXCEPT ![Kind(load.state)] = @ + 1]
     ELSE UNCHANGED counts
  /\ todo' = todo \ {n}
  /\ load' = NoLoad
  /\ UNCHANGED <<vars, at, held, next, gauges, seen, moves>>

AllCounted ==
  /\ at = "reading" /\ todo = {}
  /\ at' = "publishing"
  /\ held' = [n \in Nodes |-> "none"]
  /\ UNCHANGED <<vars, todo, load, counts, next, gauges, seen, moves>>

SetGauge_AllButTheLast ==
  /\ at = "publishing"
  /\ gauges' = [gauges EXCEPT ![Kinds[next]] = counts[Kinds[next]]]
  /\ IF next + 1 = Len(Kinds)
     THEN at' = "waiting" /\ next' = 1
     ELSE at' = at /\ next' = next + 1
  /\ UNCHANGED <<vars, held, todo, load, counts, seen, moves>>

(* SetNodesUnverified, SetNodesVerifying, SetNodesVerified, SetNodesFailed:*)
(* a scrape may come between two of them.                                  *)
SetGauge ==
  /\ at = "publishing"
  /\ gauges' = [gauges EXCEPT ![Kinds[next]] = counts[Kinds[next]]]
  /\ IF next = Len(Kinds)
     THEN at' = "waiting" /\ next' = 1
     ELSE at' = at /\ next' = next + 1
  /\ UNCHANGED <<vars, held, todo, load, counts, seen, moves>>

Update ==
  \/ GetAll
  \/ \E n \in Nodes : LoadFirstWord(n) \/ CountEntry(n)
  \/ AllCounted
  \/ SetGauge

-----------------------------------------------------------------------------
(* The reconciler; that a job reports only while its node is pending is a  *)
(* bound.                                                                  *)

Moves(n) ==
  \/ Discover(n)
  \/ Launch(n)
  \/ Run(n)
  \/ /\ phase[n] = "pending"
     /\ \E verdict \in {"pass", "fail"} : verdict \notin verdicts[n] /\ Report(n, {verdict})
  \/ Verify(n)
  \/ Fail(n)
  \/ LoseJob(n)
  \/ Retry(n)
  \/ Remove(n)
  \/ phase[n] # "none" /\ Forget({n})

(* An entry that leaves the cache keeps its state in the copy.             *)
ReconcilerMoves ==
  /\ moves > 0
  /\ \E n \in Nodes :
       /\ Moves(n)
       /\ held' = IF phase'[n] = "none" /\ held[n] = "live"
                  THEN [held EXCEPT ![n] = phase[n]] ELSE held
  /\ moves' = IF phase' = phase THEN moves ELSE moves - 1
  /\ seen' = IF at = "reading" THEN [n \in Nodes |-> seen[n] \cup {phase'[n]}] ELSE seen
  /\ UNCHANGED <<at, todo, load, counts, next, gauges>>

(* Both goroutines end with the process; the next one has a cache and      *)
(* metrics of its own.                                                     *)
ProcessRestarts ==
  /\ moves > 0
  /\ moves' = moves - 1
  /\ Forget(Nodes)
  /\ at' = "waiting"
  /\ held' = [n \in Nodes |-> "none"]
  /\ todo' = {}
  /\ load' = NoLoad
  /\ counts' = Zero
  /\ next' = 1
  /\ gauges' = Zero
  /\ seen' = [n \in Nodes |-> {}]

MetricsNext == Update \/ ReconcilerMoves \/ ProcessRestarts

(* The ticker ticks and the goroutine runs.                                *)
MetricsSpec == MetricsInit /\ [][MetricsNext]_metricsVars /\ WF_metricsVars(Update)

-----------------------------------------------------------------------------
(* The goroutine keeps its types; what it has counted are entries it has   *)
(* read, each once.                                                        *)
UpdaterTypeOK ==
  /\ at \in {"waiting", "reading", "publishing"}
  /\ todo \subseteq Nodes
  /\ load.entry \subseteq todo
  /\ next \in 1 .. Len(Kinds)
  /\ at # "publishing" => next = 1
  /\ counts \in [KindSet -> 0 .. Cardinality(Nodes)]
  /\ gauges \in [KindSet -> 0 .. Cardinality(Nodes)]
  /\ counts["unverified"] + counts["verifying"] + counts["verified"] + counts["failed"]
       <= Cardinality(Nodes \ todo)

(* The numbers published are those of the update: a gauge counts no node   *)
(* that was not in such a state at some time while the entries were read,  *)
(* and misses none that stayed in one; only a node that moved meanwhile may*)
(* be counted in its earlier or later state, or in none.                   *)
GaugesWithinUpdate ==
  at = "waiting" =>
    \A kind \in KindSet :
      /\ gauges[kind] <= Cardinality({n \in Nodes : \E s \in seen[n] : Kind(s) = kind})
      /\ gauges[kind] >= Cardinality({n \in Nodes : \E s \in seen[n] :
                                        seen[n] = {s} /\ Kind(s) = kind})

(* Once the states stay as they are, the metrics come to say what they are *)
(* and go on to: no miscount outlives the next update.                     *)
Accurate ==
  \A kind \in KindSet :
    gauges[kind] = Cardinality({n \in Nodes : Kind(phase[n]) = kind})

GaugesSettle == <>[][FALSE]_phase => <>[]Accurate
=============================================================================
