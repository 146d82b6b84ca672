------------------------ MODULE MetricsUpdaterProofs ------------------------
(***************************************************************************)
(* The metrics are those of the nodes, for any number of them: no reading  *)
(* of the states beside the reconciler makes a gauge count a node that was *)
(* never in the state, or miss one that always was.                        *)
(***************************************************************************)
EXTENDS MetricsUpdater, FiniteSetTheorems, TLAPS

PhaseNames ==
  {"none", "unverified", "pending", "in_progress", "verified", "failed", "deleting"}

(* Of a node with these states while the entries were read: it may have    *)
(* been counted as one of the kind; it was in nothing else.                *)
May(states, kind) == \E s \in states : Kind(s) = kind
Must(states, kind) == \E s \in states : states = {s} /\ Kind(s) = kind

Mays(states, kind, read) == {n \in read : May(states[n], kind)}
Musts(states, kind, read) == {n \in read : Must(states[n], kind)}

Upper(kind, read) == Mays(seen, kind, read)
Lower(kind, read) == Musts(seen, kind, read)

Within(numbers, read) ==
  \A kind \in KindSet :
    /\ Cardinality(Lower(kind, read)) <= numbers[kind]
    /\ numbers[kind] <= Cardinality(Upper(kind, read))

UpdaterTypes ==
  /\ at \in {"waiting", "reading", "publishing"}
  /\ phase \in [Nodes -> PhaseNames]
  /\ held \in [Nodes -> PhaseNames \cup {"live"}]
  /\ todo \subseteq Nodes
  /\ load.entry \subseteq todo
  /\ at # "reading" => load.entry = {}
  /\ next \in 1 .. 4
  /\ counts \in [KindSet -> Nat]
  /\ gauges \in [KindSet -> Nat]

(* While the entries are read: the state a node has, and the one its entry *)
(* shows, are among those it has had.                                      *)
EntriesSeen ==
  at = "reading" =>
    /\ next = 1
    /\ \A n \in Nodes : phase[n] \in seen[n]
    /\ \A n \in todo : EntryState(n) \in seen[n]
    /\ \A n \in todo : load.entry = {n} => load.state \in seen[n]

CountsWithin ==
  at # "waiting" => Within(counts, Nodes \ todo)

GaugesCopied ==
  at = "publishing" =>
    /\ todo = {}
    /\ \A i \in 1 .. next - 1 : gauges[Kinds[i]] = counts[Kinds[i]]

UpdaterInv ==
  /\ UpdaterTypes
  /\ at = "waiting" => next = 1
  /\ EntriesSeen
  /\ CountsWithin
  /\ GaugesCopied
  /\ GaugesWithinUpdate

-----------------------------------------------------------------------------
LEMMA KindsFacts ==
  /\ Len(Kinds) = 4
  /\ DOMAIN Kinds = 1 .. 4
  /\ KindSet = {"unverified", "verifying", "verified", "failed"}
  /\ Kind("none") \notin KindSet
PROOF
  <1>1. Len(Kinds) = 4 /\ DOMAIN Kinds = 1 .. 4
    BY DEF Kinds
  <1>2. KindSet = {Kinds[1], Kinds[2], Kinds[3], Kinds[4]}
    BY <1>1 DEF KindSet
  <1>3. /\ Kinds[1] = "unverified" /\ Kinds[2] = "verifying"
        /\ Kinds[3] = "verified" /\ Kinds[4] = "failed"
    BY DEF Kinds
  <1>. QED
    BY <1>1, <1>2, <1>3 DEF Kind

(* Sets of read nodes are finite, and the cardinality of the one is at     *)
(* most that of the other.                                                 *)
LEMMA SetsOfNodes ==
  ASSUME NEW S \in SUBSET Nodes
  PROVE  /\ IsFiniteSet(S)
         /\ Cardinality(S) \in Nat
         /\ \A T \in SUBSET S : Cardinality(T) \in Nat /\ Cardinality(T) <= Cardinality(S)
PROOF
  <1>1. IsFiniteSet(S)
    BY FS_Subset, NodesAssumption
  <1>2. \A T \in SUBSET S : IsFiniteSet(T) /\ Cardinality(T) <= Cardinality(S)
    BY <1>1, FS_Subset
  <1>. QED
    BY <1>1, <1>2, FS_CardinalityType

(* States are only added to those seen while the entries are read: more    *)
(* nodes may be counted and fewer must be.                                 *)
LEMMA BoundsWiden ==
  ASSUME NEW old, NEW new, NEW kind, NEW S \in SUBSET Nodes,
         \A n \in S : old[n] # {} /\ old[n] \subseteq new[n]
  PROVE  /\ Cardinality(Musts(new, kind, S)) <= Cardinality(Musts(old, kind, S))
         /\ Cardinality(Mays(old, kind, S)) <= Cardinality(Mays(new, kind, S))
PROOF
  <1>1. Musts(new, kind, S) \subseteq Musts(old, kind, S)
    <2>1. SUFFICES ASSUME NEW n \in S, Must(new[n], kind)
                   PROVE  Must(old[n], kind)
      BY DEF Musts
    <2>2. PICK s \in new[n] : new[n] = {s} /\ Kind(s) = kind
      BY <2>1 DEF Must
    <2>3. old[n] = {s}
      BY <2>2
    <2>. QED
      BY <2>2, <2>3 DEF Must
  <1>2. Mays(old, kind, S) \subseteq Mays(new, kind, S)
    BY DEF May, Mays
  <1>3. Musts(old, kind, S) \in SUBSET Nodes /\ Mays(new, kind, S) \in SUBSET Nodes
    BY DEF Musts, Mays
  <1>. QED
    BY <1>1, <1>2, <1>3, SetsOfNodes

(* Reading one more entry adds its node to those of the kind that it may   *)
(* have been counted as, or must have been.                                *)
LEMMA BoundsWithOneMore ==
  ASSUME NEW states, NEW S \in SUBSET Nodes, NEW n \in Nodes \ S, NEW kind
  PROVE  /\ Cardinality(Musts(states, kind, S \cup {n}))
              = Cardinality(Musts(states, kind, S))
                  + (IF Must(states[n], kind) THEN 1 ELSE 0)
         /\ Cardinality(Mays(states, kind, S \cup {n}))
              = Cardinality(Mays(states, kind, S))
                  + (IF May(states[n], kind) THEN 1 ELSE 0)
PROOF
  <1>1. /\ IsFiniteSet(Musts(states, kind, S)) /\ Cardinality(Musts(states, kind, S)) \in Nat
        /\ IsFiniteSet(Mays(states, kind, S)) /\ Cardinality(Mays(states, kind, S)) \in Nat
    <2>1. Musts(states, kind, S) \in SUBSET Nodes /\ Mays(states, kind, S) \in SUBSET Nodes
      BY DEF Musts, Mays
    <2>. QED
      BY <2>1, SetsOfNodes
  <1>2. /\ Musts(states, kind, S \cup {n})
             = IF Must(states[n], kind) THEN Musts(states, kind, S) \cup {n}
               ELSE Musts(states, kind, S)
        /\ Mays(states, kind, S \cup {n})
             = IF May(states[n], kind) THEN Mays(states, kind, S) \cup {n}
               ELSE Mays(states, kind, S)
    BY DEF Musts, Mays
  <1>3. n \notin Musts(states, kind, S) /\ n \notin Mays(states, kind, S)
    BY DEF Musts, Mays
  <1>4. /\ Cardinality(Musts(states, kind, S) \cup {n}) = Cardinality(Musts(states, kind, S)) + 1
        /\ Cardinality(Mays(states, kind, S) \cup {n}) = Cardinality(Mays(states, kind, S)) + 1
    BY <1>1, <1>3, FS_AddElement
  <1>. QED
    BY <1>1, <1>2, <1>4

-----------------------------------------------------------------------------
LEMMA InitUpdater == MetricsInit => UpdaterInv
PROOF
  <1>. SUFFICES ASSUME MetricsInit PROVE UpdaterInv
    OBVIOUS
  <1>. USE DEF MetricsInit
  <1>1. UpdaterTypes
    BY DEF UpdaterTypes, Init, PhaseNames, Zero, NoLoad
  <1>2. GaugesWithinUpdate
    <2>1. SUFFICES ASSUME NEW kind \in KindSet
                   PROVE  /\ gauges[kind] <= Cardinality({n \in Nodes : May(seen[n], kind)})
                          /\ gauges[kind] >= Cardinality({n \in Nodes : Must(seen[n], kind)})
      BY DEF GaugesWithinUpdate, May, Must
    <2>2. /\ {n \in Nodes : May(seen[n], kind)} = {}
          /\ {n \in Nodes : Must(seen[n], kind)} = {}
      BY DEF May, Must
    <2>3. gauges[kind] = 0
      BY DEF Zero
    <2>. QED
      BY <2>2, <2>3, FS_EmptySet
  <1>. QED
    BY <1>1, <1>2 DEF UpdaterInv, EntriesSeen, CountsWithin, GaugesCopied

LEMMA GetAllKeeps ==
  ASSUME UpdaterInv, GetAll
  PROVE  UpdaterInv'
PROOF
  <1>. USE DEF GetAll, vars
  <1>1. UpdaterTypes'
    <2>1. held' \in [Nodes -> PhaseNames \cup {"live"}]
      BY DEF PhaseNames
    <2>2. counts' \in [KindSet -> Nat]
      BY DEF Zero
    <2>3. load.entry = {}
      BY DEF UpdaterInv, UpdaterTypes
    <2>. QED
      BY <2>1, <2>2, <2>3 DEF UpdaterInv, UpdaterTypes
  <1>2. EntriesSeen'
    <2>1. next' = 1
      BY DEF UpdaterInv
    <2>2. \A n \in Nodes : phase'[n] \in seen'[n]
      OBVIOUS
    <2>3. \A n \in todo' : held'[n] = "live" /\ EntryState(n)' = phase'[n]
      BY DEF EntryState
    <2>4. \A n \in todo' : load'.entry # {n}
      BY DEF UpdaterInv, UpdaterTypes
    <2>. QED
      BY <2>1, <2>2, <2>3, <2>4 DEF EntriesSeen
  <1>3. CountsWithin'
    <2>1. SUFFICES ASSUME NEW kind \in KindSet
                   PROVE  /\ Cardinality(Lower(kind, Nodes \ todo)') <= counts'[kind]
                          /\ counts'[kind] <= Cardinality(Upper(kind, Nodes \ todo)')
      BY DEF CountsWithin, Within
    <2>2. Lower(kind, Nodes \ todo)' = {}
      <3>1. SUFFICES ASSUME NEW n \in Nodes, phase[n] = "none", Must(seen'[n], kind)
                     PROVE  FALSE
        BY DEF Lower, Musts
      <3>2. Kind("none") = kind
        BY <3>1 DEF Must
      <3>. QED
        BY <3>2, KindsFacts
    <2>3. Cardinality(Upper(kind, Nodes \ todo)') \in Nat
      <3>1. Upper(kind, Nodes \ todo)' \in SUBSET Nodes
        BY DEF Upper, Mays
      <3>. QED
        BY <3>1, SetsOfNodes
    <2>4. counts'[kind] = 0
      BY DEF Zero
    <2>. QED
      BY <2>2, <2>3, <2>4, FS_EmptySet
  <1>. QED
    BY <1>1, <1>2, <1>3 DEF UpdaterInv, GaugesCopied, GaugesWithinUpdate

LEMMA LoadFirstWordKeeps ==
  ASSUME UpdaterInv, NEW n \in Nodes, LoadFirstWord(n)
  PROVE  UpdaterInv'
PROOF
  <1>. USE DEF LoadFirstWord, vars
  <1>1. UpdaterTypes'
    BY DEF UpdaterInv, UpdaterTypes
  <1>2. EntriesSeen'
    BY DEF UpdaterInv, EntriesSeen, EntryState
  <1>3. CountsWithin'
    BY DEF UpdaterInv, CountsWithin, Within, Upper, Lower, Mays, Musts
  <1>. QED
    BY <1>1, <1>2, <1>3 DEF UpdaterInv, GaugesCopied, GaugesWithinUpdate

LEMMA CountEntryKeeps ==
  ASSUME UpdaterInv, NEW n \in Nodes, CountEntry(n)
  PROVE  UpdaterInv'
PROOF
  <1>. USE DEF CountEntry, vars
  <1>. DEFINE K == Kind(load.state)
  <1>1. n \in todo /\ load.state \in seen[n] /\ EntryState(n) \in seen[n]
    BY DEF UpdaterInv, UpdaterTypes, EntriesSeen
  <1>2. counts' \in [KindSet -> Nat]
    <2>. HIDE DEF K
    <2>1. counts' = counts \/ (K \in KindSet /\ counts' = [counts EXCEPT ![K] = @ + 1])
      BY DEF K
    <2>. QED
      BY <2>1 DEF UpdaterInv, UpdaterTypes
  <1>3. UpdaterTypes'
    <2>1. load'.entry = {}
      BY DEF NoLoad
    <2>. QED
      BY <1>2, <2>1 DEF UpdaterInv, UpdaterTypes
  <1>4. EntriesSeen'
    <2>1. load'.entry = {}
      BY DEF NoLoad
    <2>. QED
      BY <2>1 DEF UpdaterInv, EntriesSeen, EntryState
  <1>5. CountsWithin'
    <2>1. SUFFICES ASSUME NEW kind \in KindSet
                   PROVE  /\ Cardinality(Lower(kind, Nodes \ todo)') <= counts'[kind]
                          /\ counts'[kind] <= Cardinality(Upper(kind, Nodes \ todo)')
      BY DEF CountsWithin, Within
    <2>. DEFINE old == Nodes \ todo
                new == Nodes \ todo'
                must == IF Must(seen[n], kind) THEN 1 ELSE 0
                may == IF May(seen[n], kind) THEN 1 ELSE 0
    <2>2. /\ old \in SUBSET Nodes /\ new \in SUBSET Nodes
          /\ new = old \cup {n} /\ n \in Nodes \ old
      BY <1>1
    <2>3. /\ Cardinality(Lower(kind, Nodes \ todo)') = Cardinality(Lower(kind, old)) + must
          /\ Cardinality(Upper(kind, Nodes \ todo)') = Cardinality(Upper(kind, old)) + may
      <3>1. /\ Lower(kind, Nodes \ todo)' = Musts(seen, kind, old \cup {n})
            /\ Upper(kind, Nodes \ todo)' = Mays(seen, kind, old \cup {n})
        BY <2>2 DEF Lower, Upper, Musts, Mays
      <3>. HIDE DEF old, new
      <3>. QED
        BY <2>2, <3>1, BoundsWithOneMore DEF Lower, Upper
    <2>4. /\ Cardinality(Lower(kind, old)) <= counts[kind]
          /\ counts[kind] <= Cardinality(Upper(kind, old))
      BY DEF UpdaterInv, CountsWithin, Within
    <2>5. /\ Cardinality(Lower(kind, old)) \in Nat /\ Cardinality(Upper(kind, old)) \in Nat
          /\ counts[kind] \in Nat
      <3>1. Lower(kind, old) \in SUBSET Nodes /\ Upper(kind, old) \in SUBSET Nodes
        BY DEF Lower, Upper, Musts, Mays
      <3>. QED
        BY <3>1, SetsOfNodes DEF UpdaterInv, UpdaterTypes
    <2>6. CASE load.state = EntryState(n) /\ K = kind
      <3>1. counts'[kind] = counts[kind] + 1
        BY <2>6 DEF UpdaterInv, UpdaterTypes
      <3>2. may = 1
        BY <1>1, <2>6 DEF May
      <3>. HIDE DEF must, may, old
      <3>3. must \in 0 .. 1
        BY DEF must
      <3>. QED
        BY <2>3, <2>4, <2>5, <3>1, <3>2, <3>3
    <2>7. CASE ~(load.state = EntryState(n) /\ K = kind)
      <3>1. counts'[kind] = counts[kind]
        BY <2>7 DEF UpdaterInv, UpdaterTypes
      <3>2. must = 0
        BY <1>1, <2>7 DEF Must
      <3>3. may \in 0 .. 1
        OBVIOUS
      <3>. HIDE DEF must, may, old
      <3>. QED
        BY <2>3, <2>4, <2>5, <3>1, <3>2, <3>3
    <2>. QED
      BY <2>6, <2>7
  <1>. QED
    BY <1>3, <1>4, <1>5 DEF UpdaterInv, GaugesCopied, GaugesWithinUpdate

LEMMA AllCountedKeeps ==
  ASSUME UpdaterInv, AllCounted
  PROVE  UpdaterInv'
PROOF
  <1>. USE DEF AllCounted, vars
  <1>1. UpdaterTypes'
    <2>1. held' \in [Nodes -> PhaseNames \cup {"live"}]
      BY DEF PhaseNames
    <2>2. load.entry = {}
      BY DEF UpdaterInv, UpdaterTypes
    <2>. QED
      BY <2>1, <2>2 DEF UpdaterInv, UpdaterTypes
  <1>2. CountsWithin'
    BY DEF UpdaterInv, CountsWithin, Within, Upper, Lower
  <1>3. GaugesCopied'
    BY DEF UpdaterInv, EntriesSeen, GaugesCopied
  <1>. QED
    BY <1>1, <1>2, <1>3 DEF UpdaterInv, EntriesSeen, GaugesWithinUpdate

LEMMA SetGaugeKeeps ==
  ASSUME UpdaterInv, SetGauge
  PROVE  UpdaterInv'
PROOF
  <1>. USE DEF SetGauge, vars
  <1>1. Kinds[next] \in KindSet
    BY KindsFacts DEF UpdaterInv, UpdaterTypes, KindSet
  <1>2. UpdaterTypes'
    BY <1>1, KindsFacts DEF UpdaterInv, UpdaterTypes
  <1>3. CountsWithin'
    BY DEF UpdaterInv, CountsWithin, Within, Upper, Lower
  <1>4. \A i \in 1 .. next : gauges'[Kinds[i]] = counts[Kinds[i]]
    <2>1. \A i \in 1 .. next : Kinds[i] \in KindSet
      BY KindsFacts DEF UpdaterInv, UpdaterTypes, KindSet
    <2>. QED
      BY <2>1, KindsFacts DEF UpdaterInv, UpdaterTypes, GaugesCopied
  <1>5. GaugesCopied'
    BY <1>4, KindsFacts DEF UpdaterInv, UpdaterTypes, GaugesCopied
  <1>6. GaugesWithinUpdate'
    <2>1. SUFFICES ASSUME NEW kind \in KindSet, next = 4
                   PROVE  /\ gauges'[kind] <= Cardinality(Upper(kind, Nodes))
                          /\ gauges'[kind] >= Cardinality(Lower(kind, Nodes))
      BY KindsFacts DEF GaugesWithinUpdate, Upper, Lower, Mays, Musts, May, Must
    <2>2. PICK i \in 1 .. 4 : kind = Kinds[i]
      BY KindsFacts DEF KindSet
    <2>3. gauges'[kind] = counts[kind]
      BY <1>4, <2>1, <2>2
    <2>4. Nodes \ todo = Nodes
      BY DEF UpdaterInv, GaugesCopied
    <2>5. /\ Cardinality(Lower(kind, Nodes)) <= counts[kind]
          /\ counts[kind] <= Cardinality(Upper(kind, Nodes))
      BY <2>4 DEF UpdaterInv, CountsWithin, Within
    <2>6. /\ Cardinality(Lower(kind, Nodes)) \in Nat
          /\ Cardinality(Upper(kind, Nodes)) \in Nat
      <3>1. Lower(kind, Nodes) \in SUBSET Nodes /\ Upper(kind, Nodes) \in SUBSET Nodes
        BY DEF Lower, Upper, Mays, Musts
      <3>. QED
        BY <3>1, SetsOfNodes
    <2>. QED
      BY <2>3, <2>5, <2>6 DEF UpdaterInv, UpdaterTypes
  <1>. QED
    BY <1>2, <1>3, <1>5, <1>6, KindsFacts DEF UpdaterInv, EntriesSeen

-----------------------------------------------------------------------------
(* Every move of the reconciler gives one node another state.              *)
LEMMA MovesAreTyped ==
  ASSUME NEW n \in Nodes, Moves(n), phase \in [Nodes -> PhaseNames]
  PROVE  phase' \in [Nodes -> PhaseNames]
PROOF
  <1>. USE DEF PhaseMoves, PhaseNames
  <1>1. CASE Discover(n) \/ Launch(n) \/ Run(n)
    BY <1>1 DEF Discover, Launch, Run
  <1>2. CASE phase[n] = "pending"
             /\ \E verdict \in {"pass", "fail"} : verdict \notin verdicts[n] /\ Report(n, {verdict})
    BY <1>2 DEF Report
  <1>3. CASE Verify(n) \/ Fail(n) \/ LoseJob(n)
    BY <1>3 DEF Verify, Fail, LoseJob
  <1>4. CASE Retry(n) \/ Remove(n)
    BY <1>4 DEF Retry, Remove
  <1>5. CASE phase[n] # "none" /\ Forget({n})
    BY <1>5 DEF Forget
  <1>. QED
    BY <1>1, <1>2, <1>3, <1>4, <1>5 DEF Moves

LEMMA ReconcilerMovesKeeps ==
  ASSUME UpdaterInv, ReconcilerMoves
  PROVE  UpdaterInv'
PROOF
  <1>1. PICK m \in Nodes :
          /\ Moves(m)
          /\ held' = IF phase'[m] = "none" /\ held[m] = "live"
                     THEN [held EXCEPT ![m] = phase[m]] ELSE held
    BY DEF ReconcilerMoves
  <1>2. /\ UNCHANGED <<at, todo, load, counts, next, gauges>>
        /\ seen' = IF at = "reading" THEN [n \in Nodes |-> seen[n] \cup {phase'[n]}] ELSE seen
    BY DEF ReconcilerMoves
  <1>3. phase' \in [Nodes -> PhaseNames]
    BY <1>1, MovesAreTyped DEF UpdaterInv, UpdaterTypes
  <1>4. UpdaterTypes'
    <2>1. held' \in [Nodes -> PhaseNames \cup {"live"}]
      BY <1>1 DEF UpdaterInv, UpdaterTypes
    <2>. QED
      BY <1>2, <1>3, <2>1 DEF UpdaterInv, UpdaterTypes
  <1>5. CASE at = "reading"
    <2>1. \A n \in Nodes :
            /\ seen[n] # {}
            /\ phase[n] \in seen[n]
            /\ seen'[n] = seen[n] \cup {phase'[n]}
      BY <1>2, <1>5 DEF UpdaterInv, EntriesSeen
    <2>2. ASSUME NEW n \in todo
          PROVE  EntryState(n)' \in seen'[n]
      <3>1. n \in Nodes /\ EntryState(n) \in seen[n]
        BY <1>5 DEF UpdaterInv, UpdaterTypes, EntriesSeen
      <3>2. CASE held'[n] = "live"
        BY <2>1, <3>1, <3>2 DEF EntryState
      <3>3. CASE held'[n] # "live" /\ held'[n] = held[n]
        BY <2>1, <3>1, <3>3 DEF EntryState
      <3>4. CASE held'[n] # held[n]
        <4>1. n = m /\ held'[n] = phase[n]
          BY <1>1, <3>1, <3>4 DEF UpdaterInv, UpdaterTypes
        <4>. QED
          BY <2>1, <3>1, <4>1 DEF EntryState, PhaseNames
      <3>. QED
        BY <3>2, <3>3, <3>4
    <2>3. EntriesSeen'
      <3>1. \A n \in todo : n \in Nodes
        BY DEF UpdaterInv, UpdaterTypes
      <3>. QED
        BY <1>2, <1>5, <2>1, <2>2, <3>1 DEF UpdaterInv, EntriesSeen
    <2>4. CountsWithin'
      <3>1. SUFFICES ASSUME NEW kind \in KindSet
                     PROVE  /\ Cardinality(Musts(seen', kind, Nodes \ todo)) <= counts[kind]
                            /\ counts[kind] <= Cardinality(Mays(seen', kind, Nodes \ todo))
        BY <1>2 DEF CountsWithin, Within, Lower, Upper, Musts, Mays
      <3>. DEFINE read == Nodes \ todo
      <3>2. read \in SUBSET Nodes
        OBVIOUS
      <3>3. \A n \in read : seen[n] # {} /\ seen[n] \subseteq seen'[n]
        BY <2>1
      <3>4. /\ Cardinality(Musts(seen, kind, read)) <= counts[kind]
            /\ counts[kind] <= Cardinality(Mays(seen, kind, read))
        BY <1>5 DEF UpdaterInv, CountsWithin, Within, Lower, Upper
      <3>. HIDE DEF read
      <3>5. /\ Cardinality(Musts(seen', kind, read)) <= Cardinality(Musts(seen, kind, read))
            /\ Cardinality(Mays(seen, kind, read)) <= Cardinality(Mays(seen', kind, read))
        BY <3>2, <3>3, BoundsWiden
      <3>6. \A states : /\ Cardinality(Musts(states, kind, read)) \in Nat
                        /\ Cardinality(Mays(states, kind, read)) \in Nat
        <4>1. \A states : /\ Musts(states, kind, read) \in SUBSET Nodes
                          /\ Mays(states, kind, read) \in SUBSET Nodes
          BY <3>2 DEF Musts, Mays
        <4>. QED
          BY <4>1, SetsOfNodes
      <3>7. counts[kind] \in Nat
        BY DEF UpdaterInv, UpdaterTypes
      <3>8. /\ Cardinality(Musts(seen', kind, read)) <= counts[kind]
            /\ counts[kind] <= Cardinality(Mays(seen', kind, read))
        BY <3>4, <3>5, <3>6, <3>7
      <3>. QED
        BY <3>8 DEF read
    <2>. QED
      BY <1>2, <1>4, <1>5, <2>3, <2>4 DEF UpdaterInv, GaugesCopied, GaugesWithinUpdate
  <1>6. CASE at # "reading"
    <2>1. seen' = seen
      BY <1>2, <1>6
    <2>2. CountsWithin' /\ GaugesWithinUpdate'
      BY <1>2, <2>1 DEF UpdaterInv, CountsWithin, Within, Lower, Upper, Musts, Mays, GaugesWithinUpdate
    <2>. QED
      BY <1>2, <1>4, <1>6, <2>2 DEF UpdaterInv, GaugesCopied, EntriesSeen
  <1>. QED
    BY <1>5, <1>6

LEMMA ProcessRestartsKeeps ==
  ASSUME UpdaterInv, ProcessRestarts
  PROVE  UpdaterInv'
PROOF
  <1>. USE DEF ProcessRestarts
  <1>1. UpdaterTypes'
    <2>1. phase' \in [Nodes -> PhaseNames]
      BY DEF Forget, PhaseNames
    <2>2. held' \in [Nodes -> PhaseNames \cup {"live"}]
      BY DEF PhaseNames
    <2>. QED
      BY <2>1, <2>2 DEF UpdaterTypes, Zero, NoLoad
  <1>2. GaugesWithinUpdate'
    <2>1. SUFFICES ASSUME NEW kind \in KindSet
                   PROVE  /\ gauges'[kind] <= Cardinality(Mays(seen', kind, Nodes))
                          /\ gauges'[kind] >= Cardinality(Musts(seen', kind, Nodes))
      BY DEF GaugesWithinUpdate, Mays, Musts, May, Must
    <2>2. Mays(seen', kind, Nodes) = {} /\ Musts(seen', kind, Nodes) = {}
      BY DEF Mays, Musts, May, Must
    <2>3. gauges'[kind] = 0
      BY DEF Zero
    <2>4. /\ Cardinality(Mays(seen', kind, Nodes)) = 0
          /\ Cardinality(Musts(seen', kind, Nodes)) = 0
      BY <2>2, FS_EmptySet
    <2>. QED
      BY <2>3, <2>4
  <1>. QED
    BY <1>1, <1>2 DEF UpdaterInv, EntriesSeen, CountsWithin, GaugesCopied

LEMMA UpdaterStep == UpdaterInv /\ [MetricsNext]_metricsVars => UpdaterInv'
PROOF
  <1>. SUFFICES ASSUME UpdaterInv, [MetricsNext]_metricsVars
                PROVE  UpdaterInv'
    OBVIOUS
  <1>1. CASE Update
    BY <1>1, GetAllKeeps, LoadFirstWordKeeps, CountEntryKeeps, AllCountedKeeps, SetGaugeKeeps
    DEF Update
  <1>2. CASE ReconcilerMoves
    BY <1>2, ReconcilerMovesKeeps
  <1>3. CASE ProcessRestarts
    BY <1>3, ProcessRestartsKeeps
  <1>4. CASE UNCHANGED metricsVars
    <2>1. UpdaterTypes' /\ (at = "waiting" => next = 1)' /\ EntriesSeen' /\ GaugesCopied'
      BY <1>4
      DEF metricsVars, updater, vars, UpdaterInv, UpdaterTypes, EntriesSeen, EntryState,
          GaugesCopied
    <2>2. CountsWithin'
      BY <1>4
      DEF metricsVars, updater, vars, UpdaterInv, CountsWithin, Within, Upper, Lower, Mays,
          Musts
    <2>3. GaugesWithinUpdate'
      BY <1>4 DEF metricsVars, updater, vars, UpdaterInv, GaugesWithinUpdate
    <2> QED
      BY <2>1, <2>2, <2>3 DEF UpdaterInv
  <1>. QED
    BY <1>1, <1>2, <1>3, <1>4 DEF MetricsNext

-----------------------------------------------------------------------------
(* Whatever the reconciler does while the metrics goroutine reads, every   *)
(* gauge it publishes lies between the nodes that were of its kind all the *)
(* while and those that were so at some time.                              *)
THEOREM GaugesAreWithinUpdate == MetricsSpec => []GaugesWithinUpdate
PROOF
  <1>1. UpdaterInv => GaugesWithinUpdate
    BY DEF UpdaterInv
  <1>. QED
    BY <1>1, InitUpdater, UpdaterStep, PTL DEF MetricsSpec

-----------------------------------------------------------------------------
Total(numbers) ==
  numbers["unverified"] + numbers["verifying"] + numbers["verified"] + numbers["failed"]

Most == Cardinality(Nodes)

(* Numbers that add up to no more than the nodes are each no more than that*)
LEMMA EachWithinTotal ==
  ASSUME NEW numbers \in [KindSet -> Nat], NEW m \in Nat, m <= Most, Total(numbers) <= m
  PROVE  numbers \in [KindSet -> 0 .. Most]
PROOF
  <1>1. Most \in Nat
    BY SetsOfNodes DEF Most
  <1>2. \A kind \in KindSet : numbers[kind] \in Nat
    OBVIOUS
  <1>3. /\ numbers["unverified"] \in Nat /\ numbers["verifying"] \in Nat
        /\ numbers["verified"] \in Nat /\ numbers["failed"] \in Nat
    BY <1>2, KindsFacts
  <1>4. \A kind \in KindSet : numbers[kind] \in 0 .. Most
    BY <1>1, <1>3, KindsFacts DEF Total
  <1>. QED
    BY <1>4

(* One more entry has been read, and is counted once or not at all.        *)
LEMMA TotalOfOneMore ==
  ASSUME UpdaterInv, UpdaterTypeOK, NEW n \in Nodes, CountEntry(n)
  PROVE  Total(counts') <= Cardinality(Nodes \ todo')
PROOF
  <1>1. n \in todo /\ todo' = todo \ {n}
    BY DEF CountEntry, UpdaterTypeOK
  <1>2. Cardinality(Nodes \ todo') = Cardinality(Nodes \ todo) + 1
    <2>1. Nodes \ todo' = (Nodes \ todo) \cup {n} /\ n \notin Nodes \ todo
      BY <1>1
    <2>2. IsFiniteSet(Nodes \ todo)
      BY SetsOfNodes
    <2>. QED
      BY <2>1, <2>2, FS_AddElement
  <1>3. Cardinality(Nodes \ todo) \in Nat
    BY SetsOfNodes
  <1>4. counts \in [KindSet -> Nat]
    BY DEF UpdaterInv, UpdaterTypes
  <1>5. Total(counts) <= Cardinality(Nodes \ todo)
    BY DEF UpdaterTypeOK, Total
  <1>6. /\ counts["unverified"] \in Nat /\ counts["verifying"] \in Nat
        /\ counts["verified"] \in Nat /\ counts["failed"] \in Nat
    BY <1>4, KindsFacts
  <1>7. CASE counts' = counts
    BY <1>2, <1>3, <1>5, <1>6, <1>7 DEF Total
  <1>8. CASE \E kind \in KindSet : counts' = [counts EXCEPT ![kind] = @ + 1]
    <2>1. PICK kind \in KindSet : counts' = [counts EXCEPT ![kind] = @ + 1]
      BY <1>8
    <2>2. \A k \in KindSet : counts'[k] = IF k = kind THEN counts[k] + 1 ELSE counts[k]
      BY <1>4, <2>1
    <2>3. Total(counts') = Total(counts) + 1
      BY <1>6, <2>1, <2>2, KindsFacts DEF Total
    <2>4. Total(counts) \in Nat
      BY <1>6 DEF Total
    <2>. QED
      BY <1>2, <1>3, <1>5, <2>3, <2>4
  <1>. QED
    BY <1>7, <1>8 DEF CountEntry

(* Everything but the sums is in UpdaterInv, and gauges are set from counts*)
LEMMA UpdaterTypeStep ==
  UpdaterInv /\ UpdaterTypeOK /\ [MetricsNext]_metricsVars => UpdaterTypeOK'
PROOF
  <1>. SUFFICES ASSUME UpdaterInv, UpdaterTypeOK, [MetricsNext]_metricsVars
                PROVE  UpdaterTypeOK'
    OBVIOUS
  <1>1. UpdaterInv'
    BY UpdaterStep
  <1>2. /\ at' \in {"waiting", "reading", "publishing"}
        /\ todo' \subseteq Nodes /\ load'.entry \subseteq todo'
        /\ next' \in 1 .. Len(Kinds)
        /\ at' # "publishing" => next' = 1
        /\ counts' \in [KindSet -> Nat] /\ gauges' \in [KindSet -> Nat]
    BY <1>1, KindsFacts DEF UpdaterInv, UpdaterTypes, EntriesSeen
  <1>3. Most \in Nat /\ Cardinality(Nodes \ todo') \in Nat /\ Cardinality(Nodes \ todo') <= Most
    BY SetsOfNodes DEF Most
  <1>4. Total(Zero) = 0 /\ Zero \in [KindSet -> 0 .. Most]
    BY <1>3, KindsFacts DEF Total, Zero
  <1>5. Total(counts') <= Cardinality(Nodes \ todo')
    <2>1. CASE counts' = Zero
      BY <1>3, <1>4, <2>1
    <2>2. CASE UNCHANGED <<counts, todo>>
      BY <2>2 DEF UpdaterTypeOK, Total
    <2>3. ASSUME NEW n \in Nodes, CountEntry(n)
          PROVE  Total(counts') <= Cardinality(Nodes \ todo')
      BY <2>3, TotalOfOneMore
    <2>. QED
      BY <2>1, <2>2, <2>3
      DEF MetricsNext, Update, GetAll, LoadFirstWord, AllCounted, SetGauge,
          ReconcilerMoves, ProcessRestarts, metricsVars, updater
  <1>6. counts' \in [KindSet -> 0 .. Most]
    BY <1>2, <1>3, <1>5, EachWithinTotal
  <1>7. gauges' \in [KindSet -> 0 .. Most]
    <2>1. CASE gauges' = gauges
      BY <2>1 DEF UpdaterTypeOK, Most
    <2>2. CASE gauges' = Zero
      BY <1>4, <2>2
    <2>3. CASE SetGauge
      <3>1. Kinds[next] \in KindSet
        BY KindsFacts DEF UpdaterInv, UpdaterTypes, KindSet
      <3>2. counts[Kinds[next]] \in 0 .. Most
        BY <3>1 DEF UpdaterTypeOK, Most
      <3>. QED
        BY <2>3, <3>1, <3>2 DEF SetGauge, UpdaterTypeOK, Most
    <2>. QED
      BY <2>1, <2>2, <2>3
      DEF MetricsNext, Update, GetAll, LoadFirstWord, CountEntry, AllCounted,
          ReconcilerMoves, ProcessRestarts, metricsVars, updater
  <1>. QED
    BY <1>2, <1>5, <1>6, <1>7 DEF UpdaterTypeOK, Total, Most

(* The goroutine counts no entry twice, for any finite set of nodes: its   *)
(* four numbers never add up to more than the entries it has read.         *)
THEOREM UpdaterTypeCorrect == MetricsSpec => []UpdaterTypeOK
PROOF
  <1>1. MetricsInit => UpdaterTypeOK
    <2>. SUFFICES ASSUME MetricsInit PROVE UpdaterTypeOK
      OBVIOUS
    <2>1. UpdaterInv
      BY InitUpdater
    <2>2. Cardinality(Nodes \ todo) \in Nat /\ Most \in Nat
      BY SetsOfNodes DEF Most
    <2>3. Total(counts) = 0 /\ counts \in [KindSet -> 0 .. Most] /\ gauges = counts
      BY <2>2, KindsFacts DEF Total, Zero, MetricsInit
    <2>. QED
      BY <2>1, <2>2, <2>3, KindsFacts
      DEF MetricsInit, UpdaterInv, UpdaterTypes, UpdaterTypeOK, Total, Most
  <1>. QED
    BY <1>1, InitUpdater, UpdaterStep, UpdaterTypeStep, PTL DEF MetricsSpec

-----------------------------------------------------------------------------
(* A move that MetricsUpdater lets the reconciler make is one of its       *)
(* lifecycle: the bounds of the run add none.                              *)
LEMMA MovesAreOfLifecycle ==
  ASSUME NEW n \in Nodes, Moves(n)
  PROVE  Next
PROOF
  <1>1. CASE phase[n] = "pending"
             /\ \E verdict \in {"pass", "fail"} : verdict \notin verdicts[n] /\ Report(n, {verdict})
    <2>1. PICK verdict \in {"pass", "fail"} : Report(n, {verdict})
      BY <1>1
    <2>2. {verdict} \in SUBSET {"pass", "fail"}
      OBVIOUS
    <2>. QED
      BY <2>1, <2>2 DEF Next
  <1>2. CASE Forget({n})
    <2>1. {n} \in SUBSET Nodes
      OBVIOUS
    <2>. QED
      BY <1>2, <2>1 DEF Next
  <1>3. CASE Discover(n) \/ Launch(n) \/ Run(n) \/ Verify(n) \/ Fail(n) \/ LoseJob(n)
              \/ Retry(n) \/ Remove(n)
    BY <1>3 DEF Next
  <1>. QED
    BY <1>1, <1>2, <1>3 DEF Moves

(* The metrics goroutine changes nothing of what the reconciler does: with *)
(* it beside them, and restarts of both, the nodes still behave as         *)
(* NodeLifecycle says.                                                     *)
THEOREM UpdaterKeepsLifecycle == MetricsSpec => Spec
PROOF
  <1>1. MetricsInit => Init
    BY DEF MetricsInit
  <1>2. [MetricsNext]_metricsVars => [Next]_vars
    <2>. SUFFICES ASSUME [MetricsNext]_metricsVars PROVE [Next]_vars
      OBVIOUS
    <2>1. CASE Update
      BY <2>1 DEF Update, GetAll, LoadFirstWord, CountEntry, AllCounted, SetGauge
    <2>2. CASE ReconcilerMoves
      BY <2>2, MovesAreOfLifecycle DEF ReconcilerMoves
    <2>3. CASE ProcessRestarts
      <3>1. Nodes \in SUBSET Nodes
        OBVIOUS
      <3>. QED
        BY <2>3, <3>1 DEF ProcessRestarts, Next
    <2>4. CASE UNCHANGED metricsVars
      BY <2>4 DEF metricsVars
    <2>. QED
      BY <2>1, <2>2, <2>3, <2>4 DEF MetricsNext
  <1>. QED
    BY <1>1, <1>2, PTL DEF MetricsSpec, Spec
=============================================================================
