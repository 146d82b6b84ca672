--------------------- MODULE ControllerOperatorsProofs ---------------------
(***************************************************************************)
(* The invariants of ControllerOperators, for any taint keys, any lists,   *)
(* any count of attempts and any configurations.  Each follows from the    *)
(* types of the state: what is proved is about the operators themselves.   *)
(***************************************************************************)
EXTENDS ControllerOperators, TaintPatchProofs

(* What the lists, the count and the configurations are.                   *)
TypeOK ==
  /\ current \in Seq(TaintKeys) /\ snapshot \in Seq(TaintKeys) /\ configured \in Seq(TaintKeys)
  /\ attempt \in Nat
  /\ strategy \in {"exponential", "linear"}
  /\ config \in ConfigurationType

(* The default configuration of the model is a configuration.              *)
LEMMA PlainType == Plain \in ConfigurationType
<1>1. <<>> \in Seq([key : STRING, effect : STRING])
  OBVIOUS
<1> QED BY <1>1 DEF Plain, ConfigurationType

(* The types of the state, for whatever configurations are given.         *)
THEOREM TypeCorrect == Spec => []TypeOK
<1>1. Init => TypeOK
  BY PlainType, ConfigurationsAssumption, BoundsAssumption DEF Init, TypeOK
<1>2. TypeOK /\ [Next]_vars => TypeOK'
  <2> SUFFICES ASSUME TypeOK, [Next]_vars PROVE TypeOK'
    OBVIOUS
  <2>1. CASE GrowLists
    <3>1. PICK key \in TaintKeys :
            \/ Longer(current, key) /\ UNCHANGED <<snapshot, configured>>
            \/ Longer(snapshot, key) /\ UNCHANGED <<current, configured>>
            \/ Longer(configured, key) /\ UNCHANGED <<current, snapshot>>
      BY <2>1 DEF GrowLists
    <3>2. \A list \in Seq(TaintKeys) : Append(list, key) \in Seq(TaintKeys)
      OBVIOUS
    <3>3. /\ current' \in Seq(TaintKeys) /\ snapshot' \in Seq(TaintKeys)
          /\ configured' \in Seq(TaintKeys)
      BY <3>1, <3>2 DEF TypeOK, Longer
    <3> QED BY <2>1, <3>3 DEF TypeOK, GrowLists, inputs
  <2>2. CASE CountAttempt
    BY <2>2 DEF TypeOK, CountAttempt, lists, inputs
  <2>3. CASE UNCHANGED vars
    BY <2>3 DEF TypeOK, vars, lists, inputs
  <2> QED BY <2>1, <2>2, <2>3 DEF Next
<1> QED BY <1>1, <1>2, PTL DEF Spec

-----------------------------------------------------------------------------
(* The built tolerations cover the waiting taints without a limit.         *)
LEMMA WorkersReachTheirNodes ==
  ASSUME TypeOK
  PROVE  WorkerReachesItsNode
<1> SUFFICES ASSUME Validate(config), Accepts(WorkerTolerations) PROVE
    /\ Schedules(WorkerTolerations,
                 WaitingTaints \cup
                   {[key |-> key, value |-> "", effect |-> "NoSchedule"] : key \in JoinTaints})
    /\ \A taint \in WaitingTaints :
         Evicts(WorkerTolerations, taint) =>
           \E t \in config.tolerations :
             t.seconds # {} /\ t.key \in {"", taint.key} /\ t.effect = taint.effect
  BY DEF WorkerReachesItsNode
<1>1. WorkerTolerations = BuildTolerations(config)
  BY DEF WorkerTolerations
<1>2. \A t \in WorkerTolerations : AcceptsToleration(t)
  BY DEF Accepts
<1>3. ASSUME NEW taint \in WaitingTaints
      PROVE  \E t \in WorkerTolerations : Tolerates(t, taint)
  <2>1. PICK i \in DOMAIN config.taints :
           taint.key = config.taints[i].key /\ taint.effect = config.taints[i].effect
    BY <1>3 DEF WaitingTaints
  <2>2. Exists(taint.key, taint.effect) \in WorkerTolerations
    BY <1>1, <2>1 DEF BuildTolerations
  <2> QED BY <2>2 DEF Tolerates, Exists
<1>4. ASSUME NEW key \in JoinTaints
      PROVE  \E t \in WorkerTolerations :
               Tolerates(t, [key |-> key, value |-> "", effect |-> "NoSchedule"])
  <2>1. Exists(key, "NoSchedule") \in WorkerTolerations
    BY <1>1 DEF BuildTolerations
  <2> QED BY <2>1 DEF Tolerates, Exists
<1>5. ASSUME NEW taint \in WaitingTaints, Evicts(WorkerTolerations, taint)
      PROVE  \E t \in config.tolerations :
               t.seconds # {} /\ t.key \in {"", taint.key} /\ t.effect = taint.effect
  <2>1. PICK w \in WorkerTolerations : Tolerates(w, taint) /\ w.seconds # {}
    BY <1>5 DEF Evicts
  <2>2. \A key, effect : Exists(key, effect).seconds = {}
    BY DEF Exists
  <2>3. PICK t \in config.tolerations : w = WithOperator(t)
    BY <1>1, <2>1, <2>2 DEF BuildTolerations
  <2>4. t.key = w.key /\ t.effect = w.effect /\ t.seconds = w.seconds
    <3>1. t \in TolerationType
      BY DEF TypeOK, ConfigurationType
    <3> QED BY <2>3, <3>1 DEF WithOperator, TolerationType
  <2>5. w.effect = "NoExecute" /\ taint.effect = "NoExecute"
    BY <1>2, <1>5, <2>1 DEF AcceptsToleration, Evicts
  <2> QED BY <2>1, <2>4, <2>5 DEF Tolerates
<1> QED BY <1>3, <1>4, <1>5 DEF Schedules

(* An accepted worker pod may run on a node with its waiting taints, and   *)
(* is evicted for one only by an additional toleration that limits it,     *)
(* whatever the configuration and the values of the taints.                *)
THEOREM WorkersReachTheirNodesAlways == Spec => []WorkerReachesItsNode
<1>1. TypeOK => WorkerReachesItsNode
  BY WorkersReachTheirNodes DEF TypeOK
<1> QED BY <1>1, TypeCorrect, PTL

(* The two readings of one additional toleration.                          *)
LEMMA TwoReadings ==
  ASSUME NEW t \in TolerationType
  PROVE  /\ t.operator # "" => WithOperator(t) = AsInPod(t)
         /\ \A taint : Tolerates(AsInPod(t), taint) => Tolerates(WithOperator(t), taint)
         /\ \A taint : Tolerates(WithOperator(t), taint) /\ ~Tolerates(AsInPod(t), taint) =>
              t.operator = "" /\ t.key \in {"", taint.key} /\ t.value # taint.value
         /\ AcceptsToleration(AsInPod(t)) /\ ~AcceptsToleration(WithOperator(t)) =>
              t.operator = "" /\ t.value # ""
         /\ AcceptsToleration(WithOperator(t)) /\ ~AcceptsToleration(AsInPod(t)) =>
              t.operator = "" /\ t.key = ""
<1> DEFINE w == WithOperator(t)
           p == AsInPod(t)
<1>1. /\ w.operator = (IF t.operator = "" THEN "Exists" ELSE t.operator)
      /\ w.key = t.key /\ w.value = t.value /\ w.effect = t.effect /\ w.seconds = t.seconds
  BY DEF WithOperator, TolerationType
<1>2. /\ p.operator = (IF t.operator = "" THEN "Equal" ELSE t.operator)
      /\ p.key = t.key /\ p.value = t.value /\ p.effect = t.effect /\ p.seconds = t.seconds
  BY DEF AsInPod, TolerationType
<1>3. t.operator # "" => w = p
  BY DEF WithOperator, AsInPod
<1> HIDE DEF w, p
<1>4. \A taint : Tolerates(p, taint) => Tolerates(w, taint)
  BY <1>1, <1>2, <1>3 DEF Tolerates
<1>5. \A taint : Tolerates(w, taint) /\ ~Tolerates(p, taint) =>
         t.operator = "" /\ t.key \in {"", taint.key} /\ t.value # taint.value
  BY <1>1, <1>2, <1>3 DEF Tolerates
<1>6. AcceptsToleration(p) /\ ~AcceptsToleration(w) => t.operator = "" /\ t.value # ""
  BY <1>1, <1>2, <1>3 DEF AcceptsToleration
<1>7. AcceptsToleration(w) /\ ~AcceptsToleration(p) => t.operator = "" /\ t.key = ""
  BY <1>1, <1>2, <1>3 DEF AcceptsToleration
<1> QED BY <1>3, <1>4, <1>5, <1>6, <1>7 DEF w, p

(* The tolerations differ in the additional ones only, each read in one of *)
(* two ways.                                                               *)
LEMMA ReadAsInPods ==
  ASSUME TypeOK
  PROVE  TolerationsReadAsInPods
<1> DEFINE Generated == BuildTolerations([config EXCEPT !.tolerations = {}])
           Omitted == {t \in config.tolerations : t.operator = ""}
<1>1. /\ WorkerTolerations = Generated \cup {WithOperator(t) : t \in config.tolerations}
      /\ PodTolerations = Generated \cup {AsInPod(t) : t \in config.tolerations}
  <2> DEFINE none == [config EXCEPT !.tolerations = {}]
  <2>1. none.taints = config.taints /\ none.tolerations = {}
    BY DEF TypeOK, ConfigurationType
  <2> QED BY <2>1 DEF WorkerTolerations, PodTolerations, BuildTolerations
<1>2. \A t \in config.tolerations : t \in TolerationType
  BY DEF TypeOK, ConfigurationType
<1> HIDE DEF Generated
<1>3. ASSUME NEW taint, Schedules(PodTolerations, {taint})
      PROVE  Schedules(WorkerTolerations, {taint})
  <2> SUFFICES ASSUME taint.effect # "PreferNoSchedule"
               PROVE  \E t \in WorkerTolerations : Tolerates(t, taint)
    BY DEF Schedules
  <2>1. PICK p \in PodTolerations : Tolerates(p, taint)
    BY <1>3 DEF Schedules
  <2>2. CASE p \in Generated
    BY <1>1, <2>1, <2>2
  <2>3. CASE p \notin Generated
    <3>1. PICK t \in config.tolerations : p = AsInPod(t)
      BY <1>1, <2>3
    <3> QED BY <1>1, <1>2, <2>1, <3>1, TwoReadings
  <2> QED BY <2>2, <2>3
<1>4. ASSUME NEW taint, Schedules(WorkerTolerations, {taint}), ~Schedules(PodTolerations, {taint})
      PROVE  \E t \in Omitted : t.key \in {"", taint.key} /\ t.value # taint.value
  <2>1. /\ taint.effect # "PreferNoSchedule"
        /\ ~\E p \in PodTolerations : Tolerates(p, taint)
    BY <1>4 DEF Schedules
  <2>2. PICK w \in WorkerTolerations : Tolerates(w, taint)
    BY <1>4, <2>1 DEF Schedules
  <2>3. PICK t \in config.tolerations : w = WithOperator(t)
    BY <1>1, <2>1, <2>2
  <2>4. ~Tolerates(AsInPod(t), taint)
    BY <1>1, <2>1
  <2> QED BY <1>2, <2>2, <2>3, <2>4, TwoReadings
<1>5. ASSUME Accepts(PodTolerations), ~Accepts(WorkerTolerations)
      PROVE  \E t \in Omitted : t.value # ""
  <2>1. PICK w \in WorkerTolerations : ~AcceptsToleration(w)
    BY <1>5 DEF Accepts
  <2>2. PICK t \in config.tolerations : w = WithOperator(t)
    BY <1>1, <1>5, <2>1 DEF Accepts
  <2>3. AcceptsToleration(AsInPod(t))
    BY <1>1, <1>5 DEF Accepts
  <2> QED BY <1>2, <2>1, <2>2, <2>3, TwoReadings
<1>6. ASSUME Accepts(WorkerTolerations), ~Accepts(PodTolerations)
      PROVE  \E t \in Omitted : t.key = ""
  <2>1. PICK p \in PodTolerations : ~AcceptsToleration(p)
    BY <1>6 DEF Accepts
  <2>2. PICK t \in config.tolerations : p = AsInPod(t)
    BY <1>1, <1>6, <2>1 DEF Accepts
  <2>3. AcceptsToleration(WithOperator(t))
    BY <1>1, <1>6 DEF Accepts
  <2> QED BY <1>2, <2>1, <2>2, <2>3, TwoReadings
<1> QED BY <1>3, <1>4, <1>5, <1>6 DEF TolerationsReadAsInPods

(* For every configuration and every taint: an additional toleration means *)
(* what it means in a pod, but for those that leave out the operator, with *)
(* the three ways in which these differ.                                   *)
THEOREM TolerationsAreReadAsInPods == Spec => []TolerationsReadAsInPods
<1>1. TypeOK => TolerationsReadAsInPods
  BY ReadAsInPods DEF TypeOK
<1> QED BY <1>1, TypeCorrect, PTL

-----------------------------------------------------------------------------
(* The configured taints up to k that have an operation.                   *)
Done(k) == {j \in Operations : j <= k}

(* A configured taint that has an operation stands at its position.        *)
LEMMA PositionType ==
  ASSUME snapshot \in Seq(TaintKeys), NEW k
  PROVE  /\ Position(k) \in Nat
         /\ Position(k) # 0 => /\ Position(k) \in DOMAIN snapshot
                               /\ snapshot[Position(k)] = configured[k]
<1>1. CASE \E i \in DOMAIN snapshot : snapshot[i] = configured[k]
  BY <1>1, FirstPosition DEF Position
<1>2. CASE ~\E i \in DOMAIN snapshot : snapshot[i] = configured[k]
  BY <1>2 DEF Position, FindTaintIndex
<1> QED BY <1>1, <1>2

(* The operations up to a configured taint are those before it and its     *)
(* own.                                                                    *)
LEMMA DoneGrows ==
  ASSUME configured \in Seq(TaintKeys), NEW k \in 1 .. Len(configured)
  PROVE  /\ k \notin Operations => Done(k) = Done(k - 1)
         /\ k \in Operations =>
              /\ Done(k) = Done(k - 1) \cup {k} /\ k \notin Done(k - 1)
              /\ Done(k - 1) = Earlier(k)
              /\ Cardinality(Done(k)) = Cardinality(Done(k - 1)) + 1
         /\ Cardinality(Done(k - 1)) \in Nat
<1>1. Operations \subseteq Int
  BY DEF Operations
<1> DEFINE n == Len(configured)
<1>0. n \in Nat /\ k \in Int /\ Operations \subseteq 1 .. n
  BY DEF Operations
<1> HIDE DEF n
<1>2. IsFiniteSet(Done(k - 1))
  <2>1. Done(k - 1) \subseteq 1 .. n
    BY <1>0 DEF Done
  <2>2. IsFiniteSet(1 .. n)
    BY <1>0, FS_Interval
  <2> QED BY <2>1, <2>2, FS_Subset
<1>3. k \notin Operations => Done(k) = Done(k - 1)
  <2>1. \A j \in Operations : j # k => (j <= k <=> j <= k - 1)
    BY <1>0, <1>1
  <2> QED BY <2>1 DEF Done
<1>4. k \in Operations => /\ Done(k) = Done(k - 1) \cup {k} /\ k \notin Done(k - 1)
                          /\ Done(k - 1) = Earlier(k)
  <2>1. \A j \in Operations : (j <= k <=> j <= k - 1 \/ j = k) /\ (j < k <=> j <= k - 1)
    BY <1>0, <1>1
  <2>2. ~(k <= k - 1)
    BY <1>0
  <2> QED BY <2>1, <2>2 DEF Done, Earlier
<1>5. Cardinality(Done(k - 1)) \in Nat
  BY <1>2, FS_CardinalityType
<1>6. k \in Operations => Cardinality(Done(k)) = Cardinality(Done(k - 1)) + 1
  BY <1>2, <1>4, FS_AddElement
<1> QED BY <1>3, <1>4, <1>5, <1>6

(* At first no operation is done and at last all are.                      *)
LEMMA DoneBounds ==
  ASSUME configured \in Seq(TaintKeys)
  PROVE  Done(0) = {} /\ Done(Len(configured)) = Operations
<1> DEFINE n == Len(configured)
<1>1. n \in Nat /\ Operations \subseteq 1 .. n
  BY DEF Operations
<1> HIDE DEF n
<1>2. \A j \in Operations : ~(j <= 0) /\ j <= n
  BY <1>1
<1> QED BY <1>2 DEF Done, n

(* One configured taint's part of the patch, on a list that is left.       *)
LEMMA OneRemoval ==
  ASSUME snapshot \in Seq(TaintKeys), configured \in Seq(TaintKeys),
         NEW k \in DOMAIN configured, NEW r \in SUBSET Seq(TaintKeys)
  PROVE  /\ k \notin Operations => PatchStep(r, snapshot, configured[k]) = r
         /\ k \in Operations =>
              /\ r = {} => PatchStep(r, snapshot, configured[k]) = {}
              /\ \A list : r = {list} =>
                   /\ Position(k) > Len(list) => PatchStep(r, snapshot, configured[k]) = {}
                   /\ Position(k) <= Len(list) =>
                        /\ Position(k) \in DOMAIN list
                        /\ PatchStep(r, snapshot, configured[k]) = {RemoveIndex(list, Position(k))}
<1>1. CASE k \notin Operations
  BY <1>1 DEF Operations, Position, PatchStep
<1>2. CASE k \in Operations
  <2>1. PatchStep(r, snapshot, configured[k]) = ApplyRemove(r, Position(k))
    BY <1>2 DEF Operations, Position, PatchStep
  <2>2. Position(k) \in Nat \ {0}
    BY <1>2, PositionType DEF Operations
  <2>3. r = {} => ApplyRemove(r, Position(k)) = {}
    BY DEF ApplyRemove
  <2>4. ASSUME NEW list, r = {list}
        PROVE  /\ Position(k) > Len(list) => ApplyRemove(r, Position(k)) = {}
               /\ Position(k) <= Len(list) =>
                    /\ Position(k) \in DOMAIN list
                    /\ ApplyRemove(r, Position(k)) = {RemoveIndex(list, Position(k))}
    <3>1. list \in Seq(TaintKeys) /\ DOMAIN list = 1 .. Len(list) /\ Len(list) \in Nat
      BY <2>4
    <3>2. Position(k) \in DOMAIN list <=> Position(k) <= Len(list)
      BY <2>2, <3>1
    <3>3. Position(k) \in DOMAIN list =>
            ApplyRemove(r, Position(k)) = {RemoveIndex(list, Position(k))}
      BY <2>4 DEF ApplyRemove
    <3>4. Position(k) \notin DOMAIN list => ApplyRemove(r, Position(k)) = {}
      BY <2>4 DEF ApplyRemove
    <3> QED BY <2>2, <3>1, <3>2, <3>3, <3>4
  <2> QED BY <1>2, <2>1, <2>3, <2>4
<1> QED BY <1>1, <1>2

(* A position beyond the taints that the operations before it left.        *)
Beyond(j) == Position(j) > Len(current) - Cardinality(Earlier(j))

(* r is the result of a patch that has come to configured taint k.         *)
Shortened(r, k) ==
  /\ r \in SUBSET Seq(TaintKeys)
  /\ (\E j \in Done(k) : Beyond(j)) => r = {}
  /\ (\A j \in Done(k) : ~Beyond(j)) =>
       \E list \in Seq(TaintKeys) :
         r = {list} /\ Len(list) = Len(current) - Cardinality(Done(k))

(* One more configured taint leaves the result of that length.             *)
LEMMA ShortenedStep ==
  ASSUME current \in Seq(TaintKeys), snapshot \in Seq(TaintKeys), configured \in Seq(TaintKeys),
         NEW k \in 1 .. Len(configured), NEW r, Shortened(r, k - 1)
  PROVE  Shortened(PatchStep(r, snapshot, configured[k]), k)
<1> DEFINE s == PatchStep(r, snapshot, configured[k])
<1>1. r \in SUBSET Seq(TaintKeys) /\ k \in DOMAIN configured /\ Len(current) \in Nat
  BY DEF Shortened
<1>2. s \in SUBSET Seq(TaintKeys)
  BY <1>1, ApplyRemoveType DEF PatchStep
<1>3. CASE k \notin Operations
  <2>1. s = r /\ Done(k) = Done(k - 1)
    BY <1>1, <1>3, OneRemoval, DoneGrows
  <2> HIDE DEF s
  <2> QED BY <2>1 DEF Shortened, s
<1>4. CASE k \in Operations
  <2>1. /\ Done(k) = Done(k - 1) \cup {k} /\ Done(k - 1) = Earlier(k)
        /\ Cardinality(Done(k)) = Cardinality(Done(k - 1)) + 1
        /\ Cardinality(Done(k - 1)) \in Nat
    BY <1>4, DoneGrows
  <2>2. CASE \E j \in Done(k - 1) : Beyond(j)
    <3>1. r = {}
      BY <2>2 DEF Shortened
    <3>2. s = {}
      BY <1>1, <1>4, <3>1, OneRemoval
    <3> HIDE DEF s
    <3> QED BY <2>1, <2>2, <3>2 DEF Shortened, s
  <2>3. CASE \A j \in Done(k - 1) : ~Beyond(j)
    <3>1. PICK list \in Seq(TaintKeys) :
            r = {list} /\ Len(list) = Len(current) - Cardinality(Done(k - 1))
      BY <2>3 DEF Shortened
    <3>2. Beyond(k) <=> Position(k) > Len(list)
      BY <2>1, <3>1 DEF Beyond
    <3>3. CASE Beyond(k)
      <4>1. s = {}
        BY <1>1, <1>4, <3>1, <3>2, <3>3, OneRemoval
      <4>2. \E j \in Done(k) : Beyond(j)
        BY <2>1, <3>3
      <4> HIDE DEF s
      <4> QED BY <4>1, <4>2 DEF Shortened, s
    <3>4. CASE ~Beyond(k)
      <4>1. Position(k) <= Len(list)
        <5>1. Position(k) \in Nat /\ Len(list) \in Nat
          BY PositionType
        <5> QED BY <3>2, <3>4, <5>1
      <4>2. Position(k) \in DOMAIN list /\ s = {RemoveIndex(list, Position(k))}
        BY <1>1, <1>4, <3>1, <4>1, OneRemoval
      <4>3. RemoveIndex(list, Position(k)) \in Seq(TaintKeys)
        BY <4>2, RemoveIndexType
      <4>4. Len(RemoveIndex(list, Position(k))) = Len(list) - 1
        BY <4>2, RemoveIndexRest
      <4>5. Len(list) - 1 = Len(current) - Cardinality(Done(k))
        BY <1>1, <2>1, <3>1
      <4>6. ~\E j \in Done(k) : Beyond(j)
        BY <2>1, <2>3, <3>4
      <4> HIDE DEF s
      <4> QED BY <1>2, <4>2, <4>3, <4>4, <4>5, <4>6 DEF Shortened, s
    <3> QED BY <3>3, <3>4
  <2> QED BY <2>2, <2>3
<1> QED BY <1>3, <1>4

(* The length of the patched list, and when the patch is rejected.         *)
LEMMA OperationsRemoveOneEach ==
  ASSUME current \in Seq(TaintKeys), snapshot \in Seq(TaintKeys), configured \in Seq(TaintKeys)
  PROVE  EveryOperationRemovesOne
<1> DEFINE n == Len(configured)
<1>0. n \in Nat
  OBVIOUS
<1>1. PICK f : PatchResults(f, n, current, snapshot, configured)
  BY <1>0, PatchRunSteps
<1> DEFINE Bad == {k \in 0 .. n : ~Shortened(f[k], k)}
<1>2. ASSUME Bad # {} PROVE FALSE
  <2>1. PICK k \in Bad : \A j \in Bad : k <= j
    <3>1. Bad \in SUBSET Nat
      OBVIOUS
    <3> HIDE DEF Bad
    <3> QED BY <1>2, <3>1, LeastNatural
  <2>2. k # 0
    <3>1. f[0] = {current} /\ Done(0) = {} /\ Cardinality({}) = 0
      BY <1>1, DoneBounds, FS_EmptySet DEF PatchResults
    <3>2. Len(current) - Cardinality(Done(0)) = Len(current)
      <4>1. Len(current) \in Nat
        OBVIOUS
      <4>2. Cardinality(Done(0)) = 0
        BY <3>1, Zenon
      <4> QED BY <4>1, <4>2
    <3>3. Shortened(f[0], 0)
      BY <3>1, <3>2 DEF Shortened
    <3> QED BY <2>1, <3>3
  <2>3. k \in 1 .. n /\ Shortened(f[k - 1], k - 1)
    BY <2>1, <2>2
  <2>4. f[k] = PatchStep(f[k - 1], snapshot, configured[k])
    BY <1>1, <2>3 DEF PatchResults
  <2>5. Shortened(f[k], k)
    BY <2>3, <2>4, ShortenedStep
  <2> QED BY <2>1, <2>5
<1>3. Shortened(f[n], n)
  BY <1>0, <1>2
<1>4. Shortened(Patched, n) /\ Done(n) = Operations
  BY <1>1, <1>3, DoneBounds DEF PatchResults, Patched
<1>5. CASE \E j \in Operations : Beyond(j)
  BY <1>4, <1>5 DEF Shortened, EveryOperationRemovesOne, Beyond
<1>6. CASE \A j \in Operations : ~Beyond(j)
  BY <1>4, <1>6 DEF Shortened, EveryOperationRemovesOne, Beyond
<1> QED BY <1>5, <1>6

(* Whatever list a patch of UpdateNodeMetadata meets, it removes one taint *)
(* for each operation, or is rejected because an operation names a         *)
(* position beyond those that are left.                                    *)
THEOREM EveryPatchRemovesOneEach == Spec => []EveryOperationRemovesOne
<1>1. TypeOK => EveryOperationRemovesOne
  BY OperationsRemoveOneEach DEF TypeOK
<1> QED BY <1>1, TypeCorrect, PTL

-----------------------------------------------------------------------------
(* The taints of the patched list that are left at the places f.           *)
Left(f, L) == [h \in 1 .. L |-> current[f[h]]]

(* After the operations up to configured taint k, each taken taint with its*)
(* place q, the taints at the places f are left.                           *)
Trace(f, L, q, k) ==
  /\ L \in Nat /\ Rising(f, L, Len(current))
  /\ q \in [Done(k) -> 1 .. Len(current)]
  /\ \A i, j \in Done(k) : q[i] = q[j] => i = j
  /\ \A x \in 1 .. Len(current) : x \in Places(f, L) <=> \A j \in Done(k) : q[j] # x
  /\ \A h \in 1 .. L : (\A j \in Done(k) : h < Position(j)) => f[h] = h
  /\ \A j \in Done(k) :
       /\ q[j] >= Position(j)
       /\ (\A i \in Earlier(j) : Position(i) > Position(j)) => q[j] = Position(j)
       /\ q[j] = Position(j) => \A i \in Earlier(j) : q[i] > Position(j)

(* One operation takes the taint at its position among those left.         *)
LEMMA TraceStep ==
  ASSUME current \in Seq(TaintKeys), snapshot \in Seq(TaintKeys), configured \in Seq(TaintKeys),
         NEW k \in 1 .. Len(configured), k \in Operations,
         NEW f, NEW L, NEW q, Trace(f, L, q, k - 1), Position(k) \in 1 .. L
  PROVE  /\ Trace(Skip(f, L, Position(k)), L - 1,
                  [j \in Done(k) |-> IF j = k THEN f[Position(k)] ELSE q[j]], k)
         /\ RemoveIndex(Left(f, L), Position(k)) = Left(Skip(f, L, Position(k)), L - 1)
<1> DEFINE p == Position(k)
           n == Len(current)
           g == Skip(f, L, p)
           D == Done(k - 1)
           s == [j \in Done(k) |-> IF j = k THEN f[p] ELSE q[j]]
<1>1. /\ L \in Nat /\ n \in Nat /\ L # 0 /\ L - 1 \in Nat
      /\ Rising(f, L, n) /\ p \in 1 .. L
      /\ f \in [1 .. L -> 1 .. n] /\ q \in [D -> 1 .. n]
  <2>1. L \in Nat /\ Rising(f, L, n) /\ q \in [D -> 1 .. n]
    BY DEF Trace
  <2>2. f \in [1 .. L -> 1 .. n]
    BY <2>1 DEF Rising
  <2>3. n \in Nat
    OBVIOUS
  <2>4. L # 0 /\ L - 1 \in Nat
    BY <2>1
  <2> QED BY <2>1, <2>2, <2>3, <2>4
<1>2. Done(k) = D \cup {k} /\ k \notin D /\ D = Earlier(k)
  BY DoneGrows
<1>3. s[k] = f[p] /\ \A j \in D : j # k /\ s[j] = q[j]
  BY <1>2
<1>4. s \in [Done(k) -> 1 .. n]
  BY <1>1, <1>2
<1>6. \A j \in D : Earlier(j) \subseteq D
  <2>1. \A j \in D : j \in Int /\ \A i \in Operations : i \in Int
    BY DEF Done, Operations
  <2>2. k \in Int
    OBVIOUS
  <2>3. \A j \in D : \A i \in Operations : i < j /\ j <= k - 1 => i <= k - 1
    BY <2>1, <2>2
  <2> QED BY <2>3 DEF Earlier, Done
<1>7. /\ f[p] \in 1 .. n /\ f[p] >= p
      /\ \A x \in 1 .. n : x \in Places(f, L) <=> \A j \in D : q[j] # x
      /\ \A i, j \in D : q[i] = q[j] => i = j
      /\ \A h \in 1 .. L : (\A j \in D : h < Position(j)) => f[h] = h
      /\ \A j \in D :
           /\ q[j] >= Position(j)
           /\ (\A i \in Earlier(j) : Position(i) > Position(j)) => q[j] = Position(j)
           /\ q[j] = Position(j) => \A i \in Earlier(j) : q[i] > Position(j)
  BY <1>1 DEF Trace, Rising
<1>8. \A h \in 1 .. L - 1 : g[h] = IF h < p THEN f[h] ELSE f[h + 1]
  BY DEF Skip
<1>9. p \in Nat /\ \A j \in D : Position(j) \in Nat
  BY PositionType
<1> HIDE DEF p, g, s, D, n
<1>5. Rising(g, L - 1, n) /\ Places(g, L - 1) = Places(f, L) \ {f[p]}
  BY <1>1, SkipRising DEF g
<1>10. ASSUME NEW x \in 1 .. n
       PROVE  x \in Places(g, L - 1) <=> \A j \in Done(k) : s[j] # x
  <2>1. (\A j \in Done(k) : s[j] # x) <=> x # f[p] /\ \A j \in D : q[j] # x
    BY <1>2, <1>3
  <2> QED BY <1>5, <1>7, <2>1
<1>11. \A i, j \in Done(k) : s[i] = s[j] => i = j
  <2>1. \A j \in D : q[j] # f[p]
    <3>1. f[p] \in Places(f, L) /\ f[p] \in 1 .. n
      BY <1>1, <1>7 DEF Places
    <3> QED BY <1>7, <3>1
  <2> QED BY <1>2, <1>3, <1>7, <2>1
<1>12. ASSUME NEW h \in 1 .. L - 1, \A j \in Done(k) : h < Position(j)
       PROVE  g[h] = h
  <2>1. h < p /\ h \in 1 .. L /\ \A j \in D : h < Position(j)
    BY <1>1, <1>2, <1>12 DEF p
  <2> QED BY <1>7, <1>8, <2>1
<1>13. ASSUME NEW j \in D
       PROVE  /\ s[j] >= Position(j)
              /\ (\A i \in Earlier(j) : Position(i) > Position(j)) => s[j] = Position(j)
              /\ s[j] = Position(j) => \A i \in Earlier(j) : s[i] > Position(j)
  BY <1>3, <1>6, <1>7
<1>14. s[k] >= p
  BY <1>3, <1>7
<1>15. (\A i \in D : Position(i) > p) => s[k] = p
  <2>1. ASSUME \A i \in D : Position(i) > p PROVE f[p] = p
    <3>1. \A i \in D : p < Position(i)
      BY <1>9, <2>1
    <3> QED BY <1>1, <1>7, <3>1
  <2> QED BY <1>3, <2>1
<1>16. ASSUME s[k] = p, NEW i \in D PROVE s[i] > p
  <2>1. \A h \in 1 .. p : f[h] = h
    <3>1. f[p] = p
      BY <1>3, <1>16
    <3>2. ASSUME NEW h \in 1 .. p
          PROVE  h \in 1 .. L /\ f[h] \in 1 .. n /\ f[h] >= h /\ f[p] - f[h] >= p - h
      <4>1. h \in 1 .. L /\ h <= p
        BY <1>1, <3>2
      <4> QED BY <1>1, <4>1 DEF Rising
    <3> QED BY <1>9, <3>1, <3>2
  <2>2. q[i] \in 1 .. n
    BY <1>1
  <2>3. ASSUME q[i] \in 1 .. p PROVE FALSE
    <3>1. q[i] \in 1 .. L /\ f[q[i]] = q[i]
      BY <1>1, <2>1, <2>3
    <3>2. q[i] \in Places(f, L)
      BY <3>1 DEF Places
    <3> QED BY <1>7, <2>2, <3>2
  <2>4. p \in Int /\ q[i] \in Int /\ q[i] >= 1
    BY <1>1, <2>2
  <2> QED BY <1>3, <2>3, <2>4
<1>17. Trace(g, L - 1, s, k)
  <2>1. \A j \in Done(k) :
          /\ s[j] >= Position(j)
          /\ (\A i \in Earlier(j) : Position(i) > Position(j)) => s[j] = Position(j)
          /\ s[j] = Position(j) => \A i \in Earlier(j) : s[i] > Position(j)
    BY <1>2, <1>13, <1>14, <1>15, <1>16 DEF p
  <2> QED BY <1>1, <1>4, <1>5, <1>10, <1>11, <1>12, <2>1 DEF Trace, n
<1>18. RemoveIndex(Left(f, L), p) = Left(g, L - 1)
  <2> DEFINE list == Left(f, L)
  <2>1. list \in Seq(TaintKeys) /\ Len(list) = L /\ p \in DOMAIN list
    <3>1. \A h \in 1 .. L : current[f[h]] \in TaintKeys
      BY <1>1 DEF n
    <3> QED BY <1>1, <3>1 DEF Left
  <2>2. \A h \in 1 .. L : list[h] = current[f[h]]
    BY DEF Left
  <2> HIDE DEF list
  <2>3. RemoveIndex(list, p) = [h \in 1 .. L - 1 |-> IF h < p THEN list[h] ELSE list[h + 1]]
    BY <2>1, RemoveIndexRest
  <2>4. \A h \in 1 .. L - 1 : h \in 1 .. L /\ h + 1 \in 1 .. L
    BY <1>1
  <2>5. \A h \in 1 .. L - 1 : (IF h < p THEN list[h] ELSE list[h + 1]) = current[g[h]]
    BY <1>8, <2>2, <2>4
  <2> QED BY <2>3, <2>5 DEF Left, list
<1> QED BY <1>17, <1>18 DEF p, g, s
-----------------------------------------------------------------------------
(* r is the result of a fresh patch that has come to configured taint k.   *)
Traced(r, k) ==
  \/ r = {} /\ ~Descending
  \/ \E f, L, q : Trace(f, L, q, k) /\ r = {Left(f, L)}

(* What is left is a list of keys, one for each place.                     *)
LEMMA LeftType ==
  ASSUME current \in Seq(TaintKeys), NEW f, NEW L \in Nat, Rising(f, L, Len(current))
  PROVE  Left(f, L) \in Seq(TaintKeys) /\ Len(Left(f, L)) = L
<1>1. \A h \in 1 .. L : current[f[h]] \in TaintKeys
  BY DEF Rising
<1> QED BY <1>1 DEF Left

(* In descending order no operation is out of range.                       *)
LEMMA DescendingInRange ==
  ASSUME current \in Seq(TaintKeys), snapshot = current, configured \in Seq(TaintKeys), Descending,
         NEW k \in 1 .. Len(configured), k \in Operations,
         NEW f, NEW L, NEW q, Trace(f, L, q, k - 1)
  PROVE  Position(k) <= L
<1> DEFINE p == Position(k)
           n == Len(current)
           D == Done(k - 1)
<1>1. p \in 1 .. n /\ \A j \in D : Position(j) \in Nat
  <2>1. Position(k) # 0
    BY DEF Operations
  <2> QED BY <2>1, PositionType
<1>2. \A j \in D : j \in Operations /\ Position(j) > p
  <2>1. D = Earlier(k)
    BY DoneGrows
  <2> QED BY <2>1 DEF Earlier, Descending
<1>3. /\ L \in Nat /\ q \in [D -> 1 .. n]
      /\ \A x \in 1 .. n : x \in Places(f, L) <=> \A j \in D : q[j] # x
      /\ \A h \in 1 .. L : (\A j \in D : h < Position(j)) => f[h] = h
      /\ \A j \in D : q[j] >= Position(j)
      /\ f \in [1 .. L -> 1 .. n]
      /\ \A h \in 1 .. L : f[h] >= h
  BY DEF Trace, Rising
<1> HIDE DEF p, n, D
<1>4. \A j \in D : q[j] # p
  BY <1>1, <1>2, <1>3
<1>5. PICK h \in 1 .. L : f[h] = p
  BY <1>1, <1>3, <1>4 DEF Places
<1>6. h <= p
  BY <1>3, <1>5
<1>7. ASSUME h < p PROVE FALSE
  <2>1. \A j \in D : h < Position(j)
    BY <1>1, <1>2, <1>7
  <2>2. f[h] = h
    BY <1>3, <2>1
  <2> QED BY <1>1, <1>5, <1>7, <2>2
<1> QED BY <1>1, <1>3, <1>5, <1>6, <1>7 DEF p

(* One more configured taint keeps the trace.                              *)
LEMMA TracedStep ==
  ASSUME current \in Seq(TaintKeys), snapshot = current, configured \in Seq(TaintKeys),
         NEW k \in 1 .. Len(configured), NEW r, Traced(r, k - 1)
  PROVE  Traced(PatchStep(r, snapshot, configured[k]), k)
<1> DEFINE s == PatchStep(r, snapshot, configured[k])
<1>1. k \in DOMAIN configured /\ snapshot \in Seq(TaintKeys)
  OBVIOUS
<1>2. CASE r = {} /\ ~Descending
  <2>1. r \in SUBSET Seq(TaintKeys)
    BY <1>2
  <2>2. s = {}
    BY <1>1, <1>2, <2>1, OneRemoval
  <2> HIDE DEF s
  <2> QED BY <1>2, <2>2 DEF Traced, s
<1>3. CASE \E f, L, q : Trace(f, L, q, k - 1) /\ r = {Left(f, L)}
  <2>1. PICK f, L, q : Trace(f, L, q, k - 1) /\ r = {Left(f, L)}
    BY <1>3
  <2>2. L \in Nat /\ Rising(f, L, Len(current))
    BY <2>1 DEF Trace
  <2>3. Left(f, L) \in Seq(TaintKeys) /\ Len(Left(f, L)) = L
    BY <2>2, LeftType
  <2>4. r \in SUBSET Seq(TaintKeys)
    BY <2>1, <2>3
  <2>5. CASE k \notin Operations
    <3>1. s = r
      BY <1>1, <2>4, <2>5, OneRemoval
    <3>2. Done(k) = Done(k - 1)
      BY <2>5, DoneGrows
    <3>3. Trace(f, L, q, k)
      BY <2>1, <3>2 DEF Trace
    <3> HIDE DEF s
    <3> QED BY <2>1, <3>1, <3>3 DEF Traced, s
  <2>6. CASE k \in Operations /\ Position(k) > L
    <3>1. s = {}
      <4>1. Position(k) > Len(Left(f, L))
        BY <2>3, <2>6
      <4> QED BY <1>1, <2>1, <2>4, <2>6, <4>1, OneRemoval
    <3>2. ~Descending
      <4>1. ASSUME Descending PROVE Position(k) <= L
        BY <2>1, <2>6, <4>1, DescendingInRange
      <4>2. Position(k) \in Nat
        BY <1>1, PositionType
      <4> QED BY <2>2, <2>6, <4>1, <4>2
    <3> HIDE DEF s
    <3> QED BY <3>1, <3>2 DEF Traced, s
  <2>7. CASE k \in Operations /\ ~(Position(k) > L)
    <3> DEFINE p == Position(k)
               t == [j \in Done(k) |-> IF j = k THEN f[p] ELSE q[j]]
    <3>1. p \in 1 .. L
      <4>1. Position(k) \in Nat /\ Position(k) # 0
        BY <1>1, <2>7, PositionType DEF Operations
      <4> QED BY <2>2, <2>7, <4>1
    <3>2. s = {RemoveIndex(Left(f, L), p)}
      <4>1. Position(k) <= Len(Left(f, L))
        BY <2>2, <2>3, <3>1
      <4> QED BY <1>1, <2>1, <2>4, <2>7, <4>1, OneRemoval
    <3>3. /\ Trace(Skip(f, L, p), L - 1, t, k)
          /\ RemoveIndex(Left(f, L), p) = Left(Skip(f, L, p), L - 1)
      BY <1>1, <2>1, <2>7, <3>1, TraceStep
    <3>4. s = {Left(Skip(f, L, p), L - 1)}
      BY <3>2, <3>3
    <3> HIDE DEF s, t, p
    <3> QED BY <3>3, <3>4 DEF Traced, s
  <2> QED BY <2>5, <2>6, <2>7
<1> QED BY <1>2, <1>3 DEF Traced

(* A patch of the list it was computed on has a trace.                     *)
LEMMA PatchIsTraced ==
  ASSUME current \in Seq(TaintKeys), snapshot = current, configured \in Seq(TaintKeys)
  PROVE  Traced(Patched, Len(configured))
<1> DEFINE n == Len(configured)
<1>0. n \in Nat /\ Len(current) \in Nat
  OBVIOUS
<1>1. PICK f : PatchResults(f, n, current, snapshot, configured)
  BY <1>0, PatchRunSteps
<1> DEFINE Bad == {k \in 0 .. n : ~Traced(f[k], k)}
<1>2. ASSUME Bad # {} PROVE FALSE
  <2>1. PICK k \in Bad : \A j \in Bad : k <= j
    <3>1. Bad \in SUBSET Nat
      OBVIOUS
    <3> HIDE DEF Bad
    <3> QED BY <1>2, <3>1, LeastNatural
  <2>2. k # 0
    <3> DEFINE all == [h \in 1 .. Len(current) |-> h]
               none == [j \in {} |-> 0]
    <3>1. f[0] = {current} /\ Done(0) = {}
      BY <1>1, DoneBounds DEF PatchResults
    <3>2. Left(all, Len(current)) = current
      BY DEF Left
    <3>3. Trace(all, Len(current), none, 0)
      BY <1>0, <3>1 DEF Trace, Rising, Places
    <3>4. Traced(f[0], 0)
      BY <3>1, <3>2, <3>3 DEF Traced
    <3> QED BY <2>1, <3>4
  <2>3. k \in 1 .. n /\ Traced(f[k - 1], k - 1)
    BY <2>1, <2>2
  <2>4. f[k] = PatchStep(f[k - 1], snapshot, configured[k])
    BY <1>1, <2>3 DEF PatchResults
  <2>5. Traced(f[k], k)
    BY <2>3, <2>4, TracedStep
  <2> QED BY <2>1, <2>5
<1>3. Traced(f[n], n)
  BY <1>0, <1>2
<1> QED BY <1>1, <1>3 DEF PatchResults, Patched

(* The positions of a list that a removal of some leaves.                  *)
Kept(list, positions) == DOMAIN list \ positions

(* Every element that is kept stands at its rank.                          *)
LEMMA WithoutAtRank ==
  ASSUME NEW K, NEW list \in Seq(K), NEW positions, NEW i \in Kept(list, positions)
  PROVE  /\ DOMAIN Without(list, positions) = 1 .. Cardinality(Kept(list, positions))
         /\ Rank(Kept(list, positions), i) \in 1 .. Cardinality(Kept(list, positions))
         /\ Without(list, positions)[Rank(Kept(list, positions), i)] = list[i]
<1> DEFINE n == Len(list)
           kept == Kept(list, positions)
<1>1. n \in Nat /\ kept \in SUBSET (1 .. n) /\ i \in kept
  BY DEF Kept
<1>2. Without(list, positions) =
        [r \in 1 .. Cardinality(kept) |-> list[CHOOSE m \in kept : Rank(kept, m) = r]]
  BY DEF Without, Rank, Kept
<1> HIDE DEF kept
<1>3. /\ \A m \in kept : Rank(kept, m) \in 1 .. Cardinality(kept)
      /\ \A m, j \in kept : m < j => Rank(kept, m) < Rank(kept, j)
  <2> HIDE DEF n
  <2> QED BY <1>1, RankIncreases
<1>4. \A m \in kept : Rank(kept, m) = Rank(kept, i) => m = i
  <2>1. \A m \in kept : m \in Int /\ Rank(kept, m) \in Int
    <3>1. \A m \in kept : m \in Int
      BY <1>1
    <3>2. \A r \in 1 .. Cardinality(kept) : r \in Int
      OBVIOUS
    <3> QED BY <1>3, <3>1, <3>2
  <2>2. \A m \in kept : m < i \/ i < m \/ m = i
    BY <1>1, <2>1
  <2>3. ASSUME NEW m \in kept, Rank(kept, m) = Rank(kept, i) PROVE ~(m < i) /\ ~(i < m)
    <3>1. (m < i => Rank(kept, m) < Rank(kept, i)) /\ (i < m => Rank(kept, i) < Rank(kept, m))
      BY <1>1, <1>3
    <3> QED BY <2>1, <2>3, <3>1
  <2> QED BY <2>2, <2>3
<1>5. (CHOOSE m \in kept : Rank(kept, m) = Rank(kept, i)) = i
  BY <1>4
<1>6. Rank(kept, i) \in 1 .. Cardinality(kept)
  BY <1>1, <1>3
<1> QED BY <1>2, <1>5, <1>6 DEF kept

-----------------------------------------------------------------------------
(* A list that is what was left at the places not taken, all of them first *)
(* positions, is the list without these positions.                         *)
LEMMA LeftIsWithout ==
  ASSUME current \in Seq(TaintKeys), NEW f, NEW L \in Nat, Rising(f, L, Len(current)),
         Places(f, L) = Kept(current, Positions)
  PROVE  Left(f, L) = Without(current, Positions)
<1> DEFINE kept == Kept(current, Positions)
           w == Without(current, Positions)
<1>1. Len(current) \in Nat
  OBVIOUS
<1>2. /\ Cardinality(kept) = L
      /\ \A h \in 1 .. L : f[h] \in kept /\ Rank(kept, f[h]) = h
  BY <1>1, RisingRank
<1>3. DOMAIN w = 1 .. L
  BY <1>2 DEF Without, Kept
<1>4. ASSUME NEW h \in 1 .. L PROVE w[h] = current[f[h]]
  <2>1. f[h] \in kept /\ Rank(kept, f[h]) = h
    BY <1>2
  <2>2. w[Rank(kept, f[h])] = current[f[h]]
    BY <2>1, WithoutAtRank
  <2> HIDE DEF w, kept
  <2> QED BY <2>1, <2>2
<1>5. w = [h \in 1 .. L |-> w[h]]
  <2>1. w = [h \in DOMAIN w |-> w[h]]
    BY DEF Without
  <2> QED BY <1>3, <2>1
<1> QED BY <1>4, <1>5 DEF Left

(* An exact patch of a list without repeated keys took no place that is    *)
(* nobody's first position.                                                *)
LEMMA ExactTakesPositions ==
  ASSUME current \in Seq(TaintKeys), NoneRepeated(current),
         NEW f, NEW L, NEW q, NEW k, Trace(f, L, q, k),
         Left(f, L) = Without(current, Positions)
  PROVE  \A j \in Done(k) : q[j] \in Positions
<1> DEFINE kept == Kept(current, Positions)
<1> SUFFICES ASSUME NEW j \in Done(k), q[j] \notin Positions PROVE FALSE
  OBVIOUS
<1>1. /\ L \in Nat /\ f \in [1 .. L -> DOMAIN current] /\ q[j] \in DOMAIN current
      /\ q[j] \notin Places(f, L)
  <2>1. q[j] \in 1 .. Len(current) /\ Rising(f, L, Len(current))
    BY DEF Trace
  <2>2. q[j] \notin Places(f, L)
    BY <2>1 DEF Trace
  <2> QED BY <2>1, <2>2 DEF Rising, Trace
<1>2. q[j] \in kept
  BY <1>1 DEF Kept
<1> DEFINE w == Without(current, Positions)
           r == Rank(kept, q[j])
<1>3. r \in DOMAIN w /\ w[r] = current[q[j]]
  <2>1. /\ DOMAIN w = 1 .. Cardinality(kept)
        /\ r \in 1 .. Cardinality(kept)
        /\ w[r] = current[q[j]]
    BY <1>2, WithoutAtRank
  <2> QED BY <2>1
<1>4. DOMAIN Left(f, L) = 1 .. L /\ \A h \in 1 .. L : Left(f, L)[h] = current[f[h]]
  BY DEF Left
<1> HIDE DEF w, r, kept
<1>5. r \in 1 .. L /\ current[f[r]] = current[q[j]]
  BY <1>3, <1>4 DEF w
<1>6. f[r] = q[j]
  BY <1>1, <1>5 DEF NoneRepeated
<1> QED BY <1>1, <1>5, <1>6 DEF Places

(* If every place taken is some first position, each is its own taint's:   *)
(* the hindmost taint whose first position was not taken for it would have *)
(* had one taken further back, that of a taint for which it was taken.     *)
LEMMA PositionsTakenAreOwn ==
  ASSUME current \in Seq(TaintKeys), snapshot = current, configured \in Seq(TaintKeys),
         NEW f, NEW L, NEW q, NEW k, Trace(f, L, q, k), Done(k) = Operations,
         \A j \in Done(k) : q[j] \in Positions
  PROVE  \A j \in Done(k) : q[j] = Position(j)
<1> DEFINE n == Len(current)
           Moved == {j \in Done(k) : q[j] # Position(j)}
           Behind == {n - Position(j) : j \in Moved}
<1> SUFFICES ASSUME Moved # {} PROVE FALSE
  OBVIOUS
<1>1. \A j \in Done(k) : Position(j) \in 1 .. n
  <2>1. ASSUME NEW j \in Done(k) PROVE Position(j) \in 1 .. n
    <3>1. Position(j) # 0
      BY DEF Operations
    <3> QED BY <3>1, PositionType
  <2> QED BY <2>1
<1>2. n \in Nat
  OBVIOUS
<1>3. /\ \A i, j \in Done(k) : q[i] = q[j] => i = j
      /\ \A j \in Done(k) : q[j] \in 1 .. n /\ q[j] >= Position(j)
  BY DEF Trace
<1> HIDE DEF n
<1>4. PICK m \in Behind : \A b \in Behind : m <= b
  <2>1. Behind \in SUBSET Nat
    <3>1. ASSUME NEW j \in Moved PROVE n - Position(j) \in Nat
      BY <1>1, <1>2
    <3> QED BY <3>1
  <2>2. Behind # {}
    OBVIOUS
  <2> HIDE DEF Behind
  <2> QED BY <2>1, <2>2, LeastNatural
<1>5. PICK j \in Moved : m = n - Position(j)
  BY <1>4
<1>6. \A i \in Moved : n - Position(j) <= n - Position(i)
  BY <1>4, <1>5
<1>7. PICK i \in Done(k) : q[j] = Position(i)
  BY DEF Positions
<1>8. Position(i) > Position(j)
  <2>1. /\ q[j] # Position(j) /\ q[j] >= Position(j)
        /\ Position(i) \in Int /\ Position(j) \in Int
    BY <1>1, <1>3
  <2> QED BY <1>7, <2>1
<1>9. i \notin Moved
  <2>1. Position(i) \in Int /\ Position(j) \in Int
    BY <1>1
  <2>2. ~(n - Position(j) <= n - Position(i))
    BY <1>2, <1>8, <2>1
  <2> QED BY <1>6, <2>2
<1>10. q[i] = q[j] /\ q[i] = Position(i)
  BY <1>7, <1>9
<1>11. i = j
  BY <1>3, <1>10
<1> QED BY <1>5, <1>9, <1>11

(* When a patch of the list it was computed on is exact.                   *)
LEMMA ExactInReverseOrder ==
  ASSUME current \in Seq(TaintKeys), snapshot \in Seq(TaintKeys), configured \in Seq(TaintKeys)
  PROVE  ExactInReverseOrderOnly
<1> DEFINE w == Without(current, Positions)
           k == Len(configured)
<1> SUFFICES ASSUME current = snapshot
             PROVE  /\ Descending => Patched = {w}
                    /\ NoneRepeated(current) /\ Patched = {w} => Descending
  BY DEF ExactInReverseOrderOnly
<1>1. Traced(Patched, k) /\ Done(k) = Operations
  BY PatchIsTraced, DoneBounds
<1>2. k \in Nat
  OBVIOUS
<1> HIDE DEF w, k
<1>3. ASSUME Descending PROVE Patched = {w}
  <2>1. PICK f, L, q : Trace(f, L, q, k) /\ Patched = {Left(f, L)}
    BY <1>1, <1>3 DEF Traced
  <2>2. \A j \in Done(k) : q[j] = Position(j)
    <3>1. ASSUME NEW j \in Done(k), NEW i \in Earlier(j) PROVE Position(i) > Position(j)
      BY <1>1, <1>3 DEF Earlier, Descending
    <3> QED BY <2>1, <3>1 DEF Trace
  <2>3. Places(f, L) = DOMAIN current \ Positions
    <3>1. /\ Places(f, L) \subseteq DOMAIN current
          /\ \A x \in DOMAIN current : x \in Places(f, L) <=> \A j \in Done(k) : q[j] # x
      <4>1. Rising(f, L, Len(current)) /\ DOMAIN current = 1 .. Len(current)
        BY <2>1 DEF Trace
      <4>2. Places(f, L) \subseteq 1 .. Len(current)
        BY <4>1 DEF Rising, Places
      <4> QED BY <2>1, <4>1, <4>2 DEF Trace
    <3>2. \A x : x \in Positions <=> \E j \in Done(k) : q[j] = x
      BY <1>1, <2>2 DEF Positions
    <3> QED BY <3>1, <3>2
  <2>4. Left(f, L) = w
    <3>1. L \in Nat /\ Rising(f, L, Len(current))
      BY <2>1 DEF Trace
    <3>2. Places(f, L) = Kept(current, Positions)
      BY <2>3 DEF Kept
    <3> QED BY <3>1, <3>2, LeftIsWithout DEF w
  <2> QED BY <2>1, <2>4
<1>4. ASSUME NoneRepeated(current), Patched = {w} PROVE Descending
  <2>1. PICK f, L, q : Trace(f, L, q, k) /\ Patched = {Left(f, L)}
    BY <1>1, <1>4 DEF Traced
  <2>2. \A j \in Done(k) : q[j] \in Positions
    <3>1. Left(f, L) = Without(current, Positions)
      BY <1>4, <2>1 DEF w
    <3> QED BY <1>4, <2>1, <3>1, ExactTakesPositions
  <2>3. \A j \in Done(k) : q[j] = Position(j)
    BY <1>1, <2>1, <2>2, PositionsTakenAreOwn
  <2>4. ASSUME NEW j \in Operations, NEW i \in Operations, j < i
        PROVE  Position(j) > Position(i)
    <3>1. j \in Earlier(i) /\ i \in Done(k) /\ j \in Done(k)
      BY <1>1, <2>4 DEF Earlier
    <3>2. q[i] = Position(i) => q[j] > Position(i)
      BY <2>1, <3>1 DEF Trace
    <3> QED BY <2>3, <3>1, <3>2
  <2> QED BY <2>4 DEF Descending
<1> QED BY <1>3, <1>4

(* A patch of UpdateNodeMetadata that meets the list it was computed on    *)
(* removes exactly the configured taints when they stand in the reverse of *)
(* their configured order, and, on a node without repeated keys, only      *)
(* then: whatever the lists.                                               *)
THEOREM PatchesAreExactInReverseOrderOnly == Spec => []ExactInReverseOrderOnly
<1>1. TypeOK => ExactInReverseOrderOnly
  BY ExactInReverseOrder DEF TypeOK
<1> QED BY <1>1, TypeCorrect, PTL

-----------------------------------------------------------------------------
(* The powers of two in the low half of a word: the solver computes one    *)
(* that is written out, and none of a variable.                            *)
LEMMA Powers ==
  ASSUME NEW b \in 0 .. 29
  PROVE  2^(b + 1) = 2 * 2^b /\ 2^b \in Nat \ {0}
<1>1. \/ b = 0 \/ b = 1 \/ b = 2 \/ b = 3 \/ b = 4 \/ b = 5 \/ b = 6 \/ b = 7
      \/ b = 8 \/ b = 9 \/ b = 10 \/ b = 11 \/ b = 12 \/ b = 13 \/ b = 14 \/ b = 15
      \/ b = 16 \/ b = 17 \/ b = 18 \/ b = 19 \/ b = 20 \/ b = 21 \/ b = 22 \/ b = 23
      \/ b = 24 \/ b = 25 \/ b = 26 \/ b = 27 \/ b = 28 \/ b = 29
  BY SMT
<1>2. /\ 2^(0 + 1) = 2 * 2^0 /\ 2^(1 + 1) = 2 * 2^1 /\ 2^(2 + 1) = 2 * 2^2
      /\ 2^(3 + 1) = 2 * 2^3 /\ 2^(4 + 1) = 2 * 2^4 /\ 2^(5 + 1) = 2 * 2^5
      /\ 2^(6 + 1) = 2 * 2^6 /\ 2^(7 + 1) = 2 * 2^7 /\ 2^(8 + 1) = 2 * 2^8
      /\ 2^(9 + 1) = 2 * 2^9 /\ 2^(10 + 1) = 2 * 2^10 /\ 2^(11 + 1) = 2 * 2^11
      /\ 2^(12 + 1) = 2 * 2^12 /\ 2^(13 + 1) = 2 * 2^13 /\ 2^(14 + 1) = 2 * 2^14
      /\ 2^(15 + 1) = 2 * 2^15 /\ 2^(16 + 1) = 2 * 2^16 /\ 2^(17 + 1) = 2 * 2^17
      /\ 2^(18 + 1) = 2 * 2^18 /\ 2^(19 + 1) = 2 * 2^19 /\ 2^(20 + 1) = 2 * 2^20
      /\ 2^(21 + 1) = 2 * 2^21 /\ 2^(22 + 1) = 2 * 2^22 /\ 2^(23 + 1) = 2 * 2^23
      /\ 2^(24 + 1) = 2 * 2^24 /\ 2^(25 + 1) = 2 * 2^25 /\ 2^(26 + 1) = 2 * 2^26
      /\ 2^(27 + 1) = 2 * 2^27 /\ 2^(28 + 1) = 2 * 2^28 /\ 2^(29 + 1) = 2 * 2^29
  BY SMT
<1>3. /\ 2^0 \in Nat \ {0} /\ 2^1 \in Nat \ {0} /\ 2^2 \in Nat \ {0} /\ 2^3 \in Nat \ {0}
      /\ 2^4 \in Nat \ {0} /\ 2^5 \in Nat \ {0} /\ 2^6 \in Nat \ {0} /\ 2^7 \in Nat \ {0}
      /\ 2^8 \in Nat \ {0} /\ 2^9 \in Nat \ {0} /\ 2^10 \in Nat \ {0} /\ 2^11 \in Nat \ {0}
      /\ 2^12 \in Nat \ {0} /\ 2^13 \in Nat \ {0} /\ 2^14 \in Nat \ {0} /\ 2^15 \in Nat \ {0}
      /\ 2^16 \in Nat \ {0} /\ 2^17 \in Nat \ {0} /\ 2^18 \in Nat \ {0} /\ 2^19 \in Nat \ {0}
      /\ 2^20 \in Nat \ {0} /\ 2^21 \in Nat \ {0} /\ 2^22 \in Nat \ {0} /\ 2^23 \in Nat \ {0}
      /\ 2^24 \in Nat \ {0} /\ 2^25 \in Nat \ {0} /\ 2^26 \in Nat \ {0} /\ 2^27 \in Nat \ {0}
      /\ 2^28 \in Nat \ {0} /\ 2^29 \in Nat \ {0}
  BY SMT
<1>4. 2^(b + 1) = 2 * 2^b
  BY <1>1, <1>2, Zenon
<1>5. 2^b \in Nat \ {0}
  BY <1>1, <1>3, Zenon
<1> QED BY <1>4, <1>5

(* The bits of a word k places up, none of them lost.                      *)
Up(word, k) == {b + k : b \in word}

(* A word made from a number has its bits in the low half.                 *)
LEMMA WordType == ASSUME NEW n PROVE Word(n) \subseteq 0 .. 30
BY DEF Word

(* Every power of two in a word's low half is at least the 21st, 24th or   *)
(* 26th from there on.                                                     *)
LEMMA HighPowers ==
  /\ \A b \in 21 .. 30 : 2^b >= 2^21
  /\ \A b \in 24 .. 30 : 2^b >= 2^24
  /\ \A b \in 26 .. 30 : 2^b >= 2^26
<1>1. /\ 2^21 >= 2^21 /\ 2^22 >= 2^21 /\ 2^23 >= 2^21 /\ 2^24 >= 2^21
      /\ 2^25 >= 2^21 /\ 2^26 >= 2^21 /\ 2^27 >= 2^21 /\ 2^28 >= 2^21
      /\ 2^29 >= 2^21 /\ 2^30 >= 2^21
  BY SMT
<1>2. /\ 2^24 >= 2^24 /\ 2^25 >= 2^24 /\ 2^26 >= 2^24 /\ 2^27 >= 2^24
      /\ 2^28 >= 2^24 /\ 2^29 >= 2^24 /\ 2^30 >= 2^24
  BY SMT
<1>3. /\ 2^26 >= 2^26 /\ 2^27 >= 2^26 /\ 2^28 >= 2^26 /\ 2^29 >= 2^26
      /\ 2^30 >= 2^26
  BY SMT
<1>4. ASSUME NEW b \in 21 .. 30 PROVE 2^b >= 2^21
  <2>1. \/ b = 21 \/ b = 22 \/ b = 23 \/ b = 24 \/ b = 25 \/ b = 26 \/ b = 27 \/ b = 28
        \/ b = 29 \/ b = 30
    BY SMT
  <2> QED BY <1>1, <2>1, Zenon
<1>5. ASSUME NEW b \in 24 .. 30 PROVE 2^b >= 2^24
  <2>1. \/ b = 24 \/ b = 25 \/ b = 26 \/ b = 27 \/ b = 28 \/ b = 29 \/ b = 30
    BY SMT
  <2> QED BY <1>2, <2>1, Zenon
<1>6. ASSUME NEW b \in 26 .. 30 PROVE 2^b >= 2^26
  <2>1. \/ b = 26 \/ b = 27 \/ b = 28 \/ b = 29 \/ b = 30
    BY SMT
  <2> QED BY <1>3, <2>1, Zenon
<1> QED BY <1>4, <1>5, <1>6

(* A number below 2^21, 2^24, 2^26 has no bit from there on.               *)
LEMMA NoHighBits ==
  ASSUME NEW n \in Nat
  PROVE  /\ n < 2^21 => Word(n) \in SUBSET (0 .. 20)
         /\ n < 2^24 => Word(n) \in SUBSET (0 .. 23)
         /\ n < 2^26 => Word(n) \in SUBSET (0 .. 25)
<1>1. ASSUME NEW b \in 0 .. 30 PROVE 2^b \in Nat \ {0}
  <2>1. b \in 0 .. 29 \/ b = 30
    BY SMT
  <2>2. 2^30 \in Nat \ {0}
    BY SMT
  <2> QED BY <2>1, <2>2, Powers, Zenon
<1>2. \A p \in Nat \ {0} : n < p => n \div p = 0
  BY SMT
<1>3. ASSUME NEW b \in 0 .. 30, n < 2^b PROVE b \notin Word(n)
  <2>1. n \div 2^b = 0
    BY <1>1, <1>2, <1>3, Zenon
  <2>2. 0 % 2 # 1
    BY SMT
  <2> QED BY <2>1, <2>2, Zenon DEF Word
<1>4. ASSUME NEW b \in 0 .. 30, NEW m \in Nat, n < m, 2^b >= m PROVE b \notin Word(n)
  <2>1. 2^b \in Nat
    BY <1>1, Zenon
  <2>2. n < 2^b
    BY <1>4, <2>1, SMT
  <2> QED BY <1>3, <2>2, Zenon
<1>5. 2^21 \in Nat /\ 2^24 \in Nat /\ 2^26 \in Nat
  BY SMT
<1>6. ASSUME n < 2^21, NEW b \in Word(n) PROVE b \in 0 .. 20
  <2>1. b \in 0 .. 30 /\ (b \in 0 .. 20 \/ b \in 21 .. 30)
    BY WordType, SMT
  <2> QED BY <1>4, <1>5, <1>6, <2>1, HighPowers, Zenon
<1>7. ASSUME n < 2^24, NEW b \in Word(n) PROVE b \in 0 .. 23
  <2>1. b \in 0 .. 30 /\ (b \in 0 .. 23 \/ b \in 24 .. 30)
    BY WordType, SMT
  <2> QED BY <1>4, <1>5, <1>7, <2>1, HighPowers, Zenon
<1>8. ASSUME n < 2^26, NEW b \in Word(n) PROVE b \in 0 .. 25
  <2>1. b \in 0 .. 30 /\ (b \in 0 .. 25 \/ b \in 26 .. 30)
    BY WordType, SMT
  <2> QED BY <1>4, <1>5, <1>8, <2>1, HighPowers, Zenon
<1> QED BY <1>6, <1>7, <1>8, Zenon

(* Twice a number has its bits one place up.                               *)
LEMMA Doubling ==
  ASSUME NEW n \in Nat, n < 2^30
  PROVE  Word(2 * n) = Up(Word(n), 1)
<1> DEFINE Bit(m, b) == (m \div 2^b) % 2 = 1
<1>1. ASSUME NEW b \in 0 .. 29 PROVE Bit(2 * n, b + 1) <=> Bit(n, b)
  <2>1. 2^(b + 1) = 2 * 2^b /\ 2^b \in Nat \ {0}
    BY Powers
  <2>2. \A p \in Nat \ {0} : (2 * n) \div (2 * p) = n \div p
    BY SMT
  <2>3. (2 * n) \div 2^(b + 1) = n \div 2^b
    BY <2>1, <2>2, Zenon
  <2> QED BY <2>3, Zenon
<1>2. ~Bit(2 * n, 0)
  BY SMT
<1>3. ~Bit(n, 30)
  BY SMT
<1> HIDE DEF Bit
<1>4. \A m : Word(m) = {b \in 0 .. 30 : Bit(m, b)}
  BY DEF Word, Bit
<1>5. \A b \in Word(2 * n) : \E c \in Word(n) : b = c + 1
  <2> TAKE b \in Word(2 * n)
  <2>1. b \in 0 .. 30 /\ Bit(2 * n, b) /\ b # 0
    BY <1>2, <1>4, Zenon
  <2>2. b - 1 \in 0 .. 29 /\ (b - 1) + 1 = b /\ b - 1 \in 0 .. 30
    BY <2>1, SMT
  <2>3. Bit(n, b - 1)
    BY <1>1, <2>1, <2>2, Zenon
  <2>4. b - 1 \in Word(n)
    BY <1>4, <2>2, <2>3, Zenon
  <2> QED BY <2>2, <2>4, Zenon
<1>6. \A c \in Word(n) : c + 1 \in Word(2 * n)
  <2> TAKE c \in Word(n)
  <2>1. c \in 0 .. 30 /\ Bit(n, c) /\ c # 30
    BY <1>3, <1>4, Zenon
  <2>2. c \in 0 .. 29 /\ c + 1 \in 0 .. 30
    BY <2>1, SMT
  <2> QED BY <1>1, <1>4, <2>1, <2>2, Zenon
<1>7. \A x : x \in Up(Word(n), 1) <=> \E c \in Word(n) : x = c + 1
  BY DEF Up
<1> QED BY <1>5, <1>6, <1>7, SMT

(* A word moved twice.                                                     *)
LEMMA UpTwice ==
  ASSUME NEW word \in SUBSET Nat, NEW k \in Nat, NEW m \in Nat
  PROVE  Up(Up(word, k), m) = Up(word, k + m)
<1>1. \A b \in word : (b + k) + m = b + (k + m)
  BY SMT
<1>2. \A x : x \in Up(Up(word, k), m) <=> \E b \in word : x = (b + k) + m
  BY Zenon DEF Up
<1>3. \A x : x \in Up(word, k + m) <=> \E b \in word : x = b + (k + m)
  BY Zenon DEF Up
<1>4. ASSUME NEW x
      PROVE  (\E b \in word : x = (b + k) + m) <=> (\E b \in word : x = b + (k + m))
  BY <1>1, Zenon
<1>5. \A x : x \in Up(Up(word, k), m) <=> x \in Up(word, k + m)
  <2> DEFINE Twice(x) == \E b \in word : x = (b + k) + m
             Once(x) == \E b \in word : x = b + (k + m)
  <2>1. \A x : x \in Up(Up(word, k), m) <=> Twice(x)
    BY <1>2
  <2>2. \A x : x \in Up(word, k + m) <=> Once(x)
    BY <1>3
  <2>3. \A x : Twice(x) <=> Once(x)
    BY <1>4
  <2> HIDE DEF Twice, Once
  <2> QED BY <2>1, <2>2, <2>3, Zenon
<1> QED BY <1>5, SMT

(* Five and nine doublings at once.                                        *)
LEMMA FiveDoublings ==
  ASSUME NEW n \in Nat, n < 2^26
  PROVE  /\ Word(2 * n) = Up(Word(n), 1)
         /\ Word(4 * n) = Up(Word(n), 2)
         /\ Word(8 * n) = Up(Word(n), 3)
         /\ Word(16 * n) = Up(Word(n), 4)
         /\ Word(32 * n) = Up(Word(n), 5)
<1>0. Word(n) \in SUBSET Nat
  <2>1. \A b \in 0 .. 30 : b \in Nat
    BY SMT
  <2> QED BY <2>1, WordType, Zenon
<1> DEFINE W == Word(n)
<1>1. Word(2 * n) = Up(W, 1)
  BY Doubling, SMT
<1>2. Word(4 * n) = Up(W, 2)
  <2>1. 2 * n \in Nat /\ 2 * n < 2^30 /\ 2 * (2 * n) = 4 * n /\ 1 \in Nat /\ 1 + 1 = 2
    BY SMT
  <2> HIDE DEF W
  <2>2. Word(2 * (2 * n)) = Up(Word(2 * n), 1)
    BY <2>1, Doubling, Zenon
  <2>3. Up(Up(W, 1), 1) = Up(W, 1 + 1)
    BY <1>0, <2>1, UpTwice, Zenon DEF W
  <2> QED BY <1>1, <2>1, <2>2, <2>3, Zenon
<1>3. Word(8 * n) = Up(W, 3)
  <2>1. 4 * n \in Nat /\ 4 * n < 2^30 /\ 2 * (4 * n) = 8 * n /\ 1 \in Nat /\ 2 \in Nat /\ 2 + 1 = 3
    BY SMT
  <2> HIDE DEF W
  <2>2. Word(2 * (4 * n)) = Up(Word(4 * n), 1)
    BY <2>1, Doubling, Zenon
  <2>3. Up(Up(W, 2), 1) = Up(W, 2 + 1)
    BY <1>0, <2>1, UpTwice, Zenon DEF W
  <2> QED BY <1>2, <2>1, <2>2, <2>3, Zenon
<1>4. Word(16 * n) = Up(W, 4)
  <2>1. 8 * n \in Nat /\ 8 * n < 2^30 /\ 2 * (8 * n) = 16 * n /\ 1 \in Nat /\ 3 \in Nat /\ 3 + 1 = 4
    BY SMT
  <2> HIDE DEF W
  <2>2. Word(2 * (8 * n)) = Up(Word(8 * n), 1)
    BY <2>1, Doubling, Zenon
  <2>3. Up(Up(W, 3), 1) = Up(W, 3 + 1)
    BY <1>0, <2>1, UpTwice, Zenon DEF W
  <2> QED BY <1>3, <2>1, <2>2, <2>3, Zenon
<1>5. Word(32 * n) = Up(W, 5)
  <2>1. 16 * n \in Nat /\ 16 * n < 2^30 /\ 2 * (16 * n) = 32 * n
        /\ 1 \in Nat /\ 4 \in Nat /\ 4 + 1 = 5
    BY SMT
  <2> HIDE DEF W
  <2>2. Word(2 * (16 * n)) = Up(Word(16 * n), 1)
    BY <2>1, Doubling, Zenon
  <2>3. Up(Up(W, 4), 1) = Up(W, 4 + 1)
    BY <1>0, <2>1, UpTwice, Zenon DEF W
  <2> QED BY <1>4, <2>1, <2>2, <2>3, Zenon
<1> QED BY <1>1, <1>2, <1>3, <1>4, <1>5

(* A second is 512 times as many nanoseconds.                              *)
Unit == 1953125

(* The bits of one, five and thirty seconds that their comparison needs.   *)
LEMMA UnitWords ==
  /\ Word(Unit) \in SUBSET (0 .. 20) /\ 20 \in Word(Unit) /\ 19 \in Word(Unit) /\ 18 \in Word(Unit)
  /\ Word(5 * Unit) \in SUBSET (0 .. 23)
  /\ Word(30 * Unit) \in SUBSET (0 .. 25)
  /\ 25 \in Word(30 * Unit) /\ 23 \notin Word(30 * Unit)
<1>1. 20 \in Word(Unit) /\ 19 \in Word(Unit) /\ 18 \in Word(Unit)
  BY SMT DEF Word, Unit
<1>2. 25 \in Word(30 * Unit) /\ 23 \notin Word(30 * Unit)
  BY SMT DEF Word, Unit
<1>3. /\ Unit \in Nat /\ Unit < 2^21
      /\ 5 * Unit \in Nat /\ 5 * Unit < 2^24
      /\ 30 * Unit \in Nat /\ 30 * Unit < 2^26
  BY SMT DEF Unit
<1> QED BY <1>1, <1>2, <1>3, NoHighBits, Zenon

(* One, five and thirty seconds in nanoseconds, nine places up.            *)
LEMMA Seconds ==
  /\ Second = Up(Word(Unit), 9)
  /\ FiveSeconds = Up(Word(5 * Unit), 9)
  /\ ThirtySeconds = Up(Word(30 * Unit), 9)
<1>1. /\ Unit \in Nat /\ Unit < 2^26 /\ 5 * Unit \in Nat /\ 5 * Unit < 2^26
      /\ 30 * Unit \in Nat /\ 30 * Unit < 2^26
      /\ 32 * Unit \in Nat /\ 32 * Unit < 2^26
  BY SMT DEF Unit
<1>2. /\ Word(Unit) \in SUBSET (0 .. 20) /\ Word(5 * Unit) \in SUBSET (0 .. 23)
      /\ Word(30 * Unit) \in SUBSET (0 .. 25)
  BY UnitWords, Zenon
<1>3. ASSUME NEW word \in SUBSET (0 .. 25)
      PROVE  /\ Shift(Up(word, 5), 4) = Up(word, 9)
             /\ Up(Up(word, 5), 4) = Up(word, 9)
  <2>1. \A b \in word : (b + 5) + 4 = b + 9 /\ b + 9 \in 0 .. 63
    BY SMT
  <2>2. \A x : x \in Up(Up(word, 5), 4) <=> \E b \in word : x = (b + 5) + 4
    BY Zenon DEF Up
  <2>3. \A x : x \in Up(word, 9) <=> \E b \in word : x = b + 9
    BY Zenon DEF Up
  <2>4. \A x : x \in Shift(Up(word, 5), 4) <=> x \in 0 .. 63 /\ x \in Up(Up(word, 5), 4)
    BY Zenon DEF Shift, Bits, Up
  <2> QED BY <2>1, <2>2, <2>3, <2>4, Zenon
<1>4. /\ Word(32 * Unit) = Up(Word(Unit), 5) /\ Word(16 * (32 * Unit)) = Up(Word(32 * Unit), 4)
      /\ Word(32 * (5 * Unit)) = Up(Word(5 * Unit), 5)
      /\ Word(32 * (30 * Unit)) = Up(Word(30 * Unit), 5)
  BY <1>1, FiveDoublings, Zenon
<1>5. /\ Word(1000000000) = Word(16 * (32 * Unit))
      /\ Word(312500000) = Word(32 * (5 * Unit))
      /\ Word(1875000000) = Word(32 * (30 * Unit))
  <2>1. /\ 1000000000 = 16 * (32 * Unit) /\ 312500000 = 32 * (5 * Unit)
        /\ 1875000000 = 32 * (30 * Unit)
    BY SMT DEF Unit
  <2> QED BY <2>1, SMT
<1>6. /\ Second = Word(16 * (32 * Unit)) /\ FiveSeconds = Shift(Word(32 * (5 * Unit)), 4)
      /\ ThirtySeconds = Shift(Word(32 * (30 * Unit)), 4)
  BY <1>5, SMT DEF Second, FiveSeconds, ThirtySeconds
<1>7. \A w \in SUBSET (0 .. 20) : w \in SUBSET (0 .. 25)
  BY SMT
<1>8. \A w \in SUBSET (0 .. 23) : w \in SUBSET (0 .. 25)
  BY SMT
<1> QED BY <1>2, <1>3, <1>4, <1>6, <1>7, <1>8, Zenon

(* The pause of an attempt before it is capped: the bits of a second moved *)
(* up, as far as the word has room.                                        *)
LEMMA ExponentialBits ==
  ASSUME NEW n \in Nat \ {0}
  PROVE  /\ Exponential(n) = Up(Word(Unit), n + 8) \cap Bits
         /\ Exponential(n) = {c \in Bits : \E b \in Word(Unit) : c = b + (n + 8)}
<1>1. Exponential(n) = Shift(Up(Word(Unit), 9), n - 1)
  <2>1. n # 0
    OBVIOUS
  <2> QED BY <2>1, Seconds, Zenon DEF Exponential
<1>2. \A b \in Word(Unit) : (b + 9) + (n - 1) = b + (n + 8)
  BY UnitWords, SMT
<1>3. \A x : x \in Shift(Up(Word(Unit), 9), n - 1) <=>
              x \in Bits /\ \E b \in Word(Unit) : x = (b + 9) + (n - 1)
  BY Zenon DEF Shift, Up
<1>4. \A x : x \in Up(Word(Unit), n + 8) <=> \E b \in Word(Unit) : x = b + (n + 8)
  BY Zenon DEF Up
<1>5. \A x : x \in Exponential(n) <=> x \in Bits /\ \E b \in Word(Unit) : x = b + (n + 8)
  <2>1. \A x : (\E b \in Word(Unit) : x = (b + 9) + (n - 1)) <=>
               (\E b \in Word(Unit) : x = b + (n + 8))
    BY <1>2, Zenon
  <2> DEFINE Twice(x) == \E b \in Word(Unit) : x = (b + 9) + (n - 1)
             Once(x) == \E b \in Word(Unit) : x = b + (n + 8)
  <2>2. \A x : x \in Exponential(n) <=> x \in Bits /\ Twice(x)
    <3>1. \A x : x \in Shift(Up(Word(Unit), 9), n - 1) <=> x \in Bits /\ Twice(x)
      BY <1>3
    <3> HIDE DEF Twice
    <3> QED BY <1>1, <3>1, Zenon
  <2>3. \A x : Twice(x) <=> Once(x)
    BY <2>1
  <2>4. \A x : x \in Exponential(n) <=> x \in Bits /\ Once(x)
    <3> HIDE DEF Twice, Once
    <3> QED BY <2>2, <2>3, Zenon
  <2> QED BY <2>4
<1> QED BY <1>4, <1>5, SMT

(* The bits of the longest pause.                                          *)
LEMMA ThirtySecondsBits ==
  /\ ThirtySeconds \in SUBSET (9 .. 34) /\ 34 \in ThirtySeconds /\ 32 \notin ThirtySeconds
  /\ FiveSeconds \in SUBSET (9 .. 32)
<1>1. /\ \A x : x \in ThirtySeconds <=> \E b \in Word(30 * Unit) : x = b + 9
      /\ \A x : x \in FiveSeconds <=> \E b \in Word(5 * Unit) : x = b + 9
  BY Seconds, Zenon DEF Up
<1>2. /\ Word(5 * Unit) \in SUBSET (0 .. 23) /\ Word(30 * Unit) \in SUBSET (0 .. 25)
      /\ 25 \in Word(30 * Unit) /\ 23 \notin Word(30 * Unit)
  BY UnitWords, Zenon
<1> QED BY <1>1, <1>2, SMT

(* The pause is the documented one as long as the word has room for it.    *)
LEMMA ScheduleFollowed ==
  ASSUME attempt \in 1 .. 34, strategy \in {"exponential", "linear"}
  PROVE  IsSeconds(CalculateBackoff(attempt, strategy), Schedule(attempt, strategy))
<1> DEFINE n == attempt
<1>1. ASSUME NEW s, Up(Word(s * Unit), 9) \in SUBSET Bits
      PROVE  IsSeconds(Up(Word(s * Unit), 9), s)
  <2>1. \A x : x \in Shift(Word(s * Unit), 9) <=> x \in Bits /\ x \in Up(Word(s * Unit), 9)
    BY Zenon DEF Shift, Up
  <2>2. Up(Word(s * Unit), 9) = Shift(Word(s * Unit), 9)
    BY <1>1, <2>1, Zenon
  <2> QED BY <2>2, SMT DEF IsSeconds, Unit
<1>2. FiveSeconds = Up(Word(5 * Unit), 9) /\ ThirtySeconds = Up(Word(30 * Unit), 9)
  BY Seconds, Zenon
<1>3. FiveSeconds \in SUBSET Bits /\ ThirtySeconds \in SUBSET Bits
  <2>1. \A b \in 9 .. 34 : b \in Bits
    BY SMT DEF Bits
  <2>2. \A b \in 9 .. 32 : b \in Bits
    BY SMT DEF Bits
  <2> QED BY <2>1, <2>2, ThirtySecondsBits, Zenon
<1>4. IsSeconds(FiveSeconds, 5) /\ IsSeconds(ThirtySeconds, 30)
  BY <1>1, <1>2, <1>3, Zenon
<1>5. CASE strategy = "linear"
  BY <1>4, <1>5, Zenon DEF CalculateBackoff, Schedule
<1>6. CASE strategy = "exponential"
  <2>1. n \in Nat \ {0} /\ n \in Int
    BY SMT
  <2> DEFINE W == Word(Unit)
             E == Exponential(n)
  <2>2. E = {c \in Bits : \E b \in W : c = b + (n + 8)}
    BY <2>1, ExponentialBits, Zenon
  <2>3. W \in SUBSET (0 .. 20) /\ 20 \in W /\ 19 \in W /\ 18 \in W
    BY UnitWords, Zenon
  <2>4. ThirtySeconds \in SUBSET (9 .. 34) /\ 34 \in ThirtySeconds /\ 32 \notin ThirtySeconds
    BY ThirtySecondsBits, Zenon
  <2>5. CASE n <= 5
    <3>1. \A c \in E : c < 34
      <4> HIDE DEF W, E
      <4> QED BY <2>1, <2>2, <2>3, <2>5, SMT
    <3>2. ~Exceeds(E, ThirtySeconds)
      <4> HIDE DEF E
      <4>1. \A c \in E : ~(34 < c) /\ c # 34
        BY <2>2, <3>1, SMT DEF Bits
      <4> QED BY <2>4, <4>1, Zenon DEF Exceeds
    <3>3. CalculateBackoff(n, strategy) = E
      BY <1>6, <3>2, Zenon DEF CalculateBackoff
    <3>4. E = Up(Up(W, n - 1), 9) /\ E \in SUBSET Bits
      <4>1. \A b \in W : (b + (n - 1)) + 9 = b + (n + 8) /\ b + (n + 8) \in Bits
        <5> HIDE DEF W
        <5> QED BY <2>1, <2>3, <2>5, SMT DEF Bits
      <4>2. \A x : x \in Up(Up(W, n - 1), 9) <=> \E b \in W : x = (b + (n - 1)) + 9
        BY Zenon DEF Up
      <4>3. \A x : x \in E <=> \E b \in W : x = b + (n + 8)
        BY <2>2, <4>1, Zenon
      <4>4. \A x : x \in E <=> x \in Up(Up(W, n - 1), 9)
        BY <4>1, <4>2, <4>3, Zenon
      <4>5. E \in SUBSET Bits
        BY <2>2, Zenon
      <4> HIDE DEF E, W
      <4> QED BY <4>4, <4>5, Zenon
    <3>5. Up(W, n - 1) = Word(Schedule(n, strategy) * Unit)
      <4>1. Unit \in Nat /\ Unit < 2^26
        BY SMT DEF Unit
      <4>2. n = 1 \/ n = 2 \/ n = 3 \/ n = 4 \/ n = 5
        BY <2>1, <2>5, SMT
      <4>3. Schedule(n, strategy) = 2^(n - 1)
        <5>1. ~(n > 5) /\ strategy # "linear"
          BY <1>6, <2>1, <2>5, SMT
        <5> QED BY <5>1, Zenon DEF Schedule
      <4>4. \A b \in W : b + 0 = b
        BY <2>3, SMT
      <4>5. Up(W, 0) = W
        BY <4>4, Zenon DEF Up
      <4>6. /\ 2^(1 - 1) * Unit = Unit /\ 2^(2 - 1) * Unit = 2 * Unit /\ 2^(3 - 1) * Unit = 4 * Unit
            /\ 2^(4 - 1) * Unit = 8 * Unit /\ 2^(5 - 1) * Unit = 16 * Unit
            /\ 1 - 1 = 0 /\ 2 - 1 = 1 /\ 3 - 1 = 2 /\ 4 - 1 = 3 /\ 5 - 1 = 4
        BY SMT DEF Unit
      <4>7. /\ Word(2 * Unit) = Up(W, 1) /\ Word(4 * Unit) = Up(W, 2)
            /\ Word(8 * Unit) = Up(W, 3) /\ Word(16 * Unit) = Up(W, 4)
        BY <4>1, FiveDoublings, Zenon
      <4>8. CASE n = 1
        BY <4>3, <4>5, <4>6, <4>8, Zenon
      <4>9. CASE n = 2
        BY <4>3, <4>6, <4>7, <4>9, Zenon
      <4>10. CASE n = 3
        BY <4>3, <4>6, <4>7, <4>10, Zenon
      <4>11. CASE n = 4
        BY <4>3, <4>6, <4>7, <4>11, Zenon
      <4>12. CASE n = 5
        BY <4>3, <4>6, <4>7, <4>12, Zenon
      <4> QED BY <4>2, <4>8, <4>9, <4>10, <4>11, <4>12, Zenon
    <3>6. IsSeconds(Up(Word(Schedule(n, strategy) * Unit), 9), Schedule(n, strategy))
      BY <1>1, <3>4, <3>5, Zenon
    <3> QED BY <3>3, <3>4, <3>5, <3>6, Zenon
  <2>6. CASE n > 5
    <3>1. Exceeds(E, ThirtySeconds)
      <4> HIDE DEF W, E
      <4>1. 63 \notin E
        BY <2>1, <2>2, <2>3, <2>6, SMT DEF Bits
      <4>2. CASE n = 6
        <5>1. 32 \in E /\ 33 \in E /\ 34 \in E
          BY <2>2, <2>3, <4>2, SMT DEF Bits
        <5>2. \A c \in ThirtySeconds \ E : c < 32
          BY <2>4, <5>1, SMT
        <5> QED BY <2>4, <4>1, <5>1, <5>2, Zenon DEF Exceeds, Negative
      <4>3. CASE n > 6
        <5>1. 20 + (n + 8) \in E /\ 20 + (n + 8) > 34
          BY <2>1, <2>2, <2>3, <4>3, SMT DEF Bits
        <5>2. 20 + (n + 8) \notin ThirtySeconds /\ \A c \in ThirtySeconds : c < 20 + (n + 8)
          BY <2>1, <2>4, <5>1, SMT
        <5> QED BY <4>1, <5>1, <5>2, Zenon DEF Exceeds, Negative
      <4> QED BY <2>1, <2>6, <4>2, <4>3, SMT
    <3>2. CalculateBackoff(n, strategy) = ThirtySeconds
      BY <1>6, <3>1, Zenon DEF CalculateBackoff
    <3>3. Schedule(n, strategy) = 30
      BY <1>6, <2>6, Zenon DEF Schedule
    <3> QED BY <1>4, <3>2, <3>3, Zenon
  <2> QED BY <2>1, <2>5, <2>6, SMT
<1> QED BY <1>5, <1>6, Zenon

(* Up to the 34th attempt calculateBackoff returns the documented pause to *)
(* the nanosecond.                                                         *)
THEOREM PausesFollowSchedule == Spec => []FollowsSchedule
<1>1. TypeOK => FollowsSchedule
  BY ScheduleFollowed, Zenon DEF TypeOK, FollowsSchedule
<1> QED BY <1>1, TypeCorrect, PTL

(* The bits of a second that decide its sign, one after the other.         *)
LEMMA UnitBits ==
  ASSUME NEW b \in 0 .. 20
  PROVE  b \in Word(Unit) <=> b \in {0, 2, 5, 6, 8, 10, 11, 14, 15, 16, 18, 19, 20}
<1>1. /\ 0 \in Word(Unit) /\ 1 \notin Word(Unit) /\ 2 \in Word(Unit) /\ 3 \notin Word(Unit)
      /\ 4 \notin Word(Unit) /\ 5 \in Word(Unit) /\ 6 \in Word(Unit)
  BY SMT DEF Word, Unit
<1>2. /\ 7 \notin Word(Unit) /\ 8 \in Word(Unit) /\ 9 \notin Word(Unit) /\ 10 \in Word(Unit)
      /\ 11 \in Word(Unit) /\ 12 \notin Word(Unit) /\ 13 \notin Word(Unit)
  BY SMT DEF Word, Unit
<1>3. /\ 14 \in Word(Unit) /\ 15 \in Word(Unit) /\ 16 \in Word(Unit) /\ 17 \notin Word(Unit)
      /\ 18 \in Word(Unit) /\ 19 \in Word(Unit) /\ 20 \in Word(Unit)
  BY SMT DEF Word, Unit
<1>4. \/ b = 0 \/ b = 1 \/ b = 2 \/ b = 3 \/ b = 4 \/ b = 5 \/ b = 6 \/ b = 7
      \/ b = 8 \/ b = 9 \/ b = 10 \/ b = 11 \/ b = 12 \/ b = 13 \/ b = 14 \/ b = 15
      \/ b = 16 \/ b = 17 \/ b = 18 \/ b = 19 \/ b = 20
  BY SMT
<1> HIDE DEF Unit
<1> QED BY <1>1, <1>2, <1>3, <1>4, SMT

(* The bit that has come to the place of the sign is the one 55 - n up;    *)
(* while a bit is left, the lowest is above all of the cap's.              *)
LEMMA OverflowedBits ==
  ASSUME NEW n \in 35 .. 55
  PROVE  /\ Negative(Exponential(n)) <=> n \in SignAttempts
         /\ \E b \in Exponential(n) : b \notin ThirtySeconds /\ \A c \in ThirtySeconds : c < b
<1> DEFINE W == Word(Unit)
           E == Exponential(n)
<1>1. n \in Nat \ {0} /\ 55 - n \in 0 .. 20
  BY SMT
<1>2. E = {c \in Bits : \E b \in W : c = b + (n + 8)}
  BY <1>1, ExponentialBits, Zenon
<1>3. W \in SUBSET (0 .. 20)
  BY UnitWords, Zenon
<1>4. 63 \in E <=> 55 - n \in W
  <2> HIDE DEF W, E
  <2> QED BY <1>1, <1>2, <1>3, SMT DEF Bits
<1>5. 55 - n \in W <=> 55 - n \in {0, 2, 5, 6, 8, 10, 11, 14, 15, 16, 18, 19, 20}
  BY <1>1, UnitBits, Zenon
<1>6. 55 - n \in {0, 2, 5, 6, 8, 10, 11, 14, 15, 16, 18, 19, 20} <=> n \in SignAttempts
  BY SMT DEF SignAttempts
<1>7. Negative(E) <=> n \in SignAttempts
  BY <1>4, <1>5, <1>6, Zenon DEF Negative
<1>8. 0 \in W
  <2>1. 0 \in 0 .. 20 /\ 0 \in {0, 2, 5, 6, 8, 10, 11, 14, 15, 16, 18, 19, 20}
    BY SMT
  <2> QED BY <2>1, UnitBits, Zenon
<1>9. n + 8 \in E
  <2> HIDE DEF W, E
  <2> QED BY <1>1, <1>2, <1>8, SMT DEF Bits
<1>10. n + 8 \notin ThirtySeconds /\ \A c \in ThirtySeconds : c < n + 8
  <2>1. ThirtySeconds \in SUBSET (9 .. 34)
    BY ThirtySecondsBits, Zenon
  <2> QED BY <1>1, <2>1, SMT
<1> QED BY <1>7, <1>9, <1>10, Zenon

(* Past the overflow, for every count of attempts: a product below zero or *)
(* of zero passes the cap as it is, and any other is replaced by it.       *)
LEMMA OverflowPassesCap ==
  ASSUME attempt \in Nat, strategy = "exponential"
  PROVE  OverflowSkipsPauses
<1> DEFINE pause == CalculateBackoff(attempt, strategy)
           E == Exponential(attempt)
<1>1. pause = IF Exceeds(E, ThirtySeconds) THEN ThirtySeconds ELSE E
  BY Zenon DEF CalculateBackoff
<1>2. ASSUME attempt \in SignAttempts PROVE Negative(pause)
  <2>1. attempt \in 35 .. 55
    BY <1>2, SMT DEF SignAttempts
  <2>2. Negative(E)
    BY <1>2, <2>1, OverflowedBits, Zenon
  <2> QED BY <1>1, <2>2, Zenon DEF Exceeds
<1>3. ASSUME attempt \in (35 .. 55) \ SignAttempts PROVE pause = ThirtySeconds
  <2>1. attempt \in 35 .. 55 /\ attempt \notin SignAttempts
    BY <1>3, Zenon
  <2>2. /\ ~Negative(E)
        /\ \E b \in E : b \notin ThirtySeconds /\ \A c \in ThirtySeconds : c < b
    BY <2>1, OverflowedBits, Zenon
  <2>3. Exceeds(E, ThirtySeconds)
    BY <2>2, Zenon DEF Exceeds
  <2> QED BY <1>1, <2>3, Zenon
<1>4. ASSUME attempt > 55 PROVE pause = {}
  <2>1. attempt \in Nat \ {0}
    BY <1>4, SMT
  <2>2. E = {c \in Bits : \E b \in Word(Unit) : c = b + (attempt + 8)}
    BY <2>1, ExponentialBits, Zenon
  <2>3. Word(Unit) \in SUBSET (0 .. 20)
    BY UnitWords, Zenon
  <2>4. E = {}
    <3> HIDE DEF E
    <3> QED BY <1>4, <2>2, <2>3, SMT DEF Bits
  <2>5. ~Exceeds({}, ThirtySeconds)
    BY Zenon DEF Exceeds
  <2> QED BY <1>1, <2>4, <2>5, Zenon
<1> QED BY <1>2, <1>3, <1>4, Zenon DEF OverflowSkipsPauses

(* For every count of attempts past the 34th: which are retried at once,   *)
(* because the product has become negative or zero, and which wait 30s.    *)
THEOREM OverflowsSkipPauses == Spec => []OverflowSkipsPauses
<1>1. TypeOK => OverflowSkipsPauses
  <2>1. TypeOK /\ strategy # "exponential" => OverflowSkipsPauses
    BY Zenon DEF OverflowSkipsPauses
  <2>2. TypeOK => attempt \in Nat
    BY Zenon DEF TypeOK
  <2> QED BY <2>1, <2>2, OverflowPassesCap, Zenon
<1> QED BY <1>1, TypeCorrect, PTL
=============================================================================
