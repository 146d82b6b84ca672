------------------------ MODULE ControllerOperators ------------------------
(***************************************************************************)
(* The pure parts of the controller, with the inputs they get as a state.  *)
(* TaintPatch: triples of lists, the one the API server stores, the one    *)
(* the patch was computed on, and the configured taints; they grow one key *)
(* at a time, so that every triple up to MaxLen is a state.  Backoff: every*)
(* count of attempts up to MaxAttempts, while the lists are empty.         *)
(* WorkerPod: every configuration in Configurations, while there are       *)
(* neither lists nor attempts.                                             *)
(***************************************************************************)
EXTENDS TaintPatch, Backoff, WorkerPod, FiniteSets

CONSTANTS TaintKeys, MaxLen, MaxAttempts, Configurations, TaintValues

\* What is given, or nothing.
Optional(S) == {option \in SUBSET S : \A x, y \in option : x = y}

TolerationType ==
  [key : STRING, operator : STRING, value : STRING, effect : STRING, seconds : Optional(Int)]

(* What the fields of a configuration, as WorkerPod has them, can hold.    *)
ConfigurationType ==
  [taints : Seq([key : STRING, effect : STRING]), tolerations : SUBSET TolerationType]

ASSUME ConfigurationsAssumption == Configurations \subseteq ConfigurationType
ASSUME BoundsAssumption == MaxLen \in Nat /\ MaxAttempts \in Nat

Plain == [taints |-> <<>>, tolerations |-> {}]

VARIABLES current, snapshot, configured, attempt, strategy, config

lists == <<current, snapshot, configured>>
inputs == <<strategy, config>>
vars == <<lists, attempt, inputs>>

Init ==
  /\ current = <<>> /\ snapshot = <<>> /\ configured = <<>>
  /\ attempt = 0
  /\ strategy \in {"exponential", "linear"}
  /\ config \in Configurations \cup {Plain}

Longer(list, key) == Len(list) < MaxLen /\ list' = Append(list, key)

GrowLists ==
  /\ attempt = 0 /\ config = Plain
  /\ \E key \in TaintKeys :
       \/ Longer(current, key) /\ UNCHANGED <<snapshot, configured>>
       \/ Longer(snapshot, key) /\ UNCHANGED <<current, configured>>
       \/ Longer(configured, key) /\ UNCHANGED <<current, snapshot>>
  /\ UNCHANGED <<attempt, inputs>>

CountAttempt ==
  /\ lists = <<<<>>, <<>>, <<>>>> /\ config = Plain
  /\ attempt < MaxAttempts
  /\ attempt' = attempt + 1
  /\ UNCHANGED <<lists, inputs>>

Next == GrowLists \/ CountAttempt

Spec == Init /\ [][Next]_vars

-----------------------------------------------------------------------------
Patched == PatchedTaints(current, snapshot, configured)

(* The configured taint k as the patch names it: by its position on the    *)
(* node, 0 when it has no operation.                                       *)
Position(k) == FindTaintIndex(snapshot, configured[k])
Operations == {k \in DOMAIN configured : Position(k) # 0}
Earlier(k) == {j \in Operations : j < k}
Positions == {Position(k) : k \in Operations}

Descending == \A j, k \in Operations : j < k => Position(j) > Position(k)

NoneRepeated(list) == \A h, i \in DOMAIN list : list[h] = list[i] => h = i

(* Reference for a removal of several positions at once.                   *)
Without(list, positions) ==
  LET kept == DOMAIN list \ positions
      rank(i) == Cardinality({h \in kept : h <= i})
  IN  [r \in 1 .. Cardinality(kept) |-> list[CHOOSE i \in kept : rank(i) = r]]

(* "Removes specified taints": a patch computed on the list it is applied  *)
(* to takes away the first taint of every configured key and nothing else  *)
(* when the configured taints stand on the node in the reverse of their    *)
(* configured order, for then no removal moves a taint that a later one    *)
(* names; and, on a node without repeated keys, only then.                 *)
ExactInReverseOrderOnly ==
  LET exact == Patched = {Without(current, Positions)}
  IN  current = snapshot =>
        /\ Descending => exact
        /\ NoneRepeated(current) /\ exact => Descending

(* Whatever list it is applied to, a patch that is not rejected removes as *)
(* many taints as it has operations, and one that is rejected named a      *)
(* position beyond the taints that the operations before it left.          *)
EveryOperationRemovesOne ==
  /\ \A list \in Patched : Len(list) = Len(current) - Cardinality(Operations)
  /\ Patched = {} <=>
       \E k \in Operations : Position(k) > Len(current) - Cardinality(Earlier(k))

-----------------------------------------------------------------------------
(* The documented pause in seconds, in decimal arithmetic.                 *)
Schedule(n, kind) ==
  IF kind = "linear" THEN 5 ELSE IF n > 5 THEN 30 ELSE 2^(n - 1)

(* A second is 1953125 * 512 nanoseconds: the word of s seconds has the    *)
(* bits of s * 1953125, nine places up.                                    *)
IsSeconds(word, s) == word = Shift(Word(s * 1953125), 9)

(* Up to the 34th attempt the pause is the documented one: 1s, 2s, 4s, 8s, *)
(* 16s and then 30s, or 5s each time.                                      *)
FollowsSchedule ==
  attempt \in 1 .. 34 =>
    IsSeconds(CalculateBackoff(attempt, strategy), Schedule(attempt, strategy))

(* The attempts after which the bit of a second's nanoseconds that has come*)
(* to the place of the sign is 1.                                          *)
SignAttempts == {35, 36, 37, 39, 40, 41, 44, 45, 47, 49, 50, 53, 55}

(* After the 34th attempt the product overflows and the cap does not mend  *)
(* it: which attempts are retried at once, because handleFailed compares   *)
(* the time that has passed with a pause that is negative, or from the 56th*)
(* on zero, and which ones still wait for 30s.                             *)
OverflowSkipsPauses ==
  LET pause == CalculateBackoff(attempt, strategy)
  IN  strategy = "exponential" =>
        /\ attempt \in SignAttempts => Negative(pause)
        /\ attempt \in (35 .. 55) \ SignAttempts => pause = ThirtySeconds
        /\ attempt > 55 => pause = {}

-----------------------------------------------------------------------------
WorkerTolerations == BuildTolerations(config)

(* "Worker pod tolerates the verification taint": the taints under which a *)
(* node waits for its verification, whatever their values, and the ones    *)
(* that keep pods from a node that has just joined keep no worker away.    *)
(* None of the first evicts it while it checks, unless an additional       *)
(* toleration that covers such a taint limits it.                          *)
WaitingTaints ==
  {[key |-> config.taints[i].key, value |-> value, effect |-> config.taints[i].effect] :
     i \in DOMAIN config.taints, value \in TaintValues}

WorkerReachesItsNode ==
  Validate(config) /\ Accepts(WorkerTolerations) =>
    /\ Schedules(WorkerTolerations,
                 WaitingTaints \cup
                   {[key |-> key, value |-> "", effect |-> "NoSchedule"] : key \in JoinTaints})
    /\ \A taint \in WaitingTaints :
         Evicts(WorkerTolerations, taint) =>
           \E t \in config.tolerations :
             t.seconds # {} /\ t.key \in {"", taint.key} /\ t.effect = taint.effect

(* The tolerations of a pod that is given the additional ones as they are  *)
(* configured: Kubernetes reads an omitted operator as Equal.              *)
AsInPod(t) == [t EXCEPT !.operator = IF @ = "" THEN "Equal" ELSE @]
PodTolerations ==
  BuildTolerations([config EXCEPT !.tolerations = {}]) \cup {AsInPod(t) : t \in config.tolerations}

NodeTaints ==
  [key : (TaintKeys \cup {t.key : t \in config.tolerations}) \ {""},
   value : TaintValues, effect : Effects]

(* An additional toleration means what it means in the specification of a  *)
(* pod, but for those that leave out the operator.  The worker may run     *)
(* wherever such a pod may, and elsewhere only for one of these that does  *)
(* not look at the taint's value; its Job is refused where the pod would be*)
(* accepted only for one of these with a value, and accepted where the pod *)
(* would be refused only for one of these without a key.                   *)
TolerationsReadAsInPods ==
  LET Omitted == {t \in config.tolerations : t.operator = ""}
      May(tolerations, taint) == Schedules(tolerations, {taint})
  IN  /\ \A taint \in NodeTaints :
           /\ May(PodTolerations, taint) => May(WorkerTolerations, taint)
           /\ May(WorkerTolerations, taint) /\ ~May(PodTolerations, taint) =>
                \E t \in Omitted : t.key \in {"", taint.key} /\ t.value # taint.value
      /\ Accepts(PodTolerations) /\ ~Accepts(WorkerTolerations) =>
           \E t \in Omitted : t.value # ""
      /\ Accepts(WorkerTolerations) /\ ~Accepts(PodTolerations) =>
           \E t \in Omitted : t.key = ""
=============================================================================
