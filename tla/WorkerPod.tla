----------------------------- MODULE WorkerPod -----------------------------
(***************************************************************************)
(* Where a worker pod may run: what Validate asks of the configured taints,*)
(* the tolerations that buildTolerations makes of the configuration, and   *)
(* what the API server, the scheduler and the taint manager make of them.  *)
(* toleration.seconds is the set of the number, empty when none is given;  *)
(* an omitted string is "".  Keys and values are taken to be well formed.  *)
(***************************************************************************)
EXTENDS Integers, Sequences

Effects == {"NoSchedule", "PreferNoSchedule", "NoExecute"}

(* The part of ControllerConfig.Validate that concerns the taints.         *)
Validate(config) ==
  \A i \in DOMAIN config.taints :
    config.taints[i].key # "" /\ config.taints[i].effect \in Effects

-----------------------------------------------------------------------------
Exists(key, effect) ==
  [key |-> key, operator |-> "Exists", value |-> "", effect |-> effect, seconds |-> {}]

\* Of a node that has just joined.
JoinTaints == {"not-ready", "unreachable"}

WithOperator_AlwaysExists(toleration) == [toleration EXCEPT !.operator = "Exists"]

(* The default is not the one of Kubernetes, Equal.                        *)
WithOperator(toleration) ==
  [toleration EXCEPT !.operator = IF @ = "" THEN "Exists" ELSE @]

BuildTolerations_ByKeyOnly(config) ==
  {Exists(config.taints[i].key, "NoSchedule") : i \in DOMAIN config.taints}
    \cup {Exists(key, "NoSchedule") : key \in JoinTaints}
    \cup {WithOperator(t) : t \in config.tolerations}

BuildTolerations(config) ==
  {Exists(config.taints[i].key, config.taints[i].effect) : i \in DOMAIN config.taints}
    \cup {Exists(key, "NoSchedule") : key \in JoinTaints}
    \cup {WithOperator(t) : t \in config.tolerations}

-----------------------------------------------------------------------------
(* The API server, on the tolerations of a pod or of a Job's template.     *)
AcceptsToleration(t) ==
  /\ t.key = "" => t.operator = "Exists"
  /\ t.operator = "Exists" => t.value = ""
  /\ t.operator \in {"Exists", "Equal"}
  /\ t.effect \in Effects \cup {""}
  /\ t.seconds # {} => t.effect = "NoExecute"

Accepts(tolerations) == \A t \in tolerations : AcceptsToleration(t)

(* Scheduler and taint manager.                                            *)
Tolerates(t, taint) ==
  /\ t.key \in {"", taint.key}
  /\ t.effect \in {"", taint.effect}
  /\ t.operator = "Exists" \/ t.value = taint.value

Schedules(tolerations, taints) ==
  \A taint \in taints :
    taint.effect # "PreferNoSchedule" => \E t \in tolerations : Tolerates(t, taint)

\* The pod is evicted after some seconds for a taint it tolerates.
Evicts(tolerations, taint) ==
  /\ taint.effect = "NoExecute"
  /\ \E t \in tolerations : Tolerates(t, taint) /\ t.seconds # {}
=============================================================================
