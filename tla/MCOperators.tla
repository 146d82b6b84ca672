---------------------------- MODULE MCOperators ----------------------------
(***************************************************************************)
(* The configurations of ControllerOperators that TLC checks: all that     *)
(* taints and tolerations may be, one of each.                             *)
(***************************************************************************)
EXTENDS ControllerOperators

Extra ==
  [key : {"", "startup", "gpu"}, operator : {"", "Exists", "Equal", "In"}, value : {"", "v"},
   effect : {"", "NoSchedule", "NoExecute", "Never"}, seconds : {{}, {300}}]

TaintLists ==
  {<<>>} \cup {<<[key |-> key, effect |-> effect]>> :
                 key \in {"", "startup"}, effect \in Effects \cup {"", "Never"}}

SmallConfigurations ==
  [taints : TaintLists, tolerations : {{}} \cup {{t} : t \in Extra}]
=============================================================================
