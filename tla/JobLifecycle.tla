---------------------------- MODULE JobLifecycle ----------------------------
(***************************************************************************)
(* What the reconciler may rely on in a worker Job: the phases it gives it,*)
(* and what GetWorkerJobStatus and handleInProgress may make of a job that *)
(* has ended, without pods, completions, limits or exit codes.             *)
(***************************************************************************)

VARIABLES
  phase,   \* "pending", "active", then "complete" or "failed"
  flaky,   \* a pod of the job has failed
  verdict  \* what the controller has read last: "none", "pass" or "fail"

vars == <<phase, flaky, verdict>>

Init == phase = "pending" /\ flaky = FALSE /\ verdict = "none"

PhaseMoves(from, to) ==
  /\ phase \in from
  /\ phase' = to
  /\ UNCHANGED <<flaky, verdict>>

Starts == PhaseMoves({"pending"}, "active")
Completes == PhaseMoves({"active"}, "complete")
Fails == PhaseMoves({"pending", "active"}, "failed")

PodFails ==
  /\ phase = "active"
  /\ flaky' = TRUE
  /\ UNCHANGED <<phase, verdict>>

MayRead(result) ==
  IF result = "pass" THEN phase = "complete"
  ELSE phase = "failed" \/ (phase = "complete" /\ flaky)

Read(result) ==
  /\ MayRead(result)
  /\ verdict' = result
  /\ UNCHANGED <<phase, flaky>>

Next ==
  \/ Starts
  \/ Completes
  \/ Fails
  \/ PodFails
  \/ \E result \in {"pass", "fail"} : Read(result)

Spec == Init /\ [][Next]_vars
=============================================================================
