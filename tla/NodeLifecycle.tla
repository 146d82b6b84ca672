---------------------------- MODULE NodeLifecycle ----------------------------
(***************************************************************************)
(* What the controller promises about the verification of a node, without  *)
(* queues, informers, requests or time: the states of NodeVerificationState*)
(* and the moves between them, each tied to what the node's worker jobs    *)
(* have done so far.  A node whose state is "none" is not known to the     *)
(* controller; it may be forgotten at any time (deleted, found verified,   *)
(* or the controller restarted) and starts over.                           *)
(***************************************************************************)
EXTENDS Naturals

CONSTANTS
  Nodes,
  MaxRetries,          \* attempts before a node is given up on
  DeleteFailedNodes    \* may a node be deleted then

VARIABLES
  phase,      \* state per node
  attempts,   \* jobs the controller has counted for a node since it knows it
  verdicts    \* what jobs of the node have reported: "pass", "fail"

vars == <<phase, attempts, verdicts>>

PhaseMoves(n, from, to) ==
  /\ phase[n] \in from
  /\ phase' = [phase EXCEPT ![n] = to]

Init ==
  /\ phase = [n \in Nodes |-> "none"]
  /\ attempts = [n \in Nodes |-> 0]
  /\ verdicts = [n \in Nodes |-> {}]

Discover(n) ==
  /\ PhaseMoves(n, {"none"}, "unverified")
  /\ UNCHANGED <<attempts, verdicts>>

\* A job is created, or one that already exists is adopted.
Launch(n) ==
  /\ PhaseMoves(n, {"unverified"}, "pending")
  /\ attempts' = [attempts EXCEPT ![n] = @ + 1]
  /\ UNCHANGED verdicts

Run(n) ==
  /\ PhaseMoves(n, {"pending"}, "in_progress")
  /\ UNCHANGED <<attempts, verdicts>>

\* A job of the node ends; one that passed after a pod of it failed reports both.
Report(n, verdict) ==
  /\ verdicts' = [verdicts EXCEPT ![n] = @ \cup verdict]
  /\ UNCHANGED <<phase, attempts>>

Verify(n) ==
  /\ "pass" \in verdicts[n]
  /\ PhaseMoves(n, {"pending", "in_progress"}, "verified")
  /\ UNCHANGED <<attempts, verdicts>>

Fail(n) ==
  /\ "fail" \in verdicts[n]
  /\ PhaseMoves(n, {"pending", "in_progress"}, "failed")
  /\ UNCHANGED <<attempts, verdicts>>

\* The job cannot be read any more.
LoseJob(n) ==
  /\ PhaseMoves(n, {"pending", "in_progress"}, "unverified")
  /\ UNCHANGED <<attempts, verdicts>>

Retry(n) ==
  /\ attempts[n] < MaxRetries
  /\ PhaseMoves(n, {"failed"}, "unverified")
  /\ UNCHANGED <<attempts, verdicts>>

Remove(n) ==
  /\ DeleteFailedNodes
  /\ attempts[n] >= MaxRetries
  /\ PhaseMoves(n, {"failed"}, "deleting")
  /\ UNCHANGED <<attempts, verdicts>>

(* Forgetting a set of nodes: one, or all of them when the process ends.   *)
Forget(gone) ==
  /\ phase' = [n \in Nodes |-> IF n \in gone THEN "none" ELSE phase[n]]
  /\ attempts' = [n \in Nodes |-> IF n \in gone THEN 0 ELSE attempts[n]]
  /\ UNCHANGED verdicts

Next ==
  \/ \E n \in Nodes :
       \/ Discover(n)
       \/ Launch(n)
       \/ Run(n)
       \/ \E verdict \in SUBSET {"pass", "fail"} : Report(n, verdict)
       \/ Verify(n)
       \/ Fail(n)
       \/ LoseJob(n)
       \/ Retry(n)
       \/ Remove(n)
  \/ \E gone \in SUBSET Nodes : Forget(gone)

Spec == Init /\ [][Next]_vars
=============================================================================
