-------------------------- MODULE ReconcilerClaims --------------------------
(***************************************************************************)
(* What the repository's comments, documents and examples say of the       *)
(* reconciler and NodeReconciler does not do.  Each claim quotes the text  *)
(* it is taken from; its run ends with a counterexample.                   *)
(***************************************************************************)
EXTENDS NodeReconciler

(* No call runs, nothing is queued or under way and the informer is up to  *)
(* date: only a new event can make the reconciler look at the node again.  *)
Unattended(n) ==
  /\ step[n] = "idle" /\ n \notin queue \cup delayed
  /\ feed[n] = <<>> /\ NeedsVerification(nodeCache[n])

(* "Wait for job events": a job that the informer shows finished is not    *)
(* left unprocessed.                                                       *)
FinishedJobIsProcessed ==
  \A n \in Nodes :
    Unattended(n) /\ cache[n].state \in {"pending", "in_progress"}
      => JobSeen(n) \notin Finished

(* "Retry": a node whose backoff is over gets its next job.                *)
RetryIsScheduled ==
  \A n \in Nodes :
    Unattended(n) => ~(cache[n].state = "unverified" /\ cache[n].attempts > 0)

(* "Verified label was removed": verification runs again for a node that   *)
(* needs it again.                                                         *)
VerifiedNodeIsReverified ==
  \A n \in Nodes : Unattended(n) => cache[n].state # "verified"

Distinct(taints) ==
  \A h, i \in DOMAIN taints : taints[h] = taints[i] => h = i

(* "removes specified taints": a patch takes away the configured taints,   *)
(* all of them and nothing else, from a node on which no key is repeated.  *)
PatchIsExact ==
  [][\A n \in Nodes :
       /\ step[n] = "patch" /\ step'[n] = "idle" /\ node'[n] # node[n]
       /\ Distinct(node[n].taints)
       => node'[n].taints =
            SelectSeq(node[n].taints,
                      LAMBDA t : ~HasAnyUnverifiedTaint(<<t>>, ConfigTaints))]_vars

(* "Ensures all nodes are verified": the label goes only to a node on      *)
(* which a job has completed.                                              *)
LabeledNodeWasChecked ==
  [][\A n \in Nodes :
       node'[n].labeled /\ ~node[n].labeled
         => \E k \in Seconds : /\ jobs[n][k].phase = "complete"
                              /\ jobs[n][k].ranOn = node[n].uid]_vars
=============================================================================
