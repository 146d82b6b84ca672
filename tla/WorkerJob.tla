------------------------------ MODULE WorkerJob ------------------------------
(***************************************************************************)
(* A worker Job from its creation to what the controller makes of it: the  *)
(* pods that run the worker of module Worker one after the other on one    *)
(* node, the limits CreateWorkerJob gives the Job, and the status, with an *)
(* exit code, that GetWorkerJobStatus reads from it in any order of its    *)
(* pods.                                                                   *)
(***************************************************************************)
EXTENDS Worker

CONSTANTS
  BackoffLimit,   \* worker.job.backoffLimit
  MaxCompletions  \* bound: worker.job.completions

ASSUME LimitsAssumption == BackoffLimit \in Nat /\ MaxCompletions \in Nat

VARIABLES
  pod,          \* "none", "created" until its worker starts, then "running"
  completions,  \* pods that are to succeed
  succeeded,    \* status.succeeded
  failed,       \* status.failed
  codes,        \* exit codes left in the status of ended pods
  overdue,      \* activeDeadlineSeconds are over
  condition,    \* "Complete" or "Failed" once it is true, else "none"
  verdict,      \* what handleInProgress last took the job for
  earned        \* a pod succeeded, with all that it checks having worked

counts == <<succeeded, failed, codes, earned>>
limits == <<completions, overdue>>
jobVars == <<pod, counts, limits, condition, verdict>>

-----------------------------------------------------------------------------
(* No worker runs: its variables wait in their initial state.              *)
NoProcess ==
  /\ stage' = "config" /\ domain' = 0
  /\ client' = FALSE /\ signal' = FALSE /\ sentLive' = FALSE
  /\ ctx' = "none" /\ exit' = "none"
  /\ elapsed' = 0 /\ total' = 0
  /\ works' = {} /\ worked' = {}
  /\ UNCHANGED <<dryRun, breaks>>

(* CreateWorkerJob: completions is not validated; it is 1 when left out.   *)
JobInit ==
  /\ Init
  /\ works = {}
  /\ pod = "none"
  /\ completions \in 0 .. MaxCompletions
  /\ succeeded = 0 /\ failed = 0
  /\ codes = {}
  /\ overdue = FALSE
  /\ condition = "none"
  /\ verdict = "none"
  /\ earned = FALSE

(* parallelism is 1: the next pod comes when there is none.                *)
PodCreated ==
  /\ condition = "none" /\ ~overdue
  /\ pod = "none"
  /\ succeeded < completions
  /\ failed <= BackoffLimit
  /\ pod' = "created"
  /\ UNCHANGED <<vars, counts, limits, condition, verdict>>

(* Scheduled on the node, init containers done: whatever works there then. *)
PodStarts ==
  /\ pod = "created"
  /\ pod' = "running"
  /\ works' \in SUBSET Items
  /\ UNCHANGED <<process, dryRun, signal, ctx, elapsed, total, worked, breaks>>
  /\ UNCHANGED <<counts, limits, condition, verdict>>

WorkerRuns == pod = "running" /\ Next /\ UNCHANGED jobVars

PodFailed == failed' = failed + 1 /\ UNCHANGED <<succeeded, earned>>

PodSucceeded ==
  /\ succeeded' = succeeded + 1
  /\ earned' = (earned \/ Checked \subseteq worked)
  /\ UNCHANGED failed

(* restartPolicy Never: a worker that has exited ends its pod.             *)
PodEnds ==
  /\ pod = "running" /\ stage = "exited"
  /\ pod' = "none"
  /\ IF exit = "success"
     THEN PodSucceeded /\ codes' = codes \cup {"zero"}
     ELSE PodFailed /\ codes' = codes \cup {"nonzero"}
  /\ NoProcess
  /\ UNCHANGED <<limits, condition, verdict>>

(* An init container fails, the pod is removed before it starts, or its    *)
(* node is lost before it reports how the worker exited: a failed pod      *)
(* without an exit code.                                                   *)
PodLost ==
  /\ pod = "created" \/ stage = "exited"
  /\ pod' = "none"
  /\ PodFailed
  /\ NoProcess
  /\ UNCHANGED <<codes, limits, condition, verdict>>

(* activeDeadlineSeconds: no pod is created any more, and the one there is *)
(* is told to end.                                                         *)
JobDeadlinePasses ==
  /\ condition = "none" /\ ~overdue
  /\ overdue' = TRUE
  /\ UNCHANGED <<vars, pod, counts, completions, condition, verdict>>

JobEndsAs(result) ==
  /\ condition = "none" /\ pod = "none"
  /\ condition' = result
  /\ UNCHANGED <<vars, pod, counts, limits, verdict>>

JobCompletes == ~overdue /\ succeeded >= completions /\ JobEndsAs("Complete")

JobFails_WithoutDeadline == failed > BackoffLimit /\ JobEndsAs("Failed")

JobFails == (overdue \/ failed > BackoffLimit) /\ JobEndsAs("Failed")

-----------------------------------------------------------------------------
(* The controller.                                                         *)

(* getJobPodExitCode: of the first ended pod in the list that has one; nil *)
(* when there is none (any more), or the list fails.                       *)
ExitCode == codes \cup {"nil"}

ReadVerdict(result) ==
  /\ verdict' = result
  /\ UNCHANGED <<vars, pod, counts, limits, condition>>

ReadPass_AnyEndWithoutCode ==
  /\ condition # "none"
  /\ \E code \in ExitCode : code \in {"nil", "zero"}
  /\ ReadVerdict("pass")

ReadPass_Unfinished ==
  /\ succeeded > 0
  /\ \E code \in ExitCode : code \in {"nil", "zero"}
  /\ ReadVerdict("pass")

ReadPass ==
  /\ condition # "none"
  /\ succeeded > 0
  /\ \E code \in ExitCode : code \in {"nil", "zero"}
  /\ ReadVerdict("pass")

ReadFail_WithoutCode ==
  /\ condition # "none"
  /\ succeeded = 0 \/ \E code \in ExitCode : code # "zero"
  /\ ReadVerdict("fail")

ReadFail ==
  /\ condition # "none"
  /\ succeeded = 0 \/ "nonzero" \in ExitCode
  /\ ReadVerdict("fail")

JobNext ==
  \/ PodCreated
  \/ PodStarts
  \/ WorkerRuns
  \/ PodEnds
  \/ PodLost
  \/ JobDeadlinePasses
  \/ JobCompletes
  \/ JobFails
  \/ ReadPass
  \/ ReadFail

allVars == <<vars, jobVars>>

(* Requests are answered or time out; an exited worker ends its pod; time  *)
(* passes, and a pod of an overdue job is killed or removed; the Job       *)
(* controller notices.                                                     *)
JobSpec ==
  /\ JobInit /\ [][JobNext]_allVars
  /\ WF_allVars(pod = "running" /\ Answered /\ UNCHANGED jobVars)
  /\ WF_allVars(overdue /\ pod = "running" /\ Killed /\ UNCHANGED jobVars)
  /\ WF_allVars(PodEnds)
  /\ WF_allVars(overdue /\ PodLost)
  /\ WF_allVars(JobDeadlinePasses)
  /\ WF_allVars(JobCompletes \/ JobFails)

-----------------------------------------------------------------------------
(* The worker and the Job keep their types; a pod that is not running has  *)
(* no process, and no pod is counted beyond the limits of the Job.         *)
JobTypeOK ==
  /\ WorkerTypeOK
  /\ pod \in {"none", "created", "running"}
  /\ pod # "running" => stage = "config" /\ exit = "none" /\ worked = {}
  /\ completions \in 0 .. MaxCompletions
  /\ succeeded \in 0 .. completions
  /\ failed \in 0 .. BackoffLimit + 1
  /\ codes \subseteq {"zero", "nonzero"}
  /\ overdue \in BOOLEAN /\ earned \in BOOLEAN
  /\ condition \in {"none", "Complete", "Failed"}
  /\ verdict \in {"none", "pass", "fail"}

(* The controller takes a node for verified only if one worker of the job  *)
(* found everything that it checks to work on the node: through pods that  *)
(* fail, are lost or run into the deadline, and whichever exit code is     *)
(* found.                                                                  *)
PassIsEarned == verdict = "pass" => earned

(* Where the controller and the cluster disagree about a job.  One that the*)
(* cluster calls complete is taken for a failure only if one of its pods   *)
(* failed, or none was asked for; one that the cluster calls failed is     *)
(* taken for a success only if some of several completions were reached, or*)
(* the last one after the deadline.                                        *)
DisagreementsAreExplained ==
  /\ verdict = "fail" /\ condition = "Complete" => failed > 0 \/ completions = 0
  /\ verdict = "pass" /\ condition = "Failed" => 0 < succeeded /\ (succeeded < completions \/ overdue)

(* Every job ends, also one whose pod is never scheduled or hangs: nothing *)
(* else releases a node whose controller waits for it.                     *)
JobEnds == <>(condition # "none")

PodsSeen == pod # "none" \/ succeeded + failed > 0

Job == INSTANCE JobLifecycle WITH
  phase <- IF condition # "none"
           THEN IF succeeded > 0 THEN "complete" ELSE "failed"
           ELSE IF PodsSeen THEN "active" ELSE "pending",
  flaky <- failed > 0

(* The job as the reconciler knows it: every step of its pods, of their    *)
(* worker, of the Job controller and of a reader is a move of JobLifecycle *)
(* or leaves it alone.                                                     *)
JobLifecycleSpec == Job!Spec
=============================================================================
