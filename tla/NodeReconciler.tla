--------------------------- MODULE NodeReconciler ---------------------------
(***************************************************************************)
(* The reconciler of the kube-node-ready controller: NodeReconciler and    *)
(* its handlers, the in-memory NodeStateCache, the two informers that feed *)
(* it and the API calls it makes, composed with the environment it runs    *)
(* in (nodes that come, go and change; the Job controller; restarts).      *)
(*                                                                         *)
(* A Reconcile call is split where it waits for the API server: everything *)
(* up to a create, patch or delete request is one step, the request and    *)
(* what follows its answer is another, and the cluster moves in between.   *)
(* All reads before the first request are of local caches.                 *)
(***************************************************************************)
EXTENDS Naturals, Sequences, FiniteSets, TaintPatch

CONSTANTS
  Nodes,              \* node names
  TaintKeys,          \* keys a taint may have
  ConfigTaints,       \* nodeManagement.taints, as a sequence of keys
  MaxRetries,         \* reconciliation.maxRetries
  DeleteFailedNodes,  \* nodeManagement.deleteFailedNodes
  Claimed,            \* nodes that a Karpenter NodeClaim stands behind
  Refused,            \* nodes whose job gets a name of more than 63 characters
  \* Bounds of the instance, none of them in the code.
  MaxTaints,          \* length of a node's taint list
  MaxSeconds,         \* distinct seconds in which a node's jobs are created
  MaxIncarnations,    \* nodes registered in a behaviour
  MaxChanges,         \* taint and label edits by others
  MaxJobLosses,       \* jobs deleted by others (or by their TTL)
  MaxFaults,          \* failed requests and lost answers
  MaxCrashes          \* restarts, or changes of leader

\* ControllerConfig.Validate refuses maxRetries < 1.
ASSUME MaxRetriesAssumption == MaxRetries \in Nat \ {0}
ASSUME DeletionAssumption == DeleteFailedNodes \in BOOLEAN /\ Claimed \subseteq Nodes
ASSUME RefusedAssumption == Refused \subseteq Nodes
ASSUME TaintsAssumption == ConfigTaints \in Seq(TaintKeys)
ASSUME BoundsAssumption ==
  /\ MaxTaints \in Nat
  /\ MaxSeconds \in Nat
  /\ MaxIncarnations \in Nat
  /\ {MaxChanges, MaxJobLosses, MaxFaults, MaxCrashes} \subseteq Nat

VARIABLES
  \* The cluster, as the API server stores it.
  node,       \* Node object per name
  jobs,       \* worker Jobs per node and second of creation
  \* What the controller's process holds.
  feed,       \* versions of a Node not yet delivered to the informer
  nodeCache,  \* informer's Node
  jobCache,   \* informer's Jobs: the phase last seen
  cache,      \* NodeStateCache
  queue,      \* the work queue: names to reconcile
  delayed,    \* names on their way to the queue (timers, late notifications)
  step,       \* where the Reconcile call of a node is
  snapshot,   \* taints of the Node object that call was given
  orphans,    \* requests that were sent by a process that has ended
  \* Time, and the bounds.
  age,        \* time since the last job of a node was created
  sec,        \* the second in which it was created
  left        \* what the environment may still do

cluster == <<node, jobs>>
informers == <<feed, nodeCache, jobCache>>
call == <<step, snapshot, orphans>>
time == <<age, sec>>
vars == <<node, jobs, feed, nodeCache, jobCache, cache, queue, delayed,
          step, snapshot, orphans, age, sec, left>>

-----------------------------------------------------------------------------
(* Objects.  uid 0 stands for a node, phase "absent" for a job, state      *)
(* "none" for an entry of the state cache that is not there.               *)

Seconds == 1 .. MaxSeconds
Phases == {"absent", "pending", "active", "complete", "failed"}
States == {"none", "unverified", "pending", "in_progress", "verified",
           "failed", "deleting"}
Finished == {"complete", "failed"}

\* What a call waits for: a creation, a patch, or a request of DeleteNode.
Deletion == {"find_claim", "delete_claim", "delete"}
Steps == {"idle", "create", "patch"} \cup Deletion
\* The requests that change a Node or a Job.
Writes == {"create", "patch", "delete"}
RequestType == [node: Nodes, what: Writes, taints: Seq(TaintKeys)]

\* phase: what the controller makes of the job's status, see WorkerJob: active
\* once a pod was created, complete or failed when it ended with or without a
\* pod that succeeded; live: the object still exists; flaky: a pod of it has
\* failed; ranOn: uid of the node there was when it ended.
JobType == [phase: Phases, live: BOOLEAN, flaky: BOOLEAN, ranOn: Nat]
NodeType == [uid: Nat, taints: Seq(TaintKeys), labeled: BOOLEAN]
\* job: the second in the job's name, 0 for none.
NodeState == [state: States, job: Nat, attempts: Nat]

NoNode == [uid |-> 0, taints |-> <<>>, labeled |-> FALSE]
NoJob == [phase |-> "absent", live |-> FALSE, flaky |-> FALSE, ranOn |-> 0]
NoState == [state |-> "none", job |-> 0, attempts |-> 0]

(* A job as a reader finds it: gone when it has been deleted.              *)
Visible(job) == IF job.live THEN job.phase ELSE "absent"

NeedsVerification(obj) ==
  obj.uid # 0 /\ ~obj.labeled /\ HasAnyUnverifiedTaint(obj.taints, ConfigTaints)

-----------------------------------------------------------------------------
(* Predicates: which events reach the queue.                               *)

NodePredicate_IgnoresDeletes(old, new) ==
  /\ NeedsVerification(new)
  /\ ~NeedsVerification(old)

NodePredicate_IgnoresCreates(old, new) ==
  \/ old.uid # 0 /\ new.uid = 0
  \/ old.uid # 0 /\ NeedsVerification(new) /\ ~NeedsVerification(old)

(* nodePredicate.  A node deleted and created again is delivered as a      *)
(* delete and a create: each version comes through the feed by itself.     *)
NodePredicate(old, new) ==
  \/ old.uid # 0 /\ new.uid = 0
  \/ old.uid = 0 /\ NeedsVerification(new)
  \/ /\ old.uid # 0
     /\ \/ old.labeled # new.labeled
        \/ HasAnyUnverifiedTaint(old.taints, ConfigTaints)
             # HasAnyUnverifiedTaint(new.taints, ConfigTaints)
     /\ NeedsVerification(new)

WorkerJobLabels == {"app", "component", "node"}

(* jobPredicate.  status.Succeeded or status.Failed is positive from the   *)
(* first pod that ends.                                                    *)
JobPredicate(old, job) ==
  /\ "node-ready.io/node" \in WorkerJobLabels
  /\ old # "absent"
  /\ Visible(job) \in Finished \cup {"absent"} \/ job.flaky

(* nodePredicate as the filter of every watch of the controller: create    *)
(* and update events must carry a Node, delete events always pass.         *)
EventFilter(kind, job) == kind = "Node" \/ Visible(job) = "absent"

(* The requests a Job event leads to (jobToNodeMapper).                    *)
JobRequests(n, old, job) ==
  IF EventFilter("Job", job) /\ JobPredicate(old, job) THEN {n} ELSE {}

-----------------------------------------------------------------------------
Init ==
  /\ node = [n \in Nodes |-> NoNode]
  /\ jobs = [n \in Nodes |-> [k \in Seconds |-> NoJob]]
  /\ feed = [n \in Nodes |-> <<>>]
  /\ nodeCache = [n \in Nodes |-> NoNode]
  /\ jobCache = [n \in Nodes |-> [k \in Seconds |-> "absent"]]
  /\ cache = [n \in Nodes |-> NoState]
  /\ queue = {}
  /\ delayed = {}
  /\ step = [n \in Nodes |-> "idle"]
  /\ snapshot = [n \in Nodes |-> <<>>]
  /\ orphans = {}
  /\ age = [n \in Nodes |-> "cooled"]
  /\ sec = [n \in Nodes |-> 0]
  /\ left = [incarnations |-> MaxIncarnations, changes |-> MaxChanges,
             losses |-> MaxJobLosses, faults |-> MaxFaults,
             crashes |-> MaxCrashes]

Spend(what) == left[what] > 0 /\ left' = [left EXCEPT ![what] = @ - 1]

(* The cluster stores a new version of a node and notifies the watch.      *)
Store(n, obj) ==
  /\ node' = [node EXCEPT ![n] = obj]
  /\ feed' = [feed EXCEPT ![n] = Append(@, obj)]

-----------------------------------------------------------------------------
(* Reconcile, up to its first request.  The worker is a single one         *)
(* (MaxConcurrentReconciles is left at 1); a name taken off the queue can  *)
(* be queued again while its call runs.                                    *)

Dequeue(n) ==
  /\ n \in queue
  /\ \A m \in Nodes : step[m] = "idle"
  /\ queue' = queue \ {n}

(* The state Reconcile works on: the cached one, or a new one.             *)
CurrentState(n) ==
  IF cache[n].state = "none" THEN [NoState EXCEPT !.state = "unverified"]
  ELSE cache[n]

(* Dequeue of a node that needs verification and is in a given state.      *)
Dispatch(n, state) ==
  /\ Dequeue(n)
  /\ NeedsVerification(nodeCache[n])
  /\ CurrentState(n).state = state

SetState(n, entry) == cache' = [cache EXCEPT ![n] = entry]
Requeue(n) == delayed' = delayed \cup {n}

(* The call sends a request about the node it was given.                   *)
Call(n, what) ==
  /\ step' = [step EXCEPT ![n] = what]
  /\ snapshot' = [snapshot EXCEPT ![n] = nodeCache[n].taints]
  /\ UNCHANGED orphans

(* r.Get answers NotFound: forget the node.                                *)
ReconcileDeleted(n) ==
  /\ Dequeue(n)
  /\ nodeCache[n].uid = 0
  /\ SetState(n, NoState)
  /\ UNCHANGED <<cluster, informers, delayed, call, time, left>>

ReconcileGetFails_Swallowed(n) ==
  /\ Dequeue(n)
  /\ Spend("faults")
  /\ UNCHANGED <<cluster, informers, cache, delayed, call, time>>

(* r.Get fails otherwise: the error puts the name back, rate limited.      *)
ReconcileGetFails(n) ==
  /\ Dequeue(n)
  /\ Spend("faults")
  /\ Requeue(n)
  /\ UNCHANGED <<cluster, informers, cache, call, time>>

(* The node carries the verified label: forget its state.                  *)
ReconcileAlreadyVerified(n) ==
  /\ Dequeue(n)
  /\ nodeCache[n].uid # 0 /\ nodeCache[n].labeled
  /\ SetState(n, NoState)
  /\ UNCHANGED <<cluster, informers, delayed, call, time, left>>

(* Neither label nor configured taint: nothing to do.                      *)
ReconcileNoTaint(n) ==
  /\ Dequeue(n)
  /\ nodeCache[n].uid # 0 /\ ~nodeCache[n].labeled
  /\ ~NeedsVerification(nodeCache[n])
  /\ UNCHANGED <<cluster, informers, cache, delayed, call, time, left>>

(* handleUnverified, up to the creation of the job.  The guard on sec is a *)
(* bound.                                                                  *)
HandleUnverified(n) ==
  /\ Dispatch(n, "unverified")
  /\ sec[n] < MaxSeconds
  /\ SetState(n, CurrentState(n))
  /\ Call(n, "create")
  /\ UNCHANGED <<cluster, informers, delayed, time, left>>

-----------------------------------------------------------------------------
(* handleInProgress: the job as the informer shows it.                     *)

Monitor(n) == Dispatch(n, "pending") \/ Dispatch(n, "in_progress")
JobSeen(n) ==
  IF cache[n].job \in Seconds THEN jobCache[n][cache[n].job] ELSE "absent"

JobStatusUnknown_CountsAsFailure(n) ==
  /\ Monitor(n)
  /\ JobSeen(n) = "absent"
  /\ SetState(n, [cache[n] EXCEPT !.state = "failed"])
  /\ Requeue(n)
  /\ UNCHANGED <<cluster, informers, call, time, left>>

(* GetWorkerJobStatus fails (deleted, or not yet in the informer): back to *)
(* unverified, with a timer.                                               *)
JobStatusUnknown(n) ==
  /\ Monitor(n)
  /\ \/ JobSeen(n) = "absent" /\ UNCHANGED left
     \/ Spend("faults")
  /\ SetState(n, [cache[n] EXCEPT !.state = "unverified", !.job = 0])
  /\ Requeue(n)
  /\ UNCHANGED <<cluster, informers, call, time>>

(* Not completed: note that it runs, and wait for the next event.  Between *)
(* two pods of an active job, status.active is 0.                          *)
JobUnfinished(n) ==
  /\ Monitor(n)
  /\ \/ JobSeen(n) \in {"pending", "active"} /\ SetState(n, cache[n])
     \/ /\ JobSeen(n) = "active"
        /\ SetState(n, [cache[n] EXCEPT !.state = "in_progress"])
  /\ UNCHANGED <<cluster, informers, delayed, call, time, left>>

(* getJobPodExitCode of a complete job: nil when no ended pod is read, and *)
(* otherwise the code of the first one in the list, which may be a pod     *)
(* that failed before another one succeeded.                               *)
ExitCodes(job) == {"nil", "zero"} \cup (IF job.flaky THEN {"nonzero"} ELSE {})

JobExitCodes(n) == ExitCodes(jobs[n][cache[n].job])

JobSucceeded_NotYetCompleted(n) ==
  /\ Monitor(n)
  /\ JobSeen(n) \in {"active", "complete"}
  /\ Call(n, "patch")
  /\ UNCHANGED <<cluster, informers, cache, delayed, time, left>>

JobSucceeded(n) ==
  /\ Monitor(n)
  /\ JobSeen(n) = "complete"
  /\ \E code \in JobExitCodes(n) : code \in {"nil", "zero"}
  /\ Call(n, "patch")
  /\ UNCHANGED <<cluster, informers, cache, delayed, time, left>>

JobFailed(n) ==
  /\ Monitor(n)
  /\ \/ JobSeen(n) = "failed"
     \/ JobSeen(n) = "complete" /\ "nonzero" \in JobExitCodes(n)
  /\ SetState(n, [cache[n] EXCEPT !.state = "failed"])
  /\ Requeue(n)
  /\ UNCHANGED <<cluster, informers, call, time, left>>

-----------------------------------------------------------------------------
(* handleFailed, handleVerified, and the state no case handles.            *)

BackOff(n) ==
  /\ Dispatch(n, "failed")
  /\ cache[n].attempts < MaxRetries
  /\ age[n] # "cooled"
  /\ Requeue(n)
  /\ UNCHANGED <<cluster, informers, cache, call, time, left>>

(* The backoff is over: unverified again, and nothing is queued.           *)
Retry(n) ==
  /\ Dispatch(n, "failed")
  /\ cache[n].attempts < MaxRetries
  /\ age[n] = "cooled"
  /\ SetState(n, [cache[n] EXCEPT !.state = "unverified", !.job = 0])
  /\ UNCHANGED <<cluster, informers, delayed, call, time, left>>

GiveUp(n) ==
  /\ Dispatch(n, "failed")
  /\ cache[n].attempts >= MaxRetries
  /\ ~DeleteFailedNodes
  /\ UNCHANGED <<cluster, informers, cache, delayed, call, time, left>>

DeleteFailed(n) ==
  /\ Dispatch(n, "failed")
  /\ cache[n].attempts >= MaxRetries
  /\ DeleteFailedNodes
  /\ Call(n, "find_claim")
  /\ UNCHANGED <<cluster, informers, cache, delayed, time, left>>

NothingToHandle(n) ==
  /\ Dispatch(n, "verified") \/ Dispatch(n, "deleting")
  /\ UNCHANGED <<cluster, informers, cache, delayed, call, time, left>>

Reconcile(n) ==
  \/ ReconcileDeleted(n)
  \/ ReconcileGetFails(n)
  \/ ReconcileAlreadyVerified(n)
  \/ ReconcileNoTaint(n)
  \/ HandleUnverified(n)
  \/ JobStatusUnknown(n)
  \/ JobUnfinished(n)
  \/ JobSucceeded(n)
  \/ JobFailed(n)
  \/ BackOff(n)
  \/ Retry(n)
  \/ GiveUp(n)
  \/ DeleteFailed(n)
  \/ NothingToHandle(n)

-----------------------------------------------------------------------------
(* The requests, and what the call does with their answers.                *)

Answer(n, what) ==
  /\ step[n] = what
  /\ step' = [step EXCEPT ![n] = "idle"]
  /\ snapshot' = [snapshot EXCEPT ![n] = <<>>]
  /\ UNCHANGED <<queue, nodeCache, jobCache, orphans>>

(* An error returned to the work queue; the state cache is left alone.     *)
AnswerError(n, what) ==
  /\ Answer(n, what)
  /\ Requeue(n)
  /\ UNCHANGED cache

(* CreateWorkerJob names the job after the node and the current second.    *)
StoreJob(n) ==
  /\ n \notin Refused
  /\ age[n] # "fresh"
  /\ sec' = [sec EXCEPT ![n] = @ + 1]
  /\ jobs' = [jobs EXCEPT ![n][sec[n] + 1] =
                [NoJob EXCEPT !.phase = "pending", !.live = TRUE]]
  /\ UNCHANGED <<node, feed>>

AddJob(n) == StoreJob(n) /\ age' = [age EXCEPT ![n] = "fresh"]

RecordJob_NameOfNextSecond(n, k) ==
  SetState(n, [state |-> "pending", job |-> k + 1, attempts |-> cache[n].attempts + 1])

RecordJob_NotCounted(n, k) ==
  SetState(n, [state |-> "pending", job |-> k, attempts |-> cache[n].attempts])

RecordJob(n, k) ==
  SetState(n, [state |-> "pending", job |-> k, attempts |-> cache[n].attempts + 1])

JobCreated(n) ==
  /\ Answer(n, "create")
  /\ AddJob(n)
  /\ RecordJob(n, sec[n] + 1)
  /\ UNCHANGED <<delayed, left>>

\* The API server created the job, the controller sees an error.
JobCreatedAnswerLost(n) ==
  /\ AnswerError(n, "create")
  /\ AddJob(n)
  /\ Spend("faults")

Fails(n) == (n \in Refused /\ UNCHANGED left) \/ Spend("faults")

JobNotCreated_Swallowed(n) ==
  /\ Answer(n, "create")
  /\ Fails(n)
  /\ UNCHANGED <<cluster, feed, time, cache, delayed>>

\* The API server refuses the job, or the request fails.
JobNotCreated(n) ==
  /\ AnswerError(n, "create")
  /\ Fails(n)
  /\ UNCHANGED <<cluster, feed, time>>

(* AlreadyExists: the job of this very second is looked up in the informer.*)
JobAlreadyExists(n) ==
  /\ age[n] = "fresh"
  /\ \/ /\ jobCache[n][sec[n]] # "absent"
        /\ Answer(n, "create")
        /\ RecordJob(n, sec[n])
        /\ UNCHANGED delayed
     \/ /\ jobCache[n][sec[n]] = "absent"
        /\ AnswerError(n, "create")
  /\ UNCHANGED <<cluster, feed, time, left>>

CreateWorkerJob(n) ==
  \/ JobCreated(n)
  \/ JobCreatedAnswerLost(n)
  \/ JobNotCreated(n)
  \/ JobAlreadyExists(n)

(* UpdateNodeMetadata: the patch goes to the node of that name, with the   *)
(* indices found on the snapshot.                                          *)
PatchApplies(n, held) ==
  /\ node[n].uid # 0
  /\ \E list \in PatchedTaints(node[n].taints, held, ConfigTaints) :
       Store(n, [node[n] EXCEPT !.taints = list, !.labeled = TRUE])
  /\ UNCHANGED jobs

NodePatched(n) ==
  /\ Answer(n, "patch")
  /\ PatchApplies(n, snapshot[n])
  /\ SetState(n, [cache[n] EXCEPT !.state = "verified"])
  /\ UNCHANGED <<delayed, time, left>>

NodePatchedAnswerLost(n) ==
  /\ AnswerError(n, "patch")
  /\ PatchApplies(n, snapshot[n])
  /\ Spend("faults")
  /\ UNCHANGED time

NodeNotPatched_Swallowed(n) ==
  /\ Answer(n, "patch")
  /\ Spend("faults")
  /\ UNCHANGED <<cluster, feed, time, cache, delayed>>

\* The node is gone, an index is out of range, or the request fails.
NodeNotPatched(n) ==
  /\ AnswerError(n, "patch")
  /\ \/ /\ \/ node[n].uid = 0
           \/ PatchedTaints(node[n].taints, snapshot[n], ConfigTaints) = {}
        /\ UNCHANGED left
     \/ Spend("faults")
  /\ UNCHANGED <<cluster, feed, time>>

UpdateNodeMetadata(n) ==
  \/ NodePatched(n)
  \/ NodePatchedAnswerLost(n)
  \/ NodeNotPatched(n)

(* DeleteNode: look for the node's NodeClaim and delete it (Karpenter       *)
(* removes the node later); otherwise, or when that fails, delete the node *)
(* of that name.  Claims are not modelled: any answer may come.            *)
Proceed(n, from, to) ==
  /\ step[n] = from
  /\ step' = [step EXCEPT ![n] = to]
  /\ UNCHANGED <<cluster, informers, cache, queue, delayed, snapshot, orphans,
                 time, left>>

ClaimFound(n) == n \in Claimed /\ Proceed(n, "find_claim", "delete_claim")

\* No claim names the node in its status, or the list fails.
ClaimNotFound(n) == Proceed(n, "find_claim", "delete")

ClaimDeleted(n) ==
  /\ Answer(n, "delete_claim")
  /\ SetState(n, [cache[n] EXCEPT !.state = "deleting"])
  /\ UNCHANGED <<cluster, feed, delayed, time, left>>

\* The claim is gone, the request fails or its answer is lost.
ClaimNotDeleted(n) == Proceed(n, "delete_claim", "delete")

NodeDeletedDirectly(n) ==
  /\ Answer(n, "delete")
  /\ node[n].uid # 0
  /\ Store(n, NoNode)
  /\ SetState(n, [cache[n] EXCEPT !.state = "deleting"])
  /\ UNCHANGED <<jobs, delayed, time, left>>

NodeDeletedAnswerLost(n) ==
  /\ AnswerError(n, "delete")
  /\ Spend("faults")
  /\ node[n].uid # 0
  /\ Store(n, NoNode)
  /\ UNCHANGED <<jobs, time>>

NodeNotDeleted_Swallowed(n) ==
  /\ Answer(n, "delete")
  /\ \/ node[n].uid = 0 /\ UNCHANGED left
     \/ Spend("faults")
  /\ UNCHANGED <<cluster, feed, time, cache, delayed>>

NodeNotDeleted(n) ==
  /\ AnswerError(n, "delete")
  /\ \/ node[n].uid = 0 /\ UNCHANGED left
     \/ Spend("faults")
  /\ UNCHANGED <<cluster, feed, time>>

DeleteNode(n) ==
  \/ ClaimFound(n)
  \/ ClaimNotFound(n)
  \/ ClaimDeleted(n)
  \/ ClaimNotDeleted(n)
  \/ NodeDeletedDirectly(n)
  \/ NodeDeletedAnswerLost(n)
  \/ NodeNotDeleted(n)

Request(n) == CreateWorkerJob(n) \/ UpdateNodeMetadata(n) \/ DeleteNode(n)

-----------------------------------------------------------------------------
(* Informers, timers and restarts of the controller's process.             *)

(* An accepted event puts the node's name on the queue, at once or after   *)
(* other calls have already read the new version.                          *)
Notify(n, accepted) ==
  \/ ~accepted /\ UNCHANGED <<queue, delayed>>
  \/ accepted /\ queue' = queue \cup {n} /\ UNCHANGED delayed
  \/ accepted /\ Requeue(n) /\ UNCHANGED queue

SyncNode(n) ==
  /\ feed[n] # <<>>
  /\ nodeCache' = [nodeCache EXCEPT ![n] = Head(feed[n])]
  /\ feed' = [feed EXCEPT ![n] = Tail(@)]
  /\ Notify(n, NodePredicate(nodeCache[n], Head(feed[n])))
  /\ UNCHANGED <<cluster, jobCache, cache, call, time, left>>

(* A broken watch: the versions between are never seen.                    *)
Relist(n) ==
  /\ Len(feed[n]) > 1
  /\ Spend("faults")
  /\ feed' = [feed EXCEPT ![n] = <<node[n]>>]
  /\ UNCHANGED <<cluster, nodeCache, jobCache, cache, queue, delayed, call, time>>

SyncJob(n, k) ==
  /\ jobCache[n][k] # Visible(jobs[n][k])
  /\ jobCache' = [jobCache EXCEPT ![n][k] = Visible(jobs[n][k])]
  /\ queue' = queue \cup JobRequests(n, jobCache[n][k], jobs[n][k])
  /\ UNCHANGED <<cluster, feed, nodeCache, cache, delayed, call, time, left>>

TimerFires(n) ==
  /\ n \in delayed
  /\ delayed' = delayed \ {n}
  /\ queue' = queue \cup {n}
  /\ UNCHANGED <<cluster, informers, cache, call, time, left>>

InFlight ==
  {[node |-> n, what |-> step[n], taints |-> snapshot[n]] :
     n \in {m \in Nodes : step[m] \in Writes}}

(* The process is replaced, because it ended or lost its lease: its memory *)
(* is lost, its informers are synced before the first call, and every node *)
(* is delivered as a create event.  The request it waited for is under way *)
(* and may reach the API server at any later time, or never.               *)
Restart ==
  /\ Spend("crashes")
  /\ feed' = [n \in Nodes |-> <<>>]
  /\ nodeCache' = node
  /\ jobCache' = [n \in Nodes |-> [k \in Seconds |-> Visible(jobs[n][k])]]
  /\ cache' = [n \in Nodes |-> NoState]
  /\ queue' = {n \in Nodes : NodePredicate(NoNode, node[n])}
  /\ delayed' = {}
  /\ step' = [n \in Nodes |-> "idle"]
  /\ snapshot' = [n \in Nodes |-> <<>>]
  /\ orphans' = orphans \cup InFlight
  /\ UNCHANGED <<cluster, time>>

(* The request of a process that has ended takes effect, with nobody left  *)
(* to read the answer.  The second in its job's name is past, so that no   *)
(* job the present process creates or asks for has that name.  The bound on*)
(* sec leaves room for the job of a call that is being made.               *)
OrphanLands(r) ==
  /\ r \in orphans
  /\ orphans' = orphans \ {r}
  /\ \/ /\ r.what = "create"
        /\ step[r.node] # "create" /\ sec[r.node] < MaxSeconds
        /\ StoreJob(r.node)
        /\ UNCHANGED age
     \/ r.what = "patch" /\ PatchApplies(r.node, r.taints) /\ UNCHANGED time
     \/ /\ r.what = "delete"
        /\ node[r.node].uid # 0
        /\ Store(r.node, NoNode)
        /\ UNCHANGED <<jobs, time>>
  /\ UNCHANGED <<nodeCache, jobCache, cache, queue, delayed, step, snapshot, left>>

-----------------------------------------------------------------------------
(* The environment: nodes, other writers of their taints and labels, the   *)
(* Job controller, time.                                                   *)

process == <<nodeCache, jobCache, cache, queue, delayed, call>>

RegisterNode(n) ==
  /\ node[n].uid = 0
  /\ Spend("incarnations")
  /\ \E others \in {<<>>} \cup {<<key>> : key \in TaintKeys} :
       /\ Len(ConfigTaints \o others) <= MaxTaints
       /\ Store(n, [uid |-> MaxIncarnations - left.incarnations + 1,
                    taints |-> ConfigTaints \o others, labeled |-> FALSE])
  /\ UNCHANGED <<jobs, process, time>>

NodeGone(n) ==
  /\ node[n].uid # 0
  /\ Store(n, NoNode)
  /\ UNCHANGED <<jobs, process, time, left>>

ChangeTaints(n, list) ==
  /\ node[n].uid # 0
  /\ Spend("changes")
  /\ Store(n, [node[n] EXCEPT !.taints = list])
  /\ UNCHANGED <<jobs, process, time>>

\* Another writer puts a taint first or last, or takes one away.
AddTaint(n) ==
  /\ Len(node[n].taints) < MaxTaints
  /\ \E key \in TaintKeys :
       \/ ChangeTaints(n, <<key>> \o node[n].taints)
       \/ ChangeTaints(n, Append(node[n].taints, key))

RemoveTaint(n) ==
  \E i \in DOMAIN node[n].taints :
    ChangeTaints(n, RemoveIndex(node[n].taints, i))

RemoveLabel(n) ==
  /\ node[n].uid # 0 /\ node[n].labeled
  /\ Spend("changes")
  /\ Store(n, [node[n] EXCEPT !.labeled = FALSE])
  /\ UNCHANGED <<jobs, process, time>>

(* A change of one live job by the Job controller or its pods.             *)
JobChanges(n, k, job) ==
  /\ jobs[n][k].live
  /\ jobs' = [jobs EXCEPT ![n][k] = job]
  /\ UNCHANGED <<node, feed, process, time>>

\* Its pod is created: status.active counts it before it is scheduled.
JobStarts(n, k) ==
  /\ jobs[n][k].phase = "pending"
  /\ JobChanges(n, k, [jobs[n][k] EXCEPT !.phase = "active"])
  /\ UNCHANGED left

\* A pod fails within the job's backoffLimit; another one takes its place.
PodFails(n, k) ==
  /\ jobs[n][k].phase = "active" /\ ~jobs[n][k].flaky
  /\ Spend("faults")
  /\ JobChanges(n, k, [jobs[n][k] EXCEPT !.flaky = TRUE])

\* Its pod may have succeeded before the node went.
JobCompletes(n, k) ==
  /\ jobs[n][k].phase = "active"
  /\ JobChanges(n, k, [jobs[n][k] EXCEPT !.phase = "complete", !.ranOn = node[n].uid])
  /\ UNCHANGED left

\* Past its backoffLimit, or its activeDeadlineSeconds.
JobFails(n, k) ==
  /\ jobs[n][k].phase \in {"pending", "active"}
  /\ JobChanges(n, k, [jobs[n][k] EXCEPT !.phase = "failed", !.ranOn = node[n].uid])
  /\ UNCHANGED left

\* Deleted by its TTL or by hand, after the second in which it was created.
JobDeleted(n, k) ==
  /\ k # sec[n] \/ age[n] # "fresh"
  /\ Spend("losses")
  /\ JobChanges(n, k, [jobs[n][k] EXCEPT !.live = FALSE])

(* The second, and then the backoff, since the last job was created end.   *)
Tick(n) ==
  /\ age[n] # "cooled"
  /\ age' = [age EXCEPT ![n] = IF @ = "fresh" THEN "cooling" ELSE "cooled"]
  /\ UNCHANGED <<cluster, feed, process, sec, left>>

JobRuns(n, k) == JobStarts(n, k) \/ JobCompletes(n, k) \/ JobFails(n, k)

Next ==
  \/ \E n \in Nodes :
       \/ Reconcile(n)
       \/ Request(n)
       \/ SyncNode(n)
       \/ Relist(n)
       \/ TimerFires(n)
       \/ RegisterNode(n)
       \/ NodeGone(n)
       \/ AddTaint(n)
       \/ RemoveTaint(n)
       \/ RemoveLabel(n)
       \/ Tick(n)
       \/ \E k \in Seconds :
            \/ SyncJob(n, k)
            \/ JobRuns(n, k)
            \/ PodFails(n, k)
            \/ JobDeleted(n, k)
  \/ Restart
  \/ \E r \in orphans : OrphanLands(r)

Spec == Init /\ [][Next]_vars

(* The workers, informers and timers of a running process keep going; the  *)
(* work queue is a FIFO, so a name on it is not passed over for ever; time *)
(* passes and jobs, which have an active deadline, end.  Nothing is        *)
(* assumed of faults, restarts and other writers.                          *)
Fairness ==
  \A n \in Nodes :
    /\ SF_vars(Reconcile(n))
    /\ WF_vars(Request(n))
    /\ WF_vars(SyncNode(n))
    /\ WF_vars(TimerFires(n))
    /\ WF_vars(Tick(n))
    /\ \A k \in Seconds : WF_vars(SyncJob(n, k)) /\ WF_vars(JobRuns(n, k))

FairSpec == Spec /\ Fairness
-----------------------------------------------------------------------------
(* Properties that hold.                                                   *)

(* Every variable holds a value of its type; a state names a job of a      *)
(* second in which a job was created.                                      *)
TypeOK ==
  /\ node \in [Nodes -> NodeType]
  /\ nodeCache \in [Nodes -> NodeType]
  /\ feed \in [Nodes -> Seq(NodeType)]
  /\ jobs \in [Nodes -> [Seconds -> JobType]]
  /\ jobCache \in [Nodes -> [Seconds -> Phases]]
  /\ cache \in [Nodes -> NodeState]
  /\ sec \in [Nodes -> 0 .. MaxSeconds]
  /\ \A n \in Nodes : cache[n].job <= sec[n]
  /\ age \in [Nodes -> {"fresh", "cooling", "cooled"}]
  /\ queue \subseteq Nodes /\ delayed \subseteq Nodes
  /\ step \in [Nodes -> Steps]
  /\ snapshot \in [Nodes -> Seq(TaintKeys)]
  /\ orphans \subseteq RequestType
  /\ left \in [incarnations: Nat, changes: Nat, losses: Nat, faults: Nat,
               crashes: Nat]

(* A job that reports, or may be read as, a failed verification.           *)
MayRead(job, verdict) ==
  IF verdict = "pass" THEN job.phase = "complete"
  ELSE job.phase = "failed" \/ (job.phase = "complete" /\ job.flaky)

(* The state kept in memory never runs ahead of the jobs: whatever the     *)
(* informer missed or showed late, a pending state has a job that was      *)
(* created, an in-progress one a job that started, a verified one a job    *)
(* that completed and a failed one a job that can be read as failed - also *)
(* in the middle of a request that acts on it.                             *)
StateMatchesJob ==
  \A n \in Nodes :
    LET state == cache[n].state
        job == jobs[n][cache[n].job]
    IN  /\ (cache[n].job = 0) <=> (state \in {"none", "unverified"})
        /\ cache[n].job # 0 => job.phase # "absent"
        /\ state = "in_progress" => job.phase \notin {"absent", "pending"}
        /\ state = "verified" \/ step[n] = "patch" => MayRead(job, "pass")
        /\ state \in {"failed", "deleting"} => MayRead(job, "fail")

(* A node that needs verification and is not known yet is never forgotten: *)
(* its name is on the work queue or on its way there, through deletions of *)
(* the state, late notifications, missed versions and restarts.            *)
NewNodeIsScheduled ==
  \A n \in Nodes :
    NeedsVerification(nodeCache[n]) /\ cache[n].state = "none"
      => n \in queue \cup delayed

(* The controller's irreversible acts are earned.  A node gets the verified*)
(* label only when a job created for its name has completed, and the       *)
(* controller removes a node, or its claim, only after maxRetries attempts,*)
(* the last of them read as failed.  A request that lands after its sender *)
(* has ended was earned by a job that can still be found.                  *)
VerdictsAreEarned ==
  [][\A n \in Nodes :
       /\ node'[n].labeled /\ ~node[n].labeled
            => \E k \in Seconds : MayRead(jobs[n][k], "pass")
       /\ step[n] \in Deletion /\ step'[n] = "idle"
            /\ (node'[n] # node[n] \/ cache'[n].state = "deleting")
            => /\ cache[n].attempts >= MaxRetries
               /\ MayRead(jobs[n][cache[n].job], "fail")
       /\ orphans' # orphans /\ node[n].uid # 0 /\ node'[n].uid = 0
            => DeleteFailedNodes /\ \E k \in Seconds : MayRead(jobs[n][k], "fail")]_vars

NeverTried(n) == \A k \in Seconds : jobs[n][k].phase = "absent"

(* A node that needs verification gets its first worker job, unless it     *)
(* stops needing it, through failed requests, missed watches and restarts. *)
NewNodeGetsJob ==
  \A n \in Nodes \ Refused :
    NeedsVerification(node[n]) /\ NeverTried(n)
      ~> ~NeedsVerification(node[n]) \/ ~NeverTried(n)

(* A node whose job the API server refuses is tried again and again, for as*)
(* long as it needs verification: the error neither drops it nor counts.   *)
RefusedJobIsRetried ==
  \A n \in Refused :
    NeedsVerification(node[n])
      ~> step[n] = "create" \/ ~NeedsVerification(node[n])

(* A deletion that was begun ends, with the claim or the node deleted or   *)
(* the node gone, through failures of each of its requests.                *)
DeletionEnds ==
  \A n \in Nodes :
    step[n] \in Deletion ~> cache[n].state # "failed" \/ ~NeedsVerification(node[n])

(* The state of a node that is gone is dropped, also when it goes while a  *)
(* request about it is under way, unless a node of its name comes back.    *)
GoneNodeIsForgotten ==
  \A n \in Nodes :
    node[n].uid = 0 ~> cache[n].state = "none" \/ node[n].uid # 0

(* Once the reconciler has read a success of a job, the label of its node  *)
(* follows through failed and repeated patches - unless the node no longer *)
(* needs it, the job is forgotten (with the process, with the node, or     *)
(* because its status cannot be read any more), or a pod of it had failed  *)
(* as well and a retry of the patch finds that one first.                  *)
SuccessReachesNode ==
  \A n \in Nodes, k \in Seconds :
    step[n] = "patch" /\ cache[n].job = k
      ~> \/ ~NeedsVerification(node[n])
         \/ cache[n].job # k
         \/ cache[n].state = "failed" /\ jobs[n][k].flaky

(* The lifecycle every node goes through, as far as the controller's memory*)
(* and the jobs tell.                                                      *)
Verdicts(n) == {v \in {"pass", "fail"} : \E k \in Seconds : MayRead(jobs[n][k], v)}

Lifecycle == INSTANCE NodeLifecycle WITH
  phase <- [n \in Nodes |-> cache[n].state],
  attempts <- [n \in Nodes |-> cache[n].attempts],
  verdicts <- [n \in Nodes |-> Verdicts(n)]

(* Every step of the reconciler, the informers, the cluster and a restart  *)
(* is a move of the lifecycle or leaves it alone.                          *)
LifecycleSpec == Lifecycle!Spec
=============================================================================
