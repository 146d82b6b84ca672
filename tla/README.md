# kube-node-ready in TLA+

kube-node-ready keeps workloads off a new Kubernetes node until it has been
checked. Nodes register with a startup taint. A *controller* sees the node,
runs a *worker* Job on it and, by the outcome of the Job, takes the taint off and
adds a "verified" label, or retries, or deletes the node. This directory holds a
TLA+ model of that program, the TLC runs that check it on small instances, and
TLAPS proofs of its main properties for every instance.

Paths below are relative to the repository; `controller/` stands for
`src/internal/controller/`, `k8s/` for `src/internal/k8s/`, `checker/` for
`src/internal/checker/`, and `values.yaml` is that of `src/deploy/helm/kube-node-ready/`.

## 1. Inventory

### Components

| Component | State it keeps | Operations | Modelled in |
|---|---|---|---|
| `NodeReconciler` (`controller/node_controller.go`) | none of its own; works on the state cache | `Reconcile`, `handleUnverified`, `handleInProgress`, `handleFailed`, `handleVerified` | `NodeReconciler` |
| Event wiring (`SetupWithManager`) | none | `nodePredicate`, `jobPredicate`, `WithEventFilter`, `jobToNodeMapper` | `NodeReconciler` |
| `NodeStateCache` (`k8s/node_state.go`) | map from node name to `NodeState`, under a lock | `Get`, `Set`, `Delete`; `GetAll` for metrics; `List`, `CountByState` have no caller | `NodeReconciler` (first three), `MetricsUpdater` (`GetAll`) |
| `WorkerManager` (`controller/worker_manager.go`) | none | `CreateWorkerJob`, `GetWorkerJobStatus`, `getJobPodExitCode`; `DeleteWorkerJob`, `FindWorkerJobForNode`, `GetJobUID` have no caller | `NodeReconciler` (as requests), `WorkerJob` (what they read), `WorkerPod` (`buildTolerations`) |
| `NodeManager` (`k8s/node_manager.go`) | none | `UpdateNodeMetadata` (JSON patch), `DeleteNode` (NodeClaim first, then Node) | `TaintPatch`, `NodeReconciler` |
| Informers, work queue (controller-runtime) | cached Nodes and Jobs, queue, timers | delivery of versions, deduplication, requeue, relist | `NodeReconciler`, external |
| Cluster | Node, Job and Pod objects | other writers of taints and labels, Job controller, TTL, kubelet, Karpenter | `NodeReconciler`, `WorkerJob`, external |
| Controller process (`src/cmd/kube-node-ready-controller`, `k8s/ctrl_manager.go`) | all of the memory above | start, restart, leader election | `NodeReconciler!Restart`, `OrphanLands` |
| Backoff (`calculateBackoff`, twice in the code) | none | duration from an attempt count | `Backoff` |
| Worker (`src/cmd/kube-node-ready-worker`, `checker/`) | a context, the check it is at | load configuration, four checks, exit code | `Worker`; in the pods of a Job, `WorkerJob` |
| Metrics updater (`controller/metrics.go`) | four gauges | counts the entries of the state cache on every tick | `MetricsUpdater` |
| Configuration (`src/internal/config`) | none | parse, default, validate | `WorkerPod` (the taints and tolerations), assumptions on constants, `Worker` (outcomes of loading) |
| Client construction, metrics definitions and server, Helm chart | none that control reads | | not modelled |

### Interaction

Watches of Nodes and Jobs fill the informers. An event that passes the
predicates puts a node's name on the work queue. One worker
(`MaxConcurrentReconciles` keeps its default of 1) takes a name, reads the Node
from the informer and the state from the cache, and acts by the state:
`unverified` creates a Job, `pending` and `in_progress` look at the Job in the
informer and patch the Node when it succeeded, `failed` waits, retries, gives up or
deletes. Requests go to the API server, so the cluster moves on between the read
and the write. The worker process speaks to the controller only through the exit
code of its pod and the status of the Job.

### What is hard

* *Stale reads.* Nodes and Jobs are read from informers that lag, and the patch
  names taints by their position in the copy that was read.
* *Lost wake-ups.* There is no periodic reconciliation (`intervalSeconds` is
  parsed and used nowhere). A node moves on only if an event or a requeue brings it
  back, so every path that returns an empty `Result` has to be right to do so.
* *Lost answers and partial failures.* Each request may take effect although the
  controller sees an error; `DeleteNode` chains several.
* *Restarts.* The state cache is memory only, and a request of the process that
  ended may still land.
* *Several pods.* A Job has a status, a condition and pods with exit codes, and the
  controller reads its verdict from two of the three.
* *Unlocked reads.* The metrics goroutine reads fields the handlers assign.
* *Configuration.* What is validated is less than what the API server, or
  `resource.MustParse`, asks.
* *Identity.* State, jobs and patches go by the name of a node, and names come back.
* *Arithmetic.* Positions that shift under earlier removals; a 64-bit duration
  that overflows; attempts that count the first one.
* *Deadlines.* The worker's checks run under a deadline, a signal and a timeout per
  check, and one request ignores all three.

`PROJECT.json` lists each hazard at its line with the properties that cover it.

### What makes each component correct

* Reconciler: the state in memory never runs ahead of what the jobs did; a label or
  a deletion is earned; a node that needs verification is never lost; a success
  reaches the node; a gone node is forgotten.
* Patch: removes the configured taints and nothing else.
* Job: a verification that passes had a worker that found everything to work; a job
  ends; where the controller and the cluster disagree about it is known.
* Tolerations: the worker's pod may run on the node that waits for it, and the configured
  tolerations mean to it what they mean in Kubernetes.
* Gauges: count nothing that was not so during the update, and come to be right.
* Worker: exit code 0 only when everything it checks worked; a run whose context is
  over early fails.
* Backoff: follows the documented schedule; where the arithmetic overflows it does not,
  and it is known at which attempts.

## 2. Modules

| Module | What it is |
|---|---|
| `TaintPatch` | Operators: `HasAnyUnverifiedTaint`, `FindTaintIndex`, and the patch of `UpdateNodeMetadata`, operation by operation |
| `Backoff` | Operators: the pause before a retry in 64-bit arithmetic |
| `WorkerPod` | Operators: the taints `Validate` lets through, `buildTolerations`, what the API server, the scheduler and the taint manager make of its tolerations |
| `ControllerOperators` | The inputs of these three as a state, and what is asserted of them, against references |
| `MCOperators` | The configurations that TLC gives to `ControllerOperators` |
| `NodeLifecycle` | Abstract specification: the states of a node's verification and the moves between them |
| `NodeReconciler` | Controller, informers, queue and cluster; uses `TaintPatch`, refines `NodeLifecycle` |
| `ReconcilerClaims` | Statements of the repository's comments and documents that the reconciler does not meet |
| `MCNodeReconciler` | Constant values for the configurations |
| `Worker` | One run of the worker program |
| `JobLifecycle` | Abstract specification: the phases of a Job and the verdicts that may be read from it |
| `WorkerJob` | A Job, its pods, each a run of `Worker`, and the reader of its status; refines `JobLifecycle` |
| `MetricsUpdater` | The metrics goroutine beside a reconciler that is `NodeLifecycle` |
| `TaintPatchProofs`, `NodeReconcilerProofs`, `NodeReconcilerSafety`, `NodeReconcilerRefinement`, `WorkerProofs`, `WorkerJobProofs`, `MetricsUpdaterProofs`, `ControllerOperatorsProofs` | Theorems and proofs |

The two abstract specifications are what joins the modules. `NodeReconciler`
implements `NodeLifecycle`, which `MetricsUpdater` takes as its reconciler.
`WorkerJob` implements `JobLifecycle`, and every job in `NodeReconciler` behaves as
`JobLifecycle` says. All four joints are theorems (section 4).

### NodeReconciler and the code

| Variable | Code |
|---|---|
| `node`, `jobs` | Node and Job objects as the API server stores them. A job is known by its node and the second of its creation, as in its name `node-ready-worker-<node>-<seconds>` |
| `feed`, `nodeCache`, `jobCache` | watch of Nodes, informers of Nodes and Jobs |
| `cache` | `NodeStateCache`; state `"none"` is a missing entry |
| `queue`, `delayed` | work queue; names on a timer (`RequeueAfter`, rate-limited errors) or with an event that was delivered late |
| `step`, `snapshot` | the request a running call waits for; the taints of the Node object it holds |
| `orphans` | writes sent by a process that has ended and not yet executed or dropped |
| `age`, `sec` | time since the last job: `fresh` (same second), `cooling` (in backoff), `cooled`; and its second |
| `left` | what the environment may still do |

A `Reconcile` call that sends no request is one action. One that does is two: the
part up to the request (`HandleUnverified`, `JobSucceeded`, `DeleteFailed`) and the
answer (`CreateWorkerJob`, `UpdateNodeMetadata`, `DeleteNode`). `DeleteNode` is three
requests, each a step: the search for a NodeClaim (`find_claim`), its deletion
(`delete_claim`) and the fallback to the Node (`delete`). In between the
cluster, the informers and a restart may act. Every request may succeed, fail, or
take effect while its answer is lost. A call holds pointers into the state cache
until it ends, but as only one call runs, writing `cache` at the point of `Set`
loses no interleaving with other calls. `Restart` ends the process at any point: a
write under way becomes an orphan that may land at any later time (`OrphanLands`), also
when the next leader already works on the node.

`EventFilter` and `JobPredicate` are translated as they are wired: the node
predicate is installed with `WithEventFilter` and so filters Job events too.
`JobRequests` is therefore empty for every event that can occur; the model keeps
the whole chain of conditions, because a change to any link matters.

Abstractions: a node's labels are one Boolean (the verified label with its value);
a taint is its key (`findTaintIndex` and `hasAnyUnverifiedTaint` compare nothing
else); log lines and metrics are left out. A job's phase is what the controller makes
of its status: `active` once a pod was created, `complete` or `failed` when the Job
ended with or without a pod that succeeded; `flaky` says that a pod of it failed,
`ranOn` which incarnation of the node there was when it ended. `WorkerJob` shows that
Jobs with pods, limits and deadlines behave so. `Claimed` are the nodes behind a
NodeClaim, `Refused` those whose names are longer than 34 characters, so that the
name of the Job, a label of its pods, passes 63.

### Worker and the code

`stage` follows `run()` and `RunAllChecks`: `config`, `client`, then one stage per
request: `dns` (for each `domain`), `api`, `tcp`, `service`, `endpoints`. `ctx` is
the context of `main.go`, ended by `DeadlineExceeded` or by the goroutine that
receives a signal (`CancelOnSignal`). `sentLive` tells whether the request under way
was sent before that. The DNS lookup may answer from the hosts file in any case; the
version request is sent without the context and the context is looked at after its
answer; the others fail once they are sent with a context that is over. `works` is
what works on the node; it changes while the checks run.

### WorkerJob and the code

`pod` is the one pod there may be (`parallelism` is 1), `succeeded`, `failed` and
`condition` are the status of the Job, `codes` the exit codes left in its ended pods,
and `completions` the configured number, which nothing validates. The variables of
`Worker` belong to the pod that runs. Pods end by the exit of their worker
(`PodEnds`), or are lost before it starts or before its exit is reported
(`PodLost`). `JobDeadlinePasses` is `activeDeadlineSeconds`. `ReadPass` and `ReadFail`
are `GetWorkerJobStatus` followed by the choice of `handleInProgress`: finished by
a condition, passed with `Succeeded > 0` unless the exit code found says otherwise.
`getJobPodExitCode` takes the first ended pod of a list in no order, so `ExitCode` is
any of the codes, or none when the pods are gone or the list fails.

### WorkerPod and the code

A configuration is its taints and additional tolerations; an optional number is a set
of at most one element, an omitted string is `""`. `Validate` is the part of
`ControllerConfig.Validate` about taints, `BuildTolerations` is `buildTolerations` with
its default operator (`WithOperator`). `Accepts`, `Schedules` and `Evicts` are the API
server, the scheduler and the taint manager, external, on tolerations alone. That keys and
values are well formed is taken for granted. The rest of the Job's template is not here:
that the API server may refuse the Job for it is `Refused` in `NodeReconciler`.

### MetricsUpdater and the code

`GetAll` copies the entries under the lock (`held`), but they are pointers: their
`State`, a string of two words, is read afterwards in two steps (`LoadFirstWord`,
`CountEntry`) while handlers assign it. A torn read matches no case of the switch, so
the node is not counted. `SetGauge` sets the four gauges one by one. `seen` records
the states of every node since the copy and is there for the property only. The
reconciler is `NodeLifecycle`, with at most `MaxMoves` changes.

### Backoff and the code

A 64-bit word is the set of its one-bits. A product with a power of two is a shift
that drops bits above 63, bit 63 is the sign. `CalculateBackoff` is
`calculateBackoff` with this arithmetic.

## 3. Runs

| Run | Checks | Shows |
|---|---|---|
| `operators` | `ExactInReverseOrderOnly`, `EveryOperationRemovesOne`, `FollowsSchedule`, `OverflowSkipsPauses`, `WorkerReachesItsNode`, `TolerationsReadAsInPods` | When exactly a patch is right, and how many taints any patch removes; pauses over 70 attempts, twice as far as the overflow, and which of them it skips; that the worker's pod may run on the node, and what an omitted operator changes |
| `safety` | `TypeOK`, `StateMatchesJob`, `NewNodeIsScheduled` | One node through three edits by others, a fault, a restart and an orphan, in every order |
| `lifecycle` | `VerdictsAreEarned`, `LifecycleSpec` | Two incarnations behind a NodeClaim, given up on after two attempts; labels and deletions are earned, those of orphans too; the reconciler implements `NodeLifecycle` |
| `liveness` | `NewNodeGetsJob`, `GoneNodeIsForgotten`, `SuccessReachesNode`, `DeletionEnds` | Come, go and come back, with a restart and any two faults (failed request, lost answer, broken watch, failed pod), such as a failed pod and a failed patch |
| `two_nodes` | `NewNodeGetsJob`, `RefusedJobIsRetried` | Two nodes on one worker, with a lost job and a restart: one whose Job is always refused is retried for ever and does not starve the other |
| `worker` | `JobTypeOK`, `SuccessIsEarned`, `PassIsEarned`, `DisagreementsAreExplained`, `CancelledRunFails`, `JobEnds`, `JobLifecycleSpec` | Every Job of up to two completions and three pods, with every run of the worker in them: signals, deadlines, lost pods, a node that changes while it is checked |
| `metrics` | `UpdaterTypeOK`, `GaugesWithinUpdate`, `GaugesSettle` | Torn reads of two nodes' states, entries that vanish meanwhile, restarts: what a gauge may say and that it settles |

`DisagreementsAreExplained` and `ExactInReverseOrderOnly` also say where the code
falls short: the first lists the only ways in which the verdict and the condition of
a Job differ, the second is an equivalence whose other half are the orders in which
a patch removes a wrong taint. So do `OverflowSkipsPauses`, which lists the attempts that are
retried without a pause, `TolerationsReadAsInPods`, whose exceptions are the tolerations
without an operator, and the exceptions of `SuccessReachesNode`.

Runs that end in a counterexample, each against a sentence of the repository
(quoted in `PROJECT.json`):

| Run | Sentence | What the code does |
|---|---|---|
| `finished_job` | "Wait for job events (no requeue needed)" | Job events never pass the filter: a finished job is read only when the node itself changes |
| `retry` | "Retry" | After the backoff the state is reset and nothing queues the node |
| `reverify` | "Verified label was removed" | A Verified state left in the cache stops every later verification |
| `stale_patch` | "removes specified taints" | Positions from a stale list take another writer's taint |
| `replaced_node` | "Ensures all nodes are verified" | A node is labelled on the job of its predecessor |

The models contain further disagreements that have no run of their own:

* `node_controller.go:492`: the deletion of a job passes the event filter and fails
  the label test, although line 501 announces a reconcile (`JobPredicate`).
* `node_manager.go:50` against `:33` "removes specified taints": two configured
  taints that stand on a node in their configured order are removed by positions that
  the first removal has shifted, so another taint goes or the patch is rejected.
  `values.yaml:97` of the chart invites to configure two (`ExactInReverseOrderOnly`).
* `node_controller.go:224`: with two completions a Job that failed after its first
  success is read as a success when no exit code is found, and with none a complete
  Job as a failure (`DisagreementsAreExplained`).
* `worker_manager.go:248`: the name of a Job adds 29 characters to the node's and may
  have 63. A node whose name is longer than 34 gets no Job, for ever (`Refused`,
  `RefusedJobIsRetried`).
* `worker_manager.go:95`: the default operator is `Exists`, for Kubernetes it is `Equal`. A
  toleration that gives a value and no operator is refused with its Job, although line 100
  has the value "only used with Equal operator"; one without a value tolerates taints
  that it would not as part of a pod (`TolerationsReadAsInPods`).
* `worker_manager.go:477` and `node_controller.go:242`: a success is read, the patch fails,
  and the retry reads the job anew. It may find a pod that failed first, and the node
  counts as failed without having been labelled; or no status any more, and the node is
  verified once more (`JobFailed`, `JobStatusUnknown`; `SuccessReachesNode`).
* `controller_config.go:20`: "nil for no timeout", and `values.yaml:188` "if not
  specified, falls back to timeoutSeconds above": `Validate` refuses a missing
  `activeDeadlineSeconds`. "nil for 6" of the backoff limit in the next line is 2 in
  `CreateWorkerJob`; the chart passes no backoff limit of 0 on, and its `parallelism`
  is read by nothing (assumptions on `BackoffLimit`, `JobInit`).
* `node_state.go:92`: `GetAll` copies pointers, so that the lock does not cover the
  reads of `State` (`LoadFirstWord`, `CountEntry`).
* `node_controller.go:291`: the first attempt counts as one of `maxRetries`, so with 1
  a node is given up on without a retry (`GiveUp`, `DeleteFailed`).
* `worker_manager.go:477`: the first ended pod in the list decides, so a Job that
  succeeded on its second pod may be read as failed (`ExitCodes`).
* `worker_manager.go:248`: names of jobs differ by the second, so after a restart a
  second job runs beside the first (`Restart`, `AddJob`).
* `node_controller.go:360`: from attempt 35 on the product overflows, and the cap lets
  the negative or zero pause through (`OverflowSkipsPauses`).
* `checker/kubernetes.go:39`: the version request takes no context, so neither the
  configured timeout nor a signal ends it (`Limit`, `Tick`).
* `src/cmd/kube-node-ready-worker/main.go:61`: the worker logs "falling back to
  environment variables" when its file is missing, and exits with the code for a
  client error (`ConfigFileMissing`).

Two more come from reading and are outside the models: init containers with
`volumeMounts` are documented (`src/README.md:330`, `values.yaml:172`), but the pod has no
volume except the worker's configuration, so that every Job is refused; and quantities are
not validated (`worker_manager.go:263`): one that cannot be parsed ends the controller
with a panic at the first node.

### Bounds

* `MaxTaints` 1, and 2 in `stale_patch`: the configured taint, and one of another
  writer in both orders. The patch alone is checked for lists of three, which is where
  two removals can shift a third.
* `MaxSeconds` (jobs of a node in a behaviour) 2, and 1 in `liveness` and `two_nodes`: a job
  and its retry. A third creation meets the same states with a higher attempt count.
* `MaxRetries` 2, so that attempts are counted past the first, also those whose status was
  not found, and 1 in `liveness` and `two_nodes`.
* `MaxIncarnations` 2: a name that comes back.
* `MaxChanges`, `MaxJobLosses`, `MaxFaults`, `MaxCrashes` 0 to 3. A failed request, a lost
  answer, a broken watch and a failed pod all count as faults. `safety` and `lifecycle`
  allow one of them beside a restart (and, in `safety`, beside three edits, which it takes to
  have a success read and the label removed again), `liveness` any two beside a restart,
  `two_nodes` none beside a lost job and a restart. Three faults in one behaviour are not
  checked, and edits and lost jobs not together with two faults.
* Worker and Job: two domains (first and later ones are treated apart by the loop), a
  check timeout of 1, a version request that may take 2, a deadline at 3, one break;
  `BackoffLimit` 1 and `MaxCompletions` 2, so that a job fails once and goes on, fails
  for good, reaches some of its completions, all of them, or is asked for none.
* `MaxMoves` 6: enough for a node to be given up on, forgotten and found again, or for
  both to be verified, within one update; two nodes, so that one moves while the
  other is read.
* `two_nodes`: the jobs of one node are refused, the other has a single one.
* Configurations: no taint or one with each effect, no additional toleration or one with
  each combination of its fields, an operator and effects that there are not among them.
  Taints and tolerations are handled one by one, so that longer lists repeat the cases.
* Attempts 0 to 70: the 64 bits of the word have been shifted out by then.

The proofs have no such bounds: the constants are arbitrary there.

Deadlock is not checked. The controller is reactive and stands still when no event
is left and the budgets of the environment are spent; the worker exits; lists and
counts of `ControllerOperators` end at their bounds.

### Fairness

`FairSpec` assumes strong fairness of each node's `Reconcile`: the work queue is
first-in first-out with one worker, so a name on it is not passed over for ever,
although the action is disabled while another call runs. Weak fairness for answers
to requests (they have time limits), informer deliveries, timers and the clock, and
for jobs, which have the `activeDeadlineSeconds` that `Validate` asks for. Nothing is
assumed of faults, restarts, other writers or nodes that leave; faults are finite in
number, as otherwise an API server that refuses every request refutes any progress.
`JobSpec` assumes weak fairness of the answer to the worker's request (each one is
limited by its timeout or by the client library's), of the end of a pod whose worker
has exited, of the Job's deadline, of the end of a pod that is overdue (it is killed
after its grace period, or removed) and of the Job controller that notices. Nothing is
assumed of the scheduler or of a pod within its deadline: `JobEnds` covers pods that
are never scheduled. `MetricsSpec` assumes that the ticker ticks and the goroutine runs
(`WF` of `Update`), and nothing of the reconciler.

## 4. Proofs

| Theorem | Statement |
|---|---|
| `TaintPatchProofs!PatchedTaintsType` | a patch of a list of keys is a list of keys or is rejected |
| `TaintPatchProofs!FreshPatchOfOneTaintIsExact` | with one configured taint and a list that has not changed, a patch takes the first such taint and nothing else |
| `TaintPatchProofs!PatchRemovesAtMostConfigured` | applied to any list, a patch removes at most one taint per configured one |
| `NodeReconcilerProofs!TypeCorrect` | `Spec => []TypeOK` |
| `NodeReconcilerSafety!StatesMatchJobs` | `Spec => []StateMatchesJob` |
| `NodeReconcilerSafety!VerdictsEarned` | `Spec => VerdictsAreEarned` |
| `NodeReconcilerSafety!NewNodesScheduled` | `Spec => []NewNodeIsScheduled` |
| `NodeReconcilerRefinement!ReconcilerImplementsLifecycle` | `Spec => LifecycleSpec` |
| `NodeReconcilerRefinement!JobsFollowLifecycle` | each job of `NodeReconciler` behaves as `JobLifecycle!Spec` |
| `NodeReconcilerRefinement!ReadingsAreAllowed` | what a call makes of a job is what `JobLifecycle!MayRead` allows |
| `WorkerProofs!SuccessEarned` | `Spec => [](WorkerTypeOK /\ SuccessIsEarned)` |
| `WorkerProofs!CancelledRunsNeverSucceed` | a run whose context is over before the TCP check never exits with success |
| `WorkerJobProofs!JobTypeCorrect` | `JobSpec => []JobTypeOK` |
| `WorkerJobProofs!PassesEarned` | `JobSpec => [](SuccessIsEarned /\ PassIsEarned)` |
| `WorkerJobProofs!DisagreementsExplained` | `JobSpec => []DisagreementsAreExplained` |
| `WorkerJobProofs!JobImplementsLifecycle` | `JobSpec => JobLifecycleSpec` |
| `MetricsUpdaterProofs!GaugesAreWithinUpdate` | `MetricsSpec => []GaugesWithinUpdate` |
| `MetricsUpdaterProofs!UpdaterTypeCorrect` | `MetricsSpec => []UpdaterTypeOK` |
| `MetricsUpdaterProofs!UpdaterKeepsLifecycle` | `MetricsSpec => Spec`, that of `NodeLifecycle` |
| `ControllerOperatorsProofs!EveryPatchRemovesOneEach` | `Spec => []EveryOperationRemovesOne` |
| `ControllerOperatorsProofs!PatchesAreExactInReverseOrderOnly` | `Spec => []ExactInReverseOrderOnly` |
| `ControllerOperatorsProofs!PausesFollowSchedule` | `Spec => []FollowsSchedule` |
| `ControllerOperatorsProofs!OverflowsSkipPauses` | `Spec => []OverflowSkipsPauses` |
| `ControllerOperatorsProofs!TolerationsAreReadAsInPods` | `Spec => []TolerationsReadAsInPods` |
| `ControllerOperatorsProofs!WorkersReachTheirNodesAlways` | `Spec => []WorkerReachesItsNode` |

They use the named assumptions of the modules (`MaxRetries` positive as `Validate`
asks, `ConfigTaints` a sequence of keys, the bounds natural numbers; for the worker
at least one domain and positive timeouts; for the Job, limits that are natural numbers;
for the metrics, finitely many nodes; for the operators, configurations whose fields
have the types of the Go structs, `ConfigurationType`) and nothing else. As `MaxLen`,
`MaxAttempts` and `Configurations` are arbitrary there, the theorems about
`ControllerOperators` are about all lists, all counts and all configurations.

*Patches.* `PatchRun` is a recursive function of a position. That it satisfies its own
equation, and what holds of all its values, is proved by taking the least position
where it would fail (`LeastNatural`), in place of an induction theorem. With
`FreshPatchOfOneTaintIsExact` beside the run `stale_patch`, the disagreement is due to
the stale list alone when one taint is configured.

*Several taints.* `EveryOperationRemovesOne` follows configured taint by configured
taint (`Shortened`): each operation shortens the list by one or ends in a rejection. For
`ExactInReverseOrderOnly`, `Trace` remembers where each taint of the patched list came
from: `f` lists the places of those that are left, in rising order, and `q` the place
each operation took. As long as all positions so far are above a place, that place has not
moved, so that in descending order each operation takes the place it names
(`DescendingInRange`, `ExactInReverseOrder`); the rest are in their order because a rising
enumeration of a set is unique (`RisingRank`), which is what the reference `Without` says.
Conversely, an operation never takes a place before the one it names, and takes that one
only if those before it took places behind it. If the result is exact and no key repeats,
the places taken are the positions (`ExactTakesPositions`); an assignment of positions
that moves none of them forward moves none at all (`PositionsTakenAreOwn`, by the
hindmost that it would move), so the positions descend.

*Pauses.* One, five and thirty seconds are 1953125 times as many, nine places up
(`Seconds`, by `Doubling`: twice a number has its bits one place up), and a later attempt moves
the bits of a second further (`ExponentialBits`). Whether a pause exceeds the cap is decided
by its highest bits, so only those are computed. The powers of two come from tables of
written-out ones, as the provers compute no others. After the 34th attempt the bits are those
of the nanoseconds of one second (`UnitBits`), shifted, without the ones that left the word
(`OverflowedBits`). Which bit of a second arrives at bit 63 decides the sign; where it is 0
and a bit above those of thirty seconds is left, the cap applies (`OverflowPassesCap`); from
attempt 56 on none is left.

*Configurations.* A generated toleration is always accepted, an additional one exactly when it
is proper. For `TolerationsReadAsInPods` one toleration is read in both ways (`TwoReadings`):
with an operator they are the same, without one the two tolerate a taint alike unless the
values differ and are accepted alike unless there is a value or no key. `ReadAsInPods` takes this
through the sets of tolerations, of which the generated ones are common to both.

*Type correctness.* `TypeInv` adds to `TypeOK` what its preservation needs, in named
parts per group of variables: the patched list is a list of keys (`PatchedTaintsType`,
from the equation of the recursive function `PatchRun`), and `sec` never passes
`MaxSeconds` because a call enters the creation of a job only below it.

*Safety.* `StateMatchesJob` is not inductive: it says nothing of what the informer
shows, yet the reconciler acts on that. `SafetyInv` adds

* `JobsInv`: each status in the Job informer is one the job has been in (`Lags`), no
  job exists beyond `sec`;
* `EntriesMatch`: each entry of the state cache goes with the jobs of its node;
* `CallInv`: while a request waits, the state that called for it stands;
* `OrphansEarned`: a request whose sender has ended was called for by a job that is
  still on record.

Statuses of jobs only move forward (`JobsAdvance`, for every step), and what the
invariant asks of a job is stable under that; so steps of the environment preserve it
at once, and what is left are the actions that write `cache` or `step`. The action
property follows because only an answered patch adds a label and only an answered
deletion by the controller removes a node in that step.

*Scheduling.* `NewNodeIsScheduled` is inductive together with the types: an entry
disappears only for a node that is gone, labelled or lost with the process, and the
predicate queues the node when it needs verification again.

*Refinement.* The state and attempts are those of the cache, the verdicts what the
jobs may be read as. Each action maps to a move of `NodeLifecycle` or to a stutter;
`CallInv` provides the guards of the moves made after an answer. A single job, before its
creation `pending` and after its deletion as it was, changes only by its creation, which
maps to a stutter because no job exists beyond `sec`, and by the Job controller, whose
actions are those of `JobLifecycle` one by one. That the status in the informer `Lags`
behind the job, and that a finished status is final, makes every reading an allowed one.

*Worker.* `WorkerInv` adds that everything answered so far has worked, where the
answered requests are those before the current one, and that only a run with a client
reaches the requests that need one. A cancelled run is `Doomed`: its later requests are not
live, the answer of the API is not accepted, and the context stays over. Its other half,
that the run ends, is liveness.

*Jobs.* `JobInv` joins the worker's invariant, which every pod starts anew from, with
`StatusInv`: a condition stands only where the counts or the deadline allow it, a
verdict only where a condition stands, and a pod that succeeded was earned. Once there
is a condition no pod runs and no count changes, so that what was read stays true. The
refinement maps the condition and counts to a phase; reads map to `Read`, everything
the worker does to a stutter.

*Gauges.* `UpdaterInv` says for every point of an update what the counts are between:
at least the entries read whose node has had one kind since the copy, at most
those that have had the kind at some time. As `seen` only grows, the lower bound
falls and the upper one rises (`BoundsWiden`); counting an entry raises both by at
most one (`BoundsWithOneMore`), which needs the cardinalities of finite sets. A gauge
that is set is the count, and the published gauges are all of one update. The type
invariant adds that the four counts together are at most the entries read.

Only model-checked: the liveness properties `NewNodeGetsJob`, `RefusedJobIsRetried`,
`DeletionEnds`, `GoneNodeIsForgotten`, `SuccessReachesNode`, `CancelledRunFails`, `JobEnds`
and `GaugesSettle`, as fairness and `ENABLED` are beyond the prover; and the runs that show
a disagreement. Every invariant, action property and refinement that a passing run checks
is also a theorem.

## 5. Not modelled

* `RunWithRetry`, `DeleteWorkerJob`, `FindWorkerJobForNode`, `GetJobUID`, `List`,
  `CountByState`: called by no code of the repository outside tests.
* The protocol of the lease, which belongs to client-go. A process that loses its lease
  exits, and gives it up when it ends (`LeaderElectionReleaseOnCancel`); what overlaps
  with the next leader is a request under way, an orphan.
* The periodic resync of the informers: its update events carry the same object twice,
  which both predicates reject.
* Parsing of configuration, detection of the namespace, construction of clients,
  metrics definitions, HTTP server, chart: no state that control depends on.
* Of the Job's template, all but limits, name, labels and tolerations: environment, images
  and pull policy, resources, security contexts, init containers. They can have two effects
  that the models do contain: a pod that never starts or is lost (`PodLost`,
  `JobDeadlinePasses`), and a Job that the API server refuses, as for requests above limits,
  an unknown pull policy, a contradictory security context or an init container without a
  name, none of which `Validate` looks at (`Refused`, `RefusedJobIsRetried`). Which
  configurations lead to which is not modelled. An amount that `resource.MustParse` does not
  accept ends the process each time a node needs a job.
* What the cluster adds to a pod by itself, such as tolerations of `not-ready` and
  `unreachable` with `NoExecute` for some minutes.
* An event of a Job that was deleted while its node waits (`node_controller.go:492`) is in
  the model (`JobPredicate`), without a run of its own.

## 6. Plan

Written so far: `TaintPatch`, `NodeLifecycle`, `NodeReconciler` with deletion request by
request and orphans, `Worker`, `WorkerJob` with `JobLifecycle`, `MetricsUpdater`,
`Backoff`, `WorkerPod`, their runs, and proofs of all safety properties and of the joints
between the modules. What is left:

1. Proofs: the steps of the liveness arguments that are safety properties, such as what
   keeps `Reconcile` of a queued node enabled until the worker takes it; exactness of a
   patch on nodes whose taints repeat.
2. `NodeReconciler` with the pods of `WorkerJob` in the place of its jobs, on one node and one
   job, to run the join of the two besides proving it.
3. When the code changes: the claims of `ReconcilerClaims` become invariants of the
   passing runs as the disagreements are settled.
