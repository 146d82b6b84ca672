------------------------ MODULE NodeReconcilerProofs ------------------------
(***************************************************************************)
(* Theorems about NodeReconciler, for all values of its constants.         *)
(***************************************************************************)
EXTENDS NodeReconciler, TaintPatchProofs

(* The type invariant in parts.  Two facts are added to TypeOK to make it  *)
(* inductive: in the middle of a call that creates a job its second is     *)
(* still within the bound, and the uids given out so far are counted.      *)
ClusterOK ==
  /\ node \in [Nodes -> NodeType]
  /\ nodeCache \in [Nodes -> NodeType]
  /\ feed \in [Nodes -> Seq(NodeType)]

JobsOK ==
  /\ jobs \in [Nodes -> [Seconds -> JobType]]
  /\ jobCache \in [Nodes -> [Seconds -> Phases]]

TimeOK ==
  /\ sec \in [Nodes -> 0 .. MaxSeconds]
  /\ age \in [Nodes -> {"fresh", "cooling", "cooled"}]

CacheOK ==
  /\ cache \in [Nodes -> NodeState]
  /\ \A n \in Nodes : cache[n].job <= sec[n]

QueueOK == queue \subseteq Nodes /\ delayed \subseteq Nodes

CallOK ==
  /\ step \in [Nodes -> Steps]
  /\ snapshot \in [Nodes -> Seq(TaintKeys)]
  /\ orphans \subseteq RequestType
  /\ \A n \in Nodes : step[n] = "create" => sec[n] < MaxSeconds

LeftOK ==
  /\ left \in [incarnations: Nat, changes: Nat, losses: Nat, faults: Nat,
               crashes: Nat]
  /\ left.incarnations <= MaxIncarnations

TypeInv ==
  ClusterOK /\ JobsOK /\ TimeOK /\ CacheOK /\ QueueOK /\ CallOK /\ LeftOK

Budgets == {"incarnations", "changes", "losses", "faults", "crashes"}

(* What is left stays a record of naturals.                                *)
LEMMA SpendType ==
  ASSUME LeftOK, NEW what \in Budgets, Spend(what)
  PROVE  LeftOK'
<1>1. CASE what = "incarnations"
  BY <1>1, BoundsAssumption DEF LeftOK, Spend
<1>2. CASE what = "changes"
  BY <1>2 DEF LeftOK, Spend
<1>3. CASE what = "losses"
  BY <1>3 DEF LeftOK, Spend
<1>4. CASE what = "faults"
  BY <1>4 DEF LeftOK, Spend
<1>5. CASE what = "crashes"
  BY <1>5 DEF LeftOK, Spend
<1> QED BY <1>1, <1>2, <1>3, <1>4, <1>5 DEF Budgets

(* A write of one entry keeps the type of the state cache.                 *)
LEMMA SetStateType ==
  ASSUME CacheOK, NEW n \in Nodes, NEW entry \in NodeState, entry.job <= sec'[n],
         SetState(n, entry), sec \in [Nodes -> Nat], sec' \in [Nodes -> Nat],
         \A m \in Nodes : sec[m] <= sec'[m]
  PROVE  CacheOK'
<1>1. cache' \in [Nodes -> NodeState]
  BY DEF CacheOK, SetState
<1>2. ASSUME NEW m \in Nodes PROVE cache'[m].job <= sec'[m]
  <2>1. CASE m = n
    BY <2>1 DEF CacheOK, SetState
  <2>2. CASE m # n
    <3>1. cache'[m] = cache[m] /\ cache[m].job \in Nat
      BY <2>2 DEF CacheOK, SetState, NodeState
    <3> QED BY <3>1 DEF CacheOK
  <2> QED BY <2>1, <2>2
<1> QED BY <1>1, <1>2 DEF CacheOK

(* A move of a node to another state keeps the type of the cache.          *)
LEMMA MoveType ==
  ASSUME CacheOK, TimeOK, NEW n \in Nodes, NEW state \in States,
         SetState(n, [cache[n] EXCEPT !.state = state]), UNCHANGED sec
  PROVE  CacheOK'
<1> DEFINE entry == [cache[n] EXCEPT !.state = state]
<1>1. entry \in NodeState /\ entry.job = cache[n].job
  BY DEF CacheOK, NodeState
<1>2. entry.job <= sec'[n]
  BY <1>1 DEF CacheOK
<1>3. SetState(n, entry)
  OBVIOUS
<1> HIDE DEF entry
<1> QED BY <1>1, <1>2, <1>3, SetStateType DEF TimeOK

(* A call keeps a list of keys as its snapshot.                            *)
LEMMA CallType ==
  ASSUME ClusterOK, CallOK, NEW n \in Nodes, NEW what \in Steps,
         Call(n, what), what = "create" => sec[n] < MaxSeconds, UNCHANGED sec
  PROVE  CallOK'
BY DEF ClusterOK, CallOK, Call, NodeType

(* An answered call is idle again.                                         *)
LEMMA AnswerType ==
  ASSUME CallOK, NEW n \in Nodes, NEW what, Answer(n, what),
         \A m \in Nodes \ {n} : sec'[m] = sec[m]
  PROVE  CallOK'
BY DEF CallOK, Answer, Steps

(* A stored object extends the node's feed by a typed version.             *)
LEMMA StoreType ==
  ASSUME ClusterOK, NEW n \in Nodes, NEW obj \in NodeType, Store(n, obj),
         UNCHANGED nodeCache
  PROVE  ClusterOK'
BY DEF ClusterOK, Store

-----------------------------------------------------------------------------
(* Reconcile, up to its first request.                                     *)

(* What no branch of Reconcile changes.                                    *)
LEMMA ReconcileFrame ==
  ASSUME NEW n \in Nodes, Reconcile(n)
  PROVE  /\ Dequeue(n)
         /\ UNCHANGED <<node, jobs, feed, nodeCache, jobCache, orphans, age, sec>>
         /\ delayed' = delayed \/ Requeue(n)
BY DEF Reconcile, ReconcileDeleted, ReconcileGetFails, ReconcileAlreadyVerified,
       ReconcileNoTaint, HandleUnverified, JobStatusUnknown, JobUnfinished,
       JobSucceeded, JobFailed, BackOff, Retry, GiveUp, DeleteFailed,
       NothingToHandle, Dispatch, Monitor, Call, call, cluster, informers, time

(* Reconcile, up to its request, keeps the types.                          *)
LEMMA ReconcileType ==
  ASSUME TypeInv, NEW n \in Nodes, Reconcile(n)
  PROVE  TypeInv'
<1> USE DEF TypeInv
<1> DEFINE Kept(entry) == entry \in NodeState /\ entry.job <= sec[n]
<1>1. Dequeue(n) /\ UNCHANGED <<node, jobs, feed, nodeCache, jobCache, age, sec>>
  BY ReconcileFrame
<1>2. ClusterOK' /\ JobsOK' /\ TimeOK'
  BY <1>1 DEF ClusterOK, JobsOK, TimeOK
<1>3. QueueOK'
  BY ReconcileFrame DEF QueueOK, Dequeue, Requeue
<1>4. UNCHANGED call => CallOK'
  BY <1>1 DEF CallOK, call
<1>5. UNCHANGED left => LeftOK'
  BY DEF LeftOK
<1>6. UNCHANGED cache => CacheOK'
  BY <1>1 DEF CacheOK
<1>7. ASSUME NEW entry, Kept(entry), SetState(n, entry) PROVE CacheOK'
  BY <1>1, <1>7, SetStateType DEF TimeOK
<1>8. Kept(cache[n]) /\ Kept(NoState) /\ Kept(CurrentState(n))
  BY DEF CacheOK, TimeOK, NodeState, NoState, CurrentState, States
<1>9. ASSUME NEW state \in States
      PROVE  /\ Kept([cache[n] EXCEPT !.state = state])
             /\ Kept([cache[n] EXCEPT !.state = state, !.job = 0])
  <2>1. cache[n] \in NodeState /\ cache[n].job <= sec[n] /\ 0 <= sec[n]
    BY <1>8 DEF TimeOK
  <2> QED BY <2>1 DEF NodeState
<1> HIDE DEF Kept
<1> USE <1>2, <1>3
<1>10. CASE ReconcileDeleted(n) \/ ReconcileAlreadyVerified(n)
  BY <1>4, <1>5, <1>7, <1>8, <1>10
  DEF ReconcileDeleted, ReconcileAlreadyVerified
<1>11. CASE ReconcileGetFails(n)
  BY <1>4, <1>6, <1>11, SpendType DEF ReconcileGetFails, Budgets
<1>12. CASE ReconcileNoTaint(n) \/ BackOff(n) \/ GiveUp(n) \/ NothingToHandle(n)
  BY <1>4, <1>5, <1>6, <1>12
  DEF ReconcileNoTaint, BackOff, GiveUp, NothingToHandle
<1>13. CASE HandleUnverified(n)
  <2>1. CallOK'
    BY <1>1, <1>13, CallType DEF HandleUnverified, Steps
  <2> QED BY <1>5, <1>7, <1>8, <1>13, <2>1 DEF HandleUnverified
<1>14. CASE JobStatusUnknown(n)
  <2>1. CacheOK'
    BY <1>7, <1>9, <1>14 DEF JobStatusUnknown, States
  <2>2. LeftOK'
    BY <1>5, <1>14, SpendType DEF JobStatusUnknown, Budgets
  <2> QED BY <1>4, <1>14, <2>1, <2>2 DEF JobStatusUnknown
<1>15. CASE JobUnfinished(n)
  <2>1. CacheOK'
    BY <1>7, <1>8, <1>9, <1>15 DEF JobUnfinished, States
  <2> QED BY <1>4, <1>5, <1>15, <2>1 DEF JobUnfinished
<1>16. CASE JobSucceeded(n) \/ DeleteFailed(n)
  <2>1. CallOK'
    BY <1>1, <1>16, CallType DEF JobSucceeded, DeleteFailed, Steps, Deletion
  <2> QED BY <1>5, <1>6, <1>16, <2>1 DEF JobSucceeded, DeleteFailed
<1>17. CASE JobFailed(n) \/ Retry(n)
  <2>1. CacheOK'
    BY <1>7, <1>9, <1>17 DEF JobFailed, Retry, States
  <2> QED BY <1>4, <1>5, <1>17, <2>1 DEF JobFailed, Retry
<1> QED BY <1>10, <1>11, <1>12, <1>13, <1>14, <1>15, <1>16, <1>17 DEF Reconcile

-----------------------------------------------------------------------------
(* The requests.                                                           *)

(* A job is added within the seconds of the instance.                      *)
LEMMA StoreJobType ==
  ASSUME TypeInv, NEW n \in Nodes, sec[n] < MaxSeconds, StoreJob(n)
  PROVE  /\ sec' \in [Nodes -> 0 .. MaxSeconds]
         /\ jobs' \in [Nodes -> [Seconds -> JobType]]
         /\ sec'[n] = sec[n] + 1
         /\ \A m \in Nodes \ {n} : sec'[m] = sec[m]
         /\ \A m \in Nodes : sec[m] <= sec'[m]
<1>1. sec[n] \in Nat /\ sec[n] + 1 \in Seconds
  BY BoundsAssumption DEF TypeInv, TimeOK, Seconds
<1>2. [NoJob EXCEPT !.phase = "pending", !.live = TRUE] \in JobType
  BY DEF NoJob, JobType, Phases
<1>3. jobs' \in [Nodes -> [Seconds -> JobType]]
  BY <1>1, <1>2 DEF TypeInv, JobsOK, StoreJob
<1>4. sec' \in [Nodes -> 0 .. MaxSeconds]
  BY <1>1 DEF TypeInv, TimeOK, StoreJob, Seconds
<1> QED BY <1>1, <1>3, <1>4 DEF TypeInv, TimeOK, StoreJob

(* So is the job of a call.                                                *)
LEMMA AddJobType ==
  ASSUME TypeInv, NEW n \in Nodes, step[n] = "create", AddJob(n)
  PROVE  /\ TimeOK' /\ jobs' \in [Nodes -> [Seconds -> JobType]]
         /\ sec'[n] = sec[n] + 1
         /\ \A m \in Nodes \ {n} : sec'[m] = sec[m]
         /\ \A m \in Nodes : sec[m] <= sec'[m]
<1>1. StoreJob(n) /\ sec[n] < MaxSeconds
  BY DEF AddJob, TypeInv, CallOK
<1>2. age' \in [Nodes -> {"fresh", "cooling", "cooled"}]
  BY DEF AddJob, TypeInv, TimeOK
<1> QED BY <1>1, <1>2, StoreJobType DEF TimeOK

(* The recorded job is of a second that has been used.                     *)
LEMMA RecordJobType ==
  ASSUME TypeInv, NEW n \in Nodes, NEW k \in Nat, k <= sec'[n], RecordJob(n, k),
         TimeOK', \A m \in Nodes : sec[m] <= sec'[m]
  PROVE  CacheOK'
<1> DEFINE entry == [state |-> "pending", job |-> k, attempts |-> cache[n].attempts + 1]
<1>1. entry \in NodeState
  BY DEF TypeInv, CacheOK, NodeState, States
<1>2. SetState(n, entry)
  BY DEF RecordJob
<1>3. sec \in [Nodes -> Nat] /\ sec' \in [Nodes -> Nat]
  BY DEF TypeInv, TimeOK
<1> HIDE DEF entry
<1>4. entry.job = k
  BY DEF entry
<1> QED BY <1>1, <1>2, <1>3, <1>4, SetStateType DEF TypeInv

(* The answers to a creation keep the types.                               *)
LEMMA CreateWorkerJobType ==
  ASSUME TypeInv, NEW n \in Nodes, CreateWorkerJob(n)
  PROVE  TypeInv'
<1> USE DEF TypeInv
<1>1. /\ Answer(n, "create")
      /\ UNCHANGED <<node, feed, queue, nodeCache, jobCache>>
      /\ delayed' = delayed \/ Requeue(n)
  BY DEF CreateWorkerJob, JobCreated, JobCreatedAnswerLost, JobNotCreated,
         JobAlreadyExists, Answer, AnswerError, AddJob, StoreJob, cluster
<1>2. ClusterOK' /\ QueueOK'
  BY <1>1 DEF ClusterOK, QueueOK, Requeue
<1>3. UNCHANGED <<jobs, time>> => JobsOK' /\ TimeOK' /\ CallOK'
  BY <1>1, AnswerType DEF JobsOK, TimeOK, time
<1>4. AddJob(n) => JobsOK' /\ TimeOK' /\ CallOK'
  BY <1>1, AddJobType, AnswerType DEF JobsOK, Answer
<1>5. UNCHANGED <<cache, time>> => CacheOK'
  BY DEF CacheOK, time
<1>6. AddJob(n) /\ UNCHANGED cache => CacheOK'
  <2> SUFFICES ASSUME AddJob(n), UNCHANGED cache PROVE CacheOK'
    OBVIOUS
  <2>1. \A m \in Nodes : sec[m] <= sec'[m] /\ sec[m] \in Nat /\ sec'[m] \in Nat
    BY <1>1, AddJobType DEF Answer, TimeOK
  <2>2. \A m \in Nodes : cache[m].job \in Nat
    BY DEF CacheOK, NodeState
  <2> QED BY <2>1, <2>2 DEF CacheOK
<1>7. UNCHANGED left \/ Spend("faults") => LeftOK'
  BY SpendType DEF LeftOK, Budgets
<1> USE <1>2
<1>8. CASE JobCreated(n)
  <2>1. CacheOK'
    <3>1. sec[n] + 1 \in Nat /\ sec'[n] = sec[n] + 1
      BY <1>1, <1>8, AddJobType DEF JobCreated, TimeOK, Answer
    <3> QED BY <1>1, <1>8, <3>1, AddJobType, RecordJobType DEF JobCreated, Answer
  <2> QED BY <1>4, <1>7, <1>8, <2>1 DEF JobCreated
<1>9. CASE JobCreatedAnswerLost(n)
  BY <1>4, <1>6, <1>7, <1>9 DEF JobCreatedAnswerLost, AnswerError
<1>10. CASE JobNotCreated(n)
  BY <1>3, <1>5, <1>7, <1>10 DEF JobNotCreated, Fails, AnswerError, cluster
<1>11. CASE JobAlreadyExists(n)
  <2>1. CASE RecordJob(n, sec[n])
    <3>1. TimeOK' /\ sec' = sec
      BY <1>3, <1>11 DEF JobAlreadyExists, cluster, time
    <3>2. CacheOK'
      BY <2>1, <3>1, RecordJobType DEF TimeOK
    <3> QED BY <1>3, <1>7, <1>11, <3>2 DEF JobAlreadyExists, cluster
  <2>2. CASE AnswerError(n, "create")
    BY <1>3, <1>5, <1>7, <1>11, <2>2 DEF JobAlreadyExists, AnswerError, cluster
  <2> QED BY <1>11, <2>1, <2>2 DEF JobAlreadyExists
<1> QED BY <1>8, <1>9, <1>10, <1>11 DEF CreateWorkerJob

(* A patched node is a node.                                               *)
LEMMA PatchAppliesType ==
  ASSUME TypeInv, NEW n \in Nodes, NEW held \in Seq(TaintKeys), PatchApplies(n, held),
         UNCHANGED nodeCache
  PROVE  ClusterOK'
<1>1. node[n] \in NodeType /\ node[n].taints \in Seq(TaintKeys)
  BY DEF TypeInv, ClusterOK, NodeType
<1>2. PICK list \in PatchedTaints(node[n].taints, held, ConfigTaints) :
        Store(n, [node[n] EXCEPT !.taints = list, !.labeled = TRUE])
  BY DEF PatchApplies
<1>3. list \in Seq(TaintKeys)
  <2>1. Len(ConfigTaints) \in Nat
    BY TaintsAssumption
  <2> QED BY <1>1, <1>2, <2>1, PatchedTaintsType
<1>4. [node[n] EXCEPT !.taints = list, !.labeled = TRUE] \in NodeType
  BY <1>1, <1>3 DEF NodeType
<1> QED BY <1>2, <1>4, StoreType DEF TypeInv

(* The answers to a patch keep the types.                                  *)
LEMMA UpdateNodeMetadataType ==
  ASSUME TypeInv, NEW n \in Nodes, UpdateNodeMetadata(n)
  PROVE  TypeInv'
<1> USE DEF TypeInv
<1>1. /\ Answer(n, "patch")
      /\ UNCHANGED <<jobs, queue, nodeCache, jobCache, age, sec>>
      /\ delayed' = delayed \/ Requeue(n)
      /\ PatchApplies(n, snapshot[n]) \/ UNCHANGED <<node, feed>>
      /\ UNCHANGED left \/ Spend("faults")
      /\ UNCHANGED cache \/ SetState(n, [cache[n] EXCEPT !.state = "verified"])
  BY DEF UpdateNodeMetadata, NodePatched, NodePatchedAnswerLost, NodeNotPatched,
         Answer, AnswerError, PatchApplies, cluster, time
<1>2. ClusterOK'
  BY <1>1, PatchAppliesType DEF ClusterOK, CallOK
<1>3. JobsOK' /\ TimeOK' /\ QueueOK'
  BY <1>1 DEF JobsOK, TimeOK, QueueOK, Requeue
<1>4. CallOK'
  BY <1>1, AnswerType
<1>5. LeftOK'
  BY <1>1, SpendType DEF LeftOK, Budgets
<1>6. CacheOK'
  <2>1. CASE UNCHANGED cache
    BY <1>1, <2>1 DEF CacheOK
  <2>2. CASE SetState(n, [cache[n] EXCEPT !.state = "verified"])
    BY <1>1, <2>2, MoveType DEF States
  <2> QED BY <1>1, <2>1, <2>2
<1> QED BY <1>2, <1>3, <1>4, <1>5, <1>6

(* The missing node is typed.                                              *)
LEMMA NoNodeType == NoNode \in NodeType
BY DEF NoNode, NodeType

(* The steps of a deletion that only lead to the next one.                 *)
Proceeds(n) ==
  \E from \in Deletion, to \in Deletion : Proceed(n, from, to)

(* The answer that ends it.                                                *)
DeletionAnswered(n) ==
  ClaimDeleted(n) \/ NodeDeletedDirectly(n) \/ NodeDeletedAnswerLost(n) \/ NodeNotDeleted(n)

(* A deletion goes on or is answered.                                      *)
LEMMA DeleteNodeCases ==
  ASSUME NEW n \in Nodes, DeleteNode(n)
  PROVE  Proceeds(n) \/ DeletionAnswered(n)
BY DEF DeleteNode, Proceeds, DeletionAnswered, ClaimFound, ClaimNotFound,
       ClaimNotDeleted, Deletion

(* A deletion that goes on keeps the types.                                *)
LEMMA ProceedsType ==
  ASSUME TypeInv, NEW n \in Nodes, Proceeds(n)
  PROVE  TypeInv'
<1> USE DEF TypeInv
<1>1. PICK from \in Deletion, to \in Deletion : Proceed(n, from, to)
  BY DEF Proceeds
<1>2. UNCHANGED <<node, jobs, feed, nodeCache, jobCache, cache, queue, delayed,
                  snapshot, orphans, age, sec, left>>
  BY <1>1 DEF Proceed, cluster, informers, time
<1>3. CallOK'
  BY <1>1, <1>2 DEF CallOK, Proceed, Steps, Deletion
<1> QED BY <1>2, <1>3 DEF ClusterOK, JobsOK, TimeOK, CacheOK, QueueOK, LeftOK

(* The answers to a deletion keep the types.                               *)
LEMMA DeletionAnsweredType ==
  ASSUME TypeInv, NEW n \in Nodes, DeletionAnswered(n)
  PROVE  TypeInv'
<1> USE DEF TypeInv
<1>1. /\ \E what \in Deletion : Answer(n, what)
      /\ UNCHANGED <<jobs, queue, nodeCache, jobCache, age, sec>>
      /\ delayed' = delayed \/ Requeue(n)
      /\ Store(n, NoNode) \/ UNCHANGED <<node, feed>>
      /\ UNCHANGED left \/ Spend("faults")
      /\ UNCHANGED cache \/ SetState(n, [cache[n] EXCEPT !.state = "deleting"])
  BY DEF DeletionAnswered, ClaimDeleted, NodeDeletedDirectly, NodeDeletedAnswerLost,
         NodeNotDeleted, Answer, AnswerError, Deletion, cluster, time
<1>2. ClusterOK'
  BY <1>1, NoNodeType, StoreType DEF ClusterOK
<1>3. JobsOK' /\ TimeOK' /\ QueueOK'
  BY <1>1 DEF JobsOK, TimeOK, QueueOK, Requeue
<1>4. CallOK'
  BY <1>1, AnswerType
<1>5. LeftOK'
  BY <1>1, SpendType DEF LeftOK, Budgets
<1>6. CacheOK'
  <2>1. CASE UNCHANGED cache
    BY <1>1, <2>1 DEF CacheOK
  <2>2. CASE SetState(n, [cache[n] EXCEPT !.state = "deleting"])
    BY <1>1, <2>2, MoveType DEF States
  <2> QED BY <1>1, <2>1, <2>2
<1> QED BY <1>2, <1>3, <1>4, <1>5, <1>6

(* Every step of a deletion keeps the types.                               *)
LEMMA DeleteNodeType ==
  ASSUME TypeInv, NEW n \in Nodes, DeleteNode(n)
  PROVE  TypeInv'
BY DeleteNodeCases, ProceedsType, DeletionAnsweredType

-----------------------------------------------------------------------------
(* Informers, timers, restarts.                                            *)

(* What a reader finds of a job is a phase.                                *)
LEMMA VisibleType == \A job \in JobType : Visible(job) \in Phases
BY DEF Visible, JobType, Phases

(* Deliveries, relists and timers keep the types.                          *)
LEMMA InformerType ==
  ASSUME TypeInv, NEW n \in Nodes,
         SyncNode(n) \/ Relist(n) \/ TimerFires(n) \/ \E k \in Seconds : SyncJob(n, k)
  PROVE  TypeInv'
<1> USE DEF TypeInv
<1>1. UNCHANGED <<node, jobs, cache, step, snapshot, orphans, age, sec>>
  BY DEF SyncNode, Relist, TimerFires, SyncJob, cluster, call, time
<1>2. TimeOK' /\ CacheOK' /\ CallOK'
  BY <1>1 DEF TimeOK, CacheOK, CallOK
<1>3. UNCHANGED <<feed, nodeCache>> => ClusterOK'
  BY <1>1 DEF ClusterOK
<1>4. UNCHANGED jobCache => JobsOK'
  BY <1>1 DEF JobsOK
<1>5. UNCHANGED left => LeftOK'
  BY DEF LeftOK
<1> USE <1>2
<1>6. CASE SyncNode(n)
  <2>1. feed[n] \in Seq(NodeType) /\ feed[n] # <<>>
    BY <1>6 DEF ClusterOK, SyncNode
  <2>2. Head(feed[n]) \in NodeType /\ Tail(feed[n]) \in Seq(NodeType)
    BY <2>1
  <2>3. ClusterOK'
    BY <1>1, <1>6, <2>2 DEF ClusterOK, SyncNode
  <2>4. QueueOK'
    BY <1>6 DEF QueueOK, SyncNode, Notify, Requeue
  <2> QED BY <1>4, <1>5, <1>6, <2>3, <2>4 DEF SyncNode
<1>7. CASE Relist(n)
  <2>1. <<node[n]>> \in Seq(NodeType)
    BY DEF ClusterOK
  <2>2. ClusterOK'
    BY <1>1, <1>7, <2>1 DEF ClusterOK, Relist
  <2>3. LeftOK' /\ QueueOK'
    BY <1>7, SpendType DEF Relist, Budgets, QueueOK
  <2> QED BY <1>4, <1>7, <2>2, <2>3 DEF Relist
<1>8. CASE TimerFires(n)
  <2>1. QueueOK'
    BY <1>8 DEF QueueOK, TimerFires
  <2> QED BY <1>3, <1>4, <1>5, <1>8, <2>1 DEF TimerFires, informers
<1>9. ASSUME NEW k \in Seconds, SyncJob(n, k) PROVE TypeInv'
  <2>1. Visible(jobs[n][k]) \in Phases
    BY VisibleType DEF JobsOK
  <2>2. JobsOK'
    BY <1>1, <1>9, <2>1 DEF JobsOK, SyncJob
  <2>3. QueueOK'
    BY <1>9 DEF QueueOK, SyncJob, JobRequests
  <2> QED BY <1>3, <1>5, <1>9, <2>2, <2>3 DEF SyncJob
<1> QED BY <1>6, <1>7, <1>8, <1>9

(* A new process starts with typed memory.                                 *)
LEMMA RestartType ==
  ASSUME TypeInv, Restart
  PROVE  TypeInv'
<1> USE DEF TypeInv
<1>1. ClusterOK'
  BY DEF ClusterOK, Restart, cluster
<1>2. JobsOK'
  BY VisibleType DEF JobsOK, Restart, cluster
<1>3. TimeOK' /\ QueueOK'
  BY DEF TimeOK, QueueOK, Restart, time
<1>4. CacheOK'
  BY DEF CacheOK, TimeOK, Restart, time, NoState, NodeState, States
<1>5. InFlight \subseteq RequestType
  BY DEF CallOK, InFlight, RequestType
<1>6. CallOK'
  BY <1>5 DEF CallOK, Restart, Steps
<1>7. LeftOK'
  BY SpendType DEF Restart, Budgets
<1> QED BY <1>1, <1>2, <1>3, <1>4, <1>6, <1>7

(* What a late request does to the cluster.                                *)
LEMMA OrphanCases ==
  ASSUME TypeInv, NEW r \in orphans, OrphanLands(r)
  PROVE  /\ r \in RequestType /\ r.node \in Nodes /\ r.taints \in Seq(TaintKeys)
         /\ orphans' = orphans \ {r}
         /\ UNCHANGED <<nodeCache, jobCache, cache, queue, delayed, step, snapshot,
                        age, left>>
         /\ \/ /\ StoreJob(r.node) /\ r.what = "create"
               /\ step[r.node] # "create" /\ sec[r.node] < MaxSeconds
            \/ /\ PatchApplies(r.node, r.taints) /\ r.what = "patch"
               /\ UNCHANGED <<jobs, sec>>
            \/ /\ Store(r.node, NoNode) /\ r.what = "delete"
               /\ UNCHANGED <<jobs, sec>>
<1>1. r \in RequestType
  BY DEF TypeInv, CallOK
<1>2. r.node \in Nodes /\ r.taints \in Seq(TaintKeys)
  BY <1>1 DEF RequestType
<1> QED BY <1>1, <1>2 DEF OrphanLands, time, PatchApplies

(* A late request keeps the types.                                         *)
LEMMA OrphanLandsType ==
  ASSUME TypeInv, NEW r \in orphans, OrphanLands(r)
  PROVE  TypeInv'
<1> USE DEF TypeInv
<1> DEFINE n == r.node
<1>1. n \in Nodes /\ r.taints \in Seq(TaintKeys)
  BY OrphanCases
<1>2. UNCHANGED <<nodeCache, jobCache, cache, queue, delayed, step, snapshot, age, left>>
  BY OrphanCases
<1>3. orphans' \subseteq RequestType
  BY OrphanCases DEF CallOK
<1>4. QueueOK' /\ LeftOK'
  BY <1>2 DEF QueueOK, LeftOK
<1>5. UNCHANGED <<jobs, sec>> => JobsOK' /\ TimeOK' /\ CacheOK' /\ CallOK'
  BY <1>2, <1>3 DEF JobsOK, TimeOK, CacheOK, CallOK
<1> HIDE DEF n
<1>6. CASE StoreJob(n) /\ step[n] # "create" /\ sec[n] < MaxSeconds
  <2>1. /\ sec' \in [Nodes -> 0 .. MaxSeconds]
        /\ jobs' \in [Nodes -> [Seconds -> JobType]]
        /\ \A m \in Nodes \ {n} : sec'[m] = sec[m]
        /\ \A m \in Nodes : sec[m] <= sec'[m]
    BY <1>1, <1>6, StoreJobType
  <2>2. ClusterOK'
    BY <1>2, <1>6 DEF ClusterOK, StoreJob
  <2>3. JobsOK' /\ TimeOK'
    BY <1>2, <2>1 DEF JobsOK, TimeOK
  <2>4. CallOK'
    BY <1>2, <1>3, <1>6, <2>1 DEF CallOK
  <2>5. CacheOK'
    <3>1. \A m \in Nodes : cache[m].job \in Nat /\ sec[m] \in Nat /\ sec'[m] \in Nat
      BY <2>1 DEF CacheOK, NodeState, TimeOK
    <3> QED BY <1>2, <2>1, <3>1 DEF CacheOK
  <2> QED BY <1>4, <2>2, <2>3, <2>4, <2>5
<1>7. CASE PatchApplies(n, r.taints) /\ UNCHANGED <<jobs, sec>>
  <2>1. ClusterOK'
    BY <1>1, <1>2, <1>7, PatchAppliesType
  <2> QED BY <1>4, <1>5, <1>7, <2>1
<1>8. CASE Store(n, NoNode) /\ UNCHANGED <<jobs, sec>>
  <2>1. ClusterOK'
    BY <1>1, <1>2, <1>8, NoNodeType, StoreType
  <2> QED BY <1>4, <1>5, <1>8, <2>1
<1> QED BY <1>6, <1>7, <1>8, OrphanCases DEF n

-----------------------------------------------------------------------------
(* The environment.                                                        *)

NodeChanges(n) ==
  RegisterNode(n) \/ NodeGone(n) \/ AddTaint(n) \/ RemoveTaint(n) \/ RemoveLabel(n)

(* An edit of taints stores a node.                                        *)
LEMMA ChangeTaintsStores ==
  ASSUME TypeInv, NEW n \in Nodes, NEW list \in Seq(TaintKeys), ChangeTaints(n, list)
  PROVE  /\ Spend("changes")
         /\ \E obj \in NodeType : Store(n, obj)
         /\ UNCHANGED <<jobs, process, time>>
<1>1. [node[n] EXCEPT !.taints = list] \in NodeType
  BY DEF TypeInv, ClusterOK, NodeType
<1> QED BY <1>1 DEF ChangeTaints

(* Whatever others do to a node is one stored version.                     *)
LEMMA NodeChangesStore ==
  ASSUME TypeInv, NEW n \in Nodes, NodeChanges(n)
  PROVE  /\ \E obj \in NodeType : Store(n, obj)
         /\ UNCHANGED left \/ Spend("changes") \/ Spend("incarnations")
         /\ UNCHANGED <<jobs, process, time>>
<1> USE DEF TypeInv
<1>1. node[n] \in NodeType /\ node[n].taints \in Seq(TaintKeys)
  BY DEF ClusterOK, NodeType
<1>2. CASE RegisterNode(n)
  <2>1. PICK others \in {<<>>} \cup {<<key>> : key \in TaintKeys} :
          Store(n, [uid |-> MaxIncarnations - left.incarnations + 1,
                    taints |-> ConfigTaints \o others, labeled |-> FALSE])
    BY <1>2 DEF RegisterNode
  <2>2. ConfigTaints \o others \in Seq(TaintKeys)
    <3>1. \A key \in TaintKeys : <<key>> \in Seq(TaintKeys)
      OBVIOUS
    <3>2. others = <<>> \/ \E key \in TaintKeys : others = <<key>>
      BY <2>1
    <3>3. others \in Seq(TaintKeys)
      BY <3>1, <3>2, <<>> \in Seq(TaintKeys), Zenon
    <3> QED BY <3>3, TaintsAssumption
  <2>3. MaxIncarnations - left.incarnations + 1 \in Nat
    BY BoundsAssumption DEF LeftOK
  <2>4. [uid |-> MaxIncarnations - left.incarnations + 1,
         taints |-> ConfigTaints \o others, labeled |-> FALSE] \in NodeType
    BY <2>2, <2>3 DEF NodeType
  <2> QED BY <1>2, <2>1, <2>4 DEF RegisterNode
<1>3. CASE NodeGone(n)
  BY <1>3, NoNodeType DEF NodeGone
<1>4. CASE AddTaint(n)
  <2>1. PICK key \in TaintKeys :
          \/ ChangeTaints(n, <<key>> \o node[n].taints)
          \/ ChangeTaints(n, Append(node[n].taints, key))
    BY <1>4 DEF AddTaint
  <2>2. <<key>> \o node[n].taints \in Seq(TaintKeys)
    BY <1>1
  <2>3. Append(node[n].taints, key) \in Seq(TaintKeys)
    BY <1>1
  <2> QED BY <2>1, <2>2, <2>3, ChangeTaintsStores
<1>5. CASE RemoveTaint(n)
  <2>1. PICK i \in DOMAIN node[n].taints : ChangeTaints(n, RemoveIndex(node[n].taints, i))
    BY <1>5 DEF RemoveTaint
  <2> QED BY <1>1, <2>1, RemoveIndexType, ChangeTaintsStores
<1>6. CASE RemoveLabel(n)
  <2>1. [node[n] EXCEPT !.labeled = FALSE] \in NodeType
    BY <1>1 DEF NodeType
  <2> QED BY <1>6, <2>1 DEF RemoveLabel
<1> QED BY <1>2, <1>3, <1>4, <1>5, <1>6 DEF NodeChanges

(* Changes by others keep the types.                                       *)
LEMMA NodeChangesType ==
  ASSUME TypeInv, NEW n \in Nodes, NodeChanges(n)
  PROVE  TypeInv'
<1> USE DEF TypeInv
<1>1. UNCHANGED <<jobs, nodeCache, jobCache, cache, queue, delayed, step, snapshot,
                  orphans, age, sec>>
  BY NodeChangesStore DEF process, call, time
<1>2. ClusterOK'
  BY <1>1, NodeChangesStore, StoreType
<1>3. LeftOK'
  BY NodeChangesStore, SpendType DEF LeftOK, Budgets
<1>4. JobsOK' /\ TimeOK' /\ CacheOK' /\ QueueOK' /\ CallOK'
  BY <1>1 DEF JobsOK, TimeOK, CacheOK, QueueOK, CallOK
<1> QED BY <1>2, <1>3, <1>4

JobChange(n, k) == JobRuns(n, k) \/ PodFails(n, k) \/ JobDeleted(n, k)

(* A change of a job changes that job alone.                               *)
LEMMA JobChangeFrame ==
  ASSUME TypeInv, NEW n \in Nodes, NEW k \in Seconds, JobChange(n, k)
  PROVE  /\ \E job \in JobType : JobChanges(n, k, job)
         /\ UNCHANGED left \/ Spend("faults") \/ Spend("losses")
<1>1. jobs[n][k] \in JobType /\ node[n].uid \in Nat
  BY DEF TypeInv, JobsOK, ClusterOK, NodeType
<1> DEFINE changed == [jobs[n][k] EXCEPT !.phase = "active"]
           completed == [jobs[n][k] EXCEPT !.phase = "complete", !.ranOn = node[n].uid]
           failed == [jobs[n][k] EXCEPT !.phase = "failed", !.ranOn = node[n].uid]
           podFailed == [jobs[n][k] EXCEPT !.flaky = TRUE]
           deleted == [jobs[n][k] EXCEPT !.live = FALSE]
<1>2. {changed, completed, failed, podFailed, deleted} \subseteq JobType
  BY <1>1 DEF JobType, Phases
<1>3. \/ JobChanges(n, k, changed) \/ JobChanges(n, k, completed)
      \/ JobChanges(n, k, failed) \/ JobChanges(n, k, podFailed)
      \/ JobChanges(n, k, deleted)
  <2>1. CASE JobRuns(n, k)
    BY <2>1 DEF JobRuns, JobStarts, JobCompletes, JobFails
  <2>2. CASE PodFails(n, k)
    BY <2>2 DEF PodFails
  <2>3. CASE JobDeleted(n, k)
    BY <2>3 DEF JobDeleted
  <2> QED BY <2>1, <2>2, <2>3 DEF JobChange
<1>4. UNCHANGED left \/ Spend("faults") \/ Spend("losses")
  BY DEF JobChange, JobRuns, JobStarts, JobCompletes, JobFails, PodFails, JobDeleted
<1> HIDE DEF changed, completed, failed, podFailed, deleted
<1> QED BY <1>2, <1>3, <1>4

(* Changes of jobs keep the types.                                         *)
LEMMA JobChangeType ==
  ASSUME TypeInv, NEW n \in Nodes, NEW k \in Seconds, JobChange(n, k)
  PROVE  TypeInv'
<1> USE DEF TypeInv
<1>1. PICK job \in JobType : JobChanges(n, k, job)
  BY JobChangeFrame
<1>2. UNCHANGED <<node, feed, nodeCache, jobCache, cache, queue, delayed, step,
                  snapshot, orphans, age, sec>>
  BY <1>1 DEF JobChanges, process, call, time
<1>3. JobsOK'
  BY <1>1, <1>2 DEF JobsOK, JobChanges
<1>4. LeftOK'
  BY JobChangeFrame, SpendType DEF LeftOK, Budgets
<1>5. ClusterOK' /\ TimeOK' /\ CacheOK' /\ QueueOK' /\ CallOK'
  BY <1>2 DEF ClusterOK, TimeOK, CacheOK, QueueOK, CallOK
<1> QED BY <1>3, <1>4, <1>5

(* Time passing keeps the types.                                           *)
LEMMA TickType ==
  ASSUME TypeInv, NEW n \in Nodes, Tick(n)
  PROVE  TypeInv'
<1>1. TimeOK'
  BY DEF TypeInv, TimeOK, Tick
<1>2. UNCHANGED <<node, jobs, feed, nodeCache, jobCache, cache, queue, delayed,
                  step, snapshot, orphans, sec, left>>
  BY DEF Tick, cluster, process, call
<1> QED BY <1>1, <1>2
        DEF TypeInv, ClusterOK, JobsOK, CacheOK, QueueOK, CallOK, LeftOK

-----------------------------------------------------------------------------
(* The initial state is typed.                                             *)
LEMMA TypeInit == Init => TypeInv
<1> SUFFICES ASSUME Init PROVE TypeInv
  OBVIOUS
<1> USE DEF Init
<1>1. ClusterOK
  BY NoNodeType DEF ClusterOK
<1>2. JobsOK
  BY DEF JobsOK, NoJob, JobType, Phases
<1>3. TimeOK /\ CacheOK /\ QueueOK /\ CallOK
  BY BoundsAssumption
  DEF TimeOK, CacheOK, QueueOK, CallOK, Steps, NoState, NodeState, States
<1>4. LeftOK
  BY BoundsAssumption DEF LeftOK
<1> QED BY <1>1, <1>2, <1>3, <1>4 DEF TypeInv

(* Every step keeps the types.                                             *)
LEMMA TypeStep == TypeInv /\ [Next]_vars => TypeInv'
<1> SUFFICES ASSUME TypeInv, [Next]_vars PROVE TypeInv'
  OBVIOUS
<1>1. ASSUME NEW n \in Nodes, Reconcile(n) PROVE TypeInv'
  BY <1>1, ReconcileType
<1>2. ASSUME NEW n \in Nodes, Request(n) PROVE TypeInv'
  BY <1>2, CreateWorkerJobType, UpdateNodeMetadataType, DeleteNodeType DEF Request
<1>3. ASSUME NEW n \in Nodes,
             SyncNode(n) \/ Relist(n) \/ TimerFires(n) \/ \E k \in Seconds : SyncJob(n, k)
      PROVE TypeInv'
  BY <1>3, InformerType
<1>4. ASSUME NEW n \in Nodes, NodeChanges(n) PROVE TypeInv'
  BY <1>4, NodeChangesType
<1>5. ASSUME NEW n \in Nodes, NEW k \in Seconds, JobChange(n, k) PROVE TypeInv'
  BY <1>5, JobChangeType
<1>6. ASSUME NEW n \in Nodes, Tick(n) PROVE TypeInv'
  BY <1>6, TickType
<1>7. CASE Restart
  BY <1>7, RestartType
<1>8. CASE UNCHANGED vars
  BY <1>8
  DEF vars, call, TypeInv, ClusterOK, JobsOK, TimeOK, CacheOK, QueueOK, CallOK, LeftOK
<1>9. ASSUME NEW r \in orphans, OrphanLands(r) PROVE TypeInv'
  BY <1>9, OrphanLandsType
<1> QED BY <1>1, <1>2, <1>3, <1>4, <1>5, <1>6, <1>7, <1>8, <1>9
        DEF Next, NodeChanges, JobChange

(* The invariant gives the property the runs check.                        *)
LEMMA TypeInvImpliesTypeOK == TypeInv => TypeOK
BY DEF TypeInv, TypeOK, ClusterOK, JobsOK, TimeOK, CacheOK, QueueOK, CallOK, LeftOK

(* Whatever the number of nodes, taints, failures and restarts, every      *)
(* variable of the reconciler, its informers and the cluster keeps its     *)
(* type, and a remembered job is one of a second in which a job of that    *)
(* node was created.                                                       *)
THEOREM TypeCorrect == Spec => []TypeOK
<1>1. Spec => []TypeInv
  BY TypeInit, TypeStep, PTL DEF Spec
<1> QED BY <1>1, TypeInvImpliesTypeOK, PTL
=============================================================================
