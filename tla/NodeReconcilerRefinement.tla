---------------------- MODULE NodeReconcilerRefinement ----------------------
(***************************************************************************)
(* NodeReconciler implements NodeLifecycle, for all values of the          *)
(* constants: seen through its state cache and its jobs, every step is a   *)
(* move of the lifecycle or leaves it as it is.                            *)
(***************************************************************************)
EXTENDS NodeReconcilerSafety

(* The variables of the lifecycle, as LifecycleSpec substitutes them.      *)
phaseBar == [n \in Nodes |-> cache[n].state]
attemptsBar == [n \in Nodes |-> cache[n].attempts]
verdictsBar == [n \in Nodes |-> Verdicts(n)]

LifecycleMoves == Lifecycle!Next \/ UNCHANGED <<phaseBar, attemptsBar, verdictsBar>>

(* A step that leaves the jobs alone keeps the verdicts.                   *)
LEMMA VerdictsStay ==
  ASSUME UNCHANGED jobs
  PROVE  UNCHANGED verdictsBar
BY DEF verdictsBar, Verdicts

(* A step that leaves the state cache alone keeps phases and attempts.     *)
LEMMA CacheStays ==
  ASSUME UNCHANGED cache
  PROVE  UNCHANGED <<phaseBar, attemptsBar>>
BY DEF phaseBar, attemptsBar

(* A new entry for one node.                                               *)
LEMMA EntryMoves ==
  ASSUME TypeInv, NEW n \in Nodes, NEW entry, SetState(n, entry)
  PROVE  /\ phaseBar' = [phaseBar EXCEPT ![n] = entry.state]
         /\ attemptsBar' = [attemptsBar EXCEPT ![n] = entry.attempts]
         /\ entry.attempts = cache[n].attempts => UNCHANGED attemptsBar
         /\ entry.state = cache[n].state => UNCHANGED phaseBar
BY SetStateLocal DEF phaseBar, attemptsBar, TypeInv, CacheOK

(* A move of one node between two states, with its count left alone.       *)
LEMMA StateMoves ==
  ASSUME TypeInv, NEW n \in Nodes, NEW entry, SetState(n, entry),
         entry.attempts = cache[n].attempts, UNCHANGED verdictsBar, NEW from,
         cache[n].state \in from
  PROVE  /\ Lifecycle!PhaseMoves(n, from, entry.state)
         /\ UNCHANGED <<attemptsBar, verdictsBar>>
BY EntryMoves DEF Lifecycle!PhaseMoves, phaseBar

(* A job that may be read in a way contributes its verdict.                *)
LEMMA VerdictSeen ==
  ASSUME SafetyInv, NEW n \in Nodes, NEW verdict \in {"pass", "fail"},
         cache[n].job # 0, MayRead(jobs[n][cache[n].job], verdict)
  PROVE  verdict \in verdictsBar[n]
<1>1. cache[n].job \in Seconds
  BY BoundsAssumption DEF SafetyInv, TypeInv, CacheOK, TimeOK, NodeState, Seconds
<1> QED BY <1>1 DEF verdictsBar, Verdicts

(* Reconcile is a move of the lifecycle or a stutter.                      *)
LEMMA ReconcileRefines ==
  ASSUME SafetyInv, NEW n \in Nodes, Reconcile(n)
  PROVE  LifecycleMoves
<1>1. UNCHANGED <<jobs, verdictsBar>> /\ TypeInv
  BY ReconcileFrame, VerdictsStay DEF SafetyInv
<1>2. cache[n] \in NodeState /\ EntryMatches(cache[n], jobs[n])
  BY <1>1 DEF TypeInv, CacheOK, SafetyInv, EntriesMatch
<1>3. CASE UNCHANGED cache
  BY <1>1, <1>3, CacheStays DEF LifecycleMoves
<1>4. CASE SetState(n, NoState)
  <2>1. /\ phaseBar' = [phaseBar EXCEPT ![n] = "none"]
        /\ attemptsBar' = [attemptsBar EXCEPT ![n] = 0]
    BY <1>1, <1>4, EntryMoves DEF NoState
  <2>2. Lifecycle!Forget({n})
    BY <1>1, <2>1 DEF Lifecycle!Forget, phaseBar, attemptsBar, verdictsBar
  <2> QED BY <2>2 DEF LifecycleMoves, Lifecycle!Next
<1>5. CASE SetState(n, cache[n])
  BY <1>1, <1>5, EntryMoves DEF LifecycleMoves
<1> DEFINE moved(state) == [cache[n] EXCEPT !.state = state]
           reset == [cache[n] EXCEPT !.state = "unverified", !.job = 0]
<1>6. /\ reset.state = "unverified" /\ reset.attempts = cache[n].attempts
      /\ \A state \in States : /\ moved(state).state = state
                               /\ moved(state).attempts = cache[n].attempts
  BY <1>2 DEF NodeState
<1> HIDE DEF moved, reset
<1>7. CASE HandleUnverified(n)
  <2>1. SetState(n, CurrentState(n)) /\ CurrentState(n).state = "unverified"
    BY <1>7 DEF HandleUnverified, Dispatch
  <2>2. CASE cache[n].state = "none"
    <3>1. CurrentState(n).attempts = cache[n].attempts
      BY <1>2, <2>2 DEF CurrentState, NoState, EntryMatches
    <3>2. Lifecycle!Discover(n)
      BY <1>1, <2>1, <2>2, <3>1, StateMoves
      DEF Lifecycle!Discover, phaseBar, attemptsBar, verdictsBar
    <3> QED BY <3>2 DEF LifecycleMoves, Lifecycle!Next
  <2>3. CASE cache[n].state # "none"
    BY <1>5, <2>1, <2>3 DEF CurrentState
  <2> QED BY <2>2, <2>3
<1>8. CASE JobStatusUnknown(n)
  <2>1. SetState(n, reset) /\ cache[n].state \in {"pending", "in_progress"}
    BY <1>8, MonitorSees DEF JobStatusUnknown, reset
  <2>2. Lifecycle!LoseJob(n)
    BY <1>1, <1>6, <2>1, StateMoves
    DEF Lifecycle!LoseJob, phaseBar, attemptsBar, verdictsBar
  <2> QED BY <2>2 DEF LifecycleMoves, Lifecycle!Next
<1>9. CASE JobUnfinished(n)
  <2>1. SetState(n, moved("in_progress")) \/ SetState(n, cache[n])
    BY <1>9 DEF JobUnfinished, moved
  <2>2. CASE SetState(n, moved("in_progress")) /\ cache[n].state = "pending"
    <3>1. Lifecycle!Run(n)
      BY <1>1, <1>6, <2>2, StateMoves
      DEF Lifecycle!Run, phaseBar, attemptsBar, verdictsBar, States
    <3> QED BY <3>1 DEF LifecycleMoves, Lifecycle!Next
  <2>3. CASE SetState(n, moved("in_progress")) /\ cache[n].state = "in_progress"
    BY <1>1, <1>6, <2>3, EntryMoves DEF LifecycleMoves, States
  <2> QED BY <1>5, <1>9, <2>1, <2>2, <2>3, MonitorSees DEF JobUnfinished
<1>10. CASE JobFailed(n)
  <2>1. /\ SetState(n, moved("failed"))
        /\ cache[n].state \in {"pending", "in_progress"}
        /\ cache[n].job # 0
        /\ MayRead(jobs[n][cache[n].job], "fail")
    <3>1. Monitor(n) /\ SetState(n, moved("failed"))
      BY <1>10 DEF JobFailed, moved
    <3>2. cache[n].state \in {"pending", "in_progress"} /\ cache[n].job # 0
      BY <3>1, MonitorSees DEF Seconds
    <3>3. Lags(JobSeen(n), jobs[n][cache[n].job].phase)
      BY <3>1, MonitorSees
    <3>4. \/ JobSeen(n) = "failed"
          \/ JobSeen(n) = "complete" /\ jobs[n][cache[n].job].flaky
      BY <1>10 DEF JobFailed, JobExitCodes, ExitCodes
    <3>5. MayRead(jobs[n][cache[n].job], "fail")
      BY <3>3, <3>4 DEF Lags, Finished, MayRead
    <3> QED BY <3>1, <3>2, <3>5
  <2>2. "fail" \in verdictsBar[n]
    BY <2>1, VerdictSeen
  <2>3. Lifecycle!Fail(n)
    BY <1>1, <1>6, <2>1, <2>2, StateMoves
    DEF Lifecycle!Fail, phaseBar, attemptsBar, verdictsBar, States
  <2> QED BY <2>3 DEF LifecycleMoves, Lifecycle!Next
<1>11. CASE Retry(n)
  <2>1. /\ SetState(n, reset) /\ cache[n].state = "failed"
        /\ cache[n].attempts < MaxRetries
    BY <1>11 DEF Retry, reset, Dispatch, CurrentState, NoState
  <2>2. Lifecycle!Retry(n)
    BY <1>1, <1>6, <2>1, StateMoves
    DEF Lifecycle!Retry, phaseBar, attemptsBar, verdictsBar
  <2> QED BY <2>2 DEF LifecycleMoves, Lifecycle!Next
<1> QED BY <1>3, <1>4, <1>7, <1>8, <1>9, <1>10, <1>11
        DEF Reconcile, ReconcileDeleted, ReconcileGetFails, ReconcileAlreadyVerified,
            ReconcileNoTaint, JobSucceeded, BackOff, GiveUp, DeleteFailed,
            NothingToHandle

-----------------------------------------------------------------------------
(* The requests.                                                           *)

(* A job that is created has not reported anything.                        *)
LEMMA StoreJobKeepsVerdicts ==
  ASSUME SafetyInv, NEW n \in Nodes, sec[n] < MaxSeconds, StoreJob(n)
  PROVE  UNCHANGED verdictsBar
<1>1. sec[n] + 1 \in Seconds /\ jobs[n][sec[n] + 1].phase = "absent"
  BY BoundsAssumption DEF SafetyInv, JobsInv, TypeInv, TimeOK, Seconds
<1>2. jobs \in [Nodes -> [Seconds -> JobType]]
  BY DEF SafetyInv, TypeInv, JobsOK
<1>3. \A m \in Nodes, k \in Seconds :
        (m # n \/ k # sec[n] + 1) => jobs'[m][k] = jobs[m][k]
  BY <1>1, <1>2 DEF StoreJob
<1>4. jobs'[n][sec[n] + 1].phase = "pending"
  BY <1>1, <1>2 DEF StoreJob, NoJob
<1>5. \A m \in Nodes, k \in Seconds, v \in {"pass", "fail"} :
        MayRead(jobs'[m][k], v) <=> MayRead(jobs[m][k], v)
  BY <1>1, <1>3, <1>4 DEF MayRead
<1>6. \A m \in Nodes : Verdicts(m)' = Verdicts(m)
  BY <1>5 DEF Verdicts
<1> QED BY <1>6 DEF verdictsBar

(* Recording a job is a launch.                                            *)
LEMMA RecordJobRefines ==
  ASSUME SafetyInv, NEW n \in Nodes, NEW k, step[n] = "create", RecordJob(n, k),
         UNCHANGED verdictsBar
  PROVE  LifecycleMoves
<1> DEFINE entry == [state |-> "pending", job |-> k, attempts |-> cache[n].attempts + 1]
<1>1. /\ SetState(n, entry) /\ entry.state = "pending"
      /\ entry.attempts = cache[n].attempts + 1
  BY DEF RecordJob
<1> HIDE DEF entry
<1>2. cache[n].state = "unverified"
  BY DEF SafetyInv, CallInv, CallMatches
<1>3. /\ phaseBar' = [phaseBar EXCEPT ![n] = "pending"]
      /\ attemptsBar' = [attemptsBar EXCEPT ![n] = attemptsBar[n] + 1]
  BY <1>1, EntryMoves DEF SafetyInv, attemptsBar
<1>4. Lifecycle!Launch(n)
  BY <1>2, <1>3
  DEF Lifecycle!Launch, Lifecycle!PhaseMoves, phaseBar, attemptsBar, verdictsBar
<1> QED BY <1>4 DEF LifecycleMoves, Lifecycle!Next

(* The answers to a creation are launches or stutters.                     *)
LEMMA CreateWorkerJobRefines ==
  ASSUME SafetyInv, NEW n \in Nodes, CreateWorkerJob(n)
  PROVE  LifecycleMoves
<1>1. step[n] = "create" /\ sec[n] < MaxSeconds
  BY DEF CreateWorkerJob, JobCreated, JobCreatedAnswerLost, JobNotCreated,
         JobAlreadyExists, Answer, AnswerError, SafetyInv, TypeInv, CallOK
<1>2. UNCHANGED verdictsBar
  BY <1>1, StoreJobKeepsVerdicts, VerdictsStay
  DEF CreateWorkerJob, JobCreated, JobCreatedAnswerLost, JobNotCreated,
      JobAlreadyExists, AddJob, cluster
<1>3. UNCHANGED cache \/ RecordJob(n, sec[n]) \/ RecordJob(n, sec[n] + 1)
  BY DEF CreateWorkerJob, JobCreated, JobCreatedAnswerLost, JobNotCreated,
         JobAlreadyExists, AnswerError
<1> QED BY <1>1, <1>2, <1>3, CacheStays, RecordJobRefines DEF LifecycleMoves

(* The answers to a patch verify or stutter.                               *)
LEMMA UpdateNodeMetadataRefines ==
  ASSUME SafetyInv, NEW n \in Nodes, UpdateNodeMetadata(n)
  PROVE  LifecycleMoves
<1> DEFINE entry == [cache[n] EXCEPT !.state = "verified"]
<1>1. step[n] = "patch" /\ (UNCHANGED cache \/ SetState(n, entry)) /\ UNCHANGED jobs
  BY DEF UpdateNodeMetadata, NodePatched, NodePatchedAnswerLost, NodeNotPatched,
         Answer, AnswerError, PatchApplies, cluster
<1>2. entry.state = "verified" /\ entry.attempts = cache[n].attempts
  BY DEF SafetyInv, TypeInv, CacheOK, NodeState
<1> HIDE DEF entry
<1>3. /\ cache[n].state \in {"pending", "in_progress"}
      /\ cache[n].job # 0 /\ MayRead(jobs[n][cache[n].job], "pass")
  BY <1>1 DEF SafetyInv, CallInv, CallMatches, EntriesMatch, EntryMatches
<1>4. "pass" \in verdictsBar[n]
  BY <1>3, VerdictSeen
<1>5. CASE SetState(n, entry)
  <2>1. Lifecycle!Verify(n)
    BY <1>1, <1>2, <1>3, <1>4, <1>5, StateMoves, VerdictsStay
    DEF Lifecycle!Verify, phaseBar, attemptsBar, verdictsBar, SafetyInv
  <2> QED BY <2>1 DEF LifecycleMoves, Lifecycle!Next
<1> QED BY <1>1, <1>5, CacheStays, VerdictsStay DEF LifecycleMoves

(* The answers to a deletion remove or stutter, its other steps stutter.   *)
LEMMA DeleteNodeRefines ==
  ASSUME SafetyInv, NEW n \in Nodes, DeleteNode(n)
  PROVE  LifecycleMoves
<1> DEFINE entry == [cache[n] EXCEPT !.state = "deleting"]
<1>1. step[n] \in Deletion /\ (UNCHANGED cache \/ SetState(n, entry)) /\ UNCHANGED jobs
  BY DEF DeleteNode, ClaimFound, ClaimNotFound, ClaimNotDeleted, Proceed, ClaimDeleted,
         NodeDeletedDirectly, NodeDeletedAnswerLost, NodeNotDeleted, Answer,
         AnswerError, Deletion, cluster
<1>2. entry.state = "deleting" /\ entry.attempts = cache[n].attempts
  BY DEF SafetyInv, TypeInv, CacheOK, NodeState
<1> HIDE DEF entry
<1>3. /\ cache[n].state = "failed" /\ cache[n].attempts >= MaxRetries
      /\ DeleteFailedNodes
  BY <1>1 DEF SafetyInv, CallInv, CallMatches
<1>4. CASE SetState(n, entry)
  <2>1. Lifecycle!Remove(n)
    BY <1>1, <1>2, <1>3, <1>4, StateMoves, VerdictsStay
    DEF Lifecycle!Remove, phaseBar, attemptsBar, verdictsBar, SafetyInv
  <2> QED BY <2>1 DEF LifecycleMoves, Lifecycle!Next
<1> QED BY <1>1, <1>4, CacheStays, VerdictsStay DEF LifecycleMoves

-----------------------------------------------------------------------------
(* The cluster and a restart.                                              *)

(* A change of a job is a report.                                          *)
LEMMA JobChangeRefines ==
  ASSUME SafetyInv, NEW n \in Nodes, NEW k \in Seconds, JobChange(n, k)
  PROVE  LifecycleMoves
<1>1. PICK job \in JobType : JobChanges(n, k, job) /\ Advances(jobs[n][k], job)
  BY JobChangeAdvances
<1>2. jobs' = [jobs EXCEPT ![n][k] = job] /\ UNCHANGED cache
  BY <1>1 DEF JobChanges, process
<1>3. jobs \in [Nodes -> [Seconds -> JobType]]
  BY DEF SafetyInv, TypeInv, JobsOK
<1>4. \A m \in Nodes \ {n} : Verdicts(m)' = Verdicts(m)
  BY <1>2, <1>3 DEF Verdicts
<1>5. \A h \in Seconds, v \in {"pass", "fail"} :
        MayRead(jobs[n][h], v) => MayRead(jobs'[n][h], v)
  BY <1>1, <1>2, <1>3 DEF Advances, MayRead, Finished
<1>6. Verdicts(n) \subseteq Verdicts(n)' /\ Verdicts(n)' \subseteq {"pass", "fail"}
  BY <1>5 DEF Verdicts
<1>7. verdictsBar' = [verdictsBar EXCEPT ![n] = verdictsBar[n] \cup verdictsBar'[n]]
  BY <1>4, <1>6 DEF verdictsBar
<1>8. UNCHANGED <<phaseBar, attemptsBar>>
  BY <1>2, CacheStays
<1>9. verdictsBar'[n] \in SUBSET {"pass", "fail"}
  BY <1>6 DEF verdictsBar
<1>10. Lifecycle!Report(n, verdictsBar'[n])
  BY <1>7, <1>8 DEF Lifecycle!Report, phaseBar, attemptsBar, verdictsBar
<1> QED BY <1>9, <1>10 DEF LifecycleMoves, Lifecycle!Next

(* A restart forgets every node.                                           *)
LEMMA RestartRefines ==
  ASSUME Restart
  PROVE  LifecycleMoves
<1>1. UNCHANGED verdictsBar
  BY VerdictsStay DEF Restart, cluster
<1>2. Lifecycle!Forget(Nodes)
  BY <1>1 DEF Lifecycle!Forget, Restart, NoState, phaseBar, attemptsBar, verdictsBar
<1> QED BY <1>2 DEF LifecycleMoves, Lifecycle!Next

(* Initial states map to the initial state.                                *)
LEMMA InitRefines == Init => Lifecycle!Init
BY DEF Init, Lifecycle!Init, NoState, NoJob, Verdicts, MayRead

(* Every step maps to a move or a stutter.                                 *)
LEMMA StepRefines == SafetyInv /\ [Next]_vars => LifecycleMoves
<1> SUFFICES ASSUME SafetyInv, [Next]_vars PROVE LifecycleMoves
  OBVIOUS
<1>1. ASSUME UNCHANGED <<cache, jobs>> PROVE LifecycleMoves
  BY <1>1, CacheStays, VerdictsStay DEF LifecycleMoves
<1>2. ASSUME NEW n \in Nodes, Reconcile(n) PROVE LifecycleMoves
  BY <1>2, ReconcileRefines
<1>3. ASSUME NEW n \in Nodes, Request(n) PROVE LifecycleMoves
  BY <1>3, CreateWorkerJobRefines, UpdateNodeMetadataRefines, DeleteNodeRefines DEF Request
<1>4. ASSUME NEW n \in Nodes,
             SyncNode(n) \/ Relist(n) \/ TimerFires(n) \/ \E k \in Seconds : SyncJob(n, k)
      PROVE  LifecycleMoves
  BY <1>1, <1>4 DEF SyncNode, Relist, TimerFires, SyncJob, cluster
<1>5. ASSUME NEW n \in Nodes, NodeChanges(n) PROVE LifecycleMoves
  BY <1>1, <1>5, NodeChangesStore DEF SafetyInv, process
<1>6. ASSUME NEW n \in Nodes, NEW k \in Seconds, JobChange(n, k) PROVE LifecycleMoves
  BY <1>6, JobChangeRefines
<1>7. ASSUME NEW n \in Nodes, Tick(n) PROVE LifecycleMoves
  BY <1>1, <1>7 DEF Tick, cluster, process
<1>8. CASE UNCHANGED vars
  BY <1>1, <1>8 DEF vars
<1>9. ASSUME NEW r \in orphans, OrphanLands(r) PROVE LifecycleMoves
  <2>1. UNCHANGED cache /\ r.node \in Nodes
    BY <1>9, OrphanCases DEF SafetyInv
  <2>2. CASE UNCHANGED jobs
    BY <1>1, <2>1, <2>2
  <2>3. CASE StoreJob(r.node) /\ sec[r.node] < MaxSeconds
    <3>1. UNCHANGED verdictsBar
      BY <2>1, <2>3, StoreJobKeepsVerdicts
    <3> QED BY <2>1, <3>1, CacheStays DEF LifecycleMoves
  <2> QED BY <1>9, <2>2, <2>3, OrphanCases DEF SafetyInv
<1> QED BY <1>2, <1>3, <1>4, <1>5, <1>6, <1>7, <1>8, <1>9, RestartRefines
        DEF Next, NodeChanges, JobChange

(* The reconciler, its informers and requests, with all their failures,    *)
(* implement the lifecycle: a node is verified only on a success, failed   *)
(* only on a failure, removed only when its attempts are used up, and      *)
(* every attempt is counted.                                               *)
THEOREM ReconcilerImplementsLifecycle == Spec => LifecycleSpec
<1>1. SafetyInv /\ [Next]_vars => [Lifecycle!Next]_(Lifecycle!vars)
  BY StepRefines DEF LifecycleMoves, Lifecycle!vars, phaseBar, attemptsBar, verdictsBar
<1> QED BY <1>1, InitRefines, SafetyInvariant, PTL DEF Spec, LifecycleSpec, Lifecycle!Spec

-----------------------------------------------------------------------------
(* The other joint: a job of NodeReconciler, from before its creation to   *)
(* after its deletion, is the job of JobLifecycle, which WorkerJob with    *)
(* its pods implements.                                                    *)
JobOf(n, k) ==
  INSTANCE JobLifecycle
  WITH phase <- IF jobs[n][k].phase = "absent" THEN "pending" ELSE jobs[n][k].phase,
       flaky <- jobs[n][k].phase # "absent" /\ jobs[n][k].flaky,
       verdict <- "none"

(* What the two modules say may be read of a job is the same.              *)
LEMMA SameReadings ==
  ASSUME NEW n \in Nodes, NEW k \in Seconds, NEW result \in {"pass", "fail"}
  PROVE  MayRead(jobs[n][k], result) <=> JobOf(n, k)!MayRead(result)
BY DEF MayRead, JobOf!MayRead

(* Only a creation and the Job controller touch a job.                     *)
LEMMA JobsStep ==
  ASSUME SafetyInv, [Next]_vars
  PROVE  \/ UNCHANGED jobs
         \/ \E n \in Nodes : StoreJob(n) /\ sec[n] < MaxSeconds
         \/ \E n \in Nodes, k \in Seconds : JobChange(n, k)
<1> DEFINE goal == \/ UNCHANGED jobs
                   \/ \E n \in Nodes : StoreJob(n) /\ sec[n] < MaxSeconds
                   \/ \E n \in Nodes, k \in Seconds : JobChange(n, k)
<1>1. ASSUME NEW n \in Nodes, Reconcile(n) PROVE goal
  BY <1>1, ReconcileFrame DEF SafetyInv
<1>2. ASSUME NEW n \in Nodes, CreateWorkerJob(n) PROVE goal
  <2>1. step[n] = "create" /\ sec[n] < MaxSeconds
    BY <1>2 DEF CreateWorkerJob, JobCreated, JobCreatedAnswerLost, JobNotCreated,
                JobAlreadyExists, Answer, AnswerError, SafetyInv, TypeInv, CallOK
  <2> QED BY <1>2, <2>1
          DEF CreateWorkerJob, JobCreated, JobCreatedAnswerLost, JobNotCreated,
              JobAlreadyExists, AddJob, cluster
<1>3. ASSUME NEW n \in Nodes, UpdateNodeMetadata(n) PROVE goal
  BY <1>3 DEF UpdateNodeMetadata, NodePatched, NodePatchedAnswerLost, NodeNotPatched,
              PatchApplies, cluster
<1>4. ASSUME NEW n \in Nodes, DeleteNode(n) PROVE goal
  BY <1>4 DEF DeleteNode, ClaimFound, ClaimNotFound, ClaimNotDeleted, Proceed, ClaimDeleted,
              NodeDeletedDirectly, NodeDeletedAnswerLost, NodeNotDeleted, cluster
<1>5. ASSUME NEW n \in Nodes,
             SyncNode(n) \/ Relist(n) \/ TimerFires(n) \/ \E k \in Seconds : SyncJob(n, k)
      PROVE  goal
  BY <1>5 DEF SyncNode, Relist, TimerFires, SyncJob, cluster
<1>6. ASSUME NEW n \in Nodes, NodeChanges(n) PROVE goal
  BY <1>6, NodeChangesStore DEF SafetyInv
<1>7. ASSUME NEW n \in Nodes, Tick(n) PROVE goal
  BY <1>7 DEF Tick, cluster
<1>8. CASE Restart \/ UNCHANGED vars
  BY <1>8 DEF Restart, cluster, vars
<1>9. ASSUME NEW r \in orphans, OrphanLands(r) PROVE goal
  BY <1>9, OrphanCases DEF SafetyInv
<1> QED BY <1>1, <1>2, <1>3, <1>4, <1>5, <1>6, <1>7, <1>8, <1>9
        DEF Next, Request, NodeChanges, JobChange

(* A change of a job is a move of JobLifecycle for that job, its deletion  *)
(* and the changes of other jobs are none.                                 *)
LEMMA JobChangeMoves ==
  ASSUME SafetyInv, NEW n \in Nodes, NEW k \in Seconds,
         NEW m \in Nodes, NEW h \in Seconds, JobChange(m, h)
  PROVE  [JobOf(n, k)!Next]_(JobOf(n, k)!vars)
<1>1. jobs \in [Nodes -> [Seconds -> JobType]] /\ jobs[m][h] \in JobType
  BY DEF SafetyInv, TypeInv, JobsOK
<1>2. PICK job : JobChanges(m, h, job)
  BY DEF JobChange, JobRuns, JobStarts, JobCompletes, JobFails, PodFails, JobDeleted
<1>3. CASE m # n \/ h # k
  <2>1. jobs'[n][k] = jobs[n][k]
    BY <1>1, <1>2, <1>3 DEF JobChanges
  <2> QED BY <2>1 DEF JobOf!vars
<1>4. CASE m = n /\ h = k
  <2>1. ASSUME NEW next, JobChanges(m, h, next) PROVE jobs'[n][k] = next
    BY <1>1, <1>4, <2>1 DEF JobChanges
  <2> USE <1>1, <1>4, <2>1 DEF JobType, Phases
  <2>2. CASE JobStarts(m, h)
    <3>1. JobOf(n, k)!Starts
      BY <2>2 DEF JobStarts, JobOf!Starts, JobOf!PhaseMoves
    <3> QED BY <3>1 DEF JobOf!Next
  <2>3. CASE JobCompletes(m, h)
    <3>1. JobOf(n, k)!Completes
      BY <2>3 DEF JobCompletes, JobOf!Completes, JobOf!PhaseMoves
    <3> QED BY <3>1 DEF JobOf!Next
  <2>4. CASE JobFails(m, h)
    <3>1. JobOf(n, k)!Fails
      BY <2>4 DEF JobFails, JobOf!Fails, JobOf!PhaseMoves
    <3> QED BY <3>1 DEF JobOf!Next
  <2>5. CASE PodFails(m, h)
    <3>1. JobOf(n, k)!PodFails
      BY <2>5 DEF PodFails, JobOf!PodFails
    <3> QED BY <3>1 DEF JobOf!Next
  <2>6. CASE JobDeleted(m, h)
    <3>1. jobs'[n][k].phase = jobs[n][k].phase /\ jobs'[n][k].flaky = jobs[n][k].flaky
      BY <2>6 DEF JobDeleted
    <3> QED BY <3>1 DEF JobOf!vars
  <2> QED BY <2>2, <2>3, <2>4, <2>5, <2>6 DEF JobChange, JobRuns
<1> QED BY <1>3, <1>4

(* A creation is where the life of a job begins.                           *)
LEMMA StoreJobMoves ==
  ASSUME SafetyInv, NEW n \in Nodes, NEW k \in Seconds,
         NEW m \in Nodes, StoreJob(m), sec[m] < MaxSeconds
  PROVE  UNCHANGED JobOf(n, k)!vars
<1>1. sec[m] + 1 \in Seconds /\ jobs[m][sec[m] + 1].phase = "absent"
  BY BoundsAssumption DEF SafetyInv, JobsInv, TypeInv, TimeOK, Seconds
<1>2. jobs \in [Nodes -> [Seconds -> JobType]]
  BY DEF SafetyInv, TypeInv, JobsOK
<1>3. CASE n # m \/ k # sec[m] + 1
  <2>1. jobs'[n][k] = jobs[n][k]
    BY <1>1, <1>2, <1>3 DEF StoreJob
  <2> QED BY <2>1 DEF JobOf!vars
<1>4. CASE n = m /\ k = sec[m] + 1
  <2>1. jobs'[n][k] = [NoJob EXCEPT !.phase = "pending", !.live = TRUE]
    BY <1>1, <1>2, <1>4 DEF StoreJob
  <2>2. jobs'[n][k].phase = "pending" /\ ~jobs'[n][k].flaky
    BY <2>1 DEF NoJob
  <2> QED BY <1>1, <1>4, <2>2 DEF JobOf!vars
<1> QED BY <1>3, <1>4

(* Every job the reconciler deals with, whatever is lost or restarted,     *)
(* behaves as JobLifecycle says: the same specification that a Job with    *)
(* its pods, limits and deadline implements.                               *)
THEOREM JobsFollowLifecycle ==
  ASSUME NEW n \in Nodes, NEW k \in Seconds
  PROVE  Spec => JobOf(n, k)!Spec
<1>1. Init => JobOf(n, k)!Init
  BY DEF Init, NoJob, JobOf!Init
<1>2. SafetyInv /\ [Next]_vars => [JobOf(n, k)!Next]_(JobOf(n, k)!vars)
  <2> SUFFICES ASSUME SafetyInv, [Next]_vars
               PROVE  [JobOf(n, k)!Next]_(JobOf(n, k)!vars)
    OBVIOUS
  <2>1. CASE UNCHANGED jobs
    BY <2>1 DEF JobOf!vars
  <2>2. ASSUME NEW m \in Nodes, StoreJob(m), sec[m] < MaxSeconds
        PROVE  [JobOf(n, k)!Next]_(JobOf(n, k)!vars)
    BY <2>2, StoreJobMoves
  <2>3. ASSUME NEW m \in Nodes, NEW h \in Seconds, JobChange(m, h)
        PROVE  [JobOf(n, k)!Next]_(JobOf(n, k)!vars)
    BY <2>3, JobChangeMoves
  <2> QED BY <2>1, <2>2, <2>3, JobsStep
<1> QED BY <1>1, <1>2, SafetyInvariant, PTL DEF Spec, JobOf!Spec

(* The verdict that Reconcile acts on, through an informer that lags and   *)
(* pods whose exit codes it finds or not, is one JobLifecycle lets be read *)
(* of the job: a patch is sent only for a job that may be read as passed,  *)
(* a node is failed only for one that may be read as failed.               *)
ReadingsAllowed ==
  [][\A n \in Nodes :
       /\ JobSucceeded(n) =>
            \E k \in Seconds : cache[n].job = k /\ JobOf(n, k)!MayRead("pass")
       /\ JobFailed(n) =>
            \E k \in Seconds : cache[n].job = k /\ JobOf(n, k)!MayRead("fail")]_vars

THEOREM ReadingsAreAllowed == Spec => ReadingsAllowed
<1> DEFINE reads(n, result) ==
      \E k \in Seconds : cache[n].job = k /\ JobOf(n, k)!MayRead(result)
<1>1. ASSUME SafetyInv, NEW n \in Nodes, JobSucceeded(n)
      PROVE  reads(n, "pass")
  <2>1. cache[n].job \in Seconds /\ MayRead(jobs[n][cache[n].job], "pass")
    BY <1>1, MonitorSees DEF JobSucceeded, Lags, Finished, MayRead
  <2> QED BY <2>1, SameReadings
<1>2. ASSUME SafetyInv, NEW n \in Nodes, JobFailed(n)
      PROVE  reads(n, "fail")
  <2>1. cache[n].job \in Seconds /\ MayRead(jobs[n][cache[n].job], "fail")
    BY <1>2, MonitorSees
    DEF JobFailed, Lags, Finished, MayRead, JobExitCodes, ExitCodes
  <2> QED BY <2>1, SameReadings
<1>3. SafetyInv => [\A n \in Nodes : /\ JobSucceeded(n) => reads(n, "pass")
                                     /\ JobFailed(n) => reads(n, "fail")]_vars
  BY <1>1, <1>2
<1> QED BY <1>3, SafetyInvariant, PTL DEF Spec, ReadingsAllowed
=============================================================================
