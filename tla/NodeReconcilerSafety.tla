------------------------ MODULE NodeReconcilerSafety ------------------------
(***************************************************************************)
(* The safety properties of NodeReconciler, for all values of its          *)
(* constants: a node that needs verification is not forgotten, the state   *)
(* kept in memory never runs ahead of the jobs, and the label and the      *)
(* deletion of a node are earned.                                          *)
(***************************************************************************)
EXTENDS NodeReconcilerProofs

(* What the informer shows of a job is a phase the job has been through.   *)
Lags(seen, phase) ==
  \/ seen = "absent"
  \/ seen = "pending" /\ phase # "absent"
  \/ seen = "active" /\ phase \notin {"absent", "pending"}
  \/ seen \in Finished /\ phase = seen

JobsInv ==
  \A n \in Nodes :
    /\ \A k \in Seconds : Lags(jobCache[n][k], jobs[n][k].phase)
    /\ \A k \in Seconds : k > sec[n] => jobs[n][k].phase = "absent"
    /\ age[n] = "fresh" => sec[n] >= 1

(* An entry of the state cache goes with a node's jobs.                    *)
EntryMatches(entry, own) ==
  /\ (entry.job = 0) <=> (entry.state \in {"none", "unverified"})
  /\ entry.job # 0 => own[entry.job].phase # "absent"
  /\ entry.state = "in_progress" => own[entry.job].phase \notin {"absent", "pending"}
  /\ entry.state = "verified" => MayRead(own[entry.job], "pass")
  /\ entry.state \in {"failed", "deleting"} => MayRead(own[entry.job], "fail")
  /\ entry.state = "none" => entry.attempts = 0

EntriesMatch == \A n \in Nodes : EntryMatches(cache[n], jobs[n])

(* A request is sent in the state that calls for it, and that state stays  *)
(* until the answer.                                                       *)
CallMatches(n) ==
  /\ step[n] = "create" => cache[n].state = "unverified"
  /\ step[n] = "patch" => /\ cache[n].state \in {"pending", "in_progress"}
                          /\ MayRead(jobs[n][cache[n].job], "pass")
  /\ step[n] \in Deletion => /\ cache[n].state = "failed"
                             /\ cache[n].attempts >= MaxRetries
                             /\ DeleteFailedNodes

CallInv == \A n \in Nodes : CallMatches(n)

(* What a process that has ended left under way had been called for.       *)
SomeJobReads(n, verdict) == \E k \in Seconds : MayRead(jobs[n][k], verdict)

Earned(r) ==
  /\ r.what = "patch" => SomeJobReads(r.node, "pass")
  /\ r.what = "delete" => DeleteFailedNodes /\ SomeJobReads(r.node, "fail")

OrphansEarned == \A r \in orphans : Earned(r)

SafetyInv == TypeInv /\ JobsInv /\ EntriesMatch /\ CallInv /\ OrphansEarned

-----------------------------------------------------------------------------
(* Jobs only move forward.                                                 *)

Advances(job, next) ==
  /\ job.phase # "absent" => next.phase # "absent"
  /\ job.phase \notin {"absent", "pending"}
       => next.phase \notin {"absent", "pending"}
  /\ job.phase \in Finished => next.phase = job.phase
  /\ job.phase # "absent" /\ job.flaky => next.flaky

JobsAdvance == \A n \in Nodes, k \in Seconds : Advances(jobs[n][k], jobs'[n][k])

(* An entry that matches the jobs matches them when they have advanced.    *)
LEMMA EntryStable ==
  ASSUME NEW own, NEW next, NEW entry \in NodeState, entry.job <= MaxSeconds,
         EntryMatches(entry, own), \A k \in Seconds : Advances(own[k], next[k])
  PROVE  EntryMatches(entry, next)
<1>1. CASE entry.job = 0
  BY <1>1 DEF EntryMatches
<1>2. CASE entry.job # 0
  <2>1. entry.job \in Seconds
    BY <1>2, BoundsAssumption DEF NodeState, Seconds
  <2>2. Advances(own[entry.job], next[entry.job])
    BY <2>1
  <2>3. /\ entry.state \notin {"none", "unverified"}
        /\ own[entry.job].phase # "absent"
    BY <1>2 DEF EntryMatches
  <2>4. entry.state = "in_progress" => next[entry.job].phase \notin {"absent", "pending"}
    BY <2>2 DEF EntryMatches, Advances
  <2>5. entry.state = "verified" => MayRead(next[entry.job], "pass")
    BY <2>2 DEF EntryMatches, Advances, MayRead, Finished
  <2>6. entry.state \in {"failed", "deleting"} => MayRead(next[entry.job], "fail")
    BY <2>2 DEF EntryMatches, Advances, MayRead, Finished
  <2> QED BY <1>2, <2>2, <2>3, <2>4, <2>5, <2>6 DEF EntryMatches, Advances
<1> QED BY <1>1, <1>2

(* What a step has to keep for a node whose entry it leaves alone.         *)
LEMMA EntriesStable ==
  ASSUME TypeInv, EntriesMatch, JobsAdvance, NEW n \in Nodes, cache'[n] = cache[n]
  PROVE  EntryMatches(cache'[n], jobs'[n])
<1>1. cache[n] \in NodeState /\ cache[n].job <= MaxSeconds
  BY BoundsAssumption DEF TypeInv, CacheOK, TimeOK, NodeState
<1> QED BY <1>1, EntryStable DEF EntriesMatch, JobsAdvance

(* A job read as passed stays so.                                          *)
LEMMA PatchStable ==
  ASSUME TypeInv, EntriesMatch, JobsAdvance, NEW n \in Nodes,
         cache[n].state \in {"pending", "in_progress"},
         MayRead(jobs[n][cache[n].job], "pass")
  PROVE  MayRead(jobs'[n][cache[n].job], "pass")
<1>1. cache[n].job \in Seconds
  BY BoundsAssumption DEF TypeInv, CacheOK, TimeOK, NodeState, EntriesMatch, EntryMatches, Seconds
<1> QED BY <1>1 DEF JobsAdvance, Advances, MayRead, Finished

(* Unchanged jobs have advanced.                                           *)
LEMMA JobsStay ==
  ASSUME UNCHANGED jobs
  PROVE  JobsAdvance
BY DEF JobsAdvance, Advances

(* A waiting call still matches when the jobs have advanced.               *)
LEMMA CallStable ==
  ASSUME SafetyInv, JobsAdvance, NEW n \in Nodes,
         step'[n] = step[n], cache'[n] = cache[n]
  PROVE  CallMatches(n)'
BY PatchStable DEF SafetyInv, CallInv, CallMatches

(* A request that was earned stays so.                                     *)
LEMMA OrphansStable ==
  ASSUME TypeInv, OrphansEarned, JobsAdvance, orphans' \subseteq orphans
  PROVE  OrphansEarned'
<1>1. ASSUME NEW n \in Nodes, NEW verdict \in {"pass", "fail"}, SomeJobReads(n, verdict)
      PROVE  SomeJobReads(n, verdict)'
  <2>1. PICK k \in Seconds : MayRead(jobs[n][k], verdict)
    BY <1>1 DEF SomeJobReads
  <2>2. MayRead(jobs'[n][k], verdict)
    BY <2>1 DEF JobsAdvance, Advances, MayRead, Finished
  <2> QED BY <2>2 DEF SomeJobReads
<1>2. ASSUME NEW r \in orphans' PROVE Earned(r)'
  <2>1. Earned(r) /\ r.node \in Nodes
    BY DEF OrphansEarned, TypeInv, CallOK, RequestType
  <2> QED BY <1>1, <2>1 DEF Earned
<1> QED BY <1>2 DEF OrphansEarned

(* A step about one node has to keep what is said of that node only.       *)
LEMMA OneNode ==
  ASSUME SafetyInv, TypeInv', JobsInv', JobsAdvance, NEW n \in Nodes,
         \A m \in Nodes \ {n} : cache'[m] = cache[m] /\ step'[m] = step[m],
         EntryMatches(cache'[n], jobs'[n]), CallMatches(n)', UNCHANGED orphans
  PROVE  SafetyInv'
<1>1. EntriesMatch'
  BY EntriesStable DEF SafetyInv, EntriesMatch
<1>2. CallInv'
  BY CallStable DEF CallInv
<1>3. OrphansEarned'
  BY OrphansStable DEF SafetyInv
<1> QED BY <1>1, <1>2, <1>3 DEF SafetyInv

-----------------------------------------------------------------------------
(* Reconcile, up to its first request.                                     *)

(* Writing one entry leaves the others alone.                              *)
LEMMA SetStateLocal ==
  ASSUME TypeInv, NEW n \in Nodes, NEW entry, SetState(n, entry)
  PROVE  cache'[n] = entry /\ \A m \in Nodes \ {n} : cache'[m] = cache[m]
BY DEF TypeInv, CacheOK, SetState

(* Sending a request concerns one call.                                    *)
LEMMA CallLocal ==
  ASSUME TypeInv, NEW n \in Nodes, NEW what, Call(n, what)
  PROVE  step'[n] = what /\ \A m \in Nodes \ {n} : step'[m] = step[m]
BY DEF TypeInv, CallOK, Call

(* The job a pending node's call looks at.                                 *)
LEMMA MonitorSees ==
  ASSUME SafetyInv, NEW n \in Nodes, Monitor(n)
  PROVE  /\ cache[n].state \in {"pending", "in_progress"}
         /\ cache[n].job \in Seconds
         /\ JobSeen(n) = jobCache[n][cache[n].job]
         /\ Lags(JobSeen(n), jobs[n][cache[n].job].phase)
<1>1. cache[n].state \in {"pending", "in_progress"}
  BY DEF Monitor, Dispatch, CurrentState, NoState
<1>2. cache[n].job \in Seconds
  BY <1>1, BoundsAssumption
  DEF SafetyInv, EntriesMatch, EntryMatches, TypeInv, CacheOK, TimeOK, NodeState, Seconds
<1> QED BY <1>1, <1>2 DEF JobSeen, SafetyInv, JobsInv

(* Reconcile keeps the invariant.                                          *)
LEMMA ReconcileSafe ==
  ASSUME SafetyInv, NEW n \in Nodes, Reconcile(n)
  PROVE  SafetyInv'
<1>1. /\ Dequeue(n)
      /\ UNCHANGED <<node, jobs, feed, nodeCache, jobCache, orphans, age, sec>>
  BY ReconcileFrame
<1>2. TypeInv /\ TypeInv' /\ JobsAdvance /\ JobsInv'
  BY <1>1, ReconcileType, JobsStay DEF SafetyInv, JobsInv
<1>3. \A m \in Nodes : step[m] = "idle"
  BY <1>1 DEF Dequeue
<1>4. EntryMatches(cache[n], jobs[n]) /\ cache[n] \in NodeState
  BY <1>2 DEF SafetyInv, EntriesMatch, TypeInv, CacheOK
<1>5. ASSUME NEW entry, SetState(n, entry), UNCHANGED step, EntryMatches(entry, jobs[n])
      PROVE  SafetyInv'
  <2>1. cache'[n] = entry /\ \A m \in Nodes \ {n} : cache'[m] = cache[m]
    BY <1>2, <1>5, SetStateLocal
  <2>2. CallMatches(n)'
    BY <1>3, <1>5 DEF CallMatches, Deletion
  <2> QED BY <1>1, <1>2, <1>5, <2>1, <2>2, OneNode
<1>6. ASSUME UNCHANGED <<cache, step>> PROVE SafetyInv'
  BY <1>1, <1>2, <1>4, <1>6, CallStable, OneNode
<1>7. ASSUME NEW what, Call(n, what), UNCHANGED cache, CallMatches(n)' PROVE SafetyInv'
  BY <1>1, <1>2, <1>4, <1>7, CallLocal, OneNode
<1>8. EntryMatches(NoState, jobs[n]) /\ EntryMatches([cache[n] EXCEPT !.state = "unverified", !.job = 0], jobs[n])
  BY <1>4 DEF EntryMatches, NoState, NodeState
<1>9. CASE ReconcileDeleted(n) \/ ReconcileAlreadyVerified(n)
  BY <1>5, <1>8, <1>9 DEF ReconcileDeleted, ReconcileAlreadyVerified, call
<1>10. CASE \/ ReconcileGetFails(n) \/ ReconcileNoTaint(n) \/ BackOff(n)
            \/ GiveUp(n) \/ NothingToHandle(n)
  BY <1>6, <1>10
  DEF ReconcileGetFails, ReconcileNoTaint, BackOff, GiveUp, NothingToHandle, call
<1>11. CASE HandleUnverified(n)
  <2>1. /\ SetState(n, CurrentState(n)) /\ Call(n, "create")
        /\ CurrentState(n).state = "unverified"
    BY <1>11 DEF HandleUnverified, Dispatch
  <2>2. EntryMatches(CurrentState(n), jobs[n])
    BY <1>4 DEF EntryMatches, CurrentState, NoState
  <2>3. /\ cache'[n] = CurrentState(n) /\ step'[n] = "create"
        /\ \A m \in Nodes \ {n} : cache'[m] = cache[m] /\ step'[m] = step[m]
    BY <1>2, <2>1, SetStateLocal, CallLocal
  <2>4. CallMatches(n)'
    BY <2>1, <2>3 DEF CallMatches, Deletion
  <2> QED BY <1>1, <1>2, <2>2, <2>3, <2>4, OneNode
<1>12. CASE JobStatusUnknown(n) \/ Retry(n)
  BY <1>5, <1>8, <1>12 DEF JobStatusUnknown, Retry, call
<1>13. CASE JobUnfinished(n)
  <2>1. CASE /\ JobSeen(n) = "active"
             /\ SetState(n, [cache[n] EXCEPT !.state = "in_progress"])
    <3>1. EntryMatches([cache[n] EXCEPT !.state = "in_progress"], jobs[n])
      BY <1>4, <1>13, <2>1, MonitorSees
      DEF JobUnfinished, EntryMatches, Lags, Finished, NodeState
    <3> QED BY <1>5, <1>13, <2>1, <3>1 DEF JobUnfinished, call
  <2>2. CASE SetState(n, cache[n])
    BY <1>4, <1>5, <1>13, <2>2 DEF JobUnfinished, call
  <2> QED BY <1>13, <2>1, <2>2 DEF JobUnfinished
<1>14. CASE JobSucceeded(n)
  <2>1. /\ cache[n].state \in {"pending", "in_progress"}
        /\ MayRead(jobs[n][cache[n].job], "pass")
    BY <1>14, MonitorSees DEF JobSucceeded, Lags, Finished, MayRead
  <2>2. Call(n, "patch") /\ UNCHANGED <<cache, jobs>>
    BY <1>1, <1>14 DEF JobSucceeded
  <2>3. CallMatches(n)'
    BY <1>2, <2>1, <2>2, CallLocal DEF CallMatches, MayRead, Deletion
  <2> QED BY <1>7, <2>2, <2>3
<1>15. CASE JobFailed(n)
  <2>1. MayRead(jobs[n][cache[n].job], "fail") /\ cache[n].job \in Seconds
    BY <1>15, MonitorSees
    DEF JobFailed, Lags, Finished, MayRead, JobExitCodes, ExitCodes
  <2>2. cache[n].job # 0 /\ jobs[n][cache[n].job].phase # "absent"
    BY <2>1 DEF Seconds, MayRead
  <2>3. EntryMatches([cache[n] EXCEPT !.state = "failed"], jobs[n])
    BY <1>4, <2>1, <2>2 DEF EntryMatches, NodeState
  <2> QED BY <1>5, <1>15, <2>3 DEF JobFailed, call
<1>16. CASE DeleteFailed(n)
  <2>1. /\ Call(n, "find_claim") /\ UNCHANGED cache /\ DeleteFailedNodes
        /\ cache[n].state = "failed" /\ cache[n].attempts >= MaxRetries
    BY <1>16 DEF DeleteFailed, Dispatch, CurrentState, NoState
  <2>2. CallMatches(n)'
    BY <1>2, <2>1, CallLocal DEF CallMatches, Deletion
  <2> QED BY <1>7, <2>1, <2>2
<1> QED BY <1>9, <1>10, <1>11, <1>12, <1>13, <1>14, <1>15, <1>16 DEF Reconcile

-----------------------------------------------------------------------------
(* The requests.                                                           *)

(* An answer concerns one call.                                            *)
LEMMA AnswerLocal ==
  ASSUME TypeInv, NEW n \in Nodes, NEW what, Answer(n, what)
  PROVE  /\ step[n] = what /\ step'[n] = "idle"
         /\ \A m \in Nodes \ {n} : step'[m] = step[m]
         /\ CallMatches(n)' /\ UNCHANGED orphans
BY DEF TypeInv, CallOK, Answer, CallMatches, Deletion

(* A new job takes a second in which the node had none.                    *)
LEMMA StoreJobSafe ==
  ASSUME SafetyInv, NEW n \in Nodes, sec[n] < MaxSeconds, StoreJob(n), UNCHANGED jobCache,
         \A m \in Nodes : age'[m] = "fresh" => age[m] = "fresh" \/ m = n
  PROVE  /\ JobsAdvance /\ JobsInv'
         /\ sec[n] + 1 \in Seconds
         /\ jobs'[n][sec[n] + 1].phase = "pending"
<1>1. sec \in [Nodes -> 0 .. MaxSeconds] /\ sec[n] \in Nat /\ sec[n] + 1 \in Seconds
  BY BoundsAssumption DEF SafetyInv, TypeInv, TimeOK, Seconds
<1>2. jobs \in [Nodes -> [Seconds -> JobType]]
  BY DEF SafetyInv, TypeInv, JobsOK
<1>3. jobs'[n][sec[n] + 1].phase = "pending"
  BY <1>1, <1>2 DEF StoreJob, NoJob
<1>4. \A m \in Nodes, k \in Seconds :
        (m # n \/ k # sec[n] + 1) => jobs'[m][k] = jobs[m][k]
  BY <1>1, <1>2 DEF StoreJob
<1>5. jobs[n][sec[n] + 1].phase = "absent" /\ jobCache[n][sec[n] + 1] = "absent"
  BY <1>1 DEF SafetyInv, JobsInv, Lags, Finished
<1>6. JobsAdvance
  BY <1>1, <1>4, <1>5 DEF JobsAdvance, Advances, Finished
<1>7. ASSUME NEW m \in Nodes, NEW k \in Seconds
      PROVE  /\ Lags(jobCache'[m][k], jobs'[m][k].phase)
             /\ k > sec'[m] => jobs'[m][k].phase = "absent"
  <2>1. CASE m = n /\ k = sec[n] + 1
    BY <1>1, <1>5, <2>1 DEF StoreJob, Lags
  <2>2. CASE m # n \/ k # sec[n] + 1
    <3>1. k > sec'[m] => k > sec[m]
      BY <1>1 DEF StoreJob, Seconds
    <3> QED BY <1>4, <2>2, <3>1 DEF SafetyInv, JobsInv
  <2> QED BY <2>1, <2>2
<1>8. \A m \in Nodes : age'[m] = "fresh" => sec'[m] >= 1
  BY <1>1 DEF StoreJob, SafetyInv, JobsInv
<1> QED BY <1>1, <1>3, <1>6, <1>7, <1>8 DEF JobsInv

(* So does the job of a call.                                              *)
LEMMA AddJobSafe ==
  ASSUME SafetyInv, NEW n \in Nodes, step[n] = "create", AddJob(n), UNCHANGED jobCache
  PROVE  /\ JobsAdvance /\ JobsInv'
         /\ sec[n] + 1 \in Seconds
         /\ jobs'[n][sec[n] + 1].phase = "pending"
<1>1. StoreJob(n) /\ sec[n] < MaxSeconds
  BY DEF AddJob, SafetyInv, TypeInv, CallOK
<1>2. \A m \in Nodes : age'[m] = "fresh" => age[m] = "fresh" \/ m = n
  BY DEF AddJob, SafetyInv, TypeInv, TimeOK
<1> QED BY <1>1, <1>2, StoreJobSafe

(* Recording a job that exists keeps the entries matching.                 *)
LEMMA RecordJobSafe ==
  ASSUME SafetyInv, TypeInv', JobsInv', JobsAdvance, NEW n \in Nodes, NEW k \in Seconds,
         Answer(n, "create"), RecordJob(n, k), jobs'[n][k].phase # "absent"
  PROVE  SafetyInv'
<1> DEFINE entry == [state |-> "pending", job |-> k, attempts |-> cache[n].attempts + 1]
<1>1. SetState(n, entry)
  BY DEF RecordJob
<1>2. EntryMatches(entry, jobs'[n])
  BY DEF EntryMatches, Seconds
<1> HIDE DEF entry
<1>3. cache'[n] = entry /\ \A m \in Nodes \ {n} : cache'[m] = cache[m]
  BY <1>1, SetStateLocal DEF SafetyInv
<1> QED BY <1>2, <1>3, AnswerLocal, OneNode DEF SafetyInv

(* An answer that leaves the state cache alone.                            *)
LEMMA AnswerSafe ==
  ASSUME SafetyInv, TypeInv', JobsInv', JobsAdvance, NEW n \in Nodes, NEW what,
         Answer(n, what), UNCHANGED cache
  PROVE  SafetyInv'
<1>1. EntryMatches(cache'[n], jobs'[n])
  BY EntriesStable DEF SafetyInv
<1> QED BY <1>1, AnswerLocal, OneNode DEF SafetyInv

(* The answers to a creation keep the invariant.                           *)
LEMMA CreateWorkerJobSafe ==
  ASSUME SafetyInv, NEW n \in Nodes, CreateWorkerJob(n)
  PROVE  SafetyInv'
<1>1. TypeInv /\ TypeInv' /\ step[n] = "create"
  BY CreateWorkerJobType
  DEF SafetyInv, CreateWorkerJob, JobCreated, JobCreatedAnswerLost, JobNotCreated,
      JobAlreadyExists, Answer, AnswerError
<1>2. UNCHANGED <<jobs, jobCache, age, sec>> => JobsAdvance /\ JobsInv'
  BY JobsStay DEF SafetyInv, JobsInv
<1>3. CASE JobCreated(n)
  <2>1. Answer(n, "create") /\ AddJob(n) /\ RecordJob(n, sec[n] + 1) /\ UNCHANGED jobCache
    BY <1>3 DEF JobCreated, Answer
  <2> QED BY <1>1, <2>1, AddJobSafe, RecordJobSafe
<1>4. CASE JobCreatedAnswerLost(n)
  <2>1. Answer(n, "create") /\ AddJob(n) /\ UNCHANGED <<cache, jobCache>>
    BY <1>4 DEF JobCreatedAnswerLost, AnswerError, Answer
  <2> QED BY <1>1, <2>1, AddJobSafe, AnswerSafe
<1>5. CASE JobNotCreated(n)
  <2>1. Answer(n, "create") /\ UNCHANGED <<cache, jobs, jobCache, age, sec>>
    BY <1>5 DEF JobNotCreated, AnswerError, Answer, cluster, time
  <2> QED BY <1>1, <1>2, <2>1, AnswerSafe
<1>6. CASE JobAlreadyExists(n)
  <2>1. age[n] = "fresh" /\ UNCHANGED <<jobs, jobCache, age, sec>> /\ Answer(n, "create")
    BY <1>6 DEF JobAlreadyExists, AnswerError, Answer, cluster, time
  <2>2. CASE AnswerError(n, "create")
    BY <1>1, <1>2, <2>1, <2>2, AnswerSafe DEF AnswerError
  <2>3. CASE jobCache[n][sec[n]] # "absent" /\ RecordJob(n, sec[n])
    <3>1. sec[n] \in Seconds
      BY <1>1, <2>1, BoundsAssumption DEF SafetyInv, JobsInv, TypeInv, TimeOK, Seconds
    <3>2. jobs[n][sec[n]].phase # "absent"
      BY <2>3, <3>1 DEF SafetyInv, JobsInv, Lags, Finished
    <3> QED BY <1>1, <1>2, <2>1, <2>3, <3>1, <3>2, RecordJobSafe
  <2> QED BY <1>6, <2>2, <2>3 DEF JobAlreadyExists
<1> QED BY <1>3, <1>4, <1>5, <1>6 DEF CreateWorkerJob

(* The answers to a patch keep the invariant.                              *)
LEMMA UpdateNodeMetadataSafe ==
  ASSUME SafetyInv, NEW n \in Nodes, UpdateNodeMetadata(n)
  PROVE  SafetyInv'
<1>1. /\ Answer(n, "patch")
      /\ UNCHANGED <<jobs, jobCache, age, sec>>
      /\ UNCHANGED cache \/ SetState(n, [cache[n] EXCEPT !.state = "verified"])
  BY DEF UpdateNodeMetadata, NodePatched, NodePatchedAnswerLost, NodeNotPatched,
         Answer, AnswerError, PatchApplies, cluster, time
<1>2. TypeInv /\ TypeInv' /\ JobsAdvance /\ JobsInv'
  BY <1>1, UpdateNodeMetadataType, JobsStay DEF SafetyInv, JobsInv
<1>3. CASE UNCHANGED cache
  BY <1>1, <1>2, <1>3, AnswerSafe
<1>4. CASE SetState(n, [cache[n] EXCEPT !.state = "verified"])
  <2>1. CallMatches(n) /\ EntryMatches(cache[n], jobs[n]) /\ cache[n] \in NodeState
    BY DEF SafetyInv, CallInv, EntriesMatch, TypeInv, CacheOK
  <2>2. EntryMatches([cache[n] EXCEPT !.state = "verified"], jobs[n])
    BY <1>1, <1>2, <2>1, AnswerLocal DEF CallMatches, EntryMatches, NodeState
  <2>3. /\ cache'[n] = [cache[n] EXCEPT !.state = "verified"]
        /\ \A m \in Nodes \ {n} : cache'[m] = cache[m]
    BY <1>2, <1>4, SetStateLocal
  <2> QED BY <1>1, <1>2, <2>2, <2>3, AnswerLocal, OneNode
<1> QED BY <1>1, <1>3, <1>4

(* A deletion that goes on keeps the invariant.                            *)
LEMMA ProceedsSafe ==
  ASSUME SafetyInv, NEW n \in Nodes, Proceeds(n)
  PROVE  SafetyInv'
<1>1. PICK from \in Deletion, to \in Deletion : Proceed(n, from, to)
  BY DEF Proceeds
<1>2. /\ UNCHANGED <<jobs, jobCache, cache, orphans, age, sec>>
      /\ step[n] \in Deletion /\ step'[n] \in Deletion
      /\ \A m \in Nodes \ {n} : step'[m] = step[m]
  BY <1>1 DEF Proceed, cluster, informers, time, SafetyInv, TypeInv, CallOK
<1>3. TypeInv /\ TypeInv' /\ JobsAdvance /\ JobsInv'
  BY <1>2, ProceedsType, JobsStay DEF SafetyInv, JobsInv
<1>4. CallMatches(n)'
  BY <1>2 DEF SafetyInv, CallInv, CallMatches, Deletion
<1>5. EntryMatches(cache'[n], jobs'[n])
  BY <1>2 DEF SafetyInv, EntriesMatch
<1> QED BY <1>2, <1>3, <1>4, <1>5, OneNode

(* The answers to a deletion keep the invariant.                           *)
LEMMA DeletionAnsweredSafe ==
  ASSUME SafetyInv, NEW n \in Nodes, DeletionAnswered(n)
  PROVE  SafetyInv'
<1>1. /\ \E what \in Deletion : Answer(n, what)
      /\ UNCHANGED <<jobs, jobCache, age, sec>>
      /\ UNCHANGED cache \/ SetState(n, [cache[n] EXCEPT !.state = "deleting"])
  BY DEF DeletionAnswered, ClaimDeleted, NodeDeletedDirectly, NodeDeletedAnswerLost,
         NodeNotDeleted, Answer, AnswerError, Deletion, cluster, time
<1>2. TypeInv /\ TypeInv' /\ JobsAdvance /\ JobsInv'
  BY <1>1, DeletionAnsweredType, JobsStay DEF SafetyInv, JobsInv
<1>3. CASE UNCHANGED cache
  BY <1>1, <1>2, <1>3, AnswerSafe
<1>4. CASE SetState(n, [cache[n] EXCEPT !.state = "deleting"])
  <2>1. CallMatches(n) /\ EntryMatches(cache[n], jobs[n]) /\ cache[n] \in NodeState
    BY DEF SafetyInv, CallInv, EntriesMatch, TypeInv, CacheOK
  <2>2. EntryMatches([cache[n] EXCEPT !.state = "deleting"], jobs[n])
    BY <1>1, <1>2, <2>1, AnswerLocal DEF CallMatches, EntryMatches, NodeState
  <2>3. /\ cache'[n] = [cache[n] EXCEPT !.state = "deleting"]
        /\ \A m \in Nodes \ {n} : cache'[m] = cache[m]
    BY <1>2, <1>4, SetStateLocal
  <2> QED BY <1>1, <1>2, <2>2, <2>3, AnswerLocal, OneNode
<1> QED BY <1>1, <1>3, <1>4

(* Every step of a deletion keeps the invariant.                           *)
LEMMA DeleteNodeSafe ==
  ASSUME SafetyInv, NEW n \in Nodes, DeleteNode(n)
  PROVE  SafetyInv'
BY DeleteNodeCases, ProceedsSafe, DeletionAnsweredSafe

-----------------------------------------------------------------------------
(* Everything else leaves the state cache and the calls alone, or starts   *)
(* them anew.                                                              *)

(* A step that leaves entries and calls alone and only advances the jobs.  *)
LEMMA OthersSafe ==
  ASSUME SafetyInv, TypeInv', JobsInv', JobsAdvance, UNCHANGED <<cache, step>>,
         orphans' \subseteq orphans
  PROVE  SafetyInv'
<1>1. EntriesMatch'
  BY EntriesStable DEF SafetyInv, EntriesMatch
<1>2. CallInv'
  BY CallStable DEF CallInv
<1>3. OrphansEarned'
  BY OrphansStable DEF SafetyInv
<1> QED BY <1>1, <1>2, <1>3 DEF SafetyInv

(* Deliveries, relists and timers keep the invariant.                      *)
LEMMA InformerSafe ==
  ASSUME SafetyInv, NEW n \in Nodes,
         SyncNode(n) \/ Relist(n) \/ TimerFires(n) \/ \E k \in Seconds : SyncJob(n, k)
  PROVE  SafetyInv'
<1>1. TypeInv' /\ UNCHANGED <<jobs, cache, step, orphans, age, sec>>
  BY InformerType DEF SafetyInv, SyncNode, Relist, TimerFires, SyncJob, cluster, call, time
<1>2. JobsInv'
  <2>1. CASE UNCHANGED jobCache
    BY <1>1, <2>1 DEF SafetyInv, JobsInv
  <2>2. ASSUME NEW k \in Seconds, SyncJob(n, k) PROVE JobsInv'
    <3>1. jobs[n][k].phase \in Phases
      BY DEF SafetyInv, TypeInv, JobsOK, JobType
    <3>2. Lags(Visible(jobs[n][k]), jobs[n][k].phase)
      BY <3>1 DEF Visible, Lags, Finished, Phases
    <3>3. jobCache' = [jobCache EXCEPT ![n][k] = Visible(jobs[n][k])]
      BY <2>2 DEF SyncJob
    <3>4. jobCache \in [Nodes -> [Seconds -> Phases]]
      BY DEF SafetyInv, TypeInv, JobsOK
    <3> QED BY <1>1, <3>2, <3>3, <3>4 DEF SafetyInv, JobsInv
  <2> QED BY <2>1, <2>2 DEF SyncNode, Relist, TimerFires, informers
<1> QED BY <1>1, <1>2, JobsStay, OthersSafe

(* A job that a state of the cache is read from is one of the node's.      *)
LEMMA EntryReads ==
  ASSUME SafetyInv, NEW n \in Nodes, NEW verdict, cache[n].job # 0,
         MayRead(jobs[n][cache[n].job], verdict)
  PROVE  SomeJobReads(n, verdict)
<1>1. cache[n].job \in Seconds
  BY BoundsAssumption DEF SafetyInv, TypeInv, CacheOK, TimeOK, NodeState, Seconds
<1> QED BY <1>1 DEF SomeJobReads

(* What is under way when a process ends has been called for.              *)
LEMMA InFlightEarned ==
  ASSUME SafetyInv
  PROVE  \A r \in InFlight : Earned(r)
<1> SUFFICES ASSUME NEW n \in Nodes
             PROVE  /\ step[n] = "patch" => SomeJobReads(n, "pass")
                    /\ step[n] = "delete" => DeleteFailedNodes /\ SomeJobReads(n, "fail")
  BY DEF InFlight, Earned
<1>1. CallMatches(n) /\ EntryMatches(cache[n], jobs[n])
  BY DEF SafetyInv, CallInv, EntriesMatch
<1>2. step[n] = "patch" => SomeJobReads(n, "pass")
  BY <1>1, EntryReads DEF CallMatches, EntryMatches
<1>3. step[n] = "delete" => DeleteFailedNodes /\ SomeJobReads(n, "fail")
  BY <1>1, EntryReads DEF CallMatches, EntryMatches, Deletion
<1> QED BY <1>2, <1>3

(* A restart keeps the invariant.                                          *)
LEMMA RestartSafe ==
  ASSUME SafetyInv, Restart
  PROVE  SafetyInv'
<1>1. TypeInv'
  BY RestartType DEF SafetyInv
<1>2. JobsInv'
  <2>1. \A n \in Nodes, k \in Seconds : jobs[n][k].phase \in Phases
    BY DEF SafetyInv, TypeInv, JobsOK, JobType
  <2>2. \A n \in Nodes, k \in Seconds : Lags(Visible(jobs[n][k]), jobs[n][k].phase)
    BY <2>1 DEF Visible, Lags, Finished, Phases
  <2> QED BY <2>2 DEF SafetyInv, JobsInv, Restart, cluster, time
<1>3. EntriesMatch' /\ CallInv'
  BY DEF EntriesMatch, EntryMatches, NoState, CallInv, CallMatches, Restart, Deletion
<1>4. OrphansEarned'
  <2>1. UNCHANGED jobs /\ orphans' = orphans \cup InFlight
    BY DEF Restart, cluster
  <2>2. \A r \in orphans \cup InFlight : Earned(r)
    BY InFlightEarned DEF SafetyInv, OrphansEarned
  <2> QED BY <2>1, <2>2 DEF OrphansEarned, Earned, SomeJobReads
<1> QED BY <1>1, <1>2, <1>3, <1>4 DEF SafetyInv

(* A late request keeps the invariant.                                     *)
LEMMA OrphanLandsSafe ==
  ASSUME SafetyInv, NEW r \in orphans, OrphanLands(r)
  PROVE  SafetyInv'
<1>1. TypeInv /\ TypeInv'
  BY OrphanLandsType DEF SafetyInv
<1>2. UNCHANGED <<jobCache, cache, step, age>> /\ orphans' \subseteq orphans
  BY <1>1, OrphanCases
<1>3. r.node \in Nodes
  BY <1>1, OrphanCases
<1>4. JobsAdvance /\ JobsInv'
  <2>1. CASE UNCHANGED <<jobs, sec>>
    BY <1>2, <2>1, JobsStay DEF SafetyInv, JobsInv
  <2>2. CASE StoreJob(r.node) /\ sec[r.node] < MaxSeconds
    BY <1>2, <1>3, <2>2, StoreJobSafe
  <2> QED BY <1>1, <2>1, <2>2, OrphanCases
<1> QED BY <1>1, <1>2, <1>4, OthersSafe

(* Changes of nodes by others keep it.                                     *)
LEMMA NodeChangesSafe ==
  ASSUME SafetyInv, NEW n \in Nodes, NodeChanges(n)
  PROVE  SafetyInv'
<1>1. TypeInv' /\ UNCHANGED <<jobs, jobCache, cache, step, orphans, age, sec>>
  BY NodeChangesType, NodeChangesStore DEF SafetyInv, process, call, time
<1>2. JobsInv'
  BY <1>1 DEF SafetyInv, JobsInv
<1> QED BY <1>1, <1>2, JobsStay, OthersSafe

(* Jobs only move forward.                                                 *)
LEMMA JobChangeAdvances ==
  ASSUME SafetyInv, NEW n \in Nodes, NEW k \in Seconds, JobChange(n, k)
  PROVE  \E job \in JobType : /\ JobChanges(n, k, job)
                              /\ Advances(jobs[n][k], job)
                              /\ jobs[n][k].phase = "absent" => job.phase = "absent"
<1>1. jobs[n][k] \in JobType /\ node[n].uid \in Nat
  BY DEF SafetyInv, TypeInv, JobsOK, ClusterOK, NodeType
<1> USE <1>1 DEF JobType, Phases, Advances, Finished
<1>2. CASE JobStarts(n, k)
  BY <1>2 DEF JobStarts
<1>3. CASE JobCompletes(n, k)
  BY <1>3 DEF JobCompletes
<1>4. CASE JobFails(n, k)
  BY <1>4 DEF JobFails
<1>5. CASE PodFails(n, k)
  BY <1>5 DEF PodFails
<1>6. CASE JobDeleted(n, k)
  <2> DEFINE gone == [jobs[n][k] EXCEPT !.live = FALSE]
  <2>1. JobChanges(n, k, gone)
    BY <1>6 DEF JobDeleted
  <2>2. gone \in JobType /\ gone.phase = jobs[n][k].phase /\ gone.flaky = jobs[n][k].flaky
    BY <1>1
  <2> HIDE DEF gone
  <2> QED BY <2>1, <2>2
<1> QED BY <1>2, <1>3, <1>4, <1>5, <1>6 DEF JobChange, JobRuns

(* Changes of jobs keep the invariant.                                     *)
LEMMA JobChangeSafe ==
  ASSUME SafetyInv, NEW n \in Nodes, NEW k \in Seconds, JobChange(n, k)
  PROVE  SafetyInv'
<1>1. TypeInv'
  BY JobChangeType DEF SafetyInv
<1>2. PICK job \in JobType : /\ JobChanges(n, k, job)
                             /\ Advances(jobs[n][k], job)
                             /\ jobs[n][k].phase = "absent" => job.phase = "absent"
  BY JobChangeAdvances
<1>3. /\ jobs' = [jobs EXCEPT ![n][k] = job]
      /\ UNCHANGED <<jobCache, cache, step, orphans, age, sec>>
  BY <1>2 DEF JobChanges, process, call, time
<1>4. jobs \in [Nodes -> [Seconds -> JobType]]
  BY DEF SafetyInv, TypeInv, JobsOK
<1>5. JobsAdvance
  BY <1>2, <1>3, <1>4 DEF JobsAdvance, Advances
<1>6. ASSUME NEW m \in Nodes, NEW h \in Seconds
      PROVE  /\ Lags(jobCache'[m][h], jobs'[m][h].phase)
             /\ h > sec'[m] => jobs'[m][h].phase = "absent"
  <2>1. Advances(jobs[m][h], jobs'[m][h]) /\ Lags(jobCache[m][h], jobs[m][h].phase)
    BY <1>5 DEF JobsAdvance, SafetyInv, JobsInv
  <2>2. Lags(jobCache[m][h], jobs'[m][h].phase)
    BY <2>1 DEF Advances, Lags, Finished
  <2>3. h > sec[m] => jobs'[m][h].phase = "absent"
    BY <1>2, <1>3, <1>4 DEF SafetyInv, JobsInv
  <2> QED BY <1>3, <2>2, <2>3
<1>7. JobsInv'
  BY <1>3, <1>6 DEF SafetyInv, JobsInv
<1> QED BY <1>1, <1>3, <1>5, <1>7, OthersSafe

(* Time passing keeps it.                                                  *)
LEMMA TickSafe ==
  ASSUME SafetyInv, NEW n \in Nodes, Tick(n)
  PROVE  SafetyInv'
<1>1. TypeInv' /\ UNCHANGED <<jobs, jobCache, cache, step, orphans, sec>>
  BY TickType DEF SafetyInv, Tick, cluster, process, call
<1>2. \A m \in Nodes : age'[m] = "fresh" => age[m] = "fresh"
  BY DEF SafetyInv, TypeInv, TimeOK, Tick
<1>3. JobsInv'
  BY <1>1, <1>2 DEF SafetyInv, JobsInv
<1> QED BY <1>1, <1>3, JobsStay, OthersSafe

-----------------------------------------------------------------------------
(* The invariant holds at the start.                                       *)
LEMMA SafetyInit == Init => SafetyInv
<1> SUFFICES ASSUME Init PROVE SafetyInv
  OBVIOUS
<1>1. TypeInv
  BY TypeInit
<1>2. JobsInv
  BY DEF Init, JobsInv, Lags, NoJob
<1>3. EntriesMatch /\ CallInv
  BY DEF Init, EntriesMatch, EntryMatches, NoState, CallInv, CallMatches, Deletion
<1>4. OrphansEarned
  BY DEF Init, OrphansEarned
<1> QED BY <1>1, <1>2, <1>3, <1>4 DEF SafetyInv

(* Every step keeps the invariant.                                         *)
LEMMA SafetyStep == SafetyInv /\ [Next]_vars => SafetyInv'
<1> SUFFICES ASSUME SafetyInv, [Next]_vars PROVE SafetyInv'
  OBVIOUS
<1>1. ASSUME NEW n \in Nodes, Reconcile(n) PROVE SafetyInv'
  BY <1>1, ReconcileSafe
<1>2. ASSUME NEW n \in Nodes, Request(n) PROVE SafetyInv'
  BY <1>2, CreateWorkerJobSafe, UpdateNodeMetadataSafe, DeleteNodeSafe DEF Request
<1>3. ASSUME NEW n \in Nodes,
             SyncNode(n) \/ Relist(n) \/ TimerFires(n) \/ \E k \in Seconds : SyncJob(n, k)
      PROVE SafetyInv'
  BY <1>3, InformerSafe
<1>4. ASSUME NEW n \in Nodes, NodeChanges(n) PROVE SafetyInv'
  BY <1>4, NodeChangesSafe
<1>5. ASSUME NEW n \in Nodes, NEW k \in Seconds, JobChange(n, k) PROVE SafetyInv'
  BY <1>5, JobChangeSafe
<1>6. ASSUME NEW n \in Nodes, Tick(n) PROVE SafetyInv'
  BY <1>6, TickSafe
<1>7. CASE Restart
  BY <1>7, RestartSafe
<1>8. CASE UNCHANGED vars
  <2>1. TypeInv'
    BY <1>8, TypeStep DEF SafetyInv
  <2>2. JobsInv'
    BY <1>8 DEF SafetyInv, JobsInv, vars
  <2> QED BY <1>8, <2>1, <2>2, JobsStay, OthersSafe DEF vars
<1>9. ASSUME NEW r \in orphans, OrphanLands(r) PROVE SafetyInv'
  BY <1>9, OrphanLandsSafe
<1> QED BY <1>1, <1>2, <1>3, <1>4, <1>5, <1>6, <1>7, <1>8, <1>9
        DEF Next, NodeChanges, JobChange

(* The invariant of every behaviour.                                       *)
LEMMA SafetyInvariant == Spec => []SafetyInv
BY SafetyInit, SafetyStep, PTL DEF Spec

(* It implies the property the runs check.                                 *)
LEMMA SafetyInvImpliesMatch == SafetyInv => StateMatchesJob
<1> SUFFICES ASSUME SafetyInv, NEW n \in Nodes
             PROVE  /\ EntryMatches(cache[n], jobs[n])
                    /\ step[n] = "patch" => MayRead(jobs[n][cache[n].job], "pass")
  BY DEF StateMatchesJob, EntryMatches
<1> QED BY DEF SafetyInv, EntriesMatch, CallInv, CallMatches

(* The controller's memory never runs ahead of the jobs: for any number of *)
(* nodes, jobs, lost answers, stale informers and restarts, a state is one *)
(* its job has reached.                                                    *)
THEOREM StatesMatchJobs == Spec => []StateMatchesJob
BY SafetyInvariant, SafetyInvImpliesMatch, PTL

-----------------------------------------------------------------------------
(* The irreversible acts.                                                  *)

(* Only a patch adds the label, the one that is answered or a late one.    *)
LEMMA LabelIsPatched ==
  ASSUME SafetyInv, [Next]_vars, NEW n \in Nodes, node'[n].labeled, ~node[n].labeled
  PROVE  step[n] = "patch" \/ \E r \in orphans : r.node = n /\ r.what = "patch"
<1>1. node \in [Nodes -> NodeType]
  BY DEF SafetyInv, TypeInv, ClusterOK
<1>2. ASSUME NEW m \in Nodes, NodeChanges(m) PROVE FALSE
  <2>1. PICK obj : Store(m, obj) /\ (obj.labeled => node[m].labeled)
    <3>1. node[m] \in NodeType
      BY <1>1
    <3>2. ASSUME NEW list, ChangeTaints(m, list)
          PROVE  \E obj : Store(m, obj) /\ (obj.labeled => node[m].labeled)
      BY <3>1, <3>2 DEF ChangeTaints, NodeType
    <3>3. CASE RegisterNode(m)
      BY <3>3 DEF RegisterNode
    <3>4. CASE NodeGone(m)
      BY <3>4 DEF NodeGone, NoNode
    <3>5. CASE RemoveLabel(m)
      BY <3>1, <3>5 DEF RemoveLabel, NodeType
    <3> QED BY <1>2, <3>2, <3>3, <3>4, <3>5 DEF NodeChanges, AddTaint, RemoveTaint
  <2> QED BY <1>1, <2>1 DEF Store
<1>3. ASSUME NEW m \in Nodes, UpdateNodeMetadata(m) PROVE step[n] = "patch"
  BY <1>1, <1>3
  DEF UpdateNodeMetadata, NodePatched, NodePatchedAnswerLost, NodeNotPatched,
      PatchApplies, Store, Answer, AnswerError, cluster
<1>4. ASSUME NEW m \in Nodes, DeleteNode(m) PROVE FALSE
  BY <1>1, <1>4
  DEF DeleteNode, ClaimFound, ClaimNotFound, ClaimNotDeleted, Proceed, ClaimDeleted,
      NodeDeletedDirectly, NodeDeletedAnswerLost, NodeNotDeleted, Store, NoNode, cluster
<1>5. ASSUME NEW m \in Nodes, CreateWorkerJob(m) PROVE FALSE
  BY <1>5 DEF CreateWorkerJob, JobCreated, JobCreatedAnswerLost, JobNotCreated,
              JobAlreadyExists, AddJob, StoreJob, cluster
<1>6. ASSUME NEW m \in Nodes, Reconcile(m) PROVE FALSE
  BY <1>6, ReconcileFrame
<1>7. ASSUME NEW m \in Nodes, NEW k \in Seconds, JobChange(m, k) PROVE FALSE
  BY <1>7 DEF JobChange, JobRuns, JobStarts, JobCompletes, JobFails, PodFails,
              JobDeleted, JobChanges
<1>8. ASSUME NEW r \in orphans, OrphanLands(r)
      PROVE  r.node = n /\ r.what = "patch"
  <2>1. CASE StoreJob(r.node)
    BY <2>1 DEF StoreJob
  <2>2. CASE PatchApplies(r.node, r.taints) /\ r.what = "patch"
    BY <1>1, <2>2 DEF PatchApplies, Store
  <2>3. CASE Store(r.node, NoNode)
    BY <1>1, <2>3 DEF Store, NoNode
  <2> QED BY <1>8, <2>1, <2>2, <2>3, OrphanCases DEF SafetyInv
<1>9. node' # node
  OBVIOUS
<1> QED BY <1>2, <1>3, <1>4, <1>5, <1>6, <1>7, <1>8, <1>9
        DEF Next, Request, NodeChanges, JobChange, SyncNode, Relist, TimerFires,
            SyncJob, Tick, Restart, cluster, vars

(* Requests are left behind by a restart and taken when they land.         *)
LEMMA OrphansChange ==
  ASSUME [Next]_vars
  PROVE  UNCHANGED orphans \/ Restart \/ \E r \in orphans : OrphanLands(r)
<1>1. ASSUME NEW n \in Nodes, Reconcile(n) PROVE UNCHANGED orphans
  BY <1>1, ReconcileFrame
<1>2. ASSUME NEW n \in Nodes, Request(n) PROVE UNCHANGED orphans
  BY <1>2
  DEF Request, CreateWorkerJob, JobCreated, JobCreatedAnswerLost, JobNotCreated,
      JobAlreadyExists, UpdateNodeMetadata, NodePatched, NodePatchedAnswerLost,
      NodeNotPatched, DeleteNode, ClaimFound, ClaimNotFound, ClaimDeleted,
      ClaimNotDeleted, NodeDeletedDirectly, NodeDeletedAnswerLost, NodeNotDeleted,
      Proceed, Answer, AnswerError
<1>3. ASSUME NEW n \in Nodes, NodeChanges(n) PROVE UNCHANGED orphans
  BY <1>3
  DEF NodeChanges, RegisterNode, NodeGone, AddTaint, RemoveTaint, RemoveLabel,
      ChangeTaints, process, call
<1>4. ASSUME NEW n \in Nodes, NEW k \in Seconds, JobChange(n, k) PROVE UNCHANGED orphans
  BY <1>4 DEF JobChange, JobRuns, JobStarts, JobCompletes, JobFails, PodFails,
              JobDeleted, JobChanges, process, call
<1> QED BY <1>1, <1>2, <1>3, <1>4
        DEF Next, NodeChanges, JobChange, SyncNode, Relist, TimerFires, SyncJob, Tick,
            process, call, vars

(* A late request that takes a node away is a deletion of it.              *)
LEMMA OrphanDeletes ==
  ASSUME SafetyInv, [Next]_vars, orphans' # orphans, NEW n \in Nodes,
         node[n].uid # 0, node'[n].uid = 0
  PROVE  \E r \in orphans : r.node = n /\ r.what = "delete"
<1>1. node \in [Nodes -> NodeType] /\ node'[n] # node[n]
  BY DEF SafetyInv, TypeInv, ClusterOK
<1>2. PICK r \in orphans : OrphanLands(r)
  BY <1>1, OrphansChange DEF Restart, cluster
<1>3. CASE StoreJob(r.node)
  BY <1>1, <1>3 DEF StoreJob
<1>4. CASE PatchApplies(r.node, r.taints)
  <2>1. PICK list : Store(r.node, [node[r.node] EXCEPT !.taints = list, !.labeled = TRUE])
    BY <1>4 DEF PatchApplies
  <2>2. [node[r.node] EXCEPT !.taints = list, !.labeled = TRUE].uid = node[r.node].uid
    BY <1>1, <1>2, OrphanCases DEF SafetyInv, NodeType
  <2>3. node'[n].uid = node[n].uid
    BY <1>1, <2>1, <2>2 DEF Store
  <2> QED BY <2>3
<1>5. CASE Store(r.node, NoNode) /\ r.what = "delete"
  BY <1>1, <1>2, <1>5 DEF Store
<1> QED BY <1>2, <1>3, <1>4, <1>5, OrphanCases DEF SafetyInv

(* Every step of the irreversible kinds is earned.                         *)
LEMMA VerdictStep ==
  ASSUME SafetyInv, [Next]_vars, NEW n \in Nodes
  PROVE  /\ node'[n].labeled /\ ~node[n].labeled
              => \E k \in Seconds : MayRead(jobs[n][k], "pass")
         /\ step[n] \in Deletion /\ step'[n] = "idle"
              /\ (node'[n] # node[n] \/ cache'[n].state = "deleting")
              => /\ cache[n].attempts >= MaxRetries
                 /\ MayRead(jobs[n][cache[n].job], "fail")
         /\ orphans' # orphans /\ node[n].uid # 0 /\ node'[n].uid = 0
              => DeleteFailedNodes /\ \E k \in Seconds : MayRead(jobs[n][k], "fail")
<1>1. CallMatches(n) /\ EntryMatches(cache[n], jobs[n]) /\ OrphansEarned
  BY DEF SafetyInv, CallInv, EntriesMatch
<1>2. step[n] = "patch" => SomeJobReads(n, "pass")
  BY <1>1, EntryReads DEF CallMatches, EntryMatches
<1>3. step[n] \in Deletion => /\ cache[n].attempts >= MaxRetries
                              /\ MayRead(jobs[n][cache[n].job], "fail")
  BY <1>1 DEF CallMatches, EntryMatches
<1>4. node'[n].labeled /\ ~node[n].labeled => SomeJobReads(n, "pass")
  BY <1>1, <1>2, LabelIsPatched DEF OrphansEarned, Earned
<1>5. orphans' # orphans /\ node[n].uid # 0 /\ node'[n].uid = 0
        => DeleteFailedNodes /\ SomeJobReads(n, "fail")
  BY <1>1, OrphanDeletes DEF OrphansEarned, Earned
<1> QED BY <1>3, <1>4, <1>5 DEF SomeJobReads

(* No interleaving of failures, restarts and other writers makes the       *)
(* controller label a node for whose name no job has completed, or remove  *)
(* one before maxRetries attempts and a failed verification; nor does a    *)
(* request that outlives the process which sent it.                        *)
THEOREM VerdictsEarned == Spec => VerdictsAreEarned
<1> DEFINE AllEarned ==
      \A n \in Nodes :
        /\ node'[n].labeled /\ ~node[n].labeled
             => \E k \in Seconds : MayRead(jobs[n][k], "pass")
        /\ step[n] \in Deletion /\ step'[n] = "idle"
             /\ (node'[n] # node[n] \/ cache'[n].state = "deleting")
             => /\ cache[n].attempts >= MaxRetries
                /\ MayRead(jobs[n][cache[n].job], "fail")
        /\ orphans' # orphans /\ node[n].uid # 0 /\ node'[n].uid = 0
             => DeleteFailedNodes /\ \E k \in Seconds : MayRead(jobs[n][k], "fail")
<1>1. SafetyInv /\ [Next]_vars => [AllEarned]_vars
  BY VerdictStep
<1> QED BY <1>1, SafetyInvariant, PTL DEF Spec, VerdictsAreEarned

-----------------------------------------------------------------------------
(* A node that needs verification is not forgotten.                        *)

(* What keeps a node scheduled: it stays on its way to the reconciler, or  *)
(* it becomes known and no longer needs to be.                             *)
LEMMA StaysScheduled ==
  ASSUME NewNodeIsScheduled, NEW n \in Nodes,
         nodeCache'[n] = nodeCache[n],
         cache'[n].state = "none" => cache[n].state = "none",
         n \in queue \cup delayed => n \in queue' \cup delayed'
  PROVE  NeedsVerification(nodeCache'[n]) /\ cache'[n].state = "none"
           => n \in queue' \cup delayed'
BY DEF NewNodeIsScheduled

(* Reconcile loses no new node.                                            *)
LEMMA ReconcileSchedules ==
  ASSUME TypeInv, NewNodeIsScheduled, NEW n \in Nodes, Reconcile(n)
  PROVE  NewNodeIsScheduled'
<1>1. Dequeue(n) /\ UNCHANGED nodeCache /\ (delayed' = delayed \/ Requeue(n))
  BY ReconcileFrame
<1>2. \A m \in Nodes \ {n} : cache'[m] = cache[m]
  BY SetStateLocal
  DEF Reconcile, ReconcileDeleted, ReconcileGetFails, ReconcileAlreadyVerified,
      ReconcileNoTaint, HandleUnverified, JobStatusUnknown, JobUnfinished,
      JobSucceeded, JobFailed, BackOff, Retry, GiveUp, DeleteFailed, NothingToHandle
<1>3. \A m \in Nodes \ {n} : m \in queue \cup delayed => m \in queue' \cup delayed'
  BY <1>1 DEF Dequeue, Requeue
<1>4. cache[n] \in NodeState
  BY DEF TypeInv, CacheOK
<1>5. NeedsVerification(nodeCache[n]) /\ cache'[n].state = "none" => n \in delayed'
  <2>1. CASE ReconcileDeleted(n) \/ ReconcileAlreadyVerified(n) \/ ReconcileNoTaint(n)
    BY <2>1
    DEF ReconcileDeleted, ReconcileAlreadyVerified, ReconcileNoTaint, NeedsVerification
  <2>2. CASE ReconcileGetFails(n)
    BY <2>2 DEF ReconcileGetFails, Requeue
  <2>3. CASE HandleUnverified(n)
    <3>1. SetState(n, CurrentState(n)) /\ CurrentState(n).state = "unverified"
      BY <2>3 DEF HandleUnverified, Dispatch
    <3> QED BY <3>1, SetStateLocal
  <2>4. CASE JobStatusUnknown(n) \/ JobFailed(n) \/ BackOff(n)
    BY <2>4 DEF JobStatusUnknown, JobFailed, BackOff, Requeue
  <2>5. CASE JobSucceeded(n) \/ DeleteFailed(n) \/ GiveUp(n) \/ NothingToHandle(n)
    BY <2>5
    DEF JobSucceeded, DeleteFailed, GiveUp, NothingToHandle, Monitor, Dispatch,
        CurrentState, NoState
  <2>6. CASE JobUnfinished(n)
    <3>1. /\ cache[n].state # "none"
          /\ \/ SetState(n, [cache[n] EXCEPT !.state = "in_progress"])
             \/ SetState(n, cache[n])
      BY <2>6 DEF JobUnfinished, Monitor, Dispatch, CurrentState, NoState
    <3> QED BY <1>4, <3>1, SetStateLocal DEF NodeState
  <2>7. CASE Retry(n)
    <3> DEFINE entry == [cache[n] EXCEPT !.state = "unverified", !.job = 0]
    <3>1. SetState(n, entry) /\ entry.state = "unverified"
      BY <1>4, <2>7 DEF Retry, NodeState
    <3> HIDE DEF entry
    <3> QED BY <3>1, SetStateLocal
  <2> QED BY <2>1, <2>2, <2>3, <2>4, <2>5, <2>6, <2>7 DEF Reconcile
<1> QED BY <1>1, <1>2, <1>3, <1>5, StaysScheduled DEF NewNodeIsScheduled

(* Nor does an answer.                                                     *)
LEMMA RequestSchedules ==
  ASSUME TypeInv, NewNodeIsScheduled, NEW n \in Nodes, Request(n)
  PROVE  NewNodeIsScheduled'
<1>1. UNCHANGED <<queue, nodeCache>> /\ (delayed' = delayed \/ Requeue(n))
  BY DEF Request, CreateWorkerJob, JobCreated, JobCreatedAnswerLost, JobNotCreated,
         JobAlreadyExists, UpdateNodeMetadata, NodePatched, NodePatchedAnswerLost,
         NodeNotPatched, DeleteNode, ClaimFound, ClaimNotFound, ClaimDeleted,
         ClaimNotDeleted, NodeDeletedDirectly, NodeDeletedAnswerLost, NodeNotDeleted,
         Proceed, informers, Answer, AnswerError
<1>2. \/ UNCHANGED cache
      \/ \E k : RecordJob(n, k)
      \/ \E state \in {"verified", "deleting"} :
           SetState(n, [cache[n] EXCEPT !.state = state])
  BY DEF Request, CreateWorkerJob, JobCreated, JobCreatedAnswerLost, JobNotCreated,
         JobAlreadyExists, UpdateNodeMetadata, NodePatched, NodePatchedAnswerLost,
         NodeNotPatched, DeleteNode, ClaimFound, ClaimNotFound, ClaimDeleted,
         ClaimNotDeleted, NodeDeletedDirectly, NodeDeletedAnswerLost, NodeNotDeleted,
         Proceed, AnswerError
<1>3. cache[n] \in NodeState
  BY DEF TypeInv, CacheOK
<1>4. \A m \in Nodes : cache'[m].state = "none" => cache[m].state = "none"
  <2>1. CASE UNCHANGED cache
    BY <2>1
  <2>2. ASSUME NEW k, RecordJob(n, k)
        PROVE  \A m \in Nodes : cache'[m].state = "none" => cache[m].state = "none"
    <3> DEFINE entry == [state |-> "pending", job |-> k, attempts |-> cache[n].attempts + 1]
    <3>1. SetState(n, entry) /\ entry.state = "pending"
      BY <2>2 DEF RecordJob
    <3> HIDE DEF entry
    <3> QED BY <3>1, SetStateLocal
  <2>3. ASSUME NEW state \in {"verified", "deleting"},
               SetState(n, [cache[n] EXCEPT !.state = state])
        PROVE  \A m \in Nodes : cache'[m].state = "none" => cache[m].state = "none"
    <3> DEFINE entry == [cache[n] EXCEPT !.state = state]
    <3>1. SetState(n, entry) /\ entry.state # "none"
      BY <1>3, <2>3 DEF NodeState
    <3> HIDE DEF entry
    <3> QED BY <3>1, SetStateLocal
  <2> QED BY <1>2, <2>1, <2>2, <2>3
<1> QED BY <1>1, <1>4, StaysScheduled DEF NewNodeIsScheduled, Requeue

(* A delivery queues the node if it begins to need verification.           *)
LEMMA SyncNodeSchedules ==
  ASSUME TypeInv, NewNodeIsScheduled, NEW n \in Nodes, SyncNode(n)
  PROVE  NewNodeIsScheduled'
<1>1. /\ UNCHANGED cache
      /\ \A m \in Nodes \ {n} : nodeCache'[m] = nodeCache[m]
      /\ queue \cup delayed \subseteq queue' \cup delayed'
  BY DEF SyncNode, Notify, Requeue, TypeInv, ClusterOK
<1>2. NeedsVerification(nodeCache'[n])
        => NeedsVerification(nodeCache[n]) \/ n \in queue' \cup delayed'
  <2>1. /\ nodeCache'[n] = Head(feed[n])
        /\ Notify(n, NodePredicate(nodeCache[n], Head(feed[n])))
    BY DEF SyncNode, TypeInv, ClusterOK
  <2>2. /\ nodeCache[n].labeled \in BOOLEAN /\ Head(feed[n]).labeled \in BOOLEAN
    <3>1. feed[n] \in Seq(NodeType) /\ feed[n] # <<>>
      BY DEF SyncNode, TypeInv, ClusterOK
    <3>2. Head(feed[n]) \in NodeType
      BY <3>1
    <3> QED BY <3>2 DEF TypeInv, ClusterOK, NodeType
  <2>3. NeedsVerification(Head(feed[n])) /\ ~NeedsVerification(nodeCache[n])
          => NodePredicate(nodeCache[n], Head(feed[n]))
    BY <2>2 DEF NeedsVerification, NodePredicate
  <2>4. NodePredicate(nodeCache[n], Head(feed[n])) => n \in queue' \cup delayed'
    BY <2>1 DEF Notify, Requeue
  <2> QED BY <2>1, <2>3, <2>4
<1> QED BY <1>1, <1>2, StaysScheduled DEF NewNodeIsScheduled

(* A new process queues every node that needs verification.                *)
LEMMA RestartSchedules ==
  ASSUME Restart
  PROVE  NewNodeIsScheduled'
BY DEF Restart, NewNodeIsScheduled, NodePredicate, NoNode, NeedsVerification, cluster

(* Whatever is lost, delayed or restarted, and however many nodes there    *)
(* are: a node the informer shows in need of verification and the          *)
(* controller knows nothing about is on its way to the reconciler.         *)
THEOREM NewNodesScheduled == Spec => []NewNodeIsScheduled
<1>1. Init => NewNodeIsScheduled
  BY DEF Init, NewNodeIsScheduled, NeedsVerification, NoNode
<1>2. TypeInv /\ NewNodeIsScheduled /\ [Next]_vars => NewNodeIsScheduled'
  <2> SUFFICES ASSUME TypeInv, NewNodeIsScheduled, [Next]_vars PROVE NewNodeIsScheduled'
    OBVIOUS
  <2>1. ASSUME UNCHANGED <<nodeCache, cache>>, queue \cup delayed \subseteq queue' \cup delayed'
        PROVE  NewNodeIsScheduled'
    BY <2>1, StaysScheduled DEF NewNodeIsScheduled
  <2>2. ASSUME NEW n \in Nodes, Relist(n) \/ TimerFires(n) \/ \E k \in Seconds : SyncJob(n, k)
        PROVE  NewNodeIsScheduled'
    BY <2>1, <2>2 DEF Relist, TimerFires, SyncJob, informers
  <2>3. ASSUME NEW n \in Nodes, NodeChanges(n) PROVE NewNodeIsScheduled'
    BY <2>1, <2>3, NodeChangesStore DEF process
  <2>4. ASSUME NEW n \in Nodes, NEW k \in Seconds, JobChange(n, k) PROVE NewNodeIsScheduled'
    BY <2>1, <2>4
    DEF JobChange, JobRuns, JobStarts, JobCompletes, JobFails, PodFails, JobDeleted,
        JobChanges, process
  <2>5. ASSUME NEW n \in Nodes, Tick(n) PROVE NewNodeIsScheduled'
    BY <2>1, <2>5 DEF Tick, process
  <2>6. CASE UNCHANGED vars
    BY <2>1, <2>6 DEF vars
  <2>7. ASSUME NEW r \in orphans, OrphanLands(r) PROVE NewNodeIsScheduled'
    BY <2>1, <2>7 DEF OrphanLands
  <2> QED BY <2>2, <2>3, <2>4, <2>5, <2>6, <2>7, ReconcileSchedules, RequestSchedules,
             SyncNodeSchedules, RestartSchedules DEF Next, NodeChanges, JobChange
<1>3. Spec => []TypeInv
  BY TypeInit, TypeStep, PTL DEF Spec
<1> QED BY <1>1, <1>2, <1>3, PTL DEF Spec
=============================================================================
