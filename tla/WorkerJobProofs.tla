--------------------------- MODULE WorkerJobProofs ---------------------------
(***************************************************************************)
(* What a worker Job reports, and what the controller may make of it, for  *)
(* every backoff limit, number of completions and choice of the worker's   *)
(* timeouts; and that a Job implements JobLifecycle.                       *)
(***************************************************************************)
EXTENDS WorkerJob, WorkerProofs

(* How the counts, the condition and the verdict of a job hang together.   *)
(* Counts stand still once the job has ended.                              *)
StatusInv ==
  /\ succeeded > 0 => earned
  /\ "nonzero" \in codes => failed > 0
  /\ pod # "none" => /\ condition = "none"
                     /\ succeeded < completions /\ failed <= BackoffLimit
  /\ failed > BackoffLimit => succeeded < completions
  /\ condition = "Complete" => succeeded >= completions
  /\ condition = "Failed" => overdue \/ failed > BackoffLimit
  /\ verdict # "none" => condition # "none"
  /\ verdict = "pass" => succeeded > 0
  /\ verdict = "fail" => succeeded = 0 \/ failed > 0

JobInv == JobTypeOK /\ EarnedInv /\ StatusInv

\* The types of the job's own variables, without the worker's.
StatusTypeOK ==
  /\ pod \in {"none", "created", "running"}
  /\ completions \in 0 .. MaxCompletions
  /\ succeeded \in 0 .. completions
  /\ failed \in 0 .. BackoffLimit + 1
  /\ codes \subseteq {"zero", "nonzero"}
  /\ overdue \in BOOLEAN /\ earned \in BOOLEAN
  /\ condition \in {"none", "Complete", "Failed"}
  /\ verdict \in {"none", "pass", "fail"}

NoRun == pod # "running" => stage = "config" /\ exit = "none" /\ worked = {}

(* The type of the job in the parts its steps touch.                       *)
LEMMA JobTypeParts == JobTypeOK <=> WorkerTypeOK /\ StatusTypeOK /\ NoRun
  BY DEF JobTypeOK, StatusTypeOK, NoRun

(* The invariant holds when the job has been created.                      *)
LEMMA JobInitInv == JobInit => JobInv
<1> SUFFICES ASSUME JobInit PROVE JobInv
  OBVIOUS
<1>1. WorkerTypeOK /\ EarnedInv
  BY WorkerInit DEF JobInit, WorkerInv
<1>2. StatusTypeOK
  <2>1. /\ completions \in 0 .. MaxCompletions
        /\ succeeded \in 0 .. completions /\ failed \in 0 .. BackoffLimit + 1
    BY LimitsAssumption DEF JobInit
  <2>2. overdue \in BOOLEAN /\ earned \in BOOLEAN
    BY DEF JobInit
  <2>3. codes \subseteq {"zero", "nonzero"} /\ pod \in {"none", "created", "running"}
    BY DEF JobInit
  <2> QED BY <2>1, <2>2, <2>3 DEF JobInit, StatusTypeOK
<1>3. NoRun
  BY DEF JobInit, Init, NoRun
<1>4. StatusInv
  BY LimitsAssumption DEF JobInit, StatusInv
<1> QED BY <1>1, <1>2, <1>3, <1>4, JobTypeParts DEF JobInv

(* Without a process the worker's variables have their types.              *)
LEMMA NoProcessType ==
  ASSUME WorkerTypeOK, NoProcess
  PROVE  WorkerTypeOK' /\ EarnedInv' /\ NoRun'
<1>1. /\ dryRun' \in BOOLEAN /\ client' \in BOOLEAN
      /\ signal' \in BOOLEAN /\ sentLive' \in BOOLEAN
  BY DEF NoProcess, WorkerTypeOK
<1>2. /\ domain' \in 0 .. Domains /\ total' \in 0 .. RunTimeout /\ elapsed' \in Nat
      /\ breaks' \in 0 .. MaxBreaks
  BY TimeoutsAssumption, DomainsAssumption DEF NoProcess, WorkerTypeOK
<1>3. works' \subseteq Items /\ worked' \subseteq Items
  BY DEF NoProcess
<1>4. /\ ~Checking' /\ stage' \in Requests \cup {"config", "client", "exited"}
      /\ exit' \in ExitCodes \cup {"none"} /\ (exit' = "none" <=> stage' # "exited")
      /\ ctx' \in {"none", "live", "over"}
  BY DEF NoProcess, Checking, Requests
<1>5. WorkerTypeOK'
  BY <1>1, <1>2, <1>3, <1>4 DEF WorkerTypeOK
<1>6. EarnedInv'
  BY <1>4 DEF NoProcess, EarnedInv, Checking, Requests, SuccessIsEarned
<1>7. NoRun'
  BY DEF NoProcess, NoRun
<1> QED BY <1>5, <1>6, <1>7

(* A step that leaves the worker alone keeps its part of the invariant.    *)
LEMMA WorkerRests ==
  ASSUME WorkerTypeOK, EarnedInv, UNCHANGED vars
  PROVE  WorkerTypeOK' /\ EarnedInv'
  BY WorkerNext DEF WorkerInv

-----------------------------------------------------------------------------
(* A pod that ends.                                                        *)

(* A pod that ends is counted within the limits, and as a success only if  *)
(* it earned it.                                                           *)
LEMMA PodEndKeepsInv ==
  ASSUME JobInv, PodEnds \/ PodLost
  PROVE  JobInv'
<1>1. WorkerTypeOK /\ StatusTypeOK /\ NoRun
  BY JobTypeParts DEF JobInv
<1>2. WorkerTypeOK' /\ EarnedInv' /\ NoRun'
  BY <1>1, NoProcessType DEF PodEnds, PodLost
<1>3. pod # "none"
  BY <1>1 DEF PodEnds, PodLost, NoRun
<1>4. condition = "none" /\ succeeded < completions /\ failed <= BackoffLimit
  BY <1>3 DEF JobInv, StatusInv
<1>5. verdict = "none"
  BY <1>4 DEF JobInv, StatusInv
<1>6. /\ pod' = "none" /\ UNCHANGED <<completions, overdue, condition, verdict>>
  BY DEF PodEnds, PodLost, limits
<1>7. CASE PodFailed /\ codes' \subseteq codes \cup {"nonzero"}
  <2>1. failed' \in 0 .. BackoffLimit + 1 /\ failed' > 0 /\ succeeded' = succeeded
    BY <1>1, <1>4, <1>7, LimitsAssumption DEF PodFailed, StatusTypeOK
  <2>2. StatusTypeOK'
    <3>1. earned' \in BOOLEAN /\ overdue' \in BOOLEAN
      BY <1>1, <1>6, <1>7 DEF PodFailed, StatusTypeOK
    <3> QED BY <1>1, <1>6, <1>7, <2>1, <3>1 DEF StatusTypeOK
  <2>3. succeeded' > 0 => earned'
    BY <1>7 DEF PodFailed, JobInv, StatusInv
  <2>4. StatusInv'
    BY <1>4, <1>5, <1>6, <2>1, <2>3 DEF StatusInv
  <2> QED BY <1>2, <2>2, <2>4, JobTypeParts DEF JobInv, JobTypeOK, StatusTypeOK, NoRun
<1>8. CASE PodSucceeded /\ codes' = codes \cup {"zero"} /\ exit = "success"
  <2>1. succeeded' \in 0 .. completions /\ failed' = failed
    BY <1>1, <1>4, <1>8 DEF PodSucceeded, StatusTypeOK
  <2>2. earned'
    BY <1>8 DEF PodSucceeded, JobInv, EarnedInv, SuccessIsEarned
  <2>3. StatusTypeOK'
    <3>1. earned' \in BOOLEAN /\ overdue' \in BOOLEAN
      BY <1>1, <1>6, <2>2, <1>8 DEF PodSucceeded, StatusTypeOK
    <3> QED BY <1>1, <1>6, <1>8, <2>1, <3>1 DEF StatusTypeOK
  <2>4. "nonzero" \in codes' => failed' > 0
    BY <1>8, <2>1 DEF JobInv, StatusInv
  <2>5. StatusInv'
    BY <1>1, <1>4, <1>5, <1>6, <2>1, <2>2, <2>4, LimitsAssumption
    DEF StatusInv, StatusTypeOK
  <2> QED BY <1>2, <2>3, <2>5, JobTypeParts DEF JobInv, JobTypeOK, StatusTypeOK, NoRun
<1> QED BY <1>7, <1>8 DEF PodEnds, PodLost

-----------------------------------------------------------------------------
(* Every step keeps the invariant.                                         *)
LEMMA JobNextInv == JobInv /\ [JobNext]_allVars => JobInv'
<1> SUFFICES ASSUME JobInv, [JobNext]_allVars PROVE JobInv'
  OBVIOUS
<1>1. WorkerTypeOK /\ StatusTypeOK /\ NoRun
  BY JobTypeParts DEF JobInv
<1>2. ASSUME WorkerTypeOK', EarnedInv', StatusTypeOK', NoRun', StatusInv'
      PROVE  JobInv'
  BY <1>2 DEF JobInv, JobTypeOK, StatusTypeOK, NoRun
<1>3. ASSUME UNCHANGED vars
      PROVE  WorkerTypeOK' /\ EarnedInv'
  BY <1>1, <1>3, WorkerRests DEF JobInv
<1>4. CASE PodCreated
  <2>1. NoRun'
    BY <1>1, <1>4 DEF PodCreated, NoRun, vars, process, environment
  <2>2. overdue' \in BOOLEAN /\ earned' \in BOOLEAN
    BY <1>1, <1>4 DEF PodCreated, StatusTypeOK, limits, counts
  <2>3. StatusTypeOK'
    BY <1>1, <1>4, <2>2 DEF PodCreated, StatusTypeOK, limits, counts
  <2>4. succeeded' > 0 => earned'
    BY <1>4 DEF JobInv, StatusInv, PodCreated, counts
  <2>5. StatusInv'
    BY <1>1, <1>4, <2>4 DEF JobInv, StatusInv, PodCreated, limits, counts
  <2> QED BY <1>2, <1>3, <1>4, <2>1, <2>3, <2>5 DEF PodCreated
<1>5. CASE PodStarts
  <2>1. stage = "config" /\ exit = "none" /\ UNCHANGED <<process, dryRun, signal, ctx, elapsed, total, worked, breaks>>
    BY <1>1, <1>5 DEF PodStarts, NoRun
  <2>2. WorkerTypeOK'
    BY <1>1, <1>5, <2>1 DEF PodStarts, WorkerTypeOK, process, Checking, Requests
  <2>3. EarnedInv'
    BY <2>1 DEF EarnedInv, process, Checking, Requests, SuccessIsEarned
  <2>4. StatusTypeOK' /\ NoRun' /\ StatusInv'
    <3>1. UNCHANGED <<overdue, earned>>
      BY <1>5 DEF PodStarts, limits, counts
    <3>2. overdue' \in BOOLEAN /\ earned' \in BOOLEAN
      BY <1>1, <3>1 DEF StatusTypeOK
    <3>3. StatusTypeOK' /\ NoRun'
      BY <1>1, <1>5, <3>2 DEF PodStarts, StatusTypeOK, NoRun, limits, counts
    <3>4. succeeded' > 0 => earned'
      BY <1>5, <3>1 DEF JobInv, StatusInv, PodStarts, counts
    <3>5. StatusInv'
      BY <1>1, <1>5, <3>4 DEF JobInv, StatusInv, PodStarts, limits, counts
    <3> QED BY <3>3, <3>5
  <2> QED BY <1>2, <2>2, <2>3, <2>4
<1>6. CASE WorkerRuns \/ UNCHANGED allVars
  <2>1. [Next]_vars /\ UNCHANGED jobVars /\ (UNCHANGED vars \/ pod = "running")
    BY <1>6 DEF WorkerRuns, allVars
  <2>2. WorkerTypeOK' /\ EarnedInv'
    BY <1>1, <2>1, WorkerNext DEF JobInv, WorkerInv
  <2>3. NoRun'
    BY <1>1, <2>1 DEF NoRun, jobVars, vars, process, environment
  <2>4. StatusTypeOK'
    BY <1>1, <2>1 DEF StatusTypeOK, jobVars, limits, counts
  <2>5. StatusInv'
    BY <2>1 DEF JobInv, StatusInv, jobVars, limits, counts
  <2> QED BY <1>2, <2>2, <2>3, <2>4, <2>5
<1>7. CASE PodEnds \/ PodLost
  BY <1>7, PodEndKeepsInv
<1>8. CASE JobDeadlinePasses \/ JobCompletes \/ JobFails \/ ReadPass \/ ReadFail
  <2>1. UNCHANGED <<vars, pod, counts, completions>>
    BY <1>8 DEF JobDeadlinePasses, JobCompletes, JobFails, JobEndsAs, ReadPass, ReadFail,
                ReadVerdict, limits
  <2>2. overdue' \in BOOLEAN /\ earned' \in BOOLEAN
    BY <1>1, <1>8 DEF JobDeadlinePasses, JobCompletes, JobFails, JobEndsAs, ReadPass,
                ReadFail, ReadVerdict, limits, counts, StatusTypeOK
  <2>3. /\ condition' \in {"none", "Complete", "Failed"}
        /\ verdict' \in {"none", "pass", "fail"}
    BY <1>1, <1>8 DEF JobDeadlinePasses, JobCompletes, JobFails, JobEndsAs, ReadPass,
                ReadFail, ReadVerdict, StatusTypeOK
  <2>4. StatusTypeOK'
    BY <1>1, <2>1, <2>2, <2>3 DEF StatusTypeOK, counts
  <2>5. NoRun'
    BY <1>1, <2>1 DEF NoRun, vars, process, environment
  <2>6. succeeded' > 0 => earned'
    BY <2>1 DEF JobInv, StatusInv, counts
  <2>7. /\ pod' # "none" => condition' = "none"
        /\ condition' = "Complete" => succeeded >= completions
        /\ condition' = "Failed" => overdue' \/ failed > BackoffLimit
        /\ verdict' # "none" => condition' # "none"
        /\ verdict' = "pass" => succeeded > 0
        /\ verdict' = "fail" => succeeded = 0 \/ failed > 0
    <3>1. CASE JobDeadlinePasses
      BY <3>1 DEF JobDeadlinePasses, JobInv, StatusInv
    <3>2. CASE JobCompletes
      BY <3>2 DEF JobCompletes, JobEndsAs, limits, JobInv, StatusInv
    <3>3. CASE JobFails
      BY <3>3 DEF JobFails, JobEndsAs, limits, JobInv, StatusInv
    <3>4. CASE ReadPass \/ ReadFail
      BY <3>4 DEF ReadPass, ReadFail, ReadVerdict, ExitCode, limits, JobInv, StatusInv
    <3> QED BY <1>8, <3>1, <3>2, <3>3, <3>4
  <2>8. StatusInv'
    BY <2>1, <2>6, <2>7 DEF JobInv, StatusInv, counts
  <2> QED BY <1>2, <1>3, <2>1, <2>4, <2>5, <2>8
<1> QED
  BY <1>4, <1>5, <1>6, <1>7, <1>8 DEF JobNext

(* The invariant yields the properties.                                    *)
LEMMA JobInvProperties ==
  JobInv => JobTypeOK /\ SuccessIsEarned /\ PassIsEarned /\ DisagreementsAreExplained
<1> SUFFICES ASSUME JobInv PROVE SuccessIsEarned /\ PassIsEarned /\ DisagreementsAreExplained
  BY DEF JobInv
<1>1. SuccessIsEarned
  BY DEF JobInv, EarnedInv
<1>2. PassIsEarned
  BY DEF JobInv, StatusInv, PassIsEarned
<1>3. StatusTypeOK
  BY JobTypeParts DEF JobInv
<1>4. DisagreementsAreExplained
  BY <1>3 DEF JobInv, StatusInv, StatusTypeOK, DisagreementsAreExplained
<1> QED BY <1>1, <1>2, <1>4

(* The worker's run and the Job are type-correct, and no pod is counted    *)
(* beyond the Job's limits: JobTypeOK, for any limits and timeouts.        *)
THEOREM JobTypeCorrect == JobSpec => []JobTypeOK
<1> QED BY JobInitInv, JobNextInv, JobInvProperties, PTL DEF JobSpec

(* A verdict of "pass", which takes the taints off the node, means that one*)
(* worker of the job found everything it checks to work: PassIsEarned, with*)
(* the SuccessIsEarned of each worker on which it rests.                   *)
THEOREM PassesEarned == JobSpec => [](SuccessIsEarned /\ PassIsEarned)
<1> QED BY JobInitInv, JobNextInv, JobInvProperties, PTL DEF JobSpec

(* Controller and cluster disagree about a job only as                     *)
(* DisagreementsAreExplained says.                                         *)
THEOREM DisagreementsExplained == JobSpec => []DisagreementsAreExplained
<1> QED BY JobInitInv, JobNextInv, JobInvProperties, PTL DEF JobSpec

-----------------------------------------------------------------------------
(* The refinement.                                                         *)

phaseBar == IF condition # "none"
            THEN IF succeeded > 0 THEN "complete" ELSE "failed"
            ELSE IF PodsSeen THEN "active" ELSE "pending"
flakyBar == failed > 0

Stutters == UNCHANGED phaseBar /\ (flakyBar' <=> flakyBar) /\ UNCHANGED verdict
JobMoves == Job!Next \/ Stutters

(* A step that leaves counts and condition alone, and does not make or take*)
(* the first pod, is a stutter.                                            *)
LEMMA SameStatusStutters ==
  ASSUME UNCHANGED <<succeeded, failed, condition, verdict>>,
         PodsSeen' <=> PodsSeen
  PROVE  Stutters
<1>1. UNCHANGED phaseBar
  BY DEF phaseBar
<1>2. flakyBar' <=> flakyBar
  BY DEF flakyBar
<1> QED BY <1>1, <1>2 DEF Stutters

(* Every step maps to a move or a stutter.                                 *)
LEMMA JobStepRefines == JobInv /\ [JobNext]_allVars => JobMoves
<1> SUFFICES ASSUME JobInv, [JobNext]_allVars PROVE JobMoves
  OBVIOUS
<1>1. StatusTypeOK /\ NoRun
  BY JobTypeParts DEF JobInv
<1>2. succeeded \in Nat /\ failed \in Nat
  BY <1>1, LimitsAssumption DEF StatusTypeOK
<1>3. CASE PodCreated
  <2>1. /\ condition = "none" /\ PodsSeen'
        /\ UNCHANGED <<succeeded, failed, condition, verdict>>
    BY <1>3 DEF PodCreated, PodsSeen, counts
  <2>2. CASE PodsSeen
    BY <2>1, <2>2, SameStatusStutters DEF JobMoves
  <2>3. CASE ~PodsSeen
    <3>1. phaseBar = "pending" /\ phaseBar' = "active"
      BY <2>1, <2>3 DEF phaseBar
    <3>2. flakyBar' = flakyBar /\ UNCHANGED verdict
      BY <2>1 DEF flakyBar
    <3> QED BY <3>1, <3>2 DEF JobMoves, Job!Next, Job!Starts, Job!PhaseMoves,
                            phaseBar, flakyBar
  <2> QED BY <2>2, <2>3
<1>4. CASE PodStarts
  BY <1>4, SameStatusStutters DEF PodStarts, PodsSeen, counts, JobMoves
<1>5. CASE WorkerRuns \/ JobDeadlinePasses \/ UNCHANGED allVars
  <2>1. UNCHANGED <<pod, succeeded, failed, condition, verdict>>
    BY <1>5 DEF WorkerRuns, JobDeadlinePasses, allVars, jobVars, counts
  <2> QED BY <2>1, SameStatusStutters DEF PodsSeen, JobMoves
<1>6. CASE PodEnds \/ PodLost
  <2>1. pod # "none" /\ UNCHANGED <<condition, verdict>>
    BY <1>1, <1>6 DEF PodEnds, PodLost, NoRun
  <2>2. condition = "none" /\ PodsSeen
    BY <2>1 DEF JobInv, StatusInv, PodsSeen
  <2>3. CASE PodSucceeded
    <3>1. PodsSeen' /\ UNCHANGED failed
      BY <1>2, <2>3 DEF PodSucceeded, PodsSeen
    <3>2. UNCHANGED phaseBar
      BY <2>1, <2>2, <3>1 DEF phaseBar
    <3>3. flakyBar' <=> flakyBar
      BY <3>1 DEF flakyBar
    <3> QED BY <2>1, <3>2, <3>3 DEF Stutters, JobMoves
  <2>4. CASE PodFailed
    <3>1. PodsSeen' /\ failed' > 0
      BY <1>2, <2>4 DEF PodFailed, PodsSeen
    <3>2. phaseBar = "active" /\ phaseBar' = "active"
      BY <2>1, <2>2, <3>1 DEF phaseBar
    <3>3. flakyBar' = TRUE
      BY <3>1 DEF flakyBar
    <3> QED BY <2>1, <3>2, <3>3 DEF JobMoves, Job!Next, Job!PodFails, phaseBar, flakyBar
  <2> QED BY <1>6, <2>3, <2>4 DEF PodEnds, PodLost
<1>7. CASE JobCompletes \/ JobFails
  <2>1. /\ condition = "none" /\ condition' # "none"
        /\ UNCHANGED <<pod, succeeded, failed, verdict>>
    BY <1>7 DEF JobCompletes, JobFails, JobEndsAs, counts
  <2>2. flakyBar' = flakyBar
    BY <2>1 DEF flakyBar
  <2>3. CASE succeeded > 0
    <3>1. phaseBar = "active" /\ phaseBar' = "complete"
      BY <1>2, <2>1, <2>3 DEF phaseBar, PodsSeen
    <3> QED BY <2>1, <2>2, <3>1 DEF JobMoves, Job!Next, Job!Completes, Job!PhaseMoves,
                                  phaseBar, flakyBar
  <2>4. CASE ~(succeeded > 0)
    <3>1. phaseBar \in {"pending", "active"} /\ phaseBar' = "failed"
      BY <2>1, <2>4 DEF phaseBar
    <3> QED BY <2>1, <2>2, <3>1 DEF JobMoves, Job!Next, Job!Fails, Job!PhaseMoves,
                                  phaseBar, flakyBar
  <2> QED BY <2>3, <2>4
<1>8. CASE ReadPass \/ ReadFail
  <2>1. UNCHANGED <<pod, succeeded, failed, condition>> /\ condition # "none"
    BY <1>8 DEF ReadPass, ReadFail, ReadVerdict, counts
  <2>2. phaseBar' = phaseBar
    BY <2>1 DEF phaseBar, PodsSeen
  <2>3. flakyBar' = flakyBar
    BY <2>1 DEF flakyBar
  <2>4. CASE ReadPass
    <3>1. phaseBar = "complete" /\ verdict' = "pass"
      BY <2>1, <2>4 DEF phaseBar, ReadPass, ReadVerdict
    <3>2. Job!Read("pass")
      BY <2>2, <2>3, <3>1 DEF Job!Read, Job!MayRead, phaseBar, flakyBar
    <3> QED BY <3>2 DEF JobMoves, Job!Next
  <2>5. CASE ReadFail
    <3>1. verdict' = "fail" /\ (succeeded = 0 \/ failed > 0)
      BY <2>5 DEF ReadFail, ReadVerdict, ExitCode, JobInv, StatusInv
    <3>2. phaseBar = "failed" \/ (phaseBar = "complete" /\ flakyBar)
      BY <1>2, <2>1, <3>1 DEF phaseBar, flakyBar
    <3>3. Job!Read("fail")
      BY <2>2, <2>3, <3>1, <3>2 DEF Job!Read, Job!MayRead, phaseBar, flakyBar
    <3> QED BY <3>3 DEF JobMoves, Job!Next
  <2> QED BY <1>8, <2>4, <2>5
<1> QED
  BY <1>3, <1>4, <1>5, <1>6, <1>7, <1>8 DEF JobNext

(* A job that has just been created is pending.                            *)
LEMMA JobInitRefines == JobInit => Job!Init
  BY DEF JobInit, Job!Init, PodsSeen

(* A worker Job, with its pods, limits, deadline and exit codes, implements*)
(* the job the reconciler counts on, and so does whatever is read from it: *)
(* JobLifecycleSpec.                                                       *)
THEOREM JobImplementsLifecycle == JobSpec => JobLifecycleSpec
<1>1. JobInv /\ [JobNext]_allVars => [Job!Next]_(Job!vars)
  <2> SUFFICES ASSUME JobInv, [JobNext]_allVars, Stutters
               PROVE  UNCHANGED Job!vars
    BY JobStepRefines DEF JobMoves
  <2>1. flakyBar' = flakyBar
    BY DEF Stutters, flakyBar
  <2> QED BY <2>1 DEF Stutters, Job!vars, phaseBar, flakyBar
<1> QED BY <1>1, JobInitRefines, JobInitInv, JobNextInv, PTL
        DEF JobSpec, JobLifecycleSpec, Job!Spec
=============================================================================
