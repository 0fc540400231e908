---------------------------- MODULE TaskFlowProofs ----------------------------
(* Theorems about TaskFlow, for every set of tasks, workers and steps, every    *)
(* dependency relation and every choice of clients.  What TaskRegistryProofs    *)
(* shows of the task registry alone holds here too: every step of a flow is a   *)
(* step of the registry or leaves it alone.                                     *)
EXTENDS TaskFlow, TaskRegistryProofs, WellFoundedInduction

-----------------------------------------------------------------------------
(* Types *)

\* Every variable of the flow layer holds what the code can put there.
FlowTypeOK ==
    /\ flows \in [TaskId -> Flow]
    /\ flows_file \in [TaskId -> Flow]
    /\ results \in [TaskId -> [Step -> Outcome \cup {"none"}]]
    /\ creating \in SUBSET TaskId
    /\ lock \in Lock
    /\ resuming \in SUBSET TaskId
    /\ work \in [Worker -> Job \cup {Idle}]
    /\ maint \in Maint
    /\ shown \in [TaskId -> SUBSET (0..StepCount)]
    /\ outOfTurn \in SUBSET TaskId

LEMMA FlowConstants ==
    /\ StepCount \in Nat \ {0} /\ 1 \in Step /\ 0 \notin Step
    /\ StepDeps \in [Step -> SUBSET Step]
    /\ Idle \notin Job
    /\ NoFlow \in Flow
    /\ \A mode \in Modes : NewFlow(mode) \in Flow
    /\ Free \in Lock /\ Saving \in Lock
    /\ Resting \in Maint
    /\ NoId \notin TaskId
    /\ Faults \cap {"tear", "disk"} = {} /\ "tear" \notin Faults /\ "disk" \notin Faults
<1>1. StepCount \in Nat \ {0} /\ 1 \in Step /\ 0 \notin Step /\ 0 \in 0..StepCount
  BY TaskFlowAssumption DEF Step
<1>2. NoFlow \in Flow
  BY <1>1, TaskFlowAssumption DEF NoFlow, Flow
<1>3. \A mode \in Modes : NewFlow(mode) \in Flow
  BY <1>2 DEF NewFlow, Flow, FlowStatus
<1>4. Free \in Lock /\ Saving \in Lock
  BY DEF Free, Saving, Lock
<1>5. Resting \in Maint
  BY DEF Resting, Maint
<1>. QED
  BY <1>1, <1>2, <1>3, <1>4, <1>5, TaskFlowAssumption, TaskRegistryAssumption DEF Job

LEMMA StepsAreValues == Step \subseteq 0..StepCount
BY FlowConstants DEF Step

\* A step a worker executes is a step of a flow.
LEMMA JobType ==
    ASSUME FlowTypeOK, NEW w \in Worker, work[w] # Idle
    PROVE  /\ work[w] \in Job
           /\ work[w].flow \in TaskId
           /\ work[w].driver # "raised" =>
                 /\ work[w].step \in Step
                 /\ work[w] \in [driver : {"automation", "pipeline"}, flow : TaskId, step : Step]
BY DEF FlowTypeOK, Job

LEMMA LockType ==
    ASSUME FlowTypeOK, lock.phase \in {"starting", "completing", "failing"}
    PROVE  lock.flow \in TaskId
BY DEF FlowTypeOK, Lock

LEMMA ShowsType ==
    ASSUME FlowTypeOK, NEW t \in TaskId, flows' \in [TaskId -> Flow], Shows(t)
    PROVE  shown' \in [TaskId -> SUBSET (0..StepCount)]
<1>1. flows'[t].current \in 0..StepCount
  BY DEF Flow
<1>. QED  BY <1>1 DEF Shows, FlowTypeOK

\* A set of naturals that has a member has a least one.
LEMMA LeastNatural ==
    ASSUME NEW S \in SUBSET Nat, S # {}
    PROVE  \E n \in S : \A m \in S : n <= m
<1> DEFINE R == {p \in Nat \X Nat : p[1] < p[2]}
<1>1. IsWellFoundedOn(R, Nat)
  BY NatLessThanWellFounded DEF OpToRel
<1>2. PICK n \in S : \A m \in S : ~(<<m, n>> \in R)
  <2>. HIDE DEF R
  <2>. QED  BY <1>1, WFMin
<1>3. ASSUME NEW m \in S PROVE n <= m
  <2>1. <<m, n>> \in Nat \X Nat /\ <<m, n>>[1] = m /\ <<m, n>>[2] = n
    OBVIOUS
  <2>2. ~(m < n)
    BY <1>2, <2>1
  <2>3. m \in Nat /\ n \in Nat
    OBVIOUS
  <2>. QED  BY <2>2, <2>3
<1>. QED  BY <1>3

\* What _get_next_step answers: nothing, the step after s in a sequence, or a step
\* of a DAG that has no result and whose dependencies have succeeded.
LEMMA NextStep ==
    ASSUME NEW t \in TaskId, NEW s \in Step, NEW res
    PROVE  LET next == GetNextStep(t, s, res)
           IN  /\ next \in 0..StepCount
               /\ flows[t].mode = "sequential" => next = IF s < StepCount THEN s + 1 ELSE 0
               /\ flows[t].mode = "dag" /\ next # 0 => next \in Unblocked(t, res)
               /\ flows[t].mode = "dag" /\ next = 0 => Unblocked(t, res) = {}
               /\ flows[t].mode \notin {"sequential", "dag"} => next = 0
<1> DEFINE next == GetNextStep(t, s, res)
<1>1. Unblocked(t, res) \subseteq Step /\ Step \subseteq Nat
  BY FlowConstants DEF Unblocked, Step
<1>2. CASE flows[t].mode = "sequential"
  <2>1. next = IF s < StepCount THEN s + 1 ELSE 0
    BY <1>2 DEF GetNextStep
  <2>. QED  BY <1>2, <2>1, FlowConstants DEF Step
<1>3. CASE flows[t].mode = "dag" /\ Unblocked(t, res) # {}
  <2>1. next = CHOOSE n \in Unblocked(t, res) : \A u \in Unblocked(t, res) : n <= u
    BY <1>3 DEF GetNextStep
  <2>2. \E n \in Unblocked(t, res) : \A u \in Unblocked(t, res) : n <= u
    BY <1>1, <1>3, LeastNatural
  <2>3. next \in Unblocked(t, res)
    BY <2>1, <2>2
  <2>4. next \in Step
    BY <1>1, <2>3
  <2>5. next \in 0..StepCount /\ next # 0
    BY <2>4, FlowConstants DEF Step
  <2>. QED  BY <1>3, <2>3, <2>5
<1>4. CASE flows[t].mode # "sequential" /\ ~(flows[t].mode = "dag" /\ Unblocked(t, res) # {})
  <2>1. next = 0
    BY <1>4 DEF GetNextStep
  <2>. QED  BY <1>4, <2>1, FlowConstants
<1>. QED  BY <1>2, <1>3, <1>4

-----------------------------------------------------------------------------
(* Every step of a flow is a step of the registry *)

LEMMA RecordsSafely ==
    ASSUME NEW t \in TaskId, NEW s, NEW outcome, RecordStep(t, s, outcome)
    PROVE  [Next]_vars
BY DEF RecordStep, CompleteStep, Next

LEMMA FlowStepsRegistry ==
    ASSUME FlowTypeOK, [FlowNext]_all_vars PROVE [Next]_vars
<1>1. ASSUME NEW t \in TaskId, CreateFlowTask(t) PROVE [Next]_vars
  BY <1>1 DEF CreateFlowTask, Next
<1>2. ASSUME NEW t \in TaskId, CreateFlow(t) \/ SyncFlow(t) PROVE [Next]_vars
  BY <1>2 DEF CreateFlow, SyncFlow
<1>3. ASSUME NEW t \in TaskId, BeginStart(t) PROVE [Next]_vars
  BY <1>3 DEF BeginStart, Next
<1>4. ASSUME NEW t \in TaskId, NEW s, PauseFlow(t, s) PROVE [Next]_vars
  BY <1>4 DEF PauseFlow, Next
<1>5. ASSUME NEW t \in TaskId, CancelFlow(t) PROVE [Next]_vars
  BY <1>5 DEF CancelFlow, Next
<1>6. ASSUME NEW w \in Worker, NEW t \in TaskId, NEW s \in Step,
             PickStep(w, t, s) \/ RunPipeline(w, t)
      PROVE  [Next]_vars
  BY <1>3, <1>6 DEF PickStep, RunPipeline
<1>7. ASSUME NEW w \in Worker, Proceed(w) PROVE [Next]_vars
  <2>1. CASE \E outcome \in Outcome : FinishStep(w, outcome) \/ PipelineStep(w, outcome)
    BY <2>1, JobType, RecordsSafely DEF FinishStep, PipelineStep
  <2>2. ASSUME NEW k \in Token, PipelineApproval(w, k) PROVE [Next]_vars
    <3>1. work[w].flow \in TaskId
      BY <2>2, JobType DEF PipelineApproval
    <3>. QED  BY <2>2, <3>1 DEF PipelineApproval, Next
  <2>. QED  BY <1>7, <2>1, <2>2 DEF Proceed
<1>8. CASE FinishStart
  <2>1. lock.flow \in TaskId
    BY <1>8, LockType DEF FinishStart
  <2>. QED  BY <1>8, <2>1 DEF FinishStart, Next
<1>9. CASE SaveFlows
  BY <1>9 DEF SaveFlows
<1>10. ASSUME NEW k \in Token, ResumeFlow(k) PROVE [Next]_vars
  BY <1>10 DEF ResumeFlow, Next
<1>11. CASE Maintenance
  <2>1. CASE StartupReconcile
    BY <2>1 DEF StartupReconcile, Next
  <2>. QED  BY <1>11, <2>1 DEF Maintenance, ReadStatus, WriteStatus, EndMaintenance
<1>12. CASE DirectCall
  BY <1>12 DEF DirectCall, Next
<1>13. CASE TokenLapses \/ ProcessDies \/ ProcessStarts
  BY <1>13 DEF TokenLapses, ProcessDies, ProcessStarts, Next
<1>14. CASE UNCHANGED all_vars
  BY <1>14 DEF all_vars
<1>15. ASSUME NEW w \in Worker, PipelineRaises(w) \/ PipelineCaught(w) PROVE [Next]_vars
  BY <1>15 DEF PipelineRaises, PipelineCaught
<1>16. CASE FinishConclude
  <2>1. lock.flow \in TaskId
    BY <1>16, LockType DEF FinishConclude
  <2>. QED  BY <1>16, <2>1 DEF FinishConclude, Conclude, Next
<1>17. CASE CallDies
  <2>1. CASE lock.phase \in {"completing", "failing"} /\ Conclude(lock.flow)
    <3>1. lock.flow \in TaskId
      BY <2>1, LockType
    <3>. QED  BY <2>1, <3>1 DEF Conclude, Next
  <2>2. ASSUME NEW w \in Worker, NEW k \in Token, work[w] # Idle, AwaitApproval(work[w].flow, k)
        PROVE  Next
    <3>1. work[w].flow \in TaskId
      BY <2>2, JobType
    <3>. QED  BY <2>2, <3>1 DEF Next
  <2>3. ASSUME NEW t \in TaskId, (\E k \in Token : Pause(t, k)) \/ Cancel(t) PROVE Next
    BY <2>3 DEF Next
  <2>4. ASSUME NEW k \in Token, ResumeExpired(k) \/ ResumeDenied(k) \/ ResumeApproved(k)
        PROVE  Next
    BY <2>4 DEF Next
  <2>5. ASSUME \E order \in [1..Cardinality(ReconcileExpired) -> ReconcileExpired] :
                  Reconcile(order)
        PROVE  Next
    BY <2>5 DEF Next
  <2>6. ASSUME DirectCall PROVE Next
    BY <2>6 DEF DirectCall, Next
  <2>7. SeveralWrites
    BY <1>17 DEF CallDies
  <2>. QED
    BY <2>1, <2>2, <2>3, <2>4, <2>5, <2>6, <2>7 DEF SeveralWrites, FlowIds
<1>. QED
  BY <1>1, <1>2, <1>3, <1>4, <1>5, <1>6, <1>7, <1>8, <1>9, <1>10, <1>11, <1>12, <1>13, <1>14,
     <1>15, <1>16, <1>17, FlowConstants
  DEF FlowNext, FlowCall, Holder, StartFlow

LEMMA StatusType ==
    ASSUME NEW f \in Flow, NEW status \in FlowStatus PROVE [f EXCEPT !.status = status] \in Flow
BY DEF Flow

LEMMA CurrentType ==
    ASSUME NEW fs \in [TaskId -> Flow], NEW t \in TaskId, NEW s \in 0..StepCount
    PROVE  [fs EXCEPT ![t].current = s] \in [TaskId -> Flow]
<1>1. [fs[t] EXCEPT !.current = s] \in Flow
  BY DEF Flow
<1>. QED  BY <1>1

LEMMA FailingType ==
    ASSUME NEW f \in Flow, NEW b \in BOOLEAN
    PROVE  [f EXCEPT !.failing = b] \in Flow
BY DEF Flow

LEMMA RecordType ==
    ASSUME TypeOK, FlowTypeOK, NEW t \in TaskId, NEW s \in Step, NEW outcome \in Outcome,
           RecordStep(t, s, outcome)
    PROVE  /\ flows' \in [TaskId -> Flow]
           /\ results' \in [TaskId -> [Step -> Outcome \cup {"none"}]]
           /\ lock' \in Lock
           /\ shown' \in [TaskId -> SUBSET (0..StepCount)]
           /\ UNCHANGED <<flows_file, creating, resuming, maint, outOfTurn>>
<1> DEFINE res   == [results EXCEPT ![t][s] = outcome]
           flow  == [flows[t] EXCEPT !.failing = @ \/ outcome = "failed"]
           next  == GetNextStep(t, s, res)
           final == IF flow.failing /\ StopOnFailure THEN "failed" ELSE "completed"
<1>1. CASE CompleteStep(t, s, outcome)
  <2>1. res \in [TaskId -> [Step -> Outcome \cup {"none"}]]
    BY DEF FlowTypeOK
  <2>2. flow \in Flow
    <3>1. (flows[t].failing \/ outcome = "failed") \in BOOLEAN
      OBVIOUS
    <3>2. flows[t] \in Flow
      BY DEF FlowTypeOK
    <3>. QED  BY ONLY <3>1, <3>2, FailingType
  <2>3. next \in 0..StepCount
    BY NextStep
  <2>4. /\ [flow EXCEPT !.status = final] \in Flow
        /\ [flow EXCEPT !.current = next] \in Flow
    <3> HIDE DEF flow, next
    <3>. QED  BY <2>2, <2>3 DEF Flow, FlowStatus, FlowTerminal
  <2>5. /\ results' = res
        /\ \/ flows' = [flows EXCEPT ![t] = [flow EXCEPT !.status = final]]
           \/ flows' = [flows EXCEPT ![t] = [flow EXCEPT !.current = next]]
        /\ \/ lock' = Saving
           \/ lock' = [phase |-> "failing", flow |-> t]
           \/ lock' = [phase |-> "completing", flow |-> t]
        /\ Shows(t)
        /\ UNCHANGED <<flows_file, creating, resuming, maint, outOfTurn>>
    BY <1>1 DEF CompleteStep
  <2> HIDE DEF res, flow, next, final
  <2>6. flows' \in [TaskId -> Flow]
    BY <2>4, <2>5 DEF FlowTypeOK
  <2>7. lock' \in Lock
    BY <2>5, FlowConstants DEF Lock
  <2>. QED  BY <2>1, <2>5, <2>6, <2>7, ShowsType
<1>2. CASE UNCHANGED <<vars, flows, flows_file, results, creating, lock, resuming, maint, told>>
  BY <1>2 DEF FlowTypeOK, told
<1>. QED  BY <1>1, <1>2 DEF RecordStep

LEMMA BeginStartType ==
    ASSUME FlowTypeOK, NEW t \in TaskId, BeginStart(t)
    PROVE  flows' \in [TaskId -> Flow] /\ lock' \in Lock
BY StatusType DEF BeginStart, FlowTypeOK, Lock, FlowStatus

LEMMA FlowTypeStep ==
    ASSUME TypeOK, FlowTypeOK, [FlowNext]_all_vars PROVE FlowTypeOK'
<1>1. ASSUME NEW t \in TaskId, CreateFlowTask(t) PROVE FlowTypeOK'
  BY <1>1 DEF CreateFlowTask, FlowTypeOK, told
<1>2. ASSUME NEW t \in TaskId, CreateFlow(t) PROVE FlowTypeOK'
  BY <1>2, FlowConstants DEF CreateFlow, FlowTypeOK, told
<1>3. ASSUME NEW t \in TaskId, SyncFlow(t) PROVE FlowTypeOK'
  <2>1. flows[t] \in Flow
    BY DEF FlowTypeOK
  <2>2. HasFlow(t) => SyncStatus(t) \in FlowStatus
    BY <2>1 DEF HasFlow, SyncStatus, Flow, FlowStatus, FlowTerminal
  <2>3. HasFlow(t) => [flows EXCEPT ![t].status = SyncStatus(t)] \in [TaskId -> Flow]
    BY <2>1, <2>2, StatusType DEF FlowTypeOK
  <2>. QED  BY <1>3, <2>3, FlowConstants DEF SyncFlow, FlowTypeOK, told
<1>4. ASSUME NEW t \in TaskId, StartFlow(t) PROVE FlowTypeOK'
  BY <1>4, BeginStartType DEF StartFlow, BeginStart, FlowTypeOK, told
<1>5. ASSUME NEW t \in TaskId, NEW s \in 0..StepCount, PauseFlow(t, s) \/ CancelFlow(t)
      PROVE  FlowTypeOK'
  <2>1. /\ [flows EXCEPT ![t].status = "paused"] \in [TaskId -> Flow]
        /\ [flows EXCEPT ![t].status = "cancelled"] \in [TaskId -> Flow]
    BY StatusType DEF FlowTypeOK, FlowStatus, FlowTerminal
  <2>2. [flows EXCEPT ![t].status = "paused", ![t].current = s] \in [TaskId -> Flow]
    BY <2>1, CurrentType
  <2>. QED  BY <1>5, <2>1, <2>2, FlowConstants DEF PauseFlow, CancelFlow, FlowTypeOK, told
<1>6. ASSUME NEW w \in Worker, NEW t \in TaskId, NEW s \in Step, PickStep(w, t, s)
      PROVE  FlowTypeOK'
  <2>1. [driver |-> "automation", flow |-> t, step |-> s] \in Job
    BY DEF Job
  <2>. QED  BY <1>6, <2>1 DEF PickStep, FlowTypeOK
<1>7. ASSUME NEW w \in Worker, NEW t \in TaskId, RunPipeline(w, t) PROVE FlowTypeOK'
  <2>1. [driver |-> "pipeline", flow |-> t, step |-> 1] \in Job
    BY FlowConstants DEF Job
  <2>2. work' \in [Worker -> Job \cup {Idle}]
    BY <1>7, <2>1 DEF RunPipeline, FlowTypeOK, told
  <2>3. CASE BeginStart(t)
    BY <2>2, <2>3, BeginStartType DEF BeginStart, FlowTypeOK, told
  <2>. QED  BY <1>7, <2>2, <2>3 DEF RunPipeline, FlowTypeOK, told
<1>8. ASSUME NEW w \in Worker, NEW outcome \in Outcome,
             FinishStep(w, outcome) \/ PipelineStep(w, outcome)
      PROVE  FlowTypeOK'
  <2>1. work[w] # Idle /\ work[w].driver # "raised"
    BY <1>8 DEF FinishStep, PipelineStep
  <2>2. /\ work[w] \in [driver : {"automation", "pipeline"}, flow : TaskId, step : Step]
        /\ work[w].flow \in TaskId /\ work[w].step \in Step
    BY <2>1, JobType
  <2>3. RecordStep(work[w].flow, work[w].step, outcome)
    BY <1>8 DEF FinishStep, PipelineStep
  <2>4. work[w].step # StepCount => [work[w] EXCEPT !.step = @ + 1] \in Job
    <3>1. work[w].step # StepCount => work[w].step + 1 \in Step
      BY <2>2, FlowConstants DEF Step
    <3>. QED  BY <2>2, <3>1 DEF Job
  <2>5. work' \in [Worker -> Job \cup {Idle}]
    <3>1. CASE FinishStep(w, outcome)
      BY <3>1 DEF FinishStep, FlowTypeOK, told
    <3>2. CASE PipelineStep(w, outcome)
      BY <2>4, <3>2 DEF PipelineStep, FlowTypeOK, told
    <3>. QED  BY <1>8, <3>1, <3>2
  <2>. QED  BY <2>2, <2>3, <2>5, RecordType DEF FlowTypeOK
<1>9. ASSUME NEW w \in Worker, NEW k \in Token, PipelineApproval(w, k) PROVE FlowTypeOK'
  <2> DEFINE t == work[w].flow
  <2>1. t \in TaskId /\ work[w].step \in Step
    BY <1>9, JobType DEF PipelineApproval
  <2>2. [flows EXCEPT ![t].status = "awaiting_approval"] \in [TaskId -> Flow]
    BY <2>1, StatusType DEF FlowTypeOK, FlowStatus
  <2>3. flows' \in [TaskId -> Flow]
    BY <1>9, <2>1, <2>2, CurrentType, StepsAreValues DEF PipelineApproval
  <2>4. shown' \in [TaskId -> SUBSET (0..StepCount)]
    BY <1>9, <2>1, <2>3, ShowsType DEF PipelineApproval
  <2>. QED  BY <1>9, <2>3, <2>4, FlowConstants DEF PipelineApproval, FlowTypeOK
<1>10. CASE FinishStart
  <2>1. lock.flow \in TaskId
    BY <1>10, LockType DEF FinishStart
  <2>2. [flows EXCEPT ![lock.flow].current = 1] \in [TaskId -> Flow]
    BY <2>1, CurrentType, StepsAreValues, FlowConstants DEF FlowTypeOK
  <2>3. flows' \in [TaskId -> Flow]
    BY <1>10, <2>2 DEF FinishStart, FlowTypeOK
  <2>4. shown' \in [TaskId -> SUBSET (0..StepCount)]
    BY <1>10, <2>1, <2>3, ShowsType DEF FinishStart
  <2>. QED  BY <1>10, <2>3, <2>4, FlowConstants DEF FinishStart, FlowTypeOK
<1>11. CASE SaveFlows
  BY <1>11, FlowConstants DEF SaveFlows, FlowTypeOK, told
<1>12. ASSUME NEW k \in Token, ResumeFlow(k) PROVE FlowTypeOK'
  <2>1. Target(k) \in TaskId
    BY <1>12, SubjectType DEF ResumeFlow, ResumeExpired, ResumeDenied, ResumeApproved
  <2>. QED  BY <1>12, <2>1 DEF ResumeFlow, FlowTypeOK, told
<1>13. CASE StartupReconcile
  BY <1>13 DEF StartupReconcile, told, FlowTypeOK, Maint, Resting, FlowIds
<1>14. ASSUME NEW t \in TaskId, ReadStatus(t) PROVE FlowTypeOK'
  <2>1. Known(t) => FlowStatusOf(tasks[t].status) \in FlowStatus
    BY DEF Known, FlowStatusOf, TypeOK, Task, Status, Absent, FlowStatus, FlowTerminal,
           TerminalStatus, ResumableStatus
  <2>2. maint' \in Maint
    BY <1>14, <2>1 DEF ReadStatus, FlowTypeOK, Maint
  <2>. QED  BY <1>14, <2>2 DEF ReadStatus, FlowTypeOK, told
<1>15. CASE WriteStatus
  <2>1. maint.item \in TaskId /\ maint.seen \in FlowStatus \cup {"none"}
    BY <1>15 DEF WriteStatus, FlowTypeOK, Maint
  <2>2. [flows EXCEPT ![maint.item].status = maint.seen] \in [TaskId -> Flow]
    BY <2>1, ZenonT(60) DEF FlowTypeOK, Flow
  <2>3. maint' \in Maint
    BY <1>15 DEF WriteStatus, FlowTypeOK, Maint
  <2>. QED  BY <1>15, <2>2, <2>3 DEF WriteStatus, FlowTypeOK, told
<1>16. CASE EndMaintenance
  BY <1>16, FlowConstants DEF EndMaintenance, FlowTypeOK, told
<1>17. CASE (DirectCall /\ UNCHANGED flow_vars) \/ TokenLapses
  BY <1>17 DEF TokenLapses, flow_vars, FlowTypeOK, told
<1>18. CASE ProcessDies \/ CallDies
  <2>1. Wiped
    BY <1>18 DEF ProcessDies, CallDies
  <2>2. {0} \in SUBSET (0..StepCount)
    BY FlowConstants
  <2>. QED  BY <2>1, <2>2, FlowConstants DEF Wiped, FlowTypeOK
<1>19. CASE ProcessStarts
  <2>1. \A t \in TaskId : {0, flows_file[t].current} \in SUBSET (0..StepCount)
    BY FlowConstants DEF FlowTypeOK, Flow
  <2>. QED  BY <1>19, <2>1 DEF ProcessStarts, FlowTypeOK
<1>20. CASE UNCHANGED all_vars
  BY <1>20 DEF all_vars, flow_vars, FlowTypeOK, told
<1>21. ASSUME NEW w \in Worker, PipelineRaises(w) \/ PipelineCaught(w) PROVE FlowTypeOK'
  <2>1. [driver |-> "raised", flow |-> work[w].flow] \in Job
    BY <1>21, JobType DEF PipelineRaises, PipelineCaught, Job
  <2>. QED  BY <1>21, <2>1 DEF PipelineRaises, PipelineCaught, FlowTypeOK, told
<1>22. CASE FinishConclude
  BY <1>22, FlowConstants DEF FinishConclude, FlowTypeOK, told
<1>. QED
  BY <1>1, <1>2, <1>3, <1>4, <1>5, <1>6, <1>7, <1>8, <1>9, <1>10, <1>11, <1>12, <1>13,
     <1>14, <1>15, <1>16, <1>17, <1>18, <1>19, <1>20, <1>21, <1>22, FlowConstants, StepsAreValues
  DEF FlowNext, FlowCall, Holder, Proceed, Maintenance

\* The two layers and their files hold what their types say; in particular a worker
\* always executes a step of an existing identifier.
LEMMA FlowTypes == FlowSpec => [](TypeOK /\ FlowTypeOK)
<1>1. FlowInit => TypeOK /\ FlowTypeOK
  <2>1. Init => TypeOK
    BY TaskTypes, EmptySeq DEF Init, TypeOK, Disk
  <2>. QED  BY <2>1, FlowConstants DEF FlowInit, FlowTypeOK
<1>2. TypeOK /\ FlowTypeOK /\ [FlowNext]_all_vars => TypeOK' /\ FlowTypeOK'
  BY FlowStepsRegistry, TypeStep, FlowTypeStep
<1>. QED  BY <1>1, <1>2, PTL DEF FlowSpec
-----------------------------------------------------------------------------
(* What a call on the registry does, when no write fails and none is torn *)

LEMMA CallReturns ==
    ASSUME NEW ts, NEW ks, NEW log, NEW passed, NEW final, Commit(ts, ks, log, passed, final),
           up'
    PROVE  tasks' = ts /\ resume_tokens' = ks /\ history' = log /\ disk' = final
BY FlowConstants DEF Commit, Forget

LEMMA NothingTorn ==
    /\ \A d : Torn(d) = {}
    /\ \A d, ts : TearActive(d, ts) = {}
    /\ \A d : TearHistory(d) = {}
    /\ \A d, k : TearPaused(d, k) = {}
BY FlowConstants DEF Torn, TearActive, TearHistory, TearPaused

\* The index ks answers for every paused file in ps, none of which is torn.
IndexedBy(ks, ps) ==
    \A k \in Token : ps[k].kind # "torn" /\ (ps[k].kind = "whole" => ks[k] # NoId)

Untorn(d) == \A k \in Token : d.paused[k].kind # "torn"

\* While the process lives a resume goes by the task in memory, never by a snapshot.
FilesIndexed ==
    /\ Untorn(disk)
    /\ up => IndexedBy(resume_tokens, disk.paused)

LEMMA CallIndexed ==
    ASSUME NEW ts, NEW ks, NEW log, NEW passed, NEW final, Commit(ts, ks, log, passed, final),
           IndexedBy(ks, final.paused), \A d \in passed : Untorn(d)
    PROVE  FilesIndexed'
<1>1. CASE up'
  BY <1>1, CallReturns DEF FilesIndexed, IndexedBy, Untorn
<1>2. CASE ~up'
  BY <1>2 DEF Commit, FilesIndexed, Untorn
<1>. QED  BY <1>1, <1>2

LEMMA PersistIndexed ==
    ASSUME TypeOK, FilesIndexed, up, NEW ts, Persist(ts) PROVE FilesIndexed'
<1>1. SaveActive(disk, ts).paused = disk.paused
  BY SaveKeepsPaused DEF TypeOK
<1>2. Commit(ts, resume_tokens, history, {}, SaveActive(disk, ts))
  BY NothingTorn DEF Persist
<1>. QED  BY <1>1, <1>2, CallIndexed DEF FilesIndexed

LEMMA FinishIndexed ==
    ASSUME TypeOK, FilesIndexed, up, NEW t \in TaskId, NEW status, Finish(t, status)
    PROVE  FilesIndexed'
<1> DEFINE ts  == [tasks EXCEPT ![t].status = status, ![t].dated = TRUE]
           log == Remember(history, <<[id |-> t, status |-> status]>>)
           d   == SaveHistory(disk, log)
<1>1. SaveActive(d, ts).paused = disk.paused
  BY DEF SaveHistory, SaveActive, TypeOK, Disk
<1>2. Commit(ts, resume_tokens, log, {d}, SaveActive(d, ts))
  BY NothingTorn DEF Finish
<1>3. Untorn(d)
  BY DEF SaveHistory, TypeOK, Disk, FilesIndexed, Untorn
<1> HIDE DEF d, ts, log
<1>. QED  BY <1>1, <1>2, <1>3, CallIndexed DEF FilesIndexed

LEMMA SuspendIndexed ==
    ASSUME TypeOK, FilesIndexed, up, NEW t \in TaskId, NEW k \in Token, NEW status,
           Suspend(t, k, status)
    PROVE  FilesIndexed'
<1> DEFINE r  == [tasks[t] EXCEPT !.status = status, !.token = k]
           ts == [tasks EXCEPT ![t] = r]
           d  == SavePaused(disk, k, t, r)
           ps == [disk.paused EXCEPT ![k] = [kind |-> "whole", id |-> t, task |-> r]]
           ks == [resume_tokens EXCEPT ![k] = t]
<1>1. SaveActive(d, ts).paused = ps
  BY DEF SaveActive, SavePaused, TypeOK, Disk
<1>2. IndexedBy(ks, ps)
  BY FlowConstants DEF FilesIndexed, IndexedBy, TypeOK, Disk
<1>3. Commit(ts, ks, history, {d}, SaveActive(d, ts))
  BY NothingTorn DEF Suspend
<1>4. Untorn(d)
  BY DEF SavePaused, TypeOK, Disk, FilesIndexed, Untorn
<1> HIDE DEF ts, ks, d, ps
<1>. QED  BY <1>1, <1>2, <1>3, <1>4, CallIndexed

\* A token leaves the index together with its file.
LEMMA ReleaseIndexed ==
    ASSUME TypeOK, FilesIndexed, up, NEW c \in Token \cup {NoToken},
           NEW ts, NEW log, NEW passed, NEW final,
           final.paused = RemovePaused(disk, c).paused,
           Commit(ts, Pop(resume_tokens, c), log, passed, final),
           \A d \in passed : d.paused \in {disk.paused, RemovePaused(disk, c).paused}
    PROVE  FilesIndexed'
<1>1. NoFile.kind = "absent"
  BY DEF NoFile
<1>2. IndexedBy(Pop(resume_tokens, c), RemovePaused(disk, c).paused)
  <2>1. CASE c = NoToken
    BY <2>1 DEF FilesIndexed, Pop, RemovePaused
  <2>2. CASE c # NoToken
    <3>1. \A k \in Token : RemovePaused(disk, c).paused[k] = IF k = c THEN NoFile ELSE disk.paused[k]
      BY <2>2 DEF RemovePaused, TypeOK, Disk
    <3>2. \A k \in Token : Pop(resume_tokens, c)[k] = IF k = c THEN NoId ELSE resume_tokens[k]
      BY <2>2 DEF Pop, TypeOK
    <3>. QED  BY <1>1, <3>1, <3>2 DEF FilesIndexed, IndexedBy
  <2>. QED  BY <2>1, <2>2
<1>3. \A d \in passed : Untorn(d)
  BY <1>2 DEF IndexedBy, Untorn, FilesIndexed
<1>. QED  BY <1>2, <1>3, CallIndexed

LEMMA ReconcileIndexed ==
    ASSUME TypeOK, FilesIndexed,
           NEW order \in [1..Cardinality(ReconcileExpired) -> ReconcileExpired],
           Reconcile(order)
    PROVE  FilesIndexed'
<1> DEFINE n    == Cardinality(ReconcileExpired)
           ts   == [t \in TaskId |-> Reconciled(t)]
           last == ReconcileDisk(order, n, n)
           ks   == [k \in Token |-> IF \E t \in ReconcileExpired : tasks[t].token = k
                                    THEN NoId ELSE resume_tokens[k]]
           ps   == [k \in Token |-> IF \E i \in 1..n : tasks[order[i]].token = k
                                    THEN NoFile ELSE disk.paused[k]]
<1>1. SaveActive(last, ts).paused = ps
  BY DEF SaveActive, ReconcileDisk, TypeOK, Disk
<1>2. /\ up /\ \A t \in ReconcileExpired : \E i \in 1..n : order[i] = t
  BY DEF Reconcile
<1>3. ASSUME NEW k \in Token
      PROVE  ps[k].kind # "torn" /\ (ps[k].kind = "whole" => ks[k] # NoId)
  <2>1. CASE \E i \in 1..n : tasks[order[i]].token = k
    BY <2>1 DEF NoFile
  <2>2. CASE ~ \E i \in 1..n : tasks[order[i]].token = k
    <3>1. ~ \E t \in ReconcileExpired : tasks[t].token = k
      BY <1>2, <2>2
    <3>. QED  BY <1>2, <2>2, <3>1 DEF FilesIndexed, IndexedBy
  <2>. QED  BY <2>1, <2>2
<1> DEFINE passed == UNION {{ReconcileDisk(order, i, i - 1), ReconcileDisk(order, i, i)} : i \in 1..n}
<1>4. Commit(ts, ks, last.history, passed, SaveActive(last, ts))
  <2>1. \A i \in 1..n : {ReconcileDisk(order, i, i - 1), ReconcileDisk(order, i, i)}
                              \cup TearHistory(ReconcileDisk(order, i, i - 1))
                          = {ReconcileDisk(order, i, i - 1), ReconcileDisk(order, i, i)}
    BY NothingTorn
  <2>2. (UNION {{ReconcileDisk(order, i, i - 1), ReconcileDisk(order, i, i)}
                    \cup TearHistory(ReconcileDisk(order, i, i - 1)) : i \in 1..n})
            \cup TearActive(last, ts) = passed
    BY <2>1, NothingTorn
  <2>. QED  BY <2>2 DEF Reconcile
<1>5. ASSUME NEW i, NEW j PROVE Untorn(ReconcileDisk(order, i, j))
  BY DEF ReconcileDisk, Untorn, FilesIndexed, NoFile, TypeOK, Disk
<1>6. \A d \in passed : Untorn(d)
  BY <1>5
<1> HIDE DEF ts, ks, ps, last, passed
<1>. QED  BY <1>1, <1>3, <1>4, <1>6, CallIndexed DEF IndexedBy

LEMMA RestartIndexed ==
    ASSUME TypeOK, FilesIndexed, Restart PROVE FilesIndexed'
<1>1. PICK loaded \in SUBSET Whole, first \in [TaskId -> Token] :
         /\ (\A k \in Token : disk.paused[k].kind # "torn") => loaded = Whole
         /\ Load(loaded, first)
  BY DEF Restart
<1>2. ASSUME NEW k \in Whole PROVE disk.paused[k].id \in TaskId
  <2>1. disk.paused[k] \in PausedFile /\ disk.paused[k].kind = "whole"
    BY DEF Whole, TypeOK, Disk
  <2>2. disk.paused[k] \in [kind : {"whole"}, id : TaskId, task : Task]
    BY <2>1 DEF PausedFile
  <2>. QED  BY <2>2
<1>3. \A k \in Token : disk.paused[k].kind = "whole" => resume_tokens'[k] # NoId
  BY <1>1, <1>2, FlowConstants DEF FilesIndexed, Load, Whole, Untorn
<1>. QED  BY <1>3 DEF Restart, FilesIndexed, IndexedBy, Untorn

LEMMA FilesIndexedStep ==
    ASSUME TypeOK, FilesIndexed, [Next]_vars PROVE FilesIndexed'
<1>1. ASSUME NEW t \in TaskId, \/ Create(t) \/ Queue(t) \/ Start(t) \/ Retry(t) \/ UpdateStep(t)
      PROVE  FilesIndexed'
  BY <1>1, PersistIndexed DEF Create, Queue, Start, Retry, UpdateStep
<1>2. ASSUME NEW t \in TaskId, Complete(t) \/ Fail(t) \/ Cancel(t) PROVE FilesIndexed'
  BY <1>2, FinishIndexed DEF Complete, Fail, Cancel
<1>3. ASSUME NEW t \in TaskId, NEW k \in Token, Pause(t, k) \/ AwaitApproval(t, k)
      PROVE  FilesIndexed'
  BY <1>3, SuspendIndexed DEF Pause, AwaitApproval
<1>4. ASSUME NEW t \in TaskId, Delete(t) PROVE FilesIndexed'
  <2> DEFINE c  == tasks[t].token
             ts == [tasks EXCEPT ![t] = GoneTask]
             d  == SaveActive(RemovePaused(disk, c), ts)
  <2>1. c \in Token \cup {NoToken} /\ up
    BY <1>4 DEF Delete, TypeOK, Task
  <2>2. Commit(ts, Pop(resume_tokens, c), history, {RemovePaused(disk, c)}, d)
    BY <1>4, NothingTorn DEF Delete
  <2>3. d.paused = RemovePaused(disk, c).paused
    BY <2>1, RemovePausedType, SaveKeepsPaused DEF TypeOK
  <2> HIDE DEF c, ts, d
  <2>. QED  BY <2>1, <2>2, <2>3, ReleaseIndexed
<1>5. ASSUME NEW k \in Token, ResumeApproved(k) PROVE FilesIndexed'
  <2> DEFINE r  == Subject(k)
             c  == r.token
             ts == [tasks EXCEPT ![Target(k)] = [r EXCEPT !.status = "running", !.token = NoToken]]
             d  == SaveActive(RemovePaused(disk, c), ts)
  <2>1. c \in Token \cup {NoToken} /\ up
    BY <1>5, SubjectType DEF ResumeApproved, Redeemable, Task
  <2>2. Commit(ts, Pop(resume_tokens, c), history, {RemovePaused(disk, c)}, d)
    BY <1>5, NothingTorn DEF ResumeApproved
  <2>3. d.paused = RemovePaused(disk, c).paused
    BY <2>1, RemovePausedType, SaveKeepsPaused DEF TypeOK
  <2> HIDE DEF c, ts, d
  <2>. QED  BY <2>1, <2>2, <2>3, ReleaseIndexed
<1>6. ASSUME NEW k \in Token, ResumeExpired(k) \/ ResumeDenied(k) PROVE FilesIndexed'
  <2> DEFINE r   == Subject(k)
             c   == r.token
             ts  == [tasks EXCEPT ![Target(k)] = [r EXCEPT !.status = "cancelled", !.token = NoToken]]
             log == Remember(history, <<[id |-> Target(k), status |-> "cancelled"]>>)
             d   == RemovePaused(SaveHistory(disk, log), c)
  <2>1. c \in Token \cup {NoToken} /\ up
    BY <1>6, SubjectType DEF ResumeExpired, ResumeDenied, Redeemable, Task
  <2>2. Commit(ts, Pop(resume_tokens, c), log, {SaveHistory(disk, log)}, d)
    BY <1>6, NothingTorn DEF ResumeExpired, ResumeDenied, Dismiss
  <2>3. /\ d.paused = RemovePaused(disk, c).paused
        /\ SaveHistory(disk, log).paused = disk.paused
    BY DEF RemovePaused, SaveHistory, TypeOK, Disk
  <2> HIDE DEF c, ts, log, d
  <2>. QED  BY <2>1, <2>2, <2>3, ReleaseIndexed
<1>7. ASSUME NEW k \in Token, Lapse(k) PROVE FilesIndexed'
  BY <1>7 DEF Lapse, FilesIndexed, IndexedBy, Untorn
<1>8. ASSUME NEW old \in SUBSET TaskId, CleanupCompleted(old) PROVE FilesIndexed'
  BY <1>8, PersistIndexed DEF CleanupCompleted
<1>9. ASSUME NEW order \in [1..Cardinality(ReconcileExpired) -> ReconcileExpired],
             Reconcile(order)
      PROVE  FilesIndexed'
  BY <1>9, ReconcileIndexed
<1>10. CASE Crash
  BY <1>10 DEF Crash, Forget, FilesIndexed, Untorn
<1>11. CASE Restart
  BY <1>11, RestartIndexed
<1>12. CASE UNCHANGED vars
  BY <1>12 DEF vars, FilesIndexed, IndexedBy, Untorn
<1>. QED
  BY <1>1, <1>2, <1>3, <1>4, <1>5, <1>6, <1>7, <1>8, <1>9, <1>10, <1>11, <1>12 DEF Next

\* One task has taken a status, the others are as they were, and the active file
\* says so too.
Saved(t, status) ==
    /\ up /\ up'
    /\ tasks'[t].status = status
    /\ \A u \in TaskId \ {t} : tasks'[u] = tasks[u]
    /\ disk'.active = tasks'

\* One suspended task has been cancelled, in memory only.
Dismissed(t) ==
    /\ up /\ up'
    /\ CanResume(tasks[t])
    /\ tasks'[t].status = "cancelled"
    /\ \A u \in TaskId \ {t} : tasks'[u] = tasks[u]
    /\ disk'.active = disk.active

LEMMA PersistSaves ==
    ASSUME TypeOK, up, NEW ts \in [TaskId -> Task], Persist(ts), up'
    PROVE  tasks' = ts /\ disk'.active = tasks'
<1>1. SaveActive(disk, ts).active = ts
  BY DEF SaveActive, TypeOK, Disk
<1>. QED  BY <1>1, CallReturns DEF Persist

LEMMA CreateSaves ==
    ASSUME TypeOK, NEW t \in TaskId, Create(t), up'
    PROVE  tasks[t].status = "none" /\ Saved(t, "pending")
<1>1. [tasks EXCEPT ![t] = NewTask] \in [TaskId -> Task] /\ NewTask.status = "pending"
  BY TaskTypes DEF TypeOK, NewTask, NoTask
<1>. QED  BY <1>1, PersistSaves DEF Create, Saved, TypeOK

LEMMA QueueSaves ==
    ASSUME TypeOK, NEW t \in TaskId, Queue(t), up'
    PROVE  tasks[t].status = "pending" /\ Saved(t, "queued")
<1> DEFINE ts == [tasks EXCEPT ![t].status = "queued"]
<1>1. ts \in [TaskId -> Task]
  BY DEF TypeOK, Task, Status
<1>2. ts[t].status = "queued" /\ \A u \in TaskId \ {t} : ts[u] = tasks[u]
  BY DEF TypeOK, Task
<1>3. up /\ Persist(ts)
  BY DEF Queue
<1> HIDE DEF ts
<1>4. Saved(t, "queued")
  BY <1>1, <1>2, <1>3, PersistSaves DEF Saved
<1>. QED  BY <1>4 DEF Queue

LEMMA StartSaves ==
    ASSUME TypeOK, NEW t \in TaskId, Start(t), up'
    PROVE  tasks[t].status \in {"queued", "waiting"} /\ Saved(t, "running")
<1> DEFINE ts == [tasks EXCEPT ![t].status = "running"]
<1>1. ts \in [TaskId -> Task]
  BY DEF TypeOK, Task, Status
<1>2. ts[t].status = "running" /\ \A u \in TaskId \ {t} : ts[u] = tasks[u]
  BY DEF TypeOK, Task
<1>3. up /\ Persist(ts)
  BY DEF Start
<1> HIDE DEF ts
<1>4. Saved(t, "running")
  BY <1>1, <1>2, <1>3, PersistSaves DEF Saved
<1>. QED  BY <1>4 DEF Start

LEMMA UpdateSaves ==
    ASSUME TypeOK, NEW t \in TaskId, UpdateStep(t), up'
    PROVE  Known(t) /\ tasks' = tasks /\ Saved(t, tasks[t].status)
BY PersistSaves DEF UpdateStep, Saved, TypeOK

LEMMA FinishSaves ==
    ASSUME TypeOK, up, NEW t \in TaskId, NEW status, Finish(t, status), up'
    PROVE  Saved(t, status)
<1> DEFINE ts  == [tasks EXCEPT ![t].status = status, ![t].dated = TRUE]
           log == Remember(history, <<[id |-> t, status |-> status]>>)
           d   == SaveActive(SaveHistory(disk, log), ts)
<1>1. d.active = ts
  BY DEF SaveHistory, SaveActive, TypeOK, Disk
<1>2. ts[t].status = status /\ \A u \in TaskId \ {t} : ts[u] = tasks[u]
  BY DEF TypeOK, Task
<1>3. PICK passed : Commit(ts, resume_tokens, log, passed, d)
  BY DEF Finish
<1> HIDE DEF ts, log, d
<1>. QED  BY <1>1, <1>2, <1>3, CallReturns DEF Saved

LEMMA EndSaves ==
    ASSUME TypeOK, NEW t \in TaskId, up'
    PROVE  /\ Complete(t) => Known(t) /\ Saved(t, "completed")
           /\ Fail(t) => Known(t) /\ Saved(t, "failed")
           /\ Cancel(t) => Known(t) /\ ~Terminal(tasks[t]) /\ Saved(t, "cancelled")
BY FinishSaves DEF Complete, Fail, Cancel

LEMMA SuspendSaves ==
    ASSUME TypeOK, up, NEW t \in TaskId, NEW k \in Token, NEW status, Suspend(t, k, status), up'
    PROVE  Saved(t, status)
<1> DEFINE r  == [tasks[t] EXCEPT !.status = status, !.token = k]
           ts == [tasks EXCEPT ![t] = r]
           d  == SaveActive(SavePaused(disk, k, t, r), ts)
<1>1. d.active = ts
  BY DEF SavePaused, SaveActive, TypeOK, Disk
<1>2. ts[t].status = status /\ \A u \in TaskId \ {t} : ts[u] = tasks[u]
  BY DEF TypeOK, Task
<1>3. PICK ks, passed : Commit(ts, ks, history, passed, d)
  BY DEF Suspend
<1> HIDE DEF ts, d
<1>. QED  BY <1>1, <1>2, <1>3, CallReturns DEF Saved

LEMMA PauseSaves ==
    ASSUME TypeOK, NEW t \in TaskId, NEW k \in Token, up'
    PROVE  /\ Pause(t, k) => tasks[t].status \in {"running", "waiting"} /\ Saved(t, "paused")
           /\ AwaitApproval(t, k) => Known(t) /\ Saved(t, "awaiting_approval")
BY SuspendSaves DEF Pause, AwaitApproval

LEMMA SubjectIndexed ==
    ASSUME TypeOK, FilesIndexed, NEW k \in Token, Redeemable(k)
    PROVE  /\ up /\ Target(k) \in TaskId /\ Subject(k) = tasks[Target(k)]
           /\ CanResume(tasks[Target(k)])
BY DEF Redeemable, FilesIndexed, IndexedBy, Indexed, Target, Subject, TypeOK

LEMMA ApprovedSaves ==
    ASSUME TypeOK, FilesIndexed, NEW k \in Token, ResumeApproved(k), up'
    PROVE  /\ Target(k) \in TaskId /\ CanResume(tasks[Target(k)])
           /\ Saved(Target(k), "running")
<1> DEFINE t  == Target(k)
           ts == [tasks EXCEPT ![t] = [tasks[t] EXCEPT !.status = "running", !.token = NoToken]]
           d  == SaveActive(RemovePaused(disk, tasks[t].token), ts)
<1>1. up /\ t \in TaskId /\ Subject(k) = tasks[t] /\ CanResume(tasks[t])
  BY SubjectIndexed DEF ResumeApproved
<1>2. PICK ks, passed : Commit(ts, ks, history, passed, d)
  BY <1>1 DEF ResumeApproved
<1> HIDE DEF t
<1>3. d.active = ts
  BY DEF RemovePaused, SaveActive, TypeOK, Disk
<1>4. ts[t].status = "running" /\ \A u \in TaskId \ {t} : ts[u] = tasks[u]
  BY <1>1 DEF TypeOK, Task
<1> HIDE DEF ts, d
<1>. QED  BY <1>1, <1>2, <1>3, <1>4, CallReturns DEF Saved, t

LEMMA DismissDismisses ==
    ASSUME TypeOK, FilesIndexed, NEW k \in Token, ResumeExpired(k) \/ ResumeDenied(k), up'
    PROVE  Target(k) \in TaskId /\ Dismissed(Target(k))
<1> DEFINE t   == Target(k)
           ts  == [tasks EXCEPT ![t] = [tasks[t] EXCEPT !.status = "cancelled", !.token = NoToken]]
           log == Remember(history, <<[id |-> t, status |-> "cancelled"]>>)
           d   == RemovePaused(SaveHistory(disk, log), tasks[t].token)
<1>1. up /\ t \in TaskId /\ Subject(k) = tasks[t] /\ CanResume(tasks[t])
  BY SubjectIndexed DEF ResumeExpired, ResumeDenied
<1>2. PICK ks, passed : Commit(ts, ks, log, passed, d)
  BY <1>1 DEF ResumeExpired, ResumeDenied, Dismiss
<1> HIDE DEF t
<1>3. d.active = disk.active
  BY DEF RemovePaused, SaveHistory, TypeOK, Disk
<1>4. ts[t].status = "cancelled" /\ \A u \in TaskId \ {t} : ts[u] = tasks[u]
  BY <1>1 DEF TypeOK, Task
<1> HIDE DEF ts, log, d
<1>. QED  BY <1>1, <1>2, <1>3, <1>4, CallReturns DEF Dismissed, t

LEMMA ReconcileSaves ==
    ASSUME TypeOK, NEW order, Reconcile(order), up'
    PROVE  /\ up /\ up' /\ disk'.active = tasks'
           /\ \A t \in TaskId :
                \/ tasks'[t].status = tasks[t].status
                \/ tasks[t].status = "running" /\ tasks'[t].status = "pending"
                \/ CanResume(tasks[t]) /\ tasks'[t].status = "cancelled"
<1> DEFINE ts == [t \in TaskId |-> Reconciled(t)]
           d  == ReconcileDisk(order, Cardinality(ReconcileExpired), Cardinality(ReconcileExpired))
<1>1. up
  BY DEF Reconcile
<1>2. PICK ks, log, passed : Commit(ts, ks, log, passed, SaveActive(d, ts))
  BY DEF Reconcile
<1>3. SaveActive(d, ts).active = ts
  BY DEF SaveActive, ReconcileDisk, TypeOK, Disk
<1>4. \A t \in TaskId : \/ ts[t].status = tasks[t].status
                        \/ tasks[t].status = "running" /\ ts[t].status = "pending"
                        \/ CanResume(tasks[t]) /\ ts[t].status = "cancelled"
  BY DEF Reconciled, ReconcileExpired, TypeOK, Task
<1> HIDE DEF ts, d
<1>. QED  BY <1>1, <1>2, <1>3, <1>4, CallReturns
-----------------------------------------------------------------------------
(* The two layers agree *)

\* start_flow() has begun with t and holds the lock.
Starting(t) == lock.phase = "starting" /\ lock.flow = t

\* complete_step() has found that t is over and holds the lock.
Concluding(t) == lock.phase \in {"completing", "failing"} /\ lock.flow = t

\* What the two layers say of t.
AgreeAt(t) ==
    /\ t \in creating => tasks[t].status = "pending" /\ ~HasFlow(t)
    /\ HasFlow(t) => Known(t)
    /\ flows[t].status = "pending" => tasks[t].status = "pending"
    /\ Starting(t) => flows[t].status = "running" /\ tasks[t].status = "queued"
    /\ flows[t].status = "running" /\ ~Starting(t) => tasks[t].status = "running"
    /\ Concluding(t) => flows[t].status \in FlowTerminal
    /\ flows[t].status \in FlowTerminal /\ ~Concluding(t) => Terminal(tasks[t])

\* Inductive while the process lives and nobody acts behind the back of a flow.
LayersAgree == up /\ \A t \in TaskId : AgreeAt(t)

\* A step that is about t, if about any.
Touches(t) ==
    \A u \in TaskId \ {t} :
        /\ flows'[u].status = flows[u].status
        /\ tasks'[u].status = tasks[u].status
        /\ u \in creating' => u \in creating
        /\ Starting(u)' <=> Starting(u)
        /\ Concluding(u)' <=> Concluding(u)

LEMMA TouchesAgree ==
    ASSUME LayersAgree, NEW t \in TaskId, Touches(t), AgreeAt(t)', up' PROVE LayersAgree'
<1>1. ASSUME NEW u \in TaskId \ {t} PROVE AgreeAt(u)'
  <2>1. AgreeAt(u)
    BY DEF LayersAgree
  <2>2. /\ flows'[u].status = flows[u].status
        /\ tasks'[u].status = tasks[u].status
        /\ u \in creating' => u \in creating
        /\ Starting(u)' <=> Starting(u)
        /\ Concluding(u)' <=> Concluding(u)
    BY DEF Touches
  <2>. QED  BY <2>1, <2>2 DEF AgreeAt, HasFlow, Known, Terminal
<1>. QED  BY <1>1 DEF LayersAgree

LEMMA UntouchedAgree ==
    ASSUME LayersAgree, UNCHANGED <<vars, flows, creating>>,
           \A u \in TaskId : (Starting(u)' <=> Starting(u)) /\ (Concluding(u)' <=> Concluding(u))
    PROVE  LayersAgree'
BY DEF LayersAgree, AgreeAt, HasFlow, Known, Terminal, vars

\* Nobody is starting or concluding a flow when the lock is free or held for a save.
LEMMA NotStarting ==
    \A t : /\ lock = Free \/ lock = Saving => ~Starting(t) /\ ~Concluding(t)
           /\ lock' = Free \/ lock' = Saving => ~Starting(t)' /\ ~Concluding(t)'
BY DEF Starting, Concluding, Free, Saving

LEMMA BeginStartAgree ==
    ASSUME TypeOK, FlowTypeOK, LayersAgree, NEW t \in TaskId, BeginStart(t), up'
    PROVE  LayersAgree'
<1>1. AgreeAt(t) /\ flows[t].status = "pending" /\ tasks[t].status = "pending"
  BY DEF LayersAgree, AgreeAt, BeginStart, CanStartFlow
<1>2. up' /\ Saved(t, "queued")
  BY <1>1, QueueSaves DEF BeginStart, Saved
<1>3. flows'[t].status = "running" /\ \A u \in TaskId \ {t} : flows'[u] = flows[u]
  BY DEF BeginStart, FlowTypeOK, Flow
<1>4. \A u : ~Starting(u) /\ (Starting(u)' <=> u = t) /\ ~Concluding(u) /\ ~Concluding(u)'
  BY NotStarting DEF BeginStart, Starting, Concluding
<1>5. creating' = creating /\ t \notin creating
  BY <1>1 DEF AgreeAt, HasFlow, BeginStart
<1>6. Touches(t)
  BY <1>2, <1>3, <1>4, <1>5 DEF Touches, Saved
<1>7. AgreeAt(t)'
  BY <1>2, <1>3, <1>4, <1>5 DEF AgreeAt, Saved, Known, Absent, FlowTerminal
<1>. QED  BY <1>2, <1>6, <1>7, TouchesAgree

LEMMA RecordAgree ==
    ASSUME TypeOK, FlowTypeOK, LayersAgree, NEW t \in TaskId, NEW s \in Step,
           NEW outcome \in Outcome, RecordStep(t, s, outcome), up'
    PROVE  LayersAgree'
<1>1. CASE ~(HasFlow(t) /\ Known(t))
  BY <1>1, UntouchedAgree DEF RecordStep, Starting, Concluding
<1>2. CASE HasFlow(t) /\ Known(t)
  <2> DEFINE res     == [results EXCEPT ![t][s] = outcome]
             flow    == [flows[t] EXCEPT !.failing = @ \/ outcome = "failed"]
             next    == GetNextStep(t, s, res)
             stopped == outcome = "failed" /\ StopOnFailure
             final   == IF flow.failing /\ StopOnFailure THEN "failed" ELSE "completed"
  <2>1. CompleteStep(t, s, outcome)
    BY <1>2 DEF RecordStep
  <2>2. flow.status = flows[t].status
    BY DEF FlowTypeOK, Flow
  <2>3. final \in {"failed", "completed"}
    OBVIOUS
  <2>4. /\ [flow EXCEPT !.status = final].status = final
        /\ [flow EXCEPT !.current = next].status = flow.status
    BY DEF FlowTypeOK, Flow
  <2>5. /\ lock = Free /\ UpdateStep(t) /\ creating' = creating
        /\ \/ /\ flows' = [flows EXCEPT ![t] = [flow EXCEPT !.status = final]]
              /\ lock' = [phase |-> IF stopped THEN "failing" ELSE "completing", flow |-> t]
           \/ /\ flows' = [flows EXCEPT ![t] = [flow EXCEPT !.current = next]]
              /\ lock' = Saving
    BY <2>1 DEF CompleteStep
  <2> HIDE DEF res, flow, next, stopped, final
  <2>6. /\ \A u : ~Starting(u) /\ ~Starting(u)' /\ ~Concluding(u)
        /\ \A u \in TaskId \ {t} : ~Concluding(u)'
        /\ tasks' = tasks
    BY <2>5, NotStarting, UpdateSaves DEF Starting, Concluding, Saving
  <2>7. \A u \in TaskId \ {t} : flows'[u] = flows[u]
    BY <2>5 DEF FlowTypeOK
  <2>8. t \notin creating /\ AgreeAt(t)
    BY <1>2 DEF LayersAgree, AgreeAt
  <2>9. Touches(t)
    BY <2>5, <2>6, <2>7 DEF Touches
  <2>10. CASE /\ flows' = [flows EXCEPT ![t] = [flow EXCEPT !.status = final]]
              /\ lock' = [phase |-> IF stopped THEN "failing" ELSE "completing", flow |-> t]
    <3>1. flows'[t].status = final /\ Concluding(t)'
      BY <2>4, <2>10 DEF FlowTypeOK, Concluding
    <3>2. AgreeAt(t)'
      BY <1>2, <2>3, <2>5, <2>6, <2>8, <3>1 DEF AgreeAt, HasFlow, Known, FlowTerminal
    <3>. QED  BY <2>9, <3>2, TouchesAgree
  <2>11. CASE /\ flows' = [flows EXCEPT ![t] = [flow EXCEPT !.current = next]]
              /\ lock' = Saving
    <3>1. flows'[t].status = flows[t].status /\ ~Concluding(t)'
      BY <2>2, <2>4, <2>11, NotStarting DEF FlowTypeOK
    <3>2. AgreeAt(t)'
      BY <2>5, <2>6, <2>8, <3>1 DEF AgreeAt, HasFlow, Known, Terminal
    <3>. QED  BY <2>9, <3>2, TouchesAgree
  <2>. QED  BY <2>5, <2>10, <2>11
<1>. QED  BY <1>1, <1>2

LEMMA FinishConcludeAgree ==
    ASSUME TypeOK, FlowTypeOK, LayersAgree, FinishConclude, up' PROVE LayersAgree'
<1>1. PICK t \in TaskId : t = lock.flow
  BY LockType DEF FinishConclude
<1>2. Concluding(t) /\ AgreeAt(t) /\ creating' = creating /\ flows' = flows
  BY <1>1 DEF FinishConclude, Concluding, LayersAgree
<1>3. flows[t].status \in FlowTerminal /\ HasFlow(t) /\ Known(t)
  BY <1>2 DEF AgreeAt, HasFlow, FlowTerminal
<1>4. Saved(t, "completed") \/ Saved(t, "failed")
  BY <1>1, <1>3, EndSaves DEF FinishConclude, Conclude
<1>5. \A u : (Concluding(u) <=> u = t) /\ ~Concluding(u)' /\ ~Starting(u) /\ ~Starting(u)'
  BY <1>1, NotStarting DEF FinishConclude, Starting, Concluding
<1>6. Touches(t)
  BY <1>2, <1>4, <1>5 DEF Touches, Saved
<1>7. AgreeAt(t)'
  BY <1>2, <1>3, <1>4, <1>5
  DEF AgreeAt, HasFlow, Saved, Known, Terminal, TerminalStatus, Absent, FlowTerminal
<1>. QED  BY <1>1, <1>6, <1>7, TouchesAgree

LEMMA PauseAgree ==
    ASSUME TypeOK, FlowTypeOK, LayersAgree, NEW t \in TaskId, NEW s, PauseFlow(t, s), up'
    PROVE  LayersAgree'
<1>1. AgreeAt(t) /\ HasFlow(t) /\ Known(t) /\ t \notin creating'
  BY DEF LayersAgree, AgreeAt, PauseFlow
<1>2. up' /\ (Saved(t, "paused") \/ tasks' = tasks)
  BY PauseSaves DEF PauseFlow, CanPauseTask, Saved, vars
<1>3. flows'[t].status = "paused" /\ \A u \in TaskId \ {t} : flows'[u] = flows[u]
  BY DEF PauseFlow, FlowTypeOK, Flow
<1>4. \A u : ~Starting(u) /\ ~Starting(u)' /\ ~Concluding(u) /\ ~Concluding(u)'
  BY NotStarting DEF PauseFlow
<1>5. Touches(t)
  BY <1>2, <1>3, <1>4 DEF Touches, Saved, PauseFlow
<1>6. AgreeAt(t)'
  BY <1>1, <1>2, <1>3, <1>4 DEF AgreeAt, Saved, Known, Absent, FlowTerminal
<1>. QED  BY <1>2, <1>5, <1>6, TouchesAgree

LEMMA CancelAgree ==
    ASSUME TypeOK, FlowTypeOK, LayersAgree, NEW t \in TaskId, CancelFlow(t), up'
    PROVE  LayersAgree'
<1>1. AgreeAt(t) /\ HasFlow(t) /\ Known(t) /\ t \notin creating'
  BY DEF LayersAgree, AgreeAt, CancelFlow
<1>2. up' /\ (Saved(t, "cancelled") \/ (tasks' = tasks /\ Terminal(tasks[t])))
  BY <1>1, EndSaves DEF CancelFlow, CanCancelTask, Saved, vars
<1>3. flows'[t].status = "cancelled" /\ \A u \in TaskId \ {t} : flows'[u] = flows[u]
  BY DEF CancelFlow, FlowTypeOK, Flow
<1>4. \A u : ~Starting(u) /\ ~Starting(u)' /\ ~Concluding(u) /\ ~Concluding(u)'
  BY NotStarting DEF CancelFlow
<1>5. Touches(t)
  BY <1>2, <1>3, <1>4 DEF Touches, Saved, CancelFlow
<1>6. AgreeAt(t)'
  BY <1>1, <1>2, <1>3, <1>4
  DEF AgreeAt, Saved, Known, Terminal, Absent, FlowTerminal, TerminalStatus
<1>. QED  BY <1>2, <1>5, <1>6, TouchesAgree

LEMMA ApprovalAgree ==
    ASSUME TypeOK, FlowTypeOK, LayersAgree, NEW w \in Worker, NEW k \in Token,
           PipelineApproval(w, k), up'
    PROVE  LayersAgree'
<1>1. PICK t \in TaskId : t = work[w].flow
  BY JobType DEF PipelineApproval
<1>2. AgreeAt(t) /\ HasFlow(t) /\ Known(t) /\ t \notin creating' /\ creating' = creating
  BY <1>1 DEF LayersAgree, AgreeAt, PipelineApproval
<1>3. up' /\ Saved(t, "awaiting_approval")
  BY <1>1, <1>2, PauseSaves DEF PipelineApproval, Saved
<1>4. flows'[t].status = "awaiting_approval" /\ \A u \in TaskId \ {t} : flows'[u] = flows[u]
  BY <1>1 DEF PipelineApproval, FlowTypeOK, Flow
<1>5. \A u : ~Starting(u) /\ ~Starting(u)' /\ ~Concluding(u) /\ ~Concluding(u)'
  BY NotStarting DEF PipelineApproval
<1>6. Touches(t)
  BY <1>2, <1>3, <1>4, <1>5 DEF Touches, Saved
<1>7. AgreeAt(t)'
  BY <1>2, <1>3, <1>4, <1>5 DEF AgreeAt, Saved, Known, Absent, FlowTerminal
<1>. QED  BY <1>1, <1>3, <1>6, <1>7, TouchesAgree

LEMMA FinishStartAgree ==
    ASSUME TypeOK, FlowTypeOK, LayersAgree, FinishStart, up'
    PROVE LayersAgree'
<1>1. PICK t \in TaskId : t = lock.flow
  BY LockType DEF FinishStart
<1>2. Starting(t) /\ AgreeAt(t) /\ creating' = creating
  BY <1>1 DEF FinishStart, Starting, LayersAgree
<1>3. tasks[t].status = "queued" /\ flows[t].status = "running"
  BY <1>2 DEF AgreeAt
<1>4. up' /\ Saved(t, "running")
  BY <1>1, <1>3, StartSaves DEF FinishStart, Saved
<1>5. flows'[t].status = "running" /\ \A u \in TaskId \ {t} : flows'[u] = flows[u]
  BY <1>1, <1>3 DEF FinishStart, FlowTypeOK, Flow
<1>6. \A u : (Starting(u) <=> u = t) /\ ~Starting(u)' /\ ~Concluding(u) /\ ~Concluding(u)'
  BY <1>1, NotStarting DEF FinishStart, Starting, Concluding
<1>7. Touches(t)
  BY <1>2, <1>4, <1>5, <1>6 DEF Touches, Saved
<1>8. AgreeAt(t)'
  BY <1>2, <1>3, <1>4, <1>5, <1>6 DEF AgreeAt, HasFlow, Saved, Known, Absent, FlowTerminal
<1>. QED  BY <1>1, <1>4, <1>7, <1>8, TouchesAgree

\* A task that can be resumed has a flow that neither waits, runs nor is over.
LEMMA ResumeAgree ==
    ASSUME TypeOK, FlowTypeOK, LayersAgree, FilesIndexed, NEW k \in Token, ResumeFlow(k), up'
    PROVE  LayersAgree'
<1>1. PICK t \in TaskId : CanResume(tasks[t]) /\ (Dismissed(t) \/ Saved(t, "running"))
  BY ApprovedSaves, DismissDismisses DEF ResumeFlow, Dismissed
<1>2. up' /\ tasks'[t].status \in {"running", "cancelled"}
  BY <1>1 DEF Dismissed, Saved
<1>3. AgreeAt(t) /\ flows' = flows /\ lock' = lock /\ creating' = creating
  BY <1>1 DEF LayersAgree, ResumeFlow
<1>4. \A u : (Starting(u)' <=> Starting(u)) /\ (Concluding(u)' <=> Concluding(u))
  BY <1>3 DEF Starting, Concluding
<1>5. Touches(t)
  BY <1>1, <1>3, <1>4 DEF Touches, Dismissed, Saved
<1>6. AgreeAt(t)'
  BY <1>1, <1>2, <1>3, <1>4
  DEF AgreeAt, HasFlow, Known, Terminal, CanResume, ResumableStatus, TerminalStatus, Absent,
      FlowTerminal
<1>. QED  BY <1>1, <1>2, <1>5, <1>6, TouchesAgree

LEMMA AgreeStep ==
    ASSUME Faults = {}, Clients \subseteq {"pause", "cancel"},
           TypeOK, FlowTypeOK, FilesIndexed, LayersAgree, [FlowNext]_all_vars
    PROVE  LayersAgree'
<1>0. up' /\ ~CallDies
  BY DEF FlowNext, CallDies, TokenLapses, Lapse, ProcessDies, Crash, ProcessStarts, Restart,
         LayersAgree, all_vars, vars
<1>1. ASSUME NEW t \in TaskId, CreateFlowTask(t) PROVE LayersAgree'
  <2>1. AgreeAt(t) /\ ~Known(t) /\ Saved(t, "pending")
    BY <1>0, <1>1, CreateSaves DEF CreateFlowTask, LayersAgree, Known, Absent
  <2>2. flows' = flows /\ lock' = lock /\ creating' = creating \cup {t}
    BY <1>1 DEF CreateFlowTask
  <2>3. \A u : (Starting(u)' <=> Starting(u)) /\ (Concluding(u)' <=> Concluding(u))
    BY <2>2 DEF Starting, Concluding
  <2>4. Touches(t) /\ up'
    BY <1>0, <2>1, <2>2, <2>3 DEF Touches, Saved
  <2>5. AgreeAt(t)'
    BY <2>1, <2>2, <2>3 DEF AgreeAt, Saved, HasFlow, Known, Absent, FlowTerminal
  <2>. QED  BY <2>4, <2>5, TouchesAgree
<1>2. ASSUME NEW t \in TaskId, CreateFlow(t) PROVE LayersAgree'
  <2>1. AgreeAt(t) /\ tasks[t].status = "pending" /\ UNCHANGED vars /\ creating' = creating \ {t}
    BY <1>2 DEF CreateFlow, LayersAgree, AgreeAt
  <2>2. flows'[t].status = "pending" /\ \A u \in TaskId \ {t} : flows'[u] = flows[u]
    BY <1>2 DEF CreateFlow, FlowTypeOK, NewFlow, NoFlow
  <2>3. \A u : ~Starting(u) /\ ~Starting(u)' /\ ~Concluding(u) /\ ~Concluding(u)'
    BY <1>2, NotStarting DEF CreateFlow
  <2>4. Touches(t) /\ up'
    BY <2>1, <2>2, <2>3 DEF Touches, vars, LayersAgree
  <2>5. AgreeAt(t)'
    BY <2>1, <2>2, <2>3 DEF AgreeAt, HasFlow, Known, Absent, FlowTerminal, vars
  <2>. QED  BY <2>4, <2>5, TouchesAgree
<1>3. ASSUME NEW t \in TaskId, SyncFlow(t) PROVE LayersAgree'
  <2>1. CASE HasFlow(t)
    <3>1. AgreeAt(t) /\ UNCHANGED vars /\ creating' = creating /\ t \notin creating
      BY <1>3, <2>1 DEF SyncFlow, LayersAgree, AgreeAt
    <3>2. /\ flows'[t].status = SyncStatus(t)
          /\ \A u \in TaskId \ {t} : flows'[u] = flows[u]
      BY <1>3, <2>1 DEF SyncFlow, FlowTypeOK, Flow
    <3>3. \A u : ~Starting(u) /\ ~Starting(u)' /\ ~Concluding(u) /\ ~Concluding(u)'
      BY <1>3, <2>1, NotStarting DEF SyncFlow
    <3>4. Touches(t) /\ up'
      BY <3>1, <3>2, <3>3 DEF Touches, vars, LayersAgree
    <3>5. AgreeAt(t)'
      BY <2>1, <3>1, <3>2, <3>3
      DEF AgreeAt, HasFlow, Known, Terminal, TerminalStatus, Absent, FlowTerminal, SyncStatus, vars
    <3>. QED  BY <3>4, <3>5, TouchesAgree
  <2>2. CASE ~HasFlow(t)
    BY <1>3, <2>2, UntouchedAgree DEF SyncFlow, Starting, Concluding
  <2>. QED  BY <2>1, <2>2
<1>4. ASSUME NEW t \in TaskId, StartFlow(t) PROVE LayersAgree'
  BY <1>0, <1>4, BeginStartAgree DEF StartFlow
<1>5. ASSUME NEW t \in TaskId, (\E s \in 0..StepCount : PauseFlow(t, s)) \/ CancelFlow(t)
      PROVE  LayersAgree'
  BY <1>0, <1>5, PauseAgree, CancelAgree
<1>6. ASSUME NEW w \in Worker, NEW t \in TaskId,
             (\E s \in Step : PickStep(w, t, s)) \/ RunPipeline(w, t)
      PROVE  LayersAgree'
  <2>1. CASE BeginStart(t)
    BY <1>0, <2>1, BeginStartAgree
  <2>2. CASE ~BeginStart(t)
    BY <1>6, <2>2, UntouchedAgree DEF PickStep, RunPipeline, Starting, Concluding
  <2>. QED  BY <2>1, <2>2
<1>7. ASSUME NEW w \in Worker, Proceed(w) PROVE LayersAgree'
  <2>1. ASSUME NEW outcome \in Outcome, FinishStep(w, outcome) \/ PipelineStep(w, outcome)
        PROVE  LayersAgree'
    BY <1>0, <2>1, JobType, RecordAgree DEF FinishStep, PipelineStep
  <2>. QED  BY <1>0, <1>7, <2>1, ApprovalAgree DEF Proceed
<1>8. CASE FinishStart
  BY <1>0, <1>8, FinishStartAgree
<1>9. CASE SaveFlows
  <2>1. \A u : ~Starting(u) /\ ~Starting(u)' /\ ~Concluding(u) /\ ~Concluding(u)'
    BY <1>9, NotStarting DEF SaveFlows
  <2>. QED  BY <1>9, <2>1, UntouchedAgree DEF SaveFlows
<1>10. ASSUME NEW k \in Token, ResumeFlow(k) PROVE LayersAgree'
  BY <1>0, <1>10, ResumeAgree
<1>11. CASE TokenLapses
  BY <1>11 DEF TokenLapses, Lapse, flow_vars, LayersAgree, AgreeAt, HasFlow, Known, Terminal,
               Starting, Concluding
<1>12. ~ProcessDies /\ ~ProcessStarts
  BY DEF ProcessDies, Crash, ProcessStarts, Restart, LayersAgree
<1>13. CASE UNCHANGED all_vars
  BY <1>13, UntouchedAgree DEF all_vars, flow_vars, Starting, Concluding
<1>14. CASE FinishConclude
  BY <1>0, <1>14, FinishConcludeAgree
<1>15. ASSUME NEW w \in Worker, PipelineRaises(w) \/ PipelineCaught(w) PROVE LayersAgree'
  BY <1>15, UntouchedAgree DEF PipelineRaises, PipelineCaught, Starting, Concluding
<1>. QED
  BY <1>0, <1>1, <1>2, <1>3, <1>4, <1>5, <1>6, <1>7, <1>8, <1>9, <1>10, <1>11, <1>12, <1>13,
     <1>14, <1>15
  DEF FlowNext, FlowCall, Holder

LEMMA LayersAlwaysAgree ==
    ASSUME Faults = {}, Clients \subseteq {"pause", "cancel"}
    PROVE  FlowSpec => []LayersAgree
<1>1. FlowInit => FilesIndexed /\ LayersAgree
  <2>1. ASSUME FlowInit, NEW t \in TaskId PROVE AgreeAt(t)
    BY <2>1 DEF FlowInit, AgreeAt, HasFlow, NoFlow, Starting, Concluding, Free, FlowTerminal
  <2>2. FlowInit => up /\ FilesIndexed
    BY DEF FlowInit, Init, FilesIndexed, IndexedBy, Untorn, NoFile
  <2>. QED  BY <2>1, <2>2 DEF LayersAgree
<1>2. TypeOK /\ FlowTypeOK /\ FilesIndexed /\ LayersAgree /\ [FlowNext]_all_vars
        => FilesIndexed' /\ LayersAgree'
  BY FlowStepsRegistry, FilesIndexedStep, AgreeStep
<1>. QED  BY <1>1, <1>2, FlowTypes, PTL DEF FlowSpec

\* Between calls a flow shown as running has a task that runs, although start_flow
\* ignores the answers of queue() and start() and resume_flow synchronises late.
\* The hypotheses are needed: a restart does not bring the two files back in step,
\* a direct call on the task is not seen by its flow.
THEOREM RunningFlowsRun ==
    ASSUME Faults = {}, Clients \subseteq {"pause", "cancel"}
    PROVE  FlowSpec => []RunningFlowHasRunningTask
<1>1. LayersAgree => RunningFlowHasRunningTask
  BY DEF LayersAgree, AgreeAt, RunningFlowHasRunningTask, Settled, Midway, Starting
<1>. QED  BY <1>1, LayersAlwaysAgree, PTL

\* Between calls a finished flow has a finished task (cancel_flow, complete_step).
THEOREM FinishedFlowsAreFinished ==
    ASSUME Faults = {}, Clients \subseteq {"pause", "cancel"}
    PROVE  FlowSpec => []FinishedFlowHasFinishedTask
<1>1. LayersAgree => FinishedFlowHasFinishedTask
  BY SMTT(40) DEF LayersAgree, AgreeAt, FinishedFlowHasFinishedTask, Settled, Midway, Concluding
<1>. QED  BY <1>1, LayersAlwaysAgree, PTL

-----------------------------------------------------------------------------
(* The file of the flows is never ahead of the file of the tasks *)

Ended == {"completed", "failed"}

\* Memory and active_tasks.json agree on which tasks are over, but for the tasks a
\* denied or expired resume has cancelled: resume() does not save those.
EndsAgree(ts, ds) ==
    \A t \in TaskId : /\ Terminal(ds[t]) => Terminal(ts[t])
                      /\ ts[t].status \in Ended => Terminal(ds[t])

\* Whatever a flow, its file or the maintenance pass calls completed or failed, the
\* active file calls finished, but for a flow complete_step() is just concluding.
FilesAgree ==
    /\ up => EndsAgree(tasks, disk.active)
    /\ \A t \in TaskId : Concluding(t) => Known(t)
    /\ \A t \in TaskId :
          flows[t].status \in Ended /\ ~Concluding(t) => Terminal(disk.active[t])
    /\ \A t \in TaskId : flows_file[t].status \in Ended => Terminal(disk.active[t])
    /\ maint.item # NoId /\ maint.seen \in Ended => Terminal(disk.active[maint.item])

\* Jobs come from the adapters in use.
DriversWork ==
    \A w \in Worker : work[w] # Idle => work[w].driver \in Drivers \cup {"raised"}

LEMMA DriversStep ==
    ASSUME FlowTypeOK, DriversWork, [FlowNext]_all_vars PROVE DriversWork'
<1>1. ASSUME NEW w \in Worker, work' = [work EXCEPT ![w] = Idle] PROVE DriversWork'
  BY <1>1 DEF DriversWork, FlowTypeOK
<1>2. ASSUME NEW w \in Worker, NEW t \in TaskId,
             (\E s \in Step : PickStep(w, t, s)) \/ RunPipeline(w, t)
      PROVE  DriversWork'
  BY <1>2 DEF PickStep, RunPipeline, DriversWork, FlowTypeOK
<1>3. ASSUME NEW w \in Worker, NEW outcome \in Outcome, PipelineStep(w, outcome)
      PROVE  DriversWork'
  <2>1. work[w] # Idle /\ [work[w] EXCEPT !.step = @ + 1].driver = work[w].driver
    BY <1>3, JobType DEF PipelineStep
  <2>. QED  BY <1>3, <2>1 DEF PipelineStep, DriversWork, FlowTypeOK
<1>4. CASE UNCHANGED work
  BY <1>4 DEF DriversWork
<1>5. CASE ProcessDies \/ CallDies
  BY <1>5 DEF ProcessDies, CallDies, Wiped, DriversWork
<1>6. ASSUME NEW w \in Worker, PipelineRaises(w) PROVE DriversWork'
  BY <1>6 DEF PipelineRaises, DriversWork, FlowTypeOK
<1>. QED
  BY <1>1, <1>2, <1>3, <1>4, <1>5, <1>6
  DEF FlowNext, FlowCall, Holder, Proceed, FinishStep, PipelineApproval, PipelineCaught,
      CreateFlowTask, CreateFlow, SyncFlow, StartFlow, PauseFlow, CancelFlow, FinishStart,
      FinishConclude, SaveFlows, ResumeFlow, Maintenance, StartupReconcile, ReadStatus,
      WriteStatus, EndMaintenance, TokenLapses, ProcessStarts, flow_vars, all_vars

\* A call that removes no task, revives no finished one and saves every end it brings
\* about.
EndsKept ==
    /\ up' <=> up
    /\ \A t \in TaskId : Known(t) => Known(t)'
    /\ \A t \in TaskId : Terminal(tasks[t]) => Terminal(tasks'[t])
    /\ \A t \in TaskId :
        \/ up /\ disk'.active[t] = tasks'[t]
        \/ /\ disk'.active[t] = disk.active[t]
           /\ tasks'[t].status \in Ended => tasks[t].status \in Ended

LEMMA UnchangedKeepsEnds == ASSUME UNCHANGED <<up, tasks, disk>> PROVE EndsKept
BY DEF EndsKept, Known

LEMMA SavedKeepsEnds ==
    ASSUME NEW t \in TaskId, NEW status, Saved(t, status),
           Terminal(tasks[t]) => status \in TerminalStatus, status \notin Absent
    PROVE  EndsKept
BY FlowConstants DEF Saved, EndsKept, Terminal, Known

LEMMA DismissedKeepsEnds == ASSUME NEW t \in TaskId, Dismissed(t) PROVE EndsKept
BY DEF Dismissed, EndsKept, Known, Absent, Terminal, CanResume, TerminalStatus, ResumableStatus,
       Ended

\* The calls a flow or its clients make, but for await_approval(), keep the ends.
LEMMA CallsKeepEnds ==
    ASSUME TypeOK, FilesIndexed, up'
    PROVE  /\ \A t \in TaskId :
                Create(t) \/ Queue(t) \/ Start(t) \/ UpdateStep(t) \/ Complete(t) \/ Fail(t)
                  \/ Cancel(t) => EndsKept
           /\ \A t \in TaskId, k \in Token : Pause(t, k) => EndsKept
           /\ \A k \in Token : ResumeExpired(k) \/ ResumeDenied(k) \/ ResumeApproved(k) => EndsKept
           /\ \A order : Reconcile(order) => EndsKept
<1>1. ASSUME NEW t \in TaskId,
             Create(t) \/ Queue(t) \/ Start(t) \/ UpdateStep(t) \/ Complete(t) \/ Fail(t) \/ Cancel(t)
      PROVE  EndsKept
  <2>1. CASE Create(t) \/ Queue(t) \/ Start(t)
    BY <2>1, CreateSaves, QueueSaves, StartSaves, SavedKeepsEnds DEF Terminal, TerminalStatus, Absent
  <2>2. CASE UpdateStep(t)
    BY <2>2, UpdateSaves, SavedKeepsEnds DEF Terminal, Known
  <2>3. CASE Complete(t) \/ Fail(t) \/ Cancel(t)
    BY <2>3, EndSaves, SavedKeepsEnds DEF TerminalStatus, Absent
  <2>. QED  BY <1>1, <2>1, <2>2, <2>3
<1>2. ASSUME NEW t \in TaskId, NEW k \in Token, Pause(t, k) PROVE EndsKept
  BY <1>2, PauseSaves, SavedKeepsEnds DEF Terminal, TerminalStatus, Absent
<1>3. ASSUME NEW k \in Token, ResumeExpired(k) \/ ResumeDenied(k) \/ ResumeApproved(k)
      PROVE  EndsKept
  BY <1>3, DismissDismisses, DismissedKeepsEnds, ApprovedSaves, SavedKeepsEnds
  DEF CanResume, Terminal, TerminalStatus, ResumableStatus, Absent
<1>4. ASSUME NEW order, Reconcile(order) PROVE EndsKept
  <2>1. \A t \in TaskId : Terminal(tasks[t]) => Terminal(tasks'[t])
    BY <1>4, ReconcileSaves DEF CanResume, Terminal, TerminalStatus, ResumableStatus
  <2>2. /\ up' /\ \A t \in TaskId : Known(t) => Known(t)'
    BY <1>4, ReconcileSaves DEF Known, Absent
  <2>3. up' /\ disk'.active = tasks' /\ up
    BY <1>4, ReconcileSaves
  <2>. QED  BY <2>1, <2>2, <2>3 DEF EndsKept
<1>. QED  BY <1>1, <1>2, <1>3, <1>4

LEMMA FlowCallsKeepEnds ==
    ASSUME "pipeline" \notin Drivers \/ ApprovalSteps = {},
           TypeOK, FlowTypeOK, FilesIndexed, DriversWork, [FlowNext]_all_vars
    PROVE  EndsKept \/ CallDies \/ ProcessDies \/ ProcessStarts
<1>1. ASSUME UNCHANGED vars PROVE EndsKept
  BY <1>1, UnchangedKeepsEnds DEF vars
<1>2. CASE TokenLapses
  BY <1>2, UnchangedKeepsEnds DEF TokenLapses, Lapse
<1>3. CASE UNCHANGED all_vars
  BY <1>1, <1>3 DEF all_vars
<1>4. SUFFICES ASSUME FlowCall, up' PROVE EndsKept
  BY <1>2, <1>3 DEF FlowNext
<1>5. ASSUME NEW t \in TaskId, BeginStart(t) PROVE EndsKept
  BY <1>1, <1>4, <1>5, CallsKeepEnds DEF BeginStart
<1>6. ASSUME NEW t \in TaskId, \/ CreateFlowTask(t) \/ CreateFlow(t) \/ SyncFlow(t)
                               \/ StartFlow(t) \/ CancelFlow(t)
                               \/ \E s \in 0..StepCount : PauseFlow(t, s)
      PROVE  EndsKept
  BY <1>1, <1>4, <1>5, <1>6, CallsKeepEnds
  DEF CreateFlowTask, CreateFlow, SyncFlow, StartFlow, PauseFlow, CancelFlow
<1>7. ASSUME NEW w \in Worker, NEW t \in TaskId,
             (\E s \in Step : PickStep(w, t, s)) \/ RunPipeline(w, t)
      PROVE  EndsKept
  BY <1>1, <1>5, <1>7 DEF PickStep, RunPipeline
<1>8. ASSUME NEW w \in Worker, Proceed(w) \/ PipelineRaises(w) \/ PipelineCaught(w) PROVE EndsKept
  <2>1. ASSUME NEW outcome \in Outcome, FinishStep(w, outcome) \/ PipelineStep(w, outcome)
        PROVE  EndsKept
    <3>1. work[w].flow \in TaskId /\ RecordStep(work[w].flow, work[w].step, outcome)
      BY <2>1, JobType DEF FinishStep, PipelineStep
    <3>. QED  BY <1>1, <1>4, <3>1, CallsKeepEnds DEF RecordStep, CompleteStep
  <2>2. \A k \in Token : ~PipelineApproval(w, k)
    BY DEF PipelineApproval, DriversWork
  <2>. QED  BY <1>1, <1>8, <2>1, <2>2 DEF Proceed, PipelineRaises, PipelineCaught
<1>9. CASE Holder
  <2>1. CASE FinishStart \/ FinishConclude
    <3>1. lock.flow \in TaskId
      BY <2>1, LockType DEF FinishStart, FinishConclude
    <3>. QED  BY <1>1, <1>4, <2>1, <3>1, CallsKeepEnds DEF FinishStart, FinishConclude, Conclude
  <2>. QED  BY <1>1, <1>9, <2>1 DEF Holder, SaveFlows
<1>10. ASSUME NEW k \in Token, ResumeFlow(k) PROVE EndsKept
  BY <1>4, <1>10, CallsKeepEnds DEF ResumeFlow
<1>11. CASE Maintenance
  BY <1>1, <1>4, <1>11, CallsKeepEnds
  DEF Maintenance, StartupReconcile, ReadStatus, WriteStatus, EndMaintenance
<1>12. CASE DirectCall
  BY <1>4, <1>12, CallsKeepEnds DEF DirectCall
<1>. QED
  BY <1>4, <1>6, <1>7, <1>8, <1>9, <1>10, <1>11, <1>12 DEF FlowCall

\* A process that dies inside a call has not written the active file: that is the
\* last write of every call.
LEMMA CutKeepsActive ==
    ASSUME NEW ts, NEW ks, NEW log, NEW passed, NEW final, Commit(ts, ks, log, passed, final),
           ~up', \A d \in passed : d.active = disk.active
    PROVE  disk'.active = disk.active
BY DEF Commit

LEMMA PersistNeverCut == ASSUME NEW ts, Persist(ts) PROVE up'
<1>1. Commit(ts, resume_tokens, history, {}, SaveActive(disk, ts))
  BY NothingTorn DEF Persist
<1>. QED  BY <1>1 DEF Commit

LEMMA FinishCut ==
    ASSUME TypeOK, NEW t \in TaskId, NEW status, Finish(t, status), ~up'
    PROVE  disk'.active = disk.active
<1> DEFINE ts  == [tasks EXCEPT ![t].status = status, ![t].dated = TRUE]
           log == Remember(history, <<[id |-> t, status |-> status]>>)
           d   == SaveHistory(disk, log)
<1>1. Commit(ts, resume_tokens, log, {d}, SaveActive(d, ts))
  BY NothingTorn DEF Finish
<1>2. d.active = disk.active
  BY DEF SaveHistory, TypeOK, Disk
<1> HIDE DEF ts, log, d
<1>. QED  BY <1>1, <1>2, CutKeepsActive

LEMMA SuspendCut ==
    ASSUME TypeOK, NEW t \in TaskId, NEW k \in Token, NEW status, Suspend(t, k, status), ~up'
    PROVE  disk'.active = disk.active
<1> DEFINE r  == [tasks[t] EXCEPT !.status = status, !.token = k]
           ts == [tasks EXCEPT ![t] = r]
           d  == SavePaused(disk, k, t, r)
<1>1. Commit(ts, [resume_tokens EXCEPT ![k] = t], history, {d}, SaveActive(d, ts))
  BY NothingTorn DEF Suspend
<1>2. d.active = disk.active
  BY DEF SavePaused, TypeOK, Disk
<1> HIDE DEF ts, r, d
<1>. QED  BY <1>1, <1>2, CutKeepsActive

LEMMA ResumeCut ==
    ASSUME TypeOK, NEW k \in Token, ~up',
           ResumeExpired(k) \/ ResumeDenied(k) \/ ResumeApproved(k)
    PROVE  disk'.active = disk.active
<1>1. CASE ResumeExpired(k) \/ ResumeDenied(k)
  BY <1>1 DEF ResumeExpired, ResumeDenied, Dismiss
<1>2. CASE ResumeApproved(k)
  <2> DEFINE r  == Subject(k)
             ts == [tasks EXCEPT ![Target(k)] = [r EXCEPT !.status = "running", !.token = NoToken]]
             d  == RemovePaused(disk, r.token)
  <2>1. Commit(ts, Pop(resume_tokens, r.token), history, {d}, SaveActive(d, ts))
    BY <1>2, NothingTorn DEF ResumeApproved
  <2>2. d.active = disk.active
    BY DEF RemovePaused, TypeOK, Disk
  <2> HIDE DEF ts, d
  <2>. QED  BY <2>1, <2>2, CutKeepsActive
<1>. QED  BY <1>1, <1>2

LEMMA ReconcileCut ==
    ASSUME TypeOK, NEW order, Reconcile(order), ~up'
    PROVE  disk'.active = disk.active
<1> DEFINE n    == Cardinality(ReconcileExpired)
           ts   == [t \in TaskId |-> Reconciled(t)]
           last == ReconcileDisk(order, n, n)
           passed == (UNION {{ReconcileDisk(order, i, i - 1), ReconcileDisk(order, i, i)}
                                \cup TearHistory(ReconcileDisk(order, i, i - 1)) : i \in 1..n})
                         \cup TearActive(last, ts)
<1>1. PICK ks, log : Commit(ts, ks, log, passed, SaveActive(last, ts))
  BY DEF Reconcile
<1>2. ASSUME NEW i, NEW j PROVE ReconcileDisk(order, i, j).active = disk.active
  BY DEF ReconcileDisk, TypeOK, Disk
<1>3. \A d \in passed : d.active = disk.active
  BY <1>2, NothingTorn
<1> HIDE DEF n, ts, last, passed
<1>. QED  BY <1>1, <1>3, CutKeepsActive

LEMMA CallDiesActive ==
    ASSUME TypeOK, FlowTypeOK, CallDies PROVE disk'.active = disk.active
<1>1. ASSUME NEW t \in TaskId,
             Queue(t) \/ Start(t) \/ Complete(t) \/ Fail(t) \/ Cancel(t)
      PROVE  disk'.active = disk.active
  BY <1>1, PersistNeverCut, FinishCut DEF CallDies, Queue, Start, Complete, Fail, Cancel
<1>2. ASSUME NEW t \in TaskId, NEW k \in Token, Pause(t, k) \/ AwaitApproval(t, k)
      PROVE  disk'.active = disk.active
  BY <1>2, SuspendCut DEF CallDies, Pause, AwaitApproval
<1>3. ASSUME NEW k \in Token, ResumeExpired(k) \/ ResumeDenied(k) \/ ResumeApproved(k)
      PROVE  disk'.active = disk.active
  BY <1>3, ResumeCut DEF CallDies
<1>4. ASSUME NEW order, Reconcile(order) PROVE disk'.active = disk.active
  BY <1>4, ReconcileCut DEF CallDies
<1>5. CASE lock.phase \in {"completing", "failing"} /\ Conclude(lock.flow)
  BY <1>1, <1>5, LockType DEF Conclude
<1>6. ASSUME NEW w \in Worker, NEW k \in Token, work[w] # Idle, AwaitApproval(work[w].flow, k)
      PROVE  disk'.active = disk.active
  BY <1>2, <1>6, JobType
<1>7. CASE DirectCall
  BY <1>1, <1>2, <1>3, <1>7 DEF DirectCall
<1>. QED
  BY <1>1, <1>2, <1>3, <1>4, <1>5, <1>6, <1>7 DEF CallDies, SeveralWrites, FlowIds

\* Under such a call the active file goes on saying what it said of ends.
LEMMA EndsAgreeStep ==
    ASSUME EndsKept, up => EndsAgree(tasks, disk.active)
    PROVE  /\ up' => EndsAgree(tasks', disk'.active)
           /\ \A t \in TaskId : Terminal(disk.active[t]) => Terminal(disk'.active[t])
<1>1. ASSUME up, NEW t \in TaskId
      PROVE  /\ Terminal(disk'.active[t]) => Terminal(tasks'[t])
             /\ tasks'[t].status \in Ended => Terminal(disk'.active[t])
             /\ Terminal(disk.active[t]) => Terminal(disk'.active[t])
  BY <1>1 DEF EndsKept, EndsAgree, Terminal, TerminalStatus, Ended
<1>2. CASE up
  BY <1>1, <1>2 DEF EndsAgree
<1>3. CASE ~up
  BY <1>3 DEF EndsKept, Terminal
<1>. QED  BY <1>2, <1>3

\* A flow only turns COMPLETED or FAILED once the active file has its task finished,
\* or in a call that goes on to finish it and holds the lock until it has.
FlowsFollow ==
    /\ \A t \in TaskId : \/ flows'[t].status = flows[t].status
                         \/ flows'[t].status \notin Ended
                         \/ Terminal(disk'.active[t])
                         \/ Concluding(t)'
    /\ \A t \in TaskId : Concluding(t) => Concluding(t)' \/ Terminal(disk'.active[t])
    /\ \A t \in TaskId : Concluding(t)' => Concluding(t) \/ Known(t)

LEMMA FollowingAgrees ==
    ASSUME FlowTypeOK, FilesAgree, EndsKept, FlowsFollow, UNCHANGED <<flows_file, maint>>
    PROVE  FilesAgree'
<1>1. /\ up' => EndsAgree(tasks', disk'.active)
      /\ \A t \in TaskId : Terminal(disk.active[t]) => Terminal(disk'.active[t])
  BY EndsAgreeStep DEF FilesAgree
<1>2. /\ \A t \in TaskId :
            flows'[t].status \in Ended /\ ~Concluding(t)' => Terminal(disk'.active[t])
      /\ \A t \in TaskId : Concluding(t)' => Known(t)'
  BY <1>1 DEF FilesAgree, FlowsFollow, EndsKept
<1>3. \A t \in TaskId : flows_file'[t].status \in Ended => Terminal(disk'.active[t])
  BY <1>1 DEF FilesAgree
<1>4. maint'.item # NoId /\ maint'.seen \in Ended => Terminal(disk'.active[maint'.item])
  BY <1>1 DEF FilesAgree, FlowTypeOK, Maint
<1>. QED  BY <1>1, <1>2, <1>3, <1>4 DEF FilesAgree, EndsAgree, Terminal

LEMMA RecordFollows ==
    ASSUME TypeOK, FlowTypeOK, NEW t \in TaskId, NEW s \in Step, NEW outcome \in Outcome,
           RecordStep(t, s, outcome), up'
    PROVE  FlowsFollow
<1> DEFINE res     == [results EXCEPT ![t][s] = outcome]
           flow    == [flows[t] EXCEPT !.failing = @ \/ outcome = "failed"]
           next    == GetNextStep(t, s, res)
           stopped == outcome = "failed" /\ StopOnFailure
           final   == IF flow.failing /\ StopOnFailure THEN "failed" ELSE "completed"
<1>1. CASE flows' = flows /\ lock' = lock
  BY <1>1 DEF FlowsFollow, Concluding
<1>2. CASE /\ lock = Free /\ Known(t)
           /\ flows' = [flows EXCEPT ![t] = [flow EXCEPT !.status = final]]
           /\ lock' = [phase |-> IF stopped THEN "failing" ELSE "completing", flow |-> t]
  <2>1. \A u \in TaskId \ {t} : flows'[u] = flows[u]
    BY <1>2 DEF FlowTypeOK
  <2> HIDE DEF res, flow, next, stopped, final
  <2>2. Concluding(t)' /\ \A u : ~Concluding(u) /\ (Concluding(u)' => u = t)
    BY <1>2, NotStarting DEF Concluding
  <2>. QED  BY <1>2, <2>1, <2>2 DEF FlowsFollow
<1>3. CASE /\ lock = Free /\ lock' = Saving
           /\ flows' = [flows EXCEPT ![t] = [flow EXCEPT !.current = next]]
  <2>1. \A u \in TaskId \ {t} : flows'[u] = flows[u]
    BY <1>3 DEF FlowTypeOK
  <2>2. [flow EXCEPT !.current = next].status = flows[t].status
    BY DEF FlowTypeOK, Flow
  <2> HIDE DEF flow, next
  <2>3. \A u : ~Concluding(u) /\ ~Concluding(u)'
    BY <1>3, NotStarting
  <2>. QED  BY <1>3, <2>1, <2>2, <2>3 DEF FlowTypeOK, FlowsFollow
<1>4. \/ flows' = flows /\ lock' = lock
      \/ /\ lock = Free /\ Known(t)
         /\ flows' = [flows EXCEPT ![t] = [flow EXCEPT !.status = final]]
         /\ lock' = [phase |-> IF stopped THEN "failing" ELSE "completing", flow |-> t]
      \/ /\ lock = Free /\ lock' = Saving
         /\ flows' = [flows EXCEPT ![t] = [flow EXCEPT !.current = next]]
  BY DEF RecordStep, CompleteStep
<1>. QED  BY <1>1, <1>2, <1>3, <1>4

LEMMA FilesAgreeStep ==
    ASSUME "pipeline" \notin Drivers \/ ApprovalSteps = {},
           TypeOK, FlowTypeOK, FilesIndexed, RecordedInv, DriversWork, FilesAgree,
           [FlowNext]_all_vars
    PROVE  FilesAgree'
<1>1. CASE ProcessDies
  BY <1>1, NotStarting
  DEF ProcessDies, Wiped, Crash, Forget, FilesAgree, NoFlow, Ended, Resting, Terminal
<1>2. CASE ProcessStarts
  <2>1. PICK loaded \in SUBSET Whole, first \in [TaskId -> Token] : Load(loaded, first)
    BY <1>2 DEF ProcessStarts, Restart
  <2>2. ASSUME NEW t \in TaskId
        PROVE  \/ tasks'[t] = disk.active[t]
               \/ /\ ~Terminal(tasks'[t])
                  /\ disk.active[t].status \in Absent
    BY <2>1 DEF Load, RecordedInv, DiskRecorded, Whole
  <2>3. EndsAgree(tasks', disk.active)
    BY <2>2 DEF EndsAgree, Terminal, TerminalStatus, Ended, Absent
  <2>4. ~up /\ up' /\ disk' = disk /\ flows' = flows_file /\ UNCHANGED <<flows_file, maint, lock>>
    BY <1>2 DEF ProcessStarts, Restart
  <2>5. \A t \in TaskId : ~Known(t)
    BY <2>4 DEF RecordedInv, Known, NoTasks, NoTask, Absent
  <2>6. \A t \in TaskId : ~Concluding(t) /\ ~Concluding(t)'
    BY <2>4, <2>5 DEF FilesAgree, Concluding
  <2>. QED  BY <2>3, <2>4, <2>6 DEF FilesAgree, EndsAgree, Terminal, EndsKept, Concluding
<1>3. CASE CallDies
  <2>1. /\ disk'.active = disk.active /\ ~up' /\ lock' = Free /\ maint'.item = NoId
        /\ flows' = [t \in TaskId |-> NoFlow] /\ flows_file' = flows_file
    BY <1>3, CallDiesActive DEF CallDies, Wiped, Resting
  <2>. QED  BY <2>1, NotStarting DEF FilesAgree, NoFlow, Ended, Terminal
<1>4. ASSUME EndsKept, ~CallDies PROVE FilesAgree'
  <2>1. /\ up' => EndsAgree(tasks', disk'.active)
        /\ \A t \in TaskId : Terminal(disk.active[t]) => Terminal(disk'.active[t])
    BY <1>4, EndsAgreeStep DEF FilesAgree
  <2>2. ASSUME FlowsFollow, UNCHANGED <<flows_file, maint>> PROVE FilesAgree'
    BY <1>4, <2>2, FollowingAgrees
  <2>3. ASSUME UNCHANGED <<flows, flows_file, maint, lock>> PROVE FilesAgree'
    BY <2>2, <2>3 DEF FlowsFollow, Concluding
  <2>4. ASSUME NEW t \in TaskId, BeginStart(t) PROVE FilesAgree'
    <3>1. \A u : ~Concluding(u) /\ ~Concluding(u)'
      BY <2>4, NotStarting DEF BeginStart, Concluding
    <3>2. FlowsFollow
      BY <2>4, <3>1 DEF BeginStart, FlowsFollow, FlowTypeOK, Flow, Ended
    <3>. QED  BY <2>2, <2>4, <3>2 DEF BeginStart
  <2>5. ASSUME NEW t \in TaskId, \/ CreateFlow(t) \/ SyncFlow(t) \/ CancelFlow(t)
                                 \/ \E s \in 0..StepCount : PauseFlow(t, s)
        PROVE  FilesAgree'
    <3>0. ASSUME lock = Free, lock' \in {Free, Saving}
          PROVE  \A u : ~Concluding(u) /\ ~Concluding(u)'
      BY <3>0, NotStarting
    <3>1. CASE CreateFlow(t)
      BY <2>2, <3>0, <3>1 DEF CreateFlow, FlowsFollow, FlowTypeOK, Flow, NewFlow, NoFlow, Ended
    <3>2. CASE SyncFlow(t)
      <4>1. FlowsFollow
        <5>1. SyncStatus(t) = flows[t].status \/ SyncStatus(t) \notin Ended
          BY DEF SyncStatus, Ended
        <5>2. flows' = flows \/ flows' = [flows EXCEPT ![t].status = SyncStatus(t)]
          BY <3>2 DEF SyncFlow
        <5>3. lock = Free /\ lock' \in {Free, Saving}
          BY <3>2 DEF SyncFlow
        <5>. QED  BY <3>0, <5>1, <5>2, <5>3 DEF FlowsFollow, FlowTypeOK, Flow
      <4>. QED  BY <2>2, <3>2, <4>1 DEF SyncFlow
    <3>3. CASE CancelFlow(t) \/ \E s \in 0..StepCount : PauseFlow(t, s)
      <4>1. FlowsFollow
        BY <3>0, <3>3 DEF PauseFlow, CancelFlow, FlowsFollow, FlowTypeOK, Flow, Ended
      <4>. QED  BY <2>2, <3>3, <4>1 DEF PauseFlow, CancelFlow
    <3>. QED  BY <2>5, <3>1, <3>2, <3>3
  <2>6. ASSUME NEW w \in Worker, NEW t \in TaskId,
               (\E s \in Step : PickStep(w, t, s)) \/ RunPipeline(w, t)
        PROVE  FilesAgree'
    BY <2>3, <2>4, <2>6 DEF PickStep, RunPipeline
  <2>7. ASSUME NEW w \in Worker, up', Proceed(w) PROVE FilesAgree'
    <3>1. ASSUME NEW outcome \in Outcome, FinishStep(w, outcome) \/ PipelineStep(w, outcome)
          PROVE  FilesAgree'
      <4>1. /\ work[w].flow \in TaskId /\ work[w].step \in Step
            /\ RecordStep(work[w].flow, work[w].step, outcome)
        BY <3>1, JobType DEF FinishStep, PipelineStep
      <4>. QED  BY <2>2, <2>7, <4>1, RecordFollows, RecordType
    <3>2. \A k \in Token : ~PipelineApproval(w, k)
      BY DEF PipelineApproval, DriversWork
    <3>. QED  BY <2>7, <3>1, <3>2 DEF Proceed
  <2>8. CASE FinishStart
    <3>1. FlowsFollow
      <4>1. \A u : ~Concluding(u) /\ ~Concluding(u)'
        BY <2>8, NotStarting DEF FinishStart, Concluding
      <4>. QED  BY <2>8, <4>1 DEF FinishStart, FlowsFollow, FlowTypeOK, Flow
    <3>. QED  BY <2>2, <2>8, <3>1 DEF FinishStart
  <2>9. CASE SaveFlows
    <3>1. \A u : ~Concluding(u) /\ ~Concluding(u)'
      BY <2>9, NotStarting DEF SaveFlows
    <3>. QED  BY <2>1, <2>9, <3>1 DEF SaveFlows, FilesAgree, EndsAgree, Terminal, vars
  <2>10. CASE StartupReconcile
    <3>1. maint'.item = NoId /\ UNCHANGED <<flows, flows_file, lock>>
      BY <2>10 DEF StartupReconcile, Resting
    <3>. QED  BY <1>4, <2>1, <3>1 DEF FilesAgree, EndsAgree, Terminal, EndsKept, Concluding
  <2>11. ASSUME NEW t \in TaskId, ReadStatus(t) PROVE FilesAgree'
    <3>1. CASE Known(t)
      <4>1. maint'.item = t /\ maint'.seen = FlowStatusOf(tasks[t].status)
        BY <2>11, <3>1 DEF ReadStatus, FlowTypeOK, Maint
      <4>2. maint'.seen \in Ended => tasks[t].status \in Ended
        BY <4>1 DEF FlowStatusOf, Ended
      <4>3. up
        BY <3>1 DEF RecordedInv, Known, NoTasks, NoTask, Absent
      <4>4. UNCHANGED <<vars, flows, flows_file, lock>>
        BY <2>11 DEF ReadStatus
      <4>. QED  BY <4>1, <4>2, <4>3, <4>4 DEF vars, FilesAgree, EndsAgree, Terminal, Known, Concluding
    <3>2. CASE ~Known(t)
      <4>1. maint'.item = NoId /\ UNCHANGED <<flows, flows_file, lock>>
        BY <2>11, <3>2 DEF ReadStatus, FlowTypeOK, Maint
      <4>. QED  BY <1>4, <2>1, <4>1 DEF FilesAgree, EndsAgree, Terminal, EndsKept, Concluding
    <3>. QED  BY <3>1, <3>2
  <2>12. CASE WriteStatus
    <3>1. FlowsFollow /\ maint'.item = NoId /\ UNCHANGED <<vars, flows_file, lock>>
      BY <2>1, <2>12
      DEF WriteStatus, FilesAgree, FlowsFollow, FlowTypeOK, Flow, Maint, Concluding
    <3>2. \A t \in TaskId :
             flows'[t].status \in Ended /\ ~Concluding(t)' => Terminal(disk'.active[t])
      BY <1>4, <2>1, <3>1 DEF FilesAgree, FlowsFollow
    <3>. QED  BY <1>4, <2>1, <3>1, <3>2 DEF FilesAgree, EndsAgree, Terminal, EndsKept, Concluding
  <2>13. CASE EndMaintenance
    <3>1. maint'.item = NoId /\ UNCHANGED <<flows, flows_file, lock>>
      BY <2>13 DEF EndMaintenance, Resting
    <3>. QED  BY <1>4, <2>1, <3>1 DEF FilesAgree, EndsAgree, Terminal, EndsKept, Concluding
  <2>14. CASE FinishConclude /\ up'
    <3>1. PICK t \in TaskId : t = lock.flow /\ Concluding(t) /\ Known(t)
      BY <2>14, LockType DEF FinishConclude, Concluding, FilesAgree
    <3>2. Terminal(disk'.active[t])
      BY <2>14, <3>1, EndSaves DEF FinishConclude, Conclude, Saved, Terminal, TerminalStatus
    <3>3. \A u : (Concluding(u) => u = t) /\ ~Concluding(u)'
      BY <2>14, <3>1, NotStarting DEF FinishConclude, Concluding
    <3>4. FlowsFollow
      BY <2>14, <3>2, <3>3 DEF FinishConclude, FlowsFollow
    <3>. QED  BY <2>2, <2>14, <3>4 DEF FinishConclude
  <2>15. ASSUME NEW w \in Worker, PipelineRaises(w) \/ PipelineCaught(w) PROVE FilesAgree'
    BY <2>3, <2>15 DEF PipelineRaises, PipelineCaught
  <2>. QED
    BY <1>1, <1>2, <1>4, <2>3, <2>4, <2>5, <2>6, <2>7, <2>8, <2>9, <2>10, <2>11, <2>12, <2>13,
       <2>14, <2>15
    DEF FlowNext, FlowCall, Holder, CreateFlowTask, StartFlow, ResumeFlow, Maintenance,
        TokenLapses, flow_vars, all_vars
<1>. QED  BY <1>1, <1>2, <1>3, <1>4, FlowCallsKeepEnds

\* Whenever the process dies, also in the middle of a maintenance pass or between two
\* writes of a call on the task registry, what the file of the flows calls completed
\* or failed, the file of the tasks calls finished.  A pipeline's approval step is
\* excluded: it suspends the task even of a flow that is over.
THEOREM FlowFilesNeverAhead ==
    ASSUME "pipeline" \notin Drivers \/ ApprovalSteps = {}
    PROVE  FlowSpec => []FlowFileNeverAhead
<1> DEFINE IInv == FilesIndexed /\ RecordedInv /\ DriversWork /\ FilesAgree
<1>1. FlowInit => IInv
  <2>1. Init => FilesIndexed /\ RecordedInv
    <3>1. \A t \in TaskId : ~Terminal(NoTasks[t])
      BY DEF NoTasks, NoTask, Terminal, TerminalStatus
    <3>2. Len(<<>>) = 0 /\ MaxHistory \in Nat
      BY EmptySeq, TaskRegistryAssumption
    <3>. QED
      BY <3>1, <3>2 DEF Init, FilesIndexed, Untorn, IndexedBy, NoFile, RecordedInv, DiskRecorded, AllRecorded
  <2>2. ASSUME FlowInit PROVE DriversWork /\ FilesAgree
    <3>1. \A t \in TaskId : ~Terminal(NoTasks[t]) /\ NoTasks[t].status \notin Ended
      BY DEF NoTasks, NoTask, Terminal, TerminalStatus, Ended
    <3>. QED
      BY <2>2, <3>1, NotStarting
      DEF FlowInit, Init, DriversWork, FilesAgree, EndsAgree, NoFlow, Ended, Resting
  <2>. QED  BY <2>1, <2>2 DEF FlowInit
<1>2. TypeOK /\ FlowTypeOK /\ IInv /\ [FlowNext]_all_vars => IInv'
  BY FlowStepsRegistry, FilesIndexedStep, RecordedStep, DriversStep, FilesAgreeStep, FlowConstants
<1>3. FilesAgree => FlowFileNeverAhead
  BY DEF FilesAgree, FlowFileNeverAhead, Terminal, Ended
<1>. QED  BY <1>1, <1>2, <1>3, FlowTypes, PTL DEF FlowSpec

-----------------------------------------------------------------------------
(* A flow has its task, in memory and on disk *)

OnDisk(t) == disk.active[t].status \notin Absent
Filed(t)  == flows_file[t].status # "none"

FlowsExist ==
    /\ ~up => /\ creating = {} /\ lock = Free /\ maint = Resting
              /\ \A t \in TaskId : ~HasFlow(t)
    /\ \A t \in TaskId :
        /\ up /\ OnDisk(t) => Known(t)
        /\ HasFlow(t) \/ Filed(t) \/ t \in creating => OnDisk(t)
        /\ t \in creating => ~HasFlow(t) /\ ~Filed(t)
        /\ up /\ Filed(t) => HasFlow(t) /\ flows[t].mode = flows_file[t].mode
        /\ HasFlow(t) /\ ~Filed(t) => lock = Saving
    /\ maint.todo \subseteq FlowIds
    /\ maint.item # NoId => HasFlow(maint.item) /\ maint.seen # "none"
    /\ \A w \in Worker : work[w] # Idle => HasFlow(work[w].flow)

\* A call that removes no task, and saves all of them or none.
TasksKept ==
    /\ up' <=> up
    /\ \A t \in TaskId : Known(t) => Known(t)'
    /\ \/ up /\ disk'.active = tasks'
       \/ disk'.active = disk.active

LEMMA SavedKeepsTasks ==
    ASSUME NEW t \in TaskId, NEW status, Saved(t, status), status \notin Absent
    PROVE  TasksKept
BY DEF Saved, TasksKept, Known

LEMMA DismissedKeepsTasks == ASSUME NEW t \in TaskId, Dismissed(t) PROVE TasksKept
BY DEF Dismissed, TasksKept, Known, Absent

\* The calls a flow or its clients make remove no task.
LEMMA CallsKeepTasks ==
    ASSUME TypeOK, FilesIndexed, up'
    PROVE  /\ \A t \in TaskId :
                Create(t) \/ Queue(t) \/ Start(t) \/ UpdateStep(t) \/ Complete(t) \/ Fail(t)
                  \/ Cancel(t) => TasksKept
           /\ \A t \in TaskId, k \in Token : Pause(t, k) \/ AwaitApproval(t, k) => TasksKept
           /\ \A k \in Token : ResumeExpired(k) \/ ResumeDenied(k) \/ ResumeApproved(k) => TasksKept
           /\ \A order : Reconcile(order) => TasksKept
<1>1. ASSUME NEW t \in TaskId,
             Create(t) \/ Queue(t) \/ Start(t) \/ UpdateStep(t) \/ Complete(t) \/ Fail(t) \/ Cancel(t)
      PROVE  TasksKept
  <2>1. CASE Create(t) \/ Queue(t) \/ Start(t)
    BY <2>1, CreateSaves, QueueSaves, StartSaves, SavedKeepsTasks DEF Absent
  <2>2. CASE UpdateStep(t)
    BY <2>2, UpdateSaves, SavedKeepsTasks DEF Known
  <2>3. CASE Complete(t) \/ Fail(t) \/ Cancel(t)
    BY <2>3, EndSaves, SavedKeepsTasks DEF Absent
  <2>. QED  BY <1>1, <2>1, <2>2, <2>3
<1>2. ASSUME NEW t \in TaskId, NEW k \in Token, Pause(t, k) \/ AwaitApproval(t, k) PROVE TasksKept
  BY <1>2, PauseSaves, SavedKeepsTasks DEF Absent
<1>3. ASSUME NEW k \in Token, ResumeExpired(k) \/ ResumeDenied(k) \/ ResumeApproved(k)
      PROVE  TasksKept
  BY <1>3, DismissDismisses, DismissedKeepsTasks, ApprovedSaves, SavedKeepsTasks DEF Absent
<1>4. ASSUME NEW order, Reconcile(order) PROVE TasksKept
  <2>1. \A t \in TaskId : Known(t) => Known(t)'
    BY <1>4, ReconcileSaves DEF Known, Absent
  <2>2. up' /\ disk'.active = tasks' /\ up
    BY <1>4, ReconcileSaves
  <2>. QED  BY <2>1, <2>2 DEF TasksKept
<1>. QED  BY <1>1, <1>2, <1>3, <1>4

LEMMA FlowCallsKeepTasks ==
    ASSUME TypeOK, FlowTypeOK, FilesIndexed, [FlowNext]_all_vars
    PROVE  TasksKept \/ CallDies \/ ProcessDies \/ ProcessStarts
<1>1. ASSUME UNCHANGED vars PROVE TasksKept
  BY <1>1 DEF vars, TasksKept, Known
<1>2. CASE TokenLapses
  BY <1>2 DEF TokenLapses, Lapse, TasksKept, Known
<1>3. CASE UNCHANGED all_vars
  BY <1>1, <1>3 DEF all_vars
<1>4. SUFFICES ASSUME FlowCall, up' PROVE TasksKept
  BY <1>2, <1>3 DEF FlowNext
<1>5. ASSUME NEW t \in TaskId, BeginStart(t) PROVE TasksKept
  BY <1>1, <1>4, <1>5, CallsKeepTasks DEF BeginStart
<1>6. ASSUME NEW t \in TaskId, \/ CreateFlowTask(t) \/ CreateFlow(t) \/ SyncFlow(t)
                               \/ StartFlow(t) \/ CancelFlow(t)
                               \/ \E s \in 0..StepCount : PauseFlow(t, s)
      PROVE  TasksKept
  BY <1>1, <1>4, <1>5, <1>6, CallsKeepTasks
  DEF CreateFlowTask, CreateFlow, SyncFlow, StartFlow, PauseFlow, CancelFlow
<1>7. ASSUME NEW w \in Worker, NEW t \in TaskId,
             (\E s \in Step : PickStep(w, t, s)) \/ RunPipeline(w, t)
      PROVE  TasksKept
  BY <1>1, <1>5, <1>7 DEF PickStep, RunPipeline
<1>8. ASSUME NEW w \in Worker, Proceed(w) \/ PipelineRaises(w) \/ PipelineCaught(w)
      PROVE  TasksKept
  <2>1. ASSUME NEW outcome \in Outcome, FinishStep(w, outcome) \/ PipelineStep(w, outcome)
        PROVE  TasksKept
    <3>1. work[w].flow \in TaskId /\ RecordStep(work[w].flow, work[w].step, outcome)
      BY <2>1, JobType DEF FinishStep, PipelineStep
    <3>. QED  BY <1>1, <1>4, <3>1, CallsKeepTasks DEF RecordStep, CompleteStep
  <2>2. ASSUME NEW k \in Token, PipelineApproval(w, k) PROVE TasksKept
    <3>1. work[w].flow \in TaskId
      BY <2>2, JobType DEF PipelineApproval
    <3>. QED  BY <1>1, <1>4, <2>2, <3>1, CallsKeepTasks DEF PipelineApproval
  <2>. QED  BY <1>1, <1>8, <2>1, <2>2 DEF Proceed, PipelineRaises, PipelineCaught
<1>9. CASE Holder
  <2>1. CASE FinishStart \/ FinishConclude
    <3>1. lock.flow \in TaskId
      BY <2>1, LockType DEF FinishStart, FinishConclude
    <3>. QED  BY <1>1, <1>4, <2>1, <3>1, CallsKeepTasks DEF FinishStart, FinishConclude, Conclude
  <2>. QED  BY <1>1, <1>9, <2>1 DEF Holder, SaveFlows
<1>10. ASSUME NEW k \in Token, ResumeFlow(k) PROVE TasksKept
  BY <1>4, <1>10, CallsKeepTasks DEF ResumeFlow
<1>11. CASE Maintenance
  BY <1>1, <1>4, <1>11, CallsKeepTasks
  DEF Maintenance, StartupReconcile, ReadStatus, WriteStatus, EndMaintenance
<1>12. CASE DirectCall
  BY <1>4, <1>12, CallsKeepTasks DEF DirectCall
<1>. QED
  BY <1>4, <1>6, <1>7, <1>8, <1>9, <1>10, <1>11, <1>12 DEF FlowCall

\* What a call leaves alone that neither creates nor saves flows.
SameFlows ==
    /\ \A t \in TaskId : /\ HasFlow(t)' <=> HasFlow(t)
                         /\ flows'[t].mode = flows[t].mode
    /\ UNCHANGED <<flows_file, creating>>
    /\ (up /\ lock # Saving) \/ lock' = lock

JobsExist == \A w \in Worker : work'[w] # Idle => HasFlow(work'[w].flow)

LEMMA KnownOnDisk ==
    ASSUME FlowsExist, TasksKept
    PROVE  \A t \in TaskId : /\ OnDisk(t) => OnDisk(t)'
                             /\ up' /\ OnDisk(t)' => Known(t)'
BY DEF FlowsExist, TasksKept, OnDisk, Known

LEMMA SameFlowsExist ==
    ASSUME FlowTypeOK, FlowsExist, TasksKept, SameFlows, UNCHANGED maint,
           JobsExist, \A w \in Worker : work'[w] # Idle => work'[w].flow \in TaskId
    PROVE  FlowsExist'
<1>1. \A t \in TaskId : (HasFlow(t)' <=> HasFlow(t)) /\ flows'[t].mode = flows[t].mode
  BY DEF SameFlows
<1>2. \A t \in TaskId : Filed(t)' <=> Filed(t)
  BY DEF SameFlows, Filed
<1>3. ~up' => creating' = {} /\ lock' = Free /\ maint' = Resting /\ \A t \in TaskId : ~HasFlow(t)'
  BY <1>1 DEF FlowsExist, SameFlows, TasksKept
<1>4. ASSUME NEW t \in TaskId
      PROVE  /\ up' /\ OnDisk(t)' => Known(t)'
             /\ HasFlow(t)' \/ Filed(t)' \/ t \in creating' => OnDisk(t)'
             /\ t \in creating' => ~HasFlow(t)' /\ ~Filed(t)'
             /\ up' /\ Filed(t)' => HasFlow(t)' /\ flows'[t].mode = flows_file'[t].mode
             /\ HasFlow(t)' /\ ~Filed(t)' => lock' = Saving
  BY <1>1, <1>2, KnownOnDisk DEF FlowsExist, SameFlows, TasksKept
<1>5. maint'.todo \subseteq FlowIds'
  BY <1>1 DEF FlowsExist, FlowIds
<1>6. maint'.item # NoId => HasFlow(maint.item)' /\ maint'.seen # "none"
  BY <1>1 DEF FlowsExist, FlowTypeOK, Maint
<1>7. \A w \in Worker : work'[w] # Idle => HasFlow(work[w].flow)'
  BY <1>1 DEF JobsExist
<1>. QED  BY <1>3, <1>4, <1>5, <1>6, <1>7 DEF FlowsExist

LEMMA StatusOnly ==
    ASSUME FlowTypeOK, NEW t \in TaskId, HasFlow(t), NEW status, status # "none",
           flows' = [flows EXCEPT ![t].status = status]
    PROVE  \A u \in TaskId : /\ HasFlow(u)' <=> HasFlow(u)
                             /\ flows'[u].mode = flows[u].mode
                             /\ flows'[u].current = flows[u].current
<1>1. ASSUME NEW u \in TaskId \ {t} PROVE flows'[u] = flows[u]
  BY DEF FlowTypeOK
<1>2. /\ flows'[t].status = status /\ flows'[t].mode = flows[t].mode
      /\ flows'[t].current = flows[t].current
  BY DEF FlowTypeOK, Flow
<1>. QED  BY <1>1, <1>2 DEF HasFlow

\* The record of a flow that is given a status and a step.
LEMMA StatusAndStep ==
    ASSUME FlowTypeOK, NEW t \in TaskId, NEW status, status # "none", HasFlow(t),
           NEW s \in 0..StepCount,
           flows' = [flows EXCEPT ![t].status = status, ![t].current = s]
    PROVE  /\ \A u \in TaskId : (HasFlow(u)' <=> HasFlow(u)) /\ flows'[u].mode = flows[u].mode
           /\ \A u \in TaskId \ {t} : flows'[u] = flows[u]
           /\ flows'[t].current = s /\ flows'[t].status = status
<1> DEFINE flow == [flows[t] EXCEPT !.status = status, !.current = s]
<1>1. flows' = [flows EXCEPT ![t] = flow]
  BY DEF FlowTypeOK
<1>2. flow.status = status /\ flow.mode = flows[t].mode /\ flow.current = s
  BY DEF FlowTypeOK, Flow
<1> HIDE DEF flow
<1>3. flows'[t] = flow /\ \A u \in TaskId \ {t} : flows'[u] = flows[u]
  BY <1>1 DEF FlowTypeOK
<1>. QED  BY <1>2, <1>3 DEF HasFlow

LEMMA BeginStartSame ==
    ASSUME FlowTypeOK, FlowsExist, NEW t \in TaskId, BeginStart(t)
    PROVE  SameFlows /\ UNCHANGED maint /\ \A u \in TaskId : flows'[u].current = flows[u].current
<1>1. HasFlow(t)
  BY DEF BeginStart, CanStartFlow, HasFlow
<1>2. up /\ lock = Free
  BY <1>1 DEF FlowsExist, BeginStart
<1>3. flows' = [flows EXCEPT ![t].status = "running"] /\ UNCHANGED <<flows_file, creating, maint>>
  BY DEF BeginStart
<1>4. \A u \in TaskId : /\ HasFlow(u)' <=> HasFlow(u)
                        /\ flows'[u].mode = flows[u].mode
                        /\ flows'[u].current = flows[u].current
  BY <1>1, <1>3, StatusOnly
<1>. QED  BY <1>2, <1>3, <1>4 DEF SameFlows, Free, Saving

\* complete_step() returns early only for a job whose flow is gone, and there is none.
LEMMA RecordCompletes ==
    ASSUME FlowTypeOK, FlowsExist, NEW t \in TaskId, HasFlow(t),
           NEW s \in Step, NEW outcome \in Outcome, RecordStep(t, s, outcome)
    PROVE  /\ up /\ CompleteStep(t, s, outcome) /\ SameFlows /\ UNCHANGED maint
           /\ results' = [results EXCEPT ![t][s] = outcome]
           /\ \A u \in TaskId : \/ flows'[u].current = flows[u].current
                                \/ /\ u = t /\ flows'[t].current # 0
                                   /\ flows'[t].current = GetNextStep(t, s, results')
<1> DEFINE res     == [results EXCEPT ![t][s] = outcome]
           flow    == [flows[t] EXCEPT !.failing = @ \/ outcome = "failed"]
           next    == GetNextStep(t, s, res)
           final   == IF flow.failing /\ StopOnFailure THEN "failed" ELSE "completed"
<1>1. up /\ Known(t) /\ CompleteStep(t, s, outcome)
  BY DEF FlowsExist, RecordStep
<1>2. /\ flow.status # "none" /\ flow.mode = flows[t].mode /\ flow.current = flows[t].current
  BY DEF HasFlow, FlowTypeOK, Flow
<1>3. /\ [flow EXCEPT !.status = final].status # "none"
      /\ [flow EXCEPT !.status = final].mode = flow.mode
      /\ [flow EXCEPT !.status = final].current = flow.current
      /\ [flow EXCEPT !.current = next].status = flow.status
      /\ [flow EXCEPT !.current = next].mode = flow.mode
      /\ [flow EXCEPT !.current = next].current = next
  BY DEF FlowTypeOK, Flow
<1>4. /\ \/ flows' = [flows EXCEPT ![t] = [flow EXCEPT !.status = final]]
         \/ next # 0 /\ flows' = [flows EXCEPT ![t] = [flow EXCEPT !.current = next]]
      /\ results' = res
      /\ lock = Free /\ UNCHANGED <<flows_file, creating, maint>>
  BY <1>1 DEF CompleteStep
<1> HIDE DEF flow, final
<1>5. /\ \A u \in TaskId \ {t} : flows'[u] = flows[u]
      /\ flows'[t].status # "none" /\ flows'[t].mode = flows[t].mode
      /\ flows'[t].current = flows[t].current \/ (next # 0 /\ flows'[t].current = next)
  <2> HIDE DEF next
  <2>. QED  BY <1>2, <1>3, <1>4 DEF FlowTypeOK
<1>6. SameFlows
  BY <1>1, <1>4, <1>5 DEF SameFlows, HasFlow, Free, Saving
<1>. QED  BY <1>1, <1>4, <1>5, <1>6

\* A job is about a flow that exists.
LEMMA JobFlow ==
    ASSUME FlowTypeOK, FlowsExist, NEW w \in Worker, work[w] # Idle
    PROVE  /\ work[w].flow \in TaskId /\ HasFlow(work[w].flow)
           /\ work[w].driver # "raised" => work[w].step \in Step
BY JobType, SMTT(40) DEF FlowsExist

\* Jobs only appear for flows that exist, and go on with the flow they began with.
JobsFollow ==
    \A w \in Worker : work'[w] # Idle =>
        /\ work'[w].flow \in TaskId /\ HasFlow(work'[w].flow)
        /\ \/ /\ work[w] # Idle /\ work'[w].flow = work[w].flow
              /\ work'[w].driver \in {work[w].driver, "raised"}
           \/ work[w] = Idle

LEMMA JobsFollowStep ==
    ASSUME FlowTypeOK, FlowsExist, [FlowNext]_all_vars PROVE JobsFollow
<1>1. ASSUME NEW w \in Worker, work[w] # Idle
      PROVE  work[w].flow \in TaskId /\ HasFlow(work[w].flow)
  BY <1>1, JobFlow
<1>2. ASSUME NEW w \in Worker, work' = [work EXCEPT ![w] = Idle] PROVE JobsFollow
  BY <1>1, <1>2 DEF JobsFollow, FlowTypeOK
<1>3. ASSUME NEW w \in Worker, NEW t \in TaskId,
             (\E s \in Step : PickStep(w, t, s)) \/ RunPipeline(w, t)
      PROVE  JobsFollow
  <2>1. HasFlow(t) /\ work[w] = Idle
    BY <1>3 DEF PickStep, RunPipeline, HasFlow
  <2>2. \/ \E s \in Step :
              work' = [work EXCEPT ![w] = [driver |-> "automation", flow |-> t, step |-> s]]
        \/ work' = [work EXCEPT ![w] = [driver |-> "pipeline", flow |-> t, step |-> 1]]
    BY <1>3 DEF PickStep, RunPipeline
  <2>. QED  BY <1>1, <2>1, <2>2 DEF JobsFollow, FlowTypeOK
<1>4. ASSUME NEW w \in Worker, NEW outcome \in Outcome, PipelineStep(w, outcome)
      PROVE  JobsFollow
  <2> DEFINE job == [work[w] EXCEPT !.step = @ + 1]
  <2>1. /\ work[w] # Idle /\ job.driver = work[w].driver /\ job.flow = work[w].flow
    BY <1>4, JobType DEF PipelineStep, Job
  <2>2. work' = [work EXCEPT ![w] = Idle] \/ work' = [work EXCEPT ![w] = job]
    BY <1>4 DEF PipelineStep
  <2> HIDE DEF job
  <2>. QED  BY <1>1, <1>2, <2>1, <2>2 DEF JobsFollow, FlowTypeOK
<1>5. CASE UNCHANGED work
  BY <1>1, <1>5 DEF JobsFollow
<1>6. CASE ProcessDies \/ CallDies
  BY <1>6 DEF ProcessDies, CallDies, Wiped, JobsFollow
<1>7. ASSUME NEW w \in Worker, PipelineRaises(w) PROVE JobsFollow
  <2>1. /\ work[w] # Idle
        /\ work' = [work EXCEPT ![w] = [driver |-> "raised", flow |-> work[w].flow]]
        /\ flows' = flows
    BY <1>7 DEF PipelineRaises
  <2>2. \A x \in Worker : x # w => work'[x] = work[x]
    BY <2>1 DEF FlowTypeOK
  <2>3. work'[w] = [driver |-> "raised", flow |-> work[w].flow]
    BY <2>1 DEF FlowTypeOK
  <2>. QED  BY <1>1, <2>1, <2>2, <2>3 DEF JobsFollow, HasFlow
<1>. QED
  BY <1>2, <1>3, <1>4, <1>5, <1>6, <1>7
  DEF FlowNext, FlowCall, Holder, Proceed, FinishStep, PipelineApproval, PipelineCaught,
      CreateFlowTask, CreateFlow, SyncFlow, StartFlow, PauseFlow, CancelFlow, FinishStart,
      FinishConclude, SaveFlows, ResumeFlow, Maintenance, StartupReconcile, ReadStatus,
      WriteStatus, EndMaintenance, TokenLapses, ProcessStarts, flow_vars, all_vars

LEMMA FlowsExistStep ==
    ASSUME TypeOK, FlowTypeOK, FilesIndexed, FlowsExist, [FlowNext]_all_vars
    PROVE  FlowsExist'
<1>1. CASE ProcessDies \/ CallDies
  <2>1. /\ ~up' /\ creating' = {} /\ lock' = Free /\ maint' = Resting
        /\ \A t \in TaskId : ~HasFlow(t)'
        /\ \A w \in Worker : work'[w] = Idle
    BY <1>1 DEF ProcessDies, CallDies, Wiped, Crash, Forget, HasFlow, NoFlow
  <2>2. disk'.active = disk.active
    BY <1>1, CallDiesActive DEF ProcessDies, Crash
  <2>3. \A t \in TaskId : (Filed(t)' <=> Filed(t)) /\ (OnDisk(t)' <=> OnDisk(t))
    BY <1>1, <2>2 DEF ProcessDies, CallDies, Wiped, Filed, OnDisk
  <2>. QED  BY <2>1, <2>3 DEF FlowsExist, Resting
<1>2. CASE ProcessStarts
  <2>1. PICK loaded \in SUBSET Whole, first \in [TaskId -> Token] : Load(loaded, first)
    BY <1>2 DEF ProcessStarts, Restart
  <2>2. \A t \in TaskId : OnDisk(t) => Known(t)'
    BY <2>1 DEF Load, OnDisk, Known
  <2>3. /\ ~up /\ up' /\ disk' = disk /\ flows' = flows_file
        /\ UNCHANGED <<flows_file, creating, lock, work, maint>>
    BY <1>2 DEF ProcessStarts, Restart
  <2>4. \A w \in Worker : work[w] = Idle
    BY <2>3, JobFlow DEF FlowsExist
  <2>5. \A t \in TaskId : HasFlow(t)' <=> Filed(t)
    BY <2>3 DEF HasFlow, Filed
  <2>6. creating = {} /\ maint = Resting
    BY <2>3 DEF FlowsExist
  <2>. QED  BY <2>2, <2>3, <2>4, <2>5, <2>6 DEF FlowsExist, OnDisk, Filed, Resting
<1>3. ASSUME TasksKept PROVE FlowsExist'
  <2>1. \A t \in TaskId : (OnDisk(t) => OnDisk(t)') /\ (up' /\ OnDisk(t)' => Known(t)')
    BY <1>3, KnownOnDisk
  <2>2. up' <=> up
    BY <1>3 DEF TasksKept
  <2>3. JobsFollow
    BY JobsFollowStep
  <2>4. ASSUME SameFlows, UNCHANGED maint PROVE FlowsExist'
    BY <1>3, <2>3, <2>4, SameFlowsExist DEF JobsFollow, JobsExist
  <2>5. ASSUME UNCHANGED <<flows, flows_file, creating, lock, maint>> PROVE FlowsExist'
    BY <2>4, <2>5 DEF SameFlows, HasFlow
  <2>6. ASSUME \A t \in TaskId : (HasFlow(t)' <=> HasFlow(t)) /\ flows'[t].mode = flows[t].mode,
               UNCHANGED <<flows_file, creating, lock, work>>,
               ~up' => maint' = Resting,
               maint'.todo \subseteq FlowIds,
               maint'.item # NoId => /\ maint'.item \in TaskId /\ HasFlow(maint'.item)
                                     /\ maint'.seen # "none"
        PROVE  FlowsExist'
    <3>1. maint'.item # NoId => HasFlow(maint.item)'
      BY <2>6
    <3>2. FlowIds' = FlowIds
      BY <2>6 DEF FlowIds
    <3>3. \A w \in Worker : work[w] # Idle => HasFlow(work[w].flow)'
      BY <2>6, JobFlow
    <3>. QED  BY <2>1, <2>2, <2>6, <3>1, <3>2, <3>3 DEF FlowsExist, Filed
  <2>7. ASSUME NEW t \in TaskId, CreateFlowTask(t) PROVE FlowsExist'
    <3>5. Create(t) /\ up /\ up'
      BY <2>2, <2>7 DEF CreateFlowTask, Create
    <3>1. ~Known(t) /\ up /\ up' /\ OnDisk(t)'
      BY <3>5, CreateSaves DEF Saved, Known, OnDisk, Absent
    <3>2. ~HasFlow(t) /\ ~Filed(t)
      BY <3>1 DEF FlowsExist
    <3>3. /\ creating' = creating \cup {t}
          /\ UNCHANGED <<flows, flows_file, lock, work, maint>>
      BY <2>7 DEF CreateFlowTask
    <3>. QED
      BY <2>1, <3>1, <3>2, <3>3 DEF FlowsExist, HasFlow, Filed, FlowIds
  <2>8. ASSUME NEW t \in TaskId, CreateFlow(t) PROVE FlowsExist'
    <3>1. up /\ ~HasFlow(t) /\ ~Filed(t) /\ OnDisk(t)
      BY <2>8 DEF CreateFlow, FlowsExist
    <3>2. PICK mode \in Modes : flows' = [flows EXCEPT ![t] = NewFlow(mode)]
      BY <2>8 DEF CreateFlow
    <3>3. HasFlow(t)' /\ \A u \in TaskId \ {t} : flows'[u] = flows[u]
      BY <3>2 DEF FlowTypeOK, HasFlow, NewFlow, NoFlow
    <3>4. /\ lock = Free /\ lock' = Saving /\ creating' = creating \ {t}
          /\ UNCHANGED <<flows_file, work, maint>>
      BY <2>8 DEF CreateFlow
    <3>5. \A u \in TaskId : HasFlow(u) => HasFlow(u)'
      BY <3>3 DEF HasFlow
    <3>6. \A w \in Worker : work[w] # Idle => HasFlow(work[w].flow)'
      BY <3>4, <3>5, JobFlow
    <3>7. maint.item # NoId => HasFlow(maint.item)'
      BY <3>4, <3>5 DEF FlowsExist, FlowTypeOK, Maint
    <3>8. maint.todo \subseteq FlowIds'
      BY <3>5 DEF FlowsExist, FlowIds
    <3>9. ASSUME NEW u \in TaskId
          PROVE  /\ HasFlow(u)' \/ Filed(u)' \/ u \in creating' => OnDisk(u)'
                 /\ u \in creating' => ~HasFlow(u)' /\ ~Filed(u)'
                 /\ up' /\ Filed(u)' => HasFlow(u)' /\ flows'[u].mode = flows_file'[u].mode
      BY <2>1, <2>2, <3>1, <3>3, <3>4 DEF FlowsExist, HasFlow, Filed
    <3>. QED
      BY <2>1, <2>2, <3>1, <3>4, <3>6, <3>7, <3>8, <3>9 DEF FlowsExist
  <2>9. ASSUME NEW t \in TaskId, SyncFlow(t) PROVE FlowsExist'
    <3>1. CASE HasFlow(t)
      <4>1. SyncStatus(t) # "none" /\ up
        BY <3>1 DEF SyncStatus, HasFlow, FlowsExist
      <4>2. /\ flows' = [flows EXCEPT ![t].status = SyncStatus(t)]
            /\ lock = Free /\ UNCHANGED <<flows_file, creating, maint>>
        BY <2>9, <3>1 DEF SyncFlow
      <4>3. SameFlows
        BY <3>1, <4>1, <4>2, StatusOnly DEF SameFlows, Free, Saving
      <4>. QED  BY <2>4, <4>2, <4>3
    <3>2. CASE ~HasFlow(t)
      BY <2>5, <2>9, <3>2 DEF SyncFlow
    <3>. QED  BY <3>1, <3>2
  <2>10. ASSUME NEW t \in TaskId, BeginStart(t) PROVE FlowsExist'
    BY <2>4, <2>10, BeginStartSame
  <2>11. ASSUME NEW t \in TaskId, CancelFlow(t) \/ \E s \in 0..StepCount : PauseFlow(t, s)
         PROVE  FlowsExist'
    <3>1. HasFlow(t) /\ up /\ lock = Free /\ UNCHANGED <<flows_file, creating, maint>>
      BY <2>11 DEF PauseFlow, CancelFlow
    <3>2. CASE CancelFlow(t)
      <4>1. flows' = [flows EXCEPT ![t].status = "cancelled"]
        BY <3>2 DEF CancelFlow
      <4>2. SameFlows
        BY <3>1, <4>1, StatusOnly DEF SameFlows, Free, Saving
      <4>. QED  BY <2>4, <3>1, <4>2
    <3>3. ASSUME NEW s \in 0..StepCount, PauseFlow(t, s) PROVE FlowsExist'
      <4>1. flows' = [flows EXCEPT ![t].status = "paused", ![t].current = s]
        BY <3>3 DEF PauseFlow
      <4>2. SameFlows
        BY <3>1, <4>1, StatusAndStep DEF SameFlows, Free, Saving
      <4>. QED  BY <2>4, <3>1, <4>2
    <3>. QED  BY <2>11, <3>2, <3>3
  <2>12. ASSUME NEW w \in Worker, NEW t \in TaskId,
                (\E s \in Step : PickStep(w, t, s)) \/ RunPipeline(w, t)
         PROVE  FlowsExist'
    BY <2>5, <2>10, <2>12 DEF PickStep, RunPipeline
  <2>13. ASSUME NEW w \in Worker, Proceed(w) PROVE FlowsExist'
    <3>1. ASSUME NEW outcome \in Outcome, FinishStep(w, outcome) \/ PipelineStep(w, outcome)
          PROVE  FlowsExist'
      <4>1. /\ work[w].flow \in TaskId /\ work[w].step \in Step /\ HasFlow(work[w].flow)
            /\ RecordStep(work[w].flow, work[w].step, outcome)
        BY <3>1, JobFlow DEF FinishStep, PipelineStep
      <4>. QED  BY <2>4, <4>1, RecordCompletes
    <3>2. ASSUME NEW k \in Token, PipelineApproval(w, k) PROVE FlowsExist'
      <4>1. PICK t \in TaskId : t = work[w].flow /\ HasFlow(t) /\ up
        BY <3>2, JobFlow DEF PipelineApproval, FlowsExist
      <4> DEFINE flow == [flows[t] EXCEPT !.status = "awaiting_approval", !.current = work[w].step]
      <4>2. flow.status = "awaiting_approval" /\ flow.mode = flows[t].mode
        BY DEF FlowTypeOK, Flow
      <4>3. flows' = [flows EXCEPT ![t] = flow]
        BY <3>2, <4>1 DEF PipelineApproval, FlowTypeOK
      <4>4. lock = Free /\ UNCHANGED <<flows_file, creating, maint>>
        BY <3>2 DEF PipelineApproval
      <4> HIDE DEF flow
      <4>5. SameFlows
        BY <4>1, <4>2, <4>3, <4>4 DEF SameFlows, FlowTypeOK, HasFlow, Free, Saving
      <4>. QED  BY <2>4, <4>4, <4>5
    <3>. QED  BY <2>13, <3>1, <3>2 DEF Proceed
  <2>20. ASSUME NEW w \in Worker, PipelineRaises(w) \/ PipelineCaught(w) PROVE FlowsExist'
    BY <2>5, <2>20 DEF PipelineRaises, PipelineCaught
  <2>21. CASE FinishConclude
    <3>1. lock # Free /\ lock # Saving /\ UNCHANGED <<flows, flows_file, creating, maint>>
      BY <2>21 DEF FinishConclude, Free, Saving
    <3>. QED  BY <2>4, <3>1 DEF SameFlows, FlowsExist, HasFlow
  <2>14. CASE FinishStart
    <3>1. lock # Free /\ lock # Saving /\ UNCHANGED <<flows_file, creating, maint>>
      BY <2>14 DEF FinishStart, Free, Saving
    <3>2. \A u \in TaskId : (HasFlow(u)' <=> HasFlow(u)) /\ flows'[u].mode = flows[u].mode
      BY <2>14 DEF FinishStart, FlowTypeOK, Flow, HasFlow
    <3>3. SameFlows
      BY <3>1, <3>2 DEF SameFlows, FlowsExist
    <3>. QED  BY <2>4, <3>1, <3>3
  <2>15. CASE SaveFlows
    <3>1. /\ flows_file' = flows /\ lock = Saving /\ lock' = Free
          /\ UNCHANGED <<flows, creating, work, maint>>
      BY <2>15 DEF SaveFlows
    <3>2. up /\ \A t \in TaskId : (HasFlow(t)' <=> HasFlow(t)) /\ (Filed(t)' <=> HasFlow(t))
      BY <3>1 DEF FlowsExist, HasFlow, Filed, Free, Saving
    <3>3. \A w \in Worker : work[w] # Idle => HasFlow(work[w].flow)'
      BY <3>1, <3>2, JobFlow
    <3>4. maint.item # NoId => HasFlow(maint.item)'
      BY <3>1, <3>2 DEF FlowsExist, FlowTypeOK, Maint
    <3>5. maint.todo \subseteq FlowIds'
      BY <3>1, <3>2 DEF FlowsExist, FlowIds
    <3>. QED  BY <2>1, <2>2, <3>1, <3>2, <3>3, <3>4, <3>5 DEF FlowsExist
  <2>16. CASE StartupReconcile
    <3>1. /\ maint'.todo = FlowIds /\ maint'.item = NoId /\ up
          /\ UNCHANGED <<flows, flows_file, creating, lock, work>>
      BY <2>16 DEF StartupReconcile, Reconcile, Resting
    <3>. QED  BY <2>2, <2>6, <3>1 DEF HasFlow
  <2>17. ASSUME NEW t \in TaskId, ReadStatus(t) PROVE FlowsExist'
    <3>1. HasFlow(t) /\ up /\ maint'.todo \subseteq FlowIds
      BY <2>17 DEF ReadStatus, FlowsExist, FlowIds, FlowTypeOK, Maint, Resting
    <3>2. maint'.item # NoId => maint'.item = t /\ maint'.seen # "none"
      BY <2>17 DEF ReadStatus, FlowStatusOf, Known, Absent, FlowTypeOK, Maint
    <3>. QED  BY <2>2, <2>6, <2>17, <3>1, <3>2 DEF ReadStatus, HasFlow
  <2>18. CASE WriteStatus
    <3>1. /\ maint.item \in TaskId /\ HasFlow(maint.item) /\ maint.seen # "none"
      BY <2>18 DEF WriteStatus, FlowsExist, FlowTypeOK, Maint
    <3>2. /\ flows' = [flows EXCEPT ![maint.item].status = maint.seen] /\ maint # Resting
          /\ maint'.item = NoId /\ maint'.todo = maint.todo
      BY <2>18 DEF WriteStatus, FlowTypeOK, Maint, Resting
    <3>3. \A t \in TaskId : (HasFlow(t)' <=> HasFlow(t)) /\ flows'[t].mode = flows[t].mode
      BY <3>1, <3>2, StatusOnly
    <3>4. up /\ maint'.todo \subseteq FlowIds /\ UNCHANGED <<flows_file, creating, lock, work>>
      BY <2>18, <3>2 DEF WriteStatus, FlowsExist
    <3>. QED  BY <2>2, <2>6, <3>2, <3>3, <3>4
  <2>19. CASE EndMaintenance
    BY <2>6, <2>19 DEF EndMaintenance, Resting, HasFlow
  <2>. QED
    BY <1>1, <1>2, <2>5, <2>7, <2>8, <2>9, <2>10, <2>11, <2>12, <2>13, <2>14, <2>15, <2>16, <2>17,
       <2>18, <2>19, <2>20, <2>21
    DEF FlowNext, FlowCall, Holder, StartFlow, ResumeFlow, Maintenance, TokenLapses, flow_vars,
        all_vars
<1>. QED  BY <1>1, <1>2, <1>3, FlowCallsKeepTasks

-----------------------------------------------------------------------------
(* Steps are recorded in order *)

\* The steps recorded before s can be reached, in a flow that starts at step 1: a DAG
\* whose step 1 has dependencies starts there all the same, and promises nothing.
Prior(mode, s) ==
    IF mode = "dag" THEN (IF StepDeps[1] = {} THEN StepDeps[s] ELSE {}) ELSE 1..(s - 1)

Ready(res, t, mode, s) == \A d \in Prior(mode, s) : res[t][d] # "none"

InOrder(res, t, flow) ==
    flow.status # "none" =>
        /\ flow.current # 0 => Ready(res, t, flow.mode, flow.current)
        /\ \A s \in Step : res[t][s] # "none" => Ready(res, t, flow.mode, s)

\* Unless someone executes a step out of turn, flows, their file, the jobs and whoever
\* has read current_step_id only ever name steps that may be executed.
StepsDone ==
    /\ \A t \in TaskId, s \in Step : results[t][s] # "none" => Filed(t)
    /\ \A t \in TaskId \ outOfTurn :
        /\ InOrder(results, t, flows[t]) /\ InOrder(results, t, flows_file[t])
        /\ HasFlow(t) => \A s \in shown[t] : s # 0 => Ready(results, t, flows[t].mode, s)
    /\ \A w \in Worker : work[w] # Idle =>
        /\ work[w].driver # "raised" /\ work[w].flow \notin outOfTurn =>
                Ready(results, work[w].flow, flows[work[w].flow].mode, work[w].step)
        /\ work[w].driver = "pipeline" => flows[work[w].flow].mode = "sequential"

LEMMA PriorSteps ==
    /\ \A mode : Prior(mode, 1) = {}
    /\ \A mode, s : s \in Step => Prior(mode, s) \subseteq Step
    /\ \A s : s \in Step /\ s # StepCount =>
            s + 1 \in Step /\ Prior("sequential", s + 1) \subseteq Prior("sequential", s) \cup {s}
    /\ \A s : s \in Step => Prior("dag", s) \subseteq StepDeps[s]
<1>1. StepCount \in Nat \ {0} /\ 1 \in Step /\ StepDeps \in [Step -> SUBSET Step]
  BY FlowConstants
<1>2. \A mode : Prior(mode, 1) = {}
  BY DEF Prior
<1>3. ASSUME NEW mode, NEW s \in Step PROVE Prior(mode, s) \subseteq Step
  BY <1>1 DEF Prior, Step
<1>4. ASSUME NEW s \in Step, s # StepCount
      PROVE  s + 1 \in Step /\ Prior("sequential", s + 1) \subseteq Prior("sequential", s) \cup {s}
  BY <1>1, <1>4 DEF Prior, Step
<1>5. ASSUME NEW s \in Step PROVE Prior("dag", s) \subseteq StepDeps[s]
  BY <1>1 DEF Prior
<1>. QED  BY <1>2, <1>3, <1>4, <1>5

\* Results are only added, and only where they were due or out of turn.
ResultsFollow ==
    /\ \A t \in TaskId, s \in Step : results[t][s] # "none" => results'[t][s] # "none"
    /\ \A t \in TaskId, s \in Step : results'[t][s] # "none" =>
        \/ results[t][s] # "none"
        \/ /\ up /\ HasFlow(t) /\ Filed(t)
           /\ t \notin outOfTurn => Ready(results, t, flows[t].mode, s)

LEMMA ReadyStays ==
    ASSUME ResultsFollow, NEW t \in TaskId, NEW mode, NEW s \in Step, Ready(results, t, mode, s)
    PROVE  Ready(results', t, mode, s)
BY PriorSteps DEF ResultsFollow, Ready

LEMMA InOrderStays ==
    ASSUME FlowTypeOK, ResultsFollow, NEW t \in TaskId \ outOfTurn, NEW flow, InOrder(results, t, flow),
           flow.current \in 0..StepCount, up /\ HasFlow(t) /\ Filed(t) => flow.mode = flows[t].mode
    PROVE  InOrder(results', t, flow)
<1>1. ASSUME flow.status # "none", flow.current # 0
      PROVE  Ready(results', t, flow.mode, flow.current)
  <2>1. flow.current \in Step
    BY <1>1, FlowConstants DEF Step
  <2>. QED  BY <1>1, <2>1, ReadyStays DEF InOrder
<1>2. ASSUME flow.status # "none", NEW s \in Step, results'[t][s] # "none"
      PROVE  Ready(results', t, flow.mode, s)
  <2>1. Ready(results, t, flow.mode, s)
    BY <1>2 DEF ResultsFollow, InOrder
  <2>. QED  BY <2>1, ReadyStays
<1>. QED  BY <1>1, <1>2 DEF InOrder

\* A call that creates no flow moves a flow to a step that may be executed, and shows no
\* other.
CurrentFollows ==
    /\ outOfTurn \subseteq outOfTurn'
    /\ \A t \in TaskId \ outOfTurn' :
        /\ \/ flows'[t].current \in {flows[t].current, 0}
           \/ /\ flows'[t].current \in Step
              /\ Ready(results', t, flows[t].mode, flows'[t].current)
        /\ shown'[t] \subseteq shown[t] \cup {flows'[t].current}

StepsFollow ==
    \A w \in Worker : work'[w] # Idle =>
        \/ work'[w] = work[w]
        \/ /\ work'[w].flow \in TaskId
           /\ work'[w].driver # "raised" /\ work'[w].flow \notin outOfTurn' =>
                /\ work'[w].step \in Step
                /\ Ready(results', work'[w].flow, flows[work'[w].flow].mode, work'[w].step)
           /\ work'[w].driver = "pipeline" => flows[work'[w].flow].mode = "sequential"

LEMMA FollowedSteps ==
    ASSUME FlowTypeOK, FlowsExist, StepsDone, ResultsFollow, SameFlows, CurrentFollows, StepsFollow
    PROVE  StepsDone'
<1>1. \A t \in TaskId : (HasFlow(t)' <=> HasFlow(t)) /\ flows'[t].mode = flows[t].mode
  BY DEF SameFlows
<1>2. ASSUME NEW t \in TaskId \ outOfTurn'
      PROVE  /\ InOrder(results', t, flows'[t])
             /\ HasFlow(t)' => \A s \in shown'[t] : s # 0 => Ready(results', t, flows'[t].mode, s)
  <2>1. t \in TaskId \ outOfTurn
    BY DEF CurrentFollows
  <2>2. InOrder(results', t, flows[t])
    BY <2>1, InOrderStays DEF StepsDone, FlowTypeOK, Flow
  <2>3. InOrder(results', t, flows'[t])
    BY <1>1, <2>2 DEF InOrder, CurrentFollows, HasFlow
  <2>4. ASSUME HasFlow(t)', NEW s \in shown'[t], s # 0 PROVE Ready(results', t, flows'[t].mode, s)
    <3>1. CASE s \in shown[t]
      <4>1. Ready(results, t, flows[t].mode, s)
        BY <1>1, <2>1, <2>4, <3>1 DEF StepsDone
      <4>2. s \in Step
        BY <2>4, <3>1, FlowConstants DEF FlowTypeOK, Step
      <4>. QED  BY <1>1, <4>1, <4>2, ReadyStays
    <3>2. CASE s = flows'[t].current
      BY <2>3, <2>4, <3>2 DEF InOrder, HasFlow
    <3>. QED  BY <2>4, <3>1, <3>2 DEF CurrentFollows
  <2>. QED  BY <2>3, <2>4
<1>3. ASSUME NEW t \in TaskId \ outOfTurn' PROVE InOrder(results', t, flows_file'[t])
  <2>1. flows_file[t].current \in 0..StepCount
    BY DEF FlowTypeOK, Flow
  <2>2. up /\ Filed(t) => flows_file[t].mode = flows[t].mode
    BY DEF FlowsExist
  <2>3. t \in TaskId \ outOfTurn /\ flows_file' = flows_file
    BY DEF CurrentFollows, SameFlows
  <2>. QED  BY <2>1, <2>2, <2>3, InOrderStays DEF StepsDone
<1>4. \A t \in TaskId, s \in Step : results'[t][s] # "none" => Filed(t)'
  BY DEF SameFlows, Filed, ResultsFollow, StepsDone
<1>5. ASSUME NEW w \in Worker, work'[w] # Idle
      PROVE  /\ work'[w].flow \in TaskId
             /\ work'[w].driver # "raised" /\ work'[w].flow \notin outOfTurn' =>
                    Ready(results', work'[w].flow, flows[work'[w].flow].mode, work'[w].step)
             /\ work'[w].driver = "pipeline" => flows[work'[w].flow].mode = "sequential"
  <2>1. CASE work'[w] = work[w]
    <3>1. work[w].flow \in TaskId /\ (work[w].driver # "raised" => work[w].step \in Step)
      BY <1>5, <2>1, JobType
    <3>2. /\ work[w].driver # "raised" /\ work[w].flow \notin outOfTurn =>
                Ready(results, work[w].flow, flows[work[w].flow].mode, work[w].step)
          /\ work[w].driver = "pipeline" => flows[work[w].flow].mode = "sequential"
      BY <1>5, <2>1 DEF StepsDone
    <3>3. outOfTurn \subseteq outOfTurn'
      BY DEF CurrentFollows
    <3>. QED  BY <2>1, <3>1, <3>2, <3>3, ReadyStays
  <2>. QED  BY <1>5, <2>1 DEF StepsFollow
<1>6. ASSUME NEW w \in Worker, work'[w] # Idle
      PROVE  /\ work'[w].driver # "raised" /\ work'[w].flow \notin outOfTurn' =>
                    Ready(results', work'[w].flow, flows'[work'[w].flow].mode, work'[w].step)
             /\ work'[w].driver = "pipeline" => flows'[work'[w].flow].mode = "sequential"
  BY <1>1, <1>5, <1>6
<1>. QED  BY <1>2, <1>3, <1>4, <1>6 DEF StepsDone

LEMMA RecordDone ==
    ASSUME FlowTypeOK, FlowsExist, StepsDone, NEW w \in Worker, work[w] # Idle,
           work[w].driver # "raised",
           NEW outcome \in Outcome, RecordStep(work[w].flow, work[w].step, outcome)
    PROVE  /\ SameFlows /\ ResultsFollow /\ CurrentFollows /\ UNCHANGED outOfTurn
           /\ results'[work[w].flow][work[w].step] # "none"
<1>1. PICK t \in TaskId, s \in Step : t = work[w].flow /\ s = work[w].step /\ HasFlow(t)
  BY JobFlow
<1>2. /\ up /\ lock = Free /\ SameFlows
      /\ results' = [results EXCEPT ![t][s] = outcome]
      /\ \A u \in TaskId : \/ flows'[u].current = flows[u].current
                           \/ /\ u = t /\ flows'[t].current # 0
                              /\ flows'[t].current = GetNextStep(t, s, results')
      /\ UNCHANGED outOfTurn /\ Shows(t)
  <2>1. RecordStep(t, s, outcome)
    BY <1>1
  <2>2. CompleteStep(t, s, outcome) => lock = Free /\ UNCHANGED outOfTurn /\ Shows(t)
    BY DEF CompleteStep
  <2>. QED  BY <1>1, <2>1, <2>2, RecordCompletes
<1>3. Filed(t) /\ (t \notin outOfTurn => Ready(results, t, flows[t].mode, s))
  BY <1>1, <1>2 DEF FlowsExist, StepsDone, Free, Saving
<1>4. /\ results'[t][s] = outcome /\ outcome # "none"
      /\ \A u \in TaskId, r \in Step : u # t \/ r # s => results'[u][r] = results[u][r]
  BY <1>2 DEF FlowTypeOK, Outcome
<1>5. ResultsFollow
  BY <1>1, <1>2, <1>3, <1>4 DEF ResultsFollow
<1>6. ASSUME flows'[t].current # flows[t].current, t \notin outOfTurn
      PROVE  flows'[t].current \in Step /\ Ready(results', t, flows[t].mode, flows'[t].current)
  <2> DEFINE next == GetNextStep(t, s, results')
  <2>1. flows'[t].current = next /\ next # 0
    BY <1>2, <1>6
  <2>2. /\ next \in 0..StepCount
        /\ flows[t].mode = "sequential" => next = IF s < StepCount THEN s + 1 ELSE 0
        /\ flows[t].mode = "dag" /\ next # 0 => next \in Unblocked(t, results')
        /\ flows[t].mode \notin {"sequential", "dag"} => next = 0
    BY NextStep
  <2> HIDE DEF next
  <2>3. next # 0 => next \in Step
    BY <2>2, FlowConstants DEF Step
  <2>4. CASE flows[t].mode = "sequential" /\ next # 0
    <3>1. next = s + 1 /\ s # StepCount
      BY <2>2, <2>4, FlowConstants DEF Step
    <3>2. Prior("sequential", next) \subseteq Prior("sequential", s) \cup {s}
      BY <3>1, PriorSteps
    <3>3. Ready(results', t, flows[t].mode, s)
      BY <1>3, <1>5, <1>6, ReadyStays
    <3>. QED  BY <1>4, <2>1, <2>3, <2>4, <3>2, <3>3 DEF Ready
  <2>5. CASE flows[t].mode = "dag" /\ next # 0
    <3>1. next \in Step /\ StepDeps[next] \subseteq Succeeding(t, results')
      BY <2>2, <2>5 DEF Unblocked
    <3>2. Prior("dag", next) \subseteq StepDeps[next]
      BY <3>1, PriorSteps
    <3>. QED  BY <2>1, <2>5, <3>1, <3>2 DEF Ready, Succeeding
  <2>. QED  BY <2>1, <2>2, <2>4, <2>5
<1>7. \A u \in TaskId : shown'[u] \subseteq shown[u] \cup {flows'[u].current}
  BY <1>2 DEF Shows, FlowTypeOK
<1>8. CurrentFollows
  BY <1>2, <1>6, <1>7 DEF CurrentFollows
<1>. QED  BY <1>1, <1>2, <1>4, <1>5, <1>8

LEMMA StepsDoneStep ==
    ASSUME TypeOK, FlowTypeOK, FlowsExist, StepsDone, [FlowNext]_all_vars
    PROVE  StepsDone'
<1>1. UNCHANGED results => ResultsFollow
  BY DEF ResultsFollow
<1>2. ASSUME UNCHANGED <<results, work>>, SameFlows, CurrentFollows, UNCHANGED outOfTurn
      PROVE  StepsDone'
  BY <1>1, <1>2, FollowedSteps DEF StepsFollow
<1>3. ASSUME UNCHANGED <<results, work, flows, flows_file, told>> PROVE StepsDone'
  BY <1>3 DEF StepsDone, HasFlow, Filed, told
<1>4. ASSUME UNCHANGED <<results, work, flows_file, told>>,
             \A t \in TaskId : /\ HasFlow(t)' <=> HasFlow(t)
                               /\ flows'[t].mode = flows[t].mode
                               /\ flows'[t].current = flows[t].current
      PROVE  StepsDone'
  <2>1. \A t \in TaskId \ outOfTurn :
            /\ InOrder(results, t, flows'[t])
            /\ HasFlow(t)' => \A s \in shown[t] : s # 0 => Ready(results, t, flows'[t].mode, s)
    BY <1>4 DEF StepsDone, InOrder, HasFlow
  <2>2. \A w \in Worker : work[w] # Idle =>
            /\ work[w].driver # "raised" /\ work[w].flow \notin outOfTurn =>
                    Ready(results, work[w].flow, flows'[work[w].flow].mode, work[w].step)
            /\ work[w].driver = "pipeline" => flows'[work[w].flow].mode = "sequential"
    BY <1>4, JobFlow DEF StepsDone
  <2>3. UNCHANGED <<results, work, flows_file, shown, outOfTurn>>
    BY <1>4 DEF told
  <2>. QED  BY <2>1, <2>2, <2>3 DEF StepsDone, Filed
<1>5. ASSUME NEW t \in TaskId, NEW status, status # "none", HasFlow(t),
             flows' = [flows EXCEPT ![t].status = status],
             UNCHANGED <<results, work, flows_file, told>>
      PROVE  StepsDone'
  <2>1. \A u \in TaskId : /\ HasFlow(u)' <=> HasFlow(u)
                          /\ flows'[u].mode = flows[u].mode
                          /\ flows'[u].current = flows[u].current
    BY <1>5, StatusOnly
  <2>. QED  BY <1>4, <1>5, <2>1
<1>6. ASSUME NEW t \in TaskId, StartFlow(t) PROVE StepsDone'
  <2>1. HasFlow(t)
    BY <1>6 DEF StartFlow, BeginStart, CanStartFlow, HasFlow
  <2>2. /\ flows' = [flows EXCEPT ![t].status = "running"]
        /\ UNCHANGED <<results, work, flows_file, told>>
    BY <1>6 DEF StartFlow, BeginStart
  <2>. QED  BY <1>5, <2>1, <2>2
<1>7. ASSUME NEW t \in TaskId, CreateFlow(t) PROVE StepsDone'
  <2>1. ~HasFlow(t) /\ ~Filed(t)
    BY <1>7 DEF CreateFlow, FlowsExist
  <2>2. PICK mode \in Modes : flows' = [flows EXCEPT ![t] = NewFlow(mode)]
    BY <1>7 DEF CreateFlow
  <2>3. flows'[t].current = 0 /\ \A u \in TaskId \ {t} : flows'[u] = flows[u]
    BY <2>2 DEF FlowTypeOK, NewFlow, NoFlow
  <2>4. UNCHANGED <<results, work, flows_file, outOfTurn>>
    BY <1>7 DEF CreateFlow
  <2>5. InOrder(results, t, flows'[t])
    BY <2>1, <2>3 DEF InOrder, StepsDone
  <2>6. shown'[t] = {0} /\ \A u \in TaskId \ {t} : shown'[u] = shown[u]
    BY <1>7 DEF CreateFlow, FlowTypeOK
  <2>7. \A w \in Worker : work[w] # Idle =>
            /\ work[w].driver # "raised" /\ work[w].flow \notin outOfTurn =>
                    Ready(results, work[w].flow, flows'[work[w].flow].mode, work[w].step)
            /\ work[w].driver = "pipeline" => flows'[work[w].flow].mode = "sequential"
    <3>1. ASSUME NEW w \in Worker, work[w] # Idle PROVE flows'[work[w].flow] = flows[work[w].flow]
      BY <2>1, <2>3, <3>1, JobFlow
    <3>. QED  BY <3>1 DEF StepsDone
  <2>. QED  BY <2>3, <2>4, <2>5, <2>6, <2>7 DEF StepsDone, HasFlow, Filed
<1>8. ASSUME NEW t \in TaskId, SyncFlow(t) PROVE StepsDone'
  <2>1. HasFlow(t) => SyncStatus(t) # "none"
    BY DEF SyncStatus, HasFlow
  <2>2. CASE HasFlow(t)
    BY <1>5, <1>8, <2>1, <2>2 DEF SyncFlow
  <2>3. CASE ~HasFlow(t)
    BY <1>3, <1>8, <2>3 DEF SyncFlow
  <2>. QED  BY <2>2, <2>3
<1>9. ASSUME NEW t \in TaskId, CancelFlow(t) PROVE StepsDone'
  <2>1. /\ flows' = [flows EXCEPT ![t].status = "cancelled"]
        /\ HasFlow(t) /\ UNCHANGED <<results, work, flows_file, told>>
    BY <1>9 DEF CancelFlow
  <2>. QED  BY <1>5, <2>1
<1>10. ASSUME NEW t \in TaskId, NEW s \in 0..StepCount, PauseFlow(t, s) PROVE StepsDone'
  <2>1. /\ flows' = [flows EXCEPT ![t].status = "paused", ![t].current = s]
        /\ HasFlow(t) /\ up /\ lock = Free /\ s \in shown[t]
        /\ UNCHANGED <<results, work, flows_file, creating, shown, outOfTurn>>
    BY <1>10 DEF PauseFlow, told
  <2>2. /\ \A u \in TaskId : (HasFlow(u)' <=> HasFlow(u)) /\ flows'[u].mode = flows[u].mode
        /\ \A u \in TaskId \ {t} : flows'[u] = flows[u]
        /\ flows'[t].current = s
    <3> DEFINE flow == [flows[t] EXCEPT !.status = "paused", !.current = s]
    <3>1. flows' = [flows EXCEPT ![t] = flow]
      BY <2>1 DEF FlowTypeOK
    <3>2. flow.status = "paused" /\ flow.mode = flows[t].mode /\ flow.current = s
      BY DEF FlowTypeOK, Flow
    <3> HIDE DEF flow
    <3>. QED  BY <2>1, <3>1, <3>2 DEF FlowTypeOK, HasFlow
  <2>3. t \notin outOfTurn /\ s # 0 => s \in Step /\ Ready(results, t, flows[t].mode, s)
    BY <2>1, FlowConstants DEF StepsDone, Step
  <2>4. CurrentFollows
    BY <2>1, <2>2, <2>3 DEF CurrentFollows
  <2>5. SameFlows
    BY <2>1, <2>2 DEF SameFlows, Free, Saving
  <2>. QED  BY <1>2, <2>1, <2>4, <2>5
<1>20. ASSUME NEW w \in Worker, NEW t \in TaskId, NEW s \in Step, PickStep(w, t, s)
       PROVE  StepsDone'
  <2>1. /\ work' = [work EXCEPT ![w] = [driver |-> "automation", flow |-> t, step |-> s]]
        /\ outOfTurn' = IF s \in shown[t] THEN outOfTurn ELSE outOfTurn \cup {t}
        /\ HasFlow(t) /\ UNCHANGED <<flows, results, flows_file, creating, lock, shown>>
    BY <1>20 DEF PickStep
  <2>2. t \notin outOfTurn' => Ready(results, t, flows[t].mode, s)
    BY <2>1, FlowConstants DEF StepsDone, Step
  <2>3. StepsFollow
    BY <2>1, <2>2 DEF StepsFollow, FlowTypeOK
  <2>4. SameFlows /\ CurrentFollows
    BY <2>1 DEF SameFlows, CurrentFollows, HasFlow
  <2>. QED  BY <1>1, <2>1, <2>3, <2>4, FollowedSteps
<1>11. ASSUME NEW w \in Worker, NEW t \in TaskId, RunPipeline(w, t) PROVE StepsDone'
  <2>1. /\ work' = [work EXCEPT ![w] = [driver |-> "pipeline", flow |-> t, step |-> 1]]
        /\ flows[t].mode = "sequential" /\ UNCHANGED <<results, shown, outOfTurn>>
    BY <1>11 DEF RunPipeline, BeginStart, told
  <2>2. Ready(results, t, "sequential", 1) /\ 1 \in Step
    BY PriorSteps, FlowConstants DEF Ready
  <2>3. StepsFollow
    BY <2>1, <2>2 DEF StepsFollow, FlowTypeOK
  <2>4. SameFlows /\ CurrentFollows
    BY <1>11, <2>1, BeginStartSame DEF RunPipeline, SameFlows, CurrentFollows, HasFlow
  <2>. QED  BY <1>1, <2>1, <2>3, <2>4, FollowedSteps
<1>12. ASSUME NEW w \in Worker, NEW outcome \in Outcome, FinishStep(w, outcome) PROVE StepsDone'
  <2>1. /\ work[w] # Idle /\ RecordStep(work[w].flow, work[w].step, outcome)
        /\ work[w].driver = "automation" /\ work' = [work EXCEPT ![w] = Idle]
    BY <1>12 DEF FinishStep
  <2>2. SameFlows /\ ResultsFollow /\ CurrentFollows
    BY <2>1, RecordDone
  <2>3. StepsFollow
    BY <2>1 DEF StepsFollow, FlowTypeOK
  <2>. QED  BY <2>2, <2>3, FollowedSteps
<1>13. ASSUME NEW w \in Worker, NEW outcome \in Outcome, PipelineStep(w, outcome) PROVE StepsDone'
  <2> DEFINE job == [work[w] EXCEPT !.step = @ + 1]
  <2>1. /\ work[w] # Idle /\ RecordStep(work[w].flow, work[w].step, outcome)
        /\ work[w].driver = "pipeline"
        /\ \/ work' = [work EXCEPT ![w] = Idle]
           \/ work[w].step # StepCount /\ work' = [work EXCEPT ![w] = job]
    BY <1>13 DEF PipelineStep
  <2>2. /\ SameFlows /\ ResultsFollow /\ CurrentFollows /\ UNCHANGED outOfTurn
        /\ results'[work[w].flow][work[w].step] # "none"
    BY <2>1, RecordDone
  <2>3. work[w].flow \in TaskId /\ work[w].step \in Step
    BY <2>1, JobFlow
  <2>4. job.flow = work[w].flow /\ job.step = work[w].step + 1 /\ job.driver = "pipeline"
    BY <2>1, JobType DEF Job
  <2>5. /\ flows[work[w].flow].mode = "sequential"
        /\ work[w].flow \notin outOfTurn => Ready(results, work[w].flow, "sequential", work[w].step)
    BY <2>1 DEF StepsDone
  <2>6. ASSUME work[w].step # StepCount, work[w].flow \notin outOfTurn
        PROVE  work[w].step + 1 \in Step
               /\ Ready(results', work[w].flow, "sequential", work[w].step + 1)
    <3>1. Ready(results', work[w].flow, "sequential", work[w].step)
      BY <2>2, <2>3, <2>5, <2>6, ReadyStays
    <3>2. /\ work[w].step + 1 \in Step
          /\ Prior("sequential", work[w].step + 1)
                \subseteq Prior("sequential", work[w].step) \cup {work[w].step}
      BY <2>3, <2>6, PriorSteps
    <3>. QED  BY <2>2, <3>1, <3>2 DEF Ready
  <2> HIDE DEF job
  <2>7. StepsFollow
    BY <2>1, <2>2, <2>3, <2>4, <2>5, <2>6 DEF StepsFollow, FlowTypeOK
  <2>. QED  BY <2>2, <2>7, FollowedSteps
<1>14. ASSUME NEW w \in Worker, NEW k \in Token, PipelineApproval(w, k) PROVE StepsDone'
  <2>1. PICK t \in TaskId, s \in Step :
           t = work[w].flow /\ s = work[w].step /\ HasFlow(t) /\ work[w] # Idle
           /\ work[w].driver = "pipeline"
    BY <1>14, JobFlow DEF PipelineApproval
  <2>2. /\ flows' = [flows EXCEPT ![t].status = "awaiting_approval", ![t].current = s]
        /\ work' = [work EXCEPT ![w] = Idle] /\ lock = Free /\ Shows(t)
        /\ UNCHANGED <<results, flows_file, creating, outOfTurn>>
    BY <1>14, <2>1, SMTT(40) DEF PipelineApproval
  <2>3. /\ \A u \in TaskId : (HasFlow(u)' <=> HasFlow(u)) /\ flows'[u].mode = flows[u].mode
        /\ \A u \in TaskId \ {t} : flows'[u] = flows[u]
        /\ flows'[t].current = s
    BY <2>1, <2>2, StepsAreValues, StatusAndStep
  <2>4. up /\ (t \notin outOfTurn => Ready(results, t, flows[t].mode, s))
    BY <2>1 DEF StepsDone, FlowsExist
  <2>5. \A u \in TaskId : shown'[u] \subseteq shown[u] \cup {flows'[u].current}
    BY <2>2 DEF Shows, FlowTypeOK
  <2>6. CurrentFollows
    BY <2>1, <2>2, <2>3, <2>4, <2>5 DEF CurrentFollows
  <2>7. SameFlows
    BY <2>2, <2>3, <2>4 DEF SameFlows, Free, Saving
  <2>8. StepsFollow
    BY <2>2 DEF StepsFollow, FlowTypeOK
  <2>. QED  BY <1>1, <2>2, <2>6, <2>7, <2>8, FollowedSteps
<1>15. CASE FinishStart
  <2>1. PICK t \in TaskId : t = lock.flow
    BY <1>15, LockType DEF FinishStart
  <2>2. /\ flows' = [flows EXCEPT ![t].current = 1] \/ flows' = flows
        /\ lock # Free /\ lock # Saving /\ Shows(t)
        /\ UNCHANGED <<results, work, flows_file, creating, outOfTurn>>
    BY <1>15, <2>1 DEF FinishStart, Free, Saving
  <2>3. up
    BY <2>2 DEF FlowsExist
  <2>4. \A u \in TaskId : /\ HasFlow(u)' <=> HasFlow(u)
                          /\ flows'[u].mode = flows[u].mode
                          /\ flows'[u].current = flows[u].current \/ flows'[u].current = 1
    BY <2>2 DEF FlowTypeOK, Flow, HasFlow
  <2>5. \A u \in TaskId : shown'[u] \subseteq shown[u] \cup {flows'[u].current}
    BY <2>2 DEF Shows, FlowTypeOK
  <2>6. CurrentFollows
    BY <2>2, <2>4, <2>5, PriorSteps, FlowConstants DEF CurrentFollows, Ready
  <2>7. SameFlows
    BY <2>2, <2>3, <2>4 DEF SameFlows
  <2>. QED  BY <1>2, <2>2, <2>6, <2>7
<1>16. CASE SaveFlows
  <2>1. /\ flows_file' = flows /\ lock = Saving
        /\ UNCHANGED <<flows, results, work, shown, outOfTurn>>
    BY <1>16 DEF SaveFlows, told
  <2>2. up
    BY <2>1 DEF FlowsExist, Free, Saving
  <2>3. \A t \in TaskId : Filed(t) => Filed(t)'
    BY <2>1, <2>2 DEF FlowsExist, Filed, HasFlow
  <2>. QED  BY <2>1, <2>3 DEF StepsDone, HasFlow
<1>17. CASE WriteStatus
  <2>1. /\ maint.item \in TaskId /\ HasFlow(maint.item) /\ maint.seen # "none"
        /\ flows' = [flows EXCEPT ![maint.item].status = maint.seen]
        /\ UNCHANGED <<results, work, flows_file, told>>
    BY <1>17 DEF WriteStatus, FlowsExist, FlowTypeOK, Maint
  <2>. QED  BY <1>5, <2>1
<1>18. CASE ProcessDies \/ CallDies
  <2>1. /\ \A t \in TaskId : flows'[t].status = "none"
        /\ \A w \in Worker : work'[w] = Idle
        /\ UNCHANGED <<results, flows_file, outOfTurn>>
    BY <1>18 DEF ProcessDies, CallDies, Wiped, NoFlow
  <2>. QED  BY <2>1 DEF StepsDone, InOrder, HasFlow, Filed
<1>19. CASE ProcessStarts
  <2>1. ~up /\ flows' = flows_file /\ UNCHANGED <<results, flows_file, work, outOfTurn>>
    BY <1>19 DEF ProcessStarts, Restart
  <2>2. \A w \in Worker : work[w] = Idle
    BY <2>1, JobFlow DEF FlowsExist
  <2>3. \A t \in TaskId : shown'[t] = {0, flows'[t].current}
    BY <1>19 DEF ProcessStarts
  <2>. QED  BY <2>1, <2>2, <2>3 DEF StepsDone, InOrder, HasFlow, Filed
<1>21. ASSUME NEW w \in Worker, PipelineRaises(w) \/ PipelineCaught(w) PROVE StepsDone'
  <2>1. /\ work[w] # Idle
        /\ UNCHANGED <<results, flows, flows_file, creating, lock, shown, outOfTurn>>
        /\ \/ work' = [work EXCEPT ![w] = [driver |-> "raised", flow |-> work[w].flow]]
           \/ work' = [work EXCEPT ![w] = Idle]
    BY <1>21 DEF PipelineRaises, PipelineCaught, told
  <2>2. work[w].flow \in TaskId
    BY <2>1, JobType
  <2>3. StepsFollow
    BY <2>1, <2>2 DEF StepsFollow, FlowTypeOK
  <2>4. SameFlows /\ CurrentFollows
    BY <2>1 DEF SameFlows, CurrentFollows, HasFlow
  <2>. QED  BY <1>1, <2>1, <2>3, <2>4, FollowedSteps
<1>22. CASE FinishConclude
  BY <1>3, <1>22 DEF FinishConclude
<1>23. ASSUME NEW t \in TaskId, CreateFlowTask(t) PROVE StepsDone'
  BY <1>3, <1>23 DEF CreateFlowTask
<1>24. ASSUME NEW k \in Token, ResumeFlow(k) PROVE StepsDone'
  BY <1>3, <1>24 DEF ResumeFlow
<1>25. CASE Maintenance
  BY <1>3, <1>17, <1>25 DEF Maintenance, StartupReconcile, ReadStatus, EndMaintenance
<1>26. CASE UNCHANGED flow_vars
  BY <1>3, <1>26 DEF flow_vars
<1>27. ASSUME NEW w \in Worker, Proceed(w) PROVE StepsDone'
  BY <1>12, <1>13, <1>14, <1>27 DEF Proceed
<1>28. CASE FlowCall
  BY <1>6, <1>7, <1>8, <1>9, <1>10, <1>11, <1>15, <1>16, <1>20, <1>21, <1>22, <1>23, <1>24,
     <1>25, <1>26, <1>27, <1>28
  DEF FlowCall, Holder
<1>. QED  BY <1>18, <1>19, <1>26, <1>28 DEF FlowNext, TokenLapses, all_vars

LEMMA FlowsAlwaysExist == FlowSpec => [](FlowsExist /\ StepsDone)
<1>1. FlowInit => FilesIndexed /\ FlowsExist /\ StepsDone
  <2>1. ASSUME FlowInit PROVE FilesIndexed /\ FlowsExist
    BY <2>1 DEF FlowInit, Init, FilesIndexed, Untorn, IndexedBy, NoFile, FlowsExist, HasFlow, Filed,
                NoFlow, OnDisk, NoTasks, NoTask, Absent, Resting
  <2>2. ASSUME FlowInit PROVE StepsDone
    BY <2>2 DEF FlowInit, StepsDone, InOrder, NoFlow
  <2>. QED  BY <2>1, <2>2
<1>2. TypeOK /\ FlowTypeOK /\ FilesIndexed /\ FlowsExist /\ StepsDone /\ [FlowNext]_all_vars
        => FilesIndexed' /\ FlowsExist' /\ StepsDone'
  BY FlowStepsRegistry, FilesIndexedStep, FlowsExistStep, StepsDoneStep
<1>. QED  BY <1>1, <1>2, FlowTypes, PTL DEF FlowSpec

\* A step has a result only if the steps before it have one, as long as callers
\* execute steps current_step_id has named, whoever they are, however often they do
\* and however late, pauses, cancellations and restarts in between.  start_flow()
\* begins at step 1 also when step 1 of a DAG depends on others, hence the hypothesis.
THEOREM StepsAreInOrder ==
    ASSUME "dag" \in Modes => StepDeps[1] = {} PROVE FlowSpec => []StepsInOrder
<1>1. ASSUME FlowTypeOK, StepsDone PROVE StepsInOrder
  <2>1. SUFFICES ASSUME NEW t \in TaskId \ outOfTurn, HasFlow(t), NEW s \in Step,
                        results[t][s] # "none", NEW d \in Before(t, s)
                 PROVE  results[t][d] # "none"
    BY DEF StepsInOrder
  <2>2. Ready(results, t, flows[t].mode, s) /\ flows[t].mode \in Modes
    BY <1>1, <2>1 DEF StepsDone, InOrder, HasFlow, FlowTypeOK, Flow
  <2>3. d \in Prior(flows[t].mode, s)
    BY <2>2, FlowConstants DEF Before, Prior, Step
  <2>. QED  BY <2>2, <2>3 DEF Ready
<1>. QED  BY <1>1, FlowsAlwaysExist, FlowTypes, PTL

-----------------------------------------------------------------------------
(* A completed flow has run every step *)

\* The dependencies of a DAG lead nowhere back.
Acyclic == \E rank \in [Step -> Nat] : \A s \in Step : \A d \in StepDeps[s] : rank[d] < rank[s]

AllRan(res, t) == \A s \in Step : res[t][s] # "none"

AllDone ==
    /\ Faults = {} => up
    /\ \A t \in TaskId : \A flow \in {flows[t], flows_file[t]} :
            flow.status = "completed" =>
                (flow.mode # "dag" /\ t \in outOfTurn) \/ AllRan(results, t)
    /\ Faults = {} => \A t \in TaskId, s \in Step :
            HasFlow(t) /\ results[t][s] = "failed" => flows[t].failing

\* When no step is unblocked and none has failed, none is left: a step of least rank
\* among those left would be unblocked.
LEMMA NothingBlocked ==
    ASSUME Acyclic, NEW t \in TaskId, NEW res \in [TaskId -> [Step -> Outcome \cup {"none"}]],
           Unblocked(t, res) = {}, \A s \in Step : res[t][s] # "failed"
    PROVE  AllRan(res, t)
<1> DEFINE Left == {s \in Step : res[t][s] = "none"}
<1>1. PICK rank \in [Step -> Nat] : \A s \in Step : \A d \in StepDeps[s] : rank[d] < rank[s]
  BY DEF Acyclic
<1>2. SUFFICES ASSUME Left # {} PROVE FALSE
  BY DEF AllRan
<1>3. {rank[s] : s \in Left} \in SUBSET Nat /\ {rank[s] : s \in Left} # {}
  BY <1>2
<1>4. PICK s \in Left : \A u \in Left : rank[s] <= rank[u]
  <2> DEFINE Ranks == {rank[s] : s \in Left}
  <2>1. PICK n \in Ranks : \A m \in Ranks : n <= m
    <3> HIDE DEF Ranks
    <3>. QED  BY <1>3, LeastNatural DEF Ranks
  <2>. QED  BY <2>1
<1>5. PICK d \in StepDeps[s] : d \notin Succeeding(t, res)
  BY <1>4 DEF Unblocked
<1>6. d \in Step
  BY <1>4, <1>5, FlowConstants
<1>7. d \in Left
  BY <1>5, <1>6 DEF Succeeding, Outcome
<1>8. rank[d] < rank[s] /\ rank[s] <= rank[d] /\ rank[d] \in Nat /\ rank[s] \in Nat
  BY <1>1, <1>4, <1>5, <1>6, <1>7
<1>. QED  BY <1>8

\* A flow turns COMPLETED only when every step has run or one ran out of turn, and
\* remembers a failure.
DoneFollows ==
    /\ outOfTurn \subseteq outOfTurn'
    /\ \A t \in TaskId : flows'[t].status = "completed" =>
            \/ flows[t].status = "completed" /\ flows'[t].mode = flows[t].mode
            \/ flows'[t].mode # "dag" /\ t \in outOfTurn'
            \/ AllRan(results', t)
    /\ \A t \in TaskId, s \in Step : HasFlow(t)' /\ results'[t][s] = "failed" =>
            \/ flows'[t].failing
            \/ HasFlow(t) /\ results[t][s] = "failed" /\ flows'[t].failing = flows[t].failing

LEMMA DoneStays ==
    ASSUME AllDone, DoneFollows, ResultsFollow, up' <=> up, UNCHANGED flows_file
    PROVE  AllDone'
<1>1. \A t \in TaskId : AllRan(results, t) => AllRan(results', t)
  BY DEF ResultsFollow, AllRan
<1>2. ASSUME NEW t \in TaskId, NEW flow \in {flows'[t], flows_file'[t]},
             flow.status = "completed"
      PROVE  (flow.mode # "dag" /\ t \in outOfTurn') \/ AllRan(results', t)
  BY <1>1, <1>2 DEF AllDone, DoneFollows
<1>3. Faults = {} => \A t \in TaskId, s \in Step :
            HasFlow(t)' /\ results'[t][s] = "failed" => flows'[t].failing
  BY DEF AllDone, DoneFollows
<1>. QED  BY <1>2, <1>3 DEF AllDone, AllRan

LEMMA StatusDone ==
    ASSUME FlowTypeOK, NEW t \in TaskId, HasFlow(t), NEW status,
           status = flows[t].status \/ status # "completed",
           flows' = [flows EXCEPT ![t].status = status], UNCHANGED <<results, outOfTurn>>
    PROVE  DoneFollows
<1>1. \A u \in TaskId \ {t} : flows'[u] = flows[u]
  BY DEF FlowTypeOK
<1>2. /\ flows'[t].status = status /\ flows'[t].failing = flows[t].failing
      /\ flows'[t].mode = flows[t].mode
  BY DEF FlowTypeOK, Flow
<1>. QED  BY <1>1, <1>2 DEF DoneFollows, HasFlow

LEMMA RecordAllDone ==
    ASSUME Modes \subseteq {"sequential", "dag"},
           "dag" \in Modes => StopOnFailure /\ Faults = {} /\ Acyclic,
           FlowTypeOK, FlowsExist, StepsDone, AllDone,
           NEW w \in Worker, work[w] # Idle, work[w].driver # "raised", NEW outcome \in Outcome,
           RecordStep(work[w].flow, work[w].step, outcome)
    PROVE  DoneFollows
<1>1. PICK t \in TaskId, s \in Step : t = work[w].flow /\ s = work[w].step /\ HasFlow(t)
  BY JobFlow
<1>2. CompleteStep(t, s, outcome)
  <2>1. RecordStep(t, s, outcome)
    BY <1>1
  <2>. QED  BY <1>1, <2>1, RecordCompletes
<1> DEFINE res     == [results EXCEPT ![t][s] = outcome]
           failing == flows[t].failing \/ outcome = "failed"
           flow    == [flows[t] EXCEPT !.failing = @ \/ outcome = "failed"]
           next    == GetNextStep(t, s, res)
           stopped == outcome = "failed" /\ StopOnFailure
           final   == IF flow.failing /\ StopOnFailure THEN "failed" ELSE "completed"
<1>3. /\ results' = res
      /\ \/ (stopped \/ next = 0) /\ flows' = [flows EXCEPT ![t] = [flow EXCEPT !.status = final]]
         \/ flows' = [flows EXCEPT ![t] = [flow EXCEPT !.current = next]]
      /\ UNCHANGED outOfTurn
  BY <1>2 DEF CompleteStep
<1>4. /\ flow.failing = failing /\ flow.status = flows[t].status
      /\ [flow EXCEPT !.status = final].mode = flows[t].mode
      /\ [flow EXCEPT !.current = next].mode = flows[t].mode
      /\ [flow EXCEPT !.status = final].status = final
      /\ [flow EXCEPT !.status = final].failing = failing
      /\ [flow EXCEPT !.current = next].status = flows[t].status
      /\ [flow EXCEPT !.current = next].failing = failing
  BY DEF FlowTypeOK, Flow
<1>5. /\ res \in [TaskId -> [Step -> Outcome \cup {"none"}]]
      /\ res[t][s] = outcome /\ outcome # "none"
      /\ \A u \in TaskId, r \in Step : u # t \/ r # s => res[u][r] = results[u][r]
  BY DEF FlowTypeOK, Outcome
<1>6. final = "completed" => ~(failing /\ StopOnFailure) /\ ~stopped
  BY <1>4
<1>7. /\ flows[t].mode \in Modes /\ next \in 0..StepCount
      /\ flows[t].mode = "sequential" => next = IF s < StepCount THEN s + 1 ELSE 0
      /\ flows[t].mode = "dag" /\ next = 0 => Unblocked(t, res) = {}
  <2>1. flows[t].mode \in Modes
    BY DEF FlowTypeOK, Flow
  <2> HIDE DEF res
  <2>. QED  BY <2>1, NextStep
<1> HIDE DEF flow, next, res, final
<1>8. ASSUME final = "completed", next = 0, flows[t].mode = "dag" \/ t \notin outOfTurn
      PROVE  AllRan(res, t)
  <2>1. CASE flows[t].mode = "sequential"
    <3>1. s = StepCount
      BY <1>7, <1>8, <2>1, FlowConstants DEF Step
    <3>2. Ready(results, t, "sequential", s)
      BY <1>1, <1>8, <2>1 DEF StepsDone
    <3>3. ASSUME NEW r \in Step, r # s PROVE results[t][r] # "none"
      BY <3>1, <3>2, <3>3, FlowConstants DEF Ready, Prior, Step
    <3>. QED  BY <1>5, <3>3 DEF AllRan
  <2>2. CASE flows[t].mode = "dag"
    <3>1. StopOnFailure /\ Faults = {} /\ Acyclic /\ ~failing
      BY <1>6, <1>7, <1>8, <2>2
    <3>2. \A r \in Step : res[t][r] # "failed"
      BY <1>1, <1>5, <3>1 DEF AllDone
    <3>. QED  BY <1>5, <1>7, <1>8, <2>2, <3>1, <3>2, NothingBlocked
  <2>. QED  BY <1>7, <2>1, <2>2
<1>9. /\ \A u \in TaskId \ {t} : flows'[u] = flows[u]
      /\ flows'[t].failing = failing /\ flows'[t].mode = flows[t].mode
      /\ flows'[t].status = "completed" =>
            \/ flows[t].status = "completed"
            \/ flows[t].mode # "dag" /\ t \in outOfTurn
            \/ AllRan(res, t)
  <2> HIDE DEF failing, stopped
  <2>1. CASE /\ stopped \/ next = 0
             /\ flows' = [flows EXCEPT ![t] = [flow EXCEPT !.status = final]]
    <3>1. final = "completed" => (flows[t].mode # "dag" /\ t \in outOfTurn) \/ AllRan(res, t)
      BY <1>6, <1>8, <2>1
    <3>2. flows'[t] = [flow EXCEPT !.status = final] /\ \A u \in TaskId \ {t} : flows'[u] = flows[u]
      BY <2>1 DEF FlowTypeOK
    <3>3. flows'[t].status = final /\ flows'[t].failing = failing /\ flows'[t].mode = flows[t].mode
      BY <1>4, <3>2
    <3>. QED  BY <3>1, <3>2, <3>3
  <2>2. CASE flows' = [flows EXCEPT ![t] = [flow EXCEPT !.current = next]]
    BY <1>4, <2>2 DEF FlowTypeOK
  <2>3. \/ /\ stopped \/ next = 0
           /\ flows' = [flows EXCEPT ![t] = [flow EXCEPT !.status = final]]
        \/ flows' = [flows EXCEPT ![t] = [flow EXCEPT !.current = next]]
    BY <1>3
  <2>. QED  BY <2>1, <2>2, <2>3
<1>10. /\ flows'[t].failing \/ flows'[t].failing = flows[t].failing
       /\ outcome = "failed" => flows'[t].failing
  <2>1. flows[t].failing \in BOOLEAN
    BY DEF FlowTypeOK, Flow
  <2>. QED  BY <1>9, <2>1
<1>11. ASSUME NEW u \in TaskId, NEW r \in Step, HasFlow(u)', results'[u][r] = "failed"
       PROVE  \/ flows'[u].failing
              \/ HasFlow(u) /\ results[u][r] = "failed" /\ flows'[u].failing = flows[u].failing
  <2>1. CASE u = t
    BY <1>1, <1>3, <1>5, <1>10, <1>11, <2>1
  <2>2. CASE u # t
    BY <1>3, <1>5, <1>9, <1>11, <2>2 DEF HasFlow
  <2>. QED  BY <2>1, <2>2
<1>. QED  BY <1>3, <1>9, <1>11 DEF DoneFollows

LEMMA AllDoneStep ==
    ASSUME Modes \subseteq {"sequential", "dag"}, Clients \subseteq {"pause", "cancel"},
           "dag" \in Modes => StopOnFailure /\ Faults = {} /\ Acyclic,
           TypeOK, FlowTypeOK, FilesIndexed, FlowsExist, StepsDone, AllDone, [FlowNext]_all_vars
    PROVE  AllDone'
<1>1. CASE ProcessDies \/ CallDies
  <2>1. /\ \A t \in TaskId : flows'[t].status = "none"
        /\ UNCHANGED <<results, flows_file, outOfTurn>> /\ Faults # {}
    BY <1>1 DEF ProcessDies, CallDies, Wiped, Crash, NoFlow
  <2>. QED  BY <2>1 DEF AllDone, AllRan
<1>2. CASE ProcessStarts
  <2>1. ~up /\ flows' = flows_file /\ UNCHANGED <<results, flows_file, outOfTurn>>
    BY <1>2 DEF ProcessStarts, Restart
  <2>. QED  BY <2>1 DEF AllDone, AllRan
<1>3. ASSUME up' <=> up PROVE AllDone'
  <2>1. ASSUME DoneFollows, UNCHANGED <<results, flows_file>> PROVE AllDone'
    BY <1>3, <2>1, DoneStays DEF ResultsFollow
  <2>2. ASSUME UNCHANGED <<flows, results, flows_file>>, outOfTurn \subseteq outOfTurn'
        PROVE  AllDone'
    BY <2>1, <2>2 DEF DoneFollows, HasFlow
  <2>3. ASSUME NEW t \in TaskId, HasFlow(t), NEW status, status = flows[t].status \/ status # "completed",
               flows' = [flows EXCEPT ![t].status = status],
               UNCHANGED <<results, flows_file, outOfTurn>>
        PROVE  AllDone'
    BY <2>1, <2>3, StatusDone
  <2>4. ASSUME NEW t \in TaskId, BeginStart(t) PROVE AllDone'
    <3>1. /\ HasFlow(t) /\ flows' = [flows EXCEPT ![t].status = "running"]
          /\ UNCHANGED <<results, flows_file, outOfTurn>>
      BY <2>4 DEF BeginStart, CanStartFlow, HasFlow, told
    <3>. QED  BY <2>3, <3>1
  <2>5. ASSUME NEW t \in TaskId, CreateFlow(t) PROVE AllDone'
    <3>1. \A s \in Step : results[t][s] = "none"
      BY <2>5 DEF CreateFlow, FlowsExist, StepsDone
    <3>2. PICK mode \in Modes : flows' = [flows EXCEPT ![t] = NewFlow(mode)]
      BY <2>5 DEF CreateFlow
    <3>3. flows'[t].status = "pending" /\ \A u \in TaskId \ {t} : flows'[u] = flows[u]
      BY <3>2 DEF FlowTypeOK, NewFlow, NoFlow
    <3>4. UNCHANGED <<results, flows_file, outOfTurn>>
      BY <2>5 DEF CreateFlow
    <3>5. DoneFollows
      BY <3>1, <3>3, <3>4 DEF DoneFollows, HasFlow
    <3>. QED  BY <2>1, <3>4, <3>5
  <2>6. ASSUME NEW t \in TaskId, SyncFlow(t) PROVE AllDone'
    <3>1. SyncStatus(t) = flows[t].status \/ SyncStatus(t) # "completed"
      BY DEF SyncStatus
    <3>2. CASE HasFlow(t)
      <4>1. /\ flows' = [flows EXCEPT ![t].status = SyncStatus(t)]
            /\ UNCHANGED <<results, flows_file, outOfTurn>>
        BY <2>6, <3>2 DEF SyncFlow, told
      <4>. QED  BY <2>3, <3>1, <3>2, <4>1
    <3>3. CASE ~HasFlow(t)
      BY <2>2, <2>6, <3>3 DEF SyncFlow, told
    <3>. QED  BY <3>2, <3>3
  <2>7. ASSUME NEW t \in TaskId, CancelFlow(t) PROVE AllDone'
    <3>1. /\ flows' = [flows EXCEPT ![t].status = "cancelled"]
          /\ HasFlow(t) /\ UNCHANGED <<results, flows_file, outOfTurn>>
      BY <2>7 DEF CancelFlow, told
    <3>. QED  BY <2>3, <3>1
  <2>12. ASSUME NEW t \in TaskId, NEW s \in 0..StepCount, PauseFlow(t, s) PROVE AllDone'
    <3> DEFINE flow == [flows[t] EXCEPT !.status = "paused", !.current = s]
    <3>1. flow.status = "paused" /\ flow.failing = flows[t].failing
      BY DEF FlowTypeOK, Flow
    <3>2. /\ flows' = [flows EXCEPT ![t] = flow]
          /\ HasFlow(t) /\ UNCHANGED <<results, flows_file, outOfTurn>>
      BY <2>12 DEF PauseFlow, FlowTypeOK, told
    <3> HIDE DEF flow
    <3>3. DoneFollows
      BY <3>1, <3>2 DEF DoneFollows, FlowTypeOK, HasFlow
    <3>. QED  BY <2>1, <3>2, <3>3
  <2>8. ASSUME NEW w \in Worker, NEW t \in TaskId,
               (\E s \in Step : PickStep(w, t, s)) \/ RunPipeline(w, t)
        PROVE  AllDone'
    BY <2>2, <2>4, <2>8 DEF PickStep, RunPipeline, told
  <2>9. ASSUME NEW w \in Worker, Proceed(w) PROVE AllDone'
    <3>1. ASSUME NEW outcome \in Outcome, FinishStep(w, outcome) \/ PipelineStep(w, outcome)
          PROVE  AllDone'
      <4>1. /\ work[w] # Idle /\ work[w].driver # "raised"
            /\ RecordStep(work[w].flow, work[w].step, outcome)
        BY <3>1 DEF FinishStep, PipelineStep
      <4>2. SameFlows /\ ResultsFollow
        BY <4>1, RecordDone
      <4>3. DoneFollows
        BY <4>1, RecordAllDone
      <4>. QED  BY <1>3, <4>2, <4>3, DoneStays DEF SameFlows
    <3>2. ASSUME NEW k \in Token, PipelineApproval(w, k) PROVE AllDone'
      <4>1. PICK t \in TaskId, s \in Step : t = work[w].flow /\ s = work[w].step /\ HasFlow(t)
        BY <3>2, JobFlow DEF PipelineApproval
      <4> DEFINE flow == [flows[t] EXCEPT !.status = "awaiting_approval", !.current = s]
      <4>2. flow.status = "awaiting_approval" /\ flow.failing = flows[t].failing
        BY DEF FlowTypeOK, Flow
      <4>3. flows' = [flows EXCEPT ![t] = flow] /\ UNCHANGED <<results, flows_file, outOfTurn>>
        BY <3>2, <4>1 DEF PipelineApproval, FlowTypeOK
      <4> HIDE DEF flow
      <4>4. DoneFollows
        BY <4>1, <4>2, <4>3 DEF DoneFollows, FlowTypeOK, HasFlow
      <4>. QED  BY <2>1, <4>3, <4>4
    <3>. QED  BY <2>9, <3>1, <3>2 DEF Proceed
  <2>10. CASE FinishStart
    <3>1. PICK t \in TaskId : t = lock.flow
      BY <2>10, LockType DEF FinishStart
    <3>2. /\ flows' = [flows EXCEPT ![t].current = 1] \/ flows' = flows
          /\ UNCHANGED <<results, flows_file, outOfTurn>>
      BY <2>10, <3>1 DEF FinishStart
    <3>3. \A u \in TaskId : /\ flows'[u].status = flows[u].status
                            /\ flows'[u].failing = flows[u].failing
                            /\ flows'[u].mode = flows[u].mode
      BY <3>2 DEF FlowTypeOK, Flow
    <3>4. DoneFollows
      BY <3>2, <3>3 DEF DoneFollows, HasFlow
    <3>. QED  BY <2>1, <3>2, <3>4
  <2>11. CASE SaveFlows
    <3>1. flows_file' = flows /\ UNCHANGED <<flows, results, outOfTurn>>
      BY <2>11 DEF SaveFlows, told
    <3>. QED  BY <1>3, <3>1 DEF AllDone, AllRan, HasFlow
  <2>13. ASSUME NEW w \in Worker, PipelineRaises(w) \/ PipelineCaught(w) PROVE AllDone'
    BY <2>2, <2>13 DEF PipelineRaises, PipelineCaught, told
  <2>14. CASE FinishConclude
    BY <2>2, <2>14 DEF FinishConclude, told
  <2>15. ASSUME NEW t \in TaskId, CreateFlowTask(t) PROVE AllDone'
    BY <2>2, <2>15 DEF CreateFlowTask, told
  <2>16. ASSUME NEW k \in Token, ResumeFlow(k) PROVE AllDone'
    BY <2>2, <2>16 DEF ResumeFlow, told
  <2>17. CASE UNCHANGED flow_vars
    BY <2>2, <2>17 DEF flow_vars, told
  <2>18. CASE FlowCall
    BY <2>4, <2>5, <2>6, <2>7, <2>8, <2>9, <2>10, <2>11, <2>12, <2>13, <2>14, <2>15, <2>16, <2>18
    DEF FlowCall, Holder, StartFlow
  <2>. QED  BY <1>1, <1>2, <2>17, <2>18 DEF FlowNext, TokenLapses, all_vars
<1>. QED  BY <1>1, <1>2, <1>3, FlowCallsKeepTasks DEF TasksKept

\* A flow is COMPLETED only once every step has a result (_get_next_step), a sequential
\* one unless someone executed a step out of turn.  A flow in PARALLEL mode completes
\* after its first step, a DAG after a failure it does not
\* stop on or a crash that loses failed_steps, and maintenance and the API routes of
\* the task complete a flow or its task from outside: hence the hypotheses.
THEOREM CompletedFlowsRanEveryStep ==
    ASSUME Modes \subseteq {"sequential", "dag"}, Clients \subseteq {"pause", "cancel"},
           "dag" \in Modes => StopOnFailure /\ Faults = {} /\ Acyclic
    PROVE  FlowSpec => []CompletedFlowRanEveryStep
<1>1. FlowInit => FilesIndexed /\ AllDone
  <2>1. ASSUME FlowInit PROVE FilesIndexed
    BY <2>1 DEF FlowInit, Init, FilesIndexed, Untorn, IndexedBy, NoFile
  <2>2. ASSUME FlowInit PROVE AllDone
    BY <2>2 DEF FlowInit, Init, AllDone, NoFlow, HasFlow
  <2>. QED  BY <2>1, <2>2
<1>2. TypeOK /\ FlowTypeOK /\ FilesIndexed /\ [FlowNext]_all_vars => FilesIndexed'
  BY FlowStepsRegistry, FilesIndexedStep
<1>3. ASSUME TypeOK, FlowTypeOK, FlowsExist, StepsDone, FilesIndexed, AllDone, [FlowNext]_all_vars
      PROVE  AllDone'
  BY <1>3, AllDoneStep
<1>4. AllDone => CompletedFlowRanEveryStep
  BY DEF AllDone, AllRan, CompletedFlowRanEveryStep
<1>. QED  BY <1>1, <1>2, <1>3, <1>4, FlowsAlwaysExist, FlowTypes, PTL DEF FlowSpec
=============================================================================
