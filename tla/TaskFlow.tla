------------------------------ MODULE TaskFlow ------------------------------
(***************************************************************************)
(* Flows: multi-step executions layered over the task registry             *)
(* (modules/tasks/task_flow_registry.py), the adapters that drive them      *)
(* (modules/tasks/task_integration.py) and the maintenance pass that        *)
(* compares the two layers (modules/tasks/task_maintenance.py).             *)
(*                                                                          *)
(* A flow and its task share an identifier and each keep a status.  The     *)
(* flow registry has its own lock: a call holds it while it calls the task  *)
(* registry, and saves its own file last.  Resuming calls the task registry *)
(* before taking the lock; maintenance writes flows without taking it.      *)
(***************************************************************************)
EXTENDS TaskRegistry

CONSTANTS
    Worker,          \* threads that execute steps
    Idle,            \* a worker between two executions
    StepCount,       \* len(task.steps), the same for every flow
    StepDeps,        \* TaskStep.dependencies
    ApprovalSteps,   \* the steps of type APPROVAL
    Modes,           \* the values of flow.execution_mode in use
    StopOnFailure,   \* flow.stop_on_failure
    Drivers,         \* who executes steps: AutomationAdapter, PipelineAdapter
    Clients          \* who else is at work: see ClientKinds

Step == 1..StepCount

\* "pause" and "cancel" are calls on the flow; "direct" stands for the API routes
\* that act on the task behind the flow's back; "reconcile" for the one that calls
\* TaskMaintenance.startup_reconcile().
ClientKinds == {"pause", "cancel", "direct", "reconcile"}

ASSUME TaskFlowAssumption ==
    /\ Idle \notin [driver : {"automation", "pipeline"}, flow : TaskId, step : Step]
                   \cup [driver : {"raised"}, flow : TaskId]
    /\ StepCount \in Nat \ {0}
    /\ StepDeps \in [Step -> SUBSET Step]
    /\ ApprovalSteps \subseteq Step
    /\ Modes \subseteq {"sequential", "parallel", "dag"} /\ "sequential" \in Modes
    /\ StopOnFailure \in BOOLEAN
    /\ Drivers \subseteq {"automation", "pipeline"}
    /\ Clients \subseteq ClientKinds
    /\ Faults \subseteq {"crash", "cut"}

VARIABLES
    flows,       \* _flows
    flows_file,  \* active_flows.json
    results,     \* task.step_results, in the task and in its file alike
    creating,    \* tasks create_flow() has created and not wrapped yet
    lock,        \* the call that holds _lock between two of its steps
    resuming,    \* tasks a resume_flow() has resumed and not synchronised yet
    work,        \* the step each worker is executing
    maint,       \* how far the maintenance pass has come
    shown,       \* history variable: the values current_step_id has had in this
                 \* life of the process
    outOfTurn    \* history variable: flows of which someone executed a step that
                 \* current_step_id had not named

told      == <<shown, outOfTurn>>
flow_vars == <<flows, flows_file, results, creating, lock, resuming, work, maint, told>>
all_vars  == <<vars, flow_vars>>

-----------------------------------------------------------------------------
(* Data *)

FlowTerminal == {"completed", "failed", "cancelled"}
FlowStatus   == {"pending", "running", "paused", "awaiting_approval"} \cup FlowTerminal

\* "none": no such key.  current_step_id = None is step 0.  Of the three counters
\* only failed_steps > 0 decides anything: that is failing.
Flow == [status : FlowStatus \cup {"none"}, mode : Modes, failing : BOOLEAN,
         current : 0..StepCount]

NoFlow == [status |-> "none", mode |-> "sequential", failing |-> FALSE, current |-> 0]
NewFlow(mode) == [NoFlow EXCEPT !.status = "pending", !.mode = mode]

Outcome  == {"succeeded", "failed", "skipped"}
Job      == [driver : {"automation", "pipeline"}, flow : TaskId, step : Step]
                \cup [driver : {"raised"}, flow : TaskId]
Lock     == [phase : {"free", "saving"}]
                \cup [phase : {"starting", "completing", "failing"}, flow : TaskId]
Free     == [phase |-> "free"]
Saving   == [phase |-> "saving"]
Maint    == [phase : {"idle", "flows"}, todo : SUBSET TaskId,
             item : TaskId \cup {NoId}, seen : FlowStatus \cup {"none"}]
Resting  == [phase |-> "idle", todo |-> {}, item |-> NoId, seen |-> "none"]

HasFlow(t) == flows[t].status # "none"

\* The call that holds the lock is between two of its steps on t.
Midway(t) == lock.phase \notin {"free", "saving"} /\ lock.flow = t

\* Anyone may read current_step_id, without the lock.
Shows(t) == shown' = [shown EXCEPT ![t] = @ \cup {flows'[t].current}]

\* status_map of _reconcile_flows
FlowStatusOf(status) ==
    CASE status = "queued"  -> "pending"
      [] status = "waiting" -> "running"
      [] OTHER -> status

\* _get_next_step, with res the step results including the one just recorded;
\* 0 is None.  PARALLEL has no branch of its own.
Succeeding(t, res) == {s \in Step : res[t][s] \in {"succeeded", "skipped"}}

\* Mutant of Unblocked: the dependencies are not looked at.
NotRecorded(t, res) == {s \in Step : res[t][s] = "none"}

Unblocked(t, res) == {s \in Step : res[t][s] = "none" /\ StepDeps[s] \subseteq Succeeding(t, res)}

\* Mutants of GetNextStep: i + 1 <= len(steps); without the branch for DAG.
NextPastEnd(t, s, res) == IF flows[t].mode = "sequential" /\ s <= StepCount THEN s + 1 ELSE 0
NextInSequence(t, s, res) == IF flows[t].mode = "sequential" /\ s < StepCount THEN s + 1 ELSE 0

GetNextStep(t, s, res) ==
    CASE flows[t].mode = "sequential" -> IF s < StepCount THEN s + 1 ELSE 0
      [] flows[t].mode = "dag" /\ Unblocked(t, res) # {} ->
             CHOOSE n \in Unblocked(t, res) : \A u \in Unblocked(t, res) : n <= u
      [] OTHER -> 0

-----------------------------------------------------------------------------
(* Creation and start *)

\* create_flow: the task first, under the task registry's lock alone ...
CreateFlowTask(t) ==
    /\ Create(t)
    /\ creating' = creating \cup {t}
    /\ UNCHANGED <<flows, flows_file, results, lock, resuming, work, maint, told>>

\* ... then the flow.
CreateFlow(t) ==
    /\ t \in creating
    /\ lock = Free
    /\ \E mode \in Modes : flows' = [flows EXCEPT ![t] = NewFlow(mode)]
    /\ creating' = creating \ {t}
    /\ lock' = Saving
    /\ shown' = [shown EXCEPT ![t] = {0}]
    /\ UNCHANGED <<vars, flows_file, results, resuming, work, maint, outOfTurn>>

\* _save_flows, the last thing a call does before it lets go of the lock.
SaveFlows ==
    /\ lock = Saving
    /\ flows_file' = flows
    /\ lock' = Free
    /\ UNCHANGED <<vars, flows, results, creating, resuming, work, maint, told>>

CanStartFlow(t) == flows[t].status = "pending"

\* start_flow up to registry.queue(), whose answer it does not look at.
BeginStart(t) ==
    /\ lock = Free
    /\ CanStartFlow(t)
    /\ flows' = [flows EXCEPT ![t].status = "running"]
    /\ IF tasks[t].status = "pending" THEN Queue(t) ELSE UNCHANGED vars
    /\ lock' = [phase |-> "starting", flow |-> t]
    /\ UNCHANGED <<flows_file, results, creating, resuming, maint, told>>

StartFlow(t) == up /\ BeginStart(t) /\ UNCHANGED work

\* The rest of start_flow: registry.start(), its answer ignored too.
FinishStart ==
    /\ lock.phase = "starting"
    /\ LET t == lock.flow
       IN  /\ IF tasks[t].status \in {"queued", "waiting"} THEN Start(t) ELSE UNCHANGED vars
           /\ flows' = IF Known(t) THEN [flows EXCEPT ![t].current = 1] ELSE flows
           /\ Shows(t)
    /\ lock' = Saving
    /\ UNCHANGED <<flows_file, results, creating, resuming, work, maint, outOfTurn>>

-----------------------------------------------------------------------------
(* Steps *)

\* complete_step() never looks at the status of the flow or of the task.  It
\* saves the result with update_step(); a flow that is over then has its task
\* ended by a second call, before the lock is released.
CompleteStep(t, s, outcome) ==
    LET res     == [results EXCEPT ![t][s] = outcome]
        flow    == [flows[t] EXCEPT !.failing = @ \/ outcome = "failed"]
        next    == GetNextStep(t, s, res)
        stopped == outcome = "failed" /\ StopOnFailure
        final   == IF flow.failing /\ StopOnFailure THEN "failed" ELSE "completed"
    IN  /\ lock = Free
        /\ results' = res
        /\ UpdateStep(t)
        /\ \/ /\ stopped \/ next = 0
              /\ flows' = [flows EXCEPT ![t] = [flow EXCEPT !.status = final]]
              /\ lock' = [phase |-> IF stopped THEN "failing" ELSE "completing", flow |-> t]
           \/ /\ ~stopped /\ next # 0
              /\ flows' = [flows EXCEPT ![t] = [flow EXCEPT !.current = next]]
              /\ lock' = Saving
        /\ Shows(t)
        /\ UNCHANGED <<flows_file, creating, resuming, maint, outOfTurn>>

\* Mutant of Conclude: the task is left as it was.
ConcludeFlowOnly(t) == UpdateStep(t)

\* What complete_step() does to the task of a flow that is over: fail() if a
\* failure stops it, complete() otherwise, even of a flow it calls FAILED.
Conclude(t) == IF lock.phase = "failing" THEN Fail(t) ELSE Complete(t)

\* The rest of complete_step, of a flow that is over.
FinishConclude ==
    /\ lock.phase \in {"completing", "failing"}
    /\ IF Known(lock.flow) THEN Conclude(lock.flow) ELSE UNCHANGED vars
    /\ lock' = Saving
    /\ UNCHANGED <<flows, flows_file, results, creating, resuming, work, maint, told>>

\* Without a flow or a task complete_step() returns at once.
RecordStep(t, s, outcome) ==
    \/ HasFlow(t) /\ Known(t) /\ CompleteStep(t, s, outcome)
    \/ /\ ~(HasFlow(t) /\ Known(t))
       /\ UNCHANGED <<vars, flows, flows_file, results, creating, lock, resuming, maint, told>>

\* AutomationAdapter.execute_step: its caller names the step, any step of the
\* flow, and neither the status of the flow nor current_step_id is looked at.  The
\* handler runs outside the lock ...
PickStep(w, t, s) ==
    /\ "automation" \in Drivers
    /\ up
    /\ work[w] = Idle
    /\ lock = Free
    /\ HasFlow(t) /\ Known(t)
    /\ work' = [work EXCEPT ![w] = [driver |-> "automation", flow |-> t, step |-> s]]
    /\ outOfTurn' = IF s \in shown[t] THEN outOfTurn ELSE outOfTurn \cup {t}
    /\ UNCHANGED <<vars, flows, flows_file, results, creating, lock, resuming, maint, shown>>

\* ... and its result is recorded whatever has happened to the flow since.
FinishStep(w, outcome) ==
    /\ work[w] # Idle
    /\ work[w].driver = "automation"
    /\ outcome \in {"succeeded", "failed"}
    /\ RecordStep(work[w].flow, work[w].step, outcome)
    /\ work' = [work EXCEPT ![w] = Idle]

\* The bound on pipeline runs: each of those under way may need a token.
PipelineRuns   == {w \in Worker : work[w] # Idle /\ work[w].driver = "pipeline"}
TokensForRuns  == ApprovalSteps = {} \/ Cardinality(PipelineRuns) < Cardinality(Token \ issued)

\* PipelineAdapter.run_pipeline: start_flow(), its answer ignored, then every
\* step in turn, whatever complete_step() says comes next.  create_pipeline
\* makes sequential flows.
RunPipeline(w, t) ==
    /\ "pipeline" \in Drivers
    /\ up
    /\ work[w] = Idle
    /\ HasFlow(t)
    /\ flows[t].mode = "sequential"
    /\ TokensForRuns
    /\ work' = [work EXCEPT ![w] = [driver |-> "pipeline", flow |-> t, step |-> 1]]
    /\ \/ BeginStart(t)
       \/ /\ ~CanStartFlow(t)
          /\ lock = Free
          /\ UNCHANGED <<vars, flows, flows_file, results, creating, lock, resuming, maint, told>>

\* A failed step ends the run unless the step has continue_on_error.  A step
\* whose condition is false is skipped, an approval too.
PipelineStep(w, outcome) ==
    /\ work[w] # Idle
    /\ work[w].driver = "pipeline"
    /\ work[w].step \in ApprovalSteps => outcome = "skipped"
    /\ RecordStep(work[w].flow, work[w].step, outcome)
    /\ \E continue_on_error \in BOOLEAN :
          work' = [work EXCEPT ![w] =
                      IF (outcome = "failed" /\ ~continue_on_error) \/ work[w].step = StepCount
                      THEN Idle ELSE [work[w] EXCEPT !.step = @ + 1]]

\* The executor of a step raises, and so does run_pipeline.
PipelineRaises(w) ==
    /\ work[w] # Idle
    /\ work[w].driver = "pipeline"
    /\ work[w].step \notin ApprovalSteps
    /\ work' = [work EXCEPT ![w] = [driver |-> "raised", flow |-> work[w].flow]]
    /\ UNCHANGED <<vars, flows, flows_file, results, creating, lock, resuming, maint, told>>

\* Its caller has the exception.
PipelineCaught(w) ==
    /\ work[w] # Idle
    /\ work[w].driver = "raised"
    /\ work' = [work EXCEPT ![w] = Idle]
    /\ UNCHANGED <<vars, flows, flows_file, results, creating, lock, resuming, maint, told>>

\* An approval step: await_approval(), and run_pipeline returns.
PipelineApproval(w, k) ==
    /\ work[w] # Idle
    /\ work[w].driver = "pipeline"
    /\ work[w].step \in ApprovalSteps
    /\ lock = Free
    /\ LET t == work[w].flow
       IN  /\ HasFlow(t)
           /\ flows' = [flows EXCEPT ![t].status = "awaiting_approval",
                                     ![t].current = work[w].step]
           /\ IF Known(t) THEN AwaitApproval(t, k) ELSE UNCHANGED vars
           /\ Shows(t)
    /\ work' = [work EXCEPT ![w] = Idle]
    /\ lock' = Saving
    /\ UNCHANGED <<flows_file, results, creating, resuming, maint, outOfTurn>>

-----------------------------------------------------------------------------
(* Pause, resume, cancel *)

CanPauseTask(t) == tasks[t].status \in {"running", "waiting"}

\* pause_flow: the flow is marked before the task registry is asked, and takes
\* the step its caller names: the current_step_id it has read some time before
\* (pause_task), or none.
PauseFlow(t, s) ==
    /\ up
    /\ lock = Free
    /\ HasFlow(t)
    /\ s \in shown[t]
    /\ flows' = [flows EXCEPT ![t].status = "paused", ![t].current = s]
    /\ IF CanPauseTask(t) THEN \E k \in Token : Pause(t, k) ELSE UNCHANGED vars
    /\ lock' = Saving
    /\ UNCHANGED <<flows_file, results, creating, resuming, work, maint, told>>

CanCancelTask(t) == Known(t) /\ ~Terminal(tasks[t])

\* Mutant of CancelFlow: the task registry is not called.
CancelFlowOnly(t) ==
    /\ up
    /\ lock = Free
    /\ HasFlow(t)
    /\ flows' = [flows EXCEPT ![t].status = "cancelled"]
    /\ UNCHANGED vars
    /\ lock' = Saving
    /\ UNCHANGED <<flows_file, results, creating, resuming, work, maint, told>>

CancelFlow(t) ==
    /\ up
    /\ lock = Free
    /\ HasFlow(t)
    /\ flows' = [flows EXCEPT ![t].status = "cancelled"]
    /\ IF CanCancelTask(t) THEN Cancel(t) ELSE UNCHANGED vars
    /\ lock' = Saving
    /\ UNCHANGED <<flows_file, results, creating, resuming, work, maint, told>>

\* resume_flow up to registry.resume(), called without the flow lock.  An
\* expired token makes resume() answer None: the flow is not looked at.
ResumeFlow(k) ==
    /\ \/ ResumeExpired(k) /\ UNCHANGED resuming
       \/ (ResumeDenied(k) \/ ResumeApproved(k)) /\ resuming' = resuming \cup {Target(k)}
    /\ UNCHANGED <<flows, flows_file, results, creating, lock, work, maint, told>>

\* Mutant of SyncStatus: the status resume() left is kept, not read again.
SyncRunning(t) == "running"

\* The status the flow takes: the task's, as it is now, if it is one of two.
SyncStatus(t) ==
    IF tasks[t].status \in {"running", "cancelled"} THEN tasks[t].status ELSE flows[t].status

\* The rest of resume_flow.
SyncFlow(t) ==
    /\ t \in resuming
    /\ lock = Free
    /\ resuming' = resuming \ {t}
    /\ IF HasFlow(t)
       THEN flows' = [flows EXCEPT ![t].status = SyncStatus(t)] /\ lock' = Saving
       ELSE UNCHANGED <<flows, lock>>
    /\ UNCHANGED <<vars, flows_file, results, creating, work, maint, told>>

-----------------------------------------------------------------------------
(* TaskMaintenance *)

FlowIds == {t \in TaskId : HasFlow(t)}

\* startup_reconcile: registry.reconcile(), then the flows one by one.
StartupReconcile ==
    /\ maint.phase = "idle"
    /\ \E order \in [1..Cardinality(ReconcileExpired) -> ReconcileExpired] : Reconcile(order)
    /\ maint' = [Resting EXCEPT !.phase = "flows", !.todo = FlowIds]
    /\ UNCHANGED <<flows, flows_file, results, creating, lock, resuming, work, told>>

\* _reconcile_flows: reads the status of a task and, later, gives it to the
\* flow, without the lock and without a save.
ReadStatus(t) ==
    /\ maint.phase = "flows" /\ maint.item = NoId /\ t \in maint.todo
    /\ maint' = IF Known(t)
                THEN [maint EXCEPT !.todo = @ \ {t}, !.item = t,
                                   !.seen = FlowStatusOf(tasks[t].status)]
                ELSE [maint EXCEPT !.todo = @ \ {t}]
    /\ UNCHANGED <<vars, flows, flows_file, results, creating, lock, resuming, work, told>>

WriteStatus ==
    /\ maint.phase = "flows" /\ maint.item # NoId
    /\ flows' = [flows EXCEPT ![maint.item].status = maint.seen]
    /\ maint' = [maint EXCEPT !.item = NoId, !.seen = "none"]
    /\ UNCHANGED <<vars, flows_file, results, creating, lock, resuming, work, told>>

EndMaintenance ==
    /\ maint.phase = "flows" /\ maint.item = NoId /\ maint.todo = {}
    /\ maint' = Resting
    /\ UNCHANGED <<vars, flows, flows_file, results, creating, lock, resuming, work, told>>

-----------------------------------------------------------------------------
(* The task's own API routes, the clock and the process *)

DirectCall ==
    \/ \E t \in TaskId : Queue(t) \/ Start(t) \/ Complete(t) \/ Fail(t) \/ Cancel(t)
    \/ \E t \in TaskId, k \in Token : Pause(t, k)
    \/ \E k \in Token : ResumeExpired(k) \/ ResumeDenied(k) \/ ResumeApproved(k)

TokenLapses == \E k \in Token : Lapse(k) /\ UNCHANGED flow_vars

\* The memory of both registries is gone, and every call with it.
Wiped ==
    /\ flows' = [t \in TaskId |-> NoFlow]
    /\ creating' = {}
    /\ lock' = Free
    /\ resuming' = {}
    /\ work' = [w \in Worker |-> Idle]
    /\ maint' = Resting
    /\ shown' = [t \in TaskId |-> {0}]
    /\ UNCHANGED <<flows_file, results, outOfTurn>>

\* Between two calls of the task registry ...
ProcessDies == Crash /\ Wiped

\* The calls of the task registry that write more than one file and may be under
\* way, whoever makes them.
SeveralWrites ==
    \/ lock.phase \in {"completing", "failing"} /\ Conclude(lock.flow)
    \/ /\ lock = Free
       /\ \/ \E w \in Worker, k \in Token :
                 /\ work[w] # Idle /\ work[w].driver = "pipeline"
                 /\ work[w].step \in ApprovalSteps
                 /\ AwaitApproval(work[w].flow, k)
          \/ \E t \in FlowIds :
                 \/ "pause" \in Clients /\ \E k \in Token : Pause(t, k)
                 \/ "cancel" \in Clients /\ Cancel(t)
    \/ \E k \in Token : ResumeExpired(k) \/ ResumeDenied(k) \/ ResumeApproved(k)
    \/ /\ "reconcile" \in Clients /\ maint.phase = "idle"
       /\ \E order \in [1..Cardinality(ReconcileExpired) -> ReconcileExpired] : Reconcile(order)
    \/ "direct" \in Clients /\ DirectCall

\* ... or between two writes of one.
CallDies == "cut" \in Faults /\ SeveralWrites /\ ~up' /\ Wiped

\* Both registries are built again from their files; _load_flows.
ProcessStarts ==
    /\ Restart
    /\ flows' = flows_file
    /\ shown' = [t \in TaskId |-> {0, flows_file[t].current}]
    /\ UNCHANGED <<flows_file, results, creating, lock, resuming, work, maint, outOfTurn>>

-----------------------------------------------------------------------------
FlowInit ==
    /\ Init
    /\ flows = [t \in TaskId |-> NoFlow]
    /\ flows_file = [t \in TaskId |-> NoFlow]
    /\ results = [t \in TaskId |-> [s \in Step |-> "none"]]
    /\ creating = {}
    /\ lock = Free
    /\ resuming = {}
    /\ work = [w \in Worker |-> Idle]
    /\ maint = Resting
    /\ shown = [t \in TaskId |-> {0}]
    /\ outOfTurn = {}

Maintenance ==
    \/ StartupReconcile
    \/ \E t \in TaskId : ReadStatus(t)
    \/ WriteStatus
    \/ EndMaintenance

\* One worker going on with what it has begun.
Proceed(w) ==
    \/ \E outcome \in Outcome : FinishStep(w, outcome) \/ PipelineStep(w, outcome)
    \/ \E k \in Token : PipelineApproval(w, k)

\* A call that holds the lock between two of its steps going on.
Holder == FinishStart \/ FinishConclude \/ SaveFlows

\* What the living process does.
FlowCall ==
    \/ \E t \in TaskId : \/ CreateFlowTask(t) \/ CreateFlow(t) \/ SyncFlow(t)
                         \/ "automation" \in Drivers /\ StartFlow(t)
                         \/ "pause" \in Clients /\ \E s \in 0..StepCount : PauseFlow(t, s)
                         \/ "cancel" \in Clients /\ CancelFlow(t)
    \/ \E w \in Worker, t \in TaskId : RunPipeline(w, t) \/ \E s \in Step : PickStep(w, t, s)
    \/ \E w \in Worker : Proceed(w) \/ PipelineRaises(w) \/ PipelineCaught(w)
    \/ Holder
    \/ \E k \in Token : ResumeFlow(k)
    \/ "reconcile" \in Clients /\ Maintenance
    \/ "direct" \in Clients /\ DirectCall /\ UNCHANGED flow_vars

FlowNext ==
    \/ FlowCall /\ up'
    \/ TokenLapses
    \/ CallDies
    \/ ProcessDies
    \/ ProcessStarts

FlowSpec == FlowInit /\ [][FlowNext]_all_vars

\* A call that holds the lock goes on, a worker that waits for it gets it, however
\* often others are served before, and the executor of a step returns.  Nothing
\* obliges a caller to make a call.
FlowFairSpec ==
    /\ FlowSpec
    /\ WF_all_vars(Holder)
    /\ \A w \in Worker : SF_all_vars(Proceed(w))

-----------------------------------------------------------------------------
(* Properties *)

\* No start_flow(), complete_step() or resume_flow() is in the middle of changing t.
Settled(t) == t \notin resuming /\ ~Midway(t)

\* Between calls a flow shown as RUNNING has a task that runs, although start_flow
\* ignores what the task registry answers and resume_flow takes the lock only
\* after the task was resumed.
RunningFlowHasRunningTask ==
    \A t \in TaskId : Settled(t) /\ flows[t].status = "running" => tasks[t].status = "running"

\* Between calls a finished flow has a finished task: cancel_flow and complete_step
\* take both layers to the end.
FinishedFlowHasFinishedTask ==
    \A t \in TaskId : Settled(t) /\ flows[t].status \in FlowTerminal => Terminal(tasks[t])

\* What active_flows.json calls completed or failed, active_tasks.json calls
\* finished too: the flow is saved after the task, whenever the process dies,
\* between two calls of the task registry or inside one.
FlowFileNeverAhead ==
    \A t \in TaskId : flows_file[t].status \in {"completed", "failed"} =>
        disk.active[t].status \in TerminalStatus \cup {"gone"}

\* A flow is COMPLETED only once every step has a result (_get_next_step), a
\* sequential one unless someone executed a step current_step_id had never named:
\* execute_step does not ask, and after the last step the flow is over.
CompletedFlowRanEveryStep ==
    \A t \in TaskId : flows[t].status = "completed" =>
        (flows[t].mode # "dag" /\ t \in outOfTurn) \/ \A s \in Step : results[t][s] # "none"

\* The steps that come before s in flow t.
Before(t, s) == IF flows[t].mode = "dag" THEN StepDeps[s] ELSE {s - 1} \cap Step

\* A step has a result only if the steps before it have one, as long as callers
\* execute the steps current_step_id has named, now or at any time before, and
\* however often they do (_get_next_step, run_pipeline).
StepsInOrder ==
    \A t \in TaskId : HasFlow(t) /\ t \notin outOfTurn =>
        \A s \in Step : results[t][s] # "none" =>
            \A d \in Before(t, s) : results[t][d] # "none"

\* A flow a pipeline run has taken up does not stay RUNNING: the run takes it to
\* an end or to an approval, unless the executor of a step raises (run_pipeline,
\* complete_step).
PipelineRunEnds ==
    \A t \in TaskId, w \in Worker :
        (work[w] # Idle /\ work[w].driver = "pipeline" /\ work[w].flow = t)
            ~> \/ flows[t].status # "running"
               \/ work[w] # Idle /\ work[w].driver = "raised" /\ work[w].flow = t
=============================================================================
