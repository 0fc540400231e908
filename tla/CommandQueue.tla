---------------------------- MODULE CommandQueue ----------------------------
(***************************************************************************)
(* The gateway's in-process command queue (src/process/command-queue.ts)    *)
(* and what is queued on it: agent runs, which wait in the lane of their    *)
(* session and then in a global lane, and manual cron runs, which hold a    *)
(* slot of the cron lane while their agent run goes through both.           *)
(*                                                                          *)
(* The program has one thread.  Draining a lane (the loop "pump") runs to   *)
(* its end inside the call that asked for it, and so do the calls it leads  *)
(* to: toDrain holds the lanes that such a call still has to drain, one     *)
(* step per command started, and no other call begins until it is empty.    *)
(* Between calls a lane's flag "draining" is therefore always off, and is   *)
(* left out.  A command is enqueued at most once, so it serves as its own   *)
(* task identifier.                                                         *)
(*                                                                          *)
(* Abstracted: what a task does, warnings about long waits, and time.       *)
(***************************************************************************)
EXTENDS Naturals, Sequences, FiniteSets

CONSTANTS
    Sessions,      \* the lanes of the sessions, "session:<key>"
    Runs,          \* agent runs, each asked for once
    CronRuns,      \* those started by a manual run of a cron job
    Session,       \* the session lane of each run
    Lane,          \* the lane each run asks for
    Limits         \* bound: the limits a configuration gives to a lane

GlobalLanes == {"main", "cron", "nested", "subagent"}
Lanes       == GlobalLanes \cup Sessions

ASSUME CommandQueueAssumption ==
    /\ Sessions \cap GlobalLanes = {}
    /\ CronRuns \subseteq Runs
    /\ Session \in [Runs -> Sessions]
    /\ Lane \in [Runs -> {"main", "cron", "subagent"}]
    /\ Limits \subseteq Nat

VARIABLES
    lanes,            \* queueState.lanes
    gatewayDraining,  \* queueState.gatewayDraining
    waiter,           \* the only member activeTaskWaiters ever has, or had last
    toDrain,          \* lanes the call in progress has still to drain
    promise,          \* what enqueueCommandInLane returned, for each command
    executing,        \* commands whose task has started and not ended
    startedIn         \* taskGeneration: the generation of its lane each of them started in

queueVars == <<lanes, gatewayDraining, waiter, toDrain, promise, executing, startedIn>>

-----------------------------------------------------------------------------
(* Commands *)

\* A run is up to three commands, each the body of the one before it.
Commands == {<<"cron", r>> : r \in CronRuns}
              \cup {<<"session", r>> : r \in Runs}
              \cup {<<"global", r>> : r \in Runs}

ResolveNestedAgentLane(lane) == IF lane = "cron" THEN "nested" ELSE lane
ResolveGlobalLane(lane)      == IF lane = "cron" THEN "nested" ELSE lane

\* A cron job hands its run the nested lane before the run resolves it again.
RequestedLane(r) == IF r \in CronRuns THEN ResolveNestedAgentLane(Lane[r]) ELSE Lane[r]

\* Mutant of LaneOf: the run of a cron job takes the lane it was asked for in.
LaneOfRequest(c) == CASE c[1] = "cron"    -> "cron"
                      [] c[1] = "session" -> Session[c[2]]
                      [] c[1] = "global"  -> Lane[c[2]]

LaneOf(c) == CASE c[1] = "cron"    -> "cron"
               [] c[1] = "session" -> Session[c[2]]
               [] c[1] = "global"  -> ResolveGlobalLane(RequestedLane(c[2]))

\* The first command of a run, and the command a task enqueues and awaits.
Outermost(r) == IF r \in CronRuns THEN <<"cron", r>> ELSE <<"session", r>>
Inner(c)     == IF c[1] = "cron" THEN <<"session", c[2]>> ELSE <<"global", c[2]>>

\* Resolved or rejected: the queue treats both alike.
PromiseState == {"none", "pending", "settled"}

LaneState == [queue : Seq(Commands), active : SUBSET Commands,
              maxConcurrent : Nat \ {0}, generation : Nat]

Waiter == [tasks : SUBSET Commands, result : {"none", "waiting", "drained", "timeout"}]

-----------------------------------------------------------------------------
(* State *)

QueueInit ==
    /\ lanes = [l \in Lanes |-> [queue |-> <<>>, active |-> {},
                                 maxConcurrent |-> 1, generation |-> 0]]
    /\ gatewayDraining = FALSE
    /\ waiter = [tasks |-> {}, result |-> "none"]
    /\ toDrain = {}
    /\ promise = [c \in Commands |-> "none"]
    /\ executing = {}
    /\ startedIn = [c \in Commands |-> 0]

\* The thread is between two calls.
Between == toDrain = {}

ActiveTasks == UNION {lanes[l].active : l \in Lanes}

\* Mutant of HasRoom: one command too many.
HasRoomForOneMore(l) == Cardinality(lanes[l].active) <= lanes[l].maxConcurrent

HasRoom(l) == Cardinality(lanes[l].active) < lanes[l].maxConcurrent

\* A command of generation g of its lane has ended: stale completions are ignored.
CompleteTask(c) ==
    LET lane == LaneOf(c)
    IN  IF startedIn[c] = lanes[lane].generation
        THEN [lanes EXCEPT ![lane].active = @ \ {c}]
        ELSE lanes

\* Mutant of NotifyActiveTaskWaiters: one lane without such a task is enough.
NotifyOnOneLane(ls) ==
    IF waiter.result = "waiting" /\ \E l \in Lanes : waiter.tasks \cap ls[l].active = {}
    THEN [waiter EXCEPT !.result = "drained"]
    ELSE waiter

NotifyActiveTaskWaiters(ls) ==
    IF waiter.result = "waiting" /\ \A l \in Lanes : waiter.tasks \cap ls[l].active = {}
    THEN [waiter EXCEPT !.result = "drained"]
    ELSE waiter

-----------------------------------------------------------------------------
(* Draining a lane *)

\* The loop of pump starts the next command.  The task of a session's command
\* enqueues the run in its global lane at once, or fails to.
StartNext(l) ==
    LET c     == Head(lanes[l].queue)
        inner == Inner(c)
        taken == [lanes EXCEPT ![l].queue = Tail(@), ![l].active = @ \cup {c}]
    IN  /\ l \in toDrain
        /\ lanes[l].queue # <<>>
        /\ HasRoom(l)
        /\ executing' = executing \cup {c}
        /\ startedIn' = [startedIn EXCEPT ![c] = lanes[l].generation]
        /\ IF c[1] # "session"
           THEN /\ lanes' = taken
                /\ UNCHANGED <<toDrain, promise>>
           ELSE IF gatewayDraining
           THEN /\ lanes' = taken
                /\ promise' = [promise EXCEPT ![inner] = "settled"]
                /\ UNCHANGED toDrain
           ELSE /\ lanes' = [taken EXCEPT ![LaneOf(inner)].queue = Append(@, inner)]
                /\ promise' = [promise EXCEPT ![inner] = "pending"]
                /\ toDrain' = toDrain \cup {LaneOf(inner)}
        /\ UNCHANGED <<gatewayDraining, waiter>>

\* The loop of pump is over.
Drained(l) ==
    /\ l \in toDrain
    /\ lanes[l].queue = <<>> \/ ~HasRoom(l)
    /\ toDrain' = toDrain \ {l}
    /\ UNCHANGED <<lanes, gatewayDraining, waiter, promise, executing, startedIn>>

DrainLane(l) == StartNext(l) \/ Drained(l)

-----------------------------------------------------------------------------
(* Operations *)

\* Asked for from outside, or by the task of a cron job.
MayBeEnqueued(c) ==
    /\ promise[c] = "none"
    /\ \/ c = Outermost(c[2])
       \/ c[1] = "session" /\ <<"cron", c[2]>> \in executing

EnqueueCommandInLane(c) ==
    /\ Between
    /\ MayBeEnqueued(c)
    /\ IF gatewayDraining
       THEN /\ promise' = [promise EXCEPT ![c] = "settled"]
            /\ UNCHANGED <<lanes, toDrain>>
       ELSE /\ promise' = [promise EXCEPT ![c] = "pending"]
            /\ lanes' = [lanes EXCEPT ![LaneOf(c)].queue = Append(@, c)]
            /\ toDrain' = {LaneOf(c)}
    /\ UNCHANGED <<gatewayDraining, waiter, executing, startedIn>>

\* Mutant of MayEnd: a session's command does not await the run it enqueued.
MayEndAtOnce(c) == c[1] # "cron" \/ promise[Inner(c)] # "pending"

\* A session's command and a cron job end after the command they await; a
\* cron job may also end without having asked for its run.
MayEnd(c) ==
    CASE c[1] = "session" -> promise[Inner(c)] = "settled"
      [] c[1] = "cron"    -> promise[Inner(c)] # "pending"
      [] c[1] = "global"  -> TRUE

\* Mutant of TaskEnds: nobody is told that a task has ended.
TaskEndsUnnoticed(c) ==
    /\ Between
    /\ c \in executing
    /\ MayEnd(c)
    /\ executing' = executing \ {c}
    /\ startedIn' = [startedIn EXCEPT ![c] = 0]
    /\ lanes' = CompleteTask(c)
    /\ promise' = [promise EXCEPT ![c] = "settled"]
    /\ toDrain' = IF startedIn[c] = lanes[LaneOf(c)].generation THEN {LaneOf(c)} ELSE toDrain
    /\ UNCHANGED <<gatewayDraining, waiter>>

TaskEnds(c) ==
    /\ Between
    /\ c \in executing
    /\ MayEnd(c)
    /\ executing' = executing \ {c}
    /\ startedIn' = [startedIn EXCEPT ![c] = 0]
    /\ lanes' = CompleteTask(c)
    /\ promise' = [promise EXCEPT ![c] = "settled"]
    /\ IF startedIn[c] = lanes[LaneOf(c)].generation
       THEN /\ waiter' = NotifyActiveTaskWaiters(lanes')
            /\ toDrain' = {LaneOf(c)}
       ELSE UNCHANGED <<waiter, toDrain>>
    /\ UNCHANGED gatewayDraining

\* Mutant of SetCommandLaneConcurrency: a limit of none is taken as it is.
SetConcurrencyUnchecked(l, n) ==
    /\ Between
    /\ lanes' = [lanes EXCEPT ![l].maxConcurrent = n]
    /\ toDrain' = {l}
    /\ UNCHANGED <<gatewayDraining, waiter, promise, executing, startedIn>>

SetCommandLaneConcurrency(l, n) ==
    /\ Between
    /\ lanes' = [lanes EXCEPT ![l].maxConcurrent = IF n > 1 THEN n ELSE 1]
    /\ toDrain' = {l}
    /\ UNCHANGED <<gatewayDraining, waiter, promise, executing, startedIn>>

\* A message that interrupts, /stop, and a reset empty the lane of a session.
ClearCommandLane(l) ==
    LET pending == {c \in Commands : \E i \in DOMAIN lanes[l].queue : lanes[l].queue[i] = c}
    IN  /\ Between
        /\ lanes' = [lanes EXCEPT ![l].queue = <<>>]
        /\ promise' = [c \in Commands |-> IF c \in pending THEN "settled" ELSE promise[c]]
        /\ UNCHANGED <<gatewayDraining, waiter, toDrain, executing, startedIn>>

\* For a restart: refuse new commands and wait for the tasks now active.
MarkGatewayDrainingAndWait ==
    /\ Between
    /\ gatewayDraining' = TRUE
    /\ waiter' = [tasks |-> ActiveTasks,
                  result |-> IF ActiveTasks = {} THEN "drained" ELSE "waiting"]
    /\ UNCHANGED <<lanes, toDrain, promise, executing, startedIn>>

\* The waiter is resolved and forgotten.
WaitTimesOut ==
    /\ Between
    /\ waiter.result = "waiting"
    /\ waiter' = [tasks |-> {}, result |-> "timeout"]
    /\ UNCHANGED <<lanes, gatewayDraining, toDrain, promise, executing, startedIn>>

\* Mutants of ResetAllLanes: the lanes are left for a later call to drain;
ResetUndrained ==
    /\ Between
    /\ gatewayDraining' = FALSE
    /\ lanes' = [l \in Lanes |-> [lanes[l] EXCEPT !.active = {}, !.generation = @ + 1]]
    /\ waiter' = NotifyActiveTaskWaiters(lanes')
    /\ UNCHANGED <<toDrain, promise, executing, startedIn>>

\* commands are still refused.
ResetRefusing ==
    /\ Between
    /\ lanes' = [l \in Lanes |-> [lanes[l] EXCEPT !.active = {}, !.generation = @ + 1]]
    /\ toDrain' = {l \in Lanes : lanes[l].queue # <<>>}
    /\ waiter' = NotifyActiveTaskWaiters(lanes')
    /\ UNCHANGED <<gatewayDraining, promise, executing, startedIn>>

ResetAllLanes ==
    /\ Between
    /\ gatewayDraining' = FALSE
    /\ lanes' = [l \in Lanes |-> [lanes[l] EXCEPT !.active = {}, !.generation = @ + 1]]
    /\ toDrain' = {l \in Lanes : lanes[l].queue # <<>>}
    /\ waiter' = NotifyActiveTaskWaiters(lanes')
    /\ UNCHANGED <<promise, executing, startedIn>>

\* The agent runs in some set never go on: what they waited for is gone.
TasksHang(tasks) ==
    /\ Between
    /\ executing' = executing \ tasks
    /\ UNCHANGED <<lanes, gatewayDraining, waiter, toDrain, promise, startedIn>>
=============================================================================
