---------------------------- MODULE GatewayLoop -----------------------------
(***************************************************************************)
(* The gateway's run loop (src/cli/gateway-cli/run-loop.ts) over the        *)
(* command queue: starting the server, and the signals that stop the        *)
(* process or restart it, in place or as a new process.                     *)
(*                                                                          *)
(* A request to stop or restart runs beside the loop: both await, and       *)
(* either may go on while the other waits.  The first pass of the   *)
(* loop does not reset the queue; a lane's generation counts the others.    *)
(*                                                                          *)
(* Abstracted: embedded runs that are not on the queue, who may send        *)
(* SIGUSR1, and which of the ways to start a new process is taken.          *)
(***************************************************************************)
EXTENDS CommandQueue

CONSTANTS
    MaxChanges     \* bound: restart requests and limits set, together

ASSUME GatewayLoopAssumption == MaxChanges \in Nat

VARIABLES
    loop,        \* awaiting params.start ("starting") or the next restart ("parked")
    resolver,    \* restartResolver: "none", "armed", or "stale" once called
    request,     \* where the request in progress is; shuttingDown unless "none"
    server,      \* a server runs and the loop has it
    lock,        \* the gateway lock is held
    hadLock,     \* what releaseLockIfHeld answered the request in progress
    started,     \* ~isFirstStart
    failedStart, \* history: a later start has failed
    unwoken,     \* history: a restart that left tasks hanging did not wake the loop
    changes,     \* restart requests accepted and limits set
    exited       \* the process is gone

loopVars == <<loop, resolver, request, server, lock, hadLock, started,
              failedStart, unwoken, changes, exited>>
vars     == <<queueVars, loopVars>>

NoRequest == [kind |-> "none", at |-> "idle"]
Request   == [kind : {"restart", "stop"}, at : {"draining", "closing", "locking"}]
               \cup {NoRequest}

Init ==
    /\ QueueInit
    /\ loop = "starting"
    /\ resolver = "none"
    /\ request = NoRequest
    /\ server = FALSE
    /\ lock = TRUE
    /\ hadLock = FALSE
    /\ started = FALSE
    /\ failedStart = FALSE
    /\ unwoken = FALSE
    /\ changes = 0
    /\ exited = FALSE

-----------------------------------------------------------------------------
(* The loop *)

Up == ~exited /\ Between

StartSucceeds ==
    /\ Up
    /\ loop = "starting"
    /\ server' = TRUE
    /\ started' = TRUE
    /\ loop' = "parked"
    /\ resolver' = "armed"
    /\ UNCHANGED <<queueVars, request, lock, hadLock, failedStart, unwoken, changes, exited>>

\* Fatal the first time; later the process stays, without the lock.
StartFails ==
    /\ Up
    /\ loop = "starting"
    /\ server' = FALSE
    /\ lock' = FALSE
    /\ IF started
       THEN /\ loop' = "parked"
            /\ resolver' = "armed"
            /\ failedStart' = TRUE
            /\ UNCHANGED exited
       ELSE /\ exited' = TRUE
            /\ UNCHANGED <<loop, resolver, failedStart>>
    /\ UNCHANGED <<queueVars, request, hadLock, started, unwoken, changes>>

-----------------------------------------------------------------------------
(* Requests *)

\* A signal during a request is ignored.
RequestRestart ==
    /\ Up
    /\ changes < MaxChanges
    /\ request = NoRequest
    /\ request' = [kind |-> "restart", at |-> "draining"]
    /\ changes' = changes + 1
    /\ MarkGatewayDrainingAndWait
    /\ UNCHANGED <<loop, resolver, server, lock, hadLock, started, failedStart,
                   unwoken, exited>>

RequestStop ==
    /\ Up
    /\ request = NoRequest
    /\ request' = [kind |-> "stop", at |-> "closing"]
    /\ UNCHANGED <<queueVars, loop, resolver, server, lock, hadLock, started,
                   failedStart, unwoken, changes, exited>>

\* The tasks are done, or the ninety seconds are over.
DrainEnds ==
    /\ Up
    /\ request.at = "draining"
    /\ waiter.result # "waiting"
    /\ request' = [request EXCEPT !.at = "closing"]
    /\ UNCHANGED <<queueVars, loop, resolver, server, lock, hadLock, started,
                   failedStart, unwoken, changes, exited>>

DrainTimesOut ==
    /\ Up
    /\ request.at = "draining"
    /\ WaitTimesOut
    /\ UNCHANGED loopVars

\* server?.close(), then the lock is released.  A server that closes takes
\* with it what agent runs were waiting for: some of them never end.
Close ==
    /\ Up
    /\ request.at = "closing"
    /\ \E tasks \in SUBSET {c \in executing : c[1] = "global"} :
          /\ ~server => tasks = {}
          /\ TasksHang(tasks)
    /\ server' = FALSE
    /\ lock' = FALSE
    /\ hadLock' = lock
    /\ request' = [request EXCEPT !.at = "locking"]
    /\ UNCHANGED <<loop, resolver, started, failedStart, unwoken, changes, exited>>

ForceExit ==
    /\ Up
    /\ request.at = "closing"
    /\ exited' = TRUE
    /\ UNCHANGED <<queueVars, loop, resolver, request, server, lock, hadLock,
                   started, failedStart, unwoken, changes>>

\* A stop, a new process started in place of this one, or no lock to be had.
Exit ==
    /\ Up
    /\ request.at = "locking"
    /\ exited' = TRUE
    /\ UNCHANGED <<queueVars, loop, resolver, request, server, lock, hadLock,
                   started, failedStart, unwoken, changes>>

\* Mutant of RestartInProcess: the lock is not taken again.
RestartUnlocked ==
    /\ Up
    /\ request = [kind |-> "restart", at |-> "locking"]
    /\ request' = NoRequest
    /\ IF resolver = "armed"
       THEN loop' = "starting" /\ resolver' = "stale" /\ ResetAllLanes
       ELSE UNCHANGED <<loop, resolver, queueVars>>
    /\ UNCHANGED <<server, lock, hadLock, started, failedStart, unwoken, changes, exited>>

\* The lock is taken again if it was held; then restartResolver?.() wakes the
\* loop if it is parked, and its next pass begins with resetAllLanes.  A loop
\* that is starting is not woken: the call is lost.
RestartInProcess ==
    /\ Up
    /\ request = [kind |-> "restart", at |-> "locking"]
    /\ request' = NoRequest
    /\ lock' = (lock \/ hadLock)
    /\ IF resolver = "armed"
       THEN /\ loop' = "starting"
            /\ resolver' = "stale"
            /\ ResetAllLanes
       ELSE UNCHANGED <<loop, resolver, queueVars>>
    /\ unwoken' = (unwoken \/ (resolver # "armed" /\ ActiveTasks \ executing # {}))
    /\ UNCHANGED <<server, hadLock, started, failedStart, changes, exited>>

-----------------------------------------------------------------------------
(* Everything else the thread does *)

Enqueue(c) == Up /\ EnqueueCommandInLane(c) /\ UNCHANGED loopVars
EndTask(c) == Up /\ TaskEnds(c) /\ UNCHANGED loopVars
Clear(l)   == Up /\ ClearCommandLane(l) /\ UNCHANGED loopVars
Drain(l)   == ~exited /\ DrainLane(l) /\ UNCHANGED loopVars

\* At a start and when the configuration is read again.
Configure(l, n) ==
    /\ Up
    /\ loop = "starting" \/ server
    /\ lanes[l].maxConcurrent # n
    /\ changes < MaxChanges
    /\ changes' = changes + 1
    /\ SetCommandLaneConcurrency(l, n)
    /\ UNCHANGED <<loop, resolver, request, server, lock, hadLock, started,
                   failedStart, unwoken, exited>>

Configured == {"main", "cron", "subagent"}

Next ==
    \/ StartSucceeds \/ StartFails
    \/ RequestRestart \/ RequestStop
    \/ DrainEnds \/ DrainTimesOut \/ Close \/ ForceExit \/ Exit \/ RestartInProcess
    \/ \E c \in Commands : Enqueue(c) \/ EndTask(c)
    \/ \E l \in Sessions : Clear(l)
    \/ \E l \in Lanes : Drain(l)
    \/ \E l \in Configured, n \in Limits : Configure(l, n)

Spec == Init /\ [][Next]_vars

\* Starting, closing and locking end; so does waiting, after ninety seconds;
\* an agent run that does not hang ends, if only by its own timeout.
Fairness ==
    /\ WF_vars(StartSucceeds \/ StartFails)
    /\ WF_vars(DrainEnds \/ DrainTimesOut)
    /\ WF_vars(Close \/ ForceExit)
    /\ WF_vars(RestartInProcess \/ Exit)
    /\ \A l \in Lanes : WF_vars(Drain(l))
    /\ \A c \in Commands : WF_vars(EndTask(c))

FairSpec == Spec /\ Fairness

-----------------------------------------------------------------------------
(* Properties *)

QueueTypeOK ==
    /\ lanes \in [Lanes -> LaneState]
    /\ gatewayDraining \in BOOLEAN
    /\ waiter \in Waiter
    /\ toDrain \subseteq Lanes
    /\ promise \in [Commands -> PromiseState]
    /\ executing \subseteq Commands
    /\ startedIn \in [Commands -> Nat]

LoopTypeOK ==
    /\ loop \in {"starting", "parked"}
    /\ resolver \in {"none", "armed", "stale"}
    /\ request \in Request
    /\ {server, lock, hadLock, started, failedStart, unwoken, exited} \subseteq BOOLEAN
    /\ changes \in 0..MaxChanges

\* Every variable stays within its type.
GatewayTypeOK == QueueTypeOK /\ LoopTypeOK

\* Between two calls no command waits in a lane that has room: whatever frees
\* a slot, raises a limit or resets the lanes also drains the lane, so that no
\* command waits for a later call that may never come.
NoLostWakeUp ==
    Between => \A l \in Lanes : lanes[l].queue = <<>> \/ ~HasRoom(l)

\* A restart waits only for tasks that still hold their slots: it is told of
\* the end of the last one.
NoLostWaiter ==
    waiter.result = "waiting" => waiter.tasks \cap ActiveTasks # {}

\* "Drained" is true: each task that was active when the restart was asked for
\* has settled, whatever was started, cleared or reset since.
DrainedHaveEnded ==
    waiter.result = "drained" => \A c \in waiter.tasks : promise[c] = "settled"

InSession(r1, r2) ==
    /\ r1 # r2
    /\ Session[r1] = Session[r2]
    /\ {<<"global", r1>>, <<"global", r2>>} \subseteq executing

\* Two agent runs of one session execute at the same time only if the gateway
\* was restarted between their turns in the lane of the session.
OneRunPerLifecycle ==
    \A r1, r2 \in Runs : InSession(r1, r2) =>
        startedIn[<<"session", r1>>] # startedIn[<<"session", r2>>]

\* "Per-session lanes guarantee that only one agent run touches a given
\* session at a time" (docs/concepts/queue.md), restarts included.
OneRunPerSession == \A r1, r2 \in Runs : ~InSession(r1, r2)

LimitKept ==
    \A l \in Lanes : \/ lanes'[l].active \subseteq lanes[l].active
                    \/ Cardinality(lanes'[l].active) <= lanes'[l].maxConcurrent

\* A lane never starts a command beyond its limit, although limits change and
\* restarts forget who is active.
StartsWithinLimit == [][LimitKept]_vars

\* Outside of a request a server runs with the gateway lock held, unless an
\* earlier start failed: that gave the lock up for good.
LockedWhileServing == server /\ request = NoRequest => lock \/ failedStart

\* A restart asked for while the loop is parked ends the refusal of commands,
\* or the process.  (Asked for while the server starts, it does not.)
RestartReopensQueue ==
    (request.kind = "restart" /\ resolver = "armed") ~> (~gatewayDraining \/ exited)

Queued(c) == \E i \in DOMAIN lanes[LaneOf(c)].queue : lanes[LaneOf(c)].queue[i] = c

\* A waiting command goes on, or is cleared: lanes wait for lanes, tasks for
\* their inner command, and some tasks for nothing that will come.  Only a
\* restart that left such tasks behind and did not wake the loop leaves their
\* lanes held: a command behind them waits for the next restart.
QueuedGoesOn == \A c \in Commands : Queued(c) ~> (~Queued(c) \/ exited \/ unwoken)
=============================================================================
