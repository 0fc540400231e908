---------------------------- MODULE RemoteBridge ----------------------------
(***************************************************************************)
(* The remote bridge: commands queued on a server for a laptop that polls   *)
(* for them (the /remote/device routes of modules/api/routers/app.py) and   *)
(* the client on the laptop (modules/remote_bridge_client.py).              *)
(*                                                                          *)
(* The routes run on one event loop and none of them awaits, so serving a   *)
(* request is one action.  The client has one thread: it waits for the      *)
(* answer to each request and for the end of each command.  A request may   *)
(* be answered too late or not at all; one that was given up may still be   *)
(* served.  The server keeps everything in memory.                          *)
(*                                                                          *)
(* Abstracted: what a command says and returns, logging in, the policy      *)
(* checks on a submission, and the clock.  A device or a result that        *)
(* was not touched for long enough is removed by the next request that      *)
(* reads either; here it is removed when that time has passed.              *)
(***************************************************************************)
EXTENDS Naturals, Sequences, FiniteSets

CONSTANTS
    Device,        \* device identifiers, each run by one client
    MaxCommands,   \* bound: how many commands are ever submitted
    QueueMax,      \* LADA_REMOTE_BRIDGE_QUEUE_MAX
    Faults,        \* which of FaultKinds happen
    MaxFaults      \* bound: how many of them

\* "network": an answer is lost or comes too late; "client", "server": the
\* process restarts; "forget": the server drops what it has not touched.
FaultKinds == {"network", "client", "server", "forget"}

ASSUME RemoteBridgeAssumption ==
    /\ MaxCommands \in Nat
    /\ QueueMax \in Nat \ {0}
    /\ Faults \subseteq FaultKinds
    /\ MaxFaults \in Nat

VARIABLES
    devices,    \* remote_bridge_devices: those registered
    queues,     \* remote_bridge_queues
    results,    \* remote_bridge_results
    target,     \* the device each command was submitted for, in order
    client,     \* what each client is doing
    strays,     \* requests given up by their client and not served yet
    runs,       \* the commands each laptop has executed, in order
    faults      \* how many faults there have been

bvars == <<devices, queues, results, target, client, strays, runs, faults>>

-----------------------------------------------------------------------------
(* Data *)

CommandId == 1..MaxCommands
Submitted == 1..Len(target)

Answered == {"completed", "failed"}

\* due: the dispatch timeout has passed since dispatched_at.
Result   == [status : {"none", "dispatched"} \cup Answered, due : BOOLEAN]
NoResult == [status |-> "none", due |-> FALSE]

\* A client between requests, executing a command, or waiting for the answer
\* to a request; "exited" is run_forever left by an exception.
Request == [kind : {"register", "heartbeat", "next"}]
             \cup [kind : {"result"}, cmd : CommandId, success : BOOLEAN]
Client  == [phase : {"new", "idle", "polling", "exited"}]
             \cup [phase : {"running"}, cmd : CommandId]
             \cup [phase : {"waiting"}, for : Request]

New          == [phase |-> "new"]
Idle         == [phase |-> "idle"]
Polling      == [phase |-> "polling"]
Exited       == [phase |-> "exited"]
Running(c)   == [phase |-> "running", cmd |-> c]
Waiting(req) == [phase |-> "waiting", for |-> req]

InFlight(d) == {c \in Submitted : target[c] = d /\ results[c].status = "dispatched"}

\* Answers: 404, nothing to do, done, or a command.
NotFound    == [kind |-> "not found"]
NoCommand   == [kind |-> "no command"]
Done        == [kind |-> "done"]
Deliver(c)  == [kind |-> "command", cmd |-> c]

-----------------------------------------------------------------------------
(* The server.  Each route relates the state to the next one and to the     *)
(* answer it returns.                                                       *)

RemoteDeviceRegister(d, answer) ==
    /\ devices' = devices \cup {d}
    /\ answer = Done
    /\ UNCHANGED <<queues, results>>

RemoteDeviceHeartbeat(d, answer) ==
    /\ answer = IF d \in devices THEN Done ELSE NotFound
    /\ UNCHANGED <<devices, queues, results>>

\* Mutant of HasInFlight: a command is handed out while another is in flight.
HasInFlightNever(d) == FALSE

HasInFlight(d) == InFlight(d) # {}

\* Mutant of Redeliver: nothing is ever handed out twice.
RedeliverNever(c, answer) ==
    /\ FALSE
    /\ answer = Deliver(c)
    /\ UNCHANGED results

\* A command in flight is handed out again once its dispatch timeout is over,
\* and keeps every later one waiting until then.
Redeliver(c, answer) ==
    /\ results[c].due
    /\ results' = [results EXCEPT ![c].due = FALSE]
    /\ answer = Deliver(c)

\* Mutant of Dispatch: the newest command first.
DispatchNewest(d, answer) ==
    LET c == queues[d][Len(queues[d])]
    IN  /\ queues' = [queues EXCEPT ![d] = SubSeq(@, 1, Len(@) - 1)]
        /\ results' = [results EXCEPT ![c] = [status |-> "dispatched", due |-> FALSE]]
        /\ answer = Deliver(c)

\* Mutant of Dispatch: a command counts as completed when it is handed out.
DispatchCompleted(d, answer) ==
    /\ queues' = [queues EXCEPT ![d] = Tail(@)]
    /\ results' = [results EXCEPT ![Head(queues[d])] = [status |-> "completed", due |-> FALSE]]
    /\ answer = Deliver(Head(queues[d]))

Dispatch(d, answer) ==
    /\ queues' = [queues EXCEPT ![d] = Tail(@)]
    /\ results' = [results EXCEPT ![Head(queues[d])] = [status |-> "dispatched", due |-> FALSE]]
    /\ answer = Deliver(Head(queues[d]))

RemoteDeviceNextCommand(d, answer) ==
    /\ UNCHANGED devices
    /\ \/ /\ d \notin devices
          /\ answer = NotFound
          /\ UNCHANGED <<queues, results>>
       \/ /\ d \in devices /\ HasInFlight(d)
          /\ \E c \in InFlight(d) :
                \/ Redeliver(c, answer) /\ UNCHANGED queues
                \/ ~results[c].due /\ answer = NoCommand /\ UNCHANGED <<queues, results>>
       \/ /\ d \in devices /\ ~HasInFlight(d) /\ queues[d] = <<>>
          /\ answer = NoCommand
          /\ UNCHANGED <<queues, results>>
       \/ /\ d \in devices /\ ~HasInFlight(d) /\ queues[d] # <<>>
          /\ Dispatch(d, answer)

\* Mutant of StatusOf: a command that failed stays in flight.
StatusOfSuccess(success) == IF success THEN "completed" ELSE "dispatched"

StatusOf(success) == IF success THEN "completed" ELSE "failed"

\* A result is accepted for any command the server remembers handing out to
\* this device, and replaces an earlier one.
RemoteDeviceCommandResult(d, c, success, answer) ==
    /\ IF results[c].status = "none" \/ target[c] # d
       THEN answer = NotFound /\ UNCHANGED results
       ELSE /\ answer = Done
            /\ results' = [results EXCEPT ![c].status = StatusOf(success)]
    /\ UNCHANGED <<devices, queues>>

Serve(d, req, answer) ==
    \/ req.kind = "register" /\ RemoteDeviceRegister(d, answer)
    \/ req.kind = "heartbeat" /\ RemoteDeviceHeartbeat(d, answer)
    \/ req.kind = "next" /\ RemoteDeviceNextCommand(d, answer)
    \/ req.kind = "result" /\ RemoteDeviceCommandResult(d, req.cmd, req.success, answer)

\* Mutant of RemoteCommand: the limit is checked one too late.
RemoteCommandOverfull(d) ==
    /\ Len(target) < MaxCommands
    /\ d \in devices
    /\ Len(queues[d]) <= QueueMax
    /\ target' = Append(target, d)
    /\ queues' = [queues EXCEPT ![d] = Append(@, Len(target) + 1)]
    /\ UNCHANGED <<devices, results, client, strays, runs, faults>>

\* POST /remote/command for a device.
RemoteCommand(d) ==
    /\ Len(target) < MaxCommands
    /\ d \in devices
    /\ Len(queues[d]) < QueueMax
    /\ target' = Append(target, d)
    /\ queues' = [queues EXCEPT ![d] = Append(@, Len(target) + 1)]
    /\ UNCHANGED <<devices, results, client, strays, runs, faults>>

\* The dispatch timeout of a command passes.
DispatchTimeout(c) ==
    /\ c \in Submitted
    /\ results[c].status = "dispatched"
    /\ ~results[c].due
    /\ results' = [results EXCEPT ![c].due = TRUE]
    /\ UNCHANGED <<devices, queues, target, client, strays, runs, faults>>

-----------------------------------------------------------------------------
(* The client: run_forever and poll_once *)

Become(d, state) == client' = [client EXCEPT ![d] = state]

\* register(), when the last request failed or none was made yet.
SendRegister(d) ==
    /\ client[d] = New
    /\ Become(d, Waiting([kind |-> "register"]))
    /\ UNCHANGED <<devices, queues, results, target, strays, runs, faults>>

\* heartbeat(), when it is time for one; a poll follows in the same round.
SendHeartbeat(d) ==
    /\ client[d] = Idle
    /\ Become(d, Waiting([kind |-> "heartbeat"]))
    /\ UNCHANGED <<devices, queues, results, target, strays, runs, faults>>

SendPoll(d) ==
    /\ client[d] \in {Idle, Polling}
    /\ Become(d, Waiting([kind |-> "next"]))
    /\ UNCHANGED <<devices, queues, results, target, strays, runs, faults>>

\* poll_once, the rest: the command is executed, succeeds or fails, and its
\* result is posted.
ExecuteCommand(d) ==
    /\ client[d].phase = "running"
    /\ LET c == client[d].cmd
       IN  /\ runs' = [runs EXCEPT ![d] = Append(@, c)]
           /\ \E success \in BOOLEAN :
                Become(d, Waiting([kind |-> "result", cmd |-> c, success |-> success]))
    /\ UNCHANGED <<devices, queues, results, target, strays, faults>>

\* What the client goes on to do: a 404 of any route ends run_forever.
After(req, answer) ==
    CASE answer.kind = "not found" -> Exited
      [] answer.kind = "command"   -> Running(answer.cmd)
      [] req.kind = "heartbeat" /\ answer.kind = "done" -> Polling
      [] OTHER -> Idle

Answers == {NotFound, NoCommand, Done} \cup {Deliver(c) : c \in Submitted}

\* A request is served and answered in time.
Exchange(d) ==
    /\ client[d].phase = "waiting"
    /\ \E answer \in Answers :
        /\ Serve(d, client[d].for, answer)
        /\ Become(d, After(client[d].for, answer))
    /\ UNCHANGED <<target, strays, runs, faults>>

-----------------------------------------------------------------------------
(* Faults *)

Fault(kind) ==
    /\ kind \in Faults
    /\ faults < MaxFaults
    /\ faults' = faults + 1

\* A request is served, its answer is lost, and the client starts over.
AnswerLost(d) ==
    /\ Fault("network")
    /\ client[d].phase = "waiting"
    /\ \E answer \in Answers : Serve(d, client[d].for, answer)
    /\ Become(d, New)
    /\ UNCHANGED <<target, strays, runs>>

\* A request is given up before it is served: it is lost, or served later.
GiveUp(d) ==
    /\ Fault("network")
    /\ client[d].phase = "waiting"
    /\ strays' = strays \cup {[from |-> d, for |-> client[d].for]}
    /\ Become(d, New)
    /\ UNCHANGED <<devices, queues, results, target, runs>>

ServeStray ==
    /\ \E s \in strays :
        /\ strays' = strays \ {s}
        /\ \E answer \in Answers : Serve(s.from, s.for, answer)
    /\ UNCHANGED <<target, client, runs, faults>>

\* The client process dies and is started again.
ClientRestart(d) ==
    /\ Fault("client")
    /\ client[d].phase # "exited"
    /\ strays' = IF client[d].phase = "waiting"
                 THEN strays \cup {[from |-> d, for |-> client[d].for]} ELSE strays
    /\ Become(d, New)
    /\ UNCHANGED <<devices, queues, results, target, runs>>

\* Someone starts a client that has ended by itself.
Relaunch(d) ==
    /\ client[d] = Exited
    /\ Become(d, New)
    /\ UNCHANGED <<devices, queues, results, target, strays, runs, faults>>

ServerRestart ==
    /\ Fault("server")
    /\ devices' = {}
    /\ queues' = [d \in Device |-> <<>>]
    /\ results' = [c \in CommandId |-> NoResult]
    /\ UNCHANGED <<target, client, strays, runs>>

\* _prune_remote_bridge_state: a device not seen for ten timeouts goes, with
\* its queue; a result not touched for an hour goes, whatever its status.
PruneDevice(d) ==
    /\ Fault("forget")
    /\ d \in devices
    /\ devices' = devices \ {d}
    /\ queues' = [queues EXCEPT ![d] = <<>>]
    /\ UNCHANGED <<results, target, client, strays, runs>>

PruneResult(c) ==
    /\ Fault("forget")
    /\ results[c].status # "none"
    /\ results' = [results EXCEPT ![c] = NoResult]
    /\ UNCHANGED <<devices, queues, target, client, strays, runs>>

-----------------------------------------------------------------------------

BridgeInit ==
    /\ devices = {}
    /\ queues = [d \in Device |-> <<>>]
    /\ results = [c \in CommandId |-> NoResult]
    /\ target = <<>>
    /\ client = [d \in Device |-> New]
    /\ strays = {}
    /\ runs = [d \in Device |-> <<>>]
    /\ faults = 0

BridgeNext ==
    \/ \E d \in Device :
        \/ RemoteCommand(d)
        \/ SendRegister(d) \/ SendHeartbeat(d) \/ SendPoll(d)
        \/ ExecuteCommand(d) \/ Exchange(d)
        \/ AnswerLost(d) \/ GiveUp(d) \/ ClientRestart(d) \/ Relaunch(d)
        \/ PruneDevice(d)
    \/ \E c \in CommandId : DispatchTimeout(c) \/ PruneResult(c)
    \/ ServeStray
    \/ ServerRestart

BridgeSpec == BridgeInit /\ [][BridgeNext]_bvars

\* The client's loop goes on, the server serves what it is asked, commands end
\* and time passes.  Nothing makes anyone submit, relaunch or fail.
BridgeFairness ==
    /\ \A d \in Device :
        /\ WF_bvars(SendRegister(d))
        /\ WF_bvars(SendPoll(d))
        /\ WF_bvars(ExecuteCommand(d))
        /\ WF_bvars(Exchange(d))
    /\ \A c \in CommandId : WF_bvars(DispatchTimeout(c))

BridgeFairSpec == BridgeSpec /\ BridgeFairness

-----------------------------------------------------------------------------
(* Properties *)

\* Types, and the bound on every queue (remote_command refuses a command for a
\* full one).
BridgeTypeOK ==
    /\ devices \subseteq Device
    /\ queues \in [Device -> Seq(CommandId)]
    /\ \A d \in Device : Len(queues[d]) <= QueueMax
    /\ results \in [CommandId -> Result]
    /\ target \in Seq(Device) /\ Len(target) <= MaxCommands
    /\ client \in [Device -> Client]
    /\ strays \subseteq [from : Device, for : Request]
    /\ runs \in [Device -> Seq(CommandId)]
    /\ faults \in 0..MaxFaults

\* remote_device_next_command: a device never has two commands handed out and
\* unanswered, whatever was lost, repeated, pruned or served late.
OneInFlight == \A d \in Device : \A b, c \in InFlight(d) : b = c

\* The laptop executes commands in the order they were submitted for it; after
\* it has begun a later one it never goes back to an earlier one.
NeverGoesBack ==
    \A d \in Device : \A i, j \in DOMAIN runs[d] : i < j => runs[d][i] <= runs[d][j]

\* remote_device_command_result: a command is reported as completed or failed
\* only if its own laptop has executed it.
ReportedWasExecuted ==
    \A c \in Submitted : results[c].status \in Answered =>
        \E i \in DOMAIN runs[target[c]] : runs[target[c]][i] = c

\* A command is executed again only because something was lost or restarted:
\* every repetition is paid for by a fault, also when a command takes longer
\* than the dispatch timeout.
RepeatsArePaidFor ==
    \A d \in Device : Len(runs[d]) <= Cardinality({c \in Submitted : target[c] = d}) + faults

Forgotten(c) ==
    /\ results[c].status = "none"
    /\ c \in Submitted
    /\ \A i \in DOMAIN queues[target[c]] : queues[target[c]][i] # c

\* Redelivery: every command is answered in the end, after any finite number of
\* lost answers and restarts of the client, unless the server has forgotten it or
\* the client has given up (on a 404).
EveryCommandIsAnswered ==
    \A c \in CommandId :
        c \in Submitted ~> \/ results[c].status \in Answered
                           \/ Forgotten(c)
                           \/ c \in Submitted /\ client[target[c]] = Exited
=============================================================================
