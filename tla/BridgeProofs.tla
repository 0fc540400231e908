---------------------------- MODULE BridgeProofs ----------------------------
(* Theorems about RemoteBridge, for every set of devices, every number of     *)
(* commands and faults, every queue limit and every choice of faults.         *)
EXTENDS RemoteBridge, SequenceTheorems, FiniteSetTheorems, TLAPS

-----------------------------------------------------------------------------
(* Data *)

LEMMA RequestForms ==
    /\ [kind |-> "register"] \in Request
    /\ [kind |-> "heartbeat"] \in Request
    /\ [kind |-> "next"] \in Request
    /\ \A c \in CommandId, success \in BOOLEAN :
         [kind |-> "result", cmd |-> c, success |-> success] \in Request
BY DEF Request

LEMMA RequestParts ==
    ASSUME NEW req \in Request, req.kind = "result"
    PROVE  req.cmd \in CommandId /\ req.success \in BOOLEAN
BY DEF Request

LEMMA ClientForms ==
    /\ {New, Idle, Polling, Exited} \subseteq Client
    /\ \A c \in CommandId : Running(c) \in Client
    /\ \A req \in Request : Waiting(req) \in Client
BY DEF Client, New, Idle, Polling, Exited, Running, Waiting

LEMMA ClientParts ==
    ASSUME NEW state \in Client
    PROVE  /\ state.phase = "running" => state.cmd \in CommandId
           /\ state.phase = "waiting" => state.for \in Request
BY DEF Client

\* What the parts of a state differ in: a state is told apart by its phase.
LEMMA Phases ==
    /\ New.phase = "new" /\ Idle.phase = "idle" /\ Polling.phase = "polling"
    /\ Exited.phase = "exited"
    /\ \A c : Running(c).phase = "running" /\ Running(c).cmd = c
    /\ \A req : Waiting(req).phase = "waiting" /\ Waiting(req).for = req
BY DEF New, Idle, Polling, Exited, Running, Waiting

LEMMA SubmittedIds ==
    ASSUME BridgeTypeOK
    PROVE  Submitted \subseteq CommandId /\ Len(target) \in 0..MaxCommands
BY RemoteBridgeAssumption, LenProperties DEF BridgeTypeOK, Submitted, CommandId

\* After(req, answer) is a state of a client, and runs only what it was given.
LEMMA AfterType ==
    ASSUME BridgeTypeOK, NEW req \in Request, NEW answer \in Answers
    PROVE  /\ After(req, answer) \in Client
           /\ \/ After(req, answer) \in {Exited, Polling, Idle}
              \/ \E c \in Submitted : answer = Deliver(c) /\ After(req, answer) = Running(c)
<1>1. CASE answer \in {NotFound, NoCommand, Done}
  <2>1. answer.kind \in {"not found", "no command", "done"}
    <3>1. NotFound.kind = "not found" /\ NoCommand.kind = "no command" /\ Done.kind = "done"
      BY DEF NotFound, NoCommand, Done
    <3>. QED  BY <1>1, <3>1
  <2>2. After(req, answer) \in {Exited, Polling, Idle}
    BY <2>1 DEF After
  <2>. QED  BY <2>2, ClientForms
<1>2. CASE \E c \in Submitted : answer = Deliver(c)
  <2>1. PICK c \in Submitted : answer = Deliver(c)
    BY <1>2
  <2>2. answer.kind = "command" /\ answer.cmd = c
    BY <2>1 DEF Deliver
  <2>3. After(req, answer) = Running(c)
    BY <2>2, Zenon DEF After
  <2>. QED  BY <2>1, <2>3, ClientForms, SubmittedIds
<1>. QED  BY <1>1, <1>2 DEF Answers

-----------------------------------------------------------------------------
(* What serving a request does *)

\* Some command of the queue is handed out.
LEMMA HeadTail ==
    ASSUME BridgeTypeOK, NEW d \in Device, queues[d] # << >>
    PROVE  /\ Head(queues[d]) \in CommandId
           /\ Tail(queues[d]) \in Seq(CommandId)
           /\ Len(Tail(queues[d])) = Len(queues[d]) - 1
           /\ Len(queues[d]) \in Nat \ {0}
           /\ \A i \in 1..Len(Tail(queues[d])) : Tail(queues[d])[i] = queues[d][i + 1]
           /\ Head(queues[d]) = queues[d][1]
<1>1. queues[d] \in Seq(CommandId)
  BY DEF BridgeTypeOK
<1>2. Len(queues[d]) \in Nat \ {0}
  BY <1>1, EmptySeq, LenProperties
<1>. QED  BY <1>1, <1>2, HeadTailProperties

LEMMA ServeType ==
    ASSUME BridgeTypeOK, NEW d \in Device, NEW req \in Request, NEW answer \in Answers,
           Serve(d, req, answer)
    PROVE  /\ devices' \subseteq Device
           /\ queues' \in [Device -> Seq(CommandId)]
           /\ \A e \in Device : Len(queues'[e]) <= QueueMax
           /\ results' \in [CommandId -> Result]
<1>1. CASE RemoteDeviceRegister(d, answer)
  BY <1>1 DEF RemoteDeviceRegister, BridgeTypeOK
<1>2. CASE RemoteDeviceHeartbeat(d, answer)
  BY <1>2 DEF RemoteDeviceHeartbeat, BridgeTypeOK
<1>3. CASE RemoteDeviceNextCommand(d, answer)
  <2>1. CASE UNCHANGED <<devices, queues, results>>
    BY <2>1 DEF BridgeTypeOK
  <2>2. ASSUME NEW c \in InFlight(d), Redeliver(c, answer), UNCHANGED <<devices, queues>>
        PROVE  results' \in [CommandId -> Result]
    <3>1. c \in CommandId
      BY SubmittedIds DEF InFlight
    <3>. QED  BY <2>2, <3>1 DEF Redeliver, BridgeTypeOK, Result
  <2>3. CASE UNCHANGED devices /\ queues[d] # << >> /\ Dispatch(d, answer)
    <3>1. /\ queues' = [queues EXCEPT ![d] = Tail(queues[d])]
          /\ results' = [results EXCEPT ![Head(queues[d])] = [status |-> "dispatched", due |-> FALSE]]
      BY <2>3 DEF Dispatch
    <3>2. queues \in [Device -> Seq(CommandId)] /\ QueueMax \in Nat
      BY RemoteBridgeAssumption DEF BridgeTypeOK
    <3>3. \A e \in Device : Len(queues'[e]) <= QueueMax
      BY <2>3, <3>1, <3>2, HeadTail DEF BridgeTypeOK
    <3>4. [status |-> "dispatched", due |-> FALSE] \in Result
      BY DEF Result
    <3>. QED  BY <2>3, <3>1, <3>2, <3>3, <3>4, HeadTail DEF BridgeTypeOK
  <2>. QED
    BY <1>3, <2>1, <2>2, <2>3 DEF RemoteDeviceNextCommand, BridgeTypeOK
<1>4. CASE req.kind = "result" /\ RemoteDeviceCommandResult(d, req.cmd, req.success, answer)
  <2>1. StatusOf(req.success) \in {"none", "dispatched"} \cup Answered
    BY DEF StatusOf, Answered
  <2>2. \/ results' = results
        \/ results' = [results EXCEPT ![req.cmd].status = StatusOf(req.success)]
    BY <1>4 DEF RemoteDeviceCommandResult
  <2>3. results' \in [CommandId -> Result]
    BY <1>4, <2>1, <2>2, RequestParts DEF BridgeTypeOK, Result
  <2>. QED  BY <1>4, <2>3 DEF RemoteDeviceCommandResult, BridgeTypeOK
<1>. QED  BY <1>1, <1>2, <1>3, <1>4 DEF Serve

-----------------------------------------------------------------------------
(* Types *)

LEMMA BridgeTypeInit == BridgeInit => BridgeTypeOK
<1> SUFFICES ASSUME BridgeInit PROVE BridgeTypeOK
  OBVIOUS
<1>1. /\ << >> \in Seq(CommandId) /\ << >> \in Seq(Device) /\ Len(<< >>) = 0
  BY EmptySeq
<1>2. NoResult \in Result
  BY DEF NoResult, Result
<1>3. \A d \in Device : queues[d] = << >>
  BY DEF BridgeInit
<1>. QED
  BY <1>1, <1>2, <1>3, ClientForms, RemoteBridgeAssumption DEF BridgeInit, BridgeTypeOK

\* A step of the client that changes nothing of the server.
LEMMA BecomeType ==
    ASSUME BridgeTypeOK, NEW d \in Device, NEW state \in Client, Become(d, state)
    PROVE  client' \in [Device -> Client]
BY DEF BridgeTypeOK, Become

LEMMA FaultType ==
    ASSUME BridgeTypeOK, NEW kind, Fault(kind)
    PROVE  faults' \in 0..MaxFaults
BY RemoteBridgeAssumption DEF BridgeTypeOK, Fault

LEMMA StrayType ==
    ASSUME BridgeTypeOK, NEW d \in Device, client[d].phase = "waiting"
    PROVE  /\ client[d].for \in Request
           /\ strays \cup {[from |-> d, for |-> client[d].for]} \subseteq [from : Device, for : Request]
<1>1. client[d] \in Client
  BY DEF BridgeTypeOK
<1>2. client[d].for \in Request
  BY <1>1, ClientParts
<1>. QED  BY <1>2 DEF BridgeTypeOK

LEMMA BridgeTypeNext ==
    ASSUME BridgeTypeOK, [BridgeNext]_bvars
    PROVE  BridgeTypeOK'
<1>1. ASSUME NEW d \in Device, RemoteCommand(d) PROVE BridgeTypeOK'
  <2>1. /\ Len(target) + 1 \in CommandId
        /\ target' = Append(target, d)
        /\ queues' = [queues EXCEPT ![d] = Append(queues[d], Len(target) + 1)]
    BY <1>1, SubmittedIds, RemoteBridgeAssumption DEF RemoteCommand, CommandId
  <2>2. /\ Append(queues[d], Len(target) + 1) \in Seq(CommandId)
        /\ Len(Append(queues[d], Len(target) + 1)) = Len(queues[d]) + 1
        /\ Len(queues[d]) \in Nat
    BY <2>1, AppendProperties, LenProperties DEF BridgeTypeOK
  <2>3. target' \in Seq(Device) /\ Len(target') = Len(target) + 1
    BY <2>1, AppendProperties DEF BridgeTypeOK
  <2>4. Len(queues[d]) + 1 <= QueueMax /\ Len(target) + 1 <= MaxCommands
    BY <1>1, <2>2, SubmittedIds, RemoteBridgeAssumption DEF RemoteCommand
  <2>5. \A e \in Device : Len(queues'[e]) <= QueueMax
    BY <2>1, <2>2, <2>4 DEF BridgeTypeOK
  <2>6. queues' \in [Device -> Seq(CommandId)]
    BY <2>1, <2>2 DEF BridgeTypeOK
  <2>. QED  BY <1>1, <2>3, <2>4, <2>5, <2>6 DEF RemoteCommand, BridgeTypeOK
<1>2. ASSUME NEW d \in Device, SendRegister(d) \/ SendHeartbeat(d) \/ SendPoll(d)
      PROVE  BridgeTypeOK'
  <2>1. PICK req \in Request : Become(d, Waiting(req))
    BY <1>2, RequestForms DEF SendRegister, SendHeartbeat, SendPoll
  <2>2. client' \in [Device -> Client]
    BY <2>1, BecomeType, ClientForms
  <2>. QED  BY <1>2, <2>2 DEF SendRegister, SendHeartbeat, SendPoll, BridgeTypeOK
<1>3. ASSUME NEW d \in Device, ExecuteCommand(d) PROVE BridgeTypeOK'
  <2>1. client[d] \in Client
    BY DEF BridgeTypeOK
  <2>2. client[d].cmd \in CommandId
    BY <1>3, <2>1, ClientParts DEF ExecuteCommand
  <2>3. PICK success \in BOOLEAN :
          Become(d, Waiting([kind |-> "result", cmd |-> client[d].cmd, success |-> success]))
    BY <1>3 DEF ExecuteCommand
  <2>4. client' \in [Device -> Client]
    BY <2>2, <2>3, BecomeType, ClientForms, RequestForms
  <2>5. Append(runs[d], client[d].cmd) \in Seq(CommandId)
    BY <2>2, AppendProperties DEF BridgeTypeOK
  <2>6. runs' \in [Device -> Seq(CommandId)]
    BY <1>3, <2>5 DEF ExecuteCommand, BridgeTypeOK
  <2>. QED  BY <1>3, <2>4, <2>6 DEF ExecuteCommand, BridgeTypeOK
<1>4. ASSUME NEW d \in Device, Exchange(d) PROVE BridgeTypeOK'
  <2>1. client[d].for \in Request
    BY <1>4, StrayType DEF Exchange
  <2>2. PICK answer \in Answers : /\ Serve(d, client[d].for, answer)
                                  /\ Become(d, After(client[d].for, answer))
    BY <1>4 DEF Exchange
  <2>3. client' \in [Device -> Client]
    BY <2>1, <2>2, AfterType, BecomeType
  <2>. QED  BY <1>4, <2>1, <2>2, <2>3, ServeType DEF Exchange, BridgeTypeOK
<1>5. ASSUME NEW d \in Device, AnswerLost(d) PROVE BridgeTypeOK'
  <2>1. client[d].for \in Request
    BY <1>5, StrayType DEF AnswerLost
  <2>2. PICK answer \in Answers : Serve(d, client[d].for, answer)
    BY <1>5 DEF AnswerLost
  <2>3. client' \in [Device -> Client] /\ faults' \in 0..MaxFaults
    BY <1>5, BecomeType, ClientForms, FaultType DEF AnswerLost
  <2>. QED  BY <1>5, <2>1, <2>2, <2>3, ServeType DEF AnswerLost, BridgeTypeOK
<1>6. ASSUME NEW d \in Device, GiveUp(d) \/ ClientRestart(d) PROVE BridgeTypeOK'
  <2>1. client' \in [Device -> Client] /\ faults' \in 0..MaxFaults
    BY <1>6, BecomeType, ClientForms, FaultType DEF GiveUp, ClientRestart
  <2>2. strays' \subseteq [from : Device, for : Request]
    BY <1>6, StrayType DEF GiveUp, ClientRestart, BridgeTypeOK
  <2>. QED  BY <1>6, <2>1, <2>2 DEF GiveUp, ClientRestart, BridgeTypeOK
<1>7. ASSUME NEW d \in Device, Relaunch(d) PROVE BridgeTypeOK'
  <2>1. client' \in [Device -> Client]
    BY <1>7, BecomeType, ClientForms DEF Relaunch
  <2>. QED  BY <1>7, <2>1 DEF Relaunch, BridgeTypeOK
<1>8. ASSUME NEW d \in Device, PruneDevice(d) PROVE BridgeTypeOK'
  <2>1. << >> \in Seq(CommandId) /\ Len(<< >>) = 0 /\ QueueMax \in Nat
    BY EmptySeq, RemoteBridgeAssumption
  <2>2. /\ queues' \in [Device -> Seq(CommandId)]
        /\ \A e \in Device : Len(queues'[e]) <= QueueMax
    BY <1>8, <2>1 DEF PruneDevice, BridgeTypeOK
  <2>3. faults' \in 0..MaxFaults
    BY <1>8, FaultType DEF PruneDevice
  <2>. QED  BY <1>8, <2>2, <2>3 DEF PruneDevice, BridgeTypeOK
<1>9. ASSUME NEW c \in CommandId, DispatchTimeout(c) PROVE BridgeTypeOK'
  BY <1>9 DEF DispatchTimeout, BridgeTypeOK, Result
<1>10. ASSUME NEW c \in CommandId, PruneResult(c) PROVE BridgeTypeOK'
  <2>1. faults' \in 0..MaxFaults
    BY <1>10, FaultType DEF PruneResult
  <2>2. results' \in [CommandId -> Result]
    BY <1>10 DEF PruneResult, BridgeTypeOK, NoResult, Result
  <2>. QED  BY <1>10, <2>1, <2>2 DEF PruneResult, BridgeTypeOK
<1>11. CASE ServeStray
  <2>1. PICK s \in strays : /\ strays' = strays \ {s}
                            /\ \E answer \in Answers : Serve(s.from, s.for, answer)
    BY <1>11 DEF ServeStray
  <2>2. s.from \in Device /\ s.for \in Request
    BY <2>1 DEF BridgeTypeOK
  <2>3. PICK answer \in Answers : Serve(s.from, s.for, answer)
    BY <2>1
  <2>. QED  BY <1>11, <2>1, <2>2, <2>3, ServeType DEF ServeStray, BridgeTypeOK
<1>12. CASE ServerRestart
  <2>1. << >> \in Seq(CommandId) /\ Len(<< >>) = 0 /\ QueueMax \in Nat
    BY EmptySeq, RemoteBridgeAssumption
  <2>2. /\ queues' \in [Device -> Seq(CommandId)]
        /\ \A e \in Device : Len(queues'[e]) <= QueueMax
        /\ results' \in [CommandId -> Result]
    BY <1>12, <2>1 DEF ServerRestart, NoResult, Result
  <2>3. faults' \in 0..MaxFaults
    BY <1>12, FaultType DEF ServerRestart
  <2>. QED  BY <1>12, <2>2, <2>3 DEF ServerRestart, BridgeTypeOK
<1>13. CASE UNCHANGED bvars
  BY <1>13 DEF bvars, BridgeTypeOK
<1>. QED
  BY <1>1, <1>2, <1>3, <1>4, <1>5, <1>6, <1>7, <1>8, <1>9, <1>10, <1>11, <1>12, <1>13
  DEF BridgeNext

\* Every reachable state is well typed, and no queue outgrows its limit.
THEOREM BridgeTypeCorrect == BridgeSpec => []BridgeTypeOK
<1>1. BridgeInit => BridgeTypeOK
  BY BridgeTypeInit
<1>2. BridgeTypeOK /\ [BridgeNext]_bvars => BridgeTypeOK'
  BY BridgeTypeNext
<1>. QED  BY <1>1, <1>2, PTL DEF BridgeSpec

-----------------------------------------------------------------------------
(* Order.  That the laptop never goes back to an earlier command, never has  *)
(* two in flight and reports only what it has executed are one induction:    *)
(* what is queued for a device is later than all it has begun, and of what   *)
(* it has begun the command in flight is the latest.                         *)

Queued(d)    == {queues[d][i] : i \in 1..Len(queues[d])}
Ran(d)       == {runs[d][i] : i \in 1..Len(runs[d])}
Executing(d) == {c \in CommandId : client[d].phase = "running" /\ client[d].cmd = c}

\* Every command is where it was submitted for.
Owned ==
    /\ \A d \in Device : \A c \in Queued(d) \cup Ran(d) \cup Executing(d) :
         c \in Submitted /\ target[c] = d
    /\ \A c \in CommandId : results[c].status # "none" => c \in Submitted

\* A result is posted after the execution, also by a request served late.
Posted ==
    /\ \A d \in Device : client[d].phase = "waiting" /\ client[d].for.kind = "result" =>
         client[d].for.cmd \in Ran(d)
    /\ \A s \in strays : s.for.kind = "result" => s.for.cmd \in Ran(s.from)
    /\ \A d \in Device : \A c \in Submitted :
         target[c] = d /\ results[c].status \in Answered => c \in Ran(d)

QueueIncreases ==
    \A d \in Device : \A i, j \in 1..Len(queues[d]) : i < j => queues[d][i] < queues[d][j]

Ordered ==
    \A d \in Device :
        /\ \A b \in Ran(d) \cup Executing(d) \cup InFlight(d), c \in Queued(d) : b < c
        /\ \A b \in Ran(d) \cup Executing(d), c \in InFlight(d) : b <= c
        /\ \A b \in Ran(d), c \in Executing(d) : b <= c

BridgeInv ==
    /\ BridgeTypeOK
    /\ Owned /\ OneInFlight /\ Posted
    /\ QueueIncreases /\ Ordered /\ NeverGoesBack

LEMMA Ids ==
    ASSUME BridgeTypeOK
    PROVE  /\ CommandId \subseteq Nat
           /\ \A d \in Device : /\ Queued(d) \subseteq CommandId
                                /\ Ran(d) \subseteq CommandId
                                /\ Executing(d) \subseteq CommandId
                                /\ InFlight(d) \subseteq CommandId
<1>1. ASSUME NEW d \in Device PROVE Queued(d) \subseteq CommandId /\ Ran(d) \subseteq CommandId
  <2>1. queues[d] \in Seq(CommandId) /\ runs[d] \in Seq(CommandId)
    BY DEF BridgeTypeOK
  <2>. QED  BY <2>1, ElementOfSeq DEF Queued, Ran
<1>2. CommandId \subseteq Nat
  BY RemoteBridgeAssumption DEF CommandId
<1>. QED  BY <1>1, <1>2, SubmittedIds DEF Executing, InFlight

\* What the server does for device d keeps of the invariant, before the client
\* has moved; a command it answers with is in flight.
Served(d, answer) ==
    /\ QueueIncreases'
    /\ OneInFlight'
    /\ \A e \in Device :
        /\ Queued(e)' \subseteq Queued(e)
        /\ \A b \in Ran(e) \cup Executing(e), c \in InFlight(e)' : b <= c
        /\ \A b \in InFlight(e)', c \in Queued(e)' : b < c
        /\ \A c \in Submitted : target[c] = e /\ results'[c].status \in Answered => c \in Ran(e)
    /\ \A c \in CommandId : results'[c].status # "none" => c \in Submitted
    /\ \A c \in Submitted : answer = Deliver(c) => c \in InFlight(d)'

\* Whatever forgets or answers commands and hands out none.
LEMMA LessServed ==
    ASSUME BridgeInv, NEW d, NEW answer, target' = target,
           QueueIncreases',
           \A e \in Device : Queued(e)' \subseteq Queued(e),
           \A e \in Device : InFlight(e)' \subseteq InFlight(e),
           \A c \in CommandId : results'[c].status # "none" => results[c].status # "none",
           \A e \in Device : \A c \in Submitted :
             target[c] = e /\ results'[c].status \in Answered => c \in Ran(e),
           \A c \in Submitted : answer = Deliver(c) => c \in InFlight(d)'
    PROVE  Served(d, answer)
<1>1. OneInFlight'
  BY DEF BridgeInv, OneInFlight
<1>2. \A c \in CommandId : results'[c].status # "none" => c \in Submitted
  BY DEF BridgeInv, Owned
<1>3. ASSUME NEW e \in Device
      PROVE  /\ \A b \in Ran(e) \cup Executing(e), c \in InFlight(e)' : b <= c
             /\ \A b \in InFlight(e)', c \in Queued(e)' : b < c
  <2>. InFlight(e)' \subseteq InFlight(e) /\ Queued(e)' \subseteq Queued(e)
    OBVIOUS
  <2>. QED  BY DEF BridgeInv, Ordered
<1>. QED  BY <1>1, <1>2, <1>3 DEF Served

LEMMA DispatchServed ==
    ASSUME BridgeInv, NEW d \in Device, NEW answer, target' = target,
           queues[d] # << >>, InFlight(d) = {}, Dispatch(d, answer)
    PROVE  Served(d, answer)
<1> DEFINE first == Head(queues[d])
<1>1. /\ BridgeTypeOK
      /\ queues \in [Device -> Seq(CommandId)]
      /\ results \in [CommandId -> Result]
  BY DEF BridgeInv, BridgeTypeOK
<1>2. /\ queues' = [queues EXCEPT ![d] = Tail(queues[d])]
      /\ results' = [results EXCEPT ![first] = [status |-> "dispatched", due |-> FALSE]]
      /\ answer = Deliver(first)
  BY DEF Dispatch
<1>3. first \in Queued(d) /\ first \in CommandId /\ first \in Submitted /\ target[first] = d
  <2>1. first = queues[d][1] /\ 1 \in 1..Len(queues[d])
    BY <1>1, HeadTail
  <2>2. first \in Queued(d)
    BY <2>1 DEF Queued
  <2>. QED  BY <1>1, <2>2, Ids DEF BridgeInv, Owned
<1>4. Submitted' = Submitted
  BY DEF Submitted
<1>5. ASSUME NEW e \in Device, e # d
      PROVE  queues'[e] = queues[e] /\ Queued(e)' = Queued(e) /\ InFlight(e)' = InFlight(e)
  <2>1. queues'[e] = queues[e]
    BY <1>1, <1>2, <1>5
  <2>2. \A c \in Submitted : target[c] = e => results'[c] = results[c]
    BY <1>1, <1>2, <1>3, <1>5, SubmittedIds
  <2>. QED  BY <1>4, <2>1, <2>2 DEF Queued, InFlight
<1>6. InFlight(d)' = {first}
  <2>1. results'[first].status = "dispatched"
    BY <1>1, <1>2, <1>3
  <2>2. \A c \in Submitted : c # first => results'[c] = results[c]
    BY <1>1, <1>2, <1>3, SubmittedIds
  <2>. QED  BY <1>3, <1>4, <2>1, <2>2 DEF InFlight
<1>7. /\ \A i \in 1..Len(queues'[d]) : i + 1 \in 1..Len(queues[d]) /\ queues'[d][i] = queues[d][i + 1]
      /\ Len(queues[d]) \in Nat /\ Len(queues'[d]) \in Nat
      /\ first = queues[d][1] /\ 1 \in 1..Len(queues[d])
  <2>1. queues'[d] = Tail(queues[d])
    BY <1>1, <1>2
  <2>. QED  BY <1>1, <2>1, HeadTail
<1>8. Queued(d)' \subseteq Queued(d) /\ \A c \in Queued(d)' : first < c
  <2>1. ASSUME NEW i \in 1..Len(queues'[d])
        PROVE  queues'[d][i] \in Queued(d) /\ first < queues'[d][i]
    <3>1. i + 1 \in 1..Len(queues[d]) /\ queues'[d][i] = queues[d][i + 1] /\ 1 < i + 1
      BY <1>7
    <3>. QED  BY <1>7, <3>1 DEF Queued, BridgeInv, QueueIncreases
  <2>. QED  BY <2>1 DEF Queued
<1>9. QueueIncreases'
  <2>1. ASSUME NEW i \in 1..Len(queues'[d]), NEW j \in 1..Len(queues'[d]), i < j
        PROVE  queues'[d][i] < queues'[d][j]
    <3>1. i + 1 \in 1..Len(queues[d]) /\ j + 1 \in 1..Len(queues[d]) /\ i + 1 < j + 1
      BY <1>7, <2>1
    <3>. QED  BY <1>7, <3>1 DEF BridgeInv, QueueIncreases
  <2>. QED  BY <1>5, <2>1 DEF BridgeInv, QueueIncreases
<1>10. OneInFlight'
  BY <1>5, <1>6 DEF BridgeInv, OneInFlight
<1>11. ASSUME NEW e \in Device
       PROVE  /\ Queued(e)' \subseteq Queued(e)
              /\ \A b \in Ran(e) \cup Executing(e), c \in InFlight(e)' : b <= c
              /\ \A b \in InFlight(e)', c \in Queued(e)' : b < c
  <2>1. CASE e # d
    BY <1>5, <2>1 DEF BridgeInv, Ordered
  <2>2. CASE e = d
    <3>1. \A b \in Ran(d) \cup Executing(d) : b < first /\ b \in Nat
      BY <1>1, <1>3, Ids DEF BridgeInv, Ordered
    <3>2. first \in Nat
      BY <1>1, <1>3, Ids
    <3>. QED  BY <1>6, <1>8, <2>2, <3>1, <3>2
  <2>. QED  BY <2>1, <2>2
<1>12. /\ \A c \in CommandId : results'[c].status # "none" => c \in Submitted
       /\ \A e \in Device : \A c \in Submitted :
            target[c] = e /\ results'[c].status \in Answered => c \in Ran(e)
  <2>1. results'[first].status = "dispatched" /\ "dispatched" \notin Answered
    BY <1>1, <1>2, <1>3 DEF Answered
  <2>2. \A c \in CommandId : c # first => results'[c] = results[c]
    BY <1>1, <1>2
  <2>3. Submitted \subseteq CommandId
    BY <1>1, SubmittedIds
  <2>4. \A c \in CommandId : results'[c].status # "none" => c \in Submitted
    BY <1>3, <2>2 DEF BridgeInv, Owned
  <2>5. ASSUME NEW e \in Device, NEW c \in Submitted,
               target[c] = e, results'[c].status \in Answered
        PROVE  c \in Ran(e)
    <3>1. c # first
      BY <2>1, <2>5
    <3>2. results[c].status \in Answered
      BY <2>2, <2>3, <2>5, <3>1
    <3>. QED  BY <2>5, <3>2 DEF BridgeInv, Posted
  <2>. QED  BY <2>4, <2>5
<1>13. \A c \in Submitted : answer = Deliver(c) => c \in InFlight(d)'
  <2>1. \A c : Deliver(c).cmd = c
    BY DEF Deliver
  <2>. QED  BY <1>2, <1>6, <2>1
<1>. QED  BY <1>9, <1>10, <1>11, <1>12, <1>13 DEF Served

LEMMA ServeServed ==
    ASSUME BridgeInv, NEW d \in Device, NEW req \in Request, NEW answer \in Answers,
           Serve(d, req, answer), target' = target,
           req.kind = "result" => req.cmd \in Ran(d)
    PROVE  Served(d, answer)
<1>1. /\ BridgeTypeOK
      /\ results \in [CommandId -> Result]
      /\ Submitted' = Submitted
  BY DEF BridgeInv, BridgeTypeOK, Submitted
<1>2. \A c : Deliver(c) \notin {NotFound, NoCommand, Done} /\ Deliver(c).cmd = c
  <2>1. \A c : Deliver(c).kind = "command" /\ Deliver(c).cmd = c
    BY DEF Deliver
  <2>2. NotFound.kind = "not found" /\ NoCommand.kind = "no command" /\ Done.kind = "done"
    BY DEF NotFound, NoCommand, Done
  <2>. QED  BY <2>1, <2>2
<1>3. CASE UNCHANGED <<queues, results>> /\ answer \in {NotFound, NoCommand, Done}
  <2>1. \A e \in Device : Queued(e)' = Queued(e) /\ InFlight(e)' = InFlight(e)
    BY <1>1, <1>3 DEF Queued, InFlight
  <2>2. QueueIncreases'
    BY <1>3 DEF BridgeInv, QueueIncreases
  <2>3. \A e \in Device : \A c \in Submitted :
          target[c] = e /\ results'[c].status \in Answered => c \in Ran(e)
    BY <1>3 DEF BridgeInv, Posted
  <2>. QED  BY <1>2, <1>3, <2>1, <2>2, <2>3, LessServed
<1>4. ASSUME NEW c \in InFlight(d), Redeliver(c, answer), UNCHANGED queues
      PROVE  Served(d, answer)
  <2>1. \A b \in CommandId : results'[b].status = results[b].status
    <3>1. c \in CommandId
      BY <1>1, Ids
    <3>. QED  BY <1>1, <1>4, <3>1 DEF Redeliver, Result
  <2>2. \A e \in Device : Queued(e)' = Queued(e) /\ InFlight(e)' = InFlight(e)
    BY <1>1, <1>4, <2>1, SubmittedIds DEF Queued, InFlight
  <2>3. QueueIncreases'
    BY <1>4 DEF BridgeInv, QueueIncreases
  <2>4. \A e \in Device : \A b \in Submitted :
          target[b] = e /\ results'[b].status \in Answered => b \in Ran(e)
    BY <1>1, <2>1, SubmittedIds DEF BridgeInv, Posted
  <2>5. \A b \in Submitted : answer = Deliver(b) => b \in InFlight(d)'
    BY <1>2, <1>4, <2>2 DEF Redeliver
  <2>. QED  BY <2>1, <2>2, <2>3, <2>4, <2>5, LessServed
<1>5. CASE RemoteDeviceNextCommand(d, answer)
  <2>1. CASE queues[d] # << >> /\ ~HasInFlight(d) /\ Dispatch(d, answer)
    BY <2>1, DispatchServed DEF HasInFlight
  <2>. QED  BY <1>3, <1>4, <1>5, <2>1 DEF RemoteDeviceNextCommand
<1>6. CASE req.kind = "result" /\ RemoteDeviceCommandResult(d, req.cmd, req.success, answer)
  <2> DEFINE c == req.cmd
  <2>1. c \in CommandId /\ c \in Ran(d) /\ StatusOf(req.success) \in Answered
    BY <1>6, RequestParts DEF StatusOf, Answered
  <2>2. answer \in {NotFound, Done} /\ UNCHANGED queues
    BY <1>6 DEF RemoteDeviceCommandResult
  <2>3. CASE UNCHANGED results
    BY <1>3, <2>2, <2>3
  <2>4. CASE /\ results[c].status # "none" /\ target[c] = d
             /\ results' = [results EXCEPT ![c].status = StatusOf(req.success)]
    <3>1. /\ results'[c].status \in Answered
          /\ \A b \in CommandId : b # c => results'[b] = results[b]
      <4>. HIDE DEF c
      <4>. QED  BY <1>1, <2>1, <2>4 DEF Result
    <3>2. \A e \in Device : Queued(e)' = Queued(e)
      BY <2>2 DEF Queued
    <3>3. \A e \in Device : InFlight(e)' \subseteq InFlight(e)
      BY <1>1, <3>1, SubmittedIds DEF InFlight, Answered
    <3>4. QueueIncreases'
      BY <2>2 DEF BridgeInv, QueueIncreases
    <3>5. \A e \in Device : \A b \in Submitted :
            target[b] = e /\ results'[b].status \in Answered => b \in Ran(e)
      BY <1>1, <2>1, <2>4, <3>1, SubmittedIds DEF BridgeInv, Posted
    <3>6. \A b \in CommandId : results'[b].status # "none" => results[b].status # "none"
      BY <2>4, <3>1
    <3>. QED  BY <1>2, <2>2, <3>2, <3>3, <3>4, <3>5, <3>6, LessServed
  <2>. QED  BY <1>6, <2>3, <2>4 DEF RemoteDeviceCommandResult
<1>. QED
  BY <1>3, <1>5, <1>6 DEF Serve, RemoteDeviceRegister, RemoteDeviceHeartbeat

\* A step of the server and of the clients that neither submits nor executes.
LEMMA OrderKept ==
    ASSUME BridgeInv, BridgeTypeOK', target' = target, runs' = runs,
           NEW d \in Device, NEW answer, Served(d, answer),
           \A e \in Device : \A c \in Executing(e)' :
             c \in Executing(e) \/ (e = d /\ c \in InFlight(d)'),
           \A e \in Device : client'[e].phase = "waiting" /\ client'[e].for.kind = "result" =>
             client'[e].for.cmd \in Ran(e),
           \A s \in strays' : s.for.kind = "result" => s.for.cmd \in Ran(s.from)
    PROVE  BridgeInv'
<1>1. Submitted' = Submitted /\ \A e \in Device : Ran(e)' = Ran(e)
  BY DEF Submitted, Ran
<1>2. \A e, b : Ran(e)' = Ran(e) => (b \in Ran(e)' <=> b \in Ran(e))
  OBVIOUS
<1>3. Owned'
  <2>1. ASSUME NEW e \in Device, NEW c \in Queued(e)' \cup Ran(e)' \cup Executing(e)'
        PROVE  c \in Submitted' /\ target'[c] = e
    <3>1. \/ c \in Queued(e) \cup Ran(e) \cup Executing(e)
          \/ e = d /\ c \in InFlight(d)'
      BY <1>1, <2>1 DEF Served
    <3>. QED  BY <1>1, <3>1 DEF BridgeInv, Owned, InFlight
  <2>. QED  BY <1>1, <2>1 DEF Served, Owned
<1>4. Posted'
  <2>1. \A s \in strays' : s.from \in Device
    BY DEF BridgeTypeOK
  <2>. QED  BY <1>1, <2>1 DEF Served, Posted
<1>5. Ordered'
  <2>1. ASSUME NEW e \in Device
        PROVE  /\ \A b \in Ran(e)' \cup Executing(e)' \cup InFlight(e)', c \in Queued(e)' : b < c
               /\ \A b \in Ran(e)' \cup Executing(e)', c \in InFlight(e)' : b <= c
               /\ \A b \in Ran(e)', c \in Executing(e)' : b <= c
    <3>1. \A b \in Executing(e)' : b \in Executing(e) \/ b \in InFlight(e)'
      OBVIOUS
    <3>2. \A b \in InFlight(e)' : b \in Nat
      BY Ids, <1>1, SubmittedIds DEF BridgeInv, InFlight
    <3>3. \A b \in InFlight(e)', c \in InFlight(e)' : b = c
      BY DEF Served, OneInFlight
    <3>. QED  BY <1>1, <3>1, <3>2, <3>3 DEF BridgeInv, Ordered, Served
  <2>. QED  BY <2>1 DEF Ordered
<1>6. NeverGoesBack'
  BY DEF BridgeInv, NeverGoesBack
<1>. QED  BY <1>3, <1>4, <1>5, <1>6 DEF BridgeInv, Served

\* A step that leaves the server's memory alone but for what it forgets.
LEMMA ServerForgets ==
    ASSUME BridgeInv, target' = target, NEW d \in Device,
           \A e \in Device : queues'[e] \in {queues[e], << >>},
           \A c \in CommandId : results'[c].status \in {results[c].status, "none"}
    PROVE  Served(d, NoCommand)
<1>1. Submitted' = Submitted /\ Submitted \subseteq CommandId
  BY SubmittedIds DEF Submitted, BridgeInv
<1>2. \A e \in Device : Queued(e)' \subseteq Queued(e)
  BY EmptySeq DEF Queued
<1>3. \A e \in Device : InFlight(e)' \subseteq InFlight(e)
  BY <1>1 DEF InFlight
<1>4. QueueIncreases'
  <2>1. \A e \in Device : queues'[e] = << >> => 1..Len(queues'[e]) = {}
    BY EmptySeq
  <2>. QED  BY <2>1 DEF BridgeInv, QueueIncreases
<1>5. \A e \in Device : \A c \in Submitted :
        target[c] = e /\ results'[c].status \in Answered => c \in Ran(e)
  BY <1>1 DEF BridgeInv, Posted, Answered
<1>6. \A c : NoCommand # Deliver(c)
  <2>1. NoCommand.kind = "no command" /\ \A c : Deliver(c).kind = "command"
    BY DEF NoCommand, Deliver
  <2>. QED  BY <2>1
<1>. QED  BY <1>2, <1>3, <1>4, <1>5, <1>6, LessServed

\* Device d's client stops executing, or goes on as before.
LEMMA ClientMoves ==
    ASSUME BridgeInv, NEW d \in Device, NEW state \in Client, Become(d, state),
           state.phase = "running" => state = client[d] \/ state.cmd \in InFlight(d)',
           state.phase = "waiting" /\ state.for.kind = "result" => state.for.cmd \in Ran(d)
    PROVE  /\ \A e \in Device : \A c \in Executing(e)' :
                c \in Executing(e) \/ (e = d /\ c \in InFlight(d)')
           /\ \A e \in Device : client'[e].phase = "waiting" /\ client'[e].for.kind = "result" =>
                client'[e].for.cmd \in Ran(e)
<1>1. client'[d] = state /\ \A e \in Device \ {d} : client'[e] = client[e]
  BY DEF Become, BridgeInv, BridgeTypeOK
<1>. QED  BY <1>1 DEF Executing, BridgeInv, Posted

\* The elements of a sequence after one more.
LEMMA AppendElements ==
    ASSUME NEW S, NEW seq \in Seq(S), NEW x \in S
    PROVE  /\ Len(Append(seq, x)) = Len(seq) + 1 /\ Len(seq) \in Nat
           /\ \A i \in 1..Len(seq) : i \in 1..Len(Append(seq, x)) /\ Append(seq, x)[i] = seq[i]
           /\ Append(seq, x)[Len(seq) + 1] = x
           /\ \A i \in 1..Len(Append(seq, x)) : i \in 1..Len(seq) \/ i = Len(seq) + 1
BY AppendProperties, LenProperties

LEMMA ExecuteKeeps ==
    ASSUME BridgeInv, BridgeTypeOK', NEW d \in Device, ExecuteCommand(d)
    PROVE  BridgeInv'
<1> DEFINE c == client[d].cmd
<1>1. /\ BridgeTypeOK /\ client[d] \in Client /\ runs[d] \in Seq(CommandId)
      /\ client \in [Device -> Client] /\ runs \in [Device -> Seq(CommandId)]
  BY DEF BridgeInv, BridgeTypeOK
<1>2. c \in CommandId /\ c \in Executing(d)
  BY <1>1, ClientParts DEF ExecuteCommand, Executing
<1>3. /\ runs' = [runs EXCEPT ![d] = Append(runs[d], c)]
      /\ UNCHANGED <<devices, queues, results, target, strays>>
  BY DEF ExecuteCommand
<1>4. PICK success \in BOOLEAN :
        Become(d, Waiting([kind |-> "result", cmd |-> c, success |-> success]))
  BY DEF ExecuteCommand
<1>5. /\ client'[d].phase = "waiting" /\ client'[d].for.cmd = c
      /\ \A e \in Device : e # d => client'[e] = client[e]
  <2> DEFINE req == [kind |-> "result", cmd |-> c, success |-> success]
  <2>1. req.cmd = c
    OBVIOUS
  <2>. HIDE DEF req, c
  <2>2. client'[d] = Waiting(req) /\ \A e \in Device : e # d => client'[e] = client[e]
    BY <1>1, <1>4 DEF Become, req
  <2>. QED  BY <2>1, <2>2, Phases
<1>. HIDE DEF c
<1>6. Submitted' = Submitted /\ Submitted \subseteq CommandId
  BY <1>1, <1>3, SubmittedIds DEF Submitted
<1>7. \A e \in Device : Queued(e)' = Queued(e) /\ InFlight(e)' = InFlight(e)
  BY <1>3, <1>6 DEF Queued, InFlight
<1>8. Executing(d)' = {} /\ \A e \in Device : e # d => Executing(e)' = Executing(e)
  BY <1>5 DEF Executing
<1>9. Ran(d)' = Ran(d) \cup {c} /\ \A e \in Device : e # d => Ran(e)' = Ran(e)
  <2>1. runs'[d] = Append(runs[d], c) /\ \A e \in Device : e # d => runs'[e] = runs[e]
    BY <1>1, <1>3
  <2>2. /\ \A i \in 1..Len(runs[d]) : i \in 1..Len(runs'[d]) /\ runs'[d][i] = runs[d][i]
        /\ Len(runs[d]) + 1 \in 1..Len(runs'[d]) /\ runs'[d][Len(runs[d]) + 1] = c
        /\ \A i \in 1..Len(runs'[d]) : i \in 1..Len(runs[d]) \/ i = Len(runs[d]) + 1
    BY <1>1, <1>2, <2>1, AppendElements
  <2>. QED  BY <2>1, <2>2 DEF Ran
<1>10. Owned'
  BY <1>2, <1>3, <1>6, <1>7, <1>8, <1>9 DEF BridgeInv, Owned
<1>11. Posted'
  <2>1. \A s \in strays : s.from \in Device
    BY <1>1 DEF BridgeTypeOK
  <2>2. \A e \in Device : Ran(e) \subseteq Ran(e)'
    BY <1>9
  <2>3. \A e \in Device : client'[e].phase = "waiting" /\ client'[e].for.kind = "result" =>
          client'[e].for.cmd \in Ran(e)'
    BY <1>5, <1>9 DEF BridgeInv, Posted
  <2>. QED  BY <1>3, <1>6, <2>1, <2>2, <2>3 DEF BridgeInv, Posted
<1>12. OneInFlight' /\ QueueIncreases'
  BY <1>3, <1>7 DEF BridgeInv, OneInFlight, QueueIncreases
<1>13. Ordered'
  BY <1>2, <1>7, <1>8, <1>9 DEF BridgeInv, Ordered
<1>14. NeverGoesBack'
  <2>1. ASSUME NEW e \in Device, NEW i \in DOMAIN runs'[e], NEW j \in DOMAIN runs'[e], i < j
        PROVE  runs'[e][i] <= runs'[e][j]
    <3>1. CASE e # d
      <4>1. runs'[e] = runs[e]
        BY <1>1, <1>3, <3>1
      <4>. QED  BY <2>1, <4>1 DEF BridgeInv, NeverGoesBack
    <3>2. CASE e = d
      <4>1. runs'[d] = Append(runs[d], c) /\ runs'[d] \in Seq(CommandId)
        BY <1>1, <1>2, <1>3, AppendProperties
      <4>2. i \in 1..Len(runs'[d]) /\ j \in 1..Len(runs'[d])
        BY <2>1, <3>2, <4>1, LenProperties
      <4>3. i \in 1..Len(runs[d]) /\ runs'[d][i] = runs[d][i]
        BY <1>1, <1>2, <2>1, <4>1, <4>2, AppendElements
      <4>4. CASE j \in 1..Len(runs[d])
        <5>1. runs'[d][j] = runs[d][j] /\ DOMAIN runs[d] = 1..Len(runs[d])
          BY <1>1, <1>2, <4>1, <4>4, AppendElements, LenProperties
        <5>. QED  BY <2>1, <3>2, <4>3, <4>4, <5>1 DEF BridgeInv, NeverGoesBack
      <4>5. CASE j = Len(runs[d]) + 1
        <5>1. runs'[d][j] = c /\ runs[d][i] \in Ran(d)
          BY <1>1, <1>2, <4>1, <4>3, <4>5, AppendElements DEF Ran
        <5>. QED  BY <1>2, <3>2, <4>3, <5>1 DEF BridgeInv, Ordered
      <4>. QED  BY <1>1, <1>2, <4>1, <4>2, <4>4, <4>5, AppendElements
    <3>. QED  BY <3>1, <3>2
  <2>. QED  BY <2>1 DEF NeverGoesBack
<1>. QED  BY <1>10, <1>11, <1>12, <1>13, <1>14 DEF BridgeInv

LEMMA SubmitKeeps ==
    ASSUME BridgeInv, BridgeTypeOK', NEW d \in Device, RemoteCommand(d)
    PROVE  BridgeInv'
<1> DEFINE n == Len(target) + 1
<1>1. /\ BridgeTypeOK /\ queues \in [Device -> Seq(CommandId)]
      /\ Len(target) \in Nat /\ target \in Seq(Device) /\ queues[d] \in Seq(CommandId)
  BY LenProperties DEF BridgeInv, BridgeTypeOK
<1>2. /\ target' = Append(target, d)
      /\ queues' = [queues EXCEPT ![d] = Append(queues[d], n)]
      /\ UNCHANGED <<devices, results, client, strays, runs, faults>>
  BY DEF RemoteCommand
<1>3. n \in CommandId /\ n \notin Submitted /\ \A c \in Submitted : c < n /\ c \in Nat
  BY <1>1, RemoteBridgeAssumption DEF RemoteCommand, CommandId, Submitted
<1>4. /\ Submitted' = Submitted \cup {n}
      /\ target'[n] = d /\ \A c \in Submitted : target'[c] = target[c]
  <2>1. Len(target') = n /\ target'[n] = d /\ \A i \in 1..Len(target) : target'[i] = target[i]
    BY <1>1, <1>2, AppendElements
  <2>. QED  BY <1>1, <2>1 DEF Submitted
<1>. HIDE DEF n
<1>5. results[n].status = "none"
  BY <1>3 DEF BridgeInv, Owned
<1>6. \A e \in Device : InFlight(e)' = InFlight(e)
  BY <1>2, <1>3, <1>4, <1>5 DEF InFlight
<1>7. \A e \in Device : Ran(e)' = Ran(e) /\ Executing(e)' = Executing(e)
  BY <1>2 DEF Ran, Executing
<1>8. queues'[d] = Append(queues[d], n) /\ \A e \in Device : e # d => queues'[e] = queues[e]
  BY <1>1, <1>2
<1>9. /\ \A i \in 1..Len(queues[d]) : i \in 1..Len(queues'[d]) /\ queues'[d][i] = queues[d][i]
      /\ Len(queues[d]) + 1 \in 1..Len(queues'[d]) /\ queues'[d][Len(queues[d]) + 1] = n
      /\ \A i \in 1..Len(queues'[d]) : i \in 1..Len(queues[d]) \/ i = Len(queues[d]) + 1
      /\ Len(queues[d]) \in Nat
  BY <1>1, <1>3, <1>8, AppendElements
<1>10. Queued(d)' = Queued(d) \cup {n} /\ \A e \in Device : e # d => Queued(e)' = Queued(e)
  BY <1>8, <1>9 DEF Queued
<1>11. Owned'
  <2>1. ASSUME NEW e \in Device, NEW c \in Queued(e)' \cup Ran(e)' \cup Executing(e)'
        PROVE  c \in Submitted' /\ target'[c] = e
    <3>1. c \in Queued(e) \cup Ran(e) \cup Executing(e) \/ (e = d /\ c = n)
      BY <1>7, <1>10, <2>1
    <3>. QED  BY <1>4, <3>1 DEF BridgeInv, Owned
  <2>2. \A c \in CommandId : results'[c].status # "none" => c \in Submitted'
    BY <1>2, <1>4 DEF BridgeInv, Owned
  <2>. QED  BY <2>1, <2>2 DEF Owned
<1>12. Posted'
  <2>1. ASSUME NEW e \in Device, NEW c \in Submitted', target'[c] = e, results'[c].status \in Answered
        PROVE  c \in Ran(e)'
    <3>1. c # n
      BY <1>2, <1>5, <2>1 DEF Answered
    <3>. QED  BY <1>2, <1>4, <1>7, <2>1, <3>1 DEF BridgeInv, Posted
  <2>2. \A s \in strays : s.from \in Device
    BY <1>1 DEF BridgeTypeOK
  <2>. QED  BY <1>2, <1>7, <2>1, <2>2 DEF BridgeInv, Posted
<1>13. QueueIncreases'
  <2>1. ASSUME NEW e \in Device, NEW i \in 1..Len(queues'[e]), NEW j \in 1..Len(queues'[e]), i < j
        PROVE  queues'[e][i] < queues'[e][j]
    <3>1. CASE e # d
      BY <1>8, <2>1, <3>1 DEF BridgeInv, QueueIncreases
    <3>2. CASE e = d
      <4>1. i \in 1..Len(queues[d]) /\ queues'[d][i] = queues[d][i]
        BY <1>9, <2>1, <3>2
      <4>2. CASE j \in 1..Len(queues[d])
        BY <1>9, <2>1, <3>2, <4>1, <4>2 DEF BridgeInv, QueueIncreases
      <4>3. CASE j = Len(queues[d]) + 1
        <5>1. queues[d][i] \in Queued(d)
          BY <4>1 DEF Queued
        <5>2. queues[d][i] < n
          BY <1>3, <5>1 DEF BridgeInv, Owned
        <5>. QED  BY <1>9, <3>2, <4>1, <4>3, <5>2
      <4>. QED  BY <1>9, <2>1, <3>2, <4>2, <4>3
    <3>. QED  BY <3>1, <3>2
  <2>. QED  BY <2>1 DEF QueueIncreases
<1>14. Ordered'
  <2>1. ASSUME NEW e \in Device
        PROVE  \A b \in Ran(e) \cup Executing(e) \cup InFlight(e) : b < n
    BY <1>3 DEF BridgeInv, Owned, InFlight
  <2>. QED  BY <1>6, <1>7, <1>10, <2>1 DEF BridgeInv, Ordered
<1>15. OneInFlight' /\ NeverGoesBack'
  BY <1>2, <1>6 DEF BridgeInv, OneInFlight, NeverGoesBack
<1>. QED  BY <1>11, <1>12, <1>13, <1>14, <1>15 DEF BridgeInv

LEMMA BridgeInvInit == BridgeInit => BridgeInv
<1> SUFFICES ASSUME BridgeInit PROVE BridgeInv
  OBVIOUS
<1>1. BridgeTypeOK
  BY BridgeTypeInit
<1>2. 1..Len(<< >>) = {} /\ DOMAIN << >> = {}
  BY EmptySeq
<1>3. /\ Submitted = {}
      /\ \A d \in Device : /\ queues[d] = << >> /\ runs[d] = << >>
                           /\ client[d].phase = "new"
      /\ \A c \in CommandId : results[c].status = "none"
  BY <1>2, Phases DEF BridgeInit, Submitted, NoResult
<1>4. \A d \in Device : Queued(d) = {} /\ Ran(d) = {} /\ Executing(d) = {} /\ InFlight(d) = {}
  BY <1>2, <1>3 DEF Queued, Ran, Executing, InFlight
<1>5. Owned /\ OneInFlight /\ Ordered
  BY <1>3, <1>4 DEF Owned, OneInFlight, Ordered
<1>6. Posted
  BY <1>3 DEF Posted, BridgeInit
<1>7. QueueIncreases /\ NeverGoesBack
  BY <1>2, <1>3 DEF QueueIncreases, NeverGoesBack
<1>. QED  BY <1>1, <1>5, <1>6, <1>7 DEF BridgeInv

\* The step of one client, given what the server has done for it.
LEMMA MoveKeeps ==
    ASSUME BridgeInv, BridgeTypeOK', target' = target, runs' = runs,
           NEW d \in Device, NEW state \in Client, Become(d, state),
           NEW answer, Served(d, answer),
           state.phase = "running" => state = client[d] \/ state.cmd \in InFlight(d)',
           state.phase = "waiting" /\ state.for.kind = "result" => state.for.cmd \in Ran(d),
           \A s \in strays' : s.for.kind = "result" => s.for.cmd \in Ran(s.from)
    PROVE  BridgeInv'
BY ClientMoves, OrderKept

LEMMA BridgeInvNext ==
    ASSUME BridgeInv, [BridgeNext]_bvars
    PROVE  BridgeInv'
<1>1. BridgeTypeOK /\ BridgeTypeOK'
  BY BridgeTypeNext DEF BridgeInv
<1>2. \A s \in strays : s.for.kind = "result" => s.for.cmd \in Ran(s.from)
  BY DEF BridgeInv, Posted
<1>3. \A e \in Device : client[e].phase = "waiting" /\ client[e].for.kind = "result" =>
        client[e].for.cmd \in Ran(e)
  BY DEF BridgeInv, Posted
<1>4. ASSUME NEW d \in Device, SendRegister(d) \/ SendHeartbeat(d) \/ SendPoll(d)
      PROVE  BridgeInv'
  <2>1. Served(d, NoCommand)
    BY <1>4, ServerForgets DEF SendRegister, SendHeartbeat, SendPoll
  <2>2. PICK kind \in {"register", "heartbeat", "next"} : Become(d, Waiting([kind |-> kind]))
    BY <1>4 DEF SendRegister, SendHeartbeat, SendPoll
  <2>3. [kind |-> kind] \in Request
    BY RequestForms
  <2>4. /\ Waiting([kind |-> kind]) \in Client
        /\ Waiting([kind |-> kind]).phase = "waiting"
        /\ Waiting([kind |-> kind]).for.kind # "result"
    BY <2>3, Phases, ClientForms
  <2>. QED
    BY <1>1, <1>2, <1>4, <2>1, <2>2, <2>4, MoveKeeps DEF SendRegister, SendHeartbeat, SendPoll
<1>5. ASSUME NEW d \in Device, GiveUp(d) \/ ClientRestart(d) \/ Relaunch(d)
      PROVE  BridgeInv'
  <2>1. Served(d, NoCommand)
    BY <1>5, ServerForgets DEF GiveUp, ClientRestart, Relaunch
  <2>2. Become(d, New) /\ New \in Client /\ New.phase = "new"
    BY <1>5, ClientForms, Phases DEF GiveUp, ClientRestart, Relaunch
  <2>3. \A s \in strays' : \/ s \in strays
                           \/ /\ s = [from |-> d, for |-> client[d].for]
                              /\ client[d].phase = "waiting"
    BY <1>5 DEF GiveUp, ClientRestart, Relaunch
  <2>4. \A s \in strays' : s.for.kind = "result" => s.for.cmd \in Ran(s.from)
    BY <1>2, <1>3, <2>3
  <2>. QED
    BY <1>1, <1>5, <2>1, <2>2, <2>4, MoveKeeps DEF GiveUp, ClientRestart, Relaunch
<1>6. ASSUME NEW d \in Device, Exchange(d) \/ AnswerLost(d) PROVE BridgeInv'
  <2>1. client[d].for \in Request /\ client[d].phase = "waiting"
    BY <1>1, <1>6, StrayType DEF Exchange, AnswerLost
  <2>2. target' = target /\ runs' = runs /\ strays' = strays
    BY <1>6 DEF Exchange, AnswerLost
  <2>3. PICK answer \in Answers : /\ Serve(d, client[d].for, answer)
                                  /\ \/ Become(d, After(client[d].for, answer))
                                     \/ Become(d, New)
    BY <1>6 DEF Exchange, AnswerLost
  <2>4. Served(d, answer)
    BY <1>3, <2>1, <2>2, <2>3, ServeServed
  <2>5. PICK state \in Client : /\ Become(d, state)
                                /\ state.phase # "waiting"
                                /\ state.phase = "running" => state.cmd \in InFlight(d)'
    <3>1. CASE Become(d, New)
      BY <3>1, ClientForms, Phases
    <3>2. CASE Become(d, After(client[d].for, answer))
      <4>1. /\ After(client[d].for, answer) \in Client
            /\ \/ After(client[d].for, answer) \in {Exited, Polling, Idle}
               \/ \E c \in Submitted : answer = Deliver(c) /\ After(client[d].for, answer) = Running(c)
        BY <1>1, <2>1, AfterType
      <4>2. CASE After(client[d].for, answer) \in {Exited, Polling, Idle}
        <5>1. After(client[d].for, answer).phase \in {"exited", "polling", "idle"}
          BY <4>2, Phases
        <5>. QED  BY <3>2, <4>1, <5>1
      <4>3. CASE \E c \in Submitted : answer = Deliver(c) /\ After(client[d].for, answer) = Running(c)
        <5>1. PICK c \in Submitted : answer = Deliver(c) /\ After(client[d].for, answer) = Running(c)
          BY <4>3
        <5>2. c \in InFlight(d)'
          BY <2>4, <5>1 DEF Served
        <5>. QED  BY <3>2, <4>1, <5>1, <5>2, Phases
      <4>. QED  BY <4>1, <4>2, <4>3
    <3>. QED  BY <2>3, <3>1, <3>2
  <2>. QED  BY <1>1, <1>2, <2>2, <2>4, <2>5, MoveKeeps
<1>7. ASSUME NEW d \in Device, PruneDevice(d) PROVE BridgeInv'
  <2>1. \A e \in Device : queues'[e] \in {queues[e], << >>}
    BY <1>1, <1>7 DEF PruneDevice, BridgeTypeOK
  <2>2. Served(d, NoCommand)
    BY <1>7, <2>1, ServerForgets DEF PruneDevice
  <2>. QED  BY <1>1, <1>2, <1>3, <1>7, <2>2, OrderKept DEF PruneDevice, Executing
<1>8. ASSUME NEW c \in CommandId, DispatchTimeout(c) PROVE BridgeInv'
  <2>1. \A b \in CommandId : results'[b].status = results[b].status
    BY <1>1, <1>8 DEF DispatchTimeout, BridgeTypeOK, Result
  <2>2. PICK d \in Device : TRUE
    BY <1>1, <1>8, ElementOfSeq DEF DispatchTimeout, Submitted, BridgeTypeOK
  <2>3. Served(d, NoCommand)
    BY <1>8, <2>1, ServerForgets DEF DispatchTimeout
  <2>. QED  BY <1>1, <1>2, <1>3, <1>8, <2>3, OrderKept DEF DispatchTimeout, Executing
<1>9. ASSUME NEW c \in CommandId, PruneResult(c) PROVE BridgeInv'
  <2>1. \A b \in CommandId : results'[b].status \in {results[b].status, "none"}
    BY <1>1, <1>9 DEF PruneResult, BridgeTypeOK, NoResult
  <2>2. PICK d \in Device : TRUE
    <3>1. c \in Submitted
      BY <1>9 DEF PruneResult, BridgeInv, Owned
    <3>. QED  BY <1>1, <3>1, ElementOfSeq DEF Submitted, BridgeTypeOK
  <2>3. Served(d, NoCommand)
    BY <1>9, <2>1, ServerForgets DEF PruneResult
  <2>. QED  BY <1>1, <1>2, <1>3, <1>9, <2>3, OrderKept DEF PruneResult, Executing
<1>10. CASE ServeStray
  <2>1. PICK s \in strays : /\ strays' = strays \ {s}
                            /\ \E answer \in Answers : Serve(s.from, s.for, answer)
    BY <1>10 DEF ServeStray
  <2>2. PICK answer \in Answers : Serve(s.from, s.for, answer)
    BY <2>1
  <2>3. s.from \in Device /\ s.for \in Request
    BY <1>1 DEF BridgeTypeOK
  <2>4. Served(s.from, answer)
    BY <1>2, <1>10, <2>2, <2>3, ServeServed DEF ServeStray
  <2>. QED
    BY <1>1, <1>2, <1>3, <1>10, <2>1, <2>3, <2>4, OrderKept DEF ServeStray, Executing
<1>11. CASE ServerRestart
  <2>1. CASE Device = {}
    <3>1. strays' = {} /\ Submitted' = {} /\ Submitted = {}
      <4>1. Len(target) = 0
        BY <1>1, <2>1, ElementOfSeq, LenProperties DEF BridgeTypeOK
      <4>. QED  BY <1>1, <1>11, <2>1, <4>1 DEF ServerRestart, BridgeTypeOK, Submitted
    <3>2. \A c \in CommandId : results'[c].status = "none"
      BY <1>11 DEF ServerRestart, NoResult
    <3>. QED
      BY <1>1, <2>1, <3>1, <3>2 DEF BridgeInv, Owned, OneInFlight, Posted, QueueIncreases,
         Ordered, NeverGoesBack
  <2>2. CASE Device # {}
    <3>1. PICK d \in Device : TRUE
      BY <2>2
    <3>2. Served(d, NoCommand)
      BY <1>11, ServerForgets DEF ServerRestart, NoResult
    <3>. QED  BY <1>1, <1>2, <1>3, <1>11, <3>2, OrderKept DEF ServerRestart, Executing
  <2>. QED  BY <2>1, <2>2
<1>12. CASE UNCHANGED bvars
  BY <1>1, <1>12 DEF bvars, BridgeInv, Owned, OneInFlight, Posted, QueueIncreases, Ordered,
     NeverGoesBack, Queued, Ran, Executing, InFlight, Submitted
<1>. QED
  BY <1>1, <1>4, <1>5, <1>6, <1>7, <1>8, <1>9, <1>10, <1>11, <1>12, ExecuteKeeps, SubmitKeeps
  DEF BridgeNext

\* The invariant holds of every reachable state.
LEMMA BridgeInvariant == BridgeSpec => []BridgeInv
<1>1. BridgeInit => BridgeInv
  BY BridgeInvInit
<1>2. BridgeInv /\ [BridgeNext]_bvars => BridgeInv'
  BY BridgeInvNext
<1>. QED  BY <1>1, <1>2, PTL DEF BridgeSpec

\* remote_device_next_command never has two commands of a device handed out and
\* unanswered, for any number of losses, restarts and late requests.
THEOREM AtMostOneInFlight == BridgeSpec => []OneInFlight
<1>1. BridgeInv => OneInFlight
  BY DEF BridgeInv
<1>. QED  BY <1>1, BridgeInvariant, PTL

\* The laptop executes its commands in the order of their submission, repeating
\* at most the last one it has begun.
THEOREM CommandsInOrder == BridgeSpec => []NeverGoesBack
<1>1. BridgeInv => NeverGoesBack
  BY DEF BridgeInv
<1>. QED  BY <1>1, BridgeInvariant, PTL

\* A command is reported as completed or failed only after its laptop has
\* executed it.
THEOREM ReportsAreTrue == BridgeSpec => []ReportedWasExecuted
<1>1. ASSUME BridgeInv PROVE ReportedWasExecuted
  <2>1. ASSUME NEW c \in Submitted, results[c].status \in Answered
        PROVE  \E i \in DOMAIN runs[target[c]] : runs[target[c]][i] = c
    <3>1. target[c] \in Device
      BY <1>1, ElementOfSeq DEF Submitted, BridgeInv, BridgeTypeOK
    <3>2. runs[target[c]] \in Seq(CommandId)
      BY <1>1, <3>1 DEF BridgeInv, BridgeTypeOK
    <3>. QED  BY <1>1, <2>1, <3>1, <3>2, LenProperties DEF BridgeInv, Posted, Ran
  <2>. QED  BY <2>1 DEF ReportedWasExecuted
<1>. QED  BY <1>1, BridgeInvariant, PTL

-----------------------------------------------------------------------------
(* Repetitions are paid for.  What device d may still execute without another  *)
(* fault: the commands queued for it, the one its client has begun, and the    *)
(* one in flight, unless the client is executing that or posting its result.   *)
(* Together with what it has executed that is never more than was submitted    *)
(* for it and one more for every fault.                                        *)

\* The command the client of d has in hand.
Held(d) ==
    {c \in CommandId :
        \/ client[d].phase = "running" /\ client[d].cmd = c
        \/ /\ client[d].phase = "waiting"
           /\ client[d].for.kind = "result" /\ client[d].for.cmd = c}

Loose(d) == InFlight(d) \ Held(d)

One(commands) == IF commands = {} THEN 0 ELSE 1

Owed(d) == Len(runs[d]) + Len(queues[d]) + One(Executing(d)) + One(Loose(d))

Mine(d) == {c \in Submitted : target[c] = d}

PaidFor == \A d \in Device : Owed(d) <= Cardinality(Mine(d)) + faults

LEMMA OwedNumbers ==
    ASSUME BridgeTypeOK, BridgeTypeOK', NEW d \in Device
    PROVE  /\ Len(runs[d]) \in Nat /\ Len(runs'[d]) \in Nat
           /\ Len(queues[d]) \in Nat /\ Len(queues'[d]) \in Nat
           /\ faults \in Nat /\ faults' \in Nat
           /\ IsFiniteSet(Mine(d)) /\ Cardinality(Mine(d)) \in Nat
<1>1. /\ runs[d] \in Seq(CommandId) /\ runs'[d] \in Seq(CommandId)
      /\ queues[d] \in Seq(CommandId) /\ queues'[d] \in Seq(CommandId)
      /\ faults \in Nat /\ faults' \in Nat
  BY RemoteBridgeAssumption DEF BridgeTypeOK
<1>2. IsFiniteSet(Submitted)
  <2>1. Len(target) \in Nat
    BY LenProperties DEF BridgeTypeOK
  <2>. QED  BY <2>1, FS_Interval DEF Submitted
<1>3. IsFiniteSet(Mine(d)) /\ Cardinality(Mine(d)) \in Nat
  <2>1. Mine(d) \subseteq Submitted
    BY DEF Mine
  <2>. QED  BY <1>2, <2>1, FS_Subset, FS_CardinalityType
<1>. QED  BY <1>1, <1>3, LenProperties

LEMMA OneProperties == \A S : One(S) \in {0, 1} /\ (One(S) = 0 <=> S = {})
BY DEF One

LEMMA Sums ==
    ASSUME NEW ran \in Nat, NEW n \in Nat, NEW m \in Nat, m <= n,
           NEW x \in Nat, NEW y \in Nat, NEW u \in Nat, NEW v \in Nat
    PROVE  /\ u <= x /\ v <= y => ran + m + u + v <= ran + n + x + y
           /\ u + v <= x + y + 1 => ran + m + u + v <= ran + n + x + y + 1
           /\ u + v <= x + y + 1 => ran + (n - 1) + u + v <= ran + n + x + y
OBVIOUS

LEMMA OwedNow ==
    ASSUME BridgeTypeOK, BridgeTypeOK', NEW d \in Device
    PROVE  /\ One(Executing(d)) \in 0..1 /\ One(Executing(d)') \in 0..1
           /\ One(Loose(d)) \in 0..1 /\ One(Loose(d)') \in 0..1
           /\ Owed(d) = Len(runs[d]) + Len(queues[d]) + One(Executing(d)) + One(Loose(d))
           /\ Owed(d)' = Len(runs'[d]) + Len(queues'[d]) + One(Executing(d)') + One(Loose(d)')
<1>1. Owed(d)' = Len(runs'[d]) + Len(queues'[d]) + One(Executing(d)') + One(Loose(d)')
  BY Zenon DEF Owed
<1>2. /\ One(Executing(d)) \in 0..1 /\ One(Executing(d)') \in 0..1
      /\ One(Loose(d)) \in 0..1 /\ One(Loose(d)') \in 0..1
  BY DEF One
<1>. QED  BY <1>1, <1>2 DEF Owed

\* A device for which less is left to do.
LEMMA OwedDrops ==
    ASSUME BridgeTypeOK, BridgeTypeOK', NEW d \in Device,
           Len(runs'[d]) = Len(runs[d]), Len(queues'[d]) <= Len(queues[d]),
           Executing(d)' \subseteq Executing(d), Loose(d)' \subseteq Loose(d)
    PROVE  Owed(d)' <= Owed(d)
<1> DEFINE x == One(Executing(d))  u == One(Executing(d)')
           y == One(Loose(d))      v == One(Loose(d)')
<1>1. u <= x /\ v <= y
  <2>1. u <= x
    BY DEF One
  <2>2. v <= y
    BY DEF One
  <2>. QED  BY <2>1, <2>2
<1>2. /\ x \in 0..1 /\ y \in 0..1 /\ u \in 0..1 /\ v \in 0..1
      /\ Owed(d) = Len(runs[d]) + Len(queues[d]) + x + y
      /\ Owed(d)' = Len(runs'[d]) + Len(queues'[d]) + u + v
  BY OwedNow
<1>3. Len(runs[d]) \in Nat /\ Len(queues[d]) \in Nat /\ Len(queues'[d]) \in Nat
  BY OwedNumbers
<1>. HIDE DEF x, y, u, v
<1>4. x \in Nat /\ y \in Nat /\ u \in Nat /\ v \in Nat
  BY <1>2
<1>5. Len(runs[d]) + Len(queues'[d]) + u + v <= Len(runs[d]) + Len(queues[d]) + x + y
  BY <1>1, <1>3, <1>4, Sums
<1>. QED  BY <1>2, <1>5, Zenon

\* What is left when a client drops what it has in hand: at most one command
\* may come again.
LEMMA OwedAgain ==
    ASSUME BridgeTypeOK, BridgeTypeOK', NEW d \in Device,
           Len(runs'[d]) = Len(runs[d]), Executing(d)' = {}, Len(queues'[d]) <= Len(queues[d])
    PROVE  Owed(d)' <= Owed(d) + 1
<1> DEFINE x == One(Executing(d))  u == One(Executing(d)')
           y == One(Loose(d))      v == One(Loose(d)')
<1>1. u = 0
  BY DEF One
<1>2. /\ x \in 0..1 /\ y \in 0..1 /\ u \in 0..1 /\ v \in 0..1
      /\ Owed(d) = Len(runs[d]) + Len(queues[d]) + x + y
      /\ Owed(d)' = Len(runs'[d]) + Len(queues'[d]) + u + v
  BY OwedNow
<1>3. Len(runs[d]) \in Nat /\ Len(queues[d]) \in Nat /\ Len(queues'[d]) \in Nat
  BY OwedNumbers
<1>. HIDE DEF x, y, u, v
<1>4. u + v <= x + y + 1 /\ x \in Nat /\ y \in Nat /\ u \in Nat /\ v \in Nat
  BY <1>1, <1>2
<1>5. Len(runs[d]) + Len(queues'[d]) + u + v <= Len(runs[d]) + Len(queues[d]) + x + y + 1
  BY <1>3, <1>4, Sums
<1>. QED  BY <1>2, <1>5, Zenon

\* A command leaves the queue and is handed out: to the client, which had
\* nothing in hand, or to a request nobody waits for.
LEMMA OwedMoves ==
    ASSUME BridgeTypeOK, BridgeTypeOK', NEW d \in Device,
           Len(runs'[d]) = Len(runs[d]), Len(queues'[d]) = Len(queues[d]) - 1,
           \/ Executing(d)' \subseteq Executing(d)
           \/ Loose(d)' \subseteq Loose(d)
    PROVE  Owed(d)' <= Owed(d)
<1> DEFINE x == One(Executing(d))  u == One(Executing(d)')
           y == One(Loose(d))      v == One(Loose(d)')
<1>1. u <= x \/ v <= y
  <2>1. CASE Executing(d)' \subseteq Executing(d)
    BY <2>1 DEF One
  <2>2. CASE Loose(d)' \subseteq Loose(d)
    BY <2>2 DEF One
  <2>. QED  BY <2>1, <2>2
<1>2. /\ x \in 0..1 /\ y \in 0..1 /\ u \in 0..1 /\ v \in 0..1
      /\ Owed(d) = Len(runs[d]) + Len(queues[d]) + x + y
      /\ Owed(d)' = Len(runs'[d]) + Len(queues'[d]) + u + v
  BY OwedNow
<1>3. Len(runs[d]) \in Nat /\ Len(queues[d]) \in Nat
  BY OwedNumbers
<1>. HIDE DEF x, y, u, v
<1>4. u + v <= x + y + 1 /\ x \in Nat /\ y \in Nat /\ u \in Nat /\ v \in Nat
  BY <1>1, <1>2
<1>5. Len(queues[d]) <= Len(queues[d])
  BY <1>3
<1>6. Len(runs[d]) + (Len(queues[d]) - 1) + u + v <= Len(runs[d]) + Len(queues[d]) + x + y
  BY <1>3, <1>4, <1>5, Sums, Zenon
<1>. QED  BY <1>2, <1>6, Zenon

\* Serving device d: a posted result ends the flight of its command, and a
\* command leaves the queue only to be handed out, when none is in flight.
LEMMA ServeOutcome ==
    ASSUME BridgeInv, NEW d \in Device, NEW req \in Request, NEW answer \in Answers,
           Serve(d, req, answer), target' = target
    PROVE  /\ \A e \in Device \ {d} : queues'[e] = queues[e] /\ InFlight(e)' = InFlight(e)
           /\ req.kind = "result" => /\ req.cmd \notin InFlight(d)'
                                     /\ answer \in {NotFound, Done}
           /\ \/ queues'[d] = queues[d] /\ InFlight(d)' \subseteq InFlight(d)
              \/ /\ req.kind = "next" /\ InFlight(d) = {}
                 /\ Len(queues'[d]) = Len(queues[d]) - 1
                 /\ \E c \in Submitted : answer = Deliver(c)
<1>1. /\ BridgeTypeOK /\ queues \in [Device -> Seq(CommandId)]
      /\ results \in [CommandId -> Result]
      /\ Submitted' = Submitted /\ Submitted \subseteq CommandId
  BY SubmittedIds DEF BridgeInv, BridgeTypeOK, Submitted
<1>2. ASSUME UNCHANGED queues, \A b \in CommandId : results'[b].status = results[b].status
      PROVE  \A e \in Device : queues'[e] = queues[e] /\ InFlight(e)' = InFlight(e)
  BY <1>1, <1>2 DEF InFlight
<1>3. CASE req.kind # "result" /\ UNCHANGED <<queues, results>>
  BY <1>2, <1>3
<1>4. ASSUME req.kind # "result", NEW c \in InFlight(d), Redeliver(c, answer), UNCHANGED queues
      PROVE  \A e \in Device : queues'[e] = queues[e] /\ InFlight(e)' = InFlight(e)
  <2>1. c \in CommandId
    BY <1>1 DEF InFlight
  <2>2. \A b \in CommandId : results'[b].status = results[b].status
    BY <1>1, <1>4, <2>1 DEF Redeliver, Result
  <2>. QED  BY <1>2, <1>4, <2>2
<1>5. CASE /\ req.kind = "next" /\ queues[d] # << >> /\ ~HasInFlight(d)
           /\ Dispatch(d, answer)
  <2> DEFINE first == Head(queues[d])
  <2>1. /\ queues' = [queues EXCEPT ![d] = Tail(queues[d])]
        /\ results' = [results EXCEPT ![first] = [status |-> "dispatched", due |-> FALSE]]
        /\ answer = Deliver(first)
    BY <1>5 DEF Dispatch
  <2>2. first \in Queued(d)
    <3>1. first = queues[d][1] /\ 1 \in 1..Len(queues[d])
      BY <1>1, <1>5, HeadTail
    <3>. QED  BY <3>1 DEF Queued
  <2>3. first \in Submitted /\ target[first] = d /\ first \in CommandId
    BY <1>1, <2>2 DEF BridgeInv, Owned
  <2>4. Len(queues'[d]) = Len(queues[d]) - 1 /\ \A e \in Device \ {d} : queues'[e] = queues[e]
    BY <1>1, <1>5, <2>1, HeadTail
  <2>. HIDE DEF first
  <2>5. \A e \in Device \ {d} : InFlight(e)' = InFlight(e)
    <3>1. \A b \in Submitted : b # first => results'[b] = results[b]
      BY <1>1, <2>1
    <3>. QED  BY <1>1, <2>3, <3>1 DEF InFlight
  <2>. QED  BY <1>5, <2>1, <2>3, <2>4, <2>5 DEF HasInFlight
<1>6. CASE req.kind = "result" /\ RemoteDeviceCommandResult(d, req.cmd, req.success, answer)
  <2>1. req.cmd \in CommandId /\ StatusOf(req.success) \in Answered
    BY <1>6, RequestParts DEF StatusOf, Answered
  <2>2. answer \in {NotFound, Done} /\ UNCHANGED queues
    BY <1>6 DEF RemoteDeviceCommandResult
  <2>3. CASE UNCHANGED results /\ (results[req.cmd].status = "none" \/ target[req.cmd] # d)
    <3>1. \A e \in Device : queues'[e] = queues[e] /\ InFlight(e)' = InFlight(e)
      BY <1>2, <2>2, <2>3
    <3>2. req.cmd \notin InFlight(d)
      BY <2>3 DEF InFlight
    <3>. QED  BY <1>6, <2>2, <3>1, <3>2
  <2>4. CASE /\ results[req.cmd].status # "none" /\ target[req.cmd] = d
             /\ results' = [results EXCEPT ![req.cmd].status = StatusOf(req.success)]
    <3>1. PICK c \in CommandId : c = req.cmd
      BY <2>1
    <3>2. /\ results'[c].status \in Answered
          /\ \A b \in CommandId : b # c => results'[b] = results[b]
      BY <1>1, <2>1, <2>4, <3>1 DEF Result
    <3>3. c \notin InFlight(d)' /\ InFlight(d)' \subseteq InFlight(d)
      BY <1>1, <3>2 DEF InFlight, Answered
    <3>4. \A e \in Device \ {d} : InFlight(e)' = InFlight(e)
      BY <1>1, <2>4, <3>1, <3>2 DEF InFlight
    <3>. QED  BY <1>6, <2>2, <3>1, <3>3, <3>4
  <2>. QED  BY <1>6, <2>3, <2>4 DEF RemoteDeviceCommandResult
<1>7. CASE req.kind = "next" /\ RemoteDeviceNextCommand(d, answer)
  <2>1. CASE UNCHANGED <<queues, results>>
    BY <1>3, <1>7, <2>1
  <2>2. ASSUME NEW c \in InFlight(d), Redeliver(c, answer), UNCHANGED queues
        PROVE  \A e \in Device : queues'[e] = queues[e] /\ InFlight(e)' = InFlight(e)
    BY <1>4, <1>7, <2>2
  <2>3. CASE queues[d] # << >> /\ ~HasInFlight(d) /\ Dispatch(d, answer)
    BY <1>5, <1>7, <2>3
  <2>. QED  BY <1>7, <2>1, <2>2, <2>3 DEF RemoteDeviceNextCommand
<1>. QED
  BY <1>3, <1>6, <1>7 DEF Serve, RemoteDeviceRegister, RemoteDeviceHeartbeat

LEMMA PaidKept ==
    ASSUME BridgeTypeOK, BridgeTypeOK', PaidFor, target' = target,
           faults' \in {faults, faults + 1},
           \A e \in Device : \/ Owed(e)' <= Owed(e)
                             \/ faults' = faults + 1 /\ Owed(e)' <= Owed(e) + 1
    PROVE  PaidFor'
<1> SUFFICES ASSUME NEW e \in Device
    PROVE  Owed(e)' <= Cardinality(Mine(e)') + faults'
  BY DEF PaidFor
<1>1. Mine(e)' = Mine(e)
  BY DEF Mine, Submitted
<1>2. Owed(e) \in Nat /\ Owed(e)' \in Nat
  <2> DEFINE x == One(Executing(e))  u == One(Executing(e)')
             y == One(Loose(e))      v == One(Loose(e)')
  <2>1. /\ x \in 0..1 /\ y \in 0..1 /\ u \in 0..1 /\ v \in 0..1
        /\ Owed(e) = Len(runs[e]) + Len(queues[e]) + x + y
        /\ Owed(e)' = Len(runs'[e]) + Len(queues'[e]) + u + v
    BY OwedNow
  <2>. HIDE DEF x, y, u, v
  <2>2. x \in Nat /\ y \in Nat /\ u \in Nat /\ v \in Nat
    BY <2>1
  <2>3. \A a, b, c, f \in Nat : a + b + c + f \in Nat
    OBVIOUS
  <2>4. /\ Len(runs[e]) \in Nat /\ Len(queues[e]) \in Nat
        /\ Len(runs'[e]) \in Nat /\ Len(queues'[e]) \in Nat
    BY OwedNumbers
  <2>5. Len(runs[e]) + Len(queues[e]) + x + y \in Nat
    BY <2>2, <2>3, <2>4, Zenon
  <2>6. Len(runs'[e]) + Len(queues'[e]) + u + v \in Nat
    BY <2>2, <2>3, <2>4, Zenon
  <2>. QED  BY <2>1, <2>5, <2>6, Zenon
<1>3. Cardinality(Mine(e)) \in Nat /\ faults \in Nat
  BY OwedNumbers
<1>4. Owed(e) <= Cardinality(Mine(e)) + faults
  BY DEF PaidFor
<1> DEFINE mine == Cardinality(Mine(e))
<1>5. Cardinality(Mine(e)') = mine
  BY <1>1
<1>. HIDE DEF mine
<1>6. mine \in Nat /\ faults \in Nat /\ Owed(e) <= mine + faults
  BY <1>3, <1>4 DEF mine
<1>7. \A a, b, m, f \in Nat :
        a <= m + f => /\ b <= a => b <= m + f /\ b <= m + (f + 1)
                      /\ b <= a + 1 => b <= m + (f + 1)
  OBVIOUS
<1>8. /\ Owed(e)' <= Owed(e) => /\ Owed(e)' <= mine + faults
                                /\ Owed(e)' <= mine + (faults + 1)
      /\ Owed(e)' <= Owed(e) + 1 => Owed(e)' <= mine + (faults + 1)
  BY <1>2, <1>6, <1>7, Zenon
<1>9. CASE Owed(e)' <= Owed(e)
  <2>1. CASE faults' = faults
    BY <1>5, <1>8, <1>9, <2>1, Zenon
  <2>2. CASE faults' = faults + 1
    BY <1>5, <1>8, <1>9, <2>2, Zenon
  <2>. QED  BY <2>1, <2>2
<1>10. CASE faults' = faults + 1 /\ Owed(e)' <= Owed(e) + 1
  BY <1>5, <1>8, <1>10, Zenon
<1>. QED  BY <1>9, <1>10

\* A device whose client stays as it is.
LEMMA OwedRests ==
    ASSUME BridgeTypeOK, BridgeTypeOK', NEW d \in Device,
           runs' = runs, client'[d] = client[d],
           Len(queues'[d]) <= Len(queues[d]), InFlight(d)' \subseteq InFlight(d)
    PROVE  Owed(d)' <= Owed(d)
<1>1. Executing(d)' = Executing(d) /\ Held(d)' = Held(d)
  BY DEF Executing, Held
<1>2. Loose(d)' \subseteq Loose(d)
  BY <1>1 DEF Loose
<1>. QED  BY <1>1, <1>2, OwedDrops

\* A client that neither executes nor posts has nothing in hand.
LEMMA EmptyHands ==
    ASSUME NEW d \in Device, client[d].phase # "running",
           client[d].phase = "waiting" => client[d].for.kind # "result"
    PROVE  Executing(d) = {} /\ Held(d) = {}
BY DEF Executing, Held

LEMMA EmptyHandsNext ==
    ASSUME NEW d \in Device, client'[d].phase # "running",
           client'[d].phase = "waiting" => client'[d].for.kind # "result"
    PROVE  Executing(d)' = {} /\ Held(d)' = {}
BY DEF Executing, Held

LEMMA ExecutePays ==
    ASSUME BridgeInv, BridgeTypeOK', NEW d \in Device, ExecuteCommand(d)
    PROVE  \A e \in Device : Owed(e)' <= Owed(e)
<1>1. /\ BridgeTypeOK /\ client \in [Device -> Client] /\ runs \in [Device -> Seq(CommandId)]
      /\ UNCHANGED <<queues, results, target>> /\ client[d].phase = "running"
  BY DEF BridgeInv, BridgeTypeOK, ExecuteCommand
<1>2. PICK c \in CommandId, success \in BOOLEAN :
          /\ c = client[d].cmd
          /\ runs' = [runs EXCEPT ![d] = Append(runs[d], c)]
          /\ client' = [client EXCEPT
                ![d] = Waiting([kind |-> "result", cmd |-> c, success |-> success])]
  BY <1>1, ClientParts DEF ExecuteCommand, Become
<1>3. \A e \in Device : InFlight(e)' = InFlight(e) /\ queues'[e] = queues[e]
  BY <1>1 DEF InFlight, Submitted
<1>4. ASSUME NEW e \in Device, e # d PROVE Owed(e)' <= Owed(e)
  <2>1. client'[e] = client[e] /\ runs'[e] = runs[e]
    BY <1>1, <1>2, <1>4
  <2>2. Executing(e)' = Executing(e) /\ Held(e)' = Held(e)
    BY <2>1 DEF Executing, Held
  <2>3. Loose(e)' = Loose(e)
    BY <1>3, <2>2 DEF Loose
  <2>4. Len(queues'[e]) <= Len(queues[e])
    BY <1>1, <1>3, OwedNumbers
  <2>. QED  BY <1>1, <2>1, <2>2, <2>3, <2>4, OwedDrops
<1>5. Owed(d)' <= Owed(d)
  <2>1. /\ client'[d].phase = "waiting" /\ client'[d].for.kind = "result"
        /\ client'[d].for.cmd = c
    BY <1>1, <1>2, Phases
  <2>2. Held(d) = {c} /\ Held(d)' = {c} /\ Executing(d) = {c} /\ Executing(d)' = {}
    BY <1>1, <1>2, <2>1 DEF Held, Executing
  <2>3. Loose(d)' = Loose(d)
    BY <1>3, <2>2 DEF Loose
  <2> DEFINE y == One(Loose(d))
  <2>4. One(Executing(d)) = 1 /\ One(Executing(d)') = 0 /\ One(Loose(d)') = y /\ y \in 0..1
    BY <2>2, <2>3 DEF One
  <2>5. Len(runs'[d]) = Len(runs[d]) + 1
    BY <1>1, <1>2, AppendElements
  <2>6. /\ Owed(d) = Len(runs[d]) + Len(queues[d]) + 1 + y
        /\ Owed(d)' = (Len(runs[d]) + 1) + Len(queues[d]) + 0 + y
    BY <1>1, <1>3, <2>4, <2>5, OwedNow, Zenon
  <2>7. Len(runs[d]) \in Nat /\ Len(queues[d]) \in Nat /\ y \in Nat
    BY <1>1, <2>4, OwedNumbers
  <2>. HIDE DEF y
  <2>8. \A r, q, z \in Nat : (r + 1) + q + 0 + z <= r + q + 1 + z
    OBVIOUS
  <2>. QED  BY <2>6, <2>7, <2>8, Zenon
<1>. QED  BY <1>4, <1>5

LEMMA SubmitPays ==
    ASSUME BridgeInv, BridgeTypeOK', PaidFor, NEW d \in Device, RemoteCommand(d)
    PROVE  PaidFor'
<1> DEFINE n == Len(target) + 1
<1>1. /\ BridgeTypeOK /\ queues \in [Device -> Seq(CommandId)]
      /\ Len(target) \in Nat /\ target \in Seq(Device) /\ queues[d] \in Seq(CommandId)
  BY LenProperties DEF BridgeInv, BridgeTypeOK
<1>2. /\ target' = Append(target, d)
      /\ queues' = [queues EXCEPT ![d] = Append(queues[d], n)]
      /\ UNCHANGED <<devices, results, client, strays, runs, faults>>
  BY DEF RemoteCommand
<1>3. n \in CommandId /\ n \notin Submitted /\ Submitted \subseteq CommandId
  BY <1>1, SubmittedIds, RemoteBridgeAssumption DEF RemoteCommand, CommandId, Submitted
<1>4. /\ Submitted' = Submitted \cup {n}
      /\ target'[n] = d /\ \A c \in Submitted : target'[c] = target[c]
  <2>1. Len(target') = n /\ target'[n] = d /\ \A i \in 1..Len(target) : target'[i] = target[i]
    BY <1>1, <1>2, AppendElements
  <2>. QED  BY <1>1, <2>1 DEF Submitted
<1>5. Len(queues'[d]) = Len(queues[d]) + 1
  BY <1>1, <1>2, <1>3, AppendElements
<1>. HIDE DEF n
<1>6. results[n].status = "none"
  BY <1>3 DEF BridgeInv, Owned
<1>7. \A e \in Device : InFlight(e)' = InFlight(e)
  BY <1>2, <1>3, <1>4, <1>6 DEF InFlight
<1>8. \A e \in Device : Executing(e)' = Executing(e) /\ Loose(e)' = Loose(e)
  BY <1>2, <1>7 DEF Executing, Held, Loose
<1>9. ASSUME NEW e \in Device, e # d
      PROVE  Owed(e)' <= Cardinality(Mine(e)') + faults'
  <2>1. queues'[e] = queues[e] /\ Mine(e)' = Mine(e)
    BY <1>1, <1>2, <1>3, <1>4, <1>9 DEF Mine
  <2>2. Owed(e)' = Owed(e)
    BY <1>1, <1>2, <1>8, <2>1, OwedNow, Zenon
  <2>. QED  BY <1>2, <2>1, <2>2, Zenon DEF PaidFor
<1>10. Owed(d)' <= Cardinality(Mine(d)') + faults'
  <2>1. Mine(d)' = Mine(d) \cup {n} /\ n \notin Mine(d)
    BY <1>3, <1>4 DEF Mine
  <2>2. IsFiniteSet(Mine(d)) /\ Cardinality(Mine(d)) \in Nat /\ faults \in Nat
    BY <1>1, OwedNumbers
  <2>3. Cardinality(Mine(d)') = Cardinality(Mine(d)) + 1
    BY <2>1, <2>2, FS_AddElement
  <2> DEFINE x == One(Executing(d))
             y == One(Loose(d))
             m == Cardinality(Mine(d))
  <2>4. /\ Owed(d) = Len(runs[d]) + Len(queues[d]) + x + y
        /\ Owed(d)' = Len(runs[d]) + (Len(queues[d]) + 1) + x + y
        /\ x \in 0..1 /\ y \in 0..1
    BY <1>1, <1>2, <1>5, <1>8, OwedNow, Zenon
  <2>5. Len(runs[d]) \in Nat /\ Len(queues[d]) \in Nat /\ x \in Nat /\ y \in Nat /\ m \in Nat
    BY <1>1, <2>2, <2>4, OwedNumbers
  <2>6. Owed(d) <= m + faults
    BY DEF PaidFor
  <2>7. Cardinality(Mine(d)') = m + 1 /\ faults' = faults
    BY <1>2, <2>3
  <2>. HIDE DEF x, y, m
  <2>8. \A r, q, a, b, k, f \in Nat : r + q + a + b <= k + f => r + (q + 1) + a + b <= (k + 1) + f
    OBVIOUS
  <2>9. Len(runs[d]) + (Len(queues[d]) + 1) + x + y <= (m + 1) + faults
    BY <2>2, <2>4, <2>5, <2>6, <2>8, ZenonT(60)
  <2>. QED  BY <2>4, <2>7, <2>9, Zenon
<1>. QED  BY <1>9, <1>10 DEF PaidFor

\* A request served in time, or whose answer is lost.
LEMMA ExchangePays ==
    ASSUME BridgeInv, BridgeTypeOK', NEW d \in Device, Exchange(d) \/ AnswerLost(d)
    PROVE  \A e \in Device : Owed(e)' <= Owed(e)
<1>1. /\ BridgeTypeOK /\ client \in [Device -> Client] /\ target' = target /\ runs' = runs
      /\ queues \in [Device -> Seq(CommandId)]
  BY DEF BridgeInv, BridgeTypeOK, Exchange, AnswerLost
<1>2. PICK req \in Request : req = client[d].for /\ client[d].phase = "waiting"
  BY <1>1, StrayType DEF Exchange, AnswerLost
<1>3. PICK answer \in Answers :
          /\ Serve(d, req, answer)
          /\ \/ Exchange(d) /\ Become(d, After(req, answer))
             \/ AnswerLost(d) /\ Become(d, New)
  BY <1>2 DEF Exchange, AnswerLost
<1>4. /\ \A e \in Device \ {d} : queues'[e] = queues[e] /\ InFlight(e)' = InFlight(e)
      /\ req.kind = "result" => req.cmd \notin InFlight(d)' /\ answer \in {NotFound, Done}
      /\ \/ queues'[d] = queues[d] /\ InFlight(d)' \subseteq InFlight(d)
         \/ /\ req.kind = "next" /\ InFlight(d) = {}
            /\ Len(queues'[d]) = Len(queues[d]) - 1
            /\ \E c \in Submitted : answer = Deliver(c)
  BY <1>1, <1>3, ServeOutcome
<1>5. Served(d, answer)
  <2>1. req.kind = "result" => req.cmd \in Ran(d)
    BY <1>2 DEF BridgeInv, Posted
  <2>. QED  BY <1>1, <1>3, <2>1, ServeServed
<1>6. /\ \A e \in Device \ {d} : client'[e] = client[e]
      /\ client'[d] \in {After(req, answer), New}
      /\ Exchange(d) /\ ~AnswerLost(d) => client'[d] = After(req, answer)
  BY <1>1, <1>3 DEF Become
<1>7. ASSUME NEW e \in Device, e # d PROVE Owed(e)' <= Owed(e)
  <2>1. Len(queues'[e]) <= Len(queues[e])
    BY <1>1, <1>4, <1>7, OwedNumbers
  <2>. QED  BY <1>1, <1>4, <1>6, <1>7, <2>1, OwedRests
<1>8. /\ Executing(d) = {}
      /\ req.kind # "result" => Held(d) = {}
      /\ Held(d) \subseteq {req.cmd}
  BY <1>2 DEF Executing, Held
<1>9. Len(queues'[d]) <= Len(queues[d])
  BY <1>1, <1>4, OwedNumbers
<1>10. \A c : Deliver(c) \notin {NotFound, Done}
  <2>1. \A c : Deliver(c).kind = "command"
    BY DEF Deliver
  <2>2. NotFound.kind = "not found" /\ Done.kind = "done"
    BY DEF NotFound, Done
  <2>. QED  BY <2>1, <2>2
<1>11. CASE client'[d] \in {New, Exited, Polling, Idle}
  <2>1. Executing(d)' = {} /\ Held(d)' = {}
    BY <1>11, Phases, EmptyHandsNext
  <2>2. ASSUME queues'[d] = queues[d], InFlight(d)' \subseteq InFlight(d)
        PROVE  Owed(d)' <= Owed(d)
    <3>1. Loose(d)' \subseteq Loose(d)
      BY <1>4, <1>8, <2>1, <2>2 DEF Loose
    <3>. QED  BY <1>1, <1>9, <2>1, <3>1, OwedDrops
  <2>3. ASSUME Len(queues'[d]) = Len(queues[d]) - 1 PROVE Owed(d)' <= Owed(d)
    BY <1>1, <2>1, <2>3, OwedMoves
  <2>4. Owed(d)' <= Owed(d)
    BY <1>4, <2>2, <2>3
  <2>. QED  BY <1>7, <2>4
<1>12. ASSUME NEW c \in Submitted, answer = Deliver(c), client'[d] = Running(c)
       PROVE  \A e \in Device : Owed(e)' <= Owed(e)
  <2>1. c \in InFlight(d)' /\ \A b \in InFlight(d)' : b = c
    BY <1>5, <1>12 DEF Served, OneInFlight
  <2>2. c \in CommandId /\ Held(d)' = {c} /\ Executing(d)' = {c}
    <3>1. c \in CommandId
      BY <1>1, SubmittedIds
    <3>2. client'[d].phase = "running" /\ client'[d].cmd = c
      BY <1>12, Phases
    <3>. QED  BY <3>1, <3>2 DEF Held, Executing
  <2>3. Loose(d)' = {}
    BY <2>1, <2>2 DEF Loose
  <2>4. CASE Len(queues'[d]) = Len(queues[d]) - 1
    <3>1. Owed(d)' <= Owed(d)
      BY <1>1, <2>3, <2>4, OwedMoves
    <3>. QED  BY <1>7, <3>1
  <2>5. CASE queues'[d] = queues[d] /\ InFlight(d)' \subseteq InFlight(d)
    <3>1. Held(d) = {} /\ c \in Loose(d)
      BY <1>4, <1>8, <1>10, <1>12, <2>1, <2>5 DEF Loose
    <3>2. /\ One(Executing(d)) = 0 /\ One(Executing(d)') = 1
          /\ One(Loose(d)) = 1 /\ One(Loose(d)') = 0
      BY <1>8, <2>2, <2>3, <3>1 DEF One
    <3>3. /\ Owed(d) = Len(runs[d]) + Len(queues[d]) + 0 + 1
          /\ Owed(d)' = Len(runs[d]) + Len(queues[d]) + 1 + 0
      BY <1>1, <2>5, <3>2, OwedNow, Zenon
    <3>4. \A r, q \in Nat : r + q + 1 + 0 <= r + q + 0 + 1
      OBVIOUS
    <3>5. Len(runs[d]) \in Nat /\ Len(queues[d]) \in Nat
      BY <1>1, OwedNumbers
    <3>6. Owed(d)' <= Owed(d)
      BY <3>3, <3>4, <3>5, Zenon
    <3>. QED  BY <1>7, <3>6
  <2>. QED  BY <1>4, <2>4, <2>5
<1>13. /\ After(req, answer) \in {Exited, Polling, Idle}
          \/ \E c \in Submitted : answer = Deliver(c) /\ After(req, answer) = Running(c)
  BY <1>1, AfterType
<1>. QED  BY <1>6, <1>11, <1>12, <1>13

LEMMA PaidNext ==
    ASSUME BridgeInv, BridgeTypeOK', PaidFor, [BridgeNext]_bvars
    PROVE  PaidFor'
<1>1. BridgeTypeOK /\ client \in [Device -> Client]
  BY DEF BridgeInv, BridgeTypeOK
<1>2. ASSUME target' = target, faults' \in {faults, faults + 1},
             \A e \in Device : Owed(e)' <= Owed(e)
      PROVE  PaidFor'
  BY <1>1, <1>2, PaidKept
<1>3. ASSUME target' = target, UNCHANGED <<client, runs>>,
             \A e \in Device : InFlight(e)' \subseteq InFlight(e),
             \A e \in Device : Len(queues'[e]) <= Len(queues[e])
      PROVE  \A e \in Device : Owed(e)' <= Owed(e)
  BY <1>1, <1>3, OwedRests
<1>4. ASSUME target' = target,
             \A c \in CommandId : results'[c].status \in {results[c].status, "none"}
      PROVE  \A e \in Device : InFlight(e)' \subseteq InFlight(e)
  <2>1. Submitted' = Submitted /\ Submitted \subseteq CommandId
    BY <1>1, <1>4, SubmittedIds DEF Submitted
  <2>. QED  BY <1>4, <2>1 DEF InFlight
<1>5. \A e \in Device : Len(queues[e]) <= Len(queues[e]) /\ Len(<<>>) <= Len(queues[e])
  <2>1. \A e \in Device : Len(queues[e]) \in Nat
    BY <1>1, OwedNumbers
  <2>2. Len(<<>>) = 0
    BY EmptySeq
  <2>. QED  BY <2>1, <2>2
<1>6. ASSUME NEW d \in Device, UNCHANGED <<queues, results, target, runs>>,
             \A e \in Device \ {d} : client'[e] = client[e],
             Executing(d)' = {}
      PROVE  /\ \A e \in Device \ {d} : Owed(e)' <= Owed(e)
             /\ Owed(d)' <= Owed(d) + 1
             /\ Held(d)' = {} /\ Held(d) = {} => Owed(d)' <= Owed(d)
  <2>1. \A e \in Device : InFlight(e)' = InFlight(e) /\ Len(queues'[e]) <= Len(queues[e])
    BY <1>5, <1>6 DEF InFlight, Submitted
  <2>2. \A e \in Device \ {d} : Owed(e)' <= Owed(e)
    BY <1>1, <1>6, <2>1, OwedRests
  <2>3. Owed(d)' <= Owed(d) + 1
    BY <1>1, <1>6, <2>1, OwedAgain
  <2>4. ASSUME Held(d)' = {}, Held(d) = {} PROVE Owed(d)' <= Owed(d)
    <3>1. Loose(d)' \subseteq Loose(d)
      BY <2>1, <2>4 DEF Loose
    <3>. QED  BY <1>1, <1>6, <2>1, <3>1, OwedDrops
  <2>. QED  BY <2>2, <2>3, <2>4
<1>7. ASSUME NEW d \in Device,
             SendRegister(d) \/ SendHeartbeat(d) \/ SendPoll(d) \/ Relaunch(d)
      PROVE  PaidFor'
  <2>1. /\ UNCHANGED <<queues, results, target, runs, faults>>
        /\ client[d] \in {New, Idle, Polling, Exited}
    BY <1>7 DEF SendRegister, SendHeartbeat, SendPoll, Relaunch
  <2>2. /\ \A e \in Device \ {d} : client'[e] = client[e]
        /\ \/ client'[d] = New
           \/ \E kind \in {"register", "heartbeat", "next"} : client'[d] = Waiting([kind |-> kind])
    BY <1>1, <1>7 DEF SendRegister, SendHeartbeat, SendPoll, Relaunch, Become
  <2>3. Executing(d) = {} /\ Held(d) = {}
    <3>1. client[d].phase \in {"new", "idle", "polling", "exited"}
      BY <2>1, Phases
    <3>. QED  BY <3>1, EmptyHands
  <2>4. Executing(d)' = {} /\ Held(d)' = {}
    <3>1. CASE client'[d] = New
      BY <3>1, Phases, EmptyHandsNext
    <3>2. ASSUME NEW kind \in {"register", "heartbeat", "next"},
                 client'[d] = Waiting([kind |-> kind])
          PROVE  Executing(d)' = {} /\ Held(d)' = {}
      <4>1. client'[d].phase = "waiting" /\ client'[d].for.kind # "result"
        BY <3>2, Phases
      <4>. QED  BY <4>1, EmptyHandsNext
    <3>. QED  BY <2>2, <3>1, <3>2
  <2>5. \A e \in Device : Owed(e)' <= Owed(e)
    BY <1>6, <2>1, <2>2, <2>3, <2>4
  <2>. QED  BY <1>2, <2>1, <2>5
<1>8. ASSUME NEW d \in Device, GiveUp(d) \/ ClientRestart(d) PROVE PaidFor'
  <2>1. /\ UNCHANGED <<queues, results, target, runs>> /\ faults' = faults + 1
        /\ \A e \in Device \ {d} : client'[e] = client[e] /\ client'[d] = New
    BY <1>1, <1>8 DEF GiveUp, ClientRestart, Become, Fault
  <2>2. client'[d] = New
    BY <1>1, <1>8 DEF GiveUp, ClientRestart, Become
  <2>3. Executing(d)' = {}
    BY <2>2, Phases, EmptyHandsNext
  <2>4. \A e \in Device : Owed(e)' <= Owed(e) \/ Owed(e)' <= Owed(e) + 1
    BY <1>6, <2>1, <2>3
  <2>. QED  BY <1>1, <2>1, <2>4, PaidKept
<1>9. ASSUME NEW d \in Device, Exchange(d) PROVE PaidFor'
  BY <1>2, <1>9, ExchangePays DEF Exchange
<1>10. ASSUME NEW d \in Device, AnswerLost(d) PROVE PaidFor'
  BY <1>2, <1>10, ExchangePays DEF AnswerLost, Fault
<1>11. ASSUME NEW d \in Device, ExecuteCommand(d) PROVE PaidFor'
  BY <1>2, <1>11, ExecutePays DEF ExecuteCommand
<1>12. ASSUME NEW d \in Device, RemoteCommand(d) PROVE PaidFor'
  BY <1>12, SubmitPays
<1>13. ASSUME NEW d \in Device, PruneDevice(d) PROVE PaidFor'
  <2>1. /\ UNCHANGED <<results, target, client, runs>> /\ faults' = faults + 1
        /\ \A e \in Device : queues'[e] \in {queues[e], << >>}
    BY <1>1, <1>13 DEF PruneDevice, Fault, BridgeTypeOK
  <2>2. \A e \in Device : Len(queues'[e]) <= Len(queues[e])
    BY <1>5, <2>1
  <2>. QED  BY <1>2, <1>3, <1>4, <2>1, <2>2
<1>14. ASSUME NEW c \in CommandId, DispatchTimeout(c) PROVE PaidFor'
  <2>1. /\ UNCHANGED <<queues, target, client, runs, faults>>
        /\ \A b \in CommandId : results'[b].status = results[b].status
    BY <1>1, <1>14 DEF DispatchTimeout, BridgeTypeOK, Result
  <2>. QED  BY <1>2, <1>3, <1>4, <1>5, <2>1
<1>15. ASSUME NEW c \in CommandId, PruneResult(c) PROVE PaidFor'
  <2>1. /\ UNCHANGED <<queues, target, client, runs>> /\ faults' = faults + 1
        /\ \A b \in CommandId : results'[b].status \in {results[b].status, "none"}
    BY <1>1, <1>15 DEF PruneResult, Fault, BridgeTypeOK, NoResult
  <2>. QED  BY <1>2, <1>3, <1>4, <1>5, <2>1
<1>16. CASE ServeStray
  <2>1. PICK s \in strays, answer \in Answers : Serve(s.from, s.for, answer)
    BY <1>16 DEF ServeStray
  <2>2. PICK d \in Device, req \in Request : d = s.from /\ req = s.for
    BY <1>1 DEF BridgeTypeOK
  <2>3. UNCHANGED <<target, client, runs, faults>>
    BY <1>16 DEF ServeStray
  <2>4. /\ \A e \in Device \ {d} : queues'[e] = queues[e] /\ InFlight(e)' = InFlight(e)
        /\ \/ queues'[d] = queues[d] /\ InFlight(d)' \subseteq InFlight(d)
           \/ Len(queues'[d]) = Len(queues[d]) - 1
    BY <2>1, <2>2, <2>3, ServeOutcome
  <2>5. \A e \in Device : /\ queues'[e] = queues[e] /\ InFlight(e)' \subseteq InFlight(e)
                          => Owed(e)' <= Owed(e)
    BY <1>1, <1>5, <2>3, OwedRests
  <2>6. ASSUME Len(queues'[d]) = Len(queues[d]) - 1 PROVE Owed(d)' <= Owed(d)
    <3>1. Executing(d)' \subseteq Executing(d)
      BY <2>3 DEF Executing
    <3>. QED  BY <1>1, <2>3, <2>6, <3>1, OwedMoves
  <2>7. \A e \in Device : Owed(e)' <= Owed(e)
    BY <2>4, <2>5, <2>6
  <2>. QED  BY <1>2, <2>3, <2>7
<1>17. CASE ServerRestart
  <2>1. /\ UNCHANGED <<target, client, runs>> /\ faults' = faults + 1
        /\ \A e \in Device : queues'[e] = << >>
        /\ \A b \in CommandId : results'[b].status = "none"
    BY <1>17 DEF ServerRestart, Fault, NoResult
  <2>. QED  BY <1>2, <1>3, <1>4, <1>5, <2>1
<1>18. CASE UNCHANGED bvars
  BY <1>2, <1>3, <1>4, <1>5, <1>18 DEF bvars
<1>. QED
  BY <1>7, <1>8, <1>9, <1>10, <1>11, <1>12, <1>13, <1>14, <1>15, <1>16, <1>17, <1>18
     DEF BridgeNext

\* A laptop executes a command again only because something was lost, restarted or
\* forgotten: the executions are never more than the submissions and the faults,
\* for any number of either.
THEOREM RepetitionsArePaidFor == BridgeSpec => []RepeatsArePaidFor
<1>1. BridgeInit => PaidFor
  <2> SUFFICES ASSUME BridgeInit, NEW d \in Device
      PROVE Owed(d) <= Cardinality(Mine(d)) + faults
    BY DEF PaidFor
  <2>1. runs[d] = << >> /\ queues[d] = << >> /\ client[d] = New /\ target = << >> /\ faults = 0
    BY DEF BridgeInit
  <2>2. Len(<< >>) = 0
    BY EmptySeq
  <2>3. Submitted = {}
    BY <2>1, <2>2 DEF Submitted
  <2>4. Executing(d) = {} /\ Loose(d) = {} /\ Mine(d) = {}
    BY <2>1, <2>3, Phases DEF Executing, Loose, InFlight, Mine
  <2>5. Cardinality(Mine(d)) = 0
    BY <2>4, FS_EmptySet
  <2>6. Owed(d) = 0 + 0 + 0 + 0
    BY <2>1, <2>2, <2>4 DEF Owed, One
  <2>. QED  BY <2>1, <2>5, <2>6
<1>2. BridgeInv /\ BridgeInv' /\ PaidFor /\ [BridgeNext]_bvars => PaidFor'
  BY PaidNext DEF BridgeInv
<1>3. BridgeInv /\ BridgeInv' /\ PaidFor => RepeatsArePaidFor
  <2> SUFFICES ASSUME BridgeInv, BridgeInv', PaidFor, NEW d \in Device
      PROVE Len(runs[d]) <= Cardinality({c \in Submitted : target[c] = d}) + faults
    BY DEF RepeatsArePaidFor
  <2> DEFINE x == One(Executing(d))
             y == One(Loose(d))
             m == Cardinality(Mine(d))
  <2>1. BridgeTypeOK /\ BridgeTypeOK'
    BY DEF BridgeInv
  <2>2. /\ Owed(d) = Len(runs[d]) + Len(queues[d]) + x + y
        /\ x \in 0..1 /\ y \in 0..1 /\ m \in Nat /\ faults \in Nat
        /\ Len(runs[d]) \in Nat /\ Len(queues[d]) \in Nat
    BY <2>1, OwedNow, OwedNumbers
  <2>3. Owed(d) <= m + faults
    BY DEF PaidFor
  <2>. HIDE DEF x, y, m
  <2>4. x \in Nat /\ y \in Nat
    BY <2>2
  <2>5. \A r, q, a, b, n \in Nat : r + q + a + b <= n => r <= n
    OBVIOUS
  <2>6. m + faults \in Nat
    BY <2>2
  <2>7. Len(runs[d]) <= m + faults
    <3>1. Len(runs[d]) + Len(queues[d]) + x + y <= m + faults
      BY <2>2, <2>3, Zenon
    <3>. QED  BY <2>2, <2>4, <2>5, <2>6, <3>1, Zenon
  <2>. QED  BY <2>7 DEF m, Mine
<1>. QED  BY <1>1, <1>2, <1>3, BridgeInvariant, PTL DEF BridgeSpec
=============================================================================
