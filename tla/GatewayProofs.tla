---------------------------- MODULE GatewayProofs ----------------------------
(***************************************************************************)
(* Theorems about the gateway's run loop and command queue, for any         *)
(* sessions, runs, limits and numbers of restarts.                          *)
(***************************************************************************)
EXTENDS GatewayLoop, FiniteSetTheorems, SequenceTheorems, TLAPS

(* Commands and sequences of them *)

\* The commands of a run and the lanes they are in.
LEMMA CommandKinds ==
    ASSUME NEW c \in Commands
    PROVE  /\ c[2] \in Runs
           /\ \/ c = <<"cron", c[2]>> /\ c[1] = "cron"
              \/ c = <<"session", c[2]>> /\ c[1] = "session"
              \/ c = <<"global", c[2]>> /\ c[1] = "global"
           /\ Inner(c) \in Commands
           /\ Outermost(c[2]) \in Commands
BY CommandQueueAssumption DEF Commands, Inner, Outermost

LEMMA LanesOfCommands ==
    ASSUME NEW c \in Commands
    PROVE  /\ LaneOf(c) \in Lanes
           /\ c[1] = "session" <=> LaneOf(c) \in Sessions
           /\ c[1] = "session" => LaneOf(c) = Session[c[2]]
<1>1. c[2] \in Runs /\ c[1] \in {"cron", "session", "global"}
  BY CommandKinds
<1>2. RequestedLane(c[2]) \in {"main", "cron", "nested", "subagent"}
  BY <1>1, CommandQueueAssumption DEF RequestedLane, ResolveNestedAgentLane
<1>3. ResolveGlobalLane(RequestedLane(c[2])) \in GlobalLanes
  BY <1>2 DEF ResolveGlobalLane, GlobalLanes
<1>. QED  BY <1>1, <1>3, CommandQueueAssumption DEF LaneOf, Lanes, GlobalLanes

Members(s) == {s[i] : i \in DOMAIN s}
Simple(s)  == \A i, j \in DOMAIN s : s[i] = s[j] => i = j

LEMMA AppendedMembers ==
    ASSUME NEW s \in Seq(Commands), NEW c \in Commands
    PROVE  /\ Append(s, c) \in Seq(Commands)
           /\ Append(s, c) # <<>>
           /\ Members(Append(s, c)) = Members(s) \cup {c}
           /\ Simple(s) /\ c \notin Members(s) => Simple(Append(s, c))
<1>1. /\ Append(s, c) \in Seq(Commands)
      /\ Len(Append(s, c)) = Len(s) + 1
      /\ \A i \in 1..Len(s) : Append(s, c)[i] = s[i]
      /\ Append(s, c)[Len(s) + 1] = c
  BY AppendProperties
<1>2. DOMAIN s = 1..Len(s) /\ DOMAIN Append(s, c) = 1..(Len(s) + 1) /\ Len(s) \in Nat
  BY <1>1
<1>3. Members(Append(s, c)) = Members(s) \cup {c}
  BY <1>1, <1>2 DEF Members
<1>4. Simple(s) /\ c \notin Members(s) => Simple(Append(s, c))
  BY <1>1, <1>2 DEF Members, Simple
<1>5. Append(s, c) # <<>>
  BY AppendProperties
<1>. QED  BY <1>1, <1>3, <1>4, <1>5

LEMMA TakenMembers ==
    ASSUME NEW s \in Seq(Commands), s # <<>>
    PROVE  /\ Head(s) \in Commands
           /\ Tail(s) \in Seq(Commands)
           /\ Head(s) \in Members(s)
           /\ Members(Tail(s)) \subseteq Members(s)
           /\ Simple(s) => Head(s) \notin Members(Tail(s)) /\ Simple(Tail(s))
<1>1. /\ Head(s) \in Commands
      /\ Tail(s) \in Seq(Commands)
      /\ Len(Tail(s)) = Len(s) - 1
      /\ \A i \in 1..Len(Tail(s)) : Tail(s)[i] = s[i + 1]
  BY HeadTailProperties
<1>2. Len(s) \in Nat /\ Len(s) # 0 /\ DOMAIN s = 1..Len(s)
  BY EmptySeq, LenProperties
<1>3. DOMAIN Tail(s) = 1..(Len(s) - 1)
  BY <1>1
<1>4. Head(s) = s[1]
  BY <1>2
<1>5. \A i \in DOMAIN Tail(s) : i + 1 \in DOMAIN s /\ i + 1 # 1 /\ Tail(s)[i] = s[i + 1]
  BY <1>1, <1>2, <1>3
<1>6. Head(s) \in Members(s) /\ Members(Tail(s)) \subseteq Members(s)
  BY <1>2, <1>4, <1>5 DEF Members
<1>7. Simple(s) => Head(s) \notin Members(Tail(s))
  BY <1>2, <1>4, <1>5 DEF Members, Simple
<1>8. Simple(s) => Simple(Tail(s))
  BY <1>2, <1>3, <1>5 DEF Simple
<1>. QED  BY <1>1, <1>6, <1>7, <1>8

-----------------------------------------------------------------------------
(* Types *)

LEMMA LaneTypes ==
    ASSUME QueueTypeOK, NEW l \in Lanes
    PROVE  /\ lanes[l].queue \in Seq(Commands)
           /\ lanes[l].active \subseteq Commands
           /\ lanes[l].maxConcurrent \in Nat \ {0}
           /\ lanes[l].generation \in Nat
BY DEF QueueTypeOK, LaneState

\* What a change of a lane preserves.
LEMMA QueueChange ==
    ASSUME NEW s \in LaneState, NEW q \in Seq(Commands)
    PROVE  [s EXCEPT !.queue = q] \in LaneState
BY DEF LaneState

LEMMA LimitChange ==
    ASSUME NEW s \in LaneState, NEW n \in Nat \ {0}
    PROVE  [s EXCEPT !.maxConcurrent = n] \in LaneState
BY DEF LaneState

LEMMA GenerationChange ==
    ASSUME NEW s \in LaneState, NEW g \in Nat
    PROVE  [s EXCEPT !.active = {}, !.generation = g] \in LaneState
BY DEF LaneState

LEMMA LaneReplaced ==
    ASSUME NEW ls \in [Lanes -> LaneState], NEW l \in Lanes, NEW s \in LaneState
    PROVE  [ls EXCEPT ![l] = s] \in [Lanes -> LaneState]
OBVIOUS

LEMMA StartTypes == ASSUME QueueTypeOK, NEW l \in Lanes, StartNext(l) PROVE QueueTypeOK'
<1>. DEFINE c     == Head(lanes[l].queue)
            inner == Inner(c)
            taken == [lanes EXCEPT ![l].queue = Tail(@), ![l].active = @ \cup {c}]
            m     == LaneOf(inner)
<1>1. c \in Commands /\ Tail(lanes[l].queue) \in Seq(Commands)
  BY LaneTypes, TakenMembers DEF StartNext
<1>2. inner \in Commands /\ m \in Lanes
  BY <1>1, CommandKinds, LanesOfCommands
<1>3. taken \in [Lanes -> LaneState]
  BY <1>1, LaneTypes DEF QueueTypeOK, LaneState
<1>4. Append(taken[m].queue, inner) \in Seq(Commands)
  BY <1>2, <1>3, AppendedMembers DEF LaneState
<1>5. [taken EXCEPT ![m].queue = Append(@, inner)] \in [Lanes -> LaneState]
  <2>1. [taken[m] EXCEPT !.queue = Append(taken[m].queue, inner)] \in LaneState
    BY <1>2, <1>3, <1>4, QueueChange
  <2>. HIDE DEF taken, m, inner
  <2>. QED  BY <1>2, <1>3, <2>1, LaneReplaced
<1>6. lanes' \in [Lanes -> LaneState]
  BY <1>3, <1>5 DEF StartNext
<1>7. executing' \subseteq Commands /\ startedIn' \in [Commands -> Nat]
  BY <1>1, LaneTypes DEF StartNext, QueueTypeOK
<1>8. promise' \in [Commands -> PromiseState] /\ toDrain' \subseteq Lanes
  BY <1>2 DEF StartNext, QueueTypeOK, PromiseState
<1>. QED  BY <1>6, <1>7, <1>8, SMTT(40) DEF StartNext, QueueTypeOK

\* What starting the next command of lane l does to each lane.
LEMMA Started ==
    ASSUME QueueTypeOK, NEW l \in Lanes, StartNext(l), NEW k \in Lanes
    PROVE  LET c     == Head(lanes[l].queue)
               inner == Inner(c)
               rest  == IF k = l THEN Tail(lanes[k].queue) ELSE lanes[k].queue
           IN  /\ lanes'[k].active = IF k = l THEN lanes[k].active \cup {c} ELSE lanes[k].active
               /\ lanes'[k].maxConcurrent = lanes[k].maxConcurrent
               /\ lanes'[k].generation = lanes[k].generation
               /\ \/ lanes'[k].queue = rest
                  \/ /\ c[1] = "session" /\ k = LaneOf(inner) /\ promise'[inner] = "pending"
                     /\ lanes'[k].queue = Append(rest, inner)
<1>. DEFINE c     == Head(lanes[l].queue)
            inner == Inner(c)
            m     == LaneOf(inner)
            taken == [lanes EXCEPT ![l].queue = Tail(@), ![l].active = @ \cup {c}]
            rest  == IF k = l THEN Tail(lanes[k].queue) ELSE lanes[k].queue
            pushed == [taken EXCEPT ![m].queue = Append(@, inner)]
<1>1. c \in Commands /\ inner \in Commands /\ m \in Lanes
  BY LaneTypes, TakenMembers, CommandKinds, LanesOfCommands DEF StartNext
<1>2. /\ taken[k].active = IF k = l THEN lanes[k].active \cup {c} ELSE lanes[k].active
      /\ taken[k].maxConcurrent = lanes[k].maxConcurrent
      /\ taken[k].generation = lanes[k].generation
      /\ taken[k].queue = rest
      /\ taken \in [Lanes -> LaneState]
  <2>. HIDE DEF c
  <2>1. Tail(lanes[l].queue) \in Seq(Commands)
    BY LaneTypes, TakenMembers DEF StartNext
  <2>. QED  BY <1>1, <2>1 DEF QueueTypeOK, LaneState
<1>3. /\ pushed[k].active = taken[k].active
      /\ pushed[k].maxConcurrent = taken[k].maxConcurrent
      /\ pushed[k].generation = taken[k].generation
      /\ pushed[k].queue = IF k = m THEN Append(taken[k].queue, inner) ELSE taken[k].queue
  <2>. HIDE DEF inner, m, taken
  <2>. QED  BY <1>1, <1>2 DEF LaneState
<1>4. lanes' = taken \/ (c[1] = "session" /\ lanes' = pushed /\ promise'[inner] = "pending")
  <2>. HIDE DEF taken, inner, pushed, c
  <2>. QED  BY <1>1 DEF StartNext, QueueTypeOK, taken, inner, pushed, c
<1>. HIDE DEF taken, inner, pushed, c, m, rest
<1>5. CASE lanes' = taken
  BY <1>2, <1>5 DEF c, inner, rest, m
<1>6. CASE c[1] = "session" /\ lanes' = pushed /\ promise'[inner] = "pending"
  BY <1>2, <1>3, <1>6 DEF c, inner, rest, m
<1>. QED  BY <1>4, <1>5, <1>6

\* What enqueuing a command, and the end of a task, do to each lane.
LEMMA Enqueued ==
    ASSUME QueueTypeOK, NEW c \in Commands, EnqueueCommandInLane(c), NEW k \in Lanes
    PROVE  /\ lanes'[k].active = lanes[k].active
           /\ lanes'[k].maxConcurrent = lanes[k].maxConcurrent
           /\ lanes'[k].generation = lanes[k].generation
           /\ \/ lanes'[k].queue = lanes[k].queue
              \/ /\ k = LaneOf(c) /\ promise'[c] = "pending"
                 /\ lanes'[k].queue = Append(lanes[k].queue, c)
<1>. DEFINE l     == LaneOf(c)
            added == [lanes EXCEPT ![l].queue = Append(@, c)]
<1>1. l \in Lanes
  BY LanesOfCommands
<1>2. /\ added[k].active = lanes[k].active
      /\ added[k].maxConcurrent = lanes[k].maxConcurrent
      /\ added[k].generation = lanes[k].generation
      /\ added[k].queue = IF k = l THEN Append(lanes[k].queue, c) ELSE lanes[k].queue
  <2>. HIDE DEF l
  <2>. QED  BY <1>1 DEF QueueTypeOK, LaneState
<1>3. lanes' = lanes \/ (lanes' = added /\ promise'[c] = "pending")
  BY DEF EnqueueCommandInLane, QueueTypeOK
<1>. HIDE DEF added
<1>4. CASE lanes' = added /\ promise'[c] = "pending"
  BY <1>2, <1>4
<1>. QED  BY <1>3, <1>4

LEMMA Completed ==
    ASSUME QueueTypeOK, NEW c \in Commands, TaskEnds(c), NEW k \in Lanes
    PROVE  /\ lanes'[k].queue = lanes[k].queue
           /\ lanes'[k].maxConcurrent = lanes[k].maxConcurrent
           /\ lanes'[k].generation = lanes[k].generation
           /\ lanes'[k].active = IF k = LaneOf(c) /\ startedIn[c] = lanes[k].generation
                                 THEN lanes[k].active \ {c} ELSE lanes[k].active
<1>. DEFINE l == LaneOf(c)
<1>1. l \in Lanes
  BY LanesOfCommands
<1>2. lanes' = IF startedIn[c] = lanes[l].generation
               THEN [lanes EXCEPT ![l].active = @ \ {c}] ELSE lanes
  BY DEF TaskEnds, CompleteTask
<1>. HIDE DEF l
<1>3. /\ lanes'[k].queue = lanes[k].queue
      /\ lanes'[k].maxConcurrent = lanes[k].maxConcurrent
      /\ lanes'[k].generation = lanes[k].generation
      /\ lanes'[k].active = IF k = l /\ startedIn[c] = lanes[k].generation
                            THEN lanes[k].active \ {c} ELSE lanes[k].active
  BY <1>1, <1>2 DEF QueueTypeOK, LaneState
<1>. QED  BY <1>3 DEF l

LEMMA NotifyTypes ==
    ASSUME QueueTypeOK, NEW ls PROVE NotifyActiveTaskWaiters(ls) \in Waiter
BY DEF NotifyActiveTaskWaiters, QueueTypeOK, Waiter

LEMMA ResetLanes ==
    ASSUME QueueTypeOK, ResetAllLanes
    PROVE  /\ lanes' \in [Lanes -> LaneState]
           /\ \A l \in Lanes : /\ lanes'[l].queue = lanes[l].queue
                               /\ lanes'[l].active = {}
                               /\ lanes'[l].maxConcurrent = lanes[l].maxConcurrent
                               /\ lanes'[l].generation = lanes[l].generation + 1
<1>1. \A l \in Lanes : [lanes[l] EXCEPT !.active = {}, !.generation = @ + 1] \in LaneState
  <2>. SUFFICES ASSUME NEW l \in Lanes
                PROVE  [lanes[l] EXCEPT !.active = {}, !.generation = @ + 1] \in LaneState
    OBVIOUS
  <2>1. lanes[l] \in LaneState /\ lanes[l].generation + 1 \in Nat
    BY LaneTypes DEF QueueTypeOK
  <2>. QED  BY <2>1, GenerationChange
<1>2. \A l \in Lanes : lanes'[l] = [lanes[l] EXCEPT !.active = {}, !.generation = @ + 1]
  BY DEF ResetAllLanes
<1>3. lanes' \in [Lanes -> LaneState]
  BY <1>1, <1>2 DEF ResetAllLanes
<1>4. ASSUME NEW l \in Lanes
      PROVE  /\ lanes'[l].queue = lanes[l].queue
             /\ lanes'[l].active = {}
             /\ lanes'[l].maxConcurrent = lanes[l].maxConcurrent
             /\ lanes'[l].generation = lanes[l].generation + 1
  <2>1. lanes[l] \in LaneState
    BY DEF QueueTypeOK
  <2>. QED  BY <1>2, <2>1 DEF LaneState
<1>. QED  BY <1>3, <1>4

\* The operations of the queue keep its type.
LEMMA QueueTypes ==
    ASSUME QueueTypeOK,
           \/ \E l \in Lanes : DrainLane(l) \/ ClearCommandLane(l)
                              \/ \E n \in Nat : SetCommandLaneConcurrency(l, n)
           \/ \E c \in Commands : EnqueueCommandInLane(c) \/ TaskEnds(c)
           \/ \E tasks : TasksHang(tasks)
           \/ MarkGatewayDrainingAndWait \/ WaitTimesOut \/ ResetAllLanes
           \/ UNCHANGED queueVars
    PROVE  QueueTypeOK'
<1>1. ASSUME NEW l \in Lanes, DrainLane(l) PROVE QueueTypeOK'
  <2>1. CASE Drained(l)
    BY <2>1 DEF Drained, QueueTypeOK
  <2>. QED  BY <1>1, <2>1, StartTypes DEF DrainLane
<1>2. ASSUME NEW l \in Lanes, ClearCommandLane(l) PROVE QueueTypeOK'
  <2>1. <<>> \in Seq(Commands)
    BY EmptySeq
  <2>2. lanes' \in [Lanes -> LaneState]
    BY <1>2, <2>1 DEF ClearCommandLane, QueueTypeOK, LaneState
  <2>. QED  BY <1>2, <2>2 DEF ClearCommandLane, QueueTypeOK, PromiseState
<1>3. ASSUME NEW l \in Lanes, NEW n \in Nat, SetCommandLaneConcurrency(l, n) PROVE QueueTypeOK'
  <2>1. (IF n > 1 THEN n ELSE 1) \in Nat \ {0}
    OBVIOUS
  <2>2. lanes' \in [Lanes -> LaneState]
    <3>1. [lanes[l] EXCEPT !.maxConcurrent = IF n > 1 THEN n ELSE 1] \in LaneState
      BY <2>1, LimitChange DEF QueueTypeOK
    <3>. QED  BY <1>3, <3>1, LaneReplaced DEF SetCommandLaneConcurrency, QueueTypeOK
  <2>. QED  BY <1>3, <2>2 DEF SetCommandLaneConcurrency, QueueTypeOK
<1>4. ASSUME NEW c \in Commands, EnqueueCommandInLane(c) PROVE QueueTypeOK'
  <2>1. LaneOf(c) \in Lanes
    BY LanesOfCommands
  <2>2. lanes' \in [Lanes -> LaneState]
    <3>1. Append(lanes[LaneOf(c)].queue, c) \in Seq(Commands)
      BY <2>1, LaneTypes, AppendedMembers
    <3>2. [lanes[LaneOf(c)] EXCEPT !.queue = Append(@, c)] \in LaneState
      BY <2>1, <3>1, QueueChange DEF QueueTypeOK
    <3>. QED  BY <1>4, <2>1, <3>2, LaneReplaced DEF EnqueueCommandInLane, QueueTypeOK
  <2>. QED  BY <1>4, <2>1, <2>2 DEF EnqueueCommandInLane, QueueTypeOK, PromiseState
<1>5. ASSUME NEW c \in Commands, TaskEnds(c) PROVE QueueTypeOK'
  <2>1. LaneOf(c) \in Lanes
    BY LanesOfCommands
  <2>2. lanes' \in [Lanes -> LaneState]
    BY <1>5, <2>1, LaneTypes DEF TaskEnds, CompleteTask, QueueTypeOK, LaneState
  <2>3. waiter' \in Waiter
    BY <1>5, NotifyTypes DEF TaskEnds, QueueTypeOK
  <2>. QED  BY <1>5, <2>1, <2>2, <2>3 DEF TaskEnds, QueueTypeOK, PromiseState
<1>6. CASE MarkGatewayDrainingAndWait
  <2>1. ActiveTasks \subseteq Commands
    BY LaneTypes DEF ActiveTasks
  <2>. QED  BY <1>6, <2>1 DEF MarkGatewayDrainingAndWait, QueueTypeOK, Waiter
<1>7. CASE WaitTimesOut
  BY <1>7 DEF WaitTimesOut, QueueTypeOK, Waiter
<1>8. CASE ResetAllLanes
  <2>1. lanes' \in [Lanes -> LaneState]
    BY <1>8, ResetLanes
  <2>2. waiter' \in Waiter
    BY <1>8, NotifyTypes DEF ResetAllLanes
  <2>. QED  BY <1>8, <2>1, <2>2 DEF ResetAllLanes, QueueTypeOK
<1>9. CASE UNCHANGED queueVars
  BY <1>9 DEF queueVars, QueueTypeOK
<1>10. ASSUME NEW tasks, TasksHang(tasks) PROVE QueueTypeOK'
  BY <1>10 DEF TasksHang, QueueTypeOK
<1>. QED  BY <1>1, <1>2, <1>3, <1>4, <1>5, <1>6, <1>7, <1>8, <1>9, <1>10

\* Each step of the gateway is an operation of the queue or leaves it alone.
QueueStep ==
    \/ \E l \in Lanes : DrainLane(l) \/ (\E n \in Nat : l \in Configured /\ SetCommandLaneConcurrency(l, n))
    \/ \E l \in Sessions : ClearCommandLane(l)
    \/ \E c \in Commands : EnqueueCommandInLane(c) \/ TaskEnds(c)
    \/ \E tasks \in SUBSET {c \in executing : c[1] = "global"} : TasksHang(tasks)
    \/ MarkGatewayDrainingAndWait \/ WaitTimesOut
    \/ request.at = "locking" /\ ResetAllLanes
    \/ UNCHANGED queueVars

LEMMA QueueSteps == ASSUME [Next]_vars PROVE QueueStep
<1>1. CASE StartSucceeds \/ StartFails \/ RequestStop \/ DrainEnds \/ ForceExit \/ Exit
  BY <1>1 DEF StartSucceeds, StartFails, RequestStop, DrainEnds, ForceExit, Exit, QueueStep
<1>2. CASE RequestRestart \/ DrainTimesOut \/ RestartInProcess
  BY <1>2 DEF RequestRestart, DrainTimesOut, RestartInProcess, QueueStep
<1>3. CASE Close
  BY <1>3 DEF Close, QueueStep
<1>4. CASE \/ \E c \in Commands : Enqueue(c) \/ EndTask(c)
           \/ \E l \in Sessions : Clear(l)
           \/ \E l \in Lanes : Drain(l)
  BY <1>4 DEF Enqueue, EndTask, Clear, Drain, QueueStep
<1>5. ASSUME NEW l \in Configured, NEW n \in Limits, Configure(l, n) PROVE QueueStep
  BY <1>5, CommandQueueAssumption DEF Configure, Configured, Lanes, GlobalLanes, QueueStep
<1>6. CASE UNCHANGED vars
  BY <1>6 DEF vars, QueueStep
<1>. QED  BY <1>1, <1>2, <1>3, <1>4, <1>5, <1>6 DEF Next

LEMMA LoopTypes == ASSUME LoopTypeOK, [Next]_vars PROVE LoopTypeOK'
<1>. USE DEF LoopTypeOK, Request, NoRequest
<1>1. CASE StartSucceeds \/ StartFails
  BY <1>1 DEF StartSucceeds, StartFails
<1>2. CASE RequestRestart \/ RequestStop
  BY <1>2, GatewayLoopAssumption DEF RequestRestart, RequestStop
<1>3. CASE DrainEnds \/ Close
  <2>1. request \in [kind : {"restart", "stop"}, at : {"draining", "closing", "locking"}]
    BY <1>3 DEF DrainEnds, Close
  <2>2. [request EXCEPT !.at = "closing"] \in Request /\ [request EXCEPT !.at = "locking"] \in Request
    BY <2>1
  <2>. QED  BY <1>3, <2>2 DEF DrainEnds, Close
<1>4. CASE ForceExit \/ Exit \/ RestartInProcess
  BY <1>4 DEF ForceExit, Exit, RestartInProcess
<1>5. CASE \/ DrainTimesOut
           \/ \E c \in Commands : Enqueue(c) \/ EndTask(c)
           \/ \E l \in Sessions : Clear(l)
           \/ \E l \in Lanes : Drain(l)
           \/ UNCHANGED vars
  BY <1>5 DEF DrainTimesOut, Enqueue, EndTask, Clear, Drain, vars, loopVars
<1>6. ASSUME NEW l \in Configured, NEW n \in Limits, Configure(l, n) PROVE LoopTypeOK'
  BY <1>6, GatewayLoopAssumption DEF Configure
<1>. QED  BY <1>1, <1>2, <1>3, <1>4, <1>5, <1>6 DEF Next

LEMMA TypeStep == GatewayTypeOK /\ [Next]_vars => GatewayTypeOK'
<1>. SUFFICES ASSUME GatewayTypeOK, [Next]_vars PROVE GatewayTypeOK'
  OBVIOUS
<1>1. QueueTypeOK'
  BY QueueSteps, QueueTypes DEF QueueStep, GatewayTypeOK, Lanes
<1>. QED  BY <1>1, LoopTypes DEF GatewayTypeOK

LEMMA TypeInit == Init => GatewayTypeOK
<1>. SUFFICES ASSUME Init PROVE GatewayTypeOK
  OBVIOUS
<1>1. [queue |-> <<>>, active |-> {}, maxConcurrent |-> 1, generation |-> 0] \in LaneState
  <2>1. <<>> \in Seq(Commands)
    BY EmptySeq
  <2>. QED  BY <2>1 DEF LaneState
<1>2. lanes \in [Lanes -> LaneState]
  BY <1>1 DEF Init, QueueInit
<1>3. waiter \in Waiter
  BY DEF Init, QueueInit, Waiter
<1>4. promise \in [Commands -> PromiseState] /\ startedIn \in [Commands -> Nat]
  BY DEF Init, QueueInit, PromiseState
<1>5. QueueTypeOK
  BY <1>2, <1>3, <1>4 DEF Init, QueueInit, QueueTypeOK
<1>6. {server, lock, hadLock, started, failedStart, unwoken, exited} \subseteq BOOLEAN
  BY DEF Init
<1>7. changes \in 0..MaxChanges
  BY GatewayLoopAssumption DEF Init
<1>8. LoopTypeOK
  BY <1>6, <1>7 DEF Init, LoopTypeOK, Request
<1>. QED  BY <1>5, <1>8 DEF GatewayTypeOK

\* The run loop and the queue keep their types: what is queued, active or
\* executing is a command, and a lane's limit is never zero (pump,
\* setCommandLaneConcurrency).
THEOREM GatewayTypeCorrect == Spec => []GatewayTypeOK
BY TypeInit, TypeStep, PTL DEF Spec

-----------------------------------------------------------------------------
(* Wake-ups *)

\* A lane with room and a queue is about to be drained.
AboutToDrain(l) == l \in toDrain \/ lanes[l].queue = <<>> \/ ~HasRoom(l)
WakeUp          == \A l \in Lanes : AboutToDrain(l)

LEMMA WakeUpStep == ASSUME QueueTypeOK, WakeUp, QueueStep PROVE WakeUp'
<1>0. ASSUME NEW l \in Lanes, lanes'[l] = lanes[l], l \in toDrain => l \in toDrain'
      PROVE  AboutToDrain(l)'
  BY <1>0 DEF WakeUp, AboutToDrain, HasRoom
<1>1. ASSUME NEW l \in Lanes, StartNext(l) PROVE WakeUp'
  <2>. DEFINE inner == Inner(Head(lanes[l].queue))
  <2>1. l \in toDrain'
    BY <1>1 DEF StartNext
  <2>2. ASSUME NEW k \in Lanes, k # l PROVE AboutToDrain(k)'
    <3>1. CASE k \in toDrain'
      BY <3>1 DEF AboutToDrain
    <3>2. CASE k \notin toDrain'
      <4>. HIDE DEF inner
      <4>1. lanes'[k] = lanes[k]
        BY <1>1, <2>2, <3>2, SMTT(40) DEF StartNext, QueueTypeOK, inner
      <4>2. k \notin toDrain
        BY <1>1, <3>2 DEF StartNext
      <4>. QED  BY <1>0, <4>1, <4>2
    <3>. QED  BY <3>1, <3>2
  <2>. QED  BY <2>1, <2>2, SMTT(40) DEF WakeUp, AboutToDrain
<1>2. ASSUME NEW l \in Lanes, Drained(l) PROVE WakeUp'
  <2>1. \A k \in Lanes : k # l => (k \in toDrain <=> k \in toDrain')
    BY <1>2 DEF Drained
  <2>2. lanes' = lanes
    BY <1>2 DEF Drained
  <2>. QED  BY <1>2, <2>1, <2>2 DEF Drained, WakeUp, AboutToDrain, HasRoom
<1>3. ASSUME NEW l \in Lanes, NEW n \in Nat, SetCommandLaneConcurrency(l, n) PROVE WakeUp'
  <2>1. l \in toDrain' /\ toDrain = {}
    BY <1>3 DEF SetCommandLaneConcurrency, Between
  <2>2. \A k \in Lanes : k # l => lanes'[k] = lanes[k]
    BY <1>3 DEF SetCommandLaneConcurrency, QueueTypeOK
  <2>. QED  BY <1>0, <2>1, <2>2 DEF WakeUp, AboutToDrain
<1>4. ASSUME NEW l \in Lanes, ClearCommandLane(l) PROVE WakeUp'
  <2>1. lanes'[l].queue = <<>>
    BY <1>4 DEF ClearCommandLane, QueueTypeOK, LaneState
  <2>2. \A k \in Lanes : k # l => lanes'[k] = lanes[k]
    BY <1>4 DEF ClearCommandLane, QueueTypeOK
  <2>3. toDrain' = toDrain
    BY <1>4 DEF ClearCommandLane
  <2>. QED  BY <1>0, <2>1, <2>2, <2>3 DEF WakeUp, AboutToDrain
<1>5. ASSUME NEW c \in Commands, EnqueueCommandInLane(c) PROVE WakeUp'
  <2>1. \A k \in Lanes : k = LaneOf(c) \/ lanes'[k] = lanes[k]
    BY <1>5, LanesOfCommands DEF EnqueueCommandInLane, QueueTypeOK
  <2>2. toDrain = {}
    BY <1>5 DEF EnqueueCommandInLane, Between
  <2>3. lanes' = lanes \/ LaneOf(c) \in toDrain'
    BY <1>5 DEF EnqueueCommandInLane
  <2>. QED  BY <1>0, <2>1, <2>2, <2>3 DEF WakeUp, AboutToDrain
<1>6. ASSUME NEW c \in Commands, TaskEnds(c) PROVE WakeUp'
  <2>1. \A k \in Lanes : k = LaneOf(c) \/ lanes'[k] = lanes[k]
    BY <1>6, LanesOfCommands DEF TaskEnds, CompleteTask, QueueTypeOK
  <2>2. toDrain = {}
    BY <1>6 DEF TaskEnds, Between
  <2>3. lanes' = lanes \/ LaneOf(c) \in toDrain'
    BY <1>6 DEF TaskEnds, CompleteTask
  <2>. QED  BY <1>0, <2>1, <2>2, <2>3 DEF WakeUp, AboutToDrain
<1>7. CASE ResetAllLanes
  <2>1. \A l \in Lanes : lanes'[l].queue = lanes[l].queue
    BY <1>7, ResetLanes
  <2>2. \A l \in Lanes : l \in toDrain' \/ lanes[l].queue = <<>>
    BY <1>7 DEF ResetAllLanes
  <2>. QED  BY <2>1, <2>2 DEF WakeUp, AboutToDrain
<1>8. ASSUME lanes' = lanes, toDrain' = toDrain PROVE WakeUp'
  BY <1>0, <1>8 DEF WakeUp
<1>9. ASSUME NEW tasks, TasksHang(tasks) PROVE WakeUp'
  BY <1>8, <1>9 DEF TasksHang
<1>10. CASE MarkGatewayDrainingAndWait \/ WaitTimesOut \/ UNCHANGED queueVars
  BY <1>8, <1>10 DEF MarkGatewayDrainingAndWait, WaitTimesOut, queueVars
<1>. QED
  BY <1>1, <1>2, <1>3, <1>4, <1>5, <1>6, <1>7, <1>9, <1>10 DEF QueueStep, DrainLane, Lanes

\* Between two calls no command waits in a lane that has room: ends of tasks,
\* raised limits and resets all drain the lanes they free (drainLane,
\* setCommandLaneConcurrency, resetAllLanes).
THEOREM NoWakeUpIsLost == Spec => []NoLostWakeUp
<1>1. Init => WakeUp
  BY DEF Init, QueueInit, WakeUp, AboutToDrain
<1>2. WakeUp => NoLostWakeUp
  BY DEF WakeUp, AboutToDrain, NoLostWakeUp, Between
<1>3. GatewayTypeOK /\ WakeUp /\ [Next]_vars => WakeUp'
  BY WakeUpStep, QueueSteps DEF GatewayTypeOK
<1>. QED  BY <1>1, <1>2, <1>3, GatewayTypeCorrect, PTL DEF Spec

-----------------------------------------------------------------------------
(* The waiter of a restart *)

LEMMA MeetsActive ==
    ASSUME NEW t, NEW ls
    PROVE  t \cap UNION {ls[l].active : l \in Lanes} # {} <=> \E l \in Lanes : t \cap ls[l].active # {}
<1>1. ASSUME NEW x \in t, x \in UNION {ls[l].active : l \in Lanes}
      PROVE  \E l \in Lanes : t \cap ls[l].active # {}
  <2>1. PICK l \in Lanes : x \in ls[l].active
    BY <1>1
  <2>. QED  BY <2>1
<1>2. ASSUME NEW l \in Lanes, t \cap ls[l].active # {}
      PROVE  t \cap UNION {ls[k].active : k \in Lanes} # {}
  <2>1. PICK x \in t : x \in ls[l].active
    BY <1>2
  <2>2. x \in UNION {ls[k].active : k \in Lanes}
    BY <2>1
  <2>. QED  BY <2>1, <2>2
<1>. QED  BY <1>1, <1>2

\* The waiter meets an active task exactly if it does so in some lane.
LEMMA WaiterMeets ==
    /\ NoLostWaiter <=>
          (waiter.result = "waiting" => \E l \in Lanes : waiter.tasks \cap lanes[l].active # {})
    /\ NoLostWaiter' <=>
          (waiter'.result = "waiting" => \E l \in Lanes : waiter'.tasks \cap lanes'[l].active # {})
BY MeetsActive DEF NoLostWaiter, ActiveTasks

LEMMA WaiterStep == ASSUME QueueTypeOK, NoLostWaiter, QueueStep PROVE NoLostWaiter'
<1>0. ASSUME waiter' = waiter, \A l \in Lanes : lanes[l].active \subseteq lanes'[l].active
      PROVE  NoLostWaiter'
  <2>1. ASSUME NEW l \in Lanes, waiter.tasks \cap lanes[l].active # {}
        PROVE  waiter'.tasks \cap lanes'[l].active # {}
    BY <1>0, <2>1
  <2>. QED  BY <1>0, <2>1, WaiterMeets
<1>1. ASSUME waiter' = NotifyActiveTaskWaiters(lanes') PROVE NoLostWaiter'
  BY <1>1, WaiterMeets, SMTT(40) DEF NotifyActiveTaskWaiters, QueueTypeOK, Waiter
<1>2. ASSUME NEW l \in Lanes, StartNext(l) PROVE NoLostWaiter'
  <2>1. \A k \in Lanes : lanes[k].active \subseteq lanes'[k].active
    BY <1>2, Started
  <2>. QED  BY <1>0, <1>2, <2>1 DEF StartNext
<1>3. ASSUME NEW l \in Lanes, Drained(l) \/ ClearCommandLane(l) PROVE NoLostWaiter'
  <2>1. CASE Drained(l)
    BY <1>0, <2>1 DEF Drained
  <2>2. CASE ClearCommandLane(l)
    <3>1. \A k \in Lanes : lanes'[k].active = lanes[k].active
      BY <2>2 DEF ClearCommandLane, QueueTypeOK, LaneState
    <3>. QED  BY <1>0, <2>2, <3>1 DEF ClearCommandLane
  <2>. QED  BY <1>3, <2>1, <2>2
<1>4. ASSUME NEW l \in Lanes, NEW n \in Nat, SetCommandLaneConcurrency(l, n) PROVE NoLostWaiter'
  BY <1>0, <1>4 DEF SetCommandLaneConcurrency, QueueTypeOK, LaneState
<1>5. ASSUME NEW c \in Commands, EnqueueCommandInLane(c) PROVE NoLostWaiter'
  BY <1>0, <1>5, Enqueued DEF EnqueueCommandInLane
<1>6. ASSUME NEW c \in Commands, TaskEnds(c) PROVE NoLostWaiter'
  <2>1. CASE startedIn[c] = lanes[LaneOf(c)].generation
    BY <1>1, <1>6, <2>1 DEF TaskEnds
  <2>2. CASE startedIn[c] # lanes[LaneOf(c)].generation
    BY <1>0, <1>6, <2>2 DEF TaskEnds, CompleteTask
  <2>. QED  BY <2>1, <2>2
<1>7. CASE ResetAllLanes
  BY <1>1, <1>7 DEF ResetAllLanes
<1>8. CASE MarkGatewayDrainingAndWait
  BY <1>8 DEF MarkGatewayDrainingAndWait, NoLostWaiter, ActiveTasks
<1>9. CASE WaitTimesOut
  BY <1>9 DEF WaitTimesOut, NoLostWaiter, QueueTypeOK, Waiter
<1>10. ASSUME NEW tasks, TasksHang(tasks) PROVE NoLostWaiter'
  BY <1>0, <1>10 DEF TasksHang
<1>11. CASE UNCHANGED queueVars
  BY <1>0, <1>11 DEF queueVars
<1>. QED
  BY <1>2, <1>3, <1>4, <1>5, <1>6, <1>7, <1>8, <1>9, <1>10, <1>11 DEF QueueStep, DrainLane, Lanes

\* A restart waits only for tasks that still hold their slots, so that it is
\* told of the end of the last one (waitForActiveTasks, completeTask).
THEOREM NoWaiterIsLost == Spec => []NoLostWaiter
<1>1. Init => NoLostWaiter
  BY DEF Init, QueueInit, NoLostWaiter
<1>2. GatewayTypeOK /\ NoLostWaiter /\ [Next]_vars => NoLostWaiter'
  BY WaiterStep, QueueSteps DEF GatewayTypeOK
<1>. QED  BY <1>1, <1>2, GatewayTypeCorrect, PTL DEF Spec

-----------------------------------------------------------------------------
(* The gateway lock *)

\* A request that is about to take the lock knows that it was held.
LockKnown ==
    \/ failedStart
    \/ exited /\ ~server
    \/ IF request.at = "locking" THEN hadLock ELSE lock

LEMMA LockStep == ASSUME LoopTypeOK, LockKnown, [Next]_vars PROVE LockKnown'
<1>. USE DEF LockKnown
<1>1. CASE StartSucceeds
  BY <1>1 DEF StartSucceeds, Up
<1>2. CASE StartFails
  BY <1>2 DEF StartFails
<1>3. CASE RequestRestart \/ RequestStop
  BY <1>3 DEF RequestRestart, RequestStop, NoRequest
<1>4. CASE DrainEnds
  BY <1>4 DEF DrainEnds, LoopTypeOK, Request
<1>5. CASE Close
  BY <1>5 DEF Close, Up, LoopTypeOK, Request
<1>6. CASE ForceExit \/ Exit
  BY <1>6 DEF ForceExit, Exit
<1>7. CASE RestartInProcess
  BY <1>7 DEF RestartInProcess, NoRequest
<1>8. CASE \/ DrainTimesOut
           \/ \E c \in Commands : Enqueue(c) \/ EndTask(c)
           \/ \E l \in Sessions : Clear(l)
           \/ \E l \in Lanes : Drain(l)
           \/ UNCHANGED vars
  BY <1>8 DEF DrainTimesOut, Enqueue, EndTask, Clear, Drain, vars, loopVars
<1>9. ASSUME NEW l \in Configured, NEW n \in Limits, Configure(l, n) PROVE LockKnown'
  BY <1>9 DEF Configure
<1>. QED  BY <1>1, <1>2, <1>3, <1>4, <1>5, <1>6, <1>7, <1>8, <1>9 DEF Next

\* A server runs with the gateway lock held, unless an earlier start failed
\* (runGatewayLoop, handleRestartAfterServerClose).
THEOREM ServesWithLock == Spec => []LockedWhileServing
<1>1. Init => LockKnown
  BY DEF Init, LockKnown, NoRequest
<1>2. LockKnown => LockedWhileServing
  BY DEF LockKnown, LockedWhileServing, NoRequest
<1>3. GatewayTypeOK /\ LockKnown /\ [Next]_vars => LockKnown'
  BY LockStep DEF GatewayTypeOK
<1>. QED  BY <1>1, <1>2, <1>3, GatewayTypeCorrect, PTL DEF Spec

-----------------------------------------------------------------------------
(* Commands *)

\* A queue holds commands of its lane, each once, that are asked for and have
\* not started.
QueuesOK ==
    \A l \in Lanes :
        /\ Simple(lanes[l].queue)
        /\ \A c \in Members(lanes[l].queue) :
              LaneOf(c) = l /\ promise[c] = "pending" /\ c \notin executing

\* A run asks for its inner command when its outer one has started.
InnerOK ==
    \A r \in Runs : promise[<<"global", r>>] # "none" =>
        /\ promise[<<"session", r>>] # "none"
        /\ <<"session", r>> \notin Members(lanes[LaneOf(<<"session", r>>)].queue)

\* What is active in a lane belongs to it.
ActiveOK ==
    \A l \in Lanes : /\ IsFiniteSet(lanes[l].active)
                     /\ \A c \in lanes[l].active : LaneOf(c) = l

\* What executes is awaited, and active unless it is of an earlier generation.
ExecutingOK ==
    \A c \in executing :
        /\ promise[c] = "pending"
        /\ startedIn[c] <= lanes[LaneOf(c)].generation
        /\ startedIn[c] = lanes[LaneOf(c)].generation => c \in lanes[LaneOf(c)].active

\* A run waits or executes in its global lane during its turn in the session's.
TurnOK ==
    \A r \in Runs : promise[<<"global", r>>] = "pending" => <<"session", r>> \in executing

\* The turns of a session are of different generations.
SessionOK ==
    /\ \A l \in Sessions : lanes[l].maxConcurrent = 1
    /\ \A c, d \in executing :
          c # d /\ LaneOf(c) = LaneOf(d) /\ LaneOf(c) \in Sessions => startedIn[c] # startedIn[d]

CommandsOK == QueuesOK /\ InnerOK /\ ActiveOK /\ ExecutingOK /\ TurnOK /\ SessionOK

\* The start of a command, said of its lane's queue and the others.
LEMMA StartFacts ==
    ASSUME QueueTypeOK, CommandsOK, NEW l \in Lanes, StartNext(l)
    PROVE  LET c == Head(lanes[l].queue)
           IN  /\ c \in Commands /\ LaneOf(c) = l /\ c \in Members(lanes[l].queue)
               /\ promise[c] = "pending" /\ c \notin executing
               /\ executing' = executing \cup {c}
               /\ startedIn' = [startedIn EXCEPT ![c] = lanes[l].generation]
               /\ c[1] = "session" => /\ Inner(c) = <<"global", c[2]>>
                                      /\ promise[Inner(c)] = "none"
               /\ \A d \in Commands : promise'[d] # promise[d] =>
                       c[1] = "session" /\ d = Inner(c) /\ promise[d] = "none"
<1>. DEFINE c == Head(lanes[l].queue)
<1>1. c \in Commands /\ c \in Members(lanes[l].queue)
  BY LaneTypes, TakenMembers DEF StartNext
<1>2. LaneOf(c) = l /\ promise[c] = "pending" /\ c \notin executing
  BY <1>1 DEF CommandsOK, QueuesOK
<1>3. ASSUME c[1] = "session" 
      PROVE  Inner(c) = <<"global", c[2]>> /\ promise[Inner(c)] = "none" /\ Inner(c) \in Commands
  <2>1. c = <<"session", c[2]>> /\ c[2] \in Runs
    BY <1>1, <1>3, CommandKinds
  <2>2. Inner(c) = <<"global", c[2]>>
    BY <1>3 DEF Inner
  <2>. QED  BY <1>1, <1>2, <2>1, <2>2, CommandKinds DEF CommandsOK, InnerOK
<1>4. ASSUME NEW d \in Commands, promise'[d] # promise[d]
      PROVE  c[1] = "session" /\ d = Inner(c) /\ promise[d] = "none"
  <2>1. c[1] = "session" /\ (\/ promise' = [promise EXCEPT ![Inner(c)] = "settled"]
                             \/ promise' = [promise EXCEPT ![Inner(c)] = "pending"])
    BY <1>4 DEF StartNext
  <2>. QED  BY <1>3, <1>4, <2>1, SMTT(40) DEF QueueTypeOK
<1>. QED  BY <1>1, <1>2, <1>3, <1>4, SMTT(40) DEF StartNext

LEMMA StartQueues ==
    ASSUME QueueTypeOK, CommandsOK, NEW l \in Lanes, StartNext(l), NEW k \in Lanes
    PROVE  LET c == Head(lanes[l].queue)
           IN  /\ Simple(lanes'[k].queue)
               /\ \A d \in Members(lanes'[k].queue) :
                      /\ d # c /\ d \in Commands
                      /\ \/ d \in Members(lanes[k].queue)
                         \/ c[1] = "session" /\ d = Inner(c) /\ k = LaneOf(d) /\ promise'[d] = "pending"
<1>. DEFINE c    == Head(lanes[l].queue)
            rest == IF k = l THEN Tail(lanes[k].queue) ELSE lanes[k].queue
<1>1. rest \in Seq(Commands) /\ Simple(rest)
  <2>1. lanes[k].queue \in Seq(Commands) /\ Simple(lanes[k].queue)
    BY LaneTypes DEF CommandsOK, QueuesOK
  <2>2. CASE k = l
    BY <2>1, <2>2, TakenMembers DEF StartNext
  <2>3. CASE k # l
    BY <2>1, <2>3
  <2>. QED  BY <2>2, <2>3
<1>2. Members(rest) \subseteq Members(lanes[k].queue) /\ c \notin Members(rest)
  <2>1. CASE k = l
    BY <2>1, LaneTypes, TakenMembers DEF StartNext, CommandsOK, QueuesOK
  <2>2. CASE k # l
    BY <2>2, StartFacts DEF CommandsOK, QueuesOK
  <2>. QED  BY <2>1, <2>2
<1>3. Members(rest) \subseteq Commands
  BY <1>1 DEF Members
<1>4. CASE lanes'[k].queue = rest
  <2>. HIDE DEF rest, c
  <2>. QED  BY <1>1, <1>2, <1>3, <1>4 DEF c
<1>5. CASE /\ c[1] = "session" /\ k = LaneOf(Inner(c)) /\ promise'[Inner(c)] = "pending"
           /\ lanes'[k].queue = Append(rest, Inner(c))
  <2>1. Inner(c) \in Commands /\ Inner(c) # c /\ promise[Inner(c)] = "none"
    BY <1>5, StartFacts, CommandKinds
  <2>2. Inner(c) \notin Members(rest)
    BY <1>2, <2>1 DEF CommandsOK, QueuesOK
  <2>. HIDE DEF rest, c
  <2>3. /\ Members(lanes'[k].queue) = Members(rest) \cup {Inner(c)}
        /\ Simple(lanes'[k].queue)
    BY <1>1, <1>5, <2>1, <2>2, AppendedMembers
  <2>. QED  BY <1>2, <1>3, <1>5, <2>1, <2>3, SMTT(40) DEF c
<1>. QED  BY <1>4, <1>5, Started

LEMMA StartStep ==
    ASSUME QueueTypeOK, CommandsOK, NEW l \in Lanes, StartNext(l) PROVE CommandsOK'
<1>. DEFINE c == Head(lanes[l].queue)
<1>1. /\ c \in Commands /\ LaneOf(c) = l /\ c \in Members(lanes[l].queue)
      /\ promise[c] = "pending" /\ c \notin executing
      /\ executing' = executing \cup {c}
      /\ startedIn' = [startedIn EXCEPT ![c] = lanes[l].generation]
      /\ c[1] = "session" => Inner(c) = <<"global", c[2]>> /\ promise[Inner(c)] = "none"
  BY StartFacts
<1>2. \A d \in Commands : \/ (promise[d] = "none" /\ c[1] = "session" /\ d = Inner(c))
                        \/ promise'[d] = promise[d]
  BY StartFacts
<1>3. \A k \in Lanes : /\ lanes'[k].active = IF k = l THEN lanes[k].active \cup {c} ELSE lanes[k].active
                       /\ lanes'[k].maxConcurrent = lanes[k].maxConcurrent
                       /\ lanes'[k].generation = lanes[k].generation
  BY Started
<1>4. \A k \in Lanes : /\ Simple(lanes'[k].queue)
                       /\ \A d \in Members(lanes'[k].queue) :
                            /\ d # c /\ d \in Commands
                            /\ \/ d \in Members(lanes[k].queue)
                               \/ /\ c[1] = "session" /\ d = Inner(c) /\ k = LaneOf(d)
                                  /\ promise'[d] = "pending"
  BY StartQueues
<1>5. executing \subseteq Commands /\ \A d \in Commands : LaneOf(d) \in Lanes
  BY LanesOfCommands DEF QueueTypeOK
<1>6. \A d \in executing : promise[d] = "pending"
  BY DEF CommandsOK, ExecutingOK
<1>7. \A r \in Runs : <<"global", r>> \in Commands /\ <<"session", r>> \in Commands
                      /\ <<"global", r>> # <<"session", r>>
  BY DEF Commands
<1>. HIDE DEF c
<1>8. QueuesOK'
  <2>. SUFFICES ASSUME NEW k \in Lanes, NEW d \in Members(lanes'[k].queue)
                PROVE  LaneOf(d) = k /\ promise'[d] = "pending" /\ d \notin executing'
    BY <1>4 DEF QueuesOK
  <2>1. CASE d \in Members(lanes[k].queue)
    BY <1>1, <1>2, <1>4, <2>1 DEF CommandsOK, QueuesOK
  <2>2. CASE c[1] = "session" /\ d = Inner(c) /\ k = LaneOf(d) /\ promise'[d] = "pending"
    BY <1>1, <1>4, <1>6, <2>2
  <2>. QED  BY <1>4, <2>1, <2>2
<1>9. InnerOK'
  <2>. SUFFICES ASSUME NEW r \in Runs, promise'[<<"global", r>>] # "none"
                PROVE  /\ promise'[<<"session", r>>] # "none"
                       /\ <<"session", r>> \notin Members(lanes'[LaneOf(<<"session", r>>)].queue)
    BY DEF InnerOK
  <2>1. LaneOf(<<"session", r>>) \in Lanes
    BY <1>5, <1>7
  <2>2. CASE promise[<<"global", r>>] # "none"
    <3>1. /\ promise[<<"session", r>>] # "none"
          /\ <<"session", r>> \notin Members(lanes[LaneOf(<<"session", r>>)].queue)
      BY <2>2 DEF CommandsOK, InnerOK
    <3>2. c[1] = "session" => Inner(c) # <<"session", r>>
      BY <1>1
    <3>. QED  BY <1>2, <1>4, <1>7, <2>1, <3>1, <3>2
  <2>3. CASE promise[<<"global", r>>] = "none"
    <3>1. c[1] = "session" /\ <<"global", r>> = Inner(c)
      BY <1>2, <1>7, <2>3
    <3>2. c = <<"session", r>>
      BY <1>1, <3>1, CommandKinds
    <3>. QED  BY <1>1, <1>2, <1>4, <2>1, <3>2
  <2>. QED  BY <2>2, <2>3
<1>10. ActiveOK'
  <2>. SUFFICES ASSUME NEW k \in Lanes
                PROVE  /\ IsFiniteSet(lanes'[k].active)
                       /\ \A d \in lanes'[k].active : LaneOf(d) = k
    BY DEF ActiveOK
  <2>1. IsFiniteSet(lanes[k].active) /\ \A d \in lanes[k].active : LaneOf(d) = k
    BY DEF CommandsOK, ActiveOK
  <2>2. CASE k = l
    <3>1. lanes'[k].active = lanes[k].active \cup {c}
      BY <1>3, <2>2
    <3>2. IsFiniteSet(lanes[k].active \cup {c})
      BY <2>1, FS_AddElement
    <3>. QED  BY <1>1, <2>1, <2>2, <3>1, <3>2
  <2>3. CASE k # l
    BY <1>3, <2>1, <2>3
  <2>. QED  BY <2>2, <2>3
<1>11. ExecutingOK'
  <2>. SUFFICES ASSUME NEW d \in executing'
                PROVE  /\ promise'[d] = "pending"
                       /\ startedIn'[d] <= lanes'[LaneOf(d)].generation
                       /\ startedIn'[d] = lanes'[LaneOf(d)].generation
                             => d \in lanes'[LaneOf(d)].active
    BY DEF ExecutingOK
  <2>1. CASE d = c
    <3>1. startedIn'[c] = lanes[l].generation /\ lanes[l].generation \in Nat
      BY <1>1, LaneTypes DEF QueueTypeOK
    <3>2. promise'[c] = "pending"
      BY <1>1, <1>2
    <3>3. lanes'[l].generation = lanes[l].generation /\ c \in lanes'[l].active
      BY <1>3
    <3>. QED  BY <1>1, <2>1, <3>1, <3>2, <3>3
  <2>2. CASE d \in executing /\ d # c
    <3>1. startedIn'[d] = startedIn[d] /\ promise'[d] = "pending"
      BY <1>1, <1>2, <1>5, <1>6, <2>2 DEF QueueTypeOK
    <3>. QED  BY <1>3, <1>5, <2>2, <3>1 DEF CommandsOK, ExecutingOK
  <2>. QED  BY <1>1, <2>1, <2>2
<1>12. TurnOK'
  <2>. SUFFICES ASSUME NEW r \in Runs, promise'[<<"global", r>>] = "pending"
                PROVE  <<"session", r>> \in executing'
    BY DEF TurnOK
  <2>1. CASE promise[<<"global", r>>] = "pending"
    BY <1>1, <2>1 DEF CommandsOK, TurnOK
  <2>2. CASE promise[<<"global", r>>] # "pending"
    <3>1. c[1] = "session" /\ <<"global", r>> = Inner(c)
      BY <1>2, <1>7, <2>2
    <3>2. c = <<"session", r>>
      BY <1>1, <3>1, CommandKinds
    <3>. QED  BY <1>1, <3>2
  <2>. QED  BY <2>1, <2>2
<1>13. SessionOK'
  <2>1. \A k \in Sessions : lanes'[k].maxConcurrent = 1
    BY <1>3 DEF CommandsOK, SessionOK, Lanes
  <2>2. ASSUME l \in Sessions, NEW d \in executing, LaneOf(d) = l
        PROVE  startedIn[d] # lanes[l].generation
    <3>1. Cardinality(lanes[l].active) < 1
      BY <2>2 DEF StartNext, HasRoom, CommandsOK, SessionOK
    <3>2. lanes[l].active = {}
      BY <3>1, FS_EmptySet, FS_CardinalityType DEF CommandsOK, ActiveOK
    <3>. QED  BY <2>2, <3>2 DEF CommandsOK, ExecutingOK
  <2>3. \A d \in executing : startedIn'[d] = startedIn[d] /\ d # c
    BY <1>1, <1>5 DEF QueueTypeOK
  <2>4. startedIn'[c] = lanes[l].generation
    BY <1>1 DEF QueueTypeOK
  <2>. QED  BY <1>1, <2>1, <2>2, <2>3, <2>4 DEF CommandsOK, SessionOK
<1>. QED  BY <1>8, <1>9, <1>10, <1>11, <1>12, <1>13 DEF CommandsOK

\* The other steps that touch the commands.
LEMMA EnqueueStep ==
    ASSUME QueueTypeOK, CommandsOK, NEW c \in Commands, EnqueueCommandInLane(c) PROVE CommandsOK'
<1>1. /\ promise[c] = "none" /\ LaneOf(c) \in Lanes
      /\ executing' = executing /\ startedIn' = startedIn
  BY LanesOfCommands DEF EnqueueCommandInLane, MayBeEnqueued
<1>2. c[1] # "global"
  BY CommandKinds DEF EnqueueCommandInLane, MayBeEnqueued, Outermost
<1>3. \A k \in Lanes : /\ lanes'[k].active = lanes[k].active
                       /\ lanes'[k].maxConcurrent = lanes[k].maxConcurrent
                       /\ lanes'[k].generation = lanes[k].generation
  BY Enqueued
<1>4. /\ \A d \in Commands : d # c => promise'[d] = promise[d]
      /\ promise'[c] \in {"pending", "settled"}
  BY DEF EnqueueCommandInLane, QueueTypeOK
<1>5. \A k \in Lanes : \/ lanes'[k].queue = lanes[k].queue
                       \/ /\ k = LaneOf(c) /\ promise'[c] = "pending"
                          /\ lanes'[k].queue = Append(lanes[k].queue, c)
  BY Enqueued
<1>6. \A k \in Lanes : c \notin Members(lanes[k].queue)
  BY <1>1 DEF CommandsOK, QueuesOK
<1>7. c \notin executing /\ executing \subseteq Commands
  BY <1>1 DEF CommandsOK, ExecutingOK, QueueTypeOK
<1>8. \A k \in Lanes : /\ Simple(lanes'[k].queue)
                       /\ \A d \in Members(lanes'[k].queue) :
                            \/ d \in Members(lanes[k].queue) /\ d # c /\ d \in Commands
                            \/ d = c /\ k = LaneOf(c) /\ promise'[c] = "pending"
  <2>. SUFFICES ASSUME NEW k \in Lanes
                PROVE  /\ Simple(lanes'[k].queue)
                       /\ \A d \in Members(lanes'[k].queue) :
                            \/ d \in Members(lanes[k].queue) /\ d # c /\ d \in Commands
                            \/ d = c /\ k = LaneOf(c) /\ promise'[c] = "pending"
    OBVIOUS
  <2>1. lanes[k].queue \in Seq(Commands) /\ Simple(lanes[k].queue)
    BY LaneTypes DEF CommandsOK, QueuesOK
  <2>2. Members(lanes[k].queue) \subseteq Commands
    BY <2>1 DEF Members
  <2>3. Members(Append(lanes[k].queue, c)) = Members(lanes[k].queue) \cup {c}
        /\ Simple(Append(lanes[k].queue, c))
    BY <1>6, <2>1, AppendedMembers
  <2>. QED  BY <1>5, <1>6, <2>1, <2>2, <2>3
<1>9. \A r \in Runs : /\ <<"global", r>> \in Commands /\ <<"global", r>> # c
                      /\ <<"session", r>> \in Commands /\ LaneOf(<<"session", r>>) \in Lanes
  BY <1>2, LanesOfCommands DEF Commands
<1>10. QueuesOK'
  BY <1>1, <1>4, <1>7, <1>8 DEF CommandsOK, QueuesOK
<1>11. InnerOK'
  <2>. SUFFICES ASSUME NEW r \in Runs, promise'[<<"global", r>>] # "none"
                PROVE  /\ promise'[<<"session", r>>] # "none"
                       /\ <<"session", r>> \notin Members(lanes'[LaneOf(<<"session", r>>)].queue)
    BY DEF InnerOK
  <2>1. /\ promise[<<"session", r>>] # "none"
        /\ <<"session", r>> \notin Members(lanes[LaneOf(<<"session", r>>)].queue)
    BY <1>4, <1>9 DEF CommandsOK, InnerOK
  <2>. QED  BY <1>1, <1>4, <1>8, <1>9, <2>1
<1>12. ActiveOK'
  BY <1>3 DEF CommandsOK, ActiveOK
<1>13. ExecutingOK'
  <2>1. \A d \in executing : LaneOf(d) \in Lanes /\ d # c
    BY <1>7, LanesOfCommands
  <2>. QED  BY <1>1, <1>3, <1>4, <1>7, <2>1 DEF CommandsOK, ExecutingOK
<1>14. TurnOK'
  BY <1>1, <1>4, <1>9 DEF CommandsOK, TurnOK
<1>15. SessionOK'
  BY <1>1, <1>3 DEF CommandsOK, SessionOK, Lanes
<1>. QED  BY <1>10, <1>11, <1>12, <1>13, <1>14, <1>15 DEF CommandsOK

LEMMA EndStep ==
    ASSUME QueueTypeOK, CommandsOK, NEW c \in Commands, TaskEnds(c) PROVE CommandsOK'
<1>1. /\ c \in executing /\ MayEnd(c) /\ LaneOf(c) \in Lanes
      /\ executing' = executing \ {c}
      /\ \A d \in Commands : d # c => startedIn'[d] = startedIn[d]
  BY LanesOfCommands DEF TaskEnds, QueueTypeOK
<1>2. /\ \A d \in Commands : d # c => promise'[d] = promise[d]
      /\ promise'[c] = "settled"
  BY DEF TaskEnds, QueueTypeOK
<1>3. \A k \in Lanes : /\ lanes'[k].queue = lanes[k].queue
                       /\ lanes'[k].maxConcurrent = lanes[k].maxConcurrent
                       /\ lanes'[k].generation = lanes[k].generation
                       /\ lanes'[k].active \in {lanes[k].active, lanes[k].active \ {c}}
  BY Completed
<1>4. executing \subseteq Commands /\ \A d \in Commands : LaneOf(d) \in Lanes
  BY LanesOfCommands DEF QueueTypeOK
<1>5. \A r \in Runs : <<"global", r>> \in Commands /\ <<"session", r>> \in Commands
  BY DEF Commands
<1>6. QueuesOK'
  <2>1. \A k \in Lanes : Members(lanes[k].queue) \subseteq Commands
    BY LaneTypes DEF Members
  <2>. QED  BY <1>1, <1>2, <1>3, <2>1 DEF CommandsOK, QueuesOK
<1>7. InnerOK'
  <2>. SUFFICES ASSUME NEW r \in Runs, promise'[<<"global", r>>] # "none"
                PROVE  /\ promise'[<<"session", r>>] # "none"
                       /\ <<"session", r>> \notin Members(lanes'[LaneOf(<<"session", r>>)].queue)
    BY DEF InnerOK
  <2>1. promise[<<"global", r>>] # "none"
    BY <1>1, <1>2, <1>5 DEF CommandsOK, ExecutingOK
  <2>. QED  BY <1>2, <1>3, <1>4, <1>5, <2>1 DEF CommandsOK, InnerOK
<1>8. ActiveOK'
  <2>1. \A k \in Lanes : IsFiniteSet(lanes[k].active) /\ IsFiniteSet(lanes[k].active \ {c})
    BY FS_RemoveElement DEF CommandsOK, ActiveOK
  <2>. QED  BY <1>3, <2>1 DEF CommandsOK, ActiveOK
<1>9. ExecutingOK'
  BY <1>1, <1>2, <1>3, <1>4 DEF CommandsOK, ExecutingOK
<1>10. TurnOK'
  <2>. SUFFICES ASSUME NEW r \in Runs, promise'[<<"global", r>>] = "pending"
                PROVE  <<"session", r>> \in executing'
    BY DEF TurnOK
  <2>1. promise[<<"global", r>>] = "pending" /\ <<"session", r>> \in executing
    BY <1>2, <1>5 DEF CommandsOK, TurnOK
  <2>2. ASSUME c = <<"session", r>> PROVE FALSE
    <3>1. c[1] = "session" /\ Inner(c) = <<"global", r>>
      BY <2>2 DEF Inner
    <3>2. promise[Inner(c)] = "settled"
      BY <1>1, <3>1 DEF MayEnd
    <3>. QED  BY <2>1, <3>1, <3>2
  <2>. QED  BY <1>1, <2>1, <2>2
<1>11. SessionOK'
  BY <1>1, <1>3, <1>4 DEF CommandsOK, SessionOK, Lanes
<1>. QED  BY <1>6, <1>7, <1>8, <1>9, <1>10, <1>11 DEF CommandsOK

LEMMA ClearStep ==
    ASSUME QueueTypeOK, CommandsOK, NEW l \in Lanes, ClearCommandLane(l) PROVE CommandsOK'
<1>. DEFINE pending == {c \in Commands : \E i \in DOMAIN lanes[l].queue : lanes[l].queue[i] = c}
<1>1. executing' = executing /\ startedIn' = startedIn
  BY DEF ClearCommandLane
<1>2. \A k \in Lanes : /\ lanes'[k].queue = IF k = l THEN <<>> ELSE lanes[k].queue
                       /\ lanes'[k].active = lanes[k].active
                       /\ lanes'[k].maxConcurrent = lanes[k].maxConcurrent
                       /\ lanes'[k].generation = lanes[k].generation
  BY DEF ClearCommandLane, QueueTypeOK, LaneState
<1>3. /\ pending = Members(lanes[l].queue)
      /\ \A c \in Commands : promise'[c] = IF c \in pending THEN "settled" ELSE promise[c]
  <2>1. Members(lanes[l].queue) \subseteq Commands
    BY LaneTypes DEF Members
  <2>2. pending = Members(lanes[l].queue)
    BY <2>1 DEF Members
  <2>. QED  BY <2>2 DEF ClearCommandLane
<1>4. executing \subseteq Commands /\ \A c \in Commands : LaneOf(c) \in Lanes
  BY LanesOfCommands DEF QueueTypeOK
<1>5. \A c \in pending : LaneOf(c) = l /\ promise[c] = "pending" /\ c \notin executing
  BY <1>3 DEF CommandsOK, QueuesOK
<1>6. \A r \in Runs : <<"global", r>> \in Commands /\ <<"session", r>> \in Commands
  BY DEF Commands
<1>. HIDE DEF pending
<1>7. QueuesOK'
  <2>1. Simple(<<>>) /\ Members(<<>>) = {}
    BY DEF Simple, Members
  <2>2. ASSUME NEW k \in Lanes, k # l, NEW c \in Members(lanes[k].queue)
        PROVE  LaneOf(c) = k /\ promise'[c] = "pending" /\ c \notin executing'
    <3>1. LaneOf(c) = k /\ promise[c] = "pending" /\ c \notin executing
      BY <2>2 DEF CommandsOK, QueuesOK
    <3>2. c \in Commands /\ c \notin pending
      BY <1>5, <2>2, <3>1, LaneTypes DEF Members
    <3>. QED  BY <1>1, <1>3, <3>1, <3>2
  <2>. QED  BY <1>2, <2>1, <2>2 DEF CommandsOK, QueuesOK
<1>8. InnerOK'
  <2>. SUFFICES ASSUME NEW r \in Runs, promise'[<<"global", r>>] # "none"
                PROVE  /\ promise'[<<"session", r>>] # "none"
                       /\ <<"session", r>> \notin Members(lanes'[LaneOf(<<"session", r>>)].queue)
    BY DEF InnerOK
  <2>1. promise[<<"global", r>>] # "none"
    BY <1>3, <1>5, <1>6
  <2>2. Members(<<>>) = {}
    BY DEF Members
  <2>. QED  BY <1>2, <1>3, <1>4, <1>6, <2>1, <2>2 DEF CommandsOK, InnerOK
<1>9. ActiveOK'
  BY <1>2 DEF CommandsOK, ActiveOK
<1>10. ExecutingOK'
  BY <1>1, <1>2, <1>3, <1>4, <1>5 DEF CommandsOK, ExecutingOK
<1>11. TurnOK'
  BY <1>1, <1>3, <1>6 DEF CommandsOK, TurnOK
<1>12. SessionOK'
  BY <1>1, <1>2 DEF CommandsOK, SessionOK, Lanes
<1>. QED  BY <1>7, <1>8, <1>9, <1>10, <1>11, <1>12 DEF CommandsOK

\* Queues, promises and what executes stay; lanes may be reset or limited anew.
LEMMA QuietStep ==
    ASSUME QueueTypeOK, CommandsOK,
           promise' = promise, startedIn' = startedIn,
           executing' \subseteq executing,
           \A c \in executing \ executing' : c[1] = "global",
           \A l \in Lanes : /\ lanes'[l].queue = lanes[l].queue
                            /\ l \in Sessions => lanes'[l].maxConcurrent = lanes[l].maxConcurrent
                            /\ \/ /\ lanes'[l].active = lanes[l].active
                                  /\ lanes'[l].generation = lanes[l].generation
                               \/ /\ lanes'[l].active = {}
                                  /\ lanes'[l].generation = lanes[l].generation + 1
    PROVE  CommandsOK'
<1>1. executing \subseteq Commands /\ \A c \in Commands : LaneOf(c) \in Lanes
  BY LanesOfCommands DEF QueueTypeOK
<1>2. \A r \in Runs : <<"session", r>> \in Commands
  BY DEF Commands
<1>3. QueuesOK'
  BY DEF CommandsOK, QueuesOK
<1>4. InnerOK'
  BY <1>1, <1>2 DEF CommandsOK, InnerOK
<1>5. ActiveOK'
  BY FS_EmptySet DEF CommandsOK, ActiveOK
<1>6. ExecutingOK'
  <2>. SUFFICES ASSUME NEW c \in executing'
                PROVE  /\ promise'[c] = "pending"
                       /\ startedIn'[c] <= lanes'[LaneOf(c)].generation
                       /\ startedIn'[c] = lanes'[LaneOf(c)].generation
                             => c \in lanes'[LaneOf(c)].active
    BY DEF ExecutingOK
  <2>1. /\ promise[c] = "pending"
        /\ startedIn[c] <= lanes[LaneOf(c)].generation
        /\ startedIn[c] = lanes[LaneOf(c)].generation => c \in lanes[LaneOf(c)].active
    BY DEF CommandsOK, ExecutingOK
  <2>2. startedIn[c] \in Nat /\ lanes[LaneOf(c)].generation \in Nat /\ LaneOf(c) \in Lanes
    BY <1>1, LaneTypes DEF QueueTypeOK
  <2>. QED  BY <2>1, <2>2
<1>7. TurnOK'
  <2>1. \A r \in Runs : <<"session", r>>[1] = "session"
    OBVIOUS
  <2>. QED  BY <2>1 DEF CommandsOK, TurnOK
<1>8. SessionOK'
  BY DEF CommandsOK, SessionOK, Lanes
<1>. QED  BY <1>3, <1>4, <1>5, <1>6, <1>7, <1>8 DEF CommandsOK

LEMMA CommandsStep == ASSUME QueueTypeOK, CommandsOK, QueueStep PROVE CommandsOK'
<1>1. ASSUME NEW l \in Lanes, Drained(l) PROVE CommandsOK'
  BY <1>1, QuietStep DEF Drained
<1>2. ASSUME NEW l \in Lanes, NEW n \in Nat, l \in Configured, SetCommandLaneConcurrency(l, n)
      PROVE  CommandsOK'
  <2>1. l \notin Sessions
    BY <1>2, CommandQueueAssumption DEF Configured, GlobalLanes
  <2>2. \A k \in Lanes : /\ lanes'[k].queue = lanes[k].queue
                         /\ k \in Sessions => lanes'[k].maxConcurrent = lanes[k].maxConcurrent
                         /\ lanes'[k].active = lanes[k].active
                         /\ lanes'[k].generation = lanes[k].generation
    BY <1>2, <2>1 DEF SetCommandLaneConcurrency, QueueTypeOK, LaneState
  <2>. QED  BY <1>2, <2>2, QuietStep DEF SetCommandLaneConcurrency
<1>3. ASSUME NEW tasks \in SUBSET {c \in executing : c[1] = "global"}, TasksHang(tasks)
      PROVE  CommandsOK'
  BY <1>3, QuietStep DEF TasksHang
<1>4. CASE ResetAllLanes
  <2>1. \A l \in Lanes : /\ lanes'[l].queue = lanes[l].queue
                         /\ lanes'[l].active = {}
                         /\ lanes'[l].maxConcurrent = lanes[l].maxConcurrent
                         /\ lanes'[l].generation = lanes[l].generation + 1
    BY <1>4, ResetLanes
  <2>2. promise' = promise /\ startedIn' = startedIn /\ executing' = executing
    BY <1>4 DEF ResetAllLanes
  <2>. QED  BY <2>1, <2>2, QuietStep
<1>5. CASE MarkGatewayDrainingAndWait \/ WaitTimesOut \/ UNCHANGED queueVars
  BY <1>5, QuietStep DEF MarkGatewayDrainingAndWait, WaitTimesOut, queueVars
<1>. QED
  BY <1>1, <1>2, <1>3, <1>4, <1>5, StartStep, EnqueueStep, EndStep, ClearStep
     DEF QueueStep, DrainLane, Lanes

LEMMA CommandsInit == Init => CommandsOK
<1>. SUFFICES ASSUME Init PROVE CommandsOK
  OBVIOUS
<1>1. \A l \in Lanes : /\ lanes[l].queue = <<>> /\ lanes[l].active = {}
                       /\ lanes[l].maxConcurrent = 1
  BY DEF Init, QueueInit
<1>2. executing = {} /\ \A c \in Commands : promise[c] = "none"
  BY DEF Init, QueueInit
<1>3. Simple(<<>>) /\ Members(<<>>) = {}
  BY DEF Simple, Members
<1>4. \A r \in Runs : <<"global", r>> \in Commands
  BY DEF Commands
<1>5. QueuesOK /\ InnerOK /\ TurnOK
  BY <1>1, <1>2, <1>3, <1>4 DEF QueuesOK, InnerOK, TurnOK
<1>6. ActiveOK
  BY <1>1, FS_EmptySet DEF ActiveOK
<1>7. ExecutingOK /\ SessionOK
  BY <1>1, <1>2 DEF ExecutingOK, SessionOK, Lanes
<1>. QED  BY <1>5, <1>6, <1>7 DEF CommandsOK

LEMMA CommandsCorrect == Spec => []CommandsOK
<1>1. GatewayTypeOK /\ CommandsOK /\ [Next]_vars => CommandsOK'
  BY CommandsStep, QueueSteps DEF GatewayTypeOK
<1>. QED  BY <1>1, CommandsInit, GatewayTypeCorrect, PTL DEF Spec

\* Two runs of one session execute at the same time only across a restart: a
\* run is one command inside the other, and a session's lane holds one
\* (runEmbeddedPiAgent, drainLane).
THEOREM OneRunAtATime == Spec => []OneRunPerLifecycle
<1>1. ASSUME CommandsOK, QueueTypeOK, NEW r1 \in Runs, NEW r2 \in Runs, InSession(r1, r2)
      PROVE  startedIn[<<"session", r1>>] # startedIn[<<"session", r2>>]
  <2>. DEFINE c == <<"session", r1>>
              d == <<"session", r2>>
  <2>1. promise[<<"global", r1>>] = "pending" /\ promise[<<"global", r2>>] = "pending"
    BY <1>1 DEF InSession, CommandsOK, ExecutingOK
  <2>2. c \in executing /\ d \in executing
    BY <1>1, <2>1 DEF CommandsOK, TurnOK
  <2>3. c \in Commands /\ d \in Commands /\ c # d /\ c[1] = "session" /\ d[1] = "session"
        /\ c[2] = r1 /\ d[2] = r2
    BY <1>1 DEF Commands, InSession
  <2>4. LaneOf(c) = Session[r1] /\ LaneOf(d) = Session[r2] /\ LaneOf(c) \in Sessions
    BY <2>3, LanesOfCommands
  <2>. QED  BY <1>1, <2>2, <2>3, <2>4 DEF InSession, CommandsOK, SessionOK
<1>2. CommandsOK /\ GatewayTypeOK => OneRunPerLifecycle
  BY <1>1 DEF OneRunPerLifecycle, GatewayTypeOK
<1>. QED  BY <1>2, CommandsCorrect, GatewayTypeCorrect, PTL

\* A lane starts commands only within its limit (drainLane).
THEOREM LimitsAreKept == Spec => StartsWithinLimit
<1>1. ASSUME GatewayTypeOK, CommandsOK, [Next]_vars, NEW l \in Lanes
      PROVE  \/ lanes'[l].active \subseteq lanes[l].active
             \/ Cardinality(lanes'[l].active) <= lanes'[l].maxConcurrent
  <2>0. QueueTypeOK /\ QueueStep
    BY <1>1, QueueSteps DEF GatewayTypeOK
  <2>1. ASSUME NEW k \in Lanes, StartNext(k)
        PROVE  \/ lanes'[l].active \subseteq lanes[l].active
               \/ Cardinality(lanes'[l].active) <= lanes'[l].maxConcurrent
    <3>. DEFINE c == Head(lanes[k].queue)
    <3>1. CASE k = l
      <4>1. /\ lanes'[l].active = lanes[l].active \cup {c}
            /\ lanes'[l].maxConcurrent = lanes[l].maxConcurrent
        BY <2>0, <2>1, <3>1, Started
      <4>2. Cardinality(lanes[l].active) < lanes[l].maxConcurrent
        BY <2>1, <3>1 DEF StartNext, HasRoom
      <4>3. IsFiniteSet(lanes[l].active) /\ lanes[l].maxConcurrent \in Nat
        BY <1>1, <2>0, LaneTypes DEF CommandsOK, ActiveOK
      <4>. HIDE DEF c
      <4>4. /\ Cardinality(lanes[l].active) \in Nat
            /\ Cardinality(lanes[l].active \cup {c}) \in
                  {Cardinality(lanes[l].active), Cardinality(lanes[l].active) + 1}
        BY <4>3, FS_AddElement, FS_CardinalityType
      <4>. QED  BY <4>1, <4>2, <4>3, <4>4
    <3>2. CASE k # l
      BY <2>0, <2>1, <3>2, Started
    <3>. QED  BY <3>1, <3>2
  <2>2. ASSUME NEW k \in Lanes, Drained(k) PROVE lanes'[l].active = lanes[l].active
    BY <2>2 DEF Drained
  <2>3. ASSUME NEW k \in Lanes, NEW n \in Nat, SetCommandLaneConcurrency(k, n)
        PROVE  lanes'[l].active = lanes[l].active
    BY <2>0, <2>3 DEF SetCommandLaneConcurrency, QueueTypeOK, LaneState
  <2>4. ASSUME NEW k \in Lanes, ClearCommandLane(k) PROVE lanes'[l].active = lanes[l].active
    BY <2>0, <2>4 DEF ClearCommandLane, QueueTypeOK, LaneState
  <2>5. ASSUME NEW c \in Commands, EnqueueCommandInLane(c) \/ TaskEnds(c)
        PROVE  lanes'[l].active \subseteq lanes[l].active
    BY <2>0, <2>5, Enqueued, Completed
  <2>6. ASSUME NEW tasks, TasksHang(tasks) PROVE lanes'[l].active = lanes[l].active
    BY <2>6 DEF TasksHang
  <2>7. CASE ResetAllLanes
    BY <2>0, <2>7, ResetLanes
  <2>8. CASE MarkGatewayDrainingAndWait \/ WaitTimesOut \/ UNCHANGED queueVars
    BY <2>8 DEF MarkGatewayDrainingAndWait, WaitTimesOut, queueVars
  <2>. QED
    BY <2>0, <2>1, <2>2, <2>3, <2>4, <2>5, <2>6, <2>7, <2>8 DEF QueueStep, DrainLane, Lanes
<1>2. GatewayTypeOK /\ CommandsOK /\ [Next]_vars => LimitKept
  BY <1>1 DEF LimitKept
<1>. QED  BY <1>2, GatewayTypeCorrect, CommandsCorrect, PTL DEF Spec, StartsWithinLimit

-----------------------------------------------------------------------------
(* What a restart waited for *)

\* A task a restart waits for is active or has settled.
Awaited(c) == promise[c] = "settled" \/ (waiter.result = "waiting" /\ c \in lanes[LaneOf(c)].active)
TasksOK    == waiter.result \in {"waiting", "drained"} => \A c \in waiter.tasks : Awaited(c)
WaitsOnly  == waiter.result = "waiting" => request.at = "draining"

\* What has settled stays so.
LEMMA SettledStays ==
    ASSUME QueueTypeOK, CommandsOK, QueueStep, NEW c \in Commands, promise[c] = "settled"
    PROVE  promise'[c] = "settled"
<1>1. ASSUME NEW l \in Lanes, StartNext(l) PROVE promise'[c] = "settled"
  BY <1>1, StartFacts
<1>2. ASSUME NEW d \in Commands, EnqueueCommandInLane(d) \/ TaskEnds(d)
      PROVE  promise'[c] = "settled"
  BY <1>2 DEF EnqueueCommandInLane, MayBeEnqueued, TaskEnds, QueueTypeOK
<1>3. ASSUME NEW l \in Lanes, ClearCommandLane(l) PROVE promise'[c] = "settled"
  BY <1>3 DEF ClearCommandLane
<1>4. ASSUME promise' = promise PROVE promise'[c] = "settled"
  BY <1>4
<1>5. ASSUME NEW l \in Lanes, NEW n \in Nat, SetCommandLaneConcurrency(l, n)
      PROVE  promise'[c] = "settled"
  BY <1>4, <1>5 DEF SetCommandLaneConcurrency
<1>6. ASSUME NEW tasks, TasksHang(tasks) PROVE promise'[c] = "settled"
  BY <1>4, <1>6 DEF TasksHang
<1>7. CASE MarkGatewayDrainingAndWait \/ WaitTimesOut \/ ResetAllLanes \/ UNCHANGED queueVars
  BY <1>4, <1>7 DEF MarkGatewayDrainingAndWait, WaitTimesOut, ResetAllLanes, queueVars
<1>8. ASSUME NEW l \in Lanes, Drained(l) PROVE promise'[c] = "settled"
  BY <1>4, <1>8 DEF Drained
<1>. QED  BY <1>1, <1>2, <1>3, <1>5, <1>6, <1>7, <1>8 DEF QueueStep, DrainLane, Lanes

LEMMA TasksStep ==
    ASSUME QueueTypeOK, CommandsOK, QueueStep, TasksOK, WaitsOnly
    PROVE  TasksOK'
<1>0. waiter.tasks \subseteq Commands /\ \A c \in Commands : LaneOf(c) \in Lanes
  BY LanesOfCommands DEF QueueTypeOK, Waiter
<1>1. ASSUME waiter' = waiter, \A l \in Lanes : lanes[l].active \subseteq lanes'[l].active
      PROVE  TasksOK'
  BY <1>0, <1>1, SettledStays DEF TasksOK, Awaited
<1>2. ASSUME waiter' = waiter, waiter.result # "waiting" PROVE TasksOK'
  BY <1>0, <1>2, SettledStays, SMTT(40) DEF TasksOK, Awaited
<1>3. ASSUME NEW l \in Lanes, StartNext(l) PROVE TasksOK'
  <2>1. \A k \in Lanes : lanes[k].active \subseteq lanes'[k].active
    BY <1>3, Started
  <2>. QED  BY <1>1, <1>3, <2>1 DEF StartNext
<1>4. ASSUME NEW l \in Lanes, Drained(l) PROVE TasksOK'
  BY <1>1, <1>4 DEF Drained
<1>5. ASSUME NEW l \in Lanes, NEW n \in Nat, SetCommandLaneConcurrency(l, n) PROVE TasksOK'
  <2>1. \A k \in Lanes : lanes'[k].active = lanes[k].active
    BY <1>5 DEF SetCommandLaneConcurrency, QueueTypeOK, LaneState
  <2>. QED  BY <1>1, <1>5, <2>1 DEF SetCommandLaneConcurrency
<1>6. ASSUME NEW l \in Lanes, ClearCommandLane(l) PROVE TasksOK'
  <2>1. \A k \in Lanes : lanes'[k].active = lanes[k].active
    BY <1>6 DEF ClearCommandLane, QueueTypeOK, LaneState
  <2>. QED  BY <1>1, <1>6, <2>1 DEF ClearCommandLane
<1>7. ASSUME NEW c \in Commands, EnqueueCommandInLane(c) PROVE TasksOK'
  BY <1>1, <1>7, Enqueued DEF EnqueueCommandInLane
<1>8. ASSUME NEW c \in Commands, TaskEnds(c) PROVE TasksOK'
  <2>1. \A k \in Lanes : lanes'[k].active \in {lanes[k].active, lanes[k].active \ {c}}
    BY <1>8, Completed
  <2>2. promise'[c] = "settled"
    BY <1>8 DEF TaskEnds, QueueTypeOK
  <2>3. waiter' \in {waiter, NotifyActiveTaskWaiters(lanes')}
    BY <1>8 DEF TaskEnds
  <2>4. ASSUME waiter.result = "waiting", NEW d \in waiter.tasks
        PROVE  promise'[d] = "settled" \/ d \in lanes'[LaneOf(d)].active
    BY <1>0, <2>1, <2>2, <2>4, SettledStays DEF TasksOK, Awaited
  <2>5. CASE waiter' = waiter
    <3>1. CASE waiter.result = "waiting"
      BY <2>4, <2>5, <3>1 DEF TasksOK, Awaited
    <3>. QED  BY <1>2, <2>5, <3>1
  <2>6. CASE waiter' = NotifyActiveTaskWaiters(lanes') /\ waiter' # waiter
    <3>1. /\ waiter.result = "waiting" /\ waiter'.tasks = waiter.tasks
          /\ \A l \in Lanes : waiter.tasks \cap lanes'[l].active = {}
      BY <2>6 DEF NotifyActiveTaskWaiters, QueueTypeOK, Waiter
    <3>. QED  BY <1>0, <2>4, <3>1 DEF TasksOK, Awaited
  <2>. QED  BY <2>3, <2>5, <2>6
<1>9. CASE request.at = "locking" /\ ResetAllLanes
  <2>1. waiter' = waiter /\ waiter.result # "waiting"
    BY <1>9 DEF WaitsOnly, ResetAllLanes, NotifyActiveTaskWaiters
  <2>. QED  BY <1>2, <2>1
<1>10. CASE MarkGatewayDrainingAndWait
  <2>1. waiter' = [tasks |-> ActiveTasks, result |-> IF ActiveTasks = {} THEN "drained" ELSE "waiting"]
        /\ lanes' = lanes
    BY <1>10 DEF MarkGatewayDrainingAndWait
  <2>2. ASSUME NEW c \in ActiveTasks PROVE c \in lanes[LaneOf(c)].active
    <3>1. PICK l \in Lanes : c \in lanes[l].active
      BY DEF ActiveTasks
    <3>. QED  BY <3>1 DEF CommandsOK, ActiveOK
  <2>. HIDE DEF ActiveTasks
  <2>. QED  BY <2>1, <2>2 DEF TasksOK, Awaited
<1>11. CASE WaitTimesOut
  BY <1>11 DEF WaitTimesOut, TasksOK, QueueTypeOK, Waiter
<1>12. ASSUME NEW tasks, TasksHang(tasks) PROVE TasksOK'
  BY <1>1, <1>12 DEF TasksHang
<1>13. CASE UNCHANGED queueVars
  BY <1>1, <1>13 DEF queueVars
<1>. QED
  BY <1>3, <1>4, <1>5, <1>6, <1>7, <1>8, <1>9, <1>10, <1>11, <1>12, <1>13
     DEF QueueStep, DrainLane, Lanes

\* Only the request that asked for the wait is waiting.
LEMMA WaitsStep == ASSUME GatewayTypeOK, WaitsOnly, [Next]_vars PROVE WaitsOnly'
<1>. USE DEF WaitsOnly
<1>1. CASE StartSucceeds \/ StartFails \/ ForceExit \/ Exit
  BY <1>1 DEF StartSucceeds, StartFails, ForceExit, Exit, queueVars
<1>2. CASE RequestRestart \/ RequestStop
  BY <1>2 DEF RequestRestart, RequestStop, NoRequest, queueVars
<1>3. CASE DrainEnds \/ Close
  BY <1>3 DEF DrainEnds, Close, TasksHang, queueVars
<1>4. CASE DrainTimesOut
  BY <1>4 DEF DrainTimesOut, WaitTimesOut, GatewayTypeOK, QueueTypeOK, Waiter
<1>5. CASE RestartInProcess
  BY <1>5 DEF RestartInProcess, ResetAllLanes, NotifyActiveTaskWaiters, queueVars
<1>6. ASSUME request' = request, waiter' \in {waiter, NotifyActiveTaskWaiters(lanes')}
      PROVE  WaitsOnly'
  BY <1>6 DEF NotifyActiveTaskWaiters, GatewayTypeOK, QueueTypeOK, Waiter
<1>7. ASSUME NEW c \in Commands, Enqueue(c) \/ EndTask(c) PROVE WaitsOnly'
  BY <1>6, <1>7, SMTT(40) DEF Enqueue, EndTask, EnqueueCommandInLane, TaskEnds, loopVars
<1>8. ASSUME NEW l \in Lanes, Clear(l) \/ Drain(l) PROVE WaitsOnly'
  BY <1>6, <1>8 DEF Clear, Drain, ClearCommandLane, DrainLane, StartNext, Drained, loopVars
<1>9. ASSUME NEW l \in Configured, NEW n \in Limits, Configure(l, n) PROVE WaitsOnly'
  BY <1>6, <1>9 DEF Configure, SetCommandLaneConcurrency
<1>10. CASE UNCHANGED vars
  BY <1>6, <1>10 DEF vars, queueVars, loopVars
<1>. QED  BY <1>1, <1>2, <1>3, <1>4, <1>5, <1>7, <1>8, <1>9, <1>10 DEF Next, Lanes

\* What was active when a restart was asked for has settled by the time the
\* restart is told so (waitForActiveTasks, notifyActiveTaskWaiters).
THEOREM DrainedTasksHaveEnded == Spec => []DrainedHaveEnded
<1>1. Init => TasksOK /\ WaitsOnly
  BY DEF Init, QueueInit, TasksOK, WaitsOnly
<1>2. GatewayTypeOK /\ CommandsOK /\ TasksOK /\ WaitsOnly /\ [Next]_vars => TasksOK' /\ WaitsOnly'
  BY TasksStep, WaitsStep, QueueSteps DEF GatewayTypeOK
<1>3. TasksOK => DrainedHaveEnded
  BY DEF TasksOK, Awaited, DrainedHaveEnded
<1>. QED  BY <1>1, <1>2, <1>3, GatewayTypeCorrect, CommandsCorrect, PTL DEF Spec
=============================================================================
