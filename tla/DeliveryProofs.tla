---------------------------- MODULE DeliveryProofs ---------------------------
(***************************************************************************)
(* Proofs about the outbound delivery queue, for any number of deliveries   *)
(* and starts, and any number of crashes and failing disk operations.       *)
(***************************************************************************)
EXTENDS DeliveryQueue, FiniteSetTheorems, TLAPS

\* Every step of DeliveryQueue keeps the variables within their types.
LEMMA TypeStep == DeliveryTypeOK /\ [Next]_vars => DeliveryTypeOK'
<1>. SUFFICES ASSUME DeliveryTypeOK, [Next]_vars PROVE DeliveryTypeOK'
  OBVIOUS
<1>. USE DeliveryQueueAssumption DEF DeliveryTypeOK, history, files, Workers
<1>1. ASSUME NEW d \in Deliveries, NEW written \in BOOLEAN, NEW best \in BOOLEAN,
             Deliver(d, written, best)
      PROVE  DeliveryTypeOK'
  <2>1. job' \in [Workers -> Job]
    BY <1>1 DEF Deliver, On, Job, Steps
  <2>. QED  BY <1>1, <2>1 DEF Deliver, NoFile
<1>2. ASSUME NEW w \in Workers, Work(w) PROVE DeliveryTypeOK'
  <2>1. CASE Receive(w)
    <3>1. job[w] \in [at : Steps, id : Deliveries, read : Nat]
      BY <2>1 DEF Receive, Job, Idle, Ended
    <3>2. job' \in [Workers -> Job]
      BY <2>1, <3>1 DEF Receive, Job, Steps
    <3>. QED  BY <2>1, <3>1, <3>2 DEF Receive
  <2>2. ASSUME NEW answer \in AnswerKinds, Answer(w, answer) PROVE DeliveryTypeOK'
    <3>1. job[w] \in [at : Steps, id : Deliveries, read : Nat]
      BY <2>2 DEF Answer, Job, Idle, Ended
    <3>2. StepAfter(w, answer) \in Steps
      BY <2>2 DEF StepAfter, Steps, AnswerKinds
    <3>3. job' \in [Workers -> Job]
      BY <2>2, <3>1, <3>2 DEF Answer, Job, On
    <3>. QED  BY <2>2, <3>1, <3>3 DEF Answer
  <2>3. CASE AckRename(w)
    <3>1. job[w] \in [at : Steps, id : Deliveries, read : Nat]
      BY <2>3 DEF AckRename, Job, Idle, Ended
    <3>2. job' \in [Workers -> Job]
      BY <2>3, <3>1 DEF AckRename, Job, Steps
    <3>. QED  BY <2>3, <3>1, <3>2 DEF AckRename
  <2>4. CASE AckUnlink(w)
    BY <2>4 DEF AckUnlink, Job, Done
  <2>5. CASE FailRead(w)
    <3>1. job[w] \in [at : Steps, id : Deliveries, read : Nat]
      BY <2>5 DEF FailRead, Job, Idle, Ended
    <3>2. job' \in [Workers -> Job]
      BY <2>5, <3>1 DEF FailRead, Job, Steps, Done
    <3>. QED  BY <2>5, <3>2 DEF FailRead
  <2>6. CASE FailWrite(w)
    <3>1. job[w] \in [at : Steps, id : Deliveries, read : Nat]
      BY <2>6 DEF FailWrite, Job, Idle, Ended
    <3>2. job' \in [Workers -> Job]
      BY <2>6 DEF FailWrite, Job, Done
    <3>. QED  BY <2>6, <3>1, <3>2 DEF FailWrite
  <2>7. CASE MoveToFailed(w)
    <3>1. job[w] \in [at : Steps, id : Deliveries, read : Nat]
      BY <2>7 DEF MoveToFailed, Job, Idle, Ended
    <3>2. job' \in [Workers -> Job]
      BY <2>7 DEF MoveToFailed, Job, Done
    <3>. QED  BY <2>7, <3>1, <3>2 DEF MoveToFailed
  <2>8. CASE DiskFault(w)
    <3>1. job[w] \in [at : Steps, id : Deliveries, read : Nat]
      BY <2>8 DEF DiskFault, Job, Idle, Ended
    <3>2. job' \in [Workers -> Job]
      BY <2>8, <3>1 DEF DiskFault, Job, Steps, Done, On
    <3>. QED  BY <2>8, <3>1, <3>2 DEF DiskFault
  <2>. QED  BY <1>2, <2>1, <2>2, <2>3, <2>4, <2>5, <2>6, <2>7, <2>8 DEF Work
<1>3. ASSUME NEW r \in Scans, Scan(r) PROVE DeliveryTypeOK'
  <2>1. CASE StartScan(r)
    <3>1. mishaps' \in [Deliveries -> Nat]
      BY <2>1 DEF StartScan
    <3>2. phase' \in [Scans -> {"waiting", "replaying", "deferring", "ended"}]
      BY <2>1 DEF StartScan
    <3>3. todo' \in [Scans -> [Deliveries -> Nat \cup {NoFile}]]
      BY <2>1 DEF StartScan
    <3>. QED  BY <2>1, <3>1, <3>2, <3>3 DEF StartScan
  <2>2. CASE Deadline(r)
    BY <2>2 DEF Deadline
  <2>3. CASE ScanEnds(r)
    BY <2>3 DEF ScanEnds, Job
  <2>4. ASSUME NEW d \in Deliveries, NEW step \in {"idle", "sending", "moving"}, Taken(r, d, step)
        PROVE  job' \in [Workers -> Job] /\ todo' \in [Scans -> [Deliveries -> Nat \cup {NoFile}]]
    <3>1. job' \in [Workers -> Job]
      BY <2>4 DEF Taken, On, Job, Steps
    <3>2. todo' \in [Scans -> [Deliveries -> Nat \cup {NoFile}]]
      BY <2>4 DEF Taken
    <3>. QED  BY <3>1, <3>2
  <2>5. ASSUME NEW d \in Deliveries, Replay(r, d) PROVE DeliveryTypeOK'
    <3>1. Taken(r, d, "sending")
      BY <2>5 DEF Replay
    <3>2. job' \in [Workers -> Job] /\ todo' \in [Scans -> [Deliveries -> Nat \cup {NoFile}]]
      BY <2>4, <3>1
    <3>3. tries' \in [Deliveries -> Nat]
      BY <2>5 DEF Replay
    <3>. QED  BY <3>1, <3>2, <3>3 DEF Taken
  <2>6. ASSUME NEW d \in Deliveries, TooEarly(r, d) PROVE DeliveryTypeOK'
    <3>1. Taken(r, d, "idle")
      BY <2>6 DEF TooEarly
    <3>. QED  BY <2>4, <2>6, <3>1 DEF TooEarly, Taken
  <2>7. ASSUME NEW d \in Deliveries, GiveUp(r, d) PROVE DeliveryTypeOK'
    <3>1. Taken(r, d, "moving")
      BY <2>7 DEF GiveUp
    <3>2. job' \in [Workers -> Job] /\ todo' \in [Scans -> [Deliveries -> Nat \cup {NoFile}]]
      BY <2>4, <3>1
    <3>. QED  BY <2>7, <3>1, <3>2 DEF GiveUp, Taken
  <2>8. ASSUME NEW d \in Deliveries, Defer(r, d) PROVE DeliveryTypeOK'
    <3>1. job' \in [Workers -> Job]
      BY <2>8 DEF Defer, On, Job, Steps
    <3>2. todo' \in [Scans -> [Deliveries -> Nat \cup {NoFile}]]
      BY <2>8 DEF Defer
    <3>. QED  BY <2>8, <3>1, <3>2 DEF Defer
  <2>. QED  BY <1>3, <2>1, <2>2, <2>3, <2>5, <2>6, <2>7, <2>8 DEF Scan
<1>4. CASE Crash
  <2>1. job' \in [Workers -> Job]
    BY <1>4 DEF Crash, Job
  <2>2. mishaps' \in [Deliveries -> Nat]
    BY <1>4 DEF Crash
  <2>3. phase' \in [Scans -> {"waiting", "replaying", "deferring", "ended"}]
    BY <1>4 DEF Crash
  <2>4. todo' \in [Scans -> [Deliveries -> Nat \cup {NoFile}]]
    BY <1>4 DEF Crash
  <2>. QED  BY <1>4, <2>1, <2>2, <2>3, <2>4 DEF Crash
<1>5. CASE UNCHANGED vars
  BY <1>5 DEF vars
<1>. QED  BY <1>1, <1>2, <1>3, <1>4, <1>5 DEF Next

\* Every variable keeps its type (DeliveryQueue).
THEOREM DeliveryTypeCorrect == Spec => []DeliveryTypeOK
<1>1. Init => DeliveryTypeOK
  BY DeliveryQueueAssumption DEF Init, DeliveryTypeOK, Job, NoFile
<1>. QED  BY <1>1, TypeStep, PTL DEF Spec

-----------------------------------------------------------------------------
(* Nothing is lost *)

\* What a worker that is about to rename an entry knows of its delivery.
HasReason(d) == d \in bestEffort \/ copies[d] > 0 \/ d \in recalled
StillHasReason(d) == d \in bestEffort' \/ copies'[d] > 0 \/ d \in recalled'

WellSupported ==
    \A w \in Workers :
        /\ job[w].at = "received" => copies[job[w].id] > 0
        /\ job[w].at = "renaming" => HasReason(job[w].id)

\* A delivery nobody asked for yet has left no trace.
NoTrace(d) ==
    /\ pending[d] = NoFile
    /\ copies[d] = 0
    /\ d \notin recalled \cup failed \cup accepted
    /\ \A w \in Workers : ~WorksOn(w, d)
    /\ \A r \in Scans : todo[r][d] = NoFile

Untouched == \A d \in Deliveries : job[d] = Idle => NoTrace(d)

\* Only a busy worker acts on a delivery.
LEMMA BusyJob ==
    ASSUME DeliveryTypeOK, NEW w \in Workers, Busy(w)
    PROVE  /\ job[w].id \in Deliveries
           /\ job[w].read \in Nat
           /\ job[w] \in [at : Steps, id : Deliveries, read : Nat]
BY DEF DeliveryTypeOK, Busy, Job, Idle, Ended, Steps

\* Reasons do not go away.
LEMMA ReasonsStay ==
    ASSUME DeliveryTypeOK, [Next]_vars, NEW d \in Deliveries, HasReason(d)
    PROVE  StillHasReason(d)
<1>. USE DEF history, files, HasReason, StillHasReason
<1>1. ASSUME NEW e \in Deliveries, NEW written \in BOOLEAN, NEW best \in BOOLEAN,
             Deliver(e, written, best)
      PROVE  StillHasReason(d)
  BY <1>1 DEF Deliver
<1>2. ASSUME NEW w \in Workers, Work(w) PROVE StillHasReason(d)
  <2>1. CASE Receive(w)
    BY <2>1 DEF Receive, DeliveryTypeOK
  <2>2. ASSUME NEW answer \in AnswerKinds, Answer(w, answer) PROVE StillHasReason(d)
    BY <2>2 DEF Answer
  <2>3. CASE AckRename(w) \/ AckUnlink(w) \/ FailRead(w) \/ FailWrite(w) \/ MoveToFailed(w)
    BY <2>3 DEF AckRename, AckUnlink, FailRead, FailWrite, MoveToFailed
  <2>4. CASE DiskFault(w)
    BY <2>4 DEF DiskFault
  <2>. QED  BY <1>2, <2>1, <2>2, <2>3, <2>4 DEF Work
<1>3. ASSUME NEW r \in Scans, Scan(r) PROVE StillHasReason(d)
  BY <1>3 DEF Scan, StartScan, Deadline, ScanEnds, Replay, TooEarly, GiveUp, Defer, Taken
<1>4. CASE Crash \/ UNCHANGED vars
  BY <1>4 DEF Crash, vars
<1>. QED  BY <1>1, <1>2, <1>3, <1>4 DEF Next

\* A worker renames only with a reason.
LEMMA SupportedStep == DeliveryTypeOK /\ WellSupported /\ [Next]_vars => WellSupported'
<1>. SUFFICES ASSUME DeliveryTypeOK, WellSupported, [Next]_vars,
                     NEW w \in Workers
              PROVE  /\ job'[w].at = "received" => copies'[job'[w].id] > 0
                     /\ job'[w].at = "renaming" => StillHasReason(job'[w].id)
  BY DEF WellSupported, HasReason, StillHasReason
<1>a. ASSUME job'[w] = job[w], copies' = copies
      PROVE  /\ job'[w].at = "received" => copies'[job'[w].id] > 0
             /\ job'[w].at = "renaming" => StillHasReason(job'[w].id)
  <2>1. job[w].at = "renaming" => StillHasReason(job[w].id)
    BY ReasonsStay, BusyJob DEF WellSupported, Busy, Steps
  <2>. QED  BY <1>a, <2>1 DEF WellSupported, StillHasReason
<1>b. ASSUME job'[w].at \notin {"received", "renaming"}
      PROVE  /\ job'[w].at = "received" => copies'[job'[w].id] > 0
             /\ job'[w].at = "renaming" => StillHasReason(job'[w].id)
  BY <1>b
<1>. USE DEF history, files
<1>1. ASSUME NEW d \in Deliveries, NEW written \in BOOLEAN, NEW best \in BOOLEAN,
             Deliver(d, written, best)
      PROVE  /\ job'[w].at = "received" => copies'[job'[w].id] > 0
             /\ job'[w].at = "renaming" => StillHasReason(job'[w].id)
  BY <1>1, <1>a, <1>b DEF Deliver, On, DeliveryTypeOK, Workers
<1>2. ASSUME NEW v \in Workers, Work(v)
      PROVE  /\ job'[w].at = "received" => copies'[job'[w].id] > 0
             /\ job'[w].at = "renaming" => StillHasReason(job'[w].id)
  <2>1. CASE Receive(v)
    <3>1. CASE w = v
      <4>1. job[w].id \in Deliveries
        BY <2>1, <3>1, BusyJob DEF Receive, Busy, Steps
      <4>2. job'[w].at = "received" /\ job'[w].id = job[w].id
        BY <2>1, <3>1 DEF Receive, DeliveryTypeOK
      <4>. QED  BY <2>1, <3>1, <4>1, <4>2 DEF Receive, DeliveryTypeOK
    <3>2. CASE w # v
      <4>1. job'[w] = job[w]
        BY <2>1, <3>2 DEF Receive, DeliveryTypeOK
      <4>2. job[w].at = "renaming" => StillHasReason(job[w].id)
        BY ReasonsStay, BusyJob DEF WellSupported, Busy, Steps
      <4>3. job[w].at = "received" => copies'[job[w].id] > 0
        <5>1. SUFFICES ASSUME job[w].at = "received" PROVE copies'[job[w].id] > 0
          OBVIOUS
        <5>2. job[w].id \in Deliveries /\ job[v].id \in Deliveries
          BY <2>1, <5>1, BusyJob DEF Receive, Busy, Steps
        <5>3. copies[job[w].id] > 0
          BY <5>1 DEF WellSupported
        <5>. QED  BY <2>1, <5>2, <5>3 DEF Receive, DeliveryTypeOK
      <4>. QED  BY <4>1, <4>2, <4>3
    <3>. QED  BY <3>1, <3>2
  <2>2. ASSUME NEW answer \in AnswerKinds, Answer(v, answer)
        PROVE  /\ job'[w].at = "received" => copies'[job'[w].id] > 0
               /\ job'[w].at = "renaming" => StillHasReason(job'[w].id)
    <3>1. CASE w = v
      <4>0. job[w].id \in Deliveries /\ (job[w].at = "received" => copies[job[w].id] > 0)
        BY <2>2, <3>1, BusyJob DEF Answer, Busy, Steps, WellSupported
      <4>1. CASE job'[w] = Ended
        BY <4>1 DEF Ended
      <4>2. CASE job'[w] = On(StepAfter(v, answer), job[w].id)
        <5>1. job'[w].at # "received"
          BY <4>2 DEF On, StepAfter, AnswerKinds
        <5>2. job'[w].at = "renaming" => answer \in {"sent", "recalled", "swallowed"}
          BY <4>2 DEF On, StepAfter, AnswerKinds
        <5>3. answer \in {"sent", "recalled", "swallowed"} => StillHasReason(job[w].id)
          BY <2>2, <3>1, <4>0 DEF Answer, Answers, StillHasReason
        <5>. QED  BY <4>2, <5>1, <5>2, <5>3 DEF On
      <4>. QED  BY <2>2, <3>1, <4>1, <4>2 DEF Answer, DeliveryTypeOK
    <3>2. CASE w # v
      BY <2>2, <3>2, <1>a DEF Answer, DeliveryTypeOK
    <3>. QED  BY <3>1, <3>2
  <2>3. CASE AckRename(v)
    BY <2>3, <1>a, <1>b, BusyJob DEF AckRename, DeliveryTypeOK, Busy, Steps
  <2>4. CASE AckUnlink(v)
    BY <2>4, <1>a, <1>b DEF AckUnlink, DeliveryTypeOK, Done, Idle, Ended
  <2>5. CASE FailRead(v)
    BY <2>5, <1>a, <1>b, BusyJob DEF FailRead, DeliveryTypeOK, Done, Idle, Ended, Busy, Steps
  <2>6. CASE FailWrite(v)
    BY <2>6, <1>a, <1>b DEF FailWrite, DeliveryTypeOK, Done, Idle, Ended
  <2>7. CASE MoveToFailed(v)
    BY <2>7, <1>a, <1>b DEF MoveToFailed, DeliveryTypeOK, Done, Idle, Ended
  <2>8. CASE DiskFault(v)
    BY <2>8, <1>a, <1>b DEF DiskFault, DeliveryTypeOK, Done, Idle, Ended, On
  <2>. QED  BY <1>2, <2>1, <2>2, <2>3, <2>4, <2>5, <2>6, <2>7, <2>8 DEF Work
<1>3. ASSUME NEW r \in Scans, Scan(r)
      PROVE  /\ job'[w].at = "received" => copies'[job'[w].id] > 0
             /\ job'[w].at = "renaming" => StillHasReason(job'[w].id)
  <2>1. CASE StartScan(r) \/ Deadline(r)
    BY <2>1, <1>a DEF StartScan, Deadline
  <2>2. CASE ScanEnds(r)
    BY <2>2, <1>a, <1>b DEF ScanEnds, DeliveryTypeOK, Ended
  <2>3. ASSUME NEW d \in Deliveries, NEW step \in {"idle", "sending", "moving"}, Taken(r, d, step)
        PROVE  /\ job'[w].at = "received" => copies'[job'[w].id] > 0
               /\ job'[w].at = "renaming" => StillHasReason(job'[w].id)
    BY <2>3, <1>a, <1>b DEF Taken, DeliveryTypeOK, Idle, On
  <2>4. ASSUME NEW d \in Deliveries, Defer(r, d)
        PROVE  /\ job'[w].at = "received" => copies'[job'[w].id] > 0
               /\ job'[w].at = "renaming" => StillHasReason(job'[w].id)
    BY <2>4, <1>a, <1>b DEF Defer, DeliveryTypeOK, On
  <2>. QED  BY <1>3, <2>1, <2>2, <2>3, <2>4 DEF Scan, Replay, TooEarly, GiveUp
<1>4. CASE Crash
  BY <1>4, <1>a, <1>b DEF Crash, Ended
<1>5. CASE UNCHANGED vars
  BY <1>5, <1>a DEF vars
<1>. QED  BY <1>1, <1>2, <1>3, <1>4, <1>5 DEF Next

\* An entry leaves the queue only for a reason, or for failed/.
LEMMA LostStep ==
    DeliveryTypeOK /\ WellSupported /\ NothingLost /\ [Next]_vars => NothingLost'
<1>. SUFFICES ASSUME DeliveryTypeOK, WellSupported, NothingLost, [Next]_vars,
                     NEW d \in Deliveries, d \in accepted', d \notin bestEffort'
              PROVE  \/ copies'[d] > 0
                     \/ d \in recalled' \cup failed'
                     \/ pending'[d] # NoFile
  BY TypeStep DEF NothingLost, DeliveryTypeOK
<1>. DEFINE Safe == copies[d] > 0 \/ d \in recalled \cup failed \/ pending[d] # NoFile
            SafeThen == \/ copies'[d] > 0
                        \/ d \in recalled' \cup failed'
                        \/ pending'[d] # NoFile
<1>. USE DEF history, files
<1>1. ASSUME NEW e \in Deliveries, NEW written \in BOOLEAN, NEW best \in BOOLEAN,
             Deliver(e, written, best)
      PROVE  SafeThen
  BY <1>1 DEF Deliver, NothingLost, DeliveryTypeOK, NoFile
<1>2. ASSUME NEW w \in Workers, Work(w) PROVE SafeThen
  <2>0. Safe
    BY <1>2 DEF Work, Receive, Answer, AckRename, AckUnlink, FailRead, FailWrite,
                MoveToFailed, DiskFault, NothingLost
  <2>1. CASE Receive(w)
    <3>1. job[w].id \in Deliveries
      BY <2>1, BusyJob DEF Receive, Busy, Steps
    <3>. QED  BY <2>0, <2>1, <3>1 DEF Receive, DeliveryTypeOK
  <2>2. ASSUME NEW answer \in AnswerKinds, Answer(w, answer) PROVE SafeThen
    BY <2>0, <2>2 DEF Answer
  <2>3. CASE AckRename(w)
    <3>1. job[w].id \in Deliveries /\ HasReason(job[w].id)
      BY <2>3, BusyJob DEF AckRename, Busy, Steps, WellSupported
    <3>2. CASE d = job[w].id
      BY <2>3, <3>1, <3>2 DEF AckRename, HasReason
    <3>3. CASE d # job[w].id
      BY <2>0, <2>3, <3>3 DEF AckRename, DeliveryTypeOK
    <3>. QED  BY <3>2, <3>3
  <2>4. CASE AckUnlink(w) \/ FailRead(w) \/ DiskFault(w)
    BY <2>0, <2>4 DEF AckUnlink, FailRead, DiskFault
  <2>5. CASE FailWrite(w)
    <3>1. job[w].id \in Deliveries /\ job[w].read \in Nat
      BY <2>5, BusyJob DEF FailWrite, Busy, Steps
    <3>. QED  BY <2>0, <2>5, <3>1 DEF FailWrite, DeliveryTypeOK, NoFile
  <2>6. CASE MoveToFailed(w)
    <3>1. job[w].id \in Deliveries
      BY <2>6, BusyJob DEF MoveToFailed, Busy, Steps
    <3>. QED  BY <2>0, <2>6, <3>1 DEF MoveToFailed, DeliveryTypeOK
  <2>. QED  BY <1>2, <2>1, <2>2, <2>3, <2>4, <2>5, <2>6 DEF Work
<1>3. ASSUME NEW r \in Scans, Scan(r) PROVE SafeThen
  BY <1>3 DEF Scan, StartScan, Deadline, ScanEnds, Replay, TooEarly, GiveUp, Defer, Taken,
              NothingLost
<1>4. CASE Crash \/ UNCHANGED vars
  BY <1>4 DEF Crash, vars, NothingLost
<1>. QED  BY <1>1, <1>2, <1>3, <1>4 DEF Next

\* A delivery whose entry was written is received, recalled, put aside or still
\* in the queue (ackDelivery, failDelivery, moveToFailed).
THEOREM NothingIsLost == Spec => []NothingLost
<1>1. Init => WellSupported /\ NothingLost
  BY DEF Init, WellSupported, NothingLost, Idle
<1>. QED  BY <1>1, DeliveryTypeCorrect, SupportedStep, LostStep, PTL DEF Spec

-----------------------------------------------------------------------------
(* The queue implements the outbox *)

\* A call that has begun does not become idle again.
LEMMA StaysIdle ==
    ASSUME DeliveryTypeOK, [Next]_vars, NEW d \in Deliveries, job'[d] = Idle
    PROVE  job[d] = Idle
<1>. USE DeliveryQueueAssumption DEF DeliveryTypeOK, Workers, history, files
<1>1. ASSUME NEW e \in Deliveries, NEW written \in BOOLEAN, NEW best \in BOOLEAN,
             Deliver(e, written, best)
      PROVE  job[d] = Idle
  BY <1>1 DEF Deliver, On, Idle
<1>2. ASSUME NEW w \in Workers, Work(w) PROVE job[d] = Idle
  <2>1. CASE w # d
    BY <1>2, <2>1 DEF Work, Receive, Answer, AckRename, AckUnlink, FailRead, FailWrite,
                      MoveToFailed, DiskFault
  <2>2. CASE w = d
    <3>1. Busy(w) => job[w] \in [at : Steps, id : Deliveries, read : Nat]
      BY BusyJob
    <3>2. Done(w) = Ended
      BY <2>2 DEF Done
    <3>3. CASE Receive(w)
      BY <2>2, <3>1, <3>3 DEF Receive, Busy, Steps, Idle
    <3>4. ASSUME NEW answer \in AnswerKinds, Answer(w, answer) PROVE FALSE
      BY <2>2, <3>4 DEF Answer, On, StepAfter, AnswerKinds, Idle, Ended
    <3>5. CASE AckRename(w)
      BY <2>2, <3>1, <3>5 DEF AckRename, Busy, Steps, Idle
    <3>6. CASE FailRead(w)
      <4>1. CASE pending[job[w].id] # NoFile
        <5>1. job'[d].at = "writing"
          BY <2>2, <3>1, <3>6, <4>1 DEF FailRead, Busy, Steps
        <5>. QED  BY <5>1 DEF Idle
      <4>2. CASE pending[job[w].id] = NoFile
        BY <2>2, <3>1, <3>2, <3>6, <4>2 DEF FailRead, Busy, Steps, Idle, Ended
      <4>. QED  BY <4>1, <4>2
    <3>7. CASE AckUnlink(w) \/ FailWrite(w) \/ MoveToFailed(w)
      BY <2>2, <3>2, <3>7 DEF AckUnlink, FailWrite, MoveToFailed, Idle, Ended
    <3>8. CASE DiskFault(w)
      BY <2>2, <3>2, <3>8 DEF DiskFault, Idle, Ended
    <3>. QED  BY <1>2, <3>3, <3>4, <3>5, <3>6, <3>7, <3>8 DEF Work
  <2>. QED  BY <2>1, <2>2
<1>3. ASSUME NEW r \in Scans, Scan(r) PROVE job[d] = Idle
  BY <1>3 DEF Scan, StartScan, Deadline, ScanEnds, Replay, TooEarly, GiveUp, Defer, Taken
<1>4. CASE Crash \/ UNCHANGED vars
  BY <1>4 DEF Crash, vars, Idle, Ended
<1>. QED  BY <1>1, <1>2, <1>3, <1>4 DEF Next

\* Nothing acts on a delivery before it is asked for.
LEMMA UntouchedStep == DeliveryTypeOK /\ Untouched /\ [Next]_vars => Untouched'
<1>. SUFFICES ASSUME DeliveryTypeOK, Untouched, [Next]_vars,
                     NEW d \in Deliveries, job'[d] = Idle
              PROVE  NoTrace(d)'
  BY DEF Untouched
<1>0. job[d] = Idle /\ NoTrace(d)
  BY StaysIdle DEF Untouched
<1>. USE DeliveryQueueAssumption, <1>0 DEF history, files, NoTrace, WorksOn, Busy
<1>1. ASSUME NEW e \in Deliveries, NEW written \in BOOLEAN, NEW best \in BOOLEAN,
             Deliver(e, written, best)
      PROVE  NoTrace(d)'
  <2>1. e # d
    BY <1>1 DEF Deliver, On, Idle, DeliveryTypeOK, Workers
  <2>. QED  BY <1>1, <2>1 DEF Deliver, On, DeliveryTypeOK, Workers
<1>2. ASSUME NEW w \in Workers, Work(w) PROVE NoTrace(d)'
  <2>1. job[w].id # d /\ job[w].id \in Deliveries /\ Busy(w)
    BY <1>2, BusyJob DEF Work, Receive, Answer, AckRename, AckUnlink, FailRead, FailWrite,
                         MoveToFailed, DiskFault, Steps
  <2>2. job'[w] \in {Idle, Ended} \/ job'[w].id = job[w].id
    <3>1. job[w] \in [at : Steps, id : Deliveries, read : Nat]
      BY <2>1, BusyJob
    <3>2. \A x : [job EXCEPT ![w] = x][w] = x
      BY DEF DeliveryTypeOK
    <3>3. CASE Receive(w) \/ AckRename(w)
      BY <3>1, <3>2, <3>3 DEF Receive, AckRename, DeliveryTypeOK
    <3>4. ASSUME NEW answer \in AnswerKinds, Answer(w, answer)
          PROVE  job'[w] \in {Idle, Ended} \/ job'[w].id = job[w].id
      BY <3>1, <3>2, <3>4 DEF Answer, On
    <3>5. CASE AckUnlink(w) \/ FailWrite(w) \/ MoveToFailed(w)
      BY <3>2, <3>5 DEF AckUnlink, FailWrite, MoveToFailed, Done
    <3>6. CASE FailRead(w)
      BY <3>1, <3>2, <3>6 DEF FailRead, Done
    <3>7. CASE DiskFault(w)
      BY <3>2, <3>7 DEF DiskFault, Done, On
    <3>. QED  BY <1>2, <3>3, <3>4, <3>5, <3>6, <3>7 DEF Work
  <2>3. \A v \in Workers : v # w => job'[v] = job[v]
    BY <1>2 DEF Work, Receive, Answer, AckRename, AckUnlink, FailRead, FailWrite,
                MoveToFailed, DiskFault, DeliveryTypeOK
  <2>4. \A v \in Workers : ~WorksOn(v, d)'
    BY <2>1, <2>2, <2>3 DEF Idle, Ended, Steps
  <2>5. /\ pending'[d] = pending[d]
        /\ copies'[d] = copies[d]
        /\ d \notin recalled' \cup failed' \cup accepted'
        /\ todo' = todo
    BY <1>2, <2>1 DEF Work, Receive, Answer, AckRename, AckUnlink, FailRead, FailWrite,
                      MoveToFailed, DiskFault, DeliveryTypeOK
  <2>. QED  BY <2>4, <2>5
<1>3. ASSUME NEW r \in Scans, Scan(r) PROVE NoTrace(d)'
  <2>1. CASE StartScan(r)
    BY <2>1 DEF StartScan, DeliveryTypeOK
  <2>2. CASE Deadline(r)
    BY <2>2 DEF Deadline
  <2>3. CASE ScanEnds(r)
    BY <2>3 DEF ScanEnds, Ended, Steps, DeliveryTypeOK
  <2>4. ASSUME NEW e \in Deliveries, NEW step \in {"idle", "sending", "moving"}, Taken(r, e, step)
        PROVE  NoTrace(d)'
    <3>1. e # d
      BY <2>4 DEF Taken
    <3>. QED  BY <2>4, <3>1 DEF Taken, On, Idle, Steps, DeliveryTypeOK
  <2>5. ASSUME NEW e \in Deliveries, Defer(r, e) PROVE NoTrace(d)'
    <3>1. e # d
      BY <2>5 DEF Defer
    <3>. QED  BY <2>5, <3>1 DEF Defer, On, DeliveryTypeOK
  <2>. QED  BY <1>3, <2>1, <2>2, <2>3, <2>4, <2>5 DEF Scan, Replay, TooEarly, GiveUp
<1>4. CASE Crash
  BY <1>4 DEF Crash, Ended, Steps
<1>5. CASE UNCHANGED vars
  BY <1>5 DEF vars
<1>. QED  BY <1>1, <1>2, <1>3, <1>4, <1>5 DEF Next

\* The image of the state under the refinement mapping.
Owed     == {d \in Deliveries \ bestEffort : pending[d] # NoFile}
Received == {d \in Deliveries \ bestEffort : copies[d] > 0}
Image    == <<Owed, Received, recalled \ bestEffort, failed \ bestEffort>>

LEMMA OutboxMove ==
    ASSUME NEW d \in Deliveries,
           \/ TheOutbox!Owe(d) \/ TheOutbox!Receive(d) \/ TheOutbox!Recall(d)
           \/ TheOutbox!Settle(d) \/ TheOutbox!PutAside(d)
    PROVE  TheOutbox!Next
BY DEF TheOutbox!Next

\* Every step of the queue is a step of the outbox or none.
LEMMA OutboxStep ==
    DeliveryTypeOK /\ WellSupported /\ Untouched /\ [Next]_vars
        => [TheOutbox!Next]_(TheOutbox!vars)
<1>. SUFFICES ASSUME DeliveryTypeOK, WellSupported, Untouched, [Next]_vars
              PROVE  TheOutbox!Next \/ UNCHANGED Image
  BY DEF TheOutbox!vars, Image, Owed, Received
<1>. USE DEF history, files
<1>1. ASSUME NEW d \in Deliveries, NEW written \in BOOLEAN, NEW best \in BOOLEAN,
             Deliver(d, written, best)
      PROVE  TheOutbox!Next \/ UNCHANGED Image
  <2>0. NoTrace(d)
    BY <1>1 DEF Untouched, Deliver
  <2>1. CASE written /\ ~best /\ d \notin bestEffort
    <3>1. TheOutbox!Owe(d)
      BY <1>1, <2>1 DEF TheOutbox!Owe, Deliver, NoFile, DeliveryTypeOK
    <3>. QED  BY <3>1, OutboxMove
  <2>2. CASE ~written \/ best \/ d \in bestEffort
    BY <1>1, <2>0, <2>2 DEF Deliver, NoTrace, Image, Owed, Received, DeliveryTypeOK
  <2>. QED  BY <2>1, <2>2
<1>2. ASSUME NEW w \in Workers, Work(w) PROVE TheOutbox!Next \/ UNCHANGED Image
  <2>0. job[w].id \in Deliveries /\ job[w].read \in Nat
    BY <1>2, BusyJob DEF Work, Receive, Answer, AckRename, AckUnlink, FailRead, FailWrite,
                         MoveToFailed, DiskFault, Steps, Busy
  <2>d. PICK d \in Deliveries : d = job[w].id
    BY <2>0
  <2>1. CASE Receive(w)
    <3>1. CASE job[w].id \notin bestEffort
      <4>1. TheOutbox!Receive(d)
        BY <2>d, <2>1, <3>1 DEF TheOutbox!Receive, Receive, DeliveryTypeOK
      <4>. QED  BY <4>1, OutboxMove
    <3>2. CASE job[w].id \in bestEffort
      BY <2>0, <2>1, <3>2 DEF Receive, Image, Owed, Received, DeliveryTypeOK
    <3>. QED  BY <3>1, <3>2
  <2>2. ASSUME NEW answer \in AnswerKinds, Answer(w, answer)
        PROVE  TheOutbox!Next \/ UNCHANGED Image
    <3>1. CASE answer = "recalled" /\ job[w].id \notin bestEffort
      <4>1. TheOutbox!Recall(d)
        BY <2>d, <2>2, <3>1 DEF TheOutbox!Recall, Answer
      <4>. QED  BY <4>1, OutboxMove
    <3>2. CASE answer # "recalled" \/ job[w].id \in bestEffort
      BY <2>0, <2>2, <3>2 DEF Answer, Image, Owed, Received
    <3>. QED  BY <3>1, <3>2
  <2>3. CASE AckRename(w)
    <3>1. HasReason(job[w].id)
      BY <2>3 DEF AckRename, WellSupported
    <3>2. CASE job[w].id \notin bestEffort /\ pending[job[w].id] # NoFile
      <4>1. TheOutbox!Settle(d)
        BY <2>d, <2>3, <3>1, <3>2 DEF TheOutbox!Settle, AckRename, HasReason, DeliveryTypeOK
      <4>. QED  BY <4>1, OutboxMove
    <3>3. CASE job[w].id \in bestEffort \/ pending[job[w].id] = NoFile
      BY <2>0, <2>3, <3>3 DEF AckRename, Image, Owed, Received, DeliveryTypeOK
    <3>. QED  BY <3>2, <3>3
  <2>4. CASE AckUnlink(w) \/ FailRead(w) \/ DiskFault(w)
    BY <2>4 DEF AckUnlink, FailRead, DiskFault, Image, Owed, Received
  <2>5. CASE FailWrite(w)
    <3>1. CASE job[w].id \notin bestEffort
      <4>1. TheOutbox!Owe(d)
        BY <2>0, <2>d, <2>5, <3>1 DEF TheOutbox!Owe, FailWrite, NoFile, DeliveryTypeOK
      <4>. QED  BY <4>1, OutboxMove
    <3>2. CASE job[w].id \in bestEffort
      BY <2>0, <2>5, <3>2 DEF FailWrite, Image, Owed, Received, DeliveryTypeOK
    <3>. QED  BY <3>1, <3>2
  <2>6. CASE MoveToFailed(w)
    <3>1. CASE job[w].id \notin bestEffort /\ pending[job[w].id] # NoFile
      <4>1. TheOutbox!PutAside(d)
        BY <2>d, <2>6, <3>1 DEF TheOutbox!PutAside, MoveToFailed, DeliveryTypeOK
      <4>. QED  BY <4>1, OutboxMove
    <3>2. CASE job[w].id \in bestEffort \/ pending[job[w].id] = NoFile
      BY <2>0, <2>6, <3>2 DEF MoveToFailed, Image, Owed, Received, DeliveryTypeOK
    <3>. QED  BY <3>1, <3>2
  <2>. QED  BY <1>2, <2>1, <2>2, <2>3, <2>4, <2>5, <2>6 DEF Work
<1>3. ASSUME NEW r \in Scans, Scan(r) PROVE UNCHANGED Image
  BY <1>3 DEF Scan, StartScan, Deadline, ScanEnds, Replay, TooEarly, GiveUp, Defer, Taken,
              Image, Owed, Received
<1>4. CASE Crash \/ UNCHANGED vars
  BY <1>4 DEF Crash, vars, Image, Owed, Received
<1>. QED  BY <1>1, <1>2, <1>3, <1>4 DEF Next

\* The queue implements the outbox: an accepted delivery stays owed until it is
\* received, recalled or put aside.
THEOREM QueueImplementsOutbox == Spec => ImplementsOutbox
<1>1. Init => WellSupported /\ Untouched
  BY DeliveryQueueAssumption
     DEF Init, WellSupported, Untouched, NoTrace, WorksOn, Busy, Steps, Idle
<1>2. Init => TheOutbox!Init
  BY DEF Init, TheOutbox!Init
<1>. QED
  BY <1>1, <1>2, DeliveryTypeCorrect, SupportedStep, UntouchedStep, OutboxStep, PTL
     DEF Spec, ImplementsOutbox, TheOutbox!Spec

-----------------------------------------------------------------------------
(* What the steps of one delivery leave alone *)

\* Nothing has begun before its time: a scan that has not started has loaded
\* nothing, and only a delivery whose entry was written has been loaded, or has a
\* worker that is past the send.
ScansWait ==
    \A r \in Scans : phase[r] = "waiting" =>
        job[r] = Idle /\ \A d \in Deliveries : todo[r][d] = NoFile

Unsent == \A d \in Deliveries : job[d] = Idle => tries[d] = 0

Unwritten(d) ==
    /\ pending[d] = NoFile
    /\ \A r \in Scans : todo[r][d] = NoFile
    /\ \A w \in Workers : WorksOn(w, d) => w \notin Scans /\ job[w].at \in {"sending", "received"}

BegunInOrder == ScansWait /\ Unsent /\ \A d \in Deliveries \ accepted : Unwritten(d)

\* A step of a worker on its delivery leaves the other workers and deliveries alone.
LEMMA WorkIsLocal ==
    ASSUME DeliveryTypeOK, NEW w \in Workers, Work(w)
    PROVE  /\ Busy(w) /\ job[w].id \in Deliveries
           /\ \A v \in Workers : v # w => job'[v] = job[v]
           /\ \/ job'[w] \in {Idle, Ended}
              \/ job'[w] \in [at : Steps, id : {job[w].id}, read : Nat]
           /\ \A e \in Deliveries : e # job[w].id =>
                 /\ pending'[e] = pending[e]
                 /\ copies'[e] = copies[e]
                 /\ lost'[e] = lost[e]
                 /\ mishaps'[e] = mishaps[e]
           /\ UNCHANGED <<todo, phase, tries, accepted, bestEffort>>
<1>. USE DEF history, files
<1>1. Busy(w)
  BY DEF Work, Receive, Answer, AckRename, AckUnlink, FailRead, FailWrite, MoveToFailed,
         DiskFault, Busy, Steps
<1>2. job[w].id \in Deliveries /\ job[w].read \in Nat
      /\ job[w] \in [at : Steps, id : Deliveries, read : Nat]
  BY <1>1, BusyJob
<1>3. \A v \in Workers : v # w => job'[v] = job[v]
  BY DEF Work, Receive, Answer, AckRename, AckUnlink, FailRead, FailWrite, MoveToFailed,
         DiskFault, DeliveryTypeOK
<1>4. \A x : [job EXCEPT ![w] = x][w] = x
  BY DEF DeliveryTypeOK
<1>5. job'[w] \in {Idle, Ended} \/ job'[w] \in [at : Steps, id : {job[w].id}, read : Nat]
  <2>1. CASE Receive(w) \/ AckRename(w)
    <3>1. job'[w] \in {[job[w] EXCEPT !.at = "received"], [job[w] EXCEPT !.at = "unlinking"]}
      BY <1>4, <2>1 DEF Receive, AckRename
    <3>. QED  BY <1>2, <3>1 DEF Steps
  <2>2. ASSUME NEW answer \in AnswerKinds, Answer(w, answer)
        PROVE  job'[w] \in {Idle, Ended} \/ job'[w] \in [at : Steps, id : {job[w].id}, read : Nat]
    <3>1. StepAfter(w, answer) \in Steps
      BY DEF StepAfter, Steps, AnswerKinds
    <3>2. job'[w] \in {Ended, On(StepAfter(w, answer), job[w].id)}
      BY <1>4, <2>2 DEF Answer
    <3>. QED  BY <3>1, <3>2 DEF On
  <2>3. CASE AckUnlink(w) \/ FailWrite(w) \/ MoveToFailed(w)
    BY <1>4, <2>3 DEF AckUnlink, FailWrite, MoveToFailed, Done
  <2>4. CASE FailRead(w)
    <3>1. job'[w] \in {Done(w), [job[w] EXCEPT !.at = "writing", !.read = pending[job[w].id]]}
      BY <1>4, <2>4 DEF FailRead
    <3>2. job'[w] # Done(w) => pending[job[w].id] \in Nat
      BY <1>2, <1>4, <2>4 DEF FailRead, DeliveryTypeOK, NoFile
    <3>. QED  BY <1>2, <3>1, <3>2 DEF Done, Steps
  <2>5. CASE DiskFault(w)
    BY <1>4, <2>5 DEF DiskFault, Done, On, Steps
  <2>. QED  BY <2>1, <2>2, <2>3, <2>4, <2>5 DEF Work
<1>6. \A e \in Deliveries : e # job[w].id =>
         /\ pending'[e] = pending[e]
         /\ copies'[e] = copies[e]
         /\ lost'[e] = lost[e]
         /\ mishaps'[e] = mishaps[e]
  BY <1>2 DEF Work, Receive, Answer, AckRename, AckUnlink, FailRead, FailWrite, MoveToFailed,
              DiskFault, DeliveryTypeOK
<1>7. UNCHANGED <<todo, phase, tries, accepted, bestEffort>>
  BY DEF Work, Receive, Answer, AckRename, AckUnlink, FailRead, FailWrite, MoveToFailed, DiskFault
<1>. QED  BY <1>1, <1>2, <1>3, <1>5, <1>6, <1>7

\* A step of a scan that takes an entry leaves the rest alone.
LEMMA TakeIsLocal ==
    ASSUME DeliveryTypeOK, NEW r \in Scans, NEW d \in Deliveries,
           Replay(r, d) \/ TooEarly(r, d) \/ GiveUp(r, d) \/ Defer(r, d)
    PROVE  /\ phase[r] \in {"replaying", "deferring"}
           /\ job[r] = Idle /\ ~Busy(r)
           /\ todo[r][d] \in Nat
           /\ todo'[r][d] = NoFile
           /\ \A s \in Scans, e \in Deliveries : s # r \/ e # d => todo'[s][e] = todo[s][e]
           /\ \A v \in Workers : v # r => job'[v] = job[v]
           /\ job'[r] = Idle \/ job'[r] \in [at : {"sending", "moving", "reading"}, id : {d}, read : Nat]
           /\ \A e \in Deliveries : e # d => tries'[e] = tries[e]
           /\ UNCHANGED <<files, phase, copies, lost, mishaps, accepted>>
<1>. USE DEF history, files
<1>1. phase[r] \in {"replaying", "deferring"} /\ job[r] = Idle /\ todo[r][d] # NoFile
  BY DEF Replay, TooEarly, GiveUp, Defer, Taken
<1>2. ~Busy(r)
  BY <1>1 DEF Busy, Idle, Steps
<1>3. todo[r][d] \in Nat
  BY <1>1 DEF DeliveryTypeOK, NoFile
<1>4. todo' = [todo EXCEPT ![r][d] = NoFile]
  BY DEF Replay, TooEarly, GiveUp, Defer, Taken
<1>5. /\ todo'[r][d] = NoFile
      /\ \A s \in Scans, e \in Deliveries : s # r \/ e # d => todo'[s][e] = todo[s][e]
  BY <1>4 DEF DeliveryTypeOK
<1>6. /\ \A v \in Workers : v # r => job'[v] = job[v]
      /\ job'[r] = Idle \/ job'[r] \in [at : {"sending", "moving", "reading"}, id : {d}, read : Nat]
  <2>1. r \in Workers /\ job \in [Workers -> Job]
    BY DEF Workers, DeliveryTypeOK
  <2>2. \E x \in {Idle, On("sending", d), On("moving", d), On("reading", d)} :
            job' = [job EXCEPT ![r] = x]
    BY DEF Replay, TooEarly, GiveUp, Defer, Taken
  <2>. QED  BY <2>1, <2>2 DEF On
<1>7. \A e \in Deliveries : e # d => tries'[e] = tries[e]
  BY DEF Replay, TooEarly, GiveUp, Defer, DeliveryTypeOK
<1>8. UNCHANGED <<files, phase, copies, lost, mishaps, accepted>>
  BY DEF Replay, TooEarly, GiveUp, Defer, Taken
<1>. QED  BY <1>1, <1>2, <1>3, <1>5, <1>6, <1>7, <1>8

LEMMA BegunStep ==
    DeliveryTypeOK /\ Untouched /\ BegunInOrder /\ [Next]_vars => BegunInOrder'
<1>. SUFFICES ASSUME DeliveryTypeOK, Untouched, BegunInOrder, [Next]_vars
              PROVE  ScansWait' /\ Unsent' /\ \A d \in Deliveries : d \notin accepted' => Unwritten(d)'
  BY DEF BegunInOrder
<1>. USE DeliveryQueueAssumption DEF history, files, BegunInOrder, ScansWait, Unsent, Unwritten
<1>0. \A d \in Deliveries : job'[d] = Idle => job[d] = Idle
  BY StaysIdle
<1>1. ASSUME NEW e \in Deliveries, NEW written \in BOOLEAN, NEW best \in BOOLEAN,
             Deliver(e, written, best)
      PROVE  ScansWait' /\ Unsent' /\ \A d \in Deliveries : d \notin accepted' => Unwritten(d)'
  <2>1. /\ \A v \in Workers : v # e => job'[v] = job[v]
        /\ job'[e] = On("sending", e)
        /\ \A d \in Deliveries : d # e => pending'[d] = pending[d] /\ tries'[d] = tries[d]
        /\ (e \notin accepted' => ~written /\ e \notin accepted)
        /\ UNCHANGED <<todo, phase>> /\ accepted \subseteq accepted'
    BY <1>1 DEF Deliver, DeliveryTypeOK, Workers
  <2>2. \A w \in Workers : ~WorksOn(w, e)
    BY <1>1 DEF Untouched, Deliver, NoTrace
  <2>3. ScansWait'
    BY <2>1 DEF Workers
  <2>4. Unsent'
    BY <1>0, <2>1 DEF On, Idle
  <2>5. ASSUME NEW d \in Deliveries, d \notin accepted' PROVE Unwritten(d)'
    <3>1. d \notin accepted /\ Unwritten(d)
      BY <2>1, <2>5
    <3>2. pending'[d] = NoFile
      BY <1>1, <2>1, <2>5, <3>1 DEF Deliver
    <3>3. \A w \in Workers : WorksOn(w, d)' => w \notin Scans /\ job'[w].at \in {"sending", "received"}
      BY <2>1, <3>1 DEF WorksOn, Busy, On, Workers
    <3>. QED  BY <2>1, <3>1, <3>2, <3>3
  <2>. QED  BY <2>3, <2>4, <2>5
<1>2. ASSUME NEW w \in Workers, Work(w)
      PROVE  ScansWait' /\ Unsent' /\ \A d \in Deliveries : d \notin accepted' => Unwritten(d)'
  <2>1. /\ Busy(w) /\ job[w].id \in Deliveries
        /\ \A v \in Workers : v # w => job'[v] = job[v]
        /\ \/ job'[w] \in {Idle, Ended}
           \/ job'[w] \in [at : Steps, id : {job[w].id}, read : Nat]
        /\ \A e \in Deliveries : e # job[w].id => pending'[e] = pending[e]
        /\ UNCHANGED <<todo, phase, tries, accepted>>
    BY <1>2, WorkIsLocal
  <2>2. ScansWait'
    BY <2>1 DEF Workers, Busy, Steps, Idle
  <2>3. Unsent'
    BY <1>0, <2>1
  <2>4. ASSUME NEW d \in Deliveries, d \notin accepted' PROVE Unwritten(d)'
    <3>1. d \notin accepted /\ Unwritten(d)
      BY <2>1, <2>4
    <3>2. CASE job[w].id # d
      <4>1. ~WorksOn(w, d)'
        BY <2>1, <3>2 DEF WorksOn, Busy, Idle, Ended, Steps
      <4>. QED  BY <2>1, <3>1, <3>2, <4>1 DEF WorksOn, Busy
    <3>3. CASE job[w].id = d
      <4>1. w \notin Scans /\ job[w].at \in {"sending", "received"}
        BY <2>1, <3>1, <3>3 DEF WorksOn
      <4>2. Receive(w) \/ \E answer \in AnswerKinds : Answer(w, answer)
        BY <1>2, <4>1 DEF Work, AckRename, AckUnlink, FailRead, FailWrite, MoveToFailed, DiskFault
      <4>3. pending' = pending
        BY <4>2 DEF Receive, Answer
      <4>4. job'[w] = Ended \/ job'[w].at = "received"
        <5>1. \A x : [job EXCEPT ![w] = x][w] = x
          BY DEF DeliveryTypeOK
        <5>2. CASE Receive(w)
          <6>1. job'[w] = [job[w] EXCEPT !.at = "received"]
            BY <5>1, <5>2 DEF Receive
          <6>2. job[w] \in [at : Steps, id : Deliveries, read : Nat]
            BY <2>1, BusyJob
          <6>. QED  BY <6>1, <6>2
        <5>3. CASE \E answer \in AnswerKinds : Answer(w, answer)
          BY <2>1, <2>4, <3>3, <4>1, <5>1, <5>3 DEF Answer
        <5>. QED  BY <4>2, <5>2, <5>3
      <4>. QED  BY <2>1, <3>1, <4>1, <4>3, <4>4 DEF WorksOn, Busy, Ended, Steps
    <3>. QED  BY <3>2, <3>3
  <2>. QED  BY <2>2, <2>3, <2>4
<1>3. ASSUME NEW r \in Scans, Scan(r)
      PROVE  ScansWait' /\ Unsent' /\ \A d \in Deliveries : d \notin accepted' => Unwritten(d)'
  <2>1. CASE StartScan(r)
    <3>1. /\ phase'[r] # "waiting" /\ \A s \in Scans : s # r => phase'[s] = phase[s]
          /\ todo'[r] = pending /\ \A s \in Scans : s # r => todo'[s] = todo[s]
          /\ UNCHANGED <<pending, job, tries, accepted>>
      BY <2>1 DEF StartScan, DeliveryTypeOK
    <3>. QED  BY <3>1 DEF WorksOn, Busy
  <2>2. CASE Deadline(r)
    <3>1. /\ phase'[r] # "waiting" /\ \A s \in Scans : s # r => phase'[s] = phase[s]
          /\ UNCHANGED <<pending, job, tries, todo, accepted>>
      BY <2>2 DEF Deadline, DeliveryTypeOK
    <3>. QED  BY <3>1 DEF WorksOn, Busy
  <2>3. CASE ScanEnds(r)
    <3>1. /\ phase'[r] # "waiting" /\ \A s \in Scans : s # r => phase'[s] = phase[s]
          /\ job'[r] = Ended /\ \A v \in Workers : v # r => job'[v] = job[v]
          /\ UNCHANGED <<pending, tries, todo, accepted>>
      BY <2>3 DEF ScanEnds, DeliveryTypeOK, Workers
    <3>. QED  BY <3>1 DEF WorksOn, Busy, Ended, Steps, Workers
  <2>4. ASSUME NEW d \in Deliveries, Replay(r, d) \/ TooEarly(r, d) \/ GiveUp(r, d) \/ Defer(r, d)
        PROVE  ScansWait' /\ Unsent' /\ \A e \in Deliveries : e \notin accepted' => Unwritten(e)'
    <3>1. /\ phase[r] \in {"replaying", "deferring"}
          /\ todo[r][d] \in Nat
          /\ todo'[r][d] = NoFile
          /\ \A s \in Scans, e \in Deliveries : s # r \/ e # d => todo'[s][e] = todo[s][e]
          /\ \A v \in Workers : v # r => job'[v] = job[v]
          /\ job'[r] = Idle \/ job'[r] \in [at : {"sending", "moving", "reading"}, id : {d}, read : Nat]
          /\ \A e \in Deliveries : e # d => tries'[e] = tries[e]
          /\ UNCHANGED <<pending, phase, accepted>>
      BY <2>4, TakeIsLocal
    <3>2. d \in accepted
      BY <3>1 DEF NoFile
    <3>3. job[d] # Idle
      BY <3>2 DEF Untouched, NoTrace
    <3>4. ScansWait'
      BY <3>1 DEF Workers
    <3>5. Unsent'
      BY <1>0, <3>1, <3>3
    <3>6. ASSUME NEW e \in Deliveries, e \notin accepted' PROVE Unwritten(e)'
      <4>1. e \notin accepted /\ Unwritten(e) /\ e # d
        BY <3>1, <3>2, <3>6
      <4>2. ~WorksOn(r, e)'
        BY <3>1, <4>1 DEF WorksOn, Busy, Idle, Steps
      <4>. QED  BY <3>1, <4>1, <4>2 DEF WorksOn, Busy
    <3>. QED  BY <3>4, <3>5, <3>6
  <2>. QED  BY <1>3, <2>1, <2>2, <2>3, <2>4 DEF Scan
<1>4. CASE Crash
  BY <1>0, <1>4 DEF Crash, DeliveryTypeOK, WorksOn, Busy, Ended, Idle, Steps, Workers
<1>5. CASE UNCHANGED vars
  BY <1>5 DEF vars, WorksOn, Busy
<1>. QED  BY <1>1, <1>2, <1>3, <1>4, <1>5 DEF Next

-----------------------------------------------------------------------------
(* What a delivery costs *)

\* Who will, or may, send delivery d again: the scans that have its entry on
\* their list, of which some will only give it up, and the workers on it that
\* send or count a failed attempt.
Holding(d) == {r \in Scans : todo[r][d] # NoFile}
ToSend(d)  == {r \in Holding(d) : todo[r][d] < MaxRetries}
Trying(d)  == {w \in Workers : WorksOn(w, d) /\ job[w].at \in {"sending", "reading", "writing"}}

\* Somebody is not done with the entry of d.
Attended(d) == \E w \in Workers : WorksOn(w, d) /\ job[w].at # "unlinking"

\* One copy is free; each further one, had or to come, was paid for.  An entry
\* left alone in the queue has not had the free one.
RepeatsPaid(d) ==
    /\ copies[d] + Cardinality(Holding(d)) + Cardinality(Trying(d)) <= 1 + lost[d] + mishaps[d]
    /\ pending[d] # NoFile /\ ~Attended(d) /\ Holding(d) = {} => copies[d] <= lost[d] + mishaps[d]

\* The sends had and to come are within the limit, within what a worker is about
\* to write, and within what the entry says, but for one that is being counted.
Spent(d) == tries[d] + Cardinality(ToSend(d))
RetriesPaid(d) ==
    /\ Spent(d) <= MaxRetries + mishaps[d]
    /\ \A w \in Workers : WorksOn(w, d) /\ job[w].at = "writing" =>
          Spent(d) <= job[w].read + 1 + mishaps[d]
    /\ pending[d] # NoFile =>
          /\ Spent(d) <= pending[d] + 1 + mishaps[d]
          /\ ~Attended(d) /\ ToSend(d) = {} => Spent(d) <= pending[d] + mishaps[d]

Paid(d) ==
    /\ IsFiniteSet(Holding(d)) /\ IsFiniteSet(Trying(d))
    /\ RepeatsPaid(d)
    /\ RetriesPaid(d)
EveryDeliveryPaid == \A d \in Deliveries : Paid(d)

\* A set whose members other than x stay counts x differently at most.
LEMMA CountMoves ==
    ASSUME NEW S, NEW T, NEW x, IsFiniteSet(S), S \ {x} = T \ {x}
    PROVE  /\ IsFiniteSet(T)
           /\ Cardinality(S) \in Nat /\ Cardinality(T) \in Nat
           /\ x \in S /\ x \notin T => Cardinality(T) + 1 = Cardinality(S)
           /\ x \notin S /\ x \in T => Cardinality(T) = Cardinality(S) + 1
           /\ (x \in S <=> x \in T) => T = S
<1>1. T = S \/ T = S \cup {x} \/ T = S \ {x}
  OBVIOUS
<1>2. /\ IsFiniteSet(S \cup {x}) /\ IsFiniteSet(S \ {x})
      /\ Cardinality(S \cup {x}) = IF x \in S THEN Cardinality(S) ELSE Cardinality(S) + 1
      /\ Cardinality(S \ {x}) = IF x \in S THEN Cardinality(S) - 1 ELSE Cardinality(S)
  BY FS_AddElement, FS_RemoveElement
<1>3. IsFiniteSet(T)
  BY <1>1, <1>2
<1>4. Cardinality(S) \in Nat /\ Cardinality(T) \in Nat
  BY <1>3, FS_CardinalityType
<1>5. ASSUME x \in S, x \notin T PROVE Cardinality(T) + 1 = Cardinality(S)
  <2>1. T = S \ {x}
    BY <1>5
  <2>. QED  BY <1>2, <1>4, <1>5, <2>1
<1>6. ASSUME x \notin S, x \in T PROVE Cardinality(T) = Cardinality(S) + 1
  <2>1. T = S \cup {x}
    BY <1>6
  <2>. QED  BY <1>2, <1>6, <2>1
<1>. QED  BY <1>3, <1>4, <1>5, <1>6

LEMMA PaidTypes ==
    ASSUME DeliveryTypeOK, NEW d \in Deliveries, Paid(d)
    PROVE  /\ Cardinality(Holding(d)) \in Nat /\ Cardinality(Trying(d)) \in Nat
           /\ IsFiniteSet(ToSend(d)) /\ Cardinality(ToSend(d)) \in Nat
           /\ copies[d] \in Nat /\ tries[d] \in Nat /\ lost[d] \in Nat /\ mishaps[d] \in Nat
           /\ pending[d] # NoFile => pending[d] \in Nat
           /\ MaxRetries \in Nat /\ MaxRetries >= 1
<1>1. IsFiniteSet(ToSend(d))
  BY FS_Subset DEF Paid, ToSend
<1>. QED  BY <1>1, FS_CardinalityType, DeliveryQueueAssumption DEF Paid, DeliveryTypeOK

\* What does not touch a delivery leaves it paid for.
LEMMA PaidElsewhere ==
    ASSUME NEW d \in Deliveries, Paid(d),
           pending'[d] = pending[d], copies'[d] = copies[d], tries'[d] = tries[d],
           lost'[d] = lost[d], mishaps'[d] = mishaps[d],
           \A w \in Workers : /\ WorksOn(w, d)' <=> WorksOn(w, d)
                              /\ WorksOn(w, d) => job'[w] = job[w],
           \A r \in Scans : todo'[r][d] = todo[r][d]
    PROVE  Paid(d)'
<1>1. Holding(d)' = Holding(d)
  BY DEF Holding
<1>2. ToSend(d)' = ToSend(d)
  BY <1>1 DEF ToSend, Holding
<1>3. Trying(d)' = Trying(d)
  BY DEF Trying
<1>4. Attended(d)' <=> Attended(d)
  BY DEF Attended
<1>5. Spent(d)' = Spent(d)
  BY <1>2 DEF Spent
<1>6. RepeatsPaid(d)'
  BY <1>1, <1>3, <1>4 DEF Paid, RepeatsPaid
<1>7. RetriesPaid(d)'
  BY <1>2, <1>4, <1>5 DEF Paid, RetriesPaid
<1>. QED  BY <1>1, <1>3, <1>6, <1>7 DEF Paid

\* A worker's step on its own delivery.
LEMMA WorkPaid ==
    ASSUME DeliveryTypeOK, BegunInOrder, NEW w \in Workers, Work(w),
           NEW d \in Deliveries, d = job[w].id, Paid(d)
    PROVE  Paid(d)'
<1>. USE DEF history, files
<1>0. /\ Busy(w) /\ WorksOn(w, d)
      /\ \A v \in Workers : v # w => job'[v] = job[v]
      /\ \/ job'[w] \in {Idle, Ended}
         \/ job'[w] \in [at : Steps, id : {d}, read : Nat]
      /\ UNCHANGED <<todo, phase, tries, accepted, bestEffort>>
  BY WorkIsLocal DEF WorksOn
<1>1. /\ job[w].id \in Deliveries /\ job[w].read \in Nat
      /\ job[w] \in [at : Steps, id : Deliveries, read : Nat]
  BY <1>0, BusyJob
<1>2. \A x : [job EXCEPT ![w] = x][w] = x
  BY DEF DeliveryTypeOK
<1>3. Holding(d)' = Holding(d) /\ ToSend(d)' = ToSend(d) /\ Spent(d)' = Spent(d)
  BY <1>0 DEF Holding, ToSend, Spent
<1>4. \A v \in Workers : v # w => (WorksOn(v, d)' <=> WorksOn(v, d))
  BY <1>0 DEF WorksOn, Busy
<1>5. WorksOn(w, d)' <=> job'[w] \notin {Idle, Ended}
  BY <1>0 DEF WorksOn, Busy, Idle, Ended, Steps
<1>6. Trying(d) \ {w} = Trying(d)' \ {w}
  BY <1>0, <1>4 DEF Trying
<1>7. /\ w \in Trying(d) <=> job[w].at \in {"sending", "reading", "writing"}
      /\ w \in Trying(d)' <=> job'[w] \notin {Idle, Ended} /\ job'[w].at \in {"sending", "reading", "writing"}
  BY <1>0, <1>5 DEF Trying
<1>8. /\ IsFiniteSet(Trying(d)')
      /\ Cardinality(Trying(d)) \in Nat /\ Cardinality(Trying(d)') \in Nat
      /\ w \in Trying(d) /\ w \notin Trying(d)' => Cardinality(Trying(d)') + 1 = Cardinality(Trying(d))
      /\ w \notin Trying(d) /\ w \in Trying(d)' => Cardinality(Trying(d)') = Cardinality(Trying(d)) + 1
      /\ (w \in Trying(d) <=> w \in Trying(d)') => Trying(d)' = Trying(d)
  BY <1>6, CountMoves DEF Paid
<1>9. Attended(d)' \/ job'[w] \in {Idle, Ended} \/ job'[w].at = "unlinking"
  BY <1>5 DEF Attended
<1>10. PICK t \in Nat, u \in Nat, h \in Nat, n \in Nat :
         /\ t = Cardinality(Trying(d)) /\ u = Cardinality(Trying(d)')
         /\ h = Cardinality(Holding(d)) /\ n = Spent(d)
  BY <1>8, PaidTypes DEF Spent
<1>11. /\ copies[d] \in Nat /\ lost[d] \in Nat /\ mishaps[d] \in Nat
       /\ pending[d] # NoFile => pending[d] \in Nat
       /\ MaxRetries \in Nat
  BY PaidTypes
<1>12. /\ copies[d] + h + t <= 1 + lost[d] + mishaps[d]
       /\ pending[d] # NoFile /\ ~Attended(d) /\ Holding(d) = {} => copies[d] <= lost[d] + mishaps[d]
       /\ n <= MaxRetries + mishaps[d]
       /\ \A v \in Workers : WorksOn(v, d) /\ job[v].at = "writing" => n <= job[v].read + 1 + mishaps[d]
       /\ pending[d] # NoFile =>
             /\ n <= pending[d] + 1 + mishaps[d]
             /\ ~Attended(d) /\ ToSend(d) = {} => n <= pending[d] + mishaps[d]
  BY <1>10 DEF Paid, RepeatsPaid, RetriesPaid
<1>. DEFINE Balanced ==
         /\ copies'[d] + h + u <= 1 + lost'[d] + mishaps'[d]
         /\ pending'[d] # NoFile /\ ~Attended(d)' /\ Holding(d) = {} => copies'[d] <= lost'[d] + mishaps'[d]
         /\ n <= MaxRetries + mishaps'[d]
         /\ \A v \in Workers : WorksOn(v, d)' /\ job'[v].at = "writing" => n <= job'[v].read + 1 + mishaps'[d]
         /\ pending'[d] # NoFile =>
               /\ n <= pending'[d] + 1 + mishaps'[d]
               /\ ~Attended(d)' /\ ToSend(d) = {} => n <= pending'[d] + mishaps'[d]
<1>13. SUFFICES Balanced
  BY <1>3, <1>8, <1>10 DEF Paid, RepeatsPaid, RetriesPaid
\* The workers that are about to write are those of before, and perhaps w.
<1>14. ASSUME mishaps'[d] = mishaps[d] \/ mishaps'[d] = mishaps[d] + 1,
              job'[w] \in {Idle, Ended} \/ job'[w].at # "writing"
       PROVE  \A v \in Workers : WorksOn(v, d)' /\ job'[v].at = "writing" => n <= job'[v].read + 1 + mishaps'[d]
  <2>1. SUFFICES ASSUME NEW v \in Workers, WorksOn(v, d)', job'[v].at = "writing"
                 PROVE  n <= job'[v].read + 1 + mishaps'[d]
    OBVIOUS
  <2>2. v # w
    BY <1>5, <1>14, <2>1
  <2>3. WorksOn(v, d) /\ job'[v] = job[v]
    BY <1>0, <1>4, <2>1, <2>2
  <2>4. n <= job[v].read + 1 + mishaps[d]
    BY <1>12, <2>1, <2>3
  <2>5. job[v].read \in Nat
    BY <2>3, BusyJob DEF WorksOn
  <2>. QED  BY <1>11, <1>14, <2>3, <2>4, <2>5
<1>a. CASE Receive(w)
  <2>1. job'[w] = [job[w] EXCEPT !.at = "received"]
    BY <1>2, <1>a DEF Receive
  <2>2. job[w].at = "sending" /\ job'[w].at = "received" /\ job'[w] \notin {Idle, Ended}
    BY <1>0, <1>1, <1>a, <2>1 DEF Receive, Idle, Ended
  <2>3. u + 1 = t
    BY <1>7, <1>8, <1>10, <2>2
  <2>4. /\ copies'[d] = copies[d] + 1 /\ lost'[d] = lost[d] /\ mishaps'[d] = mishaps[d]
        /\ pending'[d] = pending[d]
    BY <1>a DEF Receive, DeliveryTypeOK
  <2>5. Attended(d)'
    BY <1>9, <2>2
  <2>. QED  BY <1>11, <1>12, <1>14, <2>2, <2>3, <2>4, <2>5
<1>b. ASSUME NEW answer \in AnswerKinds, Answer(w, answer)
      PROVE  Balanced
  <2>1. /\ job[w].at \in {"sending", "received"}
        /\ pending'[d] = pending[d] /\ copies'[d] = copies[d] /\ mishaps'[d] = mishaps[d]
        /\ lost'[d] \in Nat
        /\ \/ lost'[d] = lost[d] + 1
           \/ lost'[d] = lost[d] /\ (job[w].at = "sending" \/ answer \in {"sent", "recalled", "swallowed"})
    BY <1>b, <1>11 DEF Answer, DeliveryTypeOK, AnswerKinds
  <2>2. CASE job'[w] = Ended
    <3>1. w \notin Scans /\ d \notin accepted
      <4>1. job[w].id = d /\ (w \in Scans \/ d \in accepted => job'[w] = On(StepAfter(w, answer), d))
        BY <1>2, <1>b DEF Answer
      <4>. QED  BY <2>2, <4>1 DEF On, Ended
    <3>2. pending'[d] = NoFile
      BY <2>1, <3>1 DEF BegunInOrder, Unwritten
    <3>3. u <= t
      BY <1>7, <1>8, <1>10, <2>2
    <3>. QED  BY <1>11, <1>12, <1>14, <2>1, <2>2, <3>2, <3>3
  <2>3. CASE job'[w] = On(StepAfter(w, answer), d)
    <3>1. /\ job'[w].at = StepAfter(w, answer)
          /\ StepAfter(w, answer) \in {"renaming", "reading", "moving"}
          /\ StepAfter(w, answer) = "reading" => answer \in {"noticed", "failed", "permanent"}
          /\ job'[w] \notin {Idle, Ended}
      BY <2>3 DEF On, StepAfter, AnswerKinds, Idle, Ended
    <3>2. Attended(d)'
      BY <1>9, <3>1
    <3>3. u + (lost[d]) <= t + lost'[d]
      <4>1. CASE job[w].at = "sending"
        <5>1. u <= t
          BY <1>7, <1>8, <1>10, <4>1
        <5>. QED  BY <1>11, <2>1, <5>1
      <4>2. CASE job[w].at = "received" /\ lost'[d] = lost[d]
        <5>1. w \notin Trying(d)'
          BY <1>7, <2>1, <3>1, <4>2
        <5>2. u = t
          BY <1>7, <1>8, <1>10, <4>2, <5>1
        <5>. QED  BY <1>11, <4>2, <5>2
      <4>3. CASE job[w].at = "received" /\ lost'[d] = lost[d] + 1
        <5>1. u <= t + 1
          BY <1>8, <1>10
        <5>. QED  BY <1>11, <4>3, <5>1
      <4>. QED  BY <2>1, <4>1, <4>2, <4>3
    <3>4. copies'[d] + h + u <= 1 + lost'[d] + mishaps'[d]
      BY <1>11, <1>12, <2>1, <3>3
    <3>. QED  BY <1>11, <1>12, <1>14, <2>1, <3>1, <3>2, <3>4
  <2>. QED  BY <1>2, <1>b, <2>2, <2>3 DEF Answer
<1>c. CASE AckRename(w)
  <2>1. job'[w] = [job[w] EXCEPT !.at = "unlinking"]
    BY <1>2, <1>c DEF AckRename
  <2>2. job[w].at = "renaming" /\ job'[w].at = "unlinking"
    BY <1>1, <1>c, <2>1 DEF AckRename
  <2>3. u = t
    BY <1>7, <1>8, <1>10, <2>2
  <2>4. /\ copies'[d] = copies[d] /\ lost'[d] = lost[d] /\ mishaps'[d] = mishaps[d]
        /\ pending'[d] = NoFile
    BY <1>c DEF AckRename, DeliveryTypeOK
  <2>. QED  BY <1>11, <1>12, <1>14, <2>2, <2>3, <2>4
<1>d. CASE AckUnlink(w)
  <2>1. job[w].at = "unlinking" /\ job'[w] \in {Idle, Ended}
    BY <1>2, <1>d DEF AckUnlink, Done
  <2>2. u = t
    BY <1>7, <1>8, <1>10, <2>1
  <2>3. /\ copies'[d] = copies[d] /\ lost'[d] = lost[d] /\ mishaps'[d] = mishaps[d]
        /\ pending'[d] = pending[d]
    BY <1>d DEF AckUnlink
  <2>4. Attended(d) => Attended(d)'
    BY <1>0, <1>4, <2>1 DEF Attended
  <2>. QED  BY <1>11, <1>12, <1>14, <2>1, <2>2, <2>3, <2>4
<1>e. CASE FailRead(w)
  <2>1. /\ copies'[d] = copies[d] /\ lost'[d] = lost[d] /\ mishaps'[d] = mishaps[d]
        /\ pending'[d] = pending[d] /\ job[w].at = "reading"
    BY <1>e DEF FailRead
  <2>2. CASE pending[d] = NoFile
    <3>1. job'[w] \in {Idle, Ended}
      BY <1>2, <1>e, <2>2 DEF FailRead, Done
    <3>2. u + 1 = t
      BY <1>7, <1>8, <1>10, <2>1, <3>1
    <3>. QED  BY <1>11, <1>12, <1>14, <2>1, <2>2, <3>1, <3>2
  <2>3. CASE pending[d] # NoFile
    <3>1. job'[w] = [job[w] EXCEPT !.at = "writing", !.read = pending[d]]
      BY <1>2, <1>e, <2>3 DEF FailRead
    <3>2. job'[w].at = "writing" /\ job'[w].read = pending[d] /\ job'[w] \notin {Idle, Ended}
      BY <1>1, <3>1 DEF Idle, Ended
    <3>3. u = t
      BY <1>7, <1>8, <1>10, <2>1, <3>2
    <3>4. Attended(d)'
      BY <1>9, <3>2
    <3>5. ASSUME NEW v \in Workers, WorksOn(v, d)', job'[v].at = "writing"
          PROVE  n <= job'[v].read + 1 + mishaps'[d]
      <4>1. CASE v = w
        BY <1>12, <2>1, <2>3, <3>2, <4>1
      <4>2. CASE v # w
        BY <1>0, <1>4, <1>12, <2>1, <3>5, <4>2
      <4>. QED  BY <4>1, <4>2
    <3>. QED  BY <1>11, <1>12, <2>1, <2>3, <3>3, <3>4, <3>5
  <2>. QED  BY <2>2, <2>3
<1>f. CASE FailWrite(w)
  <2>1. /\ copies'[d] = copies[d] /\ lost'[d] = lost[d] /\ mishaps'[d] = mishaps[d]
        /\ pending'[d] = job[w].read + 1 /\ job[w].at = "writing"
        /\ job'[w] \in {Idle, Ended}
    BY <1>2, <1>f DEF FailWrite, Done, DeliveryTypeOK
  <2>2. u + 1 = t
    BY <1>7, <1>8, <1>10, <2>1
  <2>3. n <= job[w].read + 1 + mishaps[d]
    BY <1>0, <1>12, <2>1
  <2>. QED  BY <1>1, <1>11, <1>12, <1>14, <2>1, <2>2, <2>3
<1>g. CASE MoveToFailed(w)
  <2>1. /\ copies'[d] = copies[d] /\ lost'[d] = lost[d] /\ mishaps'[d] = mishaps[d]
        /\ pending'[d] = NoFile /\ job[w].at = "moving"
        /\ job'[w] \in {Idle, Ended}
    BY <1>2, <1>g DEF MoveToFailed, Done, DeliveryTypeOK
  <2>2. u = t
    BY <1>7, <1>8, <1>10, <2>1
  <2>. QED  BY <1>11, <1>12, <1>14, <2>1, <2>2
<1>h. CASE DiskFault(w)
  <2>1. /\ copies'[d] = copies[d] /\ lost'[d] = lost[d] /\ mishaps'[d] = mishaps[d] + 1
        /\ pending'[d] = pending[d]
    BY <1>h DEF DiskFault, DeliveryTypeOK
  <2>2. job'[w] \in {Idle, Ended} \/ job'[w].at # "writing"
    BY <1>2, <1>h DEF DiskFault, Done, On
  <2>3. u <= t + 1
    BY <1>8, <1>10
  <2>4. copies'[d] + h + u <= 1 + lost'[d] + mishaps'[d] /\ copies'[d] <= lost'[d] + mishaps'[d]
    BY <1>11, <1>12, <2>1, <2>3
  <2>. QED  BY <1>11, <1>12, <1>14, <2>1, <2>2, <2>4
<1>. QED  BY <1>a, <1>b, <1>c, <1>d, <1>e, <1>f, <1>g, <1>h DEF Work

\* A scan takes an entry from its list.
LEMMA TakePaid ==
    ASSUME DeliveryTypeOK, NEW r \in Scans, NEW d \in Deliveries, Paid(d),
           Replay(r, d) \/ TooEarly(r, d) \/ GiveUp(r, d) \/ Defer(r, d)
    PROVE  Paid(d)'
<1>. USE DEF history, files
<1>0. /\ job[r] = Idle /\ ~Busy(r) /\ r \in Workers
      /\ todo[r][d] \in Nat
      /\ todo'[r][d] = NoFile
      /\ \A s \in Scans : s # r => todo'[s][d] = todo[s][d]
      /\ \A v \in Workers : v # r => job'[v] = job[v]
      /\ job'[r] = Idle \/ job'[r] \in [at : {"sending", "moving", "reading"}, id : {d}, read : Nat]
      /\ UNCHANGED <<pending, copies, lost, mishaps>>
  BY TakeIsLocal DEF Workers
<1>1. \A v \in Workers : v # r => (WorksOn(v, d)' <=> WorksOn(v, d))
  BY <1>0 DEF WorksOn, Busy
<1>2. ~WorksOn(r, d) /\ (WorksOn(r, d)' <=> job'[r] # Idle)
  BY <1>0 DEF WorksOn, Busy, Idle, Steps
<1>3. /\ Holding(d) \ {r} = Holding(d)' \ {r} /\ r \in Holding(d) /\ r \notin Holding(d)'
      /\ ToSend(d) \ {r} = ToSend(d)' \ {r} /\ r \notin ToSend(d)'
      /\ (r \in ToSend(d) <=> todo[r][d] < MaxRetries)
  <2>1. r \in Holding(d) /\ r \notin Holding(d)'
    BY <1>0 DEF Holding, NoFile
  <2>2. Holding(d) \ {r} = Holding(d)' \ {r}
    BY <1>0 DEF Holding
  <2>3. ToSend(d) \ {r} = ToSend(d)' \ {r}
    BY <1>0, <2>2 DEF ToSend, Holding
  <2>4. r \notin ToSend(d)' /\ (r \in ToSend(d) <=> todo[r][d] < MaxRetries)
    BY <2>1 DEF ToSend
  <2>. QED  BY <2>1, <2>2, <2>3, <2>4
<1>4. /\ Trying(d) \ {r} = Trying(d)' \ {r} /\ r \notin Trying(d)
      /\ (r \in Trying(d)' <=> job'[r] # Idle /\ job'[r].at \in {"sending", "reading", "writing"})
  <2>1. r \notin Trying(d)
    BY <1>2 DEF Trying
  <2>2. Trying(d) \ {r} = Trying(d)' \ {r}
    BY <1>0, <1>1 DEF Trying
  <2>3. r \in Trying(d)' <=> job'[r] # Idle /\ job'[r].at \in {"sending", "reading", "writing"}
    BY <1>0, <1>2 DEF Trying
  <2>. QED  BY <2>1, <2>2, <2>3
<1>5. Attended(d)' \/ job'[r] = Idle
  BY <1>0, <1>2 DEF Attended
<1>6. IsFiniteSet(ToSend(d))
  BY PaidTypes
<1>7. /\ IsFiniteSet(Holding(d)')
      /\ Cardinality(Holding(d)) \in Nat /\ Cardinality(Holding(d)') \in Nat
      /\ Cardinality(Holding(d)') + 1 = Cardinality(Holding(d))
  BY <1>3, CountMoves DEF Paid
<1>8. /\ IsFiniteSet(Trying(d)')
      /\ Cardinality(Trying(d)) \in Nat /\ Cardinality(Trying(d)') \in Nat
      /\ r \in Trying(d)' => Cardinality(Trying(d)') = Cardinality(Trying(d)) + 1
      /\ r \notin Trying(d)' => Cardinality(Trying(d)') = Cardinality(Trying(d))
  BY <1>4, CountMoves DEF Paid
<1>9. /\ Cardinality(ToSend(d)) \in Nat /\ Cardinality(ToSend(d)') \in Nat
      /\ todo[r][d] < MaxRetries => Cardinality(ToSend(d)') + 1 = Cardinality(ToSend(d))
      /\ ~(todo[r][d] < MaxRetries) => ToSend(d)' = ToSend(d)
  BY <1>3, <1>6, CountMoves
<1>10. PICK t \in Nat, u \in Nat, h \in Nat, g \in Nat, n \in Nat, m \in Nat :
         /\ t = Cardinality(Trying(d)) /\ u = Cardinality(Trying(d)')
         /\ h = Cardinality(Holding(d)) /\ g = Cardinality(Holding(d)')
         /\ n = Cardinality(ToSend(d)) /\ m = Cardinality(ToSend(d)')
  BY <1>7, <1>8, <1>9
<1>11. /\ copies[d] \in Nat /\ lost[d] \in Nat /\ mishaps[d] \in Nat /\ tries[d] \in Nat
       /\ pending[d] # NoFile => pending[d] \in Nat
       /\ MaxRetries \in Nat
  BY PaidTypes
<1>12. /\ copies[d] + h + t <= 1 + lost[d] + mishaps[d]
       /\ tries[d] + n <= MaxRetries + mishaps[d]
       /\ \A v \in Workers : WorksOn(v, d) /\ job[v].at = "writing" =>
             tries[d] + n <= job[v].read + 1 + mishaps[d]
       /\ pending[d] # NoFile =>
             /\ tries[d] + n <= pending[d] + 1 + mishaps[d]
             /\ ~Attended(d) /\ ToSend(d) = {} => tries[d] + n <= pending[d] + mishaps[d]
  BY <1>10 DEF Paid, RepeatsPaid, RetriesPaid, Spent
\* What is left to send, and was sent, grows by nothing.
<1>13. /\ g + 1 = h /\ u <= t + 1
       /\ tries'[d] \in Nat
       /\ tries'[d] + m <= tries[d] + n
       /\ job'[r] = Idle => u = t /\ tries'[d] + m + 1 <= tries[d] + n
       /\ job'[r] = Idle \/ Attended(d)'
  <2>0. g + 1 = h /\ u <= t + 1 /\ (job'[r] = Idle => u = t)
    BY <1>4, <1>7, <1>8, <1>10
  <2>1. CASE Replay(r, d)
    <3>1. tries'[d] = tries[d] + 1 /\ todo[r][d] < MaxRetries /\ job'[r] # Idle
      BY <1>0, <2>1 DEF Replay, Taken, DeliveryTypeOK, On, Idle
    <3>2. m + 1 = n
      BY <1>9, <1>10, <3>1
    <3>. QED  BY <1>5, <1>11, <2>0, <3>1, <3>2
  <2>2. CASE TooEarly(r, d)
    <3>1. tries'[d] = tries[d] /\ todo[r][d] < MaxRetries
      BY <2>2 DEF TooEarly
    <3>2. m + 1 = n
      BY <1>9, <1>10, <3>1
    <3>. QED  BY <1>5, <1>11, <2>0, <3>1, <3>2
  <2>3. CASE GiveUp(r, d) \/ Defer(r, d)
    <3>1. tries'[d] = tries[d] /\ job'[r] # Idle
      BY <1>0, <2>3 DEF GiveUp, Defer, Taken, DeliveryTypeOK, On, Idle
    <3>2. m <= n
      BY <1>9, <1>10
    <3>. QED  BY <1>5, <1>11, <2>0, <3>1, <3>2
  <2>. QED  BY <2>1, <2>2, <2>3
<1>14. RepeatsPaid(d)'
  <2>1. copies[d] + g + u <= 1 + lost[d] + mishaps[d]
    BY <1>11, <1>12, <1>13
  <2>2. ~Attended(d)' => copies[d] <= lost[d] + mishaps[d]
    BY <1>11, <1>12, <1>13
  <2>. QED  BY <1>0, <1>10, <2>1, <2>2 DEF RepeatsPaid
<1>15. RetriesPaid(d)'
  <2>1. tries'[d] + m <= MaxRetries + mishaps[d]
    BY <1>11, <1>12, <1>13
  <2>2. ASSUME NEW v \in Workers, WorksOn(v, d)', job'[v].at = "writing"
        PROVE  tries'[d] + m <= job'[v].read + 1 + mishaps[d]
    <3>1. v # r
      BY <1>0, <1>2, <2>2 DEF Idle
    <3>2. WorksOn(v, d) /\ job'[v] = job[v]
      BY <1>0, <1>1, <2>2, <3>1
    <3>3. job[v].read \in Nat
      BY <3>2, BusyJob DEF WorksOn
    <3>4. tries[d] + n <= job[v].read + 1 + mishaps[d]
      BY <1>12, <2>2, <3>2
    <3>. QED  BY <1>11, <1>13, <3>2, <3>3, <3>4
  <2>3. pending[d] # NoFile =>
            /\ tries'[d] + m <= pending[d] + 1 + mishaps[d]
            /\ ~Attended(d)' => tries'[d] + m <= pending[d] + mishaps[d]
    BY <1>11, <1>12, <1>13
  <2>. QED  BY <1>0, <1>10, <2>1, <2>2, <2>3 DEF RetriesPaid, Spent
<1>. QED  BY <1>7, <1>8, <1>14, <1>15 DEF Paid

\* A start of the gateway loads what is there: an entry others hold costs a mishap.
LEMMA StartPaid ==
    ASSUME DeliveryTypeOK, BegunInOrder, NEW r \in Scans, StartScan(r),
           NEW d \in Deliveries, Paid(d)
    PROVE  Paid(d)'
<1>. USE DEF history, files
<1>0. /\ todo'[r][d] = pending[d] /\ todo[r][d] = NoFile
      /\ \A s \in Scans : s # r => todo'[s][d] = todo[s][d]
      /\ UNCHANGED <<pending, job, copies, tries, lost>>
      /\ mishaps'[d] = IF pending[d] # NoFile /\ Overlaps(r, d) THEN mishaps[d] + 1 ELSE mishaps[d]
  BY DEF StartScan, BegunInOrder, ScansWait, DeliveryTypeOK
<1>1. CASE pending[d] = NoFile
  <2>1. \A s \in Scans : todo'[s][d] = todo[s][d]
    BY <1>0, <1>1
  <2>. QED  BY <1>0, <1>1, <2>1, PaidElsewhere DEF WorksOn, Busy
<1>2. CASE pending[d] # NoFile
  <2>1. /\ Holding(d) \ {r} = Holding(d)' \ {r} /\ r \notin Holding(d) /\ r \in Holding(d)'
        /\ ToSend(d) \ {r} = ToSend(d)' \ {r} /\ r \notin ToSend(d)
        /\ (r \in ToSend(d)' <=> pending[d] < MaxRetries)
    <3>1. r \notin Holding(d) /\ r \in Holding(d)'
      BY <1>0, <1>2 DEF Holding
    <3>2. Holding(d) \ {r} = Holding(d)' \ {r}
      BY <1>0 DEF Holding
    <3>3. ToSend(d) \ {r} = ToSend(d)' \ {r}
      BY <1>0, <3>2 DEF ToSend, Holding
    <3>4. r \notin ToSend(d) /\ (r \in ToSend(d)' <=> pending[d] < MaxRetries)
      BY <1>0, <3>1 DEF ToSend
    <3>. QED  BY <3>1, <3>2, <3>3, <3>4
  <2>2. Trying(d)' = Trying(d) /\ (Attended(d)' <=> Attended(d))
        /\ \A v \in Workers : WorksOn(v, d)' <=> WorksOn(v, d)
    BY <1>0 DEF Trying, Attended, WorksOn, Busy
  <2>3. /\ IsFiniteSet(Holding(d)')
        /\ Cardinality(Holding(d)) \in Nat /\ Cardinality(Holding(d)') \in Nat
        /\ Cardinality(Holding(d)') = Cardinality(Holding(d)) + 1
    BY <2>1, CountMoves DEF Paid
  <2>4. /\ Cardinality(ToSend(d)) \in Nat /\ Cardinality(ToSend(d)') \in Nat
        /\ pending[d] < MaxRetries => Cardinality(ToSend(d)') = Cardinality(ToSend(d)) + 1
        /\ ~(pending[d] < MaxRetries) => ToSend(d)' = ToSend(d)
    BY <2>1, PaidTypes, CountMoves
  <2>5. PICK t \in Nat, h \in Nat, g \in Nat, n \in Nat, m \in Nat :
          /\ t = Cardinality(Trying(d))
          /\ h = Cardinality(Holding(d)) /\ g = Cardinality(Holding(d)')
          /\ n = Cardinality(ToSend(d)) /\ m = Cardinality(ToSend(d)')
    BY <2>3, <2>4, PaidTypes
  <2>6. /\ copies[d] \in Nat /\ lost[d] \in Nat /\ mishaps[d] \in Nat /\ tries[d] \in Nat
        /\ pending[d] \in Nat /\ MaxRetries \in Nat
    BY <1>2, PaidTypes
  <2>7. /\ copies[d] + h + t <= 1 + lost[d] + mishaps[d]
        /\ ~Attended(d) /\ Holding(d) = {} => copies[d] <= lost[d] + mishaps[d]
        /\ tries[d] + n <= MaxRetries + mishaps[d]
        /\ \A v \in Workers : WorksOn(v, d) /\ job[v].at = "writing" =>
              tries[d] + n <= job[v].read + 1 + mishaps[d]
        /\ tries[d] + n <= pending[d] + 1 + mishaps[d]
        /\ ~Attended(d) /\ ToSend(d) = {} => tries[d] + n <= pending[d] + mishaps[d]
    BY <1>2, <2>5 DEF Paid, RepeatsPaid, RetriesPaid, Spent
  <2>8. g = h + 1 /\ (pending[d] < MaxRetries => m = n + 1) /\ (~(pending[d] < MaxRetries) => m = n)
    BY <2>3, <2>4, <2>5
  <2>9. CASE Overlaps(r, d)
    <3>1. mishaps'[d] = mishaps[d] + 1 /\ m <= n + 1
      BY <1>0, <1>2, <2>6, <2>8, <2>9
    <3>2. RepeatsPaid(d)'
      <4>1. copies[d] + g + t <= 1 + lost[d] + mishaps'[d]
        BY <2>6, <2>7, <2>8, <3>1
      <4>2. Holding(d)' # {}
        BY <2>1
      <4>. QED  BY <1>0, <2>2, <2>5, <4>1, <4>2 DEF RepeatsPaid
    <3>3. RetriesPaid(d)'
      <4>1. /\ tries[d] + m <= MaxRetries + mishaps'[d]
            /\ tries[d] + m <= pending[d] + 1 + mishaps'[d]
        BY <2>6, <2>7, <3>1
      <4>2. ASSUME NEW v \in Workers, WorksOn(v, d), job[v].at = "writing"
            PROVE  tries[d] + m <= job[v].read + 1 + mishaps'[d]
        <5>1. job[v].read \in Nat
          BY <4>2, BusyJob DEF WorksOn
        <5>2. tries[d] + n <= job[v].read + 1 + mishaps[d]
          BY <2>7, <4>2
        <5>. QED  BY <2>6, <3>1, <5>1, <5>2
      <4>3. ASSUME ToSend(d)' = {} PROVE tries[d] + m <= pending[d] + mishaps'[d]
        <5>1. m = n
          BY <2>1, <2>8, <4>3
        <5>. QED  BY <2>6, <2>7, <3>1, <5>1
      <4>. QED  BY <1>0, <2>2, <2>5, <4>1, <4>2, <4>3 DEF RetriesPaid, Spent
    <3>. QED  BY <2>2, <2>3, <3>2, <3>3 DEF Paid
  <2>10. CASE ~Overlaps(r, d)
    <3>1. /\ mishaps'[d] = mishaps[d]
          /\ \A v \in Workers : ~WorksOn(v, d)
          /\ Holding(d) = {}
      BY <1>0, <2>10 DEF Overlaps, Holding
    <3>2. Trying(d) = {} /\ ~Attended(d) /\ ToSend(d) = {}
      BY <3>1 DEF Trying, Attended, ToSend
    <3>3. t = 0 /\ h = 0 /\ n = 0
      BY <2>5, <3>1, <3>2, FS_EmptySet
    <3>4. copies[d] <= lost[d] + mishaps[d] /\ tries[d] <= pending[d] + mishaps[d]
      BY <2>6, <2>7, <3>1, <3>2, <3>3
    <3>5. RepeatsPaid(d)'
      <4>1. copies[d] + g + t <= 1 + lost[d] + mishaps'[d]
        BY <2>6, <2>8, <3>1, <3>3, <3>4
      <4>2. Holding(d)' # {}
        BY <2>1
      <4>. QED  BY <1>0, <2>2, <2>5, <4>1, <4>2 DEF RepeatsPaid
    <3>6. RetriesPaid(d)'
      <4>1. /\ tries[d] + m <= MaxRetries + mishaps'[d]
            /\ tries[d] + m <= pending[d] + 1 + mishaps'[d]
        BY <2>6, <2>7, <2>8, <3>1, <3>3, <3>4
      <4>2. ASSUME ToSend(d)' = {} PROVE tries[d] + m <= pending[d] + mishaps'[d]
        <5>1. m = n
          BY <2>1, <2>8, <4>2
        <5>. QED  BY <2>6, <3>1, <3>3, <3>4, <5>1
      <4>. QED  BY <1>0, <2>2, <2>5, <3>1, <4>1, <4>2 DEF RetriesPaid, Spent
    <3>. QED  BY <2>2, <2>3, <3>5, <3>6 DEF Paid
  <2>. QED  BY <2>9, <2>10
<1>. QED  BY <1>1, <1>2

\* A crash is paid for by what it interrupts.
LEMMA CrashPaid ==
    ASSUME DeliveryTypeOK, Crash, NEW d \in Deliveries, Paid(d)
    PROVE  Paid(d)'
<1>. USE DEF history, files
<1>0. /\ \A w \in Workers : ~WorksOn(w, d)'
      /\ \A r \in Scans : todo'[r][d] = NoFile
      /\ UNCHANGED <<pending, copies, tries, lost>>
      /\ mishaps'[d] = IF Attended(d) THEN mishaps[d] + 1 ELSE mishaps[d]
  BY DEF Crash, WorksOn, Busy, Attended, Ended, Steps
<1>1. Holding(d)' = {} /\ Trying(d)' = {} /\ ToSend(d)' = {}
  BY <1>0 DEF Holding, Trying, ToSend
<1>2. IsFiniteSet({}) /\ Cardinality({}) = 0
  BY FS_EmptySet
<1>3. PICK t \in Nat, h \in Nat, n \in Nat :
        /\ t = Cardinality(Trying(d)) /\ h = Cardinality(Holding(d)) /\ n = Cardinality(ToSend(d))
  BY PaidTypes
<1>4. /\ copies[d] \in Nat /\ lost[d] \in Nat /\ mishaps[d] \in Nat /\ tries[d] \in Nat
      /\ pending[d] # NoFile => pending[d] \in Nat
      /\ MaxRetries \in Nat
  BY PaidTypes
<1>5. /\ copies[d] + h + t <= 1 + lost[d] + mishaps[d]
      /\ pending[d] # NoFile /\ ~Attended(d) /\ Holding(d) = {} => copies[d] <= lost[d] + mishaps[d]
      /\ tries[d] + n <= MaxRetries + mishaps[d]
      /\ pending[d] # NoFile =>
            /\ tries[d] + n <= pending[d] + 1 + mishaps[d]
            /\ ~Attended(d) /\ ToSend(d) = {} => tries[d] + n <= pending[d] + mishaps[d]
  BY <1>3 DEF Paid, RepeatsPaid, RetriesPaid, Spent
<1>6. (Holding(d) = {} \/ h >= 1) /\ (ToSend(d) = {} \/ n >= 1)
  <2>1. IsFiniteSet(Holding(d)) /\ IsFiniteSet(ToSend(d))
    BY PaidTypes DEF Paid
  <2>. QED  BY <1>3, <2>1, FS_EmptySet
<1>7. RepeatsPaid(d)'
  <2>1. copies[d] <= 1 + lost[d] + mishaps'[d]
    BY <1>0, <1>4, <1>5
  <2>2. pending[d] # NoFile => copies[d] <= lost[d] + mishaps'[d]
    <3>1. CASE Attended(d)
      BY <1>0, <1>4, <1>5, <3>1
    <3>2. CASE ~Attended(d)
      BY <1>0, <1>4, <1>5, <1>6, <3>2
    <3>. QED  BY <3>1, <3>2
  <2>3. copies[d] + 0 + 0 <= 1 + lost[d] + mishaps'[d]
    BY <1>4, <2>1
  <2>. QED  BY <1>0, <1>1, <1>2, <2>2, <2>3 DEF RepeatsPaid
<1>8. RetriesPaid(d)'
  <2>1. tries[d] + 0 <= MaxRetries + mishaps'[d]
    BY <1>0, <1>4, <1>5
  <2>2. pending[d] # NoFile => tries[d] + 0 <= pending[d] + mishaps'[d]
    <3>1. CASE Attended(d)
      BY <1>0, <1>4, <1>5, <3>1
    <3>2. CASE ~Attended(d)
      BY <1>0, <1>4, <1>5, <1>6, <3>2
    <3>. QED  BY <3>1, <3>2
  <2>3. mishaps'[d] \in Nat
    BY <1>0, <1>4
  <2>4. pending[d] # NoFile => tries[d] + 0 <= pending[d] + 1 + mishaps'[d]
    BY <1>4, <2>2, <2>3
  <2>. QED  BY <1>0, <1>1, <1>2, <2>1, <2>2, <2>4 DEF RetriesPaid, Spent
<1>. QED  BY <1>1, <1>2, <1>7, <1>8 DEF Paid

\* The first send is the free one.
LEMMA DeliverPaid ==
    ASSUME DeliveryTypeOK, Untouched, BegunInOrder, NEW e \in Deliveries,
           NEW written \in BOOLEAN, NEW best \in BOOLEAN, Deliver(e, written, best),
           NEW d \in Deliveries, Paid(d)
    PROVE  Paid(d)'
<1>. USE DEF history, files
<1>0. /\ e \in Workers /\ job[e] = Idle
      /\ \A v \in Workers : v # e => job'[v] = job[v]
      /\ job'[e] = On("sending", e)
      /\ UNCHANGED <<todo, copies, lost, mishaps>>
  BY DEF Deliver, DeliveryTypeOK, Workers
<1>1. \A v \in Workers : v # e => (WorksOn(v, d)' <=> WorksOn(v, d))
  BY <1>0 DEF WorksOn, Busy
<1>2. ~WorksOn(e, d) /\ (WorksOn(e, d)' <=> d = e)
  BY <1>0 DEF WorksOn, Busy, Idle, On, Steps
<1>3. CASE d # e
  <2>1. pending'[d] = pending[d] /\ tries'[d] = tries[d]
    BY <1>3 DEF Deliver, DeliveryTypeOK
  <2>2. \A v \in Workers : (WorksOn(v, d)' <=> WorksOn(v, d)) /\ (WorksOn(v, d) => job'[v] = job[v])
    BY <1>0, <1>1, <1>2, <1>3
  <2>. QED  BY <1>0, <2>1, <2>2, PaidElsewhere
<1>4. CASE d = e
  <2>1. /\ pending[d] = NoFile /\ copies[d] = 0 /\ tries[d] = 0
        /\ \A v \in Workers : ~WorksOn(v, d)
        /\ \A r \in Scans : todo[r][d] = NoFile
    BY <1>0, <1>4 DEF Untouched, NoTrace, BegunInOrder, Unsent
  <2>2. Holding(d)' = {} /\ ToSend(d)' = {} /\ Trying(d)' = {e}
    <3>1. \A v \in Workers : WorksOn(v, d)' <=> v = e
      BY <1>0, <1>1, <1>2, <1>4, <2>1
    <3>2. Trying(d)' = {e}
      BY <1>0, <3>1 DEF Trying, On
    <3>. QED  BY <1>0, <2>1, <3>2 DEF Holding, ToSend
  <2>3. IsFiniteSet({}) /\ Cardinality({}) = 0 /\ IsFiniteSet({e}) /\ Cardinality({e}) = 1
    BY FS_EmptySet, FS_Singleton
  <2>4. Attended(d)'
    BY <1>0, <1>2, <1>4 DEF Attended, On
  <2>5. \A v \in Workers : WorksOn(v, d)' => job'[v].at = "sending"
    BY <1>0, <1>1, <1>4, <2>1 DEF On
  <2>6. tries'[d] = 1 /\ pending'[d] \in {NoFile, 0}
    BY <1>4, <2>1 DEF Deliver, DeliveryTypeOK
  <2>7. lost[d] \in Nat /\ mishaps[d] \in Nat /\ MaxRetries \in Nat /\ MaxRetries >= 1
    BY PaidTypes
  <2>8. RepeatsPaid(d)'
    <3>1. 0 + 0 + 1 <= 1 + lost[d] + mishaps[d]
      BY <2>7
    <3>. QED  BY <1>0, <2>1, <2>2, <2>3, <2>4, <3>1 DEF RepeatsPaid
  <2>9. RetriesPaid(d)'
    <3>1. 1 + 0 <= MaxRetries + mishaps[d] /\ 1 + 0 <= 0 + 1 + mishaps[d]
      BY <2>7
    <3>2. Spent(d)' = 1 + 0
      BY <2>2, <2>3, <2>6 DEF Spent
    <3>. QED  BY <1>0, <2>4, <2>5, <2>6, <3>1, <3>2 DEF RetriesPaid
  <2>. QED  BY <2>2, <2>3, <2>8, <2>9 DEF Paid
<1>. QED  BY <1>3, <1>4

\* Every step leaves every delivery paid for.
LEMMA PaidStep ==
    DeliveryTypeOK /\ Untouched /\ BegunInOrder /\ EveryDeliveryPaid /\ [Next]_vars
        => EveryDeliveryPaid'
<1>. SUFFICES ASSUME DeliveryTypeOK, Untouched, BegunInOrder, EveryDeliveryPaid, [Next]_vars,
                     NEW d \in Deliveries
              PROVE  Paid(d)'
  BY DEF EveryDeliveryPaid
<1>0. Paid(d)
  BY DEF EveryDeliveryPaid
<1>. USE DEF history, files
<1>1. ASSUME NEW e \in Deliveries, NEW written \in BOOLEAN, NEW best \in BOOLEAN,
             Deliver(e, written, best)
      PROVE  Paid(d)'
  BY <1>0, <1>1, DeliverPaid
<1>2. ASSUME NEW w \in Workers, Work(w) PROVE Paid(d)'
  <2>1. CASE job[w].id = d
    BY <1>0, <1>2, <2>1, WorkPaid
  <2>2. CASE job[w].id # d
    <3>1. /\ \A v \in Workers : v # w => job'[v] = job[v]
          /\ \/ job'[w] \in {Idle, Ended}
             \/ job'[w] \in [at : Steps, id : {job[w].id}, read : Nat]
          /\ pending'[d] = pending[d] /\ copies'[d] = copies[d]
          /\ lost'[d] = lost[d] /\ mishaps'[d] = mishaps[d]
          /\ UNCHANGED <<todo, tries>>
      BY <1>2, <2>2, WorkIsLocal
    <3>2. ~WorksOn(w, d) /\ ~WorksOn(w, d)'
      BY <2>2, <3>1 DEF WorksOn, Busy, Idle, Ended, Steps
    <3>3. \A v \in Workers : /\ WorksOn(v, d)' <=> WorksOn(v, d)
                             /\ WorksOn(v, d) => job'[v] = job[v]
      BY <3>1, <3>2 DEF WorksOn, Busy
    <3>. QED  BY <1>0, <3>1, <3>3, PaidElsewhere
  <2>. QED  BY <2>1, <2>2
<1>3. ASSUME NEW r \in Scans, Scan(r) PROVE Paid(d)'
  <2>1. CASE StartScan(r)
    BY <1>0, <2>1, StartPaid
  <2>2. CASE Deadline(r)
    BY <1>0, <2>2, PaidElsewhere DEF Deadline, WorksOn, Busy
  <2>3. CASE ScanEnds(r)
    <3>1. /\ job[r] = Idle /\ job'[r] = Ended /\ r \in Workers
          /\ \A v \in Workers : v # r => job'[v] = job[v]
          /\ UNCHANGED <<pending, todo, copies, tries, lost, mishaps>>
      BY <2>3 DEF ScanEnds, DeliveryTypeOK, Workers
    <3>2. ~WorksOn(r, d) /\ ~WorksOn(r, d)'
      BY <3>1 DEF WorksOn, Busy, Idle, Ended, Steps
    <3>3. \A v \in Workers : /\ WorksOn(v, d)' <=> WorksOn(v, d)
                             /\ WorksOn(v, d) => job'[v] = job[v]
      BY <3>1, <3>2 DEF WorksOn, Busy
    <3>. QED  BY <1>0, <3>1, <3>3, PaidElsewhere
  <2>4. ASSUME NEW e \in Deliveries, Replay(r, e) \/ TooEarly(r, e) \/ GiveUp(r, e) \/ Defer(r, e)
        PROVE  Paid(d)'
    <3>1. CASE e = d
      BY <1>0, <2>4, <3>1, TakePaid
    <3>2. CASE e # d
      <4>1. /\ job[r] = Idle /\ r \in Workers
            /\ \A s \in Scans : todo'[s][d] = todo[s][d]
            /\ \A v \in Workers : v # r => job'[v] = job[v]
            /\ job'[r] = Idle \/ job'[r] \in [at : {"sending", "moving", "reading"}, id : {e}, read : Nat]
            /\ tries'[d] = tries[d]
            /\ UNCHANGED <<pending, copies, lost, mishaps>>
        BY <2>4, <3>2, TakeIsLocal DEF Workers
      <4>2. ~WorksOn(r, d) /\ ~WorksOn(r, d)'
        BY <3>2, <4>1 DEF WorksOn, Busy, Idle, Steps
      <4>3. \A v \in Workers : /\ WorksOn(v, d)' <=> WorksOn(v, d)
                               /\ WorksOn(v, d) => job'[v] = job[v]
        BY <4>1, <4>2 DEF WorksOn, Busy
      <4>. QED  BY <1>0, <4>1, <4>3, PaidElsewhere
    <3>. QED  BY <3>1, <3>2
  <2>. QED  BY <1>3, <2>1, <2>2, <2>3, <2>4 DEF Scan
<1>4. CASE Crash
  BY <1>0, <1>4, CrashPaid
<1>5. CASE UNCHANGED vars
  BY <1>0, <1>5, PaidElsewhere DEF vars, WorksOn, Busy
<1>. QED  BY <1>1, <1>2, <1>3, <1>4, <1>5 DEF Next

LEMMA PaidInit == Init => Untouched /\ BegunInOrder /\ EveryDeliveryPaid
<1>. SUFFICES ASSUME Init PROVE Untouched /\ BegunInOrder /\ EveryDeliveryPaid
  OBVIOUS
<1>1. /\ \A w \in Workers, d \in Deliveries : ~WorksOn(w, d)
      /\ \A d \in Deliveries : ~Attended(d)
  BY DEF Init, WorksOn, Attended, Busy, Idle, Steps
<1>2. Untouched /\ BegunInOrder
  BY <1>1, DeliveryQueueAssumption
     DEF Init, Untouched, NoTrace, BegunInOrder, ScansWait, Unsent, Unwritten, Workers
<1>3. ASSUME NEW d \in Deliveries PROVE Paid(d)
  <2>1. Holding(d) = {} /\ ToSend(d) = {} /\ Trying(d) = {}
    BY <1>1 DEF Init, Holding, ToSend, Trying
  <2>2. IsFiniteSet({}) /\ Cardinality({}) = 0
    BY FS_EmptySet
  <2>3. RepeatsPaid(d)
    BY <2>1, <2>2 DEF Init, RepeatsPaid
  <2>4. RetriesPaid(d)
    BY <1>1, <2>1, <2>2, DeliveryQueueAssumption DEF Init, RetriesPaid, Spent
  <2>. QED  BY <2>1, <2>2, <2>3, <2>4 DEF Paid
<1>. QED  BY <1>2, <1>3 DEF EveryDeliveryPaid

LEMMA DeliveriesArePaid == Spec => [](DeliveryTypeOK /\ EveryDeliveryPaid)
BY PaidInit, DeliveryTypeCorrect, UntouchedStep, BegunStep, PaidStep, PTL DEF Spec

\* A message received more than once was reported as failed, or met a crash, a
\* failing disk operation or a second worker, as often (recoverPendingDeliveries).
THEOREM RepetitionsHaveACause == Spec => []RepeatsHaveACause
<1>1. DeliveryTypeOK /\ EveryDeliveryPaid => RepeatsHaveACause
  <2>. SUFFICES ASSUME DeliveryTypeOK, NEW d \in Deliveries, Paid(d)
                PROVE  copies[d] <= 1 + lost[d] + mishaps[d]
    BY DEF RepeatsHaveACause, EveryDeliveryPaid
  <2>1. PICK t \in Nat, h \in Nat : t = Cardinality(Trying(d)) /\ h = Cardinality(Holding(d))
    BY PaidTypes
  <2>2. copies[d] \in Nat /\ lost[d] \in Nat /\ mishaps[d] \in Nat
    BY PaidTypes
  <2>3. copies[d] + h + t <= 1 + lost[d] + mishaps[d]
    BY <2>1 DEF Paid, RepeatsPaid
  <2>. QED  BY <2>2, <2>3
<1>. QED  BY <1>1, DeliveriesArePaid, PTL

\* MAX_RETRIES bounds the sends of a message across all starts, but for those a
\* crash, a failing disk operation or a second worker kept from being counted.
THEOREM RetriesEnd == Spec => []RetriesAreBounded
<1>1. DeliveryTypeOK /\ EveryDeliveryPaid => RetriesAreBounded
  <2>. SUFFICES ASSUME DeliveryTypeOK, NEW d \in Deliveries, Paid(d)
                PROVE  tries[d] <= MaxRetries + mishaps[d]
    BY DEF RetriesAreBounded, EveryDeliveryPaid
  <2>1. PICK n \in Nat : n = Cardinality(ToSend(d))
    BY PaidTypes
  <2>2. tries[d] \in Nat /\ MaxRetries \in Nat /\ mishaps[d] \in Nat
    BY PaidTypes
  <2>3. tries[d] + n <= MaxRetries + mishaps[d]
    BY <2>1 DEF Paid, RetriesPaid, Spent
  <2>. QED  BY <2>2, <2>3
<1>. QED  BY <1>1, DeliveriesArePaid, PTL
=============================================================================
