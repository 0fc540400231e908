---------------------------- MODULE DeliveryQueue ----------------------------
(***************************************************************************)
(* The write-ahead queue of outbound messages (src/infra/outbound):         *)
(* deliverOutboundPayloads writes an entry, sends, and removes the entry;   *)
(* every start of the gateway scans the queue and sends again what is left. *)
(*                                                                          *)
(* The workers are the calls that deliver, one per delivery, and the scans, *)
(* one per start.  Nothing keeps them apart: a scan runs beside the calls   *)
(* of its process and, after a restart in place, beside an earlier scan.    *)
(* Every await of a worker on the disk or the channel ends a step.          *)
(*                                                                          *)
(* The deliveries of a scan are independent files.  So its load, and the    *)
(* updates of the deliveries it defers, which the code awaits all at once,  *)
(* are modelled one delivery after the other without loss of outcomes.      *)
(* Abstracted: what is sent, in how many parts, and in which order a scan   *)
(* replays; time, so that a replay may always be too early or too late.     *)
(***************************************************************************)
EXTENDS Integers

CONSTANTS
    Deliveries,
    Scans,          \* bound: starts of the gateway, each with its scan
    MaxRetries,     \* MAX_RETRIES
    MaxCrashes,     \* bound: crashes
    MaxFaults       \* bound: operations on files that fail

ASSUME DeliveryQueueAssumption ==
    /\ Scans \cap Deliveries = {}
    /\ MaxRetries \in Nat \ {0}
    /\ MaxCrashes \in Nat
    /\ MaxFaults \in Nat

VARIABLES
    pending,    \* <id>.json: its retryCount
    marker,     \* <id>.delivered
    failed,     \* failed/<id>.json
    job,        \* what each worker does
    phase,      \* how far each scan is
    todo,       \* the entries each scan has loaded and not got to
    recalled,   \* history: aborted, or left with nothing to send
    copies,     \* history: how often each delivery was received
    tries,      \* history: how often each was sent
    lost,       \* history: how often it was received and reported as failed
    mishaps,    \* history: crashes, faults and overlaps that hit a delivery
    accepted,   \* history: deliveries whose entry was written
    bestEffort, \* those asked for with bestEffort
    crashes, faults

files   == <<pending, marker, failed>>
history == <<recalled, copies, tries, lost, mishaps, accepted, bestEffort, crashes, faults>>
vars    == <<files, job, phase, todo, history>>

Workers == Deliveries \cup Scans

NoFile == -1
Idle   == [at |-> "idle"]
Ended  == [at |-> "ended"]

\* A worker on delivery id; for the steps of failDelivery, what it has read.
On(step, d) == [at |-> step, id |-> d, read |-> 0]
Steps == {"sending", "received", "renaming", "unlinking", "reading", "writing", "moving"}
Job   == {Idle, Ended} \cup [at : Steps, id : Deliveries, read : Nat]

Busy(w)       == job[w].at \in Steps
WorksOn(w, d) == Busy(w) /\ job[w].id = d

Init ==
    /\ pending = [d \in Deliveries |-> NoFile]
    /\ marker = {}
    /\ failed = {}
    /\ job = [w \in Workers |-> Idle]
    /\ phase = [r \in Scans |-> "waiting"]
    /\ todo = [r \in Scans |-> [d \in Deliveries |-> NoFile]]
    /\ recalled = {}
    /\ copies = [d \in Deliveries |-> 0]
    /\ tries = [d \in Deliveries |-> 0]
    /\ lost = [d \in Deliveries |-> 0]
    /\ mishaps = [d \in Deliveries |-> 0]
    /\ accepted = {}
    /\ bestEffort = {}
    /\ crashes = 0
    /\ faults = 0

-----------------------------------------------------------------------------
(* Sending *)

\* deliverOutboundPayloads, up to the send: an entry that cannot be written
\* does not stop the delivery.
Deliver(d, written, best) ==
    /\ job[d] = Idle
    /\ IF written
       THEN /\ pending' = [pending EXCEPT ![d] = 0]
            /\ accepted' = accepted \cup {d}
       ELSE UNCHANGED <<pending, accepted>>
    /\ job' = [job EXCEPT ![d] = On("sending", d)]
    /\ bestEffort' = IF best THEN bestEffort \cup {d} ELSE bestEffort
    /\ tries' = [tries EXCEPT ![d] = @ + 1]
    /\ UNCHANGED <<marker, failed, phase, todo, recalled, copies, lost, mishaps, crashes, faults>>

Receive(w) ==
    /\ job[w].at = "sending"
    /\ job' = [job EXCEPT ![w].at = "received"]
    /\ copies' = [copies EXCEPT ![job[w].id] = @ + 1]
    /\ UNCHANGED <<files, phase, todo, recalled, tries, lost, mishaps, accepted, bestEffort, crashes, faults>>

\* Mutant of StepAfter: a scan acknowledges what failed for good.
AckPermanent(w, answer) == IF answer \in {"noticed", "failed"} THEN "reading" ELSE "renaming"

\* What a worker with an entry does after each answer to its send.  Under
\* bestEffort the errors of a payload are swallowed: a caller with an onError
\* hears of them, one without it and a scan do not, and then nothing tells it
\* from success.  Errors before the first payload and after the last one are
\* thrown all the same.  Only a scan looks for errors that are permanent.
\* "recalled": the caller's abort, or any error that looks like an abort; and
\* a delivery of which a hook or the lack of content leaves nothing to send.
StepAfter(w, answer) ==
    CASE answer = "sent"      -> "renaming"
      [] answer = "recalled"  -> "renaming"
      [] answer = "swallowed" -> "renaming"
      [] answer = "noticed"   -> "reading"
      [] answer = "failed"    -> "reading"
      [] answer = "permanent" -> IF w \in Scans THEN "moving" ELSE "reading"

Answers(w) ==
    LET d == job[w].id
    IN  {"recalled", "failed", "permanent"}
          \cup (IF job[w].at = "received" THEN {"sent"} ELSE {})
          \cup (IF d \in bestEffort THEN {"swallowed"} ELSE {})
          \cup (IF d \in bestEffort /\ w \notin Scans THEN {"noticed"} ELSE {})

\* A call whose entry was not written is done with its answer.
Answer(w, answer) ==
    LET d == job[w].id
    IN  /\ job[w].at \in {"sending", "received"}
        /\ answer \in Answers(w)
        /\ job' = [job EXCEPT ![w] = IF w \in Scans \/ d \in accepted
                                     THEN On(StepAfter(w, answer), d) ELSE Ended]
        /\ recalled' = IF answer = "recalled" THEN recalled \cup {d} ELSE recalled
        /\ lost' = IF job[w].at = "received" /\ answer \in {"failed", "permanent", "noticed"}
                   THEN [lost EXCEPT ![d] = @ + 1] ELSE lost
        /\ UNCHANGED <<files, phase, todo, copies, tries, mishaps, accepted, bestEffort, crashes, faults>>

-----------------------------------------------------------------------------
(* The files *)

\* A call has nothing left to do; a scan goes on to its next entry.
Done(w) == IF w \in Scans THEN Idle ELSE Ended

\* ackDelivery, first phase: rename; without the entry, a marker is cleaned up.
AckRename(w) ==
    LET d == job[w].id
    IN  /\ job[w].at = "renaming"
        /\ IF pending[d] # NoFile
           THEN /\ pending' = [pending EXCEPT ![d] = NoFile]
                /\ marker' = marker \cup {d}
           ELSE UNCHANGED <<pending, marker>>
        /\ job' = [job EXCEPT ![w].at = "unlinking"]
        /\ UNCHANGED <<failed, phase, todo, history>>

AckUnlink(w) ==
    /\ job[w].at = "unlinking"
    /\ marker' = marker \ {job[w].id}
    /\ job' = [job EXCEPT ![w] = Done(w)]
    /\ UNCHANGED <<pending, failed, phase, todo, history>>

\* Mutant of FailRead: the entry need not be there.
FailReadUnchecked(w) ==
    /\ job[w].at = "reading"
    /\ job' = [job EXCEPT ![w].at = "writing", ![w].read = pending[job[w].id]]
    /\ UNCHANGED <<files, phase, todo, history>>

\* failDelivery reads the entry and, after an await, writes it: an error of
\* either is swallowed by every caller.
FailRead(w) ==
    LET d == job[w].id
    IN  /\ job[w].at = "reading"
        /\ job' = [job EXCEPT ![w] = IF pending[d] # NoFile
                                     THEN [@ EXCEPT !.at = "writing", !.read = pending[d]]
                                     ELSE Done(w)]
        /\ UNCHANGED <<files, phase, todo, history>>

FailWrite(w) ==
    /\ job[w].at = "writing"
    /\ pending' = [pending EXCEPT ![job[w].id] = job[w].read + 1]
    /\ job' = [job EXCEPT ![w] = Done(w)]
    /\ UNCHANGED <<marker, failed, phase, todo, history>>

\* Mutant of MoveToFailed: the entry is removed but not kept.
RemoveFailed(w) ==
    /\ job[w].at = "moving"
    /\ pending' = [pending EXCEPT ![job[w].id] = NoFile]
    /\ job' = [job EXCEPT ![w] = Done(w)]
    /\ UNCHANGED <<marker, failed, phase, todo, history>>

\* moveEntryToFailedWithLogging: an entry that is gone is only logged.
MoveToFailed(w) ==
    LET d == job[w].id
    IN  /\ job[w].at = "moving"
        /\ IF pending[d] # NoFile
           THEN /\ pending' = [pending EXCEPT ![d] = NoFile]
                /\ failed' = failed \cup {d}
           ELSE UNCHANGED <<pending, failed>>
        /\ job' = [job EXCEPT ![w] = Done(w)]
        /\ UNCHANGED <<marker, phase, todo, history>>

\* An operation on a file fails.  A call swallows it; a scan that cannot
\* acknowledge an entry counts a failed attempt (they share one try).
DiskFault(w) ==
    /\ job[w].at \in {"renaming", "reading", "writing", "moving"}
    /\ faults < MaxFaults
    /\ faults' = faults + 1
    /\ mishaps' = [mishaps EXCEPT ![job[w].id] = @ + 1]
    /\ job' = [job EXCEPT ![w] = IF job[w].at = "renaming" /\ w \in Scans
                                 THEN On("reading", job[w].id) ELSE Done(w)]
    /\ UNCHANGED <<files, phase, todo, recalled, copies, tries, lost, accepted, bestEffort, crashes>>

-----------------------------------------------------------------------------
(* Recovery *)

\* Another worker may still act on delivery d.
Overlaps(r, d) ==
    \/ \E w \in Workers : WorksOn(w, d)
    \/ \E s \in Scans \ {r} : todo[s][d] # NoFile

\* Mutant of StartScan: a marker is taken for an entry.
StartScanOfMarkers(r) ==
    /\ phase[r] = "waiting"
    /\ phase' = [phase EXCEPT ![r] = "replaying"]
    /\ marker' = {}
    /\ todo' = [todo EXCEPT ![r] = [d \in Deliveries |-> IF d \in marker THEN 0 ELSE pending[d]]]
    /\ mishaps' = [d \in Deliveries |-> IF pending[d] # NoFile /\ Overlaps(r, d)
                                        THEN mishaps[d] + 1 ELSE mishaps[d]]
    /\ UNCHANGED <<pending, failed, job, recalled, copies, tries, lost, accepted, bestEffort, crashes, faults>>

\* The gateway starts; loadPendingDeliveries clears markers and reads entries.
StartScan(r) ==
    /\ phase[r] = "waiting"
    /\ phase' = [phase EXCEPT ![r] = "replaying"]
    /\ marker' = {}
    /\ todo' = [todo EXCEPT ![r] = pending]
    /\ mishaps' = [d \in Deliveries |-> IF pending[d] # NoFile /\ Overlaps(r, d)
                                        THEN mishaps[d] + 1 ELSE mishaps[d]]
    /\ UNCHANGED <<pending, failed, job, recalled, copies, tries, lost, accepted, bestEffort, crashes, faults>>

Taken(r, d, step) ==
    /\ phase[r] = "replaying"
    /\ job[r] = Idle
    /\ todo[r][d] # NoFile
    /\ todo' = [todo EXCEPT ![r][d] = NoFile]
    /\ job' = [job EXCEPT ![r] = IF step = "idle" THEN Idle ELSE On(step, d)]
    /\ UNCHANGED <<files, phase, recalled, copies, lost, mishaps, accepted, bestEffort, crashes, faults>>

\* Mutant of Replay: one attempt too many.
ReplayOnceMore(r, d) ==
    /\ todo[r][d] <= MaxRetries
    /\ Taken(r, d, "sending")
    /\ tries' = [tries EXCEPT ![d] = @ + 1]

Replay(r, d) ==
    /\ todo[r][d] < MaxRetries
    /\ Taken(r, d, "sending")
    /\ tries' = [tries EXCEPT ![d] = @ + 1]

\* The backoff since the last attempt is not over; a first replay has none.
TooEarly(r, d) ==
    /\ 0 < todo[r][d] /\ todo[r][d] < MaxRetries
    /\ Taken(r, d, "idle")
    /\ UNCHANGED tries

GiveUp(r, d) ==
    /\ todo[r][d] >= MaxRetries
    /\ Taken(r, d, "moving")
    /\ UNCHANGED tries

\* The sixty seconds are over: what is left counts as a failed attempt each.
Deadline(r) ==
    /\ phase[r] = "replaying"
    /\ job[r] = Idle
    /\ phase' = [phase EXCEPT ![r] = "deferring"]
    /\ UNCHANGED <<files, job, todo, history>>

Defer(r, d) ==
    /\ phase[r] = "deferring"
    /\ job[r] = Idle
    /\ todo[r][d] # NoFile
    /\ todo' = [todo EXCEPT ![r][d] = NoFile]
    /\ job' = [job EXCEPT ![r] = On("reading", d)]
    /\ UNCHANGED <<files, phase, history>>

ScanEnds(r) ==
    /\ phase[r] \in {"replaying", "deferring"}
    /\ job[r] = Idle
    /\ \A d \in Deliveries : todo[r][d] = NoFile
    /\ phase' = [phase EXCEPT ![r] = "ended"]
    /\ job' = [job EXCEPT ![r] = Ended]
    /\ UNCHANGED <<files, todo, history>>

\* The process dies with its workers; the files stay.  A next scan is a start.
\* An entry that was renamed is safe: that crash is no mishap.
Crash ==
    /\ crashes < MaxCrashes
    /\ crashes' = crashes + 1
    /\ \E w \in Workers : Busy(w) \/ (w \in Scans /\ phase[w] \in {"replaying", "deferring"})
    /\ mishaps' = [d \in Deliveries |-> IF \E w \in Workers : /\ WorksOn(w, d)
                                                              /\ job[w].at # "unlinking"
                                        THEN mishaps[d] + 1 ELSE mishaps[d]]
    /\ job' = [w \in Workers |->
                  IF Busy(w) \/ (w \in Scans /\ phase[w] # "waiting") THEN Ended ELSE job[w]]
    /\ phase' = [r \in Scans |-> IF phase[r] = "waiting" THEN "waiting" ELSE "ended"]
    /\ todo' = [r \in Scans |-> [d \in Deliveries |-> NoFile]]
    /\ UNCHANGED <<files, recalled, copies, tries, lost, accepted, bestEffort, faults>>

-----------------------------------------------------------------------------

AnswerKinds == {"sent", "recalled", "swallowed", "noticed", "failed", "permanent"}

Work(w) ==
    \/ Receive(w)
    \/ \E answer \in AnswerKinds : Answer(w, answer)
    \/ AckRename(w) \/ AckUnlink(w) \/ FailRead(w) \/ FailWrite(w) \/ MoveToFailed(w)
    \/ DiskFault(w)

Scan(r) ==
    \/ StartScan(r) \/ Deadline(r) \/ ScanEnds(r)
    \/ \E d \in Deliveries : Replay(r, d) \/ TooEarly(r, d) \/ GiveUp(r, d) \/ Defer(r, d)

Next ==
    \/ \E d \in Deliveries, written, best \in BOOLEAN : Deliver(d, written, best)
    \/ \E w \in Workers : Work(w)
    \/ \E r \in Scans : Scan(r)
    \/ Crash

Spec == Init /\ [][Next]_vars

-----------------------------------------------------------------------------
(* Properties *)

\* Every variable stays within its type.
DeliveryTypeOK ==
    /\ pending \in [Deliveries -> Nat \cup {NoFile}]
    /\ marker \subseteq Deliveries
    /\ failed \subseteq Deliveries
    /\ job \in [Workers -> Job]
    /\ phase \in [Scans -> {"waiting", "replaying", "deferring", "ended"}]
    /\ todo \in [Scans -> [Deliveries -> Nat \cup {NoFile}]]
    /\ recalled \subseteq Deliveries
    /\ accepted \subseteq Deliveries
    /\ bestEffort \subseteq Deliveries
    /\ {copies, tries, lost, mishaps} \subseteq [Deliveries -> Nat]
    /\ {crashes, faults} \subseteq Nat

\* A delivery whose entry was written has reached its channel, was recalled,
\* or is still to be found in the queue or in failed/, whatever crashes,
\* restarts and failing disk operations came between.  Deliveries asked for
\* with bestEffort are not promised this: their errors may count as success.
NothingLost ==
    \A d \in accepted \ bestEffort :
        \/ copies[d] > 0
        \/ d \in recalled \cup failed
        \/ pending[d] # NoFile

\* A message is received twice only for a reason: an answer that was lost, a
\* crash or a disk fault before the entry was gone, or two workers on it.
RepeatsHaveACause ==
    \A d \in Deliveries : copies[d] <= 1 + lost[d] + mishaps[d]

\* The limit on retries holds across starts: each send beyond it is the cost
\* of a crash, a fault or an overlap that kept an attempt from being counted.
RetriesAreBounded ==
    \A d \in Deliveries : tries[d] <= MaxRetries + mishaps[d]

\* The queue implements the outbox, for deliveries without bestEffort: an
\* entry leaves the queue only when its message was received or recalled, or
\* for failed/.
TheOutbox == INSTANCE Outbox WITH
    owed     <- {d \in Deliveries \ bestEffort : pending[d] # NoFile},
    received <- {d \in Deliveries \ bestEffort : copies[d] > 0},
    recalled <- recalled \ bestEffort,
    dead     <- failed \ bestEffort
ImplementsOutbox == TheOutbox!Spec
=============================================================================
