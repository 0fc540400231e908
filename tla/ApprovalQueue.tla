---------------------------- MODULE ApprovalQueue ----------------------------
(***************************************************************************)
(* The approval queue (modules/approval/approval_queue.py) and the one      *)
(* place that touches its requests from outside, the refusal of a forbidden *)
(* action in modules/approval/approval_hooks.py.                            *)
(*                                                                          *)
(* A request is answered under the queue's re-entrant lock, so a call is    *)
(* one action; the refusal writes the status of a request it no longer      *)
(* holds the lock for, after its own call or inside another that answers    *)
(* the same request.  A call passes through several states of the two files *)
(* (pending.json, history.json) and of the announcements to the on_resolved *)
(* callbacks; a process that dies inside it leaves one of them behind.  A   *)
(* write that fails is logged, and the call goes on as if it had not.       *)
(*                                                                          *)
(* Abstracted: what is asked for and by whom, the policy match, the PIN (a  *)
(* call without one where it is required returns before it changes          *)
(* anything), and the short token, which names the same request as the id.  *)
(***************************************************************************)
EXTENDS Naturals, Sequences, FiniteSets

CONSTANTS
    MaxRequests,   \* bound: how many requests are ever created
    Approver,      \* identities a decision may carry
    Required,      \* values of required_approvers
    Circles,       \* values of allowed_approvers; {} allows anyone
    MaxHistory,    \* ApprovalQueue.MAX_HISTORY
    Faults,        \* "crash": between calls; "cut": between writes; "tear": inside one
    MaxFailures    \* bound: how many calls have a write that fails

ASSUME ApprovalQueueAssumption ==
    /\ MaxRequests \in Nat
    /\ Required \subseteq Nat \ {0}
    /\ Circles \subseteq SUBSET Approver
    /\ MaxHistory \in Nat \ {0}
    /\ Faults \subseteq {"crash", "cut", "tear"}
    /\ MaxFailures \in Nat

VARIABLES
    up,         \* the process is alive
    queue,      \* _pending
    history,    \* _history
    disk,       \* pending.json and history.json
    issued,     \* how many requests have been created
    overdue,    \* requests whose expires_at has passed
    announced,  \* the outcomes the callbacks have been told, per request
    refusals,   \* requests created for a forbidden action, and how far that got
    failures,   \* how many calls have had a write that failed
    unsaved     \* requests such a call left unanswered in the files

avars == <<up, queue, history, disk, issued, overdue, announced, refusals, failures, unsaved>>

-----------------------------------------------------------------------------
(* Data *)

RequestId == 1..MaxRequests

\* "none" marks an identifier that is not a key of the dictionary.
Outcome == {"approved", "denied", "expired", "cancelled"}
ApprovalStatus == Outcome \cup {"pending"}

Decision == [by : Approver, approved : BOOLEAN]
Request  == [status : ApprovalStatus \cup {"none"}, decisions : Seq(Decision),
             required : Required \cup {1}, allowed : Circles \cup {{}}]
NoRequest == [status |-> "none", decisions |-> <<>>, required |-> 1, allowed |-> {}]

\* Mutant of NewRequest: one approver too few.
NewRequestOffByOne(n, circle) ==
    [status |-> "pending", decisions |-> <<>>, required |-> n - 1, allowed |-> circle]

NewRequest(n, circle) ==
    [status |-> "pending", decisions |-> <<>>, required |-> n, allowed |-> circle]

Entry == [id : RequestId, request : Request]

Nothing == [r \in RequestId |-> NoRequest]

Known(r)    == queue[r].status # "none"
Resolved(q) == q.status # "pending"

\* ApprovalRequest.approval_count: entries of the list, not people.
ApprovalCount(q) == Cardinality({i \in DOMAIN q.decisions : q.decisions[i].approved})

\* Mutant of MayDecide: one person may decide twice.
MayDecideTwice(q, a) == q.allowed = {} \/ a \in q.allowed

\* The two early returns of add_decision.
MayDecide(q, a) ==
    /\ q.allowed = {} \/ a \in q.allowed
    /\ \A i \in DOMAIN q.decisions : q.decisions[i].by # a

\* ApprovalRequest.add_decision: one denial settles it, approvals are counted.
AddDecision(q, a, yes) ==
    IF ~MayDecide(q, a) THEN q
    ELSE LET decided == [q EXCEPT !.decisions = Append(@, [by |-> a, approved |-> yes])]
         IN  IF ~yes THEN [decided EXCEPT !.status = "denied"]
             ELSE IF ApprovalCount(decided) >= q.required
                  THEN [decided EXCEPT !.status = "approved"]
                  ELSE decided

\* self._history.append, then the last MaxHistory entries.
Remember(log, entries) ==
    LET all == log \o entries
    IN  IF Len(all) > MaxHistory
        THEN SubSeq(all, Len(all) - MaxHistory + 1, Len(all))
        ELSE all

-----------------------------------------------------------------------------
(* Files and announcements.  A truncated file makes its loader log an       *)
(* exception and go on with nothing.                                        *)

Files == [pending : [RequestId -> Request], history : Seq(Entry)]

\* What outlives the process, as a call leaves it part of the way through.
Trace(d, told) == [disk |-> d, announced |-> told]

SavePending(d, q)   == [d EXCEPT !.pending = q]
SaveHistory(d, log) == [d EXCEPT !.history = log]

\* What a write may leave of its file: what was written or, if the disk fails
\* it, what was there before or nothing.
Written(saved, kept, emptied) ==
    {saved} \cup (IF failures < MaxFailures THEN {kept, emptied} ELSE {})

PendingWrites(d, q)   == Written(SavePending(d, q), d, SavePending(d, Nothing))
HistoryWrites(d, log) == Written(SaveHistory(d, log), d, SaveHistory(d, <<>>))

\* What the callbacks were told of and the files do not show as answered.
Missing ==
    {r \in RequestId :
        /\ announced[r] # {}
        /\ \/ disk.pending[r].status # "none"
           \/ \A i \in DOMAIN disk.history : disk.history[i].id # r}

Torn(d, told) == IF "tear" \in Faults THEN {Trace(d, told)} ELSE {}

Announce(told, r, status) == [told EXCEPT ![r] = @ \cup {status}]

Forget ==
    /\ up' = FALSE
    /\ queue' = Nothing
    /\ history' = <<>>

\* A thread that was about to write a refusal dies with the process.
Track(rs) ==
    refusals' = IF up' THEN rs
                ELSE [r \in RequestId |-> IF rs[r] = "writing" THEN "lost" ELSE rs[r]]

\* The call runs to its end, or dies having left one of the traces in passed;
\* its writes failed if the files are not the ones meant.
Commit(q, log, passed, final, meant) ==
    /\ \/ /\ up' = TRUE
          /\ queue' = q
          /\ history' = log
          /\ disk' = final.disk
          /\ announced' = final.announced
       \/ /\ "cut" \in Faults
          /\ \E t \in passed : disk' = t.disk /\ announced' = t.announced
          /\ Forget
    /\ IF final.disk = meant
       THEN UNCHANGED <<failures, unsaved>>
       ELSE failures' = failures + 1 /\ unsaved' = unsaved \cup Missing'

\* _persist_pending as the only write of a call.
PersistPending(q) ==
    \E d \in PendingWrites(disk, q) :
        Commit(q, history, Torn(SavePending(disk, Nothing), announced),
               Trace(d, announced), SavePending(disk, q))

\* Mutant of FinalizeRequest: the callbacks run before anything is saved.
FinalizeAnnounceFirst(r, outcome, seen) ==
    LET q     == [queue EXCEPT ![r] = NoRequest]
        log   == Remember(history, <<[id |-> r, request |-> outcome]>>)
        told  == Announce(announced, r, seen)
        gone  == SavePending(disk, q)
        saved == SaveHistory(gone, log)
    IN  Commit(q, log, {Trace(disk, told), Trace(gone, told)}, Trace(saved, told), saved)

\* _finalize_request: out of the queue, into the history, both saved, announced
\* with the status the callbacks see.
FinalizeRequest(r, outcome, seen) ==
    LET q   == [queue EXCEPT ![r] = NoRequest]
        log == Remember(history, <<[id |-> r, request |-> outcome]>>)
    IN  \E gone \in PendingWrites(disk, q) : \E saved \in HistoryWrites(gone, log) :
            Commit(q, log,
                   Torn(SavePending(disk, Nothing), announced)
                     \cup {Trace(gone, announced)}
                     \cup Torn(SaveHistory(gone, <<>>), announced)
                     \cup {Trace(saved, announced)},
                   Trace(saved, Announce(announced, r, seen)),
                   SaveHistory(SavePending(disk, q), log))

\* The end of a call that answers r.  A refusal still being written may land
\* before the history copies the status, or before the callbacks read it.
Settle(r, outcome) ==
    \/ /\ FinalizeRequest(r, outcome, outcome.status)
       /\ Track(refusals)
    \/ /\ refusals[r] = "writing"
       /\ \E copied \in {outcome.status, "denied"} :
              FinalizeRequest(r, [outcome EXCEPT !.status = copied], "denied")
       /\ Track([refusals EXCEPT ![r] = "refused"])

-----------------------------------------------------------------------------
(* Requests *)

\* create_request: the next identifier, in the queue and in the file.
Create(n, circle) ==
    /\ up
    /\ issued < MaxRequests
    /\ issued' = issued + 1
    /\ PersistPending([queue EXCEPT ![issued + 1] = NewRequest(n, circle)])
    /\ UNCHANGED overdue

CreateRequest(n, circle) == Create(n, circle) /\ Track(refusals)

\* request_approval for a forbidden action, up to the return of create_request:
\* an ordinary request that anyone may answer is in the queue.
RequestForbidden ==
    /\ Create(1, {})
    /\ Track([refusals EXCEPT ![issued + 1] = "writing"])

\* The rest of it: request.status = DENIED, without the lock and without a
\* save.  The object is still the queue's own unless it was answered meanwhile;
\* inside a call that answers it, the write is part of Settle (inside
\* expire_stale, which changes the status the same way, it is left out).
Refuse(r) ==
    /\ up
    /\ refusals[r] = "writing"
    /\ refusals' = [refusals EXCEPT ![r] = "refused"]
    /\ queue' = IF Known(r) THEN [queue EXCEPT ![r].status = "denied"] ELSE queue
    /\ UNCHANGED <<up, history, disk, issued, overdue, announced, failures, unsaved>>

\* Mutant of Approve: a request past its time may still be approved.
ApproveLate(r, a) ==
    /\ up
    /\ Known(r) /\ ~Resolved(queue[r])
    /\ LET q == AddDecision(queue[r], a, TRUE)
       IN  IF Resolved(q) THEN Settle(r, q)
           ELSE PersistPending([queue EXCEPT ![r] = q]) /\ Track(refusals)
    /\ UNCHANGED <<issued, overdue>>

Approve(r, a) ==
    /\ up
    /\ Known(r) /\ ~Resolved(queue[r])
    /\ IF r \in overdue
       THEN Settle(r, [queue[r] EXCEPT !.status = "expired"])
       ELSE LET q == AddDecision(queue[r], a, TRUE)
            IN  IF Resolved(q) THEN Settle(r, q)
                ELSE PersistPending([queue EXCEPT ![r] = q]) /\ Track(refusals)
    /\ UNCHANGED <<issued, overdue>>

\* deny does not look at what add_decision returned: a decision that was not
\* accepted takes the request out of the queue with status "pending".
Deny(r, a) ==
    /\ up
    /\ Known(r) /\ ~Resolved(queue[r])
    /\ Settle(r, AddDecision(queue[r], a, FALSE))
    /\ UNCHANGED <<issued, overdue>>

Cancel(r) ==
    /\ up
    /\ Known(r) /\ ~Resolved(queue[r])
    /\ Settle(r, [queue[r] EXCEPT !.status = "cancelled"])
    /\ UNCHANGED <<issued, overdue>>

Stale(r) == queue[r].status = "pending" /\ r \in overdue

\* The stale requests one after the other, in the order of the dictionary,
\* which is the order they were created in.
Lists(stale) ==
    /\ \A r \in RequestId : Stale(r) <=> \E i \in DOMAIN stale : stale[i] = r
    /\ \A i, j \in DOMAIN stale : i < j => stale[i] < stale[j]

\* The first k of them have been announced.
Told(stale, k) ==
    [r \in RequestId |-> IF \E i \in 1..k : stale[i] = r
                          THEN announced[r] \cup {"expired"} ELSE announced[r]]

Expired(stale) ==
    [i \in DOMAIN stale |->
        [id |-> stale[i], request |-> [queue[stale[i]] EXCEPT !.status = "expired"]]]

Fresh == [r \in RequestId |-> IF Stale(r) THEN NoRequest ELSE queue[r]]

\* expire_stale: every stale request leaves the queue and is announced, then
\* the queue is saved once; the history is not.
ExpireStale ==
    \E n \in 1..MaxRequests : \E stale \in [1..n -> RequestId] :
        /\ up
        /\ Lists(stale)
        /\ \E d \in PendingWrites(disk, Fresh) :
              Commit(Fresh, Remember(history, Expired(stale)),
                     {Trace(disk, Told(stale, k)) : k \in 1..n}
                       \cup Torn(SavePending(disk, Nothing), Told(stale, n)),
                     Trace(d, Told(stale, n)), SavePending(disk, Fresh))
        /\ Track(refusals)
        /\ UNCHANGED <<issued, overdue>>

-----------------------------------------------------------------------------
(* Time, failure, restart *)

\* expires_at passes.
Lapse(r) ==
    /\ r <= issued
    /\ r \notin overdue
    /\ overdue' = overdue \cup {r}
    /\ UNCHANGED <<up, queue, history, disk, issued, announced, refusals, failures, unsaved>>

Crash ==
    /\ up
    /\ "crash" \in Faults
    /\ Forget
    /\ Track(refusals)
    /\ UNCHANGED <<disk, issued, overdue, announced, failures, unsaved>>

\* __init__: _load_pending, then _load_history.
Restart ==
    /\ ~up
    /\ up' = TRUE
    /\ queue' = disk.pending
    /\ history' = disk.history
    /\ UNCHANGED <<disk, issued, overdue, announced, refusals, failures, unsaved>>

-----------------------------------------------------------------------------

ApprovalInit ==
    /\ up = TRUE
    /\ queue = Nothing
    /\ history = <<>>
    /\ disk = [pending |-> Nothing, history |-> <<>>]
    /\ issued = 0
    /\ overdue = {}
    /\ announced = [r \in RequestId |-> {}]
    /\ refusals = [r \in RequestId |-> "no"]
    /\ failures = 0
    /\ unsaved = {}

ApprovalNext ==
    \/ \E n \in Required, circle \in Circles : CreateRequest(n, circle)
    \/ RequestForbidden
    \/ \E r \in RequestId :
        \/ Refuse(r)
        \/ Cancel(r)
        \/ Lapse(r)
        \/ \E a \in Approver : Approve(r, a) \/ Deny(r, a)
    \/ ExpireStale
    \/ Crash
    \/ Restart

ApprovalSpec == ApprovalInit /\ [][ApprovalNext]_avars

-----------------------------------------------------------------------------
(* Properties *)

\* Types and bounds: neither the history nor its file outgrows MAX_HISTORY, and
\* only requests that were created run out of time.
ApprovalTypeOK ==
    /\ up \in BOOLEAN
    /\ queue \in [RequestId -> Request]
    /\ history \in Seq(Entry)
    /\ Len(history) <= MaxHistory
    /\ disk \in Files
    /\ Len(disk.history) <= MaxHistory
    /\ issued \in 0..MaxRequests
    /\ overdue \subseteq 1..issued
    /\ announced \in [RequestId -> SUBSET ApprovalStatus]
    /\ refusals \in [RequestId -> {"no", "writing", "refused", "lost"}]
    /\ failures \in 0..MaxFailures
    /\ unsaved \subseteq RequestId

\* approve, add_decision: whatever is recorded as approved was approved by as
\* many different people as it asked for, all of them allowed to, and denied by
\* nobody; the decisions may have been taken in different runs of the process.
ApprovedByEnough ==
    \A i \in DOMAIN history :
        LET q   == history[i].request
            for == {q.decisions[k].by : k \in DOMAIN q.decisions}
        IN  q.status = "approved" =>
                /\ Cardinality(for) >= q.required
                /\ q.allowed = {} \/ for \subseteq q.allowed
                /\ \A k \in DOMAIN q.decisions : q.decisions[k].approved

\* _notify_resolved, approve: once anyone has been told that a request is
\* approved nobody is ever told anything else of it, before or after a restart,
\* and what was announced as expired is never approved later; unless a write
\* that failed left the request waiting in the file a restart reads.
ApprovalIsFinal ==
    \A r \in RequestId \ unsaved :
        "approved" \in announced[r] => announced[r] = {"approved"}

\* _finalize_request: an announced approval is in the history file, or has been
\* pushed out by MaxHistory later outcomes, wherever the process died; unless the
\* write of a file failed, which the call that announces does not notice.
ApprovalIsRecorded ==
    \A r \in RequestId \ unsaved : "approved" \in announced[r] =>
        \/ \E i \in DOMAIN disk.history : disk.history[i].id = r
        \/ Len(disk.history) = MaxHistory
=============================================================================
