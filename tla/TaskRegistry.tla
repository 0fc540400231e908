---------------------------- MODULE TaskRegistry ----------------------------
(***************************************************************************)
(* The central task registry of the Python runtime                         *)
(* (modules/tasks/task_registry.py): the in-memory dictionary of tasks, the *)
(* index of resume tokens, the history, and the three kinds of file that    *)
(* outlive the process (active_tasks.json, task_history.json and one        *)
(* paused/<token>.json per token).                                          *)
(*                                                                          *)
(* Every public method runs under one re-entrant lock, so a call is one     *)
(* action.  Inside a call the files are written one after the other, and a  *)
(* process that dies in the middle leaves what it had written: each call    *)
(* names the disks it passes through, and Commit may stop at any of them.   *)
(* A write that fails is logged and forgotten: the call goes on without it.  *)
(***************************************************************************)
EXTENDS Naturals, Sequences, FiniteSets

CONSTANTS
    TaskId,       \* identifiers create() may hand out; each is used once
    Token,        \* identifiers uuid4 may produce for resume tokens
    NoId,         \* "no task": what a dictionary lookup returns for a missing key
    NoToken,      \* resume_token = None
    MaxRetries,   \* RegistryTask.max_retries
    MaxHistory,   \* TaskRegistry.MAX_HISTORY
    Faults        \* which failures of the process happen: see FaultKinds

\* "crash": the process ends between two calls; "cut": it ends inside a call,
\* between two file writes; "tear": it ends inside a write, after open(.., "w")
\* has truncated the file; "disk": a write or an unlink raises, the exception is
\* logged, and the call goes on as if it had succeeded.
FaultKinds == {"crash", "cut", "tear", "disk"}

ASSUME TaskRegistryAssumption ==
    /\ IsFiniteSet(TaskId)
    /\ NoId \notin TaskId
    /\ NoToken \notin Token
    /\ MaxRetries \in Nat
    /\ MaxHistory \in Nat \ {0}
    /\ Faults \subseteq FaultKinds

VARIABLES
    up,             \* the process is alive
    tasks,          \* _tasks
    resume_tokens,  \* _resume_tokens: token -> task id
    history,        \* _history
    disk,           \* the files under tasks_dir
    issued,         \* tokens uuid4 has produced so far (it never repeats one)
    lapsed,         \* issued tokens whose expires_at has passed
    cleaned         \* history variable: tokens a call set out to clean up, even if
                    \* it died before it had saved why

vars == <<up, tasks, resume_tokens, history, disk, issued, lapsed, cleaned>>

-----------------------------------------------------------------------------
(* Data *)

\* "none" is an identifier not handed out yet, "gone" one whose task was
\* removed: neither is a key of the dictionary.
Absent     == {"none", "gone"}
TerminalStatus == {"completed", "failed", "cancelled"}
ResumableStatus == {"paused", "awaiting_approval"}
Status     == {"pending", "queued", "running", "waiting"}
                \cup TerminalStatus \cup ResumableStatus \cup Absent

\* dated: completed_at is set.  expires_at is a property of the token.
Task  == [status : Status, token : Token \cup {NoToken},
          retries : 0..MaxRetries, dated : BOOLEAN]

Entry == [id : TaskId, status : TerminalStatus]

NoTask   == [status |-> "none", token |-> NoToken, retries |-> 0, dated |-> FALSE]
GoneTask == [NoTask EXCEPT !.status = "gone"]
NewTask  == [NoTask EXCEPT !.status = "pending"]

NoTasks  == [t \in TaskId |-> NoTask]
NoTokens == [k \in Token |-> NoId]

PausedFile == [kind : {"absent", "torn"}]
                \cup [kind : {"whole"}, id : TaskId, task : Task]
NoFile     == [kind |-> "absent"]
TornFile   == [kind |-> "torn"]

Disk == [active : [TaskId -> Task], history : Seq(Entry), paused : [Token -> PausedFile]]

Known(t)    == tasks[t].status \notin Absent
Terminal(r) == r.status \in TerminalStatus
CanResume(r) == r.status \in ResumableStatus

\* _add_to_history: append, then keep the last MaxHistory entries.
Remember(log, entries) ==
    LET all == log \o entries
    IN  IF Len(all) > MaxHistory
        THEN SubSeq(all, Len(all) - MaxHistory + 1, Len(all))
        ELSE all

-----------------------------------------------------------------------------
(* Files.  A truncated active or history file makes its loader log an       *)
(* exception and go on with nothing, exactly as an empty one would.         *)

SaveActive(d, ts)    == [d EXCEPT !.active = ts]
SaveHistory(d, log)  == [d EXCEPT !.history = log]
SavePaused(d, k, t, r) ==
    [d EXCEPT !.paused[k] = [kind |-> "whole", id |-> t, task |-> r]]
RemovePaused(d, k) ==
    IF k = NoToken THEN d ELSE [d EXCEPT !.paused[k] = NoFile]

Torn(d) == IF "tear" \in Faults THEN {d} ELSE {}
Emptied(ts) == [t \in TaskId |-> IF ts[t].status = "none" THEN NoTask ELSE GoneTask]
TearActive(d, ts) == Torn([d EXCEPT !.active = Emptied(ts)])
TearHistory(d)   == Torn([d EXCEPT !.history = <<>>])
TearPaused(d, k) == Torn([d EXCEPT !.paused[k] = TornFile])

Forget ==
    /\ up' = FALSE
    /\ tasks' = NoTasks
    /\ resume_tokens' = NoTokens
    /\ history' = <<>>

\* What some writes or unlinks of a call failing can leave of the disk final it
\* was to leave: a file it writes is as meant, as it was, or truncated; one it
\* removes is gone or still there.
Spoiled(final) ==
    LET changed == {k \in Token : final.paused[k] # disk.paused[k]}
        written == {k \in changed : final.paused[k] # NoFile}
    IN  {[active  |-> a,
          history |-> h,
          paused  |-> [k \in Token |-> IF k \in torn THEN TornFile
                                       ELSE IF k \in kept THEN disk.paused[k]
                                       ELSE final.paused[k]]] :
            a \in {disk.active, Emptied(final.active), final.active},
            h \in {disk.history, final.history}
                    \cup (IF final.history = disk.history THEN {} ELSE {<<>>}),
            kept \in SUBSET changed, torn \in SUBSET written}

\* A call that leaves memory as (ts, ks, log) and the disk as final, having
\* passed through the disks in passed after its first write began.  A process
\* that dies after a write failed is one whose later writes all fail, and then
\* a crash.
Commit(ts, ks, log, passed, final) ==
    \/ /\ up' = TRUE
       /\ tasks' = ts
       /\ resume_tokens' = ks
       /\ history' = log
       /\ \/ disk' = final
          \/ "disk" \in Faults /\ disk' \in Spoiled(final)
    \/ /\ "cut" \in Faults
       /\ disk' \in passed
       /\ Forget

\* A call whose only write is _persist_active.
Persist(ts) ==
    Commit(ts, resume_tokens, history, TearActive(disk, ts), SaveActive(disk, ts))

\* _resume_tokens.pop(token, None), the first half of _cleanup_resume.
Pop(ks, k) == IF k = NoToken THEN ks ELSE [ks EXCEPT ![k] = NoId]

\* The call removes the tokens in ks.
Cleans(ks) == cleaned' = cleaned \cup (ks \ {NoToken})

-----------------------------------------------------------------------------
(* Task lifecycle *)

Create(t) ==
    /\ up
    /\ tasks[t].status = "none"
    /\ Persist([tasks EXCEPT ![t] = NewTask])
    /\ UNCHANGED <<issued, lapsed, cleaned>>

Queue(t) ==
    /\ up
    /\ tasks[t].status = "pending"
    /\ Persist([tasks EXCEPT ![t].status = "queued"])
    /\ UNCHANGED <<issued, lapsed, cleaned>>

Start(t) ==
    /\ up
    /\ tasks[t].status \in {"queued", "waiting"}
    /\ Persist([tasks EXCEPT ![t].status = "running"])
    /\ UNCHANGED <<issued, lapsed, cleaned>>

\* Mutant of Finish: the active file is written before the history.
FinishActiveFirst(t, status) ==
    LET ts  == [tasks EXCEPT ![t].status = status, ![t].dated = TRUE]
        log == Remember(history, <<[id |-> t, status |-> status]>>)
        d   == SaveActive(disk, ts)
    IN  /\ Commit(ts, resume_tokens, log,
                  TearActive(disk, ts) \cup {d} \cup TearHistory(d),
                  SaveHistory(d, log))
        /\ UNCHANGED <<issued, lapsed, cleaned>>

\* The part complete(), fail() and cancel() share: the history is written
\* before the active file.  None of them touches the resume token.
Finish(t, status) ==
    LET ts  == [tasks EXCEPT ![t].status = status, ![t].dated = TRUE]
        log == Remember(history, <<[id |-> t, status |-> status]>>)
        d   == SaveHistory(disk, log)
    IN  /\ Commit(ts, resume_tokens, log,
                  TearHistory(disk) \cup {d} \cup TearActive(d, ts),
                  SaveActive(d, ts))
        /\ UNCHANGED <<issued, lapsed, cleaned>>

\* complete() and fail() only ask that the task exists.
Complete(t) == up /\ Known(t) /\ Finish(t, "completed")

Fail(t) == up /\ Known(t) /\ Finish(t, "failed")

Cancel(t) == up /\ Known(t) /\ ~Terminal(tasks[t]) /\ Finish(t, "cancelled")

\* Mutant of Suspend: a token already held is cleaned up, but only after the new
\* one took its place on the task, so it is the new one that leaves the index.
SuspendCleaningLate(t, k, status) ==
    LET r  == [tasks[t] EXCEPT !.status = status, !.token = k]
        ts == [tasks EXCEPT ![t] = r]
        ks == IF tasks[t].token = NoToken THEN [resume_tokens EXCEPT ![k] = t]
                                          ELSE resume_tokens
        d  == SavePaused(disk, k, t, r)
    IN  /\ k \notin issued
        /\ issued' = issued \cup {k}
        /\ Commit(ts, ks, history,
                  TearPaused(disk, k) \cup {d} \cup TearActive(d, ts),
                  SaveActive(d, ts))
        /\ UNCHANGED <<lapsed, cleaned>>

\* Mutant of Suspend: the active file is written before the snapshot.
SuspendActiveFirst(t, k, status) ==
    LET r  == [tasks[t] EXCEPT !.status = status, !.token = k]
        ts == [tasks EXCEPT ![t] = r]
        d  == SaveActive(disk, ts)
    IN  /\ k \notin issued
        /\ issued' = issued \cup {k}
        /\ Commit(ts, [resume_tokens EXCEPT ![k] = t], history,
                  TearActive(disk, ts) \cup {d} \cup TearPaused(d, k),
                  SavePaused(d, k, t, r))
        /\ UNCHANGED <<lapsed, cleaned>>

\* The part pause() and await_approval() share: a new token, registered, with
\* the snapshot written before the active file.  A token the task already
\* holds stays registered and keeps its file.
Suspend(t, k, status) ==
    LET r  == [tasks[t] EXCEPT !.status = status, !.token = k]
        ts == [tasks EXCEPT ![t] = r]
        d  == SavePaused(disk, k, t, r)
    IN  /\ k \notin issued
        /\ issued' = issued \cup {k}
        /\ Commit(ts, [resume_tokens EXCEPT ![k] = t], history,
                  TearPaused(disk, k) \cup {d} \cup TearActive(d, ts),
                  SaveActive(d, ts))
        /\ UNCHANGED <<lapsed, cleaned>>

Pause(t, k) ==
    /\ up
    /\ tasks[t].status \in {"running", "waiting"}
    /\ Suspend(t, k, "paused")

\* await_approval() only asks that the task exists.
AwaitApproval(t, k) == up /\ Known(t) /\ Suspend(t, k, "awaiting_approval")

-----------------------------------------------------------------------------
(* resume(token, approved) *)

\* The task a token names: through the index, else from the token's file.
Indexed(k) == resume_tokens[k] # NoId
Target(k)  == IF Indexed(k) THEN resume_tokens[k] ELSE disk.paused[k].id
Subject(k) == IF Indexed(k) THEN tasks[resume_tokens[k]] ELSE disk.paused[k].task

Redeemable(k) ==
    /\ up
    /\ Indexed(k) \/ disk.paused[k].kind = "whole"
    /\ CanResume(Subject(k))

Expired(r) == r.token \in lapsed

\* Expired or denied: cancelled in memory and in the history, _cleanup_resume
\* after it, and no _persist_active; completed_at stays as it was.
Dismiss(k) ==
    LET t   == Target(k)
        r   == Subject(k)
        ts  == [tasks EXCEPT ![t] = [r EXCEPT !.status = "cancelled", !.token = NoToken]]
        log == Remember(history, <<[id |-> t, status |-> "cancelled"]>>)
        d   == SaveHistory(disk, log)
    IN  /\ Commit(ts, Pop(resume_tokens, r.token), log,
                  TearHistory(disk) \cup {d}, RemovePaused(d, r.token))
        /\ disk'.active = disk.active
        /\ Cleans({r.token})
        /\ UNCHANGED <<issued, lapsed>>

ResumeExpired(k) == Redeemable(k) /\ Expired(Subject(k)) /\ Dismiss(k)

ResumeDenied(k) == Redeemable(k) /\ ~Expired(Subject(k)) /\ Dismiss(k)

ResumeApproved(k) ==
    /\ Redeemable(k)
    /\ ~Expired(Subject(k))
    /\ LET t  == Target(k)
           r  == Subject(k)
           ts == [tasks EXCEPT ![t] = [r EXCEPT !.status = "running", !.token = NoToken]]
           d  == RemovePaused(disk, r.token)
       IN  /\ Commit(ts, Pop(resume_tokens, r.token), history,
                     {d} \cup TearActive(d, ts), SaveActive(d, ts))
           /\ Cleans({r.token})
    /\ UNCHANGED <<issued, lapsed>>

-----------------------------------------------------------------------------
(* Retry, step progress, removal *)

\* Mutant of Retry: the limit is not looked at.
RetryUnlimited(t) ==
    /\ up
    /\ tasks[t].status = "failed"
    /\ Persist([tasks EXCEPT ![t].status = "pending",
                             ![t].retries = @ + 1,
                             ![t].dated = FALSE])
    /\ UNCHANGED <<issued, lapsed, cleaned>>

Retry(t) ==
    /\ up
    /\ tasks[t].status = "failed"
    /\ tasks[t].retries < MaxRetries
    /\ Persist([tasks EXCEPT ![t].status = "pending",
                             ![t].retries = @ + 1,
                             ![t].dated = FALSE])
    /\ UNCHANGED <<issued, lapsed, cleaned>>

\* update() and update_step(): step results and progress are not modelled,
\* the save of everything else they cause is.
UpdateStep(t) ==
    /\ up
    /\ Known(t)
    /\ Persist(tasks)
    /\ UNCHANGED <<issued, lapsed, cleaned>>

Delete(t) ==
    /\ up
    /\ Known(t)
    /\ LET k  == tasks[t].token
           ts == [tasks EXCEPT ![t] = GoneTask]
           d  == RemovePaused(disk, k)
       IN  /\ Commit(ts, Pop(resume_tokens, k), history,
                     {d} \cup TearActive(d, ts), SaveActive(d, ts))
           /\ Cleans({k})
    /\ UNCHANGED <<issued, lapsed>>

\* cleanup_completed(): old is the set of finished tasks past the threshold.
\* A task without completed_at is passed over.
Cleanable == {t \in TaskId : Terminal(tasks[t]) /\ tasks[t].dated}

CleanupCompleted(old) ==
    /\ up
    /\ old # {}
    /\ old \subseteq Cleanable
    /\ Persist([t \in TaskId |-> IF t \in old THEN GoneTask ELSE tasks[t]])
    /\ UNCHANGED <<issued, lapsed, cleaned>>

-----------------------------------------------------------------------------
(* reconcile() *)

ReconcileExpired == {t \in TaskId : CanResume(tasks[t]) /\ Expired(tasks[t])}

Reconciled(t) ==
    CASE tasks[t].status = "running" -> [tasks[t] EXCEPT !.status = "pending"]
      [] t \in ReconcileExpired -> [tasks[t] EXCEPT !.status = "cancelled", !.token = NoToken]
      [] OTHER -> tasks[t]

\* The disk once the first n files are removed and m entries recorded, for the
\* expired tasks in the order the dictionary gives them.
ReconcileDisk(order, n, m) ==
    [disk EXCEPT
        !.paused  = [k \in Token |->
                        IF \E i \in 1..n : tasks[order[i]].token = k
                        THEN NoFile ELSE disk.paused[k]],
        !.history = Remember(history, [i \in 1..m |-> [id |-> order[i], status |-> "cancelled"]])]

\* Each expired task loses its token and file, then is recorded; the active
\* file is written once at the end.
Reconcile(order) ==
    LET n    == Cardinality(ReconcileExpired)
        ts   == [t \in TaskId |-> Reconciled(t)]
        last == ReconcileDisk(order, n, n)
    IN  /\ up
        /\ \A t \in ReconcileExpired : \E i \in 1..n : order[i] = t
        /\ Commit(ts,
                  [k \in Token |-> IF \E t \in ReconcileExpired : tasks[t].token = k
                                   THEN NoId ELSE resume_tokens[k]],
                  last.history,
                  (UNION {{ReconcileDisk(order, i, i - 1), ReconcileDisk(order, i, i)}
                             \cup TearHistory(ReconcileDisk(order, i, i - 1)) : i \in 1..n})
                      \cup TearActive(last, ts),
                  SaveActive(last, ts))
        /\ Cleans({tasks[t].token : t \in ReconcileExpired})
        /\ UNCHANGED <<issued, lapsed>>

-----------------------------------------------------------------------------
(* The process and the clock *)

Crash ==
    /\ up
    /\ "crash" \in Faults
    /\ Forget
    /\ UNCHANGED <<disk, issued, lapsed, cleaned>>

Whole == {k \in Token : disk.paused[k].kind = "whole"}

\* _load_active, then _load_paused with the files in loaded: a task missing from
\* the active file comes back from the first of its files.
Load(loaded, first) ==
    LET revived == {t \in TaskId : /\ disk.active[t].status \in Absent
                                   /\ \E k \in loaded : disk.paused[k].id = t}
    IN  /\ \A t \in revived : first[t] \in loaded /\ disk.paused[first[t]].id = t
        /\ tasks' = [t \in TaskId |-> IF t \in revived THEN disk.paused[first[t]].task
                                                       ELSE disk.active[t]]
        /\ resume_tokens' = [k \in Token |-> IF k \in loaded THEN disk.paused[k].id ELSE NoId]

\* __init__.  The loop over the paused files ends at the first that fails to
\* parse, in an order the file system chooses.
Restart ==
    /\ ~up
    /\ up' = TRUE
    /\ history' = disk.history
    /\ \E loaded \in SUBSET Whole, first \in [TaskId -> Token] :
          /\ (\A k \in Token : disk.paused[k].kind # "torn") => loaded = Whole
          /\ Load(loaded, first)
    /\ UNCHANGED <<disk, issued, lapsed, cleaned>>

\* expires_at of an issued token passes.
Lapse(k) ==
    /\ k \in issued \ lapsed
    /\ lapsed' = lapsed \cup {k}
    /\ UNCHANGED <<up, tasks, resume_tokens, history, disk, issued, cleaned>>

-----------------------------------------------------------------------------
Init ==
    /\ up = TRUE
    /\ tasks = NoTasks
    /\ resume_tokens = NoTokens
    /\ history = <<>>
    /\ disk = [active |-> NoTasks, history |-> <<>>, paused |-> [k \in Token |-> NoFile]]
    /\ issued = {}
    /\ lapsed = {}
    /\ cleaned = {}

Next ==
    \/ \E t \in TaskId : \/ Create(t) \/ Queue(t) \/ Start(t)
                         \/ Complete(t) \/ Fail(t) \/ Cancel(t)
                         \/ Retry(t) \/ UpdateStep(t) \/ Delete(t)
    \/ \E t \in TaskId, k \in Token : Pause(t, k) \/ AwaitApproval(t, k)
    \/ \E k \in Token : \/ ResumeExpired(k) \/ ResumeDenied(k) \/ ResumeApproved(k)
                        \/ Lapse(k)
    \/ \E old \in SUBSET TaskId : CleanupCompleted(old)
    \/ \E order \in [1..Cardinality(ReconcileExpired) -> ReconcileExpired] : Reconcile(order)
    \/ Crash
    \/ Restart

Spec == Init /\ [][Next]_vars
-----------------------------------------------------------------------------
(* Properties *)

\* Every variable holds what the registry and its files can hold.
TypeOK ==
    /\ up \in BOOLEAN
    /\ tasks \in [TaskId -> Task]
    /\ resume_tokens \in [Token -> TaskId \cup {NoId}]
    /\ history \in Seq(Entry)
    /\ disk \in Disk
    /\ issued \in SUBSET Token
    /\ lapsed \in SUBSET Token
    /\ cleaned \in SUBSET Token

\* resume(k) finds task t, through the index or, after a restart that missed it,
\* through its file.
Finds(k, t) ==
    /\ k \in Token
    /\ \/ resume_tokens[k] = t
       \/ ~Indexed(k) /\ disk.paused[k].kind = "whole" /\ disk.paused[k].id = t

\* A task that reads as suspended can be resumed with the token it carries, over
\* any number of restarts and wherever the process died, unless a call had set out
\* to clean that token up: the snapshot is written before the active file says
\* "paused" (pause, await_approval, _load_active, _load_paused).  The exception is
\* needed: dying in resume() between the unlink and _persist_active leaves a task
\* that reads as paused and that no token resumes.
PausedSurvives ==
    \A t \in TaskId : CanResume(tasks[t]) =>
        tasks[t].token \in cleaned \/ Finds(tasks[t].token, t)

\* In a process that has not been restarted a paused task can be resumed by the
\* token it carries, whatever other tokens for it are still around and whichever
\* writes have failed (pause, await_approval, resume, delete).
PausedIsResumable ==
    \A t \in TaskId : CanResume(tasks[t]) =>
        tasks[t].token \in Token /\ resume_tokens[tasks[t].token] = t

\* A task seen finished was recorded first: complete, fail, cancel, resume and
\* reconcile write the history before anything a restart could read as finished.
TerminalIsRecorded ==
    \A t \in TaskId : Terminal(tasks[t]) =>
        \/ Len(history) = MaxHistory
        \/ \E i \in 1..Len(history) : history[i] = [id |-> t, status |-> tasks[t].status]

=============================================================================
