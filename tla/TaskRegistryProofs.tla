------------------------- MODULE TaskRegistryProofs -------------------------
(* Theorems about TaskRegistry, for every set of tasks and tokens, every limit *)
(* and every choice of faults.                                                 *)
EXTENDS TaskRegistry, SequenceTheorems, FiniteSetTheorems, TLAPS

-----------------------------------------------------------------------------
(* What the operators return *)

LEMMA TaskTypes ==
    /\ NoTask \in Task /\ GoneTask \in Task /\ NewTask \in Task
    /\ NoTasks \in [TaskId -> Task]
    /\ NoTokens \in [Token -> TaskId \cup {NoId}]
    /\ NoFile \in PausedFile /\ TornFile \in PausedFile
<1>. 0 \in 0..MaxRetries
  BY TaskRegistryAssumption
<1>1. NoTask \in Task
  BY DEF NoTask, Task, Status, Absent
<1>2. GoneTask \in Task
  BY <1>1 DEF GoneTask, NoTask, Task, Status, Absent
<1>3. NewTask \in Task
  BY <1>1 DEF NewTask, NoTask, Task, Status
<1>4. NoTasks \in [TaskId -> Task] /\ NoTokens \in [Token -> TaskId \cup {NoId}]
  BY <1>1 DEF NoTasks, NoTokens
<1>5. NoFile \in PausedFile /\ TornFile \in PausedFile
  BY DEF NoFile, TornFile, PausedFile
<1>. QED  BY <1>1, <1>2, <1>3, <1>4, <1>5

LEMMA RememberType ==
    ASSUME NEW log \in Seq(Entry), NEW entries \in Seq(Entry)
    PROVE  Remember(log, entries) \in Seq(Entry)
<1> DEFINE all == log \o entries
<1>1. all \in Seq(Entry) /\ Len(all) \in Nat
  BY ConcatProperties, LenProperties
<1>2. CASE Len(all) > MaxHistory
  <2>1. Len(all) - MaxHistory + 1 \in 1..(Len(all) + 1) /\ Len(all) \in Nat
    BY <1>1, <1>2, TaskRegistryAssumption
  <2>2. SubSeq(all, Len(all) - MaxHistory + 1, Len(all)) \in Seq(Entry)
    BY <1>1, <2>1, SubSeqProperties
  <2>. QED  BY <1>2, <2>2 DEF Remember
<1>3. CASE ~(Len(all) > MaxHistory)
  BY <1>1, <1>3 DEF Remember
<1>. QED  BY <1>2, <1>3

LEMMA ActiveType ==
    ASSUME NEW d \in Disk, NEW ts \in [TaskId -> Task]
    PROVE  SaveActive(d, ts) \in Disk /\ TearActive(d, ts) \in SUBSET Disk
<1>1. [x \in TaskId |-> IF ts[x].status = "none" THEN NoTask ELSE GoneTask]
        \in [TaskId -> Task]
  BY TaskTypes
<1>2. SaveActive(d, ts) \in Disk
  BY DEF SaveActive, Disk
<1>3. TearActive(d, ts) \in SUBSET Disk
  BY <1>1 DEF TearActive, Emptied, Torn, Disk
<1>. QED  BY <1>2, <1>3

LEMMA HistoryType ==
    ASSUME NEW d \in Disk, NEW log \in Seq(Entry)
    PROVE  SaveHistory(d, log) \in Disk /\ TearHistory(d) \in SUBSET Disk
<1>1. << >> \in Seq(Entry)
  BY EmptySeq
<1>. QED  BY <1>1 DEF SaveHistory, TearHistory, Torn, Disk

LEMMA SavePausedType ==
    ASSUME NEW d \in Disk, NEW k \in Token, NEW t \in TaskId, NEW r \in Task
    PROVE  SavePaused(d, k, t, r) \in Disk /\ TearPaused(d, k) \in SUBSET Disk
<1>1. [kind |-> "whole", id |-> t, task |-> r] \in PausedFile
  BY DEF PausedFile
<1>2. SavePaused(d, k, t, r) \in Disk
  BY <1>1 DEF SavePaused, Disk
<1>3. TearPaused(d, k) \in SUBSET Disk
  BY TaskTypes DEF TearPaused, Torn, Disk
<1>. QED  BY <1>2, <1>3

LEMMA RemovePausedType ==
    ASSUME NEW d \in Disk, NEW c \in Token \cup {NoToken}
    PROVE  RemovePaused(d, c) \in Disk
BY TaskTypes DEF RemovePaused, Disk

\* The two saves leave the paused files alone.
LEMMA SaveKeepsPaused ==
    ASSUME NEW d \in Disk, NEW ts, NEW log
    PROVE  /\ SaveActive(d, ts).paused = d.paused
           /\ SaveHistory(d, log).paused = d.paused
BY DEF SaveActive, SaveHistory, Disk

LEMMA PopType ==
    ASSUME NEW ks \in [Token -> TaskId \cup {NoId}], NEW c \in Token \cup {NoToken}
    PROVE  Pop(ks, c) \in [Token -> TaskId \cup {NoId}]
BY DEF Pop

\* A call whose writes fail leaves each file as it meant to, as it found it, or
\* truncated.
LEMMA SpoiledFiles ==
    ASSUME NEW final, NEW d \in Spoiled(final)
    PROVE  /\ d = [active |-> d.active, history |-> d.history, paused |-> d.paused]
           /\ d.active \in {disk.active, Emptied(final.active), final.active}
           /\ d.history \in {disk.history, final.history, <<>>}
           /\ d.paused = [k \in Token |-> d.paused[k]]
           /\ \A k \in Token : d.paused[k] \in {disk.paused[k], final.paused[k], TornFile}
BY DEF Spoiled

LEMMA SpoiledType ==
    ASSUME disk \in Disk, NEW final \in Disk
    PROVE  Spoiled(final) \in SUBSET Disk
<1>1. Emptied(final.active) \in [TaskId -> Task] /\ <<>> \in Seq(Entry)
  BY TaskTypes, EmptySeq DEF Emptied
<1>2. ASSUME NEW d \in Spoiled(final) PROVE d \in Disk
  <2>1. d.active \in [TaskId -> Task] /\ d.history \in Seq(Entry)
    BY <1>1, SpoiledFiles DEF Disk
  <2>2. ASSUME NEW k \in Token PROVE d.paused[k] \in PausedFile
    <3>1. d.paused[k] \in {disk.paused[k], final.paused[k], TornFile}
      BY SpoiledFiles
    <3>2. disk.paused[k] \in PausedFile /\ final.paused[k] \in PausedFile
      BY DEF Disk
    <3>. QED  BY <3>1, <3>2, TaskTypes
  <2>3. d.paused \in [Token -> PausedFile]
    BY <2>2, SpoiledFiles
  <2>. QED  BY <2>1, <2>3, SpoiledFiles DEF Disk
<1>. QED  BY <1>2

LEMMA CleansType ==
    ASSUME TypeOK, NEW ks, Cleans(ks), ks \subseteq Token \cup {NoToken}
    PROVE  cleaned' \in SUBSET Token
BY DEF Cleans, TypeOK

-----------------------------------------------------------------------------
(* Every call keeps the types *)

\* The part of TypeOK that Commit decides.
CallTypeOK ==
    /\ up \in BOOLEAN
    /\ tasks \in [TaskId -> Task]
    /\ resume_tokens \in [Token -> TaskId \cup {NoId}]
    /\ history \in Seq(Entry)
    /\ disk \in Disk

LEMMA CommitType ==
    ASSUME disk \in Disk,
           NEW ts \in [TaskId -> Task],
           NEW ks \in [Token -> TaskId \cup {NoId}],
           NEW log \in Seq(Entry),
           NEW passed \in SUBSET Disk,
           NEW final \in Disk,
           Commit(ts, ks, log, passed, final)
    PROVE  CallTypeOK'
<1>1. CASE /\ up' = TRUE /\ tasks' = ts /\ resume_tokens' = ks /\ history' = log
           /\ disk' \in {final} \cup Spoiled(final)
  BY <1>1, SpoiledType DEF CallTypeOK
<1>2. CASE disk' \in passed /\ Forget
  BY <1>2, TaskTypes, EmptySeq DEF Forget, CallTypeOK
<1>. QED  BY <1>1, <1>2 DEF Commit

LEMMA PersistType ==
    ASSUME TypeOK, NEW ts \in [TaskId -> Task], Persist(ts)
    PROVE  CallTypeOK'
BY ActiveType, CommitType DEF Persist, TypeOK

LEMMA FinishType ==
    ASSUME TypeOK, NEW t \in TaskId, NEW status \in TerminalStatus, Finish(t, status)
    PROVE  TypeOK'
<1> DEFINE ts  == [tasks EXCEPT ![t].status = status, ![t].dated = TRUE]
           log == Remember(history, <<[id |-> t, status |-> status]>>)
           d   == SaveHistory(disk, log)
<1>1. ts \in [TaskId -> Task]
  BY DEF TypeOK, Task, Status
<1>2. log \in Seq(Entry)
  <2>1. <<[id |-> t, status |-> status]>> \in Seq(Entry)
    BY DEF Entry
  <2>. QED  BY <2>1, RememberType DEF TypeOK
<1>3. d \in Disk /\ TearHistory(disk) \in SUBSET Disk
  BY <1>2, HistoryType DEF TypeOK
<1>4. SaveActive(d, ts) \in Disk /\ TearActive(d, ts) \in SUBSET Disk
  BY <1>1, <1>3, ActiveType
<1> HIDE DEF ts, log, d
<1>5. CallTypeOK'
  <2>1. Commit(ts, resume_tokens, log, TearHistory(disk) \cup {d} \cup TearActive(d, ts),
               SaveActive(d, ts))
    BY DEF Finish, ts, log, d
  <2>2. TearHistory(disk) \cup {d} \cup TearActive(d, ts) \in SUBSET Disk
    BY <1>3, <1>4
  <2>. QED  BY <1>1, <1>2, <1>4, <2>1, <2>2, CommitType DEF TypeOK
<1>. QED  BY <1>5 DEF Finish, CallTypeOK, TypeOK

LEMMA SuspendType ==
    ASSUME TypeOK, NEW t \in TaskId, NEW k \in Token,
           NEW status \in ResumableStatus, Suspend(t, k, status)
    PROVE  TypeOK'
<1> DEFINE r  == [tasks[t] EXCEPT !.status = status, !.token = k]
           ts == [tasks EXCEPT ![t] = r]
           ks == [resume_tokens EXCEPT ![k] = t]
           d  == SavePaused(disk, k, t, r)
<1>1. r \in Task
  BY DEF TypeOK, Task, Status
<1>2. ts \in [TaskId -> Task] /\ ks \in [Token -> TaskId \cup {NoId}]
  BY <1>1 DEF TypeOK
<1>3. d \in Disk /\ TearPaused(disk, k) \in SUBSET Disk
  BY <1>1, SavePausedType DEF TypeOK
<1>4. SaveActive(d, ts) \in Disk /\ TearActive(d, ts) \in SUBSET Disk
  BY <1>2, <1>3, ActiveType
<1>5. Commit(ts, ks, history, TearPaused(disk, k) \cup {d} \cup TearActive(d, ts),
             SaveActive(d, ts))
  BY DEF Suspend
<1> HIDE DEF r, ts, ks, d
<1>6. TearPaused(disk, k) \cup {d} \cup TearActive(d, ts) \in SUBSET Disk
  BY <1>3, <1>4
<1>7. CallTypeOK'
  BY <1>2, <1>4, <1>5, <1>6, CommitType DEF TypeOK
<1>. QED  BY <1>7 DEF Suspend, CallTypeOK, TypeOK

\* The task a redeemable token names, and its record.
LEMMA SubjectType ==
    ASSUME TypeOK, NEW k \in Token, Redeemable(k)
    PROVE  Target(k) \in TaskId /\ Subject(k) \in Task
<1>1. CASE Indexed(k)
  BY <1>1 DEF Indexed, Target, Subject, TypeOK
<1>2. CASE ~Indexed(k) /\ disk.paused[k].kind = "whole"
  <2>1. disk.paused[k] \in PausedFile
    BY DEF TypeOK, Disk
  <2>2. disk.paused[k] \in [kind : {"whole"}, id : TaskId, task : Task]
    BY <1>2, <2>1 DEF PausedFile
  <2>. QED  BY <1>2, <2>2 DEF Target, Subject
<1>. QED  BY <1>1, <1>2 DEF Redeemable

LEMMA DismissType ==
    ASSUME TypeOK, NEW k \in Token, Redeemable(k), Dismiss(k)
    PROVE  TypeOK'
<1> DEFINE t   == Target(k)
           r   == Subject(k)
           ts  == [tasks EXCEPT ![t] = [r EXCEPT !.status = "cancelled", !.token = NoToken]]
           log == Remember(history, <<[id |-> t, status |-> "cancelled"]>>)
           d   == SaveHistory(disk, log)
<1>1. t \in TaskId /\ r \in Task /\ r.token \in Token \cup {NoToken}
  BY SubjectType DEF Task
<1>2. Commit(ts, Pop(resume_tokens, r.token), log,
             TearHistory(disk) \cup {d}, RemovePaused(d, r.token))
  BY DEF Dismiss
<1> HIDE DEF t, r
<1>3. ts \in [TaskId -> Task]
  BY <1>1 DEF TypeOK, Task, Status, TerminalStatus
<1>4. log \in Seq(Entry)
  <2>1. <<[id |-> t, status |-> "cancelled"]>> \in Seq(Entry)
    BY <1>1 DEF Entry, TerminalStatus
  <2>. QED  BY <2>1, RememberType DEF TypeOK
<1>5. d \in Disk /\ TearHistory(disk) \in SUBSET Disk
  BY <1>4, HistoryType DEF TypeOK
<1> HIDE DEF ts, log, d
<1>6. RemovePaused(d, r.token) \in Disk /\ Pop(resume_tokens, r.token) \in [Token -> TaskId \cup {NoId}]
  BY <1>1, <1>5, RemovePausedType, PopType DEF TypeOK
<1>7. TearHistory(disk) \cup {d} \in SUBSET Disk
  BY <1>5
<1>8. CallTypeOK'
  BY <1>2, <1>3, <1>4, <1>6, <1>7, CommitType DEF TypeOK
<1>9. cleaned' \in SUBSET Token
  BY <1>1, CleansType DEF Dismiss, t, r
<1>. QED  BY <1>8, <1>9 DEF Dismiss, CallTypeOK, TypeOK

LEMMA ResumeApprovedType ==
    ASSUME TypeOK, NEW k \in Token, ResumeApproved(k)
    PROVE  TypeOK'
<1> DEFINE t  == Target(k)
           r  == Subject(k)
           ts == [tasks EXCEPT ![t] = [r EXCEPT !.status = "running", !.token = NoToken]]
           d  == RemovePaused(disk, r.token)
<1>1. t \in TaskId /\ r \in Task /\ r.token \in Token \cup {NoToken}
  BY SubjectType DEF Task, ResumeApproved
<1>2. Commit(ts, Pop(resume_tokens, r.token), history,
             {d} \cup TearActive(d, ts), SaveActive(d, ts))
  BY DEF ResumeApproved
<1> HIDE DEF t, r
<1>3. ts \in [TaskId -> Task]
  BY <1>1 DEF TypeOK, Task, Status
<1>4. d \in Disk /\ Pop(resume_tokens, r.token) \in [Token -> TaskId \cup {NoId}]
  BY <1>1, RemovePausedType, PopType DEF TypeOK
<1> HIDE DEF ts, d
<1>5. SaveActive(d, ts) \in Disk /\ TearActive(d, ts) \in SUBSET Disk
  BY <1>3, <1>4, ActiveType
<1>6. {d} \cup TearActive(d, ts) \in SUBSET Disk
  BY <1>4, <1>5
<1>7. CallTypeOK'
  BY <1>2, <1>3, <1>4, <1>5, <1>6, CommitType DEF TypeOK
<1>8. cleaned' \in SUBSET Token
  BY <1>1, CleansType DEF ResumeApproved, t, r
<1>. QED  BY <1>7, <1>8 DEF ResumeApproved, CallTypeOK, TypeOK

LEMMA DeleteType ==
    ASSUME TypeOK, NEW t \in TaskId, Delete(t)
    PROVE  TypeOK'
<1> DEFINE k  == tasks[t].token
           ts == [tasks EXCEPT ![t] = GoneTask]
           d  == RemovePaused(disk, k)
<1>1. Commit(ts, Pop(resume_tokens, k), history, {d} \cup TearActive(d, ts), SaveActive(d, ts))
  BY DEF Delete
<1>2. k \in Token \cup {NoToken}
  BY DEF TypeOK, Task
<1>3. ts \in [TaskId -> Task]
  BY TaskTypes DEF TypeOK
<1>4. d \in Disk /\ Pop(resume_tokens, k) \in [Token -> TaskId \cup {NoId}]
  BY <1>2, RemovePausedType, PopType DEF TypeOK
<1> HIDE DEF k, ts, d
<1>5. SaveActive(d, ts) \in Disk /\ TearActive(d, ts) \in SUBSET Disk
  BY <1>3, <1>4, ActiveType
<1>6. {d} \cup TearActive(d, ts) \in SUBSET Disk
  BY <1>4, <1>5
<1>7. CallTypeOK'
  BY <1>1, <1>3, <1>4, <1>5, <1>6, CommitType DEF TypeOK
<1>8. cleaned' \in SUBSET Token
  BY <1>2, CleansType DEF Delete, k
<1>. QED  BY <1>7, <1>8 DEF Delete, CallTypeOK, TypeOK

LEMMA ReconciledType ==
    ASSUME TypeOK PROVE [t \in TaskId |-> Reconciled(t)] \in [TaskId -> Task]
<1>1. ASSUME NEW t \in TaskId PROVE Reconciled(t) \in Task
  <2>1. tasks[t] \in Task
    BY DEF TypeOK
  <2>2. [tasks[t] EXCEPT !.status = "pending"] \in Task
    BY <2>1 DEF Task, Status
  <2>3. [tasks[t] EXCEPT !.status = "cancelled", !.token = NoToken] \in Task
    BY <2>1 DEF Task, Status, TerminalStatus
  <2>. QED  BY <2>1, <2>2, <2>3 DEF Reconciled
<1>. QED  BY <1>1

LEMMA ReconcileDiskType ==
    ASSUME TypeOK,
           NEW order \in [1..Cardinality(ReconcileExpired) -> ReconcileExpired],
           Cardinality(ReconcileExpired) \in Nat,
           NEW i \in Nat, NEW m \in Nat, m <= Cardinality(ReconcileExpired)
    PROVE  ReconcileDisk(order, i, m) \in Disk
<1>1. [j \in 1..m |-> [id |-> order[j], status |-> "cancelled"]] \in Seq(Entry)
  <2>1. ASSUME NEW j \in 1..m
        PROVE  [id |-> order[j], status |-> "cancelled"] \in Entry
    <3>1. order[j] \in TaskId
      BY DEF ReconcileExpired
    <3>. QED  BY <3>1 DEF Entry, TerminalStatus
  <2>. QED  BY <2>1, IsASeq
<1>2. Remember(history, [j \in 1..m |-> [id |-> order[j], status |-> "cancelled"]]) \in Seq(Entry)
  BY <1>1, RememberType DEF TypeOK
<1>3. [k \in Token |-> IF \E j \in 1..i : tasks[order[j]].token = k
                       THEN NoFile ELSE disk.paused[k]] \in [Token -> PausedFile]
  BY TaskTypes DEF TypeOK, Disk
<1>. QED  BY <1>2, <1>3 DEF ReconcileDisk, TypeOK, Disk

LEMMA ReconcileType ==
    ASSUME TypeOK,
           NEW order \in [1..Cardinality(ReconcileExpired) -> ReconcileExpired],
           Reconcile(order)
    PROVE  TypeOK'
<1> DEFINE n    == Cardinality(ReconcileExpired)
           ts   == [t \in TaskId |-> Reconciled(t)]
           last == ReconcileDisk(order, n, n)
           ks   == [k \in Token |-> IF \E t \in ReconcileExpired : tasks[t].token = k
                                    THEN NoId ELSE resume_tokens[k]]
           passed == (UNION {{ReconcileDisk(order, i, i - 1), ReconcileDisk(order, i, i)}
                               \cup TearHistory(ReconcileDisk(order, i, i - 1)) : i \in 1..n})
                     \cup TearActive(last, ts)
<1>1. n \in Nat
  <2>1. IsFiniteSet(ReconcileExpired)
    BY TaskRegistryAssumption, FS_Subset DEF ReconcileExpired
  <2>. QED  BY <2>1, FS_CardinalityType
<1>2. ts \in [TaskId -> Task]
  BY ReconciledType
<1>3. ks \in [Token -> TaskId \cup {NoId}]
  BY DEF TypeOK
<1>4. ASSUME NEW i \in Nat, NEW m \in Nat, m <= n
      PROVE  ReconcileDisk(order, i, m) \in Disk
  BY <1>1, <1>4, ReconcileDiskType
<1>5. last \in Disk /\ last.history \in Seq(Entry)
  <2>1. n <= n
    BY <1>1
  <2>2. last \in Disk
    BY <1>1, <1>4, <2>1
  <2>. HIDE DEF last
  <2>. QED  BY <2>2 DEF Disk
<1>6. passed \in SUBSET Disk
  <2>1. ASSUME NEW i \in 1..n
        PROVE  {ReconcileDisk(order, i, i - 1), ReconcileDisk(order, i, i)}
                  \cup TearHistory(ReconcileDisk(order, i, i - 1)) \subseteq Disk
    <3>1. i \in Nat /\ i - 1 \in Nat /\ i <= n /\ i - 1 <= n
      BY <1>1
    <3>2. ReconcileDisk(order, i, i - 1) \in Disk /\ ReconcileDisk(order, i, i) \in Disk
      BY <1>4, <3>1
    <3>3. TearHistory(ReconcileDisk(order, i, i - 1)) \in SUBSET Disk
      BY <3>2, HistoryType, EmptySeq
    <3>. QED  BY <3>2, <3>3
  <2>2. TearActive(last, ts) \in SUBSET Disk
    BY <1>2, <1>5, ActiveType
  <2>. QED  BY <2>1, <2>2
<1>7. SaveActive(last, ts) \in Disk
  BY <1>2, <1>5, ActiveType
<1>8. Commit(ts, ks, last.history, passed, SaveActive(last, ts))
  BY DEF Reconcile
<1> HIDE DEF ts, ks, last, passed
<1>9. CallTypeOK'
  BY <1>2, <1>3, <1>5, <1>6, <1>7, <1>8, CommitType DEF TypeOK
<1>10. cleaned' \in SUBSET Token
  <2>1. {tasks[t].token : t \in ReconcileExpired} \subseteq Token \cup {NoToken}
    BY DEF ReconcileExpired, TypeOK, Task
  <2>. QED  BY <2>1, CleansType DEF Reconcile
<1>. QED  BY <1>9, <1>10 DEF Reconcile, CallTypeOK, TypeOK

LEMMA RestartType ==
    ASSUME TypeOK, Restart
    PROVE  TypeOK'
<1>1. ASSUME NEW k \in Whole
      PROVE  disk.paused[k].id \in TaskId /\ disk.paused[k].task \in Task
  <2>1. disk.paused[k] \in PausedFile /\ disk.paused[k].kind = "whole"
    BY DEF Whole, TypeOK, Disk
  <2>2. disk.paused[k] \in [kind : {"whole"}, id : TaskId, task : Task]
    BY <2>1 DEF PausedFile
  <2>. QED  BY <2>2
<1>2. PICK loaded \in SUBSET Whole, first \in [TaskId -> Token] : Load(loaded, first)
  BY DEF Restart
<1>3. tasks' \in [TaskId -> Task]
  BY <1>1, <1>2 DEF Load, TypeOK, Disk
<1>4. resume_tokens' \in [Token -> TaskId \cup {NoId}]
  BY <1>1, <1>2 DEF Load
<1>5. disk.history \in Seq(Entry)
  BY DEF TypeOK, Disk
<1>. QED  BY <1>3, <1>4, <1>5 DEF Restart, TypeOK

LEMMA TypeStep == TypeOK /\ [Next]_vars => TypeOK'
<1> SUFFICES ASSUME TypeOK, [Next]_vars PROVE TypeOK'
  OBVIOUS
<1>1. ASSUME NEW t \in TaskId, Create(t) PROVE TypeOK'
  <2>1. [tasks EXCEPT ![t] = NewTask] \in [TaskId -> Task]
    BY TaskTypes DEF TypeOK
  <2>. QED  BY <1>1, <2>1, PersistType DEF Create, CallTypeOK, TypeOK
<1>2. ASSUME NEW t \in TaskId, Queue(t) PROVE TypeOK'
  <2>1. [tasks EXCEPT ![t].status = "queued"] \in [TaskId -> Task]
    BY DEF TypeOK, Task, Status
  <2>. QED  BY <1>2, <2>1, PersistType DEF Queue, CallTypeOK, TypeOK
<1>3. ASSUME NEW t \in TaskId, Start(t) PROVE TypeOK'
  <2>1. [tasks EXCEPT ![t].status = "running"] \in [TaskId -> Task]
    BY DEF TypeOK, Task, Status
  <2>. QED  BY <1>3, <2>1, PersistType DEF Start, CallTypeOK, TypeOK
<1>4. ASSUME NEW t \in TaskId, Complete(t) \/ Fail(t) \/ Cancel(t) PROVE TypeOK'
  BY <1>4, FinishType DEF Complete, Fail, Cancel, TerminalStatus
<1>5. ASSUME NEW t \in TaskId, Retry(t) PROVE TypeOK'
  <2>1. tasks[t] \in Task /\ tasks[t].retries + 1 \in 0..MaxRetries
    BY <1>5, TaskRegistryAssumption DEF Retry, TypeOK, Task
  <2>2. [tasks EXCEPT ![t].status = "pending", ![t].retries = @ + 1, ![t].dated = FALSE]
          \in [TaskId -> Task]
    BY <2>1 DEF TypeOK, Task, Status
  <2>. QED  BY <1>5, <2>2, PersistType DEF Retry, CallTypeOK, TypeOK
<1>6. ASSUME NEW t \in TaskId, UpdateStep(t) PROVE TypeOK'
  BY <1>6, PersistType DEF UpdateStep, CallTypeOK, TypeOK
<1>7. ASSUME NEW t \in TaskId, Delete(t) PROVE TypeOK'
  BY <1>7, DeleteType
<1>8. ASSUME NEW t \in TaskId, NEW k \in Token, Pause(t, k) \/ AwaitApproval(t, k)
      PROVE TypeOK'
  BY <1>8, SuspendType DEF Pause, AwaitApproval, ResumableStatus
<1>9. ASSUME NEW k \in Token, ResumeExpired(k) \/ ResumeDenied(k) PROVE TypeOK'
  BY <1>9, DismissType DEF ResumeExpired, ResumeDenied
<1>10. ASSUME NEW k \in Token, ResumeApproved(k) PROVE TypeOK'
  BY <1>10, ResumeApprovedType
<1>11. ASSUME NEW k \in Token, Lapse(k) PROVE TypeOK'
  BY <1>11 DEF Lapse, TypeOK
<1>12. ASSUME NEW old \in SUBSET TaskId, CleanupCompleted(old) PROVE TypeOK'
  <2>1. [t \in TaskId |-> IF t \in old THEN GoneTask ELSE tasks[t]] \in [TaskId -> Task]
    BY TaskTypes DEF TypeOK
  <2>. QED  BY <1>12, <2>1, PersistType DEF CleanupCompleted, CallTypeOK, TypeOK
<1>13. ASSUME NEW order \in [1..Cardinality(ReconcileExpired) -> ReconcileExpired],
              Reconcile(order)
       PROVE  TypeOK'
  BY <1>13, ReconcileType
<1>14. CASE Crash
  BY <1>14, TaskTypes, EmptySeq DEF Crash, Forget, TypeOK
<1>15. CASE Restart
  BY <1>15, RestartType
<1>16. CASE UNCHANGED vars
  BY <1>16 DEF vars, TypeOK
<1>. QED
  BY <1>1, <1>2, <1>3, <1>4, <1>5, <1>6, <1>7, <1>8, <1>9, <1>10, <1>11, <1>12,
     <1>13, <1>14, <1>15, <1>16 DEF Next

\* The registry and its files always hold what TypeOK says, whatever is called,
\* in whatever order, and wherever the process dies.
THEOREM TypeCorrect == Spec => []TypeOK
<1>1. Init => TypeOK
  BY TaskTypes, EmptySeq DEF Init, TypeOK, Disk
<1>. QED  BY <1>1, TypeStep, PTL DEF Spec

-----------------------------------------------------------------------------
(* A suspended task keeps its way back *)

\* Every task that ts shows suspended carries a token that is being cleaned up or
\* whose file is whole and names the task.
FilesBack(ts, d, cl) ==
    \A t \in TaskId : CanResume(ts[t]) =>
        \/ ts[t].token \in cl
        \/ /\ ts[t].token \in Token
           /\ d.paused[ts[t].token].kind = "whole"
           /\ d.paused[ts[t].token].id = t

\* A whole snapshot is of an issued token and of a task that carries it.
Snapshots(ps, iss) ==
    \A k \in Token : ps[k].kind = "whole" => ps[k].task.token = k /\ k \in iss

\* What holds of the files at every moment a process may die.
DiskSound(d, cl, iss) == Snapshots(d.paused, iss) /\ FilesBack(d.active, d, cl)

\* A token the index knows has its file, for the same task.
Durable(ks, d) ==
    \A k \in Token : ks[k] # NoId => /\ d.paused[k].kind = "whole"
                                     /\ d.paused[k].id = ks[k]

\* The inductive invariant behind PausedSurvives.
SurvivalInv ==
    /\ DiskSound(disk, cleaned, issued)
    /\ FilesBack(tasks, disk, cleaned)
    /\ Durable(resume_tokens, disk)

LEMMA SurvivalIsEnough ==
    ASSUME SurvivalInv PROVE PausedSurvives
<1>1. ASSUME NEW t \in TaskId, CanResume(tasks[t]), tasks[t].token \notin cleaned
      PROVE  Finds(tasks[t].token, t)
  <2>1. /\ tasks[t].token \in Token
        /\ disk.paused[tasks[t].token].kind = "whole"
        /\ disk.paused[tasks[t].token].id = t
    BY <1>1 DEF SurvivalInv, FilesBack
  <2>. QED  BY <2>1 DEF SurvivalInv, Durable, Finds, Indexed
<1>. QED  BY <1>1 DEF PausedSurvives

LEMMA EmptyBacked ==
    ASSUME NEW d, NEW cl, NEW ts
    PROVE  FilesBack(NoTasks, d, cl) /\ FilesBack(Emptied(ts), d, cl)
BY DEF FilesBack, NoTasks, Emptied, GoneTask, NoTask, CanResume, ResumableStatus

\* A call keeps the invariant if every disk it may stop at is sound, and the memory
\* it returns with agrees with the last of them.
LEMMA CommitSurvives ==
    ASSUME "disk" \notin Faults, NEW ts, NEW ks, NEW log, NEW passed, NEW final,
           Commit(ts, ks, log, passed, final),
           Durable(ks, final), FilesBack(ts, final, cleaned'),
           DiskSound(final, cleaned', issued'),
           \A d \in passed : DiskSound(d, cleaned', issued')
    PROVE  SurvivalInv'
<1>1. CASE tasks' = ts /\ resume_tokens' = ks /\ disk' = final
  BY <1>1 DEF SurvivalInv, DiskSound, Snapshots, FilesBack, Durable, CanResume
<1>2. CASE disk' \in passed /\ Forget
  <2>1. FilesBack(NoTasks, disk', cleaned')
    BY EmptyBacked
  <2>2. DiskSound(disk', cleaned', issued')
    BY <1>2
  <2>. QED
    BY <1>2, <2>1, <2>2
    DEF Forget, NoTokens, SurvivalInv, DiskSound, Snapshots, FilesBack, Durable, CanResume
<1>. QED  BY <1>1, <1>2 DEF Commit

\* The last write of most calls: the active file, once the other files are those of
\* the disk d.
LEMMA ActiveSurvives ==
    ASSUME "disk" \notin Faults, NEW ts \in [TaskId -> Task], NEW ks, NEW log, NEW passed,
           NEW d \in Disk,
           Commit(ts, ks, log, passed \cup TearActive(d, ts), SaveActive(d, ts)),
           Durable(ks, d), FilesBack(ts, d, cleaned'), Snapshots(d.paused, issued'),
           \A e \in passed : DiskSound(e, cleaned', issued')
    PROVE  SurvivalInv'
<1>1. SaveActive(d, ts).paused = d.paused /\ SaveActive(d, ts).active = ts
  BY DEF SaveActive, Disk
<1>2. Durable(ks, SaveActive(d, ts))
  BY <1>1 DEF Durable
<1>3. FilesBack(ts, SaveActive(d, ts), cleaned')
  BY <1>1 DEF FilesBack
<1>4. DiskSound(SaveActive(d, ts), cleaned', issued')
  BY <1>1, <1>3 DEF DiskSound
<1>5. ASSUME NEW e \in TearActive(d, ts) PROVE DiskSound(e, cleaned', issued')
  <2>1. e.paused = d.paused /\ e.active = Emptied(ts)
    BY <1>5 DEF TearActive, Torn, Disk
  <2>2. FilesBack(Emptied(ts), e, cleaned')
    BY EmptyBacked
  <2>. QED  BY <2>1, <2>2 DEF DiskSound
<1>. QED  BY <1>2, <1>3, <1>4, <1>5, CommitSurvives

\* A call that suspends no task: those it leaves suspended are as they were.
Unsuspended(ts) == \A t \in TaskId : CanResume(ts[t]) => ts[t] = tasks[t]

LEMMA PersistSurvives ==
    ASSUME "disk" \notin Faults, TypeOK, SurvivalInv, UNCHANGED <<issued, cleaned>>,
           NEW ts \in [TaskId -> Task], Unsuspended(ts), Persist(ts)
    PROVE  SurvivalInv'
<1>1. FilesBack(ts, disk, cleaned') /\ Snapshots(disk.paused, issued')
  BY DEF Unsuspended, SurvivalInv, FilesBack, DiskSound
<1> DEFINE none == {}
<1>2. Commit(ts, resume_tokens, history, none \cup TearActive(disk, ts), SaveActive(disk, ts))
  <2>1. none \cup TearActive(disk, ts) = TearActive(disk, ts)
    OBVIOUS
  <2>. QED  BY <2>1 DEF Persist
<1>3. \A e \in none : DiskSound(e, cleaned', issued')
  OBVIOUS
<1> HIDE DEF none
<1>4. disk \in Disk /\ Durable(resume_tokens, disk)
  BY DEF SurvivalInv, TypeOK
<1>. QED  BY <1>1, <1>2, <1>3, <1>4, ActiveSurvives

\* The disk that Finish and Dismiss pass through differs in the history only.
LEMMA HistorySound ==
    ASSUME TypeOK, SurvivalInv, NEW log, NEW cl, cleaned \subseteq cl
    PROVE  \A d \in TearHistory(disk) \cup {SaveHistory(disk, log)} :
               DiskSound(d, cl, issued) /\ d.paused = disk.paused /\ d.active = disk.active
<1>1. ASSUME NEW d, d.paused = disk.paused, d.active = disk.active
      PROVE  DiskSound(d, cl, issued)
  BY <1>1 DEF SurvivalInv, DiskSound, FilesBack
<1>2. \A d \in TearHistory(disk) \cup {SaveHistory(disk, log)} :
          d.paused = disk.paused /\ d.active = disk.active
  BY DEF TearHistory, Torn, SaveHistory, TypeOK, Disk
<1>. QED  BY <1>1, <1>2

LEMMA FinishSurvives ==
    ASSUME "disk" \notin Faults, TypeOK, SurvivalInv, NEW t \in TaskId,
           NEW status \in TerminalStatus, Finish(t, status)
    PROVE  SurvivalInv'
<1> DEFINE ts  == [tasks EXCEPT ![t].status = status, ![t].dated = TRUE]
           log == Remember(history, <<[id |-> t, status |-> status]>>)
           d   == SaveHistory(disk, log)
<1>1. ts \in [TaskId -> Task]
  BY DEF TypeOK, Task, Status
<1>2. log \in Seq(Entry)
  <2>1. <<[id |-> t, status |-> status]>> \in Seq(Entry)
    BY DEF Entry
  <2>. QED  BY <2>1, RememberType DEF TypeOK
<1>3. d \in Disk /\ d.paused = disk.paused
  BY <1>2, HistoryType, SaveKeepsPaused DEF TypeOK
<1>4. Unsuspended(ts)
  BY DEF Unsuspended, TypeOK, Task, CanResume, ResumableStatus, TerminalStatus
<1>5. /\ Commit(ts, resume_tokens, log, (TearHistory(disk) \cup {d}) \cup TearActive(d, ts),
                SaveActive(d, ts))
      /\ UNCHANGED <<issued, cleaned>>
  BY DEF Finish
<1>6. \A e \in TearHistory(disk) \cup {d} : DiskSound(e, cleaned', issued')
  BY <1>5, HistorySound
<1> HIDE DEF ts, d
<1>7. FilesBack(ts, d, cleaned') /\ Durable(resume_tokens, d) /\ Snapshots(d.paused, issued')
  BY <1>3, <1>4, <1>5 DEF Unsuspended, SurvivalInv, FilesBack, Durable, DiskSound
<1>. QED  BY <1>1, <1>3, <1>5, <1>6, <1>7, ActiveSurvives

\* The snapshot is on the disk before the active file mentions its token.
LEMMA SuspendSurvives ==
    ASSUME "disk" \notin Faults, TypeOK, SurvivalInv, NEW t \in TaskId, NEW k \in Token,
           NEW status \in ResumableStatus, Suspend(t, k, status)
    PROVE  SurvivalInv'
<1> DEFINE r  == [tasks[t] EXCEPT !.status = status, !.token = k]
           ts == [tasks EXCEPT ![t] = r]
           ks == [resume_tokens EXCEPT ![k] = t]
           d  == SavePaused(disk, k, t, r)
<1>1. r \in Task /\ ts \in [TaskId -> Task] /\ r.token = k
  BY DEF TypeOK, Task, Status
<1>2. d \in Disk
  BY <1>1, SavePausedType DEF TypeOK
<1>3. /\ d.active = disk.active
      /\ \A c \in Token : d.paused[c] = IF c = k THEN [kind |-> "whole", id |-> t, task |-> r]
                                               ELSE disk.paused[c]
  BY DEF SavePaused, TypeOK, Disk
<1>4. /\ Commit(ts, ks, history, (TearPaused(disk, k) \cup {d}) \cup TearActive(d, ts),
                SaveActive(d, ts))
      /\ k \notin issued /\ issued' = issued \cup {k} /\ UNCHANGED cleaned
  BY DEF Suspend
<1>5. disk.paused[k].kind # "whole"
  BY <1>4 DEF SurvivalInv, DiskSound, Snapshots
<1> HIDE DEF d, r
<1>6. Snapshots(d.paused, issued')
  BY <1>1, <1>3, <1>4 DEF SurvivalInv, DiskSound, Snapshots
<1>7. ASSUME NEW us, FilesBack(us, disk, cleaned) PROVE FilesBack(us, d, cleaned')
  BY <1>3, <1>4, <1>5, <1>7 DEF FilesBack
<1>8. DiskSound(d, cleaned', issued')
  BY <1>3, <1>6, <1>7 DEF SurvivalInv, DiskSound
<1>9. ASSUME NEW e \in TearPaused(disk, k) PROVE DiskSound(e, cleaned', issued')
  <2>1. /\ e.active = disk.active
        /\ \A c \in Token : e.paused[c] = IF c = k THEN TornFile ELSE disk.paused[c]
    BY DEF TearPaused, Torn, TypeOK, Disk
  <2>2. FilesBack(e.active, e, cleaned')
    BY <1>4, <1>5, <2>1 DEF SurvivalInv, DiskSound, FilesBack
  <2>3. Snapshots(e.paused, issued')
    BY <1>4, <2>1 DEF SurvivalInv, DiskSound, Snapshots, TornFile
  <2>. QED  BY <2>2, <2>3 DEF DiskSound
<1>10. Durable(ks, d)
  BY <1>3 DEF SurvivalInv, Durable, TypeOK
<1>11. FilesBack(ts, d, cleaned')
  <2>1. FilesBack(tasks, d, cleaned')
    BY <1>7 DEF SurvivalInv
  <2>2. ASSUME NEW u \in TaskId, CanResume(ts[u])
        PROVE  \/ ts[u].token \in cleaned'
               \/ /\ ts[u].token \in Token
                  /\ d.paused[ts[u].token].kind = "whole"
                  /\ d.paused[ts[u].token].id = u
    <3>1. CASE u = t
      <4>1. ts[u].token = k
        BY <1>1, <3>1 DEF TypeOK
      <4>. QED  BY <1>3, <3>1, <4>1
    <3>2. CASE u # t
      <4>1. ts[u] = tasks[u]
        BY <3>2 DEF TypeOK
      <4>. QED  BY <2>1, <2>2, <4>1 DEF FilesBack
    <3>. QED  BY <3>1, <3>2
  <2> HIDE DEF ts
  <2>. QED  BY <2>2 DEF FilesBack
<1>12. \A e \in TearPaused(disk, k) \cup {d} : DiskSound(e, cleaned', issued')
  BY <1>8, <1>9
<1> HIDE DEF ts, ks
<1>. QED  BY <1>1, <1>2, <1>4, <1>6, <1>10, <1>11, <1>12, ActiveSurvives

\* A token that is being cleaned up backs nothing any more: its file may go.
LEMMA RemoveSound ==
    ASSUME TypeOK, SurvivalInv, NEW d \in Disk, NEW c \in Token \cup {NoToken},
           d.paused = disk.paused, NEW cl, cl = cleaned \cup ({c} \ {NoToken})
    PROVE  /\ RemovePaused(d, c) \in Disk
           /\ RemovePaused(d, c).active = d.active
           /\ Snapshots(RemovePaused(d, c).paused, issued)
           /\ Durable(Pop(resume_tokens, c), RemovePaused(d, c))
           /\ \A us : FilesBack(us, disk, cleaned) => FilesBack(us, RemovePaused(d, c), cl)
<1> DEFINE e == RemovePaused(d, c)
<1>1. e \in Disk /\ e.active = d.active
  BY RemovePausedType DEF RemovePaused, Disk
<1>2. \A k \in Token : e.paused[k] = IF k = c THEN NoFile ELSE disk.paused[k]
  BY TaskRegistryAssumption DEF RemovePaused, Disk
<1>3. \A k \in Token : Pop(resume_tokens, c)[k] = IF k = c THEN NoId ELSE resume_tokens[k]
  BY TaskRegistryAssumption DEF Pop, TypeOK
<1> HIDE DEF e
<1>4. Snapshots(e.paused, issued)
  BY <1>2 DEF NoFile, SurvivalInv, DiskSound, Snapshots
<1>5. Durable(Pop(resume_tokens, c), e)
  BY <1>2, <1>3 DEF SurvivalInv, Durable
<1>6. ASSUME NEW us, FilesBack(us, disk, cleaned) PROVE FilesBack(us, e, cl)
  BY <1>2, <1>6, TaskRegistryAssumption DEF FilesBack
<1>. QED  BY <1>1, <1>4, <1>5, <1>6 DEF e

LEMMA DismissSurvives ==
    ASSUME "disk" \notin Faults, TypeOK, SurvivalInv, NEW k \in Token, Redeemable(k), Dismiss(k)
    PROVE  SurvivalInv'
<1> DEFINE t   == Target(k)
           r   == Subject(k)
           ts  == [tasks EXCEPT ![t] = [r EXCEPT !.status = "cancelled", !.token = NoToken]]
           log == Remember(history, <<[id |-> t, status |-> "cancelled"]>>)
           d   == SaveHistory(disk, log)
           c   == r.token
<1>1. t \in TaskId /\ r \in Task /\ c \in Token \cup {NoToken}
  BY SubjectType DEF Task
<1>2. /\ Commit(ts, Pop(resume_tokens, c), log, TearHistory(disk) \cup {d}, RemovePaused(d, c))
      /\ UNCHANGED issued /\ cleaned' = cleaned \cup ({c} \ {NoToken})
  BY DEF Dismiss, Cleans
<1> HIDE DEF t, r
<1>3. log \in Seq(Entry)
  <2>1. <<[id |-> t, status |-> "cancelled"]>> \in Seq(Entry)
    BY <1>1 DEF Entry, TerminalStatus
  <2>. QED  BY <2>1, RememberType DEF TypeOK
<1>4. d \in Disk /\ d.paused = disk.paused /\ d.active = disk.active
  BY <1>3, HistoryType, HistorySound DEF TypeOK
<1>5. Unsuspended(ts)
  BY <1>1 DEF Unsuspended, TypeOK, Task, CanResume, ResumableStatus
<1>6. \A e \in TearHistory(disk) \cup {d} : DiskSound(e, cleaned', issued')
  BY <1>2, HistorySound
<1> HIDE DEF ts, d, c
<1>7. FilesBack(ts, disk, cleaned)
  BY <1>5 DEF Unsuspended, SurvivalInv, FilesBack
<1>8. /\ Snapshots(RemovePaused(d, c).paused, issued')
      /\ Durable(Pop(resume_tokens, c), RemovePaused(d, c))
      /\ RemovePaused(d, c).active = disk.active
      /\ FilesBack(ts, RemovePaused(d, c), cleaned')
      /\ FilesBack(disk.active, RemovePaused(d, c), cleaned')
  BY <1>1, <1>2, <1>4, <1>7, RemoveSound DEF SurvivalInv, DiskSound
<1>9. DiskSound(RemovePaused(d, c), cleaned', issued')
  BY <1>8 DEF DiskSound
<1>. QED  BY <1>2, <1>6, <1>8, <1>9, CommitSurvives

\* resume() with approval, and delete(): the file goes before the active file.
LEMMA RemovalSurvives ==
    ASSUME "disk" \notin Faults, TypeOK, SurvivalInv, NEW c \in Token \cup {NoToken},
           NEW ts \in [TaskId -> Task], Unsuspended(ts), NEW log,
           Commit(ts, Pop(resume_tokens, c), log,
                  {RemovePaused(disk, c)} \cup TearActive(RemovePaused(disk, c), ts),
                  SaveActive(RemovePaused(disk, c), ts)),
           Cleans({c}), UNCHANGED issued
    PROVE  SurvivalInv'
<1> DEFINE d == RemovePaused(disk, c)
<1>1. cleaned' = cleaned \cup ({c} \ {NoToken})
  BY DEF Cleans
<1>2. FilesBack(ts, disk, cleaned)
  BY DEF Unsuspended, SurvivalInv, FilesBack
<1>3. /\ d \in Disk /\ Snapshots(d.paused, issued') /\ Durable(Pop(resume_tokens, c), d)
      /\ d.active = disk.active
      /\ FilesBack(ts, d, cleaned') /\ FilesBack(disk.active, d, cleaned')
  BY <1>1, <1>2, RemoveSound DEF SurvivalInv, DiskSound, TypeOK
<1> HIDE DEF d
<1>4. DiskSound(d, cleaned', issued')
  BY <1>3 DEF DiskSound
<1>5. \A e \in {d} : DiskSound(e, cleaned', issued')
  BY <1>4
<1>6. Commit(ts, Pop(resume_tokens, c), log, {d} \cup TearActive(d, ts), SaveActive(d, ts))
  BY DEF d
<1>. QED  BY <1>3, <1>5, <1>6, ActiveSurvives

LEMMA ReconcileSurvives ==
    ASSUME "disk" \notin Faults, TypeOK, SurvivalInv,
           NEW order \in [1..Cardinality(ReconcileExpired) -> ReconcileExpired],
           Reconcile(order)
    PROVE  SurvivalInv'
<1> DEFINE n    == Cardinality(ReconcileExpired)
           ts   == [t \in TaskId |-> Reconciled(t)]
           last == ReconcileDisk(order, n, n)
           ks   == [k \in Token |-> IF \E t \in ReconcileExpired : tasks[t].token = k
                                    THEN NoId ELSE resume_tokens[k]]
           mid  == UNION {{ReconcileDisk(order, i, i - 1), ReconcileDisk(order, i, i)}
                            \cup TearHistory(ReconcileDisk(order, i, i - 1)) : i \in 1..n}
<1>1. /\ Commit(ts, ks, last.history, mid \cup TearActive(last, ts), SaveActive(last, ts))
      /\ \A t \in ReconcileExpired : \E i \in 1..n : order[i] = t
      /\ cleaned' = cleaned \cup ({tasks[t].token : t \in ReconcileExpired} \ {NoToken})
      /\ UNCHANGED issued
  BY DEF Reconcile, Cleans
<1>2. TypeOK' /\ last \in Disk /\ n \in Nat
  <2>1. TypeOK'
    BY TypeStep DEF Next
  <2>2. n \in Nat
    BY TaskRegistryAssumption, FS_Subset, FS_CardinalityType DEF ReconcileExpired
  <2>3. last \in Disk
    BY <2>2, ReconcileDiskType
  <2>. QED  BY <2>1, <2>2, <2>3
<1>3. ASSUME NEW i \in 0..n, NEW d, d.active = disk.active,
             d.paused = [k \in Token |-> IF \E j \in 1..i : tasks[order[j]].token = k
                                         THEN NoFile ELSE disk.paused[k]]
      PROVE  /\ Snapshots(d.paused, issued')
             /\ \A us : FilesBack(us, disk, cleaned) => FilesBack(us, d, cleaned')
  <2>1. \A j \in 1..i : order[j] \in ReconcileExpired
    BY <1>2
  <2>2. \A k \in Token : \/ d.paused[k] = NoFile /\ k \in cleaned'
                       \/ d.paused[k] = disk.paused[k]
    BY <1>1, <1>3, <2>1, TaskRegistryAssumption
  <2>3. Snapshots(d.paused, issued')
    BY <1>1, <2>2 DEF SurvivalInv, DiskSound, Snapshots, NoFile
  <2>4. ASSUME NEW us, FilesBack(us, disk, cleaned) PROVE FilesBack(us, d, cleaned')
    BY <1>1, <2>2, <2>4 DEF FilesBack
  <2>. QED  BY <2>3, <2>4
<1>4. ASSUME NEW d, d.active = disk.active, NEW i \in 0..n,
             d.paused = [k \in Token |-> IF \E j \in 1..i : tasks[order[j]].token = k
                                         THEN NoFile ELSE disk.paused[k]]
      PROVE  DiskSound(d, cleaned', issued')
  BY <1>3, <1>4 DEF SurvivalInv, DiskSound
<1>5. ASSUME NEW e \in mid PROVE DiskSound(e, cleaned', issued')
  <2>1. PICK i \in 1..n : e \in {ReconcileDisk(order, i, i - 1), ReconcileDisk(order, i, i)}
                                  \cup TearHistory(ReconcileDisk(order, i, i - 1))
    BY <1>5
  <2> DEFINE ps == [k \in Token |-> IF \E j \in 1..i : tasks[order[j]].token = k
                                    THEN NoFile ELSE disk.paused[k]]
  <2>2. i \in 0..n
    BY <1>2, SMTT(40)
  <2>3. \A m : ReconcileDisk(order, i, m).active = disk.active
              /\ ReconcileDisk(order, i, m).paused = ps
    BY DEF ReconcileDisk, TypeOK, Disk
  <2>4. ASSUME NEW d \in Disk, d.active = disk.active, d.paused = ps,
               NEW f \in TearHistory(d)
        PROVE  f.active = disk.active /\ f.paused = ps
    BY <2>4 DEF TearHistory, Torn, Disk
  <2>5. ReconcileDisk(order, i, i - 1) \in Disk
    <3>1. i \in Nat /\ i - 1 \in Nat /\ i - 1 <= n
      BY <1>2
    <3>. QED  BY <1>2, <3>1, ReconcileDiskType
  <2> HIDE DEF ps
  <2>6. e.active = disk.active /\ e.paused = ps
    BY <2>1, <2>3, <2>4, <2>5
  <2>. QED  BY <1>4, <2>2, <2>6 DEF ps
<1>6. /\ last.active = disk.active
      /\ last.paused = [k \in Token |-> IF \E j \in 1..n : tasks[order[j]].token = k
                                        THEN NoFile ELSE disk.paused[k]]
  BY DEF ReconcileDisk, TypeOK, Disk
<1>7. Unsuspended(ts)
  <2>1. ASSUME NEW t \in TaskId, CanResume(Reconciled(t)) PROVE Reconciled(t) = tasks[t]
    BY <2>1 DEF Reconciled, CanResume, ResumableStatus, TypeOK, Task
  <2>. QED  BY <2>1 DEF Unsuspended
<1>8. ts \in [TaskId -> Task]
  BY ReconciledType
<1> HIDE DEF ts, last, mid
<1>9. FilesBack(ts, disk, cleaned)
  BY <1>7 DEF Unsuspended, SurvivalInv, FilesBack
<1>10. n \in 0..n
  BY <1>2
<1>11. FilesBack(ts, last, cleaned') /\ Snapshots(last.paused, issued')
  BY <1>3, <1>6, <1>9, <1>10
<1>12. Durable(ks, last)
  <2>1. ASSUME NEW k \in Token, ks[k] # NoId
        PROVE  last.paused[k] = disk.paused[k] /\ ks[k] = resume_tokens[k]
    BY <1>2, <1>6, <2>1
  <2> HIDE DEF ks
  <2>. QED  BY <2>1 DEF SurvivalInv, Durable
<1> HIDE DEF ks
<1>. QED  BY <1>1, <1>2, <1>5, <1>8, <1>11, <1>12, ActiveSurvives

LEMMA RestartSurvives ==
    ASSUME TypeOK, SurvivalInv, Restart PROVE SurvivalInv'
<1>1. PICK loaded \in SUBSET Whole, first \in [TaskId -> Token] : Load(loaded, first)
  BY DEF Restart
<1>2. UNCHANGED <<disk, issued, cleaned>>
  BY SMTT(40) DEF Restart
<1>3. ASSUME NEW t \in TaskId, CanResume(tasks'[t])
      PROVE  \/ tasks'[t].token \in cleaned
             \/ /\ tasks'[t].token \in Token
                /\ disk.paused[tasks'[t].token].kind = "whole"
                /\ disk.paused[tasks'[t].token].id = t
  <2>1. CASE tasks'[t] = disk.active[t]
    BY <1>3, <2>1 DEF SurvivalInv, DiskSound, FilesBack
  <2>2. CASE /\ first[t] \in Whole /\ disk.paused[first[t]].id = t
             /\ tasks'[t] = disk.paused[first[t]].task
    <3>1. tasks'[t].token = first[t]
      BY <2>2 DEF Whole, SurvivalInv, DiskSound, Snapshots
    <3>. QED  BY <2>2, <3>1 DEF Whole
  <2>. QED  BY <1>1, <2>1, <2>2 DEF Load
<1>4. Durable(resume_tokens', disk)
  BY <1>1 DEF Load, Durable, Whole
<1>. QED
  BY <1>2, <1>3, <1>4 DEF SurvivalInv, DiskSound, Snapshots, FilesBack, Durable, CanResume

LEMMA SurvivalStep ==
    ASSUME "disk" \notin Faults, TypeOK, SurvivalInv, [Next]_vars
    PROVE  SurvivalInv'
<1>1. ASSUME NEW t \in TaskId, Create(t) PROVE SurvivalInv'
  <2> DEFINE ts == [tasks EXCEPT ![t] = NewTask]
  <2>1. ts \in [TaskId -> Task] /\ Unsuspended(ts)
    BY TaskTypes DEF TypeOK, Unsuspended, NewTask, NoTask, CanResume, ResumableStatus
  <2>. QED  BY <1>1, <2>1, PersistSurvives DEF Create
<1>2. ASSUME NEW t \in TaskId, Queue(t) PROVE SurvivalInv'
  <2> DEFINE ts == [tasks EXCEPT ![t].status = "queued"]
  <2>1. ts \in [TaskId -> Task] /\ Unsuspended(ts)
    BY DEF TypeOK, Task, Status, Unsuspended, CanResume, ResumableStatus
  <2>. QED  BY <1>2, <2>1, PersistSurvives DEF Queue
<1>3. ASSUME NEW t \in TaskId, Start(t) PROVE SurvivalInv'
  <2> DEFINE ts == [tasks EXCEPT ![t].status = "running"]
  <2>1. ts \in [TaskId -> Task] /\ Unsuspended(ts)
    BY DEF TypeOK, Task, Status, Unsuspended, CanResume, ResumableStatus
  <2>. QED  BY <1>3, <2>1, PersistSurvives DEF Start
<1>4. ASSUME NEW t \in TaskId, Complete(t) \/ Fail(t) \/ Cancel(t) PROVE SurvivalInv'
  BY <1>4, FinishSurvives DEF Complete, Fail, Cancel, TerminalStatus
<1>5. ASSUME NEW t \in TaskId, Retry(t) PROVE SurvivalInv'
  <2> DEFINE ts == [tasks EXCEPT ![t].status = "pending", ![t].retries = @ + 1, ![t].dated = FALSE]
  <2>1. tasks[t] \in Task /\ tasks[t].retries + 1 \in 0..MaxRetries
    BY <1>5, TaskRegistryAssumption DEF Retry, TypeOK, Task
  <2>2. ts \in [TaskId -> Task] /\ Unsuspended(ts)
    BY <2>1 DEF TypeOK, Task, Status, Unsuspended, CanResume, ResumableStatus
  <2>. QED  BY <1>5, <2>2, PersistSurvives DEF Retry
<1>6. ASSUME NEW t \in TaskId, UpdateStep(t) PROVE SurvivalInv'
  BY <1>6, PersistSurvives DEF UpdateStep, TypeOK, Unsuspended
<1>7. ASSUME NEW t \in TaskId, Delete(t) PROVE SurvivalInv'
  <2> DEFINE ts == [tasks EXCEPT ![t] = GoneTask]
  <2>1. ts \in [TaskId -> Task] /\ Unsuspended(ts) /\ tasks[t].token \in Token \cup {NoToken}
    BY TaskTypes DEF TypeOK, Task, Unsuspended, GoneTask, NoTask, CanResume, ResumableStatus
  <2>. QED  BY <1>7, <2>1, RemovalSurvives DEF Delete
<1>8. ASSUME NEW t \in TaskId, NEW k \in Token, Pause(t, k) \/ AwaitApproval(t, k)
      PROVE  SurvivalInv'
  BY <1>8, SuspendSurvives DEF Pause, AwaitApproval, ResumableStatus
<1>9. ASSUME NEW k \in Token, ResumeExpired(k) \/ ResumeDenied(k) PROVE SurvivalInv'
  BY <1>9, DismissSurvives DEF ResumeExpired, ResumeDenied
<1>10. ASSUME NEW k \in Token, ResumeApproved(k) PROVE SurvivalInv'
  <2> DEFINE r  == [Subject(k) EXCEPT !.status = "running", !.token = NoToken]
             ts == [tasks EXCEPT ![Target(k)] = r]
  <2>1. Target(k) \in TaskId /\ Subject(k) \in Task
    BY <1>10, SubjectType DEF ResumeApproved
  <2>2. r \in Task /\ ~CanResume(r) /\ Subject(k).token \in Token \cup {NoToken}
    BY <2>1 DEF Task, Status, CanResume, ResumableStatus
  <2>3. ts \in [TaskId -> Task] /\ Unsuspended(ts)
    BY <2>1, <2>2 DEF TypeOK, Unsuspended
  <2>. QED  BY <1>10, <2>2, <2>3, RemovalSurvives DEF ResumeApproved
<1>11. ASSUME NEW k \in Token, Lapse(k) PROVE SurvivalInv'
  BY <1>11 DEF Lapse, SurvivalInv, DiskSound, Snapshots, FilesBack, Durable, CanResume
<1>12. ASSUME NEW old \in SUBSET TaskId, CleanupCompleted(old) PROVE SurvivalInv'
  <2> DEFINE ts == [t \in TaskId |-> IF t \in old THEN GoneTask ELSE tasks[t]]
  <2>1. ts \in [TaskId -> Task] /\ Unsuspended(ts)
    BY TaskTypes DEF TypeOK, Unsuspended, GoneTask, NoTask, CanResume, ResumableStatus
  <2>. QED  BY <1>12, <2>1, PersistSurvives DEF CleanupCompleted
<1>13. ASSUME NEW order \in [1..Cardinality(ReconcileExpired) -> ReconcileExpired],
              Reconcile(order)
       PROVE  SurvivalInv'
  BY <1>13, ReconcileSurvives
<1>14. CASE Crash
  <2>1. FilesBack(NoTasks, disk, cleaned)
    BY EmptyBacked
  <2>. QED
    BY <1>14, <2>1
    DEF Crash, Forget, NoTokens, SurvivalInv, DiskSound, Snapshots, FilesBack, Durable, CanResume
<1>15. CASE Restart
  BY <1>15, RestartSurvives
<1>16. CASE UNCHANGED vars
  BY <1>16 DEF vars, SurvivalInv, DiskSound, Snapshots, FilesBack, Durable, CanResume
<1>. QED
  BY <1>1, <1>2, <1>3, <1>4, <1>5, <1>6, <1>7, <1>8, <1>9, <1>10, <1>11, <1>12,
     <1>13, <1>14, <1>15, <1>16 DEF Next

\* A task that reads as suspended, before or after any number of restarts, can be
\* resumed by its token unless a call had begun to clean that token up: wherever
\* the process dies, inside a call or inside a write, as long as no write fails in
\* a process that goes on.
THEOREM PausedTasksSurvive ==
    ASSUME "disk" \notin Faults PROVE Spec => []PausedSurvives
<1>1. Init => SurvivalInv
  <2> SUFFICES ASSUME Init PROVE SurvivalInv
    OBVIOUS
  <2>1. /\ tasks = NoTasks /\ resume_tokens = NoTokens /\ disk.active = NoTasks
        /\ \A k \in Token : disk.paused[k] = NoFile
    BY DEF Init
  <2>2. FilesBack(NoTasks, disk, cleaned)
    BY EmptyBacked
  <2>3. FilesBack(tasks, disk, cleaned) /\ FilesBack(disk.active, disk, cleaned)
    BY <2>1, <2>2
  <2>4. Snapshots(disk.paused, issued) /\ Durable(resume_tokens, disk)
    BY <2>1 DEF Snapshots, Durable, NoTokens, NoFile
  <2>. QED  BY <2>3, <2>4 DEF SurvivalInv, DiskSound
<1>2. TypeOK /\ SurvivalInv /\ [Next]_vars => SurvivalInv'
  BY SurvivalStep
<1>3. SurvivalInv => PausedSurvives
  BY SurvivalIsEnough
<1>. QED  BY <1>1, <1>2, <1>3, TypeCorrect, PTL DEF Spec

-----------------------------------------------------------------------------
(* A paused task can be resumed by the token it carries, while no process dies *)

\* The inductive invariant behind PausedIsResumable, of the memory ts, ks and the
\* tokens iss issued so far: a task that holds a token is the one the index names
\* for it (so no two tasks hold the same token), a suspended task holds one, and a
\* token in the index has been issued.  A snapshot may outlive its token, when its
\* removal failed, but it is still one of a task that carried that token.
Held(ts, ks, iss) ==
    /\ \A t \in TaskId : ts[t].token # NoToken => ks[ts[t].token] = t
    /\ \A t \in TaskId : CanResume(ts[t]) => ts[t].token # NoToken
    /\ \A k \in Token : ks[k] # NoId => k \in iss

TokensHeld == up /\ Held(tasks, resume_tokens, issued) /\ Snapshots(disk.paused, issued)

LEMMA HeldImpliesResumable ==
    ASSUME TypeOK, TokensHeld PROVE PausedIsResumable
BY DEF TypeOK, Task, TokensHeld, Held, PausedIsResumable

\* A call may leave a snapshot as it found it, truncate it, or write it.
LEMMA CommitHeld ==
    ASSUME Faults \subseteq {"disk"}, TokensHeld, issued \subseteq issued',
           NEW ts, NEW ks, NEW log, NEW passed, NEW final,
           Commit(ts, ks, log, passed, final),
           Held(ts, ks, issued'), Snapshots(final.paused, issued')
    PROVE  TokensHeld'
<1>1. /\ up' = TRUE /\ tasks' = ts /\ resume_tokens' = ks
      /\ disk' \in {final} \cup Spoiled(final)
  BY DEF Commit
<1>2. Snapshots(disk'.paused, issued')
  <2>1. ASSUME NEW k \in Token
        PROVE  disk'.paused[k] \in {disk.paused[k], final.paused[k], TornFile}
    BY <1>1, SpoiledFiles
  <2>. QED  BY <2>1 DEF TokensHeld, Snapshots, TornFile
<1>. QED  BY <1>1, <1>2 DEF TokensHeld, Held, Snapshots, CanResume

\* A call that only changes statuses, none of them to a suspended one, or that
\* drops tasks.
LEMMA PersistHeld ==
    ASSUME Faults \subseteq {"disk"}, TypeOK, TokensHeld, UNCHANGED issued,
           NEW ts \in [TaskId -> Task], Persist(ts),
           \A t \in TaskId : /\ ts[t].token \in {tasks[t].token, NoToken}
                             /\ CanResume(ts[t]) => ts[t] = tasks[t]
    PROVE  TokensHeld'
<1>1. SaveActive(disk, ts).paused = disk.paused
  BY SaveKeepsPaused DEF TypeOK
<1>2. Held(ts, resume_tokens, issued') /\ Snapshots(disk.paused, issued')
  BY DEF TokensHeld, Held, CanResume
<1>. QED  BY <1>1, <1>2, CommitHeld DEF Persist

LEMMA FinishHeld ==
    ASSUME Faults \subseteq {"disk"}, TypeOK, TokensHeld, NEW t \in TaskId,
           NEW status \in TerminalStatus, Finish(t, status)
    PROVE  TokensHeld'
<1> DEFINE ts  == [tasks EXCEPT ![t].status = status, ![t].dated = TRUE]
           log == Remember(history, <<[id |-> t, status |-> status]>>)
           d   == SaveHistory(disk, log)
<1>1. SaveActive(d, ts).paused = disk.paused
  BY DEF SaveHistory, SaveActive, TypeOK, Disk
<1>2. \A u \in TaskId : /\ ts[u].token = tasks[u].token
                        /\ CanResume(ts[u]) => CanResume(tasks[u])
  BY DEF TypeOK, Task, CanResume, ResumableStatus, TerminalStatus
<1> HIDE DEF ts
<1>3. Held(ts, resume_tokens, issued) /\ Snapshots(disk.paused, issued)
  BY <1>2 DEF TokensHeld, Held
<1>. QED  BY <1>1, <1>3, CommitHeld DEF Finish, ts

LEMMA SuspendHeld ==
    ASSUME Faults \subseteq {"disk"}, TypeOK, TokensHeld, NEW t \in TaskId, NEW k \in Token,
           NEW status \in ResumableStatus, Suspend(t, k, status)
    PROVE  TokensHeld'
<1> DEFINE r  == [tasks[t] EXCEPT !.status = status, !.token = k]
           ts == [tasks EXCEPT ![t] = r]
           ks == [resume_tokens EXCEPT ![k] = t]
           d  == SavePaused(disk, k, t, r)
           ps == [disk.paused EXCEPT ![k] = [kind |-> "whole", id |-> t, task |-> r]]
<1>1. SaveActive(d, ts).paused = ps
  BY DEF SaveActive, SavePaused, TypeOK, Disk
<1>2. /\ k \notin issued
      /\ issued' = issued \cup {k}
  BY DEF Suspend
<1>3. resume_tokens[k] = NoId
  BY <1>2 DEF TokensHeld, Held
<1>4. r.token = k /\ k # NoToken
  BY TaskRegistryAssumption DEF TypeOK, Task
<1>5. \A u \in TaskId : tasks[u].token # k
  BY <1>3, <1>4, TaskRegistryAssumption DEF TokensHeld, Held
<1>6. ASSUME NEW u \in TaskId, ts[u].token # NoToken PROVE ks[ts[u].token] = u
  <2>1. CASE u = t
    BY <1>4, <2>1 DEF TypeOK
  <2>2. CASE u # t
    BY <1>5, <1>6, <2>2 DEF TypeOK, Task, TokensHeld, Held
  <2>. QED  BY <2>1, <2>2
<1>7. ASSUME NEW u \in TaskId, CanResume(ts[u]) PROVE ts[u].token # NoToken
  BY <1>4, <1>7 DEF TypeOK, TokensHeld, Held
<1>8. \A c \in Token : ks[c] # NoId => c \in issued'
  BY <1>2 DEF TypeOK, TokensHeld, Held
<1>9. Snapshots(ps, issued')
  BY <1>2, <1>4 DEF TypeOK, Disk, TokensHeld, Snapshots
<1> HIDE DEF r, ts, ks, d, ps
<1>10. Held(ts, ks, issued')
  BY <1>6, <1>7, <1>8 DEF Held
<1>11. issued \subseteq issued'
  BY <1>2
<1>. QED  BY <1>1, <1>9, <1>10, <1>11, CommitHeld DEF Suspend, r, ts, ks, d

\* Taking away a token that only task t may hold disturbs no other task.
LEMMA ReleaseHeld ==
    ASSUME TypeOK, TokensHeld, NEW t \in TaskId, NEW r \in Task,
           r.token = NoToken, ~CanResume(r),
           NEW c \in Token \cup {NoToken},
           \A u \in TaskId \ {t} : tasks[u].token # NoToken => tasks[u].token # c
    PROVE  Held([tasks EXCEPT ![t] = r], Pop(resume_tokens, c), issued)
<1> DEFINE ts == [tasks EXCEPT ![t] = r]
           ks == Pop(resume_tokens, c)
<1>1. \A k \in Token : ks[k] = IF k = c THEN NoId ELSE resume_tokens[k]
  BY TaskRegistryAssumption DEF Pop, TypeOK
<1>2. ASSUME NEW u \in TaskId, ts[u].token # NoToken PROVE ks[ts[u].token] = u
  <2>1. u # t /\ ts[u] = tasks[u] /\ tasks[u].token \in Token
    BY <1>2 DEF TypeOK, Task
  <2>2. resume_tokens[tasks[u].token] = u
    BY <1>2, <2>1 DEF TokensHeld, Held
  <2>. QED  BY <1>1, <1>2, <2>1, <2>2
<1>3. ASSUME NEW u \in TaskId, CanResume(ts[u]) PROVE ts[u].token # NoToken
  BY <1>3 DEF TypeOK, TokensHeld, Held
<1>4. \A k \in Token : ks[k] # NoId => k \in issued
  BY <1>1 DEF TokensHeld, Held
<1> HIDE DEF ts, ks
<1>5. Held(ts, ks, issued)
  BY <1>2, <1>3, <1>4 DEF Held
<1>. QED  BY <1>5 DEF ts, ks

LEMMA RemovedSnapshots ==
    ASSUME TypeOK, TokensHeld, NEW d \in Disk, d.paused = disk.paused,
           NEW c \in Token \cup {NoToken}
    PROVE  Snapshots(RemovePaused(d, c).paused, issued)
BY DEF RemovePaused, Disk, NoFile, TokensHeld, Snapshots

\* The token resume() removes is held by the task it works on or by none: the index
\* names the holder, and a token that is not in the index is nobody's.
LEMMA SubjectHolds ==
    ASSUME TypeOK, TokensHeld, NEW k \in Token, Redeemable(k)
    PROVE  \A u \in TaskId \ {Target(k)} :
               tasks[u].token # NoToken => tasks[u].token # Subject(k).token
<1>1. CASE Indexed(k)
  BY <1>1, SubjectType DEF Indexed, Target, Subject, TokensHeld, Held, TypeOK
<1>2. CASE ~Indexed(k) /\ disk.paused[k].kind = "whole"
  <2>1. Subject(k).token = k
    BY <1>2 DEF Subject, TokensHeld, Snapshots
  <2>. QED  BY <1>2, <2>1, TaskRegistryAssumption DEF Indexed, TokensHeld, Held
<1>. QED  BY <1>1, <1>2 DEF Redeemable

LEMMA DismissHeld ==
    ASSUME Faults \subseteq {"disk"}, TypeOK, TokensHeld, NEW k \in Token,
           Redeemable(k), Dismiss(k)
    PROVE  TokensHeld'
<1> DEFINE t   == Target(k)
           r   == [Subject(k) EXCEPT !.status = "cancelled", !.token = NoToken]
           c   == Subject(k).token
           log == Remember(history, <<[id |-> t, status |-> "cancelled"]>>)
           d   == SaveHistory(disk, log)
<1>1. t \in TaskId /\ Subject(k) \in Task
  BY SubjectType
<1>2. c \in Token \cup {NoToken} /\ r \in Task /\ r.token = NoToken /\ ~CanResume(r)
  BY <1>1 DEF Task, Status, TerminalStatus, CanResume, ResumableStatus
<1>3. PICK passed : Commit([tasks EXCEPT ![t] = r], Pop(resume_tokens, c), log, passed,
                           RemovePaused(d, c))
  BY DEF Dismiss
<1>4. UNCHANGED issued
  BY DEF Dismiss
<1>5. d \in Disk /\ d.paused = disk.paused
  <2>1. <<[id |-> t, status |-> "cancelled"]>> \in Seq(Entry)
    BY <1>1 DEF Entry, TerminalStatus
  <2>2. log \in Seq(Entry)
    BY <2>1, RememberType DEF TypeOK
  <2> HIDE DEF log
  <2>. QED  BY <2>2, HistoryType, SaveKeepsPaused DEF TypeOK
<1>6. \A u \in TaskId \ {t} : tasks[u].token # NoToken => tasks[u].token # c
  BY SubjectHolds
<1> HIDE DEF t, r, c, d
<1>7. Snapshots(RemovePaused(d, c).paused, issued)
  BY <1>2, <1>5, RemovedSnapshots
<1>8. Held([tasks EXCEPT ![t] = r], Pop(resume_tokens, c), issued)
  BY <1>1, <1>2, <1>6, ReleaseHeld
<1>. QED  BY <1>3, <1>4, <1>7, <1>8, CommitHeld

LEMMA RemovalHeld ==
    ASSUME Faults \subseteq {"disk"}, TypeOK, TokensHeld, NEW t \in TaskId, NEW r \in Task,
           r.token = NoToken, ~CanResume(r),
           NEW c \in Token \cup {NoToken}, NEW log, NEW passed,
           \A u \in TaskId \ {t} : tasks[u].token # NoToken => tasks[u].token # c,
           Commit([tasks EXCEPT ![t] = r], Pop(resume_tokens, c), log, passed,
                  SaveActive(RemovePaused(disk, c), [tasks EXCEPT ![t] = r])),
           UNCHANGED issued
    PROVE  TokensHeld'
<1> DEFINE ts == [tasks EXCEPT ![t] = r]
<1>1. RemovePaused(disk, c) \in Disk
  BY RemovePausedType DEF TypeOK
<1>2. SaveActive(RemovePaused(disk, c), ts).paused = RemovePaused(disk, c).paused
  BY <1>1, SaveKeepsPaused
<1>3. Snapshots(SaveActive(RemovePaused(disk, c), ts).paused, issued)
  BY <1>2, RemovedSnapshots DEF TypeOK
<1>4. Held(ts, Pop(resume_tokens, c), issued)
  BY ReleaseHeld
<1> HIDE DEF ts
<1>5. Commit(ts, Pop(resume_tokens, c), log, passed, SaveActive(RemovePaused(disk, c), ts))
  BY DEF ts
<1>. QED  BY <1>3, <1>4, <1>5, CommitHeld

LEMMA ResumeApprovedHeld ==
    ASSUME Faults \subseteq {"disk"}, TypeOK, TokensHeld, NEW k \in Token, ResumeApproved(k)
    PROVE  TokensHeld'
<1> DEFINE t  == Target(k)
           r  == [Subject(k) EXCEPT !.status = "running", !.token = NoToken]
           c  == Subject(k).token
           ts == [tasks EXCEPT ![t] = r]
<1>1. t \in TaskId /\ Subject(k) \in Task
  BY SubjectType DEF ResumeApproved
<1>2. c \in Token \cup {NoToken} /\ r \in Task /\ r.token = NoToken /\ ~CanResume(r)
  BY <1>1 DEF Task, Status, CanResume, ResumableStatus
<1>3. PICK passed : Commit(ts, Pop(resume_tokens, c), history, passed,
                           SaveActive(RemovePaused(disk, c), ts))
  BY DEF ResumeApproved
<1>4. \A u \in TaskId \ {t} : tasks[u].token # NoToken => tasks[u].token # c
  BY SubjectHolds DEF ResumeApproved
<1>5. UNCHANGED issued
  BY DEF ResumeApproved
<1> HIDE DEF t, r, c
<1>. QED  BY <1>1, <1>2, <1>3, <1>4, <1>5, RemovalHeld

LEMMA DeleteHeld ==
    ASSUME Faults \subseteq {"disk"}, TypeOK, TokensHeld, NEW t \in TaskId, Delete(t)
    PROVE  TokensHeld'
<1> DEFINE c  == tasks[t].token
           ts == [tasks EXCEPT ![t] = GoneTask]
<1>1. PICK passed : Commit(ts, Pop(resume_tokens, c), history, passed,
                           SaveActive(RemovePaused(disk, c), ts))
  BY DEF Delete
<1>2. GoneTask \in Task /\ GoneTask.token = NoToken /\ ~CanResume(GoneTask)
  BY TaskTypes DEF GoneTask, NoTask, CanResume, ResumableStatus
<1>3. c \in Token \cup {NoToken}
  BY DEF TypeOK, Task
<1>4. \A u \in TaskId \ {t} : tasks[u].token # NoToken => tasks[u].token # c
  BY DEF TokensHeld, Held
<1>5. UNCHANGED issued
  BY DEF Delete
<1> HIDE DEF c
<1>. QED  BY <1>1, <1>2, <1>3, <1>4, <1>5, RemovalHeld

LEMMA ReconcileHeld ==
    ASSUME Faults \subseteq {"disk"}, TypeOK, TokensHeld,
           NEW order \in [1..Cardinality(ReconcileExpired) -> ReconcileExpired],
           Reconcile(order)
    PROVE  TokensHeld'
<1> DEFINE n    == Cardinality(ReconcileExpired)
           ts   == [t \in TaskId |-> Reconciled(t)]
           last == ReconcileDisk(order, n, n)
           ks   == [k \in Token |-> IF \E t \in ReconcileExpired : tasks[t].token = k
                                    THEN NoId ELSE resume_tokens[k]]
           ps   == [k \in Token |-> IF \E i \in 1..n : tasks[order[i]].token = k
                                    THEN NoFile ELSE disk.paused[k]]
<1>1. SaveActive(last, ts).paused = ps
  BY DEF SaveActive, ReconcileDisk, TypeOK, Disk
<1>2. PICK log, passed : Commit(ts, ks, log, passed, SaveActive(last, ts))
  BY DEF Reconcile
<1>3. \A t \in ReconcileExpired : \E i \in 1..n : order[i] = t
  BY DEF Reconcile
<1>4. ASSUME NEW t \in TaskId
      PROVE  /\ t \in ReconcileExpired => ts[t].token = NoToken /\ ~CanResume(ts[t])
             /\ t \notin ReconcileExpired => /\ ts[t].token = tasks[t].token
                                             /\ CanResume(ts[t]) => CanResume(tasks[t])
  BY DEF Reconciled, ReconcileExpired, CanResume, ResumableStatus, TypeOK, Task
<1> HIDE DEF ts, last
<1>5. ASSUME NEW t \in TaskId, ts[t].token # NoToken PROVE ks[ts[t].token] = t
  <2>1. t \notin ReconcileExpired /\ ts[t].token = tasks[t].token /\ tasks[t].token \in Token
    BY <1>4, <1>5 DEF TypeOK, Task
  <2>2. resume_tokens[tasks[t].token] = t
    BY <1>5, <2>1 DEF TokensHeld, Held
  <2>3. \A u \in ReconcileExpired : tasks[u].token # tasks[t].token
    BY <1>5, <2>1, <2>2 DEF TokensHeld, Held, ReconcileExpired
  <2>. QED  BY <2>1, <2>2, <2>3
<1>6. ASSUME NEW t \in TaskId, CanResume(ts[t]) PROVE ts[t].token # NoToken
  BY <1>4, <1>6 DEF TokensHeld, Held
<1>7. \A k \in Token : ks[k] # NoId => k \in issued
  BY DEF TokensHeld, Held
<1>8. Snapshots(ps, issued)
  BY DEF NoFile, TokensHeld, Snapshots
<1> HIDE DEF ks, ps
<1>9. Held(ts, ks, issued)
  BY <1>5, <1>6, <1>7 DEF Held
<1>. QED  BY <1>1, <1>2, <1>8, <1>9, CommitHeld DEF Reconcile

LEMMA HeldStep ==
    ASSUME Faults \subseteq {"disk"}, TypeOK, TokensHeld, [Next]_vars
    PROVE  TokensHeld'
<1>1. ASSUME NEW t \in TaskId, Create(t) PROVE TokensHeld'
  <2> DEFINE ts == [tasks EXCEPT ![t] = NewTask]
  <2>1. ts \in [TaskId -> Task]
    BY TaskTypes DEF TypeOK
  <2>2. NewTask.token = NoToken /\ ~CanResume(NewTask)
    BY DEF NewTask, NoTask, CanResume, ResumableStatus
  <2>. QED  BY <1>1, <2>1, <2>2, PersistHeld DEF Create, TypeOK
<1>2. ASSUME NEW t \in TaskId, Queue(t) PROVE TokensHeld'
  <2> DEFINE ts == [tasks EXCEPT ![t].status = "queued"]
  <2>1. ts \in [TaskId -> Task]
    BY DEF TypeOK, Task, Status
  <2>2. \A u \in TaskId : /\ ts[u].token \in {tasks[u].token, NoToken}
                          /\ CanResume(ts[u]) => ts[u] = tasks[u]
    BY DEF TypeOK, Task, CanResume, ResumableStatus
  <2>. QED  BY <1>2, <2>1, <2>2, PersistHeld DEF Queue
<1>3. ASSUME NEW t \in TaskId, Start(t) PROVE TokensHeld'
  <2> DEFINE ts == [tasks EXCEPT ![t].status = "running"]
  <2>1. ts \in [TaskId -> Task]
    BY DEF TypeOK, Task, Status
  <2>2. \A u \in TaskId : /\ ts[u].token \in {tasks[u].token, NoToken}
                          /\ CanResume(ts[u]) => ts[u] = tasks[u]
    BY DEF TypeOK, Task, CanResume, ResumableStatus
  <2>. QED  BY <1>3, <2>1, <2>2, PersistHeld DEF Start
<1>4. ASSUME NEW t \in TaskId, Complete(t) \/ Fail(t) \/ Cancel(t) PROVE TokensHeld'
  BY <1>4, FinishHeld DEF Complete, Fail, Cancel, TerminalStatus
<1>5. ASSUME NEW t \in TaskId, Retry(t) PROVE TokensHeld'
  <2> DEFINE ts == [tasks EXCEPT ![t].status = "pending", ![t].retries = @ + 1, ![t].dated = FALSE]
  <2>1. tasks[t] \in Task /\ tasks[t].retries + 1 \in 0..MaxRetries
    BY <1>5, TaskRegistryAssumption DEF Retry, TypeOK, Task
  <2>2. ts \in [TaskId -> Task]
    BY <2>1 DEF TypeOK, Task, Status
  <2>3. \A u \in TaskId : /\ ts[u].token \in {tasks[u].token, NoToken}
                          /\ CanResume(ts[u]) => ts[u] = tasks[u]
    BY DEF TypeOK, Task, CanResume, ResumableStatus
  <2>. QED  BY <1>5, <2>2, <2>3, PersistHeld DEF Retry
<1>6. ASSUME NEW t \in TaskId, UpdateStep(t) PROVE TokensHeld'
  BY <1>6, PersistHeld DEF UpdateStep, TypeOK
<1>7. ASSUME NEW t \in TaskId, Delete(t) PROVE TokensHeld'
  BY <1>7, DeleteHeld
<1>8. ASSUME NEW t \in TaskId, NEW k \in Token, Pause(t, k) \/ AwaitApproval(t, k)
      PROVE  TokensHeld'
  BY <1>8, SuspendHeld DEF Pause, AwaitApproval, ResumableStatus
<1>9. ASSUME NEW k \in Token, ResumeExpired(k) \/ ResumeDenied(k) PROVE TokensHeld'
  BY <1>9, DismissHeld DEF ResumeExpired, ResumeDenied
<1>10. ASSUME NEW k \in Token, ResumeApproved(k) PROVE TokensHeld'
  BY <1>10, ResumeApprovedHeld
<1>11. ASSUME NEW k \in Token, Lapse(k) PROVE TokensHeld'
  BY <1>11 DEF Lapse, TokensHeld, Held, Snapshots, CanResume
<1>12. ASSUME NEW old \in SUBSET TaskId, CleanupCompleted(old) PROVE TokensHeld'
  <2> DEFINE ts == [t \in TaskId |-> IF t \in old THEN GoneTask ELSE tasks[t]]
  <2>1. ts \in [TaskId -> Task]
    BY TaskTypes DEF TypeOK
  <2>2. GoneTask.token = NoToken /\ ~CanResume(GoneTask)
    BY DEF GoneTask, NoTask, CanResume, ResumableStatus
  <2>. QED  BY <1>12, <2>1, <2>2, PersistHeld DEF CleanupCompleted
<1>13. ASSUME NEW order \in [1..Cardinality(ReconcileExpired) -> ReconcileExpired],
              Reconcile(order)
       PROVE  TokensHeld'
  BY <1>13, ReconcileHeld
<1>14. CASE Crash
  BY <1>14 DEF Crash
<1>15. CASE Restart
  BY <1>15 DEF Restart, TokensHeld
<1>16. CASE UNCHANGED vars
  BY <1>16 DEF vars, TokensHeld, Held, Snapshots, CanResume
<1>. QED
  BY <1>1, <1>2, <1>3, <1>4, <1>5, <1>6, <1>7, <1>8, <1>9, <1>10, <1>11, <1>12,
     <1>13, <1>14, <1>15, <1>16 DEF Next

\* As long as the process lives, a suspended task can always be resumed by the
\* token it carries: no call on another task or on a superseded token, no cleanup
\* and no write or unlink that fails takes that token out of the index.
THEOREM PausedTasksAreResumable ==
    ASSUME Faults \subseteq {"disk"} PROVE Spec => []PausedIsResumable
<1>1. Init => TokensHeld
  BY DEF Init, TokensHeld, Held, Snapshots, NoTasks, NoTask, NoTokens, NoFile, CanResume,
         ResumableStatus
<1>2. TypeOK /\ TokensHeld /\ [Next]_vars => TokensHeld'
  BY HeldStep
<1>3. TypeOK /\ TokensHeld => PausedIsResumable
  BY HeldImpliesResumable
<1>. QED  BY <1>1, <1>2, <1>3, TypeCorrect, PTL DEF Spec
-----------------------------------------------------------------------------
(* What a restart reads as finished was recorded, unless a write is torn or fails *)

\* The history log holds the end of t, or is full and may have dropped it.
Recorded(log, t, status) ==
    \/ Len(log) = MaxHistory
    \/ \E i \in 1..Len(log) : log[i] = [id |-> t, status |-> status]

AllRecorded(ts, log) ==
    \A t \in TaskId : Terminal(ts[t]) => Recorded(log, t, ts[t].status)

\* Of the files: the tasks the active file calls finished are in the history file,
\* and no snapshot is of a finished task.
DiskRecorded(d) ==
    /\ Len(d.history) <= MaxHistory
    /\ AllRecorded(d.active, d.history)
    /\ \A k \in Token : d.paused[k].kind = "whole" => ~Terminal(d.paused[k].task)

\* The inductive invariant behind TerminalIsRecorded: the files agree at every
\* moment a process may die, memory and history file only between two calls.
RecordedInv ==
    /\ DiskRecorded(disk)
    /\ up => history = disk.history /\ AllRecorded(tasks, history)
    /\ ~up => tasks = NoTasks

\* Recording more never loses what the history answers for, and answers for each of
\* the new entries.
LEMMA RememberRecords ==
    ASSUME NEW log \in Seq(Entry), NEW entries \in Seq(Entry), Len(log) <= MaxHistory
    PROVE  /\ Len(Remember(log, entries)) <= MaxHistory
           /\ \A t, status : Recorded(log, t, status) => Recorded(Remember(log, entries), t, status)
           /\ \A i \in 1..Len(entries) :
                Recorded(Remember(log, entries), entries[i].id, entries[i].status)
<1> DEFINE all == log \o entries
<1>1. /\ all \in Seq(Entry) /\ Len(all) = Len(log) + Len(entries)
      /\ Len(log) \in Nat /\ Len(entries) \in Nat /\ MaxHistory \in Nat \ {0}
      /\ \A i \in 1..Len(log) : all[i] = log[i]
      /\ \A i \in 1..Len(entries) : all[Len(log) + i] = entries[i]
  BY ConcatProperties, LenProperties, TaskRegistryAssumption
<1> HIDE DEF all
<1>2. CASE Len(all) > MaxHistory
  <2>1. Len(all) - MaxHistory + 1 \in 1..(Len(all) + 1) /\ Len(all) \in Nat
    BY <1>1, <1>2
  <2>2. Len(SubSeq(all, Len(all) - MaxHistory + 1, Len(all))) = MaxHistory
    BY <1>1, <1>2, <2>1, SubSeqProperties
  <2>3. Remember(log, entries) = SubSeq(all, Len(all) - MaxHistory + 1, Len(all))
    BY <1>2 DEF Remember, all
  <2>. QED  BY <1>1, <2>2, <2>3 DEF Recorded
<1>3. CASE ~(Len(all) > MaxHistory)
  <2>1. Remember(log, entries) = all
    BY <1>3 DEF Remember, all
  <2>2. Len(all) <= MaxHistory
    BY <1>1, <1>3
  <2>3. ASSUME NEW t, NEW status, Recorded(log, t, status) PROVE Recorded(all, t, status)
    <3>1. CASE Len(log) = MaxHistory
      BY <1>1, <2>2, <3>1 DEF Recorded
    <3>2. CASE \E i \in 1..Len(log) : log[i] = [id |-> t, status |-> status]
      <4>1. PICK i \in 1..Len(log) : log[i] = [id |-> t, status |-> status]
        BY <3>2
      <4>2. i \in 1..Len(all) /\ all[i] = log[i]
        BY <1>1, <4>1
      <4>. QED  BY <4>1, <4>2 DEF Recorded
    <3>. QED  BY <2>3, <3>1, <3>2 DEF Recorded
  <2>4. ASSUME NEW i \in 1..Len(entries) PROVE Recorded(all, entries[i].id, entries[i].status)
    <3>1. Len(log) + i \in 1..Len(all) /\ all[Len(log) + i] = entries[i]
      BY <1>1
    <3>2. entries[i] \in Entry
      BY ElementOfSeq
    <3>3. entries[i] = [id |-> entries[i].id, status |-> entries[i].status]
      BY <3>2 DEF Entry
    <3>. QED  BY <3>1, <3>3 DEF Recorded
  <2>. QED  BY <2>1, <2>2, <2>3, <2>4
<1>. QED  BY <1>2, <1>3

LEMMA CommitRecorded ==
    ASSUME Faults \cap {"tear", "disk"} = {}, NEW ts, NEW ks, NEW log, NEW passed, NEW final,
           Commit(ts, ks, log, passed, final),
           DiskRecorded(final), final.history = log, AllRecorded(ts, log),
           \A d \in passed : DiskRecorded(d)
    PROVE  RecordedInv'
<1>1. CASE /\ up' = TRUE /\ tasks' = ts /\ history' = log /\ disk' = final
  BY <1>1 DEF RecordedInv, DiskRecorded, AllRecorded, Terminal, Recorded
<1>2. CASE disk' \in passed /\ Forget
  BY <1>2 DEF Forget, RecordedInv, DiskRecorded, AllRecorded, Terminal, Recorded
<1>. QED  BY <1>1, <1>2 DEF Commit

\* A call that writes the active file last, passing only through disks that differ
\* from the one it found in the history and the paused files.
LEMMA PersistRecorded ==
    ASSUME Faults \cap {"tear", "disk"} = {}, TypeOK, RecordedInv, up, NEW ts \in [TaskId -> Task],
           NEW ks, NEW passed, NEW d \in Disk, NEW log,
           DiskRecorded(d), d.history = log, AllRecorded(ts, log),
           \A e \in passed : DiskRecorded(e),
           Commit(ts, ks, log, passed \cup TearActive(d, ts), SaveActive(d, ts))
    PROVE  RecordedInv'
<1>1. TearActive(d, ts) = {}
  BY DEF TearActive, Torn
<1>2. /\ SaveActive(d, ts).active = ts
      /\ SaveActive(d, ts).history = log
      /\ SaveActive(d, ts).paused = d.paused
  BY DEF SaveActive, Disk
<1>3. DiskRecorded(SaveActive(d, ts))
  BY <1>2 DEF DiskRecorded
<1>. QED  BY <1>1, <1>2, <1>3, CommitRecorded

LEMMA FinishRecorded ==
    ASSUME Faults \cap {"tear", "disk"} = {}, TypeOK, RecordedInv, up, NEW t \in TaskId,
           NEW status \in TerminalStatus, Finish(t, status)
    PROVE  RecordedInv'
<1> DEFINE ts    == [tasks EXCEPT ![t].status = status, ![t].dated = TRUE]
           entry == [id |-> t, status |-> status]
           log   == Remember(history, <<entry>>)
           d     == SaveHistory(disk, log)
<1>1. ts \in [TaskId -> Task]
  BY DEF TypeOK, Task, Status
<1>2. entry \in Entry /\ <<entry>> \in Seq(Entry) /\ Len(<<entry>>) = 1 /\ <<entry>>[1] = entry
  BY DEF Entry
<1>3. log \in Seq(Entry)
  BY <1>2, RememberType DEF TypeOK
<1>4. /\ d \in Disk /\ d.history = log /\ d.active = disk.active /\ d.paused = disk.paused
      /\ TearHistory(disk) = {}
  BY <1>3, HistoryType DEF TypeOK, SaveHistory, Disk, TearHistory, Torn
<1>5. /\ history \in Seq(Entry) /\ Len(history) <= MaxHistory /\ history = disk.history
      /\ AllRecorded(tasks, history) /\ AllRecorded(disk.active, history)
  BY DEF TypeOK, RecordedInv, DiskRecorded
<1>6. /\ Len(log) <= MaxHistory
      /\ \A u, s : Recorded(history, u, s) => Recorded(log, u, s)
      /\ Recorded(log, t, status)
  <2>1. 1 \in 1..Len(<<entry>>)
    BY <1>2
  <2>. QED  BY <1>2, <1>5, <2>1, RememberRecords
<1>7. \A u \in TaskId : ts[u].status = IF u = t THEN status ELSE tasks[u].status
  BY DEF TypeOK, Task
<1>8. Commit(ts, resume_tokens, log, TearHistory(disk) \cup {d} \cup TearActive(d, ts), SaveActive(d, ts))
  BY DEF Finish
<1> HIDE DEF ts, entry, log, d
<1>9. AllRecorded(ts, log) /\ AllRecorded(disk.active, log)
  BY <1>5, <1>6, <1>7 DEF AllRecorded, Terminal
<1>10. DiskRecorded(d)
  BY <1>4, <1>6, <1>9 DEF RecordedInv, DiskRecorded
<1>11. Commit(ts, resume_tokens, log, {d} \cup TearActive(d, ts), SaveActive(d, ts))
  <2>1. TearHistory(disk) \cup {d} \cup TearActive(d, ts) = {d} \cup TearActive(d, ts)
    BY <1>4
  <2>. QED  BY <1>8, <2>1
<1>12. d.history = log /\ d \in Disk /\ \A e \in {d} : DiskRecorded(e)
  BY <1>4, <1>10
<1>. QED  BY <1>1, <1>9, <1>11, <1>12, PersistRecorded

\* A call that writes no history, leaves the paused files unfinished, and finishes
\* no task.
LEMMA QuietRecorded ==
    ASSUME Faults \cap {"tear", "disk"} = {}, TypeOK, RecordedInv, up, NEW ts \in [TaskId -> Task],
           NEW ks, NEW passed, NEW d \in Disk,
           \A t \in TaskId : Terminal(ts[t]) => ts[t].status = tasks[t].status,
           d.history = disk.history, d.active = disk.active,
           \A k \in Token : d.paused[k].kind = "whole" => ~Terminal(d.paused[k].task),
           passed \subseteq {d},
           Commit(ts, ks, history, passed \cup TearActive(d, ts), SaveActive(d, ts))
    PROVE  RecordedInv'
<1>1. DiskRecorded(d)
  BY DEF RecordedInv, DiskRecorded
<1>2. AllRecorded(ts, history)
  BY DEF RecordedInv, AllRecorded, Terminal
<1>3. d.history = history /\ \A e \in passed : DiskRecorded(e)
  BY <1>1 DEF RecordedInv
<1>. QED  BY <1>1, <1>2, <1>3, PersistRecorded

LEMMA SimplyRecorded ==
    ASSUME Faults \cap {"tear", "disk"} = {}, TypeOK, RecordedInv, up, NEW ts \in [TaskId -> Task],
           \A t \in TaskId : Terminal(ts[t]) => ts[t].status = tasks[t].status,
           Persist(ts)
    PROVE  RecordedInv'
<1> DEFINE none == {}
<1>1. Commit(ts, resume_tokens, history, none \cup TearActive(disk, ts), SaveActive(disk, ts))
  BY DEF Persist
<1>2. disk \in Disk /\ \A k \in Token : disk.paused[k].kind = "whole" => ~Terminal(disk.paused[k].task)
  BY DEF TypeOK, RecordedInv, DiskRecorded
<1>3. none \subseteq {disk}
  OBVIOUS
<1> HIDE DEF none
<1>. QED  BY <1>1, <1>2, <1>3, QuietRecorded

LEMMA SuspendRecorded ==
    ASSUME Faults \cap {"tear", "disk"} = {}, TypeOK, RecordedInv, up, NEW t \in TaskId, NEW k \in Token,
           NEW status \in ResumableStatus, Suspend(t, k, status)
    PROVE  RecordedInv'
<1> DEFINE r  == [tasks[t] EXCEPT !.status = status, !.token = k]
           ts == [tasks EXCEPT ![t] = r]
           ks == [resume_tokens EXCEPT ![k] = t]
           d  == SavePaused(disk, k, t, r)
<1>1. r \in Task /\ ~Terminal(r)
  BY DEF TypeOK, Task, Status, Terminal, TerminalStatus, ResumableStatus
<1>2. ts \in [TaskId -> Task] /\ d \in Disk
  BY <1>1, SavePausedType DEF TypeOK
<1>3. \A u \in TaskId : Terminal(ts[u]) => ts[u].status = tasks[u].status
  BY <1>1 DEF TypeOK
<1>4. d.history = disk.history /\ d.active = disk.active
  BY DEF SavePaused, TypeOK, Disk
<1>5. \A c \in Token : d.paused[c].kind = "whole" => ~Terminal(d.paused[c].task)
  <2>1. \A c \in Token : disk.paused[c].kind = "whole" => ~Terminal(disk.paused[c].task)
    BY DEF RecordedInv, DiskRecorded
  <2>2. \A c \in Token : d.paused[c] = IF c = k THEN [kind |-> "whole", id |-> t, task |-> r]
                                                ELSE disk.paused[c]
    BY DEF SavePaused, TypeOK, Disk
  <2>. HIDE DEF r, d
  <2>. QED  BY <1>1, <2>1, <2>2
<1>6. Commit(ts, ks, history, TearPaused(disk, k) \cup {d} \cup TearActive(d, ts), SaveActive(d, ts))
  BY DEF Suspend
<1> HIDE DEF r, ts, ks, d
<1>7. TearPaused(disk, k) \cup {d} \subseteq {d}
  BY DEF TearPaused, Torn
<1>. QED  BY <1>2, <1>3, <1>4, <1>5, <1>6, <1>7, QuietRecorded

\* Removing a file leaves only files that were there.
LEMMA RemoveRecorded ==
    ASSUME NEW d \in Disk, NEW c \in Token \cup {NoToken}
    PROVE  /\ RemovePaused(d, c).history = d.history
           /\ RemovePaused(d, c).active = d.active
           /\ (\A k \in Token : d.paused[k].kind = "whole" => ~Terminal(d.paused[k].task))
              => \A k \in Token : RemovePaused(d, c).paused[k].kind = "whole"
                                    => ~Terminal(RemovePaused(d, c).paused[k].task)
<1>1. CASE c = NoToken
  BY <1>1 DEF RemovePaused
<1>2. CASE c # NoToken
  <2>1. \A k \in Token : RemovePaused(d, c).paused[k] = IF k = c THEN NoFile ELSE d.paused[k]
    BY <1>2 DEF RemovePaused, Disk
  <2>2. NoFile.kind # "whole"
    BY DEF NoFile
  <2>3. RemovePaused(d, c).history = d.history /\ RemovePaused(d, c).active = d.active
    BY <1>2 DEF RemovePaused, Disk
  <2>. QED  BY <2>1, <2>2, <2>3
<1>. QED  BY <1>1, <1>2

LEMMA DismissRecorded ==
    ASSUME Faults \cap {"tear", "disk"} = {}, TypeOK, RecordedInv, up, NEW k \in Token,
           Redeemable(k), Dismiss(k)
    PROVE  RecordedInv'
<1> DEFINE t     == Target(k)
           r     == Subject(k)
           ts    == [tasks EXCEPT ![t] = [r EXCEPT !.status = "cancelled", !.token = NoToken]]
           entry == [id |-> t, status |-> "cancelled"]
           log   == Remember(history, <<entry>>)
           d     == SaveHistory(disk, log)
           final == RemovePaused(d, r.token)
<1>1. t \in TaskId /\ r \in Task /\ r.token \in Token \cup {NoToken}
  BY SubjectType DEF Task
<1>2. Commit(ts, Pop(resume_tokens, r.token), log, TearHistory(disk) \cup {d}, final)
  BY DEF Dismiss
<1> HIDE DEF t, r
<1>3. entry \in Entry /\ <<entry>> \in Seq(Entry) /\ Len(<<entry>>) = 1 /\ <<entry>>[1] = entry
  BY <1>1 DEF Entry, TerminalStatus
<1>4. log \in Seq(Entry)
  BY <1>3, RememberType DEF TypeOK
<1>5. /\ d \in Disk /\ d.history = log /\ d.active = disk.active /\ d.paused = disk.paused
      /\ TearHistory(disk) = {}
  BY <1>4, HistoryType DEF TypeOK, SaveHistory, Disk, TearHistory, Torn
<1>6. /\ history \in Seq(Entry) /\ Len(history) <= MaxHistory /\ history = disk.history
      /\ AllRecorded(tasks, history) /\ AllRecorded(disk.active, history)
  BY DEF TypeOK, RecordedInv, DiskRecorded
<1>7. /\ Len(log) <= MaxHistory
      /\ \A u, s : Recorded(history, u, s) => Recorded(log, u, s)
      /\ Recorded(log, t, "cancelled")
  <2>1. 1 \in 1..Len(<<entry>>)
    BY <1>3
  <2>. QED  BY <1>3, <1>6, <2>1, RememberRecords
<1>8. \A u \in TaskId : ts[u].status = IF u = t THEN "cancelled" ELSE tasks[u].status
  BY <1>1 DEF TypeOK, Task
<1> HIDE DEF ts, entry, log, d
<1>9. AllRecorded(ts, log) /\ AllRecorded(disk.active, log)
  BY <1>6, <1>7, <1>8 DEF AllRecorded, Terminal
<1>10. DiskRecorded(d)
  BY <1>5, <1>7, <1>9 DEF RecordedInv, DiskRecorded
<1>11. DiskRecorded(final) /\ final.history = log
  BY <1>1, <1>5, <1>10, RemoveRecorded DEF DiskRecorded
<1> HIDE DEF final
<1>12. \A e \in TearHistory(disk) \cup {d} : DiskRecorded(e)
  BY <1>5, <1>10
<1>. QED  BY <1>2, <1>9, <1>11, <1>12, CommitRecorded

LEMMA ReleaseRecorded ==
    ASSUME Faults \cap {"tear", "disk"} = {}, TypeOK, RecordedInv, up, NEW t \in TaskId, NEW r \in Task,
           ~Terminal(r), NEW c \in Token \cup {NoToken}, NEW ks,
           LET ts == [tasks EXCEPT ![t] = r]
               d  == RemovePaused(disk, c)
           IN  Commit(ts, ks, history, {d} \cup TearActive(d, ts), SaveActive(d, ts))
    PROVE  RecordedInv'
<1> DEFINE ts == [tasks EXCEPT ![t] = r]
           d  == RemovePaused(disk, c)
<1>1. ts \in [TaskId -> Task] /\ \A u \in TaskId : Terminal(ts[u]) => ts[u].status = tasks[u].status
  BY DEF TypeOK
<1>2. d \in Disk
  BY RemovePausedType DEF TypeOK
<1>3. /\ d.history = disk.history /\ d.active = disk.active
      /\ \A k \in Token : d.paused[k].kind = "whole" => ~Terminal(d.paused[k].task)
  BY RemoveRecorded DEF TypeOK, RecordedInv, DiskRecorded
<1>4. Commit(ts, ks, history, {d} \cup TearActive(d, ts), SaveActive(d, ts))
  OBVIOUS
<1> HIDE DEF ts, d
<1>. QED  BY <1>1, <1>2, <1>3, <1>4, QuietRecorded

LEMMA ReconcileRecorded ==
    ASSUME Faults \cap {"tear", "disk"} = {}, TypeOK, RecordedInv, up,
           NEW order \in [1..Cardinality(ReconcileExpired) -> ReconcileExpired],
           Reconcile(order)
    PROVE  RecordedInv'
<1> DEFINE n    == Cardinality(ReconcileExpired)
           ts   == [t \in TaskId |-> Reconciled(t)]
           last == ReconcileDisk(order, n, n)
           ks   == [k \in Token |-> IF \E t \in ReconcileExpired : tasks[t].token = k
                                    THEN NoId ELSE resume_tokens[k]]
           entries(m) == [i \in 1..m |-> [id |-> order[i], status |-> "cancelled"]]
           torn(i) == TearHistory(ReconcileDisk(order, i, i - 1))
           passed == UNION {{ReconcileDisk(order, i, i - 1), ReconcileDisk(order, i, i)}
                               \cup torn(i) : i \in 1..n}
<1>1. n \in Nat
  BY TaskRegistryAssumption, FS_Subset, FS_CardinalityType DEF ReconcileExpired
<1>2. ts \in [TaskId -> Task]
  <2>1. ASSUME NEW t \in TaskId PROVE Reconciled(t) \in Task
    <3>1. tasks[t] \in Task
      BY DEF TypeOK
    <3>2. [tasks[t] EXCEPT !.status = "pending"] \in Task
      BY <3>1 DEF Task, Status
    <3>3. [tasks[t] EXCEPT !.status = "cancelled", !.token = NoToken] \in Task
      BY <3>1 DEF Task, Status, TerminalStatus
    <3>. QED  BY <3>1, <3>2, <3>3 DEF Reconciled
  <2>. QED  BY <2>1
<1>3. /\ history \in Seq(Entry) /\ Len(history) <= MaxHistory /\ history = disk.history
      /\ AllRecorded(tasks, history) /\ AllRecorded(disk.active, history)
  BY DEF TypeOK, RecordedInv, DiskRecorded
<1>4. ASSUME NEW m \in Nat, m <= n
      PROVE  /\ entries(m) \in Seq(Entry) /\ Len(entries(m)) = m
             /\ \A i \in 1..m : entries(m)[i] = [id |-> order[i], status |-> "cancelled"]
  <2>1. ASSUME NEW i \in 1..m PROVE [id |-> order[i], status |-> "cancelled"] \in Entry
    <3>1. order[i] \in TaskId
      BY <1>1, <1>4 DEF ReconcileExpired
    <3>. QED  BY <3>1 DEF Entry, TerminalStatus
  <2>2. entries(m) \in [1..m -> Entry]
    BY <2>1
  <2>. QED  BY <1>4, <2>2, IsASeq
<1>5. ASSUME NEW i \in Nat, NEW m \in Nat, m <= n
      PROVE  /\ ReconcileDisk(order, i, m) \in Disk
             /\ DiskRecorded(ReconcileDisk(order, i, m))
             /\ ReconcileDisk(order, i, m).history = Remember(history, entries(m))
  <2> DEFINE d  == ReconcileDisk(order, i, m)
             ps == [k \in Token |-> IF \E j \in 1..i : tasks[order[j]].token = k
                                    THEN NoFile ELSE disk.paused[k]]
  <2>1. d.history = Remember(history, entries(m)) /\ d.active = disk.active /\ d.paused = ps
    BY DEF ReconcileDisk, TypeOK, Disk
  <2>2. Remember(history, entries(m)) \in Seq(Entry)
    BY <1>3, <1>4, <1>5, RememberType
  <2>3. ps \in [Token -> PausedFile]
    BY TaskTypes DEF TypeOK, Disk
  <2>4. d \in Disk
    BY <2>2, <2>3 DEF ReconcileDisk, TypeOK, Disk
  <2>5. /\ Len(Remember(history, entries(m))) <= MaxHistory
        /\ \A u, s : Recorded(history, u, s) => Recorded(Remember(history, entries(m)), u, s)
    BY <1>3, <1>4, <1>5, RememberRecords
  <2>6. \A k \in Token : ps[k].kind = "whole" => ~Terminal(ps[k].task)
    <3>1. \A k \in Token : disk.paused[k].kind = "whole" => ~Terminal(disk.paused[k].task)
      BY DEF RecordedInv, DiskRecorded
    <3>2. NoFile.kind # "whole"
      BY DEF NoFile
    <3>. QED  BY <3>1, <3>2
  <2> HIDE DEF d, ps
  <2>7. DiskRecorded(d)
    BY <1>3, <2>1, <2>5, <2>6 DEF DiskRecorded, AllRecorded
  <2>. QED  BY <2>1, <2>4, <2>7 DEF d
<1>6. \A t \in ReconcileExpired : \E i \in 1..n : order[i] = t
  BY DEF Reconcile
<1>7. Commit(ts, ks, last.history, passed \cup TearActive(last, ts), SaveActive(last, ts))
  BY DEF Reconcile
<1>8. last \in Disk /\ DiskRecorded(last) /\ last.history = Remember(history, entries(n))
  BY <1>1, <1>5
<1>9. ASSUME NEW t \in TaskId, Terminal(ts[t])
      PROVE  \/ t \in ReconcileExpired /\ ts[t].status = "cancelled"
             \/ ts[t].status = tasks[t].status
  BY <1>9 DEF Reconciled, Terminal, TerminalStatus, TypeOK, Task
<1>10. AllRecorded(ts, last.history)
  <2>1. ASSUME NEW t \in TaskId, Terminal(ts[t])
        PROVE  Recorded(Remember(history, entries(n)), t, ts[t].status)
    <3>1. entries(n) \in Seq(Entry) /\ Len(entries(n)) = n
      BY <1>1, <1>4
    <3>2. CASE t \in ReconcileExpired /\ ts[t].status = "cancelled"
      <4>1. PICK i \in 1..n : order[i] = t
        BY <1>6, <3>2
      <4>2. entries(n)[i].id = t /\ entries(n)[i].status = "cancelled"
        BY <4>1
      <4> HIDE DEF n, entries, ts
      <4>3. Recorded(Remember(history, entries(n)), entries(n)[i].id, entries(n)[i].status)
        BY <1>3, <3>1, RememberRecords
      <4>. QED  BY <3>2, <4>2, <4>3
    <3>3. CASE ts[t].status = tasks[t].status
      <4>1. Recorded(history, t, ts[t].status)
        BY <1>3, <2>1, <3>3 DEF AllRecorded, Terminal
      <4> HIDE DEF n, entries, ts
      <4>. QED  BY <1>3, <3>1, <4>1, RememberRecords
    <3>. QED  BY <1>9, <2>1, <3>2, <3>3
  <2>. QED  BY <1>8, <2>1 DEF AllRecorded
<1>11. \A e \in passed : DiskRecorded(e)
  <2>1. ASSUME NEW i \in 1..n
        PROVE  /\ DiskRecorded(ReconcileDisk(order, i, i - 1))
               /\ DiskRecorded(ReconcileDisk(order, i, i))
               /\ torn(i) = {}
    <3>1. i \in Nat /\ i - 1 \in Nat /\ i <= n /\ i - 1 <= n
      BY <1>1
    <3>2. torn(i) = {}
      BY DEF TearHistory, Torn
    <3>. QED  BY <1>5, <3>1, <3>2
  <2> HIDE DEF torn
  <2>. QED  BY <2>1
<1> HIDE DEF ts, ks, last, passed
<1>. QED  BY <1>2, <1>7, <1>8, <1>10, <1>11, PersistRecorded

LEMMA RestartRecorded ==
    ASSUME TypeOK, RecordedInv, Restart PROVE RecordedInv'
<1>1. PICK loaded \in SUBSET Whole, first \in [TaskId -> Token] : Load(loaded, first)
  BY DEF Restart
<1>2. ASSUME NEW t \in TaskId, Terminal(tasks'[t]) PROVE Recorded(disk.history, t, tasks'[t].status)
  <2>1. \/ tasks'[t] = disk.active[t]
        \/ first[t] \in loaded /\ tasks'[t] = disk.paused[first[t]].task
    BY <1>1 DEF Load
  <2>2. ~(first[t] \in loaded /\ tasks'[t] = disk.paused[first[t]].task)
    BY <1>2 DEF RecordedInv, DiskRecorded, Whole
  <2>. QED  BY <1>2, <2>1, <2>2 DEF RecordedInv, DiskRecorded, AllRecorded
<1>3. UNCHANGED disk /\ up' = TRUE /\ history' = disk.history
  BY DEF Restart
<1>. QED  BY <1>2, <1>3 DEF RecordedInv, DiskRecorded, AllRecorded, Recorded, Terminal

LEMMA RecordedStep ==
    ASSUME Faults \cap {"tear", "disk"} = {}, TypeOK, RecordedInv, [Next]_vars
    PROVE  RecordedInv'
<1>1. ASSUME NEW t \in TaskId, Create(t) PROVE RecordedInv'
  <2>1. [tasks EXCEPT ![t] = NewTask] \in [TaskId -> Task] /\ ~Terminal(NewTask)
    BY TaskTypes DEF TypeOK, NewTask, NoTask, Terminal, TerminalStatus
  <2>. QED  BY <1>1, <2>1, SimplyRecorded DEF Create, TypeOK
<1>2. ASSUME NEW t \in TaskId, Queue(t) PROVE RecordedInv'
  <2> DEFINE ts == [tasks EXCEPT ![t].status = "queued"]
  <2>1. ts \in [TaskId -> Task]
    BY DEF TypeOK, Task, Status
  <2>2. \A u \in TaskId : Terminal(ts[u]) => ts[u].status = tasks[u].status
    BY DEF TypeOK, Task, Terminal, TerminalStatus
  <2>. QED  BY <1>2, <2>1, <2>2, SimplyRecorded DEF Queue
<1>3. ASSUME NEW t \in TaskId, Start(t) PROVE RecordedInv'
  <2> DEFINE ts == [tasks EXCEPT ![t].status = "running"]
  <2>1. ts \in [TaskId -> Task]
    BY DEF TypeOK, Task, Status
  <2>2. \A u \in TaskId : Terminal(ts[u]) => ts[u].status = tasks[u].status
    BY DEF TypeOK, Task, Terminal, TerminalStatus
  <2>. QED  BY <1>3, <2>1, <2>2, SimplyRecorded DEF Start
<1>4. ASSUME NEW t \in TaskId, Complete(t) \/ Fail(t) \/ Cancel(t) PROVE RecordedInv'
  BY <1>4, FinishRecorded DEF Complete, Fail, Cancel, TerminalStatus
<1>5. ASSUME NEW t \in TaskId, Retry(t) PROVE RecordedInv'
  <2> DEFINE ts == [tasks EXCEPT ![t].status = "pending", ![t].retries = @ + 1, ![t].dated = FALSE]
  <2>1. tasks[t] \in Task /\ tasks[t].retries + 1 \in 0..MaxRetries
    BY <1>5, TaskRegistryAssumption DEF Retry, TypeOK, Task
  <2>2. ts \in [TaskId -> Task]
    BY <2>1 DEF TypeOK, Task, Status
  <2>3. \A u \in TaskId : Terminal(ts[u]) => ts[u].status = tasks[u].status
    BY DEF TypeOK, Task, Terminal, TerminalStatus
  <2>. QED  BY <1>5, <2>2, <2>3, SimplyRecorded DEF Retry
<1>6. ASSUME NEW t \in TaskId, UpdateStep(t) PROVE RecordedInv'
  BY <1>6, SimplyRecorded DEF UpdateStep, TypeOK
<1>7. ASSUME NEW t \in TaskId, Delete(t) PROVE RecordedInv'
  <2>1. tasks[t].token \in Token \cup {NoToken}
    BY DEF TypeOK, Task
  <2>2. GoneTask \in Task /\ ~Terminal(GoneTask)
    BY TaskTypes DEF GoneTask, NoTask, Terminal, TerminalStatus
  <2>. QED  BY <1>7, <2>1, <2>2, ReleaseRecorded DEF Delete
<1>8. ASSUME NEW t \in TaskId, NEW k \in Token, Pause(t, k) \/ AwaitApproval(t, k)
      PROVE  RecordedInv'
  BY <1>8, SuspendRecorded DEF Pause, AwaitApproval, ResumableStatus
<1>9. ASSUME NEW k \in Token, ResumeExpired(k) \/ ResumeDenied(k) PROVE RecordedInv'
  BY <1>9, DismissRecorded DEF ResumeExpired, ResumeDenied, Redeemable
<1>10. ASSUME NEW k \in Token, ResumeApproved(k) PROVE RecordedInv'
  <2> DEFINE r == [Subject(k) EXCEPT !.status = "running", !.token = NoToken]
  <2>1. Target(k) \in TaskId /\ Subject(k) \in Task
    BY <1>10, SubjectType DEF ResumeApproved
  <2>2. r \in Task /\ ~Terminal(r) /\ Subject(k).token \in Token \cup {NoToken}
    BY <2>1 DEF Task, Status, Terminal, TerminalStatus
  <2>. QED  BY <1>10, <2>1, <2>2, ReleaseRecorded DEF ResumeApproved, Redeemable
<1>11. ASSUME NEW k \in Token, Lapse(k) PROVE RecordedInv'
  BY <1>11 DEF Lapse, RecordedInv
<1>12. ASSUME NEW old \in SUBSET TaskId, CleanupCompleted(old) PROVE RecordedInv'
  <2> DEFINE ts == [t \in TaskId |-> IF t \in old THEN GoneTask ELSE tasks[t]]
  <2>1. ts \in [TaskId -> Task]
    BY TaskTypes DEF TypeOK
  <2>2. ~Terminal(GoneTask)
    BY DEF GoneTask, NoTask, Terminal, TerminalStatus
  <2>. QED  BY <1>12, <2>1, <2>2, SimplyRecorded DEF CleanupCompleted
<1>13. ASSUME NEW order \in [1..Cardinality(ReconcileExpired) -> ReconcileExpired],
              Reconcile(order)
       PROVE  RecordedInv'
  BY <1>13, ReconcileRecorded DEF Reconcile
<1>14. CASE Crash
  BY <1>14 DEF Crash, Forget, RecordedInv
<1>15. CASE Restart
  BY <1>15, RestartRecorded
<1>16. CASE UNCHANGED vars
  BY <1>16 DEF vars, RecordedInv
<1>. QED
  BY <1>1, <1>2, <1>3, <1>4, <1>5, <1>6, <1>7, <1>8, <1>9, <1>10, <1>11, <1>12,
     <1>13, <1>14, <1>15, <1>16 DEF Next

\* No task is seen finished, by a caller or by the process that starts after a
\* crash, unless the history answers for it: true whenever the process dies, inside
\* a call too, as long as no write of a file is torn and none fails.
THEOREM FinishedTasksAreRecorded ==
    ASSUME Faults \cap {"tear", "disk"} = {} PROVE Spec => []TerminalIsRecorded
<1>1. Init => RecordedInv
  <2>1. \A t \in TaskId : ~Terminal(NoTasks[t])
    BY DEF NoTasks, NoTask, Terminal, TerminalStatus
  <2>2. Len(<<>>) = 0
    BY EmptySeq
  <2>3. NoFile.kind # "whole"
    BY DEF NoFile
  <2>. QED  BY <2>1, <2>2, <2>3, TaskRegistryAssumption DEF Init, RecordedInv, DiskRecorded, AllRecorded
<1>2. TypeOK /\ RecordedInv /\ [Next]_vars => RecordedInv'
  BY RecordedStep
<1>3. RecordedInv => TerminalIsRecorded
  <2>1. \A t \in TaskId : ~Terminal(NoTasks[t])
    BY DEF NoTasks, NoTask, Terminal, TerminalStatus
  <2>2. CASE up
    BY <2>2 DEF RecordedInv, AllRecorded, Recorded, TerminalIsRecorded
  <2>3. CASE ~up
    BY <2>1, <2>3 DEF RecordedInv, TerminalIsRecorded
  <2>. QED  BY <2>2, <2>3
<1>. QED  BY <1>1, <1>2, <1>3, TypeCorrect, PTL DEF Spec
=============================================================================
