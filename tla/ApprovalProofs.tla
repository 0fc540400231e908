--------------------------- MODULE ApprovalProofs ---------------------------
(* Theorems about ApprovalQueue, for every number of requests, every set of     *)
(* approvers, every history limit and every choice of faults.                   *)
EXTENDS ApprovalQueue, SequenceTheorems, FiniteSetTheorems, TLAPS

-----------------------------------------------------------------------------
(* Types *)

\* A history no longer than its limit, and what may be found on disk.
Log        == {log \in Seq(Entry) : Len(log) <= MaxHistory}
Queue      == [RequestId -> Request]
SomeDisk   == {d \in Files : d.history \in Log}
SomeTold   == [RequestId -> SUBSET ApprovalStatus]

LEMMA NothingType ==
    /\ NoRequest \in Request
    /\ Nothing \in Queue
    /\ <<>> \in Log
<1>1. << >> \in Seq(Decision) /\ << >> \in Seq(Entry) /\ Len(<< >>) = 0
  BY EmptySeq
<1>2. << >> \in Log
  BY <1>1, ApprovalQueueAssumption DEF Log
<1>3. NoRequest \in Request
  BY <1>1 DEF NoRequest, Request
<1>. QED  BY <1>2, <1>3 DEF Nothing, Queue

\* Remember returns a history within its limit.
LEMMA RememberType ==
    ASSUME NEW log \in Seq(Entry), NEW entries \in Seq(Entry)
    PROVE  Remember(log, entries) \in Log
<1> DEFINE all == log \o entries
<1>1. all \in Seq(Entry) /\ Len(all) \in Nat
  BY ConcatProperties, LenProperties
<1>2. CASE Len(all) > MaxHistory
  <2>1. /\ Len(all) - MaxHistory + 1 \in 1..(Len(all) + 1)
        /\ Len(all) - (Len(all) - MaxHistory + 1) + 1 = MaxHistory
    BY <1>1, <1>2, ApprovalQueueAssumption
  <2>2. /\ SubSeq(all, Len(all) - MaxHistory + 1, Len(all)) \in Seq(Entry)
        /\ Len(SubSeq(all, Len(all) - MaxHistory + 1, Len(all))) = MaxHistory
    BY <1>1, <1>2, <2>1, SubSeqProperties, ApprovalQueueAssumption
  <2>. QED  BY <1>2, <2>2, ApprovalQueueAssumption DEF Remember, Log
<1>3. CASE ~(Len(all) > MaxHistory)
  BY <1>1, <1>3, ApprovalQueueAssumption DEF Remember, Log
<1>. QED  BY <1>2, <1>3

LEMMA SaveType ==
    ASSUME NEW d \in SomeDisk, NEW q \in Queue, NEW log \in Log
    PROVE  /\ SavePending(d, q) \in SomeDisk /\ SavePending(d, q).pending = q
           /\ SaveHistory(d, log) \in SomeDisk /\ SaveHistory(d, log).pending = d.pending
BY DEF SomeDisk, Files, Queue, SavePending, SaveHistory, Log

\* A decision leaves a well-formed request; a denial never approves it.
LEMMA DecisionType ==
    ASSUME NEW q \in Request, NEW a \in Approver, NEW yes \in BOOLEAN
    PROVE  /\ AddDecision(q, a, yes) \in Request
           /\ ~yes /\ q.status = "pending" => AddDecision(q, a, yes).status # "approved"
<1> DEFINE d == [by |-> a, approved |-> yes]
           decided == [q EXCEPT !.decisions = Append(@, d)]
<1>1. d \in Decision
  BY DEF Decision
<1>2. q.decisions \in Seq(Decision)
  BY DEF Request
<1>3. Append(q.decisions, d) \in Seq(Decision)
  BY <1>1, <1>2, AppendProperties
<1>4. decided \in Request
  <2>. HIDE DEF d
  <2>. QED  BY <1>3 DEF Request
<1>5. /\ [decided EXCEPT !.status = "denied"] \in Request
      /\ [decided EXCEPT !.status = "denied"].status = "denied"
      /\ [decided EXCEPT !.status = "approved"] \in Request
  <2>. HIDE DEF decided
  <2>. QED  BY <1>4 DEF Request, ApprovalStatus, Outcome
<1>6. \/ AddDecision(q, a, yes) = q
      \/ ~yes /\ AddDecision(q, a, yes) = [decided EXCEPT !.status = "denied"]
      \/ yes /\ AddDecision(q, a, yes) \in {decided, [decided EXCEPT !.status = "approved"]}
  BY Zenon DEF AddDecision
<1>. HIDE DEF decided
<1>. QED  BY <1>4, <1>5, <1>6

\* What a call may leave behind when it starts from a well-typed state.
Traces == [disk : SomeDisk, announced : SomeTold]

\* The part of the state a call commits.
Core ==
    /\ up \in BOOLEAN
    /\ queue \in Queue
    /\ history \in Log
    /\ disk \in SomeDisk
    /\ announced \in SomeTold
    /\ failures \in 0..MaxFailures
    /\ unsaved \subseteq RequestId

Rest ==
    /\ issued \in 0..MaxRequests
    /\ overdue \subseteq 1..issued
    /\ refusals \in [RequestId -> {"no", "writing", "refused", "lost"}]

LEMMA TypeParts == ApprovalTypeOK <=> Core /\ Rest
BY DEF ApprovalTypeOK, Core, Rest, Queue, Log, SomeDisk, SomeTold, Files

LEMMA TypePartsNext == ApprovalTypeOK' <=> Core' /\ Rest'
BY DEF ApprovalTypeOK, Core, Rest, Queue, Log, SomeDisk, SomeTold, Files

LEMMA TornType ==
    ASSUME NEW d \in SomeDisk, NEW told \in SomeTold
    PROVE  Torn(d, told) \subseteq Traces
BY DEF Torn, Trace, Traces

\* What a write leaves of a well-typed disk is well typed, and is what was
\* written unless a write may still fail.
LEMMA WriteType ==
    ASSUME NEW d \in SomeDisk, NEW q \in Queue, NEW log \in Log
    PROVE  /\ PendingWrites(d, q) \subseteq SomeDisk
           /\ HistoryWrites(d, log) \subseteq SomeDisk
           /\ \A e \in PendingWrites(d, q) :
                 /\ e.pending \in {q, d.pending, Nothing} /\ e.history = d.history
                 /\ e = SavePending(d, q) \/ failures < MaxFailures
           /\ \A e \in HistoryWrites(d, log) :
                 /\ e.history \in {log, d.history, <<>>} /\ e.pending = d.pending
                 /\ e = SaveHistory(d, log) \/ failures < MaxFailures
<1>1. /\ SavePending(d, q) \in SomeDisk /\ SavePending(d, Nothing) \in SomeDisk
      /\ SaveHistory(d, log) \in SomeDisk /\ SaveHistory(d, <<>>) \in SomeDisk
  BY SaveType, NothingType
<1>2. /\ SavePending(d, q).pending = q /\ SavePending(d, q).history = d.history
      /\ SavePending(d, Nothing).pending = Nothing
      /\ SavePending(d, Nothing).history = d.history
      /\ SaveHistory(d, log).history = log /\ SaveHistory(d, log).pending = d.pending
      /\ SaveHistory(d, <<>>).history = <<>> /\ SaveHistory(d, <<>>).pending = d.pending
  BY DEF SomeDisk, Files, SavePending, SaveHistory
<1>3. /\ \A e \in PendingWrites(d, q) :
            \/ e = SavePending(d, q)
            \/ failures < MaxFailures /\ e \in {d, SavePending(d, Nothing)}
      /\ \A e \in HistoryWrites(d, log) :
            \/ e = SaveHistory(d, log)
            \/ failures < MaxFailures /\ e \in {d, SaveHistory(d, <<>>)}
  BY Zenon DEF PendingWrites, HistoryWrites, Written
<1>. QED  BY <1>1, <1>2, <1>3

LEMMA MissingType == Missing' \subseteq RequestId
BY DEF Missing

LEMMA CommitType ==
    ASSUME Core, NEW q \in Queue, NEW log \in Log, NEW passed \in SUBSET Traces,
           NEW final \in Traces, NEW meant,
           final.disk = meant \/ failures < MaxFailures,
           Commit(q, log, passed, final, meant)
    PROVE  Core'
<1>1. /\ up' \in BOOLEAN /\ queue' \in Queue /\ history' \in Log
      /\ disk' \in SomeDisk /\ announced' \in SomeTold
  BY NothingType DEF Commit, Forget, Traces
<1>2. failures' \in 0..MaxFailures /\ unsaved' \subseteq RequestId
  BY MissingType, ApprovalQueueAssumption DEF Commit, Core
<1>. QED  BY <1>1, <1>2 DEF Core

LEMMA TrackType ==
    ASSUME NEW rs \in [RequestId -> {"no", "writing", "refused", "lost"}], Track(rs)
    PROVE  refusals' \in [RequestId -> {"no", "writing", "refused", "lost"}]
BY DEF Track

LEMMA PersistType ==
    ASSUME ApprovalTypeOK, NEW q \in Queue, PersistPending(q)
    PROVE  Core'
<1>1. Core /\ disk \in SomeDisk /\ announced \in SomeTold /\ history \in Log
  BY TypeParts DEF Core
<1>2. SavePending(disk, Nothing) \in SomeDisk
  BY <1>1, SaveType, NothingType
<1>3. Torn(SavePending(disk, Nothing), announced) \in SUBSET Traces
  BY <1>1, <1>2, TornType
<1>4. PICK d \in PendingWrites(disk, q) :
          Commit(q, history, Torn(SavePending(disk, Nothing), announced),
                 Trace(d, announced), SavePending(disk, q))
  BY DEF PersistPending
<1>5. d \in SomeDisk /\ (d = SavePending(disk, q) \/ failures < MaxFailures)
  BY <1>1, <1>4, WriteType
<1>6. Trace(d, announced) \in Traces /\ Trace(d, announced).disk = d
  BY <1>1, <1>5 DEF Trace, Traces
<1>. QED  BY <1>1, <1>3, <1>4, <1>5, <1>6, CommitType

LEMMA FinalizeType ==
    ASSUME ApprovalTypeOK, NEW r \in RequestId, NEW outcome \in Request,
           NEW seen \in ApprovalStatus, FinalizeRequest(r, outcome, seen)
    PROVE  Core'
<1> DEFINE q     == [queue EXCEPT ![r] = NoRequest]
           log   == Remember(history, <<[id |-> r, request |-> outcome]>>)
           told  == Announce(announced, r, seen)
           meant == SaveHistory(SavePending(disk, q), log)
           passed(gone, saved) ==
               Torn(SavePending(disk, Nothing), announced)
                 \cup {Trace(gone, announced)}
                 \cup Torn(SaveHistory(gone, <<>>), announced)
                 \cup {Trace(saved, announced)}
<1>1. Core /\ disk \in SomeDisk /\ announced \in SomeTold /\ history \in Log /\ queue \in Queue
  BY TypeParts DEF Core
<1>2. q \in Queue
  BY <1>1, NothingType DEF Queue
<1>3. log \in Log
  <2>1. [id |-> r, request |-> outcome] \in Entry
    BY DEF Entry
  <2>2. <<[id |-> r, request |-> outcome]>> \in Seq(Entry)
    BY <2>1
  <2>3. history \in Seq(Entry)
    BY <1>1 DEF Log
  <2>. QED  BY <2>2, <2>3, RememberType
<1>4. PICK gone \in PendingWrites(disk, q) : \E saved \in HistoryWrites(gone, log) :
          Commit(q, log, passed(gone, saved), Trace(saved, told), meant)
  BY DEF FinalizeRequest
<1>5. PICK saved \in HistoryWrites(gone, log) :
          Commit(q, log, passed(gone, saved), Trace(saved, told), meant)
  BY <1>4
<1>. HIDE DEF q, log
<1>6. /\ gone \in SomeDisk /\ SavePending(disk, Nothing) \in SomeDisk
      /\ gone = SavePending(disk, q) \/ failures < MaxFailures
  BY <1>1, <1>2, <1>3, <1>4, SaveType, WriteType, NothingType
<1>7. /\ saved \in SomeDisk /\ SaveHistory(gone, <<>>) \in SomeDisk
      /\ saved = SaveHistory(gone, log) \/ failures < MaxFailures
  BY <1>2, <1>3, <1>5, <1>6, SaveType, WriteType, NothingType
<1>8. told \in SomeTold
  BY <1>1 DEF Announce, SomeTold
<1>9. passed(gone, saved) \in SUBSET Traces
  <2>1. Trace(gone, announced) \in Traces /\ Trace(saved, announced) \in Traces
    BY <1>1, <1>6, <1>7 DEF Trace, Traces
  <2>. QED  BY <2>1, <1>1, <1>6, <1>7, TornType
<1>10. Trace(saved, told) \in Traces /\ Trace(saved, told).disk = saved
  BY <1>7, <1>8 DEF Trace, Traces
<1>11. saved = meant \/ failures < MaxFailures
  BY <1>6, <1>7
<1>. HIDE DEF told, meant, passed
<1>. QED  BY <1>1, <1>2, <1>3, <1>5, <1>9, <1>10, <1>11, CommitType

\* What the statuses of a settled request make of it.
LEMMA OutcomeType ==
    ASSUME NEW q \in Request
    PROVE  /\ [q EXCEPT !.status = "expired"] \in Request
           /\ [q EXCEPT !.status = "expired"].status = "expired"
           /\ [q EXCEPT !.status = "cancelled"] \in Request
           /\ [q EXCEPT !.status = "cancelled"].status = "cancelled"
           /\ [q EXCEPT !.status = "denied"] \in Request
           /\ [q EXCEPT !.status = "denied"].status = "denied"
BY DEF Request, ApprovalStatus, Outcome

\* A request with any of its statuses is one.
LEMMA StatusType ==
    ASSUME NEW q \in Request, NEW s \in ApprovalStatus
    PROVE  [q EXCEPT !.status = s] \in Request /\ [q EXCEPT !.status = s].status = s
BY DEF Request

\* However the refusal falls, Settle finalizes the request with its outcome or
\* with the status "denied" in its place, and announces one of the two.
LEMMA SettleCases ==
    ASSUME NEW r \in RequestId, NEW outcome \in Request, outcome.status # "none",
           refusals \in [RequestId -> {"no", "writing", "refused", "lost"}],
           Settle(r, outcome)
    PROVE  /\ \E kept \in {outcome, [outcome EXCEPT !.status = "denied"]},
                seen \in {outcome.status, "denied"} :
                  kept \in Request /\ seen \in ApprovalStatus /\ FinalizeRequest(r, kept, seen)
           /\ \E rs \in [RequestId -> {"no", "writing", "refused", "lost"}] : Track(rs)
<1>1. outcome.status \in ApprovalStatus /\ "denied" \in ApprovalStatus
  BY DEF Request, ApprovalStatus, Outcome
<1>2. CASE FinalizeRequest(r, outcome, outcome.status) /\ Track(refusals)
  BY <1>1, <1>2
<1>3. ASSUME NEW copied \in {outcome.status, "denied"},
             FinalizeRequest(r, [outcome EXCEPT !.status = copied], "denied"),
             Track([refusals EXCEPT ![r] = "refused"])
      PROVE  /\ \E kept \in {outcome, [outcome EXCEPT !.status = "denied"]},
                  seen \in {outcome.status, "denied"} :
                    kept \in Request /\ seen \in ApprovalStatus /\ FinalizeRequest(r, kept, seen)
             /\ \E rs \in [RequestId -> {"no", "writing", "refused", "lost"}] : Track(rs)
  <2>1. [outcome EXCEPT !.status = outcome.status] = outcome
    BY DEF Request
  <2>2. [outcome EXCEPT !.status = "denied"] \in Request
    BY <1>1, StatusType
  <2>3. \E kept \in {outcome, [outcome EXCEPT !.status = "denied"]} :
            kept \in Request /\ FinalizeRequest(r, kept, "denied")
    <3>1. CASE copied = "denied"
      BY <1>3, <2>2, <3>1
    <3>2. CASE copied = outcome.status
      BY <1>3, <2>1, <3>2
    <3>. QED  BY <3>1, <3>2
  <2>4. [refusals EXCEPT ![r] = "refused"] \in [RequestId -> {"no", "writing", "refused", "lost"}]
    OBVIOUS
  <2>. QED  BY <1>1, <1>3, <2>3, <2>4
<1>. QED  BY <1>2, <1>3 DEF Settle

LEMMA SettleType ==
    ASSUME ApprovalTypeOK, NEW r \in RequestId, NEW outcome \in Request,
           outcome.status # "none", Settle(r, outcome)
    PROVE  Core' /\ refusals' \in [RequestId -> {"no", "writing", "refused", "lost"}]
BY SettleCases, FinalizeType, TrackType DEF ApprovalTypeOK

LEMMA CreateType ==
    ASSUME ApprovalTypeOK, NEW n \in Required \cup {1}, NEW circle \in Circles \cup {{}},
           Create(n, circle)
    PROVE  Core' /\ issued' \in 0..MaxRequests /\ overdue' \subseteq 1..issued'
           /\ issued + 1 \in RequestId
<1>1. issued \in 0..MaxRequests /\ overdue \subseteq 1..issued
  BY DEF ApprovalTypeOK
<1>2. issued + 1 \in RequestId /\ issued' = issued + 1 /\ overdue' = overdue
  BY <1>1, ApprovalQueueAssumption DEF Create, RequestId
<1>3. NewRequest(n, circle) \in Request
  <2>1. << >> \in Seq(Decision)
    BY EmptySeq
  <2>. QED  BY <2>1 DEF NewRequest, Request, ApprovalStatus
<1>4. [queue EXCEPT ![issued + 1] = NewRequest(n, circle)] \in Queue
  BY <1>2, <1>3, TypeParts DEF Core, Queue
<1>5. Core'
  BY <1>4, PersistType DEF Create
<1>6. issued' \in 0..MaxRequests /\ overdue' \subseteq 1..issued'
  BY <1>1, <1>2, ApprovalQueueAssumption DEF RequestId
<1>. QED  BY <1>2, <1>5, <1>6

LEMMA ExpireType ==
    ASSUME ApprovalTypeOK, ExpireStale
    PROVE  Core' /\ UNCHANGED <<issued, overdue>> /\ Track(refusals)
<1> DEFINE
      passed(n, stale) == {Trace(disk, Told(stale, k)) : k \in 1..n}
                             \cup Torn(SavePending(disk, Nothing), Told(stale, n))
<1>0. PICK n \in 1..MaxRequests : \E stale \in [1..n -> RequestId] :
          /\ \E d \in PendingWrites(disk, Fresh) :
                Commit(Fresh, Remember(history, Expired(stale)), passed(n, stale),
                       Trace(d, Told(stale, n)), SavePending(disk, Fresh))
          /\ UNCHANGED <<issued, overdue>> /\ Track(refusals)
  BY Zenon DEF ExpireStale
<1>1. PICK stale \in [1..n -> RequestId] :
          /\ \E d \in PendingWrites(disk, Fresh) :
                Commit(Fresh, Remember(history, Expired(stale)), passed(n, stale),
                       Trace(d, Told(stale, n)), SavePending(disk, Fresh))
          /\ UNCHANGED <<issued, overdue>> /\ Track(refusals)
  BY <1>0
<1>2. Core /\ disk \in SomeDisk /\ announced \in SomeTold /\ history \in Log /\ queue \in Queue
  BY TypeParts DEF Core
<1>3. Fresh \in Queue
  BY <1>2, NothingType DEF Fresh, Queue
<1>4. Remember(history, Expired(stale)) \in Log
  <2>1. \A i \in 1..n : Expired(stale)[i] \in Entry
    BY <1>2, OutcomeType DEF Entry, Queue, Expired
  <2>2. Expired(stale) \in [1..n -> Entry] /\ n \in Nat
    BY <2>1 DEF Expired
  <2>3. Expired(stale) \in Seq(Entry) /\ history \in Seq(Entry)
    BY <1>2, <2>2, SeqDef DEF Log
  <2>. QED  BY <2>3, RememberType
<1>5. \A k \in 1..n : Told(stale, k) \in SomeTold
  BY <1>2 DEF Told, SomeTold, ApprovalStatus, Outcome
<1>6. n \in 1..n
  OBVIOUS
<1>7. SavePending(disk, Nothing) \in SomeDisk
  BY <1>2, SaveType, NothingType
<1>8. passed(n, stale) \in SUBSET Traces
  <2>1. Torn(SavePending(disk, Nothing), Told(stale, n)) \subseteq Traces
    BY <1>5, <1>6, <1>7, TornType
  <2>2. {Trace(disk, Told(stale, k)) : k \in 1..n} \subseteq Traces
    BY <1>2, <1>5 DEF Trace, Traces
  <2>. QED  BY <2>1, <2>2
<1>9. PICK d \in PendingWrites(disk, Fresh) :
          Commit(Fresh, Remember(history, Expired(stale)), passed(n, stale),
                 Trace(d, Told(stale, n)), SavePending(disk, Fresh))
  BY <1>1
<1>10. d \in SomeDisk /\ (d = SavePending(disk, Fresh) \/ failures < MaxFailures)
  BY <1>2, <1>3, <1>9, WriteType, NothingType
<1>11. Trace(d, Told(stale, n)) \in Traces /\ Trace(d, Told(stale, n)).disk = d
  BY <1>5, <1>6, <1>10 DEF Trace, Traces
<1>. HIDE DEF passed
<1>. QED  BY <1>1, <1>2, <1>3, <1>4, <1>8, <1>9, <1>10, <1>11, CommitType

-----------------------------------------------------------------------------
(* Type correctness *)

LEMMA InitType == ApprovalInit => ApprovalTypeOK
<1> SUFFICES ASSUME ApprovalInit PROVE Core /\ Rest
  BY TypeParts
<1>1. [pending |-> Nothing, history |-> <<>>] \in SomeDisk
  BY NothingType DEF SomeDisk, Files, Queue, Log
<1>2. Core
  BY <1>1, NothingType, ApprovalQueueAssumption DEF ApprovalInit, Core, SomeTold
<1>3. Rest
  BY ApprovalQueueAssumption DEF ApprovalInit, Rest
<1>. QED  BY <1>2, <1>3

LEMMA NextType == ApprovalTypeOK /\ [ApprovalNext]_avars => ApprovalTypeOK'
<1> SUFFICES ASSUME ApprovalTypeOK, [ApprovalNext]_avars PROVE Core' /\ Rest'
  BY TypePartsNext
<1>0. Core /\ Rest
  BY TypeParts
<1>1. \A r \in RequestId : queue[r] \in Request
  BY <1>0 DEF Core, Queue
<1>2. ASSUME Core', UNCHANGED <<issued, overdue>>, Track(refusals) PROVE Core' /\ Rest'
  BY <1>0, <1>2, TrackType DEF Rest
<1>3. ASSUME NEW n \in Required, NEW circle \in Circles, CreateRequest(n, circle)
      PROVE  Core' /\ Rest'
  <2>1. Create(n, circle) /\ Track(refusals)
    BY <1>3 DEF CreateRequest
  <2>. QED  BY <1>0, <2>1, CreateType, TrackType DEF Rest
<1>4. ASSUME RequestForbidden PROVE Core' /\ Rest'
  <2>1. Create(1, {}) /\ Track([refusals EXCEPT ![issued + 1] = "writing"])
    BY <1>4 DEF RequestForbidden
  <2>2. [refusals EXCEPT ![issued + 1] = "writing"]
          \in [RequestId -> {"no", "writing", "refused", "lost"}]
    BY <1>0 DEF Rest
  <2>. QED  BY <2>1, <2>2, CreateType, TrackType DEF Rest
<1>5. ASSUME NEW r \in RequestId, Refuse(r) PROVE Core' /\ Rest'
  <2>1. [queue EXCEPT ![r].status = "denied"] \in Queue
    BY <1>0, <1>1, OutcomeType DEF Core, Queue
  <2>2. queue' \in Queue
    BY <1>0, <1>5, <2>1 DEF Refuse, Core
  <2>. QED  BY <1>0, <1>5, <2>2 DEF Refuse, Core, Rest
<1>6. ASSUME NEW r \in RequestId, Cancel(r) PROVE Core' /\ Rest'
  BY <1>0, <1>1, <1>6, OutcomeType, SettleType DEF Cancel, Rest
<1>7. ASSUME NEW r \in RequestId, Lapse(r) PROVE Core' /\ Rest'
  <2>1. UNCHANGED <<up, queue, history, disk, announced, issued, refusals, failures, unsaved>>
        /\ overdue' = overdue \cup {r} /\ r \in 1..issued
    BY <1>7 DEF Lapse, RequestId
  <2>. QED  BY <1>0, <2>1 DEF Core, Rest
<1>8. ASSUME NEW r \in RequestId, NEW a \in Approver, Approve(r, a) PROVE Core' /\ Rest'
  <2>1. /\ queue[r].status \notin {"none"} /\ queue[r].status = "pending"
        /\ UNCHANGED <<issued, overdue>>
    BY <1>8 DEF Approve, Known, Resolved
  <2> DEFINE q == AddDecision(queue[r], a, TRUE)
  <2>2. q \in Request
    BY <1>1, DecisionType
  <2>3. CASE r \in overdue
    BY <1>0, <1>1, <1>8, <2>1, <2>3, OutcomeType, SettleType DEF Approve, Rest
  <2>4. CASE r \notin overdue /\ Resolved(q)
    <3>1. Settle(r, q)
      BY <1>8, <2>4 DEF Approve
    <3>2. q.status # "none"
      BY <2>1 DEF AddDecision
    <3>. HIDE DEF q
    <3>. QED  BY <1>0, <2>1, <2>2, <3>1, <3>2, SettleType DEF Rest
  <2>5. CASE r \notin overdue /\ ~Resolved(q)
    <3>1. PersistPending([queue EXCEPT ![r] = q]) /\ Track(refusals)
      BY <1>8, <2>5 DEF Approve
    <3>. HIDE DEF q
    <3>2. [queue EXCEPT ![r] = q] \in Queue
      BY <1>0, <2>2 DEF Core, Queue
    <3>. QED  BY <1>2, <2>1, <3>1, <3>2, PersistType
  <2>. QED  BY <2>3, <2>4, <2>5
<1>9. ASSUME NEW r \in RequestId, NEW a \in Approver, Deny(r, a) PROVE Core' /\ Rest'
  <2> DEFINE q == AddDecision(queue[r], a, FALSE)
  <2>1. q \in Request
    BY <1>1, DecisionType
  <2>2. q.status # "none"
    BY <1>1, <1>9 DEF Deny, Known, Resolved, AddDecision
  <2>3. Settle(r, q) /\ UNCHANGED <<issued, overdue>>
    BY <1>9 DEF Deny
  <2>. HIDE DEF q
  <2>. QED  BY <1>0, <2>1, <2>2, <2>3, SettleType DEF Rest
<1>10. ASSUME ExpireStale PROVE Core' /\ Rest'
  BY <1>2, <1>10, ExpireType
<1>11. ASSUME Crash PROVE Core' /\ Rest'
  <2>1. Core'
    BY <1>0, <1>11, NothingType DEF Crash, Forget, Core
  <2>. QED  BY <1>2, <1>11, <2>1 DEF Crash
<1>12. ASSUME Restart PROVE Core' /\ Rest'
  BY <1>0, <1>12 DEF Restart, Core, Rest, SomeDisk, Files, Queue
<1>13. ASSUME UNCHANGED avars PROVE Core' /\ Rest'
  BY <1>0, <1>13 DEF avars, Core, Rest
<1>. QED
  BY <1>3, <1>4, <1>5, <1>6, <1>7, <1>8, <1>9, <1>10, <1>11, <1>12, <1>13 DEF ApprovalNext

\* The queue, its files and its counters stay well typed, and no history outgrows
\* MAX_HISTORY, under every call, crash, torn write and restart.
THEOREM ApprovalTypeCorrect == ApprovalSpec => []ApprovalTypeOK
BY InitType, NextType, PTL DEF ApprovalSpec

-----------------------------------------------------------------------------
(* Finality of approvals.  A request that can still be answered, now or after  *)
(* a restart, has been announced as nothing, or as expired and is past its     *)
(* time, which is what approve() looks at; the requests in lost are excepted.  *)

Settled(q, told, n, lost) ==
    \A r \in RequestId :
        /\ r \notin lost /\ q[r].status # "none" /\ told[r] # {}
              => told[r] = {"expired"} /\ r \in overdue
        /\ r > n => q[r].status = "none" /\ told[r] = {}
        /\ r \notin lost /\ "approved" \in told[r] => told[r] = {"approved"}

FinalInv ==
    /\ Settled(queue, announced, issued, unsaved)
    /\ Settled(disk.pending, announced, issued, unsaved)

SettledTrace(t, n) == Settled(t.disk.pending, t.announced, n, unsaved)

LEMMA NothingSettled ==
    ASSUME NEW q, NEW told, NEW n, NEW lost, Settled(q, told, n, lost)
    PROVE  Settled(Nothing, told, n, lost)
BY DEF Settled, Nothing, NoRequest

LEMMA TornSettled ==
    ASSUME NEW d, NEW told, NEW n, Settled(d.pending, told, n, unsaved)
    PROVE  \A t \in Torn(d, told) : SettledTrace(t, n)
BY DEF Torn, Trace, SettledTrace

\* If the queue was not saved, what its file still holds and has been announced
\* is missing.
LEMMA CommitSettled ==
    ASSUME NEW q, NEW log, NEW passed, NEW final, NEW meant, NEW n \in Nat,
           Settled(q, final.announced, n, unsaved),
           final.disk = meant => final.disk.pending = q,
           \A r \in RequestId : r > n => final.disk.pending[r].status = "none",
           \A t \in passed : SettledTrace(t, n),
           Commit(q, log, passed, final, meant), issued' = n, overdue' = overdue
    PROVE  FinalInv'
<1>1. unsaved \subseteq unsaved'
  BY DEF Commit
<1>2. CASE queue' = q /\ disk' = final.disk /\ announced' = final.announced
  <2>1. Settled(queue, announced, issued, unsaved)'
    BY <1>1, <1>2 DEF Settled
  <2>2. CASE final.disk = meant
    BY <1>2, <2>1, <2>2 DEF FinalInv, Settled
  <2>3. CASE final.disk # meant
    <3>1. unsaved' = unsaved \cup Missing'
      BY <2>3 DEF Commit
    <3>2. \A r \in RequestId : announced'[r] # {} /\ disk'.pending[r].status # "none"
                                => r \in unsaved'
      BY <3>1 DEF Missing
    <3>3. \A r \in RequestId : r > n => disk'.pending[r].status = "none"
      BY <1>2
    <3>. QED  BY <2>1, <3>2, <3>3 DEF FinalInv, Settled
  <2>. QED  BY <2>2, <2>3
<1>3. ASSUME NEW t \in passed, disk' = t.disk, announced' = t.announced, queue' = Nothing
      PROVE  FinalInv'
  <2>1. Settled(t.disk.pending, t.announced, n, unsaved)
    BY DEF SettledTrace
  <2>2. Settled(Nothing, t.announced, n, unsaved)
    BY <2>1, NothingSettled
  <2>. QED  BY <1>1, <1>3, <2>1, <2>2 DEF FinalInv, Settled
<1>. QED  BY <1>2, <1>3 DEF Commit, Forget

\* No file holds a request that was not created.
LEMMA FilesAreOld ==
    ASSUME FinalInv, NEW r \in RequestId, NEW n \in Nat, issued \in Nat, issued <= n, r > n
    PROVE  disk.pending[r].status = "none" /\ Nothing[r].status = "none"
<1>1. r > issued
  BY DEF RequestId
<1>. QED  BY <1>1 DEF FinalInv, Settled, Nothing, NoRequest

LEMMA PersistSettled ==
    ASSUME ApprovalTypeOK, FinalInv, NEW q \in Queue, NEW n \in Nat, issued <= n,
           Settled(q, announced, n, unsaved),
           PersistPending(q), issued' = n, overdue' = overdue
    PROVE  FinalInv'
<1>1. /\ SavePending(disk, q).pending = q
      /\ SavePending(disk, Nothing).pending = Nothing
  BY TypeParts, SaveType, NothingType DEF Core
<1>2. Settled(Nothing, announced, n, unsaved)
  BY NothingSettled
<1>3. \A t \in Torn(SavePending(disk, Nothing), announced) : SettledTrace(t, n)
  BY <1>1, <1>2, TornSettled
<1>4. PICK d \in PendingWrites(disk, q) :
          Commit(q, history, Torn(SavePending(disk, Nothing), announced),
                 Trace(d, announced), SavePending(disk, q))
  BY DEF PersistPending
<1>5. d.pending \in {q, disk.pending, Nothing}
  BY <1>4, TypeParts, WriteType, NothingType DEF Core
<1> DEFINE final == Trace(d, announced)
<1>6. final.announced = announced /\ final.disk = d
  BY DEF Trace
<1>7. issued \in Nat
  BY TypeParts DEF Rest
<1>8. \A r \in RequestId : r > n => d.pending[r].status = "none"
  BY <1>5, <1>7, FilesAreOld DEF Settled
<1>. HIDE DEF final
<1>. QED  BY <1>1, <1>3, <1>4, <1>6, <1>8, CommitSettled DEF final

LEMMA FinalizeSettled ==
    ASSUME ApprovalTypeOK, FinalInv, NEW r \in RequestId, Known(r),
           NEW outcome \in Request, NEW seen,
           seen = "approved" => r \notin overdue,
           FinalizeRequest(r, outcome, seen), UNCHANGED <<issued, overdue>>
    PROVE  FinalInv'
<1> DEFINE q     == [queue EXCEPT ![r] = NoRequest]
           log   == Remember(history, <<[id |-> r, request |-> outcome]>>)
           told  == Announce(announced, r, seen)
           meant == SaveHistory(SavePending(disk, q), log)
           passed(gone, saved) ==
               Torn(SavePending(disk, Nothing), announced)
                 \cup {Trace(gone, announced)}
                 \cup Torn(SaveHistory(gone, <<>>), announced)
                 \cup {Trace(saved, announced)}
<1>1. Core /\ issued \in Nat
  BY TypeParts DEF Rest
<1>2. q \in Queue /\ q[r] = NoRequest /\ \A x \in RequestId \ {r} : q[x] = queue[x]
  BY <1>1, NothingType DEF Queue, Core
<1>3. Settled(q, announced, issued, unsaved)
  BY <1>2 DEF FinalInv, Settled, NoRequest
<1>4. Settled(q, told, issued, unsaved)
  <2> SUFFICES ASSUME NEW x \in RequestId
      PROVE /\ x \notin unsaved /\ q[x].status # "none" /\ told[x] # {}
                  => told[x] = {"expired"} /\ x \in overdue
            /\ x > issued => q[x].status = "none" /\ told[x] = {}
            /\ x \notin unsaved /\ "approved" \in told[x] => told[x] = {"approved"}
    BY DEF Settled
  <2>1. CASE x # r
    <3>1. told[x] = announced[x] /\ q[x] = queue[x]
      BY <1>1, <1>2, <2>1 DEF Announce, Core, SomeTold
    <3>. QED  BY <3>1, <2>1 DEF FinalInv, Settled
  <2>2. CASE x = r
    <3>1. told[r] = announced[r] \cup {seen} /\ q[r].status = "none"
      BY <1>1, <1>2 DEF Announce, Core, SomeTold, NoRequest
    <3>2. /\ r \notin unsaved /\ announced[r] # {} => announced[r] = {"expired"} /\ r \in overdue
          /\ ~(r > issued)
      BY DEF FinalInv, Settled, Known
    <3>. HIDE DEF q, told
    <3>. QED  BY <2>2, <3>1, <3>2
  <2>. QED  BY <2>1, <2>2
<1>5. log \in Log
  <2>1. <<[id |-> r, request |-> outcome]>> \in Seq(Entry) /\ history \in Seq(Entry)
    BY <1>1 DEF Entry, Core, Log
  <2>. QED  BY <2>1, RememberType
<1>6. PICK gone \in PendingWrites(disk, q) : \E saved \in HistoryWrites(gone, log) :
          Commit(q, log, passed(gone, saved), Trace(saved, told), meant)
  BY DEF FinalizeRequest
<1>7. PICK saved \in HistoryWrites(gone, log) :
          Commit(q, log, passed(gone, saved), Trace(saved, told), meant)
  BY <1>6
<1>. HIDE DEF q, log
<1>8. gone \in SomeDisk /\ gone.pending \in {q, disk.pending, Nothing}
  BY <1>1, <1>2, <1>5, <1>6, WriteType, NothingType DEF Core
<1>9. /\ saved.pending = gone.pending /\ SaveHistory(gone, <<>>).pending = gone.pending
      /\ SavePending(disk, Nothing).pending = Nothing
      /\ meant.pending = q
  <2>1. SavePending(disk, q) \in SomeDisk /\ SavePending(disk, q).pending = q
    BY <1>1, <1>2, SaveType, NothingType DEF Core
  <2> DEFINE whole == SavePending(disk, q)
  <2>2. meant.pending = q
    <3>1. whole \in SomeDisk /\ whole.pending = q
      BY <2>1
    <3>. HIDE DEF whole
    <3>2. SaveHistory(whole, log).pending = q
      BY <1>5, <3>1, SaveType, NothingType
    <3>. QED  BY <3>2 DEF whole
  <2>3. SavePending(disk, Nothing).pending = Nothing
    BY <1>1, SaveType, NothingType DEF Core
  <2>4. SaveHistory(gone, <<>>).pending = gone.pending
    BY <1>8, SaveType, NothingType
  <2>5. saved.pending = gone.pending
    BY <1>2, <1>5, <1>7, <1>8, WriteType
  <2>. QED  BY <2>2, <2>3, <2>4, <2>5
<1>10. Settled(Nothing, announced, issued, unsaved)
  BY <1>3, NothingSettled
<1>11. Settled(gone.pending, announced, issued, unsaved)
  BY <1>3, <1>8, <1>10 DEF FinalInv
<1>12. \A t \in passed(gone, saved) : SettledTrace(t, issued)
  <2>1. /\ SettledTrace(Trace(gone, announced), issued)
        /\ SettledTrace(Trace(saved, announced), issued)
    BY <1>9, <1>11 DEF SettledTrace, Trace
  <2>2. \A t \in Torn(SavePending(disk, Nothing), announced) : SettledTrace(t, issued)
    BY <1>9, <1>10, TornSettled
  <2>3. \A t \in Torn(SaveHistory(gone, <<>>), announced) : SettledTrace(t, issued)
    BY <1>9, <1>11, TornSettled
  <2>. QED  BY <2>1, <2>2, <2>3
<1> DEFINE final == Trace(saved, told)
<1>13. final.announced = told /\ final.disk = saved
  BY DEF Trace
<1>14. \A x \in RequestId : x > issued => final.disk.pending[x].status = "none"
  BY <1>9, <1>11, <1>13 DEF Settled
<1>15. Commit(q, log, passed(gone, saved), final, meant)
  BY <1>7
<1>. HIDE DEF passed, final, told, meant
<1>16. final.disk = meant => final.disk.pending = q
  BY <1>9
<1>. QED  BY <1>1, <1>4, <1>12, <1>13, <1>14, <1>15, <1>16, CommitSettled

LEMMA SettleSettled ==
    ASSUME ApprovalTypeOK, FinalInv, NEW r \in RequestId, Known(r),
           NEW outcome \in Request, outcome.status # "none",
           outcome.status = "approved" => r \notin overdue,
           Settle(r, outcome), UNCHANGED <<issued, overdue>>
    PROVE  FinalInv'
BY SettleCases, FinalizeSettled DEF ApprovalTypeOK

LEMMA ExpireSettled ==
    ASSUME ApprovalTypeOK, FinalInv, ExpireStale
    PROVE  FinalInv'
<1> DEFINE
      passed(n, stale) == {Trace(disk, Told(stale, k)) : k \in 1..n}
                             \cup Torn(SavePending(disk, Nothing), Told(stale, n))
<1>0. PICK n \in 1..MaxRequests : \E stale \in [1..n -> RequestId] :
          /\ Lists(stale)
          /\ \E d \in PendingWrites(disk, Fresh) :
                Commit(Fresh, Remember(history, Expired(stale)), passed(n, stale),
                       Trace(d, Told(stale, n)), SavePending(disk, Fresh))
          /\ UNCHANGED <<issued, overdue>>
  BY Zenon DEF ExpireStale
<1>1. PICK stale \in [1..n -> RequestId] :
          /\ Lists(stale)
          /\ \E d \in PendingWrites(disk, Fresh) :
                Commit(Fresh, Remember(history, Expired(stale)), passed(n, stale),
                       Trace(d, Told(stale, n)), SavePending(disk, Fresh))
          /\ UNCHANGED <<issued, overdue>>
  BY <1>0
<1>2. Core /\ issued \in Nat /\ n \in 1..n
  BY TypeParts DEF Rest
<1>3. ASSUME NEW k \in 1..n, NEW r \in RequestId
      PROVE  \/ Told(stale, k)[r] = announced[r]
             \/ Stale(r) /\ Told(stale, k)[r] = announced[r] \cup {"expired"}
  <2>1. CASE \E i \in 1..k : stale[i] = r
    <3>1. Stale(r)
      BY <1>1, <2>1 DEF Lists
    <3>2. Told(stale, k)[r] = announced[r] \cup {"expired"}
      BY <2>1 DEF Told
    <3>. QED  BY <3>1, <3>2
  <2>2. CASE ~ \E i \in 1..k : stale[i] = r
    BY <2>2 DEF Told
  <2>. QED  BY <2>1, <2>2
<1>4. \A r \in RequestId : Stale(r) => /\ queue[r].status # "none" /\ r \in overdue
                                       /\ r \notin unsaved => announced[r] \subseteq {"expired"}
                                       /\ ~(r > issued)
  BY DEF Stale, FinalInv, Settled
<1>5. \A k \in 1..n : Settled(disk.pending, Told(stale, k), issued, unsaved)
  <2> SUFFICES ASSUME NEW k \in 1..n, NEW x \in RequestId
      PROVE /\ x \notin unsaved /\ disk.pending[x].status # "none" /\ Told(stale, k)[x] # {}
                  => Told(stale, k)[x] = {"expired"} /\ x \in overdue
            /\ x > issued => disk.pending[x].status = "none" /\ Told(stale, k)[x] = {}
            /\ x \notin unsaved /\ "approved" \in Told(stale, k)[x]
                  => Told(stale, k)[x] = {"approved"}
    BY DEF Settled
  <2>1. CASE Told(stale, k)[x] = announced[x]
    BY <2>1 DEF FinalInv, Settled
  <2>2. CASE Stale(x) /\ Told(stale, k)[x] = announced[x] \cup {"expired"}
    BY <1>4, <2>2
  <2>. QED  BY <1>3, <2>1, <2>2
<1>6. Settled(Fresh, Told(stale, n), issued, unsaved)
  <2>1. \A r \in RequestId : Fresh[r] = IF Stale(r) THEN NoRequest ELSE queue[r]
    BY DEF Fresh
  <2>2. NoRequest.status = "none"
    BY DEF NoRequest
  <2> SUFFICES ASSUME NEW x \in RequestId
      PROVE /\ x \notin unsaved /\ Fresh[x].status # "none" /\ Told(stale, n)[x] # {}
                  => Told(stale, n)[x] = {"expired"} /\ x \in overdue
            /\ x > issued => Fresh[x].status = "none" /\ Told(stale, n)[x] = {}
            /\ x \notin unsaved /\ "approved" \in Told(stale, n)[x]
                  => Told(stale, n)[x] = {"approved"}
    BY DEF Settled
  <2>3. CASE Told(stale, n)[x] = announced[x]
    BY <1>4, <2>1, <2>2, <2>3 DEF FinalInv, Settled
  <2>4. CASE Stale(x) /\ Told(stale, n)[x] = announced[x] \cup {"expired"}
    BY <1>4, <2>1, <2>2, <2>4
  <2>. QED  BY <1>2, <1>3, <2>3, <2>4
<1>7. Fresh \in Queue
  BY <1>2, NothingType DEF Fresh, Queue, Core
<1>8. /\ SavePending(disk, Fresh).pending = Fresh
      /\ SavePending(disk, Nothing).pending = Nothing
  BY <1>2, <1>7, SaveType, NothingType DEF Core
<1>9. \A t \in passed(n, stale) : SettledTrace(t, issued)
  <2>1. \A t \in Torn(SavePending(disk, Nothing), Told(stale, n)) : SettledTrace(t, issued)
    BY <1>6, <1>8, NothingSettled, TornSettled
  <2>2. \A k \in 1..n : SettledTrace(Trace(disk, Told(stale, k)), issued)
    BY <1>5 DEF SettledTrace, Trace
  <2>. QED  BY <2>1, <2>2
<1>10. PICK d \in PendingWrites(disk, Fresh) :
          Commit(Fresh, Remember(history, Expired(stale)), passed(n, stale),
                 Trace(d, Told(stale, n)), SavePending(disk, Fresh))
  BY <1>1
<1>11. d.pending \in {Fresh, disk.pending, Nothing}
  BY <1>2, <1>7, <1>10, WriteType, NothingType DEF Core
<1>12. \A r \in RequestId : r > issued => d.pending[r].status = "none"
  <2> SUFFICES ASSUME NEW r \in RequestId, r > issued PROVE d.pending[r].status = "none"
    OBVIOUS
  <2>1. Fresh[r].status = "none"
    BY <1>6 DEF Settled
  <2>2. disk.pending[r].status = "none" /\ Nothing[r].status = "none"
    BY DEF FinalInv, Settled, Nothing, NoRequest
  <2>. QED  BY <1>11, <2>1, <2>2
<1> DEFINE final == Trace(d, Told(stale, n))
<1>13. final.announced = Told(stale, n) /\ final.disk = d
  BY DEF Trace
<1>14. Commit(Fresh, Remember(history, Expired(stale)), passed(n, stale), final,
              SavePending(disk, Fresh))
  BY <1>10
<1>. HIDE DEF passed, final
<1>. QED  BY <1>1, <1>2, <1>6, <1>8, <1>9, <1>12, <1>13, <1>14, CommitSettled

LEMMA CreateSettled ==
    ASSUME ApprovalTypeOK, FinalInv, NEW n \in Required \cup {1}, NEW circle \in Circles \cup {{}},
           Create(n, circle)
    PROVE  FinalInv'
<1> DEFINE q == [queue EXCEPT ![issued + 1] = NewRequest(n, circle)]
<1>1. issued + 1 \in RequestId /\ issued \in Nat /\ queue \in Queue
  BY CreateType, TypeParts DEF Core, Rest
<1>2. q \in Queue
  <2>1. << >> \in Seq(Decision)
    BY EmptySeq
  <2>2. NewRequest(n, circle) \in Request
    BY <2>1 DEF NewRequest, Request, ApprovalStatus
  <2>. QED  BY <1>1, <2>2 DEF Queue
<1>3. announced[issued + 1] = {}
  BY <1>1 DEF FinalInv, Settled
<1>4. \A x \in RequestId : x # issued + 1 => q[x] = queue[x]
  BY <1>1 DEF Queue
<1>5. \A x \in RequestId : x > issued + 1 => x > issued /\ x # issued + 1
  BY <1>1 DEF RequestId
<1>6. ~(issued + 1 > issued + 1)
  BY <1>1
<1>7. Settled(q, announced, issued + 1, unsaved)
  <2>. HIDE DEF q
  <2>. QED  BY <1>3, <1>4, <1>5, <1>6 DEF FinalInv, Settled
<1>8. PersistPending(q) /\ issued' = issued + 1 /\ overdue' = overdue /\ issued + 1 \in Nat
      /\ issued <= issued + 1
  BY <1>1 DEF Create
<1>. HIDE DEF q
<1>. QED  BY <1>2, <1>7, <1>8, PersistSettled

LEMMA FinalNext == ApprovalTypeOK /\ FinalInv /\ [ApprovalNext]_avars => FinalInv'
<1> SUFFICES ASSUME ApprovalTypeOK, FinalInv, [ApprovalNext]_avars PROVE FinalInv'
  OBVIOUS
<1>0. Core /\ Rest /\ issued \in Nat
  BY TypeParts DEF Rest
<1>1. \A r \in RequestId : queue[r] \in Request
  BY <1>0 DEF Core, Queue
<1>2. ASSUME NEW n \in Required, NEW circle \in Circles, CreateRequest(n, circle)
      PROVE  FinalInv'
  BY <1>2, CreateSettled DEF CreateRequest
<1>3. ASSUME RequestForbidden PROVE FinalInv'
  BY <1>3, CreateSettled DEF RequestForbidden
<1>4. ASSUME NEW r \in RequestId, Refuse(r) PROVE FinalInv'
  <2>1. UNCHANGED <<disk, issued, overdue, announced, unsaved>>
    BY <1>4 DEF Refuse
  <2>2. \A x \in RequestId : queue'[x].status # "none" => queue[x].status # "none"
    <3>1. CASE Known(r)
      <4>1. queue' = [queue EXCEPT ![r].status = "denied"]
        BY <1>4, <3>1 DEF Refuse
      <4>. QED  BY <1>0, <3>1, <4>1 DEF Core, Queue, Known
    <3>2. CASE ~Known(r)
      BY <1>4, <3>2 DEF Refuse
    <3>. QED  BY <3>1, <3>2
  <2>. QED  BY <2>1, <2>2 DEF FinalInv, Settled
<1>5. ASSUME NEW r \in RequestId, Cancel(r) PROVE FinalInv'
  BY <1>1, <1>5, OutcomeType, SettleSettled DEF Cancel, Known
<1>6. ASSUME NEW r \in RequestId, Lapse(r) PROVE FinalInv'
  BY <1>6 DEF Lapse, FinalInv, Settled
<1>7. ASSUME NEW r \in RequestId, NEW a \in Approver, Approve(r, a) PROVE FinalInv'
  <2> DEFINE q == AddDecision(queue[r], a, TRUE)
  <2>1. /\ Known(r) /\ queue[r].status = "pending"
        /\ UNCHANGED <<issued, overdue>>
    BY <1>7 DEF Approve, Resolved
  <2>2. q \in Request
    BY <1>1, DecisionType
  <2>3. CASE r \in overdue
    BY <1>1, <1>7, <2>1, <2>3, OutcomeType, SettleSettled DEF Approve
  <2>4. CASE r \notin overdue /\ Resolved(q)
    <3>1. Settle(r, q)
      BY <1>7, <2>4 DEF Approve
    <3>2. q.status # "none"
      BY <2>1 DEF AddDecision
    <3>. HIDE DEF q
    <3>. QED  BY <2>1, <2>2, <2>4, <3>1, <3>2, SettleSettled
  <2>5. CASE r \notin overdue /\ ~Resolved(q)
    <3>1. PersistPending([queue EXCEPT ![r] = q])
      BY <1>7, <2>5 DEF Approve
    <3>. HIDE DEF q
    <3>2. [queue EXCEPT ![r] = q] \in Queue
      BY <1>0, <2>2 DEF Core, Queue
    <3>3. \A x \in RequestId : [queue EXCEPT ![r] = q][x].status # "none"
                                  => queue[x].status # "none"
      BY <1>0, <2>1 DEF Core, Queue, Known
    <3>4. Settled([queue EXCEPT ![r] = q], announced, issued, unsaved)
      BY <3>3 DEF FinalInv, Settled
    <3>. QED  BY <1>0, <2>1, <3>1, <3>2, <3>4, PersistSettled
  <2>. QED  BY <2>3, <2>4, <2>5
<1>8. ASSUME NEW r \in RequestId, NEW a \in Approver, Deny(r, a) PROVE FinalInv'
  <2> DEFINE q == AddDecision(queue[r], a, FALSE)
  <2>1. Known(r) /\ queue[r].status = "pending" /\ UNCHANGED <<issued, overdue>>
    BY <1>8 DEF Deny, Resolved
  <2>2. q \in Request /\ q.status # "approved"
    BY <1>1, <2>1, DecisionType
  <2>3. Settle(r, q)
    BY <1>8 DEF Deny
  <2>4. q.status # "none"
    BY <2>1 DEF AddDecision
  <2>. HIDE DEF q
  <2>. QED  BY <2>1, <2>2, <2>3, <2>4, SettleSettled
<1>9. ASSUME ExpireStale PROVE FinalInv'
  BY <1>9, ExpireSettled
<1>10. ASSUME Crash PROVE FinalInv'
  <2>1. Settled(Nothing, announced, issued, unsaved)
    BY NothingSettled DEF FinalInv
  <2>. QED  BY <1>10, <2>1 DEF Crash, Forget, FinalInv, Settled
<1>11. ASSUME Restart PROVE FinalInv'
  BY <1>11 DEF Restart, FinalInv, Settled
<1>12. ASSUME UNCHANGED avars PROVE FinalInv'
  BY <1>12 DEF avars, FinalInv, Settled
<1>. QED
  BY <1>2, <1>3, <1>4, <1>5, <1>6, <1>7, <1>8, <1>9, <1>10, <1>11, <1>12 DEF ApprovalNext

\* Once a request has been announced as approved, nothing else is ever announced
\* of it, before or after a restart, under every choice of faults: the queue and
\* the file it would be read from no longer hold it, unless the write of that
\* file failed in the call.
THEOREM ApprovalsAreFinal == ApprovalSpec => []ApprovalIsFinal
<1>1. ApprovalInit => FinalInv
  BY DEF ApprovalInit, FinalInv, Settled, Nothing, NoRequest
<1>2. FinalInv => ApprovalIsFinal
  BY DEF FinalInv, Settled, ApprovalIsFinal
<1>. QED  BY <1>1, <1>2, FinalNext, ApprovalTypeCorrect, PTL DEF ApprovalSpec

-----------------------------------------------------------------------------
(* Honest requests.  Wherever a request is kept, in the queue, in the history  *)
(* or in either file, nobody decided it twice, nobody decided it who may not,  *)
(* no denial is among the decisions of one that is open or approved, and an    *)
(* approved one has as many decisions as it asked for.                         *)

OneEach(q) ==
    \A i, j \in DOMAIN q.decisions : q.decisions[i].by = q.decisions[j].by => i = j

InCircle(q) ==
    \A i \in DOMAIN q.decisions : q.allowed = {} \/ q.decisions[i].by \in q.allowed

AllInFavour(q) == \A i \in DOMAIN q.decisions : q.decisions[i].approved

Honest(q) ==
    /\ OneEach(q)
    /\ InCircle(q)
    /\ q.status \in {"pending", "approved"} => AllInFavour(q)
    /\ q.status = "approved" => Len(q.decisions) >= q.required

HonestQueue(qs) == \A r \in RequestId : Honest(qs[r])
HonestLog(log)  == \A i \in DOMAIN log : Honest(log[i].request)
HonestDisk(d)   == HonestQueue(d.pending) /\ HonestLog(d.history)

HonestInv ==
    /\ HonestQueue(queue)
    /\ HonestLog(history)
    /\ HonestDisk(disk)

\* Remember keeps every entry until it has MaxHistory of them, and adds none.
LEMMA RememberKeeps ==
    ASSUME NEW log \in Seq(Entry), NEW entries \in Seq(Entry)
    PROVE  /\ \A k \in DOMAIN Remember(log, entries) :
                  \/ \E i \in DOMAIN log : Remember(log, entries)[k] = log[i]
                  \/ \E i \in DOMAIN entries : Remember(log, entries)[k] = entries[i]
           /\ \/ Len(Remember(log, entries)) = MaxHistory
              \/ /\ \A i \in DOMAIN log :
                      \E k \in DOMAIN Remember(log, entries) : Remember(log, entries)[k] = log[i]
                 /\ \A i \in DOMAIN entries :
                      \E k \in DOMAIN Remember(log, entries) :
                          Remember(log, entries)[k] = entries[i]
                 /\ Len(log) <= Len(Remember(log, entries))
                 /\ Len(Remember(log, entries)) <= MaxHistory
<1> DEFINE all == log \o entries
<1>1. /\ Len(log) \in Nat /\ DOMAIN log = 1..Len(log)
      /\ Len(entries) \in Nat /\ DOMAIN entries = 1..Len(entries)
  BY LenProperties
<1>2. /\ all \in Seq(Entry)
      /\ Len(all) = Len(log) + Len(entries)
      /\ DOMAIN all = 1..(Len(log) + Len(entries))
      /\ \A i \in 1..(Len(log) + Len(entries)) :
             all[i] = IF i <= Len(log) THEN log[i] ELSE entries[i - Len(log)]
  BY <1>1, ConcatProperties, LenProperties
<1>. HIDE DEF all
<1>3. \A k \in DOMAIN all : \/ \E i \in DOMAIN log : all[k] = log[i]
                            \/ \E i \in DOMAIN entries : all[k] = entries[i]
  <2> SUFFICES ASSUME NEW k \in DOMAIN all
      PROVE  \/ \E i \in DOMAIN log : all[k] = log[i]
             \/ \E i \in DOMAIN entries : all[k] = entries[i]
    OBVIOUS
  <2>1. CASE k <= Len(log)
    BY <1>1, <1>2, <2>1
  <2>2. CASE ~(k <= Len(log))
    <3>1. k - Len(log) \in DOMAIN entries /\ all[k] = entries[k - Len(log)]
      BY <1>1, <1>2, <2>2
    <3>. QED  BY <3>1
  <2>. QED  BY <2>1, <2>2
<1>4. CASE Len(all) > MaxHistory
  <2> DEFINE first == Len(all) - MaxHistory + 1
             kept  == SubSeq(all, first, Len(all))
  <2>1. first \in Int /\ Len(all) \in Nat /\ first <= Len(all) /\ first >= 1
        /\ Len(all) - first + 1 = MaxHistory
    BY <1>1, <1>2, <1>4, ApprovalQueueAssumption
  <2>2. \A i \in first..Len(all) : i \in DOMAIN all /\ all[i] \in Entry
    BY <1>1, <1>2, <2>1, ElementOfSeq
  <2>3. Remember(log, entries) = kept
    BY <1>4 DEF Remember, all
  <2>. HIDE DEF first
  <2>4. /\ kept \in Seq(Entry) /\ Len(kept) = MaxHistory
        /\ \A i \in 1..MaxHistory : kept[i] = all[first + i - 1]
    BY <2>1, <2>2, SubSeqProperties
  <2>. HIDE DEF kept
  <2>5. DOMAIN kept = 1..MaxHistory
    BY <2>4, LenProperties
  <2>6. \A k \in DOMAIN kept : first + k - 1 \in DOMAIN all
    BY <2>1, <2>2, <2>5, ApprovalQueueAssumption
  <2>. QED  BY <1>3, <2>3, <2>4, <2>5, <2>6
<1>5. CASE ~(Len(all) > MaxHistory)
  <2>1. Remember(log, entries) = all /\ Len(all) <= MaxHistory /\ Len(log) <= Len(all)
    BY <1>1, <1>2, <1>5, ApprovalQueueAssumption DEF Remember, all
  <2>2. \A i \in DOMAIN log : i \in DOMAIN all /\ all[i] = log[i]
    BY <1>1, <1>2
  <2>3. \A i \in DOMAIN entries : i + Len(log) \in DOMAIN all /\ all[i + Len(log)] = entries[i]
    BY <1>1, <1>2
  <2>. QED  BY <1>3, <2>1, <2>2, <2>3
<1>. QED  BY <1>4, <1>5

LEMMA RememberHonest ==
    ASSUME NEW log \in Seq(Entry), NEW entries \in Seq(Entry),
           HonestLog(log), HonestLog(entries)
    PROVE  HonestLog(Remember(log, entries))
BY RememberKeeps, Zenon DEF HonestLog

LEMMA NothingHonest == Honest(NoRequest) /\ HonestQueue(Nothing) /\ HonestLog(<<>>)
BY DEF Nothing, NoRequest, HonestQueue, HonestLog, Honest, OneEach, InCircle, AllInFavour

\* A decision added to an open request keeps it honest, whatever was answered.
LEMMA DecisionHonest ==
    ASSUME NEW q \in Request, NEW a \in Approver, NEW yes \in BOOLEAN,
           q.status = "pending", Honest(q)
    PROVE  Honest(AddDecision(q, a, yes))
<1> SUFFICES ASSUME MayDecide(q, a) PROVE Honest(AddDecision(q, a, yes))
  BY DEF AddDecision
<1> DEFINE d       == [by |-> a, approved |-> yes]
           more    == Append(q.decisions, d)
           decided == [q EXCEPT !.decisions = Append(@, d)]
<1>1. q.decisions \in Seq(Decision) /\ d \in Decision /\ d.by = a /\ d.approved = yes
  BY DEF Request, Decision
<1>2. /\ Len(q.decisions) \in Nat
      /\ DOMAIN q.decisions = 1..Len(q.decisions)
  BY <1>1, LenProperties
<1>3. decided.decisions = more /\ decided.allowed = q.allowed /\ decided.required = q.required
      /\ decided.status = "pending"
  BY DEF Request
<1>4. \/ ~yes /\ AddDecision(q, a, yes) = [decided EXCEPT !.status = "denied"]
      \/ /\ yes /\ AddDecision(q, a, yes) = [decided EXCEPT !.status = "approved"]
         /\ ApprovalCount(decided) >= q.required
      \/ yes /\ AddDecision(q, a, yes) = decided
  BY DEF AddDecision
<1>5. \A s \in {"denied", "approved"} :
         /\ [decided EXCEPT !.status = s].decisions = more
         /\ [decided EXCEPT !.status = s].allowed = q.allowed
         /\ [decided EXCEPT !.status = s].required = q.required
         /\ [decided EXCEPT !.status = s].status = s
  BY DEF Request
<1>. HIDE DEF d
<1>6. /\ Len(more) = Len(q.decisions) + 1 /\ DOMAIN more = 1..(Len(q.decisions) + 1)
      /\ \A i \in DOMAIN q.decisions : more[i] = q.decisions[i]
      /\ more[Len(q.decisions) + 1] = d
  BY <1>1, <1>2, AppendProperties
<1>. HIDE DEF more, decided
<1>7. \A i \in DOMAIN more : \/ i \in DOMAIN q.decisions /\ more[i] = q.decisions[i]
                             \/ i = Len(q.decisions) + 1 /\ more[i] = d
  BY <1>2, <1>6
<1>8. \A i, j \in DOMAIN more : more[i].by = more[j].by => i = j
  BY <1>1, <1>7 DEF MayDecide, Honest, OneEach
<1>9. \A i \in DOMAIN more : q.allowed = {} \/ more[i].by \in q.allowed
  BY <1>1, <1>7 DEF MayDecide, Honest, InCircle
<1>10. yes => \A i \in DOMAIN more : more[i].approved
  BY <1>1, <1>7 DEF Honest, AllInFavour
<1>11. yes => ApprovalCount(decided) = Len(more)
  <2> SUFFICES ASSUME yes PROVE ApprovalCount(decided) = Len(more)
    OBVIOUS
  <2>1. {i \in DOMAIN more : more[i].approved} = 1..(Len(q.decisions) + 1)
    BY <1>6, <1>10
  <2>2. Cardinality(1..(Len(q.decisions) + 1)) = Len(q.decisions) + 1
    BY <1>2, FS_Interval
  <2>. QED  BY <1>3, <1>6, <2>1, <2>2 DEF ApprovalCount
<1>12. CASE ~yes /\ AddDecision(q, a, yes) = [decided EXCEPT !.status = "denied"]
  BY <1>5, <1>8, <1>9, <1>12 DEF Honest, OneEach, InCircle
<1>13. CASE /\ yes /\ AddDecision(q, a, yes) = [decided EXCEPT !.status = "approved"]
            /\ ApprovalCount(decided) >= q.required
  <2>1. PICK t : t = [decided EXCEPT !.status = "approved"]
    OBVIOUS
  <2>2. /\ t.decisions = more /\ t.allowed = q.allowed /\ t.required = q.required
        /\ t.status = "approved"
    BY <1>5, <2>1
  <2>3. Len(more) >= q.required
    BY <1>11, <1>13
  <2>4. Honest(t)
    BY <1>8, <1>9, <1>10, <1>13, <2>2, <2>3 DEF Honest, OneEach, InCircle, AllInFavour
  <2>. QED  BY <1>13, <2>1, <2>4
<1>14. CASE yes /\ AddDecision(q, a, yes) = decided
  BY <1>3, <1>8, <1>9, <1>10, <1>14 DEF Honest, OneEach, InCircle, AllInFavour
<1>. QED  BY <1>4, <1>12, <1>13, <1>14

\* A request that is refused, expires or is cancelled stays honest.
LEMMA OutcomeHonest ==
    ASSUME NEW q \in Request, Honest(q)
    PROVE  \A s \in {"denied", "expired", "cancelled"} : Honest([q EXCEPT !.status = s])
<1> SUFFICES ASSUME NEW s \in {"denied", "expired", "cancelled"}
    PROVE Honest([q EXCEPT !.status = s])
  OBVIOUS
<1>1. /\ [q EXCEPT !.status = s].decisions = q.decisions
      /\ [q EXCEPT !.status = s].allowed = q.allowed
      /\ [q EXCEPT !.status = s].status = s
  BY DEF Request
<1>. QED  BY <1>1 DEF Honest, OneEach, InCircle

\* A call that writes honest queues and histories leaves honest ones behind,
\* wherever it dies.
LEMMA CommitHonest ==
    ASSUME NEW q, NEW log, NEW passed, NEW final, NEW meant,
           HonestQueue(q), HonestLog(log), HonestDisk(final.disk),
           \A t \in passed : HonestDisk(t.disk),
           Commit(q, log, passed, final, meant)
    PROVE  HonestInv'
<1>1. CASE queue' = q /\ history' = log /\ disk' = final.disk
  BY <1>1 DEF HonestInv, HonestQueue, HonestLog, HonestDisk
<1>2. ASSUME NEW t \in passed, disk' = t.disk, queue' = Nothing, history' = <<>>
      PROVE  HonestInv'
  BY <1>2, NothingHonest DEF HonestInv, HonestQueue, HonestLog, HonestDisk
<1>. QED  BY <1>1, <1>2 DEF Commit, Forget

LEMMA TornHonest ==
    ASSUME NEW d, NEW told, HonestDisk(d)
    PROVE  \A t \in Torn(d, told) : HonestDisk(t.disk)
BY DEF Torn, Trace

\* Either write of an honest queue or history leaves honest files.
LEMMA SaveHonest ==
    ASSUME NEW d \in SomeDisk, HonestDisk(d),
           NEW q \in Queue, HonestQueue(q), NEW log \in Log, HonestLog(log)
    PROVE  HonestDisk(SavePending(d, q)) /\ HonestDisk(SaveHistory(d, log))
BY DEF SomeDisk, Files, SavePending, SaveHistory, HonestDisk

\* Whether it succeeds or fails.
LEMMA WriteHonest ==
    ASSUME NEW d \in SomeDisk, HonestDisk(d),
           NEW q \in Queue, HonestQueue(q), NEW log \in Log, HonestLog(log)
    PROVE  /\ \A e \in PendingWrites(d, q) : e \in SomeDisk /\ HonestDisk(e)
           /\ \A e \in HistoryWrites(d, log) : e \in SomeDisk /\ HonestDisk(e)
<1>1. /\ HonestDisk(SavePending(d, q)) /\ HonestDisk(SavePending(d, Nothing))
      /\ HonestDisk(SaveHistory(d, log)) /\ HonestDisk(SaveHistory(d, <<>>))
  BY SaveHonest, NothingType, NothingHonest
<1>2. /\ \A e \in PendingWrites(d, q) :
            e \in {d, SavePending(d, q), SavePending(d, Nothing)}
      /\ \A e \in HistoryWrites(d, log) :
            e \in {d, SaveHistory(d, log), SaveHistory(d, <<>>)}
  BY Zenon DEF PendingWrites, HistoryWrites, Written
<1>. QED  BY <1>1, <1>2, WriteType

LEMMA PersistHonest ==
    ASSUME ApprovalTypeOK, HonestInv, NEW q \in Queue, HonestQueue(q), PersistPending(q)
    PROVE  HonestInv'
<1>1. Core
  BY TypeParts
<1>2. HonestDisk(SavePending(disk, Nothing))
  BY <1>1, SaveHonest, NothingType, NothingHonest DEF Core, HonestInv
<1>3. \A t \in Torn(SavePending(disk, Nothing), announced) : HonestDisk(t.disk)
  BY <1>2, TornHonest
<1>4. PICK d \in PendingWrites(disk, q) :
          Commit(q, history, Torn(SavePending(disk, Nothing), announced),
                 Trace(d, announced), SavePending(disk, q))
  BY DEF PersistPending
<1>5. HonestDisk(d)
  BY <1>1, <1>4, WriteHonest DEF Core, HonestInv
<1>6. HonestDisk(Trace(d, announced).disk)
  BY <1>5 DEF Trace
<1>. QED  BY <1>3, <1>4, <1>6, CommitHonest DEF HonestInv

LEMMA FinalizeHonest ==
    ASSUME ApprovalTypeOK, HonestInv, NEW r \in RequestId,
           NEW outcome \in Request, Honest(outcome), NEW seen,
           FinalizeRequest(r, outcome, seen)
    PROVE  HonestInv'
<1> DEFINE q     == [queue EXCEPT ![r] = NoRequest]
           log   == Remember(history, <<[id |-> r, request |-> outcome]>>)
           told  == Announce(announced, r, seen)
           meant == SaveHistory(SavePending(disk, q), log)
           passed(gone, saved) ==
               Torn(SavePending(disk, Nothing), announced)
                 \cup {Trace(gone, announced)}
                 \cup Torn(SaveHistory(gone, <<>>), announced)
                 \cup {Trace(saved, announced)}
<1>1. Core
  BY TypeParts
<1>2. q \in Queue /\ HonestQueue(q)
  BY <1>1, NothingType, NothingHonest DEF Queue, Core, HonestQueue, HonestInv
<1>3. log \in Log /\ HonestLog(log)
  <2> DEFINE entry == [id |-> r, request |-> outcome]
  <2>1. entry \in Entry /\ entry.request = outcome
    BY DEF Entry
  <2>. HIDE DEF entry
  <2>2. <<entry>> \in Seq(Entry) /\ DOMAIN <<entry>> = {1} /\ <<entry>>[1] = entry
    BY <2>1
  <2>3. HonestLog(<<entry>>) /\ history \in Seq(Entry) /\ HonestLog(history)
    BY <1>1, <2>1, <2>2 DEF HonestLog, HonestInv, Core, Log
  <2>4. Remember(history, <<entry>>) \in Log /\ HonestLog(Remember(history, <<entry>>))
    BY <2>2, <2>3, RememberType, RememberHonest
  <2>. QED  BY <2>4 DEF entry
<1>4. HonestDisk(disk) /\ disk \in SomeDisk /\ <<>> \in Log /\ Nothing \in Queue
  BY <1>1, NothingType DEF HonestInv, Core
<1>5. PICK gone \in PendingWrites(disk, q) : \E saved \in HistoryWrites(gone, log) :
          Commit(q, log, passed(gone, saved), Trace(saved, told), meant)
  BY DEF FinalizeRequest
<1>6. PICK saved \in HistoryWrites(gone, log) :
          Commit(q, log, passed(gone, saved), Trace(saved, told), meant)
  BY <1>5
<1>. HIDE DEF q, log
<1>7. gone \in SomeDisk /\ HonestDisk(gone) /\ HonestDisk(SavePending(disk, Nothing))
  BY <1>2, <1>3, <1>4, <1>5, WriteHonest, SaveHonest, NothingHonest
<1>8. HonestDisk(saved) /\ HonestDisk(SaveHistory(gone, <<>>))
  BY <1>2, <1>3, <1>4, <1>6, <1>7, WriteHonest, SaveHonest, NothingHonest
<1>9. \A t \in passed(gone, saved) : HonestDisk(t.disk)
  <2>1. /\ HonestDisk(Trace(gone, announced).disk)
        /\ HonestDisk(Trace(saved, announced).disk)
    BY <1>7, <1>8 DEF Trace
  <2>. QED  BY <1>7, <1>8, <2>1, TornHonest
<1>10. HonestDisk(Trace(saved, told).disk)
  BY <1>8 DEF Trace
<1>. HIDE DEF passed, told, meant
<1>. QED  BY <1>2, <1>3, <1>6, <1>9, <1>10, CommitHonest

LEMMA SettleHonest ==
    ASSUME ApprovalTypeOK, HonestInv, NEW r \in RequestId,
           NEW outcome \in Request, Honest(outcome), outcome.status # "none",
           Settle(r, outcome)
    PROVE  HonestInv'
<1>1. Honest([outcome EXCEPT !.status = "denied"])
  BY OutcomeHonest
<1>. QED  BY <1>1, SettleCases, FinalizeHonest DEF ApprovalTypeOK

LEMMA ExpireHonest ==
    ASSUME ApprovalTypeOK, HonestInv, ExpireStale
    PROVE  HonestInv'
<1> DEFINE
      passed(n, stale) == {Trace(disk, Told(stale, k)) : k \in 1..n}
                             \cup Torn(SavePending(disk, Nothing), Told(stale, n))
<1>0. PICK n \in 1..MaxRequests : \E stale \in [1..n -> RequestId] :
          up /\ \E d \in PendingWrites(disk, Fresh) :
                Commit(Fresh, Remember(history, Expired(stale)), passed(n, stale),
                       Trace(d, Told(stale, n)), SavePending(disk, Fresh))
  BY Zenon DEF ExpireStale
<1>1. PICK stale \in [1..n -> RequestId] :
          up /\ \E d \in PendingWrites(disk, Fresh) :
                Commit(Fresh, Remember(history, Expired(stale)), passed(n, stale),
                       Trace(d, Told(stale, n)), SavePending(disk, Fresh))
  BY <1>0
<1>2. Core
  BY TypeParts
<1>3. Fresh \in Queue /\ HonestQueue(Fresh)
  BY <1>2, NothingType, NothingHonest DEF Fresh, Queue, Core, HonestQueue, HonestInv
<1>4. HonestLog(Remember(history, Expired(stale)))
  <2>1. \A i \in 1..n : /\ Expired(stale)[i] \in Entry
                        /\ Honest(Expired(stale)[i].request)
    BY <1>2, OutcomeType, OutcomeHonest
       DEF Entry, Queue, Expired, Core, HonestInv, HonestQueue
  <2>2. DOMAIN Expired(stale) = 1..n /\ Expired(stale) \in [1..n -> Entry] /\ n \in Nat
    BY <2>1 DEF Expired
  <2>3. Expired(stale) \in Seq(Entry) /\ history \in Seq(Entry)
    BY <1>2, <2>2, SeqDef DEF Log, Core
  <2>4. HonestLog(Expired(stale)) /\ HonestLog(history)
    BY <2>1, <2>2 DEF HonestLog, HonestInv
  <2>. QED  BY <2>3, <2>4, RememberHonest
<1>5. HonestDisk(disk) /\ disk \in SomeDisk /\ <<>> \in Log /\ Nothing \in Queue
  BY <1>2, NothingType DEF HonestInv, Core
<1>6. HonestDisk(SavePending(disk, Nothing))
  BY <1>5, SaveHonest, NothingHonest
<1>7. \A t \in passed(n, stale) : HonestDisk(t.disk)
  <2>1. \A k \in 1..n : HonestDisk(Trace(disk, Told(stale, k)).disk)
    BY <1>5 DEF Trace
  <2>2. \A t \in Torn(SavePending(disk, Nothing), Told(stale, n)) : HonestDisk(t.disk)
    BY <1>6, TornHonest
  <2>. QED  BY <2>1, <2>2
<1>8. PICK d \in PendingWrites(disk, Fresh) :
          Commit(Fresh, Remember(history, Expired(stale)), passed(n, stale),
                 Trace(d, Told(stale, n)), SavePending(disk, Fresh))
  BY <1>1
<1>9. HonestDisk(Trace(d, Told(stale, n)).disk)
  <2>1. HonestDisk(d)
    BY <1>3, <1>5, <1>8, WriteHonest, NothingHonest
  <2>. QED  BY <2>1 DEF Trace
<1>. HIDE DEF passed
<1>. QED  BY <1>3, <1>4, <1>7, <1>8, <1>9, CommitHonest

LEMMA CreateHonest ==
    ASSUME ApprovalTypeOK, HonestInv, NEW n \in Required \cup {1},
           NEW circle \in Circles \cup {{}}, Create(n, circle)
    PROVE  HonestInv'
<1> DEFINE new == NewRequest(n, circle)
           q   == [queue EXCEPT ![issued + 1] = new]
<1>1. issued + 1 \in RequestId /\ queue \in Queue
  BY CreateType, TypeParts DEF Core
<1>2. new \in Request /\ Honest(new)
  <2>1. << >> \in Seq(Decision)
    BY EmptySeq
  <2>2. new \in Request
    BY <2>1 DEF NewRequest, Request, ApprovalStatus
  <2>3. new.decisions = <<>> /\ new.status = "pending"
    BY DEF NewRequest
  <2>. QED  BY <2>2, <2>3 DEF Honest, OneEach, InCircle, AllInFavour
<1>. HIDE DEF new
<1>3. q \in Queue /\ HonestQueue(q)
  BY <1>1, <1>2 DEF Queue, HonestQueue, HonestInv
<1>4. PersistPending(q)
  BY DEF Create, new
<1>. HIDE DEF q
<1>. QED  BY <1>3, <1>4, PersistHonest

LEMMA HonestNext == ApprovalTypeOK /\ HonestInv /\ [ApprovalNext]_avars => HonestInv'
<1> SUFFICES ASSUME ApprovalTypeOK, HonestInv, [ApprovalNext]_avars PROVE HonestInv'
  OBVIOUS
<1>0. Core
  BY TypeParts
<1>1. \A r \in RequestId : queue[r] \in Request /\ Honest(queue[r])
  BY <1>0 DEF Core, Queue, HonestInv, HonestQueue
<1>2. ASSUME NEW n \in Required, NEW circle \in Circles, CreateRequest(n, circle)
      PROVE  HonestInv'
  BY <1>2, CreateHonest DEF CreateRequest
<1>3. ASSUME RequestForbidden PROVE HonestInv'
  BY <1>3, CreateHonest DEF RequestForbidden
<1>4. ASSUME NEW r \in RequestId, Refuse(r) PROVE HonestInv'
  <2>1. UNCHANGED <<disk, history>>
    BY <1>4 DEF Refuse
  <2>2. \A x \in RequestId : Honest(queue'[x])
    <3>1. CASE Known(r)
      <4>1. queue' = [queue EXCEPT ![r] = [queue[r] EXCEPT !.status = "denied"]]
        BY <1>4, <3>1 DEF Refuse
      <4>2. Honest([queue[r] EXCEPT !.status = "denied"])
        BY <1>1, OutcomeHonest
      <4>. QED  BY <1>0, <1>1, <4>1, <4>2 DEF Core, Queue
    <3>2. CASE ~Known(r)
      BY <1>1, <1>4, <3>2 DEF Refuse
    <3>. QED  BY <3>1, <3>2
  <2>. QED  BY <2>1, <2>2 DEF HonestInv, HonestQueue, HonestLog, HonestDisk
<1>5. ASSUME NEW r \in RequestId, Cancel(r) PROVE HonestInv'
  BY <1>1, <1>5, OutcomeType, OutcomeHonest, SettleHonest DEF Cancel
<1>6. ASSUME NEW r \in RequestId, NEW a \in Approver, Approve(r, a) PROVE HonestInv'
  <2> DEFINE q == AddDecision(queue[r], a, TRUE)
  <2>1. queue[r].status = "pending"
    BY <1>6 DEF Approve, Resolved
  <2>2. q \in Request /\ Honest(q)
    BY <1>1, <2>1, DecisionType, DecisionHonest
  <2>3. CASE r \in overdue
    BY <1>1, <1>6, <2>3, OutcomeType, OutcomeHonest, SettleHonest DEF Approve
  <2>4. CASE r \notin overdue /\ Resolved(q)
    <3>1. Settle(r, q)
      BY <1>6, <2>4 DEF Approve
    <3>2. q.status # "none"
      BY <2>1 DEF AddDecision
    <3>. HIDE DEF q
    <3>. QED  BY <2>2, <3>1, <3>2, SettleHonest
  <2>5. CASE r \notin overdue /\ ~Resolved(q)
    <3>1. PersistPending([queue EXCEPT ![r] = q])
      BY <1>6, <2>5 DEF Approve
    <3>. HIDE DEF q
    <3>2. [queue EXCEPT ![r] = q] \in Queue /\ HonestQueue([queue EXCEPT ![r] = q])
      BY <1>0, <1>1, <2>2 DEF Core, Queue, HonestQueue
    <3>. QED  BY <3>1, <3>2, PersistHonest
  <2>. QED  BY <2>3, <2>4, <2>5
<1>7. ASSUME NEW r \in RequestId, NEW a \in Approver, Deny(r, a) PROVE HonestInv'
  <2> DEFINE q == AddDecision(queue[r], a, FALSE)
  <2>1. queue[r].status = "pending"
    BY <1>7 DEF Deny, Resolved
  <2>2. q \in Request /\ Honest(q)
    BY <1>1, <2>1, DecisionType, DecisionHonest
  <2>3. Settle(r, q)
    BY <1>7 DEF Deny
  <2>4. q.status # "none"
    BY <2>1 DEF AddDecision
  <2>. HIDE DEF q
  <2>. QED  BY <2>2, <2>3, <2>4, SettleHonest
<1>8. ASSUME ExpireStale PROVE HonestInv'
  BY <1>8, ExpireHonest
<1>9. ASSUME Crash PROVE HonestInv'
  BY <1>9, NothingHonest DEF Crash, Forget, HonestInv, HonestQueue, HonestLog, HonestDisk
<1>10. ASSUME Restart PROVE HonestInv'
  BY <1>10 DEF Restart, HonestInv, HonestQueue, HonestLog, HonestDisk
<1>11. ASSUME UNCHANGED <<queue, history, disk>> PROVE HonestInv'
  BY <1>11 DEF HonestInv, HonestQueue, HonestLog, HonestDisk
<1>12. \A r \in RequestId : Lapse(r) => UNCHANGED <<queue, history, disk>>
  BY DEF Lapse
<1>. QED
  BY <1>2, <1>3, <1>4, <1>5, <1>6, <1>7, <1>8, <1>9, <1>10, <1>11, <1>12
     DEF ApprovalNext, avars

\* The deciders of an honest request are as many as its decisions.
LEMMA OneEachCounts ==
    ASSUME NEW q \in Request, OneEach(q)
    PROVE  Cardinality({q.decisions[k].by : k \in DOMAIN q.decisions}) = Len(q.decisions)
<1> DEFINE n   == Len(q.decisions)
           for == {q.decisions[k].by : k \in DOMAIN q.decisions}
           f   == [k \in 1..n |-> q.decisions[k].by]
<1>1. n \in Nat /\ DOMAIN q.decisions = 1..n
  BY LenProperties DEF Request
<1>. HIDE DEF n
<1>2. f \in Bijection(1..n, for)
  <2>1. f \in [1..n -> for]
    BY <1>1
  <2>2. \A i, j \in 1..n : f[i] = f[j] => i = j
    BY <1>1 DEF OneEach
  <2>3. \A b \in for : \E k \in 1..n : f[k] = b
    BY <1>1
  <2>. HIDE DEF f, for
  <2>. QED  BY <2>1, <2>2, <2>3 DEF Bijection, Injection, IsInjective, Surjection
<1>3. ExistsBijection(1..n, for)
  BY <1>2 DEF ExistsBijection
<1>4. IsFiniteSet(1..n) /\ Cardinality(1..n) = n
  BY <1>1, FS_Interval
<1>. HIDE DEF for
<1>5. Cardinality(for) = Cardinality(1..n)
  BY <1>3, <1>4, FS_Bijection
<1>. QED  BY <1>4, <1>5 DEF n, for

\* Whatever the history holds as approved was approved by as many different
\* people as it asked for, all of them allowed to, and denied by nobody, under
\* every choice of faults and however the decisions are spread over restarts.
THEOREM ApprovalsAreEnough == ApprovalSpec => []ApprovedByEnough
<1>1. ApprovalInit => HonestInv
  BY NothingHonest DEF ApprovalInit, HonestInv, HonestDisk
<1>2. ApprovalTypeOK /\ HonestInv => ApprovedByEnough
  <2> SUFFICES ASSUME ApprovalTypeOK, HonestInv, NEW i \in DOMAIN history,
                      history[i].request.status = "approved"
      PROVE  LET q   == history[i].request
                 for == {q.decisions[k].by : k \in DOMAIN q.decisions}
             IN  /\ Cardinality(for) >= q.required
                 /\ q.allowed = {} \/ for \subseteq q.allowed
                 /\ \A k \in DOMAIN q.decisions : q.decisions[k].approved
    BY DEF ApprovedByEnough
  <2>1. history \in Seq(Entry) /\ history[i] \in Entry
    BY ElementOfSeq, LenProperties DEF ApprovalTypeOK
  <2>2. PICK q \in Request : q = history[i].request
    BY <2>1 DEF Entry
  <2>3. Honest(q) /\ q.status = "approved"
    BY <2>2 DEF HonestInv, HonestLog
  <2>4. Cardinality({q.decisions[k].by : k \in DOMAIN q.decisions}) >= q.required
    <3>1. /\ Cardinality({q.decisions[k].by : k \in DOMAIN q.decisions}) = Len(q.decisions)
          /\ Len(q.decisions) >= q.required
      BY <2>3, OneEachCounts DEF Honest
    <3>. QED  BY <3>1, Zenon
  <2>5. q.allowed = {} \/ {q.decisions[k].by : k \in DOMAIN q.decisions} \subseteq q.allowed
    BY <2>3 DEF Honest, InCircle
  <2>6. \A k \in DOMAIN q.decisions : q.decisions[k].approved
    BY <2>3 DEF Honest, AllInFavour
  <2>. QED  BY <2>2, <2>4, <2>5, <2>6
<1>. QED  BY <1>1, <1>2, HonestNext, ApprovalTypeCorrect, PTL DEF ApprovalSpec

-----------------------------------------------------------------------------
(* Approvals are recorded.  What was announced as approved is in the history   *)
(* file, or the file is full, or a write has failed; the same of the history   *)
(* in memory, which the file will be overwritten with, as long as the process  *)
(* is alive.                                                                   *)

Holds(log, r) == (\E i \in DOMAIN log : log[i].id = r) \/ Len(log) = MaxHistory

HeldIn(log, told) == \A r \in RequestId \ unsaved : "approved" \in told[r] => Holds(log, r)

HeldInv == HeldIn(disk.history, announced) /\ (up => HeldIn(history, announced))

LEMMA RememberHolds ==
    ASSUME NEW log \in Log, NEW entries \in Seq(Entry)
    PROVE  /\ \A r : Holds(log, r) => Holds(Remember(log, entries), r)
           /\ \A i \in DOMAIN entries : Holds(Remember(log, entries), entries[i].id)
<1>1. log \in Seq(Entry) /\ Len(log) <= MaxHistory /\ Len(log) \in Nat
  BY LenProperties DEF Log
<1>2. Remember(log, entries) \in Seq(Entry) /\ Len(Remember(log, entries)) \in Nat
  BY <1>1, RememberType, LenProperties DEF Log
<1>3. Len(Remember(log, entries)) <= MaxHistory /\ MaxHistory \in Nat
  BY <1>1, RememberType, ApprovalQueueAssumption DEF Log
<1>4. CASE Len(Remember(log, entries)) = MaxHistory
  BY <1>4 DEF Holds
<1>5. CASE Len(Remember(log, entries)) # MaxHistory
  <2>1. /\ \A i \in DOMAIN log :
             \E k \in DOMAIN Remember(log, entries) : Remember(log, entries)[k] = log[i]
        /\ \A i \in DOMAIN entries :
             \E k \in DOMAIN Remember(log, entries) : Remember(log, entries)[k] = entries[i]
        /\ Len(log) <= Len(Remember(log, entries))
    BY <1>1, <1>5, RememberKeeps
  <2>2. Len(log) # MaxHistory
    BY <1>1, <1>2, <1>3, <1>5, <2>1
  <2>. QED  BY <2>1, <2>2, Zenon DEF Holds
<1>. QED  BY <1>4, <1>5

\* A call that announces only what its last write of the history holds, unless a
\* write fails: then what has been announced and is not in the file is missing.
LEMMA CommitHeld ==
    ASSUME NEW q, NEW log, NEW passed, NEW final, NEW meant,
           HeldIn(log, final.announced),
           final.disk = meant =>
               /\ HeldIn(final.disk.history, final.announced)
               /\ \A t \in passed : HeldIn(t.disk.history, t.announced),
           Commit(q, log, passed, final, meant)
    PROVE  HeldInv'
<1>1. CASE final.disk = meant
  <2>1. unsaved' = unsaved
    BY <1>1 DEF Commit
  <2>2. CASE history' = log /\ disk' = final.disk /\ announced' = final.announced
    BY <1>1, <2>1, <2>2, Zenon DEF HeldInv, HeldIn, Holds
  <2>3. CASE up' = FALSE /\ \E t \in passed : disk' = t.disk /\ announced' = t.announced
    BY <1>1, <2>1, <2>3, Zenon DEF HeldInv, HeldIn, Holds
  <2>. QED  BY <2>2, <2>3, Zenon DEF Commit, Forget
<1>2. CASE final.disk # meant
  <2>1. unsaved' = unsaved \cup Missing'
    BY <1>2 DEF Commit
  <2>2. HeldIn(disk.history, announced)'
    <3> SUFFICES ASSUME NEW r \in RequestId, r \notin unsaved', "approved" \in announced'[r]
        PROVE  \E i \in DOMAIN disk'.history : disk'.history[i].id = r
      BY DEF HeldIn, Holds
    <3>. QED  BY <2>1 DEF Missing
  <2>3. (up => HeldIn(history, announced))'
    BY <2>1, Zenon DEF Commit, Forget, HeldIn, Holds
  <2>. QED  BY <2>2, <2>3 DEF HeldInv
<1>. QED  BY <1>1, <1>2

LEMMA PersistHeld ==
    ASSUME "tear" \notin Faults, ApprovalTypeOK, HeldInv, up, NEW q \in Queue, PersistPending(q)
    PROVE  HeldInv'
<1>1. Core
  BY TypeParts
<1>2. Torn(SavePending(disk, Nothing), announced) = {}
  BY DEF Torn
<1>3. PICK d \in PendingWrites(disk, q) :
          Commit(q, history, {}, Trace(d, announced), SavePending(disk, q))
  BY <1>2 DEF PersistPending
<1>4. d.history = disk.history
  BY <1>1, <1>3, WriteType, NothingType DEF Core
<1>5. Trace(d, announced).disk.history = disk.history /\ Trace(d, announced).announced = announced
  BY <1>4 DEF Trace
<1>6. HeldIn(history, announced) /\ HeldIn(disk.history, announced)
  BY DEF HeldInv
<1>. QED  BY <1>3, <1>5, <1>6, CommitHeld

LEMMA FinalizeHeld ==
    ASSUME "tear" \notin Faults, ApprovalTypeOK, HeldInv, up, NEW r \in RequestId,
           NEW outcome \in Request, NEW seen, FinalizeRequest(r, outcome, seen)
    PROVE  HeldInv'
<1> DEFINE q     == [queue EXCEPT ![r] = NoRequest]
           log   == Remember(history, <<[id |-> r, request |-> outcome]>>)
           told  == Announce(announced, r, seen)
           meant == SaveHistory(SavePending(disk, q), log)
           passed(gone, saved) ==
               Torn(SavePending(disk, Nothing), announced)
                 \cup {Trace(gone, announced)}
                 \cup Torn(SaveHistory(gone, <<>>), announced)
                 \cup {Trace(saved, announced)}
<1>1. Core
  BY TypeParts
<1>2. /\ \A x : Holds(history, x) => Holds(log, x)
      /\ Holds(log, r)
      /\ log \in Log
  <2> DEFINE entry == [id |-> r, request |-> outcome]
  <2>1. entry \in Entry /\ entry.id = r
    BY DEF Entry
  <2>. HIDE DEF entry
  <2>2. <<entry>> \in Seq(Entry) /\ 1 \in DOMAIN <<entry>> /\ <<entry>>[1] = entry
    BY <2>1
  <2>3. history \in Log /\ history \in Seq(Entry)
    BY <1>1 DEF Core, Log
  <2>4. /\ \A x : Holds(history, x) => Holds(Remember(history, <<entry>>), x)
        /\ Holds(Remember(history, <<entry>>), <<entry>>[1].id)
        /\ Remember(history, <<entry>>) \in Log
    BY <2>2, <2>3, RememberHolds, RememberType
  <2>. QED  BY <2>1, <2>2, <2>4 DEF entry
<1>3. q \in Queue
  BY <1>1, NothingType DEF Queue, Core
<1>4. \A x \in RequestId : told[x] = IF x = r THEN announced[r] \cup {seen}
                                     ELSE announced[x]
  BY <1>1 DEF Core, SomeTold, Announce
<1>5. PICK gone \in PendingWrites(disk, q) : \E saved \in HistoryWrites(gone, log) :
          Commit(q, log, passed(gone, saved), Trace(saved, told), meant)
  BY DEF FinalizeRequest
<1>6. PICK saved \in HistoryWrites(gone, log) :
          Commit(q, log, passed(gone, saved), Trace(saved, told), meant)
  BY <1>5
<1>. HIDE DEF log, q
<1>7. HeldIn(log, told) /\ HeldIn(log, announced) /\ HeldIn(disk.history, announced)
  BY <1>2, <1>4 DEF HeldInv, HeldIn
<1>8. gone \in SomeDisk /\ gone.history = disk.history
  BY <1>1, <1>2, <1>3, <1>5, WriteType DEF Core
<1>9. saved = meant => saved.history = log
  BY <1>1, <1>2, <1>3 DEF Core, SomeDisk, Files, SavePending, SaveHistory
<1>. HIDE DEF told, meant
<1>10. saved = meant => \A t \in passed(gone, saved) : HeldIn(t.disk.history, t.announced)
  <2>1. passed(gone, saved) = {Trace(gone, announced), Trace(saved, announced)}
    BY DEF Torn
  <2>2. /\ Trace(gone, announced).disk = gone /\ Trace(gone, announced).announced = announced
        /\ Trace(saved, announced).disk = saved /\ Trace(saved, announced).announced = announced
    BY DEF Trace
  <2>. QED  BY <1>7, <1>8, <1>9, <2>1, <2>2
<1>11. Trace(saved, told).disk = saved /\ Trace(saved, told).announced = told
  BY DEF Trace
<1>. HIDE DEF passed
<1>. QED  BY <1>6, <1>7, <1>9, <1>10, <1>11, CommitHeld

LEMMA SettleHeld ==
    ASSUME "tear" \notin Faults, ApprovalTypeOK, HeldInv, up, NEW r \in RequestId,
           NEW outcome \in Request, outcome.status # "none", Settle(r, outcome)
    PROVE  HeldInv'
BY SettleCases, FinalizeHeld DEF ApprovalTypeOK

LEMMA ExpireHeld ==
    ASSUME "tear" \notin Faults, ApprovalTypeOK, HeldInv, ExpireStale
    PROVE  HeldInv'
<1> DEFINE
      passed(n, stale) == {Trace(disk, Told(stale, k)) : k \in 1..n}
                             \cup Torn(SavePending(disk, Nothing), Told(stale, n))
<1>0. PICK n \in 1..MaxRequests : \E stale \in [1..n -> RequestId] :
          up /\ \E d \in PendingWrites(disk, Fresh) :
                Commit(Fresh, Remember(history, Expired(stale)), passed(n, stale),
                       Trace(d, Told(stale, n)), SavePending(disk, Fresh))
  BY Zenon DEF ExpireStale
<1>1. PICK stale \in [1..n -> RequestId] :
          up /\ \E d \in PendingWrites(disk, Fresh) :
                Commit(Fresh, Remember(history, Expired(stale)), passed(n, stale),
                       Trace(d, Told(stale, n)), SavePending(disk, Fresh))
  BY <1>0
<1>2. Core
  BY TypeParts
<1>3. \A x : Holds(history, x) => Holds(Remember(history, Expired(stale)), x)
  <2>1. \A i \in 1..n : Expired(stale)[i] \in Entry
    BY <1>2, OutcomeType DEF Entry, Queue, Expired, Core
  <2>2. Expired(stale) \in [1..n -> Entry] /\ n \in Nat
    BY <2>1 DEF Expired
  <2>3. Expired(stale) \in Seq(Entry) /\ history \in Log
    BY <1>2, <2>2, SeqDef DEF Core
  <2>. QED  BY <2>3, RememberHolds
<1>4. \A k \in 1..n : \A r \in RequestId :
          "approved" \in Told(stale, k)[r] => "approved" \in announced[r]
  BY DEF Told
<1>5. \A k \in 1..n : /\ HeldIn(disk.history, Told(stale, k))
                      /\ HeldIn(Remember(history, Expired(stale)), Told(stale, k))
  BY <1>1, <1>3, <1>4 DEF HeldInv, HeldIn
<1>6. n \in 1..n
  OBVIOUS
<1>7. \A t \in passed(n, stale) : HeldIn(t.disk.history, t.announced)
  <2>1. Torn(SavePending(disk, Nothing), Told(stale, n)) = {}
    BY DEF Torn
  <2>2. \A k \in 1..n : /\ Trace(disk, Told(stale, k)).disk.history = disk.history
                        /\ Trace(disk, Told(stale, k)).announced = Told(stale, k)
    BY DEF Trace
  <2>. QED  BY <1>5, <2>1, <2>2
<1>8. PICK d \in PendingWrites(disk, Fresh) :
          Commit(Fresh, Remember(history, Expired(stale)), passed(n, stale),
                 Trace(d, Told(stale, n)), SavePending(disk, Fresh))
  BY <1>1
<1>9. d.history = disk.history
  <2>1. Fresh \in Queue
    BY <1>2, NothingType DEF Fresh, Queue, Core
  <2>. QED  BY <1>2, <1>8, <2>1, WriteType, NothingType DEF Core
<1>10. /\ Trace(d, Told(stale, n)).announced = Told(stale, n)
       /\ Trace(d, Told(stale, n)).disk.history = disk.history
  BY <1>9 DEF Trace
<1>. HIDE DEF passed
<1>. QED  BY <1>5, <1>6, <1>7, <1>8, <1>10, CommitHeld

LEMMA CreateHeld ==
    ASSUME "tear" \notin Faults, ApprovalTypeOK, HeldInv, NEW n \in Required \cup {1},
           NEW circle \in Circles \cup {{}}, Create(n, circle)
    PROVE  HeldInv'
<1> DEFINE q == [queue EXCEPT ![issued + 1] = NewRequest(n, circle)]
<1>1. issued + 1 \in RequestId /\ queue \in Queue
  BY CreateType, TypeParts DEF Core
<1>2. q \in Queue
  <2>1. << >> \in Seq(Decision)
    BY EmptySeq
  <2>2. NewRequest(n, circle) \in Request
    BY <2>1 DEF NewRequest, Request, ApprovalStatus
  <2>. QED  BY <1>1, <2>2 DEF Queue
<1>3. up /\ PersistPending(q)
  BY DEF Create
<1>. HIDE DEF q
<1>. QED  BY <1>2, <1>3, PersistHeld

LEMMA HeldNext ==
    ASSUME "tear" \notin Faults
    PROVE  ApprovalTypeOK /\ HeldInv /\ [ApprovalNext]_avars => HeldInv'
<1> SUFFICES ASSUME ApprovalTypeOK, HeldInv, [ApprovalNext]_avars PROVE HeldInv'
  OBVIOUS
<1>0. Core
  BY TypeParts
<1>1. \A r \in RequestId : queue[r] \in Request
  BY <1>0 DEF Core, Queue
<1>2. ASSUME NEW n \in Required, NEW circle \in Circles, CreateRequest(n, circle)
      PROVE  HeldInv'
  BY <1>2, CreateHeld DEF CreateRequest
<1>3. ASSUME RequestForbidden PROVE HeldInv'
  BY <1>3, CreateHeld DEF RequestForbidden
<1>4. ASSUME NEW r \in RequestId, Cancel(r) PROVE HeldInv'
  BY <1>1, <1>4, OutcomeType, SettleHeld DEF Cancel
<1>5. ASSUME NEW r \in RequestId, NEW a \in Approver, Approve(r, a) PROVE HeldInv'
  <2> DEFINE q == AddDecision(queue[r], a, TRUE)
  <2>1. up
    BY <1>5 DEF Approve
  <2>2. q \in Request
    BY <1>1, DecisionType
  <2>3. CASE r \in overdue
    BY <1>1, <1>5, <2>1, <2>3, OutcomeType, SettleHeld DEF Approve
  <2>4. CASE r \notin overdue /\ Resolved(q)
    <3>1. Settle(r, q)
      BY <1>5, <2>4 DEF Approve
    <3>2. q.status # "none"
      BY <2>4, <1>5 DEF Approve, Known, Resolved, AddDecision
    <3>. HIDE DEF q
    <3>. QED  BY <2>1, <2>2, <3>1, <3>2, SettleHeld
  <2>5. CASE r \notin overdue /\ ~Resolved(q)
    <3>1. PersistPending([queue EXCEPT ![r] = q])
      BY <1>5, <2>5 DEF Approve
    <3>. HIDE DEF q
    <3>2. [queue EXCEPT ![r] = q] \in Queue
      BY <1>0, <2>2 DEF Core, Queue
    <3>. QED  BY <2>1, <3>1, <3>2, PersistHeld
  <2>. QED  BY <2>3, <2>4, <2>5
<1>6. ASSUME NEW r \in RequestId, NEW a \in Approver, Deny(r, a) PROVE HeldInv'
  <2> DEFINE q == AddDecision(queue[r], a, FALSE)
  <2>1. q \in Request
    BY <1>1, DecisionType
  <2>2. up /\ Settle(r, q)
    BY <1>6 DEF Deny
  <2>3. q.status # "none"
    BY <1>1, <1>6 DEF Deny, Known, Resolved, AddDecision
  <2>. HIDE DEF q
  <2>. QED  BY <2>1, <2>2, <2>3, SettleHeld
<1>7. ASSUME ExpireStale PROVE HeldInv'
  BY <1>7, ExpireHeld
<1>8. ASSUME Crash PROVE HeldInv'
  BY <1>8 DEF Crash, Forget, HeldInv, HeldIn, Holds
<1>9. ASSUME Restart PROVE HeldInv'
  BY <1>9 DEF Restart, HeldInv, HeldIn, Holds
<1>10. ASSUME UNCHANGED <<up, history, disk, announced, unsaved>> PROVE HeldInv'
  BY <1>10 DEF HeldInv, HeldIn, Holds
<1>11. \A r \in RequestId : Lapse(r) \/ Refuse(r) => UNCHANGED <<up, history, disk, announced, unsaved>>
  BY DEF Lapse, Refuse
<1>. QED
  BY <1>2, <1>3, <1>4, <1>5, <1>6, <1>7, <1>8, <1>9, <1>10, <1>11 DEF ApprovalNext, avars

\* Whoever has been told that a request is approved will find that in the history
\* file, whenever the process dies between two calls or two writes, until
\* MAX_HISTORY later outcomes have pushed it out; except where the write of a
\* file failed and the call announced all the same.  A write that dies half way
\* truncates the file, and is excluded.
THEOREM ApprovalsAreRecorded ==
    ASSUME "tear" \notin Faults
    PROVE  ApprovalSpec => []ApprovalIsRecorded
<1>1. ApprovalInit => HeldInv
  BY DEF ApprovalInit, HeldInv, HeldIn
<1>2. HeldInv => ApprovalIsRecorded
  BY Zenon DEF HeldInv, HeldIn, Holds, ApprovalIsRecorded
<1>3. ApprovalTypeOK /\ HeldInv /\ [ApprovalNext]_avars => HeldInv'
  BY HeldNext
<1>. QED  BY <1>1, <1>2, <1>3, ApprovalTypeCorrect, PTL DEF ApprovalSpec
=============================================================================
