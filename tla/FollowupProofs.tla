--------------------------- MODULE FollowupProofs ---------------------------
(***************************************************************************)
(* Theorems about the follow-up queue, for any messages, channels, settings *)
(* and number of queue objects.                                             *)
(***************************************************************************)
EXTENDS FollowupQueue, SequenceTheorems, FiniteSetTheorems, TLAPS

(* Items of a queue *)

\* SubSeq from n + 1 on: what stays after n items were removed.
LEMMA Remaining ==
    ASSUME NEW S, NEW s \in Seq(S), NEW n \in Nat
    PROVE  /\ SubSeq(s, n + 1, Len(s)) \in Seq(S)
           /\ Len(SubSeq(s, n + 1, Len(s))) = IF n <= Len(s) THEN Len(s) - n ELSE 0
           /\ \A i \in DOMAIN s : i > n => s[i] \in ToSet(SubSeq(s, n + 1, Len(s)))
<1> DEFINE r == SubSeq(s, n + 1, Len(s))
<1>1. Len(s) \in Nat /\ DOMAIN s = 1..Len(s) /\ \A i \in 1..Len(s) : s[i] \in S
  BY LenProperties, ElementOfSeq
<1>2. \A i \in (n + 1)..Len(s) : s[i] \in S
  BY <1>1
<1>3. /\ r \in Seq(S)
      /\ Len(r) = IF n + 1 <= Len(s) THEN Len(s) - (n + 1) + 1 ELSE 0
      /\ \A i \in 1..(Len(s) - (n + 1) + 1) : r[i] = s[(n + 1) + i - 1]
  BY <1>1, <1>2, SubSeqProperties
<1>4. ASSUME NEW i \in DOMAIN s, i > n
      PROVE  s[i] \in ToSet(r)
  <2>1. i - n \in 1..(Len(s) - (n + 1) + 1) /\ i - n \in 1..Len(r)
    BY <1>1, <1>3, <1>4
  <2>2. r[i - n] = s[i]
    <3>1. r[i - n] = s[(n + 1) + (i - n) - 1]
      BY <1>3, <2>1
    <3>2. (n + 1) + (i - n) - 1 = i
      BY <1>1, <1>4
    <3>. QED  BY <3>1, <3>2
  <2>3. i - n \in DOMAIN r
    BY <1>3, <2>1, LenProperties
  <2>. QED  BY <2>2, <2>3 DEF ToSet
<1>. QED  BY <1>1, <1>3, <1>4

LEMMA Elements ==
    ASSUME NEW s \in Seq(Messages)
    PROVE  /\ ToSet(s) \subseteq Messages
           /\ s = <<>> <=> ToSet(s) = {}
           /\ s # <<>> => Head(s) \in Messages /\ Head(s) = s[1] /\ 1 \in DOMAIN s
<1>1. Len(s) \in Nat /\ DOMAIN s = 1..Len(s) /\ \A i \in 1..Len(s) : s[i] \in Messages
  BY LenProperties, ElementOfSeq
<1>2. s = <<>> <=> Len(s) = 0
  BY EmptySeq
<1>3. ToSet(s) \subseteq Messages
  BY <1>1 DEF ToSet
<1>4. CASE s = <<>>
  <2>1. DOMAIN s = {}
    BY <1>1, <1>2, <1>4
  <2>. QED  BY <1>3, <1>4, <2>1 DEF ToSet
<1>5. CASE s # <<>>
  <2>1. 1 \in DOMAIN s
    BY <1>1, <1>2, <1>5
  <2>2. Head(s) = s[1] /\ s[1] \in Messages /\ s[1] \in ToSet(s)
    BY <1>1, <1>5, <2>1 DEF ToSet
  <2>. QED  BY <1>3, <1>5, <2>1, <2>2
<1>. QED  BY <1>4, <1>5

LEMMA Appended ==
    ASSUME NEW s \in Seq(Messages), NEW m \in Messages
    PROVE  /\ Append(s, m) \in Seq(Messages)
           /\ Append(s, m) # <<>>
           /\ Len(Append(s, m)) = Len(s) + 1
           /\ \A i \in DOMAIN s : i \in DOMAIN Append(s, m) /\ Append(s, m)[i] = s[i]
           /\ ToSet(Append(s, m)) = ToSet(s) \cup {m}
<1>1. /\ Append(s, m) \in Seq(Messages)
      /\ Append(s, m) # <<>>
      /\ Len(Append(s, m)) = Len(s) + 1
      /\ \A i \in 1..Len(s) : Append(s, m)[i] = s[i]
      /\ Append(s, m)[Len(s) + 1] = m
  BY AppendProperties
<1>2. Len(s) \in Nat /\ DOMAIN s = 1..Len(s) /\ DOMAIN Append(s, m) = 1..(Len(s) + 1)
  BY <1>1, LenProperties
<1>. QED  BY <1>1, <1>2 DEF ToSet

LEMMA NewQueues ==
    ASSUME NEW s \in Settings
    PROVE  /\ NewQueue(s) \in QueueObject
           /\ WithinCap(NewQueue(s))
<1>1. s.cap \in Nat
  BY FollowupQueueAssumption
<1>. QED  BY <1>1 DEF NewQueue, QueueObject, WithinCap

\* applyQueueDropPolicy leaves room for one.
LEMMA MakesRoom ==
    ASSUME NEW q \in QueueObject
    PROVE  /\ WithRoom(q) \in QueueObject
           /\ Len(WithRoom(q).items) < q.settings.cap
           /\ WithRoom(q).settings = q.settings
           /\ ~Overflow(q) => WithRoom(q) = q
<1>1. /\ q.items \in Seq(Messages) /\ Len(q.items) \in Nat
      /\ q.settings \in Settings /\ q.settings.cap \in Nat \ {0}
      /\ q.dropped \subseteq Messages
      /\ q = [items |-> q.items, dropped |-> q.dropped, settings |-> q.settings]
  BY FollowupQueueAssumption, LenProperties DEF QueueObject
<1>2. CASE ~Overflow(q)
  BY <1>1, <1>2 DEF WithRoom, Overflow
<1>3. CASE Overflow(q)
  <2> DEFINE n == Excess(q)
             kept == SubSeq(q.items, n + 1, Len(q.items))
             gone == SubSeq(q.items, 1, n)
  <2>1. n \in Nat /\ n <= Len(q.items) /\ Len(q.items) - n = q.settings.cap - 1
    BY <1>1, <1>3 DEF Overflow, Excess
  <2>2. kept \in Seq(Messages) /\ Len(kept) = q.settings.cap - 1
    BY <1>1, <2>1, Remaining
  <2>3. gone \in Seq(Messages)
    <3>1. \A i \in 1..n : q.items[i] \in Messages
      BY <1>1, <2>1, ElementOfSeq
    <3>. QED  BY <3>1, <2>1, SubSeqProperties
  <2>4. ToSet(gone) \subseteq Messages
    BY <2>3, Elements
  <2>5. WithRoom(q) = [q EXCEPT !.items = kept,
                                !.dropped = IF q.settings.dropPolicy = "summarize"
                                            THEN @ \cup ToSet(gone) ELSE @]
    BY <1>3 DEF WithRoom, Removed
  <2> HIDE DEF n, kept, gone
  <2>6. /\ WithRoom(q).items = kept
        /\ WithRoom(q).settings = q.settings
        /\ WithRoom(q).dropped \subseteq Messages
        /\ WithRoom(q) = [items |-> kept, dropped |-> WithRoom(q).dropped, settings |-> q.settings]
    BY <1>1, <2>4, <2>5
  <2>. QED  BY <1>1, <1>3, <2>2, <2>6 DEF QueueObject
<1>. QED  BY <1>2, <1>3

\* The cap removes something whenever it is reached, and nothing before.
LEMMA RemovesSome ==
    ASSUME NEW q \in QueueObject
    PROVE  /\ Removed(q) \subseteq Messages
           /\ Removed(q) # {} <=> Overflow(q)
<1> DEFINE gone == SubSeq(q.items, 1, Excess(q))
<1>1. q.items \in Seq(Messages) /\ Len(q.items) \in Nat /\ q.settings.cap \in Nat \ {0}
  BY FollowupQueueAssumption, LenProperties DEF QueueObject
<1>2. CASE ~Overflow(q)
  BY <1>2 DEF Removed
<1>3. CASE Overflow(q)
  <2>1. Excess(q) \in Nat /\ 1 <= Excess(q) /\ Excess(q) <= Len(q.items)
    BY <1>1, <1>3 DEF Overflow, Excess
  <2>2. \A i \in 1..Excess(q) : q.items[i] \in Messages
    BY <1>1, <2>1, ElementOfSeq
  <2>3. gone \in Seq(Messages) /\ Len(gone) = Excess(q)
    BY <2>1, <2>2, SubSeqProperties
  <2>4. gone # <<>>
    BY <2>1, <2>3, EmptySeq
  <2>5. Removed(q) = ToSet(gone)
    BY <1>3 DEF Removed
  <2> HIDE DEF gone
  <2>. QED  BY <1>3, <2>3, <2>4, <2>5, Elements
<1>. QED  BY <1>2, <1>3

-----------------------------------------------------------------------------
(* Types *)

LEMMA ScheduleTypes ==
    ASSUME NEW qs, NEW ds \in [Queues -> Drain], NEW cur \in Queues \cup {NoQueue},
           ScheduleFollowupDrain(qs, ds, cur)
    PROVE  current' \in Queues \cup {NoQueue} /\ drain' \in [Queues -> Drain]
<1>1. Debounce(FALSE) \in Drain
  BY DEF Debounce, Drain
<1>. QED  BY <1>1 DEF ScheduleFollowupDrain

LEMMA FinishTypes ==
    ASSUME NEW qs, NEW o \in Queues, Finish(o, qs), drain \in [Queues -> Drain],
           current \in Queues \cup {NoQueue}
    PROVE  current' \in Queues \cup {NoQueue} /\ drain' \in [Queues -> Drain]
<1> DEFINE ds == [drain EXCEPT ![o] = Off]
<1>1. ds \in [Queues -> Drain]
  BY DEF Drain
<1>2. CASE Empty(qs[o])
  BY <1>1, <1>2 DEF Finish
<1>3. CASE ~Empty(qs[o])
  <2>1. ScheduleFollowupDrain(qs, ds, current)
    BY <1>3 DEF Finish
  <2>. QED  BY <1>1, <2>1, ScheduleTypes
<1>. QED  BY <1>2, <1>3

LEMMA PlanTypes ==
    ASSUME NEW o \in Queues, FollowupTypeOK, drain[o].at = "debounce", ~NothingToRun(o)
    PROVE  Plan(o) \in Drain /\ Plan(o).messages \subseteq Messages
<1> DEFINE q == queue[o]
<1>1. /\ q.items \in Seq(Messages) /\ Len(q.items) \in Nat
      /\ q.dropped \subseteq Messages /\ q.settings \in Settings
  BY LenProperties DEF FollowupTypeOK, QueueObject
<1>2. drain[o].forced \in BOOLEAN
  BY DEF FollowupTypeOK, Drain, Off
<1>3. ToSet(q.items) \subseteq Messages /\ (q.items # <<>> => Head(q.items) \in Messages)
  BY <1>1, Elements
<1>4. q.items = <<>> => q.settings.mode = "collect" /\ drain[o].forced = FALSE /\ ~CrossChannel(q.items)
  <2>1. q.items = <<>> => ~CrossChannel(q.items)
    BY DEF CrossChannel
  <2>. QED  BY <1>2, <2>1 DEF NothingToRun
<1>6. CrossChannel(q.items) \in BOOLEAN /\ Summary(q) \in BOOLEAN
  BY DEF CrossChannel, Summary
<1> DEFINE forced == drain[o].forced \/ (q.settings.mode = "collect" /\ CrossChannel(q.items))
<1>7. forced \in BOOLEAN
  OBVIOUS
<1> HIDE DEF forced, q
<1>8. CASE q.settings.mode = "collect" /\ ~forced
  <2>1. Plan(o) = Running(forced, ToSet(q.items), Len(q.items), Summary(q))
    BY <1>8 DEF Plan, forced, q
  <2>. QED  BY <1>1, <1>3, <1>6, <1>7, <2>1 DEF Running, Drain
<1>9. CASE q.settings.mode # "collect" /\ Summary(q)
  <2>1. Plan(o) = Running(forced, {}, 1, TRUE)
    BY <1>9 DEF Plan, forced, q
  <2>. QED  BY <1>7, <2>1 DEF Running, Drain
<1>10. CASE ~(q.settings.mode = "collect" /\ ~forced) /\ ~(q.settings.mode # "collect" /\ Summary(q))
  <2>1. Plan(o) = Running(forced, {Head(q.items)}, 1, FALSE)
    BY <1>10 DEF Plan, forced, q
  <2>2. q.items # <<>>
    BY <1>4, <1>10 DEF forced, q
  <2>. QED  BY <1>3, <1>7, <2>1, <2>2 DEF Running, Drain
<1>. QED  BY <1>8, <1>9, <1>10

(* The pieces of enqueueFollowupRun: the queue object it works on, what that
   is before the message, whether the message is taken in, and the result. *)
Target      == IF current # NoQueue THEN current ELSE CHOOSE x \in Queues : ~On(x)
Given(s)    == IF current # NoQueue THEN [queue[Target] EXCEPT !.settings = s] ELSE NewQueue(s)
Taken(m, s) == ~AlreadyQueued(m, Given(s)) /\ ~(Overflow(Given(s)) /\ s.dropPolicy = "new")
Result(m, s) ==
    IF Taken(m, s) THEN [WithRoom(Given(s)) EXCEPT !.items = Append(@, m)] ELSE Given(s)

LEMMA EnqueuePieces ==
    ASSUME NEW m \in Messages, NEW s \in Settings, NEW idle \in BOOLEAN,
           FollowupTypeOK, Enqueue(m, s, idle)
    PROVE  /\ Target \in Queues
           /\ Target = current \/ (current = NoQueue /\ ~On(Target))
           /\ queue' = [queue EXCEPT ![Target] = Result(m, s)]
           /\ idle => ScheduleFollowupDrain(queue', drain, Target)
           /\ ~idle => /\ current' = Target /\ UNCHANGED drain
                       /\ overlooked' = (overlooked \/ OnlyOther)
           /\ IF Taken(m, s)
              THEN /\ recent' = recent \cup {m}
                   /\ accepted' = [accepted EXCEPT ![m] = @ + 1]
                   /\ capped' = capped \cup Removed(Given(s))
                   /\ disturbed' = (disturbed \/ (Overflow(Given(s)) /\ drain[Target].at = "running"))
              ELSE UNCHANGED <<recent, accepted, capped, disturbed>>
           /\ ~disturbed' => ~disturbed
           /\ MayBeIdle(idle)
           /\ UNCHANGED <<turn, other, runs, failed, cleared>>
<1>1. /\ current # NoQueue \/ \E x \in Queues : ~On(x)
      /\ MayBeIdle(idle)
      /\ queue' = [queue EXCEPT ![Target] = Result(m, s)]
      /\ IF idle THEN ScheduleFollowupDrain(queue', drain, Target)
                 ELSE /\ current' = Target /\ UNCHANGED drain
                      /\ overlooked' = (overlooked \/ OnlyOther)
      /\ IF Taken(m, s)
         THEN /\ recent' = recent \cup {m}
              /\ accepted' = [accepted EXCEPT ![m] = @ + 1]
              /\ capped' = capped \cup Removed(Given(s))
              /\ disturbed' = (disturbed \/ (Overflow(Given(s)) /\ drain[Target].at = "running"))
         ELSE UNCHANGED <<recent, accepted, capped, disturbed>>
      /\ UNCHANGED <<turn, other, runs, failed, cleared>>
  BY DEF Enqueue, Target, Given, Taken, Result
<1>2. Target \in Queues /\ (Target = current \/ (current = NoQueue /\ ~On(Target)))
  BY <1>1 DEF Target, FollowupTypeOK
<1>3. ~disturbed' => ~disturbed
  BY <1>1, Zenon
<1>. QED  BY <1>1, <1>2, <1>3

LEMMA EnqueueObjects ==
    ASSUME NEW m \in Messages, NEW s \in Settings, FollowupTypeOK, Target \in Queues
    PROVE  /\ Given(s) \in QueueObject /\ WithinCap(Given(s)) /\ Given(s).settings = s
           /\ Result(m, s) \in QueueObject /\ WithinCap(Result(m, s))
<1>1. Given(s) \in QueueObject /\ WithinCap(Given(s)) /\ Given(s).settings = s
  <2>1. CASE current # NoQueue
    <3>1. queue[Target] \in QueueObject /\ WithinCap(queue[Target])
      BY DEF FollowupTypeOK
    <3>2. Given(s) = [items |-> queue[Target].items, dropped |-> queue[Target].dropped, settings |-> s]
      BY <2>1, <3>1 DEF Given, QueueObject
    <3>. QED  BY <3>1, <3>2 DEF QueueObject, WithinCap
  <2>2. CASE current = NoQueue
    BY <2>2, NewQueues DEF Given, NewQueue
  <2>. QED  BY <2>1, <2>2
<1>2. CASE ~Taken(m, s)
  BY <1>1, <1>2 DEF Result
<1>3. CASE Taken(m, s)
  <2> DEFINE room == WithRoom(Given(s))
             all  == Append(room.items, m)
  <2>1. room \in QueueObject /\ Len(room.items) < s.cap /\ room.settings = s
    BY <1>1, MakesRoom
  <2>2. room.items \in Seq(Messages) /\ Len(room.items) \in Nat /\ s.cap \in Nat
    BY <2>1, LenProperties, FollowupQueueAssumption DEF QueueObject
  <2>3. all \in Seq(Messages) /\ Len(all) <= s.cap
    BY <2>1, <2>2, Appended
  <2>4. Result(m, s) = [room EXCEPT !.items = all]
    BY <1>3 DEF Result
  <2> HIDE DEF room, all
  <2>5. Result(m, s) = [items |-> all, dropped |-> room.dropped, settings |-> s]
    BY <2>1, <2>4 DEF QueueObject
  <2>. QED  BY <1>1, <2>1, <2>3, <2>5 DEF QueueObject, WithinCap
<1>. QED  BY <1>1, <1>2, <1>3

\* What a run leaves is a queue again.
LEMMA AfterRunTypes ==
    ASSUME NEW o \in Queues, FollowupTypeOK, drain[o].at = "running"
    PROVE  AfterRun(o) \in QueueObject /\ WithinCap(AfterRun(o))
<1> DEFINE n    == drain[o].remove
           left == SubSeq(queue[o].items, n + 1, Len(queue[o].items))
<1>1. /\ queue[o] \in QueueObject /\ WithinCap(queue[o])
      /\ queue[o].items \in Seq(Messages) /\ Len(queue[o].items) \in Nat
  BY LenProperties DEF FollowupTypeOK, QueueObject
<1>2. n \in Nat
  <2>1. drain[o] \in Drain /\ drain[o] # Off
    BY DEF FollowupTypeOK, Off
  <2>. QED  BY <2>1 DEF Drain
<1>3. left \in Seq(Messages) /\ Len(left) \in Nat /\ Len(left) <= Len(queue[o].items)
  <2>1. /\ left \in Seq(Messages)
        /\ Len(left) = IF n <= Len(queue[o].items) THEN Len(queue[o].items) - n ELSE 0
    BY <1>1, <1>2, Remaining
  <2> HIDE DEF left, n
  <2>. QED  BY <1>1, <1>2, <2>1
<1>4. AfterRun(o) = [queue[o] EXCEPT !.items = left, !.dropped = IF drain[o].summary THEN {} ELSE @]
  BY DEF AfterRun
<1> HIDE DEF left
<1>5. /\ AfterRun(o) = [items |-> left, dropped |-> AfterRun(o).dropped, settings |-> queue[o].settings]
      /\ AfterRun(o).dropped \subseteq queue[o].dropped
  BY <1>1, <1>4 DEF QueueObject
<1>6. \A s \in Settings : s.cap \in Nat
  BY FollowupQueueAssumption
<1>7. AfterRun(o).items = left
  BY <1>5
<1>8. WithinCap(AfterRun(o))
  BY <1>1, <1>3, <1>6, <1>7 DEF WithinCap
<1>. QED  BY <1>1, <1>3, <1>5, <1>8 DEF QueueObject

LEMMA TypesHoldAtFirst == Init => FollowupTypeOK
<1> SUFFICES ASSUME Init PROVE FollowupTypeOK
  OBVIOUS
<1>1. PICK s \in Settings : s = (CHOOSE x \in Settings : TRUE)
  BY FollowupQueueAssumption
<1>2. queue \in [Queues -> {NewQueue(s)}]
  BY <1>1 DEF Init
<1>3. NewQueue(s) \in QueueObject /\ WithinCap(NewQueue(s))
  BY NewQueues
<1>4. queue \in [Queues -> QueueObject] /\ \A o \in Queues : WithinCap(queue[o])
  BY <1>2, <1>3
<1>5. drain \in [Queues -> Drain]
  BY DEF Init, Drain
<1>6. {turn, other, overlooked, disturbed} \subseteq BOOLEAN
  BY DEF Init
<1>7. {accepted, runs, failed} \subseteq [Messages -> Nat]
  BY DEF Init
<1>8. current \in Queues \cup {NoQueue} /\ {recent, cleared, capped} \subseteq SUBSET Messages
  BY DEF Init
<1>. QED  BY <1>4, <1>5, <1>6, <1>7, <1>8 DEF FollowupTypeOK

LEMMA TypesAreKept == FollowupTypeOK /\ [Next]_vars => FollowupTypeOK'
<1> SUFFICES ASSUME FollowupTypeOK, [Next]_vars PROVE FollowupTypeOK'
  OBVIOUS
<1>t. /\ queue \in [Queues -> QueueObject]
      /\ \A o \in Queues : WithinCap(queue[o])
      /\ drain \in [Queues -> Drain]
      /\ current \in Queues \cup {NoQueue}
      /\ turn \in BOOLEAN /\ other \in BOOLEAN /\ overlooked \in BOOLEAN
      /\ disturbed \in BOOLEAN
      /\ recent \subseteq Messages /\ cleared \subseteq Messages /\ capped \subseteq Messages
      /\ accepted \in [Messages -> Nat] /\ runs \in [Messages -> Nat]
      /\ failed \in [Messages -> Nat]
  BY DEF FollowupTypeOK
<1>q. ASSUME queue' = queue
      PROVE  queue' \in [Queues -> QueueObject] /\ \A o \in Queues : WithinCap(queue'[o])
  BY <1>t, <1>q
<1>1. ASSUME NEW m \in Messages, NEW s \in Settings, NEW idle \in BOOLEAN, Enqueue(m, s, idle)
      PROVE  FollowupTypeOK'
  <2>1. /\ Target \in Queues
        /\ queue' = [queue EXCEPT ![Target] = Result(m, s)]
        /\ idle => ScheduleFollowupDrain(queue', drain, Target)
        /\ ~idle => current' = Target /\ drain' = drain
        /\ recent' = recent \cup {m} \/ recent' = recent
        /\ accepted' = [accepted EXCEPT ![m] = @ + 1] \/ accepted' = accepted
        /\ capped' = capped \cup Removed(Given(s)) \/ capped' = capped
        /\ \/ disturbed' = (disturbed \/ (Overflow(Given(s)) /\ drain[Target].at = "running"))
           \/ disturbed' = disturbed
        /\ UNCHANGED <<turn, other, runs, failed, cleared>>
    BY <1>1, EnqueuePieces
  <2>2. Result(m, s) \in QueueObject /\ WithinCap(Result(m, s))
    BY <2>1, EnqueueObjects
  <2>3. queue' \in [Queues -> QueueObject] /\ \A o \in Queues : WithinCap(queue'[o])
    BY <1>t, <2>1, <2>2
  <2>4. current' \in Queues \cup {NoQueue} /\ drain' \in [Queues -> Drain]
    BY <1>t, <2>1, ScheduleTypes
  <2>5. disturbed' \in BOOLEAN /\ capped' \subseteq Messages
    <3>1. Removed(Given(s)) \subseteq Messages
      BY <2>1, EnqueueObjects, RemovesSome
    <3>. QED  BY <1>t, <2>1, <3>1 DEF Overflow
  <2>6. recent' \subseteq Messages /\ accepted' \in [Messages -> Nat]
    BY <1>t, <2>1
  <2>7. overlooked' \in BOOLEAN
    <3>1. CASE idle
      BY <2>1, <3>1 DEF ScheduleFollowupDrain
    <3>2. CASE ~idle
      <4>1. overlooked' = (overlooked \/ OnlyOther)
        BY <1>1, <3>2, EnqueuePieces
      <4>. QED  BY <4>1, Zenon
    <3>. QED  BY <3>1, <3>2
  <2>. QED  BY <1>t, <2>1, <2>3, <2>4, <2>5, <2>6, <2>7 DEF FollowupTypeOK
<1>2. ASSUME NEW m \in Messages, Forget(m)
      PROVE  FollowupTypeOK'
  BY <1>2, <1>t, <1>q DEF Forget, history, FollowupTypeOK
<1>3. CASE StartTurn \/ OtherRunBegins \/ OtherRunEnds
  BY <1>3, <1>t, <1>q DEF StartTurn, OtherRunBegins, OtherRunEnds, history, FollowupTypeOK
<1>4. CASE EndTurn
  <2>1. /\ current' \in Queues \cup {NoQueue} /\ drain' \in [Queues -> Drain]
        /\ overlooked' = FALSE
    BY <1>4, <1>t, ScheduleTypes DEF EndTurn, ScheduleFollowupDrain
  <2>. QED  BY <1>4, <1>t, <1>q, <2>1 DEF EndTurn, history, FollowupTypeOK
<1>5. CASE Clear
  <2> DEFINE q == [queue[current] EXCEPT !.items = <<>>, !.dropped = {}]
  <2>1. current \in Queues /\ queue' = [queue EXCEPT ![current] = q]
    BY <1>5, <1>t DEF Clear
  <2>2. queue[current] \in QueueObject /\ WithinCap(queue[current])
    BY <1>t, <2>1
  <2>b. <<>> \in Seq(Messages) /\ {} \in SUBSET Messages
    BY EmptySeq
  <2>3. q \in QueueObject /\ q.items = <<>>
    <3>1. \A p \in QueueObject, s \in Seq(Messages), d \in SUBSET Messages :
              /\ [p EXCEPT !.items = s, !.dropped = d] \in QueueObject
              /\ [p EXCEPT !.items = s, !.dropped = d].items = s
      BY DEF QueueObject
    <3>. QED  BY <2>2, <2>b, <3>1, Zenon
  <2>5. WithinCap(q)
    <3>1. PICK s \in Settings : Len(queue[current].items) <= s.cap
      BY <2>2 DEF WithinCap
    <3>2. Len(q.items) = 0 /\ s.cap \in Nat
      BY <2>3, FollowupQueueAssumption
    <3>3. Len(q.items) <= s.cap
      BY <3>2
    <3>. QED  BY <3>3 DEF WithinCap
  <2> HIDE DEF q
  <2>6. queue' \in [Queues -> QueueObject] /\ \A o \in Queues : WithinCap(queue'[o])
    BY <1>t, <2>1, <2>3, <2>5
  <2>7. cleared' \subseteq Messages
    <3>1. ToSet(queue[current].items) \subseteq Messages /\ queue[current].dropped \subseteq Messages
      BY <2>2, Elements DEF QueueObject
    <3>. QED  BY <1>5, <1>t, <3>1 DEF Clear
  <2>8. disturbed' \in BOOLEAN
    BY <1>5 DEF Clear, On
  <2>. QED  BY <1>5, <1>t, <2>6, <2>7, <2>8 DEF Clear, FollowupTypeOK
<1>6. ASSUME NEW o \in Queues, Break(o) \/ Refused(o)
      PROVE  FollowupTypeOK'
  <2>1. Finish(o, queue) /\ UNCHANGED <<queue, turn, other, recent, history, events>>
    BY <1>6 DEF Break, Refused
  <2>2. /\ current' \in Queues \cup {NoQueue} /\ drain' \in [Queues -> Drain]
        /\ overlooked' = FALSE
    BY <1>t, <2>1, FinishTypes DEF Finish, ScheduleFollowupDrain
  <2>. QED  BY <1>t, <1>q, <2>1, <2>2 DEF history, FollowupTypeOK
<1>7. ASSUME NEW o \in Queues, StartRun(o)
      PROVE  FollowupTypeOK'
  <2>1. Plan(o) \in Drain
    BY <1>7, PlanTypes DEF StartRun
  <2>2. drain' \in [Queues -> Drain]
    BY <1>7, <1>t, <2>1 DEF StartRun
  <2>3. runs' \in [Messages -> Nat]
    BY <1>7, <1>t DEF StartRun
  <2>. QED  BY <1>7, <1>t, <1>q, <2>2, <2>3 DEF StartRun, FollowupTypeOK
<1>8. ASSUME NEW o \in Queues, RunEnds(o)
      PROVE  FollowupTypeOK'
  <2>1. AfterRun(o) \in QueueObject /\ WithinCap(AfterRun(o))
    BY <1>8, AfterRunTypes DEF RunEnds
  <2>2. queue' = [queue EXCEPT ![o] = AfterRun(o)] /\ UNCHANGED <<turn, other, recent, history, events>>
    BY <1>8 DEF RunEnds
  <2>3. queue' \in [Queues -> QueueObject] /\ \A x \in Queues : WithinCap(queue'[x])
    BY <1>t, <2>1, <2>2
  <2>4. /\ current' \in Queues \cup {NoQueue} /\ drain' \in [Queues -> Drain]
        /\ overlooked' \in BOOLEAN
    <3>1. CASE Finish(o, queue')
      BY <1>t, <3>1, FinishTypes DEF Finish, ScheduleFollowupDrain
    <3>2. CASE /\ drain' = [drain EXCEPT ![o] = Debounce(drain[o].forced)]
               /\ UNCHANGED <<current, overlooked>>
      <4>1. drain[o] \in Drain /\ drain[o] # Off
        BY <1>8, <1>t DEF RunEnds, Off
      <4>2. drain[o].forced \in BOOLEAN
        BY <4>1 DEF Drain
      <4>3. Debounce(drain[o].forced) \in Drain
        BY <4>2 DEF Debounce, Drain
      <4>. QED  BY <1>t, <3>2, <4>3
    <3>. QED  BY <1>8, <3>1, <3>2 DEF RunEnds
  <2>. QED  BY <1>t, <2>2, <2>3, <2>4 DEF history, FollowupTypeOK
<1>9. ASSUME NEW o \in Queues, RunFails(o)
      PROVE  FollowupTypeOK'
  <2>1. /\ current' \in Queues \cup {NoQueue} /\ drain' \in [Queues -> Drain]
        /\ overlooked' = FALSE
    BY <1>9, <1>t, FinishTypes DEF RunFails, Finish, ScheduleFollowupDrain
  <2>2. failed' \in [Messages -> Nat]
    BY <1>9, <1>t DEF RunFails
  <2>. QED  BY <1>9, <1>t, <1>q, <2>1, <2>2 DEF RunFails, FollowupTypeOK
<1>10. CASE UNCHANGED vars
  BY <1>10, <1>t, <1>q DEF vars, history, FollowupTypeOK
<1>. QED  BY <1>1, <1>2, <1>3, <1>4, <1>5, <1>6, <1>7, <1>8, <1>9, <1>10 DEF Next

\* The follow-up queue keeps its types, and no queue holds more items than some
\* cap allows: applyQueueDropPolicy makes room before an item is added.
THEOREM FollowupTypeCorrect == Spec => []FollowupTypeOK
BY TypesHoldAtFirst, TypesAreKept, PTL DEF Spec

-----------------------------------------------------------------------------
(* Nobody waits with nobody to look *)

\* NoStrandedQueue without the messages: with no drain on, only the key's own
\* queue could hold any.
Looked ==
    \/ turn \/ (\E o \in Queues : On(o)) \/ overlooked
    \/ current = NoQueue \/ queue[current].items = <<>>

LEMMA ScheduleLooks ==
    ASSUME NEW qs, NEW ds \in [Queues -> Drain], NEW cur \in Queues \cup {NoQueue},
           ScheduleFollowupDrain(qs, ds, cur)
    PROVE  current' = NoQueue \/ \E o \in Queues : drain'[o].at # "off"
<1>1. CASE cur # NoQueue /\ ds[cur].at = "off" /\ ~Empty(qs[cur])
  <2>1. cur \in Queues /\ drain' = [ds EXCEPT ![cur] = Debounce(FALSE)]
    BY <1>1 DEF ScheduleFollowupDrain
  <2>2. drain'[cur].at = "debounce"
    BY <2>1 DEF Debounce
  <2>. QED  BY <2>1, <2>2
<1>2. CASE cur # NoQueue /\ ds[cur].at = "off" /\ Empty(qs[cur])
  BY <1>2 DEF ScheduleFollowupDrain
<1>3. CASE ~(cur # NoQueue /\ ds[cur].at = "off")
  <2>1. current' = cur /\ drain' = ds
    BY <1>3 DEF ScheduleFollowupDrain
  <2>. QED  BY <1>3, <2>1
<1>. QED  BY <1>1, <1>2, <1>3

LEMMA FinishLooks ==
    ASSUME NEW qs, NEW o \in Queues, Finish(o, qs), drain \in [Queues -> Drain],
           current \in Queues \cup {NoQueue}
    PROVE  current' = NoQueue \/ \E x \in Queues : drain'[x].at # "off"
<1> DEFINE ds == [drain EXCEPT ![o] = Off]
<1>1. ds \in [Queues -> Drain]
  BY DEF Drain
<1>2. current' = NoQueue \/ ScheduleFollowupDrain(qs, ds, current)
  BY DEF Finish
<1>. QED  BY <1>1, <1>2, ScheduleLooks

LEMMA LookedIsKept == FollowupTypeOK /\ Looked /\ [Next]_vars => Looked'
<1> SUFFICES ASSUME FollowupTypeOK, Looked, [Next]_vars PROVE Looked'
  OBVIOUS
<1>t. drain \in [Queues -> Drain] /\ current \in Queues \cup {NoQueue}
  BY DEF FollowupTypeOK
<1>g. ASSUME current' = NoQueue \/ \E x \in Queues : drain'[x].at # "off"
      PROVE  Looked'
  BY <1>g DEF Looked, On
<1>1. ASSUME NEW m \in Messages, NEW s \in Settings, NEW idle \in BOOLEAN, Enqueue(m, s, idle)
      PROVE  Looked'
  <2>1. /\ Target \in Queues
        /\ idle => ScheduleFollowupDrain(queue', drain, Target)
        /\ ~idle => drain' = drain /\ overlooked' = (overlooked \/ OnlyOther)
        /\ MayBeIdle(idle) /\ turn' = turn
    BY <1>1, EnqueuePieces
  <2>2. CASE idle
    BY <1>t, <1>g, <2>1, <2>2, ScheduleLooks
  <2>3. CASE ~idle
    <3>1. turn \/ (\E o \in Queues : drain[o].at # "off") \/ OnlyOther
      BY <2>1, <2>3 DEF MayBeIdle, Active, OnlyOther, On
    <3>. QED  BY <1>g, <2>1, <2>3, <3>1 DEF Looked
  <2>. QED  BY <2>2, <2>3
<1>2. ASSUME NEW m \in Messages, Forget(m)
      PROVE  Looked'
  BY <1>2 DEF Forget, Looked, On
<1>3. CASE StartTurn \/ OtherRunBegins \/ OtherRunEnds
  BY <1>3 DEF StartTurn, OtherRunBegins, OtherRunEnds, Looked, On
<1>4. CASE EndTurn
  BY <1>4, <1>t, <1>g, ScheduleLooks DEF EndTurn
<1>5. CASE Clear
  BY <1>5, <1>g DEF Clear
<1>6. ASSUME NEW o \in Queues, Break(o) \/ Refused(o) \/ RunFails(o)
      PROVE  Looked'
  BY <1>6, <1>t, <1>g, FinishLooks DEF Break, Refused, RunFails
<1>7. ASSUME NEW o \in Queues, StartRun(o)
      PROVE  Looked'
  <2>1. drain'[o].at = "running"
    BY <1>7, <1>t DEF StartRun, Plan, Running
  <2>. QED  BY <1>g, <2>1
<1>8. ASSUME NEW o \in Queues, RunEnds(o)
      PROVE  Looked'
  <2>1. CASE Finish(o, queue')
    BY <1>t, <1>g, <2>1, FinishLooks
  <2>2. CASE drain' = [drain EXCEPT ![o] = Debounce(drain[o].forced)]
    <3>1. drain'[o].at = "debounce"
      BY <1>t, <2>2 DEF Debounce
    <3>. QED  BY <1>g, <3>1
  <2>. QED  BY <1>8, <2>1, <2>2 DEF RunEnds
<1>9. CASE UNCHANGED vars
  BY <1>9 DEF vars, Looked, On
<1>. QED  BY <1>1, <1>2, <1>3, <1>4, <1>5, <1>6, <1>7, <1>8, <1>9 DEF Next

LEMMA LookedSuffices == FollowupTypeOK /\ Looked => NoStrandedQueue
<1> SUFFICES ASSUME FollowupTypeOK, Looked, ~Active, ~overlooked, \A o \in Queues : ~On(o),
                    NEW m \in Messages, Waiting(m)
             PROVE  FALSE
  BY DEF NoStrandedQueue
<1>1. current \in Queues /\ m \in ToSet(queue[current].items)
  BY DEF Waiting
<1>2. queue[current].items \in Seq(Messages) /\ queue[current].items # <<>>
  <2>1. queue[current].items \in Seq(Messages)
    BY <1>1 DEF FollowupTypeOK, QueueObject
  <2>. QED  BY <1>1, <2>1, Elements
<1>. QED  BY <1>1, <1>2, FollowupQueueAssumption DEF Looked, Active

\* When no run and no drain goes on, no message waits: whoever takes a message
\* in asks again whether the run still goes on (isRunActive), and every end of a
\* run or of a drain looks at the key's queue.
THEOREM NoQueueIsStranded == Spec => []NoStrandedQueue
<1>1. Init => Looked
  BY DEF Init, Looked
<1>. QED
  BY <1>1, TypesHoldAtFirst, TypesAreKept, LookedIsKept, LookedSuffices, PTL DEF Spec

-----------------------------------------------------------------------------
(* No message is lost *)

\* Only the key's own queue is drained, as long as it was never cleared under
\* its drain.
OneDrain == ~disturbed => \A o \in Queues : On(o) => o = current

\* Nothing is dropped before the cap is reached.
NoneDropped == capped = {} => \A o \in Queues : queue[o].dropped = {}

\* What the end of a run will remove is what it runs.
RunsWhatItRemoves ==
    capped = {} /\ ~disturbed =>
        \A o \in Queues : drain[o].at = "running" =>
            /\ drain[o].remove <= Len(queue[o].items)
            /\ \A i \in DOMAIN queue[o].items :
                  i <= drain[o].remove => runs[queue[o].items[i]] > 0

LEMMA ScheduleKeepsOne ==
    ASSUME NEW qs, NEW ds \in [Queues -> Drain], NEW cur \in Queues \cup {NoQueue},
           ScheduleFollowupDrain(qs, ds, cur),
           \A x \in Queues : ds[x].at # "off" => x = cur
    PROVE  /\ \A x \in Queues : drain'[x].at # "off" => x = current'
           /\ \A x \in Queues : drain'[x].at = "running" => drain'[x] = ds[x]
           /\ cur \in Queues /\ ~Empty(qs[cur]) => current' = cur
<1>1. CASE cur # NoQueue /\ ds[cur].at = "off" /\ ~Empty(qs[cur])
  <2>1. cur \in Queues /\ current' = cur /\ drain' = [ds EXCEPT ![cur] = Debounce(FALSE)]
    BY <1>1 DEF ScheduleFollowupDrain
  <2>2. drain'[cur].at = "debounce" /\ \A x \in Queues : x # cur => drain'[x] = ds[x]
    BY <2>1 DEF Debounce
  <2>. QED  BY <2>1, <2>2
<1>2. CASE cur # NoQueue /\ ds[cur].at = "off" /\ Empty(qs[cur])
  <2>1. current' = NoQueue /\ drain' = ds
    BY <1>2 DEF ScheduleFollowupDrain
  <2>. QED  BY <1>2, <2>1
<1>3. CASE ~(cur # NoQueue /\ ds[cur].at = "off")
  <2>1. current' = cur /\ drain' = ds
    BY <1>3 DEF ScheduleFollowupDrain
  <2>. QED  BY <2>1
<1>. QED  BY <1>1, <1>2, <1>3

\* The end of the only drain.
LEMMA FinishKeepsOne ==
    ASSUME NEW qs, NEW o \in Queues, Finish(o, qs), On(o), drain \in [Queues -> Drain],
           \A x \in Queues : On(x) => x = current
    PROVE  /\ \A x \in Queues : drain'[x].at # "off" => x = current'
           /\ \A x \in Queues : drain'[x].at # "running"
           /\ ~Empty(qs[o]) => current' = o
<1> DEFINE ds == [drain EXCEPT ![o] = Off]
<1>1. o = current /\ ds \in [Queues -> Drain] /\ \A x \in Queues : ds[x].at = "off"
  BY DEF On, Drain, Off
<1>2. CASE Empty(qs[o])
  <2>1. drain' = ds
    BY <1>2 DEF Finish
  <2>. QED  BY <1>1, <1>2, <2>1
<1>3. CASE ~Empty(qs[o])
  <2>1. ScheduleFollowupDrain(qs, ds, current)
    BY <1>3 DEF Finish
  <2> HIDE DEF ds
  <2>2. /\ \A x \in Queues : drain'[x].at # "off" => x = current'
        /\ \A x \in Queues : drain'[x].at = "running" => drain'[x] = ds[x]
        /\ ~Empty(qs[o]) => current' = o
    BY <1>1, <2>1, ScheduleKeepsOne, ZenonT(60)
  <2>. QED  BY <1>1, <2>2
<1>. QED  BY <1>2, <1>3

LEMMA OneDrainIsKept == FollowupTypeOK /\ OneDrain /\ [Next]_vars => OneDrain'
<1> SUFFICES ASSUME FollowupTypeOK, OneDrain, [Next]_vars, ~disturbed'
             PROVE  \A x \in Queues : drain'[x].at # "off" => x = current'
  BY DEF OneDrain, On
<1>t. /\ drain \in [Queues -> Drain] /\ current \in Queues \cup {NoQueue}
      /\ NoQueue \notin Queues
  BY FollowupQueueAssumption DEF FollowupTypeOK
<1>o. ~disturbed => \A x \in Queues : drain[x].at # "off" => x = current
  BY DEF OneDrain, On
<1>c. ASSUME disturbed' = disturbed
      PROVE  \A x \in Queues : drain[x].at # "off" => x = current
  BY <1>c, <1>o
<1>1. ASSUME NEW m \in Messages, NEW s \in Settings, NEW idle \in BOOLEAN, Enqueue(m, s, idle)
      PROVE  \A x \in Queues : drain'[x].at # "off" => x = current'
  <2>1. /\ Target \in Queues
        /\ Target = current \/ current = NoQueue
        /\ idle => ScheduleFollowupDrain(queue', drain, Target)
        /\ ~idle => current' = Target /\ drain' = drain
        /\ ~disturbed
    BY <1>1, EnqueuePieces
  <2>2. \A x \in Queues : drain[x].at # "off" => x = Target
    BY <1>t, <1>o, <2>1
  <2>. QED  BY <1>t, <2>1, <2>2, ScheduleKeepsOne
<1>2. ASSUME NEW m \in Messages, Forget(m)
      PROVE  \A x \in Queues : drain'[x].at # "off" => x = current'
  BY <1>2, <1>c DEF Forget, history
<1>3. CASE StartTurn \/ OtherRunBegins \/ OtherRunEnds
  BY <1>3, <1>c DEF StartTurn, OtherRunBegins, OtherRunEnds, history
<1>4. CASE EndTurn
  BY <1>4, <1>t, <1>c, ScheduleKeepsOne DEF EndTurn, history
<1>5. CASE Clear
  <2>1. ~disturbed /\ ~On(current) /\ drain' = drain
    BY <1>5 DEF Clear
  <2>. QED  BY <2>1 DEF OneDrain, On
<1>6. ASSUME NEW o \in Queues, Break(o) \/ Refused(o) \/ RunFails(o)
      PROVE  \A x \in Queues : drain'[x].at # "off" => x = current'
  <2>1. On(o) /\ Finish(o, queue) /\ disturbed' = disturbed
    BY <1>6 DEF Break, Refused, RunFails, On, history
  <2>. QED  BY <1>t, <1>c, <2>1, FinishKeepsOne DEF On
<1>7. ASSUME NEW o \in Queues, StartRun(o)
      PROVE  \A x \in Queues : drain'[x].at # "off" => x = current'
  BY <1>7, <1>t, <1>c DEF StartRun
<1>8. ASSUME NEW o \in Queues, RunEnds(o)
      PROVE  \A x \in Queues : drain'[x].at # "off" => x = current'
  <2>1. On(o) /\ disturbed' = disturbed
    BY <1>8 DEF RunEnds, On, history
  <2>2. CASE Finish(o, queue')
    BY <1>t, <1>c, <2>1, <2>2, FinishKeepsOne DEF On
  <2>3. CASE drain' = [drain EXCEPT ![o] = Debounce(drain[o].forced)] /\ UNCHANGED current
    BY <1>t, <1>c, <2>1, <2>3 DEF On
  <2>. QED  BY <1>8, <2>2, <2>3 DEF RunEnds
<1>9. CASE UNCHANGED vars
  BY <1>9, <1>c DEF vars, history
<1>. QED  BY <1>1, <1>2, <1>3, <1>4, <1>5, <1>6, <1>7, <1>8, <1>9 DEF Next

\* An enqueue that neither drops nor refuses because of the cap appends.
LEMMA EnqueueAppends ==
    ASSUME NEW m \in Messages, NEW s \in Settings, NEW idle \in BOOLEAN,
           FollowupTypeOK, NoneDropped, Enqueue(m, s, idle), capped' = {}
    PROVE  /\ Given(s).items = IF current # NoQueue THEN queue[Target].items ELSE <<>>
           /\ Given(s).items \in Seq(Messages)
           /\ Result(m, s).items = IF Taken(m, s) THEN Append(Given(s).items, m) ELSE Given(s).items
           /\ Result(m, s).dropped = {}
           /\ capped = {}
<1>1. /\ Target \in Queues
      /\ Taken(m, s) => capped' = capped \cup Removed(Given(s))
      /\ ~Taken(m, s) => capped' = capped
  BY EnqueuePieces
<1>3. Given(s) \in QueueObject
  BY <1>1, EnqueueObjects
<1>2. capped = {} /\ (Taken(m, s) => ~Overflow(Given(s)))
  BY <1>1, <1>3, RemovesSome
<1>4. /\ Given(s).items = IF current # NoQueue THEN queue[Target].items ELSE <<>>
      /\ Given(s).dropped = {}
  <2>1. CASE current # NoQueue
    <3>1. queue[Target] \in QueueObject /\ queue[Target].dropped = {}
      BY <1>1, <1>2 DEF FollowupTypeOK, NoneDropped
    <3>2. Given(s) = [queue[Target] EXCEPT !.settings = s]
      BY <2>1 DEF Given
    <3>. QED  BY <2>1, <3>1, <3>2 DEF QueueObject
  <2>2. CASE current = NoQueue
    BY <2>2 DEF Given, NewQueue
  <2>. QED  BY <2>1, <2>2
<1>5. CASE Taken(m, s)
  <2>1. Result(m, s) = [Given(s) EXCEPT !.items = Append(@, m)]
    BY <1>2, <1>3, <1>5, MakesRoom DEF Result
  <2>2. Result(m, s).items = Append(Given(s).items, m) /\ Result(m, s).dropped = Given(s).dropped
    BY <1>3, <2>1 DEF QueueObject
  <2>. QED  BY <1>2, <1>3, <1>4, <1>5, <2>2 DEF QueueObject
<1>6. CASE ~Taken(m, s)
  BY <1>2, <1>3, <1>4, <1>6 DEF Result, QueueObject
<1>. QED  BY <1>5, <1>6

LEMMA NoneDroppedIsKept == FollowupTypeOK /\ NoneDropped /\ [Next]_vars => NoneDropped'
<1> SUFFICES ASSUME FollowupTypeOK, NoneDropped, [Next]_vars, capped' = {}
             PROVE  \A x \in Queues : queue'[x].dropped = {}
  BY DEF NoneDropped
<1>t. queue \in [Queues -> QueueObject] /\ current \in Queues \cup {NoQueue}
  BY DEF FollowupTypeOK
<1>d. ASSUME capped' = capped
      PROVE  \A x \in Queues : queue[x].dropped = {}
  BY <1>d DEF NoneDropped
<1>1. ASSUME NEW m \in Messages, NEW s \in Settings, NEW idle \in BOOLEAN, Enqueue(m, s, idle)
      PROVE  \A x \in Queues : queue'[x].dropped = {}
  <2>1. Target \in Queues /\ queue' = [queue EXCEPT ![Target] = Result(m, s)]
    BY <1>1, EnqueuePieces
  <2>2. Result(m, s).dropped = {} /\ capped = {}
    BY <1>1, EnqueueAppends
  <2>. QED  BY <1>t, <2>1, <2>2 DEF NoneDropped
<1>2. CASE Clear
  <2>1. current \in Queues
    BY <1>2, <1>t DEF Clear
  <2>2. queue' = [queue EXCEPT ![current] = [queue[current] EXCEPT !.items = <<>>, !.dropped = {}]]
    BY <1>2 DEF Clear
  <2>3. [queue[current] EXCEPT !.items = <<>>, !.dropped = {}].dropped = {}
    <3>1. queue[current] \in QueueObject
      BY <1>t, <2>1
    <3>2. \A p \in QueueObject : \A e : [p EXCEPT !.items = e, !.dropped = {}].dropped = {}
      BY DEF QueueObject
    <3>. QED  BY <3>1, <3>2, Zenon
  <2>4. capped' = capped
    BY <1>2 DEF Clear
  <2> DEFINE q == [queue[current] EXCEPT !.items = <<>>, !.dropped = {}]
  <2>5. queue' = [queue EXCEPT ![current] = q] /\ q.dropped = {}
    BY <2>2, <2>3
  <2> HIDE DEF q
  <2>. QED  BY <1>t, <1>d, <2>1, <2>4, <2>5
<1>3. ASSUME NEW o \in Queues, RunEnds(o)
      PROVE  \A x \in Queues : queue'[x].dropped = {}
  <2>1. queue' = [queue EXCEPT ![o] = AfterRun(o)] /\ capped' = capped
    BY <1>3 DEF RunEnds, history
  <2>2. AfterRun(o).dropped = {}
    <3>1. \A p \in QueueObject : \A e, d : [p EXCEPT !.items = e, !.dropped = d].dropped = d
      BY DEF QueueObject
    <3>2. queue[o] \in QueueObject /\ queue[o].dropped = {}
      BY <1>t, <1>d, <2>1
    <3>3. AfterRun(o).dropped = IF drain[o].summary THEN {} ELSE queue[o].dropped
      BY <3>1, <3>2 DEF AfterRun
    <3>. QED  BY <3>2, <3>3
  <2>. QED  BY <1>t, <1>d, <2>1, <2>2
<1>4. ASSUME queue' = queue, capped' = capped
      PROVE  \A x \in Queues : queue'[x].dropped = {}
  BY <1>4, <1>d
<1>5. ASSUME NEW m \in Messages, Forget(m)
      PROVE  queue' = queue /\ capped' = capped
  BY <1>5 DEF Forget, history
<1>6. StartTurn \/ EndTurn \/ OtherRunBegins \/ OtherRunEnds => queue' = queue /\ capped' = capped
  BY DEF StartTurn, EndTurn, OtherRunBegins, OtherRunEnds, history
<1>7. ASSUME NEW o \in Queues, Break(o) \/ StartRun(o) \/ Refused(o) \/ RunFails(o)
      PROVE  queue' = queue /\ capped' = capped
  BY <1>7 DEF Break, StartRun, Refused, RunFails, history
<1>8. UNCHANGED vars => queue' = queue /\ capped' = capped
  BY DEF vars, history
<1>. QED  BY <1>1, <1>2, <1>3, <1>4, <1>5, <1>6, <1>7, <1>8 DEF Next

KeptInv == FollowupTypeOK /\ OneDrain /\ NoneDropped /\ RunsWhatItRemoves /\ AcceptedIsKept

\* While nothing was dropped or cleared under a drain, messages wait in the
\* key's own queue only.
LEMMA WaitingIsCurrent ==
    ASSUME FollowupTypeOK, OneDrain, ~disturbed, NEW m \in Messages, Waiting(m)
    PROVE  current \in Queues /\ m \in ToSet(queue[current].items) /\ ~Empty(queue[current])
<1>1. current \in Queues /\ m \in ToSet(queue[current].items)
  BY FollowupQueueAssumption DEF Waiting, OneDrain, FollowupTypeOK
<1>2. queue[current].items # <<>>
  <2>1. queue[current].items \in Seq(Messages)
    BY <1>1 DEF FollowupTypeOK, QueueObject
  <2>. QED  BY <1>1, <2>1, Elements
<1>. QED  BY <1>1, <1>2 DEF Empty

\* A run is told the items that its end will remove.
LEMMA PlanRunsWhatItRemoves ==
    ASSUME FollowupTypeOK, NEW o \in Queues, drain[o].at = "debounce", ~NothingToRun(o),
           queue[o].dropped = {}
    PROVE  /\ Plan(o).remove <= Len(queue[o].items)
           /\ \A i \in DOMAIN queue[o].items :
                 i <= Plan(o).remove => queue[o].items[i] \in Plan(o).messages
<1> DEFINE q == queue[o]
           forced == drain[o].forced \/ (q.settings.mode = "collect" /\ CrossChannel(q.items))
<1>1. q.items \in Seq(Messages) /\ Len(q.items) \in Nat /\ DOMAIN q.items = 1..Len(q.items)
  BY LenProperties DEF FollowupTypeOK, QueueObject
<1>2. ~Summary(q) /\ q.items # <<>>
  BY DEF Summary, NothingToRun
<1>3. Head(q.items) = q.items[1] /\ Len(q.items) >= 1
  <2>1. 1 \in DOMAIN q.items /\ Head(q.items) = q.items[1]
    BY <1>1, <1>2, Elements
  <2>. QED  BY <1>1, <2>1
<1> HIDE DEF forced
<1>4. CASE q.settings.mode = "collect" /\ ~forced
  <2>1. Plan(o) = Running(forced, ToSet(q.items), Len(q.items), Summary(q))
    BY <1>4 DEF Plan, forced
  <2>2. Plan(o).remove = Len(q.items) /\ Plan(o).messages = ToSet(q.items)
    BY <2>1 DEF Running
  <2>. QED  BY <1>1, <2>2 DEF ToSet
<1>5. CASE ~(q.settings.mode = "collect" /\ ~forced)
  <2>1. Plan(o) = Running(forced, {Head(q.items)}, 1, FALSE)
    BY <1>2, <1>5 DEF Plan, forced
  <2>2. Plan(o).remove = 1 /\ Plan(o).messages = {Head(q.items)}
    BY <2>1 DEF Running
  <2>3. \A i \in DOMAIN q.items : i <= 1 => i = 1
    BY <1>1
  <2>. QED  BY <1>1, <1>3, <2>2, <2>3
<1>. QED  BY <1>4, <1>5

LEMMA MessagesAreKept ==
    KeptInv /\ [Next]_vars => RunsWhatItRemoves' /\ AcceptedIsKept'
<1> SUFFICES ASSUME KeptInv, [Next]_vars
             PROVE  RunsWhatItRemoves' /\ AcceptedIsKept'
  OBVIOUS
<1>t. /\ FollowupTypeOK /\ OneDrain /\ NoneDropped /\ RunsWhatItRemoves /\ AcceptedIsKept
      /\ queue \in [Queues -> QueueObject] /\ drain \in [Queues -> Drain]
      /\ current \in Queues \cup {NoQueue} /\ NoQueue \notin Queues
      /\ accepted \in [Messages -> Nat] /\ runs \in [Messages -> Nat]
  BY FollowupQueueAssumption DEF KeptInv, FollowupTypeOK
\* The two goals, for a step after which the excuses are still unused.
<1> DEFINE Good(o) == drain'[o].at = "running" =>
                         /\ drain'[o].remove <= Len(queue'[o].items)
                         /\ \A i \in DOMAIN queue'[o].items :
                               i <= drain'[o].remove => runs'[queue'[o].items[i]] > 0
           Safe(x) == \/ runs'[x] > 0
                      \/ x \in cleared'
                      \/ current' \in Queues /\ x \in ToSet(queue'[current'].items)
<1>g. ASSUME capped' = {} /\ ~disturbed' =>
                /\ \A o \in Queues : Good(o)
                /\ \A x \in Messages : accepted'[x] > 0 => Safe(x)
      PROVE  RunsWhatItRemoves' /\ AcceptedIsKept'
  <2>1. RunsWhatItRemoves'
    BY <1>g DEF RunsWhatItRemoves
  <2>2. ASSUME NEW x \in Messages, Safe(x)
        PROVE  Kept(x)'
    BY <2>2 DEF Kept, Waiting
  <2> HIDE DEF Safe
  <2>3. AcceptedIsKept'
    BY <1>g, <2>2 DEF AcceptedIsKept
  <2>. QED  BY <2>1, <2>3
\* What was true before.
<1>b. ASSUME capped = {}, ~disturbed
      PROVE  /\ \A o \in Queues : drain[o].at # "off" => o = current
             /\ \A o \in Queues : queue[o].dropped = {}
             /\ \A o \in Queues : drain[o].at = "running" =>
                   /\ drain[o].remove <= Len(queue[o].items)
                   /\ \A i \in DOMAIN queue[o].items :
                         i <= drain[o].remove => runs[queue[o].items[i]] > 0
             /\ \A x \in Messages : accepted[x] > 0 =>
                   \/ runs[x] > 0
                   \/ x \in cleared
                   \/ /\ current \in Queues /\ x \in ToSet(queue[current].items)
                      /\ ~Empty(queue[current])
  <2>1. \A x \in Messages : Waiting(x) =>
            current \in Queues /\ x \in ToSet(queue[current].items) /\ ~Empty(queue[current])
    BY <1>b, <1>t, WaitingIsCurrent
  <2>2. \A x \in Messages : accepted[x] > 0 => runs[x] > 0 \/ x \in cleared \/ Waiting(x)
    BY <1>b, <1>t DEF AcceptedIsKept, Kept
  <2>. QED  BY <1>b, <1>t, <2>1, <2>2 DEF OneDrain, On, NoneDropped, RunsWhatItRemoves
<1> HIDE DEF Safe, Good
<1>1. ASSUME NEW m \in Messages, NEW s \in Settings, NEW idle \in BOOLEAN, Enqueue(m, s, idle),
             capped' = {}, ~disturbed'
      PROVE  /\ \A o \in Queues : Good(o)
             /\ \A x \in Messages : accepted'[x] > 0 => Safe(x)
  <2> DEFINE was == Given(s).items
             now == Result(m, s).items
  <2>1. /\ Target \in Queues
        /\ Target = current \/ (current = NoQueue /\ drain[Target].at = "off")
        /\ queue' = [queue EXCEPT ![Target] = Result(m, s)]
        /\ idle => ScheduleFollowupDrain(queue', drain, Target)
        /\ ~idle => current' = Target /\ drain' = drain
        /\ accepted' = IF Taken(m, s) THEN [accepted EXCEPT ![m] = @ + 1] ELSE accepted
        /\ ~disturbed /\ UNCHANGED <<runs, cleared>>
    BY <1>1, <1>t, EnqueuePieces DEF On
  <2>2. /\ was = IF current # NoQueue THEN queue[Target].items ELSE <<>>
        /\ was \in Seq(Messages)
        /\ now = IF Taken(m, s) THEN Append(was, m) ELSE was
        /\ capped = {} /\ ~disturbed
    BY <1>1, <1>t, <2>1, EnqueueAppends
  <2>3. /\ Len(was) \in Nat /\ Len(was) <= Len(now) /\ DOMAIN was = 1..Len(was)
        /\ \A i \in DOMAIN was : now[i] = was[i]
        /\ ToSet(now) = IF Taken(m, s) THEN ToSet(was) \cup {m} ELSE ToSet(was)
        /\ now = <<>> <=> ToSet(now) = {}
        /\ now \in Seq(Messages)
    <3>1. now \in Seq(Messages) /\ (now = <<>> <=> ToSet(now) = {})
      BY <2>2, Appended, Elements
    <3>2. Len(was) \in Nat /\ DOMAIN was = 1..Len(was)
      BY <2>2, LenProperties
    <3> HIDE DEF was, now
    <3>3. CASE Taken(m, s)
      <4>1. /\ now = Append(was, m)
            /\ Len(now) = Len(was) + 1
            /\ \A i \in DOMAIN was : now[i] = was[i]
            /\ ToSet(now) = ToSet(was) \cup {m}
        BY <2>2, <3>3, Appended
      <4>2. Len(was) <= Len(now)
        BY <3>2, <4>1
      <4>. QED  BY <3>1, <3>2, <3>3, <4>1, <4>2
    <3>4. CASE ~Taken(m, s)
      BY <2>2, <3>1, <3>2, <3>4
    <3>. QED  BY <3>3, <3>4
  <2>4. queue'[Target].items = now /\ \A o \in Queues : o # Target => queue'[o] = queue[o]
    BY <1>t, <2>1
  <2> HIDE DEF was, now
  <2>5. \A o \in Queues : drain[o].at # "off" => o = Target /\ o = current
    BY <1>b, <1>t, <2>1, <2>2
  <2>6. /\ \A o \in Queues : drain'[o].at = "running" => drain'[o] = drain[o]
        /\ ~Empty(queue'[Target]) => current' = Target
    <3>1. CASE idle
      <4>1. ScheduleFollowupDrain(queue', drain, Target)
        BY <2>1, <3>1
      <4>2. Target \in Queues \cup {NoQueue} /\ \A o \in Queues : drain[o].at # "off" => o = Target
        BY <2>1, <2>5
      <4>3. drain \in [Queues -> Drain]
        BY <1>t
      <4>4. \A o \in Queues : drain'[o].at = "running" => drain'[o] = drain[o]
        BY <4>1, <4>2, <4>3, ScheduleKeepsOne
      <4>5. Target \in Queues /\ ~Empty(queue'[Target]) => current' = Target
        BY <4>1, <4>2, <4>3, ScheduleKeepsOne
      <4>. QED  BY <2>1, <4>4, <4>5
    <3>2. CASE ~idle
      BY <2>1, <3>2
    <3>. QED  BY <3>1, <3>2
  <2>7. ASSUME NEW o \in Queues, drain'[o].at = "running"
        PROVE  Good(o)
    <3>1. drain'[o] = drain[o] /\ o = Target /\ o = current /\ was = queue[o].items
      BY <1>t, <2>2, <2>5, <2>6, <2>7
    <3>2. /\ drain[o].remove <= Len(was)
          /\ \A i \in DOMAIN was : i <= drain[o].remove => runs[was[i]] > 0
      BY <1>b, <2>2, <2>7, <3>1
    <3>3. drain[o].remove \in Nat
      <4>1. drain[o] \in Drain /\ drain[o].at = "running"
        BY <1>t, <2>7, <3>1
      <4>. QED  BY <4>1 DEF Drain, Off
    <3>4. Len(now) \in Nat /\ DOMAIN now = 1..Len(now)
      BY <2>3, LenProperties
    <3>5. \A i \in DOMAIN now : i <= drain[o].remove => i \in DOMAIN was /\ runs[now[i]] > 0
      BY <2>3, <3>2, <3>3, <3>4
    <3>6. drain[o].remove <= Len(now)
      BY <2>3, <3>2, <3>3, <3>4
    <3>. QED  BY <2>1, <2>4, <3>1, <3>5, <3>6 DEF Good
  <2>8. ASSUME NEW x \in Messages, accepted'[x] > 0
        PROVE  Safe(x)
    <3>1. CASE x \in ToSet(now)
      <4>1. ~Empty(queue'[Target])
        BY <2>3, <2>4, <3>1 DEF Empty
      <4>. QED  BY <2>1, <2>4, <2>6, <3>1, <4>1 DEF Safe
    <3>2. CASE x \notin ToSet(now)
      <4>1. accepted[x] > 0
        BY <1>t, <2>1, <2>3, <2>8, <3>2
      <4>2. ~(current \in Queues /\ x \in ToSet(queue[current].items))
        BY <1>t, <2>1, <2>2, <2>3, <3>2
      <4>. QED  BY <1>b, <2>1, <2>2, <4>1, <4>2 DEF Safe
    <3>. QED  BY <3>1, <3>2
  <2>9. \A o \in Queues : Good(o)
    BY <2>7 DEF Good
  <2>. QED  BY <2>8, <2>9
<1>2. ASSUME UNCHANGED <<queue, drain, current, runs, accepted, cleared, capped, disturbed>>,
             capped' = {}, ~disturbed'
      PROVE  /\ \A o \in Queues : Good(o)
             /\ \A x \in Messages : accepted'[x] > 0 => Safe(x)
  BY <1>2, <1>b DEF Good, Safe
<1>3. ASSUME EndTurn, capped' = {}, ~disturbed'
      PROVE  /\ \A o \in Queues : Good(o)
             /\ \A x \in Messages : accepted'[x] > 0 => Safe(x)
  <2>1. /\ ScheduleFollowupDrain(queue, drain, current)
        /\ UNCHANGED <<queue, runs, accepted, cleared, capped, disturbed>>
    BY <1>3 DEF EndTurn, history
  <2>2. capped = {} /\ ~disturbed
    BY <1>3, <2>1
  <2>3. /\ \A o \in Queues : drain'[o].at = "running" => drain'[o] = drain[o]
        /\ current \in Queues /\ ~Empty(queue[current]) => current' = current
    BY <1>b, <1>t, <2>1, <2>2, ScheduleKeepsOne
  <2>4. \A o \in Queues : Good(o)
    BY <1>b, <2>1, <2>2, <2>3 DEF Good
  <2>5. \A x \in Messages : accepted'[x] > 0 => Safe(x)
    BY <1>b, <2>1, <2>2, <2>3 DEF Safe
  <2>. QED  BY <2>4, <2>5
<1>4. ASSUME Clear, capped' = {}, ~disturbed'
      PROVE  /\ \A o \in Queues : Good(o)
             /\ \A x \in Messages : accepted'[x] > 0 => Safe(x)
  <2>1. /\ drain' = drain /\ UNCHANGED <<runs, accepted, capped>>
        /\ ~disturbed /\ drain[current].at = "off"
        /\ cleared' = cleared \cup ToSet(queue[current].items) \cup queue[current].dropped
    BY <1>4 DEF Clear, On
  <2>2. capped = {}
    BY <1>4, <2>1
  <2>3. \A o \in Queues : Good(o)
    BY <1>b, <2>1, <2>2 DEF Good
  <2>4. \A x \in Messages : accepted'[x] > 0 => Safe(x)
    BY <1>b, <2>1, <2>2 DEF Safe
  <2>. QED  BY <2>3, <2>4
<1>5. ASSUME NEW o \in Queues, Break(o) \/ Refused(o) \/ RunFails(o), capped' = {}, ~disturbed'
      PROVE  /\ \A p \in Queues : Good(p)
             /\ \A x \in Messages : accepted'[x] > 0 => Safe(x)
  <2>1. /\ Finish(o, queue) /\ On(o)
        /\ UNCHANGED <<queue, runs, accepted, cleared, capped, disturbed>>
    BY <1>5 DEF Break, Refused, RunFails, On, history
  <2>2. capped = {} /\ ~disturbed
    BY <1>5, <2>1
  <2>3. o = current /\ \A x \in Queues : On(x) => x = current
    BY <1>b, <2>1, <2>2 DEF On
  <2>4. /\ \A p \in Queues : drain'[p].at # "running"
        /\ ~Empty(queue[o]) => current' = o
    BY <1>t, <2>1, <2>3, FinishKeepsOne
  <2>5. \A p \in Queues : Good(p)
    BY <2>4 DEF Good
  <2>6. \A x \in Messages : accepted'[x] > 0 => Safe(x)
    BY <1>b, <2>1, <2>2, <2>3, <2>4 DEF Safe
  <2>. QED  BY <2>5, <2>6
<1>6. ASSUME NEW o \in Queues, StartRun(o), capped' = {}, ~disturbed'
      PROVE  /\ \A p \in Queues : Good(p)
             /\ \A x \in Messages : accepted'[x] > 0 => Safe(x)
  <2>1. /\ drain[o].at = "debounce" /\ ~NothingToRun(o)
        /\ drain' = [drain EXCEPT ![o] = Plan(o)]
        /\ runs' = [m \in Messages |-> IF m \in Plan(o).messages THEN runs[m] + 1 ELSE runs[m]]
        /\ UNCHANGED <<queue, current, accepted, cleared, capped, disturbed>>
    BY <1>6 DEF StartRun
  <2>2. capped = {} /\ ~disturbed
    BY <1>6, <2>1
  <2>3. /\ Plan(o).remove <= Len(queue[o].items)
        /\ \A i \in DOMAIN queue[o].items :
              i <= Plan(o).remove => queue[o].items[i] \in Plan(o).messages
    BY <1>b, <1>t, <2>1, <2>2, PlanRunsWhatItRemoves
  <2>4. \A i \in DOMAIN queue[o].items : queue[o].items[i] \in Messages
    <3>1. queue[o].items \in Seq(Messages)
      BY <1>t DEF QueueObject
    <3>. QED  BY <3>1, ElementOfSeq, LenProperties
  <2>5. \A m \in Messages : runs'[m] >= runs[m] /\ (m \in Plan(o).messages => runs'[m] > 0)
    BY <1>t, <2>1
  <2>6. drain'[o] = Plan(o) /\ \A p \in Queues : p # o => drain'[p] = drain[p]
    BY <1>t, <2>1
  <2>7. \A p \in Queues : p # o => drain[p].at = "off"
    BY <1>b, <2>1, <2>2
  <2>8. \A p \in Queues : Good(p)
    BY <2>1, <2>3, <2>4, <2>5, <2>6, <2>7 DEF Good
  <2>9. \A x \in Messages : accepted'[x] > 0 => Safe(x)
    <3>1. \A m \in Messages : runs[m] > 0 => runs'[m] > 0
      BY <1>t, <2>1
    <3>. QED  BY <1>b, <2>1, <2>2, <3>1 DEF Safe
  <2>. QED  BY <2>8, <2>9
<1>7. ASSUME NEW o \in Queues, RunEnds(o), capped' = {}, ~disturbed'
      PROVE  /\ \A p \in Queues : Good(p)
             /\ \A x \in Messages : accepted'[x] > 0 => Safe(x)
  <2> DEFINE n    == drain[o].remove
             left == SubSeq(queue[o].items, n + 1, Len(queue[o].items))
  <2>1. /\ On(o) /\ drain[o].at = "running"
        /\ queue' = [queue EXCEPT ![o] = AfterRun(o)]
        /\ \/ Finish(o, queue') /\ Empty(AfterRun(o))
           \/ /\ drain' = [drain EXCEPT ![o] = Debounce(drain[o].forced)]
              /\ current' = current
        /\ UNCHANGED <<runs, accepted, cleared, capped, disturbed>>
    BY <1>7 DEF RunEnds, On, history
  <2>2. capped = {} /\ ~disturbed
    BY <1>7, <2>1
  <2>3. o = current /\ \A x \in Queues : On(x) => x = current
    BY <1>b, <2>1, <2>2 DEF On
  <2>4. queue[o] \in QueueObject /\ queue[o].items \in Seq(Messages) /\ n \in Nat
    <3>1. drain[o] \in Drain /\ queue[o] \in QueueObject
      BY <1>t
    <3>. QED  BY <2>1, <3>1 DEF Drain, Off, QueueObject
  <2>5. queue'[o].items = left
    <3>1. AfterRun(o).items = left
      <4>1. AfterRun(o) = [queue[o] EXCEPT !.items = left,
                                           !.dropped = IF drain[o].summary THEN {} ELSE @]
        BY DEF AfterRun
      <4> HIDE DEF left
      <4>. QED  BY <2>4, <4>1 DEF QueueObject
    <3> HIDE DEF left
    <3>. QED  BY <1>t, <2>1, <3>1
  <2>6. ASSUME NEW x \in Messages, x \in ToSet(queue[o].items)
        PROVE  runs[x] > 0 \/ x \in ToSet(left)
    <3>1. PICK i \in DOMAIN queue[o].items : x = queue[o].items[i]
      BY <2>6 DEF ToSet
    <3>2. i \in Nat
      BY <2>4, <3>1, LenProperties
    <3>3. CASE i <= n
      BY <1>b, <2>1, <2>2, <3>1, <3>3
    <3>4. CASE i > n
      BY <2>4, <3>1, <3>4, Remaining
    <3>. QED  BY <2>4, <3>2, <3>3, <3>4
  <2>7. left \in Seq(Messages)
    BY <2>4, Remaining
  <2> HIDE DEF left, n
  <2>8. Empty(AfterRun(o)) => ToSet(left) = {}
    <3>1. AfterRun(o).items = left
      BY <1>t, <2>1, <2>5
    <3>. QED  BY <2>7, <3>1, Elements DEF Empty
  <2>9. \A p \in Queues : drain'[p].at # "running"
    <3>1. CASE Finish(o, queue')
      BY <1>t, <2>1, <2>3, <3>1, FinishKeepsOne
    <3>2. CASE drain' = [drain EXCEPT ![o] = Debounce(drain[o].forced)]
      <4>1. drain'[o].at = "debounce" /\ \A p \in Queues : p # o => drain'[p].at = "off"
        BY <1>b, <1>t, <2>2, <2>3, <3>2 DEF Debounce
      <4>. QED  BY <4>1
    <3>. QED  BY <2>1, <3>1, <3>2
  <2>10. \A p \in Queues : Good(p)
    BY <2>9 DEF Good
  <2>11. \A x \in Messages : x \in ToSet(left) => Safe(x)
    <3>1. \A x \in Messages : x \in ToSet(left) => current' = o
      BY <2>1, <2>3, <2>8
    <3>. QED  BY <2>5, <3>1 DEF Safe
  <2>12. \A x \in Messages : accepted'[x] > 0 => Safe(x)
    BY <1>b, <2>1, <2>2, <2>3, <2>6, <2>11 DEF Safe
  <2>. QED  BY <2>10, <2>12
<1>8. ASSUME NEW m \in Messages, Forget(m)
      PROVE  UNCHANGED <<queue, drain, current, runs, accepted, cleared, capped, disturbed>>
  BY <1>8 DEF Forget, history
<1>9. StartTurn \/ OtherRunBegins \/ OtherRunEnds \/ UNCHANGED vars =>
          UNCHANGED <<queue, drain, current, runs, accepted, cleared, capped, disturbed>>
  BY DEF StartTurn, OtherRunBegins, OtherRunEnds, vars, history
<1>10. ASSUME capped' = {}, ~disturbed'
       PROVE  /\ \A o \in Queues : Good(o)
              /\ \A x \in Messages : accepted'[x] > 0 => Safe(x)
  BY <1>10, <1>1, <1>2, <1>3, <1>4, <1>5, <1>6, <1>7, <1>8, <1>9 DEF Next
<1>. QED  BY <1>g, <1>10

LEMMA KeptAtFirst == Init => KeptInv
<1> SUFFICES ASSUME Init PROVE KeptInv
  OBVIOUS
<1>1. FollowupTypeOK
  BY TypesHoldAtFirst
<1>2. \A o \in Queues : drain[o].at = "off"
  BY DEF Init, Off
<1>3. \A o \in Queues : queue[o].dropped = {}
  BY DEF Init, NewQueue
<1>4. AcceptedIsKept
  BY DEF Init, AcceptedIsKept
<1>. QED  BY <1>1, <1>2, <1>3, <1>4 DEF KeptInv, OneDrain, On, NoneDropped, RunsWhatItRemoves

\* No message the queue took in is lost, however runs end and whenever others
\* arrive, unless the cap removed one or the queue was cleared under its drain.
THEOREM NoMessageIsLost == Spec => []AcceptedIsKept
<1>1. KeptInv /\ [Next]_vars => KeptInv'
  BY TypesAreKept, OneDrainIsKept, NoneDroppedIsKept, MessagesAreKept DEF KeptInv
<1>2. KeptInv => AcceptedIsKept
  BY DEF KeptInv
<1>. QED  BY <1>1, <1>2, KeptAtFirst, PTL DEF Spec

-----------------------------------------------------------------------------
(* Runs are accounted for *)

\* An item occurs once: AlreadyQueued looks at what the queue holds.
Distinct(s) == \A i, j \in DOMAIN s : s[i] = s[j] => i = j
NoTwice == \A o \in Queues : Distinct(queue[o].items)

\* Queue o will run m, unless the cap or a clear takes it: m is an item other
\* than those the run that goes on was told of and its end removes.
Owes(o, m) ==
    /\ o = current \/ On(o)
    /\ \E i \in DOMAIN queue[o].items :
          /\ queue[o].items[i] = m
          /\ drain[o].at = "running" => m \notin drain[o].messages \/ i > drain[o].remove
Owing(m) == {o \in Queues : Owes(o, m)}

\* The runs m had and those it is owed were paid for.
Account(m) ==
    /\ IsFiniteSet(Owing(m))
    /\ runs[m] + Cardinality(Owing(m)) <= accepted[m] + failed[m]
AccountsBalance == \A m \in Messages : Account(m)

\* A sequence is another, or its end.
EndOf(s, t, k) == \A j \in DOMAIN s : j + k \in DOMAIN t /\ s[j] = t[j + k]

LEMMA RemainingIsEnd ==
    ASSUME NEW S, NEW s \in Seq(S), NEW n \in Nat
    PROVE  EndOf(SubSeq(s, n + 1, Len(s)), s, n)
<1> DEFINE r == SubSeq(s, n + 1, Len(s))
<1>1. Len(s) \in Nat /\ DOMAIN s = 1..Len(s) /\ \A i \in 1..Len(s) : s[i] \in S
  BY LenProperties, ElementOfSeq
<1>2. \A i \in (n + 1)..Len(s) : s[i] \in S
  BY <1>1
<1>3. /\ r \in Seq(S)
      /\ Len(r) = IF n + 1 <= Len(s) THEN Len(s) - (n + 1) + 1 ELSE 0
      /\ \A i \in 1..(Len(s) - (n + 1) + 1) : r[i] = s[(n + 1) + i - 1]
  BY <1>1, <1>2, SubSeqProperties
<1>4. DOMAIN r = 1..Len(r)
  BY <1>3, LenProperties
<1> HIDE DEF r
<1>5. ASSUME NEW j \in DOMAIN r
      PROVE  j + n \in DOMAIN s /\ r[j] = s[j + n]
  <2>1. j \in 1..(Len(s) - (n + 1) + 1)
    <3>1. \A l, L \in Nat : \A x \in 1..l : l = (IF n + 1 <= L THEN L - (n + 1) + 1 ELSE 0)
              => x \in 1..(L - (n + 1) + 1)
      OBVIOUS
    <3>2. Len(r) \in Nat /\ j \in 1..Len(r)
      BY <1>3, <1>4, LenProperties
    <3>. QED  BY <1>1, <1>3, <3>1, <3>2, Zenon
  <2>2. (n + 1) + j - 1 = j + n /\ j + n \in 1..Len(s)
    BY <1>1, <2>1
  <2>3. r[j] = s[(n + 1) + j - 1]
    BY <1>3, <2>1, Zenon
  <2>. QED  BY <1>1, <2>2, <2>3
<1>. QED  BY <1>5 DEF EndOf, r

LEMMA DistinctEnd ==
    ASSUME NEW s, NEW t, NEW k \in Nat, EndOf(s, t, k), Distinct(t), DOMAIN s \subseteq Nat
    PROVE  Distinct(s)
<1> SUFFICES ASSUME NEW i \in DOMAIN s, NEW j \in DOMAIN s, s[i] = s[j] PROVE i = j
  BY DEF Distinct
<1>1. t[i + k] = t[j + k] /\ i + k \in DOMAIN t /\ j + k \in DOMAIN t
  <2>1. s[i] = t[i + k] /\ s[j] = t[j + k] /\ i + k \in DOMAIN t /\ j + k \in DOMAIN t
    BY Zenon DEF EndOf
  <2>. QED  BY <2>1
<1>2. i + k = j + k
  BY <1>1, Zenon DEF Distinct
<1>3. i \in Nat /\ j \in Nat
  OBVIOUS
<1>. QED  BY <1>2, <1>3

\* What enqueueFollowupRun leaves of the items: an end of them, and the message.
LEMMA EnqueueItems ==
    ASSUME NEW m \in Messages, NEW s \in Settings, FollowupTypeOK, Target \in Queues
    PROVE  LET was == IF current # NoQueue THEN queue[Target].items ELSE <<>>
           IN  \E room \in Seq(Messages), k \in Nat :
                 /\ EndOf(room, was, k)
                 /\ Result(m, s).items = IF Taken(m, s) THEN Append(room, m) ELSE room
                 /\ Taken(m, s) => m \notin ToSet(was)
<1> DEFINE was == IF current # NoQueue THEN queue[Target].items ELSE <<>>
<1>1. Given(s) \in QueueObject /\ Given(s).items = was
  <2>1. Given(s) \in QueueObject
    BY EnqueueObjects
  <2>2. CASE current # NoQueue
    <3>1. queue[Target] \in QueueObject /\ Given(s) = [queue[Target] EXCEPT !.settings = s]
      BY <2>2 DEF Given, FollowupTypeOK
    <3>. QED  BY <2>1, <2>2, <3>1 DEF QueueObject
  <2>3. CASE current = NoQueue
    BY <2>1, <2>3 DEF Given, NewQueue
  <2>. QED  BY <2>2, <2>3
<1>2. was \in Seq(Messages) /\ Len(was) \in Nat /\ DOMAIN was = 1..Len(was)
  <2>1. was \in Seq(Messages)
    BY <1>1 DEF QueueObject
  <2>. QED  BY <2>1, LenProperties
<1>3. EndOf(was, was, 0)
  BY <1>2 DEF EndOf
<1>4. CASE ~Taken(m, s)
  <2>1. Result(m, s).items = was
    BY <1>1, <1>4 DEF Result
  <2> HIDE DEF was
  <2>2. \E k \in Nat : EndOf(was, was, k)
    BY <1>3
  <2>. QED  BY <1>2, <1>4, <2>1, <2>2 DEF was
<1>5. CASE Taken(m, s)
  <2> DEFINE room == WithRoom(Given(s)).items
  <2>1. WithRoom(Given(s)) \in QueueObject
    BY <1>1, MakesRoom
  <2>2. room \in Seq(Messages)
    BY <2>1 DEF QueueObject
  <2>3. Result(m, s).items = Append(room, m)
    <3>1. Result(m, s) = [WithRoom(Given(s)) EXCEPT !.items = Append(@, m)]
      BY <1>5 DEF Result
    <3>. QED  BY <2>1, <3>1 DEF QueueObject
  <2>4. m \notin ToSet(was)
    BY <1>1, <1>5 DEF Taken, AlreadyQueued
  <2>5. \E k \in Nat : EndOf(room, was, k)
    <3>1. CASE ~Overflow(Given(s))
      <4>1. room = was
        BY <1>1, <3>1, MakesRoom
      <4>. QED  BY <1>3, <4>1
    <3>2. CASE Overflow(Given(s))
      <4> DEFINE n == Excess(Given(s))
                 kept == SubSeq(was, n + 1, Len(was))
      <4>1. Given(s).settings.cap \in Nat \ {0}
        BY <1>1, FollowupQueueAssumption DEF QueueObject
      <4>2. n \in Nat
        BY <1>1, <1>2, <3>2, <4>1 DEF Overflow, Excess
      <4>3. EndOf(kept, was, n)
        BY <1>2, <4>2, RemainingIsEnd
      <4>4. room = kept
        <5> DEFINE gone == IF Given(s).settings.dropPolicy = "summarize"
                           THEN Given(s).dropped \cup Removed(Given(s))
                           ELSE Given(s).dropped
        <5>1. WithRoom(Given(s)) = [Given(s) EXCEPT !.items = kept, !.dropped = gone]
          BY <1>1, <3>2 DEF WithRoom
        <5> HIDE DEF kept, gone
        <5>. QED  BY <1>1, <5>1 DEF QueueObject
      <4> HIDE DEF kept, n
      <4>. QED  BY <4>2, <4>3, <4>4
    <3>. QED  BY <3>1, <3>2
  <2> HIDE DEF was, room
  <2>. QED  BY <1>5, <2>2, <2>3, <2>4, <2>5 DEF was
<1>. QED  BY <1>4, <1>5

LEMMA AfterRunItems ==
    ASSUME FollowupTypeOK, NEW o \in Queues, drain[o].at = "running"
    PROVE  /\ drain[o].remove \in Nat
           /\ AfterRun(o).items = SubSeq(queue[o].items, drain[o].remove + 1, Len(queue[o].items))
           /\ EndOf(AfterRun(o).items, queue[o].items, drain[o].remove)
           /\ AfterRun(o).items \in Seq(Messages)
<1> DEFINE n    == drain[o].remove
           left == SubSeq(queue[o].items, n + 1, Len(queue[o].items))
<1>1. queue[o] \in QueueObject /\ queue[o].items \in Seq(Messages) /\ n \in Nat
  <2>1. drain[o] \in Drain /\ queue[o] \in QueueObject
    BY DEF FollowupTypeOK
  <2>. QED  BY <2>1 DEF Drain, Off, QueueObject
<1>2. AfterRun(o).items = left
  <2>1. AfterRun(o) = [queue[o] EXCEPT !.items = left,
                                       !.dropped = IF drain[o].summary THEN {} ELSE @]
    BY DEF AfterRun
  <2> HIDE DEF left
  <2>. QED  BY <1>1, <2>1 DEF QueueObject
<1>3. EndOf(left, queue[o].items, n) /\ left \in Seq(Messages)
  BY <1>1, Remaining, RemainingIsEnd
<1> HIDE DEF left
<1>. QED  BY <1>1, <1>2, <1>3 DEF left

LEMMA NoTwiceIsKept == FollowupTypeOK /\ NoTwice /\ [Next]_vars => NoTwice'
<1> SUFFICES ASSUME FollowupTypeOK, NoTwice, [Next]_vars, NEW o \in Queues
             PROVE  Distinct(queue'[o].items)
  BY DEF NoTwice
<1>t. /\ queue \in [Queues -> QueueObject] /\ current \in Queues \cup {NoQueue}
      /\ Distinct(queue[o].items)
  BY DEF FollowupTypeOK, NoTwice
<1>e. Distinct(<<>>)
  BY DEF Distinct
<1>1. ASSUME NEW m \in Messages, NEW s \in Settings, NEW idle \in BOOLEAN, Enqueue(m, s, idle)
      PROVE  Distinct(queue'[o].items)
  <2>1. Target \in Queues /\ queue' = [queue EXCEPT ![Target] = Result(m, s)]
    BY <1>1, EnqueuePieces
  <2>2. CASE o # Target
    BY <1>t, <2>1, <2>2
  <2>3. CASE o = Target
    <3> DEFINE was == IF current # NoQueue THEN queue[Target].items ELSE <<>>
    <3>1. PICK room \in Seq(Messages), k \in Nat :
             /\ EndOf(room, was, k)
             /\ Result(m, s).items = IF Taken(m, s) THEN Append(room, m) ELSE room
             /\ Taken(m, s) => m \notin ToSet(was)
      BY <2>1, EnqueueItems
    <3>2. Distinct(was)
      BY <1>t, <1>e, <2>3
    <3> HIDE DEF was
    <3>3. Len(room) \in Nat /\ DOMAIN room = 1..Len(room) /\ DOMAIN room \subseteq Nat
      BY LenProperties
    <3>4. Distinct(room)
      BY <3>1, <3>2, <3>3, DistinctEnd
    <3>5. CASE Taken(m, s)
      <4>1. \A j \in DOMAIN room : room[j] # m
        <5>1. \A j \in DOMAIN room : j + k \in DOMAIN was /\ room[j] = was[j + k]
          BY <3>1 DEF EndOf
        <5>. QED  BY <3>1, <3>5, <5>1 DEF ToSet
      <4>2. /\ DOMAIN Append(room, m) = 1..(Len(room) + 1)
            /\ \A j \in 1..Len(room) : Append(room, m)[j] = room[j]
            /\ Append(room, m)[Len(room) + 1] = m
        <5>1. /\ Append(room, m) \in Seq(Messages) /\ Len(Append(room, m)) = Len(room) + 1
              /\ \A j \in 1..Len(room) : Append(room, m)[j] = room[j]
              /\ Append(room, m)[Len(room) + 1] = m
          BY AppendProperties
        <5>. QED  BY <5>1, LenProperties
      <4> DEFINE all == Append(room, m)
      <4>3. /\ DOMAIN all = 1..(Len(room) + 1)
            /\ \A j \in 1..Len(room) : all[j] = room[j] /\ all[j] # m
            /\ all[Len(room) + 1] = m
        BY <3>3, <4>1, <4>2
      <4> HIDE DEF all
      <4>4. ASSUME NEW i \in DOMAIN all, NEW j \in DOMAIN all, all[i] = all[j]
            PROVE  i = j
        <5>1. (i \in 1..Len(room) \/ i = Len(room) + 1) /\ (j \in 1..Len(room) \/ j = Len(room) + 1)
          BY <3>3, <4>3
        <5>2. CASE i = Len(room) + 1 \/ j = Len(room) + 1
          BY <4>3, <4>4, <5>1, <5>2
        <5>3. CASE i \in 1..Len(room) /\ j \in 1..Len(room)
          BY <3>3, <3>4, <4>3, <4>4, <5>3 DEF Distinct
        <5>. QED  BY <5>1, <5>2, <5>3
      <4>5. queue'[o].items = all
        BY <1>t, <2>1, <2>3, <3>1, <3>5 DEF all
      <4>. QED  BY <4>4, <4>5 DEF Distinct
    <3>6. CASE ~Taken(m, s)
      BY <1>t, <2>1, <2>3, <3>1, <3>4, <3>6
    <3>. QED  BY <3>5, <3>6
  <2>. QED  BY <2>2, <2>3
<1>2. CASE Clear
  <2>1. current \in Queues
    BY <1>2, <1>t DEF Clear
  <2>2. queue' = [queue EXCEPT ![current] = [queue[current] EXCEPT !.items = <<>>, !.dropped = {}]]
    BY <1>2 DEF Clear
  <2>3. [queue[current] EXCEPT !.items = <<>>, !.dropped = {}].items = <<>>
    <3>1. queue[current] \in QueueObject
      BY <1>t, <2>1
    <3>2. \A p \in QueueObject : \A e : [p EXCEPT !.items = e, !.dropped = {}].items = e
      BY DEF QueueObject
    <3>. QED  BY <3>1, <3>2, Zenon
  <2> DEFINE q == [queue[current] EXCEPT !.items = <<>>, !.dropped = {}]
  <2>4. queue' = [queue EXCEPT ![current] = q] /\ q.items = <<>>
    BY <2>2, <2>3
  <2> HIDE DEF q
  <2>. QED  BY <1>t, <1>e, <2>1, <2>4
<1>3. ASSUME NEW p \in Queues, RunEnds(p)
      PROVE  Distinct(queue'[o].items)
  <2>1. queue' = [queue EXCEPT ![p] = AfterRun(p)] /\ drain[p].at = "running"
    BY <1>3 DEF RunEnds
  <2>2. CASE o # p
    BY <1>t, <2>1, <2>2
  <2>3. CASE o = p
    <3>1. /\ drain[p].remove \in Nat
          /\ AfterRun(p).items = SubSeq(queue[p].items, drain[p].remove + 1, Len(queue[p].items))
          /\ EndOf(AfterRun(p).items, queue[p].items, drain[p].remove)
          /\ AfterRun(p).items \in Seq(Messages)
      BY <2>1, AfterRunItems
    <3>2. DOMAIN AfterRun(p).items \subseteq Nat
      BY <3>1, LenProperties
    <3>3. Distinct(AfterRun(p).items)
      BY <1>t, <2>3, <3>1, <3>2, DistinctEnd
    <3>. QED  BY <1>t, <2>1, <2>3, <3>3
  <2>. QED  BY <2>2, <2>3
<1>4. ASSUME queue' = queue PROVE Distinct(queue'[o].items)
  BY <1>4, <1>t
<1>5. ASSUME NEW m \in Messages, Forget(m) PROVE queue' = queue
  BY <1>5 DEF Forget
<1>6. StartTurn \/ EndTurn \/ OtherRunBegins \/ OtherRunEnds \/ UNCHANGED vars => queue' = queue
  BY DEF StartTurn, EndTurn, OtherRunBegins, OtherRunEnds, vars
<1>7. ASSUME NEW p \in Queues, Break(p) \/ StartRun(p) \/ Refused(p) \/ RunFails(p)
      PROVE  queue' = queue
  BY <1>7 DEF Break, StartRun, Refused, RunFails
<1>. QED  BY <1>1, <1>2, <1>3, <1>4, <1>5, <1>6, <1>7 DEF Next

\* The end of a drain, and the start of one, change no other drain and make no
\* other queue the key's.
LEMMA ScheduleChanges ==
    ASSUME NEW qs, NEW ds \in [Queues -> Drain], NEW cur \in Queues \cup {NoQueue},
           ScheduleFollowupDrain(qs, ds, cur), NEW x \in Queues
    PROVE  /\ x = current' => x = cur
           /\ drain'[x].at # "off" => x = cur \/ ds[x].at # "off"
           /\ drain'[x].at = "running" <=> ds[x].at = "running"
           /\ drain'[x].at = "running" => drain'[x] = ds[x]
<1>1. CASE cur # NoQueue /\ ds[cur].at = "off" /\ ~Empty(qs[cur])
  <2>1. cur \in Queues /\ current' = cur /\ drain' = [ds EXCEPT ![cur] = Debounce(FALSE)]
    BY <1>1 DEF ScheduleFollowupDrain
  <2>2. drain'[cur].at = "debounce" /\ (x # cur => drain'[x] = ds[x])
    BY <2>1 DEF Debounce
  <2>. QED  BY <1>1, <2>1, <2>2
<1>2. CASE cur # NoQueue /\ ds[cur].at = "off" /\ Empty(qs[cur])
  <2>1. current' = NoQueue /\ drain' = ds
    BY <1>2 DEF ScheduleFollowupDrain
  <2>. QED  BY <2>1, FollowupQueueAssumption
<1>3. CASE ~(cur # NoQueue /\ ds[cur].at = "off")
  <2>1. current' = cur /\ drain' = ds
    BY <1>3 DEF ScheduleFollowupDrain
  <2>. QED  BY <2>1
<1>. QED  BY <1>1, <1>2, <1>3

LEMMA FinishChanges ==
    ASSUME NEW qs, NEW o \in Queues, Finish(o, qs), drain \in [Queues -> Drain],
           current \in Queues \cup {NoQueue}, NEW x \in Queues
    PROVE  /\ x = current' => x = current
           /\ drain'[x].at # "off" => x = current \/ drain[x].at # "off"
           /\ drain'[x].at = "running" <=> x # o /\ drain[x].at = "running"
           /\ drain'[x].at = "running" => drain'[x] = drain[x]
<1> DEFINE ds == [drain EXCEPT ![o] = Off]
<1>1. ds \in [Queues -> Drain] /\ ds[o].at = "off" /\ (x # o => ds[x] = drain[x])
  BY DEF Drain, Off
<1>2. CASE Empty(qs[o])
  <2>1. current' = NoQueue /\ drain' = ds
    BY <1>2 DEF Finish
  <2> HIDE DEF ds
  <2>. QED  BY <1>1, <2>1, FollowupQueueAssumption
<1>3. CASE ~Empty(qs[o])
  <2>1. ScheduleFollowupDrain(qs, ds, current)
    BY <1>3 DEF Finish
  <2> HIDE DEF ds
  <2>2. /\ x = current' => x = current
        /\ drain'[x].at # "off" => x = current \/ ds[x].at # "off"
        /\ drain'[x].at = "running" <=> ds[x].at = "running"
        /\ drain'[x].at = "running" => drain'[x] = ds[x]
    BY <1>1, <2>1, ScheduleChanges
  <2>. QED  BY <1>1, <2>2
<1>. QED  BY <1>2, <1>3

\* The three ways the account of a message changes: nothing new is owed,
LEMMA OwesNoMore ==
    ASSUME FollowupTypeOK, FollowupTypeOK', NEW m \in Messages, Account(m),
           \A x \in Queues : Owes(x, m)' => Owes(x, m),
           runs'[m] = runs[m], accepted[m] + failed[m] <= accepted'[m] + failed'[m]
    PROVE  Account(m)'
<1>1. Owing(m)' \subseteq Owing(m)
  BY DEF Owing
<1>2. IsFiniteSet(Owing(m)') /\ Cardinality(Owing(m)') <= Cardinality(Owing(m))
  BY <1>1, FS_Subset DEF Account
<1>3. Cardinality(Owing(m)) \in Nat /\ Cardinality(Owing(m)') \in Nat
  BY <1>2, FS_CardinalityType DEF Account
<1>4. /\ runs[m] \in Nat /\ accepted[m] + failed[m] \in Nat
      /\ accepted'[m] + failed'[m] \in Nat
  BY DEF FollowupTypeOK
<1>5. \A c, d, r, p, q \in Nat : d <= c /\ r + c <= p /\ p <= q => r + d <= q
  OBVIOUS
<1>6. runs[m] + Cardinality(Owing(m)) <= accepted[m] + failed[m]
  BY DEF Account
<1>7. runs[m] + Cardinality(Owing(m)') <= accepted'[m] + failed'[m]
  BY <1>2, <1>3, <1>4, <1>5, <1>6, Zenon
<1>. QED  BY <1>2, <1>7 DEF Account

\* one queue comes to owe it, which was paid for,
LEMMA OwesOneMore ==
    ASSUME FollowupTypeOK, FollowupTypeOK', NEW m \in Messages, Account(m), NEW o \in Queues,
           \A x \in Queues : x # o /\ Owes(x, m)' => Owes(x, m),
           runs'[m] = runs[m], accepted'[m] + failed'[m] = accepted[m] + failed[m] + 1
    PROVE  Account(m)'
<1>1. Owing(m)' \subseteq Owing(m) \cup {o}
  BY DEF Owing
<1>2. /\ IsFiniteSet(Owing(m) \cup {o})
      /\ Cardinality(Owing(m) \cup {o}) <= Cardinality(Owing(m)) + 1
  <2>1. /\ IsFiniteSet(Owing(m) \cup {o})
        /\ \/ Cardinality(Owing(m) \cup {o}) = Cardinality(Owing(m))
           \/ Cardinality(Owing(m) \cup {o}) = Cardinality(Owing(m)) + 1
    BY FS_AddElement DEF Account
  <2>2. Cardinality(Owing(m)) \in Nat
    BY FS_CardinalityType DEF Account
  <2>3. \A c \in Nat : \A d : (d = c \/ d = c + 1) => d <= c + 1
    OBVIOUS
  <2>. QED  BY <2>1, <2>2, <2>3, Zenon
<1>3. IsFiniteSet(Owing(m)') /\ Cardinality(Owing(m)') <= Cardinality(Owing(m) \cup {o})
  BY <1>1, <1>2, FS_Subset
<1>4. /\ Cardinality(Owing(m)) \in Nat /\ Cardinality(Owing(m)') \in Nat
      /\ Cardinality(Owing(m) \cup {o}) \in Nat
  BY <1>2, <1>3, FS_CardinalityType DEF Account
<1>5. /\ runs[m] \in Nat /\ accepted[m] + failed[m] \in Nat
  BY DEF FollowupTypeOK
<1>6. \A c, u, d \in Nat : d <= u /\ u <= c + 1 => d <= c + 1
  OBVIOUS
<1>7. Cardinality(Owing(m)') <= Cardinality(Owing(m)) + 1
  BY <1>2, <1>3, <1>4, <1>6, Zenon
<1>8. runs[m] + Cardinality(Owing(m)') <= accepted'[m] + failed'[m]
  <2>1. \A c, d, r, p, q \in Nat : d <= c + 1 /\ r + c <= p /\ q = p + 1 => r + d <= q
    OBVIOUS
  <2>2. runs[m] + Cardinality(Owing(m)) <= accepted[m] + failed[m]
    BY DEF Account
  <2>3. accepted'[m] + failed'[m] \in Nat
    BY DEF FollowupTypeOK
  <2>. QED  BY <1>4, <1>5, <1>7, <2>1, <2>2, <2>3, Zenon
<1>. QED  BY <1>3, <1>8 DEF Account

\* and one that owed it runs it.
LEMMA OwesOneLess ==
    ASSUME FollowupTypeOK, FollowupTypeOK', NEW m \in Messages, Account(m), NEW o \in Queues,
           Owes(o, m), \A x \in Queues : Owes(x, m)' => x # o /\ Owes(x, m),
           runs'[m] = runs[m] + 1, accepted' = accepted, failed' = failed
    PROVE  Account(m)'
<1>1. Owing(m)' \subseteq Owing(m) \ {o} /\ o \in Owing(m)
  BY DEF Owing
<1>2. IsFiniteSet(Owing(m) \ {o}) /\ Cardinality(Owing(m) \ {o}) = Cardinality(Owing(m)) - 1
  BY <1>1, FS_RemoveElement DEF Account
<1>3. IsFiniteSet(Owing(m)') /\ Cardinality(Owing(m)') <= Cardinality(Owing(m) \ {o})
  BY <1>1, <1>2, FS_Subset
<1>4. /\ Cardinality(Owing(m)) \in Nat /\ Cardinality(Owing(m)') \in Nat
      /\ Cardinality(Owing(m) \ {o}) \in Nat
  BY <1>2, <1>3, FS_CardinalityType DEF Account
<1>5. /\ runs[m] \in Nat /\ accepted[m] + failed[m] \in Nat
  BY DEF FollowupTypeOK
<1>6. \A c, u, d, r, p \in Nat : d <= u /\ u = c - 1 /\ r + c <= p => (r + 1) + d <= p
  OBVIOUS
<1>7. runs[m] + Cardinality(Owing(m)) <= accepted[m] + failed[m]
  BY DEF Account
<1>8. (runs[m] + 1) + Cardinality(Owing(m)') <= accepted[m] + failed[m]
  BY <1>2, <1>3, <1>4, <1>5, <1>6, <1>7, Zenon
<1>. QED  BY <1>3, <1>8 DEF Account

\* What a drain begins to run was owed, and is owed no longer: the first item or
\* all of them, and no message occurs twice.
LEMMA PlanOwes ==
    ASSUME FollowupTypeOK, NoTwice, NEW o \in Queues, ~NothingToRun(o)
    PROVE  /\ Plan(o).at = "running"
           /\ \A m \in Plan(o).messages : \E i \in DOMAIN queue[o].items : queue[o].items[i] = m
           /\ \A i \in DOMAIN queue[o].items :
                 queue[o].items[i] \in Plan(o).messages => ~(i > Plan(o).remove)
<1> DEFINE q      == queue[o]
           forced == drain[o].forced \/ (q.settings.mode = "collect" /\ CrossChannel(q.items))
<1>1. q.items \in Seq(Messages) /\ Distinct(q.items)
  <2>1. q \in QueueObject
    BY DEF FollowupTypeOK
  <2>. QED  BY <2>1 DEF QueueObject, NoTwice
<1>2. Len(q.items) \in Nat /\ DOMAIN q.items = 1..Len(q.items)
  BY <1>1, LenProperties
<1>3. CASE q.settings.mode = "collect" /\ ~forced
  <2>1. Plan(o) = Running(forced, ToSet(q.items), Len(q.items), Summary(q))
    BY <1>3 DEF Plan
  <2>2. /\ Plan(o).at = "running" /\ Plan(o).messages = ToSet(q.items)
        /\ Plan(o).remove = Len(q.items)
    BY <2>1 DEF Running
  <2>. QED  BY <1>2, <2>2 DEF ToSet
<1>4. CASE ~(q.settings.mode = "collect" /\ ~forced) /\ q.settings.mode # "collect" /\ Summary(q)
  <2>1. Plan(o) = Running(forced, {}, 1, TRUE)
    BY <1>4 DEF Plan
  <2>2. Plan(o).at = "running" /\ Plan(o).messages = {}
    BY <2>1 DEF Running
  <2>. QED  BY <2>2
<1>5. CASE /\ ~(q.settings.mode = "collect" /\ ~forced)
           /\ ~(q.settings.mode # "collect" /\ Summary(q))
  <2>1. Plan(o) = Running(forced, {Head(q.items)}, 1, FALSE)
    BY <1>5 DEF Plan
  <2>2. Plan(o).at = "running" /\ Plan(o).messages = {Head(q.items)} /\ Plan(o).remove = 1
    BY <2>1 DEF Running
  <2>3. q.items # <<>>
    <3>1. SUFFICES ASSUME q.items = <<>> PROVE FALSE
      OBVIOUS
    <3>2. q.settings.mode = "collect" /\ ~drain[o].forced
      BY <3>1 DEF NothingToRun
    <3>3. CrossChannel(q.items)
      BY <1>5, <3>2
    <3>. QED  BY <3>1, <3>3 DEF CrossChannel
  <2>4. 1 \in DOMAIN q.items /\ Head(q.items) = q.items[1]
    BY <1>1, <2>3, Elements
  <2>5. ASSUME NEW i \in DOMAIN q.items, q.items[i] \in Plan(o).messages
        PROVE  ~(i > Plan(o).remove)
    <3>1. q.items[i] = q.items[1]
      BY <2>2, <2>4, <2>5
    <3>2. i = 1
      BY <1>1, <2>4, <3>1 DEF Distinct
    <3>. QED  BY <2>2, <3>2
  <2>. QED  BY <2>2, <2>4, <2>5
<1>. QED  BY <1>3, <1>4, <1>5

\* What is owed after a step that leaves the queue alone was owed before it.
LEMMA OwedBefore ==
    ASSUME NEW m, NEW x \in Queues, queue'[x] = queue[x],
           x = current' => x = current \/ drain[x].at # "off",
           drain'[x].at # "off" => x = current \/ drain[x].at # "off",
           drain[x].at = "running" => drain'[x] = drain[x] \/ m \notin drain[x].messages,
           Owes(x, m)'
    PROVE  Owes(x, m)
<1>1. x = current \/ drain[x].at # "off"
  BY DEF Owes, On
<1>2. PICK i \in DOMAIN queue[x].items :
         /\ queue[x].items[i] = m
         /\ drain'[x].at = "running" => m \notin drain'[x].messages \/ i > drain'[x].remove
  BY DEF Owes
<1>3. drain[x].at = "running" => m \notin drain[x].messages \/ i > drain[x].remove
  BY <1>2
<1>. QED  BY <1>1, <1>2, <1>3 DEF Owes, On

\* A message that comes in is owed by the queue it comes into, and nothing else.
LEMMA EnqueueOwes ==
    ASSUME FollowupTypeOK, NEW y \in Messages, NEW s \in Settings, NEW idle \in BOOLEAN,
           Enqueue(y, s, idle), NEW m \in Messages, NEW x \in Queues, Owes(x, m)',
           ~(x = Target /\ y = m /\ Taken(y, s))
    PROVE  Owes(x, m)
<1>t. /\ queue \in [Queues -> QueueObject] /\ drain \in [Queues -> Drain]
      /\ current \in Queues \cup {NoQueue}
  BY DEF FollowupTypeOK
<1>1. /\ Target \in Queues
      /\ Target = current \/ (current = NoQueue /\ ~On(Target))
      /\ queue' = [queue EXCEPT ![Target] = Result(y, s)]
      /\ idle => ScheduleFollowupDrain(queue', drain, Target)
      /\ ~idle => current' = Target /\ drain' = drain
  BY EnqueuePieces
<1>2. /\ x = current' => x = Target
      /\ drain'[x].at # "off" => x = Target \/ drain[x].at # "off"
      /\ drain'[x].at = "running" <=> drain[x].at = "running"
      /\ drain'[x].at = "running" => drain'[x] = drain[x]
  BY <1>1, <1>t, ScheduleChanges
<1>3. CASE x # Target
  BY <1>1, <1>2, <1>3, <1>t, OwedBefore
<1>4. CASE x = Target
  <2> DEFINE was == IF current # NoQueue THEN queue[Target].items ELSE <<>>
  <2>1. PICK room \in Seq(Messages), k \in Nat :
           /\ EndOf(room, was, k)
           /\ Result(y, s).items = IF Taken(y, s) THEN Append(room, y) ELSE room
    BY <1>1, EnqueueItems
  <2>2. queue'[x].items = IF Taken(y, s) THEN Append(room, y) ELSE room
    BY <1>1, <1>4, <1>t, <2>1
  <2>3. PICK i \in DOMAIN queue'[x].items :
           /\ queue'[x].items[i] = m
           /\ drain'[x].at = "running" => m \notin drain'[x].messages \/ i > drain'[x].remove
    BY DEF Owes
  <2>4. Len(room) \in Nat /\ DOMAIN room = 1..Len(room)
    BY LenProperties
  <2>5. i \in DOMAIN room /\ room[i] = m
    <3>1. CASE ~Taken(y, s)
      BY <2>2, <2>3, <3>1
    <3>2. CASE Taken(y, s)
      <4>1. /\ Append(room, y) \in Seq(Messages) /\ Len(Append(room, y)) = Len(room) + 1
            /\ \A j \in 1..Len(room) : Append(room, y)[j] = room[j]
            /\ Append(room, y)[Len(room) + 1] = y
        BY AppendProperties
      <4>2. DOMAIN Append(room, y) = 1..(Len(room) + 1)
        BY <4>1, LenProperties
      <4> DEFINE all == Append(room, y)
      <4>3. /\ DOMAIN all = 1..(Len(room) + 1) /\ all[Len(room) + 1] = y /\ y # m
            /\ \A j \in 1..Len(room) : all[j] = room[j]
            /\ i \in DOMAIN all /\ all[i] = m
        BY <1>4, <2>2, <2>3, <3>2, <4>1, <4>2
      <4> HIDE DEF all
      <4>4. i \in 1..Len(room)
        BY <2>4, <4>3
      <4>. QED  BY <2>4, <4>3, <4>4
    <3>. QED  BY <3>1, <3>2
  <2>6. i + k \in DOMAIN was /\ was[i + k] = m
    BY <2>1, <2>5 DEF EndOf
  <2>7. current # NoQueue
    BY <2>6
  <2>8. i + k \in DOMAIN queue[x].items /\ queue[x].items[i + k] = m /\ x = current
    BY <1>1, <1>4, <2>6, <2>7
  <2> HIDE DEF was
  <2>9. drain[x].at = "running" => m \notin drain[x].messages \/ i + k > drain[x].remove
    <3>1. SUFFICES ASSUME drain[x].at = "running", m \in drain[x].messages
                   PROVE  i + k > drain[x].remove
      OBVIOUS
    <3>2. i > drain[x].remove /\ drain[x].remove \in Nat
      <4>1. drain[x] \in Drain
        BY <1>t
      <4>. QED  BY <1>2, <2>3, <3>1, <4>1 DEF Drain, Off
    <3>3. i \in Nat
      BY <2>4, <2>5
    <3>. QED  BY <3>2, <3>3
  <2>. QED  BY <2>8, <2>9 DEF Owes
<1>. QED  BY <1>3, <1>4

\* The end of a run removes what it ran: what is owed afterwards lay behind.
LEMMA RunEndsOwes ==
    ASSUME FollowupTypeOK, NEW o \in Queues, RunEnds(o), NEW m \in Messages,
           NEW x \in Queues, Owes(x, m)'
    PROVE  Owes(x, m)
<1>t. /\ queue \in [Queues -> QueueObject] /\ drain \in [Queues -> Drain]
      /\ current \in Queues \cup {NoQueue}
  BY DEF FollowupTypeOK
<1>1. drain[o].at = "running" /\ queue' = [queue EXCEPT ![o] = AfterRun(o)]
  BY DEF RunEnds
<1>2. CASE x # o
  <2>1. /\ x = current' => x = current
        /\ drain'[x].at # "off" => x = current \/ drain[x].at # "off"
        /\ drain[x].at = "running" => drain'[x] = drain[x]
    <3>1. CASE Finish(o, queue')
      BY <1>2, <1>t, <3>1, FinishChanges
    <3>2. CASE drain' = [drain EXCEPT ![o] = Debounce(drain[o].forced)] /\ current' = current
      BY <1>2, <1>t, <3>2
    <3>. QED  BY <3>1, <3>2 DEF RunEnds
  <2>. QED  BY <1>1, <1>2, <1>t, <2>1, OwedBefore
<1>3. CASE x = o
  <2>1. drain[o].remove \in Nat /\ AfterRun(o).items \in Seq(Messages)
    BY <1>1, AfterRunItems
  <2>2. EndOf(AfterRun(o).items, queue[o].items, drain[o].remove)
    BY <1>1, AfterRunItems
  <2>3. PICK i \in DOMAIN queue'[o].items : queue'[o].items[i] = m
    BY <1>3 DEF Owes
  <2>4. i \in DOMAIN AfterRun(o).items /\ AfterRun(o).items[i] = m
    BY <1>1, <1>t, <2>3
  <2>5. /\ i + drain[o].remove \in DOMAIN queue[o].items
        /\ queue[o].items[i + drain[o].remove] = m
    BY <2>2, <2>4 DEF EndOf
  <2>6. i \in Nat \ {0}
    BY <2>1, <2>4, LenProperties
  <2>7. i + drain[o].remove > drain[o].remove
    BY <2>1, <2>6
  <2>. QED  BY <1>1, <1>3, <2>5, <2>7 DEF Owes, On
<1>. QED  BY <1>2, <1>3

LEMMA AccountsAreKept ==
    FollowupTypeOK /\ FollowupTypeOK' /\ NoTwice /\ AccountsBalance /\ [Next]_vars
       => AccountsBalance'
<1> SUFFICES ASSUME FollowupTypeOK, FollowupTypeOK', NoTwice, AccountsBalance, [Next]_vars,
                    NEW m \in Messages
             PROVE  Account(m)'
  BY DEF AccountsBalance
<1>t. /\ queue \in [Queues -> QueueObject] /\ drain \in [Queues -> Drain]
      /\ current \in Queues \cup {NoQueue}
      /\ {accepted, runs, failed} \subseteq [Messages -> Nat]
  BY DEF FollowupTypeOK
<1>a. Account(m)
  BY DEF AccountsBalance
<1>same. ASSUME \A x \in Queues : Owes(x, m)' => Owes(x, m), UNCHANGED <<accepted, runs, failed>>
         PROVE  Account(m)'
  <2>1. accepted[m] + failed[m] <= accepted'[m] + failed'[m]
    BY <1>same, <1>t
  <2>. QED  BY <1>a, <1>same, <2>1, OwesNoMore
<1>1. ASSUME NEW y \in Messages, NEW s \in Settings, NEW idle \in BOOLEAN, Enqueue(y, s, idle)
      PROVE  Account(m)'
  <2>1. /\ Target \in Queues
        /\ IF Taken(y, s) THEN accepted' = [accepted EXCEPT ![y] = @ + 1] ELSE accepted' = accepted
        /\ runs' = runs /\ failed' = failed
    BY <1>1, EnqueuePieces
  <2>2. \A x \in Queues : ~(x = Target /\ y = m /\ Taken(y, s)) /\ Owes(x, m)' => Owes(x, m)
    BY <1>1, EnqueueOwes
  <2>3. CASE y = m /\ Taken(y, s)
    <3>1. accepted'[m] + failed'[m] = accepted[m] + failed[m] + 1
      BY <1>t, <2>1, <2>3
    <3>2. \A x \in Queues : x # Target /\ Owes(x, m)' => Owes(x, m)
      BY <2>2
    <3>3. runs'[m] = runs[m]
      BY <2>1
    <3>. QED  BY <1>a, <2>1, <3>1, <3>2, <3>3, OwesOneMore
  <2>4. CASE ~(y = m /\ Taken(y, s))
    <3>1. accepted'[m] = accepted[m]
      BY <1>t, <2>1, <2>4
    <3>2. accepted[m] + failed[m] <= accepted'[m] + failed'[m]
      BY <1>t, <2>1, <3>1
    <3>3. \A x \in Queues : Owes(x, m)' => Owes(x, m)
      BY <2>2, <2>4
    <3>4. runs'[m] = runs[m]
      BY <2>1
    <3>. QED  BY <1>a, <3>2, <3>3, <3>4, OwesNoMore
  <2>. QED  BY <2>3, <2>4
<1>2. ASSUME NEW y \in Messages, Forget(y)
      PROVE  Account(m)'
  <2>1. UNCHANGED <<queue, drain, current, accepted, runs, failed>>
    BY <1>2 DEF Forget, history
  <2>. QED  BY <1>same, <2>1, OwedBefore
<1>3. CASE StartTurn \/ OtherRunBegins \/ OtherRunEnds \/ UNCHANGED vars
  <2>1. UNCHANGED <<queue, drain, current, accepted, runs, failed>>
    BY <1>3 DEF StartTurn, OtherRunBegins, OtherRunEnds, vars, history
  <2>. QED  BY <1>same, <2>1, OwedBefore
<1>4. CASE EndTurn
  <2>1. ScheduleFollowupDrain(queue, drain, current)
    BY <1>4 DEF EndTurn
  <2>2. UNCHANGED <<queue, accepted, runs, failed>>
    BY <1>4 DEF EndTurn, history
  <2>3. ASSUME NEW x \in Queues, Owes(x, m)'
        PROVE  Owes(x, m)
    <3>1. /\ x = current' => x = current
          /\ drain'[x].at # "off" => x = current \/ drain[x].at # "off"
          /\ drain[x].at = "running" => drain'[x] = drain[x]
      BY <1>t, <2>1, ScheduleChanges
    <3>. QED  BY <2>2, <2>3, <3>1, OwedBefore
  <2>. QED  BY <1>same, <2>2, <2>3
<1>5. CASE Clear
  <2>1. current \in Queues
    BY <1>5, <1>t DEF Clear
  <2>2. /\ queue' = [queue EXCEPT ![current] = [queue[current] EXCEPT !.items = <<>>, !.dropped = {}]]
        /\ current' = NoQueue
        /\ UNCHANGED <<drain, accepted, runs, failed>>
    BY <1>5 DEF Clear
  <2>3. \A p \in QueueObject : [p EXCEPT !.items = <<>>, !.dropped = {}].items = <<>>
    BY DEF QueueObject
  <2>4. queue'[current].items = <<>>
    <3>1. queue[current] \in QueueObject
      BY <1>t, <2>1
    <3>2. queue'[current] = [queue[current] EXCEPT !.items = <<>>, !.dropped = {}]
      BY <1>t, <2>1, <2>2
    <3>. QED  BY <2>3, <3>1, <3>2
  <2>5. ASSUME NEW x \in Queues, Owes(x, m)'
        PROVE  Owes(x, m)
    <3>1. DOMAIN queue'[x].items # {}
      BY <2>5 DEF Owes
    <3>2. x # current
      BY <2>4, <3>1
    <3>3. queue'[x] = queue[x]
      BY <1>t, <2>1, <2>2, <3>2
    <3>4. x # current'
      BY <2>2, FollowupQueueAssumption
    <3>. QED  BY <2>2, <2>5, <3>3, <3>4, OwedBefore
  <2>. QED  BY <1>same, <2>2, <2>5
<1>6. ASSUME NEW o \in Queues, Break(o) \/ Refused(o)
      PROVE  Account(m)'
  <2>1. /\ drain[o].at = "debounce" /\ Finish(o, queue)
        /\ UNCHANGED <<queue, accepted, runs, failed>>
    BY <1>6 DEF Break, Refused, history
  <2>2. ASSUME NEW x \in Queues, Owes(x, m)'
        PROVE  Owes(x, m)
    <3>1. /\ x = current' => x = current
          /\ drain'[x].at # "off" => x = current \/ drain[x].at # "off"
          /\ drain[x].at = "running" => drain'[x] = drain[x]
      BY <1>t, <2>1, FinishChanges
    <3>. QED  BY <2>1, <2>2, <3>1, OwedBefore
  <2>. QED  BY <1>same, <2>1, <2>2
<1>7. ASSUME NEW o \in Queues, RunFails(o)
      PROVE  Account(m)'
  <2>1. /\ drain[o].at = "running" /\ Finish(o, queue)
        /\ UNCHANGED <<queue, accepted, runs>>
        /\ failed' = [y \in Messages |-> IF y \in drain[o].messages THEN failed[y] + 1 ELSE failed[y]]
    BY <1>7 DEF RunFails
  <2>2. ASSUME NEW x \in Queues, Owes(x, m)', x # o \/ m \notin drain[o].messages
        PROVE  Owes(x, m)
    <3>1. /\ x = current' => x = current
          /\ drain'[x].at # "off" => x = current \/ drain[x].at # "off"
          /\ drain'[x].at = "running" <=> x # o /\ drain[x].at = "running"
          /\ drain'[x].at = "running" => drain'[x] = drain[x]
      BY <1>t, <2>1, FinishChanges
    <3>. QED  BY <2>1, <2>2, <3>1, OwedBefore
  <2>3. CASE m \in drain[o].messages
    <3>1. accepted'[m] + failed'[m] = accepted[m] + failed[m] + 1
      BY <1>t, <2>1, <2>3
    <3>2. \A x \in Queues : x # o /\ Owes(x, m)' => Owes(x, m)
      BY <2>2
    <3>. QED  BY <1>a, <2>1, <3>1, <3>2, OwesOneMore
  <2>4. CASE m \notin drain[o].messages
    <3>1. accepted[m] + failed[m] <= accepted'[m] + failed'[m]
      BY <1>t, <2>1, <2>4
    <3>2. \A x \in Queues : Owes(x, m)' => Owes(x, m)
      BY <2>2, <2>4
    <3>. QED  BY <1>a, <2>1, <3>1, <3>2, OwesNoMore
  <2>. QED  BY <2>3, <2>4
<1>8. ASSUME NEW o \in Queues, StartRun(o)
      PROVE  Account(m)'
  <2>1. /\ drain[o].at = "debounce" /\ ~NothingToRun(o)
        /\ drain' = [drain EXCEPT ![o] = Plan(o)]
        /\ runs' = [y \in Messages |-> IF y \in Plan(o).messages THEN runs[y] + 1 ELSE runs[y]]
        /\ UNCHANGED <<queue, current, accepted, failed>>
    BY <1>8 DEF StartRun
  <2>2. drain'[o] = Plan(o) /\ \A x \in Queues : x # o => drain'[x] = drain[x]
    BY <1>t, <2>1
  <2>3. /\ Plan(o).at = "running"
        /\ \A y \in Plan(o).messages : \E i \in DOMAIN queue[o].items : queue[o].items[i] = y
        /\ \A i \in DOMAIN queue[o].items :
              queue[o].items[i] \in Plan(o).messages => ~(i > Plan(o).remove)
    BY <2>1, PlanOwes
  <2>4. ASSUME NEW x \in Queues, Owes(x, m)'
        PROVE  Owes(x, m) /\ (m \in Plan(o).messages => x # o)
    <3>1. Owes(x, m)
      BY <2>1, <2>2, <2>4, OwedBefore
    <3>2. ASSUME m \in Plan(o).messages, x = o PROVE FALSE
      <4>1. PICK i \in DOMAIN queue[o].items :
               queue[o].items[i] = m /\ (m \notin Plan(o).messages \/ i > Plan(o).remove)
        BY <2>1, <2>2, <2>3, <2>4, <3>2 DEF Owes
      <4>. QED  BY <2>3, <3>2, <4>1
    <3>. QED  BY <3>1, <3>2
  <2>5. CASE m \in Plan(o).messages
    <3>1. Owes(o, m)
      BY <2>1, <2>3, <2>5 DEF Owes, On
    <3>2. runs'[m] = runs[m] + 1
      BY <2>1, <2>5
    <3>. QED  BY <1>a, <2>1, <2>4, <2>5, <3>1, <3>2, OwesOneLess
  <2>6. CASE m \notin Plan(o).messages
    <3>1. runs'[m] = runs[m] /\ accepted[m] + failed[m] <= accepted'[m] + failed'[m]
      BY <1>t, <2>1, <2>6
    <3>2. \A x \in Queues : Owes(x, m)' => Owes(x, m)
      BY <2>4
    <3>. QED  BY <1>a, <3>1, <3>2, OwesNoMore
  <2>. QED  BY <2>5, <2>6
<1>9. ASSUME NEW o \in Queues, RunEnds(o)
      PROVE  Account(m)'
  <2>1. \A x \in Queues : Owes(x, m)' => Owes(x, m)
    BY <1>9, RunEndsOwes
  <2>2. UNCHANGED <<accepted, runs, failed>>
    BY <1>9 DEF RunEnds, history
  <2>. QED  BY <1>same, <2>1, <2>2
<1>. QED  BY <1>1, <1>2, <1>3, <1>4, <1>5, <1>6, <1>7, <1>8, <1>9 DEF Next

LEMMA AccountsAtFirst == Init => NoTwice /\ AccountsBalance
<1> SUFFICES ASSUME Init PROVE NoTwice /\ AccountsBalance
  OBVIOUS
<1>1. NoTwice
  <2>1. \A o \in Queues : queue[o].items = <<>>
    BY DEF Init, NewQueue
  <2>. QED  BY <2>1 DEF NoTwice, Distinct
<1>2. \A m \in Messages : Owing(m) = {}
  <2>1. \A o \in Queues : o # current /\ drain[o].at = "off"
    BY FollowupQueueAssumption DEF Init, Off
  <2>. QED  BY <2>1 DEF Owing, Owes, On
<1>3. \A m \in Messages : runs[m] = 0 /\ accepted[m] = 0 /\ failed[m] = 0
  BY DEF Init
<1>4. IsFiniteSet({}) /\ Cardinality({}) = 0
  BY FS_EmptySet
<1>5. AccountsBalance
  <2> SUFFICES ASSUME NEW m \in Messages PROVE Account(m)
    BY DEF AccountsBalance
  <2>1. IsFiniteSet(Owing(m)) /\ Cardinality(Owing(m)) = 0
    BY <1>2, <1>4
  <2>. QED  BY <1>3, <2>1 DEF Account
<1>. QED  BY <1>1, <1>5

LEMMA AccountsSuffice == FollowupTypeOK /\ AccountsBalance => RunsAreAccounted
<1> SUFFICES ASSUME FollowupTypeOK, AccountsBalance, NEW m \in Messages
             PROVE  runs[m] <= accepted[m] + failed[m]
  BY DEF RunsAreAccounted
<1>1. IsFiniteSet(Owing(m)) /\ runs[m] + Cardinality(Owing(m)) <= accepted[m] + failed[m]
  BY DEF AccountsBalance, Account
<1>2. Cardinality(Owing(m)) \in Nat
  BY <1>1, FS_CardinalityType
<1>3. runs[m] \in Nat /\ accepted[m] + failed[m] \in Nat
  BY DEF FollowupTypeOK
<1>4. \A r, c, p \in Nat : r + c <= p => r <= p
  OBVIOUS
<1>. QED  BY <1>1, <1>2, <1>3, <1>4, Zenon

\* A message is run no more often than it was taken in and its runs failed: the
\* drain leaves the items it runs in the queue, and takes as many off it at the
\* end, so that each of them is owed a run by at most one place in one queue.
THEOREM NoRunIsRepeated == Spec => []RunsAreAccounted
<1>1. Init => FollowupTypeOK
  BY TypesHoldAtFirst
<1>2. FollowupTypeOK /\ [Next]_vars => FollowupTypeOK'
  BY TypesAreKept
<1>3. FollowupTypeOK /\ NoTwice /\ [Next]_vars => NoTwice'
  BY NoTwiceIsKept
<1>4. FollowupTypeOK /\ FollowupTypeOK' /\ NoTwice /\ AccountsBalance /\ [Next]_vars
         => AccountsBalance'
  BY AccountsAreKept
<1>. QED  BY <1>1, <1>2, <1>3, <1>4, AccountsAtFirst, AccountsSuffice, PTL DEF Spec
=============================================================================
