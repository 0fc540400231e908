---------------------------- MODULE FollowupQueue ----------------------------
(***************************************************************************)
(* The queue of messages that arrive while an agent run of their session    *)
(* goes on (src/auto-reply/reply/queue): enqueueFollowupRun keeps them, the *)
(* end of the run schedules a drain, and the drain runs them one by one or  *)
(* together.                                                                *)
(*                                                                          *)
(* FOLLOWUP_QUEUES maps the session's key to a queue object.  A drain holds *)
(* on to the object it began with, over awaits, while the map may come to   *)
(* hold another: objects are therefore part of the state.  One key is       *)
(* modelled; keys share nothing but the store of recent message ids.        *)
(*                                                                          *)
(* A drain's steps end where it awaits: the debounce and the run.           *)
(* Abstracted: prompts, the lines of a summary, who runs a follow-up, time,  *)
(* and of the runs that come from no message all but that they are active.  *)
(***************************************************************************)
EXTENDS Naturals, Sequences, SequencesExt

CONSTANTS
    Messages,
    Channel,        \* where each message came from
    Settings,       \* the settings that may come with a message
    Queues,         \* bound: queue objects that exist at once
    NoQueue,
    MaxEvents       \* bound: new turns, other runs, clears, failed runs and forgotten
                    \* ids, together

ASSUME FollowupQueueAssumption ==
    /\ Settings # {}
    /\ Settings \subseteq [mode : {"followup", "collect"}, cap : Nat \ {0},
                           dropPolicy : {"old", "new", "summarize"}]
    /\ NoQueue \notin Queues
    /\ MaxEvents \in Nat

VARIABLES
    queue,      \* every queue object
    current,    \* FOLLOWUP_QUEUES.get(key)
    drain,      \* the drain of each object
    turn,       \* a run that came straight from a message goes on
    other,      \* a run of another caller is active (ACTIVE_EMBEDDED_RUNS)
    overlooked, \* history: a message came in while only such a run went on, and
                \* nobody has scheduled a drain since
    recent,     \* RECENT_QUEUE_MESSAGE_IDS
    accepted,   \* history: how often each message was taken in
    runs,       \* history: how often each was in a run
    failed,     \* history: how often each was in a run that failed
    cleared,    \* history: messages removed by a clear
    capped,     \* history: messages removed by the cap
    disturbed,  \* history: a queue was cleared under its drain, or capped under a run
    events      \* how many of the events MaxEvents bounds have happened

history  == <<accepted, runs, failed, cleared, capped, disturbed>>
vars     == <<queue, current, drain, turn, other, overlooked, recent, history, events>>

NewQueue(s) == [items |-> <<>>, dropped |-> {}, settings |-> s]
Empty(q)    == q.items = <<>> /\ q.dropped = {}
Summary(q)  == q.settings.dropPolicy = "summarize" /\ q.dropped # {}

\* A drain waits for the debounce, or for the run of some messages after which
\* it removes so many items, and the summary if the run was told of it.
Off         == [at |-> "off"]
Debounce(f) == [at |-> "debounce", forced |-> f]
Running(f, messages, n, summary) ==
    [at |-> "running", forced |-> f, messages |-> messages, remove |-> n, summary |-> summary]

Happens == events < MaxEvents /\ events' = events + 1

On(o)  == drain[o].at # "off"
Active == turn \/ \E o \in Queues : drain[o].at = "running"

Init ==
    /\ queue \in [Queues -> {NewQueue(s) : s \in {CHOOSE s \in Settings : TRUE}}]
    /\ current = NoQueue
    /\ drain = [o \in Queues |-> Off]
    /\ turn = TRUE
    /\ other = FALSE
    /\ overlooked = FALSE
    /\ recent = {}
    /\ accepted = [m \in Messages |-> 0]
    /\ runs = [m \in Messages |-> 0]
    /\ failed = [m \in Messages |-> 0]
    /\ cleared = {}
    /\ capped = {}
    /\ disturbed = FALSE
    /\ events = 0

-----------------------------------------------------------------------------
(* Scheduling a drain *)

\* scheduleFollowupDrain: the key's queue is drained unless it already is; an
\* empty one is removed at once.
ScheduleFollowupDrain(qs, ds, cur) ==
    /\ overlooked' = FALSE
    /\ IF cur # NoQueue /\ ds[cur].at = "off"
       THEN IF Empty(qs[cur])
            THEN current' = NoQueue /\ drain' = ds
            ELSE current' = cur /\ drain' = [ds EXCEPT ![cur] = Debounce(FALSE)]
       ELSE current' = cur /\ drain' = ds

\* Mutants of Finish: what a failed run leaves is not scheduled again;
FinishOnly(o, qs) ==
    /\ drain' = [drain EXCEPT ![o] = Off]
    /\ current' = IF Empty(qs[o]) THEN NoQueue ELSE current
    /\ overlooked' = FALSE

\* the queue is not given back.
FinishDraining(o, qs) ==
    IF Empty(qs[o]) THEN UNCHANGED drain /\ current' = NoQueue /\ overlooked' = FALSE
    ELSE ScheduleFollowupDrain(qs, [drain EXCEPT ![o] = Off], current)

\* The end of a drain removes whatever queue the key has by now, if its own is
\* empty, and otherwise schedules that one.
Finish(o, qs) ==
    LET ds == [drain EXCEPT ![o] = Off]
    IN  IF Empty(qs[o]) THEN current' = NoQueue /\ drain' = ds /\ overlooked' = FALSE
        ELSE ScheduleFollowupDrain(qs, ds, current)

-----------------------------------------------------------------------------
(* Messages *)

\* Mutant of Overflow: the cap is exceeded by one.
OverflowLate(q) == Len(q.items) > q.settings.cap

Overflow(q) == Len(q.items) >= q.settings.cap

\* How many items applyQueueDropPolicy removes, for a policy other than "new",
\* which they are, and the queue after it.
Excess(q)  == Len(q.items) - q.settings.cap + 1
Removed(q) == IF Overflow(q) THEN ToSet(SubSeq(q.items, 1, Excess(q))) ELSE {}
WithRoom(q) ==
    IF ~Overflow(q) THEN q
    ELSE [q EXCEPT !.items = SubSeq(@, Excess(q) + 1, Len(@)),
                   !.dropped = IF q.settings.dropPolicy = "summarize"
                               THEN @ \cup Removed(q) ELSE @]

AlreadyQueued(m, q) == m \in recent \/ m \in ToSet(q.items)

\* Mutant of MayBeIdle: it is not asked again whether the run still goes on.
NeverAsked(idle) == ~idle

\* isRunActive, asked after the message was taken in.  It may answer no
\* before the run has got to its end.
MayBeIdle(idle) == idle \/ Active \/ other

\* Nobody who will schedule a drain is at work.
OnlyOther == other /\ ~Active /\ \A o \in Queues : ~On(o)

\* A message arrives while a run went on: enqueueFollowupRun, whose answer is
\* ignored, and the drain if the run is over by now.
Enqueue(m, s, idle) ==
    LET o     == IF current # NoQueue THEN current
                 ELSE CHOOSE x \in Queues : ~On(x)
        given == IF current # NoQueue THEN [queue[o] EXCEPT !.settings = s] ELSE NewQueue(s)
        taken == ~AlreadyQueued(m, given) /\ ~(Overflow(given) /\ s.dropPolicy = "new")
        qs    == [queue EXCEPT ![o] =
                     IF taken THEN [WithRoom(given) EXCEPT !.items = Append(@, m)] ELSE given]
    IN  /\ current # NoQueue \/ \E x \in Queues : ~On(x)
        /\ MayBeIdle(idle)
        /\ queue' = qs
        /\ IF idle THEN ScheduleFollowupDrain(qs, drain, o)
                   ELSE current' = o /\ overlooked' = (overlooked \/ OnlyOther) /\ UNCHANGED drain
        /\ IF taken
           THEN /\ recent' = recent \cup {m}
                /\ accepted' = [accepted EXCEPT ![m] = @ + 1]
                /\ capped' = capped \cup Removed(given)
                /\ disturbed' = (disturbed \/ (Overflow(given) /\ drain[o].at = "running"))
           ELSE UNCHANGED <<recent, accepted, capped, disturbed>>
        /\ UNCHANGED <<turn, other, runs, failed, cleared, events>>

\* The id of a message is kept for five minutes.
Forget(m) ==
    /\ m \in recent
    /\ Happens
    /\ recent' = recent \ {m}
    /\ UNCHANGED <<queue, current, drain, turn, other, overlooked, history>>

\* A message that finds no run starts one at once.
StartTurn ==
    /\ ~Active /\ ~other
    /\ Happens
    /\ turn' = TRUE
    /\ UNCHANGED <<queue, current, drain, other, overlooked, recent, history>>

\* A run of the session that comes from no message (the agent command) does not
\* end in finalizeWithFollowup.  It is no reply operation either: it refuses
\* nobody, and lane and drain go on beside it.
OtherRunBegins ==
    /\ ~other
    /\ Happens
    /\ other' = TRUE
    /\ UNCHANGED <<queue, current, drain, turn, overlooked, recent, history>>

OtherRunEnds ==
    /\ other
    /\ other' = FALSE
    /\ UNCHANGED <<queue, current, drain, turn, overlooked, recent, history, events>>

\* finalizeWithFollowup, however the run ended
EndTurn ==
    /\ turn
    /\ turn' = FALSE
    /\ ScheduleFollowupDrain(queue, drain, current)
    /\ UNCHANGED <<queue, other, recent, history, events>>

\* clearSessionQueues: /stop, a reset of the session, its deletion
Clear ==
    /\ current # NoQueue
    /\ Happens
    /\ cleared' = cleared \cup ToSet(queue[current].items) \cup queue[current].dropped
    /\ disturbed' = (disturbed \/ On(current))
    /\ queue' = [queue EXCEPT ![current].items = <<>>, ![current].dropped = {}]
    /\ current' = NoQueue
    /\ UNCHANGED <<drain, turn, other, overlooked, recent, accepted, runs, failed, capped>>

-----------------------------------------------------------------------------
(* The drain *)

CrossChannel(items) == \E i, j \in DOMAIN items : Channel[items[i]] # Channel[items[j]]

\* What the drain of o runs after the debounce.  A batch over several channels
\* is run one by one, and so is the rest of that drain.  Without collect a
\* summary is run in the place of the first item.
Plan(o) ==
    LET q      == queue[o]
        mode   == q.settings.mode
        forced == drain[o].forced \/ (mode = "collect" /\ CrossChannel(q.items))
    IN  IF mode = "collect" /\ ~forced
        THEN Running(forced, ToSet(q.items), Len(q.items), Summary(q))
        ELSE IF mode # "collect" /\ Summary(q)
        THEN Running(forced, {}, 1, TRUE)
        ELSE Running(forced, {Head(q.items)}, 1, FALSE)

\* There is nothing to run, and the loop breaks off.
NothingToRun(o) ==
    LET q == queue[o]
    IN  /\ q.items = <<>>
        /\ \/ q.dropped = {}
           \/ q.settings.mode # "collect"
           \/ drain[o].forced

Break(o) ==
    /\ drain[o].at = "debounce"
    /\ NothingToRun(o)
    /\ Finish(o, queue)
    /\ UNCHANGED <<queue, turn, other, recent, history, events>>

StartRun(o) ==
    /\ drain[o].at = "debounce"
    /\ ~NothingToRun(o)
    /\ ~Active
    /\ drain' = [drain EXCEPT ![o] = Plan(o)]
    /\ runs' = [m \in Messages |-> IF m \in Plan(o).messages THEN runs[m] + 1 ELSE runs[m]]
    /\ UNCHANGED <<queue, current, turn, other, overlooked, recent, accepted, failed, cleared,
                   capped, disturbed, events>>

\* createReplyOperation refuses a second run of the session.
Refused(o) ==
    /\ drain[o].at = "debounce"
    /\ ~NothingToRun(o)
    /\ Active
    /\ Finish(o, queue)
    /\ UNCHANGED <<queue, turn, other, recent, history, events>>

\* Mutants of AfterRun: what arrived during the run is removed too;
RemoveAll(o) ==
    [queue[o] EXCEPT !.items = <<>>, !.dropped = IF drain[o].summary THEN {} ELSE @]

\* the last item of a batch stays.
RemoveTooFew(o) ==
    LET n == IF drain[o].remove > 1 THEN drain[o].remove - 1 ELSE drain[o].remove
    IN  [queue[o] EXCEPT !.items = SubSeq(@, n + 1, Len(@)),
                         !.dropped = IF drain[o].summary THEN {} ELSE @]

\* As many items as were run are removed from the front, whatever is there.
AfterRun(o) ==
    [queue[o] EXCEPT !.items = SubSeq(@, drain[o].remove + 1, Len(@)),
                     !.dropped = IF drain[o].summary THEN {} ELSE @]

\* The loop goes on until nothing is left.
RunEnds(o) ==
    /\ drain[o].at = "running"
    /\ queue' = [queue EXCEPT ![o] = AfterRun(o)]
    /\ IF Empty(AfterRun(o))
       THEN Finish(o, queue')
       ELSE /\ drain' = [drain EXCEPT ![o] = Debounce(drain[o].forced)]
            /\ UNCHANGED <<current, overlooked>>
    /\ UNCHANGED <<turn, other, recent, history, events>>

RunFails(o) ==
    /\ drain[o].at = "running"
    /\ Happens
    /\ failed' = [m \in Messages |-> IF m \in drain[o].messages THEN failed[m] + 1 ELSE failed[m]]
    /\ Finish(o, queue)
    /\ UNCHANGED <<queue, turn, other, recent, accepted, runs, cleared, capped, disturbed>>

-----------------------------------------------------------------------------

Next ==
    \/ \E m \in Messages, s \in Settings, idle \in BOOLEAN : Enqueue(m, s, idle)
    \/ \E m \in Messages : Forget(m)
    \/ StartTurn \/ EndTurn \/ OtherRunBegins \/ OtherRunEnds \/ Clear
    \/ \E o \in Queues : Break(o) \/ StartRun(o) \/ Refused(o) \/ RunEnds(o) \/ RunFails(o)

Spec == Init /\ [][Next]_vars

\* Runs end, if only by their timeout, and messages leave a drain the quiet
\* that its debounce waits for.
Fairness ==
    /\ WF_vars(EndTurn)
    /\ \A o \in Queues : /\ WF_vars(Break(o) \/ StartRun(o) \/ Refused(o))
                         /\ WF_vars(RunEnds(o) \/ RunFails(o))

FairSpec == Spec /\ Fairness

-----------------------------------------------------------------------------
(* Properties *)

Drain == {Off} \cup [at : {"debounce"}, forced : BOOLEAN]
           \cup [at : {"running"}, forced : BOOLEAN, messages : SUBSET Messages,
                 remove : Nat, summary : BOOLEAN]

QueueObject == [items : Seq(Messages), dropped : SUBSET Messages, settings : Settings]

\* A queue has never had more items than some cap it was given allows.
WithinCap(q) == \E s \in Settings : Len(q.items) <= s.cap

\* Every variable stays within its type, and no queue exceeds the largest cap.
FollowupTypeOK ==
    /\ queue \in [Queues -> QueueObject]
    /\ \A o \in Queues : WithinCap(queue[o])
    /\ drain \in [Queues -> Drain]
    /\ current \in Queues \cup {NoQueue}
    /\ {turn, other, overlooked, disturbed} \subseteq BOOLEAN
    /\ {recent, cleared, capped} \subseteq SUBSET Messages
    /\ {accepted, runs, failed} \subseteq [Messages -> Nat]

\* m is in the key's queue, or in one that a drain still goes through.
Waiting(m) == \E o \in Queues : (o = current \/ On(o)) /\ m \in ToSet(queue[o].items)

Kept(m) == runs[m] > 0 \/ m \in cleared \/ Waiting(m)

\* No message taken in is lost, unless the cap removed one, or the queue was
\* cleared while its drain went on: both make the drain remove what it never ran.
AcceptedIsKept ==
    \A m \in Messages : accepted[m] > 0 => Kept(m) \/ capped # {} \/ disturbed

\* A message is in no more runs than it was taken in, but for runs that failed,
\* although it stays in the queue during its run.
RunsAreAccounted == \A m \in Messages : runs[m] <= accepted[m] + failed[m]

\* When no run and no drain goes on, no message waits: somebody has looked
\* after the last of them came in; unless that was told to wait for a run that
\* schedules no drain (isEmbeddedPiRunActive does not tell runs apart).
NoStrandedQueue ==
    Active \/ (\E o \in Queues : On(o)) \/ overlooked \/ \A m \in Messages : ~Waiting(m)

\* Every message that waits is run or removed at last, failures or not, but for
\* one that waits for a run that schedules no drain.
WaitingGoesOn == \A m \in Messages : Waiting(m) ~> ~Waiting(m) \/ overlooked

\* A drain comes to its end, unless the cap removed a message: a dropped
\* message can be left with no item to carry its summary.
DrainEnds == \A o \in Queues : On(o) ~> ~On(o) \/ capped # {}

\* "Summarize keeps a short bullet list of dropped messages and injects it as a
\* synthetic followup prompt" (docs/concepts/queue.md): a message that the cap
\* never dropped still gets its turn.  What is lost when a queue changes under
\* its drain is another matter (Divergences in the README) and excused.
UndroppedIsKept ==
    \A m \in Messages : accepted[m] > 0 => Kept(m) \/ m \in capped \/ disturbed
=============================================================================
