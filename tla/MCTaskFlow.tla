----------------------------- MODULE MCTaskFlow -----------------------------
(* Instances of TaskFlow for TLC. *)
EXTENDS TaskFlow, TLC

CONSTANTS t1, k1, k2, w1, w2

\* Three steps, listed in an order the dependencies do not follow: 1, 3, 2.
TwistedDeps == [s \in 1..StepCount |-> CASE s = 1 -> {} [] s = 2 /\ StepCount > 2 -> {3}
                                          [] OTHER -> {1}]

Workers == Permutations({w1, w2})
WorkersAndTokens == Permutations({w1, w2}) \cup Permutations({k1, k2})

\* What the statuses of sequential flows and of their tasks depend on: neither the
\* results of steps, nor current_step_id, nor the logs.
Unstepped(fs) == [t \in TaskId |-> [fs[t] EXCEPT !.current = 0]]
Statuses == <<up, tasks, resume_tokens, disk.active, disk.paused, issued, lapsed,
              Unstepped(flows), Unstepped(flows_file), creating, lock, resuming, work, maint>>
=============================================================================
