--------------------------- MODULE MCTaskRegistry ---------------------------
(* Instances of TaskRegistry for TLC. *)
EXTENDS TaskRegistry, TLC

Identifiers == Permutations(TaskId) \cup Permutations(Token)

\* Without a restart nothing reads the history, the active file or the history
\* file: states that differ in nothing else behave alike.
ReadInOneLife == <<up, tasks, resume_tokens, disk.paused, issued, lapsed>>
=============================================================================
