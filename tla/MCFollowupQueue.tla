-------------------------- MODULE MCFollowupQueue ---------------------------
(* Instances of FollowupQueue for TLC. *)
EXTENDS FollowupQueue

CONSTANTS m1, m2, m3

\* Two messages of one chat and one of another.
MCChannel == [m \in Messages |-> IF m = m3 THEN "thread" ELSE "chat"]

WithSettings(mode, dropPolicy) == [mode |-> mode, cap |-> 2, dropPolicy |-> dropPolicy]

MixedSettings == {WithSettings("collect", "summarize"), WithSettings("followup", "new")}

SummarySettings == {[mode |-> "followup", cap |-> 1, dropPolicy |-> "summarize"]}
=============================================================================
