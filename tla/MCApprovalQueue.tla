-------------------------- MODULE MCApprovalQueue --------------------------
(* Instances of ApprovalQueue for TLC: two people who may decide, and requests *)
(* that either of them may answer or that only alice may.                      *)
EXTENDS ApprovalQueue

CONSTANTS alice, bob

\* What the future depends on: the time of a request that is neither waiting nor
\* on file has no more effect, and of a refusal only whether it will still find
\* its request in the queue.
StillOpen ==
    <<up, queue, history, disk, issued, announced, failures, unsaved,
      {r \in overdue : Known(r) \/ disk.pending[r].status # "none"},
      {r \in RequestId : Known(r) /\ refusals[r] = "writing"}>>
=============================================================================
