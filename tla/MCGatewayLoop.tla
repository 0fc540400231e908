--------------------------- MODULE MCGatewayLoop ----------------------------
(* An instance of GatewayLoop for TLC. *)
EXTENDS GatewayLoop

CONSTANTS chat, m1, nightly, weekly

\* The cron jobs and the messages all belong to one session.
MCSession == [r \in Runs |-> chat]
MCLane    == [r \in Runs |-> IF r \in CronRuns THEN "cron" ELSE "main"]
=============================================================================
