------------------------------- MODULE Outbox --------------------------------
(***************************************************************************)
(* What the gateway promises of its outbound messages: a delivery it has    *)
(* accepted stays owed until it was received or recalled, or is put aside   *)
(* where somebody can find it.  It may be received more than once, and it   *)
(* may become owed again after it was settled.                              *)
(***************************************************************************)
CONSTANT Deliveries

VARIABLES
    owed,       \* deliveries the gateway still has to make
    received,   \* deliveries that reached the channel
    recalled,   \* deliveries somebody called off
    dead        \* deliveries put aside as failed

vars == <<owed, received, recalled, dead>>

Init == owed = {} /\ received = {} /\ recalled = {} /\ dead = {}

\* Accepted, or owed again.
Owe(d) ==
    /\ owed' = owed \cup {d}
    /\ UNCHANGED <<received, recalled, dead>>

Receive(d) ==
    /\ received' = received \cup {d}
    /\ UNCHANGED <<owed, recalled, dead>>

Recall(d) ==
    /\ recalled' = recalled \cup {d}
    /\ UNCHANGED <<owed, received, dead>>

Settle(d) ==
    /\ d \in received \cup recalled
    /\ owed' = owed \ {d}
    /\ UNCHANGED <<received, recalled, dead>>

PutAside(d) ==
    /\ d \in owed
    /\ owed' = owed \ {d}
    /\ dead' = dead \cup {d}
    /\ UNCHANGED <<received, recalled>>

Next == \E d \in Deliveries : Owe(d) \/ Receive(d) \/ Recall(d) \/ Settle(d) \/ PutAside(d)

Spec == Init /\ [][Next]_vars
=============================================================================
