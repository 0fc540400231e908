-------------------------- MODULE MCDeliveryQueue ---------------------------
(* An instance of DeliveryQueue for TLC. *)
EXTENDS DeliveryQueue, TLC

\* The starts of the gateway differ in nothing but the order they come in.
Starts == Permutations(Scans)
=============================================================================
