-------------------------- MODULE MCHeartbeatGap --------------------------
(* Small instances of HeartbeatGap: a second is 2 ms of 2 units each.      *)
EXTENDS HeartbeatGap

MCDuration == [f \in Faults |-> IF f = "heartbeat_loss" THEN 17 ELSE 6]
===========================================================================
