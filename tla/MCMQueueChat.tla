---------------------------- MODULE MCMQueueChat ----------------------------
(* Instances of MQueueChat for TLC: the first two users have the same name.  *)
EXTENDS MQueueChat

CONSTANTS c1, c2, c3

MCClients3 == {c1, c2, c3}
MCName3 == [c \in MCClients3 |-> IF c = c3 THEN "bob" ELSE "ann"]
MCClients2 == {c1, c2}
MCName2 == [c \in MCClients2 |-> "ann"]
=============================================================================
