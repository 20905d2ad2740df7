----------------------------- MODULE MCShmChat -----------------------------
(* An instance of ShmChat for TLC: three users for two places, one of them   *)
(* interrupted before its threads start.                                     *)
EXTENDS ShmChat

CONSTANTS c1, c2, c3

MCClients == {c1, c2, c3}
MCStayers == {c1, c2}
=============================================================================
