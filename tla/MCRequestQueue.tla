--------------------------- MODULE MCRequestQueue ---------------------------
(* Instances of RequestQueue for TLC.                                        *)
EXTENDS RequestQueue

CONSTANTS w1, w2, c1, c2, c3

MCWorkers == {w1, w2}
MCClients3 == {c1, c2, c3}
MCFds == {4, 5, 6}
=============================================================================
