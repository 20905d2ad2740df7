----------------------------- MODULE MCRawEcho -----------------------------
(***************************************************************************)
(* RawEcho for TLC: the hosts are interchangeable.                         *)
(***************************************************************************)
EXTENDS RawEcho

Symmetry == Permutations(Hosts)
=============================================================================
