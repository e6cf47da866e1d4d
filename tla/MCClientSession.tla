---------------------------- MODULE MCClientSession ---------------------------
(* ClientSession for TLC: zones are interchangeable.                       *)
EXTENDS ClientSession, TLC

Symmetry == Permutations(Zones)
===============================================================================
