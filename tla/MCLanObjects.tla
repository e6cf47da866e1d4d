----------------------------- MODULE MCLanObjects -----------------------------
(***************************************************************************)
(* LanObjects for TLC: two clients with ranges of three ids, from 1 and    *)
(* from 4 on.  The server takes 3 for an id of the second client.  Zones   *)
(* are interchangeable: a set of which one listing is taken is of ids, and *)
(* requests, which name zones, come in any order.                          *)
(***************************************************************************)
EXTENDS LanObjects, TLC

CONSTANTS c1, c2

MCNumber == c1 :> 0 @@ c2 :> 1

Symmetry == Permutations(Zones)
===============================================================================
