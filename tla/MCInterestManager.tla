--------------------------- MODULE MCInterestManager --------------------------
(* InterestManager for TLC: places are interchangeable.                    *)
EXTENDS InterestManager, TLC

Symmetry == Permutations(Places)
===============================================================================
