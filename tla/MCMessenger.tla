----------------------------- MODULE MCMessenger ------------------------------
(* Messenger for TLC: objects are interchangeable, and so are threads.      *)
EXTENDS Messenger, TLC

Symmetry == Permutations(Objects) \cup Permutations(Threads)
===============================================================================
