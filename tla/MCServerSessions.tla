--------------------------- MODULE MCServerSessions ---------------------------
(* ServerSessions for TLC: connections and object ids are interchangeable. *)
EXTENDS ServerSessions, TLC

Symmetry == Permutations(Conns) \cup Permutations(DoIds)
===============================================================================
