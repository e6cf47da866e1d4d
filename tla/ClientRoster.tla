----------------------------- MODULE ClientRoster -----------------------------
(***************************************************************************)
(* What the server promises about its verified clients: at most MaxClients *)
(* of them at a time, each under an id of its own that it keeps as long as *)
(* it stays, and a connection that has left never comes back.  The names   *)
(* follow handleClientHello and closeClientConnection of ServerRepository. *)
(***************************************************************************)
EXTENDS Naturals, FiniteSets

CONSTANTS Conns, ClientIds, MaxClients

VARIABLES roster,   \* the verified clients, with their ids
          left      \* the connections that were verified once and have left

Join(c, i) ==
  /\ c \notin DOMAIN roster \cup left
  /\ \A e \in DOMAIN roster : roster[e] # i
  /\ Cardinality(DOMAIN roster) < MaxClients
  /\ roster' = [e \in DOMAIN roster \cup {c} |-> IF e = c THEN i ELSE roster[e]]
  /\ UNCHANGED left

Leave(c) ==
  /\ c \in DOMAIN roster
  /\ roster' = [e \in DOMAIN roster \ {c} |-> roster[e]]
  /\ left' = left \cup {c}

Init == roster = [c \in {} |-> 0] /\ left = {}

Next == \E c \in Conns : Leave(c) \/ \E i \in ClientIds : Join(c, i)

Spec == Init /\ [][Next]_<<roster, left>>
===============================================================================
