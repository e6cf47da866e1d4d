---------------------------- MODULE MCReplication -----------------------------
(* Replication on small instances.                                         *)
EXTENDS ReplicationInvariant, TLC

Symmetry == Permutations(Values)
ClientSymmetry == Permutations(Values) \cup Permutations(Clients)

(* Bound: one acknowledgement of a client in flight at a time.             *)
OneAck == \A c \in Clients : Len(toServer[c]) <= 1

(* The inductive invariant of the proofs: the messages in flight form a    *)
(* chain, and its last image agrees with what the server has packed.       *)
InFlightAgrees ==
  \A c \in clUp :
    LET p == Images(toClient[c], view[c])
    IN  /\ IsChain(p, toClient[c], view[c])
        /\ c \in svUp => Agrees(c, p[Len(toClient[c])])
===============================================================================
