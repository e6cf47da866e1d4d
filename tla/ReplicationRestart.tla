-------------------------- MODULE ReplicationRestart --------------------------
(***************************************************************************)
(* Replication when the server process may also be restarted.  The new     *)
(* process counts ticks from the beginning, knows no client and has no     *)
(* objects; clients notice that the connection is lost and connect again.  *)
(***************************************************************************)
EXTENDS Replication

(* A new process: __init__ of the repository, the tick count of the host   *)
(* and every table start over.                                             *)
ServerRestart ==
  /\ tick < MaxTick
  /\ tick' = 1
  /\ live' = NoTable
  /\ packs' = NoTable
  /\ svUp' = {}
  /\ explicitZones' = [c \in Clients |-> {}]
  /\ currentZones' = [c \in Clients |-> {}]
  /\ acked' = [c \in Clients |-> -1]
  /\ frames' = [c \in Clients |-> <<>>]
  /\ toServer' = [c \in Clients |-> <<>>]
  /\ UNCHANGED <<client, toClient>>

RestartNext == Next \/ ServerRestart

RestartSpec == Init /\ [][RestartNext]_vars
===============================================================================
