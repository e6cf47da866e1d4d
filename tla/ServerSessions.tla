---------------------------- MODULE ServerSessions ----------------------------
(***************************************************************************)
(* The server's books: which connections it has a record of, who of them   *)
(* is verified and under which id, who owns which object, and the index    *)
(* from zones to interested clients that decides who is told what.         *)
(*                                                                         *)
(* Clients may send anything at any moment, leave without a word, or send  *)
(* a message that the server answers by closing the connection.  A record  *)
(* (ServerRepository.Client) is a Python object: the game and the tables   *)
(* may refer to it after the server has forgotten the connection.  What    *)
(* the clients are told, and what they make of it, is in Replication and   *)
(* ClientSession.                                                          *)
(***************************************************************************)
EXTENDS Integers, FiniteSets, Functions

CONSTANTS Conns,        \* connection handles; the network uses each once
          ClientIds,    \* clientIdAllocator hands these out: 0 .. 0xFFFF
          MaxClients,   \* sv_max_clients
          DoIds, Zones,
          NoClient,     \* the owner of an object without owner (None)
          NoId          \* the id of a client that has none: -1

ASSUME NobodyAssumption == NoClient \notin Conns /\ NoId \notin ClientIds
ASSUME RoomAssumption ==
  /\ IsFiniteSet(Conns) /\ IsFiniteSet(ClientIds)
  /\ MaxClients \in Nat /\ MaxClients <= Cardinality(ClientIds)

VARIABLES
  net,                  \* the connection, as the network sees it
  clientsByConnection,  \* connections that the server has a record of
  state, id,            \* client.state, client.id
  freeIds,              \* what clientIdAllocator has left
  numClients,
  explicitZones,        \* client.explicitInterestZoneIds
  currentZones,         \* client.currentInterestZoneIds
  zonesToClients,       \* zone -> the records indexed under it
  objects,              \* doId2do: id -> zone and owner
  objectsByDoId,        \* client.objectsByDoId: the ids of what it owns
  objectsByZoneId,      \* client.objectsByZoneId: the same, by zone
  announced             \* clients the game was told of and not told to forget

sessions == <<net, clientsByConnection, state, id, freeIds, numClients, announced>>
interests == <<explicitZones, currentZones, zonesToClients>>
ownership == <<objects, objectsByDoId, objectsByZoneId>>
vars == <<sessions, interests, ownership>>

-------------------------------------------------------------------------------

Object == [zone : Zones, owner : Conns \cup {NoClient}]

Verified == {c \in clientsByConnection : state[c] = "Verified"}

OwnedZones(byZone, c) == {z \in Zones : byZone[c][z] # {}}

isFull_Late == numClients > MaxClients  \* mutant: off by one

isFull == numClients >= MaxClients

(* A message of c can be received: the record is there, and what arrived   *)
(* before the peer went away is still read.                                *)
MayReceive(c) == c \in clientsByConnection /\ net[c] \in {"open", "gone"}

Init ==
  /\ net = [c \in Conns |-> "none"]
  /\ clientsByConnection = {}
  /\ state = [c \in Conns |-> "Unverified"]
  /\ id = [c \in Conns |-> NoId]
  /\ freeIds = ClientIds
  /\ numClients = 0
  /\ explicitZones = [c \in Conns |-> {}]
  /\ currentZones = [c \in Conns |-> {}]
  /\ zonesToClients = [z \in Zones |-> {}]
  /\ objects = [d \in {} |-> 0]
  /\ objectsByDoId = [c \in Conns |-> {}]
  /\ objectsByZoneId = [c \in Conns |-> [z \in Zones |-> {}]]
  /\ announced = {}

(* closeClientConnection.  The interests and the objects of the client     *)
(* stay in the tables.  An event of the network that says the peer is gone *)
(* stays queued.                                                           *)
CloseClientConnection_CountsAny(c) ==   \* mutant: counts down for everyone
  /\ freeIds' = IF id[c] = NoId THEN freeIds ELSE freeIds \cup {id[c]}
  /\ numClients' = numClients - 1
  /\ clientsByConnection' = clientsByConnection \ {c}
  /\ UNCHANGED <<state, id>>

CloseClientConnection_KeepsId(c) ==     \* mutant: the id is not freed
  /\ numClients' = IF state[c] = "Verified" THEN numClients - 1 ELSE numClients
  /\ clientsByConnection' = clientsByConnection \ {c}
  /\ UNCHANGED <<state, id, freeIds>>

CloseClientConnection(c) ==
  /\ freeIds' = IF id[c] = NoId THEN freeIds ELSE freeIds \cup {id[c]}
  /\ numClients' = IF state[c] = "Verified" THEN numClients - 1 ELSE numClients
  /\ clientsByConnection' = clientsByConnection \ {c}
  /\ UNCHANGED <<state, id>>

Hangup(c) == net' = [net EXCEPT ![c] = IF @ = "open" THEN "closed" ELSE @]

(* updateClientInterestZones, given what the client owns                   *)
UpdateClientInterestZones_AddsOnly(c, explicit, byZone) ==   \* mutant
  LET zones == explicit \cup OwnedZones(byZone, c)
  IN  /\ currentZones' = [currentZones EXCEPT ![c] = zones]
      /\ zonesToClients' = [z \in Zones |-> IF z \in zones THEN zonesToClients[z] \cup {c}
                                            ELSE zonesToClients[z]]

UpdateClientInterestZones(c, explicit, byZone) ==
  LET zones == explicit \cup OwnedZones(byZone, c)
  IN  /\ currentZones' = [currentZones EXCEPT ![c] = zones]
      /\ zonesToClients' =
           [z \in Zones |-> IF z \in zones \ currentZones[c] THEN zonesToClients[z] \cup {c}
                            ELSE IF z \in currentZones[c] \ zones THEN zonesToClients[z] \ {c}
                            ELSE zonesToClients[z]]

-------------------------------------------------------------------------------
(* Connections                                                             *)

(* __handleNetCallback, connecting: the connection is accepted and gets a  *)
(* record, or accepting it fails.                                          *)
NetConnecting(c) ==
  /\ net[c] = "none"
  /\ \/ /\ net' = [net EXCEPT ![c] = "open"]
        /\ clientsByConnection' = clientsByConnection \cup {c}
     \/ /\ net' = [net EXCEPT ![c] = "closed"]
        /\ UNCHANGED clientsByConnection
  /\ UNCHANGED <<state, id, freeIds, numClients, announced, interests, ownership>>

(* The peer closes, or the connection fails; the event is queued.          *)
PeerLeaves(c) ==
  /\ net[c] = "open"
  /\ net' = [net EXCEPT ![c] = "gone"]
  /\ UNCHANGED <<clientsByConnection, state, id, freeIds, numClients, announced,
                 interests, ownership>>

(* handleClientHello: verified ...                                         *)
HandleClientHello(c, i) ==
  /\ MayReceive(c)
  /\ state[c] = "Unverified"
  /\ ~isFull
  /\ i \in freeIds
  /\ state' = [state EXCEPT ![c] = "Verified"]
  /\ id' = [id EXCEPT ![c] = i]
  /\ freeIds' = freeIds \ {i}
  /\ numClients' = numClients + 1
  /\ announced' = announced \cup {c}
  /\ UNCHANGED <<net, clientsByConnection, interests, ownership>>

(* ... or turned away: the server is full, or the password or the hash is  *)
(* wrong.  The same happens to a client that sends a message too short or  *)
(* of a kind that its state does not allow (hello twice, for instance).    *)
TurnAway(c) ==
  /\ MayReceive(c)
  /\ CloseClientConnection(c)
  /\ Hangup(c)
  /\ UNCHANGED <<announced, interests, ownership>>

(* handleClientDisconnect: the objects of the client are deleted, without  *)
(* touching the owner tables, which are then emptied.                      *)
DropClient_TablesStay(c) ==             \* mutant: the owner tables are not emptied
  /\ objects' = Restrict(objects, DOMAIN objects \ objectsByDoId[c])
  /\ UNCHANGED <<objectsByDoId, objectsByZoneId>>
  /\ announced' = announced \ {c}
  /\ CloseClientConnection(c)

DropClient(c) ==
  /\ objects' = Restrict(objects, DOMAIN objects \ objectsByDoId[c])
  /\ objectsByDoId' = [objectsByDoId EXCEPT ![c] = {}]
  /\ objectsByZoneId' = [objectsByZoneId EXCEPT ![c] = [z \in Zones |-> {}]]
  /\ announced' = announced \ {c}
  /\ CloseClientConnection(c)

(* CL_Disconnect *)
HandleClientDisconnect(c) ==
  /\ MayReceive(c)
  /\ state[c] = "Verified"
  /\ DropClient(c)
  /\ Hangup(c)
  /\ UNCHANGED interests

(* __handleNetCallback, closed by the peer or problem detected: nothing to *)
(* do when the record is gone already.                                     *)
NetClosed(c) ==
  /\ net[c] = "gone"
  /\ net' = [net EXCEPT ![c] = "closed"]
  /\ IF c \in clientsByConnection THEN DropClient(c)
     ELSE UNCHANGED <<clientsByConnection, state, id, freeIds, numClients, announced,
                      ownership>>
  /\ UNCHANGED interests

-------------------------------------------------------------------------------
(* Interests and objects                                                   *)

SetExplicit(c, explicit) ==
  /\ explicitZones' = [explicitZones EXCEPT ![c] = explicit]
  /\ UpdateClientInterestZones(c, explicit, objectsByZoneId)
  /\ UNCHANGED <<sessions, ownership>>

(* handleClientAddInterest; the game may call addExplicitInterest for any  *)
(* client that it was told of.                                             *)
HandleClientAddInterest(c, zones) ==
  /\ (MayReceive(c) /\ state[c] = "Verified") \/ c \in announced
  /\ SetExplicit(c, explicitZones[c] \cup zones)

HandleClientRemoveInterest(c, zones) ==
  /\ MayReceive(c) /\ state[c] = "Verified"
  /\ SetExplicit(c, explicitZones[c] \ zones)

HandleClientSetInterest(c, zones) ==
  /\ MayReceive(c) /\ state[c] = "Verified"
  /\ SetExplicit(c, zones)

(* generateObject, for an owner the game was told of or for no owner       *)
GenerateObject(d, z, o) ==
  /\ d \notin DOMAIN objects
  /\ o \in announced \cup {NoClient}
  /\ objects' = [i \in DOMAIN objects \cup {d} |->
                   IF i = d THEN [zone |-> z, owner |-> o] ELSE objects[i]]
  /\ IF o = NoClient
     THEN UNCHANGED <<objectsByDoId, objectsByZoneId, currentZones, zonesToClients>>
     ELSE LET byZone == [objectsByZoneId EXCEPT ![o][z] = @ \cup {d}]
          IN  /\ objectsByDoId' = [objectsByDoId EXCEPT ![o] = @ \cup {d}]
              /\ objectsByZoneId' = byZone
              /\ UpdateClientInterestZones(o, explicitZones[o], byZone)
  /\ UNCHANGED <<sessions, explicitZones>>

(* deleteObject.  The interests of the owner are left as they are.         *)
DeleteObject(d) ==
  /\ d \in DOMAIN objects
  /\ objects' = Restrict(objects, DOMAIN objects \ {d})
  /\ LET o == objects[d].owner
     IN  IF o = NoClient THEN UNCHANGED <<objectsByDoId, objectsByZoneId>>
         ELSE /\ objectsByDoId' = [objectsByDoId EXCEPT ![o] = @ \ {d}]
              /\ objectsByZoneId' = [objectsByZoneId EXCEPT ![o][objects[d].zone] = @ \ {d}]
  /\ UNCHANGED <<sessions, interests>>

-------------------------------------------------------------------------------

SessionStep ==
  \E c \in Conns :
    \/ NetConnecting(c)
    \/ PeerLeaves(c)
    \/ \E i \in ClientIds : HandleClientHello(c, i)
    \/ TurnAway(c)
    \/ HandleClientDisconnect(c)
    \/ NetClosed(c)

InterestStep ==
  \E c \in Conns, zones \in SUBSET Zones :
    \/ HandleClientAddInterest(c, zones)
    \/ HandleClientRemoveInterest(c, zones)
    \/ HandleClientSetInterest(c, zones)

ObjectStep ==
  \/ \E d \in DoIds, z \in Zones, o \in Conns \cup {NoClient} : GenerateObject(d, z, o)
  \/ \E d \in DoIds : DeleteObject(d)

Next == SessionStep \/ InterestStep \/ ObjectStep

Spec == Init /\ [][Next]_vars

-------------------------------------------------------------------------------
(* Properties                                                              *)

(* The tables hold what the code puts there.                               *)
TypeOK ==
  /\ net \in [Conns -> {"none", "open", "gone", "closed"}]
  /\ clientsByConnection \subseteq Conns
  /\ state \in [Conns -> {"Unverified", "Verified"}]
  /\ id \in [Conns -> ClientIds \cup {NoId}]
  /\ freeIds \subseteq ClientIds
  /\ numClients \in Int
  /\ explicitZones \in [Conns -> SUBSET Zones]
  /\ currentZones \in [Conns -> SUBSET Zones]
  /\ zonesToClients \in [Zones -> SUBSET Conns]
  /\ DOMAIN objects \subseteq DoIds
  /\ objects \in [DOMAIN objects -> Object]
  /\ objectsByDoId \in [Conns -> SUBSET DoIds]
  /\ objectsByZoneId \in [Conns -> [Zones -> SUBSET DoIds]]
  /\ announced \subseteq Conns

(* numClients, which decides whether the server is full, counts the        *)
(* verified clients exactly, however they left, and stays within the       *)
(* limit: no path of closeClientConnection counts a client twice or a      *)
(* client that never was counted.                                          *)
CountExact == numClients = Cardinality(Verified) /\ numClients <= MaxClients

(* The ids of the verified clients and the free ids make up all ids: two   *)
(* clients never share one, none is handed out while in use, none leaks,   *)
(* and one is left whenever a hello can succeed.                           *)
IdsExclusive ==
  /\ freeIds = ClientIds \ {id[c] : c \in Verified}
  /\ \A c \in Verified : id[c] # NoId
  /\ \A c, e \in Verified : id[c] = id[e] => c = e
  /\ ~isFull => freeIds # {}

(* The two owner tables of a client agree with the owners and zones of the *)
(* objects, so that deleteObject finds what it removes from them and       *)
(* handleClientDisconnect deletes all that the client owns and no more.    *)
OwnerTablesAgree ==
  \A c \in Conns :
    /\ objectsByDoId[c] = {d \in DOMAIN objects : objects[d].owner = c}
    /\ \A z \in Zones : objectsByZoneId[c][z] = {d \in objectsByDoId[c] : objects[d].zone = z}

(* The zone index and the interests of the clients are the same relation,  *)
(* so that the recipients of a message about an object are those that are  *)
(* interested in its zone; and a client is interested in the zones it      *)
(* asked for and those of the objects it owns.                             *)
InterestIndexed ==
  \A c \in Conns :
    /\ \A z \in Zones : z \in currentZones[c] <=> c \in zonesToClients[z]
    /\ explicitZones[c] \cup OwnedZones(objectsByZoneId, c) \subseteq currentZones[c]

(* What the sessions amount to for the rest of the server: a roster of the *)
(* verified clients and their ids.  Every hello, goodbye, lost connection  *)
(* and closed connection is a join, a leave, or nothing to the roster.     *)
Roster == INSTANCE ClientRoster
            WITH roster <- [c \in Verified |-> id[c]],
                 left <- {c \in Conns \ clientsByConnection : state[c] = "Verified"}

KeepsRoster == Roster!Spec
===============================================================================
