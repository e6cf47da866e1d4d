------------------------- MODULE ServerSessionsProofs -------------------------
(***************************************************************************)
(* Proofs about ServerSessions, for any number of connections, ids, zones  *)
(* and objects.  The books about clients (numClients, the id allocator)    *)
(* rest on SessionInv; the owner tables and the zone index are inductive   *)
(* once the types are known.                                               *)
(***************************************************************************)
EXTENDS ServerSessions, FiniteSetTheorems, TLAPS

-------------------------------------------------------------------------------
(* Types                                                                   *)

LEMMA TypeInit == Init => TypeOK
BY DEF Init, TypeOK, Object

LEMMA DropTypes ==
  ASSUME TypeOK, NEW c \in Conns, DropClient(c)
  PROVE  /\ freeIds' \subseteq ClientIds /\ numClients' \in Int
         /\ clientsByConnection' \subseteq Conns
         /\ state' = state /\ id' = id
         /\ DOMAIN objects' \subseteq DoIds /\ objects' \in [DOMAIN objects' -> Object]
         /\ objectsByDoId' \in [Conns -> SUBSET DoIds]
         /\ objectsByZoneId' \in [Conns -> [Zones -> SUBSET DoIds]]
         /\ announced' \subseteq Conns
BY DEF TypeOK, DropClient, CloseClientConnection, Restrict

LEMMA InterestTypes ==
  ASSUME TypeOK, NEW c \in Conns, NEW explicit \in SUBSET Zones,
         NEW byZone, UpdateClientInterestZones(c, explicit, byZone)
  PROVE  /\ currentZones' \in [Conns -> SUBSET Zones]
         /\ zonesToClients' \in [Zones -> SUBSET Conns]
<1> DEFINE zones == explicit \cup OwnedZones(byZone, c)
<1>1. zones \in SUBSET Zones
  BY DEF OwnedZones
<1> HIDE DEF zones
<1>2. currentZones' = [currentZones EXCEPT ![c] = zones]
  BY DEF UpdateClientInterestZones, zones
<1>3. zonesToClients' =
        [z \in Zones |-> IF z \in zones \ currentZones[c] THEN zonesToClients[z] \cup {c}
                         ELSE IF z \in currentZones[c] \ zones THEN zonesToClients[z] \ {c}
                         ELSE zonesToClients[z]]
  BY DEF UpdateClientInterestZones, zones
<1> QED BY <1>1, <1>2, <1>3 DEF TypeOK

LEMMA TypeStep == TypeOK /\ [Next]_vars => TypeOK'
<1> SUFFICES ASSUME TypeOK, [Next]_vars PROVE TypeOK'
  OBVIOUS
<1> USE DEF interests, ownership, sessions
<1>1. ASSUME NEW c \in Conns, NetConnecting(c) PROVE TypeOK'
  BY <1>1 DEF TypeOK, NetConnecting
<1>2. ASSUME NEW c \in Conns, PeerLeaves(c) PROVE TypeOK'
  BY <1>2 DEF TypeOK, PeerLeaves
<1>3. ASSUME NEW c \in Conns, NEW i \in ClientIds, HandleClientHello(c, i) PROVE TypeOK'
  BY <1>3 DEF TypeOK, HandleClientHello
<1>4. ASSUME NEW c \in Conns, TurnAway(c) PROVE TypeOK'
  BY <1>4 DEF TypeOK, TurnAway, CloseClientConnection, Hangup
<1>5. ASSUME NEW c \in Conns, HandleClientDisconnect(c) PROVE TypeOK'
  <2>1. DropClient(c) /\ Hangup(c) /\ UNCHANGED interests
    BY <1>5 DEF HandleClientDisconnect
  <2> QED BY <2>1, DropTypes DEF TypeOK, Hangup
<1>6. ASSUME NEW c \in Conns, NetClosed(c) PROVE TypeOK'
  <2>1. CASE c \in clientsByConnection
    <3>1. DropClient(c) /\ net' = [net EXCEPT ![c] = "closed"] /\ UNCHANGED interests
      BY <1>6, <2>1 DEF NetClosed
    <3> QED BY <3>1, DropTypes DEF TypeOK
  <2>2. CASE c \notin clientsByConnection
    BY <1>6, <2>2 DEF TypeOK, NetClosed
  <2> QED BY <2>1, <2>2
<1>7. ASSUME NEW c \in Conns, NEW explicit \in SUBSET Zones, SetExplicit(c, explicit)
      PROVE  TypeOK'
  <2>1. UpdateClientInterestZones(c, explicit, objectsByZoneId)
    BY <1>7 DEF SetExplicit
  <2> QED BY <1>7, <2>1, InterestTypes DEF TypeOK, SetExplicit
<1>8. ASSUME NEW c \in Conns, NEW zones \in SUBSET Zones,
             \/ HandleClientAddInterest(c, zones)
             \/ HandleClientRemoveInterest(c, zones)
             \/ HandleClientSetInterest(c, zones)
      PROVE  \E explicit \in SUBSET Zones : SetExplicit(c, explicit)
  <2>1. explicitZones[c] \cup zones \in SUBSET Zones /\ explicitZones[c] \ zones \in SUBSET Zones
    BY DEF TypeOK
  <2> QED BY <1>8, <2>1 DEF HandleClientAddInterest, HandleClientRemoveInterest,
                            HandleClientSetInterest
<1>9. ASSUME NEW d \in DoIds, NEW z \in Zones, NEW o \in Conns \cup {NoClient},
             GenerateObject(d, z, o)
      PROVE  TypeOK'
  <2>1. DOMAIN objects' \subseteq DoIds /\ objects' \in [DOMAIN objects' -> Object]
    BY <1>9 DEF TypeOK, GenerateObject, Object
  <2>2. CASE o = NoClient
    BY <1>9, <2>1, <2>2 DEF TypeOK, GenerateObject
  <2>3. CASE o # NoClient
    <3>1. o \in Conns /\ explicitZones[o] \in SUBSET Zones
      BY <2>3 DEF TypeOK
    <3>2. UpdateClientInterestZones(o, explicitZones[o],
                                    [objectsByZoneId EXCEPT ![o][z] = @ \cup {d}])
      BY <1>9, <2>3 DEF GenerateObject
    <3>3. /\ currentZones' \in [Conns -> SUBSET Zones]
          /\ zonesToClients' \in [Zones -> SUBSET Conns]
      BY <3>1, <3>2, InterestTypes
    <3>4. /\ objectsByDoId' \in [Conns -> SUBSET DoIds]
          /\ objectsByZoneId' \in [Conns -> [Zones -> SUBSET DoIds]]
      <4> DEFINE byZone == [objectsByZoneId[o] EXCEPT ![z] = objectsByZoneId[o][z] \cup {d}]
      <4>1. objectsByZoneId' = [objectsByZoneId EXCEPT ![o] = byZone]
        BY <1>9, <2>3 DEF GenerateObject
      <4>2. byZone \in [Zones -> SUBSET DoIds]
        BY <3>1 DEF TypeOK
      <4>3. objectsByDoId' = [objectsByDoId EXCEPT ![o] = objectsByDoId[o] \cup {d}]
        BY <1>9, <2>3 DEF GenerateObject
      <4> QED BY <3>1, <4>1, <4>2, <4>3 DEF TypeOK
    <3> QED BY <1>9, <2>1, <3>3, <3>4 DEF TypeOK, GenerateObject
  <2> QED BY <2>2, <2>3
<1>10. ASSUME NEW d \in DoIds, DeleteObject(d) PROVE TypeOK'
  <2>1. DOMAIN objects' \subseteq DoIds /\ objects' \in [DOMAIN objects' -> Object]
    BY <1>10 DEF TypeOK, DeleteObject, Restrict
  <2>2. objects[d].owner \in Conns \cup {NoClient} /\ objects[d].zone \in Zones
    BY <1>10 DEF TypeOK, DeleteObject, Object
  <2>3. /\ objectsByDoId' \in [Conns -> SUBSET DoIds]
        /\ objectsByZoneId' \in [Conns -> [Zones -> SUBSET DoIds]]
    <3> DEFINE o == objects[d].owner
               z == objects[d].zone
               byZone == [objectsByZoneId[o] EXCEPT ![z] = objectsByZoneId[o][z] \ {d}]
    <3>1. CASE o = NoClient
      BY <1>10, <3>1 DEF TypeOK, DeleteObject
    <3>2. CASE o # NoClient
      <4>1. /\ objectsByZoneId' = [objectsByZoneId EXCEPT ![o] = byZone]
            /\ objectsByDoId' = [objectsByDoId EXCEPT ![o] = objectsByDoId[o] \ {d}]
        BY <1>10, <3>2 DEF DeleteObject
      <4>2. o \in Conns /\ byZone \in [Zones -> SUBSET DoIds]
        BY <2>2, <3>2 DEF TypeOK
      <4> QED BY <4>1, <4>2 DEF TypeOK
    <3> QED BY <3>1, <3>2
  <2> QED BY <1>10, <2>1, <2>3 DEF TypeOK, DeleteObject
<1>11. CASE UNCHANGED vars
  BY <1>11 DEF TypeOK, vars
<1> QED
  <2>1. CASE SessionStep
    BY <2>1, <1>1, <1>2, <1>3, <1>4, <1>5, <1>6 DEF SessionStep
  <2>2. CASE InterestStep
    BY <2>2, <1>7, <1>8 DEF InterestStep
  <2>3. CASE ObjectStep
    BY <2>3, <1>9, <1>10 DEF ObjectStep
  <2> QED BY <2>1, <2>2, <2>3, <1>11 DEF Next

(* The server's tables keep their types.                                   *)
THEOREM SessionTypes == Spec => []TypeOK
<1> QED BY TypeInit, TypeStep, PTL DEF Spec
-------------------------------------------------------------------------------
(* The books about clients                                                 *)

(* A client has an id exactly while its record says that it is verified.   *)
Numbered == \A c \in clientsByConnection : state[c] = "Verified" <=> id[c] # NoId

(* Every id is free or counted by numClients.                              *)
Accounted == Cardinality(freeIds) + numClients = Cardinality(ClientIds)

(* A connection that was never accepted has no record and never had one.   *)
Fresh ==
  \A c \in Conns : net[c] = "none" =>
    c \notin clientsByConnection /\ state[c] = "Unverified" /\ id[c] = NoId

Books == CountExact /\ IdsExclusive /\ Numbered /\ Accounted
SessionInv == Books /\ Fresh

books == <<clientsByConnection, state, id, freeIds, numClients>>

LEMMA FiniteTables ==
  ASSUME TypeOK PROVE IsFiniteSet(Verified) /\ IsFiniteSet(freeIds)
BY RoomAssumption, FS_Subset DEF TypeOK, Verified

LEMMA BooksInit == Init => SessionInv
<1> SUFFICES ASSUME Init PROVE SessionInv
  OBVIOUS
<1>1. Verified = {}
  BY DEF Init, Verified
<1>2. CountExact
  BY <1>1, FS_EmptySet, RoomAssumption DEF Init, CountExact
<1>3. Accounted
  BY RoomAssumption, FS_CardinalityType DEF Init, Accounted
<1>4. ~isFull => freeIds # {}
  <2>1. ClientIds = {} => Cardinality(ClientIds) = 0
    BY FS_EmptySet
  <2> QED BY <2>1, RoomAssumption DEF Init, isFull
<1>5. IdsExclusive
  BY <1>1, <1>4 DEF Init, IdsExclusive
<1> QED BY <1>2, <1>3, <1>5 DEF SessionInv, Books, Numbered, Fresh, Init

LEMMA BooksUnchanged ==
  ASSUME Books, UNCHANGED books PROVE Books' /\ Verified' = Verified
<1>1. Verified' = Verified
  BY DEF Verified, books
<1>2. CountExact'
  BY <1>1 DEF Books, CountExact, books
<1>3. IdsExclusive'
  BY <1>1 DEF Books, IdsExclusive, isFull, books
<1>4. Numbered' /\ Accounted'
  BY DEF Books, Numbered, Accounted, books
<1> QED BY <1>1, <1>2, <1>3, <1>4 DEF Books

(* closeClientConnection of a recorded client: one verified client less if *)
(* it was verified, nothing else.                                          *)
LEMMA BooksClose ==
  ASSUME TypeOK, TypeOK', Books, NEW c \in clientsByConnection, CloseClientConnection(c)
  PROVE  Books' /\ Verified' = Verified \ {c}
<1>1. Verified' = Verified \ {c}
  BY DEF CloseClientConnection, Verified
<1>2. c \in Conns /\ clientsByConnection' \subseteq clientsByConnection
  BY DEF TypeOK, CloseClientConnection
<1>3. Numbered'
  BY <1>2 DEF Books, Numbered, CloseClientConnection
<1>4. IsFiniteSet(Verified) /\ IsFiniteSet(freeIds)
  BY FiniteTables
<1>5. /\ Cardinality(Verified) \in Nat
      /\ Cardinality(freeIds) \in Nat
      /\ Cardinality(ClientIds) \in Nat
  BY <1>4, FS_CardinalityType, RoomAssumption
<1>6. CASE state[c] # "Verified"
  <2>1. id[c] = NoId /\ c \notin Verified
    BY <1>6 DEF Books, Numbered, Verified
  <2>2. freeIds' = freeIds /\ numClients' = numClients /\ id' = id /\ Verified' = Verified
    BY <1>1, <1>6, <2>1 DEF CloseClientConnection
  <2>3. CountExact' /\ IdsExclusive' /\ Accounted'
    BY <2>2 DEF Books, CountExact, IdsExclusive, Accounted, isFull
  <2> QED BY <1>1, <1>3, <2>3 DEF Books
<1>7. CASE state[c] = "Verified"
  <2>1. c \in Verified /\ id[c] # NoId /\ id[c] \in ClientIds
    BY <1>2, <1>7 DEF Books, Numbered, Verified, TypeOK
  <2>2. freeIds' = freeIds \cup {id[c]} /\ numClients' = numClients - 1 /\ id' = id
    BY <1>7, <2>1 DEF CloseClientConnection
  <2>3. id[c] \notin freeIds
    BY <2>1 DEF Books, IdsExclusive
  <2>4. Cardinality(Verified') = Cardinality(Verified) - 1
    BY <1>1, <1>4, <2>1, FS_RemoveElement
  <2>5. Cardinality(freeIds') = Cardinality(freeIds) + 1
    BY <1>4, <2>2, <2>3, FS_AddElement
  <2>6. CountExact'
    BY <1>5, <2>2, <2>4, RoomAssumption DEF Books, CountExact
  <2>7. Accounted'
    BY <1>5, <2>2, <2>5 DEF Books, Accounted, TypeOK
  <2>8. freeIds' = ClientIds \ {id'[e] : e \in Verified'}
    BY <1>1, <2>1, <2>2 DEF Books, IdsExclusive
  <2>9. (~isFull => freeIds # {})'
    BY <2>2
  <2>10. IdsExclusive'
    BY <1>1, <2>2, <2>8, <2>9 DEF Books, IdsExclusive
  <2> QED BY <1>1, <1>3, <2>6, <2>7, <2>10 DEF Books
<1> QED BY <1>6, <1>7

(* A successful hello: one verified client more, under a free id.          *)
LEMMA BooksHello ==
  ASSUME TypeOK, TypeOK', Books, NEW c \in Conns, NEW i \in ClientIds,
         HandleClientHello(c, i)
  PROVE  Books' /\ Verified' = Verified \cup {c} /\ c \notin Verified
<1>1. /\ c \in clientsByConnection /\ c \notin Verified
      /\ Verified' = Verified \cup {c}
  BY DEF HandleClientHello, MayReceive, Verified, TypeOK
<1>2. /\ freeIds' = freeIds \ {i} /\ i \in freeIds
      /\ numClients' = numClients + 1 /\ numClients < MaxClients
      /\ id' = [id EXCEPT ![c] = i] /\ state' = [state EXCEPT ![c] = "Verified"]
      /\ clientsByConnection' = clientsByConnection
  BY RoomAssumption DEF HandleClientHello, isFull, TypeOK
<1>3. IsFiniteSet(Verified) /\ IsFiniteSet(freeIds)
  BY FiniteTables
<1>4. /\ Cardinality(Verified) \in Nat
      /\ Cardinality(freeIds) \in Nat
      /\ Cardinality(ClientIds) \in Nat
  BY <1>3, FS_CardinalityType, RoomAssumption
<1>5. Cardinality(Verified') = Cardinality(Verified) + 1
  BY <1>1, <1>3, FS_AddElement
<1>6. Cardinality(freeIds') = Cardinality(freeIds) - 1
  BY <1>2, <1>3, FS_RemoveElement
<1>7. CountExact'
  BY <1>2, <1>4, <1>5, RoomAssumption DEF Books, CountExact
<1>8. Accounted'
  BY <1>2, <1>4, <1>6 DEF Books, Accounted, TypeOK
<1>9. i # NoId
  BY NobodyAssumption
<1>10. Numbered'
  BY <1>2, <1>9 DEF Books, Numbered, TypeOK
<1>11. \A e \in Verified : id'[e] = id[e] /\ e \in Conns
  BY <1>1, <1>2 DEF TypeOK, Verified
<1>12. id'[c] = i
  BY <1>2 DEF TypeOK
<1>13. freeIds' = ClientIds \ {id'[e] : e \in Verified'}
  BY <1>1, <1>2, <1>11, <1>12 DEF Books, IdsExclusive
<1>14. \A e, g \in Verified' : id'[e] = id'[g] => e = g
  BY <1>1, <1>2, <1>11, <1>12 DEF Books, IdsExclusive
<1>15. \A e \in Verified' : id'[e] # NoId
  BY <1>1, <1>9, <1>11, <1>12 DEF Books, IdsExclusive
<1>16. (~isFull => freeIds # {})'
  <2>1. freeIds' = {} => Cardinality(freeIds') = 0
    BY FS_EmptySet
  <2> QED BY <1>2, <1>4, <1>8, <2>1, RoomAssumption DEF isFull, Accounted, TypeOK
<1>17. IdsExclusive'
  BY <1>13, <1>14, <1>15, <1>16 DEF IdsExclusive
<1> QED BY <1>1, <1>7, <1>8, <1>10, <1>17 DEF Books
(* What a step does to the roster of verified clients.                     *)
Stays == Verified' = Verified /\ UNCHANGED <<id, state>>
         /\ \A c \in Conns : state[c] = "Verified" => (c \in clientsByConnection
                                                    <=> c \in clientsByConnection')
Joins(c, i) ==
  /\ c \notin Verified /\ ~isFull /\ i \in freeIds
  /\ c \in clientsByConnection /\ UNCHANGED clientsByConnection
  /\ Verified' = Verified \cup {c}
  /\ id' = [id EXCEPT ![c] = i] /\ state' = [state EXCEPT ![c] = "Verified"]
Leaves(c) ==
  /\ c \in Verified
  /\ Verified' = Verified \ {c} /\ UNCHANGED <<id, state>>
  /\ clientsByConnection' = clientsByConnection \ {c}

RosterStep == \/ Stays
              \/ \E c \in Conns : Leaves(c)
              \/ \E c \in Conns, i \in ClientIds : Joins(c, i)

LEMMA CloseStep ==
  ASSUME TypeOK, TypeOK', Books, NEW c \in clientsByConnection, CloseClientConnection(c)
  PROVE  Books' /\ RosterStep
<1>1. Books' /\ Verified' = Verified \ {c} /\ c \in Conns
  BY BooksClose DEF TypeOK
<1>2. clientsByConnection' = clientsByConnection \ {c} /\ UNCHANGED <<id, state>>
  BY DEF CloseClientConnection
<1>3. CASE c \in Verified
  BY <1>1, <1>2, <1>3 DEF RosterStep, Leaves
<1>4. CASE c \notin Verified
  BY <1>1, <1>2, <1>4 DEF RosterStep, Stays, Verified
<1> QED BY <1>1, <1>3, <1>4

LEMMA SessionInvStep ==
  ASSUME TypeOK, TypeOK', SessionInv, [Next]_vars
  PROVE  SessionInv' /\ RosterStep
<1> DEFINE Goal == SessionInv' /\ RosterStep
<1>1. ASSUME UNCHANGED books, \A c \in Conns : net'[c] = "none" => net[c] = "none"
      PROVE  Goal
  <2>1. Books' /\ Verified' = Verified
    BY <1>1, BooksUnchanged DEF SessionInv
  <2> QED BY <1>1, <2>1 DEF SessionInv, books, Fresh, RosterStep, Stays
<1>2. ASSUME NEW c \in Conns, NetConnecting(c) PROVE Goal
  <2>1. /\ c \notin clientsByConnection /\ state[c] = "Unverified" /\ id[c] = NoId
        /\ UNCHANGED <<state, id, freeIds, numClients>>
        /\ clientsByConnection' \in {clientsByConnection, clientsByConnection \cup {c}}
        /\ \A e \in Conns : net'[e] = "none" => e # c /\ net[e] = "none"
    BY <1>2 DEF NetConnecting, SessionInv, Fresh, TypeOK
  <2>2. Verified' = Verified
    BY <2>1 DEF Verified
  <2>3. Fresh'
    BY <2>1 DEF SessionInv, Fresh
  <2>4. Numbered'
    BY <2>1 DEF SessionInv, Books, Numbered
  <2>5. CountExact' /\ IdsExclusive' /\ Accounted'
    BY <2>1, <2>2 DEF SessionInv, Books, CountExact, IdsExclusive, Accounted, isFull
  <2>6. Stays
    BY <2>1, <2>2 DEF Stays
  <2> QED BY <2>3, <2>4, <2>5, <2>6 DEF SessionInv, Books, RosterStep
<1>3. ASSUME NEW c \in Conns, NEW i \in ClientIds, HandleClientHello(c, i) PROVE Goal
  <2>1. Books' /\ Verified' = Verified \cup {c} /\ c \notin Verified
    BY <1>3, BooksHello DEF SessionInv
  <2>2. /\ id' = [id EXCEPT ![c] = i] /\ state' = [state EXCEPT ![c] = "Verified"]
        /\ c \in clientsByConnection /\ ~isFull /\ i \in freeIds
        /\ UNCHANGED <<net, clientsByConnection>>
    BY <1>3 DEF HandleClientHello, MayReceive
  <2>3. Joins(c, i)
    BY <2>1, <2>2 DEF Joins
  <2>4. Fresh'
    BY <2>2 DEF SessionInv, Fresh, TypeOK
  <2> QED BY <2>1, <2>3, <2>4 DEF SessionInv, RosterStep
<1>4. ASSUME NEW c \in clientsByConnection, CloseClientConnection(c),
             \A e \in Conns : net'[e] = "none" => net[e] = "none"
      PROVE  Goal
  <2>1. Books' /\ RosterStep
    BY <1>4, CloseStep DEF SessionInv
  <2>2. Fresh'
    BY <1>4 DEF SessionInv, Fresh, CloseClientConnection
  <2> QED BY <2>1, <2>2 DEF SessionInv
<1>5. ASSUME NEW c \in Conns, TurnAway(c) \/ HandleClientDisconnect(c) PROVE Goal
  <2>1. CloseClientConnection(c) /\ Hangup(c) /\ c \in clientsByConnection
    BY <1>5 DEF TurnAway, HandleClientDisconnect, DropClient, MayReceive
  <2>2. \A e \in Conns : net'[e] = "none" => net[e] = "none"
    BY <2>1 DEF Hangup, TypeOK
  <2> QED BY <1>4, <2>1, <2>2
<1>6. ASSUME NEW c \in Conns, NetClosed(c) PROVE Goal
  <2>1. \A e \in Conns : net'[e] = "none" => net[e] = "none"
    BY <1>6 DEF NetClosed, TypeOK
  <2>2. CASE c \in clientsByConnection
    BY <1>4, <1>6, <2>1, <2>2 DEF NetClosed, DropClient
  <2>3. CASE c \notin clientsByConnection
    BY <1>1, <1>6, <2>1, <2>3 DEF NetClosed, books
  <2> QED BY <2>2, <2>3
<1>7. ASSUME NEW c \in Conns, PeerLeaves(c) PROVE Goal
  BY <1>1, <1>7 DEF PeerLeaves, books, TypeOK
<1>8. CASE SessionStep
  BY <1>2, <1>3, <1>5, <1>6, <1>7, <1>8 DEF SessionStep
<1>9. CASE UNCHANGED sessions
  BY <1>1, <1>9 DEF sessions, books
<1>10. InterestStep \/ ObjectStep \/ UNCHANGED vars => UNCHANGED sessions
  BY DEF InterestStep, ObjectStep, HandleClientAddInterest, HandleClientRemoveInterest,
         HandleClientSetInterest, SetExplicit, GenerateObject, DeleteObject, vars
<1> QED BY <1>8, <1>9, <1>10 DEF Next

LEMMA SessionInvariant == Spec => [](TypeOK /\ SessionInv)
<1>1. Init => TypeOK /\ SessionInv
  BY TypeInit, BooksInit
<1>2. TypeOK /\ SessionInv /\ [Next]_vars => (TypeOK /\ SessionInv)'
  BY TypeStep, SessionInvStep
<1> QED BY <1>1, <1>2, PTL DEF Spec

(* numClients is the number of verified clients and never exceeds the      *)
(* limit, whatever way they leave.                                         *)
THEOREM BooksCorrect == Spec => []CountExact
<1>1. SessionInv => CountExact
  BY DEF SessionInv, Books
<1> QED BY <1>1, SessionInvariant, PTL

(* No two verified clients have the same id, and no id in use is free to   *)
(* be given out again.                                                     *)
THEOREM IdsStayExclusive == Spec => []IdsExclusive
<1>1. SessionInv => IdsExclusive
  BY DEF SessionInv, Books
<1> QED BY <1>1, SessionInvariant, PTL
-------------------------------------------------------------------------------
(* The server implements the roster                                        *)

rosterOf == [c \in Verified |-> id[c]]
leftOf == {c \in Conns \ clientsByConnection : state[c] = "Verified"}

LEMMA RosterInit == Init => Roster!Init
BY DEF Init, Roster!Init, Verified

LEMMA RosterSimulation ==
  ASSUME TypeOK, TypeOK', SessionInv, RosterStep
  PROVE  [Roster!Next]_<<rosterOf, leftOf>>
<1> USE DEF rosterOf, leftOf
<1>1. CASE Stays
  BY <1>1 DEF Stays, TypeOK
<1>2. ASSUME NEW c \in Conns, Leaves(c) PROVE Roster!Leave(c)
  <2>1. c \in DOMAIN rosterOf
    BY <1>2 DEF Leaves
  <2>2. rosterOf' = [e \in DOMAIN rosterOf \ {c} |-> rosterOf[e]]
    BY <1>2 DEF Leaves
  <2>3. leftOf' = leftOf \cup {c}
    BY <1>2 DEF Leaves, Verified
  <2> QED BY <2>1, <2>2, <2>3 DEF Roster!Leave
<1>3. ASSUME NEW c \in Conns, NEW i \in ClientIds, Joins(c, i) PROVE Roster!Join(c, i)
  <2>1. c \notin DOMAIN rosterOf \cup leftOf
    BY <1>3 DEF Joins, Verified
  <2>2. \A e \in DOMAIN rosterOf : rosterOf[e] # i
    BY <1>3 DEF Joins, SessionInv, Books, IdsExclusive
  <2>3. Roster!Cardinality(DOMAIN rosterOf) < MaxClients
    <3>1. Cardinality(Verified) = numClients /\ ~(numClients >= MaxClients)
      BY <1>3 DEF Joins, SessionInv, Books, CountExact, isFull
    <3>2. Cardinality(Verified) < MaxClients
      BY <3>1, RoomAssumption DEF TypeOK
    <3>3. Roster!Cardinality(Verified) = Cardinality(Verified)
      BY DEF Cardinality, Roster!Cardinality
    <3> QED BY <3>2, <3>3
  <2>4. \A e \in Verified : id'[e] = id[e]
    BY <1>3 DEF Joins, TypeOK, Verified
  <2>5. rosterOf' = [e \in DOMAIN rosterOf \cup {c} |-> IF e = c THEN i ELSE rosterOf[e]]
    BY <1>3, <2>4 DEF Joins, TypeOK
  <2>6. leftOf' = leftOf
    BY <1>3 DEF Joins, TypeOK
  <2> QED BY <2>1, <2>2, <2>3, <2>5, <2>6 DEF Roster!Join
<1> QED BY <1>1, <1>2, <1>3 DEF RosterStep, Roster!Next

(* The sessions of the server implement the roster of verified clients:    *)
(* room for MaxClients, ids of their own that they keep, no way back.      *)
THEOREM SessionsKeepRoster == Spec => KeepsRoster
<1>1. Init => TypeOK /\ SessionInv
  BY TypeInit, BooksInit
<1>2. TypeOK /\ SessionInv /\ [Next]_vars => (TypeOK /\ SessionInv)'
  BY TypeStep, SessionInvStep
<1>3. TypeOK /\ TypeOK' /\ SessionInv /\ [Next]_vars =>
        [Roster!Next]_<<[c \in Verified |-> id[c]],
                        {c \in Conns \ clientsByConnection : state[c] = "Verified"}>>
  BY SessionInvStep, RosterSimulation DEF rosterOf, leftOf
<1> QED BY <1>1, <1>2, <1>3, RosterInit, PTL DEF Spec, KeepsRoster, Roster!Spec

-------------------------------------------------------------------------------
(* Owner tables and the zone index                                         *)

LEMMA DropOwned ==
  ASSUME TypeOK, OwnerTablesAgree, NEW c \in Conns, DropClient(c)
  PROVE  OwnerTablesAgree'
<1>1. /\ objects' = [d \in DOMAIN objects \ objectsByDoId[c] |-> objects[d]]
      /\ objectsByDoId' = [objectsByDoId EXCEPT ![c] = {}]
      /\ objectsByZoneId' = [objectsByZoneId EXCEPT ![c] = [z \in Zones |-> {}]]
  BY DEF DropClient, Restrict
<1>2. objectsByDoId[c] = {d \in DOMAIN objects : objects[d].owner = c}
  BY DEF OwnerTablesAgree
<1>3. \A d \in DOMAIN objects' : objects'[d] = objects[d] /\ objects[d].owner # c
  BY <1>1, <1>2
<1>4. ASSUME NEW e \in Conns
      PROVE  /\ objectsByDoId'[e] = {d \in DOMAIN objects' : objects'[d].owner = e}
             /\ \A z \in Zones : objectsByZoneId'[e][z] =
                                   {d \in objectsByDoId'[e] : objects'[d].zone = z}
  <2>1. CASE e = c
    BY <1>1, <1>3, <2>1 DEF TypeOK
  <2>2. CASE e # c
    <3>1. objectsByDoId'[e] = objectsByDoId[e] /\ objectsByZoneId'[e] = objectsByZoneId[e]
      BY <1>1, <2>2 DEF TypeOK
    <3>2. objectsByDoId[e] = {d \in DOMAIN objects : objects[d].owner = e}
      BY DEF OwnerTablesAgree
    <3>3. {d \in DOMAIN objects : objects[d].owner = e}
            = {d \in DOMAIN objects' : objects'[d].owner = e}
      BY <1>1, <1>2, <2>2
    <3>4. \A d \in objectsByDoId[e] : d \in DOMAIN objects' /\ objects'[d] = objects[d]
      BY <1>3, <3>2, <3>3
    <3>5. \A z \in Zones : objectsByZoneId[e][z] = {d \in objectsByDoId[e] : objects[d].zone = z}
      BY DEF OwnerTablesAgree
    <3> QED BY <3>1, <3>2, <3>3, <3>4, <3>5
  <2> QED BY <2>1, <2>2
<1> QED BY <1>4 DEF OwnerTablesAgree

LEMMA GenerateOwned ==
  ASSUME TypeOK, OwnerTablesAgree, NEW d \in DoIds, NEW z \in Zones,
         NEW o \in Conns \cup {NoClient}, GenerateObject(d, z, o)
  PROVE  OwnerTablesAgree'
<1>1. /\ d \notin DOMAIN objects
      /\ DOMAIN objects' = DOMAIN objects \cup {d}
      /\ objects'[d] = [zone |-> z, owner |-> o]
      /\ \A i \in DOMAIN objects : objects'[i] = objects[i]
  BY DEF GenerateObject
<1>2. ASSUME NEW e \in Conns
      PROVE  /\ objectsByDoId'[e] = {i \in DOMAIN objects' : objects'[i].owner = e}
             /\ \A y \in Zones : objectsByZoneId'[e][y] =
                                   {i \in objectsByDoId'[e] : objects'[i].zone = y}
  <2>1. /\ objectsByDoId[e] = {i \in DOMAIN objects : objects[i].owner = e}
        /\ \A y \in Zones : objectsByZoneId[e][y] =
                              {i \in objectsByDoId[e] : objects[i].zone = y}
    BY DEF OwnerTablesAgree
  <2>2. CASE e = o
    <3>1. e # NoClient
      BY NobodyAssumption
    <3>2. objectsByDoId'[e] = objectsByDoId[e] \cup {d}
      BY <2>2, <3>1 DEF GenerateObject, TypeOK
    <3>3. objectsByZoneId' = [objectsByZoneId EXCEPT ![e] =
                                [objectsByZoneId[e] EXCEPT ![z] = objectsByZoneId[e][z] \cup {d}]]
      BY <2>2, <3>1 DEF GenerateObject
    <3>4. ASSUME NEW y \in Zones
          PROVE  objectsByZoneId'[e][y] =
                   IF y = z THEN objectsByZoneId[e][y] \cup {d} ELSE objectsByZoneId[e][y]
      BY <3>3 DEF TypeOK
    <3>5. objectsByDoId'[e] = {i \in DOMAIN objects' : objects'[i].owner = e}
      BY <1>1, <2>1, <2>2, <3>2
    <3>6. ASSUME NEW y \in Zones
          PROVE  objectsByZoneId'[e][y] = {i \in objectsByDoId'[e] : objects'[i].zone = y}
      <4>1. objectsByZoneId[e][y] = {i \in objectsByDoId[e] : objects[i].zone = y}
        BY <2>1
      <4>2. \A i \in objectsByDoId'[e] \ {d} : i \in objectsByDoId[e] /\ objects'[i] = objects[i]
        BY <1>1, <2>1, <3>2
      <4>3. objects'[d].zone = z /\ d \notin objectsByDoId[e]
        BY <1>1, <2>1
      <4>4. ASSUME NEW i
            PROVE  i \in objectsByZoneId'[e][y] <=> i \in objectsByDoId'[e] /\ objects'[i].zone = y
        <5>1. i \in objectsByZoneId[e][y] <=> i \in objectsByDoId[e] /\ objects[i].zone = y
          BY <4>1
        <5>2. CASE y = z
          <6>1. i \in objectsByZoneId'[e][y] <=> i \in objectsByZoneId[e][y] \/ i = d
            BY <3>4, <5>2
          <6> QED BY <3>2, <4>2, <4>3, <5>1, <5>2, <6>1
        <5>3. CASE y # z
          <6>1. i \in objectsByZoneId'[e][y] <=> i \in objectsByZoneId[e][y]
            BY <3>4, <5>3
          <6> QED BY <3>2, <4>2, <4>3, <5>1, <5>3, <6>1
        <5> QED BY <5>2, <5>3
      <4> QED BY <4>4
    <3> QED BY <3>5, <3>6
  <2>3. CASE e # o
    <3>1. objectsByDoId'[e] = objectsByDoId[e] /\ objectsByZoneId'[e] = objectsByZoneId[e]
      BY <2>3 DEF GenerateObject, TypeOK
    <3> QED BY <1>1, <2>1, <2>3, <3>1
  <2> QED BY <2>2, <2>3
<1> QED BY <1>2 DEF OwnerTablesAgree

LEMMA DeleteOwned ==
  ASSUME TypeOK, OwnerTablesAgree, NEW d \in DoIds, DeleteObject(d)
  PROVE  OwnerTablesAgree'
<1>1. /\ d \in DOMAIN objects
      /\ DOMAIN objects' = DOMAIN objects \ {d}
      /\ \A i \in DOMAIN objects' : objects'[i] = objects[i]
  BY DEF DeleteObject, Restrict
<1>2. ASSUME NEW e \in Conns
      PROVE  /\ objectsByDoId'[e] = {i \in DOMAIN objects' : objects'[i].owner = e}
             /\ \A y \in Zones : objectsByZoneId'[e][y] =
                                   {i \in objectsByDoId'[e] : objects'[i].zone = y}
  <2>1. /\ objectsByDoId[e] = {i \in DOMAIN objects : objects[i].owner = e}
        /\ \A y \in Zones : objectsByZoneId[e][y] =
                              {i \in objectsByDoId[e] : objects[i].zone = y}
    BY DEF OwnerTablesAgree
  <2>2. CASE e = objects[d].owner
    <3>1. e # NoClient
      BY NobodyAssumption
    <3>2. objectsByDoId'[e] = objectsByDoId[e] \ {d}
      BY <2>2, <3>1 DEF DeleteObject, TypeOK
    <3> DEFINE z == objects[d].zone
    <3>3. objectsByZoneId' = [objectsByZoneId EXCEPT ![e] =
                                [objectsByZoneId[e] EXCEPT ![z] = objectsByZoneId[e][z] \ {d}]]
      BY <2>2, <3>1 DEF DeleteObject
    <3>4. ASSUME NEW y \in Zones
          PROVE  objectsByZoneId'[e][y] =
                   IF y = z THEN objectsByZoneId[e][y] \ {d} ELSE objectsByZoneId[e][y]
      BY <3>3 DEF TypeOK
    <3>5. objectsByDoId'[e] = {i \in DOMAIN objects' : objects'[i].owner = e}
      BY <1>1, <2>1, <2>2, <3>2
    <3>6. ASSUME NEW y \in Zones
          PROVE  objectsByZoneId'[e][y] = {i \in objectsByDoId'[e] : objects'[i].zone = y}
      <4>1. objectsByZoneId[e][y] = {i \in objectsByDoId[e] : objects[i].zone = y}
        BY <2>1
      <4>2. \A i \in objectsByDoId'[e] \ {d} : i \in objectsByDoId[e] /\ objects'[i] = objects[i]
        BY <1>1, <2>1, <3>2
      <4>4. ASSUME NEW i
            PROVE  i \in objectsByZoneId'[e][y] <=> i \in objectsByDoId'[e] /\ objects'[i].zone = y
        <5>1. i \in objectsByZoneId[e][y] <=> i \in objectsByDoId[e] /\ objects[i].zone = y
          BY <4>1
        <5>2. CASE y = z
          <6>1. i \in objectsByZoneId'[e][y] <=> i \in objectsByZoneId[e][y] /\ i # d
            BY <3>4, <5>2
          <6> QED BY <3>2, <4>2, <5>1, <5>2, <6>1
        <5>3. CASE y # z
          <6>1. i \in objectsByZoneId'[e][y] <=> i \in objectsByZoneId[e][y]
            BY <3>4, <5>3
          <6> QED BY <3>2, <4>2, <5>1, <5>3, <6>1
        <5> QED BY <5>2, <5>3
      <4> QED BY <4>4
    <3> QED BY <3>5, <3>6
  <2>3. CASE e # objects[d].owner
    <3>1. objectsByDoId'[e] = objectsByDoId[e] /\ objectsByZoneId'[e] = objectsByZoneId[e]
      BY <2>3 DEF DeleteObject, TypeOK
    <3> QED BY <1>1, <2>1, <2>3, <3>1
  <2> QED BY <2>2, <2>3
<1> QED BY <1>2 DEF OwnerTablesAgree
LEMMA OwnedStep ==
  ASSUME TypeOK, OwnerTablesAgree, [Next]_vars PROVE OwnerTablesAgree'
<1>1. CASE UNCHANGED ownership
  BY <1>1 DEF OwnerTablesAgree, ownership
<1>2. CASE SessionStep
  <2>1. \A c \in Conns : NetConnecting(c) \/ PeerLeaves(c) \/ TurnAway(c)
                           \/ (\E i \in ClientIds : HandleClientHello(c, i)) => UNCHANGED ownership
    BY DEF NetConnecting, PeerLeaves, TurnAway, HandleClientHello
  <2>2. \A c \in Conns : HandleClientDisconnect(c) \/ NetClosed(c) =>
                           DropClient(c) \/ UNCHANGED ownership
    BY DEF HandleClientDisconnect, NetClosed
  <2> QED BY <1>1, <1>2, <2>1, <2>2, DropOwned DEF SessionStep
<1>3. CASE InterestStep \/ UNCHANGED vars
  BY <1>1, <1>3 DEF InterestStep, HandleClientAddInterest, HandleClientRemoveInterest,
                    HandleClientSetInterest, SetExplicit, vars
<1>4. CASE ObjectStep
  BY <1>4, GenerateOwned, DeleteOwned DEF ObjectStep
<1> QED BY <1>2, <1>3, <1>4 DEF Next

(* The owner tables of every client, recorded or not, agree with the       *)
(* objects: deleteObject and handleClientDisconnect find what they look up. *)
THEOREM OwnerTablesCorrect == Spec => []OwnerTablesAgree
<1>1. Init => OwnerTablesAgree
  BY DEF Init, OwnerTablesAgree
<1> QED BY <1>1, TypeInit, TypeStep, OwnedStep, PTL DEF Spec

(* updateClientInterestZones brings the index and the interests in line,   *)
(* given what the client owns afterwards.                                  *)
LEMMA UpdateIndexed ==
  ASSUME TypeOK, InterestIndexed, NEW c \in Conns, NEW explicit \in SUBSET Zones, NEW byZone,
         UpdateClientInterestZones(c, explicit, byZone),
         explicitZones' = [explicitZones EXCEPT ![c] = explicit],
         \A e \in Conns : OwnedZones(objectsByZoneId', e) =
                            IF e = c THEN OwnedZones(byZone, c) ELSE OwnedZones(objectsByZoneId, e)
  PROVE  InterestIndexed'
<1> DEFINE zones == explicit \cup OwnedZones(byZone, c)
<1>1. zones \in SUBSET Zones
  BY DEF OwnedZones
<1>2. currentZones' = [currentZones EXCEPT ![c] = zones]
  BY DEF UpdateClientInterestZones
<1>3. \A z \in Zones : zonesToClients'[z] =
        IF z \in zones \ currentZones[c] THEN zonesToClients[z] \cup {c}
        ELSE IF z \in currentZones[c] \ zones THEN zonesToClients[z] \ {c}
        ELSE zonesToClients[z]
  BY DEF UpdateClientInterestZones
<1>4. ASSUME NEW e \in Conns, NEW z \in Zones
      PROVE  z \in currentZones'[e] <=> e \in zonesToClients'[z]
  <2> HIDE DEF zones
  <2>1. z \in currentZones[e] <=> e \in zonesToClients[z]
    BY DEF InterestIndexed
  <2>2. CASE e = c
    BY <1>2, <1>3, <2>1, <2>2 DEF TypeOK
  <2>3. CASE e # c
    BY <1>2, <1>3, <2>1, <2>3, ZenonT(40) DEF TypeOK
  <2> QED BY <2>2, <2>3
<1>5. ASSUME NEW e \in Conns
      PROVE  explicitZones'[e] \cup OwnedZones(objectsByZoneId', e) \subseteq currentZones'[e]
  <2>1. CASE e = c
    BY <1>2, <2>1 DEF TypeOK
  <2>2. CASE e # c
    BY <1>2, <2>2 DEF TypeOK, InterestIndexed
  <2> QED BY <2>1, <2>2
<1> QED BY <1>4, <1>5 DEF InterestIndexed

(* Losing objects does not disturb the index.                              *)
LEMMA ShrinkIndexed ==
  ASSUME InterestIndexed, UNCHANGED interests,
         \A e \in Conns : OwnedZones(objectsByZoneId', e) \subseteq OwnedZones(objectsByZoneId, e)
  PROVE  InterestIndexed'
BY DEF InterestIndexed, interests

LEMMA IndexedStep ==
  ASSUME TypeOK, InterestIndexed, [Next]_vars PROVE InterestIndexed'
<1>1. CASE UNCHANGED <<interests, objectsByZoneId>>
  BY <1>1 DEF InterestIndexed, interests, OwnedZones
<1>2. ASSUME NEW c \in Conns, NEW explicit \in SUBSET Zones, SetExplicit(c, explicit)
      PROVE  InterestIndexed'
  <2>1. /\ UpdateClientInterestZones(c, explicit, objectsByZoneId)
        /\ explicitZones' = [explicitZones EXCEPT ![c] = explicit]
        /\ objectsByZoneId' = objectsByZoneId
    BY <1>2 DEF SetExplicit, ownership
  <2>2. \A e \in Conns : OwnedZones(objectsByZoneId', e) =
          IF e = c THEN OwnedZones(objectsByZoneId, c) ELSE OwnedZones(objectsByZoneId, e)
    BY <2>1 DEF OwnedZones
  <2> QED BY <2>1, <2>2, UpdateIndexed
<1>3. ASSUME NEW c \in Conns, HandleClientDisconnect(c) \/ NetClosed(c) PROVE InterestIndexed'
  <2>1. UNCHANGED interests
        /\ (objectsByZoneId' = [objectsByZoneId EXCEPT ![c] = [z \in Zones |-> {}]]
            \/ UNCHANGED objectsByZoneId)
    BY <1>3 DEF HandleClientDisconnect, NetClosed, DropClient, ownership
  <2>2. \A e \in Conns : OwnedZones(objectsByZoneId', e) \subseteq OwnedZones(objectsByZoneId, e)
    BY <2>1 DEF OwnedZones, TypeOK
  <2> QED BY <2>1, <2>2, ShrinkIndexed
<1>4. CASE SessionStep
  <2>1. \A c \in Conns : NetConnecting(c) \/ PeerLeaves(c) \/ TurnAway(c)
                           \/ (\E i \in ClientIds : HandleClientHello(c, i)) =>
                         UNCHANGED <<interests, objectsByZoneId>>
    BY DEF NetConnecting, PeerLeaves, TurnAway, HandleClientHello, ownership
  <2> QED BY <1>1, <1>3, <1>4, <2>1 DEF SessionStep
<1>5. CASE InterestStep
  <2>1. PICK c \in Conns, zones \in SUBSET Zones :
          \/ HandleClientAddInterest(c, zones)
          \/ HandleClientRemoveInterest(c, zones)
          \/ HandleClientSetInterest(c, zones)
    BY <1>5 DEF InterestStep
  <2>2. explicitZones[c] \cup zones \in SUBSET Zones /\ explicitZones[c] \ zones \in SUBSET Zones
    BY DEF TypeOK
  <2>3. \E explicit \in SUBSET Zones : SetExplicit(c, explicit)
    BY <2>1, <2>2 DEF HandleClientAddInterest, HandleClientRemoveInterest,
                      HandleClientSetInterest
  <2> QED BY <1>2, <2>3
<1>6. ASSUME NEW d \in DoIds, NEW z \in Zones, NEW o \in Conns \cup {NoClient},
             GenerateObject(d, z, o)
      PROVE  InterestIndexed'
  <2>1. CASE o = NoClient
    BY <1>1, <1>6, <2>1 DEF GenerateObject, interests
  <2>2. CASE o # NoClient
    <3> DEFINE byZone == [objectsByZoneId EXCEPT ![o][z] = @ \cup {d}]
    <3>1. o \in Conns /\ explicitZones[o] \in SUBSET Zones
      BY <2>2 DEF TypeOK
    <3>2. UpdateClientInterestZones(o, explicitZones[o], byZone)
      BY <1>6, <2>2 DEF GenerateObject
    <3>3. objectsByZoneId' = byZone /\ explicitZones' = explicitZones
      BY <1>6, <2>2 DEF GenerateObject
    <3>4. explicitZones' = [explicitZones EXCEPT ![o] = explicitZones[o]]
      BY <3>1, <3>3 DEF TypeOK
    <3>5. \A e \in Conns : OwnedZones(objectsByZoneId', e) =
            IF e = o THEN OwnedZones(byZone, o) ELSE OwnedZones(objectsByZoneId, e)
      BY <3>1, <3>3 DEF OwnedZones, TypeOK
    <3> HIDE DEF byZone
    <3> QED BY <3>1, <3>2, <3>4, <3>5, UpdateIndexed
  <2> QED BY <2>1, <2>2
<1>7. ASSUME NEW d \in DoIds, DeleteObject(d) PROVE InterestIndexed'
  <2>1. CASE objects[d].owner = NoClient
    BY <1>1, <1>7, <2>1 DEF DeleteObject
  <2>2. CASE objects[d].owner # NoClient
    <3> DEFINE o == objects[d].owner
               z == objects[d].zone
    <3>1. o \in Conns
      BY <1>7, <2>2 DEF TypeOK, DeleteObject, Object
    <3>2. objectsByZoneId' = [objectsByZoneId EXCEPT ![o] =
                                [objectsByZoneId[o] EXCEPT ![z] = objectsByZoneId[o][z] \ {d}]]
          /\ UNCHANGED interests
      BY <1>7, <2>2 DEF DeleteObject
    <3>3. \A e \in Conns : \A y \in Zones : objectsByZoneId'[e][y] \subseteq objectsByZoneId[e][y]
      BY <3>1, <3>2 DEF TypeOK
    <3>4. \A e \in Conns : OwnedZones(objectsByZoneId', e) \subseteq OwnedZones(objectsByZoneId, e)
      BY <3>3 DEF OwnedZones
    <3> QED BY <3>2, <3>4, ShrinkIndexed
  <2> QED BY <2>1, <2>2
<1> QED BY <1>1, <1>4, <1>5, <1>6, <1>7 DEF Next, ObjectStep, vars, ownership

(* The zone index is exactly the interests of the clients, and these cover *)
(* what they asked for and the zones of what they own.                     *)
THEOREM IndexCorrect == Spec => []InterestIndexed
<1>1. Init => InterestIndexed
  BY DEF Init, InterestIndexed, OwnedZones
<1> QED BY <1>1, TypeInit, TypeStep, IndexedStep, PTL DEF Spec
===============================================================================
