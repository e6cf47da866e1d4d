---------------------------- MODULE LanObjectsProofs ---------------------------
(***************************************************************************)
(* The tables of the server of LanObjects, what it tells the owners of     *)
(* objects, and what the clients know and keep in their caches once they   *)
(* have heard it, for any clients, objects, zones and bounds.              *)
(***************************************************************************)
EXTENDS LanObjects, FiniteSetTheorems, SequenceTheorems, TLAPS

(* What the server may send to c.                                          *)
Fit(c) == {m \in ForClient(c) : m.type = "disable" => m.doIds \cap Own(c) = {}}

(* The parts of the invariant, by who changes them.                        *)
ServerTypes ==
  /\ connected \subseteq Clients
  /\ explicit \in [Clients -> SUBSET Zones]
  /\ current \in [Clients -> SUBSET Zones]
  /\ listeners \in [Zones -> SUBSET Clients]
  /\ objects \in [DoIds -> Zones \cup {NoZone}]

Books == ServerTypes /\ TablesAgree

ClientTypes ==
  /\ online \cup left \subseteq Clients
  /\ view \in [Clients -> [DoIds -> [zone : Zones \cup {NoZone}, value : Nat]]]
  /\ free \cup deleting \subseteq DoIds
  /\ ops \in Nat

Said ==
  /\ DOMAIN toServer = Clients
  /\ \A c \in Clients : toServer[c] \in Seq(FromClient(c))

Told ==
  /\ DOMAIN toClient = Clients
  /\ \A c \in Clients : toClient[c] \in Seq(Fit(c))

IInv == Books /\ ClientTypes /\ Said /\ Told

-------------------------------------------------------------------------------
(* Sequences of messages                                                   *)

LEMMA EmptyMail == \A S : <<>> \in Seq(S)
  OBVIOUS

LEMMA OneMessage == ASSUME NEW S, NEW m \in S PROVE <<m>> \in Seq(S)
  OBVIOUS

LEMMA IfMessage ==
  ASSUME NEW S, NEW b \in BOOLEAN, NEW m, b => m \in S
  PROVE  If(b, m) \in Seq(S)
  <1>1. CASE b
    BY <1>1, OneMessage DEF If
  <1>2. CASE ~b
    BY <1>2, EmptyMail DEF If
  <1> QED
    BY <1>1, <1>2

LEMMA Joined ==
  ASSUME NEW S, NEW s \in Seq(S), NEW t \in Seq(S)
  PROVE  s \o t \in Seq(S)
  OBVIOUS

LEMMA TakenFirst ==
  ASSUME NEW S, NEW s \in Seq(S), s # <<>>
  PROVE  Head(s) \in S /\ Tail(s) \in Seq(S)
  OBVIOUS

LEMMA SeqOf ==
  ASSUME NEW S, NEW n \in Nat, NEW f \in [1 .. n -> S]
  PROVE  f \in Seq(S)
  OBVIOUS

(* A finite set can be listed.                                             *)
LEMMA ListingOf ==
  ASSUME NEW T, IsFiniteSet(T)
  PROVE  /\ Cardinality(T) \in Nat
         /\ Listing(T) \in [1 .. Cardinality(T) -> T]
         /\ \A i \in 1 .. Cardinality(T) : Listing(T)[i] \in T
  <1>1. Cardinality(T) \in Nat /\ ExistsBijection(1 .. Cardinality(T), T)
    BY FS_CardinalityType
  <1>2. PICK f : f \in Bijection(1 .. Cardinality(T), T)
    BY <1>1 DEF ExistsBijection
  <1>3. /\ f \in [1 .. Cardinality(T) -> T]
        /\ \A x \in T : \E i \in DOMAIN f : f[i] = x
    BY <1>2 DEF Bijection, Surjection, Injection
  <1>4. Listing(T) \in [1 .. Cardinality(T) -> T]
    BY <1>3 DEF Listing, Orders
  <1> QED
    BY <1>1, <1>4

LEMMA ListingAll ==
  ASSUME NEW T, IsFiniteSet(T)
  PROVE  \A x \in T : \E i \in 1 .. Cardinality(T) : Listing(T)[i] = x
  <1>1. Cardinality(T) \in Nat /\ ExistsBijection(1 .. Cardinality(T), T)
    BY FS_CardinalityType
  <1>2. PICK f : f \in Bijection(1 .. Cardinality(T), T)
    BY <1>1 DEF ExistsBijection
  <1>3. f \in Orders(T)
    BY <1>2 DEF Bijection, Surjection, Injection, Orders
  <1>4. Listing(T) \in Orders(T)
    BY <1>3 DEF Listing
  <1> QED
    BY <1>4 DEF Orders

LEMMA Finite ==
  /\ \A T \in SUBSET DoIds : IsFiniteSet(T)
  /\ \A T \in SUBSET Zones : IsFiniteSet(T)
  BY SetsAssumption, FS_Subset

-------------------------------------------------------------------------------
(* Messages                                                                *)

(* What a client may send.                                                 *)
LEMMA ClientMessages ==
  ASSUME NEW c \in Clients
  PROVE  /\ \A d \in Own(c), z \in Zones, v \in Nat : Generate(d, z, v) \in FromClient(c)
         /\ \A d \in Own(c), v \in Nat : Update(d, v) \in FromClient(c)
         /\ \A d \in Own(c), z \in Zones : SetZone(d, z) \in FromClient(c)
         /\ \A d \in Own(c) : Delete(d) \in FromClient(c)
         /\ \A Z \in SUBSET Zones : Interest(Z) \in FromClient(c)
         /\ Disconnect \in FromClient(c)
  BY DEF FromClient, Generate, Update, SetZone, Delete, Interest

(* What a message of a client is.                                          *)
LEMMA ClientMessageKinds ==
  ASSUME NEW c \in Clients, NEW m \in FromClient(c)
  PROVE  /\ m.type = "generate" => m.doId \in Own(c) /\ m.zone \in Zones /\ m.value \in Nat
                                   /\ m = Generate(m.doId, m.zone, m.value)
         /\ m.type = "update" => m.doId \in Own(c) /\ m.value \in Nat /\ m = Update(m.doId, m.value)
         /\ m.type = "setZone" => m.doId \in Own(c) /\ m.zone \in Zones
         /\ m.type = "delete" => m.doId \in Own(c) /\ m = Delete(m.doId)
         /\ m.type = "interest" => m.zones \in SUBSET Zones
  BY DEF FromClient, Generate, Update, Delete, Disconnect

(* What the server may send.                                               *)
LEMMA ServerMessages ==
  ASSUME NEW c \in Clients
  PROVE  /\ \A d \in DoIds, z \in Zones, v \in Nat : Generate(d, z, v) \in Fit(c)
         /\ \A d \in DoIds, v \in Nat : Update(d, v) \in Fit(c)
         /\ \A d \in DoIds : Delete(d) \in Fit(c)
         /\ \A S \in SUBSET DoIds : S \cap Own(c) = {} => Disable(S) \in Fit(c)
         /\ \A z \in Zones : Request(z) \in Fit(c)
         /\ SetDoIdrange \in Fit(c)
  <1>1. /\ \A d \in DoIds, z \in Zones, v \in Nat :
             Generate(d, z, v) \in ForClient(c) /\ Generate(d, z, v).type = "generate"
        /\ \A d \in DoIds, v \in Nat : Update(d, v) \in ForClient(c) /\ Update(d, v).type = "update"
        /\ \A d \in DoIds : Delete(d) \in ForClient(c) /\ Delete(d).type = "delete"
    BY DEF ForClient, Generate, Update, Delete
  <1>2. /\ \A S \in SUBSET DoIds : Disable(S) \in ForClient(c) /\ Disable(S).doIds = S
        /\ \A z \in Zones : Request(z) \in ForClient(c) /\ Request(z).type = "request"
        /\ SetDoIdrange \in ForClient(c) /\ SetDoIdrange.type = "range"
    BY DEF ForClient, Disable, Request, SetDoIdrange
  <1> QED
    BY <1>1, <1>2 DEF Fit

(* What a message of the server is.                                        *)
LEMMA ServerMessageKinds ==
  ASSUME NEW c \in Clients, NEW m \in Fit(c)
  PROVE  /\ m.type = "generate" => m.doId \in DoIds /\ m.zone \in Zones /\ m.value \in Nat
         /\ m.type = "update" => m.doId \in DoIds /\ m.value \in Nat
         /\ m.type = "delete" => m.doId \in DoIds
         /\ m.type = "request" => m.zone \in Zones
  <1>1. m \in ForClient(c)
    BY DEF Fit
  <1>2. \/ m \in [type : {"generate"}, doId : DoIds, zone : Zones, value : Nat]
        \/ m \in [type : {"update"}, doId : DoIds, value : Nat]
        \/ m \in [type : {"delete"}, doId : DoIds]
        \/ m \in [type : {"disable"}, doIds : SUBSET DoIds]
        \/ m \in [type : {"request"}, zone : Zones]
        \/ m = SetDoIdrange
    BY <1>1 DEF ForClient
  <1> QED
    BY <1>2 DEF SetDoIdrange

(* The ranges of two numbers lie apart.                                    *)
LEMMA RangesApart ==
  ASSUME NEW a \in Nat, NEW b \in Nat, NEW r \in Nat, a < b
  PROVE  a * r + r <= b * r
  <1>1. PICK k \in Nat : b = a + 1 + k
    <2>1. b - a - 1 \in Nat /\ b = a + 1 + (b - a - 1)
      OBVIOUS
    <2> QED
      BY <2>1
  <1>2. k * r \in Nat /\ b * r = a * r + r + k * r
    BY <1>1
  <1> QED
    BY <1>2

(* Ids belong to one client each.                                          *)
LEMMA Owned == \A c \in Clients : Own(c) \subseteq DoIds /\ \A p \in Clients : p # c => Own(c) \cap Own(p) = {}
  <1>1. ASSUME NEW c \in Clients, NEW p \in Clients, NEW d \in DoIds,
               IsLocalId(c, d), IsLocalId(p, d), Number[c] < Number[p]
        PROVE  FALSE
    <2>1. PICK a \in Nat, b \in Nat, r \in Nat :
            a = Number[c] /\ b = Number[p] /\ r = DoIdRange /\ a < b
      BY <1>1, IdsAssumption
    <2>2. PICK x \in Nat, y \in Nat : x = a * r /\ y = b * r /\ x + r <= y
      BY <2>1, RangesApart
    <2>3. d < x + 1 + r /\ y + 1 <= d /\ d \in Nat
      BY <1>1, <2>1, <2>2, IdsAssumption DEF IsLocalId, DoIdBase
    <2> QED
      BY <2>2, <2>3
  <1>2. ASSUME NEW c \in Clients, NEW p \in Clients, p # c PROVE Own(c) \cap Own(p) = {}
    <2>1. Number[c] \in Nat /\ Number[p] \in Nat /\ Number[c] # Number[p]
      BY <1>2, IdsAssumption
    <2>2. Number[c] < Number[p] \/ Number[p] < Number[c]
      BY <2>1
    <2> QED
      BY <1>1, <2>2 DEF Own
  <1> QED
    BY <1>2 DEF Own

-------------------------------------------------------------------------------
(* The server                                                              *)

LEMMA Posted ==
  ASSUME Told, NEW mail, \A p \in Clients : mail[p] \in Seq(Fit(p)), Post(mail)
  PROVE  Told'
  <1>1. toClient' = [p \in Clients |-> IF p \in online THEN toClient[p] \o mail[p] ELSE <<>>]
    BY DEF Post
  <1>2. ASSUME NEW p \in Clients PROVE toClient'[p] \in Seq(Fit(p))
    <2>1. toClient[p] \o mail[p] \in Seq(Fit(p))
      BY Joined DEF Told
    <2> QED
      BY <1>1, <2>1, EmptyMail
  <1> QED
    BY <1>1, <1>2 DEF Told

(* The requests for generates that updateClientInterestZones sends.        *)
LEMMA RequestsSent ==
  ASSUME NEW p \in Clients, NEW zs \in SUBSET Zones, NEW list \in Orders(zs)
  PROVE  [i \in 1 .. Cardinality(zs) |-> Request(list[i])] \in Seq(Fit(p))
  <1>1. /\ Cardinality(zs) \in Nat
        /\ \A i \in 1 .. Cardinality(zs) : list[i] \in zs
    BY Finite, FS_CardinalityType DEF Orders
  <1>2. \A i \in 1 .. Cardinality(zs) : Request(list[i]) \in Fit(p)
    BY <1>1, ServerMessages
  <1>3. [i \in 1 .. Cardinality(zs) |-> Request(list[i])] \in [1 .. Cardinality(zs) -> Fit(p)]
    BY <1>2
  <1> QED
    BY <1>1, <1>3, SeqOf

(* The zones of one client are computed again, when none but its own       *)
(* objects changed.                                                        *)
LEMMA ZonesComputed ==
  ASSUME Books, Told, NEW c \in Clients, c \in connected, UNCHANGED connected,
         NEW objs \in [DoIds -> Zones \cup {NoZone}],
         \A d \in DoIds : d \notin Own(c) => objs[d] = objects[d],
         NEW asked \in SUBSET Zones, NEW first, NEW last,
         \A p \in Clients : first[p] \in Seq(Fit(p)) /\ last[p] \in Seq(Fit(p)),
         UpdateClientInterestZones(c, objs, asked, first, last)
  PROVE  Books' /\ Told'
  <1> DEFINE new == Zoned(c, objs, asked)
             added == new \ current[c]
             removed == current[c] \ new
             gone == {d \in DoIds : objs[d] \in removed}
             shown(p) == {z \in added : p \in listeners[z] \ {c}}
             asks(p, list) == [i \in 1 .. Cardinality(shown(p)) |-> Request(list[i])]
             mail(lists) == [p \in Clients |-> first[p] \o asks(p, lists[p])
                                               \o If(p = c /\ gone # {}, Disable(gone)) \o last[p]]
  <1>1. /\ objects' = objs
        /\ explicit' = [explicit EXCEPT ![c] = asked]
        /\ current' = [current EXCEPT ![c] = new]
        /\ listeners' = [z \in Zones |-> IF z \in added THEN listeners[z] \cup {c}
                                         ELSE IF z \in removed THEN listeners[z] \ {c}
                                         ELSE listeners[z]]
    BY DEF UpdateClientInterestZones
  <1>9. PICK lists : (\A p \in Clients : lists[p] \in Orders(shown(p))) /\ Post(mail(lists))
    BY DEF UpdateClientInterestZones
  <1>2. ServerTypes /\ TablesAgree
    BY DEF Books
  <1>3. new \in SUBSET Zones /\ current[c] \in SUBSET Zones
    BY <1>2, Owned DEF Zoned, ServerTypes
  <1>4. gone \in SUBSET DoIds /\ gone \cap Own(c) = {}
    <2>1. ASSUME NEW d \in Own(c), objs[d] \in current[c] PROVE objs[d] \in new
      BY <1>3, <2>1, SetsAssumption DEF Zoned
    <2> QED
      BY <2>1
  <1>5. ASSUME NEW p \in Clients PROVE mail(lists)[p] \in Seq(Fit(p))
    <2>1. shown(p) \in SUBSET Zones /\ lists[p] \in Orders(shown(p))
      BY <1>3, <1>9
    <2>2. asks(p, lists[p]) \in Seq(Fit(p))
      <3> HIDE DEF shown
      <3> QED
        BY <2>1, RequestsSent
    <2>3. If(p = c /\ gone # {}, Disable(gone)) \in Seq(Fit(p))
      <3>1. p = c /\ gone # {} => Disable(gone) \in Fit(p)
        BY <1>4, ServerMessages
      <3> HIDE DEF gone
      <3> QED
        BY <3>1, IfMessage
    <2>4. mail(lists)[p] = first[p] \o asks(p, lists[p]) \o If(p = c /\ gone # {}, Disable(gone)) \o last[p]
      OBVIOUS
    <2> HIDE DEF mail, asks, gone
    <2>5. first[p] \o asks(p, lists[p]) \in Seq(Fit(p))
      BY <2>2, Joined
    <2>6. first[p] \o asks(p, lists[p]) \o If(p = c /\ gone # {}, Disable(gone)) \in Seq(Fit(p))
      BY <2>3, <2>5, Joined
    <2> QED
      BY <2>4, <2>6, Joined
  <1>6. Told'
    <2> HIDE DEF mail
    <2> QED
      BY <1>5, <1>9, Posted
  <1> HIDE DEF new
  <1>7. ServerTypes'
    BY <1>1, <1>2, <1>3 DEF ServerTypes
  <1>8. TablesAgree'
    <2>1. ASSUME NEW p \in Clients
          PROVE  /\ \A z \in Zones : p \in listeners'[z] <=> z \in current'[p]
                 /\ current'[p] = Zoned(p, objects', explicit'[p])
                 /\ p \notin connected' => current'[p] = {}
      <3>1. CASE p = c
        <4>1. current'[c] = new /\ explicit'[c] = asked
          BY <1>1, <1>2 DEF ServerTypes
        <4>2. \A z \in Zones : c \in listeners'[z] <=> z \in new
          BY <1>1, <1>2 DEF TablesAgree
        <4> QED
          BY <1>1, <3>1, <4>1, <4>2 DEF new
      <3>2. CASE p # c
        <4>1. current'[p] = current[p] /\ explicit'[p] = explicit[p]
          BY <1>1, <1>2, <3>2 DEF ServerTypes
        <4>2. \A z \in Zones : p \in listeners'[z] <=> p \in listeners[z]
          BY <1>1, <3>2
        <4>3. Own(p) \subseteq DoIds /\ \A d \in Own(p) : objects'[d] = objects[d]
          BY <1>1, <3>2, Owned
        <4>4. Zoned(p, objects', explicit'[p]) = Zoned(p, objects, explicit[p])
          BY <4>1, <4>3 DEF Zoned
        <4> QED
          BY <1>2, <4>1, <4>2, <4>4 DEF TablesAgree
      <3> QED
        BY <3>1, <3>2
    <2> QED
      BY <2>1 DEF TablesAgree, Zoned, Own, IsLocalId, DoIdBase
  <1> QED
    BY <1>6, <1>7, <1>8 DEF Books

(* Messages that are passed on.                                            *)
LEMMA NothingSent == \A p \in Clients : Nothing[p] \in Seq(Fit(p))
  BY EmptyMail DEF Nothing

LEMMA PassedOn ==
  ASSUME NEW z, NEW m, NEW c, \A p \in Clients : m \in Fit(p)
  PROVE  \A p \in Clients : ToZone(z, m)[p] \in Seq(Fit(p)) /\ ToZoneExcept(z, m, c)[p] \in Seq(Fit(p))
  <1>1. ASSUME NEW p \in Clients, NEW here \in BOOLEAN PROVE If(here, m) \in Seq(Fit(p))
    BY IfMessage
  <1>2. \A p \in Clients : (p \in listeners[z]) \in BOOLEAN /\ (p \in listeners[z] \ {c}) \in BOOLEAN
    OBVIOUS
  <1> QED
    BY <1>1, <1>2 DEF ToZone, ToZoneExcept

(* setObjectZone.                                                          *)
LEMMA ObjectMoved ==
  ASSUME Books, Told, NEW c \in Clients, c \in connected, UNCHANGED connected,
         NEW d \in Own(c), NEW z \in Zones, NEW last, \A p \in Clients : last[p] \in Seq(Fit(p)),
         Moved(c, d, z, last)
  PROVE  Books' /\ Told'
  <1>0. ServerTypes /\ d \in DoIds
    BY Owned DEF Books
  <1>1. CASE objects[d] = z
    <2>1. Post(last) /\ UNCHANGED <<connected, explicit, current, listeners, objects>>
      BY <1>1 DEF Moved
    <2>2. Books'
      BY <2>1 DEF Books, ServerTypes, TablesAgree, Zoned, Own, IsLocalId, DoIdBase
    <2> QED
      BY <2>1, <2>2, Posted
  <1>2. CASE objects[d] # z
    <2> DEFINE lost(p) == p \in listeners[objects[d]] \ {c} /\ z \notin current[p]
               objs == [objects EXCEPT ![d] = z]
               then == [p \in Clients |-> If(lost(p), Disable({d})) \o last[p]]
    <2>1. UpdateClientInterestZones(c, objs, explicit[c], Nothing, then)
      BY <1>2 DEF Moved
    <2>2. ASSUME NEW p \in Clients PROVE then[p] \in Seq(Fit(p))
      <3>1. ASSUME lost(p) PROVE Disable({d}) \in Fit(p)
        <4>1. p # c
          BY <3>1
        <4>2. {d} \in SUBSET DoIds /\ {d} \cap Own(p) = {}
          BY <1>0, <4>1, Owned
        <4> QED
          BY <4>2, ServerMessages
      <3>2. lost(p) \in BOOLEAN
        OBVIOUS
      <3> HIDE DEF lost
      <3>3. If(lost(p), Disable({d})) \in Seq(Fit(p))
        BY <3>1, <3>2, IfMessage
      <3>4. If(lost(p), Disable({d})) \o last[p] \in Seq(Fit(p))
        BY <3>3, Joined
      <3> QED
        BY <3>4
    <2>3. /\ objs \in [DoIds -> Zones \cup {NoZone}]
          /\ \A e \in DoIds : e \notin Own(c) => objs[e] = objects[e]
          /\ explicit[c] \in SUBSET Zones
      BY <1>0 DEF ServerTypes
    <2> HIDE DEF objs, then
    <2> QED
      BY <2>1, <2>2, <2>3, NothingSent, ZonesComputed
  <1> QED
    BY <1>1, <1>2

(* A client is gone.                                                       *)
LEMMA ClientGone ==
  ASSUME Books, Told, NEW c \in Clients, HandleClientDisconnect(c)
  PROVE  Books' /\ Told'
  <1> DEFINE mine == {d \in Own(c) : Exists(d)}
             rest == [z \in Zones |-> listeners[z] \ {c}]
             told(p) == {d \in mine : p \in rest[objects[d]]}
             mail == [p \in Clients |-> [i \in 1 .. Cardinality(told(p)) |-> Delete(Listing(told(p))[i])]]
  <1>1. /\ connected' = connected \ {c}
        /\ explicit' = [explicit EXCEPT ![c] = {}]
        /\ current' = [current EXCEPT ![c] = {}]
        /\ listeners' = rest
        /\ objects' = [d \in DoIds |-> IF d \in mine THEN NoZone ELSE objects[d]]
        /\ Post(mail)
    BY DEF HandleClientDisconnect
  <1>2. ServerTypes /\ TablesAgree
    BY DEF Books
  <1>3. ASSUME NEW p \in Clients PROVE mail[p] \in Seq(Fit(p))
    <2>1. told(p) \in SUBSET DoIds
      BY Owned
    <2> HIDE DEF told
    <2>2. /\ Cardinality(told(p)) \in Nat
          /\ \A i \in 1 .. Cardinality(told(p)) : Listing(told(p))[i] \in told(p)
      BY <2>1, Finite, ListingOf
    <2>3. \A i \in 1 .. Cardinality(told(p)) : Delete(Listing(told(p))[i]) \in Fit(p)
      BY <2>1, <2>2, ServerMessages
    <2>4. [i \in 1 .. Cardinality(told(p)) |-> Delete(Listing(told(p))[i])] \in [1 .. Cardinality(told(p)) -> Fit(p)]
      BY <2>3
    <2> QED
      BY <2>2, <2>4, SeqOf
  <1>4. Told'
    <2> HIDE DEF mail
    <2> QED
      BY <1>1, <1>3, Posted
  <1>5. ServerTypes'
    BY <1>1, <1>2 DEF ServerTypes
  <1>6. ASSUME NEW p \in Clients
        PROVE  /\ \A z \in Zones : p \in listeners'[z] <=> z \in current'[p]
               /\ current'[p] = Zoned(p, objects', explicit'[p])
               /\ p \notin connected' => current'[p] = {}
    <2>1. CASE p = c
      <3>1. current'[c] = {} /\ explicit'[c] = {} /\ \A z \in Zones : c \notin listeners'[z]
        BY <1>1, <1>2 DEF ServerTypes
      <3>2. \A d \in Own(c) : objects'[d] = NoZone
        BY <1>1, Owned DEF Exists
      <3>3. Zoned(c, objects', explicit'[c]) = {}
        BY <3>1, <3>2 DEF Zoned
      <3> QED
        BY <2>1, <3>1, <3>3
    <2>2. CASE p # c
      <3>1. current'[p] = current[p] /\ explicit'[p] = explicit[p]
        BY <1>1, <1>2, <2>2 DEF ServerTypes
      <3>2. \A z \in Zones : p \in listeners'[z] <=> p \in listeners[z]
        BY <1>1, <2>2
      <3>3. \A d \in Own(p) : objects'[d] = objects[d]
        BY <1>1, <2>2, Owned
      <3>4. Zoned(p, objects', explicit'[p]) = Zoned(p, objects, explicit[p])
        BY <3>1, <3>3 DEF Zoned
      <3> QED
        BY <1>1, <1>2, <2>2, <3>1, <3>2, <3>4 DEF TablesAgree
    <2> QED
      BY <2>1, <2>2
  <1>7. TablesAgree'
    BY <1>6 DEF TablesAgree, Zoned, Own, IsLocalId, DoIdBase
  <1> QED
    BY <1>4, <1>5, <1>7 DEF Books

(* A message is handled.                                                   *)
LEMMA Handled ==
  ASSUME Books, Told, Said, NEW c \in Clients, ServerReceive(c)
  PROVE  Books' /\ Told'
  <1>1. PICK m \in FromClient(c) : m = Head(toServer[c])
    BY TakenFirst DEF Said, ServerReceive
  <1>2. /\ c \in connected
        /\ \/ HandleClientCreateObject(c, m)
           \/ HandleClientObjectUpdateField(c, m)
           \/ HandleClientObjectSetZone(c, m)
           \/ HandleClientDeleteObject(c, m)
           \/ HandleClientSetInterest(c, m)
           \/ HandleClientDisconnect(c)
    BY <1>1 DEF ServerReceive
  <1>3. ServerTypes /\ Own(c) \subseteq DoIds /\ explicit[c] \in SUBSET Zones
    BY Owned DEF Books, ServerTypes
  <1>4. ASSUME UNCHANGED server PROVE Books'
    BY <1>4 DEF server, Books, ServerTypes, TablesAgree, Zoned, Own, IsLocalId, DoIdBase
  <1>5. ASSUME NEW d \in Own(c), NEW z \in Zones \cup {NoZone}
        PROVE  /\ [objects EXCEPT ![d] = z] \in [DoIds -> Zones \cup {NoZone}]
               /\ \A e \in DoIds : e \notin Own(c) => [objects EXCEPT ![d] = z][e] = objects[e]
    BY <1>3 DEF ServerTypes
  <1>6. CASE HandleClientCreateObject(c, m)
    <2>1. /\ m.doId \in Own(c) /\ m.zone \in Zones
          /\ \A p \in Clients : m \in Fit(p)
      BY <1>3, <1>6, ClientMessageKinds, ServerMessages DEF HandleClientCreateObject
    <2>2. PICK relay : /\ relay = ToZoneExcept(m.zone, m, c)
                       /\ \A p \in Clients : relay[p] \in Seq(Fit(p))
      BY <2>1, PassedOn
    <2>3. /\ UNCHANGED connected
          /\ \/ UNCHANGED <<explicit, current, listeners, objects, toClient>>
             \/ Moved(c, m.doId, m.zone, relay)
             \/ UpdateClientInterestZones(c, [objects EXCEPT ![m.doId] = m.zone], explicit[c], Nothing, relay)
      BY <1>6, <2>2 DEF HandleClientCreateObject
    <2>4. CASE Moved(c, m.doId, m.zone, relay)
      BY <1>2, <2>1, <2>2, <2>3, <2>4, ObjectMoved
    <2>5. CASE UpdateClientInterestZones(c, [objects EXCEPT ![m.doId] = m.zone], explicit[c], Nothing, relay)
      <3>1. PICK objs : objs = [objects EXCEPT ![m.doId] = m.zone]
        OBVIOUS
      <3>2. /\ objs \in [DoIds -> Zones \cup {NoZone}]
            /\ \A e \in DoIds : e \notin Own(c) => objs[e] = objects[e]
        BY <1>5, <2>1, <3>1
      <3>3. UpdateClientInterestZones(c, objs, explicit[c], Nothing, relay)
        BY <2>5, <3>1
      <3> QED
        BY <1>2, <1>3, <2>2, <2>3, <3>2, <3>3, NothingSent, ZonesComputed
    <2>6. CASE UNCHANGED <<explicit, current, listeners, objects, toClient>>
      <3>1. UNCHANGED server /\ UNCHANGED toClient
        BY <2>3, <2>6 DEF server
      <3> QED
        BY <1>4, <3>1 DEF Told
    <2> QED
      BY <2>3, <2>4, <2>5, <2>6
  <1>7. CASE HandleClientObjectUpdateField(c, m)
    <2>1. \A p \in Clients : m \in Fit(p)
      BY <1>3, <1>7, ClientMessageKinds, ServerMessages DEF HandleClientObjectUpdateField
    <2>2. Told'
      <3>1. CASE UNCHANGED toClient
        BY <3>1 DEF Told
      <3>2. CASE Post(ToZoneExcept(objects[m.doId], m, c))
        <4>1. \A p \in Clients : ToZoneExcept(objects[m.doId], m, c)[p] \in Seq(Fit(p))
          BY <2>1, PassedOn
        <4> QED
          BY <3>2, <4>1, Posted
      <3> QED
        BY <1>7, <3>1, <3>2 DEF HandleClientObjectUpdateField
    <2> QED
      BY <1>4, <1>7, <2>2 DEF HandleClientObjectUpdateField
  <1>8. CASE HandleClientObjectSetZone(c, m)
    <2>1. m.doId \in Own(c) /\ m.zone \in Zones
      BY <1>8, ClientMessageKinds DEF HandleClientObjectSetZone
    <2>2. CASE Exists(m.doId)
      <3>1. Moved(c, m.doId, m.zone, Nothing) /\ UNCHANGED connected
        BY <1>8, <2>2 DEF HandleClientObjectSetZone
      <3> QED
        BY <1>2, <2>1, <3>1, NothingSent, ObjectMoved
    <2>3. CASE ~Exists(m.doId)
      <3>1. UNCHANGED server /\ UNCHANGED toClient
        BY <1>8, <2>3 DEF HandleClientObjectSetZone, server
      <3> QED
        BY <1>4, <3>1 DEF Told
    <2> QED
      BY <2>2, <2>3
  <1>9. CASE HandleClientDeleteObject(c, m)
    <2>1. m.doId \in Own(c) /\ \A p \in Clients : m \in Fit(p)
      BY <1>3, <1>9, ClientMessageKinds, ServerMessages DEF HandleClientDeleteObject
    <2>2. CASE Exists(m.doId)
      <3>1. PICK objs, relay : /\ objs = [objects EXCEPT ![m.doId] = NoZone]
                               /\ relay = ToZone(objects[m.doId], m)
        OBVIOUS
      <3>2. UpdateClientInterestZones(c, objs, explicit[c], relay, Nothing) /\ UNCHANGED connected
        BY <1>9, <2>2, <3>1 DEF HandleClientDeleteObject
      <3>3. /\ objs \in [DoIds -> Zones \cup {NoZone}]
            /\ \A e \in DoIds : e \notin Own(c) => objs[e] = objects[e]
        BY <1>5, <2>1, <3>1
      <3>4. \A p \in Clients : relay[p] \in Seq(Fit(p))
        BY <2>1, <3>1, PassedOn
      <3> QED
        BY <1>2, <1>3, <3>2, <3>3, <3>4, NothingSent, ZonesComputed
    <2>3. CASE ~Exists(m.doId)
      <3>1. UNCHANGED server /\ UNCHANGED toClient
        BY <1>9, <2>3 DEF HandleClientDeleteObject, server
      <3> QED
        BY <1>4, <3>1 DEF Told
    <2> QED
      BY <2>2, <2>3
  <1>10. CASE HandleClientSetInterest(c, m)
    <2>1. /\ m.zones \in SUBSET Zones /\ UNCHANGED connected
          /\ UpdateClientInterestZones(c, objects, m.zones, Nothing, Nothing)
      BY <1>10, ClientMessageKinds DEF HandleClientSetInterest
    <2>2. objects \in [DoIds -> Zones \cup {NoZone}]
      BY <1>3 DEF ServerTypes
    <2> QED
      BY <1>2, <2>1, <2>2, NothingSent, ZonesComputed
  <1>11. CASE HandleClientDisconnect(c)
    BY <1>11, ClientGone
  <1> QED
    BY <1>2, <1>6, <1>7, <1>8, <1>9, <1>10, <1>11

-------------------------------------------------------------------------------
(* The clients                                                             *)

LEMMA Sends ==
  ASSUME Said, NEW c \in Clients, NEW ms \in Seq(FromClient(c)), Send(c, ms)
  PROVE  Said'
  <1>1. toServer' = [toServer EXCEPT ![c] = toServer[c] \o ms]
    BY DEF Send
  <1>2. toServer[c] \o ms \in Seq(FromClient(c))
    BY Joined DEF Said
  <1> QED
    BY <1>1, <1>2 DEF Said

LEMMA TwoMessages == ASSUME NEW S, NEW m \in S, NEW n \in S PROVE <<m, n>> \in Seq(S)
  OBVIOUS

(* An object takes a value.                                                *)
LEMMA ValueTaken ==
  ASSUME ClientTypes, NEW c \in Clients, NEW d \in DoIds, NEW v \in Nat
  PROVE  [view EXCEPT ![c][d].value = v] \in [Clients -> [DoIds -> [zone : Zones \cup {NoZone}, value : Nat]]]
  <1>1. view[c] \in [DoIds -> [zone : Zones \cup {NoZone}, value : Nat]]
    BY DEF ClientTypes
  <1>2. [view[c][d] EXCEPT !.value = v] \in [zone : Zones \cup {NoZone}, value : Nat]
    BY <1>1
  <1>3. PICK r \in [zone : Zones \cup {NoZone}, value : Nat] : r = [view[c][d] EXCEPT !.value = v]
    BY <1>2
  <1>4. PICK w \in [DoIds -> [zone : Zones \cup {NoZone}, value : Nat]] : w = [view[c] EXCEPT ![d] = r]
    BY <1>1
  <1>5. [view EXCEPT ![c][d].value = v] = [view EXCEPT ![c] = w]
    BY <1>3, <1>4
  <1> QED
    BY <1>4, <1>5 DEF ClientTypes

(* What the game does.                                                     *)
LEMMA GameKeeps ==
  ASSUME ClientTypes, Said, NEW c \in Clients,
         \/ \E d \in DoIds : SetField(c, d) \/ SendDeleteMsg(c, d)
         \/ \E d \in DoIds, z \in Zones : CreateDistributedObject(c, d, z) \/ SetObjectZone(c, d, z)
         \/ \E Z \in SUBSET Zones : SetInterestZones(c, Z)
  PROVE  ClientTypes' /\ Said' /\ UNCHANGED <<server, toClient>>
  <1>1. Op(c)
    BY DEF CreateDistributedObject, SetField, SetObjectZone, SendDeleteMsg, SetInterestZones
  <1>2. ops' \in Nat /\ UNCHANGED <<server, toClient, online, left>>
    BY <1>1 DEF Op, ClientTypes
  <1>3. ASSUME NEW d \in DoIds, NEW z \in Zones, CreateDistributedObject(c, d, z)
        PROVE  ClientTypes' /\ Said' /\ UNCHANGED <<server, toClient>>
    <2>1. view' \in [Clients -> [DoIds -> [zone : Zones \cup {NoZone}, value : Nat]]]
      BY <1>2, <1>3 DEF CreateDistributedObject, ClientTypes
    <2>2. free' \subseteq DoIds /\ deleting' = deleting
      BY <1>3 DEF CreateDistributedObject, ClientTypes
    <2>3. Generate(d, z, ops') \in FromClient(c)
      BY <1>2, <1>3, ClientMessages DEF CreateDistributedObject
    <2>4. Said'
      BY <1>3, <2>3, OneMessage, Sends DEF CreateDistributedObject
    <2> QED
      BY <1>2, <2>1, <2>2, <2>4 DEF ClientTypes
  <1>4. ASSUME NEW d \in DoIds, SetField(c, d)
        PROVE  ClientTypes' /\ Said' /\ UNCHANGED <<server, toClient>>
    <2>1. view' \in [Clients -> [DoIds -> [zone : Zones \cup {NoZone}, value : Nat]]]
      BY <1>2, <1>4, ValueTaken DEF SetField
    <2>2. d \in Own(c)
      BY <1>4 DEF SetField, InPlay
    <2>3. Update(d, ops') \in FromClient(c)
      BY <1>2, <2>2, ClientMessages
    <2>4. Said'
      BY <1>4, <2>3, OneMessage, Sends DEF SetField
    <2> QED
      BY <1>2, <1>4, <2>1, <2>4 DEF ClientTypes, SetField
  <1>5. ASSUME NEW d \in DoIds, NEW z \in Zones, SetObjectZone(c, d, z)
        PROVE  ClientTypes' /\ Said' /\ UNCHANGED <<server, toClient>>
    <2>1. view' \in [Clients -> [DoIds -> [zone : Zones \cup {NoZone}, value : Nat]]]
      BY <1>5 DEF SetObjectZone, ClientTypes
    <2>2. d \in Own(c) /\ view[c][d].value \in Nat
      BY <1>5 DEF SetObjectZone, InPlay, ClientTypes
    <2>3. SetZone(d, z) \in FromClient(c) /\ Generate(d, z, view[c][d].value) \in FromClient(c)
      BY <2>2, ClientMessages
    <2>4. <<SetZone(d, z), Generate(d, z, view[c][d].value)>> \in Seq(FromClient(c))
      BY <2>3, TwoMessages
    <2>5. Said'
      BY <1>5, <2>4, Sends DEF SetObjectZone
    <2> QED
      BY <1>2, <1>5, <2>1, <2>5 DEF ClientTypes, SetObjectZone
  <1>6. ASSUME NEW d \in DoIds, SendDeleteMsg(c, d)
        PROVE  ClientTypes' /\ Said' /\ UNCHANGED <<server, toClient>>
    <2>1. Delete(d) \in FromClient(c)
      BY <1>6, ClientMessages DEF SendDeleteMsg, InPlay
    <2>2. Said'
      BY <1>6, <2>1, OneMessage, Sends DEF SendDeleteMsg
    <2> QED
      BY <1>2, <1>6, <2>2 DEF ClientTypes, SendDeleteMsg
  <1>7. ASSUME NEW Z \in SUBSET Zones, SetInterestZones(c, Z)
        PROVE  ClientTypes' /\ Said' /\ UNCHANGED <<server, toClient>>
    <2>1. Interest(Z) \in FromClient(c)
      BY ClientMessages
    <2>2. Said'
      BY <1>7, <2>1, OneMessage, Sends DEF SetInterestZones
    <2> QED
      BY <1>2, <1>7, <2>2 DEF ClientTypes, SetInterestZones
  <1> QED
    BY <1>3, <1>4, <1>5, <1>6, <1>7

(* A client receives.                                                      *)
LEMMA ReceiptKeeps ==
  ASSUME ClientTypes, Said, Told, NEW c \in Clients, ClientReceive(c)
  PROVE  ClientTypes' /\ Said' /\ Told' /\ UNCHANGED server
  <1>1. PICK m \in Fit(c) : m = Head(toClient[c])
    BY TakenFirst DEF Told, ClientReceive
  <1>2. /\ UNCHANGED <<server, online, ops, left>>
        /\ toClient' = [toClient EXCEPT ![c] = Tail(@)]
        /\ \/ HandleGenerate(c, m)
           \/ HandleUpdateField(c, m)
           \/ HandleDisable(c, m)
           \/ HandleDelete(c, m)
           \/ HandleRequestGenerates(c, m)
           \/ HandleSetDoIdrange(c, m)
    BY <1>1 DEF ClientReceive
  <1>3. Told'
    <2>1. Tail(toClient[c]) \in Seq(Fit(c))
      BY TakenFirst DEF Told, ClientReceive
    <2> QED
      BY <1>2, <2>1 DEF Told
  <1>4. UNCHANGED toServer => Said'
    BY DEF Said
  <1>5. CASE HandleGenerate(c, m)
    <2>1. m.doId \in DoIds /\ m.zone \in Zones /\ m.value \in Nat
      BY <1>5, ServerMessageKinds DEF HandleGenerate
    <2>2. view' \in [Clients -> [DoIds -> [zone : Zones \cup {NoZone}, value : Nat]]]
      <3>1. view[c][m.doId] \in [zone : Zones \cup {NoZone}, value : Nat]
        BY <2>1 DEF ClientTypes
      <3>2. [view[c][m.doId] EXCEPT !.value = m.value] \in [zone : Zones \cup {NoZone}, value : Nat]
        BY <2>1, <3>1
      <3>3. [zone |-> m.zone, value |-> m.value] \in [zone : Zones \cup {NoZone}, value : Nat]
        BY <2>1
      <3> QED
        BY <1>5, <2>1, <3>2, <3>3 DEF HandleGenerate, ClientTypes
    <2> QED
      BY <1>2, <1>3, <1>4, <1>5, <2>2 DEF ClientTypes, HandleGenerate
  <1>6. CASE HandleUpdateField(c, m)
    <2>1. m.doId \in DoIds /\ m.value \in Nat
      BY <1>6, ServerMessageKinds DEF HandleUpdateField
    <2>2. view' \in [Clients -> [DoIds -> [zone : Zones \cup {NoZone}, value : Nat]]]
      <3>1. [view EXCEPT ![c][m.doId].value = m.value]
              \in [Clients -> [DoIds -> [zone : Zones \cup {NoZone}, value : Nat]]]
        BY <2>1, ValueTaken
      <3> QED
        BY <1>6, <3>1 DEF HandleUpdateField, ClientTypes
    <2> QED
      BY <1>2, <1>3, <1>4, <1>6, <2>2 DEF ClientTypes, HandleUpdateField
  <1>7. CASE HandleDisable(c, m)
    <2>1. view' \in [Clients -> [DoIds -> [zone : Zones \cup {NoZone}, value : Nat]]]
      BY <1>7 DEF HandleDisable, ClientTypes, Absent
    <2> QED
      BY <1>2, <1>3, <1>4, <1>7, <2>1 DEF ClientTypes, HandleDisable
  <1>8. CASE HandleDelete(c, m)
    <2>1. m.doId \in DoIds
      BY <1>8, ServerMessageKinds DEF HandleDelete
    <2>2. view' \in [Clients -> [DoIds -> [zone : Zones \cup {NoZone}, value : Nat]]]
      BY <1>8, <2>1 DEF HandleDelete, ClientTypes, Absent
    <2>3. free' \subseteq DoIds /\ deleting' \subseteq DoIds
      BY <1>8, <2>1 DEF HandleDelete, ClientTypes
    <2> QED
      BY <1>2, <1>3, <1>4, <1>8, <2>2, <2>3 DEF ClientTypes, HandleDelete
  <1>9. CASE HandleRequestGenerates(c, m)
    <2> DEFINE here == {d \in Own(c) : view[c][d].zone = m.zone}
               answer == [i \in 1 .. Cardinality(here) |->
                           LET d == Listing(here)[i] IN Generate(d, m.zone, view[c][d].value)]
    <2>1. m.zone \in Zones /\ Send(c, answer) /\ UNCHANGED <<view, free, deleting>>
      BY <1>9, ServerMessageKinds DEF HandleRequestGenerates
    <2>2. here \in SUBSET DoIds /\ here \subseteq Own(c)
      BY Owned
    <2>3. \A d \in here : Generate(d, m.zone, view[c][d].value) \in FromClient(c)
      BY <2>1, <2>2, ClientMessages DEF ClientTypes
    <2> HIDE DEF here
    <2>4. /\ Cardinality(here) \in Nat
          /\ \A i \in 1 .. Cardinality(here) : Listing(here)[i] \in here
      BY <2>2, Finite, ListingOf
    <2>5. answer \in [1 .. Cardinality(here) -> FromClient(c)]
      BY <2>3, <2>4
    <2>6. answer \in Seq(FromClient(c))
      <3> HIDE DEF answer
      <3> QED
        BY <2>4, <2>5, SeqOf
    <2>7. Said'
      <3> HIDE DEF answer
      <3> QED
        BY <2>1, <2>6, Sends
    <2> QED
      BY <1>2, <1>3, <2>1, <2>7 DEF ClientTypes
  <1>10. CASE HandleSetDoIdrange(c, m)
    BY <1>2, <1>3, <1>4, <1>10, Owned DEF ClientTypes, HandleSetDoIdrange
  <1> QED
    BY <1>2, <1>5, <1>6, <1>7, <1>8, <1>9, <1>10

-------------------------------------------------------------------------------
(* The theorems                                                            *)

LEMMA Initially == Init => IInv
  <1> SUFFICES ASSUME Init PROVE IInv
    OBVIOUS
  <1>1. Books
    BY DEF Init, Books, ServerTypes, TablesAgree, Zoned, Own, IsLocalId, DoIdBase
  <1>2. ClientTypes
    BY DEF Init, ClientTypes, Absent
  <1>3. Said /\ Told
    BY EmptyMail DEF Init, Said, Told
  <1> QED
    BY <1>1, <1>2, <1>3 DEF IInv

LEMMA BooksIdle == ASSUME Books, UNCHANGED server PROVE Books'
  BY DEF server, Books, ServerTypes, TablesAgree, Zoned, Own, IsLocalId, DoIdBase

LEMMA MailIdle == ASSUME Told, UNCHANGED toClient PROVE Told'
  BY DEF Told

LEMMA Kept ==
  ASSUME IInv, Next
  PROVE  IInv'
  <1>0. Books /\ ClientTypes /\ Said /\ Told
    BY DEF IInv
  <1>1. PICK c \in Clients :
          \/ Connect(c)
          \/ ServerReceive(c)
          \/ HardDisconnect(c)
          \/ ClientReceive(c)
          \/ \E d \in DoIds : SetField(c, d) \/ SendDeleteMsg(c, d)
          \/ \E d \in DoIds, z \in Zones : CreateDistributedObject(c, d, z) \/ SetObjectZone(c, d, z)
          \/ \E Z \in SUBSET Zones : SetInterestZones(c, Z)
          \/ \E said \in BOOLEAN : Break(c, said)
    BY DEF Next
  <1>2. CASE Connect(c)
    <2>1. Books'
      BY <1>0, <1>2 DEF Connect, Books, ServerTypes, TablesAgree, Zoned, Own, IsLocalId, DoIdBase
    <2>2. ClientTypes' /\ Said'
      BY <1>0, <1>2 DEF Connect, ClientTypes, Said
    <2>3. Told'
      <3>1. SetDoIdrange \in Fit(c)
        BY ServerMessages
      <3>2. <<SetDoIdrange>> \in Seq(Fit(c))
        BY <3>1, OneMessage
      <3> QED
        BY <1>0, <1>2, <3>2 DEF Connect, Told
    <2> QED
      BY <2>1, <2>2, <2>3 DEF IInv
  <1>3. CASE ServerReceive(c)
    <2>1. Books' /\ Told'
      BY <1>0, <1>3, Handled
    <2>2. UNCHANGED <<clients, ops, left>> /\ Taken(c) /\ toServer[c] # <<>>
      BY <1>3 DEF ServerReceive
    <2>3. ClientTypes'
      BY <1>0, <2>2 DEF ClientTypes, clients
    <2>4. Tail(toServer[c]) \in Seq(FromClient(c))
      BY <1>0, <2>2, TakenFirst DEF Said
    <2>5. Said'
      BY <1>0, <2>2, <2>4 DEF Said, Taken
    <2> QED
      BY <2>1, <2>3, <2>5 DEF IInv
  <1>4. CASE HardDisconnect(c)
    <2>1. Books' /\ Told'
      BY <1>0, <1>4, ClientGone DEF HardDisconnect
    <2>2. ClientTypes' /\ Said'
      BY <1>0, <1>4, EmptyMail DEF HardDisconnect, ClientTypes, clients, Said
    <2> QED
      BY <2>1, <2>2 DEF IInv
  <1>5. CASE ClientReceive(c)
    BY <1>0, <1>5, ReceiptKeeps, BooksIdle DEF IInv
  <1>6. CASE \/ \E d \in DoIds : SetField(c, d) \/ SendDeleteMsg(c, d)
             \/ \E d \in DoIds, z \in Zones : CreateDistributedObject(c, d, z) \/ SetObjectZone(c, d, z)
             \/ \E Z \in SUBSET Zones : SetInterestZones(c, Z)
    <2>1. ClientTypes' /\ Said' /\ UNCHANGED <<server, toClient>>
      BY <1>0, <1>6, GameKeeps
    <2> QED
      BY <1>0, <2>1, BooksIdle, MailIdle DEF IInv
  <1>7. ASSUME NEW said \in BOOLEAN, Break(c, said) PROVE IInv'
    <2>1. If(said, Disconnect) \in Seq(FromClient(c))
      BY ClientMessages, IfMessage
    <2>2. Said' /\ UNCHANGED server
      BY <1>0, <1>7, <2>1, Sends DEF Break
    <2>3. Told'
      BY <1>0, <1>7, EmptyMail DEF Break, Told
    <2>4. ClientTypes'
      BY <1>0, <1>7 DEF Break, ClientTypes
    <2> QED
      BY <1>0, <2>2, <2>3, <2>4, BooksIdle DEF IInv
  <1> QED
    BY <1>1, <1>2, <1>3, <1>4, <1>5, <1>6, <1>7

THEOREM Inductive == Spec => []IInv
  <1>1. IInv /\ UNCHANGED vars => IInv'
    <2>1. SUFFICES ASSUME IInv, UNCHANGED vars PROVE IInv'
      OBVIOUS
    <2>2. UNCHANGED <<server, clients, net, ops, left>>
      BY <2>1 DEF vars
    <2>3. Books' /\ Told'
      BY <2>1, <2>2, BooksIdle, MailIdle DEF IInv, net
    <2>4. ClientTypes' /\ Said'
      BY <2>1, <2>2 DEF IInv, ClientTypes, Said, clients, net
    <2> QED
      BY <2>3, <2>4 DEF IInv
  <1> QED
    BY <1>1, Initially, Kept, PTL DEF Spec

THEOREM LanTypes == Spec => []TypeOK
  <1>1. ASSUME IInv PROVE TypeOK
    <2>1. Books /\ ClientTypes /\ Said /\ Told
      BY <1>1 DEF IInv
    <2>2. \A c \in Clients : toClient[c] \in Seq(ForClient(c))
      <3>1. \A c \in Clients : Fit(c) \subseteq ForClient(c)
        BY DEF Fit
      <3>2. ASSUME NEW S, NEW T \in SUBSET S, NEW s \in Seq(T) PROVE s \in Seq(S)
        OBVIOUS
      <3> QED
        BY <2>1, <3>1, <3>2 DEF Told
    <2>3. /\ {explicit, current} \subseteq [Clients -> SUBSET Zones]
          /\ connected \subseteq Clients
          /\ listeners \in [Zones -> SUBSET Clients]
          /\ objects \in [DoIds -> Zones \cup {NoZone}]
      BY <2>1 DEF Books, ServerTypes
    <2> QED
      BY <2>1, <2>2, <2>3 DEF TypeOK, ClientTypes, Said, Told
  <1> QED
    BY <1>1, Inductive, PTL

(* The server's tables by zone and by client always say the same, and each *)
(* client is shown what it asked for and where its own objects are.        *)
THEOREM TablesAlwaysAgree == Spec => []TablesAgree
  <1>1. IInv => TablesAgree
    BY DEF IInv, Books
  <1> QED
    BY <1>1, Inductive, PTL

(* No client is ever sent a disable for an object of its own.              *)
THEOREM OwnObjectsStay == Spec => []OwnNeverDisabled
  <1>1. ASSUME IInv PROVE OwnNeverDisabled
    <2>1. ASSUME NEW c \in Clients, NEW i \in 1 .. Len(toClient[c]) PROVE toClient[c][i] \in Fit(c)
      BY <1>1 DEF IInv, Told
    <2> QED
      BY <2>1 DEF OwnNeverDisabled, Fit
  <1> QED
    BY <1>1, Inductive, PTL
-------------------------------------------------------------------------------
(* What clients know, and what they will have heard: of an object the last *)
(* message counts that shows it or hides it, and for its value the last    *)
(* that speaks of it.                                                      *)

Shows(m, d) == m.type = "generate" /\ m.doId = d
Hides(m, d) == \/ m.type = "delete" /\ m.doId = d
               \/ m.type = "disable" /\ d \in m.doIds
Speaks(m, d) == m.type \in {"generate", "update"} /\ m.doId = d
Moves(m, d) == m.type = "setZone" /\ m.doId = d

Contains(s, m) == \E i \in DOMAIN s : s[i] = m
ShownIn(s, d) == \E i \in DOMAIN s : Shows(s[i], d)
HiddenIn(s, d) == \E i \in DOMAIN s : Hides(s[i], d)
Mute(s, d) == \A i \in DOMAIN s : ~Speaks(s[i], d)

(* d is known after s, where b says whether it was before.                 *)
Knows(s, d, b) ==
  \/ \E i \in DOMAIN s : Shows(s[i], d) /\ \A j \in DOMAIN s : j > i => ~Hides(s[j], d)
  \/ b /\ ~HiddenIn(s, d)

(* The last value, and the last zone, that s gives d.                      *)
Ends(s, d, v) ==
  \A i \in DOMAIN s :
    Speaks(s[i], d) /\ (\A j \in DOMAIN s : j > i => ~Speaks(s[j], d)) => s[i].value = v

Rests(s, d, z) ==
  \A i \in DOMAIN s :
    Shows(s[i], d) /\ (\A j \in DOMAIN s : j > i => ~Shows(s[j], d)) => s[i].zone = z

LEMMA JoinedAt ==
  ASSUME NEW S, NEW s \in Seq(S), NEW t \in Seq(S)
  PROVE  /\ Len(s) \in Nat /\ Len(t) \in Nat
         /\ DOMAIN s = 1 .. Len(s) /\ DOMAIN t = 1 .. Len(t)
         /\ DOMAIN (s \o t) = 1 .. Len(s) + Len(t)
         /\ \A i \in DOMAIN s : (s \o t)[i] = s[i]
         /\ \A i \in DOMAIN t : (s \o t)[Len(s) + i] = t[i]
         /\ \A i \in DOMAIN (s \o t) : i \in DOMAIN s \/ i - Len(s) \in DOMAIN t
  OBVIOUS

LEMMA TailAt ==
  ASSUME NEW S, NEW s \in Seq(S), s # <<>>
  PROVE  /\ Len(s) \in Nat /\ Len(s) > 0 /\ DOMAIN s = 1 .. Len(s)
         /\ Head(s) = s[1]
         /\ DOMAIN Tail(s) = 1 .. Len(s) - 1
         /\ \A i \in 1 .. Len(s) - 1 : Tail(s)[i] = s[i + 1]
         /\ \A i \in DOMAIN s : i # 1 => i - 1 \in DOMAIN Tail(s) /\ Tail(s)[i - 1] = s[i]
  OBVIOUS

LEMMA ContainsJoined ==
  ASSUME NEW S, NEW s \in Seq(S), NEW t \in Seq(S)
  PROVE  /\ \A m : Contains(s \o t, m) <=> Contains(s, m) \/ Contains(t, m)
         /\ \A d : ShownIn(s \o t, d) <=> ShownIn(s, d) \/ ShownIn(t, d)
         /\ \A d : HiddenIn(s \o t, d) <=> HiddenIn(s, d) \/ HiddenIn(t, d)
         /\ \A d : Mute(s \o t, d) <=> Mute(s, d) /\ Mute(t, d)
  <1> DEFINE u == s \o t
  <1>1. PICK n \in Nat : n = Len(s)
    BY JoinedAt
  <1>2. /\ \A i \in DOMAIN s : i \in DOMAIN u /\ u[i] = s[i]
        /\ \A i \in DOMAIN t : n + i \in DOMAIN u /\ u[n + i] = t[i]
        /\ \A i \in DOMAIN u : i \in DOMAIN s \/ (i - n \in DOMAIN t /\ u[i] = t[i - n])
    BY <1>1, JoinedAt
  <1> HIDE DEF u
  <1>3. \A m : Contains(u, m) <=> Contains(s, m) \/ Contains(t, m)
    BY <1>2 DEF Contains
  <1>4. \A d : ShownIn(u, d) <=> ShownIn(s, d) \/ ShownIn(t, d)
    BY <1>2 DEF ShownIn
  <1>5. \A d : HiddenIn(u, d) <=> HiddenIn(s, d) \/ HiddenIn(t, d)
    BY <1>2 DEF HiddenIn
  <1>6. \A d : Mute(u, d) <=> Mute(s, d) /\ Mute(t, d)
    BY <1>2 DEF Mute
  <1> QED
    BY <1>3, <1>4, <1>5, <1>6 DEF u

LEMMA TailParts ==
  ASSUME NEW S, NEW s \in Seq(S), s # <<>>
  PROVE  /\ \A m : Contains(s, m) <=> Head(s) = m \/ Contains(Tail(s), m)
         /\ \A d : ShownIn(s, d) <=> Shows(Head(s), d) \/ ShownIn(Tail(s), d)
         /\ \A d : HiddenIn(s, d) <=> Hides(Head(s), d) \/ HiddenIn(Tail(s), d)
         /\ \A d : Mute(s, d) <=> ~Speaks(Head(s), d) /\ Mute(Tail(s), d)
  <1> DEFINE t == Tail(s)
  <1>1. /\ Len(s) \in Nat /\ 1 \in DOMAIN s /\ Head(s) = s[1]
        /\ \A i \in DOMAIN t : i + 1 \in DOMAIN s /\ t[i] = s[i + 1]
        /\ \A i \in DOMAIN s : i # 1 => i - 1 \in DOMAIN t /\ t[i - 1] = s[i]
    BY TailAt
  <1> HIDE DEF t
  <1>2. \A m : Contains(s, m) <=> Head(s) = m \/ Contains(t, m)
    BY <1>1 DEF Contains
  <1>3. \A d : ShownIn(s, d) <=> Shows(Head(s), d) \/ ShownIn(t, d)
    BY <1>1 DEF ShownIn
  <1>4. \A d : HiddenIn(s, d) <=> Hides(Head(s), d) \/ HiddenIn(t, d)
    BY <1>1 DEF HiddenIn
  <1>5. \A d : Mute(s, d) <=> ~Speaks(Head(s), d) /\ Mute(t, d)
    BY <1>1 DEF Mute
  <1> QED
    BY <1>2, <1>3, <1>4, <1>5 DEF t

(* More is heard.                                                          *)
LEMMA KnowsJoined ==
  ASSUME NEW S, NEW s \in Seq(S), NEW t \in Seq(S), NEW d, NEW b \in BOOLEAN
  PROVE  /\ ShownIn(t, d) /\ ~HiddenIn(t, d) => Knows(s \o t, d, b)
         /\ HiddenIn(t, d) /\ ~ShownIn(t, d) => ~Knows(s \o t, d, b)
         /\ ~ShownIn(t, d) /\ ~HiddenIn(t, d) => (Knows(s \o t, d, b) <=> Knows(s, d, b))
  <1> DEFINE u == s \o t
  <1>1. PICK n \in Nat, k \in Nat : n = Len(s) /\ k = Len(t)
    BY JoinedAt
  <1>2. /\ DOMAIN s = 1 .. n /\ DOMAIN t = 1 .. k /\ DOMAIN u = 1 .. n + k
        /\ \A i \in 1 .. n : u[i] = s[i]
        /\ \A i \in 1 .. k : u[n + i] = t[i]
    BY <1>1, JoinedAt
  <1>3. HiddenIn(u, d) <=> HiddenIn(s, d) \/ HiddenIn(t, d)
    BY ContainsJoined
  <1> HIDE DEF u
  <1>4. \A i \in 1 .. n + k : i \in 1 .. n \/ (i - n \in 1 .. k /\ u[i] = t[i - n])
    BY <1>2
  <1>5. ASSUME ShownIn(t, d), ~HiddenIn(t, d) PROVE Knows(u, d, b)
    <2>1. PICK i \in 1 .. k : Shows(t[i], d)
      BY <1>2, <1>5 DEF ShownIn
    <2>2. ASSUME NEW j \in 1 .. n + k, j > n + i PROVE ~Hides(u[j], d)
      <3>1. j - n \in 1 .. k /\ u[j] = t[j - n]
        BY <1>4, <2>2
      <3> QED
        BY <1>2, <1>5, <3>1 DEF HiddenIn
    <2>3. n + i \in DOMAIN u /\ Shows(u[n + i], d)
      BY <1>2, <2>1
    <2> QED
      BY <1>2, <2>2, <2>3 DEF Knows
  <1>6. ASSUME HiddenIn(t, d), ~ShownIn(t, d) PROVE ~Knows(u, d, b)
    <2>1. PICK j \in 1 .. k : Hides(t[j], d)
      BY <1>2, <1>6 DEF HiddenIn
    <2>2. ASSUME NEW i \in 1 .. n + k, Shows(u[i], d) PROVE n + j > i
      <3>1. i - n \notin 1 .. k
        BY <1>2, <1>4, <1>6, <2>2 DEF ShownIn
      <3> QED
        BY <1>4, <3>1
    <2>3. n + j \in DOMAIN u /\ Hides(u[n + j], d)
      BY <1>2, <2>1
    <2> QED
      BY <1>2, <2>2, <2>3 DEF Knows, HiddenIn
  <1>7. ASSUME ~ShownIn(t, d), ~HiddenIn(t, d) PROVE Knows(u, d, b) <=> Knows(s, d, b)
    <2>1. \A i \in 1 .. n + k : Shows(u[i], d) => i \in 1 .. n /\ Shows(s[i], d)
      BY <1>2, <1>4, <1>7 DEF ShownIn
    <2>2. \A i \in 1 .. n + k : Hides(u[i], d) => i \in 1 .. n /\ Hides(s[i], d)
      BY <1>2, <1>4, <1>7 DEF HiddenIn
    <2>3. \A i \in 1 .. n : i \in 1 .. n + k /\ (Shows(s[i], d) => Shows(u[i], d)) /\ (Hides(s[i], d) => Hides(u[i], d))
      BY <1>2
    <2>4. (\E i \in DOMAIN u : Shows(u[i], d) /\ \A j \in DOMAIN u : j > i => ~Hides(u[j], d))
            <=> (\E i \in DOMAIN s : Shows(s[i], d) /\ \A j \in DOMAIN s : j > i => ~Hides(s[j], d))
      BY <1>2, <2>1, <2>2, <2>3
    <2> QED
      BY <1>3, <1>7, <2>4 DEF Knows
  <1> QED
    BY <1>5, <1>6, <1>7 DEF u

(* The first message is taken.                                             *)
LEMMA KnowsTail ==
  ASSUME NEW S, NEW s \in Seq(S), s # <<>>, NEW d, NEW b \in BOOLEAN, NEW after \in BOOLEAN,
         Shows(Head(s), d) => after,
         Hides(Head(s), d) => ~after,
         ~Shows(Head(s), d) /\ ~Hides(Head(s), d) => after = b
  PROVE  Knows(s, d, b) <=> Knows(Tail(s), d, after)
  <1> DEFINE t == Tail(s)
  <1>1. PICK n \in Nat : n = Len(s) /\ n > 0
    BY TailAt
  <1>2. /\ DOMAIN s = 1 .. n /\ Head(s) = s[1] /\ DOMAIN t = 1 .. n - 1
        /\ \A i \in 1 .. n - 1 : t[i] = s[i + 1]
    BY <1>1, TailAt
  <1>3. HiddenIn(s, d) <=> Hides(Head(s), d) \/ HiddenIn(t, d)
    BY TailParts
  <1> HIDE DEF t
  <1>4. \A i \in 1 .. n : i = 1 \/ (i - 1 \in 1 .. n - 1 /\ s[i] = t[i - 1])
    BY <1>2
  <1>5. (\E i \in DOMAIN s : Shows(s[i], d) /\ \A j \in DOMAIN s : j > i => ~Hides(s[j], d))
          <=> \/ \E i \in DOMAIN t : Shows(t[i], d) /\ \A j \in DOMAIN t : j > i => ~Hides(t[j], d)
              \/ Shows(Head(s), d) /\ ~HiddenIn(t, d)
    <2>1. ASSUME NEW i \in 1 .. n, Shows(s[i], d), \A j \in 1 .. n : j > i => ~Hides(s[j], d), i # 1
          PROVE  \E k \in 1 .. n - 1 : Shows(t[k], d) /\ \A j \in 1 .. n - 1 : j > k => ~Hides(t[j], d)
      <3>1. i - 1 \in 1 .. n - 1 /\ Shows(t[i - 1], d)
        BY <1>4, <2>1
      <3>2. \A j \in 1 .. n - 1 : j > i - 1 => ~Hides(t[j], d)
        BY <1>2, <2>1
      <3> QED
        BY <3>1, <3>2
    <2>2. ASSUME NEW i \in 1 .. n - 1, Shows(t[i], d), \A j \in 1 .. n - 1 : j > i => ~Hides(t[j], d)
          PROVE  \E k \in 1 .. n : Shows(s[k], d) /\ \A j \in 1 .. n : j > k => ~Hides(s[j], d)
      <3>1. i + 1 \in 1 .. n /\ Shows(s[i + 1], d)
        BY <1>2, <2>2
      <3>2. \A j \in 1 .. n : j > i + 1 => ~Hides(s[j], d)
        BY <1>4, <2>2
      <3> QED
        BY <3>1, <3>2
    <2>3. (\A j \in 1 .. n : j > 1 => ~Hides(s[j], d)) <=> ~HiddenIn(t, d)
      <3>1. \A j \in 1 .. n : j > 1 => j - 1 \in DOMAIN t /\ s[j] = t[j - 1]
        BY <1>2, <1>4
      <3>2. \A j \in DOMAIN t : j + 1 \in 1 .. n /\ j + 1 > 1 /\ t[j] = s[j + 1]
        BY <1>2
      <3> QED
        BY <3>1, <3>2 DEF HiddenIn
    <2>4. 1 \in 1 .. n
      BY <1>1
    <2>5. ASSUME NEW i \in DOMAIN s, Shows(s[i], d), \A j \in DOMAIN s : j > i => ~Hides(s[j], d)
          PROVE  \/ \E k \in DOMAIN t : Shows(t[k], d) /\ \A j \in DOMAIN t : j > k => ~Hides(t[j], d)
                 \/ Shows(Head(s), d) /\ ~HiddenIn(t, d)
      <3>1. CASE i = 1
        BY <1>2, <2>3, <2>5, <3>1
      <3>2. CASE i # 1
        BY <1>2, <2>1, <2>5, <3>2
      <3> QED
        BY <3>1, <3>2
    <2>6. ASSUME Shows(Head(s), d), ~HiddenIn(t, d)
          PROVE  \E i \in DOMAIN s : Shows(s[i], d) /\ \A j \in DOMAIN s : j > i => ~Hides(s[j], d)
      <3>1. Shows(s[1], d) /\ \A j \in 1 .. n : j > 1 => ~Hides(s[j], d)
        BY <1>2, <2>3, <2>6
      <3> QED
        BY <1>2, <2>4, <3>1
    <2>7. (\E i \in DOMAIN t : Shows(t[i], d) /\ \A j \in DOMAIN t : j > i => ~Hides(t[j], d))
            => \E i \in DOMAIN s : Shows(s[i], d) /\ \A j \in DOMAIN s : j > i => ~Hides(s[j], d)
      BY <1>2, <2>2
    <2> QED
      BY <2>5, <2>6, <2>7
  <1>6. ~(Shows(Head(s), d) /\ Hides(Head(s), d))
    BY DEF Shows, Hides
  <1> QED
    BY <1>3, <1>5, <1>6 DEF Knows, t

LEMMA EndsJoined ==
  ASSUME NEW S, NEW s \in Seq(S), NEW t \in Seq(S), NEW d, NEW v,
         \A i \in DOMAIN t : Speaks(t[i], d) => t[i].value = v,
         Mute(t, d) => Ends(s, d, v)
  PROVE  Ends(s \o t, d, v)
  <1> DEFINE u == s \o t
  <1>1. PICK n \in Nat, k \in Nat : n = Len(s) /\ k = Len(t)
    BY JoinedAt
  <1>2. /\ DOMAIN s = 1 .. n /\ DOMAIN t = 1 .. k /\ DOMAIN u = 1 .. n + k
        /\ \A i \in 1 .. n : u[i] = s[i]
        /\ \A i \in 1 .. k : u[n + i] = t[i]
    BY <1>1, JoinedAt
  <1> HIDE DEF u
  <1> SUFFICES ASSUME NEW i \in 1 .. n + k, Speaks(u[i], d),
                      \A j \in 1 .. n + k : j > i => ~Speaks(u[j], d)
               PROVE  u[i].value = v
    BY <1>2 DEF Ends, u
  <1>3. CASE i > n
    <2>1. i - n \in 1 .. k /\ u[i] = t[i - n]
      BY <1>2, <1>3
    <2> QED
      BY <1>2, <2>1
  <1>4. CASE i <= n
    <2>1. Mute(t, d)
      <3>1. ASSUME NEW j \in 1 .. k PROVE ~Speaks(t[j], d)
        <4>1. n + j \in 1 .. n + k /\ n + j > i
          BY <1>4
        <4> QED
          BY <1>2, <4>1
      <3> QED
        BY <1>2, <3>1 DEF Mute
    <2>2. i \in 1 .. n /\ Speaks(s[i], d) /\ \A j \in 1 .. n : j > i => ~Speaks(s[j], d)
      BY <1>2, <1>4
    <2> QED
      BY <1>2, <2>1, <2>2 DEF Ends
  <1> QED
    BY <1>3, <1>4

LEMMA RestsJoined ==
  ASSUME NEW S, NEW s \in Seq(S), NEW t \in Seq(S), NEW d, NEW z,
         \A i \in DOMAIN t : Shows(t[i], d) => t[i].zone = z,
         ~ShownIn(t, d) => Rests(s, d, z)
  PROVE  Rests(s \o t, d, z)
  <1> DEFINE u == s \o t
  <1>1. PICK n \in Nat, k \in Nat : n = Len(s) /\ k = Len(t)
    BY JoinedAt
  <1>2. /\ DOMAIN s = 1 .. n /\ DOMAIN t = 1 .. k /\ DOMAIN u = 1 .. n + k
        /\ \A i \in 1 .. n : u[i] = s[i]
        /\ \A i \in 1 .. k : u[n + i] = t[i]
    BY <1>1, JoinedAt
  <1> HIDE DEF u
  <1> SUFFICES ASSUME NEW i \in 1 .. n + k, Shows(u[i], d),
                      \A j \in 1 .. n + k : j > i => ~Shows(u[j], d)
               PROVE  u[i].zone = z
    BY <1>2 DEF Rests, u
  <1>3. CASE i > n
    <2>1. i - n \in 1 .. k /\ u[i] = t[i - n]
      BY <1>2, <1>3
    <2> QED
      BY <1>2, <2>1
  <1>4. CASE i <= n
    <2>1. ~ShownIn(t, d)
      <3>1. ASSUME NEW j \in 1 .. k PROVE ~Shows(t[j], d)
        <4>1. n + j \in 1 .. n + k /\ n + j > i
          BY <1>4
        <4> QED
          BY <1>2, <4>1
      <3> QED
        BY <1>2, <3>1 DEF ShownIn
    <2>2. i \in 1 .. n /\ Shows(s[i], d) /\ \A j \in 1 .. n : j > i => ~Shows(s[j], d)
      BY <1>2, <1>4
    <2> QED
      BY <1>2, <2>1, <2>2 DEF Rests
  <1> QED
    BY <1>3, <1>4

(* What is last stays last when the first is taken, unless it is the first.*)
LEMMA EndsTail ==
  ASSUME NEW S, NEW s \in Seq(S), s # <<>>, NEW d, NEW v
  PROVE  /\ Ends(s, d, v) => Ends(Tail(s), d, v)
         /\ Ends(s, d, v) /\ Mute(Tail(s), d) /\ Speaks(Head(s), d) => Head(s).value = v
         /\ Rests(s, d, v) => Rests(Tail(s), d, v)
         /\ Rests(s, d, v) /\ ~ShownIn(Tail(s), d) /\ Shows(Head(s), d) => Head(s).zone = v
  <1> DEFINE t == Tail(s)
  <1>1. PICK n \in Nat : n = Len(s) /\ n > 0
    BY TailAt
  <1>2. /\ DOMAIN s = 1 .. n /\ Head(s) = s[1] /\ DOMAIN t = 1 .. n - 1
        /\ \A i \in 1 .. n - 1 : t[i] = s[i + 1]
    BY <1>1, TailAt
  <1> HIDE DEF t
  <1>3. \A i \in 1 .. n : i = 1 \/ (i - 1 \in 1 .. n - 1 /\ s[i] = t[i - 1])
    BY <1>2
  <1>4. ASSUME Ends(s, d, v) PROVE Ends(t, d, v)
    <2> SUFFICES ASSUME NEW i \in 1 .. n - 1, Speaks(t[i], d),
                        \A j \in 1 .. n - 1 : j > i => ~Speaks(t[j], d)
                 PROVE  t[i].value = v
      BY <1>2 DEF Ends
    <2>1. i + 1 \in 1 .. n /\ s[i + 1] = t[i]
      BY <1>2
    <2>2. \A j \in 1 .. n : j > i + 1 => ~Speaks(s[j], d)
      BY <1>3
    <2> QED
      BY <1>2, <1>4, <2>1, <2>2 DEF Ends
  <1>5. ASSUME Ends(s, d, v), Mute(t, d), Speaks(Head(s), d) PROVE Head(s).value = v
    <2>1. \A j \in 1 .. n : j > 1 => j - 1 \in DOMAIN t /\ s[j] = t[j - 1]
      BY <1>2, <1>3
    <2>2. 1 \in 1 .. n /\ \A j \in 1 .. n : j > 1 => ~Speaks(s[j], d)
      BY <1>1, <1>5, <2>1 DEF Mute
    <2> QED
      BY <1>2, <1>5, <2>2 DEF Ends
  <1>6. ASSUME Rests(s, d, v) PROVE Rests(t, d, v)
    <2> SUFFICES ASSUME NEW i \in 1 .. n - 1, Shows(t[i], d),
                        \A j \in 1 .. n - 1 : j > i => ~Shows(t[j], d)
                 PROVE  t[i].zone = v
      BY <1>2 DEF Rests
    <2>1. i + 1 \in 1 .. n /\ s[i + 1] = t[i]
      BY <1>2
    <2>2. \A j \in 1 .. n : j > i + 1 => ~Shows(s[j], d)
      BY <1>3
    <2> QED
      BY <1>2, <1>6, <2>1, <2>2 DEF Rests
  <1>7. ASSUME Rests(s, d, v), ~ShownIn(t, d), Shows(Head(s), d) PROVE Head(s).zone = v
    <2>1. \A j \in 1 .. n : j > 1 => j - 1 \in DOMAIN t /\ s[j] = t[j - 1]
      BY <1>2, <1>3
    <2>2. 1 \in 1 .. n /\ \A j \in 1 .. n : j > 1 => ~Shows(s[j], d)
      BY <1>1, <1>7, <2>1 DEF ShownIn
    <2> QED
      BY <1>2, <1>7, <2>2 DEF Rests
  <1> QED
    BY <1>4, <1>5, <1>6, <1>7 DEF t

(* Every move in s is followed by a generate.                              *)
Followed(s, d) ==
  \A i \in DOMAIN s : Moves(s[i], d) => \E j \in DOMAIN s : j > i /\ Shows(s[j], d)

LEMMA FollowedJoined ==
  ASSUME NEW S, NEW s \in Seq(S), NEW t \in Seq(S), NEW d, Followed(s, d), Followed(t, d)
  PROVE  Followed(s \o t, d)
  <1> DEFINE u == s \o t
  <1>1. PICK n \in Nat, k \in Nat : n = Len(s) /\ k = Len(t)
    BY JoinedAt
  <1>2. /\ DOMAIN s = 1 .. n /\ DOMAIN t = 1 .. k /\ DOMAIN u = 1 .. n + k
        /\ \A i \in 1 .. n : u[i] = s[i]
        /\ \A i \in 1 .. k : u[n + i] = t[i]
    BY <1>1, JoinedAt
  <1> HIDE DEF u
  <1> SUFFICES ASSUME NEW i \in 1 .. n + k, Moves(u[i], d)
               PROVE  \E j \in 1 .. n + k : j > i /\ Shows(u[j], d)
    BY <1>2 DEF Followed, u
  <1>3. CASE i > n
    <2>1. i - n \in 1 .. k /\ Moves(t[i - n], d)
      BY <1>2, <1>3
    <2>2. PICK j \in 1 .. k : j > i - n /\ Shows(t[j], d)
      BY <1>2, <2>1 DEF Followed
    <2>3. n + j \in 1 .. n + k /\ n + j > i
      BY <2>2
    <2>a. u[n + j] = t[j]
      BY <1>2, <2>2
    <2>4. Shows(u[n + j], d)
      BY <2>2, <2>a
    <2> QED
      BY <2>3, <2>4
  <1>4. CASE i <= n
    <2>1. i \in 1 .. n /\ Moves(s[i], d)
      BY <1>2, <1>4
    <2>2. PICK j \in 1 .. n : j > i /\ Shows(s[j], d)
      BY <1>2, <2>1 DEF Followed
    <2> QED
      BY <1>2, <2>2
  <1> QED
    BY <1>3, <1>4

LEMMA FollowedTail ==
  ASSUME NEW S, NEW s \in Seq(S), s # <<>>, NEW d, Followed(s, d)
  PROVE  Followed(Tail(s), d) /\ (Moves(Head(s), d) => ShownIn(Tail(s), d))
  <1> DEFINE t == Tail(s)
  <1>1. PICK n \in Nat : n = Len(s) /\ n > 0
    BY TailAt
  <1>2. /\ DOMAIN s = 1 .. n /\ Head(s) = s[1] /\ DOMAIN t = 1 .. n - 1
        /\ \A i \in 1 .. n - 1 : t[i] = s[i + 1]
    BY <1>1, TailAt
  <1> HIDE DEF t
  <1>3. ASSUME NEW i \in 1 .. n, Moves(s[i], d) PROVE \E j \in 1 .. n - 1 : j > i - 1 /\ Shows(t[j], d)
    <2>1. PICK j \in 1 .. n : j > i /\ Shows(s[j], d)
      BY <1>2, <1>3 DEF Followed
    <2>2. j - 1 \in 1 .. n - 1 /\ t[j - 1] = s[j] /\ j - 1 > i - 1
      BY <1>2, <2>1
    <2> QED
      BY <2>1, <2>2
  <1>4. Followed(t, d)
    <2> SUFFICES ASSUME NEW i \in 1 .. n - 1, Moves(t[i], d)
                 PROVE  \E j \in 1 .. n - 1 : j > i /\ Shows(t[j], d)
      BY <1>2 DEF Followed
    <2>1. i + 1 \in 1 .. n /\ Moves(s[i + 1], d)
      BY <1>2
    <2>2. \E j \in 1 .. n - 1 : j > (i + 1) - 1 /\ Shows(t[j], d)
      BY <1>3, <2>1
    <2> QED
      BY <2>2
  <1>5. Moves(Head(s), d) => ShownIn(t, d)
    <2>1. 1 \in 1 .. n /\ s[1] = Head(s)
      BY <1>1, <1>2
    <2> QED
      BY <1>2, <1>3, <2>1 DEF ShownIn
  <1> QED
    BY <1>4, <1>5 DEF t

-------------------------------------------------------------------------------
(* The invariant about what is on its way                                  *)

WillHave(c, d) == Knows(toClient[c], d, Has(c, d))

(* A client that never connected has nothing, and an object is somewhere.  *)
Fresh ==
  /\ connected \subseteq online \cup left
  /\ \A c \in Clients \ (online \cup left) :
       toServer[c] = <<>> /\ \A d \in DoIds : ~Has(c, d)

Located == \A c \in Clients, d \in DoIds : Has(c, d) => view[c][d].zone \in Zones

(* What a client says and hears of its own objects.                        *)
Orderly(c) ==
  /\ \A i \in DOMAIN toServer[c] : toServer[c][i].type # "disconnect"
  /\ \A d \in Own(c) : Followed(toServer[c], d) /\ Mute(toClient[c], d)

(* No object will be known to c that is out of its zones.                  *)
NoneAhead(c, d) == WillHave(c, d) => objects[d] \in current[c]

(* The server will have d where its owner o has it, and with its value; if *)
(* the server has none, a generate or the news of its deletion is coming.  *)
Placed(o, d) ==
  /\ Rests(toServer[o], d, view[o][d].zone)
  /\ Ends(toServer[o], d, view[o][d].value)
  /\ ShownIn(toServer[o], d) \/ objects[d] \in {view[o][d].zone, NoZone}
  /\ objects[d] = NoZone => ShownIn(toServer[o], d) \/ Contains(toClient[o], Delete(d))

(* What c is shown of o's objects it will know, or a generate is coming or *)
(* asked for; and it will have the value unless a value is still coming.   *)
Seen(c, o, d) ==
  /\ objects[d] \in current[c] =>
       \/ WillHave(c, d)
       \/ ShownIn(toServer[o], d)
       \/ Contains(toClient[o], Request(objects[d]))
  /\ WillHave(c, d) /\ Mute(toServer[o], d) =>
       /\ Ends(toClient[c], d, view[o][d].value)
       /\ Mute(toClient[c], d) => view[c][d].value = view[o][d].value

Flow ==
  /\ Fresh /\ Located
  /\ \A c \in online : Orderly(c) /\ \A d \in DoIds \ Own(c) : NoneAhead(c, d)
  /\ \A o \in online : \A d \in Own(o) : Has(o, d) /\ Accepts(o, d) =>
       Placed(o, d) /\ \A c \in online \ {o} : Seen(c, o, d)

(* The server has only objects that it accepted.                           *)
Vetted == \A c \in Clients : \A d \in Own(c) : Exists(d) => Accepts(c, d)

-------------------------------------------------------------------------------
(* What the server sends when it handles the message m of c                *)

Effect(c, m, mail) ==
  /\ \A p \in online : mail[p] \in Seq(Fit(p)) /\ toClient'[p] = toClient[p] \o mail[p]
  /\ \A p \in online, d \in DoIds : \A i \in DOMAIN mail[p] :
       Speaks(mail[p][i], d) => mail[p][i] = m /\ p # c /\ objects'[d] \in current'[p]
  /\ \A p \in online : \A d \in DoIds \ Own(p) :
       /\ HiddenIn(mail[p], d) => objects'[d] \notin current'[p]
       /\ objects[d] \in current[p] => HiddenIn(mail[p], d) \/ objects'[d] \in current'[p]
       /\ Speaks(m, d) /\ objects'[d] \in current'[p] => Contains(mail[p], m)
       /\ objects'[d] \in current'[p] =>
            \/ Shows(m, d) \/ Moves(m, d)
            \/ objects'[d] = objects[d] /\ objects[d] \in current[p]
            \/ \A o \in online : d \in Own(o) => Contains(mail[o], Request(objects'[d]))
  /\ \A d \in DoIds :
       /\ Shows(m, d) /\ Accepts(c, d) => objects'[d] = m.zone
       /\ Shows(m, d) \/ Moves(m, d) \/ objects'[d] \in {objects[d], NoZone}
       /\ objects'[d] = NoZone /\ objects[d] # NoZone =>
            \A o \in online : d \in Own(o) => Contains(mail[o], Delete(d))

(* The messages of updateClientInterestZones, when c no longer looks at    *)
(* where the objects `gone' are.                                           *)
ZonesPost(c, gone, first, last, mail) ==
  /\ Post(mail)
  /\ \A p \in Clients : mail[p] \in Seq(Fit(p))
  /\ \A p \in Clients : \A m : Contains(mail[p], m) =>
       \/ Contains(first[p], m) \/ Contains(last[p], m)
       \/ m.type = "request"
       \/ p = c /\ m = Disable(gone)
  /\ \A p \in Clients : \A m :
       Contains(first[p], m) \/ Contains(last[p], m) => Contains(mail[p], m)
  /\ \A p \in Clients \ {c}, z \in current'[c] \ current[c] :
       p \in listeners[z] => Contains(mail[p], Request(z))
  /\ gone # {} => Contains(mail[c], Disable(gone))

LEMMA ZonesMail ==
  ASSUME Books, NEW c \in Clients, NEW objs \in [DoIds -> Zones \cup {NoZone}],
         \A d \in DoIds : d \notin Own(c) => objs[d] = objects[d],
         NEW asked \in SUBSET Zones, NEW first, NEW last,
         \A p \in Clients : first[p] \in Seq(Fit(p)) /\ last[p] \in Seq(Fit(p)),
         UpdateClientInterestZones(c, objs, asked, first, last)
  PROVE  /\ objects' = objs
         /\ current'[c] = Zoned(c, objs, asked)
         /\ \A p \in Clients \ {c} : current'[p] = current[p]
         /\ \E mail : ZonesPost(c, {d \in DoIds : objs[d] \in current[c] \ current'[c]}, first, last, mail)
  <1> DEFINE new == Zoned(c, objs, asked)
             added == new \ current[c]
             removed == current[c] \ new
             gone == {d \in DoIds : objs[d] \in removed}
             shown(p) == {z \in added : p \in listeners[z] \ {c}}
             asks(p, list) == [i \in 1 .. Cardinality(shown(p)) |-> Request(list[i])]
             mails(lists) == [p \in Clients |-> first[p] \o asks(p, lists[p])
                                                \o If(p = c /\ gone # {}, Disable(gone)) \o last[p]]
  <1>1. /\ objects' = objs
        /\ current' = [current EXCEPT ![c] = new]
    BY DEF UpdateClientInterestZones
  <1>2. PICK lists : (\A p \in Clients : lists[p] \in Orders(shown(p))) /\ Post(mails(lists))
    BY DEF UpdateClientInterestZones
  <1>3. ServerTypes /\ TablesAgree
    BY DEF Books
  <1>4. new \in SUBSET Zones /\ current[c] \in SUBSET Zones
    BY <1>3, Owned DEF Zoned, ServerTypes
  <1>5. current'[c] = new /\ \A p \in Clients \ {c} : current'[p] = current[p]
    BY <1>1, <1>3 DEF ServerTypes
  <1>6. gone \in SUBSET DoIds /\ gone \cap Own(c) = {}
    <2>1. ASSUME NEW d \in Own(c), objs[d] \in current[c] PROVE objs[d] \in new
      BY <1>4, <2>1, SetsAssumption DEF Zoned
    <2> QED
      BY <2>1
  <1>7. PICK mail : mail = mails(lists)
    OBVIOUS
  <1>8. ASSUME NEW p \in Clients
        PROVE  /\ mail[p] \in Seq(Fit(p))
               /\ \A m : Contains(mail[p], m) <=>
                    \/ Contains(first[p], m) \/ Contains(last[p], m)
                    \/ \E z \in shown(p) : m = Request(z)
                    \/ p = c /\ gone # {} /\ m = Disable(gone)
    <2>1. shown(p) \in SUBSET Zones /\ lists[p] \in Orders(shown(p))
      BY <1>2, <1>4
    <2>2. mail[p] = first[p] \o asks(p, lists[p]) \o If(p = c /\ gone # {}, Disable(gone)) \o last[p]
      BY <1>7
    <2>3. asks(p, lists[p]) \in Seq(Fit(p))
      <3> HIDE DEF shown
      <3> QED
        BY <2>1, RequestsSent
    <2>4. \A m : Contains(asks(p, lists[p]), m) <=> \E z \in shown(p) : m = Request(z)
      <3> HIDE DEF shown
      <3>1. /\ DOMAIN asks(p, lists[p]) = 1 .. Cardinality(shown(p))
            /\ \A i \in 1 .. Cardinality(shown(p)) : asks(p, lists[p])[i] = Request(lists[p][i])
        OBVIOUS
      <3>2. /\ \A i \in 1 .. Cardinality(shown(p)) : lists[p][i] \in shown(p)
            /\ \A z \in shown(p) : \E i \in 1 .. Cardinality(shown(p)) : lists[p][i] = z
        BY <2>1 DEF Orders
      <3> HIDE DEF asks
      <3>3. PICK a, n : a = asks(p, lists[p]) /\ n = Cardinality(shown(p))
        OBVIOUS
      <3>4. /\ DOMAIN a = 1 .. n /\ \A i \in 1 .. n : a[i] = Request(lists[p][i])
            /\ \A i \in 1 .. n : lists[p][i] \in shown(p)
            /\ \A z \in shown(p) : \E i \in 1 .. n : lists[p][i] = z
        BY <3>1, <3>2, <3>3
      <3>5. \A m : Contains(a, m) <=> \E i \in 1 .. n : Request(lists[p][i]) = m
        BY <3>4, Zenon DEF Contains
      <3>6. \A m : (\E i \in 1 .. n : Request(lists[p][i]) = m) <=> \E z \in shown(p) : m = Request(z)
        BY <3>4, Zenon
      <3> QED
        BY <3>3, <3>5, <3>6
    <2>5. If(p = c /\ gone # {}, Disable(gone)) \in Seq(Fit(p))
      <3>1. p = c /\ gone # {} => Disable(gone) \in Fit(p)
        BY <1>6, ServerMessages
      <3> HIDE DEF gone
      <3> QED
        BY <3>1, IfMessage
    <2>6. \A m : Contains(If(p = c /\ gone # {}, Disable(gone)), m) <=> p = c /\ gone # {} /\ m = Disable(gone)
      <3> HIDE DEF gone
      <3> QED
        BY DEF If, Contains
    <2> HIDE DEF asks, gone, shown
    <2>7. PICK a, b : a = asks(p, lists[p]) /\ b = If(p = c /\ gone # {}, Disable(gone))
      OBVIOUS
    <2>8. PICK s : s = first[p] \o a
      OBVIOUS
    <2>9. /\ first[p] \in Seq(Fit(p)) /\ a \in Seq(Fit(p))
          /\ b \in Seq(Fit(p)) /\ last[p] \in Seq(Fit(p))
      BY <2>3, <2>5, <2>7
    <2>10. s \in Seq(Fit(p)) /\ \A m : Contains(s, m) <=> Contains(first[p], m) \/ Contains(a, m)
      BY <2>8, <2>9, Joined, ContainsJoined
    <2>11. PICK t : t = s \o b
      OBVIOUS
    <2>12. t \in Seq(Fit(p)) /\ \A m : Contains(t, m) <=> Contains(s, m) \/ Contains(b, m)
      BY <2>9, <2>10, <2>11, Joined, ContainsJoined
    <2>13. PICK u : u = t \o last[p]
      OBVIOUS
    <2>14. u \in Seq(Fit(p)) /\ \A m : Contains(u, m) <=> Contains(t, m) \/ Contains(last[p], m)
      BY <2>9, <2>12, <2>13, Joined, ContainsJoined
    <2>15. mail[p] = u
      BY <2>2, <2>7, <2>8, <2>11, <2>13
    <2> QED
      BY <2>4, <2>6, <2>7, <2>10, <2>12, <2>14, <2>15
  <1>9. \A z : Request(z).type = "request"
    BY DEF Request
  <1>10. gone = {d \in DoIds : objs[d] \in current[c] \ current'[c]}
    BY <1>5
  <1>11. \A p \in Clients \ {c}, z \in current'[c] \ current[c] : p \in listeners[z] => z \in shown(p)
    BY <1>5
  <1>12. Post(mail)
    BY <1>2, <1>7
  <1> HIDE DEF mails, gone, shown
  <1>13. \A p \in Clients : \A m : Contains(mail[p], m) =>
            \/ Contains(first[p], m) \/ Contains(last[p], m)
            \/ m.type = "request"
            \/ p = c /\ m = Disable(gone)
    <2> SUFFICES ASSUME NEW p \in Clients, NEW m, Contains(mail[p], m)
                 PROVE  \/ Contains(first[p], m) \/ Contains(last[p], m)
                        \/ m.type = "request"
                        \/ p = c /\ m = Disable(gone)
      OBVIOUS
    <2>1. \/ Contains(first[p], m) \/ Contains(last[p], m)
          \/ \E z \in shown(p) : m = Request(z)
          \/ p = c /\ gone # {} /\ m = Disable(gone)
      BY <1>8
    <2> QED
      BY <1>9, <2>1
  <1>14. \A p \in Clients \ {c}, z \in current'[c] \ current[c] :
           p \in listeners[z] => Contains(mail[p], Request(z))
    BY <1>8, <1>11
  <1>15. gone # {} => Contains(mail[c], Disable(gone))
    BY <1>8
  <1>16. ZonesPost(c, gone, first, last, mail)
    BY <1>8, <1>12, <1>13, <1>14, <1>15 DEF ZonesPost
  <1> QED
    BY <1>1, <1>5, <1>10, <1>16

LEMMA HiddenBy == \A s, d : HiddenIn(s, d) <=> \E m : Contains(s, m) /\ Hides(m, d)
  BY DEF HiddenIn, Contains

(* A client speaks of its own objects.                                     *)
LEMMA OwnWords ==
  ASSUME NEW c \in Clients, NEW m \in FromClient(c), NEW d,
         Speaks(m, d) \/ Shows(m, d) \/ Moves(m, d)
  PROVE  d \in Own(c)
  BY ClientMessageKinds DEF Speaks, Shows, Moves

LEMMA OtherKinds ==
  /\ \A z, d : ~Speaks(Request(z), d) /\ ~Hides(Request(z), d)
  /\ \A m, d : m.type = "request" => ~Speaks(m, d) /\ ~Hides(m, d)
  /\ \A S, d : ~Speaks(Disable(S), d) /\ (Hides(Disable(S), d) <=> d \in S)
  /\ \A e, d : ~Speaks(Delete(e), d) /\ (Hides(Delete(e), d) <=> e = d)
  /\ \A m, d : Shows(m, d) => Speaks(m, d)
  /\ \A m, d : Speaks(m, d) => ~Hides(m, d)
  BY DEF Speaks, Shows, Hides, Request, Disable, Delete

(* What is sent besides fits what m changes: the objects of c are then in  *)
(* `objs'.                                                                 *)
Fitting(c, m, objs, first, last) ==
  /\ \A p \in Clients : first[p] \in Seq(Fit(p)) /\ last[p] \in Seq(Fit(p))
  /\ \A p \in Clients, d \in DoIds : \A e : Contains(first[p], e) \/ Contains(last[p], e) =>
       /\ Speaks(e, d) => e = m /\ p # c /\ objs[d] \in current[p]
       /\ Hides(e, d) => d \in Own(c) /\ (p # c => objs[d] \notin current[p])
  /\ \A p \in Clients \ {c}, d \in Own(c) :
       /\ objects[d] \in current[p] /\ objs[d] \notin current[p] =>
            \E e : (Contains(first[p], e) \/ Contains(last[p], e)) /\ Hides(e, d)
       /\ Speaks(m, d) /\ objs[d] \in current[p] => Contains(first[p], m) \/ Contains(last[p], m)
  /\ \A d \in Own(c) :
       /\ Shows(m, d) => objs[d] = m.zone
       /\ Shows(m, d) \/ Moves(m, d) \/ objs[d] \in {objects[d], NoZone}
       /\ objs[d] = NoZone /\ objects[d] # NoZone => Contains(first[c], Delete(d))

(* The zones of c are computed again.                                      *)
LEMMA ZonesEffect ==
  ASSUME Books, Books', online \subseteq Clients, NEW c \in Clients, NEW m \in FromClient(c),
         NEW objs \in [DoIds -> Zones \cup {NoZone}],
         \A d \in DoIds : d \notin Own(c) => objs[d] = objects[d],
         NEW asked \in SUBSET Zones, NEW first, NEW last,
         Fitting(c, m, objs, first, last),
         UpdateClientInterestZones(c, objs, asked, first, last)
  PROVE  \E mail : Effect(c, m, mail)
  <1> USE DEF Fitting
  <1>1. /\ objects' = objs
        /\ \A p \in Clients \ {c} : current'[p] = current[p]
    BY ZonesMail
  <1> DEFINE gone == {d \in DoIds : objs[d] \in current[c] \ current'[c]}
  <1>2. PICK mail : ZonesPost(c, gone, first, last, mail)
    BY ZonesMail
  <1>2a. /\ Post(mail)
         /\ \A p \in Clients : mail[p] \in Seq(Fit(p))
         /\ \A p \in Clients : \A e : Contains(mail[p], e) =>
              \/ Contains(first[p], e) \/ Contains(last[p], e)
              \/ e.type = "request"
              \/ p = c /\ e = Disable(gone)
         /\ \A p \in Clients : \A e :
              Contains(first[p], e) \/ Contains(last[p], e) => Contains(mail[p], e)
         /\ \A p \in Clients \ {c}, z \in current'[c] \ current[c] :
              p \in listeners[z] => Contains(mail[p], Request(z))
         /\ gone # {} => Contains(mail[c], Disable(gone))
    BY <1>2 DEF ZonesPost
  <1>3. /\ \A p \in Clients : current[p] \in SUBSET Zones /\ current'[p] \in SUBSET Zones
        /\ NoZone \notin Zones /\ Own(c) \subseteq DoIds
        /\ ServerTypes /\ TablesAgree
    BY SetsAssumption, Owned DEF Books, ServerTypes
  <1>4. \A d \in gone : objects'[d] \notin current'[c]
    BY <1>1
  <1>5. gone \cap Own(c) = {} /\ gone \subseteq DoIds
    <2>1. current'[c] = Zoned(c, objs, asked)
      BY ZonesMail
    <2>2. ASSUME NEW d \in Own(c), objs[d] \in current[c] PROVE objs[d] \in current'[c]
      BY <1>3, <2>1, <2>2 DEF Zoned
    <2> QED
      BY <2>2
  <1> HIDE DEF gone
  <1>6. \A p \in online : mail[p] \in Seq(Fit(p)) /\ toClient'[p] = toClient[p] \o mail[p]
    BY <1>2a DEF Post
  <1>7. ASSUME NEW p \in online, NEW d \in DoIds, NEW i \in DOMAIN mail[p], Speaks(mail[p][i], d)
        PROVE  mail[p][i] = m /\ p # c /\ objects'[d] \in current'[p]
    <2>1. PICK e : e = mail[p][i]
      OBVIOUS
    <2>2. Contains(mail[p], e) /\ Speaks(e, d)
      BY <1>7, <2>1 DEF Contains
    <2>3. Contains(first[p], e) \/ Contains(last[p], e)
      BY <1>2a, <2>2, OtherKinds
    <2>4. e = m /\ p # c /\ objs[d] \in current[p]
      BY <2>2, <2>3
    <2> QED
      BY <1>1, <2>1, <2>4
  <1>8. ASSUME NEW p \in online, NEW d \in DoIds \ Own(p)
        PROVE  /\ HiddenIn(mail[p], d) => objects'[d] \notin current'[p]
               /\ objects[d] \in current[p] => HiddenIn(mail[p], d) \/ objects'[d] \in current'[p]
               /\ Speaks(m, d) /\ objects'[d] \in current'[p] => Contains(mail[p], m)
    <2>1. ASSUME NEW e, Contains(mail[p], e), Hides(e, d) PROVE objects'[d] \notin current'[p]
      <3>1. CASE Contains(first[p], e) \/ Contains(last[p], e)
        <4>1. d \in Own(c) /\ (p # c => objs[d] \notin current[p])
          BY <2>1, <3>1
        <4> QED
          BY <1>1, <4>1
      <3>2. CASE e.type = "request"
        BY <2>1, <3>2, OtherKinds
      <3>3. CASE p = c /\ e = Disable(gone)
        BY <1>4, <2>1, <3>3, OtherKinds
      <3> QED
        BY <1>2a, <2>1, <3>1, <3>2, <3>3
    <2>2. ASSUME objects[d] \in current[p], objects'[d] \notin current'[p] PROVE HiddenIn(mail[p], d)
      <3>1. CASE p # c
        <4>1. current'[p] = current[p]
          BY <1>1, <3>1
        <4>2. d \in Own(c) /\ objs[d] \notin current[p]
          BY <1>1, <2>2, <4>1
        <4>3. PICK e : (Contains(first[p], e) \/ Contains(last[p], e)) /\ Hides(e, d)
          BY <2>2, <3>1, <4>2
        <4> QED
          BY <1>2a, <4>3, HiddenBy
      <3>2. CASE p = c
        <4>1. objs[d] = objects[d]
          BY <3>2
        <4>2. d \in gone
          BY <1>1, <2>2, <3>2, <4>1 DEF gone
        <4>3. Contains(mail[c], Disable(gone)) /\ Hides(Disable(gone), d)
          BY <1>2a, <4>2, OtherKinds
        <4> QED
          BY <3>2, <4>3, HiddenBy
      <3> QED
        BY <3>1, <3>2
    <2>3. ASSUME Speaks(m, d), objects'[d] \in current'[p] PROVE Contains(mail[p], m)
      <3>1. d \in Own(c) /\ p # c
        BY <2>3, OwnWords
      <3>2. Contains(first[p], m) \/ Contains(last[p], m)
        BY <1>1, <2>3, <3>1
      <3> QED
        BY <1>2a, <3>2
    <2> QED
      BY <2>1, <2>2, <2>3, HiddenBy
  <1>9. ASSUME NEW p \in online, NEW d \in DoIds \ Own(p), objects'[d] \in current'[p],
               ~Shows(m, d), ~Moves(m, d), ~(objects'[d] = objects[d] /\ objects[d] \in current[p]),
               NEW o \in online, d \in Own(o)
        PROVE  Contains(mail[o], Request(objects'[d]))
    <2>1. o # p /\ objects'[d] \in Zones
      BY <1>3, <1>9
    <2>2. p = c
      <3> SUFFICES ASSUME p # c PROVE FALSE
        OBVIOUS
      <3>1. current'[p] = current[p]
        BY <1>1
      <3>2. d \in Own(c)
        BY <1>1, <1>9, <3>1
      <3>3. objs[d] \in {objects[d], NoZone}
        BY <1>9, <3>2
      <3> QED
        BY <1>1, <1>3, <1>9, <3>1, <3>3
    <2>3. objects'[d] = objects[d] /\ objects[d] \in current'[c] \ current[c]
      BY <1>1, <1>9, <2>2
    <2>4. o \in listeners[objects[d]]
      <3>1. objects[d] \in Zoned(o, objects, explicit[o])
        BY <1>3, <1>9, <2>1, <2>3 DEF Zoned
      <3> QED
        BY <1>3, <2>1, <2>3, <3>1 DEF TablesAgree
    <2> QED
      BY <1>2a, <2>1, <2>2, <2>3, <2>4
  <1>10. ASSUME NEW d \in DoIds
         PROVE  /\ Shows(m, d) => objects'[d] = m.zone
                /\ Shows(m, d) \/ Moves(m, d) \/ objects'[d] \in {objects[d], NoZone}
                /\ objects'[d] = NoZone /\ objects[d] # NoZone =>
                     \A o \in online : d \in Own(o) => Contains(mail[o], Delete(d))
    <2>1. CASE d \in Own(c)
      <3>1. \A o \in online : d \in Own(o) => o = c
        BY <2>1, Owned
      <3> QED
        BY <1>1, <1>2a, <2>1, <3>1
    <2>2. CASE d \notin Own(c)
      BY <1>1, <2>2, OwnWords
    <2> QED
      BY <2>1, <2>2
  <1>11. \A p \in online : \A d \in DoIds \ Own(p) : objects'[d] \in current'[p] =>
           \/ Shows(m, d) \/ Moves(m, d)
           \/ objects'[d] = objects[d] /\ objects[d] \in current[p]
           \/ \A o \in online : d \in Own(o) => Contains(mail[o], Request(objects'[d]))
    BY <1>9
  <1>12. Effect(c, m, mail)
    BY <1>6, <1>7, <1>8, <1>10, <1>11 DEF Effect
  <1> QED
    BY <1>12

LEMMA Listed ==
  /\ \A e : ~Contains(<<>>, e)
  /\ \A b \in BOOLEAN : \A m, e : Contains(If(b, m), e) <=> b /\ e = m
  BY DEF Contains, If

LEMMA NothingIn == \A p \in Clients : \A e : ~Contains(Nothing[p], e)
  BY Listed DEF Nothing

(* The messages to those who look at a zone.                               *)
LEMMA SentTo ==
  ASSUME Books, NEW z \in Zones, NEW p \in Clients, NEW m, NEW e
  PROVE  Contains(ToZone(z, m)[p], e) <=> e = m /\ z \in current[p]
  <1>1. p \in listeners[z] <=> z \in current[p]
    BY DEF Books, TablesAgree
  <1>2. ToZone(z, m)[p] = If(p \in listeners[z], m)
    BY DEF ToZone
  <1>3. (p \in listeners[z]) \in BOOLEAN
    OBVIOUS
  <1>4. Contains(If(p \in listeners[z], m), e) <=> p \in listeners[z] /\ e = m
    BY <1>3, Listed, Zenon
  <1> QED
    BY <1>1, <1>2, <1>4

LEMMA SentToOthers ==
  ASSUME Books, NEW z \in Zones, NEW p \in Clients, NEW m, NEW e, NEW c
  PROVE  Contains(ToZoneExcept(z, m, c)[p], e) <=> e = m /\ p # c /\ z \in current[p]
  <1>1. p \in listeners[z] <=> z \in current[p]
    BY DEF Books, TablesAgree
  <1>2. ToZoneExcept(z, m, c)[p] = If(p \in listeners[z] \ {c}, m)
    BY DEF ToZoneExcept
  <1>3. (p \in listeners[z] \ {c}) \in BOOLEAN
    OBVIOUS
  <1>4. Contains(If(p \in listeners[z] \ {c}, m), e) <=> p \in listeners[z] \ {c} /\ e = m
    BY <1>3, Listed, Zenon
  <1> QED
    BY <1>1, <1>2, <1>4

(* Nothing moves, and at most m is passed on.                              *)
LEMMA PlainEffect ==
  ASSUME online \subseteq Clients, NEW c \in Clients, NEW m \in FromClient(c), NEW mail,
         UNCHANGED <<objects, current>>,
         \A p \in Clients : mail[p] \in Seq(Fit(p)),
         \A p \in online : toClient'[p] = toClient[p] \o mail[p],
         \A p \in Clients : \A e : Contains(mail[p], e) => e = m /\ p # c /\ \E d : Speaks(m, d),
         \A p \in Clients \ {c} : \A d \in DoIds : Speaks(m, d) =>
           (Contains(mail[p], m) <=> objects[d] \in current[p]),
         \A d \in DoIds : Shows(m, d) /\ Accepts(c, d) => objects[d] = m.zone
  PROVE  Effect(c, m, mail)
  <1>1. ASSUME NEW p \in online, NEW d \in DoIds, NEW i \in DOMAIN mail[p], Speaks(mail[p][i], d)
        PROVE  mail[p][i] = m /\ p # c /\ objects'[d] \in current'[p]
    <2>1. Contains(mail[p], mail[p][i])
      BY Zenon DEF Contains
    <2>2. mail[p][i] = m /\ p # c /\ p \in Clients
      BY <2>1
    <2> QED
      BY <1>1, <2>1, <2>2
  <1>2. ASSUME NEW p \in online, NEW d \in DoIds \ Own(p)
        PROVE  /\ ~HiddenIn(mail[p], d)
               /\ Speaks(m, d) /\ objects'[d] \in current'[p] => Contains(mail[p], m)
    <2>1. ~HiddenIn(mail[p], d)
      <3>1. ASSUME NEW e, Contains(mail[p], e), Hides(e, d) PROVE FALSE
        BY <3>1, ClientMessageKinds, OtherKinds DEF Hides, Speaks
      <3> QED
        BY <3>1, HiddenBy
    <2>2. ASSUME Speaks(m, d), objects'[d] \in current'[p] PROVE Contains(mail[p], m)
      <3>1. p # c
        BY <2>2, OwnWords
      <3> QED
        BY <2>2, <3>1
    <2> QED
      BY <2>1, <2>2
  <1>3. \A p \in online : mail[p] \in Seq(Fit(p)) /\ toClient'[p] = toClient[p] \o mail[p]
    OBVIOUS
  <1>4. objects' = objects /\ current' = current
    OBVIOUS
  <1> QED
    BY <1>1, <1>2, <1>3, <1>4 DEF Effect

(* What the others are passed on with an object in zone z, and what they    *)
(* are sent as the object comes into z from where it is.                    *)
PassedAt(c, m, d, z, last) ==
  /\ \A p \in Clients : last[p] \in Seq(Fit(p))
  /\ \A p \in Clients : \A e : Contains(last[p], e) <=> e = m /\ Shows(m, d) /\ p # c /\ z \in current[p]

SentAt(c, m, d, z, then) ==
  /\ \A p \in Clients : then[p] \in Seq(Fit(p))
  /\ \A p \in Clients : \A e : Contains(then[p], e) <=>
       \/ e = Disable({d}) /\ p # c /\ objects[d] \in current[p] /\ z \notin current[p]
       \/ e = m /\ Shows(m, d) /\ p # c /\ z \in current[p]

(* An object is put into a zone; those who lose sight of it are told.      *)
LEMMA PutEffect ==
  ASSUME Books, Books', online \subseteq Clients, NEW c \in Clients, NEW m \in FromClient(c),
         NEW d \in Own(c), NEW z \in Zones, Shows(m, d) \/ Moves(m, d), m.zone = z,
         NEW then, SentAt(c, m, d, z, then),
         UpdateClientInterestZones(c, [objects EXCEPT ![d] = z], explicit[c], Nothing, then)
  PROVE  \E mail : Effect(c, m, mail)
  <1>1. /\ objects \in [DoIds -> Zones \cup {NoZone}] /\ explicit[c] \in SUBSET Zones
        /\ d \in DoIds /\ NoZone \notin Zones
    BY SetsAssumption, Owned DEF Books, ServerTypes
  <1>a. /\ \A p \in Clients : then[p] \in Seq(Fit(p))
        /\ \A p \in Clients : \A e : Contains(then[p], e) <=>
             \/ e = Disable({d}) /\ p # c /\ objects[d] \in current[p] /\ z \notin current[p]
             \/ e = m /\ Shows(m, d) /\ p # c /\ z \in current[p]
    BY Zenon DEF SentAt
  <1>2. PICK objs : objs = [objects EXCEPT ![d] = z]
    OBVIOUS
  <1>3. /\ objs \in [DoIds -> Zones \cup {NoZone}]
        /\ objs[d] = z /\ \A e \in DoIds : e # d => objs[e] = objects[e]
        /\ UpdateClientInterestZones(c, objs, explicit[c], Nothing, then)
    BY <1>1, <1>2
  <1>4. /\ \A e : (Speaks(m, e) \/ Shows(m, e) \/ Moves(m, e) => e = d) /\ ~Hides(m, e)
        /\ \A e : Speaks(m, e) => Shows(m, e)
    BY DEF Speaks, Shows, Moves, Hides
  <1>5. \A p \in Clients : \A e : ~Contains(Nothing[p], e)
    BY NothingIn
  <1>6. \A p \in Clients : Nothing[p] \in Seq(Fit(p))
    BY NothingSent
  <1>7. ASSUME NEW p \in Clients, NEW b \in DoIds, NEW e, Contains(Nothing[p], e) \/ Contains(then[p], e)
        PROVE  /\ Speaks(e, b) => e = m /\ p # c /\ objs[b] \in current[p]
               /\ Hides(e, b) => b \in Own(c) /\ (p # c => objs[b] \notin current[p])
    <2>1. Contains(then[p], e)
      BY <1>5, <1>7
    <2>2. CASE e = Disable({d}) /\ p # c /\ objects[d] \in current[p] /\ z \notin current[p]
      <3>1. ~Speaks(e, b) /\ (Hides(e, b) <=> b = d)
        BY <2>2, OtherKinds
      <3> QED
        BY <1>3, <2>2, <3>1
    <2>3. CASE e = m /\ Shows(m, d) /\ p # c /\ z \in current[p]
      BY <1>3, <1>4, <2>3
    <2>4. \/ e = Disable({d}) /\ p # c /\ objects[d] \in current[p] /\ z \notin current[p]
          \/ e = m /\ Shows(m, d) /\ p # c /\ z \in current[p]
      BY <1>a, <2>1, Zenon
    <2> QED
      BY <2>2, <2>3, <2>4
  <1>8. ASSUME NEW p \in Clients \ {c}, NEW b \in Own(c)
        PROVE  /\ objects[b] \in current[p] /\ objs[b] \notin current[p] =>
                    \E e : (Contains(Nothing[p], e) \/ Contains(then[p], e)) /\ Hides(e, b)
               /\ Speaks(m, b) /\ objs[b] \in current[p] => Contains(Nothing[p], m) \/ Contains(then[p], m)
    <2>1. ASSUME objects[b] \in current[p], objs[b] \notin current[p]
          PROVE  Contains(then[p], Disable({d})) /\ Hides(Disable({d}), b)
      <3>1. b = d
        BY <1>3, <2>1, Owned
      <3>2. p \in Clients /\ p # c /\ objects[d] \in current[p] /\ z \notin current[p]
        BY <1>3, <2>1, <3>1
      <3>3. Contains(then[p], Disable({d}))
        BY <1>a, <3>2, Zenon
      <3> QED
        BY <3>1, <3>3, OtherKinds
    <2>2. ASSUME Speaks(m, b), objs[b] \in current[p] PROVE Contains(then[p], m)
      BY <1>3, <1>4, <1>a, <2>2
    <2> QED
      BY <2>1, <2>2, Zenon
  <1>9. ASSUME NEW b \in Own(c)
        PROVE  /\ Shows(m, b) => objs[b] = m.zone
               /\ Shows(m, b) \/ Moves(m, b) \/ objs[b] \in {objects[b], NoZone}
               /\ objs[b] = NoZone /\ objects[b] # NoZone => Contains(Nothing[c], Delete(b))
    BY <1>1, <1>3, <1>4, Owned
  <1>10. \A e \in DoIds : e \notin Own(c) => objs[e] = objects[e]
    BY <1>3
  <1>11. Fitting(c, m, objs, Nothing, then)
    BY <1>6, <1>7, <1>8, <1>9, <1>a DEF Fitting
  <1> QED
    BY <1>1, <1>3, <1>10, <1>11, ZonesEffect

(* setObjectZone, for a move or before a generate is passed on.            *)
LEMMA MovedEffect ==
  ASSUME Books, Books', online \subseteq Clients, NEW c \in Clients, NEW m \in FromClient(c),
         NEW d \in Own(c), NEW z \in Zones, Shows(m, d) \/ Moves(m, d), m.zone = z,
         objects[d] # NoZone, NEW last, PassedAt(c, m, d, z, last),
         Moved(c, d, z, last)
  PROVE  \E mail : Effect(c, m, mail)
  <1>a. /\ \A p \in Clients : last[p] \in Seq(Fit(p))
        /\ \A p \in Clients : \A e :
             Contains(last[p], e) <=> e = m /\ Shows(m, d) /\ p # c /\ z \in current[p]
    BY Zenon DEF PassedAt
  <1>1. CASE objects[d] = z
    <2>1. Post(last) /\ UNCHANGED <<objects, current>>
      BY <1>1 DEF Moved
    <2>2. \A p \in online : toClient'[p] = toClient[p] \o last[p]
      BY <2>1 DEF Post
    <2>3. /\ \A e : (Speaks(m, e) \/ Shows(m, e) => e = d)
          /\ \A e : Speaks(m, e) => Shows(m, e)
          /\ Shows(m, d) => Speaks(m, d)
      BY DEF Speaks, Shows, Moves
    <2>4. ASSUME NEW p \in Clients, NEW e, Contains(last[p], e)
          PROVE  e = m /\ p # c /\ \E b : Speaks(m, b)
      <3>1. e = m /\ Shows(m, d) /\ p # c /\ z \in current[p]
        BY <1>a, <2>4, Zenon
      <3> QED
        BY <2>3, <3>1
    <2>5. \A p \in Clients \ {c} : \A b \in DoIds : Speaks(m, b) =>
            (Contains(last[p], m) <=> objects[b] \in current[p])
      <3> SUFFICES ASSUME NEW p \in Clients \ {c}, NEW b \in DoIds, Speaks(m, b)
                   PROVE  Contains(last[p], m) <=> objects[b] \in current[p]
        OBVIOUS
      <3>1. b = d /\ Shows(m, d)
        BY <2>3
      <3>2. p \in Clients /\ p # c
        OBVIOUS
      <3>3. Contains(last[p], m) <=> z \in current[p]
        BY <1>a, <3>1, <3>2, Zenon
      <3> QED
        BY <1>1, <3>1, <3>3
    <2>6. \A b \in DoIds : Shows(m, b) /\ Accepts(c, b) => objects[b] = m.zone
      BY <1>1, <2>3
    <2>7. Effect(c, m, last)
      BY <1>a, <2>1, <2>2, <2>4, <2>5, <2>6, PlainEffect
    <2> QED
      BY <2>7
  <1>2. CASE objects[d] # z
    <2> DEFINE lost(p) == p \in listeners[objects[d]] \ {c} /\ z \notin current[p]
    <2>1. PICK then : then = [p \in Clients |-> If(lost(p), Disable({d})) \o last[p]]
      OBVIOUS
    <2>2. UpdateClientInterestZones(c, [objects EXCEPT ![d] = z], explicit[c], Nothing, then)
      BY <1>2, <2>1 DEF Moved
    <2>3. objects[d] \in Zones /\ d \in DoIds
      BY Owned DEF Books, ServerTypes
    <2>4. ASSUME NEW p \in Clients
          PROVE  /\ then[p] \in Seq(Fit(p))
                 /\ \A e : Contains(then[p], e) <=>
                      \/ e = Disable({d}) /\ p # c /\ objects[d] \in current[p] /\ z \notin current[p]
                      \/ e = m /\ Shows(m, d) /\ p # c /\ z \in current[p]
      <3>1. lost(p) <=> p # c /\ objects[d] \in current[p] /\ z \notin current[p]
        BY <2>3 DEF Books, TablesAgree
      <3>2. lost(p) \in BOOLEAN
        OBVIOUS
      <3>3. ASSUME lost(p) PROVE Disable({d}) \in Fit(p)
        <4>1. {d} \in SUBSET DoIds /\ {d} \cap Own(p) = {}
          BY <2>3, <3>1, <3>3, Owned
        <4> QED
          BY <4>1, ServerMessages
      <3>4. then[p] = If(lost(p), Disable({d})) \o last[p]
        BY <2>1
      <3> HIDE DEF lost
      <3>5. PICK s : s = If(lost(p), Disable({d}))
        OBVIOUS
      <3>6. s \in Seq(Fit(p))
        BY <3>2, <3>3, <3>5, IfMessage
      <3>7. \A e : Contains(s, e) <=> lost(p) /\ e = Disable({d})
        BY <3>2, <3>5, Listed
      <3>8. PICK t : t = last[p] /\ t \in Seq(Fit(p))
        BY <1>a
      <3>9. then[p] = s \o t
        BY <3>4, <3>5, <3>8
      <3>10. then[p] \in Seq(Fit(p)) /\ \A e : Contains(then[p], e) <=> Contains(s, e) \/ Contains(t, e)
        BY <3>6, <3>8, <3>9, Joined, ContainsJoined
      <3>11. \A e : Contains(t, e) <=> e = m /\ Shows(m, d) /\ p # c /\ z \in current[p]
        BY <1>a, <3>8, Zenon
      <3> QED
        BY <3>1, <3>7, <3>10, <3>11
    <2>5. SentAt(c, m, d, z, then)
      BY <2>4, Zenon DEF SentAt
    <2> QED
      BY <2>2, <2>5, PutEffect
  <1> QED
    BY <1>1, <1>2

(* An object is deleted, of which its owner is told as well.               *)
LEMMA DeletedEffect ==
  ASSUME Books, Books', online \subseteq Clients, NEW c \in Clients, NEW m \in FromClient(c),
         NEW d \in Own(c), m = Delete(d), objects[d] # NoZone,
         UpdateClientInterestZones(c, [objects EXCEPT ![d] = NoZone], explicit[c],
                                   ToZone(objects[d], m), Nothing)
  PROVE  \E mail : Effect(c, m, mail)
  <1>1. /\ objects \in [DoIds -> Zones \cup {NoZone}] /\ explicit[c] \in SUBSET Zones
        /\ d \in DoIds /\ NoZone \notin Zones /\ objects[d] \in Zones
        /\ \A p \in Clients : current[p] \in SUBSET Zones
    BY SetsAssumption, Owned DEF Books, ServerTypes
  <1>2. PICK objs, first : objs = [objects EXCEPT ![d] = NoZone] /\ first = ToZone(objects[d], m)
    OBVIOUS
  <1>3. /\ objs \in [DoIds -> Zones \cup {NoZone}]
        /\ objs[d] = NoZone /\ \A e \in DoIds : e # d => objs[e] = objects[e]
        /\ UpdateClientInterestZones(c, objs, explicit[c], first, Nothing)
    BY <1>1, <1>2
  <1>4. \A e : ~Speaks(m, e) /\ ~Shows(m, e) /\ ~Moves(m, e) /\ (Hides(m, e) <=> e = d)
    BY DEF Speaks, Shows, Moves, Hides, Delete
  <1>5. ASSUME NEW p \in Clients, NEW e
        PROVE  (Contains(first[p], e) <=> e = m /\ objects[d] \in current[p]) /\ ~Contains(Nothing[p], e)
    <2>1. PICK z \in Zones : z = objects[d] /\ first[p] = ToZone(z, m)[p]
      BY <1>1, <1>2
    <2>2. Contains(ToZone(z, m)[p], e) <=> e = m /\ z \in current[p]
      BY SentTo
    <2> QED
      BY <2>1, <2>2, NothingIn
  <1>6. \A p \in Clients : Nothing[p] \in Seq(Fit(p)) /\ first[p] \in Seq(Fit(p))
    BY <1>1, <1>2, NothingSent, PassedOn, ServerMessages
  <1>7. ASSUME NEW p \in Clients, NEW b \in DoIds, NEW e, Contains(first[p], e) \/ Contains(Nothing[p], e)
        PROVE  /\ Speaks(e, b) => e = m /\ p # c /\ objs[b] \in current[p]
               /\ Hides(e, b) => b \in Own(c) /\ (p # c => objs[b] \notin current[p])
    <2>1. e = m
      BY <1>5, <1>7
    <2> QED
      BY <1>1, <1>3, <1>4, <2>1
  <1>8. ASSUME NEW p \in Clients \ {c}, NEW b \in Own(c)
        PROVE  /\ objects[b] \in current[p] /\ objs[b] \notin current[p] =>
                    \E e : (Contains(first[p], e) \/ Contains(Nothing[p], e)) /\ Hides(e, b)
               /\ Speaks(m, b) /\ objs[b] \in current[p] => Contains(first[p], m) \/ Contains(Nothing[p], m)
    <2>1. ASSUME objects[b] \in current[p], objs[b] \notin current[p]
          PROVE  Contains(first[p], m) /\ Hides(m, b)
      <3>1. b = d
        BY <1>3, <2>1, Owned
      <3> QED
        BY <1>4, <1>5, <2>1, <3>1
    <2> QED
      BY <1>4, <2>1, Zenon
  <1>9. Contains(first[c], Delete(d))
    <2>1. objects[d] \in current[c]
      BY <1>1 DEF Books, TablesAgree, Zoned
    <2> QED
      BY <1>5, <2>1
  <1>10. ASSUME NEW b \in Own(c)
         PROVE  /\ Shows(m, b) => objs[b] = m.zone
                /\ Shows(m, b) \/ Moves(m, b) \/ objs[b] \in {objects[b], NoZone}
                /\ objs[b] = NoZone /\ objects[b] # NoZone => Contains(first[c], Delete(b))
    BY <1>3, <1>4, <1>9, Owned
  <1>11. \A e \in DoIds : e \notin Own(c) => objs[e] = objects[e]
    BY <1>3
  <1>12. Fitting(c, m, objs, first, Nothing)
    BY <1>6, <1>7, <1>8, <1>10 DEF Fitting
  <1> QED
    BY <1>1, <1>3, <1>11, <1>12, ZonesEffect

(* A client whose connection has ended is gone.                            *)
LEMMA GoneEffect ==
  ASSUME Books, Books', online \subseteq Clients, NEW c \in Clients \ online,
         HandleClientDisconnect(c)
  PROVE  \E mail : Effect(c, Disconnect, mail)
  <1> DEFINE mine == {d \in Own(c) : Exists(d)}
             rest == [z \in Zones |-> listeners[z] \ {c}]
             told(p) == {d \in mine : p \in rest[objects[d]]}
             mails == [p \in Clients |-> [i \in 1 .. Cardinality(told(p)) |-> Delete(Listing(told(p))[i])]]
  <1>1. /\ current' = [current EXCEPT ![c] = {}]
        /\ objects' = [d \in DoIds |-> IF d \in mine THEN NoZone ELSE objects[d]]
        /\ Post(mails)
    BY DEF HandleClientDisconnect
  <1>2. ServerTypes /\ TablesAgree /\ NoZone \notin Zones /\ Own(c) \subseteq DoIds
    BY SetsAssumption, Owned DEF Books
  <1>3. PICK mail : mail = mails
    OBVIOUS
  <1>4. ASSUME NEW p \in Clients
        PROVE  /\ mail[p] \in Seq(Fit(p))
               /\ \A e : Contains(mail[p], e) <=> \E d \in told(p) : e = Delete(d)
    <2>1. mail[p] = [i \in 1 .. Cardinality(told(p)) |-> Delete(Listing(told(p))[i])]
      BY <1>3
    <2>2. told(p) \in SUBSET DoIds
      BY Owned
    <2> HIDE DEF told
    <2>3. PICK list, n : list = Listing(told(p)) /\ n = Cardinality(told(p))
      OBVIOUS
    <2>4. n \in Nat /\ \A i \in 1 .. n : list[i] \in told(p)
      BY <2>2, <2>3, Finite, ListingOf
    <2>5. \A d \in told(p) : \E i \in 1 .. n : list[i] = d
      BY <2>2, <2>3, Finite, ListingAll
    <2>6. DOMAIN mail[p] = 1 .. n /\ \A i \in 1 .. n : mail[p][i] = Delete(list[i])
      BY <2>1, <2>3
    <2>7. mail[p] \in Seq(Fit(p))
      <3>1. \A i \in 1 .. n : Delete(list[i]) \in Fit(p)
        BY <2>2, <2>4, ServerMessages
      <3>2. mail[p] \in [1 .. n -> Fit(p)]
        BY <2>1, <2>3, <3>1
      <3> QED
        BY <2>4, <3>2, SeqOf
    <2>8. \A e : Contains(mail[p], e) <=> \E d \in told(p) : e = Delete(d)
      BY <2>4, <2>5, <2>6, Zenon DEF Contains
    <2> QED
      BY <2>7, <2>8
  <1>5. \A p \in online : p \in Clients /\ p # c /\ current'[p] = current[p]
                          /\ mail[p] \in Seq(Fit(p)) /\ toClient'[p] = toClient[p] \o mail[p]
    BY <1>1, <1>2, <1>3, <1>4 DEF Post, ServerTypes
  <1>6. ASSUME NEW p \in online, NEW d \in DoIds, NEW i \in DOMAIN mail[p] PROVE ~Speaks(mail[p][i], d)
    <2>1. Contains(mail[p], mail[p][i])
      BY Zenon DEF Contains
    <2>2. \A e : Contains(mail[p], e) <=> \E b \in told(p) : e = Delete(b)
      BY <1>4, <1>5
    <2> HIDE DEF told
    <2>3. \E b \in told(p) : mail[p][i] = Delete(b)
      BY <2>1, <2>2, Zenon
    <2> QED
      BY <2>3, OtherKinds
  <1>7. ASSUME NEW p \in online, NEW d \in DoIds
        PROVE  HiddenIn(mail[p], d) <=> d \in told(p)
    <2>1. \A e : Contains(mail[p], e) <=> \E b \in told(p) : e = Delete(b)
      BY <1>4, <1>5
    <2> HIDE DEF told
    <2>2. HiddenIn(mail[p], d) <=> \E e : Contains(mail[p], e) /\ Hides(e, d)
      BY HiddenBy
    <2>3. (\E e : Contains(mail[p], e) /\ Hides(e, d)) <=> \E b \in told(p) : Hides(Delete(b), d)
      BY <2>1, Zenon
    <2>4. \A b : Hides(Delete(b), d) <=> b = d
      BY OtherKinds
    <2> QED
      BY <2>2, <2>3, <2>4
  <1>8. ASSUME NEW p \in online, NEW d \in DoIds
        PROVE  /\ d \in told(p) => objects'[d] \notin current'[p]
               /\ objects[d] \in current[p] => d \in told(p) \/ objects'[d] \in current'[p]
               /\ objects'[d] \in current'[p] => objects'[d] = objects[d] /\ objects[d] \in current[p]
    <2>1. current[p] \in SUBSET Zones /\ current'[p] = current[p] /\ p # c /\ p \in Clients
      BY <1>2, <1>5 DEF ServerTypes
    <2>2. CASE d \in mine
      <3>1. objects'[d] = NoZone /\ objects[d] \in Zones
        BY <1>1, <1>2, <2>2 DEF Exists, ServerTypes
      <3>2. p \in rest[objects[d]] <=> objects[d] \in current[p]
        BY <1>2, <2>1, <3>1 DEF TablesAgree
      <3> QED
        BY <1>2, <2>1, <2>2, <3>1, <3>2
    <2>3. CASE d \notin mine
      <3>1. objects'[d] = objects[d]
        BY <1>1, <2>3
      <3> QED
        BY <2>1, <2>3, <3>1
    <2> QED
      BY <2>2, <2>3
  <1>9. ASSUME NEW d \in DoIds
        PROVE  /\ objects'[d] \in {objects[d], NoZone}
               /\ objects'[d] = NoZone /\ objects[d] # NoZone => \A o \in online : d \notin Own(o)
    <2>1. CASE d \in mine
      BY <1>1, <1>5, <2>1, Owned
    <2>2. CASE d \notin mine
      BY <1>1, <2>2
    <2> QED
      BY <2>1, <2>2
  <1>10. \A d : ~Speaks(Disconnect, d) /\ ~Shows(Disconnect, d) /\ ~Moves(Disconnect, d)
    BY DEF Speaks, Shows, Moves, Disconnect
  <1> HIDE DEF told
  <1>11. Effect(c, Disconnect, mail)
    BY <1>5, <1>6, <1>7, <1>8, <1>9, <1>10 DEF Effect
  <1> QED
    BY <1>11

(* Any message that the server handles.                                    *)
LEMMA ReceiptEffect ==
  ASSUME IInv, IInv', Flow, Vetted, NEW c \in Clients, ServerReceive(c)
  PROVE  \E mail : Effect(c, Head(toServer[c]), mail)
  <1>1. PICK m \in FromClient(c) : m = Head(toServer[c])
    BY TakenFirst DEF IInv, Said, ServerReceive
  <1> SUFFICES \E mail : Effect(c, m, mail)
    BY <1>1
  <1>2. /\ Books /\ Books' /\ online \subseteq Clients
        /\ \A p \in Clients : toClient[p] \in Seq(Fit(p))
    BY DEF IInv, ClientTypes, Told
  <1>3. \/ HandleClientCreateObject(c, m)
        \/ HandleClientObjectUpdateField(c, m)
        \/ HandleClientObjectSetZone(c, m)
        \/ HandleClientDeleteObject(c, m)
        \/ HandleClientSetInterest(c, m)
        \/ m.type = "disconnect" /\ HandleClientDisconnect(c)
    BY <1>1 DEF ServerReceive
  <1>4. /\ Own(c) \subseteq DoIds /\ explicit[c] \in SUBSET Zones
        /\ objects \in [DoIds -> Zones \cup {NoZone}]
        /\ NoZone \notin Zones
        /\ \A p \in Clients : current[p] \in SUBSET Zones
    BY <1>2, Owned, SetsAssumption DEF Books, ServerTypes
  <1>5. \A p \in Clients : Nothing[p] \in Seq(Fit(p)) /\ \A e : ~Contains(Nothing[p], e)
    BY NothingSent, NothingIn
  <1>6. ASSUME UNCHANGED <<objects, current, toClient>>,
               \A d \in DoIds : /\ Shows(m, d) => ~Accepts(c, d)
                                /\ Speaks(m, d) => ~Exists(d)
        PROVE  \E mail : Effect(c, m, mail)
    <2>1. ASSUME NEW p \in online PROVE toClient'[p] = toClient[p] \o Nothing[p]
      <3>1. Nothing[p] = <<>> /\ toClient[p] \in Seq(Fit(p)) /\ toClient'[p] = toClient[p]
        BY <1>2, <1>6 DEF Nothing
      <3> QED
        BY <3>1
    <2>2. \A p \in Clients : \A e : Contains(Nothing[p], e) => e = m /\ p # c /\ \E d : Speaks(m, d)
      BY <1>5
    <2>3. \A p \in Clients \ {c} : \A d \in DoIds : Speaks(m, d) =>
            (Contains(Nothing[p], m) <=> objects[d] \in current[p])
      BY <1>4, <1>5, <1>6 DEF Exists
    <2>4. /\ \A p \in Clients : Nothing[p] \in Seq(Fit(p))
          /\ \A d \in DoIds : Shows(m, d) /\ Accepts(c, d) => objects[d] = m.zone
      BY <1>5, <1>6
    <2>5. Effect(c, m, Nothing)
      BY <1>2, <1>6, <2>1, <2>2, <2>3, <2>4, PlainEffect
    <2> QED
      BY <2>5
  <1>7. CASE HandleClientCreateObject(c, m)
    <2>1. PICK d \in Own(c), z \in Zones : m.doId = d /\ m.zone = z
      BY <1>7, ClientMessageKinds DEF HandleClientCreateObject
    <2>2. Shows(m, d) /\ \A p \in Clients : m \in Fit(p)
      BY <1>4, <1>7, <2>1, ClientMessageKinds, ServerMessages DEF HandleClientCreateObject, Shows
    <2>3. PICK relay : relay = ToZoneExcept(z, m, c)
      OBVIOUS
    <2>4. \A p \in Clients : relay[p] \in Seq(Fit(p))
      BY <2>2, <2>3, PassedOn
    <2>5. \A p \in Clients : \A e :
            Contains(relay[p], e) <=> e = m /\ Shows(m, d) /\ p # c /\ z \in current[p]
      <3> SUFFICES ASSUME NEW p \in Clients, NEW e
                   PROVE  Contains(relay[p], e) <=> e = m /\ Shows(m, d) /\ p # c /\ z \in current[p]
        OBVIOUS
      <3>1. Contains(relay[p], e) <=> e = m /\ p # c /\ z \in current[p]
        BY <1>2, <2>3, SentToOthers
      <3> QED
        BY <2>2, <3>1
    <2>6. CASE Accepts(c, d) /\ Exists(d)
      <3>1. Moved(c, d, z, relay) /\ objects[d] # NoZone
        BY <1>7, <2>1, <2>3, <2>6 DEF HandleClientCreateObject, Exists
      <3>2. PassedAt(c, m, d, z, relay)
        BY <2>4, <2>5, Zenon DEF PassedAt
      <3> QED
        BY <1>2, <2>1, <2>2, <3>1, <3>2, MovedEffect
    <2>7. CASE Accepts(c, d) /\ ~Exists(d)
      <3>1. UpdateClientInterestZones(c, [objects EXCEPT ![d] = z], explicit[c], Nothing, relay)
        BY <1>7, <2>1, <2>3, <2>7 DEF HandleClientCreateObject
      <3>2. \A p \in Clients : objects[d] \notin current[p]
        BY <1>4, <2>7 DEF Exists
      <3>3. \A p \in Clients : \A e : Contains(relay[p], e) <=>
              \/ e = Disable({d}) /\ p # c /\ objects[d] \in current[p] /\ z \notin current[p]
              \/ e = m /\ Shows(m, d) /\ p # c /\ z \in current[p]
        BY <2>5, <3>2, Zenon
      <3>4. SentAt(c, m, d, z, relay)
        BY <2>4, <3>3, Zenon DEF SentAt
      <3> QED
        BY <1>2, <2>1, <2>2, <3>1, <3>4, PutEffect
    <2>8. CASE ~Accepts(c, d)
      <3>1. UNCHANGED <<objects, current, toClient>>
        BY <1>7, <2>1, <2>8 DEF HandleClientCreateObject
      <3>2. \A e \in DoIds : Shows(m, e) \/ Speaks(m, e) => e = d
        BY <1>7, <2>1 DEF HandleClientCreateObject, Shows, Speaks
      <3>3. ~Exists(d)
        BY <2>1, <2>8 DEF Vetted
      <3> QED
        BY <1>6, <2>8, <3>1, <3>2, <3>3
    <2> QED
      BY <2>6, <2>7, <2>8
  <1>8. CASE HandleClientObjectUpdateField(c, m)
    <2>1. PICK d \in Own(c) : m.doId = d
      BY <1>8, ClientMessageKinds DEF HandleClientObjectUpdateField
    <2>2. /\ \A p \in Clients : m \in Fit(p)
          /\ Speaks(m, d) /\ \A e : Speaks(m, e) => e = d
          /\ \A e : ~Shows(m, e)
      BY <1>4, <1>8, <2>1, ClientMessageKinds, ServerMessages DEF HandleClientObjectUpdateField, Speaks, Shows
    <2>3. CASE Exists(d)
      <3>1. PICK z \in Zones : z = objects[d]
        BY <1>4, <2>3 DEF Exists
      <3>a. PICK mail : mail = ToZoneExcept(z, m, c)
        OBVIOUS
      <3>2. Post(mail) /\ UNCHANGED <<objects, current>>
        BY <1>8, <2>1, <2>3, <3>1, <3>a DEF HandleClientObjectUpdateField, server
      <3>3. \A p \in Clients : mail[p] \in Seq(Fit(p))
        BY <2>2, <3>1, <3>a, PassedOn
      <3>4. \A p \in online : toClient'[p] = toClient[p] \o mail[p]
        BY <1>2, <3>2 DEF Post
      <3>5. ASSUME NEW p \in Clients, NEW e
            PROVE  Contains(mail[p], e) <=> e = m /\ p # c /\ z \in current[p]
        <4>1. Contains(ToZoneExcept(z, m, c)[p], e) <=> e = m /\ p # c /\ z \in current[p]
          BY <1>2, SentToOthers, Zenon
        <4> QED
          BY <3>a, <4>1
      <3>6. \A p \in Clients : \A e : Contains(mail[p], e) => e = m /\ p # c /\ \E b : Speaks(m, b)
        <4> SUFFICES ASSUME NEW p \in Clients, NEW e, Contains(mail[p], e)
                     PROVE  e = m /\ p # c /\ \E b : Speaks(m, b)
          OBVIOUS
        <4>1. e = m /\ p # c
          BY <3>5
        <4> QED
          BY <2>2, <4>1
      <3>7. \A p \in Clients \ {c} : \A b \in DoIds : Speaks(m, b) => (Contains(mail[p], m) <=> objects[b] \in current[p])
        <4> SUFFICES ASSUME NEW p \in Clients \ {c}, NEW b \in DoIds, Speaks(m, b)
                     PROVE  Contains(mail[p], m) <=> objects[b] \in current[p]
          OBVIOUS
        <4>1. p \in Clients /\ p # c /\ b = d
          BY <2>2
        <4>2. Contains(mail[p], m) <=> z \in current[p]
          BY <3>5, <4>1
        <4> QED
          BY <3>1, <3>a, <4>1, <4>2
      <3>8. Effect(c, m, mail)
        BY <1>2, <2>2, <3>2, <3>3, <3>4, <3>6, <3>7, PlainEffect
      <3> QED
        BY <3>8
    <2>4. CASE ~Exists(d)
      <3>1. UNCHANGED <<objects, current, toClient>>
        BY <1>8, <2>1, <2>4 DEF HandleClientObjectUpdateField, server
      <3> QED
        BY <1>6, <2>2, <2>4, <3>1
    <2> QED
      BY <2>3, <2>4
  <1>9. CASE HandleClientObjectSetZone(c, m)
    <2>1. PICK d \in Own(c), z \in Zones : m.doId = d /\ m.zone = z
      BY <1>9, ClientMessageKinds DEF HandleClientObjectSetZone
    <2>2. Moves(m, d) /\ \A e : ~Speaks(m, e) /\ ~Shows(m, e)
      BY <1>9, <2>1 DEF HandleClientObjectSetZone, Moves, Speaks, Shows
    <2>3. CASE Exists(d)
      <3>1. Moved(c, d, z, Nothing) /\ objects[d] # NoZone
        BY <1>9, <2>1, <2>3 DEF HandleClientObjectSetZone, Exists
      <3>2. \A p \in Clients : \A e :
              Contains(Nothing[p], e) <=> e = m /\ Shows(m, d) /\ p # c /\ z \in current[p]
        BY <1>5, <2>2, Zenon
      <3>3. \A p \in Clients : Nothing[p] \in Seq(Fit(p))
        BY <1>5
      <3>4. PassedAt(c, m, d, z, Nothing)
        BY <3>2, <3>3, Zenon DEF PassedAt
      <3> QED
        BY <1>2, <2>1, <2>2, <3>1, <3>4, MovedEffect
    <2>4. CASE ~Exists(d)
      <3>1. UNCHANGED <<objects, current, toClient>>
        BY <1>9, <2>1, <2>4 DEF HandleClientObjectSetZone
      <3> QED
        BY <1>6, <2>2, <3>1
    <2> QED
      BY <2>3, <2>4
  <1>10. CASE HandleClientDeleteObject(c, m)
    <2>1. PICK d \in Own(c) : m.doId = d /\ m = Delete(d)
      BY <1>10, ClientMessageKinds DEF HandleClientDeleteObject
    <2>2. CASE Exists(d)
      <3>1. /\ UpdateClientInterestZones(c, [objects EXCEPT ![d] = NoZone], explicit[c],
                                         ToZone(objects[d], m), Nothing)
            /\ objects[d] # NoZone
        BY <1>10, <2>1, <2>2 DEF HandleClientDeleteObject, Exists
      <3> QED
        BY <1>2, <2>1, <3>1, DeletedEffect
    <2>3. CASE ~Exists(d)
      <3>1. UNCHANGED <<objects, current, toClient>>
        BY <1>10, <2>1, <2>3 DEF HandleClientDeleteObject
      <3> QED
        BY <1>6, <2>1, <3>1, OtherKinds
    <2> QED
      BY <2>2, <2>3
  <1>11. CASE HandleClientSetInterest(c, m)
    <2>1. m.zones \in SUBSET Zones /\ UpdateClientInterestZones(c, objects, m.zones, Nothing, Nothing)
      BY <1>11, ClientMessageKinds DEF HandleClientSetInterest
    <2>2. \A d : ~Speaks(m, d) /\ ~Shows(m, d)
      BY <1>11 DEF HandleClientSetInterest, Speaks, Shows
    <2>3. Fitting(c, m, objects, Nothing, Nothing)
      BY <1>4, <1>5, <2>2 DEF Fitting
    <2> QED
      BY <1>2, <1>4, <2>1, <2>3, ZonesEffect
  <1>12. CASE m.type = "disconnect" /\ HandleClientDisconnect(c)
    <2>1. m = Disconnect
      BY <1>12 DEF FromClient
    <2>2. c \notin online
      <3> SUFFICES ASSUME c \in online PROVE FALSE
        OBVIOUS
      <3>1. toServer[c] \in Seq(FromClient(c)) /\ toServer[c] # <<>>
        BY DEF IInv, Said, ServerReceive
      <3>2. 1 \in DOMAIN toServer[c] /\ toServer[c][1] = m
        BY <1>1, <3>1, TailAt
      <3> QED
        BY <1>12, <3>2 DEF Flow, Orderly
    <2> QED
      BY <1>2, <1>12, <2>1, <2>2, GoneEffect
  <1> QED
    BY <1>1, <1>3, <1>7, <1>8, <1>9, <1>10, <1>11, <1>12

(* The message m of c is taken and answered with `mail'.                   *)
Handling(c, m, mail) ==
  /\ c \in Clients /\ m \in FromClient(c) /\ Effect(c, m, mail)
  /\ UNCHANGED <<online, view, left>>
  /\ connected' \subseteq connected
  /\ \A p \in Clients : p # c => toServer'[p] = toServer[p]
  /\ c \in online => toServer[c] # <<>> /\ m = Head(toServer[c]) /\ toServer'[c] = Tail(toServer[c])

(* What is left of what o said.                                            *)
LEMMA RemainsSaid ==
  ASSUME IInv, NEW c, NEW m, NEW mail, Handling(c, m, mail), NEW o \in online, NEW d \in Own(o)
  PROVE  /\ ShownIn(toServer[o], d) => ShownIn(toServer'[o], d) \/ Shows(m, d)
         /\ Mute(toServer'[o], d) /\ ~Speaks(m, d) => Mute(toServer[o], d)
         /\ \A z : Rests(toServer[o], d, z) =>
              /\ Rests(toServer'[o], d, z)
              /\ ShownIn(toServer'[o], d) \/ ~Shows(m, d) \/ m.zone = z
         /\ \A v : Ends(toServer[o], d, v) =>
              /\ Ends(toServer'[o], d, v)
              /\ Mute(toServer'[o], d) /\ Speaks(m, d) => m.value = v
         /\ Followed(toServer[o], d) =>
              Followed(toServer'[o], d) /\ (Moves(m, d) => ShownIn(toServer'[o], d))
  <1>1. PICK s, t : s = toServer[o] /\ t = toServer'[o]
    OBVIOUS
  <1>2. o \in Clients /\ s \in Seq(FromClient(o)) /\ c \in Clients /\ m \in FromClient(c)
    BY <1>1 DEF IInv, ClientTypes, Said, Handling
  <1>3. CASE o = c
    <2>1. s # <<>> /\ m = Head(s) /\ t = Tail(s)
      BY <1>1, <1>3 DEF Handling
    <2>2. /\ ShownIn(s, d) => ShownIn(t, d) \/ Shows(m, d)
          /\ Mute(t, d) /\ ~Speaks(m, d) => Mute(s, d)
      BY <1>2, <2>1, TailParts
    <2>3. ASSUME NEW z, Rests(s, d, z) PROVE Rests(t, d, z) /\ (ShownIn(t, d) \/ ~Shows(m, d) \/ m.zone = z)
      BY <1>2, <2>1, <2>3, EndsTail
    <2>4. ASSUME NEW v, Ends(s, d, v) PROVE Ends(t, d, v) /\ (Mute(t, d) /\ Speaks(m, d) => m.value = v)
      BY <1>2, <2>1, <2>4, EndsTail
    <2>5. Followed(s, d) => Followed(t, d) /\ (Moves(m, d) => ShownIn(t, d))
      BY <1>2, <2>1, FollowedTail
    <2> QED
      BY <1>1, <2>2, <2>3, <2>4, <2>5
  <1>4. CASE o # c
    <2>1. t = s
      BY <1>1, <1>2, <1>4 DEF Handling
    <2>2. d \notin Own(c)
      BY <1>2, <1>4, Owned
    <2>3. ~Speaks(m, d) /\ ~Shows(m, d) /\ ~Moves(m, d)
      BY <1>2, <2>2, OwnWords
    <2> QED
      BY <1>1, <2>1, <2>3
  <1> QED
    BY <1>3, <1>4

(* What p will have heard of an object of another.                         *)
LEMMA AddsHeard ==
  ASSUME IInv, NEW c, NEW m, NEW mail, Handling(c, m, mail), NEW p \in online, NEW d \in DoIds \ Own(p)
  PROVE  /\ HiddenIn(mail[p], d) => ~WillHave(p, d)' /\ objects'[d] \notin current'[p]
         /\ ShownIn(mail[p], d) => WillHave(p, d)' /\ Shows(m, d) /\ objects'[d] \in current'[p]
         /\ ~HiddenIn(mail[p], d) /\ ~ShownIn(mail[p], d) => (WillHave(p, d)' <=> WillHave(p, d))
  <1>1. PICK s, t, b : s = toClient[p] /\ t = mail[p] /\ b = Has(p, d)
    OBVIOUS
  <1>2. Effect(c, m, mail) /\ view' = view
    BY DEF Handling
  <1>3. s \in Seq(Fit(p)) /\ t \in Seq(Fit(p)) /\ b \in BOOLEAN /\ d \in DoIds
    BY <1>1, <1>2 DEF IInv, ClientTypes, Told, Effect, Has
  <1>4. WillHave(p, d) = Knows(s, d, b) /\ WillHave(p, d)' = Knows(s \o t, d, b)
    BY <1>1, <1>2 DEF WillHave, Effect, Has
  <1>5. HiddenIn(t, d) => objects'[d] \notin current'[p]
    BY <1>1, <1>2 DEF Effect
  <1>6. ASSUME ShownIn(t, d) PROVE Shows(m, d) /\ objects'[d] \in current'[p]
    <2>1. PICK i \in DOMAIN t : Shows(t[i], d)
      BY <1>6 DEF ShownIn
    <2>2. Speaks(t[i], d)
      BY <2>1, OtherKinds
    <2>3. t[i] = m /\ objects'[d] \in current'[p]
      BY <1>1, <1>2, <1>3, <2>2 DEF Effect
    <2> QED
      BY <2>1, <2>3
  <1>7. /\ ShownIn(t, d) /\ ~HiddenIn(t, d) => Knows(s \o t, d, b)
        /\ HiddenIn(t, d) /\ ~ShownIn(t, d) => ~Knows(s \o t, d, b)
        /\ ~ShownIn(t, d) /\ ~HiddenIn(t, d) => (Knows(s \o t, d, b) <=> Knows(s, d, b))
    BY <1>3, KnowsJoined
  <1> QED
    BY <1>1, <1>4, <1>5, <1>6, <1>7

(* The order of what a client says and hears.                              *)
LEMMA OrderlyHandled ==
  ASSUME IInv, Flow, NEW c, NEW m, NEW mail, Handling(c, m, mail), NEW p \in online
  PROVE  Orderly(p)'
  <1>1. p \in Clients /\ Orderly(p) /\ c \in Clients /\ m \in FromClient(c) /\ Effect(c, m, mail)
    BY DEF IInv, ClientTypes, Flow, Handling
  <1>2. PICK s, t : s = toServer[p] /\ t = toServer'[p]
    OBVIOUS
  <1>3. s \in Seq(FromClient(p)) /\ \A i \in DOMAIN s : s[i].type # "disconnect"
    BY <1>1, <1>2 DEF IInv, Said, Orderly
  <1>4. \A i \in DOMAIN t : t[i].type # "disconnect"
    <2>1. CASE p = c
      <3>1. s # <<>> /\ t = Tail(s)
        BY <1>2, <2>1 DEF Handling
      <3>2. \A i \in DOMAIN t : i + 1 \in DOMAIN s /\ t[i] = s[i + 1]
        BY <1>3, <3>1, TailAt
      <3> QED
        BY <1>3, <3>2
    <2>2. CASE p # c
      BY <1>1, <1>2, <1>3, <2>2 DEF Handling
    <2> QED
      BY <2>1, <2>2
  <1>5. ASSUME NEW d \in Own(p) PROVE Followed(t, d) /\ Mute(toClient'[p], d)
    <2>1. Followed(t, d)
      BY <1>1, <1>2, RemainsSaid DEF Orderly
    <2>2. Mute(mail[p], d)
      <3>1. ASSUME NEW i \in DOMAIN mail[p], Speaks(mail[p][i], d) PROVE FALSE
        <4>1. mail[p][i] = m /\ p # c
          BY <1>1, <3>1, Owned DEF Effect
        <4>2. d \in Own(c)
          BY <1>1, <3>1, <4>1, OwnWords
        <4> QED
          BY <1>1, <4>1, <4>2, Owned
      <3> QED
        BY <3>1 DEF Mute
    <2>3. /\ toClient[p] \in Seq(Fit(p)) /\ mail[p] \in Seq(Fit(p))
          /\ toClient'[p] = toClient[p] \o mail[p] /\ Mute(toClient[p], d)
      BY <1>1 DEF IInv, Told, Effect, Orderly
    <2> QED
      BY <2>1, <2>2, <2>3, ContainsJoined
  <1> QED
    BY <1>2, <1>4, <1>5 DEF Orderly, Own, IsLocalId, DoIdBase

LEMMA NoneAheadHandled ==
  ASSUME IInv, Flow, NEW c, NEW m, NEW mail, Handling(c, m, mail), NEW p \in online, NEW d \in DoIds \ Own(p)
  PROVE  NoneAhead(p, d)'
  <1>1. NoneAhead(p, d) /\ Effect(c, m, mail)
    BY DEF Flow, Handling
  <1>2. objects[d] \in current[p] => HiddenIn(mail[p], d) \/ objects'[d] \in current'[p]
    BY <1>1 DEF Effect
  <1> QED
    BY <1>1, <1>2, AddsHeard DEF NoneAhead

LEMMA PlacedHandled ==
  ASSUME IInv, IInv', Flow, NEW c, NEW m, NEW mail, Handling(c, m, mail),
         NEW o \in online, NEW d \in Own(o), Has(o, d), Accepts(o, d)
  PROVE  Placed(o, d)'
  <1>1. /\ o \in Clients /\ d \in DoIds /\ Placed(o, d) /\ Orderly(o) /\ Effect(c, m, mail)
        /\ c \in Clients /\ m \in FromClient(c) /\ view' = view
    BY Owned DEF IInv, ClientTypes, Flow, Handling
  <1>2. PICK s, t, z, v : /\ s = toServer[o] /\ t = toServer'[o]
                          /\ z = view[o][d].zone /\ v = view[o][d].value
    OBVIOUS
  <1>3. Rests(s, d, z) /\ Ends(s, d, v) /\ Followed(s, d)
    BY <1>1, <1>2 DEF Placed, Orderly
  <1>4. /\ Rests(t, d, z) /\ Ends(t, d, v)
        /\ ShownIn(t, d) \/ ~Shows(m, d) \/ m.zone = z
        /\ ShownIn(s, d) => ShownIn(t, d) \/ Shows(m, d)
        /\ Moves(m, d) => ShownIn(t, d)
    BY <1>2, <1>3, RemainsSaid
  <1>5. /\ Shows(m, d) => objects'[d] = m.zone
        /\ Shows(m, d) \/ Moves(m, d) \/ objects'[d] \in {objects[d], NoZone}
        /\ objects'[d] = NoZone /\ objects[d] # NoZone => Contains(mail[o], Delete(d))
    <2>1. Shows(m, d) => o = c
      BY <1>1, Owned, OwnWords
    <2> QED
      BY <1>1, <2>1 DEF Effect
  <1>6. ShownIn(t, d) \/ objects'[d] \in {z, NoZone}
    <2>1. ShownIn(s, d) \/ objects[d] \in {z, NoZone}
      BY <1>1, <1>2 DEF Placed
    <2> QED
      BY <1>4, <1>5, <2>1
  <1>7. ASSUME objects'[d] = NoZone, ~ShownIn(t, d) PROVE Contains(toClient'[o], Delete(d))
    <2>1. /\ toClient[o] \in Seq(Fit(o)) /\ mail[o] \in Seq(Fit(o))
          /\ toClient'[o] = toClient[o] \o mail[o]
      BY <1>1 DEF IInv, Told, Effect
    <2>2. Contains(toClient'[o], Delete(d)) <=> Contains(toClient[o], Delete(d)) \/ Contains(mail[o], Delete(d))
      BY <2>1, ContainsJoined
    <2>3. ~Shows(m, d)
      <3>1. Shows(m, d) => m.zone \in Zones
        BY <1>1, ClientMessageKinds DEF Shows
      <3> QED
        BY <1>5, <1>7, <3>1, SetsAssumption
    <2>4. objects[d] = NoZone => Contains(toClient[o], Delete(d))
      BY <1>1, <1>2, <1>4, <1>7, <2>3 DEF Placed
    <2> QED
      BY <1>5, <1>7, <2>2, <2>4
  <1> QED
    BY <1>1, <1>2, <1>4, <1>6, <1>7 DEF Placed

LEMMA SeenHandled ==
  ASSUME IInv, IInv', Flow, NEW c, NEW m, NEW mail, Handling(c, m, mail),
         NEW o \in online, NEW d \in Own(o), Has(o, d), Accepts(o, d), NEW p \in online \ {o}
  PROVE  Seen(p, o, d)'
  <1>1. /\ o \in Clients /\ p \in Clients /\ d \in DoIds \ Own(p)
        /\ Placed(o, d) /\ Seen(p, o, d) /\ Effect(c, m, mail)
        /\ c \in Clients /\ m \in FromClient(c) /\ view' = view
    <2>1. o \in Clients /\ p \in Clients /\ Own(o) \subseteq DoIds
      BY Owned DEF IInv, ClientTypes
    <2>2. d \in DoIds \ Own(p)
      BY <2>1, Owned
    <2> QED
      BY <2>1, <2>2 DEF Flow, Handling
  <1>2. PICK s, t, v : s = toServer[o] /\ t = toServer'[o] /\ v = view[o][d].value
    OBVIOUS
  <1>3. /\ ShownIn(s, d) => ShownIn(t, d) \/ Shows(m, d)
        /\ Mute(t, d) /\ ~Speaks(m, d) => Mute(s, d)
        /\ Mute(t, d) /\ Speaks(m, d) => m.value = v
        /\ Moves(m, d) => ShownIn(t, d)
    <2>1. Ends(s, d, v) /\ Followed(s, d)
      BY <1>1, <1>2 DEF Placed, Flow, Orderly
    <2> QED
      BY <1>2, <2>1, RemainsSaid
  <1>4. /\ HiddenIn(mail[p], d) => ~WillHave(p, d)' /\ objects'[d] \notin current'[p]
        /\ ShownIn(mail[p], d) => WillHave(p, d)' /\ Shows(m, d) /\ objects'[d] \in current'[p]
        /\ ~HiddenIn(mail[p], d) /\ ~ShownIn(mail[p], d) => (WillHave(p, d)' <=> WillHave(p, d))
    BY <1>1, AddsHeard
  <1>5. Speaks(m, d) /\ objects'[d] \in current'[p] => Contains(mail[p], m)
    BY <1>1 DEF Effect
  <1>6. /\ \A e : Contains(toClient'[o], e) <=> Contains(toClient[o], e) \/ Contains(mail[o], e)
        /\ Mute(toClient'[p], d) <=> Mute(toClient[p], d) /\ Mute(mail[p], d)
    <2>1. /\ toClient[o] \in Seq(Fit(o)) /\ mail[o] \in Seq(Fit(o))
          /\ toClient'[o] = toClient[o] \o mail[o]
          /\ toClient[p] \in Seq(Fit(p)) /\ mail[p] \in Seq(Fit(p))
          /\ toClient'[p] = toClient[p] \o mail[p]
      BY <1>1 DEF IInv, Told, Effect
    <2> QED
      BY <2>1, ContainsJoined
  <1>7. ASSUME objects'[d] \in current'[p]
        PROVE  \/ WillHave(p, d)' \/ ShownIn(t, d)
               \/ Contains(toClient'[o], Request(objects'[d]))
    <2>1. CASE Shows(m, d)
      <3>1. Contains(mail[p], m)
        BY <1>5, <1>7, <2>1, OtherKinds
      <3>2. ShownIn(mail[p], d)
        BY <2>1, <3>1 DEF ShownIn, Contains
      <3> QED
        BY <1>4, <3>2
    <2>2. CASE Moves(m, d)
      BY <1>3, <2>2
    <2>3. CASE ~Shows(m, d) /\ objects'[d] = objects[d] /\ objects[d] \in current[p]
      <3>1. WillHave(p, d) \/ ShownIn(s, d) \/ Contains(toClient[o], Request(objects[d]))
        BY <1>1, <1>2, <2>3 DEF Seen
      <3> QED
        BY <1>3, <1>4, <1>6, <1>7, <2>3, <3>1
    <2>4. CASE Contains(mail[o], Request(objects'[d]))
      BY <1>6, <2>4
    <2> QED
      BY <1>1, <1>7, <2>1, <2>2, <2>3, <2>4 DEF Effect
  <1>8. ASSUME WillHave(p, d)', Mute(t, d)
        PROVE  /\ Ends(toClient'[p], d, v)
               /\ Mute(toClient'[p], d) => view[p][d].value = v
    <2>1. /\ toClient[p] \in Seq(Fit(p)) /\ mail[p] \in Seq(Fit(p))
          /\ toClient'[p] = toClient[p] \o mail[p]
      BY <1>1 DEF IInv, Told, Effect
    <2>2. ASSUME NEW i \in DOMAIN mail[p], Speaks(mail[p][i], d)
          PROVE  mail[p][i].value = v
      <3>1. mail[p][i] = m
        BY <1>1, <2>2 DEF Effect
      <3> QED
        BY <1>3, <1>8, <2>2, <3>1
    <2>3. CASE Speaks(m, d)
      <3>1. objects'[d] \in current'[p]
        BY <1>1, <1>8, NoneAheadHandled DEF NoneAhead
      <3>2. ~Mute(mail[p], d)
        BY <1>5, <2>3, <3>1 DEF Mute, Contains
      <3>3. Ends(toClient'[p], d, v)
        BY <2>1, <2>2, <3>2, EndsJoined
      <3> QED
        BY <1>6, <3>2, <3>3
    <2>4. CASE ~Speaks(m, d)
      <3>1. Mute(s, d)
        BY <1>3, <1>8, <2>4
      <3>2. WillHave(p, d)
        BY <1>4, <1>8, <2>4, OtherKinds
      <3>3. Ends(toClient[p], d, v) /\ (Mute(toClient[p], d) => view[p][d].value = v)
        BY <1>1, <1>2, <3>1, <3>2 DEF Seen
      <3>4. Ends(toClient'[p], d, v)
        BY <2>1, <2>2, <3>3, EndsJoined
      <3> QED
        BY <1>6, <3>3, <3>4
    <2> QED
      BY <2>3, <2>4
  <1> QED
    BY <1>1, <1>2, <1>7, <1>8 DEF Seen

(* What is on its way stays right when the server handles a message.       *)
LEMMA FlowHandled ==
  ASSUME IInv, IInv', Flow, NEW c \in online \cup left, NEW m, NEW mail, Handling(c, m, mail)
  PROVE  Flow'
  <1>1. /\ UNCHANGED <<online, view, left>> /\ connected' \subseteq connected
        /\ \A p \in Clients : p # c => toServer'[p] = toServer[p]
    BY DEF Handling
  <1>2. Fresh' /\ Located'
    BY <1>1 DEF Flow, Fresh, Located, Has
  <1>3. \A p \in online : Orderly(p)' /\ \A d \in DoIds \ Own(p) : NoneAhead(p, d)'
    BY OrderlyHandled, NoneAheadHandled
  <1>4. \A o \in online : \A d \in Own(o) : Has(o, d) /\ Accepts(o, d) =>
          Placed(o, d)' /\ \A p \in online \ {o} : Seen(p, o, d)'
    BY PlacedHandled, SeenHandled
  <1>5. \A p, d : Has(p, d)' <=> Has(p, d)
    BY <1>1 DEF Has
  <1> QED
    BY <1>1, <1>2, <1>3, <1>4, <1>5 DEF Flow, Own, Accepts, GetDoIdBase, IsLocalId, DoIdBase

(* What c says of its object d is how it has it now, and what it does not  *)
(* say is as it was.                                                       *)
Reports(c, ms, d) ==
  /\ Followed(ms, d)
  /\ Has(c, d)' =>
       /\ view'[c][d].zone \in Zones
       /\ \A i \in DOMAIN ms : Shows(ms[i], d) => ms[i].zone = view'[c][d].zone
       /\ \A i \in DOMAIN ms : Speaks(ms[i], d) => ms[i].value = view'[c][d].value
       /\ ~ShownIn(ms, d) => Has(c, d) /\ view'[c][d].zone = view[c][d].zone
       /\ Mute(ms, d) => view'[c][d].value = view[c][d].value

(* A step of the client c, which says ms and may have taken a message.     *)
Telling(c, ms) ==
  /\ c \in online /\ UNCHANGED <<connected, current, objects, online, left>>
  /\ ms \in Seq(FromClient(c)) /\ toServer'[c] = toServer[c] \o ms
  /\ \A p \in Clients : p # c =>
       toServer'[p] = toServer[p] /\ toClient'[p] = toClient[p] /\ view'[p] = view[p]
  /\ \A i \in DOMAIN ms : ms[i].type # "disconnect"
  /\ \A d \in Own(c) :
       /\ Reports(c, ms, d) /\ Mute(toClient'[c], d)
       /\ Has(c, d)' =>
            /\ Contains(toClient[c], Delete(d)) => Contains(toClient'[c], Delete(d))
            /\ \A z : Contains(toClient[c], Request(z)) =>
                 Contains(toClient'[c], Request(z)) \/ ShownIn(ms, d) \/ view[c][d].zone # z
  /\ \A d \in DoIds \ Own(c) :
       /\ Has(c, d)' => view'[c][d].zone \in Zones
       /\ WillHave(c, d)' <=> WillHave(c, d)
       /\ \A v : WillHave(c, d) /\ Ends(toClient[c], d, v) /\ (Mute(toClient[c], d) => view[c][d].value = v) =>
            Ends(toClient'[c], d, v) /\ (Mute(toClient'[c], d) => view'[c][d].value = v)

LEMMA ShownSpoken == \A s, d : Mute(s, d) => ~ShownIn(s, d)
  BY OtherKinds DEF Mute, ShownIn

(* The owner of d is who speaks.                                           *)
LEMMA OwnTold ==
  ASSUME IInv, IInv', Flow, NEW c, NEW ms, Telling(c, ms), NEW d \in Own(c), Has(c, d)', Accepts(c, d)
  PROVE  Placed(c, d)' /\ \A p \in online \ {c} : Seen(p, c, d)'
  <1>1. /\ c \in online /\ c \in Clients /\ d \in DoIds
        /\ UNCHANGED <<current, objects>>
        /\ toServer[c] \in Seq(FromClient(c)) /\ ms \in Seq(FromClient(c))
        /\ toServer'[c] = toServer[c] \o ms
    BY Owned DEF IInv, ClientTypes, Said, Telling
  <1>2. PICK s, t, z, v : /\ s = toServer[c] /\ t = toServer'[c]
                          /\ z = view'[c][d].zone /\ v = view'[c][d].value
    OBVIOUS
  <1>3. /\ \A i \in DOMAIN ms : Shows(ms[i], d) => ms[i].zone = z
        /\ \A i \in DOMAIN ms : Speaks(ms[i], d) => ms[i].value = v
        /\ ~ShownIn(ms, d) => Has(c, d) /\ z = view[c][d].zone
        /\ Mute(ms, d) => v = view[c][d].value
        /\ Mute(ms, d) => ~ShownIn(ms, d)
    BY <1>2, ShownSpoken DEF Telling, Reports
  <1>4. /\ Contains(toClient[c], Delete(d)) => Contains(toClient'[c], Delete(d))
        /\ \A y : Contains(toClient[c], Request(y)) =>
             Contains(toClient'[c], Request(y)) \/ ShownIn(ms, d) \/ view[c][d].zone # y
    BY DEF Telling
  <1>5. /\ ShownIn(t, d) <=> ShownIn(s, d) \/ ShownIn(ms, d)
        /\ Mute(t, d) <=> Mute(s, d) /\ Mute(ms, d)
    BY <1>1, <1>2, ContainsJoined
  <1>6. ~ShownIn(ms, d) => Placed(c, d) /\ \A p \in online \ {c} : Seen(p, c, d)
    BY <1>1, <1>3 DEF Flow
  <1>7. Placed(c, d)'
    <2>1. Rests(t, d, z)
      <3>1. ~ShownIn(ms, d) => Rests(s, d, z)
        BY <1>2, <1>3, <1>6 DEF Placed
      <3> QED
        BY <1>1, <1>2, <1>3, <3>1, RestsJoined
    <2>2. Ends(t, d, v)
      <3>1. Mute(ms, d) => Ends(s, d, v)
        BY <1>2, <1>3, <1>6 DEF Placed
      <3> QED
        BY <1>1, <1>2, <1>3, <3>1, EndsJoined
    <2>3. /\ ShownIn(t, d) \/ objects[d] \in {z, NoZone}
          /\ objects[d] = NoZone => ShownIn(t, d) \/ Contains(toClient'[c], Delete(d))
      BY <1>2, <1>3, <1>4, <1>5, <1>6 DEF Placed
    <2> QED
      BY <1>1, <1>2, <2>1, <2>2, <2>3 DEF Placed
  <1>8. ASSUME NEW p \in online \ {c} PROVE Seen(p, c, d)'
    <2>1. /\ toClient'[p] = toClient[p] /\ view'[p] = view[p]
          /\ WillHave(p, d)' <=> WillHave(p, d)
      BY <1>1 DEF IInv, ClientTypes, Telling, WillHave, Has
    <2>2. CASE ShownIn(ms, d)
      BY <1>1, <1>2, <1>3, <1>5, <2>2 DEF Seen
    <2>3. CASE ~ShownIn(ms, d)
      <3>1. ASSUME objects[d] \in current[p]
            PROVE  WillHave(p, d) \/ ShownIn(t, d) \/ Contains(toClient'[c], Request(objects[d]))
        <4>1. WillHave(p, d) \/ ShownIn(s, d) \/ Contains(toClient[c], Request(objects[d]))
          BY <1>2, <1>6, <2>3, <3>1 DEF Seen
        <4>2. objects[d] # NoZone
          BY <1>1, <3>1, SetsAssumption DEF IInv, Books, ServerTypes, ClientTypes
        <4>3. ShownIn(s, d) \/ objects[d] = view[c][d].zone
          BY <1>2, <1>6, <2>3, <4>2 DEF Placed
        <4> QED
          BY <1>4, <1>5, <2>3, <4>1, <4>3
      <3>2. ASSUME WillHave(p, d), Mute(t, d)
            PROVE  Ends(toClient[p], d, v) /\ (Mute(toClient[p], d) => view[p][d].value = v)
        BY <1>2, <1>3, <1>5, <1>6, <2>3, <3>2 DEF Seen
      <3> QED
        BY <1>1, <1>2, <2>1, <3>1, <3>2 DEF Seen
    <2> QED
      BY <2>2, <2>3
  <1> QED
    BY <1>7, <1>8

(* The owner is another.                                                   *)
LEMMA OthersTold ==
  ASSUME IInv, IInv', Flow, NEW c, NEW ms, Telling(c, ms),
         NEW o \in online \ {c}, NEW d \in Own(o), Has(o, d)', Accepts(o, d)
  PROVE  Placed(o, d)' /\ \A p \in online \ {o} : Seen(p, o, d)'
  <1>1. /\ o \in Clients /\ c \in Clients /\ d \in DoIds \ Own(c)
        /\ UNCHANGED <<current, objects>>
        /\ toServer'[o] = toServer[o] /\ toClient'[o] = toClient[o] /\ view'[o] = view[o]
    <2>1. o \in Clients /\ c \in Clients /\ d \in DoIds
      BY Owned DEF IInv, ClientTypes, Telling
    <2> QED
      BY <2>1, Owned DEF Telling
  <1>2. Has(o, d) /\ Placed(o, d) /\ \A p \in online \ {o} : Seen(p, o, d)
    BY <1>1 DEF Flow, Has
  <1>3. Placed(o, d)'
    BY <1>1, <1>2 DEF Placed
  <1>4. ASSUME NEW p \in online \ {o} PROVE Seen(p, o, d)'
    <2>1. Seen(p, o, d) /\ p \in Clients
      BY <1>2 DEF IInv, ClientTypes
    <2>2. CASE p = c
      <3>1. /\ WillHave(p, d)' <=> WillHave(p, d)
            /\ \A v : /\ WillHave(p, d) /\ Ends(toClient[p], d, v)
                      /\ Mute(toClient[p], d) => view[p][d].value = v
                 => Ends(toClient'[p], d, v) /\ (Mute(toClient'[p], d) => view'[p][d].value = v)
        BY <1>1, <2>2 DEF Telling
      <3> QED
        BY <1>1, <2>1, <3>1 DEF Seen
    <2>3. CASE p # c
      <3>1. toClient'[p] = toClient[p] /\ view'[p] = view[p] /\ (WillHave(p, d)' <=> WillHave(p, d))
        BY <2>1, <2>3 DEF Telling, WillHave, Has
      <3> QED
        BY <1>1, <2>1, <3>1 DEF Seen
    <2> QED
      BY <2>2, <2>3
  <1> QED
    BY <1>3, <1>4

LEMMA FlowTold ==
  ASSUME IInv, IInv', Flow, NEW c, NEW ms, Telling(c, ms)
  PROVE  Flow'
  <1>1. /\ c \in online /\ UNCHANGED <<connected, current, objects, online, left>> /\ online \subseteq Clients
        /\ \A p \in Clients : p # c =>
             toServer'[p] = toServer[p] /\ toClient'[p] = toClient[p] /\ view'[p] = view[p]
    BY DEF IInv, ClientTypes, Telling
  <1>2. Fresh'
    BY <1>1 DEF Flow, Fresh, Has
  <1>3. Located'
    <2>1. \A d \in DoIds : Has(c, d)' => view'[c][d].zone \in Zones
      BY Owned DEF Telling, Reports
    <2> QED
      BY <1>1, <2>1 DEF Flow, Located, Has
  <1>4. ASSUME NEW p \in online PROVE Orderly(p)'
    <2>1. Orderly(p) /\ p \in Clients
      BY <1>1 DEF Flow
    <2>2. CASE p # c
      BY <1>1, <2>1, <2>2 DEF Orderly
    <2>3. CASE p = c
      <3>1. PICK s, t : s = toServer[c] /\ t = toServer'[c]
        OBVIOUS
      <3>2. /\ s \in Seq(FromClient(c)) /\ ms \in Seq(FromClient(c)) /\ t = s \o ms
            /\ \A i \in DOMAIN ms : ms[i].type # "disconnect"
            /\ \A i \in DOMAIN s : s[i].type # "disconnect"
        BY <2>1, <2>3, <3>1 DEF IInv, Said, Telling, Orderly
      <3>3. \A i \in DOMAIN t : t[i].type # "disconnect"
        <4>1. PICK n \in Nat : n = Len(s)
          BY <3>2, JoinedAt
        <4>2. \A i \in DOMAIN t : (i \in DOMAIN s /\ t[i] = s[i]) \/ (i - n \in DOMAIN ms /\ t[i] = ms[i - n])
          BY <3>2, <4>1, JoinedAt
        <4> QED
          BY <3>2, <4>2
      <3>4. \A d \in Own(c) : Followed(t, d)
        <4>1. \A d \in Own(c) : Followed(s, d) /\ Followed(ms, d)
          BY <2>1, <2>3, <3>1 DEF Orderly, Telling, Reports
        <4> QED
          BY <3>2, <4>1, FollowedJoined
      <3>5. \A d \in Own(c) : Mute(toClient'[c], d)
        BY DEF Telling
      <3> QED
        BY <2>3, <3>1, <3>3, <3>4, <3>5 DEF Orderly, Own, IsLocalId, DoIdBase
    <2> QED
      BY <2>2, <2>3
  <1>5. ASSUME NEW p \in online, NEW d \in DoIds \ Own(p) PROVE NoneAhead(p, d)'
    <2>1. NoneAhead(p, d) /\ p \in Clients
      BY <1>1 DEF Flow
    <2>2. WillHave(p, d)' <=> WillHave(p, d)
      <3>1. CASE p = c
        BY <3>1 DEF Telling
      <3>2. CASE p # c
        BY <1>1, <2>1, <3>2 DEF WillHave, Has
      <3> QED
        BY <3>1, <3>2
    <2> QED
      BY <1>1, <2>1, <2>2 DEF NoneAhead
  <1>6. ASSUME NEW o \in online, NEW d \in Own(o), Has(o, d)', Accepts(o, d)
        PROVE  Placed(o, d)' /\ \A p \in online \ {o} : Seen(p, o, d)'
    <2>1. CASE o = c
      BY <1>6, <2>1, OwnTold
    <2>2. CASE o # c
      BY <1>6, <2>2, OthersTold
    <2> QED
      BY <2>1, <2>2
  <1> QED
    BY <1>1, <1>2, <1>3, <1>4, <1>5, <1>6 DEF Flow, Own, Accepts, GetDoIdBase, IsLocalId, DoIdBase

(* The game speaks, and takes nothing.                                     *)
LEMMA GameTells ==
  ASSUME IInv, Flow, NEW c \in online, NEW ms \in Seq(FromClient(c)), Send(c, ms),
         UNCHANGED <<server, online, left, toClient>>,
         \A p \in Clients : p # c => view'[p] = view[p],
         \A d \in DoIds \ Own(c) : view'[c][d] = view[c][d],
         \A i \in DOMAIN ms : ms[i].type # "disconnect",
         \A d \in Own(c) : Reports(c, ms, d)
  PROVE  Telling(c, ms)
  <1>1. c \in Clients /\ Orderly(c) /\ UNCHANGED <<connected, current, objects>>
    BY DEF IInv, ClientTypes, Flow, server
  <1>2. toServer'[c] = toServer[c] \o ms /\ \A p \in Clients : p # c => toServer'[p] = toServer[p]
    BY <1>1 DEF IInv, Said, Send
  <1>3. \A d \in Own(c) :
          /\ Mute(toClient'[c], d)
          /\ Has(c, d)' => \A z : Contains(toClient[c], Request(z)) => Contains(toClient'[c], Request(z))
    BY <1>1 DEF Orderly
  <1>4. \A d \in DoIds \ Own(c) : (Has(c, d)' <=> Has(c, d)) /\ (Has(c, d) => view'[c][d].zone \in Zones)
    BY <1>1 DEF Has, Flow, Located
  <1>5. \A d \in DoIds \ Own(c) : WillHave(c, d)' <=> WillHave(c, d)
    BY <1>4 DEF WillHave, Has
  <1> QED
    BY <1>1, <1>2, <1>3, <1>4, <1>5 DEF Telling

LEMMA OneAt == \A m : DOMAIN <<m>> = {1} /\ <<m>>[1] = m
  OBVIOUS

LEMMA TwoAt == \A m, n : DOMAIN <<m, n>> = {1, 2} /\ <<m, n>>[1] = m /\ <<m, n>>[2] = n
  OBVIOUS

LEMMA FlowGame ==
  ASSUME IInv, IInv', Flow, NEW c \in Clients,
         \/ \E d \in DoIds : SetField(c, d) \/ SendDeleteMsg(c, d)
         \/ \E d \in DoIds, z \in Zones : CreateDistributedObject(c, d, z) \/ SetObjectZone(c, d, z)
         \/ \E Z \in SUBSET Zones : SetInterestZones(c, Z)
  PROVE  Flow'
  <1>1. Op(c)
    BY DEF CreateDistributedObject, SetField, SetObjectZone, SendDeleteMsg, SetInterestZones
  <1>2. /\ c \in online /\ UNCHANGED <<server, online, left, toClient>> /\ ops' = ops + 1 /\ ops \in Nat
        /\ view \in [Clients -> [DoIds -> [zone : Zones \cup {NoZone}, value : Nat]]]
        /\ NoZone \notin Zones /\ Own(c) \subseteq DoIds
        /\ \A d \in DoIds : Has(c, d) => view[c][d].zone \in Zones
    BY <1>1, Owned, SetsAssumption DEF Op, IInv, ClientTypes, Flow, Located
  <1>3. ASSUME NEW ms \in Seq(FromClient(c)), Send(c, ms), view' = view,
               \A i \in DOMAIN ms : ms[i].type \notin {"generate", "update", "setZone", "disconnect"}
        PROVE  Telling(c, ms)
    <2>1. \A d : \A i \in DOMAIN ms : ~Speaks(ms[i], d) /\ ~Shows(ms[i], d) /\ ~Moves(ms[i], d)
      BY <1>3 DEF Speaks, Shows, Moves
    <2>2. ASSUME NEW d \in Own(c) PROVE Reports(c, ms, d)
      BY <1>2, <1>3, <2>1 DEF Reports, Followed, Has
    <2> QED
      BY <1>2, <1>3, <2>2, GameTells
  <1>4. ASSUME NEW d \in DoIds, NEW z \in Zones, CreateDistributedObject(c, d, z) PROVE Flow'
    <2>1. PICK m : m = Generate(d, z, ops')
      OBVIOUS
    <2>2. d \in Own(c) /\ view' = [view EXCEPT ![c][d] = [zone |-> z, value |-> ops']] /\ Send(c, <<m>>)
      BY <1>4, <2>1 DEF CreateDistributedObject
    <2>3. <<m>> \in Seq(FromClient(c))
      BY <1>2, <2>1, <2>2, ClientMessages, OneMessage
    <2>4. /\ \A e : (Shows(m, e) <=> e = d) /\ (Speaks(m, e) <=> e = d) /\ ~Moves(m, e)
          /\ m.type # "disconnect" /\ m.zone = z /\ m.value = ops'
      BY <2>1 DEF Generate, Shows, Speaks, Moves
    <2>5. /\ view'[c][d] = [zone |-> z, value |-> ops']
          /\ \A e \in DoIds : e # d => view'[c][e] = view[c][e]
          /\ \A p \in Clients : p # c => view'[p] = view[p]
      BY <1>2, <2>2
    <2>6. ASSUME NEW e \in Own(c) PROVE Reports(c, <<m>>, e)
      <3>1. Followed(<<m>>, e) /\ (ShownIn(<<m>>, e) <=> e = d) /\ (Mute(<<m>>, e) <=> e # d)
        BY <2>4, OneAt DEF Followed, ShownIn, Mute
      <3>2. CASE e = d
        BY <2>4, <2>5, <3>1, <3>2, OneAt DEF Reports
      <3>3. CASE e # d
        <4>1. view'[c][e] = view[c][e] /\ (Has(c, e)' <=> Has(c, e))
          BY <1>2, <2>5, <3>3 DEF Has
        <4> QED
          BY <1>2, <2>4, <3>1, <3>3, <4>1, OneAt DEF Reports
      <3> QED
        BY <3>2, <3>3
    <2>7. /\ \A i \in DOMAIN <<m>> : <<m>>[i].type # "disconnect"
          /\ \A e \in DoIds \ Own(c) : view'[c][e] = view[c][e]
      BY <2>2, <2>4, <2>5, OneAt
    <2>8. Telling(c, <<m>>)
      BY <1>2, <2>2, <2>3, <2>5, <2>6, <2>7, GameTells
    <2> QED
      BY <2>8, FlowTold
  <1>5. ASSUME NEW d \in DoIds, SetField(c, d) PROVE Flow'
    <2>1. PICK n \in Nat : n = ops'
      BY <1>2
    <2> DEFINE m == Update(d, n)
    <2>2. d \in Own(c) /\ Has(c, d) /\ view' = [view EXCEPT ![c][d].value = n] /\ Send(c, <<m>>)
      BY <1>5, <2>1 DEF SetField, InPlay
    <2>3. <<m>> \in Seq(FromClient(c))
      BY <1>2, <2>1, <2>2, ClientMessages, OneMessage
    <2>4. /\ \A e : ~Shows(m, e) /\ (Speaks(m, e) <=> e = d) /\ ~Moves(m, e)
          /\ m.type # "disconnect" /\ m.value = n
      BY DEF Update, Shows, Speaks, Moves
    <2> HIDE DEF m
    <2>5. /\ view'[c][d] = [view[c][d] EXCEPT !.value = n]
          /\ \A e \in DoIds : e # d => view'[c][e] = view[c][e]
          /\ \A p \in Clients : p # c => view'[p] = view[p]
      BY <1>2, <2>2
    <2>6. view'[c][d].zone = view[c][d].zone /\ view'[c][d].value = n
      BY <1>2, <2>5
    <2>7. ASSUME NEW e \in Own(c) PROVE Reports(c, <<m>>, e)
      <3>1. Followed(<<m>>, e) /\ ~ShownIn(<<m>>, e) /\ (Mute(<<m>>, e) <=> e # d)
        BY <2>4, OneAt DEF Followed, ShownIn, Mute
      <3>2. CASE e = d
        BY <1>2, <2>2, <2>4, <2>6, <3>1, <3>2, OneAt DEF Reports
      <3>3. CASE e # d
        <4>1. view'[c][e] = view[c][e] /\ (Has(c, e)' <=> Has(c, e))
          BY <1>2, <2>5, <3>3 DEF Has
        <4> QED
          BY <1>2, <2>4, <3>1, <3>3, <4>1, OneAt DEF Reports
      <3> QED
        BY <3>2, <3>3
    <2>8. /\ \A i \in DOMAIN <<m>> : <<m>>[i].type # "disconnect"
          /\ \A e \in DoIds \ Own(c) : view'[c][e] = view[c][e]
      BY <2>2, <2>4, <2>5, OneAt
    <2>9. Telling(c, <<m>>)
      BY <1>2, <2>2, <2>3, <2>5, <2>7, <2>8, GameTells
    <2> QED
      BY <2>9, FlowTold
  <1>6. ASSUME NEW d \in DoIds, NEW z \in Zones, SetObjectZone(c, d, z) PROVE Flow'
    <2>1. PICK v \in Nat : v = view[c][d].value
      BY <1>2
    <2> DEFINE m == SetZone(d, z)
               n == Generate(d, z, v)
    <2>2. PICK ms : ms = <<m, n>>
      OBVIOUS
    <2>3. d \in Own(c) /\ Has(c, d) /\ view' = [view EXCEPT ![c][d].zone = z] /\ Send(c, ms)
      BY <1>6, <2>1, <2>2 DEF SetObjectZone, InPlay
    <2>4. ms \in Seq(FromClient(c))
      BY <2>1, <2>2, <2>3, ClientMessages, TwoMessages
    <2>5. /\ \A e : ~Shows(m, e) /\ ~Speaks(m, e) /\ (Moves(m, e) <=> e = d)
          /\ \A e : (Shows(n, e) <=> e = d) /\ (Speaks(n, e) <=> e = d) /\ ~Moves(n, e)
          /\ m.type # "disconnect" /\ n.type # "disconnect" /\ n.zone = z /\ n.value = v
      BY DEF SetZone, Generate, Shows, Speaks, Moves
    <2> HIDE DEF m, n
    <2>6. /\ view'[c][d] = [view[c][d] EXCEPT !.zone = z]
          /\ \A e \in DoIds : e # d => view'[c][e] = view[c][e]
          /\ \A p \in Clients : p # c => view'[p] = view[p]
      BY <1>2, <2>3
    <2>7. view'[c][d].zone = z /\ view'[c][d].value = v
      BY <1>2, <2>1, <2>6
    <2>8. DOMAIN ms = {1, 2} /\ ms[1] = m /\ ms[2] = n
      BY <2>2, TwoAt
    <2>9. ASSUME NEW e \in Own(c) PROVE Reports(c, ms, e)
      <3>1. Followed(ms, e)
        BY <2>5, <2>8 DEF Followed
      <3>2. (ShownIn(ms, e) <=> e = d) /\ (Mute(ms, e) <=> e # d)
        BY <2>5, <2>8 DEF ShownIn, Mute
      <3>3. CASE e = d
        BY <2>5, <2>7, <2>8, <3>1, <3>2, <3>3 DEF Reports
      <3>4. CASE e # d
        <4>1. view'[c][e] = view[c][e] /\ (Has(c, e)' <=> Has(c, e))
          BY <1>2, <2>6, <3>4 DEF Has
        <4> QED
          BY <1>2, <2>5, <2>8, <3>1, <3>2, <3>4, <4>1 DEF Reports
      <3> QED
        BY <3>3, <3>4
    <2>10. /\ \A i \in DOMAIN ms : ms[i].type # "disconnect"
           /\ \A e \in DoIds \ Own(c) : view'[c][e] = view[c][e]
      BY <2>3, <2>5, <2>6, <2>8
    <2>11. Telling(c, ms)
      BY <1>2, <2>3, <2>4, <2>6, <2>9, <2>10, GameTells
    <2> QED
      BY <2>11, FlowTold
  <1>7. ASSUME NEW d \in DoIds, SendDeleteMsg(c, d) PROVE Flow'
    <2>1. PICK m : m = Delete(d)
      OBVIOUS
    <2>2. d \in Own(c) /\ view' = view /\ Send(c, <<m>>)
      BY <1>7, <2>1 DEF SendDeleteMsg, InPlay
    <2>3. <<m>> \in Seq(FromClient(c)) /\ m.type = "delete"
      BY <2>1, <2>2, ClientMessages, OneMessage DEF Delete
    <2>4. Telling(c, <<m>>)
      BY <1>3, <2>2, <2>3, OneAt
    <2> QED
      BY <2>4, FlowTold
  <1>8. ASSUME NEW Z \in SUBSET Zones, SetInterestZones(c, Z) PROVE Flow'
    <2>1. PICK m : m = Interest(Z)
      OBVIOUS
    <2>2. view' = view /\ Send(c, <<m>>)
      BY <1>8, <2>1 DEF SetInterestZones
    <2>3. <<m>> \in Seq(FromClient(c)) /\ m.type = "interest"
      BY <2>1, ClientMessages, OneMessage DEF Interest
    <2>4. Telling(c, <<m>>)
      BY <1>3, <2>2, <2>3, OneAt
    <2> QED
      BY <2>4, FlowTold
  <1> QED
    BY <1>4, <1>5, <1>6, <1>7, <1>8

(* Each message has its handler.                                           *)
LEMMA ReceiptKinds ==
  ASSUME NEW c, ClientReceive(c), NEW m, m = Head(toClient[c])
  PROVE  /\ m.type \in {"generate", "update", "disable", "delete", "request", "range"}
         /\ m.type = "generate" => HandleGenerate(c, m)
         /\ m.type = "update" => HandleUpdateField(c, m)
         /\ m.type = "disable" => HandleDisable(c, m)
         /\ m.type = "delete" => HandleDelete(c, m)
         /\ m.type = "request" => HandleRequestGenerates(c, m)
         /\ m.type = "range" => HandleSetDoIdrange(c, m)
  <1>1. \/ HandleGenerate(c, m)
        \/ HandleUpdateField(c, m)
        \/ HandleDisable(c, m)
        \/ HandleDelete(c, m)
        \/ HandleRequestGenerates(c, m)
        \/ HandleSetDoIdrange(c, m)
    BY DEF ClientReceive
  <1>2. /\ HandleGenerate(c, m) => m.type = "generate"
        /\ HandleUpdateField(c, m) => m.type = "update"
    BY DEF HandleGenerate, HandleUpdateField
  <1>3. /\ HandleDisable(c, m) => m.type = "disable"
        /\ HandleDelete(c, m) => m.type = "delete"
    BY DEF HandleDisable, HandleDelete
  <1>4. /\ HandleRequestGenerates(c, m) => m.type = "request"
        /\ HandleSetDoIdrange(c, m) => m.type = "range"
    BY DEF HandleRequestGenerates, HandleSetDoIdrange
  <1> QED
    BY <1>1, <1>2, <1>3, <1>4

(* What a message does to what its receiver knows of d.                    *)
LEMMA ReceiptView ==
  ASSUME IInv, Flow, NEW c \in online, ClientReceive(c), NEW m \in Fit(c), m = Head(toClient[c]),
         NEW d \in DoIds
  PROVE  /\ Shows(m, d) => Has(c, d)'
         /\ Hides(m, d) => ~Has(c, d)'
         /\ ~Shows(m, d) /\ ~Hides(m, d) => (Has(c, d)' <=> Has(c, d))
         /\ Speaks(m, d) /\ Has(c, d)' => view'[c][d].value = m.value
         /\ ~Speaks(m, d) /\ Has(c, d)' => view'[c][d] = view[c][d]
         /\ Has(c, d)' => view'[c][d].zone \in Zones
  <1>1. /\ view \in [Clients -> [DoIds -> [zone : Zones \cup {NoZone}, value : Nat]]]
        /\ c \in Clients /\ NoZone \notin Zones /\ Absent.zone = NoZone
        /\ view[c][d] \in [zone : Zones \cup {NoZone}, value : Nat]
        /\ Has(c, d) => view[c][d].zone \in Zones
    BY SetsAssumption DEF IInv, ClientTypes, Flow, Located, Absent
  <1>2. /\ m.type \in {"generate", "update", "disable", "delete", "request", "range"}
        /\ m.type = "generate" => HandleGenerate(c, m)
        /\ m.type = "update" => HandleUpdateField(c, m)
        /\ m.type = "disable" => HandleDisable(c, m)
        /\ m.type = "delete" => HandleDelete(c, m)
        /\ m.type = "request" => HandleRequestGenerates(c, m)
        /\ m.type = "range" => HandleSetDoIdrange(c, m)
    BY ReceiptKinds
  <1>3. CASE ~Shows(m, d) /\ ~Hides(m, d) /\ ~Speaks(m, d)
    <2>1. view'[c][d] = view[c][d]
      <3>1. CASE m.type \in {"generate", "update"}
        <4>1. m.doId # d /\ m.doId \in DoIds
          BY <1>1, <1>3, <3>1, ServerMessageKinds DEF Speaks
        <4>2. view'[c][d] = view[c][d] \/ UNCHANGED view
          BY <1>1, <1>2, <3>1, <4>1 DEF HandleGenerate, HandleUpdateField
        <4> QED
          BY <4>2
      <3>2. CASE m.type = "disable"
        <4>1. HandleDisable(c, m) /\ d \notin m.doIds
          BY <1>2, <1>3, <3>2 DEF Hides
        <4> QED
          BY <1>1, <4>1 DEF HandleDisable
      <3>3. CASE m.type = "delete"
        <4>1. HandleDelete(c, m) /\ m.doId # d
          BY <1>2, <1>3, <3>3 DEF Hides
        <4> QED
          BY <1>1, <4>1 DEF HandleDelete
      <3>4. CASE m.type \in {"request", "range"}
        BY <1>2, <3>4 DEF HandleRequestGenerates, HandleSetDoIdrange
      <3> QED
        BY <1>2, <3>1, <3>2, <3>3, <3>4
    <2> QED
      BY <1>1, <1>3, <2>1 DEF Has
  <1>4. CASE Shows(m, d)
    <2>1. /\ m.type = "generate" /\ m.doId = d /\ m.zone \in Zones /\ m.value \in Nat
          /\ HandleGenerate(c, m)
      BY <1>1, <1>2, <1>4, ServerMessageKinds DEF Shows
    <2>2. view'[c][d] = IF Has(c, d) THEN [view[c][d] EXCEPT !.value = m.value]
                        ELSE [zone |-> m.zone, value |-> m.value]
      BY <1>1, <2>1 DEF HandleGenerate
    <2>3. view'[c][d].zone \in Zones /\ view'[c][d].value = m.value
      BY <1>1, <2>1, <2>2
    <2>4. Has(c, d)'
      BY <1>1, <2>3 DEF Has
    <2> QED
      BY <1>4, <2>3, <2>4, OtherKinds
  <1>5. CASE Speaks(m, d) /\ ~Shows(m, d)
    <2>1. m.type = "update" /\ m.doId = d /\ m.value \in Nat /\ HandleUpdateField(c, m)
      BY <1>1, <1>2, <1>5, ServerMessageKinds DEF Speaks, Shows
    <2>2. view'[c][d] = IF Has(c, d) THEN [view[c][d] EXCEPT !.value = m.value] ELSE view[c][d]
      BY <1>1, <2>1 DEF HandleUpdateField
    <2>3. CASE Has(c, d)
      <3>1. view'[c][d].zone \in Zones /\ view'[c][d].value = m.value
        BY <1>1, <2>1, <2>2, <2>3
      <3>2. Has(c, d)'
        BY <1>1, <3>1 DEF Has
      <3> QED
        BY <1>5, <2>3, <3>1, <3>2, OtherKinds
    <2>4. CASE ~Has(c, d)
      <3>1. ~Has(c, d)'
        BY <2>2, <2>4 DEF Has
      <3> QED
        BY <1>5, <2>4, <3>1, OtherKinds
    <2> QED
      BY <2>3, <2>4
  <1>6. CASE Hides(m, d)
    <2>1. view'[c][d] = Absent
      <3>1. CASE m.type = "delete" /\ m.doId = d
        <4>1. HandleDelete(c, m)
          BY <1>2, <3>1
        <4> QED
          BY <1>1, <3>1, <4>1 DEF HandleDelete
      <3>2. CASE m.type = "disable" /\ d \in m.doIds
        <4>1. HandleDisable(c, m)
          BY <1>2, <3>2
        <4> QED
          BY <1>1, <3>2, <4>1 DEF HandleDisable
      <3> QED
        BY <1>6, <3>1, <3>2 DEF Hides
    <2>2. ~Has(c, d)'
      BY <2>1 DEF Has, Absent
    <2> QED
      BY <1>6, <2>2, OtherKinds
  <1> QED
    BY <1>3, <1>4, <1>5, <1>6

(* A client answers a request for generates, and no other message.         *)
LEMMA ReceiptSays ==
  ASSUME IInv, NEW c \in online, ClientReceive(c), NEW m \in Fit(c), m = Head(toClient[c])
  PROVE  \E ms \in Seq(FromClient(c)) :
           /\ toServer'[c] = toServer[c] \o ms
           /\ \A p \in Clients : p # c => toServer'[p] = toServer[p]
           /\ \A e : Contains(ms, e) => m.type = "request" /\
                \E d \in Own(c) : view[c][d].zone = m.zone /\ e = Generate(d, m.zone, view[c][d].value)
           /\ m.type = "request" => \A d \in Own(c) : view[c][d].zone = m.zone =>
                Contains(ms, Generate(d, m.zone, view[c][d].value))
  <1>1. c \in Clients /\ toServer[c] \in Seq(FromClient(c)) /\ DOMAIN toServer = Clients
    BY DEF IInv, ClientTypes, Said
  <1>2. CASE m.type = "request"
    <2> DEFINE here == {d \in Own(c) : view[c][d].zone = m.zone}
               answer == [i \in 1 .. Cardinality(here) |->
                           LET d == Listing(here)[i] IN Generate(d, m.zone, view[c][d].value)]
    <2>1. m.zone \in Zones /\ Send(c, answer)
      <3>1. HandleRequestGenerates(c, m)
        BY <1>2, ReceiptKinds
      <3> QED
        BY <1>1, <1>2, <3>1, ServerMessageKinds DEF HandleRequestGenerates
    <2>2. here \in SUBSET DoIds /\ here \subseteq Own(c)
      BY <1>1, Owned
    <2>3. \A d \in here : Generate(d, m.zone, view[c][d].value) \in FromClient(c)
      BY <1>1, <2>1, <2>2, ClientMessages DEF IInv, ClientTypes
    <2>4. \A d \in Own(c) : d \in here <=> view[c][d].zone = m.zone
      OBVIOUS
    <2> HIDE DEF here
    <2>5. PICK list, n, ms : list = Listing(here) /\ n = Cardinality(here) /\ ms = answer
      OBVIOUS
    <2>6. /\ n \in Nat /\ \A i \in 1 .. n : list[i] \in here
          /\ \A d \in here : \E i \in 1 .. n : list[i] = d
      BY <2>2, <2>5, Finite, ListingOf, ListingAll
    <2>7. ms = [i \in 1 .. n |-> Generate(list[i], m.zone, view[c][list[i]].value)]
      BY <2>5
    <2>8. ms \in Seq(FromClient(c))
      <3>1. ms \in [1 .. n -> FromClient(c)]
        BY <2>3, <2>6, <2>7
      <3> QED
        BY <2>6, <3>1, SeqOf
    <2>9. DOMAIN ms = 1 .. n /\ \A i \in 1 .. n : ms[i] = Generate(list[i], m.zone, view[c][list[i]].value)
      BY <2>7
    <2>10. ASSUME NEW e, Contains(ms, e)
           PROVE  \E d \in Own(c) : view[c][d].zone = m.zone /\ e = Generate(d, m.zone, view[c][d].value)
      <3>1. PICK i \in 1 .. n : e = Generate(list[i], m.zone, view[c][list[i]].value)
        BY <2>9, <2>10 DEF Contains
      <3> QED
        BY <2>2, <2>4, <2>6, <3>1
    <2>11. ASSUME NEW d \in Own(c), view[c][d].zone = m.zone
           PROVE  Contains(ms, Generate(d, m.zone, view[c][d].value))
      <3>1. PICK i \in 1 .. n : list[i] = d
        BY <2>4, <2>6, <2>11
      <3> QED
        BY <2>9, <3>1 DEF Contains
    <2>12. toServer'[c] = toServer[c] \o ms /\ \A p \in Clients : p # c => toServer'[p] = toServer[p]
      BY <1>1, <2>1, <2>5 DEF Send
    <2> QED
      BY <1>2, <2>8, <2>10, <2>11, <2>12
  <1>3. CASE m.type # "request"
    <2>1. UNCHANGED toServer
      BY <1>3, ReceiptKinds DEF HandleGenerate, HandleUpdateField, HandleDisable, HandleDelete, HandleSetDoIdrange
    <2>2. toServer'[c] = toServer[c] \o <<>>
      BY <1>1, <2>1
    <2> QED
      BY <1>3, <2>1, <2>2, EmptyMail, Listed
  <1> QED
    BY <1>2, <1>3

LEMMA FlowReceived ==
  ASSUME IInv, IInv', Flow, NEW c \in Clients, ClientReceive(c)
  PROVE  Flow'
  <1>1. PICK m \in Fit(c) : m = Head(toClient[c])
    BY TakenFirst DEF IInv, Told, ClientReceive
  <1>2. /\ c \in online /\ toClient[c] # <<>> /\ UNCHANGED <<server, online, left>>
        /\ toClient' = [toClient EXCEPT ![c] = Tail(toClient[c])]
        /\ toClient[c] \in Seq(Fit(c)) /\ DOMAIN toClient = Clients
        /\ view \in [Clients -> [DoIds -> [zone : Zones \cup {NoZone}, value : Nat]]]
        /\ Own(c) \subseteq DoIds /\ Orderly(c)
    BY Owned DEF ClientReceive, IInv, ClientTypes, Told, Flow
  <1>3. PICK ms \in Seq(FromClient(c)) :
           /\ toServer'[c] = toServer[c] \o ms
           /\ \A p \in Clients : p # c => toServer'[p] = toServer[p]
           /\ \A e : Contains(ms, e) => m.type = "request" /\
                \E d \in Own(c) : view[c][d].zone = m.zone /\ e = Generate(d, m.zone, view[c][d].value)
           /\ m.type = "request" => \A d \in Own(c) : view[c][d].zone = m.zone =>
                Contains(ms, Generate(d, m.zone, view[c][d].value))
    BY <1>1, <1>2, ReceiptSays
  <1>4. PICK s, t : s = toClient[c] /\ t = Tail(s)
    OBVIOUS
  <1>5. s \in Seq(Fit(c)) /\ s # <<>> /\ m = Head(s) /\ toClient'[c] = t
    BY <1>1, <1>2, <1>4
  <1>6. ASSUME NEW d \in DoIds
        PROVE  /\ Shows(m, d) => Has(c, d)'
               /\ Hides(m, d) => ~Has(c, d)'
               /\ ~Shows(m, d) /\ ~Hides(m, d) => (Has(c, d)' <=> Has(c, d))
               /\ Speaks(m, d) /\ Has(c, d)' => view'[c][d].value = m.value
               /\ ~Speaks(m, d) /\ Has(c, d)' => view'[c][d] = view[c][d]
               /\ Has(c, d)' => view'[c][d].zone \in Zones
    BY <1>1, <1>2, ReceiptView, ZenonT(60)
  <1>7. ASSUME NEW i \in DOMAIN ms
        PROVE  /\ m.type = "request"
               /\ \E d \in Own(c) : view[c][d].zone = m.zone /\ ms[i] = Generate(d, m.zone, view[c][d].value)
    <2>1. Contains(ms, ms[i])
      BY Zenon DEF Contains
    <2> QED
      BY <1>3, <2>1
  <1>8. \A d, z, v : /\ \A e : (Shows(Generate(d, z, v), e) <=> e = d) /\ (Speaks(Generate(d, z, v), e) <=> e = d)
                     /\ \A e : ~Moves(Generate(d, z, v), e)
                     /\ Generate(d, z, v).type = "generate"
                     /\ Generate(d, z, v).zone = z /\ Generate(d, z, v).value = v
    BY DEF Generate, Shows, Speaks, Moves
  <1>9. ASSUME NEW d \in Own(c)
        PROVE  /\ Reports(c, ms, d) /\ Mute(toClient'[c], d)
               /\ Has(c, d)' =>
                    /\ Contains(toClient[c], Delete(d)) => Contains(toClient'[c], Delete(d))
                    /\ \A z : Contains(toClient[c], Request(z)) =>
                         Contains(toClient'[c], Request(z)) \/ ShownIn(ms, d) \/ view[c][d].zone # z
    <2>1. d \in DoIds /\ ~Speaks(m, d) /\ Mute(t, d) /\ ~Shows(m, d)
      BY <1>2, <1>4, <1>5, TailParts, OtherKinds DEF Orderly
    <2>2. Has(c, d)' => Has(c, d) /\ view'[c][d] = view[c][d] /\ view'[c][d].zone \in Zones /\ ~Hides(m, d)
      BY <1>6, <2>1
    <2>3. Followed(ms, d)
      <3>1. \A i \in DOMAIN ms : ~Moves(ms[i], d)
        BY <1>7, <1>8
      <3> QED
        BY <3>1 DEF Followed
    <2>4. \A i \in DOMAIN ms : /\ Shows(ms[i], d) => ms[i].zone = view[c][d].zone
                               /\ Speaks(ms[i], d) => ms[i].value = view[c][d].value
      BY <1>7, <1>8
    <2>5. Reports(c, ms, d)
      BY <2>2, <2>3, <2>4 DEF Reports
    <2>6. \A e : Contains(s, e) <=> m = e \/ Contains(t, e)
      BY <1>4, <1>5, TailParts
    <2>7. ASSUME Has(c, d)', Contains(s, Delete(d)) PROVE Contains(t, Delete(d))
      BY <2>2, <2>6, <2>7, OtherKinds
    <2>8. ASSUME NEW z, Contains(s, Request(z)), ~Contains(t, Request(z)), view[c][d].zone = z
          PROVE  ShownIn(ms, d)
      <3>1. m = Request(z)
        BY <2>6, <2>8
      <3>2. m.type = "request" /\ m.zone = z
        BY <3>1 DEF Request
      <3>3. Contains(ms, Generate(d, z, view[c][d].value))
        BY <1>3, <2>8, <3>2
      <3> QED
        BY <1>8, <3>3 DEF ShownIn, Contains
    <2> QED
      BY <1>4, <1>5, <2>1, <2>5, <2>7, <2>8
  <1>10. ASSUME NEW d \in DoIds \ Own(c)
         PROVE  /\ Has(c, d)' => view'[c][d].zone \in Zones
                /\ WillHave(c, d)' <=> WillHave(c, d)
                /\ \A v : WillHave(c, d) /\ Ends(toClient[c], d, v) /\ (Mute(toClient[c], d) => view[c][d].value = v) =>
                     Ends(toClient'[c], d, v) /\ (Mute(toClient'[c], d) => view'[c][d].value = v)
    <2>1. PICK b \in BOOLEAN, a \in BOOLEAN : b = Has(c, d) /\ a = Has(c, d)'
      BY DEF Has
    <2>2. /\ Shows(m, d) => a
          /\ Hides(m, d) => ~a
          /\ ~Shows(m, d) /\ ~Hides(m, d) => a = b
      BY <1>6, <2>1
    <2>3. Knows(s, d, b) <=> Knows(t, d, a)
      BY <1>4, <1>5, <2>2, KnowsTail
    <2>4. WillHave(c, d) = Knows(s, d, b) /\ WillHave(c, d)' = Knows(t, d, a)
      BY <1>4, <1>5, <2>1 DEF WillHave
    <2>5. ASSUME NEW v, WillHave(c, d), Ends(s, d, v), Mute(s, d) => view[c][d].value = v
          PROVE  Ends(t, d, v) /\ (Mute(t, d) => view'[c][d].value = v)
      <3>1. Ends(t, d, v)
        BY <1>4, <1>5, <2>5, EndsTail
      <3>2. ASSUME Mute(t, d) PROVE view'[c][d].value = v
        <4>1. Has(c, d)'
          BY <2>1, <2>3, <2>4, <2>5, <3>2, ShownSpoken DEF Knows, ShownIn
        <4>2. CASE Speaks(m, d)
          <5>1. m.value = v
            BY <1>4, <1>5, <2>5, <3>2, <4>2, EndsTail
          <5> QED
            BY <1>6, <4>1, <4>2, <5>1
        <4>3. CASE ~Speaks(m, d)
          <5>1. Mute(s, d)
            BY <1>4, <1>5, <3>2, <4>3, TailParts
          <5> QED
            BY <1>6, <2>5, <4>1, <4>3, <5>1
        <4> QED
          BY <4>2, <4>3
      <3> QED
        BY <3>1, <3>2
    <2>6. \A v : WillHave(c, d) /\ Ends(s, d, v) /\ (Mute(s, d) => view[c][d].value = v) =>
            Ends(t, d, v) /\ (Mute(t, d) => view'[c][d].value = v)
      BY <2>5
    <2> QED
      BY <1>4, <1>5, <1>6, <2>3, <2>4, <2>6
  <1>11. /\ toServer'[c] = toServer[c] \o ms
         /\ \A p \in Clients : p # c =>
              toServer'[p] = toServer[p] /\ toClient'[p] = toClient[p] /\ view'[p] = view[p]
    <2>1. toServer'[c] = toServer[c] \o ms /\ \A p \in Clients : p # c => toServer'[p] = toServer[p]
      BY <1>3
    <2>2. \A p \in Clients : p # c => view'[p] = view[p]
      <3>1. m.type \in {"generate", "update", "disable", "delete", "request", "range"}
        BY <1>1, ReceiptKinds
      <3>2. m.type \in {"generate", "update", "disable", "delete"} => \A p \in Clients : p # c => view'[p] = view[p]
        <4>1. /\ m.type = "generate" => HandleGenerate(c, m)
              /\ m.type = "update" => HandleUpdateField(c, m)
              /\ m.type = "disable" => HandleDisable(c, m)
              /\ m.type = "delete" => HandleDelete(c, m)
          BY <1>1, ReceiptKinds
        <4>2. ASSUME HandleGenerate(c, m) PROVE \A p \in Clients : p # c => view'[p] = view[p]
          BY <1>2, <4>2 DEF HandleGenerate
        <4>3. ASSUME HandleUpdateField(c, m) PROVE \A p \in Clients : p # c => view'[p] = view[p]
          BY <1>2, <4>3 DEF HandleUpdateField
        <4>4. ASSUME HandleDisable(c, m) PROVE \A p \in Clients : p # c => view'[p] = view[p]
          BY <1>2, <4>4 DEF HandleDisable
        <4>5. ASSUME HandleDelete(c, m) PROVE \A p \in Clients : p # c => view'[p] = view[p]
          BY <1>2, <4>5 DEF HandleDelete
        <4> QED
          BY <4>1, <4>2, <4>3, <4>4, <4>5
      <3>3. m.type \in {"request", "range"} => UNCHANGED view
        BY <1>1, ReceiptKinds DEF HandleRequestGenerates, HandleSetDoIdrange
      <3> QED
        BY <3>1, <3>2, <3>3
    <2> QED
      BY <1>2, <2>1, <2>2
  <1>12. \A i \in DOMAIN ms : ms[i].type # "disconnect"
    BY <1>7, <1>8
  <1>13. UNCHANGED <<connected, current, objects, online, left>>
    BY <1>2 DEF server
  <1>14. Telling(c, ms)
    BY <1>2, <1>9, <1>10, <1>11, <1>12, <1>13 DEF Telling
  <1> QED
    BY <1>14, FlowTold

(* A client comes: it has nothing, and is shown nothing.                   *)
LEMMA FlowConnects ==
  ASSUME IInv, Flow, NEW c \in Clients, Connect(c)
  PROVE  Flow'
  <1>1. /\ c \notin online \cup left /\ connected' = connected \cup {c} /\ online' = online \cup {c}
        /\ toClient' = [toClient EXCEPT ![c] = <<SetDoIdrange>>]
        /\ UNCHANGED <<current, objects, view, toServer, left>>
        /\ DOMAIN toClient = Clients /\ online \subseteq Clients
    BY DEF Connect, IInv, ClientTypes, Told
  <1>2. toClient'[c] = <<SetDoIdrange>> /\ \A p \in Clients : p # c => toClient'[p] = toClient[p]
    BY <1>1
  <1>3. toServer[c] = <<>> /\ (\A d \in DoIds : ~Has(c, d)) /\ current[c] = {}
    BY <1>1 DEF IInv, Books, TablesAgree, Flow, Fresh
  <1>4. /\ \A d : Mute(<<SetDoIdrange>>, d) /\ ~ShownIn(<<SetDoIdrange>>, d)
        /\ \A d : ~Knows(<<SetDoIdrange>>, d, FALSE)
    BY OneAt DEF Mute, ShownIn, Speaks, Shows, Knows, SetDoIdrange
  <1>5. Fresh' /\ Located'
    BY <1>1 DEF Flow, Fresh, Located, Has
  <1>6. \A d \in DoIds : ~WillHave(c, d)'
    BY <1>1, <1>2, <1>3, <1>4 DEF WillHave, Has
  <1>7. Orderly(c)' /\ \A d \in DoIds : NoneAhead(c, d)'
    BY <1>1, <1>2, <1>3, <1>4, <1>6 DEF Orderly, Followed, NoneAhead
  <1>8. ASSUME NEW p \in online
        PROVE  /\ p \in Clients /\ p # c
               /\ Orderly(p)' /\ \A d : WillHave(p, d)' <=> WillHave(p, d)
    BY <1>1, <1>2 DEF Flow, Orderly, WillHave, Has
  <1>9. \A p \in online : \A d \in DoIds \ Own(p) : NoneAhead(p, d)'
    BY <1>1, <1>8 DEF Flow, NoneAhead
  <1>10. ASSUME NEW o \in online, NEW d \in Own(o), Has(o, d), Accepts(o, d)
         PROVE  Placed(o, d)' /\ \A p \in online' \ {o} : Seen(p, o, d)'
    <2>1. Placed(o, d)'
      BY <1>1, <1>2, <1>8, <1>10 DEF Flow, Placed
    <2>2. ASSUME NEW p \in online \ {o} PROVE Seen(p, o, d)'
      <3>1. /\ toClient'[p] = toClient[p] /\ toClient'[o] = toClient[o]
            /\ WillHave(p, d)' <=> WillHave(p, d)
        BY <1>2, <1>8
      <3>2. Seen(p, o, d)
        BY <1>10 DEF Flow
      <3> QED
        BY <1>1, <3>1, <3>2 DEF Seen
    <2>3. Seen(c, o, d)'
      BY <1>1, <1>3, <1>6, Owned DEF Seen, IInv, ClientTypes
    <2> QED
      BY <1>1, <2>1, <2>2, <2>3
  <1>11. \A p, d : Has(p, d)' <=> Has(p, d)
    BY <1>1 DEF Has
  <1> QED
    BY <1>1, <1>3, <1>5, <1>7, <1>8, <1>9, <1>10, <1>11, Owned DEF Flow, Own, Accepts, GetDoIdBase, IsLocalId, DoIdBase

(* A connection ends: what is said of the client no longer counts.         *)
LEMMA FlowBreaks ==
  ASSUME IInv, Flow, NEW c \in Clients, NEW said \in BOOLEAN, Break(c, said)
  PROVE  Flow'
  <1>1. /\ c \in online /\ left' = left \cup {c} /\ online' = online \ {c}
        /\ UNCHANGED <<connected, current, objects, view>>
        /\ \A p \in Clients : p # c => toClient'[p] = toClient[p] /\ toServer'[p] = toServer[p]
        /\ online \subseteq Clients
    BY DEF Break, Send, server, IInv, ClientTypes, Told, Said
  <1>2. Fresh' /\ Located'
    BY <1>1 DEF Flow, Fresh, Located, Has
  <1>3. ASSUME NEW p \in online'
        PROVE  /\ p \in online /\ p \in Clients /\ toClient'[p] = toClient[p] /\ toServer'[p] = toServer[p]
               /\ \A d : (WillHave(p, d)' <=> WillHave(p, d)) /\ (Has(p, d)' <=> Has(p, d))
    BY <1>1 DEF WillHave, Has
  <1>4. ASSUME NEW p \in online' PROVE Orderly(p)' /\ \A d \in DoIds \ Own(p) : NoneAhead(p, d)'
    BY <1>1, <1>3 DEF Flow, Orderly, NoneAhead
  <1>5. ASSUME NEW o \in online', NEW d \in Own(o), Has(o, d)', Accepts(o, d), NEW p \in online' \ {o}
        PROVE  Placed(o, d)' /\ Seen(p, o, d)'
    <2>1. Placed(o, d) /\ Seen(p, o, d)
      BY <1>3, <1>5 DEF Flow
    <2> QED
      BY <1>1, <1>3, <2>1 DEF Placed, Seen
  <1>6. ASSUME NEW o \in online', NEW d \in Own(o), Has(o, d)', Accepts(o, d) PROVE Placed(o, d)'
    <2>1. Placed(o, d)
      BY <1>3, <1>6 DEF Flow
    <2> QED
      BY <1>1, <1>3, <2>1 DEF Placed
  <1> QED
    BY <1>2, <1>4, <1>5, <1>6 DEF Flow, Own, Accepts, GetDoIdBase, IsLocalId, DoIdBase

(* The server has no object more, or one of a client that it accepts.      *)
LEMMA NoneMore ==
  ASSUME Vetted, \A d \in DoIds : objects'[d] \in {objects[d], NoZone}
  PROVE  Vetted'
  <1>1. \A c \in Clients : \A d \in Own(c) : objects'[d] # NoZone => Accepts(c, d)
    BY Owned DEF Vetted, Exists
  <1> QED
    BY <1>1 DEF Vetted, Exists, Own, Accepts, GetDoIdBase, IsLocalId, DoIdBase

LEMMA OneMore ==
  ASSUME Vetted, NEW c \in Clients, NEW d \in Own(c), Accepts(c, d), NEW z,
         objects \in [DoIds -> Zones \cup {NoZone}], objects' = [objects EXCEPT ![d] = z]
  PROVE  Vetted'
  <1>1. ASSUME NEW p \in Clients, NEW e \in Own(p), objects'[e] # NoZone PROVE Accepts(p, e)
    <2>1. CASE e = d
      BY <2>1, Owned
    <2>2. CASE e # d
      <3>1. e \in DoIds /\ objects'[e] = objects[e]
        BY <2>2, Owned
      <3> QED
        BY <1>1, <3>1 DEF Vetted, Exists
    <2> QED
      BY <2>1, <2>2
  <1> QED
    BY <1>1 DEF Vetted, Exists, Own, Accepts, GetDoIdBase, IsLocalId, DoIdBase

LEMMA VettedReceipt ==
  ASSUME IInv, Vetted, NEW c \in Clients, ServerReceive(c)
  PROVE  Vetted'
  <1>1. PICK m \in FromClient(c) : m = Head(toServer[c])
    BY TakenFirst DEF IInv, Said, ServerReceive
  <1>2. \/ HandleClientCreateObject(c, m)
        \/ HandleClientObjectUpdateField(c, m)
        \/ HandleClientObjectSetZone(c, m)
        \/ HandleClientDeleteObject(c, m)
        \/ HandleClientSetInterest(c, m)
        \/ HandleClientDisconnect(c)
    BY <1>1 DEF ServerReceive
  <1>3. objects \in [DoIds -> Zones \cup {NoZone}]
    BY DEF IInv, Books, ServerTypes
  <1>4. UNCHANGED objects => Vetted'
    BY NoneMore
  <1>5. ASSUME NEW d \in Own(c), NEW z, NEW last, Moved(c, d, z, last), Accepts(c, d) PROVE Vetted'
    <2>1. UNCHANGED objects \/ objects' = [objects EXCEPT ![d] = z]
      BY <1>5 DEF Moved, UpdateClientInterestZones
    <2> QED
      BY <1>3, <1>4, <1>5, <2>1, OneMore
  <1>6. CASE HandleClientCreateObject(c, m)
    <2>1. PICK d \in Own(c) : d = m.doId
      BY <1>6, ClientMessageKinds DEF HandleClientCreateObject
    <2>2. CASE Accepts(c, d) /\ Exists(d)
      <3>1. \E last : Moved(c, d, m.zone, last)
        BY <1>6, <2>1, <2>2 DEF HandleClientCreateObject
      <3> QED
        BY <1>5, <2>2, <3>1
    <2>3. CASE Accepts(c, d) /\ ~Exists(d)
      <3>1. objects' = [objects EXCEPT ![d] = m.zone]
        BY <1>6, <2>1, <2>3 DEF HandleClientCreateObject, UpdateClientInterestZones
      <3> QED
        BY <1>3, <2>3, <3>1, OneMore
    <2>4. CASE ~Accepts(c, d)
      BY <1>4, <1>6, <2>1, <2>4 DEF HandleClientCreateObject
    <2> QED
      BY <2>2, <2>3, <2>4
  <1>7. CASE HandleClientObjectUpdateField(c, m)
    BY <1>4, <1>7 DEF HandleClientObjectUpdateField, server
  <1>8. CASE HandleClientObjectSetZone(c, m)
    <2>1. PICK d \in Own(c) : d = m.doId
      BY <1>8, ClientMessageKinds DEF HandleClientObjectSetZone
    <2>2. CASE Exists(d)
      <3>1. Accepts(c, d) /\ Moved(c, d, m.zone, Nothing)
        BY <1>8, <2>1, <2>2 DEF HandleClientObjectSetZone, Vetted
      <3> QED
        BY <1>5, <3>1
    <2>3. CASE ~Exists(d)
      BY <1>4, <1>8, <2>1, <2>3 DEF HandleClientObjectSetZone
    <2> QED
      BY <2>2, <2>3
  <1>9. CASE HandleClientDeleteObject(c, m)
    <2>1. UNCHANGED objects \/ objects' = [objects EXCEPT ![m.doId] = NoZone]
      BY <1>9 DEF HandleClientDeleteObject, UpdateClientInterestZones
    <2>2. \A d \in DoIds : objects'[d] \in {objects[d], NoZone}
      BY <1>3, <2>1
    <2> QED
      BY <2>2, NoneMore
  <1>10. CASE HandleClientSetInterest(c, m)
    BY <1>4, <1>10 DEF HandleClientSetInterest, UpdateClientInterestZones
  <1>11. CASE HandleClientDisconnect(c)
    <2>1. \A d \in DoIds : objects'[d] \in {objects[d], NoZone}
      BY <1>11 DEF HandleClientDisconnect
    <2> QED
      BY <2>1, NoneMore
  <1> QED
    BY <1>2, <1>6, <1>7, <1>8, <1>9, <1>10, <1>11

LEMMA VettedKept ==
  ASSUME IInv, Vetted, Next
  PROVE  Vetted'
  <1>1. PICK c \in Clients :
          \/ Connect(c)
          \/ ServerReceive(c)
          \/ HardDisconnect(c)
          \/ ClientReceive(c)
          \/ \E d \in DoIds : SetField(c, d) \/ SendDeleteMsg(c, d)
          \/ \E d \in DoIds, z \in Zones : CreateDistributedObject(c, d, z) \/ SetObjectZone(c, d, z)
          \/ \E Z \in SUBSET Zones : SetInterestZones(c, Z)
          \/ \E said \in BOOLEAN : Break(c, said)
    BY DEF Next
  <1>2. UNCHANGED objects => Vetted'
    BY NoneMore
  <1>3. CASE ServerReceive(c)
    BY <1>3, VettedReceipt
  <1>4. CASE HardDisconnect(c)
    <2>1. \A d \in DoIds : objects'[d] \in {objects[d], NoZone}
      BY <1>4 DEF HardDisconnect, HandleClientDisconnect
    <2> QED
      BY <2>1, NoneMore
  <1>5. CASE \/ \E d \in DoIds : SetField(c, d) \/ SendDeleteMsg(c, d)
             \/ \E d \in DoIds, z \in Zones : CreateDistributedObject(c, d, z) \/ SetObjectZone(c, d, z)
             \/ \E Z \in SUBSET Zones : SetInterestZones(c, Z)
    <2>1. UNCHANGED server
      BY <1>5, GameKeeps DEF IInv
    <2> QED
      BY <1>2, <2>1 DEF server
  <1>6. CASE Connect(c)
    BY <1>2, <1>6 DEF Connect
  <1>7. CASE ClientReceive(c)
    BY <1>2, <1>7 DEF ClientReceive, server
  <1>8. CASE \E said \in BOOLEAN : Break(c, said)
    BY <1>2, <1>8 DEF Break, server
  <1> QED
    BY <1>1, <1>3, <1>4, <1>5, <1>6, <1>7, <1>8

LEMMA FlowInitially == Init => Flow /\ Vetted
  <1> SUFFICES ASSUME Init PROVE Flow /\ Vetted
    OBVIOUS
  <1>1. /\ online = {} /\ connected = {} /\ \A c \in Clients : toServer[c] = <<>>
        /\ \A c \in Clients, d \in DoIds : ~Has(c, d)
    BY DEF Init, Has
  <1>2. Vetted
    BY Owned DEF Init, Vetted, Exists
  <1> QED
    BY <1>1, <1>2 DEF Flow, Fresh, Located

LEMMA FlowKept ==
  ASSUME IInv, IInv', Flow, Vetted, Next
  PROVE  Flow'
  <1>1. PICK c \in Clients :
          \/ Connect(c)
          \/ ServerReceive(c)
          \/ HardDisconnect(c)
          \/ ClientReceive(c)
          \/ \E d \in DoIds : SetField(c, d) \/ SendDeleteMsg(c, d)
          \/ \E d \in DoIds, z \in Zones : CreateDistributedObject(c, d, z) \/ SetObjectZone(c, d, z)
          \/ \E Z \in SUBSET Zones : SetInterestZones(c, Z)
          \/ \E said \in BOOLEAN : Break(c, said)
    BY DEF Next
  <1>2. c \in connected => c \in online \cup left
    BY DEF Flow, Fresh
  <1>3. CASE ServerReceive(c)
    <2>1. PICK m \in FromClient(c) : m = Head(toServer[c])
      BY <1>3, TakenFirst DEF IInv, Said, ServerReceive
    <2>2. PICK mail : Effect(c, m, mail)
      BY <1>3, <2>1, ReceiptEffect
    <2>3. /\ c \in connected /\ toServer[c] # <<>> /\ UNCHANGED <<online, view, left>>
          /\ toServer' = [toServer EXCEPT ![c] = Tail(toServer[c])] /\ DOMAIN toServer = Clients
      BY <1>3 DEF ServerReceive, Taken, clients, IInv, Said
    <2>4. connected' \subseteq connected
      <3>1. connected' = connected \/ HandleClientDisconnect(c)
        BY <1>3 DEF ServerReceive, HandleClientCreateObject, HandleClientObjectUpdateField,
           HandleClientObjectSetZone, HandleClientDeleteObject, HandleClientSetInterest, server
      <3> QED
        BY <3>1 DEF HandleClientDisconnect
    <2>5. Handling(c, m, mail)
      BY <2>1, <2>2, <2>3, <2>4 DEF Handling
    <2> QED
      BY <1>2, <2>3, <2>5, FlowHandled
  <1>4. CASE HardDisconnect(c)
    <2>1. /\ c \in connected \ online /\ HandleClientDisconnect(c) /\ UNCHANGED <<online, view, left>>
          /\ toServer' = [toServer EXCEPT ![c] = <<>>] /\ DOMAIN toServer = Clients
          /\ Books /\ Books' /\ online \subseteq Clients
      BY <1>4 DEF HardDisconnect, clients, IInv, Said, ClientTypes
    <2>2. PICK mail : Effect(c, Disconnect, mail)
      BY <2>1, GoneEffect
    <2>3. connected' \subseteq connected /\ Disconnect \in FromClient(c)
      BY <2>1, ClientMessages DEF HandleClientDisconnect
    <2>4. Handling(c, Disconnect, mail)
      BY <2>1, <2>2, <2>3 DEF Handling
    <2> QED
      BY <1>2, <2>1, <2>4, FlowHandled
  <1>5. CASE \/ \E d \in DoIds : SetField(c, d) \/ SendDeleteMsg(c, d)
             \/ \E d \in DoIds, z \in Zones : CreateDistributedObject(c, d, z) \/ SetObjectZone(c, d, z)
             \/ \E Z \in SUBSET Zones : SetInterestZones(c, Z)
    BY <1>5, FlowGame
  <1>6. CASE Connect(c)
    BY <1>6, FlowConnects
  <1>7. CASE ClientReceive(c)
    BY <1>7, FlowReceived
  <1>8. CASE \E said \in BOOLEAN : Break(c, said)
    BY <1>8, FlowBreaks
  <1> QED
    BY <1>1, <1>3, <1>4, <1>5, <1>6, <1>7, <1>8

(* What is on its way is right, whatever the messages' order.              *)
THEOREM MessagesRight == Spec => [](IInv /\ Vetted /\ Flow)
  <1>1. Init => IInv /\ Vetted /\ Flow
    BY Initially, FlowInitially
  <1>2. ASSUME IInv /\ Vetted /\ Flow, [Next]_vars PROVE (IInv /\ Vetted /\ Flow)'
    <2>1. CASE Next
      BY <1>2, <2>1, Kept, VettedKept, FlowKept
    <2>2. CASE UNCHANGED vars
      <3>1. UNCHANGED <<connected, explicit, current, listeners, objects, online, view, free, deleting,
                        toServer, toClient, ops, left>>
        BY <2>2 DEF vars, server, clients, net
      <3>2. IInv'
        BY <1>2, <3>1, BooksIdle, MailIdle DEF IInv, ClientTypes, Said, server
      <3>3. Vetted'
        BY <1>2, <3>1, NoneMore
      <3>4. Flow'
        BY <1>2, <3>1 DEF Flow, Fresh, Located, Orderly, NoneAhead, Placed, Seen, WillHave, Has,
           Own, Accepts, GetDoIdBase, IsLocalId, DoIdBase
      <3> QED
        BY <3>2, <3>3, <3>4
    <2> QED
      BY <1>2, <2>1, <2>2
  <1> QED
    BY <1>1, <1>2, PTL DEF Spec

LEMMA NothingHeard ==
  ASSUME NEW s, s = <<>>
  PROVE  /\ \A d : \A b \in BOOLEAN : Knows(s, d, b) <=> b
         /\ \A d : ~ShownIn(s, d) /\ Mute(s, d)
         /\ \A m : ~Contains(s, m)
  BY DEF Knows, ShownIn, HiddenIn, Mute, Contains

(* A client that has heard everything knows nothing that is gone or out of *)
(* its zones.                                                              *)
THEOREM NoGhostStays == Spec => []NoGhosts
  <1>1. ASSUME IInv, Flow PROVE NoGhosts
    <2> SUFFICES ASSUME NEW c \in online, toClient[c] = <<>>, NEW d \in DoIds \ Own(c), Has(c, d)
                 PROVE  objects[d] \in current[c]
      BY DEF NoGhosts
    <2>1. NoneAhead(c, d)
      BY <1>1 DEF Flow
    <2>2. WillHave(c, d)
      BY NothingHeard DEF WillHave, Has
    <2> QED
      BY <2>1, <2>2 DEF NoneAhead
  <1> QED
    BY <1>1, MessagesRight, PTL

(* When all is quiet, the server has each object that it accepts where its *)
(* owner put it.                                                           *)
THEOREM ObjectsArePlaced == Spec => []OwnerPlaced
  <1>1. ASSUME IInv, Flow PROVE OwnerPlaced
    <2> SUFFICES ASSUME Quiet, NEW o \in online, NEW d \in Own(o), Has(o, d), Accepts(o, d)
                 PROVE  objects[d] = view[o][d].zone
      BY DEF OwnerPlaced
    <2>1. o \in Clients /\ Placed(o, d)
      BY <1>1 DEF IInv, ClientTypes, Flow
    <2>2. toServer[o] = <<>> /\ toClient[o] = <<>>
      BY <2>1 DEF Quiet
    <2> QED
      BY <2>1, <2>2, NothingHeard DEF Placed
  <1> QED
    BY <1>1, MessagesRight, PTL

(* When all is quiet, each client knows every object in its zones that its *)
(* owner holds, with the owner's value: what is in a zone was accepted.    *)
THEOREM ViewsBecomeComplete == Spec => []ViewsComplete
  <1>1. ASSUME IInv, Vetted, Flow PROVE ViewsComplete
    <2> SUFFICES ASSUME Quiet, NEW c \in online, NEW o \in online, NEW d \in Own(o),
                        c # o, objects[d] \in current[c], Has(o, d)
                 PROVE  Has(c, d) /\ view[c][d].value = view[o][d].value
      BY DEF ViewsComplete
    <2>1. o \in Clients /\ c \in Clients /\ Accepts(o, d)
      <3>1. o \in Clients /\ c \in Clients /\ current[c] \in SUBSET Zones
        BY <1>1 DEF IInv, ClientTypes, Books, ServerTypes
      <3>2. Exists(d)
        BY <3>1, SetsAssumption DEF Exists
      <3> QED
        BY <1>1, <3>1, <3>2 DEF Vetted
    <2>2. Seen(c, o, d)
      BY <1>1, <2>1 DEF Flow
    <2>3. toServer[o] = <<>> /\ toClient[o] = <<>> /\ toClient[c] = <<>>
      BY <2>1 DEF Quiet
    <2>4. WillHave(c, d) <=> Has(c, d)
      BY <2>3, NothingHeard DEF WillHave, Has
    <2> QED
      BY <2>2, <2>3, <2>4, NothingHeard DEF Seen
  <1> QED
    BY <1>1, MessagesRight, PTL

-------------------------------------------------------------------------------
(* The caches of the clients                                               *)

(* No element comes twice.                                                 *)
Once(s) == \A i, j \in 1 .. Len(s) : s[i] = s[j] => i = j

(* What a client has in its cache: objects of others, each once, that it   *)
(* does not know, and no more than fit.                                    *)
Stored(c) ==
  /\ cache[c] \in Seq(DoIds \ Own(c))
  /\ Len(cache[c]) <= MaxCached
  /\ Once(cache[c])
  /\ \A i \in 1 .. Len(cache[c]) : ~Has(c, cache[c][i])

CachesRight == DOMAIN cache = Clients /\ \A c \in Clients : Stored(c)

(* fifo.remove takes the element out, once and for all, and no other.      *)
LEMMA WithoutIt ==
  ASSUME NEW S, NEW s \in Seq(S), Once(s), NEW d
  PROVE  /\ Without(s, d) \in Seq(S)
         /\ Len(Without(s, d)) <= Len(s)
         /\ Once(Without(s, d))
         /\ \A k \in 1 .. Len(Without(s, d)) :
              Without(s, d)[k] # d /\ \E i \in 1 .. Len(s) : Without(s, d)[k] = s[i]
  <1>1. CASE ~\E i \in DOMAIN s : s[i] = d
    <2>1. Without(s, d) = s /\ DOMAIN s = 1 .. Len(s)
      BY <1>1 DEF Without
    <2> QED
      BY <1>1, <2>1
  <1>2. CASE \E i \in DOMAIN s : s[i] = d
    <2>1. PICK n \in Nat : n = Len(s) /\ DOMAIN s = 1 .. n
      OBVIOUS
    <2>2. PICK k \in 1 .. n : s[k] = d
      BY <1>2, <2>1
    <2>3. \A j \in 1 .. n : s[j] = d => j = k
      BY <2>1, <2>2 DEF Once
    <2>4. \E i \in DOMAIN s : s[i] = d /\ \A j \in 1 .. i - 1 : s[j] # d
      BY <2>1, <2>2, <2>3
    <2>5. PICK i : i = CHOOSE e \in DOMAIN s : s[e] = d /\ \A j \in 1 .. e - 1 : s[j] # d
      OBVIOUS
    <2>6. i = k
      BY <2>1, <2>3, <2>4, <2>5
    <2>7. Without(s, d) = SubSeq(s, 1, k - 1) \o SubSeq(s, k + 1, n)
      BY <1>2, <2>1, <2>5, <2>6 DEF Without
    <2>8. PICK u : u = Without(s, d)
      OBVIOUS
    <2>9. PICK a, b : a = SubSeq(s, 1, k - 1) /\ b = SubSeq(s, k + 1, n)
      OBVIOUS
    <2>10. /\ a \in Seq(S) /\ Len(a) = k - 1 /\ \A j \in 1 .. k - 1 : a[j] = s[j]
           /\ b \in Seq(S) /\ Len(b) = n - k /\ \A j \in 1 .. n - k : b[j] = s[k + j]
      BY <2>1, <2>2, <2>9
    <2>11. /\ u \in Seq(S) /\ Len(u) = n - 1
           /\ \A j \in 1 .. n - 1 : u[j] = IF j < k THEN s[j] ELSE s[j + 1]
      <3>1. u = a \o b
        BY <2>7, <2>8, <2>9
      <3>2. /\ u \in Seq(S) /\ DOMAIN u = 1 .. Len(u) /\ DOMAIN u = 1 .. Len(a) + Len(b)
            /\ \A j \in 1 .. Len(a) : u[j] = a[j]
            /\ \A j \in 1 .. Len(b) : u[Len(a) + j] = b[j]
        <4>1. u \in Seq(S) /\ DOMAIN u = 1 .. Len(u)
          BY <2>10, <3>1
        <4>2. a \in Seq(S) /\ b \in Seq(S) /\ DOMAIN a = 1 .. Len(a) /\ DOMAIN b = 1 .. Len(b)
          BY <2>10
        <4>3. /\ DOMAIN (a \o b) = 1 .. Len(a) + Len(b)
              /\ \A j \in DOMAIN a : (a \o b)[j] = a[j]
              /\ \A j \in DOMAIN b : (a \o b)[Len(a) + j] = b[j]
          BY <4>2, JoinedAt
        <4> QED
          BY <3>1, <4>1, <4>2, <4>3
      <3>3. ASSUME NEW j \in 1 .. n - 1 PROVE u[j] = IF j < k THEN s[j] ELSE s[j + 1]
        <4>1. CASE j < k
          <5>1. j \in 1 .. k - 1
            BY <2>1, <2>2, <3>3, <4>1
          <5>2. u[j] = a[j]
            BY <2>10, <3>2, <5>1
          <5>3. a[j] = s[j]
            BY <2>10, <5>1
          <5> QED
            BY <4>1, <5>2, <5>3
        <4>2. CASE j >= k
          <5>1. j - (k - 1) \in 1 .. n - k /\ k + (j - (k - 1)) = j + 1
            BY <2>1, <2>2, <3>3, <4>2
          <5>2. u[j] = b[j - (k - 1)]
            <6>1. u[(k - 1) + (j - (k - 1))] = b[j - (k - 1)]
              BY <2>10, <3>2, <5>1
            <6> QED
              BY <2>1, <2>2, <5>1, <6>1
          <5>3. b[j - (k - 1)] = s[k + (j - (k - 1))]
            BY <2>10, <5>1
          <5> QED
            BY <2>1, <2>2, <4>2, <5>1, <5>2, <5>3
        <4> QED
          BY <2>1, <2>2, <4>1, <4>2
      <3>4. Len(u) = n - 1
        <4>1. DOMAIN u = 1 .. n - 1 /\ DOMAIN u = 1 .. Len(u) /\ Len(u) \in Nat
          BY <2>1, <2>2, <2>10, <3>2
        <4> QED
          BY <2>1, <2>2, <3>2, <4>1
      <3> QED
        BY <3>2, <3>3, <3>4
    <2>12. Once(u)
      <3> DEFINE at(j) == IF j < k THEN j ELSE j + 1
      <3>1. ASSUME NEW j \in 1 .. n - 1 PROVE at(j) \in 1 .. n /\ u[j] = s[at(j)]
        BY <2>1, <2>2, <2>11
      <3>2. ASSUME NEW h \in 1 .. n - 1, NEW j \in 1 .. n - 1, u[h] = u[j] PROVE h = j
        <4>1. s[at(h)] = s[at(j)] /\ at(h) \in 1 .. n /\ at(j) \in 1 .. n
          BY <3>1, <3>2
        <4> HIDE DEF at
        <4>2. at(h) = at(j)
          BY <2>1, <4>1 DEF Once
        <4> QED
          BY <4>2 DEF at
      <3> QED
        BY <2>11, <3>2 DEF Once
    <2>13. \A j \in 1 .. Len(u) : u[j] # d /\ \E l \in 1 .. Len(s) : u[j] = s[l]
      BY <2>1, <2>2, <2>3, <2>11
    <2> QED
      BY <2>1, <2>8, <2>11, <2>12, <2>13
  <1> QED
    BY <1>1, <1>2

(* A listing of a set has each element once.                               *)
LEMMA ListingOnce ==
  ASSUME NEW T, IsFiniteSet(T)
  PROVE  Listing(T) \in Seq(T) /\ Once(Listing(T))
  <1>1. PICK n, list : n = Cardinality(T) /\ list = Listing(T)
    OBVIOUS
  <1>2. n \in Nat /\ list \in [1 .. n -> T] /\ \A x \in T : \E i \in 1 .. n : list[i] = x
    BY <1>1, ListingOf, ListingAll
  <1>3. list \in Surjection(1 .. n, T)
    BY <1>2 DEF Surjection
  <1>4. IsFiniteSet(1 .. n) /\ Cardinality(1 .. n) = n
    BY <1>2, FS_Interval
  <1>5. list \in Injection(1 .. n, T)
    BY <1>1, <1>3, <1>4, FS_SurjSameCardinalityImpliesInj
  <1>6. list \in Seq(T) /\ Len(list) = n
    BY <1>2
  <1>7. \A i, j \in 1 .. n : list[i] = list[j] => i = j
    BY <1>2, <1>5 DEF Injection, IsInjective
  <1> QED
    BY <1>1, <1>6, <1>7 DEF Once

LEMMA OnceJoined ==
  ASSUME NEW S, NEW s \in Seq(S), NEW t \in Seq(S), Once(s), Once(t),
         \A i \in 1 .. Len(s), j \in 1 .. Len(t) : s[i] # t[j]
  PROVE  Once(s \o t)
  <1>1. PICK n \in Nat, k \in Nat : n = Len(s) /\ k = Len(t)
    OBVIOUS
  <1>2. PICK u : u = s \o t
    OBVIOUS
  <1>3. Len(u) = n + k /\ \A i \in 1 .. n + k : u[i] = IF i <= n THEN s[i] ELSE t[i - n]
    BY <1>1, <1>2
  <1>4. SUFFICES ASSUME NEW i \in 1 .. n + k, NEW j \in 1 .. n + k, u[i] = u[j] PROVE i = j
    BY <1>2, <1>3 DEF Once
  <1>5. CASE i <= n /\ j <= n
    BY <1>1, <1>3, <1>4, <1>5 DEF Once
  <1>6. CASE i > n /\ j > n
    <2>1. i - n \in 1 .. k /\ j - n \in 1 .. k
      BY <1>1, <1>4, <1>6
    <2>a. u[i] = t[i - n]
      BY <1>3, <1>4, <1>6
    <2>3. u[i] = t[i - n] /\ u[j] = t[j - n]
      <3>1. u[j] = IF j <= n THEN s[j] ELSE t[j - n]
        BY <1>3, <1>4
      <3>2. ~(j <= n)
        BY <1>1, <1>4, <1>6
      <3> QED
        BY <2>a, <3>1, <3>2
    <2>2. i - n = j - n
      BY <1>1, <1>4, <2>1, <2>3 DEF Once
    <2> QED
      BY <1>1, <2>2
  <1>7. CASE i <= n /\ j > n
    BY <1>1, <1>3, <1>4, <1>7
  <1>8. CASE i > n /\ j <= n
    BY <1>1, <1>3, <1>4, <1>8
  <1> QED
    BY <1>1, <1>5, <1>6, <1>7, <1>8

(* The oldest leave.                                                       *)
LEMMA OnceCut ==
  ASSUME NEW S, NEW s \in Seq(S), Once(s), NEW o \in Nat, o <= Len(s)
  PROVE  LET u == SubSeq(s, o + 1, Len(s))
         IN  /\ u \in Seq(S) /\ Len(u) = Len(s) - o /\ Once(u)
             /\ \A i \in 1 .. Len(u) : \E j \in 1 .. Len(s) : u[i] = s[j]
  <1>1. PICK n \in Nat : n = Len(s)
    OBVIOUS
  <1>2. PICK u : u = SubSeq(s, o + 1, n)
    OBVIOUS
  <1>3. u \in Seq(S) /\ Len(u) = n - o /\ \A i \in 1 .. n - o : u[i] = s[i + o]
    BY <1>1, <1>2
  <1>4. Once(u)
    <2>1. ASSUME NEW i \in 1 .. n - o, NEW j \in 1 .. n - o, u[i] = u[j] PROVE i = j
      <3>1. i + o \in 1 .. n /\ j + o \in 1 .. n
        BY <1>1
      <3>2. s[i + o] = s[j + o]
        BY <1>3, <2>1
      <3>3. i + o = j + o
        BY <1>1, <3>1, <3>2 DEF Once
      <3> QED
        BY <1>1, <3>3
    <2> QED
      BY <1>3, <2>1 DEF Once
  <1> QED
    BY <1>1, <1>2, <1>3, <1>4

(* A message to c leaves the caches of the others alone, and what c knows  *)
(* afterwards it knew already or is shown now.                             *)
LEMMA CachesReceive ==
  ASSUME IInv, Flow, CachesRight, NEW c \in Clients, ClientReceive(c)
  PROVE  CachesRight'
  <1>1. PICK m \in Fit(c) : m = Head(toClient[c])
    BY TakenFirst DEF IInv, Told, ClientReceive
  <1>2. /\ c \in online /\ Stored(c) /\ DOMAIN cache = Clients
        /\ MaxCached \in Nat /\ Own(c) \subseteq DoIds
        /\ cache[c] \in Seq(DoIds \ Own(c))
    BY LimitsAssumption, Owned DEF ClientReceive, CachesRight, Stored
  <1>3. \A e \in DoIds : Has(c, e)' => Has(c, e) \/ Shows(m, e)
    <2> SUFFICES ASSUME NEW e \in DoIds, Has(c, e)', ~Shows(m, e) PROVE Has(c, e)
      OBVIOUS
    <2>1. ~Hides(m, e) /\ (Has(c, e)' <=> Has(c, e))
      BY <1>1, <1>2, ReceiptView
    <2> QED
      BY <2>1
  <1>4. \A e \in DoIds : Hides(m, e) => ~Has(c, e)'
    BY <1>1, <1>2, ReceiptView
  <1>5. /\ m.type \in {"generate", "update", "disable", "delete", "request", "range"}
        /\ m.type = "generate" => HandleGenerate(c, m)
        /\ m.type = "update" => HandleUpdateField(c, m)
        /\ m.type = "disable" => HandleDisable(c, m)
        /\ m.type = "delete" => HandleDelete(c, m)
        /\ m.type = "request" => HandleRequestGenerates(c, m)
        /\ m.type = "range" => HandleSetDoIdrange(c, m)
    BY <1>1, ReceiptKinds
  <1>6. \A i \in 1 .. Len(cache[c]) : cache[c][i] \in DoIds \ Own(c) /\ ~Has(c, cache[c][i])
    BY <1>2 DEF Stored
  <1>7. ASSUME cache'[c] = cache[c], \A i \in 1 .. Len(cache[c]) : ~Shows(m, cache[c][i])
        PROVE  Stored(c)'
    <2>1. \A i \in 1 .. Len(cache[c]) : ~Has(c, cache[c][i])'
      BY <1>3, <1>6, <1>7
    <2> QED
      BY <1>2, <1>7, <2>1 DEF Stored, Has, Own, IsLocalId, DoIdBase
  <1>8. ASSUME NEW d, cache'[c] = Without(cache[c], d), \A e : Shows(m, e) => e = d
        PROVE  Stored(c)'
    <2>1. PICK u : u = Without(cache[c], d)
      OBVIOUS
    <2>2. /\ u \in Seq(DoIds \ Own(c)) /\ Len(u) <= Len(cache[c]) /\ Once(u)
          /\ \A k \in 1 .. Len(u) : u[k] # d /\ \E i \in 1 .. Len(cache[c]) : u[k] = cache[c][i]
      BY <1>2, <2>1, WithoutIt DEF Stored
    <2>3. Len(u) <= MaxCached
      BY <1>2, <2>2 DEF Stored
    <2>4. ASSUME NEW k \in 1 .. Len(u) PROVE ~Has(c, u[k])'
      <3>1. u[k] \in DoIds /\ ~Has(c, u[k]) /\ u[k] # d
        BY <1>6, <2>2
      <3> QED
        BY <1>3, <1>8, <3>1
    <2> QED
      BY <1>8, <2>1, <2>2, <2>3, <2>4 DEF Stored, Has, Own, IsLocalId, DoIdBase
  <1>9. Stored(c)'
    <2>1. CASE m.type = "generate"
      <3>1. \A e : Shows(m, e) <=> e = m.doId
        BY <2>1 DEF Shows
      <3>2. cache'[c] = IF Has(c, m.doId) THEN cache[c] ELSE Without(cache[c], m.doId)
        BY <1>2, <1>5, <2>1 DEF HandleGenerate
      <3>3. CASE Has(c, m.doId)
        BY <1>6, <1>7, <3>1, <3>2, <3>3
      <3>4. CASE ~Has(c, m.doId)
        BY <1>8, <3>1, <3>2, <3>4
      <3> QED
        BY <3>3, <3>4
    <2>2. CASE m.type = "delete"
      <3>1. \A e : ~Shows(m, e)
        BY <2>2 DEF Shows
      <3>2. cache'[c] = IF Has(c, m.doId) THEN cache[c] ELSE Without(cache[c], m.doId)
        BY <1>2, <1>5, <2>2 DEF HandleDelete
      <3> QED
        BY <1>7, <1>8, <3>1, <3>2
    <2>3. CASE m.type \in {"update", "request", "range"}
      <3>1. \A e : ~Shows(m, e)
        BY <2>3 DEF Shows
      <3>2. UNCHANGED cache
        BY <1>5, <2>3 DEF HandleUpdateField, HandleRequestGenerates, HandleSetDoIdrange
      <3> QED
        BY <1>7, <3>1, <3>2
    <2>4. CASE m.type = "disable"
      <3>1. HandleDisable(c, m) /\ m.doIds \in SUBSET DoIds /\ m.doIds \cap Own(c) = {}
        <4>1. m \in ForClient(c) /\ m.doIds \cap Own(c) = {}
          BY <1>1, <2>4 DEF Fit
        <4>2. m.doIds \in SUBSET DoIds
          BY <2>4, <4>1 DEF ForClient, SetDoIdrange
        <4> QED
          BY <1>5, <2>4, <4>1, <4>2
      <3>2. PICK kept : kept = {d \in m.doIds \cap Cacheable : Has(c, d)}
        OBVIOUS
      <3>3. PICK all : all = cache[c] \o Listing(kept)
        OBVIOUS
      <3>4. PICK over : over = IF Len(all) > MaxCached THEN Len(all) - MaxCached ELSE 0
        OBVIOUS
      <3>5. cache'[c] = SubSeq(all, over + 1, Len(all))
        BY <1>2, <3>1, <3>2, <3>3, <3>4 DEF HandleDisable
      <3>6. kept \in SUBSET (DoIds \ Own(c)) /\ IsFiniteSet(kept)
        BY <3>1, <3>2, Finite
      <3>7. PICK list : list = Listing(kept)
        OBVIOUS
      <3>8. /\ list \in Seq(kept) /\ Once(list)
            /\ list \in Seq(DoIds \ Own(c))
            /\ \A i \in 1 .. Len(list) : list[i] \in kept
        <4>1. list \in Seq(kept) /\ Once(list)
          BY <3>6, <3>7, ListingOnce
        <4> QED
          BY <3>6, <4>1
      <3>9. \A i \in 1 .. Len(list) : list[i] \in DoIds /\ Has(c, list[i]) /\ list[i] \in m.doIds
        BY <3>1, <3>2, <3>8
      <3>10. Once(all) /\ all \in Seq(DoIds \ Own(c))
        <4>1. \A i \in 1 .. Len(cache[c]), j \in 1 .. Len(list) : cache[c][i] # list[j]
          BY <1>6, <3>9
        <4>2. Once(cache[c])
          BY <1>2 DEF Stored
        <4> QED
          BY <1>2, <3>3, <3>7, <3>8, <4>1, <4>2, OnceJoined
      <3>11. \A i \in 1 .. Len(all) : ~Has(c, all[i])'
        <4> SUFFICES ASSUME NEW i \in 1 .. Len(all) PROVE ~Has(c, all[i])'
          OBVIOUS
        <4>1. all[i] \in DoIds /\ \A e : ~Shows(m, e)
          BY <2>4, <3>10 DEF Shows
        <4>2. (\E j \in 1 .. Len(cache[c]) : all[i] = cache[c][j]) \/ (\E j \in 1 .. Len(list) : all[i] = list[j])
          BY <1>2, <3>3, <3>7, <3>8
        <4>3. ~Has(c, all[i]) \/ Hides(m, all[i])
          BY <1>6, <2>4, <3>9, <4>2 DEF Hides
        <4> QED
          BY <1>3, <1>4, <4>1, <4>3
      <3>12. PICK u : u = SubSeq(all, over + 1, Len(all))
        OBVIOUS
      <3>13. over \in Nat /\ over <= Len(all) /\ Len(all) - over <= MaxCached
        BY <1>2, <3>4, <3>10
      <3>14. /\ u \in Seq(DoIds \ Own(c)) /\ Len(u) = Len(all) - over /\ Once(u)
             /\ \A i \in 1 .. Len(u) : \E j \in 1 .. Len(all) : u[i] = all[j]
        BY <3>10, <3>12, <3>13, OnceCut
      <3>15. \A i \in 1 .. Len(u) : ~Has(c, u[i])'
        BY <3>11, <3>14
      <3>16. cache'[c] = u /\ Len(u) <= MaxCached
        BY <3>5, <3>12, <3>13, <3>14
      <3> QED
        BY <3>14, <3>15, <3>16 DEF Stored, Has, Own, IsLocalId, DoIdBase
    <2> QED
      BY <1>5, <2>1, <2>2, <2>3, <2>4
  <1>10. DOMAIN cache' = Clients /\ \A p \in Clients : p # c => cache'[p] = cache[p] /\ view'[p] = view[p]
    <2>1. m.type \in {"generate", "disable", "delete"} =>
            DOMAIN cache' = Clients /\ \A p \in Clients : p # c => cache'[p] = cache[p] /\ view'[p] = view[p]
      BY <1>2, <1>5 DEF IInv, ClientTypes, HandleGenerate, HandleDisable, HandleDelete
    <2>2. m.type \in {"update", "request", "range"} =>
            UNCHANGED cache /\ \A p \in Clients : p # c => view'[p] = view[p]
      BY <1>5 DEF IInv, ClientTypes, HandleUpdateField, HandleRequestGenerates, HandleSetDoIdrange
    <2> QED
      BY <1>2, <1>5, <2>1, <2>2
  <1>11. ASSUME NEW p \in Clients, p # c PROVE Stored(p)'
    <2>1. Stored(p)
      BY DEF CachesRight
    <2> QED
      BY <1>10, <1>11, <2>1 DEF Stored, Has, Own, IsLocalId, DoIdBase
  <1> QED
    BY <1>9, <1>10, <1>11 DEF CachesRight

(* The game touches its own objects only, and no cache.                    *)
LEMMA CachesGame ==
  ASSUME IInv, CachesRight, UNCHANGED cache,
         \A p \in Clients : \A e \in DoIds \ Own(p) : view'[p][e] = view[p][e]
  PROVE  CachesRight'
  <1>1. ASSUME NEW p \in Clients PROVE Stored(p)'
    <2>1. Stored(p) /\ cache'[p] = cache[p]
      BY DEF CachesRight
    <2>2. ASSUME NEW i \in 1 .. Len(cache[p]) PROVE ~Has(p, cache[p][i])'
      <3>1. cache[p][i] \in DoIds \ Own(p) /\ ~Has(p, cache[p][i])
        BY <2>1 DEF Stored
      <3> QED
        BY <3>1 DEF Has
    <2> QED
      BY <2>1, <2>2 DEF Stored, Has, Own, IsLocalId, DoIdBase
  <1> QED
    BY <1>1 DEF CachesRight

LEMMA CachesKept ==
  ASSUME IInv, Flow, CachesRight, Next
  PROVE  CachesRight'
  <1>1. PICK c \in Clients :
          \/ Connect(c)
          \/ ServerReceive(c)
          \/ HardDisconnect(c)
          \/ ClientReceive(c)
          \/ \E d \in DoIds : SetField(c, d) \/ SendDeleteMsg(c, d)
          \/ \E d \in DoIds, z \in Zones : CreateDistributedObject(c, d, z) \/ SetObjectZone(c, d, z)
          \/ \E Z \in SUBSET Zones : SetInterestZones(c, Z)
          \/ \E said \in BOOLEAN : Break(c, said)
    BY DEF Next
  <1>2. view \in [Clients -> [DoIds -> [zone : Zones \cup {NoZone}, value : Nat]]]
    BY DEF IInv, ClientTypes
  <1>3. CASE ClientReceive(c)
    BY <1>3, CachesReceive
  <1>4. CASE Connect(c) \/ ServerReceive(c) \/ HardDisconnect(c) \/ \E said \in BOOLEAN : Break(c, said)
    <2>1. UNCHANGED <<view, cache>>
      BY <1>4 DEF Connect, ServerReceive, HardDisconnect, Break, clients
    <2> QED
      BY <2>1, CachesGame
  <1>5. CASE \/ \E d \in DoIds : SetField(c, d) \/ SendDeleteMsg(c, d)
             \/ \E Z \in SUBSET Zones : SetInterestZones(c, Z)
    <2>1. UNCHANGED cache /\ \A p \in Clients : \A e \in DoIds \ Own(p) : view'[p][e] = view[p][e]
      <3>1. ASSUME NEW d \in DoIds, SetField(c, d)
            PROVE  UNCHANGED cache /\ \A p \in Clients : \A e \in DoIds \ Own(p) : view'[p][e] = view[p][e]
        BY <1>2, <3>1 DEF SetField, Op, InPlay
      <3>2. ASSUME NEW d \in DoIds, SendDeleteMsg(c, d) PROVE UNCHANGED <<view, cache>>
        BY <3>2 DEF SendDeleteMsg, Op
      <3>3. ASSUME NEW Z \in SUBSET Zones, SetInterestZones(c, Z) PROVE UNCHANGED <<view, cache>>
        BY <3>3 DEF SetInterestZones, Op
      <3> QED
        BY <1>5, <3>1, <3>2, <3>3
    <2> QED
      BY <2>1, CachesGame
  <1>6. CASE \E d \in DoIds, z \in Zones : CreateDistributedObject(c, d, z) \/ SetObjectZone(c, d, z)
    <2>1. UNCHANGED cache /\ \A p \in Clients : \A e \in DoIds \ Own(p) : view'[p][e] = view[p][e]
      <3>1. ASSUME NEW d \in DoIds, NEW z \in Zones, CreateDistributedObject(c, d, z)
            PROVE  UNCHANGED cache /\ \A p \in Clients : \A e \in DoIds \ Own(p) : view'[p][e] = view[p][e]
        BY <1>2, <3>1 DEF CreateDistributedObject, Op
      <3>2. ASSUME NEW d \in DoIds, NEW z \in Zones, SetObjectZone(c, d, z)
            PROVE  UNCHANGED cache /\ \A p \in Clients : \A e \in DoIds \ Own(p) : view'[p][e] = view[p][e]
        BY <1>2, <3>2 DEF SetObjectZone, Op, InPlay
      <3> QED
        BY <1>6, <3>1, <3>2
    <2> QED
      BY <2>1, CachesGame
  <1> QED
    BY <1>1, <1>3, <1>4, <1>5, <1>6

(* CRCache and doId2do: an object is known to a client or in its cache or  *)
(* neither, it is there once, and the cache keeps to its bound.            *)
THEOREM CachesStayApart == Spec => []CacheApart
  <1>1. Init => CachesRight
    <2> SUFFICES ASSUME Init PROVE CachesRight
      OBVIOUS
    <2>1. cache = [c \in Clients |-> <<>>] /\ MaxCached \in Nat
      BY LimitsAssumption DEF Init
    <2> QED
      BY <2>1, EmptyMail DEF CachesRight, Stored, Once
  <1>2. ASSUME IInv /\ Flow, CachesRight, [Next]_vars PROVE CachesRight'
    <2>1. CASE UNCHANGED vars
      <3>1. UNCHANGED <<view, cache>>
        BY <2>1 DEF vars, clients
      <3> QED
        BY <1>2, <3>1, CachesGame
    <2> QED
      BY <1>2, <2>1, CachesKept
  <1>3. CachesRight => CacheApart
    BY DEF CachesRight, Stored, Once, CacheApart
  <1> QED
    BY <1>1, <1>2, <1>3, MessagesRight, PTL DEF Spec
===============================================================================
