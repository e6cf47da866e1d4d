------------------------------ MODULE LanObjects ------------------------------
(***************************************************************************)
(* The LAN server and its clients (distributed/ServerRepository.py and     *)
(* ClientRepository.py).  Clients own the objects they create and hold     *)
(* their state; the server knows only which object is in which zone and    *)
(* which client looks at which zones, and passes messages on.  A client    *)
(* that begins to look at a zone is told of the objects there by their     *)
(* owners, whom the server asks to send their generates once more.         *)
(*                                                                         *)
(* Connections are TCP: each direction is a sequence of messages.  The     *)
(* server handles one message at a time, from the clients in any order.    *)
(*                                                                         *)
(* A client has a range of ids of its own, of which client and server each *)
(* have a notion, and the two differ: the client takes the last id of its  *)
(* range for its own, the server for one of the next client.  Clients have *)
(* different numbers; one that comes after another has left counts as a    *)
(* client with a number of its own.                                        *)
(*                                                                         *)
(* All objects are of one class, with one field that only the owner sets;  *)
(* its values are told apart by the number of the operation that set them. *)
(***************************************************************************)
EXTENDS Integers, Sequences, FiniteSets

CONSTANTS Clients,
          Number,     \* the number idAllocator gives to each client
          DoIdRange,  \* how many ids a client gets
          DoIds,
          Zones,
          Cacheable,  \* ids of objects that getCacheable
          MaxCached,  \* maxCacheItems
          MaxOps      \* bound: operations of the game and ends of connections

ASSUME IdsAssumption ==
  /\ DoIds \subseteq Nat
  /\ DoIdRange \in Nat \ {0}
  /\ Number \in [Clients -> Nat]
  /\ \A c, p \in Clients : Number[c] = Number[p] => c = p
ASSUME LimitsAssumption ==
  /\ Cacheable \subseteq DoIds
  /\ {MaxCached, MaxOps} \subseteq Nat

VARIABLES
  connected,  \* clientsByConnection of the server
  explicit,   \* explicitInterestZoneIds
  current,    \* currentInterestZoneIds
  listeners,  \* zonesToClients
  objects,    \* the zone of each object the server knows, or NoZone
  online,     \* clients whose connection is up
  view,       \* doId2do of each client: zone and value, or Absent
  cache,      \* the fifo of each client's cache
  free,       \* ids that a client may allocate
  deleting,   \* ids the game has deleted and no longer touches
  toServer,   \* messages on their way
  toClient,
  ops,
  left        \* clients whose connection has ended; they do not come back

server == <<connected, explicit, current, listeners, objects>>
clients == <<online, view, cache, free, deleting>>
net == <<toServer, toClient>>
vars == <<server, clients, net, ops, left>>

-------------------------------------------------------------------------------

NoZone == "nowhere"

ASSUME SetsAssumption ==
  /\ IsFiniteSet(DoIds) /\ IsFiniteSet(Zones)
  /\ NoZone \notin Zones

Absent == [zone |-> NoZone, value |-> 0]

(* The server tells a client where its range begins.  The client takes     *)
(* DoIdRange ids from there on for its own.                                *)
DoIdBase(c) == Number[c] * DoIdRange + 1
IsLocalId(c, d) == DoIdBase(c) <= d /\ d < DoIdBase(c) + DoIdRange
Own(c) == {d \in DoIds : IsLocalId(c, d)}

(* The server computes from an id whose it is.                             *)
GetDoIdBase(d) == (d \div DoIdRange) * DoIdRange + 1
Accepts(c, d) == GetDoIdBase(d) = DoIdBase(c)

Has(c, d) == view[c][d] # Absent
Exists(d) == objects[d] # NoZone
InPlay(c, d) == d \in Own(c) \ deleting /\ Has(c, d)

Generate(d, z, v) == [type |-> "generate", doId |-> d, zone |-> z, value |-> v]
Update(d, v) == [type |-> "update", doId |-> d, value |-> v]
SetZone(d, z) == [type |-> "setZone", doId |-> d, zone |-> z]
Delete(d) == [type |-> "delete", doId |-> d]
Disable(S) == [type |-> "disable", doIds |-> S]
Request(z) == [type |-> "request", zone |-> z]
Interest(Z) == [type |-> "interest", zones |-> Z]
SetDoIdrange == [type |-> "range"]
Disconnect == [type |-> "disconnect"]

(* The orders of a finite set, and one of them.                            *)
Orders(S) == {s \in [1 .. Cardinality(S) -> S] : \A x \in S : \E i \in DOMAIN s : s[i] = x}
Listing(S) == CHOOSE s \in Orders(S) : TRUE

If(b, m) == IF b THEN <<m>> ELSE <<>>

(* fifo.remove: the first that is d leaves.                                *)
Without(s, d) ==
  IF \E i \in DOMAIN s : s[i] = d
  THEN LET i == CHOOSE i \in DOMAIN s : s[i] = d /\ \A j \in 1 .. i - 1 : s[j] # d
       IN  SubSeq(s, 1, i - 1) \o SubSeq(s, i + 1, Len(s))
  ELSE s

Init ==
  /\ connected = {}
  /\ explicit = [c \in Clients |-> {}]
  /\ current = [c \in Clients |-> {}]
  /\ listeners = [z \in Zones |-> {}]
  /\ objects = [d \in DoIds |-> NoZone]
  /\ online = {}
  /\ view = [c \in Clients |-> [d \in DoIds |-> Absent]]
  /\ cache = [c \in Clients |-> <<>>]
  /\ free = {}
  /\ deleting = {}
  /\ toServer = [c \in Clients |-> <<>>]
  /\ toClient = [c \in Clients |-> <<>>]
  /\ ops = 0
  /\ left = {}

(* The server sends each client the messages listed for it.                *)
Post(mail) ==
  toClient' = [c \in Clients |-> IF c \in online THEN toClient[c] \o mail[c] ELSE <<>>]

-------------------------------------------------------------------------------
(* Operations of the game on a client                                      *)

(* The bound on what a run does.                                          *)
Within == ops + Cardinality(left) < MaxOps

Op(c) ==
  /\ c \in online
  /\ Within
  /\ ops' = ops + 1
  /\ UNCHANGED <<server, online, cache, toClient, left>>

Send(c, ms) == toServer' = [toServer EXCEPT ![c] = @ \o ms]

CreateDistributedObject(c, d, z) ==
  /\ Op(c)
  /\ d \in Own(c) \cap free
  /\ free' = free \ {d}
  /\ view' = [view EXCEPT ![c][d] = [zone |-> z, value |-> ops']]
  /\ Send(c, <<Generate(d, z, ops')>>)
  /\ UNCHANGED deleting

SetField(c, d) ==
  /\ Op(c)
  /\ InPlay(c, d)
  /\ view' = [view EXCEPT ![c][d].value = ops']
  /\ Send(c, <<Update(d, ops')>>)
  /\ UNCHANGED <<free, deleting>>

(* setObjectZone: the new location, then the generate again.               *)
SetObjectZone(c, d, z) ==
  /\ Op(c)
  /\ InPlay(c, d)
  /\ view' = [view EXCEPT ![c][d].zone = z]
  /\ Send(c, <<SetZone(d, z), Generate(d, z, view[c][d].value)>>)
  /\ UNCHANGED <<free, deleting>>

(* The object itself goes only when the server says so.                    *)
SendDeleteMsg(c, d) ==
  /\ Op(c)
  /\ InPlay(c, d)
  /\ deleting' = deleting \cup {d}
  /\ Send(c, <<Delete(d)>>)
  /\ UNCHANGED <<view, free>>

SetInterestZones(c, Z) ==
  /\ Op(c)
  /\ Send(c, <<Interest(Z)>>)
  /\ UNCHANGED <<view, free, deleting>>

(* A connection ends, with a message (sendDisconnect) or without.          *)
Break(c, said) ==
  /\ c \in online
  /\ Within
  /\ left' = left \cup {c}
  /\ online' = online \ {c}
  /\ toClient' = [toClient EXCEPT ![c] = <<>>]
  /\ Send(c, If(said, Disconnect))
  /\ UNCHANGED <<server, view, cache, free, deleting, ops>>

-------------------------------------------------------------------------------
(* The server                                                              *)

(* listenerPoll.                                                           *)
Connect(c) ==
  /\ c \notin online \cup left
  /\ connected' = connected \cup {c}
  /\ online' = online \cup {c}
  /\ toClient' = [toClient EXCEPT ![c] = <<SetDoIdrange>>]
  /\ UNCHANGED <<explicit, current, listeners, objects, view, cache, free, deleting, toServer, ops, left>>

Taken(c) == toServer' = [toServer EXCEPT ![c] = Tail(@)]

(* mutant: the zones of its own objects are left out.                      *)
Zoned_AskedOnly(c, objs, asked) == asked

(* The zones c looks at: those it asked for, and those its objects are in. *)
Zoned(c, objs, asked) == asked \cup ({objs[d] : d \in Own(c)} \ {NoZone})

(* updateClientInterestZones, when the objects are in `objs' and c asked   *)
(* for `asked'; `first' is sent before its messages and `last' after them. *)
(* The added zones are a set, so that the requests come in any order.  A   *)
(* list of nothing to disable is left out.                                 *)
UpdateClientInterestZones(c, objs, asked, first, last) ==
  LET new == Zoned(c, objs, asked)
      added == new \ current[c]
      removed == current[c] \ new
      gone == {d \in DoIds : objs[d] \in removed}
      shown(p) == {z \in added : p \in listeners[z] \ {c}}
      asks(p, list) == [i \in 1 .. Cardinality(shown(p)) |-> Request(list[i])]
  IN  /\ objects' = objs
      /\ explicit' = [explicit EXCEPT ![c] = asked]
      /\ current' = [current EXCEPT ![c] = new]
      /\ listeners' = [z \in Zones |-> IF z \in added THEN listeners[z] \cup {c}
                                       ELSE IF z \in removed THEN listeners[z] \ {c}
                                       ELSE listeners[z]]
      /\ \E lists \in [Clients -> UNION {Orders(shown(p)) : p \in Clients}] :
           /\ \A p \in Clients : lists[p] \in Orders(shown(p))
           /\ Post([p \in Clients |-> first[p] \o asks(p, lists[p])
                                       \o If(p = c /\ gone # {}, Disable(gone)) \o last[p]])

Nothing == [p \in Clients |-> <<>>]
ToZone(z, m) == [p \in Clients |-> If(p \in listeners[z], m)]
ToZoneExcept(z, m, c) == [p \in Clients |-> If(p \in listeners[z] \ {c}, m)]

(* mutant: nobody is told that the object left the zone.                   *)
Moved_NotDisabled(c, d, z, last) ==
  IF objects[d] = z
  THEN Post(last) /\ UNCHANGED <<explicit, current, listeners, objects>>
  ELSE UpdateClientInterestZones(c, [objects EXCEPT ![d] = z], explicit[c], Nothing, last)

(* mutant: done already when the owner looks at the new zone.              *)
Moved_SkipsSeen(c, d, z, last) ==
  IF z \in current[c]
  THEN Post(last) /\ UNCHANGED <<explicit, current, listeners, objects>>
  ELSE UpdateClientInterestZones(c, [objects EXCEPT ![d] = z], explicit[c], Nothing, last)

(* setObjectZone: who looked at the old zone and not at the new one is     *)
(* told to disable the object.                                             *)
Moved(c, d, z, last) ==
  IF objects[d] = z
  THEN Post(last) /\ UNCHANGED <<explicit, current, listeners, objects>>
  ELSE LET lost(p) == p \in listeners[objects[d]] \ {c} /\ z \notin current[p]
       IN  UpdateClientInterestZones(c, [objects EXCEPT ![d] = z], explicit[c], Nothing,
             [p \in Clients |-> If(lost(p), Disable({d})) \o last[p]])

(* mutant: only the first generate of an object is passed on.              *)
HandleClientCreateObject_FirstOnly(c, m) ==
  /\ m.type = "generate"
  /\ IF ~Accepts(c, m.doId)
     THEN UNCHANGED <<explicit, current, listeners, objects, toClient>>
     ELSE IF Exists(m.doId)
     THEN Moved(c, m.doId, m.zone, Nothing)
     ELSE UpdateClientInterestZones(c, [objects EXCEPT ![m.doId] = m.zone], explicit[c],
                                    Nothing, ToZoneExcept(m.zone, m, c))
  /\ UNCHANGED connected

(* An object whose id is not one of the client's, as the server sees it,   *)
(* is ignored.                                                             *)
HandleClientCreateObject(c, m) ==
  /\ m.type = "generate"
  /\ LET relay == ToZoneExcept(m.zone, m, c)
     IN  IF ~Accepts(c, m.doId)
         THEN UNCHANGED <<explicit, current, listeners, objects, toClient>>
         ELSE IF Exists(m.doId)
         THEN Moved(c, m.doId, m.zone, relay)
         ELSE UpdateClientInterestZones(c, [objects EXCEPT ![m.doId] = m.zone], explicit[c],
                                        Nothing, relay)
  /\ UNCHANGED connected

HandleClientObjectUpdateField(c, m) ==
  /\ m.type = "update"
  /\ IF Exists(m.doId)
     THEN Post(ToZoneExcept(objects[m.doId], m, c))
     ELSE UNCHANGED toClient
  /\ UNCHANGED server

HandleClientObjectSetZone(c, m) ==
  /\ m.type = "setZone"
  /\ IF Exists(m.doId)
     THEN Moved(c, m.doId, m.zone, Nothing)
     ELSE UNCHANGED <<explicit, current, listeners, objects, toClient>>
  /\ UNCHANGED connected

(* mutant: the zones of the owner are not computed again.                  *)
HandleClientDeleteObject_NotRefreshed(c, m) ==
  /\ m.type = "delete"
  /\ IF Exists(m.doId)
     THEN /\ objects' = [objects EXCEPT ![m.doId] = NoZone]
          /\ Post(ToZone(objects[m.doId], m))
     ELSE UNCHANGED <<objects, toClient>>
  /\ UNCHANGED <<connected, explicit, current, listeners>>

(* Everybody who looks at the zone is told, the owner too.                 *)
HandleClientDeleteObject(c, m) ==
  /\ m.type = "delete"
  /\ IF Exists(m.doId)
     THEN UpdateClientInterestZones(c, [objects EXCEPT ![m.doId] = NoZone], explicit[c],
                                    ToZone(objects[m.doId], m), Nothing)
     ELSE UNCHANGED <<explicit, current, listeners, objects, toClient>>
  /\ UNCHANGED connected

HandleClientSetInterest(c, m) ==
  /\ m.type = "interest"
  /\ UpdateClientInterestZones(c, objects, m.zones, Nothing, Nothing)
  /\ UNCHANGED connected

HandleClientDisconnect(c) ==
  LET mine == {d \in Own(c) : Exists(d)}
      rest == [z \in Zones |-> listeners[z] \ {c}]
  IN  /\ connected' = connected \ {c}
      /\ explicit' = [explicit EXCEPT ![c] = {}]
      /\ current' = [current EXCEPT ![c] = {}]
      /\ listeners' = rest
      /\ objects' = [d \in DoIds |-> IF d \in mine THEN NoZone ELSE objects[d]]
      /\ Post([p \in Clients |->
                LET told == {d \in mine : p \in rest[objects[d]]}
                IN  [i \in 1 .. Cardinality(told) |-> Delete(Listing(told)[i])]])

(* readerPollOnce and handleDatagram.                                      *)
ServerReceive(c) ==
  /\ c \in connected
  /\ toServer[c] # <<>>
  /\ LET m == Head(toServer[c]) IN
     \/ HandleClientCreateObject(c, m)
     \/ HandleClientObjectUpdateField(c, m)
     \/ HandleClientObjectSetZone(c, m)
     \/ HandleClientDeleteObject(c, m)
     \/ HandleClientSetInterest(c, m)
     \/ m.type = "disconnect" /\ HandleClientDisconnect(c)
  /\ Taken(c)
  /\ UNCHANGED <<clients, ops, left>>

(* clientHardDisconnectTask: what the connection still holds is lost.      *)
HardDisconnect(c) ==
  /\ c \in connected \ online
  /\ HandleClientDisconnect(c)
  /\ toServer' = [toServer EXCEPT ![c] = <<>>]
  /\ UNCHANGED <<clients, ops, left>>

-------------------------------------------------------------------------------
(* A client receives                                                       *)

(* mutant: an object that comes back stays in the cache as well.           *)
HandleGenerate_StaysCached(c, m) ==
  /\ m.type = "generate"
  /\ view' = [view EXCEPT ![c][m.doId] =
                IF Has(c, m.doId) THEN [@ EXCEPT !.value = m.value]
                ELSE [zone |-> m.zone, value |-> m.value]]
  /\ UNCHANGED <<cache, free, deleting, toServer>>

(* An object that is known already takes the new values and stays where    *)
(* the client believes it to be; another comes out of the cache or is new. *)
HandleGenerate(c, m) ==
  /\ m.type = "generate"
  /\ view' = [view EXCEPT ![c][m.doId] =
                IF Has(c, m.doId) THEN [@ EXCEPT !.value = m.value]
                ELSE [zone |-> m.zone, value |-> m.value]]
  /\ cache' = [cache EXCEPT ![c] =
                IF Has(c, m.doId) THEN @ ELSE Without(@, m.doId)]
  /\ UNCHANGED <<free, deleting, toServer>>

HandleUpdateField(c, m) ==
  /\ m.type = "update"
  /\ view' = IF Has(c, m.doId) THEN [view EXCEPT ![c][m.doId].value = m.value] ELSE view
  /\ UNCHANGED <<cache, free, deleting, toServer>>

(* mutant: the cache is let grow by one too many.                          *)
HandleDisable_OneTooMany(c, m) ==
  /\ m.type = "disable"
  /\ LET kept == {d \in m.doIds \cap Cacheable : Has(c, d)}
         all == cache[c] \o Listing(kept)
         over == IF Len(all) > MaxCached + 1 THEN Len(all) - MaxCached ELSE 0
     IN  cache' = [cache EXCEPT ![c] = SubSeq(all, over + 1, Len(all))]
  /\ view' = [view EXCEPT ![c] = [d \in DoIds |-> IF d \in m.doIds THEN Absent ELSE view[c][d]]]
  /\ UNCHANGED <<free, deleting, toServer>>

(* disableDoId: objects that are cacheable enter the cache, of which the   *)
(* oldest leave when it is full.                                           *)
HandleDisable(c, m) ==
  /\ m.type = "disable"
  /\ LET kept == {d \in m.doIds \cap Cacheable : Has(c, d)}
         all == cache[c] \o Listing(kept)
         over == IF Len(all) > MaxCached THEN Len(all) - MaxCached ELSE 0
     IN  cache' = [cache EXCEPT ![c] = SubSeq(all, over + 1, Len(all))]
  /\ view' = [view EXCEPT ![c] = [d \in DoIds |-> IF d \in m.doIds THEN Absent ELSE view[c][d]]]
  /\ UNCHANGED <<free, deleting, toServer>>

(* deleteObject.                                                           *)
HandleDelete(c, m) ==
  /\ m.type = "delete"
  /\ view' = [view EXCEPT ![c][m.doId] = Absent]
  /\ cache' = [cache EXCEPT ![c] =
                IF Has(c, m.doId) THEN @ ELSE Without(@, m.doId)]
  /\ free' = IF m.doId \in Own(c) /\ Has(c, m.doId) THEN free \cup {m.doId} ELSE free
  /\ deleting' = deleting \ {m.doId}
  /\ UNCHANGED toServer

HandleRequestGenerates(c, m) ==
  /\ m.type = "request"
  /\ LET here == {d \in Own(c) : view[c][d].zone = m.zone}
     IN  Send(c, [i \in 1 .. Cardinality(here) |->
                   LET d == Listing(here)[i] IN Generate(d, m.zone, view[c][d].value)])
  /\ UNCHANGED <<view, cache, free, deleting>>

HandleSetDoIdrange(c, m) ==
  /\ m.type = "range"
  /\ free' = free \cup Own(c)
  /\ UNCHANGED <<view, cache, deleting, toServer>>

ClientReceive(c) ==
  /\ c \in online
  /\ toClient[c] # <<>>
  /\ LET m == Head(toClient[c]) IN
     \/ HandleGenerate(c, m)
     \/ HandleUpdateField(c, m)
     \/ HandleDisable(c, m)
     \/ HandleDelete(c, m)
     \/ HandleRequestGenerates(c, m)
     \/ HandleSetDoIdrange(c, m)
  /\ toClient' = [toClient EXCEPT ![c] = Tail(@)]
  /\ UNCHANGED <<server, online, ops, left>>

-------------------------------------------------------------------------------

Next ==
  \E c \in Clients :
    \/ Connect(c)
    \/ ServerReceive(c)
    \/ HardDisconnect(c)
    \/ ClientReceive(c)
    \/ \E d \in DoIds : SetField(c, d) \/ SendDeleteMsg(c, d)
    \/ \E d \in DoIds, z \in Zones : CreateDistributedObject(c, d, z) \/ SetObjectZone(c, d, z)
    \/ \E Z \in SUBSET Zones : SetInterestZones(c, Z)
    \/ \E said \in BOOLEAN : Break(c, said)

Spec == Init /\ [][Next]_vars

-------------------------------------------------------------------------------
(* Properties                                                              *)

(* What travels: a client speaks of objects of its own only.               *)
FromClient(c) ==
  [type : {"generate"}, doId : Own(c), zone : Zones, value : Nat]
    \cup [type : {"update"}, doId : Own(c), value : Nat]
    \cup [type : {"setZone"}, doId : Own(c), zone : Zones]
    \cup [type : {"delete"}, doId : Own(c)]
    \cup [type : {"interest"}, zones : SUBSET Zones]
    \cup {Disconnect}

ForClient(c) ==
  [type : {"generate"}, doId : DoIds, zone : Zones, value : Nat]
    \cup [type : {"update"}, doId : DoIds, value : Nat]
    \cup [type : {"delete"}, doId : DoIds]
    \cup [type : {"disable"}, doIds : SUBSET DoIds]
    \cup [type : {"request"}, zone : Zones]
    \cup {SetDoIdrange}

(* The variables hold what the code puts there, but for the cache, which   *)
(* CacheApart is about.                                                    *)
TypeOK ==
  /\ connected \subseteq Clients
  /\ {explicit, current} \subseteq [Clients -> SUBSET Zones]
  /\ listeners \in [Zones -> SUBSET Clients]
  /\ objects \in [DoIds -> Zones \cup {NoZone}]
  /\ online \cup left \subseteq Clients
  /\ view \in [Clients -> [DoIds -> [zone : Zones \cup {NoZone}, value : Nat]]]
  /\ free \cup deleting \subseteq DoIds
  /\ ops \in Nat
  /\ DOMAIN toServer = Clients /\ DOMAIN toClient = Clients
  /\ \A c \in Clients : toServer[c] \in Seq(FromClient(c)) /\ toClient[c] \in Seq(ForClient(c))

(* The server's tables by zone and by client say the same, and a client is *)
(* shown the zones it asked for and those its own objects are in.          *)
TablesAgree ==
  \A c \in Clients :
    /\ \A z \in Zones : c \in listeners[z] <=> z \in current[c]
    /\ current[c] = Zoned(c, objects, explicit[c])
    /\ c \notin connected => current[c] = {}

(* ClientRepository.py:364: "We should never get a disable message for our *)
(* own object", which the client asserts; whatever is on its way.          *)
OwnNeverDisabled ==
  \A c \in Clients : \A i \in 1 .. Len(toClient[c]) :
    toClient[c][i].type = "disable" => toClient[c][i].doIds \cap Own(c) = {}

(* A client that has heard all the server sent knows no object that is     *)
(* gone or out of the zones it is shown.                                   *)
NoGhosts ==
  \A c \in online : toClient[c] = <<>> =>
    \A d \in DoIds \ Own(c) : Has(c, d) => objects[d] \in current[c]

Quiet == \A c \in Clients : toServer[c] = <<>> /\ toClient[c] = <<>>

(* When nothing is on its way, a client knows every object that is in its  *)
(* zones and that its owner holds, with the value the owner gave it last.  *)
ViewsComplete ==
  Quiet =>
    \A c, o \in online : \A d \in Own(o) :
      c # o /\ objects[d] \in current[c] /\ Has(o, d)
        => Has(c, d) /\ view[c][d].value = view[o][d].value

(* ... and the server has each object that it accepts where its owner put  *)
(* it.                                                                     *)
OwnerPlaced ==
  Quiet => \A o \in online : \A d \in Own(o) :
             Has(o, d) /\ Accepts(o, d) => objects[d] = view[o][d].zone

(* An object is known or cached or neither, and the cache has each once.   *)
CacheApart ==
  \A c \in Clients :
    /\ Len(cache[c]) <= MaxCached
    /\ \A i, j \in 1 .. Len(cache[c]) :
         /\ ~Has(c, cache[c][i])
         /\ i # j => cache[c][i] # cache[c][j]

===============================================================================
