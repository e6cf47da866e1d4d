----------------------------- MODULE ClientSession ----------------------------
(***************************************************************************)
(* The life of one client (distributed2/ClientRepository): connecting, the *)
(* hello that verifies it, interest requests, pings, and the ways in which *)
(* a connection ends.  Every connect() uses a new connection handle; what  *)
(* the network has to say about an old one may still be queued when a new  *)
(* one is in use.                                                          *)
(*                                                                         *)
(* The server answers the messages of a connection one after another, the  *)
(* way ServerRepository.handleDatagram does; its books are in              *)
(* ServerSessions.  Objects are reduced to the zones they are in.          *)
(***************************************************************************)
EXTENDS Integers, Sequences, FiniteSets

CONSTANTS Zones,
          MaxConnects,   \* bound: calls of connect()
          MaxInFlight,   \* bound: the game sends while fewer messages than
                         \* this are in flight on the connection
          MaxRequests    \* bound: interest requests under way

ASSUME BoundsAssumption == {MaxConnects, MaxInFlight, MaxRequests} \subseteq Nat

VARIABLES
  connectionHandle,     \* None is 0
  connected, isAuthed, pendingPing,
  running,              \* the task clientRunFrame is registered
  interestHandle,
  view,                 \* zones whose objects the client has
  handles,              \* number of handles used so far
  link,                 \* the network's view of each connection
  events,               \* connection events the client has yet to process
  session,              \* client.state at the server, "none" without record
  interest,             \* client.explicitInterestZoneIds at the server
  toServer, toClient,
  requests,             \* what the game asked for and has no answer to
  granted               \* its interests according to the answers

client == <<connectionHandle, connected, isAuthed, pendingPing, running, interestHandle, view>>
network == <<handles, link, events, toServer, toClient>>
server == <<session, interest>>
game == <<requests, granted>>
vars == <<client, network, server, game>>

-------------------------------------------------------------------------------

Handles == 1 .. MaxConnects
None == 0

Ops == {"add", "remove", "set"}

Hello == [kind |-> "hello"]
Ping == [kind |-> "ping"]
InformPing == [kind |-> "informPing"]
Interest(op, h, zones) == [kind |-> op, handle |-> h, zones |-> zones]

HelloResp(valid) == [kind |-> "helloResp", valid |-> valid]
PingResp == [kind |-> "pingResp"]
Objects(opened, closed) == [kind |-> "objects", opened |-> opened, closed |-> closed]
InterestComplete(h) == [kind |-> "complete", handle |-> h]

InterestMsg == [kind : Ops, handle : 0 .. 255, zones : SUBSET Zones]
ClientMsg == {Hello, Ping, InformPing} \cup InterestMsg
ServerMsg == {HelloResp(TRUE), HelloResp(FALSE), PingResp}
               \cup [kind : {"objects"}, opened : SUBSET Zones, closed : SUBSET Zones]
               \cup [kind : {"complete"}, handle : 0 .. 255]

(* What an interest request does to a set of zones                         *)
Requested(zones, m) ==
  IF m.kind = "add" THEN zones \cup m.zones
  ELSE IF m.kind = "remove" THEN zones \ m.zones
  ELSE m.zones

Init ==
  /\ connectionHandle = None
  /\ connected = FALSE /\ isAuthed = FALSE /\ pendingPing = FALSE /\ running = FALSE
  /\ interestHandle = 0
  /\ view = {}
  /\ handles = 0
  /\ link = [h \in Handles |-> "none"]
  /\ events = [h \in Handles |-> <<>>]
  /\ session = [h \in Handles |-> "none"]
  /\ interest = [h \in Handles |-> {}]
  /\ toServer = [h \in Handles |-> <<>>]
  /\ toClient = [h \in Handles |-> <<>>]
  /\ requests = <<>>
  /\ granted = {}

-------------------------------------------------------------------------------
(* The network                                                             *)

Report(h, event) == events' = [events EXCEPT ![h] = Append(@, event)]

(* The server accepts the connection and makes a record of it ...          *)
Establish(h) ==
  /\ link[h] = "connecting"
  /\ link' = [link EXCEPT ![h] = "up"]
  /\ Report(h, "connected")
  /\ session' = [session EXCEPT ![h] = "Unverified"]
  /\ UNCHANGED <<client, handles, interest, toServer, toClient, game>>

(* ... or the attempt comes to nothing.                                    *)
Fail(h) ==
  /\ link[h] = "connecting"
  /\ link' = [link EXCEPT ![h] = "down"]
  /\ Report(h, "failed")
  /\ UNCHANGED <<client, handles, toServer, toClient, server, game>>

(* The connection breaks or the server closes it after sending what it     *)
(* may: the client can still read some of what was sent.                   *)
Break(h, sent) ==
  /\ link' = [link EXCEPT ![h] = "down"]
  /\ Report(h, "lost")
  /\ session' = [session EXCEPT ![h] = "none"]
  /\ interest' = [interest EXCEPT ![h] = {}]
  /\ toServer' = [toServer EXCEPT ![h] = <<>>]
  /\ \E n \in 0 .. Len(sent) : toClient' = [toClient EXCEPT ![h] = SubSeq(sent, 1, n)]

Lose(h) ==
  /\ link[h] = "up"
  /\ Break(h, toClient[h])
  /\ UNCHANGED <<client, handles, game>>

-------------------------------------------------------------------------------
(* The server                                                              *)

Serve(h, kinds) ==
  /\ link[h] = "up"
  /\ toServer[h] # <<>>
  /\ Head(toServer[h]).kind \in kinds

Answer(h, reply) ==
  /\ toServer' = [toServer EXCEPT ![h] = Tail(@)]
  /\ toClient' = [toClient EXCEPT ![h] = @ \o reply]
  /\ UNCHANGED <<handles, link, events>>

(* handleClientHello: accepted, or refused for want of room or a wrong     *)
(* password or hash.                                                       *)
AcceptHello(h) ==
  /\ Serve(h, {"hello"})
  /\ session[h] = "Unverified"
  /\ session' = [session EXCEPT ![h] = "Verified"]
  /\ Answer(h, <<HelloResp(TRUE)>>)
  /\ UNCHANGED <<client, interest, game>>

RefuseHello(h) ==
  /\ Serve(h, {"hello"})
  /\ session[h] = "Unverified"
  /\ Break(h, Append(toClient[h], HelloResp(FALSE)))
  /\ UNCHANGED <<client, handles, game>>

(* A message that the state of the client does not allow                   *)
RefuseMessage(h) ==
  /\ Serve(h, {"hello", "ping", "informPing"} \cup Ops)
  /\ (session[h] = "Verified") = (Head(toServer[h]).kind = "hello")
  /\ Break(h, toClient[h])
  /\ UNCHANGED <<client, handles, game>>

(* handleClientAddInterest, -RemoveInterest, -SetInterest.  The datagrams  *)
(* of updateClientInterestZones are sent only if the zones change, the     *)
(* completion follows in any case.                                         *)
Update(old, new) == IF old = new THEN <<>> ELSE <<Objects(new \ old, old \ new)>>

InterestReply_Early(old, new, handle) ==       \* mutant: completed before done
  <<InterestComplete(handle)>> \o Update(old, new)

InterestReply(old, new, handle) == Append(Update(old, new), InterestComplete(handle))

ServeInterest(h) ==
  /\ Serve(h, Ops)
  /\ session[h] = "Verified"
  /\ LET m == Head(toServer[h])
         zones == Requested(interest[h], m)
     IN  /\ interest' = [interest EXCEPT ![h] = zones]
         /\ Answer(h, InterestReply(interest[h], zones, m.handle))
  /\ UNCHANGED <<client, session, game>>

(* handleClientPing, handleClientInformPing                                *)
ServePing_AnswersAll(h) ==              \* mutant: a reply to informPing too
  /\ Serve(h, {"ping", "informPing"})
  /\ session[h] = "Verified"
  /\ Answer(h, <<PingResp>>)
  /\ UNCHANGED <<client, server, game>>

ServePing(h) ==
  /\ Serve(h, {"ping", "informPing"})
  /\ session[h] = "Verified"
  /\ Answer(h, IF Head(toServer[h]).kind = "ping" THEN <<PingResp>> ELSE <<>>)
  /\ UNCHANGED <<client, server, game>>

ServerStep(h) ==
  AcceptHello(h) \/ RefuseHello(h) \/ RefuseMessage(h) \/ ServeInterest(h) \/ ServePing(h)

-------------------------------------------------------------------------------
(* The client: what the game calls                                         *)

(* connect.  The game waits for the outcome before it tries again.         *)
Connect ==
  /\ ~running /\ ~connected
  /\ \/ /\ handles < MaxConnects
        /\ handles' = handles + 1
        /\ connectionHandle' = handles + 1
        /\ link' = [link EXCEPT ![handles + 1] = "connecting"]
        /\ running' = TRUE
     \/ /\ connectionHandle' = None        \* connectByIPAddress fails
        /\ UNCHANGED <<handles, link, running>>
  /\ UNCHANGED <<connected, isAuthed, pendingPing, interestHandle, view, events,
                 toServer, toClient, server, game>>

(* The objects go, the game forgets what it asked for.                     *)
Forgets ==
  /\ view' = {}
  /\ requests' = <<>>
  /\ granted' = {}
  /\ UNCHANGED interestHandle

LeaveWorld_StaysAuthed ==               \* mutant: isAuthed is not reset
  /\ connected' = FALSE /\ pendingPing' = FALSE /\ running' = FALSE
  /\ connectionHandle' = None
  /\ Forgets
  /\ UNCHANGED isAuthed

LeaveWorld_StillPings ==                \* mutant: pendingPing is not reset
  /\ connected' = FALSE /\ isAuthed' = FALSE /\ running' = FALSE
  /\ connectionHandle' = None
  /\ Forgets
  /\ UNCHANGED pendingPing

LeaveWorld ==
  /\ connected' = FALSE /\ isAuthed' = FALSE /\ pendingPing' = FALSE /\ running' = FALSE
  /\ connectionHandle' = None
  /\ Forgets

(* disconnect: the server learns that the peer is gone.                    *)
Close(h) ==
  /\ LeaveWorld
  /\ link' = [link EXCEPT ![h] = "down"]
  /\ toServer' = [toServer EXCEPT ![h] = <<>>]
  /\ toClient' = [toClient EXCEPT ![h] = <<>>]
  /\ session' = [session EXCEPT ![h] = "none"]
  /\ interest' = [interest EXCEPT ![h] = {}]
  /\ UNCHANGED <<handles, events>>

Disconnect == connected /\ Close(connectionHandle)

(* sendDatagram, on a connection the client believes in                    *)
SendDatagram(m) ==
  toServer' = IF link[connectionHandle] = "up"
              THEN [toServer EXCEPT ![connectionHandle] = Append(@, m)]
              ELSE toServer

Room == Len(toServer[connectionHandle]) + Len(toClient[connectionHandle]) < MaxInFlight

SendHello ==
  /\ connected /\ Room
  /\ SendDatagram(Hello)
  /\ UNCHANGED <<client, handles, link, events, toClient, server, game>>

(* sendPing, from runFrame when the time has come                          *)
SendPing ==
  /\ connected /\ isAuthed /\ Room
  /\ ~pendingPing
  /\ pendingPing' = TRUE
  /\ SendDatagram(Ping)
  /\ UNCHANGED <<connectionHandle, connected, isAuthed, running, interestHandle, view,
                 handles, link, events, toClient, server, game>>

getNextInterestHandle == (interestHandle + 1) % 256

(* addInterest, removeInterest, setInterest: the caller gets the handle.   *)
SendInterest(op, zones) ==
  /\ connected /\ Room
  /\ Len(requests) < MaxRequests
  /\ LET m == Interest(op, getNextInterestHandle, zones)
     IN  /\ SendDatagram(m)
         /\ requests' = Append(requests, m)
  /\ UNCHANGED <<client, handles, link, events, toClient, server, granted>>

-------------------------------------------------------------------------------
(* The client: runFrame                                                    *)

Receive(kind) ==
  /\ connected
  /\ toClient[connectionHandle] # <<>>
  /\ Head(toClient[connectionHandle]).kind = kind

Consumed == toClient' = [toClient EXCEPT ![connectionHandle] = Tail(@)]

(* __handleServerHelloResp                                                 *)
HandleServerHelloResp ==
  /\ Receive("helloResp")
  /\ IF Head(toClient[connectionHandle]).valid
     THEN /\ isAuthed' = TRUE
          /\ Consumed
          /\ UNCHANGED <<connectionHandle, connected, pendingPing, running, interestHandle,
                         view, handles, link, events, toServer, server, game>>
     ELSE Close(connectionHandle)

(* __handleGenerateObject, __handleDeleteObject, as far as zones go        *)
HandleObjects ==
  /\ Receive("objects")
  /\ LET m == Head(toClient[connectionHandle]) IN view' = (view \cup m.opened) \ m.closed
  /\ Consumed
  /\ UNCHANGED <<connectionHandle, connected, isAuthed, pendingPing, running, interestHandle,
                 handles, link, events, toServer, server, game>>

(* __handleInterestComplete tells the game.  Answers come in the order of  *)
(* the requests.                                                           *)
HandleInterestComplete ==
  /\ Receive("complete")
  /\ granted' = Requested(granted, Head(requests))
  /\ requests' = Tail(requests)
  /\ Consumed
  /\ UNCHANGED <<client, handles, link, events, toServer, server>>

HandlePingResponse ==
  /\ Receive("pingResp")
  /\ pendingPing' = FALSE
  /\ IF pendingPing THEN SendDatagram(InformPing) ELSE UNCHANGED toServer
  /\ Consumed
  /\ UNCHANGED <<connectionHandle, connected, isAuthed, running, interestHandle, view,
                 handles, link, events, server, game>>

(* __handleNetCallback: an event of another handle than the present one is *)
(* ignored.  A failed attempt leaves the handle as it is.                  *)
Ours(h) == h = connectionHandle

Connected_Waits ==                      \* mutant: left to the hello response
  UNCHANGED <<client, game>>

Connected ==
  /\ connected' = TRUE
  /\ UNCHANGED <<connectionHandle, isAuthed, pendingPing, running, interestHandle, view, game>>

Failed ==
  /\ connected' = FALSE /\ running' = FALSE
  /\ UNCHANGED <<connectionHandle, isAuthed, pendingPing, interestHandle, view, game>>

HandleNetCallback(h) ==
  /\ running
  /\ events[h] # <<>>
  /\ events' = [events EXCEPT ![h] = Tail(@)]
  /\ \/ ~Ours(h) /\ UNCHANGED <<client, game>>
     \/ Ours(h) /\ Head(events[h]) = "connected" /\ Connected
     \/ Ours(h) /\ Head(events[h]) = "failed" /\ Failed
     \/ Ours(h) /\ Head(events[h]) = "lost" /\ LeaveWorld
  /\ UNCHANGED <<handles, link, toServer, toClient, server>>

RunFrame ==
  \/ HandleServerHelloResp
  \/ HandleObjects
  \/ HandleInterestComplete
  \/ HandlePingResponse
  \/ \E h \in Handles : HandleNetCallback(h)

-------------------------------------------------------------------------------

GameStep ==
  \/ Connect
  \/ Disconnect
  \/ SendHello
  \/ SendPing
  \/ \E op \in Ops, zones \in SUBSET Zones : SendInterest(op, zones)

NetworkStep == \E h \in Handles : Establish(h) \/ Fail(h) \/ Lose(h)

Next ==
  \/ GameStep
  \/ RunFrame
  \/ NetworkStep
  \/ \E h \in Handles : ServerStep(h)

Spec == Init /\ [][Next]_vars

(* The client task runs every frame while it is registered, the server     *)
(* polls every tick, and an attempt to connect succeeds or times out.      *)
Fairness ==
  /\ WF_vars(HandleServerHelloResp \/ HandleObjects \/ HandleInterestComplete
               \/ HandlePingResponse)
  /\ \A h \in Handles :
       /\ WF_vars(HandleNetCallback(h))
       /\ WF_vars(ServerStep(h))
       /\ WF_vars(Establish(h) \/ Fail(h))

FairSpec == Spec /\ Fairness

-------------------------------------------------------------------------------
(* Properties                                                              *)

(* The variables hold what the code puts there; the network reports how an *)
(* attempt ended and, once at most, that the connection was lost.          *)
TypeOK ==
  /\ connectionHandle \in 0 .. MaxConnects
  /\ {connected, isAuthed, pendingPing, running} \subseteq BOOLEAN
  /\ interestHandle \in 0 .. 255
  /\ view \subseteq Zones /\ granted \subseteq Zones
  /\ handles \in 0 .. MaxConnects
  /\ link \in [Handles -> {"none", "connecting", "up", "down"}]
  /\ events \in [Handles -> Seq({"connected", "failed", "lost"})]
  /\ \A h \in Handles : Len(events[h]) <= 2
  /\ session \in [Handles -> {"none", "Unverified", "Verified"}]
  /\ interest \in [Handles -> SUBSET Zones]
  /\ toServer \in [Handles -> Seq(ClientMsg)]
  /\ toClient \in [Handles -> Seq(ServerMsg)]
  /\ requests \in Seq(InterestMsg)

Queued(h, event) == \E i \in DOMAIN events[h] : events[h][i] = event

(* What the client believes of its connection differs from the truth only  *)
(* by an event that it has yet to process, and a connection that is up or  *)
(* being made is the present one of a running client: what is said of old  *)
(* connections does not confuse it.                                        *)
LinkKnown ==
  /\ connected => /\ running /\ connectionHandle # None
                  /\ link[connectionHandle] = "up" \/ Queued(connectionHandle, "lost")
  /\ running /\ ~connected =>
       \/ link[connectionHandle] = "connecting"
       \/ Queued(connectionHandle, "connected")
       \/ Queued(connectionHandle, "failed")
  /\ \A h \in Handles : link[h] \in {"connecting", "up"} => running /\ h = connectionHandle

(* A client that thinks it is verified is verified, on this very           *)
(* connection, unless the connection is down; and only such a client has   *)
(* objects or a ping under way.                                            *)
AuthAgrees ==
  /\ isAuthed => /\ connected
                 /\ session[connectionHandle] = "Verified" \/ link[connectionHandle] = "down"
  /\ view # {} \/ pendingPing => isAuthed

InFlight(s, kind) == {i \in DOMAIN s : s[i].kind = kind}

(* While a ping is pending, exactly one ping or answer is under way, so    *)
(* that the answer that ends it is the answer to it; when the flag is      *)
(* clear none is.  No answer of an earlier connection is taken for it.     *)
OnePing ==
  connected /\ link[connectionHandle] = "up" =>
    Cardinality(InFlight(toServer[connectionHandle], "ping"))
      + Cardinality(InFlight(toClient[connectionHandle], "pingResp"))
    = IF pendingPing THEN 1 ELSE 0

(* When the client is told that an interest operation is complete, it has  *)
(* the objects of exactly the zones that its requests up to this one add   *)
(* up to: the completion never overtakes the objects.                      *)
CompleteMeansPresent ==
  [][requests # <<>> /\ connected' /\ requests' = Tail(requests) => view' = granted']_vars

(* An attempt to connect comes to an end, one way or the other.            *)
AttemptEnds == (running /\ ~connected) ~> (connected \/ ~running)

(* A pending ping never blocks the next one for good: it is answered, or   *)
(* the connection ends and the flag is reset.                              *)
PingEnds == pendingPing ~> ~pendingPing
===============================================================================
