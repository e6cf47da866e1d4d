------------------------------ MODULE Replication -----------------------------
(***************************************************************************)
(* State replication in distributed2.  The server owns a table of objects; *)
(* each connected client holds a replica of the objects located in the     *)
(* zones it is interested in.  The server tells clients of new and gone    *)
(* objects at once and, at a simulation tick, sends the clients that are   *)
(* due a snapshot.  The snapshot is compressed against the one the client  *)
(* last acknowledged, if the server still has it on record.                *)
(*                                                                         *)
(*   server  ServerRepository (takeTickSnapshot, generateObject, ...)      *)
(*   client  ClientRepository and CClientRepository                        *)
(*   network two FIFO queues per connection (reliable Steam messages)      *)
(*                                                                         *)
(* A client is present here from the moment it is verified; the handshake  *)
(* and the connection table are in ServerSessions.                         *)
(***************************************************************************)
EXTENDS FrameSnapshots, Functions

CONSTANTS Clients, DoIds, Zones,
          NoClient,      \* the owner of an object without owner (None)
          MaxTick,       \* bound: the last tick that is simulated
          MaxChannel     \* bound: messages in flight, each way

ASSUME NoClientAssumption == NoClient \notin Clients
ASSUME BoundsAssumption == MaxTick \in Nat /\ MaxChannel \in Nat

VARIABLES
  tick,           \* base.tickCount
  live,           \* doId2do: id -> zone, owner and current field values
  packs,          \* snapshotMgr._prev_sent_packets
  svUp,           \* clients that the server has a verified record of
  explicitZones,  \* client.explicitInterestZoneIds
  currentZones,   \* client.currentInterestZoneIds
  acked,          \* client.deltaTick, the server's side
  frames,         \* client.frameMgr: ticks of the frames on record
  clUp,           \* clients that believe they are connected
  view,           \* the client's doId2do: id -> field values
  deltaTick,      \* ClientRepository.deltaTick
  toClient, toServer

server == <<tick, live, packs, svUp, explicitZones, currentZones, acked, frames>>
client == <<clUp, view, deltaTick>>
vars == <<server, client, toClient, toServer>>

-------------------------------------------------------------------------------
(* Types.  Partial functions are functions over a subset of the ids.       *)

Tables(S) == UNION {[ids -> S] : ids \in SUBSET DoIds}
Patch == UNION {[fields -> Values] : fields \in SUBSET Fields}

Object == [zone : Zones, owner : Clients \cup {NoClient}, state : State]
View == Tables(State)

GenerateMsg == [kind : {"generate"}, objs : View]
DeleteMsg == [kind : {"delete"}, ids : SUBSET DoIds]
TickMsg == [kind : {"tick"}, tick : Nat, delta : BOOLEAN, objs : Tables(Patch)]
Message == GenerateMsg \cup DeleteMsg \cup TickMsg

NoTable == [d \in {} |-> 0]

Generate(objs) == [kind |-> "generate", objs |-> objs]
Delete(ids) == [kind |-> "delete", ids |-> ids]
Snapshot(t, delta, objs) ==
  [kind |-> "tick", tick |-> t, delta |-> delta, objs |-> objs]

-------------------------------------------------------------------------------
(* What the server knows                                                   *)

Visible(objects, zones) == {d \in DOMAIN objects : objects[d].zone \in zones}
Owned(objects, c) == {d \in DOMAIN objects : objects[d].owner = c}
OwnedZones(objects, c) == {objects[d].zone : d \in Owned(objects, c)}

(* packObjectGenerate for each of the ids *)
Baselines(pk, objects, ids) ==
  [d \in DOMAIN pk \cup ids |-> FindOrCreateBaseline(pk, d, objects[d].state)]

(* updateClientInterestZones: the zones, and the two datagrams it sends    *)
(* when they differ from the current ones.  Objects that the client owns   *)
(* are neither generated nor deleted here.                                 *)
NewZones(objects, c, explicit) == explicit \cup OwnedZones(objects, c)

Opened_Owned(objects, c, zones) ==      \* mutant: owned objects once more
  Visible(objects, zones \ currentZones[c])

Opened(objects, c, zones) ==
  Visible(objects, zones \ currentZones[c]) \ Owned(objects, c)
Closed(objects, c, zones) ==
  Visible(objects, currentZones[c] \ zones) \ Owned(objects, c)

InterestMessages(pk, objects, c, zones) ==
  IF zones = currentZones[c] THEN <<>>
  ELSE <<Generate([d \in Opened(objects, c, zones) |-> pk[d].val]),
         Delete(Closed(objects, c, zones))>>

-------------------------------------------------------------------------------
(* The network: a connection that either end has left carries nothing.     *)

Deliverable == svUp \cap clUp

(* out[c] is the sequence of messages sent to client c in this step.       *)
Send(out) ==
  /\ \A c \in Deliverable : Len(toClient[c]) + Len(out[c]) <= MaxChannel
  /\ toClient' = [c \in Clients |-> IF c \in Deliverable
                                    THEN toClient[c] \o out[c] ELSE toClient[c]]

-------------------------------------------------------------------------------
(* Server actions                                                          *)

Init ==
  /\ tick = 1
  /\ live = NoTable
  /\ packs = NoTable
  /\ svUp = {}
  /\ explicitZones = [c \in Clients |-> {}]
  /\ currentZones = [c \in Clients |-> {}]
  /\ acked = [c \in Clients |-> -1]
  /\ frames = [c \in Clients |-> <<>>]
  /\ clUp = {}
  /\ view = [c \in Clients |-> NoTable]
  /\ deltaTick = [c \in Clients |-> -1]
  /\ toClient = [c \in Clients |-> <<>>]
  /\ toServer = [c \in Clients |-> <<>>]

(* generateObject: everyone interested in the zone is told, the owner by a *)
(* message of its own, after which the zone joins the owner's interests.   *)
WithObject(d, z, s, o) ==
  [i \in DOMAIN live \cup {d} |->
     IF i = d THEN [zone |-> z, owner |-> o, state |-> s] ELSE live[i]]

GenerateObject(d, z, s, o) ==
  /\ tick < MaxTick
  /\ d \notin DOMAIN live
  /\ LET objects == WithObject(d, z, s, o)
         told == {c \in svUp : z \in currentZones[c]} \cup ({o} \ {NoClient})
         zones == [c \in Clients |-> IF c = o THEN NewZones(objects, c, explicitZones[c])
                                     ELSE currentZones[c]]
         opened == IF o = NoClient THEN {} ELSE Opened(objects, o, zones[o])
         pk == Baselines(packs, objects, opened \cup (IF told = {} THEN {} ELSE {d}))
     IN  /\ live' = objects
         /\ packs' = pk
         /\ currentZones' = zones
         /\ Send([c \in Clients |->
                    IF c \in told
                    THEN <<Generate([i \in {d} |-> pk[d].val])>>
                           \o InterestMessages(pk, objects, c, zones[c])
                    ELSE <<>>])
  /\ UNCHANGED <<tick, svUp, explicitZones, acked, frames, client, toServer>>

(* deleteObject.  The zones of the owner are not recomputed.               *)
DeleteObject(d) ==
  /\ tick < MaxTick
  /\ d \in DOMAIN live
  /\ live' = Restrict(live, DOMAIN live \ {d})
  /\ packs' = Restrict(packs, DOMAIN packs \ {d})
  /\ Send([c \in Clients |-> IF live[d].zone \in currentZones[c] THEN <<Delete({d})>>
                             ELSE <<>>])
  /\ UNCHANGED <<tick, svUp, explicitZones, currentZones, acked, frames, client, toServer>>

(* Game code assigns to an attribute of the object.                        *)
SetField(d, f, v) ==
  /\ tick < MaxTick
  /\ d \in DOMAIN live
  /\ live' = [live EXCEPT ![d].state[f] = v]
  /\ UNCHANGED <<tick, packs, svUp, explicitZones, currentZones, acked, frames,
                 client, toClient, toServer>>

(* The handlers of CL_AddInterest, CL_RemoveInterest and CL_SetInterest:   *)
(* the explicit interests become some set, the rest is common to them.     *)
ChangeInterest(c, explicit) ==
  /\ tick < MaxTick
  /\ c \in svUp
  /\ LET zones == NewZones(live, c, explicit)
         pk == Baselines(packs, live, Opened(live, c, zones))
     IN  /\ packs' = pk
         /\ explicitZones' = [explicitZones EXCEPT ![c] = explicit]
         /\ currentZones' = [currentZones EXCEPT ![c] = zones]
         /\ Send([i \in Clients |-> IF i = c THEN InterestMessages(pk, live, c, zones)
                                    ELSE <<>>])
  /\ UNCHANGED <<tick, live, svUp, acked, frames, client, toServer>>

(* takeTickSnapshot, at the end of each simulation tick: the objects that  *)
(* some client due an update sees are packed, the frame is recorded for    *)
(* each of these clients, and each gets the delta to the frame it last     *)
(* acknowledged if that is on record (the new frame already is).           *)
Repacked_Once(ids) ==                   \* mutant: never packed again
  [d \in DOMAIN packs \cup ids |->
     IF d \in DOMAIN packs THEN packs[d]
     ELSE PackObjectInSnapshot(packs, d, live[d].state, tick)]

Repacked(ids) ==
  [d \in DOMAIN packs \cup ids |->
     IF d \in ids THEN PackObjectInSnapshot(packs, d, live[d].state, tick) ELSE packs[d]]

Recorded(due) ==
  [c \in Clients |-> IF c \in due THEN AddClientFrame(frames[c], tick) ELSE frames[c]]

FormatSnapshot(pk, fr, c) ==
  LET ids == Visible(live, currentZones[c])
  IN  IF HasClientFrame(fr, acked[c])
      THEN Snapshot(tick, TRUE, ClientFormatDeltaSnapshot(pk, ids, acked[c]))
      ELSE Snapshot(tick, FALSE, ClientFormatSnapshot(pk, ids))

(* due is the set of clients whose next update time has come: when it is   *)
(* empty the server punts.  Every client is due again before long, which   *)
(* the bound on the ticks keeps by making everyone due at the last one.    *)
TakeTickSnapshot(due) ==
  LET pk == Repacked(Visible(live, UNION {currentZones[c] : c \in due}))
      fr == Recorded(due)
  IN  /\ tick <= MaxTick
      /\ due \subseteq svUp
      /\ tick = MaxTick => due = svUp
      /\ packs' = pk
      /\ frames' = fr
      /\ Send([c \in Clients |-> IF c \in due THEN <<FormatSnapshot(pk, fr[c], c)>> ELSE <<>>])
      /\ tick' = tick + 1
      /\ UNCHANGED <<live, svUp, explicitZones, currentZones, acked, client, toServer>>

(* handleClientTick *)
ServerReceiveTick(c) ==
  /\ c \in svUp
  /\ toServer[c] # <<>>
  /\ acked' = [acked EXCEPT ![c] = Head(toServer[c])]
  /\ toServer' = [toServer EXCEPT ![c] = Tail(@)]
  /\ UNCHANGED <<tick, live, packs, svUp, explicitZones, currentZones, frames,
                 client, toClient>>

(* handleClientDisconnect: the client said goodbye or the network reports  *)
(* that the connection is gone.  Its objects are deleted one after another *)
(* (the messages are modelled as one) and its record is dropped.           *)
ServerDisconnect(c) ==
  /\ tick < MaxTick
  /\ c \in svUp
  /\ LET gone == Owned(live, c)
     IN  /\ live' = Restrict(live, DOMAIN live \ gone)
         /\ packs' = Restrict(packs, DOMAIN packs \ gone)
         /\ Send([i \in Clients |->
                    IF Visible(live, currentZones[i]) \cap gone = {} THEN <<>>
                    ELSE <<Delete(Visible(live, currentZones[i]) \cap gone)>>])
  /\ svUp' = svUp \ {c}
  /\ explicitZones' = [explicitZones EXCEPT ![c] = {}]
  /\ currentZones' = [currentZones EXCEPT ![c] = {}]
  /\ acked' = [acked EXCEPT ![c] = -1]
  /\ frames' = [frames EXCEPT ![c] = <<>>]
  /\ toServer' = [toServer EXCEPT ![c] = <<>>]
  /\ UNCHANGED <<tick, client>>

-------------------------------------------------------------------------------
(* Client actions                                                          *)

(* What a message does to the replica v when nothing goes wrong: objects   *)
(* are added, removed, or have some of their fields replaced.              *)
WithObjects(v, objs) ==
  [d \in DOMAIN v \cup DOMAIN objs |-> IF d \in DOMAIN objs THEN objs[d] ELSE v[d]]

WithFields(v, objs) ==
  [d \in DOMAIN v |-> IF d \in DOMAIN objs THEN UnpackObjectState(v[d], objs[d]) ELSE v[d]]

Apply(m, v) ==
  IF m.kind = "generate" THEN WithObjects(v, m.objs)
  ELSE IF m.kind = "delete" THEN Restrict(v, DOMAIN v \ m.ids)
  ELSE WithFields(v, m.objs)

(* m finds the replica as the server supposes it to be.                    *)
Fits(m, v) ==
  /\ m.kind = "generate" => DOMAIN m.objs \cap DOMAIN v = {}
  /\ m.kind = "delete" => m.ids \subseteq DOMAIN v
  /\ m.kind = "tick" => DOMAIN m.objs \subseteq DOMAIN v

Receive(c, kind) ==
  /\ c \in clUp
  /\ toClient[c] # <<>>
  /\ Head(toClient[c]).kind = kind
  /\ toClient' = [toClient EXCEPT ![c] = Tail(@)]
  /\ UNCHANGED <<server, clUp, toServer>>

(* __handleGenerateObject, __handleGenerateOwnerObject                     *)
HandleGenerateObject(c) ==
  /\ Receive(c, "generate")
  /\ view' = [view EXCEPT ![c] = WithObjects(@, Head(toClient[c]).objs)]
  /\ UNCHANGED deltaTick

(* __handleDeleteObject skips the ids it does not know.                    *)
HandleDeleteObject(c) ==
  /\ Receive(c, "delete")
  /\ view' = [view EXCEPT ![c] = Restrict(@, DOMAIN @ \ Head(toClient[c]).ids)]
  /\ UNCHANGED deltaTick

(* __handleServerTick.  A delta is ignored by a client without reference.  *)
(* Unpacking stops at the first object the client does not have, which     *)
(* leaves any part of the others updated; the tick becomes the new         *)
(* reference all the same.                                                 *)
HandleServerTick(c) ==
  /\ Receive(c, "tick")
  /\ LET m == Head(toClient[c])
         known == DOMAIN m.objs \cap DOMAIN view[c]
     IN  IF m.delta /\ deltaTick[c] < 0
         THEN UNCHANGED <<view, deltaTick>>
         ELSE /\ \E unpacked \in SUBSET known :
                   /\ DOMAIN m.objs = known => unpacked = known
                   /\ view' = [view EXCEPT ![c] =
                                 WithFields(@, Restrict(m.objs, unpacked))]
              /\ deltaTick' = [deltaTick EXCEPT ![c] = m.tick]

(* sendTick, called by the game whenever it likes.                         *)
SendTick(c) ==
  /\ c \in clUp
  /\ IF c \in svUp
     THEN /\ Len(toServer[c]) < MaxChannel
          /\ toServer' = [toServer EXCEPT ![c] = Append(@, deltaTick[c])]
     ELSE UNCHANGED toServer
  /\ UNCHANGED <<server, client, toClient>>

(* disconnect, or the network reports that the connection is lost: the     *)
(* objects go away.  The delta reference is not reset.                     *)
ClientDisconnect(c) ==
  /\ tick < MaxTick
  /\ c \in clUp
  /\ clUp' = clUp \ {c}
  /\ view' = [view EXCEPT ![c] = NoTable]
  /\ toClient' = [toClient EXCEPT ![c] = <<>>]
  /\ UNCHANGED <<server, deltaTick, toServer>>

(* A new connection, from connect() to the hello response that verifies    *)
(* the client: the server starts from a new record.                        *)
Connect(c) ==
  /\ tick < MaxTick
  /\ c \notin svUp \cup clUp
  /\ svUp' = svUp \cup {c}
  /\ clUp' = clUp \cup {c}
  /\ UNCHANGED <<tick, live, packs, explicitZones, currentZones, acked, frames,
                 view, deltaTick, toClient, toServer>>

-------------------------------------------------------------------------------

ServerStep ==
  \/ \E d \in DoIds, z \in Zones, s \in State, o \in svUp \cup {NoClient} :
       GenerateObject(d, z, s, o)
  \/ \E d \in DoIds : DeleteObject(d)
  \/ \E d \in DoIds, f \in Fields, v \in Values : SetField(d, f, v)
  \/ \E c \in Clients, explicit \in SUBSET Zones : ChangeInterest(c, explicit)
  \/ \E due \in SUBSET Clients : TakeTickSnapshot(due)
  \/ \E c \in Clients : ServerReceiveTick(c)
  \/ \E c \in Clients : ServerDisconnect(c)

ClientStep ==
  \/ \E c \in Clients : HandleGenerateObject(c)
  \/ \E c \in Clients : HandleDeleteObject(c)
  \/ \E c \in Clients : HandleServerTick(c)
  \/ \E c \in Clients : SendTick(c)
  \/ \E c \in Clients : ClientDisconnect(c)
  \/ \E c \in Clients : Connect(c)

Next == ServerStep \/ ClientStep

Spec == Init /\ [][Next]_vars

(* The simulation task runs at every tick, whatever is in flight (it waits *)
(* for the bound on the channel only in the model); the client polls its   *)
(* connection every frame.                                                 *)
Fairness ==
  /\ SF_vars(\E due \in SUBSET Clients : TakeTickSnapshot(due))
  /\ \A c \in Clients : WF_vars(HandleGenerateObject(c) \/ HandleDeleteObject(c)
                                  \/ HandleServerTick(c))

FairSpec == Spec /\ Fairness

-------------------------------------------------------------------------------
(* Properties                                                              *)

(* The tables and queues hold what the code puts there, and a client has   *)
(* at most MaxFrames frames on record (setupPackInfo).                     *)
TypeOK ==
  /\ tick \in 1 .. MaxTick + 1
  /\ live \in Tables(Object)
  /\ packs \in Tables(PackedObject(-1 .. MaxTick))
  /\ svUp \subseteq Clients
  /\ explicitZones \in [Clients -> SUBSET Zones]
  /\ currentZones \in [Clients -> SUBSET Zones]
  /\ acked \in [Clients -> Nat \cup {-1}]
  /\ frames \in [Clients -> Seq(Nat)]
  /\ \A c \in Clients : Len(frames[c]) <= MaxFrames
  /\ clUp \subseteq Clients
  /\ view \in [Clients -> View]
  /\ deltaTick \in [Clients -> Nat \cup {-1}]
  /\ toClient \in [Clients -> Seq(Message)]
  /\ toServer \in [Clients -> Seq(Nat \cup {-1})]

(* Whatever the interleaving of interest changes, generates, deletes and   *)
(* snapshots, a message that reaches the client never generates an object  *)
(* twice, deletes an object the client does not have, or carries state for *)
(* one (which would make unpack_server_snapshot give up half-way).         *)
MessagesFit ==
  \A c \in clUp : toClient[c] # <<>> => Fits(Head(toClient[c]), view[c])

(* When all that was sent has arrived and the client was part of the last  *)
(* snapshot, its replica has exactly the objects of its interest zones,    *)
(* each with the state the server last packed, however little of it the    *)
(* delta snapshots carried.                                                *)
Converged ==
  \A c \in Deliverable :
    toClient[c] = <<>> /\ (\E i \in DOMAIN frames[c] : frames[c][i] = tick - 1) =>
      /\ DOMAIN view[c] = Visible(live, currentZones[c])
      /\ \A d \in DOMAIN view[c] : d \in DOMAIN packs /\ view[c][d] = packs[d].val

(* A delta snapshot is never thrown away by the client (__handleServerTick *)
(* ignores one that comes when it has no reference).                       *)
DeltaAccepted ==
  \A c \in clUp : \A i \in DOMAIN toClient[c] :
    toClient[c][i].kind = "tick" /\ toClient[c][i].delta => deltaTick[c] >= 0

(* Ticks travel around the loop in order: what the server takes as the     *)
(* client's reference, the acknowledgements in flight, the reference of    *)
(* the client, the snapshots in flight and the current tick never decrease *)
(* along this path, and the frames on record are older than the tick.      *)
PipelineOrdered ==
  \A c \in Clients :
    /\ acked[c] <= deltaTick[c] /\ deltaTick[c] < tick
    /\ \A i \in DOMAIN toServer[c] :
         /\ acked[c] <= toServer[c][i] /\ toServer[c][i] <= deltaTick[c]
         /\ \A j \in 1 .. i : toServer[c][j] <= toServer[c][i]
    /\ \A i \in DOMAIN toClient[c] : toClient[c][i].kind = "tick" =>
         /\ deltaTick[c] < toClient[c][i].tick /\ toClient[c][i].tick < tick
         /\ \A j \in 1 .. i - 1 : toClient[c][j].kind = "tick" =>
              toClient[c][j].tick < toClient[c][i].tick
    /\ \A i \in DOMAIN frames[c] :
         /\ frames[c][i] < tick
         /\ \A j \in 1 .. i - 1 : frames[c][j] < frames[c][i]

(* While a client stays connected its reference only moves forward:        *)
(* snapshots are adopted in the order they were taken.                     *)
ReferenceMovesForward ==
  [][\A c \in clUp \cap clUp' : deltaTick'[c] >= deltaTick[c]]_vars

(* Once the world stops changing, one last snapshot to everyone is enough: *)
(* each connected client ends up with the present state of what it sees.   *)
EventuallyConsistent ==
  <>[](\A c \in Deliverable :
         /\ DOMAIN view[c] = Visible(live, currentZones[c])
         /\ \A d \in DOMAIN view[c] : view[c][d] = live[d].state)
===============================================================================
