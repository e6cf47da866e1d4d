-------------------------- MODULE ReplicationProofs ---------------------------
(* Proofs about Replication for all values of the constants.               *)
EXTENDS ReplicationInvariant, TLAPS

-------------------------------------------------------------------------------
(* Tables *)

(* What membership of Tables(S) says.                                      *)
LEMMA TablesElim ==
  ASSUME NEW S, NEW t \in Tables(S)
  PROVE  /\ DOMAIN t \subseteq DoIds
         /\ t = [d \in DOMAIN t |-> t[d]]
         /\ \A d \in DOMAIN t : t[d] \in S
  BY DEF Tables

(* A function over some of the ids with values in S is a table.            *)
LEMMA TablesIntro ==
  ASSUME NEW S, NEW ids \in SUBSET DoIds, NEW t \in [ids -> S]
  PROVE  t \in Tables(S)
  BY DEF Tables

LEMMA NoTableTyped == ASSUME NEW S PROVE NoTable \in Tables(S) /\ DOMAIN NoTable = {}
<1>1. NoTable \in [{} -> S] BY DEF NoTable
<1>2. QED BY <1>1, TablesIntro DEF NoTable

LEMMA RestrictTyped ==
  ASSUME NEW S, NEW t \in Tables(S), NEW ids \in SUBSET DOMAIN t
  PROVE  /\ Restrict(t, ids) \in Tables(S)
         /\ DOMAIN Restrict(t, ids) = ids
         /\ \A d \in ids : Restrict(t, ids)[d] = t[d]
<1>1. ids \in SUBSET DoIds /\ \A d \in ids : t[d] \in S BY TablesElim
<1>2. Restrict(t, ids) \in [ids -> S] BY <1>1 DEF Restrict
<1>3. QED BY <1>1, <1>2, TablesIntro DEF Restrict

-------------------------------------------------------------------------------
(* Packed objects *)

LEMMA RepackTyped ==
  ASSUME NEW ticks, NEW prev \in PackedObject(ticks), NEW s \in State, NEW t \in ticks
  PROVE  Repack(prev, s, t) \in PackedObject(ticks)
  BY DEF Repack, PackedObject, SetChangeTick, State

LEMMA NewPackedObjectTyped ==
  ASSUME NEW ticks, NEW s \in State, NEW t \in ticks
  PROVE  NewPackedObject(s, t) \in PackedObject(ticks)
  BY DEF NewPackedObject, PackedObject, NewChangeFrameList, State

LEMMA NewPackedObjectTick ==
  ASSUME NEW s, NEW t, NEW f \in Fields
  PROVE  NewPackedObject(s, t).chg[f] = t
<1>1. NewPackedObject(s, t).chg = [g \in Fields |-> t] BY DEF NewPackedObject, NewChangeFrameList
<1>2. QED BY <1>1

LEMMA AddClientFrameTyped ==
  ASSUME NEW fr \in Seq(Nat), Len(fr) <= MaxFrames, NEW t \in Nat
  PROVE  /\ AddClientFrame(fr, t) \in Seq(Nat)
         /\ Len(AddClientFrame(fr, t)) <= MaxFrames
         /\ \A i \in DOMAIN AddClientFrame(fr, t) :
              \/ AddClientFrame(fr, t)[i] = t
              \/ \E j \in DOMAIN fr : AddClientFrame(fr, t)[i] = fr[j]
<1>. DEFINE longer == Append(fr, t)
<1>1. longer \in Seq(Nat) /\ Len(longer) = Len(fr) + 1 /\ Len(fr) \in Nat OBVIOUS
<1>2. CASE Len(longer) > MaxFrames BY <1>1, <1>2, MaxFramesAssumption DEF AddClientFrame
<1>3. CASE ~(Len(longer) > MaxFrames) BY <1>1, <1>3, MaxFramesAssumption DEF AddClientFrame
<1>4. QED BY <1>2, <1>3

-------------------------------------------------------------------------------
(* Messages *)

LEMMA MessageKinds ==
  ASSUME NEW m \in Message
  PROVE  \/ m \in GenerateMsg /\ m.kind = "generate" /\ m.objs \in View
         \/ m \in DeleteMsg /\ m.kind = "delete" /\ m.ids \in SUBSET DoIds
         \/ /\ m \in TickMsg /\ m.kind = "tick" /\ m.tick \in Nat /\ m.delta \in BOOLEAN
            /\ m.objs \in Tables(Patch)
  BY DEF Message, GenerateMsg, DeleteMsg, TickMsg

(* What the server sends between snapshots.                                *)
Announcement == GenerateMsg \cup DeleteMsg

LEMMA MessagesTyped ==
  /\ \A objs \in View : Generate(objs) \in Announcement
  /\ \A ids \in SUBSET DoIds : Delete(ids) \in Announcement
  /\ \A t \in Nat, delta \in BOOLEAN, objs \in Tables(Patch) :
       Snapshot(t, delta, objs) \in Message
  BY DEF Message, Announcement, GenerateMsg, DeleteMsg, TickMsg, Generate, Delete, Snapshot

LEMMA UnpackTyped ==
  ASSUME NEW s \in State, NEW fields \in Patch
  PROVE  UnpackObjectState(s, fields) \in State
  BY DEF UnpackObjectState, State, Patch

(* A replica stays a replica whatever message is applied to it.            *)
LEMMA ReplicaTyped ==
  ASSUME NEW v \in View
  PROVE  /\ \A objs \in View : WithObjects(v, objs) \in View
         /\ \A objs \in Tables(Patch) : WithFields(v, objs) \in View
         /\ \A ids : Restrict(v, DOMAIN v \ ids) \in View
<1>1. DOMAIN v \subseteq DoIds /\ \A d \in DOMAIN v : v[d] \in State BY TablesElim DEF View
<1>2. ASSUME NEW objs \in View PROVE WithObjects(v, objs) \in View
  <2>1. DOMAIN objs \subseteq DoIds /\ \A d \in DOMAIN objs : objs[d] \in State
    BY TablesElim DEF View
  <2>2. WithObjects(v, objs) \in [DOMAIN v \cup DOMAIN objs -> State]
    BY <1>1, <2>1 DEF WithObjects
  <2>3. QED BY <1>1, <2>1, <2>2, TablesIntro DEF View
<1>3. ASSUME NEW objs \in Tables(Patch) PROVE WithFields(v, objs) \in View
  <2>1. \A d \in DOMAIN objs : objs[d] \in Patch BY TablesElim
  <2>2. WithFields(v, objs) \in [DOMAIN v -> State] BY <1>1, <2>1, UnpackTyped DEF WithFields
  <2>3. QED BY <1>1, <2>2, TablesIntro DEF View
<1>4. ASSUME NEW ids PROVE Restrict(v, DOMAIN v \ ids) \in View
  BY RestrictTyped DEF View
<1>5. QED BY <1>2, <1>3, <1>4

LEMMA ApplyTyped ==
  ASSUME NEW m \in Message, NEW v \in View
  PROVE  Apply(m, v) \in View
<1>1. CASE m.kind = "generate" BY <1>1, MessageKinds, ReplicaTyped DEF Apply
<1>2. CASE m.kind = "delete" BY <1>2, MessageKinds, ReplicaTyped DEF Apply
<1>3. CASE m.kind = "tick" BY <1>3, MessageKinds, ReplicaTyped DEF Apply
<1>4. QED BY <1>1, <1>2, <1>3, MessageKinds

(* Send appends to the queues.                                             *)
LEMMA SendTyped ==
  ASSUME toClient \in [Clients -> Seq(Message)], NEW out \in [Clients -> Seq(Message)],
         Send(out)
  PROVE  toClient' \in [Clients -> Seq(Message)]
  BY DEF Send

(* The snapshots in flight to c are where they were.                       *)
TicksKept(c) ==
  \A i \in DOMAIN toClient'[c] :
    toClient'[c][i].kind = "tick" => i \in DOMAIN toClient[c] /\ toClient'[c][i] = toClient[c][i]

(* Nothing but announcements is sent.                                      *)
Announces ==
  \E out \in [Clients -> Seq(Announcement)] :
    toClient' = [c \in Clients |-> IF c \in Deliverable THEN toClient[c] \o out[c]
                                  ELSE toClient[c]]

(* Announcements queue behind the snapshots in flight.                     *)
LEMMA AnnounceTyped ==
  ASSUME toClient \in [Clients -> Seq(Message)], NEW out \in [Clients -> Seq(Announcement)],
         Send(out)
  PROVE  /\ toClient' \in [Clients -> Seq(Message)]
         /\ Announces
         /\ \A c \in Clients : TicksKept(c)
<1>1. Announcement \subseteq Message BY DEF Announcement, Message
<1>2. \A c \in Clients : out[c] \in Seq(Message) BY <1>1
<1>3. toClient' \in [Clients -> Seq(Message)] BY <1>2, SendTyped
<1>4. ASSUME NEW c \in Clients PROVE TicksKept(c)
  <2>1. CASE toClient'[c] = toClient[c] BY <2>1 DEF TicksKept
  <2>2. CASE toClient'[c] = toClient[c] \o out[c]
    <3>1. \A i \in DOMAIN out[c] : out[c][i].kind # "tick"
      BY DEF Announcement, GenerateMsg, DeleteMsg
    <3>2. toClient[c] \in Seq(Message) /\ out[c] \in Seq(Message) BY <1>2
    <3>3. ASSUME NEW i \in DOMAIN toClient'[c], toClient'[c][i].kind = "tick"
          PROVE  i \in DOMAIN toClient[c] /\ toClient'[c][i] = toClient[c][i]
      <4>1. CASE i \in DOMAIN toClient[c] BY <2>2, <3>2, <4>1
      <4>2. CASE i \notin DOMAIN toClient[c]
        <5>1. i - Len(toClient[c]) \in DOMAIN out[c]
              /\ toClient'[c][i] = out[c][i - Len(toClient[c])]
          BY <2>2, <3>2, <3>3, <4>2
        <5>2. QED BY <3>1, <3>3, <5>1
      <4>3. QED BY <4>1, <4>2
    <3>4. QED BY <3>3 DEF TicksKept
  <2>3. QED BY <2>1, <2>2 DEF Send
<1>5. Announces BY DEF Send, Announces
<1>6. QED BY <1>3, <1>4, <1>5

-------------------------------------------------------------------------------
(* Objects and packets *)

LEMMA VisibleTyped ==
  ASSUME NEW objects \in Tables(Object), NEW zones
  PROVE  Visible(objects, zones) \in SUBSET DOMAIN objects /\ DOMAIN objects \subseteq DoIds
  BY TablesElim DEF Visible

LEMMA ObjectFields ==
  ASSUME NEW objects \in Tables(Object)
  PROVE  /\ DOMAIN objects \subseteq DoIds
         /\ \A d \in DOMAIN objects : /\ objects[d] \in Object
                                      /\ objects[d].zone \in Zones
                                      /\ objects[d].owner \in Clients \cup {NoClient}
                                      /\ objects[d].state \in State
<1>1. DOMAIN objects \subseteq DoIds /\ \A d \in DOMAIN objects : objects[d] \in Object
  BY TablesElim
<1>2. QED BY <1>1 DEF Object

LEMMA PackFields ==
  ASSUME NEW ticks, NEW pk \in Tables(PackedObject(ticks))
  PROVE  /\ DOMAIN pk \subseteq DoIds
         /\ \A d \in DOMAIN pk : /\ pk[d] \in PackedObject(ticks)
                                 /\ pk[d].val \in State
                                 /\ \A f \in Fields : pk[d].chg[f] \in ticks
<1>1. DOMAIN pk \subseteq DoIds /\ \A d \in DOMAIN pk : pk[d] \in PackedObject(ticks)
  BY TablesElim
<1>2. QED BY <1>1 DEF PackedObject

LEMMA BaselinesTyped ==
  ASSUME NEW objects \in Tables(Object), NEW ids \in SUBSET DOMAIN objects,
         NEW pk \in Tables(PackedObject(-1 .. MaxTick))
  PROVE  /\ Baselines(pk, objects, ids) \in Tables(PackedObject(-1 .. MaxTick))
         /\ DOMAIN Baselines(pk, objects, ids) = DOMAIN pk \cup ids
         /\ \A d \in DOMAIN pk : Baselines(pk, objects, ids)[d] = pk[d]
<1>. DEFINE ticks == -1 .. MaxTick
<1>1. DOMAIN pk \subseteq DoIds /\ \A d \in DOMAIN pk : pk[d] \in PackedObject(ticks)
  BY TablesElim
<1>2. DOMAIN objects \subseteq DoIds /\ \A d \in DOMAIN objects : objects[d].state \in State
  BY ObjectFields
<1>3. -1 \in ticks BY BoundsAssumption
<1>4. \A d \in ids : NewPackedObject(objects[d].state, -1) \in PackedObject(ticks)
  BY <1>2, <1>3, NewPackedObjectTyped
<1>5. Baselines(pk, objects, ids) \in [DOMAIN pk \cup ids -> PackedObject(ticks)]
  BY <1>1, <1>4 DEF Baselines, FindOrCreateBaseline
<1>6. \A d \in DOMAIN pk : Baselines(pk, objects, ids)[d] = pk[d]
  BY DEF Baselines, FindOrCreateBaseline
<1>9. DOMAIN Baselines(pk, objects, ids) = DOMAIN pk \cup ids BY DEF Baselines
<1>10. Baselines(pk, objects, ids) \in Tables(PackedObject(-1 .. MaxTick))
  BY <1>1, <1>2, <1>5, TablesIntro
<1>11. QED BY <1>6, <1>9, <1>10

(* An object that had no packet gets one with its present state.           *)
LEMMA BaselinesNew ==
  ASSUME NEW objects, NEW ids, NEW pk, NEW d \in ids \ DOMAIN pk
  PROVE  Baselines(pk, objects, ids)[d] = NewPackedObject(objects[d].state, -1)
  BY DEF Baselines, FindOrCreateBaseline

(* The values of the packets of some objects are a replica.                *)
LEMMA ValuesTyped ==
  ASSUME NEW ticks, NEW pk \in Tables(PackedObject(ticks)), NEW ids \in SUBSET DOMAIN pk
  PROVE  [d \in ids |-> pk[d].val] \in View
<1>1. DOMAIN pk \subseteq DoIds /\ \A d \in DOMAIN pk : pk[d].val \in State
  BY PackFields
<1>3. [d \in ids |-> pk[d].val] \in [ids -> State] BY <1>1
<1>4. QED BY <1>1, <1>3, TablesIntro DEF View

LEMMA DeltaTyped ==
  ASSUME NEW ticks, NEW pk \in Tables(PackedObject(ticks)), NEW ids \in SUBSET DOMAIN pk,
         NEW from
  PROVE  ClientFormatDeltaSnapshot(pk, ids, from) \in Tables(Patch)
<1>. DEFINE changed(d) == FieldsChangedAfterTick(pk[d].chg, from)
            sent == {i \in ids : changed(i) # {}}
            patches == ClientFormatDeltaSnapshot(pk, ids, from)
<1>1. DOMAIN pk \subseteq DoIds /\ \A d \in DOMAIN pk : pk[d].val \in State
  BY PackFields
<1>2. \A d \in ids : changed(d) \in SUBSET Fields BY DEF FieldsChangedAfterTick
<1>3. \A d \in ids : [f \in changed(d) |-> pk[d].val[f]] \in Patch
  BY <1>1, <1>2 DEF Patch, State
<1>4. patches = [d \in sent |-> [f \in changed(d) |-> pk[d].val[f]]]
  BY DEF ClientFormatDeltaSnapshot
<1>5. patches \in [sent -> Patch] BY <1>3, <1>4
<1>6. QED BY <1>1, <1>5, TablesIntro

(* The datagrams of updateClientInterestZones, once the objects that come  *)
(* into sight have packets.                                                *)
LEMMA InterestMessagesTyped ==
  ASSUME NEW objects \in Tables(Object), NEW c, NEW zones,
         NEW pk \in Tables(PackedObject(-1 .. MaxTick)),
         Opened(objects, c, zones) \subseteq DOMAIN pk
  PROVE  InterestMessages(pk, objects, c, zones) \in Seq(Announcement)
<1>1. [d \in Opened(objects, c, zones) |-> pk[d].val] \in View BY ValuesTyped
<1>2. Closed(objects, c, zones) \in SUBSET DoIds BY VisibleTyped DEF Closed
<1>3. QED BY <1>1, <1>2, MessagesTyped DEF InterestMessages

LEMMA OpenedTyped ==
  ASSUME NEW objects \in Tables(Object), NEW c, NEW zones
  PROVE  Opened(objects, c, zones) \in SUBSET DOMAIN objects
  BY VisibleTyped DEF Opened

LEMMA NewZonesTyped ==
  ASSUME NEW objects \in Tables(Object), NEW c, NEW explicit \in SUBSET Zones
  PROVE  NewZones(objects, c, explicit) \in SUBSET Zones
  BY ObjectFields DEF NewZones, OwnedZones, Owned

-------------------------------------------------------------------------------
(* Type correctness *)

LEMMA InitTyped == Init => TypeOK
<1>. SUFFICES ASSUME Init PROVE TypeOK OBVIOUS
<1>1. /\ NoTable \in Tables(Object) /\ NoTable \in Tables(PackedObject(-1 .. MaxTick))
      /\ NoTable \in View
  BY NoTableTyped DEF View
<1>2. QED BY <1>1, BoundsAssumption, MaxFramesAssumption DEF Init, TypeOK

LEMMA GenerateObjectTyped ==
  ASSUME TypeOK, NEW d \in DoIds, NEW z \in Zones, NEW s \in State,
         NEW o \in svUp \cup {NoClient}, GenerateObject(d, z, s, o)
  PROVE  TypeOK' /\ Announces /\ \A c \in Clients : TicksKept(c)
<1>. DEFINE objects == WithObject(d, z, s, o)
            told == {c \in svUp : z \in currentZones[c]} \cup ({o} \ {NoClient})
            zones == [c \in Clients |-> IF c = o THEN NewZones(objects, c, explicitZones[c])
                                        ELSE currentZones[c]]
            opened == IF o = NoClient THEN {} ELSE Opened(objects, o, zones[o])
            ids == opened \cup (IF told = {} THEN {} ELSE {d})
            pk == Baselines(packs, objects, ids)
            msgs(c) == <<Generate([i \in {d} |-> pk[d].val])>>
                         \o InterestMessages(pk, objects, c, zones[c])
            out == [c \in Clients |-> IF c \in told THEN msgs(c) ELSE <<>>]
<1>1. /\ live' = objects /\ packs' = pk /\ currentZones' = zones /\ Send(out)
      /\ UNCHANGED <<tick, svUp, explicitZones, acked, frames, client, toServer>>
  BY DEF GenerateObject
<1>2. objects \in Tables(Object)
  <2>1. DOMAIN live \subseteq DoIds /\ \A i \in DOMAIN live : live[i] \in Object
    BY ObjectFields DEF TypeOK
  <2>2. [zone |-> z, owner |-> o, state |-> s] \in Object BY DEF TypeOK, Object
  <2>3. objects \in [DOMAIN live \cup {d} -> Object] BY <2>1, <2>2 DEF WithObject
  <2>4. QED BY <2>1, <2>3, TablesIntro
<1>3. zones \in [Clients -> SUBSET Zones] BY <1>2, NewZonesTyped DEF TypeOK
<1>4. ids \in SUBSET DOMAIN objects BY <1>2, OpenedTyped DEF WithObject
<1>5. pk \in Tables(PackedObject(-1 .. MaxTick)) /\ DOMAIN pk = DOMAIN packs \cup ids
  BY <1>2, <1>4, BaselinesTyped, ZenonT(40) DEF TypeOK
<1>6. out \in [Clients -> Seq(Announcement)]
  <2>1. ASSUME NEW c \in Clients, c \in told PROVE msgs(c) \in Seq(Announcement)
    <3>1. d \in DOMAIN pk BY <1>5, <2>1
    <3>2. [i \in {d} |-> pk[i].val] \in View BY <1>5, <3>1, ValuesTyped
    <3>3. [i \in {d} |-> pk[d].val] = [i \in {d} |-> pk[i].val] OBVIOUS
    <3>4. Generate([i \in {d} |-> pk[d].val]) \in Announcement BY <3>2, <3>3, MessagesTyped
    <3>5. Opened(objects, c, zones[c]) \subseteq DOMAIN pk
      <4>1. CASE c = o BY <1>5, <2>1, <4>1, NoClientAssumption
      <4>2. CASE c # o BY <2>1, <4>2 DEF Opened, Visible
      <4>3. QED BY <4>1, <4>2
    <3>6. InterestMessages(pk, objects, c, zones[c]) \in Seq(Announcement)
      BY <1>2, <1>5, <3>5, InterestMessagesTyped
    <3>7. QED BY <3>4, <3>6
  <2>. HIDE DEF msgs, told
  <2>2. QED BY <2>1
<1>7. toClient' \in [Clients -> Seq(Message)] /\ Announces /\ \A c \in Clients : TicksKept(c)
  <2>1. toClient \in [Clients -> Seq(Message)] BY DEF TypeOK
  <2>2. QED BY <1>1, <1>6, <2>1, AnnounceTyped
<1>8. TypeOK' BY <1>1, <1>2, <1>3, <1>5, <1>7 DEF TypeOK, client
<1>9. QED BY <1>7, <1>8

LEMMA DeleteObjectTyped ==
  ASSUME TypeOK, NEW d \in DoIds, DeleteObject(d)
  PROVE  TypeOK' /\ Announces /\ \A c \in Clients : TicksKept(c)
<1>1. live' \in Tables(Object) /\ packs' \in Tables(PackedObject(-1 .. MaxTick))
  BY RestrictTyped DEF TypeOK, DeleteObject
<1>. DEFINE out == [c \in Clients |-> IF live[d].zone \in currentZones[c] THEN <<Delete({d})>>
                                      ELSE <<>>]
<1>2. out \in [Clients -> Seq(Announcement)] BY MessagesTyped
<1>3. toClient' \in [Clients -> Seq(Message)] /\ Announces /\ \A c \in Clients : TicksKept(c)
  <2>1. toClient \in [Clients -> Seq(Message)] BY DEF TypeOK
  <2>2. Send(out) BY DEF DeleteObject
  <2>3. QED BY <1>2, <2>1, <2>2, AnnounceTyped
<1>4. TypeOK' BY <1>1, <1>3 DEF TypeOK, DeleteObject, client
<1>5. QED BY <1>3, <1>4

LEMMA SetFieldTyped ==
  ASSUME TypeOK, NEW d \in DoIds, NEW f \in Fields, NEW v \in Values, SetField(d, f, v)
  PROVE  TypeOK'
<1>1. DOMAIN live \subseteq DoIds /\ live = [i \in DOMAIN live |-> live[i]]
      /\ \A i \in DOMAIN live : live[i] \in Object
  BY TablesElim DEF TypeOK
<1>2. live' \in [DOMAIN live -> Object] BY <1>1 DEF SetField, Object, State
<1>3. live' \in Tables(Object) BY <1>1, <1>2, TablesIntro
<1>4. QED BY <1>3 DEF TypeOK, SetField, client

LEMMA ChangeInterestTyped ==
  ASSUME TypeOK, NEW c \in Clients, NEW explicit \in SUBSET Zones, ChangeInterest(c, explicit)
  PROVE  TypeOK' /\ Announces /\ \A i \in Clients : TicksKept(i)
<1>. DEFINE zones == NewZones(live, c, explicit)
            pk == Baselines(packs, live, Opened(live, c, zones))
            out == [i \in Clients |-> IF i = c THEN InterestMessages(pk, live, c, zones)
                                      ELSE <<>>]
<1>1. /\ packs' = pk /\ Send(out)
      /\ explicitZones' = [explicitZones EXCEPT ![c] = explicit]
      /\ currentZones' = [currentZones EXCEPT ![c] = zones]
      /\ UNCHANGED <<tick, live, svUp, acked, frames, client, toServer>>
  BY DEF ChangeInterest
<1>2. zones \in SUBSET Zones BY NewZonesTyped DEF TypeOK
<1>3. pk \in Tables(PackedObject(-1 .. MaxTick)) /\ Opened(live, c, zones) \subseteq DOMAIN pk
  <2>1. live \in Tables(Object) /\ packs \in Tables(PackedObject(-1 .. MaxTick)) BY DEF TypeOK
  <2>2. Opened(live, c, zones) \in SUBSET DOMAIN live BY <2>1, OpenedTyped
  <2>3. QED BY <2>1, <2>2, BaselinesTyped, ZenonT(40)
<1>4. out \in [Clients -> Seq(Announcement)] BY <1>3, InterestMessagesTyped DEF TypeOK
<1>5. toClient' \in [Clients -> Seq(Message)] /\ Announces /\ \A i \in Clients : TicksKept(i)
  <2>1. toClient \in [Clients -> Seq(Message)] BY DEF TypeOK
  <2>2. QED BY <1>1, <1>4, <2>1, AnnounceTyped
<1>6. TypeOK' BY <1>1, <1>2, <1>3, <1>5 DEF TypeOK, client
<1>7. QED BY <1>5, <1>6

LEMMA RepackedTyped ==
  ASSUME TypeOK, tick <= MaxTick, NEW ids \in SUBSET DOMAIN live
  PROVE  Repacked(ids) \in Tables(PackedObject(-1 .. MaxTick))
<1>. DEFINE ticks == -1 .. MaxTick
<1>1. DOMAIN packs \subseteq DoIds /\ \A d \in DOMAIN packs : packs[d] \in PackedObject(ticks)
  BY PackFields DEF TypeOK
<1>2. DOMAIN live \subseteq DoIds /\ \A d \in DOMAIN live : live[d].state \in State
  BY ObjectFields DEF TypeOK
<1>3. tick \in ticks BY BoundsAssumption DEF TypeOK
<1>4. \A d \in ids : PackObjectInSnapshot(packs, d, live[d].state, tick) \in PackedObject(ticks)
  BY <1>1, <1>2, <1>3, RepackTyped, NewPackedObjectTyped DEF PackObjectInSnapshot
<1>5. Repacked(ids) \in [DOMAIN packs \cup ids -> PackedObject(ticks)]
  BY <1>1, <1>4 DEF Repacked
<1>6. QED BY <1>1, <1>2, <1>5, TablesIntro

(* A snapshot carries packed state of objects that were just packed.       *)
LEMMA SnapshotTyped ==
  ASSUME TypeOK, NEW due, NEW c \in due, NEW fr,
         Repacked(Visible(live, UNION {currentZones[i] : i \in due}))
           \in Tables(PackedObject(-1 .. MaxTick))
  PROVE  FormatSnapshot(Repacked(Visible(live, UNION {currentZones[i] : i \in due})), fr, c)
           \in Message
<1>. DEFINE pk == Repacked(Visible(live, UNION {currentZones[i] : i \in due}))
            ids == Visible(live, currentZones[c])
<1>1. ids \in SUBSET DOMAIN pk BY DEF Visible, Repacked
<1>2. ClientFormatDeltaSnapshot(pk, ids, acked[c]) \in Tables(Patch)
  BY <1>1, DeltaTyped
<1>3. ClientFormatSnapshot(pk, ids) \in View
  BY <1>1, ValuesTyped DEF ClientFormatSnapshot
<1>4. View \subseteq Tables(Patch) BY DEF View, Tables, Patch, State
<1>5. tick \in Nat BY DEF TypeOK
<1>6. QED BY <1>2, <1>3, <1>4, <1>5, MessagesTyped DEF FormatSnapshot

LEMMA TakeTickSnapshotTyped ==
  ASSUME TypeOK, NEW due \in SUBSET Clients, TakeTickSnapshot(due)
  PROVE  TypeOK'
<1>. DEFINE seen == Visible(live, UNION {currentZones[c] : c \in due})
            pk == Repacked(seen)
            fr == Recorded(due)
            format(c) == FormatSnapshot(pk, fr[c], c)
            out == [c \in Clients |-> IF c \in due THEN <<format(c)>> ELSE <<>>]
<1>1. /\ tick <= MaxTick /\ due \subseteq svUp /\ packs' = pk /\ frames' = fr /\ Send(out)
      /\ tick' = tick + 1
      /\ UNCHANGED <<live, svUp, explicitZones, currentZones, acked, client, toServer>>
  BY DEF TakeTickSnapshot
<1>2. pk \in Tables(PackedObject(-1 .. MaxTick))
  <2>1. seen \in SUBSET DOMAIN live BY VisibleTyped DEF TypeOK
  <2>2. QED BY <1>1, <2>1, RepackedTyped
<1>3. /\ fr \in [Clients -> Seq(Nat)]
      /\ \A c \in Clients : Len(fr[c]) <= MaxFrames
  <2>1. \A c \in Clients : frames[c] \in Seq(Nat) /\ Len(frames[c]) <= MaxFrames /\ tick \in Nat
    BY DEF TypeOK
  <2>2. \A c \in Clients : AddClientFrame(frames[c], tick) \in Seq(Nat)
                           /\ Len(AddClientFrame(frames[c], tick)) <= MaxFrames
    BY <2>1, AddClientFrameTyped
  <2>3. QED BY <2>1, <2>2 DEF Recorded
<1>4. \A c \in due : format(c) \in Message BY <1>2, SnapshotTyped
<1>5. out \in [Clients -> Seq(Message)]
  <2>. HIDE DEF format
  <2>1. QED BY <1>4
<1>6. toClient' \in [Clients -> Seq(Message)] BY <1>1, <1>5, SendTyped DEF TypeOK
<1>7. tick' \in 1 .. MaxTick + 1 BY <1>1, BoundsAssumption DEF TypeOK
<1>8. QED BY <1>1, <1>2, <1>3, <1>6, <1>7 DEF TypeOK, client

LEMMA ServerReceiveTickTyped ==
  ASSUME TypeOK, NEW c \in Clients, ServerReceiveTick(c)
  PROVE  TypeOK'
  BY DEF TypeOK, ServerReceiveTick, client

LEMMA ServerDisconnectTyped ==
  ASSUME TypeOK, NEW c \in Clients, ServerDisconnect(c)
  PROVE  TypeOK' /\ Announces /\ \A i \in Clients : TicksKept(i)
<1>. DEFINE gone == Owned(live, c)
            out == [i \in Clients |->
                      IF Visible(live, currentZones[i]) \cap gone = {} THEN <<>>
                      ELSE <<Delete(Visible(live, currentZones[i]) \cap gone)>>]
<1>1. /\ live' = Restrict(live, DOMAIN live \ gone) /\ packs' = Restrict(packs, DOMAIN packs \ gone)
      /\ Send(out)
  BY DEF ServerDisconnect
<1>2. live' \in Tables(Object) /\ packs' \in Tables(PackedObject(-1 .. MaxTick))
  BY <1>1, RestrictTyped DEF TypeOK
<1>3. gone \in SUBSET DoIds BY ObjectFields DEF TypeOK, Owned
<1>4. out \in [Clients -> Seq(Announcement)] BY <1>3, MessagesTyped
<1>5. toClient' \in [Clients -> Seq(Message)] /\ Announces /\ \A i \in Clients : TicksKept(i)
  <2>1. toClient \in [Clients -> Seq(Message)] BY DEF TypeOK
  <2>2. QED BY <1>1, <1>4, <2>1, AnnounceTyped
<1>6. frames' \in [Clients -> Seq(Nat)] /\ \A i \in Clients : Len(frames'[i]) <= MaxFrames
  <2>1. <<>> \in Seq(Nat) /\ Len(<<>>) <= MaxFrames BY MaxFramesAssumption
  <2>2. QED BY <2>1 DEF TypeOK, ServerDisconnect
<1>7. TypeOK' BY <1>2, <1>5, <1>6 DEF TypeOK, ServerDisconnect, client
<1>8. QED BY <1>5, <1>7

LEMMA ReceiveTyped ==
  ASSUME TypeOK, NEW c \in Clients, NEW kind, Receive(c, kind)
  PROVE  /\ Head(toClient[c]) \in Message /\ Head(toClient[c]).kind = kind
         /\ toClient' \in [Clients -> Seq(Message)]
         /\ view[c] \in View
  BY DEF TypeOK, Receive

LEMMA HandleGenerateObjectTyped ==
  ASSUME TypeOK, NEW c \in Clients, HandleGenerateObject(c)
  PROVE  TypeOK'
<1>. DEFINE m == Head(toClient[c])
<1>1. m \in Message /\ m.kind = "generate" /\ toClient' \in [Clients -> Seq(Message)]
      /\ view[c] \in View
  BY ReceiveTyped DEF HandleGenerateObject
<1>2. WithObjects(view[c], m.objs) \in View BY <1>1, MessageKinds, ReplicaTyped
<1>3. QED BY <1>1, <1>2 DEF TypeOK, HandleGenerateObject, Receive, server

LEMMA HandleDeleteObjectTyped ==
  ASSUME TypeOK, NEW c \in Clients, HandleDeleteObject(c)
  PROVE  TypeOK'
<1>. DEFINE m == Head(toClient[c])
<1>1. m \in Message /\ m.kind = "delete" /\ toClient' \in [Clients -> Seq(Message)]
      /\ view[c] \in View
  BY ReceiveTyped DEF HandleDeleteObject
<1>2. Restrict(view[c], DOMAIN view[c] \ m.ids) \in View BY <1>1, ReplicaTyped
<1>3. QED BY <1>1, <1>2 DEF TypeOK, HandleDeleteObject, Receive, server

LEMMA HandleServerTickTyped ==
  ASSUME TypeOK, NEW c \in Clients, HandleServerTick(c)
  PROVE  TypeOK'
<1>. DEFINE m == Head(toClient[c])
<1>1. m \in Message /\ m.kind = "tick" /\ toClient' \in [Clients -> Seq(Message)]
      /\ view[c] \in View
  BY ReceiveTyped DEF HandleServerTick
<1>2. m.tick \in Nat /\ m.objs \in Tables(Patch) BY <1>1, MessageKinds
<1>3. CASE m.delta /\ deltaTick[c] < 0
  <2>1. UNCHANGED <<view, deltaTick>> BY <1>3 DEF HandleServerTick
  <2>2. UNCHANGED <<server, clUp, toServer>> BY DEF HandleServerTick, Receive
  <2>3. QED BY <1>1, <2>1, <2>2 DEF TypeOK, server
<1>4. CASE ~ (m.delta /\ deltaTick[c] < 0)
  <2>1. PICK unpacked \in SUBSET (DOMAIN m.objs \cap DOMAIN view[c]) :
          view' = [view EXCEPT ![c] = WithFields(@, Restrict(m.objs, unpacked))]
    BY <1>4 DEF HandleServerTick
  <2>2. Restrict(m.objs, unpacked) \in Tables(Patch) BY <1>2, RestrictTyped
  <2>3. WithFields(view[c], Restrict(m.objs, unpacked)) \in View BY <1>1, <2>2, ReplicaTyped
  <2>4. deltaTick' = [deltaTick EXCEPT ![c] = m.tick] BY <1>4 DEF HandleServerTick
  <2>5. QED BY <1>1, <1>2, <2>1, <2>3, <2>4 DEF TypeOK, HandleServerTick, Receive, server
<1>5. QED BY <1>3, <1>4

LEMMA SendTickTyped ==
  ASSUME TypeOK, NEW c \in Clients, SendTick(c)
  PROVE  TypeOK'
<1>1. toServer' \in [Clients -> Seq(Nat \cup {-1})]
  <2>1. /\ toServer \in [Clients -> Seq(Nat \cup {-1})] /\ deltaTick[c] \in Nat \cup {-1}
    BY DEF TypeOK
  <2>2. Append(toServer[c], deltaTick[c]) \in Seq(Nat \cup {-1}) BY <2>1
  <2>3. \/ toServer' = [toServer EXCEPT ![c] = Append(@, deltaTick[c])]
        \/ toServer' = toServer
    BY DEF SendTick
  <2>4. QED BY <2>1, <2>2, <2>3
<1>2. UNCHANGED <<server, client, toClient>> BY DEF SendTick
<1>3. QED BY <1>1, <1>2 DEF TypeOK, server, client

LEMMA ClientDisconnectTyped ==
  ASSUME TypeOK, NEW c \in Clients, ClientDisconnect(c)
  PROVE  TypeOK'
<1>1. NoTable \in View BY NoTableTyped DEF View
<1>2. QED BY <1>1 DEF TypeOK, ClientDisconnect, server

LEMMA ConnectTyped ==
  ASSUME TypeOK, NEW c \in Clients, Connect(c)
  PROVE  TypeOK'
  BY DEF TypeOK, Connect

LEMMA NextTyped == TypeOK /\ [Next]_vars => TypeOK'
<1>. SUFFICES ASSUME TypeOK, [Next]_vars PROVE TypeOK' OBVIOUS
<1>1. CASE UNCHANGED vars BY <1>1 DEF TypeOK, vars, server, client
<1>2. CASE ServerStep
  BY <1>2, GenerateObjectTyped, DeleteObjectTyped, SetFieldTyped, ChangeInterestTyped,
     TakeTickSnapshotTyped, ServerReceiveTickTyped, ServerDisconnectTyped DEF ServerStep
<1>3. CASE ClientStep
  BY <1>3, HandleGenerateObjectTyped, HandleDeleteObjectTyped, HandleServerTickTyped,
     SendTickTyped, ClientDisconnectTyped, ConnectTyped DEF ClientStep
<1>4. QED BY <1>1, <1>2, <1>3 DEF Next

(* Type correctness: every table, queue and record holds what the code     *)
(* puts there, and no client has more than MaxFrames frames on record.     *)
THEOREM TypeCorrect == Spec => []TypeOK
<1>1. QED BY InitTyped, NextTyped, PTL DEF Spec

-------------------------------------------------------------------------------
(* Bookkeeping: packets and ownership *)

LEMMA BaselinesOld ==
  ASSUME TypeOK, PacksOld, NEW objects \in Tables(Object), DOMAIN live \subseteq DOMAIN objects,
         NEW ids \in SUBSET DOMAIN objects
  PROVE  \A d \in DOMAIN Baselines(packs, objects, ids) :
           /\ d \in DOMAIN objects
           /\ \A f \in Fields : Baselines(packs, objects, ids)[d].chg[f] < tick
<1>. DEFINE pk == Baselines(packs, objects, ids)
<1>1. /\ DOMAIN pk = DOMAIN packs \cup ids
      /\ \A d \in DOMAIN packs : pk[d] = packs[d]
      /\ \A d \in ids \ DOMAIN packs : \A f \in Fields : pk[d].chg[f] = -1
  <2>1. packs \in Tables(PackedObject(-1 .. MaxTick)) BY DEF TypeOK
  <2>2. ASSUME NEW d \in ids \ DOMAIN packs, NEW f \in Fields PROVE pk[d].chg[f] = -1
    <3>1. pk[d] = NewPackedObject(objects[d].state, -1) BY BaselinesNew
    <3>2. QED BY <3>1, NewPackedObjectTick
  <2>3. DOMAIN pk = DOMAIN packs \cup ids /\ \A d \in DOMAIN packs : pk[d] = packs[d]
    BY <2>1, BaselinesTyped
  <2>4. QED BY <2>2, <2>3
<1>2. tick \in Nat /\ -1 < tick BY DEF TypeOK
<1>. HIDE DEF pk
<1>3. QED BY <1>1, <1>2 DEF PacksOld, pk

LEMMA RepackOld ==
  ASSUME NEW prev, NEW s, NEW t \in Int, NEW f \in Fields,
         prev.chg[f] \in Int, prev.chg[f] < t
  PROVE  Repack(prev, s, t).chg[f] <= t
<1>1. CASE CalcDelta(prev.val, s) = {}
  <2>1. Repack(prev, s, t) = prev BY <1>1 DEF Repack
  <2>2. QED BY <2>1
<1>2. CASE CalcDelta(prev.val, s) # {}
  <2>1. Repack(prev, s, t).chg = SetChangeTick(prev.chg, CalcDelta(prev.val, s), t)
    BY <1>2 DEF Repack
  <2>2. SetChangeTick(prev.chg, CalcDelta(prev.val, s), t)[f] \in {t, prev.chg[f]}
    BY DEF SetChangeTick
  <2>3. QED BY <2>1, <2>2
<1>3. QED BY <1>1, <1>2

LEMMA PacksOldStep == TypeOK /\ PacksOld /\ [Next]_vars => PacksOld'
<1>. SUFFICES ASSUME TypeOK, PacksOld, [Next]_vars PROVE PacksOld' OBVIOUS
<1>1. ASSUME NEW d \in DoIds, NEW z \in Zones, NEW s \in State, NEW o \in svUp \cup {NoClient},
             GenerateObject(d, z, s, o)
      PROVE  PacksOld'
  <2>. DEFINE objects == WithObject(d, z, s, o)
  <2>1. PICK ids \in SUBSET DOMAIN objects : packs' = Baselines(packs, objects, ids)
    <3>. DEFINE told == {c \in svUp : z \in currentZones[c]} \cup ({o} \ {NoClient})
                zones == [c \in Clients |-> IF c = o THEN NewZones(objects, c, explicitZones[c])
                                            ELSE currentZones[c]]
                opened == IF o = NoClient THEN {} ELSE Opened(objects, o, zones[o])
                ids == opened \cup (IF told = {} THEN {} ELSE {d})
    <3>1. packs' = Baselines(packs, objects, ids) BY <1>1 DEF GenerateObject
    <3>2. ids \in SUBSET DOMAIN objects BY DEF Opened, Visible, WithObject
    <3>3. QED BY <3>1, <3>2
  <2>2. live' = objects /\ tick' = tick BY <1>1 DEF GenerateObject
  <2>3. TypeOK' BY <1>1, GenerateObjectTyped
  <2>4. objects \in Tables(Object) BY <2>2, <2>3 DEF TypeOK
  <2>5. \A i \in DOMAIN packs' : i \in DOMAIN objects /\ \A f \in Fields : packs'[i].chg[f] < tick
    BY <2>1, <2>4, BaselinesOld DEF WithObject
  <2>6. QED BY <2>2, <2>5 DEF PacksOld
<1>2. ASSUME NEW d \in DoIds, DeleteObject(d) PROVE PacksOld'
  BY <1>2 DEF DeleteObject, PacksOld, Restrict
<1>3. ASSUME NEW d \in DoIds, NEW f \in Fields, NEW v \in Values, SetField(d, f, v) PROVE PacksOld'
  BY <1>3 DEF SetField, PacksOld
<1>4. ASSUME NEW c \in Clients, NEW explicit \in SUBSET Zones, ChangeInterest(c, explicit)
      PROVE  PacksOld'
  <2>. DEFINE ids == Opened(live, c, NewZones(live, c, explicit))
  <2>1. live \in Tables(Object) /\ ids \in SUBSET DOMAIN live BY OpenedTyped DEF TypeOK
  <2>2. packs' = Baselines(packs, live, ids) /\ UNCHANGED <<live, tick>>
    BY <1>4 DEF ChangeInterest
  <2>. HIDE DEF ids
  <2>3. QED BY <2>1, <2>2, BaselinesOld DEF PacksOld
<1>5. ASSUME NEW due \in SUBSET Clients, TakeTickSnapshot(due) PROVE PacksOld'
  <2>. DEFINE ids == Visible(live, UNION {currentZones[c] : c \in due})
  <2>1. packs' = Repacked(ids) /\ live' = live /\ tick' = tick + 1
    BY <1>5 DEF TakeTickSnapshot
  <2>2. ids \in SUBSET DOMAIN live BY DEF Visible
  <2>3. tick \in Int BY DEF TypeOK
  <2>4. \A d \in DOMAIN packs, f \in Fields : packs[d].chg[f] \in Int /\ packs[d].chg[f] < tick
    <3>1. packs \in Tables(PackedObject(-1 .. MaxTick)) BY DEF TypeOK
    <3>2. \A d \in DOMAIN packs, f \in Fields : packs[d].chg[f] \in -1 .. MaxTick
      BY <3>1, PackFields
    <3>3. QED BY <3>2, BoundsAssumption DEF PacksOld
  <2>5. ASSUME NEW d \in DOMAIN Repacked(ids), NEW f \in Fields
        PROVE  d \in DOMAIN live /\ Repacked(ids)[d].chg[f] <= tick
    <3>1. CASE d \in ids /\ d \in DOMAIN packs
      <4>1. Repacked(ids)[d] = Repack(packs[d], live[d].state, tick)
        BY <3>1 DEF Repacked, PackObjectInSnapshot
      <4>2. packs[d] \in PackedObject(-1 .. MaxTick) /\ live[d].state \in State
        <5>1. packs \in Tables(PackedObject(-1 .. MaxTick)) /\ live \in Tables(Object)
          BY DEF TypeOK
        <5>2. QED BY <2>2, <3>1, <5>1, PackFields, ObjectFields
      <4>3. packs[d].chg[f] \in Int /\ packs[d].chg[f] < tick BY <2>4, <3>1
      <4>4. Repack(packs[d], live[d].state, tick).chg[f] <= tick BY <2>3, <4>3, RepackOld
      <4>5. QED BY <2>2, <3>1, <4>1, <4>4
    <3>2. CASE d \in ids /\ d \notin DOMAIN packs
      <4>1. Repacked(ids)[d] = NewPackedObject(live[d].state, tick)
        BY <3>2 DEF Repacked, PackObjectInSnapshot
      <4>2. Repacked(ids)[d].chg[f] = tick BY <4>1, NewPackedObjectTick
      <4>3. QED BY <2>2, <2>3, <3>2, <4>2
    <3>3. CASE d \notin ids
      <4>1. d \in DOMAIN packs /\ Repacked(ids)[d] = packs[d] BY <3>3 DEF Repacked
      <4>2. QED BY <2>3, <2>4, <4>1 DEF PacksOld
    <3>4. QED BY <3>1, <3>2, <3>3
  <2>6. ASSUME NEW d \in DOMAIN Repacked(ids) PROVE d \in DOMAIN live
    BY <2>2 DEF Repacked, PacksOld
  <2>7. \A d \in DOMAIN Repacked(ids), f \in Fields : Repacked(ids)[d].chg[f] < tick + 1
    <3>1. Repacked(ids) \in Tables(PackedObject(-1 .. MaxTick))
      BY <1>5, <2>2, RepackedTyped DEF TakeTickSnapshot
    <3>2. \A d \in DOMAIN Repacked(ids), f \in Fields : Repacked(ids)[d].chg[f] \in -1 .. MaxTick
      BY <3>1, PackFields
    <3>3. QED BY <2>3, <2>5, <3>2, BoundsAssumption
  <2>8. QED BY <2>1, <2>6, <2>7 DEF PacksOld
<1>6. ASSUME NEW c \in Clients, ServerDisconnect(c) PROVE PacksOld'
  BY <1>6 DEF ServerDisconnect, PacksOld, Restrict
<1>7. CASE UNCHANGED <<live, packs, tick>> BY <1>7 DEF PacksOld
<1>8. ClientStep \/ UNCHANGED vars \/ (\E c \in Clients : ServerReceiveTick(c))
      => UNCHANGED <<live, packs, tick>>
  BY DEF ClientStep, HandleGenerateObject, HandleDeleteObject, HandleServerTick, Receive, SendTick,
         ClientDisconnect, Connect, ServerReceiveTick, vars, server
<1>9. QED BY <1>1, <1>2, <1>3, <1>4, <1>5, <1>6, <1>7, <1>8 DEF Next, ServerStep

(* The actions that leave objects, sessions and interests alone.           *)
LEMMA ObjectsUnchanged ==
  ASSUME [Next]_vars,
         \A d \in DoIds, z \in Zones, s \in State, o \in svUp \cup {NoClient} :
           ~ GenerateObject(d, z, s, o),
         \A d \in DoIds : ~ DeleteObject(d),
         \A d \in DoIds, f \in Fields, v \in Values : ~ SetField(d, f, v),
         \A c \in Clients, explicit \in SUBSET Zones : ~ ChangeInterest(c, explicit),
         \A c \in Clients : ~ ServerDisconnect(c),
         \A c \in Clients : ~ Connect(c)
  PROVE  UNCHANGED <<live, svUp, currentZones, explicitZones>>
  BY DEF Next, ServerStep, ClientStep, TakeTickSnapshot, ServerReceiveTick, HandleGenerateObject,
         HandleDeleteObject, HandleServerTick, Receive, SendTick, ClientDisconnect, vars, server

LEMMA OwnersPresentStep == TypeOK /\ OwnersPresent /\ [Next]_vars => OwnersPresent'
<1>. SUFFICES ASSUME TypeOK, OwnersPresent, [Next]_vars PROVE OwnersPresent' OBVIOUS
<1>1. ASSUME NEW d \in DoIds, NEW z \in Zones, NEW s \in State, NEW o \in svUp \cup {NoClient},
             GenerateObject(d, z, s, o)
      PROVE  OwnersPresent'
  BY <1>1 DEF GenerateObject, WithObject, OwnersPresent
<1>2. ASSUME NEW d \in DoIds, DeleteObject(d) PROVE OwnersPresent'
  BY <1>2 DEF DeleteObject, OwnersPresent, Restrict
<1>3. ASSUME NEW d \in DoIds, NEW f \in Fields, NEW v \in Values, SetField(d, f, v)
      PROVE  OwnersPresent'
  <2>1. \A i \in DOMAIN live : live[i] \in Object BY ObjectFields DEF TypeOK
  <2>2. DOMAIN live' = DOMAIN live /\ \A i \in DOMAIN live : live'[i].owner = live[i].owner
    BY <1>3, <2>1 DEF SetField, Object
  <2>3. svUp' = svUp BY <1>3 DEF SetField
  <2>4. QED BY <2>2, <2>3 DEF OwnersPresent
<1>4. ASSUME NEW c \in Clients, NEW explicit \in SUBSET Zones, ChangeInterest(c, explicit)
      PROVE  OwnersPresent'
  BY <1>4 DEF ChangeInterest, OwnersPresent
<1>5. ASSUME NEW c \in Clients, ServerDisconnect(c) PROVE OwnersPresent'
  BY <1>5 DEF ServerDisconnect, OwnersPresent, Restrict, Owned
<1>6. ASSUME NEW c \in Clients, Connect(c) PROVE OwnersPresent'
  BY <1>6 DEF Connect, OwnersPresent
<1>7. CASE UNCHANGED <<live, svUp, currentZones, explicitZones>> BY <1>7 DEF OwnersPresent
<1>8. QED BY <1>1, <1>2, <1>3, <1>4, <1>5, <1>6, <1>7, ObjectsUnchanged

LEMMA OwnedZonesOpenStep ==
  TypeOK /\ OwnersPresent /\ OwnedZonesOpen /\ [Next]_vars => OwnedZonesOpen'
<1>. SUFFICES ASSUME TypeOK, OwnersPresent, OwnedZonesOpen, [Next]_vars,
                     NEW c \in svUp'
              PROVE  OwnedZones(live', c) \subseteq currentZones'[c]
  BY DEF OwnedZonesOpen
<1>0. c \in Clients /\ c # NoClient
  <2>1. TypeOK' BY NextTyped
  <2>2. QED BY <2>1, NoClientAssumption DEF TypeOK
<1>a. c \in svUp => OwnedZones(live, c) \subseteq currentZones[c] BY DEF OwnedZonesOpen
<1>1. ASSUME NEW d \in DoIds, NEW z \in Zones, NEW s \in State, NEW o \in svUp \cup {NoClient},
             GenerateObject(d, z, s, o)
      PROVE  OwnedZones(live', c) \subseteq currentZones'[c]
  <2>1. live' = WithObject(d, z, s, o) /\ c \in svUp BY <1>1 DEF GenerateObject
  <2>2. CASE c = o
    <3>1. currentZones'[c] = NewZones(live', c, explicitZones[c])
      BY <1>0, <1>1, <2>2 DEF GenerateObject
    <3>2. QED BY <3>1 DEF NewZones
  <2>3. CASE c # o
    <3>1. currentZones'[c] = currentZones[c] BY <1>0, <1>1, <2>3 DEF GenerateObject
    <3>2. OwnedZones(live', c) \subseteq OwnedZones(live, c)
      BY <2>1, <2>3 DEF OwnedZones, Owned, WithObject
    <3>3. QED BY <1>a, <2>1, <3>1, <3>2
  <2>4. QED BY <2>2, <2>3
<1>2. ASSUME NEW d \in DoIds, DeleteObject(d)
      PROVE  OwnedZones(live', c) \subseteq currentZones'[c]
  <2>1. OwnedZones(live', c) \subseteq OwnedZones(live, c)
    BY <1>2 DEF DeleteObject, OwnedZones, Owned, Restrict
  <2>2. UNCHANGED <<svUp, currentZones>> BY <1>2 DEF DeleteObject
  <2>3. QED BY <1>a, <2>1, <2>2
<1>3. ASSUME NEW d \in DoIds, NEW f \in Fields, NEW v \in Values, SetField(d, f, v)
      PROVE  OwnedZones(live', c) \subseteq currentZones'[c]
  <2>1. \A i \in DOMAIN live : live[i] \in Object BY ObjectFields DEF TypeOK
  <2>2. DOMAIN live' = DOMAIN live
        /\ \A i \in DOMAIN live : live'[i].owner = live[i].owner /\ live'[i].zone = live[i].zone
    BY <1>3, <2>1 DEF SetField, Object
  <2>3. OwnedZones(live', c) \subseteq OwnedZones(live, c) BY <2>2 DEF OwnedZones, Owned
  <2>4. UNCHANGED <<svUp, currentZones>> BY <1>3 DEF SetField
  <2>5. QED BY <1>a, <2>3, <2>4
<1>4. ASSUME NEW i \in Clients, NEW explicit \in SUBSET Zones, ChangeInterest(i, explicit)
      PROVE  OwnedZones(live', c) \subseteq currentZones'[c]
  <2>1. UNCHANGED <<live, svUp>>
        /\ currentZones' = [currentZones EXCEPT ![i] = NewZones(live, i, explicit)]
    BY <1>4 DEF ChangeInterest
  <2>2. currentZones \in [Clients -> SUBSET Zones] BY DEF TypeOK
  <2>3. CASE c = i
    <3>1. currentZones'[c] = NewZones(live, c, explicit) BY <1>0, <2>1, <2>2, <2>3
    <3>2. QED BY <2>1, <3>1 DEF NewZones
  <2>4. CASE c # i
    <3>1. currentZones'[c] = currentZones[c] BY <1>0, <2>1, <2>2, <2>4
    <3>2. QED BY <1>a, <2>1, <3>1
  <2>5. QED BY <2>3, <2>4
<1>5. ASSUME NEW i \in Clients, ServerDisconnect(i)
      PROVE  OwnedZones(live', c) \subseteq currentZones'[c]
  <2>1. OwnedZones(live', c) \subseteq OwnedZones(live, c)
    BY <1>5 DEF ServerDisconnect, OwnedZones, Owned, Restrict
  <2>2. c \in svUp /\ c # i /\ currentZones'[c] = currentZones[c]
    BY <1>0, <1>5 DEF ServerDisconnect, TypeOK
  <2>3. QED BY <1>a, <2>1, <2>2
<1>6. ASSUME NEW i \in Clients, Connect(i)
      PROVE  OwnedZones(live', c) \subseteq currentZones'[c]
  <2>1. UNCHANGED <<live, currentZones>> /\ svUp' = svUp \cup {i} BY <1>6 DEF Connect
  <2>2. CASE c \in svUp BY <1>a, <2>1, <2>2
  <2>3. CASE c \notin svUp
    <3>1. Owned(live, c) = {} BY <1>0, <2>3 DEF Owned, OwnersPresent
    <3>2. OwnedZones(live, c) = {} BY <3>1 DEF OwnedZones
    <3>3. QED BY <2>1, <3>2
  <2>4. QED BY <2>2, <2>3
<1>7. CASE UNCHANGED <<live, svUp, currentZones, explicitZones>> BY <1>a, <1>7
<1>8. QED BY <1>1, <1>2, <1>3, <1>4, <1>5, <1>6, <1>7, ObjectsUnchanged

(* A client the server has no record of has no queue, frames or interests  *)
(* there, and a client that is not connected has an empty replica.         *)
LEMMA RecordsStep == TypeOK /\ Records /\ [Next]_vars => Records'
<1>. SUFFICES ASSUME TypeOK, Records, [Next]_vars, NEW c \in Clients
              PROVE  /\ c \notin svUp' => /\ frames'[c] = <<>> /\ acked'[c] = -1
                                          /\ toServer'[c] = <<>>
                                          /\ currentZones'[c] = {} /\ explicitZones'[c] = {}
                     /\ c \notin clUp' => toClient'[c] = <<>> /\ view'[c] = NoTable
  BY DEF Records
<1>. DEFINE Goal == /\ c \notin svUp' => /\ frames'[c] = <<>> /\ acked'[c] = -1
                                         /\ toServer'[c] = <<>>
                                         /\ currentZones'[c] = {} /\ explicitZones'[c] = {}
                    /\ c \notin clUp' => toClient'[c] = <<>> /\ view'[c] = NoTable
<1>0. /\ c \notin svUp => /\ frames[c] = <<>> /\ acked[c] = -1 /\ toServer[c] = <<>>
                          /\ currentZones[c] = {} /\ explicitZones[c] = {}
      /\ c \notin clUp => toClient[c] = <<>> /\ view[c] = NoTable
  BY DEF Records
<1>a. \A out : Send(out) /\ c \notin clUp => toClient'[c] = toClient[c] BY DEF Send, Deliverable
<1>1. ASSUME NEW d \in DoIds, NEW z \in Zones, NEW s \in State, NEW o \in svUp \cup {NoClient},
             GenerateObject(d, z, s, o)
      PROVE  Goal
  <2>1. c \notin svUp => c # o BY NoClientAssumption
  <2>2. c # o => currentZones'[c] = currentZones[c] BY <1>1 DEF GenerateObject
  <2>3. c \notin clUp => toClient'[c] = toClient[c] BY <1>1, <1>a DEF GenerateObject
  <2>4. UNCHANGED <<svUp, explicitZones, acked, frames, clUp, view, toServer>>
    BY <1>1 DEF GenerateObject, client
  <2>5. QED BY <1>0, <2>1, <2>2, <2>3, <2>4
<1>2. ASSUME NEW d \in DoIds, DeleteObject(d) PROVE Goal
  <2>1. c \notin clUp => toClient'[c] = toClient[c] BY <1>2, <1>a DEF DeleteObject
  <2>2. QED BY <1>0, <1>2, <2>1 DEF DeleteObject, client
<1>3. ASSUME NEW d \in DoIds, NEW f \in Fields, NEW v \in Values, SetField(d, f, v) PROVE Goal
  BY <1>0, <1>3 DEF SetField, client
<1>4. ASSUME NEW i \in Clients, NEW explicit \in SUBSET Zones, ChangeInterest(i, explicit)
      PROVE  Goal
  <2>1. c \notin clUp => toClient'[c] = toClient[c] BY <1>4, <1>a DEF ChangeInterest
  <2>2. UNCHANGED <<svUp, acked, frames, clUp, view, toServer>> /\ i \in svUp
    BY <1>4 DEF ChangeInterest, client
  <2>3. c # i => UNCHANGED <<currentZones[c], explicitZones[c]>> BY <1>4 DEF ChangeInterest, TypeOK
  <2>4. QED BY <1>0, <2>1, <2>2, <2>3
<1>5. ASSUME NEW due \in SUBSET Clients, TakeTickSnapshot(due) PROVE Goal
  <2>1. c \notin clUp => toClient'[c] = toClient[c] BY <1>5, <1>a DEF TakeTickSnapshot
  <2>2. c \notin due => frames'[c] = frames[c] BY <1>5 DEF TakeTickSnapshot, Recorded
  <2>3. UNCHANGED <<svUp, explicitZones, currentZones, acked, clUp, view, toServer>>
        /\ due \subseteq svUp
    BY <1>5 DEF TakeTickSnapshot, client
  <2>4. QED BY <1>0, <2>1, <2>2, <2>3
<1>6. ASSUME NEW i \in Clients, ServerReceiveTick(i) PROVE Goal
  BY <1>0, <1>6 DEF ServerReceiveTick, client, TypeOK
<1>7. ASSUME NEW i \in Clients, ServerDisconnect(i) PROVE Goal
  <2>1. c \notin clUp => toClient'[c] = toClient[c] BY <1>7, <1>a DEF ServerDisconnect
  <2>2. UNCHANGED <<clUp, view>> /\ svUp' = svUp \ {i} BY <1>7 DEF ServerDisconnect, client
  <2>3. CASE c = i BY <1>0, <1>7, <2>1, <2>2, <2>3 DEF ServerDisconnect, TypeOK
  <2>4. CASE c # i BY <1>0, <1>7, <2>1, <2>2, <2>4 DEF ServerDisconnect, TypeOK
  <2>5. QED BY <2>3, <2>4
<1>8. ASSUME NEW i \in Clients,
             HandleGenerateObject(i) \/ HandleDeleteObject(i) \/ HandleServerTick(i)
      PROVE  Goal
  <2>1. UNCHANGED server /\ UNCHANGED <<clUp, toServer>> /\ i \in clUp
        /\ toClient' = [toClient EXCEPT ![i] = Tail(@)]
    BY <1>8 DEF HandleGenerateObject, HandleDeleteObject, HandleServerTick, Receive
  <2>2. c # i => view'[c] = view[c]
    BY <1>8 DEF HandleGenerateObject, HandleDeleteObject, HandleServerTick, TypeOK
  <2>3. c # i => toClient'[c] = toClient[c] BY <2>1 DEF TypeOK
  <2>4. QED BY <1>0, <2>1, <2>2, <2>3 DEF server
<1>9. ASSUME NEW i \in Clients, SendTick(i) PROVE Goal
  <2>1. UNCHANGED <<server, client, toClient>> BY <1>9 DEF SendTick
  <2>2. c \notin svUp => toServer'[c] = toServer[c] BY <1>9 DEF SendTick, TypeOK
  <2>3. QED BY <1>0, <2>1, <2>2 DEF server, client
<1>10. ASSUME NEW i \in Clients, ClientDisconnect(i) PROVE Goal
  BY <1>0, <1>10 DEF ClientDisconnect, server, TypeOK
<1>11. ASSUME NEW i \in Clients, Connect(i) PROVE Goal
  BY <1>0, <1>11 DEF Connect
<1>12. CASE UNCHANGED vars BY <1>0, <1>12 DEF vars, server, client
<1>13. QED
  BY <1>1, <1>2, <1>3, <1>4, <1>5, <1>6, <1>7, <1>8, <1>9, <1>10, <1>11, <1>12
  DEF Next, ServerStep, ClientStep

-------------------------------------------------------------------------------
(* Ticks in flight *)

(* Either nothing is sent to c or one snapshot of the present tick is.     *)
LEMMA SnapshotSent ==
  ASSUME TypeOK, NEW due \in SUBSET Clients, TakeTickSnapshot(due), NEW c \in Clients
  PROVE  \/ toClient'[c] = toClient[c]
         \/ \E m \in Message : /\ m.kind = "tick" /\ m.tick = tick
                               /\ m.delta => acked[c] >= 0
                               /\ toClient'[c] = Append(toClient[c], m)
<1>. DEFINE pk == Repacked(Visible(live, UNION {currentZones[i] : i \in due}))
            fr == Recorded(due)
            m == FormatSnapshot(pk, fr[c], c)
            out == [i \in Clients |-> IF i \in due THEN <<FormatSnapshot(pk, fr[i], i)>> ELSE <<>>]
<1>1. Send(out) BY DEF TakeTickSnapshot
<1>2. toClient \in [Clients -> Seq(Message)] BY DEF TypeOK
<1>3. CASE c \notin Deliverable \/ c \notin due
  <2>1. toClient'[c] \in {toClient[c], toClient[c] \o <<>>} BY <1>1, <1>3 DEF Send
  <2>2. QED BY <1>2, <2>1
<1>4. CASE c \in Deliverable /\ c \in due
  <2>1. toClient'[c] = toClient[c] \o <<m>> BY <1>1, <1>4 DEF Send
  <2>2. m.kind = "tick" /\ m.tick = tick /\ (m.delta => acked[c] >= 0)
    BY DEF FormatSnapshot, Snapshot, HasClientFrame
  <2>3. toClient' \in [Clients -> Seq(Message)]
    <3>1. TypeOK' BY TakeTickSnapshotTyped
    <3>2. QED BY <3>1 DEF TypeOK
  <2>. HIDE DEF m
  <2>4. toClient[c] \in Seq(Message) /\ toClient'[c] \in Seq(Message) BY <1>2, <2>3
  <2>5. Len(toClient[c]) + 1 \in DOMAIN toClient'[c]
        /\ toClient'[c][Len(toClient[c]) + 1] = m
    BY <2>1, <2>4
  <2>6. m \in Message BY <2>4, <2>5
  <2>7. toClient'[c] = Append(toClient[c], m) BY <2>1, <2>4, <2>6
  <2>8. QED BY <2>2, <2>6, <2>7
<1>5. QED BY <1>3, <1>4

(* A client that takes a message from its queue.                           *)
LEMMA Received ==
  ASSUME TypeOK, NEW i \in Clients, NEW kind, Receive(i, kind)
  PROVE  /\ i \in clUp /\ toClient[i] # <<>> /\ UNCHANGED <<server, clUp, toServer>>
         /\ 1 \in DOMAIN toClient[i] /\ Head(toClient[i]) = toClient[i][1]
         /\ toClient'[i] = Tail(toClient[i])
         /\ \A j \in DOMAIN toClient'[i] : j + 1 \in DOMAIN toClient[i]
                                        /\ toClient'[i][j] = toClient[i][j+1]
         /\ \A c \in Clients \ {i} : toClient'[c] = toClient[c]
<1>1. toClient[i] \in Seq(Message) /\ toClient \in [Clients -> Seq(Message)] BY DEF TypeOK
<1>2. /\ toClient[i] # <<>> /\ toClient' = [toClient EXCEPT ![i] = Tail(@)]
      /\ UNCHANGED <<server, clUp, toServer>> /\ i \in clUp
  BY DEF Receive
<1>3. QED BY <1>1, <1>2

LEMMA ReferenceKnownStep == TypeOK /\ ReferenceKnown /\ [Next]_vars => ReferenceKnown'
<1>. SUFFICES ASSUME TypeOK, ReferenceKnown, [Next]_vars, NEW c \in Clients,
                     ~ (deltaTick'[c] >= 0)
              PROVE  /\ acked'[c] = -1
                     /\ \A i \in DOMAIN toServer'[c] : toServer'[c][i] = -1
                     /\ \A i \in DOMAIN toClient'[c] :
                          toClient'[c][i].kind = "tick" => ~ toClient'[c][i].delta
  BY DEF ReferenceKnown
<1>. DEFINE Goal == /\ acked'[c] = -1
                    /\ \A i \in DOMAIN toServer'[c] : toServer'[c][i] = -1
                    /\ \A i \in DOMAIN toClient'[c] :
                         toClient'[c][i].kind = "tick" => ~ toClient'[c][i].delta
            Before == /\ acked[c] = -1
                      /\ \A i \in DOMAIN toServer[c] : toServer[c][i] = -1
                      /\ \A i \in DOMAIN toClient[c] :
                           toClient[c][i].kind = "tick" => ~ toClient[c][i].delta
<1>0. deltaTick'[c] = deltaTick[c] => Before BY DEF ReferenceKnown
<1>a. /\ toClient[c] \in Seq(Message) /\ toServer[c] \in Seq(Nat \cup {-1})
      /\ deltaTick[c] \in Nat \cup {-1}
  BY DEF TypeOK
<1>1. ASSUME UNCHANGED <<deltaTick, acked, toServer>>, TicksKept(c) PROVE Goal
  BY <1>0, <1>1 DEF TicksKept
<1>2. ASSUME NEW d \in DoIds, NEW z \in Zones, NEW s \in State, NEW o \in svUp \cup {NoClient},
             GenerateObject(d, z, s, o)
      PROVE  Goal
  <2>1. UNCHANGED <<deltaTick, acked, toServer>> BY <1>2 DEF GenerateObject, client
  <2>2. QED BY <1>1, <1>2, <2>1, GenerateObjectTyped
<1>3. ASSUME NEW d \in DoIds, DeleteObject(d) PROVE Goal
  <2>1. UNCHANGED <<deltaTick, acked, toServer>> BY <1>3 DEF DeleteObject, client
  <2>2. QED BY <1>1, <1>3, <2>1, DeleteObjectTyped
<1>4. ASSUME NEW i \in Clients, NEW explicit \in SUBSET Zones, ChangeInterest(i, explicit)
      PROVE  Goal
  <2>1. UNCHANGED <<deltaTick, acked, toServer>> BY <1>4 DEF ChangeInterest, client
  <2>2. QED BY <1>1, <1>4, <2>1, ChangeInterestTyped
<1>5. ASSUME NEW i \in Clients, ServerDisconnect(i) PROVE Goal
  <2>1. TicksKept(c) BY <1>5, ServerDisconnectTyped
  <2>2. deltaTick' = deltaTick BY <1>5 DEF ServerDisconnect, client
  <2>3. acked'[c] \in {acked[c], -1} /\ toServer'[c] \in {toServer[c], <<>>}
    BY <1>5 DEF ServerDisconnect, TypeOK
  <2>4. QED BY <1>0, <2>1, <2>2, <2>3 DEF TicksKept
<1>6. ASSUME NEW due \in SUBSET Clients, TakeTickSnapshot(due) PROVE Goal
  <2>1. UNCHANGED <<deltaTick, acked, toServer>> BY <1>6 DEF TakeTickSnapshot, client
  <2>2. \/ toClient'[c] = toClient[c]
        \/ \E m \in Message : /\ m.kind = "tick" /\ m.tick = tick
                              /\ m.delta => acked[c] >= 0
                              /\ toClient'[c] = Append(toClient[c], m)
    BY <1>6, SnapshotSent
  <2>3. CASE toClient'[c] = toClient[c] BY <1>0, <2>1, <2>3
  <2>4. CASE \E m \in Message : /\ m.kind = "tick" /\ m.tick = tick
                                /\ m.delta => acked[c] >= 0
                                /\ toClient'[c] = Append(toClient[c], m)
    <3>1. PICK m \in Message : /\ m.kind = "tick" /\ m.tick = tick
                               /\ m.delta => acked[c] >= 0
                               /\ toClient'[c] = Append(toClient[c], m)
      BY <2>4
    <3>2. ~ m.delta BY <1>0, <2>1, <3>1
    <3>3. QED BY <1>0, <1>a, <2>1, <3>1, <3>2
  <2>5. QED BY <2>2, <2>3, <2>4
<1>7. ASSUME NEW i \in Clients, ServerReceiveTick(i) PROVE Goal
  <2>1. UNCHANGED <<deltaTick, toClient>> BY <1>7 DEF ServerReceiveTick, client
  <2>2. CASE c = i
    <3>1. acked'[c] = Head(toServer[c]) /\ toServer'[c] = Tail(toServer[c])
          /\ toServer[c] # <<>>
      BY <1>7, <2>2 DEF ServerReceiveTick, TypeOK
    <3>2. QED BY <1>0, <1>a, <2>1, <3>1
  <2>3. CASE c # i
    <3>1. UNCHANGED <<acked[c], toServer[c]>> BY <1>7, <2>3 DEF ServerReceiveTick, TypeOK
    <3>2. QED BY <1>0, <2>1, <3>1
  <2>4. QED BY <2>2, <2>3
<1>8. ASSUME NEW i \in Clients, NEW kind, Receive(i, kind), deltaTick'[c] = deltaTick[c]
      PROVE  Goal
  <2>1. UNCHANGED <<acked, toServer>> BY <1>8, Received DEF server
  <2>2. CASE c = i
    <3>1. \A j \in DOMAIN toClient'[c] : j + 1 \in DOMAIN toClient[c]
                                       /\ toClient'[c][j] = toClient[c][j+1]
      BY <1>8, <2>2, Received
    <3>2. QED BY <1>0, <1>8, <2>1, <3>1
  <2>3. CASE c # i
    <3>1. toClient'[c] = toClient[c] BY <1>8, <2>3, Received
    <3>2. QED BY <1>0, <1>8, <2>1, <3>1
  <2>4. QED BY <2>2, <2>3
<1>9. ASSUME NEW i \in Clients, HandleServerTick(i) PROVE Goal
  <2>1. Head(toClient[i]).tick \in Nat BY <1>9, ReceiveTyped, MessageKinds DEF HandleServerTick
  <2>2. deltaTick'[c] = deltaTick[c] BY <1>9, <2>1 DEF HandleServerTick, TypeOK
  <2>3. QED BY <1>8, <1>9, <2>2 DEF HandleServerTick
<1>10. ASSUME NEW i \in Clients, SendTick(i) PROVE Goal
  <2>1. UNCHANGED <<acked, deltaTick, toClient>> BY <1>10 DEF SendTick, server, client
  <2>2. toServer'[c] \in {toServer[c], Append(toServer[c], deltaTick[c])}
    BY <1>10 DEF SendTick, TypeOK
  <2>3. deltaTick[c] = -1 BY <1>a, <2>1
  <2>4. \A j \in DOMAIN toServer'[c] : toServer'[c][j] = -1
    <3>1. toServer[c] \in Seq(Nat \cup {-1}) /\ \A j \in DOMAIN toServer[c] : toServer[c][j] = -1
      BY <1>0, <1>a, <2>1
    <3>2. QED BY <2>2, <2>3, <3>1
  <2>5. QED BY <1>0, <2>1, <2>4
<1>11. ASSUME NEW i \in Clients, ClientDisconnect(i) PROVE Goal
  <2>1. UNCHANGED <<acked, deltaTick, toServer>> BY <1>11 DEF ClientDisconnect, server
  <2>2. toClient'[c] \in {toClient[c], <<>>} BY <1>11 DEF ClientDisconnect, TypeOK
  <2>3. QED BY <1>0, <2>1, <2>2
<1>12. CASE UNCHANGED <<acked, deltaTick, toServer, toClient>> BY <1>0, <1>12
<1>13. (\E d \in DoIds, f \in Fields, v \in Values : SetField(d, f, v))
       \/ (\E i \in Clients : Connect(i)) \/ UNCHANGED vars
       => UNCHANGED <<acked, deltaTick, toServer, toClient>>
  BY DEF SetField, Connect, vars, server, client
<1>14. ASSUME NEW i \in Clients, HandleGenerateObject(i) \/ HandleDeleteObject(i) PROVE Goal
  BY <1>8, <1>14 DEF HandleGenerateObject, HandleDeleteObject
<1>15. QED
  BY <1>2, <1>3, <1>4, <1>5, <1>6, <1>7, <1>9, <1>10, <1>11, <1>12, <1>13, <1>14
  DEF Next, ServerStep, ClientStep
(* Recording the present tick keeps the frames in order.                   *)
LEMMA AddClientFrameOrdered ==
  ASSUME NEW fr \in Seq(Nat), Len(fr) <= MaxFrames, NEW t \in Nat,
         \A i \in DOMAIN fr : fr[i] < t /\ \A j \in 1 .. i - 1 : fr[j] < fr[i]
  PROVE  \A i \in DOMAIN AddClientFrame(fr, t) :
           /\ AddClientFrame(fr, t)[i] < t + 1
           /\ \A j \in 1 .. i - 1 : AddClientFrame(fr, t)[j] < AddClientFrame(fr, t)[i]
<1>. DEFINE longer == Append(fr, t)
<1>1. longer \in Seq(Nat) /\ Len(longer) = Len(fr) + 1 /\ Len(fr) \in Nat OBVIOUS
<1>2. \A i \in DOMAIN longer : longer[i] = IF i = Len(fr) + 1 THEN t ELSE fr[i] OBVIOUS
<1>3. \A i \in DOMAIN longer : longer[i] < t + 1 /\ \A j \in 1 .. i - 1 : longer[j] < longer[i]
  BY <1>1, <1>2
<1>. HIDE DEF longer
<1>4. CASE Len(longer) > MaxFrames
  <2>0. longer # <<>> /\ Tail(longer) \in Seq(Nat) BY <1>1
  <2>1. AddClientFrame(fr, t) = Tail(longer) BY <1>4 DEF AddClientFrame, longer
  <2>2. \A i \in DOMAIN Tail(longer) : i + 1 \in DOMAIN longer /\ Tail(longer)[i] = longer[i+1]
    BY <1>1, <2>0, SMTT(40)
  <2>3. DOMAIN Tail(longer) = 1 .. Len(Tail(longer)) /\ Len(Tail(longer)) \in Nat BY <2>0
  <2>4. ASSUME NEW i \in DOMAIN Tail(longer), NEW j \in 1 .. i - 1
        PROVE  Tail(longer)[j] < Tail(longer)[i]
    <3>1. j \in DOMAIN Tail(longer) /\ j + 1 \in 1 .. (i + 1) - 1 BY <2>3
    <3>2. QED BY <1>3, <2>2, <3>1
  <2>5. QED BY <1>3, <2>1, <2>2, <2>4
<1>5. CASE ~(Len(longer) > MaxFrames) BY <1>3, <1>5 DEF AddClientFrame, longer
<1>6. QED BY <1>4, <1>5

LEMMA PipelineOrderedStep == TypeOK /\ PipelineOrdered /\ [Next]_vars => PipelineOrdered'
<1>. SUFFICES ASSUME TypeOK, PipelineOrdered, [Next]_vars, NEW c \in Clients
              PROVE  /\ acked'[c] <= deltaTick'[c] /\ deltaTick'[c] < tick'
                     /\ \A i \in DOMAIN toServer'[c] :
                          /\ acked'[c] <= toServer'[c][i] /\ toServer'[c][i] <= deltaTick'[c]
                          /\ \A j \in 1 .. i : toServer'[c][j] <= toServer'[c][i]
                     /\ \A i \in DOMAIN toClient'[c] : toClient'[c][i].kind = "tick" =>
                          /\ deltaTick'[c] < toClient'[c][i].tick /\ toClient'[c][i].tick < tick'
                          /\ \A j \in 1 .. i - 1 : toClient'[c][j].kind = "tick" =>
                               toClient'[c][j].tick < toClient'[c][i].tick
                     /\ \A i \in DOMAIN frames'[c] :
                          /\ frames'[c][i] < tick'
                          /\ \A j \in 1 .. i - 1 : frames'[c][j] < frames'[c][i]
  BY DEF PipelineOrdered
<1>. DEFINE Reference == acked'[c] <= deltaTick'[c] /\ deltaTick'[c] < tick'
            Acks == \A i \in DOMAIN toServer'[c] :
                      /\ acked'[c] <= toServer'[c][i] /\ toServer'[c][i] <= deltaTick'[c]
                      /\ \A j \in 1 .. i : toServer'[c][j] <= toServer'[c][i]
            Ticks == \A i \in DOMAIN toClient'[c] : toClient'[c][i].kind = "tick" =>
                       /\ deltaTick'[c] < toClient'[c][i].tick /\ toClient'[c][i].tick < tick'
                       /\ \A j \in 1 .. i - 1 : toClient'[c][j].kind = "tick" =>
                            toClient'[c][j].tick < toClient'[c][i].tick
            Frames == \A i \in DOMAIN frames'[c] :
                        /\ frames'[c][i] < tick'
                        /\ \A j \in 1 .. i - 1 : frames'[c][j] < frames'[c][i]
            Goal == Reference /\ Acks /\ Ticks /\ Frames
<1>a. /\ acked[c] <= deltaTick[c] /\ deltaTick[c] < tick
      /\ \A i \in DOMAIN toServer[c] :
           /\ acked[c] <= toServer[c][i] /\ toServer[c][i] <= deltaTick[c]
           /\ \A j \in 1 .. i : toServer[c][j] <= toServer[c][i]
  BY DEF PipelineOrdered
<1>b. \A i \in DOMAIN toClient[c] : toClient[c][i].kind = "tick" =>
        /\ deltaTick[c] < toClient[c][i].tick /\ toClient[c][i].tick < tick
        /\ \A j \in 1 .. i - 1 : toClient[c][j].kind = "tick" =>
             toClient[c][j].tick < toClient[c][i].tick
  BY DEF PipelineOrdered
<1>c. \A i \in DOMAIN frames[c] :
        /\ frames[c][i] < tick
        /\ \A j \in 1 .. i - 1 : frames[c][j] < frames[c][i]
  BY DEF PipelineOrdered
<1>d. /\ toClient[c] \in Seq(Message) /\ toServer[c] \in Seq(Nat \cup {-1})
      /\ frames[c] \in Seq(Nat) /\ Len(frames[c]) <= MaxFrames
      /\ deltaTick[c] \in Int /\ acked[c] \in Int /\ -1 <= deltaTick[c]
      /\ tick \in Nat /\ tick \in Int
  BY DEF TypeOK
<1>1. ASSUME UNCHANGED <<tick, deltaTick, acked, toServer, frames>>, TicksKept(c) PROVE Goal
  <2>1. toClient'[c] \in Seq(Message)
    <3>1. TypeOK' BY NextTyped
    <3>2. QED BY <3>1 DEF TypeOK
  <2>2. ASSUME NEW i \in DOMAIN toClient'[c], NEW j \in 1 .. i - 1 PROVE j \in DOMAIN toClient'[c]
    BY <2>1
  <2>3. Ticks BY <1>b, <1>1, <2>2 DEF TicksKept
  <2>4. QED BY <1>a, <1>c, <1>1, <2>3
<1>2. ASSUME NEW d \in DoIds, NEW z \in Zones, NEW s \in State, NEW o \in svUp \cup {NoClient},
             GenerateObject(d, z, s, o)
      PROVE  Goal
  <2>1. UNCHANGED <<tick, deltaTick, acked, toServer, frames>> BY <1>2 DEF GenerateObject, client
  <2>2. TicksKept(c) BY <1>2, GenerateObjectTyped
  <2>3. QED BY <1>1, <2>1, <2>2
<1>3. ASSUME NEW d \in DoIds, DeleteObject(d) PROVE Goal
  <2>1. UNCHANGED <<tick, deltaTick, acked, toServer, frames>> BY <1>3 DEF DeleteObject, client
  <2>2. TicksKept(c) BY <1>3, DeleteObjectTyped
  <2>3. QED BY <1>1, <2>1, <2>2
<1>4. ASSUME NEW i \in Clients, NEW explicit \in SUBSET Zones, ChangeInterest(i, explicit)
      PROVE  Goal
  <2>1. UNCHANGED <<tick, deltaTick, acked, toServer, frames>> BY <1>4 DEF ChangeInterest, client
  <2>2. TicksKept(c) BY <1>4, ChangeInterestTyped
  <2>3. QED BY <1>1, <2>1, <2>2
<1>5. ASSUME NEW i \in Clients, ServerDisconnect(i) PROVE Goal
  <2>1. TicksKept(c) BY <1>5, ServerDisconnectTyped
  <2>2. UNCHANGED <<tick, deltaTick>> BY <1>5 DEF ServerDisconnect, client
  <2>3. CASE c = i
    <3>1. acked'[c] = -1 /\ toServer'[c] = <<>> /\ frames'[c] = <<>>
      BY <1>5, <2>3 DEF ServerDisconnect, TypeOK
    <3>2. toClient'[c] \in Seq(Message)
      <4>1. TypeOK' BY NextTyped
      <4>2. QED BY <4>1 DEF TypeOK
    <3>3. ASSUME NEW k \in DOMAIN toClient'[c], NEW j \in 1 .. k - 1
          PROVE  j \in DOMAIN toClient'[c]
      BY <3>2
    <3>4. Ticks BY <1>b, <2>1, <2>2, <3>3 DEF TicksKept
    <3>5. QED BY <1>a, <1>d, <2>2, <3>1, <3>4
  <2>4. CASE c # i
    <3>1. UNCHANGED <<acked[c], toServer[c], frames[c]>>
      BY <1>5, <2>4 DEF ServerDisconnect, TypeOK
    <3>2. toClient'[c] \in Seq(Message)
      <4>1. TypeOK' BY NextTyped
      <4>2. QED BY <4>1 DEF TypeOK
    <3>3. ASSUME NEW k \in DOMAIN toClient'[c], NEW j \in 1 .. k - 1
          PROVE  j \in DOMAIN toClient'[c]
      BY <3>2
    <3>4. Ticks BY <1>b, <2>1, <2>2, <3>3 DEF TicksKept
    <3>5. QED BY <1>a, <1>c, <2>2, <3>1, <3>4
  <2>5. QED BY <2>3, <2>4
<1>6. ASSUME NEW due \in SUBSET Clients, TakeTickSnapshot(due) PROVE Goal
  <2>1. UNCHANGED <<deltaTick, acked, toServer>> /\ tick' = tick + 1 /\ frames' = Recorded(due)
    BY <1>6 DEF TakeTickSnapshot, client
  <2>2. Reference /\ Acks BY <1>a, <1>d, <2>1
  <2>3. Frames
    <3>1. frames'[c] \in {frames[c], AddClientFrame(frames[c], tick)} BY <2>1 DEF Recorded
    <3>2. CASE frames'[c] = frames[c]
      <4>1. \A i \in DOMAIN frames[c] : frames[c][i] \in Int BY <1>d
      <4>2. QED BY <1>c, <1>d, <2>1, <3>2, <4>1
    <3>3. CASE frames'[c] = AddClientFrame(frames[c], tick)
      BY <1>c, <1>d, <2>1, <3>3, AddClientFrameOrdered
    <3>4. QED BY <3>1, <3>2, <3>3
  <2>4. Ticks
    <3>1. \/ toClient'[c] = toClient[c]
          \/ \E m \in Message : /\ m.kind = "tick" /\ m.tick = tick
                                /\ m.delta => acked[c] >= 0
                                /\ toClient'[c] = Append(toClient[c], m)
      BY <1>6, SnapshotSent
    <3>2. \A i \in DOMAIN toClient[c] : toClient[c][i].kind = "tick" => toClient[c][i].tick \in Int
      BY <1>d, MessageKinds
    <3>3. CASE toClient'[c] = toClient[c] BY <1>b, <1>d, <2>1, <3>2, <3>3
    <3>4. CASE \E m \in Message : /\ m.kind = "tick" /\ m.tick = tick
                                  /\ m.delta => acked[c] >= 0
                                  /\ toClient'[c] = Append(toClient[c], m)
      <4>1. PICK m \in Message : /\ m.kind = "tick" /\ m.tick = tick
                                 /\ m.delta => acked[c] >= 0
                                 /\ toClient'[c] = Append(toClient[c], m)
        BY <3>4
      <4>2. /\ DOMAIN toClient'[c] = 1 .. Len(toClient[c]) + 1
            /\ Len(toClient[c]) \in Nat
            /\ DOMAIN toClient[c] = 1 .. Len(toClient[c])
            /\ \A i \in 1 .. Len(toClient[c]) : toClient'[c][i] = toClient[c][i]
            /\ toClient'[c][Len(toClient[c]) + 1] = m
        BY <1>d, <4>1
      <4>3. ASSUME NEW i \in 1 .. Len(toClient[c]), toClient'[c][i].kind = "tick"
            PROVE  /\ deltaTick'[c] < toClient'[c][i].tick /\ toClient'[c][i].tick < tick'
                   /\ \A j \in 1 .. i - 1 : toClient'[c][j].kind = "tick" =>
                        toClient'[c][j].tick < toClient'[c][i].tick
        <5>1. i \in DOMAIN toClient[c] /\ toClient'[c][i] = toClient[c][i]
              /\ \A j \in 1 .. i - 1 : toClient'[c][j] = toClient[c][j]
          BY <4>2
        <5>2. toClient[c][i].tick \in Int /\ toClient[c][i].tick < tick
          BY <1>b, <3>2, <4>3, <5>1
        <5>3. toClient[c][i].tick < tick' BY <1>d, <2>1, <5>2
        <5>4. QED BY <1>b, <2>1, <4>3, <5>1, <5>3
      <4>4. deltaTick'[c] < m.tick /\ m.tick < tick' BY <1>a, <1>d, <2>1, <4>1
      <4>5. \A j \in 1 .. Len(toClient[c]) : toClient'[c][j].kind = "tick" =>
              toClient'[c][j].tick < m.tick
        BY <1>b, <4>1, <4>2
      <4>6. ASSUME NEW i \in DOMAIN toClient'[c], toClient'[c][i].kind = "tick"
            PROVE  /\ deltaTick'[c] < toClient'[c][i].tick /\ toClient'[c][i].tick < tick'
                   /\ \A j \in 1 .. i - 1 : toClient'[c][j].kind = "tick" =>
                        toClient'[c][j].tick < toClient'[c][i].tick
        <5>1. CASE i \in 1 .. Len(toClient[c]) BY <4>3, <4>6, <5>1
        <5>2. CASE i = Len(toClient[c]) + 1
          <6>1. toClient'[c][i] = m BY <4>2, <5>2
          <6>2. \A j \in 1 .. i - 1 : j \in 1 .. Len(toClient[c]) BY <4>2, <5>2
          <6>3. QED BY <4>4, <4>5, <6>1, <6>2
        <5>3. QED BY <4>2, <5>1, <5>2
      <4>7. QED BY <4>6
    <3>5. QED BY <3>1, <3>3, <3>4
  <2>5. QED BY <2>2, <2>3, <2>4
<1>7. ASSUME NEW i \in Clients, ServerReceiveTick(i) PROVE Goal
  <2>1. UNCHANGED <<tick, deltaTick, toClient, frames>> BY <1>7 DEF ServerReceiveTick, client
  <2>2. CASE c = i
    <3>1. acked'[c] = Head(toServer[c]) /\ toServer'[c] = Tail(toServer[c])
          /\ toServer[c] # <<>>
      BY <1>7, <2>2 DEF ServerReceiveTick, TypeOK
    <3>2. 1 \in DOMAIN toServer[c] /\ acked'[c] = toServer[c][1]
          /\ \A k \in DOMAIN toServer'[c] : k \in Nat /\ k + 1 \in DOMAIN toServer[c]
                                            /\ toServer'[c][k] = toServer[c][k+1]
      BY <1>d, <3>1
    <3>3. ASSUME NEW k \in DOMAIN toServer'[c]
          PROVE  /\ acked'[c] <= toServer'[c][k] /\ toServer'[c][k] <= deltaTick'[c]
                 /\ \A j \in 1 .. k : toServer'[c][j] <= toServer'[c][k]
      <4>1. 1 \in 1 .. k + 1 /\ k + 1 \in DOMAIN toServer[c] BY <3>2
      <4>2. acked'[c] <= toServer'[c][k] /\ toServer'[c][k] <= deltaTick'[c]
        BY <1>a, <2>1, <3>2, <4>1
      <4>3. ASSUME NEW j \in 1 .. k PROVE toServer'[c][j] <= toServer'[c][k]
        <5>1. j + 1 \in 1 .. k + 1 BY <3>2
        <5>2. toServer'[c] \in Seq(Nat \cup {-1}) BY <1>d, <3>1
        <5>3. j \in DOMAIN toServer'[c] BY <5>2
        <5>4. QED BY <1>a, <3>2, <5>1, <5>3
      <4>4. QED BY <4>2, <4>3
    <3>4. Reference BY <1>a, <2>1, <3>2
    <3>5. QED BY <1>b, <1>c, <2>1, <3>3, <3>4
  <2>3. CASE c # i
    <3>1. UNCHANGED <<acked[c], toServer[c]>> BY <1>7, <2>3 DEF ServerReceiveTick, TypeOK
    <3>2. QED BY <1>a, <1>b, <1>c, <2>1, <3>1
  <2>4. QED BY <2>2, <2>3
<1>8. ASSUME NEW i \in Clients, NEW kind, Receive(i, kind)
      PROVE  /\ UNCHANGED <<tick, acked, toServer, frames>>
             /\ Frames
             /\ deltaTick'[c] = deltaTick[c] => Goal
  <2>1. UNCHANGED <<tick, acked, toServer, frames>> BY <1>8, Received DEF server
  <2>2. CASE c = i
    <3>1. \A k \in DOMAIN toClient'[c] : k + 1 \in DOMAIN toClient[c]
                                         /\ toClient'[c][k] = toClient[c][k+1]
      BY <1>8, <2>2, Received
    <3>2. toClient'[c] \in Seq(Message) BY <1>8, ReceiveTyped
    <3>3. ASSUME NEW k \in DOMAIN toClient'[c], toClient'[c][k].kind = "tick",
                 deltaTick'[c] = deltaTick[c]
          PROVE  /\ deltaTick'[c] < toClient'[c][k].tick /\ toClient'[c][k].tick < tick'
                 /\ \A j \in 1 .. k - 1 : toClient'[c][j].kind = "tick" =>
                      toClient'[c][j].tick < toClient'[c][k].tick
      <4>1. \A j \in 1 .. k - 1 : j \in DOMAIN toClient'[c] /\ j + 1 \in 1 .. (k + 1) - 1
        BY <3>2
      <4>2. QED BY <1>b, <2>1, <3>1, <3>3, <4>1
    <3>4. QED BY <1>a, <1>c, <2>1, <3>3
  <2>3. CASE c # i
    <3>1. toClient'[c] = toClient[c] BY <1>8, <2>3, Received
    <3>2. QED BY <1>a, <1>b, <1>c, <2>1, <3>1
  <2>4. QED BY <2>1, <2>2, <2>3
<1>9. ASSUME NEW i \in Clients, HandleGenerateObject(i) \/ HandleDeleteObject(i) PROVE Goal
  <2>1. deltaTick' = deltaTick BY <1>9 DEF HandleGenerateObject, HandleDeleteObject
  <2>2. QED BY <1>8, <1>9, <2>1 DEF HandleGenerateObject, HandleDeleteObject
<1>10. ASSUME NEW i \in Clients, HandleServerTick(i) PROVE Goal
  <2>1. Receive(i, "tick") BY <1>10 DEF HandleServerTick
  <2>2. CASE deltaTick'[c] = deltaTick[c] BY <1>8, <2>1, <2>2
  <2>3. CASE deltaTick'[c] # deltaTick[c]
    <3>1. c = i /\ deltaTick'[c] = toClient[c][1].tick
      <4>1. Head(toClient[i]) = toClient[i][1] BY <2>1, Received
      <4>2. QED BY <1>10, <2>3, <4>1 DEF HandleServerTick, TypeOK
    <3>2. 1 \in DOMAIN toClient[c] /\ toClient[c][1].kind = "tick"
          /\ UNCHANGED <<tick, acked, toServer, frames>>
      BY <1>8, <2>1, <3>1, Received, ReceiveTyped
    <3>3. deltaTick[c] < deltaTick'[c] /\ deltaTick'[c] < tick' /\ deltaTick'[c] \in Int
      <4>1. toClient[c][1] \in Message BY <1>d, <3>2
      <4>2. QED BY <1>b, <3>1, <3>2, <4>1, MessageKinds
    <3>4. \A k \in DOMAIN toServer[c] : toServer[c][k] \in Int BY <1>d
    <3>5. Reference /\ Acks BY <1>a, <1>d, <3>2, <3>3, <3>4
    <3>6. \A k \in DOMAIN toClient'[c] : k + 1 \in DOMAIN toClient[c]
                                         /\ toClient'[c][k] = toClient[c][k+1]
      BY <2>1, <3>1, Received
    <3>7. toClient'[c] \in Seq(Message) BY <2>1, ReceiveTyped
    <3>8. ASSUME NEW k \in DOMAIN toClient'[c], toClient'[c][k].kind = "tick"
          PROVE  /\ deltaTick'[c] < toClient'[c][k].tick /\ toClient'[c][k].tick < tick'
                 /\ \A j \in 1 .. k - 1 : toClient'[c][j].kind = "tick" =>
                      toClient'[c][j].tick < toClient'[c][k].tick
      <4>1. 1 \in 1 .. (k + 1) - 1
            /\ \A j \in 1 .. k - 1 : j \in DOMAIN toClient'[c] /\ j + 1 \in 1 .. (k + 1) - 1
        BY <3>7
      <4>2. QED BY <1>b, <3>1, <3>2, <3>6, <3>8, <4>1
    <3>9. Frames BY <1>8, <2>1
    <3>10. QED BY <3>5, <3>8, <3>9
  <2>4. QED BY <2>2, <2>3
<1>11. ASSUME NEW i \in Clients, SendTick(i) PROVE Goal
  <2>1. UNCHANGED <<tick, acked, frames, deltaTick, toClient>>
    BY <1>11 DEF SendTick, server, client
  <2>2. toServer'[c] \in {toServer[c], Append(toServer[c], deltaTick[c])}
    BY <1>11 DEF SendTick, TypeOK
  <2>3. CASE toServer'[c] = toServer[c] BY <1>a, <1>b, <1>c, <2>1, <2>3
  <2>4. CASE toServer'[c] = Append(toServer[c], deltaTick[c])
    <3>1. /\ DOMAIN toServer'[c] = 1 .. Len(toServer[c]) + 1
          /\ Len(toServer[c]) \in Nat
          /\ DOMAIN toServer[c] = 1 .. Len(toServer[c])
          /\ \A k \in 1 .. Len(toServer[c]) : toServer'[c][k] = toServer[c][k]
          /\ toServer'[c][Len(toServer[c]) + 1] = deltaTick[c]
      BY <1>d, <2>4
    <3>2. ASSUME NEW k \in 1 .. Len(toServer[c])
          PROVE  /\ acked'[c] <= toServer'[c][k] /\ toServer'[c][k] <= deltaTick'[c]
                 /\ \A j \in 1 .. k : toServer'[c][j] <= toServer'[c][k]
      BY <1>a, <2>1, <3>1
    <3>3. acked'[c] <= deltaTick[c] /\ deltaTick[c] <= deltaTick'[c] BY <1>a, <1>d, <2>1
    <3>4. ASSUME NEW j \in 1 .. Len(toServer[c]) + 1 PROVE toServer'[c][j] <= deltaTick[c]
      <4>1. CASE j \in 1 .. Len(toServer[c]) BY <2>1, <3>2, <4>1
      <4>2. CASE j = Len(toServer[c]) + 1
        <5>1. toServer'[c][j] = deltaTick[c] BY <3>1, <4>2
        <5>2. QED BY <1>d, <5>1
      <4>3. QED BY <3>1, <4>1, <4>2
    <3>5. ASSUME NEW k \in DOMAIN toServer'[c]
          PROVE  /\ acked'[c] <= toServer'[c][k] /\ toServer'[c][k] <= deltaTick'[c]
                 /\ \A j \in 1 .. k : toServer'[c][j] <= toServer'[c][k]
      <4>1. CASE k \in 1 .. Len(toServer[c]) BY <3>2, <4>1
      <4>2. CASE k = Len(toServer[c]) + 1
        <5>1. toServer'[c][k] = deltaTick[c] BY <3>1, <4>2
        <5>2. \A j \in 1 .. k : toServer'[c][j] <= toServer'[c][k] BY <3>4, <4>2, <5>1
        <5>3. QED BY <3>3, <5>1, <5>2
      <4>3. QED BY <3>1, <4>1, <4>2
    <3>6. QED BY <1>a, <1>b, <1>c, <2>1, <3>5
  <2>5. QED BY <2>2, <2>3, <2>4
<1>12. ASSUME NEW i \in Clients, ClientDisconnect(i) PROVE Goal
  <2>1. UNCHANGED <<tick, acked, frames, deltaTick, toServer>>
    BY <1>12 DEF ClientDisconnect, server
  <2>2. toClient'[c] \in {toClient[c], <<>>} BY <1>12 DEF ClientDisconnect, TypeOK
  <2>3. Ticks
    <3>1. CASE toClient'[c] = toClient[c] BY <1>b, <2>1, <3>1
    <3>2. CASE toClient'[c] = <<>> BY <3>2
    <3>3. QED BY <2>2, <3>1, <3>2
  <2>4. QED BY <1>a, <1>c, <2>1, <2>3
<1>13. CASE UNCHANGED <<tick, acked, deltaTick, toServer, toClient, frames>>
  BY <1>a, <1>b, <1>c, <1>13
<1>14. (\E d \in DoIds, f \in Fields, v \in Values : SetField(d, f, v))
       \/ (\E i \in Clients : Connect(i)) \/ UNCHANGED vars
       => UNCHANGED <<tick, acked, deltaTick, toServer, toClient, frames>>
  BY DEF SetField, Connect, vars, server, client
<1>15. ServerStep => Goal
  BY <1>2, <1>3, <1>4, <1>5, <1>6, <1>7, <1>13, <1>14 DEF ServerStep
<1>16. ClientStep => Goal
  BY <1>9, <1>10, <1>11, <1>12, <1>13, <1>14 DEF ClientStep
<1>17. QED BY <1>13, <1>14, <1>15, <1>16 DEF Next
-------------------------------------------------------------------------------
(* Bookkeeping is an invariant *)

LEMMA BookkeepingInit == Init => Bookkeeping
  BY DEF Init, NoTable, Bookkeeping, PacksOld, OwnersPresent, OwnedZonesOpen, OwnedZones, Owned,
         ReferenceKnown, Records, PipelineOrdered

LEMMA BookkeepingStep == TypeOK /\ Bookkeeping /\ [Next]_vars => Bookkeeping'
  BY PacksOldStep, OwnersPresentStep, OwnedZonesOpenStep, ReferenceKnownStep, RecordsStep,
     PipelineOrderedStep DEF Bookkeeping

(* Every reachable state keeps the records in order: packets belong to     *)
(* objects and are older than the tick, owners are connected and see the   *)
(* zones of what they own, and ticks travel around the loop in order.      *)
THEOREM BookkeepingCorrect == Spec => [](TypeOK /\ Bookkeeping)
<1>1. Init => TypeOK /\ Bookkeeping BY InitTyped, BookkeepingInit
<1>2. TypeOK /\ Bookkeeping /\ [Next]_vars => (TypeOK /\ Bookkeeping)'
  BY NextTyped, BookkeepingStep
<1>3. QED BY <1>1, <1>2, PTL DEF Spec

(* Acknowledged tick, acknowledgements in flight, the client's reference,  *)
(* snapshots in flight and the current tick never decrease along the loop  *)
(* through takeTickSnapshot, __handleServerTick, sendTick, handleClientTick.*)
THEOREM TicksInOrder == Spec => []PipelineOrdered
<1>1. TypeOK /\ Bookkeeping => PipelineOrdered BY DEF Bookkeeping
<1>2. QED BY <1>1, BookkeepingCorrect, PTL

(* __handleServerTick never throws a delta snapshot away: the server only  *)
(* sends one to a client that has adopted a snapshot before.               *)
THEOREM DeltasAreAccepted == Spec => []DeltaAccepted
<1>1. TypeOK /\ Bookkeeping => DeltaAccepted
  BY DEF Bookkeeping, ReferenceKnown, DeltaAccepted, TypeOK
<1>2. QED BY <1>1, BookkeepingCorrect, PTL

(* deltaTick of a client never goes back: __handleServerTick adopts        *)
(* snapshots in the order in which they were taken.                        *)
THEOREM ReferenceOnlyMovesForward == Spec => ReferenceMovesForward
<1>1. ASSUME TypeOK, PipelineOrdered, Next, NEW c \in clUp \cap clUp'
      PROVE  deltaTick'[c] >= deltaTick[c]
  <2>0. c \in Clients /\ deltaTick[c] \in Int BY <1>1 DEF TypeOK
  <2>1. ASSUME NEW i \in Clients, HandleServerTick(i) PROVE deltaTick'[c] >= deltaTick[c]
    <3>1. Receive(i, "tick") BY <2>1 DEF HandleServerTick
    <3>2. CASE deltaTick'[c] = deltaTick[c] BY <2>0, <3>2
    <3>3. CASE deltaTick'[c] # deltaTick[c]
      <4>1. 1 \in DOMAIN toClient[i] /\ Head(toClient[i]) = toClient[i][1] BY <1>1, <3>1, Received
      <4>2. c = i /\ deltaTick'[c] = toClient[c][1].tick
        BY <1>1, <2>0, <2>1, <3>3, <4>1 DEF HandleServerTick, TypeOK
      <4>3. toClient[c][1] \in Message /\ toClient[c][1].kind = "tick"
        BY <1>1, <3>1, <4>1, <4>2, ReceiveTyped
      <4>4. deltaTick[c] < toClient[c][1].tick BY <1>1, <2>0, <4>1, <4>2, <4>3 DEF PipelineOrdered
      <4>5. deltaTick'[c] \in Int BY <4>2, <4>3, MessageKinds
      <4>6. QED BY <2>0, <4>2, <4>4, <4>5
    <3>4. QED BY <3>2, <3>3
  <2>2. deltaTick' = deltaTick => deltaTick'[c] >= deltaTick[c] BY <2>0
  <2>3. ServerStep => deltaTick' = deltaTick
    <3>1. ASSUME NEW due \in SUBSET Clients, TakeTickSnapshot(due) PROVE UNCHANGED client
      BY <3>1 DEF TakeTickSnapshot
    <3>2. ASSUME NEW d \in DoIds, NEW z, NEW s, NEW o, GenerateObject(d, z, s, o)
          PROVE  UNCHANGED client
      BY <3>2 DEF GenerateObject
    <3>3. QED
      BY <3>1, <3>2 DEF ServerStep, DeleteObject, SetField, ChangeInterest, ServerReceiveTick,
                        ServerDisconnect, client
  <2>4. ClientStep => deltaTick' = deltaTick \/ \E i \in Clients : HandleServerTick(i)
    BY DEF ClientStep, HandleGenerateObject, HandleDeleteObject, SendTick, ClientDisconnect,
           Connect, client
  <2>5. QED BY <1>1, <2>1, <2>2, <2>3, <2>4 DEF Next
<1>2. TypeOK /\ Bookkeeping /\ [Next]_vars
      => [\A c \in clUp \cap clUp' : deltaTick'[c] >= deltaTick[c]]_vars
  BY <1>1 DEF Bookkeeping
<1>3. QED BY <1>2, BookkeepingCorrect, PTL DEF Spec, ReferenceMovesForward
===============================================================================
