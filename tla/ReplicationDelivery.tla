-------------------------- MODULE ReplicationDelivery --------------------------
(***************************************************************************)
(* Proof that the messages in flight always fit the replica they reach,    *)
(* and that a replica converges to the packets of the server: ChainInv is  *)
(* preserved by every step.  From it follows the refinement: a message in  *)
(* flight stands for the image it leads to, and with this reading every    *)
(* step of Replication is a step of SnapshotImages.                        *)
(***************************************************************************)
EXTENDS ReplicationProofs, SequenceTheorems, WellFoundedInduction

-------------------------------------------------------------------------------
(* Chains of messages *)

LEMMA DeliversNothing == ASSUME NEW v \in View PROVE Delivers(<<>>, v, v)
<1>. DEFINE p == [i \in 0 .. 0 |-> v]
<1>1. p \in [0 .. Len(<<>>) -> View] /\ IsChain(p, <<>>, v) BY DEF IsChain
<1>2. p[Len(<<>>)] = v OBVIOUS
<1>3. QED BY <1>1, <1>2 DEF Delivers

LEMMA DeliversOne ==
  ASSUME NEW v \in View, NEW m \in Message, Fits(m, v)
  PROVE  Delivers(<<m>>, v, Apply(m, v))
<1>. DEFINE p == [i \in 0 .. 1 |-> IF i = 0 THEN v ELSE Apply(m, v)]
<1>1. Apply(m, v) \in View BY ApplyTyped
<1>2. p \in [0 .. 1 -> View] BY <1>1
<1>3. p[0] = v /\ p[1] = Apply(m, v) OBVIOUS
<1>. HIDE DEF p
<1>4. \A i \in 1 .. 1 : Fits(<<m>>[i], p[i-1]) /\ p[i] = Apply(<<m>>[i], p[i-1])
  <2>1. \A i \in 1 .. 1 : i = 1 OBVIOUS
  <2>2. Fits(<<m>>[1], p[1-1]) /\ p[1] = Apply(<<m>>[1], p[1-1]) BY <1>3
  <2>3. QED BY <2>1, <2>2
<1>5. Len(<<m>>) = 1 OBVIOUS
<1>6. IsChain(p, <<m>>, v) BY <1>2, <1>3, <1>4, <1>5 DEF IsChain
<1>7. QED BY <1>2, <1>3, <1>5, <1>6 DEF Delivers

(* Two deliveries in a row are one.                                        *)
LEMMA DeliversConcat ==
  ASSUME NEW a \in Seq(Message), NEW b \in Seq(Message), NEW v, NEW w, NEW x,
         Delivers(a, v, w), Delivers(b, w, x)
  PROVE  Delivers(a \o b, v, x)
<1>1. PICK p \in [0 .. Len(a) -> View] : IsChain(p, a, v) /\ p[Len(a)] = w BY DEF Delivers
<1>2. PICK q \in [0 .. Len(b) -> View] : IsChain(q, b, w) /\ q[Len(b)] = x BY DEF Delivers
<1>. DEFINE n == Len(a)
            k == Len(b)
            r == [i \in 0 .. n + k |-> IF i <= n THEN p[i] ELSE q[i - n]]
<1>3. n \in Nat /\ k \in Nat /\ Len(a \o b) = n + k OBVIOUS
<1>4. r \in [0 .. n + k -> View]
  <2>1. ASSUME NEW i \in 0 .. n + k PROVE (IF i <= n THEN p[i] ELSE q[i - n]) \in View
    <3>1. CASE i <= n
      <4>1. i \in 0 .. n BY <1>3, <3>1
      <4>2. QED BY <1>1, <3>1, <4>1
    <3>2. CASE ~(i <= n)
      <4>1. i - n \in 0 .. k BY <1>3, <3>2
      <4>2. QED BY <1>2, <3>2, <4>1
    <3>3. QED BY <3>1, <3>2
  <2>2. QED BY <2>1
<1>5. /\ \A i \in 0 .. n : r[i] = p[i]
      /\ \A i \in 0 .. k : r[n + i] = q[i]
  <2>1. ASSUME NEW i \in 0 .. n PROVE r[i] = p[i] BY <1>3
  <2>2. ASSUME NEW i \in 0 .. k PROVE r[n + i] = q[i]
    <3>1. CASE i = 0
      <4>1. r[n] = p[n] BY <1>3
      <4>2. p[n] = w /\ q[0] = w BY <1>1, <1>2 DEF IsChain
      <4>3. n + i = n BY <1>3, <3>1
      <4>4. QED BY <3>1, <4>1, <4>2, <4>3
    <3>2. CASE i # 0
      <4>1. n + i \in 0 .. n + k /\ ~(n + i <= n) /\ (n + i) - n = i BY <1>3, <3>2
      <4>2. r[n + i] = q[(n + i) - n] BY <4>1
      <4>3. QED BY <4>1, <4>2
    <3>3. QED BY <3>1, <3>2
  <2>3. QED BY <2>1, <2>2
<1>. HIDE DEF r
<1>6. r[0] = v /\ r[n + k] = x
  <2>1. 0 \in 0 .. n /\ k \in 0 .. k BY <1>3
  <2>2. p[0] = v BY <1>1 DEF IsChain
  <2>3. QED BY <1>2, <1>5, <2>1, <2>2
<1>7. ASSUME NEW i \in 1 .. n + k
      PROVE  Fits((a \o b)[i], r[i-1]) /\ r[i] = Apply((a \o b)[i], r[i-1])
  <2>1. CASE i <= n
    <3>1. i \in 1 .. n /\ i \in 0 .. n /\ i - 1 \in 0 .. n BY <1>3, <2>1
    <3>2. (a \o b)[i] = a[i] BY <1>3, <3>1
    <3>3. Fits(a[i], p[i-1]) /\ p[i] = Apply(a[i], p[i-1]) BY <1>1, <3>1 DEF IsChain
    <3>4. QED BY <1>5, <3>1, <3>2, <3>3
  <2>2. CASE ~(i <= n)
    <3>1. PICK j \in 1 .. k : i = n + j
      <4>1. i - n \in 1 .. k /\ i = n + (i - n) BY <1>3, <2>2
      <4>2. QED BY <4>1
    <3>2. (a \o b)[i] = b[j]
      <4>1. i - n = j BY <1>3, <3>1
      <4>2. QED BY <1>3, <2>2, <3>1, <4>1
    <3>3. Fits(b[j], q[j-1]) /\ q[j] = Apply(b[j], q[j-1]) BY <1>2, <3>1 DEF IsChain
    <3>4. r[i] = q[j] BY <1>3, <1>5, <3>1
    <3>5. r[i-1] = q[j-1]
      <4>1. j - 1 \in 0 .. k /\ i - 1 = n + (j - 1) BY <1>3, <3>1
      <4>2. QED BY <1>5, <4>1
    <3>6. QED BY <3>2, <3>3, <3>4, <3>5
  <2>3. QED BY <2>1, <2>2
<1>8. IsChain(r, a \o b, v) BY <1>3, <1>4, <1>6, <1>7 DEF IsChain
<1>9. QED BY <1>3, <1>4, <1>6, <1>8 DEF Delivers

(* The first message fits, and the others deliver from what it leaves.     *)
LEMMA DeliversTail ==
  ASSUME NEW ch \in Seq(Message), ch # <<>>, NEW v, NEW w, Delivers(ch, v, w)
  PROVE  Fits(Head(ch), v) /\ Delivers(Tail(ch), Apply(Head(ch), v), w)
<1>. DEFINE n == Len(ch)
<1>1. PICK p \in [0 .. n -> View] : IsChain(p, ch, v) /\ p[n] = w BY DEF Delivers
<1>2. /\ n \in Nat
      /\ 1 \in 1 .. n
      /\ Head(ch) = ch[1]
      /\ Tail(ch) \in Seq(Message)
      /\ Len(Tail(ch)) = n - 1
      /\ \A i \in 1 .. n - 1 : Tail(ch)[i] = ch[i+1]
  OBVIOUS
<1>. DEFINE q == [i \in 0 .. n - 1 |-> p[i+1]]
<1>3. q \in [0 .. n - 1 -> View] BY <1>2
<1>4. \A i \in 0 .. n - 1 : q[i] = p[i+1] OBVIOUS
<1>5. \A i \in 1 .. n : Fits(ch[i], p[i-1]) /\ p[i] = Apply(ch[i], p[i-1]) BY <1>1 DEF IsChain
<1>6. p[0] = v BY <1>1 DEF IsChain
<1>7. Fits(Head(ch), v) /\ p[1] = Apply(Head(ch), v)
  <2>1. Fits(ch[1], p[1-1]) /\ p[1] = Apply(ch[1], p[1-1]) BY <1>2, <1>5
  <2>2. QED BY <1>2, <1>6, <2>1
<1>. HIDE DEF q
<1>8. q[0] = Apply(Head(ch), v) /\ q[n-1] = w
  <2>1. 0 \in 0 .. n - 1 /\ n - 1 \in 0 .. n - 1 /\ (n - 1) + 1 = n BY <1>2
  <2>2. QED BY <1>1, <1>4, <1>7, <2>1
<1>9. ASSUME NEW i \in 1 .. n - 1
      PROVE  Fits(Tail(ch)[i], q[i-1]) /\ q[i] = Apply(Tail(ch)[i], q[i-1])
  <2>1. i + 1 \in 1 .. n /\ i \in 0 .. n - 1 /\ i - 1 \in 0 .. n - 1 BY <1>2
  <2>2. Fits(ch[i+1], p[(i+1)-1]) /\ p[i+1] = Apply(ch[i+1], p[(i+1)-1]) BY <1>5, <2>1
  <2>3. q[i-1] = p[(i+1)-1]
    <3>1. (i - 1) + 1 = (i + 1) - 1 OBVIOUS
    <3>2. QED BY <1>4, <2>1, <3>1
  <2>4. QED BY <1>2, <1>4, <2>1, <2>2, <2>3
<1>10. IsChain(q, Tail(ch), Apply(Head(ch), v))
  BY <1>2, <1>3, <1>8, <1>9 DEF IsChain
<1>11. QED BY <1>2, <1>3, <1>7, <1>8, <1>10 DEF Delivers
-------------------------------------------------------------------------------
(* Replicas and packets *)

(* More packets, or fewer without those of the replica, do not matter.     *)
LEMMA AgreeOtherPackets ==
  ASSUME NEW w, NEW pk, NEW pk2, NEW fr, FieldsAgree(w, pk, fr),
         DOMAIN w \subseteq DOMAIN pk2, \A d \in DOMAIN w : pk2[d] = pk[d]
  PROVE  FieldsAgree(w, pk2, fr)
  BY DEF FieldsAgree

LEMMA GenerateDelivers ==
  ASSUME NEW w \in View, NEW ticks, NEW pk \in Tables(PackedObject(ticks)), NEW fr,
         FieldsAgree(w, pk, fr), NEW ids \in SUBSET DOMAIN pk, ids \cap DOMAIN w = {}
  PROVE  \E w2 \in View : /\ Delivers(<<Generate([d \in ids |-> pk[d].val])>>, w, w2)
                          /\ DOMAIN w2 = DOMAIN w \cup ids
                          /\ FieldsAgree(w2, pk, fr)
<1>. DEFINE objs == [d \in ids |-> pk[d].val]
            m == Generate(objs)
            w2 == WithObjects(w, objs)
<1>1. objs \in View /\ DOMAIN objs = ids BY ValuesTyped
<1>2. m \in Message BY <1>1, MessagesTyped DEF Announcement, Message
<1>3. m.kind = "generate" /\ m.objs = objs BY DEF Generate
<1>4. Fits(m, w) BY <1>1, <1>3 DEF Fits
<1>5. Apply(m, w) = w2 BY <1>3 DEF Apply
<1>6. w2 \in View BY <1>1, ReplicaTyped
<1>7. /\ DOMAIN w2 = DOMAIN w \cup ids
      /\ \A d \in ids : w2[d] = pk[d].val
      /\ \A d \in DOMAIN w \ ids : w2[d] = w[d]
  BY <1>1 DEF WithObjects
<1>. HIDE DEF w2
<1>8. FieldsAgree(w2, pk, fr) BY <1>7 DEF FieldsAgree
<1>9. Delivers(<<m>>, w, w2) BY <1>2, <1>4, <1>5, DeliversOne
<1>10. QED BY <1>6, <1>7, <1>8, <1>9

LEMMA DeleteDelivers ==
  ASSUME NEW w \in View, NEW pk, NEW fr, FieldsAgree(w, pk, fr), NEW ids \in SUBSET DOMAIN w
  PROVE  \E w2 \in View : /\ Delivers(<<Delete(ids)>>, w, w2)
                          /\ DOMAIN w2 = DOMAIN w \ ids
                          /\ FieldsAgree(w2, pk, fr)
<1>. DEFINE m == Delete(ids)
            w2 == Restrict(w, DOMAIN w \ ids)
<1>1. ids \in SUBSET DoIds BY TablesElim DEF View
<1>2. m \in Message BY <1>1, MessagesTyped DEF Announcement, Message
<1>3. m.kind = "delete" /\ m.ids = ids BY DEF Delete
<1>4. Fits(m, w) BY <1>3 DEF Fits
<1>5. Apply(m, w) = w2 BY <1>3 DEF Apply
<1>6. w2 \in View BY ReplicaTyped
<1>7. DOMAIN w2 = DOMAIN w \ ids /\ \A d \in DOMAIN w2 : w2[d] = w[d] BY DEF Restrict
<1>. HIDE DEF w2
<1>8. FieldsAgree(w2, pk, fr) BY <1>7 DEF FieldsAgree
<1>9. Delivers(<<m>>, w, w2) BY <1>2, <1>4, <1>5, DeliversOne
<1>10. QED BY <1>6, <1>7, <1>8, <1>9

(* updateClientInterestZones: whatever the new zones, if they include the  *)
(* zones of all that the client owns, the two messages bring the replica   *)
(* from the old zones to the new ones.                                     *)
LEMMA InterestDelivers ==
  ASSUME NEW c, NEW zones, NEW objects \in Tables(Object),
         OwnedZones(objects, c) \subseteq zones,
         NEW w \in View, NEW pk \in Tables(PackedObject(-1 .. MaxTick)), NEW fr,
         DOMAIN w = Visible(objects, currentZones[c]) \cup Owned(objects, c),
         FieldsAgree(w, pk, fr), Opened(objects, c, zones) \subseteq DOMAIN pk
  PROVE  \E w2 \in View : /\ Delivers(InterestMessages(pk, objects, c, zones), w, w2)
                          /\ DOMAIN w2 = Visible(objects, zones)
                          /\ FieldsAgree(w2, pk, fr)
<1>. DEFINE opened == Opened(objects, c, zones)
            closed == Closed(objects, c, zones)
<1>0. Owned(objects, c) \subseteq Visible(objects, zones) BY DEF Owned, OwnedZones, Visible
<1>1. CASE zones = currentZones[c]
  <2>1. InterestMessages(pk, objects, c, zones) = <<>> BY <1>1 DEF InterestMessages
  <2>2. DOMAIN w = Visible(objects, zones) BY <1>0, <1>1
  <2>3. Delivers(<<>>, w, w) BY DeliversNothing
  <2>4. QED BY <2>1, <2>2, <2>3
<1>2. CASE zones # currentZones[c]
  <2>1. opened \cap DOMAIN w = {} BY DEF Opened, Visible
  <2>2. PICK w1 \in View : /\ Delivers(<<Generate([d \in opened |-> pk[d].val])>>, w, w1)
                           /\ DOMAIN w1 = DOMAIN w \cup opened
                           /\ FieldsAgree(w1, pk, fr)
    BY <2>1, GenerateDelivers
  <2>3. closed \subseteq DOMAIN w1 BY <2>2 DEF Closed, Visible
  <2>4. PICK w2 \in View : /\ Delivers(<<Delete(closed)>>, w1, w2)
                           /\ DOMAIN w2 = DOMAIN w1 \ closed
                           /\ FieldsAgree(w2, pk, fr)
    BY <2>2, <2>3, DeleteDelivers
  <2>5. DOMAIN w2 = Visible(objects, zones)
    BY <1>0, <2>2, <2>4 DEF Opened, Closed, Visible
  <2>6. /\ Generate([d \in opened |-> pk[d].val]) \in Message
        /\ Delete(closed) \in Message
    <3>1. [d \in opened |-> pk[d].val] \in View BY ValuesTyped
    <3>2. closed \in SUBSET DoIds BY VisibleTyped DEF Closed
    <3>3. QED BY <3>1, <3>2, MessagesTyped DEF Announcement, Message
  <2>7. InterestMessages(pk, objects, c, zones)
          = <<Generate([d \in opened |-> pk[d].val])>> \o <<Delete(closed)>>
    BY <1>2, <2>6 DEF InterestMessages
  <2>8. Delivers(InterestMessages(pk, objects, c, zones), w, w2)
    <3>1. /\ <<Generate([d \in opened |-> pk[d].val])>> \in Seq(Message)
          /\ <<Delete(closed)>> \in Seq(Message)
      BY <2>6
    <3>. HIDE DEF opened, closed
    <3>2. QED BY <2>2, <2>4, <2>7, <3>1, DeliversConcat, ZenonT(40)
  <2>9. QED BY <2>4, <2>5, <2>8
<1>3. QED BY <1>1, <1>2

(* A step that sends out keeps the chains if out delivers, from any        *)
(* replica that agrees with the old packets, one that agrees with the new. *)
LEMMA SendKeepsChains ==
  ASSUME TypeOK, ChainInv, NEW out \in [Clients -> Seq(Message)], Send(out),
         UNCHANGED <<view, clUp>>, svUp' \subseteq svUp,
         \A c \in Deliverable, w \in View :
           Agrees(c, w) => \E w2 \in View : /\ Delivers(out[c], w, w2)
                                            /\ c \in svUp' => Agrees(c, w2)'
  PROVE  ChainInv'
<1>. SUFFICES ASSUME NEW c \in clUp
              PROVE  \E w \in View : /\ Delivers(toClient'[c], view[c], w)
                                     /\ c \in svUp' => Agrees(c, w)'
  BY DEF ChainInv
<1>1. c \in Clients /\ toClient[c] \in Seq(Message) BY DEF TypeOK
<1>2. PICK w \in View : Delivers(toClient[c], view[c], w) /\ (c \in svUp => Agrees(c, w))
  BY DEF ChainInv
<1>3. CASE c \notin svUp
  <2>1. toClient'[c] = toClient[c] BY <1>1, <1>3 DEF Send, Deliverable
  <2>2. QED BY <1>2, <1>3, <2>1
<1>4. CASE c \in svUp
  <2>1. c \in Deliverable BY <1>4 DEF Deliverable
  <2>2. toClient'[c] = toClient[c] \o out[c] BY <1>1, <2>1 DEF Send
  <2>3. PICK w2 \in View : Delivers(out[c], w, w2) /\ (c \in svUp' => Agrees(c, w2)')
    BY <1>2, <1>4, <2>1
  <2>4. Delivers(toClient'[c], view[c], w2) BY <1>1, <1>2, <2>2, <2>3, DeliversConcat
  <2>5. QED BY <2>3, <2>4
<1>5. QED BY <1>3, <1>4
-------------------------------------------------------------------------------
(* Server actions *)

LEMMA GenerateObjectChains ==
  ASSUME TypeOK, Bookkeeping, ChainInv, NEW d \in DoIds, NEW z \in Zones, NEW s \in State,
         NEW o \in svUp \cup {NoClient}, GenerateObject(d, z, s, o)
  PROVE  ChainInv'
<1>. DEFINE objects == WithObject(d, z, s, o)
            told == {c \in svUp : z \in currentZones[c]} \cup ({o} \ {NoClient})
            zones == [c \in Clients |-> IF c = o THEN NewZones(objects, c, explicitZones[c])
                                        ELSE currentZones[c]]
            opened == IF o = NoClient THEN {} ELSE Opened(objects, o, zones[o])
            ids == opened \cup (IF told = {} THEN {} ELSE {d})
            pk == Baselines(packs, objects, ids)
            msgs(c) == <<Generate([i \in {d} |-> pk[d].val])>>
                         \o InterestMessages(pk, objects, c, zones[c])
            out == [c \in Clients |-> IF c \in told THEN msgs(c) ELSE <<>>]
<1>1. /\ live' = objects /\ packs' = pk /\ currentZones' = zones /\ Send(out)
      /\ UNCHANGED <<frames, svUp, view, clUp>>
      /\ d \notin DOMAIN live
  BY DEF GenerateObject, client
<1>2. TypeOK' BY GenerateObjectTyped
<1>3. objects \in Tables(Object) /\ pk \in Tables(PackedObject(-1 .. MaxTick)) BY <1>1, <1>2 DEF TypeOK
<1>4. ids \in SUBSET DOMAIN objects BY DEF Opened, Visible, WithObject
<1>5. DOMAIN pk = DOMAIN packs \cup ids /\ \A i \in DOMAIN packs : pk[i] = packs[i]
  <2>1. packs \in Tables(PackedObject(-1 .. MaxTick)) BY DEF TypeOK
  <2>. HIDE DEF objects, ids
  <2>2. QED BY <1>3, <1>4, <2>1, BaselinesTyped
<1>6. /\ \A i \in DOMAIN live : objects[i] = live[i]
      /\ DOMAIN objects = DOMAIN live \cup {d}
      /\ objects[d].zone = z /\ objects[d].owner = o
  BY <1>1 DEF WithObject
<1>a. \A c \in told : [i \in {d} |-> pk[d].val] \in View
  <2>1. SUFFICES ASSUME told # {} PROVE [i \in {d} |-> pk[d].val] \in View OBVIOUS
  <2>2. {d} \in SUBSET DOMAIN pk BY <1>5, <2>1
  <2>3. [i \in {d} |-> pk[i].val] \in View BY <1>3, <2>2, ValuesTyped
  <2>4. [i \in {d} |-> pk[i].val] = [i \in {d} |-> pk[d].val] OBVIOUS
  <2>5. QED BY <2>3, <2>4
<1>b. \A c \in told : Opened(objects, c, zones[c]) \subseteq DOMAIN pk
  <2>1. SUFFICES ASSUME NEW c \in told PROVE Opened(objects, c, zones[c]) \subseteq DOMAIN pk
    OBVIOUS
  <2>2. c \in Clients BY DEF TypeOK
  <2>3. CASE c = o BY <1>5, <2>2, <2>3, NoClientAssumption
  <2>4. CASE c # o BY <2>2, <2>4 DEF Opened, Visible
  <2>5. QED BY <2>3, <2>4
<1>. HIDE DEF objects, pk
<1>7. out \in [Clients -> Seq(Message)]
  <2>1. ASSUME NEW c \in told PROVE msgs(c) \in Seq(Message)
    <3>1. <<Generate([i \in {d} |-> pk[d].val])>> \in Seq(Message)
      BY <1>a, MessagesTyped DEF Announcement, Message
    <3>2. InterestMessages(pk, objects, c, zones[c]) \in Seq(Announcement)
      BY <1>3, <1>b, InterestMessagesTyped
    <3>3. Announcement \subseteq Message BY DEF Announcement, Message
    <3>4. InterestMessages(pk, objects, c, zones[c]) \in Seq(Message) BY <3>2, <3>3
    <3>5. QED BY <3>1, <3>4
  <2>. HIDE DEF msgs, told
  <2>2. QED BY <2>1
<1>8. ASSUME NEW c \in Deliverable, NEW w \in View, Agrees(c, w)
      PROVE  \E w2 \in View : /\ Delivers(out[c], w, w2)
                              /\ DOMAIN w2 = Visible(objects, zones[c])
                              /\ FieldsAgree(w2, pk, frames[c])
  <2>1. c \in Clients /\ c \in svUp /\ c # NoClient
    BY NoClientAssumption DEF Deliverable, TypeOK
  <2>2. DOMAIN w = Visible(live, currentZones[c]) /\ FieldsAgree(w, packs, frames[c])
    BY <1>8 DEF Agrees
  <2>3. FieldsAgree(w, pk, frames[c])
    <3>1. DOMAIN w \subseteq DOMAIN packs BY <2>2 DEF FieldsAgree
    <3>2. QED BY <1>5, <2>2, <3>1, AgreeOtherPackets
  <2>4. CASE c \notin told
    <3>1. out[c] = <<>> /\ c # o /\ z \notin currentZones[c] BY <2>1, <2>4
    <3>2. zones[c] = currentZones[c] BY <2>1, <3>1
    <3>3. Visible(objects, zones[c]) = Visible(live, currentZones[c])
      BY <1>6, <3>1, <3>2 DEF Visible
    <3>4. Delivers(out[c], w, w) BY <3>1, DeliversNothing
    <3>5. QED BY <2>2, <2>3, <3>3, <3>4
  <2>5. CASE c \in told
    <3>1. out[c] = msgs(c) BY <2>1, <2>5
    <3>2. d \in DOMAIN pk /\ d \notin DOMAIN w BY <1>1, <1>5, <2>2, <2>5 DEF Visible
    <3>3. PICK w1 \in View : /\ Delivers(<<Generate([i \in {d} |-> pk[d].val])>>, w, w1)
                             /\ DOMAIN w1 = DOMAIN w \cup {d}
                             /\ FieldsAgree(w1, pk, frames[c])
      <4>1. [i \in {d} |-> pk[i].val] = [i \in {d} |-> pk[d].val] OBVIOUS
      <4>2. {d} \in SUBSET DOMAIN pk /\ {d} \cap DOMAIN w = {} BY <3>2
      <4>3. QED BY <1>3, <2>3, <4>1, <4>2, GenerateDelivers
    <3>4. PICK w2 \in View : /\ Delivers(InterestMessages(pk, objects, c, zones[c]), w1, w2)
                             /\ DOMAIN w2 = Visible(objects, zones[c])
                             /\ FieldsAgree(w2, pk, frames[c])
      <4>1. CASE c = o
        <5>1. zones[c] = NewZones(objects, c, explicitZones[c]) BY <2>1, <4>1
        <5>2. OwnedZones(objects, c) \subseteq zones[c] BY <5>1 DEF NewZones
        <5>3. DOMAIN w1 = Visible(objects, currentZones[c]) \cup Owned(objects, c)
          <6>1. Owned(live, c) \subseteq Visible(live, currentZones[c])
            BY <2>1 DEF Bookkeeping, OwnedZonesOpen, OwnedZones, Owned, Visible
          <6>2. Owned(objects, c) = Owned(live, c) \cup {d} BY <1>6, <4>1 DEF Owned
          <6>3. Visible(objects, currentZones[c]) \cup {d} = Visible(live, currentZones[c]) \cup {d}
            BY <1>6 DEF Visible
          <6>4. QED BY <2>2, <3>3, <6>1, <6>2, <6>3
        <5>4. Opened(objects, c, zones[c]) \subseteq DOMAIN pk BY <1>b, <2>5
        <5>. HIDE DEF zones
        <5>5. QED BY <1>3, <3>3, <5>2, <5>3, <5>4, InterestDelivers
      <4>2. CASE c # o
        <5>1. zones[c] = currentZones[c] /\ z \in currentZones[c] BY <2>1, <2>5, <4>2
        <5>2. InterestMessages(pk, objects, c, zones[c]) = <<>> BY <5>1 DEF InterestMessages
        <5>3. Visible(objects, zones[c]) = Visible(live, currentZones[c]) \cup {d}
          BY <1>6, <5>1 DEF Visible
        <5>4. Delivers(<<>>, w1, w1) BY DeliversNothing
        <5>5. QED BY <2>2, <3>3, <5>2, <5>3, <5>4
      <4>3. QED BY <4>1, <4>2
    <3>5. Delivers(out[c], w, w2)
      <4>1. <<Generate([i \in {d} |-> pk[d].val])>> \in Seq(Message)
        BY <1>a, <2>5, MessagesTyped DEF Announcement, Message
      <4>2. InterestMessages(pk, objects, c, zones[c]) \in Seq(Message)
        <5>1. InterestMessages(pk, objects, c, zones[c]) \in Seq(Announcement)
          BY <1>3, <1>b, <2>5, InterestMessagesTyped
        <5>2. Announcement \subseteq Message BY DEF Announcement, Message
        <5>3. QED BY <5>1, <5>2
      <4>3. out[c] = <<Generate([i \in {d} |-> pk[d].val])>>
                       \o InterestMessages(pk, objects, c, zones[c])
        BY <3>1
      <4>. HIDE DEF zones, out
      <4>4. QED BY <3>3, <3>4, <4>1, <4>2, <4>3, DeliversConcat
    <3>6. QED BY <3>4, <3>5
  <2>6. QED BY <2>4, <2>5
<1>9. ASSUME NEW c \in Deliverable, NEW w \in View, Agrees(c, w)
      PROVE  \E w2 \in View : Delivers(out[c], w, w2) /\ (c \in svUp' => Agrees(c, w2)')
  <2>1. PICK w2 \in View : /\ Delivers(out[c], w, w2)
                           /\ DOMAIN w2 = Visible(objects, zones[c])
                           /\ FieldsAgree(w2, pk, frames[c])
    BY <1>8, <1>9
  <2>2. Agrees(c, w2)' BY <1>1, <2>1 DEF Agrees
  <2>3. QED BY <2>1, <2>2
<1>. HIDE DEF out
<1>10. QED BY <1>1, <1>7, <1>9, SendKeepsChains
(* Deleting some objects, each client told of those it sees.               *)
LEMMA DeletesDeliver ==
  ASSUME NEW c, NEW w \in View, Agrees(c, w), NEW gone,
         NEW msgs, msgs = IF Visible(live, currentZones[c]) \cap gone = {} THEN <<>>
                          ELSE <<Delete(Visible(live, currentZones[c]) \cap gone)>>
  PROVE  \E w2 \in View : /\ Delivers(msgs, w, w2)
                          /\ DOMAIN w2 = Visible(Restrict(live, DOMAIN live \ gone), currentZones[c])
                          /\ FieldsAgree(w2, Restrict(packs, DOMAIN packs \ gone), frames[c])
<1>. DEFINE seen == Visible(live, currentZones[c])
            pk == Restrict(packs, DOMAIN packs \ gone)
<1>1. DOMAIN w = seen /\ FieldsAgree(w, packs, frames[c]) BY DEF Agrees
<1>2. PICK w2 \in View : /\ Delivers(msgs, w, w2)
                         /\ DOMAIN w2 = DOMAIN w \ gone
                         /\ FieldsAgree(w2, packs, frames[c])
  <2>1. CASE seen \cap gone = {} BY <1>1, <2>1, DeliversNothing
  <2>2. CASE seen \cap gone # {}
    <3>1. msgs = <<Delete(seen \cap gone)>> BY <2>2
    <3>2. PICK w2 \in View : /\ Delivers(<<Delete(seen \cap gone)>>, w, w2)
                             /\ DOMAIN w2 = DOMAIN w \ (seen \cap gone)
                             /\ FieldsAgree(w2, packs, frames[c])
      BY <1>1, DeleteDelivers
    <3>3. DOMAIN w2 = DOMAIN w \ gone BY <1>1, <3>2
    <3>4. QED BY <3>1, <3>2, <3>3
  <2>3. QED BY <2>1, <2>2
<1>3. DOMAIN w2 = Visible(Restrict(live, DOMAIN live \ gone), currentZones[c])
  BY <1>1, <1>2 DEF Visible, Restrict
<1>4. DOMAIN w2 \subseteq DOMAIN pk /\ \A i \in DOMAIN w2 : pk[i] = packs[i]
  BY <1>2 DEF FieldsAgree, Restrict
<1>5. FieldsAgree(w2, pk, frames[c]) BY <1>2, <1>4, AgreeOtherPackets
<1>6. QED BY <1>2, <1>3, <1>5

LEMMA DeleteObjectChains ==
  ASSUME TypeOK, ChainInv, NEW d \in DoIds, DeleteObject(d)
  PROVE  ChainInv'
<1>. DEFINE out == [c \in Clients |-> IF live[d].zone \in currentZones[c] THEN <<Delete({d})>>
                                      ELSE <<>>]
<1>1. /\ Send(out) /\ d \in DOMAIN live
      /\ live' = Restrict(live, DOMAIN live \ {d}) /\ packs' = Restrict(packs, DOMAIN packs \ {d})
      /\ UNCHANGED <<frames, currentZones, svUp, view, clUp>>
  BY DEF DeleteObject, client
<1>2. out \in [Clients -> Seq(Message)]
  <2>1. {d} \in SUBSET DoIds OBVIOUS
  <2>2. Delete({d}) \in Message BY <2>1, MessagesTyped DEF Announcement, Message
  <2>3. QED BY <2>2
<1>3. ASSUME NEW c \in Deliverable, NEW w \in View, Agrees(c, w)
      PROVE  \E w2 \in View : Delivers(out[c], w, w2) /\ (c \in svUp' => Agrees(c, w2)')
  <2>1. c \in Clients BY DEF Deliverable, TypeOK
  <2>2. out[c] = IF Visible(live, currentZones[c]) \cap {d} = {} THEN <<>>
                 ELSE <<Delete(Visible(live, currentZones[c]) \cap {d})>>
    <3>1. CASE live[d].zone \in currentZones[c]
      <4>1. Visible(live, currentZones[c]) \cap {d} = {d} BY <1>1, <3>1 DEF Visible
      <4>2. QED BY <2>1, <3>1, <4>1
    <3>2. CASE live[d].zone \notin currentZones[c]
      <4>1. Visible(live, currentZones[c]) \cap {d} = {} BY <3>2 DEF Visible
      <4>2. QED BY <2>1, <3>2, <4>1
    <3>3. QED BY <3>1, <3>2
  <2>. HIDE DEF out
  <2>3. PICK w2 \in View :
          /\ Delivers(out[c], w, w2)
          /\ DOMAIN w2 = Visible(Restrict(live, DOMAIN live \ {d}), currentZones[c])
          /\ FieldsAgree(w2, Restrict(packs, DOMAIN packs \ {d}), frames[c])
    BY <1>3, <2>2, DeletesDeliver
  <2>4. Agrees(c, w2)' BY <1>1, <2>3 DEF Agrees
  <2>5. QED BY <2>3, <2>4
<1>. HIDE DEF out
<1>4. QED BY <1>1, <1>2, <1>3, SendKeepsChains

LEMMA ServerDisconnectChains ==
  ASSUME TypeOK, ChainInv, NEW c \in Clients, ServerDisconnect(c)
  PROVE  ChainInv'
<1>. DEFINE gone == Owned(live, c)
            out == [i \in Clients |->
                      IF Visible(live, currentZones[i]) \cap gone = {} THEN <<>>
                      ELSE <<Delete(Visible(live, currentZones[i]) \cap gone)>>]
<1>1. /\ Send(out)
      /\ live' = Restrict(live, DOMAIN live \ gone) /\ packs' = Restrict(packs, DOMAIN packs \ gone)
      /\ svUp' = svUp \ {c}
      /\ UNCHANGED <<view, clUp>>
      /\ \A i \in Clients \ {c} : UNCHANGED <<currentZones[i], frames[i]>>
  BY DEF ServerDisconnect, client, TypeOK
<1>2. out \in [Clients -> Seq(Message)]
  <2>1. \A i \in Clients : Visible(live, currentZones[i]) \cap gone \in SUBSET DoIds
    BY ObjectFields DEF Owned, TypeOK
  <2>2. \A i \in Clients : Delete(Visible(live, currentZones[i]) \cap gone) \in Message
    BY <2>1, MessagesTyped DEF Announcement, Message
  <2>3. QED BY <2>2
<1>3. ASSUME NEW i \in Deliverable, NEW w \in View, Agrees(i, w)
      PROVE  \E w2 \in View : Delivers(out[i], w, w2) /\ (i \in svUp' => Agrees(i, w2)')
  <2>1. i \in Clients BY DEF Deliverable, TypeOK
  <2>2. out[i] = IF Visible(live, currentZones[i]) \cap gone = {} THEN <<>>
                 ELSE <<Delete(Visible(live, currentZones[i]) \cap gone)>>
    BY <2>1
  <2>. HIDE DEF out, gone
  <2>3. PICK w2 \in View :
          /\ Delivers(out[i], w, w2)
          /\ DOMAIN w2 = Visible(Restrict(live, DOMAIN live \ gone), currentZones[i])
          /\ FieldsAgree(w2, Restrict(packs, DOMAIN packs \ gone), frames[i])
    BY <1>3, <2>2, DeletesDeliver
  <2>4. i \in svUp' => Agrees(i, w2)' BY <1>1, <2>1, <2>3 DEF Agrees
  <2>5. QED BY <2>3, <2>4
<1>. HIDE DEF out
<1>4. svUp' \subseteq svUp BY <1>1
<1>5. QED BY <1>1, <1>2, <1>3, <1>4, SendKeepsChains

LEMMA ChangeInterestChains ==
  ASSUME TypeOK, Bookkeeping, ChainInv, NEW c \in Clients, NEW explicit \in SUBSET Zones,
         ChangeInterest(c, explicit)
  PROVE  ChainInv'
<1>. DEFINE zones == NewZones(live, c, explicit)
            opened == Opened(live, c, zones)
            pk == Baselines(packs, live, opened)
            out == [i \in Clients |-> IF i = c THEN InterestMessages(pk, live, c, zones)
                                      ELSE <<>>]
<1>1. /\ packs' = pk /\ Send(out) /\ c \in svUp
      /\ currentZones' = [currentZones EXCEPT ![c] = zones]
      /\ UNCHANGED <<live, svUp, frames, view, clUp>>
  BY DEF ChangeInterest, client
<1>2. live \in Tables(Object) /\ packs \in Tables(PackedObject(-1 .. MaxTick)) BY DEF TypeOK
<1>3. opened \in SUBSET DOMAIN live BY <1>2, OpenedTyped
<1>4. /\ pk \in Tables(PackedObject(-1 .. MaxTick))
      /\ DOMAIN pk = DOMAIN packs \cup opened
      /\ \A i \in DOMAIN packs : pk[i] = packs[i]
  <2>. HIDE DEF opened
  <2>1. QED BY <1>2, <1>3, BaselinesTyped
<1>5. InterestMessages(pk, live, c, zones) \in Seq(Message)
  <2>1. InterestMessages(pk, live, c, zones) \in Seq(Announcement)
    <3>. HIDE DEF zones, pk
    <3>1. QED BY <1>2, <1>4, InterestMessagesTyped
  <2>2. Announcement \subseteq Message BY DEF Announcement, Message
  <2>3. QED BY <2>1, <2>2
<1>6. out \in [Clients -> Seq(Message)] BY <1>5
<1>. HIDE DEF pk, zones
<1>7. ASSUME NEW i \in Deliverable, NEW w \in View, Agrees(i, w)
      PROVE  \E w2 \in View : Delivers(out[i], w, w2) /\ (i \in svUp' => Agrees(i, w2)')
  <2>1. i \in Clients BY DEF Deliverable, TypeOK
  <2>2. DOMAIN w = Visible(live, currentZones[i]) /\ FieldsAgree(w, packs, frames[i])
    BY <1>7 DEF Agrees
  <2>3. FieldsAgree(w, pk, frames[i])
    <3>1. DOMAIN w \subseteq DOMAIN packs BY <2>2 DEF FieldsAgree
    <3>2. QED BY <1>4, <2>2, <3>1, AgreeOtherPackets
  <2>4. currentZones \in [Clients -> SUBSET Zones] BY DEF TypeOK
  <2>5. CASE i = c
    <3>1. out[i] = InterestMessages(pk, live, c, zones) BY <2>1, <2>5
    <3>2. OwnedZones(live, c) \subseteq zones BY DEF NewZones, zones
    <3>3. Owned(live, c) \subseteq Visible(live, currentZones[c])
      BY <1>1 DEF Bookkeeping, OwnedZonesOpen, OwnedZones, Owned, Visible
    <3>4. DOMAIN w = Visible(live, currentZones[c]) \cup Owned(live, c) BY <2>2, <2>5, <3>3
    <3>5. FieldsAgree(w, pk, frames[c]) /\ opened \subseteq DOMAIN pk BY <1>4, <2>3, <2>5
    <3>6. PICK w2 \in View : /\ Delivers(InterestMessages(pk, live, c, zones), w, w2)
                             /\ DOMAIN w2 = Visible(live, zones)
                             /\ FieldsAgree(w2, pk, frames[c])
      BY <1>2, <1>4, <3>2, <3>4, <3>5, InterestDelivers, ZenonT(40)
    <3>7. currentZones'[i] = zones BY <1>1, <2>1, <2>4, <2>5
    <3>8. Agrees(i, w2)' BY <1>1, <2>5, <3>6, <3>7 DEF Agrees
    <3>9. QED BY <3>1, <3>6, <3>8
  <2>6. CASE i # c
    <3>1. out[i] = <<>> BY <2>1, <2>6
    <3>2. currentZones'[i] = currentZones[i] BY <1>1, <2>1, <2>4, <2>6
    <3>3. Agrees(i, w)' BY <1>1, <2>2, <2>3, <3>2 DEF Agrees
    <3>4. QED BY <3>1, <3>3, DeliversNothing
  <2>7. QED BY <2>5, <2>6
<1>. HIDE DEF out
<1>8. QED BY <1>1, <1>6, <1>7, SendKeepsChains
-------------------------------------------------------------------------------
(* Snapshots *)

(* Packing again changes a field only by moving its change tick to now.    *)
LEMMA RepackEffect ==
  ASSUME NEW prev, NEW s, NEW t, NEW f \in Fields
  PROVE  \/ Repack(prev, s, t).val[f] = prev.val[f] /\ Repack(prev, s, t).chg[f] = prev.chg[f]
         \/ Repack(prev, s, t).chg[f] = t
<1>. DEFINE changed == CalcDelta(prev.val, s)
<1>1. CASE changed = {}
  <2>1. Repack(prev, s, t) = prev BY <1>1 DEF Repack
  <2>2. QED BY <2>1
<1>2. CASE changed # {}
  <2>1. Repack(prev, s, t) = [val |-> s, chg |-> SetChangeTick(prev.chg, changed, t)]
    BY <1>2 DEF Repack
  <2>2. Repack(prev, s, t).val = s /\ Repack(prev, s, t).chg = SetChangeTick(prev.chg, changed, t)
    BY <2>1
  <2>3. CASE f \in changed
    <3>1. SetChangeTick(prev.chg, changed, t)[f] = t BY <2>3 DEF SetChangeTick
    <3>2. QED BY <2>2, <3>1
  <2>4. CASE f \notin changed
    <3>1. SetChangeTick(prev.chg, changed, t)[f] = prev.chg[f] BY <2>4 DEF SetChangeTick
    <3>2. prev.val[f] = s[f] BY <2>4 DEF CalcDelta
    <3>3. QED BY <2>2, <3>1, <3>2
  <2>5. QED BY <2>3, <2>4
<1>3. QED BY <1>1, <1>2

LEMMA RepackedEffect ==
  ASSUME NEW ids, NEW d \in DOMAIN packs, NEW f \in Fields
  PROVE  \/ /\ Repacked(ids)[d].val[f] = packs[d].val[f]
            /\ Repacked(ids)[d].chg[f] = packs[d].chg[f]
         \/ Repacked(ids)[d].chg[f] = tick
<1>1. CASE d \in ids
  <2>1. Repacked(ids)[d] = Repack(packs[d], live[d].state, tick)
    BY <1>1 DEF Repacked, PackObjectInSnapshot
  <2>2. QED BY <2>1, RepackEffect
<1>2. CASE d \notin ids
  <2>1. Repacked(ids)[d] = packs[d] BY <1>2 DEF Repacked
  <2>2. QED BY <2>1
<1>3. QED BY <1>1, <1>2

(* A snapshot in full or as a difference to an acknowledged frame: after   *)
(* it the replica has the values of the packets.                           *)
LEMMA SnapshotDelivers ==
  ASSUME TypeOK, Bookkeeping, NEW c \in Clients, NEW w \in View, Agrees(c, w),
         NEW seen, NEW due, c \in due, tick <= MaxTick,
         Repacked(seen) \in Tables(PackedObject(-1 .. MaxTick)),
         FormatSnapshot(Repacked(seen), Recorded(due)[c], c) \in Message
  PROVE  \E w2 \in View :
           /\ Delivers(<<FormatSnapshot(Repacked(seen), Recorded(due)[c], c)>>, w, w2)
           /\ DOMAIN w2 = DOMAIN w
           /\ \A d \in DOMAIN w, f \in Fields : w2[d][f] = Repacked(seen)[d].val[f]
<1>. DEFINE pk == Repacked(seen)
            ids == Visible(live, currentZones[c])
            m == FormatSnapshot(pk, Recorded(due)[c], c)
            w2 == WithFields(w, m.objs)
            Good == /\ m.kind = "tick" /\ DOMAIN m.objs \subseteq DOMAIN w
                    /\ \A d \in DOMAIN w, f \in Fields : w2[d][f] = pk[d].val[f]
<1>0. m \in Message OBVIOUS
<1>1. DOMAIN w = ids /\ FieldsAgree(w, packs, frames[c]) BY DEF Agrees
<1>2. DOMAIN w \subseteq DOMAIN packs /\ DOMAIN packs \subseteq DOMAIN pk
  BY <1>1 DEF FieldsAgree, Repacked
<1>3. ASSUME ~ HasClientFrame(Recorded(due)[c], acked[c]) PROVE Good
  <2>1. m = Snapshot(tick, FALSE, ClientFormatSnapshot(pk, ids)) BY <1>3 DEF FormatSnapshot
  <2>2. m.kind = "tick" /\ m.objs = [d \in ids |-> pk[d].val]
    BY <2>1 DEF Snapshot, ClientFormatSnapshot
  <2>3. DOMAIN m.objs = ids /\ \A d \in ids : m.objs[d] = pk[d].val BY <2>2
  <2>4. \A d \in ids : DOMAIN pk[d].val = Fields
    <3>1. \A d \in ids : pk[d].val \in State BY <1>1, <1>2, PackFields
    <3>2. QED BY <3>1 DEF State
  <2>. HIDE DEF m, pk
  <2>5. \A d \in DOMAIN w, f \in Fields : w2[d][f] = pk[d].val[f]
    BY <1>1, <2>3, <2>4 DEF WithFields, UnpackObjectState
  <2>6. QED BY <1>1, <2>2, <2>3, <2>5
<1>4. ASSUME HasClientFrame(Recorded(due)[c], acked[c]) PROVE Good
  <2>. DEFINE changed(d) == FieldsChangedAfterTick(pk[d].chg, acked[c])
              sent == {i \in ids : changed(i) # {}}
  <2>1. m = Snapshot(tick, TRUE, ClientFormatDeltaSnapshot(pk, ids, acked[c]))
    BY <1>4 DEF FormatSnapshot
  <2>2. m.kind = "tick" /\ m.objs = ClientFormatDeltaSnapshot(pk, ids, acked[c])
    BY <2>1 DEF Snapshot
  <2>3. m.objs = [d \in sent |-> [f \in changed(d) |-> pk[d].val[f]]]
    BY <2>2 DEF ClientFormatDeltaSnapshot
  <2>4. /\ DOMAIN m.objs = sent
        /\ \A d \in sent : /\ DOMAIN m.objs[d] = changed(d)
                           /\ \A f \in changed(d) : m.objs[d][f] = pk[d].val[f]
    BY <2>3
  <2>5. PICK k \in DOMAIN frames[c] : frames[c][k] = acked[c]
    <3>1. PICK j \in DOMAIN AddClientFrame(frames[c], tick) :
            AddClientFrame(frames[c], tick)[j] = acked[c]
      BY <1>4 DEF Recorded, HasClientFrame
    <3>2. frames[c] \in Seq(Nat) /\ Len(frames[c]) <= MaxFrames /\ tick \in Nat BY DEF TypeOK
    <3>3. acked[c] # tick
      <4>1. acked[c] <= deltaTick[c] /\ deltaTick[c] < tick BY DEF Bookkeeping, PipelineOrdered
      <4>2. acked[c] \in Int /\ deltaTick[c] \in Int /\ tick \in Int BY DEF TypeOK
      <4>3. QED BY <4>1, <4>2
    <3>4. QED BY <3>1, <3>2, <3>3, AddClientFrameTyped
  <2>6. acked[c] \in Int /\ tick \in Int /\ acked[c] < tick
    <3>1. acked[c] <= deltaTick[c] /\ deltaTick[c] < tick BY DEF Bookkeeping, PipelineOrdered
    <3>2. acked[c] \in Int /\ deltaTick[c] \in Int /\ tick \in Int BY DEF TypeOK
    <3>3. QED BY <3>1, <3>2
  <2>7. ASSUME NEW d \in DOMAIN w, NEW f \in Fields PROVE w2[d][f] = pk[d].val[f]
    <3>1. CASE f \in changed(d)
      <4>1. d \in sent BY <1>1, <3>1
      <4>2. w2[d] = UnpackObjectState(w[d], m.objs[d]) BY <2>4, <4>1 DEF WithFields
      <4>3. w2[d][f] = m.objs[d][f] BY <2>4, <3>1, <4>1, <4>2 DEF UnpackObjectState
      <4>4. QED BY <2>4, <3>1, <4>1, <4>3
    <3>2. CASE f \notin changed(d)
      <4>1. w2[d][f] = w[d][f]
        <5>1. CASE d \in sent
          <6>1. w2[d] = UnpackObjectState(w[d], m.objs[d]) BY <2>4, <5>1 DEF WithFields
          <6>2. QED BY <2>4, <3>2, <5>1, <6>1 DEF UnpackObjectState
        <5>2. CASE d \notin sent BY <2>4, <5>2 DEF WithFields
        <5>3. QED BY <5>1, <5>2
      <4>2. pk[d].chg[f] \in Int /\ packs[d].chg[f] \in Int
        <5>1. packs \in Tables(PackedObject(-1 .. MaxTick)) BY DEF TypeOK
        <5>2. pk[d].chg[f] \in -1 .. MaxTick /\ packs[d].chg[f] \in -1 .. MaxTick
          BY <1>2, <5>1, PackFields
        <5>3. QED BY <5>2, BoundsAssumption
      <4>3. ~ (pk[d].chg[f] > acked[c]) BY <3>2 DEF FieldsChangedAfterTick
      <4>4. pk[d].chg[f] # tick BY <2>6, <4>2, <4>3
      <4>5. pk[d].val[f] = packs[d].val[f] /\ pk[d].chg[f] = packs[d].chg[f]
        BY <1>2, <4>4, RepackedEffect
      <4>6. ~ (frames[c][k] < packs[d].chg[f]) BY <2>5, <2>6, <4>2, <4>3, <4>5
      <4>7. w[d][f] = packs[d].val[f] BY <1>1, <2>5, <4>6 DEF FieldsAgree
      <4>8. QED BY <4>1, <4>5, <4>7
    <3>3. QED BY <3>1, <3>2
  <2>8. DOMAIN m.objs \subseteq ids BY <2>4
  <2>. HIDE DEF m, pk
  <2>9. QED BY <1>1, <2>2, <2>7, <2>8
<1>5. Good BY <1>3, <1>4
<1>. HIDE DEF m
<1>6. Fits(m, w) /\ Apply(m, w) = w2 BY <1>5 DEF Fits, Apply
<1>7. Delivers(<<m>>, w, w2) /\ w2 \in View BY <1>0, <1>6, DeliversOne, ApplyTyped
<1>8. DOMAIN w2 = DOMAIN w BY DEF WithFields
<1>9. QED BY <1>5, <1>7, <1>8 DEF m
LEMMA TakeTickSnapshotChains ==
  ASSUME TypeOK, Bookkeeping, ChainInv, NEW due \in SUBSET Clients, TakeTickSnapshot(due)
  PROVE  ChainInv'
<1>. DEFINE seen == Visible(live, UNION {currentZones[c] : c \in due})
            pk == Repacked(seen)
            fr == Recorded(due)
            out == [c \in Clients |-> IF c \in due THEN <<FormatSnapshot(pk, fr[c], c)>> ELSE <<>>]
<1>1. /\ tick <= MaxTick /\ packs' = pk /\ frames' = fr /\ Send(out)
      /\ UNCHANGED <<live, svUp, currentZones, view, clUp>>
  BY DEF TakeTickSnapshot, client
<1>2. pk \in Tables(PackedObject(-1 .. MaxTick))
  <2>1. TypeOK' BY TakeTickSnapshotTyped
  <2>2. QED BY <1>1, <2>1 DEF TypeOK
<1>3. \A c \in due : FormatSnapshot(pk, fr[c], c) \in Message BY <1>2, SnapshotTyped
<1>4. out \in [Clients -> Seq(Message)]
  <2>1. ASSUME NEW c \in Clients
        PROVE  (IF c \in due THEN <<FormatSnapshot(pk, fr[c], c)>> ELSE <<>>) \in Seq(Message)
    <3>. HIDE DEF pk, fr
    <3>1. QED BY <1>3
  <2>. HIDE DEF pk, fr
  <2>2. QED BY <2>1
<1>5. ASSUME NEW c \in Deliverable, NEW w \in View, Agrees(c, w)
      PROVE  \E w2 \in View : Delivers(out[c], w, w2) /\ (c \in svUp' => Agrees(c, w2)')
  <2>1. c \in Clients BY DEF Deliverable, TypeOK
  <2>2. DOMAIN w = Visible(live, currentZones[c]) /\ FieldsAgree(w, packs, frames[c])
    BY <1>5 DEF Agrees
  <2>3. DOMAIN w \subseteq DOMAIN packs /\ DOMAIN packs \subseteq DOMAIN pk
    BY <2>2 DEF FieldsAgree, Repacked
  <2>4. CASE c \in due
    <3>1. out[c] = <<FormatSnapshot(pk, fr[c], c)>> BY <2>1, <2>4
    <3>2. PICK w2 \in View :
            /\ Delivers(<<FormatSnapshot(pk, fr[c], c)>>, w, w2)
            /\ DOMAIN w2 = DOMAIN w
            /\ \A d \in DOMAIN w, f \in Fields : w2[d][f] = pk[d].val[f]
      <4>1. FormatSnapshot(pk, fr[c], c) \in Message BY <1>3, <2>4
      <4>. HIDE DEF seen
      <4>2. QED BY <1>1, <1>2, <1>5, <2>1, <2>4, <4>1, SnapshotDelivers
    <3>3. FieldsAgree(w2, pk, fr[c]) BY <2>3, <3>2 DEF FieldsAgree
    <3>4. Agrees(c, w2)' BY <1>1, <2>2, <3>2, <3>3 DEF Agrees
    <3>5. QED BY <3>1, <3>2, <3>4
  <2>5. CASE c \notin due
    <3>1. out[c] = <<>> /\ fr[c] = frames[c] BY <2>1, <2>5 DEF Recorded
    <3>2. \A i \in DOMAIN frames[c] : frames[c][i] < tick
      BY <2>1 DEF Bookkeeping, PipelineOrdered
    <3>3. ASSUME NEW d \in DOMAIN w, NEW f \in Fields
          PROVE  w[d][f] = pk[d].val[f] \/ \A i \in DOMAIN frames[c] : frames[c][i] < pk[d].chg[f]
      <4>1. w[d][f] = packs[d].val[f] \/ \A i \in DOMAIN frames[c] : frames[c][i] < packs[d].chg[f]
        BY <2>2 DEF FieldsAgree
      <4>2. \/ pk[d].val[f] = packs[d].val[f] /\ pk[d].chg[f] = packs[d].chg[f]
            \/ pk[d].chg[f] = tick
        BY <2>3, RepackedEffect
      <4>. HIDE DEF pk
      <4>3. CASE pk[d].chg[f] = tick BY <3>2, <4>3
      <4>4. CASE pk[d].val[f] = packs[d].val[f] /\ pk[d].chg[f] = packs[d].chg[f] BY <4>1, <4>4
      <4>5. QED BY <4>2, <4>3, <4>4
    <3>4. FieldsAgree(w, pk, frames[c]) BY <2>3, <3>3 DEF FieldsAgree
    <3>5. Agrees(c, w)' BY <1>1, <2>2, <3>1, <3>4 DEF Agrees
    <3>6. Delivers(out[c], w, w) BY <3>1, DeliversNothing
    <3>7. QED BY <3>5, <3>6
  <2>6. QED BY <2>4, <2>5
<1>. HIDE DEF out
<1>6. svUp' \subseteq svUp BY <1>1
<1>7. QED BY <1>1, <1>4, <1>5, <1>6, SendKeepsChains

(* The other server actions send nothing and leave objects, interests,     *)
(* packets and frames alone.                                               *)
LEMMA SetFieldChains ==
  ASSUME TypeOK, ChainInv, NEW d \in DoIds, NEW f \in Fields, NEW v \in Values, SetField(d, f, v)
  PROVE  ChainInv'
<1>1. DOMAIN live' = DOMAIN live /\ \A i \in DOMAIN live : live'[i].zone = live[i].zone
  <2>1. \A i \in DOMAIN live : live[i] \in Object BY ObjectFields DEF TypeOK
  <2>2. QED BY <2>1 DEF SetField, Object
<1>2. \A zones : Visible(live', zones) = Visible(live, zones) BY <1>1 DEF Visible
<1>3. UNCHANGED <<packs, svUp, currentZones, frames, clUp, view, toClient>>
  BY DEF SetField, client
<1>4. \A c, w : Agrees(c, w) => Agrees(c, w)' BY <1>2, <1>3 DEF Agrees
<1>5. QED BY <1>3, <1>4 DEF ChainInv

-------------------------------------------------------------------------------
(* Client actions *)

(* The head of the queue is taken, and the replica becomes what the        *)
(* message makes of it.                                                    *)
LEMMA ReceiveKeepsChains ==
  ASSUME TypeOK, ChainInv, NEW c \in Clients, NEW kind, Receive(c, kind),
         view' = [view EXCEPT ![c] = Apply(Head(toClient[c]), view[c])]
  PROVE  ChainInv'
<1>1. /\ c \in clUp /\ toClient[c] # <<>> /\ UNCHANGED <<server, clUp>>
      /\ toClient'[c] = Tail(toClient[c])
      /\ \A i \in Clients \ {c} : toClient'[i] = toClient[i]
  BY Received
<1>2. view'[c] = Apply(Head(toClient[c]), view[c]) /\ \A i \in Clients \ {c} : view'[i] = view[i]
  BY DEF TypeOK
<1>3. \A i, w : Agrees(i, w) => Agrees(i, w)' BY <1>1 DEF Agrees, server
<1>. SUFFICES ASSUME NEW i \in clUp
              PROVE  \E w \in View : /\ Delivers(toClient'[i], view'[i], w)
                                     /\ i \in svUp => Agrees(i, w)'
  BY <1>1 DEF ChainInv, server
<1>4. i \in Clients /\ toClient[i] \in Seq(Message) BY DEF TypeOK
<1>5. PICK w \in View : Delivers(toClient[i], view[i], w) /\ (i \in svUp => Agrees(i, w))
  BY DEF ChainInv
<1>6. CASE i = c
  <2>1. Delivers(Tail(toClient[c]), Apply(Head(toClient[c]), view[c]), w)
    BY <1>1, <1>4, <1>5, <1>6, DeliversTail
  <2>2. QED BY <1>1, <1>2, <1>3, <1>5, <1>6, <2>1
<1>7. CASE i # c BY <1>1, <1>2, <1>3, <1>4, <1>5, <1>7
<1>8. QED BY <1>6, <1>7

LEMMA HeadFits ==
  ASSUME TypeOK, ChainInv, NEW c \in clUp, toClient[c] # <<>>
  PROVE  Fits(Head(toClient[c]), view[c])
<1>1. PICK w \in View : Delivers(toClient[c], view[c], w) BY DEF ChainInv
<1>2. toClient[c] \in Seq(Message) BY DEF TypeOK
<1>3. QED BY <1>1, <1>2, DeliversTail

(* Whatever the message, the client takes it and applies it in full.       *)
LEMMA HandleServerTickApplies ==
  ASSUME TypeOK, Bookkeeping, ChainInv, NEW c \in Clients, HandleServerTick(c)
  PROVE  Receive(c, "tick") /\ view' = [view EXCEPT ![c] = Apply(Head(toClient[c]), view[c])]
<1>. DEFINE m == Head(toClient[c])
            known == DOMAIN m.objs \cap DOMAIN view[c]
<1>1. Receive(c, "tick") BY DEF HandleServerTick
<1>2. m \in Message /\ m.kind = "tick" /\ c \in clUp /\ toClient[c] # <<>>
  BY <1>1, ReceiveTyped, Received
<1>3. known = DOMAIN m.objs
  <2>1. Fits(m, view[c]) BY <1>2, HeadFits
  <2>2. DOMAIN m.objs \subseteq DOMAIN view[c] BY <1>2, <2>1 DEF Fits
  <2>3. QED BY <2>2
<1>4. ~ (m.delta /\ deltaTick[c] < 0)
  <2>1. 1 \in DOMAIN toClient[c] /\ m = toClient[c][1] BY <1>1, Received
  <2>2. deltaTick[c] \in Int BY DEF TypeOK
  <2>3. deltaTick[c] >= 0 \/ ~ m.delta BY <1>2, <2>1 DEF Bookkeeping, ReferenceKnown
  <2>4. QED BY <2>2, <2>3
<1>5. PICK unpacked \in SUBSET known :
        /\ DOMAIN m.objs = known => unpacked = known
        /\ view' = [view EXCEPT ![c] = WithFields(@, Restrict(m.objs, unpacked))]
  BY <1>4 DEF HandleServerTick
<1>6. Restrict(m.objs, unpacked) = m.objs
  <2>1. unpacked = DOMAIN m.objs BY <1>3, <1>5
  <2>2. m.objs \in Tables(Patch) BY <1>2, MessageKinds
  <2>3. m.objs = [d \in DOMAIN m.objs |-> m.objs[d]] BY <2>2, TablesElim
  <2>4. QED BY <2>1, <2>3 DEF Restrict
<1>7. view' = [view EXCEPT ![c] = WithFields(@, m.objs)] BY <1>5, <1>6
<1>8. Apply(m, view[c]) = WithFields(view[c], m.objs) BY <1>2 DEF Apply
<1>9. view' = [view EXCEPT ![c] = Apply(m, view[c])] BY <1>7, <1>8
<1>10. QED BY <1>1, <1>9

LEMMA HandleApplies ==
  ASSUME TypeOK, Bookkeeping, ChainInv, NEW c \in Clients,
         HandleGenerateObject(c) \/ HandleDeleteObject(c) \/ HandleServerTick(c)
  PROVE  \E kind : /\ Receive(c, kind)
                    /\ view' = [view EXCEPT ![c] = Apply(Head(toClient[c]), view[c])]
<1>1. CASE HandleGenerateObject(c)
  <2>1. Receive(c, "generate") /\ Head(toClient[c]).kind = "generate"
        /\ view' = [view EXCEPT ![c] = WithObjects(@, Head(toClient[c]).objs)]
    BY <1>1 DEF HandleGenerateObject, Receive
  <2>2. view' = [view EXCEPT ![c] = Apply(Head(toClient[c]), view[c])] BY <2>1 DEF Apply
  <2>3. QED BY <2>1, <2>2
<1>2. CASE HandleDeleteObject(c)
  <2>1. Receive(c, "delete") /\ Head(toClient[c]).kind = "delete"
        /\ view' = [view EXCEPT ![c] = Restrict(@, DOMAIN @ \ Head(toClient[c]).ids)]
    BY <1>2 DEF HandleDeleteObject, Receive
  <2>2. view' = [view EXCEPT ![c] = Apply(Head(toClient[c]), view[c])] BY <2>1 DEF Apply
  <2>3. QED BY <2>1, <2>2
<1>3. CASE HandleServerTick(c) BY <1>3, HandleServerTickApplies
<1>4. QED BY <1>1, <1>2, <1>3

LEMMA ConnectChains ==
  ASSUME TypeOK, Bookkeeping, ChainInv, NEW c \in Clients, Connect(c)
  PROVE  ChainInv'
<1>1. /\ svUp' = svUp \cup {c} /\ clUp' = clUp \cup {c} /\ c \notin svUp /\ c \notin clUp
      /\ UNCHANGED <<live, packs, currentZones, frames, view, toClient>>
  BY DEF Connect
<1>2. \A i, w : Agrees(i, w) => Agrees(i, w)' BY <1>1 DEF Agrees
<1>. SUFFICES ASSUME NEW i \in clUp'
              PROVE  \E w \in View : /\ Delivers(toClient[i], view[i], w)
                                     /\ i \in svUp' => Agrees(i, w)'
  BY <1>1 DEF ChainInv
<1>3. CASE i # c BY <1>1, <1>2, <1>3 DEF ChainInv
<1>4. CASE i = c
  <2>1. toClient[i] = <<>> /\ view[i] = NoTable /\ currentZones[i] = {}
    BY <1>1, <1>4 DEF Bookkeeping, Records
  <2>2. NoTable \in View /\ DOMAIN NoTable = {} BY NoTableTyped DEF View
  <2>3. Delivers(toClient[i], view[i], NoTable) BY <2>1, <2>2, DeliversNothing
  <2>4. Agrees(i, NoTable) BY <2>1, <2>2 DEF Agrees, Visible, FieldsAgree
  <2>5. QED BY <1>2, <2>2, <2>3, <2>4
<1>5. QED BY <1>3, <1>4

-------------------------------------------------------------------------------
(* The inductive invariant *)

LEMMA InitChains == Init => ChainInv
  BY DEF Init, ChainInv

LEMMA ChainStep == IInv /\ [Next]_vars => ChainInv'
<1>. SUFFICES ASSUME TypeOK, Bookkeeping, ChainInv, [Next]_vars PROVE ChainInv' BY DEF IInv
<1>1. CASE ServerStep
  <2>1. ASSUME NEW c \in Clients, ServerReceiveTick(c) PROVE ChainInv'
    BY <2>1 DEF ServerReceiveTick, ChainInv, Agrees, client
  <2>2. QED
    BY <1>1, <2>1, GenerateObjectChains, DeleteObjectChains, SetFieldChains, ChangeInterestChains,
       TakeTickSnapshotChains, ServerDisconnectChains DEF ServerStep
<1>2. CASE ClientStep
  <2>1. ASSUME NEW c \in Clients,
               HandleGenerateObject(c) \/ HandleDeleteObject(c) \/ HandleServerTick(c)
        PROVE  ChainInv'
    BY <2>1, HandleApplies, ReceiveKeepsChains
  <2>2. ASSUME NEW c \in Clients, SendTick(c) PROVE ChainInv'
    BY <2>2 DEF SendTick, ChainInv, Agrees, server, client
  <2>3. ASSUME NEW c \in Clients, ClientDisconnect(c) PROVE ChainInv'
    <3>1. /\ clUp' = clUp \ {c} /\ UNCHANGED server
          /\ \A i \in clUp \ {c} : UNCHANGED <<view[i], toClient[i]>>
      BY <2>3 DEF ClientDisconnect, TypeOK
    <3>2. \A i, w : Agrees(i, w) => Agrees(i, w)' BY <3>1 DEF Agrees, server
    <3>3. QED BY <3>1, <3>2 DEF ChainInv, server
  <2>4. QED BY <1>2, <2>1, <2>2, <2>3, ConnectChains DEF ClientStep
<1>3. CASE UNCHANGED vars BY <1>3 DEF vars, server, client, ChainInv, Agrees
<1>4. QED BY <1>1, <1>2, <1>3 DEF Next

(* The messages in flight are always a chain of replicas that all fit, and *)
(* its end agrees with the packets of the server.                          *)
THEOREM InvariantHolds == Spec => []IInv
<1>1. Init => IInv BY InitTyped, BookkeepingInit, InitChains DEF IInv
<1>2. IInv /\ [Next]_vars => IInv' BY NextTyped, BookkeepingStep, ChainStep DEF IInv
<1>3. QED BY <1>1, <1>2, PTL DEF Spec

(* No interleaving of interest changes, generates, deletes and snapshots   *)
(* makes a message reach a client whose replica it does not fit: the       *)
(* client never generates twice, deletes the unknown, or gives up          *)
(* unpacking a snapshot half-way.                                          *)
THEOREM MessagesAlwaysFit == Spec => []MessagesFit
<1>1. IInv => MessagesFit BY HeadFits DEF IInv, MessagesFit
<1>2. QED BY <1>1, InvariantHolds, PTL

(* A client that was part of the last snapshot and has received everything *)
(* holds exactly the objects it sees, each with the packed state: delta    *)
(* compression against an acknowledged frame loses nothing.                *)
THEOREM ReplicasConverge == Spec => []Converged
<1>1. IInv => Converged
  <2>. SUFFICES ASSUME TypeOK, Bookkeeping, ChainInv, NEW c \in Deliverable,
                       toClient[c] = <<>>, NEW i \in DOMAIN frames[c], frames[c][i] = tick - 1
                PROVE  /\ DOMAIN view[c] = Visible(live, currentZones[c])
                       /\ \A d \in DOMAIN view[c] : d \in DOMAIN packs /\ view[c][d] = packs[d].val
    BY DEF IInv, Converged
  <2>1. c \in clUp /\ c \in svUp /\ c \in Clients BY DEF Deliverable, TypeOK
  <2>2. PICK w \in View : Delivers(toClient[c], view[c], w) /\ Agrees(c, w)
    BY <2>1 DEF ChainInv
  <2>3. view[c] = w BY <2>2 DEF Delivers, IsChain
  <2>4. DOMAIN w = Visible(live, currentZones[c]) /\ FieldsAgree(w, packs, frames[c])
    BY <2>2 DEF Agrees
  <2>5. ASSUME NEW d \in DOMAIN w PROVE d \in DOMAIN packs /\ w[d] = packs[d].val
    <3>1. d \in DOMAIN packs BY <2>4 DEF FieldsAgree
    <3>2. packs \in Tables(PackedObject(-1 .. MaxTick)) /\ tick \in Int BY DEF TypeOK
    <3>3. packs[d].val \in State /\ w[d] \in State BY <2>2, <3>1, <3>2, PackFields, TablesElim DEF View
    <3>4. ASSUME NEW f \in Fields PROVE w[d][f] = packs[d].val[f]
      <4>1. packs[d].chg[f] \in -1 .. MaxTick BY <3>1, <3>2, PackFields
      <4>2. packs[d].chg[f] \in Int BY <4>1, BoundsAssumption
      <4>3. packs[d].chg[f] < tick BY <3>1 DEF Bookkeeping, PacksOld
      <4>4. ~ (frames[c][i] < packs[d].chg[f]) BY <3>2, <4>2, <4>3
      <4>5. QED BY <2>4, <4>4 DEF FieldsAgree
    <3>5. w[d] = packs[d].val BY <3>3, <3>4 DEF State
    <3>6. QED BY <3>1, <3>5
  <2>6. QED BY <2>3, <2>4, <2>5
<1>2. QED BY <1>1, InvariantHolds, PTL

-------------------------------------------------------------------------------
(* The images that messages in flight lead to                              *)

(* Every set of numbers has a least one.                                   *)
LEMMA Least ==
  ASSUME NEW S \in SUBSET Nat, S # {}
  PROVE  \E n \in S : \A m \in S : n <= m
<1>1. PICK R : R = {p \in Nat \X Nat : p[1] < p[2]} OBVIOUS
<1>2. IsWellFoundedOn(R, Nat)
  <2>1. OpToRel(<, Nat) = R BY <1>1 DEF OpToRel
  <2>2. QED BY <2>1, NatLessThanWellFounded
<1>3. PICK n \in S : \A m \in S : ~ (<<m, n>> \in R) BY <1>2, WFMin
<1>4. ASSUME NEW m \in S PROVE n <= m
  <2>1. m \in Nat /\ n \in Nat /\ <<m, n>> \notin R BY <1>3
  <2>2. <<m, n>> \in Nat \X Nat /\ <<m, n>>[1] = m /\ <<m, n>>[2] = n BY <2>1
  <2>3. ~ (m < n) BY <1>1, <2>1, <2>2
  <2>4. QED BY <2>1, <2>3
<1>5. QED BY <1>4

(* The first n messages lead from one image to the next: this determines   *)
(* the images from the first one on.                                       *)
Follows(p, ch, n) == \A i \in 1 .. n : p[i] = Apply(ch[i], p[i-1])

LEMMA ChainUnique ==
  ASSUME NEW n \in Nat, NEW ch, NEW p, NEW q, p[0] = q[0],
         Follows(p, ch, n), Follows(q, ch, n)
  PROVE  \A i \in 0 .. n : p[i] = q[i]
<1>. DEFINE S == {i \in 0 .. n : p[i] # q[i]}
<1>1. SUFFICES ASSUME S # {} PROVE FALSE OBVIOUS
<1>2. S \in SUBSET Nat OBVIOUS
<1>3. PICK k \in S : \A m \in S : k <= m BY <1>1, <1>2, Least
<1>4. k \in 1 .. n /\ k - 1 \in 0 .. n /\ ~ (k <= k - 1) BY <1>3
<1>5. p[k-1] = q[k-1] BY <1>3, <1>4
<1>6. p[k] = q[k] BY <1>4, <1>5 DEF Follows
<1>7. QED BY <1>3, <1>6

(* Hence the recursive definition of Images computes the chain.            *)
LEMMA ImagesAre ==
  ASSUME NEW ch \in Seq(Message), NEW v, NEW p \in [0 .. Len(ch) -> View], IsChain(p, ch, v)
  PROVE  Images(ch, v) = p
<1>1. PICK n \in Nat : n = Len(ch) OBVIOUS
<1>2. p[0] = v /\ \A i \in 1 .. n : p[i] = Apply(ch[i], p[i-1]) BY <1>1 DEF IsChain
<1>3. p = [i \in 0 .. n |-> IF i = 0 THEN v ELSE Apply(ch[i], p[i-1])]
  <2>1. \A i \in 0 .. n : i = 0 \/ i \in 1 .. n BY <1>1
  <2>2. \A i \in 0 .. n : p[i] = IF i = 0 THEN v ELSE Apply(ch[i], p[i-1]) BY <1>2, <2>1
  <2>3. p = [i \in 0 .. n |-> p[i]] BY <1>1
  <2>4. QED BY <2>2, <2>3
<1>4. PICK q : q = Images(ch, v) OBVIOUS
<1>5. q = [i \in 0 .. n |-> IF i = 0 THEN v ELSE Apply(ch[i], q[i-1])]
  BY <1>1, <1>3, <1>4 DEF Images
<1>6. q[0] = v /\ \A i \in 1 .. n : q[i] = Apply(ch[i], q[i-1])
  <2>1. 0 \in 0 .. n /\ \A i \in 1 .. n : i \in 0 .. n /\ i # 0 BY <1>1
  <2>2. \A i \in 0 .. n : q[i] = IF i = 0 THEN v ELSE Apply(ch[i], q[i-1]) BY <1>5
  <2>3. QED BY <2>1, <2>2
<1>7. \A i \in 0 .. n : p[i] = q[i]
  <2>1. p[0] = q[0] /\ Follows(p, ch, n) /\ Follows(q, ch, n) BY <1>2, <1>6 DEF Follows
  <2>2. QED BY <2>1, ChainUnique
<1>8. q = [i \in 0 .. n |-> q[i]] BY <1>5
<1>9. QED BY <1>1, <1>4, <1>7, <1>8

(* p is the stream of images that the messages ch bring from v to w.       *)
IsStream(p, ch, v, w) ==
  /\ p \in [0 .. Len(ch) -> View] /\ IsChain(p, ch, v) /\ p[Len(ch)] = w
  /\ Arriving(ch, v) = [i \in 1 .. Len(ch) |-> p[i]]

LEMMA ArrivingAre ==
  ASSUME NEW ch \in Seq(Message), NEW v, NEW w, Delivers(ch, v, w)
  PROVE  \E p : IsStream(p, ch, v, w)
<1>1. PICK p \in [0 .. Len(ch) -> View] : IsChain(p, ch, v) /\ p[Len(ch)] = w BY DEF Delivers
<1>2. Images(ch, v) = p BY <1>1, ImagesAre
<1>3. QED BY <1>1, <1>2 DEF Arriving, IsStream

(* What is sent later does not change the images of what was sent before.  *)
LEMMA ChainPrefix ==
  ASSUME NEW a \in Seq(Message), NEW b \in Seq(Message), NEW v, NEW p, NEW r,
         IsChain(p, a, v), IsChain(r, a \o b, v)
  PROVE  \A i \in 0 .. Len(a) : r[i] = p[i]
<1>1. PICK n \in Nat : n = Len(a) OBVIOUS
<1>2. \A i \in 1 .. n : i \in 1 .. Len(a \o b) /\ (a \o b)[i] = a[i] BY <1>1
<1>3. Follows(p, a, n) BY <1>1 DEF IsChain, Follows
<1>4. Follows(r, a, n)
  <2>1. \A i \in 1 .. Len(a \o b) : r[i] = Apply((a \o b)[i], r[i-1]) BY DEF IsChain
  <2>2. QED BY <1>2, <2>1 DEF Follows
<1>5. p[0] = r[0] BY DEF IsChain
<1>6. QED BY <1>1, <1>3, <1>4, <1>5, ChainUnique

(* An announcement adds or removes objects and changes none.               *)
LEMMA AnnouncementKeeps ==
  ASSUME NEW m \in Announcement, NEW v \in View, Fits(m, v)
  PROVE  Promise!SameObjects(v, Apply(m, v))
<1>1. CASE m.kind = "generate"
  <2>1. Apply(m, v) = WithObjects(v, m.objs) BY <1>1 DEF Apply
  <2>2. DOMAIN m.objs \cap DOMAIN v = {} BY <1>1 DEF Fits
  <2>3. \A d \in DOMAIN v : WithObjects(v, m.objs)[d] = v[d] BY <2>2 DEF WithObjects
  <2>4. QED BY <2>1, <2>3 DEF Promise!SameObjects
<1>2. CASE m.kind = "delete"
  <2>1. Apply(m, v) = Restrict(v, DOMAIN v \ m.ids) BY <1>2 DEF Apply
  <2>2. QED BY <2>1 DEF Promise!SameObjects, Restrict
<1>3. QED BY <1>1, <1>2 DEF Announcement, GenerateMsg, DeleteMsg

(* Announcements to a client make its stream of images change as promised. *)
LEMMA StreamGrows ==
  ASSUME TypeOK, ChainInv, ChainInv', NEW c \in Deliverable, UNCHANGED <<view, clUp>>,
         NEW out \in Seq(Announcement), toClient'[c] = toClient[c] \o out
  PROVE  /\ \A i \in 1 .. Len(Pipe[c]) : Pipe'[c][i] = Pipe[c][i]
         /\ c \in svUp' => Promise!StreamChanges(c)
<1>1. PICK a \in Seq(Message) : a = toClient[c] BY DEF TypeOK, Deliverable
<1>2. PICK v \in View : v = view[c] /\ v = view'[c] BY DEF TypeOK, Deliverable
<1>3. out \in Seq(Message)
  <2>1. Announcement \subseteq Message BY DEF Announcement, Message
  <2>2. QED BY <2>1
<1>4. c \in clUp /\ c \in clUp' /\ c \in Clients BY DEF Deliverable, TypeOK
<1>5. PICK w : Delivers(a, v, w) BY <1>1, <1>2, <1>4 DEF ChainInv
<1>6. PICK p : IsStream(p, a, v, w) BY <1>5, ArrivingAre
<1>7. PICK x : /\ Delivers(a \o out, v, x)
               /\ c \in svUp' => DOMAIN x = Visible(live', currentZones'[c])
  <2>1. \E x \in View : Delivers(toClient'[c], view'[c], x) /\ (c \in svUp' => Agrees(c, x)')
    BY <1>4 DEF ChainInv
  <2>2. QED BY <1>1, <1>2, <2>1 DEF Agrees
<1>8. PICK ch \in Seq(Message) : ch = a \o out
  <2>1. a \o out \in Seq(Message) BY <1>3
  <2>2. QED BY <2>1
<1>9. PICK r : IsStream(r, a \o out, v, x)
  <2>1. Delivers(ch, v, x) BY <1>7, <1>8
  <2>2. \E r : IsStream(r, ch, v, x) BY <2>1, ArrivingAre
  <2>3. QED BY <1>8, <2>2
<1>10. PICK n \in Nat, k \in Nat : n = Len(a) /\ k = Len(out) BY <1>3
<1>11. Len(a \o out) = n + k BY <1>3, <1>10
<1>12. \A i \in 0 .. n : r[i] = p[i]
  <2>1. IsChain(p, a, v) /\ IsChain(r, a \o out, v) BY <1>6, <1>9 DEF IsStream
  <2>2. \A i \in 0 .. Len(a) : r[i] = p[i] BY <1>3, <2>1, ChainPrefix
  <2>3. QED BY <1>10, <2>2
<1>13. ASSUME NEW i \in n + 1 .. n + k PROVE Promise!SameObjects(r[i-1], r[i])
  <2>1. i \in 1 .. n + k /\ i - 1 \in 0 .. n + k /\ i - n \in 1 .. k BY <1>10
  <2>2. (a \o out)[i] = out[i-n] BY <1>3, <1>10, <2>1
  <2>3. out[i-n] \in Announcement BY <1>10, <2>1
  <2>4. r[i-1] \in View BY <1>9, <1>11, <2>1 DEF IsStream
  <2>5. Fits((a \o out)[i], r[i-1]) /\ r[i] = Apply((a \o out)[i], r[i-1])
    BY <1>9, <1>11, <2>1 DEF IsStream, IsChain
  <2>6. QED BY <2>2, <2>3, <2>4, <2>5, AnnouncementKeeps
<1>14. Pipe[c] = [i \in 1 .. n |-> p[i]] /\ Pipe'[c] = [i \in 1 .. n + k |-> r[i]]
  BY <1>1, <1>2, <1>4, <1>6, <1>9, <1>10, <1>11 DEF Pipe, IsStream
<1>15. Len(Pipe[c]) = n /\ Len(Pipe'[c]) = n + k BY <1>10, <1>14
<1>16. Promise!Newest(c) = r[n]
  <2>1. p[0] = view[c] BY <1>2, <1>6 DEF IsStream, IsChain
  <2>2. CASE n = 0
    <3>1. Pipe[c] = <<>> BY <1>14, <2>2
    <3>2. QED BY <1>12, <2>1, <2>2, <3>1 DEF Promise!Newest
  <2>3. CASE n # 0
    <3>1. Pipe[c] # <<>> /\ Pipe[c][n] = p[n] BY <1>10, <1>14, <1>15, <2>3
    <3>2. QED BY <1>10, <1>12, <1>15, <3>1 DEF Promise!Newest
  <2>4. QED BY <2>2, <2>3
<1>17. c \in svUp' => DOMAIN Seen'[c] = DOMAIN r[n+k] BY <1>4, <1>7, <1>9, <1>11 DEF Seen, IsStream
<1>18. PICK s : s = Promise!Newest(c) /\ s = r[n] BY <1>16
<1>19. PICK y : y = Pipe'[c] /\ y = [i \in 1 .. n + k |-> r[i]] BY <1>14
<1>20. PICK z : z = Pipe[c] /\ z = [i \in 1 .. n |-> p[i]] BY <1>14
<1>21. Len(y) = n + k /\ Len(z) = n BY <1>15, <1>19, <1>20
<1>22. \A i \in n .. n + k : r[i] = IF i = n THEN s ELSE y[i]
  <2>1. \A i \in n .. n + k : i = n \/ i \in 1 .. n + k BY <1>10
  <2>2. QED BY <1>18, <1>19, <2>1
<1>23. \A i \in 1 .. n : y[i] = z[i]
  <2>1. \A i \in 1 .. n : i \in 0 .. n /\ i \in 1 .. n + k BY <1>10
  <2>2. QED BY <1>12, <1>19, <1>20, <2>1
<1>24. \A i \in n + 1 .. n + k :
         Promise!SameObjects(IF i - 1 = n THEN s ELSE y[i-1], IF i = n THEN s ELSE y[i])
  <2>1. \A i \in n + 1 .. n + k : i \in n .. n + k /\ i - 1 \in n .. n + k BY <1>10
  <2>2. QED BY <1>13, <1>22, <2>1
<1>25. c \in svUp' => DOMAIN (IF n + k = n THEN s ELSE y[n+k]) = DOMAIN Seen'[c]
  <2>1. n + k \in n .. n + k BY <1>10
  <2>2. QED BY <1>17, <1>22, <2>1
<1>26. n + k >= n BY <1>10
<1>27. QED BY <1>18, <1>19, <1>20, <1>21, <1>23, <1>24, <1>25, <1>26 DEF Promise!StreamChanges

(* A step that sends announcements only changes the streams as promised.   *)
LEMMA Announced ==
  ASSUME TypeOK, ChainInv, ChainInv', Announces,
         svUp' \subseteq svUp, UNCHANGED <<tick, view, clUp>>
  PROVE  Promise!WorldChanges
<1>. PICK out \in [Clients -> Seq(Announcement)] :
       toClient' = [c \in Clients |-> IF c \in Deliverable THEN toClient[c] \o out[c]
                                     ELSE toClient[c]]
  BY DEF Announces
<1>1. ASSUME NEW c \in Deliverable
      PROVE  /\ \A i \in 1 .. Len(Pipe[c]) : Pipe'[c][i] = Pipe[c][i]
             /\ c \in svUp' => Promise!StreamChanges(c)
  <2>1. c \in Clients BY DEF TypeOK, Deliverable
  <2>2. toClient'[c] = toClient[c] \o out[c] BY <2>1
  <2>3. out[c] \in Seq(Announcement) BY <2>1
  <2>4. QED BY <2>2, <2>3, StreamGrows
<1>2. ASSUME NEW c \in Clients \ (svUp \cap clUp) PROVE Pipe'[c] = Pipe[c]
  <2>1. toClient'[c] = toClient[c] /\ view'[c] = view[c] BY DEF Deliverable
  <2>2. QED BY <2>1 DEF Pipe
<1>3. \A c \in svUp' \cap clUp : Promise!StreamChanges(c) BY <1>1 DEF Deliverable
<1>4. \A c \in (svUp \ svUp') \cap clUp :
        \A i \in 1 .. Len(Pipe[c]) : Pipe'[c][i] = Pipe[c][i]
  BY <1>1 DEF Deliverable
<1>5. UNCHANGED <<clUp, tick - 1, view>> OBVIOUS
<1>6. QED BY <1>2, <1>3, <1>4, <1>5 DEF Promise!WorldChanges

LEMMA WorldStep ==
  ASSUME TypeOK, ChainInv, ChainInv',
         \/ \E d \in DoIds, z \in Zones, s \in State, o \in svUp \cup {NoClient} :
              GenerateObject(d, z, s, o)
         \/ \E d \in DoIds : DeleteObject(d)
         \/ \E d \in DoIds, f \in Fields, v \in Values : SetField(d, f, v)
         \/ \E c \in Clients, explicit \in SUBSET Zones : ChangeInterest(c, explicit)
         \/ \E c \in Clients : ServerDisconnect(c)
  PROVE  Promise!WorldChanges
<1>1. ASSUME NEW d \in DoIds, NEW z \in Zones, NEW s \in State,
             NEW o \in svUp \cup {NoClient}, GenerateObject(d, z, s, o)
      PROVE  Promise!WorldChanges
  <2>1. svUp' \subseteq svUp /\ UNCHANGED <<tick, view, clUp>>
    BY <1>1 DEF GenerateObject, client
  <2>2. QED BY <1>1, <2>1, GenerateObjectTyped, Announced
<1>2. ASSUME NEW d \in DoIds, DeleteObject(d) PROVE Promise!WorldChanges
  <2>1. svUp' \subseteq svUp /\ UNCHANGED <<tick, view, clUp>> BY <1>2 DEF DeleteObject, client
  <2>2. QED BY <1>2, <2>1, DeleteObjectTyped, Announced
<1>3. ASSUME NEW d \in DoIds, NEW f \in Fields, NEW v \in Values, SetField(d, f, v)
      PROVE  Promise!WorldChanges
  <2>1. /\ svUp' \subseteq svUp
        /\ UNCHANGED <<tick, view, clUp, toClient>>
    BY <1>3 DEF SetField, client
  <2>2. Announces
    <3>1. [c \in Clients |-> <<>>] \in [Clients -> Seq(Announcement)] OBVIOUS
    <3>2. \A c \in Clients : toClient[c] \o <<>> = toClient[c] BY DEF TypeOK
    <3>3. toClient' = [c \in Clients |-> IF c \in Deliverable THEN toClient[c] \o <<>>
                                        ELSE toClient[c]]
      BY <2>1, <3>2 DEF TypeOK
    <3>4. QED BY <3>1, <3>3 DEF Announces
  <2>3. QED BY <2>1, <2>2, Announced
<1>4. ASSUME NEW c \in Clients, NEW explicit \in SUBSET Zones, ChangeInterest(c, explicit)
      PROVE  Promise!WorldChanges
  <2>1. svUp' \subseteq svUp /\ UNCHANGED <<tick, view, clUp>>
    BY <1>4 DEF ChangeInterest, client
  <2>2. QED BY <1>4, <2>1, ChangeInterestTyped, Announced
<1>5. ASSUME NEW c \in Clients, ServerDisconnect(c) PROVE Promise!WorldChanges
  <2>1. svUp' \subseteq svUp /\ UNCHANGED <<tick, view, clUp>>
    BY <1>5 DEF ServerDisconnect, client
  <2>2. QED BY <1>5, <2>1, ServerDisconnectTyped, Announced
<1>6. QED BY <1>1, <1>2, <1>3, <1>4, <1>5

-------------------------------------------------------------------------------
(* Snapshots *)

(* An object that is packed for a snapshot has its present state in it.    *)
LEMMA PackedNow ==
  ASSUME NEW ids, NEW d \in ids, NEW f \in Fields
  PROVE  Repacked(ids)[d].val[f] = live[d].state[f]
<1>1. Repacked(ids)[d] = PackObjectInSnapshot(packs, d, live[d].state, tick) BY DEF Repacked
<1>2. CASE d \in DOMAIN packs
  <2>1. Repacked(ids)[d] = Repack(packs[d], live[d].state, tick)
    BY <1>1, <1>2 DEF PackObjectInSnapshot
  <2>2. CASE CalcDelta(packs[d].val, live[d].state) = {}
    <3>1. Repack(packs[d], live[d].state, tick) = packs[d] BY <2>2 DEF Repack
    <3>2. packs[d].val[f] = live[d].state[f] BY <2>2 DEF CalcDelta
    <3>3. QED BY <2>1, <3>1, <3>2
  <2>3. CASE CalcDelta(packs[d].val, live[d].state) # {}
    <3>1. Repack(packs[d], live[d].state, tick).val = live[d].state BY <2>3 DEF Repack
    <3>2. QED BY <2>1, <3>1
  <2>4. QED BY <2>2, <2>3
<1>3. CASE d \notin DOMAIN packs
  <2>1. Repacked(ids)[d] = NewPackedObject(live[d].state, tick)
    BY <1>1, <1>3 DEF PackObjectInSnapshot
  <2>2. QED BY <2>1 DEF NewPackedObject
<1>4. QED BY <1>2, <1>3

(* One more message brings one more image.                                 *)
LEMMA ArrivingMore ==
  ASSUME NEW a \in Seq(Message), NEW m \in Message, NEW v, NEW w, NEW x \in View,
         Delivers(a, v, w), Delivers(<<m>>, w, x)
  PROVE  Arriving(a \o <<m>>, v) = Append(Arriving(a, v), x)
<1>1. PICK b \in Seq(Message) : b = <<m>>
  <2>1. <<m>> \in Seq(Message) OBVIOUS
  <2>2. QED BY <2>1
<1>2. PICK n \in Nat : n = Len(a) OBVIOUS
<1>3. PICK ch \in Seq(Message) : ch = a \o b
  <2>1. a \o b \in Seq(Message) OBVIOUS
  <2>2. QED BY <2>1
<1>4. Len(ch) = n + 1 BY <1>1, <1>2, <1>3
<1>5. PICK p : IsStream(p, a, v, w) BY ArrivingAre
<1>6. Delivers(ch, v, x) BY <1>1, <1>3, DeliversConcat
<1>7. PICK r : IsStream(r, ch, v, x) BY <1>6, ArrivingAre
<1>8. \A i \in 0 .. n : r[i] = p[i]
  <2>1. IsChain(p, a, v) /\ IsChain(r, a \o b, v) BY <1>3, <1>5, <1>7 DEF IsStream
  <2>2. \A i \in 0 .. Len(a) : r[i] = p[i] BY <2>1, ChainPrefix
  <2>3. QED BY <1>2, <2>2
<1>9. r[n+1] = x BY <1>4, <1>7 DEF IsStream
<1>10. PICK y : y = Arriving(a, v) /\ y = [i \in 1 .. n |-> p[i]] BY <1>2, <1>5 DEF IsStream
<1>11. Arriving(ch, v) = [i \in 1 .. n + 1 |-> r[i]] BY <1>4, <1>7 DEF IsStream
<1>12. y \in Seq(View) /\ Len(y) = n
  <2>1. p \in [0 .. n -> View] BY <1>2, <1>5 DEF IsStream
  <2>2. \A i \in 1 .. n : p[i] \in View BY <2>1
  <2>3. QED BY <1>10, <2>2
<1>13. \A i \in 1 .. n + 1 : r[i] = IF i = n + 1 THEN x ELSE y[i]
  <2>1. \A i \in 1 .. n + 1 : i = n + 1 \/ (i \in 1 .. n /\ i \in 0 .. n) BY <1>2
  <2>2. QED BY <1>8, <1>9, <1>10, <2>1
<1>14. PICK z : z = Arriving(ch, v) /\ z = [i \in 1 .. n + 1 |-> r[i]] BY <1>11
<1>15. z \in Seq(View) /\ Len(z) = n + 1
  <2>1. \A i \in 1 .. n + 1 : r[i] \in View BY <1>4, <1>7 DEF IsStream
  <2>2. QED BY <1>2, <1>14, <2>1
<1>16. /\ Append(y, x) \in Seq(View) /\ Len(Append(y, x)) = n + 1
       /\ \A i \in 1 .. n : Append(y, x)[i] = y[i]
       /\ Append(y, x)[n+1] = x
  BY <1>12, AppendProperties
<1>17. \A i \in 1 .. n + 1 : z[i] = Append(y, x)[i]
  <2>1. \A i \in 1 .. n + 1 : i = n + 1 \/ i \in 1 .. n BY <1>2
  <2>2. QED BY <1>13, <1>14, <1>16, <2>1
<1>18. z = Append(y, x) BY <1>15, <1>16, <1>17, SeqEqual
<1>19. QED BY <1>1, <1>3, <1>10, <1>14, <1>18

(* A snapshot, in full or as a delta, brings the complete present image.   *)
LEMMA SnapshotStep ==
  ASSUME TypeOK, Bookkeeping, ChainInv, NEW due \in SUBSET Clients, TakeTickSnapshot(due)
  PROVE  Promise!TakeSnapshot(due)
<1>. DEFINE seen == Visible(live, UNION {currentZones[c] : c \in due})
            pk == Repacked(seen)
            fr == Recorded(due)
            msg(c) == FormatSnapshot(pk, fr[c], c)
            out == [c \in Clients |-> IF c \in due THEN <<msg(c)>> ELSE <<>>]
<1>1. /\ tick <= MaxTick /\ packs' = pk /\ frames' = fr /\ Send(out) /\ due \subseteq svUp
      /\ tick' = tick + 1
      /\ UNCHANGED <<live, svUp, currentZones, view, clUp>>
  BY DEF TakeTickSnapshot, client
<1>2. pk \in Tables(PackedObject(-1 .. MaxTick))
  <2>1. TypeOK' BY TakeTickSnapshotTyped
  <2>2. QED BY <1>1, <2>1 DEF TypeOK
<1>3. ASSUME NEW c \in due \cap clUp PROVE Pipe'[c] = Append(Pipe[c], Seen[c])
  <2>1. c \in Clients /\ c \in Deliverable /\ c \in svUp BY <1>1, <1>3 DEF Deliverable
  <2>2. toClient'[c] = toClient[c] \o <<msg(c)>>
    <3>1. out[c] = <<msg(c)>> BY <1>3, <2>1
    <3>2. QED BY <1>1, <2>1, <3>1 DEF Send
  <2>3. PICK w \in View : Delivers(toClient[c], view[c], w) /\ Agrees(c, w)
    BY <1>3, <2>1 DEF ChainInv
  <2>4. msg(c) \in Message BY <1>2, <1>3, SnapshotTyped
  <2>5. PICK x \in View :
          /\ Delivers(<<msg(c)>>, w, x)
          /\ DOMAIN x = DOMAIN w
          /\ \A d \in DOMAIN w, f \in Fields : x[d][f] = pk[d].val[f]
    <3>. HIDE DEF seen
    <3>1. QED BY <1>1, <1>2, <1>3, <2>1, <2>3, <2>4, SnapshotDelivers
  <2>6. DOMAIN x = Visible(live, currentZones[c]) BY <2>3, <2>5 DEF Agrees
  <2>7. Visible(live, currentZones[c]) \subseteq seen BY <1>3 DEF Visible
  <2>8. ASSUME NEW d \in DOMAIN x PROVE x[d] = live[d].state
    <3>1. d \in seen /\ d \in DOMAIN live BY <2>6, <2>7 DEF Visible
    <3>2. \A f \in Fields : x[d][f] = live[d].state[f]
      <4>. HIDE DEF seen
      <4>1. QED BY <2>5, <3>1, PackedNow
    <3>3. x[d] \in State BY TablesElim DEF View
    <3>4. live[d].state \in State BY <3>1, ObjectFields DEF TypeOK, Object
    <3>5. QED BY <3>2, <3>3, <3>4 DEF State
  <2>9. x = Seen[c]
    <3>1. x = [d \in DOMAIN x |-> x[d]] BY TablesElim DEF View
    <3>2. QED BY <2>1, <2>6, <2>8, <3>1 DEF Seen
  <2>10. toClient[c] \in Seq(Message) /\ view'[c] = view[c] BY <1>1, <2>1 DEF TypeOK
  <2>11. Arriving(toClient[c] \o <<msg(c)>>, view[c]) = Append(Arriving(toClient[c], view[c]), x)
    BY <2>3, <2>4, <2>5, <2>10, ArrivingMore, ZenonT(90)
  <2>12. QED BY <2>1, <2>2, <2>9, <2>10, <2>11 DEF Pipe
<1>4. ASSUME NEW c \in Clients \ (due \cap clUp) PROVE Pipe'[c] = Pipe[c]
  <2>1. toClient'[c] = toClient[c]
    <3>1. CASE c \in Deliverable
      <4>1. out[c] = <<>> BY <1>4, <3>1 DEF Deliverable
      <4>2. toClient'[c] = toClient[c] \o <<>> BY <1>1, <1>4, <3>1, <4>1 DEF Send
      <4>3. QED BY <4>2 DEF TypeOK
    <3>2. CASE c \notin Deliverable BY <1>1, <3>2 DEF Send
    <3>3. QED BY <3>1, <3>2
  <2>2. QED BY <1>1, <2>1 DEF Pipe
<1>5. Pipe' = [c \in Clients |-> IF c \in due \cap clUp THEN Append(Pipe[c], Seen[c]) ELSE Pipe[c]]
  <2>1. Pipe' = [c \in Clients |-> Pipe'[c]] BY DEF Pipe
  <2>2. QED BY <1>3, <1>4, <2>1
<1>6. tick' - 1 = (tick - 1) + 1 BY <1>1 DEF TypeOK
<1>7. Seen' = Seen BY <1>1 DEF Seen
<1>8. QED BY <1>1, <1>5, <1>6, <1>7 DEF Promise!TakeSnapshot

-------------------------------------------------------------------------------
(* Client actions *)

(* Taking the first message takes the first image, which is what the       *)
(* message makes of the replica.                                           *)
LEMMA ArrivingLess ==
  ASSUME NEW ch \in Seq(Message), ch # <<>>, NEW v, NEW w, Delivers(ch, v, w)
  PROVE  /\ Arriving(ch, v) # <<>>
         /\ Head(Arriving(ch, v)) = Apply(Head(ch), v)
         /\ Tail(Arriving(ch, v)) = Arriving(Tail(ch), Apply(Head(ch), v))
<1>1. PICK m \in Message, b \in Seq(Message) : m = Head(ch) /\ b = Tail(ch)
  <2>1. Head(ch) \in Message /\ Tail(ch) \in Seq(Message) OBVIOUS
  <2>2. QED BY <2>1
<1>2. PICK n \in Nat : n + 1 = Len(ch)
  <2>1. Len(ch) \in Nat \ {0} OBVIOUS
  <2>2. Len(ch) - 1 \in Nat /\ (Len(ch) - 1) + 1 = Len(ch) BY <2>1
  <2>3. QED BY <2>2
<1>3. Len(b) = n /\ ch[1] = m /\ \A i \in 1 .. n : b[i] = ch[i+1] BY <1>1, <1>2
<1>4. PICK p : IsStream(p, ch, v, w) BY ArrivingAre
<1>5. PICK u : u = Apply(m, v) OBVIOUS
<1>6. Delivers(b, u, w) BY <1>1, <1>5, DeliversTail
<1>7. PICK q : IsStream(q, b, u, w) BY <1>6, ArrivingAre
<1>8. p[0] = v /\ \A i \in 1 .. n + 1 : p[i] = Apply(ch[i], p[i-1])
  BY <1>2, <1>4 DEF IsStream, IsChain
<1>9. p[1] = u
  <2>1. 1 \in 1 .. n + 1 /\ 1 - 1 = 0 BY <1>2
  <2>2. p[1] = Apply(ch[1], p[0]) BY <1>8, <2>1
  <2>3. QED BY <1>3, <1>5, <1>8, <2>2
<1>10. \A i \in 0 .. n : q[i] = p[i+1]
  <2>1. PICK s : s = [i \in 0 .. n |-> p[i+1]] OBVIOUS
  <2>2. \A i \in 0 .. n : s[i] = p[i+1] BY <2>1
  <2>3. ASSUME NEW i \in 1 .. n PROVE s[i] = Apply(b[i], s[i-1])
    <3>1. i + 1 \in 1 .. n + 1 /\ i \in 0 .. n /\ i - 1 \in 0 .. n /\ (i - 1) + 1 = (i + 1) - 1
      BY <1>2
    <3>2. p[i+1] = Apply(ch[i+1], p[(i+1)-1]) BY <1>8, <3>1
    <3>3. s[i] = p[i+1] /\ s[i-1] = p[(i-1)+1] BY <2>2, <3>1
    <3>4. QED BY <1>3, <3>1, <3>2, <3>3
  <2>4. s[0] = q[0]
    <3>1. 0 \in 0 .. n /\ 0 + 1 = 1 BY <1>2
    <3>2. s[0] = p[1] BY <2>2, <3>1
    <3>3. QED BY <1>7, <1>9, <3>2 DEF IsStream, IsChain
  <2>5. Follows(s, b, n) BY <2>3 DEF Follows
  <2>6. Follows(q, b, n) BY <1>3, <1>7 DEF IsStream, IsChain, Follows
  <2>7. \A i \in 0 .. n : s[i] = q[i] BY <2>4, <2>5, <2>6, ChainUnique
  <2>8. QED BY <2>2, <2>7
<1>11. PICK y : y = Arriving(ch, v) /\ y = [i \in 1 .. n + 1 |-> p[i]] BY <1>2, <1>4 DEF IsStream
<1>12. PICK z : z = Arriving(b, u) /\ z = [i \in 1 .. n |-> q[i]] BY <1>3, <1>7 DEF IsStream
<1>13. y \in Seq(View) /\ Len(y) = n + 1
  <2>1. p \in [0 .. n + 1 -> View] BY <1>2, <1>4 DEF IsStream
  <2>2. \A i \in 1 .. n + 1 : p[i] \in View BY <1>2, <2>1
  <2>3. QED BY <1>2, <1>11, <2>2
<1>14. z \in Seq(View) /\ Len(z) = n
  <2>1. q \in [0 .. n -> View] BY <1>3, <1>7 DEF IsStream
  <2>2. \A i \in 1 .. n : q[i] \in View BY <1>2, <2>1
  <2>3. QED BY <1>2, <1>12, <2>2
<1>15. y # <<>> /\ Head(y) = y[1] BY <1>2, <1>13
<1>16. y[1] = u BY <1>2, <1>9, <1>11
<1>17. /\ Tail(y) \in Seq(View) /\ Len(Tail(y)) = n
       /\ \A i \in 1 .. n : Tail(y)[i] = y[i+1]
  BY <1>2, <1>13, <1>15, HeadTailProperties
<1>18. \A i \in 1 .. n : Tail(y)[i] = z[i]
  <2>1. \A i \in 1 .. n : i \in 0 .. n /\ i + 1 \in 1 .. n + 1 BY <1>2
  <2>2. QED BY <1>10, <1>11, <1>12, <1>17, <2>1
<1>19. Tail(y) = z BY <1>14, <1>17, <1>18, SeqEqual
<1>20. QED BY <1>1, <1>5, <1>11, <1>12, <1>15, <1>16, <1>19

LEMMA DeliverStep ==
  ASSUME TypeOK, ChainInv, NEW c \in Clients, NEW kind, Receive(c, kind),
         view' = [view EXCEPT ![c] = Apply(Head(toClient[c]), view[c])]
  PROVE  Promise!Deliver(c)
<1>1. /\ c \in clUp /\ toClient[c] # <<>> /\ UNCHANGED <<server, clUp>>
      /\ toClient'[c] = Tail(toClient[c])
      /\ \A i \in Clients \ {c} : toClient'[i] = toClient[i]
  BY Received
<1>2. view'[c] = Apply(Head(toClient[c]), view[c]) /\ \A i \in Clients \ {c} : view'[i] = view[i]
  BY DEF TypeOK
<1>3. PICK w \in View : Delivers(toClient[c], view[c], w) BY <1>1 DEF ChainInv
<1>4. toClient[c] \in Seq(Message) BY DEF TypeOK
<1>5. /\ Pipe[c] # <<>>
      /\ Head(Pipe[c]) = view'[c]
      /\ Pipe'[c] = Tail(Pipe[c])
  BY <1>1, <1>2, <1>3, <1>4, ArrivingLess DEF Pipe
<1>6. \A i \in Clients \ {c} : Pipe'[i] = Pipe[i] BY <1>1, <1>2 DEF Pipe
<1>7. view' = [view EXCEPT ![c] = Head(Pipe[c])]
  <2>1. view'[c] = Apply(Head(toClient[c]), view[c]) BY <1>2
  <2>2. QED BY <1>5, <2>1
<1>8. Pipe' = [Pipe EXCEPT ![c] = Tail(Pipe[c])]
  <2>1. Pipe' = [i \in Clients |-> Pipe'[i]] /\ Pipe = [i \in Clients |-> Pipe[i]] BY DEF Pipe
  <2>2. QED BY <1>5, <1>6, <2>1
<1>9. UNCHANGED <<svUp, clUp, tick - 1, Seen>> BY <1>1 DEF server, Seen
<1>10. QED BY <1>1, <1>5, <1>7, <1>8, <1>9 DEF Promise!Deliver

LEMMA LeaveStep ==
  ASSUME TypeOK, NEW c \in Clients, ClientDisconnect(c)
  PROVE  Promise!Leave(c)
<1>1. /\ c \in clUp /\ clUp' = clUp \ {c} /\ UNCHANGED server
      /\ view' = [view EXCEPT ![c] = NoTable]
      /\ toClient'[c] = <<>>
      /\ \A i \in Clients \ {c} : UNCHANGED <<view[i], toClient[i]>>
  BY DEF ClientDisconnect, TypeOK
<1>2. Pipe'[c] = <<>> BY <1>1 DEF Pipe, Arriving
<1>3. \A i \in Clients \ {c} : Pipe'[i] = Pipe[i] BY <1>1 DEF Pipe
<1>4. Pipe' = [Pipe EXCEPT ![c] = <<>>]
  <2>1. Pipe' = [i \in Clients |-> Pipe'[i]] /\ Pipe = [i \in Clients |-> Pipe[i]] BY DEF Pipe
  <2>2. QED BY <1>2, <1>3, <2>1
<1>5. UNCHANGED <<svUp, tick - 1, Seen>> BY <1>1 DEF server, Seen
<1>6. QED BY <1>1, <1>4, <1>5 DEF Promise!Leave, NoTable

LEMMA JoinStep ==
  ASSUME NEW c \in Clients, Connect(c)
  PROVE  Promise!Join(c)
<1>1. /\ c \notin svUp \cup clUp /\ svUp' = svUp \cup {c} /\ clUp' = clUp \cup {c}
      /\ UNCHANGED <<tick, live, currentZones, view, toClient>>
  BY DEF Connect
<1>2. UNCHANGED <<tick - 1, Seen, Pipe, view>> BY <1>1 DEF Seen, Pipe
<1>3. QED BY <1>1, <1>2 DEF Promise!Join

LEMMA PromiseInit == Init => Promise!Init
<1>. SUFFICES ASSUME Init PROVE Promise!Init OBVIOUS
<1>1. tick - 1 = 0 /\ svUp = {} /\ clUp = {} BY DEF Init
<1>2. view = [c \in Clients |-> [d \in {} |-> 0]] BY DEF Init, NoTable
<1>3. \A c \in Clients : Seen[c] = [d \in {} |-> 0]
  <2>1. \A c \in Clients : Visible(live, currentZones[c]) = {} BY DEF Init, Visible, NoTable
  <2>2. QED BY <2>1 DEF Seen
<1>4. Seen = [c \in Clients |-> [d \in {} |-> 0]]
  <2>1. Seen = [c \in Clients |-> Seen[c]] BY DEF Seen
  <2>2. QED BY <1>3, <2>1
<1>5. \A c \in Clients : Pipe[c] = <<>> BY DEF Init, Pipe, Arriving
<1>6. Pipe = [c \in Clients |-> <<>>]
  <2>1. Pipe = [c \in Clients |-> Pipe[c]] BY DEF Pipe
  <2>2. QED BY <1>5, <2>1
<1>7. QED BY <1>1, <1>2, <1>4, <1>6 DEF Promise!Init

(* Every step maps to a step of the promise or to a stutter.               *)
LEMMA PromiseStep == IInv /\ IInv' /\ [Next]_vars => [Promise!Next]_(Promise!vars)
<1>. SUFFICES ASSUME TypeOK, Bookkeeping, ChainInv, ChainInv', [Next]_vars
              PROVE  Promise!Next \/ UNCHANGED Promise!vars
  BY DEF IInv
<1>1. ASSUME Promise!WorldChanges PROVE Promise!Next BY <1>1 DEF Promise!Next
<1>2. ASSUME NEW due \in SUBSET Clients, TakeTickSnapshot(due) PROVE Promise!Next
  <2>1. Promise!TakeSnapshot(due) BY <1>2, SnapshotStep
  <2>2. QED BY <2>1 DEF Promise!Next
<1>3. ASSUME NEW c \in Clients, ServerReceiveTick(c) PROVE UNCHANGED Promise!vars
  BY <1>3 DEF ServerReceiveTick, client, Promise!vars, Seen, Pipe
<1>4. ASSUME NEW c \in Clients,
             HandleGenerateObject(c) \/ HandleDeleteObject(c) \/ HandleServerTick(c)
      PROVE  Promise!Next
  <2>1. Promise!Deliver(c) BY <1>4, HandleApplies, DeliverStep
  <2>2. QED BY <2>1 DEF Promise!Next
<1>5. ASSUME NEW c \in Clients, SendTick(c) PROVE UNCHANGED Promise!vars
  BY <1>5 DEF SendTick, server, client, Promise!vars, Seen, Pipe
<1>6. ASSUME NEW c \in Clients, ClientDisconnect(c) PROVE Promise!Next
  <2>1. Promise!Leave(c) BY <1>6, LeaveStep
  <2>2. QED BY <2>1 DEF Promise!Next
<1>7. ASSUME NEW c \in Clients, Connect(c) PROVE Promise!Next
  <2>1. Promise!Join(c) BY <1>7, JoinStep
  <2>2. QED BY <2>1 DEF Promise!Next
<1>8. CASE UNCHANGED vars BY <1>8 DEF vars, server, client, Promise!vars, Seen, Pipe
<1>9. CASE ServerStep BY <1>9, <1>1, <1>2, <1>3, WorldStep DEF ServerStep
<1>10. CASE ClientStep BY <1>10, <1>4, <1>5, <1>6, <1>7 DEF ClientStep
<1>11. QED BY <1>8, <1>9, <1>10 DEF Next

(* Delta snapshots, baselines and acknowledgements together give every     *)
(* client what it would get from a server that sends complete images: the  *)
(* code's protocol implements SnapshotImages.                              *)
THEOREM ImagesImplemented == Spec => ImplementsImages
<1>1. QED BY PromiseInit, PromiseStep, InvariantHolds, PTL DEF Spec, ImplementsImages, Promise!Spec
===============================================================================
