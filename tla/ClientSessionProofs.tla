-------------------------- MODULE ClientSessionProofs -------------------------
(***************************************************************************)
(* The safety properties of ClientSession for any number of connections,   *)
(* zones and bounds.                                                       *)
(***************************************************************************)
EXTENDS ClientSession, FiniteSetTheorems, SequenceTheorems, TLAPS

(* What the network has still to tell of a connection; of one that is not  *)
(* the present one any more nothing is known.                              *)
Story(h) ==
  /\ link[h] \in {"none", "connecting"} => events[h] = <<>>
  /\ link[h] = "up" /\ connected => events[h] = <<>>
  /\ link[h] = "up" /\ ~connected => events[h] = <<"connected">>
  /\ link[h] = "down" /\ h = connectionHandle /\ running /\ connected => events[h] = <<"lost">>
  /\ link[h] = "down" /\ h = connectionHandle /\ running /\ ~connected =>
       events[h] \in {<<"failed">>, <<"connected", "lost">>}

(* Only the present connection is up or being made, and the server has a   *)
(* record of it as long as it is up.                                       *)
Links ==
  /\ connectionHandle <= handles
  /\ connected => running
  /\ running => connectionHandle # None
  /\ \A h \in Handles :
       /\ link[h] = "none" <=> h > handles
       /\ link[h] \in {"connecting", "up"} => running /\ h = connectionHandle
       /\ link[h] = "connecting" => ~connected
       /\ Story(h)
       /\ session[h] # "none" <=> link[h] = "up"

(* Nothing was said on a connection that the client does not believe in.   *)
Channels ==
  \A h \in Handles :
    h > handles \/ (h = connectionHandle /\ ~connected) =>
      toServer[h] = <<>> /\ toClient[h] = <<>> /\ session[h] # "Verified"

Welcome(s, i) == s[i].kind = "helloResp" /\ s[i].valid

(* The client learns that it is verified before it gets objects.           *)
Announced ==
  connected /\ ~isAuthed =>
    LET s == toClient[connectionHandle] IN
    /\ \A i \in 1 .. Len(s) : s[i].kind = "objects" => \E j \in 1 .. i - 1 : Welcome(s, j)
    /\ session[connectionHandle] = "Verified" => \E j \in 1 .. Len(s) : Welcome(s, j)

Truthful ==
  connected /\ link[connectionHandle] = "up" =>
    LET s == toClient[connectionHandle] IN
    \A i \in 1 .. Len(s) : Welcome(s, i) => session[connectionHandle] = "Verified"

-------------------------------------------------------------------------------
(* Messages of some kinds in a sequence                                    *)

At(s, kinds) == {i \in 1 .. Len(s) : s[i].kind \in kinds}
Count(s, kinds) == Cardinality(At(s, kinds))

(* Every completion answers one of the requests the game remembers.        *)
Answers ==
  connected =>
    Count(toServer[connectionHandle], Ops) + Count(toClient[connectionHandle], {"complete"})
      <= Len(requests)

IInv ==
  /\ TypeOK
  /\ Links
  /\ Channels
  /\ Announced
  /\ Truthful
  /\ Answers
  /\ AuthAgrees
  /\ OnePing

(* Sequences, for the provers.                                             *)
LEMMA EntryOf == ASSUME NEW S, NEW s \in Seq(S), NEW i \in 1 .. Len(s) PROVE s[i] \in S
  OBVIOUS

LEMMA AppendedTo ==
  ASSUME NEW S, NEW s \in Seq(S), NEW m \in S
  PROVE  /\ Append(s, m) \in Seq(S)
         /\ Len(Append(s, m)) = Len(s) + 1
         /\ \A i \in 1 .. Len(s) : Append(s, m)[i] = s[i]
         /\ Append(s, m)[Len(s) + 1] = m
  OBVIOUS

LEMMA TailOf ==
  ASSUME NEW S, NEW s \in Seq(S), s # <<>>
  PROVE  /\ Tail(s) \in Seq(S)
         /\ Len(s) \in Nat \ {0}
         /\ Len(Tail(s)) = Len(s) - 1
         /\ \A i \in 1 .. Len(Tail(s)) : Tail(s)[i] = s[i + 1]
         /\ Head(s) = s[1]
         /\ Head(s) \in S
  OBVIOUS

LEMMA PrefixOf ==
  ASSUME NEW S, NEW s \in Seq(S), NEW n \in 0 .. Len(s)
  PROVE  /\ SubSeq(s, 1, n) \in Seq(S)
         /\ Len(SubSeq(s, 1, n)) = n
         /\ \A i \in 1 .. n : SubSeq(s, 1, n)[i] = s[i]
  OBVIOUS

-------------------------------------------------------------------------------
(* Counting                                                                *)

(* A count is a number.                                                    *)
LEMMA CountType ==
  ASSUME NEW S, NEW s \in Seq(S), NEW kinds
  PROVE  IsFiniteSet(At(s, kinds)) /\ Count(s, kinds) \in Nat
  <1>1. Len(s) \in Nat
    OBVIOUS
  <1>2. IsFiniteSet(1 .. Len(s))
    BY <1>1, FS_Interval
  <1>3. At(s, kinds) \in SUBSET (1 .. Len(s))
    BY DEF At
  <1>4. IsFiniteSet(At(s, kinds))
    BY <1>2, <1>3, FS_Subset
  <1> QED
    BY <1>4, FS_CardinalityType DEF Count

(* Nothing in flight counts for nothing.                                   *)
LEMMA CountEmpty == ASSUME NEW kinds PROVE Count(<<>>, kinds) = 0
  <1>1. At(<<>>, kinds) = {}
    BY DEF At
  <1> QED
    BY <1>1, FS_EmptySet DEF Count

(* A message is sent.                                                      *)
LEMMA CountAppend ==
  ASSUME NEW S, NEW s \in Seq(S), NEW m \in S, NEW kinds
  PROVE  Count(Append(s, m), kinds) = Count(s, kinds) + IF m.kind \in kinds THEN 1 ELSE 0
  <1>0. Len(s) \in Nat
    OBVIOUS
  <1>1. \A i \in 1 .. Len(s) + 1 : i \in 1 .. Len(s) \/ i = Len(s) + 1
    BY <1>0
  <1>2. Len(s) + 1 \notin 1 .. Len(s) /\ Len(s) + 1 \in 1 .. Len(s) + 1 /\ 1 .. Len(s) \subseteq 1 .. Len(s) + 1
    BY <1>0
  <1>3. At(Append(s, m), kinds) = IF m.kind \in kinds THEN At(s, kinds) \cup {Len(s) + 1} ELSE At(s, kinds)
    BY <1>1, <1>2, AppendedTo DEF At
  <1>4. IsFiniteSet(At(s, kinds)) /\ Count(s, kinds) \in Nat /\ Len(s) + 1 \notin At(s, kinds)
    BY <1>2, CountType DEF At
  <1>5. Cardinality(At(s, kinds) \cup {Len(s) + 1}) = Cardinality(At(s, kinds)) + 1
    BY <1>4, FS_AddElement
  <1> QED
    BY <1>3, <1>4, <1>5 DEF Count

(* One message.                                                            *)
LEMMA CountOne ==
  ASSUME NEW S, NEW m \in S
  PROVE  /\ <<m>> \in Seq(S) /\ <<>> \in Seq(S)
         /\ \A i \in 1 .. Len(<<m>>) : <<m>>[i] = m
         /\ \A kinds : Count(<<m>>, kinds) = IF m.kind \in kinds THEN 1 ELSE 0
  <1>1. <<m>> \in Seq(S) /\ <<>> \in Seq(S) /\ Append(<<>>, m) = <<m>>
    OBVIOUS
  <1>2. \A i \in 1 .. Len(<<m>>) : <<m>>[i] = m
    OBVIOUS
  <1>3. ASSUME NEW kinds PROVE Count(<<m>>, kinds) = IF m.kind \in kinds THEN 1 ELSE 0
    <2>1. PICK e \in Seq(S) : e = <<>> /\ Append(e, m) = <<m>>
      BY <1>1
    <2>2. Count(Append(e, m), kinds) = Count(e, kinds) + IF m.kind \in kinds THEN 1 ELSE 0
      BY CountAppend
    <2> QED
      BY <2>1, <2>2, CountEmpty
  <1> QED
    BY <1>1, <1>2, <1>3

(* A message is taken.                                                     *)
LEMMA CountTail ==
  ASSUME NEW S, NEW s \in Seq(S), s # <<>>, NEW kinds
  PROVE  Count(s, kinds) = Count(Tail(s), kinds) + IF Head(s).kind \in kinds THEN 1 ELSE 0
  <1> DEFINE T == At(Tail(s), kinds)
             U == At(s, kinds) \ {1}
             f == [i \in T |-> i + 1]
  <1>0. /\ Len(s) \in Nat \ {0} /\ Len(Tail(s)) = Len(s) - 1 /\ Tail(s) \in Seq(S)
        /\ \A i \in 1 .. Len(Tail(s)) : Tail(s)[i] = s[i + 1]
        /\ Head(s) = s[1]
    BY TailOf
  <1>1. IsFiniteSet(T) /\ IsFiniteSet(At(s, kinds))
    BY <1>0, CountType
  <1>2. \A i \in T : i \in Nat /\ i + 1 \in U
    BY <1>0 DEF At
  <1>3. \A j \in U : j - 1 \in T /\ j \in Nat
    BY <1>0 DEF At
  <1>4. f \in [T -> U]
    BY <1>2
  <1>5. \A a, b \in T : f[a] = f[b] => a = b
    BY <1>2
  <1>6. \A j \in U : \E i \in T : f[i] = j
    BY <1>3
  <1>7. ExistsBijection(T, U)
    <2> HIDE DEF T, U, f
    <2>1. f \in Bijection(T, U)
      BY <1>4, <1>5, <1>6 DEF Bijection, Injection, Surjection, IsInjective
    <2> QED
      BY <2>1 DEF ExistsBijection
  <1>8. Cardinality(U) = Cardinality(T)
    BY <1>1, <1>7, FS_Bijection
  <1>9. Cardinality(U) = IF 1 \in At(s, kinds) THEN Cardinality(At(s, kinds)) - 1 ELSE Cardinality(At(s, kinds))
    BY <1>1, FS_RemoveElement
  <1>10. 1 \in At(s, kinds) <=> Head(s).kind \in kinds
    BY <1>0 DEF At
  <1>11. Cardinality(At(s, kinds)) \in Nat
    BY <1>1, FS_CardinalityType
  <1> QED
    BY <1>8, <1>9, <1>10, <1>11 DEF Count

(* The last messages are lost.                                             *)
LEMMA CountPrefix ==
  ASSUME NEW S, NEW s \in Seq(S), NEW n \in 0 .. Len(s), NEW kinds
  PROVE  Count(SubSeq(s, 1, n), kinds) <= Count(s, kinds)
  <1>1. At(SubSeq(s, 1, n), kinds) \in SUBSET At(s, kinds)
    BY PrefixOf DEF At
  <1>2. IsFiniteSet(At(s, kinds))
    BY CountType
  <1> QED
    BY <1>1, <1>2, FS_Subset DEF Count

(* OnePing in terms of counts.                                             *)
LEMMA CountInFlight ==
  ASSUME NEW S, NEW s \in Seq(S), NEW kind
  PROVE  Cardinality(InFlight(s, kind)) = Count(s, {kind})
  <1>1. DOMAIN s = 1 .. Len(s)
    OBVIOUS
  <1>2. InFlight(s, kind) = At(s, {kind})
    BY <1>1 DEF InFlight, At
  <1> QED
    BY <1>2 DEF Count

-------------------------------------------------------------------------------
(* Types                                                                   *)

LEMMA BoundsAreNats == {MaxConnects, MaxInFlight, MaxRequests} \subseteq Nat
  BY BoundsAssumption

LEMMA ClientMessages ==
  /\ {Hello, Ping, InformPing} \subseteq ClientMsg
  /\ \A op \in Ops, h \in 0 .. 255, zones \in SUBSET Zones :
       Interest(op, h, zones) \in InterestMsg /\ Interest(op, h, zones).kind = op
  /\ InterestMsg \subseteq ClientMsg
  /\ \A m \in ClientMsg : m.kind \in Ops => m \in InterestMsg
  /\ Hello.kind = "hello" /\ Ping.kind = "ping" /\ InformPing.kind = "informPing"
  <1>1. /\ {Hello, Ping, InformPing} \subseteq ClientMsg
        /\ InterestMsg \subseteq ClientMsg
    BY DEF ClientMsg
  <1>2. \A op \in Ops, h \in 0 .. 255, zones \in SUBSET Zones :
          Interest(op, h, zones) \in InterestMsg /\ Interest(op, h, zones).kind = op
    BY DEF InterestMsg, Interest
  <1>3. Hello.kind = "hello" /\ Ping.kind = "ping" /\ InformPing.kind = "informPing"
    BY DEF Hello, Ping, InformPing
  <1>4. \A m \in ClientMsg : m.kind \in Ops => m \in InterestMsg
    BY <1>3 DEF ClientMsg, Ops
  <1> QED
    BY <1>1, <1>2, <1>3, <1>4

LEMMA ServerMessages ==
  /\ {HelloResp(TRUE), HelloResp(FALSE), PingResp} \subseteq ServerMsg
  /\ \A opened, closed \in SUBSET Zones : Objects(opened, closed) \in ServerMsg
  /\ \A h \in 0 .. 255 : InterestComplete(h) \in ServerMsg
  /\ \A m \in ServerMsg : m.kind = "objects" => m.opened \subseteq Zones /\ m.closed \subseteq Zones
  BY DEF ServerMsg, HelloResp, PingResp, Objects, InterestComplete

LEMMA MessageKinds ==
  /\ \A b : HelloResp(b).kind = "helloResp" /\ HelloResp(b).valid = b
  /\ PingResp.kind = "pingResp"
  /\ \A opened, closed : Objects(opened, closed).kind = "objects"
  /\ \A h : InterestComplete(h).kind = "complete"
  BY DEF HelloResp, PingResp, Objects, InterestComplete

(* The server serves only the present connection, one the client knows.    *)
LEMMA ServedIsCurrent ==
  ASSUME IInv, NEW h \in Handles, NEW kinds, Serve(h, kinds)
  PROVE  /\ h = connectionHandle /\ connected /\ running /\ link[h] = "up"
         /\ session[h] \in {"Unverified", "Verified"}
  BY DEF IInv, TypeOK, Links, Channels, Serve

(* What a callback finds.                                                  *)
LEMMA Callback ==
  ASSUME IInv, NEW h \in Handles, HandleNetCallback(h)
  PROVE  \/ /\ h # connectionHandle /\ link[h] = "down"
            /\ UNCHANGED <<client, game>>
         \/ /\ h = connectionHandle /\ ~connected /\ link[h] = "up"
            /\ events[h] = <<"connected">> /\ Connected
         \/ /\ h = connectionHandle /\ ~connected /\ link[h] = "down"
            /\ events[h] = <<"failed">> /\ Failed
         \/ /\ h = connectionHandle /\ ~connected /\ link[h] = "down"
            /\ events[h] = <<"connected", "lost">> /\ Connected
         \/ /\ h = connectionHandle /\ connected /\ link[h] = "down"
            /\ events[h] = <<"lost">> /\ LeaveWorld
  <1>1. running /\ events[h] # <<>> /\ link[h] \in {"none", "connecting", "up", "down"}
    BY DEF HandleNetCallback, IInv, TypeOK
  <1>2. Story(h) /\ (link[h] \in {"connecting", "up"} => h = connectionHandle)
    BY DEF IInv, Links
  <1>3. link[h] \in {"up", "down"}
    BY <1>1, <1>2 DEF Story
  <1>4. \/ ~Ours(h) /\ UNCHANGED <<client, game>>
        \/ Ours(h) /\ Head(events[h]) = "connected" /\ Connected
        \/ Ours(h) /\ Head(events[h]) = "failed" /\ Failed
        \/ Ours(h) /\ Head(events[h]) = "lost" /\ LeaveWorld
    BY DEF HandleNetCallback
  <1>5. CASE h # connectionHandle
    BY <1>1, <1>2, <1>3, <1>4, <1>5 DEF Ours
  <1>6. CASE h = connectionHandle /\ connected
    <2>1. link[h] = "down" /\ events[h] = <<"lost">>
      BY <1>1, <1>2, <1>3, <1>6 DEF Story
    <2>2. Head(events[h]) = "lost"
      BY <2>1
    <2> QED
      BY <1>4, <1>6, <2>1, <2>2 DEF Ours
  <1>7. CASE h = connectionHandle /\ ~connected
    <2>1. \/ link[h] = "up" /\ events[h] = <<"connected">>
          \/ link[h] = "down" /\ events[h] = <<"failed">>
          \/ link[h] = "down" /\ events[h] = <<"connected", "lost">>
      BY <1>1, <1>2, <1>3, <1>7 DEF Story
    <2>2. CASE link[h] = "up" /\ events[h] = <<"connected">>
      <3>1. Head(events[h]) = "connected"
        BY <2>2
      <3> QED
        BY <1>4, <1>7, <2>2, <3>1 DEF Ours
    <2>3. CASE link[h] = "down" /\ events[h] = <<"failed">>
      <3>1. Head(events[h]) = "failed"
        BY <2>3
      <3> QED
        BY <1>4, <1>7, <2>3, <3>1 DEF Ours
    <2>4. CASE link[h] = "down" /\ events[h] = <<"connected", "lost">>
      <3>1. Head(events[h]) = "connected"
        BY <2>4
      <3> QED
        BY <1>4, <1>7, <2>4, <3>1 DEF Ours
    <2> QED
      BY <2>1, <2>2, <2>3, <2>4
  <1> QED
    BY <1>5, <1>6, <1>7

-------------------------------------------------------------------------------
(* Steps, those that have the same effect taken together                   *)

Cut(h) ==
  /\ link[h] = "up"
  /\ \/ Break(h, toClient[h])
     \/ connected /\ Break(h, Append(toClient[h], HelloResp(FALSE)))
  /\ UNCHANGED <<client, handles, game>>

Welcomed ==
  /\ Receive("helloResp")
  /\ Head(toClient[connectionHandle]).valid
  /\ isAuthed' = TRUE
  /\ Consumed
  /\ UNCHANGED <<connectionHandle, connected, pendingPing, running, interestHandle,
                 view, handles, link, events, toServer, server, game>>

Told(h) ==
  /\ running
  /\ events[h] # <<>>
  /\ events' = [events EXCEPT ![h] = Tail(@)]
  /\ UNCHANGED <<handles, link, toServer, toClient, server>>

LEMMA Steps ==
  ASSUME IInv, Next
  PROVE  \/ Connect
         \/ connected /\ Close(connectionHandle)
         \/ SendHello
         \/ SendPing
         \/ \E op \in Ops, zones \in SUBSET Zones : SendInterest(op, zones)
         \/ Welcomed
         \/ HandleObjects
         \/ HandleInterestComplete
         \/ HandlePingResponse
         \/ \E h \in Handles : HandleNetCallback(h)
         \/ \E h \in Handles : Establish(h)
         \/ \E h \in Handles : Fail(h)
         \/ \E h \in Handles : Cut(h)
         \/ \E h \in Handles : AcceptHello(h)
         \/ \E h \in Handles : ServeInterest(h)
         \/ \E h \in Handles : ServePing(h)
  <1>1. CASE GameStep
    BY <1>1 DEF GameStep, Disconnect
  <1>2. CASE RunFrame
    <2>1. HandleServerHelloResp => Welcomed \/ (connected /\ Close(connectionHandle))
      BY DEF HandleServerHelloResp, Welcomed, Receive
    <2> QED
      BY <1>2, <2>1 DEF RunFrame
  <1>3. CASE NetworkStep
    <2>1. \A h \in Handles : Lose(h) => Cut(h)
      BY DEF Lose, Cut
    <2> QED
      BY <1>3, <2>1 DEF NetworkStep
  <1>4. ASSUME NEW h \in Handles, ServerStep(h)
        PROVE  AcceptHello(h) \/ ServeInterest(h) \/ ServePing(h) \/ Cut(h)
    <2>1. RefuseHello(h) => Cut(h)
      BY ServedIsCurrent DEF RefuseHello, Serve, Cut
    <2>2. RefuseMessage(h) => Cut(h)
      BY DEF RefuseMessage, Serve, Cut
    <2> QED
      BY <1>4, <2>1, <2>2 DEF ServerStep
  <1> QED
    BY <1>1, <1>2, <1>3, <1>4 DEF Next

(* The handle of the present connection, when there is one.                *)
LEMMA PresentHandle ==
  ASSUME IInv, running
  PROVE  connectionHandle \in Handles
  BY BoundsAreNats DEF IInv, TypeOK, Links, Handles, None

(* What a message on its way to the client is when it is taken.            *)
LEMMA Taken ==
  ASSUME IInv, NEW kind, Receive(kind)
  PROVE  /\ connected /\ running /\ connectionHandle \in Handles
         /\ toClient[connectionHandle] \in Seq(ServerMsg)
         /\ toClient[connectionHandle] # <<>>
         /\ Head(toClient[connectionHandle]) \in ServerMsg
         /\ Head(toClient[connectionHandle]).kind = kind
         /\ Tail(toClient[connectionHandle]) \in Seq(ServerMsg)
  <1>1. connected /\ running /\ connectionHandle \in Handles
    BY PresentHandle DEF Receive, IInv, Links
  <1>2. toClient[connectionHandle] \in Seq(ServerMsg)
    BY <1>1 DEF IInv, TypeOK
  <1> QED
    BY <1>1, <1>2, TailOf DEF Receive

LEMMA ServedHead ==
  ASSUME IInv, NEW h \in Handles, NEW kinds, Serve(h, kinds)
  PROVE  /\ toServer[h] \in Seq(ClientMsg) /\ toServer[h] # <<>>
         /\ Head(toServer[h]) \in ClientMsg /\ Head(toServer[h]).kind \in kinds
         /\ Tail(toServer[h]) \in Seq(ClientMsg)
  <1>1. toServer[h] \in Seq(ClientMsg) /\ toServer[h] # <<>>
    BY DEF Serve, IInv, TypeOK
  <1> QED
    BY <1>1, TailOf DEF Serve

(* A completion that comes in has a request to answer.                     *)
LEMMA CompletionExpected ==
  ASSUME IInv, HandleInterestComplete
  PROVE  requests # <<>>
  <1> DEFINE in == toClient[connectionHandle]
             out == toServer[connectionHandle]
  <1>1. /\ connected /\ connectionHandle \in Handles /\ in \in Seq(ServerMsg) /\ in # <<>>
        /\ Head(in).kind = "complete" /\ Tail(in) \in Seq(ServerMsg)
    BY Taken DEF HandleInterestComplete
  <1>2. out \in Seq(ClientMsg)
    BY <1>1 DEF IInv, TypeOK
  <1>3. Count(out, Ops) \in Nat /\ Count(Tail(in), {"complete"}) \in Nat
    BY <1>1, <1>2, CountType
  <1>4. Count(in, {"complete"}) = Count(Tail(in), {"complete"}) + 1
    BY <1>1, CountTail
  <1>5. Count(out, Ops) + Count(in, {"complete"}) <= Len(requests)
    BY <1>1 DEF IInv, Answers
  <1>6. Len(requests) \in Nat /\ (requests = <<>> => Len(requests) = 0)
    BY DEF IInv, TypeOK
  <1> QED
    BY <1>3, <1>4, <1>5, <1>6

LEMMA EventKinds ==
  /\ <<"connected">> \in Seq({"connected", "failed", "lost"}) /\ Len(<<"connected">>) = 1
  /\ <<"failed">> \in Seq({"connected", "failed", "lost"}) /\ Len(<<"failed">>) = 1
  /\ \A s \in Seq({"connected", "failed", "lost"}) :
       s # <<>> => Tail(s) \in Seq({"connected", "failed", "lost"}) /\ Len(Tail(s)) = Len(s) - 1
  /\ \A s \in Seq({"connected", "failed", "lost"}), e \in {"connected", "failed", "lost"} :
       /\ Append(s, e) \in Seq({"connected", "failed", "lost"})
       /\ Len(Append(s, e)) = Len(s) + 1 /\ Len(s) \in Nat
  OBVIOUS

(* The network reports one thing more of a connection that is not yet down. *)
LEMMA Reported ==
  ASSUME IInv, NEW h \in Handles, link[h] \in {"connecting", "up"},
         NEW e \in {"connected", "failed", "lost"}, Report(h, e)
  PROVE  /\ events' \in [Handles -> Seq({"connected", "failed", "lost"})]
         /\ \A g \in Handles : Len(events'[g]) <= 2
  <1>1. events[h] = <<>> \/ events[h] = <<"connected">>
    BY DEF IInv, Links, Story
  <1>2. events[h] \in Seq({"connected", "failed", "lost"})
    BY DEF IInv, TypeOK
  <1>4. Len(events[h]) <= 1
    <2>1. CASE events[h] = <<>>
      BY <2>1
    <2>2. CASE events[h] = <<"connected">>
      BY <2>2
    <2> QED
      BY <1>1, <2>1, <2>2
  <1>3. Len(Append(events[h], e)) <= 2 /\ Append(events[h], e) \in Seq({"connected", "failed", "lost"})
    BY <1>2, <1>4, EventKinds
  <1> QED
    BY <1>3 DEF IInv, TypeOK, Report

(* Messages in both directions stay messages.                              *)
LEMMA Answered ==
  ASSUME IInv, NEW h \in Handles, NEW kinds, Serve(h, kinds), NEW reply \in Seq(ServerMsg), Answer(h, reply)
  PROVE  /\ toServer' \in [Handles -> Seq(ClientMsg)]
         /\ toClient' \in [Handles -> Seq(ServerMsg)]
  <1>1. Tail(toServer[h]) \in Seq(ClientMsg) /\ toClient[h] \in Seq(ServerMsg)
    BY ServedHead DEF IInv, TypeOK
  <1>2. toClient[h] \o reply \in Seq(ServerMsg)
    BY <1>1
  <1> QED
    BY <1>1, <1>2 DEF IInv, TypeOK, Answer

LEMMA Sent ==
  ASSUME IInv, connected, NEW m \in ClientMsg, SendDatagram(m)
  PROVE  toServer' \in [Handles -> Seq(ClientMsg)]
  <1>1. connectionHandle \in Handles
    BY PresentHandle DEF IInv, Links
  <1>2. Append(toServer[connectionHandle], m) \in Seq(ClientMsg)
    BY <1>1, AppendedTo DEF IInv, TypeOK
  <1> QED
    BY <1>1, <1>2 DEF IInv, TypeOK, SendDatagram

(* The reply to an interest request: the completion, with the objects      *)
(* before it if there are any.                                             *)
LEMMA InterestAnswered ==
  ASSUME IInv, NEW h \in Handles, ServeInterest(h)
  PROVE  \E reply \in Seq(ServerMsg), zones \in SUBSET Zones :
           /\ Answer(h, reply)
           /\ interest' = [interest EXCEPT ![h] = zones]
           /\ Count(reply, {"complete"}) = 1
           /\ Count(reply, {"pingResp"}) = 0
           /\ \A i \in 1 .. Len(reply) : reply[i].kind # "helloResp"
  <1>1. PICK m \in InterestMsg : m = Head(toServer[h])
    BY ServedHead, ClientMessages DEF ServeInterest
  <1>2. interest[h] \in SUBSET Zones /\ m.handle \in 0 .. 255 /\ m.zones \in SUBSET Zones
    BY <1>1 DEF IInv, TypeOK, InterestMsg
  <1>3. PICK zones \in SUBSET Zones : zones = Requested(interest[h], m)
    BY <1>2 DEF Requested
  <1>4. Objects(zones \ interest[h], interest[h] \ zones) \in ServerMsg
    BY <1>2, <1>3, ServerMessages
  <1>5. PICK first \in Seq(ServerMsg) : first = Update(interest[h], zones)
    <2>1. Update(interest[h], zones) \in Seq(ServerMsg)
      BY <1>4, CountOne DEF Update
    <2> QED
      BY <2>1
  <1>6. PICK last \in ServerMsg : last = InterestComplete(m.handle)
    BY <1>2, ServerMessages
  <1>7. Count(first, {"complete"}) = 0 /\ Count(first, {"pingResp"}) = 0
        /\ \A i \in 1 .. Len(first) : first[i].kind # "helloResp"
    <2>1. CASE first = <<>>
      BY <2>1, CountEmpty
    <2>2. CASE first = <<Objects(zones \ interest[h], interest[h] \ zones)>>
      <3>1. PICK o \in ServerMsg : o = Objects(zones \ interest[h], interest[h] \ zones)
        BY <1>4
      <3>2. first = <<o>>
        BY <2>2, <3>1
      <3>3. o.kind = "objects"
        BY <3>1, MessageKinds
      <3>4. Count(first, {"complete"}) = 0 /\ Count(first, {"pingResp"}) = 0
        BY <3>2, <3>3, CountOne
      <3>5. \A i \in 1 .. Len(first) : first[i] = o
        BY <3>2, CountOne
      <3> QED
        BY <3>3, <3>4, <3>5
    <2> QED
      BY <1>5, <2>1, <2>2 DEF Update
  <1>8. last.kind = "complete"
    BY <1>6, MessageKinds
  <1>9. PICK reply \in Seq(ServerMsg) : reply = Append(first, last)
    BY AppendedTo
  <1>10. Count(reply, {"complete"}) = 1 /\ Count(reply, {"pingResp"}) = 0
    BY <1>7, <1>8, <1>9, CountAppend
  <1>11. \A i \in 1 .. Len(reply) : reply[i].kind # "helloResp"
    BY <1>7, <1>8, <1>9, AppendedTo
  <1>12. reply = InterestReply(interest[h], zones, m.handle)
    BY <1>5, <1>6, <1>9 DEF InterestReply
  <1>13. interest' = [interest EXCEPT ![h] = zones] /\ Answer(h, reply)
    BY <1>1, <1>3, <1>12 DEF ServeInterest
  <1> QED
    BY <1>10, <1>11, <1>13

(* The reply to a ping, and to the information that one came back: none.   *)
LEMMA PingAnswered ==
  ASSUME IInv, NEW h \in Handles, ServePing(h)
  PROVE  \E reply \in Seq(ServerMsg) :
           /\ Answer(h, reply)
           /\ Count(reply, {"complete"}) = 0
           /\ Count(reply, {"pingResp"}) = IF Head(toServer[h]).kind = "ping" THEN 1 ELSE 0
           /\ \A i \in 1 .. Len(reply) : reply[i].kind # "helloResp"
  <1>1. /\ \A i \in 1 .. Len(<<>>) : <<>>[i].kind # "helloResp"
        /\ Count(<<>>, {"complete"}) = 0 /\ Count(<<>>, {"pingResp"}) = 0
    BY CountEmpty
  <1>2. PICK m \in ServerMsg : m = PingResp
    BY ServerMessages
  <1>3. m.kind = "pingResp"
    BY <1>2, MessageKinds
  <1>4. PICK one \in Seq(ServerMsg) : one = <<m>> /\ \A i \in 1 .. Len(one) : one[i] = m
    BY CountOne
  <1>5. Count(one, {"complete"}) = 0 /\ Count(one, {"pingResp"}) = 1
    BY <1>3, <1>4, CountOne
  <1>6. CASE Head(toServer[h]).kind = "ping"
    <2>1. Answer(h, one)
      BY <1>2, <1>4, <1>6 DEF ServePing
    <2> QED
      BY <1>3, <1>4, <1>5, <1>6, <2>1
  <1>7. CASE Head(toServer[h]).kind # "ping"
    <2>1. Answer(h, <<>>)
      BY <1>7 DEF ServePing
    <2> QED
      BY <1>1, <1>2, <1>7, <2>1, CountOne
  <1> QED
    BY <1>6, <1>7

(* Each variable keeps its type.                                           *)
LEMMA TypesKept ==
  ASSUME IInv, Next
  PROVE  TypeOK'
  <1>0. TypeOK /\ Links /\ MaxConnects \in Nat
    BY BoundsAreNats DEF IInv
  <1>1. CASE Connect
    <2>1. connectionHandle' \in 0 .. MaxConnects /\ handles' \in 0 .. MaxConnects
      BY <1>0, <1>1 DEF TypeOK, Connect, None
    <2>2. link' \in [Handles -> {"none", "connecting", "up", "down"}]
      BY <1>0, <1>1 DEF TypeOK, Connect
    <2>3. running' \in BOOLEAN
      BY <1>0, <1>1 DEF TypeOK, Connect
    <2> QED
      BY <1>0, <1>1, <2>1, <2>2, <2>3 DEF TypeOK, Connect, server, game
  <1>2. CASE connected /\ Close(connectionHandle)
    <2>1. /\ toServer' \in [Handles -> Seq(ClientMsg)] /\ toClient' \in [Handles -> Seq(ServerMsg)]
          /\ requests' \in Seq(InterestMsg)
      <3>1. \A S : <<>> \in Seq(S)
        OBVIOUS
      <3>2. \A h : [toServer EXCEPT ![h] = <<>>] \in [Handles -> Seq(ClientMsg)]
        BY <1>0, <3>1 DEF TypeOK
      <3>3. \A h : [toClient EXCEPT ![h] = <<>>] \in [Handles -> Seq(ServerMsg)]
        BY <1>0, <3>1 DEF TypeOK
      <3> QED
        BY <1>2, <3>1, <3>2, <3>3 DEF Close, LeaveWorld, Forgets
    <2>2. /\ session' \in [Handles -> {"none", "Unverified", "Verified"}]
          /\ interest' \in [Handles -> SUBSET Zones]
          /\ link' \in [Handles -> {"none", "connecting", "up", "down"}]
      BY <1>0, <1>2 DEF TypeOK, Close
    <2>3. connectionHandle' \in 0 .. MaxConnects /\ view' \subseteq Zones /\ granted' \subseteq Zones
      BY <1>0, <1>2 DEF Close, LeaveWorld, Forgets, None
    <2>4. {connected', isAuthed', pendingPing', running'} \subseteq BOOLEAN
      BY <1>2 DEF Close, LeaveWorld
    <2> QED
      BY <1>0, <1>2, <2>1, <2>2, <2>3, <2>4 DEF TypeOK, Close, LeaveWorld, Forgets
  <1>3. CASE SendHello
    BY <1>0, <1>3, Sent, ClientMessages DEF TypeOK, SendHello, client, server, game
  <1>4. CASE SendPing
    BY <1>0, <1>4, Sent, ClientMessages DEF TypeOK, SendPing, server, game
  <1>5. ASSUME NEW op \in Ops, NEW zones \in SUBSET Zones, SendInterest(op, zones)
        PROVE  TypeOK'
    <2>1. getNextInterestHandle \in 0 .. 255
      BY <1>0 DEF TypeOK, getNextInterestHandle
    <2>2. PICK m \in InterestMsg : m = Interest(op, getNextInterestHandle, zones)
      BY <2>1, ClientMessages
    <2>3. connected /\ SendDatagram(m) /\ requests' = Append(requests, m)
      BY <1>5, <2>2 DEF SendInterest
    <2>4. toServer' \in [Handles -> Seq(ClientMsg)]
      BY <2>3, Sent, ClientMessages
    <2>5. requests' \in Seq(InterestMsg)
      BY <1>0, <2>3, AppendedTo DEF TypeOK
    <2> QED
      BY <1>0, <1>5, <2>4, <2>5 DEF TypeOK, SendInterest, client, server
  <1>6. CASE Welcomed
    <2>1. toClient' \in [Handles -> Seq(ServerMsg)]
      BY <1>0, <1>6, Taken DEF TypeOK, Welcomed, Consumed
    <2> QED
      BY <1>0, <1>6, <2>1 DEF TypeOK, Welcomed, server, game
  <1>7. CASE HandleObjects
    <2>1. toClient' \in [Handles -> Seq(ServerMsg)]
      BY <1>0, <1>7, Taken DEF TypeOK, HandleObjects, Consumed
    <2>2. view' \subseteq Zones
      BY <1>0, <1>7, Taken, ServerMessages DEF TypeOK, HandleObjects
    <2> QED
      BY <1>0, <1>7, <2>1, <2>2 DEF TypeOK, HandleObjects, server, game
  <1>8. CASE HandleInterestComplete
    <2>1. toClient' \in [Handles -> Seq(ServerMsg)]
      BY <1>0, <1>8, Taken DEF TypeOK, HandleInterestComplete, Consumed
    <2>2. requests # <<>> /\ requests \in Seq(InterestMsg)
      BY <1>0, <1>8, CompletionExpected DEF TypeOK
    <2>3. requests' \in Seq(InterestMsg) /\ Head(requests) \in InterestMsg
      BY <1>8, <2>2, TailOf DEF HandleInterestComplete
    <2>4. granted' \subseteq Zones
      BY <1>0, <1>8, <2>3 DEF TypeOK, HandleInterestComplete, Requested, InterestMsg
    <2> QED
      BY <1>0, <1>8, <2>1, <2>3, <2>4 DEF TypeOK, HandleInterestComplete, client, server
  <1>9. CASE HandlePingResponse
    <2>1. toClient' \in [Handles -> Seq(ServerMsg)] /\ connected
      BY <1>0, <1>9, Taken DEF TypeOK, HandlePingResponse, Consumed
    <2>2. toServer' \in [Handles -> Seq(ClientMsg)]
      <3>1. CASE pendingPing
        BY <1>9, <2>1, <3>1, Sent, ClientMessages DEF HandlePingResponse
      <3>2. CASE ~pendingPing
        BY <1>0, <1>9, <3>2 DEF HandlePingResponse, TypeOK
      <3> QED
        BY <3>1, <3>2
    <2> QED
      BY <1>0, <1>9, <2>1, <2>2 DEF TypeOK, HandlePingResponse, server, game
  <1>10. ASSUME NEW h \in Handles, HandleNetCallback(h) PROVE TypeOK'
    <2>1. Told(h)
      BY <1>10 DEF HandleNetCallback, Told
    <2>2. events' \in [Handles -> Seq({"connected", "failed", "lost"})]
      BY <1>0, <2>1, EventKinds DEF TypeOK, Told
    <2>3. \A g \in Handles : Len(events'[g]) <= 2
      <3>1. Len(Tail(events[h])) <= 2
        BY <1>0, <2>1, EventKinds DEF TypeOK, Told
      <3> QED
        BY <1>0, <2>1, <3>1 DEF TypeOK, Told
    <2>4. CASE UNCHANGED <<client, game>>
      BY <1>0, <2>1, <2>2, <2>3, <2>4 DEF TypeOK, Told, client, game, server
    <2>5. CASE Connected
      BY <1>0, <2>1, <2>2, <2>3, <2>5 DEF TypeOK, Told, Connected, game, server
    <2>6. CASE Failed
      BY <1>0, <2>1, <2>2, <2>3, <2>6 DEF TypeOK, Told, Failed, game, server
    <2>7. CASE LeaveWorld
      <3>1. requests' \in Seq(InterestMsg)
        BY <2>7 DEF LeaveWorld, Forgets
      <3>2. connectionHandle' \in 0 .. MaxConnects /\ view' \subseteq Zones /\ granted' \subseteq Zones
        BY <1>0, <2>7 DEF LeaveWorld, Forgets, None
      <3>3. {connected', isAuthed', pendingPing', running'} \subseteq BOOLEAN
        BY <2>7 DEF LeaveWorld
      <3> QED
        BY <1>0, <2>1, <2>2, <2>3, <2>7, <3>1, <3>2, <3>3
        DEF TypeOK, Told, LeaveWorld, Forgets, server
    <2> QED
      BY <1>10, <2>4, <2>5, <2>6, <2>7, Callback
  <1>11. ASSUME NEW h \in Handles, Establish(h) PROVE TypeOK'
    <2>1. /\ events' \in [Handles -> Seq({"connected", "failed", "lost"})]
          /\ \A g \in Handles : Len(events'[g]) <= 2
      BY <1>11, Reported DEF Establish
    <2> QED
      BY <1>0, <1>11, <2>1 DEF TypeOK, Establish, client, game
  <1>12. ASSUME NEW h \in Handles, Fail(h) PROVE TypeOK'
    <2>1. /\ events' \in [Handles -> Seq({"connected", "failed", "lost"})]
          /\ \A g \in Handles : Len(events'[g]) <= 2
      BY <1>12, Reported DEF Fail
    <2> QED
      BY <1>0, <1>12, <2>1 DEF TypeOK, Fail, client, game, server
  <1>13. ASSUME NEW h \in Handles, Cut(h) PROVE TypeOK'
    <2>1. PICK sent \in Seq(ServerMsg) : Break(h, sent)
      <3>1. toClient[h] \in Seq(ServerMsg) /\ Append(toClient[h], HelloResp(FALSE)) \in Seq(ServerMsg)
        BY <1>0, ServerMessages, AppendedTo DEF TypeOK
      <3> QED
        BY <1>13, <3>1 DEF Cut
    <2>2. /\ events' \in [Handles -> Seq({"connected", "failed", "lost"})]
          /\ \A g \in Handles : Len(events'[g]) <= 2
      BY <1>13, <2>1, Reported DEF Break, Cut
    <2>3. PICK n \in 0 .. Len(sent) : toClient' = [toClient EXCEPT ![h] = SubSeq(sent, 1, n)]
      BY <2>1 DEF Break
    <2>4. toClient' \in [Handles -> Seq(ServerMsg)]
      BY <1>0, <2>1, <2>3, PrefixOf DEF TypeOK
    <2>5. toServer' \in [Handles -> Seq(ClientMsg)]
      BY <1>0, <2>1 DEF Break, TypeOK
    <2> QED
      BY <1>0, <1>13, <2>1, <2>2, <2>4, <2>5 DEF TypeOK, Cut, Break, client, game
  <1>14. ASSUME NEW h \in Handles, AcceptHello(h) PROVE TypeOK'
    <2>1. \A m \in ServerMsg : <<m>> \in Seq(ServerMsg)
      OBVIOUS
    <2>3. HelloResp(TRUE) \in ServerMsg
      BY ServerMessages
    <2>2. toServer' \in [Handles -> Seq(ClientMsg)] /\ toClient' \in [Handles -> Seq(ServerMsg)]
      BY <1>14, <2>1, <2>3, Answered DEF AcceptHello
    <2> QED
      BY <1>0, <1>14, <2>2 DEF TypeOK, AcceptHello, Answer, client, game
  <1>15. ASSUME NEW h \in Handles, ServeInterest(h) PROVE TypeOK'
    <2>1. PICK reply \in Seq(ServerMsg), zones \in SUBSET Zones :
            Answer(h, reply) /\ interest' = [interest EXCEPT ![h] = zones]
      BY <1>15, InterestAnswered
    <2>2. toServer' \in [Handles -> Seq(ClientMsg)] /\ toClient' \in [Handles -> Seq(ServerMsg)]
      BY <1>15, <2>1, Answered DEF ServeInterest
    <2> QED
      BY <1>0, <1>15, <2>1, <2>2 DEF TypeOK, ServeInterest, Answer, client, game
  <1>16. ASSUME NEW h \in Handles, ServePing(h) PROVE TypeOK'
    <2>1. PICK reply \in Seq(ServerMsg) : Answer(h, reply)
      BY <1>16, PingAnswered
    <2>2. toServer' \in [Handles -> Seq(ClientMsg)] /\ toClient' \in [Handles -> Seq(ServerMsg)]
      BY <1>16, <2>1, Answered DEF ServePing
    <2> QED
      BY <1>0, <1>16, <2>2 DEF TypeOK, ServePing, Answer, client, game, server
  <1> QED
    BY <1>1, <1>2, <1>3, <1>4, <1>5, <1>6, <1>7, <1>8, <1>9, <1>10, <1>11, <1>12, <1>13,
       <1>14, <1>15, <1>16, Steps

-------------------------------------------------------------------------------
(* Links                                                                   *)

(* What a report adds to the story of the present connection.              *)
LEMMA Stories ==
  /\ Append(<<>>, "connected") = <<"connected">>
  /\ Append(<<>>, "failed") = <<"failed">>
  /\ Append(<<>>, "lost") = <<"lost">>
  /\ Append(<<"connected">>, "lost") = <<"connected", "lost">>
  /\ Tail(<<"connected">>) = <<>>
  /\ Tail(<<"connected", "lost">>) = <<"lost">>
  <1>1. \A e : Append(<<>>, e) = <<e>>
    OBVIOUS
  <1>2. ASSUME NEW e, NEW f PROVE Append(<<e>>, f) = <<e, f>>
    <2>1. <<e>> \in Seq({e, f}) /\ Len(<<e>>) = 1 /\ <<e>>[1] = e
      OBVIOUS
    <2>2. Append(<<e>>, f) \in Seq({e, f}) /\ Len(Append(<<e>>, f)) = 2
      BY <2>1
    <2>3. Append(<<e>>, f)[1] = e /\ Append(<<e>>, f)[2] = f
      BY <2>1
    <2>4. <<e, f>> \in Seq({e, f}) /\ Len(<<e, f>>) = 2 /\ <<e, f>>[1] = e /\ <<e, f>>[2] = f
      OBVIOUS
    <2>5. \A i \in 1 .. Len(Append(<<e>>, f)) : Append(<<e>>, f)[i] = <<e, f>>[i]
      BY <2>2, <2>3, <2>4
    <2>6. Len(Append(<<e>>, f)) = Len(<<e, f>>)
      BY <2>2, <2>4
    <2> QED
      BY <2>2, <2>4, <2>5, <2>6, SeqEqual, Zenon
  <1>3. \A e : Tail(<<e>>) = <<>>
    OBVIOUS
  <1>4. \A e, f : Tail(<<e, f>>) = <<f>>
    OBVIOUS
  <1> QED
    BY <1>1, <1>2, <1>3, <1>4

(* Steps that leave the connection alone.                                  *)
LEMMA LinksIdle ==
  ASSUME Links, UNCHANGED <<connectionHandle, connected, running, handles, link, events>>,
         \A h \in Handles : session'[h] # "none" <=> session[h] # "none"
  PROVE  Links'
  BY DEF Links, Story

(* Links holds after every step.                                           *)
LEMMA LinksKept ==
  ASSUME IInv, Next
  PROVE  Links'
  <1>0. TypeOK /\ Links
    BY DEF IInv
  <1>1. CASE Connect
    <2>1. ~running /\ ~connected /\ ~connected' /\ handles \in Nat /\ MaxConnects \in Nat
      BY <1>0, <1>1, BoundsAreNats DEF TypeOK, Connect
    <2>2. CASE connectionHandle' = None /\ UNCHANGED <<handles, link, running>>
      BY <1>0, <1>1, <2>1, <2>2 DEF Links, Story, Connect, server, None, Handles
    <2>3. CASE /\ handles < MaxConnects /\ handles' = handles + 1
               /\ connectionHandle' = handles + 1
               /\ link' = [link EXCEPT ![handles + 1] = "connecting"]
               /\ running' = TRUE
      <3>1. handles + 1 \in Handles /\ events' = events /\ session' = session
        BY <1>1, <2>1, <2>3 DEF Handles, Connect, server
      <3>2. link[handles + 1] = "none" /\ events[handles + 1] = <<>> /\ session[handles + 1] = "none"
        BY <1>0, <2>1, <3>1 DEF Links, Story
      <3>3. \A h \in Handles : link'[h] = IF h = handles + 1 THEN "connecting" ELSE link[h]
        BY <1>0, <2>3 DEF TypeOK
      <3>4. \A h \in Handles : link[h] \in {"none", "down"}
        BY <1>0, <2>1 DEF Links, TypeOK
      <3>5. \A h \in Handles : h \in Nat /\ (h > handles' <=> h > handles /\ h # handles + 1)
        BY <2>1, <2>3 DEF Handles
      <3>6. ASSUME NEW h \in Handles
            PROVE  /\ link'[h] = "none" <=> h > handles'
                   /\ link'[h] \in {"connecting", "up"} => running' /\ h = connectionHandle'
                   /\ link'[h] = "connecting" => ~connected'
                   /\ Story(h)'
                   /\ session'[h] # "none" <=> link'[h] = "up"
        BY <1>0, <2>1, <2>3, <3>1, <3>2, <3>3, <3>4, <3>5, <3>6 DEF Links, Story
      <3>7. connectionHandle' <= handles' /\ connectionHandle' # None
        BY <2>1, <2>3 DEF None
      <3> QED
        BY <2>1, <2>3, <3>6, <3>7 DEF Links
    <2> QED
      BY <1>1, <2>2, <2>3 DEF Connect
  <1>2. CASE connected /\ Close(connectionHandle)
    <2> DEFINE c == connectionHandle
    <2>1. running /\ c \in Handles
      BY <1>0, <1>2, PresentHandle DEF Links
    <2>2. /\ ~connected' /\ ~running' /\ connectionHandle' = 0 /\ handles' = handles /\ events' = events
          /\ \A h \in Handles : /\ link'[h] = IF h = c THEN "down" ELSE link[h]
                                /\ session'[h] = IF h = c THEN "none" ELSE session[h]
      BY <1>0, <1>2 DEF TypeOK, Close, LeaveWorld, None
    <2>3. \A h \in Handles : h # c => link[h] \in {"none", "down"}
      BY <1>0 DEF Links, TypeOK
    <2>4. link[c] # "none" /\ handles \in Nat
      BY <1>0, <1>2, <2>1 DEF Links, TypeOK, Handles, None
    <2>5. ASSUME NEW h \in Handles
          PROVE  /\ link'[h] = "none" <=> h > handles'
                 /\ link'[h] \in {"connecting", "up"} => running' /\ h = connectionHandle'
                 /\ link'[h] = "connecting" => ~connected'
                 /\ Story(h)'
                 /\ session'[h] # "none" <=> link'[h] = "up"
      BY <1>0, <1>2, <2>1, <2>2, <2>3, <2>4, <2>5 DEF Links, Story
    <2> QED
      BY <2>2, <2>4, <2>5 DEF Links
  <1>3. CASE SendHello
    BY <1>0, <1>3, LinksIdle DEF SendHello, client, server
  <1>4. CASE SendPing
    BY <1>0, <1>4, LinksIdle DEF SendPing, server
  <1>5. ASSUME NEW op \in Ops, NEW zones \in SUBSET Zones, SendInterest(op, zones)
        PROVE  Links'
    BY <1>0, <1>5, LinksIdle DEF SendInterest, client, server
  <1>6. CASE Welcomed
    BY <1>0, <1>6, LinksIdle DEF Welcomed, server
  <1>7. CASE HandleObjects
    BY <1>0, <1>7, LinksIdle DEF HandleObjects, server
  <1>8. CASE HandleInterestComplete
    BY <1>0, <1>8, LinksIdle DEF HandleInterestComplete, client, server
  <1>9. CASE HandlePingResponse
    BY <1>0, <1>9, LinksIdle DEF HandlePingResponse, server
  <1>10. ASSUME NEW g \in Handles, HandleNetCallback(g) PROVE Links'
    <2>1. /\ running /\ handles' = handles /\ link' = link /\ session' = session
          /\ events[g] # <<>>
          /\ \A h \in Handles : events'[h] = IF h = g THEN Tail(events[g]) ELSE events[h]
      BY <1>0, <1>10 DEF TypeOK, HandleNetCallback, server
    <2>2. CASE g # connectionHandle /\ link[g] = "down" /\ UNCHANGED <<client, game>>
      BY <1>0, <2>1, <2>2 DEF Links, Story, client
    <2>3. CASE /\ g = connectionHandle /\ ~connected /\ link[g] = "up"
               /\ events[g] = <<"connected">> /\ Connected
      BY <1>0, <2>1, <2>3, Stories DEF Links, Story, Connected
    <2>4. CASE /\ g = connectionHandle /\ ~connected /\ link[g] = "down"
               /\ events[g] = <<"failed">> /\ Failed
      BY <1>0, <2>1, <2>4 DEF Links, Story, Failed
    <2>5. CASE /\ g = connectionHandle /\ ~connected /\ link[g] = "down"
               /\ events[g] = <<"connected", "lost">> /\ Connected
      BY <1>0, <2>1, <2>5, Stories DEF Links, Story, Connected
    <2>6. CASE /\ g = connectionHandle /\ connected /\ link[g] = "down"
               /\ events[g] = <<"lost">> /\ LeaveWorld
      <3>1. ~running' /\ ~connected' /\ connectionHandle' = 0 /\ handles \in Nat
        BY <1>0, <2>6 DEF LeaveWorld, None, TypeOK
      <3>2. \A h \in Handles : link[h] \in {"none", "down"}
        BY <1>0, <2>6 DEF Links, TypeOK
      <3> QED
        BY <1>0, <2>1, <2>6, <3>1, <3>2 DEF Links, Story
    <2> QED
      BY <1>10, <2>2, <2>3, <2>4, <2>5, <2>6, Callback
  <1>11. ASSUME NEW g \in Handles, Establish(g) PROVE Links'
    <2>1. /\ UNCHANGED <<connectionHandle, connected, running, handles>>
          /\ link[g] = "connecting"
          /\ \A h \in Handles : /\ link'[h] = IF h = g THEN "up" ELSE link[h]
                                /\ session'[h] = IF h = g THEN "Unverified" ELSE session[h]
                                /\ events'[h] = IF h = g THEN Append(events[g], "connected") ELSE events[h]
      BY <1>0, <1>11 DEF TypeOK, Establish, client, Report
    <2>2. running /\ g = connectionHandle /\ ~connected /\ events[g] = <<>>
      BY <1>0, <2>1 DEF Links, Story
    <2>3. events'[g] = <<"connected">>
      BY <2>1, <2>2, Stories
    <2> QED
      BY <1>0, <2>1, <2>2, <2>3 DEF Links, Story
  <1>12. ASSUME NEW g \in Handles, Fail(g) PROVE Links'
    <2>1. /\ UNCHANGED <<connectionHandle, connected, running, handles, session>>
          /\ link[g] = "connecting"
          /\ \A h \in Handles : /\ link'[h] = IF h = g THEN "down" ELSE link[h]
                                /\ events'[h] = IF h = g THEN Append(events[g], "failed") ELSE events[h]
      BY <1>0, <1>12 DEF TypeOK, Fail, client, server, Report
    <2>2. running /\ g = connectionHandle /\ ~connected /\ events[g] = <<>>
      BY <1>0, <2>1 DEF Links, Story
    <2>3. events'[g] = <<"failed">>
      BY <2>1, <2>2, Stories
    <2> QED
      BY <1>0, <2>1, <2>2, <2>3 DEF Links, Story
  <1>13. ASSUME NEW g \in Handles, Cut(g) PROVE Links'
    <2>1. /\ UNCHANGED <<connectionHandle, connected, running, handles>>
          /\ link[g] = "up"
          /\ \A h \in Handles : /\ link'[h] = IF h = g THEN "down" ELSE link[h]
                                /\ session'[h] = IF h = g THEN "none" ELSE session[h]
                                /\ events'[h] = IF h = g THEN Append(events[g], "lost") ELSE events[h]
      BY <1>0, <1>13 DEF TypeOK, Cut, Break, client, Report
    <2>2. running /\ g = connectionHandle
      BY <1>0, <2>1 DEF Links
    <2>3. IF connected THEN events'[g] = <<"lost">> ELSE events'[g] = <<"connected", "lost">>
      BY <1>0, <2>1, Stories DEF Links, Story
    <2> QED
      BY <1>0, <2>1, <2>2, <2>3 DEF Links, Story
  <1>14. ASSUME NEW h \in Handles, AcceptHello(h) PROVE Links'
    <2>1. session[h] = "Unverified" /\ session' = [session EXCEPT ![h] = "Verified"]
      BY <1>14 DEF AcceptHello
    <2>2. \A g \in Handles : session'[g] # "none" <=> session[g] # "none"
      BY <1>0, <2>1 DEF TypeOK
    <2> QED
      BY <1>0, <1>14, <2>2, LinksIdle DEF AcceptHello, Answer, client
  <1>15. ASSUME NEW h \in Handles, ServeInterest(h) PROVE Links'
    BY <1>0, <1>15, LinksIdle DEF ServeInterest, Answer, client
  <1>16. ASSUME NEW h \in Handles, ServePing(h) PROVE Links'
    BY <1>0, <1>16, LinksIdle DEF ServePing, Answer, client, server
  <1> QED
    BY <1>1, <1>2, <1>3, <1>4, <1>5, <1>6, <1>7, <1>8, <1>9, <1>10, <1>11, <1>12, <1>13,
       <1>14, <1>15, <1>16, Steps

-------------------------------------------------------------------------------
(* Channels                                                                *)

(* Messages come and go on the present connection only.                    *)
LEMMA ChannelsInUse ==
  ASSUME IInv, connected, connected', UNCHANGED <<connectionHandle, handles>>,
         \A g \in Handles : g # connectionHandle =>
            toServer'[g] = toServer[g] /\ toClient'[g] = toClient[g] /\ session'[g] = session[g]
  PROVE  Channels'
  <1>1. connectionHandle <= handles /\ Channels /\ connectionHandle \in Nat /\ handles \in Nat
    BY DEF IInv, Links, TypeOK
  <1> QED
    BY <1>1 DEF Channels, Handles

(* What a datagram changes.                                                *)
LEMMA Datagram ==
  ASSUME IInv, connected, NEW m, SendDatagram(m)
  PROVE  /\ connectionHandle \in Handles
         /\ \A g \in Handles : g # connectionHandle => toServer'[g] = toServer[g]
         /\ link[connectionHandle] = "up" =>
              toServer'[connectionHandle] = Append(toServer[connectionHandle], m)
         /\ link[connectionHandle] # "up" =>
              toServer'[connectionHandle] = toServer[connectionHandle]
  <1>1. connectionHandle \in Handles
    BY PresentHandle DEF IInv, Links
  <1> QED
    BY <1>1 DEF IInv, TypeOK, SendDatagram

(* What taking a message changes.                                          *)
LEMMA Read ==
  ASSUME IInv, connected, Consumed
  PROVE  /\ connectionHandle \in Handles
         /\ \A g \in Handles : g # connectionHandle => toClient'[g] = toClient[g]
         /\ toClient'[connectionHandle] = Tail(toClient[connectionHandle])
  <1>1. connectionHandle \in Handles
    BY PresentHandle DEF IInv, Links
  <1> QED
    BY <1>1 DEF IInv, TypeOK, Consumed

(* What an answer changes.                                                 *)
LEMMA Replied ==
  ASSUME IInv, NEW h \in Handles, NEW kinds, Serve(h, kinds), NEW reply, Answer(h, reply)
  PROVE  /\ connected /\ h = connectionHandle
         /\ \A g \in Handles : g # h => toClient'[g] = toClient[g] /\ toServer'[g] = toServer[g]
         /\ toClient'[h] = toClient[h] \o reply
         /\ toServer'[h] = Tail(toServer[h])
  <1>1. connected /\ h = connectionHandle
    BY ServedIsCurrent
  <1> QED
    BY <1>1 DEF IInv, TypeOK, Answer

(* What a break changes: some of what was sent can still be read.          *)
LEMMA Broken ==
  ASSUME IInv, NEW h \in Handles, Cut(h)
  PROVE  /\ h = connectionHandle /\ UNCHANGED <<client, handles, game>>
         /\ link'[h] = "down" /\ session'[h] = "none" /\ toServer'[h] = <<>>
         /\ \A g \in Handles : g # h =>
              toClient'[g] = toClient[g] /\ toServer'[g] = toServer[g] /\ session'[g] = session[g]
         /\ \E sent \in Seq(ServerMsg) :
              /\ sent = toClient[h] \/ (connected /\ sent = Append(toClient[h], HelloResp(FALSE)))
              /\ \E n \in 0 .. Len(sent) : toClient'[h] = SubSeq(sent, 1, n)
  <1>1. link[h] = "up" /\ h = connectionHandle
    BY DEF IInv, Links, Cut
  <1>2. toClient[h] \in Seq(ServerMsg) /\ Append(toClient[h], HelloResp(FALSE)) \in Seq(ServerMsg)
    BY ServerMessages, AppendedTo DEF IInv, TypeOK
  <1>3. PICK sent \in Seq(ServerMsg) :
          /\ sent = toClient[h] \/ (connected /\ sent = Append(toClient[h], HelloResp(FALSE)))
          /\ Break(h, sent)
    BY <1>2 DEF Cut
  <1>4. PICK n \in 0 .. Len(sent) : toClient' = [toClient EXCEPT ![h] = SubSeq(sent, 1, n)]
    BY <1>3 DEF Break
  <1>5. toClient'[h] = SubSeq(sent, 1, n) /\ \A g \in Handles : g # h => toClient'[g] = toClient[g]
    BY <1>4 DEF IInv, TypeOK
  <1>6. /\ link'[h] = "down" /\ session'[h] = "none" /\ toServer'[h] = <<>>
        /\ \A g \in Handles : g # h => toServer'[g] = toServer[g] /\ session'[g] = session[g]
    BY <1>3 DEF IInv, TypeOK, Break
  <1> QED
    BY <1>1, <1>3, <1>5, <1>6 DEF Cut

(* Channels holds after every step.                                        *)
LEMMA ChannelsKept ==
  ASSUME IInv, Next
  PROVE  Channels'
  <1>0. TypeOK /\ Links /\ Channels
    BY DEF IInv
  <1>1. CASE Connect
    BY <1>0, <1>1, BoundsAreNats DEF Channels, Connect, server, TypeOK, None, Handles
  <1>2. CASE connected /\ Close(connectionHandle)
    BY <1>0, <1>2 DEF Channels, Close, LeaveWorld, TypeOK, None, Handles
  <1>3. CASE SendHello
    BY <1>3, Datagram, ChannelsInUse DEF SendHello, client, server
  <1>4. CASE SendPing
    BY <1>4, Datagram, ChannelsInUse DEF SendPing, server
  <1>5. ASSUME NEW op \in Ops, NEW zones \in SUBSET Zones, SendInterest(op, zones)
        PROVE  Channels'
    BY <1>5, Datagram, ChannelsInUse DEF SendInterest, client, server
  <1>6. CASE Welcomed
    BY <1>6, Read, ChannelsInUse DEF Welcomed, Receive, server
  <1>7. CASE HandleObjects
    BY <1>7, Read, ChannelsInUse DEF HandleObjects, Receive, server
  <1>8. CASE HandleInterestComplete
    BY <1>8, Read, ChannelsInUse DEF HandleInterestComplete, Receive, client, server
  <1>9. CASE HandlePingResponse
    <2>1. connected /\ connected' /\ UNCHANGED <<connectionHandle, handles, session>> /\ Consumed
      BY <1>9 DEF HandlePingResponse, Receive, server
    <2>2. \A g \in Handles : g # connectionHandle => toServer'[g] = toServer[g]
      BY <1>9, <2>1, Datagram DEF HandlePingResponse
    <2> QED
      BY <2>1, <2>2, Read, ChannelsInUse
  <1>10. ASSUME NEW g \in Handles, HandleNetCallback(g) PROVE Channels'
    <2>1. UNCHANGED <<handles, toServer, toClient, session>>
      BY <1>10 DEF HandleNetCallback, server
    <2>2. CASE UNCHANGED <<client, game>>
      BY <1>0, <2>1, <2>2 DEF Channels, client
    <2>3. CASE Connected
      BY <1>0, <2>1, <2>3 DEF Channels, Connected
    <2>4. CASE ~connected /\ Failed
      BY <1>0, <2>1, <2>4 DEF Channels, Failed
    <2>5. CASE LeaveWorld
      BY <1>0, <2>1, <2>5 DEF Channels, LeaveWorld, None, Handles
    <2> QED
      BY <1>10, <2>2, <2>3, <2>4, <2>5, Callback
  <1>11. ASSUME NEW g \in Handles, Establish(g) PROVE Channels'
    BY <1>0, <1>11 DEF Channels, Establish, TypeOK, client
  <1>12. ASSUME NEW g \in Handles, Fail(g) PROVE Channels'
    BY <1>0, <1>12 DEF Channels, Fail, client, server
  <1>13. ASSUME NEW g \in Handles, Cut(g) PROVE Channels'
    <2>1. CASE connected
      BY <1>13, <2>1, Broken, ChannelsInUse DEF client
    <2>2. CASE ~connected
      <3>1. toClient[g] = <<>> /\ g = connectionHandle
        BY <1>0, <1>13, <2>2, Broken DEF Channels
      <3>2. toClient'[g] = <<>>
        <4>1. PICK n \in 0 .. Len(toClient[g]) : toClient'[g] = SubSeq(toClient[g], 1, n)
          BY <1>13, <2>2, Broken
        <4>2. n = 0 /\ SubSeq(<<>>, 1, 0) = <<>>
          BY <3>1, <4>1
        <4> QED
          BY <3>1, <4>1, <4>2
      <3> QED
        BY <1>0, <1>13, <3>1, <3>2, Broken, ZenonT(40) DEF Channels, client
    <2> QED
      BY <2>1, <2>2
  <1>14. ASSUME NEW h \in Handles, AcceptHello(h) PROVE Channels'
    <2>1. Answer(h, <<HelloResp(TRUE)>>) /\ Serve(h, {"hello"})
      BY <1>14 DEF AcceptHello
    <2>2. \A g \in Handles : g # h => session'[g] = session[g]
      BY <1>0, <1>14 DEF AcceptHello, TypeOK
    <2>3. /\ connected /\ h = connectionHandle
          /\ \A g \in Handles : g # h => toClient'[g] = toClient[g] /\ toServer'[g] = toServer[g]
      BY <2>1, Replied
    <2>4. connected' /\ UNCHANGED <<connectionHandle, handles>>
      BY <1>14, <2>1, <2>3 DEF AcceptHello, Answer, client
    <2>5. \A g \in Handles : g # h => session'[g] = session[g]
      BY <2>2, <1>14 DEF AcceptHello, Answer, client
    <2> QED
      BY <2>3, <2>4, <2>5, ChannelsInUse
  <1>15. ASSUME NEW h \in Handles, ServeInterest(h) PROVE Channels'
    <2>1. PICK reply : Answer(h, reply) /\ Serve(h, Ops)
      BY <1>15 DEF ServeInterest
    <2>3. /\ connected /\ h = connectionHandle
          /\ \A g \in Handles : g # h => toClient'[g] = toClient[g] /\ toServer'[g] = toServer[g]
      BY <2>1, Replied
    <2>4. connected' /\ UNCHANGED <<connectionHandle, handles>>
      BY <1>15, <2>1, <2>3 DEF ServeInterest, Answer, client
    <2>5. \A g \in Handles : g # h => session'[g] = session[g]
      BY <1>15 DEF ServeInterest, Answer, client
    <2> QED
      BY <2>3, <2>4, <2>5, ChannelsInUse
  <1>16. ASSUME NEW h \in Handles, ServePing(h) PROVE Channels'
    <2>1. PICK reply : Answer(h, reply) /\ Serve(h, {"ping", "informPing"})
      BY <1>16 DEF ServePing
    <2>3. /\ connected /\ h = connectionHandle
          /\ \A g \in Handles : g # h => toClient'[g] = toClient[g] /\ toServer'[g] = toServer[g]
      BY <2>1, Replied
    <2>4. connected' /\ UNCHANGED <<connectionHandle, handles>>
      BY <1>16, <2>1, <2>3 DEF ServePing, Answer, client, server
    <2>5. \A g \in Handles : g # h => session'[g] = session[g]
      BY <1>16 DEF ServePing, Answer, client, server
    <2> QED
      BY <2>3, <2>4, <2>5, ChannelsInUse
  <1> QED
    BY <1>1, <1>2, <1>3, <1>4, <1>5, <1>6, <1>7, <1>8, <1>9, <1>10, <1>11, <1>12, <1>13,
       <1>14, <1>15, <1>16, Steps

-------------------------------------------------------------------------------
(* What the client is told                                                 *)

(* A reply follows what was sent before.                                   *)
LEMMA Following ==
  ASSUME NEW S, NEW s \in Seq(S), NEW r \in Seq(S)
  PROVE  /\ s \o r \in Seq(S)
         /\ Len(s \o r) = Len(s) + Len(r)
         /\ Len(s) \in Nat /\ Len(r) \in Nat
         /\ \A i \in 1 .. Len(s) : (s \o r)[i] = s[i]
         /\ \A i \in 1 .. Len(s) + Len(r) :
              i \in 1 .. Len(s) \/ (i - Len(s) \in 1 .. Len(r) /\ (s \o r)[i] = r[i - Len(s)])
  OBVIOUS

(* The part of Announced that is about a channel.                          *)
Prepared(s) == \A i \in 1 .. Len(s) : s[i].kind = "objects" => \E j \in 1 .. i - 1 : Welcome(s, j)
Greeted(s) == \E j \in 1 .. Len(s) : Welcome(s, j)

(* A message other than a welcome is taken.                                *)
LEMMA GreetedTail ==
  ASSUME NEW S, NEW s \in Seq(S), s # <<>>, ~Welcome(s, 1)
  PROVE  /\ Prepared(s) => Prepared(Tail(s))
         /\ Greeted(s) => Greeted(Tail(s))
  <1>1. /\ Len(s) \in Nat \ {0} /\ Len(Tail(s)) = Len(s) - 1
        /\ \A i \in 1 .. Len(Tail(s)) : Tail(s)[i] = s[i + 1]
    BY TailOf
  <1>2. \A j \in 1 .. Len(s) : Welcome(s, j) =>
           j # 1 /\ j - 1 \in 1 .. Len(Tail(s)) /\ Welcome(Tail(s), j - 1)
    BY <1>1 DEF Welcome
  <1>3. ASSUME Prepared(s), NEW i \in 1 .. Len(Tail(s)), Tail(s)[i].kind = "objects"
        PROVE  \E j \in 1 .. i - 1 : Welcome(Tail(s), j)
    <2>1. i + 1 \in 1 .. Len(s) /\ s[i + 1].kind = "objects"
      BY <1>1, <1>3
    <2>2. PICK j \in 1 .. (i + 1) - 1 : Welcome(s, j)
      BY <1>3, <2>1 DEF Prepared
    <2>3. j \in 1 .. Len(s)
      BY <2>1, <2>2
    <2>4. j # 1 /\ Welcome(Tail(s), j - 1)
      BY <1>2, <2>2, <2>3
    <2>5. j - 1 \in 1 .. i - 1
      BY <2>2, <2>4
    <2> QED
      BY <2>4, <2>5
  <1>4. Greeted(s) => Greeted(Tail(s))
    BY <1>2 DEF Greeted
  <1> QED
    BY <1>3, <1>4 DEF Prepared

(* Some of the messages get through.                                       *)
LEMMA GreetedPrefix ==
  ASSUME NEW S, NEW s \in Seq(S), Prepared(s), NEW n \in 0 .. Len(s)
  PROVE  Prepared(SubSeq(s, 1, n))
  <1> DEFINE p == SubSeq(s, 1, n)
  <1>1. Len(p) = n /\ n \in Nat /\ n <= Len(s) /\ Len(s) \in Nat /\ \A i \in 1 .. n : p[i] = s[i]
    BY PrefixOf
  <1> HIDE DEF p
  <1>2. ASSUME NEW i \in 1 .. Len(p), p[i].kind = "objects"
        PROVE  \E j \in 1 .. i - 1 : Welcome(p, j)
    <2>1. i \in 1 .. Len(s) /\ s[i].kind = "objects"
      BY <1>1, <1>2
    <2>2. PICK j \in 1 .. i - 1 : Welcome(s, j)
      BY <2>1 DEF Prepared
    <2>3. p[j] = s[j]
      BY <1>1, <2>2, <1>2
    <2> QED
      BY <2>2, <2>3 DEF Welcome
  <1>3. Prepared(p)
    BY <1>2 DEF Prepared
  <1> QED
    BY <1>3 DEF p

(* Replies are sent to a client that has its welcome on the way, or are    *)
(* not about objects.                                                      *)
LEMMA GreetedReply ==
  ASSUME NEW S, NEW s \in Seq(S), NEW r \in Seq(S), Prepared(s),
         Greeted(s) \/ \A i \in 1 .. Len(r) : r[i].kind # "objects"
  PROVE  /\ Prepared(s \o r)
         /\ Greeted(s) => Greeted(s \o r)
         /\ Len(r) = 1 /\ Welcome(r, 1) => Greeted(s \o r)
  <1> DEFINE t == s \o r
  <1>1. /\ Len(t) = Len(s) + Len(r) /\ Len(s) \in Nat /\ Len(r) \in Nat
        /\ \A i \in 1 .. Len(s) : t[i] = s[i]
        /\ \A i \in 1 .. Len(s) + Len(r) :
             i \in 1 .. Len(s) \/ (i - Len(s) \in 1 .. Len(r) /\ t[i] = r[i - Len(s)])
    BY Following
  <1>5. Len(r) = 1 => t[Len(s) + 1] = r[1]
    OBVIOUS
  <1> HIDE DEF t
  <1>2. \A j \in 1 .. Len(s) : Welcome(s, j) => j \in 1 .. Len(t) /\ Welcome(t, j)
    BY <1>1 DEF Welcome
  <1>3. ASSUME NEW i \in 1 .. Len(t), t[i].kind = "objects"
        PROVE  \E j \in 1 .. i - 1 : Welcome(t, j)
    <2>1. CASE i \in 1 .. Len(s)
      <3>1. PICK j \in 1 .. i - 1 : Welcome(s, j)
        BY <1>1, <1>3, <2>1 DEF Prepared
      <3>2. j \in 1 .. Len(s)
        BY <1>1, <2>1, <3>1
      <3> QED
        BY <1>2, <3>1, <3>2
    <2>2. CASE i \notin 1 .. Len(s)
      <3>1. i - Len(s) \in 1 .. Len(r) /\ t[i] = r[i - Len(s)]
        BY <1>1, <2>2
      <3>2. PICK j \in 1 .. Len(s) : Welcome(s, j)
        BY <1>3, <3>1 DEF Greeted
      <3>3. j \in 1 .. i - 1
        BY <1>1, <2>2, <3>2
      <3> QED
        BY <1>2, <3>2, <3>3
    <2> QED
      BY <2>1, <2>2
  <1>4. Prepared(t) /\ (Greeted(s) => Greeted(t))
    BY <1>2, <1>3 DEF Prepared, Greeted
  <1>6. Len(r) = 1 /\ Welcome(r, 1) => Greeted(t)
    BY <1>1, <1>5 DEF Welcome, Greeted
  <1> QED
    BY <1>4, <1>6 DEF t

(* Announced in these words.                                               *)
LEMMA AnnouncedIs ==
  Announced <=>
    (connected /\ ~isAuthed =>
       /\ Prepared(toClient[connectionHandle])
       /\ session[connectionHandle] = "Verified" => Greeted(toClient[connectionHandle]))
  BY DEF Announced, Prepared, Greeted

(* Announced holds after every step.                                       *)
LEMMA AnnouncedKept ==
  ASSUME IInv, Next
  PROVE  Announced'
  <1> DEFINE c == connectionHandle
  <1>0. TypeOK /\ Links /\ Announced /\ Channels
    BY DEF IInv
  <1>20. SUFFICES ASSUME connected', ~isAuthed'
                  PROVE  /\ Prepared(toClient'[connectionHandle'])
                         /\ session'[connectionHandle'] = "Verified" => Greeted(toClient'[connectionHandle'])
    BY DEF Announced, Prepared, Greeted, Welcome
  <1>21. connected => running /\ c \in Handles /\ toClient[c] \in Seq(ServerMsg)
    BY <1>0, PresentHandle DEF Links, TypeOK
  <1>22. connected /\ ~isAuthed => /\ Prepared(toClient[c])
                                   /\ session[c] = "Verified" => Greeted(toClient[c])
    BY <1>0, AnnouncedIs
  <1>1. CASE Connect
    BY <1>1, <1>20 DEF Connect
  <1>2. CASE connected /\ Close(connectionHandle)
    BY <1>2, <1>20 DEF Close, LeaveWorld
  <1>3. CASE SendHello
    BY <1>3, <1>20, <1>22 DEF SendHello, client, server
  <1>4. CASE SendPing
    BY <1>4, <1>20, <1>22 DEF SendPing, server
  <1>5. ASSUME NEW op \in Ops, NEW zones \in SUBSET Zones, SendInterest(op, zones)
        PROVE  /\ Prepared(toClient'[connectionHandle'])
               /\ session'[connectionHandle'] = "Verified" => Greeted(toClient'[connectionHandle'])
    BY <1>5, <1>20, <1>22 DEF SendInterest, client, server
  <1>6. CASE Welcomed
    BY <1>6, <1>20 DEF Welcomed
  <1>7. ASSUME NEW kind, kind # "helloResp", Receive(kind), Consumed, UNCHANGED <<connectionHandle, isAuthed, session>>
        PROVE  /\ Prepared(toClient'[connectionHandle'])
               /\ session'[connectionHandle'] = "Verified" => Greeted(toClient'[connectionHandle'])
    <2>1. connected /\ ~isAuthed
      BY <1>7, <1>20 DEF Receive
    <2>2. toClient[c] # <<>> /\ Head(toClient[c]).kind = kind /\ Head(toClient[c]) = toClient[c][1]
      BY <1>7, <1>21, <2>1, TailOf DEF Receive
    <2>3. ~Welcome(toClient[c], 1)
      BY <1>7, <2>2 DEF Welcome
    <2>4. toClient'[c] = Tail(toClient[c])
      BY <1>7, <2>1, Read
    <2> QED
      BY <1>7, <1>21, <1>22, <2>1, <2>2, <2>3, <2>4, GreetedTail
  <1>8. CASE HandleObjects
    BY <1>7, <1>8 DEF HandleObjects, server
  <1>9. CASE HandleInterestComplete
    BY <1>7, <1>9 DEF HandleInterestComplete, client, server
  <1>10. CASE HandlePingResponse
    BY <1>7, <1>10 DEF HandlePingResponse, server
  <1>11. ASSUME NEW g \in Handles, HandleNetCallback(g)
         PROVE  /\ Prepared(toClient'[connectionHandle'])
                /\ session'[connectionHandle'] = "Verified" => Greeted(toClient'[connectionHandle'])
    <2>1. UNCHANGED <<toClient, session>>
      BY <1>11 DEF HandleNetCallback, server
    <2>2. CASE UNCHANGED <<client, game>>
      BY <1>20, <1>22, <2>1, <2>2 DEF client
    <2>3. CASE g = c /\ ~connected /\ Connected
      <3>1. connectionHandle' = c /\ toClient[c] = <<>> /\ session[c] # "Verified"
        BY <1>0, <2>3 DEF Connected, Channels
      <3>2. Prepared(<<>>)
        BY DEF Prepared
      <3> QED
        BY <2>1, <3>1, <3>2
    <2>4. CASE Failed
      BY <1>20, <2>4 DEF Failed
    <2>5. CASE LeaveWorld
      BY <1>20, <2>5 DEF LeaveWorld
    <2> QED
      BY <1>11, <2>2, <2>3, <2>4, <2>5, Callback
  <1>12. ASSUME NEW g \in Handles, Establish(g)
         PROVE  /\ Prepared(toClient'[connectionHandle'])
                /\ session'[connectionHandle'] = "Verified" => Greeted(toClient'[connectionHandle'])
    BY <1>0, <1>12, <1>20 DEF Links, Establish, client
  <1>13. ASSUME NEW g \in Handles, Fail(g)
         PROVE  /\ Prepared(toClient'[connectionHandle'])
                /\ session'[connectionHandle'] = "Verified" => Greeted(toClient'[connectionHandle'])
    BY <1>0, <1>13, <1>20 DEF Links, Fail, client
  <1>14. ASSUME NEW g \in Handles, Cut(g)
         PROVE  /\ Prepared(toClient'[connectionHandle'])
                /\ session'[connectionHandle'] = "Verified" => Greeted(toClient'[connectionHandle'])
    <2>1. connected /\ ~isAuthed /\ g = c /\ connectionHandle' = c /\ session'[c] = "none"
      BY <1>14, <1>20, Broken DEF client
    <2>2. PICK sent \in Seq(ServerMsg) :
            /\ sent = toClient[c] \/ sent = Append(toClient[c], HelloResp(FALSE))
            /\ \E n \in 0 .. Len(sent) : toClient'[c] = SubSeq(sent, 1, n)
      BY <1>14, <2>1, Broken
    <2>3. Prepared(Append(toClient[c], HelloResp(FALSE)))
      <3>1. /\ <<HelloResp(FALSE)>> \in Seq(ServerMsg)
            /\ \A i \in 1 .. Len(<<HelloResp(FALSE)>>) : <<HelloResp(FALSE)>>[i] = HelloResp(FALSE)
        BY CountOne, ServerMessages
      <3>2. \A i \in 1 .. Len(<<HelloResp(FALSE)>>) : <<HelloResp(FALSE)>>[i].kind # "objects"
        BY <3>1, MessageKinds
      <3>3. Prepared(toClient[c] \o <<HelloResp(FALSE)>>)
        BY <1>21, <1>22, <2>1, <3>1, <3>2, GreetedReply
      <3>4. Append(toClient[c], HelloResp(FALSE)) = toClient[c] \o <<HelloResp(FALSE)>>
        BY <1>21, <2>1, ServerMessages, AppendIsConcat
      <3> QED
        BY <3>3, <3>4
    <2>4. Prepared(toClient'[c])
      BY <1>22, <2>1, <2>2, <2>3, GreetedPrefix
    <2> QED
      BY <2>1, <2>4
  <1>15. ASSUME NEW h \in Handles, NEW kinds, Serve(h, kinds), NEW reply \in Seq(ServerMsg), Answer(h, reply),
                UNCHANGED client,
                \/ session[h] = "Verified"
                \/ Len(reply) = 1 /\ Welcome(reply, 1)
         PROVE  /\ Prepared(toClient'[connectionHandle'])
                /\ session'[connectionHandle'] = "Verified" => Greeted(toClient'[connectionHandle'])
    <2>1. connected /\ ~isAuthed /\ h = c /\ connectionHandle' = c /\ toClient'[c] = toClient[c] \o reply
      BY <1>15, <1>20, Replied DEF client
    <2>2. Prepared(toClient[c]) /\ toClient[c] \in Seq(ServerMsg)
      BY <1>21, <1>22, <2>1
    <2>3. CASE session[h] = "Verified"
      BY <1>15, <1>22, <2>1, <2>2, <2>3, GreetedReply
    <2>4. CASE Len(reply) = 1 /\ Welcome(reply, 1)
      <3>1. \A i \in 1 .. Len(reply) : reply[i].kind # "objects"
        BY <2>4 DEF Welcome
      <3> QED
        BY <1>15, <2>1, <2>2, <2>4, <3>1, GreetedReply
    <2> QED
      BY <1>15, <2>3, <2>4
  <1>16. ASSUME NEW h \in Handles, AcceptHello(h)
         PROVE  /\ Prepared(toClient'[connectionHandle'])
                /\ session'[connectionHandle'] = "Verified" => Greeted(toClient'[connectionHandle'])
    <2>1. /\ <<HelloResp(TRUE)>> \in Seq(ServerMsg) /\ Len(<<HelloResp(TRUE)>>) = 1
          /\ Welcome(<<HelloResp(TRUE)>>, 1)
      <3>1. \A m \in ServerMsg : <<m>> \in Seq(ServerMsg) /\ Len(<<m>>) = 1 /\ <<m>>[1] = m
        OBVIOUS
      <3> QED
        BY <3>1, ServerMessages, MessageKinds DEF Welcome
    <2> QED
      BY <1>15, <1>16, <2>1 DEF AcceptHello
  <1>17. ASSUME NEW h \in Handles, ServeInterest(h)
         PROVE  /\ Prepared(toClient'[connectionHandle'])
                /\ session'[connectionHandle'] = "Verified" => Greeted(toClient'[connectionHandle'])
    <2>1. PICK reply \in Seq(ServerMsg) : Answer(h, reply)
      BY <1>17, InterestAnswered
    <2> QED
      BY <1>15, <1>17, <2>1 DEF ServeInterest
  <1>18. ASSUME NEW h \in Handles, ServePing(h)
         PROVE  /\ Prepared(toClient'[connectionHandle'])
                /\ session'[connectionHandle'] = "Verified" => Greeted(toClient'[connectionHandle'])
    <2>1. PICK reply \in Seq(ServerMsg) : Answer(h, reply)
      BY <1>18, PingAnswered
    <2> QED
      BY <1>15, <1>18, <2>1 DEF ServePing
  <1> QED
    BY <1>1, <1>2, <1>3, <1>4, <1>5, <1>6, <1>8, <1>9, <1>10, <1>11, <1>12, <1>13, <1>14,
       <1>16, <1>17, <1>18, Steps

-------------------------------------------------------------------------------
(* Who is verified                                                         *)

LEMMA TruthfulIs ==
  Truthful <=> (connected /\ link[connectionHandle] = "up" /\ Greeted(toClient[connectionHandle])
                  => session[connectionHandle] = "Verified")
  BY DEF Truthful, Greeted

LEMMA GreetedBefore ==
  ASSUME NEW S, NEW s \in Seq(S), s # <<>>, Greeted(Tail(s))
  PROVE  Greeted(s)
  <1>1. /\ Len(s) \in Nat \ {0} /\ Len(Tail(s)) = Len(s) - 1
        /\ \A i \in 1 .. Len(Tail(s)) : Tail(s)[i] = s[i + 1]
    BY TailOf
  <1>2. PICK i \in 1 .. Len(Tail(s)) : Welcome(Tail(s), i)
    BY DEF Greeted
  <1>3. i + 1 \in 1 .. Len(s) /\ Welcome(s, i + 1)
    BY <1>1, <1>2 DEF Welcome
  <1> QED
    BY <1>3 DEF Greeted

(* Truthful holds after every step.                                        *)
LEMMA TruthfulKept ==
  ASSUME IInv, Next
  PROVE  Truthful'
  <1> DEFINE c == connectionHandle
             Holds == session'[connectionHandle'] = "Verified"
  <1>0. TypeOK /\ Links /\ Truthful /\ Channels
    BY DEF IInv
  <1>20. SUFFICES ASSUME connected', link'[connectionHandle'] = "up", Greeted(toClient'[connectionHandle'])
                  PROVE  Holds
    BY DEF Truthful, Greeted, Welcome
  <1>21. connected => running /\ c \in Handles /\ toClient[c] \in Seq(ServerMsg)
    BY <1>0, PresentHandle DEF Links, TypeOK
  <1>22. connected /\ link[c] = "up" /\ Greeted(toClient[c]) => session[c] = "Verified"
    BY <1>0, TruthfulIs
  <1>1. CASE Connect
    BY <1>1, <1>20 DEF Connect
  <1>2. CASE connected /\ Close(connectionHandle)
    BY <1>2, <1>20 DEF Close, LeaveWorld
  <1>3. CASE SendHello
    BY <1>3, <1>20, <1>22 DEF SendHello, client, server
  <1>4. CASE SendPing
    BY <1>4, <1>20, <1>22 DEF SendPing, server
  <1>5. ASSUME NEW op \in Ops, NEW zones \in SUBSET Zones, SendInterest(op, zones)
        PROVE  Holds
    BY <1>5, <1>20, <1>22 DEF SendInterest, client, server
  <1>6. ASSUME NEW kind, Receive(kind), Consumed, UNCHANGED <<connectionHandle, link, session>>
        PROVE  Holds
    <2>1. connected /\ toClient[c] # <<>>
      BY <1>6 DEF Receive
    <2>2. toClient'[c] = Tail(toClient[c])
      BY <1>6, <2>1, Read
    <2>3. Greeted(toClient[c])
      BY <1>6, <1>20, <1>21, <2>1, <2>2, GreetedBefore
    <2> QED
      BY <1>6, <1>20, <1>22, <2>1, <2>3
  <1>7. CASE Welcomed
    BY <1>6, <1>7 DEF Welcomed, server
  <1>8. CASE HandleObjects
    BY <1>6, <1>8 DEF HandleObjects, server
  <1>9. CASE HandleInterestComplete
    BY <1>6, <1>9 DEF HandleInterestComplete, client, server
  <1>10. CASE HandlePingResponse
    BY <1>6, <1>10 DEF HandlePingResponse, server
  <1>11. ASSUME NEW g \in Handles, HandleNetCallback(g) PROVE Holds
    <2>1. UNCHANGED <<toClient, session, link>>
      BY <1>11 DEF HandleNetCallback, server
    <2>2. CASE UNCHANGED <<client, game>>
      BY <1>20, <1>22, <2>1, <2>2 DEF client
    <2>3. CASE g = c /\ ~connected /\ Connected
      <3>1. connectionHandle' = c /\ toClient[c] = <<>>
        BY <1>0, <2>3 DEF Connected, Channels
      <3>2. ~Greeted(<<>>)
        BY DEF Greeted
      <3> QED
        BY <1>20, <2>1, <3>1, <3>2
    <2>4. CASE Failed
      BY <1>20, <2>4 DEF Failed
    <2>5. CASE LeaveWorld
      BY <1>20, <2>5 DEF LeaveWorld
    <2> QED
      BY <1>11, <2>2, <2>3, <2>4, <2>5, Callback
  <1>12. ASSUME NEW g \in Handles, Establish(g) PROVE Holds
    BY <1>0, <1>12, <1>20 DEF Links, Establish, client
  <1>13. ASSUME NEW g \in Handles, Fail(g) PROVE Holds
    BY <1>0, <1>13, <1>20 DEF Links, Fail, client
  <1>14. ASSUME NEW g \in Handles, Cut(g) PROVE Holds
    BY <1>14, <1>20, Broken DEF client
  <1>15. ASSUME NEW h \in Handles, AcceptHello(h) PROVE Holds
    <2>1. h = c /\ connectionHandle' = c
      BY <1>15, ServedIsCurrent DEF AcceptHello, client
    <2> QED
      BY <1>0, <1>15, <2>1 DEF AcceptHello, TypeOK
  <1>16. ASSUME NEW h \in Handles, ServeInterest(h) PROVE Holds
    <2>1. h = c /\ connectionHandle' = c
      BY <1>16, ServedIsCurrent DEF ServeInterest, client
    <2> QED
      BY <1>16, <2>1 DEF ServeInterest
  <1>17. ASSUME NEW h \in Handles, ServePing(h) PROVE Holds
    <2>1. h = c /\ connectionHandle' = c
      BY <1>17, ServedIsCurrent DEF ServePing, client
    <2> QED
      BY <1>17, <2>1 DEF ServePing, server
  <1> QED
    BY <1>1, <1>2, <1>3, <1>4, <1>5, <1>7, <1>8, <1>9, <1>10, <1>11, <1>12, <1>13, <1>14,
       <1>15, <1>16, <1>17, Steps

(* AuthAgrees holds after every step.                                      *)
LEMMA AuthKept ==
  ASSUME IInv, Next
  PROVE  AuthAgrees'
  <1> DEFINE c == connectionHandle
  <1>0. TypeOK /\ Links /\ AuthAgrees
    BY DEF IInv
  <1>9. connected => running /\ c \in Handles /\ toClient[c] \in Seq(ServerMsg)
    BY <1>0, PresentHandle DEF Links, TypeOK
  <1>20. ~connected => ~isAuthed /\ view = {} /\ ~pendingPing
    BY <1>0 DEF AuthAgrees
  <1>21. ASSUME UNCHANGED <<connectionHandle, connected, isAuthed, link, session>>,
                isAuthed \/ UNCHANGED <<view, pendingPing>>
         PROVE  AuthAgrees'
    BY <1>0, <1>21 DEF AuthAgrees
  <1>22. ASSUME UNCHANGED <<isAuthed, view, pendingPing>>, ~connected
         PROVE  AuthAgrees'
    BY <1>20, <1>22 DEF AuthAgrees
  <1>23. ASSUME LeaveWorld PROVE AuthAgrees'
    BY <1>23 DEF AuthAgrees, LeaveWorld, Forgets
  <1>1. CASE Connect
    BY <1>1, <1>22 DEF Connect
  <1>2. CASE connected /\ Close(connectionHandle)
    BY <1>2, <1>23 DEF Close
  <1>3. CASE SendHello
    BY <1>3, <1>21 DEF SendHello, client, server
  <1>4. CASE SendPing
    BY <1>4, <1>21 DEF SendPing, server
  <1>5. ASSUME NEW op \in Ops, NEW zones \in SUBSET Zones, SendInterest(op, zones)
        PROVE  AuthAgrees'
    BY <1>5, <1>21 DEF SendInterest, client, server
  <1>6. CASE Welcomed
    <2>1. connected /\ toClient[c] # <<>> /\ Head(toClient[c]).kind = "helloResp" /\ Head(toClient[c]).valid
      BY <1>6 DEF Welcomed, Receive
    <2>2. Head(toClient[c]) = toClient[c][1] /\ 1 \in 1 .. Len(toClient[c])
      BY <1>9, <2>1, TailOf
    <2>3. Greeted(toClient[c])
      BY <2>1, <2>2 DEF Greeted, Welcome
    <2>4. link[c] \in {"up", "down"}
      BY <1>0, <1>9, <2>1 DEF Links, TypeOK, Handles
    <2>5. session[c] = "Verified" \/ link[c] = "down"
      BY <2>1, <2>3, <2>4, TruthfulIs DEF IInv
    <2>6. isAuthed' /\ UNCHANGED <<connectionHandle, connected, session, link>>
      BY <1>6 DEF Welcomed, server
    <2> QED
      BY <2>1, <2>5, <2>6 DEF AuthAgrees
  <1>7. CASE HandleObjects
    <2>1. connected /\ toClient[c] # <<>> /\ Head(toClient[c]).kind = "objects"
      BY <1>7 DEF HandleObjects, Receive
    <2>2. Head(toClient[c]) = toClient[c][1] /\ 1 \in 1 .. Len(toClient[c])
      BY <1>9, <2>1, TailOf
    <2>3. isAuthed
      <3>1. SUFFICES ASSUME ~isAuthed PROVE FALSE
        OBVIOUS
      <3>2. PICK j \in 1 .. 1 - 1 : Welcome(toClient[c], j)
        BY <2>1, <2>2, <3>1 DEF IInv, Announced
      <3> QED
        BY <3>2
    <2> QED
      BY <1>7, <1>21, <2>3 DEF HandleObjects, server
  <1>8. CASE HandleInterestComplete
    BY <1>8, <1>21 DEF HandleInterestComplete, client, server
  <1>10. CASE HandlePingResponse
    BY <1>0, <1>10 DEF HandlePingResponse, server, AuthAgrees
  <1>11. ASSUME NEW g \in Handles, HandleNetCallback(g) PROVE AuthAgrees'
    <2>1. UNCHANGED <<session, link>>
      BY <1>11 DEF HandleNetCallback, server
    <2>2. CASE UNCHANGED <<client, game>>
      BY <1>21, <2>1, <2>2 DEF client
    <2>3. CASE ~connected /\ Connected
      BY <1>22, <2>3 DEF Connected
    <2>4. CASE ~connected /\ Failed
      BY <1>22, <2>4 DEF Failed
    <2>5. CASE LeaveWorld
      BY <1>23, <2>5
    <2> QED
      BY <1>11, <2>2, <2>3, <2>4, <2>5, Callback
  <1>12. ASSUME NEW g \in Handles, Establish(g) PROVE AuthAgrees'
    BY <1>0, <1>12, <1>22 DEF Links, Establish, client
  <1>13. ASSUME NEW g \in Handles, Fail(g) PROVE AuthAgrees'
    BY <1>0, <1>13, <1>22 DEF Links, Fail, client
  <1>14. ASSUME NEW g \in Handles, Cut(g) PROVE AuthAgrees'
    <2>1. g = c /\ link'[g] = "down" /\ UNCHANGED client
      BY <1>14, Broken
    <2> QED
      BY <1>0, <2>1 DEF AuthAgrees, client
  <1>15. ASSUME NEW h \in Handles, AcceptHello(h) PROVE AuthAgrees'
    <2>1. h = c /\ UNCHANGED <<client, link>> /\ session'[c] = "Verified"
      BY <1>0, <1>15, ServedIsCurrent DEF AcceptHello, Answer, TypeOK
    <2> QED
      BY <1>0, <2>1 DEF AuthAgrees, client
  <1>16. ASSUME NEW h \in Handles, ServeInterest(h) PROVE AuthAgrees'
    BY <1>16, <1>21 DEF ServeInterest, Answer, client
  <1>17. ASSUME NEW h \in Handles, ServePing(h) PROVE AuthAgrees'
    BY <1>17, <1>21 DEF ServePing, Answer, client, server
  <1> QED
    BY <1>1, <1>2, <1>3, <1>4, <1>5, <1>6, <1>7, <1>8, <1>10, <1>11, <1>12, <1>13, <1>14,
       <1>15, <1>16, <1>17, Steps

-------------------------------------------------------------------------------
(* Requests and their answers                                              *)

(* Messages are sent together.                                             *)
LEMMA CountConcat ==
  ASSUME NEW S, NEW s \in Seq(S), NEW r \in Seq(S), NEW kinds
  PROVE  Count(s \o r, kinds) = Count(s, kinds) + Count(r, kinds)
  <1> DEFINE A == At(s, kinds)
             T == At(r, kinds)
             U == {i \in Len(s) + 1 .. Len(s) + Len(r) : (s \o r)[i].kind \in kinds}
             f == [i \in T |-> i + Len(s)]
  <1>1. /\ s \o r \in Seq(S) /\ Len(s \o r) = Len(s) + Len(r)
        /\ \A i \in 1 .. Len(s) + Len(r) :
             (s \o r)[i] = IF i <= Len(s) THEN s[i] ELSE r[i - Len(s)]
        /\ Len(s) \in Nat /\ Len(r) \in Nat
    BY ConcatProperties
  <1>2. IsFiniteSet(A) /\ IsFiniteSet(T) /\ IsFiniteSet(At(s \o r, kinds))
    BY <1>1, CountType
  <1>3. At(s \o r, kinds) = A \cup U
    BY <1>1 DEF At
  <1>4. A \cap U = {}
    BY <1>1 DEF At
  <1>5. IsFiniteSet(U)
    BY <1>2, <1>3, FS_Subset
  <1>6. \A i \in T : i \in Nat /\ i + Len(s) \in U
    BY <1>1 DEF At
  <1>7. \A j \in U : j - Len(s) \in T /\ j \in Nat
    BY <1>1 DEF At
  <1>8. ExistsBijection(T, U)
    <2>1. f \in [T -> U]
      BY <1>6
    <2>2. \A a, b \in T : f[a] = f[b] => a = b
      BY <1>1, <1>6
    <2>3. \A j \in U : \E i \in T : f[i] = j
      BY <1>1, <1>7
    <2>4. f \in Bijection(T, U)
      <3> HIDE DEF T, U, f
      <3> QED
        BY <2>1, <2>2, <2>3 DEF Bijection, Injection, Surjection, IsInjective
    <2> QED
      BY <2>4 DEF ExistsBijection
  <1>9. Cardinality(U) = Cardinality(T)
    BY <1>2, <1>5, <1>8, FS_Bijection
  <1>10. Cardinality(A \cup U) = Cardinality(A) + Cardinality(U) - Cardinality(A \cap U)
    BY <1>2, <1>5, FS_Union
  <1>11. Cardinality(A) \in Nat /\ Cardinality(T) \in Nat
    BY <1>2, FS_CardinalityType
  <1>12. Cardinality(A \cap U) = 0
    BY <1>4, FS_EmptySet
  <1>13. Cardinality(A \cup U) = Cardinality(A) + Cardinality(T)
    <2> HIDE DEF A, T, U
    <2> QED
      BY <1>9, <1>10, <1>11, <1>12
  <1> QED
    BY <1>3, <1>13, Zenon DEF Count

(* The two channels of the present connection.                             *)
LEMMA Both ==
  ASSUME IInv, connected
  PROVE  /\ connectionHandle \in Handles /\ running
         /\ toServer[connectionHandle] \in Seq(ClientMsg)
         /\ toClient[connectionHandle] \in Seq(ServerMsg)
         /\ requests \in Seq(InterestMsg) /\ Len(requests) \in Nat
         /\ \A kinds : /\ Count(toServer[connectionHandle], kinds) \in Nat
                       /\ Count(toClient[connectionHandle], kinds) \in Nat
  <1>1. connectionHandle \in Handles /\ running
    BY PresentHandle DEF IInv, Links
  <1>2. /\ toServer[connectionHandle] \in Seq(ClientMsg)
        /\ toClient[connectionHandle] \in Seq(ServerMsg)
        /\ requests \in Seq(InterestMsg)
    BY <1>1 DEF IInv, TypeOK
  <1>3. Len(requests) \in Nat
    BY <1>2
  <1> QED
    BY <1>1, <1>2, <1>3, CountType

(* What a datagram, a message taken, and an answer add to the counts.      *)
LEMMA DatagramCounts ==
  ASSUME IInv, connected, NEW m \in ClientMsg, SendDatagram(m), NEW kinds
  PROVE  Count(toServer'[connectionHandle], kinds)
           = Count(toServer[connectionHandle], kinds)
               + IF link[connectionHandle] = "up" /\ m.kind \in kinds THEN 1 ELSE 0
  <1>1. /\ toServer[connectionHandle] \in Seq(ClientMsg)
        /\ Count(toServer[connectionHandle], kinds) \in Nat
    BY Both
  <1>2. Count(Append(toServer[connectionHandle], m), kinds)
          = Count(toServer[connectionHandle], kinds) + IF m.kind \in kinds THEN 1 ELSE 0
    BY <1>1, CountAppend
  <1>3. CASE link[connectionHandle] = "up"
    BY <1>2, <1>3, Datagram
  <1>4. CASE link[connectionHandle] # "up"
    BY <1>1, <1>4, Datagram
  <1> QED
    BY <1>3, <1>4

LEMMA ReadCounts ==
  ASSUME IInv, NEW kind, Receive(kind), Consumed, NEW kinds
  PROVE  /\ connected
         /\ Count(toClient[connectionHandle], kinds)
              = Count(toClient'[connectionHandle], kinds) + IF kind \in kinds THEN 1 ELSE 0
         /\ Count(toClient'[connectionHandle], kinds) \in Nat
  <1>1. /\ connected /\ toClient[connectionHandle] \in Seq(ServerMsg) /\ toClient[connectionHandle] # <<>>
        /\ Head(toClient[connectionHandle]).kind = kind
        /\ Tail(toClient[connectionHandle]) \in Seq(ServerMsg)
    BY Taken
  <1>2. toClient'[connectionHandle] = Tail(toClient[connectionHandle])
    BY <1>1, Read
  <1>3. Count(toClient[connectionHandle], kinds)
          = Count(Tail(toClient[connectionHandle]), kinds) + IF kind \in kinds THEN 1 ELSE 0
    BY <1>1, CountTail
  <1>4. Count(Tail(toClient[connectionHandle]), kinds) \in Nat
    BY <1>1, CountType
  <1> QED
    BY <1>1, <1>2, <1>3, <1>4

LEMMA ReplyCounts ==
  ASSUME IInv, NEW h \in Handles, NEW served, Serve(h, served),
         NEW reply \in Seq(ServerMsg), Answer(h, reply), NEW kinds
  PROVE  /\ connected /\ h = connectionHandle /\ Head(toServer[h]).kind \in served
         /\ Count(toServer[h], kinds)
              = Count(toServer'[h], kinds) + IF Head(toServer[h]).kind \in kinds THEN 1 ELSE 0
         /\ Count(toServer'[h], kinds) \in Nat
         /\ Count(toClient'[h], kinds) = Count(toClient[h], kinds) + Count(reply, kinds)
         /\ Count(toClient[h], kinds) \in Nat
  <1>1. /\ connected /\ h = connectionHandle
        /\ toClient'[h] = toClient[h] \o reply
        /\ toServer'[h] = Tail(toServer[h])
    BY Replied
  <1>2. /\ toServer[h] \in Seq(ClientMsg) /\ toServer[h] # <<>>
        /\ Head(toServer[h]).kind \in served
        /\ Tail(toServer[h]) \in Seq(ClientMsg)
    BY ServedHead
  <1>3. toClient[h] \in Seq(ServerMsg)
    BY <1>1, Both
  <1>4. Count(toClient[h] \o reply, kinds) = Count(toClient[h], kinds) + Count(reply, kinds)
    BY <1>3, CountConcat
  <1>5. Count(toServer[h], kinds)
          = Count(Tail(toServer[h]), kinds) + IF Head(toServer[h]).kind \in kinds THEN 1 ELSE 0
    BY <1>2, CountTail
  <1>6. Count(Tail(toServer[h]), kinds) \in Nat /\ Count(toClient[h], kinds) \in Nat
    BY <1>2, <1>3, CountType
  <1> QED
    BY <1>1, <1>2, <1>4, <1>5, <1>6

(* What is left of a broken connection.                                    *)
LEMMA CutCounts ==
  ASSUME IInv, connected, NEW h \in Handles, Cut(h), NEW kinds, "helloResp" \notin kinds
  PROVE  /\ h = connectionHandle
         /\ Count(toServer'[h], kinds) = 0
         /\ Count(toClient'[h], kinds) <= Count(toClient[h], kinds)
         /\ Count(toClient'[h], kinds) \in Nat
  <1>1. h = connectionHandle /\ toServer'[h] = <<>>
    BY Broken
  <1>2. PICK sent \in Seq(ServerMsg) :
          /\ sent = toClient[h] \/ sent = Append(toClient[h], HelloResp(FALSE))
          /\ \E n \in 0 .. Len(sent) : toClient'[h] = SubSeq(sent, 1, n)
    BY Broken
  <1>3. PICK n \in 0 .. Len(sent) : toClient'[h] = SubSeq(sent, 1, n)
    BY <1>2
  <1>4. toClient[h] \in Seq(ServerMsg) /\ Count(toClient[h], kinds) \in Nat
    BY <1>1, Both
  <1>5. Count(Append(toClient[h], HelloResp(FALSE)), kinds) = Count(toClient[h], kinds)
    <2>1. PICK m \in ServerMsg : m = HelloResp(FALSE)
      BY ServerMessages
    <2>2. m.kind \notin kinds
      BY <2>1, MessageKinds
    <2>3. Count(Append(toClient[h], m), kinds)
            = Count(toClient[h], kinds) + IF m.kind \in kinds THEN 1 ELSE 0
      BY <1>4, CountAppend
    <2>4. Count(Append(toClient[h], m), kinds) = Count(toClient[h], kinds)
      BY <1>4, <2>2, <2>3
    <2> QED
      BY <2>1, <2>4, Zenon
  <1>6. Count(sent, kinds) = Count(toClient[h], kinds)
    BY <1>2, <1>5
  <1>7. Count(SubSeq(sent, 1, n), kinds) <= Count(sent, kinds)
    BY CountPrefix
  <1>8. Count(SubSeq(sent, 1, n), kinds) \in Nat
    BY PrefixOf, CountType
  <1> QED
    BY <1>1, <1>3, <1>6, <1>7, <1>8, CountEmpty

(* Answers holds after every step.                                         *)
LEMMA AnswersKept ==
  ASSUME IInv, Next
  PROVE  Answers'
  <1> DEFINE c == connectionHandle
             Out == Count(toServer[c], Ops)
             In == Count(toClient[c], {"complete"})
             Holds == Count(toServer'[c'], Ops) + Count(toClient'[c'], {"complete"}) <= Len(requests')
  <1>0. Links /\ Channels /\ TypeOK
    BY DEF IInv
  <1>20. SUFFICES ASSUME connected' PROVE Holds
    BY DEF Answers, Count, At
  <1>21. connected => /\ Out + In <= Len(requests)
                      /\ Out \in Nat /\ In \in Nat /\ Len(requests) \in Nat
    BY Both DEF IInv, Answers
  <1>22. /\ Hello.kind \notin Ops /\ Ping.kind \notin Ops /\ InformPing.kind \notin Ops
         /\ "complete" \in {"complete"} /\ "helloResp" \notin {"complete"}
    BY ClientMessages DEF Ops
  <1>1. CASE Connect
    BY <1>1, <1>20 DEF Connect
  <1>2. CASE connected /\ Close(connectionHandle)
    BY <1>2, <1>20 DEF Close, LeaveWorld
  <1>3. ASSUME connected, NEW m \in ClientMsg, SendDatagram(m), m.kind \notin Ops,
               UNCHANGED <<connectionHandle, requests>>,
               Count(toClient'[c], {"complete"}) \in Nat, Count(toClient'[c], {"complete"}) <= In
        PROVE  Holds
    <2>1. Count(toServer'[c], Ops) = Out
      BY <1>3, <1>21, DatagramCounts
    <2> HIDE DEF Out, In
    <2> QED
      BY <1>3, <1>21, <2>1
  <1>4. CASE SendHello
    <2>1. /\ connected /\ SendDatagram(Hello) /\ Hello \in ClientMsg
          /\ UNCHANGED <<connectionHandle, requests, toClient>>
      BY <1>4, ClientMessages DEF SendHello, client, game
    <2>2. Count(toClient'[c], {"complete"}) = In
      BY <2>1, Zenon
    <2> QED
      BY <1>3, <1>21, <1>22, <2>1, <2>2
  <1>5. CASE SendPing
    <2>1. /\ connected /\ SendDatagram(Ping) /\ Ping \in ClientMsg
          /\ UNCHANGED <<connectionHandle, requests, toClient>>
      BY <1>5, ClientMessages DEF SendPing, game
    <2>2. Count(toClient'[c], {"complete"}) = In
      BY <2>1, Zenon
    <2> QED
      BY <1>3, <1>21, <1>22, <2>1, <2>2
  <1>6. ASSUME NEW op \in Ops, NEW zones \in SUBSET Zones, SendInterest(op, zones)
        PROVE  Holds
    <2>1. getNextInterestHandle \in 0 .. 255
      <3>1. interestHandle \in 0 .. 255
        BY <1>0 DEF TypeOK
      <3> QED
        BY <3>1 DEF getNextInterestHandle
    <2>2. PICK m \in InterestMsg : m = Interest(op, getNextInterestHandle, zones)
      BY <2>1, ClientMessages
    <2>3. /\ connected /\ SendDatagram(m) /\ requests' = Append(requests, m)
          /\ UNCHANGED <<connectionHandle, toClient>>
      BY <1>6, <2>2 DEF SendInterest, client
    <2>4. Count(toServer'[c], Ops) <= Out + 1 /\ Count(toServer'[c], Ops) \in Nat
      <3>1. Count(toServer'[c], Ops)
              = Out + IF link[c] = "up" /\ m.kind \in Ops THEN 1 ELSE 0
        BY <2>3, DatagramCounts, ClientMessages
      <3> HIDE DEF Out
      <3> QED
        BY <1>21, <2>3, <3>1
    <2>5. Len(requests') = Len(requests) + 1
      BY <2>3, Both, AppendedTo
    <2>6. Count(toClient'[c'], {"complete"}) = In /\ c' = c
      BY <2>3, Zenon
    <2> HIDE DEF Out, In
    <2> QED
      BY <1>21, <2>3, <2>4, <2>5, <2>6
  <1>7. ASSUME NEW kind, Receive(kind), Consumed, kind # "complete",
               UNCHANGED <<connectionHandle, toServer, requests>>
        PROVE  Holds
    <2>1. connected /\ In = Count(toClient'[c], {"complete"})
      BY <1>7, <1>21, ReadCounts
    <2>2. Count(toServer'[c'], Ops) = Out /\ c' = c
      BY <1>7, Zenon
    <2> HIDE DEF Out, In
    <2> QED
      BY <1>7, <1>21, <2>1, <2>2
  <1>8. CASE Welcomed
    BY <1>7, <1>8 DEF Welcomed, game
  <1>9. CASE HandleObjects
    BY <1>7, <1>9 DEF HandleObjects, game
  <1>10. CASE HandleInterestComplete
    <2>1. /\ connected /\ Receive("complete") /\ Consumed /\ requests' = Tail(requests)
          /\ UNCHANGED <<connectionHandle, toServer>>
      BY <1>10 DEF HandleInterestComplete, Receive, client
    <2>2. In = Count(toClient'[c], {"complete"}) + 1 /\ Count(toClient'[c], {"complete"}) \in Nat
      BY <1>22, <2>1, ReadCounts
    <2>3. requests # <<>> /\ requests \in Seq(InterestMsg)
      BY <1>10, <2>1, CompletionExpected, Both
    <2>4. Len(requests') = Len(requests) - 1
      BY <2>1, <2>3, TailOf
    <2>5. Count(toServer'[c'], Ops) = Out /\ c' = c
      BY <2>1, Zenon
    <2> HIDE DEF Out, In
    <2> QED
      BY <1>21, <2>1, <2>2, <2>4, <2>5
  <1>11. CASE HandlePingResponse
    <2>1. /\ connected /\ Receive("pingResp") /\ Consumed /\ "pingResp" # "complete"
          /\ UNCHANGED <<connectionHandle, requests>>
      BY <1>11 DEF HandlePingResponse, Receive, game
    <2>2. Count(toClient'[c], {"complete"}) \in Nat /\ Count(toClient'[c], {"complete"}) <= In
      <3>1. /\ Count(toClient'[c], {"complete"}) \in Nat
            /\ In = Count(toClient'[c], {"complete"}) + IF "pingResp" \in {"complete"} THEN 1 ELSE 0
        BY <2>1, ReadCounts
      <3> HIDE DEF In
      <3> QED
        BY <3>1
    <2>3. CASE pendingPing
      <3>1. SendDatagram(InformPing) /\ InformPing \in ClientMsg
        BY <1>11, <2>3, ClientMessages DEF HandlePingResponse
      <3> QED
        BY <1>3, <1>22, <2>1, <2>2, <3>1
    <2>4. CASE ~pendingPing
      BY <1>7, <1>11, <2>1, <2>4 DEF HandlePingResponse
    <2> QED
      BY <2>3, <2>4
  <1>12. ASSUME NEW g \in Handles, HandleNetCallback(g) PROVE Holds
    <2>1. UNCHANGED <<toServer, toClient>>
      BY <1>12 DEF HandleNetCallback
    <2>2. CASE UNCHANGED <<client, game>>
      BY <1>20, <1>21, <2>1, <2>2 DEF client, game
    <2>3. CASE g = c /\ ~connected /\ Connected
      <3>1. /\ connectionHandle' = c /\ toClient[c] = <<>> /\ toServer[c] = <<>>
            /\ requests' = requests
        BY <1>0, <2>3 DEF Connected, Channels, game
      <3>2. Count(toServer'[c'], Ops) = 0 /\ Count(toClient'[c'], {"complete"}) = 0
        BY <2>1, <3>1, CountEmpty, Zenon
      <3>3. Len(requests') \in Nat
        BY <1>0, <3>1 DEF TypeOK
      <3> QED
        BY <3>2, <3>3
    <2>4. CASE Failed
      BY <1>20, <2>4 DEF Failed
    <2>5. CASE LeaveWorld
      BY <1>20, <2>5 DEF LeaveWorld
    <2> QED
      BY <1>12, <2>2, <2>3, <2>4, <2>5, Callback
  <1>13. ASSUME NEW g \in Handles, Establish(g) PROVE Holds
    BY <1>0, <1>13, <1>20 DEF Links, Establish, client
  <1>14. ASSUME NEW g \in Handles, Fail(g) PROVE Holds
    BY <1>0, <1>14, <1>20 DEF Links, Fail, client
  <1>15. ASSUME NEW g \in Handles, Cut(g) PROVE Holds
    <2>1. connected /\ UNCHANGED <<connectionHandle, requests>>
      BY <1>15, <1>20, Broken DEF client, game
    <2>2. g = c /\ Count(toServer'[c], Ops) = 0
      <3>1. "helloResp" \notin Ops
        BY DEF Ops
      <3> QED
        BY <1>15, <2>1, <3>1, CutCounts
    <2>3. Count(toClient'[c], {"complete"}) <= In /\ Count(toClient'[c], {"complete"}) \in Nat
      BY <1>15, <1>22, <2>1, <2>2, CutCounts
    <2> HIDE DEF Out, In
    <2> QED
      BY <1>21, <2>1, <2>2, <2>3
  <1>16. ASSUME NEW h \in Handles, AcceptHello(h) PROVE Holds
    <2>1. PICK m \in ServerMsg : m = HelloResp(TRUE)
      BY ServerMessages
    <2>2. PICK reply \in Seq(ServerMsg) : reply = <<m>>
      BY CountOne
    <2>3. m.kind = "helloResp"
      BY <2>1, MessageKinds
    <2>4. Count(reply, {"complete"}) = 0
      BY <2>2, <2>3, CountOne
    <2>5. Serve(h, {"hello"}) /\ Answer(h, reply) /\ UNCHANGED <<connectionHandle, requests>>
      BY <1>16, <2>1, <2>2 DEF AcceptHello, client, game
    <2>6. /\ h = c /\ connected /\ Out = Count(toServer'[c], Ops)
      <3>1. /\ connected /\ h = c /\ Head(toServer[h]).kind \in {"hello"}
            /\ Count(toServer[h], Ops) = Count(toServer'[h], Ops) + IF Head(toServer[h]).kind \in Ops THEN 1 ELSE 0
            /\ Count(toServer'[h], Ops) \in Nat
        BY <2>5, ReplyCounts
      <3>2. Head(toServer[h]).kind \notin Ops
        BY <3>1 DEF Ops
      <3> QED
        BY <3>1, <3>2
    <2>7. Count(toClient'[c], {"complete"}) = In + 0
      BY <2>4, <2>5, <2>6, ReplyCounts
    <2> HIDE DEF Out, In
    <2> QED
      BY <1>21, <2>5, <2>6, <2>7
  <1>17. ASSUME NEW h \in Handles, ServeInterest(h) PROVE Holds
    <2>1. PICK reply \in Seq(ServerMsg) : Answer(h, reply) /\ Count(reply, {"complete"}) = 1
      BY <1>17, InterestAnswered
    <2>2. Serve(h, Ops) /\ UNCHANGED <<connectionHandle, requests>>
      BY <1>17 DEF ServeInterest, client, game
    <2>3. /\ connected /\ h = c /\ Out = Count(toServer'[c], Ops) + 1
          /\ Count(toServer'[c], Ops) \in Nat
      BY <2>1, <2>2, ReplyCounts
    <2>4. Count(toClient'[c], {"complete"}) = In + 1
      BY <2>1, <2>2, <2>3, ReplyCounts
    <2> HIDE DEF Out, In
    <2> QED
      BY <1>21, <2>2, <2>3, <2>4
  <1>18. ASSUME NEW h \in Handles, ServePing(h) PROVE Holds
    <2>1. PICK reply \in Seq(ServerMsg) : Answer(h, reply) /\ Count(reply, {"complete"}) = 0
      BY <1>18, PingAnswered
    <2>2. Serve(h, {"ping", "informPing"}) /\ UNCHANGED <<connectionHandle, requests>>
      BY <1>18 DEF ServePing, client, game
    <2>3. connected /\ h = c /\ Out = Count(toServer'[c], Ops)
      <3>1. /\ connected /\ h = c /\ Head(toServer[h]).kind \in {"ping", "informPing"}
            /\ Count(toServer[h], Ops) = Count(toServer'[h], Ops) + IF Head(toServer[h]).kind \in Ops THEN 1 ELSE 0
            /\ Count(toServer'[h], Ops) \in Nat
        BY <2>1, <2>2, ReplyCounts
      <3>2. Head(toServer[h]).kind \notin Ops
        BY <3>1 DEF Ops
      <3> QED
        BY <3>1, <3>2
    <2>4. Count(toClient'[c], {"complete"}) = In + 0
      BY <2>1, <2>2, <2>3, ReplyCounts
    <2> HIDE DEF Out, In
    <2> QED
      BY <1>21, <2>2, <2>3, <2>4
  <1> QED
    BY <1>1, <1>2, <1>4, <1>5, <1>6, <1>8, <1>9, <1>10, <1>11, <1>12, <1>13, <1>14, <1>15,
       <1>16, <1>17, <1>18, Steps

-------------------------------------------------------------------------------
(* Pings                                                                   *)

(* OnePing holds after every step.                                         *)
LEMMA PingKept ==
  ASSUME IInv, Next
  PROVE  OnePing'
  <1> DEFINE c == connectionHandle
             Out == Count(toServer[c], {"ping"})
             In == Count(toClient[c], {"pingResp"})
             Holds == Count(toServer'[c'], {"ping"}) + Count(toClient'[c'], {"pingResp"})
                        = IF pendingPing' THEN 1 ELSE 0
  <1>0. Links /\ Channels /\ TypeOK
    BY DEF IInv
  <1>19. TypeOK' /\ Links'
    BY TypesKept, LinksKept
  <1>20. SUFFICES ASSUME connected', link'[connectionHandle'] = "up" PROVE Holds
    <2>1. SUFFICES ASSUME connected', link'[connectionHandle'] = "up"
                   PROVE  Cardinality(InFlight(toServer'[c'], "ping"))
                            + Cardinality(InFlight(toClient'[c'], "pingResp"))
                            = IF pendingPing' THEN 1 ELSE 0
      BY DEF OnePing, InFlight
    <2>2. c' \in Handles
      BY <1>19, <2>1, BoundsAreNats DEF TypeOK, Links, Handles, None
    <2>3. toServer'[c'] \in Seq(ClientMsg) /\ toClient'[c'] \in Seq(ServerMsg)
      BY <1>19, <2>2 DEF TypeOK
    <2>4. /\ Cardinality(InFlight(toServer'[c'], "ping")) = Count(toServer'[c'], {"ping"})
          /\ Cardinality(InFlight(toClient'[c'], "pingResp")) = Count(toClient'[c'], {"pingResp"})
      BY <2>3, CountInFlight
    <2>5. Holds
      BY <2>1
    <2> QED
      BY <2>4, <2>5, Zenon
  <1>21. connected /\ link[c] = "up" =>
           /\ Out + In = IF pendingPing THEN 1 ELSE 0
           /\ Out \in Nat /\ In \in Nat
    <2>1. SUFFICES ASSUME connected, link[c] = "up"
                   PROVE  /\ Out + In = IF pendingPing THEN 1 ELSE 0
                          /\ Out \in Nat /\ In \in Nat
      OBVIOUS
    <2>2. /\ Cardinality(InFlight(toServer[c], "ping")) = Out
          /\ Cardinality(InFlight(toClient[c], "pingResp")) = In
      BY <2>1, Both, CountInFlight
    <2>3. Cardinality(InFlight(toServer[c], "ping")) + Cardinality(InFlight(toClient[c], "pingResp"))
            = IF pendingPing THEN 1 ELSE 0
      BY <2>1 DEF IInv, OnePing
    <2>4. Out \in Nat /\ In \in Nat
      BY <2>1, Both
    <2> QED
      BY <2>2, <2>3, <2>4, Zenon
  <1>22. /\ Hello.kind \notin {"ping"} /\ InformPing.kind \notin {"ping"} /\ Ping.kind \in {"ping"}
         /\ "helloResp" \notin {"pingResp"} /\ "pingResp" \in {"pingResp"}
    BY ClientMessages
  <1>1. CASE Connect
    BY <1>1, <1>20 DEF Connect
  <1>2. CASE connected /\ Close(connectionHandle)
    BY <1>2, <1>20 DEF Close, LeaveWorld
  <1>3. ASSUME connected, NEW m \in ClientMsg, SendDatagram(m), m.kind \notin {"ping"},
               UNCHANGED <<connectionHandle, link, toClient, pendingPing>>
        PROVE  Holds
    <2>1. Count(toServer'[c], {"ping"}) = Out
      <3>1. Count(toServer'[c], {"ping"}) = Out + IF link[c] = "up" /\ m.kind \in {"ping"} THEN 1 ELSE 0
        BY <1>3, DatagramCounts
      <3>2. Out \in Nat
        BY <1>3, Both
      <3> HIDE DEF Out
      <3> QED
        BY <1>3, <3>1, <3>2
    <2>2. Count(toClient'[c], {"pingResp"}) = In
      BY <1>3, Zenon
    <2>3. Out + In = IF pendingPing THEN 1 ELSE 0
      BY <1>3, <1>20, <1>21
    <2> HIDE DEF Out, In
    <2> QED
      BY <1>3, <2>1, <2>2, <2>3
  <1>4. CASE SendHello
    <2>1. /\ connected /\ SendDatagram(Hello) /\ Hello \in ClientMsg
          /\ UNCHANGED <<connectionHandle, link, toClient, pendingPing>>
      BY <1>4, ClientMessages DEF SendHello, client
    <2> QED
      BY <1>3, <1>22, <2>1
  <1>5. CASE SendPing
    <2>1. /\ connected /\ SendDatagram(Ping) /\ Ping \in ClientMsg /\ ~pendingPing /\ pendingPing'
          /\ UNCHANGED <<connectionHandle, link, toClient>>
      BY <1>5, ClientMessages DEF SendPing
    <2>2. Out + In = 0 /\ Out \in Nat /\ In \in Nat
      BY <1>20, <1>21, <2>1
    <2>3. Count(toServer'[c], {"ping"}) = Out + IF link[c] = "up" /\ Ping.kind \in {"ping"} THEN 1 ELSE 0
      BY <2>1, DatagramCounts
    <2>4. Count(toClient'[c], {"pingResp"}) = In
      BY <2>1, Zenon
    <2> HIDE DEF Out, In
    <2> QED
      BY <1>20, <1>22, <2>1, <2>2, <2>3, <2>4
  <1>6. ASSUME NEW op \in Ops, NEW zones \in SUBSET Zones, SendInterest(op, zones)
        PROVE  Holds
    <2>1. getNextInterestHandle \in 0 .. 255
      <3>1. interestHandle \in 0 .. 255
        BY <1>0 DEF TypeOK
      <3> QED
        BY <3>1 DEF getNextInterestHandle
    <2>2. PICK m \in InterestMsg : m = Interest(op, getNextInterestHandle, zones)
      BY <2>1, ClientMessages
    <2>3. m \in ClientMsg /\ m.kind = op
      BY <2>1, <2>2, ClientMessages
    <2>4. m.kind \notin {"ping"}
      BY <2>3 DEF Ops
    <2>5. /\ connected /\ SendDatagram(m)
          /\ UNCHANGED <<connectionHandle, link, toClient, pendingPing>>
      BY <1>6, <2>2 DEF SendInterest, client
    <2> QED
      BY <1>3, <2>3, <2>4, <2>5
  <1>7. ASSUME NEW kind, Receive(kind), Consumed, kind \notin {"pingResp"},
               UNCHANGED <<connectionHandle, link, toServer, pendingPing>>
        PROVE  Holds
    <2>1. connected /\ In = Count(toClient'[c], {"pingResp"})
      <3>1. /\ connected /\ Count(toClient'[c], {"pingResp"}) \in Nat
            /\ In = Count(toClient'[c], {"pingResp"}) + IF kind \in {"pingResp"} THEN 1 ELSE 0
        BY <1>7, ReadCounts
      <3> QED
        BY <1>7, <3>1
    <2>2. Count(toServer'[c'], {"ping"}) = Out /\ c' = c
      BY <1>7, Zenon
    <2>3. Out + In = IF pendingPing THEN 1 ELSE 0
      BY <1>7, <1>20, <1>21, <2>1
    <2> HIDE DEF Out, In
    <2> QED
      BY <1>7, <2>1, <2>2, <2>3
  <1>8. CASE Welcomed
    BY <1>7, <1>8 DEF Welcomed
  <1>9. CASE HandleObjects
    BY <1>7, <1>9 DEF HandleObjects
  <1>10. CASE HandleInterestComplete
    BY <1>7, <1>10 DEF HandleInterestComplete, client
  <1>11. CASE HandlePingResponse
    <2>1. /\ connected /\ Receive("pingResp") /\ Consumed /\ ~pendingPing'
          /\ UNCHANGED <<connectionHandle, link>>
      BY <1>11 DEF HandlePingResponse, Receive
    <2>2. In = Count(toClient'[c], {"pingResp"}) + 1 /\ Count(toClient'[c], {"pingResp"}) \in Nat
      BY <1>22, <2>1, ReadCounts
    <2>3. Out + In = (IF pendingPing THEN 1 ELSE 0) /\ Out \in Nat
      BY <1>20, <1>21, <2>1
    <2>4. pendingPing /\ Out = 0 /\ Count(toClient'[c], {"pingResp"}) = 0
      <3>1. CASE pendingPing
        <4> HIDE DEF Out, In
        <4> QED
          BY <2>2, <2>3, <3>1
      <3>2. CASE ~pendingPing
        <4> HIDE DEF Out, In
        <4> QED
          BY <2>2, <2>3, <3>2
      <3> QED
        BY <3>1, <3>2
    <2>5. SendDatagram(InformPing) /\ InformPing \in ClientMsg
      BY <1>11, <2>4, ClientMessages DEF HandlePingResponse
    <2>6. Count(toServer'[c], {"ping"}) = Out + IF link[c] = "up" /\ InformPing.kind \in {"ping"} THEN 1 ELSE 0
      BY <2>1, <2>5, DatagramCounts
    <2> HIDE DEF Out, In
    <2> QED
      BY <1>22, <2>1, <2>4, <2>6
  <1>12. ASSUME NEW g \in Handles, HandleNetCallback(g) PROVE Holds
    <2>1. UNCHANGED <<toServer, toClient, link>>
      BY <1>12 DEF HandleNetCallback
    <2>2. CASE UNCHANGED <<client, game>>
      <3>1. UNCHANGED <<connectionHandle, connected, pendingPing>>
        BY <2>2 DEF client
      <3> QED
        BY <1>20, <1>21, <2>1, <3>1
    <2>3. CASE g = c /\ ~connected /\ Connected
      <3>1. /\ connectionHandle' = c /\ toClient[c] = <<>> /\ toServer[c] = <<>>
            /\ pendingPing' = pendingPing /\ ~pendingPing
        BY <1>0, <2>3 DEF Connected, Channels, IInv, AuthAgrees
      <3>2. Count(toServer'[c'], {"ping"}) = 0 /\ Count(toClient'[c'], {"pingResp"}) = 0
        BY <2>1, <3>1, CountEmpty, Zenon
      <3> QED
        BY <3>1, <3>2
    <2>4. CASE Failed
      BY <1>20, <2>4 DEF Failed
    <2>5. CASE LeaveWorld
      BY <1>20, <2>5 DEF LeaveWorld
    <2> QED
      BY <1>12, <2>2, <2>3, <2>4, <2>5, Callback
  <1>13. ASSUME NEW g \in Handles, Establish(g) PROVE Holds
    BY <1>0, <1>13, <1>20 DEF Links, Establish, client
  <1>14. ASSUME NEW g \in Handles, Fail(g) PROVE Holds
    BY <1>0, <1>14, <1>20 DEF Links, Fail, client
  <1>15. ASSUME NEW g \in Handles, Cut(g) PROVE Holds
    BY <1>15, <1>20, Broken DEF client
  <1>16. ASSUME NEW h \in Handles, NEW served, Serve(h, served), NEW reply \in Seq(ServerMsg), Answer(h, reply),
                UNCHANGED <<connectionHandle, pendingPing>>,
                Count(reply, {"pingResp"}) = IF Head(toServer[h]).kind \in {"ping"} THEN 1 ELSE 0
         PROVE  Holds
    <2> DEFINE n == IF Head(toServer[h]).kind \in {"ping"} THEN 1 ELSE 0
    <2>1. /\ h = c /\ connected
          /\ Out = Count(toServer'[c], {"ping"}) + n
          /\ Count(toServer'[c], {"ping"}) \in Nat
      BY <1>16, ReplyCounts
    <2>2. Count(toClient'[c], {"pingResp"}) = In + n
      BY <1>16, <2>1, ReplyCounts
    <2>3. link[c] = "up"
      BY <1>16, <2>1 DEF Serve
    <2>4. (Out + In = IF pendingPing THEN 1 ELSE 0) /\ Out \in Nat /\ In \in Nat
      BY <1>21, <2>1, <2>3
    <2>5. n \in {0, 1}
      OBVIOUS
    <2> HIDE DEF Out, In, n
    <2> QED
      BY <1>16, <2>1, <2>2, <2>4, <2>5
  <1>17. ASSUME NEW h \in Handles, AcceptHello(h) PROVE Holds
    <2>1. PICK m \in ServerMsg : m = HelloResp(TRUE)
      BY ServerMessages
    <2>2. PICK reply \in Seq(ServerMsg) : reply = <<m>>
      BY CountOne
    <2>3. m.kind = "helloResp"
      BY <2>1, MessageKinds
    <2>4. Count(reply, {"pingResp"}) = 0
      BY <2>2, <2>3, CountOne
    <2>5. Serve(h, {"hello"}) /\ Answer(h, reply) /\ UNCHANGED <<connectionHandle, pendingPing>>
      BY <1>17, <2>1, <2>2 DEF AcceptHello, client
    <2>6. Head(toServer[h]).kind \notin {"ping"}
      BY <2>5, ServedHead
    <2> QED
      BY <1>16, <2>4, <2>5, <2>6
  <1>18. ASSUME NEW h \in Handles, ServeInterest(h) PROVE Holds
    <2>1. PICK reply \in Seq(ServerMsg) : Answer(h, reply) /\ Count(reply, {"pingResp"}) = 0
      BY <1>18, InterestAnswered
    <2>2. Serve(h, Ops) /\ UNCHANGED <<connectionHandle, pendingPing>>
      BY <1>18 DEF ServeInterest, client
    <2>3. Head(toServer[h]).kind \notin {"ping"}
      BY <2>2, ServedHead DEF Ops
    <2> QED
      BY <1>16, <2>1, <2>2, <2>3
  <1>23. ASSUME NEW h \in Handles, ServePing(h) PROVE Holds
    <2>1. PICK reply \in Seq(ServerMsg) :
            /\ Answer(h, reply)
            /\ Count(reply, {"pingResp"}) = IF Head(toServer[h]).kind = "ping" THEN 1 ELSE 0
      BY <1>23, PingAnswered
    <2>2. Serve(h, {"ping", "informPing"}) /\ UNCHANGED <<connectionHandle, pendingPing>>
      BY <1>23 DEF ServePing, client
    <2> QED
      BY <1>16, <2>1, <2>2
  <1> QED
    BY <1>1, <1>2, <1>4, <1>5, <1>6, <1>8, <1>9, <1>10, <1>11, <1>12, <1>13, <1>14, <1>15,
       <1>17, <1>18, <1>23, Steps

-------------------------------------------------------------------------------
(* The theorems                                                            *)

LEMMA Initially == Init => IInv
  <1> SUFFICES ASSUME Init PROVE IInv
    OBVIOUS
  <1>0. MaxConnects \in Nat
    BY BoundsAreNats
  <1>1. TypeOK
    <2>1. \A S : <<>> \in Seq(S)
      OBVIOUS
    <2>2. /\ events \in [Handles -> Seq({"connected", "failed", "lost"})]
          /\ toServer \in [Handles -> Seq(ClientMsg)]
          /\ toClient \in [Handles -> Seq(ServerMsg)]
          /\ requests \in Seq(InterestMsg)
          /\ \A h \in Handles : Len(events[h]) <= 2
      BY <2>1 DEF Init
    <2>3. {connected, isAuthed, pendingPing, running} \subseteq BOOLEAN
      BY DEF Init
    <2>4. /\ link \in [Handles -> {"none", "connecting", "up", "down"}]
          /\ session \in [Handles -> {"none", "Unverified", "Verified"}]
          /\ interest \in [Handles -> SUBSET Zones]
      BY DEF Init
    <2>5. /\ connectionHandle \in 0 .. MaxConnects /\ handles \in 0 .. MaxConnects
          /\ interestHandle \in 0 .. 255 /\ view \subseteq Zones /\ granted \subseteq Zones
      BY <1>0 DEF Init, None
    <2> QED
      BY <2>2, <2>3, <2>4, <2>5 DEF TypeOK
  <1>2. Links
    BY <1>0 DEF Init, Links, Story, None, Handles
  <1>3. Channels
    BY DEF Init, Channels
  <1>4. Announced /\ Truthful /\ Answers /\ AuthAgrees /\ OnePing
    BY DEF Init, Announced, Truthful, Answers, AuthAgrees, OnePing
  <1> QED
    BY <1>1, <1>2, <1>3, <1>4 DEF IInv

LEMMA Stuttering ==
  ASSUME IInv, UNCHANGED vars
  PROVE  IInv'
  <1>1. /\ UNCHANGED <<connectionHandle, connected, isAuthed, pendingPing, running, interestHandle, view>>
        /\ UNCHANGED <<handles, link, events, toServer, toClient, session, interest, requests, granted>>
    BY DEF vars, client, network, server, game
  <1>2. TypeOK' /\ Links' /\ Channels'
    BY <1>1 DEF IInv, TypeOK, Links, Story, Channels
  <1>3. Announced' /\ Truthful' /\ Answers'
    BY <1>1 DEF IInv, Announced, Truthful, Welcome, Answers, Count, At
  <1>4. AuthAgrees' /\ OnePing'
    BY <1>1 DEF IInv, AuthAgrees, OnePing, InFlight
  <1> QED
    BY <1>2, <1>3, <1>4 DEF IInv

THEOREM Inductive == Spec => []IInv
  <1>1. Init => IInv
    BY Initially
  <1>2. IInv /\ [Next]_vars => IInv'
    <2>1. ASSUME IInv, Next PROVE IInv'
      BY <2>1, TypesKept, LinksKept, ChannelsKept, AnnouncedKept, TruthfulKept, AnswersKept,
         AuthKept, PingKept DEF IInv
    <2> QED
      BY <2>1, Stuttering
  <1> QED
    BY <1>1, <1>2, PTL DEF Spec

THEOREM ClientTypes == Spec => []TypeOK
  <1>1. IInv => TypeOK
    BY DEF IInv
  <1> QED
    BY <1>1, Inductive, PTL

(* What the client believes of its connection is right but for an event    *)
(* that it has yet to process, and nothing that happens to an older        *)
(* connection changes that.                                                *)
THEOREM LinkIsKnown == Spec => []LinkKnown
  <1>1. ASSUME IInv PROVE LinkKnown
    <2>0. Links /\ TypeOK
      BY <1>1 DEF IInv
    <2>1. running => connectionHandle \in Handles
      BY <1>1, PresentHandle
    <2>2. \A h \in Handles : link[h] \in {"none", "connecting", "up", "down"} /\ Story(h)
      BY <2>0 DEF Links, TypeOK
    <2>3. running => link[connectionHandle] # "none"
      BY <2>0, <2>1 DEF Links, TypeOK, Handles
    <2>4. ASSUME NEW h, NEW e, events[h] = <<e>> PROVE Queued(h, e)
      <3>1. 1 \in DOMAIN <<e>> /\ <<e>>[1] = e
        OBVIOUS
      <3> QED
        BY <2>4, <3>1 DEF Queued
    <2>5. ASSUME NEW h, events[h] = <<"connected", "lost">> PROVE Queued(h, "connected")
      <3>1. 1 \in DOMAIN <<"connected", "lost">> /\ <<"connected", "lost">>[1] = "connected"
        OBVIOUS
      <3> QED
        BY <2>5, <3>1 DEF Queued
    <2>6. ASSUME connected
          PROVE  /\ running /\ connectionHandle # None
                 /\ link[connectionHandle] = "up" \/ Queued(connectionHandle, "lost")
      <3>1. running /\ connectionHandle # None
        BY <2>0, <2>6 DEF Links
      <3>2. link[connectionHandle] \in {"up", "down"}
        BY <2>0, <2>1, <2>2, <2>3, <2>6, <3>1 DEF Links
      <3>3. link[connectionHandle] = "down" => events[connectionHandle] = <<"lost">>
        BY <2>1, <2>2, <2>6, <3>1 DEF Story
      <3> QED
        BY <2>4, <3>1, <3>2, <3>3
    <2>7. ASSUME running, ~connected
          PROVE  \/ link[connectionHandle] = "connecting"
                 \/ Queued(connectionHandle, "connected")
                 \/ Queued(connectionHandle, "failed")
      <3>1. link[connectionHandle] \in {"connecting", "up", "down"} /\ Story(connectionHandle)
        BY <2>1, <2>2, <2>3, <2>7
      <3>2. \/ link[connectionHandle] = "connecting"
            \/ events[connectionHandle] = <<"connected">>
            \/ events[connectionHandle] = <<"failed">>
            \/ events[connectionHandle] = <<"connected", "lost">>
        BY <2>7, <3>1 DEF Story
      <3> QED
        BY <2>4, <2>5, <3>2
    <2>8. \A h \in Handles : link[h] \in {"connecting", "up"} => running /\ h = connectionHandle
      BY <2>0 DEF Links
    <2> QED
      BY <2>6, <2>7, <2>8 DEF LinkKnown
  <1> QED
    BY <1>1, Inductive, PTL

(* A client that thinks it is verified is, on this very connection or one  *)
(* that has gone down; only such a client has objects or a pending ping.   *)
THEOREM AuthAlwaysAgrees == Spec => []AuthAgrees
  <1>1. IInv => AuthAgrees
    BY DEF IInv
  <1> QED
    BY <1>1, Inductive, PTL

(* While a ping is pending exactly one ping or answer is under way, else   *)
(* none: never is the answer to an earlier one taken for it.               *)
THEOREM OnePingAtATime == Spec => []OnePing
  <1>1. IInv => OnePing
    BY DEF IInv
  <1> QED
    BY <1>1, Inductive, PTL

-------------------------------------------------------------------------------
(* Completions and objects                                                 *)

(* Where the client will be when it has read some of what is on its way:   *)
(* the zones it has the objects of, those it was granted, and how many of  *)
(* its requests were answered.                                             *)
Spot == [view : SUBSET Zones, granted : SUBSET Zones, done : Nat]

(* The zones the client has the objects of when it has read m.             *)
ViewAfter(v, m) == IF m.kind = "objects" THEN (v \cup m.opened) \ m.closed ELSE v

(* Reading m takes the client from a to b, where a completion finds what   *)
(* it reports.                                                             *)
Reading(m, R, a, b) ==
  /\ b.view = ViewAfter(a.view, m)
  /\ b.done = IF m.kind = "complete" THEN a.done + 1 ELSE a.done
  /\ b.granted = IF m.kind = "complete" THEN Requested(a.granted, R[b.done]) ELSE a.granted
  /\ m.kind = "complete" => b.done \in 1 .. Len(R) /\ b.view = b.granted

Course(v, g, R, s, P) ==
  /\ P \in [0 .. Len(s) -> Spot]
  /\ P[0].view = v /\ P[0].granted = g /\ P[0].done = 0
  /\ \A i \in 1 .. Len(s) : Reading(s[i], R, P[i - 1], P[i])
  /\ \A i, k \in 0 .. Len(s) : i <= k => P[i].done <= P[k].done

(* The requests on their way to the server are those the game made after   *)
(* the first j, in order: K[i] of them come no later than s[i].            *)
Asked(R, s, j, K) ==
  /\ K \in [0 .. Len(s) -> Nat]
  /\ K[0] = j /\ K[Len(s)] = Len(R)
  /\ \A i \in 1 .. Len(s) : IF s[i].kind \in Ops THEN K[i] = K[i - 1] + 1 /\ R[K[i]] = s[i]
                            ELSE K[i] = K[i - 1]
  /\ \A i, k \in 0 .. Len(s) : i <= k => K[i] <= K[k]

(* What is on its way takes the client to where the server has it.         *)
Aligned(v, g, R, in, out, up, zones) ==
  \E P : /\ Course(v, g, R, in, P)
         /\ up => /\ P[Len(in)].view = zones /\ P[Len(in)].granted = zones
                  /\ \E K : Asked(R, out, P[Len(in)].done, K)

Progress ==
  connected => Aligned(view, granted, requests, toClient[connectionHandle],
                       toServer[connectionHandle], link[connectionHandle] = "up",
                       interest[connectionHandle])

(* Without a connection nothing was asked for, and the server opens zones  *)
(* to verified clients only.                                               *)
Blank ==
  /\ ~connected => requests = <<>> /\ granted = {}
  /\ \A h \in Handles : session[h] # "Verified" => interest[h] = {}

(* One more message for the client.                                        *)
LEMMA CourseMore ==
  ASSUME NEW v, NEW g, NEW R, NEW s \in Seq(ServerMsg), NEW P, Course(v, g, R, s, P),
         NEW m \in ServerMsg, NEW b \in Spot, Reading(m, R, P[Len(s)], b)
  PROVE  \E Q : Course(v, g, R, Append(s, m), Q) /\ Q[Len(Append(s, m))] = b
  <1>1. PICK n \in Nat : n = Len(s)
    OBVIOUS
  <1>2. PICK t : t = Append(s, m)
    OBVIOUS
  <1>3. Len(t) = n + 1 /\ t[n + 1] = m /\ \A i \in 1 .. n : t[i] = s[i]
    BY <1>1, <1>2, AppendedTo
  <1>4. /\ P \in [0 .. n -> Spot] /\ P[0].view = v /\ P[0].granted = g /\ P[0].done = 0
        /\ \A i \in 1 .. n : Reading(s[i], R, P[i - 1], P[i])
        /\ \A i, k \in 0 .. n : i <= k => P[i].done <= P[k].done
    BY <1>1 DEF Course
  <1>5. PICK Q : Q = [i \in 0 .. n + 1 |-> IF i = n + 1 THEN b ELSE P[i]]
    OBVIOUS
  <1>6. Q \in [0 .. n + 1 -> Spot] /\ Q[n + 1] = b /\ \A i \in 0 .. n : Q[i] = P[i]
    BY <1>1, <1>4, <1>5
  <1>7. Reading(m, R, P[n], b) /\ P[n] \in Spot
    BY <1>1, <1>4
  <1>8. P[n].done \in Nat /\ b.done \in Nat /\ P[n].done <= b.done
    BY <1>7 DEF Reading, Spot
  <1>9. ASSUME NEW i \in 1 .. n + 1 PROVE Reading(t[i], R, Q[i - 1], Q[i])
    <2>1. CASE i = n + 1
      <3>1. i - 1 = n /\ n \in 0 .. n
        BY <1>1, <2>1
      <3> QED
        BY <1>3, <1>6, <1>7, <2>1, <3>1
    <2>2. CASE i # n + 1
      <3>1. i \in 1 .. n /\ i - 1 \in 0 .. n /\ i \in 0 .. n
        BY <1>1, <2>2
      <3> QED
        BY <1>3, <1>4, <1>6, <3>1
    <2> QED
      BY <2>1, <2>2
  <1>10. ASSUME NEW i \in 0 .. n + 1, NEW k \in 0 .. n + 1, i <= k PROVE Q[i].done <= Q[k].done
    <2>1. CASE k = n + 1
      <3>1. CASE i = n + 1
        BY <1>6, <1>8, <2>1, <3>1
      <3>2. CASE i # n + 1
        <4>1. i \in 0 .. n /\ n \in 0 .. n /\ i <= n
          BY <1>1, <3>2
        <4>2. P[i].done <= P[n].done /\ P[i].done \in Nat
          BY <1>4, <4>1 DEF Spot
        <4> QED
          BY <1>6, <1>8, <2>1, <4>1, <4>2
      <3> QED
        BY <3>1, <3>2
    <2>2. CASE k # n + 1
      <3>1. k \in 0 .. n /\ i \in 0 .. n
        BY <1>1, <1>10, <2>2
      <3> QED
        BY <1>4, <1>6, <1>10, <3>1
    <2> QED
      BY <2>1, <2>2
  <1>11. 0 \in 0 .. n
    BY <1>1
  <1>12. Course(v, g, R, t, Q)
    BY <1>3, <1>4, <1>6, <1>9, <1>10, <1>11 DEF Course
  <1> QED
    BY <1>2, <1>3, <1>6, <1>12

(* Fewer messages.                                                         *)
LEMMA CoursePrefix ==
  ASSUME NEW v, NEW g, NEW R, NEW s \in Seq(ServerMsg), NEW P, Course(v, g, R, s, P),
         NEW n \in 0 .. Len(s)
  PROVE  \E Q : Course(v, g, R, SubSeq(s, 1, n), Q)
  <1>1. PICK t : t = SubSeq(s, 1, n)
    OBVIOUS
  <1>2. Len(t) = n /\ \A i \in 1 .. n : t[i] = s[i]
    BY <1>1, PrefixOf
  <1>3. Len(s) \in Nat /\ n \in Nat /\ n <= Len(s)
    OBVIOUS
  <1>4. PICK Q : Q = [i \in 0 .. n |-> P[i]]
    OBVIOUS
  <1>5. Q \in [0 .. n -> Spot] /\ \A i \in 0 .. n : Q[i] = P[i]
    BY <1>3, <1>4 DEF Course
  <1>6. \A i \in 1 .. n : Reading(t[i], R, Q[i - 1], Q[i])
    <2> SUFFICES ASSUME NEW i \in 1 .. n PROVE Reading(t[i], R, Q[i - 1], Q[i])
      OBVIOUS
    <2>1. i \in 1 .. Len(s) /\ i \in 0 .. n /\ i - 1 \in 0 .. n
      BY <1>3
    <2>2. Reading(s[i], R, P[i - 1], P[i])
      BY <2>1 DEF Course
    <2> QED
      BY <1>2, <1>5, <2>1, <2>2
  <1>7. \A i, k \in 0 .. n : i <= k => Q[i].done <= Q[k].done
    <2>1. \A i \in 0 .. n : i \in 0 .. Len(s)
      BY <1>3
    <2> QED
      BY <1>5, <2>1 DEF Course
  <1>8. 0 \in 0 .. n
    BY <1>3
  <1>9. Course(v, g, R, t, Q)
    BY <1>2, <1>5, <1>6, <1>7, <1>8 DEF Course
  <1> QED
    BY <1>1, <1>9

(* One more request of the game.                                           *)
LEMMA CourseAsked ==
  ASSUME NEW v, NEW g, NEW R \in Seq(InterestMsg), NEW s \in Seq(ServerMsg), NEW P,
         Course(v, g, R, s, P), NEW m \in InterestMsg
  PROVE  Course(v, g, Append(R, m), s, P)
  <1>1. PICK T : T = Append(R, m)
    OBVIOUS
  <1>2. Len(R) \in Nat /\ Len(T) = Len(R) + 1 /\ \A i \in 1 .. Len(R) : T[i] = R[i]
    BY <1>1, AppendedTo
  <1>3. ASSUME NEW i \in 1 .. Len(s) PROVE Reading(s[i], T, P[i - 1], P[i])
    <2>1. Reading(s[i], R, P[i - 1], P[i])
      BY DEF Course
    <2>2. P[i].done \in 1 .. Len(R) => P[i].done \in 1 .. Len(T) /\ T[P[i].done] = R[P[i].done]
      BY <1>2
    <2> QED
      BY <2>1, <2>2 DEF Reading
  <1> QED
    BY <1>1, <1>3 DEF Course

(* The first message is read, which is no completion.                      *)
LEMMA CourseTail ==
  ASSUME NEW v, NEW g, NEW R, NEW s \in Seq(ServerMsg), s # <<>>, NEW P, Course(v, g, R, s, P),
         Head(s).kind # "complete",
         NEW w, w = ViewAfter(v, Head(s))
  PROVE  \E Q : Course(w, g, R, Tail(s), Q) /\ Q[Len(Tail(s))] = P[Len(s)]
  <1>1. PICK n \in Nat : n = Len(Tail(s))
    BY TailOf
  <1>2. PICK t, m : t = Tail(s) /\ m = Head(s)
    OBVIOUS
  <1>3. /\ Len(s) = n + 1 /\ Len(t) = n /\ m = s[1] /\ \A i \in 1 .. n : t[i] = s[i + 1]
    BY <1>1, <1>2, TailOf
  <1>4. /\ P \in [0 .. n + 1 -> Spot] /\ P[0].view = v /\ P[0].granted = g /\ P[0].done = 0
        /\ \A i \in 1 .. n + 1 : Reading(s[i], R, P[i - 1], P[i])
        /\ \A i, k \in 0 .. n + 1 : i <= k => P[i].done <= P[k].done
    BY <1>3 DEF Course
  <1>5. PICK Q : Q = [i \in 0 .. n |-> P[i + 1]]
    OBVIOUS
  <1>6. Q \in [0 .. n -> Spot] /\ \A i \in 0 .. n : Q[i] = P[i + 1]
    BY <1>1, <1>4, <1>5
  <1>7. Reading(m, R, P[0], P[1])
    <2>1. 1 \in 1 .. n + 1 /\ 1 - 1 = 0
      BY <1>1
    <2>2. Reading(s[1], R, P[1 - 1], P[1])
      BY <1>4, <2>1
    <2> QED
      BY <1>3, <2>1, <2>2
  <1>8. ASSUME NEW i \in 1 .. n PROVE Reading(t[i], R, Q[i - 1], Q[i])
    <2>1. i + 1 \in 1 .. n + 1 /\ i \in 0 .. n /\ i - 1 \in 0 .. n /\ (i - 1) + 1 = i /\ (i + 1) - 1 = i
      BY <1>1
    <2>2. Reading(s[i + 1], R, P[(i + 1) - 1], P[i + 1])
      BY <1>4, <2>1
    <2>3. t[i] = s[i + 1] /\ Q[i] = P[i + 1] /\ Q[i - 1] = P[(i - 1) + 1]
      BY <1>3, <1>6, <2>1
    <2> QED
      BY <2>1, <2>2, <2>3
  <1>9. ASSUME NEW i \in 0 .. n, NEW k \in 0 .. n, i <= k PROVE Q[i].done <= Q[k].done
    <2>1. i + 1 \in 0 .. n + 1 /\ k + 1 \in 0 .. n + 1 /\ i + 1 <= k + 1
      BY <1>1, <1>9
    <2> QED
      BY <1>4, <1>6, <2>1
  <1>10. Q[0] = P[1] /\ Q[n] = P[n + 1]
    BY <1>1, <1>6
  <1>11. Q[0].view = w /\ Q[0].granted = g /\ Q[0].done = 0
    BY <1>2, <1>4, <1>7, <1>10 DEF Reading
  <1>12. Course(w, g, R, t, Q)
    BY <1>3, <1>6, <1>8, <1>9, <1>11 DEF Course
  <1> QED
    BY <1>2, <1>3, <1>10, <1>12

(* A completion is read: it is about the first request, and the client has *)
(* what it reports.                                                        *)
LEMMA CourseCompleted ==
  ASSUME NEW v, NEW g, NEW R \in Seq(InterestMsg), NEW s \in Seq(ServerMsg), s # <<>>, NEW P,
         Course(v, g, R, s, P), Head(s).kind = "complete"
  PROVE  /\ R # <<>> /\ v = Requested(g, Head(R))
         /\ \E Q : /\ Course(v, v, Tail(R), Tail(s), Q)
                   /\ Q[Len(Tail(s))].view = P[Len(s)].view
                   /\ Q[Len(Tail(s))].granted = P[Len(s)].granted
                   /\ P[Len(s)].done = Q[Len(Tail(s))].done + 1
  <1>1. PICK n \in Nat : n = Len(Tail(s))
    BY TailOf
  <1>2. PICK t, m : t = Tail(s) /\ m = Head(s)
    OBVIOUS
  <1>3. /\ Len(s) = n + 1 /\ Len(t) = n /\ m = s[1] /\ \A i \in 1 .. n : t[i] = s[i + 1]
    BY <1>1, <1>2, TailOf
  <1>4. /\ P \in [0 .. n + 1 -> Spot] /\ P[0].view = v /\ P[0].granted = g /\ P[0].done = 0
        /\ \A i \in 1 .. n + 1 : Reading(s[i], R, P[i - 1], P[i])
        /\ \A i, k \in 0 .. n + 1 : i <= k => P[i].done <= P[k].done
    BY <1>3 DEF Course
  <1>5. Reading(m, R, P[0], P[1])
    <2>1. 1 \in 1 .. n + 1 /\ 1 - 1 = 0
      BY <1>1
    <2>2. Reading(s[1], R, P[1 - 1], P[1])
      BY <1>4, <2>1
    <2> QED
      BY <1>3, <2>1, <2>2
  <1>6. /\ P[1].view = v /\ P[1].done = 1 /\ 1 \in 1 .. Len(R)
        /\ P[1].granted = Requested(g, R[1]) /\ P[1].view = P[1].granted
    BY <1>2, <1>4, <1>5 DEF Reading, ViewAfter
  <1>7. R # <<>> /\ Len(R) \in Nat /\ Head(R) = R[1]
    BY <1>6
  <1>8. PICK T : T = Tail(R)
    OBVIOUS
  <1>9. Len(T) = Len(R) - 1 /\ \A i \in 1 .. Len(T) : T[i] = R[i + 1]
    BY <1>7, <1>8, TailOf
  <1>10. ASSUME NEW i \in 0 .. n
         PROVE  P[i + 1] \in Spot /\ P[i + 1].done \in Nat /\ P[i + 1].done - 1 \in Nat
    <2>1. i + 1 \in 0 .. n + 1 /\ 1 \in 0 .. n + 1 /\ 1 <= i + 1
      BY <1>1
    <2>2. P[i + 1] \in Spot
      BY <1>4, <2>1
    <2>3. P[i + 1].done \in Nat
      BY <2>2 DEF Spot
    <2>4. P[1].done <= P[i + 1].done
      BY <1>4, <2>1
    <2>5. P[i + 1].done - 1 \in Nat
      BY <1>6, <2>3, <2>4
    <2> QED
      BY <2>2, <2>3, <2>5
  <1>11. PICK Q : Q = [i \in 0 .. n |-> [view |-> P[i + 1].view, granted |-> P[i + 1].granted,
                                         done |-> P[i + 1].done - 1]]
    OBVIOUS
  <1>12. ASSUME NEW i \in 0 .. n
         PROVE  /\ Q[i] \in Spot
                /\ Q[i].view = P[i + 1].view /\ Q[i].granted = P[i + 1].granted
                /\ Q[i].done = P[i + 1].done - 1
    <2>1. /\ Q[i] = [view |-> P[i + 1].view, granted |-> P[i + 1].granted, done |-> P[i + 1].done - 1]
          /\ P[i + 1].view \in SUBSET Zones /\ P[i + 1].granted \in SUBSET Zones
      BY <1>10, <1>11 DEF Spot
    <2> QED
      BY <1>10, <2>1 DEF Spot
  <1>13. Q \in [0 .. n -> Spot]
    BY <1>11, <1>12
  <1>14. ASSUME NEW i \in 1 .. n PROVE Reading(t[i], T, Q[i - 1], Q[i])
    <2>1. i + 1 \in 1 .. n + 1 /\ i \in 0 .. n /\ i - 1 \in 0 .. n /\ (i - 1) + 1 = i /\ (i + 1) - 1 = i
      BY <1>1
    <2>2. Reading(s[i + 1], R, P[i], P[i + 1])
      BY <1>4, <2>1
    <2>3. /\ Q[i].view = P[i + 1].view /\ Q[i].granted = P[i + 1].granted
          /\ Q[i].done = P[i + 1].done - 1
          /\ P[i + 1].done \in Nat /\ Q[i].done \in Nat
      BY <1>10, <1>12, <2>1
    <2>4. /\ Q[i - 1].view = P[i].view /\ Q[i - 1].granted = P[i].granted
          /\ Q[i - 1].done = P[i].done - 1 /\ P[i].done \in Nat /\ P[i].done - 1 \in Nat
      <3>1. /\ Q[i - 1].view = P[(i - 1) + 1].view /\ Q[i - 1].granted = P[(i - 1) + 1].granted
            /\ Q[i - 1].done = P[(i - 1) + 1].done - 1
            /\ P[(i - 1) + 1].done \in Nat /\ P[(i - 1) + 1].done - 1 \in Nat
        BY <1>10, <1>12, <2>1
      <3> QED
        BY <2>1, <3>1
    <2>5. PICK e : e = t[i]
      OBVIOUS
    <2>6. e = s[i + 1]
      BY <1>3, <2>5
    <2>7. CASE e.kind = "complete"
      <3>1. /\ P[i + 1].view = P[i].view /\ P[i + 1].done = P[i].done + 1 /\ P[i + 1].done \in 1 .. Len(R)
            /\ P[i + 1].granted = Requested(P[i].granted, R[P[i + 1].done])
            /\ P[i + 1].view = P[i + 1].granted
        BY <2>2, <2>6, <2>7 DEF Reading, ViewAfter
      <3>2. Q[i].done = Q[i - 1].done + 1 /\ Q[i].done \in 1 .. Len(T) /\ Q[i].done + 1 = P[i + 1].done
        <4>1. PICK x, y, w, z, l : /\ x = P[i].done /\ y = P[i + 1].done /\ w = Q[i - 1].done
                                   /\ z = Q[i].done /\ l = Len(R)
          OBVIOUS
        <4>2. /\ x \in Nat /\ x - 1 \in Nat /\ y = x + 1 /\ y \in 1 .. l /\ l \in Nat
              /\ w = x - 1 /\ z = y - 1 /\ Len(T) = l - 1
          BY <1>7, <1>9, <2>3, <2>4, <3>1, <4>1
        <4>3. z = w + 1 /\ z \in 1 .. Len(T) /\ z + 1 = y
          BY <4>2
        <4> QED
          BY <4>1, <4>3
      <3>3. T[Q[i].done] = R[P[i + 1].done]
        BY <1>9, <3>2
      <3>4. Q[i].granted = Requested(Q[i - 1].granted, T[Q[i].done])
        BY <2>3, <2>4, <3>1, <3>3
      <3> QED
        BY <2>3, <2>4, <2>5, <2>7, <3>1, <3>2, <3>4 DEF Reading, ViewAfter
    <2>8. CASE e.kind # "complete"
      <3>1. /\ P[i + 1].view = (IF e.kind = "objects" THEN (P[i].view \cup e.opened) \ e.closed ELSE P[i].view)
            /\ P[i + 1].done = P[i].done /\ P[i + 1].granted = P[i].granted
        BY <2>2, <2>6, <2>8 DEF Reading, ViewAfter
      <3> QED
        BY <2>3, <2>4, <2>5, <2>8, <3>1 DEF Reading, ViewAfter
    <2> QED
      BY <2>7, <2>8
  <1>15. ASSUME NEW i \in 0 .. n, NEW k \in 0 .. n, i <= k PROVE Q[i].done <= Q[k].done
    <2>1. i + 1 \in 0 .. n + 1 /\ k + 1 \in 0 .. n + 1 /\ i + 1 <= k + 1
      BY <1>1, <1>15
    <2>2. P[i + 1].done <= P[k + 1].done
      BY <1>4, <2>1
    <2>3. P[i + 1].done \in Nat /\ P[k + 1].done \in Nat
      BY <1>10
    <2>4. Q[i].done = P[i + 1].done - 1 /\ Q[k].done = P[k + 1].done - 1
      BY <1>12
    <2>5. PICK x \in Nat, y \in Nat : x = P[i + 1].done /\ y = P[k + 1].done
      BY <2>3
    <2>6. x <= y /\ Q[i].done = x - 1 /\ Q[k].done = y - 1
      BY <2>2, <2>4, <2>5
    <2>7. x - 1 <= y - 1
      BY <2>6
    <2> QED
      BY <2>6, <2>7
  <1>16. Q[0].view = v /\ Q[0].granted = v /\ Q[0].done = 0
    <2>1. 0 \in 0 .. n /\ 0 + 1 = 1
      BY <1>1
    <2>2. Q[0].view = P[0 + 1].view /\ Q[0].granted = P[0 + 1].granted /\ Q[0].done = P[0 + 1].done - 1
      BY <1>12, <2>1
    <2> QED
      BY <1>6, <2>1, <2>2
  <1>17. Course(v, v, T, t, Q)
    BY <1>3, <1>13, <1>14, <1>15, <1>16 DEF Course
  <1>18. /\ Q[n].view = P[n + 1].view /\ Q[n].granted = P[n + 1].granted
         /\ P[n + 1].done = Q[n].done + 1
    <2>1. n \in 0 .. n
      BY <1>1
    <2>2. Q[n].view = P[n + 1].view /\ Q[n].granted = P[n + 1].granted /\ Q[n].done = P[n + 1].done - 1
      BY <1>12, <2>1
    <2>3. P[n + 1].done \in Nat
      BY <1>10, <2>1
    <2> QED
      BY <2>2, <2>3
  <1> QED
    BY <1>2, <1>3, <1>6, <1>7, <1>8, <1>17, <1>18

(* One more message to the server that asks for nothing ...                *)
LEMMA AskedMore ==
  ASSUME NEW R, NEW s \in Seq(ClientMsg), NEW j \in Nat, NEW K, Asked(R, s, j, K),
         NEW m \in ClientMsg, m.kind \notin Ops
  PROVE  \E L : Asked(R, Append(s, m), j, L)
  <1>1. PICK n \in Nat : n = Len(s)
    OBVIOUS
  <1>2. PICK t : t = Append(s, m)
    OBVIOUS
  <1>3. Len(t) = n + 1 /\ t[n + 1] = m /\ \A i \in 1 .. n : t[i] = s[i]
    BY <1>1, <1>2, AppendedTo
  <1>4. /\ K \in [0 .. n -> Nat] /\ K[0] = j /\ K[n] = Len(R)
        /\ \A i \in 1 .. n : IF s[i].kind \in Ops THEN K[i] = K[i - 1] + 1 /\ R[K[i]] = s[i] ELSE K[i] = K[i - 1]
        /\ \A i, k \in 0 .. n : i <= k => K[i] <= K[k]
    BY <1>1 DEF Asked
  <1>5. PICK L : L = [i \in 0 .. n + 1 |-> IF i = n + 1 THEN K[n] ELSE K[i]]
    OBVIOUS
  <1>6. L \in [0 .. n + 1 -> Nat] /\ L[n + 1] = K[n] /\ \A i \in 0 .. n : L[i] = K[i]
    <2>3. n \in 0 .. n /\ \A i \in 0 .. n + 1 : i # n + 1 => i \in 0 .. n
      BY <1>1
    <2>1. K[n] \in Nat /\ \A i \in 0 .. n + 1 : i # n + 1 => K[i] \in Nat
      BY <1>4, <2>3
    <2>2. n + 1 \in 0 .. n + 1 /\ \A i \in 0 .. n : i \in 0 .. n + 1 /\ i # n + 1
      BY <1>1
    <2> QED
      BY <1>5, <2>1, <2>2
  <1>7. ASSUME NEW i \in 1 .. n + 1
        PROVE  IF t[i].kind \in Ops THEN L[i] = L[i - 1] + 1 /\ R[L[i]] = t[i] ELSE L[i] = L[i - 1]
    <2>1. CASE i = n + 1
      <3>1. i - 1 = n /\ n \in 0 .. n
        BY <1>1, <2>1
      <3>2. t[i].kind \notin Ops /\ L[i] = K[n] /\ L[i - 1] = K[n]
        BY <1>3, <1>6, <2>1, <3>1
      <3> QED
        BY <3>2
    <2>2. CASE i # n + 1
      <3>1. i \in 1 .. n /\ i - 1 \in 0 .. n /\ i \in 0 .. n
        BY <1>1, <2>2
      <3> QED
        BY <1>3, <1>4, <1>6, <3>1
    <2> QED
      BY <2>1, <2>2
  <1>8. ASSUME NEW i \in 0 .. n + 1, NEW k \in 0 .. n + 1, i <= k PROVE L[i] <= L[k]
    <2>1. \A l \in 0 .. n : K[l] <= K[n] /\ K[l] \in Nat
      BY <1>1, <1>4
    <2>2. CASE k = n + 1
      BY <1>1, <1>4, <1>6, <2>1, <2>2
    <2>3. CASE k # n + 1
      <3>1. k \in 0 .. n /\ i \in 0 .. n
        BY <1>1, <1>8, <2>3
      <3> QED
        BY <1>4, <1>6, <1>8, <3>1
    <2> QED
      BY <2>2, <2>3
  <1>9. L[0] = j
    BY <1>1, <1>4, <1>6
  <1>10. Asked(R, t, j, L)
    BY <1>3, <1>4, <1>6, <1>7, <1>8, <1>9 DEF Asked
  <1> QED
    BY <1>2, <1>10

(* ... and one that does.                                                  *)
LEMMA AskedAlso ==
  ASSUME NEW R \in Seq(InterestMsg), NEW s \in Seq(ClientMsg), NEW j \in Nat, NEW K, Asked(R, s, j, K),
         NEW m \in InterestMsg
  PROVE  \E L : Asked(Append(R, m), Append(s, m), j, L)
  <1>0. m.kind \in Ops /\ m \in ClientMsg
    BY DEF InterestMsg, ClientMsg
  <1>1. PICK n \in Nat, l \in Nat : n = Len(s) /\ l = Len(R)
    OBVIOUS
  <1>2. PICK t, T : t = Append(s, m) /\ T = Append(R, m)
    OBVIOUS
  <1>3. /\ Len(t) = n + 1 /\ t[n + 1] = m /\ \A i \in 1 .. n : t[i] = s[i]
        /\ Len(T) = l + 1 /\ T[l + 1] = m /\ \A i \in 1 .. l : T[i] = R[i]
    BY <1>0, <1>1, <1>2, AppendedTo
  <1>4. /\ K \in [0 .. n -> Nat] /\ K[0] = j /\ K[n] = l
        /\ \A i \in 1 .. n : IF s[i].kind \in Ops THEN K[i] = K[i - 1] + 1 /\ R[K[i]] = s[i] ELSE K[i] = K[i - 1]
        /\ \A i, k \in 0 .. n : i <= k => K[i] <= K[k]
    BY <1>1 DEF Asked
  <1>5. PICK L : L = [i \in 0 .. n + 1 |-> IF i = n + 1 THEN l + 1 ELSE K[i]]
    OBVIOUS
  <1>6. L \in [0 .. n + 1 -> Nat] /\ L[n + 1] = l + 1 /\ \A i \in 0 .. n : L[i] = K[i]
    BY <1>1, <1>4, <1>5
  <1>11. \A i \in 0 .. n : K[i] <= l /\ K[i] \in Nat
    BY <1>1, <1>4
  <1>7. ASSUME NEW i \in 1 .. n + 1
        PROVE  IF t[i].kind \in Ops THEN L[i] = L[i - 1] + 1 /\ T[L[i]] = t[i] ELSE L[i] = L[i - 1]
    <2>1. CASE i = n + 1
      <3>1. i - 1 = n /\ n \in 0 .. n
        BY <1>1, <2>1
      <3>2. t[i] = m /\ L[i] = l + 1 /\ L[i - 1] = l
        BY <1>3, <1>4, <1>6, <2>1, <3>1
      <3> QED
        BY <1>0, <1>3, <3>2
    <2>2. CASE i # n + 1
      <3>1. i \in 1 .. n /\ i - 1 \in 0 .. n /\ i \in 0 .. n
        BY <1>1, <2>2
      <3>2. CASE s[i].kind \in Ops
        <4>1. K[i] = K[i - 1] + 1 /\ R[K[i]] = s[i]
          BY <1>4, <3>1, <3>2
        <4>2. K[i] \in 1 .. l
          BY <1>1, <1>11, <3>1, <4>1
        <4> QED
          BY <1>3, <1>6, <3>1, <3>2, <4>1, <4>2
      <3>3. CASE s[i].kind \notin Ops
        BY <1>3, <1>4, <1>6, <3>1, <3>3
      <3> QED
        BY <3>2, <3>3
    <2> QED
      BY <2>1, <2>2
  <1>8. ASSUME NEW i \in 0 .. n + 1, NEW k \in 0 .. n + 1, i <= k PROVE L[i] <= L[k]
    <2>2. CASE k = n + 1
      <3>1. L[k] = l + 1
        BY <1>6, <2>2
      <3>2. CASE i = n + 1
        BY <2>2, <3>1, <3>2
      <3>3. CASE i # n + 1
        <4>1. i \in 0 .. n
          BY <1>1, <3>3
        <4>2. L[i] = K[i] /\ K[i] <= l /\ K[i] \in Nat
          BY <1>6, <1>11, <4>1
        <4> QED
          BY <1>1, <3>1, <4>2
      <3> QED
        BY <3>2, <3>3
    <2>3. CASE k # n + 1
      <3>1. k \in 0 .. n /\ i \in 0 .. n
        BY <1>1, <1>8, <2>3
      <3> QED
        BY <1>4, <1>6, <1>8, <3>1
    <2> QED
      BY <2>2, <2>3
  <1>9. L[0] = j
    BY <1>1, <1>4, <1>6
  <1>10. Asked(T, t, j, L)
    BY <1>3, <1>6, <1>7, <1>8, <1>9 DEF Asked
  <1> QED
    BY <1>2, <1>10

(* The server takes the first message: a request is the next one of the    *)
(* game.                                                                   *)
LEMMA AskedTail ==
  ASSUME NEW R \in Seq(InterestMsg), NEW s \in Seq(ClientMsg), s # <<>>, NEW j \in Nat,
         NEW K, Asked(R, s, j, K)
  PROVE  /\ Head(s).kind \in Ops =>
              /\ j + 1 \in 1 .. Len(R) /\ R[j + 1] = Head(s)
              /\ \E L : Asked(R, Tail(s), j + 1, L)
         /\ Head(s).kind \notin Ops => \E L : Asked(R, Tail(s), j, L)
  <1>1. PICK n \in Nat : n = Len(Tail(s))
    BY TailOf
  <1>2. PICK t, m : t = Tail(s) /\ m = Head(s)
    OBVIOUS
  <1>3. /\ Len(s) = n + 1 /\ Len(t) = n /\ m = s[1] /\ \A i \in 1 .. n : t[i] = s[i + 1]
    BY <1>1, <1>2, TailOf
  <1>4. /\ K \in [0 .. n + 1 -> Nat] /\ K[0] = j /\ K[n + 1] = Len(R)
        /\ \A i \in 1 .. n + 1 : IF s[i].kind \in Ops THEN K[i] = K[i - 1] + 1 /\ R[K[i]] = s[i] ELSE K[i] = K[i - 1]
        /\ \A i, k \in 0 .. n + 1 : i <= k => K[i] <= K[k]
    BY <1>3 DEF Asked
  <1>5. PICK L : L = [i \in 0 .. n |-> K[i + 1]]
    OBVIOUS
  <1>6. L \in [0 .. n -> Nat] /\ \A i \in 0 .. n : L[i] = K[i + 1]
    BY <1>1, <1>4, <1>5
  <1>7. ASSUME NEW i \in 1 .. n
        PROVE  IF t[i].kind \in Ops THEN L[i] = L[i - 1] + 1 /\ R[L[i]] = t[i] ELSE L[i] = L[i - 1]
    <2>1. i + 1 \in 1 .. n + 1 /\ i \in 0 .. n /\ i - 1 \in 0 .. n /\ (i - 1) + 1 = i /\ (i + 1) - 1 = i
      BY <1>1
    <2>2. IF s[i + 1].kind \in Ops THEN K[i + 1] = K[(i + 1) - 1] + 1 /\ R[K[i + 1]] = s[i + 1]
          ELSE K[i + 1] = K[(i + 1) - 1]
      BY <1>4, <2>1
    <2>3. t[i] = s[i + 1] /\ L[i] = K[i + 1] /\ L[i - 1] = K[i]
      BY <1>3, <1>6, <2>1
    <2> QED
      BY <2>1, <2>2, <2>3
  <1>8. ASSUME NEW i \in 0 .. n, NEW k \in 0 .. n, i <= k PROVE L[i] <= L[k]
    <2>1. i + 1 \in 0 .. n + 1 /\ k + 1 \in 0 .. n + 1 /\ i + 1 <= k + 1
      BY <1>1, <1>8
    <2> QED
      BY <1>4, <1>6, <2>1
  <1>9. L[0] = K[1] /\ L[n] = Len(R)
    BY <1>1, <1>4, <1>6
  <1>10. Asked(R, t, K[1], L)
    BY <1>3, <1>6, <1>7, <1>8, <1>9 DEF Asked
  <1>11. IF m.kind \in Ops THEN K[1] = j + 1 /\ R[K[1]] = m ELSE K[1] = j
    <2>1. 1 \in 1 .. n + 1 /\ 1 - 1 = 0
      BY <1>1
    <2>2. IF s[1].kind \in Ops THEN K[1] = K[1 - 1] + 1 /\ R[K[1]] = s[1] ELSE K[1] = K[1 - 1]
      BY <1>4, <2>1
    <2> QED
      BY <1>3, <1>4, <2>1, <2>2
  <1>12. K[1] <= Len(R) /\ Len(R) \in Nat /\ K[1] \in Nat
    BY <1>1, <1>4
  <1> QED
    BY <1>2, <1>10, <1>11, <1>12

(* The first request of the game has its answer.                           *)
LEMMA AskedAnswered ==
  ASSUME NEW R \in Seq(InterestMsg), R # <<>>, NEW s \in Seq(ClientMsg), NEW j \in Nat,
         NEW K, Asked(R, s, j + 1, K)
  PROVE  \E L : Asked(Tail(R), s, j, L)
  <1>1. PICK n \in Nat : n = Len(s)
    OBVIOUS
  <1>2. PICK T : T = Tail(R)
    OBVIOUS
  <1>3. /\ Len(R) \in Nat \ {0} /\ Len(T) = Len(R) - 1 /\ \A i \in 1 .. Len(T) : T[i] = R[i + 1]
    BY <1>2, TailOf
  <1>4. /\ K \in [0 .. n -> Nat] /\ K[0] = j + 1 /\ K[n] = Len(R)
        /\ \A i \in 1 .. n : IF s[i].kind \in Ops THEN K[i] = K[i - 1] + 1 /\ R[K[i]] = s[i] ELSE K[i] = K[i - 1]
        /\ \A i, k \in 0 .. n : i <= k => K[i] <= K[k]
    BY <1>1 DEF Asked
  <1>5. \A i \in 0 .. n : K[i] \in Nat /\ j + 1 <= K[i] /\ K[i] <= Len(R)
    BY <1>1, <1>4
  <1>6. PICK L : L = [i \in 0 .. n |-> K[i] - 1]
    OBVIOUS
  <1>7. L \in [0 .. n -> Nat] /\ \A i \in 0 .. n : L[i] = K[i] - 1
    BY <1>5, <1>6
  <1>8. ASSUME NEW i \in 1 .. n
        PROVE  IF s[i].kind \in Ops THEN L[i] = L[i - 1] + 1 /\ T[L[i]] = s[i] ELSE L[i] = L[i - 1]
    <2>1. i \in 0 .. n /\ i - 1 \in 0 .. n
      BY <1>1
    <2>2. /\ K[i] \in Nat /\ K[i - 1] \in Nat /\ j + 1 <= K[i - 1] /\ K[i] <= Len(R)
          /\ L[i] = K[i] - 1 /\ L[i - 1] = K[i - 1] - 1
      BY <1>5, <1>7, <2>1
    <2>3. CASE s[i].kind \in Ops
      <3>1. K[i] = K[i - 1] + 1 /\ R[K[i]] = s[i]
        BY <1>4, <2>3
      <3>2. L[i] = L[i - 1] + 1 /\ L[i] \in 1 .. Len(T) /\ L[i] + 1 = K[i]
        BY <1>3, <2>2, <3>1
      <3>3. T[L[i]] = R[K[i]]
        BY <1>3, <3>2
      <3> QED
        BY <2>3, <3>1, <3>2, <3>3
    <2>4. CASE s[i].kind \notin Ops
      BY <1>4, <2>2, <2>4
    <2> QED
      BY <2>3, <2>4
  <1>9. \A i, k \in 0 .. n : i <= k => L[i] <= L[k]
    BY <1>4, <1>5, <1>7
  <1>10. L[0] = j /\ L[n] = Len(T)
    <2>1. 0 \in 0 .. n /\ n \in 0 .. n
      BY <1>1
    <2>2. L[0] = K[0] - 1 /\ L[n] = K[n] - 1
      BY <1>7, <2>1
    <2> QED
      BY <1>3, <1>4, <2>2
  <1>11. Asked(T, s, j, L)
    BY <1>1, <1>7, <1>8, <1>9, <1>10 DEF Asked
  <1> QED
    BY <1>2, <1>11

LEMMA AlignedStart == \A up : Aligned({}, {}, <<>>, <<>>, <<>>, up, {})
  <1>1. PICK a : a = [view |-> {}, granted |-> {}, done |-> 0]
    OBVIOUS
  <1>2. a \in Spot /\ a.view = {} /\ a.granted = {} /\ a.done = 0
    BY <1>1 DEF Spot
  <1>3. PICK n : n = 0
    OBVIOUS
  <1>4. PICK P, K : P = [i \in 0 .. n |-> a] /\ K = [i \in 0 .. n |-> 0]
    OBVIOUS
  <1>5. 0 .. n = {0} /\ 1 .. n = {} /\ n \in Nat
    BY <1>3
  <1>6. P \in [0 .. n -> Spot] /\ P[0] = a /\ K \in [0 .. n -> Nat] /\ K[0] = 0
    BY <1>2, <1>4, <1>5
  <1>7. PICK e : e = <<>>
    OBVIOUS
  <1>8. Len(e) = n
    BY <1>3, <1>7
  <1>9. Course({}, {}, e, e, P)
    BY <1>2, <1>5, <1>6, <1>8 DEF Course
  <1>10. Asked(e, e, 0, K)
    BY <1>3, <1>5, <1>6, <1>8 DEF Asked
  <1>11. P[Len(e)] = a
    BY <1>3, <1>6, <1>8
  <1> QED
    BY <1>2, <1>7, <1>9, <1>10, <1>11 DEF Aligned

(* Where the client will be in the end.                                    *)
LEMMA CourseEnd ==
  ASSUME NEW v, NEW g, NEW R, NEW s \in Seq(ServerMsg), NEW P, Course(v, g, R, s, P)
  PROVE  P[Len(s)] \in Spot /\ P[Len(s)].done \in Nat
  <1>1. Len(s) \in 0 .. Len(s)
    OBVIOUS
  <1> QED
    BY <1>1 DEF Course, Spot

(* The client says something that asks for nothing.                        *)
LEMMA AlignedSends ==
  ASSUME NEW v, NEW g, NEW R, NEW in \in Seq(ServerMsg), NEW out \in Seq(ClientMsg), NEW up, NEW zones,
         Aligned(v, g, R, in, out, up, zones), NEW m \in ClientMsg, m.kind \notin Ops
  PROVE  Aligned(v, g, R, in, Append(out, m), up, zones)
  <1>1. PICK P : /\ Course(v, g, R, in, P)
                 /\ up => /\ P[Len(in)].view = zones /\ P[Len(in)].granted = zones
                          /\ \E K : Asked(R, out, P[Len(in)].done, K)
    BY DEF Aligned
  <1>2. P[Len(in)].done \in Nat
    BY <1>1, CourseEnd
  <1>3. up => \E K : Asked(R, Append(out, m), P[Len(in)].done, K)
    BY <1>1, <1>2, AskedMore
  <1> QED
    BY <1>1, <1>3 DEF Aligned

(* The game asks for something.                                            *)
LEMMA AlignedAsks ==
  ASSUME NEW v, NEW g, NEW R \in Seq(InterestMsg), NEW in \in Seq(ServerMsg), NEW out \in Seq(ClientMsg),
         NEW up, NEW zones, Aligned(v, g, R, in, out, up, zones), NEW m \in InterestMsg,
         NEW more, up => more = Append(out, m)
  PROVE  Aligned(v, g, Append(R, m), in, more, up, zones)
  <1>1. PICK P : /\ Course(v, g, R, in, P)
                 /\ up => /\ P[Len(in)].view = zones /\ P[Len(in)].granted = zones
                          /\ \E K : Asked(R, out, P[Len(in)].done, K)
    BY DEF Aligned
  <1>2. P[Len(in)].done \in Nat /\ Course(v, g, Append(R, m), in, P)
    BY <1>1, CourseEnd, CourseAsked
  <1>3. up => \E K : Asked(Append(R, m), more, P[Len(in)].done, K)
    BY <1>1, <1>2, AskedAlso
  <1> QED
    BY <1>1, <1>2, <1>3 DEF Aligned

(* The client reads a message that is no completion ...                    *)
LEMMA AlignedReads ==
  ASSUME NEW v, NEW g, NEW R, NEW in \in Seq(ServerMsg), in # <<>>, NEW out, NEW up, NEW zones,
         Aligned(v, g, R, in, out, up, zones), Head(in).kind # "complete",
         NEW w, w = ViewAfter(v, Head(in))
  PROVE  Aligned(w, g, R, Tail(in), out, up, zones)
  <1>1. PICK P : /\ Course(v, g, R, in, P)
                 /\ up => /\ P[Len(in)].view = zones /\ P[Len(in)].granted = zones
                          /\ \E K : Asked(R, out, P[Len(in)].done, K)
    BY DEF Aligned
  <1>2. PICK Q : Course(w, g, R, Tail(in), Q) /\ Q[Len(Tail(in))] = P[Len(in)]
    BY <1>1, CourseTail
  <1> QED
    BY <1>1, <1>2 DEF Aligned

(* ... and one that is: the client has what it reports.                    *)
LEMMA AlignedCompletes ==
  ASSUME NEW v, NEW g, NEW R \in Seq(InterestMsg), NEW in \in Seq(ServerMsg), in # <<>>,
         NEW out \in Seq(ClientMsg), NEW up, NEW zones,
         Aligned(v, g, R, in, out, up, zones), Head(in).kind = "complete"
  PROVE  v = Requested(g, Head(R)) /\ Aligned(v, v, Tail(R), Tail(in), out, up, zones)
  <1>1. PICK P : /\ Course(v, g, R, in, P)
                 /\ up => /\ P[Len(in)].view = zones /\ P[Len(in)].granted = zones
                          /\ \E K : Asked(R, out, P[Len(in)].done, K)
    BY DEF Aligned
  <1>2. /\ R # <<>> /\ v = Requested(g, Head(R))
        /\ \E Q : /\ Course(v, v, Tail(R), Tail(in), Q)
                  /\ Q[Len(Tail(in))].view = P[Len(in)].view
                  /\ Q[Len(Tail(in))].granted = P[Len(in)].granted
                  /\ P[Len(in)].done = Q[Len(Tail(in))].done + 1
    BY <1>1, CourseCompleted
  <1>3. PICK Q : /\ Course(v, v, Tail(R), Tail(in), Q)
                 /\ Q[Len(Tail(in))].view = P[Len(in)].view
                 /\ Q[Len(Tail(in))].granted = P[Len(in)].granted
                 /\ P[Len(in)].done = Q[Len(Tail(in))].done + 1
    BY <1>2
  <1>4. Tail(in) \in Seq(ServerMsg)
    BY TailOf
  <1>5. PICK j : j = Q[Len(Tail(in))].done
    OBVIOUS
  <1>6. j \in Nat
    BY <1>3, <1>4, <1>5, CourseEnd
  <1>7. ASSUME up PROVE \E L : Asked(Tail(R), out, j, L)
    <2>1. PICK K : Asked(R, out, j + 1, K)
      BY <1>1, <1>3, <1>5, <1>7
    <2> QED
      BY <1>2, <1>6, <2>1, AskedAnswered
  <1> QED
    BY <1>1, <1>2, <1>3, <1>5, <1>7 DEF Aligned

Neutral(m) == m.kind \notin {"objects", "complete"}

(* The server takes a message that asks for nothing and does not answer,   *)
LEMMA AlignedTakes ==
  ASSUME NEW v, NEW g, NEW R \in Seq(InterestMsg), NEW in \in Seq(ServerMsg),
         NEW out \in Seq(ClientMsg), out # <<>>, NEW zones,
         Aligned(v, g, R, in, out, TRUE, zones), Head(out).kind \notin Ops
  PROVE  Aligned(v, g, R, in, Tail(out), TRUE, zones)
  <1>1. PICK P : /\ Course(v, g, R, in, P)
                 /\ P[Len(in)].view = zones /\ P[Len(in)].granted = zones
                 /\ \E K : Asked(R, out, P[Len(in)].done, K)
    BY DEF Aligned
  <1>2. P[Len(in)].done \in Nat
    BY <1>1, CourseEnd
  <1>3. \E K : Asked(R, Tail(out), P[Len(in)].done, K)
    BY <1>1, <1>2, AskedTail
  <1> QED
    BY <1>1, <1>3 DEF Aligned

(* says something else,                                                    *)
LEMMA CourseNeutral ==
  ASSUME NEW v, NEW g, NEW R, NEW s \in Seq(ServerMsg), NEW P, Course(v, g, R, s, P),
         NEW m \in ServerMsg, Neutral(m)
  PROVE  \E Q : Course(v, g, R, Append(s, m), Q) /\ Q[Len(Append(s, m))] = P[Len(s)]
  <1>1. PICK b \in Spot : b = P[Len(s)]
    BY CourseEnd
  <1>2. Reading(m, R, P[Len(s)], b)
    BY <1>1 DEF Reading, ViewAfter, Neutral
  <1>3. \E Q : Course(v, g, R, Append(s, m), Q) /\ Q[Len(Append(s, m))] = b
    BY <1>2, CourseMore
  <1> QED
    BY <1>1, <1>3

LEMMA AlignedSays ==
  ASSUME NEW v, NEW g, NEW R, NEW in \in Seq(ServerMsg), NEW out, NEW up, NEW zones,
         Aligned(v, g, R, in, out, up, zones), NEW m \in ServerMsg, Neutral(m)
  PROVE  Aligned(v, g, R, Append(in, m), out, up, zones)
  <1>1. PICK P : /\ Course(v, g, R, in, P)
                 /\ up => /\ P[Len(in)].view = zones /\ P[Len(in)].granted = zones
                          /\ \E K : Asked(R, out, P[Len(in)].done, K)
    BY DEF Aligned
  <1>2. PICK Q : Course(v, g, R, Append(in, m), Q) /\ Q[Len(Append(in, m))] = P[Len(in)]
    BY <1>1, CourseNeutral
  <1> QED
    BY <1>1, <1>2 DEF Aligned

(* or serves a request: the objects first, then the completion.            *)
LEMMA AlignedServes ==
  ASSUME NEW v, NEW g, NEW R \in Seq(InterestMsg), NEW in \in Seq(ServerMsg),
         NEW out \in Seq(ClientMsg), out # <<>>, NEW zones \in SUBSET Zones,
         Aligned(v, g, R, in, out, TRUE, zones), Head(out).kind \in Ops,
         NEW new, new = Requested(zones, Head(out))
  PROVE  Aligned(v, g, R, in \o InterestReply(zones, new, Head(out).handle), Tail(out), TRUE, new)
  <1>1. PICK P : /\ Course(v, g, R, in, P)
                 /\ P[Len(in)].view = zones /\ P[Len(in)].granted = zones
                 /\ \E K : Asked(R, out, P[Len(in)].done, K)
    BY DEF Aligned
  <1>2. PICK a, j : a = P[Len(in)] /\ j = P[Len(in)].done
    OBVIOUS
  <1>3. /\ a \in Spot /\ a.view = zones /\ a.granted = zones /\ a.done = j /\ j \in Nat
        /\ \E K : Asked(R, out, j, K)
    BY <1>1, <1>2, CourseEnd
  <1>4. PICK m \in InterestMsg : m = Head(out)
    BY TailOf, ClientMessages
  <1>5. /\ j + 1 \in 1 .. Len(R) /\ R[j + 1] = m
        /\ \E L : Asked(R, Tail(out), j + 1, L)
    BY <1>3, <1>4, AskedTail
  <1>6. m.zones \in SUBSET Zones /\ m.handle \in 0 .. 255 /\ new \in SUBSET Zones /\ new = Requested(zones, m)
    BY <1>4 DEF InterestMsg, Requested
  <1>7. PICK last \in ServerMsg : last = InterestComplete(m.handle)
    BY <1>6, ServerMessages
  <1>8. PICK obj \in ServerMsg : obj = Objects(new \ zones, zones \ new)
    BY <1>6, ServerMessages
  <1>9. /\ last.kind = "complete" /\ obj.kind = "objects"
        /\ obj.opened = new \ zones /\ obj.closed = zones \ new
    BY <1>7, <1>8, MessageKinds DEF Objects
  (* after the objects, and after the completion *)
  <1>10. PICK b, d : b = [view |-> new, granted |-> zones, done |-> j]
                     /\ d = [view |-> new, granted |-> new, done |-> j + 1]
    OBVIOUS
  <1>11. /\ b \in Spot /\ b.view = new /\ b.granted = zones /\ b.done = j
         /\ d \in Spot /\ d.view = new /\ d.granted = new /\ d.done = j + 1
    BY <1>3, <1>6, <1>10 DEF Spot
  <1>12. Reading(obj, R, a, b)
    <2>1. (zones \cup (new \ zones)) \ (zones \ new) = new
      OBVIOUS
    <2> QED
      BY <1>3, <1>9, <1>11, <2>1 DEF Reading, ViewAfter
  <1>13. Reading(last, R, b, d)
    BY <1>5, <1>6, <1>9, <1>11 DEF Reading, ViewAfter
  <1>14. zones = new => Reading(last, R, a, d)
    BY <1>3, <1>5, <1>6, <1>9, <1>11 DEF Reading, ViewAfter
  <1>15. PICK reply : reply = InterestReply(zones, new, Head(out).handle)
    OBVIOUS
  <1>16. \E s \in Seq(ServerMsg) : \E Q : s = in \o reply /\ Course(v, g, R, s, Q) /\ Q[Len(s)] = d
    <2>1. CASE zones = new
      <3>1. reply = <<last>>
        BY <1>4, <1>7, <1>15, <2>1 DEF InterestReply, Update
      <3>2. Append(in, last) = in \o reply /\ Append(in, last) \in Seq(ServerMsg)
        BY <3>1, AppendedTo
      <3>3. \E Q : Course(v, g, R, Append(in, last), Q) /\ Q[Len(Append(in, last))] = d
        BY <1>1, <1>2, <1>11, <1>14, <2>1, CourseMore, SMTT(60)
      <3> QED
        BY <3>2, <3>3
    <2>2. CASE zones # new
      <3>1. reply = Append(<<obj>>, last)
        <4>1. Update(zones, new) = <<obj>>
          BY <1>8, <2>2 DEF Update
        <4>2. InterestReply(zones, new, m.handle) = Append(Update(zones, new), last)
          BY <1>7 DEF InterestReply
        <4> QED
          BY <1>4, <1>15, <4>1, <4>2, Zenon
      <3>2. PICK t : t = Append(in, obj)
        OBVIOUS
      <3>3. t \in Seq(ServerMsg) /\ Append(t, last) \in Seq(ServerMsg)
        BY <3>2, AppendedTo
      <3>4. Append(t, last) = in \o reply
        <4>1. PICK one \in Seq(ServerMsg) : one = <<obj>>
          BY CountOne
        <4>2. in \o one = t
          BY <3>2, <4>1
        <4>3. in \o Append(one, last) = Append(in \o one, last)
          BY <4>1
        <4> QED
          BY <3>1, <4>1, <4>2, <4>3, Zenon
      <3>5. PICK Q : Course(v, g, R, t, Q) /\ Q[Len(t)] = b
        BY <1>1, <1>2, <1>11, <1>12, <3>2, CourseMore, SMTT(60)
      <3>6. \E Q2 : Course(v, g, R, Append(t, last), Q2) /\ Q2[Len(Append(t, last))] = d
        BY <1>11, <1>13, <3>3, <3>5, CourseMore, SMTT(60)
      <3> QED
        BY <3>3, <3>4, <3>6
    <2> QED
      BY <2>1, <2>2
  <1>17. PICK s, Q : s = in \o reply /\ Course(v, g, R, s, Q) /\ Q[Len(s)] = d
    BY <1>16
  <1>18. Aligned(v, g, R, s, Tail(out), TRUE, new)
    BY <1>5, <1>11, <1>17 DEF Aligned
  <1> QED
    BY <1>15, <1>17, <1>18

(* The connection ends: only some of what is on its way comes in.          *)
LEMMA AlignedCut ==
  ASSUME NEW v, NEW g, NEW R, NEW in \in Seq(ServerMsg), NEW out, NEW up, NEW zones,
         Aligned(v, g, R, in, out, up, zones), NEW n \in 0 .. Len(in), NEW rest, NEW z
  PROVE  Aligned(v, g, R, SubSeq(in, 1, n), rest, FALSE, z)
  <1>1. PICK P : Course(v, g, R, in, P)
    BY DEF Aligned
  <1>2. PICK Q : Course(v, g, R, SubSeq(in, 1, n), Q)
    BY <1>1, CoursePrefix
  <1> QED
    BY <1>2 DEF Aligned

(* Where the client is, from the state.                                    *)
LEMMA Present ==
  ASSUME Progress, connected
  PROVE  \E up \in BOOLEAN :
           /\ up <=> link[connectionHandle] = "up"
           /\ Aligned(view, granted, requests, toClient[connectionHandle],
                      toServer[connectionHandle], up, interest[connectionHandle])
  <1>1. PICK up \in BOOLEAN : up <=> link[connectionHandle] = "up"
    OBVIOUS
  <1>2. PICK P : /\ Course(view, granted, requests, toClient[connectionHandle], P)
                 /\ link[connectionHandle] = "up" =>
                      /\ P[Len(toClient[connectionHandle])].view = interest[connectionHandle]
                      /\ P[Len(toClient[connectionHandle])].granted = interest[connectionHandle]
                      /\ \E K : Asked(requests, toServer[connectionHandle],
                                      P[Len(toClient[connectionHandle])].done, K)
    BY DEF Progress, Aligned
  <1>3. Aligned(view, granted, requests, toClient[connectionHandle],
                toServer[connectionHandle], up, interest[connectionHandle])
    BY <1>1, <1>2 DEF Aligned
  <1> QED
    BY <1>1, <1>3

LEMMA Stays ==
  ASSUME NEW v, NEW g, NEW R, NEW in, NEW out, NEW up, NEW zones, Aligned(v, g, R, in, out, up, zones),
         view' = v, granted' = g, requests' = R, toClient'[connectionHandle'] = in,
         link'[connectionHandle'] = "up" =>
           up /\ toServer'[connectionHandle'] = out /\ interest'[connectionHandle'] = zones
  PROVE  Progress'
  <1>1. PICK P : /\ Course(v, g, R, in, P)
                 /\ up => /\ P[Len(in)].view = zones /\ P[Len(in)].granted = zones
                          /\ \E K : Asked(R, out, P[Len(in)].done, K)
    BY DEF Aligned
  <1>2. link'[connectionHandle'] = "up" =>
          /\ P[Len(in)].view = interest'[connectionHandle']
          /\ P[Len(in)].granted = interest'[connectionHandle']
          /\ \E K : Asked(R, toServer'[connectionHandle'], P[Len(in)].done, K)
    BY <1>1
  <1>3. /\ Course(view', granted', requests', toClient'[connectionHandle'], P)
        /\ link'[connectionHandle'] = "up" =>
             /\ P[Len(toClient'[connectionHandle'])].view = interest'[connectionHandle']
             /\ P[Len(toClient'[connectionHandle'])].granted = interest'[connectionHandle']
             /\ \E K : Asked(requests', toServer'[connectionHandle'],
                             P[Len(toClient'[connectionHandle'])].done, K)
    BY <1>1, <1>2
  <1> QED
    BY <1>3, ZenonT(60) DEF Progress, Aligned, Course, Asked, Reading, ViewAfter, Requested

(* Nothing is asked for, and no zones are open, before their time.         *)
LEMMA BlankKept ==
  ASSUME IInv, Blank, Next
  PROVE  Blank'
  <1>0. TypeOK /\ Links /\ Channels
    BY DEF IInv
  <1>1. CASE Connect
    BY <1>1 DEF Blank, Connect, server, game
  <1>2. CASE connected /\ Close(connectionHandle)
    BY <1>0, <1>2 DEF Blank, Close, LeaveWorld, Forgets, TypeOK
  <1>3. CASE SendHello
    BY <1>3 DEF Blank, SendHello, client, server, game
  <1>4. CASE SendPing
    BY <1>4 DEF Blank, SendPing, server, game
  <1>5. ASSUME NEW op \in Ops, NEW zones \in SUBSET Zones, SendInterest(op, zones) PROVE Blank'
    BY <1>5 DEF Blank, SendInterest, client, server
  <1>6. CASE Welcomed
    BY <1>6 DEF Blank, Welcomed, server, game
  <1>7. CASE HandleObjects
    BY <1>7 DEF Blank, HandleObjects, server, game
  <1>8. CASE HandleInterestComplete
    BY <1>8 DEF Blank, HandleInterestComplete, Receive, client, server
  <1>9. CASE HandlePingResponse
    BY <1>9 DEF Blank, HandlePingResponse, server, game
  <1>10. ASSUME NEW h \in Handles, HandleNetCallback(h) PROVE Blank'
    <2>1. UNCHANGED <<session, interest>>
      BY <1>10 DEF HandleNetCallback, server
    <2>2. CASE UNCHANGED <<client, game>>
      BY <2>1, <2>2 DEF Blank, client, game
    <2>3. CASE Connected
      BY <2>1, <2>3 DEF Blank, Connected
    <2>4. CASE ~connected /\ Failed
      BY <2>1, <2>4 DEF Blank, Failed, game
    <2>5. CASE LeaveWorld
      BY <2>1, <2>5 DEF Blank, LeaveWorld, Forgets
    <2> QED
      BY <1>10, <2>2, <2>3, <2>4, <2>5, Callback
  <1>11. ASSUME NEW h \in Handles, Establish(h) PROVE Blank'
    <2>1. session[h] = "none"
      BY <1>0, <1>11 DEF Links, Establish, TypeOK
    <2> QED
      BY <1>0, <1>11, <2>1 DEF Blank, Establish, client, game, TypeOK
  <1>12. ASSUME NEW h \in Handles, Fail(h) PROVE Blank'
    BY <1>12 DEF Blank, Fail, client, server, game
  <1>13. ASSUME NEW h \in Handles, Cut(h) PROVE Blank'
    <2>1. /\ session' = [session EXCEPT ![h] = "none"] /\ interest' = [interest EXCEPT ![h] = {}]
          /\ UNCHANGED <<client, game>>
      BY <1>13 DEF Cut, Break
    <2> QED
      BY <1>0, <2>1 DEF Blank, client, game, TypeOK
  <1>14. ASSUME NEW h \in Handles, AcceptHello(h) PROVE Blank'
    BY <1>0, <1>14 DEF Blank, AcceptHello, client, game, TypeOK
  <1>15. ASSUME NEW h \in Handles, ServeInterest(h) PROVE Blank'
    <2>1. PICK zones : interest' = [interest EXCEPT ![h] = zones]
      BY <1>15 DEF ServeInterest
    <2>2. session[h] = "Verified" /\ UNCHANGED <<client, session, game>>
      BY <1>15 DEF ServeInterest
    <2> QED
      BY <1>0, <2>1, <2>2 DEF Blank, client, game, TypeOK
  <1>16. ASSUME NEW h \in Handles, ServePing(h) PROVE Blank'
    BY <1>16 DEF Blank, ServePing, client, server, game
  <1> QED
    BY <1>1, <1>2, <1>3, <1>4, <1>5, <1>6, <1>7, <1>8, <1>9, <1>10, <1>11, <1>12, <1>13,
       <1>14, <1>15, <1>16, Steps

(* The client reads a message that is no completion and sends nothing.     *)
LEMMA ProgressReads ==
  ASSUME IInv, Progress, NEW kind, kind # "complete", Receive(kind), Consumed,
         view' = ViewAfter(view, Head(toClient[connectionHandle])),
         UNCHANGED <<connectionHandle, link, toServer, interest, game>>
  PROVE  Progress'
  <1>1. /\ connected /\ connectionHandle \in Handles
        /\ toClient[connectionHandle] \in Seq(ServerMsg) /\ toClient[connectionHandle] # <<>>
        /\ Head(toClient[connectionHandle]).kind # "complete"
    BY Taken
  <1>2. toClient'[connectionHandle] = Tail(toClient[connectionHandle])
    BY <1>1, Read
  <1>3. PICK up \in BOOLEAN :
           /\ up <=> link[connectionHandle] = "up"
           /\ Aligned(view, granted, requests, toClient[connectionHandle],
                      toServer[connectionHandle], up, interest[connectionHandle])
    BY <1>1, Present
  <1>4. PICK w : w = ViewAfter(view, Head(toClient[connectionHandle]))
    OBVIOUS
  <1>5. Aligned(w, granted, requests, Tail(toClient[connectionHandle]),
                toServer[connectionHandle], up, interest[connectionHandle])
    BY <1>1, <1>3, <1>4, AlignedReads
  <1>6. /\ view' = w /\ granted' = granted /\ requests' = requests
        /\ toClient'[connectionHandle'] = Tail(toClient[connectionHandle])
        /\ link'[connectionHandle'] = "up" =>
             /\ up /\ toServer'[connectionHandle'] = toServer[connectionHandle]
             /\ interest'[connectionHandle'] = interest[connectionHandle]
    BY <1>2, <1>3, <1>4 DEF game
  <1> QED
    BY <1>5, <1>6, Stays

(* The client sends a message that asks for nothing.                       *)
LEMMA ProgressSends ==
  ASSUME IInv, Progress, connected, NEW m \in ClientMsg, m.kind \notin Ops, SendDatagram(m),
         UNCHANGED <<connectionHandle, link, toClient, interest, view, game>>
  PROVE  Progress'
  <1>1. /\ toServer[connectionHandle] \in Seq(ClientMsg)
        /\ toClient[connectionHandle] \in Seq(ServerMsg)
    BY Both
  <1>2. link[connectionHandle] = "up" =>
          toServer'[connectionHandle] = Append(toServer[connectionHandle], m)
    BY Datagram
  <1>3. PICK up \in BOOLEAN :
           /\ up <=> link[connectionHandle] = "up"
           /\ Aligned(view, granted, requests, toClient[connectionHandle],
                      toServer[connectionHandle], up, interest[connectionHandle])
    BY Present
  <1>4. Aligned(view, granted, requests, toClient[connectionHandle],
                Append(toServer[connectionHandle], m), up, interest[connectionHandle])
    BY <1>1, <1>3, AlignedSends
  <1>5. /\ view' = view /\ granted' = granted /\ requests' = requests
        /\ toClient'[connectionHandle'] = toClient[connectionHandle]
        /\ link'[connectionHandle'] = "up" =>
             /\ up /\ toServer'[connectionHandle'] = Append(toServer[connectionHandle], m)
             /\ interest'[connectionHandle'] = interest[connectionHandle]
    BY <1>2, <1>3 DEF game
  <1> QED
    BY <1>4, <1>5, Stays

(* The answer to a ping is read, and the server informed.                  *)
LEMMA ProgressInforms ==
  ASSUME IInv, Progress, HandlePingResponse, pendingPing
  PROVE  Progress'
  <1>0. /\ Receive("pingResp") /\ Consumed /\ SendDatagram(InformPing)
        /\ UNCHANGED <<connectionHandle, link, interest, view, game>>
    BY DEF HandlePingResponse, server
  <1>1. /\ connected /\ connectionHandle \in Handles
        /\ toClient[connectionHandle] \in Seq(ServerMsg) /\ toClient[connectionHandle] # <<>>
        /\ Head(toClient[connectionHandle]).kind = "pingResp"
        /\ Tail(toClient[connectionHandle]) \in Seq(ServerMsg)
    BY <1>0, Taken
  <1>2. toClient'[connectionHandle] = Tail(toClient[connectionHandle])
    BY <1>0, <1>1, Read
  <1>3. PICK m \in ClientMsg : m = InformPing /\ m.kind \notin Ops
    BY ClientMessages DEF Ops
  <1>4. link[connectionHandle] = "up" =>
          toServer'[connectionHandle] = Append(toServer[connectionHandle], m)
    BY <1>0, <1>1, <1>3, Datagram
  <1>5. toServer[connectionHandle] \in Seq(ClientMsg)
    BY <1>1, Both
  <1>6. PICK up \in BOOLEAN :
           /\ up <=> link[connectionHandle] = "up"
           /\ Aligned(view, granted, requests, toClient[connectionHandle],
                      toServer[connectionHandle], up, interest[connectionHandle])
    BY <1>1, Present
  <1>7. view = ViewAfter(view, Head(toClient[connectionHandle]))
    BY <1>1 DEF ViewAfter
  <1>8. Aligned(view, granted, requests, Tail(toClient[connectionHandle]),
                toServer[connectionHandle], up, interest[connectionHandle])
    BY <1>1, <1>6, <1>7, AlignedReads
  <1>9. Aligned(view, granted, requests, Tail(toClient[connectionHandle]),
                Append(toServer[connectionHandle], m), up, interest[connectionHandle])
    BY <1>1, <1>3, <1>5, <1>8, AlignedSends
  <1>10. /\ view' = view /\ granted' = granted /\ requests' = requests
         /\ toClient'[connectionHandle'] = Tail(toClient[connectionHandle])
         /\ link'[connectionHandle'] = "up" =>
              /\ up /\ toServer'[connectionHandle'] = Append(toServer[connectionHandle], m)
              /\ interest'[connectionHandle'] = interest[connectionHandle]
    BY <1>0, <1>2, <1>4, <1>6 DEF game
  <1> QED
    BY <1>9, <1>10, Stays

(* The game asks for something.                                            *)
LEMMA ProgressAsks ==
  ASSUME IInv, Progress, NEW op \in Ops, NEW zones \in SUBSET Zones, SendInterest(op, zones)
  PROVE  Progress'
  <1>1. getNextInterestHandle \in 0 .. 255
    <2>1. interestHandle \in 0 .. 255
      BY DEF IInv, TypeOK
    <2> QED
      BY <2>1 DEF getNextInterestHandle
  <1>2. PICK m \in InterestMsg : m = Interest(op, getNextInterestHandle, zones)
    BY <1>1, ClientMessages
  <1>3. /\ connected /\ SendDatagram(m) /\ requests' = Append(requests, m)
        /\ UNCHANGED <<connectionHandle, toClient, view, granted, interest, link>>
    BY <1>2 DEF SendInterest, client, server
  <1>4. /\ toServer[connectionHandle] \in Seq(ClientMsg)
        /\ toClient[connectionHandle] \in Seq(ServerMsg)
        /\ requests \in Seq(InterestMsg)
    BY <1>3, Both
  <1>5. link[connectionHandle] = "up" =>
          toServer'[connectionHandle] = Append(toServer[connectionHandle], m)
    BY <1>3, Datagram
  <1>6. PICK up \in BOOLEAN :
           /\ up <=> link[connectionHandle] = "up"
           /\ Aligned(view, granted, requests, toClient[connectionHandle],
                      toServer[connectionHandle], up, interest[connectionHandle])
    BY <1>3, Present
  <1>7. PICK more : more = toServer'[connectionHandle]
    OBVIOUS
  <1>8. Aligned(view, granted, Append(requests, m), toClient[connectionHandle],
                more, up, interest[connectionHandle])
    BY <1>4, <1>5, <1>6, <1>7, AlignedAsks
  <1>9. /\ view' = view /\ granted' = granted /\ requests' = Append(requests, m)
        /\ toClient'[connectionHandle'] = toClient[connectionHandle]
        /\ link'[connectionHandle'] = "up" =>
             /\ up /\ toServer'[connectionHandle'] = more
             /\ interest'[connectionHandle'] = interest[connectionHandle]
    BY <1>3, <1>6, <1>7
  <1> QED
    BY <1>8, <1>9, Stays

(* The client is told that a request is complete: it has what it asked for. *)
LEMMA ProgressCompletes ==
  ASSUME IInv, Progress, HandleInterestComplete
  PROVE  view = Requested(granted, Head(requests)) /\ Progress'
  <1>0. /\ Receive("complete") /\ Consumed /\ requests' = Tail(requests)
        /\ granted' = Requested(granted, Head(requests))
        /\ UNCHANGED <<connectionHandle, link, interest, view, toServer>>
    BY DEF HandleInterestComplete, server, client
  <1>1. /\ connected /\ connectionHandle \in Handles
        /\ toClient[connectionHandle] \in Seq(ServerMsg) /\ toClient[connectionHandle] # <<>>
        /\ Head(toClient[connectionHandle]).kind = "complete"
    BY <1>0, Taken
  <1>2. toClient'[connectionHandle] = Tail(toClient[connectionHandle])
    BY <1>0, <1>1, Read
  <1>3. toServer[connectionHandle] \in Seq(ClientMsg) /\ requests \in Seq(InterestMsg)
    BY <1>1, Both
  <1>4. PICK up \in BOOLEAN :
           /\ up <=> link[connectionHandle] = "up"
           /\ Aligned(view, granted, requests, toClient[connectionHandle],
                      toServer[connectionHandle], up, interest[connectionHandle])
    BY <1>1, Present
  <1>5. /\ view = Requested(granted, Head(requests))
        /\ Aligned(view, view, Tail(requests), Tail(toClient[connectionHandle]),
                   toServer[connectionHandle], up, interest[connectionHandle])
    BY <1>1, <1>3, <1>4, AlignedCompletes
  <1>6. /\ view' = view /\ granted' = view /\ requests' = Tail(requests)
        /\ toClient'[connectionHandle'] = Tail(toClient[connectionHandle])
        /\ link'[connectionHandle'] = "up" =>
             /\ up /\ toServer'[connectionHandle'] = toServer[connectionHandle]
             /\ interest'[connectionHandle'] = interest[connectionHandle]
    BY <1>0, <1>2, <1>4, <1>5
  <1> QED
    BY <1>5, <1>6, Stays

(* The server takes a message that asks for nothing, and answers it or not. *)
LEMMA ProgressTakes ==
  ASSUME IInv, Progress, NEW h \in Handles, NEW kinds, kinds \cap Ops = {}, Serve(h, kinds),
         NEW reply, reply = <<>> \/ (\E m \in ServerMsg : reply = <<m>> /\ Neutral(m)),
         Answer(h, reply), UNCHANGED <<connectionHandle, interest, view, game>>
  PROVE  Progress'
  <1>1. /\ connected /\ h = connectionHandle
        /\ toClient'[h] = toClient[h] \o reply /\ toServer'[h] = Tail(toServer[h])
    BY Replied
  <1>2. link[h] = "up" /\ UNCHANGED link
    BY DEF Serve, Answer
  <1>3. /\ toServer[h] \in Seq(ClientMsg) /\ toServer[h] # <<>> /\ Head(toServer[h]).kind \notin Ops
        /\ Tail(toServer[h]) \in Seq(ClientMsg)
    BY ServedHead
  <1>4. toClient[h] \in Seq(ServerMsg) /\ requests \in Seq(InterestMsg)
    BY <1>1, Both
  <1>5. PICK up \in BOOLEAN :
           /\ up <=> link[h] = "up"
           /\ Aligned(view, granted, requests, toClient[h], toServer[h], up, interest[h])
    BY <1>1, Present
  <1>6. Aligned(view, granted, requests, toClient[h], toServer[h], TRUE, interest[h])
    <2>1. up = TRUE
      BY <1>2, <1>5
    <2> QED
      BY <1>5, <2>1
  <1>7. Aligned(view, granted, requests, toClient[h], Tail(toServer[h]), TRUE, interest[h])
    BY <1>3, <1>4, <1>6, AlignedTakes
  <1>8. Aligned(view, granted, requests, toClient[h] \o reply, Tail(toServer[h]), TRUE, interest[h])
    <2>1. CASE reply = <<>>
      <3>1. toClient[h] \o reply = toClient[h]
        BY <1>4, <2>1
      <3> QED
        BY <1>7, <3>1
    <2>2. ASSUME NEW m \in ServerMsg, reply = <<m>>, Neutral(m)
          PROVE Aligned(view, granted, requests, toClient[h] \o reply, Tail(toServer[h]), TRUE, interest[h])
      <3>1. toClient[h] \o reply = Append(toClient[h], m)
        BY <1>4, <2>2
      <3>2. Aligned(view, granted, requests, Append(toClient[h], m), Tail(toServer[h]), TRUE, interest[h])
        BY <1>4, <1>7, <2>2, AlignedSays
      <3> QED
        BY <3>1, <3>2
    <2> QED
      BY <2>1, <2>2
  <1>9. /\ view' = view /\ granted' = granted /\ requests' = requests
        /\ toClient'[connectionHandle'] = toClient[h] \o reply
        /\ link'[connectionHandle'] = "up" =>
             /\ TRUE /\ toServer'[connectionHandle'] = Tail(toServer[h])
             /\ interest'[connectionHandle'] = interest[h]
    BY <1>1 DEF game
  <1> QED
    BY <1>8, <1>9, Stays

(* The server serves a request.                                            *)
LEMMA ProgressServes ==
  ASSUME IInv, Progress, NEW h \in Handles, ServeInterest(h)
  PROVE  Progress'
  <1>1. PICK m \in InterestMsg : m = Head(toServer[h]) /\ m.kind \in Ops
    BY ServedHead, ClientMessages DEF ServeInterest
  <1>2. PICK zones \in SUBSET Zones : zones = interest[h]
    BY DEF IInv, TypeOK
  <1>3. PICK new : new = Requested(zones, m)
    OBVIOUS
  <1>4. PICK reply : reply = InterestReply(zones, new, m.handle)
    OBVIOUS
  <1>5. /\ Serve(h, Ops) /\ Answer(h, reply) /\ interest' = [interest EXCEPT ![h] = new]
        /\ UNCHANGED <<connectionHandle, view, game>>
    BY <1>1, <1>2, <1>3, <1>4 DEF ServeInterest, client
  <1>6. /\ connected /\ h = connectionHandle
        /\ toClient'[h] = toClient[h] \o reply /\ toServer'[h] = Tail(toServer[h])
    BY <1>5, Replied
  <1>7. link[h] = "up" /\ UNCHANGED link /\ interest'[h] = new
    BY <1>5 DEF Serve, Answer, IInv, TypeOK
  <1>8. toServer[h] \in Seq(ClientMsg) /\ toServer[h] # <<>> /\ Head(toServer[h]).kind \in Ops
    BY <1>5, ServedHead
  <1>9. toClient[h] \in Seq(ServerMsg) /\ requests \in Seq(InterestMsg)
    BY <1>6, Both
  <1>10. PICK up \in BOOLEAN :
           /\ up <=> link[h] = "up"
           /\ Aligned(view, granted, requests, toClient[h], toServer[h], up, interest[h])
    BY <1>6, Present
  <1>11. Aligned(view, granted, requests, toClient[h], toServer[h], TRUE, zones)
    <2>1. up = TRUE
      BY <1>7, <1>10
    <2> QED
      BY <1>2, <1>10, <2>1
  <1>12. new = Requested(zones, Head(toServer[h]))
    BY <1>1, <1>3
  <1>13. Aligned(view, granted, requests, toClient[h] \o InterestReply(zones, new, Head(toServer[h]).handle),
                 Tail(toServer[h]), TRUE, new)
    BY <1>8, <1>9, <1>11, <1>12, AlignedServes
  <1>14. Aligned(view, granted, requests, toClient[h] \o reply, Tail(toServer[h]), TRUE, new)
    BY <1>1, <1>4, <1>13
  <1>15. /\ view' = view /\ granted' = granted /\ requests' = requests
         /\ toClient'[connectionHandle'] = toClient[h] \o reply
         /\ link'[connectionHandle'] = "up" =>
              /\ TRUE /\ toServer'[connectionHandle'] = Tail(toServer[h])
              /\ interest'[connectionHandle'] = new
    BY <1>5, <1>6, <1>7 DEF game
  <1> QED
    BY <1>14, <1>15, Stays

(* The connection ends.                                                    *)
LEMMA ProgressCut ==
  ASSUME IInv, Progress, connected, NEW h \in Handles, Cut(h)
  PROVE  Progress'
  <1>1. /\ h = connectionHandle /\ UNCHANGED <<client, handles, game>> /\ link'[h] = "down"
        /\ \E sent \in Seq(ServerMsg) :
             /\ sent = toClient[h] \/ sent = Append(toClient[h], HelloResp(FALSE))
             /\ \E n \in 0 .. Len(sent) : toClient'[h] = SubSeq(sent, 1, n)
    BY Broken
  <1>2. PICK sent \in Seq(ServerMsg) :
          /\ sent = toClient[h] \/ sent = Append(toClient[h], HelloResp(FALSE))
          /\ \E n \in 0 .. Len(sent) : toClient'[h] = SubSeq(sent, 1, n)
    BY <1>1
  <1>3. PICK n \in 0 .. Len(sent) : toClient'[h] = SubSeq(sent, 1, n)
    BY <1>2
  <1>4. toClient[h] \in Seq(ServerMsg)
    BY <1>1, Both
  <1>5. PICK up \in BOOLEAN :
           Aligned(view, granted, requests, toClient[h], toServer[h], up, interest[h])
    BY <1>1, Present
  <1>6. PICK m \in ServerMsg : m = HelloResp(FALSE) /\ Neutral(m)
    BY ServerMessages, MessageKinds DEF Neutral
  <1>7. Aligned(view, granted, requests, Append(toClient[h], m), toServer[h], up, interest[h])
    BY <1>4, <1>5, <1>6, AlignedSays
  <1>8. Aligned(view, granted, requests, sent, toServer[h], up, interest[h])
    <2>1. CASE sent = toClient[h]
      BY <1>5, <2>1
    <2>2. CASE sent = Append(toClient[h], HelloResp(FALSE))
      BY <1>6, <1>7, <2>2
    <2> QED
      BY <1>2, <2>1, <2>2
  <1>9. Aligned(view, granted, requests, SubSeq(sent, 1, n), <<>>, FALSE, {})
    BY <1>8, AlignedCut
  <1>10. /\ view' = view /\ granted' = granted /\ requests' = requests
         /\ toClient'[connectionHandle'] = SubSeq(sent, 1, n)
         /\ link'[connectionHandle'] = "up" =>
              /\ FALSE /\ toServer'[connectionHandle'] = <<>>
              /\ interest'[connectionHandle'] = {}
    BY <1>1, <1>3 DEF client, game
  <1> QED
    BY <1>9, <1>10, Stays

(* A connection is made: nothing is asked for, nothing was said.           *)
LEMMA ProgressStarts ==
  ASSUME IInv, Blank, ~connected, NEW h \in Handles, h = connectionHandle, Connected,
         UNCHANGED <<toClient, toServer, interest>>
  PROVE  Progress'
  <1>1. /\ toServer[h] = <<>> /\ toClient[h] = <<>> /\ session[h] # "Verified"
    BY DEF IInv, Channels
  <1>2. interest[h] = {} /\ requests = <<>> /\ granted = {}
    BY <1>1 DEF Blank
  <1>3. view = {}
    BY DEF IInv, AuthAgrees
  <1>4. Aligned({}, {}, <<>>, <<>>, <<>>, TRUE, {})
    BY AlignedStart
  <1>5. /\ view' = {} /\ granted' = {} /\ requests' = <<>>
        /\ toClient'[connectionHandle'] = <<>>
        /\ link'[connectionHandle'] = "up" =>
             /\ TRUE /\ toServer'[connectionHandle'] = <<>>
             /\ interest'[connectionHandle'] = {}
    BY <1>1, <1>2, <1>3 DEF Connected, game
  <1> QED
    BY <1>4, <1>5, Stays

(* A step that leaves this alone.                                          *)
LEMMA ProgressIdle ==
  ASSUME Progress,
         UNCHANGED <<connected, connectionHandle, view, granted, requests, toClient, toServer, link, interest>>
  PROVE  Progress'
  <1>1. CASE connected
    <2>1. PICK up \in BOOLEAN :
             /\ up <=> link[connectionHandle] = "up"
             /\ Aligned(view, granted, requests, toClient[connectionHandle],
                        toServer[connectionHandle], up, interest[connectionHandle])
      BY <1>1, Present
    <2>2. /\ view' = view /\ granted' = granted /\ requests' = requests
          /\ toClient'[connectionHandle'] = toClient[connectionHandle]
          /\ link'[connectionHandle'] = "up" =>
               /\ up /\ toServer'[connectionHandle'] = toServer[connectionHandle]
               /\ interest'[connectionHandle'] = interest[connectionHandle]
      BY <2>1
    <2> QED
      BY <2>1, <2>2, Stays
  <1>2. CASE ~connected
    BY <1>2 DEF Progress
  <1> QED
    BY <1>1, <1>2

(* Progress holds after every step.                                        *)
LEMMA ProgressKept ==
  ASSUME IInv, Blank, Progress, Next
  PROVE  Progress'
  <1>0. Links /\ ("helloResp" \notin Ops /\ "hello" \notin Ops /\ "ping" \notin Ops /\ "informPing" \notin Ops)
    BY DEF IInv, Ops
  <1>20. ~connected' => Progress'
    BY DEF Progress
  <1>21. \A m : m.kind \in {"helloResp", "pingResp"} => Neutral(m)
    BY DEF Neutral
  <1>1. CASE Connect
    BY <1>1, <1>20 DEF Connect
  <1>2. CASE connected /\ Close(connectionHandle)
    BY <1>2, <1>20 DEF Close, LeaveWorld
  <1>3. CASE SendHello
    <2>1. /\ connected /\ SendDatagram(Hello)
          /\ UNCHANGED <<connectionHandle, link, toClient, interest, view, game>>
      BY <1>3 DEF SendHello, client, server
    <2>2. Hello \in ClientMsg /\ Hello.kind \notin Ops
      BY <1>0, ClientMessages
    <2> QED
      BY <2>1, <2>2, ProgressSends
  <1>4. CASE SendPing
    <2>1. /\ connected /\ SendDatagram(Ping)
          /\ UNCHANGED <<connectionHandle, link, toClient, interest, view, game>>
      BY <1>4 DEF SendPing, server
    <2>2. Ping \in ClientMsg /\ Ping.kind \notin Ops
      BY <1>0, ClientMessages
    <2> QED
      BY <2>1, <2>2, ProgressSends
  <1>5. ASSUME NEW op \in Ops, NEW zones \in SUBSET Zones, SendInterest(op, zones) PROVE Progress'
    BY <1>5, ProgressAsks
  <1>6. CASE Welcomed
    <2>1. /\ Receive("helloResp") /\ Consumed
          /\ UNCHANGED <<connectionHandle, link, toServer, interest, view, game>>
      BY <1>6 DEF Welcomed, server
    <2>2. view' = ViewAfter(view, Head(toClient[connectionHandle]))
      BY <2>1 DEF Receive, ViewAfter
    <2> QED
      BY <2>1, <2>2, ProgressReads
  <1>7. CASE HandleObjects
    <2>1. /\ Receive("objects") /\ Consumed
          /\ UNCHANGED <<connectionHandle, link, toServer, interest, game>>
      BY <1>7 DEF HandleObjects, server
    <2>2. view' = ViewAfter(view, Head(toClient[connectionHandle]))
      BY <1>7 DEF HandleObjects, Receive, ViewAfter
    <2> QED
      BY <2>1, <2>2, ProgressReads
  <1>8. CASE HandleInterestComplete
    BY <1>8, ProgressCompletes
  <1>9. CASE HandlePingResponse
    <2>1. CASE pendingPing
      BY <1>9, <2>1, ProgressInforms
    <2>2. CASE ~pendingPing
      <3>1. /\ Receive("pingResp") /\ Consumed
            /\ UNCHANGED <<connectionHandle, link, toServer, interest, view, game>>
        BY <1>9, <2>2 DEF HandlePingResponse, server
      <3>2. view' = ViewAfter(view, Head(toClient[connectionHandle]))
        BY <3>1 DEF Receive, ViewAfter
      <3> QED
        BY <3>1, <3>2, ProgressReads
    <2> QED
      BY <2>1, <2>2
  <1>10. ASSUME NEW h \in Handles, HandleNetCallback(h) PROVE Progress'
    <2>1. UNCHANGED <<toServer, toClient, link, interest>>
      BY <1>10 DEF HandleNetCallback, server
    <2>2. CASE UNCHANGED <<client, game>>
      BY <2>1, <2>2, ProgressIdle DEF client, game
    <2>3. CASE h = connectionHandle /\ ~connected /\ Connected
      BY <2>1, <2>3, ProgressStarts
    <2>4. CASE Failed
      BY <1>20, <2>4 DEF Failed
    <2>5. CASE LeaveWorld
      BY <1>20, <2>5 DEF LeaveWorld
    <2> QED
      BY <1>10, <2>2, <2>3, <2>4, <2>5, Callback
  <1>11. ASSUME NEW h \in Handles, Establish(h) PROVE Progress'
    BY <1>0, <1>11, <1>20 DEF Links, Establish, client
  <1>12. ASSUME NEW h \in Handles, Fail(h) PROVE Progress'
    BY <1>0, <1>12, <1>20 DEF Links, Fail, client
  <1>13. ASSUME NEW h \in Handles, Cut(h) PROVE Progress'
    <2>1. CASE connected
      BY <1>13, <2>1, ProgressCut
    <2>2. CASE ~connected
      BY <1>13, <1>20, <2>2 DEF Cut, client
    <2> QED
      BY <2>1, <2>2
  <1>14. ASSUME NEW h \in Handles, AcceptHello(h) PROVE Progress'
    <2>1. PICK m \in ServerMsg : m = HelloResp(TRUE) /\ Neutral(m)
      <3>1. HelloResp(TRUE) \in ServerMsg /\ HelloResp(TRUE).kind = "helloResp"
        BY ServerMessages, MessageKinds
      <3> QED
        BY <3>1 DEF Neutral
    <2>2. PICK reply : reply = <<m>>
      OBVIOUS
    <2>3. /\ Serve(h, {"hello"}) /\ Answer(h, reply)
          /\ UNCHANGED <<connectionHandle, interest, view, game>>
      BY <1>14, <2>1, <2>2 DEF AcceptHello, client
    <2>4. {"hello"} \cap Ops = {}
      BY <1>0
    <2> QED
      BY <2>1, <2>2, <2>3, <2>4, ProgressTakes
  <1>15. ASSUME NEW h \in Handles, ServeInterest(h) PROVE Progress'
    BY <1>15, ProgressServes
  <1>16. ASSUME NEW h \in Handles, ServePing(h) PROVE Progress'
    <2>1. PICK m \in ServerMsg : m = PingResp /\ Neutral(m)
      BY <1>21, ServerMessages, MessageKinds
    <2>2. PICK reply : reply = IF Head(toServer[h]).kind = "ping" THEN <<m>> ELSE <<>>
      OBVIOUS
    <2>3. /\ Serve(h, {"ping", "informPing"}) /\ Answer(h, reply)
          /\ UNCHANGED <<connectionHandle, interest, view, game>>
      BY <1>16, <2>1, <2>2 DEF ServePing, client, server
    <2>4. {"ping", "informPing"} \cap Ops = {}
      BY <1>0
    <2>5. reply = <<>> \/ (\E n \in ServerMsg : reply = <<n>> /\ Neutral(n))
      BY <2>1, <2>2
    <2> QED
      BY <2>3, <2>4, <2>5, ProgressTakes
  <1> QED
    BY <1>1, <1>2, <1>3, <1>4, <1>5, <1>6, <1>7, <1>8, <1>9, <1>10, <1>11, <1>12, <1>13,
       <1>14, <1>15, <1>16, Steps

(* Only a completion takes a request from those under way while the client *)
(* stays connected.                                                        *)
LEMMA OnlyCompletions ==
  ASSUME IInv, Next, requests # <<>>, connected', requests' = Tail(requests)
  PROVE  HandleInterestComplete
  <1>0. requests \in Seq(InterestMsg)
    BY DEF IInv, TypeOK
  <1>1. Len(requests) \in Nat /\ Len(Tail(requests)) = Len(requests) - 1
    BY <1>0, TailOf
  <1>2. requests' # requests
    <2>1. PICK n \in Nat : n = Len(requests)
      BY <1>1
    <2>2. PICK k : k = Len(Tail(requests))
      OBVIOUS
    <2>3. k = n - 1
      BY <1>1, <2>1, <2>2
    <2>4. k # n
      BY <2>1, <2>3
    <2>5. Tail(requests) # requests
      BY <2>1, <2>2, <2>4
    <2> QED
      BY <2>5
  <1>3. Links /\ ~UNCHANGED game
    BY <1>2 DEF IInv, game
  <1>4. ASSUME NEW op \in Ops, NEW zones \in SUBSET Zones, SendInterest(op, zones) PROVE FALSE
    <2>1. PICK m : requests' = Append(requests, m)
      BY <1>4 DEF SendInterest
    <2>2. Len(Append(requests, m)) = Len(requests) + 1
      BY <1>0
    <2> QED
      BY <1>1, <2>1, <2>2
  <1>5. ~Connect /\ ~SendHello /\ ~SendPing
    BY <1>3 DEF Connect, SendHello, SendPing
  <1>6. ~(connected /\ Close(connectionHandle))
    BY DEF Close, LeaveWorld
  <1>7. ~Welcomed /\ ~HandleObjects /\ ~HandlePingResponse
    BY <1>3 DEF Welcomed, HandleObjects, HandlePingResponse
  <1>8. ASSUME NEW h \in Handles, HandleNetCallback(h) PROVE FALSE
    <2>1. ~LeaveWorld
      BY DEF LeaveWorld
    <2>2. ~Connected /\ ~Failed
      BY <1>3 DEF Connected, Failed
    <2> QED
      BY <1>3, <1>8, <2>1, <2>2, Callback
  <1>9. ASSUME NEW h \in Handles PROVE ~Establish(h) /\ ~Fail(h) /\ ~Cut(h)
    BY <1>3 DEF Establish, Fail, Cut
  <1>10. ASSUME NEW h \in Handles PROVE ~AcceptHello(h) /\ ~ServeInterest(h) /\ ~ServePing(h)
    BY <1>3 DEF AcceptHello, ServeInterest, ServePing
  <1> QED
    BY <1>4, <1>5, <1>6, <1>7, <1>8, <1>9, <1>10, Steps

(* When the client is told that an interest operation is complete, it has  *)
(* the objects of exactly the zones that its requests up to this one add   *)
(* up to.                                                                  *)
THEOREM CompletionsMeanPresent == Spec => CompleteMeansPresent
  <1>1. Init => Blank /\ Progress
    BY DEF Init, Blank, Progress
  <1>2. IInv /\ Blank /\ Progress /\ [Next]_vars => Blank' /\ Progress'
    <2>1. ASSUME IInv, Blank, Progress, Next PROVE Blank' /\ Progress'
      BY <2>1, BlankKept, ProgressKept
    <2>2. ASSUME Blank, Progress, UNCHANGED vars PROVE Blank' /\ Progress'
      <3>1. UNCHANGED <<connected, connectionHandle, view, granted, requests, toClient, toServer, link,
                        interest, session>>
        BY <2>2 DEF vars, client, network, server, game
      <3> QED
        BY <2>2, <3>1, ProgressIdle DEF Blank
    <2> QED
      BY <2>1, <2>2
  <1>3. IInv /\ Progress /\ [Next]_vars =>
          [requests # <<>> /\ connected' /\ requests' = Tail(requests) => view' = granted']_vars
    <2>1. ASSUME IInv, Progress, Next, requests # <<>>, connected', requests' = Tail(requests)
          PROVE  view' = granted'
      <3>1. HandleInterestComplete
        BY <2>1, OnlyCompletions
      <3>2. view' = view /\ granted' = Requested(granted, Head(requests))
        BY <3>1 DEF HandleInterestComplete, client
      <3> QED
        BY <2>1, <3>1, <3>2, ProgressCompletes
    <2> QED
      BY <2>1
  <1> QED
    BY <1>1, <1>2, <1>3, Inductive, PTL DEF Spec, CompleteMeansPresent
===============================================================================
