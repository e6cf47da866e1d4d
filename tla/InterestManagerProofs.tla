------------------------- MODULE InterestManagerProofs ------------------------
(***************************************************************************)
(* Proofs about InterestManager, for any number of handles, calls and      *)
(* places: the types, that the answers that interests wait for are coming, *)
(* that the server follows the table, and that an event means that its     *)
(* interest was served.                                                    *)
(***************************************************************************)
EXTENDS InterestManager, FiniteSetTheorems, WellFoundedInduction, TLAPS

-------------------------------------------------------------------------------
(* The inductive invariant                                                 *)

Last(i, h) == i \in RequestsFor(h) /\ \A j \in RequestsFor(h) : j <= i

Agree(m, interest) ==
  /\ m.context = interest.context
  /\ interest.state = "Active" => m.kind = "add" /\ m.place = interest.place

(* The last request on its way about a handle is the one that the interest *)
(* of that handle waits for, and there are none about unused handles.      *)
Latest ==
  \A h \in Handles : RequestsFor(h) # {} =>
    /\ h \in Valid /\ ~interests[h].auto
    /\ \E i \in DOMAIN toServer : Last(i, h) /\ Agree(toServer[i], interests[h])

(* A context is on its way once, as a request or as an answer.             *)
ContextsOnce ==
  /\ \A i \in DOMAIN toServer : toServer[i].context <= calls
  /\ \A i, j \in DOMAIN toServer :
       toServer[i].context = toServer[j].context /\ toServer[i].context # NoContext => i = j
  /\ \A answer \in done :
       /\ answer[2] <= calls
       /\ \A i \in DOMAIN toServer : toServer[i].context # answer[2]

(* An automatic interest waits for nothing.                                *)
AutoIdle == \A h \in Valid : interests[h].auto => interests[h].context = NoContext

Waiting == AnswerComing /\ ServerFollows /\ Latest /\ ContextsOnce /\ AutoIdle

IInv == TypeOK /\ Waiting

-------------------------------------------------------------------------------
(* Handles                                                                 *)

LEMMA Smallest ==
  ASSUME NEW n \in Nat, NEW S \in SUBSET (1 .. n), S # {}
  PROVE  \E x \in S : \A y \in S : x <= y
<1> DEFINE T == {1 .. x : x \in S}
<1>1. IsFiniteSet(1 .. n)
  BY FS_Interval
<1>2. IsWellFoundedOn(StrictSubsetOrdering(1 .. n), SUBSET (1 .. n))
  BY <1>1, FS_StrictSubsetOrderingWellFounded, FS_FiniteSubsetsOfFinite
<1>3. T \subseteq SUBSET (1 .. n) /\ T # {}
  <2>1. ASSUME NEW x \in S PROVE 1 .. x \in SUBSET (1 .. n)
    <3>1. x \in Nat /\ x <= n
      OBVIOUS
    <3> QED BY <3>1
  <2> QED BY <2>1
<1>4. PICK t \in T : \A u \in T : <<u, t>> \notin StrictSubsetOrdering(1 .. n)
  <2> HIDE DEF T
  <2> QED BY <1>2, <1>3, WFMin
<1>5. PICK x \in S : t = 1 .. x
  BY <1>4
<1>6. ASSUME NEW y \in S PROVE x <= y
  <2> SUFFICES ASSUME y < x PROVE FALSE
    OBVIOUS
  <2>1. 1 .. y \in T
    OBVIOUS
  <2>2. 1 .. y \subseteq 1 .. x /\ 1 .. y # 1 .. x /\ 1 .. y \subseteq 1 .. n /\ 1 .. x \subseteq 1 .. n
    <3>1. x \in 1 .. x /\ x \notin 1 .. y
      OBVIOUS
    <3> QED BY <3>1
  <2>3. <<1 .. y, 1 .. x>> \in StrictSubsetOrdering(1 .. n)
    BY <2>2 DEF StrictSubsetOrdering
  <2> QED BY <1>4, <1>5, <2>1, <2>3
<1> QED BY <1>6

(* _getNextHandle ends, with a handle that is not in use, when one is left *)
LEMMA HandleUnused ==
  ASSUME handleSerial \in Handles, Valid \subseteq Handles, HandleLeft
  PROVE  NextHandle \in Handles \ Valid
<1> USE BoundsAssumption
<1>1. IsFiniteSet(Handles) /\ Cardinality(Handles) = MaxHandle + 1
  <2>1. 0 \in Int /\ MaxHandle \in Int /\ ~(0 > MaxHandle)
    OBVIOUS
  <2>2. IsFiniteSet(0 .. MaxHandle) /\ Cardinality(0 .. MaxHandle) = MaxHandle - 0 + 1
    BY <2>1, FS_Interval
  <2> QED BY <2>2 DEF Handles
<1>2. Valid # Handles
  BY <1>1 DEF HandleLeft
<1>3. PICK h \in Handles : h \notin Valid
  BY <1>2
<1> DEFINE S == {n \in 1 .. MaxHandle + 1 : Following(n) \notin Valid}
<1>4. S # {}
  <2>1. CASE h > handleSerial
    <3>1. h - handleSerial \in 1 .. MaxHandle + 1 /\ Following(h - handleSerial) = h
      BY <2>1 DEF Handles, Following
    <3> QED BY <3>1, <1>3
  <2>2. CASE h <= handleSerial
    <3>1. /\ h - handleSerial + MaxHandle + 1 \in 1 .. MaxHandle + 1
          /\ Following(h - handleSerial + MaxHandle + 1) = h
      BY <2>2 DEF Handles, Following
    <3> QED BY <3>1, <1>3
  <2> QED BY <2>1, <2>2 DEF Handles
<1>5. PICK n \in S : \A m \in S : n <= m
  <2> HIDE DEF S
  <2>1. S \in SUBSET (1 .. MaxHandle + 1) /\ MaxHandle + 1 \in Nat
    BY DEF S
  <2> QED BY <1>4, <2>1, Smallest
<1> DEFINE P(k) == Following(k) \notin Valid /\ \A m \in 1 .. k - 1 : Following(m) \in Valid
<1>6. n \in 1 .. MaxHandle + 1 /\ P(n)
  BY <1>5
<1> DEFINE k == CHOOSE x \in 1 .. MaxHandle + 1 : P(x)
<1>7. k \in 1 .. MaxHandle + 1 /\ P(k)
  <2> HIDE DEF P
  <2> QED BY <1>6
<1>8. NextHandle = Following(k)
  BY DEF NextHandle
<1> HIDE DEF k
<1> QED BY <1>7, <1>8 DEF Following, Handles

-------------------------------------------------------------------------------
(* Types                                                                   *)

LEMMA EventsFinite ==
  ASSUME NEW S \in SUBSET Numbers
  PROVE  Cardinality(S) \in Int
<1>1. IsFiniteSet(Numbers)
  BY BoundsAssumption, FS_Interval DEF Numbers
<1> QED BY <1>1, FS_Subset, FS_CardinalityType

LEMMA WatcherTypes ==
  ASSUME TypeOK, NEW S \in SUBSET Numbers, Hear(S) \/ \E n \in Numbers : Collect(n)
  PROVE  watcher' \in [phase : {"new", "collecting", "stopped"}, group : SUBSET Numbers,
                       heard : SUBSET Numbers, done : BOOLEAN]
<1> DEFINE W == [phase : {"new", "collecting", "stopped"}, group : SUBSET Numbers,
                 heard : SUBSET Numbers, done : BOOLEAN]
<1>1. watcher \in W
  BY DEF TypeOK
<1>2. CASE Hear(S)
  <2> DEFINE heard == watcher.heard \cup (S \cap watcher.group)
             over == watcher.done \/ (heard = watcher.group /\ heard # {})
  <2>1. watcher' = [watcher EXCEPT !.heard = heard, !.done = over]
    BY <1>2 DEF Hear
  <2>2. heard \in SUBSET Numbers /\ over \in BOOLEAN
    BY <1>1
  <2> HIDE DEF heard, over
  <2> QED BY <1>1, <2>1, <2>2
<1>3. CASE \E n \in Numbers : Collect(n)
  BY <1>1, <1>3 DEF Collect
<1> QED BY <1>2, <1>3

LEMMA TypeInit == Init => TypeOK
<1> SUFFICES ASSUME Init PROVE TypeOK
  OBVIOUS
<1>1. Valid = {} /\ DOMAIN open = {} /\ toServer \in Seq(Request) /\ done \subseteq Handles \X Numbers
  BY DEF Init, Valid
<1>2. /\ handleSerial \in Handles /\ completeEventCount \in Int
      /\ delayed \in {Unset, Over} \cup 0 .. Frames - 1
      /\ calls \in 0 .. MaxCalls /\ losses \in 0 .. MaxLosses
  BY BoundsAssumption DEF Init, Handles
<1>3. watcher \in [phase : {"new", "collecting", "stopped"}, group : SUBSET Numbers,
                    heard : SUBSET Numbers, done : BOOLEAN]
  BY DEF Init
<1>4. callbacks \subseteq Callbacks /\ {noNewInterests, sending} \subseteq BOOLEAN
  BY DEF Init
<1> QED BY <1>1, <1>2, <1>3, <1>4 DEF TypeOK

LEMMA CallType ==
  ASSUME TypeOK, Call
  PROVE  Number \in Numbers /\ calls' = Number /\ calls' \in 0 .. MaxCalls /\ NoContext \notin Numbers
BY BoundsAssumption DEF TypeOK, Call, Number, Numbers, NoContext

LEMMA TypeStep == TypeOK /\ [Next]_vars => TypeOK'
<1> SUFFICES ASSUME TypeOK, [Next]_vars PROVE TypeOK'
  OBVIOUS
<1> USE BoundsAssumption DEF manager, server
<1>1. ASSUME NEW place \in Places, AddInterest(place) PROVE TypeOK'
  <2>1. NextHandle \in Handles /\ Number \in Numbers /\ calls' \in 0 .. MaxCalls
    BY <1>1, HandleUnused, CallType DEF TypeOK, AddInterest
  <2>2. Add(NextHandle, NoContext, place) \in Request
    BY <2>1 DEF Add, Request
  <2> QED BY <1>1, <2>1, <2>2 DEF TypeOK, AddInterest, With, Valid, InterestState, Interest
<1>2. ASSUME NEW place \in Places, AddInterestWithEvent(place) PROVE TypeOK'
  <2>1. NextHandle \in Handles /\ Number \in Numbers /\ calls' \in 0 .. MaxCalls
    BY <1>2, HandleUnused, CallType DEF TypeOK, AddInterestWithEvent
  <2>2. Add(NextHandle, Number, place) \in Request
    BY <2>1 DEF Add, Request
  <2>3. watcher' \in [phase : {"new", "collecting", "stopped"}, group : SUBSET Numbers,
                      heard : SUBSET Numbers, done : BOOLEAN]
    BY <1>2, <2>1, WatcherTypes DEF AddInterestWithEvent
  <2> QED BY <1>2, <2>1, <2>2, <2>3
          DEF TypeOK, AddInterestWithEvent, With, Valid, InterestState, Interest
<1>3. ASSUME NEW place \in Places, AddAutoInterest(place) PROVE TypeOK'
  <2>1. NextHandle \in Handles /\ Number \in Numbers /\ calls' \in 0 .. MaxCalls
    BY <1>3, HandleUnused, CallType DEF TypeOK, AddAutoInterest
  <2> QED BY <1>3, <2>1 DEF TypeOK, AddAutoInterest, With, Valid, InterestState, Interest
<1>4. ASSUME RefuseInterest PROVE TypeOK'
  BY <1>4, HandleUnused DEF TypeOK, RefuseInterest, Valid
<1>5. ASSUME NEW h \in Valid, RemoveInterest(h) PROVE TypeOK'
  <2>1. Number \in Numbers /\ calls' \in 0 .. MaxCalls /\ h \in Handles
    BY <1>5, CallType DEF TypeOK, RemoveInterest
  <2>2. Remove(h, Number) \in Request
    BY <2>1 DEF Remove, Request
  <2>3. watcher' \in [phase : {"new", "collecting", "stopped"}, group : SUBSET Numbers,
                      heard : SUBSET Numbers, done : BOOLEAN]
    BY <1>5, <2>1, WatcherTypes DEF RemoveInterest
  <2>4. Cardinality(interests[h].events) \in Int
    BY EventsFinite DEF TypeOK, Interest
  <2>5. toServer' \in Seq(Request)
    <3>1. toServer' = toServer \/ toServer' = Append(toServer, Remove(h, Number))
      BY <1>5 DEF RemoveInterest
    <3> QED BY <2>2, <3>1 DEF TypeOK
  <2>6. DOMAIN interests' = Valid /\ \A k \in Valid : interests'[k] \in Interest
    <3>1. interests[h].events \cup {Number} \in SUBSET Numbers /\ {Number} \in SUBSET Numbers
      BY <2>1 DEF TypeOK, Interest
    <3>2. CASE interests' = [interests EXCEPT ![h].events = @ \cup {Number}]
      BY <2>1, <3>1, <3>2, SMTT(40) DEF TypeOK, Interest, Valid
    <3>3. CASE interests' = [interests EXCEPT ![h].state = "PendingDel", ![h].context = Number,
                                              ![h].events = {Number}]
      BY <2>1, <3>1, <3>3, SMTT(40) DEF TypeOK, Interest, Valid
    <3> QED BY <1>5, <3>2, <3>3 DEF RemoveInterest
  <2>7. completeEventCount' \in Int
    BY <1>5, <2>4 DEF RemoveInterest, TypeOK
  <2> QED BY <1>5, <2>1, <2>3, <2>5, <2>6, <2>7 DEF TypeOK, RemoveInterest, Valid
<1>6. ASSUME NEW h \in Valid, RemoveAutoInterest(h) PROVE TypeOK'
  <2>1. Cardinality(interests[h].events) \in Int
    BY EventsFinite DEF TypeOK, Interest
  <2>2. DOMAIN interests' \subseteq Valid /\ \A k \in DOMAIN interests' : interests'[k] \in Interest
    <3> DEFINE table == [interests EXCEPT ![h].state = "PendingDel", ![h].events = {}]
    <3>1. DOMAIN table = Valid /\ \A k \in Valid : table[k] \in Interest
      BY ZenonT(40) DEF TypeOK, Interest, Valid
    <3>2. interests' = ConsiderRemoveInterest(table, h)
      BY <1>6 DEF RemoveAutoInterest
    <3> HIDE DEF table
    <3> QED BY <3>1, <3>2 DEF ConsiderRemoveInterest, Restrict
  <2>3. completeEventCount' = completeEventCount - Cardinality(interests[h].events)
    BY <1>6 DEF RemoveAutoInterest
  <2>4. UNCHANGED <<handleSerial, delayed, callbacks, noNewInterests, sending,
                    watcher, calls, losses, toServer, open, done>>
    BY <1>6 DEF RemoveAutoInterest
  <2> QED BY <2>1, <2>2, <2>3, <2>4 DEF TypeOK, Valid
<1>7. ASSUME NEW h \in Valid, NEW place \in Places, AlterInterest(h, place) PROVE TypeOK'
  <2> DEFINE kept == IF interests[h].context = NoContext THEN interests[h].events ELSE {}
  <2>1. Number \in Numbers /\ calls' \in 0 .. MaxCalls /\ h \in Handles
    BY <1>7, CallType DEF TypeOK, AlterInterest
  <2>2. kept \in SUBSET Numbers /\ interests[h].events \in SUBSET Numbers
    BY DEF TypeOK, Interest
  <2>3. Cardinality(interests[h].events \ kept) \in Int
    BY <2>2, EventsFinite
  <2>4. Add(h, Number, place) \in Request
    BY <2>1 DEF Add, Request
  <2>5. /\ interests' = [interests EXCEPT ![h].place = place, ![h].context = Number,
                                          ![h].events = kept \cup {Number}]
        /\ completeEventCount' = completeEventCount - Cardinality(interests[h].events \ kept) + 1
    BY <1>7 DEF AlterInterest
  <2> HIDE DEF kept
  <2>6. DOMAIN interests' = Valid /\ \A k \in Valid : interests'[k] \in Interest
    BY <2>1, <2>2, <2>5, SMTT(40) DEF TypeOK, Interest, Valid
  <2> QED BY <1>7, <2>1, <2>3, <2>4, <2>5, <2>6, SMTT(40) DEF TypeOK, AlterInterest, Valid
<1>8. ASSUME NEW flag \in BOOLEAN, SetNoNewInterests(flag) PROVE TypeOK'
  BY <1>8 DEF TypeOK, SetNoNewInterests, Valid
<1>9. ASSUME NEW cb \in Callbacks, SetCallback(cb) \/ RemoveCallback(cb) PROVE TypeOK'
  BY <1>9 DEF TypeOK, SetCallback, RemoveCallback, Valid
<1>10. ASSUME QueueAllInterestsCompleteEvent PROVE TypeOK'
  BY <1>10, CallType DEF TypeOK, QueueAllInterestsCompleteEvent, Queued, Valid
<1>11. ASSUME StartCollect \/ StopCollect PROVE TypeOK'
  BY <1>11 DEF TypeOK, StartCollect, StopCollect, Valid
<1>12. ASSUME NEW h, NEW c, HandleInterestDone(h, c) PROVE TypeOK'
  <2>1. done' \subseteq Handles \X Numbers
    BY <1>12 DEF TypeOK, HandleInterestDone
  <2>2. delayed' \in {Unset, Over} \cup 0 .. Frames - 1
    BY <1>12 DEF TypeOK, HandleInterestDone, CheckAllComplete, Queued
  <2>3. CASE Answered(h, c)
    <3>1. h \in Valid /\ interests[h].events \in SUBSET Numbers
      BY <2>3 DEF Answered, TypeOK, Interest
    <3>2. /\ interests' = Completed(h)
          /\ completeEventCount' = completeEventCount - Cardinality(interests[h].events)
          /\ sending' \in BOOLEAN
          /\ Hear(interests[h].events)
      BY <1>12, <2>3 DEF HandleInterestDone
    <3>3. Cardinality(interests[h].events) \in Int
      BY <3>1, EventsFinite
    <3>4. watcher' \in [phase : {"new", "collecting", "stopped"}, group : SUBSET Numbers,
                        heard : SUBSET Numbers, done : BOOLEAN]
      BY <3>1, <3>2, WatcherTypes
    <3>5. DOMAIN interests' \subseteq Valid /\ \A k \in DOMAIN interests' : interests'[k] \in Interest
      <4> DEFINE table == [interests EXCEPT ![h].context = NoContext, ![h].events = {}]
      <4>1. DOMAIN table = Valid /\ \A k \in Valid : table[k] \in Interest
        <5>1. NoContext \in {NoContext} \cup Numbers /\ {} \in SUBSET Numbers
          OBVIOUS
        <5>2. DOMAIN interests = Valid /\ \A k \in Valid : interests[k] \in Interest
          BY DEF TypeOK, Valid
        <5> QED BY <3>1, <5>1, <5>2, ZenonT(40) DEF Interest
      <4>2. interests' = ConsiderRemoveInterest(table, h)
        BY <3>2 DEF Completed
      <4> HIDE DEF table
      <4> QED BY <4>1, <4>2 DEF ConsiderRemoveInterest, Restrict
    <3> QED BY <1>12, <2>1, <2>2, <3>2, <3>3, <3>4, <3>5, SMTT(40) DEF TypeOK, HandleInterestDone, Valid
  <2>4. CASE ~Answered(h, c)
    BY <1>12, <2>1, <2>2, <2>4 DEF TypeOK, HandleInterestDone, Valid
  <2> QED BY <2>3, <2>4
<1>13. ASSUME FinishInterestDone PROVE TypeOK'
  <2>1. delayed' \in {Unset, Over} \cup 0 .. Frames - 1
    BY <1>13 DEF TypeOK, FinishInterestDone, CheckAllComplete, Queued
  <2>2. sending' = FALSE /\ UNCHANGED <<interests, handleSerial, completeEventCount, callbacks,
                                        noNewInterests, watcher, calls, losses, toServer, open, done>>
    BY <1>13 DEF FinishInterestDone
  <2> QED BY <2>1, <2>2 DEF TypeOK, Valid
<1>14. ASSUME Frame PROVE TypeOK'
  BY <1>14, SMTT(40) DEF TypeOK, Frame, Valid, Unset, Over
<1>15. ASSUME LoseConnection PROVE TypeOK'
  BY <1>15 DEF TypeOK, LoseConnection, Valid
<1>16. ASSUME ServerStep PROVE TypeOK'
  <2> DEFINE m == Head(toServer)
  <2>1. m \in Request /\ toServer' \in Seq(Request)
    BY <1>16 DEF TypeOK, ServerStep
  <2>2. /\ open' = IF m.kind = "add" THEN With(open, m.handle, m.place)
                   ELSE Restrict(open, DOMAIN open \ {m.handle})
        /\ done' = IF m.context = NoContext THEN done
                   ELSE done \cup {<<m.handle, m.context>>}
    BY <1>16 DEF ServerStep
  <2> HIDE DEF m
  <2>3. m.handle \in Handles /\ m.context \in {NoContext} \cup Numbers
          /\ (m.kind = "add" => m.place \in Places)
    BY <2>1 DEF Request
  <2>4. DOMAIN open' \subseteq Handles /\ \A k \in DOMAIN open' : open'[k] \in Places
    BY <2>2, <2>3 DEF TypeOK, With, Restrict
  <2>5. done' \subseteq Handles \X Numbers
    BY <2>2, <2>3 DEF TypeOK
  <2> QED BY <1>16, <2>1, <2>4, <2>5 DEF TypeOK, ServerStep, Valid
<1>17. ASSUME UNCHANGED vars PROVE TypeOK'
  BY <1>17 DEF TypeOK, vars, Valid
<1> QED BY <1>1, <1>2, <1>3, <1>4, <1>5, <1>6, <1>7, <1>8, <1>9, <1>10, <1>11, <1>12,
          <1>13, <1>14, <1>15, <1>16, <1>17 DEF Next, GameStep, HandleDatagram

(* The tables of the manager, the requests and the answers hold what the   *)
(* code puts there, and a handle is always below the mask (_getNextHandle).*)
THEOREM InterestTypes == Spec => []TypeOK
<1> QED BY TypeInit, TypeStep, PTL DEF Spec

-------------------------------------------------------------------------------
(* What interests wait for                                                 *)

LEMMA RequestFields ==
  ASSUME TypeOK, NEW i \in DOMAIN toServer
  PROVE  toServer[i].handle \in Handles /\ toServer[i].context \in Nat
BY BoundsAssumption DEF TypeOK, Request, Numbers, NoContext

(* A request is sent, and its interest is set to wait for it.              *)
LEMMA SendStep ==
  ASSUME IInv, TypeOK', NEW m \in Request, NEW h \in Handles, m.handle = h,
         toServer' = Append(toServer, m), open' = open, done' = done, calls' = calls + 1,
         m.context \in {NoContext, calls + 1},
         Valid' = Valid \cup {h},
         \A k \in Valid \ {h} : interests'[k] = interests[k],
         ~interests'[h].auto, Agree(m, interests'[h]),
         interests'[h].events # {} \/ interests'[h].state = "PendingDel" => m.context # NoContext
  PROVE  Waiting'
<1>1. PICK n \in Nat :
        /\ DOMAIN toServer = 1 .. n /\ DOMAIN toServer' = 1 .. n + 1
        /\ \A i \in 1 .. n : toServer'[i] = toServer[i]
        /\ toServer'[n + 1] = m
  <2>1. Len(toServer) \in Nat
    BY DEF IInv, TypeOK
  <2> QED BY <2>1 DEF IInv, TypeOK
<1>2. RequestsFor(h)' = RequestsFor(h) \cup {n + 1}
  BY <1>1 DEF RequestsFor
<1>3. \A k \in Handles : k # h => RequestsFor(k)' = RequestsFor(k)
  BY <1>1 DEF RequestsFor
<1>4. Valid \subseteq Handles
  BY DEF IInv, TypeOK
<1>5. AnswerComing'
  <2> SUFFICES ASSUME NEW k \in Valid', NEW c, c = interests'[k].context
               PROVE  /\ interests'[k].events # {} \/ interests'[k].state = "PendingDel" =>
                           c # NoContext
                      /\ c # NoContext => UnderWay(k, c)'
    BY DEF AnswerComing, Pending, UnderWay
  <2>1. CASE k = h
    <3>1. c = m.context
      BY <2>1 DEF Agree
    <3>2. UnderWay(k, c)'
      BY <1>1, <2>1, <3>1 DEF UnderWay
    <3> QED BY <2>1, <3>1, <3>2
  <2>2. CASE k # h
    <3>1. k \in Valid /\ interests'[k] = interests[k]
      BY <2>2
    <3>2. ASSUME UnderWay(k, c) PROVE UnderWay(k, c)'
      BY <1>1, <3>1, <3>2 DEF UnderWay
    <3> QED BY <3>1, <3>2 DEF IInv, Waiting, AnswerComing, Pending
  <2> QED BY <2>1, <2>2
<1>6. ServerFollows'
  <2> SUFFICES ASSUME NEW k \in Valid', interests'[k].state = "Active", ~interests'[k].auto,
                      RequestsFor(k)' = {}
               PROVE  k \in DOMAIN open' /\ open'[k] = interests'[k].place
    BY DEF ServerFollows
  <2>1. k # h
    BY <1>2
  <2>2. k \in Valid /\ interests'[k] = interests[k] /\ RequestsFor(k) = {}
    BY <1>3, <1>4, <2>1
  <2> QED BY <2>2 DEF IInv, Waiting, ServerFollows
<1>7. Latest'
  <2> SUFFICES ASSUME NEW k \in Handles, RequestsFor(k)' # {}
               PROVE  /\ k \in Valid' /\ ~interests'[k].auto
                      /\ \E i \in DOMAIN toServer' : Last(i, k)' /\ Agree(toServer'[i], interests'[k])
    BY DEF Latest, Agree
  <2>1. CASE k = h
    <3>1. Last(n + 1, h)'
      <4>1. \A j \in RequestsFor(h) : j \in 1 .. n
        BY <1>1 DEF RequestsFor
      <4>2. \A j \in RequestsFor(h)' : j <= n + 1
        BY <1>1, <1>2, <4>1
      <4>3. n + 1 \in RequestsFor(h)'
        BY <1>2
      <4> QED BY <4>2, <4>3 DEF Last
    <3> QED BY <1>1, <2>1, <3>1
  <2>2. CASE k # h
    <3>1. k \in Valid /\ ~interests[k].auto
      BY <1>3, <2>2 DEF IInv, Waiting, Latest
    <3>2. PICK i \in DOMAIN toServer : Last(i, k) /\ Agree(toServer[i], interests[k])
      BY <1>3, <2>2 DEF IInv, Waiting, Latest
    <3>3. Last(i, k)'
      BY <1>3, <2>2, <3>2 DEF Last
    <3> QED BY <1>1, <2>2, <3>1, <3>2, <3>3
  <2> QED BY <2>1, <2>2
<1>8. ContextsOnce'
  <2>1. calls \in Nat /\ NoContext = 0
    BY BoundsAssumption DEF IInv, TypeOK, NoContext
  <2>2. \A i \in 1 .. n : toServer[i].context \in Nat /\ toServer[i].context <= calls
    BY <1>1, RequestFields DEF IInv, Waiting, ContextsOnce
  <2>3. \A i \in DOMAIN toServer' : toServer'[i].context <= calls'
    BY <1>1, <2>1, <2>2
  <2>4. ASSUME NEW i \in DOMAIN toServer', NEW j \in DOMAIN toServer',
               toServer'[i].context = toServer'[j].context, toServer'[i].context # NoContext
        PROVE  i = j
    <3>1. CASE i \in 1 .. n /\ j \in 1 .. n
      BY <1>1, <2>4, <3>1 DEF IInv, Waiting, ContextsOnce
    <3>2. CASE i = n + 1 \/ j = n + 1
      BY <1>1, <2>1, <2>2, <2>4, <3>2
    <3> QED BY <1>1, <3>1, <3>2
  <2>5. ASSUME NEW answer \in done
        PROVE  answer[2] <= calls' /\ \A i \in DOMAIN toServer' : toServer'[i].context # answer[2]
    <3>1. answer[2] \in Numbers /\ answer[2] <= calls
      BY DEF IInv, TypeOK, Waiting, ContextsOnce
    <3>2. answer[2] # m.context
      BY <2>1, <3>1 DEF Numbers
    <3>3. \A i \in 1 .. n : toServer[i].context # answer[2]
      BY <1>1 DEF IInv, Waiting, ContextsOnce
    <3> QED BY <1>1, <2>1, <3>1, <3>2, <3>3 DEF Numbers
  <2> QED BY <2>3, <2>4, <2>5 DEF ContextsOnce
<1>9. AutoIdle'
  BY DEF AutoIdle, IInv, Waiting
<1> QED BY <1>5, <1>6, <1>7, <1>8, <1>9 DEF Waiting

(* Nothing is sent: an interest stays as it is, but for its events while   *)
(* it waits, or has nothing to wait for any more.                          *)
Same(k) ==
  /\ k \in Valid
  /\ interests'[k].auto = interests[k].auto
  /\ interests'[k].place = interests[k].place
  /\ interests'[k].state = interests[k].state
  /\ interests'[k].context = interests[k].context
  /\ interests'[k].events # {} => interests[k].context # NoContext
  /\ <<k, interests[k].context>> \in done => <<k, interests[k].context>> \in done'

Idle(k) ==
  /\ RequestsFor(k) = {}
  /\ interests'[k].context = NoContext
  /\ interests'[k].events = {}
  /\ interests'[k].state = "Active"
  /\ \/ interests'[k].auto
     \/ k \in Valid /\ interests'[k] = [interests[k] EXCEPT !.context = NoContext, !.events = {}]
          /\ interests[k].state = "Active" /\ ~interests[k].auto

LEMMA RestStep ==
  ASSUME IInv, TypeOK', toServer' = toServer, open' = open, done' \subseteq done,
         calls' \in {calls, calls + 1},
         \A k \in Valid' : Same(k) \/ Idle(k),
         \A k \in Handles \ Valid' : RequestsFor(k) = {}
  PROVE  Waiting'
<1>1. \A k \in Handles : RequestsFor(k)' = RequestsFor(k)
  BY DEF RequestsFor
<1>2. Valid' \subseteq Handles /\ \A k \in Valid : interests[k] \in Interest
  BY DEF IInv, TypeOK
<1>3. AnswerComing'
  <2> SUFFICES ASSUME NEW k \in Valid', NEW c, c = interests'[k].context
               PROVE  /\ interests'[k].events # {} \/ interests'[k].state = "PendingDel" =>
                           c # NoContext
                      /\ c # NoContext => UnderWay(k, c)'
    BY DEF AnswerComing, Pending, UnderWay
  <2>1. CASE Same(k)
    BY <2>1 DEF Same, IInv, Waiting, AnswerComing, Pending, UnderWay
  <2>2. CASE Idle(k)
    BY <2>2 DEF Idle, Pending
  <2> QED BY <2>1, <2>2
<1>4. ServerFollows'
  <2> SUFFICES ASSUME NEW k \in Valid', interests'[k].state = "Active", ~interests'[k].auto,
                      RequestsFor(k) = {}
               PROVE  k \in DOMAIN open /\ open[k] = interests'[k].place
    BY <1>1, <1>2 DEF ServerFollows
  <2>1. CASE Same(k)
    BY <2>1 DEF Same, IInv, Waiting, ServerFollows
  <2>2. CASE Idle(k)
    BY <1>2, <2>2, ZenonT(40) DEF Idle, IInv, Waiting, ServerFollows, Interest
  <2> QED BY <2>1, <2>2
<1>5. Latest'
  <2> SUFFICES ASSUME NEW k \in Handles, RequestsFor(k) # {}
               PROVE  /\ k \in Valid' /\ ~interests'[k].auto
                      /\ \E i \in DOMAIN toServer : Last(i, k)' /\ Agree(toServer[i], interests'[k])
    BY <1>1 DEF Latest, Agree
  <2>1. k \in Valid' /\ Same(k)
    BY DEF Idle
  <2>2. PICK i \in DOMAIN toServer : Last(i, k) /\ Agree(toServer[i], interests[k])
    BY DEF IInv, Waiting, Latest
  <2>3. Last(i, k)'
    BY <1>1, <2>2 DEF Last
  <2> QED BY <2>1, <2>2, <2>3 DEF Same, Agree, IInv, Waiting, Latest
<1>6. ContextsOnce'
  <2>1. calls \in Nat
    BY BoundsAssumption DEF IInv, TypeOK
  <2>2. \A i \in DOMAIN toServer : toServer[i].context \in Nat
    BY RequestFields DEF IInv
  <2>3. \A answer \in done : answer[2] \in Nat
    BY DEF IInv, TypeOK, Numbers
  <2> QED BY <2>1, <2>2, <2>3 DEF ContextsOnce, IInv, Waiting
<1>7. AutoIdle'
  BY DEF AutoIdle, IInv, Waiting, Same, Idle
<1> QED BY <1>3, <1>4, <1>5, <1>6, <1>7 DEF Waiting

(* The server takes the first request.                                     *)
LEMMA ServeStep ==
  ASSUME IInv, TypeOK', ServerStep
  PROVE  Waiting'
<1> DEFINE m == Head(toServer)
<1>1. /\ m \in Request
      /\ interests' = interests /\ calls' = calls
      /\ open' = IF m.kind = "add" THEN With(open, m.handle, m.place)
                 ELSE Restrict(open, DOMAIN open \ {m.handle})
      /\ done' = IF m.context = NoContext THEN done ELSE done \cup {<<m.handle, m.context>>}
  BY DEF IInv, TypeOK, ServerStep, manager
<1>2. PICK r \in Request : r = m
  BY <1>1
<1>3. PICK n \in Nat :
        /\ DOMAIN toServer = 1 .. n + 1 /\ DOMAIN toServer' = 1 .. n
        /\ \A i \in 1 .. n : toServer'[i] = toServer[i + 1]
        /\ toServer[1] = r
  <2>1. /\ toServer \in Seq(Request) /\ toServer # <<>> /\ toServer' = Tail(toServer)
    BY DEF IInv, TypeOK, ServerStep
  <2>2. Len(toServer) - 1 \in Nat
    BY <2>1
  <2> QED BY <1>2, <2>1, <2>2
<1>4. /\ open' = IF r.kind = "add" THEN With(open, r.handle, r.place)
                 ELSE Restrict(open, DOMAIN open \ {r.handle})
      /\ done' = IF r.context = NoContext THEN done ELSE done \cup {<<r.handle, r.context>>}
  BY <1>1, <1>2
<1> HIDE DEF m
<1>5. \A k \in Handles : RequestsFor(k)' = {i \in 1 .. n : i + 1 \in RequestsFor(k)}
  BY <1>3 DEF RequestsFor
<1>6. Valid' = Valid /\ Valid \subseteq Handles
  BY <1>1 DEF Valid, IInv, TypeOK
<1>7. AnswerComing'
  <2> SUFFICES ASSUME NEW k \in Valid, NEW c, c = interests[k].context
               PROVE  /\ interests[k].events # {} \/ interests[k].state = "PendingDel" =>
                           c # NoContext
                      /\ c # NoContext => UnderWay(k, c)'
    BY <1>1, <1>6 DEF AnswerComing, Pending, UnderWay
  <2>1. ASSUME c # NoContext, UnderWay(k, c) PROVE UnderWay(k, c)'
    <3>1. CASE <<k, c>> \in done
      BY <1>4, <3>1 DEF UnderWay
    <3>2. ASSUME NEW i \in DOMAIN toServer, toServer[i].handle = k, toServer[i].context = c
          PROVE  UnderWay(k, c)'
      <4>1. CASE i = 1
        BY <1>3, <1>4, <2>1, <3>2, <4>1 DEF UnderWay
      <4>2. CASE i # 1
        <5>1. i - 1 \in 1 .. n /\ toServer'[i - 1] = toServer[i]
          BY <1>3, <3>2, <4>2
        <5> QED BY <1>3, <3>2, <5>1 DEF UnderWay
      <4> QED BY <4>1, <4>2
    <3> QED BY <2>1, <3>1, <3>2 DEF UnderWay
  <2> QED BY <2>1 DEF IInv, Waiting, AnswerComing, Pending
<1>8. ServerFollows'
  <2> SUFFICES ASSUME NEW k \in Valid, interests[k].state = "Active", ~interests[k].auto,
                      RequestsFor(k)' = {}
               PROVE  k \in DOMAIN open' /\ open'[k] = interests[k].place
    BY <1>1, <1>6 DEF ServerFollows
  <2>1. CASE RequestsFor(k) = {}
    <3>1. k # r.handle
      BY <1>3, <2>1 DEF RequestsFor
    <3>2. k \in DOMAIN open /\ open[k] = interests[k].place
      BY <2>1 DEF IInv, Waiting, ServerFollows
    <3> QED BY <1>4, <3>1, <3>2 DEF With, Restrict
  <2>2. CASE RequestsFor(k) # {}
    <3>1. PICK i \in DOMAIN toServer : Last(i, k) /\ Agree(toServer[i], interests[k])
      BY <1>6, <2>2 DEF IInv, Waiting, Latest
    <3>2. i = 1
      <4>1. CASE i # 1
        <5>1. i - 1 \in 1 .. n /\ (i - 1) + 1 \in RequestsFor(k)
          BY <1>3, <3>1, <4>1 DEF Last
        <5> QED BY <1>5, <1>6, <5>1
      <4> QED BY <4>1
    <3>3. r.handle = k /\ r.kind = "add" /\ r.place = interests[k].place
      BY <1>3, <3>1, <3>2 DEF Last, RequestsFor, Agree
    <3> QED BY <1>4, <3>3 DEF With
  <2> QED BY <2>1, <2>2
<1>9. Latest'
  <2> SUFFICES ASSUME NEW k \in Handles, RequestsFor(k)' # {}
               PROVE  /\ k \in Valid /\ ~interests[k].auto
                      /\ \E i \in DOMAIN toServer' : Last(i, k)' /\ Agree(toServer'[i], interests[k])
    BY <1>1, <1>6 DEF Latest, Agree
  <2>1. PICK j \in 1 .. n : j + 1 \in RequestsFor(k)
    BY <1>5
  <2>2. k \in Valid /\ ~interests[k].auto
    BY <2>1 DEF IInv, Waiting, Latest
  <2>3. PICK i \in DOMAIN toServer : Last(i, k) /\ Agree(toServer[i], interests[k])
    BY <2>1 DEF IInv, Waiting, Latest
  <2>4. i \in 1 .. n + 1 /\ j + 1 <= i
    BY <1>3, <2>1, <2>3 DEF Last
  <2>5. PICK p \in 1 .. n : i = p + 1
    <3>1. i - 1 \in 1 .. n /\ i = (i - 1) + 1
      BY <2>4
    <3> QED BY <3>1
  <2>6. Last(p, k)'
    <3>1. p \in RequestsFor(k)'
      BY <1>5, <2>3, <2>5 DEF Last
    <3>2. \A q \in RequestsFor(k)' : q <= p
      BY <1>5, <2>3, <2>5 DEF Last
    <3> QED BY <3>1, <3>2 DEF Last
  <2> QED BY <1>3, <2>2, <2>3, <2>5, <2>6
<1>10. ContextsOnce'
  <2>1. \A i \in DOMAIN toServer' : i + 1 \in DOMAIN toServer /\ toServer'[i] = toServer[i + 1]
    BY <1>3
  <2>2. \A i, j \in DOMAIN toServer' :
          toServer'[i].context = toServer'[j].context /\ toServer'[i].context # NoContext => i = j
    <3> SUFFICES ASSUME NEW i \in DOMAIN toServer', NEW j \in DOMAIN toServer',
                        toServer'[i].context = toServer'[j].context,
                        toServer'[i].context # NoContext
                 PROVE  i = j
      OBVIOUS
    <3>1. i + 1 = j + 1
      BY <2>1 DEF IInv, Waiting, ContextsOnce
    <3> QED BY <1>3, <3>1
  <2>3. \A answer \in done :
          answer[2] <= calls /\ \A i \in DOMAIN toServer' : toServer'[i].context # answer[2]
    BY <2>1 DEF IInv, Waiting, ContextsOnce
  <2>4. r.context # NoContext =>
          r.context <= calls /\ \A i \in DOMAIN toServer' : toServer'[i].context # r.context
    <3>1. 1 \in DOMAIN toServer /\ \A i \in DOMAIN toServer' : i + 1 # 1
      BY <1>3
    <3> QED BY <1>3, <2>1, <3>1 DEF IInv, Waiting, ContextsOnce
  <2>5. \A i \in DOMAIN toServer' : toServer'[i].context <= calls
    BY <2>1 DEF IInv, Waiting, ContextsOnce
  <2>6. \A answer \in done' : answer \in done \/ (r.context # NoContext /\ answer[2] = r.context)
    BY <1>4
  <2> QED BY <1>1, <2>2, <2>3, <2>4, <2>5, <2>6 DEF ContextsOnce
<1>11. AutoIdle'
  BY <1>1, <1>6 DEF AutoIdle, IInv, Waiting
<1> QED BY <1>7, <1>8, <1>9, <1>10, <1>11 DEF Waiting

(* An answer with the context of its interest: the server has read all     *)
(* requests about it.                                                      *)
LEMMA AnsweredServed ==
  ASSUME IInv, NEW h, NEW c, <<h, c>> \in done, Answered(h, c)
  PROVE  h \in Valid /\ c \in Numbers /\ RequestsFor(h) = {}
<1>1. h \in Valid /\ h \in Handles /\ c \in Numbers /\ interests[h].context = c
  BY DEF IInv, TypeOK, Answered
<1>2. CASE RequestsFor(h) # {}
  <2>1. PICK i \in DOMAIN toServer : Last(i, h) /\ Agree(toServer[i], interests[h])
    BY <1>1, <1>2 DEF IInv, Waiting, Latest
  <2>2. toServer[i].context = c
    BY <1>1, <2>1 DEF Agree
  <2> QED BY <2>2 DEF IInv, Waiting, ContextsOnce
<1> QED BY <1>1, <1>2

LEMMA WaitingStep ==
  ASSUME IInv, TypeOK', [Next]_vars
  PROVE  Waiting'
<1> USE DEF manager, server
<1>1. /\ Valid \subseteq Handles /\ \A k \in Valid : interests[k] \in Interest
      /\ calls \in Nat /\ NoContext = 0 /\ handleSerial \in Handles
  BY BoundsAssumption DEF IInv, TypeOK, NoContext
<1>2. \A k \in Valid : interests[k].events # {} => interests[k].context # NoContext
  BY DEF IInv, Waiting, AnswerComing
<1>3. \A k \in Handles \ Valid : RequestsFor(k) = {}
  BY DEF IInv, Waiting, Latest
<1>4. \A k \in Valid : interests[k].auto => RequestsFor(k) = {}
  BY <1>1 DEF IInv, Waiting, Latest
<1>5. ASSUME toServer' = toServer, open' = open, done' \subseteq done,
             calls' \in {calls, calls + 1}, interests' = interests,
             \A k \in Valid : <<k, interests[k].context>> \in done =>
                                <<k, interests[k].context>> \in done'
      PROVE  Waiting'
  <2>1. Valid' = Valid /\ \A k \in Valid : Same(k)
    BY <1>2, <1>5 DEF Valid, Same
  <2> QED BY <1>3, <1>5, <2>1, RestStep
<1>6. ASSUME NEW place \in Places, AddInterest(place) \/ AddInterestWithEvent(place)
      PROVE  Waiting'
  <2>1. PICK h \in Handles \ Valid : h = NextHandle
    BY <1>1, <1>6, HandleUnused DEF AddInterest, AddInterestWithEvent
  <2>2. Number \in Numbers /\ calls' = calls + 1 /\ Number = calls + 1
    BY <1>6, CallType DEF IInv, AddInterest, AddInterestWithEvent, Number
  <2>3. PICK c \in {NoContext, calls + 1}, E \in {{}, {calls + 1}} :
          /\ interests' = With(interests, h, InterestState(c, E, place, FALSE))
          /\ toServer' = Append(toServer, Add(h, c, place))
          /\ E # {} => c # NoContext
    <3>1. CASE AddInterest(place)
      BY <2>1, <3>1 DEF AddInterest
    <3>2. CASE AddInterestWithEvent(place)
      <4>1. /\ interests' = With(interests, h, InterestState(calls + 1, {calls + 1}, place, FALSE))
            /\ toServer' = Append(toServer, Add(h, calls + 1, place))
        BY <2>1, <2>2, <3>2 DEF AddInterestWithEvent
      <4>2. calls + 1 # NoContext
        BY <1>1
      <4> QED BY <4>1, <4>2
    <3> QED BY <1>6, <3>1, <3>2
  <2>4. PICK m \in Request : m = Add(h, c, place)
    BY <2>2 DEF Add, Request
  <2>5. m.handle = h /\ m.context = c /\ m.kind = "add" /\ m.place = place
    BY <2>4 DEF Add
  <2>6. /\ Valid' = Valid \cup {h} /\ interests'[h] = InterestState(c, E, place, FALSE)
        /\ \A k \in Valid \ {h} : interests'[k] = interests[k]
    BY <2>3 DEF With, Valid
  <2>7. /\ ~interests'[h].auto /\ Agree(m, interests'[h])
        /\ interests'[h].events # {} \/ interests'[h].state = "PendingDel" => m.context # NoContext
    <3>1. /\ interests'[h].auto = FALSE /\ interests'[h].context = c /\ interests'[h].place = place
          /\ interests'[h].events = E /\ interests'[h].state = "Active"
      BY <2>6 DEF InterestState
    <3>2. Agree(m, interests'[h])
      BY <2>5, <3>1 DEF Agree
    <3> QED BY <2>3, <2>5, <3>1, <3>2
  <2>8. open' = open /\ done' = done /\ toServer' = Append(toServer, m)
    BY <1>6, <2>3, <2>4 DEF AddInterest, AddInterestWithEvent
  <2> QED BY <2>2, <2>5, <2>6, <2>7, <2>8, SendStep
<1>7. ASSUME NEW place \in Places, AddAutoInterest(place) PROVE Waiting'
  <2>1. PICK h \in Handles \ Valid : h = NextHandle
    BY <1>1, <1>7, HandleUnused DEF AddAutoInterest
  <2>2. interests' = With(interests, h, InterestState(NoContext, {}, place, TRUE))
    BY <1>7, <2>1 DEF AddAutoInterest
  <2>3. toServer' = toServer /\ open' = open /\ done' = done /\ calls' = calls + 1
    BY <1>7 DEF AddAutoInterest, Call, Number
  <2>4. Valid' = Valid \cup {h} /\ \A k \in Valid : interests'[k] = interests[k]
    BY <2>1, <2>2 DEF With, Valid
  <2>5. \A k \in Valid : Same(k)
    BY <1>2, <2>3, <2>4 DEF Same
  <2>6. interests'[h] = InterestState(NoContext, {}, place, TRUE)
    BY <2>2 DEF With
  <2>7. Idle(h)
    BY <1>3, <2>1, <2>6 DEF Idle, InterestState
  <2> QED BY <1>3, <2>3, <2>4, <2>5, <2>7, RestStep
<1>8. ASSUME NEW h \in Valid, RemoveInterest(h) PROVE Waiting'
  <2>1. Number \in Numbers /\ calls' = calls + 1 /\ Number = calls + 1
    BY <1>8, CallType DEF IInv, RemoveInterest, Number
  <2>2. ~interests[h].auto /\ open' = open /\ done' = done
    BY <1>8 DEF RemoveInterest
  <2>3. CASE Pending(h) /\ interests' = [interests EXCEPT ![h].events = @ \cup {Number}]
               /\ toServer' = toServer
    <3>1. Valid' = Valid /\ interests[h].context # NoContext
      BY <2>3 DEF Valid, IInv, Waiting, AnswerComing
    <3>2. \A k \in Valid : Same(k)
      <4> SUFFICES ASSUME NEW k \in Valid PROVE Same(k)
        OBVIOUS
      <4>1. CASE k = h
        BY <1>1, <2>2, <2>3, <3>1, <4>1 DEF Same, Interest, Valid
      <4>2. CASE k # h
        BY <1>2, <2>2, <2>3, <4>2 DEF Same, Valid
      <4> QED BY <4>1, <4>2
    <3> QED BY <1>3, <2>1, <2>2, <2>3, <3>1, <3>2, RestStep
  <2>4. CASE interests' = [interests EXCEPT ![h].state = "PendingDel", ![h].context = Number,
                                            ![h].events = {Number}]
               /\ toServer' = Append(toServer, Remove(h, Number))
    <3>1. PICK m \in Request : m = Remove(h, Number)
      BY <1>1, <2>1 DEF Remove, Request
    <3>2. m.handle = h /\ m.context = calls + 1
      BY <2>1, <3>1 DEF Remove
    <3>3. Valid' = Valid \cup {h} /\ \A k \in Valid \ {h} : interests'[k] = interests[k]
      BY <2>4 DEF Valid
    <3>4. /\ interests'[h].auto = interests[h].auto /\ interests'[h].state = "PendingDel"
          /\ interests'[h].context = calls + 1
      BY <1>1, <2>1, <2>4 DEF Valid, Interest
    <3>5. calls + 1 # NoContext
      BY <1>1
    <3>6. toServer' = Append(toServer, m) /\ h \in Handles /\ Agree(m, interests'[h])
      BY <1>1, <2>4, <3>1, <3>2, <3>4 DEF Agree
    <3> QED BY <2>1, <2>2, <3>2, <3>3, <3>4, <3>5, <3>6, SendStep
  <2> QED BY <1>8, <2>3, <2>4 DEF RemoveInterest
<1>9. ASSUME NEW h \in Valid, RemoveAutoInterest(h) PROVE Waiting'
  <2> DEFINE table == [interests EXCEPT ![h].state = "PendingDel", ![h].events = {}]
  <2>1. interests[h].auto /\ interests[h].context = NoContext /\ RequestsFor(h) = {}
    BY <1>4, <1>9 DEF RemoveAutoInterest, IInv, Waiting, AutoIdle
  <2>2. table[h].state = "PendingDel" /\ table[h].context = NoContext /\ DOMAIN table = Valid
          /\ \A k \in Valid \ {h} : table[k] = interests[k]
    BY <1>1, <2>1 DEF Interest, Valid
  <2>3. interests' = ConsiderRemoveInterest(table, h)
    BY <1>9 DEF RemoveAutoInterest
  <2> HIDE DEF table
  <2>4. Valid' = Valid \ {h} /\ \A k \in Valid \ {h} : interests'[k] = interests[k]
    BY <2>2, <2>3 DEF ConsiderRemoveInterest, Restrict, Valid
  <2>5. toServer' = toServer /\ open' = open /\ done' = done /\ calls' = calls
    BY <1>9 DEF RemoveAutoInterest
  <2>6. \A k \in Valid' : Same(k)
    BY <1>2, <2>4, <2>5 DEF Same
  <2>7. \A k \in Handles \ Valid' : RequestsFor(k) = {}
    BY <1>3, <2>1, <2>4
  <2> QED BY <2>5, <2>6, <2>7, RestStep
<1>10. ASSUME NEW h \in Valid, NEW place \in Places, AlterInterest(h, place) PROVE Waiting'
  <2>1. Number \in Numbers /\ calls' = calls + 1 /\ Number = calls + 1
    BY <1>10, CallType DEF IInv, AlterInterest, Number
  <2>2. PICK E \in SUBSET Numbers :
          interests' = [interests EXCEPT ![h].place = place, ![h].context = Number, ![h].events = E]
    <3> DEFINE kept == IF interests[h].context = NoContext THEN interests[h].events ELSE {}
    <3>1. kept \cup {Number} \in SUBSET Numbers
      BY <1>1, <2>1 DEF Interest
    <3>2. interests' = [interests EXCEPT ![h].place = place, ![h].context = Number,
                                         ![h].events = kept \cup {Number}]
      BY <1>10 DEF AlterInterest
    <3> QED BY <3>1, <3>2
  <2>3. /\ ~interests[h].auto /\ open' = open /\ done' = done
        /\ toServer' = Append(toServer, Add(h, Number, place))
    BY <1>10 DEF AlterInterest
  <2>4. PICK m \in Request : m = Add(h, Number, place)
    BY <1>1, <2>1 DEF Add, Request
  <2>5. m.handle = h /\ m.context = calls + 1 /\ m.kind = "add" /\ m.place = place
    BY <2>1, <2>4 DEF Add
  <2>6. Valid' = Valid \cup {h} /\ \A k \in Valid \ {h} : interests'[k] = interests[k]
    BY <2>2 DEF Valid
  <2>7. /\ interests'[h].auto = interests[h].auto /\ interests'[h].place = place
        /\ interests'[h].context = calls + 1
    BY <1>1, <2>1, <2>2 DEF Valid, Interest
  <2>8. calls + 1 # NoContext /\ h \in Handles
    BY <1>1
  <2>9. toServer' = Append(toServer, m) /\ Agree(m, interests'[h])
    BY <2>3, <2>4, <2>5, <2>7 DEF Agree
  <2> QED BY <2>1, <2>3, <2>5, <2>6, <2>7, <2>8, <2>9, SendStep
<1>11. ASSUME NEW h, NEW c, HandleInterestDone(h, c) PROVE Waiting'
  <2>1. /\ <<h, c>> \in done /\ done' = done \ {<<h, c>>}
        /\ toServer' = toServer /\ open' = open /\ calls' = calls
    BY <1>11 DEF HandleInterestDone
  <2>2. CASE ~Answered(h, c)
    <3>1. interests' = interests
      BY <1>11, <2>2 DEF HandleInterestDone
    <3>2. \A k \in Valid : <<k, interests[k].context>> # <<h, c>>
      BY <2>2 DEF Answered
    <3> QED BY <1>5, <2>1, <3>1, <3>2
  <2>3. CASE Answered(h, c)
    <3> DEFINE table == [interests EXCEPT ![h].context = NoContext, ![h].events = {}]
    <3>1. h \in Valid /\ RequestsFor(h) = {}
      BY <2>1, <2>3, AnsweredServed
    <3>2. /\ table[h] = [interests[h] EXCEPT !.context = NoContext, !.events = {}]
          /\ DOMAIN table = Valid /\ \A k \in Valid \ {h} : table[k] = interests[k]
      BY <3>1 DEF Valid
    <3>3. interests' = ConsiderRemoveInterest(table, h)
      BY <1>11, <2>3 DEF HandleInterestDone, Completed
    <3> HIDE DEF table
    <3>4. /\ table[h].context = NoContext /\ table[h].events = {}
          /\ table[h].state = interests[h].state /\ table[h].auto = interests[h].auto
      BY <1>1, <3>1, <3>2 DEF Interest
    <3>5. \A k \in Valid \ {h} : k \in Valid' /\ interests'[k] = interests[k]
      BY <3>2, <3>3 DEF ConsiderRemoveInterest, Restrict, Valid
    <3>6. Valid' \subseteq Valid
      BY <3>2, <3>3 DEF ConsiderRemoveInterest, Restrict, Valid
    <3>7. \A k \in Valid \ {h} : Same(k)
      BY <1>2, <2>1, <3>5 DEF Same
    <3>8. h \in Valid' => Idle(h)
      <4> SUFFICES ASSUME h \in Valid' PROVE Idle(h)
        OBVIOUS
      <4>1. interests[h].state = "Active" /\ interests'[h] = table[h]
        BY <1>1, <3>1, <3>3, <3>4 DEF ConsiderRemoveInterest, Restrict, Valid, Interest
      <4>2. interests[h].auto \in BOOLEAN
        BY <1>1, <3>1 DEF Interest
      <4> QED BY <3>1, <3>2, <3>4, <4>1, <4>2 DEF Idle
    <3>9. \A k \in Handles \ Valid' : RequestsFor(k) = {}
      BY <1>3, <3>1, <3>5
    <3> QED BY <2>1, <3>6, <3>7, <3>8, <3>9, RestStep
  <2> QED BY <2>2, <2>3
<1>12. ASSUME LoseConnection PROVE Waiting'
  <2>1. /\ interests' = <<>> /\ toServer' = <<>> /\ done' = {}
    BY <1>12 DEF LoseConnection
  <2>2. Valid' = {} /\ DOMAIN toServer' = {}
    BY <2>1 DEF Valid
  <2> QED BY <2>1, <2>2
          DEF Waiting, AnswerComing, ServerFollows, Latest, ContextsOnce, AutoIdle, RequestsFor
<1>13. ASSUME ServerStep PROVE Waiting'
  BY <1>13, ServeStep
<1>14. ASSUME RefuseInterest \/ (\E flag \in BOOLEAN : SetNoNewInterests(flag))
              \/ (\E cb \in Callbacks : SetCallback(cb) \/ RemoveCallback(cb))
              \/ StartCollect \/ StopCollect \/ FinishInterestDone \/ Frame \/ UNCHANGED vars
       PROVE  Waiting'
  <2>1. UNCHANGED <<interests, toServer, open, done, calls>>
    BY <1>14 DEF RefuseInterest, SetNoNewInterests, SetCallback, RemoveCallback, StartCollect,
                 StopCollect, FinishInterestDone, Frame, vars
  <2> QED BY <1>5, <2>1
<1>15. ASSUME QueueAllInterestsCompleteEvent PROVE Waiting'
  <2>1. UNCHANGED <<interests, toServer, open, done>> /\ calls' = calls + 1
    BY <1>15 DEF QueueAllInterestsCompleteEvent, Call, Number
  <2> QED BY <1>5, <2>1
<1> QED BY <1>6, <1>7, <1>8, <1>9, <1>10, <1>11, <1>12, <1>13, <1>14, <1>15
        DEF Next, GameStep, HandleDatagram

LEMMA WaitingInit == Init => Waiting
<1> SUFFICES ASSUME Init PROVE Waiting
  OBVIOUS
<1>1. Valid = {} /\ DOMAIN toServer = {} /\ done = {}
  BY DEF Init, Valid
<1> QED BY <1>1 DEF Waiting, AnswerComing, ServerFollows, Latest, ContextsOnce, AutoIdle, RequestsFor

-------------------------------------------------------------------------------
(* The events                                                              *)

EventsOf(h) == IF h \in Valid THEN interests[h].events ELSE {}

(* No event was heard of before its call.                                  *)
EventsCalled ==
  /\ \A h \in Valid : interests[h].events \subseteq 1 .. calls
  /\ watcher.heard \subseteq 1 .. calls

EventsInv == CountAgrees /\ EventsOnce /\ EventsCalled

(* What a step does to the events of the one interest that it is about     *)
EventStep(h) ==
  /\ \A k \in Handles \ {h} : EventsOf(k)' = EventsOf(k)
  /\ completeEventCount' =
       completeEventCount - Cardinality(EventsOf(h)) + Cardinality(EventsOf(h)')
  /\ \/ /\ EventsOf(h)' \subseteq EventsOf(h) \cup {calls + 1}
        /\ calls' = calls + 1
        /\ watcher'.heard = watcher.heard
     \/ /\ EventsOf(h)' = {}
        /\ calls' = calls
        /\ watcher'.heard \subseteq watcher.heard \cup EventsOf(h)

LEMMA EventsOfType ==
  ASSUME TypeOK, NEW h
  PROVE  /\ EventsOf(h) \in SUBSET Numbers
         /\ IsFiniteSet(EventsOf(h)) /\ Cardinality(EventsOf(h)) \in Nat
<1>1. EventsOf(h) \in SUBSET Numbers
  BY DEF TypeOK, Interest, EventsOf
<1>2. IsFiniteSet(Numbers)
  BY BoundsAssumption, FS_Interval DEF Numbers
<1> QED BY <1>1, <1>2, FS_Subset, FS_CardinalityType

(* Where the events of one interest are replaced, the number of all events *)
(* changes by the difference.                                              *)
LEMMA EventsReplaced ==
  ASSUME NEW h \in Handles, NEW T \in SUBSET (Handles \X Numbers),
         NEW U \in SUBSET (Handles \X Numbers),
         NEW D \in SUBSET Numbers, NEW E \in SUBSET Numbers,
         \A n \in Numbers : <<h, n>> \in T <=> n \in D,
         \A n \in Numbers : <<h, n>> \in U <=> n \in E,
         \A k \in Handles \ {h}, n \in Numbers : <<k, n>> \in U <=> <<k, n>> \in T
  PROVE  Cardinality(U) = Cardinality(T) - Cardinality(D) + Cardinality(E)
<1> DEFINE rest == T \ ({h} \X D)
<1>1. IsFiniteSet(Handles) /\ IsFiniteSet(Numbers)
  BY BoundsAssumption, FS_Interval DEF Handles, Numbers
<1>2. IsFiniteSet(T) /\ IsFiniteSet(D) /\ IsFiniteSet(E) /\ IsFiniteSet({h})
  <2>1. IsFiniteSet(Handles \X Numbers)
    BY <1>1, FS_Product
  <2> QED BY <1>1, <2>1, FS_Subset, FS_Singleton
<1>3. ASSUME NEW S \in SUBSET Numbers, IsFiniteSet(S)
      PROVE  IsFiniteSet({h} \X S) /\ Cardinality({h} \X S) = Cardinality(S)
  <2>1. /\ IsFiniteSet({h} \X S)
        /\ Cardinality({h} \X S) = Cardinality({h}) * Cardinality(S)
    BY <1>2, <1>3, FS_Product
  <2>2. Cardinality({h}) = 1 /\ Cardinality(S) \in Nat
    BY <1>3, FS_Singleton, FS_CardinalityType
  <2> QED BY <2>1, <2>2
<1>4. /\ IsFiniteSet(rest)
      /\ Cardinality(rest) = Cardinality(T) - Cardinality(T \cap ({h} \X D))
  BY <1>2, FS_Difference
<1>5. T \cap ({h} \X D) = {h} \X D
  OBVIOUS
<1>6. rest \cap ({h} \X E) = {}
  OBVIOUS
<1>7. rest \cup ({h} \X E) = U
  OBVIOUS
<1>8. Cardinality(U) = Cardinality(rest) + Cardinality({h} \X E) - Cardinality({})
  <2>1. IsFiniteSet({h} \X E)
    BY <1>2, <1>3
  <2> HIDE DEF rest
  <2>2. Cardinality(rest \cup ({h} \X E))
          = Cardinality(rest) + Cardinality({h} \X E) - Cardinality(rest \cap ({h} \X E))
    BY <1>4, <2>1, FS_Union
  <2> QED BY <1>6, <1>7, <2>2
<1>9. Cardinality({}) = 0
  BY FS_EmptySet
<1>10. /\ Cardinality(T) \in Nat /\ Cardinality(D) \in Nat /\ Cardinality(E) \in Nat
  BY <1>2, FS_CardinalityType
<1>11. Cardinality({h} \X D) = Cardinality(D) /\ Cardinality({h} \X E) = Cardinality(E)
  BY <1>2, <1>3
<1> HIDE DEF rest
<1>12. Cardinality(rest) = Cardinality(T) - Cardinality(D)
  BY <1>4, <1>5, <1>11, Zenon
<1>13. Cardinality(U) = Cardinality(rest) + Cardinality(E) - 0
  BY <1>8, <1>9, <1>11, Zenon
<1> QED BY <1>10, <1>12, <1>13

(* Numbers that were given out are below the next one.                     *)
LEMMA NextIsNew ==
  ASSUME TypeOK, EventsCalled, NEW h
  PROVE  calls + 1 \notin EventsOf(h) /\ EventsOf(h) \subseteq 1 .. calls
<1>1. calls \in Nat
  BY BoundsAssumption DEF TypeOK
<1>2. EventsOf(h) \subseteq 1 .. calls
  BY DEF EventsCalled, EventsOf
<1> QED BY <1>1, <1>2

LEMMA EventStepKeeps ==
  ASSUME TypeOK, TypeOK', EventsInv, NEW h \in Handles, EventStep(h)
  PROVE  CountAgrees' /\ EventsOnce'
           /\ (\A k \in Valid' : interests'[k].events \subseteq 1 .. calls')
           /\ watcher'.heard \subseteq 1 .. calls'
<1>1. Valid \subseteq Handles /\ Valid' \subseteq Handles /\ calls \in Nat /\ calls' \in Nat
  BY BoundsAssumption DEF TypeOK
<1>2. CountAgrees'
  <2> DEFINE T == Outstanding
             U == Outstanding'
             D == EventsOf(h)
             E == EventsOf(h)'
  <2>1. T \in SUBSET (Handles \X Numbers) /\ U \in SUBSET (Handles \X Numbers)
    BY <1>1 DEF Outstanding
  <2>2. \A k \in Handles, n \in Numbers : <<k, n>> \in T <=> n \in EventsOf(k)
    BY DEF Outstanding, EventsOf
  <2>3. \A k \in Handles, n \in Numbers : <<k, n>> \in U <=> n \in EventsOf(k)'
    BY DEF Outstanding, EventsOf
  <2>4. ASSUME NEW k \in Handles \ {h}, NEW n \in Numbers
        PROVE  <<k, n>> \in U <=> <<k, n>> \in T
    <3>1. EventsOf(k)' = EventsOf(k)
      BY DEF EventStep
    <3> HIDE DEF T, U
    <3> QED BY <2>2, <2>3, <3>1
  <2>5. D \in SUBSET Numbers
    BY EventsOfType
  <2>6. E \in SUBSET Numbers
    BY DEF TypeOK, Interest, EventsOf
  <2>7. \A n \in Numbers : (<<h, n>> \in T <=> n \in D) /\ (<<h, n>> \in U <=> n \in E)
    BY <2>2, <2>3
  <2>8. completeEventCount = Cardinality(T)
    BY DEF EventsInv, CountAgrees
  <2>9. completeEventCount' = completeEventCount - Cardinality(D) + Cardinality(E)
    BY DEF EventStep
  <2> HIDE DEF T, U, D, E
  <2>10. Cardinality(U) = Cardinality(T) - Cardinality(D) + Cardinality(E)
    BY <2>1, <2>4, <2>5, <2>6, <2>7, EventsReplaced
  <2> QED BY <2>8, <2>9, <2>10 DEF CountAgrees, U
<1>3. \A k : EventsOf(k) \subseteq 1 .. calls /\ calls + 1 \notin EventsOf(k)
  BY NextIsNew DEF EventsInv
<1>4. \A k \in Valid : interests[k].events = EventsOf(k)
  BY DEF EventsOf
<1>5. \A k \in Valid' : interests'[k].events = EventsOf(k)'
  BY DEF EventsOf
<1>6. \A k, j : k # j => EventsOf(k) \cap EventsOf(j) = {}
  BY DEF EventsInv, EventsOnce, EventsOf
<1>7. watcher.heard \subseteq 1 .. calls /\ \A k : EventsOf(k) \cap watcher.heard = {}
  BY DEF EventsInv, EventsOnce, EventsCalled, EventsOf
<1>8. CASE /\ EventsOf(h)' \subseteq EventsOf(h) \cup {calls + 1}
           /\ calls' = calls + 1
           /\ watcher'.heard = watcher.heard
  <2>1. \A k \in Handles : EventsOf(k)' \subseteq 1 .. calls'
    BY <1>1, <1>3, <1>8 DEF EventStep
  <2>2. \A k \in Handles : EventsOf(k)' \cap watcher'.heard = {}
    BY <1>1, <1>7, <1>8 DEF EventStep
  <2>3. \A k, j \in Handles : k # j => EventsOf(k)' \cap EventsOf(j)' = {}
    BY <1>3, <1>6, <1>8 DEF EventStep
  <2>4. watcher'.heard \subseteq 1 .. calls'
    BY <1>1, <1>7, <1>8
  <2> QED BY <1>1, <1>2, <1>5, <2>1, <2>2, <2>3, <2>4 DEF EventsOnce
<1>9. CASE /\ EventsOf(h)' = {}
           /\ calls' = calls
           /\ watcher'.heard \subseteq watcher.heard \cup EventsOf(h)
  <2>1. \A k \in Handles : EventsOf(k)' \subseteq 1 .. calls'
    BY <1>3, <1>9 DEF EventStep
  <2>2. \A k \in Handles : EventsOf(k)' \cap watcher'.heard = {}
    BY <1>6, <1>7, <1>9 DEF EventStep
  <2>3. \A k, j \in Handles : k # j => EventsOf(k)' \cap EventsOf(j)' = {}
    BY <1>6, <1>9 DEF EventStep
  <2>4. watcher'.heard \subseteq 1 .. calls'
    BY <1>3, <1>7, <1>9
  <2> QED BY <1>1, <1>2, <1>5, <2>1, <2>2, <2>3, <2>4 DEF EventsOnce
<1> QED BY <1>8, <1>9 DEF EventStep

(* Each step is about the events of at most one interest, but for the loss *)
(* of the connection.                                                      *)
LEMMA EventsChange ==
  ASSUME TypeOK, TypeOK', EventsInv, Next
  PROVE  \/ \E h \in Handles : EventStep(h)
         \/ UNCHANGED <<interests, completeEventCount>> /\ calls' \in {calls, calls + 1}
              /\ watcher'.heard = watcher.heard
         \/ LoseConnection
<1> DEFINE Goal == \/ \E h \in Handles : EventStep(h)
                   \/ UNCHANGED <<interests, completeEventCount>> /\ calls' \in {calls, calls + 1}
                        /\ watcher'.heard = watcher.heard
                   \/ LoseConnection
<1>1. Valid \subseteq Handles /\ completeEventCount \in Int /\ calls \in Nat
  BY BoundsAssumption DEF TypeOK
<1>2. \A k : calls + 1 \notin EventsOf(k)
  BY NextIsNew DEF EventsInv
<1>3. \A k : IsFiniteSet(EventsOf(k)) /\ Cardinality(EventsOf(k)) \in Nat
  BY EventsOfType
<1>4. Cardinality({}) = 0 /\ IsFiniteSet({})
  BY FS_EmptySet
<1>5. ASSUME NEW S, IsFiniteSet(S), calls + 1 \notin S
      PROVE  Cardinality(S \cup {calls + 1}) = Cardinality(S) + 1
  BY <1>5, FS_AddElement
<1>6. Cardinality({calls + 1}) = 1
  BY FS_Singleton
<1>7. ASSUME NEW n, Collect(n) PROVE watcher'.heard = watcher.heard
  BY <1>7 DEF Collect, TypeOK
<1>8. ASSUME NEW h \in Handles \ Valid, NEW i,
             interests' = With(interests, h, i)
      PROVE  /\ \A k \in Handles \ {h} : EventsOf(k)' = EventsOf(k)
             /\ EventsOf(h) = {} /\ EventsOf(h)' = i.events
  BY <1>8 DEF With, EventsOf, Valid
<1>9. ASSUME NEW place \in Places, AddInterest(place) PROVE Goal
  <2>1. NextHandle \in Handles \ Valid
    BY <1>9, HandleUnused DEF AddInterest, TypeOK
  <2>2. /\ interests' = With(interests, NextHandle, InterestState(NoContext, {}, place, FALSE))
        /\ calls' = calls + 1 /\ completeEventCount' = completeEventCount /\ watcher' = watcher
    BY <1>9 DEF AddInterest, Call, Number
  <2>3. PICK h \in Handles \ Valid : h = NextHandle
    BY <2>1
  <2>4. /\ \A k \in Handles \ {h} : EventsOf(k)' = EventsOf(k)
        /\ EventsOf(h) = {} /\ EventsOf(h)' = {}
    BY <1>8, <2>2, <2>3 DEF InterestState
  <2>5. EventStep(h)
    BY <1>1, <1>4, <2>2, <2>4 DEF EventStep
  <2> QED BY <2>5
<1>10. ASSUME NEW place \in Places, AddInterestWithEvent(place) PROVE Goal
  <2>1. NextHandle \in Handles \ Valid
    BY <1>10, HandleUnused DEF AddInterestWithEvent, TypeOK
  <2>2. /\ interests' = With(interests, NextHandle, InterestState(Number, {Number}, place, FALSE))
        /\ calls' = calls + 1 /\ completeEventCount' = completeEventCount + 1
        /\ watcher'.heard = watcher.heard /\ Number = calls + 1
    BY <1>7, <1>10 DEF AddInterestWithEvent, Call, Number
  <2>3. PICK h \in Handles \ Valid : h = NextHandle
    BY <2>1
  <2>4. /\ \A k \in Handles \ {h} : EventsOf(k)' = EventsOf(k)
        /\ EventsOf(h) = {} /\ EventsOf(h)' = {Number}
    BY <1>8, <2>2, <2>3 DEF InterestState
  <2>5. EventStep(h)
    BY <1>1, <1>4, <1>6, <2>2, <2>4 DEF EventStep
  <2> QED BY <2>5
<1>11. ASSUME NEW place \in Places, AddAutoInterest(place) PROVE Goal
  <2>1. NextHandle \in Handles \ Valid
    BY <1>11, HandleUnused DEF AddAutoInterest, TypeOK
  <2>2. /\ interests' = With(interests, NextHandle, InterestState(NoContext, {}, place, TRUE))
        /\ calls' = calls + 1 /\ completeEventCount' = completeEventCount /\ watcher' = watcher
    BY <1>11 DEF AddAutoInterest, Call, Number
  <2>3. PICK h \in Handles \ Valid : h = NextHandle
    BY <2>1
  <2>4. /\ \A k \in Handles \ {h} : EventsOf(k)' = EventsOf(k)
        /\ EventsOf(h) = {} /\ EventsOf(h)' = {}
    BY <1>8, <2>2, <2>3 DEF InterestState
  <2>5. EventStep(h)
    BY <1>1, <1>4, <2>2, <2>4 DEF EventStep
  <2> QED BY <2>5
<1>12. ASSUME NEW h \in Valid, RemoveInterest(h) PROVE Goal
  <2>1. calls' = calls + 1 /\ watcher'.heard = watcher.heard /\ Number = calls + 1
    BY <1>7, <1>12 DEF RemoveInterest, Call, Number
  <2>2. interests[h] \in Interest /\ EventsOf(h) = interests[h].events
    BY DEF TypeOK, EventsOf
  <2>3. CASE Pending(h)
    <3>1. /\ interests' = [interests EXCEPT ![h].events = @ \cup {Number}]
          /\ completeEventCount' = completeEventCount + 1
      BY <1>12, <2>3 DEF RemoveInterest
    <3>2. /\ \A k \in Handles \ {h} : EventsOf(k)' = EventsOf(k)
          /\ EventsOf(h)' = EventsOf(h) \cup {calls + 1}
      BY <2>1, <2>2, <3>1 DEF EventsOf, Valid, Interest
    <3>3. Cardinality(EventsOf(h)') = Cardinality(EventsOf(h)) + 1
      BY <1>2, <1>3, <1>5, <3>2
    <3>4. EventStep(h)
      BY <1>1, <1>3, <2>1, <3>1, <3>2, <3>3 DEF EventStep
    <3> QED BY <1>1, <3>4
  <2>4. CASE ~Pending(h)
    <3>1. /\ interests' = [interests EXCEPT ![h].state = "PendingDel", ![h].context = Number,
                                            ![h].events = {Number}]
          /\ completeEventCount' = completeEventCount - Cardinality(interests[h].events) + 1
      BY <1>12, <2>4 DEF RemoveInterest
    <3>2. /\ \A k \in Handles \ {h} : EventsOf(k)' = EventsOf(k)
          /\ EventsOf(h)' = {calls + 1}
      BY <2>1, <2>2, <3>1 DEF EventsOf, Valid, Interest
    <3>3. EventStep(h)
      BY <1>1, <1>3, <1>6, <2>1, <2>2, <3>1, <3>2 DEF EventStep
    <3> QED BY <1>1, <3>3
  <2> QED BY <2>3, <2>4
<1>13. ASSUME NEW h \in Valid, RemoveAutoInterest(h) PROVE Goal
  <2> DEFINE table == [interests EXCEPT ![h].state = "PendingDel", ![h].events = {}]
  <2>1. /\ interests' = ConsiderRemoveInterest(table, h)
        /\ completeEventCount' = completeEventCount - Cardinality(interests[h].events)
        /\ calls' = calls /\ watcher' = watcher
    BY <1>13 DEF RemoveAutoInterest
  <2>2. /\ interests[h] \in Interest /\ EventsOf(h) = interests[h].events
    BY DEF TypeOK, EventsOf
  <2>3. /\ DOMAIN table = Valid /\ table[h].events = {}
        /\ \A k \in Valid \ {h} : table[k] = interests[k]
    BY <2>2 DEF Valid, Interest
  <2> HIDE DEF table
  <2>4. /\ \A k \in Handles \ {h} : EventsOf(k)' = EventsOf(k)
        /\ EventsOf(h)' = {}
    BY <2>1, <2>3 DEF EventsOf, Valid, ConsiderRemoveInterest, Restrict
  <2>5. EventStep(h)
    BY <1>1, <1>3, <1>4, <2>1, <2>2, <2>4 DEF EventStep
  <2> QED BY <1>1, <2>5
<1>14. ASSUME NEW h \in Valid, NEW place \in Places, AlterInterest(h, place) PROVE Goal
  <2> DEFINE kept == IF interests[h].context = NoContext THEN interests[h].events ELSE {}
  <2>1. /\ interests' = [interests EXCEPT ![h].place = place, ![h].context = Number,
                                          ![h].events = kept \cup {Number}]
        /\ completeEventCount' = completeEventCount - Cardinality(interests[h].events \ kept) + 1
        /\ calls' = calls + 1 /\ watcher' = watcher /\ Number = calls + 1
    BY <1>14 DEF AlterInterest, Call, Number
  <2>2. /\ interests[h] \in Interest /\ EventsOf(h) = interests[h].events
    BY DEF TypeOK, EventsOf
  <2>3. kept = EventsOf(h) \/ kept = {}
    BY <2>2
  <2> HIDE DEF kept
  <2>4. /\ \A k \in Handles \ {h} : EventsOf(k)' = EventsOf(k)
        /\ EventsOf(h)' = kept \cup {calls + 1}
    BY <2>1, <2>2 DEF EventsOf, Valid, Interest
  <2>5. IsFiniteSet(kept) /\ calls + 1 \notin kept /\ Cardinality(kept) \in Nat
    BY <1>2, <1>3, <1>4, <2>3
  <2>6. Cardinality(EventsOf(h)') = Cardinality(kept) + 1
    BY <1>5, <2>4, <2>5
  <2>7. Cardinality(EventsOf(h) \ kept) = Cardinality(EventsOf(h)) - Cardinality(kept)
    <3>1. CASE kept = EventsOf(h)
      <4>1. EventsOf(h) \ kept = {}
        BY <3>1
      <4> QED BY <1>3, <1>4, <3>1, <4>1
    <3>2. CASE kept = {}
      <4>1. EventsOf(h) \ kept = EventsOf(h)
        BY <3>2
      <4> QED BY <1>3, <1>4, <3>2, <4>1
    <3> QED BY <2>3, <3>1, <3>2
  <2>8. EventStep(h)
    BY <1>1, <1>3, <2>1, <2>2, <2>3, <2>4, <2>5, <2>6, <2>7 DEF EventStep
  <2> QED BY <1>1, <2>8
<1>15. ASSUME NEW h, NEW c, HandleInterestDone(h, c) PROVE Goal
  <2>1. CASE Answered(h, c)
    <3> DEFINE table == [interests EXCEPT ![h].context = NoContext, ![h].events = {}]
    <3>1. /\ interests' = ConsiderRemoveInterest(table, h)
          /\ completeEventCount' = completeEventCount - Cardinality(interests[h].events)
          /\ calls' = calls /\ Hear(interests[h].events) /\ h \in Valid
      BY <1>15, <2>1 DEF HandleInterestDone, Completed, Answered
    <3>2. /\ interests[h] \in Interest /\ EventsOf(h) = interests[h].events
      BY <3>1 DEF TypeOK, EventsOf
    <3>3. watcher'.heard \subseteq watcher.heard \cup EventsOf(h)
      BY <3>1, <3>2 DEF Hear, TypeOK
    <3>4. /\ DOMAIN table = Valid /\ table[h].events = {}
          /\ \A k \in Valid \ {h} : table[k] = interests[k]
      BY <3>1, <3>2 DEF Valid, Interest
    <3> HIDE DEF table
    <3>5. /\ \A k \in Handles \ {h} : EventsOf(k)' = EventsOf(k)
          /\ EventsOf(h)' = {}
      BY <3>1, <3>4 DEF EventsOf, Valid, ConsiderRemoveInterest, Restrict
    <3>6. EventStep(h)
      BY <1>1, <1>3, <1>4, <3>1, <3>2, <3>3, <3>5 DEF EventStep
    <3> QED BY <1>1, <3>1, <3>6
  <2>2. CASE ~Answered(h, c)
    BY <1>15, <2>2 DEF HandleInterestDone
  <2> QED BY <2>1, <2>2
<1>16. ASSUME RefuseInterest \/ (\E flag \in BOOLEAN : SetNoNewInterests(flag))
              \/ (\E cb \in Callbacks : SetCallback(cb) \/ RemoveCallback(cb))
              \/ QueueAllInterestsCompleteEvent
              \/ StartCollect \/ StopCollect \/ FinishInterestDone \/ Frame \/ ServerStep
       PROVE  Goal
  BY <1>16 DEF RefuseInterest, SetNoNewInterests, SetCallback, RemoveCallback, StartCollect,
               QueueAllInterestsCompleteEvent, Call, Number, TypeOK,
               StopCollect, FinishInterestDone, Frame, ServerStep, manager
<1> HIDE DEF Goal
<1>17. LoseConnection => Goal
  BY DEF Goal
<1> QED BY <1>9, <1>10, <1>11, <1>12, <1>13, <1>14, <1>15, <1>16, <1>17
        DEF Next, GameStep, HandleDatagram, Goal

LEMMA EventsInvStep ==
  ASSUME TypeOK, TypeOK', EventsInv, [Next]_vars
  PROVE  EventsInv'
<1>1. calls \in Nat
  BY BoundsAssumption DEF TypeOK
<1>2. CASE UNCHANGED <<interests, completeEventCount>> /\ calls' \in {calls, calls + 1}
             /\ watcher'.heard = watcher.heard
  <2>1. Valid' = Valid /\ Outstanding' = Outstanding
    BY <1>2 DEF Valid, Outstanding
  <2>2. 1 .. calls \subseteq 1 .. calls'
    BY <1>1, <1>2
  <2> QED BY <1>2, <2>1, <2>2 DEF EventsInv, CountAgrees, EventsOnce, EventsCalled
<1>3. CASE LoseConnection
  <2>1. interests' = <<>> /\ completeEventCount' = 0 /\ watcher' = watcher /\ calls' = calls
    BY <1>3 DEF LoseConnection
  <2>2. Valid' = {} /\ Outstanding' = {}
    BY <2>1 DEF Valid, Outstanding
  <2> QED BY <2>1, <2>2, FS_EmptySet DEF EventsInv, CountAgrees, EventsOnce, EventsCalled
<1>4. CASE UNCHANGED vars
  BY <1>2, <1>4 DEF vars, manager
<1>5. ASSUME Next, NEW h \in Handles, EventStep(h) PROVE EventsInv'
  BY <1>5, EventStepKeeps DEF EventsInv, EventsCalled
<1> QED BY <1>2, <1>3, <1>4, <1>5, EventsChange

LEMMA EventsInvInit == Init => EventsInv
<1> SUFFICES ASSUME Init PROVE EventsInv
  OBVIOUS
<1>1. Valid = {} /\ Outstanding = {} /\ watcher.heard = {} /\ completeEventCount = 0
  BY DEF Init, Valid, Outstanding
<1> QED BY <1>1, FS_EmptySet DEF EventsInv, CountAgrees, EventsOnce, EventsCalled

(* The counter is the number of events that the interests have to send.    *)
THEOREM CountStaysRight == Spec => []CountAgrees
<1>1. TypeOK /\ TypeOK' /\ EventsInv /\ [Next]_vars => EventsInv'
  BY EventsInvStep
<1>2. EventsInv => CountAgrees
  BY DEF EventsInv
<1> QED BY <1>1, <1>2, EventsInvInit, InterestTypes, PTL DEF Spec

(* No event is pending for two interests, or after it was sent.            *)
THEOREM EventsStaySingle == Spec => []EventsOnce
<1>1. TypeOK /\ TypeOK' /\ EventsInv /\ [Next]_vars => EventsInv'
  BY EventsInvStep
<1>2. EventsInv => EventsOnce
  BY DEF EventsInv
<1> QED BY <1>1, <1>2, EventsInvInit, InterestTypes, PTL DEF Spec

LEMMA Invariant == Spec => []IInv
<1>1. Init => IInv
  BY TypeInit, WaitingInit DEF IInv
<1>2. IInv /\ [Next]_vars => IInv'
  BY TypeStep, WaitingStep DEF IInv
<1> QED BY <1>1, <1>2, PTL DEF Spec

(* An interest that has events or is to be removed waits for a request     *)
(* that is on its way, or for its answer (_considerRemoveInterest).        *)
THEOREM AnswersAreComing == Spec => []AnswerComing
<1>1. IInv => AnswerComing
  BY DEF IInv, Waiting
<1> QED BY <1>1, Invariant, PTL

(* Once the server has read the requests about an interest, it has open    *)
(* what the table of the manager says.                                     *)
THEOREM ServerAgrees == Spec => []ServerFollows
<1>1. IInv => ServerFollows
  BY DEF IInv, Waiting
<1> QED BY <1>1, Invariant, PTL

(* handleInterestDoneMessage sends the events of an interest only when the *)
(* server has read every request about it: the context tells.              *)
THEOREM EventsMeanServed == Spec => EventMeansServed
<1> DEFINE Served ==
      \A h \in Valid :
        sending' /\ ~sending /\ interests[h].events # {}
          /\ (h \in Valid' => interests'[h].events = {}) => RequestsFor(h) = {}
<1>1. ASSUME IInv, [Next]_vars PROVE Served
  <2> SUFFICES ASSUME NEW h \in Valid, sending', ~sending, interests[h].events # {},
                      h \in Valid' => interests'[h].events = {}
               PROVE  RequestsFor(h) = {}
    OBVIOUS
  <2>1. PICK k, c : HandleInterestDone(k, c)
    BY <1>1 DEF Next, GameStep, HandleDatagram, AddInterest, AddInterestWithEvent, AddAutoInterest,
       RefuseInterest, RemoveInterest, RemoveAutoInterest, AlterInterest, SetNoNewInterests,
       SetCallback, RemoveCallback, QueueAllInterestsCompleteEvent, StartCollect, StopCollect,
       FinishInterestDone, Frame, LoseConnection, ServerStep, manager, vars
  <2>2. Answered(k, c) /\ interests' = Completed(k) /\ <<k, c>> \in done
    BY <2>1 DEF HandleInterestDone
  <2>3. k \in Valid /\ RequestsFor(k) = {}
    BY <1>1, <2>2, AnsweredServed
  <2>4. h # k => h \in Valid' /\ interests'[h] = interests[h]
    BY <2>2, <2>3 DEF Completed, ConsiderRemoveInterest, Restrict, Valid
  <2> QED BY <2>3, <2>4
<1> QED BY <1>1, Invariant, PTL DEF Spec, EventMeansServed

===============================================================================
