---------------------------- MODULE InterestManager ---------------------------
(***************************************************************************)
(* The interests of one client of the older protocol (distributed/         *)
(* DoInterestManager): handles that name interests, contexts that name     *)
(* requests about them, the events to send when a request is answered, the *)
(* count of events outstanding and the call, some frames after it falls to *)
(* zero, that reports all interests complete.  An InterestWatcher collects *)
(* the events of a period and reports when all of them have been sent.     *)
(*                                                                         *)
(* The server is not part of the repository.  It takes the requests in the *)
(* order in which they were sent, and answers those with a context, in any *)
(* order, once the objects have been sent.                                 *)
(*                                                                         *)
(* A call of the game that names a context or an event takes a number from *)
(* `calls'; the number stands for both.  A parent and its zones are a      *)
(* place.                                                                  *)
(***************************************************************************)
EXTENDS Integers, Sequences, FiniteSets, Functions

CONSTANTS Places,
          Callbacks,
          MaxHandle,   \* _HandleMask
          Frames,      \* frames between the last answer and the report
          MaxCalls,    \* bound: calls of the game
          MaxLosses    \* bound: losses of the connection

ASSUME BoundsAssumption ==
  /\ MaxHandle \in Nat
  /\ Frames \in Nat \ {0}
  /\ {MaxCalls, MaxLosses} \subseteq Nat

VARIABLES
  interests,           \* _interests, by handle
  handleSerial,        \* _HandleSerialNum
  completeEventCount,  \* _completeEventCount.num
  delayed,             \* frames counted by _completeDelayedCallback
  callbacks,           \* _allInterestsCompleteCallbacks
  noNewInterests,      \* _noNewInterests
  sending,             \* the events of an answer are being sent
  watcher,             \* the InterestWatcher with its EventGroup
  calls,               \* numbers given to contexts and events
  losses,              \* connections lost
  toServer,            \* requests on their way
  open,                \* the place the server has open for a handle
  done                 \* answers on their way: handle and context

manager == <<interests, handleSerial, completeEventCount, delayed, callbacks, noNewInterests, sending>>
server == <<toServer, open, done>>
vars == <<manager, watcher, calls, losses, server>>

-------------------------------------------------------------------------------

Handles == 0 .. MaxHandle
Numbers == 1 .. MaxCalls
NoContext == 0

(* _completeDelayedCallback before the first report is due, and once the   *)
(* call was made or given up: the attribute still refers to it then        *)
Unset == -2
Over == -1

InterestState(context, events, place, auto) ==
  [state |-> "Active", context |-> context, events |-> events, place |-> place, auto |-> auto]

Add(h, c, place) == [kind |-> "add", handle |-> h, context |-> c, place |-> place]
Remove(h, c) == [kind |-> "remove", handle |-> h, context |-> c]

(* A table with one entry set                                              *)
With(table, key, value) ==
  [k \in DOMAIN table \cup {key} |-> IF k = key THEN value ELSE table[k]]

Valid == DOMAIN interests
Pending(h) == interests[h].state = "PendingDel"

Init ==
  /\ interests = <<>>
  /\ handleSerial = 0
  /\ completeEventCount = 0
  /\ delayed = Unset
  /\ callbacks = {}
  /\ noNewInterests = FALSE
  /\ sending = FALSE
  /\ watcher = [phase |-> "new", group |-> {}, heard |-> {}, done |-> FALSE]
  /\ calls = 0
  /\ losses = 0
  /\ toServer = <<>>
  /\ open = <<>>
  /\ done = {}

-------------------------------------------------------------------------------
(* Helpers                                                                 *)

(* The handle n places after the last one given out                        *)
Following(n) ==
  IF handleSerial + n > MaxHandle THEN handleSerial + n - (MaxHandle + 1) ELSE handleSerial + n

(* _getNextHandle: the next one that is not in use.  The loop would not    *)
(* end if all were; the callers' guards leave that out.                    *)
NextHandle_InUse == Following(1)                 \* mutant: used ones are not skipped

NextHandle ==
  Following(CHOOSE n \in 1 .. MaxHandle + 1 :
              /\ Following(n) \notin Valid
              /\ \A m \in 1 .. n - 1 : Following(m) \in Valid)

HandleLeft == Cardinality(Valid) <= MaxHandle

Number == calls + 1
Call == calls < MaxCalls /\ calls' = Number

(* _considerRemoveInterest                                                 *)
ConsiderRemoveInterest_Never(table, h) == table  \* mutant: interests are kept

ConsiderRemoveInterest(table, h) ==
  IF table[h].state = "PendingDel" /\ table[h].context = NoContext
  THEN Restrict(table, DOMAIN table \ {h})
  ELSE table

(* queueAllInterestsCompleteEvent: an earlier call is given up             *)
Queued_Once == IF delayed = Unset THEN 0 ELSE delayed   \* mutant: not started again

Queued == 0

(* The end of handleInterestDoneMessage, with n events outstanding         *)
CheckAllComplete(n) == delayed' = IF n = 0 THEN Queued ELSE delayed

(* The events collected while the watcher collects.  A group that is       *)
(* complete takes no more: addEvent raises an error, out of the call that  *)
(* told the watcher.                                                       *)
Raises == watcher.phase = "collecting" /\ watcher.done

Collect(event) ==
  watcher' = IF watcher.phase = "collecting" /\ ~watcher.done
             THEN [watcher EXCEPT !.group = @ \cup {event}] ELSE watcher

(* EventGroup._subEventComplete for the events that are sent               *)
Hear(events) ==
  LET heard == watcher.heard \cup (events \cap watcher.group)
  IN watcher' = [watcher EXCEPT !.heard = heard,
                                !.done = @ \/ (heard = watcher.group /\ heard # {})]

-------------------------------------------------------------------------------
(* Calls of the game.  They are made from tasks or by the listeners of the *)
(* events of an answer.                                                    *)

(* addInterest without event ...                                           *)
AddInterest(place) ==
  /\ ~noNewInterests /\ HandleLeft
  /\ handleSerial' = NextHandle
  /\ interests' = With(interests, NextHandle, InterestState(NoContext, {}, place, FALSE))
  /\ toServer' = Append(toServer, Add(NextHandle, NoContext, place))
  /\ Call
  /\ UNCHANGED <<completeEventCount, delayed, callbacks, noNewInterests, sending,
                 watcher, losses, open, done>>

(* ... and with one.  The watcher is told last, so an error comes too late *)
(* to undo anything.                                                       *)
AddInterestWithEvent(place) ==
  /\ ~noNewInterests /\ HandleLeft
  /\ handleSerial' = NextHandle
  /\ interests' = With(interests, NextHandle, InterestState(Number, {Number}, place, FALSE))
  /\ completeEventCount' = completeEventCount + 1
  /\ toServer' = Append(toServer, Add(NextHandle, Number, place))
  /\ Call
  /\ Collect(Number)
  /\ UNCHANGED <<delayed, callbacks, noNewInterests, sending, losses, open, done>>

(* addAutoInterest: the server knows of it without being told              *)
AddAutoInterest(place) ==
  /\ ~noNewInterests /\ HandleLeft
  /\ handleSerial' = NextHandle
  /\ interests' = With(interests, NextHandle, InterestState(NoContext, {}, place, TRUE))
  /\ Call
  /\ UNCHANGED <<completeEventCount, delayed, callbacks, noNewInterests, sending,
                 watcher, losses, server>>

(* Either of them, refused because of noNewInterests or of the parent: the *)
(* handle is used up                                                       *)
RefuseInterest ==
  /\ HandleLeft
  /\ handleSerial' = NextHandle
  /\ UNCHANGED <<interests, completeEventCount, delayed, callbacks, noNewInterests, sending,
                 watcher, calls, losses, server>>

(* removeInterest: the watcher is told first.  A removal that is under way *)
(* gets another event to send; otherwise the events of what was under way  *)
(* are abandoned.                                                          *)
RemoveInterest_KeepsContext(h) ==       \* mutant: the request gets no context of its own
  /\ ~interests[h].auto /\ ~Raises
  /\ Collect(Number)
  /\ interests' = [interests EXCEPT ![h].state = "PendingDel", ![h].events = {Number}]
  /\ completeEventCount' = completeEventCount - Cardinality(interests[h].events) + 1
  /\ toServer' = Append(toServer, Remove(h, interests[h].context))
  /\ Call
  /\ UNCHANGED <<handleSerial, delayed, callbacks, noNewInterests, sending, losses, open, done>>

RemoveInterest(h) ==
  /\ ~interests[h].auto /\ ~Raises
  /\ Collect(Number)
  /\ \/ /\ Pending(h)
        /\ interests' = [interests EXCEPT ![h].events = @ \cup {Number}]
        /\ completeEventCount' = completeEventCount + 1
        /\ UNCHANGED toServer
     \/ /\ ~Pending(h)
        /\ interests' = [interests EXCEPT ![h].state = "PendingDel", ![h].context = Number,
                                          ![h].events = {Number}]
        /\ completeEventCount' = completeEventCount - Cardinality(interests[h].events) + 1
        /\ toServer' = Append(toServer, Remove(h, Number))
  /\ Call
  /\ UNCHANGED <<handleSerial, delayed, callbacks, noNewInterests, sending, losses, open, done>>

(* removeAutoInterest, of handles that addAutoInterest gave out            *)
RemoveAutoInterest(h) ==
  /\ interests[h].auto
  /\ interests' = ConsiderRemoveInterest([interests EXCEPT ![h].state = "PendingDel",
                                                           ![h].events = {}], h)
  /\ completeEventCount' = completeEventCount - Cardinality(interests[h].events)
  /\ UNCHANGED <<handleSerial, delayed, callbacks, noNewInterests, sending,
                 watcher, calls, losses, server>>

(* alterInterest: the interest may be one that is being removed.  Events   *)
(* of a change under way are abandoned; the watcher is not told.           *)
AlterInterest(h, place) ==
  LET kept == IF interests[h].context = NoContext THEN interests[h].events ELSE {}
  IN /\ ~interests[h].auto /\ ~noNewInterests
     /\ interests' = [interests EXCEPT ![h].place = place, ![h].context = Number,
                                       ![h].events = kept \cup {Number}]
     /\ completeEventCount' =
          completeEventCount - Cardinality(interests[h].events \ kept) + 1
     /\ toServer' = Append(toServer, Add(h, Number, place))
     /\ Call
     /\ UNCHANGED <<handleSerial, delayed, callbacks, noNewInterests, sending,
                    watcher, losses, open, done>>

SetNoNewInterests(flag) ==
  /\ noNewInterests' = flag
  /\ UNCHANGED <<interests, handleSerial, completeEventCount, delayed, callbacks, sending,
                 watcher, calls, losses, server>>

(* setAllInterestsCompleteCallback, when the callback is not made at once  *)
SetCallback(cb) ==
  /\ completeEventCount > 0 \/ delayed # Unset
  /\ callbacks' = callbacks \cup {cb}
  /\ UNCHANGED <<interests, handleSerial, completeEventCount, delayed, noNewInterests, sending,
                 watcher, calls, losses, server>>

RemoveCallback(cb) ==
  /\ cb \in callbacks
  /\ callbacks' = callbacks \ {cb}
  /\ UNCHANGED <<interests, handleSerial, completeEventCount, delayed, noNewInterests, sending,
                 watcher, calls, losses, server>>

(* queueAllInterestsCompleteEvent as a call of its own                     *)
QueueAllInterestsCompleteEvent ==
  /\ delayed' = Queued
  /\ Call
  /\ UNCHANGED <<interests, handleSerial, completeEventCount, callbacks, noNewInterests, sending,
                 watcher, losses, server>>

(* InterestWatcher: one period of collecting                               *)
StartCollect ==
  /\ watcher.phase = "new"
  /\ watcher' = [watcher EXCEPT !.phase = "collecting"]
  /\ UNCHANGED <<manager, calls, losses, server>>

StopCollect ==
  /\ watcher.phase = "collecting"
  /\ watcher' = [watcher EXCEPT !.phase = "stopped", !.done = @ \/ watcher.group = {}]
  /\ UNCHANGED <<manager, calls, losses, server>>

-------------------------------------------------------------------------------
(* Answers and frames                                                      *)

(* handleInterestDoneMessage up to the events.  They are sent once the     *)
(* table is in order, and listeners may call the manager back: `sending'   *)
(* stands for that time.                                                   *)
Answered_Any(h, c) == h \in Valid       \* mutant: the context is not looked at

Answered(h, c) == h \in Valid /\ interests[h].context = c

Completed_KeepsEvents(h) ==             \* mutant: the events are not cleared
  ConsiderRemoveInterest([interests EXCEPT ![h].context = NoContext], h)

Completed(h) ==
  ConsiderRemoveInterest([interests EXCEPT ![h].context = NoContext, ![h].events = {}], h)

HandleInterestDone(h, c) ==
  /\ ~sending
  /\ <<h, c>> \in done
  /\ done' = done \ {<<h, c>>}
  /\ \/ /\ Answered(h, c)
        /\ interests' = Completed(h)
        /\ completeEventCount' = completeEventCount - Cardinality(interests[h].events)
        /\ sending' = (interests[h].events # {})
        /\ Hear(interests[h].events)
        /\ IF sending' THEN UNCHANGED delayed ELSE CheckAllComplete(completeEventCount')
     \/ /\ ~Answered(h, c)
        /\ CheckAllComplete(completeEventCount)
        /\ UNCHANGED <<interests, completeEventCount, sending, watcher>>
  /\ UNCHANGED <<handleSerial, callbacks, noNewInterests, calls, losses, toServer, open>>

FinishInterestDone ==
  /\ sending
  /\ sending' = FALSE
  /\ CheckAllComplete(completeEventCount)
  /\ UNCHANGED <<interests, handleSerial, completeEventCount, callbacks, noNewInterests,
                 watcher, calls, losses, server>>

(* FrameDelayedCall._frameTask: given up when there are events outstanding *)
(* again, else all callbacks are made in the last of the frames            *)
Frame ==
  /\ ~sending
  /\ delayed >= 0
  /\ \/ /\ completeEventCount > 0
        /\ delayed' = Over
        /\ UNCHANGED callbacks
     \/ /\ completeEventCount = 0 /\ delayed + 1 < Frames
        /\ delayed' = delayed + 1
        /\ UNCHANGED callbacks
     \/ /\ completeEventCount = 0 /\ delayed + 1 >= Frames
        /\ delayed' = Over
        /\ callbacks' = {}
  /\ UNCHANGED <<interests, handleSerial, completeEventCount, noNewInterests, sending,
                 watcher, calls, losses, server>>

LoseConnection_TableKept ==             \* mutant: the table is not emptied
  /\ ~sending
  /\ losses < MaxLosses
  /\ losses' = losses + 1
  /\ completeEventCount' = 0
  /\ toServer' = <<>> /\ open' = <<>> /\ done' = {}
  /\ UNCHANGED <<interests, handleSerial, delayed, callbacks, noNewInterests, sending,
                 watcher, calls>>

(* The connection is lost: resetInterestStateForConnectionLoss.  Handles   *)
(* and contexts go on from where they were.                                *)
LoseConnection ==
  /\ ~sending
  /\ losses < MaxLosses
  /\ losses' = losses + 1
  /\ interests' = <<>>
  /\ completeEventCount' = 0
  /\ toServer' = <<>> /\ open' = <<>> /\ done' = {}
  /\ UNCHANGED <<handleSerial, delayed, callbacks, noNewInterests, sending, watcher, calls>>

(* The server takes a request, and some time later answers it              *)
ServerStep ==
  /\ toServer # <<>>
  /\ LET m == Head(toServer)
     IN /\ open' = IF m.kind = "add" THEN With(open, m.handle, m.place)
                   ELSE Restrict(open, DOMAIN open \ {m.handle})
        /\ done' = IF m.context = NoContext THEN done
                   ELSE done \cup {<<m.handle, m.context>>}
  /\ toServer' = Tail(toServer)
  /\ UNCHANGED <<manager, watcher, calls, losses>>

-------------------------------------------------------------------------------

GameStep ==
  \/ \E place \in Places : \/ AddInterest(place)
                           \/ AddInterestWithEvent(place)
                           \/ AddAutoInterest(place)
  \/ RefuseInterest
  \/ \E h \in Valid : RemoveInterest(h) \/ RemoveAutoInterest(h)
  \/ \E h \in Valid, place \in Places : AlterInterest(h, place)
  \/ \E flag \in BOOLEAN : SetNoNewInterests(flag)
  \/ \E cb \in Callbacks : SetCallback(cb) \/ RemoveCallback(cb)
  \/ QueueAllInterestsCompleteEvent
  \/ StartCollect
  \/ StopCollect

HandleDatagram == \E answer \in done : HandleInterestDone(answer[1], answer[2])

Next ==
  \/ GameStep
  \/ HandleDatagram
  \/ FinishInterestDone
  \/ Frame
  \/ LoseConnection
  \/ ServerStep

Spec == Init /\ [][Next]_vars

(* The reader task and the frame task run every frame, a handler that has  *)
(* begun ends, and the server serves and answers what it is asked.         *)
Fairness ==
  /\ WF_vars(HandleDatagram)
  /\ WF_vars(FinishInterestDone)
  /\ WF_vars(Frame)
  /\ WF_vars(ServerStep)

FairSpec == Spec /\ Fairness

-------------------------------------------------------------------------------
(* Properties                                                              *)

Interest == [state : {"Active", "PendingDel"}, context : {NoContext} \cup Numbers,
             events : SUBSET Numbers, place : Places, auto : BOOLEAN]

Request == [kind : {"add"}, handle : Handles, context : {NoContext} \cup Numbers, place : Places]
             \cup [kind : {"remove"}, handle : Handles, context : Numbers]

(* The variables hold what the code puts there; handles stay below the bit *)
(* that is reserved for the server (_HandleMask).                          *)
TypeOK ==
  /\ Valid \subseteq Handles /\ \A h \in Valid : interests[h] \in Interest
  /\ handleSerial \in Handles
  /\ completeEventCount \in Int
  /\ delayed \in {Unset, Over} \cup 0 .. Frames - 1
  /\ callbacks \subseteq Callbacks
  /\ {noNewInterests, sending} \subseteq BOOLEAN
  /\ watcher \in [phase : {"new", "collecting", "stopped"}, group : SUBSET Numbers,
                  heard : SUBSET Numbers, done : BOOLEAN]
  /\ calls \in 0 .. MaxCalls /\ losses \in 0 .. MaxLosses
  /\ toServer \in Seq(Request)
  /\ DOMAIN open \subseteq Handles /\ \A h \in DOMAIN open : open[h] \in Places
  /\ done \subseteq Handles \X Numbers

(* The events that interests still have to send, each with its interest    *)
Outstanding == {p \in Valid \X Numbers : p[2] \in interests[p[1]].events}

(* The shared counter (ScratchPad) is the number of events that the        *)
(* interests still have to send: no handle is given out twice, no path     *)
(* clears events without counting them, and a lost connection leaves       *)
(* nothing counted that nobody will send.                                  *)
CountAgrees == completeEventCount = Cardinality(Outstanding)

UnderWay(h, c) ==
  <<h, c>> \in done \/ \E i \in DOMAIN toServer : toServer[i].handle = h /\ toServer[i].context = c

(* An interest with events or to be removed waits for the answer to one    *)
(* request, and that request or its answer is on its way: what             *)
(* _considerRemoveInterest asserts, and what keeps an interest from        *)
(* waiting for ever.                                                       *)
AnswerComing ==
  \A h \in Valid :
    /\ interests[h].events # {} \/ Pending(h) => interests[h].context # NoContext
    /\ interests[h].context # NoContext => UnderWay(h, interests[h].context)

RequestsFor(h) == {i \in DOMAIN toServer : toServer[i].handle = h}

(* What the manager takes to be open, the server has open at the same      *)
(* place as soon as it has read the requests: after any order of changes,  *)
(* removals, handles used again and late answers.                          *)
ServerFollows ==
  \A h \in Valid :
    interests[h].state = "Active" /\ ~interests[h].auto /\ RequestsFor(h) = {} =>
      h \in DOMAIN open /\ open[h] = interests[h].place

(* An event is sent only when the server has served every request about    *)
(* the interest: an answer to an earlier one does not send the event of    *)
(* the latest ("only the most recent change's event will be triggered").   *)
EventMeansServed ==
  [][\A h \in Valid :
       sending' /\ ~sending /\ interests[h].events # {}
         /\ (h \in Valid' => interests'[h].events = {}) => RequestsFor(h) = {}]_vars

(* An event that was sent is not pending any more, and none is pending for *)
(* two interests: nobody hears of the same change twice.                   *)
EventsOnce ==
  /\ \A h \in Valid : interests[h].events \cap watcher.heard = {}
  /\ \A h, k \in Valid : interests[h].events \cap interests[k].events # {} => h = k

(* Every request comes to an end: the interest is open with nothing to     *)
(* wait for, or gone.                                                      *)
Unsettled(h) == h \in Valid /\ (Pending(h) \/ interests[h].context # NoContext)

Settles == \A h \in Handles : Unsettled(h) ~> ~Unsettled(h)

(* A callback that waits for events outstanding is made (or taken back)    *)
(* when they are all sent, unless the connection is lost: when a delayed   *)
(* call is given up because of new interests, "another will automatically  *)
(* be scheduled when all interests complete".                              *)
CallbacksMade ==
  \A cb \in Callbacks, n \in 0 .. MaxLosses :
    (cb \in callbacks /\ completeEventCount > 0 /\ losses = n)
      ~> (cb \notin callbacks \/ losses > n)

(* InterestWatcher: "sends out an event when all of those interests have   *)
(* closed".                                                                *)
WatcherReports == (watcher.phase = "stopped") ~> watcher.done
===============================================================================
