---------------------------- MODULE MessengerProofs ---------------------------
(***************************************************************************)
(* The safety properties of Messenger for any objects, events, threads and *)
(* bounds.  What most of them rest on is that an acceptance that has ended *)
(* is not found any more, in whatever dictionary an event on its way looks *)
(* for it, and that one which has not ended stays where it was.            *)
(***************************************************************************)
EXTENDS Messenger, FiniteSetTheorems, TLAPS

(* An object is held once for each event it accepts.                       *)
Tally == \A o \in Objects : IsFiniteSet(events[o]) /\ holds[o] = Cardinality(events[o])

SameEvents == \A o \in Objects, e \in Events : e \in events[o] <=> acceptors[e][o] # None

(* The acceptances in the dictionaries are in force, each in one place.    *)
InForce ==
  /\ \A n \in ended : n <= Len(once)
  /\ \A e \in Events, o \in Objects : acceptors[e][o] # None =>
       acceptors[e][o] <= Len(once) /\ acceptors[e][o] \notin ended
  /\ \A e, f \in Events, o, p \in Objects :
       acceptors[e][o] # None /\ acceptors[e][o] = acceptors[f][p] => e = f /\ o = p

(* An acceptance for one time has ended when it was called.                *)
UsedUp ==
  \A i \in 1 .. Len(heard) :
    /\ heard[i][1] <= Len(once)
    /\ once[heard[i][1]] => heard[i][1] \in ended

(* Nor has one for one time been called while it is about to be, and one   *)
(* dispatch only is about to call it.                                      *)
Pending ==
  \A a \in calling : a.call # None =>
    /\ a.call <= Len(once)
    /\ once[a.call] =>
         /\ a.call \in ended
         /\ \A i \in 1 .. Len(heard) : heard[i][1] # a.call
         /\ \A b \in calling : b.call = a.call => b = a

Queued == {queue[i] : i \in 1 .. Len(queue)}

(* An acceptance in force was called by an event that was sent to it, or   *)
(* is about to be, or the event is on its way and finds it.                *)
Reached(n, s) ==
  \/ \E i \in 1 .. Len(heard) : heard[i] = <<n, s>>
  \/ \E a \in calling : a.send = s /\ a.call = n
  \/ \E q \in Queued : q.send = s /\ \E o \in Objects : Found(q, o) = n
  \/ \E a \in calling : a.send = s /\ \E o \in a.todo : Found(a, o) = n

AllReached ==
  raises = 0 => \A s \in 1 .. Len(sent) : \A n \in sent[s].to \ ended : n # None /\ Reached(n, s)

(* Of the queued events those whose calls were or are being made came      *)
(* before those in the queue.                                              *)
QueueSorted ==
  /\ \A i \in 1 .. Len(queue) : queue[i].send <= Len(sent) /\ sent[queue[i].send].queued
  /\ \A i, j \in 1 .. Len(queue) : i < j => queue[i].send < queue[j].send

CallsBeforeQueue ==
  \A a \in calling :
    /\ a.send <= Len(sent)
    /\ sent[a.send].queued <=> a.thread # Caller
    /\ a.thread # Caller => \A i \in 1 .. Len(queue) : a.send < queue[i].send

HeardBeforeQueue ==
  \A k \in 1 .. Len(heard) :
    /\ heard[k][2] <= Len(sent)
    /\ sent[heard[k][2]].queued => \A i \in 1 .. Len(queue) : heard[k][2] < queue[i].send

(* With one thread, those called already came before those being called.   *)
OneThread == \A t, u \in Threads : t = u

HeardBeforeCalls ==
  OneThread =>
    \A k \in 1 .. Len(heard), a \in calling :
      sent[heard[k][2]].queued /\ a.thread # Caller => heard[k][2] <= a.send

Pipeline == QueueSorted /\ CallsBeforeQueue /\ HeardBeforeQueue /\ HeardBeforeCalls

Ordered == OneThread => OrderKept

(* A thread makes the calls of one event at a time.                        *)
OneEach == \A a, b \in calling : a.thread # Caller /\ a.thread = b.thread => a = b

IInv ==
  /\ TypeOK
  /\ Tally
  /\ SameEvents
  /\ InForce
  /\ UsedUp
  /\ Pending
  /\ OnceOnly
  /\ AllReached
  /\ Pipeline
  /\ OneEach
  /\ Ordered
  /\ TaskForQueue

-------------------------------------------------------------------------------
(* Types and the table of held objects                                     *)

LEMMA BoundsAreNats == MaxAccepts \in Nat /\ MaxSends \in Nat /\ MaxRaises \in Nat
  BY BoundsAssumption

LEMMA Appended ==
  ASSUME NEW S, NEW s \in Seq(S), NEW x \in S
  PROVE  /\ Append(s, x) \in Seq(S)
         /\ Len(s) \in Nat
         /\ Len(Append(s, x)) = Len(s) + 1
         /\ \A i \in 1 .. Len(s) : Append(s, x)[i] = s[i]
         /\ Append(s, x)[Len(s) + 1] = x
         /\ \A i \in 1 .. Len(s) + 1 : i \in 1 .. Len(s) \/ i = Len(s) + 1
  OBVIOUS

LEMMA TailOf ==
  ASSUME NEW S, NEW s \in Seq(S), s # <<>>
  PROVE  /\ Head(s) = s[1] /\ Head(s) \in S
         /\ Tail(s) \in Seq(S)
         /\ Len(s) \in Nat /\ Len(s) >= 1
         /\ Len(Tail(s)) = Len(s) - 1
         /\ \A i \in 1 .. Len(Tail(s)) : Tail(s)[i] = s[i + 1]
         /\ \A i \in 1 .. Len(Tail(s)) : i + 1 \in 1 .. Len(s)
         /\ \A i \in 1 .. Len(s) : i = 1 \/ i - 1 \in 1 .. Len(Tail(s))
         /\ \A i \in 1 .. Len(s) : i # 1 => Tail(s)[i - 1] = s[i]
  OBVIOUS

LEMMA EntryOf ==
  ASSUME NEW S, NEW s \in Seq(S), NEW i \in 1 .. Len(s)
  PROVE  s[i] \in S
  OBVIOUS

LEMMA FoundTypes ==
  ASSUME TypeOK, NEW a, a.event \in Events, NEW o \in Objects
  PROVE  Found(a, o) \in Acceptances \cup {None}
  BY DEF TypeOK, Found

LEMMA LeaveTypes ==
  ASSUME TypeOK, NEW o \in Objects, NEW gone \in SUBSET Events, Leave(o, gone)
  PROVE  /\ acceptors' \in [Events -> [Objects -> Acceptances \cup {None}]]
         /\ table' \in [Events -> Nat]
         /\ ended' \subseteq Acceptances
  <1>1. ASSUME NEW e \in Events
        PROVE  (IF e \in gone THEN [acceptors[e] EXCEPT ![o] = None] ELSE acceptors[e])
                 \in [Objects -> Acceptances \cup {None}]
    BY DEF TypeOK
  <1>2. acceptors' \in [Events -> [Objects -> Acceptances \cup {None}]]
    BY <1>1 DEF Leave
  <1>3. table' \in [Events -> Nat]
    BY DEF Leave, TypeOK
  <1>4. \A e \in gone : acceptors[e][o] \in Acceptances \cup {None}
    BY DEF TypeOK
  <1>5. ended' \subseteq Acceptances
    BY <1>4 DEF Leave, TypeOK
  <1> QED
    BY <1>2, <1>3, <1>5

LEMMA ForgetTally ==
  ASSUME TypeOK, Tally, NEW o \in Objects, NEW gone \in SUBSET Events, Forget(o, gone)
  PROVE  /\ events' \in [Objects -> SUBSET Events]
         /\ holds' \in [Objects -> Nat]
         /\ Tally'
  <1>1. /\ events' = [events EXCEPT ![o] = @ \ gone]
        /\ holds' = [holds EXCEPT ![o] = @ - Cardinality(gone \cap events[o])]
        /\ events \in [Objects -> SUBSET Events] /\ holds \in [Objects -> Nat]
    BY DEF Forget, TypeOK
  <1>2. IsFiniteSet(events[o]) /\ holds[o] = Cardinality(events[o])
    BY DEF Tally
  <1>3. /\ IsFiniteSet(events[o] \ gone)
        /\ Cardinality(events[o] \ gone) = Cardinality(events[o]) - Cardinality(events[o] \cap gone)
    BY <1>2, FS_Difference
  <1>4. Cardinality(events[o] \ gone) \in Nat
    BY <1>3, FS_CardinalityType
  <1>5. events[o] \cap gone = gone \cap events[o]
    OBVIOUS
  <1>6. events'[o] = events[o] \ gone /\ holds'[o] = Cardinality(events[o] \ gone)
    BY <1>1, <1>2, <1>3, <1>5
  <1>7. \A p \in Objects : p # o => events'[p] = events[p] /\ holds'[p] = holds[p]
    BY <1>1
  <1>8. Tally'
    BY <1>3, <1>6, <1>7 DEF Tally
  <1>9. \A p \in Objects : holds'[p] \in Nat
    BY <1>1, <1>4, <1>6, <1>7
  <1>10. holds' \in [Objects -> Nat]
    <2>1. DOMAIN holds' = Objects /\ holds' = [p \in Objects |-> holds'[p]]
      BY <1>1
    <2> QED
      BY <1>9, <2>1
  <1> QED
    BY <1>1, <1>8, <1>10

LEMMA AcceptTypes ==
  ASSUME TypeOK, Tally, NEW o \in Objects, NEW e \in Events, NEW b \in BOOLEAN, Accept(o, e, b)
  PROVE  TypeOK' /\ Tally'
  <1>1. Len(once) + 1 \in Acceptances /\ once' \in Seq(BOOLEAN)
    BY BoundsAreNats DEF TypeOK, Accept, Acceptances
  <1>2. acceptors' \in [Events -> [Objects -> Acceptances \cup {None}]]
    BY <1>1 DEF TypeOK, Accept
  <1>3. ended' \subseteq Acceptances
    BY DEF TypeOK, Accept
  <1>4. /\ events' = [events EXCEPT ![o] = @ \cup {e}]
        /\ holds' = [holds EXCEPT ![o] = IF e \in events[o] THEN @ ELSE @ + 1]
        /\ events \in [Objects -> SUBSET Events] /\ holds \in [Objects -> Nat]
    BY DEF Accept, TypeOK
  <1>5. IsFiniteSet(events[o]) /\ holds[o] = Cardinality(events[o])
    BY DEF Tally
  <1>6. /\ IsFiniteSet(events[o] \cup {e})
        /\ Cardinality(events[o] \cup {e}) =
             IF e \in events[o] THEN Cardinality(events[o]) ELSE Cardinality(events[o]) + 1
    BY <1>5, FS_AddElement
  <1>7. events'[o] = events[o] \cup {e} /\ holds'[o] = Cardinality(events[o] \cup {e})
    BY <1>4, <1>5, <1>6
  <1>8. \A p \in Objects : p # o => events'[p] = events[p] /\ holds'[p] = holds[p]
    BY <1>4
  <1>9. Tally'
    BY <1>6, <1>7, <1>8 DEF Tally
  <1>10. events' \in [Objects -> SUBSET Events] /\ holds' \in [Objects -> Nat]
    BY <1>4
  <1> QED
    BY <1>1, <1>2, <1>3, <1>9, <1>10 DEF TypeOK, Accept, chain

LEMMA LeavingTypes ==
  ASSUME TypeOK, Tally, NEW o \in Objects, NEW gone \in SUBSET Events,
         Leave(o, gone), Forget(o, gone),
         UNCHANGED <<chain, calling, lock, once, sent, heard, raises>>
  PROVE  TypeOK' /\ Tally'
  <1>1. /\ acceptors' \in [Events -> [Objects -> Acceptances \cup {None}]]
        /\ table' \in [Events -> Nat]
        /\ ended' \subseteq Acceptances
    BY LeaveTypes
  <1>2. events' \in [Objects -> SUBSET Events] /\ holds' \in [Objects -> Nat] /\ Tally'
    BY ForgetTally
  <1> QED
    BY <1>1, <1>2 DEF TypeOK, chain

LEMMA SendTypes ==
  ASSUME TypeOK, Tally, NEW e \in Events, SendNow(e) \/ SendToChain(e)
  PROVE  TypeOK' /\ Tally'
  <1>1. Len(sent) + 1 \in Sends
    BY BoundsAreNats DEF TypeOK, SendNow, SendToChain, NewSend, Sends
  <1>2. {acceptors[e][o] : o \in Acceptors(e)} \in SUBSET Acceptances
    BY DEF TypeOK, Acceptors
  <1>3. ASSUME NEW q \in BOOLEAN, NewSend(e, q)
        PROVE  sent' \in Seq([to : SUBSET Acceptances, queued : BOOLEAN])
    <2>1. [to |-> {acceptors[e][o] : o \in Acceptors(e)}, queued |-> q]
            \in [to : SUBSET Acceptances, queued : BOOLEAN]
      BY <1>2
    <2> QED
      BY <1>3, <2>1 DEF NewSend, TypeOK
  <1>4. ASSUME NEW q \in BOOLEAN, NewSend(e, q) PROVE Tally'
    BY <1>4 DEF NewSend, tables, Tally
  <1>5. CASE SendNow(e)
    <2>1. [send |-> Len(sent) + 1, event |-> e, table |-> table[e],
           todo |-> Acceptors(e), call |-> None, thread |-> Caller] \in Activation
      BY <1>1 DEF TypeOK, Activation, Acceptors
    <2>2. calling' \subseteq Activation
      BY <1>5, <2>1 DEF SendNow, TypeOK
    <2>3. lock' \in Sends \cup {None}
      BY <1>1, <1>5 DEF SendNow
    <2>4. NewSend(e, FALSE)
      BY <1>5 DEF SendNow
    <2>5. sent' \in Seq([to : SUBSET Acceptances, queued : BOOLEAN]) /\ Tally'
      BY <1>3, <1>4, <2>4
    <2> QED
      BY <1>5, <2>2, <2>3, <2>4, <2>5 DEF TypeOK, SendNow, NewSend, tables
  <1>6. CASE SendToChain(e)
    <2>1. [send |-> Len(sent) + 1, event |-> e, table |-> table[e]]
            \in [send : Sends, event : Events, table : Nat]
      BY <1>1 DEF TypeOK
    <2>2. queue' \in Seq([send : Sends, event : Events, table : Nat])
      BY <1>6, <2>1 DEF SendToChain, TypeOK
    <2>3. tasks' \in Nat
      BY <1>6 DEF SendToChain, TypeOK
    <2>4. NewSend(e, TRUE)
      BY <1>6 DEF SendToChain
    <2>5. sent' \in Seq([to : SUBSET Acceptances, queued : BOOLEAN]) /\ Tally'
      BY <1>3, <1>4, <2>4
    <2> QED
      BY <1>6, <2>2, <2>3, <2>4, <2>5 DEF TypeOK, SendToChain, NewSend, tables
  <1> QED
    BY <1>5, <1>6

LEMMA ChainTypes ==
  ASSUME TypeOK, Tally, NEW t \in Threads, StartTask(t) \/ TakeEvent(t) \/ TaskDone(t)
  PROVE  TypeOK' /\ Tally'
  <1>1. CASE StartTask(t) \/ TaskDone(t)
    BY <1>1 DEF StartTask, TaskDone, TypeOK, Tally, tables
  <1>2. CASE TakeEvent(t)
    <2>1. /\ Head(queue) \in [send : Sends, event : Events, table : Nat]
          /\ queue' \in Seq([send : Sends, event : Events, table : Nat])
      BY <1>2, TailOf DEF TakeEvent, TypeOK
    <2>2. [send |-> Head(queue).send, event |-> Head(queue).event, table |-> Head(queue).table,
           todo |-> {o \in Objects : Found(Head(queue), o) # None}, call |-> None,
           thread |-> t] \in Activation
      BY <2>1 DEF Activation
    <2>3. calling' \subseteq Activation /\ lock' \in Sends \cup {None}
      BY <1>2, <2>1, <2>2 DEF TakeEvent, TypeOK
    <2> QED
      BY <1>2, <2>1, <2>3 DEF TakeEvent, TypeOK, Tally, tables
  <1> QED
    BY <1>1, <1>2

LEMMA ChosenIs ==
  ASSUME TypeOK, NEW a \in calling, NEW o \in a.todo, NEW passed \in SUBSET a.todo
  PROVE  /\ a \in Activation /\ o \in Objects /\ a.event \in Events /\ a.send \in Sends
         /\ a.todo \subseteq Objects /\ {a.event} \in SUBSET Events
         /\ Found(a, o) \in Acceptances \cup {None}
         /\ Chosen(a, o, passed) \in Activation
         /\ Chosen(a, o, passed).send = a.send
         /\ Chosen(a, o, passed).event = a.event
         /\ Chosen(a, o, passed).table = a.table
         /\ Chosen(a, o, passed).thread = a.thread
         /\ Chosen(a, o, passed).todo = a.todo \ ({o} \cup passed)
         /\ Chosen(a, o, passed).call = Found(a, o)
  <1>1. /\ a \in Activation /\ o \in Objects /\ a.event \in Events /\ a.send \in Sends
        /\ a.todo \subseteq Objects
    BY DEF TypeOK, Activation
  <1>2. Found(a, o) \in Acceptances \cup {None}
    BY <1>1, FoundTypes
  <1>3. PICK n : n = Found(a, o)
    OBVIOUS
  <1>4. Chosen(a, o, passed) = [a EXCEPT !.todo = a.todo \ ({o} \cup passed), !.call = n]
    BY <1>3 DEF Chosen
  <1> QED
    BY <1>1, <1>2, <1>3, <1>4 DEF Activation

LEMMA ChooseTypes ==
  ASSUME TypeOK, Tally, NEW a \in calling, NEW o \in a.todo, NEW passed \in SUBSET a.todo,
         Choose(a, o, passed)
  PROVE  TypeOK' /\ Tally'
  <1>1. o \in Objects /\ {a.event} \in SUBSET Events /\ Chosen(a, o, passed) \in Activation
    BY ChosenIs
  <1>2. calling' \subseteq Activation /\ lock' \in Sends \cup {None}
    BY <1>1 DEF Choose, TypeOK
  <1>3. CASE once[Found(a, o)]
    <2>1. Leave(o, {a.event}) /\ Forget(o, {a.event})
      BY <1>3 DEF Choose
    <2>2. /\ acceptors' \in [Events -> [Objects -> Acceptances \cup {None}]]
          /\ table' \in [Events -> Nat]
          /\ ended' \subseteq Acceptances
      BY <1>1, <2>1, LeaveTypes
    <2>3. events' \in [Objects -> SUBSET Events] /\ holds' \in [Objects -> Nat] /\ Tally'
      BY <1>1, <2>1, ForgetTally
    <2> QED
      BY <1>2, <2>2, <2>3 DEF TypeOK, Choose, chain
  <1>4. CASE ~once[Found(a, o)]
    BY <1>2, <1>4 DEF TypeOK, Tally, Choose, tables, chain
  <1> QED
    BY <1>3, <1>4

(* What a call adds to what was heard, and leaves of its dispatch.         *)
LEMMA Called ==
  ASSUME TypeOK, NEW a \in calling, Call(a)
  PROVE  \E d \in Activation :
           /\ d.send = a.send /\ d.event = a.event /\ d.table = a.table
           /\ d.todo = a.todo /\ d.thread = a.thread /\ d.call = None
           /\ calling' = (calling \ {a}) \cup {d}
           /\ a.call # None /\ a.call \in Acceptances
           /\ heard' \in Seq(Acceptances \X Sends)
           /\ Len(heard) \in Nat /\ Len(heard') = Len(heard) + 1
           /\ \A i \in 1 .. Len(heard) : heard'[i] = heard[i]
           /\ heard'[Len(heard) + 1] = <<a.call, a.send>>
           /\ \A i \in 1 .. Len(heard') : i \in 1 .. Len(heard) \/ i = Len(heard) + 1
  <1>1. a \in Activation
    BY DEF TypeOK
  <1>2. PICK d : d = [a EXCEPT !.call = None]
    OBVIOUS
  <1>3. /\ d \in Activation
        /\ d.send = a.send /\ d.event = a.event /\ d.table = a.table
        /\ d.todo = a.todo /\ d.thread = a.thread /\ d.call = None
    BY <1>1, <1>2 DEF Activation
  <1>4. calling' = (calling \ {a}) \cup {d}
    BY <1>2 DEF Call
  <1>5. a.call # None /\ a.call \in Acceptances /\ a.send \in Sends
    BY <1>1 DEF Call, Activation
  <1>6. PICK h : h = <<a.call, a.send>>
    OBVIOUS
  <1>7. h \in Acceptances \X Sends /\ heard' = Append(heard, h)
    BY <1>5, <1>6 DEF Call
  <1>8. heard \in Seq(Acceptances \X Sends)
    BY DEF TypeOK
  <1>9. /\ heard' \in Seq(Acceptances \X Sends)
        /\ Len(heard) \in Nat /\ Len(heard') = Len(heard) + 1
        /\ \A i \in 1 .. Len(heard) : heard'[i] = heard[i]
        /\ heard'[Len(heard) + 1] = h
        /\ \A i \in 1 .. Len(heard') : i \in 1 .. Len(heard) \/ i = Len(heard) + 1
    BY <1>7, <1>8, Appended
  <1> QED
    BY <1>3, <1>4, <1>5, <1>6, <1>9

LEMMA CallTypes ==
  ASSUME TypeOK, Tally, NEW a \in calling, Call(a)
  PROVE  TypeOK' /\ Tally'
  <1>1. calling' \subseteq Activation /\ heard' \in Seq(Acceptances \X Sends)
    BY Called DEF TypeOK
  <1> QED
    BY <1>1 DEF TypeOK, Tally, Call, tables, chain

LEMMA TypeNext ==
  ASSUME TypeOK, Tally, [Next]_vars
  PROVE  TypeOK' /\ Tally'
  <1>1. ASSUME NEW o \in Objects, NEW e \in Events, Ignore(o, e) PROVE TypeOK' /\ Tally'
    BY <1>1, LeavingTypes DEF Ignore
  <1>2. ASSUME NEW o \in Objects, IgnoreAll(o) PROVE TypeOK' /\ Tally'
    <2>1. events[o] \in SUBSET Events
      BY DEF TypeOK
    <2> QED
      BY <1>2, <2>1, LeavingTypes DEF IgnoreAll
  <1>3. ASSUME NEW a \in calling, Return(a) \/ Raise(a) PROVE TypeOK' /\ Tally'
    BY <1>3 DEF Return, Raise, TypeOK, Tally, tables, chain
  <1>4. CASE UNCHANGED vars
    BY <1>4 DEF TypeOK, Tally, vars, tables, chain
  <1> QED
    BY <1>1, <1>2, <1>3, <1>4, AcceptTypes, SendTypes, ChainTypes, ChooseTypes, CallTypes
    DEF Next, Go

-------------------------------------------------------------------------------
(* Acceptances in force and acceptances that have ended                    *)

(* What Leave does to an acceptance that was in force.                     *)
LEMMA LeaveEnds ==
  ASSUME TypeOK, InForce, NEW o \in Objects, NEW gone \in SUBSET Events, Leave(o, gone)
  PROVE  /\ ended \subseteq ended'
         /\ \A n \in ended' : n <= Len(once)
         /\ \A e \in Events, p \in Objects :
              /\ acceptors'[e][p] = IF e \in gone /\ p = o THEN None ELSE acceptors[e][p]
              /\ acceptors'[e][p] # None => acceptors'[e][p] \notin ended'
              /\ acceptors[e][p] # None /\ acceptors[e][p] \notin ended'
                   => acceptors'[e][p] = acceptors[e][p] /\ table'[e] = table[e]
  <1>1. /\ acceptors' = [e \in Events |-> IF e \in gone THEN [acceptors[e] EXCEPT ![o] = None]
                                                        ELSE acceptors[e]]
        /\ table' = [e \in Events |->
                       IF e \in gone /\ Acceptors(e) = {o} THEN table[e] + 1 ELSE table[e]]
        /\ ended' = ended \cup ({acceptors[e][o] : e \in gone} \ {None})
        /\ acceptors \in [Events -> [Objects -> Acceptances \cup {None}]]
    BY DEF Leave, TypeOK
  <1>2. \A n \in ended' : n <= Len(once)
    BY <1>1 DEF InForce
  <1>3. ASSUME NEW e \in Events, NEW p \in Objects
        PROVE  acceptors'[e][p] = IF e \in gone /\ p = o THEN None ELSE acceptors[e][p]
    BY <1>1
  <1>4. ASSUME NEW e \in Events, NEW p \in Objects, acceptors'[e][p] # None
        PROVE  acceptors'[e][p] \notin ended'
    <2>1. acceptors'[e][p] = acceptors[e][p] /\ ~(e \in gone /\ p = o)
      BY <1>3, <1>4
    <2>2. acceptors[e][p] \notin ended
      BY <1>4, <2>1 DEF InForce
    <2>3. ASSUME NEW f \in gone, acceptors[f][o] = acceptors[e][p] PROVE FALSE
      BY <1>4, <2>1, <2>3 DEF InForce
    <2> QED
      BY <1>1, <2>1, <2>2, <2>3
  <1>5. ASSUME NEW e \in Events, NEW p \in Objects,
               acceptors[e][p] # None, acceptors[e][p] \notin ended'
        PROVE  acceptors'[e][p] = acceptors[e][p] /\ table'[e] = table[e]
    <2>1. ~(e \in gone /\ p = o)
      BY <1>1, <1>5
    <2>2. p \in Acceptors(e)
      BY <1>5 DEF Acceptors
    <2> QED
      BY <1>1, <1>3, <2>1, <2>2
  <1> QED
    BY <1>1, <1>2, <1>3, <1>4, <1>5

(* Only acceptances in force are found.                                    *)
LEMMA FoundInForce ==
  ASSUME TypeOK, InForce, NEW a, a.event \in Events, NEW o \in Objects, Found(a, o) # None
  PROVE  /\ Found(a, o) = acceptors[a.event][o] /\ a.table = table[a.event]
         /\ Found(a, o) <= Len(once) /\ Found(a, o) \notin ended
         /\ Found(a, o) \in 1 .. Len(once)
  <1>1. Found(a, o) = acceptors[a.event][o] /\ a.table = table[a.event]
    BY DEF Found
  <1>2. Found(a, o) <= Len(once) /\ Found(a, o) \notin ended
    BY <1>1 DEF InForce
  <1>3. Found(a, o) \in Acceptances
    BY FoundTypes
  <1> QED
    BY <1>1, <1>2, <1>3 DEF Acceptances, TypeOK

LEMMA LeaveForget ==
  ASSUME TypeOK, InForce, SameEvents, NEW o \in Objects, NEW gone \in SUBSET Events,
         Leave(o, gone), Forget(o, gone), UNCHANGED once
  PROVE  InForce' /\ SameEvents'
  <1>1. /\ \A n \in ended' : n <= Len(once)
        /\ \A e \in Events, p \in Objects :
             /\ acceptors'[e][p] = IF e \in gone /\ p = o THEN None ELSE acceptors[e][p]
             /\ acceptors'[e][p] # None => acceptors'[e][p] \notin ended'
    BY LeaveEnds
  <1>2. \A p \in Objects : events'[p] = IF p = o THEN events[p] \ gone ELSE events[p]
    BY DEF Forget, TypeOK
  <1>3. SameEvents'
    BY <1>1, <1>2 DEF SameEvents
  <1>4. ASSUME NEW e \in Events, NEW p \in Objects, acceptors'[e][p] # None
        PROVE  acceptors'[e][p] <= Len(once')
    BY <1>1, <1>4 DEF InForce
  <1>5. ASSUME NEW e \in Events, NEW f \in Events, NEW p \in Objects, NEW q \in Objects,
               acceptors'[e][p] # None, acceptors'[e][p] = acceptors'[f][q]
        PROVE  e = f /\ p = q
    BY <1>1, <1>5 DEF InForce
  <1>6. InForce'
    BY <1>1, <1>4, <1>5 DEF InForce
  <1> QED
    BY <1>3, <1>6

LEMMA AcceptInForce ==
  ASSUME TypeOK, InForce, SameEvents, NEW o \in Objects, NEW e \in Events, NEW b \in BOOLEAN,
         Accept(o, e, b)
  PROVE  /\ InForce' /\ SameEvents'
         /\ ended \subseteq ended'
         /\ \A f \in Events, p \in Objects :
              acceptors[f][p] # None /\ acceptors[f][p] \notin ended'
                => acceptors'[f][p] = acceptors[f][p]
  <1> DEFINE n == Len(once) + 1
  <1>1. /\ n \in Nat /\ Len(once) \in Nat /\ n > Len(once) /\ Len(once') = n /\ n # None
        /\ \A i \in 1 .. Len(once) : once'[i] = once[i]
    BY Appended DEF TypeOK, Accept, None
  <1>2. /\ acceptors' = [acceptors EXCEPT ![e][o] = n]
        /\ ended' = ended \cup ({acceptors[e][o]} \ {None})
        /\ events' = [events EXCEPT ![o] = @ \cup {e}]
    BY DEF Accept
  <1> HIDE DEF n
  <1>3. ASSUME NEW f \in Events, NEW p \in Objects
        PROVE  acceptors'[f][p] = IF f = e /\ p = o THEN n ELSE acceptors[f][p]
    BY <1>2 DEF TypeOK
  <1>4. ASSUME NEW p \in Objects
        PROVE  events'[p] = IF p = o THEN events[p] \cup {e} ELSE events[p]
    BY <1>2 DEF TypeOK
  <1>5. SameEvents'
    <2>1. ASSUME NEW p \in Objects, NEW f \in Events
          PROVE  f \in events'[p] <=> acceptors'[f][p] # None
      <3>1. f \in events[p] <=> acceptors[f][p] # None
        BY DEF SameEvents
      <3>2. CASE f = e /\ p = o
        BY <1>1, <1>3, <1>4, <3>2
      <3>3. CASE ~(f = e /\ p = o)
        BY <1>3, <1>4, <3>1, <3>3
      <3> QED
        BY <3>2, <3>3
    <2> QED
      BY <2>1 DEF SameEvents
  <1>6. \A f \in Events, p \in Objects :
          acceptors[f][p] # None => acceptors[f][p] <= Len(once) /\ acceptors[f][p] \notin ended
    BY DEF InForce
  <1>7. \A m \in ended' : m <= Len(once) /\ m \in Nat
    <2>1. \A m \in ended : m <= Len(once)
      BY DEF InForce
    <2>2. ended \subseteq Nat /\ acceptors[e][o] \in Nat
      BY BoundsAreNats DEF TypeOK, Acceptances, None
    <2> QED
      BY <1>2, <1>6, <2>1, <2>2
  <1>8. n \notin ended'
    BY <1>1, <1>7
  <1>9. ASSUME NEW f \in Events, NEW p \in Objects, acceptors'[f][p] # None
        PROVE  acceptors'[f][p] <= Len(once') /\ acceptors'[f][p] \notin ended'
    <2>1. CASE f = e /\ p = o
      BY <1>1, <1>3, <1>8, <2>1
    <2>2. CASE ~(f = e /\ p = o)
      <3>1. acceptors'[f][p] = acceptors[f][p] /\ acceptors[f][p] # None
        BY <1>3, <1>9, <2>2
      <3>2. acceptors[f][p] # acceptors[e][o]
        BY <2>2, <3>1 DEF InForce
      <3>3. acceptors[f][p] \in Nat
        BY BoundsAreNats DEF TypeOK, Acceptances, None
      <3> QED
        BY <1>1, <1>2, <1>6, <3>1, <3>2, <3>3
    <2> QED
      BY <2>1, <2>2
  <1>10. ASSUME NEW f \in Events, NEW g \in Events, NEW p \in Objects, NEW q \in Objects,
                acceptors'[f][p] # None, acceptors'[f][p] = acceptors'[g][q]
         PROVE  f = g /\ p = q
    <2>1. \A h \in Events, r \in Objects : acceptors[h][r] # n
      <3>1. \A h \in Events, r \in Objects : acceptors[h][r] \in Nat
        BY BoundsAreNats DEF TypeOK, Acceptances, None
      <3> QED
        BY <1>1, <1>6, <3>1
    <2> QED
      BY <1>3, <1>10, <2>1 DEF InForce
  <1>11. InForce'
    <2>1. \A m \in ended' : m <= Len(once')
      BY <1>1, <1>7
    <2> QED
      BY <1>9, <1>10, <2>1 DEF InForce
  <1>12. ASSUME NEW f \in Events, NEW p \in Objects,
                acceptors[f][p] # None, acceptors[f][p] \notin ended'
         PROVE  acceptors'[f][p] = acceptors[f][p]
    BY <1>2, <1>3, <1>12
  <1> QED
    BY <1>2, <1>5, <1>11, <1>12

LEMMA ChooseLeaves ==
  ASSUME TypeOK, InForce, SameEvents, NEW a \in calling, NEW o \in a.todo,
         NEW passed \in SUBSET a.todo, Choose(a, o, passed)
  PROVE  /\ InForce' /\ SameEvents'
         /\ ended \subseteq ended'
         /\ once[Found(a, o)] => Found(a, o) \in ended'
         /\ \A f \in Events, p \in Objects :
              acceptors[f][p] # None /\ acceptors[f][p] \notin ended'
                => acceptors'[f][p] = acceptors[f][p] /\ table'[f] = table[f]
  <1>1. a \in Activation /\ o \in Objects /\ a.event \in Events /\ {a.event} \in SUBSET Events
    BY ChosenIs
  <1>2. CASE once[Found(a, o)]
    <2>1. Leave(o, {a.event}) /\ Forget(o, {a.event}) /\ UNCHANGED once
      BY <1>2 DEF Choose
    <2>2. InForce' /\ SameEvents'
      BY <1>1, <2>1, LeaveForget
    <2>3. /\ ended \subseteq ended'
          /\ \A f \in Events, p \in Objects :
               acceptors[f][p] # None /\ acceptors[f][p] \notin ended'
                 => acceptors'[f][p] = acceptors[f][p] /\ table'[f] = table[f]
      BY <1>1, <2>1, LeaveEnds
    <2>4. Found(a, o) = acceptors[a.event][o] /\ Found(a, o) # None
      BY <1>1, FoundInForce DEF Choose
    <2>5. Found(a, o) \in ended'
      BY <2>1, <2>4 DEF Leave
    <2> QED
      BY <2>2, <2>3, <2>5
  <1>3. CASE ~once[Found(a, o)]
    <2>1. UNCHANGED <<acceptors, table, events, ended, once>>
      BY <1>3 DEF Choose, tables
    <2>2. InForce' /\ SameEvents'
      BY <2>1 DEF InForce, SameEvents
    <2> QED
      BY <1>3, <2>1, <2>2
  <1> QED
    BY <1>2, <1>3

(* Steps that leave the tables alone and call nobody.                      *)
Elsewhere ==
  \/ \E e \in Events : SendNow(e) \/ SendToChain(e)
  \/ \E t \in Threads : StartTask(t) \/ TakeEvent(t) \/ TaskDone(t)
  \/ \E a \in calling : Return(a) \/ Raise(a)

LEMMA ElsewhereKeeps ==
  ASSUME Elsewhere
  PROVE  UNCHANGED <<acceptors, table, events, ended, once, heard>>
  BY DEF Elsewhere, SendNow, SendToChain, NewSend, StartTask, TakeEvent, TaskDone, Return, Raise,
         tables

(* ... nor do they turn to anybody.                                        *)
LEMMA ElsewhereTurns ==
  ASSUME Elsewhere
  PROVE  \A a \in calling' : a \in calling \/ a.call = None
  <1>1. ASSUME NEW e \in Events, SendNow(e)
        PROVE  \A a \in calling' : a \in calling \/ a.call = None
    BY <1>1 DEF SendNow
  <1>2. ASSUME NEW t \in Threads, TakeEvent(t)
        PROVE  \A a \in calling' : a \in calling \/ a.call = None
    BY <1>2 DEF TakeEvent
  <1> QED
    BY <1>1, <1>2 DEF Elsewhere, SendToChain, StartTask, TaskDone, Return, Raise

LEMMA Steps ==
  ASSUME TypeOK, Next
  PROVE  \/ \E o \in Objects, e \in Events, b \in BOOLEAN : Accept(o, e, b)
         \/ \E o \in Objects, gone \in SUBSET Events :
              /\ Leave(o, gone) /\ Forget(o, gone)
              /\ UNCHANGED <<chain, calling, lock, once, sent, heard, raises>>
         \/ \E a \in calling : \E o \in a.todo, passed \in SUBSET a.todo : Choose(a, o, passed)
         \/ \E a \in calling : Call(a)
         \/ Elsewhere
  <1>1. ASSUME NEW o \in Objects, NEW e \in Events, Ignore(o, e)
        PROVE  \E gone \in SUBSET Events :
                 /\ Leave(o, gone) /\ Forget(o, gone)
                 /\ UNCHANGED <<chain, calling, lock, once, sent, heard, raises>>
    <2>1. {e} \in SUBSET Events
      OBVIOUS
    <2>2. /\ Leave(o, {e}) /\ Forget(o, {e})
          /\ UNCHANGED <<chain, calling, lock, once, sent, heard, raises>>
      BY <1>1 DEF Ignore
    <2> QED
      BY <2>1, <2>2
  <1>2. ASSUME NEW o \in Objects, IgnoreAll(o)
        PROVE  \E gone \in SUBSET Events :
                 /\ Leave(o, gone) /\ Forget(o, gone)
                 /\ UNCHANGED <<chain, calling, lock, once, sent, heard, raises>>
    <2>1. events[o] \in SUBSET Events
      BY DEF TypeOK
    <2>2. /\ Leave(o, events[o]) /\ Forget(o, events[o])
          /\ UNCHANGED <<chain, calling, lock, once, sent, heard, raises>>
      BY <1>2 DEF IgnoreAll
    <2> QED
      BY <2>1, <2>2
  <1> QED
    BY <1>1, <1>2 DEF Next, Go, Elsewhere

LEMMA InForceNext ==
  ASSUME TypeOK, InForce, SameEvents, [Next]_vars
  PROVE  InForce' /\ SameEvents'
  <1>1. ASSUME NEW o \in Objects, NEW gone \in SUBSET Events, Leave(o, gone), Forget(o, gone),
               UNCHANGED <<chain, calling, lock, once, sent, heard, raises>>
        PROVE  InForce' /\ SameEvents'
    BY <1>1, LeaveForget
  <1>2. CASE Elsewhere \/ UNCHANGED vars
    <2>1. UNCHANGED <<acceptors, table, events, ended, once>>
      BY <1>2, ElsewhereKeeps DEF vars, tables
    <2> QED
      BY <2>1 DEF InForce, SameEvents
  <1>3. CASE Next
    <2>1. ASSUME NEW a \in calling, Call(a) PROVE InForce' /\ SameEvents'
      BY <2>1 DEF Call, tables, InForce, SameEvents
    <2> QED
      BY <1>1, <1>2, <1>3, <2>1, Steps, AcceptInForce, ChooseLeaves
  <1> QED
    BY <1>2, <1>3

(* Dispatches only end, or go on without having turned to anybody.         *)
LEMMA PendingStays ==
  ASSUME Pending, UNCHANGED heard, ended \subseteq ended',
         \A a \in calling' : a \in calling \/ a.call = None,
         \A a \in calling : a.call # None => a.call <= Len(once'),
         \A a \in calling : a.call # None => once'[a.call] = once[a.call]
  PROVE  Pending'
  <1> SUFFICES ASSUME NEW a \in calling', a.call # None
               PROVE  /\ a.call <= Len(once')
                      /\ once'[a.call] =>
                           /\ a.call \in ended'
                           /\ \A i \in 1 .. Len(heard) : heard[i][1] # a.call
                           /\ \A b \in calling' : b.call = a.call => b = a
    BY DEF Pending
  <1>1. a \in calling
    OBVIOUS
  <1>2. \A b \in calling' : b.call = a.call => b \in calling
    OBVIOUS
  <1> QED
    BY <1>1, <1>2 DEF Pending

(* A dispatch that turns to an acceptance turns to one in force.           *)
LEMMA ChoosePends ==
  ASSUME TypeOK, InForce, SameEvents, UsedUp, Pending, NEW a \in calling, NEW o \in a.todo,
         NEW passed \in SUBSET a.todo, Choose(a, o, passed)
  PROVE  UsedUp' /\ Pending'
  <1>1. PICK d : d = Chosen(a, o, passed)
    OBVIOUS
  <1>2. PICK n : n = Found(a, o)
    OBVIOUS
  <1>3. d.call = n /\ n # None /\ calling' = (calling \ {a}) \cup {d}
    BY <1>1, <1>2, ChosenIs DEF Choose
  <1>4. n \notin ended /\ n <= Len(once)
    <2>1. a.event \in Events /\ o \in Objects
      BY ChosenIs
    <2>2. Found(a, o) # None
      BY <1>2, <1>3
    <2> QED
      BY <1>2, <2>1, <2>2, FoundInForce
  <1>5. ended \subseteq ended' /\ (once[n] => n \in ended') /\ UNCHANGED <<heard, once>>
    BY <1>2, ChooseLeaves DEF Choose
  <1>6. UsedUp'
    BY <1>5 DEF UsedUp
  <1>7. \A i \in 1 .. Len(heard) : once[n] => heard[i][1] # n
    BY <1>4 DEF UsedUp
  <1>8. \A b \in calling : once[n] => b.call # n
    BY <1>3, <1>4 DEF Pending
  <1>9. ASSUME NEW b \in calling', b.call # None
        PROVE  /\ b.call <= Len(once)
               /\ once[b.call] =>
                    /\ b.call \in ended'
                    /\ \A i \in 1 .. Len(heard) : heard[i][1] # b.call
                    /\ \A c \in calling' : c.call = b.call => c = b
    <2>1. CASE b = d
      BY <1>3, <1>4, <1>5, <1>7, <1>8, <2>1
    <2>2. CASE b \in calling
      <3>1. once[b.call] => b.call # n
        BY <1>3, <1>4, <1>9, <2>2 DEF Pending
      <3> QED
        BY <1>3, <1>5, <1>9, <2>2, <3>1 DEF Pending
    <2> QED
      BY <1>3, <2>1, <2>2
  <1>10. Pending'
    BY <1>5, <1>9 DEF Pending
  <1> QED
    BY <1>6, <1>10

LEMMA CallOnce ==
  ASSUME TypeOK, UsedUp, Pending, OnceOnly, NEW a \in calling, Call(a)
  PROVE  UsedUp' /\ Pending' /\ OnceOnly'
  <1>1. PICK d \in Activation :
          /\ d.call = None
          /\ calling' = (calling \ {a}) \cup {d}
          /\ a.call # None
          /\ Len(heard) \in Nat /\ Len(heard') = Len(heard) + 1
          /\ \A i \in 1 .. Len(heard) : heard'[i] = heard[i]
          /\ heard'[Len(heard) + 1] = <<a.call, a.send>>
          /\ \A i \in 1 .. Len(heard') : i \in 1 .. Len(heard) \/ i = Len(heard) + 1
    BY Called
  <1>2. UNCHANGED <<ended, once>>
    BY DEF Call
  <1>3. PICK n : n = a.call
    OBVIOUS
  <1>4. /\ n <= Len(once)
        /\ once[n] => n \in ended
        /\ once[n] => \A i \in 1 .. Len(heard) : heard[i][1] # n
        /\ once[n] => \A b \in calling \ {a} : b.call # n
    BY <1>1, <1>3 DEF Pending
  <1>5. heard'[Len(heard) + 1][1] = n
    BY <1>1, <1>3
  <1>6. UsedUp'
    BY <1>1, <1>2, <1>4, <1>5 DEF UsedUp
  <1>7. Pending'
    <2> SUFFICES ASSUME NEW b \in calling', b.call # None
                 PROVE  /\ b.call <= Len(once)
                        /\ once[b.call] =>
                             /\ b.call \in ended
                             /\ \A i \in 1 .. Len(heard') : heard'[i][1] # b.call
                             /\ \A c \in calling' : c.call = b.call => c = b
      BY <1>2 DEF Pending
    <2>1. b \in calling /\ b # a
      BY <1>1
    <2>2. /\ b.call <= Len(once)
          /\ once[b.call] =>
               /\ b.call \in ended
               /\ \A i \in 1 .. Len(heard) : heard[i][1] # b.call
               /\ \A c \in calling : c.call = b.call => c = b
      BY <2>1 DEF Pending
    <2>3. once[b.call] => b.call # n
      BY <1>4, <2>1
    <2>4. once[b.call] => \A i \in 1 .. Len(heard') : heard'[i][1] # b.call
      BY <1>1, <1>5, <2>2, <2>3
    <2>5. once[b.call] => \A c \in calling' : c.call = b.call => c = b
      BY <1>1, <2>2
    <2> QED
      BY <2>2, <2>4, <2>5
  <1>8. OnceOnly'
    <2> SUFFICES ASSUME NEW i \in 1 .. Len(heard'), NEW j \in 1 .. Len(heard'),
                        once'[heard'[i][1]], heard'[i][1] = heard'[j][1]
                 PROVE  i = j
      BY DEF OnceOnly
    <2>1. CASE i \in 1 .. Len(heard) /\ j \in 1 .. Len(heard)
      BY <1>1, <1>2, <2>1 DEF OnceOnly
    <2>2. CASE i \in 1 .. Len(heard) /\ j = Len(heard) + 1
      BY <1>1, <1>2, <1>4, <1>5, <2>2
    <2>3. CASE j \in 1 .. Len(heard) /\ i = Len(heard) + 1
      BY <1>1, <1>2, <1>4, <1>5, <2>3
    <2> QED
      BY <1>1, <2>1, <2>2, <2>3
  <1> QED
    BY <1>6, <1>7, <1>8

LEMMA UsedUpNext ==
  ASSUME TypeOK, InForce, SameEvents, UsedUp, Pending, OnceOnly, [Next]_vars
  PROVE  UsedUp' /\ Pending' /\ OnceOnly'
  <1>0. heard \in Seq(Acceptances \X Sends) /\ once \in Seq(BOOLEAN) /\ Len(once) \in Nat
    BY DEF TypeOK
  <1>h. \A i \in 1 .. Len(heard) : heard[i][1] \in 1 .. Len(once)
    <2>1. \A i \in 1 .. Len(heard) : heard[i][1] \in Acceptances
      BY <1>0
    <2> QED
      BY <1>0, <2>1, BoundsAreNats DEF UsedUp, Acceptances
  <1>p. \A a \in calling : a.call # None => a.call \in 1 .. Len(once)
    BY <1>0, BoundsAreNats DEF TypeOK, Activation, Pending, Acceptances
  <1>1. ASSUME NEW o \in Objects, NEW e \in Events, NEW b \in BOOLEAN, Accept(o, e, b)
        PROVE  UsedUp' /\ Pending' /\ OnceOnly'
    <2>1. heard' = heard /\ once' = Append(once, b) /\ ended \subseteq ended' /\ calling' = calling
      BY <1>1 DEF Accept
    <2>2. Len(once') = Len(once) + 1 /\ \A i \in 1 .. Len(once) : once'[i] = once[i]
      BY <1>0, <2>1, Appended
    <2>3. Pending'
      BY <1>0, <1>p, <2>1, <2>2, PendingStays
    <2> QED
      BY <1>0, <1>h, <2>1, <2>2, <2>3 DEF UsedUp, OnceOnly
  <1>2. ASSUME NEW o \in Objects, NEW gone \in SUBSET Events, Leave(o, gone), Forget(o, gone),
               UNCHANGED <<chain, calling, lock, once, sent, heard, raises>>
        PROVE  UsedUp' /\ Pending' /\ OnceOnly'
    <2>1. heard' = heard /\ once' = once /\ ended \subseteq ended' /\ calling' = calling
      BY <1>2 DEF Leave
    <2>2. Pending'
      BY <2>1 DEF Pending
    <2> QED
      BY <2>1, <2>2 DEF UsedUp, OnceOnly
  <1>3. ASSUME NEW a \in calling, NEW o \in a.todo, NEW passed \in SUBSET a.todo,
               Choose(a, o, passed)
        PROVE  UsedUp' /\ Pending' /\ OnceOnly'
    <2>1. OnceOnly'
      BY <1>3 DEF Choose, OnceOnly
    <2> QED
      BY <1>3, <2>1, ChoosePends
  <1>4. CASE Elsewhere
    <2>1. UNCHANGED <<ended, once, heard>>
      BY <1>4, ElsewhereKeeps
    <2>2. Pending'
      BY <1>4, <2>1, ElsewhereTurns, PendingStays DEF Pending
    <2> QED
      BY <2>1, <2>2 DEF UsedUp, OnceOnly
  <1>5. CASE UNCHANGED vars
    BY <1>5 DEF vars, UsedUp, Pending, OnceOnly
  <1>6. CASE Next
    BY <1>1, <1>2, <1>3, <1>4, <1>6, CallOnce, Steps
  <1> QED
    BY <1>5, <1>6

(* A dispatch turns to acceptances in force only.                          *)
LEMMA TurnsInForce ==
  ASSUME TypeOK, InForce, [Next]_vars, NEW a \in calling', a.call \in ended, None \notin ended
  PROVE  \E b \in calling : b.send = a.send /\ b.call = a.call
  <1> SUFFICES ASSUME a \notin calling PROVE FALSE
    OBVIOUS
  <1>1. a.call # None
    OBVIOUS
  <1>2. calling' # calling
    OBVIOUS
  <1>3. Next
    BY <1>2 DEF vars
  <1>4. ~Elsewhere
    BY <1>1, ElsewhereTurns
  <1>5. ASSUME NEW b \in calling, Call(b) PROVE FALSE
    <2>1. PICK d \in Activation : d.call = None /\ calling' = (calling \ {b}) \cup {d}
      BY <1>5, Called
    <2> QED
      BY <1>1, <2>1
  <1>6. ASSUME NEW b \in calling, NEW o \in b.todo, NEW passed \in SUBSET b.todo,
               Choose(b, o, passed)
        PROVE  FALSE
    <2>1. a = Chosen(b, o, passed) /\ Found(b, o) # None
      BY <1>6 DEF Choose
    <2>2. a.call = Found(b, o) /\ b.event \in Events /\ o \in Objects
      BY <2>1, ChosenIs
    <2> QED
      BY <2>1, <2>2, FoundInForce
  <1>7. \A o \in Objects, e \in Events, b \in BOOLEAN : ~Accept(o, e, b)
    BY <1>2 DEF Accept
  <1> QED
    BY <1>2, <1>3, <1>4, <1>5, <1>6, <1>7, Steps

-------------------------------------------------------------------------------
(* Nobody is missed                                                        *)

(* Acceptances that do not end stay where they are.                        *)
Stay ==
  \A f \in Events, p \in Objects :
    acceptors[f][p] # None /\ acceptors[f][p] \notin ended'
      => acceptors'[f][p] = acceptors[f][p] /\ table'[f] = table[f]

LEMMA FoundStays ==
  ASSUME TypeOK, Stay, NEW a, a.event \in Events, NEW o \in Objects, NEW n,
         n # None, Found(a, o) = n, n \notin ended'
  PROVE  Found(a, o)' = n
  <1>1. acceptors[a.event][o] = n /\ a.table = table[a.event]
    BY DEF Found
  <1>2. acceptors'[a.event][o] = n /\ a.table = table'[a.event]
    BY <1>1 DEF Stay
  <1> QED
    BY <1>2 DEF Found

LEMMA QueueTypes ==
  ASSUME TypeOK
  PROVE  /\ \A i \in 1 .. Len(queue) : queue[i].event \in Events /\ queue[i].send \in Sends
         /\ \A q \in Queued : q.event \in Events
         /\ \A a \in calling : a.event \in Events /\ a.send \in Sends /\ a.todo \subseteq Objects
                               /\ a.thread \in Threads \cup {Caller}
         /\ Len(queue) \in Nat
  <1>1. queue \in Seq([send : Sends, event : Events, table : Nat])
    BY DEF TypeOK
  <1>2. \A i \in 1 .. Len(queue) : queue[i] \in [send : Sends, event : Events, table : Nat]
    BY <1>1, EntryOf
  <1>3. \A i \in 1 .. Len(queue) : queue[i].event \in Events /\ queue[i].send \in Sends
    BY <1>2
  <1>4. \A q \in Queued : q.event \in Events
    BY <1>3 DEF Queued
  <1>5. Len(queue) \in Nat
    BY <1>1
  <1> QED
    BY <1>3, <1>4, <1>5 DEF TypeOK, Activation

(* Steps that only change the tables.                                      *)
LEMMA ReachedStays ==
  ASSUME TypeOK, Stay, UNCHANGED <<queue, calling, heard>>,
         NEW n, NEW s, n # None, n \notin ended', Reached(n, s)
  PROVE  Reached(n, s)'
  <1>1. CASE \E i \in 1 .. Len(heard) : heard[i] = <<n, s>>
    BY <1>1 DEF Reached
  <1>c. CASE \E a \in calling : a.send = s /\ a.call = n
    BY <1>c DEF Reached
  <1>2. ASSUME NEW q \in Queued, q.send = s, NEW o \in Objects, Found(q, o) = n
        PROVE  Reached(n, s)'
    <2>1. q.event \in Events
      BY QueueTypes
    <2>2. Found(q, o)' = n
      BY <1>2, <2>1, FoundStays
    <2>3. q \in Queued'
      BY DEF Queued
    <2> QED
      BY <1>2, <2>2, <2>3 DEF Reached
  <1>3. ASSUME NEW a \in calling, a.send = s, NEW o \in a.todo, Found(a, o) = n
        PROVE  Reached(n, s)'
    <2>1. a.event \in Events /\ o \in Objects
      BY QueueTypes
    <2>2. Found(a, o)' = n
      BY <1>3, <2>1, FoundStays
    <2> QED
      BY <1>3, <2>2 DEF Reached
  <1> QED
    BY <1>1, <1>c, <1>2, <1>3 DEF Reached

(* Steps that leave the tables alone and do not lose what is on its way.   *)
LEMMA ReachedGrows ==
  ASSUME UNCHANGED <<acceptors, table>>,
         \A i \in 1 .. Len(heard) : \E j \in 1 .. Len(heard') : heard'[j] = heard[i],
         Queued \subseteq Queued',
         calling \subseteq calling',
         NEW n, NEW s, Reached(n, s)
  PROVE  Reached(n, s)'
  <1>1. CASE \E i \in 1 .. Len(heard) : heard[i] = <<n, s>>
    BY <1>1 DEF Reached
  <1>c. CASE \E a \in calling : a.send = s /\ a.call = n
    BY <1>c DEF Reached
  <1>2. ASSUME NEW q \in Queued, q.send = s, NEW o \in Objects, Found(q, o) = n
        PROVE  Reached(n, s)'
    <2>1. q \in Queued' /\ Found(q, o)' = n
      BY <1>2 DEF Found
    <2> QED
      BY <1>2, <2>1 DEF Reached
  <1>3. ASSUME NEW a \in calling, a.send = s, NEW o \in a.todo, Found(a, o) = n
        PROVE  Reached(n, s)'
    <2>1. a \in calling' /\ Found(a, o)' = n
      BY <1>3 DEF Found
    <2> QED
      BY <1>3, <2>1 DEF Reached
  <1> QED
    BY <1>1, <1>c, <1>2, <1>3 DEF Reached

LEMMA AllReachedSend ==
  ASSUME TypeOK, AllReached, NEW e \in Events, SendNow(e) \/ SendToChain(e)
  PROVE  AllReached'
  <1> SUFFICES ASSUME raises' = 0, NEW s \in 1 .. Len(sent'), NEW n \in sent'[s].to \ ended'
               PROVE  n # None /\ Reached(n, s)'
    BY DEF AllReached
  <1> DEFINE r(q) == [to |-> {acceptors[e][o] : o \in Acceptors(e)}, queued |-> q]
  <1>1. PICK q \in BOOLEAN : NewSend(e, q)
    BY DEF SendNow, SendToChain
  <1>2. /\ sent' = Append(sent, r(q)) /\ ended' = ended /\ raises' = raises /\ heard' = heard
        /\ UNCHANGED <<acceptors, table>>
    BY <1>1 DEF NewSend, tables
  <1>3. r(q) \in [to : SUBSET Acceptances, queued : BOOLEAN]
    BY DEF TypeOK, Acceptors
  <1>t. r(q).to = {acceptors[e][o] : o \in Acceptors(e)}
    OBVIOUS
  <1> HIDE DEF r
  <1>4. /\ Len(sent') = Len(sent) + 1 /\ sent'[Len(sent) + 1] = r(q)
        /\ \A i \in 1 .. Len(sent) : sent'[i] = sent[i]
        /\ \A i \in 1 .. Len(sent') : i \in 1 .. Len(sent) \/ i = Len(sent) + 1
    BY <1>2, <1>3, Appended DEF TypeOK
  <1> DEFINE c == [send |-> Len(sent) + 1, event |-> e, table |-> table[e],
                   todo |-> Acceptors(e), call |-> None, thread |-> Caller]
             w == [send |-> Len(sent) + 1, event |-> e, table |-> table[e]]
  <1>5. /\ Queued \subseteq Queued'
        /\ calling \subseteq calling'
        /\ c \in calling' \/ w \in Queued'
    <2>1. CASE SendNow(e)
      BY <2>1 DEF SendNow, Queued
    <2>2. CASE SendToChain(e)
      <3>1. w \in [send : Sends, event : Events, table : Nat]
        BY <2>2, BoundsAreNats DEF TypeOK, SendToChain, NewSend, Sends
      <3>2. queue' = Append(queue, w) /\ calling' = calling
        BY <2>2 DEF SendToChain
      <3> HIDE DEF w
      <3>3. /\ Len(queue) \in Nat /\ Len(queue') = Len(queue) + 1 /\ queue'[Len(queue) + 1] = w
            /\ \A i \in 1 .. Len(queue) : queue'[i] = queue[i]
        BY <3>1, <3>2, Appended DEF TypeOK
      <3>4. Len(queue) + 1 \in 1 .. Len(queue') /\ \A i \in 1 .. Len(queue) : i \in 1 .. Len(queue')
        BY <3>3
      <3> QED
        BY <3>2, <3>3, <3>4 DEF Queued
    <2> QED
      BY <2>1, <2>2
  <1>6. CASE s \in 1 .. Len(sent)
    <2>1. n \in sent[s].to \ ended /\ raises = 0
      BY <1>2, <1>4, <1>6
    <2>2. n # None /\ Reached(n, s)
      BY <1>6, <2>1 DEF AllReached
    <2>3. \A i \in 1 .. Len(heard) : \E j \in 1 .. Len(heard') : heard'[j] = heard[i]
      BY <1>2
    <2> HIDE DEF c, w
    <2> QED
      BY <1>2, <1>5, <2>2, <2>3, ReachedGrows
  <1>7. CASE s = Len(sent) + 1
    <2>1. PICK o \in Acceptors(e) : n = acceptors[e][o]
      BY <1>4, <1>7, <1>t
    <2>2. n # None /\ o \in Objects
      BY <2>1 DEF Acceptors
    <2>3. PICK d : d = c
      OBVIOUS
    <2>4. PICK v : v = w
      OBVIOUS
    <2>5. ASSUME c \in calling' PROVE Reached(n, s)'
      <3>1. d.send = s /\ o \in d.todo /\ Found(d, o)' = n
        BY <1>2, <1>7, <2>1, <2>3 DEF Found
      <3>2. d \in calling'
        BY <2>3, <2>5
      <3> QED
        BY <3>1, <3>2 DEF Reached
    <2>6. ASSUME w \in Queued' PROVE Reached(n, s)'
      <3>1. v.send = s /\ Found(v, o)' = n
        BY <1>2, <1>7, <2>1, <2>4 DEF Found
      <3>2. v \in Queued'
        BY <2>4, <2>6
      <3> QED
        BY <2>2, <3>1, <3>2 DEF Reached
    <2> QED
      BY <1>5, <2>2, <2>5, <2>6
  <1> QED
    BY <1>4, <1>6, <1>7

LEMMA AllReachedTables ==
  ASSUME TypeOK, AllReached, Stay, ended \subseteq ended',
         UNCHANGED <<queue, calling, heard, sent, raises>>
  PROVE  AllReached'
  <1> SUFFICES ASSUME raises' = 0, NEW s \in 1 .. Len(sent'), NEW n \in sent'[s].to \ ended'
               PROVE  n # None /\ Reached(n, s)'
    BY DEF AllReached
  <1>1. n # None /\ Reached(n, s)
    BY DEF AllReached
  <1> QED
    BY <1>1, ReachedStays

LEMMA AllReachedTake ==
  ASSUME TypeOK, AllReached, NEW t \in Threads, TakeEvent(t)
  PROVE  AllReached'
  <1> SUFFICES ASSUME raises' = 0, NEW s \in 1 .. Len(sent'), NEW n \in sent'[s].to \ ended'
               PROVE  n # None /\ Reached(n, s)'
    BY DEF AllReached
  <1>1. UNCHANGED <<acceptors, table, heard, sent, ended, raises>>
    BY DEF TakeEvent, tables
  <1>2. n # None /\ Reached(n, s)
    BY <1>1 DEF AllReached
  <1>3. PICK h : h = Head(queue)
    OBVIOUS
  <1>4. PICK d : d = [send |-> h.send, event |-> h.event, table |-> h.table,
                      todo |-> {o \in Objects : Found(h, o) # None}, call |-> None, thread |-> t]
    OBVIOUS
  <1>5. queue' = Tail(queue) /\ queue # <<>> /\ calling' = calling \cup {d}
    BY <1>3, <1>4 DEF TakeEvent
  <1>6. \A q \in Queued : q = h \/ q \in Queued'
    <2>1. /\ \A i \in 1 .. Len(queue) : i = 1 \/ i - 1 \in 1 .. Len(queue')
          /\ \A i \in 1 .. Len(queue) : i # 1 => queue'[i - 1] = queue[i]
          /\ h = queue[1]
      BY <1>3, <1>5, TailOf DEF TypeOK
    <2> QED
      BY <2>1 DEF Queued
  <1>7. CASE \E i \in 1 .. Len(heard) : heard[i] = <<n, s>>
    BY <1>1, <1>2, <1>7 DEF Reached
  <1>c. CASE \E a \in calling : a.send = s /\ a.call = n
    <2>1. \E a \in calling' : a.send = s /\ a.call = n
      BY <1>5, <1>c
    <2> QED
      BY <1>2, <2>1 DEF Reached
  <1>8. ASSUME NEW q \in Queued, q.send = s, NEW o \in Objects, Found(q, o) = n
        PROVE  Reached(n, s)'
    <2>1. Found(q, o)' = n
      BY <1>1, <1>8 DEF Found
    <2>2. CASE q = h
      <3>1. d.send = s /\ o \in d.todo /\ d \in calling'
        BY <1>2, <1>4, <1>5, <1>8, <2>2
      <3>2. d.event = q.event /\ d.table = q.table
        BY <1>4, <2>2
      <3>3. Found(d, o)' = n
        BY <2>1, <3>2 DEF Found
      <3> QED
        BY <3>1, <3>3 DEF Reached
    <2>3. CASE q \in Queued'
      BY <1>8, <2>1, <2>3 DEF Reached
    <2> QED
      BY <1>6, <2>2, <2>3
  <1>9. ASSUME NEW a \in calling, a.send = s, NEW o \in a.todo, Found(a, o) = n
        PROVE  Reached(n, s)'
    <2>1. a \in calling' /\ Found(a, o)' = n
      BY <1>1, <1>5, <1>9 DEF Found
    <2> QED
      BY <1>9, <2>1 DEF Reached
  <1> QED
    BY <1>2, <1>7, <1>c, <1>8, <1>9 DEF Reached

LEMMA AllReachedReturn ==
  ASSUME TypeOK, AllReached, NEW a \in calling, Return(a)
  PROVE  AllReached'
  <1> SUFFICES ASSUME raises' = 0, NEW s \in 1 .. Len(sent'), NEW n \in sent'[s].to \ ended'
               PROVE  n # None /\ Reached(n, s)'
    BY DEF AllReached
  <1>1. /\ UNCHANGED <<acceptors, table, queue, heard, sent, ended, raises>>
        /\ calling' = calling \ {a}
        /\ a.call = None
        /\ \A o \in a.todo : Found(a, o) = None
    BY DEF Return, tables, chain
  <1>2. n # None /\ Reached(n, s)
    BY <1>1 DEF AllReached
  <1>3. CASE \E i \in 1 .. Len(heard) : heard[i] = <<n, s>>
    BY <1>1, <1>2, <1>3 DEF Reached
  <1>c. CASE \E b \in calling : b.send = s /\ b.call = n
    BY <1>1, <1>2, <1>c DEF Reached
  <1>4. ASSUME NEW q \in Queued, q.send = s, NEW o \in Objects, Found(q, o) = n
        PROVE  Reached(n, s)'
    <2>1. q \in Queued' /\ Found(q, o)' = n
      BY <1>1, <1>4 DEF Found, Queued
    <2> QED
      BY <1>4, <2>1 DEF Reached
  <1>5. ASSUME NEW b \in calling, b.send = s, NEW o \in b.todo, Found(b, o) = n
        PROVE  Reached(n, s)'
    <2>1. b \in calling' /\ Found(b, o)' = n
      BY <1>1, <1>2, <1>5 DEF Found
    <2> QED
      BY <1>5, <2>1 DEF Reached
  <1> QED
    BY <1>2, <1>3, <1>c, <1>4, <1>5 DEF Reached

LEMMA AllReachedChoose ==
  ASSUME TypeOK, InForce, SameEvents, AllReached, NEW a \in calling, NEW o \in a.todo,
         NEW passed \in SUBSET a.todo, Choose(a, o, passed)
  PROVE  AllReached'
  <1> SUFFICES ASSUME raises' = 0, NEW s \in 1 .. Len(sent'), NEW n \in sent'[s].to \ ended'
               PROVE  n # None /\ Reached(n, s)'
    BY DEF AllReached
  <1>1. UNCHANGED <<queue, sent, heard, raises>> /\ Stay /\ ended \subseteq ended'
    BY ChooseLeaves DEF Choose, chain, Stay
  <1>2. n # None /\ Reached(n, s) /\ n \notin ended'
    BY <1>1 DEF AllReached
  <1>3. PICK d : d = Chosen(a, o, passed)
    OBVIOUS
  <1>4. /\ d.send = a.send /\ d.event = a.event /\ d.table = a.table
        /\ d.todo = a.todo \ ({o} \cup passed) /\ d.call = Found(a, o)
    BY <1>3, ChosenIs
  <1>5. /\ calling' = (calling \ {a}) \cup {d} /\ a.call = None
        /\ \A p \in passed : Found(a, p) = None
    BY <1>3 DEF Choose
  <1>6. CASE \E i \in 1 .. Len(heard) : heard[i] = <<n, s>>
    BY <1>1, <1>2, <1>6 DEF Reached
  <1>7. CASE \E b \in calling : b.send = s /\ b.call = n
    BY <1>2, <1>5, <1>7 DEF Reached
  <1>8. ASSUME NEW q \in Queued, q.send = s, NEW p \in Objects, Found(q, p) = n
        PROVE  Reached(n, s)'
    <2>1. q.event \in Events
      BY QueueTypes
    <2>2. Found(q, p)' = n
      BY <1>1, <1>2, <1>8, <2>1, FoundStays
    <2>3. q \in Queued'
      BY <1>1 DEF Queued
    <2> QED
      BY <1>8, <2>2, <2>3 DEF Reached
  <1>9. ASSUME NEW b \in calling, b.send = s, NEW p \in b.todo, Found(b, p) = n
        PROVE  Reached(n, s)'
    <2>1. b.event \in Events /\ p \in Objects
      BY QueueTypes
    <2>2. Found(b, p)' = n
      BY <1>1, <1>2, <1>9, <2>1, FoundStays
    <2>3. CASE b # a
      BY <1>5, <1>9, <2>2, <2>3 DEF Reached
    <2>4. CASE b = a /\ p = o
      <3>1. d \in calling' /\ d.send = s /\ d.call = n
        BY <1>4, <1>5, <1>9, <2>4
      <3> QED
        BY <3>1 DEF Reached
    <2>5. CASE b = a /\ p # o
      <3>1. p \in d.todo
        BY <1>2, <1>4, <1>5, <1>9, <2>5
      <3>2. Found(d, p)' = n
        BY <1>4, <2>2, <2>5 DEF Found
      <3>3. d \in calling' /\ d.send = s
        BY <1>4, <1>5, <1>9, <2>5
      <3> QED
        BY <3>1, <3>2, <3>3 DEF Reached
    <2> QED
      BY <2>3, <2>4, <2>5
  <1> QED
    BY <1>2, <1>6, <1>7, <1>8, <1>9 DEF Reached

LEMMA AllReachedCall ==
  ASSUME TypeOK, AllReached, NEW a \in calling, Call(a)
  PROVE  AllReached'
  <1> SUFFICES ASSUME raises' = 0, NEW s \in 1 .. Len(sent'), NEW n \in sent'[s].to \ ended'
               PROVE  n # None /\ Reached(n, s)'
    BY DEF AllReached
  <1>1. UNCHANGED <<acceptors, table, queue, sent, ended, raises>>
    BY DEF Call, tables, chain
  <1>2. n # None /\ Reached(n, s)
    BY <1>1 DEF AllReached
  <1>3. PICK d \in Activation :
          /\ d.send = a.send /\ d.event = a.event /\ d.table = a.table /\ d.todo = a.todo
          /\ calling' = (calling \ {a}) \cup {d}
          /\ Len(heard) \in Nat /\ Len(heard') = Len(heard) + 1
          /\ \A i \in 1 .. Len(heard) : heard'[i] = heard[i]
          /\ heard'[Len(heard) + 1] = <<a.call, a.send>>
    BY Called
  <1>4. CASE \E i \in 1 .. Len(heard) : heard[i] = <<n, s>>
    <2>1. \E i \in 1 .. Len(heard') : heard'[i] = <<n, s>>
      BY <1>3, <1>4
    <2> QED
      BY <1>2, <2>1 DEF Reached
  <1>5. ASSUME NEW b \in calling, b.send = s, b.call = n
        PROVE  Reached(n, s)'
    <2>1. CASE b = a
      <3>1. heard'[Len(heard) + 1] = <<n, s>> /\ Len(heard) + 1 \in 1 .. Len(heard')
        BY <1>3, <1>5, <2>1
      <3> QED
        BY <3>1 DEF Reached
    <2>2. CASE b # a
      BY <1>3, <1>5, <2>2 DEF Reached
    <2> QED
      BY <2>1, <2>2
  <1>6. ASSUME NEW q \in Queued, q.send = s, NEW p \in Objects, Found(q, p) = n
        PROVE  Reached(n, s)'
    <2>1. q \in Queued' /\ Found(q, p)' = n
      BY <1>1, <1>6 DEF Queued, Found
    <2> QED
      BY <1>6, <2>1 DEF Reached
  <1>7. ASSUME NEW b \in calling, b.send = s, NEW p \in b.todo, Found(b, p) = n
        PROVE  Reached(n, s)'
    <2>1. PICK f \in {b, d} : f \in calling' /\ f.send = b.send /\ f.event = b.event
                             /\ f.table = b.table /\ f.todo = b.todo
      BY <1>3
    <2>2. Found(f, p)' = n
      BY <1>1, <1>7, <2>1 DEF Found
    <2> QED
      BY <1>7, <2>1, <2>2 DEF Reached
  <1> QED
    BY <1>2, <1>4, <1>5, <1>6, <1>7 DEF Reached

LEMMA AllReachedNext ==
  ASSUME TypeOK, InForce, SameEvents, AllReached, [Next]_vars
  PROVE  AllReached'
  <1>1. ASSUME NEW o \in Objects, NEW e \in Events, NEW b \in BOOLEAN, Accept(o, e, b)
        PROVE  AllReached'
    <2>1. Stay /\ ended \subseteq ended'
      BY <1>1, AcceptInForce DEF Accept, Stay
    <2> QED
      BY <1>1, <2>1, AllReachedTables DEF Accept, chain
  <1>2. ASSUME NEW o \in Objects, NEW gone \in SUBSET Events, Leave(o, gone), Forget(o, gone),
               UNCHANGED <<chain, calling, lock, once, sent, heard, raises>>
        PROVE  AllReached'
    <2>1. Stay /\ ended \subseteq ended'
      BY <1>2, LeaveEnds DEF Stay
    <2> QED
      BY <1>2, <2>1, AllReachedTables DEF chain
  <1>3. ASSUME NEW t \in Threads, StartTask(t) \/ TaskDone(t) PROVE AllReached'
    <2>1. /\ UNCHANGED <<acceptors, table, queue, calling, heard, sent, ended, raises>>
      BY <1>3 DEF StartTask, TaskDone, tables
    <2> QED
      BY <2>1, AllReachedTables DEF Stay
  <1>4. ASSUME NEW a \in calling, Raise(a) PROVE AllReached'
    BY <1>4 DEF Raise, AllReached, TypeOK
  <1>5. CASE Elsewhere
    BY <1>3, <1>4, <1>5, AllReachedSend, AllReachedTake, AllReachedReturn DEF Elsewhere
  <1>6. CASE UNCHANGED vars
    BY <1>6, AllReachedTables DEF vars, tables, chain, Stay
  <1>7. CASE Next
    BY <1>1, <1>2, <1>5, <1>7, AllReachedChoose, AllReachedCall, Steps
  <1> QED
    BY <1>6, <1>7

-------------------------------------------------------------------------------
(* The order of events                                                     *)

(* What the following speak of: numbers of sends, as numbers.              *)
LEMMA SendNumbers ==
  ASSUME TypeOK
  PROVE  /\ Len(sent) \in Nat /\ Len(heard) \in Nat /\ Len(queue) \in Nat
         /\ \A s \in Sends : s \in Nat /\ s >= 1
         /\ \A a \in calling : a.send \in Nat /\ a.send >= 1
         /\ \A i \in 1 .. Len(queue) : queue[i].send \in Nat /\ queue[i].send >= 1
         /\ \A k \in 1 .. Len(heard) : heard[k][2] \in Nat /\ heard[k][2] >= 1
  <1>1. \A s \in Sends : s \in Nat /\ s >= 1
    BY BoundsAreNats DEF Sends
  <1>2. \A k \in 1 .. Len(heard) : heard[k] \in Acceptances \X Sends
    BY EntryOf DEF TypeOK
  <1>3. \A k \in 1 .. Len(heard) : heard[k][2] \in Sends
    BY <1>2
  <1>4. Len(sent) \in Nat /\ Len(heard) \in Nat
    BY DEF TypeOK
  <1> QED
    BY <1>1, <1>3, <1>4, QueueTypes

LEMMA PipelineSame ==
  ASSUME UNCHANGED <<queue, heard, sent>>, calling' \subseteq calling,
         Pipeline, OneEach, Ordered
  PROVE  Pipeline' /\ OneEach' /\ Ordered'
  BY DEF Pipeline, QueueSorted, CallsBeforeQueue, HeardBeforeQueue, HeardBeforeCalls, OneEach,
         Ordered, OrderKept

LEMMA PipelineSend ==
  ASSUME TypeOK, Pipeline, OneEach, Ordered, NEW e \in Events, SendNow(e) \/ SendToChain(e)
  PROVE  Pipeline' /\ OneEach' /\ Ordered'
  <1>1. PICK q \in BOOLEAN : NewSend(e, q) /\ (q <=> SendToChain(e)) /\ (~q => SendNow(e))
    <2>1. CASE SendToChain(e)
      BY <2>1 DEF SendToChain
    <2>2. CASE ~SendToChain(e)
      BY <2>2 DEF SendNow
    <2> QED
      BY <2>1, <2>2
  <1>2. PICK r : r = [to |-> {acceptors[e][o] : o \in Acceptors(e)}, queued |-> q]
    OBVIOUS
  <1>3. r \in [to : SUBSET Acceptances, queued : BOOLEAN] /\ r.queued = q
    BY <1>2 DEF TypeOK, Acceptors
  <1>4. sent' = Append(sent, r) /\ heard' = heard
    BY <1>1, <1>2 DEF NewSend
  <1>5. /\ Len(sent') = Len(sent) + 1 /\ Len(sent) \in Nat /\ sent'[Len(sent) + 1] = r
        /\ \A i \in 1 .. Len(sent) : sent'[i] = sent[i]
    BY <1>3, <1>4, Appended DEF TypeOK
  <1>6. /\ \A a \in calling : a.send \in 1 .. Len(sent)
        /\ \A i \in 1 .. Len(queue) : queue[i].send \in 1 .. Len(sent)
        /\ \A k \in 1 .. Len(heard) : heard[k][2] \in 1 .. Len(sent)
    BY <1>5, SendNumbers DEF Pipeline, QueueSorted, CallsBeforeQueue, HeardBeforeQueue
  <1>7. Ordered'
    BY <1>4, <1>5, <1>6, SMTT(40) DEF Ordered, OrderKept
  <1>8. CASE q
    <2>1. PICK w : w = [send |-> Len(sent) + 1, event |-> e, table |-> table[e]]
      OBVIOUS
    <2>2. queue' = Append(queue, w) /\ calling' = calling
      BY <1>1, <1>8, <2>1 DEF SendToChain
    <2>3. w \in [send : Sends, event : Events, table : Nat] /\ w.send = Len(sent) + 1
      BY <1>1, <2>1, BoundsAreNats DEF TypeOK, NewSend, Sends
    <2>4. /\ Len(queue) \in Nat /\ Len(queue') = Len(queue) + 1 /\ queue'[Len(queue) + 1] = w
          /\ \A i \in 1 .. Len(queue) : queue'[i] = queue[i]
          /\ \A i \in 1 .. Len(queue') : i \in 1 .. Len(queue) \/ i = Len(queue) + 1
      BY <2>2, <2>3, Appended DEF TypeOK
    <2>5. \A i \in 1 .. Len(queue') :
            queue'[i].send = IF i = Len(queue) + 1 THEN Len(sent) + 1 ELSE queue[i].send
      BY <2>3, <2>4
    <2>6. QueueSorted'
      <3>1. \A i \in 1 .. Len(queue') : queue'[i].send <= Len(sent') /\ sent'[queue'[i].send].queued
        <4> SUFFICES ASSUME NEW i \in 1 .. Len(queue')
                     PROVE  queue'[i].send <= Len(sent') /\ sent'[queue'[i].send].queued
          OBVIOUS
        <4>1. CASE i \in 1 .. Len(queue)
          <5>1. queue'[i].send = queue[i].send /\ queue[i].send \in 1 .. Len(sent)
            BY <1>6, <2>4, <4>1
          <5>2. sent[queue[i].send].queued
            BY <4>1 DEF Pipeline, QueueSorted
          <5>3. sent'[queue[i].send].queued
            BY <1>5, <5>1, <5>2
          <5> QED
            BY <1>5, <5>1, <5>3
        <4>2. CASE i = Len(queue) + 1
          <5>1. queue'[i].send = Len(sent) + 1
            BY <2>5, <4>2
          <5>2. queue'[i].send <= Len(sent')
            BY <1>5, <5>1
          <5>3. sent'[queue'[i].send] = r
            BY <1>5, <5>1
          <5>4. r.queued
            BY <1>3, <1>8, Zenon
          <5> QED
            BY <5>2, <5>3, <5>4, Zenon
        <4> QED
          BY <2>4, <4>1, <4>2
      <3>2. \A i, j \in 1 .. Len(queue') : i < j => queue'[i].send < queue'[j].send
        <4> SUFFICES ASSUME NEW i \in 1 .. Len(queue'), NEW j \in 1 .. Len(queue'), i < j
                     PROVE  queue'[i].send < queue'[j].send
          OBVIOUS
        <4>1. i \in 1 .. Len(queue) /\ queue'[i].send = queue[i].send
          BY <2>4, <2>5
        <4>2. CASE j = Len(queue) + 1
          <5>1. queue[i].send \in 1 .. Len(sent)
            BY <1>6, <4>1
          <5>2. queue'[j].send = Len(sent) + 1
            BY <2>5, <4>2
          <5> QED
            BY <1>5, <4>1, <5>1, <5>2
        <4>3. CASE j # Len(queue) + 1
          <5>1. j \in 1 .. Len(queue) /\ queue'[j].send = queue[j].send
            BY <2>4, <2>5, <4>3
          <5>2. queue[i].send < queue[j].send
            BY <4>1, <5>1 DEF Pipeline, QueueSorted
          <5> QED
            BY <4>1, <5>1, <5>2
        <4> QED
          BY <4>2, <4>3
      <3> QED
        BY <3>1, <3>2 DEF QueueSorted
    <2>7. CallsBeforeQueue'
      <3> SUFFICES ASSUME NEW a \in calling
                   PROVE  /\ a.send <= Len(sent')
                          /\ sent'[a.send].queued <=> a.thread # Caller
                          /\ a.thread # Caller =>
                               \A i \in 1 .. Len(queue') : a.send < queue'[i].send
        BY <2>2 DEF CallsBeforeQueue
      <3>1. a.send \in 1 .. Len(sent) /\ sent'[a.send] = sent[a.send]
        BY <1>5, <1>6
      <3>2. sent[a.send].queued <=> a.thread # Caller
        BY DEF Pipeline, CallsBeforeQueue
      <3>3. ASSUME a.thread # Caller, NEW i \in 1 .. Len(queue')
            PROVE  a.send < queue'[i].send
        <4>1. CASE i \in 1 .. Len(queue)
          BY <2>4, <3>3, <4>1 DEF Pipeline, CallsBeforeQueue
        <4>2. CASE i = Len(queue) + 1
          BY <1>5, <2>5, <3>1, <4>2
        <4> QED
          BY <2>4, <4>1, <4>2
      <3>4. a.send <= Len(sent')
        BY <1>5, <3>1
      <3>5. sent'[a.send].queued <=> a.thread # Caller
        BY <3>1, <3>2, Zenon
      <3> QED
        BY <3>3, <3>4, <3>5
    <2>8. HeardBeforeQueue'
      <3> SUFFICES ASSUME NEW k \in 1 .. Len(heard)
                   PROVE  /\ heard[k][2] <= Len(sent')
                          /\ sent'[heard[k][2]].queued =>
                               \A i \in 1 .. Len(queue') : heard[k][2] < queue'[i].send
        BY <1>4 DEF HeardBeforeQueue
      <3>1. heard[k][2] \in 1 .. Len(sent) /\ sent'[heard[k][2]] = sent[heard[k][2]]
        BY <1>5, <1>6
      <3>2. ASSUME sent[heard[k][2]].queued, NEW i \in 1 .. Len(queue')
            PROVE  heard[k][2] < queue'[i].send
        <4>1. CASE i \in 1 .. Len(queue)
          BY <2>4, <3>2, <4>1 DEF Pipeline, HeardBeforeQueue
        <4>2. CASE i = Len(queue) + 1
          BY <1>5, <2>5, <3>1, <4>2
        <4> QED
          BY <2>4, <4>1, <4>2
      <3> QED
        BY <1>5, <3>1, <3>2
    <2>9. HeardBeforeCalls'
      BY <1>4, <1>5, <1>6, <2>2 DEF Pipeline, HeardBeforeCalls
    <2>10. OneEach'
      BY <2>2 DEF OneEach
    <2> QED
      BY <1>7, <2>6, <2>7, <2>8, <2>9, <2>10 DEF Pipeline
  <1>9. CASE ~q
    <2>1. PICK c : c = [send |-> Len(sent) + 1, event |-> e, table |-> table[e],
                        todo |-> Acceptors(e), call |-> None, thread |-> Caller]
      OBVIOUS
    <2>2. queue' = queue /\ calling' = calling \cup {c}
      BY <1>1, <1>9, <2>1 DEF SendNow
    <2>3. c.send = Len(sent) + 1 /\ c.thread = Caller
      BY <2>1
    <2>4. QueueSorted'
      BY <1>5, <1>6, <2>2 DEF Pipeline, QueueSorted
    <2>5. CallsBeforeQueue'
      BY <1>3, <1>5, <1>6, <1>9, <2>2, <2>3 DEF Pipeline, CallsBeforeQueue
    <2>6. HeardBeforeQueue'
      BY <1>4, <1>5, <1>6, <2>2 DEF Pipeline, HeardBeforeQueue
    <2>7. HeardBeforeCalls'
      BY <1>4, <1>5, <1>6, <2>2, <2>3 DEF Pipeline, HeardBeforeCalls
    <2>8. OneEach'
      BY <2>2, <2>3 DEF OneEach
    <2> QED
      BY <1>7, <2>4, <2>5, <2>6, <2>7, <2>8 DEF Pipeline
  <1> QED
    BY <1>8, <1>9

LEMMA PipelineTake ==
  ASSUME TypeOK, Pipeline, OneEach, Ordered, NEW t \in Threads, TakeEvent(t)
  PROVE  Pipeline' /\ OneEach' /\ Ordered'
  <1>1. UNCHANGED <<heard, sent>> /\ ~Busy(t)
    BY DEF TakeEvent
  <1>2. PICK d : d = [send |-> Head(queue).send, event |-> Head(queue).event,
                      table |-> Head(queue).table,
                      todo |-> {o \in Objects : Found(Head(queue), o) # None},
                      call |-> None, thread |-> t]
    OBVIOUS
  <1>3. queue' = Tail(queue) /\ queue # <<>> /\ calling' = calling \cup {d}
    BY <1>2 DEF TakeEvent
  <1>4. /\ Len(queue) \in Nat /\ 1 \in 1 .. Len(queue)
        /\ d.send = queue[1].send
        /\ \A i \in 1 .. Len(queue') : queue'[i] = queue[i + 1] /\ i + 1 \in 1 .. Len(queue)
        /\ Len(queue') = Len(queue) - 1
    BY <1>2, <1>3, TailOf DEF TypeOK
  <1>5. d.thread = t /\ t # Caller
    BY <1>2, CallerAssumption
  <1>6. ASSUME NEW i \in 1 .. Len(queue')
        PROVE  d.send < queue'[i].send
    <2>1. \A j \in 1 .. Len(queue) : 1 < j => queue[1].send < queue[j].send
      BY <1>4 DEF Pipeline, QueueSorted
    <2>2. queue'[i].send = queue[i + 1].send /\ i + 1 \in 1 .. Len(queue)
      BY <1>4
    <2>3. 1 < i + 1
      BY <1>4
    <2>4. queue[1].send < queue[i + 1].send
      BY <2>1, <2>2, <2>3
    <2> QED
      BY <1>4, <2>2, <2>4
  <1>7. QueueSorted'
    <2>1. ASSUME NEW i \in 1 .. Len(queue'), NEW j \in 1 .. Len(queue'), i < j
          PROVE  queue'[i].send < queue'[j].send
      <3>1. /\ queue'[i] = queue[i + 1] /\ i + 1 \in 1 .. Len(queue)
            /\ queue'[j] = queue[j + 1] /\ j + 1 \in 1 .. Len(queue)
        BY <1>4
      <3>2. i + 1 < j + 1
        BY <1>4, <2>1
      <3>3. queue[i + 1].send < queue[j + 1].send
        BY <3>1, <3>2 DEF Pipeline, QueueSorted
      <3> QED
        BY <3>1, <3>3
    <2> QED
      BY <1>1, <1>4, <2>1 DEF Pipeline, QueueSorted
  <1>8. CallsBeforeQueue'
    <2>1. d.send <= Len(sent) /\ sent[d.send].queued
      BY <1>4 DEF Pipeline, QueueSorted
    <2>2. ASSUME NEW a \in calling
          PROVE  /\ a.send <= Len(sent)
                 /\ sent[a.send].queued <=> a.thread # Caller
                 /\ a.thread # Caller => \A i \in 1 .. Len(queue') : a.send < queue'[i].send
      BY <1>4 DEF Pipeline, CallsBeforeQueue
    <2> QED
      BY <1>1, <1>3, <1>5, <1>6, <2>1, <2>2 DEF CallsBeforeQueue
  <1>9. HeardBeforeQueue'
    BY <1>1, <1>4 DEF Pipeline, HeardBeforeQueue
  <1>10. HeardBeforeCalls'
    <2>1. ASSUME NEW k \in 1 .. Len(heard), sent[heard[k][2]].queued
          PROVE  heard[k][2] <= d.send
      <3>1. heard[k][2] < d.send
        BY <1>4, <2>1 DEF Pipeline, HeardBeforeQueue
      <3>2. d.send \in Nat /\ heard[k][2] \in Nat
        BY <1>4, SendNumbers
      <3> QED
        BY <3>1, <3>2
    <2> QED
      BY <1>1, <1>3, <2>1 DEF Pipeline, HeardBeforeCalls
  <1>11. OneEach'
    BY <1>1, <1>3, <1>5 DEF OneEach, Busy
  <1>12. Ordered'
    BY <1>1 DEF Ordered, OrderKept
  <1> QED
    BY <1>7, <1>8, <1>9, <1>10, <1>11, <1>12 DEF Pipeline

LEMMA PipelineChoose ==
  ASSUME TypeOK, Pipeline, OneEach, Ordered, NEW a \in calling, NEW o \in a.todo,
         NEW passed \in SUBSET a.todo, Choose(a, o, passed)
  PROVE  Pipeline' /\ OneEach' /\ Ordered'
  <1>1. UNCHANGED <<queue, sent, heard>>
    BY DEF Choose, chain
  <1>2. PICK d : d = Chosen(a, o, passed)
    OBVIOUS
  <1>3. d.send = a.send /\ d.thread = a.thread /\ calling' = (calling \ {a}) \cup {d}
    BY <1>2, ChosenIs DEF Choose
  <1>4. \A b \in calling' : \E f \in calling :
          f.send = b.send /\ f.thread = b.thread /\ (f = a \/ f = b)
    BY <1>3
  <1>5. QueueSorted' /\ HeardBeforeQueue' /\ Ordered'
    BY <1>1 DEF Pipeline, QueueSorted, HeardBeforeQueue, Ordered, OrderKept
  <1>6. CallsBeforeQueue'
    BY <1>1, <1>3 DEF Pipeline, CallsBeforeQueue
  <1>7. HeardBeforeCalls'
    BY <1>1, <1>3 DEF Pipeline, HeardBeforeCalls
  <1>8. OneEach'
    BY <1>3 DEF OneEach
  <1> QED
    BY <1>5, <1>6, <1>7, <1>8 DEF Pipeline

LEMMA PipelineCall ==
  ASSUME TypeOK, Pipeline, OneEach, Ordered, NEW a \in calling, Call(a)
  PROVE  Pipeline' /\ OneEach' /\ Ordered'
  <1>1. UNCHANGED <<queue, sent>>
    BY DEF Call, chain
  <1>2. PICK d \in Activation :
          /\ d.send = a.send /\ d.thread = a.thread
          /\ calling' = (calling \ {a}) \cup {d}
          /\ Len(heard) \in Nat /\ Len(heard') = Len(heard) + 1
          /\ \A i \in 1 .. Len(heard) : heard'[i] = heard[i]
          /\ heard'[Len(heard) + 1] = <<a.call, a.send>>
          /\ \A i \in 1 .. Len(heard') : i \in 1 .. Len(heard) \/ i = Len(heard) + 1
    BY Called
  <1>4. d.send = a.send /\ d.thread = a.thread
    BY <1>2
  <1>5. calling' = (calling \ {a}) \cup {d}
    BY <1>2
  <1>6. /\ Len(heard) \in Nat /\ Len(heard') = Len(heard) + 1
        /\ \A i \in 1 .. Len(heard) : heard'[i] = heard[i]
        /\ \A i \in 1 .. Len(heard') : i \in 1 .. Len(heard) \/ i = Len(heard) + 1
        /\ heard'[Len(heard) + 1][2] = a.send
    BY <1>2
  <1>7. \A i \in 1 .. Len(heard') :
          heard'[i][2] = IF i = Len(heard) + 1 THEN a.send ELSE heard[i][2]
    BY <1>6
  <1>8. QueueSorted'
    BY <1>1 DEF Pipeline, QueueSorted
  <1>9. CallsBeforeQueue'
    BY <1>1, <1>4, <1>5 DEF Pipeline, CallsBeforeQueue
  <1>10. HeardBeforeQueue'
    <2>1. /\ a.send <= Len(sent)
          /\ sent[a.send].queued => \A i \in 1 .. Len(queue) : a.send < queue[i].send
      BY DEF Pipeline, CallsBeforeQueue
    <2> QED
      BY <1>1, <1>6, <1>7, <2>1 DEF Pipeline, HeardBeforeQueue
  <1>11. ASSUME OneThread, NEW b \in calling, b.thread # Caller, sent[a.send].queued
         PROVE  b = a
    <2>1. a.thread # Caller
      BY <1>11 DEF Pipeline, CallsBeforeQueue
    <2>2. a.thread = b.thread
      BY <1>11, <2>1, QueueTypes DEF OneThread
    <2> QED
      BY <2>1, <2>2 DEF OneEach
  <1>12. HeardBeforeCalls'
    <2> SUFFICES ASSUME OneThread, NEW k \in 1 .. Len(heard'), NEW b \in calling',
                        sent[heard'[k][2]].queued, b.thread # Caller
                 PROVE  heard'[k][2] <= b.send
      BY <1>1 DEF HeardBeforeCalls
    <2>1. PICK f \in calling : f.send = b.send /\ f.thread = b.thread /\ (f = a \/ f = b)
      BY <1>4, <1>5
    <2>2. CASE k \in 1 .. Len(heard)
      BY <1>6, <2>1, <2>2 DEF Pipeline, HeardBeforeCalls
    <2>3. CASE k = Len(heard) + 1
      <3>1. heard'[k][2] = a.send /\ f = a
        BY <1>6, <1>11, <2>1, <2>3
      <3> QED
        BY <2>1, <3>1, SendNumbers
    <2> QED
      BY <1>6, <2>2, <2>3
  <1>13. OneEach'
    BY <1>4, <1>5 DEF OneEach
  <1>14. Ordered'
    <2> SUFFICES ASSUME OneThread, NEW i \in 1 .. Len(heard'), NEW j \in 1 .. Len(heard'), i < j,
                        sent[heard'[i][2]].queued, sent[heard'[j][2]].queued
                 PROVE  heard'[i][2] <= heard'[j][2]
      BY <1>1 DEF Ordered, OrderKept
    <2>1. i \in 1 .. Len(heard)
      BY <1>6
    <2>2. CASE j \in 1 .. Len(heard)
      BY <1>6, <2>1, <2>2 DEF Ordered, OrderKept
    <2>3. CASE j = Len(heard) + 1
      <3>1. sent[a.send].queued /\ heard'[j][2] = a.send /\ heard'[i] = heard[i]
        BY <1>6, <2>1, <2>3
      <3>2. a.thread # Caller
        BY <3>1 DEF Pipeline, CallsBeforeQueue
      <3> QED
        BY <2>1, <3>1, <3>2 DEF Pipeline, HeardBeforeCalls
    <2> QED
      BY <1>6, <2>2, <2>3
  <1> QED
    BY <1>8, <1>9, <1>10, <1>12, <1>13, <1>14 DEF Pipeline

LEMMA PipelineNext ==
  ASSUME TypeOK, InForce, Pipeline, OneEach, Ordered, [Next]_vars
  PROVE  Pipeline' /\ OneEach' /\ Ordered'
  <1>1. ASSUME NEW t \in Threads, StartTask(t) \/ TaskDone(t)
        PROVE  UNCHANGED <<queue, calling, heard, sent>>
    BY <1>1 DEF StartTask, TaskDone
  <1>2. ASSUME NEW a \in calling, Return(a) \/ Raise(a)
        PROVE  UNCHANGED <<queue, heard, sent>> /\ calling' \subseteq calling
    BY <1>2 DEF Return, Raise, chain
  <1>3. CASE Elsewhere
    BY <1>1, <1>2, <1>3, PipelineSame, PipelineSend, PipelineTake DEF Elsewhere
  <1>4. CASE UNCHANGED vars
    BY <1>4, PipelineSame DEF vars, chain
  <1>5. ASSUME NEW o \in Objects, NEW e \in Events, NEW b \in BOOLEAN, Accept(o, e, b)
        PROVE  UNCHANGED <<queue, calling, heard, sent>>
    BY <1>5 DEF Accept, chain
  <1>6. ASSUME UNCHANGED <<chain, calling, lock, once, sent, heard, raises>>
        PROVE  UNCHANGED <<queue, calling, heard, sent>>
    BY <1>6 DEF chain
  <1>7. CASE Next
    BY <1>3, <1>5, <1>6, <1>7, PipelineSame, PipelineChoose, PipelineCall, Steps
  <1> QED
    BY <1>4, <1>7

-------------------------------------------------------------------------------
(* Theorems                                                                *)

LEMMA TaskNext ==
  ASSUME TypeOK, TaskForQueue, [Next]_vars
  PROVE  TaskForQueue'
  <1>1. ASSUME NEW t \in Threads, StartTask(t) \/ TakeEvent(t) \/ TaskDone(t)
        PROVE  TaskForQueue'
    BY <1>1 DEF StartTask, TakeEvent, TaskDone, TaskForQueue
  <1>2. ASSUME NEW e \in Events, SendNow(e) \/ SendToChain(e) PROVE TaskForQueue'
    BY <1>2 DEF SendNow, SendToChain, NewSend, TaskForQueue, TypeOK
  <1>3. ASSUME NEW a \in calling, Return(a) PROVE TaskForQueue'
    BY <1>3 DEF Return, chain, TaskForQueue
  <1>4. ASSUME NEW a \in calling, Raise(a) PROVE TaskForQueue'
    BY <1>4 DEF Raise, TaskForQueue, TypeOK
  <1>5. CASE Elsewhere
    BY <1>1, <1>2, <1>3, <1>4, <1>5 DEF Elsewhere
  <1>6. ASSUME UNCHANGED <<chain, raises>> PROVE TaskForQueue'
    BY <1>6 DEF chain, TaskForQueue
  <1>7. ASSUME NEW o \in Objects, NEW e \in Events, NEW b \in BOOLEAN, Accept(o, e, b)
        PROVE  UNCHANGED <<chain, raises>>
    BY <1>7 DEF Accept
  <1>c. ASSUME NEW a \in calling, Call(a)
        PROVE  UNCHANGED <<chain, raises>>
    BY <1>c DEF Call
  <1>8. ASSUME NEW a \in calling, NEW o \in a.todo, NEW passed \in SUBSET a.todo,
               Choose(a, o, passed)
        PROVE  UNCHANGED <<chain, raises>>
    BY <1>8 DEF Choose
  <1>9. CASE UNCHANGED vars
    BY <1>6, <1>9 DEF vars
  <1>10. CASE Next
    BY <1>5, <1>6, <1>7, <1>8, <1>c, <1>10, Steps
  <1> QED
    BY <1>9, <1>10

LEMMA InitIInv == Init => IInv
  <1> SUFFICES ASSUME Init PROVE IInv
    OBVIOUS
  <1>1. TypeOK
    BY DEF Init, TypeOK
  <1>2. Tally
    BY FS_EmptySet DEF Init, Tally
  <1>3. /\ once = <<>> /\ sent = <<>> /\ heard = <<>> /\ queue = <<>>
        /\ ended = {} /\ calling = {}
    BY DEF Init
  <1>4. SameEvents /\ InForce
    BY <1>3 DEF Init, SameEvents, InForce
  <1>5. Len(heard) = 0 /\ Len(sent) = 0 /\ Len(queue) = 0
    BY <1>3
  <1>6. UsedUp /\ Pending /\ OnceOnly /\ AllReached
    BY <1>3, <1>5 DEF UsedUp, Pending, OnceOnly, AllReached
  <1>7. Pipeline /\ OneEach /\ Ordered
    BY <1>3, <1>5 DEF Pipeline, QueueSorted, CallsBeforeQueue, HeardBeforeQueue,
                      HeardBeforeCalls, OneEach, Ordered, OrderKept
  <1>8. TaskForQueue
    BY <1>3 DEF TaskForQueue
  <1> QED
    BY <1>1, <1>2, <1>4, <1>6, <1>7, <1>8 DEF IInv

LEMMA NextIInv == IInv /\ [Next]_vars => IInv'
  BY TypeNext, InForceNext, UsedUpNext, AllReachedNext, PipelineNext, TaskNext DEF IInv

LEMMA Inductive == Spec => []IInv
  BY InitIInv, NextIInv, PTL DEF Spec

(* Types, with any number of objects, events and threads.                  *)
THEOREM MessengerTypes == Spec => []TypeOK
  <1>1. IInv => TypeOK
    BY DEF IInv
  <1> QED
    BY <1>1, Inductive, PTL

(* The table by event, the table by object and the table of held objects   *)
(* agree after any accepts, ignores and calls.                             *)
THEOREM TablesAlwaysAgree == Spec => []TablesAgree
  <1>1. IInv => TablesAgree
    BY DEF IInv, Tally, SameEvents, TablesAgree
  <1> QED
    BY <1>1, Inductive, PTL

(* What is accepted once is called at most once.                           *)
THEOREM AcceptOnceIsOnce == Spec => []OnceOnly
  <1>1. IInv => OnceOnly
    BY DEF IInv
  <1> QED
    BY <1>1, Inductive, PTL

(* A dispatch turns to no acceptance that has ended; one that still calls  *)
(* such an acceptance had let go of the lock for it before it ended.       *)
THEOREM NeverChosenOnceEnded == Spec => NotChosenOnceEnded
  <1>1. ASSUME IInv, [Next]_vars
        PROVE  [\A a \in calling' : a.call \in ended =>
                  \E b \in calling : b.send = a.send /\ b.call = a.call]_vars
    <2>1. TypeOK /\ InForce
      BY <1>1 DEF IInv
    <2>2. None \notin ended
      BY <2>1 DEF TypeOK, Acceptances, None
    <2> QED
      BY <1>1, <2>1, <2>2, TurnsInForce
  <1> QED
    BY <1>1, Inductive, PTL DEF Spec, NotChosenOnceEnded

(* Every object that accepted an event when it was sent, and still does,   *)
(* has been called for it once the event is done with.                     *)
THEOREM NobodyMissed == Spec => []NotMissed
  <1>1. ASSUME IInv PROVE NotMissed
    <2> SUFFICES ASSUME raises = 0, NEW s \in 1 .. Len(sent), Gone(s),
                        NEW n \in sent[s].to \ ended
                 PROVE  \E i \in 1 .. Len(heard) : heard[i] = <<n, s>>
      BY DEF NotMissed
    <2>1. Reached(n, s)
      BY <1>1 DEF IInv, AllReached
    <2> QED
      BY <2>1 DEF Reached, Gone, Queued
  <1> QED
    BY <1>1, Inductive, PTL

(* With one thread in the chain, queued events call in the order they were *)
(* sent.                                                                   *)
THEOREM OrderOfOneThread == ASSUME OneThread PROVE Spec => []OrderKept
  <1>1. IInv => OrderKept
    BY DEF IInv, Ordered
  <1> QED
    BY <1>1, Inductive, PTL

(* A queued event has a task that will take it, or one of its methods      *)
(* raised.                                                                 *)
THEOREM QueueHasTask == Spec => []TaskForQueue
  <1>1. IInv => TaskForQueue
    BY DEF IInv
  <1> QED
    BY <1>1, Inductive, PTL

===============================================================================
