------------------------------- MODULE Messenger ------------------------------
(***************************************************************************)
(* The messenger (showbase/Messenger.py): objects accept events by name,   *)
(* always or once, and are called when one is sent.  A send calls the      *)
(* objects at once, or leaves the event to a task chain, whose threads     *)
(* take it from a queue.  One lock guards the tables.  The object that is  *)
(* next is looked up under the lock, which is then let go, and only then   *)
(* is its method called: anything may be accepted, ignored or sent on      *)
(* another thread between the two, and by the method itself or on another  *)
(* thread until the next object is looked up.                              *)
(*                                                                         *)
(* An event that is queued keeps a reference to the dictionary that held   *)
(* its acceptors when it was sent.  Once the last acceptor is gone the     *)
(* dictionary is dropped and the next one to accept starts a new one; the  *)
(* old one stays empty.  So the dictionaries that stand under an event one *)
(* after another are told apart by a number, and all but the last hold     *)
(* nothing.                                                                *)
(*                                                                         *)
(* Each acceptance and each send has a number of its own, by which the     *)
(* properties speak of them.  The order in which one event calls its       *)
(* acceptors is left open.                                                 *)
(***************************************************************************)
EXTENDS Integers, Sequences, FiniteSets

CONSTANTS Objects,
          Events,
          Threads,     \* threads of the task chain
          MaxAccepts,  \* bound: acceptances
          MaxSends,    \* bound: sends that find an acceptor
          MaxRaises    \* bound: exceptions in the methods called

ASSUME BoundsAssumption == {MaxAccepts, MaxSends, MaxRaises} \subseteq Nat

VARIABLES
  acceptors,  \* __callbacks: for each event the acceptance of each object, or 0
  table,      \* which dictionary stands under each event
  events,     \* __objectEvents: the events each object accepts
  holds,      \* _id2object: how often each object is held
  queue,      \* _eventQueuesByTaskChain of the one chain
  tasks,      \* tasks spawned to empty it that have not started
  loops,      \* threads that run such a task
  calling,    \* events on their way through their acceptors
  lock,       \* the send that holds the lock between two steps, or 0
  once,       \* for each acceptance, whether it is for one time
  ended,      \* acceptances withdrawn, replaced or used up
  sent,       \* for each send, the acceptances in place and whether it was queued
  heard,      \* the calls made: acceptance and send
  raises      \* exceptions in the methods called

tables == <<acceptors, table, events, holds>>
chain == <<queue, tasks, loops>>
vars == <<tables, chain, calling, lock, once, ended, sent, heard, raises>>

-------------------------------------------------------------------------------

Acceptances == 1 .. MaxAccepts
Sends == 1 .. MaxSends
None == 0
Caller == "caller"     \* stands for the thread of a send that calls at once

ASSUME CallerAssumption == Caller \notin Threads

Acceptors(e) == {o \in Objects : acceptors[e][o] # None}

(* What the dictionary that a send keeps says of an object.                *)
Found(a, o) == IF a.table = table[a.event] THEN acceptors[a.event][o] ELSE None

(* An event on its way through its acceptors: the objects it has not come  *)
(* to yet, and the acceptance whose method it is about to call.            *)
Activation == [send : Sends, event : Events, table : Nat, todo : SUBSET Objects,
               call : Acceptances \cup {None}, thread : Threads \cup {Caller}]

Init ==
  /\ acceptors = [e \in Events |-> [o \in Objects |-> None]]
  /\ table = [e \in Events |-> 0]
  /\ events = [o \in Objects |-> {}]
  /\ holds = [o \in Objects |-> 0]
  /\ queue = <<>>
  /\ tasks = 0
  /\ loops = {}
  /\ calling = {}
  /\ lock = None
  /\ once = <<>>
  /\ ended = {}
  /\ sent = <<>>
  /\ heard = <<>>
  /\ raises = 0

-------------------------------------------------------------------------------
(* Accepting and ignoring                                                  *)

(* accept and acceptOnce.                                                  *)
Accept(o, e, isOnce) ==
  /\ lock = None
  /\ Len(once) < MaxAccepts
  /\ once' = Append(once, isOnce)
  /\ acceptors' = [acceptors EXCEPT ![e][o] = Len(once) + 1]
  /\ events' = [events EXCEPT ![o] = @ \cup {e}]
  /\ holds' = [holds EXCEPT ![o] = IF e \in events[o] THEN @ ELSE @ + 1]
  /\ ended' = ended \cup ({acceptors[e][o]} \ {None})
  /\ UNCHANGED <<table, chain, calling, lock, sent, heard, raises>>

\* mutant: only the table by object is brought up to date
Leave_DictionaryKept(o, gone) ==
  /\ ended' = ended \cup ({acceptors[e][o] : e \in gone} \ {None})
  /\ UNCHANGED <<acceptors, table>>

(* Objects leave the dictionaries of the events in `gone'; one that is     *)
(* empty now is dropped.                                                   *)
Leave(o, gone) ==
  /\ acceptors' = [e \in Events |->
                    IF e \in gone THEN [acceptors[e] EXCEPT ![o] = None] ELSE acceptors[e]]
  /\ table' = [e \in Events |->
                 IF e \in gone /\ Acceptors(e) = {o} THEN table[e] + 1 ELSE table[e]]
  /\ ended' = ended \cup ({acceptors[e][o] : e \in gone} \ {None})

Forget(o, gone) ==
  /\ events' = [events EXCEPT ![o] = @ \ gone]
  /\ holds' = [holds EXCEPT ![o] = @ - Cardinality(gone \cap events[o])]

Ignore(o, e) ==
  /\ lock = None
  /\ acceptors[e][o] # None \/ e \in events[o]
  /\ Leave(o, {e})
  /\ Forget(o, {e})
  /\ UNCHANGED <<chain, calling, lock, once, sent, heard, raises>>

IgnoreAll(o) ==
  /\ lock = None
  /\ events[o] # {}
  /\ Leave(o, events[o])
  /\ Forget(o, events[o])
  /\ UNCHANGED <<chain, calling, lock, once, sent, heard, raises>>

-------------------------------------------------------------------------------
(* Sending                                                                 *)

NewSend(e, queued) ==
  /\ lock = None
  /\ Len(sent) < MaxSends
  /\ Acceptors(e) # {}
  /\ sent' = Append(sent, [to |-> {acceptors[e][o] : o \in Acceptors(e)}, queued |-> queued])
  /\ UNCHANGED <<tables, loops, once, ended, heard, raises>>

(* The lock is kept until the first acceptor has been looked up.           *)
SendNow(e) ==
  /\ NewSend(e, FALSE)
  /\ calling' = calling \cup {[send |-> Len(sent) + 1, event |-> e, table |-> table[e],
                               todo |-> Acceptors(e), call |-> None, thread |-> Caller]}
  /\ lock' = Len(sent) + 1
  /\ UNCHANGED <<queue, tasks>>

\* mutant: the task is spawned for the second event
SendToChain_SpawnLate(e) ==
  /\ NewSend(e, TRUE)
  /\ queue' = Append(queue, [send |-> Len(sent) + 1, event |-> e, table |-> table[e]])
  /\ tasks' = IF Len(queue) = 1 THEN tasks + 1 ELSE tasks
  /\ UNCHANGED <<calling, lock>>

(* A task is spawned for the first event in the queue only.                *)
SendToChain(e) ==
  /\ NewSend(e, TRUE)
  /\ queue' = Append(queue, [send |-> Len(sent) + 1, event |-> e, table |-> table[e]])
  /\ tasks' = IF queue = <<>> THEN tasks + 1 ELSE tasks
  /\ UNCHANGED <<calling, lock>>

-------------------------------------------------------------------------------
(* The threads of the task chain                                           *)

Busy(t) == \E a \in calling : a.thread = t

StartTask(t) ==
  /\ tasks > 0
  /\ t \notin loops
  /\ tasks' = tasks - 1
  /\ loops' = loops \cup {t}
  /\ UNCHANGED <<tables, queue, calling, lock, once, ended, sent, heard, raises>>

\* mutant: the event that came last is taken
TakeEvent_Newest(t) ==
  /\ lock = None
  /\ t \in loops /\ ~Busy(t)
  /\ queue # <<>>
  /\ LET q == queue[Len(queue)] IN
     /\ calling' = calling \cup {[send |-> q.send, event |-> q.event, table |-> q.table,
                                  todo |-> {o \in Objects : Found(q, o) # None},
                                  call |-> None, thread |-> t]}
     /\ lock' = q.send
  /\ queue' = SubSeq(queue, 1, Len(queue) - 1)
  /\ UNCHANGED <<tables, tasks, loops, once, ended, sent, heard, raises>>

TakeEvent(t) ==
  /\ lock = None
  /\ t \in loops /\ ~Busy(t)
  /\ queue # <<>>
  /\ LET q == Head(queue) IN
     /\ calling' = calling \cup {[send |-> q.send, event |-> q.event, table |-> q.table,
                                  todo |-> {o \in Objects : Found(q, o) # None},
                                  call |-> None, thread |-> t]}
     /\ lock' = q.send
  /\ queue' = Tail(queue)
  /\ UNCHANGED <<tables, tasks, loops, once, ended, sent, heard, raises>>

\* mutant: the task takes one event and ends
TaskDone_AfterOne(t) ==
  /\ lock = None
  /\ t \in loops /\ ~Busy(t)
  /\ loops' = loops \ {t}
  /\ UNCHANGED <<tables, queue, tasks, calling, lock, once, ended, sent, heard, raises>>

TaskDone(t) ==
  /\ lock = None
  /\ t \in loops /\ ~Busy(t)
  /\ queue = <<>>
  /\ loops' = loops \ {t}
  /\ UNCHANGED <<tables, queue, tasks, calling, lock, once, ended, sent, heard, raises>>

-------------------------------------------------------------------------------
(* Calling the acceptors of an event                                       *)

Holding(a) == lock \in {None, a.send}

Chosen(a, o, passed) ==
  [a EXCEPT !.todo = @ \ ({o} \cup passed), !.call = Found(a, o)]

\* mutant: an object that accepts once is not taken out of the tables
Choose_OnceStays(a, o, passed) ==
  /\ Holding(a)
  /\ a.call = None
  /\ o \in a.todo /\ Found(a, o) # None
  /\ passed \subseteq {p \in a.todo : Found(a, p) = None}
  /\ calling' = (calling \ {a}) \cup {Chosen(a, o, passed)}
  /\ lock' = None
  /\ UNCHANGED <<tables, ended, chain, once, sent, heard, raises>>

\* mutant: the loop goes over the dictionary itself, and skips an object
\* when one is taken out
Choose_SkipsNext(a, o, passed) ==
  /\ Holding(a)
  /\ a.call = None
  /\ o \in a.todo /\ Found(a, o) # None
  /\ passed \subseteq {p \in a.todo : Found(a, p) = None \/ once[Found(a, o)]}
  /\ IF once[Found(a, o)]
     THEN Leave(o, {a.event}) /\ Forget(o, {a.event})
     ELSE UNCHANGED <<tables, ended>>
  /\ calling' = (calling \ {a}) \cup {Chosen(a, o, passed)}
  /\ lock' = None
  /\ UNCHANGED <<chain, once, sent, heard, raises>>

\* mutant: ... or only out of the dictionary of the event
Choose_OnceStillHeld(a, o, passed) ==
  /\ Holding(a)
  /\ a.call = None
  /\ o \in a.todo /\ Found(a, o) # None
  /\ passed \subseteq {p \in a.todo : Found(a, p) = None}
  /\ IF once[Found(a, o)]
     THEN Leave(o, {a.event}) /\ UNCHANGED <<events, holds>>
     ELSE UNCHANGED <<tables, ended>>
  /\ calling' = (calling \ {a}) \cup {Chosen(a, o, passed)}
  /\ lock' = None
  /\ UNCHANGED <<chain, once, sent, heard, raises>>

(* The next object that still accepts is looked up, is taken out of the    *)
(* tables if it accepts once, and the lock is let go.  Those passed over   *)
(* on the way to it will not be looked at again.                           *)
Choose(a, o, passed) ==
  /\ Holding(a)
  /\ a.call = None
  /\ o \in a.todo /\ Found(a, o) # None
  /\ passed \subseteq {p \in a.todo : Found(a, p) = None}
  /\ IF once[Found(a, o)]
     THEN Leave(o, {a.event}) /\ Forget(o, {a.event})
     ELSE UNCHANGED <<tables, ended>>
  /\ calling' = (calling \ {a}) \cup {Chosen(a, o, passed)}
  /\ lock' = None
  /\ UNCHANGED <<chain, once, sent, heard, raises>>

(* Its method is called, without the lock, whatever has become of the      *)
(* acceptance since.                                                       *)
Call(a) ==
  /\ a.call # None
  /\ heard' = Append(heard, <<a.call, a.send>>)
  /\ calling' = (calling \ {a}) \cup {[a EXCEPT !.call = None]}
  /\ UNCHANGED <<tables, chain, lock, once, ended, sent, raises>>

Return(a) ==
  /\ Holding(a)
  /\ a.call = None
  /\ \A o \in a.todo : Found(a, o) = None
  /\ calling' = calling \ {a}
  /\ lock' = None
  /\ UNCHANGED <<tables, chain, once, ended, sent, heard, raises>>

(* A method raises: the exception ends the send, or the task.              *)
Raise(a) ==
  /\ lock = None
  /\ a.call = None
  /\ raises < MaxRaises
  /\ \E i \in 1 .. Len(heard) : heard[i][2] = a.send
  /\ raises' = raises + 1
  /\ calling' = calling \ {a}
  /\ loops' = loops \ {a.thread}
  /\ UNCHANGED <<tables, queue, tasks, lock, once, ended, sent, heard>>

-------------------------------------------------------------------------------

Go(a) ==
  \/ \E o \in a.todo, passed \in SUBSET a.todo : Choose(a, o, passed)
  \/ Call(a) \/ Return(a)

Next ==
  \/ \E o \in Objects, e \in Events : (\E b \in BOOLEAN : Accept(o, e, b)) \/ Ignore(o, e)
  \/ \E o \in Objects : IgnoreAll(o)
  \/ \E e \in Events : SendNow(e) \/ SendToChain(e)
  \/ \E t \in Threads : StartTask(t) \/ TakeEvent(t) \/ TaskDone(t)
  \/ \E a \in calling : Go(a) \/ Raise(a)

Spec == Init /\ [][Next]_vars

(* The task manager runs the tasks it is given, and methods return.        *)
FairSpec ==
  /\ Spec
  /\ \A t \in Threads : WF_vars(StartTask(t)) /\ WF_vars(TakeEvent(t)) /\ WF_vars(TaskDone(t))
  /\ \A s \in Sends : WF_vars(\E a \in calling : a.send = s /\ Go(a))

-------------------------------------------------------------------------------
(* Properties                                                              *)

TypeOK ==
  /\ acceptors \in [Events -> [Objects -> Acceptances \cup {None}]]
  /\ table \in [Events -> Nat]
  /\ events \in [Objects -> SUBSET Events]
  /\ holds \in [Objects -> Nat]
  /\ queue \in Seq([send : Sends, event : Events, table : Nat])
  /\ tasks \in Nat
  /\ loops \subseteq Threads
  /\ calling \subseteq Activation
  /\ lock \in Sends \cup {None}
  /\ once \in Seq(BOOLEAN)
  /\ ended \subseteq Acceptances
  /\ sent \in Seq([to : SUBSET Acceptances, queued : BOOLEAN])
  /\ heard \in Seq(Acceptances \X Sends)
  /\ raises \in Nat

(* The two tables say the same, and an object is held once for each event  *)
(* it accepts: what ignoreAll, the leak detector and the dispatch rely on  *)
(* although the three are updated in four places.                          *)
TablesAgree ==
  /\ \A o \in Objects, e \in Events : e \in events[o] <=> acceptors[e][o] # None
  /\ \A o \in Objects : holds[o] = Cardinality(events[o])

(* acceptOnce: at most one call, however many sends of the event are on    *)
(* their way on whatever threads, and whatever the method accepts again.   *)
OnceOnly ==
  \A i, j \in 1 .. Len(heard) :
     once[heard[i][1]] /\ heard[i][1] = heard[j][1] => i = j

(* A dispatch never turns to an acceptance that has been withdrawn,        *)
(* replaced or used up: neither for an event that was queued before that,  *)
(* nor for one that is on its way through the acceptors.  Only where the   *)
(* lock had been let go for it already will it still be called.            *)
NotChosenOnceEnded ==
  [][\A a \in calling' : a.call \in ended =>
       \E b \in calling : b.send = a.send /\ b.call = a.call]_vars

(* An object that accepted an event when it was sent, and has not ceased   *)
(* to since, has been called for it when the event is done with.           *)
Gone(s) ==
  /\ \A i \in 1 .. Len(queue) : queue[i].send # s
  /\ \A a \in calling : a.send # s

NotMissed ==
  raises = 0 =>
    \A s \in 1 .. Len(sent) : Gone(s) =>
      \A n \in sent[s].to \ ended : \E i \in 1 .. Len(heard) : heard[i] = <<n, s>>

(* Messenger.py:342: "This guarantees that events are still delivered in   *)
(* the same order they were sent."  It does for a chain of one thread.     *)
OrderKept ==
  \A i, j \in 1 .. Len(heard) :
     i < j /\ sent[heard[i][2]].queued /\ sent[heard[j][2]].queued
       => heard[i][2] <= heard[j][2]

(* The same said of one object: with more threads, it hears of an event     *)
(* that was sent before one it has heard of already.                        *)
HeardInOrder ==
  \A i, j \in 1 .. Len(heard) :
     i < j /\ heard[i][1] = heard[j][1]
       /\ sent[heard[i][2]].queued /\ sent[heard[j][2]].queued
       => heard[i][2] <= heard[j][2]

(* While events are queued, a task is there that will take them, unless a  *)
(* method raised.                                                          *)
TaskForQueue == queue # <<>> /\ raises = 0 => tasks > 0 \/ loops # {}

(* Every event that was queued is taken and done with.                     *)
Delivered ==
  \A s \in Sends : s <= Len(sent) ~> Gone(s) \/ raises > 0

===============================================================================
