---------------------------------- MODULE FSM ---------------------------------
(***************************************************************************)
(* One finite state machine (fsm/FSM.py).  A transition calls the exit     *)
(* function of the old state and the enter function of the new one, or a   *)
(* function for this pair of states in place of both; the first two may be *)
(* coroutines, so that everything else goes on while they wait.  Listeners *)
(* are told of the change just before it is complete.                      *)
(*                                                                         *)
(* demand and forceTransition are queued while a transition is under way.  *)
(* The coroutine of a transition that completes takes the first call from  *)
(* the queue, makes it and waits for the transition this starts, which     *)
(* does the same when it completes: the coroutines stand in a chain, the   *)
(* innermost at work.  When the innermost ends, those that wait for it go  *)
(* on one by one, each at its next poll, and set the futures they owe.     *)
(*                                                                         *)
(* Each call that starts a transition or is queued takes a number from     *)
(* `calls'.  A call that is refused at once changes nothing and is left    *)
(* out: a demand that the filter denies, a request or cleanup made during  *)
(* a transition.                                                           *)
(***************************************************************************)
EXTENDS Integers, Sequences, FiniteSets

CONSTANTS Names,      \* states with a name of the game's, "Off" not among them
          Allowed,    \* defaultTransitions, as pairs of states
          MaxCalls,   \* bound: calls
          MaxErrors   \* bound: exceptions in functions of the game

ASSUME NamesAssumption ==
  /\ {"Off", "InternalError", "None"} \cap Names = {}
  /\ Allowed \subseteq (Names \cup {"InternalError"}) \X Names
  /\ {MaxCalls, MaxErrors} \subseteq Nat

VARIABLES
  state,      \* _state
  move,       \* the transition under way: oldState, newState and how far it is
  requests,   \* __requestQueue
  chain,      \* calls whose coroutines wait for the next one; the last is at work
  resuming,   \* chains whose innermost coroutine has ended
  futures,    \* what became of the future of each call
  calls,      \* calls made
  errors,     \* exceptions raised in functions of the game
  denials,    \* queued demands that were denied
  begun,      \* the calls that started a transition, in that order
  arrived     \* the calls whose transition is complete

machine == <<state, move, requests, chain, resuming, futures>>
history == <<calls, errors, denials, begun, arrived>>
vars == <<machine, history>>

-------------------------------------------------------------------------------

States == Names \cup {"Off", "InternalError"}
Targets == Names \cup {"Off"}
Between == "None"     \* _state during a transition
NoMove == [from |-> "Off", to |-> "Off", phase |-> "none"]

Calls == 1 .. MaxCalls
Request == [kind : {"demand", "force"}, target : Targets, call : Calls]
Move == [from : States, to : Targets, phase : {"none", "exit", "enter", "fromTo", "told"}]

InTransition == state = Between
AtWork == chain[Len(chain)]
Outer(c) == SubSeq(c, 1, Len(c) - 1)
Failed == errors + denials > 0

Init ==
  /\ state = "Off"
  /\ move = NoMove
  /\ requests = <<>>
  /\ chain = <<>>
  /\ resuming = {}
  /\ futures = <<>>
  /\ calls = 0
  /\ errors = 0
  /\ denials = 0
  /\ begun = <<>>
  /\ arrived = {}

-------------------------------------------------------------------------------
(* Helpers                                                                 *)

(* defaultFilter and filterOff: "Off" can always be reached, and left for  *)
(* any state.                                                              *)
Accepts(from, to) == "Off" \in {from, to} \/ <<from, to>> \in Allowed

(* forceTransition does not ask the filter.                                *)
Grants(kind, from, to) == kind = "force" \/ Accepts(from, to)

(* __transition up to the first function of the game, which is the one for *)
(* the pair of states if there is one.                                     *)
Depart(from, to) ==
  /\ state' = Between
  /\ \E first \in {"exit", "fromTo"} : move' = [from |-> from, to |-> to, phase |-> first]

(* Coroutines that wait for one another, outermost first, of which the     *)
(* innermost has ended.  The outermost is a task, the future of its call;  *)
(* the others owe a future to the queue, set by the coroutine around them. *)
Unwind(c, fs, others) ==
  /\ futures' = IF Len(c) = 1 THEN [fs EXCEPT ![c[1]] = "set"] ELSE fs
  /\ resuming' = IF Len(c) = 1 THEN others ELSE others \cup {c}

-------------------------------------------------------------------------------
(* Calls                                                                   *)

NewCall ==
  /\ calls < MaxCalls
  /\ calls' = calls + 1
  /\ futures' = Append(futures, "waiting")
  /\ UNCHANGED <<resuming, errors, denials, arrived>>

\* mutant: the request is put in front of those that wait
Queue_InFront(kind, target) ==
  /\ InTransition
  /\ NewCall
  /\ requests' = <<[kind |-> kind, target |-> target, call |-> calls + 1]>> \o requests
  /\ UNCHANGED <<state, move, chain, begun>>

(* demand and forceTransition during a transition, from a function of the  *)
(* game, a listener or another task.                                       *)
Queue(kind, target) ==
  /\ InTransition
  /\ NewCall
  /\ requests' = Append(requests, [kind |-> kind, target |-> target, call |-> calls + 1])
  /\ UNCHANGED <<state, move, chain, begun>>

(* request, demand and forceTransition otherwise; cleanup forces "Off".    *)
Start(kind, target) ==
  /\ ~InTransition
  /\ Grants(kind, state, target)
  /\ NewCall
  /\ Depart(state, target)
  /\ chain' = <<calls + 1>>
  /\ begun' = Append(begun, calls + 1)
  /\ UNCHANGED requests

-------------------------------------------------------------------------------
(* A transition                                                            *)

(* The exit function returns, then the enter function, or the one for the  *)
(* pair of states; then the listeners are told.                            *)
BodyReturns ==
  /\ InTransition
  /\ \/ move.phase = "exit" /\ move' = [move EXCEPT !.phase = "enter"]
     \/ move.phase \in {"enter", "fromTo"} /\ move' = [move EXCEPT !.phase = "told"]
  /\ UNCHANGED <<state, requests, chain, resuming, futures, history>>

(* What is raised goes up the chain to the first caller, past the lines    *)
(* that would set the futures of the others.                               *)
Raise ==
  /\ chain' = <<>>
  /\ futures' = [futures EXCEPT ![Head(chain)] = "raised"]
  /\ UNCHANGED <<resuming, calls, begun>>

BodyRaises ==
  /\ InTransition /\ move.phase # "told"
  /\ errors < MaxErrors
  /\ errors' = errors + 1
  /\ state' = "InternalError"
  /\ move' = NoMove
  /\ Raise
  /\ UNCHANGED <<requests, denials, arrived>>

(* A listener raises, with nothing to catch it: the machine stays between  *)
(* its states.                                                             *)
ListenerRaises ==
  /\ InTransition /\ move.phase = "told" /\ chain # <<>>
  /\ errors < MaxErrors
  /\ errors' = errors + 1
  /\ Raise
  /\ UNCHANGED <<state, move, requests, denials, arrived>>

(* The listeners return and the new state is taken up.                     *)
Arrive ==
  /\ InTransition /\ move.phase = "told" /\ chain # <<>>
  /\ arrived' = arrived \cup {AtWork}

\* mutant: the queue is not looked at when a transition completes
Rest_QueueIgnored ==
  /\ Arrive
  /\ state' = move.to
  /\ move' = NoMove
  /\ chain' = <<>>
  /\ Unwind(chain, futures, resuming)
  /\ UNCHANGED <<requests, calls, errors, denials, begun>>

Rest ==
  /\ Arrive
  /\ requests = <<>>
  /\ state' = move.to
  /\ move' = NoMove
  /\ chain' = <<>>
  /\ Unwind(chain, futures, resuming)
  /\ UNCHANGED <<requests, calls, errors, denials, begun>>

\* mutant: the future is set without awaiting the transition
ServeNext_NotAwaited ==
  /\ Arrive
  /\ requests # <<>>
  /\ LET r == Head(requests) IN
     /\ Grants(r.kind, move.to, r.target)
     /\ Depart(move.to, r.target)
     /\ chain' = Append(chain, r.call)
     /\ begun' = Append(begun, r.call)
     /\ futures' = [futures EXCEPT ![r.call] = "set"]
  /\ requests' = Tail(requests)
  /\ UNCHANGED <<resuming, calls, errors, denials>>

(* The first call of the queue is made at once ...                         *)
ServeNext ==
  /\ Arrive
  /\ requests # <<>>
  /\ LET r == Head(requests) IN
     /\ Grants(r.kind, move.to, r.target)
     /\ Depart(move.to, r.target)
     /\ chain' = Append(chain, r.call)
     /\ begun' = Append(begun, r.call)
  /\ requests' = Tail(requests)
  /\ UNCHANGED <<resuming, futures, calls, errors, denials>>

(* ... or it is denied, which ends every coroutine of the chain.           *)
DenyNext ==
  /\ Arrive
  /\ requests # <<>>
  /\ LET r == Head(requests) IN ~Grants(r.kind, move.to, r.target)
  /\ state' = move.to
  /\ move' = NoMove
  /\ requests' = Tail(requests)
  /\ Raise
  /\ denials' = denials + 1
  /\ UNCHANGED errors

\* mutant: the coroutines further out are forgotten
Resume_InnermostOnly(c) ==
  /\ c \in resuming
  /\ futures' = [futures EXCEPT ![c[Len(c)]] = "set"]
  /\ resuming' = resuming \ {c}
  /\ UNCHANGED <<state, move, requests, chain, history>>

(* The coroutine around the innermost of c goes on.                        *)
Resume(c) ==
  /\ c \in resuming
  /\ Unwind(Outer(c), [futures EXCEPT ![c[Len(c)]] = "set"], resuming \ {c})
  /\ UNCHANGED <<state, move, requests, chain, history>>

-------------------------------------------------------------------------------

Finish == Rest \/ ServeNext \/ DenyNext

Next ==
  \/ \E kind \in {"demand", "force"}, target \in Targets :
        Queue(kind, target) \/ Start(kind, target)
  \/ BodyReturns
  \/ BodyRaises
  \/ ListenerRaises
  \/ Finish
  \/ \E c \in resuming : Resume(c)

Spec == Init /\ [][Next]_vars

(* Functions of the game and listeners return or raise; the task manager   *)
(* polls every task whose wait is over.                                    *)
FairSpec ==
  /\ Spec
  /\ WF_vars(BodyReturns)
  /\ WF_vars(Finish)
  /\ WF_vars(\E c \in resuming : Resume(c))

-------------------------------------------------------------------------------
(* Properties                                                              *)

TypeOK ==
  /\ state \in States \cup {Between}
  /\ move \in Move
  /\ requests \in Seq(Request)
  /\ chain \in Seq(Calls)
  /\ resuming \subseteq {c \in Seq(Calls) : Len(c) > 1}
  /\ futures \in Seq({"waiting", "set", "raised"})
  /\ {calls, errors, denials} \subseteq Nat
  /\ begun \in Seq(Calls)
  /\ arrived \subseteq Calls

(* A call that was queued is not left behind: while one waits, a transition *)
(* is under way that takes it from the queue when it completes.  Only an    *)
(* exception, in a function, a listener or the filter, strands a call.      *)
QueueWatched == requests # <<>> /\ ~Failed => chain # <<>>

(* Calls are carried out in the order they were made, whether they came at  *)
(* rest or during a transition, as long as nothing was raised.              *)
InOrder ==
  ~Failed => \A i, j \in 1 .. Len(begun) : i < j => begun[i] < begun[j]

(* Who awaits a call goes on only when its transition is complete and, if   *)
(* nothing was raised, those of all calls made before it: the future of a   *)
(* queued call is not set when the call is taken from the queue.            *)
FutureMeansDone ==
  \A c \in 1 .. Len(futures) : futures[c] = "set" =>
     /\ c \in arrived
     /\ ~Failed => \A d \in 1 .. c : d \in arrived

(* No call is carried out twice or both carried out and left in the queue:  *)
(* the ones that began, wait in the queue or were denied are different.     *)
OnlyOnce ==
  /\ \A i, j \in 1 .. Len(begun) : begun[i] = begun[j] => i = j
  /\ \A i \in 1 .. Len(begun), j \in 1 .. Len(requests) : begun[i] # requests[j].call

(* Every call is answered in the end, its transition complete, unless       *)
(* something was raised.                                                    *)
EveryCallDone ==
  \A c \in Calls : c <= calls ~> (c <= Len(futures) /\ futures[c] # "waiting") \/ Failed

===============================================================================
