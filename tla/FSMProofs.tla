------------------------------ MODULE FSMProofs -------------------------------
(***************************************************************************)
(* The invariants of FSM hold for any states, transitions and number of    *)
(* calls.  As long as nothing was raised the calls that began and those in *)
(* the queue are numbered without a gap, and the transitions that are      *)
(* complete are those of all calls that began, except for the one at work. *)
(***************************************************************************)
EXTENDS FSM, TLAPS

(* The variables that grow together, and what the flags of a transition    *)
(* say of the coroutines.                                                  *)
InStep ==
  /\ Len(futures) = calls
  /\ calls <= MaxCalls
  /\ chain # <<>> => InTransition
  /\ ~Failed /\ InTransition => chain # <<>>

(* Numbers of calls that began or wait were given out, each once.          *)
Numbered ==
  /\ \A i \in 1 .. Len(begun) : begun[i] <= calls
  /\ \A i \in 1 .. Len(requests) : requests[i].call <= calls
  /\ \A i, j \in 1 .. Len(requests) : i # j => requests[i].call # requests[j].call

(* Nothing was raised: the calls began in the order of their numbers, and  *)
(* the queue holds the ones that follow.                                   *)
Straight ==
  ~Failed =>
    /\ Len(begun) + Len(requests) = calls
    /\ \A i \in 1 .. Len(begun) : begun[i] = i
    /\ \A i \in 1 .. Len(requests) : requests[i].call = Len(begun) + i

(* The coroutines that wait are those of complete transitions.             *)
WaitersDone ==
  /\ \A i \in 1 .. Len(chain) : i < Len(chain) => chain[i] \in arrived
  /\ \A c \in resuming : \A i \in 1 .. Len(c) : c[i] \in arrived
  /\ \A c \in 1 .. Len(futures) : futures[c] = "set" => c \in arrived

(* Nothing was raised: what began is complete but for the call at work.    *)
ArrivedInOrder ==
  ~Failed =>
    /\ chain = <<>> => arrived = 1 .. Len(begun)
    /\ chain # <<>> => AtWork = Len(begun) /\ arrived = 1 .. Len(begun) - 1

IInv == TypeOK /\ InStep /\ QueueWatched /\ Numbered /\ OnlyOnce /\ Straight /\ WaitersDone /\ ArrivedInOrder

-------------------------------------------------------------------------------
(* Types                                                                   *)

Statuses == {"waiting", "set", "raised"}

LEMMA BoundsAreNats == MaxCalls \in Nat /\ MaxErrors \in Nat
  BY NamesAssumption

LEMMA ChangedSequence ==
  ASSUME NEW S, NEW s \in Seq(S), NEW i, NEW x \in S
  PROVE  [s EXCEPT ![i] = x] \in Seq(S) /\ Len([s EXCEPT ![i] = x]) = Len(s)
  <1>1. PICK n \in Nat : n = Len(s)
    OBVIOUS
  <1>2. s \in [1 .. n -> S] /\ DOMAIN s = 1 .. n
    BY <1>1
  <1>3. [s EXCEPT ![i] = x] \in [1 .. n -> S]
    BY <1>2, Zenon
  <1> DEFINE t == [s EXCEPT ![i] = x]
  <1> HIDE DEF t
  <1>4. t \in [1 .. n -> S]
    BY <1>3 DEF t
  <1>5. t \in Seq(S) /\ Len(t) = n
    BY <1>4
  <1> QED
    BY <1>1, <1>5 DEF t

LEMMA Front ==
  ASSUME NEW S, NEW s \in Seq(S), s # <<>>
  PROVE  /\ Outer(s) \in Seq(S)
         /\ Len(Outer(s)) = Len(s) - 1
         /\ \A i \in 1 .. Len(s) - 1 : Outer(s)[i] = s[i]
  <1>1. PICK n \in Nat : n = Len(s)
    OBVIOUS
  <1>2. n > 0
    BY <1>1
  <1> QED
    BY <1>1, <1>2 DEF Outer

LEMMA UnwindTypes ==
  ASSUME NEW c \in Seq(Calls), c # <<>>, NEW fs \in Seq(Statuses),
         NEW others \in SUBSET {r \in Seq(Calls) : Len(r) > 1},
         Unwind(c, fs, others)
  PROVE  /\ futures' \in Seq(Statuses)
         /\ Len(futures') = Len(fs)
         /\ resuming' \subseteq {r \in Seq(Calls) : Len(r) > 1}
  <1>1. Len(c) \in Nat /\ Len(c) > 0
    OBVIOUS
  <1>2. futures' \in Seq(Statuses) /\ Len(futures') = Len(fs)
    BY DEF Unwind, Statuses
  <1>3. CASE Len(c) = 1
    BY <1>2, <1>3 DEF Unwind
  <1>4. CASE Len(c) # 1
    <2>0. Len(c) > 1
      BY <1>1, <1>4
    <2>1. c \in {r \in Seq(Calls) : Len(r) > 1}
      BY <2>0, Zenon
    <2>2. resuming' = others \cup {c}
      BY <1>4 DEF Unwind
    <2> QED
      BY <1>2, <2>1, <2>2, Zenon
  <1> QED
    BY <1>3, <1>4

LEMMA MoveTypes ==
  ASSUME NEW from \in States, NEW to \in Targets, Depart(from, to)
  PROVE  state' \in States \cup {Between} /\ move' \in Move
  BY DEF Depart, Move, States, Targets

LEMMA NoMoveType == NoMove \in Move
  BY DEF NoMove, Move, States, Targets

LEMMA TypeInit == Init => TypeOK
  <1> SUFFICES ASSUME Init PROVE TypeOK
    OBVIOUS
  <1>1. state \in States \cup {Between} /\ move \in Move
    BY NoMoveType DEF Init, States
  <1> QED
    BY <1>1 DEF Init, TypeOK

LEMMA TypeNext ==
  ASSUME TypeOK, [Next]_vars
  PROVE  TypeOK'
  <1> USE DEF Statuses
  <1>0. MaxCalls \in Nat
    BY BoundsAreNats
  <1>1. ASSUME NEW kind \in {"demand", "force"}, NEW target \in Targets, Queue(kind, target)
        PROVE  TypeOK'
    <2>1. calls + 1 \in Calls /\ calls + 1 \in Nat
      BY <1>0, <1>1 DEF TypeOK, Queue, NewCall, Calls
    <2>2. [kind |-> kind, target |-> target, call |-> calls + 1] \in Request
      BY <2>1 DEF Request
    <2>3. requests' \in Seq(Request)
      BY <1>1, <2>2 DEF TypeOK, Queue
    <2>4. futures' \in Seq(Statuses)
      BY <1>1 DEF TypeOK, Queue, NewCall
    <2> QED
      BY <1>1, <2>1, <2>3, <2>4 DEF TypeOK, Queue, NewCall
  <1>2. ASSUME NEW kind \in {"demand", "force"}, NEW target \in Targets, Start(kind, target)
        PROVE  TypeOK'
    <2>1. calls + 1 \in Calls /\ calls + 1 \in Nat
      BY <1>0, <1>2 DEF TypeOK, Start, NewCall, Calls
    <2>2. state \in States
      BY <1>2 DEF TypeOK, Start, InTransition
    <2>3. state' \in States \cup {Between} /\ move' \in Move
      BY <1>2, <2>2, MoveTypes DEF Start
    <2>4. chain' \in Seq(Calls) /\ begun' \in Seq(Calls)
      BY <1>2, <2>1 DEF TypeOK, Start
    <2>5. futures' \in Seq(Statuses)
      BY <1>2 DEF TypeOK, Start, NewCall
    <2> QED
      BY <1>2, <2>1, <2>3, <2>4, <2>5 DEF TypeOK, Start, NewCall
  <1>3. ASSUME BodyReturns PROVE TypeOK'
    <2>1. move' \in Move
      BY <1>3 DEF TypeOK, BodyReturns, Move
    <2> QED
      BY <1>3, <2>1 DEF TypeOK, BodyReturns, history
  <1>4. ASSUME Raise, TypeOK PROVE chain' \in Seq(Calls) /\ futures' \in Seq(Statuses)
    <2>1. futures \in Seq(Statuses)
      BY <1>4 DEF TypeOK
    <2>2. ASSUME NEW i PROVE [futures EXCEPT ![i] = "raised"] \in Seq(Statuses)
      BY <2>1, ChangedSequence
    <2> QED
      BY <1>4, <2>2 DEF Raise
  <1>5. ASSUME BodyRaises PROVE TypeOK'
    <2>1. state' \in States \cup {Between} /\ move' \in Move
      BY <1>5, NoMoveType DEF BodyRaises, States
    <2> QED
      BY <1>4, <1>5, <2>1 DEF TypeOK, BodyRaises, Raise
  <1>6. ASSUME ListenerRaises PROVE TypeOK'
    BY <1>4, <1>6 DEF TypeOK, ListenerRaises, Raise
  <1>7. ASSUME Arrive PROVE /\ AtWork \in Calls
                            /\ arrived' \subseteq Calls
                            /\ move.to \in Targets
                            /\ move.to \in States
    <2>1. chain # <<>> /\ chain \in Seq(Calls)
      BY <1>7 DEF TypeOK, Arrive
    <2>2. AtWork \in Calls
      BY <2>1 DEF AtWork
    <2> QED
      BY <1>7, <2>2 DEF TypeOK, Arrive, Move, States, Targets
  <1>8. ASSUME Rest PROVE TypeOK'
    <2>1. Arrive /\ chain # <<>>
      BY <1>8 DEF Rest, Arrive
    <2>2. futures' \in Seq(Statuses) /\ resuming' \subseteq {c \in Seq(Calls) : Len(c) > 1}
      BY <1>8, <2>1, UnwindTypes DEF TypeOK, Rest
    <2> QED
      BY <1>7, <1>8, <2>1, <2>2, NoMoveType DEF TypeOK, Rest
  <1>9. ASSUME ServeNext PROVE TypeOK'
    <2>1. Arrive /\ requests \in Seq(Request) /\ requests # <<>>
      BY <1>9 DEF ServeNext, TypeOK
    <2>2. Head(requests) \in Request /\ Tail(requests) \in Seq(Request)
      BY <2>1
    <2>3. Head(requests).target \in Targets /\ Head(requests).call \in Calls
      BY <2>2 DEF Request
    <2>4. state' \in States \cup {Between} /\ move' \in Move
      BY <1>7, <1>9, <2>1, <2>3, MoveTypes DEF ServeNext
    <2>5. chain' \in Seq(Calls) /\ begun' \in Seq(Calls)
      BY <1>9, <2>3 DEF ServeNext, TypeOK
    <2> QED
      BY <1>7, <1>9, <2>1, <2>2, <2>4, <2>5 DEF TypeOK, ServeNext
  <1>10. ASSUME DenyNext PROVE TypeOK'
    <2>1. Arrive /\ requests \in Seq(Request) /\ requests # <<>> /\ Raise
      BY <1>10 DEF DenyNext, TypeOK
    <2>2. Tail(requests) \in Seq(Request)
      BY <2>1
    <2> QED
      BY <1>4, <1>7, <1>10, <2>1, <2>2, NoMoveType, SMTT(40) DEF TypeOK, DenyNext, Raise
  <1>11. ASSUME NEW c \in resuming, Resume(c) PROVE TypeOK'
    <2>1. c \in Seq(Calls) /\ Len(c) > 1
      BY DEF TypeOK
    <2>2. Outer(c) \in Seq(Calls) /\ Outer(c) # <<>>
      <3>1. c # <<>> /\ Len(c) \in Nat
        BY <2>1
      <3>2. Outer(c) \in Seq(Calls) /\ Len(Outer(c)) > 0
        BY <2>1, <3>1, Front
      <3> QED
        BY <3>2
    <2>3. [futures EXCEPT ![c[Len(c)]] = "set"] \in Seq(Statuses)
      BY ChangedSequence DEF TypeOK
    <2>4. resuming \ {c} \in SUBSET {r \in Seq(Calls) : Len(r) > 1}
      BY DEF TypeOK
    <2>5. futures' \in Seq(Statuses) /\ resuming' \subseteq {r \in Seq(Calls) : Len(r) > 1}
      BY <1>11, <2>2, <2>3, <2>4, UnwindTypes DEF Resume
    <2> QED
      BY <1>11, <2>5 DEF TypeOK, Resume, history
  <1>12. ASSUME UNCHANGED vars PROVE TypeOK'
    BY <1>12 DEF TypeOK, vars, machine, history
  <1> QED
    BY <1>1, <1>2, <1>3, <1>5, <1>6, <1>8, <1>9, <1>10, <1>11, <1>12 DEF Next, Finish

-------------------------------------------------------------------------------
(* The counters and the flags of a transition                              *)

LEMMA FailedStays ==
  ASSUME TypeOK, Next, ~Failed'
  PROVE  ~Failed /\ ~BodyRaises /\ ~ListenerRaises /\ ~DenyNext
  <1>1. {errors, denials} \subseteq Nat
    BY DEF TypeOK
  <1>2. ~BodyRaises /\ ~ListenerRaises /\ ~DenyNext
    BY <1>1 DEF BodyRaises, ListenerRaises, DenyNext, Arrive, Raise, Failed
  <1>3. UNCHANGED <<errors, denials>>
    BY <1>2 DEF Next, Finish, Queue, Start, NewCall, BodyReturns, Rest, Arrive, ServeNext, Resume,
                history
  <1> QED
    BY <1>2, <1>3 DEF Failed

LEMMA BetweenIsNoState == Between \notin States
  BY NamesAssumption DEF Between, States

LEMMA FutureCount ==
  ASSUME TypeOK, Rest \/ BodyRaises \/ ListenerRaises \/ DenyNext \/ \E c \in resuming : Resume(c)
  PROVE  Len(futures') = Len(futures)
  <1>0. futures \in Seq(Statuses) /\ {"set", "raised"} \subseteq Statuses
    BY DEF TypeOK, Statuses
  <1>1. CASE Rest
    <2>1. chain # <<>> /\ chain \in Seq(Calls)
      BY <1>1 DEF Rest, Arrive, TypeOK
    <2> QED
      BY <1>0, <1>1, <2>1, UnwindTypes DEF Rest, TypeOK
  <1>2. CASE BodyRaises \/ ListenerRaises \/ DenyNext
    <2>1. futures' = [futures EXCEPT ![Head(chain)] = "raised"]
      BY <1>2 DEF BodyRaises, ListenerRaises, DenyNext, Raise
    <2> QED
      BY <1>0, <2>1, ChangedSequence
  <1>3. ASSUME NEW c \in resuming, Resume(c) PROVE Len(futures') = Len(futures)
    <2>1. c \in Seq(Calls) /\ Len(c) > 1 /\ c # <<>> /\ Len(c) \in Nat
      BY DEF TypeOK
    <2>2. Outer(c) \in Seq(Calls) /\ Len(Outer(c)) > 0
      BY <2>1, Front
    <2>3. Outer(c) # <<>>
      BY <2>2
    <2>4. PICK fs \in Seq(Statuses) : /\ fs = [futures EXCEPT ![c[Len(c)]] = "set"]
                                     /\ Len(fs) = Len(futures)
      <3>1. ASSUME NEW fs, fs = [futures EXCEPT ![c[Len(c)]] = "set"]
            PROVE  fs \in Seq(Statuses) /\ Len(fs) = Len(futures)
        BY <1>0, <3>1, ChangedSequence
      <3> QED
        BY <3>1
    <2>5. resuming \ {c} \in SUBSET {r \in Seq(Calls) : Len(r) > 1}
      BY DEF TypeOK
    <2> QED
      BY <1>3, <2>2, <2>3, <2>4, <2>5, UnwindTypes DEF Resume
  <1> QED
    BY <1>1, <1>2, <1>3

LEMMA InStepNext ==
  ASSUME TypeOK, InStep, Next
  PROVE  InStep'
  <1>0. MaxCalls \in Nat /\ calls \in Nat /\ futures \in Seq(Statuses)
    BY BoundsAreNats DEF TypeOK, Statuses
  <1>1. ASSUME NEW kind \in {"demand", "force"}, NEW target \in Targets, Queue(kind, target)
        PROVE  InStep'
    <2>1. Len(futures') = calls' /\ calls' <= MaxCalls
      BY <1>0, <1>1 DEF Queue, NewCall, InStep
    <2> QED
      BY <1>1, <2>1 DEF Queue, NewCall, InStep, InTransition, Failed
  <1>2. ASSUME NEW kind \in {"demand", "force"}, NEW target \in Targets, Start(kind, target)
        PROVE  InStep'
    <2>1. Len(futures') = calls' /\ calls' <= MaxCalls
      BY <1>0, <1>2 DEF Start, NewCall, InStep
    <2>2. chain' # <<>> /\ InTransition'
      BY <1>2 DEF Start, Depart, InTransition
    <2> QED
      BY <2>1, <2>2 DEF InStep
  <1>3. CASE BodyReturns
    BY <1>3 DEF BodyReturns, InStep, history, Failed, InTransition
  <1>4. CASE BodyRaises \/ ListenerRaises \/ DenyNext
    <2>1. Len(futures') = calls' /\ calls' <= MaxCalls
      BY <1>4, FutureCount DEF BodyRaises, ListenerRaises, DenyNext, Raise, InStep
    <2>2. chain' = <<>>
      BY <1>4 DEF BodyRaises, ListenerRaises, DenyNext, Raise
    <2>3. Failed'
      BY <1>4, FailedStays
    <2> QED
      BY <2>1, <2>2, <2>3 DEF InStep
  <1>5. CASE Rest
    <2>1. Len(futures') = calls' /\ calls' <= MaxCalls
      BY <1>5, FutureCount DEF Rest, InStep
    <2>2. chain' = <<>> /\ state' \in States
      BY <1>5 DEF Rest, TypeOK, Move, States, Targets
    <2>3. ~InTransition'
      BY <2>2, BetweenIsNoState DEF InTransition
    <2> QED
      BY <2>1, <2>2, <2>3 DEF InStep
  <1>6. CASE ServeNext
    <2>1. chain \in Seq(Calls)
      BY DEF TypeOK
    <2>2. chain' # <<>> /\ InTransition'
      BY <1>6, <2>1 DEF ServeNext, Depart, InTransition
    <2> QED
      BY <1>6, <2>2 DEF ServeNext, InStep
  <1>7. ASSUME NEW c \in resuming, Resume(c) PROVE InStep'
    <2>1. Len(futures') = Len(futures)
      BY <1>7, FutureCount
    <2> QED
      BY <1>7, <2>1 DEF Resume, InStep, history, Failed, InTransition
  <1> QED
    BY <1>1, <1>2, <1>3, <1>4, <1>5, <1>6, <1>7 DEF Next, Finish

(* A transition is under way while a call waits in the queue.              *)
LEMMA QueueWatchedNext ==
  ASSUME TypeOK, InStep, QueueWatched, Next
  PROVE  QueueWatched'
  <1> SUFFICES ASSUME requests' # <<>>, ~Failed' PROVE chain' # <<>>
    BY DEF QueueWatched
  <1>0. /\ ~Failed /\ ~BodyRaises /\ ~ListenerRaises /\ ~DenyNext
        /\ chain \in Seq(Calls)
    BY FailedStays DEF TypeOK
  <1>1. ASSUME NEW kind \in {"demand", "force"}, NEW target \in Targets, Queue(kind, target)
        PROVE  chain' # <<>>
    BY <1>0, <1>1 DEF Queue, InStep
  <1>2. ASSUME NEW kind \in {"demand", "force"}, NEW target \in Targets, Start(kind, target)
        PROVE  chain' # <<>>
    BY <1>2 DEF Start
  <1>3. CASE BodyReturns
    BY <1>0, <1>3 DEF BodyReturns, QueueWatched
  <1>4. CASE Rest
    BY <1>4 DEF Rest, Arrive
  <1>5. CASE ServeNext
    BY <1>0, <1>5 DEF ServeNext
  <1>6. ASSUME NEW c \in resuming, Resume(c) PROVE chain' # <<>>
    BY <1>0, <1>6 DEF Resume, QueueWatched
  <1> QED
    BY <1>0, <1>1, <1>2, <1>3, <1>4, <1>5, <1>6 DEF Next, Finish

-------------------------------------------------------------------------------
(* The numbers of calls                                                    *)

LEMMA Appended ==
  ASSUME NEW S, NEW s \in Seq(S), NEW x \in S
  PROVE  /\ Append(s, x) \in Seq(S)
         /\ Len(Append(s, x)) = Len(s) + 1
         /\ \A i \in 1 .. Len(s) : Append(s, x)[i] = s[i]
         /\ Append(s, x)[Len(s) + 1] = x
  OBVIOUS

LEMMA TailOf ==
  ASSUME NEW S, NEW s \in Seq(S), s # <<>>
  PROVE  /\ Head(s) = s[1] /\ Head(s) \in S
         /\ Tail(s) \in Seq(S)
         /\ Len(s) \in Nat /\ Len(s) >= 1
         /\ Len(Tail(s)) = Len(s) - 1
         /\ \A i \in 1 .. Len(s) - 1 : Tail(s)[i] = s[i + 1]
  OBVIOUS

LEMMA NumberedNext ==
  ASSUME TypeOK, Numbered, OnlyOnce, Next
  PROVE  Numbered' /\ OnlyOnce'
  <1>0. /\ calls \in Nat /\ begun \in Seq(Calls) /\ requests \in Seq(Request)
        /\ Len(begun) \in Nat /\ Len(requests) \in Nat /\ MaxCalls \in Nat
    BY BoundsAreNats DEF TypeOK
  <1>u. ASSUME UNCHANGED <<calls, begun, requests>> PROVE Numbered' /\ OnlyOnce'
    BY <1>u DEF Numbered, OnlyOnce
  <1>1. ASSUME NEW kind \in {"demand", "force"}, NEW target \in Targets, Queue(kind, target)
        PROVE  Numbered' /\ OnlyOnce'
    <2> DEFINE r == [kind |-> kind, target |-> target, call |-> calls + 1]
    <2>1. r \in Request /\ r.call = calls + 1
      BY <1>0, <1>1 DEF Queue, NewCall, Request, Calls
    <2> HIDE DEF r
    <2>2. requests' = Append(requests, r) /\ begun' = begun /\ calls' = calls + 1
      BY <1>1 DEF Queue, NewCall, r
    <2>3. /\ Len(requests') = Len(requests) + 1
          /\ \A i \in 1 .. Len(requests) : requests'[i] = requests[i]
          /\ requests'[Len(requests) + 1] = r
      BY <1>0, <2>1, <2>2, Appended
    <2>4. \A i \in 1 .. Len(requests') : i \in 1 .. Len(requests) \/ i = Len(requests) + 1
      BY <1>0, <2>3
    <2>5. \A i \in 1 .. Len(requests) : requests[i].call <= calls /\ requests[i].call \in Nat
      <3>1. \A i \in 1 .. Len(requests) : requests[i] \in Request
        BY <1>0
      <3>2. \A q \in Request : q.call \in Nat
        BY <1>0 DEF Request, Calls
      <3> QED
        BY <3>1, <3>2 DEF Numbered
    <2>6. \A i \in 1 .. Len(begun) : begun[i] <= calls /\ begun[i] \in Nat
      BY <1>0 DEF Numbered, Calls
    <2>7. Numbered'
      BY <1>0, <2>1, <2>2, <2>3, <2>4, <2>5, <2>6 DEF Numbered
    <2>8. OnlyOnce'
      BY <1>0, <2>1, <2>2, <2>3, <2>4, <2>6 DEF OnlyOnce
    <2> QED
      BY <2>7, <2>8
  <1>2. ASSUME NEW kind \in {"demand", "force"}, NEW target \in Targets, Start(kind, target)
        PROVE  Numbered' /\ OnlyOnce'
    <2>1. requests' = requests /\ begun' = Append(begun, calls + 1) /\ calls' = calls + 1
      BY <1>2 DEF Start, NewCall
    <2>2. calls + 1 \in Calls
      BY <1>0, <1>2 DEF Start, NewCall, Calls
    <2>3. /\ Len(begun') = Len(begun) + 1
          /\ \A i \in 1 .. Len(begun) : begun'[i] = begun[i]
          /\ begun'[Len(begun) + 1] = calls + 1
      BY <1>0, <2>1, <2>2, Appended
    <2>4. \A i \in 1 .. Len(begun') : i \in 1 .. Len(begun) \/ i = Len(begun) + 1
      BY <1>0, <2>3
    <2>5. \A i \in 1 .. Len(requests) : requests[i].call <= calls /\ requests[i].call \in Nat
      <3>1. \A i \in 1 .. Len(requests) : requests[i] \in Request
        BY <1>0
      <3>2. \A q \in Request : q.call \in Nat
        BY <1>0 DEF Request, Calls
      <3> QED
        BY <3>1, <3>2 DEF Numbered
    <2>6. \A i \in 1 .. Len(begun) : begun[i] <= calls /\ begun[i] \in Nat
      BY <1>0 DEF Numbered, Calls
    <2>7. Numbered'
      BY <1>0, <2>1, <2>3, <2>4, <2>5, <2>6 DEF Numbered
    <2>8. \A i, j \in 1 .. Len(begun') : begun'[i] = begun'[j] => i = j
      BY <1>0, <2>3, <2>4, <2>6 DEF OnlyOnce
    <2>9. \A i \in 1 .. Len(begun'), j \in 1 .. Len(requests) : begun'[i] # requests[j].call
      BY <1>0, <2>3, <2>4, <2>5 DEF OnlyOnce
    <2> QED
      BY <2>1, <2>7, <2>8, <2>9 DEF OnlyOnce
  <1>3. ASSUME ServeNext PROVE Numbered' /\ OnlyOnce'
    <2>1. /\ requests # <<>> /\ requests' = Tail(requests) /\ calls' = calls
          /\ begun' = Append(begun, requests[1].call) /\ requests[1] \in Request
      BY <1>0, <1>3, TailOf DEF ServeNext
    <2>2. requests[1].call \in Calls
      BY <2>1 DEF Request
    <2>3. /\ Len(begun') = Len(begun) + 1
          /\ \A i \in 1 .. Len(begun) : begun'[i] = begun[i]
          /\ begun'[Len(begun) + 1] = requests[1].call
      BY <1>0, <2>1, <2>2, Appended
    <2>4. \A i \in 1 .. Len(begun') : i \in 1 .. Len(begun) \/ i = Len(begun) + 1
      BY <1>0, <2>3
    <2>5. /\ Len(requests) >= 1 /\ Len(requests') = Len(requests) - 1
          /\ \A i \in 1 .. Len(requests') : i + 1 \in 1 .. Len(requests) /\ requests'[i] = requests[i + 1]
      BY <1>0, <2>1, TailOf
    <2>6. 1 \in 1 .. Len(requests) /\ \A i \in 1 .. Len(requests') : i + 1 # 1
      BY <1>0, <2>5
    <2>7. Numbered'
      BY <1>0, <2>1, <2>3, <2>4, <2>5, <2>6 DEF Numbered
    <2>8. OnlyOnce'
      BY <1>0, <2>1, <2>3, <2>4, <2>5, <2>6 DEF OnlyOnce, Numbered
    <2> QED
      BY <2>7, <2>8
  <1>4. ASSUME DenyNext PROVE Numbered' /\ OnlyOnce'
    <2>1. requests # <<>> /\ requests' = Tail(requests) /\ calls' = calls /\ begun' = begun
      BY <1>4 DEF DenyNext, Raise
    <2>2. /\ Len(requests') = Len(requests) - 1
          /\ \A i \in 1 .. Len(requests') : i + 1 \in 1 .. Len(requests) /\ requests'[i] = requests[i + 1]
      BY <1>0, <2>1, TailOf
    <2>3. \A i, j \in 1 .. Len(requests') : i # j => i + 1 # j + 1
      BY <1>0, <2>2
    <2> QED
      BY <1>0, <2>1, <2>2, <2>3 DEF Numbered, OnlyOnce
  <1>5. ASSUME BodyReturns \/ BodyRaises \/ ListenerRaises \/ Rest \/ \E c \in resuming : Resume(c)
        PROVE  Numbered' /\ OnlyOnce'
    BY <1>5, <1>u DEF BodyReturns, BodyRaises, ListenerRaises, Rest, Resume, Raise, history
  <1> QED
    BY <1>1, <1>2, <1>3, <1>4, <1>5 DEF Next, Finish

LEMMA StraightNext ==
  ASSUME TypeOK, InStep, Straight, QueueWatched, Next
  PROVE  Straight'
  <1> SUFFICES ASSUME ~Failed'
               PROVE  /\ Len(begun') + Len(requests') = calls'
                      /\ \A i \in 1 .. Len(begun') : begun'[i] = i
                      /\ \A i \in 1 .. Len(requests') : requests'[i].call = Len(begun') + i
    BY DEF Straight
  <1>0. /\ calls \in Nat /\ begun \in Seq(Calls) /\ requests \in Seq(Request)
        /\ Len(begun) \in Nat /\ Len(requests) \in Nat /\ MaxCalls \in Nat
    BY BoundsAreNats DEF TypeOK
  <1>f. ~Failed /\ ~BodyRaises /\ ~ListenerRaises /\ ~DenyNext
    BY FailedStays
  <1>s. /\ Len(begun) + Len(requests) = calls
        /\ \A i \in 1 .. Len(begun) : begun[i] = i
        /\ \A i \in 1 .. Len(requests) : requests[i].call = Len(begun) + i
    BY <1>f DEF Straight
  <1>1. ASSUME NEW kind \in {"demand", "force"}, NEW target \in Targets, Queue(kind, target)
        PROVE  Straight'
    <2> DEFINE r == [kind |-> kind, target |-> target, call |-> calls + 1]
    <2>1. r \in Request /\ r.call = calls + 1
      BY <1>0, <1>1 DEF Queue, NewCall, Request, Calls
    <2> HIDE DEF r
    <2>2. requests' = Append(requests, r) /\ begun' = begun /\ calls' = calls + 1
      BY <1>1 DEF Queue, NewCall, r
    <2>3. /\ Len(requests') = Len(requests) + 1
          /\ \A i \in 1 .. Len(requests) : requests'[i] = requests[i]
          /\ requests'[Len(requests) + 1] = r
      BY <1>0, <2>1, <2>2, Appended
    <2>4. \A i \in 1 .. Len(requests') : i \in 1 .. Len(requests) \/ i = Len(requests) + 1
      BY <1>0, <2>3
    <2>5. Len(begun') + Len(requests') = calls'
      BY <1>0, <1>s, <2>2, <2>3
    <2>6. \A i \in 1 .. Len(requests') : requests'[i].call = Len(begun') + i
      BY <1>0, <1>s, <2>1, <2>2, <2>3, <2>4
    <2>7. \A i \in 1 .. Len(begun') : begun'[i] = i
      BY <1>s, <2>2
    <2> QED
      BY <2>5, <2>6, <2>7 DEF Straight
  <1>2. ASSUME NEW kind \in {"demand", "force"}, NEW target \in Targets, Start(kind, target)
        PROVE  Straight'
    <2>1. requests' = requests /\ begun' = Append(begun, calls + 1) /\ calls' = calls + 1
      BY <1>2 DEF Start, NewCall
    <2>2. calls + 1 \in Calls
      BY <1>0, <1>2 DEF Start, NewCall, Calls
    <2>3. /\ Len(begun') = Len(begun) + 1
          /\ \A i \in 1 .. Len(begun) : begun'[i] = begun[i]
          /\ begun'[Len(begun) + 1] = calls + 1
      BY <1>0, <2>1, <2>2, Appended
    <2>4. \A i \in 1 .. Len(begun') : i \in 1 .. Len(begun) \/ i = Len(begun) + 1
      BY <1>0, <2>3
    <2>5. requests = <<>>
      BY <1>2, <1>f DEF Start, InStep, QueueWatched
    <2>6. Len(requests) = 0
      BY <2>5
    <2> QED
      BY <1>0, <1>s, <2>1, <2>3, <2>4, <2>6 DEF Straight
  <1>3. ASSUME ServeNext PROVE Straight'
    <2>1. /\ requests # <<>> /\ requests' = Tail(requests) /\ calls' = calls
          /\ begun' = Append(begun, requests[1].call) /\ requests[1] \in Request
      BY <1>0, <1>3, TailOf DEF ServeNext
    <2>2. requests[1].call \in Calls
      BY <2>1 DEF Request
    <2>3. /\ Len(begun') = Len(begun) + 1
          /\ \A i \in 1 .. Len(begun) : begun'[i] = begun[i]
          /\ begun'[Len(begun) + 1] = requests[1].call
      BY <1>0, <2>1, <2>2, Appended
    <2>4. \A i \in 1 .. Len(begun') : i \in 1 .. Len(begun) \/ i = Len(begun) + 1
      BY <1>0, <2>3
    <2>5. /\ Len(requests) >= 1 /\ Len(requests') = Len(requests) - 1
          /\ \A i \in 1 .. Len(requests') : i + 1 \in 1 .. Len(requests) /\ requests'[i] = requests[i + 1]
      BY <1>0, <2>1, TailOf
    <2>6. 1 \in 1 .. Len(requests) /\ requests[1].call = Len(begun) + 1
      BY <1>0, <1>s, <2>5
    <2> DEFINE n == Len(begun)
               m == Len(requests)
    <2>b. n \in Nat /\ m \in Nat /\ Len(begun') = n + 1 /\ Len(requests') = m - 1 /\ n + m = calls
      BY <1>0, <1>s, <2>3, <2>5
    <2>7. Len(begun') + Len(requests') = calls'
      <3> HIDE DEF n, m
      <3> QED
        BY <2>1, <2>b
    <2>8. \A i \in 1 .. Len(begun') : begun'[i] = i
      BY <1>0, <1>s, <2>3, <2>4, <2>6
    <2>9. \A i \in 1 .. Len(requests') : requests'[i].call = Len(begun') + i
      <3> SUFFICES ASSUME NEW i \in 1 .. Len(requests') PROVE requests'[i].call = Len(begun') + i
        OBVIOUS
      <3>1. i \in Nat
        BY <2>b
      <3>2. requests'[i].call = n + (i + 1)
        BY <1>s, <2>5
      <3> HIDE DEF n, m
      <3> QED
        BY <2>b, <3>1, <3>2
    <2> QED
      BY <2>7, <2>8, <2>9 DEF Straight
  <1>4. ASSUME BodyReturns \/ Rest \/ \E c \in resuming : Resume(c)
        PROVE  Straight'
    <2>1. UNCHANGED <<calls, begun, requests>>
      BY <1>4 DEF BodyReturns, Rest, Resume, history
    <2> QED
      BY <1>s, <2>1 DEF Straight
  <1>5. Straight'
    BY <1>f, <1>1, <1>2, <1>3, <1>4 DEF Next, Finish
  <1> QED
    BY <1>5 DEF Straight

-------------------------------------------------------------------------------
(* Futures and complete transitions                                        *)

LEMMA ChangedStatus ==
  ASSUME NEW s \in Seq(Statuses), NEW i, NEW x \in Statuses, NEW t, t = [s EXCEPT ![i] = x]
  PROVE  /\ t \in Seq(Statuses) /\ Len(t) = Len(s)
         /\ \A k \in 1 .. Len(s) : t[k] = "set" => s[k] = "set" \/ (k = i /\ x = "set")
  <1>1. t \in Seq(Statuses) /\ Len(t) = Len(s)
    BY ChangedSequence
  <1>2. \A k \in 1 .. Len(s) : k \in DOMAIN s
    OBVIOUS
  <1> QED
    BY <1>1, <1>2

LEMMA UnwindDone ==
  ASSUME NEW c \in Seq(Calls), c # <<>>, NEW fs \in Seq(Statuses), NEW others, NEW done,
         \A i \in 1 .. Len(c) : c[i] \in done,
         \A r \in others : \A i \in 1 .. Len(r) : r[i] \in done,
         \A k \in 1 .. Len(fs) : fs[k] = "set" => k \in done,
         Unwind(c, fs, others)
  PROVE  /\ Len(futures') = Len(fs)
         /\ \A k \in 1 .. Len(fs) : futures'[k] = "set" => k \in done
         /\ \A r \in resuming' : \A i \in 1 .. Len(r) : r[i] \in done
  <1>1. Len(c) \in Nat /\ Len(c) > 0
    OBVIOUS
  <1>2. CASE Len(c) = 1
    <2>1. c[1] \in done
      BY <1>2
    <2>2. futures' = [fs EXCEPT ![c[1]] = "set"] /\ resuming' = others
      BY <1>2 DEF Unwind
    <2>3. "set" \in Statuses
      BY DEF Statuses
    <2>4. /\ Len(futures') = Len(fs)
          /\ \A k \in 1 .. Len(fs) : futures'[k] = "set" => fs[k] = "set" \/ k = c[1]
      <3>1. ASSUME NEW t, t = [fs EXCEPT ![c[1]] = "set"]
            PROVE  /\ Len(t) = Len(fs)
                   /\ \A k \in 1 .. Len(fs) : t[k] = "set" => fs[k] = "set" \/ k = c[1]
        BY <2>3, <3>1, ChangedStatus
      <3> QED
        BY <2>2, <3>1
    <2> QED
      BY <2>1, <2>2, <2>4
  <1>3. CASE Len(c) # 1
    BY <1>3 DEF Unwind
  <1> QED
    BY <1>2, <1>3

LEMMA WaitersDoneNext ==
  ASSUME TypeOK, InStep, WaitersDone, Next
  PROVE  WaitersDone'
  <1>0. /\ futures \in Seq(Statuses) /\ chain \in Seq(Calls) /\ Len(chain) \in Nat
        /\ {"set", "raised"} \subseteq Statuses /\ Len(futures) \in Nat
    BY DEF TypeOK, Statuses
  <1>n. ASSUME NewCall
        PROVE  /\ \A c \in 1 .. Len(futures') : futures'[c] = "set" => c \in arrived'
               /\ resuming' = resuming /\ arrived' = arrived
    <2>1. futures' = Append(futures, "waiting") /\ "waiting" \in Statuses
      BY <1>n DEF NewCall, Statuses
    <2>2. /\ Len(futures') = Len(futures) + 1
          /\ \A i \in 1 .. Len(futures) : futures'[i] = futures[i]
          /\ futures'[Len(futures) + 1] = "waiting"
      BY <1>0, <2>1, Appended
    <2>3. \A i \in 1 .. Len(futures') : i \in 1 .. Len(futures) \/ i = Len(futures) + 1
      BY <1>0, <2>2
    <2> QED
      BY <1>n, <2>2, <2>3 DEF WaitersDone, NewCall
  <1>1. ASSUME NEW kind \in {"demand", "force"}, NEW target \in Targets, Queue(kind, target)
        PROVE  WaitersDone'
    BY <1>1, <1>n DEF Queue, WaitersDone
  <1>2. ASSUME NEW kind \in {"demand", "force"}, NEW target \in Targets, Start(kind, target)
        PROVE  WaitersDone'
    <2>1. Len(chain') = 1
      BY <1>2 DEF Start
    <2> QED
      BY <1>2, <1>n, <2>1 DEF Start, WaitersDone
  <1>3. CASE BodyReturns
    BY <1>3 DEF BodyReturns, WaitersDone, history
  <1>r. ASSUME Raise, arrived \subseteq arrived' PROVE WaitersDone'
    <2>1. Len(chain') = 0 /\ resuming' = resuming
      BY <1>r DEF Raise
    <2>2. /\ Len(futures') = Len(futures)
          /\ \A k \in 1 .. Len(futures) : futures'[k] = "set" => futures[k] = "set"
      <3>1. ASSUME NEW t, t = [futures EXCEPT ![Head(chain)] = "raised"]
            PROVE  /\ Len(t) = Len(futures)
                   /\ \A k \in 1 .. Len(futures) : t[k] = "set" => futures[k] = "set"
        BY <1>0, <3>1, ChangedStatus
      <3> QED
        BY <1>r, <3>1 DEF Raise
    <2> QED
      BY <1>r, <2>1, <2>2 DEF WaitersDone
  <1>4. CASE BodyRaises \/ ListenerRaises \/ DenyNext
    BY <1>4, <1>r DEF BodyRaises, ListenerRaises, DenyNext, Arrive
  <1>a. ASSUME Arrive
        PROVE  /\ chain # <<>> /\ arrived \subseteq arrived'
               /\ \A i \in 1 .. Len(chain) : chain[i] \in arrived'
    <2>1. chain # <<>> /\ arrived' = arrived \cup {chain[Len(chain)]}
      BY <1>a DEF Arrive, AtWork
    <2>2. \A i \in 1 .. Len(chain) : i < Len(chain) \/ i = Len(chain)
      BY <1>0
    <2> QED
      BY <2>1, <2>2 DEF WaitersDone
  <1>5. CASE Rest
    <2>1. Arrive /\ Unwind(chain, futures, resuming) /\ Len(chain') = 0
      BY <1>5 DEF Rest
    <2>2. /\ \A r \in resuming : \A i \in 1 .. Len(r) : r[i] \in arrived'
          /\ \A k \in 1 .. Len(futures) : futures[k] = "set" => k \in arrived'
      BY <1>a, <2>1 DEF WaitersDone
    <2>3. ASSUME NEW done, done = arrived'
          PROVE  /\ Len(futures') = Len(futures)
                 /\ \A k \in 1 .. Len(futures) : futures'[k] = "set" => k \in done
                 /\ \A r \in resuming' : \A i \in 1 .. Len(r) : r[i] \in done
      BY <1>0, <1>a, <2>1, <2>2, <2>3, UnwindDone
    <2> QED
      BY <2>1, <2>3 DEF WaitersDone
  <1>6. CASE ServeNext
    <2>1. /\ Arrive /\ chain' = Append(chain, Head(requests).call)
          /\ UNCHANGED <<futures, resuming>>
      BY <1>6 DEF ServeNext
    <2>2. requests # <<>> /\ Head(requests) \in Request
      BY <1>6, TailOf DEF ServeNext, TypeOK
    <2>3. Head(requests).call \in Calls
      BY <2>2 DEF Request
    <2>4. Len(chain') = Len(chain) + 1 /\ \A i \in 1 .. Len(chain) : chain'[i] = chain[i]
      BY <1>0, <2>1, <2>3, Appended
    <2>5. \A i \in 1 .. Len(chain') : i < Len(chain') => i \in 1 .. Len(chain)
      BY <1>0, <2>4
    <2> QED
      BY <1>a, <2>1, <2>4, <2>5 DEF WaitersDone
  <1>7. ASSUME NEW c \in resuming, Resume(c) PROVE WaitersDone'
    <2>1. c \in Seq(Calls) /\ Len(c) > 1 /\ c # <<>> /\ Len(c) \in Nat
      BY DEF TypeOK
    <2>2. /\ Outer(c) \in Seq(Calls) /\ Len(Outer(c)) = Len(c) - 1
          /\ \A i \in 1 .. Len(c) - 1 : Outer(c)[i] = c[i]
      BY <2>1, Front
    <2>3. Outer(c) # <<>>
      BY <2>1, <2>2
    <2>4. \A i \in 1 .. Len(c) : c[i] \in arrived
      BY DEF WaitersDone
    <2>5. Len(c) \in 1 .. Len(c) /\ \A i \in 1 .. Len(Outer(c)) : i \in 1 .. Len(c) - 1 /\ i \in 1 .. Len(c)
      BY <2>1, <2>2
    <2>6. \A i \in 1 .. Len(Outer(c)) : Outer(c)[i] \in arrived
      BY <2>2, <2>4, <2>5
    <2>7. ASSUME NEW fs, fs = [futures EXCEPT ![c[Len(c)]] = "set"]
          PROVE  /\ fs \in Seq(Statuses) /\ Len(fs) = Len(futures)
                 /\ \A k \in 1 .. Len(fs) : fs[k] = "set" => k \in arrived
      <3>1. /\ fs \in Seq(Statuses) /\ Len(fs) = Len(futures)
            /\ \A k \in 1 .. Len(futures) : fs[k] = "set" => futures[k] = "set" \/ k = c[Len(c)]
        <4>1. ASSUME NEW k, k = c[Len(c)]
              PROVE  /\ fs \in Seq(Statuses) /\ Len(fs) = Len(futures)
                     /\ \A i \in 1 .. Len(futures) : fs[i] = "set" => futures[i] = "set" \/ i = k
          <5>1. fs = [futures EXCEPT ![k] = "set"] /\ "set" \in Statuses
            BY <1>0, <2>7, <4>1
          <5>2. fs \in Seq(Statuses) /\ Len(fs) = Len(futures)
            BY <1>0, <5>1, ChangedSequence
          <5>3. \A i \in 1 .. Len(futures) : i \in DOMAIN futures
            BY <1>0
          <5>4. \A i \in 1 .. Len(futures) : i # k => fs[i] = futures[i]
            BY <5>1, <5>3
          <5> QED
            BY <5>2, <5>4
        <4> QED
          BY <4>1
      <3>2. c[Len(c)] \in arrived
        BY <2>4, <2>5
      <3> QED
        BY <3>1, <3>2 DEF WaitersDone
    <2>8. PICK fs \in Seq(Statuses) :
             /\ fs = [futures EXCEPT ![c[Len(c)]] = "set"] /\ Len(fs) = Len(futures)
             /\ \A k \in 1 .. Len(fs) : fs[k] = "set" => k \in arrived
      BY <2>7
    <2>9. \A r \in resuming \ {c} : \A i \in 1 .. Len(r) : r[i] \in arrived
      BY DEF WaitersDone
    <2>10. Unwind(Outer(c), fs, resuming \ {c}) /\ UNCHANGED <<chain, arrived>>
      BY <1>7, <2>8 DEF Resume, history
    <2>11. /\ Len(futures') = Len(fs)
           /\ \A k \in 1 .. Len(fs) : futures'[k] = "set" => k \in arrived
           /\ \A r \in resuming' : \A i \in 1 .. Len(r) : r[i] \in arrived
      <3>1. ASSUME NEW o \in Seq(Calls), o = Outer(c), NEW others, others = resuming \ {c},
                   NEW done, done = arrived
            PROVE  /\ Len(futures') = Len(fs)
                   /\ \A k \in 1 .. Len(fs) : futures'[k] = "set" => k \in done
                   /\ \A r \in resuming' : \A i \in 1 .. Len(r) : r[i] \in done
        <4>1. o # <<>> /\ \A i \in 1 .. Len(o) : o[i] \in done
          BY <2>3, <2>6, <3>1
        <4>2. \A r \in others : \A i \in 1 .. Len(r) : r[i] \in done
          BY <2>9, <3>1
        <4>3. Unwind(o, fs, others)
          BY <2>10, <3>1
        <4>4. \A k \in 1 .. Len(fs) : fs[k] = "set" => k \in done
          BY <2>8, <3>1
        <4> QED
          BY <4>1, <4>2, <4>3, <4>4, UnwindDone
      <3> QED
        BY <2>2, <3>1
    <2> QED
      BY <2>10, <2>11 DEF WaitersDone
  <1> QED
    BY <1>1, <1>2, <1>3, <1>4, <1>5, <1>6, <1>7 DEF Next, Finish

LEMMA ArrivedInOrderNext ==
  ASSUME TypeOK, InStep, QueueWatched, Straight, ArrivedInOrder, Next
  PROVE  ArrivedInOrder'
  <1> SUFFICES ASSUME ~Failed'
               PROVE  /\ chain' = <<>> => arrived' = 1 .. Len(begun')
                      /\ chain' # <<>> => AtWork' = Len(begun') /\ arrived' = 1 .. Len(begun') - 1
    BY DEF ArrivedInOrder
  <1>0. /\ calls \in Nat /\ begun \in Seq(Calls) /\ chain \in Seq(Calls)
        /\ Len(begun) \in Nat /\ Len(chain) \in Nat /\ MaxCalls \in Nat
    BY BoundsAreNats DEF TypeOK
  <1>f. /\ ~Failed /\ ~BodyRaises /\ ~ListenerRaises /\ ~DenyNext
        /\ Len(begun) + Len(requests) = calls
        /\ \A i \in 1 .. Len(requests) : requests[i].call = Len(begun) + i
        /\ chain = <<>> => arrived = 1 .. Len(begun)
        /\ chain # <<>> => AtWork = Len(begun) /\ arrived = 1 .. Len(begun) - 1
    BY FailedStays DEF Straight, ArrivedInOrder
  <1>1. ASSUME NEW kind \in {"demand", "force"}, NEW target \in Targets, Queue(kind, target)
        PROVE  ArrivedInOrder'
    <2>1. UNCHANGED <<chain, begun, arrived>>
      BY <1>1 DEF Queue, NewCall
    <2> QED
      BY <1>f, <2>1 DEF ArrivedInOrder, AtWork
  <1>2. ASSUME NEW kind \in {"demand", "force"}, NEW target \in Targets, Start(kind, target)
        PROVE  ArrivedInOrder'
    <2>1. /\ begun' = Append(begun, calls + 1) /\ chain' = <<calls + 1>>
          /\ arrived' = arrived /\ ~InTransition /\ calls + 1 \in Calls
      BY <1>0, <1>2 DEF Start, NewCall, Calls
    <2>2. chain = <<>> /\ requests = <<>>
      BY <1>f, <2>1 DEF InStep, QueueWatched
    <2>3. Len(begun') = Len(begun) + 1 /\ Len(requests) = 0 /\ arrived = 1 .. Len(begun)
      BY <1>0, <1>f, <2>1, <2>2, Appended
    <2>4. chain' # <<>> /\ AtWork' = calls + 1
      BY <2>1 DEF AtWork
    <2>5. calls = Len(begun) /\ Len(begun') - 1 = Len(begun)
      BY <1>0, <1>f, <2>3
    <2> QED
      BY <1>0, <2>1, <2>3, <2>4, <2>5 DEF ArrivedInOrder
  <1>3. ASSUME BodyReturns PROVE ArrivedInOrder'
    <2>1. UNCHANGED <<chain, begun, arrived>>
      BY <1>3 DEF BodyReturns, history
    <2> QED
      BY <1>f, <2>1 DEF ArrivedInOrder, AtWork
  <1>4. ASSUME Rest PROVE ArrivedInOrder'
    <2>1. /\ chain # <<>> /\ chain' = <<>> /\ begun' = begun
          /\ arrived' = arrived \cup {AtWork}
      BY <1>4 DEF Rest, Arrive
    <2>2. AtWork \in Calls
      BY <1>0, <2>1 DEF AtWork
    <2>3. AtWork = Len(begun) /\ arrived = 1 .. Len(begun) - 1
      BY <1>f, <2>1
    <2>4. Len(begun) >= 1
      BY <2>2, <2>3, <1>0 DEF Calls
    <2>5. (1 .. Len(begun) - 1) \cup {Len(begun)} = 1 .. Len(begun)
      BY <1>0, <2>4
    <2> QED
      BY <2>1, <2>3, <2>5 DEF ArrivedInOrder
  <1>5. ASSUME ServeNext PROVE ArrivedInOrder'
    <2>1. /\ chain # <<>> /\ arrived' = arrived \cup {AtWork} /\ requests # <<>>
          /\ chain' = Append(chain, Head(requests).call)
          /\ begun' = Append(begun, Head(requests).call)
      BY <1>5 DEF ServeNext, Arrive
    <2>2. /\ Head(requests) \in Request /\ Head(requests) = requests[1]
          /\ Len(requests) \in Nat /\ Len(requests) >= 1
      BY <2>1, TailOf DEF TypeOK
    <2>3. Head(requests).call = Len(begun) + 1 /\ Head(requests).call \in Calls
      BY <1>0, <1>f, <2>2 DEF Request
    <2>4. AtWork \in Calls
      BY <1>0, <2>1 DEF AtWork
    <2>5. AtWork = Len(begun) /\ arrived = 1 .. Len(begun) - 1
      BY <1>f, <2>1
    <2>6. Len(begun) >= 1
      BY <2>4, <2>5, <1>0 DEF Calls
    <2>7. (1 .. Len(begun) - 1) \cup {Len(begun)} = 1 .. Len(begun)
      BY <1>0, <2>6
    <2>8. /\ Len(begun') = Len(begun) + 1
          /\ chain' # <<>> /\ chain'[Len(chain')] = Len(begun) + 1
      BY <1>0, <2>1, <2>3, Appended
    <2>9. Len(begun') - 1 = Len(begun)
      BY <1>0, <2>8
    <2> QED
      BY <2>1, <2>5, <2>7, <2>8, <2>9 DEF ArrivedInOrder, AtWork
  <1>6. ASSUME NEW c \in resuming, Resume(c) PROVE ArrivedInOrder'
    <2>1. UNCHANGED <<chain, begun, arrived>>
      BY <1>6 DEF Resume, history
    <2> QED
      BY <1>f, <2>1 DEF ArrivedInOrder, AtWork
  <1>7. ArrivedInOrder'
    <2>1. ~BodyRaises /\ ~ListenerRaises /\ ~DenyNext
      BY <1>f
    <2> QED
      BY <1>1, <1>2, <1>3, <1>4, <1>5, <1>6, <2>1, Zenon DEF Next, Finish
  <1> QED
    BY <1>7 DEF ArrivedInOrder

-------------------------------------------------------------------------------
(* Theorems                                                                *)

LEMMA IInvInit == Init => IInv
  <1> SUFFICES ASSUME Init PROVE IInv
    OBVIOUS
  <1>1. TypeOK
    BY TypeInit
  <1>2. MaxCalls \in Nat
    BY BoundsAreNats
  <1>3. /\ Len(begun) = 0 /\ Len(requests) = 0 /\ Len(futures) = 0 /\ Len(chain) = 0
        /\ chain = <<>> /\ requests = <<>> /\ resuming = {} /\ arrived = {} /\ calls = 0
        /\ state = "Off"
    BY DEF Init
  <1>4. ~InTransition
    BY <1>3 DEF InTransition, Between
  <1>5. InStep /\ QueueWatched
    BY <1>2, <1>3, <1>4 DEF InStep, QueueWatched
  <1>6. Numbered /\ OnlyOnce /\ Straight /\ WaitersDone
    BY <1>3 DEF Numbered, OnlyOnce, Straight, WaitersDone
  <1>7. 1 .. 0 = {}
    OBVIOUS
  <1>8. ArrivedInOrder
    BY <1>3, <1>7 DEF ArrivedInOrder
  <1> QED
    BY <1>1, <1>5, <1>6, <1>8 DEF IInv

LEMMA IInvNext == IInv /\ [Next]_vars => IInv'
  <1> SUFFICES ASSUME IInv, [Next]_vars PROVE IInv'
    OBVIOUS
  <1>1. TypeOK'
    BY TypeNext DEF IInv
  <1>2. CASE Next
    <2>1. InStep' /\ QueueWatched' /\ WaitersDone'
      BY <1>2, InStepNext, QueueWatchedNext, WaitersDoneNext DEF IInv
    <2>2. Numbered' /\ OnlyOnce' /\ Straight' /\ ArrivedInOrder'
      BY <1>2, NumberedNext, StraightNext, ArrivedInOrderNext DEF IInv
    <2> QED
      BY <1>1, <2>1, <2>2 DEF IInv
  <1>3. CASE UNCHANGED vars
    BY <1>1, <1>3 DEF IInv, InStep, QueueWatched, Numbered, OnlyOnce, Straight, WaitersDone,
                      ArrivedInOrder, vars, machine, history, InTransition, Failed, AtWork
  <1> QED
    BY <1>2, <1>3

LEMMA IInvHolds == Spec => []IInv
  <1> QED
    BY IInvInit, IInvNext, PTL DEF Spec

(* The variables of the machine stay well typed (FSM.py:511-570).          *)
THEOREM MachineTypes == Spec => []TypeOK
  <1>1. IInv => TypeOK
    BY DEF IInv
  <1> QED
    BY <1>1, IInvHolds, PTL

(* A queued call always has a transition ahead of it that will serve it,   *)
(* unless something was raised (the queue of FSM.py:566-570).              *)
THEOREM QueueAlwaysWatched == Spec => []QueueWatched
  <1>1. IInv => QueueWatched
    BY DEF IInv
  <1> QED
    BY <1>1, IInvHolds, PTL

(* Calls are carried out in the order they were made (FSM.py:294-327).     *)
THEOREM CallsInOrder == Spec => []InOrder
  <1>1. IInv => InOrder
    <2> SUFFICES ASSUME IInv, ~Failed, NEW i \in 1 .. Len(begun), NEW j \in 1 .. Len(begun), i < j
                 PROVE  begun[i] < begun[j]
      BY DEF InOrder
    <2> QED
      BY DEF IInv, Straight
  <1> QED
    BY <1>1, IInvHolds, PTL

(* No call is carried out twice, whatever is raised (FSM.py:566-570).      *)
THEOREM CallsOnlyOnce == Spec => []OnlyOnce
  <1>1. IInv => OnlyOnce
    BY DEF IInv
  <1> QED
    BY <1>1, IInvHolds, PTL

(* A future that is set tells that the transition is complete and, if      *)
(* nothing was raised, those of all calls before it (FSM.py:531-570).      *)
THEOREM FuturesMeanDone == Spec => []FutureMeansDone
  <1>1. IInv => FutureMeansDone
    <2> SUFFICES ASSUME IInv, NEW c \in 1 .. Len(futures), futures[c] = "set"
                 PROVE  c \in arrived /\ (~Failed => \A d \in 1 .. c : d \in arrived)
      BY DEF FutureMeansDone
    <2>1. c \in arrived
      BY DEF IInv, WaitersDone
    <2>2. Len(begun) \in Nat /\ Len(futures) \in Nat
      BY DEF IInv, TypeOK
    <2>3. ASSUME ~Failed, NEW d \in 1 .. c PROVE d \in arrived
      <3>1. PICK n \in Int : arrived = 1 .. n
        <4>1. arrived = 1 .. Len(begun) \/ arrived = 1 .. Len(begun) - 1
          BY <2>3 DEF IInv, ArrivedInOrder
        <4> QED
          BY <2>2, <4>1
      <3> QED
        BY <2>1, <2>2, <3>1
    <2> QED
      BY <2>1, <2>3
  <1> QED
    BY <1>1, IInvHolds, PTL

===============================================================================
