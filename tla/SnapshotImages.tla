---------------------------- MODULE SnapshotImages ----------------------------
(***************************************************************************)
(* What state replication promises, without ticks, deltas, baselines or    *)
(* acknowledgements: each client reads a stream of complete images.        *)
(*                                                                         *)
(*   shots  the snapshots taken so far                                     *)
(*   sees   what each client would hold if it were up to date              *)
(*   pipe   the images on their way to a client, oldest first              *)
(*   view   the image the client holds                                     *)
(*                                                                         *)
(* A snapshot is the complete image of what the client sees at one instant *)
(* (a consistent cut of the server).  Between snapshots objects appear in  *)
(* the stream and disappear from it as they come into the client's sight   *)
(* and leave it, and no object changes.                                    *)
(***************************************************************************)
EXTENDS Integers, Sequences

CONSTANT Clients

VARIABLES writing,   \* clients the server sends to
          reading,   \* clients that are receiving
          shots,
          sees, pipe, view

vars == <<writing, reading, shots, sees, pipe, view>>

SameObjects(a, b) == \A d \in DOMAIN a \cap DOMAIN b : a[d] = b[d]

Newest(c) == IF pipe[c] = <<>> THEN view[c] ELSE pipe[c][Len(pipe[c])]

(* pipe[c] grows by images that only add and remove objects, and the last  *)
(* one has the objects the client sees.                                    *)
StreamChanges(c) ==
  LET n == Len(pipe[c])
      imageAt(i) == IF i = n THEN Newest(c) ELSE pipe'[c][i]
  IN  /\ Len(pipe'[c]) >= n
      /\ \A i \in 1 .. n : pipe'[c][i] = pipe[c][i]
      /\ \A i \in n + 1 .. Len(pipe'[c]) : SameObjects(imageAt(i - 1), imageAt(i))
      /\ DOMAIN imageAt(Len(pipe'[c])) = DOMAIN sees'[c]

Init ==
  /\ writing = {} /\ reading = {}
  /\ shots = 0
  /\ sees = [c \in Clients |-> [d \in {} |-> 0]]
  /\ view = [c \in Clients |-> [d \in {} |-> 0]]
  /\ pipe = [c \in Clients |-> <<>>]

(* Objects are created, changed and deleted, interests change, the server  *)
(* may drop clients.                                                       *)
WorldChanges ==
  /\ writing' \subseteq writing
  /\ \A c \in writing' \cap reading : StreamChanges(c)
  /\ \A c \in (writing \ writing') \cap reading :
       \A i \in 1 .. Len(pipe[c]) : pipe'[c][i] = pipe[c][i]
  /\ \A c \in Clients \ (writing \cap reading) : pipe'[c] = pipe[c]
  /\ UNCHANGED <<reading, shots, view>>

TakeSnapshot(due) ==
  /\ due \subseteq writing
  /\ shots' = shots + 1
  /\ pipe' = [c \in Clients |-> IF c \in due \cap reading THEN Append(pipe[c], sees[c])
                                ELSE pipe[c]]
  /\ UNCHANGED <<writing, reading, sees, view>>

Deliver(c) ==
  /\ c \in reading
  /\ pipe[c] # <<>>
  /\ view' = [view EXCEPT ![c] = Head(pipe[c])]
  /\ pipe' = [pipe EXCEPT ![c] = Tail(@)]
  /\ UNCHANGED <<writing, reading, shots, sees>>

Leave(c) ==
  /\ c \in reading
  /\ reading' = reading \ {c}
  /\ view' = [view EXCEPT ![c] = [d \in {} |-> 0]]
  /\ pipe' = [pipe EXCEPT ![c] = <<>>]
  /\ UNCHANGED <<writing, shots, sees>>

Join(c) ==
  /\ c \notin writing \cup reading
  /\ writing' = writing \cup {c}
  /\ reading' = reading \cup {c}
  /\ UNCHANGED <<shots, sees, pipe, view>>

Next ==
  \/ WorldChanges
  \/ \E due \in SUBSET Clients : TakeSnapshot(due)
  \/ \E c \in Clients : Deliver(c) \/ Leave(c) \/ Join(c)

Spec == Init /\ [][Next]_vars
===============================================================================
