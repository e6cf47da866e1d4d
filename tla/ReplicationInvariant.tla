------------------------- MODULE ReplicationInvariant -------------------------
(***************************************************************************)
(* Why MessagesFit and Converged hold: the inductive invariant of          *)
(* Replication.  The messages in flight are read as a chain of images of   *)
(* the replica, each the result of the message before it; the last image   *)
(* is what the server must reason about, and it agrees with the packets of *)
(* the server except for fields that changed after every frame on record.  *)
(***************************************************************************)
EXTENDS Replication

(* The replica after each of the messages ch, the first one applied to v.  *)
IsChain(p, ch, v) ==
  /\ DOMAIN p = 0 .. Len(ch)
  /\ p[0] = v
  /\ \A i \in 1 .. Len(ch) : Fits(ch[i], p[i-1]) /\ p[i] = Apply(ch[i], p[i-1])

(* A replica w and the packets pk of the objects it holds: a field of w is *)
(* that of the packet, unless it changed after every frame on record.      *)
FieldsAgree(w, pk, fr) ==
  /\ DOMAIN w \subseteq DOMAIN pk
  /\ \A d \in DOMAIN w, f \in Fields :
       \/ w[d][f] = pk[d].val[f]
       \/ \A i \in DOMAIN fr : fr[i] < pk[d].chg[f]

(* w is the replica of c when everything in flight has arrived.            *)
Agrees(c, w) ==
  /\ DOMAIN w = Visible(live, currentZones[c])
  /\ FieldsAgree(w, packs, frames[c])

(* Arriving in order, the messages ch turn replica v into w, and each of   *)
(* them fits.                                                              *)
Delivers(ch, v, w) ==
  \E p \in [0 .. Len(ch) -> View] : IsChain(p, ch, v) /\ p[Len(ch)] = w

(* Everything in flight to a client will fit, and once it has arrived the  *)
(* replica agrees with the server's packets.                               *)
ChainInv ==
  \A c \in clUp : \E w \in View :
    /\ Delivers(toClient[c], view[c], w)
    /\ c \in svUp => Agrees(c, w)

(* Facts about ticks, sessions and ownership the argument relies on.       *)
PacksOld == \A d \in DOMAIN packs : d \in DOMAIN live /\ \A f \in Fields : packs[d].chg[f] < tick

OwnersPresent == \A d \in DOMAIN live : live[d].owner \in svUp \cup {NoClient}

OwnedZonesOpen == \A c \in svUp : OwnedZones(live, c) \subseteq currentZones[c]

(* An acknowledgement that the server has or will have comes from a client *)
(* with a reference, and so does every delta snapshot.                     *)
ReferenceKnown ==
  \A c \in Clients :
    \/ deltaTick[c] >= 0
    \/ /\ acked[c] = -1
       /\ \A i \in DOMAIN toServer[c] : toServer[c][i] = -1
       /\ \A i \in DOMAIN toClient[c] : toClient[c][i].kind = "tick" => ~ toClient[c][i].delta

Records ==
  \A c \in Clients :
    /\ c \notin svUp => /\ frames[c] = <<>> /\ acked[c] = -1 /\ toServer[c] = <<>>
                        /\ currentZones[c] = {} /\ explicitZones[c] = {}
    /\ c \notin clUp => toClient[c] = <<>> /\ view[c] = NoTable

Bookkeeping ==
  PacksOld /\ OwnersPresent /\ OwnedZonesOpen /\ ReferenceKnown /\ Records /\ PipelineOrdered

IInv == TypeOK /\ Bookkeeping /\ ChainInv

-------------------------------------------------------------------------------
(* The promise                                                             *)

(* The images that the messages ch will leave behind, starting from v.     *)
Images(ch, v) ==
  LET img[i \in 0 .. Len(ch)] == IF i = 0 THEN v ELSE Apply(ch[i], img[i-1]) IN img

(* Those that are still to come.                                          *)
Arriving(ch, v) == LET img == Images(ch, v) IN [i \in 1 .. Len(ch) |-> img[i]]

(* Replication implements SnapshotImages: a message in flight stands for   *)
(* the image it leads to.                                                  *)
Seen == [c \in Clients |-> [d \in Visible(live, currentZones[c]) |-> live[d].state]]
Pipe == [c \in Clients |-> Arriving(toClient[c], view[c])]

Promise == INSTANCE SnapshotImages
             WITH writing <- svUp, reading <- clUp, shots <- tick - 1, sees <- Seen, pipe <- Pipe

(* Delta snapshots, baselines and acknowledgements give each client the    *)
(* stream of complete images that SnapshotImages describes.                *)
ImplementsImages == Promise!Spec
===============================================================================
