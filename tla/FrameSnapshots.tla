---------------------------- MODULE FrameSnapshots ----------------------------
(***************************************************************************)
(* The C++ core of distributed2: how the server packs the state of an      *)
(* object, remembers the tick at which each of its fields last changed,    *)
(* and formats a snapshot either absolutely or as the difference to a      *)
(* frame the client holds.                                                 *)
(*                                                                         *)
(* A packed object (PackedObject + its ChangeFrameList) is a record        *)
(*     val : the packed value of each parameter field                      *)
(*     chg : the tick at which each field last changed, -1 for a baseline  *)
(* and _prev_sent_packets is a function from the ids of the objects that   *)
(* were ever packed to their most recent packed object.  Values stand for  *)
(* packed bytes: two are equal exactly when memcmp finds no difference.    *)
(* Packing is assumed to succeed (see the README for the failure path).    *)
(***************************************************************************)
EXTENDS Integers, Sequences

CONSTANTS Fields,      \* parameter fields of the distributed class
          Values,      \* packed values of a field
          MaxFrames    \* maxFrames in setupPackInfo: 128 in the code

ASSUME MaxFramesAssumption == MaxFrames \in Nat \ {0}

State == [Fields -> Values]
PackedObject(ticks) == [val : State, chg : [Fields -> ticks]]

-------------------------------------------------------------------------------
(* ChangeFrameList *)

NewChangeFrameList(tick) == [f \in Fields |-> tick]

SetChangeTick(chg, changed, tick) ==
  [f \in Fields |-> IF f \in changed THEN tick ELSE chg[f]]

FieldsChangedAfterTick(chg, tick) == {f \in Fields : chg[f] > tick}

-------------------------------------------------------------------------------
(* PackedObject, FrameSnapshotManager *)

CalcDelta(prev, state) == {f \in Fields : prev[f] # state[f]}

NewPackedObject(state, tick) ==
  [val |-> state, chg |-> NewChangeFrameList(tick)]

(* An object packed before keeps its packet if nothing changed; otherwise  *)
(* the new packet takes over the change list of the old one.               *)
Repack_OldTicks(prev, state, tick) ==           \* mutant: change list not updated
  [val |-> state, chg |-> prev.chg]

Repack(prev, state, tick) ==
  LET changed == CalcDelta(prev.val, state)
  IN  IF changed = {} THEN prev
      ELSE [val |-> state, chg |-> SetChangeTick(prev.chg, changed, tick)]

PackObjectInSnapshot(packs, d, state, tick) ==
  IF d \in DOMAIN packs THEN Repack(packs[d], state, tick)
  ELSE NewPackedObject(state, tick)

(* The bogus tick -1 keeps a field that does not change after the generate *)
(* message out of the delta snapshots that follow it.                      *)
FindOrCreateBaseline_Anew(packs, d, state) ==   \* mutant: replaces the packet
  NewPackedObject(state, -1)

FindOrCreateBaseline(packs, d, state) ==
  IF d \in DOMAIN packs THEN packs[d] ELSE NewPackedObject(state, -1)

ClientFormatSnapshot(packs, ids) == [d \in ids |-> packs[d].val]

(* Objects none of whose fields changed are left out altogether.           *)
ClientFormatDeltaSnapshot(packs, ids, from) ==
  LET Changed(d) == FieldsChangedAfterTick(packs[d].chg, from)
  IN  [d \in {i \in ids : Changed(i) # {}} |->
         [f \in Changed(d) |-> packs[d].val[f]]]

-------------------------------------------------------------------------------
(* ClientFrameManager: the ticks of the frames sent to one client          *)

AddClientFrame_Front(frames, tick) ==           \* mutant: added at the wrong end
  LET longer == <<tick>> \o frames
  IN  IF Len(longer) > MaxFrames THEN Tail(longer) ELSE longer

AddClientFrame(frames, tick) ==
  LET longer == Append(frames, tick)
  IN  IF Len(longer) > MaxFrames THEN Tail(longer) ELSE longer

(* get_client_frame with exact = true: the scan stops at the first frame   *)
(* that is not older than the tick.                                        *)
HasClientFrame_Any(frames, tick) == frames # <<>>   \* mutant: takes what there is

HasClientFrame(frames, tick) ==
  /\ tick >= 0
  /\ \E i \in DOMAIN frames :
       /\ frames[i] = tick
       /\ \A j \in 1 .. i - 1 : frames[j] < tick

-------------------------------------------------------------------------------
(* CClientRepository::unpack_object_state: the fields that the datagram    *)
(* carries replace the ones of the object.                                 *)
UnpackObjectState(state, fields) ==
  [f \in Fields |-> IF f \in DOMAIN fields THEN fields[f] ELSE state[f]]
===============================================================================
