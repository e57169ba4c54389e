------------------------------ MODULE Channel ------------------------------
(***************************************************************************)
(* A channel: frames of one channel ID, buffered until they are complete   *)
(* (op-node/rollup/derive/channel.go).                                     *)
(*                                                                         *)
(* A frame is a record with its channel ID, number, isLast flag and data;  *)
(* the data is represented by its length.  Time only matters for the       *)
(* timeout, which compares the L1 origin with the block that opened the    *)
(* channel, so a channel keeps its age in L1 blocks instead of the number  *)
(* of that block; ages above every timeout are not told apart (MaxAge).    *)
(* The fields id (the key in the bank) and highestL1InclusionBlock (never  *)
(* read) are left out.                                                     *)
(***************************************************************************)
EXTENDS Integers, FiniteSetsExt

CONSTANTS Frames,          \* the frames that L1 transactions may carry
          frameOverhead,   \* counted for each frame besides its data
          ChannelTimeout   \* L1 blocks a channel may stay open

ASSUME ChannelAssumption ==
  /\ \A f \in Frames : f.number \in Nat /\ f.isLast \in BOOLEAN /\ f.data \in Nat
  /\ frameOverhead \in Nat
  /\ ChannelTimeout \in Nat

frameSize(f) == f.data + frameOverhead

(***************************************************************************)
(* The memory of all frames in the map inputs.                             *)
(***************************************************************************)
InputsSize(inputs) ==
  MapThenSumSet(LAMBDA n : frameSize(inputs[n]), DOMAIN inputs)

NewChannel ==
  [age |-> 0, size |-> 0, closed |-> FALSE,
   end |-> 0, highest |-> 0, inputs |-> [n \in {} |-> n]]

MaxAge == ChannelTimeout + 1

TimedOut(ch) == ch.age > ChannelTimeout

Older(ch) == [ch EXCEPT !.age = IF @ < MaxAge THEN @ + 1 ELSE @]

(***************************************************************************)
(* AddFrame returns an error: a second last frame, a duplicate, or a frame *)
(* beyond the end of a closed channel.                                     *)
(***************************************************************************)
MutAddFrameNoClosedCheck(ch, f) ==    \* slip: a second last frame is accepted
  f.number \in DOMAIN ch.inputs

AddFrameFails(ch, f) ==
  \/ f.isLast /\ ch.closed
  \/ f.number \in DOMAIN ch.inputs
  \/ ch.closed /\ f.number >= ch.end

(***************************************************************************)
(* The channel after AddFrame has accepted f.  A last frame below a frame  *)
(* seen before prunes the frames above it; the loop that prunes subtracts  *)
(* the size of every buffered frame, pruned or not (channel.go:75-80).     *)
(***************************************************************************)
Prunes(ch, f) == f.isLast /\ f.number < ch.highest

Subtracted(ch, f) == IF Prunes(ch, f) THEN InputsSize(ch.inputs) ELSE 0

AddFrame(ch, f) ==
  LET kept == {n \in DOMAIN ch.inputs : Prunes(ch, f) => n < f.number}
  IN [age |-> ch.age,
      size |-> (ch.size - Subtracted(ch, f)) + frameSize(f),
      closed |-> ch.closed \/ f.isLast,
      end |-> IF f.isLast THEN f.number ELSE ch.end,
      highest |-> IF Prunes(ch, f) \/ f.number > ch.highest THEN f.number
                                                            ELSE ch.highest,
      inputs |-> [n \in kept \cup {f.number} |->
                    IF n = f.number THEN f ELSE ch.inputs[n]]]

(***************************************************************************)
(* IsReady: the last frame is there, the count is right, no number is      *)
(* missing.                                                                *)
(***************************************************************************)
IsReady(ch) ==
  /\ ch.closed
  /\ Cardinality(DOMAIN ch.inputs) = ch.end + 1
  /\ 0 .. ch.end \subseteq DOMAIN ch.inputs
=============================================================================
