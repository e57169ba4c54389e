--------------------------- MODULE OriginSelector ---------------------------
(***************************************************************************)
(* What the sequencer chooses for its next block, from the part of L1 that *)
(* it can see: L1OriginSelector and confDepth (op-node/rollup/driver), and *)
(* the drift rule of Sequencer.StartBuildingBlock.  Operators only: an L1  *)
(* block is its number, `found' tells whether the block after the current  *)
(* origin was found.                                                       *)
(***************************************************************************)
EXTENDS Naturals

CONSTANTS BlockTime, MaxSequencerDrift, L1Time,
          SequencerConfDepth   \* L1 blocks below the head that stay hidden

(***************************************************************************)
(* confDepth.L1BlockRefByNumber, once an L1 head was signalled; the head   *)
(* that the node knows may be behind the top of L1.                        *)
(***************************************************************************)
L1BlockRefByNumber(num, l1Head, top) ==
  /\ num <= top
  /\ num = 0 \/ SequencerConfDepth = 0 \/ num + SequencerConfDepth <= l1Head

(***************************************************************************)
(* FindL1Origin for a block at `time' on a head with this origin: one      *)
(* origin, or none if the block would be past the drift with no next       *)
(* origin at hand.                                                         *)
(***************************************************************************)
PastSeqDrift(origin, time) == time > L1Time[origin] + MaxSequencerDrift

MutFindL1Origin(origin, time, found) ==    \* slip: the drift is not looked at
  {IF found /\ time >= L1Time[origin + 1] THEN origin + 1 ELSE origin}

FindL1Origin(origin, time, found) ==
  IF found THEN {IF time >= L1Time[origin + 1] THEN origin + 1 ELSE origin}
  ELSE {o \in {origin} : ~PastSeqDrift(o, time)}

(***************************************************************************)
(* StartBuildingBlock: the blocks that may come of it.  Past the drift of  *)
(* its origin a block takes nothing from the transaction pool.  A fetch of *)
(* the next origin that fails is taken for a block that is not there.      *)
(***************************************************************************)
StartBuildingBlock(origin, time, l1Head, top) ==
  {b \in [epoch : {origin, origin + 1}, content : {"txs", "empty"}] :
     /\ \E found \in {FALSE, L1BlockRefByNumber(origin + 1, l1Head, top)} :
          b.epoch \in FindL1Origin(origin, time, found)
     /\ PastSeqDrift(b.epoch, time) => b.content = "empty"}
=============================================================================
