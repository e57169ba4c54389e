---------------------------- MODULE MCBatchQueue ----------------------------
(***************************************************************************)
(* BatchQueue on a few batches.  L1 block 1 comes late, so that the second *)
(* L2 block exceeds the sequencer drift, and block 2 early, so that a      *)
(* third L2 block could have any of the first three L1 blocks as origin.   *)
(***************************************************************************)
EXTENDS BatchQueue, TLC

MCL1Time == 0 :> 0 @@ 1 :> 5 @@ 2 :> 6 @@ 3 :> 8 @@ 4 :> 10

B(time, epoch, content, parent) ==
  [time |-> time, epoch |-> epoch, canonical |-> TRUE, content |-> content,
   parent |-> parent]

Block(epoch, content) == [epoch |-> epoch, content |-> content]

One == <<Block(0, "txs")>>            \* after the first batch
OneTwo == Append(One, Block(0, "empty"))
Forced == <<Block(0, "empty"), Block(0, "empty")>>

MCBatches ==
  { B(2, 0, "txs", <<>>),
    B(2, 0, "rejected", <<>>),
    [B(2, 1, "txs", <<>>) EXCEPT !.canonical = FALSE],
    B(2, 0, "deposit", <<>>),
    B(4, 0, "txs", One),
    B(4, 0, "empty", One),
    B(6, 1, "txs", OneTwo),
    B(6, 1, "txs", Forced),
    B(6, 1, "rejected", Forced),
    B(6, 0, "empty", Forced),
    B(6, 2, "txs", Forced) }
=============================================================================
