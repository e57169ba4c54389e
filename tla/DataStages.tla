----------------------------- MODULE DataStages -----------------------------
(***************************************************************************)
(* The pull stages that turn L1 blocks into batches, composed: L1Traversal,*)
(* L1Retrieval, FrameQueue, ChannelBank and ChannelInReader                *)
(* (op-node/rollup/derive), driven by DerivationPipeline.Step.             *)
(*                                                                         *)
(* One call of NextBatch descends from stage to stage until one of them    *)
(* has something to give, so each action below is one descent.  A block is *)
(* the sequence of its batcher transactions; a transaction is the sequence *)
(* of frames ParseFrames returns, empty if parsing fails.                  *)
(***************************************************************************)
EXTENDS ChannelBank

CONSTANTS Blocks,       \* what L1 blocks may hold
          MaxBatches    \* bound: batches in a channel

ASSUME DataStagesAssumption ==
  /\ Blocks \subseteq Seq(Seq(Frames)) /\ Blocks # {}
  /\ MaxBatches \in Nat \ {0}

VARIABLES block,     \* L1Traversal.block: the content of the origin
          done,      \* L1Traversal.done
          opened,    \* L1Retrieval.datas # nil
          datas,     \* the transactions the iterator has left
          frames,    \* FrameQueue.frames
          reader,    \* ChannelInReader.nextBatchFn: batches left, or NoReader
          isBase,    \* history: the origin is the base of the last reset
          passes     \* history: how often the data of the origin was read out

l1Vars == <<block, done, opened, datas, isBase, passes>>
stageVars == <<channels, channelQueue, block, done, opened, datas, frames,
               reader, isBase, passes>>

NoReader == 0 - 1

(***************************************************************************)
(* The base of a reset: L1Retrieval opens its data without asking the      *)
(* traversal, which therefore will hand out the base once more.            *)
(***************************************************************************)
StagesInit ==
  /\ BankInit
  /\ block \in Blocks /\ done = FALSE
  /\ opened = TRUE /\ datas = block
  /\ frames = <<>> /\ reader = NoReader
  /\ isBase = TRUE /\ passes = 0

StagesReset ==
  /\ BankReset
  /\ block' \in Blocks /\ done' = FALSE
  /\ opened' = TRUE /\ datas' = block'
  /\ frames' = <<>> /\ reader' = NoReader
  /\ isBase' = TRUE /\ passes' = 0

(***************************************************************************)
(* ChannelInReader.NextBatch with a channel at hand: a batch, or the end   *)
(* of the channel or a decoding error, both of which drop the channel.     *)
(***************************************************************************)
DecodeBatch ==
  /\ reader # NoReader
  /\ reader' \in {NoReader} \cup {n \in 0 .. MaxBatches : n = reader - 1}
  /\ UNCHANGED <<channels, channelQueue, frames>>
  /\ UNCHANGED l1Vars

(***************************************************************************)
(* NextBatch gets nil data for a timed-out channel: WriteChannel fails on  *)
(* it and NextBatch returns a temporary error.                             *)
(***************************************************************************)
SkipTimedOutChannel ==
  /\ reader = NoReader
  /\ ReadTimedOut
  /\ UNCHANGED <<frames, reader>>
  /\ UNCHANGED l1Vars

(***************************************************************************)
(* NextBatch gets a channel: either the decompressor or the first batch    *)
(* fails, or the first batch is out and the others are left.               *)
(***************************************************************************)
MutOpenChannel ==    \* slip: the first batch is not counted as given out
  /\ reader = NoReader
  /\ ReadReady
  /\ reader' \in {NoReader} \cup 0 .. MaxBatches
  /\ UNCHANGED frames
  /\ UNCHANGED l1Vars

OpenChannel ==
  /\ reader = NoReader
  /\ ReadReady
  /\ reader' \in {NoReader} \cup 0 .. MaxBatches - 1
  /\ UNCHANGED frames
  /\ UNCHANGED l1Vars

(***************************************************************************)
(* ChannelBank.NextData finds nothing to read and asks for a frame.        *)
(***************************************************************************)
WantsFrame == reader = NoReader /\ ReadEOF

IngestQueued ==
  /\ WantsFrame
  /\ frames # <<>>
  /\ IngestFrame(Head(frames))
  /\ frames' = Tail(frames)
  /\ UNCHANGED reader
  /\ UNCHANGED l1Vars

(***************************************************************************)
(* L1Retrieval.NextData: the iterator at hand, or a new one on the block   *)
(* that NextL1Block gives out once.                                        *)
(***************************************************************************)
WantsData == WantsFrame /\ frames = <<>>

HasIterator == opened \/ ~done

Iterator == IF opened THEN datas ELSE block

MutOpenIterator == done' = done    \* slip: NextL1Block does not set done

OpenIterator == done' = (done \/ ~opened)

(***************************************************************************)
(* One transaction: its first frame goes on to the bank at once; if it     *)
(* does not parse, NextFrame returns NotEnoughData.                        *)
(***************************************************************************)
PullTransaction ==
  /\ WantsData /\ HasIterator /\ Iterator # <<>>
  /\ OpenIterator
  /\ opened' = TRUE /\ datas' = Tail(Iterator)
  /\ LET txFrames == Head(Iterator)
     IN IF txFrames = <<>>
          THEN UNCHANGED <<channels, channelQueue, frames>>
          ELSE IngestFrame(Head(txFrames)) /\ frames' = Tail(txFrames)
  /\ UNCHANGED <<block, reader, isBase, passes>>

(***************************************************************************)
(* Fetching the transactions fails: the iterator stays, to be retried.     *)
(***************************************************************************)
FetchFails ==
  /\ WantsData /\ HasIterator
  /\ OpenIterator
  /\ opened' = TRUE /\ datas' = Iterator
  /\ UNCHANGED <<channels, channelQueue, block, frames, reader, isBase, passes>>

(***************************************************************************)
(* Every stage returns io.EOF: the iterator is used up and dropped, or     *)
(* there is none and NextL1Block has given out the block already.          *)
(***************************************************************************)
MutStagesEOF ==    \* slip: an exhausted iterator counts as the end at any time
  /\ reader = NoReader
  /\ HasIterator => Iterator = <<>>

StagesEOF ==
  /\ WantsData
  /\ HasIterator => Iterator = <<>>

(***************************************************************************)
(* Pipeline.Step after io.EOF, when a later stage still had something to   *)
(* do, or AdvanceL1Block found no next block or failed to fetch it.        *)
(***************************************************************************)
WaitForL1 ==
  /\ StagesEOF
  /\ OpenIterator
  /\ opened' = FALSE /\ datas' = <<>>
  /\ passes' = passes + (IF HasIterator THEN 1 ELSE 0)
  /\ UNCHANGED <<channels, channelQueue, block, frames, reader, isBase>>

(***************************************************************************)
(* Pipeline.Step after io.EOF: AdvanceL1Block moves on to the next block.  *)
(***************************************************************************)
AdvanceL1Block ==
  /\ StagesEOF
  /\ Age
  /\ block' \in Blocks /\ done' = FALSE
  /\ opened' = FALSE /\ datas' = <<>>
  /\ isBase' = FALSE /\ passes' = 0
  /\ UNCHANGED <<frames, reader>>

StagesNext ==
  \/ DecodeBatch \/ SkipTimedOutChannel \/ OpenChannel
  \/ IngestQueued \/ PullTransaction \/ FetchFails
  \/ WaitForL1 \/ AdvanceL1Block \/ StagesReset

(***************************************************************************)
(* The driver keeps calling Step, L1 keeps growing, and fetching succeeds  *)
(* in the end.                                                             *)
(***************************************************************************)
StagesFairness ==
  /\ WF_stageVars(DecodeBatch)
  /\ WF_stageVars(SkipTimedOutChannel \/ OpenChannel)
  /\ WF_stageVars(IngestQueued)
  /\ WF_stageVars(PullTransaction)
  /\ WF_stageVars(WaitForL1)
  /\ WF_stageVars(AdvanceL1Block)

StagesSpec == StagesInit /\ [][StagesNext]_stageVars

FairStagesSpec == StagesSpec /\ StagesFairness

-----------------------------------------------------------------------------
(***************************************************************************)
(* The types of the stages' fields.                                        *)
(***************************************************************************)
StagesTypeOK ==
  /\ BankTypeOK
  /\ block \in Blocks
  /\ {done, opened, isBase} \subseteq BOOLEAN
  /\ datas \in Seq(Seq(Frames)) /\ frames \in Seq(Frames)
  /\ reader \in {NoReader} \cup 0 .. MaxBatches - 1
  /\ passes \in Nat

(***************************************************************************)
(* L1 data is processed once: the data of a block is read out once while   *)
(* it is the origin, except that the base of a reset, which L1Retrieval    *)
(* opens on its own, may be read out a second time when L1 has no next     *)
(* block yet.                                                              *)
(***************************************************************************)
ReadOnce == passes <= (IF isBase THEN 2 ELSE 1)

(***************************************************************************)
(* No channel stays in the bank forever: it is read, pruned or timed out,  *)
(* even if its frames never arrive and others keep the bank busy.          *)
(***************************************************************************)
ChannelsLeave ==
  \A id \in ChannelIDs : id \in DOMAIN channels ~> id \notin DOMAIN channels
=============================================================================
