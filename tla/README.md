# Verification of the rollup node with sequencer commitments

This project models the core of this fork of the OP Stack in TLA+: the derivation
pipeline of `op-node` from L1 data to the unsafe, safe and finalized heads, the event
loop and the sequencer that drive it, the batch submitter and the transaction manager
that feed it, and the extension that the fork adds, sequencer commitments that are
registered on L1 and screened by the nodes. TLC checks the models on small instances;
TLAPS proves most of the safety properties for all instances. All paths below are
relative to the repository.

## 1. Inventory

| Component | State | Operations | Interacts with |
|---|---|---|---|
| Payload buffer, `op-node/rollup/derive/payloads_queue.go` | heap by block number, size counter, map of hashes | Push (with eviction), Peek, Pop | engine queue |
| Channel, `derive/channel.go` | frames by number, end, highest, size, closed | AddFrame, IsReady, Reader | channel bank |
| Channel bank, `derive/channel_bank.go` | channels by ID, FIFO queue of IDs | IngestFrame, prune, Read, NextData, Reset | pulls from the frame queue, read by the channel reader |
| L1 traversal, retrieval, frame queue, channel reader, `derive/{l1_traversal,l1_retrieval,frame_queue,channel_in_reader}.go` | origin and `done`, iterator over transactions, frames, batch reader | NextL1Block, AdvanceL1Block, NextData, NextFrame, NextBatch, Reset | each stage pulls from the one before; `pipeline.go` advances the origin when all return `io.EOF` |
| Batch queue and attributes queue, `derive/{batch_queue,batches,attributes_queue,attributes}.go` | window of L1 blocks, batches by timestamp | NextBatch, CheckBatch, NextAttributes | between the channel reader and the engine queue |
| Engine queue, `derive/{engine_queue,engine_update}.go` | three heads, safe attributes, building job, finality data, finality signal, origin | Step, AddUnsafePayload, Finalize, StartPayload, ConfirmPayload, CancelPayload, Reset | payload buffer, stages before, sequencer, engine, L1 |
| Start of derivation, `rollup/sync/start.go` | none | FindL2Heads | engine queue (Reset), engine and L1 |
| Driver, `rollup/driver/{state,driver,sequencer,origin_selector,conf_depth}.go` | step requests and back-off, L1 heads, sequencing timers, payload channel | event loop, sequencer actions, alt-sync | everything in the node |
| Commitments, `op-node/node/{pepc,node,runtime_config}.go`, `SystemConfig.sol`, `FeeRecipientCommitment.sol` | block signer, commitments, fee recipients on L1; runtime config in the node | setNewFeeRecipient, screen, validateCommitments, PublishL2Payload, OnUnsafeL2Payload, Load | gossip, alt-sync, driver, L1 |
| Gossip and alt-sync, `op-node/p2p/{gossip,sync}.go` | blocks seen, pending requests | validators, handlers, range requests | commitments, driver |
| op-batcher, `op-batcher/batcher` | blocks to add, channels with pending and confirmed frames, last stored block | load blocks, TxData, TxConfirmed, TxFailed, Close, Clear, Start, Stop | transaction queue, L1, L2 node |
| Transaction manager, `op-service/txmgr` | nonce, versions of a transaction, SendState, group of sends | Queue.Send, Send, craftTx, publish, queryReceipt, increaseGasPrice | batcher, proposer, L1 |
| op-proposer | none of its own | poll, propose | transaction manager, `L2OutputOracle` |
| op-challenger and dispute contracts | game claims, responses | act, step, resolve | L1 |

Where the behaviour is hard:

* The engine is a remote service. A call may fail before or after its effect, and the
  engine moves its head before it refuses the rest of a forkchoice update. Node and
  engine then disagree until a retry or a reset.
* Derivation and the sequencer of one node share the building job.
* L1 reorgs under the node, and finality signals arrive at any time, for forks the node
  may not follow.
* Frames arrive in any order and quantity; three bounds (buffer memory, bank size,
  channel timeout) act at the same time.
* Batches are judged before all of the L1 blocks that decide about them are known, and
  again after resets that read L1 a second time.
* The event loop drops, merges and delays its own step requests, and the sequencer's
  timer is set in some of its turns only.
* In the batcher a loop, a publisher and several sends wait for each other; receipts
  come late, fail, or fail for a transaction that L1 includes all the same; a stop may be
  killed while it drains. L1 orders the frames of several channels as it likes, and the
  bank that they go to serves only the channel opened first.
* Several sends share a nonce counter that any failure resets; receipts and tip are
  read by different calls, with reorgs in between.
* Commitments, the block signer and the runtime configs of the nodes change at
  different times; blocks arrive by three ways, of which two are screened.

What makes the components correct: the buffer's counter and index agree with its
contents and evictions prefer old blocks; a channel is the same whatever the order of
its frames and always leaves the bank; the origin does not move past unread data; the
safe chain is a function of the batches on L1, and sequencer and verifiers agree on it;
the safe head is what L1 says, the finalized head what final L1 says, and the three
heads are ordered; no step of derivation and no turn of the sequencer is forgotten;
every L2 block is in a channel that reached the bank complete or is still to be sent; a send
puts its transaction on L1 once and returns; no payload in breach passes the
screening, and a refused payload is recovered.

## 2. Modules

| Module | Models | State and actions |
|---|---|---|
| `PayloadsQueue` | the payload buffer | `pq`, `currentSize`, `blockHashes`; `Push`, `Pop`. The heap is a set, of which any payload with the lowest number may leave first. The eviction loop is the choice of a set in `Evictions`: lowest numbers first and no more than needed. |
| `Channel` | operators on one channel | `AddFrameFails`, `AddFrame`, `IsReady`, `TimedOut`. A frame's data is its length. A channel keeps its age in L1 blocks instead of the number of its first block; ages beyond the timeout are one. |
| `ChannelBank` | the bank | `channels`, `channelQueue`; `NextData` (read, else ingest a frame), `Age` (the origin advances), `BankReset`. |
| `DataStages` | L1 traversal to channel reader, composed with the bank | one action per descent of a pull through the stages: `DecodeBatch`, `OpenChannel`, `SkipTimedOutChannel`, `IngestQueued`, `PullTransaction`, `FetchFails`, `WaitForL1`, `AdvanceL1Block`, `StagesReset`. Two history variables (`isBase`, `passes`) count how often a block was read. |
| `DerivedChain` | what batch derivation promises (abstract) | `l1`, the batches of each L1 block, and `chain`; `Mine`, `Extend` (the first usable batch, or an empty block when the window has passed), `Rewind`. |
| `BatchQueue` | batch queue, attributes queue, attributes builder | `bq` (origin, `l1Blocks`, `batches`), `aqBatch`, `safeAttrs`, position in the stages before; `PullBatch`, `PullNotEnoughData`, `PullEOF`, `RetryAttributes`, `ProcessAttributes`, `Reset`. A safe chain is its sequence of blocks, which stands for the hash of the last one. |
| `OriginSelector` | operators of the sequencer | `FindL1Origin`, `L1BlockRefByNumber` (confirmation depth), `StartBuildingBlock` (the drift rule). |
| `EngineQueue` | engine queue, composed with `PayloadsQueue`, engine, L1, sequencer, supplier of attributes | the parts of `Step` in the order of the code; an action is enabled when the earlier parts pass. `Finalize`, `AddUnsafePayload`, `Reset`, `SequencerStart`, `SequencerComplete`, `L1Step`. A block is the sequence of contents from genesis to it, so hash, parent, number and ancestry need no further state. |
| `Driver` | event loop and sequencer | `stepReq`, `delayed`, `failing`, the progress of a reset, what the pipeline has left, the building job, `timer`, `holdOff`; one action per case of the `select`, split by what a step or a sequencer action returns. Every action ends with `LoopTop`, the lines before the next `select`. |
| `Commitments` | commitments on L1, a sequencer node, verifiers | L1: `setNewFeeRecipient`, `MakeCommitment`, `setUnsafeBlockSigner`; `SequenceBlock` (build, insert, screen, publish), `PostBatch`; verifier: `BlocksValidator`, `GossipIn`, `AltSync`, `DriverTakes`, `InsertUnsafe`, `Derive`, `OnNewL1Head`, restarts. |
| `Batcher` | channel manager, channel builder, driver loop, publisher, sends, and the verifiers' channel bank | `chans`, `blocks`, `channelQueue`, `txChannels`, `lastStored`, the program counters of loop and publisher, `inflight`; `LoadBlock`, `LoadReorg`, `PublishTxToL1` (all of `TxData`), `QueueSend`, `QueueWait`, `ReceiptOK`, `ReceiptErr`, `Stop`, `Kill`, `Start`, failures; `bank`, `derived`, `lost` with `IngestFrame` and `Read`; L1, L2 and derivation as environment. |
| `TxMgr` | transaction manager and queue | `nonce`, per call: `pc`, versions, `SendState`, `receiptChan`; per version a goroutine that publishes and polls; `craftTx`, `Publish`, `ReadReceipt`, `ReadTip`, `Tick`, `increaseGasPrice`, `Abort`, `CtxDone`, `Return`; `Mine`, `MineEmpty`, `Reorg`. |
| `DataStagesProofs`, `BatchQueueProofs`, `DerivedChainProofs`, `EngineQueueProofs` (with the payload buffer), `DriverProofs`, `CommitmentsProofs`, `BatcherProofs`, `TxMgrProofs` | proofs about the modules they extend | see section 5 |
| `MC*` | constants of the instances | |

Two specifications are implemented by others. `ChannelBank` is the abstract
specification of the bank for `DataStages`, which implements `BankSpec`: it allows
frames in any order. `DerivedChain` says what the safe chain is without buffers,
reading order or partial knowledge; `BatchQueue` implements it under the mapping
`chain <- safe` (`ImplementsDerivedChain`), and its fairness unless the stages reset
over and over (`DerivesOrResets`).

How the models meet: `DataStages` gives `BatchQueue` its input, one batch after the
other of one L1 block after the other; `BatchQueue` is the supplier that `EngineQueue`
assumes (attributes in the order of L1, forgotten in a reset); `Driver` calls the steps
that `EngineQueue` details, reduced to what they return and to the building job;
`Batcher` uses the queue that `TxMgr` details, reduced to sends that end with or
without a receipt. `SequencedAccepted` composes the sequencer's rules
(`OriginSelector`) with the verifiers' (`BatchQueue`).

Definitions whose name starts with `Mut` are slips (a dropped guard, a missing update)
of the definition that follows; no specification uses them. They show that each
property can fail.

Abstractions that matter when reading results:

* The driver runs handlers one at a time, so each handler is an action. In
  `Commitments` the validator and the handler of a gossiped block run in other threads
  and are actions of their own; in `Batcher` and `TxMgr` each goroutine moves on its
  own between its calls and its locks.
* `EngineQueue!Reset` picks what `FindL2Heads` may return: a safe head between the
  engine's finalized block and its head, an unsafe head above it and an origin whose
  derived chain is not beyond the safe head. With `LateBatches = FALSE` the walk always
  ends at the engine's finalized block, as it does when batches come in time; `TRUE`
  also allows it to end where a full sequencing window of L1 origins was passed.
* `InsertUnsafePayload` and the other engine calls have an alternative for the lost
  reply. A call that fails without effect changes nothing and is a stutter.
* In `BatchQueue` an L1 block that a batch names may be one of another fork
  (`canonical = FALSE`); L1 itself does not reorg, a reset to any earlier safe block
  is what a reorg comes to for these stages.
* In `Driver` the heads are their distance, and time is the order in which delays end.
* In `Batcher` the number of blocks that fill a channel and the number of its frames
  are choices, and the L1 origin of a block follows its number. Channels stay in
  `chans` after the manager has dropped them, for the properties. What the bank does
  depends on L1 alone; it is computed as L1 grows, with one `Read` to the end after each
  frame and each new L1 block, as `NextData` and the advance of the origin do it. An entry
  of the bank is the channel, the L1 block that opened it and the frames it has. `lost` is
  a history variable: the channels that were complete when they timed out.
* In `TxMgr` reorgs are shorter than the confirmations asked for. A block number that a
  goroutine has read is kept as the number of confirmations it stands for. `torn` and
  `skipped` are history variables for the properties. A publication that fails may have
  reached the node (`PublishFails`).
* In `Commitments` a block is known by its number: there is one sequencer and it does
  not reorg. The payload is what the sample commitment reads of it, number and fee
  recipient. op-node always uses the fee vault (`derive/attributes.go:115`), so the
  instances have `Coinbases = {vault}`. Each block also records the accounts whose
  commitments it breached when it was built, for the properties only.

## 3. Runs

All numbers of states are for the complete search.

| Run | Bounds | Shows |
|---|---|---|
| `data_stages` | 2 channels, 7 kinds of transactions incl. one that does not parse, a competing first frame, an early and a late end, frames beyond the end; blocks of up to 2 transactions, 2 batches per channel, bank of 3 frames; 12 013 states | map and queue agree and are ordered by age, channels are well formed, the stages implement the bank, a block is read once (a reset base at most twice), every channel leaves the bank. |
| `batch_queue` | 5 L1 blocks, of which one is late and one early, window 2, drift of one block, 2 batches out of 11 kinds (rejected, with deposits, of another fork, on a forced chain, for one or two epochs later), 1 reset of another cause; 115 511 states | the safe chain is the one of `DerivedChain`; L1 blocks are gapless; buffered batches are in order; what a sequencer chooses is accepted by verifiers; what L1 decides is derived. Two batches suffice for one to displace, follow or compete with the other. |
| `engine_queue` | L1 of 2 blocks with two contents (one with a rejected block), reorgs and finality; 2 gossiped blocks, the second as large as the buffer; a sequencer whose blocks match or compete with the derived ones; 2 L2 blocks; 549 846 states | the buffer's counter and index, heads ordered, attributes never stale, safe head derived, finalized head of node and engine derived from final L1 data. Two L1 and L2 blocks already contain a reorg of a block that was derived, a finality signal for the other fork, a safe block that replaces an unsafe one with a descendant, and a stale job that puts the unsafe head behind the safe head. |
| `driver` | 2 stages, safe lag 2 of 3, backlog 2, 2 resets; 57 896 states | work is scheduled, the timer is on exactly when the sequencer may act, the engine gets ready after resets, the sequencer goes on. |
| `commitments` | 2 accounts of which one commits, 2 recipients, 1 verifier, channel of capacity 1, 2 blocks, 2 changes on L1; 1 395 414 states | screening keeps what it promises, authors are screened for their own commitments, blocks are recovered; payloads out of order, gaps and alt-sync happen. |
| `batcher` | 2 sends in flight, 2 frames per channel, 2 L2 blocks, L1 blocks 1 to 3 with a channel timeout of 1; two events out of new L1 blocks, L2 reorgs and failed calls, or else a failed send or a stop (`Event` counts these twice, `MaxEvents` is 2), which cancels the other sends or may be killed at any time of the drain, and a restart; 812 200 states | frames are tracked, blocks are accounted for, publishing ends whether sends succeed, fail or are cancelled. A channel can time out between its two frames, also at the head of the bank with a complete one behind it; a failed send cancels its group and may be included; a reorg or a stop comes with sends in flight and the queue at its limit. A failed send or a stop together with another event, and so a channel that L1 opened early (`OpenedEarly`, a failed send and two L1 blocks), are left to the proofs of the three invariants. |
| `txmgr` | 2 sends, one with a fee bump, 2 confirmations, abort after 1 nonce error, 1 fault; 262 035 states | one inclusion per send, distinct nonces, receipts that stay, sends that return. |

`engine_queue` says `CHECK_DEADLOCK FALSE`: an L1 of `MaxL1` blocks, all derived and
final, leaves nothing to do. `driver` says it because a closed event loop stops.

Runs that end with a violation document where code and text disagree:

| Run | What happens |
|---|---|
| `engine_late_batches` | after a reset the safe head is paired with a walked-back origin (`engine_queue.go:806`) and may be finalized before the L1 block it was derived from |
| `commitments_enforced` | a block in breach is not published, but goes into a batch and is derived by everyone (`README.md`, Key Features) |
| `txmgr_stuck` | the retry of `craftTx` (`txmgr.go:188`) takes a second nonce; the first is never used, the transaction never mined, and `Send` never returns |
| `batch_queue_base` | a reset whose base is directly before the origin of the safe head leaves the base in `l1Blocks` (`batch_queue.go:126`), which ends in the next reset error |
| `driver_stuck` | the job of a forced block survives the consolidation of its attributes (`engine_queue.go:606`), and the sequencer stands back for as long as nothing else is forced |

Observed while modelling, without a run of their own:

* `Push` records the hash of a payload after the eviction loop (`payloads_queue.go:130`):
  one that is evicted at once stays in `blockHashes` and is refused as a duplicate from
  then on.
* A late closing frame makes a channel subtract the size of every frame it keeps
  (`channel.go:79`), not of those it drops; the limit of the bank is on that size. The
  rule is part of consensus.
* A finalized head the engine was not told of is lost in a reset (`engine_queue.go:800`).
* The node screens for the block signer (`pepc.go:31`), the sample commitment looks up
  the output proposer. `RuntimeConfig.Load` is only called at start (`node.go:172`),
  not for every L1 block as `runtime_config.go:27` says; in the model a rotation reaches
  a node by a restart only. `target()` in `pepc.go` passes a string with `0x` prefix to
  `Hex2BytesFixed`, which yields the zero target.
* A lost reply to the forkchoice update of a forced block lets the retry consolidate
  that block while the unsafe head is on another chain (`engine_queue.go:609`), which
  `HeadsOrdered` allows only until the update that follows.
* A job that the sequencer started before a safe block replaced the one it builds on is
  sealed and confirmed with a warning only (`engine_queue.go:696`): the unsafe head ends
  behind the safe head, until `tryNextSafeAttributes` finds it there and corrects it
  (`engine_queue.go:572`). The proof of `HeadsOrdered` led to this case. Without a
  sequencer it never happens (`EQVerifierHeads`).
* `derivation.md` lets the origin of a batch be at most one after that of the safe
  head; `CheckBatch` compares with `l1Blocks[0]`, which may itself be one ahead. A batch
  two ahead is accepted there and ends in the reset error of the attributes builder.
* Behind an undecided batch the later candidates of the same timestamp are forgotten
  (`batch_queue.go`, `deriveNextBatch`). A batch is undecided only while the stages are
  at the origin of the safe head itself, where L1 can hold no valid batch on that head,
  so nothing is lost (`ImplementsDerivedChain`).
* `Sequencer.nextAction` is honoured only if a job builds on the head
  (`sequencer.go:141`); after an error that cancelled the job there is no back-off.
* `Close` removes channels from the slice it iterates over (`channel_manager.go:348`)
  and so skips the channel after a removed one.
* A send reported as failed may be included all the same. It opens its channel on L1
  earlier than the batcher knows; if the rest is late for that opening, the batcher
  takes the channel for submitted. `Accounted` excepts this case (`OpenedEarly`): the
  batcher does not see it.
* `channel_manager.go:22` says that a new channel waits for the one before it, but
  `ensureChannelWithSpace` makes one as soon as the current one is full. If L1 includes
  the first frame of channel A before that of B in one block and another frame of A is
  late, the bank times out A and then B, although B is complete: `Read` looks only at the
  first channel, and at its timeout before `IsReady` (`channel_bank.go:122`). The batcher
  requeues the blocks of A, takes B for submitted, and misses the blocks of B.
  `Accounted` excepts this case too (`lost`), and shows that there is no third one.
* `TxData` returns before it registers the L1 head when there are no blocks to add, so
  a channel with `MaxChannelDuration` is not closed without further blocks
  (`channel_builder.go:221` says the head is registered whenever it is known).
* `queryReceipt` reads the receipt and the tip by two calls (`txmgr.go:426`, `445`). A
  reorg in between makes a dropped transaction count as confirmed, and `Send` returns its
  receipt. `ReceiptStays` excepts this case (`torn`), and shows that there is no other.
* After `resetNonce` two sends may hold the same nonce; `NoncesDistinct` is about the
  time before any send has failed. What the shared nonce may do after that is limited by
  `IncludedOnce` and `ReturnsUnlessSkipped`.
* `increaseGasPrice` passes the fee cap and the tip cap to `EstimateGas` in each
  other's place (`txmgr.go:512`).

## 4. Fairness

`DataStages` (`ChannelsLeave`): weak fairness of the descents and of `AdvanceL1Block`.
The driver requests another step after each one that did something and after
temporary errors, L1 keeps producing blocks, and a fetch that is retried succeeds in
the end. Resets are not fair and may happen at any time.

`BatchQueue` (`DerivesOrResets`): weak fairness of pulls, of `ProcessAttributes` and of
a requested reset, which the driver keeps stepping; strong fairness of the attributes
being made and of the next L1 block being fetched, since what is retried on and on
does not fail for ever. L1 is not obliged to grow.

`Driver` (`EngineReadyAgain`, `SequencerMakesBlocks`, `SequencingResumes`): weak
fairness of L1 heads, which keep coming, and of the end of a hold-off; strong fairness
of the cases of the `select` (it picks among the ready ones at random) and of the
successful outcomes of resets, steps and building. Failures, resets, payloads and admin
requests get none.

`Batcher` (`PublishEnds`): weak fairness of the publisher goroutine, of the inclusion of
the transactions of sends whose group is not cancelled and of the delivery of receipts;
a send whose group is cancelled returns its error, and the L1 tip of a killed batcher
fails, since both watch their context. Inclusion after a cancellation gets none. The
fairness of the sends is stated on `inflight` alone: exactly the steps of `Include`,
`ReceiptOK` and `ReceiptErr` change it that way, and the formula is cheap to evaluate.

`TxMgr` (`ReturnsUnlessSkipped`, `SendReturns`): weak fairness of the steps of calls
and goroutines, whose tickers fire; strong fairness of the `ctx.Done` case, which is
ready again and again; weak fairness of L1 blocks and of the mining of a pending
transaction with the right nonce.

`Commitments` (`Recovered`): weak fairness of `PostBatch` and of each verifier's
`Derive`: the batcher keeps submitting, the driver keeps stepping. Gossip, alt-sync,
the L1 call of the screening and restarts get no fairness, so recovery rests on L1.

## 5. Proofs

Everything below is proved by TLAPS for every value of the constants that meets the
assumption of the module (`ASSUME` beside its `CONSTANTS`; TLC evaluates it in each
run). The bounds that make an instance finite are constants too and may be any number.
Each inductive invariant was checked by TLC before it was proved.

**Payload buffer** (first part of `EngineQueueProofs`): `PQTypeCorrect`, `PQMemoryAccounted`,
`PQQueuedIsKnown`, `PQEvictsOnlyLower`, for every numbering, allowance and size function
that adds up over disjoint sets; sets need not be finite. The invariant `PQInv` is the
conjunction of types, accounting and index. The accounting alone is not inductive: that
a push adds the size of `p` to `Mem[pq]` needs `p \notin pq`, which follows from the
duplicate check only because every buffered payload is in `blockHashes`.

**L1 data stages** (`DataStagesProofs`): `BankCorrect` about the bank on its own, that the
stages implement it (`StagesImplementBank`), and `StagesTypeCorrect`,
`StagesQueueMatchesMap`, `StagesChannelWellFormed`, `StagesReadOnce`, for every set of
frames and every L1 block made of them. Sizes are
sums over finite sets; that such a sum is additive takes an induction, for which the
proof uses a smallest counterexample. The invariant of the bank says that the size of a
channel is the one of its frames, unless a late closing frame has subtracted too much
(section 3); the invariant of the stages adds that a frame in flight is a frame and how
often the current block was read.

**Batch queue** (`BatchQueueProofs`): `BQTypeCorrect`, `BQEpochPrepared`, `BQBufferedInOrder`,
`BQSequencedAccepted`, for every L1 chain, every set of batches, every window, drift, channel
timeout and confirmation depth; the times of L1 blocks need only increase. The invariant
says that the L1 blocks of the queue are a gapless run up to its own origin, or were
thrown out behind the safe head (`RunKept`), and that attributes in the making fit the safe
head (`AttributesFit`). The latter is needed for the former: an accepted batch drops an L1
block before the safe head moves, and only a batch that fits makes up for it. That the
sequencer's blocks are accepted needs `SafeBlocks`: no safe block is older than its origin.

`BQImplementsDerivedChain` (`DerivedChainProofs`): the batch queue implements `DerivedChain`.
The invariant `RInv`, added to the one above, relates the queue to the places of batches
on L1:

* A canonical batch is included after its epoch (`L1Good`), so one that was included before
  the origin of the safe head is not needed any more.
* Of what the stages have read (`ReadTo`), the buffers hold in order of inclusion every batch
  for a later timestamp (`Future`) and every valid batch for the next one that is not settled
  (`Now`). Settled are batches that the engine rejected and those that cannot matter once the
  queue has moved to the next origin: batches for the old one, and all if even an empty block
  drifts too far. Without this exception the invariant is false, because `CheckBatch`
  drops batches that `DerivedChain` still counts as valid.
* The queue moves to the next origin without a block only when L1 has nothing left for the old one
  (`NoneLeft`): the window has passed, or a rejected batch has moved on.
* A batch that was derived is the next block of `DerivedChain` (`Right`), and stays it when L1
  grows, because new batches are later or out of the window.

From `Now`, the first candidate that `CheckBatch` accepts is the earliest usable batch
(`PickEarliest`, `AcceptedRight`), and an empty block is forced only when there is none and can
be none any more (`WindowRead`, `ForcedRight`). After a reset the buffers are empty and
what counts as read lies before the origin of the safe head, so that the invariant starts
again (`ResetView`).

**Engine queue** (`EngineQueueProofs`):

* `EQTypeCorrect`, `EQHeadsOrdered`, `EQAttributesFresh`, from the invariant `EQInv`: types, the
  finalized head and finality data on the chain of the safe head, attributes for the
  safe head and the current origin, and safe and unsafe head on one chain unless a
  forkchoice update or a reset is pending (`HeadsApart`).
* `EQImplementsPQ`: a step of the engine queue is a step of its payload buffer, so the
  theorems about the buffer hold in it.
* `EQSafeIsDerived`, `EQFinalizedIsDerived`, `EQEngineFinalIsDerived`, under the assumption
  `~LateBatches`: the run `engine_late_batches` shows that they fail without it. The
  invariant `EQDerivedInv` tells three situations apart: the queue catches up after a
  reset, with a safe head beyond what the origin gives; it follows, the safe head being
  what the attributes consumed so far give; or it has attributes buffered for the next
  block. For the finality data it says that each entry derives from the L1 block it
  names.
* `EQEngineFinalGrows`: the finalized label of the engine never goes back or to another
  chain, with late batches and over resets as well.
* `EQVerifierHeads`, for `Sequenced = {}`: without a sequencer the unsafe head is never behind
  the safe head.

What `Accepted` and `Derived` give for longer and longer L1 chains is proved by induction
over the length of the chain, in the form of a set of numbers that has 0 and is closed
under the next number (`Climb`).

**Driver** (`DriverProofs`): `DriverTypeCorrect`, `DriverWorkScheduled`,
`DriverSequencerArmed`, for every number of stages, every lag and every limit of it. The
invariant needs `JobWithinLag` in addition: a job of the sequencer on the head was started
when the lag allowed it. Otherwise the end of a job could leave the timer on beyond the
limit.

**Commitments** (`CommitmentsProofs`): `CMTypeCorrect`, `CMScreenedKept`, `CMAuthorScreened`, for
any number of verifiers, accounts, blocks and changes of the signer. The central part of
the invariant is `BreachesStay`: as fee recipients are set once per block number, a block
that was in breach when it was built is found in breach by every later call of `screen`.
The rest (`BlocksExist`, `InboxSigned`, `EntriesGood`, `ChainGood`) follows a payload from the
network to the chain.

**Batcher** (`BatcherProofs`): `BatcherTypeCorrect`, `BatcherFramesTracked`, `BatcherAccounted`,
for every limit of pending transactions, every channel timeout, duration, window and margin
(the margin being below timeout and window), and any number of channels, frames and blocks.
All three follow from one invariant, `BatcherInv`:

* `Control` ties the program counters together: the loop publishes while there is a
  publisher, the publisher holds a frame exactly when it sends, draining after a reorg
  goes with an empty `lastStored`, and no send outlives the loop.
* `Split` says of each channel ever created that its frames are waiting, pending or
  confirmed and only one of these. `TxPending` and `Held` say that the manager's
  transactions are both the pending frames and what the publisher and the sends hold.
  Neither is inductive alone: that a receipt finds its frame pending needs both.
* `Included` says that what the batcher takes for included is on L1, `Made` that L1 has
  only frames that their channel has made. A channel is closed only with one more frame
  (`Grown`), so a set of frames that is complete stays complete.
* `BankKnows` relates the bank to L1. A channel of which L1 has frames, all within the
  timeout of each other (`Near`), was read or lost, or is in the queue with every one of
  them, or was dropped incomplete (`Dropped`): it is not complete on L1 and has timed out
  at the L1 head, so that a frame still to come is no longer near. `TxConfirmed` drops a
  channel when all of its frames are confirmed and not too far apart. Its frames on L1
  are then near, or one of them is there twice (`OpenedEarly`); they are complete, so the
  bank has them together, has read them, or lost them.
* `TipStored` says that the last block stored is the last block added unless it is
  already safe. `AddL2Block` compares a block with the tip only; by `TipStored` the block
  then follows the last stored one too, and leaves no gap.

`Accounted` is kept because after each step a block that the manager held is held still or
is in a channel that reached the bank (`Reached`, `CoverKept`), or else the step closes the manager or empties
`lastStored`. What making, taking and returning
frames does to a channel, what `removePendingChannel` and the loop of `Close` do to the
queue, and what `IngestFrame` and `Read` do to the bank, is proved first; the loop of `Close`
takes an induction over the queue.

**Transaction manager** (`TxMgrProofs`): `TxMgrTypeCorrect`, `TxMgrIncludedOnce`,
`TxMgrNoncesDistinct`, `TxMgrReceiptStays`, for any number of sends, fee bumps,
confirmations and faults. The invariant says that the versions of a send are made one
after the other with one nonce (`VersionsMade`), that only these are published and mined
(`OnlyMade`), that the nonces on L1 differ and are below their number (`ChainNonces`),
that the counter is the highest nonce in use until a send fails (`NonceHighest`), and that
a receipt counts no more confirmations than L1 has unless it is torn (`ReceiptsDeep`).

Only model-checked is liveness (`ChannelsLeave`, `DerivesOrResets`, `EngineReadyAgain`,
`SequencerMakesBlocks`, `SequencingResumes`, `PublishEnds`, `ReturnsUnlessSkipped`, `Recovered`),
which is beyond the prover. Every invariant and every step property that a passing run
checks is a theorem.

## 6. Not modelled

* Engine P2P sync (`EngineSync`), off by default; the alt-sync ticker of the event loop
  (its requests appear in `Commitments`); which errors are critical.
* `FindL2Heads` as a walk over L2 and L1 blocks; L1 reorgs below the batch queue.
* `setCommitmentManager`, the ABI encoding of payloads, the gas and time of the L1 call.
* In `Batcher`: the pruning of the bank by size and pipeline resets (both in `DataStages`),
  the sequencing window of a batch (in `BatchQueue`), and errors of `processBlocks` other
  than a full channel, which only an invalid L2 block causes.
* System config updates, deposits, the transaction formats, compression, fee amounts.
* op-proposer, which polls and sends one transaction at a time through the modelled
  transaction manager; the challenger and the dispute game.
* Peer scoring and discovery, op-program beyond its engine API, cannon, the indexer,
  proxyd and the monitoring services, generated bindings, TypeScript packages, bridge
  contracts. `PROJECT.json` gives the reason for each. Most of the repository's lines
  are of this kind: generated bindings, tools and services without rollup state.

## 7. Plan

Done: 1 `PayloadsQueue` and its proofs; 2 `Channel`, `ChannelBank`, `DataStages`;
3 `EngineQueue`; 4 `Commitments`; 5 `DerivedChain`, `BatchQueue`; 6 `OriginSelector`;
7 `Driver`; 8 `Batcher`; 9 `TxMgr`; 10 the proofs of section 5.

Models that could follow: `FindL2Heads` as a walk, shown to return what
`EngineQueue!Reset` assumes; the proposer against the deletion of outputs; the
challenger's solver against the resolution of the dispute game.
