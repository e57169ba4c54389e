------------------------------ MODULE Batcher ------------------------------
(***************************************************************************)
(* The batch submitter (op-batcher/batcher): a driver loop that loads      *)
(* unsafe L2 blocks into the channel manager, a publisher goroutine that   *)
(* takes frames from the manager and hands them to the transaction queue   *)
(* (op-service/txmgr/queue.go), and the sending goroutines of that queue,  *)
(* whose receipts the driver loop feeds back to the manager.               *)
(*                                                                         *)
(* An L2 block is the sequence of the tags of the chain it ends, so that   *)
(* its parent is Front(b) and its number is Len(b).  Channels are kept in  *)
(* the sequence chans for good, the manager refers to them by index; a     *)
(* frame is named, like the transaction that carries it, by channel and    *)
(* number.  What compression decides, how many blocks fill a channel and   *)
(* how many frames they make, is a choice bounded by MaxFrames.            *)
(***************************************************************************)
EXTENDS Integers, SequencesExt

CONSTANTS MaxPending,          \* MaxPendingTransactions
          ChannelTimeout,      \* L1 blocks from the first to the last frame
          SubSafetyMargin,
          MaxChannelDuration,
          SeqWindowSize,
          MaxFrames,           \* bound: frames of a channel
          MaxL1,               \* bound: number of the last L1 block
          MaxL2,               \* bound: number of the last L2 block
          MaxEvents            \* bound: L1 blocks, L2 reorgs and failed calls, counted
                               \* once, and failed sends and stops, counted twice

ASSUME BatcherAssumption ==
  /\ {MaxPending, MaxFrames, ChannelTimeout} \subseteq Nat \ {0}
  /\ {SubSafetyMargin, MaxChannelDuration, SeqWindowSize} \subseteq Nat
  /\ {MaxL1, MaxL2, MaxEvents} \subseteq Nat
  /\ SubSafetyMargin < ChannelTimeout /\ SubSafetyMargin < SeqWindowSize

VARIABLES
  l1Head, l2, safe,       \* L1 head number, unsafe and safe L2 head
  onL1,                   \* <<frame, L1 block>> for each frame in the inbox
  stale,                  \* transactions of failed sends that L1 may still include
  bank,                   \* the verifiers' channel bank, in the order of its queue
  derived, lost,          \* channels it has read, and dropped although complete
  chans,                  \* every channel ever created
  blocks, tip,            \* channelManager: blocks to add, last block added
  currentChannel,         \* index in chans, 0 for nil
  channelQueue, txChannels, closed,
  lastStored,             \* {} or {the last block loaded}
  main, drain, loadEnd,   \* the driver loop
  pub, sending,           \* the publisher goroutine and the frame it holds
  inflight,               \* the sends: frame |-> inclusion block, 0 if not included
  groupErr,               \* the queue's group is cancelled
  events

bankVars == <<bank, derived, lost>>
envVars == <<l1Head, l2, safe, onL1, stale, bankVars>>
managerVars == <<chans, blocks, tip, currentChannel, channelQueue, txChannels, closed>>
loopVars == <<lastStored, main, drain, loadEnd>>
pubVars == <<pub, sending>>
queueVars == <<inflight, groupErr>>
vars == <<envVars, managerVars, loopVars, pubVars, queueVars, events>>

NoFrame == <<0, 0>>
NoConfirmed == [n \in {} |-> 0]
Event(n) == events + n <= MaxEvents /\ events' = events + n

newChannel == [blocks |-> <<>>, full |-> FALSE, frames |-> <<>>, numFrames |-> 0,
               pending |-> {}, confirmed |-> NoConfirmed, timeout |-> 0]

BatcherInit ==
  /\ l1Head = 1 /\ l2 = <<>> /\ safe = <<>> /\ onL1 = {} /\ stale = {}
  /\ bank = <<>> /\ derived = {} /\ lost = {}
  /\ chans = <<>> /\ blocks = <<>> /\ tip = <<>> /\ currentChannel = 0
  /\ channelQueue = <<>> /\ txChannels = {} /\ closed = FALSE
  /\ lastStored = {} /\ main = "select" /\ drain = "no" /\ loadEnd = 0
  /\ pub = "none" /\ sending = NoFrame
  /\ inflight = [t \in {} |-> 0] /\ groupErr = FALSE
  /\ events = 0

-----------------------------------------------------------------------------
(***************************************************************************)
(* The channel builder.                                                    *)
(***************************************************************************)
updateTimeout(ch, block) ==
  [ch EXCEPT !.timeout = IF @ = 0 \/ @ > block THEN block ELSE @]

\* The epoch of an L2 block: its L1 origin follows its number.
EpochNum(b) == Len(b)

\* AddBlock, for one block of bs after the other: the earliest epoch sets the timeout.
AddBlocks(ch, bs) ==
  IF bs = <<>> THEN ch
  ELSE updateTimeout([ch EXCEPT !.blocks = @ \o bs],
                     Min({EpochNum(b) : b \in ToSet(bs)}) + SeqWindowSize - SubSafetyMargin)

RegisterL1Block(ch, block) ==
  LET c == IF MaxChannelDuration = 0 THEN ch
                                     ELSE updateTimeout(ch, block + MaxChannelDuration)
  IN [c EXCEPT !.full = @ \/ (c.timeout # 0 /\ block >= c.timeout)]

FramePublished(ch, block) ==
  updateTimeout(ch, block + ChannelTimeout - SubSafetyMargin)

\* n more frames leave the compressor.
outputFrames(ch, n) ==
  [ch EXCEPT !.frames = @ \o [i \in 1 .. n |-> ch.numFrames + i - 1],
             !.numFrames = @ + n]

\* The numbers of frames that OutputFrames may produce: a full channel is
\* closed and gives at least its last frame, another one what is ready.
FrameCounts(ch) ==
  IF ch.full THEN 1 .. MaxFrames - ch.numFrames
             ELSE 0 .. MaxFrames - ch.numFrames - 1

(***************************************************************************)
(* The channel.                                                            *)
(***************************************************************************)
isTimedOut(ch) ==
  LET at == {ch.confirmed[n] : n \in DOMAIN ch.confirmed} IN
  at # {} /\ Max(at) - Min(at) >= ChannelTimeout

isFullySubmitted(ch) == ch.full /\ ch.pending = {} /\ ch.frames = <<>>

NoneSubmitted(ch) == ch.pending = {} /\ DOMAIN ch.confirmed = {}

(***************************************************************************)
(* removePendingChannel, on a queue of channels.                           *)
(***************************************************************************)
removePendingChannel(queue, c) ==
  LET at == {i \in DOMAIN queue : queue[i] = c} IN
  IF at = {} THEN queue ELSE RemoveAt(queue, Min(at))

MutRemoveChannel(c) ==    \* slip: the current channel is not forgotten
  channelQueue' = removePendingChannel(channelQueue, c) /\ UNCHANGED currentChannel

RemoveChannel(c) ==
  /\ channelQueue' = removePendingChannel(channelQueue, c)
  /\ currentChannel' = IF currentChannel = c THEN 0 ELSE currentChannel

(***************************************************************************)
(* TxFailed: the frame goes back to the end of its channel's frames.  A    *)
(* closed manager drops a channel of which nothing is submitted.           *)
(***************************************************************************)
TxFailed(t) ==
  IF t \in txChannels
    THEN /\ txChannels' = txChannels \ {t}
         /\ chans' = [chans EXCEPT ![t[1]].pending = @ \ {t[2]},
                                   ![t[1]].frames = Append(@, t[2])]
         /\ IF closed /\ NoneSubmitted(chans'[t[1]])
              THEN RemoveChannel(t[1])
              ELSE UNCHANGED <<channelQueue, currentChannel>>
         /\ UNCHANGED <<blocks, tip, closed>>
    ELSE UNCHANGED managerVars

(***************************************************************************)
(* TxConfirmed: a channel whose confirmed frames lie too far apart gives   *)
(* its blocks back and is removed, one fully submitted is removed.         *)
(***************************************************************************)
Confirmed(t, at) ==
  LET ch == chans[t[1]] IN
  FramePublished([ch EXCEPT !.pending = @ \ {t[2]},
                            !.confirmed = [n \in DOMAIN @ \cup {t[2]} |->
                                             IF n = t[2] THEN at ELSE @[n]]], at)

MutTxConfirmed(t, at) ==    \* slip: the blocks of a timed out channel are not requeued
  /\ txChannels' = txChannels \ {t}
  /\ chans' = [chans EXCEPT ![t[1]] = Confirmed(t, at)]
  /\ IF isTimedOut(chans'[t[1]]) \/ isFullySubmitted(chans'[t[1]])
       THEN RemoveChannel(t[1])
       ELSE UNCHANGED <<channelQueue, currentChannel>>
  /\ UNCHANGED <<blocks, tip, closed>>

TxConfirmed(t, at) ==
  IF t \in txChannels
    THEN LET ch == Confirmed(t, at) IN
         /\ txChannels' = txChannels \ {t}
         /\ chans' = [chans EXCEPT ![t[1]] = ch]
         /\ blocks' = IF isTimedOut(ch) THEN ch.blocks \o blocks ELSE blocks
         /\ IF isTimedOut(ch) \/ isFullySubmitted(ch)
              THEN RemoveChannel(t[1])
              ELSE UNCHANGED <<channelQueue, currentChannel>>
         /\ UNCHANGED <<tip, closed>>
    ELSE UNCHANGED managerVars

(***************************************************************************)
(* nextTxData for channel c of the channels cs.                            *)
(***************************************************************************)
MutNextTxData(cs, c) ==    \* slip: the frame is not taken off the queue of frames
  LET n == Head(cs[c].frames) IN
  /\ chans' = [cs EXCEPT ![c].pending = @ \cup {n}]
  /\ txChannels' = txChannels \cup {<<c, n>>}
  /\ sending' = <<c, n>>

nextTxData(cs, c) ==
  LET n == Head(cs[c].frames) IN
  /\ chans' = [cs EXCEPT ![c].frames = Tail(@), ![c].pending = @ \cup {n}]
  /\ txChannels' = txChannels \cup {<<c, n>>}
  /\ sending' = <<c, n>>

WithFrame == {i \in DOMAIN channelQueue : chans[channelQueue[i]].frames # <<>>}

(***************************************************************************)
(* TxData, when a frame is pending: the first one of the first channel     *)
(* that has one.                                                           *)
(***************************************************************************)
TxDataPending ==
  /\ WithFrame # {}
  /\ nextTxData(chans, channelQueue[Min(WithFrame)])
  /\ UNCHANGED <<blocks, tip, currentChannel, channelQueue, closed>>

(***************************************************************************)
(* TxData, when blocks have to be added: k blocks go to the current        *)
(* channel, or to a new one if that is full; fewer than all of them only   *)
(* if they fill it.  Then the L1 head is registered and frames are output. *)
(* The other errors of AddBlock are left out: they are about blocks        *)
(* without the L1 attributes deposit, which are no valid L2 blocks.        *)
(***************************************************************************)
TxDataNew ==
  LET fresh == currentChannel = 0 \/ chans[currentChannel].full
      c == IF fresh THEN Len(chans) + 1 ELSE currentChannel
      cs == IF fresh THEN Append(chans, newChannel) ELSE chans
  IN
  /\ WithFrame = {} /\ ~closed /\ blocks # <<>>
  /\ currentChannel' = c
  /\ channelQueue' = IF fresh THEN Append(channelQueue, c) ELSE channelQueue
  /\ \E k \in (IF cs[c].blocks = <<>> THEN 1 ELSE 0) .. Len(blocks), filled \in BOOLEAN :
       LET added == [AddBlocks(cs[c], SubSeq(blocks, 1, k)) EXCEPT !.full = filled]
           ch == RegisterL1Block(added, l1Head)
       IN /\ k < Len(blocks) => filled
          /\ blocks' = SubSeq(blocks, k + 1, Len(blocks))
          /\ \E n \in FrameCounts(ch) :
               LET out == [cs EXCEPT ![c] = outputFrames(ch, n)] IN
               IF out[c].frames # <<>>
                 THEN nextTxData(out, c)
                 ELSE /\ chans' = out /\ sending' = NoFrame
                      /\ UNCHANGED txChannels
  /\ UNCHANGED <<tip, closed>>

TxDataEOF ==
  /\ WithFrame = {} /\ (closed \/ blocks = <<>>)
  /\ sending' = NoFrame /\ UNCHANGED managerVars

TxData == TxDataPending \/ TxDataNew \/ TxDataEOF

(***************************************************************************)
(* Clear, and Close.  Close removes channels from the slice it iterates    *)
(* over, in place: the next channel moves to the place of a removed one    *)
(* and is skipped, while the last place keeps its channel.                 *)
(***************************************************************************)
Clear ==
  /\ blocks' = <<>> /\ tip' = <<>> /\ closed' = FALSE
  /\ currentChannel' = 0 /\ channelQueue' = <<>> /\ txChannels' = {}
  /\ UNCHANGED chans

removeInPlace(q, c) ==
  LET at == {i \in 1 .. q.len : q.array[i] = c} IN
  IF at = {} THEN q
  ELSE [array |-> [i \in DOMAIN q.array |->
                     q.array[IF i \in Min(at) .. q.len - 1 THEN i + 1 ELSE i]],
        len |-> q.len - 1]

Unsubmitted ==
  LET n == Len(channelQueue)
      visit(q, i) == IF NoneSubmitted(chans[q.array[i]])
                       THEN removeInPlace(q, q.array[i]) ELSE q
      after[i \in 0 .. n] == IF i = 0 THEN [array |-> channelQueue, len |-> n]
                                       ELSE visit(after[i - 1], i)
  IN SubSeq(after[n].array, 1, after[n].len)

Close ==
  LET kept == ToSet(Unsubmitted)
      cur == IF currentChannel \in kept THEN currentChannel ELSE 0
  IN
  /\ closed' = TRUE
  /\ channelQueue' = Unsubmitted
  /\ currentChannel' = cur
  /\ IF cur = 0 \/ chans[cur].full
       THEN UNCHANGED chans
       ELSE \E n \in 1 .. MaxFrames - chans[cur].numFrames :
              chans' = [chans EXCEPT ![cur] = outputFrames([@ EXCEPT !.full = TRUE], n)]
  /\ UNCHANGED <<blocks, tip, txChannels>>

-----------------------------------------------------------------------------
(***************************************************************************)
(* The driver loop.  A tick reads the sync status and computes the range   *)
(* of blocks to load, or fails to; without a range it goes on to publish.  *)
(***************************************************************************)
StartPublishing(d) ==
  main' = "publish" /\ drain' = d /\ loadEnd' = 0 /\ pub' = "next"

RangeStart ==
  IF lastStored = {} \/ \E b \in lastStored : Len(b) < Len(safe)
    THEN safe ELSE CHOOSE b \in lastStored : TRUE

calculateL2BlockRangeToStore ==
  /\ main = "select"
  /\ lastStored' = {RangeStart}
  /\ IF Len(safe) >= Len(l2) \/ Len(RangeStart) >= Len(l2)
       THEN StartPublishing("no")
       ELSE main' = "load" /\ loadEnd' = Len(l2) /\ UNCHANGED <<drain, pub>>
  /\ UNCHANGED <<envVars, managerVars, sending, queueVars, events>>

SyncStatusFails ==
  /\ main = "select" /\ StartPublishing("no") /\ Event(1)
  /\ UNCHANGED <<envVars, managerVars, lastStored, sending, queueVars>>

(***************************************************************************)
(* loadBlockIntoState, for one block: AddL2Block refuses a block that does *)
(* not extend the last one added; then everything is submitted that has    *)
(* been started, before the state is cleared.                              *)
(***************************************************************************)
NextBlock == SubSeq(l2, 1, Len(RangeStart) + 1)

ExtendsTip(b) == tip = <<>> \/ tip = Front(b)

LoadBlock ==
  LET b == NextBlock IN
  /\ main = "load" /\ Len(RangeStart) < Len(l2) /\ ExtendsTip(b)
  /\ blocks' = Append(blocks, b) /\ tip' = b /\ lastStored' = {b}
  /\ IF Len(b) >= loadEnd THEN StartPublishing("no")
                          ELSE UNCHANGED <<main, drain, loadEnd, pub>>
  /\ UNCHANGED <<envVars, chans, currentChannel, channelQueue, txChannels, closed,
                 sending, queueVars, events>>

LoadReorg ==
  /\ main = "load" /\ Len(RangeStart) < Len(l2) /\ ~ExtendsTip(NextBlock)
  /\ lastStored' = {} /\ Close /\ StartPublishing("reorg")
  /\ UNCHANGED <<envVars, sending, queueVars, events>>

LoadFails ==
  /\ main = "load" /\ StartPublishing("no")
  /\ IF Len(RangeStart) < Len(l2) THEN Event(1) ELSE UNCHANGED events
  /\ UNCHANGED <<envVars, managerVars, lastStored, sending, queueVars>>

(***************************************************************************)
(* publishTxToL1, in the publisher goroutine: it ends when the L1 tip is   *)
(* not available, as always once the batcher is killed, or there is no     *)
(* frame to send.                                                          *)
(***************************************************************************)
PublisherEnds ==
  IF drain = "no" THEN pub' = "none" /\ main' = "select"
                  ELSE pub' = "wait" /\ UNCHANGED main

L1TipFails ==
  /\ pub = "next" /\ PublisherEnds
  /\ IF drain = "kill" THEN UNCHANGED events ELSE Event(1)
  /\ UNCHANGED <<envVars, managerVars, lastStored, drain, loadEnd, sending, queueVars>>

PublishTxToL1 ==
  /\ pub = "next" /\ drain # "kill" /\ TxData
  /\ IF sending' = NoFrame THEN PublisherEnds ELSE pub' = "send" /\ UNCHANGED main
  /\ UNCHANGED <<envVars, lastStored, drain, loadEnd, queueVars, events>>

(***************************************************************************)
(* Queue.Send: a cancelled group is replaced once all its sends are done,  *)
(* and the limit of the group is waited for.  The new group of a killed    *)
(* batcher is cancelled from the start.                                    *)
(***************************************************************************)
QueueSend ==
  /\ pub = "send"
  /\ groupErr => DOMAIN inflight = {}
  /\ Cardinality(DOMAIN inflight) < MaxPending
  /\ inflight' = [t \in DOMAIN inflight \cup {sending} |->
                    IF t = sending THEN 0 ELSE inflight[t]]
  /\ groupErr' = (drain = "kill") /\ sending' = NoFrame /\ pub' = "next"
  /\ UNCHANGED <<envVars, managerVars, loopVars, events>>

(***************************************************************************)
(* When it drains, the publisher waits for all sends; then                 *)
(* publishStateToL1 returns, and the loop clears the state or ends.        *)
(***************************************************************************)
DrainReturns ==
  /\ pub = "wait" /\ pub' = "none" /\ drain' = "no"
  /\ main' = IF drain \in {"stop", "kill"} THEN "stopped" ELSE "select"
  /\ IF drain = "reorg" THEN Clear ELSE UNCHANGED managerVars
  /\ UNCHANGED <<envVars, lastStored, loadEnd, sending, queueVars, events>>

MutQueueWait == DrainReturns    \* slip: draining does not wait for the pending sends

QueueWait == DOMAIN inflight = {} /\ DrainReturns

(***************************************************************************)
(* A sending goroutine ends: the loop reads its receipt, in its select or  *)
(* while it publishes, and never while it loads blocks.  A failed send     *)
(* cancels the group, so that the other sends of the group fail too unless *)
(* they have their receipt, and leaves a transaction that L1 may still     *)
(* include.                                                                *)
(***************************************************************************)
ReadsReceipts == main \in {"select", "publish"}

SendMined(t) == inflight[t] = 0 /\ inflight' = [inflight EXCEPT ![t] = l1Head]

SendDone(t) == inflight' = [u \in DOMAIN inflight \ {t} |-> inflight[u]]

ReceiptOK(t) ==
  /\ ReadsReceipts /\ inflight[t] # 0
  /\ SendDone(t) /\ TxConfirmed(t, inflight[t])
  /\ UNCHANGED <<envVars, loopVars, pubVars, groupErr, events>>

ReceiptErr(t) ==
  /\ ReadsReceipts
  /\ IF groupErr THEN UNCHANGED events ELSE Event(2)
  /\ SendDone(t) /\ groupErr' = TRUE /\ TxFailed(t)
  /\ stale' = IF inflight[t] = 0 THEN stale \cup {t} ELSE stale
  /\ UNCHANGED <<l1Head, l2, safe, onL1, bankVars, loopVars, pubVars>>

(***************************************************************************)
(* Stop, which drains; Kill, when the caller of Stop waits no longer and   *)
(* the context of all calls and sends is cancelled; and Start.             *)
(***************************************************************************)
Stop ==
  /\ main = "select" /\ Event(2)
  /\ Close /\ StartPublishing("stop")
  /\ UNCHANGED <<envVars, lastStored, sending, queueVars>>

Kill ==
  /\ drain = "stop" /\ drain' = "kill" /\ groupErr' = TRUE
  /\ UNCHANGED <<envVars, managerVars, lastStored, main, loadEnd, pubVars, inflight,
                 events>>

Start ==
  /\ main = "stopped" /\ main' = "select" /\ Clear /\ lastStored' = {}
  /\ inflight' = [t \in {} |-> 0] /\ groupErr' = FALSE
  /\ UNCHANGED <<envVars, drain, loadEnd, pubVars, events>>

-----------------------------------------------------------------------------
(***************************************************************************)
(* The verifiers' channel bank (op-node/rollup/derive/channel_bank.go).  A *)
(* frame opens its channel or is added to it, unless the channel has timed *)
(* out.  Then Read is called until it gives nothing more: it looks at the  *)
(* first channel of the queue only, drops it when it has timed out, and    *)
(* reads it when it is complete; a channel behind one that is neither      *)
(* waits.  What the bank does depends on L1 alone, so that it is computed  *)
(* here as L1 grows, whenever the verifiers get there.                     *)
(***************************************************************************)
BankTimedOut(e, origin) == e.open + ChannelTimeout < origin

IngestFrame(t, origin) ==
  IF \A i \in DOMAIN bank : bank[i].ch # t[1]
    THEN Append(bank, [ch |-> t[1], open |-> origin, frames |-> {t[2]}])
    ELSE [i \in DOMAIN bank |->
            IF bank[i].ch = t[1] /\ ~BankTimedOut(bank[i], origin)
              THEN [bank[i] EXCEPT !.frames = @ \cup {t[2]}] ELSE bank[i]]

IsReady(e) == chans[e.ch].full /\ 0 .. chans[e.ch].numFrames - 1 \subseteq e.frames

Read(q, origin) ==
  LET gone == Max({k \in 0 .. Len(q) :
                     \A i \in 1 .. k : BankTimedOut(q[i], origin) \/ IsReady(q[i])})
      ready == {i \in 1 .. gone : IsReady(q[i])}
      late == {i \in 1 .. gone : BankTimedOut(q[i], origin)}
  IN /\ bank' = SubSeq(q, gone + 1, Len(q))
     /\ derived' = derived \cup {q[i].ch : i \in ready \ late}
     /\ lost' = lost \cup {q[i].ch : i \in ready \cap late}

(***************************************************************************)
(* L1 and L2.  L1 includes a transaction in its head block; a failed one   *)
(* may be included later.  The unsafe chain grows, and may be replaced     *)
(* above the safe head.  Derivation extends the safe head by a block of a  *)
(* channel that the bank has read, and replaces the unsafe chain when the  *)
(* two differ.  The loop looks at L2 when it computes the range and when   *)
(* it loads a block; a move of L2 waits for a state in which the next look *)
(* at it is possible.                                                      *)
(***************************************************************************)
L1Block ==
  /\ l1Head < MaxL1 /\ Event(1) /\ l1Head' = l1Head + 1 /\ Read(bank, l1Head')
  /\ UNCHANGED <<l2, safe, onL1, stale, managerVars, loopVars, pubVars, queueVars>>

InL1(t) ==
  /\ onL1' = onL1 \cup {<<t, l1Head>>} /\ Read(IngestFrame(t, l1Head), l1Head)
  /\ UNCHANGED <<l1Head, l2, safe>>

Include(t) ==
  /\ SendMined(t) /\ InL1(t)
  /\ UNCHANGED <<stale, managerVars, loopVars, pubVars, groupErr, events>>

IncludeStale(t) ==
  /\ InL1(t) /\ stale' = stale \ {t}
  /\ UNCHANGED <<managerVars, loopVars, pubVars, queueVars, events>>

L2Block ==
  /\ main = "select" /\ Len(l2) < MaxL2 /\ l2' = Append(l2, "x")
  /\ UNCHANGED <<l1Head, safe, onL1, stale, bankVars, managerVars, loopVars, pubVars,
                 queueVars, events>>

L2Reorg ==
  /\ main \in {"select", "load"} /\ Event(1)
  /\ \E n \in Len(safe) .. Len(l2) - 1 :
       l2[n + 1] = "x" /\ l2' = Append(SubSeq(l2, 1, n), "y")
  /\ UNCHANGED <<l1Head, safe, onL1, stale, bankVars, managerVars, loopVars, pubVars,
                 queueVars>>

DerivableBlocks == UNION {ToSet(chans[c].blocks) : c \in derived}

Derive ==
  /\ main = "select"
  /\ \E b \in DerivableBlocks :
       /\ b # <<>> /\ Front(b) = safe /\ safe' = b
       /\ l2' = IF IsPrefix(b, l2) THEN l2 ELSE b
  /\ UNCHANGED <<l1Head, onL1, stale, bankVars, managerVars, loopVars, pubVars,
                 queueVars, events>>

BatcherStep ==
  \/ calculateL2BlockRangeToStore \/ SyncStatusFails
  \/ LoadBlock \/ LoadReorg \/ LoadFails
  \/ L1TipFails \/ PublishTxToL1 \/ QueueSend \/ QueueWait
  \/ \E t \in DOMAIN inflight : ReceiptOK(t) \/ ReceiptErr(t)
  \/ Stop \/ Kill \/ Start

ChainStep ==
  \/ L1Block \/ L2Block \/ L2Reorg \/ Derive
  \/ \E t \in DOMAIN inflight : Include(t)
  \/ \E t \in stale : IncludeStale(t)

Next == BatcherStep \/ ChainStep

(***************************************************************************)
(* The publisher runs on; L1 includes the transaction of a send that goes  *)
(* on; a call or a send whose context is cancelled returns; and the loop   *)
(* reads the receipts.  The last two are stated by what happens to the     *)
(* send: only Include, ReceiptOK and ReceiptErr do that.                   *)
(***************************************************************************)
Fairness ==
  /\ WF_pub(PublishTxToL1 \/ QueueSend \/ QueueWait \/ (drain = "kill" /\ L1TipFails))
  /\ WF_inflight(\E t \in DOMAIN inflight : ~groupErr /\ SendMined(t))
  /\ WF_inflight(\E t \in DOMAIN inflight :
                    ReadsReceipts /\ (groupErr \/ inflight[t] # 0) /\ SendDone(t))

Spec == BatcherInit /\ [][Next]_vars /\ Fairness

-----------------------------------------------------------------------------
FrameIDs == (DOMAIN chans) \X (0 .. MaxFrames - 1)

(***************************************************************************)
(* The types of the batcher's state.                                       *)
(***************************************************************************)
BatcherTypeOK ==
  /\ \A i \in DOMAIN channelQueue : channelQueue[i] \in DOMAIN chans
  /\ currentChannel \in {0} \cup ToSet(channelQueue)
  /\ txChannels \subseteq FrameIDs /\ sending \in FrameIDs \cup {NoFrame}
  /\ DOMAIN inflight \subseteq FrameIDs /\ stale \subseteq FrameIDs
  /\ IsPrefix(safe, l2) /\ Len(l2) <= MaxL2
  /\ main \in {"select", "load", "publish", "stopped"}
  /\ pub \in {"none", "next", "send", "wait"}
  /\ drain \in {"no", "reorg", "stop", "kill"}
  /\ closed \in BOOLEAN /\ groupErr \in BOOLEAN

(***************************************************************************)
(* No frame is lost or sent twice at once: each frame of a queued channel  *)
(* waits in its frames, is pending, or is confirmed, and only one of these;*)
(* the manager knows exactly the transactions that the publisher and the   *)
(* queue hold, through failures, reorgs, Close and Clear.                  *)
(***************************************************************************)
Places(ch, n) ==
  Cardinality({i \in DOMAIN ch.frames : ch.frames[i] = n})
  + Cardinality({n} \cap ch.pending) + Cardinality({n} \cap DOMAIN ch.confirmed)

FramesTracked ==
  /\ \A i \in DOMAIN channelQueue :
       LET ch == chans[channelQueue[i]] IN
       /\ \A n \in 0 .. ch.numFrames - 1 : Places(ch, n) = 1
       /\ \A n \in ch.pending : <<channelQueue[i], n>> \in txChannels
  /\ txChannels = DOMAIN inflight \cup ({sending} \ {NoFrame})

Holds(c, b) == b \in ToSet(chans[c].blocks)

Inclusions(c, n) == {e[2] : e \in {f \in onL1 : f[1] = <<c, n>>}}

SentTwice(c) ==
  \E n \in 0 .. MaxFrames - 1 : Cardinality(Inclusions(c, n)) > 1

OpenedEarly(c) ==
  /\ SentTwice(c)
  /\ \E e, f \in {g \in onL1 : g[1][1] = c} : e[2] + ChannelTimeout < f[2]

InBank(c) == \E i \in DOMAIN bank : bank[i].ch = c /\ IsReady(bank[i])

\* While the manager is not closed, each block between the safe head and the
\* last stored block is waiting, in a queued channel, or in one of cs.
BlocksKept(cs) ==
  ~closed =>
    \A last \in lastStored : IsPrefix(safe, last) =>
      \A n \in Len(safe) + 1 .. Len(last) :
        LET b == SubSeq(last, 1, n) IN
        \/ b \in ToSet(blocks)
        \/ \E i \in DOMAIN channelQueue : Holds(channelQueue[i], b)
        \/ \E c \in cs : Holds(c, b)

(***************************************************************************)
(* The batcher misses no block: what it gives up, because all frames of    *)
(* the channel are confirmed, is in a channel that reached the bank        *)
(* complete, through failed sends, timeouts, reorgs and restarts.  Two     *)
(* things the batcher does not see are excepted: the bank may drop such a  *)
(* channel, when one before it in the queue, opened in the same L1 block,  *)
(* times out; and a send that was reported as failed may have been         *)
(* included, so that L1 holds a frame twice and opened the channel early.  *)
(***************************************************************************)
Accounted ==
  BlocksKept({c \in DOMAIN chans : c \in derived \cup lost \/ InBank(c) \/ OpenedEarly(c)})

(***************************************************************************)
(* publishStateToL1 returns: the publisher, waiting for the limit of the   *)
(* queue or for all sends, and the loop, reading receipts, never wait for  *)
(* each other ("send/wait and receipt reading must be on a separate        *)
(* goroutines to avoid deadlocks", driver.go:325).                         *)
(***************************************************************************)
PublishEnds == main = "publish" ~> main # "publish"
=============================================================================
