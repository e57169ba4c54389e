---------------------------- MODULE ChannelBank ----------------------------
(***************************************************************************)
(* The channel bank of the derivation pipeline                             *)
(* (op-node/rollup/derive/channel_bank.go): channels by ID and the FIFO    *)
(* queue of their IDs.  NextData reads from the head of the queue first    *)
(* and pulls another frame only if there is nothing to read; the origin,   *)
(* the L1 block the frames come from, moves on only after that.            *)
(***************************************************************************)
EXTENDS Channel, Sequences

CONSTANTS ChannelIDs,
          MaxChannelBankSize

ASSUME ChannelBankAssumption ==
  /\ \A f \in Frames : f.id \in ChannelIDs
  /\ MaxChannelBankSize \in Nat

VARIABLES channels,      \* the channels, a function of their IDs
          channelQueue   \* the IDs in the order of their opening

bankVars == <<channels, channelQueue>>

NoChannels == [id \in {} |-> NewChannel]

(***************************************************************************)
(* NewChannelBank, and Reset.                                              *)
(***************************************************************************)
BankInit == channels = NoChannels /\ channelQueue = <<>>

BankReset == channels' = NoChannels /\ channelQueue' = <<>>

(***************************************************************************)
(* The total that prune adds up over a map of channels.                    *)
(***************************************************************************)
TotalSize(chs) == MapThenSumSet(LAMBDA id : chs[id].size, DOMAIN chs)

Without(chs, ids) == [id \in DOMAIN chs \ ids |-> chs[id]]

(***************************************************************************)
(* The number of channels prune removes from the head of the queue: as few *)
(* as bring the total within MaxChannelBankSize.                           *)
(***************************************************************************)
PrunedIDs(queue, n) == {queue[i] : i \in 1 .. n}

PruneCount(chs, queue) ==
  CHOOSE n \in 0 .. Len(queue) :
    /\ TotalSize(Without(chs, PrunedIDs(queue, n))) <= MaxChannelBankSize
    /\ \A m \in 0 .. n - 1 :
         TotalSize(Without(chs, PrunedIDs(queue, m))) > MaxChannelBankSize

(***************************************************************************)
(* IngestFrame(f): open the channel if there is none; then ignore the      *)
(* frame if the channel is timed out or refuses it, or add it and prune.   *)
(***************************************************************************)
Opened(f) ==
  IF f.id \in DOMAIN channels
    THEN channels
    ELSE [id \in DOMAIN channels \cup {f.id} |->
            IF id = f.id THEN NewChannel ELSE channels[id]]

OpenedQueue(f) ==
  IF f.id \in DOMAIN channels THEN channelQueue ELSE Append(channelQueue, f.id)

Ignored(f) ==
  LET ch == Opened(f)[f.id] IN TimedOut(ch) \/ AddFrameFails(ch, f)

IngestFrame(f) ==
  IF Ignored(f)
    THEN channels' = Opened(f) /\ channelQueue' = OpenedQueue(f)
    ELSE LET chs == [Opened(f) EXCEPT ![f.id] = AddFrame(@, f)]
             n == PruneCount(chs, OpenedQueue(f))
         IN /\ channels' = Without(chs, PrunedIDs(OpenedQueue(f), n))
            /\ channelQueue' = SubSeq(OpenedQueue(f), n + 1, Len(OpenedQueue(f)))

(***************************************************************************)
(* Read: the head channel leaves the bank when it is timed out (Read       *)
(* returns no data) or ready (its data goes to the channel reader);        *)
(* otherwise Read returns io.EOF.                                          *)
(***************************************************************************)
FirstChannel == channels[Head(channelQueue)]

ReadEOF ==
  channelQueue # <<>> => ~TimedOut(FirstChannel) /\ ~IsReady(FirstChannel)

MutRemoveFirst == UNCHANGED channels /\ channelQueue' = Tail(channelQueue)
  \* slip: the channel stays in the map

RemoveFirst ==
  /\ channels' = Without(channels, {Head(channelQueue)})
  /\ channelQueue' = Tail(channelQueue)

MutReadTimedOut == channelQueue # <<>> /\ TimedOut(FirstChannel) /\ UNCHANGED bankVars
  \* slip: the channel is not removed

ReadTimedOut == channelQueue # <<>> /\ TimedOut(FirstChannel) /\ RemoveFirst

ReadReady ==
  /\ channelQueue # <<>>
  /\ ~TimedOut(FirstChannel)
  /\ IsReady(FirstChannel)
  /\ RemoveFirst

(***************************************************************************)
(* The pipeline advances the origin: every channel is one block older.     *)
(***************************************************************************)
Age ==
  /\ channels' = [id \in DOMAIN channels |-> Older(channels[id])]
  /\ UNCHANGED channelQueue

(***************************************************************************)
(* NextData, which reads before it loads; and what happens around it.      *)
(***************************************************************************)
NextData == ReadTimedOut \/ ReadReady \/ (ReadEOF /\ \E f \in Frames : IngestFrame(f))

BankNext == NextData \/ (ReadEOF /\ Age) \/ BankReset

BankSpec == BankInit /\ [][BankNext]_bankVars

-----------------------------------------------------------------------------
(***************************************************************************)
(* The types of the bank.  The unsigned size of a channel never wraps.     *)
(***************************************************************************)
ChannelType(ch) ==
  /\ DOMAIN ch = {"age", "size", "closed", "end", "highest", "inputs"}
  /\ ch.age \in 0 .. MaxAge
  /\ ch.size \in Nat /\ ch.closed \in BOOLEAN
  /\ ch.end \in Nat /\ ch.highest \in Nat
  /\ \A n \in DOMAIN ch.inputs :
       ch.inputs[n] \in Frames /\ ch.inputs[n].number = n

BankTypeOK ==
  /\ DOMAIN channels \subseteq ChannelIDs
  /\ channelQueue \in Seq(ChannelIDs)
  /\ \A id \in DOMAIN channels : ChannelType(channels[id])

(***************************************************************************)
(* The map and the queue agree: the queue holds every channel once, in the *)
(* order of their opening, so that prune and Read always find their head   *)
(* channel and the head is the first to time out.                          *)
(***************************************************************************)
QueueMatchesMap ==
  /\ DOMAIN channels = {channelQueue[i] : i \in DOMAIN channelQueue}
  /\ \A i, j \in DOMAIN channelQueue :
       i < j => /\ channelQueue[i] # channelQueue[j]
                /\ channels[channelQueue[i]].age >= channels[channelQueue[j]].age

(***************************************************************************)
(* What IsReady rests on: whatever the order in which frames arrive, a     *)
(* closed channel holds its last frame and nothing beyond it, an open one  *)
(* no last frame, and the highest number seen bounds the buffered ones.    *)
(***************************************************************************)
ChannelWellFormed ==
  \A id \in DOMAIN channels :
    LET ch == channels[id] IN
    /\ \A n \in DOMAIN ch.inputs : n <= ch.highest
    /\ ch.closed => /\ ch.end \in DOMAIN ch.inputs
                    /\ \A n \in DOMAIN ch.inputs :
                         n <= ch.end /\ (ch.inputs[n].isLast <=> n = ch.end)
    /\ ~ch.closed => \A n \in DOMAIN ch.inputs : ~ch.inputs[n].isLast
=============================================================================
