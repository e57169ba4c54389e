----------------------------- MODULE BatchQueue -----------------------------
(***************************************************************************)
(* The stages that turn batches into payload attributes: BatchQueue and    *)
(* AttributesQueue (op-node/rollup/derive), with the attributes builder    *)
(* they call, the traversal that moves to the next L1 block when they are  *)
(* out of data (DerivationPipeline.Step), and the engine that makes a safe *)
(* block of the attributes.  The stages before them (module DataStages)    *)
(* give out the batches of one L1 block after the other.                   *)
(***************************************************************************)
EXTENDS Naturals, Sequences, FiniteSets, SequencesExt

CONSTANTS BlockTime, SeqWindowSize, MaxSequencerDrift, L1Time, BatchSet,
          MaxBatches,
          ChannelTimeout,   \* L1 blocks a channel may stay open
          SequencerConfDepth,
          MaxResets         \* bound: resets that have another cause than the
                            \* stages below

VARIABLES l1,           \* the L1 chain (see DerivedChain)
          safe,         \* the safe L2 chain of the engine queue
          bq,           \* BatchQueue: origin, l1Blocks, batches
          aqBatch,      \* AttributesQueue.batch
          safeAttrs,    \* EngineQueue.safeAttributes: the batch in them
          prevOrigin,   \* the L1 origin of the previous stages
          prevRead,     \* how many batches of it they have given out
          needReset,    \* DerivationPipeline.resetting = 0
          resets        \* resets of another cause so far

DC == INSTANCE DerivedChain WITH chain <- safe

OS == INSTANCE OriginSelector

ASSUME BatchQueueAssumption ==
  /\ BlockTime \in Nat \ {0} /\ SeqWindowSize \in Nat \ {0}
  /\ MaxSequencerDrift \in Nat /\ MaxBatches \in Nat
  /\ ChannelTimeout \in Nat /\ MaxResets \in Nat /\ SequencerConfDepth \in Nat
  /\ 0 \in DOMAIN L1Time
  /\ \A n \in DOMAIN L1Time : n \in Nat /\ 0 .. n \subseteq DOMAIN L1Time /\ L1Time[n] \in Nat
  /\ \A m, n \in DOMAIN L1Time : m < n => L1Time[m] < L1Time[n]
  /\ L1Time[0] = 0
  /\ BatchSet \subseteq DC!Batch

aqVars == <<aqBatch, safeAttrs>>
prevVars == <<prevOrigin, prevRead>>
bqVars == <<l1, safe, bq, aqBatch, safeAttrs, prevOrigin, prevRead, needReset,
            resets>>

NoBatch == <<>>

Times == {b.time : b \in BatchSet}

(***************************************************************************)
(* CheckBatch: may d, a batch with its L1 inclusion block, be the next     *)
(* block on the safe chain, as far as the L1 blocks at hand can tell?      *)
(***************************************************************************)
Misfit(epoch, d) ==
  \/ d.batch.time < DC!NextTime(safe)
  \/ d.batch.parent # safe
  \/ d.batch.epoch + SeqWindowSize < d.included
  \/ d.batch.epoch \notin {epoch, epoch + 1}

WrongOrigin(b) == ~b.canonical \/ b.time < L1Time[b.epoch]

Drifted(b) == b.time > L1Time[b.epoch] + MaxSequencerDrift

CheckBatch(l1Blocks, d) ==
  LET b == d.batch
      stays == b.epoch = Head(l1Blocks)
      nextKnown == Len(l1Blocks) >= 2
  IN IF b.time > DC!NextTime(safe) THEN "future"
     ELSE IF Misfit(Head(l1Blocks), d) THEN "drop"
     ELSE IF ~stays /\ ~nextKnown THEN "undecided"
     ELSE IF WrongOrigin(b) THEN "drop"
     ELSE IF Drifted(b) /\ b.content # "empty" THEN "drop"
     ELSE IF Drifted(b) /\ stays /\ ~nextKnown THEN "undecided"
     ELSE IF Drifted(b) /\ stays /\ b.time >= L1Time[l1Blocks[2]] THEN "drop"
     ELSE IF b.content = "deposit" THEN "drop"
     ELSE "accept"

(***************************************************************************)
(* The steps of NextBatch, on the state q of the batch queue: taking over  *)
(* the origin of the previous stages, and AddBatch.                        *)
(***************************************************************************)
originBehind == prevOrigin < DC!Origin(safe)

MutTakeOrigin(q) ==    \* slip: the base of a reset is not thrown out
  IF q.origin = prevOrigin THEN q
  ELSE [q EXCEPT !.origin = prevOrigin,
                 !.l1Blocks = IF originBehind THEN @ ELSE Append(@, prevOrigin)]

TakeOrigin(q) ==
  IF q.origin = prevOrigin THEN q
  ELSE [q EXCEPT !.origin = prevOrigin,
                 !.l1Blocks = IF originBehind THEN <<>>
                                              ELSE Append(@, prevOrigin)]

MutAddBatch(q, b) ==    \* slip: the latest batch is tried first
  LET d == [batch |-> b, included |-> q.origin]
  IN  IF CheckBatch(q.l1Blocks, d) = "drop" THEN q
      ELSE [q EXCEPT !.batches[b.time] = <<d>> \o @]

AddBatch(q, b) ==
  LET d == [batch |-> b, included |-> q.origin]
  IN  IF CheckBatch(q.l1Blocks, d) = "drop" THEN q
      ELSE [q EXCEPT !.batches[b.time] = Append(@, d)]

(***************************************************************************)
(* deriveNextBatch: the state it leaves, with a batch or an error.  The    *)
(* candidates are filtered up to the first that is accepted or undecided;  *)
(* behind an undecided one the others are forgotten.                       *)
(***************************************************************************)
Derived(q, batch) == [bq |-> q, batch |-> batch, err |-> "none"]
Failed(q, err) == [bq |-> q, batch |-> NoBatch, err |-> err]

EmptyBatch(epoch) ==
  [time |-> DC!NextTime(safe), epoch |-> epoch, canonical |-> TRUE,
   content |-> "empty", parent |-> safe]

MutForceEager(q, outOfData) ==    \* slip: the last block of the window counts
                                  \* as read before it is
  LET epoch == Head(q.l1Blocks)
      forced == epoch + SeqWindowSize <= q.origin
      firstOfEpoch == epoch = DC!Origin(safe) + 1
  IN IF ~forced \/ Len(q.l1Blocks) < 2 THEN Failed(q, "EOF")
     ELSE IF firstOfEpoch \/ DC!NextTime(safe) < L1Time[q.l1Blocks[2]]
     THEN Derived(q, EmptyBatch(epoch))
     ELSE Failed([q EXCEPT !.l1Blocks = Tail(@)], "EOF")

MutForceLate(q, outOfData) ==    \* slip: the end of the window is not noticed
                                 \* before the block after it
  LET epoch == Head(q.l1Blocks)
      forced == epoch + SeqWindowSize < q.origin
      firstOfEpoch == epoch = DC!Origin(safe) + 1
  IN IF ~forced \/ Len(q.l1Blocks) < 2 THEN Failed(q, "EOF")
     ELSE IF firstOfEpoch \/ DC!NextTime(safe) < L1Time[q.l1Blocks[2]]
     THEN Derived(q, EmptyBatch(epoch))
     ELSE Failed([q EXCEPT !.l1Blocks = Tail(@)], "EOF")

ForceEmpty(q, outOfData) ==
  LET epoch == Head(q.l1Blocks)
      expiryEpoch == epoch + SeqWindowSize
      forced == \/ expiryEpoch = q.origin /\ outOfData
                \/ expiryEpoch < q.origin
      firstOfEpoch == epoch = DC!Origin(safe) + 1
  IN IF ~forced \/ Len(q.l1Blocks) < 2 THEN Failed(q, "EOF")
     ELSE IF firstOfEpoch \/ DC!NextTime(safe) < L1Time[q.l1Blocks[2]]
     THEN Derived(q, EmptyBatch(epoch))
     ELSE Failed([q EXCEPT !.l1Blocks = Tail(@)], "EOF")

deriveNextBatch(q, outOfData) ==
  LET epoch == Head(q.l1Blocks)
      t == DC!NextTime(safe)
      candidates == IF t \in Times THEN q.batches[t] ELSE <<>>
      verdict(i) == CheckBatch(q.l1Blocks, candidates[i])
      k == SelectInSeq(candidates, LAMBDA d :
             CheckBatch(q.l1Blocks, d) \in {"accept", "undecided"})
      keep(rest) == IF t \in Times THEN [q EXCEPT !.batches[t] = rest] ELSE q
      accepted == keep(SubSeq(candidates, k + 1, Len(candidates)))
  IN IF DC!Origin(safe) \notin {epoch, epoch - 1} THEN Failed(q, "Reset")
     ELSE IF k = 0 THEN ForceEmpty(keep(<<>>), outOfData)
     ELSE IF verdict(k) = "undecided"
     THEN Failed(keep(<<candidates[k]>>), "EOF")
     ELSE Derived(IF candidates[k].batch.epoch = epoch + 1
                  THEN [accepted EXCEPT !.l1Blocks = Tail(@)] ELSE accepted,
                  candidates[k].batch)

(***************************************************************************)
(* createNextAttributes and PreparePayloadAttributes: a batch that does    *)
(* not fit the safe head is an inconsistency that resets the pipeline.     *)
(* Otherwise the L1 data is fetched, which may fail and leaves the batch   *)
(* for the next call.                                                      *)
(***************************************************************************)
Consistent(b) ==
  /\ b.parent = safe /\ b.time = DC!NextTime(safe)
  /\ b.epoch \in {DC!Origin(safe), DC!Origin(safe) + 1}
  /\ b.time >= L1Time[b.epoch]

createNextAttributes(b) ==
  \/ /\ ~Consistent(b)
     /\ aqBatch' = b /\ needReset' = TRUE
     /\ UNCHANGED safeAttrs
  \/ /\ Consistent(b)
     /\ aqBatch' = b
     /\ UNCHANGED <<safeAttrs, needReset>>
  \/ /\ Consistent(b)
     /\ safeAttrs' = b /\ aqBatch' = NoBatch
     /\ UNCHANGED needReset

(***************************************************************************)
(* Step moves on to the next L1 block when the stages are out of data, if  *)
(* there is one and it can be fetched.                                     *)
(***************************************************************************)
MutAdvanceL1Block ==    \* slip: the read position is not reset
  \/ UNCHANGED prevVars
  \/ /\ prevOrigin < DC!Head1
     /\ prevOrigin' = prevOrigin + 1 /\ UNCHANGED prevRead

AdvanceL1Block ==
  \/ UNCHANGED prevVars
  \/ /\ prevOrigin < DC!Head1
     /\ prevOrigin' = prevOrigin + 1 /\ prevRead' = 0

AfterDerive(r, outOfData) ==
  /\ bq' = r.bq
  /\ CASE r.err = "Reset" -> needReset' = TRUE /\ UNCHANGED aqVars
       [] r.err = "EOF" -> UNCHANGED <<aqBatch, safeAttrs, needReset>>
       [] r.err = "none" -> createNextAttributes(r.batch)
  /\ IF r.err = "EOF" /\ outOfData THEN AdvanceL1Block
     ELSE IF outOfData THEN UNCHANGED prevVars
     ELSE prevOrigin' = prevOrigin /\ prevRead' = prevRead + 1

(***************************************************************************)
(* NextAttributes, the whole descent of one Step: with a batch left from   *)
(* before, with a batch of the previous stages (dropped if they are behind *)
(* the safe head), with no more than a hint to call again, and with no     *)
(* more data.                                                              *)
(***************************************************************************)
CanPull == ~needReset /\ safeAttrs = NoBatch

RetryAttributes ==
  /\ CanPull /\ aqBatch # NoBatch
  /\ createNextAttributes(aqBatch)
  /\ UNCHANGED <<l1, safe, bq, resets>>
  /\ UNCHANGED prevVars

PullBatch ==
  /\ CanPull /\ aqBatch = NoBatch
  /\ prevRead < Len(l1[prevOrigin + 1])
  /\ IF originBehind
     THEN /\ bq' = TakeOrigin(bq)
          /\ prevRead' = prevRead + 1
          /\ UNCHANGED <<aqBatch, safeAttrs, prevOrigin, needReset>>
     ELSE \E q \in {AddBatch(TakeOrigin(bq), l1[prevOrigin + 1][prevRead + 1])} :
          \E r \in {deriveNextBatch(q, FALSE)} : AfterDerive(r, FALSE)
  /\ UNCHANGED <<l1, safe, resets>>

PullNotEnoughData ==
  /\ CanPull /\ aqBatch = NoBatch
  /\ prevRead < Len(l1[prevOrigin + 1])
  /\ bq' = TakeOrigin(bq)
  /\ UNCHANGED <<l1, safe, needReset, resets>>
  /\ UNCHANGED aqVars
  /\ UNCHANGED prevVars

PullEOF ==
  /\ CanPull /\ aqBatch = NoBatch
  /\ prevRead = Len(l1[prevOrigin + 1])
  /\ IF originBehind
     THEN /\ bq' = TakeOrigin(bq)
          /\ AdvanceL1Block
          /\ UNCHANGED <<aqBatch, safeAttrs, needReset>>
     ELSE \E r \in {deriveNextBatch(TakeOrigin(bq), TRUE)} : AfterDerive(r, TRUE)
  /\ UNCHANGED <<l1, safe, resets>>

(***************************************************************************)
(* The engine queue makes the safe block of the attributes, or drops them  *)
(* if the engine rejects the transactions of the batch.                    *)
(***************************************************************************)
ProcessAttributes ==
  /\ ~needReset /\ safeAttrs # NoBatch
  /\ safe' = IF safeAttrs.content = "rejected" THEN safe
             ELSE Append(safe, [epoch |-> safeAttrs.epoch,
                                content |-> safeAttrs.content])
  /\ safeAttrs' = NoBatch
  /\ UNCHANGED <<l1, bq, aqBatch, needReset, resets>>
  /\ UNCHANGED prevVars

(***************************************************************************)
(* A reset of the whole pipeline: the safe head may go back, and the       *)
(* stages start again ChannelTimeout L1 blocks before its origin, or at    *)
(* the first L1 block.                                                     *)
(***************************************************************************)
ResetStages ==
  /\ \E n \in 0 .. Len(safe) : safe' = SubSeq(safe, 1, n)
  /\ prevOrigin' = IF DC!Origin(safe)' > ChannelTimeout
                   THEN DC!Origin(safe)' - ChannelTimeout ELSE 0
  /\ prevRead' = 0
  /\ bq' = [origin |-> prevOrigin', l1Blocks |-> <<prevOrigin'>>,
            batches |-> [t \in Times |-> <<>>]]
  /\ aqBatch' = NoBatch /\ safeAttrs' = NoBatch
  /\ needReset' = FALSE
  /\ UNCHANGED l1

Reset == needReset /\ ResetStages /\ UNCHANGED resets

ResetByOther == resets < MaxResets /\ ResetStages /\ resets' = resets + 1

L1Grows == DC!Mine /\ UNCHANGED <<bq, aqBatch, safeAttrs, prevOrigin, prevRead,
                                  needReset, resets>>

BQInit ==
  /\ DC!Init
  /\ bq = [origin |-> 0, l1Blocks |-> <<0>>, batches |-> [t \in Times |-> <<>>]]
  /\ aqBatch = NoBatch /\ safeAttrs = NoBatch
  /\ prevOrigin = 0 /\ prevRead = 0
  /\ needReset = FALSE /\ resets = 0

Pull == PullBatch \/ PullNotEnoughData \/ PullEOF

BQNext == \/ Pull \/ RetryAttributes \/ ProcessAttributes
          \/ Reset \/ ResetByOther \/ L1Grows

(***************************************************************************)
(* The driver steps the pipeline while there is work.  What is fetched     *)
(* from L1 fails at times, but not for ever: attributes that are tried     *)
(* again and again are built, an L1 block that is there is fetched.        *)
(***************************************************************************)
AttributesMade == (Pull \/ RetryAttributes) /\ safeAttrs' # NoBatch

L1Fetched == Pull /\ prevOrigin' # prevOrigin

BQSpec == /\ BQInit /\ [][BQNext]_bqVars
          /\ WF_bqVars(Pull) /\ WF_bqVars(ProcessAttributes) /\ WF_bqVars(Reset)
          /\ SF_bqVars(AttributesMade) /\ SF_bqVars(L1Fetched)

-----------------------------------------------------------------------------

(***************************************************************************)
(* Type invariant.                                                         *)
(***************************************************************************)
BQTypeOK ==
  /\ l1 \in Seq(Seq(BatchSet)) /\ Len(l1) - 1 \in DOMAIN L1Time
  /\ safe \in Seq([epoch : DOMAIN L1Time, content : DC!Contents])
  /\ DOMAIN bq = {"origin", "l1Blocks", "batches"}
  /\ bq.origin \in 0 .. DC!Head1 /\ bq.l1Blocks \in Seq(0 .. DC!Head1)
  /\ DOMAIN bq.batches = Times
  /\ prevOrigin \in 0 .. DC!Head1 /\ prevRead \in 0 .. Len(l1[prevOrigin + 1])
  /\ needReset \in BOOLEAN /\ resets \in 0 .. MaxResets

(***************************************************************************)
(* When the stages are not behind the safe head, NextBatch works on a      *)
(* gapless run of L1 blocks up to the origin of the stages, from at most   *)
(* one after the origin of the safe head.  So AddBatch never meets an      *)
(* empty list, which panics, deriveNextBatch neither, which is a critical  *)
(* error, and no L1 block is ever skipped as an epoch.                     *)
(***************************************************************************)
EpochPrepared ==
  ~needReset /\ ~originBehind =>
    LET bs == TakeOrigin(bq).l1Blocks
    IN  /\ bs # <<>>
        /\ Head(bs) <= DC!Origin(safe) + 1
        /\ bs = [i \in 1 .. prevOrigin - Head(bs) + 1 |-> Head(bs) + i - 1]

(***************************************************************************)
(* A buffered batch waits under its own timestamp, so no candidate is ever *)
(* a future one, which deriveNextBatch treats as a critical error; its     *)
(* inclusion block is one the stages have read, and batches of one         *)
(* timestamp are in order of inclusion.                                    *)
(***************************************************************************)
BufferedInOrder ==
  \A t \in Times :
    /\ \A i \in DOMAIN bq.batches[t] :
         LET d == bq.batches[t][i]
         IN  d.batch.time = t /\ d.included <= bq.origin
    /\ \A i, j \in DOMAIN bq.batches[t] :
         i < j => bq.batches[t][i].included <= bq.batches[t][j].included

(***************************************************************************)
(* Sequencer and verifiers agree on the rules of origins, drift and time:  *)
(* whatever the sequencer chooses for a block on the safe head, with any   *)
(* view of L1 it can have by now, every verifier accepts as a batch that   *)
(* is included within the window, although its view of L1 is another one.  *)
(***************************************************************************)
SequencedAccepted ==
  LET origin == DC!Origin(safe)
      time == DC!NextTime(safe)
  IN \A l1Head \in 0 .. DC!Head1 :
     \A b \in OS!StartBuildingBlock(origin, time, l1Head, DC!Head1) :
     \A n \in DC!L1Numbers \cap (b.epoch + 1 .. b.epoch + SeqWindowSize) :
       CheckBatch([i \in 1 .. n - origin + 1 |-> origin + i - 1],
                  [batch |-> [time |-> time, epoch |-> b.epoch,
                              canonical |-> TRUE, content |-> b.content,
                              parent |-> safe],
                   included |-> n]) = "accept"

(***************************************************************************)
(* The eager algorithm does not diverge from the non-eager one: the safe   *)
(* chain grows as DerivedChain says, whatever is buffered, dropped,        *)
(* forgotten, retried or read again after a reset.                         *)
(***************************************************************************)
ImplementsDerivedChain == DC!Spec

(***************************************************************************)
(* What L1 decides is derived in the end, unless the stages find their     *)
(* state inconsistent over and over again.                                 *)
(***************************************************************************)
DerivesOrResets == DC!Fairness \/ []<>needReset

(***************************************************************************)
(* "During normal resets we will later throw out this block"               *)
(* (BatchQueue.Reset, of the base of a reset): when the stages have caught *)
(* up with the safe head, no L1 block before its origin is left.           *)
(***************************************************************************)
BaseThrownOut ==
  ~needReset /\ ~originBehind =>
    Head(TakeOrigin(bq).l1Blocks) >= DC!Origin(safe)
=============================================================================
