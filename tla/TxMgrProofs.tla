---------------------------- MODULE TxMgrProofs ----------------------------
(***************************************************************************)
(* Proofs about TxMgr, for every number of calls, versions, confirmations  *)
(* and faults.                                                             *)
(***************************************************************************)
EXTENDS TxMgr, FiniteSetTheorems, TLAPS

Phases == {"idle", "craft", "loop", "bump", "failing", "failed", "done"}
Made == {w \in Versions : txNonce[w] # Nil}

(***************************************************************************)
(* The full types.                                                         *)
(***************************************************************************)
SendTypes ==
  /\ nonce \in Nat \cup {Nil} /\ groupErr \in BOOLEAN
  /\ pc \in [Sends -> Phases]
  /\ txNonce \in [Versions -> Nat \cup {Nil}]
  /\ version \in [Sends -> Nat] /\ \A s \in Sends : version[s] <= MaxVersions[s]

ChainTypes ==
  /\ recent \in Seq(Versions \cup {NoTx}) /\ Len(recent) <= NumConfirmations
  /\ final \in SUBSET Versions /\ IsFiniteSet(final)
  /\ confs \in [Versions -> 0 .. NumConfirmations]

(***************************************************************************)
(* The versions of a call are made one after the other, from the time it   *)
(* has crafted its transaction, and all have the same nonce.               *)
(***************************************************************************)
VersionsMade ==
  /\ \A w \in Versions : w \in Made <=> w[2] <= version[w[1]]
  /\ \A v, w \in Made : v[1] = w[1] => txNonce[v] = txNonce[w]
  /\ \A s \in Sends : /\ pc[s] \in {"idle", "craft"} => version[s] = 0
                      /\ pc[s] \in {"loop", "bump"} => version[s] >= 1

(***************************************************************************)
(* Only what a call has made is published, mined or polled for, and each   *)
(* call keeps to its own versions.                                         *)
(***************************************************************************)
OnlyMade ==
  /\ publishing \in SUBSET Made /\ mempool \in SUBSET Made /\ torn \in SUBSET Made
  /\ OnChain \in SUBSET Made
  /\ worker \in [Versions -> {"none", "poll", "read"}]
  /\ \A w \in Versions : worker[w] # "none" => w \in Made
  /\ minedTxs \in [Sends -> SUBSET Made] /\ receiptChan \in [Sends -> SUBSET Made]
  /\ \A s \in Sends : \A w \in minedTxs[s] \cup receiptChan[s] : w[1] = s

(***************************************************************************)
(* Until a call fails, the manager's nonce is the highest one in use.      *)
(***************************************************************************)
NoFailure == \A s \in Sends : pc[s] \notin {"failing", "failed"}

NonceHighest ==
  NoFailure => /\ \A w \in Made : nonce # Nil /\ txNonce[w] <= nonce
               /\ \A v, w \in Made : txNonce[v] = txNonce[w] => v[1] = w[1]

(***************************************************************************)
(* The account's transactions in L1 up to the k-th recent block: their     *)
(* nonces are below their number and differ.                               *)
(***************************************************************************)
UpTo(fin, blocks, k) == fin \cup ({blocks[i] : i \in 1 .. k} \ {NoTx})

Below(T) == \A w \in T : txNonce[w] < Cardinality(T)

ChainNonces ==
  /\ \A k \in 0 .. Len(recent) : Below(UpTo(final, recent, k))
  /\ \A v, w \in OnChain : txNonce[v] = txNonce[w] => v = w

(***************************************************************************)
(* A version has at least c confirmations on L1.                           *)
(***************************************************************************)
DeepIn(fin, blocks, w, c) ==
  w \in fin \/ \E i \in 1 .. Len(blocks) : blocks[i] = w /\ c <= (Len(blocks) + 1) - i

Deep(w, c) == DeepIn(final, recent, w, c)

(***************************************************************************)
(* Unless a reorg came in between, the confirmations that a goroutine has  *)
(* counted exist, and a receipt that is handed out is confirmed.           *)
(***************************************************************************)
ReceiptsDeep ==
  /\ \A w \in Versions : worker[w] = "read" /\ w \notin torn => Deep(w, confs[w])
  /\ \A s \in Sends : \A w \in receiptChan[s] : w \in torn \/ Deep(w, NumConfirmations)

(***************************************************************************)
(* The inductive invariant.                                                *)
(***************************************************************************)
TxMgrInv ==
  /\ SendTypes /\ ChainTypes /\ VersionsMade /\ OnlyMade
  /\ NonceHighest /\ ChainNonces /\ ReceiptsDeep

-----------------------------------------------------------------------------
(***************************************************************************)
(* Versions are pairs of a call and a count.                               *)
(***************************************************************************)
LEMMA VersionFacts ==
  /\ \A w \in Versions : /\ w = <<w[1], w[2]>> /\ w # NoTx /\ w[1] \in Sends
                         /\ w[2] \in Nat /\ 1 <= w[2] /\ w[2] <= MaxVersions[w[1]]
  /\ \A s \in Sends, v \in Nat :
       1 <= v /\ v <= MaxVersions[s] => <<s, v>> \in Versions
  /\ \A s \in Sends : MaxVersions[s] \in Nat /\ MaxVersions[s] >= 1
  /\ NumConfirmations \in Nat /\ NumConfirmations >= 1 /\ Nil \notin Nat
<1>1. /\ \A s \in Sends : MaxVersions[s] \in Nat /\ MaxVersions[s] >= 1
      /\ NumConfirmations \in Nat /\ NumConfirmations >= 1 /\ Nil \notin Nat
  BY TxMgrAssumption DEF Nil
<1>2. ASSUME NEW w \in Versions
      PROVE  /\ w = <<w[1], w[2]>> /\ w # NoTx /\ w[1] \in Sends
             /\ w[2] \in Nat /\ 1 <= w[2] /\ w[2] <= MaxVersions[w[1]]
  <2>1. PICK s \in Sends : w \in {s} \X (1 .. MaxVersions[s])
    BY DEF Versions
  <2>2. PICK v \in 1 .. MaxVersions[s] : w = <<s, v>>
    BY <2>1
  <2>3. w[1] = s /\ w[2] = v /\ w # << >>
    BY <2>2
  <2> QED
    BY <1>1, <2>2, <2>3 DEF NoTx
<1>3. ASSUME NEW s \in Sends, NEW v \in Nat, 1 <= v, v <= MaxVersions[s]
      PROVE  <<s, v>> \in Versions
  <2>1. <<s, v>> \in {s} \X (1 .. MaxVersions[s])
    BY <1>1, <1>3
  <2> QED
    BY <2>1 DEF Versions
<1> QED
  BY <1>1, <1>2, <1>3

(***************************************************************************)
(* The transactions up to a block are finitely many versions.              *)
(***************************************************************************)
LEMMA UpToFinite ==
  ASSUME NEW fin \in SUBSET Versions, IsFiniteSet(fin),
         NEW blocks \in Seq(Versions \cup {NoTx}), NEW k \in 0 .. Len(blocks)
  PROVE  /\ UpTo(fin, blocks, k) \in SUBSET Versions /\ IsFiniteSet(UpTo(fin, blocks, k))
         /\ Cardinality(UpTo(fin, blocks, k)) \in Nat
<1> DEFINE T == {blocks[i] : i \in 1 .. k}
           f == [i \in 1 .. k |-> blocks[i]]
<1>1. k \in Nat /\ Len(blocks) \in Nat /\ \A i \in 1 .. k : blocks[i] \in Versions \cup {NoTx}
  OBVIOUS
<1>2. IsFiniteSet(1 .. k)
  BY <1>1, FS_Interval
<1>3. f \in Surjection(1 .. k, T)
  BY DEF Surjection
<1> HIDE DEF f
<1>4. IsFiniteSet(T)
  BY <1>2, <1>3, FS_Surjection
<1>5. IsFiniteSet(T \ {NoTx})
  BY <1>4, FS_RemoveElement
<1>6. IsFiniteSet(UpTo(fin, blocks, k))
  BY <1>5, FS_Union DEF UpTo
<1>7. UpTo(fin, blocks, k) \in SUBSET Versions
  BY <1>1 DEF UpTo
<1> QED
  BY <1>6, <1>7, FS_CardinalityType

(***************************************************************************)
(* The nonce of the account at the latest block.                           *)
(***************************************************************************)
LEMMA OnChainFacts ==
  ASSUME ChainTypes
  PROVE  /\ OnChain = UpTo(final, recent, Len(recent)) /\ OnChain \in SUBSET Versions
         /\ IsFiniteSet(OnChain) /\ NonceAt \in Nat /\ NonceAt = Cardinality(OnChain)
         /\ final \in SUBSET OnChain
<1>1. recent \in Seq(Versions \cup {NoTx}) /\ final \in SUBSET Versions
  BY DEF ChainTypes
<1>2. DOMAIN recent = 1 .. Len(recent) /\ Len(recent) \in 0 .. Len(recent)
  BY <1>1
<1>3. OnChain = UpTo(final, recent, Len(recent))
  BY <1>2 DEF OnChain, UpTo, ToSet
<1> QED
  BY <1>1, <1>2, <1>3, UpToFinite, VersionFacts DEF ChainTypes, NonceAt, OnChain

(***************************************************************************)
(* The nonce that a call is given.                                         *)
(***************************************************************************)
LEMMA NextNonceFacts ==
  ASSUME SendTypes, ChainTypes
  PROVE  nextNonce \in Nat /\ (nonce # Nil => nextNonce = nonce + 1)
  BY OnChainFacts, VersionFacts DEF SendTypes, nextNonce, Nil

(***************************************************************************)
(* A sequence without its first n elements, and its first n elements.      *)
(***************************************************************************)
LEMMA SubSeqFacts ==
  ASSUME NEW S, NEW s \in Seq(S), NEW n \in 0 .. Len(s)
  PROVE  /\ SubSeq(s, n + 1, Len(s)) \in Seq(S) /\ Len(SubSeq(s, n + 1, Len(s))) = Len(s) - n
         /\ \A i \in 1 .. Len(s) - n : SubSeq(s, n + 1, Len(s))[i] = s[i + n] /\ i + n \in 1 .. Len(s)
         /\ SubSeq(s, 1, n) \in Seq(S) /\ Len(SubSeq(s, 1, n)) = n
         /\ \A i \in 1 .. n : SubSeq(s, 1, n)[i] = s[i]
  OBVIOUS

(***************************************************************************)
(* Extended only moves the border between the recent and the final blocks. *)
(***************************************************************************)
LEMMA ExtendedFacts ==
  ASSUME ChainTypes, NEW blocks \in Seq(Versions \cup {NoTx}), Extended(blocks)
  PROVE  \E cut \in 0 .. Len(blocks) :
           /\ recent' \in Seq(Versions \cup {NoTx}) /\ Len(recent') = Len(blocks) - cut
           /\ Len(recent') <= NumConfirmations
           /\ final' = UpTo(final, blocks, cut)
           /\ \A i \in 1 .. Len(recent') : recent'[i] = blocks[i + cut] /\ i + cut \in 1 .. Len(blocks)
<1> USE VersionFacts
<1>1. Len(blocks) \in Nat /\ \A i \in 1 .. Len(blocks) : blocks[i] \in Versions \cup {NoTx}
  OBVIOUS
<1>2. CASE Len(blocks) - NumConfirmations <= 0
  <2>1. recent' = blocks /\ final' = final
    BY <1>2 DEF Extended
  <2>2. final' = UpTo(final, blocks, 0)
    BY <2>1 DEF UpTo
  <2> QED
    BY <1>1, <1>2, <2>1, <2>2
<1>3. CASE ~(Len(blocks) - NumConfirmations <= 0)
  <2> DEFINE cut == Len(blocks) - NumConfirmations
  <2>1. cut \in Nat /\ cut \in 0 .. Len(blocks)
    BY <1>1, <1>3
  <2>2. /\ recent' = SubSeq(blocks, cut + 1, Len(blocks))
        /\ final' = final \cup (ToSet(SubSeq(blocks, 1, cut)) \ {NoTx})
    BY <1>3 DEF Extended
  <2> HIDE DEF cut
  <2>3. /\ recent' \in Seq(Versions \cup {NoTx}) /\ Len(recent') = Len(blocks) - cut
        /\ \A i \in 1 .. Len(recent') : recent'[i] = blocks[i + cut] /\ i + cut \in 1 .. Len(blocks)
    BY <2>1, <2>2, SubSeqFacts
  <2>4. ToSet(SubSeq(blocks, 1, cut)) = {blocks[i] : i \in 1 .. cut}
    <3>1. /\ SubSeq(blocks, 1, cut) \in Seq(Versions \cup {NoTx})
          /\ Len(SubSeq(blocks, 1, cut)) = cut
          /\ \A i \in 1 .. cut : SubSeq(blocks, 1, cut)[i] = blocks[i]
      BY <2>1, SubSeqFacts
    <3> QED
      BY <3>1 DEF ToSet
  <2>5. Len(recent') <= NumConfirmations
    BY <1>1, <2>1, <2>3 DEF cut
  <2> QED
    BY <2>1, <2>2, <2>3, <2>4, <2>5 DEF UpTo
<1> QED
  BY <1>2, <1>3

(***************************************************************************)
(* ... so that the transactions up to a block stay the same ones.          *)
(***************************************************************************)
LEMMA ExtendedUpTo ==
  ASSUME ChainTypes, NEW blocks \in Seq(Versions \cup {NoTx}), Extended(blocks)
  PROVE  /\ final' \in SUBSET Versions /\ IsFiniteSet(final')
         /\ \E cut \in 0 .. Len(blocks) :
              /\ Len(recent') = Len(blocks) - cut
              /\ \A k \in 0 .. Len(recent') :
                   /\ k + cut \in 0 .. Len(blocks)
                   /\ UpTo(final', recent', k) = UpTo(final, blocks, k + cut)
<1>1. PICK cut \in 0 .. Len(blocks) :
        /\ recent' \in Seq(Versions \cup {NoTx}) /\ Len(recent') = Len(blocks) - cut
        /\ final' = UpTo(final, blocks, cut)
        /\ \A i \in 1 .. Len(recent') : recent'[i] = blocks[i + cut] /\ i + cut \in 1 .. Len(blocks)
  BY ExtendedFacts
<1>2. Len(blocks) \in Nat /\ Len(recent') \in Nat /\ cut \in Nat
  BY <1>1
<1>3. final' \in SUBSET Versions /\ IsFiniteSet(final')
  BY <1>1, UpToFinite DEF ChainTypes
<1>4. ASSUME NEW k \in 0 .. Len(recent')
      PROVE  k + cut \in 0 .. Len(blocks) /\ UpTo(final', recent', k) = UpTo(final, blocks, k + cut)
  <2>1. k \in Nat /\ k + cut \in 0 .. Len(blocks)
    BY <1>1, <1>2
  <2>2. {blocks[i] : i \in 1 .. k + cut} = {blocks[i] : i \in 1 .. cut} \cup {recent'[i] : i \in 1 .. k}
    <3>1. ASSUME NEW i \in 1 .. k + cut
          PROVE  blocks[i] \in {blocks[j] : j \in 1 .. cut} \cup {recent'[j] : j \in 1 .. k}
      <4>1. CASE i <= cut
        BY <1>2, <2>1, <4>1
      <4>2. CASE i > cut
        <5>1. i - cut \in 1 .. k /\ i - cut \in 1 .. Len(recent') /\ (i - cut) + cut = i
          BY <1>2, <2>1, <4>2
        <5>2. recent'[i - cut] = blocks[i]
          BY <1>1, <5>1
        <5> QED
          BY <5>1, <5>2
      <4> QED
        BY <1>2, <2>1, <4>1, <4>2
    <3>2. ASSUME NEW j \in 1 .. cut PROVE blocks[j] \in {blocks[i] : i \in 1 .. k + cut}
      <4>1. j \in 1 .. k + cut
        BY <1>2, <2>1
      <4> QED
        BY <4>1
    <3>3. ASSUME NEW j \in 1 .. k PROVE recent'[j] \in {blocks[i] : i \in 1 .. k + cut}
      <4>1. j \in 1 .. Len(recent') /\ j + cut \in 1 .. k + cut
        BY <1>2, <2>1
      <4> QED
        BY <1>1, <4>1
    <3> QED
      BY <3>1, <3>2, <3>3
  <2> QED
    BY <1>1, <2>1, <2>2 DEF UpTo
<1> QED
  BY <1>1, <1>3, <1>4

-----------------------------------------------------------------------------
(***************************************************************************)
(* Which steps change the nonces, and which change L1.                     *)
(***************************************************************************)
LEMMA NonceChanges ==
  ASSUME [Next]_vars
  PROVE  \/ UNCHANGED <<txNonce, version>>
         \/ \E s \in Sends : craftTx(s) \/ increaseGasPrice(s)
BY DEF Next, SendStep, WorkerStep, QueueSend, craftTxFails, craftTxGivesUp, CtxDone, ReturnError,
       Abort, Fail, Tick, NoBump, Return, Publish, PublishFails, ReadReceipt, ReadTip, Mine,
       MineEmpty, Reorg, vars, sendVars

(***************************************************************************)
(* Which steps change L1.                                                  *)
(***************************************************************************)
LEMMA ChainChanges ==
  ASSUME [Next]_vars
  PROVE  \/ UNCHANGED <<recent, final, torn>>
         \/ (\E w \in Versions : Mine(w)) \/ MineEmpty \/ Reorg
BY DEF Next, SendStep, WorkerStep, QueueSend, craftTx, craftTxFails, craftTxGivesUp, CtxDone,
       ReturnError, Abort, Fail, Tick, increaseGasPrice, NoBump, Return, Publish, PublishFails,
       ReadReceipt, ReadTip, vars, chainVars

(***************************************************************************)
(* What a new block or a reorg does: the blocks up to kept stay, one more  *)
(* than the others comes on top, empty or with the next transaction.  The  *)
(* goroutines that have read a receipt of what is dropped are torn.        *)
(***************************************************************************)
L1Step(blocks, kept) ==
  /\ blocks \in Seq(Versions \cup {NoTx}) /\ Extended(blocks)
  /\ kept \in 0 .. Len(recent) /\ kept > Len(recent) - NumConfirmations
  /\ Len(blocks) = Len(recent) + 1 /\ \A i \in 1 .. kept : blocks[i] = recent[i]
  /\ \A i \in kept + 1 .. Len(blocks) :
       \/ blocks[i] = NoTx
       \/ /\ kept = Len(recent) /\ blocks[i] \in mempool \cap Versions
          /\ txNonce[blocks[i]] = NonceAt
  /\ torn \in SUBSET torn'
  /\ \A i \in kept + 1 .. Len(recent) :
       recent[i] # NoTx /\ worker[recent[i]] = "read" => recent[i] \in torn'
  /\ TipAdvances /\ UNCHANGED <<worker, sendVars, mgrVars>>

(***************************************************************************)
(* Every change of L1 is such a step.                                      *)
(***************************************************************************)
LEMMA L1StepFacts ==
  ASSUME ChainTypes, (\E w \in Versions : Mine(w)) \/ MineEmpty \/ Reorg
  PROVE  \E blocks, kept : L1Step(blocks, kept)
<1>1. recent \in Seq(Versions \cup {NoTx}) /\ Len(recent) \in Nat
  BY DEF ChainTypes
<1>2. ASSUME NEW tx \in Versions \cup {NoTx},
             tx = NoTx \/ (tx \in mempool /\ txNonce[tx] = NonceAt),
             Extended(Append(recent, tx)), TipAdvances, UNCHANGED <<worker, sendVars, mgrVars, torn>>
      PROVE  L1Step(Append(recent, tx), Len(recent))
  <2>1. /\ Append(recent, tx) \in Seq(Versions \cup {NoTx})
        /\ Len(Append(recent, tx)) = Len(recent) + 1
        /\ \A i \in 1 .. Len(recent) : Append(recent, tx)[i] = recent[i]
        /\ Append(recent, tx)[Len(recent) + 1] = tx
    BY <1>1
  <2>2. \A i \in Len(recent) + 1 .. Len(Append(recent, tx)) : i = Len(recent) + 1
    BY <1>1, <2>1
  <2>3. Len(recent) \in 0 .. Len(recent) /\ Len(recent) > Len(recent) - NumConfirmations
    BY <1>1, VersionFacts
  <2>4. \A i \in Len(recent) + 1 .. Len(recent) : FALSE
    BY <1>1
  <2>5. tx # NoTx => tx \in mempool \cap Versions /\ txNonce[tx] = NonceAt
    BY <1>2
  <2>6. \A i \in Len(recent) + 1 .. Len(Append(recent, tx)) :
          \/ Append(recent, tx)[i] = NoTx
          \/ /\ Append(recent, tx)[i] \in mempool \cap Versions
             /\ txNonce[Append(recent, tx)[i]] = NonceAt
    BY <2>1, <2>2, <2>5
  <2>7. torn \in SUBSET torn'
    BY <1>2
  <2> QED
    BY <1>2, <2>1, <2>3, <2>4, <2>6, <2>7 DEF L1Step
<1>3. ASSUME NEW w \in Versions, Mine(w) PROVE \E blocks, kept : L1Step(blocks, kept)
  BY <1>2, <1>3 DEF Mine
<1>4. CASE MineEmpty
  BY <1>2, <1>4 DEF MineEmpty
<1>5. CASE Reorg
  <2>1. PICK d \in 1 .. NumConfirmations - 1 :
          LET kept == Len(recent) - d
              dropped == ToSet(SubSeq(recent, kept + 1, Len(recent))) \ {NoTx}
          IN /\ kept >= 0
             /\ Extended(SubSeq(recent, 1, kept) \o [i \in 1 .. d + 1 |-> NoTx])
             /\ mempool' = mempool \cup dropped
             /\ torn' = torn \cup {w \in dropped : worker[w] = "read"}
    BY <1>5 DEF Reorg
  <2> DEFINE kept == Len(recent) - d
             dropped == ToSet(SubSeq(recent, kept + 1, Len(recent))) \ {NoTx}
             pre == SubSeq(recent, 1, kept)
             post == [i \in 1 .. d + 1 |-> NoTx]
             blocks == pre \o post
  <2>2. /\ kept >= 0 /\ Extended(blocks)
        /\ torn' = torn \cup {w \in dropped : worker[w] = "read"}
    BY <2>1
  <2>3. kept \in 0 .. Len(recent) /\ kept > Len(recent) - NumConfirmations /\ d \in Nat
    BY <1>1, <2>2, VersionFacts
  <2>4. /\ pre \in Seq(Versions \cup {NoTx}) /\ Len(pre) = kept
        /\ \A i \in 1 .. kept : pre[i] = recent[i]
    BY <1>1, <2>3, SubSeqFacts
  <2>5. /\ post \in Seq(Versions \cup {NoTx}) /\ Len(post) = d + 1
        /\ \A i \in 1 .. d + 1 : post[i] = NoTx
    BY <2>3
  <2>6. \A i \in kept + 1 .. Len(recent) : recent[i] # NoTx => recent[i] \in dropped
    <3> DEFINE tail == SubSeq(recent, kept + 1, Len(recent))
    <3>1. kept \in 0 .. Len(recent)
      BY <2>3
    <3> HIDE DEF kept
    <3>2. /\ tail \in Seq(Versions \cup {NoTx}) /\ Len(tail) = Len(recent) - kept
          /\ \A i \in 1 .. Len(recent) - kept : tail[i] = recent[i + kept]
      BY <1>1, <3>1, SubSeqFacts
    <3> HIDE DEF tail
    <3>3. ASSUME NEW i \in kept + 1 .. Len(recent), recent[i] # NoTx PROVE recent[i] \in dropped
      <4>1. i - kept \in 1 .. Len(tail) /\ i - kept \in 1 .. Len(recent) - kept /\ (i - kept) + kept = i
        BY <1>1, <3>1, <3>2
      <4>2. tail[i - kept] = recent[i]
        BY <3>2, <4>1
      <4>3. tail[i - kept] \in ToSet(tail)
        BY <3>2, <4>1 DEF ToSet
      <4> QED
        BY <3>3, <4>2, <4>3 DEF tail
    <3> QED
      BY <3>3
  <2> HIDE DEF pre, post, dropped
  <2>7. /\ blocks \in Seq(Versions \cup {NoTx}) /\ Len(blocks) = Len(recent) + 1
        /\ \A i \in 1 .. kept : blocks[i] = recent[i]
        /\ \A i \in kept + 1 .. Len(blocks) : blocks[i] = NoTx
    <3> HIDE DEF kept
    <3>1. blocks \in Seq(Versions \cup {NoTx}) /\ Len(blocks) = Len(pre) + Len(post)
      BY <2>4, <2>5
    <3>2. /\ \A i \in 1 .. Len(pre) : blocks[i] = pre[i]
          /\ \A i \in Len(pre) + 1 .. Len(blocks) : blocks[i] = post[i - Len(pre)]
      BY <2>4, <2>5
    <3>3. Len(blocks) = Len(recent) + 1
      BY <1>1, <2>3, <2>4, <2>5, <3>1 DEF kept
    <3>4. \A i \in kept + 1 .. Len(blocks) : i - kept \in 1 .. d + 1
      BY <1>1, <2>3, <2>4, <2>5, <3>1
    <3> QED
      BY <2>4, <2>5, <3>1, <3>2, <3>3, <3>4
  <2> HIDE DEF kept, blocks
  <2>8. L1Step(blocks, kept)
    BY <1>5, <2>2, <2>3, <2>6, <2>7 DEF L1Step, Reorg
  <2> QED
    BY <2>8
<1> QED
  BY <1>3, <1>4, <1>5

(***************************************************************************)
(* The transactions up to a block after such a step: as before the step up *)
(* to some block, or all of them and the next one.                         *)
(***************************************************************************)
LEMMA L1StepUpTo ==
  ASSUME ChainTypes, NEW blocks, NEW kept, L1Step(blocks, kept), NEW k \in 0 .. Len(blocks)
  PROVE  \/ \E j \in 0 .. Len(recent) : UpTo(final, blocks, k) = UpTo(final, recent, j)
         \/ \E w \in mempool \cap Versions :
              txNonce[w] = NonceAt /\ UpTo(final, blocks, k) = OnChain \cup {w}
<1>1. /\ Len(recent) \in Nat /\ kept \in 0 .. Len(recent) /\ Len(blocks) = Len(recent) + 1
      /\ \A i \in 1 .. kept : blocks[i] = recent[i]
      /\ \A i \in kept + 1 .. Len(blocks) :
           \/ blocks[i] = NoTx
           \/ /\ kept = Len(recent) /\ blocks[i] \in mempool \cap Versions
              /\ txNonce[blocks[i]] = NonceAt
  BY DEF L1Step, ChainTypes
<1>2. CASE k <= kept
  <2>1. {blocks[i] : i \in 1 .. k} = {recent[i] : i \in 1 .. k} /\ k \in 0 .. Len(recent)
    BY <1>1, <1>2
  <2> QED
    BY <2>1 DEF UpTo
<1>3. CASE k > kept
  <2>1. {blocks[i] : i \in 1 .. k} = {recent[i] : i \in 1 .. kept} \cup {blocks[i] : i \in kept + 1 .. k}
    <3>1. \A i \in 1 .. k : i \in 1 .. kept \/ i \in kept + 1 .. k
      BY <1>1, <1>3
    <3>2. \A i \in 1 .. kept : i \in 1 .. k
      BY <1>1, <1>3
    <3>3. \A i \in kept + 1 .. k : i \in 1 .. k
      BY <1>1, <1>3
    <3> QED
      BY <1>1, <3>1, <3>2, <3>3
  <2>2. CASE \A i \in kept + 1 .. k : blocks[i] = NoTx
    <3>1. UpTo(final, blocks, k) = UpTo(final, recent, kept)
      BY <2>1, <2>2 DEF UpTo
    <3> QED
      BY <1>1, <3>1
  <2>3. CASE \E i \in kept + 1 .. k : blocks[i] # NoTx
    <3>1. PICK i \in kept + 1 .. k : blocks[i] # NoTx
      BY <2>3
    <3>2. i \in kept + 1 .. Len(blocks)
      BY <1>1, <1>3
    <3>3. kept = Len(recent) /\ blocks[i] \in mempool \cap Versions /\ txNonce[blocks[i]] = NonceAt
      BY <1>1, <3>1, <3>2
    <3>4. kept + 1 .. k = {i}
      BY <1>1, <1>3, <3>2, <3>3
    <3>5. {blocks[j] : j \in 1 .. k} = {recent[j] : j \in 1 .. Len(recent)} \cup {blocks[i]}
      BY <2>1, <3>3, <3>4
    <3>6. UpTo(final, blocks, k) = OnChain \cup {blocks[i]}
      BY <3>1, <3>5, OnChainFacts DEF UpTo
    <3> QED
      BY <3>3, <3>6
  <2> QED
    BY <2>2, <2>3
<1> QED
  BY <1>1, <1>2, <1>3

(***************************************************************************)
(* So every prefix of L1 afterwards is of one of these two kinds.          *)
(***************************************************************************)
LEMMA L1StepPrefix ==
  ASSUME ChainTypes, NEW blocks, NEW kept, L1Step(blocks, kept), NEW k \in 0 .. Len(recent')
  PROVE  \/ \E j \in 0 .. Len(recent) : UpTo(final', recent', k) = UpTo(final, recent, j)
         \/ \E w \in mempool \cap Versions :
              txNonce[w] = NonceAt /\ UpTo(final', recent', k) = OnChain \cup {w}
<1>1. blocks \in Seq(Versions \cup {NoTx}) /\ Extended(blocks)
  BY DEF L1Step
<1>2. PICK cut \in 0 .. Len(blocks) :
        \A n \in 0 .. Len(recent') : /\ n + cut \in 0 .. Len(blocks)
                                     /\ UpTo(final', recent', n) = UpTo(final, blocks, n + cut)
  BY <1>1, ExtendedUpTo
<1> QED
  BY <1>2, L1StepUpTo

(***************************************************************************)
(* L1 keeps its types.                                                     *)
(***************************************************************************)
LEMMA L1StepTypes ==
  ASSUME ChainTypes, NEW blocks, NEW kept, L1Step(blocks, kept)
  PROVE  /\ ChainTypes' /\ Len(recent') \in 0 .. Len(recent')
         /\ OnChain' = UpTo(final', recent', Len(recent'))
<1>1. blocks \in Seq(Versions \cup {NoTx}) /\ Extended(blocks) /\ TipAdvances
  BY DEF L1Step
<1>2. recent' \in Seq(Versions \cup {NoTx}) /\ Len(recent') <= NumConfirmations
  BY <1>1, ExtendedFacts
<1>3. final' \in SUBSET Versions /\ IsFiniteSet(final')
  BY <1>1, ExtendedUpTo
<1>4. confs' \in [Versions -> 0 .. NumConfirmations]
  BY <1>1, VersionFacts DEF TipAdvances, ChainTypes
<1>5. DOMAIN recent' = 1 .. Len(recent') /\ Len(recent') \in 0 .. Len(recent')
  BY <1>2
<1>6. OnChain' = UpTo(final', recent', Len(recent'))
  BY <1>5 DEF OnChain, UpTo, ToSet
<1> QED
  BY <1>2, <1>3, <1>4, <1>5, <1>6 DEF ChainTypes

(***************************************************************************)
(* A version that is kept is one block deeper afterwards.                  *)
(***************************************************************************)
LEMMA L1StepDeep ==
  ASSUME ChainTypes, NEW blocks, NEW kept, L1Step(blocks, kept),
         NEW w \in Versions, NEW c \in Nat,
         w \in final \/ \E i \in 1 .. kept : recent[i] = w /\ c <= (Len(recent) + 1) - i
  PROVE  DeepIn(final', recent', w, c + 1)
<1>1. /\ blocks \in Seq(Versions \cup {NoTx}) /\ Extended(blocks) /\ Len(recent) \in Nat
      /\ kept \in 0 .. Len(recent) /\ Len(blocks) = Len(recent) + 1
      /\ \A i \in 1 .. kept : blocks[i] = recent[i]
  BY DEF L1Step, ChainTypes
<1>2. PICK cut \in 0 .. Len(blocks) :
        /\ Len(recent') = Len(blocks) - cut /\ final' = UpTo(final, blocks, cut)
        /\ \A i \in 1 .. Len(recent') : recent'[i] = blocks[i + cut] /\ i + cut \in 1 .. Len(blocks)
  BY <1>1, ExtendedFacts
<1>3. CASE w \in final
  BY <1>2, <1>3 DEF UpTo, DeepIn
<1>4. CASE \E i \in 1 .. kept : recent[i] = w /\ c <= (Len(recent) + 1) - i
  <2>1. PICK i \in 1 .. kept : recent[i] = w /\ c <= (Len(recent) + 1) - i
    BY <1>4
  <2>2. blocks[i] = w /\ i \in 1 .. Len(blocks) /\ w # NoTx
    BY <1>1, <2>1, VersionFacts
  <2>3. CASE i <= cut
    <3>1. i \in 1 .. cut
      BY <2>3
    <3> QED
      BY <1>2, <2>2, <3>1 DEF UpTo, DeepIn
  <2>4. CASE i > cut
    <3>1. i - cut \in 1 .. Len(recent') /\ (i - cut) + cut = i
      BY <1>1, <1>2, <2>2, <2>4
    <3>2. recent'[i - cut] = w
      BY <1>2, <2>2, <3>1
    <3>3. c + 1 <= (Len(recent') + 1) - (i - cut)
      BY <1>1, <1>2, <2>1, <2>2
    <3> QED
      BY <3>1, <3>2, <3>3 DEF DeepIn
  <2> QED
    BY <1>1, <1>2, <2>3, <2>4
<1> QED
  BY <1>3, <1>4

-----------------------------------------------------------------------------
(***************************************************************************)
(* Every step keeps the types of the calls.                                *)
(***************************************************************************)
LEMMA SendTypesStep ==
  ASSUME SendTypes, ChainTypes, VersionsMade, [Next]_vars
  PROVE  SendTypes'
<1> USE DEF Phases
<1>1. nonce' \in Nat \cup {Nil} /\ groupErr' \in BOOLEAN
  BY NextNonceFacts
  DEF SendTypes, Next, SendStep, WorkerStep, QueueSend, craftTx, craftTxFails, craftTxGivesUp,
      CtxDone, ReturnError, Abort, Fail, Tick, increaseGasPrice, NoBump, Return, Publish,
      PublishFails, ReadReceipt, ReadTip, Mine, MineEmpty, Reorg, vars, mgrVars
<1>2. pc' \in [Sends -> Phases]
  BY ZenonT(60) DEF SendTypes, Next, SendStep, WorkerStep, QueueSend, craftTx, craftTxFails, craftTxGivesUp,
      CtxDone, ReturnError, Abort, Fail, Tick, increaseGasPrice, NoBump, Return, Publish,
      PublishFails, ReadReceipt, ReadTip, Mine, MineEmpty, Reorg, vars, sendVars
<1>3. /\ txNonce' \in [Versions -> Nat \cup {Nil}]
      /\ version' \in [Sends -> Nat] /\ \A s \in Sends : version'[s] <= MaxVersions[s]
  <2>1. CASE UNCHANGED <<txNonce, version>>
    BY <2>1 DEF SendTypes
  <2>2. ASSUME NEW s \in Sends, craftTx(s)
        PROVE  /\ txNonce' \in [Versions -> Nat \cup {Nil}] /\ version' \in [Sends -> Nat]
               /\ \A r \in Sends : version'[r] <= MaxVersions[r]
    BY <2>2, NextNonceFacts, VersionFacts DEF craftTx, SendTypes
  <2>3. ASSUME NEW s \in Sends, increaseGasPrice(s)
        PROVE  /\ txNonce' \in [Versions -> Nat \cup {Nil}] /\ version' \in [Sends -> Nat]
               /\ \A r \in Sends : version'[r] <= MaxVersions[r]
    <3> DEFINE v == IF version[s] < MaxVersions[s] THEN version[s] + 1 ELSE version[s]
    <3>1. v \in Nat /\ v <= MaxVersions[s]
      BY VersionFacts DEF SendTypes
    <3>2. version[s] >= 1 /\ <<s, version[s]>> \in Versions /\ BumpedNonce(s) \in Nat \cup {Nil}
      BY <2>3, VersionFacts DEF SendTypes, VersionsMade, increaseGasPrice, BumpedNonce
    <3>3. /\ version' = [version EXCEPT ![s] = v]
          /\ txNonce' = [txNonce EXCEPT ![<<s, v>>] = BumpedNonce(s)]
      BY <2>3 DEF increaseGasPrice
    <3> HIDE DEF v
    <3> QED
      BY <3>1, <3>2, <3>3 DEF SendTypes
  <2> QED
    BY <2>1, <2>2, <2>3, NonceChanges
<1> QED
  BY <1>1, <1>2, <1>3 DEF SendTypes

(***************************************************************************)
(* What a goroutine counts as the confirmations of a version on L1.        *)
(***************************************************************************)
LEMMA ConfirmationsFacts ==
  ASSUME ChainTypes, NEW w \in Versions, w \in OnChain
  PROVE  Confirmations(w) \in 0 .. NumConfirmations /\ Deep(w, Confirmations(w))
<1>1. recent \in Seq(Versions \cup {NoTx}) /\ Len(recent) \in Nat /\ Len(recent) <= NumConfirmations
      /\ DOMAIN recent = 1 .. Len(recent)
  BY DEF ChainTypes
<1>2. CASE w \in final
  BY <1>2, VersionFacts DEF Confirmations, Deep, DeepIn
<1>3. CASE w \notin final
  <2>1. \E i \in DOMAIN recent : recent[i] = w
    BY <1>3 DEF OnChain, ToSet
  <2> DEFINE i == CHOOSE j \in DOMAIN recent : recent[j] = w
  <2>2. i \in 1 .. Len(recent) /\ recent[i] = w
    BY <1>1, <2>1
  <2>3. Confirmations(w) = Len(recent) + 1 - i
    BY <1>3 DEF Confirmations
  <2> HIDE DEF i
  <2> QED
    BY <1>1, <2>2, <2>3, VersionFacts DEF Deep, DeepIn
<1> QED
  BY <1>2, <1>3

(***************************************************************************)
(* Every step keeps the types of L1.                                       *)
(***************************************************************************)
LEMMA ChainTypesStep ==
  ASSUME ChainTypes, [Next]_vars
  PROVE  ChainTypes'
<1>1. CASE (\E w \in Versions : Mine(w)) \/ MineEmpty \/ Reorg
  BY <1>1, L1StepFacts, L1StepTypes
<1>2. CASE UNCHANGED <<recent, final, confs>>
  BY <1>2 DEF ChainTypes
<1>3. ASSUME NEW s \in Sends, EndState(s), UNCHANGED <<recent, final>> PROVE ChainTypes'
  BY <1>3, VersionFacts DEF EndState, ChainTypes
<1>4. ASSUME NEW w \in Versions, ReadReceipt(w) PROVE ChainTypes'
  BY <1>4, ConfirmationsFacts DEF ReadReceipt, ChainTypes, chainVars
<1>5. ASSUME NEW w \in Versions, ReadTip(w) PROVE ChainTypes'
  BY <1>5, VersionFacts DEF ReadTip, ChainTypes, chainVars
<1> QED
  BY <1>1, <1>2, <1>3, <1>4, <1>5
  DEF Next, SendStep, WorkerStep, QueueSend, craftTx, craftTxFails, craftTxGivesUp, CtxDone,
      ReturnError, Abort, Fail, Tick, increaseGasPrice, NoBump, Return, Publish, PublishFails,
      vars, chainVars, workerVars

(***************************************************************************)
(* A call crafts its first version; none was made before.                  *)
(***************************************************************************)
LEMMA CraftFacts ==
  ASSUME SendTypes, ChainTypes, VersionsMade, NEW s \in Sends, craftTx(s)
  PROVE  /\ <<s, 1>> \in Versions /\ version[s] = 0 /\ version' = [version EXCEPT ![s] = 1]
         /\ txNonce' = [txNonce EXCEPT ![<<s, 1>>] = nextNonce] /\ nextNonce \in Nat
         /\ \A w \in Made : w[1] # s /\ txNonce'[w] = txNonce[w]
         /\ \A w \in Versions : w[1] = s /\ w[2] <= 1 => w = <<s, 1>>
         /\ Made' = Made \cup {<<s, 1>>}
<1>1. /\ version' = [version EXCEPT ![s] = 1]
      /\ txNonce' = [txNonce EXCEPT ![<<s, 1>>] = nextNonce] /\ pc[s] = "craft"
  BY DEF craftTx
<1>2. nextNonce \in Nat /\ version[s] = 0 /\ <<s, 1>> \in Versions
  BY <1>1, NextNonceFacts, VersionFacts DEF VersionsMade
<1>3. \A w \in Versions : w[1] = s /\ w[2] <= 1 => w = <<s, 1>>
  BY VersionFacts
<1>4. ASSUME NEW w \in Made PROVE w[1] # s /\ txNonce'[w] = txNonce[w]
  <2>1. w \in Versions /\ w[2] <= version[w[1]] /\ w[2] \in Nat /\ 1 <= w[2]
    BY VersionFacts DEF VersionsMade, Made
  <2>2. w[1] # s
    BY <1>2, <2>1
  <2>3. w # <<s, 1>>
    BY <2>2
  <2> QED
    BY <1>1, <2>1, <2>2, <2>3 DEF SendTypes
<1>5. Made' = Made \cup {<<s, 1>>}
  <2>1. \A w \in Versions : w # <<s, 1>> => txNonce'[w] = txNonce[w]
    BY <1>1 DEF SendTypes
  <2>2. txNonce'[<<s, 1>>] = nextNonce
    BY <1>1, <1>2 DEF SendTypes
  <2> QED
    BY <1>2, <2>1, <2>2, VersionFacts DEF Made
<1> QED
  BY <1>1, <1>2, <1>3, <1>4, <1>5

(***************************************************************************)
(* A bumped version has the nonce of the versions before it.               *)
(***************************************************************************)
LEMMA BumpFacts ==
  ASSUME SendTypes, VersionsMade, NEW s \in Sends, increaseGasPrice(s)
  PROVE  \E v \in Nat :
           /\ <<s, v>> \in Versions /\ version[s] <= v /\ v <= version[s] + 1
           /\ version' = [version EXCEPT ![s] = v]
           /\ <<s, version[s]>> \in Made /\ txNonce'[<<s, v>>] = txNonce[<<s, version[s]>>]
           /\ \A w \in Versions : w # <<s, v>> => txNonce'[w] = txNonce[w]
           /\ \A w \in Made : txNonce'[w] = txNonce[w]
           /\ Made' = Made \cup {<<s, v>>}
<1> DEFINE v == IF version[s] < MaxVersions[s] THEN version[s] + 1 ELSE version[s]
<1>1. /\ version' = [version EXCEPT ![s] = v] /\ pc[s] = "bump"
      /\ txNonce' = [txNonce EXCEPT ![<<s, v>>] = txNonce[<<s, version[s]>>]]
  BY DEF increaseGasPrice, BumpedNonce
<1>2. /\ version[s] \in Nat /\ version[s] >= 1 /\ version[s] <= MaxVersions[s]
      /\ MaxVersions[s] \in Nat
  BY <1>1, VersionFacts DEF VersionsMade, SendTypes
<1>3. /\ v \in Nat /\ 1 <= v /\ v <= MaxVersions[s] /\ version[s] <= v /\ v <= version[s] + 1
      /\ <<s, v>> \in Versions /\ <<s, version[s]>> \in Versions
  BY <1>2, VersionFacts
<1> HIDE DEF v
<1>4. <<s, version[s]>> \in Made
  BY <1>2, <1>3 DEF VersionsMade
<1>5. /\ txNonce'[<<s, v>>] = txNonce[<<s, version[s]>>]
      /\ \A w \in Versions : w # <<s, v>> => txNonce'[w] = txNonce[w]
  BY <1>1, <1>3 DEF SendTypes
<1>6. ASSUME NEW w \in Made PROVE txNonce'[w] = txNonce[w]
  <2>1. CASE w = <<s, v>>
    <3>1. w[1] = s
      BY <2>1
    <3>2. txNonce[w] = txNonce[<<s, version[s]>>]
      BY <1>4, <3>1 DEF VersionsMade
    <3> QED
      BY <1>5, <2>1, <3>2
  <2>2. CASE w # <<s, v>>
    BY <1>5, <2>2 DEF Made
  <2> QED
    BY <2>1, <2>2
<1>7. Made' = Made \cup {<<s, v>>}
  BY <1>3, <1>4, <1>5, <1>6 DEF Made
<1> QED
  BY <1>1, <1>3, <1>4, <1>5, <1>6, <1>7

(***************************************************************************)
(* What was made stays made, with its nonce.                               *)
(***************************************************************************)
LEMMA MadeStays ==
  ASSUME SendTypes, ChainTypes, VersionsMade, [Next]_vars
  PROVE  Made \in SUBSET Made' /\ \A w \in Made : txNonce'[w] = txNonce[w]
<1>1. CASE UNCHANGED <<txNonce, version>>
  BY <1>1 DEF Made
<1>2. ASSUME NEW s \in Sends, craftTx(s)
      PROVE  Made \in SUBSET Made' /\ \A w \in Made : txNonce'[w] = txNonce[w]
  BY <1>2, CraftFacts
<1>3. ASSUME NEW s \in Sends, increaseGasPrice(s)
      PROVE  Made \in SUBSET Made' /\ \A w \in Made : txNonce'[w] = txNonce[w]
  BY <1>3, BumpFacts
<1> QED
  BY <1>1, <1>2, <1>3, NonceChanges

(***************************************************************************)
(* A call that has not crafted was not further before; one in the loop has *)
(* a transaction or crafts it now.                                         *)
(***************************************************************************)
LEMMA PhaseChanges ==
  ASSUME SendTypes, [Next]_vars, NEW r \in Sends
  PROVE  /\ pc'[r] \in {"idle", "craft"} => pc[r] \in {"idle", "craft"}
         /\ pc'[r] \in {"loop", "bump"} => pc[r] \in {"loop", "bump"} \/ craftTx(r)
         /\ pc[r] \in {"failing", "failed"} => pc'[r] \in {"failing", "failed"}
<1> USE DEF SendTypes, Phases, vars, sendVars
<1>1. CASE UNCHANGED pc
  BY <1>1
<1>2. ASSUME NEW s \in Sends, SendStep(s)
      PROVE  /\ pc'[r] \in {"idle", "craft"} => pc[r] \in {"idle", "craft"}
             /\ pc'[r] \in {"loop", "bump"} => pc[r] \in {"loop", "bump"} \/ craftTx(r)
             /\ pc[r] \in {"failing", "failed"} => pc'[r] \in {"failing", "failed"}
  <2>1. CASE r # s
    BY <1>2, <2>1
    DEF SendStep, QueueSend, craftTx, craftTxFails, craftTxGivesUp, CtxDone, ReturnError, Abort,
        Fail, Tick, increaseGasPrice, NoBump, Return
  <2>2. CASE r = s /\ craftTx(s)
    BY <2>2 DEF craftTx
  <2>3. CASE r = s /\ ~craftTx(s)
    BY <1>2, <2>3
    DEF SendStep, QueueSend, craftTxFails, craftTxGivesUp, CtxDone, ReturnError, Abort,
        Fail, Tick, increaseGasPrice, NoBump, Return
  <2> QED
    BY <2>1, <2>2, <2>3
<1> QED
  BY <1>1, <1>2
  DEF Next, WorkerStep, Publish, PublishFails, ReadReceipt, ReadTip, Mine, MineEmpty, Reorg

(***************************************************************************)
(* Every step keeps the order in which versions are made.                  *)
(***************************************************************************)
LEMMA VersionsMadeStep ==
  ASSUME SendTypes, ChainTypes, VersionsMade, [Next]_vars
  PROVE  VersionsMade'
<1>1. CASE UNCHANGED <<txNonce, version>>
  <2>1. Made' = Made
    BY <1>1 DEF Made
  <2>2. \A s \in Sends : craftTx(s) => version'[s] = 1
    BY DEF craftTx, SendTypes
  <2>3. \A s \in Sends : /\ pc'[s] \in {"idle", "craft"} => version'[s] = 0
                         /\ pc'[s] \in {"loop", "bump"} => version'[s] >= 1
    BY <1>1, <2>2, PhaseChanges DEF VersionsMade
  <2> QED
    BY <1>1, <2>1, <2>3 DEF VersionsMade
<1>2. ASSUME NEW s \in Sends, craftTx(s) PROVE VersionsMade'
  <2>1. /\ <<s, 1>> \in Versions /\ version[s] = 0 /\ version' = [version EXCEPT ![s] = 1]
        /\ \A w \in Made : w[1] # s /\ txNonce'[w] = txNonce[w]
        /\ \A w \in Versions : w[1] = s /\ w[2] <= 1 => w = <<s, 1>>
        /\ Made' = Made \cup {<<s, 1>>}
    BY <1>2, CraftFacts
  <2>2. version'[s] = 1 /\ \A r \in Sends : r # s => version'[r] = version[r]
    BY <2>1 DEF SendTypes
  <2>3. \A w \in Versions : w \in Made' <=> w[2] <= version'[w[1]]
    <3> SUFFICES ASSUME NEW w \in Versions PROVE w \in Made' <=> w[2] <= version'[w[1]]
      OBVIOUS
    <3>1. CASE w[1] = s
      BY <2>1, <2>2, <3>1
    <3>2. CASE w[1] # s
      BY <2>1, <2>2, <3>2, VersionFacts DEF VersionsMade
    <3> QED
      BY <3>1, <3>2
  <2>4. \A v, w \in Made' : v[1] = w[1] => txNonce'[v] = txNonce'[w]
    BY <2>1 DEF VersionsMade
  <2>5. \A r \in Sends : /\ pc'[r] \in {"idle", "craft"} => version'[r] = 0
                         /\ pc'[r] \in {"loop", "bump"} => version'[r] >= 1
    <3>1. pc'[s] = "loop" /\ \A r \in Sends : r # s => pc'[r] = pc[r]
      BY <1>2 DEF craftTx, SendTypes
    <3> QED
      BY <2>2, <3>1 DEF VersionsMade
  <2> QED
    BY <2>3, <2>4, <2>5 DEF VersionsMade
<1>3. ASSUME NEW s \in Sends, increaseGasPrice(s) PROVE VersionsMade'
  <2>1. PICK v \in Nat :
          /\ <<s, v>> \in Versions /\ version[s] <= v /\ v <= version[s] + 1
          /\ version' = [version EXCEPT ![s] = v]
          /\ <<s, version[s]>> \in Made /\ txNonce'[<<s, v>>] = txNonce[<<s, version[s]>>]
          /\ \A w \in Made : txNonce'[w] = txNonce[w]
          /\ Made' = Made \cup {<<s, v>>}
    BY <1>3, BumpFacts
  <2>2. version'[s] = v /\ version[s] \in Nat /\ \A r \in Sends : r # s => version'[r] = version[r]
    BY <2>1 DEF SendTypes
  <2>3. \A w \in Versions : w \in Made' <=> w[2] <= version'[w[1]]
    <3> SUFFICES ASSUME NEW w \in Versions PROVE w \in Made' <=> w[2] <= version'[w[1]]
      OBVIOUS
    <3>1. CASE w[1] = s
      <4>1. w = <<s, w[2]>> /\ w[2] \in Nat
        BY <3>1, VersionFacts
      <4>2. w \in Made <=> w[2] <= version[s]
        BY <3>1 DEF VersionsMade
      <4>3. w \in Made' <=> w \in Made \/ w[2] = v
        BY <2>1, <4>1
      <4>4. w[2] <= v <=> w[2] <= version[s] \/ w[2] = v
        BY <2>1, <2>2, <4>1
      <4> QED
        BY <2>2, <3>1, <4>2, <4>3, <4>4
    <3>2. CASE w[1] # s
      <4>1. w # <<s, v>> /\ w[1] \in Sends
        BY <3>2, VersionFacts
      <4> QED
        BY <2>1, <2>2, <3>2, <4>1 DEF VersionsMade
    <3> QED
      BY <3>1, <3>2
  <2>4. \A w \in Made' : w[1] = s => txNonce'[w] = txNonce[<<s, version[s]>>]
    BY <2>1 DEF VersionsMade
  <2>5. \A w \in Made' : w[1] # s => w \in Made
    BY <2>1
  <2>6. \A x, w \in Made' : x[1] = w[1] => txNonce'[x] = txNonce'[w]
    <3> SUFFICES ASSUME NEW x \in Made', NEW w \in Made', x[1] = w[1] PROVE txNonce'[x] = txNonce'[w]
      OBVIOUS
    <3>1. CASE x[1] = s
      BY <2>4, <3>1
    <3>2. CASE x[1] # s
      BY <2>1, <2>5, <3>2 DEF VersionsMade
    <3> QED
      BY <3>1, <3>2
  <2>7. \A r \in Sends : /\ pc'[r] \in {"idle", "craft"} => version'[r] = 0
                         /\ pc'[r] \in {"loop", "bump"} => version'[r] >= 1
    <3>1. pc'[s] = "loop" /\ \A r \in Sends : r # s => pc'[r] = pc[r]
      BY <1>3 DEF increaseGasPrice, SendTypes
    <3>2. v >= 1
      BY <2>1, VersionFacts
    <3> QED
      BY <2>2, <3>1, <3>2 DEF VersionsMade
  <2> QED
    BY <2>3, <2>6, <2>7 DEF VersionsMade
<1> QED
  BY <1>1, <1>2, <1>3, NonceChanges

(***************************************************************************)
(* Every step keeps to what was made.                                      *)
(***************************************************************************)
LEMMA OnlyMadeStep ==
  ASSUME SendTypes, ChainTypes, VersionsMade, OnlyMade, [Next]_vars
  PROVE  OnlyMade'
<1>1. Made \in SUBSET Made' /\ Made \in SUBSET Versions
  BY MadeStays DEF Made
<1>2. OnChain' \in SUBSET Made'
  <2>1. CASE UNCHANGED <<recent, final, torn>>
    BY <1>1, <2>1 DEF OnlyMade, OnChain
  <2>2. CASE (\E w \in Versions : Mine(w)) \/ MineEmpty \/ Reorg
    <3>1. PICK blocks, kept : L1Step(blocks, kept)
      BY <2>2, L1StepFacts
    <3>3. OnChain' = UpTo(final', recent', Len(recent')) /\ Len(recent') \in 0 .. Len(recent')
      BY <3>1, L1StepTypes
    <3>4. \A j \in 0 .. Len(recent) : UpTo(final, recent, j) \in SUBSET OnChain
      BY OnChainFacts DEF UpTo, ChainTypes
    <3>5. \/ OnChain' \in SUBSET OnChain
          \/ \E w \in mempool \cap Versions : OnChain' = OnChain \cup {w}
      BY <3>1, <3>3, <3>4, L1StepPrefix
    <3> QED
      BY <1>1, <3>5 DEF OnlyMade
  <2> QED
    BY <2>1, <2>2, ChainChanges
<1>3. publishing' \in SUBSET Made'
  <2>1. ASSUME NEW s \in Sends, craftTx(s) PROVE publishing' \in SUBSET Made'
    <3>1. publishing' = publishing \cup {<<s, 1>>}
      BY <2>1 DEF craftTx
    <3>2. Made' = Made \cup {<<s, 1>>}
      BY <2>1, CraftFacts
    <3> QED
      BY <3>1, <3>2 DEF OnlyMade
  <2>2. ASSUME NEW s \in Sends, increaseGasPrice(s) PROVE publishing' \in SUBSET Made'
    <3>1. PICK v \in Nat : Made' = Made \cup {<<s, v>>} /\ version' = [version EXCEPT ![s] = v]
      BY <2>2, BumpFacts
    <3>2. publishing' = publishing \cup {<<s, version'[s]>>} /\ version'[s] = v
      BY <2>2, <3>1 DEF increaseGasPrice, SendTypes
    <3> QED
      BY <1>1, <3>1, <3>2 DEF OnlyMade
  <2>3. CASE publishing' \in SUBSET publishing
    BY <1>1, <2>3 DEF OnlyMade
  <2> QED
    BY <2>1, <2>2, <2>3
    DEF Next, SendStep, WorkerStep, QueueSend, craftTxFails, craftTxGivesUp, CtxDone, ReturnError,
        Abort, Fail, EndState, Tick, NoBump, Return, Publish, PublishFails, ReadReceipt, ReadTip,
        Mine, MineEmpty, Reorg, vars, workerVars
<1>4. mempool' \in SUBSET Made' /\ torn' \in SUBSET Made'
  <2>1. CASE Reorg
    <3>1. PICK d \in 1 .. NumConfirmations - 1 :
            LET kept == Len(recent) - d
                dropped == ToSet(SubSeq(recent, kept + 1, Len(recent))) \ {NoTx}
            IN /\ kept >= 0
               /\ mempool' = mempool \cup dropped
               /\ torn' = torn \cup {w \in dropped : worker[w] = "read"}
      BY <2>1 DEF Reorg
    <3> DEFINE kept == Len(recent) - d
               dropped == ToSet(SubSeq(recent, kept + 1, Len(recent))) \ {NoTx}
    <3>2. recent \in Seq(Versions \cup {NoTx}) /\ kept \in 0 .. Len(recent)
      BY <3>1 DEF ChainTypes
    <3>3. dropped \in SUBSET OnChain
      <4> DEFINE tail == SubSeq(recent, kept + 1, Len(recent))
      <4> HIDE DEF kept
      <4>1. /\ tail \in Seq(Versions \cup {NoTx}) /\ Len(tail) = Len(recent) - kept
            /\ \A i \in 1 .. Len(recent) - kept : tail[i] = recent[i + kept] /\ i + kept \in 1 .. Len(recent)
        BY <3>2, SubSeqFacts
      <4>2. DOMAIN recent = 1 .. Len(recent) /\ DOMAIN tail = 1 .. Len(recent) - kept
        BY <3>2, <4>1
      <4> HIDE DEF tail
      <4>3. ToSet(tail) \in SUBSET ToSet(recent)
        BY <4>1, <4>2 DEF ToSet
      <4> QED
        BY <4>3 DEF OnChain, tail
    <3>4. mempool' = mempool \cup dropped /\ torn' = torn \cup {w \in dropped : worker[w] = "read"}
      BY <3>1
    <3> HIDE DEF dropped
    <3> QED
      BY <1>1, <3>3, <3>4 DEF OnlyMade
  <2>2. ASSUME NEW w \in Versions, Publish(w) \/ PublishFails(w)
        PROVE  mempool' \in SUBSET Made' /\ torn' \in SUBSET Made'
    BY <1>1, <2>2
    DEF Publish, PublishTooLow, PublishAccepted, PublishRefused, PublishFails, OnlyMade
  <2>3. CASE mempool' \in SUBSET mempool /\ torn' = torn
    BY <1>1, <2>3 DEF OnlyMade
  <2> QED
    BY <2>1, <2>2, <2>3
    DEF Next, SendStep, WorkerStep, QueueSend, craftTx, craftTxFails, craftTxGivesUp, CtxDone,
        ReturnError, Abort, Fail, Tick, increaseGasPrice, NoBump, Return, ReadReceipt, ReadTip,
        Mine, MineEmpty, vars, chainVars
<1>5. /\ worker' \in [Versions -> {"none", "poll", "read"}]
      /\ \A w \in Versions : worker'[w] # "none" => w \in Made'
  <2>1. ASSUME NEW v \in Versions, WorkerStep(v)
        PROVE  /\ worker' \in [Versions -> {"none", "poll", "read"}]
               /\ \A w \in Versions : worker'[w] # "none" => w \in Made'
    BY <1>1, <2>1
    DEF WorkerStep, Publish, PublishTooLow, PublishAccepted, PublishRefused, PublishFails,
        ReadReceipt, ReadTip, OnlyMade
  <2>2. ASSUME NEW s \in Sends, EndState(s)
        PROVE  /\ worker' \in [Versions -> {"none", "poll", "read"}]
               /\ \A w \in Versions : worker'[w] # "none" => w \in Made'
    BY <1>1, <2>2 DEF EndState, OnlyMade
  <2>3. CASE UNCHANGED worker
    BY <1>1, <2>3 DEF OnlyMade
  <2> QED
    BY <2>1, <2>2, <2>3
    DEF Next, SendStep, QueueSend, craftTx, craftTxFails, craftTxGivesUp, CtxDone, ReturnError,
        Abort, Fail, Tick, increaseGasPrice, NoBump, Return, Mine, MineEmpty, Reorg, vars, workerVars
<1>6. /\ minedTxs' \in [Sends -> SUBSET Made'] /\ receiptChan' \in [Sends -> SUBSET Made']
      /\ \A s \in Sends : \A w \in minedTxs'[s] \cup receiptChan'[s] : w[1] = s
  <2>1. ASSUME NEW v \in Versions, ReadReceipt(v) \/ ReadTip(v)
        PROVE  /\ minedTxs' \in [Sends -> SUBSET Made'] /\ receiptChan' \in [Sends -> SUBSET Made']
               /\ \A s \in Sends : \A w \in minedTxs'[s] \cup receiptChan'[s] : w[1] = s
    <3>1. v \in Made /\ v[1] \in Sends
      BY <2>1, VersionFacts DEF ReadReceipt, ReadTip, OnlyMade
    <3>2. CASE ReadReceipt(v)
      <4>1. receiptChan' = receiptChan
        BY <3>2 DEF ReadReceipt, sendVars
      <4>2. \/ minedTxs' = [minedTxs EXCEPT ![v[1]] = @ \cup {v}]
            \/ minedTxs' = [minedTxs EXCEPT ![v[1]] = @ \ {v}]
        BY <3>2 DEF ReadReceipt, TxNotMined
      <4> QED
        BY <1>1, <3>1, <4>1, <4>2 DEF OnlyMade
    <3>3. CASE ReadTip(v)
      <4>1. minedTxs' = minedTxs
        BY <3>3 DEF ReadTip, stateVars
      <4>2. \/ receiptChan' = [receiptChan EXCEPT ![v[1]] = IF @ = {} THEN {v} ELSE @]
            \/ receiptChan' = receiptChan
        BY <3>3 DEF ReadTip
      <4> QED
        BY <1>1, <3>1, <4>1, <4>2 DEF OnlyMade
    <3> QED
      BY <2>1, <3>2, <3>3
  <2>2. ASSUME NEW r \in Sends, EndState(r), UNCHANGED receiptChan
        PROVE  /\ minedTxs' \in [Sends -> SUBSET Made'] /\ receiptChan' \in [Sends -> SUBSET Made']
               /\ \A s \in Sends : \A w \in minedTxs'[s] \cup receiptChan'[s] : w[1] = s
    BY <1>1, <2>2 DEF EndState, OnlyMade
  <2>3. CASE UNCHANGED <<minedTxs, receiptChan>>
    BY <1>1, <2>3 DEF OnlyMade
  <2> QED
    BY <2>1, <2>2, <2>3
    DEF Next, SendStep, WorkerStep, QueueSend, craftTx, craftTxFails, craftTxGivesUp, CtxDone,
        ReturnError, Abort, Fail, Tick, increaseGasPrice, NoBump, Return, Publish, PublishFails,
        Mine, MineEmpty, Reorg, vars, stateVars, sendVars
<1> QED
  BY <1>2, <1>3, <1>4, <1>5, <1>6 DEF OnlyMade

(***************************************************************************)
(* Until a call fails, every step keeps the nonce the highest one.         *)
(***************************************************************************)
LEMMA NonceHighestStep ==
  ASSUME SendTypes, ChainTypes, VersionsMade, NonceHighest, [Next]_vars
  PROVE  NonceHighest'
<1> SUFFICES ASSUME NoFailure'
             PROVE  /\ \A w \in Made' : nonce' # Nil /\ txNonce'[w] <= nonce'
                    /\ \A v, w \in Made' : txNonce'[v] = txNonce'[w] => v[1] = w[1]
  BY DEF NonceHighest
<1>1. /\ NoFailure /\ \A w \in Made : nonce # Nil /\ txNonce[w] <= nonce /\ txNonce[w] \in Nat
      /\ \A v, w \in Made : txNonce[v] = txNonce[w] => v[1] = w[1]
  <2>1. NoFailure
    BY PhaseChanges DEF NoFailure
  <2> QED
    BY <2>1 DEF NonceHighest, Made, SendTypes
<1>2. nonce \in Nat \cup {Nil}
  BY DEF SendTypes
<1>3. ASSUME NEW s \in Sends, craftTx(s)
      PROVE  /\ \A w \in Made' : nonce' # Nil /\ txNonce'[w] <= nonce'
             /\ \A v, w \in Made' : txNonce'[v] = txNonce'[w] => v[1] = w[1]
  <2>1. /\ <<s, 1>> \in Versions /\ txNonce' = [txNonce EXCEPT ![<<s, 1>>] = nextNonce]
        /\ nextNonce \in Nat /\ \A w \in Made : txNonce'[w] = txNonce[w]
        /\ Made' = Made \cup {<<s, 1>>}
    BY <1>3, CraftFacts
  <2>2. nonce' = nextNonce /\ txNonce'[<<s, 1>>] = nextNonce
    BY <1>3, <2>1 DEF craftTx, SendTypes
  <2>3. \A w \in Made : txNonce[w] < nextNonce
    BY <1>1, <1>2, NextNonceFacts DEF Nil
  <2>4. nonce' # Nil
    BY <2>1, <2>2, VersionFacts
  <2>5. \A w \in Made' : w = <<s, 1>> \/ (w \in Made /\ txNonce'[w] < nextNonce)
    BY <2>1, <2>3
  <2> QED
    BY <1>1, <2>1, <2>2, <2>4, <2>5
<1>4. ASSUME NEW s \in Sends, increaseGasPrice(s)
      PROVE  /\ \A w \in Made' : nonce' # Nil /\ txNonce'[w] <= nonce'
             /\ \A v, w \in Made' : txNonce'[v] = txNonce'[w] => v[1] = w[1]
  <2>1. PICK v \in Nat :
          /\ <<s, version[s]>> \in Made /\ txNonce'[<<s, v>>] = txNonce[<<s, version[s]>>]
          /\ \A w \in Made : txNonce'[w] = txNonce[w]
          /\ Made' = Made \cup {<<s, v>>}
    BY <1>4, BumpFacts
  <2>2. nonce' = nonce
    BY <1>4 DEF increaseGasPrice, mgrVars
  <2>3. \A w \in Made' : \E x \in Made : x[1] = w[1] /\ txNonce'[w] = txNonce[x]
    <3>1. <<s, version[s]>>[1] = s /\ <<s, v>>[1] = s
      OBVIOUS
    <3> QED
      BY <2>1, <3>1
  <2> QED
    BY <1>1, <2>2, <2>3
<1>5. CASE UNCHANGED <<txNonce, version>>
  <2>1. Made' = Made
    BY <1>5 DEF Made
  <2>2. CASE nonce' = nonce
    BY <1>1, <1>5, <2>1, <2>2
  <2>3. ASSUME NEW s \in Sends, craftTxFails(s) PROVE nonce' = nextNonce
    BY <2>3 DEF craftTxFails
  <2>4. CASE nonce' = nextNonce
    <3>1. \A w \in Made : txNonce[w] <= nextNonce /\ nextNonce # Nil
      BY <1>1, <1>2, NextNonceFacts, VersionFacts DEF Nil
    <3> QED
      BY <1>1, <1>5, <2>1, <2>4, <3>1
  <2>5. ASSUME NEW s \in Sends, Fail(s) PROVE FALSE
    BY <2>5 DEF Fail, NoFailure, SendTypes
  <2>6. ASSUME NEW s \in Sends, craftTx(s) PROVE nonce' = nextNonce
    BY <2>6 DEF craftTx
  <2> QED
    BY <2>2, <2>3, <2>4, <2>5, <2>6
    DEF Next, SendStep, WorkerStep, QueueSend, craftTxGivesUp, CtxDone, ReturnError, Abort, Tick,
        increaseGasPrice, NoBump, Return, Publish, PublishFails, ReadReceipt, ReadTip, Mine,
        MineEmpty, Reorg, vars, mgrVars
<1> QED
  BY <1>3, <1>4, <1>5, NonceChanges

(***************************************************************************)
(* Every step keeps the nonces on L1 distinct and below their number.      *)
(***************************************************************************)
LEMMA ChainNoncesStep ==
  ASSUME SendTypes, ChainTypes, VersionsMade, OnlyMade, ChainNonces, [Next]_vars
  PROVE  ChainNonces'
<1>1. /\ Len(recent) \in Nat /\ OnChain = UpTo(final, recent, Len(recent))
      /\ OnChain \in SUBSET Made /\ \A w \in Made : txNonce'[w] = txNonce[w]
      /\ IsFiniteSet(OnChain) /\ NonceAt = Cardinality(OnChain) /\ NonceAt \in Nat
      /\ \A w \in OnChain : txNonce[w] \in Nat
  BY OnChainFacts, MadeStays DEF ChainTypes, OnlyMade, Made, SendTypes
<1>2. \A k \in 0 .. Len(recent) : UpTo(final, recent, k) \in SUBSET OnChain
  BY <1>1 DEF UpTo
<1>3. ASSUME NEW T \in SUBSET OnChain, Below(T) PROVE Below(T)'
  BY <1>1, <1>3 DEF Below
<1>4. CASE UNCHANGED <<recent, final, torn>>
  <2>1. \A k \in 0 .. Len(recent) : Below(UpTo(final, recent, k))'
    <3> SUFFICES ASSUME NEW k \in 0 .. Len(recent) PROVE Below(UpTo(final, recent, k))'
      OBVIOUS
    <3>1. UpTo(final', recent', k) = UpTo(final, recent, k)
      BY <1>4 DEF UpTo
    <3>2. \A w \in UpTo(final, recent, k) : txNonce'[w] < Cardinality(UpTo(final, recent, k))
      BY <1>1, <1>2 DEF ChainNonces, Below
    <3> QED
      BY <3>1, <3>2 DEF Below
  <2>2. OnChain' = OnChain
    BY <1>4 DEF OnChain
  <2> QED
    BY <1>1, <1>4, <2>1, <2>2 DEF ChainNonces
<1>5. CASE (\E w \in Versions : Mine(w)) \/ MineEmpty \/ Reorg
  <2>1. PICK blocks, kept : L1Step(blocks, kept)
    BY <1>5, L1StepFacts
  <2>2. txNonce' = txNonce
    BY <2>1 DEF L1Step, sendVars
  <2>4. OnChain' = UpTo(final', recent', Len(recent')) /\ Len(recent') \in 0 .. Len(recent')
    BY <2>1, L1StepTypes
  <2>5. \A w \in OnChain : txNonce[w] < NonceAt
    <3>1. Len(recent) \in 0 .. Len(recent)
      BY <1>1
    <3> QED
      BY <1>1, <3>1 DEF ChainNonces, Below
  <2>6. ASSUME NEW k \in 0 .. Len(recent')
        PROVE  /\ \A w \in UpTo(final', recent', k) : txNonce[w] < Cardinality(UpTo(final', recent', k))
               /\ \A v, w \in UpTo(final', recent', k) : txNonce[v] = txNonce[w] => v = w
    <3>1. CASE \E j \in 0 .. Len(recent) : UpTo(final', recent', k) = UpTo(final, recent, j)
      BY <1>2, <3>1 DEF ChainNonces, Below
    <3>2. CASE \E w \in mempool \cap Versions :
                 txNonce[w] = NonceAt /\ UpTo(final', recent', k) = OnChain \cup {w}
      <4>1. PICK w : txNonce[w] = NonceAt /\ UpTo(final', recent', k) = OnChain \cup {w}
        BY <3>2
      <4>2. w \notin OnChain
        BY <1>1, <2>5, <4>1
      <4>3. Cardinality(OnChain \cup {w}) = NonceAt + 1
        BY <1>1, <4>2, FS_AddElement
      <4>4. \A x \in OnChain \cup {w} : txNonce[x] < NonceAt + 1
        BY <1>1, <2>5, <4>1
      <4>5. \A x, y \in OnChain \cup {w} : txNonce[x] = txNonce[y] => x = y
        BY <1>1, <2>5, <4>1 DEF ChainNonces
      <4> QED
        BY <4>1, <4>3, <4>4, <4>5
    <3> QED
      BY <2>1, <3>1, <3>2, L1StepPrefix
  <2>7. \A k \in 0 .. Len(recent') : Below(UpTo(final, recent, k))'
    BY <2>2, <2>6 DEF Below
  <2>8. \A v, w \in OnChain' : txNonce'[v] = txNonce'[w] => v = w
    BY <2>2, <2>4, <2>6
  <2> QED
    BY <2>7, <2>8 DEF ChainNonces
<1> QED
  BY <1>4, <1>5, ChainChanges

(***************************************************************************)
(* Every step keeps the confirmations that were counted.                   *)
(***************************************************************************)
LEMMA ReceiptsDeepStep ==
  ASSUME SendTypes, ChainTypes, OnlyMade, ReceiptsDeep, [Next]_vars
  PROVE  ReceiptsDeep'
<1>1. /\ \A w \in Versions : confs[w] \in Nat /\ confs[w] <= NumConfirmations
      /\ NumConfirmations \in Nat /\ Len(recent) \in Nat
  BY VersionFacts DEF ChainTypes
<1>2. /\ \A w \in Versions : worker[w] = "read" /\ w \notin torn => DeepIn(final, recent, w, confs[w])
      /\ \A s \in Sends : \A w \in receiptChan[s] :
           w \in Versions /\ (w \in torn \/ DeepIn(final, recent, w, NumConfirmations))
  BY DEF ReceiptsDeep, Deep, OnlyMade, Made
<1> SUFFICES
      /\ \A w \in Versions :
           worker'[w] = "read" /\ w \notin torn' => DeepIn(final', recent', w, confs'[w])
      /\ \A s \in Sends : \A w \in receiptChan'[s] :
           w \in torn' \/ DeepIn(final', recent', w, NumConfirmations)
  BY DEF ReceiptsDeep, Deep
<1>3. CASE (\E w \in Versions : Mine(w)) \/ MineEmpty \/ Reorg
  <2>1. PICK blocks, kept : L1Step(blocks, kept)
    BY <1>3, L1StepFacts
  <2>2. /\ kept \in 0 .. Len(recent) /\ kept > Len(recent) - NumConfirmations
        /\ torn \in SUBSET torn' /\ TipAdvances /\ worker' = worker /\ receiptChan' = receiptChan
        /\ \A i \in kept + 1 .. Len(recent) :
             recent[i] # NoTx /\ worker[recent[i]] = "read" => recent[i] \in torn'
    BY <2>1 DEF L1Step, sendVars
  <2>3. Len(recent') \in Nat
    BY <2>1, L1StepTypes
  <2>4. ASSUME NEW w \in Versions, worker'[w] = "read", w \notin torn'
        PROVE  DeepIn(final', recent', w, confs'[w])
    <3>1. worker[w] = "read" /\ w \notin torn /\ DeepIn(final, recent, w, confs[w]) /\ w # NoTx
      BY <1>2, <2>2, <2>4, VersionFacts
    <3>2. w \in final \/ \E i \in 1 .. kept : recent[i] = w /\ confs[w] <= (Len(recent) + 1) - i
      <4>1. ASSUME NEW i \in 1 .. Len(recent), recent[i] = w PROVE i \in 1 .. kept
        <5>1. ~(i \in kept + 1 .. Len(recent))
          BY <2>2, <2>4, <3>1, <4>1
        <5> QED
          BY <1>1, <2>2, <5>1
      <4> QED
        BY <3>1, <4>1 DEF DeepIn
    <3>3. confs[w] \in Nat /\ confs'[w] \in Nat /\ confs'[w] <= confs[w] + 1
      BY <1>1, <2>2 DEF TipAdvances
    <3>4. DeepIn(final', recent', w, confs[w] + 1)
      BY <2>1, <3>2, <3>3, L1StepDeep
    <3> QED
      BY <2>3, <3>3, <3>4 DEF DeepIn
  <2>5. ASSUME NEW s \in Sends, NEW w \in receiptChan'[s], w \notin torn'
        PROVE  DeepIn(final', recent', w, NumConfirmations)
    <3>1. w \in Versions /\ DeepIn(final, recent, w, NumConfirmations)
      BY <1>2, <2>2, <2>5
    <3>2. w \in final \/ \E i \in 1 .. kept : recent[i] = w /\ NumConfirmations <= (Len(recent) + 1) - i
      BY <1>1, <2>2, <3>1 DEF DeepIn
    <3>3. DeepIn(final', recent', w, NumConfirmations + 1)
      BY <1>1, <2>1, <3>1, <3>2, L1StepDeep
    <3> QED
      BY <1>1, <2>3, <3>3 DEF DeepIn
  <2> QED
    BY <2>4, <2>5
<1>4. CASE /\ UNCHANGED <<recent, final, torn>>
           /\ ~((\E w \in Versions : Mine(w)) \/ MineEmpty \/ Reorg)
  <2> DEFINE Goal ==
        /\ \A w \in Versions :
             worker'[w] = "read" /\ w \notin torn => DeepIn(final, recent, w, confs'[w])
        /\ \A s \in Sends : \A w \in receiptChan'[s] :
             w \in torn \/ DeepIn(final, recent, w, NumConfirmations)
  <2>1. ASSUME NEW v \in Versions, ReadReceipt(v) PROVE Goal
    <3>1. receiptChan' = receiptChan
      BY <2>1 DEF ReadReceipt, sendVars
    <3>2. CASE v \in OnChain
      <4>1. /\ worker' = [worker EXCEPT ![v] = "read"]
            /\ confs' = [confs EXCEPT ![v] = Confirmations(v)]
        BY <2>1, <3>2 DEF ReadReceipt
      <4>2. DeepIn(final, recent, v, Confirmations(v))
        BY <3>2, ConfirmationsFacts DEF Deep
      <4>3. worker \in [Versions -> {"none", "poll", "read"}] /\ confs \in [Versions -> 0 .. NumConfirmations]
        BY DEF OnlyMade, ChainTypes
      <4>4. /\ confs'[v] = Confirmations(v)
            /\ \A w \in Versions : w # v => worker'[w] = worker[w] /\ confs'[w] = confs[w]
        BY <4>1, <4>3
      <4> QED
        BY <1>2, <3>1, <4>2, <4>4
    <3>3. CASE v \notin OnChain
      BY <1>2, <2>1, <3>1, <3>3 DEF ReadReceipt
    <3> QED
      BY <3>2, <3>3
  <2>2. ASSUME NEW v \in Versions, ReadTip(v) PROVE Goal
    <3>1. worker \in [Versions -> {"none", "poll", "read"}] /\ confs \in [Versions -> 0 .. NumConfirmations]
          /\ receiptChan \in [Sends -> SUBSET Made] /\ v[1] \in Sends
      BY VersionFacts DEF OnlyMade, ChainTypes
    <3>2. \A w \in Versions : worker'[w] = "read" => worker[w] = "read" /\ confs'[w] = confs[w]
      BY <2>2, <3>1 DEF ReadTip
    <3>3. ASSUME NEW s \in Sends, NEW w \in receiptChan'[s]
          PROVE  w \in torn \/ DeepIn(final, recent, w, NumConfirmations)
      <4>1. w \in receiptChan[s] \/ (w = v /\ confs[v] >= NumConfirmations /\ worker[v] = "read")
        BY <2>2, <3>1, <3>3 DEF ReadTip, IsConfirmed
      <4>2. CASE w = v /\ confs[v] >= NumConfirmations /\ worker[v] = "read"
        <5>1. confs[v] = NumConfirmations
          BY <1>1, <4>2
        <5> QED
          BY <1>2, <4>2, <5>1
      <4> QED
        BY <1>2, <4>1, <4>2
    <3> QED
      BY <1>2, <3>2, <3>3
  <2>3. ASSUME NEW s \in Sends, EndState(s), UNCHANGED receiptChan PROVE Goal
    <3>1. \A w \in Versions : worker'[w] = "read" => worker[w] = "read" /\ confs'[w] = confs[w]
      BY <2>3 DEF EndState
    <3> QED
      BY <1>2, <2>3, <3>1
  <2>4. ASSUME NEW v \in Versions, Publish(v) PROVE Goal
    <3>1. UNCHANGED <<receiptChan, confs>>
      BY <2>4 DEF Publish, sendVars
    <3>2. \A w \in Versions : worker'[w] = "read" => worker[w] = "read"
      BY <2>4 DEF Publish, PublishTooLow, PublishAccepted, PublishRefused, OnlyMade
    <3> QED
      BY <1>2, <3>1, <3>2
  <2>5. ASSUME UNCHANGED <<worker, confs, receiptChan>> PROVE Goal
    BY <1>2, <2>5
  <2>6. Goal
    <3> HIDE DEF Goal
    <3> QED
      BY <1>4, <2>1, <2>2, <2>3, <2>4, <2>5
      DEF Next, SendStep, WorkerStep, QueueSend, craftTx, craftTxFails, craftTxGivesUp, CtxDone,
          ReturnError, Abort, Fail, Tick, increaseGasPrice, NoBump, Return, PublishFails,
          vars, sendVars, workerVars
  <2> QED
    BY <1>4, <2>6
<1> QED
  BY <1>3, <1>4, ChainChanges

(***************************************************************************)
(* The initial states satisfy the invariant.                               *)
(***************************************************************************)
LEMMA TxMgrInitInv ==
  ASSUME TxMgrInit
  PROVE  TxMgrInv
<1>1. SendTypes
  <2>1. \A s \in Sends : version[s] <= MaxVersions[s]
    <3>1. \A s \in Sends : version[s] = 0
      BY DEF TxMgrInit
    <3> QED
      BY <3>1, VersionFacts
  <2>2. nonce \in Nat \cup {Nil} /\ groupErr \in BOOLEAN /\ pc \in [Sends -> Phases]
    BY DEF TxMgrInit, Phases
  <2>3. txNonce \in [Versions -> Nat \cup {Nil}]
    <3>1. Nil \in Nat \cup {Nil} /\ txNonce = [w \in Versions |-> Nil]
      BY DEF TxMgrInit
    <3> HIDE DEF Nil, Versions
    <3> QED
      BY <3>1
  <2>4. version \in [Sends -> Nat]
    BY DEF TxMgrInit
  <2> QED
    BY <2>1, <2>2, <2>3, <2>4 DEF SendTypes
<1>2. recent = <<>> /\ final = {} /\ Made = {} /\ torn = {}
  BY DEF TxMgrInit, Made
<1>3. ChainTypes
  <2>1. recent \in Seq(Versions \cup {NoTx}) /\ Len(recent) = 0
    BY <1>2
  <2>2. confs \in [Versions -> 0 .. NumConfirmations]
    BY VersionFacts DEF TxMgrInit
  <2> QED
    BY <1>2, <2>1, <2>2, FS_EmptySet, VersionFacts DEF ChainTypes
<1>4. VersionsMade
  <2>1. ASSUME NEW w \in Versions PROVE w \notin Made /\ ~(w[2] <= version[w[1]])
    BY <1>2, VersionFacts DEF TxMgrInit
  <2> QED
    BY <1>2, <2>1 DEF VersionsMade, TxMgrInit
<1>5. OnChain = {}
  BY <1>2 DEF OnChain, ToSet
<1>6. OnlyMade
  BY <1>2, <1>5 DEF OnlyMade, TxMgrInit
<1>7. NonceHighest
  BY <1>2 DEF NonceHighest
<1>8. ChainNonces
  <2>1. ASSUME NEW k \in 0 .. Len(recent) PROVE UpTo(final, recent, k) = {}
    <3>1. k = 0
      BY <1>2
    <3> QED
      BY <1>2, <3>1 DEF UpTo
  <2> QED
    BY <1>5, <2>1 DEF ChainNonces, Below
<1>9. ReceiptsDeep
  BY DEF ReceiptsDeep, TxMgrInit
<1> QED
  BY <1>1, <1>3, <1>4, <1>6, <1>7, <1>8, <1>9 DEF TxMgrInv

(***************************************************************************)
(* Every step keeps the invariant.                                         *)
(***************************************************************************)
LEMMA TxMgrInvInductive ==
  ASSUME TxMgrInv, [Next]_vars
  PROVE  TxMgrInv'
BY SendTypesStep, ChainTypesStep, VersionsMadeStep, OnlyMadeStep, NonceHighestStep,
   ChainNoncesStep, ReceiptsDeepStep
DEF TxMgrInv

(***************************************************************************)
(* The inductive invariant holds in every state of every behaviour.        *)
(***************************************************************************)
THEOREM TxMgrInvHolds == Spec => []TxMgrInv
<1>1. TxMgrInit => TxMgrInv
  BY TxMgrInitInv
<1>2. TxMgrInv /\ [Next]_vars => TxMgrInv'
  BY TxMgrInvInductive
<1> QED
  BY <1>1, <1>2, PTL DEF Spec

(***************************************************************************)
(* The state of the transaction manager is always well typed: in           *)
(* particular, L1 holds and the goroutines publish and poll for nothing    *)
(* but versions that a call of Send has crafted, and a receipt goes only   *)
(* to the call whose version it is for (publishAndWaitForTx).              *)
(***************************************************************************)
THEOREM TxMgrTypeCorrect == Spec => []TxMgrTypeOK
<1>1. TxMgrInv => TxMgrTypeOK
  <2> SUFFICES ASSUME TxMgrInv PROVE TxMgrTypeOK
    OBVIOUS
  <2>1. SendTypes /\ ChainTypes /\ VersionsMade /\ OnlyMade
    BY DEF TxMgrInv
  <2>2. \A s \in Sends : version[s] \in 0 .. MaxVersions[s]
    BY <2>1, VersionFacts DEF SendTypes
  <2>3. ASSUME NEW s \in Sends
        PROVE  minedTxs[s] \cup receiptChan[s] \subseteq {<<s, v>> : v \in 1 .. version[s]}
    <3> SUFFICES ASSUME NEW w \in minedTxs[s] \cup receiptChan[s]
                 PROVE  w \in {<<s, v>> : v \in 1 .. version[s]}
      OBVIOUS
    <3>1. w \in Made /\ w \in Versions /\ w[1] = s
      BY <2>1 DEF OnlyMade, Made
    <3>2. w = <<s, w[2]>> /\ w[2] \in Nat /\ 1 <= w[2]
      BY <3>1, VersionFacts
    <3>3. w[2] <= version[s] /\ version[s] \in Nat
      BY <2>1, <3>1 DEF VersionsMade, SendTypes
    <3>4. w[2] \in 1 .. version[s]
      BY <3>2, <3>3
    <3> QED
      BY <3>2, <3>4
  <2>4. publishing \cup mempool \cup OnChain \cup torn \subseteq {w \in Versions : txNonce[w] # Nil}
    BY <2>1 DEF OnlyMade, Made
  <2>5. /\ nonce \in Nat \cup {Nil} /\ groupErr \in BOOLEAN
        /\ pc \in [Sends -> {"idle", "craft", "loop", "bump", "failing", "failed", "done"}]
        /\ Len(recent) <= NumConfirmations
        /\ \A w \in Versions : confs[w] \in 0 .. NumConfirmations
    BY <2>1 DEF SendTypes, ChainTypes, Phases
  <2> QED
    BY <2>2, <2>3, <2>4, <2>5 DEF TxMgrTypeOK
<1> QED
  BY <1>1, TxMgrInvHolds, PTL

(***************************************************************************)
(* A call of Send puts its candidate on L1 at most once, whatever it bumps *)
(* or publishes again and whatever L1 reorgs: its versions have one nonce  *)
(* (increaseGasPrice keeps it), and L1 takes each nonce of the account     *)
(* once.                                                                   *)
(***************************************************************************)
THEOREM TxMgrIncludedOnce == Spec => []IncludedOnce
<1>1. TxMgrInv => IncludedOnce
  <2> SUFFICES ASSUME TxMgrInv, NEW s \in Sends
               PROVE  Cardinality({w \in OnChain : w[1] = s}) <= 1
    BY DEF IncludedOnce
  <2> DEFINE own == {w \in OnChain : w[1] = s}
  <2>1. \A v, w \in own : v = w
    BY DEF TxMgrInv, OnlyMade, VersionsMade, ChainNonces
  <2>2. own = {} \/ \E w : own = {w}
    BY <2>1
  <2>3. CASE own = {}
    <3>1. Cardinality(own) = 0
      BY <2>3, FS_EmptySet
    <3> QED
      BY <3>1
  <2>4. CASE \E w : own = {w}
    <3>1. Cardinality(own) = 1
      BY <2>4, FS_Singleton
    <3> QED
      BY <3>1
  <2> QED
    BY <2>2, <2>3, <2>4
<1> QED
  BY <1>1, TxMgrInvHolds, PTL

(***************************************************************************)
(* As long as no call of Send has failed, no two calls have the same       *)
(* nonce, in whichever order they craft, bump and retry (nextNonce under   *)
(* nonceLock).                                                             *)
(***************************************************************************)
THEOREM TxMgrNoncesDistinct == Spec => []NoncesDistinct
<1>1. TxMgrInv => NoncesDistinct
  <2> SUFFICES ASSUME TxMgrInv, \A s \in Sends : pc[s] \notin {"failing", "failed"},
                      NEW v \in Versions, NEW w \in Versions,
                      txNonce[v] # Nil, txNonce[v] = txNonce[w]
               PROVE  v[1] = w[1]
    BY DEF NoncesDistinct
  <2>1. v \in Made /\ w \in Made
    BY DEF Made
  <2> QED
    BY <2>1 DEF TxMgrInv, NonceHighest, NoFailure
<1> QED
  BY <1>1, TxMgrInvHolds, PTL

(***************************************************************************)
(* A receipt that Send returns is for a version of its own candidate that  *)
(* no reorg within the confirmation depth can take off L1, unless a reorg  *)
(* dropped it between the two reads of queryReceipt.                       *)
(***************************************************************************)
THEOREM TxMgrReceiptStays == Spec => []ReceiptStays
<1>1. TxMgrInv => ReceiptStays
  <2> SUFFICES ASSUME TxMgrInv, NEW s \in Sends, NEW w \in receiptChan[s]
               PROVE  w[1] = s /\ (w \in OnChain \/ w \in torn)
    BY DEF ReceiptStays
  <2>1. w[1] = s /\ w \in Versions /\ (w \in torn \/ DeepIn(final, recent, w, NumConfirmations))
    BY DEF TxMgrInv, OnlyMade, Made, ReceiptsDeep, Deep
  <2>2. w # NoTx /\ DOMAIN recent = 1 .. Len(recent)
    BY <2>1, VersionFacts DEF TxMgrInv, ChainTypes
  <2>3. DeepIn(final, recent, w, NumConfirmations) => w \in OnChain
    BY <2>2 DEF DeepIn, OnChain, ToSet
  <2> QED
    BY <2>1, <2>3
<1> QED
  BY <1>1, TxMgrInvHolds, PTL
=============================================================================
