-------------------------- MODULE BatchQueueProofs --------------------------
(***************************************************************************)
(* Proofs about the batch queue and the attributes queue, for every L1     *)
(* chain, every set of batches, every window, drift and channel timeout.   *)
(***************************************************************************)
EXTENDS BatchQueue, SequenceTheorems, WellFoundedInduction, TLAPS

L1Top == 0 .. DC!Head1
Block == [epoch : DC!Epochs, content : DC!Contents]
Buffered == [batch : BatchSet, included : Nat]
Queue == [origin : Nat, l1Blocks : Seq(Nat), batches : [Times -> Seq(Buffered)]]

(***************************************************************************)
(* The full types.                                                         *)
(***************************************************************************)
ChainTypes ==
  /\ l1 \in Seq(Seq(BatchSet)) /\ l1 # << >> /\ DC!Head1 \in DC!L1Numbers
  /\ safe \in Seq(Block)
  /\ prevOrigin \in L1Top /\ prevRead \in 0 .. Len(l1[prevOrigin + 1])
  /\ needReset \in BOOLEAN /\ resets \in 0 .. MaxResets

QueueTypes ==
  /\ bq \in Queue
  /\ aqBatch \in {NoBatch} \cup DC!Batch /\ safeAttrs \in {NoBatch} \cup DC!Batch

(***************************************************************************)
(* A gapless run of L1 blocks up to block n.                               *)
(***************************************************************************)
IsRun(bs, n) == bs \in Seq(Nat) /\ bs # << >>
                /\ Len(bs) <= n + 1 /\ \A i \in 1 .. Len(bs) : bs[i] = n - Len(bs) + i

(***************************************************************************)
(* The batch queue is at the origin of the stages before it, or has not    *)
(* yet taken over the next one.  Its L1 blocks are a gapless run up to its *)
(* own origin that starts at most one after the origin of the safe head,   *)
(* unless the base of a reset was thrown out behind the safe head.         *)
(***************************************************************************)
RunKept ==
  /\ prevOrigin \in {bq.origin, bq.origin + 1}
  /\ \/ bq.l1Blocks = << >> /\ bq.origin < DC!Origin(safe)
     \/ /\ IsRun(bq.l1Blocks, bq.origin)
        /\ ~needReset => Head(bq.l1Blocks) <= DC!Origin(safe) + 1

(***************************************************************************)
(* The attributes in the making, if there are any, fit the safe head and   *)
(* have an L1 origin that was read.                                        *)
(***************************************************************************)
AttributesFit ==
  /\ ~needReset /\ aqBatch # NoBatch => Consistent(aqBatch)
  /\ ~needReset /\ safeAttrs # NoBatch => Consistent(safeAttrs)
  /\ aqBatch = NoBatch \/ safeAttrs = NoBatch

OriginsRead == \A b \in {aqBatch, safeAttrs} \ {NoBatch} : b.epoch <= prevOrigin

(***************************************************************************)
(* The L1 origin of a safe block exists and is not younger than the block. *)
(***************************************************************************)
SafeBlocks ==
  \A i \in 1 .. Len(safe) : safe[i].epoch <= DC!Head1 /\ i * BlockTime >= L1Time[safe[i].epoch]

BQInv == ChainTypes /\ QueueTypes /\ RunKept /\ AttributesFit /\ OriginsRead
         /\ SafeBlocks /\ BufferedInOrder

-----------------------------------------------------------------------------
(***************************************************************************)
(* A non-empty set of numbers has a smallest one.                          *)
(***************************************************************************)
LEMMA SmallestNumber ==
  ASSUME NEW S \in SUBSET Nat, S # {}
  PROVE  /\ Min(S) \in S
         /\ \A k \in S : Min(S) <= k
<1>1. PICK m \in S : \A k \in S : ~(<<k, m>> \in OpToRel(<, Nat))
  BY NatLessThanWellFounded, WFMin
<1>2. \A k \in S : ~(k < m)
  BY <1>1, Zenon DEF OpToRel
<1>3. \E x \in S : \A y \in S : x =< y
  BY <1>2
<1> QED
  BY <1>3, Zenon DEF Min

(***************************************************************************)
(* A sequence over a part of a set is one over the set.                    *)
(***************************************************************************)
LEMMA SeqOfSubset ==
  ASSUME NEW A, NEW B, A \subseteq B, NEW s \in Seq(A)
  PROVE  s \in Seq(B)
<1>1. Len(s) \in Nat /\ s = [i \in 1 .. Len(s) |-> s[i]]
  OBVIOUS
<1>2. \A i \in 1 .. Len(s) : s[i] \in B
  OBVIOUS
<1> QED
  BY <1>1, <1>2

(***************************************************************************)
(* A single block is a run.                                                *)
(***************************************************************************)
LEMMA RunOfOne ==
  ASSUME NEW n \in Nat
  PROVE  IsRun(<<n>>, n) /\ Head(<<n>>) = n
  BY DEF IsRun

(***************************************************************************)
(* The first block of a run, its length and its second block.              *)
(***************************************************************************)
LEMMA RunHead ==
  ASSUME NEW n \in Nat, NEW bs, IsRun(bs, n)
  PROVE  /\ Head(bs) \in 0 .. n /\ Len(bs) = n - Head(bs) + 1
         /\ bs \in Seq(0 .. n)
         /\ Len(bs) >= 2 => bs[2] = Head(bs) + 1
<1>1. Len(bs) \in Nat /\ Len(bs) >= 1 /\ Head(bs) = bs[1]
  BY DEF IsRun
<1>2. \A i \in 1 .. Len(bs) : bs[i] \in 0 .. n
  BY <1>1 DEF IsRun
<1>3. bs \in Seq(0 .. n)
  BY <1>2 DEF IsRun
<1> QED
  BY <1>1, <1>2, <1>3 DEF IsRun

(***************************************************************************)
(* A run without its first block is a run that starts one later.           *)
(***************************************************************************)
LEMMA RunTail ==
  ASSUME NEW n \in Nat, NEW bs, IsRun(bs, n), Len(bs) >= 2
  PROVE  IsRun(Tail(bs), n) /\ Head(Tail(bs)) = Head(bs) + 1
<1>1. /\ Tail(bs) \in Seq(Nat) /\ Len(Tail(bs)) = Len(bs) - 1
      /\ \A i \in 1 .. Len(bs) - 1 : Tail(bs)[i] = bs[i + 1]
  BY DEF IsRun
<1>2. Len(bs) \in Nat /\ Len(bs) <= n + 1 /\ \A i \in 1 .. Len(bs) : bs[i] = n - Len(bs) + i
  BY DEF IsRun
<1> DEFINE t == Tail(bs)
<1>3. Head(bs) = bs[1] /\ Head(t) = t[1] /\ t # << >>
  <2> HIDE DEF t
  <2>1. t \in Seq(Nat) /\ Len(t) >= 1
    BY <1>1, <1>2 DEF t
  <2> QED
    BY <2>1 DEF IsRun
<1>4. \A i \in 1 .. Len(t) : t[i] = n - Len(t) + i
  <2> HIDE DEF t
  <2>1. /\ Len(t) = Len(bs) - 1
        /\ \A i \in 1 .. Len(bs) - 1 : t[i] = bs[i + 1]
    BY <1>1 DEF t
  <2> QED
    BY <1>2, <2>1
<1>5. /\ t \in Seq(Nat) /\ Len(t) <= n + 1
      /\ t[1] = bs[1] + 1
  BY <1>1, <1>2
<1> HIDE DEF t
<1>6. IsRun(t, n)
  BY <1>3, <1>4, <1>5 DEF IsRun
<1>7. Head(t) = Head(bs) + 1
  BY <1>3, <1>5
<1> QED
  BY <1>6, <1>7 DEF t

(***************************************************************************)
(* A run with the next block is a run from the same block.                 *)
(***************************************************************************)
LEMMA RunAppend ==
  ASSUME NEW n \in Nat, NEW bs, IsRun(bs, n)
  PROVE  IsRun(Append(bs, n + 1), n + 1) /\ Head(Append(bs, n + 1)) = Head(bs)
<1>1. /\ Append(bs, n + 1) \in Seq(Nat) /\ Len(Append(bs, n + 1)) = Len(bs) + 1
      /\ \A i \in 1 .. Len(bs) : Append(bs, n + 1)[i] = bs[i]
      /\ Append(bs, n + 1)[Len(bs) + 1] = n + 1
  BY DEF IsRun
<1>2. /\ Len(bs) \in Nat /\ Len(bs) >= 1 /\ Len(bs) <= n + 1
      /\ \A i \in 1 .. Len(bs) : bs[i] = n - Len(bs) + i
  BY DEF IsRun
<1> DEFINE t == Append(bs, n + 1)
<1>3. Head(bs) = bs[1] /\ Head(t) = t[1] /\ t # << >>
  BY <1>1, <1>2 DEF IsRun
<1>4. \A i \in 1 .. Len(t) : t[i] = (n + 1) - Len(t) + i
  <2> HIDE DEF t
  <2>1. /\ Len(t) = Len(bs) + 1 /\ t[Len(bs) + 1] = n + 1
        /\ \A i \in 1 .. Len(bs) : t[i] = bs[i]
    BY <1>1 DEF t
  <2> QED
    BY <1>2, <2>1
<1>5. t \in Seq(Nat) /\ Len(t) <= (n + 1) + 1
  BY <1>1, <1>2
<1>6. t[1] = bs[1]
  BY <1>1, <1>2
<1> HIDE DEF t
<1>7. IsRun(t, n + 1)
  BY <1>3, <1>4, <1>5 DEF IsRun
<1>8. Head(t) = Head(bs)
  BY <1>3, <1>6
<1> QED
  BY <1>7, <1>8 DEF t

(***************************************************************************)
(* A run is what EpochPrepared says of it.                                 *)
(***************************************************************************)
LEMMA RunForm ==
  ASSUME NEW n \in Nat, NEW bs, IsRun(bs, n)
  PROVE  bs = [i \in 1 .. n - Head(bs) + 1 |-> Head(bs) + i - 1]
<1>1. Head(bs) \in 0 .. n /\ Len(bs) = n - Head(bs) + 1
  BY RunHead
<1>2. \A i \in 1 .. Len(bs) : bs[i] = Head(bs) + i - 1
  BY <1>1 DEF IsRun
<1>3. bs = [i \in 1 .. Len(bs) |-> bs[i]]
  BY DEF IsRun
<1> QED
  BY <1>1, <1>2, <1>3

(***************************************************************************)
(* The epoch of a safe chain is an L1 number, the time of its next block a *)
(* number.                                                                 *)
(***************************************************************************)
LEMMA OriginIsEpoch ==
  ASSUME NEW c \in Seq(Block)
  PROVE  /\ DC!Origin(c) \in DC!L1Numbers /\ DC!Origin(c) \in Nat
         /\ DC!NextTime(c) \in Nat
<1>1. 0 \in DC!L1Numbers /\ DC!L1Numbers \subseteq Nat
  BY BatchQueueAssumption DEF DC!L1Numbers
<1>2. DC!Origin(c) \in DC!L1Numbers
  <2>1. CASE c = << >>
    BY <1>1, <2>1 DEF DC!Origin
  <2>2. CASE c # << >>
    <3>1. c[Len(c)] \in Block
      BY <2>2
    <3>2. c[Len(c)].epoch \in DC!L1Numbers
      BY <3>1 DEF Block, DC!Epochs
    <3> QED
      BY <2>2, <3>2 DEF DC!Origin, DC!Last
  <2> QED
    BY <2>1, <2>2
<1>3. DC!NextTime(c) \in Nat
  BY BatchQueueAssumption DEF DC!NextTime
<1> QED
  BY <1>1, <1>2, <1>3

(***************************************************************************)
(* Every L1 number up to one that exists exists, and has a time.           *)
(***************************************************************************)
LEMMA L1Below ==
  ASSUME NEW n \in DC!L1Numbers, NEW m \in 0 .. n
  PROVE  m \in DC!L1Numbers /\ L1Time[m] \in Nat
  BY BatchQueueAssumption DEF DC!L1Numbers

-----------------------------------------------------------------------------
(***************************************************************************)
(* A batch queue with a run of L1 blocks up to block n, as the stages      *)
(* leave it for NextBatch, and its buffer.                                 *)
(***************************************************************************)
InOrder(batches, n) ==
  \A t \in Times :
    /\ \A i \in 1 .. Len(batches[t]) : batches[t][i].batch.time = t /\ batches[t][i].included <= n
    /\ \A i, j \in 1 .. Len(batches[t]) :
         i < j => batches[t][i].included <= batches[t][j].included

QueueGood(q, n) ==
  /\ q \in Queue /\ q.origin = n
  /\ IsRun(q.l1Blocks, n) /\ InOrder(q.batches, n)

(***************************************************************************)
(* The candidates for the next block, and the queue with other ones.       *)
(***************************************************************************)
Candidates(q) == IF DC!NextTime(safe) \in Times THEN q.batches[DC!NextTime(safe)] ELSE << >>

Keep(q, rest) == IF DC!NextTime(safe) \in Times
                 THEN [q EXCEPT !.batches[DC!NextTime(safe)] = rest] ELSE q

Picked(q, k) == CheckBatch(q.l1Blocks, Candidates(q)[k]) \in {"accept", "undecided"}

After(q, k) == SubSeq(Candidates(q), k + 1, Len(Candidates(q)))

FirstPicked(q, k) ==
  /\ k \in 1 .. Len(Candidates(q)) /\ Picked(q, k)
  /\ \A i \in 1 .. k - 1 : ~Picked(q, i)

(***************************************************************************)
(* What deriveNextBatch does, case by case.                                *)
(***************************************************************************)
LEMMA DeriveCases ==
  ASSUME NEW q, NEW outOfData \in BOOLEAN, Candidates(q) \in Seq(Buffered)
  PROVE
    \/ /\ DC!Origin(safe) \notin {Head(q.l1Blocks), Head(q.l1Blocks) - 1}
       /\ deriveNextBatch(q, outOfData) = Failed(q, "Reset")
    \/ /\ DC!Origin(safe) \in {Head(q.l1Blocks), Head(q.l1Blocks) - 1}
       /\ \A i \in 1 .. Len(Candidates(q)) : ~Picked(q, i)
       /\ deriveNextBatch(q, outOfData) = ForceEmpty(Keep(q, << >>), outOfData)
    \/ /\ DC!Origin(safe) \in {Head(q.l1Blocks), Head(q.l1Blocks) - 1}
       /\ \E k \in 1 .. Len(Candidates(q)) :
            /\ FirstPicked(q, k)
            /\ CheckBatch(q.l1Blocks, Candidates(q)[k]) = "undecided"
            /\ deriveNextBatch(q, outOfData) = Failed(Keep(q, <<Candidates(q)[k]>>), "EOF")
    \/ /\ DC!Origin(safe) \in {Head(q.l1Blocks), Head(q.l1Blocks) - 1}
       /\ \E k \in 1 .. Len(Candidates(q)) :
            /\ FirstPicked(q, k)
            /\ CheckBatch(q.l1Blocks, Candidates(q)[k]) = "accept"
            /\ deriveNextBatch(q, outOfData) =
                 Derived(IF Candidates(q)[k].batch.epoch = Head(q.l1Blocks) + 1
                         THEN [Keep(q, After(q, k)) EXCEPT !.l1Blocks = Tail(@)]
                         ELSE Keep(q, After(q, k)),
                         Candidates(q)[k].batch)
<1> DEFINE I == {i \in 1 .. Len(Candidates(q)) : Picked(q, i)}
           k == IF I # {} THEN Min(I) ELSE 0
           fit == DC!Origin(safe) \in {Head(q.l1Blocks), Head(q.l1Blocks) - 1}
           acc == IF Candidates(q)[k].batch.epoch = Head(q.l1Blocks) + 1
                         THEN [Keep(q, After(q, k)) EXCEPT !.l1Blocks = Tail(@)]
                         ELSE Keep(q, After(q, k))
<1>1. deriveNextBatch(q, outOfData) =
        IF ~fit THEN Failed(q, "Reset")
        ELSE IF k = 0 THEN ForceEmpty(Keep(q, << >>), outOfData)
        ELSE IF CheckBatch(q.l1Blocks, Candidates(q)[k]) = "undecided"
        THEN Failed(Keep(q, <<Candidates(q)[k]>>), "EOF")
        ELSE Derived(acc, Candidates(q)[k].batch)
  BY Zenon DEF deriveNextBatch, Candidates, Keep, After, Picked, SelectInSeq
<1>2. I \in SUBSET Nat
  OBVIOUS
<1>3. CASE I = {}
  <2>1. k = 0
    BY <1>3
  <2>2. \A i \in 1 .. Len(Candidates(q)) : ~Picked(q, i)
    BY <1>3
  <2> HIDE DEF k, I, acc
  <2> QED
    BY <1>1, <2>1, <2>2
<1>4. CASE I # {}
  <2>1. k = Min(I)
    BY <1>4
  <2> HIDE DEF k
  <2>2. k \in I /\ \A j \in I : k <= j
    <3> HIDE DEF I
    <3> QED
      BY <1>2, <1>4, <2>1, SmallestNumber
  <2>3. FirstPicked(q, k) /\ k # 0 /\ k \in 1 .. Len(Candidates(q))
    <3>1. \A i \in 1 .. k - 1 : i \in 1 .. Len(Candidates(q)) /\ ~(k <= i)
      BY <2>2
    <3>2. \A i \in 1 .. k - 1 : ~Picked(q, i)
      BY <2>2, <3>1
    <3> QED
      BY <2>2, <3>2 DEF FirstPicked
  <2>4. CheckBatch(q.l1Blocks, Candidates(q)[k]) \in {"accept", "undecided"}
    BY <2>3 DEF FirstPicked, Picked
  <2> HIDE DEF I
  <2>5. CASE CheckBatch(q.l1Blocks, Candidates(q)[k]) = "undecided"
    <3>1. fit => deriveNextBatch(q, outOfData) = Failed(Keep(q, <<Candidates(q)[k]>>), "EOF")
      BY <1>1, <2>3, <2>5, Zenon
    <3> HIDE DEF acc
    <3> QED
      BY <1>1, <2>3, <2>5, <3>1, Zenon
  <2>6. CASE CheckBatch(q.l1Blocks, Candidates(q)[k]) = "accept"
    <3>1. "accept" # "undecided"
      OBVIOUS
    <3>2. fit => deriveNextBatch(q, outOfData) = Derived(acc, Candidates(q)[k].batch)
      <4> HIDE DEF acc
      <4> QED
        BY <1>1, <2>3, <2>6, <3>1
    <3> QED
      BY <1>1, <2>3, <2>6, <3>2, Zenon
  <2> QED
    BY <2>4, <2>5, <2>6
<1> QED
  BY <1>3, <1>4

(***************************************************************************)
(* A contiguous part of a sequence, and what it means to keep that part of *)
(* the candidates.                                                         *)
(***************************************************************************)
PartOf(rest, c, m) ==
  \A i \in 1 .. Len(rest) : m + i \in 1 .. Len(c) /\ rest[i] = c[m + i]

Kept(q, rest, n) ==
  /\ QueueGood(Keep(q, rest), n) /\ Keep(q, rest).l1Blocks = q.l1Blocks
  /\ \A t \in Times : Keep(q, rest).batches[t] =
                        IF t = DC!NextTime(safe) THEN rest ELSE q.batches[t]

(***************************************************************************)
(* A queue that keeps a contiguous part of its candidates stays good.      *)
(***************************************************************************)
LEMMA KeepGood ==
  ASSUME NEW n \in Nat, NEW q, QueueGood(q, n), safe \in Seq(Block),
         NEW rest \in Seq(Buffered), NEW m \in Nat,
         PartOf(rest, Candidates(q), m)
  PROVE  Kept(q, rest, n)
<1> DEFINE t0 == DC!NextTime(safe)
           p == Keep(q, rest)
<1>1. q \in Queue /\ InOrder(q.batches, n)
  BY DEF QueueGood
<1>2. CASE t0 \notin Times
  <2>1. p = q
    BY <1>2 DEF Keep
  <2> QED
    BY <1>2, <2>1 DEF Kept
<1>3. CASE t0 \in Times
  <2>1. p = [q EXCEPT !.batches[t0] = rest] /\ Candidates(q) = q.batches[t0]
    BY <1>3 DEF Keep, Candidates
  <2> HIDE DEF p, t0
  <2>2. /\ p.origin = q.origin /\ p.l1Blocks = q.l1Blocks
        /\ p.batches = [q.batches EXCEPT ![t0] = rest]
        /\ p \in [origin : Nat, l1Blocks : Seq(Nat), batches : [Times -> Seq(Buffered)]]
    BY <1>1, <1>3, <2>1 DEF Queue
  <2>3. \A t \in Times : p.batches[t] = IF t = t0 THEN rest ELSE q.batches[t]
    BY <1>1, <1>3, <2>2 DEF Queue
  <2>4. InOrder(p.batches, n)
    <3> SUFFICES ASSUME NEW t \in Times
                 PROVE  /\ \A i \in 1 .. Len(p.batches[t]) :
                             /\ p.batches[t][i].batch.time = t
                             /\ p.batches[t][i].included <= n
                        /\ \A i, j \in 1 .. Len(p.batches[t]) :
                             i < j => p.batches[t][i].included <= p.batches[t][j].included
      BY DEF InOrder
    <3>1. CASE t # t0
      BY <1>1, <2>3, <3>1 DEF InOrder
    <3>2. CASE t = t0
      <4>1. p.batches[t] = rest
        BY <2>3, <3>2
      <4>2. /\ \A i \in 1 .. Len(Candidates(q)) :
                 Candidates(q)[i].batch.time = t /\ Candidates(q)[i].included <= n
            /\ \A i, j \in 1 .. Len(Candidates(q)) :
                 i < j => Candidates(q)[i].included <= Candidates(q)[j].included
        BY <1>1, <1>3, <2>1, <3>2 DEF InOrder
      <4> HIDE DEF Candidates
      <4>3. \A i \in 1 .. Len(rest) : rest[i].batch.time = t /\ rest[i].included <= n
        BY <4>2 DEF PartOf
      <4>4. \A i, j \in 1 .. Len(rest) : i < j => rest[i].included <= rest[j].included
        <5> TAKE i, j \in 1 .. Len(rest)
        <5>1. /\ m + i \in 1 .. Len(Candidates(q)) /\ rest[i] = Candidates(q)[m + i]
              /\ m + j \in 1 .. Len(Candidates(q)) /\ rest[j] = Candidates(q)[m + j]
          BY DEF PartOf
        <5>2. i < j => m + i < m + j
          OBVIOUS
        <5> QED
          BY <4>2, <5>1, <5>2
      <4> QED
        BY <4>1, <4>3, <4>4
    <3> QED
      BY <3>1, <3>2
  <2> QED
    BY <2>2, <2>3, <2>4 DEF Kept, QueueGood, Queue, p, t0
<1> QED
  BY <1>2, <1>3

(***************************************************************************)
(* The candidates of a good queue have the time of the next block and were *)
(* included up to its origin.                                              *)
(***************************************************************************)
LEMMA CandidatesType ==
  ASSUME NEW n, NEW q, QueueGood(q, n)
  PROVE  /\ Candidates(q) \in Seq(Buffered)
         /\ \A k \in 1 .. Len(Candidates(q)) : Candidates(q)[k].batch.time = DC!NextTime(safe)
                                               /\ Candidates(q)[k].included <= n
<1>1. << >> \in Seq(Buffered)
  OBVIOUS
<1>2. \A t \in Times : q.batches[t] \in Seq(Buffered)
  BY DEF QueueGood, Queue
<1>3. Candidates(q) \in Seq(Buffered)
  BY <1>1, <1>2 DEF Candidates
<1>4. CASE DC!NextTime(safe) \in Times
  BY <1>3, <1>4 DEF Candidates, QueueGood, InOrder
<1>5. CASE DC!NextTime(safe) \notin Times
  BY <1>5 DEF Candidates
<1> QED
  BY <1>3, <1>4, <1>5

(***************************************************************************)
(* No candidate is kept: the queue stays good.                             *)
(***************************************************************************)
LEMMA KeepNone ==
  ASSUME NEW n \in Nat, NEW q, QueueGood(q, n), safe \in Seq(Block)
  PROVE  Kept(q, << >>, n)
<1> DEFINE e == << >>
<1>1. e \in Seq(Buffered) /\ Len(e) = 0 /\ 0 \in Nat
  OBVIOUS
<1> HIDE DEF e
<1>2. PartOf(e, Candidates(q), 0)
  BY <1>1 DEF PartOf
<1>3. Kept(q, e, n)
  BY <1>1, <1>2, KeepGood
<1> QED
  BY <1>3 DEF e

(***************************************************************************)
(* One candidate is kept: the queue stays good.                            *)
(***************************************************************************)
LEMMA KeepOne ==
  ASSUME NEW n \in Nat, NEW q, QueueGood(q, n), safe \in Seq(Block),
         NEW k \in 1 .. Len(Candidates(q))
  PROVE  Kept(q, <<Candidates(q)[k]>>, n)
<1> DEFINE e == <<Candidates(q)[k]>>
<1>1. Candidates(q) \in Seq(Buffered)
  BY CandidatesType
<1>2. Candidates(q)[k] \in Buffered /\ k \in Nat /\ k >= 1
  BY <1>1
<1>3. e \in Seq(Buffered) /\ Len(e) = 1 /\ e[1] = Candidates(q)[k] /\ k - 1 \in Nat
  BY <1>2
<1> HIDE DEF e
<1>4. PartOf(e, Candidates(q), k - 1)
  BY <1>2, <1>3 DEF PartOf
<1>5. Kept(q, e, n)
  BY <1>3, <1>4, KeepGood
<1> QED
  BY <1>5 DEF e

(***************************************************************************)
(* The candidates after the k-th are kept: the queue stays good.           *)
(***************************************************************************)
LEMMA KeepAfter ==
  ASSUME NEW n \in Nat, NEW q, QueueGood(q, n), safe \in Seq(Block),
         NEW k \in 1 .. Len(Candidates(q))
  PROVE  /\ After(q, k) \in Seq(Buffered) /\ Len(After(q, k)) = Len(Candidates(q)) - k
         /\ \A i \in 1 .. Len(After(q, k)) : After(q, k)[i] = Candidates(q)[k + i]
         /\ Kept(q, After(q, k), n)
<1> DEFINE c == Candidates(q)
           e == SubSeq(c, k + 1, Len(c))
<1>1. c \in Seq(Buffered) /\ k \in Nat /\ k >= 1
  BY CandidatesType
<1>2. e = After(q, k)
  BY DEF After
<1>3. /\ e \in Seq(Buffered) /\ Len(e) = Len(c) - k
      /\ \A i \in 1 .. Len(e) : k + i \in 1 .. Len(c) /\ e[i] = c[k + i]
  <2> HIDE DEF c
  <2>1. /\ e \in Seq(Buffered) /\ Len(e) = IF k + 1 <= Len(c) THEN Len(c) - (k + 1) + 1 ELSE 0
        /\ \A i \in 1 .. Len(c) - (k + 1) + 1 : e[i] = c[(k + 1) + i - 1]
    BY <1>1, SubSeqProperties DEF c
  <2>2. k <= Len(c) /\ Len(c) \in Nat
    BY <1>1 DEF c
  <2>3. Len(e) = Len(c) - k
    BY <1>1, <2>1, <2>2
  <2>4. \A i \in 1 .. Len(e) : k + i \in 1 .. Len(c) /\ (k + 1) + i - 1 = k + i
    BY <1>1, <2>2, <2>3
  <2> HIDE DEF e
  <2> QED
    BY <1>1, <2>1, <2>2, <2>3, <2>4
<1> HIDE DEF e
<1>4. PartOf(e, Candidates(q), k)
  BY <1>3 DEF PartOf
<1>5. Kept(q, e, n)
  BY <1>1, <1>3, <1>4, KeepGood
<1> QED
  BY <1>2, <1>3, <1>5

-----------------------------------------------------------------------------
(***************************************************************************)
(* What CheckBatch has established of a batch that it accepts.             *)
(***************************************************************************)
LEMMA AcceptFits ==
  ASSUME NEW bs, NEW d, CheckBatch(bs, d) = "accept", d.batch.time = DC!NextTime(safe)
  PROVE  /\ d.batch.parent = safe
         /\ ~(d.batch.epoch + SeqWindowSize < d.included)
         /\ d.batch.epoch \in {Head(bs), Head(bs) + 1}
         /\ d.batch.epoch = Head(bs) \/ Len(bs) >= 2
         /\ ~WrongOrigin(d.batch)
         /\ Drifted(d.batch) => /\ d.batch.content = "empty"
                                /\ d.batch.epoch = Head(bs) =>
                                     Len(bs) >= 2 /\ ~(d.batch.time >= L1Time[bs[2]])
         /\ d.batch.content # "deposit"
  BY DEF CheckBatch, Misfit

(***************************************************************************)
(* A batch is undecided only as long as a single L1 block is at hand.      *)
(***************************************************************************)
LEMMA UndecidedAlone ==
  ASSUME NEW bs, NEW d, CheckBatch(bs, d) = "undecided"
  PROVE  /\ d.batch.epoch \in {Head(bs), Head(bs) + 1} /\ ~(Len(bs) >= 2)
         /\ ~(d.batch.time < DC!NextTime(safe))
  BY DEF CheckBatch, Misfit

(***************************************************************************)
(* The verdicts of CheckBatch.                                             *)
(***************************************************************************)
LEMMA Verdicts ==
  ASSUME NEW bs, NEW d
  PROVE  CheckBatch(bs, d) \in {"future", "drop", "undecided", "accept"}
  BY DEF CheckBatch

(***************************************************************************)
(* AddBatch puts a batch that is not dropped at the end of those of its    *)
(* time.                                                                   *)
(***************************************************************************)
LEMMA AddGood ==
  ASSUME NEW n \in Nat, NEW q, QueueGood(q, n), NEW b \in BatchSet
  PROVE  /\ QueueGood(AddBatch(q, b), n) /\ AddBatch(q, b).l1Blocks = q.l1Blocks
         /\ \A t \in Times : AddBatch(q, b).batches[t] =
              IF t = b.time /\ CheckBatch(q.l1Blocks, [batch |-> b, included |-> n]) # "drop"
              THEN Append(q.batches[t], [batch |-> b, included |-> n]) ELSE q.batches[t]
<1> DEFINE d == [batch |-> b, included |-> n]
           p == AddBatch(q, b)
<1>1. q \in Queue /\ InOrder(q.batches, n) /\ q.origin = n
  BY DEF QueueGood
<1>2. CASE CheckBatch(q.l1Blocks, d) = "drop"
  <2>1. p = q
    BY <1>1, <1>2 DEF AddBatch
  <2> QED
    BY <1>2, <2>1
<1>3. CASE CheckBatch(q.l1Blocks, d) # "drop"
  <2>1. p = [q EXCEPT !.batches[b.time] = Append(@, d)]
    BY <1>1, <1>3 DEF AddBatch
  <2>2. b.time \in Times /\ d \in Buffered /\ d.batch = b /\ d.included = n
    BY DEF Times, Buffered
  <2>3. CheckBatch(q.l1Blocks, [batch |-> b, included |-> n]) # "drop"
    BY <1>3
  <2> HIDE DEF p, d
  <2>4. /\ p.origin = q.origin /\ p.l1Blocks = q.l1Blocks
        /\ p.batches = [q.batches EXCEPT ![b.time] = Append(q.batches[b.time], d)]
        /\ p \in [origin : Nat, l1Blocks : Seq(Nat), batches : [Times -> Seq(Buffered)]]
    <3> DEFINE e == Append(q.batches[b.time], d)
    <3>1. e \in Seq(Buffered)
      BY <1>1, <2>2 DEF Queue
    <3>2. p = [q EXCEPT !.batches[b.time] = e]
      BY <2>1
    <3> HIDE DEF e
    <3>3. /\ p.origin = q.origin /\ p.l1Blocks = q.l1Blocks
          /\ p.batches = [q.batches EXCEPT ![b.time] = e]
          /\ p \in [origin : Nat, l1Blocks : Seq(Nat), batches : [Times -> Seq(Buffered)]]
      BY <1>1, <2>2, <3>1, <3>2 DEF Queue
    <3> QED
      BY <3>3 DEF e
  <2>5. \A t \in Times : p.batches[t] = IF t = b.time THEN Append(q.batches[t], d)
                                                      ELSE q.batches[t]
    BY <1>1, <2>2, <2>4 DEF Queue
  <2>6. InOrder(p.batches, n)
    <3> SUFFICES ASSUME NEW t \in Times
                 PROVE  /\ \A i \in 1 .. Len(p.batches[t]) :
                             /\ p.batches[t][i].batch.time = t
                             /\ p.batches[t][i].included <= n
                        /\ \A i, j \in 1 .. Len(p.batches[t]) :
                             i < j => p.batches[t][i].included <= p.batches[t][j].included
      BY DEF InOrder
    <3>1. CASE t # b.time
      BY <1>1, <2>5, <3>1 DEF InOrder
    <3>2. CASE t = b.time
      <4> DEFINE c == q.batches[t]
                 e == Append(c, d)
      <4>1. p.batches[t] = e
        BY <2>5, <3>2
      <4>2. c \in Seq(Buffered)
        BY <1>1 DEF Queue
      <4>3. /\ \A i \in 1 .. Len(c) : c[i].batch.time = t /\ c[i].included <= n
            /\ \A i, j \in 1 .. Len(c) : i < j => c[i].included <= c[j].included
        BY <1>1 DEF InOrder
      <4> HIDE DEF c
      <4>4. /\ Len(e) = Len(c) + 1 /\ e[Len(c) + 1] = d
            /\ \A i \in 1 .. Len(c) : e[i] = c[i]
        BY <2>2, <4>2
      <4> HIDE DEF e
      <4>5. \A i \in 1 .. Len(e) : (i \in 1 .. Len(c) /\ e[i] = c[i]) \/ (i = Len(c) + 1 /\ e[i] = d)
        BY <4>2, <4>4
      <4>6. \A i \in 1 .. Len(e) : e[i].batch.time = t /\ e[i].included <= n
        BY <2>2, <3>2, <4>3, <4>5
      <4>7. ASSUME NEW i \in 1 .. Len(e), NEW j \in 1 .. Len(e), i < j
            PROVE  e[i].included <= e[j].included
        <5>1. i \in 1 .. Len(c) /\ e[i] = c[i]
          BY <4>2, <4>4, <4>5, <4>7
        <5>2. CASE j \in 1 .. Len(c) /\ e[j] = c[j]
          BY <4>3, <4>7, <5>1, <5>2
        <5>3. CASE e[j] = d
          BY <2>2, <4>3, <5>1, <5>3
        <5> QED
          BY <4>5, <5>2, <5>3
      <4> QED
        BY <4>1, <4>6, <4>7
    <3> QED
      BY <3>1, <3>2
  <2> QED
    BY <1>1, <2>3, <2>4, <2>5, <2>6 DEF QueueGood, Queue, p, d
<1> QED
  BY <1>2, <1>3

(***************************************************************************)
(* Dropping the first L1 block.                                            *)
(***************************************************************************)
Shifted(q) == [q EXCEPT !.l1Blocks = Tail(@)]

(***************************************************************************)
(* A good queue without its first L1 block is a good queue.                *)
(***************************************************************************)
LEMMA ShiftGood ==
  ASSUME NEW n \in Nat, NEW q, QueueGood(q, n), Len(q.l1Blocks) >= 2
  PROVE  /\ QueueGood(Shifted(q), n) /\ Shifted(q).l1Blocks = Tail(q.l1Blocks)
         /\ Shifted(q).batches = q.batches
         /\ Head(Shifted(q).l1Blocks) = Head(q.l1Blocks) + 1
<1>1. q \in Queue /\ IsRun(q.l1Blocks, n)
  BY DEF QueueGood
<1>2. IsRun(Tail(q.l1Blocks), n) /\ Head(Tail(q.l1Blocks)) = Head(q.l1Blocks) + 1
  BY <1>1, RunTail
<1> DEFINE tl == Tail(q.l1Blocks)
<1>3. tl \in Seq(Nat) /\ Shifted(q) = [q EXCEPT !.l1Blocks = tl]
  BY <1>2 DEF IsRun, Shifted
<1> HIDE DEF tl
<1>4. /\ Shifted(q) \in Queue /\ Shifted(q).l1Blocks = tl
      /\ Shifted(q).batches = q.batches /\ Shifted(q).origin = q.origin
  BY <1>1, <1>3 DEF Queue
<1> QED
  BY <1>2, <1>4 DEF QueueGood, tl

(***************************************************************************)
(* The window of the first L1 block has passed, and the next L1 block is   *)
(* known.                                                                  *)
(***************************************************************************)
Forced(q, outOfData) ==
  /\ \/ Head(q.l1Blocks) + SeqWindowSize = q.origin /\ outOfData
     \/ Head(q.l1Blocks) + SeqWindowSize < q.origin
  /\ ~(Len(q.l1Blocks) < 2)

(***************************************************************************)
(* The three cases of ForceEmpty.                                          *)
(***************************************************************************)
LEMMA ForceCases ==
  ASSUME NEW q, NEW outOfData
  PROVE  \/ ~Forced(q, outOfData) /\ ForceEmpty(q, outOfData) = Failed(q, "EOF")
         \/ /\ Forced(q, outOfData)
            /\ \/ Head(q.l1Blocks) = DC!Origin(safe) + 1
               \/ DC!NextTime(safe) < L1Time[q.l1Blocks[2]]
            /\ ForceEmpty(q, outOfData) = Derived(q, EmptyBatch(Head(q.l1Blocks)))
         \/ /\ Forced(q, outOfData) /\ Head(q.l1Blocks) # DC!Origin(safe) + 1
            /\ ~(DC!NextTime(safe) < L1Time[q.l1Blocks[2]])
            /\ ForceEmpty(q, outOfData) = Failed(Shifted(q), "EOF")
  BY Zenon DEF ForceEmpty, Forced, Shifted

(***************************************************************************)
(* What deriveNextBatch leaves behind is a good queue again, and what it   *)
(* returns is a batch.                                                     *)
(***************************************************************************)
DerivedGood(r, n) ==
  /\ QueueGood(r.bq, n) /\ r.err \in {"Reset", "EOF", "none"}
  /\ r.err # "none" => Head(r.bq.l1Blocks) <= DC!Origin(safe) + 1
  /\ r.err = "none" =>
       /\ r.batch \in DC!Batch /\ r.batch.epoch <= n
       /\ Consistent(r.batch) => Head(r.bq.l1Blocks) <= DC!Origin(safe) + 1

(***************************************************************************)
(* A forced empty batch is a batch.                                        *)
(***************************************************************************)
LEMMA EmptyIsBatch ==
  ASSUME safe \in Seq(Block), NEW e \in DC!L1Numbers
  PROVE  EmptyBatch(e) \in DC!Batch
  BY OriginIsEpoch DEF EmptyBatch, DC!Batch, DC!Epochs, DC!Contents, Block

(***************************************************************************)
(* What a batcher submits is a batch.                                      *)
(***************************************************************************)
LEMMA BatchSetIsBatch == BatchSet \subseteq DC!Batch
  BY BatchQueueAssumption

(***************************************************************************)
(* deriveNextBatch on a good queue returns a good queue and a batch or an  *)
(* error.                                                                  *)
(***************************************************************************)
LEMMA DeriveGood ==
  ASSUME safe \in Seq(Block), NEW n \in DC!L1Numbers, NEW q, QueueGood(q, n),
         Head(q.l1Blocks) <= DC!Origin(safe) + 1, NEW outOfData \in BOOLEAN
  PROVE  DerivedGood(deriveNextBatch(q, outOfData), n)
<1> DEFINE r == deriveNextBatch(q, outOfData)
           c == Candidates(q)
           o == DC!Origin(safe)
<1>1. n \in Nat
  BY BatchQueueAssumption DEF DC!L1Numbers
<1>2. c \in Seq(Buffered)
  BY CandidatesType
<1>3. /\ IsRun(q.l1Blocks, n) /\ Head(q.l1Blocks) \in 0 .. n
      /\ o \in Nat
  BY <1>1, RunHead, OriginIsEpoch DEF QueueGood
<1>4. CASE r = Failed(q, "Reset")
  <2>1. r.bq = q /\ r.err = "Reset"
    BY <1>4 DEF Failed
  <2> HIDE DEF r
  <2> QED
    BY <2>1 DEF DerivedGood, r
<1>5. CASE r = ForceEmpty(Keep(q, << >>), outOfData) /\ o \in {Head(q.l1Blocks), Head(q.l1Blocks) - 1}
  <2> DEFINE p == Keep(q, << >>)
  <2>1. QueueGood(p, n) /\ p.l1Blocks = q.l1Blocks
    BY <1>1, KeepNone DEF Kept
  <2> HIDE DEF p
  <2>2. r = ForceEmpty(p, outOfData)
    BY <1>5 DEF p
  <2>3. CASE r = Failed(p, "EOF")
    <3>1. r.bq = p /\ r.err = "EOF"
      BY <2>3 DEF Failed
    <3> HIDE DEF r
    <3> QED
      BY <2>1, <3>1 DEF DerivedGood, r
  <2>4. CASE r = Derived(p, EmptyBatch(Head(p.l1Blocks)))
    <3>1. r.bq = p /\ r.err = "none" /\ r.batch = EmptyBatch(Head(p.l1Blocks))
      BY <2>4 DEF Derived
    <3>2. r.batch \in DC!Batch
      BY <1>3, <2>1, <3>1, L1Below, EmptyIsBatch
    <3>3. r.batch.epoch <= n
      BY <1>1, <1>3, <2>1, <3>1 DEF EmptyBatch
    <3> HIDE DEF r
    <3> QED
      BY <2>1, <3>1, <3>2, <3>3 DEF DerivedGood, r
  <2>5. CASE r = Failed(Shifted(p), "EOF") /\ Forced(p, outOfData) /\ Head(p.l1Blocks) # o + 1
    <3>1. r.bq = Shifted(p) /\ r.err = "EOF"
      BY <2>5 DEF Failed
    <3>2. Len(p.l1Blocks) >= 2
      BY <2>1, <2>5, <1>3 DEF Forced, IsRun
    <3>3. QueueGood(Shifted(p), n) /\ Head(Shifted(p).l1Blocks) = Head(p.l1Blocks) + 1
      BY <1>1, <2>1, <3>2, ShiftGood
    <3>4. Head(Shifted(p).l1Blocks) <= o + 1
      BY <1>3, <1>5, <2>1, <2>5, <3>3
    <3> HIDE DEF r
    <3> QED
      BY <3>1, <3>3, <3>4 DEF DerivedGood, r
  <2> QED
    BY <2>2, <2>3, <2>4, <2>5, ForceCases
<1>6. ASSUME NEW k \in 1 .. Len(c), r = Failed(Keep(q, <<c[k]>>), "EOF")
      PROVE  DerivedGood(r, n)
  <2>1. r.bq = Keep(q, <<c[k]>>) /\ r.err = "EOF"
    BY <1>6 DEF Failed
  <2>2. QueueGood(Keep(q, <<c[k]>>), n) /\ Keep(q, <<c[k]>>).l1Blocks = q.l1Blocks
    BY <1>1, KeepOne DEF Kept
  <2> HIDE DEF r, c
  <2> QED
    BY <2>1, <2>2 DEF DerivedGood, r
<1>7. ASSUME NEW k \in 1 .. Len(c), CheckBatch(q.l1Blocks, c[k]) = "accept",
             r = Derived(IF c[k].batch.epoch = Head(q.l1Blocks) + 1
                         THEN Shifted(Keep(q, After(q, k))) ELSE Keep(q, After(q, k)),
                         c[k].batch)
      PROVE  DerivedGood(r, n)
  <2> DEFINE p == Keep(q, After(q, k))
             b == c[k].batch
  <2>1. QueueGood(p, n) /\ p.l1Blocks = q.l1Blocks
    BY <1>1, KeepAfter DEF Kept
  <2>2. b \in DC!Batch
    <3> HIDE DEF c
    <3>1. c[k] \in Buffered
      BY <1>2, <1>7
    <3>2. b \in BatchSet
      BY <3>1 DEF Buffered
    <3> QED
      BY <3>2, BatchSetIsBatch
  <2> HIDE DEF p
  <2>3. /\ b.epoch \in {Head(q.l1Blocks), Head(q.l1Blocks) + 1}
        /\ b.epoch = Head(q.l1Blocks) \/ Len(q.l1Blocks) >= 2
    BY <1>7, AcceptFits, CandidatesType
  <2>4. r.err = "none" /\ r.batch = b
        /\ r.bq = IF b.epoch = Head(q.l1Blocks) + 1 THEN Shifted(p) ELSE p
    BY <1>7 DEF Derived, p
  <2> HIDE DEF r, b, c
  <2>7. b.epoch <= n
    <3> DEFINE h == Head(q.l1Blocks)
               len == Len(q.l1Blocks)
    <3>1. /\ len = n - h + 1 /\ h \in 0 .. n
          /\ b.epoch \in {h, h + 1} /\ (b.epoch = h \/ len >= 2)
      BY <1>1, <1>3, <2>3, RunHead
    <3> HIDE DEF h, len
    <3> QED
      BY <1>1, <3>1
  <2>5. CASE b.epoch = Head(q.l1Blocks) + 1
    <3>1. Len(q.l1Blocks) >= 2
      BY <1>3, <2>3, <2>5
    <3>2. QueueGood(Shifted(p), n) /\ Head(Shifted(p).l1Blocks) = Head(q.l1Blocks) + 1
      BY <1>1, <2>1, <3>1, ShiftGood
    <3>3. Consistent(b) => b.epoch \in {o, o + 1}
      BY DEF Consistent
    <3> QED
      BY <1>3, <2>2, <2>4, <2>5, <2>7, <3>2, <3>3 DEF DerivedGood, r
  <2>6. CASE b.epoch # Head(q.l1Blocks) + 1
    BY <2>1, <2>2, <2>4, <2>6, <2>7 DEF DerivedGood, r
  <2> QED
    BY <2>5, <2>6
<1> QED
  BY <1>2, <1>4, <1>5, <1>6, <1>7, DeriveCases, Zenon DEF Shifted

-----------------------------------------------------------------------------
(***************************************************************************)
(* The buffer of the batch queue is in order in the sense of InOrder.      *)
(***************************************************************************)
LEMMA OrderForm ==
  ASSUME bq \in Queue
  PROVE  BufferedInOrder <=> InOrder(bq.batches, bq.origin)
<1>1. \A t \in Times : DOMAIN bq.batches[t] = 1 .. Len(bq.batches[t])
  BY DEF Queue
<1> QED
  BY <1>1, SMTT(30) DEF BufferedInOrder, InOrder

(***************************************************************************)
(* A buffer in order stays so when the origin moves on.                    *)
(***************************************************************************)
LEMMA OrderLater ==
  ASSUME NEW q \in Queue, NEW m \in Nat, NEW n \in Nat, m <= n, InOrder(q.batches, m)
  PROVE  InOrder(q.batches, n)
<1>1. \A t \in Times : \A i \in 1 .. Len(q.batches[t]) : q.batches[t][i].included \in Nat
  <2> TAKE t \in Times
  <2>1. q.batches[t] \in Seq(Buffered)
    BY DEF Queue
  <2>2. \A i \in 1 .. Len(q.batches[t]) : q.batches[t][i] \in Buffered
    BY <2>1
  <2> QED
    BY <2>2 DEF Buffered
<1> QED
  BY <1>1 DEF InOrder

(***************************************************************************)
(* Taking over the origin of the stages before: types, buffer and L1       *)
(* blocks.                                                                 *)
(***************************************************************************)
LEMMA TakeTypes ==
  ASSUME ChainTypes, QueueTypes, RunKept, BufferedInOrder
  PROVE  /\ TakeOrigin(bq) \in Queue /\ TakeOrigin(bq).origin = prevOrigin
         /\ TakeOrigin(bq).batches = bq.batches
         /\ InOrder(bq.batches, prevOrigin)
         /\ TakeOrigin(bq).l1Blocks = IF bq.origin = prevOrigin THEN bq.l1Blocks
                                      ELSE IF originBehind THEN << >>
                                      ELSE Append(bq.l1Blocks, prevOrigin)
<1>1. bq \in Queue /\ prevOrigin \in Nat /\ bq.origin <= prevOrigin /\ bq.origin \in Nat
  BY DEF ChainTypes, QueueTypes, RunKept, L1Top, Queue
<1>2. InOrder(bq.batches, prevOrigin)
  BY <1>1, OrderForm, OrderLater
<1> DEFINE bs == IF originBehind THEN << >> ELSE Append(bq.l1Blocks, prevOrigin)
<1>3. bs \in Seq(Nat)
  BY <1>1 DEF Queue
<1>4. TakeOrigin(bq) = IF bq.origin = prevOrigin THEN bq
                       ELSE [bq EXCEPT !.origin = prevOrigin, !.l1Blocks = bs]
  BY DEF TakeOrigin
<1> HIDE DEF bs
<1>5. /\ TakeOrigin(bq) \in Queue /\ TakeOrigin(bq).origin = prevOrigin
      /\ TakeOrigin(bq).batches = bq.batches
      /\ TakeOrigin(bq).l1Blocks = IF bq.origin = prevOrigin THEN bq.l1Blocks ELSE bs
  BY <1>1, <1>3, <1>4 DEF Queue
<1> QED
  BY <1>2, <1>5 DEF bs

(***************************************************************************)
(* When the stages are not behind the safe head, taking over their origin  *)
(* gives a good queue.                                                     *)
(***************************************************************************)
LEMMA TakeGood ==
  ASSUME ChainTypes, QueueTypes, RunKept, BufferedInOrder, ~originBehind
  PROVE  /\ QueueGood(TakeOrigin(bq), prevOrigin)
         /\ ~needReset => Head(TakeOrigin(bq).l1Blocks) <= DC!Origin(safe) + 1
<1> DEFINE o == DC!Origin(safe)
<1>1. /\ prevOrigin \in Nat /\ o \in Nat /\ bq.origin \in Nat
      /\ prevOrigin \in {bq.origin, bq.origin + 1} /\ ~(prevOrigin < o)
  BY OriginIsEpoch DEF ChainTypes, QueueTypes, Queue, L1Top, RunKept, originBehind
<1>2. /\ IsRun(TakeOrigin(bq).l1Blocks, prevOrigin)
      /\ ~needReset => Head(TakeOrigin(bq).l1Blocks) <= o + 1
  <2>1. CASE bq.origin = prevOrigin
    BY <1>1, <2>1, TakeTypes DEF RunKept
  <2>2. CASE bq.origin # prevOrigin
    <3>1. /\ prevOrigin = bq.origin + 1
          /\ TakeOrigin(bq).l1Blocks = Append(bq.l1Blocks, bq.origin + 1)
      BY <1>1, <2>2, TakeTypes
    <3>2. CASE bq.l1Blocks = << >> /\ bq.origin < o
      <4>1. TakeOrigin(bq).l1Blocks = <<prevOrigin>> /\ prevOrigin = o
        BY <1>1, <3>1, <3>2
      <4> QED
        BY <1>1, <4>1, RunOfOne
    <3>3. CASE IsRun(bq.l1Blocks, bq.origin) /\ (~needReset => Head(bq.l1Blocks) <= o + 1)
      <4>1. /\ IsRun(Append(bq.l1Blocks, bq.origin + 1), bq.origin + 1)
            /\ Head(Append(bq.l1Blocks, bq.origin + 1)) = Head(bq.l1Blocks)
        BY <1>1, <3>3, RunAppend
      <4> QED
        BY <3>1, <3>3, <4>1
    <3> QED
      BY <3>2, <3>3 DEF RunKept
  <2> QED
    BY <2>1, <2>2
<1> QED
  BY <1>2, TakeTypes DEF QueueGood

(***************************************************************************)
(* When they are behind, the L1 blocks are thrown out or are still the     *)
(* base of the reset.                                                      *)
(***************************************************************************)
LEMMA TakeBehind ==
  ASSUME ChainTypes, QueueTypes, RunKept, BufferedInOrder, originBehind
  PROVE  \/ TakeOrigin(bq).l1Blocks = << >>
         \/ /\ IsRun(TakeOrigin(bq).l1Blocks, prevOrigin)
            /\ ~needReset => Head(TakeOrigin(bq).l1Blocks) <= DC!Origin(safe) + 1
<1>1. CASE bq.origin = prevOrigin
  BY <1>1, TakeTypes DEF RunKept
<1>2. CASE bq.origin # prevOrigin
  BY <1>2, TakeTypes
<1> QED
  BY <1>1, <1>2

-----------------------------------------------------------------------------
(***************************************************************************)
(* L1 and the safe chain stay: so does what is computed from them.         *)
(***************************************************************************)
LEMMA SameChains ==
  ASSUME UNCHANGED <<l1, safe>>
  PROVE  /\ DC!Head1' = DC!Head1 /\ L1Top' = L1Top
         /\ DC!Origin(safe)' = DC!Origin(safe) /\ DC!NextTime(safe)' = DC!NextTime(safe)
         /\ \A b : Consistent(b)' <=> Consistent(b)
         /\ SafeBlocks' <=> SafeBlocks
  BY DEF DC!Head1, L1Top, DC!Origin, DC!Last, DC!NextTime, Consistent, SafeBlocks

(***************************************************************************)
(* The L1 blocks up to the head exist and hold sequences of batches.       *)
(***************************************************************************)
LEMMA BlockRead ==
  ASSUME ChainTypes
  PROVE  /\ l1[prevOrigin + 1] \in Seq(BatchSet) /\ prevOrigin \in Nat /\ DC!Head1 \in Nat
         /\ \A n \in L1Top : l1[n + 1] \in Seq(BatchSet) /\ n \in DC!L1Numbers
<1>1. Len(l1) \in Nat /\ Len(l1) >= 1 /\ DC!Head1 = Len(l1) - 1
  BY DEF ChainTypes, DC!Head1
<1>2. \A n \in L1Top : n + 1 \in 1 .. Len(l1)
  BY <1>1 DEF L1Top
<1> QED
  BY <1>1, <1>2, L1Below DEF ChainTypes, L1Top

(***************************************************************************)
(* After createNextAttributes the batch is kept for a retry or in the      *)
(* attributes, and fits, or a reset is due.                                *)
(***************************************************************************)
LEMMA CreateStep ==
  ASSUME NEW b \in DC!Batch, createNextAttributes(b), aqBatch \in {NoBatch} \cup DC!Batch,
         safeAttrs = NoBatch, needReset = FALSE, UNCHANGED <<l1, safe>>
  PROVE  /\ aqBatch' \in {NoBatch} \cup DC!Batch /\ safeAttrs' \in {NoBatch} \cup DC!Batch
         /\ {aqBatch', safeAttrs'} \subseteq {NoBatch, aqBatch, b}
         /\ needReset' \in BOOLEAN /\ (~needReset' => Consistent(b))
         /\ AttributesFit'
<1>1. DC!Origin(safe)' = DC!Origin(safe) /\ DC!NextTime(safe)' = DC!NextTime(safe)
  BY SameChains
<1>2. CASE ~Consistent(b) /\ aqBatch' = b /\ needReset' = TRUE /\ UNCHANGED safeAttrs
  BY <1>2 DEF AttributesFit
<1>3. CASE Consistent(b) /\ aqBatch' = b /\ UNCHANGED <<safeAttrs, needReset>>
  <2>1. Consistent(aqBatch)'
    BY <1>1, <1>3 DEF Consistent
  <2> QED
    BY <1>3, <2>1 DEF AttributesFit
<1>4. CASE Consistent(b) /\ safeAttrs' = b /\ aqBatch' = NoBatch /\ UNCHANGED needReset
  <2>1. Consistent(safeAttrs)'
    BY <1>1, <1>4 DEF Consistent
  <2> QED
    BY <1>4, <2>1 DEF AttributesFit
<1> QED
  BY <1>2, <1>3, <1>4 DEF createNextAttributes

(***************************************************************************)
(* A pull that derives keeps the invariant.                                *)
(***************************************************************************)
LEMMA DeriveStep ==
  ASSUME BQInv, CanPull, aqBatch = NoBatch, NEW r, NEW outOfData \in BOOLEAN,
         DerivedGood(r, prevOrigin), AfterDerive(r, outOfData),
         ~outOfData => prevRead < Len(l1[prevOrigin + 1]),
         UNCHANGED <<l1, safe, resets>>
  PROVE  BQInv'
<1>1. /\ DC!Head1' = DC!Head1 /\ L1Top' = L1Top /\ DC!Origin(safe)' = DC!Origin(safe)
      /\ SafeBlocks'
  BY SameChains DEF BQInv
<1>2. /\ QueueGood(r.bq, prevOrigin) /\ bq' = r.bq /\ r.err \in {"Reset", "EOF", "none"}
  BY DEF DerivedGood, AfterDerive
<1>3. /\ prevOrigin \in L1Top /\ prevRead \in 0 .. Len(l1[prevOrigin + 1])
      /\ l1[prevOrigin + 1] \in Seq(BatchSet) /\ prevOrigin \in Nat /\ DC!Head1 \in Nat
      /\ \A n \in L1Top : l1[n + 1] \in Seq(BatchSet)
  BY BlockRead DEF BQInv, ChainTypes
<1>4. /\ prevOrigin' \in {prevOrigin, prevOrigin + 1} /\ prevOrigin' \in L1Top
      /\ prevRead' \in 0 .. Len(l1[prevOrigin' + 1])
  <2>1. CASE UNCHANGED prevVars
    BY <1>3, <2>1 DEF prevVars
  <2>2. CASE prevOrigin < DC!Head1 /\ prevOrigin' = prevOrigin + 1 /\ prevRead' = 0
    <3>1. prevOrigin + 1 \in L1Top
      BY <1>3, <2>2 DEF L1Top
    <3>2. Len(l1[(prevOrigin + 1) + 1]) \in Nat
      BY <1>3, <3>1
    <3> QED
      BY <2>2, <3>1, <3>2
  <2>3. CASE ~outOfData /\ prevOrigin' = prevOrigin /\ prevRead' = prevRead + 1
    <3>1. Len(l1[prevOrigin + 1]) \in Nat
      BY <1>3
    <3> QED
      BY <1>3, <2>3, <3>1
  <2> QED
    BY <2>1, <2>2, <2>3 DEF AfterDerive, AdvanceL1Block
<1>5. /\ aqBatch' \in {NoBatch} \cup DC!Batch /\ safeAttrs' \in {NoBatch} \cup DC!Batch
      /\ \A b \in {aqBatch', safeAttrs'} \ {NoBatch} : b.epoch <= prevOrigin
      /\ needReset' \in BOOLEAN /\ AttributesFit'
      /\ ~needReset' => Head(r.bq.l1Blocks) <= DC!Origin(safe) + 1
  <2>1. safeAttrs = NoBatch /\ needReset = FALSE
    BY DEF CanPull, BQInv, ChainTypes
  <2>2. CASE r.err = "Reset"
    <3>1. needReset' = TRUE /\ UNCHANGED aqVars
      BY <2>2 DEF AfterDerive
    <3> QED
      BY <2>1, <3>1 DEF aqVars, AttributesFit
  <2>3. CASE r.err = "EOF"
    <3>1. UNCHANGED <<aqBatch, safeAttrs, needReset>>
      BY <2>3 DEF AfterDerive
    <3>2. Head(r.bq.l1Blocks) <= DC!Origin(safe) + 1
      BY <2>3 DEF DerivedGood
    <3> QED
      BY <2>1, <3>1, <3>2 DEF AttributesFit
  <2>4. CASE r.err = "none"
    <3>1. createNextAttributes(r.batch)
      BY <2>4 DEF AfterDerive
    <3>2. r.batch \in DC!Batch /\ r.batch.epoch <= prevOrigin
          /\ (Consistent(r.batch) => Head(r.bq.l1Blocks) <= DC!Origin(safe) + 1)
      BY <2>4 DEF DerivedGood
    <3>3. /\ aqBatch' \in {NoBatch} \cup DC!Batch /\ safeAttrs' \in {NoBatch} \cup DC!Batch
          /\ {aqBatch', safeAttrs'} \subseteq {NoBatch, aqBatch, r.batch}
          /\ needReset' \in BOOLEAN /\ (~needReset' => Consistent(r.batch))
          /\ AttributesFit'
      BY <2>1, <3>1, <3>2, CreateStep
    <3> QED
      BY <3>2, <3>3
  <2> QED
    BY <1>2, <2>2, <2>3, <2>4
<1>6. ChainTypes'
  <2>1. Len(l1[prevOrigin' + 1]) = Len(l1'[prevOrigin' + 1])
    OBVIOUS
  <2> QED
    BY <1>1, <1>4, <1>5, <2>1 DEF BQInv, ChainTypes
<1>7. QueueTypes'
  BY <1>2, <1>5 DEF QueueTypes, QueueGood
<1>8. bq'.origin = prevOrigin /\ IsRun(bq'.l1Blocks, prevOrigin)
  BY <1>2 DEF QueueGood
<1>9. RunKept'
  BY <1>1, <1>2, <1>4, <1>5, <1>8 DEF RunKept
<1>10. BufferedInOrder'
  <2>1. bq' \in Queue /\ InOrder(bq'.batches, bq'.origin)
    BY <1>2 DEF QueueGood
  <2>2. \A t \in Times : DOMAIN bq'.batches[t] = 1 .. Len(bq'.batches[t])
    BY <2>1 DEF Queue
  <2> QED
    BY <2>1, <2>2 DEF BufferedInOrder, InOrder
<1>11. OriginsRead'
  <2>1. \A b \in {aqBatch', safeAttrs'} \ {NoBatch} : b \in DC!Batch /\ b.epoch \in Nat
    BY <1>5, BatchQueueAssumption DEF DC!Batch, DC!Epochs, DC!L1Numbers
  <2>2. NoBatch' = NoBatch
    BY DEF NoBatch
  <2> QED
    BY <1>3, <1>4, <1>5, <2>1, <2>2 DEF OriginsRead
<1> QED
  BY <1>1, <1>5, <1>6, <1>7, <1>9, <1>10, <1>11 DEF BQInv

(***************************************************************************)
(* So does a step that only takes over the origin, and may move on to the  *)
(* next L1 block.                                                          *)
(***************************************************************************)
LEMMA TakeStep ==
  ASSUME BQInv, bq' = TakeOrigin(bq),
         UNCHANGED <<l1, safe, aqBatch, safeAttrs, needReset, resets>>,
         prevOrigin' \in {prevOrigin, prevOrigin + 1}, prevOrigin' \in L1Top,
         prevRead' \in 0 .. Len(l1[prevOrigin' + 1])
  PROVE  BQInv'
<1>1. /\ DC!Head1' = DC!Head1 /\ L1Top' = L1Top /\ DC!Origin(safe)' = DC!Origin(safe)
      /\ DC!NextTime(safe)' = DC!NextTime(safe)
      /\ SafeBlocks' /\ NoBatch' = NoBatch
  BY SameChains DEF BQInv, NoBatch
<1>2. ChainTypes /\ QueueTypes /\ RunKept /\ BufferedInOrder
  BY DEF BQInv
<1>3. /\ bq' \in Queue /\ bq'.origin = prevOrigin /\ bq'.batches = bq.batches
      /\ InOrder(bq.batches, prevOrigin) /\ prevOrigin \in Nat
  BY <1>2, TakeTypes, BlockRead
<1>4. ChainTypes'
  <2>1. Len(l1[prevOrigin' + 1]) = Len(l1'[prevOrigin' + 1])
    OBVIOUS
  <2> QED
    BY <1>1, <1>2, <2>1 DEF ChainTypes
<1>5. QueueTypes'
  BY <1>1, <1>2, <1>3 DEF QueueTypes
<1>6. RunKept'
  <2>1. CASE originBehind
    <3>1. prevOrigin < DC!Origin(safe)
      BY <2>1 DEF originBehind
    <3>2. \/ bq'.l1Blocks = << >>
          \/ /\ IsRun(bq'.l1Blocks, prevOrigin)
             /\ ~needReset => Head(bq'.l1Blocks) <= DC!Origin(safe) + 1
      BY <1>2, <2>1, TakeBehind
    <3> QED
      BY <1>1, <1>3, <3>1, <3>2 DEF RunKept
  <2>2. CASE ~originBehind
    <3>1. /\ IsRun(bq'.l1Blocks, prevOrigin)
          /\ ~needReset => Head(bq'.l1Blocks) <= DC!Origin(safe) + 1
      BY <1>2, <2>2, TakeGood DEF QueueGood
    <3> QED
      BY <1>1, <1>3, <3>1 DEF RunKept
  <2> QED
    BY <2>1, <2>2
<1>7. AttributesFit'
  BY <1>1 DEF BQInv, AttributesFit, Consistent
<1>8. OriginsRead'
  <2>1. \A b \in {aqBatch, safeAttrs} \ {NoBatch} : b.epoch \in Nat
    BY <1>2, BatchQueueAssumption DEF QueueTypes, DC!Batch, DC!Epochs, DC!L1Numbers
  <2> QED
    BY <1>1, <1>3, <2>1 DEF BQInv, OriginsRead
<1>9. BufferedInOrder'
  <2>1. \A t \in Times : DOMAIN bq'.batches[t] = 1 .. Len(bq'.batches[t])
    BY <1>3 DEF Queue
  <2>2. InOrder(bq'.batches, bq'.origin)
    BY <1>3
  <2> QED
    BY <2>1, <2>2 DEF BufferedInOrder, InOrder
<1> QED
  BY <1>1, <1>4, <1>5, <1>6, <1>7, <1>8, <1>9 DEF BQInv

(***************************************************************************)
(* Making the attributes again after a failure.                            *)
(***************************************************************************)
LEMMA RetryStep ==
  ASSUME BQInv, RetryAttributes
  PROVE  BQInv'
<1>1. /\ UNCHANGED <<l1, safe, bq, resets>> /\ UNCHANGED <<prevOrigin, prevRead>>
      /\ createNextAttributes(aqBatch) /\ aqBatch # NoBatch /\ safeAttrs = NoBatch
  BY DEF RetryAttributes, CanPull, prevVars
<1>2. /\ DC!Head1' = DC!Head1 /\ L1Top' = L1Top /\ DC!Origin(safe)' = DC!Origin(safe)
      /\ SafeBlocks' /\ NoBatch' = NoBatch
  BY <1>1, SameChains DEF BQInv, NoBatch
<1>3. aqBatch \in DC!Batch /\ needReset = FALSE
  BY <1>1 DEF BQInv, QueueTypes, ChainTypes, RetryAttributes, CanPull
<1>4. /\ aqBatch' \in {NoBatch} \cup DC!Batch /\ safeAttrs' \in {NoBatch} \cup DC!Batch
      /\ {aqBatch', safeAttrs'} \subseteq {NoBatch, aqBatch}
      /\ needReset' \in BOOLEAN
      /\ AttributesFit'
  BY <1>1, <1>3, CreateStep
<1>5. ChainTypes' /\ QueueTypes'
  BY <1>1, <1>2, <1>4 DEF BQInv, ChainTypes, QueueTypes
<1>6. RunKept'
  BY <1>1, <1>2, <1>3 DEF BQInv, RunKept
<1>7. OriginsRead'
  BY <1>1, <1>2, <1>4 DEF BQInv, OriginsRead
<1>8. BufferedInOrder'
  BY <1>1 DEF BQInv, BufferedInOrder
<1> QED
  BY <1>2, <1>4, <1>5, <1>6, <1>7, <1>8 DEF BQInv

(***************************************************************************)
(* The three kinds of pulls.                                               *)
(***************************************************************************)
LEMMA PullStep ==
  ASSUME BQInv, Pull
  PROVE  BQInv'
<1>1. ChainTypes /\ QueueTypes /\ RunKept /\ BufferedInOrder
  BY DEF BQInv
<1>2. /\ l1[prevOrigin + 1] \in Seq(BatchSet) /\ prevOrigin \in Nat /\ DC!Head1 \in Nat
      /\ prevOrigin \in DC!L1Numbers /\ prevOrigin \in L1Top
      /\ prevRead \in 0 .. Len(l1[prevOrigin + 1])
      /\ \A n \in L1Top : l1[n + 1] \in Seq(BatchSet)
  BY <1>1, BlockRead DEF ChainTypes
<1>3. Len(l1[prevOrigin + 1]) \in Nat
  BY <1>2
<1>4. CASE PullNotEnoughData
  BY <1>2, <1>4, TakeStep DEF PullNotEnoughData, aqVars, prevVars
<1>5. CASE PullBatch /\ originBehind
  <2>1. /\ bq' = TakeOrigin(bq) /\ prevRead' = prevRead + 1 /\ prevOrigin' = prevOrigin
        /\ UNCHANGED <<l1, safe, aqBatch, safeAttrs, needReset, resets>>
        /\ prevRead < Len(l1[prevOrigin + 1])
    BY <1>5 DEF PullBatch
  <2>2. prevRead' \in 0 .. Len(l1[prevOrigin' + 1])
    BY <1>2, <1>3, <2>1
  <2> QED
    BY <1>2, <2>1, <2>2, TakeStep
<1>6. CASE PullEOF /\ originBehind
  <2>1. /\ bq' = TakeOrigin(bq) /\ AdvanceL1Block
        /\ UNCHANGED <<l1, safe, aqBatch, safeAttrs, needReset, resets>>
    BY <1>6 DEF PullEOF
  <2>2. /\ prevOrigin' \in {prevOrigin, prevOrigin + 1} /\ prevOrigin' \in L1Top
        /\ prevRead' \in 0 .. Len(l1[prevOrigin' + 1])
    <3>1. CASE UNCHANGED prevVars
      BY <1>2, <3>1 DEF prevVars
    <3>2. CASE prevOrigin < DC!Head1 /\ prevOrigin' = prevOrigin + 1 /\ prevRead' = 0
      <4>1. prevOrigin + 1 \in L1Top
        BY <1>2, <3>2 DEF L1Top
      <4>2. Len(l1[(prevOrigin + 1) + 1]) \in Nat
        BY <1>2, <4>1
      <4> QED
        BY <3>2, <4>1, <4>2
    <3> QED
      BY <2>1, <3>1, <3>2 DEF AdvanceL1Block
  <2> QED
    BY <2>1, <2>2, TakeStep
<1>7. CASE PullBatch /\ ~originBehind
  <2> DEFINE b == l1[prevOrigin + 1][prevRead + 1]
             q == AddBatch(TakeOrigin(bq), b)
             r == deriveNextBatch(q, FALSE)
  <2>1. /\ AfterDerive(r, FALSE) /\ CanPull /\ aqBatch = NoBatch
        /\ prevRead < Len(l1[prevOrigin + 1]) /\ UNCHANGED <<l1, safe, resets>>
    BY <1>7 DEF PullBatch
  <2>2. b \in BatchSet
    BY <1>2, <1>3, <2>1
  <2>3. /\ QueueGood(TakeOrigin(bq), prevOrigin)
        /\ Head(TakeOrigin(bq).l1Blocks) <= DC!Origin(safe) + 1
    BY <1>1, <1>7, <2>1, TakeGood DEF CanPull
  <2> HIDE DEF b
  <2>4. QueueGood(q, prevOrigin) /\ Head(q.l1Blocks) <= DC!Origin(safe) + 1
    BY <1>2, <2>2, <2>3, AddGood
  <2> HIDE DEF q
  <2>5. DerivedGood(r, prevOrigin)
    BY <1>1, <1>2, <2>4, DeriveGood DEF ChainTypes
  <2> HIDE DEF r
  <2> QED
    BY <2>1, <2>5, DeriveStep
<1>8. CASE PullEOF /\ ~originBehind
  <2> DEFINE q == TakeOrigin(bq)
             r == deriveNextBatch(q, TRUE)
  <2>1. /\ AfterDerive(r, TRUE) /\ CanPull /\ aqBatch = NoBatch
        /\ UNCHANGED <<l1, safe, resets>>
    BY <1>8 DEF PullEOF
  <2>2. /\ QueueGood(q, prevOrigin)
        /\ Head(q.l1Blocks) <= DC!Origin(safe) + 1
    BY <1>1, <1>8, <2>1, TakeGood DEF CanPull
  <2> HIDE DEF q
  <2>3. DerivedGood(r, prevOrigin)
    BY <1>1, <1>2, <2>2, DeriveGood DEF ChainTypes
  <2> HIDE DEF r
  <2> QED
    BY <2>1, <2>3, DeriveStep
<1> QED
  BY <1>4, <1>5, <1>6, <1>7, <1>8 DEF Pull

(***************************************************************************)
(* The origin and the next time of a longer chain.                         *)
(***************************************************************************)
LEMMA AppendOrigin ==
  ASSUME NEW c \in Seq(Block), NEW e \in Block
  PROVE  /\ DC!Origin(Append(c, e)) = e.epoch /\ Append(c, e) \in Seq(Block)
         /\ DC!NextTime(Append(c, e)) = DC!NextTime(c) + BlockTime
<1>1. /\ Append(c, e) \in Seq(Block) /\ Len(Append(c, e)) = Len(c) + 1 /\ Len(c) \in Nat
      /\ Append(c, e)[Len(c) + 1] = e /\ Append(c, e) # << >>
  OBVIOUS
<1>2. DC!Origin(Append(c, e)) = e.epoch
  BY <1>1 DEF DC!Origin, DC!Last
<1>3. DC!NextTime(Append(c, e)) = (Len(c) + 1 + 1) * BlockTime
  BY <1>1 DEF DC!NextTime
<1>4. \A x, y \in Nat : (x + 1) * y = x * y + y
  OBVIOUS
<1>5. (Len(c) + 1 + 1) * BlockTime = (Len(c) + 1) * BlockTime + BlockTime
  BY <1>1, <1>4, BatchQueueAssumption
<1> QED
  BY <1>1, <1>2, <1>3, <1>5 DEF DC!NextTime

(***************************************************************************)
(* Making a safe block of the attributes keeps the invariant: it fits the  *)
(* safe head, and its origin exists.                                       *)
(***************************************************************************)
LEMMA ProcessStep ==
  ASSUME BQInv, ProcessAttributes
  PROVE  BQInv'
<1>1. /\ UNCHANGED <<l1, bq, aqBatch, needReset, resets>> /\ UNCHANGED <<prevOrigin, prevRead>>
      /\ safeAttrs' = NoBatch /\ safeAttrs # NoBatch /\ ~needReset
  BY DEF ProcessAttributes, prevVars
<1>2. /\ safeAttrs \in DC!Batch /\ Consistent(safeAttrs) /\ aqBatch = NoBatch
      /\ safeAttrs.epoch <= prevOrigin /\ safe \in Seq(Block)
  BY <1>1 DEF BQInv, QueueTypes, AttributesFit, OriginsRead, ChainTypes
<1>3. DC!Head1' = DC!Head1 /\ L1Top' = L1Top /\ NoBatch' = NoBatch
  BY <1>1 DEF DC!Head1, L1Top, NoBatch
<1> DEFINE e == [epoch |-> safeAttrs.epoch, content |-> safeAttrs.content]
           o == DC!Origin(safe)
           o2 == DC!Origin(safe')
<1>4. e \in Block /\ e.epoch = safeAttrs.epoch /\ safeAttrs.epoch \in Nat
  BY <1>2, BatchQueueAssumption DEF DC!Batch, Block, DC!Epochs, DC!L1Numbers
<1>5. safe' = safe \/ safe' = Append(safe, e)
  BY DEF ProcessAttributes
<1> HIDE DEF e
<1>6. safe' \in Seq(Block) /\ o \in Nat /\ o2 \in Nat /\ o <= o2
  <2>1. o \in Nat /\ safeAttrs.epoch \in {o, o + 1}
    BY <1>2, OriginIsEpoch DEF Consistent
  <2>2. CASE safe' = safe
    BY <1>2, <2>1, <2>2
  <2>3. CASE safe' = Append(safe, e)
    <3>1. o2 = safeAttrs.epoch /\ safe' \in Seq(Block)
      BY <1>2, <1>4, <2>3, AppendOrigin
    <3> QED
      BY <1>4, <2>1, <3>1
  <2> QED
    BY <1>5, <2>2, <2>3
<1>7. SafeBlocks'
  <2>1. CASE safe' = safe
    BY <1>3, <2>1 DEF BQInv, SafeBlocks
  <2>2. CASE safe' = Append(safe, e)
    <3>1. /\ Len(safe) \in Nat /\ Len(safe') = Len(safe) + 1 /\ safe'[Len(safe) + 1] = e
          /\ \A i \in 1 .. Len(safe) : safe'[i] = safe[i]
      BY <1>2, <1>4, <2>2
    <3>2. (Len(safe) + 1) * BlockTime >= L1Time[e.epoch]
      BY <1>2, <1>4 DEF Consistent, DC!NextTime
    <3>3. e.epoch <= DC!Head1
      BY <1>2, <1>4, BlockRead DEF BQInv, ChainTypes, L1Top
    <3>4. ASSUME NEW i \in 1 .. Len(safe')
          PROVE  safe'[i].epoch <= DC!Head1 /\ i * BlockTime >= L1Time[safe'[i].epoch]
      <4>1. CASE i \in 1 .. Len(safe)
        BY <3>1, <4>1 DEF BQInv, SafeBlocks
      <4>2. CASE i = Len(safe) + 1
        BY <3>1, <3>2, <3>3, <4>2
      <4> QED
        BY <3>1, <3>4, <4>1, <4>2
    <3> QED
      BY <1>3, <3>4 DEF SafeBlocks
  <2> QED
    BY <1>5, <2>1, <2>2
<1>8. ChainTypes' /\ QueueTypes'
  BY <1>1, <1>3, <1>6 DEF BQInv, ChainTypes, QueueTypes
<1>9. RunKept'
  <2>1. DC!Origin(safe)' = o2
    OBVIOUS
  <2>2. bq.l1Blocks = << >> \/ (IsRun(bq.l1Blocks, bq.origin) /\ Head(bq.l1Blocks) <= o + 1)
    BY <1>1 DEF BQInv, RunKept
  <2>3. IsRun(bq.l1Blocks, bq.origin) => Head(bq.l1Blocks) \in Nat
    BY RunHead DEF BQInv, QueueTypes, Queue
  <2>4. bq.origin \in Nat
    BY DEF BQInv, QueueTypes, Queue
  <2> HIDE DEF o, o2
  <2> QED
    BY <1>1, <1>6, <2>1, <2>2, <2>3, <2>4 DEF BQInv, RunKept, o
<1>10. AttributesFit' /\ OriginsRead'
  BY <1>1, <1>2, <1>3 DEF AttributesFit, OriginsRead
<1>11. BufferedInOrder'
  BY <1>1 DEF BQInv, BufferedInOrder
<1> QED
  BY <1>7, <1>8, <1>9, <1>10, <1>11 DEF BQInv

(***************************************************************************)
(* A reset of the stages keeps the invariant: they start at an L1 block    *)
(* that is not after the origin of the safe head.                          *)
(***************************************************************************)
LEMMA ResetStep ==
  ASSUME BQInv, ResetStages, resets' \in 0 .. MaxResets
  PROVE  BQInv'
<1> DEFINE o2 == DC!Origin(safe')
<1>1. PICK n \in 0 .. Len(safe) : safe' = SubSeq(safe, 1, n)
  BY DEF ResetStages
<1>2. safe \in Seq(Block) /\ Len(safe) \in Nat
  BY DEF BQInv, ChainTypes
<1>3. /\ safe' \in Seq(Block) /\ Len(safe') = n
      /\ \A i \in 1 .. n : safe'[i] = safe[i]
  <2>1. /\ SubSeq(safe, 1, n) \in Seq(Block)
        /\ Len(SubSeq(safe, 1, n)) = IF 1 <= n THEN n - 1 + 1 ELSE 0
        /\ \A i \in 1 .. n - 1 + 1 : SubSeq(safe, 1, n)[i] = safe[1 + i - 1]
    <3>1. \A i \in 1 .. n : safe[i] \in Block
      BY <1>2
    <3> QED
      BY <3>1, SubSeqProperties
  <2>2. n - 1 + 1 = n /\ \A i \in 1 .. n : 1 + i - 1 = i
    OBVIOUS
  <2> QED
    BY <1>1, <2>1, <2>2
<1>4. /\ prevOrigin' = IF o2 > ChannelTimeout THEN o2 - ChannelTimeout ELSE 0
      /\ prevRead' = 0 /\ aqBatch' = NoBatch /\ safeAttrs' = NoBatch /\ needReset' = FALSE
      /\ l1' = l1
      /\ bq' = [origin |-> prevOrigin', l1Blocks |-> <<prevOrigin'>>,
                batches |-> [t \in Times |-> << >>]]
  BY DEF ResetStages
<1>5. SafeBlocks' /\ DC!Head1' = DC!Head1 /\ L1Top' = L1Top /\ NoBatch' = NoBatch
  <2>1. DC!Head1' = DC!Head1 /\ L1Top' = L1Top /\ NoBatch' = NoBatch
    BY <1>4 DEF DC!Head1, L1Top, NoBatch
  <2>2. \A i \in 1 .. n : i \in 1 .. Len(safe)
    BY <1>2
  <2> QED
    BY <1>3, <2>1, <2>2 DEF BQInv, SafeBlocks
<1>6. o2 \in L1Top /\ o2 \in Nat /\ DC!Head1 \in Nat
  <2>1. DC!Head1 \in Nat
    BY BlockRead DEF BQInv
  <2>2. o2 \in Nat
    BY <1>3, OriginIsEpoch
  <2>3. CASE safe' = << >>
    BY <2>1, <2>3 DEF DC!Origin, L1Top
  <2>4. CASE safe' # << >>
    <3>1. n \in 1 .. Len(safe) /\ o2 = safe[n].epoch
      BY <1>3, <2>4 DEF DC!Origin, DC!Last
    <3> QED
      BY <2>1, <2>2, <3>1 DEF BQInv, SafeBlocks, L1Top
  <2> QED
    BY <2>1, <2>2, <2>3, <2>4
<1> DEFINE po == prevOrigin'
<1>7. po \in L1Top /\ po \in Nat /\ po <= o2
  <2> HIDE DEF o2
  <2> QED
    BY <1>4, <1>6, BatchQueueAssumption DEF L1Top
<1>8. ChainTypes'
  <2>1. Len(l1[prevOrigin' + 1]) \in Nat
    BY <1>7, BlockRead DEF BQInv
  <2>2. prevRead' \in 0 .. Len(l1'[prevOrigin' + 1]) /\ prevOrigin' \in L1Top'
    BY <1>4, <1>5, <1>7, <2>1
  <2> QED
    BY <1>3, <1>4, <1>5, <2>2 DEF BQInv, ChainTypes
<1> HIDE DEF po
<1>9. /\ bq' \in Queue /\ bq'.origin = po /\ bq'.l1Blocks = <<po>>
      /\ bq'.batches = [t \in Times |-> << >>]
  BY <1>4, <1>7 DEF Queue, po
<1>10. QueueTypes'
  BY <1>4, <1>5, <1>9 DEF QueueTypes
<1>11. RunKept'
  <2>1. IsRun(<<po>>, po) /\ Head(<<po>>) = po
    BY <1>7, RunOfOne
  <2>2. DC!Origin(safe)' = o2
    OBVIOUS
  <2> HIDE DEF o2
  <2>3. Head(bq'.l1Blocks) <= o2 + 1
    BY <1>6, <1>7, <1>9, <2>1
  <2> QED
    BY <1>9, <2>1, <2>2, <2>3 DEF RunKept, po
<1>12. AttributesFit' /\ OriginsRead'
  BY <1>4, <1>5 DEF AttributesFit, OriginsRead
<1>13. BufferedInOrder'
  BY <1>9 DEF BufferedInOrder
<1> QED
  BY <1>5, <1>8, <1>10, <1>11, <1>12, <1>13 DEF BQInv

(***************************************************************************)
(* A new L1 block is appended to L1.                                       *)
(***************************************************************************)
LEMMA MineTypes ==
  ASSUME ChainTypes, DC!Mine
  PROVE  /\ \E bs \in Seq(BatchSet) : l1' = Append(l1, bs)
         /\ l1' \in Seq(Seq(BatchSet)) /\ DC!Head1' = DC!Head1 + 1 /\ DC!Head1' \in DC!L1Numbers
         /\ \A i \in 1 .. Len(l1) : l1'[i] = l1[i]
<1> DEFINE B == {b \in BatchSet : b.canonical => b.epoch < Len(l1)}
<1>1. PICK bs \in DC!SeqOf(B, MaxBatches) : l1' = Append(l1, bs)
  BY DEF DC!Mine
<1>2. bs \in Seq(BatchSet)
  <2>1. PICK m \in 0 .. MaxBatches : bs \in [1 .. m -> B]
    BY DEF DC!SeqOf
  <2>2. m \in Nat /\ bs \in [1 .. m -> BatchSet]
    BY <2>1, BatchQueueAssumption
  <2> QED
    BY <2>2
<1>3. l1 \in Seq(Seq(BatchSet)) /\ Len(l1) \in DC!L1Numbers /\ Len(l1) \in Nat
  BY DEF ChainTypes, DC!Mine
<1>4. /\ l1' \in Seq(Seq(BatchSet)) /\ Len(l1') = Len(l1) + 1
      /\ \A i \in 1 .. Len(l1) : l1'[i] = l1[i]
  BY <1>1, <1>2, <1>3
<1>5. DC!Head1' = Len(l1') - 1
  BY DEF DC!Head1
<1> QED
  BY <1>1, <1>2, <1>3, <1>4, <1>5 DEF DC!Head1

(***************************************************************************)
(* A new L1 block keeps the invariant.                                     *)
(***************************************************************************)
LEMMA GrowStep ==
  ASSUME BQInv, L1Grows
  PROVE  BQInv'
<1>1. /\ UNCHANGED <<safe, bq, aqBatch, safeAttrs, needReset, resets>>
      /\ UNCHANGED <<prevOrigin, prevRead>> /\ DC!Mine
  BY DEF L1Grows, DC!Mine
<1>2. /\ l1' \in Seq(Seq(BatchSet)) /\ DC!Head1' = DC!Head1 + 1 /\ DC!Head1' \in DC!L1Numbers
      /\ \A i \in 1 .. Len(l1) : l1'[i] = l1[i]
  BY <1>1, MineTypes DEF BQInv
<1>3. /\ DC!Origin(safe)' = DC!Origin(safe) /\ DC!NextTime(safe)' = DC!NextTime(safe)
      /\ NoBatch' = NoBatch
  BY <1>1 DEF DC!Origin, DC!Last, DC!NextTime, NoBatch
<1>4. DC!Head1 \in Nat /\ DC!Head1 = Len(l1) - 1 /\ Len(l1) \in Nat
  BY BlockRead DEF BQInv, ChainTypes, DC!Head1
<1>5. ChainTypes'
  <2>1. prevOrigin \in L1Top /\ prevOrigin + 1 \in 1 .. Len(l1)
    BY <1>4 DEF BQInv, ChainTypes, L1Top
  <2>2. L1Top' = 0 .. DC!Head1 + 1
    BY <1>2 DEF L1Top
  <2>3. prevOrigin \in L1Top'
    BY <1>2, <1>4, <2>1 DEF L1Top
  <2>4. l1'[prevOrigin + 1] = l1[prevOrigin + 1] /\ l1' # << >>
    BY <1>2, <1>4, <2>1 DEF DC!Head1
  <2> QED
    BY <1>1, <1>2, <2>3, <2>4 DEF BQInv, ChainTypes
<1>6. QueueTypes' /\ RunKept' /\ OriginsRead' /\ BufferedInOrder'
  BY <1>1, <1>3 DEF BQInv, QueueTypes, RunKept, OriginsRead, BufferedInOrder
<1>7. AttributesFit'
  BY <1>1, <1>3 DEF BQInv, AttributesFit, Consistent
<1>8. SafeBlocks'
  <2>1. \A i \in 1 .. Len(safe) : safe[i].epoch \in Nat
    <3>1. \A i \in 1 .. Len(safe) : safe[i] \in Block
      BY DEF BQInv, ChainTypes
    <3> QED
      BY <3>1, BatchQueueAssumption DEF Block, DC!Epochs, DC!L1Numbers
  <2>2. \A i \in 1 .. Len(safe) : safe[i].epoch <= DC!Head1 + 1
    BY <1>4, <2>1 DEF BQInv, SafeBlocks
  <2> QED
    BY <1>1, <1>2, <2>2 DEF BQInv, SafeBlocks
<1> QED
  BY <1>5, <1>6, <1>7, <1>8 DEF BQInv

(***************************************************************************)
(* The start establishes the invariant.                                    *)
(***************************************************************************)
LEMMA BQInitInv == BQInit => BQInv
<1> SUFFICES ASSUME BQInit PROVE BQInv
  OBVIOUS
<1> DEFINE B == {b \in BatchSet : ~b.canonical}
<1>1. PICK bs \in DC!SeqOf(B, MaxBatches) : l1 = <<bs>>
  BY DEF BQInit, DC!Init
<1>2. bs \in Seq(BatchSet)
  <2>1. PICK m \in 0 .. MaxBatches : bs \in [1 .. m -> B]
    BY DEF DC!SeqOf
  <2>2. m \in Nat /\ bs \in [1 .. m -> BatchSet]
    BY <2>1, BatchQueueAssumption
  <2> QED
    BY <2>2
<1>3. /\ l1 \in Seq(Seq(BatchSet)) /\ l1 # << >> /\ Len(l1) = 1 /\ l1[0 + 1] = bs
      /\ DC!Head1 = 0
  BY <1>1, <1>2 DEF DC!Head1
<1>4. /\ safe = << >> /\ aqBatch = NoBatch /\ safeAttrs = NoBatch
      /\ prevOrigin = 0 /\ prevRead = 0 /\ needReset = FALSE /\ resets = 0
      /\ bq = [origin |-> 0, l1Blocks |-> <<0>>, batches |-> [t \in Times |-> << >>]]
  BY DEF BQInit, DC!Init
<1>5. ChainTypes
  <2>1. safe \in Seq(Block) /\ 0 \in DC!L1Numbers /\ 0 \in L1Top
    BY <1>3, <1>4, BatchQueueAssumption DEF DC!L1Numbers, L1Top
  <2>2. prevRead \in 0 .. Len(l1[prevOrigin + 1]) /\ resets \in 0 .. MaxResets
    BY <1>2, <1>3, <1>4, BatchQueueAssumption
  <2> QED
    BY <1>3, <1>4, <2>1, <2>2 DEF ChainTypes
<1>6. bq \in Queue /\ bq.origin = 0 /\ bq.l1Blocks = <<0>> /\ bq.batches = [t \in Times |-> << >>]
  BY <1>4 DEF Queue
<1>7. QueueTypes
  BY <1>4, <1>6 DEF QueueTypes
<1>8. RunKept
  <2>1. IsRun(<<0>>, 0) /\ Head(<<0>>) = 0
    BY RunOfOne
  <2>2. DC!Origin(safe) = 0
    BY <1>4 DEF DC!Origin
  <2>3. Head(bq.l1Blocks) <= DC!Origin(safe) + 1
    BY <1>6, <2>1, <2>2
  <2> QED
    BY <1>4, <1>6, <2>1, <2>3 DEF RunKept
<1>9. AttributesFit /\ OriginsRead /\ SafeBlocks
  BY <1>4 DEF AttributesFit, OriginsRead, SafeBlocks
<1>10. BufferedInOrder
  BY <1>6 DEF BufferedInOrder
<1> QED
  BY <1>5, <1>7, <1>8, <1>9, <1>10 DEF BQInv

(***************************************************************************)
(* A stuttering step keeps the invariant.                                  *)
(***************************************************************************)
LEMMA BQStuttering == BQInv /\ UNCHANGED bqVars => BQInv'
<1> SUFFICES ASSUME BQInv, UNCHANGED bqVars PROVE BQInv'
  OBVIOUS
<1>1. UNCHANGED <<l1, safe, bq, aqBatch, safeAttrs, prevOrigin, prevRead, needReset, resets>>
  BY DEF bqVars
<1>2. /\ DC!Head1' = DC!Head1 /\ L1Top' = L1Top /\ DC!Origin(safe)' = DC!Origin(safe)
      /\ DC!NextTime(safe)' = DC!NextTime(safe) /\ SafeBlocks' /\ NoBatch' = NoBatch
  BY <1>1, SameChains DEF BQInv, NoBatch
<1>3. ChainTypes' /\ QueueTypes' /\ RunKept' /\ OriginsRead' /\ BufferedInOrder'
  BY <1>1, <1>2 DEF BQInv, ChainTypes, QueueTypes, RunKept, OriginsRead, BufferedInOrder
<1>4. AttributesFit'
  BY <1>1, <1>2 DEF BQInv, AttributesFit, Consistent
<1> QED
  BY <1>2, <1>3, <1>4 DEF BQInv

(***************************************************************************)
(* Every step keeps the invariant.                                         *)
(***************************************************************************)
LEMMA BQStep == BQInv /\ [BQNext]_bqVars => BQInv'
<1> SUFFICES ASSUME BQInv, [BQNext]_bqVars PROVE BQInv'
  OBVIOUS
<1>1. CASE Pull
  BY <1>1, PullStep
<1>2. CASE RetryAttributes
  BY <1>2, RetryStep
<1>3. CASE ProcessAttributes
  BY <1>3, ProcessStep
<1>4. CASE Reset
  BY <1>4, ResetStep DEF Reset, BQInv, ChainTypes
<1>5. CASE ResetByOther
  <2>1. resets' \in 0 .. MaxResets
    BY <1>5, BatchQueueAssumption DEF ResetByOther, BQInv, ChainTypes
  <2> QED
    BY <1>5, <2>1, ResetStep DEF ResetByOther
<1>6. CASE L1Grows
  BY <1>6, GrowStep
<1>7. CASE UNCHANGED bqVars
  BY <1>7, BQStuttering
<1> QED
  BY <1>1, <1>2, <1>3, <1>4, <1>5, <1>6, <1>7 DEF BQNext

(***************************************************************************)
(* The invariant holds.                                                    *)
(***************************************************************************)
LEMMA BQInvHolds == BQSpec => []BQInv
  BY BQInitInv, BQStep, PTL DEF BQSpec

-----------------------------------------------------------------------------
(***************************************************************************)
(* Batch queue, attributes queue and the position in the stages before     *)
(* them keep their types, for every L1 chain and every set of batches: the *)
(* batch queue only holds L1 blocks and batches that exist.                *)
(***************************************************************************)
THEOREM BQTypeCorrect == BQSpec => []BQTypeOK
<1>1. ASSUME BQInv PROVE BQTypeOK
  <2>1. /\ Len(l1) - 1 \in DC!L1Numbers /\ DC!Head1 \in Nat /\ prevOrigin \in 0 .. DC!Head1
        /\ l1 \in Seq(Seq(BatchSet))
    BY <1>1, BlockRead DEF BQInv, ChainTypes, DC!Head1, L1Top
  <2>2. DOMAIN bq = {"origin", "l1Blocks", "batches"} /\ DOMAIN bq.batches = Times
    BY <1>1 DEF BQInv, QueueTypes, Queue
  <2>3. bq.origin \in 0 .. DC!Head1
    BY <1>1, <2>1 DEF BQInv, RunKept, QueueTypes, Queue
  <2>4. bq.l1Blocks \in Seq(0 .. DC!Head1)
    <3>1. CASE bq.l1Blocks = << >>
      BY <3>1
    <3>2. CASE IsRun(bq.l1Blocks, bq.origin)
      <4>1. bq.l1Blocks \in Seq(0 .. bq.origin)
        BY <2>3, <3>2, RunHead
      <4>2. 0 .. bq.origin \subseteq 0 .. DC!Head1
        BY <2>1, <2>3
      <4> QED
        BY <4>1, <4>2, SeqOfSubset
    <3> QED
      BY <1>1, <3>1, <3>2 DEF BQInv, RunKept
  <2>5. safe \in Seq([epoch : DOMAIN L1Time, content : DC!Contents])
    BY <1>1 DEF BQInv, ChainTypes, Block, DC!Epochs, DC!L1Numbers
  <2> QED
    BY <1>1, <2>1, <2>2, <2>3, <2>4, <2>5 DEF BQTypeOK, BQInv, ChainTypes, DC!L1Numbers
<1> QED
  BY <1>1, BQInvHolds, PTL

(***************************************************************************)
(* When the stages are not behind the safe head, NextBatch works on a      *)
(* gapless run of L1 blocks from at most one after the origin of the safe  *)
(* head: AddBatch and deriveNextBatch never meet an empty list, and no L1  *)
(* block is skipped as an epoch, with any channel timeout and any base of  *)
(* a reset.                                                                *)
(***************************************************************************)
THEOREM BQEpochPrepared == BQSpec => []EpochPrepared
<1>1. ASSUME BQInv PROVE EpochPrepared
  <2> SUFFICES ASSUME ~needReset, ~originBehind
               PROVE  LET bs == TakeOrigin(bq).l1Blocks
                      IN  /\ bs # << >>
                          /\ Head(bs) <= DC!Origin(safe) + 1
                          /\ bs = [i \in 1 .. prevOrigin - Head(bs) + 1 |-> Head(bs) + i - 1]
    BY DEF EpochPrepared
  <2>1. /\ IsRun(TakeOrigin(bq).l1Blocks, prevOrigin)
        /\ Head(TakeOrigin(bq).l1Blocks) <= DC!Origin(safe) + 1
    BY <1>1, TakeGood DEF BQInv, QueueGood
  <2>2. prevOrigin \in Nat
    BY <1>1, BlockRead DEF BQInv
  <2> DEFINE bs == TakeOrigin(bq).l1Blocks
  <2> HIDE DEF bs
  <2>3. /\ bs # << >>
        /\ Head(bs) <= DC!Origin(safe) + 1
        /\ bs = [i \in 1 .. prevOrigin - Head(bs) + 1 |-> Head(bs) + i - 1]
    <3>1. IsRun(bs, prevOrigin) /\ Head(bs) <= DC!Origin(safe) + 1
      BY <2>1 DEF bs
    <3>2. bs # << >>
      BY <3>1 DEF IsRun
    <3> QED
      BY <2>2, <3>1, <3>2, RunForm
  <2> QED
    BY <2>3 DEF bs
<1> QED
  BY <1>1, BQInvHolds, PTL

(***************************************************************************)
(* A buffered batch waits under its own timestamp, was included in an L1   *)
(* block that was read, and batches of one timestamp are in the order of   *)
(* inclusion: deriveNextBatch never meets a future batch.                  *)
(***************************************************************************)
THEOREM BQBufferedInOrder == BQSpec => []BufferedInOrder
<1>1. BQInv => BufferedInOrder
  BY DEF BQInv
<1> QED
  BY <1>1, BQInvHolds, PTL

(***************************************************************************)
(* What the sequencer chooses for a block on the safe head, with any view  *)
(* of L1, any drift and any confirmation depth, every verifier accepts as  *)
(* a batch that is included within the window.                             *)
(***************************************************************************)
THEOREM BQSequencedAccepted == BQSpec => []SequencedAccepted
<1>1. ASSUME BQInv PROVE SequencedAccepted
  <2> DEFINE o == DC!Origin(safe)
             time == DC!NextTime(safe)
  <2> SUFFICES ASSUME NEW l1Head \in 0 .. DC!Head1,
                      NEW b \in OS!StartBuildingBlock(o, time, l1Head, DC!Head1),
                      NEW n \in DC!L1Numbers \cap (b.epoch + 1 .. b.epoch + SeqWindowSize)
               PROVE  CheckBatch([i \in 1 .. n - o + 1 |-> o + i - 1],
                                 [batch |-> [time |-> time, epoch |-> b.epoch,
                                             canonical |-> TRUE, content |-> b.content,
                                             parent |-> safe],
                                  included |-> n]) = "accept"
    BY DEF SequencedAccepted
  <2>1. o \in Nat /\ time \in Nat /\ o \in DC!L1Numbers
    BY <1>1, OriginIsEpoch DEF BQInv, ChainTypes
  <2>2. time >= L1Time[o] /\ L1Time[o] \in Nat
    <3>1. L1Time[o] \in Nat /\ L1Time[0] = 0
      BY <2>1, BatchQueueAssumption DEF DC!L1Numbers
    <3>2. CASE safe = << >>
      <4>1. o = 0
        BY <3>2 DEF DC!Origin
      <4> QED
        BY <2>1, <3>1, <4>1
    <3>3. CASE safe # << >>
      <4> DEFINE len == Len(safe)
      <4>1. len \in 1 .. Len(safe) /\ o = safe[len].epoch /\ time = (len + 1) * BlockTime /\ len \in Nat
        BY <1>1, <3>3 DEF BQInv, ChainTypes, DC!Origin, DC!Last, DC!NextTime
      <4>2. len * BlockTime >= L1Time[o]
        BY <1>1, <4>1 DEF BQInv, SafeBlocks
      <4> HIDE DEF len
      <4>3. (len + 1) * BlockTime = len * BlockTime + BlockTime
        <5>1. \A x, y \in Nat : (x + 1) * y = x * y + y
          OBVIOUS
        <5> QED
          BY <4>1, <5>1, BatchQueueAssumption
      <4>4. len * BlockTime \in Nat
        <5>1. \A x, y \in Nat : x * y \in Nat
          OBVIOUS
        <5> QED
          BY <4>1, <5>1, BatchQueueAssumption
      <4> QED
        BY <3>1, <4>1, <4>2, <4>3, <4>4, BatchQueueAssumption
    <3> QED
      BY <3>2, <3>3
  <2>3. /\ b.epoch \in {o, o + 1} /\ b.content \in {"txs", "empty"}
        /\ OS!PastSeqDrift(b.epoch, time) => b.content = "empty"
        /\ \E found \in {FALSE, OS!L1BlockRefByNumber(o + 1, l1Head, DC!Head1)} :
             b.epoch \in OS!FindL1Origin(o, time, found)
    BY DEF OS!StartBuildingBlock
  <2>4. PICK found \in {FALSE, OS!L1BlockRefByNumber(o + 1, l1Head, DC!Head1)} :
             b.epoch \in OS!FindL1Origin(o, time, found)
    BY <2>3
  <2>5. /\ n \in Nat /\ b.epoch \in Nat /\ b.epoch + 1 <= n /\ n <= b.epoch + SeqWindowSize
        /\ o + 1 \in 0 .. n /\ b.epoch \in 0 .. n
    BY <2>1, <2>3, BatchQueueAssumption DEF DC!L1Numbers
  <2>6. L1Time[o + 1] \in Nat /\ L1Time[b.epoch] \in Nat
    BY <2>5, L1Below
  <2>7. /\ b.epoch = o + 1 => time >= L1Time[o + 1]
        /\ b.epoch = o => \/ time < L1Time[o + 1]
                          \/ ~(time > L1Time[o] + MaxSequencerDrift)
    <3>1. CASE found
      <4>1. b.epoch = IF time >= L1Time[o + 1] THEN o + 1 ELSE o
        BY <2>4, <3>1 DEF OS!FindL1Origin
      <4> HIDE DEF o, time
      <4> QED
        BY <2>1, <2>6, <4>1
    <3>2. CASE ~found
      <4>1. b.epoch = o /\ ~(time > L1Time[o] + MaxSequencerDrift)
        BY <2>4, <3>2 DEF OS!FindL1Origin, OS!PastSeqDrift
      <4> HIDE DEF o, time
      <4> QED
        BY <2>1, <4>1
    <3> QED
      BY <3>1, <3>2
  <2> DEFINE bs == [i \in 1 .. n - o + 1 |-> o + i - 1]
             batch == [time |-> time, epoch |-> b.epoch, canonical |-> TRUE,
                       content |-> b.content, parent |-> safe]
             d == [batch |-> batch, included |-> n]
  <2>8. Head(bs) = o /\ Len(bs) >= 2 /\ bs[2] = o + 1
    <3>1. n - o + 1 \in Nat /\ n - o + 1 >= 2
      BY <2>1, <2>3, <2>5
    <3>2. bs \in Seq(Int) /\ Len(bs) = n - o + 1 /\ bs # << >>
      <4> DEFINE m == n - o + 1
      <4>1. bs = [i \in 1 .. m |-> o + i - 1] /\ m \in Nat /\ m >= 2
        BY <3>1
      <4> HIDE DEF m, bs, o
      <4>2. bs \in [1 .. m -> Int]
        BY <2>1, <4>1
      <4>3. bs \in Seq(Int) /\ Len(bs) = m
        BY <4>1, <4>2
      <4> QED
        BY <4>1, <4>3 DEF m
    <3>3. bs[1] = o /\ bs[2] = o + 1
      BY <2>1, <3>1
    <3> QED
      BY <3>1, <3>2, <3>3
  <2>9. /\ d.batch = batch /\ d.included = n /\ batch.time = time /\ batch.epoch = b.epoch
        /\ batch.canonical = TRUE /\ batch.content = b.content /\ batch.parent = safe
    OBVIOUS
  <2> HIDE DEF bs, batch, d
  <2>10. ~(batch.time > time) /\ ~Misfit(o, d)
    BY <2>1, <2>3, <2>5, <2>9, BatchQueueAssumption DEF Misfit
  <2>11. ~WrongOrigin(batch)
    BY <2>1, <2>2, <2>3, <2>6, <2>7, <2>9 DEF WrongOrigin
  <2>12. Drifted(batch) => /\ batch.content = "empty"
                           /\ batch.epoch = o => ~(batch.time >= L1Time[o + 1])
    BY <2>1, <2>2, <2>3, <2>6, <2>7, <2>9, BatchQueueAssumption DEF Drifted, OS!PastSeqDrift
  <2>13. batch.content # "deposit"
    BY <2>3, <2>9
  <2>14. CheckBatch(bs, d) = "accept"
    BY <2>8, <2>9, <2>10, <2>11, <2>12, <2>13 DEF CheckBatch
  <2> QED
    BY <2>14 DEF bs, d, batch
<1> QED
  BY <1>1, BQInvHolds, PTL

=============================================================================
