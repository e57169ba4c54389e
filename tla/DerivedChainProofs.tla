------------------------- MODULE DerivedChainProofs ------------------------
(***************************************************************************)
(* BatchQueue implements DerivedChain, for every L1 chain, every set of    *)
(* batches, and every block time, window and drift.                        *)
(*                                                                         *)
(* The argument: of what the stages have read, the buffers of the batch    *)
(* queue hold in order of inclusion all that can still become a block      *)
(* (Tracks).  So the batch that deriveNextBatch accepts is the earliest    *)
(* usable one of DerivedChain, and what was not read yet is later (Right). *)
(* An empty block is forced when all that could be in time was read, and   *)
(* the queue gives up the old origin when nothing is left for it           *)
(* (NoneLeft).                                                             *)
(***************************************************************************)
EXTENDS BatchQueueProofs

(***************************************************************************)
(* The batches on L1 by their places, as the buffer keeps them, and the    *)
(* places that the stages have read so far.                                *)
(***************************************************************************)
At(p) == DC!BatchAt(p)

Entry(p) == [batch |-> At(p), included |-> p[1]]

ReadTo(n, k) == {p \in DC!Included : p[1] < n \/ (p[1] = n /\ p[2] <= k)}

(***************************************************************************)
(* A buffer c tracks the places N out of those read, R: it holds only what *)
(* was read, it holds each of N, and in front of it only earlier ones.     *)
(***************************************************************************)
Tracks(c, R, N) ==
  /\ \A i \in 1 .. Len(c) : \E p \in R : c[i] = Entry(p)
  /\ \A n \in N : \E i \in 1 .. Len(c) :
       /\ c[i] = Entry(n)
       /\ \A j \in 1 .. i - 1 : \E p \in R : c[j] = Entry(p) /\ DC!Earlier(p, n)

(***************************************************************************)
(* A batch included before the origin of the safe head is for an earlier   *)
(* epoch: it is not needed any more.                                       *)
(***************************************************************************)
Later(R, t) == {p \in R : p[1] >= DC!Origin(safe) /\ At(p).time = t}

(***************************************************************************)
(* The queue works on the next origin while the safe head is at the old    *)
(* one.  Then batches for the old one are given up, as are all if even an  *)
(* empty block drifts too far from the next origin: the next block is      *)
(* empty with or without them.                                             *)
(***************************************************************************)
Moved(q) == q.l1Blocks # << >> /\ Head(q.l1Blocks) = DC!Origin(safe) + 1

DriftedOn == DC!NextTime(safe) > L1Time[DC!Origin(safe) + 1] + MaxSequencerDrift

Settled(p, moved) ==
  \/ At(p).content = "rejected" /\ At(p).epoch = DC!Origin(safe)
  \/ moved /\ (At(p).content = "rejected" \/ At(p).epoch = DC!Origin(safe) \/ DriftedOn)

Open(R, moved) == {p \in R : p \in DC!Valid(safe) /\ ~Settled(p, moved)}

(***************************************************************************)
(* Nothing on L1 can make a block of the old origin any more.              *)
(***************************************************************************)
NoneLeft ==
  /\ \A u \in DC!Usable(safe) : At(u).epoch # DC!Origin(safe)
  /\ DC!NextTime(safe) >= L1Time[DC!Origin(safe) + 1]
  /\ \/ DC!Head1 >= DC!Origin(safe) + SeqWindowSize
     \/ \E p \in DC!Valid(safe) : /\ At(p).content = "rejected"
                                  /\ At(p).epoch = DC!Origin(safe) + 1

(***************************************************************************)
(* What a derived batch b promises: DerivedChain has this block next, and  *)
(* the queue has moved to its epoch.                                       *)
(***************************************************************************)
Right(b, q) ==
  /\ DC!Usable(safe) # {} \/ DC!Expired(safe)
  /\ DC!NextBlock(safe) = [epoch |-> b.epoch, content |-> b.content]
  /\ q.l1Blocks # << >> /\ Head(q.l1Blocks) = b.epoch

Proper(b) == b # NoBatch /\ b.content # "rejected"

Future(q, R) == \A t \in Times : t > DC!NextTime(safe) => Tracks(q.batches[t], R, Later(R, t))

Now(q, R) == Tracks(Candidates(q), R, Open(R, Moved(q)))

(***************************************************************************)
(* The invariant of the refinement.  A canonical batch on L1 names an      *)
(* earlier L1 block as its epoch; the buffers track what was read for      *)
(* later blocks and, until a block is derived, for the next one; the queue *)
(* moves to the next origin only when nothing is left for the old one; a   *)
(* derived block is the one that DerivedChain has next.                    *)
(***************************************************************************)
L1Good ==
  \A n \in 0 .. DC!Head1 :
    /\ Len(l1[n + 1]) <= MaxBatches
    /\ \A i \in 1 .. Len(l1[n + 1]) : l1[n + 1][i].canonical => l1[n + 1][i].epoch < n

ViewOf(R, q, batch, attrs) ==
  /\ Future(q, R)
  /\ ~Proper(batch) /\ ~Proper(attrs) => Now(q, R) /\ (Moved(q) => NoneLeft)
  /\ Proper(batch) => Right(batch, q)
  /\ Proper(attrs) => Right(attrs, q)

View == ViewOf(ReadTo(prevOrigin, prevRead), bq, aqBatch, safeAttrs)

RInv == L1Good /\ (~needReset => View)

-----------------------------------------------------------------------------
(***************************************************************************)
(* A place on L1: its numbers and its batch.                               *)
(***************************************************************************)
LEMMA PlaceFacts ==
  ASSUME ChainTypes, NEW p \in DC!Included
  PROVE  /\ p = <<p[1], p[2]>> /\ p[1] \in Nat /\ p[2] \in Nat /\ p[1] \in 0 .. DC!Head1
         /\ p[2] \in 1 .. Len(l1[p[1] + 1])
         /\ At(p) \in BatchSet /\ At(p) \in DC!Batch
         /\ At(p) = l1[p[1] + 1][p[2]]
<1>1. /\ p = <<p[1], p[2]>> /\ p[1] \in DC!L1Numbers /\ p[2] \in 1 .. MaxBatches
      /\ p[1] <= DC!Head1 /\ p[2] <= Len(l1[p[1] + 1])
  BY DEF DC!Included
<1>2. DC!L1Numbers \subseteq Nat /\ MaxBatches \in Nat
  BY BatchQueueAssumption DEF DC!L1Numbers
<1>3. p[1] \in L1Top /\ DC!Head1 \in Nat
  BY <1>1, <1>2, BlockRead DEF L1Top
<1>4. l1[p[1] + 1] \in Seq(BatchSet)
  BY <1>3, BlockRead
<1>5. p[2] \in 1 .. Len(l1[p[1] + 1])
  BY <1>1, <1>2, <1>4
<1>6. l1[p[1] + 1][p[2]] \in BatchSet
  BY <1>4, <1>5
<1> QED
  BY <1>1, <1>2, <1>3, <1>5, <1>6, BatchSetIsBatch DEF At, DC!BatchAt, L1Top

(***************************************************************************)
(* The fields of a batch.                                                  *)
(***************************************************************************)
LEMMA BatchFields ==
  ASSUME NEW b \in DC!Batch
  PROVE  /\ b.time \in Nat /\ b.epoch \in DC!L1Numbers /\ b.epoch \in Nat
         /\ b.canonical \in BOOLEAN /\ b.content \in DC!Contents
         /\ L1Time[b.epoch] \in Nat
  BY BatchQueueAssumption DEF DC!Batch, DC!Epochs, DC!L1Numbers

(***************************************************************************)
(* The order of inclusion is a strict total order.                         *)
(***************************************************************************)
LEMMA EarlierOrder ==
  ASSUME ChainTypes, NEW p \in DC!Included, NEW q \in DC!Included
  PROVE  /\ DC!Earlier(p, q) \/ p = q \/ DC!Earlier(q, p)
         /\ ~(DC!Earlier(p, q) /\ DC!Earlier(q, p))
         /\ ~DC!Earlier(p, p)
         /\ \A r \in DC!Included : DC!Earlier(p, q) /\ DC!Earlier(q, r) => DC!Earlier(p, r)
<1>1. /\ p = <<p[1], p[2]>> /\ p[1] \in Nat /\ p[2] \in Nat
      /\ q = <<q[1], q[2]>> /\ q[1] \in Nat /\ q[2] \in Nat
  BY PlaceFacts
<1>2. DC!Earlier(p, q) \/ p = q \/ DC!Earlier(q, p)
  BY <1>1 DEF DC!Earlier
<1>3. ~(DC!Earlier(p, q) /\ DC!Earlier(q, p)) /\ ~DC!Earlier(p, p)
  BY <1>1 DEF DC!Earlier
<1>4. ASSUME NEW r \in DC!Included, DC!Earlier(p, q), DC!Earlier(q, r)
      PROVE  DC!Earlier(p, r)
  <2>1. r[1] \in Nat /\ r[2] \in Nat
    BY PlaceFacts
  <2> QED
    BY <1>1, <1>4, <2>1 DEF DC!Earlier
<1> QED
  BY <1>2, <1>3, <1>4

(***************************************************************************)
(* A non-empty set of places has an earliest one.                          *)
(***************************************************************************)
LEMMA EarliestPlace ==
  ASSUME ChainTypes, NEW S \in SUBSET DC!Included, S # {}
  PROVE  \E m \in S : \A r \in S : r = m \/ DC!Earlier(m, r)
<1> DEFINE A == {p[1] : p \in S}
           a == Min(A)
           B == {p[2] : p \in {r \in S : r[1] = a}}
           b == Min(B)
<1>1. A \in SUBSET Nat /\ A # {}
  BY PlaceFacts
<1>2. a \in A /\ \A k \in A : a <= k
  BY <1>1, SmallestNumber
<1>3. B \in SUBSET Nat /\ B # {}
  BY <1>2, PlaceFacts
<1>4. b \in B /\ \A k \in B : b <= k
  BY <1>3, SmallestNumber
<1> HIDE DEF a, b
<1>5. PICK m \in S : m[1] = a /\ m[2] = b
  BY <1>4
<1>6. ASSUME NEW r \in S
      PROVE  r = m \/ DC!Earlier(m, r)
  <2>1. /\ r = <<r[1], r[2]>> /\ r[1] \in Nat /\ r[2] \in Nat
        /\ m = <<m[1], m[2]>> /\ m[1] \in Nat /\ m[2] \in Nat
    BY PlaceFacts
  <2>2. a <= r[1] /\ (r[1] = a => b <= r[2])
    BY <1>2, <1>4
  <2> QED
    BY <1>5, <2>1, <2>2 DEF DC!Earlier
<1> QED
  BY <1>6

(***************************************************************************)
(* Usable batches are valid ones, and valid ones are on L1.                *)
(***************************************************************************)
LEMMA UsableIncluded ==
  DC!Usable(safe) \subseteq DC!Valid(safe) /\ DC!Valid(safe) \subseteq DC!Included
  BY DEF DC!Usable, DC!Valid

(***************************************************************************)
(* The next block of DerivedChain is that of the earliest usable batch.    *)
(***************************************************************************)
LEMMA EarliestIsNext ==
  ASSUME ChainTypes, NEW u \in DC!Usable(safe),
         \A r \in DC!Usable(safe) : r = u \/ DC!Earlier(u, r)
  PROVE  DC!NextBlock(safe) = [epoch |-> At(u).epoch, content |-> At(u).content]
<1> DEFINE p == CHOOSE q \in DC!Usable(safe) :
                  \A r \in DC!Usable(safe) : r = q \/ DC!Earlier(q, r)
<1>1. p \in DC!Usable(safe) /\ \A r \in DC!Usable(safe) : r = p \/ DC!Earlier(p, r)
  OBVIOUS
<1>2. DC!NextBlock(safe) = [epoch |-> At(p).epoch, content |-> At(p).content]
  BY <1>1 DEF DC!NextBlock, At
<1> HIDE DEF p
<1>3. p = u
  BY <1>1, EarlierOrder, UsableIncluded
<1> QED
  BY <1>2, <1>3

(***************************************************************************)
(* If all usable batches make the same block, it is the next one.          *)
(***************************************************************************)
LEMMA CommonIsNext ==
  ASSUME ChainTypes, DC!Usable(safe) # {}, NEW e, NEW x,
         \A u \in DC!Usable(safe) : At(u).epoch = e /\ At(u).content = x
  PROVE  DC!NextBlock(safe) = [epoch |-> e, content |-> x]
<1>1. DC!Usable(safe) \in SUBSET DC!Included
  BY UsableIncluded
<1>2. PICK u \in DC!Usable(safe) : \A r \in DC!Usable(safe) : r = u \/ DC!Earlier(u, r)
  BY <1>1, EarliestPlace, Zenon
<1>3. DC!NextBlock(safe) = [epoch |-> At(u).epoch, content |-> At(u).content]
  BY <1>2, EarliestIsNext
<1> QED
  BY <1>2, <1>3

-----------------------------------------------------------------------------
(***************************************************************************)
(* What makes a place valid, in terms of the entry of the buffer.          *)
(***************************************************************************)
Fits(d) ==
  /\ d.batch.time = DC!NextTime(safe) /\ d.batch.parent = safe
  /\ d.batch.canonical /\ d.batch.epoch \in {DC!Origin(safe), DC!Origin(safe) + 1}
  /\ d.included <= d.batch.epoch + SeqWindowSize
  /\ d.batch.time >= L1Time[d.batch.epoch]
  /\ Drifted(d.batch) =>
       /\ d.batch.content = "empty"
       /\ d.batch.epoch = DC!Origin(safe) => d.batch.time < L1Time[d.batch.epoch + 1]
  /\ d.batch.content # "deposit"

(***************************************************************************)
(* A place is valid if its entry fits.                                     *)
(***************************************************************************)
LEMMA ValidFits ==
  ASSUME NEW p \in DC!Included
  PROVE  p \in DC!Valid(safe) <=> Fits(Entry(p))
<1>1. Entry(p).batch = At(p) /\ Entry(p).included = p[1]
  BY DEF Entry
<1> QED
  BY <1>1 DEF DC!Valid, Fits, At, Drifted

(***************************************************************************)
(* A valid batch is included after its epoch.                              *)
(***************************************************************************)
LEMMA ValidLater ==
  ASSUME ChainTypes, L1Good, NEW p \in DC!Valid(safe)
  PROVE  /\ At(p).epoch < p[1] /\ At(p).epoch \in {DC!Origin(safe), DC!Origin(safe) + 1}
         /\ At(p).epoch + 1 \in DC!L1Numbers /\ At(p).epoch + 1 <= DC!Head1
         /\ p[1] <= At(p).epoch + SeqWindowSize
         /\ DC!NextTime(safe) >= L1Time[At(p).epoch] /\ At(p).time = DC!NextTime(safe)
<1>1. p \in DC!Included
  BY UsableIncluded
<1>2. Fits(Entry(p)) /\ Entry(p).batch = At(p) /\ Entry(p).included = p[1]
  BY <1>1, ValidFits DEF Entry
<1>3. /\ p[1] \in 0 .. DC!Head1 /\ p[2] \in 1 .. Len(l1[p[1] + 1])
      /\ At(p) = l1[p[1] + 1][p[2]] /\ At(p) \in DC!Batch
  BY <1>1, PlaceFacts
<1>4. At(p).epoch < p[1]
  BY <1>2, <1>3 DEF L1Good, Fits
<1>5. At(p).epoch \in Nat /\ DC!Head1 \in DC!L1Numbers /\ DC!Head1 \in Nat
  BY <1>3, BatchFields, BlockRead DEF ChainTypes
<1>6. At(p).epoch + 1 \in 0 .. DC!Head1
  <2> DEFINE e == At(p).epoch
             m == p[1]
             h == DC!Head1
  <2>1. e \in Nat /\ m \in 0 .. h /\ e < m /\ h \in Nat
    BY <1>3, <1>4, <1>5
  <2> HIDE DEF e, m, h
  <2>2. e + 1 \in 0 .. h
    BY <2>1
  <2> QED
    BY <2>2 DEF e, h
<1>7. At(p).epoch + 1 \in DC!L1Numbers /\ At(p).epoch + 1 <= DC!Head1
  BY <1>5, <1>6, L1Below
<1> QED
  BY <1>2, <1>4, <1>7 DEF Fits

(***************************************************************************)
(* CheckBatch drops a valid batch only when the queue has moved on, and    *)
(* then only one for the old origin or one that drifts too far.            *)
(***************************************************************************)
LEMMA DropSettled ==
  ASSUME safe \in Seq(Block), NEW n \in DC!L1Numbers, NEW bs, IsRun(bs, n),
         DC!Origin(safe) \in {Head(bs), Head(bs) - 1},
         NEW d, d.batch \in DC!Batch, d.included \in Nat, Fits(d), CheckBatch(bs, d) = "drop"
  PROVE  /\ Head(bs) = DC!Origin(safe) + 1
         /\ d.batch.epoch = DC!Origin(safe) \/ DriftedOn
<1> DEFINE o == DC!Origin(safe)
           b == d.batch
<1>1. /\ n \in Nat /\ o \in Nat /\ DC!NextTime(safe) \in Nat /\ b.time \in Nat /\ b.epoch \in Nat
      /\ SeqWindowSize \in Nat /\ b.canonical \in BOOLEAN /\ L1Time[b.epoch] \in Nat
      /\ MaxSequencerDrift \in Nat
  BY OriginIsEpoch, BatchFields, BatchQueueAssumption DEF DC!L1Numbers
<1>2. /\ Head(bs) \in 0 .. n /\ Len(bs) = n - Head(bs) + 1
      /\ Len(bs) >= 2 => bs[2] = Head(bs) + 1
  BY <1>1, RunHead
<1>3. Head(bs) = o \/ Head(bs) = o + 1
  BY <1>1, <1>2
<1>4. /\ b.time = DC!NextTime(safe) /\ b.parent = safe /\ b.canonical
      /\ b.epoch \in {o, o + 1} /\ d.included <= b.epoch + SeqWindowSize
      /\ b.time >= L1Time[b.epoch] /\ b.content # "deposit"
      /\ Drifted(b) => b.content = "empty" /\ (b.epoch = o => b.time < L1Time[b.epoch + 1])
  BY DEF Fits
<1>5. ~(b.time > DC!NextTime(safe)) /\ ~WrongOrigin(b)
  BY <1>1, <1>4 DEF WrongOrigin
<1>6. /\ ~(b.time < DC!NextTime(safe)) /\ ~(b.parent # safe)
      /\ ~(b.epoch + SeqWindowSize < d.included)
  BY <1>1, <1>4
<1>7. \/ b.epoch \notin {Head(bs), Head(bs) + 1}
      \/ Drifted(b) /\ b.epoch = Head(bs) /\ Len(bs) >= 2 /\ b.time >= L1Time[bs[2]]
  <2> HIDE DEF b
  <2> QED
    BY <1>4, <1>5, <1>6 DEF CheckBatch, Misfit, b
<1>8. CASE b.epoch \notin {Head(bs), Head(bs) + 1}
  BY <1>1, <1>3, <1>4, <1>8
<1>9. CASE Drifted(b) /\ b.epoch = Head(bs) /\ Len(bs) >= 2 /\ b.time >= L1Time[bs[2]]
  <2>1. bs[2] = Head(bs) + 1 /\ Head(bs) + 1 \in 0 .. n
    <3> DEFINE h == Head(bs)
    <3>1. h \in 0 .. n /\ n - h + 1 >= 2 /\ bs[2] = h + 1
      BY <1>2, <1>9
    <3> HIDE DEF h
    <3>2. h + 1 \in 0 .. n
      BY <1>1, <3>1
    <3> QED
      BY <3>1, <3>2 DEF h
  <2>2. L1Time[Head(bs) + 1] \in Nat
    BY <2>1, L1Below
  <2>3. Head(bs) # o
    BY <1>1, <1>4, <1>9, <2>1, <2>2
  <2>4. b.epoch = o + 1
    BY <1>3, <1>9, <2>3
  <2> QED
    BY <1>3, <1>4, <1>9, <2>3, <2>4 DEF DriftedOn, Drifted
<1> QED
  BY <1>7, <1>8, <1>9

(***************************************************************************)
(* A batch that is accepted and fits the safe head is valid.               *)
(***************************************************************************)
LEMMA AcceptedFits ==
  ASSUME safe \in Seq(Block), NEW n \in DC!L1Numbers, NEW bs, IsRun(bs, n),
         DC!Origin(safe) \in {Head(bs), Head(bs) - 1},
         NEW d, d.batch \in DC!Batch, d.included \in Nat,
         CheckBatch(bs, d) = "accept", Consistent(d.batch)
  PROVE  Fits(d) /\ d.batch.epoch \in {Head(bs), Head(bs) + 1}
         /\ (d.batch.epoch = Head(bs) \/ Len(bs) >= 2)
<1> DEFINE o == DC!Origin(safe)
           b == d.batch
<1>1. /\ n \in Nat /\ o \in Nat /\ DC!NextTime(safe) \in Nat /\ b.time \in Nat /\ b.epoch \in Nat
      /\ SeqWindowSize \in Nat /\ b.canonical \in BOOLEAN /\ L1Time[b.epoch] \in Nat
  BY OriginIsEpoch, BatchFields, BatchQueueAssumption DEF DC!L1Numbers
<1>2. /\ Head(bs) \in 0 .. n /\ Len(bs) = n - Head(bs) + 1
      /\ Len(bs) >= 2 => bs[2] = Head(bs) + 1
  BY <1>1, RunHead
<1>3. /\ b.parent = safe /\ b.time = DC!NextTime(safe) /\ b.epoch \in {o, o + 1}
      /\ b.time >= L1Time[b.epoch]
  BY DEF Consistent
<1>4. /\ ~(b.epoch + SeqWindowSize < d.included)
      /\ b.epoch \in {Head(bs), Head(bs) + 1} /\ (b.epoch = Head(bs) \/ Len(bs) >= 2)
      /\ ~WrongOrigin(b) /\ b.content # "deposit"
      /\ Drifted(b) => /\ b.content = "empty"
                       /\ b.epoch = Head(bs) => Len(bs) >= 2 /\ ~(b.time >= L1Time[bs[2]])
  BY <1>3, AcceptFits
<1>5. ASSUME Drifted(b), b.epoch = o
      PROVE  b.time < L1Time[b.epoch + 1]
  <2>1. Head(bs) = o /\ b.epoch = Head(bs)
    BY <1>1, <1>2, <1>4, <1>5
  <2>2. Len(bs) >= 2 /\ bs[2] = Head(bs) + 1 /\ ~(b.time >= L1Time[bs[2]])
    BY <1>2, <1>4, <1>5, <2>1
  <2>3. Head(bs) + 1 \in 0 .. n
    BY <1>1, <1>2, <2>2
  <2>4. L1Time[Head(bs) + 1] \in Nat
    BY <2>3, L1Below
  <2> QED
    BY <1>1, <2>1, <2>2, <2>4
<1>6. b.canonical /\ d.included <= b.epoch + SeqWindowSize
  BY <1>1, <1>4 DEF WrongOrigin
<1> QED
  BY <1>3, <1>4, <1>5, <1>6 DEF Fits

(***************************************************************************)
(* With a single L1 block at hand no valid batch is open.                  *)
(***************************************************************************)
LEMMA AloneNoneOpen ==
  ASSUME ChainTypes, L1Good, NEW q, IsRun(q.l1Blocks, prevOrigin), ~(Len(q.l1Blocks) >= 2),
         DC!Origin(safe) \in {Head(q.l1Blocks), Head(q.l1Blocks) - 1},
         NEW R \in SUBSET {p \in DC!Included : p[1] <= prevOrigin}
  PROVE  Open(R, Moved(q)) = {}
<1> DEFINE o == DC!Origin(safe)
<1>1. prevOrigin \in Nat /\ o \in Nat
  BY BlockRead, OriginIsEpoch DEF ChainTypes
<1>2. /\ Head(q.l1Blocks) \in 0 .. prevOrigin /\ Len(q.l1Blocks) = prevOrigin - Head(q.l1Blocks) + 1
      /\ q.l1Blocks # << >>
  BY <1>1, RunHead DEF IsRun
<1>3. Head(q.l1Blocks) = prevOrigin /\ (prevOrigin = o \/ prevOrigin = o + 1)
  <2> DEFINE h == Head(q.l1Blocks)
  <2>1. h \in 0 .. prevOrigin /\ ~(prevOrigin - h + 1 >= 2) /\ o \in {h, h - 1}
    BY <1>2
  <2> HIDE DEF h, o
  <2>2. h = prevOrigin /\ (prevOrigin = o \/ prevOrigin = o + 1)
    BY <1>1, <2>1
  <2> QED
    BY <2>2 DEF h
<1>4. ASSUME NEW p \in Open(R, Moved(q)) PROVE FALSE
  <2>1. p \in R /\ p \in DC!Valid(safe) /\ ~Settled(p, Moved(q))
    BY <1>4 DEF Open
  <2>2. At(p).epoch < p[1] /\ At(p).epoch \in {o, o + 1} /\ p[1] <= prevOrigin
    BY <2>1, ValidLater
  <2>3. p[1] \in Nat
    BY <2>1, PlaceFacts
  <2>4. At(p).epoch = o /\ prevOrigin = o + 1
    BY <1>1, <1>3, <2>2, <2>3
  <2> QED
    BY <1>2, <1>3, <2>1, <2>4 DEF Settled, Moved
<1> QED
  BY <1>4

-----------------------------------------------------------------------------
(***************************************************************************)
(* A buffer tracks fewer places as well, and out of more read ones.        *)
(***************************************************************************)
LEMMA TracksMore ==
  ASSUME NEW c, NEW R, NEW R1, NEW N, NEW N1, Tracks(c, R, N), R \subseteq R1, N1 \subseteq N
  PROVE  Tracks(c, R1, N1)
  BY DEF Tracks

(***************************************************************************)
(* The empty buffer tracks nothing.                                        *)
(***************************************************************************)
LEMMA TracksNone ==
  ASSUME NEW R PROVE Tracks(<< >>, R, {})
<1> DEFINE e == << >>
<1>1. Len(e) = 0
  OBVIOUS
<1> HIDE DEF e
<1>2. Tracks(e, R, {})
  BY <1>1 DEF Tracks
<1> QED
  BY <1>2 DEF e

(***************************************************************************)
(* A buffer and the batch that is read next.                               *)
(***************************************************************************)
LEMMA TracksAppend ==
  ASSUME NEW c \in Seq(Buffered), NEW R, NEW N, NEW N1, NEW p, Entry(p) \in Buffered,
         \A r \in R : DC!Earlier(r, p), Tracks(c, R, N), N1 \subseteq N \cup {p}
  PROVE  Tracks(Append(c, Entry(p)), R \cup {p}, N1)
<1> DEFINE d == Entry(p)
           e == Append(c, d)
           R1 == R \cup {p}
<1>1. /\ Len(c) \in Nat /\ Len(e) = Len(c) + 1 /\ e[Len(c) + 1] = d
      /\ \A i \in 1 .. Len(c) : e[i] = c[i]
  <2> HIDE DEF d
  <2>1. d \in Buffered
    BY DEF d
  <2> QED
    BY <2>1
<1> HIDE DEF e
<1>2. \A i \in 1 .. Len(e) : i \in 1 .. Len(c) \/ i = Len(c) + 1
  BY <1>1
<1>3. \A i \in 1 .. Len(c) : i \in 1 .. Len(e)
  BY <1>1
<1>4. \A i \in 1 .. Len(e) : \E r \in R1 : e[i] = Entry(r)
  BY <1>1, <1>2 DEF Tracks
<1>5. ASSUME NEW n \in N1
      PROVE  \E i \in 1 .. Len(e) :
               /\ e[i] = Entry(n)
               /\ \A j \in 1 .. i - 1 : \E r \in R1 : e[j] = Entry(r) /\ DC!Earlier(r, n)
  <2>1. CASE n \in N
    <3>1. PICK i \in 1 .. Len(c) :
            /\ c[i] = Entry(n)
            /\ \A j \in 1 .. i - 1 : \E r \in R : c[j] = Entry(r) /\ DC!Earlier(r, n)
      BY <2>1 DEF Tracks
    <3>2. \A j \in 1 .. i - 1 : j \in 1 .. Len(c)
      BY <1>1
    <3> QED
      BY <1>1, <1>3, <3>1, <3>2
  <2>2. CASE n = p
    <3>1. Len(c) + 1 \in 1 .. Len(e) /\ e[Len(c) + 1] = Entry(n)
      BY <1>1, <2>2
    <3>2. \A j \in 1 .. (Len(c) + 1) - 1 : j \in 1 .. Len(c)
      BY <1>1
    <3>3. \A j \in 1 .. (Len(c) + 1) - 1 : \E r \in R1 : e[j] = Entry(r) /\ DC!Earlier(r, n)
      BY <1>1, <2>2, <3>2 DEF Tracks
    <3> QED
      BY <3>1, <3>3
  <2> QED
    BY <2>1, <2>2
<1>6. Tracks(e, R1, N1)
  BY <1>4, <1>5 DEF Tracks
<1> QED
  BY <1>6 DEF e

(***************************************************************************)
(* A buffer without its first k batches tracks what is not among them.     *)
(***************************************************************************)
LEMMA TracksAfter ==
  ASSUME NEW c, NEW k \in Nat, NEW e, NEW R, NEW N, NEW N1, Len(c) \in Nat, k <= Len(c),
         Len(e) = Len(c) - k, \A i \in 1 .. Len(e) : e[i] = c[k + i],
         Tracks(c, R, N), N1 \subseteq N,
         \A n \in N1 : \A i \in 1 .. k : c[i] # Entry(n)
  PROVE  Tracks(e, R, N1)
<1>1. \A i \in 1 .. Len(e) : k + i \in 1 .. Len(c)
  OBVIOUS
<1>2. \A i \in 1 .. Len(e) : \E p \in R : e[i] = Entry(p)
  BY <1>1 DEF Tracks
<1>3. ASSUME NEW n \in N1
      PROVE  \E i \in 1 .. Len(e) :
               /\ e[i] = Entry(n)
               /\ \A j \in 1 .. i - 1 : \E r \in R : e[j] = Entry(r) /\ DC!Earlier(r, n)
  <2>1. PICK i \in 1 .. Len(c) :
          /\ c[i] = Entry(n)
          /\ \A j \in 1 .. i - 1 : \E r \in R : c[j] = Entry(r) /\ DC!Earlier(r, n)
    BY <1>3 DEF Tracks
  <2>2. i - k \in 1 .. Len(e) /\ k + (i - k) = i
    BY <2>1
  <2>3. e[i - k] = Entry(n)
    BY <2>1, <2>2
  <2>4. \A j \in 1 .. (i - k) - 1 : j \in 1 .. Len(e) /\ k + j \in 1 .. i - 1
    BY <2>2
  <2>5. \A j \in 1 .. (i - k) - 1 : \E r \in R : e[j] = Entry(r) /\ DC!Earlier(r, n)
    BY <2>1, <2>4
  <2> QED
    BY <2>2, <2>3, <2>5
<1> QED
  BY <1>2, <1>3 DEF Tracks

-----------------------------------------------------------------------------
(***************************************************************************)
(* What is read up to a place of L1 block n: all of the blocks before, all *)
(* of block n if there is no more data, and nothing that comes later.      *)
(***************************************************************************)
ReadOK(R, n, outOfData) ==
  /\ R \subseteq {p \in DC!Included : p[1] <= n}
  /\ \A p \in DC!Included : p[1] < n \/ (outOfData /\ p[1] = n) => p \in R
  /\ \A p \in R : \A u \in DC!Included : DC!Earlier(u, p) => u \in R

(***************************************************************************)
(* The position of the previous stages tells what they have read.          *)
(***************************************************************************)
LEMMA ReadIsOK ==
  ASSUME ChainTypes, NEW n \in Nat, NEW k \in Nat, NEW outOfData \in BOOLEAN,
         outOfData => k = Len(l1[n + 1])
  PROVE  ReadOK(ReadTo(n, k), n, outOfData)
<1>1. \A p \in DC!Included : p[1] \in Nat /\ p[2] \in Nat /\ p[2] \in 1 .. Len(l1[p[1] + 1])
  BY PlaceFacts
<1>2. ReadTo(n, k) \subseteq {p \in DC!Included : p[1] <= n}
  BY <1>1 DEF ReadTo
<1>3. \A p \in DC!Included : p[1] < n \/ (outOfData /\ p[1] = n) => p \in ReadTo(n, k)
  <2> SUFFICES ASSUME NEW p \in DC!Included, p[1] < n \/ (outOfData /\ p[1] = n)
               PROVE  p \in ReadTo(n, k)
    OBVIOUS
  <2>1. CASE p[1] < n
    BY <2>1 DEF ReadTo
  <2>2. CASE outOfData /\ p[1] = n
    <3>1. p[2] \in 1 .. k
      BY <1>1, <2>2
    <3> QED
      BY <2>2, <3>1 DEF ReadTo
  <2> QED
    BY <2>1, <2>2
<1>4. \A p \in ReadTo(n, k) : \A u \in DC!Included : DC!Earlier(u, p) => u \in ReadTo(n, k)
  BY <1>1 DEF ReadTo, DC!Earlier
<1> QED
  BY <1>2, <1>3, <1>4 DEF ReadOK

(***************************************************************************)
(* The batch that is read next comes after all that were read.             *)
(***************************************************************************)
LEMMA ReadNext ==
  ASSUME ChainTypes, L1Good, prevRead < Len(l1[prevOrigin + 1]), NEW p,
         p = <<prevOrigin, prevRead + 1>>
  PROVE  /\ p \in DC!Included /\ p[1] = prevOrigin
         /\ Entry(p) = [batch |-> l1[prevOrigin + 1][prevRead + 1], included |-> prevOrigin]
         /\ ReadTo(prevOrigin, prevRead + 1) = ReadTo(prevOrigin, prevRead) \cup {p}
         /\ \A r \in ReadTo(prevOrigin, prevRead) : DC!Earlier(r, p)
<1>1. /\ prevOrigin \in L1Top /\ prevOrigin \in Nat /\ prevOrigin \in DC!L1Numbers
      /\ l1[prevOrigin + 1] \in Seq(BatchSet) /\ prevRead \in Nat
      /\ Len(l1[prevOrigin + 1]) \in Nat /\ Len(l1[prevOrigin + 1]) <= MaxBatches
      /\ prevOrigin <= DC!Head1
  BY BlockRead DEF ChainTypes, L1Good, L1Top
<1>2. p[1] = prevOrigin /\ p[2] = prevRead + 1 /\ MaxBatches \in Nat
  BY BatchQueueAssumption
<1>3. p \in DC!Included
  BY <1>1, <1>2 DEF DC!Included
<1>4. \A r \in DC!Included : r = <<r[1], r[2]>> /\ r[1] \in Nat /\ r[2] \in Nat
  BY PlaceFacts
<1>5. ReadTo(prevOrigin, prevRead + 1) = ReadTo(prevOrigin, prevRead) \cup {p}
  <2>1. ASSUME NEW r \in ReadTo(prevOrigin, prevRead + 1)
        PROVE  r \in ReadTo(prevOrigin, prevRead) \/ r = p
    BY <1>1, <1>4, <2>1 DEF ReadTo
  <2>2. ASSUME NEW r \in ReadTo(prevOrigin, prevRead)
        PROVE  r \in ReadTo(prevOrigin, prevRead + 1)
    BY <1>1, <1>4, <2>2 DEF ReadTo
  <2>3. p \in ReadTo(prevOrigin, prevRead + 1)
    BY <1>1, <1>2, <1>3 DEF ReadTo
  <2> QED
    BY <2>1, <2>2, <2>3
<1>6. \A r \in ReadTo(prevOrigin, prevRead) : DC!Earlier(r, p)
  BY <1>1, <1>2, <1>4 DEF ReadTo, DC!Earlier
<1> QED
  BY <1>2, <1>3, <1>5, <1>6 DEF Entry, At, DC!BatchAt

(***************************************************************************)
(* At the end of an L1 block the stages stand before the next one.         *)
(***************************************************************************)
LEMMA ReadOn ==
  ASSUME ChainTypes, prevRead = Len(l1[prevOrigin + 1])
  PROVE  ReadTo(prevOrigin + 1, 0) = ReadTo(prevOrigin, prevRead)
<1>1. prevOrigin \in Nat
  BY BlockRead
<1>2. \A p \in DC!Included : p[1] \in Nat /\ p[2] \in Nat /\ p[2] \in 1 .. Len(l1[p[1] + 1])
  BY PlaceFacts
<1>3. \A p \in DC!Included : p[1] = prevOrigin => p[2] <= prevRead
  BY <1>2
<1>4. \A p \in DC!Included : ~(p[2] <= 0)
  BY <1>2
<1> QED
  BY <1>1, <1>2, <1>3, <1>4 DEF ReadTo

-----------------------------------------------------------------------------
(***************************************************************************)
(* AddBatch, for one time: the batch at place p joins the buffer if it is  *)
(* to be tracked.                                                          *)
(***************************************************************************)
LEMMA AddAt ==
  ASSUME NEW n \in Nat, NEW q, QueueGood(q, n), NEW p, NEW R, NEW N, NEW N1, NEW t \in Times,
         At(p) \in BatchSet, p[1] = n, \A r \in R : DC!Earlier(r, p),
         Tracks(q.batches[t], R, N), N1 \subseteq N \cup {p},
         p \in N1 => At(p).time = t /\ CheckBatch(q.l1Blocks, Entry(p)) # "drop"
  PROVE  Tracks(AddBatch(q, At(p)).batches[t], R \cup {p}, N1)
<1> DEFINE c == q.batches[t]
           e == AddBatch(q, At(p)).batches[t]
<1>1. Entry(p) = [batch |-> At(p), included |-> n] /\ Entry(p) \in Buffered
  BY DEF Entry, Buffered
<1>2. e = IF t = At(p).time /\ CheckBatch(q.l1Blocks, [batch |-> At(p), included |-> n]) # "drop"
          THEN Append(q.batches[t], [batch |-> At(p), included |-> n]) ELSE q.batches[t]
  BY AddGood
<1>3. e = IF t = At(p).time /\ CheckBatch(q.l1Blocks, Entry(p)) # "drop"
          THEN Append(c, Entry(p)) ELSE c
  BY <1>1, <1>2
<1>4. c \in Seq(Buffered)
  BY DEF QueueGood, Queue
<1> HIDE DEF c, e
<1>5. CASE e = Append(c, Entry(p))
  <2>1. Tracks(c, R, N)
    BY DEF c
  <2>2. Tracks(Append(c, Entry(p)), R \cup {p}, N1)
    BY <1>1, <1>4, <2>1, TracksAppend
  <2> QED
    BY <1>5, <2>2 DEF e
<1>6. CASE e = c /\ p \notin N1
  <2>1. Tracks(c, R, N) /\ N1 \subseteq N /\ R \subseteq R \cup {p}
    BY <1>6 DEF c
  <2>2. Tracks(c, R \cup {p}, N1)
    BY <2>1, TracksMore
  <2> QED
    BY <1>6, <2>2 DEF e
<1> QED
  BY <1>3, <1>5, <1>6

(***************************************************************************)
(* AddBatch keeps track of the batch that is read, at the current origin.  *)
(***************************************************************************)
LEMMA AddTracks ==
  ASSUME ChainTypes, L1Good, ~originBehind, NEW q, QueueGood(q, prevOrigin),
         DC!Origin(safe) \in {Head(q.l1Blocks), Head(q.l1Blocks) - 1},
         NEW R \in SUBSET DC!Included, NEW p \in DC!Included, p[1] = prevOrigin,
         \A r \in R : DC!Earlier(r, p),
         Future(q, R), Now(q, R)
  PROVE  Future(AddBatch(q, At(p)), R \cup {p}) /\ Now(AddBatch(q, At(p)), R \cup {p})
<1> DEFINE a == AddBatch(q, At(p))
           T == DC!NextTime(safe)
           m == Moved(q)
           R1 == R \cup {p}
<1>1. /\ prevOrigin \in Nat /\ prevOrigin \in DC!L1Numbers /\ T \in Nat
      /\ At(p) \in BatchSet /\ At(p) \in DC!Batch /\ At(p).time \in Nat /\ At(p).time \in Times
      /\ safe \in Seq(Block)
  BY BlockRead, PlaceFacts, OriginIsEpoch, BatchFields DEF ChainTypes, Times, L1Top
<1>2. Entry(p).batch = At(p) /\ Entry(p).included = p[1]
  BY DEF Entry
<1>3. Future(a, R1)
  <2> SUFFICES ASSUME NEW t \in Times, t > T
               PROVE  Tracks(a.batches[t], R1, Later(R1, t))
    BY DEF Future
  <2>1. Later(R1, t) \subseteq Later(R, t) \cup {p}
    BY DEF Later
  <2>2. Tracks(q.batches[t], R, Later(R, t))
    BY DEF Future
  <2>3. ASSUME p \in Later(R1, t)
        PROVE  At(p).time = t /\ CheckBatch(q.l1Blocks, Entry(p)) # "drop"
    <3>1. At(p).time = t
      BY <2>3 DEF Later
    <3>2. CheckBatch(q.l1Blocks, Entry(p)) = "future"
      BY <1>2, <3>1 DEF CheckBatch
    <3> QED
      BY <3>1, <3>2
  <2> QED
    BY <1>1, <2>1, <2>2, <2>3, AddAt
<1>4. a.l1Blocks = q.l1Blocks
  BY <1>1, AddGood
<1>5. Moved(a) = m
  BY <1>4 DEF Moved
<1>6. Now(a, R1)
  <2> DEFINE N1 == Open(R1, m)
             N == Open(R, m)
  <2>1. N1 \subseteq N \cup {p}
    BY DEF Open
  <2>2. Tracks(Candidates(q), R, N)
    BY DEF Now
  <2>3. ASSUME p \in N1
        PROVE  At(p).time = T /\ CheckBatch(q.l1Blocks, Entry(p)) # "drop"
    <3>1. p \in DC!Valid(safe) /\ ~Settled(p, m)
      BY <2>3 DEF Open
    <3>2. Fits(Entry(p)) /\ At(p).time = T
      BY <1>2, <3>1, ValidFits DEF Fits
    <3>3. ASSUME CheckBatch(q.l1Blocks, Entry(p)) = "drop"
          PROVE  FALSE
      <4>1. IsRun(q.l1Blocks, prevOrigin) /\ q.l1Blocks # << >>
        BY DEF QueueGood, IsRun
      <4>2. /\ Head(q.l1Blocks) = DC!Origin(safe) + 1
            /\ At(p).epoch = DC!Origin(safe) \/ DriftedOn
        BY <1>1, <1>2, <3>2, <3>3, <4>1, DropSettled
      <4> QED
        BY <3>1, <4>1, <4>2 DEF Settled, Moved
    <3> QED
      BY <3>2, <3>3
  <2>4. CASE T \in Times
    <3>1. Candidates(q) = q.batches[T] /\ Candidates(a) = a.batches[T]
      BY <2>4 DEF Candidates
    <3>2. Tracks(q.batches[T], R, N)
      BY <2>2, <3>1
    <3> HIDE DEF N1, N
    <3>3. Tracks(a.batches[T], R1, N1)
      BY <1>1, <2>1, <2>3, <2>4, <3>2, AddAt
    <3> QED
      BY <1>5, <3>1, <3>3 DEF Now, N1
  <2>5. CASE T \notin Times
    <3>1. Candidates(q) = << >> /\ Candidates(a) = << >>
      BY <2>5 DEF Candidates
    <3>2. p \notin N1
      BY <1>1, <2>3, <2>5
    <3>3. N1 \subseteq N /\ R \subseteq R1
      BY <2>1, <3>2
    <3> HIDE DEF N1, N
    <3>4. Tracks(Candidates(a), R1, N1)
      BY <2>2, <3>1, <3>3, TracksMore
    <3> QED
      BY <1>5, <3>4 DEF Now, N1
  <2> QED
    BY <2>4, <2>5
<1> QED
  BY <1>3, <1>6

-----------------------------------------------------------------------------
(***************************************************************************)
(* The situation in which deriveNextBatch is called.                       *)
(***************************************************************************)
Ready(q, R, outOfData) ==
  /\ QueueGood(q, prevOrigin) /\ DC!Origin(safe) \in {Head(q.l1Blocks), Head(q.l1Blocks) - 1}
  /\ ReadOK(R, prevOrigin, outOfData)
  /\ Future(q, R) /\ Now(q, R) /\ (Moved(q) => NoneLeft)

(***************************************************************************)
(* The numbers that deriveNextBatch works with, and the first L1 block.    *)
(***************************************************************************)
LEMMA ReadyFacts ==
  ASSUME ChainTypes, NEW q, NEW R, NEW outOfData, Ready(q, R, outOfData)
  PROVE  /\ prevOrigin \in Nat /\ prevOrigin \in DC!L1Numbers /\ safe \in Seq(Block)
         /\ DC!Origin(safe) \in Nat /\ DC!NextTime(safe) \in Nat /\ SeqWindowSize \in Nat
         /\ IsRun(q.l1Blocks, prevOrigin) /\ q.l1Blocks # << >>
         /\ Head(q.l1Blocks) \in 0 .. prevOrigin /\ Len(q.l1Blocks) = prevOrigin - Head(q.l1Blocks) + 1
         /\ Len(q.l1Blocks) >= 2 => q.l1Blocks[2] = Head(q.l1Blocks) + 1
         /\ Head(q.l1Blocks) \in {DC!Origin(safe), DC!Origin(safe) + 1}
         /\ Moved(q) <=> Head(q.l1Blocks) = DC!Origin(safe) + 1
         /\ R \subseteq DC!Included /\ Candidates(q) \in Seq(Buffered)
         /\ prevOrigin <= DC!Head1 /\ DC!Head1 \in Nat
<1>1. /\ prevOrigin \in Nat /\ prevOrigin \in DC!L1Numbers /\ safe \in Seq(Block)
      /\ DC!Origin(safe) \in Nat /\ DC!NextTime(safe) \in Nat /\ SeqWindowSize \in Nat
      /\ prevOrigin <= DC!Head1 /\ DC!Head1 \in Nat
  BY BlockRead, OriginIsEpoch, BatchQueueAssumption DEF ChainTypes, L1Top
<1>2. /\ IsRun(q.l1Blocks, prevOrigin) /\ q.l1Blocks # << >> /\ Candidates(q) \in Seq(Buffered)
  BY CandidatesType DEF Ready, QueueGood, IsRun
<1>3. /\ Head(q.l1Blocks) \in 0 .. prevOrigin /\ Len(q.l1Blocks) = prevOrigin - Head(q.l1Blocks) + 1
      /\ Len(q.l1Blocks) >= 2 => q.l1Blocks[2] = Head(q.l1Blocks) + 1
  BY <1>1, <1>2, RunHead
<1>4. Head(q.l1Blocks) \in {DC!Origin(safe), DC!Origin(safe) + 1}
  BY <1>1, <1>3 DEF Ready
<1>5. Moved(q) <=> Head(q.l1Blocks) = DC!Origin(safe) + 1
  BY <1>2 DEF Moved
<1>6. R \subseteq DC!Included
  BY DEF Ready, ReadOK
<1> QED
  BY <1>1, <1>2, <1>3, <1>4, <1>5, <1>6

(***************************************************************************)
(* A candidate that is passed over is not open.                            *)
(***************************************************************************)
LEMMA PassedNotOpen ==
  ASSUME ChainTypes, NEW q, NEW R, NEW outOfData, Ready(q, R, outOfData),
         NEW i \in 1 .. Len(Candidates(q)), ~Picked(q, i),
         NEW u \in Open(R, Moved(q)), Candidates(q)[i] = Entry(u)
  PROVE  FALSE
<1> DEFINE d == Candidates(q)[i]
<1>1. u \in R /\ u \in DC!Valid(safe) /\ ~Settled(u, Moved(q)) /\ u \in DC!Included
  BY ReadyFacts DEF Open
<1>2. /\ d.batch = At(u) /\ d.included = u[1] /\ Fits(d) /\ At(u) \in DC!Batch /\ u[1] \in Nat
  BY <1>1, ValidFits, PlaceFacts DEF Entry
<1>3. d.batch.time = DC!NextTime(safe) /\ DC!NextTime(safe) \in Nat
  BY <1>2, ReadyFacts DEF Fits
<1>4. CheckBatch(q.l1Blocks, d) \notin {"accept", "undecided"}
  BY DEF Picked
<1> HIDE DEF d
<1>5. CheckBatch(q.l1Blocks, d) # "future"
  BY <1>3 DEF CheckBatch
<1>6. CheckBatch(q.l1Blocks, d) = "drop"
  BY <1>4, <1>5, Verdicts
<1>7. /\ Head(q.l1Blocks) = DC!Origin(safe) + 1
      /\ d.batch.epoch = DC!Origin(safe) \/ DriftedOn
  BY <1>2, <1>6, ReadyFacts, DropSettled DEF Ready
<1> QED
  BY <1>1, <1>2, <1>7, ReadyFacts DEF Settled

(***************************************************************************)
(* Without a candidate to pick nothing is open.                            *)
(***************************************************************************)
LEMMA NonePickedNoneOpen ==
  ASSUME ChainTypes, NEW q, NEW R, NEW outOfData, Ready(q, R, outOfData),
         \A i \in 1 .. Len(Candidates(q)) : ~Picked(q, i)
  PROVE  Open(R, Moved(q)) = {}
<1>1. ASSUME NEW u \in Open(R, Moved(q)) PROVE FALSE
  <2>1. PICK i \in 1 .. Len(Candidates(q)) : Candidates(q)[i] = Entry(u)
    BY <1>1 DEF Ready, Now, Tracks
  <2> QED
    BY <1>1, <2>1, PassedNotOpen
<1> QED
  BY <1>1

(***************************************************************************)
(* When the window of the first L1 block has passed, every usable batch    *)
(* for it was read.                                                        *)
(***************************************************************************)
LEMMA WindowRead ==
  ASSUME ChainTypes, L1Good, NEW q, NEW R, NEW outOfData \in BOOLEAN, Ready(q, R, outOfData),
         Forced(q, outOfData), Open(R, Moved(q)) = {},
         NEW u \in DC!Usable(safe), At(u).epoch <= Head(q.l1Blocks)
  PROVE  Moved(q) /\ (At(u).epoch = DC!Origin(safe) \/ DriftedOn)
<1>1. u \in DC!Valid(safe) /\ u \in DC!Included /\ At(u).content # "rejected"
  BY UsableIncluded DEF DC!Usable, At
<1>2. u[1] <= At(u).epoch + SeqWindowSize /\ u[1] \in Nat /\ At(u).epoch \in Nat
  BY <1>1, ValidLater, PlaceFacts, BatchFields
<1>3. q.origin = prevOrigin
  BY DEF Ready, QueueGood
<1>4. u[1] < prevOrigin \/ (outOfData /\ u[1] = prevOrigin)
  <2> DEFINE h == Head(q.l1Blocks)
             x == u[1]
             e == At(u).epoch
  <2>1. h \in Nat /\ x \in Nat /\ e \in Nat /\ e <= h /\ x <= e + SeqWindowSize
        /\ prevOrigin \in Nat /\ SeqWindowSize \in Nat
    BY <1>2, ReadyFacts
  <2>2. (h + SeqWindowSize = prevOrigin /\ outOfData) \/ h + SeqWindowSize < prevOrigin
    BY <1>3 DEF Forced
  <2> HIDE DEF h, x, e
  <2>3. x < prevOrigin \/ (outOfData /\ x = prevOrigin)
    BY <2>1, <2>2
  <2> QED
    BY <2>3 DEF x
<1>5. u \in R
  BY <1>1, <1>4 DEF Ready, ReadOK
<1> QED
  BY <1>1, <1>5 DEF Open, Settled

-----------------------------------------------------------------------------
(***************************************************************************)
(* The buffers for later blocks stay, whatever is kept of the candidates.  *)
(***************************************************************************)
LEMMA KeptFacts ==
  ASSUME safe \in Seq(Block), NEW q, NEW rest, NEW n, Kept(q, rest, n), NEW R, Future(q, R)
  PROVE  /\ Future(Keep(q, rest), R)
         /\ Candidates(Keep(q, rest)) = IF DC!NextTime(safe) \in Times THEN rest ELSE << >>
         /\ Keep(q, rest).l1Blocks = q.l1Blocks
<1>1. DC!NextTime(safe) \in Nat
  BY OriginIsEpoch
<1>2. \A t \in Times : Keep(q, rest).batches[t] =
                         IF t = DC!NextTime(safe) THEN rest ELSE q.batches[t]
  BY DEF Kept
<1>3. Future(Keep(q, rest), R)
  <2> SUFFICES ASSUME NEW t \in Times, t > DC!NextTime(safe)
               PROVE  Tracks(Keep(q, rest).batches[t], R, Later(R, t))
    BY DEF Future
  <2>1. t # DC!NextTime(safe)
    BY <1>1
  <2>2. Keep(q, rest).batches[t] = q.batches[t]
    BY <1>2, <2>1
  <2>3. Tracks(q.batches[t], R, Later(R, t))
    BY DEF Future
  <2> QED
    BY <2>2, <2>3
<1>4. Candidates(Keep(q, rest)) = IF DC!NextTime(safe) \in Times THEN rest ELSE << >>
  BY <1>2 DEF Candidates
<1> QED
  BY <1>3, <1>4 DEF Kept

(***************************************************************************)
(* Only the first L1 block matters for what the queue has to track.        *)
(***************************************************************************)
LEMMA SameBatches ==
  ASSUME NEW q, NEW p, p.batches = q.batches, NEW R
  PROVE  Candidates(p) = Candidates(q) /\ (Future(p, R) <=> Future(q, R))
  BY DEF Candidates, Future

(***************************************************************************)
(* When the window has passed and no batch is open, the empty block is the *)
(* next one.                                                               *)
(***************************************************************************)
LEMMA ForcedRight ==
  ASSUME ChainTypes, L1Good, NEW q, NEW R, NEW outOfData \in BOOLEAN, Ready(q, R, outOfData),
         Forced(q, outOfData), Open(R, Moved(q)) = {},
         \/ Head(q.l1Blocks) = DC!Origin(safe) + 1
         \/ DC!NextTime(safe) < L1Time[q.l1Blocks[2]]
  PROVE  Right(EmptyBatch(Head(q.l1Blocks)), q)
<1> DEFINE o == DC!Origin(safe)
           h == Head(q.l1Blocks)
           T == DC!NextTime(safe)
           b == EmptyBatch(h)
<1>1. /\ o \in Nat /\ T \in Nat /\ prevOrigin \in Nat /\ SeqWindowSize \in Nat /\ h \in Nat
      /\ h \in {o, o + 1} /\ q.l1Blocks # << >> /\ (Moved(q) <=> h = o + 1)
      /\ prevOrigin <= DC!Head1 /\ DC!Head1 \in Nat /\ DC!Head1 \in DC!L1Numbers
  <2>1. /\ o \in Nat /\ T \in Nat /\ prevOrigin \in Nat /\ SeqWindowSize \in Nat /\ h \in Nat
        /\ h \in {o, o + 1} /\ q.l1Blocks # << >> /\ (Moved(q) <=> h = o + 1)
    BY ReadyFacts
  <2>2. prevOrigin <= DC!Head1 /\ DC!Head1 \in Nat /\ DC!Head1 \in DC!L1Numbers
    BY BlockRead DEF ChainTypes, L1Top
  <2> QED
    BY <2>1, <2>2
<1>2. /\ Len(q.l1Blocks) >= 2 /\ q.l1Blocks[2] = h + 1 /\ h + 1 <= prevOrigin
      /\ h + SeqWindowSize <= prevOrigin
  <2>1. Len(q.l1Blocks) = prevOrigin - h + 1 /\ q.origin = prevOrigin
    BY ReadyFacts DEF Ready, QueueGood
  <2>2. ~(Len(q.l1Blocks) < 2) /\ (h + SeqWindowSize = prevOrigin \/ h + SeqWindowSize < prevOrigin)
    BY <2>1 DEF Forced
  <2>3. Len(q.l1Blocks) >= 2 /\ h + 1 <= prevOrigin /\ h + SeqWindowSize <= prevOrigin
    <3> HIDE DEF h
    <3> QED
      BY <1>1, <2>1, <2>2
  <2> QED
    BY <2>3, ReadyFacts
<1>3. o + 1 \in DC!L1Numbers /\ L1Time[o + 1] \in Nat
  <2>1. o + 1 \in 0 .. DC!Head1
    <3> HIDE DEF h, o
    <3> QED
      BY <1>1, <1>2
  <2> QED
    BY <1>1, <2>1, L1Below
<1>4. /\ h = o => T < L1Time[o + 1]
      /\ h = o + 1 => NoneLeft /\ ~(T < L1Time[o + 1])
  <2>1. CASE h = o
    BY <1>1, <1>2, <2>1
  <2>2. CASE h = o + 1
    BY <1>1, <1>3, <2>2 DEF Ready, NoneLeft
  <2> QED
    BY <1>1, <2>1, <2>2
<1>5. DC!ForcedEpoch(safe) = h
  BY <1>1, <1>4 DEF DC!ForcedEpoch
<1>6. DC!Expired(safe)
  BY <1>1, <1>2, <1>3, <1>5 DEF DC!Expired
<1>7. ASSUME NEW u \in DC!Usable(safe)
      PROVE  At(u).epoch = h /\ At(u).content = "empty"
  <2>1. u \in DC!Valid(safe) /\ u \in DC!Included
    BY UsableIncluded
  <2>2. At(u).epoch \in {o, o + 1} /\ T >= L1Time[At(u).epoch] /\ At(u).time = T
    BY <2>1, ValidLater
  <2>3. h = o + 1
    <3> SUFFICES ASSUME h = o PROVE FALSE
      BY <1>1
    <3>1. At(u).epoch = o
      BY <1>1, <1>3, <1>4, <2>2
    <3>2. At(u).epoch <= h
      BY <1>1, <3>1
    <3> QED
      BY <1>1, <3>2, WindowRead
  <2>4. At(u).epoch = o + 1
    BY <1>4, <2>2, <2>3 DEF NoneLeft
  <2>5. At(u).epoch <= h /\ At(u).epoch # o
    BY <1>1, <2>3, <2>4
  <2>6. DriftedOn
    BY <2>5, WindowRead
  <2>7. Drifted(At(u))
    BY <2>2, <2>4, <2>6 DEF Drifted, DriftedOn
  <2>8. At(u).content = "empty"
    BY <2>1, <2>7, ValidFits DEF Fits, Entry
  <2> QED
    BY <2>3, <2>4, <2>8
<1>8. DC!NextBlock(safe) = [epoch |-> h, content |-> "empty"]
  <2>1. CASE DC!Usable(safe) = {}
    BY <1>5, <2>1 DEF DC!NextBlock
  <2>2. CASE DC!Usable(safe) # {}
    <3> HIDE DEF h
    <3> QED
      BY <1>7, <2>2, CommonIsNext
  <2> QED
    BY <2>1, <2>2
<1>9. b.epoch = h /\ b.content = "empty"
  BY DEF EmptyBatch
<1> QED
  BY <1>1, <1>6, <1>8, <1>9 DEF Right

(***************************************************************************)
(* When the window of the old origin has passed and the next block is not  *)
(* older than the next origin, nothing is left for the old one.            *)
(***************************************************************************)
LEMMA ShiftNoneLeft ==
  ASSUME ChainTypes, L1Good, NEW q, NEW R, NEW outOfData \in BOOLEAN, Ready(q, R, outOfData),
         Forced(q, outOfData), Open(R, Moved(q)) = {},
         Head(q.l1Blocks) # DC!Origin(safe) + 1,
         ~(DC!NextTime(safe) < L1Time[q.l1Blocks[2]])
  PROVE  NoneLeft /\ Head(q.l1Blocks) = DC!Origin(safe) /\ Len(q.l1Blocks) >= 2
<1> DEFINE o == DC!Origin(safe)
           h == Head(q.l1Blocks)
           T == DC!NextTime(safe)
<1>1. /\ o \in Nat /\ T \in Nat /\ prevOrigin \in Nat /\ SeqWindowSize \in Nat
      /\ h = o /\ q.l1Blocks # << >> /\ ~Moved(q)
      /\ prevOrigin <= DC!Head1 /\ DC!Head1 \in Nat /\ DC!Head1 \in DC!L1Numbers
  BY ReadyFacts DEF ChainTypes
<1>2. /\ Len(q.l1Blocks) >= 2 /\ q.l1Blocks[2] = o + 1 /\ o + 1 <= prevOrigin
      /\ o + SeqWindowSize <= prevOrigin
  <2>1. Len(q.l1Blocks) = prevOrigin - h + 1 /\ q.origin = prevOrigin
    BY ReadyFacts DEF Ready, QueueGood
  <2>2. ~(Len(q.l1Blocks) < 2) /\ (h + SeqWindowSize = prevOrigin \/ h + SeqWindowSize < prevOrigin)
    BY <2>1 DEF Forced
  <2>3. Len(q.l1Blocks) >= 2 /\ h + 1 <= prevOrigin /\ h + SeqWindowSize <= prevOrigin
    <3> HIDE DEF h, o
    <3> QED
      BY <1>1, <2>1, <2>2
  <2> QED
    BY <1>1, <2>3, ReadyFacts
<1>3. L1Time[o + 1] \in Nat
  <2>1. o + 1 \in 0 .. DC!Head1
    <3> HIDE DEF o
    <3> QED
      BY <1>1, <1>2
  <2> QED
    BY <1>1, <2>1, L1Below
<1>4. T >= L1Time[o + 1] /\ DC!Head1 >= o + SeqWindowSize
  BY <1>1, <1>2, <1>3
<1>5. ASSUME NEW u \in DC!Usable(safe) PROVE At(u).epoch # o
  <2> SUFFICES ASSUME At(u).epoch = o PROVE FALSE
    OBVIOUS
  <2>1. At(u).epoch <= h
    BY <1>1
  <2> QED
    BY <1>1, <2>1, WindowRead
<1> QED
  BY <1>1, <1>2, <1>4, <1>5 DEF NoneLeft

-----------------------------------------------------------------------------
(***************************************************************************)
(* The candidate that is accepted is the batch of a valid place that was   *)
(* read, and no open place is earlier.                                     *)
(***************************************************************************)
PickedPlace(q, R, k, p) ==
  /\ p \in R /\ p \in DC!Included /\ p \in DC!Valid(safe) /\ Candidates(q)[k] = Entry(p)
  /\ \A u \in Open(R, Moved(q)) : u = p \/ DC!Earlier(p, u)

(***************************************************************************)
(* The first candidate that is accepted has such a place, and its epoch is *)
(* the first L1 block of the queue or the next.                            *)
(***************************************************************************)
LEMMA PickEarliest ==
  ASSUME ChainTypes, NEW q, NEW R, NEW outOfData, Ready(q, R, outOfData),
         NEW k \in 1 .. Len(Candidates(q)), FirstPicked(q, k),
         CheckBatch(q.l1Blocks, Candidates(q)[k]) = "accept", Consistent(Candidates(q)[k].batch)
  PROVE  /\ \E p : PickedPlace(q, R, k, p)
         /\ Candidates(q)[k].batch.epoch \in {Head(q.l1Blocks), Head(q.l1Blocks) + 1}
         /\ Candidates(q)[k].batch.epoch = Head(q.l1Blocks) \/ Len(q.l1Blocks) >= 2
<1> DEFINE c == Candidates(q)
           S == {p \in R : c[k] = Entry(p)}
<1>1. R \subseteq DC!Included /\ Tracks(c, R, Open(R, Moved(q))) /\ c \in Seq(Buffered)
  BY ReadyFacts DEF Ready, Now
<1>2. S # {} /\ S \in SUBSET DC!Included
  BY <1>1 DEF Tracks
<1>3. PICK p \in S : \A r \in S : r = p \/ DC!Earlier(p, r)
  <2> HIDE DEF S
  <2> QED
    BY <1>2, EarliestPlace, Zenon
<1>4. c[k] = Entry(p) /\ p \in R /\ p \in DC!Included
  BY <1>1
<1>5. /\ c[k].batch \in DC!Batch /\ c[k].included \in Nat
  BY <1>4, PlaceFacts DEF Entry
<1>6. Fits(c[k]) /\ c[k].batch.epoch \in {Head(q.l1Blocks), Head(q.l1Blocks) + 1}
      /\ (c[k].batch.epoch = Head(q.l1Blocks) \/ Len(q.l1Blocks) >= 2)
  <2> HIDE DEF c
  <2>1. CheckBatch(q.l1Blocks, c[k]) = "accept" /\ Consistent(c[k].batch)
    BY DEF c
  <2> QED
    BY <1>5, <2>1, AcceptedFits, ReadyFacts DEF Ready
<1>7. p \in DC!Valid(safe)
  BY <1>4, <1>6, ValidFits
<1>8. ASSUME NEW u \in Open(R, Moved(q)) PROVE u = p \/ DC!Earlier(p, u)
  <2>0. u \in R /\ u \in DC!Included
    BY <1>1 DEF Open
  <2>1. PICK i \in 1 .. Len(c) :
          /\ c[i] = Entry(u)
          /\ \A j \in 1 .. i - 1 : \E r \in R : c[j] = Entry(r) /\ DC!Earlier(r, u)
    BY <1>1 DEF Tracks
  <2>2. CASE i < k
    <3>1. i \in 1 .. k - 1 /\ k \in Nat
      BY <2>2
    <3>2. ~Picked(q, i)
      BY <3>1 DEF FirstPicked
    <3> QED
      BY <2>1, <3>2, PassedNotOpen
  <2>3. CASE i = k
    <3>1. u \in S
      BY <2>0, <2>1, <2>3
    <3> QED
      BY <1>3, <3>1
  <2>4. CASE i > k
    <3>1. k \in 1 .. i - 1
      BY <2>4
    <3>2. PICK r \in R : c[k] = Entry(r) /\ DC!Earlier(r, u)
      BY <2>1, <3>1
    <3>3. r \in S /\ r \in DC!Included
      BY <1>1, <3>2
    <3>4. r = p \/ DC!Earlier(p, r)
      BY <1>3, <3>3
    <3> HIDE DEF S
    <3> QED
      BY <1>4, <2>0, <3>2, <3>3, <3>4, EarlierOrder
  <2> QED
    BY <2>2, <2>3, <2>4
<1>9. PickedPlace(q, R, k, p)
  BY <1>4, <1>7, <1>8 DEF PickedPlace
<1> QED
  BY <1>6, <1>9

(***************************************************************************)
(* A batch that is accepted makes the next block of DerivedChain.          *)
(***************************************************************************)
LEMMA AcceptedRight ==
  ASSUME ChainTypes, L1Good, NEW q, NEW R, NEW outOfData, Ready(q, R, outOfData),
         NEW k \in 1 .. Len(Candidates(q)), NEW p, PickedPlace(q, R, k, p),
         At(p).epoch \in {Head(q.l1Blocks), Head(q.l1Blocks) + 1},
         At(p).content # "rejected"
  PROVE  /\ DC!Usable(safe) # {}
         /\ DC!NextBlock(safe) = [epoch |-> At(p).epoch, content |-> At(p).content]
<1> DEFINE o == DC!Origin(safe)
           h == Head(q.l1Blocks)
<1>1. /\ p \in R /\ p \in DC!Included /\ p \in DC!Valid(safe)
      /\ \A u \in Open(R, Moved(q)) : u = p \/ DC!Earlier(p, u)
  BY DEF PickedPlace
<1>2. /\ o \in Nat /\ h \in {o, o + 1} /\ (Moved(q) <=> h = o + 1) /\ (Moved(q) => NoneLeft)
      /\ R \subseteq DC!Included
      /\ \A r \in R : \A u \in DC!Included : DC!Earlier(u, r) => u \in R
  BY ReadyFacts DEF Ready, ReadOK
<1>3. p \in DC!Usable(safe)
  <2>1. ASSUME At(p).epoch = o, NEW v \in DC!Valid(safe), DC!Earlier(v, p),
               At(v).epoch = o + 1, At(v).content = "rejected"
        PROVE  FALSE
    <3>1. ~Moved(q)
      BY <1>2, <2>1
    <3>2. v \in R /\ v \in DC!Included
      BY <1>1, <1>2, <2>1, UsableIncluded
    <3>3. ~Settled(v, Moved(q))
      BY <1>2, <2>1, <3>1 DEF Settled
    <3>4. v \in Open(R, Moved(q))
      BY <2>1, <3>2, <3>3 DEF Open
    <3> QED
      BY <1>1, <2>1, <3>2, <3>4, EarlierOrder
  <2> QED
    BY <1>1, <2>1 DEF DC!Usable, At
<1>4. CASE Moved(q) /\ DriftedOn
  <2>1. ASSUME NEW u \in DC!Usable(safe)
        PROVE  At(u).epoch = o + 1 /\ At(u).content = "empty"
    <3>1. u \in DC!Valid(safe) /\ u \in DC!Included
      BY UsableIncluded
    <3>2. At(u).epoch \in {o, o + 1} /\ At(u).time = DC!NextTime(safe)
      BY <3>1, ValidLater
    <3>3. At(u).epoch = o + 1
      BY <1>2, <1>4, <3>2 DEF NoneLeft
    <3>4. Drifted(At(u))
      BY <1>4, <3>2, <3>3 DEF Drifted, DriftedOn
    <3>5. At(u).content = "empty"
      BY <3>1, <3>4, ValidFits DEF Fits, Entry
    <3> QED
      BY <3>3, <3>5
  <2>2. \A u \in DC!Usable(safe) : At(u).epoch = At(p).epoch /\ At(u).content = At(p).content
    BY <1>3, <2>1
  <2> QED
    BY <1>3, <2>2, CommonIsNext
<1>5. CASE ~(Moved(q) /\ DriftedOn)
  <2>1. ASSUME NEW u \in DC!Usable(safe) PROVE u = p \/ DC!Earlier(p, u)
    <3>1. u \in DC!Valid(safe) /\ u \in DC!Included /\ At(u).content # "rejected"
      BY UsableIncluded DEF DC!Usable, At
    <3>2. CASE DC!Earlier(u, p)
      <4>1. u \in R
        BY <1>1, <1>2, <3>1, <3>2
      <4>2. ~Settled(u, Moved(q))
        BY <1>2, <1>5, <3>1 DEF Settled, NoneLeft
      <4>3. u \in Open(R, Moved(q))
        BY <3>1, <4>1, <4>2 DEF Open
      <4> QED
        BY <1>1, <4>3
    <3> QED
      BY <1>1, <3>1, <3>2, EarlierOrder
  <2> QED
    BY <1>3, <2>1, EarliestIsNext
<1> QED
  BY <1>3, <1>4, <1>5

(***************************************************************************)
(* A batch for the next origin that the engine rejects leaves nothing for  *)
(* the old one.                                                            *)
(***************************************************************************)
LEMMA RejectedNoneLeft ==
  ASSUME ChainTypes, L1Good, NEW q, NEW R, NEW outOfData, Ready(q, R, outOfData),
         NEW k \in 1 .. Len(Candidates(q)), NEW p, PickedPlace(q, R, k, p),
         At(p).epoch = DC!Origin(safe) + 1, At(p).content = "rejected"
  PROVE  NoneLeft
<1> DEFINE o == DC!Origin(safe)
<1>1. /\ p \in R /\ p \in DC!Included /\ p \in DC!Valid(safe)
      /\ \A u \in Open(R, Moved(q)) : u = p \/ DC!Earlier(p, u)
  BY DEF PickedPlace
<1>2. /\ o \in Nat /\ (Moved(q) => NoneLeft) /\ R \subseteq DC!Included
      /\ \A r \in R : \A u \in DC!Included : DC!Earlier(u, r) => u \in R
  BY ReadyFacts DEF Ready, ReadOK
<1>3. DC!NextTime(safe) >= L1Time[o + 1]
  BY <1>1, ValidLater
<1>4. ASSUME ~Moved(q), NEW u \in DC!Usable(safe), At(u).epoch = o PROVE FALSE
  <2>1. u \in DC!Valid(safe) /\ u \in DC!Included /\ At(u).content # "rejected"
    BY UsableIncluded DEF DC!Usable, At
  <2>2. ~DC!Earlier(p, u)
    BY <1>1, <1>4 DEF DC!Usable, At
  <2>3. u # p
    BY <2>1
  <2>4. DC!Earlier(u, p)
    BY <1>1, <2>1, <2>2, <2>3, EarlierOrder
  <2>5. u \in R
    BY <1>1, <1>2, <2>1, <2>4
  <2>6. u \in Open(R, Moved(q))
    BY <1>4, <2>1, <2>5 DEF Open, Settled
  <2> QED
    BY <1>1, <2>2, <2>3, <2>6
<1> QED
  BY <1>1, <1>2, <1>3, <1>4 DEF NoneLeft

-----------------------------------------------------------------------------
(***************************************************************************)
(* What deriveNextBatch leaves, if it does not end in a reset: buffers     *)
(* that track what was read and, if it derived a batch, the block that     *)
(* DerivedChain has next.                                                  *)
(***************************************************************************)
Waiting(q, R) == Now(q, R) /\ (Moved(q) => NoneLeft)

Outcome(r, R) ==
  /\ r.err # "Reset" => Future(r.bq, R)
  /\ r.err = "EOF" => Waiting(r.bq, R)
  /\ r.err = "none" /\ Consistent(r.batch) =>
       IF r.batch.content = "rejected" THEN Waiting(r.bq, R) ELSE Right(r.batch, r.bq)

(***************************************************************************)
(* No candidate: the queue waits, moves on, or derives an empty batch.     *)
(***************************************************************************)
LEMMA ForceOutcome ==
  ASSUME ChainTypes, L1Good, NEW q, NEW R, NEW outOfData \in BOOLEAN, Ready(q, R, outOfData),
         \A i \in 1 .. Len(Candidates(q)) : ~Picked(q, i)
  PROVE  Outcome(ForceEmpty(Keep(q, << >>), outOfData), R)
<1> DEFINE p == Keep(q, << >>)
           r == ForceEmpty(p, outOfData)
<1>1. Open(R, Moved(q)) = {}
  BY NonePickedNoneOpen
<1>2. /\ prevOrigin \in Nat /\ safe \in Seq(Block) /\ QueueGood(q, prevOrigin)
      /\ q.l1Blocks # << >> /\ Future(q, R)
  BY ReadyFacts DEF Ready
<1>3. Kept(q, << >>, prevOrigin)
  BY <1>2, KeepNone
<1>4. /\ Future(p, R) /\ Candidates(p) = << >> /\ p.l1Blocks = q.l1Blocks
      /\ QueueGood(p, prevOrigin)
  BY <1>2, <1>3, KeptFacts DEF Kept
<1>5. p.origin = q.origin
  BY <1>2, <1>4 DEF QueueGood
<1> HIDE DEF p
<1>6. Forced(p, outOfData) <=> Forced(q, outOfData)
  BY <1>4, <1>5 DEF Forced
<1>7. Moved(p) = Moved(q)
  BY <1>4 DEF Moved
<1>8. Now(p, R)
  <2>1. Tracks(Candidates(p), R, Open(R, Moved(p)))
    BY <1>1, <1>4, <1>7, TracksNone
  <2> QED
    BY <2>1 DEF Now
<1>9. Waiting(p, R)
  BY <1>7, <1>8 DEF Waiting, Ready
<1>10. CASE r = Failed(p, "EOF")
  <2>1. r.err = "EOF" /\ r.bq = p
    BY <1>10 DEF Failed
  <2> HIDE DEF r
  <2> QED
    BY <1>4, <1>9, <2>1 DEF Outcome, r, p
<1>11. CASE /\ Forced(p, outOfData)
            /\ \/ Head(p.l1Blocks) = DC!Origin(safe) + 1
               \/ DC!NextTime(safe) < L1Time[p.l1Blocks[2]]
            /\ r = Derived(p, EmptyBatch(Head(p.l1Blocks)))
  <2>1. r.err = "none" /\ r.bq = p /\ r.batch = EmptyBatch(Head(q.l1Blocks))
    BY <1>4, <1>11 DEF Derived
  <2>2. Right(EmptyBatch(Head(q.l1Blocks)), q)
    BY <1>1, <1>4, <1>6, <1>11, ForcedRight
  <2>3. Right(r.batch, p)
    BY <1>4, <2>1, <2>2 DEF Right
  <2>4. r.batch.content # "rejected"
    BY <2>1 DEF EmptyBatch
  <2> HIDE DEF r
  <2> QED
    BY <1>4, <2>1, <2>3, <2>4 DEF Outcome, r, p
<1>12. CASE /\ Forced(p, outOfData) /\ Head(p.l1Blocks) # DC!Origin(safe) + 1
            /\ ~(DC!NextTime(safe) < L1Time[p.l1Blocks[2]])
            /\ r = Failed(Shifted(p), "EOF")
  <2>1. NoneLeft /\ Head(q.l1Blocks) = DC!Origin(safe) /\ Len(q.l1Blocks) >= 2
    BY <1>1, <1>4, <1>6, <1>12, ShiftNoneLeft
  <2>2. Shifted(p).batches = p.batches
    BY <1>2, <1>4, <2>1, ShiftGood
  <2>3. r.err = "EOF" /\ r.bq = Shifted(p)
    BY <1>12 DEF Failed
  <2>4. Future(Shifted(p), R) /\ Candidates(Shifted(p)) = << >>
    BY <1>4, <2>2, SameBatches
  <2>5. ASSUME NEW m \in BOOLEAN PROVE Open(R, m) = {}
    <3>1. ~Moved(q)
      BY <2>1, ReadyFacts DEF Moved
    <3> QED
      BY <1>1, <3>1 DEF Open, Settled
  <2>6. Moved(Shifted(p)) \in BOOLEAN
    BY DEF Moved
  <2>7. Tracks(Candidates(Shifted(p)), R, Open(R, Moved(Shifted(p))))
    BY <2>4, <2>5, <2>6, TracksNone
  <2> HIDE DEF r
  <2> QED
    BY <2>1, <2>3, <2>4, <2>7 DEF Outcome, Waiting, Now, r, p
<1> QED
  BY <1>10, <1>11, <1>12, ForceCases, Zenon

(***************************************************************************)
(* An undecided candidate stays, alone.                                    *)
(***************************************************************************)
LEMMA UndecidedOutcome ==
  ASSUME ChainTypes, L1Good, NEW q, NEW R, NEW outOfData, Ready(q, R, outOfData),
         NEW k \in 1 .. Len(Candidates(q)),
         CheckBatch(q.l1Blocks, Candidates(q)[k]) = "undecided"
  PROVE  Outcome(Failed(Keep(q, <<Candidates(q)[k]>>), "EOF"), R)
<1> DEFINE d == Candidates(q)[k]
           e == <<d>>
           p == Keep(q, e)
           r == Failed(p, "EOF")
<1>1. /\ prevOrigin \in Nat /\ safe \in Seq(Block) /\ QueueGood(q, prevOrigin) /\ Future(q, R)
      /\ IsRun(q.l1Blocks, prevOrigin)
  BY ReadyFacts DEF Ready
<1>2. ~(Len(q.l1Blocks) >= 2)
  BY UndecidedAlone
<1>3. R \in SUBSET {u \in DC!Included : u[1] <= prevOrigin}
  BY DEF Ready, ReadOK
<1>4. Open(R, Moved(q)) = {}
  BY <1>1, <1>2, <1>3, AloneNoneOpen DEF Ready
<1>5. Kept(q, e, prevOrigin)
  BY <1>1, KeepOne
<1>6. \E u \in R : d = Entry(u)
  BY DEF Ready, Now, Tracks
<1>7. Tracks(e, R, {})
  <2>1. Len(e) = 1 /\ e[1] = d
    OBVIOUS
  <2> HIDE DEF e, d
  <2>2. \A i \in 1 .. Len(e) : e[i] = d
    BY <2>1
  <2> QED
    BY <1>6, <2>2 DEF Tracks
<1> HIDE DEF e, d
<1>8. /\ Future(p, R) /\ p.l1Blocks = q.l1Blocks
      /\ Candidates(p) = IF DC!NextTime(safe) \in Times THEN e ELSE << >>
  BY <1>1, <1>5, KeptFacts
<1> HIDE DEF p
<1>9. Tracks(Candidates(p), R, {})
  BY <1>7, <1>8, TracksNone
<1>10. Moved(p) = Moved(q)
  BY <1>8 DEF Moved
<1>11. Waiting(p, R)
  BY <1>4, <1>9, <1>10 DEF Waiting, Now, Ready
<1>12. r.err = "EOF" /\ r.bq = p
  BY DEF Failed
<1> HIDE DEF r
<1> QED
  BY <1>8, <1>11, <1>12 DEF Outcome, r, p, e, d

(***************************************************************************)
(* An accepted candidate is derived, and leaves the queue behind it.       *)
(***************************************************************************)
AcceptedQueue(q, k) ==
  IF Candidates(q)[k].batch.epoch = Head(q.l1Blocks) + 1
  THEN [Keep(q, After(q, k)) EXCEPT !.l1Blocks = Tail(@)]
  ELSE Keep(q, After(q, k))

(***************************************************************************)
(* An accepted candidate is the block that DerivedChain has next, or one   *)
(* that the engine rejects.                                                *)
(***************************************************************************)
LEMMA AcceptedOutcome ==
  ASSUME ChainTypes, L1Good, NEW q, NEW R, NEW outOfData, Ready(q, R, outOfData),
         NEW k \in 1 .. Len(Candidates(q)), FirstPicked(q, k),
         CheckBatch(q.l1Blocks, Candidates(q)[k]) = "accept"
  PROVE  Outcome(Derived(AcceptedQueue(q, k), Candidates(q)[k].batch), R)
<1> DEFINE c == Candidates(q)
           b == c[k].batch
           o == DC!Origin(safe)
           h == Head(q.l1Blocks)
           e == After(q, k)
           p == Keep(q, e)
           z == AcceptedQueue(q, k)
           r == Derived(z, b)
<1>1. /\ prevOrigin \in Nat /\ safe \in Seq(Block) /\ QueueGood(q, prevOrigin) /\ Future(q, R)
      /\ q.l1Blocks # << >> /\ o \in Nat /\ h \in {o, o + 1} /\ (Moved(q) <=> h = o + 1)
      /\ c \in Seq(Buffered) /\ h \in Nat /\ R \subseteq DC!Included
  BY ReadyFacts DEF Ready
<1>2. /\ Len(e) = Len(c) - k /\ \A i \in 1 .. Len(e) : e[i] = c[k + i]
      /\ Kept(q, e, prevOrigin)
  BY <1>1, KeepAfter
<1>3. /\ Future(p, R) /\ p.l1Blocks = q.l1Blocks /\ QueueGood(p, prevOrigin)
      /\ Candidates(p) = IF DC!NextTime(safe) \in Times THEN e ELSE << >>
  BY <1>1, <1>2, KeptFacts DEF Kept
<1>4. DC!NextTime(safe) \in Times
  <2> SUFFICES ASSUME DC!NextTime(safe) \notin Times PROVE FALSE
    OBVIOUS
  <2>1. c = << >>
    BY DEF Candidates
  <2> QED
    BY <2>1
<1>5. z = IF b.epoch = h + 1 THEN Shifted(p) ELSE p
  BY DEF AcceptedQueue, Shifted
<1>6. r.err = "none" /\ r.bq = z /\ r.batch = b
  BY DEF Derived
<1>7. Future(z, R) /\ Candidates(z) = e
  <2>1. z.batches = p.batches
    <3> HIDE DEF p
    <3>1. Shifted(p).batches = p.batches
      <4>1. p \in Queue
        BY <1>3 DEF QueueGood
      <4> QED
        BY <4>1 DEF Shifted, Queue
    <3> QED
      BY <1>5, <3>1
  <2> HIDE DEF z, p, e
  <2> QED
    BY <1>3, <1>4, <2>1, SameBatches
<1>8. ASSUME Consistent(b)
      PROVE  IF b.content = "rejected" THEN Waiting(z, R) ELSE Right(b, z)
  <2>1. PICK v : PickedPlace(q, R, k, v)
    BY <1>8, PickEarliest
  <2>2. b.epoch \in {h, h + 1} /\ (b.epoch = h \/ Len(q.l1Blocks) >= 2) /\ b.epoch \in {o, o + 1}
    BY <1>8, PickEarliest DEF Consistent
  <2>3. b = At(v) /\ v \in R /\ v \in DC!Included /\ c[k] = Entry(v)
    BY <2>1 DEF PickedPlace, Entry
  <2>4. z.l1Blocks # << >> /\ Head(z.l1Blocks) = b.epoch
    <3>1. CASE b.epoch = h + 1
      <4>1. Len(p.l1Blocks) >= 2
        BY <1>1, <1>3, <2>2, <3>1
      <4> HIDE DEF p
      <4>2. QueueGood(Shifted(p), prevOrigin) /\ Head(Shifted(p).l1Blocks) = Head(p.l1Blocks) + 1
        BY <1>1, <1>3, <4>1, ShiftGood
      <4> QED
        BY <1>3, <1>5, <3>1, <4>2 DEF QueueGood, IsRun
    <3>2. CASE b.epoch # h + 1
      <4>1. b.epoch = h /\ z = p
        BY <1>5, <2>2, <3>2
      <4> HIDE DEF p, z
      <4> QED
        BY <1>1, <1>3, <4>1
    <3> QED
      BY <3>1, <3>2
  <2> HIDE DEF z, p, e, b
  <2>5. Moved(z) <=> b.epoch = o + 1
    BY <2>4 DEF Moved
  <2>6. CASE b.content # "rejected"
    <3>1. /\ DC!Usable(safe) # {}
          /\ DC!NextBlock(safe) = [epoch |-> At(v).epoch, content |-> At(v).content]
      BY <2>1, <2>2, <2>3, <2>6, AcceptedRight
    <3> QED
      BY <2>3, <2>4, <2>6, <3>1 DEF Right
  <2>7. CASE b.content = "rejected"
    <3>1. Moved(z) => NoneLeft
      BY <2>1, <2>3, <2>5, <2>7, RejectedNoneLeft
    <3>2. Moved(q) => Moved(z)
      BY <1>1, <2>2, <2>5
    <3>3. Open(R, Moved(z)) \subseteq Open(R, Moved(q))
      BY <3>2 DEF Open, Settled
    <3>4. ASSUME NEW n \in Open(R, Moved(z)), NEW i \in 1 .. k, c[i] = Entry(n)
          PROVE  FALSE
      <4>1. CASE i = k
        <5>1. At(n) = b
          BY <2>3, <3>4, <4>1 DEF Entry
        <5>2. ~Settled(n, Moved(z))
          BY <3>4 DEF Open
        <5> QED
          BY <2>2, <2>5, <2>7, <5>1, <5>2 DEF Settled
      <4>2. CASE i # k
        <5>1. i \in 1 .. k - 1 /\ i \in 1 .. Len(c)
          BY <4>2, <1>1
        <5>2. ~Picked(q, i)
          BY <5>1 DEF FirstPicked
        <5> QED
          BY <3>3, <3>4, <5>1, <5>2, PassedNotOpen
      <4> QED
        BY <4>1, <4>2
    <3>5. Tracks(c, R, Open(R, Moved(q)))
      BY DEF Ready, Now
    <3>6. Len(c) \in Nat /\ k \in Nat /\ k <= Len(c)
      BY <1>1
    <3> HIDE DEF c
    <3>7. \A n \in Open(R, Moved(z)) : \A i \in 1 .. k : c[i] # Entry(n)
      BY <3>4
    <3>8. Tracks(e, R, Open(R, Moved(z)))
      BY <1>2, <3>3, <3>5, <3>6, <3>7, TracksAfter
    <3> QED
      BY <1>7, <2>7, <3>1, <3>8 DEF Waiting, Now
  <2> QED
    BY <2>6, <2>7
<1> HIDE DEF r, z, b
<1> QED
  BY <1>6, <1>7, <1>8 DEF Outcome, r, z, b

(***************************************************************************)
(* deriveNextBatch derives what DerivedChain has next.                     *)
(***************************************************************************)
LEMMA DeriveOutcome ==
  ASSUME ChainTypes, L1Good, NEW q, NEW R, NEW outOfData \in BOOLEAN, Ready(q, R, outOfData)
  PROVE  Outcome(deriveNextBatch(q, outOfData), R)
<1> DEFINE r == deriveNextBatch(q, outOfData)
<1>1. Candidates(q) \in Seq(Buffered)
  BY ReadyFacts
<1>2. CASE /\ \A i \in 1 .. Len(Candidates(q)) : ~Picked(q, i)
           /\ r = ForceEmpty(Keep(q, << >>), outOfData)
  BY <1>2, ForceOutcome
<1>3. ASSUME NEW k \in 1 .. Len(Candidates(q)),
             CheckBatch(q.l1Blocks, Candidates(q)[k]) = "undecided",
             r = Failed(Keep(q, <<Candidates(q)[k]>>), "EOF")
      PROVE  Outcome(r, R)
  BY <1>3, UndecidedOutcome
<1>4. ASSUME NEW k \in 1 .. Len(Candidates(q)), FirstPicked(q, k),
             CheckBatch(q.l1Blocks, Candidates(q)[k]) = "accept",
             r = Derived(AcceptedQueue(q, k), Candidates(q)[k].batch)
      PROVE  Outcome(r, R)
  BY <1>4, AcceptedOutcome
<1>5. DC!Origin(safe) \in {Head(q.l1Blocks), Head(q.l1Blocks) - 1}
  BY DEF Ready
<1> HIDE DEF r
<1> QED
  BY <1>1, <1>2, <1>3, <1>4, <1>5, DeriveCases, Zenon DEF AcceptedQueue, r

-----------------------------------------------------------------------------
(***************************************************************************)
(* L1 and the safe chain stay: so does the view of them.                   *)
(***************************************************************************)
LEMMA SameView ==
  ASSUME UNCHANGED <<l1, safe>>
  PROVE  /\ L1Good' <=> L1Good
         /\ \A n, k : ReadTo(n, k)' = ReadTo(n, k)
         /\ \A R, q, b, a : ViewOf(R, q, b, a)' <=> ViewOf(R, q, b, a)
<1>1. /\ DC!Included' = DC!Included /\ DC!Head1' = DC!Head1 /\ DC!NextTime(safe)' = DC!NextTime(safe)
      /\ DC!Origin(safe)' = DC!Origin(safe) /\ \A p : At(p)' = At(p)
      /\ \A p : Entry(p)' = Entry(p)
  BY DEF DC!Included, DC!Head1, DC!NextTime, DC!Origin, DC!Last, At, DC!BatchAt, Entry
<1>2. DC!Valid(safe)' = DC!Valid(safe)
  BY DEF DC!Valid, DC!Included, DC!Head1, DC!BatchAt, DC!NextTime, DC!Origin, DC!Last
<1>3. DC!Usable(safe)' = DC!Usable(safe)
  BY DEF DC!Usable, DC!Valid, DC!Included, DC!Head1, DC!BatchAt, DC!NextTime, DC!Origin, DC!Last
<1>4. (DC!Expired(safe)' <=> DC!Expired(safe)) /\ DC!NextBlock(safe)' = DC!NextBlock(safe)
  BY DEF DC!Expired, DC!ForcedEpoch, DC!NextBlock, DC!Usable, DC!Valid, DC!Included, DC!Head1,
         DC!BatchAt, DC!NextTime, DC!Origin, DC!Last
<1>5. L1Good' <=> L1Good
  BY DEF L1Good, DC!Head1
<1>6. \A n, k : ReadTo(n, k)' = ReadTo(n, k)
  BY <1>1 DEF ReadTo
<1>7. \A c, R, N : Tracks(c, R, N)' <=> Tracks(c, R, N)
  BY <1>1 DEF Tracks, DC!Earlier
<1>8. \A q, R : Future(q, R)' <=> Future(q, R)
  <2>1. \A R, t : Later(R, t)' = Later(R, t)
    BY <1>1 DEF Later
  <2> QED
    BY <1>1, <1>7, <2>1 DEF Future
<1>9. \A q : Moved(q)' <=> Moved(q)
  BY <1>1 DEF Moved
<1>10. \A q, R : Now(q, R)' <=> Now(q, R)
  <2>1. \A p, m : Settled(p, m)' <=> Settled(p, m)
    BY <1>1 DEF Settled, DriftedOn
  <2>2. \A R, m : Open(R, m)' = Open(R, m)
    BY <1>2, <2>1 DEF Open
  <2>3. \A q : Candidates(q)' = Candidates(q)
    BY <1>1 DEF Candidates
  <2>4. \A q : Moved(q)' = Moved(q)
    BY <1>1 DEF Moved
  <2> QED
    BY <1>7, <2>2, <2>3, <2>4 DEF Now
<1>11. NoneLeft' <=> NoneLeft
  BY <1>1, <1>2, <1>3 DEF NoneLeft
<1>12. \A b, q : Right(b, q)' <=> Right(b, q)
  BY <1>3, <1>4 DEF Right
<1>13. \A b : Proper(b)' <=> Proper(b)
  BY DEF Proper, NoBatch
<1> QED
  BY <1>5, <1>6, <1>8, <1>9, <1>10, <1>11, <1>12, <1>13 DEF ViewOf

(***************************************************************************)
(* A step that leaves L1 and the safe chain alone shows the view that      *)
(* follows from the new queue and the new batches.                         *)
(***************************************************************************)
LEMMA NewView ==
  ASSUME UNCHANGED <<l1, safe>>, ViewOf(ReadTo(prevOrigin', prevRead'), bq', aqBatch', safeAttrs')
  PROVE  View'
  BY SameView DEF View

(***************************************************************************)
(* No batch makes no block.                                                *)
(***************************************************************************)
LEMMA NoBatchNotProper == ~Proper(NoBatch)
  BY DEF Proper

(***************************************************************************)
(* Taking over the origin of the stages before changes neither the buffer  *)
(* nor the first L1 block.                                                 *)
(***************************************************************************)
LEMMA TakeMoved ==
  ASSUME BQInv
  PROVE  Moved(TakeOrigin(bq)) = Moved(bq) /\ TakeOrigin(bq).batches = bq.batches
<1> DEFINE o == DC!Origin(safe)
           z == TakeOrigin(bq)
<1>1. /\ prevOrigin \in Nat /\ o \in Nat /\ bq.origin \in Nat
      /\ prevOrigin \in {bq.origin, bq.origin + 1}
  BY OriginIsEpoch, BlockRead DEF BQInv, ChainTypes, QueueTypes, Queue, RunKept
<1>2. /\ z.batches = bq.batches
      /\ z.l1Blocks = IF bq.origin = prevOrigin THEN bq.l1Blocks
                      ELSE IF originBehind THEN << >> ELSE Append(bq.l1Blocks, prevOrigin)
  BY TakeTypes DEF BQInv
<1> HIDE DEF z
<1>3. CASE bq.origin = prevOrigin
  BY <1>2, <1>3 DEF Moved, z
<1>4. CASE bq.origin # prevOrigin /\ originBehind
  <2>1. prevOrigin < o /\ prevOrigin = bq.origin + 1 /\ z.l1Blocks = << >>
    BY <1>1, <1>2, <1>4 DEF originBehind
  <2>2. ASSUME bq.l1Blocks # << >> PROVE Head(bq.l1Blocks) # o + 1
    <3>1. IsRun(bq.l1Blocks, bq.origin)
      BY <2>2 DEF BQInv, RunKept
    <3>2. Head(bq.l1Blocks) \in 0 .. bq.origin
      BY <1>1, <3>1, RunHead
    <3> QED
      BY <1>1, <2>1, <3>2
  <2> QED
    BY <1>2, <2>1, <2>2 DEF Moved, z
<1>5. CASE bq.origin # prevOrigin /\ ~originBehind
  <2>1. /\ ~(prevOrigin < o) /\ prevOrigin = bq.origin + 1
        /\ z.l1Blocks = Append(bq.l1Blocks, bq.origin + 1)
    BY <1>1, <1>2, <1>5 DEF originBehind
  <2>2. CASE bq.l1Blocks = << >> /\ bq.origin < o
    <3>1. z.l1Blocks = <<o>>
      BY <1>1, <2>1, <2>2
    <3>2. Head(z.l1Blocks) = o /\ o # o + 1
      BY <1>1, <3>1
    <3> QED
      BY <1>2, <2>2, <3>2 DEF Moved, z
  <2>3. CASE IsRun(bq.l1Blocks, bq.origin)
    <3>1. /\ IsRun(Append(bq.l1Blocks, bq.origin + 1), bq.origin + 1)
          /\ Head(Append(bq.l1Blocks, bq.origin + 1)) = Head(bq.l1Blocks)
      BY <1>1, <2>3, RunAppend
    <3>2. z.l1Blocks # << >> /\ bq.l1Blocks # << >>
      BY <2>1, <2>3, <3>1 DEF IsRun
    <3> QED
      BY <1>2, <2>1, <3>1, <3>2 DEF Moved, z
  <2> QED
    BY <2>2, <2>3 DEF BQInv, RunKept
<1> QED
  BY <1>3, <1>4, <1>5

(***************************************************************************)
(* So the new queue tracks what the old one did.                           *)
(***************************************************************************)
LEMMA TakeView ==
  ASSUME BQInv, NEW R
  PROVE  /\ Future(TakeOrigin(bq), R) <=> Future(bq, R)
         /\ Now(TakeOrigin(bq), R) <=> Now(bq, R)
         /\ Moved(TakeOrigin(bq)) <=> Moved(bq)
<1>1. Moved(TakeOrigin(bq)) = Moved(bq) /\ TakeOrigin(bq).batches = bq.batches
  BY TakeMoved
<1>2. /\ Candidates(TakeOrigin(bq)) = Candidates(bq)
      /\ Future(TakeOrigin(bq), R) <=> Future(bq, R)
  BY <1>1, SameBatches
<1> QED
  BY <1>1, <1>2 DEF Now

-----------------------------------------------------------------------------
(***************************************************************************)
(* What a call of deriveNextBatch leaves is the view of the next state.    *)
(***************************************************************************)
LEMMA DeriveView ==
  ASSUME BQInv, L1Good, CanPull, aqBatch = NoBatch, UNCHANGED <<l1, safe>>,
         NEW q, NEW R, NEW outOfData \in BOOLEAN,
         QueueGood(q, prevOrigin), Head(q.l1Blocks) <= DC!Origin(safe) + 1,
         DC!Origin(safe) \in {Head(q.l1Blocks), Head(q.l1Blocks) - 1} => Ready(q, R, outOfData),
         AfterDerive(deriveNextBatch(q, outOfData), outOfData),
         R = ReadTo(prevOrigin', prevRead'), ~needReset'
  PROVE  View'
<1> DEFINE r == deriveNextBatch(q, outOfData)
<1>1. /\ ChainTypes /\ safe \in Seq(Block) /\ prevOrigin \in DC!L1Numbers
      /\ safeAttrs = NoBatch /\ needReset = FALSE
  BY BlockRead DEF BQInv, ChainTypes, CanPull
<1>2. DerivedGood(r, prevOrigin)
  BY <1>1, DeriveGood
<1>3. r.err # "Reset"
  BY DEF AfterDerive
<1>4. DC!Origin(safe) \in {Head(q.l1Blocks), Head(q.l1Blocks) - 1}
  <2>1. Candidates(q) \in Seq(Buffered)
    BY CandidatesType
  <2>2. r # Failed(q, "Reset")
    BY <1>3 DEF Failed
  <2> QED
    BY <2>1, <2>2, DeriveCases
<1>5. Outcome(r, R)
  BY <1>1, <1>4, DeriveOutcome
<1>6. bq' = r.bq /\ r.err \in {"EOF", "none"}
  BY <1>2, <1>3 DEF AfterDerive, DerivedGood
<1>7. Future(bq', R)
  BY <1>3, <1>5, <1>6 DEF Outcome
<1>8. CASE r.err = "EOF"
  <2>1. aqBatch' = NoBatch /\ safeAttrs' = NoBatch
    BY <1>1, <1>8 DEF AfterDerive
  <2>2. Waiting(bq', R)
    BY <1>5, <1>6, <1>8 DEF Outcome
  <2>3. ViewOf(R, bq', aqBatch', safeAttrs')
    BY <1>7, <2>1, <2>2, NoBatchNotProper DEF ViewOf, Waiting
  <2> QED
    BY <2>3, NewView
<1>9. CASE r.err = "none"
  <2>1. createNextAttributes(r.batch)
    BY <1>9 DEF AfterDerive
  <2>2. /\ Consistent(r.batch)
        /\ \/ aqBatch' = r.batch /\ safeAttrs' = NoBatch
           \/ aqBatch' = NoBatch /\ safeAttrs' = r.batch
    BY <1>1, <2>1 DEF createNextAttributes
  <2>3. IF r.batch.content = "rejected" THEN Waiting(bq', R) ELSE Right(r.batch, bq')
    BY <1>5, <1>6, <1>9, <2>2 DEF Outcome
  <2>4. ViewOf(R, bq', aqBatch', safeAttrs')
    <3>1. Proper(r.batch) => Right(r.batch, bq')
      BY <2>3 DEF Proper
    <3>2. ~Proper(r.batch) => Waiting(bq', R)
      <4>1. r.batch # NoBatch
        BY <1>2, <1>9 DEF DerivedGood, NoBatch, DC!Batch
      <4> QED
        BY <2>3, <4>1 DEF Proper
    <3> HIDE DEF r
    <3> QED
      BY <1>7, <2>2, <3>1, <3>2, NoBatchNotProper DEF ViewOf, Waiting
  <2> QED
    BY <2>4, NewView
<1> QED
  BY <1>6, <1>8, <1>9

(***************************************************************************)
(* The pulls keep the view.                                                *)
(***************************************************************************)
LEMMA PullView ==
  ASSUME BQInv, RInv, Pull, ~needReset'
  PROVE  View'
<1> DEFINE R == ReadTo(prevOrigin, prevRead)
           z == TakeOrigin(bq)
           o == DC!Origin(safe)
<1>1. /\ CanPull /\ aqBatch = NoBatch /\ safeAttrs = NoBatch /\ needReset = FALSE
      /\ UNCHANGED <<l1, safe>> /\ ChainTypes /\ L1Good
  BY DEF Pull, PullBatch, PullNotEnoughData, PullEOF, CanPull, BQInv, ChainTypes, RInv
<1>2. Future(z, R) /\ Now(z, R) /\ (Moved(z) => NoneLeft)
  BY <1>1, TakeView, NoBatchNotProper DEF RInv, View, ViewOf
<1>3. ViewOf(R, z, NoBatch, NoBatch)
  BY <1>2, NoBatchNotProper DEF ViewOf
<1>4. /\ prevOrigin \in Nat /\ prevRead \in Nat /\ o \in Nat /\ prevOrigin \in DC!L1Numbers
      /\ prevOrigin \in L1Top
  BY <1>1, BlockRead, OriginIsEpoch DEF ChainTypes
<1>5. ASSUME prevOrigin' = prevOrigin + 1 /\ prevRead' = 0, prevRead = Len(l1[prevOrigin + 1])
      PROVE  ReadTo(prevOrigin', prevRead') = R
  BY <1>1, <1>5, ReadOn
<1>6. ASSUME ~originBehind
      PROVE  QueueGood(z, prevOrigin) /\ Head(z.l1Blocks) <= o + 1
  BY <1>1, <1>6, TakeGood DEF BQInv
<1>7. CASE PullNotEnoughData
  <2>1. bq' = z /\ UNCHANGED aqVars /\ UNCHANGED prevVars
    BY <1>7 DEF PullNotEnoughData
  <2>2. ViewOf(ReadTo(prevOrigin', prevRead'), bq', aqBatch', safeAttrs')
    BY <1>1, <1>3, <2>1 DEF aqVars, prevVars
  <2> QED
    BY <1>1, <2>2, NewView
<1>8. CASE PullEOF /\ originBehind
  <2>1. bq' = z /\ AdvanceL1Block /\ UNCHANGED <<aqBatch, safeAttrs>>
        /\ prevRead = Len(l1[prevOrigin + 1])
    BY <1>8 DEF PullEOF
  <2>2. ReadTo(prevOrigin', prevRead') = R
    BY <1>5, <2>1 DEF AdvanceL1Block, prevVars
  <2>3. ViewOf(ReadTo(prevOrigin', prevRead'), bq', aqBatch', safeAttrs')
    BY <1>1, <1>3, <2>1, <2>2
  <2> QED
    BY <1>1, <2>3, NewView
<1>9. CASE PullEOF /\ ~originBehind
  <2>1. AfterDerive(deriveNextBatch(z, TRUE), TRUE) /\ prevRead = Len(l1[prevOrigin + 1])
    BY <1>9 DEF PullEOF
  <2>2. R = ReadTo(prevOrigin', prevRead')
    BY <1>5, <2>1 DEF AfterDerive, AdvanceL1Block, prevVars
  <2>3. ReadOK(R, prevOrigin, TRUE)
    BY <1>1, <1>4, <2>1, ReadIsOK
  <2>4. ASSUME o \in {Head(z.l1Blocks), Head(z.l1Blocks) - 1} PROVE Ready(z, R, TRUE)
    BY <1>2, <1>6, <1>9, <2>3, <2>4 DEF Ready
  <2> HIDE DEF z, R
  <2> QED
    BY <1>1, <1>6, <1>9, <2>1, <2>2, <2>4, DeriveView
<1>10. CASE PullBatch
  <2> DEFINE p == <<prevOrigin, prevRead + 1>>
  <2>1. prevRead < Len(l1[prevOrigin + 1])
    BY <1>10 DEF PullBatch
  <2>2. /\ p \in DC!Included /\ p[1] = prevOrigin
        /\ Entry(p) = [batch |-> l1[prevOrigin + 1][prevRead + 1], included |-> prevOrigin]
        /\ ReadTo(prevOrigin, prevRead + 1) = R \cup {p}
        /\ \A r \in R : DC!Earlier(r, p)
    BY <1>1, <2>1, ReadNext
  <2>3. At(p) = l1[prevOrigin + 1][prevRead + 1]
    BY <2>2 DEF Entry
  <2> HIDE DEF p
  <2>4. CASE originBehind
    <3>1. /\ bq' = z /\ prevRead' = prevRead + 1 /\ UNCHANGED <<aqBatch, safeAttrs, prevOrigin>>
      BY <1>10, <2>4 DEF PullBatch
    <3>2. ReadTo(prevOrigin', prevRead') = R \cup {p}
      BY <2>2, <3>1
    <3>3. ~(p[1] >= o)
      BY <1>4, <2>2, <2>4 DEF originBehind
    <3>4. p \notin DC!Valid(safe)
      <4> SUFFICES ASSUME p \in DC!Valid(safe) PROVE FALSE
        OBVIOUS
      <4>1. At(p).epoch < p[1] /\ At(p).epoch \in {o, o + 1}
        BY <1>1, ValidLater
      <4> QED
        BY <1>4, <2>2, <3>3, <4>1
    <3>5. R \subseteq R \cup {p}
      OBVIOUS
    <3>6. Future(z, R \cup {p})
      <4> SUFFICES ASSUME NEW t \in Times, t > DC!NextTime(safe)
                   PROVE  Tracks(z.batches[t], R \cup {p}, Later(R \cup {p}, t))
        BY DEF Future
      <4>1. Later(R \cup {p}, t) \subseteq Later(R, t)
        BY <3>3 DEF Later
      <4>2. Tracks(z.batches[t], R, Later(R, t))
        BY <1>2 DEF Future
      <4> QED
        BY <3>5, <4>1, <4>2, TracksMore
    <3>7. Now(z, R \cup {p})
      <4>1. Open(R \cup {p}, Moved(z)) \subseteq Open(R, Moved(z))
        BY <3>4 DEF Open
      <4>2. Tracks(Candidates(z), R, Open(R, Moved(z)))
        BY <1>2 DEF Now
      <4>3. Tracks(Candidates(z), R \cup {p}, Open(R \cup {p}, Moved(z)))
        BY <3>5, <4>1, <4>2, TracksMore
      <4> QED
        BY <4>3 DEF Now
    <3>8. ViewOf(ReadTo(prevOrigin', prevRead'), bq', aqBatch', safeAttrs')
      BY <1>1, <1>2, <3>1, <3>2, <3>6, <3>7, NoBatchNotProper DEF ViewOf
    <3> QED
      BY <1>1, <3>8, NewView
  <2>5. CASE ~originBehind
    <3> DEFINE a == AddBatch(z, At(p))
    <3>1. AfterDerive(deriveNextBatch(a, FALSE), FALSE)
      BY <1>10, <2>3, <2>5 DEF PullBatch
    <3>2. prevOrigin' = prevOrigin /\ prevRead' = prevRead + 1
      BY <3>1 DEF AfterDerive
    <3>3. R \cup {p} = ReadTo(prevOrigin', prevRead')
      BY <2>2, <3>2
    <3>4. ReadOK(R \cup {p}, prevOrigin, FALSE)
      <4>1. prevRead + 1 \in Nat
        BY <1>4
      <4>2. ReadOK(ReadTo(prevOrigin, prevRead + 1), prevOrigin, FALSE)
        BY <1>1, <1>4, <4>1, ReadIsOK
      <4> QED
        BY <2>2, <4>2
    <3>5. At(p) \in BatchSet
      BY <1>1, <2>2, PlaceFacts
    <3>6. QueueGood(a, prevOrigin) /\ a.l1Blocks = z.l1Blocks
      BY <1>4, <1>6, <2>5, <3>5, AddGood
    <3>7. R \in SUBSET DC!Included
      BY DEF ReadTo
    <3>8. Moved(a) <=> Moved(z)
      BY <3>6 DEF Moved
    <3>9. ASSUME o \in {Head(a.l1Blocks), Head(a.l1Blocks) - 1}
          PROVE  Ready(a, R \cup {p}, FALSE)
      <4>1. o \in {Head(z.l1Blocks), Head(z.l1Blocks) - 1}
        BY <3>6, <3>9
      <4> HIDE DEF z, R
      <4>2. Future(a, R \cup {p}) /\ Now(a, R \cup {p})
        BY <1>1, <1>2, <1>6, <2>2, <2>5, <3>7, <4>1, AddTracks
      <4> HIDE DEF a
      <4> QED
        BY <1>2, <3>4, <3>6, <3>8, <3>9, <4>2 DEF Ready
    <3>10. Head(a.l1Blocks) <= o + 1
      BY <1>6, <2>5, <3>6
    <3> HIDE DEF a, R
    <3> QED
      BY <1>1, <3>1, <3>3, <3>6, <3>9, <3>10, DeriveView
  <2> QED
    BY <2>4, <2>5
<1> QED
  BY <1>7, <1>8, <1>9, <1>10 DEF Pull

(***************************************************************************)
(* Trying the attributes again moves a batch from the one place to the     *)
(* other.                                                                  *)
(***************************************************************************)
LEMMA RetryView ==
  ASSUME BQInv, RInv, RetryAttributes, ~needReset'
  PROVE  View'
<1>1. /\ UNCHANGED <<l1, safe, bq>> /\ UNCHANGED prevVars /\ safeAttrs = NoBatch /\ ~needReset
  BY DEF RetryAttributes, CanPull
<1>2. \/ aqBatch' = aqBatch /\ safeAttrs' = NoBatch
      \/ aqBatch' = NoBatch /\ safeAttrs' = aqBatch
  BY <1>1 DEF RetryAttributes, createNextAttributes
<1>3. ViewOf(ReadTo(prevOrigin, prevRead), bq, aqBatch, NoBatch)
  BY <1>1 DEF RInv, View
<1>4. ViewOf(ReadTo(prevOrigin', prevRead'), bq', aqBatch', safeAttrs')
  BY <1>1, <1>2, <1>3, NoBatchNotProper DEF prevVars, ViewOf
<1> QED
  BY <1>1, <1>4, NewView

-----------------------------------------------------------------------------
(***************************************************************************)
(* L1 stays and the safe chain moves: the places and their batches stay,   *)
(* and what is valid on the new chain was included after its origin.       *)
(***************************************************************************)
LEMMA SafeMoves ==
  ASSUME ChainTypes, L1Good, l1' = l1
  PROVE  /\ L1Good'
         /\ \A n, k : ReadTo(n, k)' = ReadTo(n, k)
         /\ \A p : At(p)' = At(p)
         /\ \A c, R, N : Tracks(c, R, N)' <=> Tracks(c, R, N)
         /\ DC!Origin(safe)' = DC!Origin(safe') /\ DC!NextTime(safe)' = DC!NextTime(safe')
         /\ \A p \in DC!Valid(safe)' :
              /\ p \in DC!Included /\ At(p).epoch < p[1] /\ At(p).time = DC!NextTime(safe')
              /\ At(p).epoch \in {DC!Origin(safe'), DC!Origin(safe') + 1}
<1>1. /\ DC!Included' = DC!Included /\ \A p : At(p)' = At(p)
      /\ \A p : Entry(p)' = Entry(p)
  BY DEF DC!Included, DC!Head1, At, DC!BatchAt, Entry
<1>2. L1Good'
  BY DEF L1Good, DC!Head1
<1>3. \A n, k : ReadTo(n, k)' = ReadTo(n, k)
  BY <1>1 DEF ReadTo
<1>4. \A c, R, N : Tracks(c, R, N)' <=> Tracks(c, R, N)
  BY <1>1 DEF Tracks, DC!Earlier
<1>5. DC!Origin(safe)' = DC!Origin(safe') /\ DC!NextTime(safe)' = DC!NextTime(safe')
  BY DEF DC!Origin, DC!Last, DC!NextTime
<1>6. ASSUME NEW p \in DC!Valid(safe)'
      PROVE  /\ p \in DC!Included /\ At(p).epoch < p[1] /\ At(p).time = DC!NextTime(safe')
             /\ At(p).epoch \in {DC!Origin(safe'), DC!Origin(safe') + 1}
  <2>1. /\ p \in DC!Included /\ At(p)'.time = DC!NextTime(safe)' /\ At(p)'.canonical
        /\ At(p)'.epoch \in {DC!Origin(safe)', DC!Origin(safe)' + 1}
    BY <1>1, <1>6 DEF DC!Valid, At
  <2>2. /\ At(p).time = DC!NextTime(safe') /\ At(p).canonical
        /\ At(p).epoch \in {DC!Origin(safe'), DC!Origin(safe') + 1}
    BY <1>1, <1>5, <2>1
  <2>3. /\ p[1] \in 0 .. DC!Head1 /\ p[2] \in 1 .. Len(l1[p[1] + 1])
        /\ At(p) = l1[p[1] + 1][p[2]]
    BY <2>1, PlaceFacts
  <2>4. At(p).epoch < p[1]
    BY <2>2, <2>3 DEF L1Good
  <2> QED
    BY <2>1, <2>2, <2>4
<1> QED
  BY <1>1, <1>2, <1>3, <1>4, <1>5, <1>6

(***************************************************************************)
(* When the safe chain has grown by a block, the buffers for later blocks  *)
(* are those for the next block and for later ones.                        *)
(***************************************************************************)
LEMMA GrownTracks ==
  ASSUME ChainTypes, L1Good, l1' = l1, safe' \in Seq(Block),
         DC!NextTime(safe') > DC!NextTime(safe), DC!Origin(safe') >= DC!Origin(safe),
         NEW q, NEW S \in SUBSET DC!Included, Future(q, S)
  PROVE  Future(q, S)' /\ Now(q, S)'
<1> DEFINE o == DC!Origin(safe)
           T == DC!NextTime(safe)
           o2 == DC!Origin(safe')
           T2 == DC!NextTime(safe')
<1>1. /\ \A p : At(p)' = At(p)
      /\ \A c, R, N : Tracks(c, R, N)' <=> Tracks(c, R, N)
      /\ DC!Origin(safe)' = o2 /\ DC!NextTime(safe)' = T2
      /\ \A p \in DC!Valid(safe)' :
           /\ p \in DC!Included /\ At(p).epoch < p[1] /\ At(p).time = T2
           /\ At(p).epoch \in {o2, o2 + 1}
  BY SafeMoves
<1>2. o \in Nat /\ T \in Nat /\ o2 \in Nat /\ T2 \in Nat
  BY OriginIsEpoch DEF ChainTypes
<1> HIDE DEF o, T, o2, T2
<1>3. T2 > T /\ o2 >= o
  BY DEF o, T, o2, T2
<1>4. \A t \in Times : t \in Nat
  BY BatchSetIsBatch, BatchFields DEF Times
<1>5. \A p \in DC!Included : p[1] \in Nat /\ At(p).time \in Times
  BY PlaceFacts DEF Times
<1>6. ASSUME NEW t \in Times, t > T PROVE Tracks(q.batches[t], S, Later(S, t))
  BY <1>6 DEF Future, T
<1>7. Future(q, S)'
  <2> SUFFICES ASSUME NEW t \in Times, t > T2
               PROVE  Tracks(q.batches[t], S, Later(S, t))'
    BY <1>1 DEF Future, Times
  <2>1. t > T
    BY <1>2, <1>3, <1>4
  <2>2. PICK N : N = Later(S, t)'
    OBVIOUS
  <2>3. N \subseteq Later(S, t)
    BY <1>1, <1>2, <1>3, <1>5, <2>2 DEF Later, o
  <2>4. Tracks(q.batches[t], S, N)
    BY <1>6, <2>1, <2>3, TracksMore
  <2> QED
    BY <1>1, <2>2, <2>4
<1>8. Now(q, S)'
  <2>1. PICK N : N = Open(S, Moved(q))'
    OBVIOUS
  <2>2. ASSUME NEW p \in N
        PROVE  p \in S /\ p[1] >= o /\ At(p).time = T2 /\ T2 \in Times
    <3>1. p \in S /\ p \in DC!Valid(safe)'
      BY <2>1, <2>2 DEF Open
    <3>2. p \in DC!Included /\ At(p).epoch < p[1] /\ At(p).time = T2 /\ At(p).epoch \in {o2, o2 + 1}
      BY <1>1, <3>1
    <3> QED
      BY <1>2, <1>3, <1>5, <3>1, <3>2
  <2>3. CASE T2 \in Times
    <3>1. Candidates(q)' = q.batches[T2]
      BY <1>1, <2>3 DEF Candidates, Times
    <3>2. N \subseteq Later(S, T2)
      BY <2>2 DEF Later, o
    <3>3. Tracks(q.batches[T2], S, N)
      BY <1>3, <1>6, <2>3, <3>2, TracksMore
    <3> QED
      BY <1>1, <2>1, <3>1, <3>3 DEF Now
  <2>4. CASE T2 \notin Times
    <3>1. Candidates(q)' = << >> /\ N = {}
      BY <1>1, <2>2, <2>4 DEF Candidates, Times
    <3>2. Tracks(<< >>, S, N)
      BY <3>1, TracksNone
    <3> QED
      BY <1>1, <2>1, <3>1, <3>2 DEF Now
  <2> QED
    BY <2>3, <2>4
<1> QED
  BY <1>7, <1>8

(***************************************************************************)
(* Making a safe block of the attributes is the step of DerivedChain, and  *)
(* the buffer for the block after it tracks what was read for that.        *)
(***************************************************************************)
LEMMA ProcessView ==
  ASSUME BQInv, RInv, ProcessAttributes
  PROVE  View' /\ (DC!Extend \/ safe' = safe)
<1> DEFINE b == safeAttrs
           R == ReadTo(prevOrigin, prevRead)
           o == DC!Origin(safe)
           T == DC!NextTime(safe)
<1>1. /\ UNCHANGED <<l1, bq, aqBatch, prevOrigin, prevRead>> /\ safeAttrs' = NoBatch
      /\ b # NoBatch /\ ~needReset /\ aqBatch = NoBatch /\ b \in DC!Batch /\ Consistent(b)
      /\ ChainTypes /\ L1Good /\ View
  BY DEF ProcessAttributes, prevVars, BQInv, QueueTypes, AttributesFit, RInv
<1>2. ViewOf(R, bq, NoBatch, b)
  BY <1>1 DEF View
<1>3. CASE b.content = "rejected"
  <2>1. UNCHANGED <<l1, safe>>
    BY <1>1, <1>3 DEF ProcessAttributes
  <2>2. ~Proper(b)
    BY <1>3 DEF Proper
  <2>3. ViewOf(R, bq, NoBatch, NoBatch)
    BY <1>2, <2>2, NoBatchNotProper DEF ViewOf
  <2>4. ViewOf(ReadTo(prevOrigin', prevRead'), bq', aqBatch', safeAttrs')
    BY <1>1, <2>3
  <2> QED
    BY <2>1, <2>4, NewView
<1>4. CASE b.content # "rejected"
  <2> DEFINE e == [epoch |-> b.epoch, content |-> b.content]
  <2>1. Right(b, bq) /\ Future(bq, R)
    BY <1>1, <1>2, <1>4 DEF ViewOf, Proper
  <2>2. safe' = Append(safe, e)
    BY <1>4 DEF ProcessAttributes
  <2>3. DC!Extend
    BY <1>1, <2>1, <2>2 DEF DC!Extend, Right
  <2>4. e \in Block /\ e.epoch = b.epoch /\ safe \in Seq(Block)
    BY <1>1 DEF DC!Batch, Block, ChainTypes
  <2> HIDE DEF e
  <2>5. /\ DC!Origin(safe') = b.epoch /\ safe' \in Seq(Block)
        /\ DC!NextTime(safe') = T + BlockTime
    BY <2>2, <2>4, AppendOrigin
  <2>6. /\ o \in Nat /\ T \in Nat /\ BlockTime \in Nat /\ BlockTime > 0 /\ b.epoch \in {o, o + 1}
        /\ R \subseteq DC!Included
    BY <1>1, <2>4, OriginIsEpoch, BatchQueueAssumption DEF Consistent, ReadTo
  <2>7. \A n, k : ReadTo(n, k)' = ReadTo(n, k)
    BY <1>1, SafeMoves
  <2>8. DC!NextTime(safe') > T /\ DC!Origin(safe') >= o
    BY <2>5, <2>6
  <2>9. R \in SUBSET DC!Included
    BY <2>6
  <2> HIDE DEF R
  <2>10. \A q, S : q = bq /\ S = R => Future(q, S)' /\ Now(q, S)'
    BY <1>1, <2>1, <2>5, <2>8, <2>9, GrownTracks
  <2>11. ~Moved(bq)'
    <3>1. Head(bq.l1Blocks) = b.epoch /\ b.epoch # b.epoch + 1
      BY <2>1, <2>6 DEF Right
    <3>2. DC!Origin(safe)' = DC!Origin(safe')
      BY <1>1, SafeMoves
    <3> QED
      BY <1>1, <2>5, <3>1, <3>2 DEF Moved
  <2>12. ~Proper(aqBatch)' /\ ~Proper(safeAttrs)'
    BY <1>1 DEF Proper, NoBatch
  <2>13. ReadTo(prevOrigin, prevRead)' = R
    BY <1>1, <2>7 DEF R
  <2>14. Future(bq, ReadTo(prevOrigin, prevRead))' /\ Now(bq, ReadTo(prevOrigin, prevRead))'
    BY <1>1, <2>10, <2>13
  <2>15. View'
    BY <2>11, <2>12, <2>14 DEF View, ViewOf
  <2> QED
    BY <2>3, <2>15
<1> QED
  BY <1>3, <1>4

(***************************************************************************)
(* After a reset the buffers are empty, and what the stages count as read  *)
(* lies before the origin of the safe head.                                *)
(***************************************************************************)
LEMMA ResetView ==
  ASSUME BQInv, L1Good, ResetStages, safe' \in Seq(Block)
  PROVE  View'
<1> DEFINE o2 == DC!Origin(safe')
           T2 == DC!NextTime(safe')
<1>1. ChainTypes /\ l1' = l1 /\ L1Good
  BY DEF BQInv, ResetStages
<1>2. /\ \A n, k : ReadTo(n, k)' = ReadTo(n, k)
      /\ \A p : At(p)' = At(p)
      /\ \A c, R, N : Tracks(c, R, N)' <=> Tracks(c, R, N)
      /\ DC!Origin(safe)' = o2 /\ DC!NextTime(safe)' = T2
      /\ \A p \in DC!Valid(safe)' :
           /\ p \in DC!Included /\ At(p).epoch < p[1] /\ At(p).epoch \in {o2, o2 + 1}
  BY <1>1, SafeMoves
<1>3. o2 \in Nat /\ T2 \in Nat /\ ChannelTimeout \in Nat
  BY OriginIsEpoch, BatchQueueAssumption
<1>4. /\ prevOrigin' = (IF DC!Origin(safe)' > ChannelTimeout
                        THEN DC!Origin(safe)' - ChannelTimeout ELSE 0)
      /\ prevRead' = 0 /\ aqBatch' = NoBatch /\ safeAttrs' = NoBatch
      /\ bq' = [origin |-> prevOrigin', l1Blocks |-> <<prevOrigin'>>,
                batches |-> [t \in Times |-> << >>]]
  BY DEF ResetStages
<1> HIDE DEF o2, T2
<1>5. prevOrigin' \in Nat /\ prevOrigin' <= o2
  BY <1>2, <1>3, <1>4
<1>6. PICK S : S = ReadTo(prevOrigin', prevRead')
  OBVIOUS
<1>7. \A p \in S : p[1] \in Nat /\ p[1] < o2
  <2>1. \A p \in DC!Included : p[1] \in Nat /\ p[2] \in Nat /\ p[2] \in 1 .. Len(l1[p[1] + 1])
    BY <1>1, PlaceFacts
  <2>2. \A p \in DC!Included : ~(p[2] <= 0)
    BY <2>1
  <2> QED
    BY <1>3, <1>4, <1>5, <1>6, <2>1, <2>2 DEF ReadTo
<1>8. PICK q : q = bq'
  OBVIOUS
<1>9. /\ q.batches = [t \in Times |-> << >>] /\ q.l1Blocks = <<prevOrigin'>>
      /\ Head(q.l1Blocks) = prevOrigin' /\ Head(q.l1Blocks) # o2 + 1
  BY <1>3, <1>4, <1>5, <1>8
<1>10. Future(q, S)'
  <2> SUFFICES ASSUME NEW t \in Times PROVE Tracks(q.batches[t], S, Later(S, t))'
    BY DEF Future, Times
  <2>1. PICK N : N = Later(S, t)'
    OBVIOUS
  <2>2. N = {}
    BY <1>2, <1>3, <1>7, <2>1 DEF Later
  <2>3. Tracks(q.batches[t], S, N)
    BY <1>9, <2>2, TracksNone
  <2> QED
    BY <1>2, <2>1, <2>3
<1>11. Now(q, S)'
  <2>1. PICK N : N = Open(S, Moved(q))'
    OBVIOUS
  <2>2. ASSUME NEW p \in N PROVE FALSE
    <3>1. p \in S /\ p \in DC!Valid(safe)'
      BY <2>1, <2>2 DEF Open
    <3>2. At(p).epoch < p[1] /\ At(p).epoch \in {o2, o2 + 1}
      BY <1>2, <3>1
    <3> QED
      BY <1>3, <1>7, <3>1, <3>2
  <2>3. Candidates(q)' = << >>
    BY <1>9 DEF Candidates, Times
  <2>4. Tracks(<< >>, S, N)
    BY <2>2, TracksNone
  <2> QED
    BY <1>2, <2>1, <2>3, <2>4 DEF Now
<1>12. ~Moved(q)'
  BY <1>2, <1>9 DEF Moved
<1>13. ViewOf(S, q, NoBatch, NoBatch)'
  <2>1. ~Proper(NoBatch)'
    BY DEF Proper, NoBatch
  <2> QED
    BY <1>10, <1>11, <1>12, <2>1 DEF ViewOf
<1>14. ReadTo(prevOrigin, prevRead)' = S
  BY <1>2, <1>6
<1> QED
  BY <1>4, <1>8, <1>13, <1>14 DEF View, NoBatch

-----------------------------------------------------------------------------
(***************************************************************************)
(* A new L1 block: the places so far keep their batches, the new ones are  *)
(* later than all of them.                                                 *)
(***************************************************************************)
LEMMA MinePlaces ==
  ASSUME ChainTypes, L1Good, DC!Mine
  PROVE  /\ L1Good' /\ DC!Head1' = DC!Head1 + 1 /\ DC!Head1 \in Nat
         /\ DC!Included \subseteq DC!Included'
         /\ \A p \in DC!Included : At(p)' = At(p)
         /\ \A p \in DC!Included' : p = <<p[1], p[2]>> /\ p[1] \in Nat /\ p[2] \in Nat
         /\ \A p \in DC!Included' : p \in DC!Included \/ p[1] = DC!Head1 + 1
<1> DEFINE B == {b \in BatchSet : b.canonical => b.epoch < Len(l1)}
<1>1. PICK bs \in DC!SeqOf(B, MaxBatches) : l1' = Append(l1, bs)
  BY DEF DC!Mine
<1>2. PICK m \in 0 .. MaxBatches : bs \in [1 .. m -> B]
  BY DEF DC!SeqOf
<1>3. /\ MaxBatches \in Nat /\ m \in Nat /\ bs \in [1 .. m -> BatchSet]
      /\ \A i \in 1 .. m : bs[i].canonical => bs[i].epoch < Len(l1)
  BY <1>2, BatchQueueAssumption
<1>4. bs \in Seq(BatchSet) /\ Len(bs) = m
  BY <1>3
<1>5. /\ l1 \in Seq(Seq(BatchSet)) /\ Len(l1) \in Nat /\ Len(l1) >= 1 /\ DC!Head1 = Len(l1) - 1
  BY DEF ChainTypes, DC!Head1
<1>6. /\ Len(l1') = Len(l1) + 1 /\ l1'[Len(l1) + 1] = bs
      /\ \A i \in 1 .. Len(l1) : l1'[i] = l1[i]
  BY <1>1, <1>4, <1>5
<1>7. DC!Head1' = DC!Head1 + 1 /\ DC!Head1 \in Nat /\ DC!Head1 + 1 = Len(l1)
  BY <1>5, <1>6 DEF DC!Head1
<1>8. L1Good'
  <2> SUFFICES ASSUME NEW n \in 0 .. DC!Head1 + 1
               PROVE  /\ Len(l1'[n + 1]) <= MaxBatches
                      /\ \A i \in 1 .. Len(l1'[n + 1]) :
                           l1'[n + 1][i].canonical => l1'[n + 1][i].epoch < n
    BY <1>7 DEF L1Good
  <2>1. CASE n = Len(l1)
    BY <1>2, <1>3, <1>4, <1>6, <2>1
  <2>2. CASE n # Len(l1)
    <3>1. n \in 0 .. DC!Head1 /\ n + 1 \in 1 .. Len(l1)
      BY <1>5, <1>7, <2>2
    <3> QED
      BY <1>6, <3>1 DEF L1Good
  <2> QED
    BY <2>1, <2>2
<1>9. \A p \in DC!Included : p[1] + 1 \in 1 .. Len(l1)
  BY <1>5, PlaceFacts
<1>10. \A p \in DC!Included : l1'[p[1] + 1] = l1[p[1] + 1] /\ p[1] <= DC!Head1
  BY <1>6, <1>9 DEF DC!Included
<1>11. \A p \in DC!Included : At(p)' = At(p)
  BY <1>10 DEF At, DC!BatchAt
<1>12. DC!L1Numbers \subseteq Nat
  BY BatchQueueAssumption DEF DC!L1Numbers
<1>13. ASSUME NEW p \in DC!Included PROVE p \in DC!Included'
  <2>1. p \in DC!L1Numbers \X (1 .. MaxBatches) /\ p[1] <= DC!Head1 /\ p[2] <= Len(l1[p[1] + 1])
    BY <1>13 DEF DC!Included
  <2>2. p[2] <= Len(l1'[p[1] + 1])
    BY <1>10, <2>1
  <2>3. p[1] <= DC!Head1'
    <3> DEFINE x == p[1]
               h == DC!Head1
    <3>1. x \in Nat /\ h \in Nat /\ x <= h
      BY <1>7, <1>12, <2>1
    <3> HIDE DEF x, h
    <3>2. x <= h + 1
      BY <3>1
    <3> QED
      BY <1>7, <3>2 DEF x, h
  <2> QED
    BY <2>1, <2>2, <2>3 DEF DC!Included, DC!L1Numbers
<1>14. ASSUME NEW p \in DC!Included'
       PROVE  /\ p = <<p[1], p[2]>> /\ p[1] \in Nat /\ p[2] \in Nat
              /\ p \in DC!Included \/ p[1] = DC!Head1 + 1
  <2>1. p \in DC!L1Numbers \X (1 .. MaxBatches) /\ p[1] <= DC!Head1' /\ p[2] <= Len(l1'[p[1] + 1])
    BY <1>14 DEF DC!Included, DC!L1Numbers
  <2>2. p = <<p[1], p[2]>> /\ p[1] \in DC!L1Numbers /\ p[2] \in 1 .. MaxBatches
    BY <2>1
  <2>3. p = <<p[1], p[2]>> /\ p[1] \in Nat /\ p[2] \in Nat /\ p[1] <= DC!Head1 + 1
    <3>1. p[1] \in Nat /\ p[1] <= DC!Head1 + 1
      BY <1>7, <1>12, <2>2, <2>1
    <3>2. p[2] \in Nat
      BY <1>3, <2>2
    <3> QED
      BY <2>2, <3>1, <3>2
  <2>4. ASSUME p[1] # DC!Head1 + 1 PROVE p \in DC!Included
    <3>1. p[1] <= DC!Head1 /\ p[1] + 1 \in 1 .. Len(l1)
      BY <1>5, <1>7, <2>3, <2>4
    <3>2. p[2] <= Len(l1[p[1] + 1])
      BY <1>6, <2>1, <3>1
    <3> QED
      BY <2>1, <3>1, <3>2 DEF DC!Included
  <2> QED
    BY <2>3, <2>4
<1> QED
  BY <1>7, <1>8, <1>11, <1>13, <1>14

(***************************************************************************)
(* What is valid and usable of the places so far stays so.                 *)
(***************************************************************************)
LEMMA MineUsable ==
  ASSUME ChainTypes, L1Good, DC!Mine
  PROVE  /\ DC!Origin(safe)' = DC!Origin(safe) /\ DC!NextTime(safe)' = DC!NextTime(safe)
         /\ \A p \in DC!Included : p \in DC!Valid(safe)' <=> p \in DC!Valid(safe)
         /\ \A p \in DC!Included : p \in DC!Usable(safe)' <=> p \in DC!Usable(safe)
         /\ \A p \in DC!Included, u \in DC!Included' : u \notin DC!Included => DC!Earlier(p, u)
         /\ \A p \in DC!Valid(safe)' :
              /\ p \in DC!Included'
              /\ At(p)'.epoch \in {DC!Origin(safe), DC!Origin(safe) + 1}
              /\ p[1] <= At(p)'.epoch + SeqWindowSize
              /\ DC!NextTime(safe) >= L1Time[At(p)'.epoch]
<1>1. /\ DC!Head1' = DC!Head1 + 1 /\ DC!Head1 \in Nat
      /\ DC!Included \subseteq DC!Included'
      /\ \A p \in DC!Included : At(p)' = At(p)
      /\ \A p \in DC!Included' : p = <<p[1], p[2]>> /\ p[1] \in Nat /\ p[2] \in Nat
      /\ \A p \in DC!Included' : p \in DC!Included \/ p[1] = DC!Head1 + 1
      /\ safe' = safe
  BY MinePlaces DEF DC!Mine
<1>2. DC!Origin(safe)' = DC!Origin(safe) /\ DC!NextTime(safe)' = DC!NextTime(safe)
  BY <1>1 DEF DC!Origin, DC!Last, DC!NextTime
<1>3. ASSUME NEW p \in DC!Included PROVE p \in DC!Valid(safe)' <=> p \in DC!Valid(safe)
  <2>1. p \in DC!Included' /\ DC!BatchAt(p)' = DC!BatchAt(p)
    BY <1>1, <1>3 DEF At
  <2> QED
    BY <1>1, <1>2, <2>1 DEF DC!Valid
<1>4. \A p \in DC!Included, u \in DC!Included' : u \notin DC!Included => DC!Earlier(p, u)
  <2>1. \A p \in DC!Included : p[1] \in Nat /\ p[1] <= DC!Head1
    BY <1>1 DEF DC!Included
  <2> QED
    BY <1>1, <2>1 DEF DC!Earlier
<1>5. ASSUME NEW p \in DC!Included, NEW v \in DC!Included', DC!Earlier(v, p)
      PROVE  v \in DC!Included
  <2>1. v \notin DC!Included => DC!Earlier(p, v)
    BY <1>4
  <2>2. p[1] \in Nat /\ p[2] \in Nat /\ v[1] \in Nat /\ v[2] \in Nat
    BY <1>1
  <2> QED
    BY <1>5, <2>1, <2>2 DEF DC!Earlier
<1>6. ASSUME NEW p \in DC!Included PROVE p \in DC!Usable(safe)' <=> p \in DC!Usable(safe)
  <2>1. /\ p \in DC!Valid(safe)' <=> p \in DC!Valid(safe)
        /\ DC!BatchAt(p)' = DC!BatchAt(p)
    BY <1>1, <1>3 DEF At
  <2>2. \A v \in DC!Included : /\ v \in DC!Valid(safe)' <=> v \in DC!Valid(safe)
                               /\ DC!BatchAt(v)' = DC!BatchAt(v)
    BY <1>1, <1>3 DEF At
  <2>3. DC!Valid(safe)' \subseteq DC!Included' /\ DC!Valid(safe) \subseteq DC!Included
    BY <1>1 DEF DC!Valid
  <2>4. (\E v \in DC!Valid(safe)' : /\ DC!Earlier(v, p)
                                    /\ DC!BatchAt(v)'.epoch = DC!Origin(safe) + 1
                                    /\ DC!BatchAt(v)'.content = "rejected")
        <=> (\E v \in DC!Valid(safe) : /\ DC!Earlier(v, p)
                                       /\ DC!BatchAt(v).epoch = DC!Origin(safe) + 1
                                       /\ DC!BatchAt(v).content = "rejected")
    BY <1>5, <2>2, <2>3
  <2> QED
    BY <1>1, <1>2, <2>1, <2>4 DEF DC!Usable, DC!Earlier
<1>7. ASSUME NEW p \in DC!Valid(safe)'
      PROVE  /\ p \in DC!Included'
             /\ At(p)'.epoch \in {DC!Origin(safe), DC!Origin(safe) + 1}
             /\ p[1] <= At(p)'.epoch + SeqWindowSize
             /\ DC!NextTime(safe) >= L1Time[At(p)'.epoch]
  BY <1>1, <1>2, <1>7 DEF DC!Valid, At
<1> QED
  BY <1>2, <1>3, <1>4, <1>6, <1>7

(***************************************************************************)
(* So what the buffers track of the places read stays what it is.          *)
(***************************************************************************)
LEMMA MineTracks ==
  ASSUME ChainTypes, L1Good, DC!Mine
  PROVE  /\ \A q : \A R \in SUBSET DC!Included : Future(q, R) => Future(q, R)'
         /\ \A q : \A R \in SUBSET DC!Included : Now(q, R) => Now(q, R)'
         /\ \A q : Moved(q)' <=> Moved(q)
<1>1. /\ DC!Origin(safe)' = DC!Origin(safe) /\ DC!NextTime(safe)' = DC!NextTime(safe)
      /\ \A p \in DC!Included : At(p)' = At(p) /\ Entry(p)' = Entry(p)
      /\ \A p \in DC!Included : p \in DC!Valid(safe)' <=> p \in DC!Valid(safe)
  BY MinePlaces, MineUsable DEF Entry
<1>2. ASSUME NEW c, NEW R \in SUBSET DC!Included, NEW N \in SUBSET R, Tracks(c, R, N)
      PROVE  Tracks(c, R, N)'
  <2>1. \A i \in 1 .. Len(c) : \E p \in R : c[i] = Entry(p)'
    BY <1>1, <1>2 DEF Tracks
  <2>2. ASSUME NEW n \in N
        PROVE  \E i \in 1 .. Len(c) :
                 /\ c[i] = Entry(n)'
                 /\ \A j \in 1 .. i - 1 : \E p \in R : c[j] = Entry(p)' /\ DC!Earlier(p, n)
    <3>1. PICK i \in 1 .. Len(c) :
            /\ c[i] = Entry(n)
            /\ \A j \in 1 .. i - 1 : \E p \in R : c[j] = Entry(p) /\ DC!Earlier(p, n)
      BY <1>2 DEF Tracks
    <3>2. \A j \in 1 .. i - 1 : \E p \in R : c[j] = Entry(p)' /\ DC!Earlier(p, n)
      BY <1>1, <3>1
    <3> QED
      BY <1>1, <3>1, <3>2
  <2> QED
    BY <2>1, <2>2 DEF Tracks, DC!Earlier
<1>3. ASSUME NEW R \in SUBSET DC!Included, NEW q, Future(q, R)
      PROVE  Future(q, R)'
  <2> SUFFICES ASSUME NEW t \in Times, t > DC!NextTime(safe)
               PROVE  Tracks(q.batches[t], R, Later(R, t))'
    BY <1>1 DEF Future, Times
  <2>1. PICK N : N = Later(R, t)
    OBVIOUS
  <2>2. Later(R, t)' = N /\ N \in SUBSET R
    BY <1>1, <2>1 DEF Later
  <2>3. PICK c : c = q.batches[t]
    OBVIOUS
  <2>4. Tracks(c, R, N)
    BY <1>3, <2>1, <2>3 DEF Future
  <2>5. Tracks(c, R, N)'
    BY <1>2, <2>2, <2>4
  <2> QED
    BY <2>2, <2>3, <2>5
<1>4. \A q : Moved(q)' <=> Moved(q)
  BY <1>1 DEF Moved
<1>5. ASSUME NEW R \in SUBSET DC!Included, NEW q, Now(q, R)
      PROVE  Now(q, R)'
  <2>1. PICK N : N = Open(R, Moved(q))
    OBVIOUS
  <2>2. PICK m : m = Moved(q)
    OBVIOUS
  <2>3. \A p \in R : Settled(p, m)' <=> Settled(p, m)
    BY <1>1 DEF Settled, DriftedOn
  <2>4. Moved(q)' = m
    BY <1>1, <2>2 DEF Moved
  <2>5. Open(R, m)' = Open(R, m) /\ Open(R, m) \in SUBSET R
    BY <1>1, <2>3 DEF Open
  <2>6. Open(R, Moved(q))' = N /\ N \in SUBSET R
    BY <2>1, <2>2, <2>4, <2>5
  <2>7. PICK c : c = Candidates(q)
    OBVIOUS
  <2>8. Candidates(q)' = c
    BY <1>1, <2>7 DEF Candidates, Times
  <2>9. Tracks(c, R, N)
    BY <1>5, <2>1, <2>7 DEF Now
  <2>10. Tracks(c, R, N)'
    BY <1>2, <2>6, <2>9
  <2> QED
    BY <2>6, <2>8, <2>10 DEF Now
<1> QED
  BY <1>3, <1>4, <1>5

(***************************************************************************)
(* A batch in a new L1 block comes too late for the old origin.            *)
(***************************************************************************)
LEMMA MineNoneLeft ==
  ASSUME ChainTypes, L1Good, DC!Mine, NoneLeft
  PROVE  NoneLeft'
<1> DEFINE o == DC!Origin(safe)
           h == DC!Head1
<1>1. /\ DC!Origin(safe)' = o /\ DC!NextTime(safe)' = DC!NextTime(safe)
      /\ DC!Head1' = h + 1 /\ h \in Nat /\ o \in Nat /\ SeqWindowSize \in Nat
      /\ \A p \in DC!Included : At(p)' = At(p)
      /\ \A p \in DC!Included : p \in DC!Valid(safe)' <=> p \in DC!Valid(safe)
      /\ \A p \in DC!Included : p \in DC!Usable(safe)' <=> p \in DC!Usable(safe)
      /\ \A p \in DC!Included' : p[1] \in Nat /\ (p \in DC!Included \/ p[1] = h + 1)
      /\ \A p \in DC!Included, u \in DC!Included' : u \notin DC!Included => DC!Earlier(p, u)
  BY MinePlaces, MineUsable, OriginIsEpoch, BatchQueueAssumption DEF ChainTypes
<1>2. ASSUME NEW u \in DC!Usable(safe)', At(u)'.epoch = o
      PROVE  FALSE
  <2>1. u \in DC!Valid(safe)' /\ u \in DC!Included' /\ u[1] <= o + SeqWindowSize
    <3>1. u \in DC!Valid(safe)'
      BY <1>2 DEF DC!Usable
    <3> QED
      BY <1>2, <3>1, MineUsable
  <2>2. u \notin DC!Included
    BY <1>1, <1>2 DEF NoneLeft
  <2>3. u[1] = h + 1
    BY <1>1, <2>1, <2>2
  <2>4. ~(h >= o + SeqWindowSize)
    <3> HIDE DEF o, h
    <3> QED
      BY <1>1, <2>1, <2>3
  <2>5. PICK p \in DC!Valid(safe) : At(p).content = "rejected" /\ At(p).epoch = o + 1
    BY <2>4 DEF NoneLeft
  <2>6. p \in DC!Included
    BY UsableIncluded
  <2>7. p \in DC!Valid(safe)' /\ At(p)' = At(p) /\ DC!Earlier(p, u)
    BY <1>1, <2>1, <2>2, <2>6
  <2> QED
    BY <1>1, <1>2, <2>5, <2>7 DEF DC!Usable, At, DC!Earlier
<1>3. DC!NextTime(safe)' >= L1Time[DC!Origin(safe)' + 1]
  BY <1>1 DEF NoneLeft
<1>4. \/ DC!Head1' >= DC!Origin(safe)' + SeqWindowSize
      \/ \E p \in DC!Valid(safe)' : /\ At(p)'.content = "rejected"
                                    /\ At(p)'.epoch = DC!Origin(safe)' + 1
  <2>1. CASE h >= o + SeqWindowSize
    <3> HIDE DEF o, h
    <3> QED
      BY <1>1, <2>1
  <2>2. CASE \E p \in DC!Valid(safe) : At(p).content = "rejected" /\ At(p).epoch = o + 1
    BY <1>1, <2>2, UsableIncluded
  <2> QED
    BY <2>1, <2>2 DEF NoneLeft
<1> QED
  BY <1>1, <1>2, <1>3, <1>4 DEF NoneLeft

(***************************************************************************)
(* Nor does a new L1 block change which block is next, once it is decided. *)
(***************************************************************************)
LEMMA MineRight ==
  ASSUME ChainTypes, L1Good, DC!Mine
  PROVE  \A b, q : Right(b, q) => Right(b, q)'
<1> DEFINE o == DC!Origin(safe)
           h == DC!Head1
           T == DC!NextTime(safe)
           f == DC!ForcedEpoch(safe)
<1> SUFFICES ASSUME DC!Usable(safe) # {} \/ DC!Expired(safe)
             PROVE  /\ (DC!Usable(safe) # {} \/ DC!Expired(safe))'
                    /\ DC!NextBlock(safe)' = DC!NextBlock(safe)
  BY DEF Right
<1>1. /\ DC!Origin(safe)' = o /\ DC!NextTime(safe)' = T
      /\ DC!Head1' = h + 1 /\ h \in Nat /\ o \in Nat /\ T \in Nat /\ SeqWindowSize \in Nat
      /\ \A p \in DC!Included : At(p)' = At(p)
      /\ \A p \in DC!Included : p \in DC!Usable(safe)' <=> p \in DC!Usable(safe)
      /\ \A p \in DC!Included' : p = <<p[1], p[2]>> /\ p[1] \in Nat /\ p[2] \in Nat
      /\ \A p \in DC!Included' : p \in DC!Included \/ p[1] = h + 1
      /\ \A p \in DC!Included, u \in DC!Included' : u \notin DC!Included => DC!Earlier(p, u)
      /\ DC!Included \subseteq DC!Included'
  BY MinePlaces, MineUsable, OriginIsEpoch, BatchQueueAssumption DEF ChainTypes
<1>2. DC!Usable(safe)' \subseteq DC!Valid(safe)' /\ DC!Valid(safe)' \subseteq DC!Included'
  BY DEF DC!Usable, DC!Valid
<1>3. CASE DC!Usable(safe) # {}
  <2>1. DC!Usable(safe) \in SUBSET DC!Included
    BY UsableIncluded
  <2>2. PICK u \in DC!Usable(safe) : \A r \in DC!Usable(safe) : r = u \/ DC!Earlier(u, r)
    BY <1>3, <2>1, EarliestPlace, Zenon
  <2>3. DC!NextBlock(safe) = [epoch |-> At(u).epoch, content |-> At(u).content]
    BY <2>2, EarliestIsNext
  <2>4. PICK V : V = DC!Usable(safe)'
    OBVIOUS
  <2>5. u \in V /\ V \subseteq DC!Included' /\ \A r \in V : r = u \/ DC!Earlier(u, r)
    <3>1. u \in V /\ V \subseteq DC!Included'
      BY <1>1, <1>2, <2>1, <2>4
    <3>2. ASSUME NEW r \in V PROVE r = u \/ DC!Earlier(u, r)
      BY <1>1, <2>1, <2>2, <2>4, <3>1, <3>2
    <3> QED
      BY <3>1, <3>2
  <2> DEFINE x == CHOOSE q \in V : \A r \in V : r = q \/ DC!Earlier(q, r)
  <2>6. x \in V /\ \A r \in V : r = x \/ DC!Earlier(x, r)
    BY <2>5
  <2>7. DC!NextBlock(safe)' = [epoch |-> At(x)'.epoch, content |-> At(x)'.content]
    BY <2>4, <2>5 DEF DC!NextBlock, At, DC!Earlier
  <2> HIDE DEF x
  <2>8. x = u
    <3>1. x[1] \in Nat /\ x[2] \in Nat /\ u[1] \in Nat /\ u[2] \in Nat
      BY <1>1, <2>5, <2>6
    <3>2. x = u \/ (DC!Earlier(x, u) /\ DC!Earlier(u, x))
      BY <2>5, <2>6
    <3> QED
      BY <3>1, <3>2 DEF DC!Earlier
  <2>9. At(u)' = At(u)
    BY <1>1, <2>1
  <2>10. DC!NextBlock(safe)' = DC!NextBlock(safe)
    BY <2>3, <2>7, <2>8, <2>9
  <2> QED
    BY <2>4, <2>5, <2>10
<1>4. CASE DC!Usable(safe) = {}
  <2>1. DC!Expired(safe) /\ o + 1 \in DC!L1Numbers /\ h >= f + SeqWindowSize
    BY <1>4 DEF DC!Expired
  <2>2. L1Time[o + 1] \in Nat /\ f = (IF T < L1Time[o + 1] THEN o ELSE o + 1)
    BY <2>1, BatchQueueAssumption DEF DC!L1Numbers, DC!ForcedEpoch
  <2>3. DC!ForcedEpoch(safe)' = f
    BY <1>1 DEF DC!ForcedEpoch
  <2> HIDE DEF o, h, T, f
  <2>4. ASSUME NEW p \in DC!Usable(safe)' PROVE FALSE
    <3>1. p \in DC!Valid(safe)' /\ p \notin DC!Included /\ p \in DC!Included'
      BY <1>1, <1>2, <1>4, <2>4
    <3>2. p[1] = h + 1
      BY <1>1, <3>1
    <3>3. PICK e : e = At(p)'.epoch
      OBVIOUS
    <3>4. e \in {o, o + 1} /\ p[1] <= e + SeqWindowSize /\ T >= L1Time[e]
      BY <3>1, <3>3, MineUsable DEF o, T
    <3>5. e = o + 1 => f = o + 1
      BY <1>1, <2>2, <3>4
    <3> QED
      BY <1>1, <2>1, <2>2, <3>2, <3>4, <3>5
  <2>5. DC!Expired(safe)'
    <3>1. h + 1 >= f + SeqWindowSize
      BY <1>1, <2>1, <2>2
    <3> QED
      BY <1>1, <2>1, <2>3, <3>1 DEF DC!Expired, DC!L1Numbers
  <2>6. DC!NextBlock(safe)' = [epoch |-> f, content |-> "empty"]
    BY <2>3, <2>4 DEF DC!NextBlock
  <2>7. DC!NextBlock(safe) = [epoch |-> f, content |-> "empty"]
    BY <1>4 DEF DC!NextBlock, f
  <2> QED
    BY <2>5, <2>6, <2>7
<1> QED
  BY <1>3, <1>4

(***************************************************************************)
(* A new L1 block keeps the view.                                          *)
(***************************************************************************)
LEMMA GrowView ==
  ASSUME BQInv, L1Good, View, L1Grows
  PROVE  L1Good' /\ View'
<1>1. /\ ChainTypes /\ DC!Mine
      /\ UNCHANGED <<bq, aqBatch, safeAttrs, prevOrigin, prevRead>>
  BY DEF BQInv, L1Grows
<1>2. /\ L1Good' /\ DC!Included \subseteq DC!Included' /\ DC!Head1 \in Nat
      /\ \A p \in DC!Included' : p[1] \in Nat /\ (p \in DC!Included \/ p[1] = DC!Head1 + 1)
  BY <1>1, MinePlaces
<1>3. prevOrigin \in Nat /\ prevOrigin <= DC!Head1
  BY <1>1, BlockRead DEF ChainTypes, L1Top
<1>4. PICK R : R = ReadTo(prevOrigin, prevRead)
  OBVIOUS
<1>5. R \in SUBSET DC!Included
  BY <1>4 DEF ReadTo
<1>6. ReadTo(prevOrigin, prevRead)' = R
  <2>1. ReadTo(prevOrigin, prevRead)' =
          {p \in DC!Included' : p[1] < prevOrigin \/ (p[1] = prevOrigin /\ p[2] <= prevRead)}
    BY <1>1 DEF ReadTo
  <2>2. ASSUME NEW p \in DC!Included', p[1] < prevOrigin \/ p[1] = prevOrigin
        PROVE  p \in DC!Included
    BY <1>2, <1>3, <2>2
  <2> QED
    BY <1>2, <1>4, <2>1, <2>2 DEF ReadTo
<1>7. PICK q : q = bq
  OBVIOUS
<1>8. PICK b : b = aqBatch
  OBVIOUS
<1>9. PICK a : a = safeAttrs
  OBVIOUS
<1>10. ViewOf(R, q, b, a)
  BY <1>4, <1>7, <1>8, <1>9 DEF View
<1>11. Future(q, R)'
  BY <1>1, <1>5, <1>10, MineTracks DEF ViewOf
<1>12. ~Proper(b)' /\ ~Proper(a)' => Now(q, R)' /\ (Moved(q)' => NoneLeft')
  <2>1. (Proper(b)' <=> Proper(b)) /\ (Proper(a)' <=> Proper(a))
    BY DEF Proper, NoBatch
  <2> QED
    BY <1>1, <1>5, <1>10, <2>1, MineTracks, MineNoneLeft DEF ViewOf
<1>13. (Proper(b)' => Right(b, q)') /\ (Proper(a)' => Right(a, q)')
  <2>1. (Proper(b)' <=> Proper(b)) /\ (Proper(a)' <=> Proper(a))
    BY DEF Proper, NoBatch
  <2> QED
    BY <1>1, <1>10, <2>1, MineRight DEF ViewOf
<1>14. ViewOf(R, q, b, a)'
  BY <1>11, <1>12, <1>13 DEF ViewOf
<1> QED
  BY <1>1, <1>2, <1>6, <1>7, <1>8, <1>9, <1>14 DEF View

(***************************************************************************)
(* At the start there is nothing to track.                                 *)
(***************************************************************************)
LEMMA InitView ==
  ASSUME BQInit
  PROVE  RInv
<1> DEFINE B == {b \in BatchSet : ~b.canonical}
<1>1. PICK bs \in DC!SeqOf(B, MaxBatches) : l1 = <<bs>>
  BY DEF BQInit, DC!Init
<1>2. PICK m \in 0 .. MaxBatches : bs \in [1 .. m -> B]
  BY DEF DC!SeqOf
<1>3. m \in Nat /\ MaxBatches \in Nat /\ m <= MaxBatches /\ \A i \in 1 .. m : ~bs[i].canonical
  BY <1>2, BatchQueueAssumption
<1>4. Len(bs) = m
  BY <1>2, <1>3
<1>5. Len(l1) = 1 /\ l1[1] = bs /\ DC!Head1 = 0
  BY <1>1 DEF DC!Head1
<1>6. L1Good
  BY <1>3, <1>4, <1>5 DEF L1Good
<1>7. ChainTypes
  BY BQInitInv DEF BQInv
<1>8. /\ safe = << >> /\ prevOrigin = 0 /\ prevRead = 0 /\ aqBatch = NoBatch /\ safeAttrs = NoBatch
      /\ bq.batches = [t \in Times |-> << >>] /\ bq.l1Blocks = <<0>>
      /\ DC!Origin(safe) = 0
  BY DEF BQInit, DC!Init, DC!Origin
<1>9. ReadTo(prevOrigin, prevRead) = {}
  <2>1. \A p \in DC!Included : p[1] \in Nat /\ p[2] \in Nat /\ p[2] \in 1 .. Len(l1[p[1] + 1])
    BY <1>7, PlaceFacts
  <2>2. \A p \in DC!Included : ~(p[2] <= 0) /\ ~(p[1] < 0)
    BY <2>1
  <2> QED
    BY <1>8, <2>2 DEF ReadTo
<1>10. Future(bq, {})
  BY <1>8, TracksNone DEF Future, Later
<1>11. Candidates(bq) = << >>
  BY <1>8 DEF Candidates
<1>12. Now(bq, {})
  BY <1>11, TracksNone DEF Now, Open
<1>13. ~Moved(bq)
  BY <1>8 DEF Moved
<1>14. View
  BY <1>8, <1>9, <1>10, <1>12, <1>13, NoBatchNotProper DEF View, ViewOf
<1> QED
  BY <1>6, <1>14 DEF RInv

-----------------------------------------------------------------------------
(***************************************************************************)
(* Every step keeps the invariant of the refinement and is a step of       *)
(* DerivedChain, or leaves L1 and the safe chain alone.                    *)
(***************************************************************************)
LEMMA RefinementStep ==
  ASSUME BQInv, BQInv', RInv, [BQNext]_bqVars
  PROVE  RInv' /\ [DC!Next]_<<l1, safe>>
<1>1. L1Good /\ (~needReset => View)
  BY DEF RInv
<1>2. ASSUME UNCHANGED <<l1, safe>>, ~needReset' => View'
      PROVE  RInv' /\ [DC!Next]_<<l1, safe>>
  BY <1>1, <1>2, SameView DEF RInv
<1>3. CASE Pull
  <2>1. UNCHANGED <<l1, safe>>
    BY <1>3 DEF Pull, PullBatch, PullNotEnoughData, PullEOF
  <2> QED
    BY <1>2, <1>3, <2>1, PullView
<1>4. CASE RetryAttributes
  <2>1. UNCHANGED <<l1, safe>>
    BY <1>4 DEF RetryAttributes
  <2> QED
    BY <1>2, <1>4, <2>1, RetryView
<1>5. CASE ProcessAttributes
  <2>1. View' /\ (DC!Extend \/ safe' = safe) /\ l1' = l1
    BY <1>5, ProcessView DEF ProcessAttributes
  <2>2. L1Good'
    BY <1>1, <2>1 DEF L1Good, DC!Head1
  <2> QED
    BY <2>1, <2>2 DEF RInv, DC!Next
<1>6. CASE Reset \/ ResetByOther
  <2>1. ResetStages
    BY <1>6 DEF Reset, ResetByOther
  <2>2. safe' \in Seq(Block) /\ l1' = l1
    BY <2>1 DEF BQInv, ChainTypes, ResetStages, Block, DC!Epochs, DC!L1Numbers, DC!Contents
  <2>3. View'
    BY <1>1, <2>1, <2>2, ResetView
  <2>4. L1Good'
    BY <1>1, <2>2 DEF L1Good, DC!Head1
  <2>5. DC!Rewind
    BY <2>1 DEF ResetStages, DC!Rewind
  <2> QED
    BY <2>3, <2>4, <2>5 DEF RInv, DC!Next
<1>7. CASE L1Grows
  <2>1. DC!Mine /\ needReset' = needReset
    BY <1>7 DEF L1Grows
  <2>2. L1Good'
    BY <1>1, <2>1, MinePlaces DEF BQInv
  <2>3. ~needReset' => View'
    BY <1>1, <1>7, <2>1, GrowView
  <2> QED
    BY <2>1, <2>2, <2>3 DEF RInv, DC!Next
<1>8. CASE UNCHANGED bqVars
  <2>1. UNCHANGED <<l1, safe, bq, aqBatch, safeAttrs, prevOrigin, prevRead, needReset>>
    BY <1>8 DEF bqVars
  <2>2. ~needReset' => View'
    BY <1>1, <2>1, NewView DEF View
  <2> QED
    BY <1>2, <2>1, <2>2
<1> QED
  BY <1>3, <1>4, <1>5, <1>6, <1>7, <1>8 DEF BQNext

(***************************************************************************)
(* The eager algorithm of the batch queue implements the non-eager one of  *)
(* DerivedChain: whatever NextBatch and CheckBatch buffer, drop, forget,   *)
(* force or read again after a reset, each block that the engine queue     *)
(* makes safe is the one that the batches on L1 determine.                 *)
(***************************************************************************)
THEOREM BQImplementsDerivedChain == BQSpec => ImplementsDerivedChain
<1>1. BQInit => DC!Init /\ BQInv /\ RInv
  BY BQInitInv, InitView DEF BQInit
<1>2. BQInv /\ RInv /\ [BQNext]_bqVars => BQInv' /\ RInv' /\ [DC!Next]_<<l1, safe>>
  BY BQStep, RefinementStep
<1> QED
  BY <1>1, <1>2, PTL DEF BQSpec, ImplementsDerivedChain, DC!Spec
=============================================================================
