---------------------------- MODULE DerivedChain ----------------------------
(***************************************************************************)
(* What batch derivation promises: the safe L2 chain is a function of the  *)
(* batches on L1.  The next block is the first usable batch in order of    *)
(* inclusion and, once no batch for its epoch can be in time any more, an  *)
(* empty block.  Nothing here knows of buffers, of the order in which a    *)
(* node reads its inputs or of what it knew when it read them: this is the *)
(* non-eager algorithm of which the comment in CheckBatch                  *)
(* (op-node/rollup/derive/batches.go) says that the eager one may not      *)
(* diverge.  BatchQueue implements this specification.                     *)
(*                                                                         *)
(* An L2 block is a pair of its epoch and its content; the chain is the    *)
(* sequence of the blocks after genesis, and stands for the hash of its    *)
(* last block too.  L1 block n is l1[n + 1], the sequence of the batches   *)
(* that can be read once the block is there.  Both chains are bounded by   *)
(* the L1 blocks that have a time.                                         *)
(***************************************************************************)
EXTENDS Naturals, Sequences, FiniteSets, SequencesExt

CONSTANTS BlockTime,           \* seconds between L2 blocks
          SeqWindowSize,       \* L1 blocks in which a batch must be included
          MaxSequencerDrift,   \* seconds L2 time may be ahead of its origin
          L1Time,              \* the times of the L1 blocks
          BatchSet,            \* the batches a batcher may submit
          MaxBatches           \* bound: batches on L1

L1Numbers == DOMAIN L1Time
Epochs == L1Numbers

(***************************************************************************)
(* The content of a batch: valid transactions, none, one that CheckBatch   *)
(* drops (a deposit or an empty one), or one that the engine rejects.      *)
(***************************************************************************)
Contents == {"txs", "empty", "deposit", "rejected"}

Batch == [time : Nat, epoch : Epochs, canonical : BOOLEAN, content : Contents,
          parent : Seq([epoch : Epochs, content : Contents])]

VARIABLES l1,     \* the L1 chain
          chain   \* the safe L2 chain

Head1 == Len(l1) - 1    \* the number of the L1 head

Origin(c) == IF c = <<>> THEN 0 ELSE Last(c).epoch

NextTime(c) == (Len(c) + 1) * BlockTime

(***************************************************************************)
(* A new L1 block with some batches.  A batch names its epoch by hash, so  *)
(* one for the canonical block is included in a later block.               *)
(***************************************************************************)
Included == {p \in L1Numbers \X (1 .. MaxBatches) :
               p[1] <= Head1 /\ p[2] <= Len(l1[p[1] + 1])}

BatchAt(p) == l1[p[1] + 1][p[2]]

Earlier(p, q) == p[1] < q[1] \/ (p[1] = q[1] /\ p[2] < q[2])

Mine ==
  /\ Len(l1) \in L1Numbers
  /\ \E bs \in SeqOf({b \in BatchSet : b.canonical => b.epoch < Len(l1)},
                     MaxBatches) :
       /\ Cardinality(Included) + Len(bs) <= MaxBatches
       /\ l1' = Append(l1, bs)
  /\ UNCHANGED chain

(***************************************************************************)
(* The batches that may be the next block on c: the right time, parent and *)
(* origin, included in time, and within the drift that leaves L2 time at   *)
(* or after L1 time (an empty block may exceed it if the next origin is    *)
(* still too young, or if it moves to the next origin itself).             *)
(***************************************************************************)
Valid(c) ==
  {p \in Included : LET b == BatchAt(p) IN
     /\ b.time = NextTime(c) /\ b.parent = c
     /\ b.canonical /\ b.epoch \in {Origin(c), Origin(c) + 1}
     /\ p[1] <= b.epoch + SeqWindowSize
     /\ b.time >= L1Time[b.epoch]
     /\ b.time > L1Time[b.epoch] + MaxSequencerDrift =>
          /\ b.content = "empty"
          /\ b.epoch = Origin(c) => b.time < L1Time[b.epoch + 1]
     /\ b.content # "deposit"}

(***************************************************************************)
(* A batch that the engine rejects is passed over, but if it moved to the  *)
(* next origin, no later batch can stay with the old one.                  *)
(***************************************************************************)
Usable(c) ==
  {p \in Valid(c) :
     /\ BatchAt(p).content # "rejected"
     /\ BatchAt(p).epoch = Origin(c) =>
          ~ \E q \in Valid(c) : /\ Earlier(q, p)
                                /\ BatchAt(q).epoch = Origin(c) + 1
                                /\ BatchAt(q).content = "rejected"}

(***************************************************************************)
(* Without a usable batch the block is empty.  It stays with the origin if *)
(* the next one is too young, and moves to it otherwise.  It is decided    *)
(* when the window of its epoch has passed.                                *)
(***************************************************************************)
ForcedEpoch(c) == IF NextTime(c) < L1Time[Origin(c) + 1] THEN Origin(c)
                                                         ELSE Origin(c) + 1

Expired(c) == /\ Origin(c) + 1 \in L1Numbers
              /\ Head1 >= ForcedEpoch(c) + SeqWindowSize

NextBlock(c) ==
  IF Usable(c) # {}
  THEN LET p == CHOOSE q \in Usable(c) :
                  \A r \in Usable(c) : r = q \/ Earlier(q, r)
       IN  [epoch |-> BatchAt(p).epoch, content |-> BatchAt(p).content]
  ELSE [epoch |-> ForcedEpoch(c), content |-> "empty"]

Extend ==
  /\ Usable(chain) # {} \/ Expired(chain)
  /\ chain' = Append(chain, NextBlock(chain))
  /\ UNCHANGED l1

(***************************************************************************)
(* A reset takes the safe head back to an earlier block.                   *)
(***************************************************************************)
Rewind ==
  /\ \E n \in 0 .. Len(chain) : chain' = SubSeq(chain, 1, n)
  /\ UNCHANGED l1

(***************************************************************************)
(* The L1 block of genesis may hold batches too, of another fork only.     *)
(***************************************************************************)
Init ==
  /\ l1 \in {<<bs>> : bs \in SeqOf({b \in BatchSet : ~b.canonical}, MaxBatches)}
  /\ chain = <<>>

Next == Mine \/ Extend \/ Rewind

Spec == Init /\ [][Next]_<<l1, chain>>

(***************************************************************************)
(* Nothing obliges L1 to grow, but what L1 decides is derived.             *)
(***************************************************************************)
Fairness == WF_<<l1, chain>>(Extend)
=============================================================================
