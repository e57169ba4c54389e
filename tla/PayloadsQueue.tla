--------------------------- MODULE PayloadsQueue ---------------------------
(***************************************************************************)
(* The buffer of unsafe payloads of a rollup node                          *)
(* (op-node/rollup/derive/payloads_queue.go).                              *)
(*                                                                         *)
(* A payload stands for its block hash: two payloads with one hash are one *)
(* payload.  The heap is the set pq of buffered payloads; the order in     *)
(* which payloads with one block number leave the heap is left open, as    *)
(* container/heap does not document it.  blockHashes is the map that the   *)
(* code keeps beside the heap, and currentSize the counter it maintains    *)
(* step by step.                                                           *)
(***************************************************************************)
EXTENDS Integers

CONSTANTS Payloads,     \* the payloads that peers and the sequencer produce
          Number,       \* Number[p]: the block number of payload p
          MaxSize,      \* the memory allowance given to NewPayloadsQueue
          Mem           \* Mem[S]: the memory that SizeFn counts for the set S

(***************************************************************************)
(* SizeFn adds up over payloads: Mem is a finitely additive measure.       *)
(***************************************************************************)
ASSUME PayloadsQueueAssumption ==
  /\ Number \in [Payloads -> Nat]
  /\ MaxSize \in Nat
  /\ Mem \in [SUBSET Payloads -> Nat]
  /\ \A S, T \in SUBSET Payloads :
        S \cap T = {} => Mem[S \cup T] = Mem[S] + Mem[T]

VARIABLES pq, currentSize, blockHashes

pqVars == <<pq, currentSize, blockHashes>>

(***************************************************************************)
(* NewPayloadsQueue                                                        *)
(***************************************************************************)
PQInit ==
  /\ pq = {}
  /\ currentSize = 0
  /\ blockHashes = {}

(***************************************************************************)
(* What Peek may return, and heap.Pop remove: a payload with the lowest    *)
(* block number (Less).                                                    *)
(***************************************************************************)
Lowest(q) == {p \in q : \A r \in q : Number[p] <= Number[r]}

(***************************************************************************)
(* The sets that "for currentSize > MaxSize { Pop() }" may remove from q:  *)
(* lowest numbers first, until the rest fits and not further, so that the  *)
(* last one removed was still needed.                                      *)
(***************************************************************************)
MutEvictionsAnyOrder(q, size) ==    \* slip: the heap order is not kept
  {E \in SUBSET q :
     /\ size - Mem[E] <= MaxSize
     /\ E # {} => \E last \in E : size - Mem[E \ {last}] > MaxSize}

Evictions(q, size) ==
  {E \in SUBSET q :
     /\ \A e \in E, r \in q \ E : Number[e] <= Number[r]
     /\ size - Mem[E] <= MaxSize
     /\ E # {} => \E last \in E :
          /\ \A e \in E : Number[e] <= Number[last]
          /\ size - Mem[E \ {last}] > MaxSize}

(***************************************************************************)
(* Push: the two refusals, and the insertion with its evictions.  The hash *)
(* of p enters blockHashes after the evictions have removed theirs.        *)
(***************************************************************************)
MutPushRefused(p) == Mem[{p}] > MaxSize    \* slip: no duplicate check

PushRefused(p) == p \in blockHashes \/ Mem[{p}] > MaxSize

MutPushNoHash(p) ==    \* slip: the hash of p is not recorded
  /\ ~PushRefused(p)
  /\ \E E \in Evictions(pq \cup {p}, currentSize + Mem[{p}]) :
       /\ pq' = (pq \cup {p}) \ E
       /\ currentSize' = (currentSize + Mem[{p}]) - Mem[E]
       /\ blockHashes' = blockHashes \ E

Push(p) ==
  /\ ~PushRefused(p)
  /\ \E E \in Evictions(pq \cup {p}, currentSize + Mem[{p}]) :
       /\ pq' = (pq \cup {p}) \ E
       /\ currentSize' = (currentSize + Mem[{p}]) - Mem[E]
       /\ blockHashes' = (blockHashes \ E) \cup {p}

(***************************************************************************)
(* Pop, where p is the payload returned (Pop of an empty queue returns nil *)
(* and changes nothing).                                                   *)
(***************************************************************************)
MutPop(p) ==    \* slip: the payload is read but stays in the heap
  /\ p \in Lowest(pq)
  /\ UNCHANGED pq
  /\ currentSize' = currentSize - Mem[{p}]
  /\ blockHashes' = blockHashes \ {p}

Pop(p) ==
  /\ p \in Lowest(pq)
  /\ pq' = pq \ {p}
  /\ currentSize' = currentSize - Mem[{p}]
  /\ blockHashes' = blockHashes \ {p}

PQNext == \E p \in Payloads : Push(p) \/ Pop(p)

PQSpec == PQInit /\ [][PQNext]_pqVars

-----------------------------------------------------------------------------
(***************************************************************************)
(* The types of the queue's fields.                                        *)
(***************************************************************************)
PQTypeOK ==
  /\ pq \in SUBSET Payloads
  /\ currentSize \in Nat
  /\ blockHashes \in SUBSET Payloads

(***************************************************************************)
(* The counter that Push and Pop adjust is the memory of what is buffered, *)
(* and stays within the allowance, whatever the evictions.                 *)
(***************************************************************************)
MemoryAccounted == currentSize = Mem[pq] /\ currentSize <= MaxSize

(***************************************************************************)
(* A buffered payload is always found by the duplicate check of Push, so   *)
(* no payload can be buffered twice.                                       *)
(***************************************************************************)
QueuedIsKnown == pq \subseteq blockHashes

(***************************************************************************)
(* "We prefer higher block numbers over lower block numbers"               *)
(* (payloads_queue.go:109): making room for p costs no payload above p.    *)
(***************************************************************************)
EvictsOnlyLower ==
  [][\A p \in blockHashes' \ blockHashes, e \in pq \ pq' :
        Number[e] <= Number[p]]_pqVars
=============================================================================
