------------------------- MODULE EngineQueueProofs -------------------------
(***************************************************************************)
(* Proofs about PayloadsQueue and EngineQueue, for every L1 chain and      *)
(* reorg, every content, gossip and sequencer, every additive size measure *)
(* and every bound.                                                        *)
(*                                                                         *)
(* The first part is about the payload buffer alone. The second part is    *)
(* about what the operators of EngineQueue compute, for every chain:       *)
(* prefixes of chains, and the attributes and blocks that an L1 chain      *)
(* gives. A longer L1 chain gives the same blocks and possibly more. The   *)
(* induction over the length of a chain is the one of a set of numbers     *)
(* that holds 0 and is closed under the next number. The third part is     *)
(* about the steps.                                                        *)
(***************************************************************************)
EXTENDS EngineQueue, WellFoundedInduction, SequenceTheorems, TLAPS

(***************************************************************************)
(* The inductive invariant: the types, the accounting and the index.       *)
(***************************************************************************)
PQInv == PQTypeOK /\ MemoryAccounted /\ QueuedIsKnown

(***************************************************************************)
(* Mem of a part of a set: what is left after removing the part, and no    *)
(* part is larger than the whole.                                          *)
(***************************************************************************)
LEMMA MemOfPart ==
  ASSUME NEW S \in SUBSET Payloads, NEW T \in SUBSET S
  PROVE  /\ Mem[S \ T] \in Nat
         /\ Mem[T] \in Nat
         /\ Mem[S \ T] = Mem[S] - Mem[T]
         /\ Mem[T] <= Mem[S]
<1>1. /\ T \in SUBSET Payloads
      /\ S \ T \in SUBSET Payloads
      /\ (S \ T) \cap T = {}
      /\ (S \ T) \cup T = S
  OBVIOUS
<1>2. Mem[S] = Mem[S \ T] + Mem[T]
  BY <1>1, PayloadsQueueAssumption
<1>3. Mem[S] \in Nat /\ Mem[S \ T] \in Nat /\ Mem[T] \in Nat
  BY <1>1, PayloadsQueueAssumption
<1> QED
  BY <1>2, <1>3

(***************************************************************************)
(* An empty set occupies no memory.                                        *)
(***************************************************************************)
LEMMA MemOfEmpty == Mem[{}] = 0
<1> DEFINE m == Mem[{}]
<1>1. m = m + m
  <2>1. {} \cup {} = {} /\ {} \cap {} = {} /\ {} \in SUBSET Payloads
    OBVIOUS
  <2>2. Mem[{} \cup {}] = m + m
    BY <2>1, PayloadsQueueAssumption
  <2> QED
    BY <2>1, <2>2, Zenon
<1>2. m \in Nat
  BY PayloadsQueueAssumption
<1> HIDE DEF m
<1>3. m = 0
  BY <1>1, <1>2
<1> QED
  BY <1>3 DEF m

(***************************************************************************)
(* What the members of Evictions satisfy.                                  *)
(***************************************************************************)
LEMMA EvictionsFacts ==
  ASSUME NEW Q, NEW n, NEW E \in Evictions(Q, n)
  PROVE  /\ E \in SUBSET Q
         /\ \A e \in E, r \in Q \ E : Number[e] <= Number[r]
         /\ n - Mem[E] <= MaxSize
BY Zenon DEF Evictions

(***************************************************************************)
(* If anything is evicted, the last payload evicted was still needed.      *)
(***************************************************************************)
LEMMA EvictionsLast ==
  ASSUME NEW Q, NEW n, NEW E \in Evictions(Q, n), E # {}
  PROVE  \E last \in E : /\ \A x \in E : Number[x] <= Number[last]
                         /\ n - Mem[E \ {last}] > MaxSize
BY Zenon DEF Evictions

(***************************************************************************)
(* Push keeps the inductive invariant.                                     *)
(***************************************************************************)
LEMMA PushKeepsInv ==
  ASSUME PQInv, NEW p \in Payloads, Push(p)
  PROVE  PQInv'
<1> DEFINE q == pq \cup {p}
           size == currentSize + Mem[{p}]
<1>1. PICK E \in Evictions(q, size) :
        /\ pq' = q \ E
        /\ currentSize' = size - Mem[E]
        /\ blockHashes' = (blockHashes \ E) \cup {p}
  BY Zenon DEF Push
<1>2. /\ pq \in SUBSET Payloads /\ blockHashes \in SUBSET Payloads
      /\ q \in SUBSET Payloads /\ {p} \in SUBSET Payloads
      /\ pq \subseteq blockHashes /\ currentSize = Mem[pq]
      /\ p \notin blockHashes
  BY DEF PQInv, PQTypeOK, MemoryAccounted, QueuedIsKnown, Push, PushRefused
<1>3. Mem[q] = size
  <2>1. pq \cap {p} = {}
    BY <1>2
  <2> QED
    BY <1>2, <2>1, PayloadsQueueAssumption
<1>4. QueuedIsKnown' /\ pq' \in SUBSET Payloads /\ blockHashes' \in SUBSET Payloads
  BY <1>1, <1>2 DEF QueuedIsKnown
<1>5. MemoryAccounted' /\ currentSize' \in Nat
  <2> HIDE DEF q, size
  <2>1. E \in SUBSET q
    BY <1>1, EvictionsFacts, Zenon
  <2>2. size - Mem[E] <= MaxSize
    BY <1>1, EvictionsFacts, Zenon
  <2>3. Mem[q \ E] = Mem[q] - Mem[E] /\ Mem[q \ E] \in Nat
    BY <1>2, <2>1, MemOfPart
  <2>4. Mem[pq'] = Mem[q \ E]
    BY <1>1, Zenon
  <2> QED
    BY <1>1, <1>3, <2>2, <2>3, <2>4 DEF MemoryAccounted
<1> QED
  BY <1>4, <1>5 DEF PQInv, PQTypeOK

(***************************************************************************)
(* Pop keeps the inductive invariant.                                      *)
(***************************************************************************)
LEMMA PopKeepsInv ==
  ASSUME PQInv, NEW p \in Payloads, Pop(p)
  PROVE  PQInv'
<1>1. /\ pq \in SUBSET Payloads /\ blockHashes \in SUBSET Payloads
      /\ pq \subseteq blockHashes /\ currentSize = Mem[pq]
      /\ currentSize <= MaxSize /\ {p} \in SUBSET pq
  BY DEF PQInv, PQTypeOK, MemoryAccounted, QueuedIsKnown, Pop, Lowest
<1>2. /\ pq' = pq \ {p}
      /\ currentSize' = currentSize - Mem[{p}]
      /\ blockHashes' = blockHashes \ {p}
  BY DEF Pop
<1>3. /\ Mem[pq \ {p}] = Mem[pq] - Mem[{p}]
      /\ Mem[pq \ {p}] \in Nat /\ Mem[{p}] \in Nat
  BY <1>1, MemOfPart
<1>4. MemoryAccounted' /\ currentSize' \in Nat
  BY <1>1, <1>2, <1>3, PayloadsQueueAssumption DEF MemoryAccounted, PQInv, PQTypeOK
<1>5. QueuedIsKnown' /\ PQTypeOK'
  BY <1>1, <1>2, <1>4 DEF QueuedIsKnown, PQTypeOK
<1> QED
  BY <1>4, <1>5 DEF PQInv

(***************************************************************************)
(* The invariant is inductive.                                             *)
(***************************************************************************)
LEMMA PQInvInductive ==
  /\ PQInit => PQInv
  /\ PQInv /\ [PQNext]_pqVars => PQInv'
<1>1. PQInit => PQInv
  BY MemOfEmpty, PayloadsQueueAssumption
  DEF PQInit, PQInv, PQTypeOK, MemoryAccounted, QueuedIsKnown
<1>2. PQInv /\ [PQNext]_pqVars => PQInv'
  <2> SUFFICES ASSUME PQInv, [PQNext]_pqVars PROVE PQInv'
    OBVIOUS
  <2>1. CASE PQNext
    BY <2>1, PushKeepsInv, PopKeepsInv DEF PQNext
  <2>2. CASE UNCHANGED pqVars
    BY <2>2 DEF pqVars, PQInv, PQTypeOK, MemoryAccounted, QueuedIsKnown
  <2> QED
    BY <2>1, <2>2
<1> QED
  BY <1>1, <1>2

(***************************************************************************)
(* The fields of the queue keep their types: the unsigned size counter     *)
(* never wraps below zero.                                                 *)
(***************************************************************************)
THEOREM PQTypeCorrect == PQSpec => []PQTypeOK
<1>1. PQInv => PQTypeOK
  BY DEF PQInv
<1> QED
  BY PQInvInductive, <1>1, PTL DEF PQSpec

(***************************************************************************)
(* The size counter is exact and within the allowance.                     *)
(***************************************************************************)
THEOREM PQMemoryAccounted == PQSpec => []MemoryAccounted
<1>1. PQInv => MemoryAccounted
  BY DEF PQInv
<1> QED
  BY PQInvInductive, <1>1, PTL DEF PQSpec

(***************************************************************************)
(* Every buffered payload is known to the duplicate check.                 *)
(***************************************************************************)
THEOREM PQQueuedIsKnown == PQSpec => []QueuedIsKnown
<1>1. PQInv => QueuedIsKnown
  BY DEF PQInv
<1> QED
  BY PQInvInductive, <1>1, PTL DEF PQSpec

(***************************************************************************)
(* Push evicts no payload above the one it adds.  Were e above p evicted,  *)
(* p would be evicted before it; but without p everything fits.            *)
(***************************************************************************)
LEMMA PushEvictsOnlyLower ==
  ASSUME PQInv, NEW p \in Payloads, Push(p), NEW e \in pq \ pq'
  PROVE  Number[e] <= Number[p]
<1> DEFINE q == pq \cup {p}
           size == currentSize + Mem[{p}]
<1>1. PICK E \in Evictions(q, size) : pq' = q \ E
  BY DEF Push
<1>2. e \in E
  BY <1>1
<1>3. PICK last \in E :
        /\ \A x \in E : Number[x] <= Number[last]
        /\ size - Mem[E \ {last}] > MaxSize
  <2> HIDE DEF q, size
  <2>1. E # {}
    BY <1>2
  <2> QED
    BY <1>1, <2>1, EvictionsLast, Zenon
<1>4. /\ E \in SUBSET q
      /\ \A x \in E, r \in q \ E : Number[x] <= Number[r]
  <2> HIDE DEF q, size
  <2> QED
    BY <1>1, EvictionsFacts, Zenon
<1>5. pq \in SUBSET Payloads /\ currentSize \in Nat /\ currentSize <= MaxSize
  BY DEF PQInv, PQTypeOK, MemoryAccounted
<1>6. CASE p \notin E
  BY <1>2, <1>4, <1>6
<1>7. CASE p = last
  BY <1>2, <1>3, <1>7
<1>8. CASE p \in E /\ p # last
  <2>1. /\ E \ {last} \in SUBSET Payloads
        /\ {p} \in SUBSET (E \ {last})
    BY <1>4, <1>5, <1>8
  <2>2. /\ Mem[{p}] <= Mem[E \ {last}]
        /\ Mem[{p}] \in Nat /\ Mem[E \ {last}] \in Nat
    BY <2>1, MemOfPart, PayloadsQueueAssumption
  <2> QED
    BY <1>3, <1>5, <2>2, PayloadsQueueAssumption
<1> QED
  BY <1>6, <1>7, <1>8

(***************************************************************************)
(* Making room for a payload never costs a payload with a higher number.   *)
(***************************************************************************)
THEOREM PQEvictsOnlyLower == PQSpec => EvictsOnlyLower
<1> DEFINE A == \A p \in blockHashes' \ blockHashes, e \in pq \ pq' :
                   Number[e] <= Number[p]
<1>1. PQInv /\ [PQNext]_pqVars => [A]_pqVars
  <2> SUFFICES ASSUME PQInv, PQNext PROVE A
    OBVIOUS
  <2>1. ASSUME NEW p \in Payloads, Push(p) PROVE A
    <3>1. blockHashes' \ blockHashes \subseteq {p}
      BY <2>1 DEF Push
    <3>2. \A e \in pq \ pq' : Number[e] <= Number[p]
      BY <2>1, PushEvictsOnlyLower
    <3> QED
      BY <3>1, <3>2
  <2>2. ASSUME NEW p \in Payloads, Pop(p) PROVE A
    BY <2>2 DEF Pop
  <2> QED
    BY <2>1, <2>2 DEF PQNext
<1> QED
  BY PQInvInductive, <1>1, PTL DEF PQSpec, EvictsOnlyLower

-----------------------------------------------------------------------------
(***************************************************************************)
(* A set with 0 that has i + 1 with every i below n has n.                 *)
(***************************************************************************)
LEMMA Climb ==
  ASSUME NEW n \in Nat, NEW S, 0 \in S, \A i \in 0 .. n - 1 : i \in S => i + 1 \in S
  PROVE  \A i \in 0 .. n : i \in S
<1> DEFINE C == {i \in 0 .. n : i \notin S}
<1>1. SUFFICES ASSUME C # {} PROVE FALSE
  BY <1>1
<1>2. C \subseteq Nat
  OBVIOUS
<1>3. PICK m \in C : \A k \in C : ~(<<k, m>> \in OpToRel(<, Nat))
  <2> HIDE DEF C
  <2> QED
    BY <1>1, <1>2, NatLessThanWellFounded, WFMin
<1>4. \A k \in C : ~(k < m)
  BY <1>2, <1>3, Zenon DEF OpToRel
<1>5. m \in 0 .. n /\ m \notin S /\ m # 0
  OBVIOUS
<1>6. m - 1 \in 0 .. n - 1 /\ m - 1 \in 0 .. n /\ m - 1 < m /\ (m - 1) + 1 = m
  BY <1>5
<1>7. m - 1 \in S
  BY <1>4, <1>6
<1> QED
  BY <1>5, <1>6, <1>7

(***************************************************************************)
(* A prefix, element by element.                                           *)
(***************************************************************************)
LEMMA PrefixIs ==
  ASSUME NEW S, NEW s \in Seq(S), NEW t \in Seq(S)
  PROVE  IsPrefix(s, t) <=> Len(s) <= Len(t) /\ \A i \in 1 .. Len(s) : s[i] = t[i]
<1> SUFFICES ASSUME Len(s) <= Len(t)
             PROVE  SubSeq(s, 1, Len(s)) = SubSeq(t, 1, Len(s)) <=> \A i \in 1 .. Len(s) : s[i] = t[i]
  BY DEF IsPrefix
<1> DEFINE a == SubSeq(s, 1, Len(s))
           b == SubSeq(t, 1, Len(s))
<1>1. /\ a \in Seq(S) /\ Len(a) = Len(s) /\ \A i \in 1 .. Len(s) : a[i] = s[i]
      /\ b \in Seq(S) /\ Len(b) = Len(s) /\ \A i \in 1 .. Len(s) : b[i] = t[i]
      /\ Len(s) \in Nat
  OBVIOUS
<1> HIDE DEF a, b
<1>2. a = b <=> \A i \in 1 .. Len(s) : a[i] = b[i]
  BY <1>1, SeqEqual
<1>3. a = b <=> \A i \in 1 .. Len(s) : s[i] = t[i]
  BY <1>1, <1>2
<1> QED
  BY <1>3 DEF a, b

(***************************************************************************)
(* The first n elements of a chain.                                        *)
(***************************************************************************)
LEMMA UptoFacts ==
  ASSUME NEW S, NEW t \in Seq(S), NEW n \in 0 .. Len(t)
  PROVE  /\ Upto(t, n) \in Seq(S) /\ Len(Upto(t, n)) = n /\ IsPrefix(Upto(t, n), t)
         /\ \A i \in 1 .. n : Upto(t, n)[i] = t[i]
<1>1. /\ SubSeq(t, 1, n) \in Seq(S) /\ Len(SubSeq(t, 1, n)) = n /\ Len(t) \in Nat
      /\ \A i \in 1 .. n : SubSeq(t, 1, n)[i] = t[i]
  OBVIOUS
<1>2. \A s \in Seq(S) : Len(s) <= Len(t) /\ (\A i \in 1 .. Len(s) : s[i] = t[i]) => IsPrefix(s, t)
  BY PrefixIs
<1> DEFINE p == SubSeq(t, 1, n)
<1>3. IsPrefix(p, t)
  <2> HIDE DEF p
  <2>1. p \in Seq(S) /\ Len(p) = n /\ n <= Len(t) /\ \A i \in 1 .. n : p[i] = t[i]
    BY <1>1 DEF p
  <2> QED
    BY <1>2, <2>1
<1> QED
  BY <1>1, <1>3 DEF Upto

(***************************************************************************)
(* A prefix is the first part of the chain.                                *)
(***************************************************************************)
LEMMA PrefixIsUpto ==
  ASSUME NEW S, NEW s \in Seq(S), NEW t \in Seq(S), IsPrefix(s, t)
  PROVE  s = Upto(t, Len(s)) /\ Len(s) \in 0 .. Len(t)
<1>1. Len(s) \in 0 .. Len(t) /\ \A i \in 1 .. Len(s) : s[i] = t[i]
  BY PrefixIs
<1> QED
  BY <1>1, UptoFacts, SeqEqual

(***************************************************************************)
(* Prefixes of prefixes are prefixes.                                      *)
(***************************************************************************)
LEMMA PrefixTrans ==
  ASSUME NEW S, NEW s \in Seq(S), NEW t \in Seq(S), NEW u \in Seq(S), IsPrefix(s, t), IsPrefix(t, u)
  PROVE  IsPrefix(s, u)
<1>1. Len(s) \in Nat /\ Len(t) \in Nat /\ Len(u) \in Nat
  OBVIOUS
<1> QED
  BY <1>1, PrefixIs

(***************************************************************************)
(* Of two prefixes of a chain the shorter one is a prefix of the other.    *)
(***************************************************************************)
LEMMA PrefixesCompare ==
  ASSUME NEW S, NEW s \in Seq(S), NEW t \in Seq(S), NEW u \in Seq(S), IsPrefix(s, u), IsPrefix(t, u)
  PROVE  Len(s) <= Len(t) => IsPrefix(s, t)
<1>1. Len(s) \in Nat /\ Len(t) \in Nat /\ Len(u) \in Nat
  OBVIOUS
<1> QED
  BY <1>1, PrefixIs

(***************************************************************************)
(* A chain is a prefix of itself, and the empty one of every chain; a      *)
(* prefix that is not shorter is the chain.                                *)
(***************************************************************************)
LEMMA PrefixEnds ==
  ASSUME NEW S, NEW s \in Seq(S), NEW t \in Seq(S)
  PROVE  /\ IsPrefix(s, s) /\ IsPrefix(Genesis, s)
         /\ IsPrefix(s, t) /\ Len(t) <= Len(s) => s = t
<1>1. Len(s) \in Nat /\ Len(t) \in Nat /\ Genesis \in Seq(S) /\ Len(Genesis) = 0
  BY DEF Genesis
<1>2. IsPrefix(s, s)
  BY <1>1, PrefixIs
<1>4. IsPrefix(Genesis, s)
  <2>1. Len(Genesis) <= Len(s) /\ \A i \in 1 .. Len(Genesis) : Genesis[i] = s[i]
    BY <1>1
  <2> QED
    BY <1>1, <2>1, PrefixIs
<1>3. ASSUME IsPrefix(s, t), Len(t) <= Len(s) PROVE s = t
  BY <1>1, <1>3, PrefixIs, SeqEqual
<1> QED
  BY <1>2, <1>3, <1>4

(***************************************************************************)
(* A chain is a prefix of what extends it.                                 *)
(***************************************************************************)
LEMMA AppendPrefix ==
  ASSUME NEW S, NEW s \in Seq(S), NEW c \in S
  PROVE  /\ Append(s, c) \in Seq(S) /\ Len(Append(s, c)) = Len(s) + 1 /\ Len(s) \in Nat
         /\ IsPrefix(s, Append(s, c)) /\ Upto(Append(s, c), Len(s)) = s
<1>1. /\ Append(s, c) \in Seq(S) /\ Len(Append(s, c)) = Len(s) + 1 /\ Len(s) \in Nat
      /\ \A i \in 1 .. Len(s) : Append(s, c)[i] = s[i]
  OBVIOUS
<1>2. IsPrefix(s, Append(s, c))
  <2> DEFINE u == Append(s, c)
  <2>1. u \in Seq(S) /\ Len(s) <= Len(u) /\ \A i \in 1 .. Len(s) : s[i] = u[i]
    BY <1>1
  <2> HIDE DEF u
  <2>2. IsPrefix(s, u)
    BY <2>1, PrefixIs
  <2> QED
    BY <2>2 DEF u
<1> QED
  BY <1>1, <1>2, PrefixIsUpto

(***************************************************************************)
(* A concatenation starts with its first part.                             *)
(***************************************************************************)
LEMMA ConcatPrefix ==
  ASSUME NEW S, NEW s \in Seq(S), NEW t \in Seq(S)
  PROVE  s \o t \in Seq(S) /\ IsPrefix(s, s \o t)
<1>1. /\ s \o t \in Seq(S) /\ Len(s \o t) = Len(s) + Len(t) /\ Len(s) \in Nat /\ Len(t) \in Nat
      /\ \A i \in 1 .. Len(s) : (s \o t)[i] = s[i]
  BY ConcatProperties
<1> DEFINE u == s \o t
<1>2. u \in Seq(S) /\ Len(s) <= Len(u) /\ \A i \in 1 .. Len(s) : s[i] = u[i]
  BY <1>1
<1> HIDE DEF u
<1>3. IsPrefix(s, u)
  BY <1>2, PrefixIs
<1> QED
  BY <1>2, <1>3 DEF u

(***************************************************************************)
(* The accepted ones among the first i attributes, for i up to n.          *)
(***************************************************************************)
Keep(prev, c) == IF c \in Invalid THEN prev ELSE Append(prev, c)

KeptTo(k, s, n) ==
  /\ k \in [0 .. n -> Seq(Contents \ Invalid)] /\ k[0] = << >>
  /\ \A i \in 1 .. n : k[i] = Keep(k[i - 1], s[i])

(***************************************************************************)
(* They exist,                                                             *)
(***************************************************************************)
LEMMA KeptExists ==
  ASSUME NEW s \in Seq(Contents)
  PROVE  \E k : KeptTo(k, s, Len(s))
<1> DEFINE S == {n \in 0 .. Len(s) : \E k : KeptTo(k, s, n)}
<1>1. Len(s) \in Nat /\ \A i \in 1 .. Len(s) : s[i] \in Contents
  OBVIOUS
<1>2. 0 \in S
  <2>1. KeptTo([i \in 0 .. 0 |-> << >>], s, 0)
    BY DEF KeptTo
  <2> QED
    BY <1>1, <2>1
<1>3. ASSUME NEW n \in 0 .. Len(s) - 1, n \in S PROVE n + 1 \in S
  <2>1. PICK k : KeptTo(k, s, n)
    BY <1>3
  <2>2. n \in Nat /\ n + 1 \in 1 .. Len(s) /\ s[n + 1] \in Contents
    BY <1>1, <1>3
  <2> DEFINE next == Keep(k[n], s[n + 1])
             m == [i \in 0 .. n + 1 |-> IF i = n + 1 THEN next ELSE k[i]]
  <2>3. next \in Seq(Contents \ Invalid)
    <3>1. k[n] \in Seq(Contents \ Invalid)
      BY <2>1, <2>2 DEF KeptTo
    <3> QED
      BY <2>2, <3>1 DEF Keep
  <2> HIDE DEF next
  <2>4. m \in [0 .. n + 1 -> Seq(Contents \ Invalid)] /\ m[0] = << >>
    BY <2>1, <2>2, <2>3 DEF KeptTo
  <2>5. ASSUME NEW i \in 1 .. n + 1
        PROVE  m[i] = Keep(m[i - 1], s[i])
    <3>1. CASE i = n + 1
      <4>1. m[i] = next /\ m[i - 1] = k[n]
        BY <2>2, <3>1
      <4> QED
        BY <3>1, <4>1 DEF next
    <3>2. CASE i # n + 1
      <4>1. i \in 1 .. n /\ m[i] = k[i] /\ m[i - 1] = k[i - 1]
        BY <2>2, <3>2
      <4> QED
        BY <2>1, <4>1 DEF KeptTo
    <3> QED
      BY <3>1, <3>2
  <2> HIDE DEF m
  <2>6. KeptTo(m, s, n + 1)
    BY <2>4, <2>5 DEF KeptTo
  <2> QED
    BY <2>2, <2>6
<1> HIDE DEF S
<1>4. \A n \in 0 .. Len(s) : n \in S
  BY <1>1, <1>2, <1>3, Climb
<1> QED
  BY <1>1, <1>4 DEF S

(***************************************************************************)
(* are the same for two sequences that agree that far,                     *)
(***************************************************************************)
LEMMA KeptAgree ==
  ASSUME NEW s, NEW t, NEW n \in Nat, NEW k, NEW m, KeptTo(k, s, n), KeptTo(m, t, n),
         \A i \in 1 .. n : s[i] = t[i]
  PROVE  \A i \in 0 .. n : k[i] = m[i]
<1> DEFINE S == {i \in 0 .. n : k[i] = m[i]}
<1>1. 0 \in S
  BY DEF KeptTo
<1>2. ASSUME NEW i \in 0 .. n - 1, i \in S PROVE i + 1 \in S
  <2>1. i + 1 \in 1 .. n /\ (i + 1) - 1 = i /\ k[i] = m[i]
    BY <1>2
  <2>2. /\ k[i + 1] = Keep(k[i], s[i + 1])
        /\ m[i + 1] = Keep(m[i], t[i + 1])
    BY <2>1 DEF KeptTo
  <2>3. s[i + 1] = t[i + 1]
    BY <2>1
  <2> QED
    BY <2>1, <2>2, <2>3
<1> HIDE DEF S
<1>3. \A i \in 0 .. n : i \in S
  BY <1>1, <1>2, Climb
<1> QED
  BY <1>3 DEF S

(***************************************************************************)
(* and are what Accepted computes.                                         *)
(***************************************************************************)
LEMMA AcceptedIs ==
  ASSUME NEW s \in Seq(Contents), NEW k, KeptTo(k, s, Len(s))
  PROVE  Accepted(s) = k[Len(s)]
<1> DEFINE G(f) == [i \in 0 .. Len(s) |-> IF i = 0 THEN << >> ELSE Keep(f[i - 1], s[i])]
           c == CHOOSE f : f = G(f)
<1>1. Len(s) \in Nat
  OBVIOUS
<1>2. k = G(k)
  BY <1>1 DEF KeptTo
<1>3. c = G(c)
  <2> HIDE DEF G
  <2> QED
    BY <1>2
<1>4. Accepted(s) = c[Len(s)]
  BY DEF Accepted, Keep
<1> DEFINE S == {i \in 0 .. Len(s) : c[i] = k[i]}
<1> HIDE DEF c
<1>5. /\ c[0] = << >>
      /\ \A i \in 1 .. Len(s) : c[i] = Keep(c[i - 1], s[i])
  BY <1>1, <1>3
<1>6. 0 \in S
  BY <1>1, <1>5 DEF KeptTo
<1>7. ASSUME NEW i \in 0 .. Len(s) - 1, i \in S PROVE i + 1 \in S
  <2>1. i + 1 \in 1 .. Len(s) /\ (i + 1) - 1 = i /\ c[i] = k[i]
    BY <1>1, <1>7
  <2>2. /\ k[i + 1] = Keep(k[i], s[i + 1])
        /\ c[i + 1] = Keep(c[i], s[i + 1])
    BY <1>5, <2>1 DEF KeptTo
  <2> QED
    BY <2>1, <2>2
<1> HIDE DEF S
<1>8. \A n \in 0 .. Len(s) : n \in S
  BY <1>1, <1>6, <1>7, Climb
<1> QED
  BY <1>1, <1>4, <1>8 DEF S

(***************************************************************************)
(* The accepted ones among the first attributes: none among none, and one  *)
(* more with every one that is valid.                                      *)
(***************************************************************************)
LEMMA AcceptedSteps ==
  ASSUME NEW s \in Seq(Contents)
  PROVE  /\ Accepted(Upto(s, 0)) = << >> /\ Accepted(s) = Accepted(Upto(s, Len(s)))
         /\ \A n \in 0 .. Len(s) : Accepted(Upto(s, n)) \in Seq(Contents \ Invalid)
         /\ \A n \in 1 .. Len(s) :
              Accepted(Upto(s, n)) = Keep(Accepted(Upto(s, n - 1)), s[n])
<1>1. Len(s) \in Nat
  OBVIOUS
<1>2. PICK k : KeptTo(k, s, Len(s))
  BY KeptExists
<1>3. ASSUME NEW n \in 0 .. Len(s) PROVE Accepted(Upto(s, n)) = k[n]
  <2> DEFINE u == Upto(s, n)
  <2>1. u \in Seq(Contents) /\ Len(u) = n /\ n \in Nat /\ \A i \in 1 .. n : u[i] = s[i]
    BY <1>1, UptoFacts
  <2> HIDE DEF u
  <2>2. PICK m : KeptTo(m, u, n)
    BY <2>1, KeptExists
  <2>3. Accepted(u) = m[n]
    BY <2>1, <2>2, AcceptedIs
  <2> DEFINE p == [i \in 0 .. n |-> k[i]]
  <2>4. KeptTo(p, s, n)
    <3>1. \A i \in 0 .. n : i \in 0 .. Len(s) /\ p[i] = k[i]
      BY <1>1, <2>1
    <3>2. p \in [0 .. n -> Seq(Contents \ Invalid)]
      BY <1>2, <3>1 DEF KeptTo
    <3>3. p[0] = << >>
      BY <1>2, <2>1, <3>1 DEF KeptTo
    <3>4. ASSUME NEW i \in 1 .. n PROVE p[i] = Keep(p[i - 1], s[i])
      <4>1. i \in 1 .. Len(s) /\ i \in 0 .. n /\ i - 1 \in 0 .. n
        BY <1>1, <2>1
      <4> HIDE DEF p
      <4>2. p[i] = k[i] /\ p[i - 1] = k[i - 1]
        BY <3>1, <4>1
      <4>3. k[i] = Keep(k[i - 1], s[i])
        BY <1>2, <4>1 DEF KeptTo
      <4> QED
        BY <4>2, <4>3
    <3> HIDE DEF p
    <3> QED
      BY <3>2, <3>3, <3>4 DEF KeptTo
  <2>5. p[n] = k[n] /\ n \in 0 .. n
    BY <2>1
  <2> HIDE DEF p
  <2>6. m[n] = p[n]
    <3>1. \A i \in 0 .. n : m[i] = p[i]
      BY <2>1, <2>2, <2>4, KeptAgree
    <3> QED
      BY <2>5, <3>1
  <2> QED
    BY <2>3, <2>5, <2>6 DEF u
<1>4. Accepted(s) = k[Len(s)]
  BY <1>2, AcceptedIs
<1>5. /\ k[0] = << >> /\ \A n \in 0 .. Len(s) : k[n] \in Seq(Contents \ Invalid)
      /\ \A n \in 1 .. Len(s) :
           /\ n \in 0 .. Len(s) /\ n - 1 \in 0 .. Len(s)
           /\ k[n] = Keep(k[n - 1], s[n])
  <2>1. \A n \in 1 .. Len(s) : n \in 0 .. Len(s) /\ n - 1 \in 0 .. Len(s)
    BY <1>1
  <2>2. /\ k[0] = << >> /\ \A n \in 0 .. Len(s) : k[n] \in Seq(Contents \ Invalid)
        /\ \A n \in 1 .. Len(s) : k[n] = Keep(k[n - 1], s[n])
    BY <1>2 DEF KeptTo
  <2> QED
    BY <2>1, <2>2
<1>6. 0 \in 0 .. Len(s) /\ Len(s) \in 0 .. Len(s)
  BY <1>1
<1> QED
  BY <1>3, <1>4, <1>5, <1>6

(***************************************************************************)
(* A function on numbers whose values grow from one to the next grows.     *)
(***************************************************************************)
LEMMA Growing ==
  ASSUME NEW S, NEW n \in Nat, NEW f, \A i \in 0 .. n : f[i] \in Seq(S),
         \A i \in 1 .. n : IsPrefix(f[i - 1], f[i]),
         NEW m \in 0 .. n
  PROVE  \A i \in m .. n : IsPrefix(f[m], f[i])
<1> DEFINE T == {i \in 0 .. n : i >= m => IsPrefix(f[m], f[i])}
<1>1. IsPrefix(f[m], f[m])
  BY PrefixEnds
<1>2. 0 \in T
  <2>1. 0 >= m => m = 0
    OBVIOUS
  <2> QED
    BY <1>1, <2>1
<1>3. ASSUME NEW i \in 0 .. n - 1, i \in T PROVE i + 1 \in T
  <2>1. i + 1 \in 1 .. n /\ i + 1 \in 0 .. n /\ i \in 0 .. n /\ (i + 1) - 1 = i
    BY <1>3
  <2>2. IsPrefix(f[i], f[i + 1])
    BY <2>1
  <2>3. CASE i >= m
    <3>1. IsPrefix(f[m], f[i])
      BY <1>3, <2>3
    <3>2. IsPrefix(f[m], f[i + 1])
      BY <2>1, <2>2, <3>1, PrefixTrans
    <3> QED
      BY <2>1, <3>2
  <2>4. CASE ~(i >= m)
    <3>1. i + 1 >= m => i + 1 = m
      BY <2>1, <2>4
    <3> QED
      BY <1>1, <2>1, <3>1
  <2> QED
    BY <2>3, <2>4
<1> HIDE DEF T
<1>4. \A i \in 0 .. n : i \in T
  BY <1>2, <1>3, Climb
<1> QED
  BY <1>4 DEF T

(***************************************************************************)
(* More attributes give the same blocks and possibly more.                 *)
(***************************************************************************)
LEMMA AcceptedGrows ==
  ASSUME NEW s \in Seq(Contents), NEW t \in Seq(Contents), IsPrefix(s, t)
  PROVE  /\ Accepted(s) \in Seq(Contents \ Invalid) /\ Accepted(t) \in Seq(Contents \ Invalid)
         /\ IsPrefix(Accepted(s), Accepted(t))
<1> DEFINE V == Contents \ Invalid
           f == [i \in 0 .. Len(t) |-> Accepted(Upto(t, i))]
<1>1. Len(s) \in 0 .. Len(t) /\ s = Upto(t, Len(s)) /\ Len(t) \in Nat
  BY PrefixIsUpto
<1>2. /\ Accepted(t) = Accepted(Upto(t, Len(t)))
      /\ \A n \in 0 .. Len(t) : Accepted(Upto(t, n)) \in Seq(V)
      /\ \A n \in 1 .. Len(t) : Accepted(Upto(t, n)) = Keep(Accepted(Upto(t, n - 1)), t[n])
  BY AcceptedSteps
<1>3. /\ \A n \in 0 .. Len(t) : f[n] = Accepted(Upto(t, n)) /\ f[n] \in Seq(V)
      /\ \A n \in 1 .. Len(t) : n - 1 \in 0 .. Len(t) /\ n \in 0 .. Len(t)
  BY <1>1, <1>2
<1>4. f[Len(s)] = Accepted(s) /\ f[Len(t)] = Accepted(t)
  BY <1>1, <1>2, <1>3
<1>5. ASSUME NEW n \in 1 .. Len(t) PROVE IsPrefix(f[n - 1], f[n])
  <2>1. f[n - 1] \in Seq(V) /\ f[n] = Keep(f[n - 1], t[n]) /\ t[n] \in Contents
    BY <1>2, <1>3
  <2> HIDE DEF f, V
  <2>2. CASE t[n] \in Invalid
    <3>1. f[n] = f[n - 1]
      BY <2>1, <2>2 DEF Keep
    <3>2. IsPrefix(f[n - 1], f[n - 1])
      BY <2>1, PrefixEnds
    <3> QED
      BY <3>1, <3>2
  <2>3. CASE t[n] \notin Invalid
    <3>1. f[n] = Append(f[n - 1], t[n]) /\ t[n] \in V
      BY <2>1, <2>3 DEF Keep, V
    <3>2. IsPrefix(f[n - 1], Append(f[n - 1], t[n]))
      BY <2>1, <3>1, AppendPrefix
    <3> QED
      BY <3>1, <3>2
  <2> QED
    BY <2>2, <2>3
<1> HIDE DEF f, V
<1>6. \A i \in Len(s) .. Len(t) : IsPrefix(f[Len(s)], f[i])
  BY <1>1, <1>3, <1>5, Growing
<1>7. Len(t) \in Len(s) .. Len(t) /\ f[Len(s)] \in Seq(V) /\ f[Len(t)] \in Seq(V)
  BY <1>1, <1>3
<1> QED
  BY <1>4, <1>6, <1>7 DEF V

(***************************************************************************)
(* The attributes of the first i L1 blocks, for i up to n.                 *)
(***************************************************************************)
Join(a, b) == a \o b

FlatTo(f, blocks, n) ==
  /\ f \in [0 .. n -> Seq(Contents)] /\ f[0] = << >>
  /\ \A i \in 1 .. n : f[i] = Join(f[i - 1], Batches[blocks[i]])

(***************************************************************************)
(* They exist,                                                             *)
(***************************************************************************)
LEMMA FlatExists ==
  ASSUME NEW blocks \in Seq(L1Contents)
  PROVE  \E f : FlatTo(f, blocks, Len(blocks))
<1> DEFINE S == {n \in 0 .. Len(blocks) : \E f : FlatTo(f, blocks, n)}
<1>1. Len(blocks) \in Nat /\ \A i \in 1 .. Len(blocks) : Batches[blocks[i]] \in Seq(Contents)
  BY EngineQueueAssumption
<1>2. 0 \in S
  <2>1. FlatTo([i \in 0 .. 0 |-> << >>], blocks, 0)
    BY DEF FlatTo
  <2> QED
    BY <1>1, <2>1
<1>3. ASSUME NEW n \in 0 .. Len(blocks) - 1, n \in S PROVE n + 1 \in S
  <2>1. PICK f : FlatTo(f, blocks, n)
    BY <1>3
  <2>2. n \in Nat /\ n + 1 \in 1 .. Len(blocks) /\ Batches[blocks[n + 1]] \in Seq(Contents)
    BY <1>1, <1>3
  <2> DEFINE next == Join(f[n], Batches[blocks[n + 1]])
             m == [i \in 0 .. n + 1 |-> IF i = n + 1 THEN next ELSE f[i]]
  <2>3. next \in Seq(Contents)
    <3>1. f[n] \in Seq(Contents)
      BY <2>1, <2>2 DEF FlatTo
    <3> QED
      BY <2>2, <3>1, ConcatPrefix DEF Join
  <2> HIDE DEF next
  <2>4. m \in [0 .. n + 1 -> Seq(Contents)] /\ m[0] = << >>
    BY <2>1, <2>2, <2>3 DEF FlatTo
  <2>5. ASSUME NEW i \in 1 .. n + 1 PROVE m[i] = Join(m[i - 1], Batches[blocks[i]])
    <3>1. CASE i = n + 1
      <4>1. m[i] = next /\ m[i - 1] = f[n]
        BY <2>2, <3>1
      <4> QED
        BY <3>1, <4>1 DEF next
    <3>2. CASE i # n + 1
      <4>1. i \in 1 .. n /\ m[i] = f[i] /\ m[i - 1] = f[i - 1]
        BY <2>2, <3>2
      <4> QED
        BY <2>1, <4>1 DEF FlatTo
    <3> QED
      BY <3>1, <3>2
  <2> HIDE DEF m
  <2>6. FlatTo(m, blocks, n + 1)
    BY <2>4, <2>5 DEF FlatTo
  <2> QED
    BY <2>2, <2>6
<1> HIDE DEF S
<1>4. \A n \in 0 .. Len(blocks) : n \in S
  BY <1>1, <1>2, <1>3, Climb
<1> QED
  BY <1>1, <1>4 DEF S

(***************************************************************************)
(* and are what Attributes computes for the chain.                         *)
(***************************************************************************)
LEMMA AttributesIs ==
  ASSUME NEW blocks \in Seq(L1Contents), NEW f, FlatTo(f, blocks, Len(blocks))
  PROVE  Attributes(blocks) = f[Len(blocks)]
<1> DEFINE n == Len(blocks)
           seqs == [i \in DOMAIN blocks |-> Batches[blocks[i]]]
<1>1. /\ n \in Nat /\ seqs \in Seq(Seq(Contents)) /\ Len(seqs) = n
      /\ \A i \in 1 .. n : seqs[i] = Batches[blocks[i]] /\ seqs[i] \in Seq(Contents)
  <2>1. n \in Nat /\ DOMAIN blocks = 1 .. n
    OBVIOUS
  <2>2. \A i \in 1 .. n : Batches[blocks[i]] \in Seq(Contents)
    BY EngineQueueAssumption
  <2>3. DOMAIN seqs = 1 .. n /\ \A i \in 1 .. n : seqs[i] = Batches[blocks[i]]
    BY <2>1
  <2>4. seqs = [i \in 1 .. n |-> Batches[blocks[i]]]
    BY <2>1
  <2> HIDE DEF n
  <2>5. [i \in 1 .. n |-> Batches[blocks[i]]] \in Seq(Seq(Contents))
    BY <2>1, <2>2
  <2>6. Len(seqs) = n
    BY <2>1, <2>3, <2>4, <2>5
  <2> QED
    BY <2>1, <2>2, <2>3, <2>4, <2>5, <2>6
<1>2. Attributes(blocks) = FlattenSeq(seqs)
  BY DEF Attributes
<1> HIDE DEF seqs
<1>3. CASE n = 0
  <2>1. FlattenSeq(seqs) = seqs
    BY <1>1, <1>3 DEF FlattenSeq
  <2>2. seqs = << >>
    BY <1>1, <1>3
  <2> QED
    BY <1>2, <1>3, <2>1, <2>2 DEF FlatTo
<1>4. CASE n # 0
  <2> DEFINE G(h) == [i \in 1 .. n |-> IF i = 1 THEN seqs[i] ELSE Join(h[i - 1], seqs[i])]
             c == CHOOSE h : h = G(h)
             g == [i \in 1 .. n |-> f[i]]
  <2>1. FlattenSeq(seqs) = c[n]
    BY <1>1, <1>4 DEF FlattenSeq, Join
  <2>2. \A i \in 1 .. n : f[i] = Join(f[i - 1], seqs[i])
    BY <1>1 DEF FlatTo
  <2>3. f[1] = seqs[1]
    <3>1. 1 \in 1 .. n /\ seqs[1] \in Seq(Contents)
      BY <1>1, <1>4
    <3>2. f[1] = Join(f[1 - 1], seqs[1]) /\ 1 - 1 = 0 /\ f[0] = << >>
      BY <2>2, <3>1 DEF FlatTo
    <3> QED
      BY <3>1, <3>2, ConcatEmptySeq DEF Join
  <2>4. g = G(g)
    <3>1. ASSUME NEW i \in 1 .. n PROVE g[i] = G(g)[i]
      <4>1. CASE i = 1
        BY <2>3, <4>1
      <4>2. CASE i # 1
        <5>1. i - 1 \in 1 .. n /\ g[i - 1] = f[i - 1] /\ g[i] = f[i]
          BY <1>1, <4>2
        <5> QED
          BY <2>2, <4>2, <5>1
      <4> QED
        BY <4>1, <4>2
    <3> QED
      BY <3>1
  <2>5. c = G(c)
    <3> HIDE DEF G, g
    <3> QED
      BY <2>4
  <2> HIDE DEF c
  <2>6. /\ c[1] = seqs[1]
        /\ \A i \in 1 .. n : i # 1 => c[i] = Join(c[i - 1], seqs[i])
    <3>1. \A i \in 1 .. n : G(c)[i] = IF i = 1 THEN seqs[i] ELSE Join(c[i - 1], seqs[i])
      OBVIOUS
    <3>2. 1 \in 1 .. n
      BY <1>1, <1>4
    <3>3. \A i \in 1 .. n : c[i] = G(c)[i]
      <4> HIDE DEF G
      <4> QED
        BY <2>5
    <3> QED
      BY <3>1, <3>2, <3>3
  <2> DEFINE S == {i \in 0 .. n : i # 0 => c[i] = f[i]}
  <2>7. 0 \in S
    BY <1>1
  <2>8. ASSUME NEW i \in 0 .. n - 1, i \in S PROVE i + 1 \in S
    <3>1. i + 1 \in 1 .. n /\ (i + 1) - 1 = i /\ (i # 0 => c[i] = f[i])
      BY <1>1, <2>8
    <3>2. CASE i = 0
      BY <2>3, <2>6, <3>1, <3>2
    <3>3. CASE i # 0
      <4>1. i + 1 # 1
        BY <3>3
      <4>2. c[i + 1] = Join(c[i], seqs[i + 1]) /\ f[i + 1] = Join(f[i], seqs[i + 1])
        BY <2>2, <2>6, <3>1, <4>1
      <4> QED
        BY <3>1, <3>3, <4>2
    <3> QED
      BY <3>2, <3>3
  <2> HIDE DEF S
  <2>9. \A i \in 0 .. n : i \in S
    BY <1>1, <2>7, <2>8, Climb
  <2> QED
    BY <1>1, <1>2, <1>4, <2>1, <2>9 DEF S
<1> QED
  BY <1>3, <1>4

(***************************************************************************)
(* The attributes of the first blocks of a chain: none of none, and with   *)
(* every block its own.                                                    *)
(***************************************************************************)
LEMMA AttributesSteps ==
  ASSUME NEW blocks \in Seq(L1Contents)
  PROVE  /\ Attributes(Upto(blocks, 0)) = << >> /\ Attributes(blocks) = Attributes(Upto(blocks, Len(blocks)))
         /\ \A n \in 0 .. Len(blocks) : Attributes(Upto(blocks, n)) \in Seq(Contents)
         /\ \A n \in 1 .. Len(blocks) :
              Attributes(Upto(blocks, n)) = Join(Attributes(Upto(blocks, n - 1)), Batches[blocks[n]])
<1>1. Len(blocks) \in Nat
  OBVIOUS
<1>2. PICK f : FlatTo(f, blocks, Len(blocks))
  BY FlatExists
<1>3. ASSUME NEW n \in 0 .. Len(blocks) PROVE Attributes(Upto(blocks, n)) = f[n]
  <2> DEFINE u == Upto(blocks, n)
             p == [i \in 0 .. n |-> f[i]]
  <2>1. u \in Seq(L1Contents) /\ Len(u) = n /\ n \in Nat /\ \A i \in 1 .. n : u[i] = blocks[i]
    BY <1>1, UptoFacts
  <2> HIDE DEF u
  <2>2. FlatTo(p, u, n)
    <3>1. \A i \in 0 .. n : i \in 0 .. Len(blocks) /\ p[i] = f[i]
      BY <1>1, <2>1
    <3>2. p \in [0 .. n -> Seq(Contents)]
      BY <1>2, <3>1 DEF FlatTo
    <3>3. p[0] = << >>
      BY <1>2, <2>1, <3>1 DEF FlatTo
    <3>4. ASSUME NEW i \in 1 .. n PROVE p[i] = Join(p[i - 1], Batches[u[i]])
      <4>1. i \in 1 .. Len(blocks) /\ i \in 0 .. n /\ i - 1 \in 0 .. n
        BY <1>1, <2>1
      <4> HIDE DEF p
      <4>2. p[i] = f[i] /\ p[i - 1] = f[i - 1] /\ u[i] = blocks[i]
        BY <2>1, <3>1, <4>1
      <4>3. f[i] = Join(f[i - 1], Batches[blocks[i]])
        BY <1>2, <4>1 DEF FlatTo
      <4> QED
        BY <4>2, <4>3
    <3> HIDE DEF p
    <3> QED
      BY <3>2, <3>3, <3>4 DEF FlatTo
  <2>3. p[n] = f[n]
    BY <2>1
  <2> HIDE DEF p
  <2>4. Attributes(u) = p[n]
    BY <2>1, <2>2, AttributesIs
  <2> QED
    BY <2>3, <2>4 DEF u
<1>4. Attributes(blocks) = f[Len(blocks)]
  BY <1>2, AttributesIs
<1>5. /\ f[0] = << >> /\ \A n \in 0 .. Len(blocks) : f[n] \in Seq(Contents)
      /\ \A n \in 1 .. Len(blocks) :
           /\ n \in 0 .. Len(blocks) /\ n - 1 \in 0 .. Len(blocks)
           /\ f[n] = Join(f[n - 1], Batches[blocks[n]])
  <2>1. \A n \in 1 .. Len(blocks) : n \in 0 .. Len(blocks) /\ n - 1 \in 0 .. Len(blocks)
    BY <1>1
  <2>2. /\ f[0] = << >> /\ \A n \in 0 .. Len(blocks) : f[n] \in Seq(Contents)
        /\ \A n \in 1 .. Len(blocks) : f[n] = Join(f[n - 1], Batches[blocks[n]])
    BY <1>2 DEF FlatTo
  <2> QED
    BY <2>1, <2>2
<1>6. 0 \in 0 .. Len(blocks) /\ Len(blocks) \in 0 .. Len(blocks)
  BY <1>1
<1> QED
  BY <1>3, <1>4, <1>5, <1>6

(***************************************************************************)
(* A longer L1 chain gives the same attributes and possibly more.          *)
(***************************************************************************)
LEMMA AttributesGrow ==
  ASSUME NEW a \in Seq(L1Contents), NEW b \in Seq(L1Contents), IsPrefix(a, b)
  PROVE  /\ Attributes(a) \in Seq(Contents) /\ Attributes(b) \in Seq(Contents)
         /\ IsPrefix(Attributes(a), Attributes(b))
<1> DEFINE f == [i \in 0 .. Len(b) |-> Attributes(Upto(b, i))]
<1>1. Len(a) \in 0 .. Len(b) /\ a = Upto(b, Len(a)) /\ Len(b) \in Nat
  BY PrefixIsUpto
<1>2. /\ Attributes(b) = Attributes(Upto(b, Len(b)))
      /\ \A n \in 0 .. Len(b) : Attributes(Upto(b, n)) \in Seq(Contents)
      /\ \A n \in 1 .. Len(b) :
           Attributes(Upto(b, n)) = Join(Attributes(Upto(b, n - 1)), Batches[b[n]])
  BY AttributesSteps
<1>3. /\ \A n \in 0 .. Len(b) : f[n] = Attributes(Upto(b, n)) /\ f[n] \in Seq(Contents)
      /\ \A n \in 1 .. Len(b) : n - 1 \in 0 .. Len(b) /\ n \in 0 .. Len(b)
  BY <1>1, <1>2
<1>4. f[Len(a)] = Attributes(a) /\ f[Len(b)] = Attributes(b)
  BY <1>1, <1>2, <1>3
<1>5. ASSUME NEW n \in 1 .. Len(b) PROVE IsPrefix(f[n - 1], f[n])
  <2>1. /\ f[n - 1] \in Seq(Contents) /\ f[n] = Join(f[n - 1], Batches[b[n]])
        /\ Batches[b[n]] \in Seq(Contents)
    BY <1>2, <1>3, EngineQueueAssumption
  <2> HIDE DEF f
  <2>2. IsPrefix(f[n - 1], Join(f[n - 1], Batches[b[n]]))
    BY <2>1, ConcatPrefix DEF Join
  <2> QED
    BY <2>1, <2>2
<1> HIDE DEF f
<1>6. \A i \in Len(a) .. Len(b) : IsPrefix(f[Len(a)], f[i])
  BY <1>1, <1>3, <1>5, Growing
<1>7. Len(b) \in Len(a) .. Len(b) /\ f[Len(a)] \in Seq(Contents) /\ f[Len(b)] \in Seq(Contents)
  BY <1>1, <1>3
<1> QED
  BY <1>4, <1>6, <1>7

(***************************************************************************)
(* A longer L1 chain gives the same blocks and possibly more: what was     *)
(* derived once stays derived as long as L1 only grows.                    *)
(***************************************************************************)
LEMMA DerivedGrows ==
  ASSUME NEW a \in Seq(L1Contents), NEW b \in Seq(L1Contents), IsPrefix(a, b)
  PROVE  /\ Derived(a) \in Seq(Contents \ Invalid) /\ Derived(b) \in Seq(Contents \ Invalid)
         /\ IsPrefix(Derived(a), Derived(b))
<1>1. /\ Attributes(a) \in Seq(Contents) /\ Attributes(b) \in Seq(Contents)
      /\ IsPrefix(Attributes(a), Attributes(b))
  BY AttributesGrow
<1> QED
  BY <1>1, AcceptedGrows DEF Derived

-----------------------------------------------------------------------------
Blocks == Contents \ Invalid
Entry == [l2 : Seq(Blocks), l1 : Seq(L1Contents)]

(***************************************************************************)
(* The full types.  A job of the sequencer is one that the engine accepts. *)
(***************************************************************************)
ChainTypes ==
  /\ l1 \in Seq(L1Contents) /\ l1Final \in 0 .. Len(l1)
  /\ prevOrigin \in Seq(L1Contents) /\ origin \in Seq(L1Contents)
  /\ finalizedL1 \in Seq(L1Contents)
  /\ consumed \in Nat /\ triedFinalizeAt \in Nat \cup {Never}
  /\ resetNeeded \in BOOLEAN /\ needForkchoiceUpdate \in BOOLEAN

HeadTypes ==
  /\ finalized \in Seq(Blocks) /\ safeHead \in Seq(Blocks) /\ unsafeHead \in Seq(Blocks)
  /\ eHead \in Seq(Blocks) /\ eSafe \in Seq(Blocks) /\ eFinal \in Seq(Blocks)
  /\ \A job \in building : /\ job.onto \in Seq(Blocks) /\ job.content \in Contents
                           /\ job.safe \in BOOLEAN /\ (~job.safe => job.content \in Blocks)
  /\ finalityData \in Seq(Entry) /\ Len(finalityData) <= finalityLookback

(***************************************************************************)
(* The buffered attributes are for the safe head, and were given out for   *)
(* the origin that the queue is at.                                        *)
(***************************************************************************)
AttributesKept ==
  /\ \A attrs \in safeAttributes : attrs.parent = safeHead /\ attrs.content \in Contents
  /\ IsPrefix(origin, prevOrigin) /\ (safeAttributes # {} => origin = prevOrigin)

(***************************************************************************)
(* What is or can be finalized is on the chain of the safe head.           *)
(***************************************************************************)
FinalityOnSafe ==
  /\ IsPrefix(finalized, safeHead)
  /\ \A i \in DOMAIN finalityData :
       IsPrefix(finalityData[i].l2, safeHead) /\ IsPrefix(finalityData[i].l1, origin)

Comparable(s, t) == IsPrefix(s, t) \/ IsPrefix(t, s)

HeadsApart ==
  /\ Len(unsafeHead) < Len(safeHead) => IsPrefix(unsafeHead, safeHead)
  /\ Comparable(safeHead, unsafeHead) \/ needForkchoiceUpdate \/ resetNeeded

EQInv ==
  PQInv /\ ChainTypes /\ HeadTypes /\ AttributesKept /\ FinalityOnSafe /\ HeadsApart

(***************************************************************************)
(* The finalized part of L1, and what derives from it.                     *)
(***************************************************************************)
FinalL1 == Upto(l1, l1Final)
FinalL2 == Derived(FinalL1)

(***************************************************************************)
(* The safe head is what derives from the attributes given out so far,     *)
(* with the exception of the ones that are buffered; or it is the head of  *)
(* a reset, final, and the stages before have not caught up with it.       *)
(***************************************************************************)
CatchingUp ==
  /\ consumed = 0 /\ safeAttributes = {}
  /\ IsPrefix(safeHead, FinalL2) /\ Comparable(safeHead, Derived(prevOrigin))

Following ==
  /\ consumed <= Len(Attributes(prevOrigin)) /\ safeAttributes = {}
  /\ safeHead = Accepted(Upto(Attributes(prevOrigin), consumed))

Buffering ==
  /\ consumed \in 1 .. Len(Attributes(prevOrigin))
  /\ \A attrs \in safeAttributes : attrs.content = Attributes(prevOrigin)[consumed]
  /\ safeHead = Accepted(Upto(Attributes(prevOrigin), consumed - 1))

SafeFollows == CatchingUp \/ Following \/ Buffering

(***************************************************************************)
(* What is finalized derives from the finalized part of L1, and so does    *)
(* what can be finalized, once its L1 block is final.                      *)
(***************************************************************************)
FinalityDerived ==
  /\ IsPrefix(finalizedL1, FinalL1)
  /\ IsPrefix(eFinal, FinalL2) /\ IsPrefix(finalized, FinalL2)
  /\ \A i \in DOMAIN finalityData :
       \/ IsPrefix(finalityData[i].l2, FinalL2)
       \/ IsPrefix(finalityData[i].l2, Derived(finalityData[i].l1))

EQDerivedInv == SafeFollows /\ FinalityDerived

-----------------------------------------------------------------------------
(***************************************************************************)
(* The smallest and the largest number of a set.                           *)
(***************************************************************************)
LEMMA MinIsIn ==
  ASSUME NEW S, S \subseteq Nat, S # {}
  PROVE  Min(S) \in S
<1>1. PICK m \in S : \A k \in S : ~(<<k, m>> \in OpToRel(<, Nat))
  BY NatLessThanWellFounded, WFMin
<1>2. \A k \in S : ~(k < m)
  BY <1>1, Zenon DEF OpToRel
<1>3. \A k \in S : m <= k
  BY <1>2
<1> QED
  BY <1>3 DEF Min

(***************************************************************************)
(* The largest one exists if there is a bound.                             *)
(***************************************************************************)
LEMMA MaxIsIn ==
  ASSUME NEW n \in Nat, NEW S, S \subseteq 1 .. n, S # {}
  PROVE  Max(S) \in S
<1> DEFINE U == {k \in Nat : \A i \in S : i <= k}
<1>1. U \subseteq Nat /\ U # {}
  <2>1. n \in U
    OBVIOUS
  <2> QED
    BY <2>1
<1>2. PICK m \in U : \A k \in U : ~(<<k, m>> \in OpToRel(<, Nat))
  <2> HIDE DEF U
  <2> QED
    BY <1>1, NatLessThanWellFounded, WFMin
<1>3. \A k \in U : ~(k < m)
  BY <1>1, <1>2, Zenon DEF OpToRel
<1>4. m \in S
  <2> SUFFICES ASSUME m \notin S PROVE FALSE
    OBVIOUS
  <2>1. m \in Nat /\ \A i \in S : i <= m /\ i # m /\ i \in Nat /\ i >= 1
    OBVIOUS
  <2>2. PICK i : i \in S
    OBVIOUS
  <2>3. m - 1 \in U /\ m - 1 < m
    BY <2>1, <2>2
  <2> QED
    BY <1>3, <2>3
<1>5. \A i \in S : m >= i
  OBVIOUS
<1> QED
  BY <1>4, <1>5 DEF Max

(***************************************************************************)
(* What Prefixes enumerates.                                               *)
(***************************************************************************)
LEMMA PrefixesFacts ==
  ASSUME NEW S, NEW t \in Seq(S), NEW s \in Prefixes(t)
  PROVE  s \in Seq(S) /\ IsPrefix(s, t)
<1>1. PICK n \in 0 .. Len(t) : s = SubSeq(t, 1, n)
  BY DEF Prefixes
<1> QED
  BY <1>1, UptoFacts DEF Upto

(***************************************************************************)
(* The engine makes the new head canonical, or keeps a longer one; a valid *)
(* answer means that the head and the safe block are on one chain.         *)
(***************************************************************************)
LEMMA ForkchoiceFacts ==
  ASSUME HeadTypes, NEW h \in Seq(Blocks), NEW s \in Seq(Blocks), NEW f \in Seq(Blocks)
  PROVE  /\ ForkchoiceUpdate(h, s, f).head \in Seq(Blocks)
         /\ ForkchoiceUpdate(h, s, f).safe \in Seq(Blocks)
         /\ ForkchoiceUpdate(h, s, f).final \in {f, eFinal}
         /\ ForkchoiceUpdate(h, s, f).valid => Comparable(s, h)
<1> DEFINE canonical == IF IsPrefix(h, eHead) THEN eHead ELSE h
           fc == ForkchoiceUpdate(h, s, f)
<1>1. canonical \in Seq(Blocks) /\ IsPrefix(h, canonical)
  BY PrefixEnds DEF HeadTypes
<1>2. /\ fc.head = canonical /\ fc.final \in {f, eFinal} /\ fc.safe \in {s, eSafe}
      /\ fc.valid => IsPrefix(s, canonical)
  BY DEF ForkchoiceUpdate
<1>3. Len(s) \in Nat /\ Len(h) \in Nat
  OBVIOUS
<1> HIDE DEF canonical, fc
<1>4. fc.valid => Comparable(s, h)
  <2> SUFFICES ASSUME fc.valid PROVE Comparable(s, h)
    OBVIOUS
  <2>1. IsPrefix(s, canonical)
    BY <1>2
  <2>2. CASE Len(s) <= Len(h)
    BY <1>1, <2>1, <2>2, PrefixesCompare DEF Comparable
  <2>3. CASE Len(h) <= Len(s)
    BY <1>1, <2>1, <2>3, PrefixesCompare DEF Comparable
  <2> QED
    BY <1>3, <2>2, <2>3
<1> QED
  BY <1>1, <1>2, <1>4 DEF fc, HeadTypes

(***************************************************************************)
(* postProcessSafeL2 keeps the number of entries within its bound; an      *)
(* entry is an earlier one, or the one for the safe head and the origin.   *)
(***************************************************************************)
LEMMA PostProcessFacts ==
  ASSUME NEW data \in Seq(Entry), Len(data) <= finalityLookback,
         NEW safe \in Seq(Blocks), NEW at \in Seq(L1Contents),
         \A i \in DOMAIN data : IsPrefix(data[i].l1, at)
  PROVE  /\ PostProcess(data, safe, at) \in Seq(Entry)
         /\ Len(PostProcess(data, safe, at)) <= finalityLookback
         /\ \A j \in DOMAIN PostProcess(data, safe, at) :
              \/ PostProcess(data, safe, at)[j] = [l2 |-> safe, l1 |-> at]
              \/ \E i \in DOMAIN data : PostProcess(data, safe, at)[j] = data[i]
<1> DEFINE kept == IF Len(data) >= finalityLookback
                     THEN SubSeq(data, 2, finalityLookback) ELSE data
           entry == [l2 |-> safe, l1 |-> at]
<1>1. finalityLookback \in Nat /\ finalityLookback >= 1 /\ Len(data) \in Nat
  BY EngineQueueAssumption
<1>2. /\ kept \in Seq(Entry) /\ Len(kept) < finalityLookback /\ Len(kept) \in Nat
      /\ \A j \in DOMAIN kept : \E i \in DOMAIN data : kept[j] = data[i]
  <2>1. CASE Len(data) >= finalityLookback
    <3>1. Len(data) = finalityLookback
      BY <1>1, <2>1
    <3> DEFINE k == SubSeq(data, 2, Len(data))
    <3>2. /\ k \in Seq(Entry) /\ Len(k) = Len(data) - 1
          /\ \A j \in 1 .. Len(data) - 1 : k[j] = data[j + 1] /\ j + 1 \in 1 .. Len(data)
      BY <1>1, <3>1
    <3>3. DOMAIN k = 1 .. Len(data) - 1 /\ DOMAIN data = 1 .. Len(data)
      BY <3>2
    <3>4. kept = k
      BY <2>1, <3>1
    <3> HIDE DEF k, kept
    <3>5. \A j \in DOMAIN k : \E i \in DOMAIN data : k[j] = data[i]
      BY <3>2, <3>3
    <3>6. k \in Seq(Entry) /\ Len(k) < finalityLookback /\ Len(k) \in Nat
      BY <1>1, <3>1, <3>2
    <3> QED
      BY <3>4, <3>5, <3>6
  <2>2. CASE ~(Len(data) >= finalityLookback)
    <3>1. kept = data
      BY <2>2
    <3> HIDE DEF kept
    <3> QED
      BY <1>1, <2>2, <3>1
  <2> QED
    BY <2>1, <2>2
<1>3. entry \in Entry /\ entry.l2 = safe /\ entry.l1 = at
  BY DEF Entry
<1>4. PostProcess(data, safe, at) = IF kept = << >> \/ Len(Last(kept).l1) < Len(at)
                                      THEN Append(kept, entry)
                                      ELSE [kept EXCEPT ![Len(kept)].l2 = safe]
  BY DEF PostProcess
<1> HIDE DEF kept
<1>5. CASE kept = << >> \/ Len(Last(kept).l1) < Len(at)
  <2> DEFINE r == Append(kept, entry)
  <2> HIDE DEF entry
  <2>1. /\ r \in Seq(Entry) /\ Len(r) = Len(kept) + 1 /\ r[Len(kept) + 1] = entry
        /\ \A j \in 1 .. Len(kept) : r[j] = kept[j]
    BY <1>2, <1>3
  <2>2. DOMAIN r = 1 .. Len(kept) + 1 /\ DOMAIN kept = 1 .. Len(kept)
    BY <1>2, <2>1
  <2> HIDE DEF r
  <2>3. \A j \in DOMAIN r : r[j] = entry \/ \E i \in DOMAIN data : r[j] = data[i]
    BY <1>2, <2>1, <2>2
  <2>4. PostProcess(data, safe, at) = r /\ Len(r) <= finalityLookback
    BY <1>1, <1>2, <1>4, <1>5, <2>1 DEF r
  <2> QED
    BY <2>1, <2>3, <2>4 DEF entry
<1>6. CASE ~(kept = << >> \/ Len(Last(kept).l1) < Len(at))
  <2> DEFINE n == Len(kept)
             e == kept[n]
             r == [kept EXCEPT ![n].l2 = safe]
  <2>1. n \in Nat /\ n >= 1 /\ DOMAIN kept = 1 .. n /\ n \in 1 .. n /\ kept[n] \in Entry
    BY <1>2, <1>6
  <2>2. e \in Entry /\ ~(Len(e.l1) < Len(at)) /\ IsPrefix(e.l1, at)
    BY <1>2, <1>6, <2>1 DEF Last
  <2>3. e.l1 = at
    <3>1. e.l1 \in Seq(L1Contents) /\ Len(e.l1) \in Nat /\ Len(at) \in Nat
      BY <2>2 DEF Entry
    <3> HIDE DEF e
    <3> QED
      BY <2>2, <3>1, PrefixEnds
  <2>4. r = [kept EXCEPT ![n] = entry]
    <3>1. [e EXCEPT !.l2 = safe] = entry
      BY <2>2, <2>3 DEF Entry
    <3> QED
      BY <2>1, <3>1
  <2> DEFINE q == [kept EXCEPT ![n] = entry]
  <2> HIDE DEF n, entry
  <2>5. /\ q \in Seq(Entry) /\ Len(q) = n /\ DOMAIN q = 1 .. n /\ q[n] = entry
        /\ \A j \in 1 .. n : j # n => q[j] = kept[j]
    BY <1>2, <1>3, <2>1 DEF n
  <2>6. \A j \in DOMAIN q : q[j] = entry \/ \E i \in DOMAIN data : q[j] = data[i]
    <3> HIDE DEF q
    <3> QED
      BY <1>2, <2>1, <2>5
  <2>7. PostProcess(data, safe, at) = q /\ Len(q) <= finalityLookback
    BY <1>1, <1>2, <1>4, <1>6, <2>4, <2>5 DEF n
  <2> HIDE DEF q
  <2> QED
    BY <2>5, <2>6, <2>7 DEF entry
<1> QED
  BY <1>5, <1>6

-----------------------------------------------------------------------------
(***************************************************************************)
(* How the safe side of the state may move in a step.  Most steps leave it *)
(* alone; the other ones make the next derived block safe, drop rejected   *)
(* attributes, pull attributes, reset, or take a finality signal.          *)
(***************************************************************************)
Still == UNCHANGED <<prevVars, safeHead, finalityVars, safeAttributes, origin>>

Advances ==
  /\ \E attrs \in safeAttributes : /\ attrs.content \in Blocks
                                   /\ safeHead' = Append(safeHead, attrs.content)
  /\ safeAttributes' = {}
  /\ finalityData' = PostProcess(finalityData, safeHead', origin)
  /\ UNCHANGED <<l1Vars, prevVars, finalized, finalizedL1, triedFinalizeAt, origin>>

Rejects ==
  /\ \E attrs \in safeAttributes : attrs.content \in Invalid
  /\ safeAttributes' = {}
  /\ UNCHANGED <<l1Vars, prevVars, safeHead, finalityVars, origin>>

SafeMoves ==
  \/ Still /\ (UNCHANGED l1Vars \/ L1Block \/ L1Finalizes)
  \/ Advances \/ Rejects \/ PullAttributes \/ Reset \/ Finalize

(***************************************************************************)
(* Every step of the queue is one of these moves.                          *)
(***************************************************************************)
LEMMA StepMovesSafe ==
  ASSUME HeadTypes, AttributesKept, [EQNext]_eqVars
  PROVE  SafeMoves
<1> USE DEF l1Vars, prevVars, finalityVars
<1>1. CASE UNCHANGED eqVars
  BY <1>1 DEF eqVars, SafeMoves, Still
<1>2. CASE tryUpdateEngine
  BY <1>2 DEF tryUpdateEngine, SafeMoves, Still
<1>3. CASE DropOldPayload
  BY <1>3 DEF DropOldPayload, SafeMoves, Still
<1>4. CASE InsertUnsafePayload
  BY <1>4 DEF InsertUnsafePayload, SafeMoves, Still
<1>5. CASE RejectUnsafePayload
  BY <1>5 DEF RejectUnsafePayload, SafeMoves, Still
<1>6. CASE MissingUnsafe
  BY <1>6 DEF MissingUnsafe, SafeMoves, Still
<1>7. CASE Consolidate
  <2>1. PICK attrs \in safeAttributes : safeHead = attrs.parent /\ Matches(attrs)
    BY <1>7 DEF Consolidate
  <2>2. NextOnEngine = Append(safeHead, attrs.content) /\ Len(safeHead) + 1 \in 0 .. Len(eHead)
    BY <2>1 DEF Matches, HeadTypes
  <2>3. NextOnEngine \in Seq(Blocks) /\ Len(NextOnEngine) = Len(safeHead) + 1
    BY <2>2, UptoFacts DEF NextOnEngine, HeadTypes
  <2>4. attrs.content \in Contents /\ safeHead \in Seq(Blocks) /\ Len(safeHead) \in Nat
    BY DEF AttributesKept, HeadTypes
  <2>5. NextOnEngine[Len(safeHead) + 1] = attrs.content
    BY <2>2, <2>4
  <2>6. attrs.content \in Blocks
    BY <2>3, <2>4, <2>5
  <2>7. Advances
    BY <1>7, <2>2, <2>6 DEF Consolidate, Advances
  <2> QED
    BY <2>7 DEF SafeMoves
<1>8. CASE ForceAttributes
  <2>1. PICK attrs \in safeAttributes :
          LET start == ForkchoiceUpdate(safeHead, safeHead, finalized)
              job == [onto |-> safeHead, content |-> attrs.content, safe |-> TRUE]
          IN \/ /\ attrs.content \notin Invalid
                /\ Confirmed(job) /\ safeAttributes' = {}
             \/ UNCHANGED <<safeHead, finalityData, safeAttributes>>
             \/ /\ attrs.content \in Invalid /\ safeAttributes' = {}
                /\ UNCHANGED <<safeHead, finalityData>>
    BY <1>8 DEF ForceAttributes
  <2>2. attrs.content \in Contents
    BY DEF AttributesKept
  <2>3. UNCHANGED <<l1Vars, prevVars, finalized, finalizedL1, triedFinalizeAt, origin>>
    BY <1>8 DEF ForceAttributes
  <2>4. CASE attrs.content \notin Invalid /\ safeAttributes' = {}
             /\ Confirmed([onto |-> safeHead, content |-> attrs.content, safe |-> TRUE])
    <3>1. /\ safeHead' = Append(safeHead, attrs.content)
          /\ finalityData' = PostProcess(finalityData, safeHead', origin)
      BY <2>4 DEF Confirmed, JobBlock
    <3>2. attrs.content \in Blocks
      BY <2>2, <2>4 DEF Blocks
    <3>3. Advances
      BY <2>3, <2>4, <3>1, <3>2 DEF Advances
    <3> QED
      BY <3>3 DEF SafeMoves
  <2>5. CASE UNCHANGED <<safeHead, finalityData, safeAttributes>>
    BY <2>3, <2>5 DEF SafeMoves, Still
  <2>6. CASE attrs.content \in Invalid /\ safeAttributes' = {} /\ UNCHANGED <<safeHead, finalityData>>
    BY <2>3, <2>6 DEF SafeMoves, Rejects
  <2> QED
    BY <2>1, <2>4, <2>5, <2>6
<1>9. CASE CorrectUnsafeHead
  BY <1>9 DEF CorrectUnsafeHead, SafeMoves, Still
<1>10. CASE PullAttributes \/ Reset \/ Finalize
  BY <1>10 DEF SafeMoves
<1>11. CASE RequestReset
  BY <1>11 DEF RequestReset, SafeMoves, Still
<1>12. ASSUME NEW p \in Payloads, AddUnsafePayload(p) PROVE SafeMoves
  BY <1>12 DEF AddUnsafePayload, SafeMoves, Still
<1>13. CASE SequencerStart
  BY <1>13 DEF SequencerStart, SafeMoves, Still
<1>14. CASE SequencerComplete
  <2>1. PICK job \in building : ~job.safe /\ (Confirmed(job) \/ UNCHANGED <<safeHead, finalityData>>)
    BY <1>14 DEF SequencerComplete
  <2>2. UNCHANGED <<safeHead, finalityData>>
    BY <2>1 DEF Confirmed
  <2> QED
    BY <1>14, <2>2 DEF SequencerComplete, SafeMoves, Still
<1>15. CASE L1Step
  BY <1>15 DEF L1Step, SafeMoves, Still
<1> QED
  BY <1>1, <1>2, <1>3, <1>4, <1>5, <1>6, <1>7, <1>8, <1>9, <1>10, <1>11, <1>12, <1>13, <1>14,
     <1>15 DEF EQNext, Step

(***************************************************************************)
(* A step of the engine queue is a step of its payloads queue, or leaves   *)
(* it alone.                                                               *)
(***************************************************************************)
LEMMA StepMovesPayloads ==
  ASSUME PQTypeOK, [EQNext]_eqVars
  PROVE  [PQNext]_pqVars
<1>1. \A p \in Lowest(pq) : p \in Payloads
  BY DEF Lowest, PQTypeOK
<1>2. ASSUME NEW p \in Lowest(pq), Pop(p) PROVE PQNext
  BY <1>1, <1>2 DEF PQNext
<1>3. CASE UNCHANGED pqVars
  BY <1>3
<1>4. CASE PassUnsafePayloads
  BY <1>2, <1>4 DEF PassUnsafePayloads
<1>5. CASE DropOldPayload \/ RejectUnsafePayload
  BY <1>2, <1>5 DEF DropOldPayload, RejectUnsafePayload
<1>6. CASE InsertUnsafePayload
  BY <1>2, <1>6 DEF InsertUnsafePayload
<1>7. ASSUME NEW p \in Payloads, AddUnsafePayload(p) PROVE PQNext
  BY <1>7 DEF AddUnsafePayload, PQNext
<1>8. CASE MissingUnsafe \/ Consolidate \/ ForceAttributes \/ CorrectUnsafeHead \/ PullAttributes
  BY <1>4, <1>8 DEF MissingUnsafe, Consolidate, ForceAttributes, CorrectUnsafeHead, PullAttributes
<1>9. CASE UNCHANGED eqVars
  BY <1>3, <1>9 DEF eqVars, pqVars
<1>10. CASE tryUpdateEngine \/ Reset \/ RequestReset \/ Finalize
  BY <1>3, <1>10 DEF tryUpdateEngine, Reset, RequestReset, Finalize
<1>11. CASE SequencerStart \/ SequencerComplete \/ L1Step
  BY <1>3, <1>11 DEF SequencerStart, SequencerComplete, L1Step
<1> QED
  BY <1>5, <1>6, <1>7, <1>8, <1>9, <1>10, <1>11 DEF EQNext, Step

(***************************************************************************)
(* The engine is only told of blocks it accepts, and of the finalized      *)
(* block as it is before the step; the unsafe head and the job stay of     *)
(* their types.                                                            *)
(***************************************************************************)
LEMMA StepMovesUnsafe ==
  ASSUME PQTypeOK, HeadTypes, AttributesKept, [EQNext]_eqVars
  PROVE  /\ eHead' \in Seq(Blocks) /\ eSafe' \in Seq(Blocks) /\ eFinal' \in {eFinal, finalized}
         /\ unsafeHead' \in Seq(Blocks)
         /\ \A job \in building' : /\ job.onto \in Seq(Blocks) /\ job.content \in Contents
                                   /\ job.safe \in BOOLEAN /\ (~job.safe => job.content \in Blocks)
<1> DEFINE Engine == /\ eHead' \in Seq(Blocks) /\ eSafe' \in Seq(Blocks)
                     /\ eFinal' \in {eFinal, finalized}
           Job(job) == /\ job.onto \in Seq(Blocks) /\ job.content \in Contents
                       /\ job.safe \in BOOLEAN /\ (~job.safe => job.content \in Blocks)
           Goal == Engine /\ unsafeHead' \in Seq(Blocks) /\ \A job \in building' : Job(job)
<1> SUFFICES Goal
  OBVIOUS
<1>1. /\ unsafeHead \in Seq(Blocks) /\ safeHead \in Seq(Blocks) /\ finalized \in Seq(Blocks)
      /\ eHead \in Seq(Blocks) /\ eSafe \in Seq(Blocks) /\ eFinal \in Seq(Blocks)
      /\ \A job \in building : Job(job)
  BY DEF HeadTypes
<1>2. UNCHANGED engineVars => Engine
  BY <1>1 DEF engineVars
<1>3. ASSUME NEW h \in Seq(Blocks), NEW s \in Seq(Blocks),
             EngineDoes(ForkchoiceUpdate(h, s, finalized))
      PROVE  Engine
  <2>1. /\ ForkchoiceUpdate(h, s, finalized).head \in Seq(Blocks)
        /\ ForkchoiceUpdate(h, s, finalized).safe \in Seq(Blocks)
        /\ ForkchoiceUpdate(h, s, finalized).final \in {finalized, eFinal}
    BY <1>1, ForkchoiceFacts
  <2> QED
    BY <1>3, <2>1 DEF EngineDoes
<1>4. \A p \in Lowest(pq) : p \in Seq(Blocks)
  BY EngineQueueAssumption DEF Lowest, PQTypeOK, Blocks
<1>5. ASSUME NEW job, Job(job), job.content \in Blocks
      PROVE  /\ JobBlock(job) \in Seq(Blocks) /\ (Confirmed(job) => unsafeHead' \in Seq(Blocks))
             /\ (EngineDoes(ConfirmFC(job)) => Engine)
  <2>1. JobBlock(job) \in Seq(Blocks)
    BY <1>5 DEF JobBlock
  <2>2. (IF job.safe THEN JobBlock(job) ELSE safeHead) \in Seq(Blocks)
    BY <1>1, <2>1
  <2> HIDE DEF Engine
  <2>3. EngineDoes(ConfirmFC(job)) => Engine
    BY <1>3, <2>1, <2>2 DEF ConfirmFC
  <2> QED
    BY <2>1, <2>3 DEF Confirmed
<1> HIDE DEF Engine, Job
<1>6. CASE UNCHANGED <<engineVars, unsafeHead, building>>
  BY <1>1, <1>2, <1>6
<1>7. CASE \/ DropOldPayload \/ RejectUnsafePayload \/ MissingUnsafe \/ Consolidate
           \/ PullAttributes \/ RequestReset \/ Finalize \/ L1Step \/ UNCHANGED eqVars
           \/ \E p \in Payloads : AddUnsafePayload(p)
  BY <1>6, <1>7 DEF DropOldPayload, RejectUnsafePayload, MissingUnsafe, Consolidate,
     PullAttributes, RequestReset, Finalize, L1Step, AddUnsafePayload, eqVars, engineVars
<1>8. CASE tryUpdateEngine
  BY <1>1, <1>3, <1>8 DEF tryUpdateEngine
<1>9. CASE InsertUnsafePayload
  <2>1. PICK first \in Lowest(pq) :
           /\ EngineDoes(ForkchoiceUpdate(first, safeHead, finalized))
           /\ unsafeHead' \in {first, unsafeHead} /\ UNCHANGED building
    BY <1>9 DEF InsertUnsafePayload
  <2> QED
    BY <1>1, <1>3, <1>4, <2>1
<1>10. CASE CorrectUnsafeHead
  BY <1>1, <1>2, <1>10 DEF CorrectUnsafeHead
<1>11. CASE ForceAttributes
  <2> DEFINE job(attrs) == [onto |-> safeHead, content |-> attrs.content, safe |-> TRUE]
  <2>1. PICK attrs \in safeAttributes :
          /\ \/ attrs.content \notin Invalid /\ EngineDoes(ConfirmFC(job(attrs)))
             \/ EngineDoes(ForkchoiceUpdate(safeHead, safeHead, finalized))
          /\ \/ attrs.content \notin Invalid /\ Confirmed(job(attrs))
             \/ UNCHANGED unsafeHead /\ building' \in {{}, building, {job(attrs)}}
    BY <1>11 DEF ForceAttributes
  <2>2. Job(job(attrs)) /\ (attrs.content \notin Invalid => job(attrs).content \in Blocks)
    BY <1>1 DEF Job, AttributesKept, Blocks
  <2> HIDE DEF job
  <2>3. Engine
    BY <1>1, <1>3, <1>5, <2>1, <2>2
  <2>4. unsafeHead' \in Seq(Blocks)
    BY <1>1, <1>5, <2>1, <2>2
  <2>5. building' \in {{}, building, {job(attrs)}}
    BY <2>1 DEF Confirmed
  <2> QED
    BY <1>1, <2>2, <2>3, <2>4, <2>5
<1>12. CASE Reset
  <2>1. PICK u \in Prefixes(eHead) : unsafeHead' = u /\ building' = {} /\ UNCHANGED engineVars
    BY <1>12 DEF Reset
  <2>2. u \in Seq(Blocks)
    BY <1>1, <2>1, PrefixesFacts
  <2> QED
    BY <1>2, <2>1, <2>2
<1>13. CASE SequencerStart
  <2>1. PICK c \in Sequenced :
           /\ EngineDoes(ForkchoiceUpdate(unsafeHead, safeHead, finalized)) /\ UNCHANGED unsafeHead
           /\ building' \in {building, {[onto |-> unsafeHead, content |-> c, safe |-> FALSE]}}
    BY <1>13 DEF SequencerStart
  <2>2. Job([onto |-> unsafeHead, content |-> c, safe |-> FALSE])
    BY <1>1, EngineQueueAssumption DEF Job, Blocks
  <2> QED
    BY <1>1, <1>3, <2>1, <2>2
<1>14. CASE SequencerComplete
  <2>1. PICK job \in building :
           /\ ~job.safe
           /\ EngineDoes(ConfirmFC(job)) \/ UNCHANGED engineVars
           /\ Confirmed(job) \/ (building' = {} /\ UNCHANGED unsafeHead)
    BY <1>14 DEF SequencerComplete
  <2>2. Job(job) /\ job.content \in Blocks
    BY <1>1, <2>1 DEF Job
  <2>3. building' = {}
    BY <2>1 DEF Confirmed
  <2> QED
    BY <1>1, <1>2, <1>5, <2>1, <2>2, <2>3
<1> QED
  BY <1>7, <1>8, <1>9, <1>10, <1>11, <1>12, <1>13, <1>14 DEF EQNext, Step

(***************************************************************************)
(* tryFinalizeL2 finalizes nothing, or the L2 block of an entry whose L1   *)
(* block is not above the signal.                                          *)
(***************************************************************************)
LEMMA TryFinalizeFacts ==
  ASSUME NEW data \in Seq(Entry), NEW at, NEW signal, TryFinalizeL2(data, at, signal)
  PROVE  /\ triedFinalizeAt' = Len(at)
         /\ needForkchoiceUpdate' \in BOOLEAN /\ (needForkchoiceUpdate => needForkchoiceUpdate')
         /\ \/ finalized' = finalized
            \/ \E i \in DOMAIN data :
                 /\ finalized' = data[i].l2 /\ Len(data[i].l1) <= Len(signal)
                 /\ Len(finalized') > Len(finalized)
<1> DEFINE is == Finalizable(data, finalized, signal)
<1>1. DOMAIN data = 1 .. Len(data) /\ Len(data) \in Nat
  OBVIOUS
<1>2. is \subseteq 1 .. Len(data)
  BY <1>1 DEF Finalizable
<1>3. /\ triedFinalizeAt' = Len(at)
      /\ finalized' = IF is = {} THEN finalized ELSE data[Max(is)].l2
      /\ needForkchoiceUpdate' = (needForkchoiceUpdate \/ is # {})
  BY DEF TryFinalizeL2
<1>4. is # {} => Max(is) \in is
  <2> HIDE DEF is
  <2> QED
    BY <1>1, <1>2, MaxIsIn
<1>5. is # {} => /\ Max(is) \in DOMAIN data /\ Len(data[Max(is)].l1) <= Len(signal)
                 /\ Len(data[Max(is)].l2) > Len(finalized)
  BY <1>4 DEF Finalizable
<1> HIDE DEF is
<1> QED
  BY <1>3, <1>5

(***************************************************************************)
(* The stages before give out nothing and stay, give out the next          *)
(* attributes that build on the safe head, or go on to the next L1 block   *)
(* when there are none.                                                    *)
(***************************************************************************)
Takes ==
  /\ consumed' \in consumed + 1 .. Len(Attributes(prevOrigin))
  /\ Accepted(Upto(Attributes(prevOrigin), consumed' - 1)) = safeHead
  /\ safeAttributes' = {[content |-> Attributes(prevOrigin)[consumed'], parent |-> safeHead]}
  /\ UNCHANGED prevOrigin

GoesOn ==
  /\ OnCanonicalL1 /\ Len(prevOrigin) < Len(l1) /\ NextIndexes = {}
  /\ prevOrigin' = Upto(l1, Len(prevOrigin) + 1)
  /\ UNCHANGED <<consumed, safeAttributes>>

(***************************************************************************)
(* What pulling attributes does.                                           *)
(***************************************************************************)
LEMMA PullFacts ==
  ASSUME ChainTypes, HeadTypes, AttributesKept, FinalityOnSafe, PullAttributes
  PROVE  /\ safeAttributes = {} /\ origin' = prevOrigin
         /\ UNCHANGED <<l1, l1Final, safeHead, unsafeHead, building, finalizedL1>>
         /\ finalityData' \in Seq(Entry) /\ Len(finalityData') <= finalityLookback
         /\ \A j \in DOMAIN finalityData' :
              \/ finalityData'[j] = [l2 |-> safeHead, l1 |-> prevOrigin]
              \/ \E i \in DOMAIN finalityData : finalityData'[j] = finalityData[i]
         /\ \/ finalized' = finalized
            \/ /\ OnCanonicalL1 /\ Len(prevOrigin) <= Len(finalizedL1)
               /\ \E i \in DOMAIN finalityData' : /\ finalized' = finalityData'[i].l2
                                                  /\ Len(finalityData'[i].l1) <= Len(finalizedL1)
                                                  /\ Len(finalized') > Len(finalized)
         /\ triedFinalizeAt' \in {triedFinalizeAt, Len(prevOrigin)}
         /\ needForkchoiceUpdate' \in BOOLEAN /\ resetNeeded' \in BOOLEAN
         /\ UNCHANGED <<prevOrigin, consumed, safeAttributes>> \/ Takes \/ GoesOn
<1>1. /\ safeAttributes = {} /\ origin' = prevOrigin
      /\ UNCHANGED <<l1, l1Final, safeHead, unsafeHead, building, finalizedL1>>
      /\ finalityData' = PostProcess(finalityData, safeHead, prevOrigin)
  BY DEF PullAttributes, l1Vars
<1>2. \A i \in DOMAIN finalityData : IsPrefix(finalityData[i].l1, prevOrigin)
  <2> SUFFICES ASSUME NEW i \in DOMAIN finalityData PROVE IsPrefix(finalityData[i].l1, prevOrigin)
    OBVIOUS
  <2>1. finalityData[i].l1 \in Seq(L1Contents)
    <3>1. finalityData[i] \in Entry
      BY DEF HeadTypes
    <3> QED
      BY <3>1 DEF Entry
  <2>2. /\ IsPrefix(finalityData[i].l1, origin) /\ IsPrefix(origin, prevOrigin)
        /\ origin \in Seq(L1Contents) /\ prevOrigin \in Seq(L1Contents)
    BY DEF FinalityOnSafe, AttributesKept, ChainTypes
  <2> QED
    BY <2>1, <2>2, PrefixTrans
<1>3. /\ finalityData' \in Seq(Entry) /\ Len(finalityData') <= finalityLookback
      /\ \A j \in DOMAIN finalityData' :
           \/ finalityData'[j] = [l2 |-> safeHead, l1 |-> prevOrigin]
           \/ \E i \in DOMAIN finalityData : finalityData'[j] = finalityData[i]
  <2>1. /\ finalityData \in Seq(Entry) /\ Len(finalityData) <= finalityLookback
        /\ safeHead \in Seq(Blocks) /\ prevOrigin \in Seq(L1Contents)
    BY DEF HeadTypes, ChainTypes
  <2> QED
    BY <1>1, <1>2, <2>1, PostProcessFacts
<1>4. ASSUME TakeAttributes
      PROVE  /\ UNCHANGED <<prevOrigin, consumed, safeAttributes>> \/ Takes \/ GoesOn
             /\ resetNeeded' \in BOOLEAN
  <2>1. CASE NextIndexes # {}
    <3>1. NextIndexes \subseteq Nat
      BY DEF NextIndexes, ChainTypes
    <3>2. consumed' \in NextIndexes
      BY <1>4, <2>1, <3>1, MinIsIn DEF TakeAttributes
    <3>3. /\ consumed' \in consumed + 1 .. Len(Attributes(prevOrigin))
          /\ Accepted(Upto(Attributes(prevOrigin), consumed' - 1)) = safeHead
      BY <3>2 DEF NextIndexes
    <3> QED
      BY <1>4, <2>1, <3>3 DEF TakeAttributes, Takes, ChainTypes
  <2>2. CASE NextIndexes = {}
    BY <1>4, <2>2 DEF TakeAttributes, GoesOn, ChainTypes
  <2> QED
    BY <2>1, <2>2
<1>5. CASE TriesFinalizing /\ OnCanonicalL1 /\ TryFinalizeL2(finalityData', prevOrigin, finalizedL1)
           /\ TakeAttributes
  <2>1. Len(prevOrigin) <= Len(finalizedL1)
    <3>1. Len(finalizedL1) >= Len(prevOrigin) /\ Len(finalizedL1) \in Nat /\ Len(prevOrigin) \in Nat
      BY <1>5 DEF TriesFinalizing, ChainTypes
    <3> QED
      BY <3>1
  <2> DEFINE data == finalityData'
  <2>2. data \in Seq(Entry) /\ TryFinalizeL2(data, prevOrigin, finalizedL1)
    BY <1>3, <1>5
  <2> HIDE DEF data
  <2>3. /\ triedFinalizeAt' = Len(prevOrigin) /\ needForkchoiceUpdate' \in BOOLEAN
        /\ \/ finalized' = finalized
           \/ \E i \in DOMAIN data : /\ finalized' = data[i].l2 /\ Len(data[i].l1) <= Len(finalizedL1)
                                    /\ Len(finalized') > Len(finalized)
    BY <2>2, TryFinalizeFacts
  <2> QED
    BY <1>1, <1>3, <1>4, <1>5, <2>1, <2>3 DEF data
<1>6. CASE TriesFinalizing /\ ~OnCanonicalL1 /\ resetNeeded' = TRUE
           /\ UNCHANGED <<finalized, triedFinalizeAt, needForkchoiceUpdate, prevVars, safeAttributes>>
  BY <1>1, <1>3, <1>6 DEF prevVars, ChainTypes
<1>7. CASE UNCHANGED <<finalized, triedFinalizeAt, needForkchoiceUpdate>> /\ TakeAttributes
  BY <1>1, <1>3, <1>4, <1>7 DEF ChainTypes
<1> QED
  BY <1>5, <1>6, <1>7 DEF PullAttributes

(***************************************************************************)
(* The parts of an entry of the finality data.                             *)
(***************************************************************************)
LEMMA EntryTypes ==
  ASSUME NEW data \in Seq(Entry), NEW i \in DOMAIN data
  PROVE  data[i].l2 \in Seq(Blocks) /\ data[i].l1 \in Seq(L1Contents)
<1>1. data[i] \in Entry
  OBVIOUS
<1> QED
  BY <1>1 DEF Entry

(***************************************************************************)
(* What making the next block safe does.                                   *)
(***************************************************************************)
LEMMA AdvanceFacts ==
  ASSUME ChainTypes, HeadTypes, FinalityOnSafe, Advances
  PROVE  /\ safeHead' \in Seq(Blocks) /\ IsPrefix(safeHead, safeHead')
         /\ finalityData' \in Seq(Entry) /\ Len(finalityData') <= finalityLookback
         /\ \A j \in DOMAIN finalityData' :
              \/ finalityData'[j] = [l2 |-> safeHead', l1 |-> origin]
              \/ \E i \in DOMAIN finalityData : finalityData'[j] = finalityData[i]
<1>1. PICK attrs \in safeAttributes :
        attrs.content \in Blocks /\ safeHead' = Append(safeHead, attrs.content)
  BY DEF Advances
<1>2. safeHead' \in Seq(Blocks) /\ IsPrefix(safeHead, safeHead')
  BY <1>1, AppendPrefix DEF HeadTypes
<1>3. /\ finalityData' = PostProcess(finalityData, safeHead', origin)
      /\ finalityData \in Seq(Entry) /\ Len(finalityData) <= finalityLookback
      /\ origin \in Seq(L1Contents)
      /\ \A i \in DOMAIN finalityData : IsPrefix(finalityData[i].l1, origin)
  BY DEF Advances, HeadTypes, ChainTypes, FinalityOnSafe
<1> DEFINE safe == safeHead'
<1>4. safe \in Seq(Blocks) /\ finalityData' = PostProcess(finalityData, safe, origin)
  BY <1>2, <1>3
<1> HIDE DEF safe
<1>5. /\ finalityData' \in Seq(Entry) /\ Len(finalityData') <= finalityLookback
      /\ \A j \in DOMAIN finalityData' :
           \/ finalityData'[j] = [l2 |-> safe, l1 |-> origin]
           \/ \E i \in DOMAIN finalityData : finalityData'[j] = finalityData[i]
  BY <1>3, <1>4, PostProcessFacts
<1> QED
  BY <1>2, <1>5 DEF safe

(***************************************************************************)
(* What a finality signal does.                                            *)
(***************************************************************************)
LEMMA SignalFacts ==
  ASSUME ChainTypes, HeadTypes, Finalize
  PROVE  /\ UNCHANGED <<l1, l1Final, prevOrigin, consumed, resetNeeded, safeHead, unsafeHead,
                        building, safeAttributes, finalityData, origin>>
         /\ finalizedL1' \in Seq(L1Contents) /\ Len(finalizedL1') \in 1 .. l1Final
         /\ finalizedL1' = Upto(l1, Len(finalizedL1'))
         /\ triedFinalizeAt' \in {triedFinalizeAt, Len(origin)}
         /\ needForkchoiceUpdate' \in BOOLEAN /\ (needForkchoiceUpdate => needForkchoiceUpdate')
         /\ \/ finalized' = finalized
            \/ /\ OnSameChain(finalizedL1')
               /\ \E i \in DOMAIN finalityData :
                    /\ finalized' = finalityData[i].l2 /\ Len(finalityData[i].l1) <= Len(finalizedL1')
                    /\ Len(finalized') > Len(finalized)
<1>1. PICK n \in 1 .. l1Final :
        /\ finalizedL1' = Upto(l1, n)
        /\ IF OnSameChain(Upto(l1, n))
             THEN TryFinalizeL2(finalityData, origin, Upto(l1, n))
             ELSE UNCHANGED <<finalized, triedFinalizeAt, needForkchoiceUpdate>>
  BY DEF Finalize
<1>2. l1 \in Seq(L1Contents) /\ n \in 0 .. Len(l1) /\ n \in 1 .. l1Final
  BY DEF ChainTypes
<1>3. finalizedL1' \in Seq(L1Contents) /\ Len(finalizedL1') = n
  BY <1>1, <1>2, UptoFacts
<1>4. UNCHANGED <<l1, l1Final, prevOrigin, consumed, resetNeeded, safeHead, unsafeHead,
                  building, safeAttributes, finalityData, origin>>
  BY DEF Finalize, l1Vars, prevVars
<1>5. finalityData \in Seq(Entry)
  BY DEF HeadTypes
<1>6. CASE OnSameChain(Upto(l1, n))
  <2> DEFINE signal == Upto(l1, n)
  <2>1. TryFinalizeL2(finalityData, origin, signal) /\ finalizedL1' = signal /\ OnSameChain(signal)
    BY <1>1, <1>6
  <2> HIDE DEF signal
  <2>2. /\ triedFinalizeAt' = Len(origin) /\ needForkchoiceUpdate' \in BOOLEAN
        /\ needForkchoiceUpdate => needForkchoiceUpdate'
        /\ \/ finalized' = finalized
           \/ \E i \in DOMAIN finalityData :
                /\ finalized' = finalityData[i].l2 /\ Len(finalityData[i].l1) <= Len(signal)
                /\ Len(finalized') > Len(finalized)
    BY <1>5, <2>1, TryFinalizeFacts
  <2> QED
    BY <1>1, <1>2, <1>3, <1>4, <2>1, <2>2
<1>7. CASE ~OnSameChain(Upto(l1, n))
  BY <1>1, <1>2, <1>3, <1>4, <1>7 DEF ChainTypes
<1> QED
  BY <1>6, <1>7

(***************************************************************************)
(* What a reset does: without late batches the safe head becomes the       *)
(* engine's finalized block.                                               *)
(***************************************************************************)
LEMMA ResetFacts ==
  ASSUME ChainTypes, HeadTypes, Reset
  PROVE  /\ safeHead' \in Seq(Blocks) /\ unsafeHead' \in Seq(Blocks) /\ IsPrefix(safeHead', unsafeHead')
         /\ IsPrefix(eFinal, safeHead') /\ (~LateBatches => safeHead' = eFinal)
         /\ prevOrigin' \in Seq(L1Contents) /\ IsPrefix(prevOrigin', l1)
         /\ origin' = prevOrigin' /\ IsPrefix(Derived(prevOrigin'), safeHead')
         /\ resetNeeded' = FALSE /\ needForkchoiceUpdate' = TRUE /\ consumed' = 0
         /\ finalized' = eFinal /\ building' = {} /\ safeAttributes' = {} /\ finalityData' = << >>
         /\ UNCHANGED <<l1, l1Final, finalizedL1, triedFinalizeAt, eHead, eSafe, eFinal>>
<1>1. PICK s \in SafeStarts, u \in Prefixes(eHead), o \in Prefixes(l1) :
        /\ IsPrefix(s, u) /\ IsPrefix(Derived(o), s)
        /\ safeHead' = s /\ unsafeHead' = u /\ origin' = o /\ prevOrigin' = o
  BY DEF Reset
<1>2. s \in Prefixes(eHead) /\ IsPrefix(eFinal, s) /\ (~LateBatches => s = eFinal)
  BY DEF SafeStarts
<1>3. s \in Seq(Blocks) /\ u \in Seq(Blocks) /\ o \in Seq(L1Contents) /\ IsPrefix(o, l1)
  BY <1>2, PrefixesFacts DEF HeadTypes, ChainTypes
<1> QED
  BY <1>1, <1>2, <1>3 DEF Reset, l1Vars, engineVars

(***************************************************************************)
(* The two flags stay flags.                                               *)
(***************************************************************************)
LEMMA StepMovesFlags ==
  ASSUME ChainTypes, HeadTypes, AttributesKept, FinalityOnSafe, [EQNext]_eqVars
  PROVE  resetNeeded' \in BOOLEAN /\ needForkchoiceUpdate' \in BOOLEAN
<1> USE DEF ChainTypes
<1>1. CASE PullAttributes
  BY <1>1, PullFacts
<1>2. CASE Finalize
  BY <1>2, SignalFacts
<1>3. CASE Reset
  BY <1>3, ResetFacts
<1>4. CASE tryUpdateEngine \/ InsertUnsafePayload \/ ForceAttributes
  BY <1>4 DEF tryUpdateEngine, InsertUnsafePayload, ForceAttributes
<1>5. CASE DropOldPayload \/ RejectUnsafePayload \/ MissingUnsafe \/ Consolidate \/ CorrectUnsafeHead
  BY <1>5 DEF DropOldPayload, RejectUnsafePayload, MissingUnsafe, Consolidate, CorrectUnsafeHead
<1>6. CASE RequestReset \/ L1Step \/ SequencerStart \/ SequencerComplete \/ UNCHANGED eqVars
           \/ \E p \in Payloads : AddUnsafePayload(p)
  BY <1>6 DEF RequestReset, L1Step, SequencerStart, SequencerComplete, eqVars, AddUnsafePayload
<1> QED
  BY <1>1, <1>2, <1>3, <1>4, <1>5, <1>6 DEF EQNext, Step

(***************************************************************************)
(* L1 keeps what it has finalized: a reorg drops later blocks only.        *)
(***************************************************************************)
LEMMA FinalGrows ==
  ASSUME ChainTypes, UNCHANGED l1Vars \/ L1Block \/ L1Finalizes
  PROVE  /\ l1' \in Seq(L1Contents) /\ l1Final' \in 0 .. Len(l1')
         /\ FinalL1 \in Seq(L1Contents) /\ FinalL1' \in Seq(L1Contents) /\ IsPrefix(FinalL1, FinalL1')
<1>1. l1 \in Seq(L1Contents) /\ Len(l1) \in Nat /\ l1Final \in 0 .. Len(l1)
  BY DEF ChainTypes
<1>2. /\ Upto(l1, l1Final) \in Seq(L1Contents) /\ Len(Upto(l1, l1Final)) = l1Final
      /\ IsPrefix(Upto(l1, l1Final), l1)
  BY <1>1, UptoFacts
<1>3. CASE UNCHANGED l1Vars
  <2>1. l1' = l1 /\ l1Final' = l1Final
    BY <1>3 DEF l1Vars
  <2>2. IsPrefix(Upto(l1, l1Final), Upto(l1, l1Final))
    BY <1>2, PrefixEnds
  <2> QED
    BY <1>1, <1>2, <2>1, <2>2 DEF FinalL1
<1>4. CASE L1Block
  <2>1. PICK n \in l1Final .. Len(l1), c \in L1Contents : l1' = Append(Upto(l1, n), c)
    BY <1>4 DEF L1Block
  <2>2. l1Final' = l1Final
    BY <1>4 DEF L1Block
  <2>3. n \in 0 .. Len(l1) /\ l1Final <= n
    BY <1>1, <2>1
  <2> DEFINE u == Upto(l1, n)
             f == Upto(l1, l1Final)
  <2>4. u \in Seq(L1Contents) /\ Len(u) = n /\ IsPrefix(u, l1) /\ l1' = Append(u, c)
    BY <1>1, <2>1, <2>3, UptoFacts
  <2>5. f \in Seq(L1Contents) /\ Len(f) = l1Final /\ IsPrefix(f, l1)
    BY <1>2
  <2> HIDE DEF u, f
  <2>6. IsPrefix(f, u)
    BY <1>1, <2>3, <2>4, <2>5, PrefixesCompare
  <2>7. l1' \in Seq(L1Contents) /\ Len(l1') = n + 1 /\ IsPrefix(u, l1')
    BY <2>4, AppendPrefix
  <2> DEFINE next == l1'
  <2>8. next \in Seq(L1Contents) /\ Len(next) = n + 1 /\ IsPrefix(u, next)
    BY <2>7
  <2> HIDE DEF next
  <2>9. IsPrefix(f, next)
    BY <2>4, <2>5, <2>6, <2>8, PrefixTrans
  <2>10. f = Upto(next, l1Final)
    BY <2>5, <2>8, <2>9, PrefixIsUpto
  <2>11. FinalL1' = f /\ FinalL1 = f
    BY <2>2, <2>10 DEF FinalL1, f, next
  <2>12. l1Final \in 0 .. Len(next) /\ IsPrefix(f, f)
    BY <1>1, <2>3, <2>5, <2>8, PrefixEnds
  <2> QED
    BY <2>2, <2>5, <2>7, <2>11, <2>12 DEF next
<1>5. CASE L1Finalizes
  <2>1. l1' = l1 /\ l1Final' = l1Final + 1 /\ l1Final + 1 \in 0 .. Len(l1)
    BY <1>1, <1>5 DEF L1Finalizes
  <2>2. /\ Upto(l1, l1Final + 1) \in Seq(L1Contents) /\ Len(Upto(l1, l1Final + 1)) = l1Final + 1
        /\ IsPrefix(Upto(l1, l1Final + 1), l1)
    BY <1>1, <2>1, UptoFacts
  <2>3. IsPrefix(Upto(l1, l1Final), Upto(l1, l1Final + 1))
    BY <1>1, <1>2, <2>2, PrefixesCompare
  <2> QED
    BY <1>1, <1>2, <2>1, <2>2, <2>3 DEF FinalL1
<1> QED
  BY <1>3, <1>4, <1>5

(***************************************************************************)
(* A step keeps the types, the attributes fresh, and what is or can be     *)
(* finalized on the chain of the safe head.                                *)
(***************************************************************************)
LEMMA StepKeepsTypes ==
  ASSUME PQTypeOK, ChainTypes, HeadTypes, AttributesKept, FinalityOnSafe, [EQNext]_eqVars
  PROVE  ChainTypes' /\ HeadTypes' /\ AttributesKept' /\ FinalityOnSafe'
<1>1. /\ eHead' \in Seq(Blocks) /\ eSafe' \in Seq(Blocks) /\ eFinal' \in Seq(Blocks)
      /\ unsafeHead' \in Seq(Blocks)
      /\ \A job \in building' : /\ job.onto \in Seq(Blocks) /\ job.content \in Contents
                                /\ job.safe \in BOOLEAN /\ (~job.safe => job.content \in Blocks)
  BY StepMovesUnsafe DEF HeadTypes
<1>2. resetNeeded' \in BOOLEAN /\ needForkchoiceUpdate' \in BOOLEAN
  BY StepMovesFlags
<1>3. /\ l1 \in Seq(L1Contents) /\ l1Final \in 0 .. Len(l1)
      /\ prevOrigin \in Seq(L1Contents) /\ origin \in Seq(L1Contents)
      /\ finalizedL1 \in Seq(L1Contents)
      /\ consumed \in Nat /\ triedFinalizeAt \in Nat \cup {Never}
      /\ finalized \in Seq(Blocks) /\ safeHead \in Seq(Blocks) /\ eFinal \in Seq(Blocks)
      /\ finalityData \in Seq(Entry) /\ Len(finalityData) <= finalityLookback
  BY DEF ChainTypes, HeadTypes
<1>4. /\ \A attrs \in safeAttributes : attrs.parent = safeHead /\ attrs.content \in Contents
      /\ IsPrefix(origin, prevOrigin) /\ (safeAttributes # {} => origin = prevOrigin)
      /\ IsPrefix(finalized, safeHead)
      /\ \A i \in DOMAIN finalityData :
           IsPrefix(finalityData[i].l2, safeHead) /\ IsPrefix(finalityData[i].l1, origin)
  BY DEF AttributesKept, FinalityOnSafe
<1> DEFINE Chain == /\ l1' \in Seq(L1Contents) /\ l1Final' \in 0 .. Len(l1')
                    /\ prevOrigin' \in Seq(L1Contents) /\ origin' \in Seq(L1Contents)
                    /\ finalizedL1' \in Seq(L1Contents)
                    /\ consumed' \in Nat /\ triedFinalizeAt' \in Nat \cup {Never}
           Ends == /\ finalized' \in Seq(Blocks) /\ safeHead' \in Seq(Blocks)
                   /\ finalityData' \in Seq(Entry) /\ Len(finalityData') <= finalityLookback
<1>5. SUFFICES Chain /\ Ends /\ AttributesKept' /\ FinalityOnSafe'
  BY <1>1, <1>2 DEF ChainTypes, HeadTypes
<1>6. CASE Still /\ (UNCHANGED l1Vars \/ L1Block \/ L1Finalizes)
  <2>1. l1' \in Seq(L1Contents) /\ l1Final' \in 0 .. Len(l1')
    BY <1>6, FinalGrows
  <2> QED
    BY <1>3, <1>4, <1>6, <2>1 DEF Still, prevVars, finalityVars, AttributesKept, FinalityOnSafe
<1>7. CASE Advances
  <2>1. /\ safeHead' \in Seq(Blocks) /\ IsPrefix(safeHead, safeHead')
        /\ finalityData' \in Seq(Entry) /\ Len(finalityData') <= finalityLookback
        /\ \A j \in DOMAIN finalityData' :
              \/ finalityData'[j] = [l2 |-> safeHead', l1 |-> origin]
              \/ \E i \in DOMAIN finalityData : finalityData'[j] = finalityData[i]
    BY <1>7, AdvanceFacts
  <2>2. UNCHANGED <<l1, l1Final, prevOrigin, consumed, finalized, finalizedL1, triedFinalizeAt, origin>>
        /\ safeAttributes' = {}
    BY <1>7 DEF Advances, l1Vars, prevVars
  <2>3. IsPrefix(finalized, safeHead')
    BY <1>3, <1>4, <2>1, PrefixTrans
  <2>4. ASSUME NEW j \in DOMAIN finalityData'
        PROVE  IsPrefix(finalityData'[j].l2, safeHead') /\ IsPrefix(finalityData'[j].l1, origin')
    <3>1. CASE finalityData'[j] = [l2 |-> safeHead', l1 |-> origin]
      BY <1>3, <2>1, <2>2, <3>1, PrefixEnds
    <3>2. CASE \E i \in DOMAIN finalityData : finalityData'[j] = finalityData[i]
      <4>1. PICK i \in DOMAIN finalityData : finalityData'[j] = finalityData[i]
        BY <3>2
      <4>2. finalityData[i].l2 \in Seq(Blocks) /\ IsPrefix(finalityData[i].l2, safeHead)
        BY <1>3, <1>4, EntryTypes
      <4>3. IsPrefix(finalityData[i].l2, safeHead')
        BY <1>3, <2>1, <4>2, PrefixTrans
      <4> QED
        BY <1>4, <2>2, <4>1, <4>3
    <3> QED
      BY <2>1, <3>1, <3>2
  <2> QED
    BY <1>3, <1>4, <2>1, <2>2, <2>3, <2>4 DEF AttributesKept, FinalityOnSafe
<1>8. CASE Rejects
  BY <1>3, <1>4, <1>8 DEF Rejects, l1Vars, prevVars, finalityVars, AttributesKept, FinalityOnSafe
<1>9. CASE PullAttributes
  <2>1. /\ safeAttributes = {} /\ origin' = prevOrigin
        /\ UNCHANGED <<l1, l1Final, safeHead, finalizedL1>>
        /\ finalityData' \in Seq(Entry) /\ Len(finalityData') <= finalityLookback
        /\ \A j \in DOMAIN finalityData' :
             \/ finalityData'[j] = [l2 |-> safeHead, l1 |-> prevOrigin]
             \/ \E i \in DOMAIN finalityData : finalityData'[j] = finalityData[i]
        /\ \/ finalized' = finalized
           \/ \E i \in DOMAIN finalityData' : finalized' = finalityData'[i].l2
        /\ triedFinalizeAt' \in {triedFinalizeAt, Len(prevOrigin)}
        /\ UNCHANGED <<prevOrigin, consumed, safeAttributes>> \/ Takes \/ GoesOn
    BY <1>9, PullFacts
  <2>2. ASSUME NEW j \in DOMAIN finalityData'
        PROVE  IsPrefix(finalityData'[j].l2, safeHead) /\ IsPrefix(finalityData'[j].l1, prevOrigin)
    <3>1. CASE finalityData'[j] = [l2 |-> safeHead, l1 |-> prevOrigin]
      BY <1>3, <3>1, PrefixEnds
    <3>2. CASE \E i \in DOMAIN finalityData : finalityData'[j] = finalityData[i]
      <4>1. PICK i \in DOMAIN finalityData : finalityData'[j] = finalityData[i]
        BY <3>2
      <4>2. finalityData[i].l1 \in Seq(L1Contents) /\ IsPrefix(finalityData[i].l1, origin)
        BY <1>3, <1>4, EntryTypes
      <4>3. IsPrefix(finalityData[i].l1, prevOrigin)
        BY <1>3, <1>4, <4>2, PrefixTrans
      <4> QED
        BY <1>4, <4>1, <4>3
    <3> QED
      BY <2>1, <3>1, <3>2
  <2>3. IsPrefix(finalized', safeHead) /\ finalized' \in Seq(Blocks)
    <3>1. CASE finalized' = finalized
      BY <1>3, <1>4, <3>1
    <3>2. CASE \E i \in DOMAIN finalityData' : finalized' = finalityData'[i].l2
      <4>1. PICK i \in DOMAIN finalityData' : finalized' = finalityData'[i].l2
        BY <3>2
      <4> DEFINE data == finalityData'
      <4>2. data \in Seq(Entry) /\ i \in DOMAIN data /\ finalized' = data[i].l2
        BY <2>1, <4>1
      <4> HIDE DEF data
      <4>3. finalized' \in Seq(Blocks)
        BY <4>2, EntryTypes
      <4> QED
        BY <2>2, <4>1, <4>3
    <3> QED
      BY <2>1, <3>1, <3>2
  <2>4. triedFinalizeAt' \in Nat \cup {Never}
    BY <1>3, <2>1
  <2>5. CASE UNCHANGED <<prevOrigin, consumed, safeAttributes>>
    <3>1. IsPrefix(prevOrigin, prevOrigin)
      BY <1>3, PrefixEnds
    <3> QED
      BY <1>3, <2>1, <2>2, <2>3, <2>4, <2>5, <3>1 DEF AttributesKept, FinalityOnSafe
  <2>6. CASE Takes
    <3>1. IsPrefix(prevOrigin, prevOrigin)
      BY <1>3, PrefixEnds
    <3> DEFINE attributes == Attributes(prevOrigin)
    <3>2. attributes \in Seq(Contents)
      BY <1>3, <3>1, AttributesGrow
    <3> HIDE DEF attributes
    <3>3. consumed' \in Nat /\ attributes[consumed'] \in Contents
      <4>1. consumed' \in consumed + 1 .. Len(attributes) /\ Len(attributes) \in Nat
        BY <2>6, <3>2 DEF Takes, attributes
      <4>2. consumed' \in 1 .. Len(attributes)
        BY <1>3, <4>1
      <4> QED
        BY <3>2, <4>2
    <3>4. \A attrs \in safeAttributes' : attrs.parent = safeHead /\ attrs.content \in Contents
      BY <2>6, <3>3 DEF Takes, attributes
    <3>5. prevOrigin' = prevOrigin
      BY <2>6 DEF Takes
    <3> QED
      BY <1>3, <2>1, <2>2, <2>3, <2>4, <3>1, <3>3, <3>4, <3>5 DEF AttributesKept, FinalityOnSafe
  <2>7. CASE GoesOn
    <3>1. /\ IsPrefix(prevOrigin, l1) /\ Len(prevOrigin) + 1 \in 0 .. Len(l1)
          /\ prevOrigin' = Upto(l1, Len(prevOrigin) + 1)
          /\ UNCHANGED <<consumed, safeAttributes>>
      BY <1>3, <2>7 DEF GoesOn, OnCanonicalL1
    <3>2. /\ prevOrigin' \in Seq(L1Contents) /\ Len(prevOrigin') = Len(prevOrigin) + 1
          /\ IsPrefix(prevOrigin', l1) /\ Len(prevOrigin) \in Nat
      BY <1>3, <3>1, UptoFacts
    <3> DEFINE next == prevOrigin'
    <3>3. next \in Seq(L1Contents) /\ Len(prevOrigin) <= Len(next) /\ IsPrefix(next, l1)
      BY <3>2
    <3> HIDE DEF next
    <3>4. IsPrefix(prevOrigin, next)
      BY <1>3, <3>1, <3>3, PrefixesCompare
    <3> QED
      BY <1>3, <2>1, <2>2, <2>3, <2>4, <3>1, <3>3, <3>4 DEF AttributesKept, FinalityOnSafe, next
  <2> QED
    BY <2>1, <2>5, <2>6, <2>7
<1>10. CASE Reset
  <2>1. /\ safeHead' \in Seq(Blocks) /\ IsPrefix(eFinal, safeHead')
        /\ prevOrigin' \in Seq(L1Contents) /\ origin' = prevOrigin' /\ consumed' = 0
        /\ finalized' = eFinal /\ safeAttributes' = {} /\ finalityData' = << >>
        /\ UNCHANGED <<l1, l1Final, finalizedL1, triedFinalizeAt>>
    BY <1>10, ResetFacts
  <2>2. /\ finalityData' \in Seq(Entry) /\ Len(finalityData') <= finalityLookback
        /\ DOMAIN finalityData' = {}
    <3>1. << >> \in Seq(Entry) /\ Len(<< >>) = 0 /\ DOMAIN << >> = {}
      OBVIOUS
    <3> QED
      BY <2>1, <3>1, EngineQueueAssumption
  <2>3. IsPrefix(origin', prevOrigin')
    BY <2>1, PrefixEnds
  <2> QED
    BY <1>3, <2>1, <2>2, <2>3 DEF AttributesKept, FinalityOnSafe
<1>11. CASE Finalize
  <2>1. /\ UNCHANGED <<l1, l1Final, prevOrigin, consumed, safeHead, safeAttributes, finalityData, origin>>
        /\ finalizedL1' \in Seq(L1Contents)
        /\ triedFinalizeAt' \in {triedFinalizeAt, Len(origin)}
        /\ \/ finalized' = finalized
           \/ \E i \in DOMAIN finalityData : finalized' = finalityData[i].l2
    BY <1>11, SignalFacts
  <2>2. IsPrefix(finalized', safeHead) /\ finalized' \in Seq(Blocks)
    BY <1>3, <1>4, <2>1, EntryTypes
  <2>3. triedFinalizeAt' \in Nat \cup {Never}
    BY <1>3, <2>1
  <2> QED
    BY <1>3, <1>4, <2>1, <2>2, <2>3 DEF AttributesKept, FinalityOnSafe
<1>12. SafeMoves
  BY StepMovesSafe
<1> QED
  BY <1>6, <1>7, <1>8, <1>9, <1>10, <1>11, <1>12 DEF SafeMoves

(***************************************************************************)
(* Of two heads on one chain, the shorter one is an ancestor of the other. *)
(***************************************************************************)
LEMMA ComparableOrder ==
  ASSUME NEW s \in Seq(Blocks), NEW u \in Seq(Blocks), Comparable(s, u)
  PROVE  Len(u) < Len(s) => IsPrefix(u, s)
<1>1. Len(s) \in Nat /\ Len(u) \in Nat
  OBVIOUS
<1> QED
  BY <1>1, PrefixIs DEF Comparable

(***************************************************************************)
(* A step keeps the safe and the unsafe head on one chain, or leaves a     *)
(* forkchoice update or a reset pending.                                   *)
(***************************************************************************)
LEMMA StepKeepsHeadsApart ==
  ASSUME PQTypeOK, ChainTypes, HeadTypes, AttributesKept, FinalityOnSafe, HeadsApart,
         [EQNext]_eqVars
  PROVE  HeadsApart'
<1>1. /\ unsafeHead \in Seq(Blocks) /\ safeHead \in Seq(Blocks) /\ finalized \in Seq(Blocks)
      /\ unsafeHead' \in Seq(Blocks) /\ safeHead' \in Seq(Blocks)
      /\ Len(safeHead) \in Nat /\ Len(unsafeHead) \in Nat
      /\ resetNeeded \in BOOLEAN /\ needForkchoiceUpdate \in BOOLEAN
  <2>1. HeadTypes'
    BY StepKeepsTypes
  <2> QED
    BY <2>1, SMTT(30) DEF HeadTypes, ChainTypes
<1>2. ASSUME UNCHANGED <<safeHead, unsafeHead>>,
             needForkchoiceUpdate \/ resetNeeded => needForkchoiceUpdate' \/ resetNeeded'
      PROVE  HeadsApart'
  BY <1>2 DEF HeadsApart
<1>3. ASSUME Comparable(safeHead', unsafeHead') PROVE HeadsApart'
  <2> DEFINE s == safeHead'
             u == unsafeHead'
  <2>1. s \in Seq(Blocks) /\ u \in Seq(Blocks) /\ Comparable(s, u)
    BY <1>1, <1>3
  <2> HIDE DEF s, u
  <2>2. Len(u) < Len(s) => IsPrefix(u, s)
    BY <2>1, ComparableOrder
  <2> QED
    BY <2>1, <2>2 DEF HeadsApart, s, u
<1>4. ASSUME safeHead' = unsafeHead' PROVE HeadsApart'
  <2>1. IsPrefix(safeHead', safeHead')
    BY <1>1, PrefixEnds
  <2> QED
    BY <1>3, <1>4, <2>1 DEF Comparable
<1>5. CASE PullAttributes
  <2>1. UNCHANGED <<safeHead, unsafeHead>> /\ Stepping
    BY <1>5 DEF PullAttributes, PassUnsafePayloads
  <2> QED
    BY <1>2, <2>1 DEF Stepping
<1>6. CASE Finalize
  <2>1. UNCHANGED <<safeHead, unsafeHead, resetNeeded>> /\ (needForkchoiceUpdate => needForkchoiceUpdate')
    BY <1>6, SignalFacts
  <2> QED
    BY <1>2, <2>1
<1>7. CASE Reset
  <2>1. IsPrefix(safeHead', unsafeHead')
    BY <1>7, ResetFacts
  <2> QED
    BY <1>3, <2>1 DEF Comparable
<1>8. CASE DropOldPayload \/ RejectUnsafePayload \/ MissingUnsafe
  BY <1>2, <1>8 DEF DropOldPayload, RejectUnsafePayload, MissingUnsafe
<1>9. CASE RequestReset \/ L1Step \/ SequencerStart \/ UNCHANGED eqVars
           \/ \E p \in Payloads : AddUnsafePayload(p)
  BY <1>2, <1>9 DEF RequestReset, L1Step, SequencerStart, eqVars, AddUnsafePayload
<1>10. CASE tryUpdateEngine
  <2> DEFINE fc == ForkchoiceUpdate(unsafeHead, safeHead, finalized)
  <2>1. /\ UNCHANGED <<safeHead, unsafeHead>>
        /\ fc.valid \/ resetNeeded'
    BY <1>10 DEF tryUpdateEngine
  <2>2. fc.valid => Comparable(safeHead, unsafeHead)
    BY <1>1, ForkchoiceFacts
  <2> HIDE DEF fc
  <2>3. CASE fc.valid
    BY <1>3, <2>1, <2>2, <2>3
  <2>4. CASE resetNeeded'
    BY <1>2, <2>1, <2>4
  <2> QED
    BY <2>1, <2>3, <2>4
<1>11. CASE InsertUnsafePayload
  <2>1. PICK first \in Lowest(pq) :
           /\ ExtendsUnsafe(first) /\ UNCHANGED safeHead
           /\ \/ /\ ForkchoiceUpdate(first, safeHead, finalized).valid
                 /\ unsafeHead' = first
              \/ UNCHANGED <<unsafeHead, resetNeeded, needForkchoiceUpdate>>
              \/ resetNeeded' /\ UNCHANGED unsafeHead
    BY <1>11 DEF InsertUnsafePayload
  <2>2. first \in Seq(Blocks)
    BY EngineQueueAssumption DEF Lowest, PQTypeOK, Blocks
  <2>3. ForkchoiceUpdate(first, safeHead, finalized).valid => Comparable(safeHead, first)
    BY <1>1, <2>2, ForkchoiceFacts
  <2>4. CASE ForkchoiceUpdate(first, safeHead, finalized).valid /\ unsafeHead' = first
    BY <1>3, <2>1, <2>3, <2>4
  <2>5. CASE UNCHANGED <<unsafeHead, resetNeeded, needForkchoiceUpdate>>
    BY <1>2, <2>1, <2>5
  <2>6. CASE resetNeeded' /\ UNCHANGED unsafeHead
    BY <1>2, <2>1, <2>6
  <2> QED
    BY <2>1, <2>4, <2>5, <2>6
<1>12. CASE Consolidate
  <2>1. PICK attrs \in safeAttributes : Matches(attrs)
    BY <1>12 DEF Consolidate
  <2>2. /\ Len(safeHead) < Len(unsafeHead) /\ unsafeHead' = unsafeHead /\ needForkchoiceUpdate'
        /\ safeHead' = Append(safeHead, attrs.content)
    BY <1>12, <2>1 DEF Consolidate, Matches
  <2>3. Len(safeHead') = Len(safeHead) + 1
    BY <1>1, <2>2
  <2>4. ~(Len(unsafeHead') < Len(safeHead'))
    BY <1>1, <2>2, <2>3
  <2> QED
    BY <2>2, <2>4 DEF HeadsApart
<1>13. CASE ForceAttributes
  <2>1. PICK attrs \in safeAttributes :
          \/ Confirmed([onto |-> safeHead, content |-> attrs.content, safe |-> TRUE])
          \/ UNCHANGED <<safeHead, unsafeHead, resetNeeded>>
          \/ resetNeeded' /\ UNCHANGED <<safeHead, unsafeHead>>
    BY <1>13 DEF ForceAttributes
  <2>2. UNCHANGED needForkchoiceUpdate
    BY <1>13 DEF ForceAttributes
  <2>3. CASE Confirmed([onto |-> safeHead, content |-> attrs.content, safe |-> TRUE])
    BY <1>4, <2>3 DEF Confirmed
  <2>4. CASE UNCHANGED <<safeHead, unsafeHead, resetNeeded>>
    BY <1>2, <2>2, <2>4
  <2>5. CASE resetNeeded' /\ UNCHANGED <<safeHead, unsafeHead>>
    BY <1>2, <2>5
  <2> QED
    BY <2>1, <2>3, <2>4, <2>5
<1>14. CASE CorrectUnsafeHead
  BY <1>4, <1>14 DEF CorrectUnsafeHead
<1>15. CASE SequencerComplete
  <2>1. PICK job \in building :
           /\ ~job.safe
           /\ (ConfirmFC(job).valid /\ Confirmed(job)) \/ UNCHANGED <<safeHead, unsafeHead>>
    BY <1>15 DEF SequencerComplete
  <2>2. UNCHANGED <<resetNeeded, needForkchoiceUpdate>>
    BY <1>15 DEF SequencerComplete
  <2>3. CASE ConfirmFC(job).valid /\ Confirmed(job)
    <3>1. safeHead' = safeHead /\ unsafeHead' = JobBlock(job)
      BY <2>1, <2>3 DEF Confirmed
    <3>2. ConfirmFC(job) = ForkchoiceUpdate(JobBlock(job), safeHead, finalized)
      BY <2>1 DEF ConfirmFC
    <3>3. JobBlock(job) \in Seq(Blocks)
      BY <1>1, <3>1
    <3>4. Comparable(safeHead, JobBlock(job))
      BY <1>1, <2>3, <3>2, <3>3, ForkchoiceFacts
    <3> QED
      BY <1>3, <3>1, <3>4
  <2>4. CASE UNCHANGED <<safeHead, unsafeHead>>
    BY <1>2, <2>2, <2>4
  <2> QED
    BY <2>1, <2>3, <2>4
<1> QED
  BY <1>5, <1>6, <1>7, <1>8, <1>9, <1>10, <1>11, <1>12, <1>13, <1>14, <1>15 DEF EQNext, Step

(***************************************************************************)
(* EQInv is inductive.                                                     *)
(***************************************************************************)
LEMMA EQInvInductive ==
  /\ EQInit => EQInv
  /\ EQInv /\ [EQNext]_eqVars => EQInv'
<1>1. EQInit => EQInv
  <2> SUFFICES ASSUME EQInit PROVE EQInv
    OBVIOUS
  <2>1. PQInv
    BY PQInvInductive DEF EQInit
  <2>2. /\ \A S : Genesis \in Seq(S) /\ Len(Genesis) = 0 /\ DOMAIN Genesis = {}
        /\ 0 \in 0 .. 0
    BY DEF Genesis
  <2>3. ChainTypes
    BY <2>2 DEF EQInit, ChainTypes
  <2>4. HeadTypes
    BY <2>2, EngineQueueAssumption DEF EQInit, HeadTypes, Genesis
  <2>5. IsPrefix(Genesis, Genesis)
    <3>1. Genesis \in Seq({})
      BY <2>2
    <3> QED
      BY <3>1, PrefixEnds
  <2>6. AttributesKept /\ FinalityOnSafe /\ HeadsApart
    BY <2>2, <2>5 DEF EQInit, AttributesKept, FinalityOnSafe, HeadsApart, Comparable, Genesis
  <2> QED
    BY <2>1, <2>3, <2>4, <2>6 DEF EQInv
<1>2. EQInv /\ [EQNext]_eqVars => EQInv'
  <2> SUFFICES ASSUME EQInv, [EQNext]_eqVars PROVE EQInv'
    OBVIOUS
  <2>1. /\ PQInv /\ PQTypeOK /\ ChainTypes /\ HeadTypes /\ AttributesKept /\ FinalityOnSafe
        /\ HeadsApart
    BY DEF EQInv, PQInv
  <2>2. PQInv'
    BY <2>1, StepMovesPayloads, PQInvInductive
  <2>3. ChainTypes' /\ HeadTypes' /\ AttributesKept' /\ FinalityOnSafe'
    BY <2>1, StepKeepsTypes
  <2>4. HeadsApart'
    BY <2>1, StepKeepsHeadsApart
  <2> QED
    BY <2>2, <2>3, <2>4 DEF EQInv
<1> QED
  BY <1>1, <1>2

-----------------------------------------------------------------------------
(***************************************************************************)
(* Two ancestors of one block are on one chain.                            *)
(***************************************************************************)
LEMMA OneChain ==
  ASSUME NEW s \in Seq(Blocks), NEW t \in Seq(Blocks), NEW u \in Seq(Blocks),
         IsPrefix(s, u), IsPrefix(t, u)
  PROVE  Comparable(s, t)
<1>1. Len(s) \in Nat /\ Len(t) \in Nat
  OBVIOUS
<1>2. CASE Len(s) <= Len(t)
  BY <1>2, PrefixesCompare DEF Comparable
<1>3. CASE Len(t) <= Len(s)
  BY <1>3, PrefixesCompare DEF Comparable
<1> QED
  BY <1>1, <1>2, <1>3

(***************************************************************************)
(* What derives from a chain, and from the first attributes of it.         *)
(***************************************************************************)
LEMMA DerivedParts ==
  ASSUME NEW chain \in Seq(L1Contents)
  PROVE  /\ Attributes(chain) \in Seq(Contents) /\ Derived(chain) \in Seq(Blocks)
         /\ \A n \in 0 .. Len(Attributes(chain)) :
              /\ Accepted(Upto(Attributes(chain), n)) \in Seq(Blocks)
              /\ IsPrefix(Accepted(Upto(Attributes(chain), n)), Derived(chain))
<1>1. IsPrefix(chain, chain)
  BY PrefixEnds
<1>2. Attributes(chain) \in Seq(Contents)
  BY <1>1, AttributesGrow
<1>3. Derived(chain) \in Seq(Blocks)
  BY <1>1, DerivedGrows DEF Blocks
<1> DEFINE a == Attributes(chain)
<1>4. a \in Seq(Contents) /\ Derived(chain) = Accepted(a)
  BY <1>2 DEF Derived
<1> HIDE DEF a
<1>5. ASSUME NEW n \in 0 .. Len(a)
      PROVE  Accepted(Upto(a, n)) \in Seq(Blocks) /\ IsPrefix(Accepted(Upto(a, n)), Accepted(a))
  <2> DEFINE u == Upto(a, n)
  <2>1. u \in Seq(Contents) /\ IsPrefix(u, a)
    BY <1>4, UptoFacts
  <2> HIDE DEF u
  <2>2. Accepted(u) \in Seq(Blocks) /\ IsPrefix(Accepted(u), Accepted(a))
    BY <1>4, <2>1, AcceptedGrows DEF Blocks
  <2> QED
    BY <2>2 DEF u
<1>6. \A n \in 0 .. Len(a) : /\ Accepted(Upto(a, n)) \in Seq(Blocks)
                             /\ IsPrefix(Accepted(Upto(a, n)), Derived(chain))
  BY <1>4, <1>5
<1> QED
  BY <1>2, <1>3, <1>6 DEF a

(***************************************************************************)
(* The next of the attributes is accepted or not.                          *)
(***************************************************************************)
LEMMA DerivedNext ==
  ASSUME NEW chain \in Seq(L1Contents), NEW n \in 1 .. Len(Attributes(chain))
  PROVE  Accepted(Upto(Attributes(chain), n))
           = Keep(Accepted(Upto(Attributes(chain), n - 1)), Attributes(chain)[n])
<1> DEFINE a == Attributes(chain)
<1>1. a \in Seq(Contents) /\ n \in 1 .. Len(a)
  BY DerivedParts
<1> HIDE DEF a
<1>2. Accepted(Upto(a, n)) = Keep(Accepted(Upto(a, n - 1)), a[n])
  BY <1>1, AcceptedSteps
<1> QED
  BY <1>2 DEF a

(***************************************************************************)
(* The first attributes of a longer chain are the same.                    *)
(***************************************************************************)
LEMMA SameFirstAttributes ==
  ASSUME NEW a \in Seq(L1Contents), NEW b \in Seq(L1Contents), IsPrefix(a, b),
         NEW n \in 0 .. Len(Attributes(a))
  PROVE  /\ n \in 0 .. Len(Attributes(b))
         /\ Upto(Attributes(b), n) = Upto(Attributes(a), n)
<1> DEFINE s == Attributes(a)
           t == Attributes(b)
<1>1. s \in Seq(Contents) /\ t \in Seq(Contents) /\ IsPrefix(s, t) /\ n \in 0 .. Len(s)
  BY AttributesGrow
<1> HIDE DEF s, t
<1>2. Len(s) <= Len(t) /\ \A i \in 1 .. Len(s) : s[i] = t[i]
  BY <1>1, PrefixIs
<1>3. n \in 0 .. Len(t) /\ n \in Nat /\ Len(s) \in Nat /\ Len(t) \in Nat
  BY <1>1, <1>2
<1>4. /\ Upto(s, n) \in Seq(Contents) /\ Len(Upto(s, n)) = n /\ \A i \in 1 .. n : Upto(s, n)[i] = s[i]
      /\ Upto(t, n) \in Seq(Contents) /\ Len(Upto(t, n)) = n /\ \A i \in 1 .. n : Upto(t, n)[i] = t[i]
  BY <1>1, <1>3, UptoFacts
<1>5. \A i \in 1 .. n : Upto(s, n)[i] = Upto(t, n)[i]
  BY <1>1, <1>2, <1>3, <1>4
<1> DEFINE p == Upto(s, n)
           q == Upto(t, n)
<1>6. p = q
  <2>1. p \in Seq(Contents) /\ q \in Seq(Contents) /\ Len(p) = n /\ Len(q) = n
        /\ \A i \in 1 .. n : p[i] = q[i]
    BY <1>4, <1>5
  <2> HIDE DEF p, q
  <2> QED
    BY <2>1, SeqEqual
<1> QED
  BY <1>3, <1>6 DEF s, t

(***************************************************************************)
(* The safe head has been derived: it is final, or derives from the L1     *)
(* blocks that the stages before have seen.                                *)
(***************************************************************************)
LEMMA SafeOrigin ==
  ASSUME ChainTypes, HeadTypes, SafeFollows
  PROVE  /\ IsPrefix(safeHead, FinalL2) \/ IsPrefix(safeHead, Derived(prevOrigin))
         /\ Comparable(safeHead, Derived(prevOrigin))
<1>1. prevOrigin \in Seq(L1Contents) /\ consumed \in Nat
  BY DEF ChainTypes
<1>2. CASE CatchingUp
  BY <1>2 DEF CatchingUp
<1>3. CASE Following
  <2>1. consumed \in 0 .. Len(Attributes(prevOrigin))
    <3>1. Len(Attributes(prevOrigin)) \in Nat
      BY <1>1, DerivedParts
    <3> QED
      BY <1>1, <1>3, <3>1 DEF Following
  <2>2. IsPrefix(safeHead, Derived(prevOrigin))
    BY <1>1, <1>3, <2>1, DerivedParts DEF Following
  <2> QED
    BY <2>2 DEF Comparable
<1>4. CASE Buffering
  <2>1. consumed - 1 \in 0 .. Len(Attributes(prevOrigin))
    <3>1. Len(Attributes(prevOrigin)) \in Nat /\ consumed \in 1 .. Len(Attributes(prevOrigin))
      BY <1>1, <1>4, DerivedParts DEF Buffering
    <3> QED
      BY <3>1
  <2>2. IsPrefix(safeHead, Derived(prevOrigin))
    BY <1>1, <1>4, <2>1, DerivedParts DEF Buffering
  <2> QED
    BY <2>2 DEF Comparable
<1> QED
  BY <1>2, <1>3, <1>4 DEF SafeFollows

(***************************************************************************)
(* A new safe block is the next one that derives, and rejected attributes  *)
(* add none.                                                               *)
(***************************************************************************)
LEMMA NextFollows ==
  ASSUME ChainTypes, HeadTypes, SafeFollows, Advances \/ Rejects
  PROVE  Following'
<1>1. /\ safeAttributes # {} /\ safeAttributes' = {} /\ prevOrigin' = prevOrigin /\ consumed' = consumed
  BY DEF Advances, Rejects, prevVars
<1>2. Buffering
  BY <1>1 DEF SafeFollows, CatchingUp, Following
<1> DEFINE a == Attributes(prevOrigin)
<1>3. /\ a \in Seq(Contents) /\ consumed \in 1 .. Len(a) /\ Len(a) \in Nat
      /\ \A attrs \in safeAttributes : attrs.content = a[consumed]
      /\ safeHead = Accepted(Upto(a, consumed - 1))
  BY <1>2, DerivedParts DEF Buffering, ChainTypes
<1>4. Accepted(Upto(a, consumed)) = Keep(Accepted(Upto(a, consumed - 1)), a[consumed])
  BY <1>3, DerivedNext DEF ChainTypes
<1> HIDE DEF a
<1>5. safeHead' = Keep(safeHead, a[consumed])
  <2>1. CASE Advances
    <3>1. PICK attrs \in safeAttributes :
            attrs.content \in Blocks /\ safeHead' = Append(safeHead, attrs.content)
      BY <2>1 DEF Advances
    <3>2. attrs.content = a[consumed] /\ attrs.content \notin Invalid
      BY <1>3, <3>1 DEF Blocks
    <3> QED
      BY <3>1, <3>2 DEF Keep
  <2>2. CASE Rejects
    <3>1. a[consumed] \in Invalid /\ safeHead' = safeHead
      BY <1>3, <2>2 DEF Rejects
    <3> QED
      BY <3>1 DEF Keep
  <2> QED
    BY <2>1, <2>2
<1>6. safeHead' = Accepted(Upto(a, consumed))
  BY <1>3, <1>4, <1>5
<1>7. consumed <= Len(a)
  BY <1>3
<1> QED
  BY <1>1, <1>6, <1>7 DEF Following, a

(***************************************************************************)
(* The part of L1 that is final, and what derives from it, only grow.      *)
(***************************************************************************)
LEMMA FinalL2Grows ==
  ASSUME ChainTypes, UNCHANGED l1Vars \/ L1Block \/ L1Finalizes
  PROVE  /\ FinalL1 \in Seq(L1Contents) /\ FinalL1' \in Seq(L1Contents) /\ IsPrefix(FinalL1, FinalL1')
         /\ FinalL2 \in Seq(Blocks) /\ FinalL2' \in Seq(Blocks) /\ IsPrefix(FinalL2, FinalL2')
<1>1. FinalL1 \in Seq(L1Contents) /\ FinalL1' \in Seq(L1Contents) /\ IsPrefix(FinalL1, FinalL1')
  BY FinalGrows
<1> DEFINE a == FinalL1
           b == FinalL1'
<1>2. a \in Seq(L1Contents) /\ b \in Seq(L1Contents) /\ IsPrefix(a, b)
  BY <1>1
<1>3. FinalL2 = Derived(a) /\ FinalL2' = Derived(b)
  BY DEF FinalL2
<1> HIDE DEF a, b
<1>4. Derived(a) \in Seq(Blocks) /\ Derived(b) \in Seq(Blocks) /\ IsPrefix(Derived(a), Derived(b))
  BY <1>2, DerivedGrows DEF Blocks
<1> QED
  BY <1>1, <1>3, <1>4

(***************************************************************************)
(* All moves but those of L1 leave L1 alone.                               *)
(***************************************************************************)
LEMMA MovesOfL1 ==
  ASSUME ChainTypes, SafeMoves
  PROVE  UNCHANGED l1Vars \/ L1Block \/ L1Finalizes
  BY DEF SafeMoves, Advances, Rejects, PullAttributes, Reset, Finalize

(***************************************************************************)
(* Going on to the next L1 block keeps the safe head in step with what the *)
(* stages before have seen.                                                *)
(***************************************************************************)
LEMMA GoesOnFollows ==
  ASSUME ChainTypes, HeadTypes, SafeFollows, GoesOn, safeAttributes = {},
         UNCHANGED <<l1, l1Final, safeHead>>
  PROVE  SafeFollows'
<1>1. /\ IsPrefix(prevOrigin, l1) /\ Len(prevOrigin) + 1 \in 0 .. Len(l1)
      /\ prevOrigin' = Upto(l1, Len(prevOrigin) + 1)
      /\ consumed' = consumed /\ safeAttributes' = {}
      /\ l1 \in Seq(L1Contents) /\ prevOrigin \in Seq(L1Contents) /\ consumed \in Nat
  BY DEF GoesOn, OnCanonicalL1, ChainTypes
<1> DEFINE next == prevOrigin'
<1>2. next \in Seq(L1Contents) /\ IsPrefix(next, l1) /\ Len(next) = Len(prevOrigin) + 1
  BY <1>1, UptoFacts
<1>3. Len(prevOrigin) \in Nat
  BY <1>1
<1> HIDE DEF next
<1>4. IsPrefix(prevOrigin, next)
  BY <1>1, <1>2, <1>3, PrefixesCompare
<1>5. CASE CatchingUp
  <2>1. FinalL1 \in Seq(L1Contents) /\ IsPrefix(FinalL1, l1)
    BY UptoFacts DEF FinalL1, ChainTypes
  <2>2. /\ FinalL2 \in Seq(Blocks) /\ Derived(l1) \in Seq(Blocks) /\ IsPrefix(FinalL2, Derived(l1))
        /\ Derived(next) \in Seq(Blocks) /\ IsPrefix(Derived(next), Derived(l1))
    BY <1>1, <1>2, <2>1, DerivedGrows DEF FinalL2, Blocks
  <2>3. consumed = 0 /\ IsPrefix(safeHead, FinalL2) /\ safeHead \in Seq(Blocks)
    BY <1>5 DEF CatchingUp, HeadTypes
  <2>4. IsPrefix(safeHead, Derived(l1))
    BY <2>2, <2>3, PrefixTrans
  <2>5. Comparable(safeHead, Derived(next))
    BY <2>2, <2>3, <2>4, OneChain
  <2>6. FinalL2' = FinalL2
    BY DEF FinalL2, FinalL1
  <2>7. CatchingUp'
    BY <1>1, <2>3, <2>5, <2>6 DEF CatchingUp, next
  <2> QED
    BY <2>7 DEF SafeFollows
<1>6. CASE Following
  <2>1. Len(Attributes(prevOrigin)) \in Nat
    BY <1>1, DerivedParts
  <2>2. consumed \in 0 .. Len(Attributes(prevOrigin))
    BY <1>1, <1>6, <2>1 DEF Following
  <2>3. /\ consumed \in 0 .. Len(Attributes(next))
        /\ Upto(Attributes(next), consumed) = Upto(Attributes(prevOrigin), consumed)
    BY <1>1, <1>2, <1>4, <2>2, SameFirstAttributes
  <2>4. consumed <= Len(Attributes(next)) /\ safeHead = Accepted(Upto(Attributes(next), consumed))
    BY <1>6, <2>3 DEF Following
  <2>5. Following'
    BY <1>1, <2>4 DEF Following, next
  <2> QED
    BY <2>5 DEF SafeFollows
<1>7. CASE Buffering
  <2>1. Len(Attributes(prevOrigin)) \in Nat /\ consumed \in 1 .. Len(Attributes(prevOrigin))
    BY <1>1, <1>7, DerivedParts DEF Buffering
  <2>2. consumed \in 0 .. Len(Attributes(prevOrigin)) /\ consumed - 1 \in 0 .. Len(Attributes(prevOrigin))
    BY <2>1
  <2>3. /\ consumed \in 0 .. Len(Attributes(next))
        /\ Upto(Attributes(next), consumed - 1) = Upto(Attributes(prevOrigin), consumed - 1)
    BY <1>1, <1>2, <1>4, <2>2, SameFirstAttributes
  <2>4. /\ consumed \in 1 .. Len(Attributes(next))
        /\ safeHead = Accepted(Upto(Attributes(next), consumed - 1))
    BY <1>7, <2>1, <2>3 DEF Buffering
  <2>5. Buffering'
    BY <1>1, <2>4 DEF Buffering, next
  <2> QED
    BY <2>5 DEF SafeFollows
<1> QED
  BY <1>5, <1>6, <1>7 DEF SafeFollows

(***************************************************************************)
(* A step keeps the safe head in step with what derives from L1.           *)
(***************************************************************************)
LEMMA StepKeepsSafeFollows ==
  ASSUME ~LateBatches, ChainTypes, HeadTypes, AttributesKept, FinalityOnSafe, EQDerivedInv, SafeMoves
  PROVE  SafeFollows'
<1>1. SafeFollows /\ IsPrefix(eFinal, FinalL2)
  BY DEF EQDerivedInv, FinalityDerived
<1>2. FinalL2 \in Seq(Blocks) /\ FinalL2' \in Seq(Blocks) /\ IsPrefix(FinalL2, FinalL2')
  BY MovesOfL1, FinalL2Grows
<1>3. safeHead \in Seq(Blocks) /\ eFinal \in Seq(Blocks)
  BY DEF HeadTypes
<1>4. ASSUME UNCHANGED <<prevOrigin, consumed, safeHead, safeAttributes>> PROVE SafeFollows'
  <2>1. CASE CatchingUp
    <3>1. IsPrefix(safeHead, FinalL2')
      BY <1>2, <1>3, <2>1, PrefixTrans DEF CatchingUp
    <3>2. CatchingUp'
      BY <1>4, <2>1, <3>1 DEF CatchingUp
    <3> QED
      BY <3>2 DEF SafeFollows
  <2>2. CASE Following
    BY <1>4, <2>2 DEF Following, SafeFollows
  <2>3. CASE Buffering
    BY <1>4, <2>3 DEF Buffering, SafeFollows
  <2> QED
    BY <1>1, <2>1, <2>2, <2>3 DEF SafeFollows
<1>5. CASE Still
  BY <1>4, <1>5 DEF Still, prevVars
<1>6. CASE Advances \/ Rejects
  BY <1>1, <1>6, NextFollows DEF SafeFollows
<1>7. CASE PullAttributes
  <2>1. /\ safeAttributes = {} /\ UNCHANGED <<l1, l1Final, safeHead>>
        /\ UNCHANGED <<prevOrigin, consumed, safeAttributes>> \/ Takes \/ GoesOn
    BY <1>7, PullFacts
  <2>2. CASE UNCHANGED <<prevOrigin, consumed, safeAttributes>>
    BY <1>4, <2>1, <2>2
  <2>3. CASE GoesOn
    BY <1>1, <2>1, <2>3, GoesOnFollows
  <2>4. CASE Takes
    <3>1. consumed \in Nat
      BY DEF ChainTypes
    <3>2. /\ consumed' \in consumed + 1 .. Len(Attributes(prevOrigin)) /\ prevOrigin' = prevOrigin
          /\ safeHead = Accepted(Upto(Attributes(prevOrigin), consumed' - 1))
          /\ \A attrs \in safeAttributes' : attrs.content = Attributes(prevOrigin)[consumed']
      BY <2>4 DEF Takes
    <3>3. consumed' \in 1 .. Len(Attributes(prevOrigin))
      <4>1. Len(Attributes(prevOrigin)) \in Nat
        BY DerivedParts DEF ChainTypes
      <4> QED
        BY <3>1, <3>2, <4>1
    <3>4. Buffering'
      BY <2>1, <3>2, <3>3 DEF Buffering
    <3> QED
      BY <3>4 DEF SafeFollows
  <2> QED
    BY <2>1, <2>2, <2>3, <2>4
<1>8. CASE Reset
  <2>1. /\ safeHead' = eFinal /\ IsPrefix(Derived(prevOrigin'), safeHead')
        /\ consumed' = 0 /\ safeAttributes' = {}
    BY <1>8, ResetFacts
  <2>2. IsPrefix(safeHead', FinalL2')
    BY <1>1, <1>2, <1>3, <2>1, PrefixTrans
  <2>3. CatchingUp'
    BY <2>1, <2>2 DEF CatchingUp, Comparable
  <2> QED
    BY <2>3 DEF SafeFollows
<1>9. CASE Finalize
  BY <1>4, <1>9, SignalFacts
<1> QED
  BY <1>5, <1>6, <1>7, <1>8, <1>9 DEF SafeMoves

(***************************************************************************)
(* An L2 block that can be finalized derives from finalized L1 blocks once *)
(* its L1 block is among them.                                             *)
(***************************************************************************)
LEMMA EntryBecomesFinal ==
  ASSUME ChainTypes, NEW l2 \in Seq(Blocks), NEW at \in Seq(L1Contents), IsPrefix(at, FinalL1),
         IsPrefix(l2, FinalL2) \/ IsPrefix(l2, Derived(at))
  PROVE  IsPrefix(l2, FinalL2)
<1>1. FinalL1 \in Seq(L1Contents)
  BY UptoFacts DEF FinalL1, ChainTypes
<1>2. Derived(at) \in Seq(Blocks) /\ FinalL2 \in Seq(Blocks) /\ IsPrefix(Derived(at), FinalL2)
  BY <1>1, DerivedGrows DEF FinalL2, Blocks
<1> QED
  BY <1>2, PrefixTrans

(***************************************************************************)
(* What can be finalized after a step derives from the L1 block it is      *)
(* filed under, or is final already.                                       *)
(***************************************************************************)
LEMMA EntriesStayDerived ==
  ASSUME ChainTypes, HeadTypes, AttributesKept, FinalityOnSafe, EQDerivedInv, SafeMoves
  PROVE  \A j \in DOMAIN finalityData' :
           \/ IsPrefix(finalityData'[j].l2, FinalL2')
           \/ IsPrefix(finalityData'[j].l2, Derived(finalityData'[j].l1))
<1> DEFINE Good(e) == IsPrefix(e.l2, FinalL2') \/ IsPrefix(e.l2, Derived(e.l1))
<1> SUFFICES \A j \in DOMAIN finalityData' : Good(finalityData'[j])
  OBVIOUS
<1>1. /\ FinalL2 \in Seq(Blocks) /\ FinalL2' \in Seq(Blocks) /\ IsPrefix(FinalL2, FinalL2')
      /\ SafeFollows
  BY MovesOfL1, FinalL2Grows DEF EQDerivedInv
<1>2. ASSUME NEW i \in DOMAIN finalityData PROVE Good(finalityData[i])
  <2>1. finalityData[i].l2 \in Seq(Blocks)
    BY EntryTypes DEF HeadTypes
  <2>2. \/ IsPrefix(finalityData[i].l2, FinalL2)
        \/ IsPrefix(finalityData[i].l2, Derived(finalityData[i].l1))
    BY DEF EQDerivedInv, FinalityDerived
  <2>3. IsPrefix(finalityData[i].l2, FinalL2) => IsPrefix(finalityData[i].l2, FinalL2')
    BY <1>1, <2>1, PrefixTrans
  <2> QED
    BY <2>2, <2>3
<1>3. ASSUME finalityData' = finalityData PROVE \A j \in DOMAIN finalityData' : Good(finalityData'[j])
  BY <1>2, <1>3
<1>4. CASE Still \/ Rejects \/ Finalize
  <2>1. finalityData' = finalityData
    BY <1>4 DEF Still, Rejects, Finalize, finalityVars
  <2> QED
    BY <1>3, <2>1
<1>5. CASE Reset
  <2>1. DOMAIN finalityData' = {}
    BY <1>5 DEF Reset
  <2> QED
    BY <2>1
<1>6. CASE Advances
  <2>1. \A j \in DOMAIN finalityData' :
          \/ finalityData'[j] = [l2 |-> safeHead', l1 |-> origin]
          \/ \E i \in DOMAIN finalityData : finalityData'[j] = finalityData[i]
    BY <1>6, AdvanceFacts
  <2>2. Following' /\ prevOrigin' = prevOrigin /\ consumed' = consumed
    BY <1>1, <1>6, NextFollows DEF Advances, prevVars
  <2>3. origin = prevOrigin /\ prevOrigin \in Seq(L1Contents) /\ consumed \in Nat
    BY <1>6 DEF Advances, AttributesKept, ChainTypes
  <2>4. consumed \in 0 .. Len(Attributes(prevOrigin))
    <3>1. Len(Attributes(prevOrigin)) \in Nat
      BY <2>3, DerivedParts
    <3> QED
      BY <2>2, <2>3, <3>1 DEF Following
  <2>5. IsPrefix(safeHead', Derived(origin))
    BY <2>2, <2>3, <2>4, DerivedParts DEF Following
  <2>6. Good([l2 |-> safeHead', l1 |-> origin])
    BY <2>5
  <2> HIDE DEF Good
  <2> QED
    BY <1>2, <2>1, <2>6
<1>7. CASE PullAttributes
  <2>1. \A j \in DOMAIN finalityData' :
          \/ finalityData'[j] = [l2 |-> safeHead, l1 |-> prevOrigin]
          \/ \E i \in DOMAIN finalityData : finalityData'[j] = finalityData[i]
    BY <1>7, PullFacts
  <2>2. IsPrefix(safeHead, FinalL2) \/ IsPrefix(safeHead, Derived(prevOrigin))
    BY <1>1, SafeOrigin
  <2>3. IsPrefix(safeHead, FinalL2) => IsPrefix(safeHead, FinalL2')
    BY <1>1, PrefixTrans DEF HeadTypes
  <2>4. Good([l2 |-> safeHead, l1 |-> prevOrigin])
    BY <2>2, <2>3
  <2> HIDE DEF Good
  <2> QED
    BY <1>2, <2>1, <2>4
<1> QED
  BY <1>4, <1>5, <1>6, <1>7 DEF SafeMoves

(***************************************************************************)
(* What is finalized derives from finalized L1 blocks: by a signal,        *)
(* because the signalled block is among those the safe head was derived    *)
(* from; while pulling, because the origin is on the canonical L1 chain    *)
(* and not above the signal.                                               *)
(***************************************************************************)
LEMMA FinalizedStaysDerived ==
  ASSUME ChainTypes, HeadTypes, AttributesKept, FinalityOnSafe, FinalityOnSafe', EQDerivedInv,
         SafeMoves
  PROVE  IsPrefix(finalized', FinalL2')
<1>1. /\ FinalL1 \in Seq(L1Contents) /\ FinalL2 \in Seq(Blocks) /\ FinalL2' \in Seq(Blocks)
      /\ IsPrefix(FinalL2, FinalL2')
  BY MovesOfL1, FinalL2Grows
<1>2. /\ finalized \in Seq(Blocks) /\ IsPrefix(finalized, FinalL2)
      /\ eFinal \in Seq(Blocks) /\ IsPrefix(eFinal, FinalL2)
      /\ finalizedL1 \in Seq(L1Contents) /\ IsPrefix(finalizedL1, FinalL1)
      /\ finalityData \in Seq(Entry)
      /\ l1 \in Seq(L1Contents) /\ origin \in Seq(L1Contents) /\ prevOrigin \in Seq(L1Contents)
      /\ l1Final \in 0 .. Len(l1) /\ Len(l1) \in Nat
  BY DEF HeadTypes, ChainTypes, EQDerivedInv, FinalityDerived
<1>3. FinalL1 = Upto(l1, l1Final) /\ Len(FinalL1) = l1Final /\ IsPrefix(FinalL1, l1)
  BY <1>2, UptoFacts DEF FinalL1
<1>4. ASSUME finalized' \in {finalized, eFinal} PROVE IsPrefix(finalized', FinalL2')
  BY <1>1, <1>2, <1>4, PrefixTrans
<1>5. CASE Still \/ Advances \/ Rejects \/ Reset
  BY <1>4, <1>5 DEF Still, Advances, Rejects, Reset, finalityVars
<1>6. CASE Finalize
  <2>1. /\ UNCHANGED <<l1, l1Final>>
        /\ finalizedL1' \in Seq(L1Contents) /\ Len(finalizedL1') \in 1 .. l1Final
        /\ finalizedL1' = Upto(l1, Len(finalizedL1'))
        /\ \/ finalized' = finalized
           \/ /\ OnSameChain(finalizedL1')
              /\ \E i \in DOMAIN finalityData :
                   finalized' = finalityData[i].l2 /\ Len(finalityData[i].l1) <= Len(finalizedL1')
    BY <1>6, SignalFacts
  <2>2. CASE finalized' = finalized
    BY <1>4, <2>2
  <2>3. CASE OnSameChain(finalizedL1') /\
             \E i \in DOMAIN finalityData :
                finalized' = finalityData[i].l2 /\ Len(finalityData[i].l1) <= Len(finalizedL1')
    <3> DEFINE signal == finalizedL1'
    <3>1. PICK i \in DOMAIN finalityData :
            finalized' = finalityData[i].l2 /\ Len(finalityData[i].l1) <= Len(signal)
      BY <2>3
    <3>2. PICK k \in DOMAIN finalityData : finalityData[k].l1 = signal
      BY <2>3 DEF OnSameChain
    <3>3. signal \in Seq(L1Contents) /\ signal = Upto(l1, Len(signal)) /\ Len(signal) \in 1 .. l1Final
      BY <2>1
    <3> HIDE DEF signal
    <3>4. IsPrefix(signal, FinalL1)
      <4>1. Len(signal) \in 0 .. Len(l1) /\ Len(signal) <= Len(FinalL1)
        BY <1>2, <1>3, <3>3
      <4>2. IsPrefix(signal, l1)
        BY <1>2, <3>3, <4>1, UptoFacts
      <4> QED
        BY <1>1, <1>2, <1>3, <3>3, <4>1, <4>2, PrefixesCompare
    <3>5. /\ finalityData[i].l2 \in Seq(Blocks) /\ finalityData[i].l1 \in Seq(L1Contents)
          /\ IsPrefix(finalityData[i].l1, origin) /\ IsPrefix(signal, origin)
      BY <1>2, <3>2, EntryTypes DEF FinalityOnSafe
    <3>6. IsPrefix(finalityData[i].l1, signal)
      BY <1>2, <3>1, <3>3, <3>5, PrefixesCompare
    <3>7. IsPrefix(finalityData[i].l1, FinalL1)
      BY <1>1, <3>3, <3>4, <3>5, <3>6, PrefixTrans
    <3>8. \/ IsPrefix(finalityData[i].l2, FinalL2)
          \/ IsPrefix(finalityData[i].l2, Derived(finalityData[i].l1))
      BY DEF EQDerivedInv, FinalityDerived
    <3>9. IsPrefix(finalityData[i].l2, FinalL2)
      BY <3>5, <3>7, <3>8, EntryBecomesFinal
    <3> QED
      BY <1>1, <3>1, <3>5, <3>9, PrefixTrans
  <2> QED
    BY <2>1, <2>2, <2>3
<1>7. CASE PullAttributes
  <2>1. /\ origin' = prevOrigin /\ UNCHANGED <<l1, l1Final>> /\ finalityData' \in Seq(Entry)
        /\ \/ finalized' = finalized
           \/ /\ OnCanonicalL1 /\ Len(prevOrigin) <= Len(finalizedL1)
              /\ \E i \in DOMAIN finalityData' : finalized' = finalityData'[i].l2
    BY <1>7, PullFacts
  <2>2. CASE finalized' = finalized
    BY <1>4, <2>2
  <2>3. CASE /\ OnCanonicalL1 /\ Len(prevOrigin) <= Len(finalizedL1)
             /\ \E i \in DOMAIN finalityData' : finalized' = finalityData'[i].l2
    <3> DEFINE data == finalityData'
    <3>1. PICK i \in DOMAIN data : finalized' = data[i].l2
      BY <2>3
    <3>2. IsPrefix(data[i].l1, prevOrigin)
      BY <2>1, <3>1 DEF FinalityOnSafe
    <3>3. FinalL2' = FinalL2
      BY <2>1 DEF FinalL2, FinalL1
    <3>4. IsPrefix(data[i].l2, FinalL2) \/ IsPrefix(data[i].l2, Derived(data[i].l1))
      BY <3>1, <3>3, EntriesStayDerived
    <3>5. data \in Seq(Entry)
      BY <2>1
    <3> HIDE DEF data
    <3>6. data[i].l2 \in Seq(Blocks) /\ data[i].l1 \in Seq(L1Contents)
      BY <3>1, <3>5, EntryTypes
    <3>7. IsPrefix(prevOrigin, FinalL1)
      <4>1. IsPrefix(prevOrigin, l1) /\ Len(prevOrigin) \in Nat /\ Len(finalizedL1) \in Nat
        BY <1>2, <2>3 DEF OnCanonicalL1
      <4>2. Len(finalizedL1) <= Len(FinalL1)
        BY <1>1, <1>2, PrefixIs
      <4>3. Len(prevOrigin) <= Len(FinalL1)
        BY <1>2, <1>3, <2>3, <4>1, <4>2
      <4> QED
        BY <1>1, <1>2, <1>3, <4>1, <4>3, PrefixesCompare
    <3>8. IsPrefix(data[i].l1, FinalL1)
      BY <1>1, <1>2, <3>2, <3>6, <3>7, PrefixTrans
    <3>9. IsPrefix(data[i].l2, FinalL2)
      BY <3>4, <3>6, <3>8, EntryBecomesFinal
    <3> QED
      BY <3>1, <3>3, <3>9
  <2> QED
    BY <2>1, <2>2, <2>3
<1> QED
  BY <1>5, <1>6, <1>7 DEF SafeMoves

(***************************************************************************)
(* EQDerivedInv is inductive, given EQInv, if batches are not late.        *)
(***************************************************************************)
LEMMA EQDerivedInvInductive ==
  ASSUME ~LateBatches
  PROVE  /\ EQInit => EQDerivedInv
         /\ EQInv /\ EQInv' /\ EQDerivedInv /\ [EQNext]_eqVars => EQDerivedInv'
<1>1. EQInit => EQDerivedInv
  <2> SUFFICES ASSUME EQInit PROVE EQDerivedInv
    OBVIOUS
  <2>2. ChainTypes
    BY EQInvInductive DEF EQInv
  <2>3. FinalL1 \in Seq(L1Contents)
    BY <2>2, UptoFacts DEF FinalL1, ChainTypes
  <2>4. FinalL2 \in Seq(Blocks) /\ Derived(prevOrigin) \in Seq(Blocks)
    BY <2>2, <2>3, DerivedParts DEF FinalL2, ChainTypes
  <2>5. /\ IsPrefix(Genesis, FinalL2) /\ IsPrefix(Genesis, Derived(prevOrigin))
        /\ IsPrefix(Genesis, FinalL1)
    BY <2>3, <2>4, PrefixEnds
  <2>6. SafeFollows
    BY <2>5 DEF EQInit, SafeFollows, CatchingUp, Comparable
  <2>7. DOMAIN finalityData = {}
    BY DEF EQInit
  <2>8. FinalityDerived
    BY <2>5, <2>7 DEF EQInit, FinalityDerived
  <2> QED
    BY <2>6, <2>8 DEF EQDerivedInv
<1>2. ASSUME EQInv, EQInv', EQDerivedInv, [EQNext]_eqVars PROVE EQDerivedInv'
  <2>1. /\ PQTypeOK /\ ChainTypes /\ HeadTypes /\ AttributesKept /\ FinalityOnSafe
        /\ HeadTypes' /\ FinalityOnSafe'
    BY <1>2 DEF EQInv, PQInv
  <2>2. SafeMoves
    BY <1>2, <2>1, StepMovesSafe
  <2>3. SafeFollows'
    BY <1>2, <2>1, <2>2, StepKeepsSafeFollows
  <2>4. IsPrefix(finalized', FinalL2')
    BY <1>2, <2>1, <2>2, FinalizedStaysDerived
  <2>5. \A j \in DOMAIN finalityData' :
           \/ IsPrefix(finalityData'[j].l2, FinalL2')
           \/ IsPrefix(finalityData'[j].l2, Derived(finalityData'[j].l1))
    BY <1>2, <2>1, <2>2, EntriesStayDerived
  <2>6. /\ FinalL1 \in Seq(L1Contents) /\ FinalL1' \in Seq(L1Contents) /\ IsPrefix(FinalL1, FinalL1')
        /\ FinalL2 \in Seq(Blocks) /\ FinalL2' \in Seq(Blocks) /\ IsPrefix(FinalL2, FinalL2')
    BY <2>1, <2>2, MovesOfL1, FinalL2Grows
  <2>7. IsPrefix(eFinal', FinalL2')
    <3>1. eFinal' \in {eFinal, finalized}
      BY <1>2, <2>1, StepMovesUnsafe
    <3>2. /\ eFinal \in Seq(Blocks) /\ IsPrefix(eFinal, FinalL2)
          /\ finalized \in Seq(Blocks) /\ IsPrefix(finalized, FinalL2)
      BY <1>2, <2>1 DEF HeadTypes, EQDerivedInv, FinalityDerived
    <3> QED
      BY <2>6, <3>1, <3>2, PrefixTrans
  <2>8. IsPrefix(finalizedL1', FinalL1')
    <3>1. finalizedL1 \in Seq(L1Contents) /\ IsPrefix(finalizedL1, FinalL1)
      BY <1>2, <2>1 DEF ChainTypes, EQDerivedInv, FinalityDerived
    <3>2. CASE finalizedL1' = finalizedL1
      BY <2>6, <3>1, <3>2, PrefixTrans
    <3>3. CASE Finalize
      <4> DEFINE signal == finalizedL1'
      <4>1. /\ UNCHANGED <<l1, l1Final>> /\ signal \in Seq(L1Contents)
            /\ Len(signal) \in 1 .. l1Final /\ signal = Upto(l1, Len(signal))
        BY <2>1, <3>3, SignalFacts
      <4> HIDE DEF signal
      <4>2. l1 \in Seq(L1Contents) /\ l1Final \in 0 .. Len(l1) /\ Len(l1) \in Nat
        BY <2>1 DEF ChainTypes
      <4>3. Len(FinalL1) = l1Final /\ IsPrefix(FinalL1, l1)
        BY <4>2, UptoFacts DEF FinalL1
      <4>4. Len(signal) \in 0 .. Len(l1) /\ Len(signal) <= Len(FinalL1)
        BY <4>1, <4>2, <4>3
      <4>5. IsPrefix(signal, l1)
        BY <4>1, <4>2, <4>4, UptoFacts
      <4>6. IsPrefix(signal, FinalL1)
        BY <2>6, <4>1, <4>2, <4>3, <4>4, <4>5, PrefixesCompare
      <4> QED
        BY <4>1, <4>6 DEF signal, FinalL1
    <3> QED
      BY <2>2, <3>2, <3>3 DEF SafeMoves, Still, Advances, Rejects, PullAttributes, Reset, finalityVars
  <2>9. FinalityDerived'
    BY <2>4, <2>5, <2>7, <2>8 DEF FinalityDerived
  <2> QED
    BY <2>3, <2>9 DEF EQDerivedInv
<1> QED
  BY <1>1, <1>2

-----------------------------------------------------------------------------
(***************************************************************************)
(* Every state of the engine queue, of its payloads and of the engine has  *)
(* its type, whatever arrives, fails or is reorged.                        *)
(***************************************************************************)
THEOREM EQTypeCorrect == EQSpec => []EQTypeOK
<1>1. EQInv => EQTypeOK
  <2> SUFFICES ASSUME EQInv PROVE EQTypeOK
    OBVIOUS
  <2>1. PQTypeOK /\ ChainTypes /\ HeadTypes /\ AttributesKept
    BY DEF EQInv, PQInv
  <2>2. Seq(Blocks) \subseteq Seq(Contents)
    <3>1. \A s \in Seq(Blocks) : s \in [1 .. Len(s) -> Contents] /\ Len(s) \in Nat
      BY DEF Blocks
    <3> QED
      BY <3>1
  <2>3. \A job \in building : job.onto \in Seq(Contents) /\ job.content \in Contents
    BY <2>1, <2>2 DEF HeadTypes
  <2>4. \A a \in safeAttributes : a.content \in Contents /\ a.parent \in Seq(Contents)
    BY <2>1, <2>2 DEF HeadTypes, AttributesKept
  <2>5. {finalized, safeHead, unsafeHead, eHead, eSafe, eFinal} \subseteq Seq(Contents \ Invalid)
    BY <2>1 DEF HeadTypes, Blocks
  <2>6. {resetNeeded, needForkchoiceUpdate} \subseteq BOOLEAN
    BY <2>1, Zenon DEF ChainTypes
  <2>7. /\ l1 \in Seq(L1Contents) /\ l1Final \in 0 .. Len(l1)
        /\ {prevOrigin, origin, finalizedL1} \subseteq Seq(L1Contents)
        /\ consumed \in Nat /\ triedFinalizeAt \in Nat \cup {Never}
        /\ Len(finalityData) <= finalityLookback
    BY <2>1 DEF ChainTypes, HeadTypes
  <2> QED
    BY <2>1, <2>3, <2>4, <2>5, <2>6, <2>7 DEF EQTypeOK
<1> QED
  BY EQInvInductive, <1>1, PTL DEF EQSpec

(***************************************************************************)
(* The finalized head never passes the safe head or leaves its chain, and  *)
(* the unsafe head is on the chain of the safe head unless a forkchoice    *)
(* update or a reset is pending, after any lost reply, stale job, reorg or *)
(* reset.                                                                  *)
(***************************************************************************)
THEOREM EQHeadsOrdered == EQSpec => []HeadsOrdered
<1>1. EQInv => HeadsOrdered
  BY DEF EQInv, FinalityOnSafe, HeadsApart, HeadsOrdered, Comparable
<1> QED
  BY EQInvInductive, <1>1, PTL DEF EQSpec

(***************************************************************************)
(* The attributes that tryNextSafeAttributes finds are always for the safe *)
(* head.                                                                   *)
(***************************************************************************)
THEOREM EQAttributesFresh == EQSpec => []AttributesFresh
<1>1. EQInv => AttributesFresh
  BY DEF EQInv, AttributesKept, AttributesFresh
<1> QED
  BY EQInvInductive, <1>1, PTL DEF EQSpec

(***************************************************************************)
(* The engine queue uses its payloads queue only through Push and Pop, so  *)
(* that all that holds of PayloadsQueue holds of the buffer inside the     *)
(* engine queue.                                                           *)
(***************************************************************************)
THEOREM EQImplementsPQ == EQSpec => PQSpec
<1>1. EQInit => PQInit
  BY DEF EQInit
<1>2. EQInv /\ [EQNext]_eqVars => [PQNext]_pqVars
  <2> SUFFICES ASSUME EQInv, [EQNext]_eqVars PROVE [PQNext]_pqVars
    OBVIOUS
  <2>1. PQTypeOK
    BY DEF EQInv, PQInv
  <2> QED
    BY <2>1, StepMovesPayloads
<1> QED
  BY <1>1, <1>2, EQInvInductive, PTL DEF EQSpec, PQSpec

(***************************************************************************)
(* If batches are not late, EQDerivedInv holds as well.                    *)
(***************************************************************************)
THEOREM EQDerivedInvHolds ==
  ASSUME ~LateBatches
  PROVE  EQSpec => []EQDerivedInv
<1>1. EQInit => EQInv /\ EQDerivedInv
  BY EQInvInductive, EQDerivedInvInductive
<1>2. EQInv /\ EQDerivedInv /\ [EQNext]_eqVars => EQInv' /\ EQDerivedInv'
  BY EQInvInductive, EQDerivedInvInductive
<1> QED
  BY <1>1, <1>2, PTL DEF EQSpec

(***************************************************************************)
(* The safe head never contradicts what derives from L1, whatever the      *)
(* sequencer or gossip put into the engine.                                *)
(***************************************************************************)
THEOREM EQSafeIsDerived ==
  ASSUME ~LateBatches
  PROVE  EQSpec => []SafeIsDerived
<1>1. EQInv /\ EQDerivedInv => SafeIsDerived
  <2> SUFFICES ASSUME EQInv, EQDerivedInv PROVE SafeIsDerived
    OBVIOUS
  <2>1. Comparable(safeHead, Derived(prevOrigin))
    BY SafeOrigin DEF EQInv, EQDerivedInv
  <2> QED
    BY <2>1 DEF Comparable, SafeIsDerived
<1> QED
  BY EQInvInductive, EQDerivedInvHolds, <1>1, PTL DEF EQSpec

(***************************************************************************)
(* The finalized head derives from the finalized part of L1: no reorg of   *)
(* L1 can undo it.                                                         *)
(***************************************************************************)
THEOREM EQFinalizedIsDerived ==
  ASSUME ~LateBatches
  PROVE  EQSpec => []FinalizedIsDerived
<1>1. EQDerivedInv => FinalizedIsDerived
  BY DEF EQDerivedInv, FinalityDerived, FinalL2, FinalL1, FinalizedIsDerived
<1> QED
  BY EQDerivedInvHolds, <1>1, PTL

(***************************************************************************)
(* So does the finalized label of the engine.                              *)
(***************************************************************************)
THEOREM EQEngineFinalIsDerived ==
  ASSUME ~LateBatches
  PROVE  EQSpec => []EngineFinalIsDerived
<1>1. EQDerivedInv => EngineFinalIsDerived
  BY DEF EQDerivedInv, FinalityDerived, FinalL2, FinalL1, EngineFinalIsDerived
<1> QED
  BY EQDerivedInvHolds, <1>1, PTL

(***************************************************************************)
(* The finalized label of the engine never moves back or to another chain, *)
(* although a reset may take back what the node has finalized and the      *)
(* engine has not been told of.                                            *)
(***************************************************************************)
EngineFinalGrows == [][IsPrefix(eFinal, eFinal')]_eqVars

(***************************************************************************)
(* The label is behind the finalized head.                                 *)
(***************************************************************************)
LabelBehind == IsPrefix(eFinal, finalized)

(***************************************************************************)
(* A new finalized block extends the one before, as both are ancestors of  *)
(* the safe head.                                                          *)
(***************************************************************************)
LEMMA StepKeepsLabelBehind ==
  ASSUME EQInv, LabelBehind, [EQNext]_eqVars
  PROVE  IsPrefix(eFinal, eFinal') /\ LabelBehind'
<1>1. /\ PQTypeOK /\ ChainTypes /\ HeadTypes /\ AttributesKept /\ FinalityOnSafe
  BY DEF EQInv, PQInv
<1>2. /\ eFinal \in Seq(Blocks) /\ finalized \in Seq(Blocks) /\ safeHead \in Seq(Blocks)
      /\ Len(finalized) \in Nat /\ IsPrefix(finalized, safeHead) /\ IsPrefix(eFinal, finalized)
  BY <1>1 DEF HeadTypes, FinalityOnSafe, LabelBehind
<1>3. eFinal' \in {eFinal, finalized}
  BY <1>1, StepMovesUnsafe
<1>4. finalized' \in Seq(Blocks) /\ FinalityOnSafe' /\ safeHead' \in Seq(Blocks)
  <2>1. HeadTypes' /\ FinalityOnSafe'
    BY <1>1, StepKeepsTypes
  <2> QED
    BY <2>1 DEF HeadTypes
<1>5. IsPrefix(eFinal, eFinal') /\ IsPrefix(eFinal', finalized)
  BY <1>2, <1>3, PrefixEnds
<1>6. ASSUME IsPrefix(finalized, finalized') PROVE IsPrefix(eFinal', finalized')
  <2> DEFINE label == eFinal'
             next == finalized'
  <2>1. /\ label \in Seq(Blocks) /\ next \in Seq(Blocks)
        /\ IsPrefix(label, finalized) /\ IsPrefix(finalized, next)
    BY <1>2, <1>3, <1>4, <1>5, <1>6
  <2> HIDE DEF label, next
  <2>2. IsPrefix(label, next)
    BY <1>2, <2>1, PrefixTrans
  <2> QED
    BY <2>2 DEF label, next
<1>7. ASSUME safeHead' = safeHead, finalized' = finalized \/ Len(finalized') > Len(finalized)
      PROVE  IsPrefix(finalized, finalized')
  <2> DEFINE next == finalized'
  <2>1. next \in Seq(Blocks) /\ IsPrefix(next, safeHead) /\ Len(next) \in Nat
        /\ (next = finalized \/ Len(next) > Len(finalized))
    BY <1>4, <1>7 DEF FinalityOnSafe
  <2> HIDE DEF next
  <2>2. Len(finalized) <= Len(next)
    BY <1>2, <2>1
  <2>3. IsPrefix(finalized, next)
    BY <1>2, <2>1, <2>2, PrefixesCompare
  <2> QED
    BY <2>3 DEF next
<1>8. CASE Still \/ Advances \/ Rejects
  <2>1. finalized' = finalized
    BY <1>8 DEF Still, Advances, Rejects, finalityVars
  <2>2. IsPrefix(finalized, finalized')
    BY <1>2, <2>1, PrefixEnds
  <2> QED
    BY <1>5, <1>6, <2>2 DEF LabelBehind
<1>9. CASE PullAttributes
  <2>1. safeHead' = safeHead /\ (finalized' = finalized \/ Len(finalized') > Len(finalized))
    BY <1>1, <1>9, PullFacts
  <2> QED
    BY <1>5, <1>6, <1>7, <2>1 DEF LabelBehind
<1>10. CASE Finalize
  <2>1. safeHead' = safeHead /\ (finalized' = finalized \/ Len(finalized') > Len(finalized))
    BY <1>1, <1>10, SignalFacts
  <2> QED
    BY <1>5, <1>6, <1>7, <2>1 DEF LabelBehind
<1>11. CASE Reset
  <2>1. finalized' = eFinal /\ eFinal' = eFinal
    BY <1>1, <1>11, ResetFacts
  <2>2. IsPrefix(eFinal, eFinal)
    BY <1>2, PrefixEnds
  <2> QED
    BY <2>1, <2>2 DEF LabelBehind
<1>12. SafeMoves
  BY <1>1, StepMovesSafe
<1> QED
  BY <1>5, <1>8, <1>9, <1>10, <1>11, <1>12 DEF SafeMoves

(***************************************************************************)
(* The finalized label of the engine only moves forward on its chain, with *)
(* late batches as well.                                                   *)
(***************************************************************************)
THEOREM EQEngineFinalGrows == EQSpec => EngineFinalGrows
<1> DEFINE A == IsPrefix(eFinal, eFinal')
<1>1. EQInit => LabelBehind
  <2>1. Genesis \in Seq({})
    BY DEF Genesis
  <2>2. IsPrefix(Genesis, Genesis)
    BY <2>1, PrefixEnds
  <2> QED
    BY <2>2 DEF EQInit, LabelBehind
<1>2. EQInv /\ LabelBehind /\ [EQNext]_eqVars => LabelBehind' /\ [A]_eqVars
  BY StepKeepsLabelBehind
<1> QED
  BY EQInvInductive, <1>1, <1>2, PTL DEF EQSpec, EngineFinalGrows

(***************************************************************************)
(* On a node without a sequencer the unsafe head never falls behind the    *)
(* safe head: only a stale job of the sequencer makes                      *)
(* tryNextSafeAttributes correct it.                                       *)
(***************************************************************************)
VerifierHeads == Len(safeHead) <= Len(unsafeHead)

(***************************************************************************)
(* Without a sequencer every job is one of a safe block.                   *)
(***************************************************************************)
VerifierInv == VerifierHeads /\ \A job \in building : job.safe

(***************************************************************************)
(* A step of a node without a sequencer keeps the heads in order.          *)
(***************************************************************************)
LEMMA StepKeepsVerifierInv ==
  ASSUME Sequenced = {}, EQInv, VerifierInv, [EQNext]_eqVars
  PROVE  VerifierInv'
<1>1. PQTypeOK /\ ChainTypes /\ HeadTypes /\ AttributesKept /\ FinalityOnSafe
  BY DEF EQInv, PQInv
<1>2. /\ safeHead \in Seq(Blocks) /\ unsafeHead \in Seq(Blocks)
      /\ Len(safeHead) \in Nat /\ Len(unsafeHead) \in Nat /\ Len(safeHead) <= Len(unsafeHead)
      /\ \A job \in building : job.safe
  BY <1>1 DEF HeadTypes, VerifierInv, VerifierHeads
<1>3. CASE UNCHANGED <<safeHead, unsafeHead, building>>
  BY <1>2, <1>3 DEF VerifierInv, VerifierHeads
<1>4. CASE \/ DropOldPayload \/ RejectUnsafePayload \/ MissingUnsafe \/ tryUpdateEngine
           \/ PullAttributes \/ RequestReset \/ Finalize \/ L1Step \/ UNCHANGED eqVars
           \/ \E p \in Payloads : AddUnsafePayload(p)
  BY <1>3, <1>4 DEF DropOldPayload, RejectUnsafePayload, MissingUnsafe, tryUpdateEngine,
     PullAttributes, RequestReset, Finalize, L1Step, AddUnsafePayload, eqVars
<1>5. CASE InsertUnsafePayload
  <2>1. PICK first \in Lowest(pq) : /\ ExtendsUnsafe(first) /\ unsafeHead' \in {first, unsafeHead}
                                    /\ UNCHANGED <<safeHead, building>>
    BY <1>5 DEF InsertUnsafePayload
  <2>2. Number[first] = Len(first) /\ Len(first) \in Nat
    BY <1>1, EngineQueueAssumption DEF Lowest, PQTypeOK
  <2>3. Len(safeHead) <= Len(unsafeHead')
    BY <1>2, <2>1, <2>2 DEF ExtendsUnsafe
  <2> QED
    BY <1>2, <2>1, <2>3 DEF VerifierInv, VerifierHeads
<1>6. CASE Consolidate
  <2>1. PICK attrs \in safeAttributes : Matches(attrs)
    BY <1>6 DEF Consolidate
  <2>2. /\ Len(safeHead) < Len(unsafeHead) /\ UNCHANGED <<unsafeHead, building>>
        /\ safeHead' = Append(safeHead, attrs.content)
    BY <1>6, <2>1 DEF Consolidate, Matches
  <2>3. Len(safeHead') = Len(safeHead) + 1
    BY <1>2, <2>2
  <2> QED
    BY <1>2, <2>2, <2>3 DEF VerifierInv, VerifierHeads
<1>7. CASE ForceAttributes
  <2> DEFINE job(attrs) == [onto |-> safeHead, content |-> attrs.content, safe |-> TRUE]
  <2>1. PICK attrs \in safeAttributes :
          \/ attrs.content \notin Invalid /\ Confirmed(job(attrs))
          \/ UNCHANGED <<safeHead, unsafeHead>> /\ building' \in {{}, building, {job(attrs)}}
    BY <1>7 DEF ForceAttributes
  <2>2. CASE Confirmed(job(attrs)) /\ attrs.content \notin Invalid
    <3>1. safeHead' = unsafeHead' /\ building' = {} /\ unsafeHead' = Append(safeHead, attrs.content)
      BY <2>2 DEF Confirmed, JobBlock
    <3>2. Len(unsafeHead') \in Nat
      <4>1. attrs.content \in Blocks
        BY <1>1, <2>2 DEF AttributesKept, Blocks
      <4> QED
        BY <1>2, <3>1, <4>1
    <3> QED
      BY <3>1, <3>2 DEF VerifierInv, VerifierHeads
  <2>3. CASE UNCHANGED <<safeHead, unsafeHead>> /\ building' \in {{}, building, {job(attrs)}}
    <3>1. job(attrs).safe = TRUE
      OBVIOUS
    <3> HIDE DEF job
    <3>2. \A j \in building' : j.safe
      BY <1>2, <2>3, <3>1
    <3> QED
      BY <1>2, <2>3, <3>2 DEF VerifierInv, VerifierHeads
  <2> QED
    BY <2>1, <2>2, <2>3
<1>8. CASE CorrectUnsafeHead
  <2>1. Len(safeHead) > Len(unsafeHead)
    BY <1>8 DEF CorrectUnsafeHead
  <2> QED
    BY <1>2, <2>1
<1>9. CASE Reset
  <2>1. /\ safeHead' \in Seq(Blocks) /\ unsafeHead' \in Seq(Blocks) /\ IsPrefix(safeHead', unsafeHead')
        /\ building' = {}
    BY <1>1, <1>9, ResetFacts
  <2>2. Len(safeHead') <= Len(unsafeHead')
    BY <2>1, PrefixIs
  <2> QED
    BY <2>1, <2>2 DEF VerifierInv, VerifierHeads
<1>10. CASE SequencerStart \/ SequencerComplete
  BY <1>2, <1>10 DEF SequencerStart, SequencerComplete
<1> QED
  BY <1>4, <1>5, <1>6, <1>7, <1>8, <1>9, <1>10 DEF EQNext, Step

(***************************************************************************)
(* The unsafe head of a node without a sequencer is never behind its safe  *)
(* head.                                                                   *)
(***************************************************************************)
THEOREM EQVerifierHeads ==
  ASSUME Sequenced = {}
  PROVE  EQSpec => []VerifierHeads
<1>1. EQInit => VerifierInv
  <2>1. Len(Genesis) <= Len(Genesis)
    BY DEF Genesis
  <2> QED
    BY <2>1 DEF EQInit, VerifierInv, VerifierHeads
<1>2. EQInv /\ VerifierInv /\ [EQNext]_eqVars => VerifierInv'
  BY StepKeepsVerifierInv
<1>3. VerifierInv => VerifierHeads
  BY DEF VerifierInv
<1> QED
  BY EQInvInductive, <1>1, <1>2, <1>3, PTL DEF EQSpec

=============================================================================
